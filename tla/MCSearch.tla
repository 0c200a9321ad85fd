------------------------------ MODULE MCSearch ------------------------------
(***************************************************************************)
(* A small instance of Search: two schemas, credentials of two issuers to  *)
(* one issuee, two of which cannot be indexed, an attestation, and filters.*)
(***************************************************************************)
EXTENDS Search

le  == <<1>>  \* schema with the fields a-i and a-LEI
att == <<2>>  \* schema of an attestation, which has no issuee

MCPayload == le :> <<"a-i", "a-LEI">> @@ att :> <<"a-LEI">>

Issued(s, issuer, n) == "s" :> s @@ "ri" :> <<1>> @@ "i" :> <<issuer>> @@ "d" :> <<n>> @@ "v" :> <<1>>
Lei(value) == "a-LEI" :> value
To(issuee) == "a-i" :> <<issuee>>

\* The fourth lacks the LEI, which is optional; the LEI of the fifth is a number.
MCCreds   == 1..5
MCSad     == << Issued(le, 1, 1) @@ Lei(<<7, 1>>) @@ To(1),
                Issued(le, 2, 2) @@ Lei(<<7>>) @@ To(1),
                Issued(att, 2, 3) @@ Lei(<<7>>),
                Issued(le, 1, 4) @@ To(1),
                Issued(le, 2, 5) @@ Lei(<<7>>) @@ To(1) >>
MCNumbers == << {}, {}, {}, {}, {"a-LEI"} >>

Eq(field, value)     == [field |-> field, test |-> "eq", value |-> value]
Begins(field, value) == [field |-> field, test |-> "begins", value |-> value]
Ask(filter, sort)    == [filter |-> filter, sort |-> sort]

\* Single fields, prefixes, one field that has no index, pairs and triples of indexed fields, and
\* each of them sorted by a payload field or by a pair.
MCFilters ==
  { <<>>, <<Eq("a-i", <<1>>)>>, <<Begins("a-LEI", <<7>>)>>, <<Eq("d", <<2>>)>>,
    <<Eq("s", le), Eq("i", <<1>>)>>, <<Eq("i", <<1>>), Eq("a-LEI", <<7, 1>>)>>,
    <<Eq("i", <<1>>), Begins("a-LEI", <<7>>)>>, <<Eq("i", <<1>>), Eq("d", <<1>>)>>,
    <<Eq("i", <<1>>), Eq("s", le), Eq("a-LEI", <<7, 1>>)>> }
MCSorts   == {<<>>, <<"a-LEI">>, <<"a-i", "a-LEI">>}
MCQueries == {Ask(f, s) : f \in MCFilters, s \in MCSorts}

\* The answers to all of these are checked.
ASSUME AllPlain == \A q \in MCQueries : Plain(q)

=============================================================================
