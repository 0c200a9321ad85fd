-------------------------------- MODULE Search --------------------------------
(***************************************************************************)
(* The search over saved credentials: the Seeker's indexes, which are on   *)
(* disk, the SeekerDoer that fills them from a queue in memory, DELETE     *)
(* /credentials/{said}, and the answers of POST /credentials/query.        *)
(*                                                                         *)
(* An index is named by the sequence of the fields whose values, one after *)
(* the other, are its keys.                                                *)
(***************************************************************************)
EXTENDS Naturals, SequencesExt

CONSTANTS
  Creds,    \* SAIDs, numbered in their order
  Payload,  \* for each schema, the scalar fields of its attributes, in order
  Sad,      \* for each credential, the values of the fields it has, as sequences of numbers
  Numbers,  \* for each credential, the fields whose value is no text but a number
  Queries,  \* what clients ask for: [filter |-> operators, sort |-> fields]
  MaxSaves, \* bound: how often a credential is saved
  MaxCrashes \* bound: how often the process stops

VARIABLES
  saved,   \* reger.saved
  cues,    \* cues of credentials to be indexed
  schIdx,  \* how many of the generated names each schema has on record
  indexes, \* the names of the indexes there are
  table,   \* the credentials in each index
  saves, crashes

stores == <<schIdx, indexes, table>>
vars   == <<saved, cues, stores, saves, crashes>>

ASSUME CredsAssumption == Creds \in SUBSET Nat /\ IsFiniteSet(Creds)
ASSUME SadAssumption   == \A c \in Creds : /\ {"i", "s", "ri"} \subseteq DOMAIN Sad[c]
                                           /\ Sad[c]["s"] \in DOMAIN Payload
                                           /\ Sad[c] \in [DOMAIN Sad[c] -> Seq(Nat)]
ASSUME NumbersAssumption == \A c \in Creds : {"i", "s", "ri"} \cap Numbers[c] = {}
ASSUME PayloadAssumption == \A s \in DOMAIN Payload : /\ Payload[s] \in Seq(STRING)
                                                     /\ {"i", "s", "ri"} \cap Range(Payload[s]) = {}
ASSUME QueryAssumption ==
  \A q \in Queries :
    /\ q.filter \in Seq([field : STRING, test : {"eq", "begins"}, value : Seq(Nat)])
    /\ q.sort \in Seq(STRING)
ASSUME BoundAssumption == MaxSaves \in Nat /\ MaxCrashes \in Nat

Schemas   == DOMAIN Payload
Schema(c) == Sad[c]["s"]
Texts(c)  == DOMAIN Sad[c] \ Numbers[c]

(***************************************************************************)
(* Indexes.                                                                *)
(***************************************************************************)

\* The indexes Seeker.reopen creates.
Static == {<<"s">>, <<"ri">>, <<"i">>, <<"i", "s">>, <<"a-i">>, <<"a-i", "s">>}

OfField(p) ==
  << <<p>>, <<"s", p>>, <<"i", p>>, <<"i", "s", p>>, <<"a-i", p>>, <<"a-i", "s", p>> >>
OfPayload(fields) ==
  [k \in 1..6 * Len(fields) |-> OfField(fields[(k + 5) \div 6])[((k - 1) % 6) + 1]]

\* Those of a schema, in the order of generateIndexes.
Generated == [s \in Schemas |->
  << <<"s">>, <<"i">>, <<"ri">>, <<"i", "s">> >>
    \o (IF "a-i" \in Range(Payload[s]) THEN << <<"a-i">>, <<"a-i", "s">> >> ELSE <<>>)
    \o OfPayload(Payload[s])]

Names == Static \cup UNION {Range(Generated[s]) : s \in Schemas}

\* The fields an index takes its keys from: createIndex gives the name of a pair as one path,
\* of which Pather reads the first field.
Paths(name) == IF name \in Static THEN <<name[1]>> ELSE name

\* The keys of the credentials that have all the fields, as texts: a field that is not there cannot
\* be resolved, and a number cannot be joined.
Keys == [name \in Names |->
          [c \in {c \in Creds : Range(Paths(name)) \subseteq Texts(c)} |->
            FlattenSeq([k \in DOMAIN Paths(name) |-> Sad[c][Paths(name)[k]]])]]
Keyed(name) == DOMAIN Keys[name]

Recorded(s) == SubSeq(Generated[s], 1, schIdx[s])

\* The names of its schema, by their place, that come before the first a credential has no key
\* for, where index and the deletion raise; those of the first n that they get to.
Usable == [c \in Creds |->
  {k \in DOMAIN Generated[Schema(c)] : \A j \in 1..k : c \in Keyed(Generated[Schema(c)][j])}]
Reached == [c \in Creds |-> [n \in 0..Len(Generated[Schema(c)]) |->
  {Generated[Schema(c)][k] : k \in 1..n \cap Usable[c]}]]

\* How many names index goes through.
Worked(c)   == IF schIdx[Schema(c)] = 0 THEN Len(Generated[Schema(c)]) ELSE schIdx[Schema(c)]
Complete(c) == 1..Worked(c) \subseteq Usable[c]

With(c, ns)    == [name \in Names |-> IF name \in ns THEN table[name] \cup {c} ELSE table[name]]
Without(c, ns) == [name \in Names |-> IF name \in ns THEN table[name] \ {c} ELSE table[name]]

\* Mutant of Filled: only the first indexes are filled.
FilledStatic(c, n) == With(c, Reached[c][n] \cap Static)

Filled(c, n)  == With(c, Reached[c][n])

\* Mutant of Cleared: only the first index of the credential is cleared.
ClearedFirst(c, n) == Without(c, Reached[c][1])

Cleared(c, n) == Without(c, Reached[c][n])

TypeOK ==
  /\ saved \subseteq Creds
  /\ cues \in Seq(Creds) /\ Len(cues) <= MaxSaves
  /\ schIdx \in [Schemas -> Nat] /\ \A s \in Schemas : schIdx[s] <= Len(Generated[s])
  /\ Static \subseteq indexes /\ indexes \subseteq Names
  /\ \A s \in Schemas : Range(Recorded(s)) \subseteq indexes
  /\ table \in [Names -> SUBSET Creds]
  /\ \A name \in Names : /\ table[name] \subseteq Keyed(name)
                         /\ name \notin indexes => table[name] = {}
  /\ saves \in 0..MaxSaves /\ crashes \in 0..MaxCrashes

Init ==
  /\ saved = {} /\ cues = <<>>
  /\ schIdx = [s \in Schemas |-> 0]
  /\ indexes = Static
  /\ table = [name \in Names |-> {}]
  /\ saves = 0 /\ crashes = 0

\* Verifier.saveCredential, of a credential that is new or comes again.
Save(c) ==
  /\ saves < MaxSaves /\ saves' = saves + 1
  /\ saved' = saved \cup {c}
  /\ cues' = Append(cues, c)
  /\ UNCHANGED <<stores, crashes>>

\* Seeker.index of a saved credential.
IndexCredential(c) ==
  /\ schIdx' = [schIdx EXCEPT ![Schema(c)] = Worked(c)]
  /\ indexes' = indexes \cup Range(SubSeq(Generated[Schema(c)], 1, Worked(c)))
  /\ table' = Filled(c, Worked(c))

\* Mutant of SeekerDoer: a cue that fails stays the next.
SeekerDoerRetries ==
  /\ cues # <<>>
  /\ LET c == Head(cues) IN
     IF c \notin saved THEN UNCHANGED <<cues, stores>>
     ELSE /\ IndexCredential(c)
          /\ cues' = IF Complete(c) THEN Tail(cues) ELSE cues
  /\ UNCHANGED <<saved, saves, crashes>>

\* SeekerDoer.recur: a cue that fails goes to the end of the queue.
SeekerDoer ==
  /\ cues # <<>>
  /\ LET c == Head(cues) IN
     IF c \notin saved THEN cues' = Append(Tail(cues), c) /\ UNCHANGED stores
     ELSE /\ IndexCredential(c)
          /\ cues' = IF Complete(c) THEN Tail(cues) ELSE Append(Tail(cues), c)
  /\ UNCHANGED <<saved, saves, crashes>>

\* DELETE /credentials/{said}; a missing key ends it half way, an unknown schema at once.
Delete(c) ==
  /\ c \in saved /\ schIdx[Schema(c)] > 0
  /\ table' = Cleared(c, schIdx[Schema(c)])
  /\ saved' = IF Complete(c) THEN saved \ {c} ELSE saved
  /\ UNCHANGED <<cues, schIdx, indexes, saves, crashes>>

\* The process stops: the cues are lost.
Stop ==
  /\ crashes < MaxCrashes /\ crashes' = crashes + 1
  /\ cues' = <<>>
  /\ UNCHANGED <<saved, saves>>

Kill == Stop /\ UNCHANGED stores

\* Within generateIndexes: n names are recorded, and the next index is created or not.
KillGenerate(n, m) ==
  /\ cues # <<>> /\ Head(cues) \in saved
  /\ LET s == Schema(Head(cues)) IN
     /\ schIdx[s] = 0
     /\ n \in 0..Len(Generated[s]) /\ m \in {n, n + 1} \cap DOMAIN Generated[s]
     /\ schIdx' = [schIdx EXCEPT ![s] = n]
     /\ indexes' = indexes \cup Range(SubSeq(Generated[s], 1, m))
  /\ Stop
  /\ UNCHANGED table

\* Within index: n of the indexes have the credential.
KillIndex(n) ==
  /\ cues # <<>> /\ Head(cues) \in saved
  /\ LET c == Head(cues) IN
     /\ n \in 1..Worked(c)
     /\ schIdx' = [schIdx EXCEPT ![Schema(c)] = Worked(c)]
     /\ indexes' = indexes \cup Range(SubSeq(Generated[Schema(c)], 1, Worked(c)))
     /\ table' = Filled(c, n)
  /\ Stop

\* Within a deletion: n of the indexes are without the credential.
KillDelete(c, n) ==
  /\ c \in saved
  /\ n \in 1..schIdx[Schema(c)]
  /\ table' = Cleared(c, n)
  /\ Stop
  /\ UNCHANGED <<schIdx, indexes>>

Kills ==
  \/ Kill
  \/ \E n \in UNION {0..Len(Generated[s]) : s \in Schemas} :
       KillGenerate(n, n) \/ KillGenerate(n, n + 1) \/ KillIndex(n) \/ \E c \in Creds : KillDelete(c, n)

Next == SeekerDoer \/ Kills \/ \E c \in Creds : Save(c) \/ Delete(c)

Spec == Init /\ [][Next]_vars

\* The agent's doers are scheduled for ever.
Fairness == WF_vars(SeekerDoer)
FairSpec == Spec /\ Fairness

(***************************************************************************)
(* Queries.                                                                *)
(***************************************************************************)

\* The elements of a set in the order of a relation: before the k-th come k - 1 others.
InOrder(S, R) ==
  [k \in 1..Cardinality(S) |->
    CHOOSE x \in S : Cardinality({y \in S : <<y, x>> \in R}) = k - 1]
Ascending(S) == InOrder(S, {p \in S \X S : p[1] < p[2]})

\* The elements of a sequence that are in a set, in the order of the sequence.
Among(s, S) ==
  LET places == Ascending({k \in DOMAIN s : s[k] \in S})
  IN  [k \in DOMAIN places |-> s[places[k]]]

\* The order of keys and, under one key, of SAIDs.
Before(v, w) ==
  \E k \in 0..Len(v) : /\ k < Len(w) /\ SubSeq(v, 1, k) = SubSeq(w, 1, k)
                       /\ k = Len(v) \/ v[k + 1] < w[k + 1]
Precedes(name, c, d) ==
  \/ Before(Keys[name][c], Keys[name][d])
  \/ Keys[name][c] = Keys[name][d] /\ c < d
Sorted(name, S) == InOrder(S, {p \in S \X S : Precedes(name, p[1], p[2])})
BySaid(S)       == Ascending(S)

\* The operators Eq and Begins, of a text; a number is no match.  A field the credential does not
\* have is an error where the code asks for it, and so is a number it takes for a text.
Holds(op, c) ==
  /\ op.field \in Texts(c)
  /\ IF op.test = "eq" THEN Sad[c][op.field] = op.value ELSE IsPrefix(op.value, Sad[c][op.field])

Indexed(op)  == <<op.field>> \in indexes
Entries(op)  == Sorted(<<op.field>>, {c \in table[<<op.field>>] : Holds(op, c)})
Fields(ops)  == [k \in DOMAIN ops |-> ops[k].field]
Together(ops) == FlattenSeq([k \in DOMAIN ops |-> ops[k].value])

Answer(saids) == [ok |-> TRUE, saids |-> saids]
Fault         == [ok |-> FALSE, saids |-> <<>>]

Fails(op, c) == op.field \notin DOMAIN Sad[c] \/ (op.test = "begins" /\ op.field \in Numbers[c])

\* tableScan: a credential is taken once for each operator that holds.
TableScan(saids, ops) ==
  IF \E k \in DOMAIN saids : saids[k] \notin saved \/ \E i \in DOMAIN ops : Fails(ops[i], saids[k])
  THEN Fault
  ELSE Answer(FlattenSeq([k \in DOMAIN saids |->
                [j \in 1..Cardinality({i \in DOMAIN ops : Holds(ops[i], saids[k])}) |-> saids[k]]]))

\* indexScan: the indexes there are for single fields, and a scan for the other operators.
IndexScan(ops) ==
  LET use   == Among(ops, {op \in Range(ops) : Indexed(op)})
      scan  == Among(ops, {op \in Range(ops) : ~ Indexed(op)})
      found == Among(Entries(use[1]), {c \in Creds : \A op \in Range(use) : c \in Range(Entries(op))})
  IN IF use = <<>> THEN TableScan(BySaid(saved), ops)
     ELSE IF Entries(use[1]) = <<>> \/ scan = <<>> THEN Answer(found)
     ELSE TableScan(found, scan)

\* Cursor._query and indexSearch.
Found(ops) ==
  IF ops = <<>> THEN Answer(BySaid(saved))
  ELSE IF Len(ops) = 1 /\ Indexed(ops[1]) THEN Answer(Entries(ops[1]))
  ELSE IF Fields(ops) \in indexes /\ \A op \in Range(ops) : op.test = "eq"
       THEN Answer(BySaid({c \in table[Fields(ops)] : Keys[Fields(ops)][c] = Together(ops)}))
  ELSE IndexScan(ops)

\* Mutant of Order: the index of the first field serves for any sort.
OrderByFirst(saids, sort) ==
  IF sort = <<>> THEN saids
  ELSE Among(Sorted(<<sort[1]>>, table[<<sort[1]>>]), Range(saids))

\* Cursor.order.
Order(saids, sort) ==
  IF sort = <<>> \/ sort \notin indexes THEN saids
  ELSE Among(Sorted(sort, table[sort]), Range(saids))

\* Cursor.slice, and the loops of indexOrder, for a limit that is not 0.
Page(saids, skip, limit) ==
  SubSeq(saids, skip + 1, IF skip + limit < Len(saids) THEN skip + limit ELSE Len(saids))

Find(q) ==
  LET found == Found(q.filter) IN
  IF found.ok THEN Answer(Order(found.saids, q.sort)) ELSE Fault

(***************************************************************************)
(* Properties.                                                             *)
(***************************************************************************)

Limit == Cardinality(Creds)

\* The saved credentials that meet all of a filter's conditions.
Matches(q) == {c \in saved : \A op \in Range(q.filter) : Holds(op, c)}
Settled    == saved \cap Range(cues) = {}

\* What is deleted is in no index, wherever a deletion or an indexing was cut short (on_delete:
\* "Delete a credential from the database and remove any associated indices").
DeletedIsUnindexed == \A name \in Names : table[name] \subseteq saved

\* Fields a query may ask for: those with an index from the start, or among every schema's names,
\* that no credential has against its schema; and those without an index that all credentials have, as texts.
Everywhere(name) == \A s \in Schemas : name \in Range(Generated[s])
Askable(f) ==
  \/ /\ <<f>> \in Static \/ Everywhere(<<f>>)
     /\ \A c \in Creds : f \in Texts(c) => <<f>> \in Range(Generated[Schema(c)])
  \/ <<f>> \notin Names /\ \A c \in Creds : f \in Texts(c)

\* Queries the search is made for. At most one field has no index, since a scan takes a credential
\* once for each operator that holds (basing.py:567); the fields are not those of a static pair, in
\* their order, whose keys are of the first only (208); an identifier is asked for at its full
\* length, since a key is its parts without a separator (230).
Plain(q) ==
  /\ \A op \in Range(q.filter) : Askable(op.field)
  /\ \A j, k \in DOMAIN q.filter :
       {<<q.filter[j].field>>, <<q.filter[k].field>>} \cap Names = {} => j = k
  /\ Fields(q.filter) \in Static => Len(q.filter) = 1
  /\ \A op \in Range(q.filter), c \in Creds :
       op.field \in {"s", "i", "a-i"} \cap Texts(c) /\ op.test = "eq"
         => Len(op.value) = Len(Sad[c][op.field])
  /\ q.sort \in Names => Everywhere(q.sort)

\* Unless the process stops, and when no saved credential waits for its indexing, a query is
\* answered by exactly the saved credentials that meet its filter, each once (Seeker: "indexes all
\* credentials").
FindExact ==
  crashes = 0 /\ Settled =>
    \A q \in {q \in Queries : Plain(q)} : LET found == Find(q) IN
      found.ok /\ IsInjective(found.saids) /\ Range(found.saids) = Matches(q)

\* The pages of a query that is sorted by an index, one after the other, are the matching
\* credentials in the order of the index, whatever the size of a page.
Pages(saids, limit) == FlattenSeq([k \in 1..Limit |-> Page(saids, (k - 1) * limit, limit)])
SortedPages ==
  crashes = 0 /\ Settled =>
    \A q \in {q \in Queries : Plain(q) /\ q.sort \in Names}, limit \in 1..Limit :
      Pages(Find(q).saids, limit) = Sorted(q.sort, Matches(q))

\* The saved credentials that have, as a text, every field their schema's indexes are made of, and
\* are not in all the indexes on record for it: all of them until the process stops for the first
\* time, then those whose cue was made since.
Indexable == {c \in Creds : \A name \in Range(Generated[Schema(c)]) : c \in Keyed(name)}
InAllIndexes(c) ==
  /\ schIdx[Schema(c)] > 0
  /\ \A name \in Range(Recorded(Schema(c))) : c \in table[name]
Owed ==
  {c \in saved \cap Indexable : ~ InAllIndexes(c) /\ (crashes = 0 \/ c \in Range(cues))}

\* They are all indexed in the end, whatever else is in the queue, or deleted, or their cues lost in
\* a stop (Seeker: "indexes all credentials in the KERIpy `saved` Creder database").  A credential
\* that lacks an issuee or an optional field, or has a number among its fields, is never: its cue
\* comes up again for ever.
IndexedInTheEnd == Owed # {} ~> Owed = {}

=============================================================================
