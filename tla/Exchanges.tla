------------------------------ MODULE Exchanges ------------------------------
(***************************************************************************)
(* Peer to peer exchange messages (IPEX apply, offer, agree, grant, admit; *)
(* challenge responses): the endpoints that take them from the client, the *)
(* ExchangeSender and the Granter that send them, the Admitter, and the    *)
(* long running operation.                                                 *)
(*                                                                         *)
(* A message is of a group, each of whose signing members has an agent of  *)
(* its own and posts the same message with its own signature, or of an     *)
(* identifier of one agent, a group of one.  The members tell each other   *)
(* their signatures by requests (/multisig/request), which are exchange    *)
(* messages too.                                                           *)
(***************************************************************************)
EXTENDS Naturals, FiniteSets, Sequences, Functions

CONSTANTS
  Recipient,  \* the identifier the messages are for
  Members,    \* the signing members, numbered by the index of their key
  Msgs,       \* the messages
  Signers,    \* for each message, the members of its identifier
  Threshold,  \* for each message, how many of them must sign
  Kind,       \* for each message, what it is
  Led,        \* for each message, the members whose requests about it their agents send
  Outcome,    \* for each agent and message, what comes of sending or carrying it out
  MaxPosts,   \* bound: how often a member posts a message
  Bounds      \* bound: which messages are posted and how often agents stop, in one behaviour

VARIABLES
  held,       \* for each member's agent and message, the signers it knows
  saved,      \* the messages each agent has verified, hby.db.exns
  exchanges, grants, admits, \* each agent's queues, of grants without their order
  ops,        \* the messages each agent has an operation of
  deliveries, \* what the agents' postmen are delivering
  received,   \* what the recipient has got, and from whom
  credentials, \* the members whose agents parsed the credential of an admitted grant
  posts,      \* how often each member posted each message
  requested,  \* whom each member told of each message
  stops

agents  == <<held, saved, exchanges, grants, admits, ops>>
clients == <<posts, requested>>
vars    == <<agents, deliveries, received, credentials, clients, stops>>

Kinds == {"exn", "challenge", "ipex", "grant", "admit"}

\* What comes of a verified message at an agent.  "fine": its artifacts are gathered, or the grant
\* it admits is found with the attachments of all that it embeds.  "dropped": they cannot be
\* gathered (a ValidationError, or a KeyError, as of an issuee whose KEL the agent lacks), or the
\* admit lists no grant, or an attachment is missing.  "raises": the agent lacks the credential,
\* or the grant.  "unreachable": the postman refuses the recipient (a ValidationError).
Outcomes == {"fine", "dropped", "raises", "unreachable"}

ASSUME MembersAssumption   ==
  Members \in SUBSET Nat /\ IsFiniteSet(Members) /\ Recipient \notin Members
ASSUME SignersAssumption   ==
  /\ Signers \in [Msgs -> SUBSET Members] /\ Threshold \in [Msgs -> Nat]
  /\ \A x \in Msgs : Threshold[x] \in 1..Cardinality(Signers[x])
ASSUME KindAssumption      == Kind \in [Msgs -> Kinds]
ASSUME OutcomeAssumption   ==
  Outcome \in [Members -> [Msgs -> Outcomes]] /\ Led \in [Msgs -> SUBSET Members]
ASSUME BoundAssumption     ==
  Bounds \subseteq [posted : SUBSET Msgs, stops : Nat] /\ MaxPosts \in Nat

Item(x, to) == [msg |-> x, to |-> to]
Items       == [msg : Msgs, to : Members \cup {Recipient}]

\* A message in the hands of a postman: an exchange message with the signatures it carries, or
\* the KELs, TELs and credentials of a grant.
Exn(m, x, to, signers) == [what |-> "exn", from |-> m, msg |-> x, to |-> to, signers |-> signers]
Artifacts(m, x) ==
  [what |-> "artifacts", from |-> m, msg |-> x, to |-> Recipient, signers |-> {}]
Deliveries ==
  [what : {"exn", "artifacts"}, from : Members, msg : Msgs, to : Members \cup {Recipient},
   signers : SUBSET Members]

TypeOK ==
  /\ held \in [Members -> [Msgs -> SUBSET Members]]
  /\ saved \in [Members -> SUBSET Msgs] /\ ops \in [Members -> SUBSET Msgs]
  /\ exchanges \in [Members -> Seq(Items)]
  /\ grants \in [Members -> SUBSET Msgs] /\ admits \in [Members -> Seq(Msgs)]
  /\ deliveries \subseteq Deliveries /\ received \subseteq Deliveries
  /\ credentials \subseteq Members \X Msgs
  /\ posts \in [Members -> [Msgs -> 0..MaxPosts]]
  /\ requested \in [Members -> [Msgs -> SUBSET Members]]
  /\ stops \in Nat

Init ==
  /\ held = [m \in Members |-> [x \in Msgs |-> {}]]
  /\ saved = [m \in Members |-> {}] /\ ops = [m \in Members |-> {}]
  /\ exchanges = [m \in Members |-> <<>>]
  /\ grants = [m \in Members |-> {}] /\ admits = [m \in Members |-> <<>>]
  /\ deliveries = {} /\ received = {} /\ credentials = {}
  /\ posts = [m \in Members |-> [x \in Msgs |-> 0]]
  /\ requested = [m \in Members |-> [x \in Msgs |-> {}]]
  /\ stops = 0

\* Exchanger.complete, of a message of the identifier or of a request of the member's own.
Complete(m, item) == item.to # Recipient \/ item.msg \in saved[m]

AllPosted == {x \in Msgs : \E m \in Members : posts[m][x] > 0}
Bounded(S, k) == \E b \in Bounds : S \subseteq b.posted /\ k <= b.stops

\* Mutant of Lead: the first member of the group leads.
LeadFirst(m, x) == \A n \in Signers[x] : m <= n

\* Exchanger.lead: the signer with the lowest index among those the agent knows.
Lead(m, x) == \A n \in held[m][x] : m <= n

\* Exchanger's verification of a message that has come with enough signatures by now.
Save(m, x) ==
  /\ x \notin saved[m] /\ Cardinality(held[m][x]) >= Threshold[x]
  /\ saved' = [saved EXCEPT ![m] = @ \cup {x}]
  /\ UNCHANGED <<held, exchanges, grants, admits, ops, deliveries, received, credentials, clients,
                 stops>>

(***************************************************************************)
(* The endpoints.                                                          *)
(***************************************************************************)

\* What the endpoints have in common: the message is parsed with the member's signature, and
\* queued for the recipient.
Posted(m, x) ==
  /\ m \in Signers[x] /\ posts[m][x] < MaxPosts
  /\ Bounded(AllPosted \cup {x}, stops)
  /\ posts' = [posts EXCEPT ![m][x] = @ + 1]
  /\ held' = [held EXCEPT ![m][x] = @ \cup {m}]
  /\ exchanges' = [exchanges EXCEPT ![m] = Append(@, Item(x, Recipient))]
  /\ UNCHANGED <<saved, deliveries, received, credentials, requested, stops>>

\* Monitor.submit.
Submit(m, x) == ops' = [ops EXCEPT ![m] = @ \cup {x}]

\* POST /identifiers/{name}/exchanges, which takes any message; a client uses it for those that
\* need no processing.
PostExchange(m, x) ==
  Kind[x] \notin {"grant", "admit"} /\ Posted(m, x) /\ UNCHANGED <<grants, admits, ops>>

\* POST /challenges/{name}, of the words of a challenge.
PostChallenge(m, x) ==
  Kind[x] = "challenge" /\ Posted(m, x) /\ UNCHANGED <<grants, admits, ops>>

\* POST /identifiers/{name}/ipex/apply, offer, agree.
PostNegotiation(m, x) ==
  Kind[x] = "ipex" /\ Posted(m, x) /\ Submit(m, x) /\ UNCHANGED <<grants, admits>>

\* POST /identifiers/{name}/ipex/grant.
PostGrant(m, x) ==
  /\ Kind[x] = "grant" /\ Posted(m, x) /\ Submit(m, x)
  /\ grants' = [grants EXCEPT ![m] = @ \cup {x}]
  /\ UNCHANGED admits

\* POST /identifiers/{name}/ipex/admit.
PostAdmit(m, x) ==
  /\ Kind[x] = "admit" /\ Posted(m, x) /\ Submit(m, x)
  /\ admits' = [admits EXCEPT ![m] = Append(@, x)]
  /\ UNCHANGED grants

Post(m, x) ==
  \/ PostExchange(m, x) \/ PostChallenge(m, x) \/ PostNegotiation(m, x)
  \/ PostGrant(m, x) \/ PostAdmit(m, x)

\* POST /identifiers/{name}/multisig/request, for another member; when it has posted the message
\* the client does so for each of them, one after the other.
Request(m, x, n) ==
  LET others == Signers[x] \ ({m} \cup requested[m][x]) IN
  /\ posts[m][x] > 0 /\ n \in others /\ \A k \in others : n <= k
  /\ requested' = [requested EXCEPT ![m][x] = @ \cup {n}]
  /\ exchanges' = [exchanges EXCEPT ![m] = Append(@, Item(x, n))]
  /\ UNCHANGED <<held, saved, grants, admits, ops, deliveries, received, credentials, posts, stops>>

(***************************************************************************)
(* The agents.                                                             *)
(***************************************************************************)

\* The queue when the ExchangeSender has dealt with its first item.
Unsent(m, item) ==
  IF Complete(m, item) THEN Tail(exchanges[m]) ELSE Append(Tail(exchanges[m]), item)

\* Exchanger.lead, which is asked of a request as well: it is queued in the name of the group, but
\* signed with the member's own key, and one that is not led is not sent.
Leads(m, item) == IF item.to = Recipient THEN Lead(m, item.msg) ELSE m \in Led[item.msg]

\* The postman takes what is for members, and for a recipient it can reach.
Taken(m, item) == item.to = Recipient => Outcome[m][item.msg] # "unreachable"

\* Mutant of Sendable: a message is sent before it is complete.
SendableAtOnce(m, item) == Leads(m, item) /\ Taken(m, item)

Sendable(m, item) == Complete(m, item) /\ Leads(m, item) /\ Taken(m, item)

\* ExchangeSender.recur.
ExchangeSender(m) ==
  /\ exchanges[m] # <<>>
  /\ LET item    == Head(exchanges[m])
         signers == IF item.to = Recipient THEN held[m][item.msg] ELSE {m}
     IN /\ exchanges' = [exchanges EXCEPT ![m] = Unsent(m, item)]
        /\ deliveries' = IF Sendable(m, item)
                         THEN deliveries \cup {Exn(m, item.msg, item.to, signers)} ELSE deliveries
  /\ UNCHANGED <<held, saved, grants, admits, ops, received, credentials, clients, stops>>

\* What an agent loses when its process ends.
Halt(m) ==
  /\ stops' = stops + 1
  /\ exchanges' = [exchanges EXCEPT ![m] = <<>>]
  /\ grants' = [grants EXCEPT ![m] = {}]
  /\ admits' = [admits EXCEPT ![m] = <<>>]
  /\ deliveries' = {d \in deliveries : d.from # m}
  /\ UNCHANGED <<held, saved, ops, received, credentials, clients>>

\* Those of the messages that the agent leads and whose artifacts come to that.
Ends(m, xs, outcome) == {x \in xs : Lead(m, x) /\ Outcome[m][x] = outcome}

\* What GrantDoer.postGrant sends: only of a grant whose artifacts it can gather.
Presented(m, xs) == {Artifacts(m, x) : x \in Ends(m, xs, "fine")}

\* Granter.recur: a GrantDoer for each grant, which presents it, drops it or puts it back.  One of
\* a credential that the agent does not have (gatherArtifacts) raises and ends the process.
Granter(m) ==
  /\ grants[m] # {}
  /\ IF Ends(m, grants[m] \cap saved[m], "raises") # {} THEN Halt(m) ELSE
     /\ deliveries' = deliveries \cup Presented(m, grants[m] \cap saved[m])
     /\ grants' = [grants EXCEPT ![m] = @ \ saved[m]]
     /\ UNCHANGED <<held, saved, exchanges, admits, ops, received, credentials, clients, stops>>

\* What the Admitter parses of an admit whose grant it has.
Admitted(m, x) == IF Outcome[m][x] \in {"fine", "unreachable"} THEN {<<m, x>>} ELSE {}

\* Mutant of Admitter: what is not complete is not put back.
AdmitterDrops(m) ==
  /\ admits[m] # <<>>
  /\ LET x == Head(admits[m]) IN
     credentials' = IF x \in saved[m] THEN credentials \cup Admitted(m, x) ELSE credentials
  /\ admits' = [admits EXCEPT ![m] = Tail(@)]
  /\ UNCHANGED <<held, saved, exchanges, grants, ops, deliveries, received, clients, stops>>

\* Admitter.recur with the first of its queue: not verified, it is put back; else the credential
\* is parsed, or not, for want of a grant or of an attachment; a grant that the agent does not
\* have raises and ends the process.
AdmitterWaits(m, x) ==
  /\ x \notin saved[m]
  /\ admits' = [admits EXCEPT ![m] = Append(Tail(@), x)]
  /\ UNCHANGED <<held, saved, exchanges, grants, ops, deliveries, received, credentials, clients,
                 stops>>
AdmitterParses(m, x) ==
  /\ x \in saved[m] /\ Outcome[m][x] # "raises"
  /\ admits' = [admits EXCEPT ![m] = Tail(@)]
  /\ credentials' = credentials \cup Admitted(m, x)
  /\ UNCHANGED <<held, saved, exchanges, grants, ops, deliveries, received, clients, stops>>
AdmitterRaises(m, x) == x \in saved[m] /\ Outcome[m][x] = "raises" /\ Halt(m)

Admitter(m) ==
  /\ admits[m] # <<>>
  /\ LET x == Head(admits[m]) IN AdmitterWaits(m, x) \/ AdmitterParses(m, x) \/ AdmitterRaises(m, x)

\* A postman delivers, in any order: to the recipient, or to another member's agent.
Deliver(d) ==
  /\ d \in deliveries /\ deliveries' = deliveries \ {d}
  /\ IF d.to = Recipient
     THEN received' = received \cup {d} /\ UNCHANGED held
     ELSE held' = [held EXCEPT ![d.to][d.msg] = @ \cup d.signers] /\ UNCHANGED received
  /\ UNCHANGED <<saved, exchanges, grants, admits, ops, credentials, clients, stops>>

\* An agent's process stops, or the agent is released, and starts again.
Stop(m) == Bounded(AllPosted, stops + 1) /\ Halt(m)

Next ==
  \/ \E m \in Members : \/ ExchangeSender(m) \/ Granter(m) \/ Admitter(m) \/ Stop(m)
                        \/ \E x \in Msgs : \/ Post(m, x) \/ Save(m, x)
                                         \/ \E n \in Members : Request(m, x, n)
  \/ \E d \in deliveries : Deliver(d)

Spec == Init /\ [][Next]_vars

\* The agents' doers and the network; a client that has posted a message tells the others.
Fairness ==
  /\ \A m \in Members : /\ WF_vars(ExchangeSender(m)) /\ WF_vars(Granter(m)) /\ WF_vars(Admitter(m))
                        /\ WF_vars(\E x \in Msgs : Save(m, x))
                        /\ WF_vars(\E x \in Msgs, n \in Members : Request(m, x, n))
  /\ WF_vars(\E d \in deliveries : Deliver(d))
FairSpec == Spec /\ Fairness

(***************************************************************************)
(* Properties.                                                             *)
(***************************************************************************)

Posters(x)  == {m \in Members : posts[m][x] > 0}
Of(what, x) == {d \in deliveries \cup received : d.what = what /\ d.msg = x /\ d.to = Recipient}
Got(what, x) == \E d \in received : d.what = what /\ d.msg = x

\* An operation (Monitor.status) that is done.
Done(m, x) == x \in ops[m] /\ x \in saved[m]

\* What reaches the recipient carries the signatures of enough members who posted it themselves,
\* whatever their agents knew of each other when it was sent (ExchangeSender, Granter); and no
\* agent says that a message is done, or parses the credential it admits, on less than that.
SentIsSigned ==
  /\ \A d \in received :
       IF d.what = "exn"
       THEN d.signers \subseteq Posters(d.msg) /\ Cardinality(d.signers) >= Threshold[d.msg]
       ELSE d.from \in Posters(d.msg) /\ Cardinality(Posters(d.msg)) >= Threshold[d.msg]
  /\ \A m \in Members, x \in Msgs :
       Done(m, x) \/ <<m, x>> \in credentials =>
         held[m][x] \subseteq Posters(x) /\ Cardinality(held[m][x]) >= Threshold[x]

\* All that the message takes at the agents of these members works.
Fine(ms, x)      == \A m \in ms : Outcome[m][x] = "fine"
Reachable(ms, x) == \A m \in ms : Outcome[m][x] # "unreachable"

\* Members decide each by the signatures it knows who sends, and no message falls between them:
\* unless an agent stops, a message one of them posted, for a recipient its postman reaches, is in
\* a poster's queue, on its way or received; the artifacts of a grant too, when they can be
\* gathered, and an admitted credential that the grant has with its attachments is parsed or
\* queued at every member that posted the admit.  (The rest is dropped without a word:
\* GrantDoer.postGrant, Admitter.recur.)
NothingDropped ==
  stops = 0 =>
    \A x \in Msgs : Posters(x) # {} =>
      /\ Reachable(Posters(x), x) =>
           Of("exn", x) # {} \/ \E m \in Posters(x) : Item(x, Recipient) \in Range(exchanges[m])
      /\ Kind[x] = "grant" /\ Fine(Posters(x), x) =>
           Of("artifacts", x) # {} \/ \E m \in Posters(x) : x \in grants[m]
      /\ Kind[x] = "admit" =>
           \A m \in Posters(x) : Fine({m}, x) => <<m, x>> \in credentials \/ x \in Range(admits[m])

\* Unless an agent stops, all that members' operations say is done is carried out in the end: the
\* message is received, with the artifacts of a grant ("Presents ACDC credentials to a recipient"),
\* and the member's agent parses an admitted credential ("Accept a credential being issued or
\* presented").  That is of messages that all signers' agents can send and carry out, and which
\* are of one signer or of members whose requests are sent, all of them: a request that is not
\* leaves some agent without the signatures it needs, and it may be the one that leads.
Promised ==
  {x \in Msgs : Fine(Signers[x], x) /\ (Cardinality(Signers[x]) = 1 \/ Signers[x] \subseteq Led[x])}
CarriedOut(m, x) ==
  /\ Got("exn", x)
  /\ Kind[x] = "grant" => Got("artifacts", x)
  /\ Kind[x] = "admit" => <<m, x>> \in credentials
Outstanding ==
  {o \in Members \X Promised : Done(o[1], o[2]) /\ ~ CarriedOut(o[1], o[2])}
DoneIsCarriedOut == Outstanding # {} ~> (stops > 0 \/ Outstanding = {})

=============================================================================
