---------------------------- MODULE RemoteState -----------------------------
(***************************************************************************)
(* What an agent knows of the key events of a remote identifier, and how   *)
(* its client has it refreshed: OOBIs, queries for the key state and for   *)
(* an event (by its number, or by the seal it anchors), the Querier, and   *)
(* the status of the query operations.                                     *)
(*                                                                         *)
(* The events are numbered from 1.  The sources, the witnesses of the      *)
(* remote identifier, answer a query for its key state by a notice of its  *)
(* latest event, and one for an event by the log.  A notice is kept for    *)
(* each source; the status of a query looks at the first one only.         *)
(***************************************************************************)
EXTENDS Naturals, Sequences, FiniteSets

CONSTANTS
  Sources,    \* the witnesses of the remote identifier, in the order of their identifiers
  MaxChain,   \* bound: events of the remote identifier
  MaxPosts,   \* bound: queries the client posts
  MaxCrashes  \* bound: ends of the agent's process

ASSUME SourcesAssumption == Sources \in SUBSET Nat
ASSUME BoundAssumption   == MaxChain \in Nat \ {0} /\ MaxPosts \in Nat /\ MaxCrashes \in Nat

VARIABLES
  chain,      \* the number of events the remote identifier has, at all of its sources
  oobis,      \* whether the OOBI waits to be resolved, hby.db.oobis
  known,      \* the number of its events the agent has, hby.kevers
  notice,     \* for each source, the event its notice names, hby.db.knas and ksns; 0 for none
  stateOp,    \* whether there is an operation of a query for the key state, opr.ops
  eventOps,   \* the events there is an operation of a query for
  queries,    \* the agent's deck of queries: of an event, or 0 of the key state
  noticers,   \* the QueryDoers that wait for a notice
  asked,      \* the queries on their way to a source
  notes,      \* the notices on their way to the agent
  logs,       \* the logs on their way to the agent
  since,      \* history: the events there were when the key state was last queried
  hasty,      \* history: whether an earlier query for the key state was unanswered then
  posts, crashes

disk   == <<known, notice, stateOp, eventOps>>
memory == <<queries, noticers>>
wire   == <<asked, notes, logs>>
ghosts == <<since, hasty>>
vars   == <<chain, oobis, disk, memory, wire, ghosts, posts, crashes>>

Events == 1..MaxChain
State  == 0

TypeOK ==
  /\ chain \in Events
  /\ oobis \in BOOLEAN /\ stateOp \in BOOLEAN /\ hasty \in BOOLEAN
  /\ known \in Nat /\ since \in Nat /\ noticers \in Nat
  /\ notice \in [Sources -> Nat]
  /\ eventOps \subseteq Events
  /\ queries \in Seq({State} \cup Events)
  /\ asked \subseteq ({State} \cup Nat) \X Sources
  /\ notes \subseteq Sources \X Nat
  /\ logs \subseteq Nat
  /\ posts \in 0..MaxPosts /\ crashes \in 0..MaxCrashes

Init ==
  /\ chain = 1 /\ oobis = FALSE
  /\ known = 0 /\ notice = [w \in Sources |-> 0]
  /\ stateOp = FALSE /\ eventOps = {}
  /\ queries = <<>> /\ noticers = 0
  /\ asked = {} /\ notes = {} /\ logs = {}
  /\ since = 0 /\ hasty = FALSE
  /\ posts = 0 /\ crashes = 0

(***************************************************************************)
(* The remote identifier, and the OOBIs.                                   *)
(***************************************************************************)

Grow ==
  /\ chain < MaxChain
  /\ chain' = chain + 1
  /\ UNCHANGED <<oobis, disk, memory, wire, ghosts, posts, crashes>>

\* POST /oobis: what is pinned is resolved even if the process ends before.
PostOobi ==
  /\ ~ oobis /\ posts < MaxPosts
  /\ oobis' = TRUE
  /\ posts' = posts + 1
  /\ UNCHANGED <<chain, disk, memory, wire, ghosts, crashes>>

\* The Oobiery fetches the log of the identifier, or fails.
Resolve ==
  /\ oobis
  /\ oobis' = FALSE
  /\ known' \in {known, chain}
  /\ UNCHANGED <<chain, notice, stateOp, eventOps, memory, wire, ghosts, posts, crashes>>

(***************************************************************************)
(* The client's queries, for an identifier the agent knows.                *)
(***************************************************************************)

\* What is left of the earlier queries for the key state.
Outstanding ==
  \/ \E i \in DOMAIN queries : queries[i] = State
  \/ \E w \in Sources : <<State, w>> \in asked
  \/ notes # {}

Submitted(q) ==
  /\ known > 0
  /\ posts < MaxPosts
  /\ posts' = posts + 1
  /\ queries' = Append(queries, q)

\* Mutant of PostStateQuery: the notices are left.
PostStateQueryOnly ==
  /\ Submitted(State)
  /\ stateOp' = TRUE
  /\ since' = chain /\ hasty' = Outstanding
  /\ UNCHANGED <<chain, oobis, known, notice, eventOps, noticers, wire, crashes>>

\* POST /queries of an identifier: the notices are forgotten, of all its sources.
PostStateQuery ==
  /\ Submitted(State)
  /\ notice' = [w \in Sources |-> 0]
  /\ stateOp' = TRUE
  /\ since' = chain /\ hasty' = Outstanding
  /\ UNCHANGED <<chain, oobis, known, eventOps, noticers, wire, crashes>>

\* POST /queries of an event, by its number or the seal it anchors.
PostEventQuery(n) ==
  /\ Submitted(n)
  /\ eventOps' = eventOps \cup {n}
  /\ UNCHANGED <<chain, oobis, known, notice, stateOp, noticers, wire, ghosts, crashes>>

(***************************************************************************)
(* The Querier, the sources and their answers.                             *)
(***************************************************************************)

\* Mutants of Querier: the key state is not asked for; the event before is asked for.
QuerierOfEvents ==
  /\ queries # <<>>
  /\ queries' = Tail(queries)
  /\ noticers' = noticers
  /\ \E w \in Sources :
       asked' = IF Head(queries) = State THEN asked ELSE asked \cup {<<Head(queries), w>>}
  /\ UNCHANGED <<chain, oobis, disk, notes, logs, ghosts, posts, crashes>>
QuerierBefore ==
  /\ queries # <<>>
  /\ queries' = Tail(queries)
  /\ noticers' = noticers + (IF Head(queries) = State THEN 1 ELSE 0)
  /\ \E w \in Sources :
       asked' = asked \cup {<<IF Head(queries) > 1 THEN Head(queries) - 1 ELSE Head(queries), w>>}
  /\ UNCHANGED <<chain, oobis, disk, notes, logs, ghosts, posts, crashes>>

\* Querier.recur: the doer it makes asks one of the sources, once.
Querier ==
  /\ queries # <<>>
  /\ queries' = Tail(queries)
  /\ noticers' = noticers + (IF Head(queries) = State THEN 1 ELSE 0)
  /\ \E w \in Sources : asked' = asked \cup {<<Head(queries), w>>}
  /\ UNCHANGED <<chain, oobis, disk, notes, logs, ghosts, posts, crashes>>

\* A source answers with what there is, a query for an event when there is that event.
Answer(q, w) ==
  /\ <<q, w>> \in asked
  /\ q <= chain
  /\ asked' = asked \ {<<q, w>>}
  /\ notes' = IF q = State THEN notes \cup {<<w, chain>>} ELSE notes
  /\ logs'  = IF q = State THEN logs ELSE logs \cup {chain}
  /\ UNCHANGED <<chain, oobis, disk, memory, ghosts, posts, crashes>>

\* A notice is kept unless a later one is, or it is of an event before the latest the agent has
\* and is refused; the doer that waited for it asks for the log when the event is not known.
ReceiveNotice(w, n) ==
  /\ <<w, n>> \in notes
  /\ notes' = notes \ {<<w, n>>}
  /\ \/ /\ n >= notice[w]
        /\ notice' = [notice EXCEPT ![w] = n]
        /\ noticers' = IF noticers > 0 THEN noticers - 1 ELSE 0
        /\ IF n > known /\ noticers > 0 THEN \E v \in Sources : asked' = asked \cup {<<n, v>>}
                                        ELSE asked' = asked
     \/ /\ n < notice[w] \/ n < known
        /\ UNCHANGED <<notice, noticers, asked>>
  /\ UNCHANGED <<chain, oobis, known, stateOp, eventOps, queries, logs, ghosts, posts, crashes>>

ReceiveLog(n) ==
  /\ n \in logs
  /\ logs' = logs \ {n}
  /\ known' = IF n > known THEN n ELSE known
  /\ UNCHANGED <<chain, oobis, notice, stateOp, eventOps, memory, asked, notes, ghosts, posts,
                 crashes>>

\* The end of the process: the queries and the doers are gone, and what is on its way may be; a
\* source that was asked may still answer, to the agent's mailbox.
Crash ==
  /\ crashes < MaxCrashes
  /\ crashes' = crashes + 1
  /\ queries' = <<>> /\ noticers' = 0
  /\ asked' \in SUBSET asked /\ notes' \in SUBSET notes /\ logs' \in SUBSET logs
  /\ UNCHANGED <<chain, oobis, disk, ghosts, posts>>

(***************************************************************************)
(* Monitor.status of the operations.                                       *)
(***************************************************************************)

\* The first notice names the latest event the agent has.
StateDone ==
  \E w \in Sources : /\ notice[w] # 0 /\ notice[w] = known
                     /\ \A v \in Sources : v < w => notice[v] = 0

EventDone(n) == known >= n

(***************************************************************************)
(* Specification.                                                          *)
(***************************************************************************)

Posts    == PostOobi \/ PostStateQuery \/ \E n \in Events : PostEventQuery(n)
Answers  == \E q \in {State} \cup Events, w \in Sources : Answer(q, w)
Receipts ==
  \E n \in Events : ReceiveLog(n) \/ \E w \in Sources : ReceiveNotice(w, n)

Next == Grow \/ Posts \/ Resolve \/ Querier \/ Answers \/ Receipts \/ Crash

Spec == Init /\ [][Next]_vars

\* The agent's doers are scheduled for ever, and a source that is asked answers.
Fairness ==
  /\ WF_vars(Querier)
  /\ \A q \in {State} \cup Events, w \in Sources : WF_vars(Answer(q, w))
  /\ \A n \in Events : WF_vars(ReceiveLog(n))
  /\ \A n \in Events, w \in Sources : WF_vars(ReceiveNotice(w, n))

FairSpec == Spec /\ Fairness

(***************************************************************************)
(* Properties.                                                             *)
(***************************************************************************)

\* A query for the key state that is reported done is answered by what there was when it was
\* posted, or later ("Must reset key state so we know when we have a new update"), whatever
\* answers and events cross it, unless it was posted while an earlier one was unanswered.
StateQueryIsFresh == stateOp /\ StateDone /\ ~ hasty => known >= since

\* A query for the key state is reported done, unless the remote identifier makes another event
\* before it is, it was posted while an earlier one was unanswered, or the process ended.
StateQueryCompletes == stateOp ~> (StateDone \/ chain > since \/ hasty \/ crashes > 0)

\* A query for an event the remote identifier has, or makes, is reported done, unless the process
\* ended.
EventQueryCompletes ==
  \A n \in Events : (n \in eventOps /\ n <= chain) ~> (EventDone(n) \/ crashes > 0)

=============================================================================
