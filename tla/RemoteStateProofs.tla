-------------------------- MODULE RemoteStateProofs -------------------------
(***************************************************************************)
(* The key state queries of RemoteState, for any sources and bounds: a     *)
(* query that is reported done is answered by what there was when it was   *)
(* posted, or later.                                                       *)
(***************************************************************************)
EXTENDS RemoteState, TLAPS

\* Whatever notice is kept or on its way was made after the latest query for the key state, if
\* that query found none of an earlier one.
Timely ==
  /\ since <= chain
  /\ ~ hasty => /\ \A x \in notes : x[2] >= since
                /\ \A w \in Sources : notice[w] # 0 => notice[w] >= since

Inv == TypeOK /\ Timely

\* What an answer of a source adds.
LEMMA AnswerTypes ==
  ASSUME TypeOK, NEW q \in {State} \cup Events, NEW w \in Sources, Answer(q, w)
  PROVE  TypeOK'
<1> USE SourcesAssumption, BoundAssumption DEF State, Events
<1>1. chain \in Nat
  BY DEF TypeOK
<1>2. notes' \subseteq Sources \X Nat
  <2>1. notes \subseteq Sources \X Nat /\ <<w, chain>> \in Sources \X Nat
    BY <1>1 DEF TypeOK
  <2>2. notes' \subseteq notes \cup {<<w, chain>>}
    BY DEF Answer
  <2> QED BY <2>1, <2>2
<1>3. logs' \subseteq Nat
  <2>1. logs' \subseteq logs \cup {chain}
    BY DEF Answer
  <2> QED BY <2>1, <1>1 DEF TypeOK
<1>4. asked' \subseteq asked
  BY DEF Answer
<1> QED BY <1>2, <1>3, <1>4 DEF TypeOK, Answer, disk, memory, ghosts

\* What the receipt of a notice changes.
LEMMA ReceiveNoticeTypes ==
  ASSUME TypeOK, NEW n \in Events, NEW w \in Sources, ReceiveNotice(w, n)
  PROVE  TypeOK'
<1> USE SourcesAssumption, BoundAssumption DEF State, Events
<1>1. n \in Nat
  BY DEF Events
<1>2. notes' \subseteq notes
  BY DEF ReceiveNotice
<1>3. notice' \in [Sources -> Nat]
  <2>1. notice \in [Sources -> Nat]
    BY DEF TypeOK
  <2>2. notice' = [notice EXCEPT ![w] = n] \/ notice' = notice
    BY DEF ReceiveNotice
  <2> QED BY <2>1, <2>2, <1>1
<1>4. noticers' \in Nat
  BY DEF TypeOK, ReceiveNotice
<1>5. asked' \subseteq ({State} \cup Nat) \X Sources
  <2>1. asked' = asked \/ \E v \in Sources : asked' = asked \cup {<<n, v>>}
    BY DEF ReceiveNotice
  <2>2. \A v \in Sources : <<n, v>> \in ({State} \cup Nat) \X Sources
    BY <1>1
  <2> QED BY <2>1, <2>2 DEF TypeOK
<1> QED BY <1>2, <1>3, <1>4, <1>5 DEF TypeOK, ReceiveNotice, ghosts

\* What the Querier changes.
LEMMA QuerierTypes == ASSUME TypeOK, Querier PROVE TypeOK'
<1> USE SourcesAssumption, BoundAssumption DEF State, Events
<1>1. queries \in Seq({State} \cup Events) /\ queries # <<>>
  BY DEF TypeOK, Querier
<1>2. Head(queries) \in {State} \cup Events /\ queries' \in Seq({State} \cup Events)
  BY <1>1 DEF Querier
<1>3. PICK w \in Sources : asked' = asked \cup {<<Head(queries), w>>}
  BY DEF Querier
<1>4. asked' \subseteq ({State} \cup Nat) \X Sources
  <2>1. <<Head(queries), w>> \in ({State} \cup Nat) \X Sources
    BY <1>2
  <2> QED BY <1>3, <2>1 DEF TypeOK
<1>5. noticers' \in Nat
  BY DEF TypeOK, Querier
<1> QED BY <1>2, <1>4, <1>5 DEF TypeOK, Querier, disk, ghosts

LEMMA TypesKept == ASSUME TypeOK, [Next]_vars PROVE TypeOK'
<1> USE SourcesAssumption, BoundAssumption DEF State, Events
<1>1. CASE Grow
  BY <1>1 DEF TypeOK, Grow, disk, memory, wire, ghosts
<1>2. CASE PostOobi
  BY <1>2 DEF TypeOK, PostOobi, disk, memory, wire, ghosts
<1>3. CASE PostStateQuery
  <2>1. queries' \in Seq({State} \cup Events)
    BY <1>3 DEF TypeOK, PostStateQuery, Submitted
  <2>2. notice' \in [Sources -> Nat] /\ since' \in Nat /\ stateOp' \in BOOLEAN
    BY <1>3 DEF TypeOK, PostStateQuery
  <2>3. hasty' \in BOOLEAN
    BY <1>3 DEF PostStateQuery, Outstanding
  <2>4. posts' \in 0..MaxPosts
    BY <1>3 DEF TypeOK, PostStateQuery, Submitted
  <2> QED BY <1>3, <2>1, <2>2, <2>3, <2>4 DEF TypeOK, PostStateQuery, wire
<1>4. ASSUME NEW n \in Events, PostEventQuery(n) PROVE TypeOK'
  <2>1. queries' \in Seq({State} \cup Events)
    BY <1>4 DEF TypeOK, PostEventQuery, Submitted
  <2>2. posts' \in 0..MaxPosts
    BY <1>4 DEF TypeOK, PostEventQuery, Submitted
  <2> QED BY <1>4, <2>1, <2>2 DEF TypeOK, PostEventQuery, wire, ghosts
<1>5. CASE Resolve
  <2>1. known' \in Nat
    <3>1. known \in Nat /\ chain \in Nat
      BY DEF TypeOK
    <3>2. known' = known \/ known' = chain
      BY <1>5 DEF Resolve
    <3> QED BY <3>1, <3>2
  <2>2. oobis' \in BOOLEAN
    BY <1>5 DEF Resolve
  <2> QED BY <1>5, <2>1, <2>2 DEF TypeOK, Resolve, memory, wire, ghosts
<1>6. CASE Querier
  BY <1>6, QuerierTypes
<1>7. ASSUME NEW q \in {State} \cup Events, NEW w \in Sources, Answer(q, w) PROVE TypeOK'
  BY <1>7, AnswerTypes
<1>8. ASSUME NEW n \in Events, ReceiveLog(n) PROVE TypeOK'
  <2>1. known' \in Nat /\ logs' \subseteq logs
    BY <1>8 DEF TypeOK, ReceiveLog
  <2> QED BY <1>8, <2>1 DEF TypeOK, ReceiveLog, memory, ghosts
<1>9. ASSUME NEW n \in Events, NEW w \in Sources, ReceiveNotice(w, n) PROVE TypeOK'
  BY <1>9, ReceiveNoticeTypes
<1>10. CASE Crash
  <2>1. queries' \in Seq({State} \cup Events) /\ asked' \subseteq asked /\ noticers' = 0
    BY <1>10 DEF Crash
  <2>2. notes' \subseteq notes /\ logs' \subseteq logs /\ crashes' \in 0..MaxCrashes
    BY <1>10 DEF TypeOK, Crash
  <2> QED BY <1>10, <2>1, <2>2 DEF TypeOK, Crash, disk, ghosts
<1>11. CASE UNCHANGED vars
  BY <1>11 DEF TypeOK, vars, disk, memory, wire, ghosts
<1> QED BY <1>1, <1>2, <1>3, <1>4, <1>5, <1>6, <1>7, <1>8, <1>9, <1>10, <1>11
        DEF Next, Posts, Answers, Receipts

\* A step that makes no notice, keeps none and posts no query for the key state.
LEMMA TimelyUnlessAnswered ==
  ASSUME TypeOK, Timely, chain' \in Nat, chain' >= chain,
         notes' \subseteq notes, UNCHANGED <<notice, since, hasty>>
  PROVE  Timely'
<1>1. since' <= chain'
  BY DEF TypeOK, Timely, Events
<1>2. ASSUME ~ hasty', NEW x \in notes' PROVE x[2] >= since'
  BY <1>2 DEF Timely
<1>3. ASSUME ~ hasty', NEW w \in Sources, notice'[w] # 0 PROVE notice'[w] >= since'
  BY <1>3 DEF Timely
<1> QED BY <1>1, <1>2, <1>3 DEF Timely

LEMMA TimelyKept == ASSUME Inv, [Next]_vars PROVE Timely'
<1> USE SourcesAssumption, BoundAssumption
<1>0. /\ TypeOK /\ Timely /\ chain \in Nat /\ since \in Nat
      /\ \A w \in Sources : notice[w] \in Nat
  BY DEF Inv, TypeOK, Events
<1>1. CASE Grow
  BY <1>0, <1>1, TimelyUnlessAnswered DEF Grow, disk, wire, ghosts
<1>2. CASE PostOobi
  BY <1>0, <1>2, TimelyUnlessAnswered DEF PostOobi, disk, wire, ghosts
<1>3. CASE PostStateQuery
  <2>1. since' = chain /\ chain' = chain /\ notes' = notes /\ hasty' = Outstanding
    BY <1>3 DEF PostStateQuery, wire
  <2>2. \A w \in Sources : notice'[w] = 0
    BY <1>3 DEF PostStateQuery
  <2>3. ~ hasty' => notes' = {}
    BY <2>1 DEF Outstanding
  <2> QED BY <1>0, <2>1, <2>2, <2>3 DEF Timely
<1>4. ASSUME NEW n \in Events, PostEventQuery(n) PROVE Timely'
  BY <1>0, <1>4, TimelyUnlessAnswered DEF PostEventQuery, wire, ghosts
<1>5. CASE Resolve
  BY <1>0, <1>5, TimelyUnlessAnswered DEF Resolve, wire, ghosts
<1>6. CASE Querier
  BY <1>0, <1>6, TimelyUnlessAnswered DEF Querier, disk, ghosts
<1>7. ASSUME NEW q \in {State} \cup Events, NEW w \in Sources, Answer(q, w) PROVE Timely'
  <2>1. UNCHANGED <<chain, notice, since, hasty>>
    BY <1>7 DEF Answer, disk, ghosts
  <2>2. notes' \subseteq notes \cup {<<w, chain>>}
    BY <1>7 DEF Answer
  <2>3. ASSUME ~ hasty', NEW x \in notes' PROVE x[2] >= since'
    <3>1. CASE x \in notes
      BY <1>0, <2>1, <2>3, <3>1 DEF Timely
    <3>2. CASE x = <<w, chain>>
      BY <1>0, <2>1, <3>2 DEF Timely
    <3> QED BY <2>2, <2>3, <3>1, <3>2
  <2> QED BY <1>0, <2>1, <2>3 DEF Timely
<1>8. ASSUME NEW n \in Events, ReceiveLog(n) PROVE Timely'
  BY <1>0, <1>8, TimelyUnlessAnswered DEF ReceiveLog, ghosts
<1>9. ASSUME NEW n \in Events, NEW w \in Sources, ReceiveNotice(w, n) PROVE Timely'
  <2>1. UNCHANGED <<chain, since, hasty>> /\ notes' \subseteq notes /\ <<w, n>> \in notes
    BY <1>9 DEF ReceiveNotice, ghosts
  <2>2. notice' = [notice EXCEPT ![w] = n] \/ notice' = notice
    BY <1>9 DEF ReceiveNotice
  <2>3. ~ hasty => n >= since
    BY <1>0, <2>1 DEF Timely
  <2>4. ASSUME ~ hasty', NEW v \in Sources, notice'[v] # 0 PROVE notice'[v] >= since'
    <3>1. notice'[v] = n \/ notice'[v] = notice[v]
      BY <2>2 DEF Inv, TypeOK
    <3> QED BY <1>0, <2>1, <2>3, <2>4, <3>1 DEF Timely
  <2>5. ASSUME ~ hasty', NEW x \in notes' PROVE x[2] >= since'
    BY <1>0, <2>1, <2>5 DEF Timely
  <2> QED BY <1>0, <2>1, <2>4, <2>5 DEF Timely
<1>10. CASE Crash
  BY <1>0, <1>10, TimelyUnlessAnswered DEF Crash, disk, ghosts
<1>11. CASE UNCHANGED vars
  BY <1>0, <1>11, TimelyUnlessAnswered DEF vars, disk, wire, ghosts
<1> QED BY <1>1, <1>2, <1>3, <1>4, <1>5, <1>6, <1>7, <1>8, <1>9, <1>10, <1>11
        DEF Next, Posts, Answers, Receipts

\* The inductive invariant: every kept or travelling notice is of the latest query.
THEOREM Invariance == Spec => []Inv
<1>1. Init => Inv
  <2> SUFFICES ASSUME Init PROVE Inv
    OBVIOUS
  <2>1. TypeOK
    <3>1. chain \in Events /\ posts \in 0..MaxPosts /\ crashes \in 0..MaxCrashes
      BY BoundAssumption DEF Init, Events
    <3>2. notice \in [Sources -> Nat] /\ queries \in Seq({State} \cup Events)
      BY DEF Init
    <3> QED BY <3>1, <3>2 DEF Init, TypeOK
  <2>2. Timely
    BY DEF Init, Timely
  <2> QED BY <2>1, <2>2 DEF Inv
<1>2. Inv /\ [Next]_vars => Inv'
  BY TypesKept, TimelyKept DEF Inv
<1> QED BY <1>1, <1>2, PTL DEF Spec

\* The types, for any sources and bounds.
THEOREM TypeCorrect == Spec => []TypeOK
<1>1. Inv => TypeOK
  BY DEF Inv
<1> QED BY <1>1, Invariance, PTL

\* A query for the key state that is done is answered by nothing older than itself.
THEOREM Fresh == Spec => []StateQueryIsFresh
<1>1. Inv => StateQueryIsFresh
  <2> SUFFICES ASSUME Inv, StateDone, ~ hasty PROVE known >= since
    BY DEF StateQueryIsFresh
  <2>1. PICK w \in Sources : notice[w] # 0 /\ notice[w] = known
    BY DEF StateDone
  <2> QED BY <2>1 DEF Inv, Timely
<1> QED BY <1>1, Invariance, PTL

\* Nothing names an event that the remote identifier does not have.
Existing ==
  /\ known <= chain
  /\ \A n \in logs : n <= chain
  /\ \A x \in notes : x[2] <= chain
  /\ \A w \in Sources : notice[w] <= chain

\* The remote identifier's events grow, and so do those the agent has, never beyond them.
LEMMA EventsGrow ==
  ASSUME TypeOK, Existing, [Next]_vars
  PROVE  Existing' /\ chain <= chain' /\ known <= known'
<1> USE SourcesAssumption, BoundAssumption
<1>0. /\ chain \in Nat /\ known \in Nat
      /\ \A w \in Sources : notice[w] \in Nat
      /\ \A n \in logs : n \in Nat
      /\ \A x \in notes : x[2] \in Nat
  BY DEF TypeOK, Events
<1>1. ASSUME chain' \in {chain, chain + 1}, known' \in {known, chain} \cup logs, known <= known',
             logs' \subseteq logs \cup {chain},
             \A x \in notes' : x \in notes \/ x[2] = chain,
             \A w \in Sources : notice'[w] \in {0, notice[w]} \cup {x[2] : x \in notes}
      PROVE  Existing' /\ chain <= chain' /\ known <= known'
  <2>1. /\ known' <= chain /\ chain <= chain' /\ chain' \in Nat /\ known' \in Nat
        /\ \A n \in logs' : n <= chain /\ n \in Nat
        /\ \A x \in notes' : x[2] <= chain /\ x[2] \in Nat
        /\ \A w \in Sources : notice'[w] <= chain /\ notice'[w] \in Nat
    <3>1. known' <= chain /\ chain <= chain' /\ chain' \in Nat /\ known' \in Nat
      BY <1>0, <1>1 DEF Existing
    <3>2. ASSUME NEW n \in logs' PROVE n <= chain /\ n \in Nat
      BY <1>0, <1>1 DEF Existing
    <3>3. ASSUME NEW x \in notes' PROVE x[2] <= chain /\ x[2] \in Nat
      BY <1>0, <1>1 DEF Existing
    <3>4. ASSUME NEW w \in Sources PROVE notice'[w] <= chain /\ notice'[w] \in Nat
      <4>1. CASE notice'[w] \in {0, notice[w]}
        BY <1>0, <4>1 DEF Existing
      <4>2. CASE \E x \in notes : notice'[w] = x[2]
        BY <1>0, <4>2 DEF Existing
      <4> QED BY <1>1, <4>1, <4>2
    <3> QED BY <3>1, <3>2, <3>3, <3>4
  <2> QED BY <1>0, <1>1, <2>1 DEF Existing
<1>2. CASE Grow \/ PostOobi \/ Querier \/ Crash \/ \E n \in Events : PostEventQuery(n)
  BY <1>0, <1>1, <1>2 DEF Grow, PostOobi, Querier, Crash, PostEventQuery, disk, wire
<1>3. CASE PostStateQuery
  BY <1>0, <1>1, <1>3 DEF PostStateQuery, wire
<1>4. CASE Resolve
  BY <1>0, <1>1, <1>4 DEF Resolve, wire, Existing
<1>5. ASSUME NEW q \in {State} \cup Events, NEW w \in Sources, Answer(q, w)
      PROVE  Existing' /\ chain <= chain' /\ known <= known'
  BY <1>0, <1>1, <1>5 DEF Answer, disk
<1>6. ASSUME NEW n \in Events, ReceiveLog(n)
      PROVE  Existing' /\ chain <= chain' /\ known <= known'
  BY <1>0, <1>1, <1>6 DEF ReceiveLog
<1>7. ASSUME NEW n \in Events, NEW w \in Sources, ReceiveNotice(w, n)
      PROVE  Existing' /\ chain <= chain' /\ known <= known'
  <2>1. UNCHANGED <<chain, known, logs>> /\ notes' \subseteq notes /\ <<w, n>> \in notes
    BY <1>7 DEF ReceiveNotice
  <2>2. notice' = [notice EXCEPT ![w] = n] \/ notice' = notice
    BY <1>7 DEF ReceiveNotice
  <2>3. n \in {x[2] : x \in notes}
    <3>1. <<w, n>>[2] = n
      OBVIOUS
    <3> QED BY <2>1, <3>1
  <2>4. \A v \in Sources : notice'[v] \in {0, notice[v]} \cup {x[2] : x \in notes}
    <3>1. \A v \in Sources : notice'[v] = n \/ notice'[v] = notice[v]
      BY <2>2 DEF TypeOK
    <3> QED BY <2>3, <3>1
  <2> QED BY <1>0, <1>1, <2>1, <2>4
<1>8. CASE UNCHANGED vars
  BY <1>0, <1>1, <1>8 DEF vars, disk, wire
<1> QED BY <1>2, <1>3, <1>4, <1>5, <1>6, <1>7, <1>8 DEF Next, Posts, Answers, Receipts

\* A query for an event that is reported done (Monitor.status) names one that the remote identifier
\* has, and stays done whatever the Oobiery or the sources bring afterwards, and in whatever order.
THEOREM EventDoneStays ==
  Spec => /\ [](\A n \in Events : EventDone(n) => n <= chain)
          /\ [][\A n \in Events : EventDone(n) => EventDone(n)']_vars
<1>1. Init => Existing
  BY DEF Init, Existing
<1>2. TypeOK /\ Existing /\ [Next]_vars => Existing'
  BY EventsGrow
<1>3. TypeOK /\ Existing => \A n \in Events : EventDone(n) => n <= chain
  BY BoundAssumption DEF TypeOK, Existing, EventDone, Events
<1>4. ASSUME TypeOK, TypeOK', Existing, [Next]_vars, NEW n \in Events, EventDone(n)
      PROVE  EventDone(n)'
  <2>1. known <= known'
    BY <1>4, EventsGrow
  <2>2. known \in Nat /\ known' \in Nat /\ n \in Nat
    BY <1>4 DEF TypeOK, Events
  <2> QED BY <1>4, <2>1, <2>2 DEF EventDone
<1>5. TypeOK /\ TypeOK' /\ Existing /\ [Next]_vars =>
        [\A n \in Events : EventDone(n) => EventDone(n)']_vars
  BY <1>4
<1> QED BY <1>1, <1>2, <1>3, <1>5, TypeCorrect, PTL DEF Spec

=============================================================================
