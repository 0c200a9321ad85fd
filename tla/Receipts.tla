------------------------------ MODULE Receipts ------------------------------
(***************************************************************************)
(* Witness receipts of the key events of one identifier that is neither    *)
(* delegated nor a group: the requests that queue an event, the Witnesser  *)
(* and Submitter doers, and what the Monitor reports of the witness and    *)
(* submit operations.                                                      *)
(***************************************************************************)
EXTENDS Integers, Sequences, FiniteSets

CONSTANTS
  Wits,       \* witness AIDs
  KeepToad,   \* whether rotations leave the threshold as it was
  MaxEvents,  \* bound: key events
  MaxSubmits, \* bound: resubmissions
  MaxCrashes  \* bound: how often the process stops

VARIABLES
  kel,     \* each key event: the witnesses and the threshold it leaves in force
  wigs,    \* receipts of each event
  witners, \* agent.witners, a Deck of events
  current, \* the events the Witnesser has taken and not finished: at most one
  submits, \* agent.submits: how many requests wait
  doers,   \* Submitter.doers: how often the WitnessReceiptor is listed
  msgs,    \* the WitnessReceiptor's Deck of events to be receipted
  cues,    \* how many it finished with all receipts
  ops,     \* events with a witness operation
  submit,  \* the submit operation: the event it was made for, or 0
  expired, \* operations older than TimeoutPWE: events, and 0 for the submit operation
  asked, crashes

queues == <<witners, current, submits, doers, msgs, cues>>
table  == <<ops, submit, expired>>
vars   == <<kel, wigs, queues, table, asked, crashes>>

Events   == 1..MaxEvents
KeyEvent == {k \in [wits : SUBSET Wits, toad : 0..Cardinality(Wits)] : k.toad <= Cardinality(k.wits)}
Last     == Len(kel)
WitsNow  == kel[Last].wits
ToadNow  == kel[Last].toad

ASSUME WitsAssumption  == IsFiniteSet(Wits) /\ KeepToad \in BOOLEAN
ASSUME BoundAssumption == MaxEvents \in Nat \ {0} /\ MaxSubmits \in Nat /\ MaxCrashes \in Nat

TypeOK ==
  /\ kel \in Seq(KeyEvent) /\ Last \in Events
  /\ wigs \in [Events -> SUBSET Wits]
  /\ witners \in Seq(Events)
  /\ current \subseteq Events
  /\ submits \in Nat /\ doers \in Nat /\ cues \in Nat
  /\ msgs \in Seq(1..Last)
  /\ ops \subseteq 1..Last
  /\ submit \in 0..Last
  /\ expired \subseteq ops \cup {0}
  /\ asked \in 0..MaxSubmits /\ crashes \in 0..MaxCrashes

\* POST /identifiers: the inception is queued for its witnesses, if it has any.
Init ==
  /\ \E k \in KeyEvent : kel = <<k>>
  /\ wigs = [n \in Events |-> {}]
  /\ witners = IF WitsNow = {} THEN <<>> ELSE <<1>>
  /\ ops = IF WitsNow = {} THEN {} ELSE {1}
  /\ current = {} /\ submits = 0 /\ doers = 0 /\ cues = 0
  /\ msgs = <<>>
  /\ submit = 0 /\ expired = {} /\ asked = 0 /\ crashes = 0

\* rotate and interact: the event is queued and gets an operation, if there are witnesses.
Extend(k) ==
  LET n == Last + 1 IN
  /\ Last < MaxEvents
  /\ kel' = Append(kel, k)
  /\ IF k.wits = {} THEN UNCHANGED <<witners, ops>>
     ELSE witners' = Append(witners, n) /\ ops' = ops \cup {n}
  /\ UNCHANGED <<wigs, current, submits, doers, msgs, cues, submit, expired, asked, crashes>>

Rotate(k) == (KeepToad => k.toad = ToadNow) /\ Extend(k)
Interact  == Extend(kel[Last])

\* Mutant of WitnesserTake: the event is looked at and stays queued.
WitnesserPeek ==
  /\ witners # <<>> /\ current = {}
  /\ current' = {Head(witners)}
  /\ UNCHANGED <<kel, wigs, witners, submits, doers, msgs, cues, table, asked, crashes>>

\* Witnesser.recur takes an event; its receipts come one by one, from witnesses that answer.
WitnesserTake ==
  /\ witners # <<>> /\ current = {}
  /\ current' = {Head(witners)}
  /\ witners' = Tail(witners)
  /\ UNCHANGED <<kel, wigs, submits, doers, msgs, cues, table, asked, crashes>>

WitnesserReceipt(w) ==
  /\ w \in WitsNow
  /\ \E n \in current : w \notin wigs[n] /\ wigs' = [wigs EXCEPT ![n] = @ \cup {w}]
  /\ UNCHANGED <<kel, queues, table, asked, crashes>>

WitnesserDone ==
  /\ current # {}
  /\ current' = {}
  /\ UNCHANGED <<kel, wigs, witners, submits, doers, msgs, cues, table, asked, crashes>>

\* PUT /identifiers/{name}?type=submit: the operation names the event, the queue does not.
SubmitRequest ==
  /\ asked < MaxSubmits /\ asked' = asked + 1
  /\ WitsNow # {}
  /\ submits' = submits + 1
  /\ submit' = Last
  /\ expired' = expired \ {0}
  /\ UNCHANGED <<kel, wigs, witners, current, doers, msgs, cues, ops, crashes>>

\* Submitter.recur takes a request for whatever event is the last by now.
SubmitterTake ==
  /\ submits > 0
  /\ submits' = submits - 1
  /\ IF WitsNow = {} THEN UNCHANGED <<doers, msgs>>
     ELSE doers' = doers + 1 /\ msgs' = Append(msgs, Last)
  /\ UNCHANGED <<kel, wigs, witners, current, cues, table, asked, crashes>>

\* The WitnessReceiptor, while the Submitter lists it: a cue only when all witnesses answered.
SubmitReceipt ==
  /\ msgs # <<>>
  /\ wigs' = [wigs EXCEPT ![Head(msgs)] = @ \cup WitsNow]
  /\ msgs' = Tail(msgs)
  /\ cues' = cues + 1
  /\ UNCHANGED <<kel, witners, current, submits, doers, table, asked, crashes>>

\* Mutant of SubmitterCues: a doer is dropped for any cue, and requests are not looked at.
SubmitterForgets ==
  /\ doers > 0
  /\ doers' = 0 /\ cues' = 0
  /\ UNCHANGED <<kel, wigs, witners, current, submits, msgs, table, asked, crashes>>

\* Mutant of SubmitterCues: the last cue is left for the next pass.
SubmitterLeavesCue ==
  /\ submits = 0 /\ doers > 0 /\ cues > 1
  /\ cues' = 1 /\ doers' = doers - 1
  /\ UNCHANGED <<kel, wigs, witners, current, submits, msgs, table, asked, crashes>>

\* Submitter.recur, no request waiting: every listing of the doer takes one of its cues, and the
\* one that takes the last cue is dropped.
SubmitterCues ==
  /\ submits = 0 /\ doers > 0 /\ cues > 0
  /\ cues' = IF cues <= doers THEN 0 ELSE cues - doers
  /\ doers' = IF cues <= doers THEN doers - 1 ELSE doers
  /\ UNCHANGED <<kel, wigs, witners, current, submits, msgs, table, asked, crashes>>

\* TimeoutPWE passes, and DELETE /operations/{name}.
Expire(n) ==
  /\ n \in ops \ expired \/ (n = 0 /\ submit # 0 /\ 0 \notin expired)
  /\ expired' = expired \cup {n}
  /\ UNCHANGED <<kel, wigs, queues, ops, submit, asked, crashes>>

DeleteOperation(n) ==
  /\ n \in ops \/ (n = 0 /\ submit # 0)
  /\ ops' = ops \ {n} /\ expired' = expired \ {n}
  /\ submit' = IF n = 0 THEN 0 ELSE submit
  /\ UNCHANGED <<kel, wigs, queues, asked, crashes>>

\* The queues are in memory.
Crash ==
  /\ crashes < MaxCrashes /\ crashes' = crashes + 1
  /\ witners' = <<>> /\ current' = {} /\ submits' = 0 /\ doers' = 0 /\ cues' = 0
  /\ msgs' = <<>>
  /\ UNCHANGED <<kel, wigs, table, asked>>

Doers ==
  \/ WitnesserTake \/ WitnesserDone \/ \E w \in Wits : WitnesserReceipt(w)
  \/ SubmitterTake \/ SubmitterCues \/ SubmitReceipt

Next ==
  \/ \E k \in KeyEvent : Rotate(k)
  \/ Interact \/ SubmitRequest \/ Doers \/ Crash
  \/ \E n \in 0..MaxEvents : Expire(n) \/ DeleteOperation(n)

Spec == Init /\ [][Next]_vars

\* The doers are scheduled for ever; witnesses answer before the Receiptor gives them up.
Fairness ==
  /\ WF_vars(WitnesserTake) /\ WF_vars(WitnesserDone)
  /\ \A w \in Wits : SF_vars(WitnesserReceipt(w))
  /\ WF_vars(SubmitterTake) /\ WF_vars(SubmitterCues) /\ WF_vars(SubmitReceipt)
FairSpec == Spec /\ Fairness

(***************************************************************************)
(* What the Monitor reports, and properties.                               *)
(***************************************************************************)

\* Mutant of WitnessStatus: the receipts counted are those of the latest event.
WitnessStatusOfLast(n) ==
  IF Cardinality(wigs[Last]) >= ToadNow THEN "done" ELSE IF n \in expired THEN "failed" ELSE "pending"

\* Monitor.status of a witness operation: against the threshold in force now.
WitnessStatus(n) ==
  IF Cardinality(wigs[n]) >= ToadNow THEN "done" ELSE IF n \in expired THEN "failed" ELSE "pending"

\* Monitor.status of a submit operation: whatever is submitted, for any identifier.
SubmitStatus ==
  IF submits = 0 /\ doers = 0 THEN "done" ELSE IF 0 \in expired THEN "failed" ELSE "pending"

\* While rotations leave the threshold as it is, a witness operation that is done and did not fail
\* has as many receipts as its event asks for, whatever expired or was lost in between
\* (Monitor.status: without "sufficient witness receipts" it times out); and it stays done as long
\* as it is kept, unless a rotation raises the threshold.
EnoughReceipts ==
  /\ [](\A n \in ops : WitnessStatus(n) = "done" => Cardinality(wigs[n]) >= kel[n].toad)
  /\ [][\A n \in ops \cap ops' :
           WitnessStatus(n) = "done" /\ ToadNow' <= ToadNow => WitnessStatus(n)' = "done"]_vars

\* Unless the process stops, a submit operation that is done got receipts, for the event it was
\* made for or a later one, from all witnesses there have been since some event on (Submitter:
\* "re-submit the last event from the KEL to the witnesses for receipts").
SubmitDoneIsReceipted ==
  crashes = 0 /\ submit # 0 /\ SubmitStatus = "done" =>
    \E m \in submit..Last : \E j \in m..Last : kel[j].wits \subseteq wigs[m]

\* Unless the process stops, a single resubmission comes to an end (Monitor.status times it out
\* only for a lack of "sufficient witness receipts"), provided witnesses answer.
SubmitCompletes ==
  \A k \in 0..MaxCrashes :
    (crashes = k /\ asked = 1 /\ SubmitStatus = "pending")
      ~> (crashes # k \/ asked > 1 \/ SubmitStatus = "done")

\* Unless the process stops, every queued event is taken to the witnesses, however many are
\* queued before it.
WitnesserDrains ==
  \A k \in 0..MaxCrashes, n \in Events :
    (crashes = k /\ \E i \in DOMAIN witners : witners[i] = n) ~> (crashes # k \/ n \in current)

=============================================================================
