----------------------------- MODULE Delegation -----------------------------
(***************************************************************************)
(* Delegated identifiers: the Delegator doer and the Anchorer of the agent *)
(* that holds the delegatees, POST /identifiers/{name}/delegation and its  *)
(* long running operation in the agent of the delegator, and the network   *)
(* between the two.                                                        *)
(*                                                                         *)
(* The delegatee's agent accepts a delegated event at once, has it         *)
(* receipted (dpwe), sends it to the delegator and waits (dune) for a seal *)
(* of it in the delegator's KEL, upon which it records the approval        *)
(* (cdel).  The delegator's agent holds the event among its delegables     *)
(* until an authorizing event is recorded for it.                          *)
(***************************************************************************)
EXTENDS Integers, Sequences, FiniteSets

CONSTANTS
  Delegatees,   \* delegated AIDs
  Wits,         \* witness AIDs
  MaxEvents,    \* bound: key events of a delegatee
  MaxDisturbed, \* bound: key events of a delegatee once a client overlapped or an agent stopped
  MaxApprovals, \* bound: approving events of the delegator
  MaxCrashes,   \* bound: how often either process stops
  MaxRefusals   \* bound: rotations the keeper refuses

VARIABLES
  kel,      \* key events of each delegatee in its own agent
  overlapped, \* history: a client made an event while an earlier one awaited approval
  habs,     \* delegatees with a Hab
  wigs,     \* witness receipts of each event
  aes,      \* the delegator's event recorded as the authorizer of each event (0: none)
  ops,      \* events with a long running operation
  anchors,  \* agent.anchors: requests for the Delegator doer
  msgs, cues, \* Anchorer.witDoer: events to be receipted, events it is through with
  outbox,   \* Anchorer.postman: events on their way to the delegator
  dpwe,     \* escrow: events to be receipted by the witnesses
  dune,     \* escrow: events sent to the delegator
  cdel,     \* events recorded as approved
  known,    \* how much of the delegator's KEL the delegatees' agent has
  torKel,   \* the event each approving event of the delegator seals
  torOps,   \* approving events with a long running operation
  received, \* events the delegator's agent has got
  torAes,   \* the authorizing event the delegator's agent recorded for each event (0: none)
  torSn,    \* how many events of each delegatee the delegator's agent accepted
  crashes, refusals

memory    == <<anchors, msgs, cues, outbox>>
tee       == <<kel, overlapped, habs, wigs, aes, ops>>
escrow    == <<dpwe, dune, cdel>>
tor       == <<torKel, torOps, received, torAes, torSn>>
vars      == <<memory, tee, escrow, known, tor, crashes, refusals>>

Events    == Delegatees \X (1..MaxEvents)
Approvals == 1..MaxApprovals
KeyEvent  == [est : BOOLEAN, wits : SUBSET Wits]

ASSUME WitsAssumption  == IsFiniteSet(Wits)
ASSUME BoundAssumption == /\ MaxEvents \in Nat \ {0} /\ MaxDisturbed \in 0..MaxEvents
                          /\ MaxApprovals \in Nat \ {0}
                          /\ MaxCrashes \in Nat /\ MaxRefusals \in Nat

Made(e)     == e[2] <= Len(kel[e[1]])
Est(e)      == Made(e) /\ kel[e[1]][e[2]].est
Latest(p)   == <<p, Len(kel[p])>>
WitsNow(p)  == IF kel[p] = <<>> THEN {} ELSE kel[p][Len(kel[p])].wits
Sealed      == {torKel[k] : k \in DOMAIN torKel}
Delegated   == {e \in Events : Est(e)}
Accepted    == {e \in Delegated : e[2] <= torSn[e[1]]}

\* What the two agents promise each other.
Promise == INSTANCE DelegationPromise
             WITH made <- Delegated, shown <- dune \cup cdel, sealed <- Sealed,
                  complete <- cdel, accepted <- Accepted
PromiseSpec == Promise!Spec

TypeOK ==
  /\ kel \in [Delegatees -> Seq(KeyEvent)]
  /\ \A p \in Delegatees : Len(kel[p]) <= MaxEvents
  /\ overlapped \in BOOLEAN /\ habs \subseteq Delegatees
  /\ wigs \in [Events -> SUBSET Wits]
  /\ aes \in [Events -> 0..MaxApprovals]
  /\ ops \cup anchors \cup msgs \cup cues \cup outbox \subseteq Events
  /\ dpwe \cup dune \cup cdel \cup received \subseteq Events
  /\ torKel \in Seq(Events)
  /\ Len(torKel) <= MaxApprovals
  /\ known \in 0..Len(torKel)
  /\ torOps \subseteq DOMAIN torKel
  /\ torAes \in [Events -> 0..MaxApprovals]
  /\ torSn \in [Delegatees -> 0..MaxEvents]
  /\ crashes \in 0..MaxCrashes
  /\ refusals \in 0..MaxRefusals

Init ==
  /\ kel = [p \in Delegatees |-> <<>>]
  /\ overlapped = FALSE /\ habs = {} /\ ops = {}
  /\ wigs = [e \in Events |-> {}]
  /\ aes = [e \in Events |-> 0]
  /\ anchors = {} /\ msgs = {} /\ cues = {} /\ outbox = {}
  /\ dpwe = {} /\ dune = {} /\ cdel = {}
  /\ known = 0 /\ torKel = <<>> /\ torOps = {} /\ received = {}
  /\ torAes = [e \in Events |-> 0]
  /\ torSn = [p \in Delegatees |-> 0]
  /\ crashes = 0 /\ refusals = 0

(***************************************************************************)
(* The delegatee's agent: requests.                                        *)
(***************************************************************************)

\* The events of a delegatee that are approved, all of them, as far as its client can tell.
Settled(p) == \A n \in DOMAIN kel[p] : Est(<<p, n>>) => <<p, n>> \in cdel

Grow(p, ev) ==
  /\ overlapped' = (overlapped \/ ~ Settled(p))
  /\ Len(kel[p]) < IF overlapped' \/ crashes > 0 THEN MaxDisturbed ELSE MaxEvents
  /\ kel' = [kel EXCEPT ![p] = Append(@, ev)]

\* POST /identifiers with a delegator the agent knows, or a rotation of the identifier.
Establish(p, W) ==
  LET e == <<p, Len(kel[p]) + 1>> IN
  /\ kel[p] = <<>> \/ p \in habs
  /\ Grow(p, [est |-> TRUE, wits |-> W])
  /\ habs' = habs \cup {p}
  /\ anchors' = anchors \cup {e}
  /\ ops' = ops \cup {e}
  /\ UNCHANGED <<wigs, aes, msgs, cues, outbox, escrow, known, tor, crashes, refusals>>

\* A rotation the keeper refuses: the event is in the KEL, and the Hab is deleted.
EstablishRefused(p, W) ==
  /\ refusals < MaxRefusals
  /\ p \in habs
  /\ Grow(p, [est |-> TRUE, wits |-> W])
  /\ habs' = habs \ {p}
  /\ refusals' = refusals + 1
  /\ UNCHANGED <<wigs, aes, ops, memory, escrow, known, tor, crashes>>

\* An interaction needs no approval; its receipts are not the Anchorer's business.
Interact(p) ==
  /\ p \in habs
  /\ Grow(p, [est |-> FALSE, wits |-> WitsNow(p)])
  /\ UNCHANGED <<habs, wigs, aes, ops, memory, escrow, known, tor, crashes, refusals>>

(***************************************************************************)
(* The delegatee's agent: the Delegator doer and the Anchorer.             *)
(***************************************************************************)

\* Mutant of Request: the witnesses are asked and the event is not escrowed.
RequestUnescrowed(e) ==
  /\ e \in anchors
  /\ e[1] \in habs
  /\ anchors' = anchors \ {e}
  /\ msgs' = msgs \cup {e}
  /\ UNCHANGED <<tee, cues, outbox, escrow, known, tor, crashes, refusals>>

\* Mutant of Request: the event is escrowed and the witnesses are not asked.
RequestUnasked(e) ==
  /\ e \in anchors
  /\ e[1] \in habs
  /\ anchors' = anchors \ {e}
  /\ dpwe' = dpwe \cup {e}
  /\ UNCHANGED <<tee, msgs, cues, outbox, dune, cdel, known, tor, crashes, refusals>>

\* Delegator.recur, Anchorer.delegation.
Request(e) ==
  /\ e \in anchors
  /\ e[1] \in habs
  /\ anchors' = anchors \ {e}
  /\ msgs' = msgs \cup {e}
  /\ dpwe' = dpwe \cup {e}
  /\ UNCHANGED <<tee, cues, outbox, dune, cdel, known, tor, crashes, refusals>>

\* The receiptor asks the present witnesses, each of which may fail to answer, and is through.
Receipt(e, W) ==
  /\ e \in msgs
  /\ e[1] \in habs
  /\ msgs' = msgs \ {e}
  /\ cues' = cues \cup {e}
  /\ wigs' = [wigs EXCEPT ![e] = @ \cup (W \cap WitsNow(e[1]))]
  /\ UNCHANGED <<kel, overlapped, habs, aes, ops, anchors, outbox, escrow, known, tor, crashes,
                 refusals>>

\* Mutant of Receipted: the receipts are not counted.
ReceiptedByCue(e) == WitsNow(e[1]) = {} \/ e \in cues

\* An escrowed event the Anchorer takes for receipted: as many receipts as there are witnesses.
Receipted(e) ==
  /\ Cardinality(wigs[e]) = Cardinality(WitsNow(e[1]))
  /\ WitsNow(e[1]) = {} \/ e \in cues

Moving  == {e \in dpwe : Receipted(e)}

\* Mutant of Anchors: seals are compared by the identifier alone.
AnchorsOfIdentifier(e) == {k \in 1..known : torKel[k][1] = e[1]}

\* findAnchoringSealEvent over what is known of the delegator's KEL: the first seal of an event.
Anchors(e) == {k \in 1..known : torKel[k] = e}

Anchor(e)  == CHOOSE k \in Anchors(e) : \A j \in Anchors(e) : k <= j
Approved(S) == {e \in S : Anchors(e) # {}}

\* setAes: the authorizer is recorded under the delegatee's latest event, and when several of its
\* events are approved at once it is that of the last the escrow yields.
Authorizations(S) ==
  {a \in [{p \in Delegatees : \E e \in S : e[1] = p} -> S] : \A p \in DOMAIN a : a[p][1] = p}

WithAuthorizer(a) ==
  [e \in Events |-> IF e[1] \in DOMAIN a /\ e = Latest(e[1]) THEN Anchor(a[e[1]]) ELSE aes[e]]

\* processUnanchoredEscrow, for the events S of its escrow.
Approve(S) ==
  /\ cdel' = cdel \cup S
  /\ \E a \in Authorizations(S) : aes' = WithAuthorizer(a)

\* Mutant of Process: what was sent stays in the first escrow.
ProcessKeepsEscrow ==
  LET done == Approved(dune \cup Moving) IN
  /\ Moving \cup done # {}
  /\ \A e \in dpwe : e[1] \in habs
  /\ outbox' = outbox \cup Moving
  /\ dune' = (dune \cup Moving) \ done
  /\ Approve(done)
  /\ UNCHANGED <<kel, overlapped, habs, wigs, ops, anchors, msgs, cues, dpwe, known, tor, crashes,
                 refusals>>

\* Anchorer.processEscrows: both escrows, one after the other.
Process ==
  LET done == Approved(dune \cup Moving) IN
  /\ Moving \cup done # {}
  /\ \A e \in dpwe : e[1] \in habs
  /\ dpwe' = dpwe \ Moving
  /\ outbox' = outbox \cup Moving
  /\ dune' = (dune \cup Moving) \ done
  /\ Approve(done)
  /\ UNCHANGED <<kel, overlapped, habs, wigs, ops, anchors, msgs, cues, known, tor, crashes,
                 refusals>>

(***************************************************************************)
(* The end of the process.                                                 *)
(***************************************************************************)

Forget ==
  /\ anchors' = {} /\ msgs' = {} /\ cues' = {} /\ outbox' = {}
  /\ UNCHANGED <<known, tor, refusals>>

Stop ==
  /\ crashes < MaxCrashes
  /\ crashes' = crashes + 1
  /\ Forget

Kill == Stop /\ UNCHANGED <<tee, escrow>>

\* Within a request, when the event is in the KEL and nothing else is done.
KillRequest(p, W) ==
  /\ kel[p] = <<>> \/ p \in habs
  /\ Grow(p, [est |-> TRUE, wits |-> W])
  /\ habs' = habs \cup {p}
  /\ Stop
  /\ UNCHANGED <<wigs, aes, ops, escrow>>

\* Within processPartialWitnessEscrow: the events S are through, e is out of one escrow only.
KillPartialWitness(S, e) ==
  /\ e \in Moving
  /\ S \subseteq Moving \ {e}
  /\ dpwe' = dpwe \ (S \cup {e})
  /\ dune' = dune \cup S
  /\ Stop
  /\ UNCHANGED <<tee, cdel>>

\* Within processUnanchoredEscrow: the events S are through, e is recorded and still in escrow.
KillUnanchored(S, e) ==
  LET waiting == dune \cup Moving IN
  /\ e \in Approved(waiting)
  /\ S \subseteq Approved(waiting) \ {e}
  /\ dpwe' = dpwe \ Moving
  /\ dune' = waiting \ S
  /\ Approve(S \cup {e})
  /\ Stop
  /\ UNCHANGED <<kel, overlapped, habs, wigs, ops>>

\* The Delegator doer and the Anchorer raise for an identifier without a Hab: the process ends,
\* and does so again each time the agent is loaded.  The Anchorer's pass has moved those entries
\* S of other identifiers that it came to first; they are not sent.
Raise ==
  /\ \E S \in SUBSET {e \in Moving : e[1] \in habs} :
       /\ \/ \E e \in dpwe : e[1] \notin habs
          \/ S = {} /\ \E e \in anchors : e[1] \notin habs
       /\ dpwe' = dpwe \ S
       /\ dune' = dune \cup S
  /\ Forget
  /\ UNCHANGED <<tee, cdel, crashes>>

(***************************************************************************)
(* The delegator's agent, and what travels between the two.                *)
(***************************************************************************)

Deliver(e) ==
  /\ e \in outbox
  /\ outbox' = outbox \ {e}
  /\ received' = received \cup {e}
  /\ UNCHANGED <<tee, anchors, msgs, cues, escrow, known, torKel, torOps, torAes, torSn,
                 crashes, refusals>>

\* The delegatees' agent learns of the delegator's events.
Learn ==
  /\ known < Len(torKel)
  /\ known' = known + 1
  /\ UNCHANGED <<memory, tee, escrow, tor, crashes, refusals>>

\* Delegated events the delegator's agent has escrowed for lack of an authorizing event.
Delegables(p) ==
  {e \in received : e[1] = p /\ e[2] = torSn[p] + 1}

\* Mutant of WithApproval: the event that waits is approved, not the one that is sealed.
WithApprovalOfWaiting(e, k) == [d \in Events |-> IF d \in Delegables(e[1]) THEN k ELSE torAes[d]]

\* approveDelegation: for the sealed event, if any event of its delegatee waits.
WithApproval(e, k) == IF Delegables(e[1]) # {} THEN [torAes EXCEPT ![e] = k] ELSE torAes

\* DelegatorEnd.on_post: the seal is always anchored anew.
Seal(e) ==
  LET k == Len(torKel) + 1 IN
  /\ k <= MaxApprovals
  /\ e \in Delegated
  /\ torKel' = Append(torKel, e)
  /\ torAes' = WithApproval(e, k)
  /\ torOps' = torOps \cup {k}
  /\ UNCHANGED <<memory, tee, escrow, known, received, torSn, crashes, refusals>>

\* The same, killed once the seal is anchored.
SealKilled(e) ==
  /\ crashes < MaxCrashes
  /\ Len(torKel) < MaxApprovals
  /\ e \in Delegated
  /\ torKel' = Append(torKel, e)
  /\ crashes' = crashes + 1
  /\ UNCHANGED <<memory, tee, escrow, known, torOps, received, torAes, torSn, refusals>>

\* Monitor.status of an approval: done when the delegatee is known, else approved again.
ApprovalDone(k) == k \in torOps /\ torSn[torKel[k][1]] > 0

\* Mutant of Poll: the status is reported and nothing is approved.
PollOnly(k) ==
  /\ k \in torOps
  /\ ~ ApprovalDone(k)
  /\ UNCHANGED vars

Poll(k) ==
  /\ k \in torOps
  /\ ~ ApprovalDone(k)
  /\ torAes' = WithApproval(torKel[k], k)
  /\ UNCHANGED <<memory, tee, escrow, known, torKel, torOps, received, torSn, crashes, refusals>>

\* Kevery.processEscrowDelegables.
Accept(e) ==
  /\ e \in Delegables(e[1])
  /\ torAes[e] # 0
  /\ torKel[torAes[e]] = e
  /\ torSn' = [torSn EXCEPT ![e[1]] = e[2]]
  /\ UNCHANGED <<memory, tee, escrow, known, torKel, torOps, received, torAes, crashes, refusals>>

\* The delegator's agent learns of an interaction of a delegatee it knows.
CatchUp(p) ==
  /\ 0 < torSn[p] /\ torSn[p] < Len(kel[p])
  /\ ~ kel[p][torSn[p] + 1].est
  /\ torSn' = [torSn EXCEPT ![p] = @ + 1]
  /\ UNCHANGED <<memory, tee, escrow, known, torKel, torOps, received, torAes, crashes, refusals>>

(***************************************************************************)
(* Specification.                                                          *)
(***************************************************************************)

TeeRequests ==
  \E p \in Delegatees :
    \/ Interact(p)
    \/ \E W \in SUBSET Wits : Establish(p, W) \/ EstablishRefused(p, W)

Anchorer ==
  \/ \E e \in Events : Request(e) \/ \E W \in SUBSET Wits : Receipt(e, W)
  \/ Process

Ends ==
  \/ Kill \/ Raise
  \/ \E p \in Delegatees, W \in SUBSET Wits : KillRequest(p, W)
  \/ \E e \in Events, S \in SUBSET Events : KillPartialWitness(S, e) \/ KillUnanchored(S, e)

DelegatorAgent ==
  \/ \E e \in Events : Deliver(e) \/ Seal(e) \/ SealKilled(e) \/ Accept(e)
  \/ \E k \in Approvals : Poll(k)
  \/ \E p \in Delegatees : CatchUp(p)
  \/ Learn

Next == TeeRequests \/ Anchorer \/ Ends \/ DelegatorAgent

Spec == Init /\ [][Next]_vars

\* The doers of both agents are scheduled for ever, what is sent arrives, what the delegator
\* anchors becomes known, and the delegator's client asks for the status of its approvals.
Fairness ==
  /\ WF_vars(Process) /\ WF_vars(Learn)
  /\ \A e \in Events : /\ WF_vars(Request(e)) /\ WF_vars(\E W \in SUBSET Wits : Receipt(e, W))
                       /\ WF_vars(Deliver(e)) /\ WF_vars(Accept(e))
  /\ \A k \in Approvals : WF_vars(Poll(k))
  /\ \A p \in Delegatees : WF_vars(CatchUp(p))

FairSpec == Spec /\ Fairness


(***************************************************************************)
(* Properties.                                                             *)
(***************************************************************************)

\* An event is in one stage of its delegation at most: anchored for, in either escrow, or
\* approved; only a kill between cdel.put and dune.rem leaves one approved and in escrow.
OnceEscrowed ==
  /\ anchors \cap (dpwe \cup dune \cup cdel) = {}
  /\ dpwe \cap (dune \cup cdel) = {}
  /\ crashes = 0 => dune \cap cdel = {}

\* While the process neither stopped nor failed, every event a client has a delegation
\* operation for is in one of the stages: no step of the protocol drops it.
NothingLost ==
  crashes = 0 /\ refusals = 0 => ops \subseteq anchors \cup dpwe \cup dune \cup cdel

\* The delegator's agent never records as an event's authorizer an event that does not seal it,
\* whatever was polled, delivered late or approved twice.
ApprovalSealsItsEvent ==
  \A e \in Events : torAes[e] # 0 => torAes[e] \in DOMAIN torKel /\ torKel[torAes[e]] = e

\* Unless a client overlapped, what is sent to the delegator has been receipted by every witness
\* of the event (processPartialWitnessEscrow: "events that do not have a full compliment of
\* receipts").
SentIsWitnessed ==
  ~ overlapped => \A e \in dune \cup received : kel[e[1]][e[2]].wits \subseteq wigs[e]

\* The authorizer seal the delegatee's agent records for an event, and sends with it from then
\* on, names an event of the delegator that seals it (processUnanchoredEscrow), unless a client
\* overlapped or the agent was killed between the records of an approval.
AuthorizerSealsItsEvent ==
  ~ overlapped /\ crashes = 0 => \A e \in Events : aes[e] # 0 => torKel[aes[e]] = e

\* An event that was requested and is sealed by the delegator is approved in the end, unless a
\* witness failed to answer, a client overlapped, or the agent stopped or lost a Hab.
Unanswered(e) == e \in cues /\ ~ kel[e[1]][e[2]].wits \subseteq wigs[e]
DelegationCompletes ==
  \A e \in Events :
    (e \in ops /\ e \in Sealed)
      ~> (e \in cdel \/ Unanswered(e) \/ overlapped \/ crashes > 0 \/ refusals > 0)

\* The delegator's agent accepts an inception it received and its controller sealed, whether the
\* event or the approval came first.
ApprovedInceptionAccepted ==
  \A p \in Delegatees :
    (<<p, 1>> \in received /\ \E k \in torOps : torKel[k] = <<p, 1>>) ~> torSn[p] > 0

=============================================================================
