-------------------------- MODULE DelegationProofs --------------------------
(***************************************************************************)
(* Theorems about Delegation, for any delegatees, witnesses and bounds:    *)
(* types, stages, loss, the delegator's approvals, and that the two agents *)
(* implement DelegationPromise.                                            *)
(***************************************************************************)
EXTENDS Delegation, SequenceTheorems, FiniteSetTheorems, WellFoundedInduction, TLAPS

\* Every event that is anywhere in the protocol is a delegated event of its delegatee's KEL.
MadeInv ==
  /\ ops \cup anchors \cup dpwe \cup dune \cup cdel \cup outbox \cup received \subseteq Delegated
  /\ Sealed \subseteq Delegated

\* What is approved is sealed, on either side; nobody is ahead of the delegatee.
SealedInv ==
  /\ cdel \subseteq Sealed
  /\ Accepted \subseteq Sealed
  /\ \A p \in Delegatees : torSn[p] <= Len(kel[p])

\* Until a rotation was refused, the Anchorer's events are of identifiers with a Hab.
HabInv == refusals = 0 => \A e \in anchors \cup dpwe : e[1] \in habs

IInv ==
  /\ TypeOK
  /\ MadeInv
  /\ OnceEscrowed
  /\ NothingLost
  /\ ApprovalSealsItsEvent
  /\ SealedInv
  /\ HabInv

-----------------------------------------------------------------------------

\* What the growth of a delegatee's KEL leaves alone, and what it adds: at most the new event.
LEMMA GrowFacts ==
  ASSUME TypeOK, NEW p \in Delegatees, NEW ev \in KeyEvent, Grow(p, ev)
  PROVE  /\ kel' \in [Delegatees -> Seq(KeyEvent)] /\ overlapped' \in BOOLEAN
         /\ \A q \in Delegatees : Len(kel'[q]) <= MaxEvents /\ Len(kel[q]) <= Len(kel'[q])
         /\ <<p, Len(kel[p]) + 1>> \in Events
         /\ <<p, Len(kel[p]) + 1>> \notin Delegated
         /\ Delegated' = Delegated \cup (IF ev.est THEN {<<p, Len(kel[p]) + 1>>} ELSE {})
<1> DEFINE e == <<p, Len(kel[p]) + 1>>
<1>1. kel \in [Delegatees -> Seq(KeyEvent)] /\ \A q \in Delegatees : Len(kel[q]) \in 0..MaxEvents
  BY BoundAssumption, LenProperties DEF TypeOK
<1>2. /\ kel'[p] = Append(kel[p], ev)
      /\ \A q \in Delegatees \ {p} : kel'[q] = kel[q]
  BY <1>1 DEF Grow
<1>3. /\ kel' \in [Delegatees -> Seq(KeyEvent)]
      /\ Len(kel'[p]) = Len(kel[p]) + 1
      /\ \A n \in 1..Len(kel[p]) : kel'[p][n] = kel[p][n]
      /\ kel'[p][Len(kel[p]) + 1] = ev
  BY <1>1, <1>2, AppendProperties DEF Grow
<1>4. \A q \in Delegatees : Len(kel'[q]) <= MaxEvents /\ Len(kel[q]) <= Len(kel'[q])
  <2>1. Len(kel[p]) < MaxEvents
    BY <1>1, BoundAssumption DEF Grow
  <2> QED BY <2>1, <1>1, <1>2, <1>3, BoundAssumption
<1>5. e \in Events /\ e \notin Delegated
  BY <1>1, <1>4, <1>3, BoundAssumption DEF Events, Delegated, Est, Made
<1>6. ASSUME NEW d \in Events
      PROVE  d \in Delegated' <=> d \in Delegated \/ (d = e /\ ev.est)
  <2>1. PICK q \in Delegatees, n \in 1..MaxEvents : d = <<q, n>>
    BY DEF Events
  <2>2. (d \in Delegated' <=> n <= Len(kel'[q]) /\ kel'[q][n].est)
        /\ (d \in Delegated <=> n <= Len(kel[q]) /\ kel[q][n].est)
    BY <2>1 DEF Delegated, Est, Made, Events
  <2>3. CASE q # p
    BY <2>1, <2>2, <2>3, <1>2
  <2>4. CASE q = p
    <3>1. CASE n <= Len(kel[p])
      <4>1. n <= Len(kel'[q]) /\ n \in 1..Len(kel[p]) /\ d # e
        BY <3>1, <2>1, <2>4, <1>1, <1>3
      <4> QED BY <4>1, <3>1, <2>2, <2>4, <1>3
    <3>2. CASE n = Len(kel[p]) + 1
      BY <3>2, <2>1, <2>2, <2>4, <1>1, <1>3
    <3>3. CASE n > Len(kel[p]) + 1
      BY <3>3, <2>1, <2>2, <2>4, <1>1, <1>3
    <3> QED BY <3>1, <3>2, <3>3, <1>1
  <2> QED BY <2>3, <2>4
<1>7. Delegated' = Delegated \cup (IF ev.est THEN {e} ELSE {})
  BY <1>5, <1>6 DEF Delegated
<1>8. overlapped' \in BOOLEAN
  BY DEF Grow, TypeOK
<1> QED BY <1>3, <1>4, <1>5, <1>7, <1>8

\* While the KELs stay, so do the delegated events.
LEMMA SameDelegated == UNCHANGED kel => Delegated' = Delegated
  BY DEF Delegated, Est, Made

\* What the delegator sealed stays sealed, and it seals one event at a time.
LEMMA SealFacts ==
  ASSUME TypeOK, NEW e \in Events, Len(torKel) < MaxApprovals, torKel' = Append(torKel, e)
  PROVE  /\ torKel' \in Seq(Events) /\ Len(torKel') = Len(torKel) + 1
         /\ Len(torKel) \in Nat
         /\ DOMAIN torKel' = DOMAIN torKel \cup {Len(torKel) + 1}
         /\ \A k \in DOMAIN torKel : torKel'[k] = torKel[k]
         /\ torKel'[Len(torKel) + 1] = e
         /\ Sealed' = Sealed \cup {e}
<1>1. torKel \in Seq(Events) /\ Len(torKel) \in Nat
  BY LenProperties DEF TypeOK
<1>2. /\ torKel' \in Seq(Events) /\ Len(torKel') = Len(torKel) + 1
      /\ \A k \in 1..Len(torKel) : torKel'[k] = torKel[k]
      /\ torKel'[Len(torKel) + 1] = e
  BY <1>1, AppendProperties
<1>3. DOMAIN torKel = 1..Len(torKel) /\ DOMAIN torKel' = 1..Len(torKel')
  BY <1>1, <1>2, LenProperties
<1>4. DOMAIN torKel' = DOMAIN torKel \cup {Len(torKel) + 1}
  BY <1>1, <1>2, <1>3
<1>5. Sealed' = Sealed \cup {e}
  BY <1>2, <1>3, <1>4 DEF Sealed
<1> QED BY <1>1, <1>2, <1>3, <1>4, <1>5

\* Updating a function within its range keeps its type, and the other values.
LEMMA Updated ==
  ASSUME NEW A, NEW B, NEW f \in [A -> B], NEW x, NEW v \in B
  PROVE  /\ [f EXCEPT ![x] = v] \in [A -> B]
         /\ \A y \in A : [f EXCEPT ![x] = v][y] = IF y = x THEN v ELSE f[y]
  OBVIOUS

\* A nonempty set of numbers has a least element.
LEMMA Least ==
  ASSUME NEW T \in SUBSET Nat, T # {}
  PROVE  \E x \in T : \A y \in T : x <= y
<1> DEFINE R == OpToRel(<, Nat)
<1>1. IsWellFoundedOn(R, Nat)
  BY NatLessThanWellFounded
<1>2. \A x, y \in Nat : y < x => <<y, x>> \in R
  BY DEF OpToRel
<1> HIDE DEF R
<1>3. PICK x \in T : \A y \in T : ~ (<<y, x>> \in R)
  BY <1>1, WFMin
<1>4. \A y \in T : ~ (y < x)
  BY <1>2, <1>3
<1> QED BY <1>3, <1>4

\* The events the Anchorer takes for approved are sealed, and the anchor it finds is an event.
LEMMA ApprovedFacts ==
  ASSUME TypeOK, NEW S, S \subseteq Events
  PROVE  /\ Approved(S) \subseteq S \cap Sealed
         /\ \A e \in Approved(S) : Anchor(e) \in 0..MaxApprovals
<1>1. torKel \in Seq(Events) /\ Len(torKel) \in Nat /\ known \in 0..Len(torKel)
      /\ Len(torKel) <= MaxApprovals /\ DOMAIN torKel = 1..Len(torKel)
  BY LenProperties DEF TypeOK
<1>2. ASSUME NEW e \in Approved(S) PROVE e \in S \cap Sealed /\ Anchor(e) \in 0..MaxApprovals
  <2>1. e \in S /\ \E k \in 1..known : torKel[k] = e
    BY <1>2 DEF Approved, Anchors
  <2>2. e \in Sealed
    BY <2>1, <1>1 DEF Sealed
  <2>3. Anchors(e) \subseteq Nat /\ Anchors(e) # {}
    BY <2>1, <1>1 DEF Anchors
  <2>4. \E k \in Anchors(e) : \A j \in Anchors(e) : k <= j
    BY <2>3, Least
  <2>5. Anchor(e) \in Anchors(e)
    BY <2>4 DEF Anchor
  <2> QED BY <2>1, <2>2, <2>5, <1>1, BoundAssumption DEF Anchors
<1> QED BY <1>2

-----------------------------------------------------------------------------

\* What depends on the KELs and on how much of them the delegator has.
LEMMA SameAccepted == UNCHANGED <<kel, torSn>> => Delegated' = Delegated /\ Accepted' = Accepted
  BY SameDelegated DEF Accepted

\* Growth makes nothing accepted.
LEMMA GrowAccepted ==
  ASSUME TypeOK, SealedInv, NEW p \in Delegatees, NEW ev \in KeyEvent, Grow(p, ev), torSn' = torSn
  PROVE  /\ Delegated \subseteq Delegated'
         /\ Accepted' = Accepted
         /\ \A q \in Delegatees : torSn'[q] <= Len(kel'[q])
<1> DEFINE e == <<p, Len(kel[p]) + 1>>
<1>1. kel \in [Delegatees -> Seq(KeyEvent)] /\ \A q \in Delegatees : Len(kel[q]) \in Nat
  BY LenProperties DEF TypeOK
<1>2. torSn \in [Delegatees -> 0..MaxEvents] /\ \A q \in Delegatees : torSn[q] <= Len(kel[q])
  BY DEF TypeOK, SealedInv
<1>3. /\ kel' \in [Delegatees -> Seq(KeyEvent)]
      /\ \A q \in Delegatees : Len(kel[q]) <= Len(kel'[q])
      /\ Delegated' = Delegated \cup (IF ev.est THEN {e} ELSE {})
  BY GrowFacts
<1>4. \A q \in Delegatees : Len(kel'[q]) \in Nat
  BY <1>3, LenProperties
<1>5. ~ (e[2] <= torSn'[e[1]])
  BY <1>1, <1>2
<1>6. Delegated \subseteq Delegated' /\ Delegated' \subseteq Delegated \cup {e}
  BY <1>3
<1>7. Accepted' = Accepted
  BY <1>5, <1>6 DEF Accepted
<1>8. \A q \in Delegatees : torSn[q] \in Nat
  BY <1>2, BoundAssumption
<1>9. \A q \in Delegatees : torSn'[q] <= Len(kel'[q])
  BY <1>1, <1>2, <1>3, <1>4, <1>8
<1> QED BY <1>6, <1>7, <1>9

\* The present witnesses of a delegatee are witnesses.
LEMMA WitsTyped ==
  ASSUME TypeOK, NEW p \in Delegatees
  PROVE  WitsNow(p) \in SUBSET Wits
<1>1. CASE kel[p] = <<>>
  BY <1>1 DEF WitsNow
<1>2. CASE kel[p] # <<>>
  <2>1. kel[p] \in Seq(KeyEvent) /\ Len(kel[p]) \in 1..Len(kel[p])
    BY <1>2, LenProperties, EmptySeq DEF TypeOK
  <2>2. kel[p][Len(kel[p])] \in KeyEvent
    BY <2>1, ElementOfSeq
  <2> QED BY <1>2, <2>2 DEF WitsNow, KeyEvent
<1> QED BY <1>1, <1>2

\* The requests of the delegatees' clients, whole or killed half way.
LEMMA RequestsInv ==
  ASSUME IInv, NEW p \in Delegatees, NEW W \in SUBSET Wits,
         Establish(p, W) \/ EstablishRefused(p, W) \/ KillRequest(p, W) \/ Interact(p)
  PROVE  IInv'
<1> DEFINE e == <<p, Len(kel[p]) + 1>>
<1> USE DEF IInv, tee, escrow, memory, tor, Stop, Forget
<1>1. PICK ev \in KeyEvent : /\ Grow(p, ev)
                             /\ Establish(p, W) => ev.est
  <2>1. WitsNow(p) \in SUBSET Wits
    BY WitsTyped
  <2>2. [est |-> TRUE, wits |-> W] \in KeyEvent /\ [est |-> FALSE, wits |-> WitsNow(p)] \in KeyEvent
    BY <2>1 DEF KeyEvent
  <2>4. CASE Establish(p, W) \/ EstablishRefused(p, W) \/ KillRequest(p, W)
    <3>1. Grow(p, [est |-> TRUE, wits |-> W])
      BY <2>4 DEF Establish, EstablishRefused, KillRequest
    <3>2. [est |-> TRUE, wits |-> W].est
      OBVIOUS
    <3> QED BY <2>2, <3>1, <3>2
  <2>5. CASE Interact(p) /\ ~ Establish(p, W)
    <3>1. Grow(p, [est |-> FALSE, wits |-> WitsNow(p)])
      BY <2>5 DEF Interact
    <3> QED BY <2>2, <2>5, <3>1
  <2> QED BY <2>2, <2>4, <2>5
<1>2. UNCHANGED <<tor, dpwe, dune, cdel, aes, wigs, known>>
  BY DEF Establish, EstablishRefused, KillRequest, Interact
<1>3. /\ Delegated \subseteq Delegated' /\ Accepted' = Accepted
      /\ \A q \in Delegatees : torSn'[q] <= Len(kel'[q])
      /\ e \in Events /\ e \notin Delegated
      /\ Establish(p, W) => e \in Delegated'
  BY <1>1, <1>2, GrowFacts, GrowAccepted
<1>4. /\ kel' \in [Delegatees -> Seq(KeyEvent)] /\ overlapped' \in BOOLEAN
      /\ \A q \in Delegatees : Len(kel'[q]) <= MaxEvents
  BY <1>1, GrowFacts
<1>5. /\ anchors' = {} \/ anchors' = anchors \/ (Establish(p, W) /\ anchors' = anchors \cup {e})
      /\ outbox' = {} \/ outbox' = outbox
      /\ msgs' = {} \/ msgs' = msgs
      /\ cues' = {} \/ cues' = cues
  BY DEF Establish, EstablishRefused, KillRequest, Interact
<1>6. ops' = ops \/ (Establish(p, W) /\ ops' = ops \cup {e})
  BY DEF Establish, EstablishRefused, KillRequest, Interact
<1>7. TypeOK'
  <2>1. habs' \subseteq Delegatees
    BY DEF Establish, EstablishRefused, KillRequest, Interact, TypeOK
  <2>2. crashes' \in 0..MaxCrashes /\ refusals' \in 0..MaxRefusals
    <3>1. /\ crashes' = crashes \/ (crashes < MaxCrashes /\ crashes' = crashes + 1)
          /\ refusals' = refusals \/ (refusals < MaxRefusals /\ refusals' = refusals + 1)
      BY DEF Establish, EstablishRefused, KillRequest, Interact, Stop
    <3> QED
      BY <3>1, BoundAssumption DEF TypeOK
  <2>3. /\ (ops \cup anchors \cup msgs \cup cues \cup outbox)' \subseteq Events
        /\ (dpwe \cup dune \cup cdel \cup received)' \subseteq Events
    BY <1>2, <1>3, <1>5, <1>6 DEF TypeOK
  <2> QED BY <1>2, <1>4, <2>1, <2>2, <2>3 DEF TypeOK
<1>8. MadeInv'
  BY <1>2, <1>3, <1>5, <1>6 DEF MadeInv, Sealed
<1>9. OnceEscrowed'
  <2>1. crashes' = 0 => crashes = 0
    BY BoundAssumption DEF Establish, EstablishRefused, KillRequest, Interact, TypeOK
  <2> QED BY <2>1, <1>2, <1>3, <1>5 DEF OnceEscrowed, MadeInv
<1>10. NothingLost'
  <2>1. SUFFICES ASSUME crashes' = 0, refusals' = 0
                 PROVE  ops' \subseteq anchors' \cup dpwe' \cup dune' \cup cdel'
    BY DEF NothingLost
  <2>2. ~ KillRequest(p, W) /\ ~ EstablishRefused(p, W)
    BY <2>1, BoundAssumption DEF KillRequest, EstablishRefused, TypeOK
  <2> QED BY <2>1, <2>2, <1>2 DEF NothingLost, Establish, Interact
<1>11. ApprovalSealsItsEvent' /\ SealedInv'
  BY <1>2, <1>3 DEF ApprovalSealsItsEvent, SealedInv, Sealed
<1>12. HabInv'
  <2>1. refusals' = 0 => refusals = 0 /\ ~ EstablishRefused(p, W)
    BY BoundAssumption DEF Establish, EstablishRefused, KillRequest, Interact, TypeOK
  <2>2. ~ EstablishRefused(p, W) => habs \subseteq habs'
    BY DEF Establish, KillRequest, Interact
  <2>3. Establish(p, W) => e[1] \in habs'
    BY DEF Establish
  <2> QED BY <2>1, <2>2, <2>3, <1>2, <1>5 DEF HabInv
<1> QED BY <1>7, <1>8, <1>9, <1>10, <1>11, <1>12

\* The Delegator doer moves a request into the first escrow; the receiptor only adds receipts.
LEMMA RequestInv ==
  ASSUME IInv, NEW e \in Events, Request(e)
  PROVE  IInv'
<1> USE DEF IInv, tee, tor, Request
<1>1. Delegated' = Delegated /\ Accepted' = Accepted
  BY SameAccepted
<1>2. TypeOK'
  BY DEF TypeOK
<1>3. MadeInv'
  BY <1>1 DEF MadeInv, Sealed
<1>4. OnceEscrowed' /\ NothingLost'
  BY DEF OnceEscrowed, NothingLost
<1>5. ApprovalSealsItsEvent' /\ SealedInv'
  BY <1>1 DEF ApprovalSealsItsEvent, SealedInv, Sealed
<1>6. HabInv'
  BY DEF HabInv
<1> QED BY <1>2, <1>3, <1>4, <1>5, <1>6

\* The receiptor adds receipts and a cue, and leaves every stage alone.
LEMMA ReceiptInv ==
  ASSUME IInv, NEW e \in Events, NEW W \in SUBSET Wits, Receipt(e, W)
  PROVE  IInv'
<1> USE DEF IInv, tor, escrow, Receipt
<1>1. Delegated' = Delegated /\ Accepted' = Accepted
  BY SameAccepted
<1>2. TypeOK'
  BY DEF TypeOK
<1>3. MadeInv'
  BY <1>1 DEF MadeInv, Sealed
<1>4. OnceEscrowed' /\ NothingLost'
  BY DEF OnceEscrowed, NothingLost
<1>5. ApprovalSealsItsEvent' /\ SealedInv'
  BY <1>1 DEF ApprovalSealsItsEvent, SealedInv, Sealed
<1>6. HabInv'
  BY DEF HabInv
<1> QED BY <1>2, <1>3, <1>4, <1>5, <1>6

\* Recording the authorizers of approved events keeps their type.
LEMMA ApproveTyped ==
  ASSUME TypeOK, NEW S, S \subseteq Events, NEW T, T \subseteq Approved(S), Approve(T)
  PROVE  /\ aes' \in [Events -> 0..MaxApprovals]
         /\ cdel' = cdel \cup T
<1>1. PICK a \in Authorizations(T) : aes' = WithAuthorizer(a)
  BY DEF Approve
<1>2. \A p \in DOMAIN a : a[p] \in T
  BY <1>1 DEF Authorizations
<1>3. \A d \in T : Anchor(d) \in 0..MaxApprovals
  BY ApprovedFacts
<1>4. aes \in [Events -> 0..MaxApprovals]
  BY DEF TypeOK
<1>5. aes' \in [Events -> 0..MaxApprovals]
  BY <1>1, <1>2, <1>3, <1>4 DEF WithAuthorizer
<1> QED BY <1>5 DEF Approve

\* One or several passes over the escrows, whole or cut short by a kill: what such a step may do.
LEMMA EscrowInv ==
  ASSUME IInv, NEW done, done \subseteq Approved(dune \cup Moving),
         UNCHANGED <<kel, overlapped, habs, wigs, ops, known, torKel, torOps, received, torAes, torSn, refusals>>,
         aes' \in [Events -> 0..MaxApprovals],
         dpwe' \subseteq dpwe, dune' \subseteq dune \cup (dpwe \ dpwe'), cdel' = cdel \cup done,
         done \cap dpwe' = {},
         crashes' \in 0..MaxCrashes,
         outbox' \subseteq outbox \cup Moving,
         \/ UNCHANGED <<anchors, msgs, cues>> /\ crashes' = crashes
            /\ dune' = (dune \cup (dpwe \ dpwe')) \ done
         \/ anchors' = {} /\ msgs' = {} /\ cues' = {} /\ crashes' = crashes + 1
  PROVE  IInv'
<1> USE DEF IInv
<1>1. Delegated' = Delegated /\ Accepted' = Accepted
  BY SameAccepted
<1>2. Moving \subseteq dpwe /\ dune \cup Moving \subseteq Events
  BY DEF Moving, TypeOK
<1>3. done \subseteq (dune \cup Moving) \cap Sealed
  BY <1>2, ApprovedFacts
<1>4. TypeOK'
  BY <1>2, <1>3 DEF TypeOK
<1>5. MadeInv'
  BY <1>1, <1>2, <1>3 DEF MadeInv, Sealed
<1>6. OnceEscrowed'
  <2>1. CASE UNCHANGED <<anchors, msgs, cues>> /\ crashes' = crashes
             /\ dune' = (dune \cup (dpwe \ dpwe')) \ done
    BY <2>1, <1>2, <1>3 DEF OnceEscrowed
  <2>2. CASE anchors' = {} /\ crashes' = crashes + 1
    <3>1. crashes' # 0
      BY <2>2, BoundAssumption DEF TypeOK
    <3> QED BY <3>1, <2>2, <1>2, <1>3 DEF OnceEscrowed
  <2> QED BY <2>1, <2>2
<1>7. NothingLost'
  <2>1. CASE UNCHANGED <<anchors, msgs, cues>> /\ crashes' = crashes
             /\ dune' = (dune \cup (dpwe \ dpwe')) \ done
    BY <2>1, <1>2, <1>3 DEF NothingLost
  <2>2. CASE crashes' = crashes + 1
    <3>1. crashes' # 0
      BY <2>2, BoundAssumption DEF TypeOK
    <3> QED BY <3>1 DEF NothingLost
  <2> QED BY <2>1, <2>2
<1>8. ApprovalSealsItsEvent' /\ SealedInv'
  BY <1>1, <1>3 DEF ApprovalSealsItsEvent, SealedInv, Sealed
<1>9. HabInv'
  BY DEF HabInv
<1> QED BY <1>4, <1>5, <1>6, <1>7, <1>8, <1>9

\* A whole pass over both escrows moves events to the next stage and loses none.
LEMMA ProcessInv ==
  ASSUME IInv, Process
  PROVE  IInv'
<1> DEFINE done == Approved(dune \cup Moving)
<1>1. dune \cup Moving \subseteq Events /\ Moving \subseteq dpwe
  BY DEF IInv, TypeOK, Moving
<1>2. Approve(done)
  BY DEF Process
<1>3. aes' \in [Events -> 0..MaxApprovals] /\ cdel' = cdel \cup done
  BY <1>1, <1>2, ApproveTyped DEF IInv
<1>4. done \subseteq dune \cup Moving
  BY DEF Approved
<1>5. done \cap dpwe' = {}
  BY <1>4 DEF Process, IInv, OnceEscrowed
<1>6. dpwe \ dpwe' = Moving
  BY <1>1 DEF Process
<1>7. crashes \in 0..MaxCrashes
  BY DEF IInv, TypeOK
<1> HIDE DEF done
<1>8. /\ UNCHANGED <<kel, overlapped, habs, wigs, ops, known, torKel, torOps, received, torAes, torSn, refusals>>
      /\ dpwe' \subseteq dpwe /\ dune' = (dune \cup Moving) \ done
      /\ UNCHANGED <<anchors, msgs, cues, crashes>>
      /\ outbox' \subseteq outbox \cup Moving
  BY DEF Process, tor, done
<1>9. done \subseteq Approved(dune \cup Moving)
  BY DEF done
<1> QED BY <1>3, <1>5, <1>6, <1>7, <1>8, <1>9, EscrowInv

\* The kills, between two handlers or within a pass, and the failure of a doer.
LEMMA EndsInv ==
  ASSUME IInv, Ends
  PROVE  IInv'
<1>1. /\ Moving \subseteq dpwe /\ dune \cup Moving \subseteq Events
      /\ aes \in [Events -> 0..MaxApprovals] /\ crashes \in 0..MaxCrashes
  BY DEF IInv, TypeOK, Moving
<1>2. CASE Kill
  <2>1. {} \subseteq Approved(dune \cup Moving)
    OBVIOUS
  <2>2. /\ UNCHANGED <<kel, overlapped, habs, wigs, ops, known, torKel, torOps, received, torAes, torSn,
                       refusals, aes, dpwe, dune, cdel>>
        /\ anchors' = {} /\ msgs' = {} /\ cues' = {} /\ outbox' = {}
        /\ crashes' = crashes + 1 /\ crashes < MaxCrashes
    BY <1>2 DEF Kill, Stop, Forget, tee, escrow, tor
  <2>3. crashes' \in 0..MaxCrashes
    BY <1>1, <2>2, BoundAssumption
  <2> QED BY <1>1, <2>1, <2>2, <2>3, EscrowInv
<1>3. CASE Raise
  <2>1. refusals # 0
    BY <1>3 DEF Raise, IInv, HabInv
  <2>2. PICK S \in SUBSET {e \in Moving : e[1] \in habs} : dpwe' = dpwe \ S /\ dune' = dune \cup S
    BY <1>3 DEF Raise
  <2>3. /\ UNCHANGED <<kel, overlapped, habs, wigs, ops, known, torKel, torOps, received, torAes, torSn,
                       refusals, aes, cdel, crashes>>
        /\ anchors' = {} /\ msgs' = {} /\ cues' = {} /\ outbox' = {}
    BY <1>3 DEF Raise, Forget, tee, tor
  <2>4. Delegated' = Delegated /\ Accepted' = Accepted
    BY <2>3, SameAccepted
  <2>5. S \subseteq dpwe
    BY <1>1, <2>2
  <2>6. TypeOK'
    BY <2>2, <2>3, <2>5 DEF IInv, TypeOK
  <2>7. MadeInv' /\ OnceEscrowed'
    BY <2>2, <2>3, <2>4, <2>5 DEF IInv, MadeInv, OnceEscrowed, Sealed
  <2>8. MadeInv' /\ OnceEscrowed' /\ NothingLost' /\ HabInv'
    BY <2>1, <2>3, <2>7 DEF NothingLost, HabInv
  <2>9. ApprovalSealsItsEvent' /\ SealedInv'
    BY <2>3, <2>4 DEF IInv, ApprovalSealsItsEvent, SealedInv, Sealed
  <2> QED BY <2>6, <2>8, <2>9 DEF IInv
<1>4. CASE \E p \in Delegatees, W \in SUBSET Wits : KillRequest(p, W)
  BY <1>4, RequestsInv
<1>5. ASSUME NEW e \in Events, NEW S \in SUBSET Events, KillPartialWitness(S, e)
      PROVE  IInv'
  <2>2. /\ UNCHANGED <<kel, overlapped, habs, wigs, ops, known, torKel, torOps, received, torAes, torSn,
                       refusals, aes, cdel>>
        /\ dpwe' = dpwe \ (S \cup {e}) /\ dune' = dune \cup S /\ S \subseteq dpwe
        /\ anchors' = {} /\ msgs' = {} /\ cues' = {} /\ outbox' = {}
        /\ crashes' = crashes + 1 /\ crashes < MaxCrashes
    BY <1>1, <1>5 DEF KillPartialWitness, Stop, Forget, tee, tor
  <2>3. crashes' \in 0..MaxCrashes
    BY <1>1, <2>2, BoundAssumption
  <2> DEFINE none == {}
  <2>4. /\ dpwe' \subseteq dpwe /\ dune' \subseteq dune \cup (dpwe \ dpwe')
        /\ cdel' = cdel \cup none /\ none \cap dpwe' = {} /\ none \subseteq Approved(dune \cup Moving)
        /\ outbox' \subseteq outbox \cup Moving /\ aes' \in [Events -> 0..MaxApprovals]
    BY <1>1, <2>2
  <2> HIDE DEF none
  <2> QED BY <2>2, <2>3, <2>4, EscrowInv
<1>6. ASSUME NEW e \in Events, NEW S \in SUBSET Events, KillUnanchored(S, e)
      PROVE  IInv'
  <2> DEFINE done == S \cup {e}
  <2>1. done \subseteq Approved(dune \cup Moving) /\ Approve(done)
    BY <1>6 DEF KillUnanchored
  <2>2. aes' \in [Events -> 0..MaxApprovals] /\ cdel' = cdel \cup done
    BY <1>1, <2>1, ApproveTyped DEF IInv
  <2>3. done \subseteq dune \cup Moving
    BY <2>1 DEF Approved
  <2> HIDE DEF done
  <2>4. /\ UNCHANGED <<kel, overlapped, habs, wigs, ops, known, torKel, torOps, received, torAes, torSn,
                       refusals>>
        /\ dpwe' = dpwe \ Moving /\ dune' = (dune \cup Moving) \ S
        /\ anchors' = {} /\ msgs' = {} /\ cues' = {} /\ outbox' = {}
        /\ crashes' = crashes + 1 /\ crashes < MaxCrashes
    BY <1>6 DEF KillUnanchored, Stop, Forget, tor
  <2>5. crashes' \in 0..MaxCrashes
    BY <1>1, <2>4, BoundAssumption
  <2>6. dpwe' \subseteq dpwe /\ dune' \subseteq dune \cup (dpwe \ dpwe')
    BY <1>1, <2>4
  <2>7. done \cap dpwe' = {}
    BY <1>1, <2>3, <2>4 DEF IInv, OnceEscrowed
  <2> QED BY <2>1, <2>2, <2>4, <2>5, <2>6, <2>7, EscrowInv
<1> QED BY <1>2, <1>3, <1>4, <1>5, <1>6 DEF Ends

\* A new seal of the delegator, with or without what approveDelegation records.
LEMMA SealsInv ==
  ASSUME IInv, NEW e \in Events, Seal(e) \/ SealKilled(e)
  PROVE  IInv'
<1> USE DEF IInv, memory, tee, escrow
<1>1. Len(torKel) < MaxApprovals /\ torKel' = Append(torKel, e) /\ e \in Delegated
  <2>1. Len(torKel) \in Nat
    BY LenProperties DEF TypeOK
  <2> QED BY <2>1, BoundAssumption DEF Seal, SealKilled
<1> DEFINE k == Len(torKel) + 1
<1>2. /\ torKel' \in Seq(Events) /\ Len(torKel') = k /\ Len(torKel) \in Nat
      /\ DOMAIN torKel' = DOMAIN torKel \cup {k}
      /\ \A j \in DOMAIN torKel : torKel'[j] = torKel[j]
      /\ torKel'[k] = e
      /\ Sealed' = Sealed \cup {e}
  BY <1>1, SealFacts
<1> HIDE DEF k
<1>3. torAes' = [torAes EXCEPT ![e] = k] \/ torAes' = torAes
  BY DEF Seal, SealKilled, WithApproval, k
<1>4. torOps' = torOps \/ torOps' = torOps \cup {k}
  BY DEF Seal, SealKilled, k
<1>5. k \in 1..MaxApprovals
  BY <1>1, <1>2, BoundAssumption DEF k
<1>6. UNCHANGED <<kel, overlapped, habs, wigs, aes, ops, anchors, msgs, cues, outbox, dpwe, dune, cdel, known,
                  received, torSn, refusals>>
  BY DEF Seal, SealKilled
<1>7. crashes' \in 0..MaxCrashes /\ (crashes' = 0 => crashes = 0)
  BY BoundAssumption DEF Seal, SealKilled, TypeOK
<1>8. Delegated' = Delegated /\ Accepted' = Accepted
  BY <1>6, SameAccepted
<1>9. TypeOK'
  <2>1. torAes' \in [Events -> 0..MaxApprovals]
    <3>1. torAes \in [Events -> 0..MaxApprovals] /\ k \in 0..MaxApprovals
      BY <1>5 DEF TypeOK
    <3>2. [torAes EXCEPT ![e] = k] \in [Events -> 0..MaxApprovals]
      BY <3>1, Updated
    <3> QED BY <1>3, <3>1, <3>2
  <2>2. torOps' \subseteq DOMAIN torKel'
    BY <1>2, <1>4 DEF TypeOK
  <2>3. Len(torKel') <= MaxApprovals /\ known' \in 0..Len(torKel')
    <3>1. known \in 0..Len(torKel)
      BY DEF TypeOK
    <3> QED BY <3>1, <1>2, <1>5, <1>6, BoundAssumption DEF k
  <2> QED BY <2>1, <2>2, <2>3, <1>2, <1>6, <1>7 DEF TypeOK
<1>10. MadeInv' /\ OnceEscrowed' /\ NothingLost' /\ HabInv'
  BY <1>1, <1>2, <1>6, <1>7, <1>8 DEF MadeInv, OnceEscrowed, NothingLost, HabInv
<1>11. ApprovalSealsItsEvent'
  <2> SUFFICES ASSUME NEW d \in Events, torAes'[d] # 0
               PROVE  torAes'[d] \in DOMAIN torKel' /\ torKel'[torAes'[d]] = d
    BY DEF ApprovalSealsItsEvent
  <2>1. CASE torAes'[d] = torAes[d]
    BY <2>1, <1>2 DEF ApprovalSealsItsEvent
  <2>2. CASE torAes'[d] # torAes[d]
    <3>1. d = e /\ torAes'[d] = k
      BY <2>2, <1>3 DEF TypeOK
    <3> QED BY <3>1, <1>2
  <2> QED BY <2>1, <2>2
<1>12. SealedInv'
  BY <1>2, <1>6, <1>8 DEF SealedInv
<1> QED BY <1>9, <1>10, <1>11, <1>12

\* Deliveries, what the delegatee learns, polls, and what the delegator's agent accepts.
LEMMA DelegatorInv ==
  ASSUME IInv, DelegatorAgent
  PROVE  IInv'
<1> USE DEF IInv, memory, tee, escrow
<1>1. ASSUME NEW e \in Events, Seal(e) \/ SealKilled(e)
      PROVE  IInv'
  BY <1>1, SealsInv
<1>2. ASSUME NEW e \in Events, Deliver(e)
      PROVE  IInv'
  <2> USE <1>2 DEF Deliver
  <2>1. Delegated' = Delegated /\ Accepted' = Accepted
    BY SameAccepted
  <2>2. TypeOK'
    BY DEF TypeOK
  <2>3. MadeInv' /\ OnceEscrowed' /\ NothingLost' /\ HabInv'
    BY <2>1 DEF MadeInv, OnceEscrowed, NothingLost, HabInv, Sealed
  <2>4. ApprovalSealsItsEvent' /\ SealedInv'
    BY <2>1 DEF ApprovalSealsItsEvent, SealedInv, Sealed
  <2> QED BY <2>2, <2>3, <2>4
<1>3. ASSUME Learn
      PROVE  IInv'
  <2> USE <1>3 DEF Learn, tor
  <2>1. Delegated' = Delegated /\ Accepted' = Accepted
    BY SameAccepted
  <2>2. Len(torKel) \in Nat
    BY LenProperties DEF TypeOK
  <2>3. TypeOK'
    BY <2>2 DEF TypeOK
  <2>4. MadeInv' /\ OnceEscrowed' /\ NothingLost' /\ HabInv'
    BY <2>1 DEF MadeInv, OnceEscrowed, NothingLost, HabInv, Sealed
  <2>5. ApprovalSealsItsEvent' /\ SealedInv'
    BY <2>1 DEF ApprovalSealsItsEvent, SealedInv, Sealed
  <2> QED BY <2>3, <2>4, <2>5
<1>4. ASSUME NEW k \in Approvals, Poll(k)
      PROVE  IInv'
  <2> USE <1>4 DEF Poll
  <2>1. Delegated' = Delegated /\ Accepted' = Accepted
    BY SameAccepted
  <2>2. k \in DOMAIN torKel /\ torKel[k] \in Events /\ k \in 1..MaxApprovals
    BY ElementOfSeq, LenProperties DEF TypeOK, Approvals
  <2>3. torAes' = [torAes EXCEPT ![torKel[k]] = k] \/ torAes' = torAes
    BY DEF WithApproval
  <2>4. TypeOK'
    <3>1. torAes \in [Events -> 0..MaxApprovals] /\ k \in 0..MaxApprovals
      BY <2>2 DEF TypeOK
    <3>2. [torAes EXCEPT ![torKel[k]] = k] \in [Events -> 0..MaxApprovals]
      BY <3>1, Updated
    <3>3. torAes' \in [Events -> 0..MaxApprovals]
      BY <2>3, <3>1, <3>2
    <3> QED BY <3>3 DEF TypeOK
  <2>5. MadeInv' /\ OnceEscrowed' /\ NothingLost' /\ HabInv' /\ SealedInv'
    BY <2>1 DEF MadeInv, OnceEscrowed, NothingLost, HabInv, Sealed, SealedInv
  <2>6. ApprovalSealsItsEvent'
    <3> SUFFICES ASSUME NEW d \in Events, torAes'[d] # 0
                 PROVE  torAes'[d] \in DOMAIN torKel' /\ torKel'[torAes'[d]] = d
      BY DEF ApprovalSealsItsEvent
    <3>1. CASE torAes'[d] = torAes[d]
      BY <3>1 DEF ApprovalSealsItsEvent
    <3>2. CASE torAes'[d] # torAes[d]
      <4>1. d = torKel[k] /\ torAes'[d] = k
        BY <3>2, <2>2, <2>3 DEF TypeOK
      <4> QED BY <4>1, <2>2
    <3> QED BY <3>1, <3>2
  <2> QED BY <2>4, <2>5, <2>6
<1>5. ASSUME NEW e \in Events, Accept(e)
      PROVE  IInv'
  <2> USE <1>5 DEF Accept
  <2>1. Delegated' = Delegated
    BY SameDelegated
  <2>2. PICK p \in Delegatees, n \in 1..MaxEvents : e = <<p, n>>
    BY DEF Events
  <2>3. e \in received /\ n = torSn[p] + 1 /\ torSn[p] \in Nat
    BY <2>2, BoundAssumption DEF Delegables, TypeOK
  <2>4. e \in Delegated /\ n <= Len(kel[p])
    BY <2>2, <2>3 DEF MadeInv, Delegated, Est, Made
  <2>5. e \in Sealed
    BY DEF ApprovalSealsItsEvent, Sealed
  <2>6. torSn' = [torSn EXCEPT ![p] = n]
    BY <2>2
  <2>7. Accepted' \subseteq Accepted \cup {e}
    <3> SUFFICES ASSUME NEW d \in Delegated, d[2] <= torSn'[d[1]]
                 PROVE  d \in Accepted \cup {e}
      BY <2>1 DEF Accepted
    <3>1. PICK q \in Delegatees, m \in 1..MaxEvents : d = <<q, m>>
      BY DEF Delegated, Events
    <3>2. CASE q # p
      BY <3>1, <3>2, <2>6 DEF Accepted, TypeOK
    <3>3. CASE q = p
      <4>1. m <= n
        BY <3>1, <3>3, <2>6 DEF TypeOK
      <4>2. m = n \/ m <= torSn[p]
        BY <4>1, <2>3, BoundAssumption
      <4> QED BY <4>2, <3>1, <3>3, <2>2 DEF Accepted
    <3> QED BY <3>2, <3>3
  <2>8. TypeOK'
    <3>1. torSn \in [Delegatees -> 0..MaxEvents] /\ n \in 0..MaxEvents
      BY BoundAssumption DEF TypeOK
    <3>2. torSn' \in [Delegatees -> 0..MaxEvents]
      BY <2>6, <3>1, Updated
    <3> QED BY <3>2 DEF TypeOK
  <2>9. MadeInv' /\ OnceEscrowed' /\ NothingLost' /\ HabInv' /\ ApprovalSealsItsEvent'
    BY <2>1 DEF MadeInv, OnceEscrowed, NothingLost, HabInv, Sealed, ApprovalSealsItsEvent
  <2>10. SealedInv'
    <3>1. \A q \in Delegatees : torSn'[q] <= Len(kel'[q])
      BY <2>4, <2>6 DEF SealedInv, TypeOK
    <3> QED BY <3>1, <2>5, <2>7 DEF SealedInv, Sealed
  <2> QED BY <2>8, <2>9, <2>10
<1>6. ASSUME NEW p \in Delegatees, CatchUp(p)
      PROVE  IInv'
  <2> USE <1>6 DEF CatchUp
  <2>1. Delegated' = Delegated
    BY SameDelegated
  <2> DEFINE n == torSn[p] + 1
  <2>2. torSn[p] \in 0..MaxEvents /\ Len(kel[p]) \in Nat /\ Len(kel[p]) <= MaxEvents
    BY LenProperties DEF TypeOK
  <2>3. torSn' = [torSn EXCEPT ![p] = n] /\ n <= Len(kel[p]) /\ n \in 0..MaxEvents
    BY <2>2, BoundAssumption
  <2>4. <<p, n>> \notin Delegated
    BY DEF Delegated, Est
  <2>5. Accepted' = Accepted
    <3> SUFFICES ASSUME NEW d \in Delegated
                 PROVE  d[2] <= torSn'[d[1]] <=> d[2] <= torSn[d[1]]
      BY <2>1 DEF Accepted
    <3>1. PICK q \in Delegatees, m \in 1..MaxEvents : d = <<q, m>>
      BY DEF Delegated, Events
    <3>2. CASE q # p
      BY <3>1, <3>2, <2>3 DEF TypeOK
    <3>3. CASE q = p
      <4>1. torSn'[p] = n /\ m # n
        BY <3>1, <3>3, <2>3, <2>4 DEF TypeOK
      <4> QED BY <4>1, <3>1, <3>3, <2>2
    <3> QED BY <3>2, <3>3
  <2>6. TypeOK'
    BY <2>3 DEF TypeOK
  <2>7. MadeInv' /\ OnceEscrowed' /\ NothingLost' /\ HabInv' /\ ApprovalSealsItsEvent'
    BY <2>1 DEF MadeInv, OnceEscrowed, NothingLost, HabInv, Sealed, ApprovalSealsItsEvent
  <2>8. SealedInv'
    <3>1. \A q \in Delegatees : torSn'[q] <= Len(kel'[q])
      BY <2>3 DEF SealedInv, TypeOK
    <3> QED BY <3>1, <2>5 DEF SealedInv, Sealed
  <2> QED BY <2>6, <2>7, <2>8
<1> QED BY <1>1, <1>2, <1>3, <1>4, <1>5, <1>6 DEF DelegatorAgent


-----------------------------------------------------------------------------

\* Before any request there is nothing in any stage.
LEMMA InitInv == Init => IInv
<1> SUFFICES ASSUME Init PROVE IInv
  OBVIOUS
<1> USE DEF Init
<1>1. \A p \in Delegatees : kel[p] = <<>> /\ Len(kel[p]) = 0
  BY EmptySeq
<1>2. Delegated = {}
  BY <1>1 DEF Delegated, Est, Made, Events
<1>3. Len(torKel) = 0 /\ torKel \in Seq(Events) /\ \A p \in Delegatees : kel[p] \in Seq(KeyEvent)
  BY EmptySeq
<1>4. Sealed = {} /\ Accepted = {}
  BY <1>2 DEF Sealed, Accepted
<1>5. TypeOK
  <2>1. \A p \in Delegatees : Len(kel[p]) <= MaxEvents
    BY <1>1, BoundAssumption
  <2>2. Len(torKel) <= MaxApprovals /\ known \in 0..Len(torKel)
    BY <1>3, BoundAssumption
  <2>3. crashes \in 0..MaxCrashes /\ refusals \in 0..MaxRefusals
        /\ aes \in [Events -> 0..MaxApprovals] /\ torAes \in [Events -> 0..MaxApprovals]
        /\ torSn \in [Delegatees -> 0..MaxEvents]
    BY BoundAssumption
  <2> QED BY <1>3, <2>1, <2>2, <2>3 DEF TypeOK
<1>6. MadeInv /\ OnceEscrowed /\ NothingLost /\ HabInv /\ ApprovalSealsItsEvent
  BY <1>4 DEF MadeInv, OnceEscrowed, NothingLost, HabInv, ApprovalSealsItsEvent
<1>7. SealedInv
  BY <1>1, <1>4 DEF SealedInv
<1> QED BY <1>5, <1>6, <1>7 DEF IInv

\* A step that changes nothing keeps the invariant.
LEMMA StutterInv ==
  ASSUME IInv, UNCHANGED vars
  PROVE  IInv'
<1>1. Delegated' = Delegated /\ Accepted' = Accepted
  BY SameAccepted DEF vars, tee, tor
<1> USE DEF IInv, vars, tee, tor, memory, escrow
<1>2. TypeOK'
  BY DEF TypeOK
<1>3. MadeInv' /\ OnceEscrowed' /\ NothingLost' /\ HabInv'
  BY <1>1 DEF MadeInv, OnceEscrowed, NothingLost, HabInv, Sealed
<1>4. ApprovalSealsItsEvent' /\ SealedInv'
  BY <1>1 DEF ApprovalSealsItsEvent, SealedInv, Sealed
<1> QED BY <1>2, <1>3, <1>4

\* Every reachable state satisfies the inductive invariant.
THEOREM Invariance == Spec => []IInv
<1>1. ASSUME IInv, [Next]_vars
      PROVE  IInv'
  <2>1. CASE TeeRequests
    BY <1>1, <2>1, RequestsInv DEF TeeRequests
  <2>2. CASE Anchorer
    BY <1>1, <2>2, RequestInv, ReceiptInv, ProcessInv DEF Anchorer
  <2>3. CASE Ends
    BY <1>1, <2>3, EndsInv
  <2>4. CASE DelegatorAgent
    BY <1>1, <2>4, DelegatorInv
  <2>5. CASE UNCHANGED vars
    BY <1>1, <2>5, StutterInv
  <2> QED BY <1>1, <2>1, <2>2, <2>3, <2>4, <2>5 DEF Next
<1> QED BY <1>1, InitInv, PTL DEF Spec

\* Every variable of Delegation keeps its type.
THEOREM TypeCorrect == Spec => []TypeOK
<1>1. IInv => TypeOK
  BY DEF IInv
<1> QED BY <1>1, Invariance, PTL

\* An event is never in two stages of its delegation (processPartialWitnessEscrow,
\* processUnanchoredEscrow), whatever is killed.
THEOREM StagesExclusive == Spec => []OnceEscrowed
<1>1. IInv => OnceEscrowed
  BY DEF IInv
<1> QED BY <1>1, Invariance, PTL

\* Without kills and refused rotations no requested event leaves the protocol.
THEOREM NoLoss == Spec => []NothingLost
<1>1. IInv => NothingLost
  BY DEF IInv
<1> QED BY <1>1, Invariance, PTL

\* approveDelegation only ever records an authorizing event that seals the event it authorizes.
THEOREM ApprovalsSound == Spec => []ApprovalSealsItsEvent
<1>1. IInv => ApprovalSealsItsEvent
  BY DEF IInv
<1> QED BY <1>1, Invariance, PTL

-----------------------------------------------------------------------------

\* As long as no client overlapped, an event that awaits approval is its delegatee's latest.
WaitingInv == ~ overlapped => \A e \in Delegated \ cdel : e[2] = Len(kel[e[1]])

\* Receipts are for events that are made and, until their approval, from their witnesses.
ReceiptsInv ==
  /\ msgs \subseteq Delegated
  /\ \A e \in Events \ Delegated : wigs[e] = {}
  /\ ~ overlapped => \A e \in Delegated \ cdel : wigs[e] \subseteq kel[e[1]][e[2]].wits

\* What left the first escrow is receipted.
SentInv ==
  ~ overlapped => \A e \in dune \cup outbox \cup received : kel[e[1]][e[2]].wits \subseteq wigs[e]

\* The recorded authorizers are events of the delegator that seal what they authorize.
AuthorizerInv ==
  ~ overlapped /\ crashes = 0 =>
    \A e \in Events : aes[e] # 0 => aes[e] \in DOMAIN torKel /\ torKel[aes[e]] = e

CarefulInv == WaitingInv /\ ReceiptsInv /\ SentInv /\ AuthorizerInv

\* What a growing KEL leaves as it was; without an overlap, all that was made is approved by then.
LEMMA GrowPast ==
  ASSUME TypeOK, WaitingInv, NEW p \in Delegatees, NEW ev \in KeyEvent, Grow(p, ev), cdel' = cdel
  PROVE  /\ \A d \in Delegated : kel'[d[1]][d[2]] = kel[d[1]][d[2]]
         /\ ~ overlapped' => ~ overlapped
         /\ WaitingInv'
<1> DEFINE e == <<p, Len(kel[p]) + 1>>
<1>1. kel \in [Delegatees -> Seq(KeyEvent)] /\ \A q \in Delegatees : Len(kel[q]) \in Nat
  BY LenProperties DEF TypeOK
<1>2. /\ kel'[p] = Append(kel[p], ev)
      /\ \A q \in Delegatees \ {p} : kel'[q] = kel[q]
  BY <1>1 DEF Grow
<1>3. Len(kel'[p]) = Len(kel[p]) + 1 /\ \A n \in 1..Len(kel[p]) : kel'[p][n] = kel[p][n]
  BY <1>1, <1>2, AppendProperties
<1>4. ASSUME NEW d \in Delegated
      PROVE  d[1] \in Delegatees /\ d[2] \in 1..Len(kel[d[1]])
  BY <1>1, BoundAssumption DEF Delegated, Est, Made, Events
<1>5. \A d \in Delegated : kel'[d[1]][d[2]] = kel[d[1]][d[2]]
  BY <1>2, <1>3, <1>4
<1>6. Delegated' \subseteq Delegated \cup {e}
  BY GrowFacts
<1>7. ~ overlapped' => ~ overlapped /\ Settled(p)
  BY DEF Grow
<1>8. WaitingInv'
  <2> SUFFICES ASSUME ~ overlapped', NEW d \in Delegated', d \notin cdel
               PROVE  d[2] = Len(kel'[d[1]])
    BY DEF WaitingInv
  <2>1. CASE d = e
    BY <2>1, <1>3
  <2>2. CASE d # e
    <3>1. d \in Delegated /\ d[2] = Len(kel[d[1]])
      BY <2>2, <1>6, <1>7 DEF WaitingInv
    <3>2. d[1] # p
      <4>1. ASSUME d[1] = p PROVE FALSE
        <5>1. d = <<p, d[2]>> /\ Est(d) /\ d[2] \in DOMAIN kel[p]
          BY <4>1, <3>1, <1>1, <1>4, LenProperties DEF Delegated, Events
        <5> QED BY <5>1, <1>7 DEF Settled
      <4> QED BY <4>1
    <3> QED BY <3>1, <3>2, <1>2, <1>4
  <2> QED BY <2>1, <2>2
<1> QED BY <1>5, <1>7, <1>8

\* The clients' requests bring forth events without receipts, and change nothing that was made.
LEMMA RequestsCareful ==
  ASSUME IInv, IInv', CarefulInv, NEW p \in Delegatees, NEW W \in SUBSET Wits,
         Establish(p, W) \/ EstablishRefused(p, W) \/ KillRequest(p, W) \/ Interact(p)
  PROVE  CarefulInv'
<1> USE DEF IInv, CarefulInv
<1>1. PICK ev \in KeyEvent : Grow(p, ev)
  <2>1. WitsNow(p) \in SUBSET Wits
    BY WitsTyped
  <2>2. [est |-> TRUE, wits |-> W] \in KeyEvent /\ [est |-> FALSE, wits |-> WitsNow(p)] \in KeyEvent
    BY <2>1 DEF KeyEvent
  <2> QED BY <2>2 DEF Establish, EstablishRefused, KillRequest, Interact
<1>2. /\ UNCHANGED <<wigs, dune, received, cdel, aes, torKel>> \/ KillRequest(p, W)
      /\ UNCHANGED <<wigs, dune, received, cdel, aes, torKel>>
      /\ msgs' \subseteq msgs /\ outbox' \subseteq outbox
      /\ crashes' = crashes \/ crashes' = crashes + 1
  BY DEF Establish, EstablishRefused, KillRequest, Interact, Stop, Forget, escrow, tor, memory
<1>3. /\ \A d \in Delegated : kel'[d[1]][d[2]] = kel[d[1]][d[2]]
      /\ ~ overlapped' => ~ overlapped
      /\ WaitingInv'
  BY <1>1, <1>2, GrowPast
<1>4. Delegated \subseteq Delegated'
  BY <1>1, GrowFacts
<1>5. ReceiptsInv'
  <2>1. msgs' \subseteq Delegated' /\ \A e \in Events \ Delegated' : wigs'[e] = {}
    BY <1>2, <1>4 DEF ReceiptsInv
  <2>2. ASSUME ~ overlapped', NEW e \in Delegated' \ cdel'
        PROVE  wigs'[e] \subseteq kel'[e[1]][e[2]].wits
    <3>1. CASE e \in Delegated
      BY <3>1, <2>2, <1>2, <1>3 DEF ReceiptsInv
    <3>2. CASE e \notin Delegated
      <4>1. e \in Events
        BY <2>2 DEF Delegated
      <4> QED BY <4>1, <3>2, <1>2 DEF ReceiptsInv
    <3> QED BY <3>1, <3>2
  <2> QED BY <2>1, <2>2 DEF ReceiptsInv
<1>6. SentInv'
  BY <1>2, <1>3 DEF SentInv, MadeInv
<1>7. AuthorizerInv'
  <2>1. crashes' = 0 => crashes = 0
    BY <1>2, BoundAssumption DEF TypeOK
  <2> QED BY <2>1, <1>2, <1>3 DEF AuthorizerInv
<1> QED BY <1>3, <1>5, <1>6, <1>7

\* An event that may leave the first escrow has all its receipts, since there are as many as
\* witnesses and none is from anybody else.
LEMMA MovingWitnessed ==
  ASSUME IInv, CarefulInv, ~ overlapped, NEW e \in Moving
  PROVE  kel[e[1]][e[2]].wits \subseteq wigs[e]
<1>1. e \in dpwe /\ e \in Delegated /\ e \notin cdel /\ Receipted(e)
  BY DEF Moving, IInv, MadeInv, OnceEscrowed
<1>2. e[1] \in Delegatees /\ e[2] \in 1..MaxEvents /\ e[2] <= Len(kel[e[1]]) /\ e \in Events
  BY <1>1 DEF Delegated, Events, Est, Made
<1>3. e[2] = Len(kel[e[1]])
  BY <1>1 DEF CarefulInv, WaitingInv
<1>4. kel[e[1]] \in Seq(KeyEvent) /\ e[2] \in 1..Len(kel[e[1]])
  BY <1>2, <1>3 DEF IInv, TypeOK
<1>5. kel[e[1]] # <<>>
  BY <1>4, EmptySeq, BoundAssumption
<1>6. WitsNow(e[1]) = kel[e[1]][e[2]].wits
  BY <1>3, <1>5 DEF WitsNow
<1>7. kel[e[1]][e[2]].wits \in SUBSET Wits
  <2>1. kel[e[1]][e[2]] \in KeyEvent
    BY <1>4, ElementOfSeq
  <2> QED BY <2>1 DEF KeyEvent
<1>8. wigs[e] \in SUBSET (kel[e[1]][e[2]].wits)
  BY <1>1 DEF CarefulInv, ReceiptsInv
<1>9. IsFiniteSet(kel[e[1]][e[2]].wits)
  BY <1>7, WitsAssumption, FS_Subset
<1>10. Cardinality(wigs[e]) = Cardinality(kel[e[1]][e[2]].wits)
  BY <1>1, <1>6 DEF Receipted
<1>11. kel[e[1]][e[2]].wits = wigs[e]
  BY <1>8, <1>9, <1>10, FS_Subset
<1> QED BY <1>11

\* Steps that make no event and add no receipt.
LEMMA CarefulStep ==
  ASSUME IInv, CarefulInv, UNCHANGED <<kel, overlapped, wigs>>,
         msgs' \subseteq msgs \cup Delegated, cdel \subseteq cdel',
         (dune \cup outbox \cup received)' \subseteq dune \cup outbox \cup received \cup Moving,
         AuthorizerInv'
  PROVE  CarefulInv'
<1>1. Delegated' = Delegated
  BY SameDelegated
<1>2. WaitingInv' /\ ReceiptsInv'
  BY <1>1 DEF CarefulInv, WaitingInv, ReceiptsInv
<1>3. SentInv'
  BY MovingWitnessed DEF CarefulInv, SentInv
<1> QED BY <1>2, <1>3 DEF CarefulInv

\* What is recorded of authorizers stays right while the delegator's KEL grows, if at all.
LEMMA AuthorizerStays ==
  ASSUME IInv, AuthorizerInv, UNCHANGED <<aes, overlapped>>, crashes' = 0 => crashes = 0,
         torKel' = torKel \/ \E e \in Events : torKel' = Append(torKel, e)
  PROVE  AuthorizerInv'
<1>1. torKel \in Seq(Events)
  BY DEF IInv, TypeOK
<1>2. \A k \in DOMAIN torKel : k \in DOMAIN torKel' /\ torKel'[k] = torKel[k]
  BY <1>1, AppendProperties, LenProperties
<1> QED BY <1>2 DEF AuthorizerInv

\* An approved event that is the latest of its delegatee gets an authorizer that seals it.
LEMMA AuthorizerApproves ==
  ASSUME IInv, CarefulInv, Approve(Approved(dune \cup Moving)),
         UNCHANGED <<kel, overlapped, torKel, crashes>>
  PROVE  AuthorizerInv'
<1> DEFINE done == Approved(dune \cup Moving)
<1> SUFFICES ASSUME ~ overlapped, crashes = 0, NEW e \in Events, aes'[e] # 0
             PROVE  aes'[e] \in DOMAIN torKel /\ torKel[aes'[e]] = e
  BY DEF AuthorizerInv
<1>1. PICK a \in Authorizations(done) : aes' = WithAuthorizer(a)
  BY DEF Approve
<1>2. CASE aes'[e] = aes[e]
  BY <1>2 DEF CarefulInv, AuthorizerInv
<1>3. CASE aes'[e] # aes[e]
  <2>1. e[1] \in DOMAIN a /\ e = Latest(e[1]) /\ aes'[e] = Anchor(a[e[1]])
    BY <1>1, <1>3 DEF WithAuthorizer
  <2> DEFINE d == a[e[1]]
  <2>2. d \in done /\ d[1] = e[1]
    BY <1>1, <2>1 DEF Authorizations
  <2>3. d \in dune \cup Moving /\ Anchors(d) # {}
    BY <2>2 DEF Approved
  <2>4. d \in Delegated /\ d \notin cdel
    BY <2>3 DEF Moving, IInv, MadeInv, OnceEscrowed
  <2>5. d[2] = Len(kel[d[1]]) /\ d = <<d[1], d[2]>>
    BY <2>4 DEF CarefulInv, WaitingInv, Delegated, Events
  <2>6. d = e
    BY <2>1, <2>2, <2>5 DEF Latest
  <2>7. Anchors(d) \subseteq 1..known /\ known \in 0..Len(torKel) /\ DOMAIN torKel = 1..Len(torKel)
    BY LenProperties DEF Anchors, IInv, TypeOK
  <2>8. Len(torKel) \in Nat
    BY LenProperties DEF IInv, TypeOK
  <2>9. Anchors(d) \subseteq Nat
    BY <2>7, <2>8
  <2>10. \E k \in Anchors(d) : \A j \in Anchors(d) : k <= j
    BY <2>3, <2>9, Least
  <2>11. Anchor(d) \in Anchors(d)
    BY <2>10 DEF Anchor
  <2>12. torKel[Anchor(d)] = d /\ Anchor(d) \in DOMAIN torKel
    BY <2>7, <2>8, <2>11 DEF Anchors
  <2> QED BY <2>1, <2>6, <2>12
<1> QED BY <1>2, <1>3

\* The receiptor only adds receipts of the event's own witnesses, while no client overlaps.
LEMMA ReceiptCareful ==
  ASSUME IInv, CarefulInv, NEW e \in Events, NEW W \in SUBSET Wits, Receipt(e, W)
  PROVE  CarefulInv'
<1> USE DEF Receipt, escrow, tor
<1>1. Delegated' = Delegated /\ e \in Delegated
  BY SameDelegated DEF CarefulInv, ReceiptsInv
<1>2. /\ wigs \in [Events -> SUBSET Wits]
      /\ wigs'[e] = wigs[e] \cup (W \cap WitsNow(e[1]))
      /\ \A d \in Events \ {e} : wigs'[d] = wigs[d]
  BY DEF IInv, TypeOK
<1>3. \A d \in Events : wigs[d] \subseteq wigs'[d]
  BY <1>2
<1>4. WaitingInv'
  BY <1>1 DEF CarefulInv, WaitingInv
<1>5. ReceiptsInv'
  <2>1. msgs' \subseteq Delegated' /\ \A d \in Events \ Delegated' : wigs'[d] = {}
    BY <1>1, <1>2 DEF CarefulInv, ReceiptsInv
  <2>2. ASSUME ~ overlapped', NEW d \in Delegated' \ cdel'
        PROVE  wigs'[d] \subseteq kel'[d[1]][d[2]].wits
    <3>1. d \in Delegated \ cdel /\ d \in Events /\ ~ overlapped
      BY <2>2, <1>1 DEF Delegated
    <3>2. wigs[d] \subseteq kel[d[1]][d[2]].wits
      BY <3>1 DEF CarefulInv, ReceiptsInv
    <3>3. CASE d = e
      <4>1. d[2] = Len(kel[d[1]])
        BY <3>1 DEF CarefulInv, WaitingInv
      <4>2. W \cap WitsNow(e[1]) \subseteq kel[d[1]][d[2]].wits
        BY <3>3, <4>1 DEF WitsNow
      <4> QED BY <3>2, <3>3, <4>2, <1>2
    <3>4. CASE d # e
      BY <3>1, <3>2, <3>4, <1>2
    <3> QED BY <3>3, <3>4
  <2> QED BY <2>1, <2>2 DEF ReceiptsInv
<1>6. SentInv'
  <2>1. dune \cup outbox \cup received \subseteq Events
    BY DEF IInv, TypeOK
  <2> QED BY <2>1, <1>3 DEF CarefulInv, SentInv
<1>7. AuthorizerInv'
  BY DEF CarefulInv, AuthorizerInv
<1> QED BY <1>4, <1>5, <1>6, <1>7 DEF CarefulInv

\* The Anchorer's passes over its escrows, whole.
LEMMA ProcessCareful ==
  ASSUME IInv, CarefulInv, Process
  PROVE  CarefulInv'
<1> DEFINE done == Approved(dune \cup Moving)
<1>1. /\ Approve(done) /\ cdel' = cdel \cup done
      /\ dune' = (dune \cup Moving) \ done /\ outbox' = outbox \cup Moving
      /\ UNCHANGED <<kel, overlapped, wigs, msgs, received, torKel, crashes>>
  BY DEF Process, Approve, tor
<1>2. AuthorizerInv'
  BY <1>1, AuthorizerApproves
<1> HIDE DEF done
<1>3. (dune \cup outbox \cup received)' \subseteq dune \cup outbox \cup received \cup Moving
  BY <1>1
<1> QED BY <1>1, <1>2, <1>3, CarefulStep

\* The end of the process: a pass cut short moved some events that may be moved.
LEMMA EndsCareful ==
  ASSUME IInv, IInv', CarefulInv, Ends
  PROVE  CarefulInv'
<1> USE DEF Stop, Forget, tee, escrow, tor
<1>1. crashes \in Nat
  BY BoundAssumption DEF IInv, TypeOK
<1>2. CASE Kill \/ Raise
  <2>1. UNCHANGED <<kel, overlapped, wigs, aes, cdel, received, torKel>> /\ dune' \subseteq dune \cup Moving
        /\ msgs' = {} /\ outbox' = {} /\ (crashes' = 0 => crashes = 0)
    BY <1>1, <1>2 DEF Kill, Raise
  <2>2. AuthorizerInv'
    BY <2>1, AuthorizerStays DEF CarefulInv
  <2> QED BY <2>1, <2>2, CarefulStep
<1>3. CASE \E p \in Delegatees, W \in SUBSET Wits : KillRequest(p, W)
  BY <1>3, RequestsCareful
<1>4. ASSUME NEW e \in Events, NEW S \in SUBSET Events, KillPartialWitness(S, e) \/ KillUnanchored(S, e)
      PROVE  CarefulInv'
  <2>1. /\ UNCHANGED <<kel, overlapped, wigs, received>> /\ msgs' = {} /\ outbox' = {}
        /\ cdel \subseteq cdel' /\ dune' \subseteq dune \cup Moving
        /\ crashes' = crashes + 1
    BY <1>4 DEF KillPartialWitness, KillUnanchored, Approve
  <2>2. AuthorizerInv'
    BY <2>1, <1>1 DEF AuthorizerInv
  <2> QED BY <2>1, <2>2, CarefulStep
<1> QED BY <1>2, <1>3, <1>4 DEF Ends

\* The delegator's agent adds seals to its KEL and receipts nothing.
LEMMA DelegatorCareful ==
  ASSUME IInv, CarefulInv, DelegatorAgent
  PROVE  CarefulInv'
<1> USE DEF memory, tee, escrow, tor
<1>1. /\ UNCHANGED <<kel, overlapped, wigs, aes, msgs, dune, cdel>>
      /\ received' \cup outbox' \subseteq received \cup outbox
      /\ torKel' = torKel \/ \E e \in Events : torKel' = Append(torKel, e)
      /\ crashes' = crashes \/ crashes' = crashes + 1
  BY DEF DelegatorAgent, Deliver, Seal, SealKilled, Accept, Poll, CatchUp, Learn
<1>2. crashes' = 0 => crashes = 0
  BY <1>1, BoundAssumption DEF IInv, TypeOK
<1>3. AuthorizerInv'
  BY <1>1, <1>2, AuthorizerStays DEF CarefulInv
<1> QED BY <1>1, <1>3, CarefulStep

\* While no client overlaps and nothing is killed, the receipts, the witnesses and the authorizers
\* of an event belong together, in every reachable state.
LEMMA Careful == Spec => []CarefulInv
<1>1. Init => CarefulInv
  <2> SUFFICES ASSUME Init PROVE CarefulInv
    OBVIOUS
  <2>1. \A p \in Delegatees : Len(kel[p]) = 0
    BY EmptySeq DEF Init
  <2>2. Delegated = {}
    BY <2>1 DEF Delegated, Est, Made, Events
  <2> QED BY <2>2 DEF Init, CarefulInv, WaitingInv, ReceiptsInv, SentInv, AuthorizerInv
<1>2. ASSUME IInv, IInv', CarefulInv, [Next]_vars
      PROVE  CarefulInv'
  <2>1. CASE TeeRequests
    BY <1>2, <2>1, RequestsCareful DEF TeeRequests
  <2>2. CASE Process
    BY <1>2, <2>2, ProcessCareful
  <2>3. ASSUME NEW e \in Events, Request(e)
        PROVE  CarefulInv'
    <3>1. /\ UNCHANGED <<kel, overlapped, wigs, aes, dune, cdel, outbox, received, torKel, crashes>>
          /\ msgs' = msgs \cup {e} /\ e \in Delegated
      BY <1>2, <2>3 DEF Request, tee, tor, IInv, MadeInv
    <3>2. AuthorizerInv'
      BY <1>2, <3>1, AuthorizerStays DEF CarefulInv
    <3> QED BY <1>2, <3>1, <3>2, CarefulStep
  <2>4. ASSUME NEW e \in Events, NEW W \in SUBSET Wits, Receipt(e, W)
        PROVE  CarefulInv'
    BY <1>2, <2>4, ReceiptCareful
  <2>5. CASE Ends
    BY <1>2, <2>5, EndsCareful
  <2>6. CASE DelegatorAgent
    BY <1>2, <2>6, DelegatorCareful
  <2>7. CASE UNCHANGED vars
    <3>1. UNCHANGED <<kel, overlapped, wigs, aes, msgs, dune, cdel, outbox, received, torKel, crashes>>
      BY <2>7 DEF vars, memory, tee, tor, escrow
    <3>2. AuthorizerInv'
      BY <1>2, <3>1, AuthorizerStays DEF CarefulInv
    <3> QED BY <1>2, <3>1, <3>2, CarefulStep
  <2> QED BY <1>2, <2>1, <2>2, <2>3, <2>4, <2>5, <2>6, <2>7 DEF Next, Anchorer
<1> QED BY <1>1, <1>2, Invariance, PTL DEF Spec

\* Unless a client overlapped, what is sent to the delegator has a receipt of every witness of the
\* event (processPartialWitnessEscrow), though only their number is compared.
THEOREM SentWitnessed == Spec => []SentIsWitnessed
<1>1. CarefulInv => SentIsWitnessed
  BY DEF CarefulInv, SentInv, SentIsWitnessed
<1> QED BY <1>1, Careful, PTL

\* Unless a client overlapped or a process was killed, the authorizer recorded for an event is an
\* event of the delegator that seals it (processUnanchoredEscrow, setAes).
THEOREM AuthorizersSeal == Spec => []AuthorizerSealsItsEvent
<1>1. CarefulInv => AuthorizerSealsItsEvent
  BY DEF CarefulInv, AuthorizerInv, AuthorizerSealsItsEvent
<1> QED BY <1>1, Careful, PTL

-----------------------------------------------------------------------------

\* What a step of the two agents is to DelegationPromise.
Stays == UNCHANGED <<Delegated, dune \cup cdel, Sealed, cdel, Accepted>>

\* A request of a delegatee's client makes events and does nothing else of the promise.
LEMMA RequestsPromise ==
  ASSUME IInv, TeeRequests \/ \E p \in Delegatees, W \in SUBSET Wits : KillRequest(p, W)
  PROVE  Promise!Make
<1>1. PICK p \in Delegatees, ev \in KeyEvent : Grow(p, ev) /\ UNCHANGED <<dune, cdel, torKel, torSn>>
  <2>1. ASSUME NEW p \in Delegatees, NEW W \in SUBSET Wits,
               Establish(p, W) \/ EstablishRefused(p, W) \/ KillRequest(p, W)
        PROVE  \E ev \in KeyEvent : Grow(p, ev) /\ UNCHANGED <<dune, cdel, torKel, torSn>>
    <3>1. [est |-> TRUE, wits |-> W] \in KeyEvent
      BY DEF KeyEvent
    <3> QED BY <2>1, <3>1 DEF Establish, EstablishRefused, KillRequest, Stop, Forget, escrow, tor
  <2>2. ASSUME NEW p \in Delegatees, Interact(p)
        PROVE  \E ev \in KeyEvent : Grow(p, ev) /\ UNCHANGED <<dune, cdel, torKel, torSn>>
    <3>1. WitsNow(p) \in SUBSET Wits
      BY WitsTyped DEF IInv
    <3>2. [est |-> FALSE, wits |-> WitsNow(p)] \in KeyEvent
      BY <3>1 DEF KeyEvent
    <3> QED BY <2>2, <3>2 DEF Interact, escrow, tor
  <2> QED BY <2>1, <2>2 DEF TeeRequests
<1>2. Delegated \subseteq Delegated' /\ Accepted' = Accepted
  BY <1>1, GrowAccepted DEF IInv
<1> QED BY <1>1, <1>2 DEF Promise!Make, Sealed

\* The Anchorer's passes, whole or cut short.
LEMMA EscrowPromise ==
  ASSUME IInv, NEW done, done \subseteq Approved(dune \cup Moving),
         UNCHANGED <<kel, torKel, torSn>>,
         dune \cup cdel \subseteq dune' \cup cdel', dune' \subseteq dune \cup Moving,
         cdel' = cdel \cup done, done \subseteq dune' \cup cdel'
  PROVE  Promise!Progress
<1>1. Delegated' = Delegated /\ Accepted' = Accepted
  BY SameAccepted
<1>2. Moving \subseteq dpwe /\ dune \cup Moving \subseteq Events
  BY DEF Moving, IInv, TypeOK
<1>3. done \subseteq (dune \cup Moving) \cap Sealed
  BY <1>2, ApprovedFacts DEF IInv
<1>4. dune' \cup cdel' \subseteq Delegated
  BY <1>2, <1>3 DEF IInv, MadeInv
<1>5. cdel' \subseteq Sealed
  BY <1>3 DEF IInv, SealedInv
<1> QED BY <1>1, <1>4, <1>5 DEF Promise!Progress, Sealed

\* The Anchorer, whole or killed half way, only shows and completes events.
LEMMA AnchorerPromise ==
  ASSUME IInv, Anchorer
  PROVE  Promise!Progress \/ Stays
<1>1. CASE Process
  <2> DEFINE done == Approved(dune \cup Moving)
  <2>1. /\ UNCHANGED <<kel, torKel, torSn>> /\ dune' = (dune \cup Moving) \ done
        /\ cdel' = cdel \cup done
    BY <1>1 DEF Process, Approve, tor
  <2> HIDE DEF done
  <2>2. /\ dune \cup cdel \subseteq dune' \cup cdel' /\ dune' \subseteq dune \cup Moving
        /\ done \subseteq dune' \cup cdel'
    BY <2>1
  <2>3. done \subseteq Approved(dune \cup Moving)
    BY DEF done
  <2> QED BY <2>1, <2>2, <2>3, EscrowPromise
<1>2. CASE \E e \in Events : Request(e) \/ \E W \in SUBSET Wits : Receipt(e, W)
  <2>1. UNCHANGED <<kel, torKel, torSn, dune, cdel>>
    BY <1>2 DEF Request, Receipt, tee, tor, escrow
  <2> QED BY <2>1, SameAccepted DEF Stays, Sealed
<1> QED BY <1>1, <1>2 DEF Anchorer

\* A process that ends, wherever it is, has made, shown or completed events, or nothing.
LEMMA EndsPromise ==
  ASSUME IInv, Ends
  PROVE  Promise!Make \/ Promise!Progress \/ Stays
<1>1. CASE Kill
  <2>1. UNCHANGED <<kel, torKel, torSn, dune, cdel>>
    BY <1>1 DEF Kill, Stop, Forget, tee, tor, escrow
  <2> QED BY <2>1, SameAccepted DEF Stays, Sealed
<1>2. CASE Raise
  <2>1. /\ UNCHANGED <<kel, torKel, torSn, cdel>> /\ dune \subseteq dune' /\ dune' \subseteq dune \cup Moving
    BY <1>2 DEF Raise, Forget, tee, tor
  <2> DEFINE none == {}
  <2>2. none \subseteq Approved(dune \cup Moving) /\ cdel' = cdel \cup none /\ none \subseteq dune' \cup cdel'
    BY <2>1
  <2> HIDE DEF none
  <2>3. dune \cup cdel \subseteq dune' \cup cdel'
    BY <2>1
  <2> QED BY <2>1, <2>2, <2>3, EscrowPromise
<1>3. CASE \E p \in Delegatees, W \in SUBSET Wits : KillRequest(p, W)
  BY <1>3, RequestsPromise
<1>4. ASSUME NEW e \in Events, NEW S \in SUBSET Events, KillPartialWitness(S, e)
      PROVE  Promise!Progress
  <2>1. /\ UNCHANGED <<kel, torKel, torSn>> /\ dune' = dune \cup S /\ S \subseteq Moving
        /\ cdel' = cdel
    BY <1>4 DEF KillPartialWitness, Stop, Forget, tee, tor
  <2> DEFINE none == {}
  <2>2. none \subseteq Approved(dune \cup Moving) /\ cdel' = cdel \cup none
    BY <2>1
  <2>3. none \subseteq dune' \cup cdel'
    OBVIOUS
  <2> HIDE DEF none
  <2>4. dune \cup cdel \subseteq dune' \cup cdel' /\ dune' \subseteq dune \cup Moving
    BY <2>1
  <2> QED BY <2>1, <2>2, <2>3, <2>4, EscrowPromise
<1>5. ASSUME NEW e \in Events, NEW S \in SUBSET Events, KillUnanchored(S, e)
      PROVE  Promise!Progress
  <2> DEFINE done == S \cup {e}
  <2>1. /\ UNCHANGED <<kel, torKel, torSn>> /\ dune' = (dune \cup Moving) \ S
        /\ cdel' = cdel \cup done /\ done \subseteq Approved(dune \cup Moving)
    BY <1>5 DEF KillUnanchored, Approve, Stop, Forget, tor
  <2>2. /\ dune \cup cdel \subseteq dune' \cup cdel' /\ dune' \subseteq dune \cup Moving
        /\ done \subseteq dune' \cup cdel'
    BY <2>1
  <2> QED BY <2>1, <2>2, EscrowPromise
<1> QED BY <1>1, <1>3, <1>4, <1>5, <1>2 DEF Ends

\* The delegator's agent seals events that are made and accepts what is sealed.
LEMMA DelegatorPromise ==
  ASSUME IInv, IInv', DelegatorAgent
  PROVE  Promise!Seal \/ Promise!Accept \/ Stays
<1>1. ASSUME NEW e \in Events, Seal(e) \/ SealKilled(e)
      PROVE  Promise!Seal
  <2>1. /\ Len(torKel) < MaxApprovals /\ torKel' = Append(torKel, e)
        /\ UNCHANGED <<kel, torSn, dune, cdel>>
    <3>1. Len(torKel) \in Nat
      BY LenProperties DEF IInv, TypeOK
    <3> QED BY <1>1, <3>1, BoundAssumption DEF Seal, SealKilled, tee, escrow
  <2>2. Sealed \subseteq Sealed'
    BY <2>1, SealFacts DEF IInv
  <2>3. Delegated' = Delegated /\ Accepted' = Accepted
    BY <2>1, SameAccepted
  <2> QED BY <2>1, <2>2, <2>3 DEF Promise!Seal, IInv, MadeInv
<1>2. CASE (\E e \in Events : Deliver(e)) \/ (\E k \in Approvals : Poll(k)) \/ Learn
  <2>1. UNCHANGED <<kel, torKel, torSn, dune, cdel>>
    BY <1>2 DEF Deliver, Poll, Learn, tee, tor, escrow
  <2> QED BY <2>1, SameAccepted DEF Stays, Sealed
<1>3. ASSUME NEW p \in Delegatees, NEW n \in Nat, n >= torSn[p], torSn' = [torSn EXCEPT ![p] = n],
             UNCHANGED <<kel, torKel, dune, cdel>>
      PROVE  Promise!Accept
  <2>1. Delegated' = Delegated /\ Sealed' = Sealed
    BY <1>3, SameDelegated DEF Sealed
  <2>2. torSn \in [Delegatees -> 0..MaxEvents] /\ \A q \in Delegatees : torSn[q] \in Nat
    BY BoundAssumption DEF IInv, TypeOK
  <2>3. \A q \in Delegatees : torSn[q] <= torSn'[q] /\ torSn'[q] \in Nat
    BY <1>3, <2>2
  <2>4. \A d \in Delegated : d[1] \in Delegatees /\ d[2] \in Nat
    BY DEF Delegated, Events
  <2>5. Accepted \subseteq Accepted'
    <3> SUFFICES ASSUME NEW d \in Delegated, d[2] <= torSn[d[1]]
                 PROVE  d[2] <= torSn'[d[1]]
      BY <2>1 DEF Accepted
    <3> QED BY <2>2, <2>3, <2>4
  <2>6. Accepted' \subseteq Sealed
    BY <2>1 DEF IInv, SealedInv
  <2> QED BY <1>3, <2>1, <2>5, <2>6 DEF Promise!Accept
<1>4. ASSUME NEW e \in Events, Accept(e)
      PROVE  Promise!Accept
  <2>1. e[1] \in Delegatees /\ e[2] \in Nat /\ e[2] = torSn[e[1]] + 1
    BY <1>4 DEF Events, Accept, Delegables
  <2>2. torSn[e[1]] \in Nat
    BY <2>1, BoundAssumption DEF IInv, TypeOK
  <2>3. torSn' = [torSn EXCEPT ![e[1]] = e[2]] /\ UNCHANGED <<kel, torKel, dune, cdel>>
    BY <1>4 DEF Accept, tee, escrow
  <2>4. e[2] >= torSn[e[1]]
    BY <2>1, <2>2
  <2> QED BY <2>1, <2>3, <2>4, <1>3
<1>5. ASSUME NEW p \in Delegatees, CatchUp(p)
      PROVE  Promise!Accept
  <2>1. torSn[p] \in Nat
    BY BoundAssumption DEF IInv, TypeOK
  <2>2. torSn' = [torSn EXCEPT ![p] = torSn[p] + 1] /\ UNCHANGED <<kel, torKel, dune, cdel>>
    BY <1>5 DEF CatchUp, tee, escrow
  <2>3. torSn[p] + 1 \in Nat /\ torSn[p] + 1 >= torSn[p]
    BY <2>1
  <2> QED BY <2>2, <2>3, <1>3
<1> QED BY <1>1, <1>2, <1>4, <1>5 DEF DelegatorAgent

\* The agents of delegatees and delegator implement DelegationPromise: an event is complete only
\* when the delegator was sent it and sealed it, and accepted only when sealed.
THEOREM Refinement == Spec => PromiseSpec
<1>1. Init => Promise!Init
  <2>1. IInv /\ Init => Sealed = {} /\ Delegated = {}
    <3> SUFFICES ASSUME IInv, Init PROVE Sealed = {} /\ Delegated = {}
      OBVIOUS
    <3>1. Sealed = {}
      BY EmptySeq DEF Init, Sealed
    <3>2. \A p \in Delegatees : Len(kel[p]) = 0
      BY EmptySeq DEF Init
    <3> QED BY <3>1, <3>2 DEF Delegated, Est, Made, Events
  <2> QED BY <2>1, InitInv DEF Init, Promise!Init, Accepted
<1>2. ASSUME IInv, IInv', [Next]_vars
      PROVE  [Promise!Next]_(Promise!vars)
  <2>1. CASE TeeRequests
    BY <1>2, <2>1, RequestsPromise DEF Promise!Next
  <2>2. CASE Anchorer
    BY <1>2, <2>2, AnchorerPromise DEF Promise!Next, Promise!vars, Stays
  <2>3. CASE Ends
    BY <1>2, <2>3, EndsPromise DEF Promise!Next, Promise!vars, Stays
  <2>4. CASE DelegatorAgent
    BY <1>2, <2>4, DelegatorPromise DEF Promise!Next, Promise!vars, Stays
  <2>5. CASE UNCHANGED vars
    <3>1. UNCHANGED <<kel, torKel, torSn, dune, cdel>>
      BY <2>5 DEF vars, tee, tor, escrow
    <3> QED BY <3>1, SameAccepted DEF Promise!vars, Sealed
  <2> QED BY <1>2, <2>1, <2>2, <2>3, <2>4, <2>5 DEF Next
<1> QED BY <1>1, <1>2, Invariance, PTL DEF Spec, PromiseSpec, Promise!Spec

\* What the promises leave true: approved events were shown and sealed, accepted ones sealed, and
\* only events that were made are shown or sealed.
Kept ==
  /\ cdel \subseteq Sealed /\ Accepted \subseteq Sealed
  /\ Sealed \subseteq Delegated /\ dune \cup cdel \subseteq Delegated
Grows ==
  /\ Delegated \subseteq Delegated' /\ Sealed \subseteq Sealed'
  /\ cdel \subseteq cdel' /\ Accepted \subseteq Accepted'

LEMMA PromiseStep ==
  ASSUME Kept, [Promise!Next]_(Promise!vars)
  PROVE  Kept' /\ Grows
<1> USE DEF Kept, Grows
<1>1. CASE Promise!Make
  <2>1. /\ Delegated \subseteq Delegated' /\ (dune \cup cdel)' = dune \cup cdel
        /\ UNCHANGED <<Sealed, cdel, Accepted>>
    BY <1>1 DEF Promise!Make
  <2> QED BY <2>1
<1>2. CASE Promise!Seal
  <2>1. /\ Sealed \subseteq Sealed' /\ Sealed' \subseteq Delegated
        /\ (dune \cup cdel)' = dune \cup cdel /\ UNCHANGED <<Delegated, cdel, Accepted>>
    BY <1>2 DEF Promise!Seal
  <2> QED BY <2>1
<1>3. CASE Promise!Progress
  <2>1. /\ (dune \cup cdel)' \subseteq Delegated /\ cdel \subseteq cdel' /\ cdel' \subseteq Sealed
        /\ UNCHANGED <<Delegated, Sealed, Accepted>>
    BY <1>3 DEF Promise!Progress
  <2> QED BY <2>1
<1>4. CASE Promise!Accept
  <2>1. /\ Accepted \subseteq Accepted' /\ Accepted' \subseteq Sealed
        /\ (dune \cup cdel)' = dune \cup cdel /\ UNCHANGED <<Delegated, Sealed, cdel>>
    BY <1>4 DEF Promise!Accept
  <2> QED BY <2>1
<1>5. CASE UNCHANGED Promise!vars
  <2>1. (dune \cup cdel)' = dune \cup cdel /\ UNCHANGED <<Delegated, Sealed, cdel, Accepted>>
    BY <1>5 DEF Promise!vars
  <2> QED BY <2>1
<1> QED BY <1>1, <1>2, <1>3, <1>4, <1>5 DEF Promise!Next

\* What either side takes for approved (Anchorer.complete, the delegator's Kevery) rests on a seal in
\* the delegator's KEL, of an event that the delegatee has in its own; and what the delegatee was
\* told and the delegator accepted stays so, whichever of them stops.
THEOREM ApprovalsFinal ==
  Spec => /\ [](cdel \cup Accepted \subseteq Sealed /\ Sealed \subseteq Delegated)
          /\ [][cdel \subseteq cdel' /\ Accepted \subseteq Accepted' /\ Sealed \subseteq Sealed']_vars
<1>1. Promise!Init => Kept
  BY DEF Promise!Init, Kept
<1>2. Kept /\ [Promise!Next]_(Promise!vars) => Kept'
  BY PromiseStep
<1>3. Kept /\ [Promise!Next]_(Promise!vars) =>
        [cdel \subseteq cdel' /\ Accepted \subseteq Accepted' /\ Sealed \subseteq Sealed']_vars
  BY PromiseStep DEF Grows
<1>4. Kept => cdel \cup Accepted \subseteq Sealed /\ Sealed \subseteq Delegated
  BY DEF Kept
<1> QED BY <1>1, <1>2, <1>3, <1>4, Refinement, PTL DEF PromiseSpec, Promise!Spec

=============================================================================
