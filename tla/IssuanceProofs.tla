--------------------------- MODULE IssuanceProofs ---------------------------
(***************************************************************************)
(* Proofs about Issuance, for any registries, credentials, witnesses and   *)
(* bounds, and for single signature and group identifiers alike.           *)
(*                                                                         *)
(* The invariant follows an entry from the request that makes it to ctel:  *)
(* SealedInv says that what names a key event names one that seals it,     *)
(* ReceiptedInv what the escrows know of its receipts, OnceInv that it is  *)
(* in one place, and TrackedInv that it is in some place.                  *)
(***************************************************************************)
EXTENDS Issuance, SequenceTheorems, FiniteSetTheorems, TLAPS

\* What a request or a move holds while it is between two writes.
HandlerInv ==
  /\ handler.op # "idle" /\ handler.op \notin Passes => handler.tel \in Tels
  /\ At("anchor") => handler.tel[1] \in Registries
  /\ handler.op \in {"cmse", "verify", "op", "to-ccrd"} =>
       handler.tel[1] \in Creds /\ handler.tel = Issuance(handler.tel[1])
  /\ handler.op \in {"verify", "op"} => handler.tel[1] \in cmse
  /\ At("to-ctel") => handler.tel \in tels
  /\ At("to-ccrd") => handler.tel \in ctel

Sealed(t, n) == n \in DOMAIN kel /\ kel[n].tel = t

SealedInv ==
  /\ \A t \in Tels : anc[t] # 0 => Sealed(t, anc[t])
  /\ \A t \in tels : t \in Anchored /\ Prior(t) \subseteq tels
  /\ \A c \in saved : Issuance(c) \in tels
  /\ \A e \in tpwe : Sealed(e[1], e[2])
  /\ At("anc") \/ (~IsGroup /\ handler.op \in {"process", "escrow"}) => Sealed(handler.tel, handler.sn)
  /\ \A n \in counseled : n \in DOMAIN kel /\ kel[n].wits \subseteq wigs[n]

\* The key event n seals t, and has as many receipts as the identifier had witnesses then or since.
Receipted(t, n) ==
  /\ Sealed(t, n)
  /\ \E k \in n..Len(kel) : Cardinality(wigs[n]) >= Cardinality(kel[k].wits)

ReceiptedInv ==
  /\ \A e \in tede : Receipted(e[1], e[2])
  /\ At("to-tede") \/ At("to-ctel") => Receipted(handler.tel, handler.sn)
  /\ DisseminatedIsWitnessed

OnceInv ==
  /\ EscrowedOnce
  /\ IsGroup => ~At("anc")
  /\ ~IsGroup =>
       /\ tmse = {}
       /\ handler.op \in {"process", "anc", "escrow"} => <<handler.tel, handler.sn>> \notin tpwe \cup tede

\* Where a TEL event with an anchor is.
Tracked(t) == (\E e \in tpwe \cup tede : e[1] = t) \/ t \in Moving \cup ctel

TrackedInv ==
  crashes = 0 =>
    /\ \A t \in Tels : anc[t] # 0 => Tracked(t) \/ (~IsGroup /\ At("escrow") /\ handler.tel = t)
    /\ \A c \in ops : c \in cmse \cup ccrd \/ (At("to-ccrd") /\ handler.tel = Issuance(c))

IInv == TypeOK /\ HandlerInv /\ SealedInv /\ ReceiptedInv /\ OnceInv /\ TrackedInv

-----------------------------------------------------------------------------
(* Facts about TEL events, handlers, the KEL and sets of witnesses *)

\* The TEL events and what each builds on.
LEMMA TelFacts ==
  /\ \A r \in Registries : <<r, 0>> \in Tels /\ Prior(<<r, 0>>) = {}
  /\ \A c \in Creds : /\ <<c, 0>> \in Tels /\ <<c, 1>> \in Tels
                      /\ Prior(<<c, 0>>) = {<<RegistryOf[c], 0>>}
                      /\ Prior(<<c, 1>>) = {<<c, 0>>}
                      /\ <<RegistryOf[c], 0>> \in Tels
  /\ \A t \in Tels : Prior(t) \subseteq Tels
  /\ \A t \in Tels : t[1] \in Registries => Prior(t) = {}
<1> USE RegistryAssumption, NamesAssumption
<1>1. \A t \in Tels : t[1] \in Registries \/ t[1] \in Creds
  BY DEF Tels, Lifecycle!Tels
<1>2. \A c \in Creds : RegistryOf[c] \in Registries /\ c \notin Registries
  OBVIOUS
<1>3. QED
  BY <1>1, <1>2 DEF Tels, Prior, Lifecycle!Tels, Lifecycle!Prior, Lifecycle!Inception,
                    Lifecycle!Issuance

\* Handlers are of their type.
LEMMA HandlerTypes ==
  /\ Idle \in Handlers
  /\ \A op \in HandlerOps, t \in Tels \cup {None}, n \in Events :
       [op |-> op, tel |-> t, sn |-> n] \in Handlers
  /\ \A h \in Handlers, op \in HandlerOps : [h EXCEPT !.op = op] \in Handlers
<1> USE DEF Handlers, HandlerOps, Idle
<1>1. 1 \in Events
  BY BoundAssumption DEF Events
<1>2. Idle \in Handlers
  BY <1>1
<1>3. QED
  BY <1>2

\* A key event that is appended leaves the earlier ones as they were.
LEMMA KelGrows ==
  ASSUME TypeOK, Len(kel) < MaxEvents, NEW t \in Tels \cup {None}, NEW W \in SUBSET Wits,
         kel' = Append(kel, [tel |-> t, wits |-> W])
  PROVE  /\ kel' \in Seq(KeyEvents)
         /\ Len(kel') = Len(kel) + 1 /\ Len(kel') \in Events
         /\ \A n \in DOMAIN kel : n \in DOMAIN kel' /\ kel'[n] = kel[n]
         /\ Len(kel') \in DOMAIN kel' /\ kel'[Len(kel')] = [tel |-> t, wits |-> W]
         /\ Len(kel') \notin DOMAIN kel
         /\ Anchored' = Anchored \cup ({t} \ {None})
<1> DEFINE e == [tel |-> t, wits |-> W]
<1>1. kel \in Seq(KeyEvents) /\ e \in KeyEvents
  BY DEF TypeOK, KeyEvents
<1> HIDE DEF e
<1>2. /\ kel' \in Seq(KeyEvents)
      /\ Len(kel') = Len(kel) + 1
      /\ \A i \in 1..Len(kel) : kel'[i] = kel[i]
      /\ kel'[Len(kel) + 1] = e
  BY <1>1, AppendProperties DEF e
<1>3. Len(kel) \in Nat /\ DOMAIN kel = 1..Len(kel) /\ DOMAIN kel' = 1..(Len(kel) + 1)
  BY <1>1, <1>2, LenProperties
<1>4. Len(kel') \in Events
  BY <1>2, <1>3, BoundAssumption DEF Events
<1>5. DOMAIN kel' = DOMAIN kel \cup {Len(kel')} /\ Len(kel') \notin DOMAIN kel
  BY <1>2, <1>3
<1>6. kel'[Len(kel')].tel = t
  BY <1>2 DEF e
<1>7. \A n \in DOMAIN kel : kel'[n] = kel[n]
  BY <1>2, <1>3
<1>8. Anchored' = Anchored \cup ({t} \ {None})
  BY <1>5, <1>6, <1>7 DEF Anchored
<1>9. QED
  BY <1>2, <1>3, <1>4, <1>5, <1>7, <1>8 DEF e

\* The witnesses of the last key event.
LEMMA KelTypes ==
  ASSUME TypeOK
  PROVE  /\ Len(kel) \in Nat \ {0} /\ DOMAIN kel = 1..Len(kel) /\ DOMAIN kel \subseteq Events
         /\ \A n \in DOMAIN kel : kel[n].tel \in Tels \cup {None} /\ kel[n].wits \in SUBSET Wits
         /\ Len(kel) \in DOMAIN kel
         /\ CurrentWits \in SUBSET Wits
<1>1. kel \in Seq(KeyEvents) /\ Len(kel) \in Events
  BY DEF TypeOK
<1>2. Len(kel) \in Nat \ {0} /\ DOMAIN kel = 1..Len(kel) /\ DOMAIN kel \subseteq Events
  BY <1>1, BoundAssumption, LenProperties DEF Events
<1>3. \A n \in DOMAIN kel : kel[n] \in KeyEvents
  BY <1>1, <1>2, ElementOfSeq
<1>4. QED
  BY <1>2, <1>3 DEF CurrentWits, KeyEvents

\* Sets of witnesses have a number of elements, which grows with them.
LEMMA WitCards ==
  ASSUME NEW W \in SUBSET Wits, NEW V \in SUBSET Wits
  PROVE  /\ Cardinality(W) \in Nat
         /\ W = {} => Cardinality(W) = 0
         /\ W \subseteq V => Cardinality(W) <= Cardinality(V)
<1>1. IsFiniteSet(W) /\ IsFiniteSet(V)
  BY SetsAssumption, FS_Subset
<1>2. QED
  BY <1>1, FS_CardinalityType, FS_Subset, FS_EmptySet

-----------------------------------------------------------------------------
(* Types *)

\* What an anchoring request does to the KEL and the queues.
LEMMA SealTypes ==
  ASSUME TypeOK, NEW t \in Tels, NEW n \in Events, SealIn(t, n)
  PROVE  /\ kel' \in Seq(KeyEvents) /\ Len(kel') \in Events
         /\ proposed' \subseteq Entries /\ asked' \subseteq Entries
<1>1. <<t, n>> \in Entries
  BY DEF Entries
<1>2. proposed' \subseteq Entries /\ asked' \subseteq Entries
  BY <1>1 DEF SealIn, TypeOK
<1>3. CASE IsGroup
  BY <1>2, <1>3 DEF SealIn, TypeOK
<1>4. CASE ~IsGroup
  <2>1. Len(kel) < MaxEvents
    BY <1>4, KelTypes, BoundAssumption DEF SealIn, Events
  <2>2. kel' = Append(kel, [tel |-> t, wits |-> CurrentWits])
    BY <1>4 DEF SealIn
  <2>3. QED
    BY <1>2, <2>1, <2>2, KelGrows, KelTypes
<1>5. QED
  BY <1>3, <1>4

\* The handler is one of Handlers after every step.
LEMMA HandlerStep == TypeOK /\ HandlerInv /\ [Next]_vars => handler' \in Handlers
<1> SUFFICES ASSUME TypeOK, HandlerInv, [Next]_vars PROVE handler' \in Handlers
  OBVIOUS
<1>1. handler \in Handlers
  BY DEF TypeOK
<1>2. handler.tel \in Tels \cup {None} /\ handler.sn \in Events /\ 1 \in Events
  BY <1>1, BoundAssumption DEF Handlers, Events
<1>3. \A r \in Registries : <<r, 0>> \in Tels
  BY TelFacts
<1>4. \A c \in Creds : <<c, 0>> \in Tels /\ <<c, 1>> \in Tels
  BY TelFacts
<1>5. \A e \in Entries : e[1] \in Tels /\ e[2] \in Events
  BY DEF Entries
<1>0. ASSUME NEW op \in HandlerOps, NEW t \in Tels \cup {None}, NEW n \in Events, Handle(op, t, n)
      PROVE handler' \in Handlers
  BY <1>0, HandlerTypes DEF Handle
<1> HIDE DEF Handle
<1> USE DEF At, Goto, Finish, Serving, HandlerOps, Requests, Passes, Moves
<1>6. CASE Client
  <2>1. CASE \E r \in Registries : MakeRegistry(r)
    <3> PICK r \in Registries : MakeRegistry(r)
      BY <2>1
    <3>1. Handle("anchor", <<r, 0>>, 1)
      BY DEF MakeRegistry
    <3>2. <<r, 0>> \in Tels
      BY <1>3
    <3>3. QED
      BY <1>0, <1>2, <3>1, <3>2
  <2>2. CASE \E c \in Creds : SealIssuance(c) \/ SealRevocation(c)
    <3>1. PICK t \in Tels, n \in Events : Handle("process", t, n)
      BY <1>4, <2>2 DEF SealIssuance, SealRevocation, Issuance
    <3>2. QED
      BY <1>0, <3>1
  <2>3. CASE \/ \E c \in Creds : DeleteCredential(c)
             \/ \E W \in SUBSET Wits : RotateWitnesses(W)
    BY <1>1, <2>3 DEF DeleteCredential, RotateWitnesses
  <2>4. QED
    BY <1>6, <2>1, <2>2, <2>3 DEF Client
<1>7. CASE RequestStep
  <2>1. CASE SealRegistry
    BY <1>1, <2>1 DEF SealRegistry, Handlers
  <2>2. CASE RefuseRegistry \/ RefuseTelEvent \/ SubmitOperation
    BY <2>2, HandlerTypes DEF RefuseRegistry, RefuseTelEvent, SubmitOperation
  <2>3. CASE ProcessTelEvent \/ AnchorMsg \/ EscrowCredential \/ VerifyCredential
    <3>1. \E op \in {"escrow", "anc", "verify", "op"} : handler' = [handler EXCEPT !.op = op]
      BY <2>3 DEF ProcessTelEvent, AnchorMsg, EscrowCredential, VerifyCredential
    <3>2. {"escrow", "anc", "verify", "op"} \subseteq HandlerOps
      OBVIOUS
    <3> HIDE DEF HandlerOps
    <3>3. QED
      BY <1>1, <3>1, <3>2, HandlerTypes
  <2>4. CASE EscrowTelEvent
    <3>1. handler' = [handler EXCEPT !.op = "cmse"] \/ handler' = Idle
      BY <2>4 DEF EscrowTelEvent
    <3>2. QED
      BY <1>1, <3>1, HandlerTypes
  <2>5. QED
    BY <1>7, <2>1, <2>2, <2>3, <2>4 DEF RequestStep
<1>8. CASE Others \/ Queues \/ UNCHANGED vars
  BY <1>1, <1>8 DEF Others, Queues, Receipt, AcceptGroupEvent, ReceiptAll, StartCounselor, Counsel, vars
<1>9. CASE StartPass \/ Crash \/ Raise
  BY <1>1, <1>9, HandlerTypes DEF StartPass, Crash, Raise
<1>10. CASE NextStage
  <2>1. \/ handler' = Idle
        \/ \E op \in Passes : handler' = [handler EXCEPT !.op = op]
    BY <1>10 DEF NextStage
  <2>2. QED
    BY <1>1, <2>1, HandlerTypes
<1>11. CASE PassStep /\ ~NextStage
  <2>1. CASE \/ \E t \in Tels : AcceptTelEvent(t)
             \/ \E c \in Creds : SaveCredential(c)
             \/ \E e \in Entries : DropMultisigEscrow(e)
    BY <1>1, <2>1 DEF AcceptTelEvent, SaveCredential, DropMultisigEscrow
  <2>2. CASE \E c \in Creds : LeaveCredentialEscrow(c)
    <3> PICK c \in Creds : LeaveCredentialEscrow(c)
      BY <2>2
    <3>1. Handle("to-ccrd", <<c, 0>>, 1)
      BY DEF LeaveCredentialEscrow, Issuance
    <3>2. QED
      BY <1>0, <1>2, <1>4, <3>1
  <2>3. CASE \E e \in Entries : LeaveWitnessEscrow(e) \/ LeaveMultisigEscrow(e) \/ LeaveDissemination(e)
    <3> PICK e \in Entries : LeaveWitnessEscrow(e) \/ LeaveMultisigEscrow(e) \/ LeaveDissemination(e)
      BY <2>3
    <3>1. Handle("to-tede", e[1], e[2]) \/ Handle("to-ctel", e[1], e[2])
      BY DEF LeaveWitnessEscrow, LeaveMultisigEscrow, LeaveDissemination
    <3>2. e[1] \in Tels \cup {None} /\ e[2] \in Events
      BY <1>5
    <3>3. "to-tede" \in HandlerOps /\ "to-ctel" \in HandlerOps
      OBVIOUS
    <3> HIDE DEF HandlerOps
    <3>4. QED
      BY <1>0, <3>1, <3>2, <3>3
  <2>4. CASE EnterDissemination
    <3>1. Handle("tmse", None, 1) \/ Handle("tpwe", None, 1)
      BY <2>4 DEF EnterDissemination, Handle
    <3>2. "tmse" \in HandlerOps /\ "tpwe" \in HandlerOps
      OBVIOUS
    <3> HIDE DEF HandlerOps
    <3>3. QED
      BY <1>0, <1>2, <3>1, <3>2
  <2>6. CASE Disseminate \/ CompleteCredential
    <3>1. Handle("tede", None, 1) \/ Handle("cmse-pass", None, 1)
      BY <2>6 DEF Disseminate, CompleteCredential
    <3>2. "tede" \in HandlerOps /\ "cmse-pass" \in HandlerOps
      OBVIOUS
    <3> HIDE DEF HandlerOps
    <3>3. QED
      BY <1>0, <1>2, <3>1, <3>2
  <2>5. QED
    BY <1>11, <2>1, <2>2, <2>3, <2>4, <2>6 DEF PassStep
<1>12. QED
  BY <1>6, <1>7, <1>8, <1>9, <1>10, <1>11 DEF Next

\* Every step keeps the types.
LEMMA TypeStep == TypeOK /\ HandlerInv /\ [Next]_vars => TypeOK'
<1> SUFFICES ASSUME TypeOK, HandlerInv, [Next]_vars PROVE TypeOK'
  OBVIOUS
<1>1. handler' \in Handlers
  BY HandlerStep
<1>2. handler \in Handlers /\ handler.sn \in Events
  BY DEF TypeOK, Handlers
<1>3. handler.op \in Requests \cup Moves => handler.tel \in Tels /\ <<handler.tel, handler.sn>> \in Entries
  BY <1>2 DEF HandlerInv, Requests, Moves, Passes, Entries
<1>4. \A e \in Entries : e[1] \in Tels /\ e[2] \in Events
  BY DEF Entries
<1>5. ASSUME NEW t \in Tels, NEW n \in Events, \/ anc' = anc
                                             \/ anc' = [anc EXCEPT ![t] = IF @ = 0 THEN n ELSE @]
      PROVE anc' \in [Tels -> 0..MaxEvents]
  BY <1>5, BoundAssumption DEF TypeOK, Events
<1> USE <1>1 DEF keri, memory, tever, escrow, cred, At, Serving
<1>6. CASE \E r \in Registries : MakeRegistry(r)
  BY <1>6, TelFacts DEF MakeRegistry, TypeOK
<1>7. CASE \E c \in Creds : SealIssuance(c)
  <2> PICK c \in Creds : SealIssuance(c)
    BY <1>7
  <2>1. PICK n \in Events : SealIn(Issuance(c), n)
    BY DEF SealIssuance
  <2>2. Issuance(c) \in Tels
    BY TelFacts DEF Issuance
  <2>3. QED
    BY <2>1, <2>2, SealTypes DEF SealIssuance, TypeOK
<1>8. CASE \E c \in Creds : SealRevocation(c)
  <2> PICK c \in Creds : SealRevocation(c)
    BY <1>8
  <2>1. PICK n \in Events : SealIn(<<c, 1>>, n)
    BY DEF SealRevocation
  <2>2. <<c, 1>> \in Tels
    BY TelFacts
  <2>3. QED
    BY <2>1, <2>2, SealTypes DEF SealRevocation, TypeOK
<1>9. CASE \E c \in Creds : DeleteCredential(c)
  BY <1>9 DEF DeleteCredential, TypeOK
<1>10. CASE \E W \in SUBSET Wits : RotateWitnesses(W)
  <2> PICK W \in SUBSET Wits : RotateWitnesses(W)
    BY <1>10
  <2>1. kel' \in Seq(KeyEvents) /\ Len(kel') \in Events
    BY KelGrows DEF RotateWitnesses
  <2>2. QED
    BY <2>1 DEF RotateWitnesses, TypeOK
<1>11. CASE SealRegistry
  <2>1. PICK n \in Events : SealIn(handler.tel, n)
    BY <1>11 DEF SealRegistry
  <2>2. QED
    BY <1>3, <2>1, <1>11, SealTypes DEF SealRegistry, TypeOK, Requests
<1>12. CASE RefuseRegistry \/ RefuseTelEvent \/ StartPass \/ NextStage
  BY <1>12 DEF RefuseRegistry, RefuseTelEvent, StartPass, NextStage, TypeOK
<1>13. CASE ProcessTelEvent
  BY <1>3, <1>13 DEF ProcessTelEvent, TypeOK, Requests
<1>14. CASE AnchorMsg
  <2>1. handler.tel \in Tels
    BY <1>3, <1>14 DEF AnchorMsg, Requests
  <2>2. anc' \in [Tels -> 0..MaxEvents]
    BY <1>2, <1>5, <2>1, <1>14 DEF AnchorMsg
  <2>3. QED
    BY <2>2, <1>14 DEF AnchorMsg, TypeOK
<1>15. CASE EscrowTelEvent
  <2>1. <<handler.tel, handler.sn>> \in Entries
    BY <1>3, <1>15 DEF EscrowTelEvent, Requests
  <2>2. QED
    BY <1>2, <2>1, <1>15 DEF EscrowTelEvent, TypeOK
<1>16. CASE EscrowCredential \/ VerifyCredential \/ SubmitOperation
  <2>1. handler.tel[1] \in Creds
    BY <1>16 DEF EscrowCredential, VerifyCredential, SubmitOperation, HandlerInv
  <2>2. QED
    BY <1>16, <2>1 DEF EscrowCredential, VerifyCredential, SubmitOperation, TypeOK
<1>17. CASE \E n \in Events, w \in Wits : Receipt(n, w)
  <2> PICK n \in Events, w \in Wits : Receipt(n, w)
    BY <1>17
  <2>1. wigs' \in [Events -> SUBSET Wits]
    BY DEF Receipt, TypeOK
  <2>2. QED
    BY <2>1 DEF Receipt, TypeOK
<1>18. CASE \E t \in Tels \cup {None} : AcceptGroupEvent(t)
  <2> PICK t \in Tels \cup {None} : AcceptGroupEvent(t)
    BY <1>18
  <2>1. kel' \in Seq(KeyEvents) /\ Len(kel') \in Events
    BY KelGrows, KelTypes DEF AcceptGroupEvent
  <2>2. QED
    BY <2>1 DEF AcceptGroupEvent, TypeOK
<1>19. CASE \E n \in Events : ReceiptAll(n)
  <2> PICK n \in Events : ReceiptAll(n)
    BY <1>19
  <2>1. msgs' \subseteq Events /\ cues' \subseteq Events
    BY DEF ReceiptAll, TypeOK
  <2>2. QED
    BY <2>1 DEF ReceiptAll, TypeOK
<1>20. CASE \E t \in Tels, n \in Events : StartCounselor(t, n) \/ Counsel(t, n)
  BY <1>20 DEF StartCounselor, Counsel, TypeOK, Entries
<1>21. CASE \E t \in Tels : AcceptTelEvent(t)
  BY <1>21 DEF AcceptTelEvent, TypeOK
<1>22. CASE \E c \in Creds : SaveCredential(c) \/ LeaveCredentialEscrow(c)
  BY <1>22 DEF SaveCredential, LeaveCredentialEscrow, TypeOK
<1>23. CASE \E e \in Entries : LeaveWitnessEscrow(e) \/ DropMultisigEscrow(e) \/ LeaveDissemination(e)
  BY <1>23 DEF LeaveWitnessEscrow, DropMultisigEscrow, WithoutTelEvent, LeaveDissemination, TypeOK
<1>24. CASE \E e \in Entries : LeaveMultisigEscrow(e)
  <2> PICK e \in Entries : LeaveMultisigEscrow(e)
    BY <1>24
  <2>1. anc' \in [Tels -> 0..MaxEvents]
    BY <1>4, <1>5 DEF LeaveMultisigEscrow
  <2>2. QED
    BY <2>1 DEF LeaveMultisigEscrow, WithoutTelEvent, TypeOK
<1>25. CASE EnterDissemination \/ Disseminate
  <2>1. handler.tel \in Tels /\ <<handler.tel, handler.sn>> \in Entries
    BY <1>3, <1>25 DEF EnterDissemination, Disseminate, Moves
  <2>2. QED
    BY <1>25, <2>1 DEF EnterDissemination, Disseminate, TypeOK
<1>26. CASE CompleteCredential
  BY <1>26 DEF CompleteCredential, TypeOK, HandlerInv
<1>27. CASE Crash \/ Raise
  BY <1>27, BoundAssumption DEF Crash, Raise, TypeOK
<1>28. CASE UNCHANGED vars
  BY <1>28 DEF vars, TypeOK
<1>29. QED
  BY <1>6, <1>7, <1>8, <1>9, <1>10, <1>11, <1>12, <1>13, <1>14, <1>15, <1>16, <1>17, <1>18,
     <1>19, <1>20, <1>21, <1>22, <1>23, <1>24, <1>25, <1>26, <1>27, <1>28
  DEF Next, Client, RequestStep, Others, Queues, PassStep

-----------------------------------------------------------------------------
(* What a handler holds *)

\* Every step leaves the handler with what its next write needs.
LEMMA HandlerInvStep == TypeOK /\ HandlerInv /\ [Next]_vars => HandlerInv'
<1> SUFFICES ASSUME TypeOK, HandlerInv, [Next]_vars PROVE HandlerInv'
  OBVIOUS
<1>1. handler \in [op : HandlerOps, tel : Tels \cup {None}, sn : Events]
  BY DEF TypeOK, Handlers
<1>2. ASSUME UNCHANGED handler, cmse \subseteq cmse', tels \subseteq tels', ctel \subseteq ctel'
      PROVE  HandlerInv'
  BY <1>2 DEF HandlerInv, At
<1>3. ASSUME handler'.op \in {"idle"} \cup Passes
      PROVE  HandlerInv'
  BY <1>3 DEF HandlerInv, At, Passes
<1>4. ASSUME NEW op \in {"process", "anc", "escrow", "to-tede"}, NEW t \in Tels, handler'.op = op, handler'.tel = t
      PROVE  HandlerInv'
  BY <1>4 DEF HandlerInv, At
<1>5. Idle.op = "idle"
  BY DEF Idle
<1> USE DEF keri, memory, tever, escrow, cred, Goto, Finish, Serving
<1>6. CASE \E r \in Registries : MakeRegistry(r)
  <2> PICK r \in Registries : MakeRegistry(r)
    BY <1>6
  <2>1. <<r, 0>> \in Tels
    BY TelFacts
  <2>2. handler' = [op |-> "anchor", tel |-> <<r, 0>>, sn |-> 1]
    BY DEF MakeRegistry, Handle
  <2>3. QED
    BY <2>1, <2>2 DEF HandlerInv, At
<1>7. CASE \E c \in Creds : SealIssuance(c) \/ SealRevocation(c)
  <2>1. PICK t \in Tels, n \in Events : Handle("process", t, n)
    BY <1>7, TelFacts DEF SealIssuance, SealRevocation, Issuance
  <2>2. QED
    BY <1>4, <2>1 DEF Handle
<1>8. CASE SealRegistry \/ ProcessTelEvent \/ AnchorMsg
  <2>1. handler.tel \in Tels
    BY <1>8 DEF SealRegistry, ProcessTelEvent, AnchorMsg, HandlerInv, At, Passes
  <2>2. handler'.op \in {"anc", "escrow"} /\ handler'.tel = handler.tel
    BY <1>1, <1>8 DEF SealRegistry, ProcessTelEvent, AnchorMsg, HandlerOps
  <2>3. QED
    BY <1>4, <2>1, <2>2
<1>9. CASE RefuseRegistry \/ RefuseTelEvent \/ SubmitOperation \/ Crash \/ Raise
  BY <1>3, <1>5, <1>9 DEF RefuseRegistry, RefuseTelEvent, SubmitOperation, Crash, Raise
<1>10. CASE EscrowTelEvent
  <2>1. CASE \E c \in Creds : handler.tel = Issuance(c)
    <3>0. handler' = [handler EXCEPT !.op = "cmse"]
      BY <1>10, <2>1 DEF EscrowTelEvent
    <3>1. handler'.op = "cmse" /\ handler'.tel = handler.tel
      BY <1>1, <3>0
    <3> PICK c \in Creds : handler.tel = <<c, 0>>
      BY <2>1 DEF Issuance
    <3>2. handler.tel[1] = c
      OBVIOUS
    <3>3. <<c, 0>> \in Tels
      BY TelFacts
    <3>4. handler.tel \in Tels /\ handler.tel[1] \in Creds /\ handler.tel = Issuance(handler.tel[1])
      BY <3>2, <3>3 DEF Issuance
    <3>5. QED
      BY <3>1, <3>4 DEF HandlerInv, At
  <2>2. CASE ~\E c \in Creds : handler.tel = Issuance(c)
    BY <1>3, <1>5, <1>10, <2>2 DEF EscrowTelEvent
  <2>3. QED
    BY <2>1, <2>2
<1>11. CASE EscrowCredential
  <2>1. handler' = [handler EXCEPT !.op = "verify"] /\ handler.op = "cmse" /\ cmse' = cmse \cup {handler.tel[1]}
    BY <1>11 DEF EscrowCredential, At
  <2>2. handler'.op = "verify" /\ handler'.tel = handler.tel
    BY <1>1, <2>1
  <2>3. QED
    BY <2>1, <2>2 DEF HandlerInv, At, Passes
<1>12. CASE VerifyCredential
  <2>1. handler' = [handler EXCEPT !.op = "op"] /\ handler.op = "verify" /\ cmse' = cmse
    BY <1>12 DEF VerifyCredential, At
  <2>2. handler'.op = "op" /\ handler'.tel = handler.tel
    BY <1>1, <2>1
  <2>3. QED
    BY <2>1, <2>2 DEF HandlerInv, At, Passes
<1>13. CASE \/ \E c \in Creds : DeleteCredential(c) \/ SaveCredential(c)
            \/ \E W \in SUBSET Wits : RotateWitnesses(W)
            \/ Others \/ Queues
            \/ \E t \in Tels : AcceptTelEvent(t)
            \/ \E e \in Entries : DropMultisigEscrow(e)
            \/ UNCHANGED vars
  BY <1>2, <1>13 DEF DeleteCredential, SaveCredential, RotateWitnesses, Others, Queues, Receipt,
     AcceptGroupEvent, ReceiptAll, StartCounselor, Counsel, AcceptTelEvent, DropMultisigEscrow, vars
<1>14. CASE StartPass \/ NextStage
  BY <1>1, <1>3, <1>5, <1>14 DEF StartPass, NextStage, Passes, HandlerOps
<1>15. CASE \E e \in Entries : LeaveWitnessEscrow(e) \/ LeaveMultisigEscrow(e)
  <2>1. PICK e \in Entries : handler' = [op |-> "to-tede", tel |-> e[1], sn |-> e[2]]
    BY <1>15 DEF LeaveWitnessEscrow, LeaveMultisigEscrow, Handle
  <2>2. e[1] \in Tels
    BY DEF Entries
  <2>3. QED
    BY <1>4, <2>1, <2>2
<1>16. CASE \E e \in Entries : LeaveDissemination(e)
  <2> PICK e \in Entries : LeaveDissemination(e)
    BY <1>16
  <2>1. handler' = [op |-> "to-ctel", tel |-> e[1], sn |-> e[2]] /\ e[1] \in tels /\ tels' = tels
    BY DEF LeaveDissemination, Handle, Disseminable
  <2>2. e[1] \in Tels
    BY DEF Entries
  <2>3. QED
    BY <2>1, <2>2 DEF HandlerInv, At
<1>17. CASE \E c \in Creds : LeaveCredentialEscrow(c)
  <2> PICK c \in Creds : LeaveCredentialEscrow(c)
    BY <1>17
  <2>1. handler' = [op |-> "to-ccrd", tel |-> <<c, 0>>, sn |-> 1] /\ <<c, 0>> \in ctel /\ ctel' = ctel
    BY DEF LeaveCredentialEscrow, Handle, Completable, Issuance
  <2>2. <<c, 0>> \in Tels
    BY TelFacts
  <2>3. QED
    BY <2>1, <2>2 DEF HandlerInv, At, Issuance
<1>18. CASE EnterDissemination \/ Disseminate \/ CompleteCredential
  <2>1. handler'.op \in Passes
    BY <1>18 DEF EnterDissemination, Disseminate, CompleteCredential, Handle, Passes
  <2>2. QED
    BY <1>3, <2>1
<1>19. QED
  BY <1>6, <1>7, <1>8, <1>9, <1>10, <1>11, <1>12, <1>13, <1>14, <1>15, <1>16, <1>17, <1>18
  DEF Next, Client, RequestStep, PassStep
-----------------------------------------------------------------------------
(* Which action changes what *)

\* For each record, the actions that change it.
LEMMA Changes ==
  ASSUME [Next]_vars
  PROVE  /\ tels' = tels \/ \E t \in Tels : AcceptTelEvent(t)
         /\ anc' = anc \/ AnchorMsg \/ \E e \in Entries : LeaveMultisigEscrow(e)
         /\ tpwe' = tpwe \/ EscrowTelEvent \/ \E e \in Entries : LeaveWitnessEscrow(e)
         /\ tede' = tede \/ EnterDissemination \/ \E e \in Entries : LeaveDissemination(e)
         /\ ctel' = ctel \/ Disseminate
         /\ ccrd' = ccrd \/ CompleteCredential
         /\ saved' \subseteq saved \/ \E c \in Creds : SaveCredential(c)
         /\ cmse' = cmse \/ EscrowCredential \/ \E c \in Creds : LeaveCredentialEscrow(c)
         /\ ops' = ops \/ SubmitOperation
         /\ counseled' = counseled \/ \E t \in Tels, n \in Events : Counsel(t, n)
         /\ wigs' = wigs \/ \E n \in Events, w \in Wits : Receipt(n, w)
         /\ crashes' = crashes \/ (crashes < MaxCrashes /\ crashes' = crashes + 1)
<1> USE DEF keri, memory, tever, escrow, cred, vars
<1>1. CASE Client
  BY <1>1 DEF Client, MakeRegistry, SealIssuance, SealRevocation, DeleteCredential, RotateWitnesses
<1>2. CASE RequestStep
  BY <1>2 DEF RequestStep, SealRegistry, RefuseRegistry, RefuseTelEvent, ProcessTelEvent, AnchorMsg,
              EscrowTelEvent, EscrowCredential, VerifyCredential, SubmitOperation
<1>3. CASE Others \/ Queues \/ StartPass \/ Crash \/ Raise \/ UNCHANGED vars
  BY <1>3 DEF Others, Queues, Receipt, AcceptGroupEvent, ReceiptAll, StartCounselor, Counsel,
              StartPass, Crash, Raise
<1>4. CASE PassStep
  BY <1>4 DEF PassStep, NextStage, AcceptTelEvent, SaveCredential, LeaveCredentialEscrow,
              LeaveWitnessEscrow, LeaveMultisigEscrow, DropMultisigEscrow, LeaveDissemination,
              EnterDissemination, Disseminate, CompleteCredential
<1>5. QED
  BY <1>1, <1>2, <1>3, <1>4 DEF Next

\* What a step leaves the handler with.
LEMMA HandlerChanges ==
  ASSUME TypeOK, [Next]_vars, handler' # handler
  PROVE  /\ handler'.op \in {"process", "anc", "escrow"} =>
              \/ \E c \in Creds : SealIssuance(c) \/ SealRevocation(c)
              \/ SealRegistry \/ ProcessTelEvent \/ AnchorMsg
         /\ handler'.op = "to-tede" => \E e \in Entries : LeaveWitnessEscrow(e) \/ LeaveMultisigEscrow(e)
         /\ handler'.op = "to-ctel" => \E e \in Entries : LeaveDissemination(e)
         /\ handler'.op = "to-ccrd" => \E c \in Creds : LeaveCredentialEscrow(c)
<1>1. handler \in [op : HandlerOps, tel : Tels \cup {None}, sn : Events]
  BY DEF TypeOK, Handlers
<1>2. Idle.op = "idle"
  BY DEF Idle
<1>3. \A op \in HandlerOps : [handler EXCEPT !.op = op].op = op
  BY <1>1
<1> USE DEF Goto, Finish, Handle, Serving, HandlerOps, Requests, Passes, Moves
<1>4. CASE Client
  <2>1. CASE \E r \in Registries : MakeRegistry(r)
    BY <2>1 DEF MakeRegistry
  <2>2. CASE \/ \E c \in Creds : DeleteCredential(c)
             \/ \E W \in SUBSET Wits : RotateWitnesses(W)
    BY <2>2 DEF DeleteCredential, RotateWitnesses
  <2>3. CASE \E c \in Creds : SealIssuance(c) \/ SealRevocation(c)
    <3>1. handler'.op = "process"
      BY <2>3 DEF SealIssuance, SealRevocation
    <3>2. QED
      BY <2>3, <3>1
  <2>4. QED
    BY <1>4, <2>1, <2>2, <2>3 DEF Client
<1>5. CASE RequestStep
  <2>1. CASE SealRegistry \/ ProcessTelEvent \/ AnchorMsg
    <3>1. handler'.op \in {"anc", "escrow"}
      BY <1>1, <2>1 DEF SealRegistry, ProcessTelEvent, AnchorMsg
    <3>2. QED
      BY <2>1, <3>1
  <2>2. CASE RefuseRegistry \/ RefuseTelEvent \/ SubmitOperation
    BY <1>2, <2>2 DEF RefuseRegistry, RefuseTelEvent, SubmitOperation
  <2>3. CASE EscrowTelEvent
    <3>1. handler' = [handler EXCEPT !.op = "cmse"] \/ handler' = Idle
      BY <2>3 DEF EscrowTelEvent
    <3>2. QED
      BY <1>2, <1>3, <3>1
  <2>4. CASE EscrowCredential \/ VerifyCredential
    BY <1>3, <2>4 DEF EscrowCredential, VerifyCredential
  <2>5. QED
    BY <1>5, <2>1, <2>2, <2>3, <2>4 DEF RequestStep
<1>6. CASE Others \/ Queues \/ UNCHANGED vars
  BY <1>6 DEF Others, Queues, Receipt, AcceptGroupEvent, ReceiptAll, StartCounselor, Counsel, vars
<1>7. CASE StartPass \/ Crash \/ Raise \/ NextStage
  BY <1>2, <1>3, <1>7 DEF StartPass, Crash, Raise, NextStage
<1>8. CASE PassStep /\ ~NextStage
  BY <1>8 DEF PassStep, AcceptTelEvent, SaveCredential, LeaveCredentialEscrow,
              LeaveWitnessEscrow, LeaveMultisigEscrow, DropMultisigEscrow, LeaveDissemination,
              EnterDissemination, Disseminate, CompleteCredential
<1>9. QED
  BY <1>4, <1>5, <1>6, <1>7, <1>8 DEF Next

-----------------------------------------------------------------------------
(* The KEL is appended to, and receipts are added *)

\* A key event that is added seals nothing, or a TEL event whose prior event is sealed.
LEMMA KelStep ==
  ASSUME TypeOK, HandlerInv, SealedInv, [Next]_vars
  PROVE  \/ kel' = kel
         \/ /\ Len(kel) < MaxEvents
            /\ \E t \in Tels \cup {None}, W \in SUBSET Wits :
                 /\ kel' = Append(kel, [tel |-> t, wits |-> W])
                 /\ t # None => Prior(t) \subseteq Anchored
<1> DEFINE Grown == \/ kel' = kel
                    \/ /\ Len(kel) < MaxEvents
                       /\ \E t \in Tels \cup {None}, W \in SUBSET Wits :
                            /\ kel' = Append(kel, [tel |-> t, wits |-> W])
                            /\ t # None => Prior(t) \subseteq Anchored
<1>1. ASSUME NEW t \in Tels, NEW n \in Events, SealIn(t, n), Prior(t) \subseteq Anchored
      PROVE  Grown
  <2>1. CASE IsGroup
    BY <1>1, <2>1 DEF SealIn
  <2>2. CASE ~IsGroup
    <3>1. kel' = Append(kel, [tel |-> t, wits |-> CurrentWits]) /\ Len(kel) < MaxEvents
      BY <1>1, <2>2, KelTypes, BoundAssumption DEF SealIn, Events
    <3>2. CurrentWits \in SUBSET Wits
      BY KelTypes
    <3>3. QED
      BY <1>1, <3>1, <3>2
  <2>3. QED
    BY <2>1, <2>2
<1>2. CASE \E c \in Creds : SealIssuance(c)
  <2> PICK c \in Creds : SealIssuance(c)
    BY <1>2
  <2>1. Prior(<<c, 0>>) = {<<RegistryOf[c], 0>>} /\ <<c, 0>> \in Tels
    BY TelFacts
  <2>2. <<RegistryOf[c], 0>> \in Anchored
    BY DEF SealIssuance, SealedInv
  <2>3. PICK n \in Events : SealIn(<<c, 0>>, n)
    BY DEF SealIssuance, Issuance
  <2>4. QED
    BY <1>1, <2>1, <2>2, <2>3
<1>3. CASE \E c \in Creds : SealRevocation(c)
  <2> PICK c \in Creds : SealRevocation(c)
    BY <1>3
  <2>1. Prior(<<c, 1>>) = {<<c, 0>>} /\ <<c, 1>> \in Tels
    BY TelFacts
  <2>2. <<c, 0>> \in Anchored
    BY DEF SealRevocation, SealedInv, Issuance
  <2>3. PICK n \in Events : SealIn(<<c, 1>>, n)
    BY DEF SealRevocation
  <2>4. QED
    BY <1>1, <2>1, <2>2, <2>3
<1>4. CASE SealRegistry
  <2>1. handler.tel \in Tels /\ handler.tel[1] \in Registries
    BY <1>4 DEF SealRegistry, HandlerInv, At, Passes
  <2>2. Prior(handler.tel) = {}
    BY <2>1, TelFacts
  <2>3. PICK n \in Events : SealIn(handler.tel, n)
    BY <1>4 DEF SealRegistry
  <2>4. QED
    BY <1>1, <2>1, <2>2, <2>3
<1>5. CASE \E W \in SUBSET Wits : RotateWitnesses(W)
  BY <1>5 DEF RotateWitnesses
<1>6. CASE \E t \in Tels \cup {None} : AcceptGroupEvent(t)
  BY <1>6, KelTypes DEF AcceptGroupEvent
<1> USE DEF keri
<1>7. CASE \/ \E r \in Registries : MakeRegistry(r)
           \/ \E c \in Creds : DeleteCredential(c)
           \/ RequestStep /\ ~SealRegistry
  BY <1>7 DEF MakeRegistry, DeleteCredential, RequestStep, RefuseRegistry, RefuseTelEvent, ProcessTelEvent,
              AnchorMsg, EscrowTelEvent, EscrowCredential, VerifyCredential, SubmitOperation
<1>8. CASE \/ \E n \in Events, w \in Wits : Receipt(n, w)
           \/ Queues \/ StartPass \/ Crash \/ Raise \/ UNCHANGED vars
  BY <1>8 DEF Queues, Receipt, ReceiptAll, StartCounselor, Counsel, StartPass, Crash, Raise, vars
<1>9. CASE PassStep
  BY <1>9 DEF PassStep, NextStage, AcceptTelEvent, SaveCredential, LeaveCredentialEscrow,
              LeaveWitnessEscrow, LeaveMultisigEscrow, DropMultisigEscrow, LeaveDissemination,
              EnterDissemination, Disseminate, CompleteCredential
<1>10. QED
  BY <1>2, <1>3, <1>4, <1>5, <1>6, <1>7, <1>8, <1>9 DEF Next, Client, Others

\* What is sealed or receipted stays so.
LEMMA Grows ==
  ASSUME TypeOK, TypeOK', HandlerInv, SealedInv, [Next]_vars
  PROVE  /\ \A n \in DOMAIN kel : n \in DOMAIN kel' /\ kel'[n] = kel[n]
         /\ Len(kel) <= Len(kel')
         /\ Anchored \subseteq Anchored'
         /\ \A n \in Events : wigs[n] \subseteq wigs'[n]
         /\ \A t, n : Sealed(t, n) => Sealed(t, n)'
         /\ \A t, n : Receipted(t, n) => Receipted(t, n)'
<1>1. /\ \A n \in DOMAIN kel : n \in DOMAIN kel' /\ kel'[n] = kel[n]
      /\ Len(kel) <= Len(kel')
      /\ Anchored \subseteq Anchored'
  <2>1. CASE kel' = kel
    BY <2>1, KelTypes DEF Anchored
  <2>2. CASE kel' # kel
    <3>1. PICK t \in Tels \cup {None}, W \in SUBSET Wits : kel' = Append(kel, [tel |-> t, wits |-> W])
      BY <2>2, KelStep
    <3>2. Len(kel) < MaxEvents
      BY <2>2, KelStep
    <3>3. QED
      BY <3>1, <3>2, KelGrows, KelTypes
  <2>3. QED
    BY <2>1, <2>2
<1>2. \A n \in Events : wigs[n] \subseteq wigs'[n]
  <2>1. wigs' = wigs \/ \E n \in Events, w \in Wits : Receipt(n, w)
    BY Changes
  <2>2. QED
    BY <2>1 DEF Receipt, TypeOK
<1>3. \A t, n : Sealed(t, n) => Sealed(t, n)'
  BY <1>1 DEF Sealed
<1>4. ASSUME NEW t, NEW n, Receipted(t, n)
      PROVE  Receipted(t, n)'
  <2>1. PICK k \in n..Len(kel) : Cardinality(wigs[n]) >= Cardinality(kel[k].wits)
    BY <1>4 DEF Receipted
  <2>2. n \in DOMAIN kel /\ n \in Events /\ n \in Nat /\ n > 0 /\ Len(kel) \in Nat
    BY <1>4, KelTypes, BoundAssumption DEF Receipted, Sealed, Events
  <2>3. k \in DOMAIN kel
    BY <2>2, KelTypes
  <2>4. kel[k].wits \in SUBSET Wits /\ wigs[n] \in SUBSET Wits /\ wigs'[n] \in SUBSET Wits
    BY <2>2, <2>3, KelTypes DEF TypeOK
  <2>5. Cardinality(wigs[n]) <= Cardinality(wigs'[n]) /\ Cardinality(wigs[n]) \in Nat
        /\ Cardinality(wigs'[n]) \in Nat /\ Cardinality(kel[k].wits) \in Nat
    BY <1>2, <2>2, <2>4, WitCards
  <2>6. Cardinality(wigs'[n]) >= Cardinality(kel'[k].wits)
    BY <1>1, <2>1, <2>3, <2>5
  <2>7. k \in n..Len(kel')
    BY <1>1, <2>2, <2>3, KelTypes DEF TypeOK, Events
  <2>8. QED
    BY <1>3, <1>4, <2>6, <2>7 DEF Receipted
<1>5. QED
  BY <1>1, <1>2, <1>3, <1>4

-----------------------------------------------------------------------------
(* What is sealed *)

\* Every step names only key events that seal the TEL event at hand.
LEMMA SealedInvStep ==
  ASSUME TypeOK, TypeOK', HandlerInv, SealedInv, [Next]_vars
  PROVE  SealedInv'
<1>1. \A t, n : Sealed(t, n) => Sealed(t, n)'
  BY Grows
<1>2. ASSUME NEW t \in Tels, anc'[t] # 0
      PROVE  Sealed(t, anc[t])'
  <2>1. CASE anc' = anc
    BY <1>1, <1>2, <2>1 DEF SealedInv
  <2>2. ASSUME NEW s \in Tels, NEW n, Sealed(s, n), anc' = [anc EXCEPT ![s] = IF @ = 0 THEN n ELSE @]
        PROVE  Sealed(t, anc[t])'
    <3>1. CASE t = s /\ anc[s] = 0
      <4>1. anc'[t] = n
        BY <2>2, <3>1 DEF TypeOK
      <4>2. Sealed(t, n)'
        BY <1>1, <2>2, <3>1
      <4>3. QED
        BY <4>1, <4>2 DEF Sealed
    <3>2. CASE ~(t = s /\ anc[s] = 0)
      <4>1. anc'[t] = anc[t]
        BY <2>2, <3>2 DEF TypeOK
      <4>2. Sealed(t, anc[t])
        BY <1>2, <4>1 DEF SealedInv
      <4>3. QED
        BY <1>1, <4>1, <4>2 DEF Sealed
    <3>3. QED
      BY <3>1, <3>2
  <2>3. CASE AnchorMsg
    <3>1. handler.tel \in Tels /\ Sealed(handler.tel, handler.sn)
      BY <2>3 DEF AnchorMsg, SealedInv, HandlerInv, At, Passes
    <3>2. QED
      BY <2>2, <2>3, <3>1 DEF AnchorMsg
  <2>4. CASE \E e \in Entries : LeaveMultisigEscrow(e)
    <3> PICK e \in Entries : LeaveMultisigEscrow(e)
      BY <2>4
    <3>1. e[1] \in Tels /\ Sealed(e[1], e[2])
      BY DEF LeaveMultisigEscrow, Settled, SealedInv, Sealed, Entries
    <3>2. QED
      BY <2>2, <3>1 DEF LeaveMultisigEscrow
  <2>5. QED
    BY <2>1, <2>3, <2>4, Changes
<1>3. ASSUME NEW t \in tels'
      PROVE  t \in Anchored' /\ Prior(t) \subseteq tels'
  <2>1. CASE tels' = tels
    BY <1>3, <2>1, Grows DEF SealedInv
  <2>2. CASE \E s \in Tels : AcceptTelEvent(s)
    <3> PICK s \in Tels : AcceptTelEvent(s)
      BY <2>2
    <3>1. s \in Anchored /\ Prior(s) \subseteq tels
      BY NoneAssumption DEF AcceptTelEvent, Acceptable, Anchored
    <3>2. QED
      BY <1>3, <3>1, Grows DEF AcceptTelEvent, SealedInv
  <2>3. QED
    BY <2>1, <2>2, Changes
<1>4. ASSUME NEW c \in saved'
      PROVE  Issuance(c) \in tels'
  <2>1. tels \subseteq tels'
    BY Changes DEF AcceptTelEvent
  <2>2. c \in saved \/ Issuance(c) \in tels
    BY <1>4, Changes DEF SaveCredential, Verifiable
  <2>3. QED
    BY <2>1, <2>2 DEF SealedInv
<1>5. ASSUME NEW e \in tpwe'
      PROVE  Sealed(e[1], e[2])'
  <2>1. CASE tpwe' \subseteq tpwe
    BY <1>1, <1>5, <2>1 DEF SealedInv
  <2>2. CASE EscrowTelEvent /\ ~IsGroup
    <3>1. Sealed(handler.tel, handler.sn)
      BY <2>2 DEF EscrowTelEvent, SealedInv, At
    <3>2. e \in tpwe \/ e = <<handler.tel, handler.sn>>
      BY <1>5, <2>2 DEF EscrowTelEvent
    <3>3. Sealed(e[1], e[2])
      BY <3>1, <3>2 DEF SealedInv
    <3>4. QED
      BY <1>1, <3>3
  <2>3. QED
    BY <2>1, <2>2, Changes DEF EscrowTelEvent, LeaveWitnessEscrow
<1>6. ASSUME At("anc")' \/ (~IsGroup /\ handler'.op \in {"process", "escrow"})
      PROVE  Sealed(handler.tel, handler.sn)'
  <2>1. CASE handler' = handler
    BY <1>1, <1>6, <2>1 DEF SealedInv, At, Sealed
  <2>2. handler \in [op : HandlerOps, tel : Tels \cup {None}, sn : Events]
    BY DEF TypeOK, Handlers
  <2>3. ASSUME ~IsGroup, NEW t \in Tels, NEW n \in Events, SealIn(t, n), handler'.tel = t, handler'.sn = n
        PROVE  Sealed(handler.tel, handler.sn)'
    <3>1. kel' = Append(kel, [tel |-> t, wits |-> CurrentWits]) /\ n = Len(kel) + 1
      BY <2>3 DEF SealIn
    <3>2. Len(kel) < MaxEvents /\ CurrentWits \in SUBSET Wits
      BY <2>3, <3>1, KelTypes, BoundAssumption DEF Events
    <3>3. n \in DOMAIN kel' /\ kel'[n].tel = t
      BY <3>1, <3>2, KelGrows
    <3>4. QED
      BY <2>3, <3>3 DEF Sealed
  <2>4. CASE \E c \in Creds : SealIssuance(c) \/ SealRevocation(c)
    <3>1. PICK t \in Tels, n \in Events : SealIn(t, n) /\ Handle("process", t, n)
      BY <2>4, TelFacts DEF SealIssuance, SealRevocation, Issuance
    <3>2. ~IsGroup
      BY <1>6, <3>1 DEF Handle, At
    <3>3. QED
      BY <2>3, <3>1, <3>2 DEF Handle
  <2>5. CASE SealRegistry
    <3>1. PICK n \in Events : SealIn(handler.tel, n)
                              /\ handler' = [handler EXCEPT !.op = IF IsGroup THEN "escrow" ELSE "anc", !.sn = n]
      BY <2>5 DEF SealRegistry
    <3>2. handler'.tel = handler.tel /\ handler'.sn = n /\ handler'.op = IF IsGroup THEN "escrow" ELSE "anc"
      BY <2>2, <3>1
    <3>3. ~IsGroup
      BY <1>6, <3>2 DEF At
    <3>4. handler.tel \in Tels
      BY <2>5 DEF SealRegistry, HandlerInv, At, Passes
    <3>5. QED
      BY <2>3, <3>1, <3>2, <3>3, <3>4
  <2>6. CASE ProcessTelEvent \/ AnchorMsg
    <3>1. handler'.tel = handler.tel /\ handler'.sn = handler.sn
      BY <2>2, <2>6 DEF ProcessTelEvent, AnchorMsg, Goto
    <3>2. At("anc") \/ (At("process") /\ ~IsGroup)
      <4>1. CASE AnchorMsg
        BY <4>1 DEF AnchorMsg
      <4>2. CASE ProcessTelEvent /\ IsGroup
        <5>1. handler'.op = "escrow"
          BY <2>2, <4>2 DEF ProcessTelEvent, Goto
        <5>2. QED
          BY <1>6, <4>2, <5>1 DEF At
      <4>3. CASE ProcessTelEvent /\ ~IsGroup
        BY <4>3 DEF ProcessTelEvent
      <4>4. QED
        BY <2>6, <4>1, <4>2, <4>3
    <3>3. Sealed(handler.tel, handler.sn)
      BY <3>2 DEF SealedInv, At
    <3>4. QED
      BY <1>1, <3>1, <3>3 DEF Sealed
  <2>7. handler'.op \in {"process", "anc", "escrow"}
    BY <1>6 DEF At
  <2>8. QED
    BY <2>1, <2>4, <2>5, <2>6, <2>7, HandlerChanges
<1>7. ASSUME NEW n \in counseled'
      PROVE  n \in DOMAIN kel' /\ kel'[n].wits \subseteq wigs'[n]
  <2>1. n \in DOMAIN kel /\ kel[n].wits \subseteq wigs[n]
    BY <1>7, Changes DEF Counsel, SealedInv
  <2>2. n \in Events
    BY <2>1, KelTypes
  <2>3. QED
    BY <2>1, <2>2, Grows
<1>8. QED
  BY <1>2, <1>3, <1>4, <1>5, <1>6, <1>7 DEF SealedInv
-----------------------------------------------------------------------------
(* What is receipted *)

\* Only a receipted TEL event gets to tede, and from there to ctel.
LEMMA ReceiptedInvStep ==
  ASSUME TypeOK, TypeOK', HandlerInv, SealedInv, ReceiptedInv, [Next]_vars
  PROVE  ReceiptedInv'
<1>1. \A t, n : Receipted(t, n) => Receipted(t, n)'
  BY Grows
<1>2. ASSUME NEW e \in tede'
      PROVE  Receipted(e[1], e[2])'
  <2>1. CASE e \in tede
    BY <1>1, <2>1 DEF ReceiptedInv
  <2>2. CASE EnterDissemination /\ e = <<handler.tel, handler.sn>>
    <3>1. Receipted(handler.tel, handler.sn)
      BY <2>2 DEF EnterDissemination, ReceiptedInv
    <3>2. QED
      BY <1>1, <2>2, <3>1
  <2>3. QED
    BY <1>2, <2>1, <2>2, Changes DEF EnterDissemination, LeaveDissemination
<1>3. ASSUME At("to-tede")' \/ At("to-ctel")'
      PROVE  Receipted(handler.tel, handler.sn)'
  <2>1. CASE handler' = handler
    <3>1. Receipted(handler.tel, handler.sn)
      BY <1>3, <2>1 DEF ReceiptedInv, At
    <3>2. QED
      BY <1>1, <2>1, <3>1 DEF Receipted, Sealed
  <2>2. ASSUME NEW e \in Entries, Receipted(e[1], e[2]), handler'.tel = e[1], handler'.sn = e[2]
        PROVE  Receipted(handler.tel, handler.sn)'
    BY <1>1, <2>2 DEF Receipted, Sealed
  <2>3. CASE \E e \in Entries : LeaveWitnessEscrow(e)
    <3> PICK e \in Entries : LeaveWitnessEscrow(e)
      BY <2>3
    <3> DEFINE n == e[2]
    <3>1. Sealed(e[1], n)
      BY DEF LeaveWitnessEscrow, Witnessed, Counted, SealedInv
    <3>2. n \in 1..Len(kel) /\ n \in Events /\ Len(kel) \in n..Len(kel)
      BY <3>1, KelTypes DEF Sealed
    <3>3. wigs[n] \in SUBSET Wits /\ CurrentWits \in SUBSET Wits
      BY <3>2, KelTypes DEF TypeOK
    <3>4. Cardinality(wigs[n]) \in Nat /\ Cardinality(CurrentWits) \in Nat
          /\ (CurrentWits = {} => Cardinality(CurrentWits) = 0)
      BY <3>3, WitCards
    <3>5. CurrentWits = {} \/ Cardinality(wigs[n]) = Cardinality(CurrentWits)
      BY DEF LeaveWitnessEscrow, Witnessed, Counted
    <3>6. Cardinality(wigs[n]) >= Cardinality(CurrentWits)
      BY <3>4, <3>5
    <3>7. Receipted(e[1], n)
      BY <3>1, <3>2, <3>6 DEF Receipted, CurrentWits
    <3>8. handler'.tel = e[1] /\ handler'.sn = n
      BY DEF LeaveWitnessEscrow, Handle
    <3>9. QED
      BY <2>2, <3>7, <3>8
  <2>4. CASE \E e \in Entries : LeaveMultisigEscrow(e)
    <3> PICK e \in Entries : LeaveMultisigEscrow(e)
      BY <2>4
    <3> DEFINE n == e[2]
    <3>1. n \in DOMAIN kel /\ kel[n].wits \subseteq wigs[n] /\ kel[n].tel = e[1]
      BY DEF LeaveMultisigEscrow, Settled, SealedInv
    <3>2. n \in 1..Len(kel) /\ n \in Events /\ n \in n..Len(kel)
      BY <3>1, KelTypes
    <3>3. wigs[n] \in SUBSET Wits /\ kel[n].wits \in SUBSET Wits
      BY <3>1, <3>2, KelTypes DEF TypeOK
    <3>4. Cardinality(wigs[n]) \in Nat /\ Cardinality(kel[n].wits) \in Nat
          /\ Cardinality(kel[n].wits) <= Cardinality(wigs[n])
      BY <3>1, <3>3, WitCards
    <3>5. Cardinality(wigs[n]) >= Cardinality(kel[n].wits)
      BY <3>4
    <3>6. Receipted(e[1], n)
      BY <3>1, <3>2, <3>5 DEF Receipted, Sealed
    <3>7. handler'.tel = e[1] /\ handler'.sn = n
      BY DEF LeaveMultisigEscrow, Handle
    <3>8. QED
      BY <2>2, <3>6, <3>7
  <2>5. CASE \E e \in Entries : LeaveDissemination(e)
    <3> PICK e \in Entries : LeaveDissemination(e)
      BY <2>5
    <3>1. Receipted(e[1], e[2])
      BY DEF LeaveDissemination, Disseminable, ReceiptedInv
    <3>2. handler'.tel = e[1] /\ handler'.sn = e[2]
      BY DEF LeaveDissemination, Handle
    <3>3. QED
      BY <2>2, <3>1, <3>2
  <2>6. QED
    BY <1>3, <2>1, <2>3, <2>4, <2>5, HandlerChanges DEF At
<1>4. DisseminatedIsWitnessed'
  <2>1. SUFFICES ASSUME NEW t \in ctel' PROVE \E n : Receipted(t, n)'
    BY DEF DisseminatedIsWitnessed, Receipted, Sealed
  <2>2. \E n : Receipted(t, n)
    <3>1. CASE t \in ctel
      BY <3>1 DEF ReceiptedInv, DisseminatedIsWitnessed, Receipted, Sealed
    <3>2. CASE Disseminate /\ t = handler.tel
      BY <3>2 DEF Disseminate, ReceiptedInv
    <3>3. QED
      BY <2>1, <3>1, <3>2, Changes DEF Disseminate
  <2>3. QED
    BY <1>1, <2>2
<1>5. QED
  BY <1>2, <1>3, <1>4 DEF ReceiptedInv

-----------------------------------------------------------------------------
(* One escrow at a time *)

\* A new anchoring event is in no escrow yet, and a move takes an entry out before it puts it in.
LEMMA OnceInvStep ==
  ASSUME TypeOK, TypeOK', HandlerInv, SealedInv, ReceiptedInv, OnceInv, [Next]_vars
  PROVE  OnceInv'
<1> DEFINE entry == <<handler.tel, handler.sn>>
           Early(op) == op \in {"process", "anc", "escrow"}
           Late(op) == op \in {"to-tede", "to-ctel"}
<1>1. handler \in [op : HandlerOps, tel : Tels \cup {None}, sn : Events]
  BY DEF TypeOK, Handlers
<1>2. ASSUME IsGroup PROVE ~At("anc")'
  <2>1. CASE handler' = handler
    BY <1>2, <2>1 DEF OnceInv, At
  <2>2. CASE \E c \in Creds : SealIssuance(c) \/ SealRevocation(c)
    BY <2>2 DEF SealIssuance, SealRevocation, Handle, At
  <2>3. CASE SealRegistry \/ ProcessTelEvent \/ AnchorMsg
    <3>1. handler'.op = "escrow"
      BY <1>1, <1>2, <2>3 DEF SealRegistry, ProcessTelEvent, AnchorMsg, Goto
    <3>2. QED
      BY <3>1 DEF At
  <2>4. QED
    BY <2>1, <2>2, <2>3, HandlerChanges DEF At
<1>3. SUFFICES ASSUME ~IsGroup
      PROVE  /\ tmse' = {} /\ tpwe' \cap tede' = {}
             /\ Early(handler'.op) \/ Late(handler'.op) => entry' \notin tpwe' \cup tede'
  BY <1>2 DEF OnceInv, EscrowedOnce, At
<1>4. /\ tmse = {} /\ tpwe \cap tede = {}
      /\ Early(handler.op) \/ Late(handler.op) => entry \notin tpwe \cup tede
  BY <1>3 DEF OnceInv, EscrowedOnce, At
<1>5. \A e \in tpwe \cup tede : e \in Entries /\ e = <<e[1], e[2]>> /\ e[2] \in DOMAIN kel
  BY DEF SealedInv, ReceiptedInv, Receipted, Sealed, TypeOK, Entries
<1>6. ~\E e \in Entries : LeaveMultisigEscrow(e)
  BY <1>4 DEF LeaveMultisigEscrow, Settled
<1> HIDE DEF entry
<1>7. tmse' = {}
  <2> USE <1>3, <1>4 DEF keri, memory, tever, escrow, cred, vars
  <2>1. CASE Client
    BY <2>1 DEF Client, MakeRegistry, SealIssuance, SealRevocation, DeleteCredential, RotateWitnesses
  <2>2. CASE RequestStep
    BY <2>2 DEF RequestStep, SealRegistry, RefuseRegistry, RefuseTelEvent, ProcessTelEvent, AnchorMsg,
                EscrowTelEvent, EscrowCredential, VerifyCredential, SubmitOperation
  <2>3. CASE Others \/ Queues \/ StartPass \/ Crash \/ Raise \/ UNCHANGED vars
    BY <2>3 DEF Others, Queues, Receipt, AcceptGroupEvent, ReceiptAll, StartCounselor, Counsel,
                StartPass, Crash, Raise
  <2>4. CASE PassStep
    BY <2>4 DEF PassStep, NextStage, AcceptTelEvent, SaveCredential, LeaveCredentialEscrow,
                LeaveWitnessEscrow, LeaveMultisigEscrow, DropMultisigEscrow, LeaveDissemination,
                WithoutTelEvent, EnterDissemination, Disseminate, CompleteCredential
  <2>5. QED
    BY <2>1, <2>2, <2>3, <2>4 DEF Next
<1>8. CASE EscrowTelEvent
  <2>1. tpwe' = tpwe \cup {entry} /\ tede' = tede /\ entry \notin tede
    BY <1>3, <1>4, <1>8 DEF EscrowTelEvent, At, entry
  <2>2. handler' = [handler EXCEPT !.op = "cmse"] \/ handler' = Idle
    BY <1>8 DEF EscrowTelEvent, Goto, Finish
  <2>3. ~Early(handler'.op) /\ ~Late(handler'.op)
    BY <1>1, <2>2 DEF Idle
  <2>4. QED
    BY <1>4, <1>7, <2>1, <2>3
<1>9. CASE \E e \in Entries : LeaveWitnessEscrow(e)
  <2> PICK e \in Entries : LeaveWitnessEscrow(e)
    BY <1>9
  <2>1. e \in tpwe /\ tpwe' \subseteq tpwe /\ e \notin tpwe' /\ tede' = tede
    BY DEF LeaveWitnessEscrow, Witnessed, Counted
  <2>2. handler' = [op |-> "to-tede", tel |-> e[1], sn |-> e[2]] /\ e = <<e[1], e[2]>>
    BY DEF LeaveWitnessEscrow, Handle, Entries
  <2>3. entry' = e
    BY <2>2 DEF entry
  <2>4. QED
    BY <1>4, <1>7, <2>1, <2>3
<1>10. CASE EnterDissemination
  <2>1. tede' = tede \cup {entry} /\ tpwe' = tpwe /\ entry \notin tpwe
    BY <1>4, <1>10 DEF EnterDissemination, At, entry
  <2>2. handler'.op = "tpwe"
    BY <1>3, <1>10 DEF EnterDissemination
  <2>3. QED
    BY <1>4, <1>7, <2>1, <2>2
<1>11. CASE \E e \in Entries : LeaveDissemination(e)
  <2> PICK e \in Entries : LeaveDissemination(e)
    BY <1>11
  <2>1. e \in tede /\ tede' \subseteq tede /\ e \notin tede' /\ tpwe' = tpwe
    BY DEF LeaveDissemination, Disseminable
  <2>2. handler' = [op |-> "to-ctel", tel |-> e[1], sn |-> e[2]] /\ e = <<e[1], e[2]>>
    BY DEF LeaveDissemination, Handle, Entries
  <2>3. entry' = e
    BY <2>2 DEF entry
  <2>4. QED
    BY <1>4, <1>7, <2>1, <2>3
<1>12. CASE UNCHANGED <<tpwe, tede>>
  <2>1. CASE handler' = handler
    BY <1>4, <1>7, <1>12, <2>1 DEF entry
  <2>2. ASSUME NEW t \in Tels, NEW n \in Events, SealIn(t, n), handler'.tel = t, handler'.sn = n
        PROVE  entry' \notin tpwe' \cup tede'
    <3>1. n \notin DOMAIN kel
      BY <1>3, <2>2, KelTypes DEF SealIn
    <3>2. entry' = <<t, n>>
      BY <2>2 DEF entry
    <3>3. QED
      BY <1>5, <1>12, <3>1, <3>2
  <2>3. CASE \E c \in Creds : SealIssuance(c) \/ SealRevocation(c)
    <3>1. PICK t \in Tels, n \in Events : SealIn(t, n) /\ Handle("process", t, n)
      BY <2>3, TelFacts DEF SealIssuance, SealRevocation, Issuance
    <3>2. QED
      BY <1>4, <1>7, <1>12, <2>2, <3>1 DEF Handle
  <2>4. CASE SealRegistry
    <3>1. PICK n \in Events : SealIn(handler.tel, n)
                              /\ handler' = [handler EXCEPT !.op = IF IsGroup THEN "escrow" ELSE "anc", !.sn = n]
      BY <2>4 DEF SealRegistry
    <3>2. handler'.tel = handler.tel /\ handler'.sn = n
      BY <1>1, <3>1
    <3>3. handler.tel \in Tels
      BY <2>4 DEF SealRegistry, HandlerInv, At, Passes
    <3>4. QED
      BY <1>4, <1>7, <1>12, <2>2, <3>1, <3>2, <3>3
  <2>5. CASE ProcessTelEvent \/ AnchorMsg
    <3>1. entry' = entry
      BY <1>1, <2>5 DEF ProcessTelEvent, AnchorMsg, Goto, entry
    <3>2. Early(handler.op)
      BY <2>5 DEF ProcessTelEvent, AnchorMsg, At
    <3>3. QED
      BY <1>4, <1>7, <1>12, <3>1, <3>2
  <2>6. CASE handler' # handler /\ ~Early(handler'.op)
    <3>1. CASE Late(handler'.op)
      BY <1>6, <1>9, <1>11, <2>6, <3>1, HandlerChanges
    <3>2. QED
      BY <1>4, <1>7, <1>12, <2>6, <3>1
  <2>7. QED
    BY <2>1, <2>3, <2>4, <2>5, <2>6, HandlerChanges
<1>13. QED
  BY <1>8, <1>9, <1>10, <1>11, <1>12, Changes
-----------------------------------------------------------------------------
(* Nothing is lost *)

\* Only the next step of a handler takes it on, unless the process stops.
LEMMA HandlerLeaves ==
  ASSUME [Next]_vars, handler' # handler, crashes' = crashes, TypeOK
  PROVE  /\ At("escrow") => EscrowTelEvent
         /\ At("to-tede") => EnterDissemination
         /\ At("to-ctel") => Disseminate
         /\ At("to-ccrd") => CompleteCredential
<1> USE DEF At, Serving, Idle
<1>1. CASE Client
  <2>1. handler = Idle
    BY <1>1 DEF Client, MakeRegistry, SealIssuance, SealRevocation, DeleteCredential, RotateWitnesses
  <2>2. QED
    BY <2>1
<1>2. CASE RequestStep
  BY <1>2 DEF RequestStep, SealRegistry, RefuseRegistry, RefuseTelEvent, ProcessTelEvent, AnchorMsg,
              EscrowTelEvent, EscrowCredential, VerifyCredential, SubmitOperation
<1>3. CASE Others \/ Queues \/ UNCHANGED vars
  BY <1>3 DEF Others, Queues, Receipt, AcceptGroupEvent, ReceiptAll, StartCounselor, Counsel, vars
<1>4. CASE Crash \/ Raise
  BY <1>4 DEF Crash, Raise, TypeOK
<1>5. CASE StartPass \/ PassStep
  BY <1>5 DEF StartPass, PassStep, NextStage, AcceptTelEvent, SaveCredential, LeaveCredentialEscrow,
              LeaveWitnessEscrow, LeaveMultisigEscrow, DropMultisigEscrow, LeaveDissemination,
              EnterDissemination, Disseminate, CompleteCredential
<1>6. QED
  BY <1>1, <1>2, <1>3, <1>4, <1>5 DEF Next

\* Unless the process stops, every move is finished.
LEMMA TrackedInvStep ==
  ASSUME TypeOK, TypeOK', HandlerInv, HandlerInv', OnceInv, TrackedInv, [Next]_vars
  PROVE  TrackedInv'
<1> SUFFICES ASSUME crashes' = 0 PROVE TrackedInv'
  BY DEF TrackedInv
<1>1. crashes = 0 /\ crashes' = crashes
  BY Changes, BoundAssumption DEF TypeOK
<1>2. handler \in [op : HandlerOps, tel : Tels \cup {None}, sn : Events]
  BY DEF TypeOK, Handlers
<1>3. ASSUME NEW t \in Tels, anc'[t] # 0
      PROVE  Tracked(t)' \/ (~IsGroup /\ At("escrow")' /\ handler'.tel = t)
  <2>1. anc[t] # 0 => Tracked(t) \/ (~IsGroup /\ At("escrow") /\ handler.tel = t)
    BY <1>1 DEF TrackedInv
  <2>2. CASE AnchorMsg
    <3>1. handler'.op = "escrow" /\ handler'.tel = handler.tel /\ At("anc")
      BY <1>2, <2>2 DEF AnchorMsg, Goto, HandlerOps
    <3>2. CASE t = handler.tel
      BY <3>1, <3>2 DEF OnceInv, At
    <3>3. CASE t # handler.tel
      <4>1. anc'[t] = anc[t]
        BY <2>2, <3>3 DEF AnchorMsg, TypeOK
      <4>2. Tracked(t)
        BY <1>3, <2>1, <3>1, <4>1 DEF At
      <4>3. UNCHANGED <<tpwe, tede, ctel>> /\ handler.op \notin Moves
        BY <2>2 DEF AnchorMsg, escrow, Moves, At
      <4>4. QED
        BY <4>2, <4>3 DEF Tracked, Moving
    <3>4. QED
      BY <3>2, <3>3
  <2>3. CASE \E e \in Entries : LeaveMultisigEscrow(e)
    <3> PICK e \in Entries : LeaveMultisigEscrow(e)
      BY <2>3
    <3>1. UNCHANGED <<tpwe, tede, ctel>> /\ handler.op = "tmse"
      BY DEF LeaveMultisigEscrow, At
    <3>2. Moving' = {e[1]} /\ Moving = {}
      BY <3>1 DEF LeaveMultisigEscrow, Handle, Moving, Moves
    <3>3. CASE t = e[1]
      BY <3>2, <3>3 DEF Tracked
    <3>4. CASE t # e[1]
      <4>1. anc'[t] = anc[t]
        BY <3>4 DEF LeaveMultisigEscrow, TypeOK
      <4>2. QED
        BY <1>3, <2>1, <3>1, <3>2, <4>1 DEF Tracked, At
    <3>5. QED
      BY <3>3, <3>4
  <2>4. CASE EscrowTelEvent /\ ~IsGroup
    <3>1. tpwe' = tpwe \cup {<<handler.tel, handler.sn>>} /\ UNCHANGED <<tede, ctel, anc>>
      BY <2>4 DEF EscrowTelEvent, tever
    <3>2. Moving = {}
      BY <2>4 DEF EscrowTelEvent, At, Moving, Moves
    <3>3. CASE t = handler.tel
      <4> DEFINE entry == <<handler.tel, handler.sn>>
      <4>1. entry \in tpwe' /\ entry[1] = t
        BY <3>1, <3>3
      <4>2. QED
        BY <4>1 DEF Tracked
    <3>4. CASE t # handler.tel
      BY <1>3, <2>1, <3>1, <3>2, <3>4 DEF Tracked
    <3>5. QED
      BY <3>3, <3>4
  <2>5. CASE \E e \in Entries : LeaveWitnessEscrow(e)
    <3> PICK e \in Entries : LeaveWitnessEscrow(e)
      BY <2>5
    <3>1. UNCHANGED <<tede, ctel, anc>> /\ tpwe' = {d \in tpwe : d[1] # e[1]} /\ handler.op = "tpwe"
      BY DEF LeaveWitnessEscrow, At, tever
    <3>2. Moving' = {e[1]} /\ Moving = {}
      BY <3>1 DEF LeaveWitnessEscrow, Handle, Moving, Moves
    <3>3. QED
      BY <1>3, <2>1, <3>1, <3>2 DEF Tracked, At
  <2>6. CASE \E e \in Entries : LeaveDissemination(e)
    <3> PICK e \in Entries : LeaveDissemination(e)
      BY <2>6
    <3>1. UNCHANGED <<tpwe, ctel, anc>> /\ tede' = {d \in tede : d[1] # e[1]} /\ handler.op = "tede"
      BY DEF LeaveDissemination, At, tever
    <3>2. Moving' = {e[1]} /\ Moving = {}
      BY <3>1 DEF LeaveDissemination, Handle, Moving, Moves
    <3>3. QED
      BY <1>3, <2>1, <3>1, <3>2 DEF Tracked, At
  <2>7. CASE EnterDissemination
    <3>1. UNCHANGED <<tpwe, ctel, anc>> /\ tede' = tede \cup {<<handler.tel, handler.sn>>} /\ handler.op = "to-tede"
      BY <2>7 DEF EnterDissemination, At, tever
    <3>2. Moving = {handler.tel}
      BY <3>1 DEF Moving, Moves
    <3>3. CASE t = handler.tel
      <4> DEFINE entry == <<handler.tel, handler.sn>>
      <4>1. entry \in tede' /\ entry[1] = t
        BY <3>1, <3>3
      <4>2. QED
        BY <4>1 DEF Tracked
    <3>4. CASE t # handler.tel
      BY <1>3, <2>1, <3>1, <3>2, <3>4 DEF Tracked, At
    <3>5. QED
      BY <3>3, <3>4
  <2>8. CASE Disseminate
    <3>1. UNCHANGED <<tpwe, tede, anc>> /\ ctel' = ctel \cup {handler.tel} /\ handler.op = "to-ctel"
      BY <2>8 DEF Disseminate, At, tever
    <3>2. Moving = {handler.tel}
      BY <3>1 DEF Moving, Moves
    <3>3. QED
      BY <1>3, <2>1, <3>1, <3>2 DEF Tracked, At
  <2>9. CASE UNCHANGED <<tpwe, tede, ctel, anc>> /\ ~(EscrowTelEvent /\ ~IsGroup)
    <3>1. Tracked(t) \/ (~IsGroup /\ At("escrow") /\ handler.tel = t)
      BY <1>3, <2>1, <2>9
    <3>2. CASE handler' = handler
      BY <2>9, <3>1, <3>2 DEF Tracked, Moving, At
    <3>3. CASE handler' # handler
      <4>1. Tracked(t)
        BY <1>1, <2>9, <3>1, <3>3, HandlerLeaves
      <4>2. CASE handler.op \notin Moves
        BY <2>9, <4>1, <4>2 DEF Tracked, Moving
      <4>3. CASE handler.op \in Moves
        <5>1. CASE At("to-tede")
          BY <1>1, <2>7, <3>3, <5>1, HandlerLeaves
        <5>2. CASE At("to-ctel")
          BY <1>1, <2>8, <3>3, <5>2, HandlerLeaves
        <5>3. CASE At("to-ccrd")
          <6>1. handler.tel \in ctel
            BY <5>3 DEF HandlerInv
          <6>2. QED
            BY <2>9, <4>1, <6>1 DEF Tracked, Moving
        <5>4. QED
          BY <4>3, <5>1, <5>2, <5>3 DEF Moves, At
      <4>4. QED
        BY <4>2, <4>3
    <3>4. QED
      BY <3>2, <3>3
  <2>10. QED
    <3>1. EscrowTelEvent /\ IsGroup => UNCHANGED <<tpwe, tede, ctel, anc>>
      BY DEF EscrowTelEvent, tever
    <3>2. EnterDissemination \/ Disseminate \/ EscrowTelEvent \/ AnchorMsg
          \/ (\E e \in Entries : LeaveMultisigEscrow(e) \/ LeaveWitnessEscrow(e) \/ LeaveDissemination(e))
          \/ UNCHANGED <<tpwe, tede, ctel, anc>>
      BY Changes
    <3>3. QED
      BY <2>2, <2>3, <2>4, <2>5, <2>6, <2>7, <2>8, <2>9, <3>1, <3>2
<1>4. ASSUME NEW c \in ops'
      PROVE  c \in cmse' \cup ccrd' \/ (At("to-ccrd")' /\ handler'.tel = Issuance(c))
  <2>1. ccrd \subseteq ccrd'
    BY Changes DEF CompleteCredential
  <2>2. CASE SubmitOperation
    <3>1. handler.tel[1] \in cmse /\ cmse' = cmse /\ ccrd' = ccrd /\ ops' = ops \cup {handler.tel[1]}
      BY <2>2 DEF SubmitOperation, HandlerInv, At
    <3>2. c \in ops => c \in cmse \cup ccrd
      BY <1>1, <2>2 DEF SubmitOperation, TrackedInv, At
    <3>3. QED
      BY <1>4, <3>1, <3>2
  <2>3. CASE c \in ops
    <3>1. c \in cmse \cup ccrd \/ (At("to-ccrd") /\ handler.tel = Issuance(c))
      BY <1>1, <2>3 DEF TrackedInv
    <3>2. CASE At("to-ccrd") /\ handler.tel = Issuance(c)
      <4>1. CASE handler' = handler
        BY <3>2, <4>1 DEF At
      <4>2. CASE CompleteCredential
        <5>1. handler.tel[1] = c
          BY <3>2 DEF Issuance
        <5>2. QED
          BY <4>2, <5>1 DEF CompleteCredential
      <4>3. QED
        BY <1>1, <3>2, <4>1, <4>2, HandlerLeaves
    <3>3. CASE c \in cmse
      <4>1. CASE \E d \in Creds : LeaveCredentialEscrow(d)
        <5> PICK d \in Creds : LeaveCredentialEscrow(d)
          BY <4>1
        <5>1. handler' = [op |-> "to-ccrd", tel |-> Issuance(d), sn |-> 1] /\ cmse' = cmse \ {d}
          BY DEF LeaveCredentialEscrow, Handle
        <5>2. QED
          BY <3>3, <5>1 DEF At
      <4>2. CASE cmse \subseteq cmse'
        BY <3>3, <4>2
      <4>3. QED
        BY <4>1, <4>2, Changes DEF EscrowCredential
    <3>4. QED
      BY <2>1, <3>1, <3>2, <3>3
  <2>4. QED
    BY <1>4, <2>2, <2>3, Changes
<1>5. QED
  BY <1>3, <1>4 DEF TrackedInv
-----------------------------------------------------------------------------
(* The theorems *)

\* The invariant holds at first ...
LEMMA InitIInv == Init => IInv
<1> SUFFICES ASSUME Init PROVE IInv
  OBVIOUS
<1>1. PICK W \in SUBSET Wits : kel = <<[tel |-> None, wits |-> W]>>
  BY DEF Init
<1>2. kel \in Seq(KeyEvents) /\ Len(kel) = 1 /\ Len(kel) \in Events /\ kel[1].tel = None
  BY <1>1, BoundAssumption DEF KeyEvents, Events
<1>3. handler \in Handlers /\ handler.op = "idle"
  BY HandlerTypes DEF Init, Idle
<1>4. TypeOK
  BY <1>2, <1>3, BoundAssumption DEF Init, TypeOK, Events, Entries
<1>5. HandlerInv
  BY <1>3 DEF HandlerInv, At
<1>6. SealedInv
  BY <1>3 DEF Init, SealedInv, At
<1>7. ReceiptedInv
  BY <1>3 DEF Init, ReceiptedInv, DisseminatedIsWitnessed, At
<1>8. OnceInv
  BY <1>3 DEF Init, OnceInv, EscrowedOnce, At
<1>9. TrackedInv
  BY DEF Init, TrackedInv
<1>10. QED
  BY <1>4, <1>5, <1>6, <1>7, <1>8, <1>9 DEF IInv

\* ... and after every step, ...
LEMMA NextIInv == IInv /\ [Next]_vars => IInv'
<1> SUFFICES ASSUME IInv, [Next]_vars PROVE IInv'
  OBVIOUS
<1> USE DEF IInv
<1>1. TypeOK' /\ HandlerInv'
  BY TypeStep, HandlerInvStep
<1>2. SealedInv'
  BY <1>1, SealedInvStep
<1>3. ReceiptedInv'
  BY <1>1, ReceiptedInvStep
<1>4. OnceInv'
  BY <1>1, OnceInvStep
<1>5. TrackedInv'
  BY <1>1, TrackedInvStep
<1>6. QED
  BY <1>1, <1>2, <1>3, <1>4, <1>5

\* ... hence always: what the escrows, the KEL, the receipts and the handler know of each other agrees.
THEOREM Invariance == Spec => []IInv
  BY InitIInv, NextIInv, PTL DEF Spec

\* Every record and queue is of its type: in particular the handler never names a TEL event or a key
\* event that is none.
THEOREM TypeCorrect == Spec => []TypeOK
<1>1. IInv => TypeOK
  BY DEF IInv
<1>2. QED
  BY <1>1, Invariance, PTL

\* Whatever is cut short or lost, a TEL event is sent to the witnesses (Registrar.
\* processDiseminationEscrow) only when an event that seals it has as many receipts as the identifier
\* had witnesses then or since.
THEOREM WitnessedDissemination == Spec => []DisseminatedIsWitnessed
<1>1. IInv => DisseminatedIsWitnessed
  BY DEF IInv, ReceiptedInv
<1>2. QED
  BY <1>1, Invariance, PTL

\* No entry is in two of the Registrar's escrows, whenever the process stops.
THEOREM OneEscrow == Spec => []EscrowedOnce
<1>1. IInv => EscrowedOnce
  BY DEF IInv, OnceInv
<1>2. QED
  BY <1>1, Invariance, PTL

\* As long as the process does not stop, the Registrar and the Credentialer lose no TEL event and no
\* credential on the way from a request to its completion.
THEOREM NoLoss == Spec => []NothingLost
<1>1. IInv => NothingLost
  <2> SUFFICES ASSUME IInv, crashes = 0
               PROVE  /\ \A t \in Tels : anc[t] # 0 /\ ~(At("escrow") /\ handler.tel = t) =>
                           t \in {e[1] : e \in tpwe \cup tede} \cup Moving \cup ctel
                      /\ \A c \in ops : c \in cmse \cup ccrd \/ Issuance(c) \in Moving
    BY DEF NothingLost
  <2>1. \A t \in Tels : anc[t] # 0 => Tracked(t) \/ (~IsGroup /\ At("escrow") /\ handler.tel = t)
    BY DEF IInv, TrackedInv
  <2>2. \A t : Tracked(t) => t \in {e[1] : e \in tpwe \cup tede} \cup Moving \cup ctel
    BY DEF Tracked
  <2>3. \A c \in ops : c \in cmse \cup ccrd \/ (At("to-ccrd") /\ handler.tel = Issuance(c))
    BY DEF IInv, TrackedInv
  <2>4. At("to-ccrd") => handler.tel \in Moving
    BY DEF At, Moving, Moves
  <2>5. QED
    BY <2>1, <2>2, <2>3, <2>4
<1>2. QED
  BY <1>1, Invariance, PTL

\* A step of the agent is a step of the abstract life cycle, or leaves it alone.
LEMMA StepRefines == IInv /\ [Next]_vars => [Lifecycle!Next]_Lifecycle!vars
<1> SUFFICES ASSUME IInv, [Next]_vars PROVE [Lifecycle!Next]_Lifecycle!vars
  OBVIOUS
<1> USE DEF IInv
<1>1. CASE kel' # kel
  <2>1. PICK t \in Tels \cup {None}, W \in SUBSET Wits :
               /\ kel' = Append(kel, [tel |-> t, wits |-> W])
               /\ t # None => Prior(t) \subseteq Anchored
    BY <1>1, KelStep
  <2>2. Anchored' = Anchored \cup ({t} \ {None})
    BY <1>1, <2>1, KelStep, KelGrows
  <2>3. UNCHANGED <<ctel, ccrd>>
    BY <1>1, Changes DEF Disseminate, CompleteCredential, keri
  <2>4. CASE t = None
    BY <2>2, <2>3, <2>4 DEF Lifecycle!vars
  <2>5. CASE t # None
    <3>1. t \in Tels /\ Anchored' = Anchored \cup {t}
      BY <2>2, <2>5
    <3>2. Lifecycle!Anchor(t)
      BY <2>1, <2>3, <2>5, <3>1 DEF Lifecycle!Anchor, Prior
    <3>3. QED
      BY <3>1, <3>2 DEF Lifecycle!Next, Tels
  <2>6. QED
    BY <2>4, <2>5
<1>2. CASE kel' = kel
  <2>1. Anchored' = Anchored
    BY <1>2 DEF Anchored
  <2>2. CASE Disseminate
    <3>1. handler.tel \in Tels
      BY <2>2 DEF Disseminate, HandlerInv, At, Passes
    <3>2. handler.tel \in Anchored
      BY <2>2, <3>1, NoneAssumption DEF Disseminate, ReceiptedInv, Receipted, Sealed, Anchored
    <3>3. Lifecycle!Publish(handler.tel)
      BY <2>1, <2>2, <3>2 DEF Lifecycle!Publish, Disseminate, cred
    <3>4. QED
      BY <3>1, <3>3 DEF Lifecycle!Next, Tels
  <2>3. CASE CompleteCredential
    <3> DEFINE c == handler.tel[1]
    <3>1. c \in Creds /\ Issuance(c) \in ctel
      BY <2>3 DEF CompleteCredential, HandlerInv, At
    <3>2. Lifecycle!Complete(c)
      BY <2>1, <2>3, <3>1 DEF Lifecycle!Complete, Lifecycle!Issuance, Issuance, CompleteCredential, escrow
    <3>3. QED
      BY <3>1, <3>2 DEF Lifecycle!Next
  <2>4. CASE UNCHANGED <<ctel, ccrd>>
    BY <2>1, <2>4 DEF Lifecycle!vars
  <2>5. QED
    BY <2>2, <2>3, <2>4, Changes
<1>3. QED
  BY <1>1, <1>2

\* The Registrar and the Credentialer implement CredentialLifecycle: TEL events are anchored after the
\* events they build on, published only when anchored, and a credential is complete only when its
\* issuance is published.
THEOREM Refinement == Spec => LifecycleSpec
<1>1. Init => Lifecycle!Init
  BY DEF Init, Lifecycle!Init, Anchored
<1>2. QED
  BY <1>1, StepRefines, Invariance, PTL DEF Spec, LifecycleSpec, Lifecycle!Spec

\* What the life cycle leaves true: all that is published is anchored, all that is anchored builds
\* on what is, and an issuance that is complete is published.
Founded ==
  /\ Anchored \subseteq Tels /\ \A t \in Anchored : Prior(t) \subseteq Anchored
  /\ ctel \subseteq Anchored
  /\ \A c \in ccrd : c \in Creds /\ Issuance(c) \in ctel

LEMMA FoundedStep ==
  ASSUME Founded, [Lifecycle!Next]_Lifecycle!vars
  PROVE  /\ Founded'
         /\ Anchored \subseteq Anchored' /\ ctel \subseteq ctel' /\ ccrd \subseteq ccrd'
<1> USE DEF Founded, Tels, Prior
<1>1. ASSUME NEW t \in Lifecycle!Tels, Lifecycle!Anchor(t)
      PROVE  /\ Founded'
             /\ Anchored \subseteq Anchored' /\ ctel \subseteq ctel' /\ ccrd \subseteq ccrd'
  <2>1. Anchored' = Anchored \cup {t} /\ ctel' = ctel /\ ccrd' = ccrd /\ Prior(t) \subseteq Anchored
    BY <1>1 DEF Lifecycle!Anchor
  <2> QED BY <2>1
<1>2. ASSUME NEW t \in Lifecycle!Tels, Lifecycle!Publish(t)
      PROVE  /\ Founded'
             /\ Anchored \subseteq Anchored' /\ ctel \subseteq ctel' /\ ccrd \subseteq ccrd'
  <2>1. Anchored' = Anchored /\ ctel' = ctel \cup {t} /\ ccrd' = ccrd /\ t \in Anchored
    BY <1>2 DEF Lifecycle!Publish
  <2> QED BY <2>1
<1>3. ASSUME NEW c \in Creds, Lifecycle!Complete(c)
      PROVE  /\ Founded'
             /\ Anchored \subseteq Anchored' /\ ctel \subseteq ctel' /\ ccrd \subseteq ccrd'
  <2>1. Anchored' = Anchored /\ ctel' = ctel /\ ccrd' = ccrd \cup {c} /\ Issuance(c) \in ctel
    BY <1>3 DEF Lifecycle!Complete, Lifecycle!Issuance, Issuance
  <2> QED BY <2>1
<1>4. CASE UNCHANGED Lifecycle!vars
  <2>1. Anchored' = Anchored /\ ctel' = ctel /\ ccrd' = ccrd
    BY <1>4 DEF Lifecycle!vars
  <2> QED BY <2>1
<1>5. QED
  BY <1>1, <1>2, <1>3, <1>4 DEF Lifecycle!Next

\* A credential that is reported complete rests on the whole chain: its issuance is published and
\* anchored, and so is the inception of its registry, while a revocation is anchored only after the
\* issuance; and nothing of this is ever taken back, whatever fails or stops afterwards
\* (Registrar.complete, Credentialer.complete).
THEOREM CompleteIsFounded ==
  Spec => /\ [](\A c \in ccrd : /\ Issuance(c) \in ctel
                               /\ {<<RegistryOf[c], 0>>, Issuance(c)} \subseteq Anchored)
          /\ [](\A c \in Creds : <<c, 1>> \in Anchored => Issuance(c) \in Anchored)
          /\ [][Anchored \subseteq Anchored' /\ ctel \subseteq ctel' /\ ccrd \subseteq ccrd']_vars
<1>1. Lifecycle!Init => Founded
  BY DEF Lifecycle!Init, Founded
<1>2. Founded /\ [Lifecycle!Next]_Lifecycle!vars => Founded'
  BY FoundedStep
<1>3. Founded /\ [Lifecycle!Next]_Lifecycle!vars =>
        [Anchored \subseteq Anchored' /\ ctel \subseteq ctel' /\ ccrd \subseteq ccrd']_vars
  BY FoundedStep
<1>4. Founded => \A c \in ccrd : /\ Issuance(c) \in ctel
                               /\ {<<RegistryOf[c], 0>>, Issuance(c)} \subseteq Anchored
  BY TelFacts DEF Founded, Issuance
<1>5. Founded => \A c \in Creds : <<c, 1>> \in Anchored => Issuance(c) \in Anchored
  BY TelFacts DEF Founded, Issuance
<1>6. QED
  BY <1>1, <1>2, <1>3, <1>4, <1>5, Refinement, PTL DEF LifecycleSpec, Lifecycle!Spec

=============================================================================
