--------------------------- MODULE ReceiptsProofs ---------------------------
(***************************************************************************)
(* Theorems about Receipts, for any witnesses and bounds: types, and that  *)
(* an operation that is done has its receipts.                             *)
(***************************************************************************)
EXTENDS Receipts, SequenceTheorems, FiniteSetTheorems, TLAPS

\* While rotations keep the threshold it is that of every event.
ThresholdInv == KeepToad => \A n \in 1..Last : kel[n].toad = ToadNow

\* The Submitter lists its doer once for each event in the doer's Deck, and once more while there
\* is a cue: it is never through before them.
ListedInv == Len(msgs) + (IF cues > 0 THEN 1 ELSE 0) <= doers

\* A submit operation's request is queued, or its event or a later one is in the doer's Deck, or
\* has been receipted.
Receipted(n) == \E m \in n..Last : \E j \in m..Last : kel[j].wits \subseteq wigs[m]
SubmitInv ==
  crashes = 0 /\ submit # 0 =>
    submits > 0 \/ (\E i \in DOMAIN msgs : submit <= msgs[i]) \/ Receipted(submit)

IInv == TypeOK /\ ThresholdInv /\ ListedInv /\ SubmitInv

-----------------------------------------------------------------------------

\* What types say of the KEL and the Deck.
LEMMA Lengths ==
  ASSUME TypeOK
  PROVE  /\ Last \in Nat /\ Last >= 1 /\ DOMAIN kel = 1..Last /\ kel[Last] \in KeyEvent
         /\ \A n \in 1..Last : kel[n] \in KeyEvent
         /\ Len(msgs) \in Nat /\ DOMAIN msgs = 1..Len(msgs)
         /\ \A i \in DOMAIN msgs : msgs[i] \in 1..Last
<1>1. kel \in Seq(KeyEvent) /\ Last \in 1..MaxEvents /\ MaxEvents \in Nat
  BY BoundAssumption DEF TypeOK, Events
<1>2. DOMAIN kel = 1..Last /\ \A n \in 1..Last : kel[n] \in KeyEvent
  BY <1>1, LenProperties, ElementOfSeq DEF Last
<1>3. msgs \in Seq(1..Last)
  BY DEF TypeOK
<1>4. Len(msgs) \in Nat /\ DOMAIN msgs = 1..Len(msgs) /\ \A i \in DOMAIN msgs : msgs[i] \in 1..Last
  BY <1>3, LenProperties, ElementOfSeq
<1> QED BY <1>1, <1>2, <1>4

\* A step that leaves the KEL alone and takes nothing from the Deck but what it has receipted.
LEMMA SameKel ==
  ASSUME TypeOK, UNCHANGED kel, \A n \in Events : wigs[n] \subseteq wigs'[n]
  PROVE  /\ ThresholdInv => ThresholdInv'
         /\ Last' = Last
         /\ \A n \in 1..Last : Receipted(n) => Receipted(n)'
<1>1. Last' = Last /\ ToadNow' = ToadNow /\ Last \in 1..MaxEvents /\ MaxEvents \in Nat
  BY BoundAssumption DEF Last, ToadNow, TypeOK, Events
<1>2. ThresholdInv => ThresholdInv'
  BY <1>1 DEF ThresholdInv
<1>3. ASSUME NEW n \in 1..Last, Receipted(n)
      PROVE  Receipted(n)'
  <2> PICK m \in n..Last : \E j \in m..Last : kel[j].wits \subseteq wigs[m]
    BY <1>3 DEF Receipted
  <2>1. PICK j \in m..Last : kel[j].wits \subseteq wigs[m]
    OBVIOUS
  <2>2. m \in Events
    BY <1>1, <2>1 DEF Events
  <2>3. kel'[j].wits \subseteq wigs'[m]
    BY <2>1, <2>2
  <2> QED BY <1>1, <2>1, <2>3 DEF Receipted
<1> QED BY <1>1, <1>2, <1>3

\* A key event joins the KEL: a rotation or an interaction.
LEMMA ExtendInv ==
  ASSUME IInv, NEW k \in KeyEvent, KeepToad => k.toad = ToadNow, Extend(k)
  PROVE  IInv'
<1> DEFINE n == Last + 1
<1>1. /\ kel' = Append(kel, k) /\ Last < MaxEvents
      /\ UNCHANGED <<wigs, current, submits, doers, msgs, cues, submit, expired, asked, crashes>>
      /\ \/ UNCHANGED <<witners, ops>>
         \/ witners' = Append(witners, n) /\ ops' = ops \cup {n}
  BY DEF Extend
<1>2. TypeOK
  BY DEF IInv
<1>3. /\ Last \in Nat /\ Last >= 1 /\ kel \in Seq(KeyEvent) /\ kel[Last] \in KeyEvent
      /\ MaxEvents \in Nat
  BY <1>2, Lengths, BoundAssumption DEF TypeOK
<1>4. /\ kel' \in Seq(KeyEvent) /\ Last' = n
      /\ \A i \in 1..Last : kel'[i] = kel[i]
      /\ kel'[n] = k
  BY <1>1, <1>3, AppendProperties DEF Last
<1>5. n \in Events /\ 1..Last \subseteq 1..Last' /\ n \in 1..Last'
  BY <1>1, <1>3, <1>4 DEF Events
<1> HIDE DEF n
<1>6. TypeOK'
  <2>1. Append(witners, n) \in Seq(Events)
    BY <1>2, <1>5, AppendProperties DEF TypeOK
  <2>2. witners' \in Seq(Events)
    BY <1>1, <1>2, <2>1 DEF TypeOK
  <2>3. ops' \subseteq 1..Last' /\ expired' \subseteq ops' \cup {0}
    BY <1>1, <1>2, <1>5 DEF TypeOK
  <2>4. submit' \in 0..Last'
    BY <1>1, <1>2, <1>3, <1>4 DEF TypeOK, n
  <2>5. msgs' \in Seq(1..Last')
    BY <1>1, <1>2, <1>5, SeqMonotonic DEF TypeOK
  <2> QED BY <1>1, <1>2, <1>4, <1>5, <2>2, <2>3, <2>4, <2>5 DEF TypeOK
<1>7. ThresholdInv'
  <2> SUFFICES ASSUME KeepToad, NEW i \in 1..Last' PROVE kel'[i].toad = ToadNow'
    BY DEF ThresholdInv
  <2>1. ToadNow' = k.toad
    BY <1>4 DEF ToadNow
  <2>2. k.toad = ToadNow
    OBVIOUS
  <2>3. i \in 1..Last \/ i = n
    BY <1>3, <1>4 DEF n
  <2>4. CASE i \in 1..Last
    BY <2>1, <2>2, <2>4, <1>4 DEF IInv, ThresholdInv
  <2>5. CASE i = n
    BY <2>1, <2>5, <1>4
  <2> QED BY <2>3, <2>4, <2>5
<1>8. ListedInv'
  BY <1>1 DEF IInv, ListedInv
<1>9. SubmitInv'
  <2>1. ASSUME NEW s \in 1..Last, Receipted(s) PROVE Receipted(s)'
    <3> PICK m \in s..Last : \E j \in m..Last : kel[j].wits \subseteq wigs[m]
      BY <2>1 DEF Receipted
    <3>1. PICK j \in m..Last : kel[j].wits \subseteq wigs[m]
      OBVIOUS
    <3>2. j \in 1..Last /\ m \in s..Last' /\ j \in m..Last'
      BY <3>1, <1>3, <1>4 DEF n
    <3>3. kel'[j].wits \subseteq wigs'[m]
      BY <3>1, <3>2, <1>1, <1>4
    <3> QED BY <3>2, <3>3 DEF Receipted
  <2>2. submit \in 0..Last
    BY <1>2 DEF TypeOK
  <2> QED BY <2>1, <2>2, <1>1, <1>3 DEF IInv, SubmitInv
<1> QED BY <1>6, <1>7, <1>8, <1>9 DEF IInv

\* The Witnesser takes, receipts and finishes events.
LEMMA WitnesserInv ==
  ASSUME IInv, WitnesserTake \/ WitnesserDone \/ \E w \in Wits : WitnesserReceipt(w)
  PROVE  IInv'
<1> USE DEF queues, table
<1>1. TypeOK
  BY DEF IInv
<1>2. /\ UNCHANGED <<kel, submits, doers, msgs, cues, ops, submit, expired, asked, crashes>>
      /\ wigs' \in [Events -> SUBSET Wits] /\ \A n \in Events : wigs[n] \subseteq wigs'[n]
      /\ witners' \in Seq(Events) /\ current' \subseteq Events
  <2>1. wigs \in [Events -> SUBSET Wits] /\ witners \in Seq(Events) /\ current \subseteq Events
    BY <1>1 DEF TypeOK
  <2>2. CASE WitnesserTake
    <3>1. Head(witners) \in Events /\ Tail(witners) \in Seq(Events)
      BY <2>1, <2>2, HeadTailProperties DEF WitnesserTake
    <3> QED BY <2>1, <2>2, <3>1 DEF WitnesserTake
  <2>3. CASE WitnesserDone
    BY <2>1, <2>3 DEF WitnesserDone
  <2>4. ASSUME NEW w \in Wits, WitnesserReceipt(w)
        PROVE  /\ wigs' \in [Events -> SUBSET Wits] /\ \A n \in Events : wigs[n] \subseteq wigs'[n]
    <3>1. PICK n \in current : wigs' = [wigs EXCEPT ![n] = @ \cup {w}]
      BY <2>4 DEF WitnesserReceipt
    <3>2. n \in Events /\ wigs[n] \cup {w} \in SUBSET Wits
      BY <2>1, <2>4
    <3> QED BY <2>1, <3>1, <3>2
  <2> QED BY <2>1, <2>2, <2>3, <2>4 DEF WitnesserReceipt
<1>3. /\ ThresholdInv' /\ Last' = Last
      /\ \A n \in 1..Last : Receipted(n) => Receipted(n)'
  BY <1>1, <1>2, SameKel DEF IInv
<1>4. TypeOK'
  BY <1>1, <1>2, <1>3 DEF TypeOK
<1>5. ListedInv'
  BY <1>2 DEF IInv, ListedInv
<1>6. SubmitInv'
  <2>1. submit \in 0..Last /\ Last \in Nat
    BY <1>1, Lengths DEF TypeOK
  <2> QED BY <1>2, <1>3, <2>1 DEF IInv, SubmitInv
<1> QED BY <1>3, <1>4, <1>5, <1>6 DEF IInv

\* Requests and operations: the queues and the table change, the KEL and the receipts do not.
LEMMA RequestsInv ==
  ASSUME IInv, SubmitRequest \/ \E n \in 0..MaxEvents : Expire(n) \/ DeleteOperation(n)
  PROVE  IInv'
<1> USE DEF queues
<1>1. TypeOK /\ Last \in Nat /\ Last >= 1
  BY Lengths DEF IInv
<1>2. UNCHANGED <<kel, wigs, witners, current, doers, msgs, cues, crashes>>
  BY DEF SubmitRequest, Expire, DeleteOperation
<1>3. /\ ThresholdInv' /\ Last' = Last
      /\ \A n \in 1..Last : Receipted(n) => Receipted(n)'
  BY <1>1, <1>2, SameKel DEF IInv
<1>4. /\ ops' \subseteq 1..Last /\ expired' \subseteq ops' \cup {0} /\ submit' \in 0..Last
      /\ asked' \in 0..MaxSubmits /\ submits' \in Nat
      /\ (submit' # 0 => submits' > 0 \/ (submit' = submit /\ submits' = submits))
  <2>1. /\ ops \subseteq 1..Last /\ expired \subseteq ops \cup {0} /\ submit \in 0..Last
        /\ asked \in 0..MaxSubmits /\ submits \in Nat /\ MaxSubmits \in Nat
    BY <1>1, BoundAssumption DEF TypeOK
  <2>2. CASE SubmitRequest
    <3>1. submits' = submits + 1 /\ submit' = Last /\ expired' = expired \ {0} /\ ops' = ops
          /\ asked < MaxSubmits /\ asked' = asked + 1
      BY <2>2 DEF SubmitRequest
    <3>2. submits' \in Nat /\ submits' > 0 /\ asked' \in 0..MaxSubmits /\ submit' \in 0..Last
      BY <1>1, <2>1, <3>1
    <3> QED BY <2>1, <3>1, <3>2
  <2>3. CASE \E n \in 0..MaxEvents : Expire(n)
    <3>1. expired' \subseteq ops \cup {0} /\ UNCHANGED <<ops, submit, asked, submits>>
      BY <2>1, <2>3 DEF Expire
    <3> QED BY <2>1, <3>1
  <2>4. CASE \E n \in 0..MaxEvents : DeleteOperation(n)
    <3>1. ops' \subseteq 1..Last /\ expired' \subseteq ops' \cup {0}
          /\ submit' \in {0, submit} /\ UNCHANGED <<asked, submits>>
      BY <2>1, <2>4 DEF DeleteOperation
    <3> QED BY <1>1, <2>1, <3>1
  <2> QED BY <2>2, <2>3, <2>4
<1>5. TypeOK'
  BY <1>1, <1>2, <1>3, <1>4 DEF TypeOK
<1>6. ListedInv'
  BY <1>2 DEF IInv, ListedInv
<1>7. SubmitInv'
  BY <1>1, <1>2, <1>3, <1>4 DEF IInv, SubmitInv
<1> QED BY <1>3, <1>5, <1>6, <1>7 DEF IInv

\* The Submitter takes a request, for the last event by now.
LEMMA TakeInv ==
  ASSUME IInv, SubmitterTake
  PROVE  IInv'
<1> USE DEF table
<1>1. TypeOK
  BY DEF IInv
<1>2. /\ Last \in Nat /\ Last >= 1 /\ submit \in 0..Last /\ submits \in Nat /\ doers \in Nat
      /\ cues \in Nat /\ msgs \in Seq(1..Last) /\ Len(msgs) \in Nat
  BY <1>1, Lengths DEF TypeOK
<1>3. /\ submits > 0 /\ submits' = submits - 1
      /\ UNCHANGED <<kel, wigs, witners, current, cues, ops, submit, expired, asked, crashes>>
      /\ \/ WitsNow = {} /\ UNCHANGED <<doers, msgs>>
         \/ WitsNow # {} /\ doers' = doers + 1 /\ msgs' = Append(msgs, Last)
  BY DEF SubmitterTake
<1>4. Last \in 1..Last
  BY <1>2
<1>5. /\ Append(msgs, Last) \in Seq(1..Last) /\ Len(Append(msgs, Last)) = Len(msgs) + 1
      /\ Len(msgs) + 1 \in DOMAIN Append(msgs, Last)
      /\ Append(msgs, Last)[Len(msgs) + 1] = Last
      /\ DOMAIN msgs \subseteq DOMAIN Append(msgs, Last)
      /\ \A i \in DOMAIN msgs : Append(msgs, Last)[i] = msgs[i]
  <2>1. /\ Append(msgs, Last) \in Seq(1..Last) /\ Len(Append(msgs, Last)) = Len(msgs) + 1
        /\ \A i \in 1..Len(msgs) : Append(msgs, Last)[i] = msgs[i]
        /\ Append(msgs, Last)[Len(msgs) + 1] = Last
    BY <1>2, <1>4, AppendProperties
  <2>2. DOMAIN msgs = 1..Len(msgs) /\ DOMAIN Append(msgs, Last) = 1..(Len(msgs) + 1)
    BY <1>2, <2>1, LenProperties
  <2> QED BY <1>2, <2>1, <2>2
<1>6. /\ ThresholdInv' /\ Last' = Last
      /\ \A n \in 1..Last : Receipted(n) => Receipted(n)'
  BY <1>1, <1>3, SameKel DEF IInv
<1>7. TypeOK'
  <2>1. submits' \in Nat /\ doers' \in Nat
    BY <1>2, <1>3
  <2>2. msgs' \in Seq(1..Last')
    BY <1>2, <1>3, <1>5, <1>6
  <2> QED BY <1>1, <1>3, <1>6, <2>1, <2>2 DEF TypeOK
<1>8. ListedInv'
  BY <1>2, <1>3, <1>5 DEF IInv, ListedInv
<1>9. SubmitInv'
  <2> SUFFICES ASSUME crashes = 0, submit # 0
               PROVE  (\E i \in DOMAIN msgs' : submit <= msgs'[i]) \/ Receipted(submit)'
    BY <1>3 DEF SubmitInv
  <2>1. CASE WitsNow = {}
    <3>1. kel[Last].wits \subseteq wigs[Last] /\ Last \in submit..Last /\ Last \in Last..Last
      BY <2>1, <1>2 DEF WitsNow
    <3>2. Receipted(submit)
      BY <3>1 DEF Receipted
    <3> QED BY <3>2, <1>2, <1>3, <1>6
  <2>2. CASE WitsNow # {}
    <3>1. msgs' = Append(msgs, Last)
      BY <2>2, <1>3
    <3>2. Len(msgs) + 1 \in DOMAIN msgs' /\ submit <= msgs'[Len(msgs) + 1]
      BY <3>1, <1>2, <1>5
    <3> QED BY <3>2
  <2> QED BY <2>1, <2>2
<1> QED BY <1>6, <1>7, <1>8, <1>9 DEF IInv

\* The WitnessReceiptor has the first of its Deck receipted by all witnesses there are now.
LEMMA ReceiptInv ==
  ASSUME IInv, SubmitReceipt
  PROVE  IInv'
<1> USE DEF table
<1> DEFINE n == Head(msgs)
<1>1. TypeOK
  BY DEF IInv
<1>2. /\ Last \in Nat /\ Last >= 1 /\ submit \in 0..Last /\ submits \in Nat /\ doers \in Nat
      /\ cues \in Nat /\ msgs \in Seq(1..Last) /\ Len(msgs) \in Nat /\ DOMAIN msgs = 1..Len(msgs)
      /\ Last \in Events /\ MaxEvents \in Nat
  BY <1>1, Lengths, BoundAssumption DEF TypeOK
<1>3. /\ msgs # <<>> /\ msgs' = Tail(msgs) /\ cues' = cues + 1
      /\ wigs' = [wigs EXCEPT ![n] = @ \cup WitsNow]
      /\ UNCHANGED <<kel, witners, current, submits, doers, ops, submit, expired, asked, crashes>>
  BY DEF SubmitReceipt
<1>4. /\ n \in 1..Last /\ n = msgs[1] /\ Len(msgs) >= 1
      /\ msgs' \in Seq(1..Last) /\ Len(msgs') = Len(msgs) - 1 /\ DOMAIN msgs' = 1..(Len(msgs) - 1)
      /\ \A i \in 1..(Len(msgs) - 1) : msgs'[i] = msgs[i + 1]
  <2>1. /\ n \in 1..Last /\ Tail(msgs) \in Seq(1..Last) /\ Len(Tail(msgs)) = Len(msgs) - 1
        /\ \A i \in 1..Len(Tail(msgs)) : Tail(msgs)[i] = msgs[i + 1]
    BY <1>2, <1>3, HeadTailProperties
  <2>2. DOMAIN Tail(msgs) = 1..Len(Tail(msgs)) /\ Len(msgs) # 0
    BY <1>2, <1>3, <2>1, LenProperties, EmptySeq
  <2> QED BY <1>2, <1>3, <2>1, <2>2
<1> HIDE DEF n
<1>5. /\ wigs' \in [Events -> SUBSET Wits] /\ \A e \in Events : wigs[e] \subseteq wigs'[e]
      /\ WitsNow \subseteq wigs'[n]
  <2>1. wigs \in [Events -> SUBSET Wits] /\ n \in Events
    BY <1>1, <1>2, <1>4 DEF TypeOK, Events
  <2>2. WitsNow \in SUBSET Wits
    BY <1>1, Lengths DEF KeyEvent, WitsNow
  <2> QED BY <1>3, <2>1, <2>2
<1>6. /\ ThresholdInv' /\ Last' = Last
      /\ \A e \in 1..Last : Receipted(e) => Receipted(e)'
  BY <1>1, <1>3, <1>5, SameKel DEF IInv
<1>7. TypeOK'
  <2>1. cues' \in Nat /\ msgs' \in Seq(1..Last')
    BY <1>2, <1>3, <1>4, <1>6
  <2> QED BY <1>1, <1>3, <1>5, <1>6, <2>1 DEF TypeOK
<1>8. ListedInv'
  BY <1>2, <1>3, <1>4 DEF IInv, ListedInv
<1>9. SubmitInv'
  <2> SUFFICES ASSUME crashes = 0, submit # 0, submits = 0, ~ Receipted(submit)
               PROVE  (\E i \in DOMAIN msgs' : submit <= msgs'[i]) \/ Receipted(submit)'
    <3>1. Receipted(submit) /\ submit # 0 => Receipted(submit)'
      BY <1>2, <1>3, <1>6
    <3> QED BY <1>2, <1>3, <3>1 DEF SubmitInv
  <2>1. PICK i \in DOMAIN msgs : submit <= msgs[i]
    BY DEF IInv, SubmitInv
  <2>2. CASE i = 1
    <3>1. n \in submit..Last /\ Last \in n..Last /\ n \in submit'..Last'
      BY <2>1, <2>2, <1>2, <1>3, <1>4, <1>6
    <3>2. kel'[Last].wits \subseteq wigs'[n] /\ Last \in n..Last'
      BY <3>1, <1>3, <1>5, <1>6 DEF WitsNow
    <3> QED BY <3>1, <3>2 DEF Receipted
  <2>3. CASE i # 1
    <3>1. i - 1 \in 1..(Len(msgs) - 1) /\ (i - 1) + 1 = i
      BY <2>3, <1>2
    <3>2. i - 1 \in DOMAIN msgs' /\ msgs'[i - 1] = msgs[i]
      BY <3>1, <1>4
    <3> QED BY <2>1, <3>2
  <2> QED BY <2>2, <2>3
<1> QED BY <1>6, <1>7, <1>8, <1>9 DEF IInv

\* The Submitter takes cues; a crash empties the queues.
LEMMA RestInv ==
  ASSUME IInv, SubmitterCues \/ Crash
  PROVE  IInv'
<1> USE DEF table
<1>1. TypeOK
  BY DEF IInv
<1>2. /\ doers \in Nat /\ cues \in Nat /\ Len(msgs) \in Nat /\ crashes \in 0..MaxCrashes
      /\ MaxCrashes \in Nat /\ submit \in 0..Last /\ Last \in Nat
  BY <1>1, Lengths, BoundAssumption DEF TypeOK
<1>3. UNCHANGED <<kel, wigs, ops, submit, expired, asked>>
  BY DEF SubmitterCues, Crash
<1>4. /\ ThresholdInv' /\ Last' = Last
      /\ \A n \in 1..Last : Receipted(n) => Receipted(n)'
  BY <1>1, <1>3, SameKel DEF IInv
<1>5. CASE SubmitterCues
  <2>1. /\ submits = 0 /\ doers > 0 /\ cues > 0
        /\ cues' = IF cues <= doers THEN 0 ELSE cues - doers
        /\ doers' = IF cues <= doers THEN doers - 1 ELSE doers
        /\ UNCHANGED <<witners, current, submits, msgs, crashes>>
    BY <1>5 DEF SubmitterCues
  <2>2. cues' \in Nat /\ doers' \in Nat
    BY <1>2, <2>1
  <2>3. TypeOK'
    BY <1>1, <1>3, <1>4, <2>1, <2>2 DEF TypeOK
  <2>4. ListedInv'
    BY <1>2, <2>1 DEF IInv, ListedInv
  <2>5. SubmitInv'
    BY <1>2, <1>3, <1>4, <2>1 DEF IInv, SubmitInv
  <2> QED BY <1>4, <2>3, <2>4, <2>5 DEF IInv
<1>6. CASE Crash
  <2>1. /\ witners' = <<>> /\ current' = {} /\ submits' = 0 /\ doers' = 0 /\ cues' = 0
        /\ msgs' = <<>> /\ crashes' = crashes + 1 /\ crashes < MaxCrashes
    BY <1>6 DEF Crash
  <2>2. /\ witners' \in Seq(Events) /\ msgs' \in Seq(1..Last') /\ Len(msgs') = 0
        /\ crashes' \in 0..MaxCrashes /\ crashes' # 0
    BY <1>2, <2>1, EmptySeq
  <2>3. TypeOK'
    BY <1>1, <1>3, <1>4, <2>1, <2>2 DEF TypeOK
  <2>4. ListedInv' /\ SubmitInv'
    BY <2>1, <2>2 DEF ListedInv, SubmitInv
  <2> QED BY <1>4, <2>3, <2>4 DEF IInv
<1> QED BY <1>5, <1>6

\* After the inception there is one event, queued if it has witnesses.
LEMMA InitInv == Init => IInv
<1> SUFFICES ASSUME Init PROVE IInv
  OBVIOUS
<1> USE DEF Init
<1>1. PICK k \in KeyEvent : kel = <<k>>
  OBVIOUS
<1>2. kel \in Seq(KeyEvent) /\ Last = 1 /\ kel[1] = k /\ 1 \in Events
  BY <1>1, BoundAssumption DEF Last, Events
<1>3. msgs \in Seq(1..Last) /\ Len(msgs) = 0 /\ <<>> \in Seq(Events) /\ <<1>> \in Seq(Events)
  BY <1>2, EmptySeq
<1>4. TypeOK
  BY <1>2, <1>3, BoundAssumption DEF TypeOK
<1>5. ThresholdInv /\ ListedInv /\ SubmitInv
  BY <1>2, <1>3 DEF ThresholdInv, ListedInv, SubmitInv, ToadNow
<1> QED BY <1>4, <1>5 DEF IInv

\* Every reachable state satisfies the inductive invariant.
THEOREM Invariance == Spec => []IInv
<1>1. ASSUME IInv, [Next]_vars
      PROVE  IInv'
  <2>1. ASSUME NEW k \in KeyEvent, Rotate(k)
        PROVE  IInv'
    BY <1>1, <2>1, ExtendInv DEF Rotate
  <2>2. CASE Interact
    <3>1. kel[Last] \in KeyEvent /\ kel[Last].toad = ToadNow
      BY <1>1, Lengths DEF IInv, ToadNow
    <3> QED BY <1>1, <2>2, <3>1, ExtendInv DEF Interact
  <2>3. CASE SubmitRequest \/ \E n \in 0..MaxEvents : Expire(n) \/ DeleteOperation(n)
    BY <1>1, <2>3, RequestsInv
  <2>4. CASE Doers
    BY <1>1, <2>4, WitnesserInv, TakeInv, ReceiptInv, RestInv DEF Doers
  <2>5. CASE Crash
    BY <1>1, <2>5, RestInv
  <2>6. CASE UNCHANGED vars
    <3>1. UNCHANGED <<kel, wigs, witners, current, submits, doers, msgs, cues, ops, submit, expired,
                      asked, crashes>>
      BY <2>6 DEF vars, queues, table
    <3>2. TypeOK /\ submit \in 0..Last /\ Last \in Nat
      BY <1>1, Lengths DEF IInv, TypeOK
    <3>3. /\ ThresholdInv' /\ Last' = Last
          /\ \A n \in 1..Last : Receipted(n) => Receipted(n)'
      BY <1>1, <3>1, <3>2, SameKel DEF IInv
    <3>4. TypeOK'
      BY <3>1, <3>2, <3>3 DEF TypeOK
    <3>5. ListedInv' /\ SubmitInv'
      BY <1>1, <3>1, <3>2, <3>3 DEF IInv, ListedInv, SubmitInv
    <3> QED BY <3>3, <3>4, <3>5 DEF IInv
  <2> QED BY <1>1, <2>1, <2>2, <2>3, <2>4, <2>5, <2>6 DEF Next
<1> QED BY <1>1, InitInv, PTL DEF Spec

\* Every variable of Receipts keeps its type.
THEOREM TypeCorrect == Spec => []TypeOK
<1>1. IInv => TypeOK
  BY DEF IInv
<1> QED BY <1>1, Invariance, PTL

\* Receipts are added by the Witnesser and the Submitter, and never taken away.
LEMMA ReceiptsGrow == ASSUME TypeOK, [Next]_vars PROVE \A n \in Events : wigs[n] \subseteq wigs'[n]
<1> USE DEF TypeOK, queues, table
<1>1. ASSUME NEW w \in Wits, WitnesserReceipt(w) PROVE \A n \in Events : wigs[n] \subseteq wigs'[n]
  BY <1>1 DEF WitnesserReceipt
<1>2. CASE SubmitReceipt
  BY <1>2 DEF SubmitReceipt
<1>3. CASE UNCHANGED wigs
  BY <1>3
<1>4. QED
  BY <1>1, <1>2, <1>3
     DEF Next, Doers, Rotate, Interact, Extend, SubmitRequest, Crash, Expire, DeleteOperation,
         WitnesserTake, WitnesserDone, SubmitterTake, SubmitterCues, vars

\* A witness operation that is done (Monitor.status) stays so while it is kept and no rotation
\* raises the threshold.
THEOREM DoneRemainsDone ==
  Spec => [][\A n \in ops \cap ops' :
               WitnessStatus(n) = "done" /\ ToadNow' <= ToadNow => WitnessStatus(n)' = "done"]_vars
<1>1. ASSUME TypeOK, TypeOK', [Next]_vars, NEW n \in ops \cap ops',
             WitnessStatus(n) = "done", ToadNow' <= ToadNow
      PROVE  WitnessStatus(n)' = "done"
  <2>1. /\ n \in Events /\ IsFiniteSet(wigs'[n]) /\ wigs'[n] \in SUBSET Wits
        /\ ToadNow \in Nat /\ ToadNow' \in Nat
    <3>1. n \in 1..Last /\ Last \in 1..MaxEvents /\ MaxEvents \in Nat
      BY <1>1, BoundAssumption DEF TypeOK, Events
    <3>2. n \in Events
      BY <3>1 DEF Events
    <3>3. wigs'[n] \in SUBSET Wits
      BY <1>1, <3>2 DEF TypeOK
    <3>4. kel[Last] \in KeyEvent
      BY <1>1, Lengths
    <3>5. kel'[Last'] \in KeyEvent
      <4>1. /\ kel' \in Seq(KeyEvent) /\ Last' = Len(kel') /\ Last' \in 1..MaxEvents
        BY <1>1 DEF TypeOK, Last, Events
      <4>2. QED
        BY <4>1, ElementOfSeq
    <3>6. ASSUME NEW k \in KeyEvent PROVE k.toad \in Nat
      <4>1. Cardinality(Wits) \in Nat
        BY WitsAssumption, FS_CardinalityType
      <4>2. QED
        BY <4>1 DEF KeyEvent
    <3>7. QED
      BY <3>2, <3>3, <3>4, <3>5, <3>6, WitsAssumption, FS_Subset DEF ToadNow
  <2>2. wigs[n] \subseteq wigs'[n]
    BY <1>1, <2>1, ReceiptsGrow
  <2>3. Cardinality(wigs[n]) <= Cardinality(wigs'[n])
    BY <2>1, <2>2, FS_Subset
  <2>4. Cardinality(wigs[n]) \in Nat /\ Cardinality(wigs'[n]) \in Nat
    BY <2>1, <2>2, FS_Subset, FS_CardinalityType
  <2>5. Cardinality(wigs[n]) >= ToadNow
    BY <1>1 DEF WitnessStatus
  <2>6. Cardinality(wigs'[n]) >= ToadNow'
    BY <1>1, <2>1, <2>3, <2>4, <2>5
  <2>7. QED
    BY <2>6 DEF WitnessStatus
<1>2. TypeOK /\ TypeOK' /\ [Next]_vars =>
        [\A n \in ops \cap ops' :
           WitnessStatus(n) = "done" /\ ToadNow' <= ToadNow => WitnessStatus(n)' = "done"]_vars
  BY <1>1
<1> QED BY <1>2, TypeCorrect, PTL DEF Spec

\* While rotations keep the threshold, a witness operation that is done (Monitor.status) has the
\* receipts its own event asked for, though it is compared with the threshold in force now, and
\* stays done.
THEOREM DoneHasReceipts == ASSUME KeepToad PROVE Spec => EnoughReceipts
<1>1. IInv => \A n \in ops : WitnessStatus(n) = "done" => Cardinality(wigs[n]) >= kel[n].toad
  <2> SUFFICES ASSUME IInv, NEW n \in ops, WitnessStatus(n) = "done"
               PROVE  Cardinality(wigs[n]) >= kel[n].toad
    OBVIOUS
  <2>1. kel[n].toad = ToadNow
    BY DEF IInv, TypeOK, ThresholdInv
  <2>2. Cardinality(wigs[n]) >= ToadNow
    BY DEF WitnessStatus
  <2> QED BY <2>1, <2>2
<1> QED BY <1>1, Invariance, DoneRemainsDone, PTL DEF EnoughReceipts

\* Unless the process stops, a submit operation that is done (Submitter.recur, Monitor.status) got
\* receipts from all witnesses there were at some time since it was made.
THEOREM SubmitDoneHasReceipts == Spec => []SubmitDoneIsReceipted
<1>1. IInv => SubmitDoneIsReceipted
  <2> SUFFICES ASSUME IInv, crashes = 0, submit # 0, SubmitStatus = "done"
               PROVE  Receipted(submit)
    BY DEF SubmitDoneIsReceipted, Receipted
  <2>1. submits = 0 /\ doers = 0
    BY DEF SubmitStatus
  <2>2. Len(msgs) \in Nat /\ DOMAIN msgs = 1..Len(msgs)
    BY Lengths DEF IInv
  <2>3. Len(msgs) <= 0
    BY <2>1, <2>2 DEF IInv, ListedInv
  <2>4. DOMAIN msgs = {}
    BY <2>2, <2>3
  <2> QED BY <2>1, <2>4 DEF IInv, SubmitInv
<1> QED BY <1>1, Invariance, PTL

=============================================================================
