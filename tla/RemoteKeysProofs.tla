-------------------------- MODULE RemoteKeysProofs --------------------------
(***************************************************************************)
(* Proofs, for every set of identifiers and every number of passcodes,     *)
(* that a rotation of the passcode that was cut short can be recovered,    *)
(* and that it ends only when every salt is re-encrypted.                  *)
(***************************************************************************)
EXTENDS RemoteKeys, TLAPS

\* An identifier without Hab, or whose keeper has recorded no cipher yet, has none, nor public
\* keys of an earlier rotation; a salt is recorded after the algorithm.
FreshInv ==
  /\ \A m \in Aids :
       m \notin habs \/ (handler.op \in {"pres", "salt", "sits"} /\ handler.aid = m)
         => m \notin stale /\ \A s \in SlotsOf(m) : cipher[s] = None
  /\ \A m \in SaltyAids : cipher[Salt(m)] # None => m \in pres

\* What a handler relies on: which identifier it makes or rotates, that the passcode it saves is
\* the one before the client's, and that each salt is re-encrypted or still in its list.
HandlerInv ==
  /\ handler.op = "idle" => handler = Idle
  /\ handler.op = "pres" => handler.aid \in habs
  /\ handler.op = "salt" => handler.aid \in pres
  /\ handler.op \in {"salt", "resalt"} => handler.aid \in habs \cap SaltyAids
  /\ handler.op \in {"sits", "resits", "prx", "nxt"} => handler.aid \in habs \cap RandyAids
  /\ handler.op \in {"prx", "nxt"} => handler.aid \notin stale
  /\ handler.op = "save" => handler.plain = cur - 1
  /\ handler.op = "save" => \A m \in habs \cap SaltyAids : Salt(m) \in handler.keys
  /\ handler.op = "keys" => sxlt # None
  /\ handler.op = "keys" =>
       \A m \in habs \cap SaltyAids : Salt(m) \in handler.keys \/ cipher[Salt(m)] = cur

\* What a recovery stored at the current keys of an identifier that is listed with earlier ones,
\* it read at those, and encrypted then or later.
StaleInv ==
  \A m \in stale : \A s \in SlotsOf(m) :
    cipher[s] # None => older[s] # None /\ cipher[s] >= older[s]

IInv ==
  /\ TypeOK
  /\ FreshInv
  /\ StaleInv
  /\ HandlerInv
  /\ SavedPasscodeOpensKeys

\* Each slot belongs to one identifier.
LEMMA SlotFacts ==
  /\ \A m \in Aids : \A s \in SlotsOf(m) : s \in Slots /\ s[1] = m
  /\ \A m \in SaltyAids : SlotsOf(m) = {Salt(m)}
  /\ \A m \in RandyAids : SlotsOf(m) = {Prx(m), Nxt(m)}
<1>1. \A m \in RandyAids : m \notin SaltyAids
  BY AidsAssumption
<1>2. QED
  BY <1>1 DEF Aids, SlotsOf, Slots, Salt, Prx, Nxt

\* A put and a pin change one slot, to the client's passcode.
LEMMA Written ==
  ASSUME TypeOK, NEW slot \in Slots, Put(slot) \/ Pin(slot)
  PROVE  /\ cipher' \in [Slots -> Passcodes \cup {None}]
         /\ \A s \in Slots : s # slot => cipher'[s] = cipher[s]
         /\ cipher'[slot] = cur \/ cipher'[slot] = cipher[slot]
         /\ Pin(slot) => cipher'[slot] = cur
BY DEF TypeOK, Put, Pin

\* One of the body's keys: a salt that is there is pinned, a private key that is listed is put.
LEMMA Updated ==
  ASSUME TypeOK, NEW slot \in Slots, UpdateKey(slot)
  PROVE  /\ cipher' \in [Slots -> Passcodes \cup {None}]
         /\ UNCHANGED <<cur, sxlt, habs, pres, stale, older>>
         /\ \A s \in Slots : s # slot => cipher'[s] = cipher[s]
         /\ \/ slot[2] = "salt" /\ cipher[slot] # None /\ cipher'[slot] = cur
            \/ /\ slot[2] # "salt" /\ slot[1] \in habs
               /\ \/ cipher'[slot] = cipher[slot]
                  \/ cipher'[slot] = cur /\ Listed(slot) # None
<1>1. UNCHANGED <<cur, sxlt, habs, pres, stale, older>>
  BY DEF UpdateKey, lots
<1>2. CASE slot[2] = "salt" /\ cipher[slot] # None /\ Pin(slot)
  BY <1>1, <1>2, Written
<1>3. CASE slot[2] \in {"prx", "nxt"} /\ PutListed(slot)
  <2>1. CASE Put(slot) /\ Listed(slot) # None
    BY <1>1, <1>3, <2>1, Written DEF PutListed
  <2>2. CASE UNCHANGED cipher
    BY <1>1, <1>3, <2>2 DEF PutListed, TypeOK
  <2>3. QED
    BY <1>3, <2>1, <2>2 DEF PutListed
<1>4. QED
  BY <1>2, <1>3 DEF UpdateKey

\* Handlers are of their type.
LEMMA HandlerTypes ==
  /\ Idle \in Handlers
  /\ \A op \in KeyStages, m \in Aids : [op |-> op, aid |-> m, plain |-> 0, keys |-> {}] \in Handlers
  /\ \A h \in Handlers, op \in KeyStages \cup {"keys"} : [h EXCEPT !.op = op] \in Handlers
  /\ \A h \in Handlers, slot \in Slots : [h EXCEPT !.keys = h.keys \ {slot}] \in Handlers
<1> USE DEF Handlers
<1>1. Idle \in Handlers
  BY PassAssumption DEF Idle, Passcodes
<1>2. ASSUME NEW op \in KeyStages, NEW m \in Aids
      PROVE  [op |-> op, aid |-> m, plain |-> 0, keys |-> {}] \in Handlers
  BY PassAssumption DEF Idle, Passcodes
<1>3. ASSUME NEW h \in Handlers, NEW op \in KeyStages \cup {"keys"}
      PROVE  [h EXCEPT !.op = op] \in Handlers
  OBVIOUS
<1>4. ASSUME NEW h \in Handlers, NEW K \in SUBSET Slots PROVE [h EXCEPT !.keys = K] \in Handlers
  OBVIOUS
<1>5. ASSUME NEW h \in Handlers, NEW slot \in Slots PROVE h.keys \ {slot} \in SUBSET Slots
  OBVIOUS
<1>6. QED
  BY <1>1, <1>2, <1>3, <1>4, <1>5

\* The request of a passcode rotation lists slots only, every salt among them.
LEMMA RequestLists ==
  ASSUME habs \subseteq Aids, NEW unknown \in SUBSET (Aids \ habs), NEW plain \in Passcodes,
         Request(plain, unknown)
  PROVE  /\ handler' \in Handlers
         /\ handler'.op = "save"
         /\ handler'.plain = plain
         /\ \A m \in habs \cap SaltyAids : Salt(m) \in handler'.keys
<1> DEFINE K == UNION {SlotsOf(m) : m \in habs \cup unknown}
<1>1. K \in SUBSET Slots
  BY SlotFacts
<1>2. \A m \in habs \cap SaltyAids : Salt(m) \in K
  BY SlotFacts
<1>3. handler' = [op |-> "save", aid |-> None, plain |-> plain, keys |-> K]
  BY DEF Request
<1>4. QED
  BY <1>1, <1>2, <1>3 DEF Handlers

\* The initial state satisfies the inductive invariant.
LEMMA InitInv == Init => IInv
<1> SUFFICES ASSUME Init PROVE IInv
  OBVIOUS
<1> USE DEF Init
<1>1. TypeOK
  BY PassAssumption, HandlerTypes DEF TypeOK, Passcodes
<1>2. FreshInv
  <2>1. \A m \in SaltyAids : Salt(m) \in Slots
    BY DEF Slots, Salt
  <2>2. QED
    BY <2>1, SlotFacts DEF FreshInv
<1>3. HandlerInv
  BY DEF HandlerInv, Idle
<1>4. SavedPasscodeOpensKeys
  BY DEF SavedPasscodeOpensKeys
<1>5. StaleInv
  BY DEF StaleInv
<1>6. QED
  BY <1>1, <1>2, <1>3, <1>4, <1>5 DEF IInv

\* Every step keeps the variables within their types.
LEMMA StepType == ASSUME IInv, Next PROVE TypeOK'
<1> USE HandlerTypes DEF IInv, TypeOK, At, Goto, Finish, keeper, lots
<1>1. ASSUME NEW m \in Aids, Incept(m) PROVE TypeOK'
  <2>1. "pres" \in KeyStages
    BY DEF KeyStages
  <2>2. handler' \in Handlers
    BY <1>1, <2>1 DEF Incept, Handle
  <2>3. QED
    BY <1>1, <2>2 DEF Incept
<1>2. ASSUME NEW m \in Aids, RotateSalty(m) \/ RotateRandy(m) PROVE TypeOK'
  <2>1. {"resalt", "resits"} \subseteq KeyStages
    BY DEF KeyStages
  <2>2. handler' \in Handlers
    BY <1>2, <2>1 DEF RotateSalty, RotateRandy, Handle
  <2>3. cipher' \in [Slots -> Passcodes \cup {None}]
    BY <1>2 DEF RotateSalty, RotateRandy
  <2>4. \A slot \in Slots : Listed(slot) \in Passcodes \cup {None}
    BY DEF Listed
  <2>5. older' \in [Slots -> Passcodes \cup {None}] /\ stale' \subseteq RandyAids
    <3>1. CASE RotateRandy(m)
      <4>1. {Prx(m), Nxt(m)} \subseteq Slots
        BY <3>1, SlotFacts DEF RotateRandy
      <4>2. QED
        BY <2>4, <3>1, <4>1 DEF RotateRandy
    <3>2. QED
      BY <1>2, <3>1 DEF RotateSalty
  <2>6. QED
    BY <1>2, <2>2, <2>3, <2>5 DEF RotateSalty, RotateRandy
<1>3. ASSUME NEW m \in Aids, InceptRefused(m) \/ RotateSaltRefused(m) PROVE TypeOK'
  BY <1>3 DEF InceptRefused, RotateSaltRefused
<1>4. ASSUME NEW m \in Aids, InceptPres(m) PROVE TypeOK'
  <2>1. (IF m \in SaltyAids THEN "salt" ELSE "sits") \in KeyStages
    BY DEF KeyStages
  <2>2. handler' \in Handlers
    BY <1>4, <2>1 DEF InceptPres
  <2>3. QED
    BY <1>4, <2>2 DEF InceptPres
<1>5. ASSUME NEW m \in Aids, InceptSalt(m) \/ RotateSalt(m) PROVE TypeOK'
  BY <1>5 DEF InceptSalt, RotateSalt, Pin
<1>6. ASSUME NEW m \in Aids, InceptSits(m) \/ RotateSits(m) PROVE TypeOK'
  <2>1. m \in RandyAids
    BY <1>6 DEF InceptSits, RotateSits, HandlerInv
  <2>2. "prx" \in KeyStages
    BY DEF KeyStages
  <2>3. handler' \in Handlers
    BY <1>6, <2>2 DEF InceptSits, RotateSits
  <2>4. QED
    BY <1>6, <2>1, <2>3 DEF InceptSits, RotateSits
<1>7. ASSUME NEW m \in Aids, PutPrx(m) \/ PutNxt(m) PROVE TypeOK'
  <2>1. "nxt" \in KeyStages
    BY DEF KeyStages
  <2>2. handler' \in Handlers
    BY <1>7, <2>1 DEF PutPrx, PutNxt
  <2>3. cipher' \in [Slots -> Passcodes \cup {None}]
    BY <1>7 DEF PutPrx, PutNxt, Put
  <2>4. QED
    BY <1>7, <2>2, <2>3 DEF PutPrx, PutNxt
<1>8. ASSUME NEW unknown \in SUBSET (Aids \ habs), RotatePasscode(unknown) PROVE TypeOK'
  <2>1. cur' \in Passcodes
    BY <1>8, PassAssumption DEF RotatePasscode, Passcodes
  <2>2. handler' \in Handlers
    BY <1>8, RequestLists DEF RotatePasscode
  <2>3. QED
    BY <1>8, <2>1, <2>2 DEF RotatePasscode
<1>9. ASSUME NEW unknown \in SUBSET (Aids \ habs), NEW plain \in Passcodes,
             RecoverPasscode(plain, unknown)
      PROVE  TypeOK'
  BY <1>9, RequestLists DEF RecoverPasscode
<1>10. CASE SavePasscode
  <2>1. sxlt' \in Sealed
    BY <1>10 DEF SavePasscode, Sealed, Handlers
  <2>2. QED
    BY <1>10, <2>1 DEF SavePasscode
<1>11. CASE Forbid \/ UpdateRefused \/ DeletePasscode
  BY <1>11 DEF Forbid, UpdateRefused, DeletePasscode
<1>12. ASSUME NEW slot \in Slots, UpdateKey(slot) PROVE TypeOK'
  <2>1. cipher' \in [Slots -> Passcodes \cup {None}]
    BY <1>12, Updated
  <2>2. handler' \in Handlers
    BY <1>12 DEF UpdateKey
  <2>3. QED
    BY <1>12, <2>1, <2>2 DEF UpdateKey
<1>13. CASE Crash
  <2>1. kills' \in 0..MaxKills
    BY <1>13, PassAssumption DEF Crash
  <2>2. QED
    BY <1>13, <2>1 DEF Crash
<1>14. QED
  BY <1>1, <1>2, <1>3, <1>4, <1>5, <1>6, <1>7, <1>8, <1>9, <1>10, <1>11, <1>12, <1>13
     DEF Next, Client, Recover, KeeperStep, PasscodeStep

\* What is not written keeps its cipher; what a handler of identifier m writes belongs to m.
LEMMA KeeperWrites ==
  ASSUME TypeOK, HandlerInv, NEW m \in Aids,
         InceptSalt(m) \/ RotateSalt(m) \/ PutPrx(m) \/ PutNxt(m)
  PROVE  /\ m \in habs /\ habs' = habs
         /\ \A s \in Slots : cipher'[s] = cipher[s] \/ (s[1] = m /\ cipher'[s] = cur)
         /\ \A s \in Slots : cipher'[s] # None /\ cipher[s] = None /\ s[2] = "salt" => m \in pres
         /\ handler' = Idle \/ (handler'.op = "nxt" /\ handler'.aid = m /\ m \in RandyAids)
<1> USE AidsAssumption DEF TypeOK, HandlerInv, At, Goto, Finish
<1>1. CASE InceptSalt(m) \/ RotateSalt(m)
  <2>1. m \in SaltyAids \cap habs /\ Salt(m) \in Slots /\ Pin(Salt(m))
    BY <1>1 DEF InceptSalt, RotateSalt, Salt, Slots
  <2>2. m \in pres
    BY <1>1 DEF InceptSalt, RotateSalt
  <2>3. QED
    BY <1>1, <2>1, <2>2, Written DEF InceptSalt, RotateSalt, Salt
<1>2. CASE PutPrx(m) \/ PutNxt(m)
  <2>1. PICK slot \in {Prx(m), Nxt(m)} : Put(slot)
    BY <1>2 DEF PutPrx, PutNxt
  <2>2. m \in RandyAids \cap habs /\ slot \in Slots /\ slot[1] = m /\ slot[2] # "salt"
    BY <1>2, <2>1 DEF PutPrx, PutNxt, Slots, Prx, Nxt
  <2>3. handler' = Idle \/ (handler'.op = "nxt" /\ handler'.aid = m)
    BY <1>2 DEF PutPrx, PutNxt, Handlers
  <2>4. habs' = habs
    BY <1>2 DEF PutPrx, PutNxt
  <2>5. QED
    BY <2>1, <2>2, <2>3, <2>4, Written
<1>3. QED
  BY <1>1, <1>2

\* An identifier that is not there, or not yet in its keeper, has no cipher.
LEMMA StepFresh == ASSUME IInv, Next PROVE FreshInv'
<1> USE SlotFacts DEF IInv, FreshInv, At, Goto, Finish, keeper, lots
<1>0. {Salt(m) : m \in SaltyAids} \subseteq Slots
  BY DEF Slots, Salt
<1>1. ASSUME NEW n \in Aids, Incept(n) PROVE FreshInv'
  BY <1>1 DEF Incept, Handle
<1>2. ASSUME NEW n \in Aids, InceptRefused(n) PROVE FreshInv'
  BY <1>2 DEF InceptRefused, Idle
<1>3. ASSUME NEW n \in Aids, RotateSaltRefused(n) PROVE FreshInv'
  <2>1. n \in SaltyAids /\ cipher[Salt(n)] = None /\ n \notin stale
    BY <1>3, AidsAssumption DEF RotateSaltRefused, HandlerInv, TypeOK
  <2>2. QED
    BY <1>3, <2>1 DEF RotateSaltRefused, Idle
<1>4. ASSUME NEW n \in Aids, InceptPres(n) PROVE FreshInv'
  BY <1>4 DEF InceptPres, TypeOK, Handlers
<1>5. ASSUME NEW n \in Aids, InceptSits(n) \/ RotateSits(n) PROVE FreshInv'
  BY <1>5 DEF InceptSits, RotateSits, TypeOK, Handlers, Idle
<1>6. ASSUME NEW n \in Aids, InceptSalt(n) \/ RotateSalt(n) \/ PutPrx(n) \/ PutNxt(n)
      PROVE  FreshInv'
  <2>1. pres' = pres /\ stale' = stale
    BY <1>6 DEF InceptSalt, RotateSalt, PutPrx, PutNxt
  <2>5. ASSUME NEW m \in Aids,
               m \notin habs' \/ (handler'.op \in {"pres", "salt", "sits"} /\ handler'.aid = m)
        PROVE  m \notin stale'
    BY <1>6, <2>1, <2>5, KeeperWrites DEF Idle
  <2>2. ASSUME NEW m \in Aids, NEW s \in SlotsOf(m),
               m \notin habs' \/ (handler'.op \in {"pres", "salt", "sits"} /\ handler'.aid = m)
        PROVE  cipher'[s] = None
    BY <1>6, <2>2, KeeperWrites DEF Idle
  <2>3. ASSUME NEW m \in SaltyAids, cipher'[Salt(m)] # None PROVE m \in pres'
    <3>1. Salt(m) \in Slots /\ Salt(m)[1] = m /\ Salt(m)[2] = "salt"
      BY DEF Slots, Salt
    <3>2. QED
      BY <1>6, <2>1, <2>3, <3>1, KeeperWrites
  <2>4. QED
    BY <2>2, <2>3, <2>5
<1>7. ASSUME NEW n \in Aids, RotateSalty(n) PROVE FreshInv'
  BY <1>7 DEF RotateSalty, Handle
<1>8. ASSUME NEW n \in Aids, RotateRandy(n) PROVE FreshInv'
  <2>1. \A s \in Slots : cipher'[s] = cipher[s] \/ cipher'[s] = None
    BY <1>8 DEF RotateRandy, TypeOK
  <2>2. Serving /\ habs' = habs /\ pres' = pres /\ handler'.op = "resits"
        /\ stale' = stale \cup {n} /\ n \in habs
    BY <1>8 DEF RotateRandy, Handle
  <2>3. QED
    BY <1>0, <2>1, <2>2 DEF Salt
<1>9. ASSUME NEW slot \in Slots, UpdateKey(slot) PROVE FreshInv'
  <2>1. UNCHANGED <<habs, pres, stale>> /\ handler'.op = "keys"
    BY <1>9 DEF UpdateKey, TypeOK, Handlers, lots
  <2>2. \A s \in Slots : s # slot => cipher'[s] = cipher[s]
    BY <1>9, Updated
  <2>3. \/ slot[2] = "salt" /\ cipher[slot] # None
        \/ slot[2] # "salt" /\ slot[1] \in habs
    BY <1>9, Updated
  <2>4. ASSUME NEW m \in Aids, NEW s \in SlotsOf(m), m \notin habs PROVE cipher'[s] = None
    BY <2>2, <2>3, <2>4
  <2>5. ASSUME NEW m \in SaltyAids, cipher'[Salt(m)] # None PROVE m \in pres
    <3>1. Salt(m) \in Slots /\ Salt(m)[2] = "salt"
      BY DEF Slots, Salt
    <3>2. QED
      BY <2>2, <2>3, <2>5, <3>1
  <2>6. QED
    BY <2>1, <2>4, <2>5
<1>10. ASSUME UNCHANGED <<habs, pres, cipher, stale>>, handler'.op \notin {"pres", "salt", "sits"}
       PROVE  FreshInv'
  BY <1>10
<1>11. ASSUME NEW unknown \in SUBSET (Aids \ habs), NEW plain \in Passcodes,
              RotatePasscode(unknown) \/ RecoverPasscode(plain, unknown)
       PROVE  FreshInv'
  BY <1>10, <1>11 DEF RotatePasscode, RecoverPasscode, Request
<1>12. CASE SavePasscode \/ Forbid \/ UpdateRefused \/ DeletePasscode \/ Crash
  BY <1>10, <1>12 DEF SavePasscode, Forbid, UpdateRefused, DeletePasscode, Crash, Idle, TypeOK,
                      Handlers
<1>13. QED
  BY <1>1, <1>2, <1>3, <1>4, <1>5, <1>6, <1>7, <1>8, <1>9, <1>11, <1>12
     DEF Next, Client, Recover, KeeperStep, PasscodeStep, TypeOK, Passcodes

\* A slot of a randy identifier holds its current or its next key.
LEMMA RandySlots ==
  ASSUME NEW m \in RandyAids, NEW s \in Slots, s[1] = m
  PROVE  s = Prx(m) \/ s = Nxt(m)
BY AidsAssumption DEF Slots, Prx, Nxt

\* How any step changes what the agent holds and lists: a new Hab has nothing, and for the others
\* a key that is kept or listed was kept or listed before, or opens with the client's passcode.
LEMMA CipherChanges ==
  ASSUME IInv, Next
  PROVE  /\ \A m \in habs' : m \notin habs => \A s \in SlotsOf(m) : cipher'[s] = None /\ Listed(s)' = None
         /\ \A s \in Slots : {cipher'[s], Listed(s)'} \subseteq {cipher[s], Listed(s), cur, None}
<1> USE SlotFacts DEF IInv, keeper, lots
<1>1. ASSUME NEW m \in Aids, Incept(m) PROVE
        /\ \A n \in habs' : n \notin habs => \A s \in SlotsOf(n) : cipher'[s] = None /\ Listed(s)' = None
        /\ UNCHANGED <<cipher, stale, older>>
  BY <1>1 DEF Incept, FreshInv, Listed
<1>2. ASSUME NEW m \in Aids, InceptSalt(m) \/ RotateSalt(m) \/ PutPrx(m) \/ PutNxt(m) PROVE
        /\ UNCHANGED <<habs, stale, older>>
        /\ \A s \in Slots : cipher'[s] \in {cipher[s], cur}
  BY <1>2, KeeperWrites DEF InceptSalt, RotateSalt, PutPrx, PutNxt
<1>3. ASSUME NEW m \in Aids, RotateRandy(m) PROVE
        /\ habs' = habs
        /\ \A s \in Slots : {cipher'[s], Listed(s)'} \subseteq {cipher[s], Listed(s), None}
  <2>1. m \in RandyAids /\ habs' = habs /\ stale' = stale \cup {m}
    BY <1>3 DEF RotateRandy
  <2>2. ASSUME NEW s \in Slots, s[1] = m PROVE cipher'[s] = None /\ older'[s] = Listed(s)
    BY <1>3, <2>1, <2>2, RandySlots DEF RotateRandy, TypeOK, Prx, Nxt
  <2>3. ASSUME NEW s \in Slots, s[1] # m PROVE cipher'[s] = cipher[s] /\ older'[s] = older[s]
    BY <1>3, <2>3 DEF RotateRandy, TypeOK, Prx, Nxt
  <2>4. QED
    BY <2>1, <2>2, <2>3 DEF Listed
<1>4. ASSUME NEW slot \in Slots, UpdateKey(slot) PROVE
        /\ UNCHANGED <<habs, stale, older>>
        /\ \A s \in Slots : cipher'[s] \in {cipher[s], cur}
  BY <1>4, Updated
<1>5. ASSUME NEW m \in Aids, RotateSits(m) PROVE
        /\ UNCHANGED <<habs, cipher>>
        /\ \A s \in Slots : Listed(s)' \in {cipher[s], Listed(s)}
  <2>1. UNCHANGED <<habs, cipher>> /\ stale' \in {stale, stale \ {m}}
    BY <1>5 DEF RotateSits
  <2>2. ASSUME NEW s \in Slots, s[1] # m PROVE older'[s] = older[s]
    BY <1>5, <2>2 DEF RotateSits, TypeOK, Prx, Nxt
  <2>3. ASSUME NEW s \in Slots, s[1] = m PROVE m \notin stale' \/ UNCHANGED <<stale, older>>
    BY <1>5 DEF RotateSits
  <2>4. QED
    BY <2>1, <2>2, <2>3 DEF Listed
<1>6. ASSUME UNCHANGED <<stale, older>>,
             \A s \in Slots : cipher'[s] \in {cipher[s], cur}
      PROVE  \A s \in Slots : {cipher'[s], Listed(s)'} \subseteq {cipher[s], Listed(s), cur, None}
  BY <1>6 DEF Listed
<1>7. ASSUME habs' \subseteq habs, UNCHANGED <<cipher, stale, older>>
      PROVE  /\ habs' \subseteq habs
             /\ \A s \in Slots : {cipher'[s], Listed(s)'} \subseteq {cipher[s], Listed(s), cur, None}
  BY <1>7 DEF Listed
<1>8. QED
  BY <1>1, <1>2, <1>3, <1>4, <1>5, <1>6, <1>7
     DEF Next, Client, Recover, KeeperStep, PasscodeStep, InceptRefused, InceptPres, InceptSits,
         RotateSalty, RotateSaltRefused, RotatePasscode, RecoverPasscode,
         SavePasscode, Forbid, UpdateRefused, DeletePasscode, Crash

\* What a stale listing holds is no newer than what is kept at the current keys.
LEMMA StepStale == ASSUME IInv, Next PROVE StaleInv'
<1> USE SlotFacts DEF IInv, StaleInv, keeper, lots
<1>0. stale \subseteq Aids /\ \A s \in Slots : cipher[s] \in Passcodes \cup {None} /\ older[s] \in Passcodes \cup {None}
  BY DEF TypeOK, Aids
<1>1. ASSUME NEW n \in Aids, InceptSalt(n) \/ RotateSalt(n) \/ PutPrx(n) \/ PutNxt(n) PROVE StaleInv'
  <2>1. UNCHANGED <<stale, older>> /\ n \notin stale
    BY <1>1, AidsAssumption DEF InceptSalt, RotateSalt, PutPrx, PutNxt, HandlerInv, TypeOK, At
  <2>2. \A s \in Slots : s[1] # n => cipher'[s] = cipher[s]
    BY <1>1, KeeperWrites
  <2>3. QED
    BY <1>0, <2>1, <2>2
<1>2. ASSUME NEW m \in Aids, RotateRandy(m) PROVE StaleInv'
  <2>1. m \in RandyAids /\ stale' = stale \cup {m}
    BY <1>2 DEF RotateRandy
  <2>2. ASSUME NEW s \in Slots, s[1] = m PROVE cipher'[s] = None
    BY <1>2, <2>1, <2>2, RandySlots DEF RotateRandy, TypeOK, Prx, Nxt
  <2>3. ASSUME NEW s \in Slots, s[1] # m PROVE cipher'[s] = cipher[s] /\ older'[s] = older[s]
    BY <1>2, <2>3 DEF RotateRandy, TypeOK, Prx, Nxt
  <2>4. QED
    BY <1>0, <2>1, <2>2, <2>3
<1>3. ASSUME NEW m \in Aids, RotateSits(m) PROVE StaleInv'
  <2>1. UNCHANGED cipher /\ stale' \subseteq stale
    BY <1>3 DEF RotateSits
  <2>2. ASSUME NEW s \in Slots, s[1] # m PROVE older'[s] = older[s]
    BY <1>3, <2>2 DEF RotateSits, TypeOK, Prx, Nxt
  <2>3. m \notin stale' \/ UNCHANGED <<stale, older>>
    BY <1>3 DEF RotateSits
  <2>4. QED
    BY <1>0, <2>1, <2>2, <2>3
<1>4. ASSUME NEW slot \in Slots, UpdateKey(slot) PROVE StaleInv'
  <2>1. /\ UNCHANGED <<stale, older>>
        /\ \A s \in Slots : s # slot => cipher'[s] = cipher[s]
        /\ \/ slot[2] = "salt"
           \/ cipher'[slot] = cipher[slot]
           \/ cipher'[slot] = cur /\ Listed(slot) # None
    BY <1>4, Updated
  <2>2. slot[1] \in stale => slot[2] # "salt"
    BY AidsAssumption DEF TypeOK, Slots
  <2>3. ASSUME slot[1] \in stale, cipher'[slot] = cur, Listed(slot) # None
        PROVE  older[slot] # None /\ cur >= older[slot]
    <3>1. Listed(slot) = older[slot] /\ slot[1] \in RandyAids
      BY <2>3 DEF Listed, TypeOK
    <3>2. slot \in SlotsOf(slot[1])
      BY <3>1, RandySlots
    <3>3. slot[1] \in habs
      BY <1>0, <2>3, <3>2 DEF FreshInv
    <3>4. older[slot] \in {cur, cur - 1, None}
      BY <3>1, <3>2, <3>3 DEF SavedPasscodeOpensKeys
    <3>5. QED
      BY <2>3, <3>1, <3>4 DEF TypeOK, Passcodes
  <2>4. QED
    BY <1>0, <2>1, <2>2, <2>3
<1>5. ASSUME UNCHANGED <<cipher, stale, older>> PROVE StaleInv'
  BY <1>5
<1>6. QED
  BY <1>1, <1>2, <1>3, <1>4, <1>5
     DEF Next, Client, Recover, KeeperStep, PasscodeStep, Incept, InceptRefused, InceptPres,
         InceptSits, RotateSalty, RotateSaltRefused, RotatePasscode, RecoverPasscode,
         SavePasscode, Forbid, UpdateRefused, DeletePasscode, Crash

\* The client's passcode and the one before it open every key, and the latter is what is saved.
LEMMA StepSaved == ASSUME IInv, Next PROVE SavedPasscodeOpensKeys'
<1> USE SlotFacts DEF IInv, keeper
<1>1. habs' \subseteq Aids
  BY StepType DEF TypeOK
<1>2. ASSUME cur' = cur
      PROVE  \A m \in habs' : \A s \in SlotsOf(m) : {cipher'[s], Listed(s)'} \subseteq {cur, cur - 1, None}
  <2> SUFFICES ASSUME NEW m \in habs', NEW s \in SlotsOf(m)
               PROVE  {cipher'[s], Listed(s)'} \subseteq {cur, cur - 1, None}
    OBVIOUS
  <2>1. CASE m \notin habs
    BY <2>1, CipherChanges
  <2>2. CASE m \in habs
    <3>1. {cipher[s], Listed(s)} \subseteq {cur, cur - 1, None}
      BY <2>2 DEF SavedPasscodeOpensKeys
    <3>2. {cipher'[s], Listed(s)'} \subseteq {cipher[s], Listed(s), cur, None}
      BY <1>1, CipherChanges
    <3>3. QED
      BY <3>1, <3>2
  <2>3. QED
    BY <2>1, <2>2
<1>3. ASSUME NEW unknown \in SUBSET (Aids \ habs), RotatePasscode(unknown)
      PROVE  SavedPasscodeOpensKeys'
  <2>1. /\ OpensAll({cur}) /\ UNCHANGED <<habs, cipher, stale, older>>
        /\ sxlt' = None /\ cur' - 1 = cur /\ cur \in Nat
    BY <1>3 DEF RotatePasscode, TypeOK, Passcodes
  <2>2. ASSUME NEW m \in habs, NEW s \in SlotsOf(m) PROVE {cipher[s], Listed(s)} \subseteq {cur, None}
    <3>1. m \in Aids /\ s \in Slots /\ s[1] = m
      BY DEF TypeOK
    <3>2. Listed(s) \in {cur, None} /\ cipher[s] \in {cur, cur - 1, None}
      BY <2>1 DEF OpensAll, Opens, SavedPasscodeOpensKeys
    <3>3. CASE m \in stale
      <4>1. Listed(s) = older[s]
        BY <3>1, <3>3 DEF Listed
      <4>2. cipher[s] # None => older[s] # None /\ cipher[s] >= older[s]
        BY <3>3 DEF StaleInv
      <4>3. QED
        BY <2>1, <3>2, <4>1, <4>2
    <3>4. CASE m \notin stale
      BY <3>1, <3>2, <3>4 DEF Listed
    <3>5. QED
      BY <3>3, <3>4
  <2>3. \A s \in Slots : Listed(s)' = Listed(s)
    BY <2>1 DEF Listed
  <2>4. \A m \in habs' : \A s \in SlotsOf(m) : {cipher'[s], Listed(s)'} \subseteq {cur', cur' - 1, None}
    BY <1>1, <2>1, <2>2, <2>3
  <2>5. QED
    BY <2>1, <2>4 DEF SavedPasscodeOpensKeys
<1>4. CASE SavePasscode
  <2>1. cur' = cur /\ sxlt' = [plain |-> cur - 1, under |-> cur]
    BY <1>4 DEF SavePasscode, HandlerInv
  <2>2. QED
    BY <1>2, <2>1 DEF SavedPasscodeOpensKeys
<1>5. CASE DeletePasscode
  <2>1. cur' = cur /\ sxlt' = None
    BY <1>5 DEF DeletePasscode
  <2>2. QED
    BY <1>2, <2>1 DEF SavedPasscodeOpensKeys
<1>6. ASSUME cur' = cur, sxlt' = sxlt PROVE SavedPasscodeOpensKeys'
  BY <1>2, <1>6 DEF SavedPasscodeOpensKeys
<1>7. QED
  BY <1>3, <1>4, <1>5, <1>6
     DEF Next, Client, Recover, KeeperStep, PasscodeStep, Incept, InceptRefused, InceptPres,
         InceptSalt, InceptSits, RotateSalty, RotateSalt, RotateSaltRefused, RotateRandy,
         RotateSits, PutPrx, PutNxt, RecoverPasscode, Forbid, UpdateKey, UpdateRefused, Crash

\* What the next step of a handler relies on holds when it is taken.
LEMMA StepHandler == ASSUME IInv, Next PROVE HandlerInv'
<1> USE DEF IInv, At, Goto, Finish, Serving, keeper, lots
<1>0. ASSUME handler' = Idle PROVE HandlerInv'
  BY <1>0 DEF HandlerInv, Idle
<1>1. ASSUME NEW m \in Aids, Incept(m) PROVE HandlerInv'
  BY <1>1 DEF Incept, Handle, HandlerInv, Idle
<1>2. ASSUME NEW m \in Aids, InceptPres(m) PROVE HandlerInv'
  BY <1>2 DEF InceptPres, HandlerInv, Idle, TypeOK, Handlers, Aids
<1>3. ASSUME NEW m \in Aids, InceptSits(m) \/ RotateSits(m) PROVE HandlerInv'
  <2>1. CASE InceptSits(m)
    <3>1. m \notin stale
      BY <2>1 DEF InceptSits, FreshInv
    <3>2. QED
      BY <2>1, <3>1 DEF InceptSits, HandlerInv, TypeOK, Handlers, Idle
  <2>2. CASE RotateSits(m)
    BY <1>0, <2>2 DEF RotateSits, HandlerInv, TypeOK, Handlers, Idle
  <2>3. QED
    BY <1>3, <2>1, <2>2
<1>4. ASSUME NEW m \in Aids, InceptSalt(m) \/ RotateSalt(m) \/ PutPrx(m) \/ PutNxt(m)
      PROVE  HandlerInv'
  <2>1. m \in habs /\ habs' = habs /\ stale' = stale
    BY <1>4, KeeperWrites DEF InceptSalt, RotateSalt, PutPrx, PutNxt
  <2>2. handler' = Idle \/ (handler'.op = "nxt" /\ handler'.aid = m /\ m \in RandyAids)
    BY <1>4, KeeperWrites
  <2>3. handler'.op = "nxt" => m \notin stale
    BY <1>4, <2>2 DEF InceptSalt, RotateSalt, PutPrx, PutNxt, HandlerInv, Idle
  <2>4. QED
    BY <1>0, <2>1, <2>2, <2>3 DEF HandlerInv, Idle
<1>5. ASSUME NEW m \in Aids, RotateSalty(m) \/ RotateRandy(m) PROVE HandlerInv'
  BY <1>5 DEF RotateSalty, RotateRandy, Handle, HandlerInv, Idle
<1>6. ASSUME NEW unknown \in SUBSET (Aids \ habs), RotatePasscode(unknown) PROVE HandlerInv'
  <2>1. /\ handler'.op = "save"
        /\ handler'.plain = cur
        /\ \A m \in habs \cap SaltyAids : Salt(m) \in handler'.keys
    BY <1>6, RequestLists DEF RotatePasscode, TypeOK
  <2>2. habs' = habs /\ cur' - 1 = cur
    BY <1>6 DEF RotatePasscode, TypeOK, Passcodes
  <2>3. QED
    BY <2>1, <2>2 DEF HandlerInv
<1>7. ASSUME NEW unknown \in SUBSET (Aids \ habs), NEW plain \in Passcodes,
             RecoverPasscode(plain, unknown)
      PROVE  HandlerInv'
  <2>1. /\ handler'.op = "save"
        /\ handler'.plain = plain
        /\ \A m \in habs \cap SaltyAids : Salt(m) \in handler'.keys
    BY <1>7, RequestLists DEF RecoverPasscode, TypeOK
  <2>2. UNCHANGED <<cur, habs>> /\ plain = cur - 1
    BY <1>7 DEF RecoverPasscode, SavedPasscode, SavedPasscodeOpensKeys
  <2>3. QED
    BY <2>1, <2>2 DEF HandlerInv
<1>8. CASE SavePasscode
  <2>1. sxlt' # None
    BY <1>8, NoneAssumption DEF SavePasscode, TypeOK, Handlers, Sealed
  <2>2. handler'.op = "keys" /\ handler'.keys = handler.keys /\ UNCHANGED habs
    BY <1>8 DEF SavePasscode, TypeOK, Handlers
  <2>3. \A m \in habs \cap SaltyAids : Salt(m) \in handler.keys
    BY <1>8 DEF SavePasscode, HandlerInv
  <2>4. QED
    BY <2>1, <2>2, <2>3 DEF HandlerInv
<1>9. ASSUME NEW slot \in Slots, UpdateKey(slot) PROVE HandlerInv'
  <2>1. /\ handler'.op = "keys"
        /\ handler'.keys = handler.keys \ {slot}
        /\ UNCHANGED <<cur, sxlt, habs>>
    BY <1>9 DEF UpdateKey, TypeOK, Handlers
  <2>2. ASSUME NEW m \in habs \cap SaltyAids PROVE Salt(m) \in handler'.keys \/ cipher'[Salt(m)] = cur
    <3>1. Salt(m) \in Slots /\ Salt(m)[2] = "salt"
      BY DEF Slots, Salt
    <3>2. Salt(m) \in handler.keys \/ cipher[Salt(m)] = cur
      BY <1>9 DEF HandlerInv, UpdateKey
    <3>3. CASE slot = Salt(m)
      BY <1>9, <3>1, <3>3, Updated
    <3>4. CASE slot # Salt(m)
      BY <1>9, <2>1, <3>1, <3>2, <3>4, Updated
    <3>5. QED
      BY <3>3, <3>4
  <2>3. sxlt # None
    BY <1>9 DEF UpdateKey, HandlerInv
  <2>4. QED
    BY <2>1, <2>2, <2>3 DEF HandlerInv, Idle
<1>10. QED
  BY <1>0, <1>1, <1>2, <1>3, <1>4, <1>5, <1>6, <1>7, <1>8, <1>9
     DEF Next, Client, Recover, KeeperStep, PasscodeStep, InceptRefused, RotateSaltRefused,
         Forbid, UpdateRefused, DeletePasscode, Crash

\* The saved passcode is deleted by DeletePasscode alone, when the list of keys is empty.
LEMMA StepRecrypted ==
  ASSUME IInv, Next, sxlt # None, sxlt' = None
  PROVE  \A m \in habs \cap SaltyAids : cipher'[Salt(m)] = cur'
<1>1. DeletePasscode
  <2>1. UNCHANGED sxlt \/ SavePasscode \/ DeletePasscode
    BY DEF Next, Client, Recover, KeeperStep, PasscodeStep, Incept, InceptRefused, InceptPres,
           InceptSalt, InceptSits, RotateSalty, RotateSalt, RotateSaltRefused, RotateRandy,
           RotateSits, PutPrx, PutNxt, RotatePasscode, RecoverPasscode, Forbid, UpdateKey,
           UpdateRefused, Crash
  <2>2. SavePasscode => sxlt' \in Sealed
    BY DEF SavePasscode, IInv, TypeOK, Handlers, Sealed
  <2>3. QED
    BY <2>1, <2>2, NoneAssumption
<1>2. QED
  BY <1>1 DEF DeletePasscode, IInv, HandlerInv, keeper

\* Every step of the keeper and its client keeps the invariant.
LEMMA StepInv == IInv /\ [Next]_vars => IInv'
<1> SUFFICES ASSUME IInv, [Next]_vars PROVE IInv'
  OBVIOUS
<1>1. CASE Next
  BY <1>1, StepType, StepFresh, StepHandler, StepStale, StepSaved DEF IInv
<1>2. CASE UNCHANGED vars
  BY <1>2 DEF vars, IInv, TypeOK, FreshInv, HandlerInv, StaleInv, SavedPasscodeOpensKeys, Listed
<1>3. QED
  BY <1>1, <1>2

\* The invariant holds in every reachable state.
LEMMA Inductive == Spec => []IInv
<1>1. Init => IInv
  BY InitInv
<1>2. IInv /\ [Next]_vars => IInv'
  BY StepInv
<1>3. QED
  BY <1>1, <1>2, PTL DEF Spec

-----------------------------------------------------------------------------

\* The variables keep their types.
THEOREM TypeCorrect == Spec => []TypeOK
<1>1. IInv => TypeOK
  BY DEF IInv
<1>2. QED
  BY <1>1, Inductive, PTL

\* However often a passcode rotation is cut short, and whatever identifiers are made or rotated
\* meanwhile, the client's passcode and the one before it open every key that is kept, and a saved
\* passcode is the latter, sealed under the former.
THEOREM RecoveryPossible == Spec => []SavedPasscodeOpensKeys
<1>1. IInv => SavedPasscodeOpensKeys
  BY DEF IInv
<1>2. QED
  BY <1>1, Inductive, PTL

\* AgentResourceEnd.on_put deletes the saved passcode only when every salt of an identifier
\* that has a Hab is encrypted under the client's passcode.
THEOREM RotationComplete == Spec => SaltsRecrypted
<1>1. IInv /\ [Next]_vars =>
        [sxlt # None /\ sxlt' = None => \A m \in habs \cap SaltyAids : cipher'[Salt(m)] = cur']_vars
  <2> SUFFICES ASSUME IInv, [Next]_vars, sxlt # None, sxlt' = None, ~UNCHANGED vars
               PROVE  \A m \in habs \cap SaltyAids : cipher'[Salt(m)] = cur'
    OBVIOUS
  <2>1. Next
    OBVIOUS
  <2>2. QED
    BY <2>1, StepRecrypted
<1>2. QED
  BY <1>1, Inductive, PTL DEF Spec, SaltsRecrypted

=============================================================================
