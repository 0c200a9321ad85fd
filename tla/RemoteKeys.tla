----------------------------- MODULE RemoteKeys -----------------------------
(***************************************************************************)
(* The encrypted keys one agent keeps for its client (RemoteManager and    *)
(* its keepers) and the rotation of the client's passcode that re-encrypts *)
(* them (AgentResourceEnd.on_put).                                         *)
(*                                                                         *)
(* A passcode is a number, and a cipher is the number of the passcode it   *)
(* opens with.  A salty identifier has one cipher, its salt; a randy one   *)
(* has two, of its current and of its next private key.  The client        *)
(* follows docs/protocol.md: it sends a rotation only when it can open     *)
(* every cipher it lists.  A handler's writes are separate actions,        *)
(* between which the process may be killed and restarted.                  *)
(***************************************************************************)
EXTENDS Integers

CONSTANTS
  SaltyAids,  \* identifiers whose keys derive from an encrypted salt
  RandyAids,  \* identifiers whose keys are random, and stored encrypted
  MaxPass,    \* bound: the last passcode
  MaxKills,   \* bound: how often the process is killed
  None        \* absent value

ASSUME PassAssumption == MaxPass \in Nat /\ MaxKills \in Nat
ASSUME AidsAssumption == SaltyAids \cap RandyAids = {}

Aids      == SaltyAids \cup RandyAids
Passcodes == 0..MaxPass
Salt(m)   == <<m, "salt">>
Prx(m)    == <<m, "prx">>
Nxt(m)    == <<m, "nxt">>
SlotsOf(m) == IF m \in SaltyAids THEN {Salt(m)} ELSE {Prx(m), Nxt(m)}
Slots     == (SaltyAids \X {"salt"}) \cup (RandyAids \X {"prx", "nxt"})
Sealed    == [plain : Passcodes, under : Passcodes]

ASSUME NoneAssumption == None \notin Passcodes \cup Aids \cup Sealed

VARIABLES
  cur,      \* the passcode whose key signs for the client in its KEL
  sxlt,     \* rb.gbls "sxlt": the old passcode, sealed under the new one
  habs,     \* identifiers that have a Hab
  pres,     \* rb.pres: those whose keeper knows their algorithm
  sits,     \* rb.sits: randy identifiers whose public keys are stored
  cipher,   \* rb.sprms, and rb.prxs and rb.nxts at the current keys: slot -> passcode
  stale,    \* randy identifiers whose rb.sits still names the keys before the last rotation
  older,    \* rb.prxs and rb.nxts at those keys, as long as rb.sits names them
  handler,  \* the request between two of its writes
  kills     \* how often the process was killed

lots   == <<stale, older>>
keeper == <<pres, sits, cipher, stale, older>>
vars   == <<cur, sxlt, habs, pres, sits, cipher, stale, older, handler, kills>>

Idle      == [op |-> "idle", aid |-> None, plain |-> 0, keys |-> {}]
KeyStages == {"pres", "salt", "sits", "prx", "nxt", "resalt", "resits"}
Handlers  == [op : {"idle", "save", "keys"} \cup KeyStages, aid : Aids \cup {None},
              plain : Passcodes, keys : SUBSET Slots]

TypeOK ==
  /\ cur \in Passcodes
  /\ sxlt \in Sealed \cup {None}
  /\ habs \subseteq Aids
  /\ pres \subseteq Aids
  /\ sits \subseteq RandyAids
  /\ cipher \in [Slots -> Passcodes \cup {None}]
  /\ stale \subseteq RandyAids
  /\ older \in [Slots -> Passcodes \cup {None}]
  /\ handler \in Handlers
  /\ kills \in 0..MaxKills

Init ==
  /\ cur = 0
  /\ sxlt = None
  /\ habs = {}
  /\ pres = {}
  /\ sits = {}
  /\ cipher = [s \in Slots |-> None]
  /\ stale = {}
  /\ older = [s \in Slots |-> None]
  /\ handler = Idle
  /\ kills = 0

Serving   == handler = Idle
At(op, m) == handler.op = op /\ handler.aid = m
Goto(op)  == handler' = [handler EXCEPT !.op = op]
Handle(op, m) == handler' = [op |-> op, aid |-> m, plain |-> 0, keys |-> {}]
Finish    == handler' = Idle

\* Subers: put writes only where there is nothing, pin always.
Pin(slot) == cipher' = [cipher EXCEPT ![slot] = cur]
Put(slot) == cipher' = [cipher EXCEPT ![slot] = IF @ = None THEN cur ELSE @]

\* The private keys that RandyManager.params finds for the listing: those stored at the public
\* keys that rb.sits names.
Listed(slot) == IF slot[1] \in stale THEN older[slot] ELSE cipher[slot]

\* The passcodes the client opens ciphers with: its own, and the saved one.
SavedPasscode   == IF sxlt = None \/ sxlt.under # cur THEN {} ELSE {sxlt.plain}
KnownPasscodes  == {cur} \cup SavedPasscode
Opens(known, m) == \A s \in SlotsOf(m) : Listed(s) \in known \cup {None}
OpensAll(known) == \A m \in habs : Opens(known, m)

-----------------------------------------------------------------------------
(* Inception and rotation of identifiers *)

\* IdentifierCollectionEnd.on_post: the Hab, then the keeper's records one by one.
Incept(m) ==
  /\ Serving
  /\ m \notin habs
  /\ habs' = habs \cup {m}
  /\ Handle("pres", m)
  /\ UNCHANGED <<cur, sxlt, keeper, kills>>

\* The keeper raises ValueError where a record exists already: the Hab is deleted again.
InceptRefused(m) ==
  /\ \/ At("pres", m) /\ m \in pres
     \/ At("salt", m) /\ cipher[Salt(m)] # None
     \/ At("sits", m) /\ m \in sits
  /\ habs' = habs \ {m}
  /\ Finish
  /\ UNCHANGED <<cur, sxlt, keeper, kills>>

InceptPres(m) ==
  /\ At("pres", m)
  /\ m \notin pres
  /\ pres' = pres \cup {m}
  /\ Goto(IF m \in SaltyAids THEN "salt" ELSE "sits")
  /\ UNCHANGED <<cur, sxlt, habs, sits, cipher, lots, kills>>

InceptSalt(m) ==
  /\ At("salt", m)
  /\ cipher[Salt(m)] = None
  /\ Pin(Salt(m))
  /\ Finish
  /\ UNCHANGED <<cur, sxlt, habs, pres, sits, lots, kills>>

InceptSits(m) ==
  /\ At("sits", m)
  /\ m \notin sits
  /\ sits' = sits \cup {m}
  /\ Goto("prx")
  /\ UNCHANGED <<cur, sxlt, habs, pres, cipher, lots, kills>>

\* IdentifierResourceEnd.rotate of a salty identifier: the Hab's key event first ...
RotateSalty(m) ==
  /\ Serving
  /\ m \in habs \cap SaltyAids
  /\ Opens(KnownPasscodes, m)
  /\ Handle("resalt", m)
  /\ UNCHANGED <<cur, sxlt, habs, keeper, kills>>

\* ... then SaltyManager.rotate; when it raises ValueError, the Hab is deleted.
RotateSalt(m) ==
  /\ At("resalt", m)
  /\ m \in pres /\ cipher[Salt(m)] # None
  /\ Pin(Salt(m))
  /\ Finish
  /\ UNCHANGED <<cur, sxlt, habs, pres, sits, lots, kills>>

RotateSaltRefused(m) ==
  /\ At("resalt", m)
  /\ m \notin pres \/ cipher[Salt(m)] = None
  /\ habs' = habs \ {m}
  /\ Finish
  /\ UNCHANGED <<cur, sxlt, keeper, kills>>

\* Of a randy identifier: the event makes the next key current, of which nothing is stored yet,
\* while rb.sits goes on naming the keys before.
RotateRandy(m) ==
  /\ Serving
  /\ m \in habs \cap RandyAids
  /\ Opens(KnownPasscodes, m)
  /\ cipher' = [cipher EXCEPT ![Prx(m)] = None, ![Nxt(m)] = None]
  /\ stale' = stale \cup {m}
  /\ older' = [older EXCEPT ![Prx(m)] = Listed(Prx(m)), ![Nxt(m)] = Listed(Nxt(m))]
  /\ Handle("resits", m)
  /\ UNCHANGED <<cur, sxlt, habs, pres, sits, kills>>

\* RandyManager.rotate pins the public keys; nothing catches its ValueError.
RotateSits(m) ==
  /\ At("resits", m)
  /\ \/ /\ m \in pres
        /\ sits' = sits \cup {m}
        /\ stale' = stale \ {m}
        /\ older' = [older EXCEPT ![Prx(m)] = None, ![Nxt(m)] = None]
        /\ Goto("prx")
     \/ m \notin pres /\ Finish /\ UNCHANGED <<sits, lots>>
  /\ UNCHANGED <<cur, sxlt, habs, pres, cipher, kills>>

\* RandyManager.incept and rotate end alike.
PutPrx(m) ==
  /\ At("prx", m)
  /\ Put(Prx(m))
  /\ Goto("nxt")
  /\ UNCHANGED <<cur, sxlt, habs, pres, sits, lots, kills>>

PutNxt(m) ==
  /\ At("nxt", m)
  /\ Put(Nxt(m))
  /\ Finish
  /\ UNCHANGED <<cur, sxlt, habs, pres, sits, lots, kills>>

-----------------------------------------------------------------------------
(* Passcode rotation and its recovery *)

\* GET /identifiers answers only if the keeper has the parameters of every Hab.
Listable(m) == m \in pres /\ (IF m \in SaltyAids THEN cipher[Salt(m)] # None ELSE m \in sits)
AllListable == \A m \in habs : Listable(m)

\* The body's "keys" name the identifiers listed, and perhaps some that have no Hab any more.
Request(plain, unknown) ==
  handler' = [op |-> "save", aid |-> None, plain |-> plain,
              keys |-> UNION {SlotsOf(m) : m \in habs \cup unknown}]

\* on_put with an event that makes the new passcode's key the signing key.
RotatePasscode(unknown) ==
  /\ Serving
  /\ sxlt = None
  /\ cur < MaxPass
  /\ AllListable
  /\ OpensAll({cur})
  /\ cur' = cur + 1
  /\ Request(cur, unknown)
  /\ UNCHANGED <<sxlt, habs, keeper, kills>>

\* on_put with a recovery event, which rotates out the next key only: the old passcode is the
\* saved one, or the user still has the last one.
RecoverPasscode(plain, unknown) ==
  /\ Serving
  /\ plain \in SavedPasscode \/ plain = cur - 1
  /\ sxlt # None \/ ~OpensAll({cur})
  /\ AllListable
  /\ OpensAll({cur, plain})
  /\ Request(plain, unknown)
  /\ UNCHANGED <<cur, sxlt, habs, keeper, kills>>

\* Mutant of SavePasscode: what is saved opens with the old passcode.
SaveUnderOld ==
  /\ handler.op = "save"
  /\ sxlt' = [plain |-> handler.plain, under |-> handler.plain]
  /\ Goto("keys")
  /\ UNCHANGED <<cur, habs, keeper, kills>>

\* The request itself is signed with the new key (Authenticater.verify), or 403.
SavePasscode ==
  /\ handler.op = "save"
  /\ sxlt' = [plain |-> handler.plain, under |-> cur]
  /\ Goto("keys")
  /\ UNCHANGED <<cur, habs, keeper, kills>>

Forbid ==
  /\ handler.op = "save"
  /\ Finish
  /\ UNCHANGED <<cur, sxlt, habs, keeper, kills>>

\* The private keys that a listing holds for a current or a next key, encrypted anew, are put; a
\* listing without the next keys is refused, one without the current keys is not.
PutListed(slot) ==
  /\ slot[1] \in habs
  /\ \/ Listed(slot) # None /\ Put(slot)
     \/ Listed(slot) = None /\ slot[2] = "prx" /\ UNCHANGED cipher

\* Mutant of UpdateKey: salts are put, as the private keys of randy identifiers are.
UpdateKeyPut(slot) ==
  /\ handler.op = "keys"
  /\ slot \in handler.keys
  /\ \/ slot[2] = "salt" /\ cipher[slot] # None /\ Put(slot)
     \/ slot[2] \in {"prx", "nxt"} /\ PutListed(slot)
  /\ slot[2] = "nxt" => Prx(slot[1]) \notin handler.keys
  /\ handler' = [handler EXCEPT !.keys = @ \ {slot}]
  /\ UNCHANGED <<cur, sxlt, habs, pres, sits, lots, kills>>

\* One of the body's keys: a salt is pinned, a private key is put, the current ones first.
UpdateKey(slot) ==
  /\ handler.op = "keys"
  /\ slot \in handler.keys
  /\ \/ slot[2] = "salt" /\ cipher[slot] # None /\ Pin(slot)
     \/ slot[2] \in {"prx", "nxt"} /\ PutListed(slot)
  /\ slot[2] = "nxt" => Prx(slot[1]) \notin handler.keys
  /\ handler' = [handler EXCEPT !.keys = @ \ {slot}]
  /\ UNCHANGED <<cur, sxlt, habs, pres, sits, lots, kills>>

\* A salt the keeper does not have (ValueError), an identifier without Hab (KeyError), or fewer
\* next private keys than the identifier has next keys (ValueError).
UpdateRefused ==
  /\ handler.op = "keys"
  /\ \E slot \in handler.keys :
       \/ slot[2] = "salt" /\ cipher[slot] = None
       \/ slot[2] # "salt" /\ slot[1] \notin habs
       \/ slot[2] = "nxt" /\ Prx(slot[1]) \notin handler.keys /\ Listed(slot) = None
  /\ Finish
  /\ UNCHANGED <<cur, sxlt, habs, keeper, kills>>

\* Mutant of DeletePasscode: the saved passcode stays.
KeepPasscode ==
  /\ handler.op = "keys"
  /\ handler.keys = {}
  /\ Finish
  /\ UNCHANGED <<cur, sxlt, habs, keeper, kills>>

DeletePasscode ==
  /\ handler.op = "keys"
  /\ handler.keys = {}
  /\ sxlt' = None
  /\ Finish
  /\ UNCHANGED <<cur, habs, keeper, kills>>

-----------------------------------------------------------------------------

\* The process is killed within a handler and restarts.
Crash ==
  /\ kills < MaxKills /\ kills' = kills + 1
  /\ ~Serving
  /\ Finish
  /\ UNCHANGED <<cur, sxlt, habs, keeper>>

KeeperStep ==
  \E m \in Aids : \/ InceptRefused(m) \/ InceptPres(m) \/ InceptSalt(m) \/ InceptSits(m)
                  \/ RotateSalt(m) \/ RotateSaltRefused(m) \/ RotateSits(m)
                  \/ PutPrx(m) \/ PutNxt(m)

PasscodeStep ==
  \/ SavePasscode \/ Forbid
  \/ \E slot \in Slots : UpdateKey(slot)
  \/ UpdateRefused
  \/ DeletePasscode

Recover(unknown) == \E plain \in Passcodes : RecoverPasscode(plain, unknown)

Client ==
  \/ \E m \in Aids : Incept(m) \/ RotateSalty(m) \/ RotateRandy(m)
  \/ \E unknown \in SUBSET (Aids \ habs) : RotatePasscode(unknown) \/ Recover(unknown)

Next == Client \/ KeeperStep \/ PasscodeStep \/ Crash

Spec == Init /\ [][Next]_vars

\* A handler once started goes on; a client in recovery lists its identifiers and again and again
\* asks with what it listed, and such a request is sometimes signed properly.
Fairness ==
  /\ WF_vars(KeeperStep \/ PasscodeStep)
  /\ SF_vars(Recover({}))
  /\ SF_vars(SavePasscode /\ \A slot \in handler.keys : slot[1] \in habs)

FairSpec == Spec /\ Fairness

-----------------------------------------------------------------------------

\* However many rotations were cut short, the client's passcode and the one before it open every
\* key the agent holds, whether its listing names the key or not, and what is saved is that
\* earlier passcode, sealed under the client's: no key is ever lost to a passcode that is gone,
\* whichever of the keys had been re-encrypted, and whatever identifiers were made or rotated
\* since.
SavedPasscodeOpensKeys ==
  /\ \A m \in habs : \A s \in SlotsOf(m) : {cipher[s], Listed(s)} \subseteq {cur, cur - 1, None}
  /\ sxlt # None => sxlt = [plain |-> cur - 1, under |-> cur]

\* The saved passcode is deleted only when no salt needs it any more.
SaltsRecrypted ==
  [][sxlt # None /\ sxlt' = None => \A m \in habs \cap SaltyAids : cipher'[Salt(m)] = cur']_vars

\* Between two requests every identifier can be listed, and a randy one is listed with its own
\* keys, the next one included: no inception and no rotation of an identifier was cut short by a
\* kill.
Recoverable ==
  Serving => /\ AllListable
             /\ \A m \in habs \cap RandyAids : m \notin stale /\ Listed(Nxt(m)) # None

\* An aborted rotation is completed in the end, however often its requests were refused or
\* killed, as long as the listing has what the recovery needs.
RecoveryCompletes == []Recoverable => (sxlt # None ~> sxlt = None)

-----------------------------------------------------------------------------
(* What the repository says and the code does not do *)

\* "5. Update all Randy Key encrypted keys 6. Delete encrypted old passcode"
\* (docs/protocol.md:258): when the old passcode goes, every private key opens with the new one.
RandyKeysRecrypted ==
  [][sxlt # None /\ sxlt' = None =>
       \A m \in habs \cap RandyAids : {cipher'[Prx(m)], cipher'[Nxt(m)]} \subseteq {None, cur'}]_vars

=============================================================================
