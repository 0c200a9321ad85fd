------------------------------ MODULE Issuance ------------------------------
(***************************************************************************)
(* Registries and credentials of one identifier of an agent, from the      *)
(* request to completion: CredentialCollectionEnd, RegistryCollectionEnd   *)
(* and CredentialResourceDeleteEnd, the Registrar and the Credentialer,    *)
(* whose escrows the Escrower processes, with the witness receiptor and,   *)
(* for a group identifier, the Counselor.                                  *)
(*                                                                         *)
(* A request anchors a TEL event in the identifier's KEL and puts it in an *)
(* escrow: tpwe until the witnesses receipted the anchoring event, or tmse *)
(* until the group signed it.  From there it goes to tede and, once the    *)
(* TEL event is accepted, to ctel.  A handler or a pass over the escrows   *)
(* is not interleaved with others, but may be cut short between any two    *)
(* writes; what is in memory is then lost.  A rotation the keeper refuses  *)
(* deletes the identifier's Hab, without which a pass may raise.           *)
(***************************************************************************)
EXTENDS Integers, Sequences, FiniteSets

CONSTANTS
  Registries, Creds, RegistryOf, \* as in CredentialLifecycle
  Wits,       \* witness AIDs
  IsGroup,    \* whether the identifier is a multisig group
  MaxEvents,  \* bound: key events of the identifier
  MaxCrashes, \* bound: how often the process stops
  None        \* absent value

VARIABLES
  kel,       \* the identifier's key events: the TEL event each anchors, and its witnesses since
  hab,       \* whether the identifier has its Hab
  proposed,  \* group: anchoring events this member signed
  wigs,      \* witness receipts of each key event
  started,   \* group: events Counselor.start was called with
  counseled, \* group: db.cgms, the key events that are complete
  asked,     \* agent.witners or agent.groups, and what was taken from them: events to complete
  msgs,      \* witDoer.msgs: key events to be receipted
  cues,      \* witDoer.cues: those it has all receipts of
  regs,      \* reger.regs: registries whose name is in use
  taes,      \* TEL events the Tevery has not accepted yet
  anc,       \* reger.ancs: the key event a TEL event is said to be anchored in (0: none)
  tels,      \* accepted TEL events
  tpwe, tmse, tede, \* escrows of <<TEL event, its anchoring key event>>
  ctel,      \* completed TEL events
  mre,       \* the Verifier's escrow: credentials whose issuance it does not know
  saved,     \* reger.saved and reger.creds
  cmse, ccrd, \* credentials waiting for completion, and complete
  ops,       \* credentials with a long running operation
  handler,   \* the request, or the pass over the escrows, between two writes
  crashes    \* how often the process has stopped

keri   == <<kel, hab, proposed, wigs, started, counseled>>
memory == <<asked, msgs, cues>>
tever  == <<regs, taes, anc, tels>>
escrow == <<tpwe, tmse, tede, ctel>>
cred   == <<mre, saved, cmse, ccrd, ops>>
vars   == <<keri, memory, tever, escrow, cred, handler, crashes>>

\* What the agent promises.  The TEL events anchored are those the KEL has seals of.
Anchored  == {kel[n].tel : n \in DOMAIN kel} \ {None}
Lifecycle == INSTANCE CredentialLifecycle
               WITH anchored <- Anchored, published <- ctel, complete <- ccrd

\* The abstract specification, under the names of the code's records.
LifecycleSpec == Lifecycle!Spec

Tels        == Lifecycle!Tels
Prior(t)    == Lifecycle!Prior(t)
Issuance(c) == <<c, 0>>
Events      == 1..MaxEvents
Entries     == Tels \X Events
Requests    == {"anchor", "process", "anc", "escrow", "cmse", "verify", "op"}
Passes      == {"rgy", "vry", "tpwe", "tmse", "tede", "cmse-pass"}
Moves       == {"to-tede", "to-ctel", "to-ccrd"}

HandlerOps  == {"idle"} \cup Requests \cup Passes \cup Moves
KeyEvents   == [tel : Tels \cup {None}, wits : SUBSET Wits]
Handlers    == [op : HandlerOps, tel : Tels \cup {None}, sn : Events]

ASSUME RegistryAssumption == RegistryOf \in [Creds -> Registries]
ASSUME NamesAssumption == Registries \cap Creds = {}
ASSUME SetsAssumption  == IsFiniteSet(Wits) /\ IsGroup \in BOOLEAN
ASSUME BoundAssumption == MaxEvents \in Nat \ {0} /\ MaxCrashes \in Nat
ASSUME NoneAssumption  == None \notin Tels

Idle == [op |-> "idle", tel |-> None, sn |-> 1]

TypeOK ==
  /\ kel \in Seq(KeyEvents)
  /\ Len(kel) \in Events
  /\ hab \in BOOLEAN
  /\ proposed \subseteq Entries
  /\ wigs \in [Events -> SUBSET Wits]
  /\ started \subseteq Entries
  /\ counseled \subseteq Events
  /\ asked \subseteq Entries
  /\ msgs \subseteq Events
  /\ cues \subseteq Events
  /\ regs \subseteq Registries
  /\ taes \subseteq Tels
  /\ anc \in [Tels -> 0..MaxEvents]
  /\ tels \subseteq Tels
  /\ tpwe \subseteq Entries
  /\ tmse \subseteq Entries
  /\ tede \subseteq Entries
  /\ ctel \subseteq Tels
  /\ mre \subseteq Creds
  /\ saved \subseteq Creds
  /\ cmse \subseteq Creds
  /\ ccrd \subseteq Creds
  /\ ops \subseteq Creds
  /\ handler \in Handlers
  /\ crashes \in 0..MaxCrashes

Init ==
  /\ \E W \in SUBSET Wits : kel = <<[tel |-> None, wits |-> W]>>
  /\ hab = TRUE
  /\ proposed = {} /\ started = {} /\ counseled = {}
  /\ wigs = [n \in Events |-> {}]
  /\ asked = {} /\ msgs = {} /\ cues = {}
  /\ regs = {} /\ taes = {} /\ tels = {}
  /\ anc = [t \in Tels |-> 0]
  /\ tpwe = {} /\ tmse = {} /\ tede = {} /\ ctel = {}
  /\ mre = {} /\ saved = {} /\ cmse = {} /\ ccrd = {} /\ ops = {}
  /\ handler = Idle
  /\ crashes = 0

Serving  == handler = Idle
At(op)   == handler.op = op
Goto(op) == handler' = [handler EXCEPT !.op = op]
Handle(op, t, n) == handler' = [op |-> op, tel |-> t, sn |-> n]
Finish   == handler' = Idle

CurrentWits == kel[Len(kel)].wits

-----------------------------------------------------------------------------
(* Requests *)

\* IdentifierResourceEnd.interact, or rotate for an estOnly identifier, seals t.  A single
\* signature identifier accepts its event at once; a group's member signs the next event, or
\* one the others have completed without it.
SealIn(t, n) ==
  /\ asked' = asked \cup {<<t, n>>}
  /\ IF IsGroup
     THEN /\ n = Len(kel) + 1 \/ (n \in DOMAIN kel /\ kel[n].tel = t)
          /\ proposed' = proposed \cup {<<t, n>>}
          /\ UNCHANGED kel
     ELSE /\ n = Len(kel) + 1
          /\ kel' = Append(kel, [tel |-> t, wits |-> CurrentWits])
          /\ UNCHANGED proposed

\* POST /identifiers/{name}/registries: makeSignifyRegistry, whose TEL event has no anchor yet ...
MakeRegistry(r) ==
  /\ Serving
  /\ hab
  /\ r \notin regs
  /\ Len(kel) < MaxEvents
  /\ regs' = regs \cup {r}
  /\ taes' = taes \cup {<<r, 0>>}
  /\ Handle("anchor", <<r, 0>>, 1)
  /\ UNCHANGED <<keri, memory, anc, tels, escrow, cred, crashes>>

\* ... then its anchoring event.
SealRegistry ==
  /\ At("anchor")
  /\ \E n \in Events :
       /\ SealIn(handler.tel, n)
       /\ handler' = [handler EXCEPT !.op = IF IsGroup THEN "escrow" ELSE "anc", !.sn = n]
  /\ UNCHANGED <<hab, wigs, started, counseled, msgs, cues, tever, escrow, cred, crashes>>

\* The body lacks what the anchoring event needs (400); the registry has been made.
RefuseRegistry ==
  /\ At("anchor")
  /\ Finish
  /\ UNCHANGED <<keri, memory, tever, escrow, cred, crashes>>

\* Mutant of SealIssuance: the registry of the credential is not looked up.
SealIssuanceUnchecked(c) ==
  /\ Serving
  /\ hab
  /\ \E n \in Events : SealIn(Issuance(c), n) /\ Handle("process", Issuance(c), n)
  /\ UNCHANGED <<hab, wigs, started, counseled, msgs, cues, tever, escrow, cred, crashes>>

\* POST /identifiers/{name}/credentials: the registry must be accepted, then the event is sealed.
SealIssuance(c) ==
  /\ Serving
  /\ hab
  /\ <<RegistryOf[c], 0>> \in tels
  /\ \E n \in Events : SealIn(Issuance(c), n) /\ Handle("process", Issuance(c), n)
  /\ UNCHANGED <<hab, wigs, started, counseled, msgs, cues, tever, escrow, cred, crashes>>

\* DELETE /identifiers/{name}/credentials/{said}: the credential must be there.
SealRevocation(c) ==
  /\ Serving
  /\ hab
  /\ <<RegistryOf[c], 0>> \in tels
  /\ c \in saved
  /\ \E n \in Events : SealIn(<<c, 1>>, n) /\ Handle("process", <<c, 1>>, n)
  /\ UNCHANGED <<hab, wigs, started, counseled, msgs, cues, tever, escrow, cred, crashes>>

\* Credentialer.validate refuses the schema (400), or Registry.processEvent a TEL event that it
\* has accepted already; the anchoring event stays in the KEL.
RefuseTelEvent ==
  /\ At("process")
  /\ handler.tel \in tels \/ handler.tel[2] = 0
  /\ Finish
  /\ UNCHANGED <<keri, memory, tever, escrow, cred, crashes>>

\* Registry.processEvent escrows the TEL event, which has no anchor yet.
ProcessTelEvent ==
  /\ At("process")
  /\ handler.tel \notin tels
  /\ taes' = taes \cup {handler.tel}
  /\ Goto(IF IsGroup THEN "escrow" ELSE "anc")
  /\ UNCHANGED <<keri, memory, regs, anc, tels, escrow, cred, crashes>>

\* Mutant of AnchorMsg: the TEL event is said to be anchored in the event before.
AnchorMsgBefore ==
  /\ At("anc")
  /\ anc' = [anc EXCEPT ![handler.tel] = IF @ = 0 THEN handler.sn - 1 ELSE @]
  /\ Goto("escrow")
  /\ UNCHANGED <<keri, memory, regs, taes, tels, escrow, cred, crashes>>

\* Registry.anchorMsg, which keeps an anchor that is there.
AnchorMsg ==
  /\ At("anc")
  /\ anc' = [anc EXCEPT ![handler.tel] = IF @ = 0 THEN handler.sn ELSE @]
  /\ Goto("escrow")
  /\ UNCHANGED <<keri, memory, regs, taes, tels, escrow, cred, crashes>>

\* Registrar.incept, issue and revoke end in an escrow.  A group's revocation starts the
\* Counselor itself.  Only an issuance goes on to the Credentialer.
EscrowTelEvent ==
  LET entry == <<handler.tel, handler.sn>>
      issue == handler.tel \in {Issuance(c) : c \in Creds}
  IN /\ At("escrow")
     /\ IF IsGroup
        THEN /\ tmse' = tmse \cup {entry}
             /\ started' = IF handler.tel[2] = 1 THEN started \cup {entry} ELSE started
             /\ UNCHANGED <<msgs, tpwe>>
        ELSE /\ msgs' = msgs \cup {handler.sn}
             /\ tpwe' = tpwe \cup {entry}
             /\ UNCHANGED <<tmse, started>>
     /\ IF issue THEN Goto("cmse") ELSE Finish
     /\ UNCHANGED <<kel, hab, proposed, wigs, counseled, asked, cues, tever, tede, ctel, cred, crashes>>

\* Credentialer.issue: the credential waits for its issuance to complete, ...
EscrowCredential ==
  /\ At("cmse")
  /\ cmse' = cmse \cup {handler.tel[1]}
  /\ Goto("verify")
  /\ UNCHANGED <<keri, memory, tever, escrow, mre, saved, ccrd, ops, crashes>>

\* ... and Verifier.processCredential escrows it, as the issuance is not accepted yet.
VerifyCredential ==
  /\ At("verify")
  /\ mre' = mre \cup {handler.tel[1]}
  /\ Goto("op")
  /\ UNCHANGED <<keri, memory, tever, escrow, saved, cmse, ccrd, ops, crashes>>

SubmitOperation ==
  /\ At("op")
  /\ ops' = ops \cup {handler.tel[1]}
  /\ Finish
  /\ UNCHANGED <<keri, memory, tever, escrow, mre, saved, cmse, ccrd, crashes>>

\* DELETE /credentials/{said} removes the credential, issued or not.
DeleteCredential(c) ==
  /\ Serving
  /\ c \in saved
  /\ saved' = saved \ {c}
  /\ UNCHANGED <<keri, memory, tever, escrow, mre, cmse, ccrd, ops, handler, crashes>>

\* A rotation that may change the witnesses.  If the keeper refuses it, the Hab is deleted; the
\* event stays in the KEL, and what is in the escrows stays there.
RotateWitnesses(W) ==
  /\ Serving
  /\ hab
  /\ ~IsGroup
  /\ Len(kel) < MaxEvents
  /\ kel' = Append(kel, [tel |-> None, wits |-> W])
  /\ hab' \in BOOLEAN
  /\ UNCHANGED <<proposed, wigs, started, counseled, memory, tever, escrow, cred, handler, crashes>>

-----------------------------------------------------------------------------
(* Witnesses, group members and the queues in memory *)

\* A witness receipts a key event that it was sent.
Receipt(n, w) ==
  /\ Serving
  /\ n \in DOMAIN kel
  /\ w \in kel[n].wits \ wigs[n]
  /\ IsGroup \/ \E t \in Tels : <<t, n>> \in asked
  /\ wigs' = [wigs EXCEPT ![n] = @ \cup {w}]
  /\ UNCHANGED <<kel, hab, proposed, started, counseled, memory, tever, escrow, cred, handler, crashes>>

\* witDoer takes its messages in turn.  It reads the identifier's witnesses when it takes one,
\* and cues the message when the event has the receipts of all of them.
ReceiptAll(n) ==
  /\ Serving
  /\ hab
  /\ n \in msgs
  /\ \A m \in msgs : n <= m
  /\ \E k \in n..Len(kel) :
       /\ kel[k].wits \subseteq wigs[n]
       /\ cues' = IF kel[k].wits = {} THEN cues ELSE cues \cup {n}
  /\ msgs' = msgs \ {n}
  /\ UNCHANGED <<keri, asked, tever, escrow, cred, handler, crashes>>

\* GroupRequester starts the Counselor on an event of the queue.
StartCounselor(t, n) ==
  /\ Serving
  /\ IsGroup
  /\ <<t, n>> \in asked \ started
  /\ started' = started \cup {<<t, n>>}
  /\ UNCHANGED <<kel, hab, proposed, wigs, counseled, memory, tever, escrow, cred, handler, crashes>>

\* Enough members have signed the next event: one of this member's or one of the others', who
\* follow the same rules.
AcceptGroupEvent(t) ==
  /\ Serving
  /\ IsGroup
  /\ Len(kel) < MaxEvents
  /\ t # None => Prior(t) \subseteq Anchored
  /\ kel' = Append(kel, [tel |-> t, wits |-> CurrentWits])
  /\ UNCHANGED <<hab, proposed, wigs, started, counseled, memory, tever, escrow, cred, handler, crashes>>

\* The Counselor finds an event it was started with accepted and receipted.
Counsel(t, n) ==
  /\ Serving
  /\ <<t, n>> \in started
  /\ n \in DOMAIN kel \ counseled
  /\ kel[n].tel = t /\ kel[n].wits \subseteq wigs[n]
  /\ counseled' = counseled \cup {n}
  /\ UNCHANGED <<kel, hab, proposed, wigs, started, memory, tever, escrow, cred, handler, crashes>>

-----------------------------------------------------------------------------
(* Escrower.recur: one pass over the escrows, in this order *)

\* What each stage of the pass finds to do.
Acceptable == {t \in taes : anc[t] \in DOMAIN kel /\ kel[anc[t]].tel = t /\ Prior(t) \subseteq tels}
Verifiable == {c \in mre : Issuance(c) \in tels}

\* Mutant of Witnessed: witDoer's cues are not looked at, nor the receipts counted.
WitnessedAlways == tpwe

\* processWitnessEscrow: as many receipts as the identifier has witnesses now, ...
Counted == {e \in tpwe : Cardinality(wigs[e[2]]) = Cardinality(CurrentWits)}

\* ... and a cue, which is looked for by the Hab.
Witnessed == {e \in tpwe : CurrentWits # {} => hab /\ e \in Counted /\ e[2] \in cues}
Homeless  == ~hab /\ CurrentWits # {} /\ Counted # {}

\* Mutant of Settled: an accepted event is complete, whether receipted or not.
SettledUnreceipted == {e \in tmse : e[2] \in DOMAIN kel}

\* processMultisigEscrow: the event is complete, or another one took its place.
Settled == {e \in tmse : e[2] \in counseled}
Disseminable == {e \in tede : e[1] \in tels}

\* Mutant of Completable: the issuance need not be disseminated.
CompletableSaved == {c \in cmse : c \in saved}

Completable == {c \in cmse : Issuance(c) \in ctel /\ c \in saved}

StartPass ==
  /\ Serving
  /\ Goto("rgy")
  /\ UNCHANGED <<keri, memory, tever, escrow, cred, crashes>>

\* A stage that finds nothing more to do gives way to the next.
NextStage ==
  /\ \/ At("rgy") /\ Acceptable = {} /\ Goto("vry")
     \/ At("vry") /\ Verifiable = {} /\ Goto("tpwe")
     \/ At("tpwe") /\ Witnessed = {} /\ ~Homeless /\ Goto("tmse")
     \/ At("tmse") /\ Settled = {} /\ Goto("tede")
     \/ At("tede") /\ Disseminable = {} /\ Goto("cmse-pass")
     \/ At("cmse-pass") /\ Completable = {} /\ Finish
  /\ UNCHANGED <<keri, memory, tever, escrow, cred, crashes>>

AcceptTelEvent(t) ==
  /\ At("rgy")
  /\ t \in Acceptable
  /\ taes' = taes \ {t}
  /\ tels' = tels \cup {t}
  /\ UNCHANGED <<keri, memory, regs, anc, escrow, cred, handler, crashes>>

SaveCredential(c) ==
  /\ At("vry")
  /\ c \in Verifiable
  /\ mre' = mre \ {c}
  /\ saved' = saved \cup {c}
  /\ UNCHANGED <<keri, memory, tever, escrow, cmse, ccrd, ops, handler, crashes>>

\* Mutant of LeaveWitnessEscrow: the entry stays in tpwe.
CopyWitnessEscrow(e) ==
  /\ At("tpwe")
  /\ e \in Witnessed
  /\ Handle("to-tede", e[1], e[2])
  /\ UNCHANGED <<keri, memory, tever, escrow, cred, crashes>>

\* tpwe.rem takes every entry of the TEL event; the one at hand is then added to tede.
LeaveWitnessEscrow(e) ==
  /\ At("tpwe")
  /\ e \in Witnessed
  /\ tpwe' = {d \in tpwe : d[1] # e[1]}
  /\ Handle("to-tede", e[1], e[2])
  /\ UNCHANGED <<keri, memory, tever, tmse, tede, ctel, cred, crashes>>

\* tmse.rem takes every entry of the TEL event, but the pass reads the escrow as it was when the
\* stage began and still comes to those that are settled.
WithoutTelEvent(e) == {d \in tmse : d[1] # e[1] \/ d \in Settled \ {e}}

\* The TEL event is anchored before its entries are removed ...
LeaveMultisigEscrow(e) ==
  /\ At("tmse")
  /\ e \in Settled
  /\ kel[e[2]].tel = e[1]
  /\ anc' = [anc EXCEPT ![e[1]] = IF @ = 0 THEN e[2] ELSE @]
  /\ tmse' = WithoutTelEvent(e)
  /\ Handle("to-tede", e[1], e[2])
  /\ UNCHANGED <<keri, memory, regs, taes, tels, tpwe, tede, ctel, cred, crashes>>

\* ... but those of an event that lost to another, for which complete raises, are dropped, and
\* with them one that has been made since.
DropMultisigEscrow(e) ==
  /\ At("tmse")
  /\ e \in Settled
  /\ kel[e[2]].tel # e[1]
  /\ tmse' = WithoutTelEvent(e)
  /\ UNCHANGED <<keri, memory, tever, tpwe, tede, ctel, cred, handler, crashes>>

\* Where the move started the pass goes on.
EnterDissemination ==
  /\ At("to-tede")
  /\ tede' = tede \cup {<<handler.tel, handler.sn>>}
  /\ handler' = [op |-> IF IsGroup THEN "tmse" ELSE "tpwe", tel |-> None, sn |-> 1]
  /\ UNCHANGED <<keri, memory, tever, tpwe, tmse, ctel, cred, crashes>>

LeaveDissemination(e) ==
  /\ At("tede")
  /\ e \in Disseminable
  /\ tede' = {d \in tede : d[1] # e[1]}
  /\ Handle("to-ctel", e[1], e[2])
  /\ UNCHANGED <<keri, memory, tever, tpwe, tmse, ctel, cred, crashes>>

\* Mutant of Disseminate: the TEL event is not recorded.
DisseminateUnrecorded ==
  /\ At("to-ctel")
  /\ Handle("tede", None, 1)
  /\ UNCHANGED <<keri, memory, tever, escrow, cred, crashes>>

\* The TEL event goes to the witnesses, and is recorded.
Disseminate ==
  /\ At("to-ctel")
  /\ ctel' = ctel \cup {handler.tel}
  /\ Handle("tede", None, 1)
  /\ UNCHANGED <<keri, memory, tever, tpwe, tmse, tede, cred, crashes>>

LeaveCredentialEscrow(c) ==
  /\ At("cmse-pass")
  /\ c \in Completable
  /\ cmse' = cmse \ {c}
  /\ Handle("to-ccrd", Issuance(c), 1)
  /\ UNCHANGED <<keri, memory, tever, escrow, mre, saved, ccrd, ops, crashes>>

CompleteCredential ==
  /\ At("to-ccrd")
  /\ ccrd' = ccrd \cup {handler.tel[1]}
  /\ Handle("cmse-pass", None, 1)
  /\ UNCHANGED <<keri, memory, tever, escrow, mre, saved, cmse, ops, crashes>>

\* The process is killed and restarts, or the agent is released and loaded again.
Crash ==
  /\ crashes < MaxCrashes
  /\ crashes' = crashes + 1
  /\ asked' = {} /\ msgs' = {} /\ cues' = {}
  /\ Finish
  /\ UNCHANGED <<keri, tever, escrow, cred>>

\* Without its Hab the receiptor that is asked for an identifier's receipts raises, and so does
\* processWitnessEscrow.  The process ends, and what is in memory is lost; restarted, it may get
\* there again.
Raise ==
  /\ ~hab
  /\ \/ Serving /\ (asked # {} \/ msgs # {})
     \/ At("tpwe") /\ Homeless
  /\ asked' = {} /\ msgs' = {} /\ cues' = {}
  /\ Finish
  /\ UNCHANGED <<keri, tever, escrow, cred, crashes>>

-----------------------------------------------------------------------------

Client ==
  \/ \E r \in Registries : MakeRegistry(r)
  \/ \E c \in Creds : SealIssuance(c) \/ SealRevocation(c) \/ DeleteCredential(c)
  \/ \E W \in SUBSET Wits : RotateWitnesses(W)

RequestStep ==
  \/ SealRegistry \/ RefuseRegistry \/ RefuseTelEvent \/ ProcessTelEvent \/ AnchorMsg
  \/ EscrowTelEvent \/ EscrowCredential \/ VerifyCredential \/ SubmitOperation

Others ==
  \/ \E n \in Events, w \in Wits : Receipt(n, w)
  \/ \E t \in Tels \cup {None} : AcceptGroupEvent(t)

Queues ==
  \/ \E n \in Events : ReceiptAll(n)
  \/ \E t \in Tels, n \in Events : StartCounselor(t, n) \/ Counsel(t, n)

PassStep ==
  \/ NextStage
  \/ \E t \in Tels : AcceptTelEvent(t)
  \/ \E c \in Creds : SaveCredential(c) \/ LeaveCredentialEscrow(c)
  \/ \E e \in Entries : \/ LeaveWitnessEscrow(e) \/ LeaveMultisigEscrow(e)
                        \/ DropMultisigEscrow(e) \/ LeaveDissemination(e)
  \/ EnterDissemination \/ Disseminate \/ CompleteCredential

Next == Client \/ RequestStep \/ Others \/ Queues \/ StartPass \/ PassStep \/ Crash \/ Raise

Spec == Init /\ [][Next]_vars

\* hio runs every doer once per cycle, and a witness that was asked answers in the end.
Fairness ==
  /\ WF_vars(RequestStep \/ PassStep)
  /\ SF_vars(StartPass)
  /\ \A n \in Events : SF_vars(ReceiptAll(n))
  /\ \A n \in Events, w \in Wits : SF_vars(Receipt(n, w))

FairSpec == Spec /\ Fairness

-----------------------------------------------------------------------------
(* Safety *)

\* The TEL event a move between two escrows is about.
Moving == IF handler.op \in Moves THEN {handler.tel} ELSE {}

\* A TEL event is sent to the witnesses only when an event that seals it has as many receipts as
\* the identifier had witnesses then or since: the two escrows on the way, the queue of the
\* receiptor and the receipts agree, whatever was lost in between.
DisseminatedIsWitnessed ==
  \A t \in ctel : \E n \in DOMAIN kel :
     /\ kel[n].tel = t
     /\ \E k \in n..Len(kel) : Cardinality(wigs[n]) >= Cardinality(kel[k].wits)

\* However a move was cut short, no entry of a single signature identifier is in two escrows, so
\* that no pass carries the same anchoring event on twice.
EscrowedOnce ==
  ~IsGroup => /\ tpwe \cap tede = {}
              /\ At("to-tede") \/ At("to-ctel") => <<handler.tel, handler.sn>> \notin tpwe \cup tede

\* Unless the process stops, a TEL event with an anchor is in an escrow, on its way, or complete,
\* and so is a credential with an operation.
NothingLost ==
  crashes = 0 =>
    /\ \A t \in Tels : anc[t] # 0 /\ ~(At("escrow") /\ handler.tel = t) =>
         t \in {e[1] : e \in tpwe \cup tede} \cup Moving \cup ctel
    /\ \A c \in ops : c \in cmse \cup ccrd \/ Issuance(c) \in Moving

-----------------------------------------------------------------------------
(* Liveness *)

Steady == crashes = 0 /\ hab /\ \A n \in DOMAIN kel : kel[n].wits = kel[1].wits

\* The credential was deleted before its issuance was complete.
Forgotten(c) == Serving /\ c \in cmse /\ c \notin mre \cup saved

\* If the process does not stop and the witnesses and the Hab stay, a TEL event is disseminated and the
\* operation of a credential comes to an end.
IssuanceCompletes ==
  []Steady => /\ \A t \in Tels : t \in {e[1] : e \in tpwe} ~> t \in ctel
              /\ \A c \in Creds : c \in ops ~> c \in ccrd \/ Forgotten(c)

=============================================================================
