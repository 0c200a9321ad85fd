# KERIA in TLA+

A verification development for KERIA, the multi-tenant agent server of KERI and ACDC
(`src/keria`, paths below are relative to the repository). It holds nine modules that model the
server's parts, two abstract specifications that two of them are shown to implement, the TLC
instances that check them, and eight modules of TLAPS proofs. Everything here was written from
the Python source; `keri` and `hio`, which the repository imports but does not contain, are
modelled by what KERIA's code relies on and are marked external in `PROJECT.json`.

## 1. The system

One process runs one hio scheduler (a `Doist`). HTTP handlers (falcon) and doers (coroutines with
a `recur`) take turns: **each runs to its end before anything else does**, so the interleavings
are of whole handlers and whole passes. What breaks a handler apart is the *end of the process*:
every write to LMDB is durable at once, and a SIGKILL between two writes leaves the first without
the second. Queues between doers (`Deck`s) and postmen are in memory and die with the process,
and also with the *release* of an idle agent (`Agency.shut`), which closes the agent's databases
and throws the object away. Nearly all of the interesting behaviour is in that seam: durable
escrows and records on one side, cues and queues in memory on the other.

### 1.1 Inventory

| Component | Code | State | Operations | What is hard | What makes it correct |
|---|---|---|---|---|---|
| Agency | `app/agenting.py` `Agency`, `BootEnd`, `Releaser`; `app/serving.py` | `adb.agnt/ctrl/aids` on disk, the agents' databases; the cache `agents`, the scheduled doers | create, delete, get, lookup, incept, shut, shutdownAgency; boot | writes of a boot cut short; on-demand loads against releases and shutdown | accepted boots persist, databases open once (but for those a killed boot left), routes lead to agents, shutdown is clean and ends |
| Request signatures | `core/authing.py` | none of its own | `verify` loads the agent | loads an agent for any request | part of Agency |
| Message routing | `app/indirecting.py`, `end/ending.py` | none of its own | `Agency.lookup` by managed AID or agent AID | stale routes | part of Agency |
| Key keeper | `core/keeping.py` | `rb.pres, prxs, nxts, sits, sprms, gbls` | incept, rotate, params of salty, randy, group, extern identifiers | several records per identifier | no key is lost |
| Passcode rotation | `app/aiding.py` `AgentResourceEnd` | the controller's KEL, `sxlt`, all ciphers | rotate, save the old passcode, re-encrypt, delete it; recovery | cut short or refused at any write | two passcodes open everything, recovery completes |
| Identifiers | `app/aiding.py` `IdentifierCollectionEnd`, `IdentifierResourceEnd` | Habs, KELs | incept, rotate, interact, submit, rename | several writes and queues | per component below |
| Registries, credentials | `app/credentialing.py` `Registrar`, `Credentialer`; `agenting.py` `Escrower`, `GroupRequester` | escrows `tpwe, tmse, tede, ctel, cmse, ccrd`; TEL escrows of keri | registry inception, issuance, revocation, deletion; passes | moves between escrows, receipts counted later, group races | anchored before published before complete; nothing lost |
| Delegation | `app/delegating.py` `Anchorer`, `DelegatorEnd`; `Delegator` | escrows `dpwe, dune, cdel`; authorizers `aes`; operations | request, receipt, send, find the seal, approve, poll | two agents, any order of event and approval | complete only if shown and sealed; nothing lost; it completes |
| Witness receipts | `agenting.py` `Witnesser`, `Submitter`; `longrunning.py` | queues in memory, operations on disk | take, receipt, resubmit, status | operation decided by queues and by today's threshold | done means receipted; queues drain |
| Credential search | `db/basing.py` `Seeker`, `Cursor`; `SeekerDoer` | indexes on disk, cues in memory | index, unindex, find, order, page | a dozen writes per credential, missing fields | deleted is unindexed, answers exact and ordered |
| Exchange messages, IPEX | `peer/exchanging.py`, `app/ipexing.py`, `app/grouping.py`; `ExchangeSender`, `Granter`, `Admitter` | queues in memory, verified messages on disk | post, send, grant, admit, tell the members | members decide separately who sends | sent is signed; none is dropped; done is delivered |
| Long running operations | `core/longrunning.py` | `opr.ops` | submit, status, delete | status computed from other state | done means it happened |
| Key state queries, OOBIs | `agenting.py` `QueryCollectionEnd`, `OOBICollectionEnd`, `Querier`; `longrunning.py` | notices and key events of remote identifiers on disk, queries in memory | request, ask, status | late answers, answers that cross new events, one notice per source | done means answered since; queries complete |
| End roles, locations, challenges | `agenting.py`, `aiding.py` | keri's databases | single writes, look-ups | old answers | not modelled (section 7) |
| API description and its page | `app/specing.py`, `app/agenting.py` `setupDoers`; `static/swaggerui/swagger-initializer.js` | the routers of two apps, the description | walk the routes, serve, load | made during the set-up, from lists that grow | complete when served; the page shows it |
| Contacts, notifications, CORS and parsing, CLI set-up, `sig-fix`, logging | various | single records or none | reads, single writes | – | not modelled (section 7) |

### 1.2 How the parts interact

`POST /boot` makes an agent in the Agency. Every signed request, KERI message and OOBI look-up
goes through `Agency.get`, which loads the agent when it is not cached; loading opens its
databases and schedules its doers. A request for an identifier extends the KEL and the keeper's
records and queues the event: for the `Witnesser` (witnessed), the `Delegator` (delegated), the
`GroupRequester` (multisig). Registries and credentials seal a TEL event in the KEL and escrow it;
the `Escrower` runs keri's `Tevery` and `Verifier`, then the Registrar, then the Credentialer.
A saved credential leaves a cue from which the `SeekerDoer` indexes it. Credentials are presented
by exchange messages. Each slow thing has a long running operation, whose status the `Monitor`
computes, when asked, from the state the other parts keep.

The modules cut along these lines. `Agency` treats an agent's content as a small record;
all others are about one loaded agent, and its release is, for them, the same loss of memory as a
stop (`Crash`, `Stop`), which is why they need not be composed with `Agency`. `Delegation`
composes two agents, `Exchanges` the agents of all members of a group, and `RemoteState` an agent
and the sources it asks. `ApiDescription` is about the start of the process, before any agent.

## 2. Modules

| Module | Models | Implements |
|---|---|---|
| `Agency` | life cycle of agents in one process: boots, loads, releases, shutdown, kills | |
| `RemoteKeys` | one agent's encrypted keys; passcode rotation and its recovery | |
| `CredentialLifecycle` | *abstract*: anchored, published, complete | |
| `Issuance` | registry and credential events of one identifier or group through KEL, TEL and escrows | `CredentialLifecycle` |
| `DelegationPromise` | *abstract*: made, shown, sealed, complete, accepted | |
| `Delegation` | the delegatees' agent, the delegator's agent and what travels between them | `DelegationPromise` |
| `Receipts` | witness receipts and resubmission of one identifier, and their operations | |
| `Search` | indexes of saved credentials and queries | |
| `Exchanges` | exchange messages of identifiers and the agents of their members | |
| `RemoteState` | what an agent knows of a remote identifier, and the queries that refresh it | |
| `ApiDescription` | the set-up of the servers, the description of the interface, its page | |
| `MC*` | model values and small instances for TLC | |
| `AgencyProofs`, `RemoteKeysProofs`, `IssuanceProofs`, `DelegationProofs`, `ReceiptsProofs`, `SearchProofs`, `ExchangesProofs`, `RemoteStateProofs` | the theorems | |

Conventions. A handler that writes once is one action. A handler that writes several times is a
chain of actions through a variable `handler`, between which only `Crash` may come (Agency,
RemoteKeys, Issuance); where the number of writes is data (Delegation, Search) the handler is one
action and each place it can be killed at is a further action (`KillUnanchored`, `KillIndex`, ...)
that does the part before it. Operators that follow "Mutant of D" restate a definition D with a
plausible mistake; they are not part of any specification, and `PROJECT.json` says which property
each of them breaks.

### 2.1 Agency

`disk` (agnt, ctrl, aids, store) survives `Crash`, `memory` (agents, deeds, done, open, recent)
does not. An Agent object is an instance `<<controller, number>>`, so that two objects over the
same databases can be told apart. `BootCreate` .. `BootKeeper` are the writes of `BootEnd.on_post`
and `Agency.create`. `BootReject` is the refusal of the inception event: it calls `Agency.delete`,
whose first call, `agnt.rem(key=...)`, names a parameter that keri calls `keys` and raises, so that
nothing is undone and the client gets a server error. `BootOverLeftover` is a boot over the store
that a killed one left: the Keeper and the Habery are opened again, `makeHab` refuses the name that
is there, and nothing closes them; `Collect` is Python collecting them later. `Load`/`Touch` are
`Agency.get`, used by `Request` (any request, signed or not, because `Authenticater.verify` loads
first), `MakeAid`, `DeleteAid`, `RouteManaged`, `RouteAgent`. `Release` is one pass of the
`Releaser`, `ShutdownAgents` and `Halt` are one `Agency.recur` while shutting down. `Remaining`
is `Agency.exit`'s reading of an empty list of removed doers as "all".

Assumptions: keri's `Suber.rem` takes `keys`, as every other call of it in the repository does;
`makeHab` over a left-over Hab raises; where LMDB's binding refuses to open an environment a second
time, the boot over a left-over store ends there instead, with nothing changed. Extern identifiers
are left out.

### 2.2 RemoteKeys

A passcode is a number and a cipher is the number of the passcode it opens with. A salty identifier
has one cipher (its salt), a randy one two (current and next private keys). `InceptPres` .. `PutNxt`
are the keeper's writes after the Hab; a `ValueError` deletes the Hab (`InceptRefused`,
`RotateSaltRefused`). The private keys a listing holds (`Listed`) are found by the public keys of
`rb.sits`; after a rotation that was killed before it stored the new ones (`stale`) these are still
the keys before (`older`). `RotatePasscode`/`RecoverPasscode` are the KEL event of `on_put`,
`SavePasscode` pins `sxlt`, or `Forbid` answers 403, `UpdateKey` re-encrypts one key of the body (a
salt is pinned; a private key that the listing has is *put*, which never overwrites, `PutListed`),
`UpdateRefused` is a key that cannot be updated: a salt that is not there, an identifier without
Hab, or a listing without the next keys, which aiding.py:354 refuses (one without the current keys
passes), `DeletePasscode` ends. The client is that of `docs/protocol.md`: it asks for a rotation
when it can open all it lists, and recovers with the saved or the last passcode. `Recoverable` says
that a listing has what a recovery needs. A cipher's number says which passcode opens it, not which
private key it holds. Group identifiers have no secret; the controller's own parameters are left
out.

### 2.3 Issuance

`kel` holds what each key event seals and its witnesses, `wigs` the receipts; `asked`, `msgs` and
`cues` are in memory. `regs`, `taes`, `anc`, `tels` are keri's registries, escrowed TEL events,
anchors and accepted TEL events; `tpwe, tmse, tede, ctel` and `mre, saved, cmse, ccrd` the escrows
of KERIA. A request is a chain from `MakeRegistry`, `SealIssuance` or `SealRevocation` to
`SubmitOperation`; a pass of the `Escrower` is the chain of `NextStage`. Every move between
escrows is two actions. A group does not extend its KEL: members propose events, and
`AcceptGroupEvent` lets any one of them, or one of another member, take the next number.
`tmse.rem` removes every entry of its TEL event (`WithoutTelEvent`), a retry made since included.
`hab` says whether the identifier still has its Hab: a rotation that the keeper refuses deletes it,
and what then looks for it raises and ends the process (`Raise`).

Assumptions: rotations of an `estOnly` identifier that seal keep the witnesses; chained credentials
and schemas are known; keri's escrow time-outs are left out; a second `tpwe` entry of the same TEL
event moves with the first (as `rem` removes both); the group's `putAnc` and `tmse.rem` are one
step; a pass goes through the multisig escrow as LMDB showed it when the stage began, so that it
still comes to settled entries whose removal came with another's; the receiptor may have read its
witnesses at any time since the event.

### 2.4 Delegation

The delegatee's side: `Establish` (inception or rotation), `EstablishRefused` (the keeper refuses,
the Hab is deleted, the event stays), `Request` (the Delegator doer), `Receipt`, and `Process`, one
pass of `Anchorer.processEscrows`. The delegator's side: `Seal` (the approval endpoint, which always
anchors anew), `Poll` (the status of its operation, which approves again), `Accept` (keri).
`Deliver` and `Learn` are the network. `Kill*` cut a pass or a request short; `Raise` is the
exception the Anchorer meets for an identifier whose Hab is gone, when it may have moved entries of
others in the same pass. Nothing in the server prevents a client from making an event while an
earlier one awaits approval; the history variable `overlapped` says that one did.

Assumptions: no recovery forks; of several seals in one event the first counts (`a[0]` in the
code); delegator and delegatees are not groups; the two writes of an authorizer are one step; a
process that raised is restarted.

### 2.5 Receipts

`witners` and `submits` are the agent's Decks, `current` the event the Witnesser is at, `doers`
how often the Submitter lists its one `WitnessReceiptor`. `WitnessStatus` and `SubmitStatus` are
what `Monitor.status` computes. A witness that does not answer blocks the Witnesser
(agenting.py:1070), which the fairness of `WitnesserReceipt` excludes. The messages of the
`WitnessReceiptor` (`msgs`) are a Deck, taken in order.

### 2.6 Search

Values are sequences of numbers, so that prefixes and their order mean what they mean in LMDB; a
field in `Numbers` has a JSON number for a value, which cannot be joined to a key. An
index is named by its fields; `Generated` is the order of `generateIndexes`; `Paths` the fields an
index takes its keys from, where a static pair has only its first. `Usable` says how many index
names of its schema a credential has the fields of, as texts (`Texts`): `Seeker.index` and the
deletion raise at the first field that is missing (basing.py:228) or a number (basing.py:230), and
the cue is put back. Such a credential, as an attestation, is never completely indexed, its cue
never leaves the queue, and `FindExact` and `SortedPages`, which speak of states in which no saved
credential has a cue, do not speak of it; `IndexedInTheEnd` says what it does to the others:
nothing. It is stated of all that is owed at once, which, as saves are bounded, says it of each. `Find` is `Cursor` with its operators, scans, order and slice. What LMDB
keeps in order is `InOrder`, the elements of a set by how many come before them, and what the code
picks from a list is `Among`.

`FindExact` and `SortedPages` speak of the queries the search is made for (`Plain`): each field has
an index from the start or in every schema, or has none and is the only such field of the query;
identifiers are asked for at their full length; the fields are not those of a static pair. Section
6 has what the code does with the others. All queries of the run are plain, as an `ASSUME` of
`MCSearch` says.

Left out: a limit of 0, entries of the issuer and subject tables that a kill within a deletion
leaves, cues that are not of saved credentials, and the search over exchange messages.

### 2.7 Exchanges

Each member has an agent of its own with queues `exchanges`, `grants`, `admits`, the signatures it
knows (`held`) and the messages it verified (`saved`). `Sendable` and `Lead` are the decision each
agent takes by itself; `Request` tells one other member after the other. `ExchangeSender` asks
whether it leads of a request, too (agenting.py:1129), although that is queued with the group's name
(grouping.py:110) and signed with the member's key; what keri answers is the constant `Led`, and a
request that is not led is dropped. What comes of a verified message at an agent is the constant
`Outcome`: its artifacts are gathered, its grant found (`fine`); a grant whose artifacts cannot be
gathered, an admit without a grant or with an attachment missing (`dropped`); a credential or
grant that the agent does not have, whose exception ends the process (`raises`, `Halt`); a
recipient whom the postman refuses (`unreachable`). Each message has its own
signers and threshold, so that messages of a group and of a single signature identifier (a group
of one) are in one instance; `Bounds` says which of them a behaviour posts together.

Assumptions: the threshold is a number, signatures are valid, the other members can be reached, the
requests to them follow the post; `Led` and `Outcome` do not change within a behaviour.
`Exchanger.complete`, `lead` and the verification are keri's.

### 2.8 RemoteState

`chain` is the number of events the remote identifier has at its sources (its witnesses), `known`
the number the agent has. `PostStateQuery` forgets the notices of all sources, `PostEventQuery` does
not; `Querier` makes a doer that asks one source, once. A source answers by a notice of its latest
event or by its log (`Answer`), and answers may be overtaken by new events and by each other.
`ReceiveNotice` keeps a notice for its source, and the waiting doer asks for the log if the event is
not known. `StateDone` is the status of the operation: the *first* notice names the latest event the
agent has. `Crash` loses the queries and the doers, and any of what is on its way, and keeps the
operations and notices; a source that was asked before it may still answer. `since` and `hasty` are
history: the length of the chain when the key state was last queried, and whether an earlier query
was unanswered then.

Assumptions: the client resolves an OOBI of the identifier before it queries it; a source that is
asked for an event it does not have answers when it has it; an older notice is refused, and one of
an event before the latest known may be. A query by the seal of an event is the query of that event.

### 2.9 ApiDescription

`phase` is where `setupDoers` is. The routers are the trees of prefixes of the routes; `Visit` is
one iteration of `AgentSpecResource.addRoutes`, which walks the admin app's and then the main app's,
and `todo` the rest of its list, without its order. A server that cannot listen ends the set-up
(`Refused`). `Onload` is the script of the page (`static/swaggerui/swagger-initializer.js`), which
loads `/spec.yaml`.

Assumptions: no resource describes operations in its own docstring (none does); the schemas of the
description are left out; a described method is named, its text left out. The names of the
specification start with `Api`, because `AgencyProofs` extends both modules of the set-up.

## 3. Runs

Every run finishes within three minutes. The type invariants are theorems (section 5) and not
checked again, and so is `DisseminatedIsWitnessed` for groups; `ApiDescription` needs none.

| Run | Instance | What it shows |
|---|---|---|
| `Agency` | 2 controllers, 1 group AID, 2 boots and 2 instances each; liveness | accepted boots persist, on disk too, and no later boot replaces them, databases open once, cached agents usable, routes lead home, a halt is clean, a shutdown ends; boots over left-over stores and refused boots among the steps |
| `AgencyForcedClose` | the same without AIDs | **violation**: a shutdown that never ends (section 6) |
| `RemoteKeys` | 2 salty + 1 randy, 3 rotations of the passcode at most, 2 kills; liveness | the current passcode and the one before open every key, the saved one is the one before; salts are re-encrypted before the old passcode goes; recovery completes as long as the listing has what it needs |
| `RemoteKeysRandy` | 1 + 1, 2 kills | **violation**: randy keys are left with the old passcode |
| `Issuance` | 1 registry, 1 credential, 1 witness, 4 key events, 1 stop; liveness | escrows exclusive, nothing lost, publication witnessed, refinement, completion |
| `IssuanceGroup` | the same for a group, 2 witnesses, symmetric | refinement, for events that compete for a place in the KEL |
| `Delegation` | 2 witnesses, 3 events (2 once a client overlapped or an agent stopped), 2 approvals, 1 stop, 1 refused rotation; liveness | stages exclusive, nothing lost, approvals seal their event, refinement; for clients that wait, what is sent is witnessed, authorizers seal; delegations and inceptions complete |
| `Receipts` | 2 witnesses, 2 events, 1 resubmission, 1 stop, thresholds kept; liveness | done operations are receipted and stay done, the Witnesser drains, resubmissions complete |
| `Search` | 5 credentials of 2 schemas, of which three cannot be indexed, 27 queries asked in every state, 3 saves, 1 stop; liveness | no deleted credential in an index, exact answers, ordered pages, complete indexing of those that can be |
| `Exchanges` | a grant of 3 members with threshold 2; or one of 2 members whose agents gather differently and of whom one's requests are not sent; or two of six messages of one identifier, of all kinds and outcomes, and 1 stop; liveness | what is sent, done or parsed is signed, nothing that can be carried out is dropped, what is done is delivered with its artifacts, an admitted credential parsed, whatever else is queued |
| `RemoteState` | 3 events, 2 sources, 4 queries and OOBIs, 1 stop; liveness | a done key state query is as new as its request; queries complete |
| `ApiDescription` | 7 + 4 routes, with and without a main server; liveness | the description is complete when it is served, a page shows all of it and is never without it |

Why the bounds suffice. *Agency*: what can go wrong between two agents involves the shared cache,
the doers and the group AID, which two controllers exhaust; two instances are needed for a stale
object beside a new one and for two openings of a left-over store. No store is ever cleared, so that
a controller has one agent Hab at most and `MaxBoots` does not bind; the theorems cover every bound.
*RemoteKeys*: two kills allow a recovery that is itself cut short; a third identifier adds no new
relation, since the records of identifiers meet only in the list of a request. *Issuance*: four key
events hold a registry, an issuance, a revocation, and a rotation or a repeated issuance. The
witnesses are interchangeable, also under the refinement mapping, which does not mention them.
*Delegation*: two events are the least for one that overtakes another, and behaviours in which the
client waits have three, so that an interaction comes between. *Receipts*: two events and two
witnesses give every order of queueing and every change of the witness set; a second resubmission
meets what section 6 says of agenting.py:2163. *Search*: one credential of each shape (issuer,
prefix of a value, missing issuee, missing optional field, a number), two of one schema that can be
indexed. *Exchanges*: three members with threshold two are the least in which two pairs of signers
can each be complete without the other; the pairs of messages of one identifier put each outcome
beside a message that works. *RemoteState*: an OOBI, two queries for the key state and one for an
event, over three events, let every answer be late by a query and by an event; two sources let a
stale notice come first. *ApiDescription*: the routes have roots with and without resource, a node
without resource between two that have one, and leaves at three depths.

Deadlock is checked where the system can always move (Agency, RemoteKeys, Issuance); in the others
the bounded clients may have nothing more to ask, so `CHECK_DEADLOCK FALSE`.

## 4. Fairness

* hio gives each scheduled doer one `recur` per cycle: weak fairness of `ShutdownAgents \/ Halt`,
  `Process`, `WitnesserTake`, `SubmitterTake`, `SeekerDoer`, `ExchangeSender`, `Granter`,
  `Admitter`, `Querier`, of the remaining writes of a started handler, and strong fairness of `StartPass` and
  `ReceiptAll`, which requests in between disable again and again but never prevent.
* Witnesses and the network answer: strong fairness of `Receipt` and `WitnesserReceipt`, weak of
  `Deliver`, `Learn`, and the sources' answers (`Answer`, `ReceiveNotice`, `ReceiveLog`).
  `Delegation` lets a witness fail (`Receipt(e, W)` for any W) and its
  liveness property says so (`Unanswered`).
* `setupDoers` runs to its end (`Setup`), and a browser runs the script of a page it loaded.
* Clients: the client in recovery repeats its request, and it is sometimes properly signed
  (`RemoteKeys`, strong); the delegator's client polls its approvals; a member that posted tells the
  others. No other client action is fair, no crash is, and no client is assumed to be idle.

Liveness properties carry their premises in the formula: no further stop (`crashes = k`, `stops`),
witnesses and a Hab that stay (`Steady`), identifiers whose keys are listed complete
(`Recoverable`), credentials whose fields are all there and text (`Indexable`), messages that all
agents can carry out and whose requests are sent (`Promised`), agents that were not closed by force.
Section 6 says which of these premises is there because the code does not do without it.

## 5. Proofs

TLAPS checks, for every value of the constants that meets the named assumptions:

| Module | Theorems | Argument |
|---|---|---|
| `AgencyProofs` | `TypeCorrect`, `AcceptedBootsPersist`, `OpenedOnce`, `CachedAgentsUsable`, `RoutesResolve`, `HaltsClean`; `DescribesAll` | `DiskInv`: an agnt entry names the agent Hab on disk, and a store without one is empty. `HandlerInv`: the stage of the handler says which of the boot's writes are done. `MemoryInv`: the only open instance of a controller is the cached one, unless its store is left over, which has neither entry nor cached instance and stays so for good. `AcceptedKnown`: an answered boot has an entry, a store that agrees with it and its way back; that no second boot gets as far as replacing them is `StepAnswered`. `OpenOnce` alone is not inductive: `Load` opens a new instance, and that no other is open follows only from `MemoryInv`, and that what a boot over a left-over store opens is never cached, only from `DiskInv`. `DescribesAll` is about `ApiDescription`, which `setupDoers` goes through besides making the Agency: `WalkInv` says that during a walk each route is described or the node of one of its prefixes is in `todo`. `PageInv` says what a page may have loaded, which is complete because the server that gave it was listening. That the walk reaches every depth is no induction over the tree but over its steps: a visit of the prefix of length k puts the one of length k + 1 in `todo`. |
| `RemoteKeysProofs` | `TypeCorrect`, `RecoveryPossible`, `RotationComplete` | `FreshInv`: an identifier without Hab, or whose keeper is about to write its first cipher, has none (else a new Hab could expose a cipher of a forgotten passcode). `HandlerInv`: before the old passcode is saved the client's two passcodes open everything; a saved one is the one before the current, so that two rotations never need three; and while keys are updated each salt is current or still in the request's list. `StaleInv`: what the listing of a stale identifier names was read at its earlier keys, and what a recovery stored from it under the current ones was encrypted then or later, so that one of the two passcodes opens it all the same. |
| `IssuanceProofs` | `TypeCorrect`, `WitnessedDissemination`, `OneEscrow`, `NoLoss`, `Refinement`, `CompleteIsFounded` | `SealedInv`: what names a key event (anchors, entries, the handler) names one that seals it, and accepted TEL events follow their priors. `ReceiptedInv`: entries past the first escrow, and the one that moves, are receipted; receipts only grow, and "some witness set since" only gains members. `OnceInv` and `TrackedInv`: an entry is in one place, and in some place. The refinement maps every step by these to `Anchor`, `Publish`, `Complete` or a stutter. `CompleteIsFounded` is proved of the abstract specification alone (`Founded`) and carried over by the refinement. |
| `DelegationProofs` | `TypeCorrect`, `StagesExclusive`, `NoLoss`, `ApprovalsSound`, `SentWitnessed`, `AuthorizersSeal`, `Refinement`, `ApprovalsFinal` | `MadeInv`: whatever is in a queue, escrow, seal or operation is an event of the delegatee's KEL, so that the event an agent is about to make is in no stage. `SealedInv`: what either side takes for approved is sealed. `HabInv`: until a refusal every event in the first stages has its Hab. `CarefulInv`, for `SentWitnessed` and `AuthorizersSeal`: as long as no client overlapped, an event that awaits approval is its delegatee's latest, so that counting receipts against the latest witnesses counts them against its own. `ApprovalsFinal` follows from the refinement, by `Kept` of the abstract specification. |
| `ReceiptsProofs` | `TypeCorrect`, `DoneHasReceipts`, `DoneRemainsDone`, `SubmitDoneHasReceipts` | `ThresholdInv`: under `KeepToad` every event has the threshold now in force. `ReceiptsGrow`: no receipt is ever taken back, so that an operation, once done, is done unless the threshold rises (`DoneRemainsDone`, with or without `KeepToad`). `SubmitInv`: the request of a submit operation is queued, or its event or a later one is in the doer's Deck or receipted. That no doer is listed means that the Deck is empty is `ListedInv`, which relates the length of the Deck to the Submitter's list. |
| `SearchProofs` | `TypeCorrect`, `DeletedUnindexed`, `FoundExactly`, `PagesSorted` | `IndexedInv`: a credential is in indexes only that are on record for its schema and come before the first whose field it lacks, so that a deletion that reaches its end has cleared all of them. That tables hold saved credentials only is not inductive without it. `IndexedFully`, for the answers: in a process that was not stopped, a saved credential that no cue waits for is in every index of its schema, and a schema's record is empty or all of its names; TLC checked it first. From it, index by index (`SettledIndex`): an index that a plain query uses has exactly the saved credentials that have its field. Then each way to an answer is right: one index (`EntriesFacts`), a composed one, several intersected and a scan of the rest (`IndexScanExact`), a scan alone (`ScanOne`). |
| `ExchangesProofs` | `TypeCorrect`, `Signed`, `DoneStays`, `NoneDropped` | `KnownInv`, `SavedInv`, `SignedInv`: signatures an agent knows are of members that posted, a message is verified with enough of them only, and what is on its way was verified by the agent it comes from. `ParsedInv`: a credential is parsed only from a verified message. `SavedGrows`, for `DoneStays`: no stop takes a verified message back. `NothingDropped` is not inductive, since any one poster may decide not to send; `SentInv` says which one does: the first of those who posted, who sees no smaller index whatever it knows of the others; the premises on outcomes (`Reachable`, `Fine`) are of all posters, so of that one. |
| `RemoteStateProofs` | `TypeCorrect`, `Fresh`, `EventDoneStays` | `Timely`: if the latest query for the key state found nothing left of an earlier one, every notice that is kept or on its way names an event of then or later. `Fresh` alone is not inductive: a notice on its way may complete the query at any time. `Existing`: no agent knows, and no answer brings, more events than the source has, and what is known only grows (`EventsGrow`). |

Each invariant `Inv` is proved through a stronger `IInv` with `Init => IInv`,
`IInv /\ [Next]_vars => IInv'`, one step per action. The refinement theorems show that the initial
state maps to the abstract initial state and that each step maps to an abstract step or stutters.
Constants are arbitrary sets; the assumptions are the named `ASSUME`s of each module (bounds are
naturals, `None` is no value, witnesses and members are finite), which TLC evaluates in every run.

Answers are sequences put together from sets, and what they contain and how they are ordered needs
induction over data. The library's induction theorems have an operator as parameter and cannot be
used here; the induction of `SearchProofs` is set up from theorems that have none. `Least`, a least
number of a set of naturals, holds because strict inclusion of finite sets is well founded, here of
the intervals up to those numbers; `Induction` follows for a set of numbers. `InOrderFacts` shows by
it that a finite set under a strict total order is listed by `InOrder` completely and in order,
`AmongSeq` that picking from a sequence keeps what is picked, once each, and `FlattenContents` what
a concatenation of sequences holds. `BeforeFacts` is the order of keys: `Before` is strict and total
on sequences of numbers.

Every invariant and every action property that a passing run checks is a theorem, and so are the two
refinements. The theorems that state no property of a run (`DoneRemainsDone`, `DoneStays`,
`EventDoneStays`, `CompleteIsFounded`, `ApprovalsFinal`) say what is never taken back; each was
first checked by TLC on the instance of its module's run. Only model-checked is liveness: temporal
reasoning with ENABLED is beyond the prover's backends.

## 6. Where the code and the repository's words disagree

Two disagreements are kept as runs that TLC finds violated:

* `AgencyForcedClose` – `Agency.exit` reads an empty list of removed deeds as "every deed"
  (agenting.py:501): an agent loaded between two passes of a shutdown is closed by force, is never
  done, and the Agency never ends; serving.py:11 says it "Shuts all Agency agents down before
  throwing a KeyboardInterrup to cause the Doist loop to exit".
* `RemoteKeysRandy` – private keys of randy identifiers are *put*, which keeps the old value
  (aiding.py:352), and the old passcode is deleted; docs/protocol.md:258 says "5. Update all Randy
  Key encrypted keys" before "6. Delete encrypted old passcode".

More were met on the way. Each but the last is an outcome of a model here, and but for the first,
and for what no liveness is stated of, a premise or a conjunct of a property that holds marks its
place; dropping that premise gives the counterexample.

| Code | What happens | The words | Its mark |
|---|---|---|---|
| agenting.py:374 | `Agency.delete` passes `key=` to keri's `rem`, whose parameter is `keys`, and raises before it undoes anything: a refused boot leaves its agent recorded, cached and open, later boots get 409, and the client a 500 instead of the 400 of agenting.py:1702 | "Deletes the agent from the agency and cleans up its resources." (373) | `BootReject`; no property speaks of refused boots |
| agenting.py:357 | a kill within a boot leaves databases that a later boot trips over, or an agent that answers 409 to every boot and refuses every signature; each boot over left-over databases opens them again (340-352) and closes nothing | "persists all of the information to track the existing agents, allowing recovery on restart" (README.md:21) | `AcceptedBootPersists` speaks of answered boots; `Leftover` in `OpenOnce` and `HaltedIsClean` |
| aiding.py:563 | no handler asks whether a passcode rotation is unfinished | "lock out all other operations until it is completed successfully" (docs/protocol.md:264) | keys made meanwhile in `SavedPasscodeOpensKeys` |
| aiding.py:317 | the KEL is rotated before the request is verified and the old passcode saved | "requires only the new passcode" (docs/protocol.md:266) | `RecoverPasscode` may use the user's last passcode |
| aiding.py:1205 | a kill between Hab and keeper records makes the listing of all identifiers raise | "retrieves a list of identifiers" (502) | premise `Recoverable` |
| aiding.py:354 | after a kill between the public keys and the next private keys of a randy identifier its listing lacks the latter, and every recovery is refused | "requires only the new passcode" (docs/protocol.md:266) | premise `Recoverable` |
| aiding.py:350 | after a kill between a rotation's event and the public keys the listing names the keys before, and a recovery stores them under the current public keys | "Validate them against current public keys" (docs/protocol.md:273) | `stale` in `Recoverable` |
| credentialing.py:1574 | receipts are compared with the number of today's witnesses | "full compliment of receipts" (1556) | "then or since" in `DisseminatedIsWitnessed` |
| credentialing.py:1577 | after a stop an entry of the witness escrow stays although all receipts are there | "When receipting is complete, remove from escrow" (1557) | `Steady` in `IssuanceCompletes` |
| credentialing.py:1575 | without the identifier's Hab, which a refused rotation deletes, the pass over the witness escrow of all identifiers raises | the same | `hab` in `Steady` |
| credentialing.py:1609, 1619 | the removal names no value: an entry that lost to another event takes a retry of the same TEL event with it | "When receipting is complete, remove from escrow" (1597) | no liveness is stated for groups |
| credentialing.py:1635 | a kill between removal from one escrow and addition to the next loses the entry | the same | `crashes = 0` in `NothingLost` |
| delegating.py:145 | an authorizer is recorded under the delegatee's latest event | "authorizer event seal" (148) | `~ overlapped` in `AuthorizerSealsItsEvent` |
| delegating.py:179 | a waiting event is counted against the latest witnesses | "full compliment of receipts" (162) | `~ overlapped` in `SentIsWitnessed` |
| longrunning.py:354 | the approval of a rotation is done as soon as the delegatee is known | "delegator detects delegatee delegation success" (349) | `ApprovedInceptionAccepted` speaks of inceptions |
| delegating.py:171 | a deleted Hab makes every pass raise, for all identifiers | "When receipting is complete, remove from escrow" (163) | `refusals > 0` in `DelegationCompletes` |
| delegating.py:181 | as credentialing.py:1577, for delegated events | the same | `crashes > 0` in `DelegationCompletes` |
| longrunning.py:262 | receipts of an event are compared with the latest threshold | "sufficient witness receipts" (280) | `KeepToad` |
| longrunning.py:537 | a submit operation is done after a restart although no witness was asked | "to re-submit the last event" (agenting.py:2135) | `crashes = 0` in `SubmitDoneIsReceipted` |
| agenting.py:2163 | two resubmissions list one receiptor twice, one listing never leaves | "sufficient witness receipts" (longrunning.py:552) | `asked = 1` in `SubmitCompletes` |
| basing.py:208 | the static pair indexes are keyed by their first field only | "Static indexes are created for issued by/schema" (118) | not the fields of a static pair, in its order (`Plain`) |
| basing.py:569 | a scan with two conditions takes a credential once per condition that holds | "executable operators to apply" (632) | at most one condition without index (`Plain`) |
| agenting.py:1380 | cues lost in a stop are never made again | "indexes all credentials" (basing.py:116) | `crashes = 0` in `FindExact` |
| basing.py:228, 230, 315 | a credential that lacks an issuee or an optional field, or has a number in one, never completes indexing, cannot be deleted, and its cue comes up for ever | "created for all top level scalar valued fields" (119) | `Indexable` in `IndexedInTheEnd` |
| longrunning.py:459 | an exchange operation stays done though the queues that should send it are lost | "long running operation of IPEX grant" (ipexing.py:131) | `stops > 0` in `DoneIsCarriedOut` |
| agenting.py:1129 | a request to the other members (grouping.py:110) that the member does not lead is dropped without a word, and their agents may lack the signature for ever | "creating mulisig exn requests" (grouping.py:32) | `Led` in `DoneIsCarriedOut` |
| ipexing.py:470 | the artifacts of a grant cannot be gathered, as when the issuee is absent or its KEL unknown, and the grant is dropped; a credential that is not there ends the process | "Gathers a list ... of all dependent credential artifacts" (437) | `Outcome`: `Fine` in `NothingDropped` and `DoneIsCarriedOut` |
| agenting.py:1341, 1358 | an admit without a grant, or a grant with an attachment missing, is dropped, while its operation is done | "long running operation of IPEX admit" (ipexing.py:47) | the same |
| agenting.py:1147 | a recipient whom the postman refuses gets nothing, and the operation is done | "long running operation of IPEX grant" (ipexing.py:131) | `Reachable` in `NothingDropped`, `Fine` in `DoneIsCarriedOut` |
| agenting.py:2118 | a notice that answers an earlier query completes a later one, for a state before the request | "Must reset key state so we know when we have a new update" (2118) | `~ hasty` in `StateQueryIsFresh` |
| longrunning.py:420 | an event that becomes known by other means while the notice is on its way leaves the operation pending for ever, and one after it undoes a done operation | "determine the current status of the operation" (224) | `chain > since` in `StateQueryCompletes` |
| agenting.py:2124 | after a stop nothing asks again, and the operation is pending for ever | "Performs key state queries" (1471) | `crashes > 0` in `StateQueryCompletes` and `EventQueryCompletes` |
| longrunning.py:308 | a failed OOBI sets `operation.failed`, which is no field of `Operation`: the operation is reported done without error | "including loading any availabie error messages if the operation failed" (224) | none: the OOBI operation is not modelled |

Two smaller consequences are worth knowing: a kill between the seal and the anchor of a registry
leaves its name taken and the registry unusable, and deleting a credential whose issuance is not
complete leaves its operation pending (`Forgotten`).

## 7. Not modelled

* Signatures, serialisation and cryptography; keri's own escrows beyond what KERIA depends on.
* Registry renaming, schemas, listings, credential verification requests; contacts, notifications,
  group member records: single writes and reads of keri's stores.
* End roles, locations, challenge responses and the operations of them, and the OOBI operation: look-ups
  of a record that may be there already when the operation is made (an OOBI posted again is done
  with its old result). Nothing in KERIA tells an answer from an older one, so that there is no
  property of the code's to state beyond this sentence.
* Joining a group and the group operation, whose events are signed and completed by keri's
  `Counselor`; `Issuance` has what credentials need of it.
* The search over exchange messages (`ExnSeeker`), which works as `Search` does with names of
  indexes that depend on the fields of the message.
* The schemas of the description, CORS, parameter and range parsing, logging, command line options
  (no state that changes at run time); the bundles of Swagger UI (third-party, generated);
  `sig-fix`, a migration run by hand; the test helper.

## 8. Plan

Done, in the order of importance: the life cycle of agents, the keys, credentials, delegation,
witness receipts, search, exchange messages, remote key state, the description of the interface;
proofs for all of them. Next:

1. Groups: joining a group, the group operation, group AIDs that several agents of one agency
   share, messages verified against a key state that has moved on.
2. The search over exchange messages (`ExnSeeker`), whose index names depend on the order of the
   fields of the first message seen.
3. An `Operations` abstraction that `Receipts`, `Issuance`, `Delegation`, `Exchanges` and
   `RemoteState` each implement; that an operation, once done, stays done until it is deleted is
   proved of each kind by itself (a key state query does not).
