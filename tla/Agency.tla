------------------------------- MODULE Agency -------------------------------
(***************************************************************************)
(* The life cycle of KERIA's agents: provisioning (BootEnd, Agency.create, *)
(* Agency.delete), loading (Agency.get, Agency.lookup), release of idle    *)
(* agents (Releaser, Agency.shut), graceful shutdown                       *)
(* (GracefulShutdownDoer, Agency.recur, Agent.shutdownAgent) and restart.  *)
(*                                                                         *)
(* The process is one hio scheduler: an HTTP handler or a doer's recur     *)
(* runs to its end before anything else does, but the process can be       *)
(* killed between any two writes to its LMDB databases.  A handler that    *)
(* writes more than once is therefore a sequence of actions guarded by     *)
(* "handler", which only its own next step, or Crash, can follow.          *)
(***************************************************************************)
EXTENDS Integers, FiniteSets

CONSTANTS
  Controllers,  \* controller AIDs (caid); each has at most one agent
  ManagedAids,  \* AIDs that agents host for their controllers
  GroupAids,    \* those that are multisig groups, which several agents may host
  MaxBoots,     \* bound: agent Habs ever made for one controller
  MaxInstances, \* bound: Agent objects of one controller alive at a time
  None          \* absent value

ASSUME BoundsAssumption == MaxBoots \in Nat /\ MaxInstances \in Nat
ASSUME AidsAssumption == GroupAids \subseteq ManagedAids
ASSUME NoneAssumption == None \notin Controllers \cup ManagedAids

VARIABLES
  agnt,     \* adb.agnt: caid -> AID of its agent (the number of the agent Hab; 0: absent)
  ctrl,     \* adb.ctrl: the <<caid, agent AID>> pairs it maps back
  aids,     \* adb.aids: managed AID -> caid
  store,    \* the keystore and databases on disk, per controller
  boots,    \* how many agent Habs were ever made, which numbers their AIDs
  agents,   \* Agency.agents: caid -> instance of its cached Agent (0: not cached)
  deeds,    \* the doers the Agency schedules: its Releaser and Agent instances
  done,     \* the Agent instances whose doer has returned (Agent.done)
  open,     \* the Agent instances whose databases are open
  recent,   \* caids whose Agent.last is within releaseTimeout
  shouldShutdown, \* Agency.shouldShutdown
  proc,     \* the process: "up", "halted" by the Agency, or "down"
  handler,  \* the HTTP handler between two of its writes
  reply     \* the answer to each controller's last POST /boot that made an agent

adb    == <<agnt, ctrl, aids>>
disk   == <<agnt, ctrl, aids, store, boots>>
memory == <<agents, deeds, done, open, recent>>
vars   == <<agnt, ctrl, aids, store, boots, agents, deeds, done, open, recent,
            shouldShutdown, proc, handler, reply>>

Instances  == Controllers \X (1..MaxInstances)
Releaser   == <<None, 0>>
AgentAids  == Controllers \X (1..MaxBoots)
\* The agent Hab a controller's databases hold, whether the controller's own Hab is there,
\* and the identifiers they host.
Stores     == [agentHab : 0..MaxBoots, ctrlHab : BOOLEAN, habs : SUBSET ManagedAids]
EmptyStore == [agentHab |-> 0, ctrlHab |-> FALSE, habs |-> {}]
Idle       == [op |-> "idle", caid |-> None, aid |-> None]
BootStages == {"agnt", "ctrl", "controller", "keeper"}
Handlers   == [op : {"idle", "incept"} \cup BootStages,
               caid : Controllers \cup {None}, aid : ManagedAids \cup {None}]
Replies    == {"none", "accepted", "error", "badparams"}

TypeOK ==
  /\ agnt \in [Controllers -> 0..MaxBoots]
  /\ ctrl \subseteq AgentAids
  /\ aids \in [ManagedAids -> Controllers \cup {None}]
  /\ store \in [Controllers -> Stores]
  /\ boots \in [Controllers -> 0..MaxBoots]
  /\ agents \in [Controllers -> 0..MaxInstances]
  /\ deeds \subseteq Instances \cup {Releaser}
  /\ done \subseteq Instances
  /\ open \subseteq Instances
  /\ recent \subseteq Controllers
  /\ shouldShutdown \in BOOLEAN
  /\ proc \in {"up", "halted", "down"}
  /\ handler \in Handlers
  /\ reply \in [Controllers -> Replies]

Init ==
  /\ agnt = [c \in Controllers |-> 0]
  /\ ctrl = {}
  /\ aids = [m \in ManagedAids |-> None]
  /\ store = [c \in Controllers |-> EmptyStore]
  /\ boots = [c \in Controllers |-> 0]
  /\ agents = [c \in Controllers |-> 0]
  /\ deeds = {Releaser}
  /\ done = {}
  /\ open = {}
  /\ recent = {}
  /\ shouldShutdown = FALSE
  /\ proc = "up"
  /\ handler = Idle
  /\ reply = [c \in Controllers |-> "none"]

-----------------------------------------------------------------------------
(* Agency.get *)

Serving == proc = "up" /\ handler = Idle

\* The instances of c that still run or hold databases open, and an unused one.
Alive(c)      == {i \in 1..MaxInstances : i = agents[c] \/ <<c, i>> \in deeds \cup open}
Unused(c)     == (1..MaxInstances) \ Alive(c)
Cached(c)     == <<c, agents[c]>>
IsCached(c)   == agents[c] # 0

\* adb.agnt knows the controller, and the name of its agent Hab resolves to that AID.
Provisioned(c) == agnt[c] # 0 /\ store[c].agentHab = agnt[c]

\* Agency.get(c) returns an Agent: the cached one, touched, or a new one over the databases.
Touch(c) ==
  /\ IsCached(c)
  /\ recent' = recent \cup {c}
  /\ UNCHANGED <<agents, deeds, done, open>>

\* A new Agent instance of c: cached, its doer scheduled, its databases open.
NewAgent(c) ==
  \E i \in Unused(c) :
    /\ agents' = [agents EXCEPT ![c] = i]
    /\ deeds' = deeds \cup {<<c, i>>}
    /\ done' = done \ {<<c, i>>}
    /\ open' = open \cup {<<c, i>>}

\* Mutant of Load: the cache is not consulted.
LoadAgain(c) ==
  /\ Provisioned(c)
  /\ NewAgent(c)
  /\ recent' = recent \cup {c}

Load(c) ==
  /\ ~IsCached(c)
  /\ Provisioned(c)
  /\ NewAgent(c)
  /\ recent' = recent \cup {c}

Get(c) == Touch(c) \/ Load(c)

-----------------------------------------------------------------------------
(* BootEnd.on_post *)

\* Agency.create over a new store: the Keeper, Habery and agent Hab.
BootCreate(c) ==
  /\ Serving
  /\ ~IsCached(c) /\ agnt[c] = 0
  /\ store[c].agentHab = 0
  /\ boots[c] < MaxBoots
  /\ boots' = [boots EXCEPT ![c] = @ + 1]
  /\ store' = [store EXCEPT ![c].agentHab = boots[c] + 1]
  /\ handler' = [op |-> "agnt", caid |-> c, aid |-> None]
  /\ reply' = [reply EXCEPT ![c] = "none"]
  /\ UNCHANGED <<adb, memory, shouldShutdown, proc>>

\* The store of a boot that was killed before it was pinned: Agency.get finds no agent in it.
Leftover(c) == agnt[c] = 0 /\ store[c].agentHab # 0

\* Agency.create over such a store: the Keeper and Habery are opened, makeHab refuses the name
\* that the databases already hold, and nothing closes them again.
BootOverLeftover(c) ==
  /\ Serving
  /\ ~IsCached(c) /\ Leftover(c)
  /\ \E i \in Unused(c) : open' = open \cup {<<c, i>>}
  /\ UNCHANGED <<disk, agents, deeds, done, recent, shouldShutdown, proc, handler, reply>>

\* Open databases that neither the cache nor a doer refers to are closed when Python collects
\* their objects.
Collect(c) ==
  /\ Serving
  /\ \E a \in open : a[1] = c /\ a # Cached(c) /\ a \notin deeds /\ open' = open \ {a}
  /\ UNCHANGED <<disk, agents, deeds, done, recent, shouldShutdown, proc, handler, reply>>

At(op, c) == proc = "up" /\ handler.op = op /\ handler.caid = c
Goto(op)  == handler' = [handler EXCEPT !.op = op]

\* Mutant of BootPinAgnt: the entry is not written.
BootForgetAgnt(c) ==
  /\ At("agnt", c)
  /\ Goto("ctrl")
  /\ UNCHANGED <<disk, memory, shouldShutdown, proc, reply>>

BootPinAgnt(c) ==
  /\ At("agnt", c)
  /\ agnt' = [agnt EXCEPT ![c] = store[c].agentHab]
  /\ Goto("ctrl")
  /\ UNCHANGED <<ctrl, aids, store, boots, memory, shouldShutdown, proc, reply>>

\* Agency.create ends: ctrl is pinned, the agent cached and its doer scheduled.
BootPinCtrl(c) ==
  /\ At("ctrl", c)
  /\ ctrl' = ctrl \cup {<<c, store[c].agentHab>>}
  /\ NewAgent(c)
  /\ recent' = recent \cup {c}
  /\ Goto("controller")
  /\ UNCHANGED <<agnt, aids, store, boots, shouldShutdown, proc, reply>>

\* makeSignifyHab accepts the controller's inception event.
BootController(c) ==
  /\ At("controller", c)
  /\ store' = [store EXCEPT ![c].ctrlHab = TRUE]
  /\ Goto("keeper")
  /\ UNCHANGED <<adb, boots, memory, shouldShutdown, proc, reply>>

\* makeSignifyHab raises, or the event is not the controller's own: Agency.delete, whose first
\* call, agnt.rem(key=...), names a parameter that keri calls keys and raises.  The request ends
\* with an error and the agent stays.
BootReject(c) ==
  /\ At("controller", c)
  /\ handler' = Idle
  /\ reply' = [reply EXCEPT ![c] = "error"]
  /\ UNCHANGED <<disk, memory, shouldShutdown, proc>>

\* The salty or randy parameters are stored (202), or one is missing (400, agent kept).
BootKeeper(c) ==
  /\ At("keeper", c)
  /\ \E answer \in {"accepted", "badparams"} : reply' = [reply EXCEPT ![c] = answer]
  /\ handler' = Idle
  /\ UNCHANGED <<disk, memory, shouldShutdown, proc>>

-----------------------------------------------------------------------------
(* Requests to an agent *)

\* A request that ends with Agency.get: Authenticater.verify loads the agent before it
\* checks the signature, and POST /boot answers 409 when there is an agent to load.
Request(c) ==
  /\ Serving
  /\ Get(c)
  /\ UNCHANGED <<disk, shouldShutdown, proc, handler, reply>>

\* Mutant of MakeAid: any request is served once the agent loads, signed or not.
MakeAidUnsigned(c, m) ==
  /\ Serving
  /\ m \notin store[c].habs
  /\ m \in GroupAids \/ \A d \in Controllers : m \notin store[d].habs
  /\ IsCached(c) => Cached(c) \in open
  /\ Get(c)
  /\ store' = [store EXCEPT ![c].habs = @ \cup {m}]
  /\ handler' = [op |-> "incept", caid |-> c, aid |-> m]
  /\ UNCHANGED <<adb, boots, shouldShutdown, proc, reply>>

\* A request of the controller that makes an identifier: the Hab first ...
MakeAid(c, m) ==
  /\ Serving
  /\ store[c].ctrlHab
  /\ m \notin store[c].habs
  /\ m \in GroupAids \/ \A d \in Controllers : m \notin store[d].habs
  /\ IsCached(c) => Cached(c) \in open
  /\ Get(c)
  /\ store' = [store EXCEPT ![c].habs = @ \cup {m}]
  /\ handler' = [op |-> "incept", caid |-> c, aid |-> m]
  /\ UNCHANGED <<adb, boots, shouldShutdown, proc, reply>>

\* ... then Agent.inceptSalty and its siblings call Agency.incept.
InceptAid(c) ==
  /\ At("incept", c)
  /\ aids' = [aids EXCEPT ![handler.aid] = c]
  /\ handler' = Idle
  /\ UNCHANGED <<agnt, ctrl, store, boots, memory, shouldShutdown, proc, reply>>

\* A rotation whose key parameters the keeper refuses deletes the Hab; aids keeps its entry.
DeleteAid(c, m) ==
  /\ Serving
  /\ m \in store[c].habs
  /\ IsCached(c) => Cached(c) \in open
  /\ Get(c)
  /\ store' = [store EXCEPT ![c].habs = @ \ {m}]
  /\ UNCHANGED <<adb, boots, shouldShutdown, proc, handler, reply>>

\* A KERI message or OOBI request is routed by Agency.lookup to the agent of a managed AID ...
RouteManaged(m) ==
  /\ Serving
  /\ aids[m] # None
  /\ Get(aids[m])
  /\ UNCHANGED <<disk, shouldShutdown, proc, handler, reply>>

\* ... or to the agent whose own AID it names.
RouteAgent(a) ==
  /\ Serving
  /\ a \in ctrl
  /\ Get(a[1])
  /\ UNCHANGED <<disk, shouldShutdown, proc, handler, reply>>

-----------------------------------------------------------------------------
(* Release of idle agents *)

\* releaseTimeout passes since the last Agency.get of c.
GrowIdle(c) ==
  /\ Serving
  /\ c \in recent
  /\ recent' = recent \ {c}
  /\ UNCHANGED <<disk, agents, deeds, done, open, shouldShutdown, proc, handler, reply>>

Idlers == {c \in Controllers : IsCached(c) /\ c \notin recent}

\* What Agency.remove leaves of deeds when it removes the doers of the agents "gone".
\* Agency.exit, which it calls with the removed deeds, takes "none removed" for "all": when one
\* of the agents has no deed left, every doer of the Agency is closed, by force and not done.
Remaining(gone) == IF gone \subseteq deeds THEN deeds \ gone ELSE {}

\* Mutant of Release: the agents are closed but stay in Agency.agents.
ReleaseKeepsCache ==
  /\ Serving
  /\ Releaser \in deeds
  /\ Idlers # {}
  /\ LET gone == {Cached(c) : c \in Idlers}
     IN /\ deeds' = Remaining(gone) \cup {Releaser}
        /\ open' = open \ gone
  /\ UNCHANGED <<disk, agents, done, recent, shouldShutdown, proc, handler, reply>>

\* Releaser.recur shuts every agent that is idle.  Its own deed is not in deeds meanwhile.
Release ==
  /\ Serving
  /\ Releaser \in deeds
  /\ Idlers # {}
  /\ LET gone == {Cached(c) : c \in Idlers}
     IN /\ deeds' = Remaining(gone) \cup {Releaser}
        /\ open' = open \ gone
  /\ agents' = [c \in Controllers |-> IF c \in Idlers THEN 0 ELSE agents[c]]
  /\ UNCHANGED <<disk, done, recent, shouldShutdown, proc, handler, reply>>

-----------------------------------------------------------------------------
(* Shutdown and restart *)

\* SIGTERM or SIGINT, seen by GracefulShutdownDoer.recur.
Signal ==
  /\ Serving
  /\ ~shouldShutdown
  /\ shouldShutdown' = TRUE
  /\ UNCHANGED <<disk, memory, proc, handler, reply>>

\* The cached agents whose doer has returned.
Done == {c \in Controllers : IsCached(c) /\ Cached(c) \in done}

\* Agency.recur while shutting down with agents left.  Agency.shutdownAgency removes the agents
\* that are done; the others are told to stop, and their own recur, if they are still scheduled,
\* closes their databases and returns in this same pass.
Stopping == IF Done = {} THEN {Cached(c) : c \in Controllers} \cap deeds ELSE {}

\* Mutants of ShutdownAgents: the agents' doers return without closing their databases, and an
\* agent that is done is not removed.
ShutdownLeavesOpen ==
  /\ Serving
  /\ shouldShutdown
  /\ \E c \in Controllers : IsCached(c)
  /\ deeds' = Remaining({Cached(c) : c \in Done}) \ Stopping
  /\ done' = done \cup Stopping
  /\ agents' = [c \in Controllers |-> IF c \in Done THEN 0 ELSE agents[c]]
  /\ UNCHANGED <<disk, open, recent, shouldShutdown, proc, handler, reply>>

ShutdownKeepsDone ==
  /\ Serving
  /\ shouldShutdown
  /\ \E c \in Controllers : IsCached(c)
  /\ deeds' = deeds \ Stopping
  /\ done' = done \cup Stopping
  /\ open' = open \ Stopping
  /\ UNCHANGED <<disk, agents, recent, shouldShutdown, proc, handler, reply>>

ShutdownAgents ==
  /\ Serving
  /\ shouldShutdown
  /\ \E c \in Controllers : IsCached(c)
  /\ deeds' = Remaining({Cached(c) : c \in Done}) \ Stopping
  /\ done' = done \cup Stopping
  /\ open' = open \ Stopping
  /\ agents' = [c \in Controllers |-> IF c \in Done THEN 0 ELSE agents[c]]
  /\ UNCHANGED <<disk, recent, shouldShutdown, proc, handler, reply>>

\* Agency.recur with no agent left returns, and Agency.exit ends the process.
Halt ==
  /\ Serving
  /\ shouldShutdown
  /\ \A c \in Controllers : ~IsCached(c)
  /\ proc' = "halted"
  /\ deeds' = {}
  /\ UNCHANGED <<disk, agents, done, open, recent, shouldShutdown, handler, reply>>

\* The process is killed, perhaps within a handler.
Crash ==
  /\ proc = "up"
  /\ proc' = "down"
  /\ agents' = [c \in Controllers |-> 0]
  /\ deeds' = {}
  /\ done' = {}
  /\ open' = {}
  /\ recent' = {}
  /\ handler' = Idle
  /\ UNCHANGED <<disk, shouldShutdown, reply>>

Restart ==
  /\ proc # "up"
  /\ proc' = "up"
  /\ shouldShutdown' = FALSE
  /\ deeds' = {Releaser}
  /\ done' = {}
  /\ open' = {}
  /\ recent' = {}
  /\ UNCHANGED <<disk, agents, handler, reply>>

-----------------------------------------------------------------------------

BootStep(c) ==
  \/ BootPinAgnt(c) \/ BootPinCtrl(c) \/ BootController(c)
  \/ BootReject(c) \/ BootKeeper(c)

\* What the clients decide.
Client ==
  \/ \E c \in Controllers : BootCreate(c) \/ BootOverLeftover(c) \/ Request(c)
  \/ \E c \in Controllers, m \in ManagedAids : MakeAid(c, m) \/ DeleteAid(c, m)
  \/ \E m \in ManagedAids : RouteManaged(m)
  \/ \E a \in AgentAids : RouteAgent(a)

\* What the process does by itself.
Server ==
  \/ \E c \in Controllers : BootStep(c) \/ InceptAid(c) \/ GrowIdle(c) \/ Collect(c)
  \/ Release
  \/ ShutdownAgents
  \/ Halt

Next == Client \/ Server \/ Signal \/ Crash \/ Restart

Spec == Init /\ [][Next]_vars

\* hio runs a started handler to its end and the Agency's recur once per cycle.
Fairness ==
  /\ \A c \in Controllers : WF_vars(BootStep(c) \/ InceptAid(c))
  /\ WF_vars(ShutdownAgents \/ Halt)

FairSpec == Spec /\ Fairness

-----------------------------------------------------------------------------
(* Safety *)

\* A boot answered 202 is durable: whatever crashes, releases or restarts follow, the agency
\* still knows the controller, and no other boot is ever answered, takes its agent away or puts
\* another in its place.
AcceptedBootPersists ==
  /\ [](\A c \in Controllers :
        reply[c] = "accepted" => /\ Provisioned(c)
                                 /\ store[c].ctrlHab
                                 /\ <<c, agnt[c]>> \in ctrl)
  /\ [][\A c \in Controllers :
          reply[c] = "accepted" => reply'[c] = "accepted" /\ agnt'[c] = agnt[c]]_vars

\* LMDB forbids a process to open a database twice.  get, create, shut and shutdown each decide
\* on their own when to open and close: the databases of a controller are open more than once
\* only when its boot was killed before it was pinned, each further boot of it opening them anew.
OpenOnce ==
  \A a, b \in open : a[1] = b[1] => a = b \/ Leftover(a[1])

\* A cached agent has usable databases until the agency has started to shut down.
CachedIsOpen ==
  (proc = "up" /\ ~shouldShutdown) =>
    \A c \in Controllers : IsCached(c) => Cached(c) \in open /\ Cached(c) \in deeds

\* Every managed AID the agency routes leads to an agent that Agency.get can load and that
\* knows its controller: Agency.lookup neither answers None for a routed AID nor meets the
\* ConfigurationError of Agency.get, whatever was killed between the writes of a boot.
RoutesLeadHome ==
  \A m \in ManagedAids :
    aids[m] # None => Provisioned(aids[m]) /\ store[aids[m]].ctrlHab

\* When the Agency has ended its loop every agent's databases are closed, but for those that
\* repeated boots over a store left behind have opened.
HaltedIsClean == proc = "halted" => \A a \in open : Leftover(a[1])

-----------------------------------------------------------------------------
(* Liveness *)

\* Every cached agent with open databases is still scheduled, so that its own recur can shut it
\* down: Agency.recur "will shut down each agent and then exit the Agency" (agenting.py:491).
EachAgentShutsDown ==
  \A c \in Controllers : IsCached(c) /\ Cached(c) \in open => Cached(c) \in deeds

\* Once requests, signals and crashes have stopped, a shutdown that was asked for ends the
\* process, unless an agent was closed by force.
QuietShutdownCompletes ==
  (<>[][Server]_vars /\ <>[]shouldShutdown /\ []EachAgentShutsDown) => <>(proc # "up")

-----------------------------------------------------------------------------
(* What the repository says of the Agency and the code does not do *)

\* GracefulShutdownDoer "Shuts all Agency agents down before throwing a KeyboardInterrup to
\* cause the Doist loop to exit" (serving.py:11): once requests, signals and crashes have
\* stopped, a shutdown that was asked for ends the process.
ShutdownCompletes ==
  (<>[][Server]_vars /\ <>[]shouldShutdown) => <>(proc # "up")

=============================================================================
