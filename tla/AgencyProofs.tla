---------------------------- MODULE AgencyProofs ----------------------------
(***************************************************************************)
(* Proofs, for every set of controllers and AIDs and every bound, that the *)
(* safety properties of Agency hold.  They follow from one inductive       *)
(* invariant: what the databases say of a controller, what the handler in  *)
(* progress may rely on, and which Agent instances hold databases open.    *)
(* And, for every tree of routes, that what setupDoers describes of the    *)
(* servers it makes besides the Agency is complete.                        *)
(***************************************************************************)
EXTENDS Agency, ApiDescription, SequenceTheorems, TLAPS

\* What the persistent databases say of each other, at every instant a crash can pick.
DiskInv ==
  \A c \in Controllers :
    /\ agnt[c] # 0 => store[c].agentHab = agnt[c]
    /\ store[c].agentHab = 0 => store[c] = EmptyStore

\* What a handler knows between two of its writes.
HandlerInv ==
  LET c == handler.caid
  IN /\ handler.op = "idle" => handler = Idle
     /\ handler.op # "idle" => c \in Controllers
     /\ handler.op = "incept" => handler.aid \in ManagedAids
     /\ handler.op \in BootStages => reply[c] = "none"
     /\ handler.op \in {"agnt", "ctrl"} => ~IsCached(c)
     /\ handler.op \in {"agnt", "ctrl", "controller"} => ~store[c].ctrlHab
     /\ handler.op = "agnt" => Leftover(c) /\ \A a \in open : a[1] # c
     /\ handler.op \in {"ctrl", "controller", "keeper", "incept"} => Provisioned(c)
     /\ handler.op \in {"controller", "keeper"} => <<c, agnt[c]>> \in ctrl
     /\ handler.op \in {"keeper", "incept"} => store[c].ctrlHab

\* An open instance is the cached one and is not done, unless boots over a store left behind opened
\* it; a cached controller is a known one; nothing is cached in a process that does not run.
MemoryInv ==
  /\ \A a \in open : agents[a[1]] = a[2] \/ Leftover(a[1])
  /\ \A a \in open \cap done : Leftover(a[1])
  /\ \A c \in Controllers : IsCached(c) => agnt[c] # 0
  /\ proc # "up" => /\ handler = Idle
                    /\ \A a \in open : Leftover(a[1])
                    /\ \A c \in Controllers : ~IsCached(c)

\* The databases of an accepted controller: the agency maps it to the agent AID they hold, and back.
AcceptedKnown ==
  \A c \in Controllers :
    reply[c] = "accepted" => /\ Provisioned(c)
                             /\ store[c].ctrlHab
                             /\ <<c, agnt[c]>> \in ctrl

IInv ==
  /\ TypeOK
  /\ DiskInv
  /\ HandlerInv
  /\ MemoryInv
  /\ AcceptedKnown
  /\ CachedIsOpen
  /\ RoutesLeadHome

\* The databases on disk and the handler keep their types whatever single field a step sets.
LEMMA StoreTypes ==
  /\ EmptyStore \in Stores
  /\ \A s \in Stores :
       /\ \A b \in 0..MaxBoots : [s EXCEPT !.agentHab = b] \in Stores
       /\ [s EXCEPT !.ctrlHab = TRUE] \in Stores
       /\ \A m \in ManagedAids : [s EXCEPT !.habs = s.habs \cup {m}] \in Stores
       /\ \A m \in ManagedAids : [s EXCEPT !.habs = s.habs \ {m}] \in Stores
<1> USE BoundsAssumption DEF Stores
<1>1. EmptyStore \in Stores
  BY DEF EmptyStore
<1>2. ASSUME NEW s \in Stores, NEW b \in 0..MaxBoots PROVE [s EXCEPT !.agentHab = b] \in Stores
  OBVIOUS
<1>3. ASSUME NEW s \in Stores PROVE [s EXCEPT !.ctrlHab = TRUE] \in Stores
  OBVIOUS
<1>4. ASSUME NEW s \in Stores, NEW H \in SUBSET ManagedAids PROVE [s EXCEPT !.habs = H] \in Stores
  OBVIOUS
<1>5. ASSUME NEW s \in Stores, NEW m \in ManagedAids
      PROVE /\ s.habs \cup {m} \in SUBSET ManagedAids
            /\ s.habs \ {m} \in SUBSET ManagedAids
  OBVIOUS
<1>6. QED
  BY <1>1, <1>2, <1>3, <1>4, <1>5

\* The instances a handler has opened, and its place, stay of their types.
LEMMA HandlerTypes ==
  /\ Idle \in Handlers
  /\ \A h \in Handlers, op \in BootStages : [h EXCEPT !.op = op] \in Handlers
  /\ \A c \in Controllers, op \in BootStages : [op |-> op, caid |-> c, aid |-> None] \in Handlers
  /\ \A c \in Controllers, m \in ManagedAids :
       [op |-> "incept", caid |-> c, aid |-> m] \in Handlers
  BY DEF Handlers, Idle, BootStages

\* The initial state satisfies the inductive invariant.
LEMMA InitInv == Init => IInv
<1> SUFFICES ASSUME Init PROVE IInv
  OBVIOUS
<1> USE BoundsAssumption, NoneAssumption DEF Init
<1>1. TypeOK
  <2>1. store \in [Controllers -> Stores] /\ handler \in Handlers
    BY StoreTypes, HandlerTypes
  <2>2. /\ ctrl \subseteq AgentAids
        /\ deeds \subseteq Instances \cup {Releaser}
        /\ done \subseteq Instances
        /\ open \subseteq Instances
    OBVIOUS
  <2>3. /\ agnt \in [Controllers -> 0..MaxBoots]
        /\ boots \in [Controllers -> 0..MaxBoots]
        /\ agents \in [Controllers -> 0..MaxInstances]
    OBVIOUS
  <2>4. aids \in [ManagedAids -> Controllers \cup {None}]
    OBVIOUS
  <2>5. /\ recent \subseteq Controllers
        /\ shouldShutdown \in BOOLEAN
        /\ proc \in {"up", "halted", "down"}
        /\ reply \in [Controllers -> Replies]
    BY DEF Replies
  <2>6. QED
    BY <2>1, <2>2, <2>3, <2>4, <2>5 DEF TypeOK
<1>2. DiskInv /\ HandlerInv /\ MemoryInv
  BY DEF DiskInv, HandlerInv, MemoryInv, EmptyStore, Idle, BootStages, IsCached, Provisioned
<1>3. AcceptedKnown /\ CachedIsOpen /\ RoutesLeadHome
  BY DEF AcceptedKnown, CachedIsOpen, RoutesLeadHome, IsCached
<1>4. QED
  BY <1>1, <1>2, <1>3 DEF IInv

\* Every step keeps the variables within their types.
LEMMA StepType == ASSUME TypeOK, HandlerInv, Next PROVE TypeOK'
<1> USE BoundsAssumption, NoneAssumption, StoreTypes, HandlerTypes
        DEF TypeOK, At, Goto, Serving, adb, disk, memory, Unused, Instances, AgentAids, Cached,
            Remaining, NewAgent
<1>1. ASSUME NEW c \in Controllers, BootCreate(c) PROVE TypeOK'
  <2>1. "agnt" \in BootStages
    BY DEF BootStages
  <2>2. boots[c] + 1 \in 0..MaxBoots
    BY <1>1 DEF BootCreate
  <2>3. store' \in [Controllers -> Stores]
    BY <1>1, <2>2 DEF BootCreate
  <2>4. handler' \in Handlers
    BY <1>1, <2>1 DEF BootCreate
  <2>5. QED
    BY <1>1, <2>2, <2>3, <2>4 DEF BootCreate, Replies
<1>2. ASSUME NEW c \in Controllers, BootStep(c) PROVE TypeOK'
  <2>1. {"ctrl", "controller", "keeper"} \subseteq BootStages
    BY DEF BootStages
  <2>2. CASE BootPinAgnt(c)
    <3>1. store[c].agentHab \in 0..MaxBoots
      BY DEF Stores
    <3>2. QED
      BY <2>1, <2>2, <3>1 DEF BootPinAgnt
  <2>3. CASE BootPinCtrl(c)
    <3>1. store[c].agentHab \in 1..MaxBoots
      BY <2>3 DEF Stores, HandlerInv, BootPinCtrl, Provisioned
    <3>2. QED
      BY <2>1, <2>3, <3>1 DEF BootPinCtrl
  <2>4. CASE BootController(c)
    BY <2>1, <2>4 DEF BootController
  <2>5. CASE BootReject(c)
    BY <2>5 DEF BootReject, Replies
  <2>7. CASE BootKeeper(c)
    BY <2>7 DEF BootKeeper, Replies
  <2>8. QED
    BY <1>2, <2>2, <2>3, <2>4, <2>5, <2>7 DEF BootStep
<1>3. ASSUME NEW c \in Controllers, Get(c) PROVE /\ agents' \in [Controllers -> 0..MaxInstances]
                                                /\ deeds' \subseteq Instances \cup {Releaser}
                                                /\ done' \subseteq Instances
                                                /\ open' \subseteq Instances
                                                /\ recent' \subseteq Controllers
  BY <1>3 DEF Get, Touch, Load
<1>4. ASSUME NEW c \in Controllers, Request(c) PROVE TypeOK'
  BY <1>3, <1>4 DEF Request
<1>5. ASSUME NEW c \in Controllers, NEW m \in ManagedAids, MakeAid(c, m) PROVE TypeOK'
  BY <1>3, <1>5 DEF MakeAid
<1>6. ASSUME NEW c \in Controllers, NEW m \in ManagedAids, DeleteAid(c, m) PROVE TypeOK'
  BY <1>3, <1>6 DEF DeleteAid
<1>7. ASSUME NEW c \in Controllers, InceptAid(c) PROVE TypeOK'
  BY <1>7 DEF InceptAid, HandlerInv
<1>8. ASSUME NEW m \in ManagedAids, RouteManaged(m) PROVE TypeOK'
  BY <1>3, <1>8 DEF RouteManaged
<1>9. ASSUME NEW a \in AgentAids, RouteAgent(a) PROVE TypeOK'
  BY <1>3, <1>9 DEF RouteAgent
<1>10. ASSUME NEW c \in Controllers, GrowIdle(c) PROVE TypeOK'
  BY <1>10 DEF GrowIdle
<1>11. CASE Release
  BY <1>11 DEF Release
<1>12. CASE Signal
  BY <1>12 DEF Signal
<1>13. CASE ShutdownAgents
  <2>1. Stopping \subseteq Instances
    <3>1. ASSUME NEW c \in Controllers, Cached(c) \in deeds PROVE Cached(c) \in Instances
      BY <3>1, NoneAssumption DEF Releaser
    <3>2. QED
      BY <3>1 DEF Stopping
  <2>2. Remaining({Cached(c) : c \in Done}) \subseteq deeds
    OBVIOUS
  <2>3. agents' \in [Controllers -> 0..MaxInstances]
    BY <1>13 DEF ShutdownAgents
  <2>4. QED
    BY <1>13, <2>1, <2>2, <2>3 DEF ShutdownAgents
<1>14. CASE Halt
  BY <1>14 DEF Halt
<1>15. CASE Crash
  BY <1>15 DEF Crash
<1>16. CASE Restart
  BY <1>16 DEF Restart
<1>17. ASSUME NEW c \in Controllers, BootOverLeftover(c) \/ Collect(c) PROVE TypeOK'
  <2>1. open' \subseteq Instances
    BY <1>17 DEF BootOverLeftover, Collect
  <2>2. QED
    BY <1>17, <2>1 DEF BootOverLeftover, Collect
<1>18. QED
  BY <1>1, <1>2, <1>17, <1>4, <1>5, <1>6, <1>7, <1>8, <1>9, <1>10, <1>11, <1>12, <1>13, <1>14,
     <1>15, <1>16 DEF Next, Client, Server

\* Making or deleting an identifier changes one controller's set of identifiers on disk.
LEMMA AidsOnly ==
  ASSUME TypeOK, NEW c \in Controllers, NEW m \in ManagedAids, MakeAid(c, m) \/ DeleteAid(c, m)
  PROVE  /\ UNCHANGED <<agnt, ctrl, aids, reply>>
         /\ \A d \in Controllers : /\ store'[d].agentHab = store[d].agentHab
                                   /\ store'[d].ctrlHab = store[d].ctrlHab
         /\ \A d \in Controllers : d # c => store'[d] = store[d]
         /\ store[c] # EmptyStore
<1> USE DEF TypeOK, Stores
<1>1. PICK H : store' = [store EXCEPT ![c].habs = H]
  BY DEF MakeAid, DeleteAid
<1>2. store[c] # EmptyStore
  BY DEF MakeAid, DeleteAid, EmptyStore
<1>3. QED
  BY <1>1, <1>2 DEF MakeAid, DeleteAid, adb

\* An open instance is its controller's cached one, or of a store left behind.
LEMMA OpenIsCached ==
  ASSUME TypeOK, MemoryInv
  PROVE  \A a \in open : /\ a[1] \in Controllers /\ a = <<a[1], a[2]>> /\ a[2] # 0
                         /\ Leftover(a[1]) \/ (a = Cached(a[1]) /\ IsCached(a[1]))
BY DEF TypeOK, MemoryInv, Cached, IsCached, Instances

\* A store left behind stays so: nothing but the boot that made it would pin it.
LEMMA LeftoverStays ==
  ASSUME TypeOK, HandlerInv, Next, NEW c \in Controllers, Leftover(c), ~At("agnt", c)
  PROVE  Leftover(c)'
<1> USE DEF TypeOK, Stores, Leftover, HandlerInv, At, BootStages
<1>1. ASSUME NEW d \in Controllers, BootCreate(d) PROVE Leftover(c)'
  BY <1>1 DEF BootCreate, adb
<1>2. ASSUME NEW d \in Controllers, BootPinAgnt(d) PROVE Leftover(c)'
  BY <1>2 DEF BootPinAgnt
<1>3. ASSUME NEW d \in Controllers, BootController(d) PROVE Leftover(c)'
  BY <1>3 DEF BootController, adb
<1>4. ASSUME NEW d \in Controllers, NEW m \in ManagedAids, MakeAid(d, m) \/ DeleteAid(d, m)
      PROVE  Leftover(c)'
  BY <1>4, AidsOnly
<1>5. ASSUME UNCHANGED <<agnt, store>> PROVE Leftover(c)'
  BY <1>5
<1>6. QED
  BY <1>1, <1>2, <1>3, <1>4, <1>5
     DEF Next, Client, Server, BootStep, BootOverLeftover, Collect, BootPinCtrl, BootReject,
         BootKeeper, Request, InceptAid, RouteManaged, RouteAgent, GrowIdle, Release, Signal,
         ShutdownAgents, Halt, Crash, Restart, disk, adb

\* Whatever Agency.get does to c, it leaves the other controllers alone, and c, once cached and
\* not being rolled back, is provisioned.
LEMMA GetLoads ==
  ASSUME TypeOK, DiskInv, MemoryInv, Serving, NEW c \in Controllers, Get(c)
  PROVE  /\ Provisioned(c)
         /\ \A d \in Controllers : d # c => agents'[d] = agents[d]
         /\ \A a \in open' : a \in open \/ a = <<c, agents'[c]>>
         /\ open \subseteq open' /\ deeds \subseteq deeds'
         /\ IsCached(c) => agents' = agents /\ open' = open /\ done' = done
         /\ done' \subseteq done
         /\ ~IsCached(c) => <<c, agents'[c]>> \in (open' \cap deeds') \ done'
<1> USE DEF TypeOK, Serving
<1>1. Provisioned(c)
  BY DEF Get, Touch, Load, DiskInv, MemoryInv, Provisioned, Idle
<1>2. CASE Touch(c)
  BY <1>1, <1>2 DEF Touch
<1>3. CASE Load(c)
  BY <1>1, <1>3 DEF Load, NewAgent
<1>4. QED
  BY <1>2, <1>3 DEF Get

\* What the databases say of each other survives every step, and so every crash.
LEMMA StepDisk == ASSUME TypeOK, DiskInv, HandlerInv, Next PROVE DiskInv'
<1> USE DEF TypeOK, DiskInv, At, Stores, EmptyStore, BootStages
<1>1. ASSUME NEW c \in Controllers, BootCreate(c) PROVE DiskInv'
  BY <1>1 DEF BootCreate, adb
<1>2. ASSUME NEW c \in Controllers, BootPinAgnt(c) PROVE DiskInv'
  BY <1>2 DEF BootPinAgnt
<1>3. ASSUME NEW c \in Controllers, BootPinCtrl(c) PROVE DiskInv'
  BY <1>3 DEF BootPinCtrl
<1>4. ASSUME NEW c \in Controllers, BootController(c) PROVE DiskInv'
  <2>1. c \in Controllers /\ agnt[c] # 0
    BY <1>4 DEF BootController, HandlerInv, Provisioned
  <2>2. agnt' = agnt /\ store' = [store EXCEPT ![c].ctrlHab = TRUE]
    BY <1>4 DEF BootController, adb
  <2>3. \A d \in Controllers : /\ store'[d].agentHab = store[d].agentHab
                               /\ d # c => store'[d] = store[d]
    BY <2>2
  <2>4. store[c].agentHab # 0
    BY <2>1
  <2> QED
    BY <2>1, <2>2, <2>3, <2>4
<1>8. ASSUME NEW c \in Controllers, NEW m \in ManagedAids, MakeAid(c, m) \/ DeleteAid(c, m)
      PROVE  DiskInv'
  BY <1>8, AidsOnly
<1>9. ASSUME UNCHANGED <<agnt, store>> PROVE DiskInv'
  BY <1>9
<1>10. QED
  BY <1>1, <1>2, <1>3, <1>4, <1>8, <1>9
     DEF Next, Client, Server, BootStep, BootOverLeftover, Collect, BootReject, BootKeeper, Request, InceptAid, RouteManaged, RouteAgent,
         GrowIdle, Release, Signal, ShutdownAgents, Halt, Crash, Restart, disk, adb

\* What a handler relies on holds when it takes its next step.
LEMMA StepHandler ==
  ASSUME TypeOK, DiskInv, HandlerInv, MemoryInv, Next
  PROVE  HandlerInv'
<1> USE DEF At, Goto, Serving, BootStages
<1>0. ASSUME handler' = Idle PROVE HandlerInv'
  BY <1>0 DEF HandlerInv, Idle
<1>1. ASSUME NEW c \in Controllers, BootCreate(c) PROVE HandlerInv'
  <2>1. store[c] = EmptyStore /\ boots[c] + 1 # 0
    BY <1>1 DEF TypeOK, DiskInv, BootCreate
  <2>6. \A a \in open' : a[1] # c
    BY <1>1, <2>1, OpenIsCached DEF BootCreate, memory, Leftover, EmptyStore
  <2>2. store'[c].agentHab # 0 /\ ~store'[c].ctrlHab
    BY <1>1, <2>1 DEF TypeOK, BootCreate, EmptyStore
  <2>3. reply'[c] = "none" /\ agents'[c] = 0 /\ agnt'[c] = 0
    BY <1>1 DEF TypeOK, BootCreate, adb, memory, IsCached
  <2>4. handler' = [op |-> "agnt", caid |-> c, aid |-> None]
    BY <1>1 DEF BootCreate
  <2>5. QED
    BY <2>2, <2>3, <2>4, <2>6 DEF HandlerInv, IsCached, Idle, Leftover
<1>2. ASSUME NEW c \in Controllers, BootPinAgnt(c) PROVE HandlerInv'
  BY <1>2 DEF TypeOK, Handlers, Stores, HandlerInv, BootPinAgnt, memory, IsCached, Provisioned, Leftover
<1>3. ASSUME NEW c \in Controllers, BootPinCtrl(c) PROVE HandlerInv'
  BY <1>3 DEF TypeOK, Handlers, Stores, HandlerInv, BootPinCtrl, NewAgent, Unused, IsCached, Provisioned
<1>4. ASSUME NEW c \in Controllers, BootController(c) PROVE HandlerInv'
  <2>1. /\ c = handler.caid /\ handler.op = "controller" /\ c \in Controllers
        /\ reply[c] = "none" /\ Provisioned(c) /\ <<c, agnt[c]>> \in ctrl
    BY <1>4 DEF BootController, HandlerInv
  <2>2. /\ handler'.op = "keeper" /\ handler'.caid = c /\ handler'.op # "idle"
    BY <1>4 DEF TypeOK, Handlers, BootController
  <2>3. UNCHANGED <<agnt, ctrl, agents, reply>>
    BY <1>4 DEF BootController, adb, memory
  <2>4. store'[c].ctrlHab /\ store'[c].agentHab = store[c].agentHab
    BY <1>4 DEF TypeOK, Stores, BootController
  <2>5. QED
    BY <2>1, <2>2, <2>3, <2>4 DEF HandlerInv, Provisioned
<1>6. ASSUME NEW c \in Controllers, BootReject(c) \/ BootKeeper(c) \/ InceptAid(c) PROVE HandlerInv'
  BY <1>0, <1>6 DEF BootReject, BootKeeper, InceptAid
<1>7. ASSUME NEW c \in Controllers, NEW m \in ManagedAids, MakeAid(c, m) PROVE HandlerInv'
  <2>1. Provisioned(c) /\ store[c].ctrlHab
    BY <1>7, GetLoads DEF MakeAid
  <2>2. agnt'[c] = agnt[c] /\ store'[c].agentHab = store[c].agentHab /\ store'[c].ctrlHab
    BY <1>7, <2>1 DEF TypeOK, Stores, MakeAid, adb
  <2>3. handler' = [op |-> "incept", caid |-> c, aid |-> m]
    BY <1>7 DEF MakeAid
  <2>4. QED
    BY <2>1, <2>2, <2>3 DEF HandlerInv, Provisioned
<1>8. ASSUME Serving, UNCHANGED handler PROVE HandlerInv'
  BY <1>0, <1>8
<1>9. CASE Restart
  BY <1>0, <1>9 DEF Restart, MemoryInv
<1>10. CASE Crash
  BY <1>0, <1>10 DEF Crash
<1>11. QED
  BY <1>1, <1>2, <1>3, <1>4, <1>6, <1>7, <1>8, <1>9, <1>10
     DEF Next, Client, Server, BootStep, BootOverLeftover, Collect, Request, DeleteAid, RouteManaged, RouteAgent,
         GrowIdle, Release, Signal, ShutdownAgents, Halt

\* Only cached agents, and boots over stores left behind, hold databases open.
LEMMA StepMemory ==
  ASSUME TypeOK, DiskInv, HandlerInv, MemoryInv, Next
  PROVE  MemoryInv'
<1> USE DEF At, Serving, BootStages, IsCached
<1>0. /\ \A a \in open : /\ a[1] \in Controllers /\ a = <<a[1], a[2]>> /\ a[2] # 0
                         /\ Leftover(a[1]) \/ (a = Cached(a[1]) /\ IsCached(a[1]))
      /\ \A a \in open' : a \in Instances /\ a = <<a[1], a[2]>>
  BY OpenIsCached, StepType DEF TypeOK, Instances
<1>a. /\ \A c \in Controllers : Leftover(c) /\ ~At("agnt", c) => Leftover(c)'
      /\ \A c \in Controllers : IsCached(c) => ~Leftover(c)
  BY LeftoverStays DEF MemoryInv, Leftover
<1>1. ASSUME NEW c \in Controllers, BootCreate(c) PROVE MemoryInv'
  BY <1>0, <1>1, <1>a DEF MemoryInv, BootCreate, adb, memory, Idle
<1>2. ASSUME NEW c \in Controllers, BootPinAgnt(c) PROVE MemoryInv'
  <2>1. /\ UNCHANGED <<agents, open, done>> /\ proc' = "up" /\ agnt[c] = 0
        /\ \A a \in open : a[1] # c
        /\ \A d \in Controllers : d # c => agnt'[d] = agnt[d] /\ store'[d] = store[d]
    BY <1>2 DEF TypeOK, HandlerInv, BootPinAgnt, memory, Leftover
  <2>2. \A d \in Controllers : d # c /\ Leftover(d) => Leftover(d)'
    BY <2>1 DEF Leftover
  <2>3. QED
    BY <1>0, <2>1, <2>2 DEF MemoryInv
<1>3. ASSUME NEW c \in Controllers, BootPinCtrl(c) PROVE MemoryInv'
  <2>1. agents[c] = 0 /\ agnt[c] # 0 /\ ~Leftover(c)
    BY <1>3 DEF HandlerInv, BootPinCtrl, Provisioned, Leftover
  <2>2. PICK i \in Unused(c) : /\ agents' = [agents EXCEPT ![c] = i]
                               /\ done' = done \ {<<c, i>>}
                               /\ open' = open \cup {<<c, i>>}
    BY <1>3 DEF BootPinCtrl, NewAgent
  <2>3. \A d \in Controllers : Leftover(d) => Leftover(d)'
    BY <1>3, <1>a DEF BootPinCtrl
  <2>4. \A a \in open : a[1] # c \/ Leftover(a[1])
    BY <1>0, <2>1 DEF Cached
  <2>5. \A a \in open' : agents'[a[1]] = a[2] \/ Leftover(a[1])'
    BY <1>0, <2>1, <2>2, <2>3, <2>4 DEF TypeOK, MemoryInv
  <2>6. \A a \in open' \cap done' : a \in open \cap done
    BY <2>2
  <2>7. \A a \in open' \cap done' : Leftover(a[1])'
    BY <1>0, <2>3, <2>6 DEF MemoryInv
  <2>8. \A d \in Controllers : agents'[d] # 0 => agnt'[d] # 0
    BY <1>3, <2>1, <2>2 DEF TypeOK, MemoryInv, BootPinCtrl
  <2>9. proc' = "up"
    BY <1>3 DEF BootPinCtrl
  <2>10. QED
    BY <2>5, <2>7, <2>8, <2>9 DEF MemoryInv
<1>4. ASSUME NEW c \in Controllers, BootController(c) PROVE MemoryInv'
  BY <1>0, <1>4, <1>a DEF MemoryInv, BootController, adb, memory
<1>5. ASSUME NEW c \in Controllers, BootOverLeftover(c) PROVE MemoryInv'
  <2>1. /\ UNCHANGED <<agnt, agents, done>> /\ proc' = "up" /\ Leftover(c)'
        /\ \A a \in open' : a \in open \/ a[1] = c
        /\ \A d \in Controllers : Leftover(d) => Leftover(d)'
    BY <1>5, <1>a DEF BootOverLeftover, Idle, disk
  <2>2. QED
    BY <1>0, <2>1 DEF MemoryInv
<1>6. ASSUME NEW c \in Controllers, Collect(c) PROVE MemoryInv'
  <2>1. /\ UNCHANGED <<agnt, agents, done>> /\ proc' = "up" /\ open' \subseteq open
        /\ \A d \in Controllers : Leftover(d) => Leftover(d)'
    BY <1>6, <1>a DEF Collect, Idle, disk
  <2>2. QED
    BY <1>0, <2>1 DEF MemoryInv
<1>7. ASSUME NEW c \in Controllers, BootReject(c) \/ BootKeeper(c) \/ InceptAid(c) PROVE MemoryInv'
  <2>1. /\ UNCHANGED <<agnt, agents, open, done>> /\ proc' = "up"
        /\ \A d \in Controllers : Leftover(d) => Leftover(d)'
    BY <1>7, <1>a DEF BootReject, BootKeeper, InceptAid, disk, memory
  <2>2. QED
    BY <1>0, <2>1 DEF MemoryInv
<1>8. ASSUME NEW c \in Controllers, Get(c), Serving, agnt' = agnt, proc' = proc PROVE MemoryInv'
  <2>0. /\ Provisioned(c) /\ ~Leftover(c)
        /\ \A d \in Controllers : d # c => agents'[d] = agents[d]
        /\ \A a \in open' : a \in open \/ a = <<c, agents'[c]>>
        /\ IsCached(c) => agents' = agents
        /\ done' \subseteq done
        /\ ~IsCached(c) => <<c, agents'[c]>> \notin done'
        /\ IsCached(c) => open' = open
        /\ \A d \in Controllers : Leftover(d) => Leftover(d)'
    BY <1>8, <1>a, GetLoads DEF Leftover, Provisioned, Idle
  <2>1. \A a \in open' : agents'[a[1]] = a[2] \/ Leftover(a[1])'
    <3>1. ASSUME NEW a \in open, ~Leftover(a[1]) PROVE agents'[a[1]] = a[2]
      <4>1. a[1] \in Controllers /\ agents[a[1]] = a[2] /\ a[2] # 0
        BY <1>0, <3>1 DEF MemoryInv
      <4>2. a[1] = c => IsCached(c)
        BY <4>1 DEF IsCached
      <4> QED
        BY <2>0, <4>1, <4>2
    <3>2. ASSUME NEW a \in open' PROVE agents'[a[1]] = a[2] \/ Leftover(a[1])'
      <4>1. CASE a \in open
        BY <1>0, <2>0, <3>1, <4>1
      <4>2. CASE a = <<c, agents'[c]>>
        BY <4>2
      <4> QED
        BY <2>0, <4>1, <4>2
    <3>3. QED
      BY <3>2
  <2>2. \A a \in open' \cap done' : Leftover(a[1])'
    <3>1. \A a \in open' \cap done' : a \in open \cap done
      BY <2>0
    <3>2. QED
      BY <1>0, <2>0, <3>1 DEF MemoryInv
  <2>3. \A d \in Controllers : agents'[d] # 0 => agnt'[d] # 0
    BY <1>8, <2>0 DEF MemoryInv, Provisioned, IsCached
  <2>4. QED
    BY <1>8, <2>1, <2>2, <2>3 DEF MemoryInv
<1>9. CASE Release
  <2>1. /\ \A d \in Controllers : agents'[d] # 0 => agents'[d] = agents[d]
        /\ \A d \in Controllers : Leftover(d) => Leftover(d)'
    BY <1>9, <1>a DEF Release, Idle
  <2>2. \A a \in open' : a \in open /\ (Leftover(a[1]) \/ agents'[a[1]] = agents[a[1]])
    BY <1>0, <1>9 DEF Release
  <2>3. done' = done /\ agnt' = agnt /\ proc' = "up"
    BY <1>9 DEF Release, disk
  <2>4. QED
    BY <1>0, <2>1, <2>2, <2>3 DEF MemoryInv
<1>10. CASE ShutdownAgents
  <2>1. /\ \A d \in Controllers : agents'[d] # 0 => agents'[d] = agents[d]
        /\ \A d \in Controllers : Leftover(d) => Leftover(d)'
    BY <1>10, <1>a DEF ShutdownAgents, Idle
  <2>2. \A a \in open' : a \in open /\ (Leftover(a[1]) \/ agents'[a[1]] = agents[a[1]])
    <3>1. ASSUME NEW a \in open, ~Leftover(a[1]) PROVE a[1] \notin Done
      BY <1>0, <3>1 DEF Done, MemoryInv
    <3>2. QED
      BY <1>0, <1>10, <3>1 DEF ShutdownAgents
  <2>3. \A a \in open' \cap done' : a \in done
    BY <1>10 DEF ShutdownAgents
  <2>4. agnt' = agnt /\ proc' = "up"
    BY <1>10 DEF ShutdownAgents, disk
  <2>5. QED
    BY <1>0, <2>1, <2>2, <2>3, <2>4 DEF MemoryInv
<1>11. CASE Halt
  <2>1. /\ UNCHANGED <<agnt, agents, open, done, handler>> /\ handler = Idle
        /\ \A d \in Controllers : agents[d] = 0
        /\ \A d \in Controllers : Leftover(d) => Leftover(d)'
    BY <1>11, <1>a DEF Halt, disk, Idle
  <2>2. \A a \in open : Leftover(a[1])
    BY <1>0, <2>1
  <2>3. QED
    BY <1>0, <2>1, <2>2 DEF MemoryInv
<1>12. CASE Crash
  BY <1>12 DEF TypeOK, MemoryInv, Crash
<1>13. CASE Restart
  BY <1>13 DEF MemoryInv, Restart, disk
<1>14. ASSUME UNCHANGED <<agnt, store, agents, done, open, proc, handler>> PROVE MemoryInv'
  BY <1>14 DEF MemoryInv, Leftover
<1>15. QED
  BY <1>1, <1>2, <1>3, <1>4, <1>5, <1>6, <1>7, <1>8, <1>9, <1>10, <1>11, <1>12, <1>13, <1>14
     DEF Next, Client, Server, BootStep, Request, MakeAid, DeleteAid, RouteManaged, RouteAgent,
         GrowIdle, Signal, disk, memory, adb, AgentAids, TypeOK

\* An accepted boot stays durable: only a boot touches what it left behind, and no boot of a
\* controller follows an accepted one.
LEMMA StepAccepted ==
  ASSUME TypeOK, DiskInv, HandlerInv, MemoryInv, AcceptedKnown, Next
  PROVE  AcceptedKnown'
<1> USE DEF TypeOK, Stores, AcceptedKnown, Provisioned, At, BootStages
<1>1. ASSUME NEW c \in Controllers, BootCreate(c) PROVE AcceptedKnown'
  BY <1>1 DEF BootCreate, adb
<1>2. ASSUME NEW c \in Controllers, BootPinAgnt(c) PROVE AcceptedKnown'
  BY <1>2 DEF BootPinAgnt, HandlerInv
<1>3. ASSUME NEW c \in Controllers, BootPinCtrl(c) PROVE AcceptedKnown'
  BY <1>3 DEF BootPinCtrl
<1>4. ASSUME NEW c \in Controllers, BootController(c) PROVE AcceptedKnown'
  BY <1>4 DEF BootController, adb
<1>5. ASSUME NEW c \in Controllers, BootReject(c) PROVE AcceptedKnown'
  BY <1>5 DEF BootReject, disk, adb
<1>7. ASSUME NEW c \in Controllers, BootKeeper(c) PROVE AcceptedKnown'
  BY <1>7 DEF BootKeeper, disk, HandlerInv
<1>8. ASSUME NEW c \in Controllers, NEW m \in ManagedAids, MakeAid(c, m) \/ DeleteAid(c, m)
      PROVE  AcceptedKnown'
  BY <1>8, AidsOnly
<1>9. ASSUME UNCHANGED <<agnt, ctrl, store, reply>> PROVE AcceptedKnown'
  BY <1>9
<1>10. QED
  BY <1>1, <1>2, <1>3, <1>4, <1>5, <1>7, <1>8, <1>9
     DEF Next, Client, Server, BootStep, BootOverLeftover, Collect, Request, InceptAid, RouteManaged, RouteAgent,
         GrowIdle, Release, Signal, ShutdownAgents, Halt, Crash, Restart, disk, adb

\* A routed AID leads to a usable agent: the handler that records the route checked it, and a
\* boot that is rolled back has not yet let its controller make identifiers.
LEMMA StepRoutes ==
  ASSUME TypeOK, DiskInv, HandlerInv, RoutesLeadHome, Next
  PROVE  RoutesLeadHome'
<1> USE NoneAssumption DEF TypeOK, Stores, RoutesLeadHome, Provisioned, At, BootStages
<1>1. ASSUME NEW c \in Controllers, BootCreate(c) PROVE RoutesLeadHome'
  BY <1>1 DEF BootCreate, adb
<1>2. ASSUME NEW c \in Controllers, BootPinAgnt(c) PROVE RoutesLeadHome'
  BY <1>2 DEF BootPinAgnt, HandlerInv
<1>3. ASSUME NEW c \in Controllers, BootController(c) PROVE RoutesLeadHome'
  BY <1>3 DEF BootController, adb
<1>6. ASSUME NEW c \in Controllers, InceptAid(c) PROVE RoutesLeadHome'
  BY <1>6 DEF InceptAid, HandlerInv
<1>7. ASSUME NEW c \in Controllers, NEW m \in ManagedAids, MakeAid(c, m) \/ DeleteAid(c, m)
      PROVE  RoutesLeadHome'
  BY <1>7, AidsOnly
<1>8. ASSUME UNCHANGED <<agnt, aids, store>> PROVE RoutesLeadHome'
  BY <1>8
<1>9. QED
  BY <1>1, <1>2, <1>3, <1>6, <1>7, <1>8
     DEF Next, Client, Server, BootStep, BootOverLeftover, Collect, BootReject, BootPinCtrl, BootKeeper, Request, RouteManaged,
         RouteAgent, GrowIdle, Release, Signal, ShutdownAgents, Halt, Crash, Restart, disk, adb

\* Until shutdown starts, every step that caches an agent opens and schedules it, and every step
\* that closes one also removes it from the cache.
LEMMA StepCached ==
  ASSUME TypeOK, DiskInv, HandlerInv, MemoryInv, CachedIsOpen, Next
  PROVE  CachedIsOpen'
<1> USE DEF TypeOK, CachedIsOpen, IsCached, Cached, At
<1>1. ASSUME NEW c \in Controllers, BootPinCtrl(c) PROVE CachedIsOpen'
  BY <1>1 DEF BootPinCtrl, NewAgent
<1>2. ASSUME NEW c \in Controllers, BootOverLeftover(c) \/ Collect(c) PROVE CachedIsOpen'
  <2>1. /\ UNCHANGED <<agents, deeds, proc, shouldShutdown>>
        /\ \A a \in open : a \in open' \/ a \notin deeds
    BY <1>2 DEF BootOverLeftover, Collect
  <2>2. QED
    BY <2>1
<1>3. ASSUME NEW c \in Controllers, Get(c), Serving, UNCHANGED <<proc, shouldShutdown>>
      PROVE  CachedIsOpen'
  <2>1. ASSUME NEW d \in Controllers, d # c PROVE agents'[d] = agents[d]
    BY <1>3, <2>1, GetLoads
  <2>2. open \subseteq open' /\ deeds \subseteq deeds'
    BY <1>3, GetLoads
  <2>3. \/ agents'[c] = agents[c] /\ agents[c] # 0
        \/ <<c, agents'[c]>> \in open' \cap deeds'
    BY <1>3, GetLoads
  <2>4. QED
    BY <1>3, <2>1, <2>2, <2>3
<1>4. CASE Release
  BY <1>4 DEF Release, Idlers, Remaining
<1>5. CASE ShutdownAgents
  BY <1>5 DEF ShutdownAgents
<1>6. CASE Halt \/ Crash
  BY <1>6 DEF Halt, Crash
<1>7. CASE Restart
  BY <1>7 DEF Restart, MemoryInv
<1>8. CASE Signal
  BY <1>8 DEF Signal
<1>9. ASSUME UNCHANGED <<agents, deeds, open, proc, shouldShutdown>> PROVE CachedIsOpen'
  BY <1>9
<1>10. QED
  BY <1>1, <1>2, <1>3, <1>4, <1>5, <1>6, <1>7, <1>8, <1>9
     DEF Next, Client, Server, BootStep, BootCreate, BootPinAgnt, BootController, BootReject,
         BootKeeper, Request, MakeAid, DeleteAid, InceptAid, RouteManaged, RouteAgent, GrowIdle,
         AgentAids, memory

\* Every step of the agency keeps the invariant.
LEMMA StepInv == IInv /\ [Next]_vars => IInv'
<1> SUFFICES ASSUME IInv, [Next]_vars PROVE IInv'
  OBVIOUS
<1> USE DEF IInv
<1>1. CASE Next
  BY <1>1, StepType, StepDisk, StepHandler, StepMemory, StepAccepted, StepCached, StepRoutes
<1>2. CASE UNCHANGED vars
  BY <1>2 DEF vars, TypeOK, DiskInv, HandlerInv, MemoryInv, AcceptedKnown, CachedIsOpen,
              RoutesLeadHome, Provisioned, IsCached, Cached, Leftover
<1>3. QED
  BY <1>1, <1>2

\* The invariant holds in every reachable state, crashes and restarts included.
LEMMA Inductive == Spec => []IInv
<1>1. Init => IInv
  BY InitInv
<1>2. IInv /\ [Next]_vars => IInv'
  BY StepInv
<1>3. QED
  BY <1>1, <1>2, PTL DEF Spec

-----------------------------------------------------------------------------

\* The variables keep their types.
THEOREM TypeCorrect == Spec => []TypeOK
<1>1. IInv => TypeOK
  BY DEF IInv
<1>2. QED
  BY <1>1, Inductive, PTL

\* An accepted controller keeps its answer and its agent: a boot starts only where the agency knows
\* no agent, and every later step of a boot is that of a controller without answer.
LEMMA StepAnswered ==
  ASSUME IInv, Next, NEW c \in Controllers, reply[c] = "accepted"
  PROVE  reply'[c] = "accepted" /\ agnt'[c] = agnt[c]
<1> USE DEF IInv, TypeOK, HandlerInv, At, BootStages
<1>1. agnt[c] # 0
  BY DEF AcceptedKnown, Provisioned
<1>2. ASSUME NEW d \in Controllers, BootCreate(d) PROVE reply'[c] = reply[c] /\ agnt'[c] = agnt[c]
  BY <1>1, <1>2 DEF BootCreate, adb
<1>3. ASSUME NEW d \in Controllers, BootPinAgnt(d)
      PROVE  reply'[c] = reply[c] /\ agnt'[c] = agnt[c]
  BY <1>3 DEF BootPinAgnt
<1>4. ASSUME NEW d \in Controllers, BootReject(d) \/ BootKeeper(d)
      PROVE  reply'[c] = reply[c] /\ agnt'[c] = agnt[c]
  BY <1>4 DEF BootReject, BootKeeper, disk, adb
<1>5. QED
  BY <1>2, <1>3, <1>4
     DEF Next, Client, Server, BootStep, BootOverLeftover, Collect, BootPinCtrl, BootController,
         Request, MakeAid, DeleteAid,
         InceptAid, RouteManaged, RouteAgent, GrowIdle, Release, Signal, ShutdownAgents, Halt,
         Crash, Restart, disk, adb

\* A boot answered 202 (BootEnd.on_post) is never lost: the agency's databases keep mapping the
\* controller to its agent and back, and to this agent alone, whatever is released, killed or
\* restarted afterwards and whoever asks for another boot.
THEOREM AcceptedBootsPersist == Spec => AcceptedBootPersists
<1>1. IInv => \A c \in Controllers :
                reply[c] = "accepted" => /\ Provisioned(c)
                                         /\ store[c].ctrlHab
                                         /\ <<c, agnt[c]>> \in ctrl
  BY DEF IInv, AcceptedKnown
<1>2. IInv /\ [Next]_vars =>
        [\A c \in Controllers :
           reply[c] = "accepted" => reply'[c] = "accepted" /\ agnt'[c] = agnt[c]]_vars
  BY StepAnswered
<1>3. QED
  BY <1>1, <1>2, Inductive, PTL DEF Spec, AcceptedBootPersists

\* Agency.get, create, shut and shutdown never open one agent's databases twice; only boots over
\* the store of a boot that was killed do.
THEOREM OpenedOnce == Spec => []OpenOnce
<1>1. IInv => OpenOnce
  <2> SUFFICES ASSUME IInv, NEW a \in open, NEW b \in open, a[1] = b[1], ~Leftover(a[1])
               PROVE  a = b
    BY DEF OpenOnce
  <2>1. a = Cached(a[1]) /\ b = Cached(b[1])
    BY OpenIsCached DEF IInv
  <2>2. QED
    BY <2>1
<1>2. QED
  BY <1>1, Inductive, PTL

\* An agent in the cache that Agency.get answers from has open databases and a scheduled doer.
THEOREM CachedAgentsUsable == Spec => []CachedIsOpen
<1>1. IInv => CachedIsOpen
  BY DEF IInv
<1>2. QED
  BY <1>1, Inductive, PTL

\* Agency.lookup of an AID the agency routes finds an agent that knows its controller.
THEOREM RoutesResolve == Spec => []RoutesLeadHome
<1>1. IInv => RoutesLeadHome
  BY DEF IInv
<1>2. QED
  BY <1>1, Inductive, PTL

\* Once the Agency's loop has ended no database is open but of stores left behind.
THEOREM HaltsClean == Spec => []HaltedIsClean
<1>1. IInv => HaltedIsClean
  BY DEF IInv, MemoryInv, HaltedIsClean
<1>2. QED
  BY <1>1, Inductive, PTL

-----------------------------------------------------------------------------

(***************************************************************************)
(* The description of the interface, which setupDoers makes between the    *)
(* Agency and its servers.  A walk reaches every route, however deep: at   *)
(* each instant a route is described or the node of one of its prefixes    *)
(* has still to be visited, and a visit goes one segment further.          *)
(***************************************************************************)

\* What is described of a route.
Entry(r) == <<r, Described(r)>>

\* Each route of an app is described, or the node of a part of it has still to be visited.
Underway(app) ==
  \A r \in routes[app] : Entry(r) \in paths \/ \E k \in 1..Len(r) : SubSeq(r, 1, k) \in todo
AllWalked(app) == \A r \in routes[app] : Entry(r) \in paths

\* setupDoers, phase by phase: the routes that are there, how far the walks have come, and no
\* main server before the last step.
WalkInv ==
  /\ routes = [app \in Apps |-> routes[app]]
  /\ paths \subseteq Interface
  /\ phase = "http" => "http" \notin servers /\ routes["admin"] = AdminRoutes
  /\ phase \in {"boot", "admin"} => "http" \notin servers
  /\ phase = "walk admin" => /\ "http" \notin servers
                             /\ routes["admin"] = AdminRoutes /\ routes["http"] = HttpRoutes
                             /\ Underway("admin")
  /\ phase = "walk http" => /\ "http" \notin servers
                            /\ routes["admin"] = AdminRoutes /\ routes["http"] = HttpRoutes
                            /\ AllWalked("admin") /\ Underway("http")
  /\ phase = "open" => "http" \notin servers /\ paths = Interface
  /\ "http" \in servers => phase = "ready" /\ paths = Interface
  /\ phase \in {"boot", "admin", "http", "walk admin", "walk http", "open", "ready", "failed"}

\* The description has its route before the main server listens, and a page is a page of that server.
PageInv ==
  /\ phase = "open" \/ "http" \in servers => SpecRoute \in routes["http"]
  /\ page \in {"none", "loaded", "shown"}
  /\ page # "none" => "http" \in servers
  /\ page = "shown" => shown = Interface

\* The nodes on the way to a route.
LEMMA NodeFacts ==
  ASSUME Segmented, NEW app \in Apps, routes[app] \subseteq Routes, NEW r \in routes[app]
  PROVE  /\ Len(r) \in Nat \ {0} /\ SubSeq(r, 1, Len(r)) = r
         /\ SubSeq(r, 1, 1) \in Top(app)
         /\ \A k \in 1..Len(r) - 1 : SubSeq(r, 1, k + 1) \in Children(app, SubSeq(r, 1, k))
<1>1. r \in Seq(STRING) /\ r # <<>> /\ Len(r) \in Nat /\ Len(r) # 0 /\ \A i \in 1..Len(r) : r[i] \in STRING
  <2>1. r \in Seq(STRING) /\ r # <<>>
    BY DEF Segmented
  <2>2. QED
    BY <2>1, EmptySeq, LenProperties, ElementOfSeq
<1>2. SubSeq(r, 1, Len(r)) = r
  BY <1>1, SubSeqFull
<1>3. ASSUME NEW n \in 1..Len(r)
      PROVE  /\ SubSeq(r, 1, n) \in Nodes(app) /\ SubSeq(r, 1, n) \in Seq(STRING)
             /\ Len(SubSeq(r, 1, n)) = n
             /\ \A i \in 1..n : SubSeq(r, 1, n)[i] = r[i]
  <2>1. SubSeq(r, 1, n) \in Nodes(app)
    BY DEF Nodes
  <2>2. \A i \in 1..n : r[i] \in STRING
    BY <1>1
  <2>3. /\ SubSeq(r, 1, n) \in Seq(STRING)
        /\ Len(SubSeq(r, 1, n)) = IF 1 <= n THEN n - 1 + 1 ELSE 0
        /\ \A i \in 1..n - 1 + 1 : SubSeq(r, 1, n)[i] = r[1 + i - 1]
    BY <1>1, <2>2, SubSeqProperties
  <2>4. QED
    BY <2>1, <2>3
<1>4. SubSeq(r, 1, 1) \in Top(app)
  <2>1. 1 \in 1..Len(r)
    BY <1>1
  <2>2. QED
    BY <1>3, <2>1 DEF Top
<1>5. ASSUME NEW k \in 1..Len(r) - 1 PROVE SubSeq(r, 1, k + 1) \in Children(app, SubSeq(r, 1, k))
  <2> DEFINE m == SubSeq(r, 1, k + 1)
             n == SubSeq(r, 1, k)
  <2>1. k \in 1..Len(r) /\ k + 1 \in 1..Len(r) /\ k + 1 > 1 /\ \A i \in 1..k : i \in 1..k + 1
    BY <1>1
  <2>2. /\ m \in Nodes(app) /\ m \in Seq(STRING) /\ Len(m) = k + 1
        /\ n \in Seq(STRING) /\ Len(n) = k /\ \A i \in 1..k : n[i] = m[i]
    BY <1>3, <2>1
  <2> HIDE DEF m, n
  <2>3. SubSeq(m, 1, k) = n
    <3>1. \A i \in 1..k : m[i] \in STRING
      BY <2>1, <2>2, ElementOfSeq
    <3>2. /\ SubSeq(m, 1, k) \in Seq(STRING)
          /\ Len(SubSeq(m, 1, k)) = IF 1 <= k THEN k - 1 + 1 ELSE 0
          /\ \A i \in 1..k - 1 + 1 : SubSeq(m, 1, k)[i] = m[1 + i - 1]
      BY <2>2, <3>1, SubSeqProperties
    <3>3. /\ SubSeq(m, 1, k) \in Seq(STRING) /\ Len(SubSeq(m, 1, k)) = k
          /\ \A i \in 1..k : SubSeq(m, 1, k)[i] = n[i]
      BY <2>2, <3>2
    <3>4. QED
      BY <2>2, <3>3, SeqEqual
  <2>4. Front(m) = n
    BY <2>2, <2>3 DEF Front
  <2>5. QED
    BY <2>1, <2>2, <2>4 DEF Children, m, n
<1>6. QED
  BY <1>1, <1>2, <1>4, <1>5

\* The invariant holds before setupDoers does anything.
LEMMA DescriptionInit == ApiInit => WalkInv /\ PageInv
BY DEF ApiInit, WalkInv, PageInv, Apps

\* The walk of an app starts at its top.
LEMMA WalkStarts ==
  ASSUME Segmented, NEW app \in Apps, routes[app] \subseteq Routes
  PROVE  \A r \in routes[app] : \E k \in 1..Len(r) : SubSeq(r, 1, k) \in Top(app)
<1> SUFFICES ASSUME NEW r \in routes[app]
             PROVE  \E k \in 1..Len(r) : SubSeq(r, 1, k) \in Top(app)
  OBVIOUS
<1>1. Len(r) \in Nat \ {0} /\ SubSeq(r, 1, 1) \in Top(app)
  BY NodeFacts
<1>2. 1 \in 1..Len(r)
  BY <1>1
<1>3. QED
  BY <1>1, <1>2

\* A visit describes the route of its node, and for those below goes one node further.
LEMMA VisitStep ==
  ASSUME Segmented, NEW app \in Apps, routes[app] \subseteq Routes,
         Underway(app), app = Walked, NEW n, Visit(n)
  PROVE  /\ \A r \in routes[app] : Entry(r) \in paths' \/ \E k \in 1..Len(r) : SubSeq(r, 1, k) \in todo'
         /\ paths \subseteq paths' /\ paths' \subseteq paths \cup {Entry(r) : r \in routes[app]}
<1>1. /\ n \in todo
      /\ paths' = IF n \in routes[app] THEN paths \cup {Entry(n)} ELSE paths
      /\ todo' = (todo \ {n}) \cup Children(app, n)
  BY DEF Visit, Entry
<1>2. ASSUME NEW r \in routes[app], Entry(r) \notin paths'
      PROVE  \E k \in 1..Len(r) : SubSeq(r, 1, k) \in todo'
  <2>1. Entry(r) \notin paths
    BY <1>1, <1>2
  <2>2. PICK k \in 1..Len(r) : SubSeq(r, 1, k) \in todo
    BY <2>1 DEF Underway
  <2>3. CASE SubSeq(r, 1, k) # n
    BY <1>1, <2>2, <2>3
  <2>4. CASE SubSeq(r, 1, k) = n
    <3>1. /\ Len(r) \in Nat \ {0} /\ SubSeq(r, 1, Len(r)) = r
          /\ \A j \in 1..Len(r) - 1 : SubSeq(r, 1, j + 1) \in Children(app, SubSeq(r, 1, j))
      BY NodeFacts
    <3>2. k # Len(r)
      BY <1>1, <1>2, <2>4, <3>1
    <3> DEFINE l == Len(r)
    <3>3. k \in 1..l - 1 /\ k + 1 \in 1..l
      <4>1. l \in Nat /\ k \in 1..l /\ k # l
        BY <3>1, <3>2
      <4> HIDE DEF l
      <4>2. QED
        BY <4>1
    <3>4. SubSeq(r, 1, k + 1) \in todo'
      BY <1>1, <2>4, <3>1, <3>3
    <3>5. QED
      BY <3>3, <3>4
  <2>5. QED
    BY <2>3, <2>4
<1>3. paths \subseteq paths' /\ paths' \subseteq paths \cup {Entry(r) : r \in routes[app]}
  BY <1>1
<1>4. QED
  BY <1>2, <1>3

\* Every step of setupDoers, of the walks and of the page keeps it.
LEMMA DescriptionNext == Segmented /\ WalkInv /\ [ApiNext]_apiVars => WalkInv'
<1> SUFFICES ASSUME Segmented, WalkInv, [ApiNext]_apiVars PROVE WalkInv'
  OBVIOUS
<1> USE DEF Apps
<1>1. CASE CreateBootServer
  BY <1>1 DEF WalkInv, CreateBootServer, client
<1>2. CASE CreateAdminServer
  BY <1>2 DEF WalkInv, CreateAdminServer, client
<1>3. CASE LoadHttpEnds
  <2>1. /\ phase = "http" /\ routes' = [routes EXCEPT !["http"] = HttpRoutes]
        /\ todo' = Top("admin") /\ phase' = "walk admin" /\ UNCHANGED <<servers, paths>>
    BY <1>3 DEF LoadHttpEnds, client
  <2>2. /\ routes = [app \in Apps |-> routes[app]] /\ routes["admin"] = AdminRoutes
        /\ paths \subseteq Interface /\ "http" \notin servers
    BY <2>1 DEF WalkInv
  <2>3. \A r \in routes["admin"] : \E k \in 1..Len(r) : SubSeq(r, 1, k) \in todo'
    BY <2>1, <2>2, WalkStarts DEF Routes
  <2>4. /\ routes'["admin"] = AdminRoutes /\ routes'["http"] = HttpRoutes
        /\ routes' = [app \in Apps |-> routes'[app]]
    BY <2>1, <2>2
  <2>5. Underway("admin")'
    BY <2>2, <2>3, <2>4 DEF Underway
  <2>6. QED
    BY <2>1, <2>2, <2>4, <2>5 DEF WalkInv, Interface
<1>4. ASSUME NEW n \in todo, Visit(n) PROVE WalkInv'
  <2>1. UNCHANGED <<routes, servers, phase>> /\ phase \in {"walk admin", "walk http"}
    BY <1>4 DEF Visit, config
  <2>2. /\ routes = [app \in Apps |-> routes[app]] /\ routes["admin"] = AdminRoutes /\ routes["http"] = HttpRoutes
        /\ paths \subseteq Interface /\ "http" \notin servers
        /\ phase = "walk admin" => Underway("admin")
        /\ phase = "walk http" => AllWalked("admin") /\ Underway("http")
    BY <2>1 DEF WalkInv
  <2> DEFINE app == Walked
  <2>3. app \in Apps /\ routes[app] \subseteq Routes /\ Underway(app)
        /\ (phase = "walk admin" => app = "admin") /\ (phase = "walk http" => app = "http")
    BY <2>1, <2>2 DEF Walked, Routes
  <2>4. /\ \A r \in routes[app] : Entry(r) \in paths' \/ \E k \in 1..Len(r) : SubSeq(r, 1, k) \in todo'
        /\ paths \subseteq paths' /\ paths' \subseteq paths \cup {Entry(r) : r \in routes[app]}
    BY <1>4, <2>3, VisitStep
  <2> HIDE DEF app
  <2>5. paths' \subseteq Interface
    <3>1. {Entry(r) : r \in routes[app]} \subseteq Interface
      BY <2>3 DEF Entry, Interface
    <3>2. QED
      BY <2>2, <2>4, <3>1
  <2>6. AllWalked("admin") => AllWalked("admin")'
    BY <2>1, <2>4 DEF AllWalked, Entry, Described
  <2>8. CASE phase = "walk admin"
    <3>1. Underway("admin")'
      BY <2>1, <2>3, <2>4, <2>8 DEF Underway, Entry, Described
    <3>2. QED
      BY <2>1, <2>2, <2>5, <2>8, <3>1 DEF WalkInv, Interface, Described
  <2>9. CASE phase = "walk http"
    <3>1. Underway("http")'
      BY <2>1, <2>3, <2>4, <2>9 DEF Underway, Entry, Described
    <3>2. QED
      BY <2>1, <2>2, <2>5, <2>6, <2>9, <3>1 DEF WalkInv, Interface, Described
  <2>10. QED
    BY <2>1, <2>8, <2>9
<1>5. CASE WalkHttp
  <2>1. /\ phase = "walk admin" /\ todo = {} /\ todo' = Top("http") /\ phase' = "walk http"
        /\ UNCHANGED <<routes, servers, paths>>
    BY <1>5 DEF WalkHttp, config
  <2>2. /\ routes = [app \in Apps |-> routes[app]] /\ routes["admin"] = AdminRoutes /\ routes["http"] = HttpRoutes
        /\ paths \subseteq Interface /\ "http" \notin servers /\ Underway("admin")
    BY <2>1 DEF WalkInv
  <2>3. \A r \in routes["http"] : \E k \in 1..Len(r) : SubSeq(r, 1, k) \in todo'
    BY <2>1, <2>2, WalkStarts DEF Routes
  <2>4. AllWalked("admin")' /\ Underway("http")'
    BY <2>1, <2>2, <2>3 DEF Underway, AllWalked, Entry, Described
  <2>5. QED
    BY <2>1, <2>2, <2>4 DEF WalkInv, Interface
<1>6. CASE AddSpecRoute
  <2>1. /\ phase = "walk http" /\ todo = {} /\ phase' = "open"
        /\ routes' = [routes EXCEPT !["http"] = @ \cup {SpecRoute}]
        /\ UNCHANGED <<servers, paths>>
    BY <1>6 DEF AddSpecRoute
  <2>2. /\ routes = [app \in Apps |-> routes[app]] /\ routes["admin"] = AdminRoutes /\ routes["http"] = HttpRoutes
        /\ paths \subseteq Interface /\ "http" \notin servers /\ AllWalked("admin") /\ Underway("http")
    BY <2>1 DEF WalkInv
  <2>3. Interface \subseteq paths
    BY <2>1, <2>2 DEF Underway, AllWalked, Entry, Interface, Routes
  <2>4. routes' = [app \in Apps |-> routes'[app]]
    BY <2>1, <2>2
  <2>5. QED
    BY <2>1, <2>2, <2>3, <2>4 DEF WalkInv, Interface
<1>7. CASE OpenHttpServer
  BY <1>7 DEF WalkInv, OpenHttpServer, client, Interface
<1>8. CASE Refused
  BY <1>8 DEF WalkInv, Refused, config, client, Interface
<1>9. CASE OpenPage \/ Onload \/ UNCHANGED apiVars
  <2>1. UNCHANGED <<routes, servers, phase, paths, todo>>
    BY <1>9 DEF OpenPage, Onload, apiVars, config
  <2>2. QED
    BY <2>1 DEF WalkInv, Underway, AllWalked, Entry, Described, Interface
<1>10. QED
  BY <1>1, <1>2, <1>3, <1>4, <1>5, <1>6, <1>7, <1>8, <1>9 DEF ApiNext, Setup, Walk

\* So do the page and the route it loads.
LEMMA PageNext == WalkInv /\ PageInv /\ [ApiNext]_apiVars => PageInv'
<1> SUFFICES ASSUME WalkInv, PageInv, [ApiNext]_apiVars PROVE PageInv'
  OBVIOUS
<1> USE DEF WalkInv, PageInv, Interface, Described, Routes, Apps, config, client
<1>1. CASE CreateBootServer \/ CreateAdminServer \/ LoadHttpEnds
  BY <1>1 DEF CreateBootServer, CreateAdminServer, LoadHttpEnds
<1>2. CASE (\E n \in todo : Visit(n)) \/ WalkHttp
  BY <1>2 DEF Visit, WalkHttp
<1>3. CASE AddSpecRoute
  BY <1>3 DEF AddSpecRoute
<1>4. CASE OpenHttpServer \/ Refused
  BY <1>4 DEF OpenHttpServer, Refused
<1>5. CASE OpenPage \/ Onload
  BY <1>5 DEF OpenPage, Onload
<1>6. CASE UNCHANGED apiVars
  BY <1>6 DEF apiVars
<1>7. QED
  BY <1>1, <1>2, <1>3, <1>4, <1>5, <1>6 DEF ApiNext, Setup, Walk

\* The main server never listens before the description has every route of both apps, whatever
\* the routes are, and a page of it that has run its script shows that description (setupDoers,
\* AgentSpecResource.addRoutes, swagger-initializer.js).
THEOREM DescribesAll == ApiSpec => []DescriptionComplete
<1>1. WalkInv /\ PageInv => DescriptionComplete
  BY DEF WalkInv, PageInv, DescriptionComplete
<1>2. WalkInv /\ PageInv /\ [ApiNext]_apiVars => (WalkInv /\ PageInv)'
  BY RoutesAssumption, DescriptionNext, PageNext
<1>3. QED
  BY <1>1, <1>2, DescriptionInit, PTL DEF ApiSpec

=============================================================================
