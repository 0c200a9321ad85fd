--------------------------- MODULE ApiDescription ---------------------------
(***************************************************************************)
(* The set-up of the three HTTP servers (setupDoers), the description of   *)
(* the interface that is made on the way by walking the routes of two of   *)
(* them (AgentSpecResource), and the page that shows it (/swaggerui).      *)
(*                                                                         *)
(* A route is the sequence of its segments.  The router of an app is the   *)
(* tree of the prefixes of its routes; a prefix that is no route itself,   *)
(* as /multisig of /multisig/request/{said}, is a node without resource.   *)
(***************************************************************************)
EXTENDS SequencesExt

CONSTANTS
  AdminRoutes, \* what the loadEnds of the admin app add
  HttpRoutes,  \* what those of the main HTTP app add
  SpecRoute,   \* /spec.yaml
  Handled,     \* for each route, the methods its resource has a responder for
  Valid        \* the methods OpenAPI knows

Routes == AdminRoutes \cup HttpRoutes

\* Falcon takes a route apart at its slashes: at least one segment.
Segmented == Routes \subseteq Seq(STRING) /\ <<>> \notin Routes

ASSUME RoutesAssumption  == Segmented /\ SpecRoute \notin HttpRoutes
ASSUME HandledAssumption == DOMAIN Handled = Routes

VARIABLES
  httpPort,   \* config.httpPort: whether there is a main HTTP server
  phase,      \* where setupDoers is: the server to create, the app to walk, ready or failed
  routes,     \* of each app, the routes added to it
  todo,       \* the nodes addRoutes has to visit, without their order
  paths,      \* the description: routes with the methods described
  servers,    \* the servers that listen
  page, shown \* the page in a client's browser (none, loaded, shown or error), and what it shows

config  == <<httpPort, routes, servers>>
client  == <<page, shown>>
apiVars == <<config, phase, todo, paths, client>>

Apps == {"admin", "http"}

\* The nodes of an app's router.
Nodes(app)       == UNION {{SubSeq(r, 1, n) : n \in 1..Len(r)} : r \in routes[app]}
Top(app)         == {n \in Nodes(app) : Len(n) = 1}
Children(app, n) == {m \in Nodes(app) : Len(m) > 1 /\ Front(m) = n}

ApiInit ==
  /\ httpPort \in BOOLEAN
  /\ phase = "boot"
  /\ routes = [app \in Apps |-> {}]
  /\ todo = {} /\ paths = {}
  /\ servers = {}
  /\ page = "none" /\ shown = {}

(***************************************************************************)
(* setupDoers.                                                             *)
(***************************************************************************)

CreateBootServer ==
  /\ phase = "boot"
  /\ servers' = servers \cup {"boot"}
  /\ phase' = "admin"
  /\ UNCHANGED <<httpPort, routes, todo, paths, client>>

CreateAdminServer ==
  /\ phase = "admin"
  /\ routes' = [routes EXCEPT !["admin"] = AdminRoutes]
  /\ servers' = servers \cup {"admin"}
  /\ phase' = IF httpPort THEN "http" ELSE "ready"
  /\ UNCHANGED <<httpPort, todo, paths, client>>

\* The main app's routes, and AgentSpecResource of the admin app, which walks it.
LoadHttpEnds ==
  /\ phase = "http"
  /\ routes' = [routes EXCEPT !["http"] = HttpRoutes]
  /\ todo' = Top("admin")
  /\ phase' = "walk admin"
  /\ UNCHANGED <<httpPort, servers, paths, client>>

Walked == IF phase = "walk admin" THEN "admin" ELSE "http"

\* The methods described for a route: those falcon does not answer by itself and OpenAPI knows.
Described(r) == Handled[r] \cap Valid

\* Mutant of Visit: a node without resource is passed over, and what is below it.
VisitOfResource(n) ==
  /\ phase \in {"walk admin", "walk http"}
  /\ n \in todo
  /\ paths' = IF n \in routes[Walked] THEN paths \cup {<<n, Described(n)>>} ELSE paths
  /\ todo' = (todo \ {n}) \cup IF n \in routes[Walked] THEN Children(Walked, n) ELSE {}
  /\ UNCHANGED <<config, phase, client>>

\* One node of addRoutes: its path is described if it has a resource, its children come after.
Visit(n) ==
  /\ phase \in {"walk admin", "walk http"}
  /\ n \in todo
  /\ paths' = IF n \in routes[Walked] THEN paths \cup {<<n, Described(n)>>} ELSE paths
  /\ todo' = (todo \ {n}) \cup Children(Walked, n)
  /\ UNCHANGED <<config, phase, client>>

\* specEnd.addRoutes(happ).
WalkHttp ==
  /\ phase = "walk admin" /\ todo = {}
  /\ todo' = Top("http")
  /\ phase' = "walk http"
  /\ UNCHANGED <<config, paths, client>>

\* Mutant of AddSpecRoute: the description is not served.
AddNoRoute ==
  /\ phase = "walk http" /\ todo = {}
  /\ phase' = "open"
  /\ UNCHANGED <<config, todo, paths, client>>

AddSpecRoute ==
  /\ phase = "walk http" /\ todo = {}
  /\ routes' = [routes EXCEPT !["http"] = @ \cup {SpecRoute}]
  /\ phase' = "open"
  /\ UNCHANGED <<httpPort, servers, todo, paths, client>>

OpenHttpServer ==
  /\ phase = "open"
  /\ servers' = servers \cup {"http"}
  /\ phase' = "ready"
  /\ UNCHANGED <<httpPort, routes, todo, paths, client>>

\* A server that cannot listen: RuntimeError, and no doer is returned.
Refused ==
  /\ phase \in {"boot", "admin", "open"}
  /\ phase' = "failed"
  /\ UNCHANGED <<config, todo, paths, client>>

(***************************************************************************)
(* The page.                                                               *)
(***************************************************************************)

\* The files of /swaggerui, from the StaticSink of the main app.
OpenPage ==
  /\ phase = "ready" /\ "http" \in servers
  /\ page' = "loaded" /\ shown' = {}
  /\ UNCHANGED <<config, phase, todo, paths>>

\* window.onload: the page fetches /spec.yaml of its own server (AgentSpecResource.on_get).
Onload ==
  /\ page = "loaded"
  /\ IF SpecRoute \in routes["http"] THEN page' = "shown" /\ shown' = paths
                                     ELSE page' = "error" /\ shown' = shown
  /\ UNCHANGED <<config, phase, todo, paths>>

(***************************************************************************)
(* Specification.                                                          *)
(***************************************************************************)

Walk    == (\E n \in todo : Visit(n)) \/ WalkHttp \/ AddSpecRoute
Setup   == CreateBootServer \/ CreateAdminServer \/ LoadHttpEnds \/ Walk \/ OpenHttpServer
ApiNext == Setup \/ Refused \/ OpenPage \/ Onload

ApiSpec == ApiInit /\ [][ApiNext]_apiVars

\* setupDoers runs to its end, and a loaded page runs its script.
FairApiSpec == ApiSpec /\ WF_apiVars(Setup) /\ WF_apiVars(Onload)

(***************************************************************************)
(* Properties.                                                             *)
(***************************************************************************)

\* What every endpoint of both apps answers, and nothing else.
Interface == {<<r, Described(r)>> : r \in Routes}

\* Once the main server listens the description has every route of both apps, those below a node
\* without resource too, with the methods their resources handle ("Contains all the endpoint
\* descriptions for the KERI admin interface"); no page finds it missing, or shows less of it.
DescriptionComplete ==
  /\ "http" \in servers => paths = Interface
  /\ page # "error"
  /\ page = "shown" => shown = Interface

\* The set-up ends, whatever the trees are, and a page that was loaded shows the description of
\* the whole interface.
PageShows ==
  /\ phase = "boot" ~> phase \in {"ready", "failed"}
  /\ page = "loaded" ~> (page = "shown" /\ shown = Interface)

=============================================================================
