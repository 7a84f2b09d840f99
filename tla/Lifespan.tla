------------------------------- MODULE Lifespan -------------------------------
(***************************************************************************)
(* Start and stop of archolith_proxy (main.py, lifespan) with the plugins   *)
(* it activates (plugins/registry.py and the three built-in plugins) and    *)
(* the health it then reports.                                              *)
(*                                                                         *)
(* The lifespan is one coroutine; a phase is what it does up to an await    *)
(* whose outcome matters. Everything optional may fail without stopping the *)
(* start; a failed check, or a graph that is required, ends it.             *)
(***************************************************************************)
EXTENDS Integers, FiniteSets

CONSTANTS Environments,  \* what the process may be started with, see Refused
          Plugins,       \* ids of the registered plugins
          MaxAttempts    \* neo4j_max_retries

ASSUME LifeBounds == MaxAttempts \in Nat \ {0}

\* "lost" are connections to a graph of which the attempt then failed: nobody
\* holds them, as nobody holds a "stranded" sidecar.
Resources == {"http", "extractor", "semantic", "backend", "sidecar", "callback",
              "cleanup", "workers", "adapters", "stranded", "lost"}

VARIABLES phase,     \* where the lifespan is
          env,       \* the environment and settings of this process
          open,      \* resources that were opened and not closed
          broken,    \* history: those whose own close raised
          late,      \* history: those a task opened behind the shutdown
          status,    \* plugin -> _statuses
          calling,   \* plugin that is being awaited, or {}
          feed,      \* is the lazy feed of the audit plugin enabled?
          attempts,  \* failed attempts to reach Neo4j
          degraded   \* graph_degraded_reason is set

closeVars == <<broken, late>>
lifeVars == <<phase, env, open, closeVars, status, calling, feed, attempts, degraded>>

LifeInit ==
  /\ phase = "off"
  /\ env = [backend |-> "none"]
  /\ open = {}
  /\ broken = {} /\ late = {}
  /\ status = [p \in Plugins |-> "inactive"]
  /\ calling = {}
  /\ feed = FALSE
  /\ attempts = 0
  /\ degraded = FALSE

\* From the first request on, requests and their extraction tasks may run.
Served == {"serving", "stopping", "hung", "deactivate", "semantic", "adapters", "http",
           "extractor", "backend", "stopped", "raised"}

GoTo(next) == phase' = next
Pluginless == UNCHANGED <<status, calling, feed>>

(* -------------------------------- startup ------------------------------- *)

\* Filtering without its package is fatal, whoever asked for it, see Config.
FilterMissing(e) == e.filter /\ ~e.filterInstalled

Refused(e) ==
  \/ e.curator /\ e.unrestrictedFs /\ ~e.riskAccepted
  \/ e.staleFilterVariable
  \/ FilterMissing(e)

Start(e) ==
  /\ phase = "off"
  /\ env' = e
  /\ IF Refused(e) THEN GoTo("failed") /\ UNCHANGED open
     ELSE GoTo("graph") /\ open' = {"http", "extractor"}
  /\ Pluginless /\ UNCHANGED <<closeVars, attempts, degraded>>

GraphConnects ==
  /\ phase = "graph" /\ env.backend # "none"
  /\ open' = open \cup {"backend"}
  /\ GoTo("require")
  /\ Pluginless /\ UNCHANGED <<env, closeVars, attempts, degraded>>

\* The attempt that fails is followed by another after a pause, for Neo4j; the
\* embedded database is tried once and leaves a reason. The driver, or the
\* database, may be open by then, and is left so.
GraphFails ==
  /\ phase = "graph" /\ env.backend # "none"
  /\ open' \in {open, open \cup {"lost"}}
  /\ attempts' = attempts + 1
  /\ degraded' = (env.backend = "ladybug")
  /\ IF env.backend = "neo4j" /\ attempts' < MaxAttempts THEN UNCHANGED phase
     ELSE GoTo("require")
  /\ Pluginless /\ UNCHANGED <<env, closeVars>>

NoGraph ==
  /\ phase = "graph" /\ env.backend = "none"
  /\ GoTo("require")
  /\ Pluginless /\ UNCHANGED <<env, open, closeVars, attempts, degraded>>

GraphReady == "backend" \in open
GraphConfigured == env.backend # "none"

\* Mutant of Unready: the reasons of a failure are all the reasons there are.
UnreadyWithReason == degraded

\* A configured graph that did not come up, for whatever reason.
Unready == GraphConfigured /\ ~GraphReady

\* The broadcaster, the traces, the registry of engines and the promotion
\* service follow without a way to fail; the sidecar of the curator may.
RequireGraph ==
  /\ phase = "require"
  /\ degraded' = (degraded \/ Unready)
  /\ IF Unready /\ env.requireGraph THEN GoTo("failed") ELSE GoTo("sidecar")
  /\ Pluginless /\ UNCHANGED <<env, open, closeVars, attempts>>

\* A sidecar that opened and then could not load its state is left "stranded":
\* it runs on, without a callback that feeds it, and nobody remembers it.
StartSidecar ==
  /\ phase = "sidecar"
  /\ \E opened \in (IF env.persist THEN {{"sidecar", "callback"}, {"stranded"}, {}} ELSE {{}}) :
       open' = open \cup opened
  /\ GoTo("plugins")
  /\ Pluginless /\ UNCHANGED <<env, closeVars, attempts, degraded>>

(* -------------------------------- plugins ------------------------------- *)

Todo == {p \in Plugins : status[p] = "inactive"}
Enabled(p) == p \notin env.disabled /\ (env.enabled = {} \/ p \in env.enabled)
Compatible(p) == p \notin env.outdated

\* What activate finds: the filter and the audit plugin need their package,
\* the memory plugin is ready also without engines.
Ready(p) == p = "memory" \/ p \in env.installed

\* A plugin that is disabled stays inactive, one below the minimum version is
\* an error; the others are awaited one by one.
ActivatePlugin(p) ==
  /\ phase = "plugins" /\ calling = {} /\ p \in Todo /\ Enabled(p)
  /\ IF Compatible(p) THEN calling' = {p} /\ UNCHANGED status
     ELSE status' = [status EXCEPT ![p] = "error"] /\ UNCHANGED calling
  /\ UNCHANGED <<phase, env, open, closeVars, feed, attempts, degraded>>

\* Mutant of TimesOut: nobody limits the time a plugin takes.
NeverTimesOut(p) == FALSE

TimesOut(p) == p \in calling

PluginAnswers(p, answer) ==
  /\ phase = "plugins" /\ calling = {p} /\ p \notin env.hanging
  /\ answer \in {IF Ready(p) THEN "active" ELSE "degraded", "error"}
  /\ status' = [status EXCEPT ![p] = answer]
  /\ calling' = {}
  /\ UNCHANGED <<phase, env, open, closeVars, feed, attempts, degraded>>

\* wait_for gives a plugin ten seconds to activate.
PluginTimesOut(p) ==
  /\ phase = "plugins" /\ TimesOut(p)
  /\ status' = [status EXCEPT ![p] = "error"]
  /\ calling' = {}
  /\ UNCHANGED <<phase, env, open, closeVars, feed, attempts, degraded>>

\* The feed of the audit plugin needs the filter's telemetry too.
StartServing ==
  /\ phase = "plugins" /\ calling = {} /\ \A p \in Todo : ~Enabled(p)
  /\ feed' = ("audit" \in Plugins /\ status["audit"] = "active"
              /\ {"filter", "audit"} \subseteq env.installed)
  /\ open' = open \cup {"cleanup"}
  /\ GoTo("serving")
  /\ UNCHANGED <<env, closeVars, status, calling, attempts, degraded>>

\* Requests start workers, make adapters and open the embedding client; so do
\* their extraction tasks, which the shutdown neither ends nor awaits.
Use(r) ==
  /\ phase \in Served /\ r \in {"workers", "adapters", "semantic"} \ open
  /\ open' = open \cup {r}
  /\ late' = IF phase = "serving" THEN late ELSE late \cup {r}
  /\ UNCHANGED <<phase, env, broken, status, calling, feed, attempts, degraded>>

(* -------------------------------- shutdown ------------------------------ *)

Stop ==
  /\ phase = "serving"
  /\ GoTo("stopping")
  /\ UNCHANGED <<env, open, closeVars, status, calling, feed, attempts, degraded>>

\* The cleanup loop, the workers, then the sidecar behind its callback, whose
\* connection is forgotten when its close raises.
StopTasks(failing) ==
  /\ phase = "stopping" /\ failing \subseteq open \cap {"sidecar"}
  /\ open' = open \ ({"cleanup", "workers", "callback", "sidecar"} \ failing)
  /\ broken' = broken \cup failing
  /\ late' = late \ {"workers"}
  /\ GoTo("deactivate")
  /\ Pluginless /\ UNCHANGED <<env, attempts, degraded>>

\* The await of a worker that is inside a pass never returns, see CuratorWorkers.
WorkersHang ==
  /\ phase = "stopping" /\ "workers" \in open
  /\ open' = open \ {"cleanup"}
  /\ GoTo("hung")
  /\ Pluginless /\ UNCHANGED <<env, closeVars, attempts, degraded>>

Active == {p \in Plugins : status[p] = "active"}

\* Only active plugins are deactivated; one that raises or takes more than five
\* seconds keeps its status and is left behind.
DeactivatePlugins ==
  /\ phase = "deactivate"
  /\ \E failing \in SUBSET Active :
       /\ status' = [p \in Plugins |-> IF p \in Active \ failing THEN "inactive" ELSE status[p]]
       /\ feed' = (feed /\ "audit" \in failing)
  /\ GoTo("semantic")
  /\ UNCHANGED <<env, open, closeVars, calling, attempts, degraded>>

\* The embedding client, the adapters, the two HTTP clients and the database
\* are closed in this order, in a phase each.
After == [semantic |-> "adapters", adapters |-> "http", http |-> "extractor",
          extractor |-> "backend", backend |-> "stopped"]

\* What is closed later than r.
Behind == [semantic |-> {"adapters", "http", "extractor", "backend"},
           adapters |-> {"http", "extractor", "backend"},
           http |-> {"extractor", "backend"}, extractor |-> {"backend"}, backend |-> {}]

\* Those whose close may raise without ending the shutdown.
Guarded == {"adapters", "backend"}

Close(r, ok) ==
  /\ phase = r /\ (~ok => r \in open)
  /\ IF ok THEN open' = open \ {r} /\ late' = late \ {r} /\ UNCHANGED broken
     ELSE broken' = broken \cup {r} /\ UNCHANGED <<open, late>>
  /\ GoTo(IF ok \/ r \in Guarded THEN After[r] ELSE "raised")
  /\ Pluginless /\ UNCHANGED <<env, attempts, degraded>>

LifeStep ==
  \/ GraphConnects \/ GraphFails \/ NoGraph \/ RequireGraph \/ StartSidecar
  \/ \E p \in Plugins : \/ ActivatePlugin(p) \/ PluginTimesOut(p)
                        \/ \E answer \in {"active", "degraded", "error"} : PluginAnswers(p, answer)
  \/ StartServing \/ WorkersHang \/ DeactivatePlugins
  \/ \E failing \in SUBSET {"sidecar"} : StopTasks(failing)
  \/ \E r \in DOMAIN After, ok \in BOOLEAN : Close(r, ok)

LifeNext ==
  \/ \E e \in Environments : Start(e)
  \/ LifeStep \/ Stop
  \/ \E r \in Resources : Use(r)

LifeSpec == LifeInit /\ [][LifeNext]_lifeVars

(* --------------------------------- health ------------------------------- *)

\* /health, where connected is what the database answers; /ready does not ask
\* for the reason, so it calls a proxy without its graph ready.
Health(connected) ==
  [status |-> IF degraded THEN "degraded" ELSE "ok",
   graph |-> IF GraphReady THEN IF connected THEN "connected" ELSE "disconnected"
             ELSE IF degraded THEN "degraded" ELSE "not_configured"]
ReadyProbe(connected) == GraphReady => connected

(* ------------------------------- properties ----------------------------- *)

\* What the end of the shutdown may leave open: connections whose attempt had
\* failed, a stranded sidecar, what tasks opened behind it, and what did not let
\* itself be closed.
Excused == {"lost", "stranded"} \cup late \cup broken

\* main.py, health: a serving proxy whose graph was configured and did not come
\* up says "degraded", one without a graph "not_configured", and never a word
\* of a graph that it has not. A shutdown closes all that start and requests had
\* opened, whatever failed on the way, but what is excused; when it ends by an
\* error, that is of one of three clients, and only what was to be closed behind
\* that one is left too. A start that fails leaves no more than its two clients
\* and lost connections.
HealthAndClosureHonest ==
  /\ phase = "serving" => \A connected \in BOOLEAN :
       /\ (Health(connected).status = "degraded") = (env.backend # "none" /\ "backend" \notin open)
       /\ Health(connected).graph = "not_configured" <=> env.backend = "none"
       /\ ~ReadyProbe(connected) => ~connected /\ Health(connected).graph = "disconnected"
  /\ phase = "stopped" => open \subseteq Excused
  /\ phase = "raised" => \E r \in broken \cap {"semantic", "http", "extractor"} :
                           open \subseteq Excused \cup Behind[r]
  /\ phase = "failed" => open \subseteq {"http", "extractor", "lost"}
  /\ "lost" \in open => attempts > 0
  /\ "stranded" \in open => env.persist

\* plugins/registry.py: "the proxy never fails to start because a plugin
\* misbehaves": a start that passed the checks ends in service, or without its
\* required graph, and a stop ends, by an error at worst, unless a worker never
\* unwinds.
LifecycleEnds ==
  /\ phase = "graph" ~> phase = "serving" \/ (phase = "failed" /\ env.requireGraph)
  /\ phase = "stopping" ~> \/ phase \in {"stopped", "raised"}
                           \/ phase = "hung" /\ "workers" \in open
===============================================================================
