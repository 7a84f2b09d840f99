------------------------------ MODULE MCServices ------------------------------
(* The services around the request path, which share no state: a behaviour  *)
(* runs one of them, and leaves the others at rest.                          *)
EXTENDS TraceStore, LiveStream, Memory, Lifespan, Config, TLC

CONSTANTS s1, s2, s3, c1, c2, c3, e1, e2, p1, p2

VARIABLE part  \* the service that runs

TraceRuns == part = "trace" /\ UNCHANGED <<part, liveVars, memoryVars, lifeVars, configVars>>
LiveRuns == part = "live" /\ UNCHANGED <<part, traceVars, memoryVars, lifeVars, configVars>>
MemoryRuns == part = "memory" /\ UNCHANGED <<part, traceVars, liveVars, lifeVars, configVars>>
LifeRuns == part = "life" /\ UNCHANGED <<part, traceVars, liveVars, memoryVars, configVars>>
ConfigRuns == part = "config" /\ UNCHANGED <<part, traceVars, liveVars, memoryVars, lifeVars>>

Init ==
  /\ part \in {"trace", "live", "memory", "life", "config"}
  /\ TraceInit /\ LiveInit /\ MemoryInit /\ LifeInit /\ ConfigInit

Next ==
  \/ TraceRuns /\ TraceNext
  \/ LiveRuns /\ LiveNext
  \/ MemoryRuns /\ MemoryNext
  \/ LifeRuns /\ LifeNext
  \/ ConfigRuns /\ ConfigNext

vars == <<part, traceVars, liveVars, memoryVars, lifeVars, configVars>>

\* The lifespan goes on while it has something to do: every await of it has a
\* limit of time, or is the one of WorkersHang.
Fairness == WF_vars(LifeRuns /\ LifeStep)

Spec == Init /\ [][Next]_vars /\ Fairness

(* -------------------------------- inputs -------------------------------- *)

\* Two of the session names differ in a character that file names cannot have.
MCFileOf == (s1 :> "f1") @@ (s2 :> "f2") @@ (s3 :> "f2")

Credentials(loopback, query, header, bearer) ==
  [loopback |-> loopback, query |-> query, header |-> header, bearer |-> bearer]
MCShows == (c1 :> Credentials(FALSE, "right", "none", "none"))
        @@ (c2 :> Credentials(TRUE, "wrong", "none", "right"))
        @@ (c3 :> Credentials(TRUE, "none", "wrong", "none"))

Engine(id, type, enabled, priority) ==
  [id |-> id, type |-> type, enabled |-> enabled, priority |-> priority]
MCEngineConfigs ==
  {Engine(e1, "generic_http", TRUE, 1), Engine(e1, "basic_memory", TRUE, 1),
   Engine(e2, "mem0", TRUE, 2), Engine(e2, "unknown", TRUE, 2), Engine(e2, "zep", FALSE, 2)}
Fact(type, confidence) == [type |-> type, confidence |-> confidence]
MCFactLists == {<<Fact("decision", 9), Fact("command", 9)>>,
                <<Fact("state", 9), Fact("state", 5), Fact("decision", 10)>>}
Reply(code, body) == [status |-> code, body |-> body]
MCReplies ==
  {Reply("200", "object"), Reply("202", "text"), Reply("200", "list"), Reply("503", "object"),
   Reply("lost", "none"), Reply("written", "none"), Reply("cut", "none"), Reply("oserror", "none")}

Plain == [backend |-> "none", requireGraph |-> FALSE, filter |-> FALSE, filterInstalled |-> TRUE,
          curator |-> TRUE, unrestrictedFs |-> FALSE, riskAccepted |-> FALSE,
          staleFilterVariable |-> FALSE, persist |-> TRUE, disabled |-> {}, enabled |-> {},
          outdated |-> {}, installed |-> {"filter", "audit"}, hanging |-> {}]
MCEnvironments ==
  {Plain,
   [Plain EXCEPT !.backend = "ladybug", !.hanging = {"audit"}],
   [Plain EXCEPT !.backend = "neo4j", !.disabled = {"memory"}, !.persist = FALSE],
   [Plain EXCEPT !.backend = "neo4j", !.requireGraph = TRUE, !.enabled = {"memory", "filter"},
                 !.outdated = {"filter"}],
   [Plain EXCEPT !.backend = "ladybug", !.requireGraph = TRUE, !.filterInstalled = FALSE,
                 !.installed = {"audit"}],
   [Plain EXCEPT !.filter = TRUE, !.filterInstalled = FALSE],
   [Plain EXCEPT !.unrestrictedFs = TRUE],
   [Plain EXCEPT !.staleFilterVariable = TRUE]}

JsonText(v) == Value("text", v)
MCProfiles == [mechanical |-> [filter_enabled |-> Flag("true"),
                               agent_solo_min_input_tokens |-> Number("3000")]]
MCConfigBodies ==
  {<<<<"compaction_enabled", JsonText("true")>>, <<"agent_solo_min_input_tokens", Junk>>>>,
   <<<<"agent_solo_min_input_tokens", Number("5")>>, <<"filter_enabled", JsonText("false")>>>>,
   <<<<"compaction_enabled", Flag("false")>>, <<"synthetic_tools_enabled", Flag("true")>>,
     <<"filter_enabled", Flag("true")>>>>,
   <<<<"admin_token", JsonText("x")>>>>}
MCOverlays == {[compaction_enabled |-> JsonText("false"), filter_enabled |-> Flag("false")]}
===============================================================================
