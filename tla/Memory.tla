-------------------------------- MODULE Memory --------------------------------
(***************************************************************************)
(* Long-term memory of archolith_proxy: the engines configured at start     *)
(* (memory/registry.py), the adapters that reach them (memory/adapters/),   *)
(* and the promotion of extracted facts into the default engine             *)
(* (memory/promotion.py, called by openai/extraction.py).                   *)
(*                                                                         *)
(* Extractions of several sessions promote at the same time; an adapter is  *)
(* awaited once per fact.                                                   *)
(***************************************************************************)
EXTENDS Integers, Sequences, FiniteSets, SequencesExt, FiniteSetsExt, Lists

CONSTANTS EngineConfigs,  \* entries that MEMORY_ENGINES_JSON may list
          MaxEngines,     \* bound: entries of the list
          Promoters,      \* extraction tasks that promote
          FactLists,      \* lists of facts an extraction may end with
          MinConfidence,  \* promotion_min_confidence, in tenths
          PromotableTypes,\* promotable_types
          DryRun,         \* promotion_dry_run
          Replies,        \* what an engine may answer, see Reply
          MaxTrail,       \* length of the in-memory audit trail
          NoEngine

ASSUME MemoryAssumption ==
  /\ MaxEngines \in Nat /\ MaxTrail \in Nat \ {0}
  /\ \A c \in EngineConfigs : /\ c.enabled \in BOOLEAN /\ c.priority \in Int
                              /\ c # NoEngine /\ c.id # NoEngine
  /\ \A facts \in FactLists : facts \in Seq(ToSet(facts))

VARIABLES engines,    \* _engines: id -> its config, or NoEngine
          adapters,   \* _adapters: ids whose adapter was made
          default,    \* _default_engine_id
          listed,     \* entries registered so far; "ready" ends the list
          task,       \* the promoting tasks
          remote,     \* what the engines hold: <<engine id, fact>>
          trail,      \* _audit, the last MaxTrail results
          stats,      \* _stats
          twice       \* history: ids that were registered twice

memoryVars == <<engines, adapters, default, listed, task, remote, trail, stats, twice>>

(* ------------------------------- adapters ------------------------------- *)

\* An adapter, as its promotions show it: ok are the status codes that it takes
\* for a success, body the bodies it can then read an id from: a JSON "object",
\* other JSON ("list"), or "text".
Adapter(codes, body) == [ok |-> codes, body |-> body]
ArcholithMemory == Adapter({"200", "201"}, {"object"})
Mem0 == Adapter({"200", "201"}, {"object"})
Zep == Adapter({"200", "201"}, {"object"})
ClaudeMem == Adapter({"200", "201"}, {"object"})
OpenMemory == Adapter({"200", "201"}, {"object"})
NocturneMemory == Adapter({"200", "201"}, {"object"})
Cognee == Adapter({"200", "201", "202"}, {"object", "text"})
GenericHttp == Adapter({"200", "201", "202"}, {"object", "text"})
\* The markdown file of a vault: written, or an OSError, before or after a part
\* of the text reached the disk.
BasicMemory == Adapter({"written"}, {"none"})

AdapterTypes ==
  [archolith_memory |-> ArcholithMemory, mem0 |-> Mem0, zep |-> Zep,
   claude_mem |-> ClaudeMem, openmemory |-> OpenMemory,
   nocturne_memory |-> NocturneMemory, cognee |-> Cognee,
   generic_http |-> GenericHttp, basic_memory |-> BasicMemory]

\* Mutant of Outcome: a body that no id can be read from does not matter, nor
\* does the status of a reply with one.
OutcomeOfBody(a, reply) == IF reply.body \in a.body THEN "success" ELSE "failed"

\* No exception leaves an adapter: what raises is a failure, also when the
\* engine has stored the fact.
Outcome(a, reply) ==
  IF reply.status \in a.ok /\ reply.body \in a.body THEN "success" ELSE "failed"

\* Does the engine hold the fact after this reply? A lost one leaves it open.
Stores(reply) == reply.status \in {"200", "201", "202", "written", "lost", "cut"}

(* ------------------------------- registry ------------------------------- *)

MemoryInit ==
  /\ engines = [id \in {c.id : c \in EngineConfigs} |-> NoEngine]
  /\ adapters = {}
  /\ default = NoEngine
  /\ listed = 0
  /\ task = [p \in Promoters |-> [pc |-> "idle", todo |-> <<>>, engine |-> NoEngine, results |-> <<>>]]
  /\ remote = {}
  /\ trail = <<>>
  /\ stats = [attempted |-> 0, success |-> 0, failed |-> 0, skipped |-> 0]
  /\ twice = {}

\* The default moves to an enabled engine of a higher priority than its own,
\* which is looked up after the new entry was stored.
Better(c) ==
  /\ c.enabled
  /\ default # NoEngine =>
       c.priority > (IF default = c.id THEN c.priority ELSE engines[default].priority)

\* An entry that is no valid config is skipped, one with a known id replaces it.
Register(c) ==
  /\ listed \in 0..(MaxEngines - 1)
  /\ listed' = listed + 1
  /\ engines' = [engines EXCEPT ![c.id] = c]
  /\ default' = IF Better(c) THEN c.id ELSE default
  /\ twice' = IF engines[c.id] = NoEngine THEN twice ELSE twice \cup {c.id}
  /\ UNCHANGED <<adapters, task, remote, trail, stats>>

RegisterDone ==
  /\ listed \in Nat
  /\ listed' = -1
  /\ UNCHANGED <<engines, adapters, default, task, remote, trail, stats, twice>>

\* get_adapter: the adapter of an enabled engine of a known type is made on
\* first use; its module may fail to import, which yields no adapter.
Available(id) ==
  id # NoEngine /\ engines[id] # NoEngine /\ engines[id].enabled
  /\ engines[id].type \in DOMAIN AdapterTypes
AdapterOf(id) == AdapterTypes[engines[id].type]

\* The admin page asks every enabled engine for its health, which makes its
\* adapter and changes nothing else.
HealthcheckAll ==
  /\ listed = -1
  /\ adapters' = adapters \cup {id \in DOMAIN engines : Available(id)}
  /\ UNCHANGED <<engines, default, listed, task, remote, trail, stats, twice>>

(* ------------------------------- promotion ------------------------------ *)

ShouldPromote(f) == f.type \in PromotableTypes /\ f.confidence >= MinConfidence

Result(f, engine, outcome) == [fact |-> f, engine |-> engine, outcome |-> outcome]

Counted(results, o) ==
  Cardinality({i \in DOMAIN results : o \in {"attempted", results[i].outcome}})

\* _record of each result: the audit trail, which forgets its oldest, and the
\* counts; the copy of it on disk is best effort.
RecordAll(results) ==
  /\ trail' = LET all == trail \o results
              IN  SubSeq(all, IF Len(all) > MaxTrail THEN Len(all) - MaxTrail + 1 ELSE 1, Len(all))
  /\ stats' = [o \in DOMAIN stats |-> stats[o] + Counted(results, o)]

\* The eligible facts are sent to the default engine, or all skipped when there
\* is none or for a dry run.
PromoteBatch(p, facts) ==
  /\ listed = -1 /\ task[p].pc = "idle"
  /\ LET eligible == Only(facts, {f \in ToSet(facts) : ShouldPromote(f)})
         reached == Available(default)
         target == IF reached THEN default ELSE NoEngine
     IN  IF eligible = <<>>
         THEN /\ task' = [task EXCEPT ![p].pc = "done"]
              /\ UNCHANGED <<adapters, trail, stats>>
         ELSE /\ adapters' = IF reached THEN adapters \cup {default} ELSE adapters
              /\ IF reached /\ ~DryRun
                 THEN /\ task' = [task EXCEPT ![p] = [pc |-> "send", todo |-> eligible,
                                                      engine |-> default, results |-> <<>>]]
                      /\ UNCHANGED <<trail, stats>>
                 ELSE /\ task' = [task EXCEPT ![p].pc = "done"]
                      /\ RecordAll([i \in DOMAIN eligible |->
                                      Result(eligible[i], target, "skipped")])
  /\ UNCHANGED <<engines, default, listed, remote, twice>>

\* One await of the adapter's promote_fact.
PromoteFact(p, reply) ==
  /\ task[p].pc = "send" /\ task[p].todo # <<>>
  /\ LET f == Head(task[p].todo)
         id == task[p].engine
     IN  /\ (reply.status \in {"written", "cut", "oserror"}) = (AdapterOf(id) = BasicMemory)
         /\ remote' = IF Stores(reply) THEN remote \cup {<<id, f>>} ELSE remote
         /\ task' = [task EXCEPT ![p].todo = Tail(@),
                       ![p].results = Append(@, Result(f, id, Outcome(AdapterOf(id), reply)))]
  /\ UNCHANGED <<engines, adapters, default, listed, trail, stats, twice>>

\* Results are recorded once the whole batch has returned.
BatchReturns(p) ==
  /\ task[p].pc = "send" /\ task[p].todo = <<>>
  /\ RecordAll(task[p].results)
  /\ task' = [task EXCEPT ![p].pc = "done"]
  /\ UNCHANGED <<engines, adapters, default, listed, remote, twice>>

\* The task is cancelled at a shutdown: what was sent is not recorded.
PromotionCancelled(p) ==
  /\ task[p].pc = "send"
  /\ task' = [task EXCEPT ![p].pc = "cancelled"]
  /\ UNCHANGED <<engines, adapters, default, listed, remote, trail, stats, twice>>

MemoryNext ==
  \/ \E c \in EngineConfigs : Register(c)
  \/ RegisterDone \/ HealthcheckAll
  \/ \E p \in Promoters : \/ \E facts \in FactLists : PromoteBatch(p, facts)
                          \/ \E reply \in Replies : PromoteFact(p, reply)
                          \/ BatchReturns(p) \/ PromotionCancelled(p)

MemorySpec == MemoryInit /\ [][MemoryNext]_memoryVars

(* ------------------------------- properties ----------------------------- *)

\* memory/promotion.py: a result that claims success is backed by the engine;
\* only facts of the promotable types and of enough confidence ever leave, to an
\* engine that is enabled and, if no id was listed twice, of the highest priority
\* among the enabled ones; and each result is counted once.
PromotionHonest ==
  /\ \A i \in DOMAIN trail : trail[i].outcome = "success" => <<trail[i].engine, trail[i].fact>> \in remote
  /\ \A e \in remote : /\ e[2].type \in PromotableTypes /\ e[2].confidence >= MinConfidence
                       /\ engines[e[1]].enabled
  /\ twice = {} => \A id \in DOMAIN engines : engines[id] # NoEngine /\ engines[id].enabled =>
       default # NoEngine /\ engines[default].priority >= engines[id].priority
  /\ stats.attempted = stats.success + stats.failed + stats.skipped
  /\ Len(trail) = IF stats.attempted > MaxTrail THEN MaxTrail ELSE stats.attempted
===============================================================================
