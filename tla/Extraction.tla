----------------------------- MODULE Extraction -----------------------------
(***************************************************************************)
(* Background fact extraction: _run_extraction of                          *)
(* archolith_proxy/openai/extraction.py under the per-session asyncio.Lock *)
(* of archolith_proxy/proxy/locks.py, with the fact store it writes to     *)
(* (graph/ladybug_facts.py) and the feeding of the curator at the end.     *)
(*                                                                         *)
(* One background task per answered request.  The tasks of one session     *)
(* queue up on its lock; each then captures file reads, asks the extractor *)
(* model, and writes to the session's graph in several queries with an     *)
(* await between any two of them.                                          *)
(***************************************************************************)
EXTENDS Integers, Sequences, FiniteSets, SequencesExt

CONSTANTS
  Sessions,       \* session ids
  Traffic,        \* the requests clients may make
  Contents,       \* what a fact can say
  Near(_, _),     \* the token overlap of two contents reaches the threshold
  BoundaryMode,   \* extraction_mode = "turn_boundary", the default
  WorkerEnabled,  \* curator_worker_enabled
  MaxLocks,       \* size above which cleanup_stale_locks prunes
  PoolLimit,      \* fact_pool_limit: facts an invalidation is matched against
  MaxTasks        \* bound on the requests answered

\* What a request looks like to the task: whether it is a user turn, how its
\* answer finished, and whether it has a user message at all.
Shapes   == [userTurn : BOOLEAN, finish : {"stop", "tool_calls"},
             hasUser : BOOLEAN]
Requests == [sess : Sessions, turn : Nat, shape : Shapes]

ASSUME ConstantsAssumption ==
  /\ IsFiniteSet(Sessions)
  /\ Traffic \subseteq Requests
  /\ BoundaryMode \in BOOLEAN
  /\ WorkerEnabled \in BOOLEAN
  /\ MaxLocks \in Nat
  /\ PoolLimit \in Nat
  /\ MaxTasks \in Nat

\* Tasks are numbered in the order their coroutines start; so are the locks,
\* which makes the number of a lock its place in the registry's dict.
Tasks   == 1..MaxTasks
LockIds == 1..MaxTasks
None    == 0

\* A fact is known by the task that stored it and by what it says.
Facts  == Tasks \X Contents
Result == [facts : SUBSET Contents, obsolete : SUBSET Contents]
NoResult == [facts |-> {}, obsolete |-> {}]

\* Where a task stands; it holds its lock in the Holding ones.
Holding == {"capture", "extract", "hashes", "store", "edges", "match",
            "invalidate", "supersede", "finish"}
Where   == Holding \cup {"new", "waiting", "done"}

VARIABLES
  pc,          \* where each task stands
  req,         \* the requests the started tasks are for
  lockOf,      \* the lock object each task took from the registry
  registry,    \* locks._session_locks: session -> lock or None
  made,        \* how many locks were created
  holder,      \* the task that holds a lock
  waiters,     \* asyncio.Lock._waiters, oldest first
  facts,       \* stored facts
  active,      \* those whose valid_until is NULL
  supersedes,  \* SUPERSEDES edges <<newer, older>>
  result,      \* per task: what the extractor returned
  known,       \* per task: contents of the active facts, as read
  matched,     \* per task: the active facts its invalidations matched
  fed          \* tasks that fed the curator

lockVars  == <<lockOf, registry, made, holder, waiters>>
graphVars == <<facts, active, supersedes>>
localVars == <<result, known, matched>>
vars == <<pc, req, lockVars, graphVars, localVars, fed>>

TypeOK ==
  /\ pc \in [Tasks -> Where]
  /\ req \in Seq(Requests)
  /\ Len(req) <= MaxTasks
  /\ lockOf \in [Tasks -> LockIds \cup {None}]
  /\ registry \in [Sessions -> LockIds \cup {None}]
  /\ made \in 0..MaxTasks
  /\ holder \in [LockIds -> Tasks \cup {None}]
  /\ waiters \in [LockIds -> Seq(Tasks)]
  /\ facts \in SUBSET Facts
  /\ active \in SUBSET facts
  /\ supersedes \in SUBSET (Facts \X Facts)
  /\ result \in [Tasks -> Result]
  /\ known \in [Tasks -> SUBSET Contents]
  /\ matched \in [Tasks -> SUBSET Facts]
  /\ fed \in SUBSET Tasks

Init ==
  /\ pc = [t \in Tasks |-> "new"]
  /\ req = <<>>
  /\ lockOf = [t \in Tasks |-> None]
  /\ registry = [s \in Sessions |-> None]
  /\ made = 0
  /\ holder = [l \in LockIds |-> None]
  /\ waiters = [l \in LockIds |-> <<>>]
  /\ facts = {}
  /\ active = {}
  /\ supersedes = {}
  /\ result = [t \in Tasks |-> NoResult]
  /\ known = [t \in Tasks |-> {}]
  /\ matched = [t \in Tasks |-> {}]
  /\ fed = {}

-----------------------------------------------------------------------------
(* The session lock.  asyncio.Lock is fair: a task that finds it free but  *)
(* with waiters queues up behind them, and a release wakes the first one.  *)

\* Mutant of Free: a released lock goes to whoever asks first.
FreeThoughAwaited(l) == holder[l] = None

Free(l) == holder[l] = None /\ waiters[l] = <<>>

\* A task starts: get_session_lock finds or makes the session's lock, which
\* is then taken on the spot or waited for.
Start(r) ==
  LET t   == Len(req) + 1
      new == registry[r.sess] = None
      l   == IF new THEN made + 1 ELSE registry[r.sess]
  IN /\ t <= MaxTasks
     /\ req' = Append(req, r)
     /\ made' = IF new THEN made + 1 ELSE made
     /\ registry' = [registry EXCEPT ![r.sess] = l]
     /\ lockOf' = [lockOf EXCEPT ![t] = l]
     /\ IF Free(l)
          THEN /\ holder' = [holder EXCEPT ![l] = t]
               /\ pc' = [pc EXCEPT ![t] = "capture"]
               /\ UNCHANGED waiters
          ELSE /\ waiters' = [waiters EXCEPT ![l] = Append(@, t)]
               /\ pc' = [pc EXCEPT ![t] = "waiting"]
               /\ UNCHANGED holder
     /\ UNCHANGED <<graphVars, localVars, fed>>

\* The first waiter of a released lock runs and has it.
Acquire(t) ==
  LET l == lockOf[t]
  IN /\ pc[t] = "waiting"
     /\ holder[l] = None
     /\ waiters[l] # <<>>
     /\ Head(waiters[l]) = t
     /\ holder' = [holder EXCEPT ![l] = t]
     /\ waiters' = [waiters EXCEPT ![l] = Tail(@)]
     /\ pc' = [pc EXCEPT ![t] = "capture"]
     /\ UNCHANGED <<req, lockOf, registry, made, graphVars, localVars, fed>>

\* Ten seconds passed: the task gives up, and does not feed the curator.
LockTimeout(t) ==
  LET l == lockOf[t]
  IN /\ pc[t] = "waiting"
     /\ \E i \in 1..Len(waiters[l]) :
          /\ waiters[l][i] = t
          /\ waiters' = [waiters EXCEPT ![l] = RemoveAt(@, i)]
     /\ pc' = [pc EXCEPT ![t] = "done"]
     /\ UNCHANGED <<req, lockOf, registry, made, holder, graphVars, localVars,
                    fed>>

\* The hourly cleanup_stale_locks: above MaxLocks the older half of the locks
\* leaves the registry, whoever holds or awaits them.
CleanupLocks ==
  LET held    == {s \in Sessions : registry[s] # None}
      Rank(s) == Cardinality({u \in held : registry[u] <= registry[s]})
  IN /\ Cardinality(held) > MaxLocks
     /\ registry' = [s \in Sessions |->
          IF s \in held /\ Rank(s) <= Cardinality(held) \div 2
            THEN None ELSE registry[s]]
     /\ UNCHANGED <<pc, req, lockOf, made, holder, waiters, graphVars,
                    localVars, fed>>

-----------------------------------------------------------------------------
(* Leaving.  The finally clause releases the lock; an early return ends    *)
(* the task there, while the ordinary end and an exception go on, without  *)
(* an await, to feed the curator.                                          *)

\* The worker takes any request with a user message; the legacy background
\* pass only user turns whose answer is not a tool call.
Feeds(shape) ==
  /\ shape.hasUser
  /\ ~WorkerEnabled => shape.userTurn /\ shape.finish # "tool_calls"

Release(t) ==
  /\ holder' = [holder EXCEPT ![lockOf[t]] = None]
  /\ pc' = [pc EXCEPT ![t] = "done"]
  /\ result' = [result EXCEPT ![t] = NoResult]
  /\ known' = [known EXCEPT ![t] = {}]
  /\ matched' = [matched EXCEPT ![t] = {}]

\* Mutant of ReturnEarly: the lock is not released.
ReturnHolding(t) ==
  /\ pc' = [pc EXCEPT ![t] = "done"]
  /\ UNCHANGED <<req, lockVars, graphVars, localVars, fed>>

ReturnEarly(t) ==
  /\ Release(t)
  /\ UNCHANGED <<req, lockOf, registry, made, waiters, graphVars, fed>>

ReleaseAndFeed(t) ==
  /\ Release(t)
  /\ fed' = IF Feeds(req[t].shape) THEN fed \cup {t} ELSE fed
  /\ UNCHANGED <<req, lockOf, registry, made, waiters, graphVars>>

\* A query or a broadcast of the body raised.
Fail(t) ==
  /\ pc[t] \in Holding \ {"capture", "supersede"}
  /\ ReleaseAndFeed(t)

-----------------------------------------------------------------------------
(* The body.                                                               *)

\* What an ordinary step leaves alone.
Inside(t, next) ==
  /\ pc' = [pc EXCEPT ![t] = next]
  /\ UNCHANGED <<req, lockVars, fed>>

IsTurnBoundary(shape) == shape.userTurn \/ shape.finish = "stop"

\* The request has neither a user message nor an answer: nothing is captured.
NothingSaid(t) ==
  /\ pc[t] = "capture"
  /\ ~req[t].shape.hasUser
  /\ ReturnEarly(t)

\* The file-cache capture ends, its own errors logged; in turn_boundary mode
\* the task goes on only at a boundary.
Capture(t) ==
  /\ pc[t] = "capture"
  /\ IF BoundaryMode /\ ~IsTurnBoundary(req[t].shape)
       THEN ReturnEarly(t)
       ELSE Inside(t, "extract") /\ UNCHANGED <<graphVars, localVars>>

\* The model answers with facts and descriptions of facts now obsolete.
Extract(t) ==
  /\ pc[t] = "extract"
  /\ \E new \in SUBSET Contents \ {{}}, old \in SUBSET Contents :
       result' = [result EXCEPT ![t] = [facts |-> new, obsolete |-> old]]
  /\ Inside(t, "hashes")
  /\ UNCHANGED <<graphVars, known, matched>>

\* It returned nothing usable, or no fact.
ExtractNothing(t) == pc[t] = "extract" /\ ReturnEarly(t)

SessionFacts(s, set) == {f \in set : req[f[1]].sess = s}

\* get_all_fact_hashes.
ReadHashes(t) ==
  /\ pc[t] = "hashes"
  /\ known' = [known EXCEPT ![t] =
                 {f[2] : f \in SessionFacts(req[t].sess, active)}]
  /\ Inside(t, "store")
  /\ UNCHANGED <<graphVars, result, matched>>

\* Mutant of Unique: the result is stored as it came.
NotDeduplicated(t) == {t} \X result[t].facts

\* What is left of the result after deduplicate_facts_by_hash.
Unique(t) == {t} \X (result[t].facts \ known[t])

\* store_facts_batch, after the embeddings: one query for all of them.
Store(t) ==
  /\ pc[t] = "store"
  /\ facts' = facts \cup Unique(t)
  /\ active' = active \cup Unique(t)
  /\ Inside(t, "edges")
  /\ UNCHANGED <<supersedes, localVars>>

\* Touched files and decisions, whose failure is Fail; the checkpoint, issues
\* and verifications, whose failures are logged.
Edges(t) ==
  /\ pc[t] = "edges"
  /\ Inside(t, IF result[t].obsolete = {} THEN "finish" ELSE "match")
  /\ UNCHANGED <<graphVars, localVars>>

\* get_active_facts(limit): the newest facts by turn, ties in any order.
IsPool(pool, all) ==
  /\ pool \subseteq all
  /\ Cardinality(pool) =
       IF Cardinality(all) <= PoolLimit THEN Cardinality(all) ELSE PoolLimit
  /\ \A f \in pool, g \in all \ pool : req[f[1]].turn >= req[g[1]].turn

\* The facts of a pool that description d may pick: those that say it word
\* for word, or else the similar ones.
Best(d, pool) ==
  LET exact == {f \in pool : f[2] = d}
  IN IF exact # {} THEN exact ELSE {f \in pool : Near(f[2], d)}

\* find_matching_fact_ids: each description picks one best match or none.
Match(t) ==
  /\ pc[t] = "match"
  /\ LET all == SessionFacts(req[t].sess, active)
     IN \E pool \in SUBSET all :
          /\ IsPool(pool, all)
          /\ LET hit == {d \in result[t].obsolete : Best(d, pool) # {}}
             IN \E pick \in [hit -> pool] :
                  /\ \A d \in hit : pick[d] \in Best(d, pool)
                  /\ matched' = [matched EXCEPT ![t] = {pick[d] : d \in hit}]
                  /\ Inside(t, IF hit = {} THEN "finish" ELSE "invalidate")
  /\ UNCHANGED <<graphVars, result, known>>

\* invalidate_facts: those still active get a valid_until; edges are written
\* only when there was one.
Invalidate(t) ==
  /\ pc[t] = "invalidate"
  /\ active' = active \ matched[t]
  /\ Inside(t, IF active \cap matched[t] # {} THEN "supersede" ELSE "finish")
  /\ UNCHANGED <<facts, supersedes, localVars>>

\* bulk_create_supersedes, a query per pair of a new and a matched fact; an
\* error among them is logged and leaves the rest unwritten.
Supersede(t) ==
  /\ pc[t] = "supersede"
  /\ \E written \in SUBSET ((facts \cap Unique(t)) \X matched[t]) :
       supersedes' = supersedes \cup written
  /\ Inside(t, "finish")
  /\ UNCHANGED <<facts, active, localVars>>

\* Counts, metrics, the live broadcast, the trace and the promotion.
Finish(t) == pc[t] = "finish" /\ ReleaseAndFeed(t)

Step(t) ==
  \/ NothingSaid(t) \/ Capture(t) \/ Extract(t) \/ ExtractNothing(t)
  \/ ReadHashes(t)
  \/ Store(t) \/ Edges(t) \/ Match(t) \/ Invalidate(t) \/ Supersede(t)
  \/ Finish(t) \/ Fail(t)

Next ==
  \/ \E r \in Traffic : Start(r)
  \/ \E t \in Tasks : Acquire(t) \/ LockTimeout(t) \/ Step(t)
  \/ CleanupLocks

Spec == Init /\ [][Next]_vars

-----------------------------------------------------------------------------
(* Properties.                                                             *)

SameSession(t, u) ==
  t <= Len(req) /\ u <= Len(req) /\ req[t].sess = req[u].sess

\* The tasks of session s all took the same lock: the registry was not pruned
\* between two of them.
OneLock(s) ==
  \A t, u \in 1..Len(req) :
    req[t].sess = s /\ req[u].sess = s => lockOf[t] = lockOf[u]

\* "During extraction, the lock is held to prevent concurrent writes to the
\* same session's graph data" (locks.py 8-9): two tasks of a session are
\* never both past the lock.
MutualExclusion ==
  \A t, u \in Tasks :
    SameSession(t, u) /\ pc[t] \in Holding /\ pc[u] \in Holding => t = u

\* The lock itself keeps its promise and is not leaked: at most one task is
\* past it, and whoever is recorded as its holder is past it and has not
\* ended, so that no timeout, early return or exception blocks the session.
LockHonoured ==
  /\ \A t, u \in Tasks :
       pc[t] \in Holding /\ pc[u] \in Holding /\ lockOf[t] = lockOf[u] => t = u
  /\ \A l \in LockIds :
       holder[l] # None => pc[holder[l]] \in Holding /\ lockOf[holder[l]] = l

\* The facts of a session that are still valid all say different things, for
\* all the awaits between reading the hashes and storing the batch, as long as
\* its extractions shared one lock.
NoDuplicateActive ==
  \A f, g \in active :
    /\ SameSession(f[1], g[1]) /\ OneLock(req[f[1]].sess)
    /\ f[2] = g[2]
    => f = g

\* The tasks that share a lock write in the order their answers came: none
\* gets past it while an earlier one is still waiting.
ExtractionsInOrder ==
  [][\A u \in Tasks : pc[u] \notin Holding /\ pc'[u] \in Holding =>
       \A t \in 1..(u - 1) : lockOf'[t] = lockOf'[u] => pc[t] # "waiting"]_vars
=============================================================================
