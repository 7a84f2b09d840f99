--------------------------- MODULE CuratorWorkers ---------------------------
(***************************************************************************)
(* The event-driven curator workers of archolith_proxy/curator/worker.py:  *)
(* one drain loop per session fed by a bounded queue, the registry that    *)
(* creates and evicts them, and the two tasks that close them: the hourly  *)
(* cleanup loop and the lifespan shutdown of archolith_proxy/main.py.      *)
(*                                                                         *)
(* All of it runs on one asyncio event loop, so an action is what happens  *)
(* between two awaits.  A worker is an object: an evicted worker keeps     *)
(* running until its task has unwound, beside a new worker of the same     *)
(* session, so the per-worker state is indexed by object identities.       *)
(***************************************************************************)
EXTENDS Integers, Sequences, FiniteSets

CONSTANTS
  Sessions,      \* session ids
  Kinds,         \* kinds of events sent: {"turn"}, or "session_end" as well
  MaxQueue,      \* curator_worker_max_queue: capacity of a worker's queue
  MaxWorkers,    \* bound on the worker objects ever created
  MaxEvents      \* bound on the events ever enqueued

ASSUME ConstantsAssumption ==
  /\ Kinds \subseteq {"turn", "session_end"}
  /\ MaxQueue \in Nat \ {0}
  /\ MaxWorkers \in Nat
  /\ MaxEvents \in Nat

WorkerIds == 1..MaxWorkers
NoWorker  == 0

\* Events carry their arrival number: a larger n is a newer event, 0 is none.
Event    == [n : 1..MaxEvents, kind : Kinds]
EventNum == 0..MaxEvents

\* Where a drain loop is suspended: queue.get, the debounce sleep, the curator
\* pass, the trace write that ends a pass, or not a running task.
LoopState == {"unborn", "get", "debounce", "pass", "record", "done"}

\* The tasks that await CuratorWorker.aclose.
Closers == {"cleanup", "api", "lifespan"}

VARIABLES
  registry,   \* WorkerRegistry._workers: session -> worker or NoWorker
  spawned,    \* how many workers were created; their ids are 1..spawned
  pc,         \* where each worker's task is suspended
  queue,      \* CuratorWorker._queue
  cur,        \* number of the event the loop has in hand, 0 if none
  cancelled,  \* workers with a CancelledError waiting to be thrown
  idle,       \* workers whose last_active is older than the idle TTL
  todo,       \* per closer: what its loop over workers has still to close
  waiting,    \* per closer: the worker whose task it awaits, or NoWorker
  life,       \* the lifespan task: "up", "cancelling", "closing", "stopped"
  cleanup,    \* the cleanup task: "running" or "ended"
  sent,       \* how many events were enqueued so far
  ended,      \* history: the workers that were ever sent a session_end
  newest,     \* history: the newest event each worker accepted
  served      \* history: the newest event each worker ran a whole pass for

workerVars == <<pc, queue, cur, newest, served>>
closerVars == <<todo, waiting, life, cleanup>>
sentVars   == <<sent, ended>>
vars == <<registry, spawned, workerVars, cancelled, idle, closerVars, sentVars>>

TypeOK ==
  /\ registry \in [Sessions -> WorkerIds \cup {NoWorker}]
  /\ spawned \in 0..MaxWorkers
  /\ pc \in [WorkerIds -> LoopState]
  /\ queue \in [WorkerIds -> Seq(Event)]
  /\ cur \in [WorkerIds -> EventNum]
  /\ cancelled \in SUBSET WorkerIds
  /\ idle \in SUBSET WorkerIds
  /\ todo \in [Closers -> SUBSET (WorkerIds \cup Sessions)]
  /\ todo["cleanup"] \cup todo["api"] \subseteq Sessions
  /\ todo["lifespan"] \subseteq WorkerIds
  /\ waiting \in [Closers -> WorkerIds \cup {NoWorker}]
  /\ life \in {"up", "cancelling", "closing", "stopped"}
  /\ cleanup \in {"running", "ended"}
  /\ sent \in EventNum
  /\ ended \in SUBSET WorkerIds
  /\ newest \in [WorkerIds -> EventNum]
  /\ served \in [WorkerIds -> EventNum]

Init ==
  /\ registry = [s \in Sessions |-> NoWorker]
  /\ spawned = 0
  /\ pc = [w \in WorkerIds |-> "unborn"]
  /\ queue = [w \in WorkerIds |-> <<>>]
  /\ cur = [w \in WorkerIds |-> 0]
  /\ cancelled = {}
  /\ idle = {}
  /\ todo = [c \in Closers |-> {}]
  /\ waiting = [c \in Closers |-> NoWorker]
  /\ life = "up"
  /\ cleanup = "running"
  /\ sent = 0
  /\ ended = {}
  /\ newest = [w \in WorkerIds |-> 0]
  /\ served = [w \in WorkerIds |-> 0]

-----------------------------------------------------------------------------
(* Feeding a worker.                                                       *)

Registered == {registry[s] : s \in Sessions} \ {NoWorker}

\* A registry without workers: cleared, or dropped and built anew on first use.
Emptied == [s \in Sessions |-> NoWorker]

\* Mutant of Put: a full queue refuses the new event.
PutDropsNewest(q, e) == IF Len(q) < MaxQueue THEN Append(q, e) ELSE q

\* put_nowait, dropping the oldest pending event first when the queue is full.
Put(q, e) == IF Len(q) < MaxQueue THEN Append(q, e) ELSE Append(Tail(q), e)

\* WorkerRegistry.enqueue: the session's worker, created and started on first
\* use, takes the event; CuratorWorker.enqueue refreshes last_active.  The
\* tasks that send events are neither cancelled nor awaited by the lifespan
\* shutdown, so an event may come during it and after it.
Enqueue(s, k) ==
  LET e == [n |-> sent + 1, kind |-> k]
      w == IF registry[s] = NoWorker THEN spawned + 1 ELSE registry[s]
  IN /\ sent < MaxEvents
     /\ w <= MaxWorkers
     /\ sent' = sent + 1
     /\ ended' = IF k = "session_end" THEN ended \cup {w} ELSE ended
     /\ registry' = [registry EXCEPT ![s] = w]
     /\ spawned' = IF registry[s] = NoWorker THEN spawned + 1 ELSE spawned
     /\ pc' = IF registry[s] = NoWorker THEN [pc EXCEPT ![w] = "get"] ELSE pc
     /\ queue' = [queue EXCEPT ![w] = Put(@, e)]
     /\ newest' = [newest EXCEPT ![w] = e.n]
     /\ idle' = idle \ {w}
     /\ UNCHANGED <<cur, served, cancelled, closerVars>>

\* No event and no pass of w for longer than the TTL.  The debounce and the
\* time-boxed pass are far shorter, so only a loop blocked on an empty queue,
\* or one that has ended, gets this old.
Age(w) ==
  /\ \/ pc[w] = "get" /\ queue[w] = <<>>
     \/ pc[w] = "done"
  /\ w \notin idle
  /\ idle' = idle \cup {w}
  /\ UNCHANGED <<registry, spawned, workerVars, cancelled, closerVars, sentVars>>

-----------------------------------------------------------------------------
(* The drain loop, CuratorWorker._run.  A pending cancellation is thrown   *)
(* at the next resumption, so the ordinary steps need w \notin cancelled.  *)

\* queue.get returns; a session_end ends the loop, a turn starts the debounce.
GetEvent(w) ==
  /\ pc[w] = "get"
  /\ w \notin cancelled
  /\ queue[w] # <<>>
  /\ queue' = [queue EXCEPT ![w] = Tail(@)]
  /\ IF Head(queue[w]).kind = "session_end"
       THEN /\ pc' = [pc EXCEPT ![w] = "done"]
            /\ UNCHANGED cur
       ELSE /\ pc' = [pc EXCEPT ![w] = "debounce"]
            /\ cur' = [cur EXCEPT ![w] = Head(queue[w]).n]
  /\ UNCHANGED <<registry, spawned, cancelled, idle, closerVars, sentVars,
                 newest, served>>

\* Positions of the session_end events pending in a queue.
EndsIn(q) == {i \in 1..Len(q) : q[i].kind = "session_end"}

\* _drain_to_latest met a session_end: what precedes it is discarded with it,
\* what follows stays queued, and the loop ends.
DrainToEnd(w) ==
  /\ pc[w] = "debounce"
  /\ w \notin cancelled
  /\ \E i \in EndsIn(queue[w]) :
       /\ \A j \in EndsIn(queue[w]) : i <= j
       /\ queue' = [queue EXCEPT ![w] = SubSeq(@, i + 1, Len(@))]
  /\ pc' = [pc EXCEPT ![w] = "done"]
  /\ cur' = [cur EXCEPT ![w] = 0]
  /\ UNCHANGED <<registry, spawned, cancelled, idle, closerVars, sentVars,
                 newest, served>>

\* Mutant of Latest: the burst is discarded instead of collapsed.
LatestIsFirst(w) == cur[w]

\* The event a pass is for: the last one pending, or the one in hand.
Latest(w) == IF queue[w] = <<>> THEN cur[w] ELSE queue[w][Len(queue[w])].n

\* The debounce sleep is over: _drain_to_latest collapses the burst and
\* _run_pass starts the background pass for the latest event.
StartPass(w) ==
  /\ pc[w] = "debounce"
  /\ w \notin cancelled
  /\ EndsIn(queue[w]) = {}
  /\ pc' = [pc EXCEPT ![w] = "pass"]
  /\ cur' = [cur EXCEPT ![w] = Latest(w)]
  /\ queue' = [queue EXCEPT ![w] = <<>>]
  /\ idle' = idle \ {w}
  /\ UNCHANGED <<registry, spawned, cancelled, closerVars, sentVars, newest,
                 served>>

\* The background pass produced a briefing, nothing, or an exception:
\* run_background_pass writes its trace next in every case.
FinishPass(w) ==
  /\ pc[w] = "pass"
  /\ w \notin cancelled
  /\ pc' = [pc EXCEPT ![w] = "record"]
  /\ served' = [served EXCEPT ![w] = cur[w]]
  /\ UNCHANGED <<registry, spawned, queue, cur, newest, cancelled, idle,
                 closerVars, sentVars>>

\* The trace is written and the loop is back at queue.get.  last_active is
\* refreshed; after an exception it is not, which only delays the ageing.
FinishRecord(w) ==
  /\ pc[w] = "record"
  /\ w \notin cancelled
  /\ pc' = [pc EXCEPT ![w] = "get"]
  /\ cur' = [cur EXCEPT ![w] = 0]
  /\ idle' = idle \ {w}
  /\ UNCHANGED <<registry, spawned, queue, newest, served, cancelled,
                 closerVars, sentVars>>

\* Mutant of DeliverCancel: the loop swallows the error wherever it is.
CancelSwallowed(w) ==
  /\ w \in cancelled
  /\ cancelled' = cancelled \ {w}
  /\ UNCHANGED <<registry, spawned, workerVars, idle, closerVars, sentVars>>

\* The pending CancelledError is thrown where the task is suspended.  Inside
\* a pass run_background_pass catches it, writes the trace and returns
\* normally, so the loop goes on; anywhere else the task ends.
DeliverCancel(w) ==
  /\ w \in cancelled
  /\ pc[w] \in {"get", "debounce", "pass", "record"}
  /\ cancelled' = cancelled \ {w}
  /\ IF pc[w] = "pass"
       THEN /\ pc' = [pc EXCEPT ![w] = "record"]
            /\ UNCHANGED cur
       ELSE /\ pc' = [pc EXCEPT ![w] = "done"]
            /\ cur' = [cur EXCEPT ![w] = 0]
  /\ UNCHANGED <<registry, spawned, queue, newest, served, idle, closerVars,
                 sentVars>>

-----------------------------------------------------------------------------
(* Closing workers.                                                        *)

\* cancel() on a task that has not ended.
Cancel(w) ==
  cancelled' = IF w # NoWorker /\ pc[w] # "done" THEN cancelled \cup {w}
                                                 ELSE cancelled

\* One iteration of a closer's loop over what is left: the worker of x is
\* popped from the registry, cancelled and awaited if its task is running.
\* shutdown_all clears the registry once, before its loop starts.
\* The loops run in insertion order; any order is allowed here.
CloseOne(c, left) ==
  \E x \in left :
    LET w == IF c = "lifespan" THEN x ELSE registry[x]
    IN /\ todo' = [todo EXCEPT ![c] = left \ {x}]
       /\ registry' = IF c # "lifespan" THEN [registry EXCEPT ![x] = NoWorker]
                      ELSE IF life = "closing" THEN registry ELSE Emptied
       /\ Cancel(w)
       /\ waiting' = [waiting EXCEPT ![c] =
                        IF w # NoWorker /\ pc[w] # "done" THEN w ELSE NoWorker]

\* A closer is between two calls of the registry.
AtRest(c) == todo[c] = {} /\ waiting[c] = NoWorker

Stale == {s \in Sessions : registry[s] \in idle}

\* shutdown_idle, called by the cleanup loop: the stale sessions are listed
\* once, then closed one after the other with an await between.
CleanupTick ==
  /\ cleanup = "running"
  /\ AtRest("cleanup")
  /\ Stale # {}
  /\ CloseOne("cleanup", Stale)
  /\ UNCHANGED <<spawned, workerVars, idle, life, cleanup, sentVars>>

\* Mutant of ShutdownSession: the worker stays in the registry.
CloseKeepsRegistered(s) ==
  /\ life = "up"
  /\ AtRest("api")
  /\ registry[s] # NoWorker
  /\ Cancel(registry[s])
  /\ waiting' = [waiting EXCEPT !["api"] = registry[s]]
  /\ UNCHANGED <<registry, spawned, workerVars, idle, todo, life, cleanup, sentVars>>

\* shutdown_session.
ShutdownSession(s) ==
  /\ life = "up"
  /\ AtRest("api")
  /\ registry[s] # NoWorker
  /\ CloseOne("api", {s})
  /\ UNCHANGED <<spawned, workerVars, idle, life, cleanup, sentVars>>

\* The awaited task has ended (or there was none to await): aclose returns
\* and the closer's loop goes on.
CloseNext(c) ==
  /\ todo[c] # {}
  /\ waiting[c] # NoWorker => pc[waiting[c]] = "done"
  /\ CloseOne(c, todo[c])
  /\ UNCHANGED <<spawned, workerVars, idle, life, cleanup, sentVars>>

\* The lifespan's last aclose returns into ShutdownDone.
CloseReturns(c) ==
  /\ c # "lifespan"
  /\ todo[c] = {}
  /\ waiting[c] # NoWorker
  /\ pc[waiting[c]] = "done"
  /\ waiting' = [waiting EXCEPT ![c] = NoWorker]
  /\ UNCHANGED <<registry, spawned, workerVars, cancelled, idle, todo, life,
                 cleanup, sentVars>>

\* The lifespan task cancels the cleanup task and awaits it.  A sleeping
\* cleanup loop ends.  One suspended in aclose passes the cancellation on to
\* the worker task it awaits, and aclose swallows the CancelledError that
\* comes back, so the cleanup loop goes on.
BeginShutdown ==
  /\ life = "up"
  /\ todo["cleanup"] # {} => waiting["cleanup"] # NoWorker
  /\ life' = "cancelling"
  /\ cleanup' = IF AtRest("cleanup") THEN "ended" ELSE "running"
  /\ Cancel(waiting["cleanup"])
  /\ UNCHANGED <<registry, spawned, workerVars, idle, todo, waiting, sentVars>>

\* The cleanup task has ended: shutdown_all empties the registry and starts
\* closing the workers it held; with none it returns at once.
ShutdownAll ==
  /\ life = "cancelling"
  /\ cleanup = "ended"
  /\ \/ /\ Registered = {}
        /\ life' = "stopped"
        /\ UNCHANGED <<todo, registry, cancelled, waiting>>
     \/ /\ life' = "closing"
        /\ CloseOne("lifespan", Registered)
  /\ UNCHANGED <<spawned, workerVars, idle, cleanup, sentVars>>

\* shutdown_all has closed the workers of its list, and the registry object
\* is dropped with whatever was registered in it meanwhile.
ShutdownDone ==
  /\ life = "closing"
  /\ todo["lifespan"] = {}
  /\ waiting["lifespan"] # NoWorker => pc[waiting["lifespan"]] = "done"
  /\ life' = "stopped"
  /\ waiting' = [waiting EXCEPT !["lifespan"] = NoWorker]
  /\ registry' = Emptied
  /\ UNCHANGED <<spawned, workerVars, cancelled, idle, todo, cleanup, sentVars>>

-----------------------------------------------------------------------------
LoopStep(w) ==
  \/ GetEvent(w) \/ DrainToEnd(w) \/ StartPass(w)
  \/ FinishPass(w) \/ FinishRecord(w) \/ DeliverCancel(w)

CloserStep(c) == CloseNext(c) \/ CloseReturns(c)

Next ==
  \/ \E s \in Sessions, k \in Kinds : Enqueue(s, k)
  \/ \E s \in Sessions : ShutdownSession(s)
  \/ \E w \in WorkerIds : Age(w) \/ LoopStep(w)
  \/ \E c \in Closers : CloserStep(c)
  \/ CleanupTick
  \/ BeginShutdown
  \/ ShutdownAll
  \/ ShutdownDone

Spec == Init /\ [][Next]_vars

\* The event loop runs every ready task: a timer or a future that has fired
\* is not postponed for ever.  Nothing forces a client to send a turn or the
\* operator to stop the proxy.
Fairness ==
  /\ \A w \in WorkerIds : WF_vars(LoopStep(w))
  /\ \A c \in Closers : WF_vars(CloserStep(c))
  /\ WF_vars(ShutdownAll)
  /\ WF_vars(ShutdownDone)

FairSpec == Spec /\ Fairness

-----------------------------------------------------------------------------
(* Properties.                                                             *)

\* What worker w still owes or has last done: the end of its queue, else the
\* event in hand, else the last event it ran a pass for.
LastOwed(w) ==
  IF queue[w] # <<>> THEN queue[w][Len(queue[w])].n
  ELSE IF cur[w] # 0 THEN cur[w] ELSE served[w]

\* A registered worker never loses the newest event it accepted, through
\* backpressure drops, debounce, coalescing and new arrivals during a pass
\* (worker.py 97-115 and 159-174: only superseded events are dropped).
NewestKept ==
  \A w \in Registered : pc[w] # "done" => LastOwed(w) = newest[w]

\* Two sessions never share a worker object, and a worker is cancelled only
\* after it left the registry (worker.py 251-300: pop comes before aclose),
\* so no event is ever handed to a worker that is being torn down.
RegisteredNotCancelled ==
  /\ Registered \cap cancelled = {}
  /\ \A s, t \in Sessions :
       registry[s] = registry[t] /\ registry[s] # NoWorker => s = t

\* A pass starts for the newest event its worker has accepted, and never
\* twice for the same or an older one ("a burst of events is coalesced into
\* a single enrichment pass targeting the latest event", worker.py 10-11);
\* and while its worker is registered it only ends by running to its end ("no
\* cancel-and-lose", worker.py 12-15).
PassIsForNewest ==
  [][\A w \in WorkerIds :
       /\ pc[w] = "debounce" /\ pc'[w] = "pass" =>
            cur'[w] = newest[w] /\ cur'[w] > served[w]
       /\ w \in Registered /\ pc[w] = "pass" /\ pc'[w] # "pass" =>
            served'[w] = cur[w]]_vars

\* Every event sent to a registered worker is served by a pass for it or for
\* a newer event, unless the worker is closed or dropped by the shutdown
\* first, told that its session ended, or the proxy has stopped.
EventServed ==
  \A w \in WorkerIds : \A n \in 1..MaxEvents :
    (w \in Registered /\ newest[w] = n)
      ~> (served[w] >= n \/ w \notin Registered \/ w \in ended
            \/ life = "stopped")

\* Blocked on an empty queue, or ended.
Quiet(w) == pc[w] = "done" \/ (pc[w] = "get" /\ queue[w] = <<>>)

\* The workers the lifespan shutdown took from the registry and has still to
\* close or is waiting for.
Closing == todo["lifespan"] \cup ({waiting["lifespan"]} \ {NoWorker})

\* Worker w has ended, or is idle when it is cancelled or will be.
EndsIdle(w) ==
  pc[w] = "done" \/ (Quiet(w) /\ (w \in todo["lifespan"] \/ w \in cancelled))

\* A lifespan shutdown whose workers are all idle, the cancellation of none of
\* them swallowed by a pass, ends them all and completes, whatever events and
\* new workers arrive while it waits (worker.py 117-123, 302-307).
QuietShutdownCompletes ==
  \A W \in SUBSET WorkerIds :
    (life = "closing" /\ Closing = W /\ \A w \in W : EndsIdle(w))
      ~> (life = "stopped" /\ \A w \in W : pc[w] = "done")

\* "Stop all session workers and reset the registry (proxy shutdown)"
\* (worker.py 380): the registry is dropped without a running worker in it.
ShutdownStopsAll ==
  [][life # "stopped" /\ life' = "stopped" =>
       \A w \in Registered : pc[w] = "done"]_vars

\* "Cancel the drain loop and wait for it to unwind" (worker.py 118): every
\* aclose awaited by the cleanup loop or by the lifespan shutdown returns.
AcloseReturns ==
  \A c \in {"cleanup", "lifespan"} : \A w \in WorkerIds :
    (waiting[c] = w) ~> (waiting[c] # w)
=============================================================================
