---------------------------- MODULE CuratorState ----------------------------
(***************************************************************************)
(* The curator's per-session caches with both of their optional companions *)
(* on: archolith_proxy/curator/state.py keeps the last snapshot and the    *)
(* last briefing of each session in two dicts, bounded by the ARC working  *)
(* set, and curator/persistence.py mirrors every write to a sqlite sidecar *)
(* through a bounded queue that one task drains in batches.  main.py       *)
(* reloads the caches from the sidecar at the next start.                  *)
(*                                                                         *)
(* state.py is synchronous, so each of its functions is one action.        *)
(***************************************************************************)
EXTENDS ARCWorkingSet, SequencesExt

CONSTANTS
  MaxQueue,    \* capacity of StatePersistence._queue
  BatchMax,    \* events a batch holds at most
  MaxWrites,   \* bound on the values ever cached
  MaxStarts    \* bound on the starts of the process

ASSUME StateAssumption ==
  /\ MaxQueue \in Nat \ {0}
  /\ BatchMax \in Nat \ {0}
  /\ MaxWrites \in Nat
  /\ MaxStarts \in Nat

Kinds   == {"briefing", "snapshot"}
Nothing == 0

\* A cached value is the number of the write that cached it.
Empty == [k \in Kinds |-> [s \in Keys |-> Nothing]]

VARIABLES
  phase,     \* "restoring", "up", "stopping" or "down"
  starts,    \* how many times the process started
  writes,    \* how many values were cached
  cache,     \* _briefing_cache and _cache
  todo,      \* sessions restore_caches has still to touch
  queue,     \* StatePersistence._queue
  batch,     \* the batch the executor thread is writing, empty if none
  db,        \* the tables as the connection sees them
  durable,   \* the tables as last committed
  truth,     \* history: the last value written and not deleted, over all starts
  lost,      \* history: the pairs <<kind, session>> whose last write or
             \* deletion did not reach the sidecar, and no longer can
  stale      \* history: those that were lost when the process last started,
             \* and that were neither written nor deleted since

stateVars == <<arcVars, phase, starts, writes, cache, todo, queue, batch, db,
               durable, truth, lost, stale>>

StateInit ==
  /\ ArcInit
  /\ phase = "down"
  /\ starts = 0
  /\ writes = 0
  /\ cache = Empty
  /\ todo = <<>>
  /\ queue = <<>>
  /\ batch = <<>>
  /\ db = Empty
  /\ durable = Empty
  /\ truth = Empty
  /\ lost = {}
  /\ stale = {}

-----------------------------------------------------------------------------
(* The caches.                                                             *)

Without(store, gone) ==
  [k \in Kinds |-> [s \in Keys |-> IF s \in gone THEN Nothing ELSE store[k][s]]]

With(store, k, s, v) == [store EXCEPT ![k][s] = v]

\* The sessions with data in some store.
Holders(store) == {s \in Keys : \E k \in Kinds : store[k][s] # Nothing}

\* Mutant of Touch: the victim keeps its snapshot.
TouchDropsBriefing(s, c) ==
  /\ RecordAccess(s)
  /\ cache' = IF evicted' = NoKey THEN c
              ELSE With(c, "briefing", evicted', Nothing)

\* _touch_working_set after the caches became c: the victim loses its data in
\* both, and no delete is persisted.
Touch(s, c) ==
  /\ RecordAccess(s)
  /\ cache' = Without(c, {evicted'} \ {s})

\* The pairs of a kind and a session that events write or delete.
Affected(events) ==
  {x \in Kinds \X Keys : \E i \in 1..Len(events) :
                            events[i].sess = x[2] /\ events[i].kind \in {x[1], "delete"}}

\* put_nowait of one event after the other; those that do not fit are dropped.
EnqueueAll(events) ==
  LET room == MaxQueue - Len(queue)
      kept == IF room < Len(events) THEN room ELSE Len(events)
  IN /\ queue' = queue \o SubSeq(events, 1, kept)
     /\ lost' = (lost \cup Affected(events)) \ Affected(SubSeq(events, 1, kept))

Deletion(s) == [kind |-> "delete", sess |-> s, val |-> Nothing]

\* cache_briefing and cache_snapshot.  The shutdown has cleared the callback
\* before it stops the sidecar: what is cached from then on is not persisted.
Put(k, s) ==
  LET v == writes + 1
  IN /\ phase \in {"up", "stopping"}
     /\ v <= MaxWrites
     /\ writes' = v
     /\ truth' = With(truth, k, s, v)
     /\ stale' = stale \ {<<k, s>>}
     /\ IF phase = "up" THEN EnqueueAll(<<[kind |-> k, sess |-> s, val |-> v]>>)
                        ELSE queue' = queue /\ lost' = lost \cup {<<k, s>>}
     /\ Touch(s, With(cache, k, s, v))
     /\ UNCHANGED <<phase, starts, todo, batch, db, durable>>

\* get_briefing and get_snapshot, on a hit.
Get(k, s) ==
  /\ phase \in {"up", "stopping"}
  /\ cache[k][s] # Nothing
  /\ Touch(s, cache)
  /\ UNCHANGED <<phase, starts, writes, todo, queue, batch, db, durable, truth,
                 lost, stale>>

\* clear_snapshot and clear_briefing of each session gone.
Cleared(gone) == Without(cache, gone)

\* prune_session_state, of the cached sessions that left the graph: each is
\* cleared from both caches and from the working set, and deleted twice.
Prune(gone) ==
  /\ phase = "up"
  /\ gone # {} /\ gone \subseteq Holders(cache)
  /\ cache' = Cleared(gone)
  /\ truth' = Without(truth, gone)
  /\ stale' = stale \ (Kinds \X gone)
  /\ Forget(gone)
  /\ \E ids \in SetToSeqs(gone) :
       EnqueueAll([i \in 1..2 * Len(ids) |-> Deletion(ids[(i + 1) \div 2])])
  /\ UNCHANGED <<phase, starts, writes, todo, batch, db, durable>>

-----------------------------------------------------------------------------
(* The drain task and its executor thread.                                 *)

\* Mutant of ApplyEvent: a delete reaches one table only.
DeleteBriefingOnly(store, e) ==
  With(store, IF e.kind = "delete" THEN "briefing" ELSE e.kind, e.sess, e.val)

\* One statement of _flush_batch.
ApplyEvent(store, e) ==
  IF e.kind = "delete" THEN Without(store, {e.sess})
                       ELSE With(store, e.kind, e.sess, e.val)

\* A batch, in order.
ApplyAll(store, events) ==
  LET after[n \in 0..Len(events)] ==
        IF n = 0 THEN store ELSE ApplyEvent(after[n - 1], events[n])
  IN  after[Len(events)]

\* The events a batch takes, and the rest.
Taken == IF Len(queue) < BatchMax THEN Len(queue) ELSE BatchMax

TakeBatch ==
  /\ phase \in {"up", "stopping"}
  /\ batch = <<>>
  /\ queue # <<>>
  /\ batch' = SubSeq(queue, 1, Taken)
  /\ queue' = SubSeq(queue, Taken + 1, Len(queue))
  /\ UNCHANGED <<arcVars, phase, starts, writes, cache, todo, db, durable,
                 truth, lost, stale>>

FlushBatch ==
  /\ batch # <<>>
  /\ db' = ApplyAll(db, batch)
  /\ durable' = db'
  /\ batch' = <<>>
  /\ UNCHANGED <<arcVars, phase, starts, writes, cache, todo, queue, truth,
                 lost, stale>>

\* Mutant of FlushFails: the failed batch is queued again.
FailRequeues(n) ==
  /\ batch # <<>>
  /\ n = 0
  /\ queue' = queue \o batch
  /\ batch' = <<>>
  /\ UNCHANGED <<arcVars, phase, starts, writes, cache, todo, db, durable,
                 truth, lost, stale>>

\* A statement or the commit raised: nothing rolls the first n statements
\* back, they are committed with a later batch.
FlushFails(n) ==
  /\ batch # <<>>
  /\ n \in 0..Len(batch)
  /\ db' = ApplyAll(db, SubSeq(batch, 1, n))
  /\ batch' = <<>>
  /\ lost' = lost \cup (Affected(batch) \ Affected(queue))
  /\ UNCHANGED <<arcVars, phase, starts, writes, cache, todo, queue, durable,
                 truth, stale>>

-----------------------------------------------------------------------------
(* Stopping and starting.                                                  *)

\* The process ends; what a database would still show is db1.
GoDown(db1) ==
  /\ phase' = "down"
  /\ cache' = Empty
  /\ todo' = <<>>
  /\ queue' = <<>>
  /\ batch' = <<>>
  /\ db' = db1
  /\ durable' = db1
  /\ p' = 0 /\ t1' = {} /\ t2' = {} /\ b1' = {} /\ b2' = {}
  /\ order' = <<>> /\ evicted' = NoKey
  /\ stale' = {}
  /\ UNCHANGED <<starts, writes, truth>>

\* The lifespan shutdown clears the callback and calls StatePersistence.stop.
BeginStop ==
  /\ phase = "up"
  /\ phase' = "stopping"
  /\ UNCHANGED <<arcVars, starts, writes, cache, todo, queue, batch, db,
                 durable, truth, lost, stale>>

\* The queue was joined within five seconds.
StopFlushed ==
  /\ phase = "stopping"
  /\ queue = <<>> /\ batch = <<>>
  /\ GoDown(db)
  /\ UNCHANGED lost

\* It was not: the rest is discarded and the batch is cut short, but what was
\* executed is committed.
StopTimeout(n) ==
  /\ phase = "stopping"
  /\ queue # <<>> \/ batch # <<>>
  /\ n \in 0..Len(batch)
  /\ GoDown(ApplyAll(db, SubSeq(batch, 1, n)))
  /\ lost' = lost \cup Affected(SubSeq(batch, n + 1, Len(batch)) \o queue)

\* The process dies; uncommitted statements are rolled back.
Crash ==
  /\ phase # "down"
  /\ GoDown(durable)
  /\ lost' = lost \cup Affected(batch \o queue)

\* start, load_all and restore_caches: everything is loaded, then the working
\* set is seeded, with the sessions of the briefings first.
Start ==
  /\ phase = "down"
  /\ starts < MaxStarts
  /\ starts' = starts + 1
  /\ phase' = "restoring"
  /\ cache' = durable
  /\ \E first \in SetToSeqs({s \in Keys : durable["briefing"][s] # Nothing}),
        then \in SetToSeqs({s \in Keys : durable["snapshot"][s] # Nothing}) :
       todo' = first \o then
  /\ stale' = lost
  /\ UNCHANGED <<arcVars, writes, queue, batch, db, durable, truth, lost>>

Restore ==
  /\ phase = "restoring"
  /\ todo # <<>>
  /\ Touch(Head(todo), cache)
  /\ todo' = Tail(todo)
  /\ UNCHANGED <<phase, starts, writes, queue, batch, db, durable, truth, lost,
                 stale>>

Restored ==
  /\ phase = "restoring"
  /\ todo = <<>>
  /\ phase' = "up"
  /\ UNCHANGED <<arcVars, starts, writes, cache, todo, queue, batch, db,
                 durable, truth, lost, stale>>

-----------------------------------------------------------------------------
StateNext ==
  \/ \E k \in Kinds, s \in Keys : Put(k, s) \/ Get(k, s)
  \/ \E gone \in SUBSET Keys : Prune(gone)
  \/ TakeBatch
  \/ FlushBatch
  \/ \E n \in 0..BatchMax : FlushFails(n) \/ StopTimeout(n)
  \/ BeginStop
  \/ StopFlushed
  \/ Crash
  \/ Start
  \/ Restore
  \/ Restored

StateSpec == StateInit /\ [][StateNext]_stateVars

-----------------------------------------------------------------------------
(* Properties.                                                             *)

\* What is committed plus what is on its way is, for a kind of value and a
\* session, what was last written and not deleted, over crashes and restarts,
\* unless just that last write or deletion was dropped, failed, discarded or
\* died with the process: an event lost for one session or one table spoils no
\* other, a later one repairs what it touches, evictions never reach the
\* sidecar, and no event overtakes another.
MirrorComplete ==
  \A k \in Kinds, s \in Keys :
    <<k, s>> \notin lost => ApplyAll(durable, batch \o queue)[k][s] = truth[k][s]

\* Data in memory is the last value written for its session and kind, also
\* after crashes and restarts, and a deleted one is not there again, except
\* where that last write or deletion was lost before the process last started:
\* then the memory has what restore_caches found, which may be an older value
\* or a session that was deleted.  And a session with data is resident in the
\* working set or about to be seeded by restore_caches: the bound on residents
\* bounds the caches, whatever is evicted, read, pruned and restored.
MemoryIsSound ==
  /\ \A k \in Kinds, s \in Keys :
       <<k, s>> \notin stale => cache[k][s] \in {Nothing, truth[k][s]}
  /\ phase # "down" => Holders(cache) \subseteq Resident \cup ToSet(todo)

\* A committed row is never replaced by an older value, also when a failed
\* batch left statements behind for the next commit.
RowsNeverRegress ==
  [][\A k \in Kinds, s \in Keys :
       durable'[k][s] # Nothing => durable'[k][s] >= durable[k][s]]_stateVars
=============================================================================
