-------------------------- MODULE ExtractionProofs --------------------------
(***************************************************************************)
(* Proofs about Extraction for any sessions, contents and number of tasks: *)
(* type correctness, the absence of duplicate active facts, the order in   *)
(* which a lock is passed, and, as long as the lock registry is never      *)
(* pruned, mutual exclusion per session.  At the end, proofs about the     *)
(* capture of files that starts every extraction: the two share no state.  *)
(***************************************************************************)
EXTENDS Extraction, FileCache, ListsProofs, TLAPS, FiniteSetTheorems, SequenceTheorems

\* The sessions fit into the registry: cleanup_stale_locks never prunes it.
NeverPruned == Cardinality(Sessions) <= MaxLocks

\* The tasks that have started are those a request is recorded for, and every
\* one of them was given a lock that exists.
StartedTasks ==
  /\ \A t \in Tasks : pc[t] = "new" <=> t > Len(req)
  /\ \A t \in Tasks : pc[t] # "new" => lockOf[t] \in 1..made
  /\ \A s \in Sessions : registry[s] <= made
  /\ made <= Len(req)
  /\ \A f \in facts : f[1] <= Len(req)

\* A lock taken from a registry that is never pruned stays the session's.
LocksKept ==
  NeverPruned =>
    \A t \in Tasks : pc[t] # "new" => lockOf[t] = registry[req[t].sess]

\* A task past the lock holds it.
HoldersInside == \A t \in Tasks : pc[t] \in Holding => holder[lockOf[t]] = t

\* What the task about to store has read still covers its session's facts.
KnownCovers ==
  \A t \in Tasks : pc[t] = "store" /\ OneLock(req[t].sess) =>
    \A f \in active : req[f[1]].sess = req[t].sess => f[2] \in known[t]

LockInv == TypeOK /\ StartedTasks /\ LocksKept /\ HoldersInside
IInv    == LockInv /\ KnownCovers /\ NoDuplicateActive

-----------------------------------------------------------------------------
(* Types.                                                                  *)

\* Removing one waiter leaves a queue of tasks.
LEMMA RemoveAtType ==
  ASSUME NEW q \in Seq(Tasks), NEW i \in 1..Len(q)
  PROVE  RemoveAt(q, i) \in Seq(Tasks)
<1>1. SubSeq(q, 1, i - 1) \in Seq(Tasks)
  BY SubSeqProperties
<1>2. SubSeq(q, i + 1, Len(q)) \in Seq(Tasks)
  BY SubSeqProperties
<1>3. QED
  BY <1>1, <1>2, ConcatProperties DEF RemoveAt

\* A started task has a request in range and a lock in range.
LEMMA StartedInRange ==
  ASSUME TypeOK, StartedTasks, NEW t \in Tasks, pc[t] # "new"
  PROVE  /\ t \in 1..Len(req)
         /\ req[t] \in Requests
         /\ req[t].sess \in Sessions
         /\ lockOf[t] \in LockIds
<1>1. t \in 1..Len(req)
  BY DEF TypeOK, StartedTasks, Tasks
<1>2. req[t] \in Requests
  BY <1>1 DEF TypeOK
<1>3. req[t].sess \in Sessions
  BY <1>2 DEF Requests
<1>4. lockOf[t] \in LockIds
  BY ConstantsAssumption DEF TypeOK, StartedTasks, LockIds
<1>5. QED
  BY <1>1, <1>2, <1>3, <1>4

LEMMA InitInv == Init => IInv
<1>. SUFFICES ASSUME Init PROVE IInv
  OBVIOUS
<1>1. TypeOK
  BY ConstantsAssumption DEF Init, TypeOK, Where, NoResult, Result, Tasks, LockIds
<1>2. StartedTasks
  BY ConstantsAssumption DEF Init, StartedTasks, Tasks, None
<1>3. LocksKept /\ HoldersInside /\ KnownCovers /\ NoDuplicateActive
  BY DEF Init, LocksKept, HoldersInside, KnownCovers, NoDuplicateActive,
         Holding
<1>4. QED
  BY <1>1, <1>2, <1>3 DEF IInv, LockInv

\* The parts of the state an ordinary step of the body leaves alone.
LEMMA InsideType ==
  ASSUME TypeOK, NEW t \in Tasks, NEW next \in Holding, Inside(t, next)
  PROVE  /\ pc' \in [Tasks -> Where]
         /\ req' = req /\ lockOf' = lockOf /\ registry' = registry
         /\ made' = made /\ holder' = holder /\ waiters' = waiters
         /\ fed' = fed
         /\ pc' = [pc EXCEPT ![t] = next]
BY DEF TypeOK, Inside, lockVars, Where

LEMMA ReleaseType ==
  ASSUME TypeOK, NEW t \in Tasks, Release(t)
  PROVE  /\ pc' \in [Tasks -> Where]
         /\ pc' = [pc EXCEPT ![t] = "done"]
         /\ holder' \in [LockIds -> Tasks \cup {None}]
         /\ result' \in [Tasks -> Result]
         /\ known' \in [Tasks -> SUBSET Contents]
         /\ matched' \in [Tasks -> SUBSET Facts]
BY DEF TypeOK, Release, Where, NoResult, Result

-----------------------------------------------------------------------------
(* The lock: LockInv is preserved.                                         *)

LEMMA StartLockInv ==
  ASSUME LockInv, NEW r \in Requests, Start(r)
  PROVE  LockInv'
<1>. DEFINE t == Len(req) + 1
            l == IF registry[r.sess] = None THEN made + 1 ELSE registry[r.sess]
<1>1. /\ TypeOK /\ StartedTasks /\ LocksKept /\ HoldersInside
  BY DEF LockInv
<1>2. /\ Len(req) \in Nat /\ t \in Tasks /\ t > Len(req)
      /\ r.sess \in Sessions /\ made \in Nat
  BY <1>1, ConstantsAssumption DEF TypeOK, Start, Tasks, Requests
<1>3. /\ pc[t] = "new"
      /\ \A u \in Tasks : pc[u] # "new" => u <= Len(req) /\ u # t
  BY <1>1, <1>2 DEF StartedTasks, Tasks
<1>4. /\ l \in 1..made' /\ l \in LockIds
      /\ made' \in Nat /\ made <= made' /\ made' <= t
  <2>1. registry[r.sess] \in LockIds \cup {None} /\ registry[r.sess] <= made
    BY <1>1, <1>2 DEF TypeOK, StartedTasks
  <2>2. made' = IF registry[r.sess] = None THEN made + 1 ELSE made
    BY DEF Start
  <2>3. made <= Len(req) /\ t <= MaxTasks
    BY <1>1, <1>2, ConstantsAssumption DEF StartedTasks, Tasks
  <2>4. QED
    BY <1>2, <2>1, <2>2, <2>3, ConstantsAssumption DEF LockIds, None
<1>5. /\ req' = Append(req, r)
      /\ registry' = [registry EXCEPT ![r.sess] = l]
      /\ lockOf' = [lockOf EXCEPT ![t] = l]
      /\ UNCHANGED <<graphVars, localVars, fed>>
  BY DEF Start
<1>6. \/ /\ holder[l] = None
         /\ holder' = [holder EXCEPT ![l] = t]
         /\ pc' = [pc EXCEPT ![t] = "capture"]
         /\ waiters' = waiters
      \/ /\ waiters' = [waiters EXCEPT ![l] = Append(@, t)]
         /\ pc' = [pc EXCEPT ![t] = "waiting"]
         /\ holder' = holder
  BY DEF Start, Free
<1>. HIDE DEF l
<1>7. /\ req' \in Seq(Requests) /\ Len(req') = t /\ req'[t] = r
      /\ \A u \in 1..Len(req) : req'[u] = req[u]
  BY <1>1, <1>2, <1>5, AppendProperties DEF TypeOK
<1>8. TypeOK'
  <2>1. /\ pc' \in [Tasks -> Where]
        /\ holder' \in [LockIds -> Tasks \cup {None}]
    <3>1. "capture" \in Where /\ "waiting" \in Where
      BY DEF Where, Holding
    <3>2. /\ pc \in [Tasks -> Where]
          /\ holder \in [LockIds -> Tasks \cup {None}]
      BY <1>1 DEF TypeOK
    <3>3. pc' \in [Tasks -> Where]
      BY <1>6, <3>1, <3>2
    <3>4. holder' \in [LockIds -> Tasks \cup {None}]
      BY <1>2, <1>6, <3>2
    <3>5. QED
      BY <3>3, <3>4
  <2>2. waiters' \in [LockIds -> Seq(Tasks)]
    <3>1. waiters[l] \in Seq(Tasks)
      BY <1>1, <1>4 DEF TypeOK
    <3>2. Append(waiters[l], t) \in Seq(Tasks)
      BY <1>2, <3>1, AppendProperties
    <3>3. QED
      BY <1>1, <1>4, <1>6, <3>2 DEF TypeOK
  <2>3. /\ lockOf' \in [Tasks -> LockIds \cup {None}]
        /\ registry' \in [Sessions -> LockIds \cup {None}]
    BY <1>1, <1>2, <1>4, <1>5 DEF TypeOK
  <2>4. made' \in 0..MaxTasks /\ Len(req') <= MaxTasks
    BY <1>2, <1>4, <1>7, ConstantsAssumption DEF Tasks
  <2>5. QED
    BY <1>1, <1>5, <1>7, <2>1, <2>2, <2>3, <2>4
       DEF TypeOK, graphVars, localVars
<1>9. StartedTasks'
  <2>1. \A u \in Tasks : pc'[u] = "new" <=> u > Len(req')
    <3>1. \A u \in Tasks : u # t => pc'[u] = pc[u]
      BY <1>1, <1>6 DEF TypeOK
    <3>2. pc'[t] # "new"
      BY <1>1, <1>2, <1>6 DEF TypeOK
    <3>3. QED
      BY <1>1, <1>2, <1>7, <3>1, <3>2 DEF StartedTasks, Tasks
  <2>2. \A u \in Tasks : pc'[u] # "new" => lockOf'[u] \in 1..made'
    BY <1>1, <1>2, <1>4, <1>5, <1>6 DEF TypeOK, StartedTasks
  <2>3. \A s \in Sessions : registry'[s] <= made'
    <3>1. \A s \in Sessions : registry[s] \in Nat /\ registry[s] <= made
      BY <1>1 DEF TypeOK, StartedTasks, LockIds, None
    <3>2. QED
      BY <1>1, <1>2, <1>4, <1>5, <3>1 DEF TypeOK
  <2>4. \A f \in facts' : f[1] <= Len(req')
    <3>1. \A f \in facts : f[1] \in Nat /\ f[1] <= Len(req)
      BY <1>1 DEF TypeOK, StartedTasks, Facts, Tasks
    <3>2. QED
      BY <1>2, <1>5, <1>7, <3>1 DEF graphVars
  <2>5. QED
    BY <1>4, <1>7, <2>1, <2>2, <2>3, <2>4 DEF StartedTasks
<1>10. LocksKept'
  <2>. SUFFICES ASSUME NeverPruned, NEW u \in Tasks, pc'[u] # "new"
                PROVE  lockOf'[u] = registry'[req'[u].sess]
    BY DEF LocksKept, NeverPruned
  <2>1. CASE u = t
    BY <1>1, <1>2, <1>5, <1>7, <2>1 DEF TypeOK
  <2>2. CASE u # t
    <3>1. pc[u] # "new"
      BY <1>1, <1>6, <2>2 DEF TypeOK
    <3>2. /\ req'[u] = req[u] /\ req[u].sess \in Sessions
          /\ lockOf'[u] = lockOf[u] /\ lockOf[u] \in LockIds
      BY <1>1, <1>5, <1>7, <2>2, <3>1, StartedInRange DEF TypeOK
    <3>3. lockOf[u] = registry[req[u].sess]
      BY <1>1, <3>1 DEF LocksKept
    <3>4. CASE req[u].sess = r.sess
      <4>1. registry[r.sess] # None
        BY <3>2, <3>3, <3>4 DEF LockIds, None
      <4>2. l = registry[r.sess]
        BY <4>1 DEF l
      <4>3. QED
        BY <1>1, <1>2, <1>5, <3>2, <3>3, <3>4, <4>2 DEF TypeOK
    <3>5. CASE req[u].sess # r.sess
      BY <1>1, <1>5, <3>2, <3>3, <3>5 DEF TypeOK
    <3>6. QED
      BY <3>4, <3>5
  <2>3. QED
    BY <2>1, <2>2
<1>11. HoldersInside'
  <2>. SUFFICES ASSUME NEW u \in Tasks, pc'[u] \in Holding
                PROVE  holder'[lockOf'[u]] = u
    BY DEF HoldersInside
  <2>1. CASE u = t
    <3>1. pc'[t] = "capture"
      BY <1>1, <1>2, <1>6, <2>1 DEF TypeOK, Holding
    <3>2. holder' = [holder EXCEPT ![l] = t]
      BY <1>1, <1>2, <1>6, <3>1 DEF TypeOK
    <3>3. QED
      BY <1>1, <1>2, <1>4, <1>5, <2>1, <3>2 DEF TypeOK
  <2>2. CASE u # t
    <3>1. pc[u] \in Holding /\ lockOf'[u] = lockOf[u]
      BY <1>1, <1>5, <1>6, <2>2 DEF TypeOK
    <3>2. holder[lockOf[u]] = u /\ u # None
      BY <1>1, <3>1 DEF HoldersInside, Tasks, None
    <3>3. lockOf[u] \in LockIds
      BY <1>1, <3>1, StartedInRange DEF Holding
    <3>4. QED
      BY <1>1, <1>6, <3>1, <3>2, <3>3 DEF TypeOK
  <2>3. QED
    BY <2>1, <2>2
<1>12. QED
  BY <1>8, <1>9, <1>10, <1>11 DEF LockInv

\* What the steps that only move one task between places of Where keep.
LEMMA MoveStarted ==
  ASSUME LockInv, NEW t \in Tasks, pc[t] # "new", NEW next \in Where \ {"new"},
         pc' = [pc EXCEPT ![t] = next],
         UNCHANGED <<req, lockOf, registry, made>>,
         \A f \in facts' : f \in facts \/ f[1] = t
  PROVE  /\ StartedTasks'
         /\ LocksKept'
<1>1. /\ TypeOK /\ StartedTasks /\ LocksKept
  BY DEF LockInv
<1>2. \A u \in Tasks : pc'[u] = "new" <=> pc[u] = "new"
  BY <1>1 DEF TypeOK
<1>3. t <= Len(req)
  BY <1>1, StartedInRange
<1>4. StartedTasks'
  BY <1>1, <1>2, <1>3 DEF StartedTasks
<1>5. LocksKept'
  BY <1>1, <1>2 DEF LocksKept, NeverPruned
<1>6. QED
  BY <1>4, <1>5

LEMMA AcquireLockInv ==
  ASSUME LockInv, NEW t \in Tasks, Acquire(t)
  PROVE  LockInv'
<1>. DEFINE l == lockOf[t]
<1>1. /\ TypeOK /\ StartedTasks /\ LocksKept /\ HoldersInside
  BY DEF LockInv
<1>2. /\ pc[t] = "waiting" /\ holder[l] = None /\ waiters[l] # <<>>
      /\ holder' = [holder EXCEPT ![l] = t]
      /\ waiters' = [waiters EXCEPT ![l] = Tail(@)]
      /\ pc' = [pc EXCEPT ![t] = "capture"]
      /\ UNCHANGED <<req, lockOf, registry, made, graphVars, localVars, fed>>
  BY DEF Acquire
<1>3. l \in LockIds /\ "capture" \in Where \ {"new"}
  BY <1>1, <1>2, StartedInRange DEF Where, Holding
<1>4. StartedTasks' /\ LocksKept'
  BY <1>2, <1>3, MoveStarted DEF graphVars
<1>5. TypeOK'
  <2>1. pc' \in [Tasks -> Where] /\ holder' \in [LockIds -> Tasks \cup {None}]
    BY <1>1, <1>2, <1>3 DEF TypeOK
  <2>2. waiters' \in [LockIds -> Seq(Tasks)]
    <3>1. waiters[l] \in Seq(Tasks)
      BY <1>1, <1>3 DEF TypeOK
    <3>2. Tail(waiters[l]) \in Seq(Tasks)
      BY <1>2, <3>1, HeadTailProperties
    <3>3. QED
      BY <1>1, <1>2, <3>2 DEF TypeOK
  <2>3. QED
    BY <1>1, <1>2, <2>1, <2>2 DEF TypeOK, graphVars, localVars
<1>6. HoldersInside'
  <2>. SUFFICES ASSUME NEW u \in Tasks, pc'[u] \in Holding
                PROVE  holder'[lockOf'[u]] = u
    BY DEF HoldersInside
  <2>1. CASE u = t
    BY <1>1, <1>2, <1>3, <2>1 DEF TypeOK
  <2>2. CASE u # t
    <3>1. pc[u] \in Holding
      BY <1>1, <1>2, <2>2 DEF TypeOK
    <3>2. holder[lockOf[u]] = u /\ u # None /\ lockOf[u] \in LockIds
      BY <1>1, <3>1, StartedInRange DEF HoldersInside, Holding, Tasks, None
    <3>3. QED
      BY <1>1, <1>2, <3>1, <3>2 DEF TypeOK
  <2>3. QED
    BY <2>1, <2>2
<1>7. QED
  BY <1>4, <1>5, <1>6 DEF LockInv

LEMMA LockTimeoutLockInv ==
  ASSUME LockInv, NEW t \in Tasks, LockTimeout(t)
  PROVE  LockInv'
<1>. DEFINE l == lockOf[t]
<1>1. /\ TypeOK /\ StartedTasks /\ LocksKept /\ HoldersInside
  BY DEF LockInv
<1>2. PICK i \in 1..Len(waiters[l]) :
        waiters' = [waiters EXCEPT ![l] = RemoveAt(@, i)]
  BY DEF LockTimeout
<1>3. /\ pc[t] = "waiting"
      /\ pc' = [pc EXCEPT ![t] = "done"]
      /\ UNCHANGED <<req, lockOf, registry, made, holder, graphVars, localVars,
                     fed>>
  BY DEF LockTimeout
<1>4. l \in LockIds /\ "done" \in Where \ {"new"}
  BY <1>1, <1>3, StartedInRange DEF Where
<1>5. StartedTasks' /\ LocksKept'
  BY <1>3, <1>4, MoveStarted DEF graphVars
<1>6. TypeOK'
  <2>1. pc' \in [Tasks -> Where]
    BY <1>1, <1>3, <1>4 DEF TypeOK
  <2>2. waiters' \in [LockIds -> Seq(Tasks)]
    <3>1. waiters[l] \in Seq(Tasks)
      BY <1>1, <1>4 DEF TypeOK
    <3>2. RemoveAt(waiters[l], i) \in Seq(Tasks)
      BY <3>1, RemoveAtType
    <3>3. QED
      BY <1>1, <1>2, <3>2 DEF TypeOK
  <2>3. QED
    BY <1>1, <1>3, <2>1, <2>2 DEF TypeOK, graphVars, localVars
<1>7. HoldersInside'
  BY <1>1, <1>3 DEF HoldersInside, TypeOK, Holding
<1>8. QED
  BY <1>5, <1>6, <1>7 DEF LockInv

\* The registry is pruned only when it holds more than MaxLocks sessions.
LEMMA CleanupLocksLockInv ==
  ASSUME LockInv, CleanupLocks
  PROVE  LockInv' /\ ~NeverPruned
<1>. DEFINE held == {s \in Sessions : registry[s] # None}
            Rank(s) == Cardinality({u \in held : registry[u] <= registry[s]})
<1>1. /\ TypeOK /\ StartedTasks /\ HoldersInside
  BY DEF LockInv
<1>2. /\ Cardinality(held) > MaxLocks
      /\ registry' = [s \in Sessions |->
           IF s \in held /\ Rank(s) <= Cardinality(held) \div 2
             THEN None ELSE registry[s]]
      /\ UNCHANGED <<pc, req, lockOf, made, holder, waiters, graphVars,
                     localVars, fed>>
  BY DEF CleanupLocks
<1>3. ~NeverPruned
  <2>1. Cardinality(held) <= Cardinality(Sessions)
    BY ConstantsAssumption, FS_Subset
  <2>2. IsFiniteSet(held)
    BY ConstantsAssumption, FS_Subset
  <2>3. Cardinality(held) \in Nat /\ Cardinality(Sessions) \in Nat
    BY <2>2, ConstantsAssumption, FS_CardinalityType
  <2>4. QED
    BY <1>2, <2>1, <2>3, ConstantsAssumption DEF NeverPruned
<1>4. \A s \in Sessions : registry'[s] \in {registry[s], None}
  BY <1>2
<1>. HIDE DEF held, Rank
<1>5. registry' \in [Sessions -> LockIds \cup {None}]
  BY <1>1, <1>2 DEF TypeOK
<1>6. TypeOK'
  BY <1>1, <1>2, <1>5 DEF TypeOK, graphVars, localVars
<1>7. StartedTasks'
  <2>1. \A s \in Sessions : registry'[s] <= made
    <3>1. None <= made
      BY <1>1, ConstantsAssumption DEF TypeOK, None
    <3>2. \A s \in Sessions : registry[s] <= made
      BY <1>1 DEF StartedTasks
    <3>. QED
      BY <1>4, <3>1, <3>2
  <2>2. QED
    BY <1>1, <1>2, <2>1 DEF StartedTasks, graphVars
<1>8. LocksKept' /\ HoldersInside'
  BY <1>1, <1>2, <1>3 DEF LocksKept, HoldersInside, NeverPruned
<1>9. QED
  BY <1>3, <1>6, <1>7, <1>8 DEF LockInv

\* A task that leaves gives back the lock it holds and no other.
LEMMA ReleaseLockInv ==
  ASSUME LockInv, NEW t \in Tasks, pc[t] \in Holding, Release(t),
         fed' \in SUBSET Tasks,
         UNCHANGED <<req, lockOf, registry, made, waiters, graphVars>>
  PROVE  LockInv'
<1>1. /\ TypeOK /\ StartedTasks /\ LocksKept /\ HoldersInside
  BY DEF LockInv
<1>2. /\ pc' = [pc EXCEPT ![t] = "done"]
      /\ holder' = [holder EXCEPT ![lockOf[t]] = None]
  BY DEF Release
<1>3. pc[t] # "new" /\ "done" \in Where \ {"new"}
  BY DEF Holding, Where
<1>4. StartedTasks' /\ LocksKept'
  BY <1>2, <1>3, MoveStarted DEF graphVars
<1>5. TypeOK'
  BY <1>1, ReleaseType DEF TypeOK, graphVars
<1>6. HoldersInside'
  <2>. SUFFICES ASSUME NEW u \in Tasks, pc'[u] \in Holding
                PROVE  holder'[lockOf'[u]] = u
    BY DEF HoldersInside
  <2>1. u # t /\ pc[u] \in Holding
    BY <1>1, <1>2 DEF TypeOK, Holding
  <2>2. holder[lockOf[u]] = u /\ holder[lockOf[t]] = t
    BY <1>1, <2>1 DEF HoldersInside
  <2>3. lockOf[u] \in LockIds /\ lockOf[u] # lockOf[t]
    BY <1>1, <2>1, <2>2, StartedInRange DEF Holding
  <2>4. QED
    BY <1>1, <1>2, <2>2, <2>3 DEF TypeOK
<1>7. QED
  BY <1>4, <1>5, <1>6 DEF LockInv

\* A step inside the body moves its task and stores only facts of its own.
LEMMA InsideLockInv ==
  ASSUME LockInv, NEW t \in Tasks, pc[t] \in Holding,
         NEW next \in Holding, Inside(t, next),
         facts' \in SUBSET Facts, active' \in SUBSET facts',
         supersedes' \in SUBSET (Facts \X Facts),
         result' \in [Tasks -> Result],
         known' \in [Tasks -> SUBSET Contents],
         matched' \in [Tasks -> SUBSET Facts],
         \A f \in facts' : f \in facts \/ f[1] = t
  PROVE  LockInv'
<1>1. /\ TypeOK /\ StartedTasks /\ LocksKept /\ HoldersInside
  BY DEF LockInv
<1>2. /\ pc' \in [Tasks -> Where]
      /\ req' = req /\ lockOf' = lockOf /\ registry' = registry
      /\ made' = made /\ holder' = holder /\ waiters' = waiters
      /\ fed' = fed
      /\ pc' = [pc EXCEPT ![t] = next]
  BY <1>1, InsideType
<1>3. pc[t] # "new" /\ next \in Where \ {"new"}
  BY DEF Holding, Where
<1>4. StartedTasks' /\ LocksKept'
  BY <1>2, <1>3, MoveStarted
<1>5. TypeOK'
  BY <1>1, <1>2 DEF TypeOK
<1>6. HoldersInside'
  BY <1>1, <1>2 DEF HoldersInside, TypeOK
<1>7. QED
  BY <1>4, <1>5, <1>6 DEF LockInv

-----------------------------------------------------------------------------
(* The body's steps, one by one.                                           *)

LEMMA ResultType ==
  ASSUME TypeOK, NEW t \in Tasks
  PROVE  Unique(t) \in SUBSET Facts
BY DEF TypeOK, Unique, Facts, Result

\* Invalidations only match facts of the pool, so stored ones.
LEMMA MatchType ==
  ASSUME TypeOK, NEW t \in Tasks, Match(t)
  PROVE  /\ matched' \in [Tasks -> SUBSET Facts]
         /\ \E next \in {"finish", "invalidate"} : Inside(t, next)
<1>. DEFINE all == SessionFacts(req[t].sess, active)
<1>1. PICK pool \in SUBSET all :
        LET hit == {d \in result[t].obsolete : Best(d, pool) # {}}
        IN \E pick \in [hit -> pool] :
             /\ matched' = [matched EXCEPT ![t] = {pick[d] : d \in hit}]
             /\ Inside(t, IF hit = {} THEN "finish" ELSE "invalidate")
  BY DEF Match
<1>. DEFINE hit == {d \in result[t].obsolete : Best(d, pool) # {}}
<1>2. PICK pick \in [hit -> pool] :
        /\ matched' = [matched EXCEPT ![t] = {pick[d] : d \in hit}]
        /\ Inside(t, IF hit = {} THEN "finish" ELSE "invalidate")
  BY <1>1
<1>3. all \subseteq Facts
  BY DEF SessionFacts, TypeOK
<1>. HIDE DEF hit, all
<1>4. {pick[d] : d \in hit} \subseteq Facts
  BY <1>2, <1>3
<1>5. matched' \in [Tasks -> SUBSET Facts]
  BY <1>2, <1>4 DEF TypeOK
<1>6. QED
  BY <1>2, <1>5

\* A step that leaves the body; it stores nothing.
LEMMA LeavingLockInv ==
  ASSUME LockInv, NEW t \in Tasks,
         \/ Capture(t) /\ ReturnEarly(t)
         \/ NothingSaid(t)
         \/ ExtractNothing(t)
         \/ Finish(t)
         \/ Fail(t)
  PROVE  /\ LockInv' /\ pc[t] \in Holding /\ Release(t)
         /\ UNCHANGED <<req, lockOf, graphVars>>
<1>1. TypeOK
  BY DEF LockInv
<1>2. pc[t] \in Holding
  BY DEF Capture, NothingSaid, ExtractNothing, Finish, Fail, Holding
<1>3. ReturnEarly(t) \/ ReleaseAndFeed(t)
  BY DEF NothingSaid, ExtractNothing, Finish, Fail
<1>4. /\ Release(t) /\ fed' \in SUBSET Tasks
      /\ UNCHANGED <<req, lockOf, registry, made, waiters, graphVars>>
  BY <1>1, <1>3 DEF ReturnEarly, ReleaseAndFeed, TypeOK
<1>5. LockInv'
  BY <1>2, <1>4, ReleaseLockInv
<1>6. QED
  BY <1>2, <1>4, <1>5

LEMMA CaptureSplit ==
  ASSUME NEW t \in Tasks, Capture(t)
  PROVE  \/ ReturnEarly(t)
         \/ pc[t] = "capture" /\ Inside(t, "extract")
            /\ UNCHANGED <<graphVars, localVars>>
BY DEF Capture

\* A step that stays in the body.
StaysInside(t) ==
  \/ Capture(t) /\ Inside(t, "extract") /\ UNCHANGED <<graphVars, localVars>>
  \/ Extract(t) \/ ReadHashes(t) \/ Store(t) \/ Edges(t)
  \/ Match(t) \/ Invalidate(t) \/ Supersede(t)

Leaves(t) ==
  \/ Capture(t) /\ ReturnEarly(t)
  \/ NothingSaid(t) \/ ExtractNothing(t) \/ Finish(t) \/ Fail(t)

LEMMA StepSplit ==
  ASSUME NEW t \in Tasks, Step(t)
  PROVE  StaysInside(t) \/ Leaves(t)
BY CaptureSplit DEF Step, StaysInside, Leaves

LEMMA StaysInsideLockInv ==
  ASSUME LockInv, NEW t \in Tasks, StaysInside(t)
  PROVE  LockInv' /\ pc[t] \in Holding
<1>1. TypeOK /\ pc[t] \in Holding
  BY DEF LockInv, StaysInside, Capture, Extract, ReadHashes, Store, Edges,
         Match, Invalidate, Supersede, Holding
<1>. DEFINE FactsSound ==
       /\ facts' \in SUBSET Facts /\ active' \in SUBSET facts'
       /\ supersedes' \in SUBSET (Facts \X Facts)
       /\ result' \in [Tasks -> Result]
       /\ known' \in [Tasks -> SUBSET Contents]
       /\ matched' \in [Tasks -> SUBSET Facts]
       /\ \A f \in facts' : f \in facts \/ f[1] = t
       /\ \E next \in Holding : Inside(t, next)
<1>2. CASE Inside(t, "extract") /\ UNCHANGED <<graphVars, localVars>>
  <2>1. FactsSound
    BY <1>1, <1>2 DEF TypeOK, graphVars, localVars, Holding
  <2>2. QED
    BY <1>1, <2>1, InsideLockInv
<1>3. CASE Extract(t)
  <2>1. result' \in [Tasks -> Result]
    <3>1. PICK new \in SUBSET Contents, old \in SUBSET Contents :
            result' = [result EXCEPT ![t] = [facts |-> new, obsolete |-> old]]
      BY <1>3 DEF Extract
    <3>2. [facts |-> new, obsolete |-> old] \in Result
      BY DEF Result
    <3>3. QED
      BY <1>1, <3>1, <3>2 DEF TypeOK
  <2>2. FactsSound
    BY <1>1, <1>3, <2>1 DEF TypeOK, Extract, graphVars, Holding
  <2>3. QED
    BY <1>1, <2>2, InsideLockInv
<1>4. CASE ReadHashes(t)
  <2>1. {f[2] : f \in SessionFacts(req[t].sess, active)} \subseteq Contents
    BY <1>1 DEF TypeOK, SessionFacts, Facts
  <2>2. known' \in [Tasks -> SUBSET Contents]
    BY <1>1, <1>4, <2>1 DEF TypeOK, ReadHashes
  <2>3. FactsSound
    BY <1>1, <1>4, <2>2 DEF TypeOK, ReadHashes, graphVars, Holding
  <2>4. QED
    BY <1>1, <2>3, InsideLockInv
<1>5. CASE Store(t)
  <2>1. /\ facts' = facts \cup Unique(t) /\ active' = active \cup Unique(t)
        /\ UNCHANGED <<supersedes, localVars>> /\ Inside(t, "edges")
    BY <1>5 DEF Store
  <2>2. \A f \in Unique(t) : f[1] = t
    BY DEF Unique
  <2>3. FactsSound
    <3>1. facts' \in SUBSET Facts /\ active' \in SUBSET facts'
      BY <1>1, <2>1, ResultType DEF TypeOK
    <3>2. QED
      BY <1>1, <2>1, <2>2, <3>1 DEF TypeOK, localVars, Holding
  <2>4. QED
    BY <1>1, <2>3, InsideLockInv
<1>6. CASE Edges(t)
  <2>1. Inside(t, "finish") \/ Inside(t, "match")
    BY <1>6 DEF Edges
  <2>2. FactsSound
    BY <1>1, <1>6, <2>1 DEF TypeOK, Edges, graphVars, localVars, Holding
  <2>3. QED
    BY <1>1, <2>2, InsideLockInv
<1>7. CASE Match(t)
  <2>1. FactsSound
    BY <1>1, <1>7, MatchType DEF TypeOK, Match, graphVars, Holding
  <2>2. QED
    BY <1>1, <2>1, InsideLockInv
<1>8. CASE Invalidate(t)
  <2>1. Inside(t, "supersede") \/ Inside(t, "finish")
    BY <1>8 DEF Invalidate
  <2>2. FactsSound
    BY <1>1, <1>8, <2>1 DEF TypeOK, Invalidate, localVars, Holding
  <2>3. QED
    BY <1>1, <2>2, InsideLockInv
<1>9. CASE Supersede(t)
  <2>1. PICK written \in SUBSET ((facts \cap Unique(t)) \X matched[t]) :
          supersedes' = supersedes \cup written
    BY <1>9 DEF Supersede
  <2>2. supersedes' \in SUBSET (Facts \X Facts)
    <3>1. matched[t] \subseteq Facts /\ Unique(t) \subseteq Facts
      BY <1>1, ResultType DEF TypeOK
    <3>2. QED
      BY <1>1, <2>1, <3>1 DEF TypeOK
  <2>3. FactsSound
    BY <1>1, <1>9, <2>2 DEF TypeOK, Supersede, localVars, Holding
  <2>4. QED
    BY <1>1, <2>3, InsideLockInv
<1>10. QED
  BY <1>1, <1>2, <1>3, <1>4, <1>5, <1>6, <1>7, <1>8, <1>9 DEF StaysInside

LEMMA NextLockInv == LockInv /\ [Next]_vars => LockInv'
<1>. SUFFICES ASSUME LockInv, [Next]_vars PROVE LockInv'
  OBVIOUS
<1>1. CASE \E r \in Traffic : Start(r)
  BY <1>1, StartLockInv, ConstantsAssumption
<1>2. CASE \E t \in Tasks : Acquire(t) \/ LockTimeout(t)
  BY <1>2, AcquireLockInv, LockTimeoutLockInv
<1>3. CASE \E t \in Tasks : Step(t)
  BY <1>3, StepSplit, StaysInsideLockInv, LeavingLockInv DEF Leaves
<1>4. CASE CleanupLocks
  BY <1>4, CleanupLocksLockInv
<1>5. CASE UNCHANGED vars
  BY <1>5 DEF vars, lockVars, graphVars, localVars, LockInv, TypeOK,
              StartedTasks, LocksKept, NeverPruned, HoldersInside
<1>6. QED
  BY <1>1, <1>2, <1>3, <1>4, <1>5 DEF Next

-----------------------------------------------------------------------------
(* Mutual exclusion, and what it protects.                                 *)

LEMMA LockInvExcludes ==
  ASSUME LockInv, NeverPruned
  PROVE  MutualExclusion
<1>. SUFFICES ASSUME NEW t \in Tasks, NEW u \in Tasks, SameSession(t, u),
                     pc[t] \in Holding, pc[u] \in Holding
              PROVE  t = u
  BY DEF MutualExclusion
<1>1. lockOf[t] = registry[req[t].sess] /\ lockOf[u] = registry[req[u].sess]
  BY DEF LockInv, LocksKept, Holding
<1>2. holder[lockOf[t]] = t /\ holder[lockOf[u]] = u
  BY DEF LockInv, HoldersInside
<1>3. QED
  BY <1>1, <1>2 DEF SameSession

\* Two tasks of a session with one lock are not both past it.
LEMMA OneLockExcludes ==
  ASSUME LockInv, NEW t \in Tasks, NEW u \in Tasks, SameSession(t, u),
         OneLock(req[t].sess), pc[t] \in Holding, pc[u] \in Holding
  PROVE  t = u
<1>1. t \in 1..Len(req) /\ u \in 1..Len(req)
  BY StartedInRange DEF LockInv, Holding
<1>2. lockOf[t] = lockOf[u]
  BY <1>1 DEF OneLock, SameSession
<1>3. holder[lockOf[t]] = t /\ holder[lockOf[u]] = u
  BY DEF LockInv, HoldersInside
<1>4. QED
  BY <1>2, <1>3

\* Steps that add no active fact, change no request or lock of a started task
\* and start no store.
LEMMA ShrinkingGraphInv ==
  ASSUME KnownCovers, NoDuplicateActive, LockInv,
         active' \subseteq active,
         \A f \in active : req'[f[1]] = req[f[1]],
         \A f \in active, g \in active :
            SameSession(f[1], g[1])' => SameSession(f[1], g[1]),
         \A s \in Sessions : OneLock(s)' => OneLock(s),
         \A f \in active : req[f[1]].sess \in Sessions,
         \A t \in Tasks : pc'[t] = "store" =>
            /\ pc[t] = "store" /\ known'[t] = known[t]
            /\ req'[t] = req[t] /\ req[t].sess \in Sessions
  PROVE  KnownCovers' /\ NoDuplicateActive'
<1>1. KnownCovers'
  <2>. SUFFICES ASSUME NEW t \in Tasks, pc'[t] = "store", OneLock(req[t].sess)',
                       NEW f \in active', req'[f[1]].sess = req'[t].sess
                PROVE  f[2] \in known'[t]
    BY DEF KnownCovers
  <2>1. f \in active /\ req[f[1]].sess = req[t].sess /\ OneLock(req[t].sess)
    OBVIOUS
  <2>2. QED
    BY <2>1 DEF KnownCovers
<1>2. NoDuplicateActive'
  <2>. SUFFICES ASSUME NEW f \in active', NEW g \in active',
                       SameSession(f[1], g[1])', OneLock(req[f[1]].sess)',
                       f[2] = g[2]
                PROVE  f = g
    BY DEF NoDuplicateActive
  <2>1. SameSession(f[1], g[1]) /\ OneLock(req[f[1]].sess)
    OBVIOUS
  <2>2. QED
    BY <2>1 DEF NoDuplicateActive
<1>3. QED
  BY <1>1, <1>2

\* The hashes are read: they cover what is active now.
LEMMA ReadHashesGraphInv ==
  ASSUME IInv, NEW t \in Tasks, ReadHashes(t)
  PROVE  KnownCovers' /\ NoDuplicateActive'
<1>1. /\ TypeOK /\ KnownCovers /\ NoDuplicateActive
  BY DEF IInv, LockInv
<1>2. /\ known' = [known EXCEPT ![t] =
                     {f[2] : f \in SessionFacts(req[t].sess, active)}]
      /\ pc' = [pc EXCEPT ![t] = "store"]
      /\ req' = req /\ active' = active /\ lockOf' = lockOf
  BY DEF ReadHashes, Inside, graphVars, lockVars
<1>3. KnownCovers'
  <2>. SUFFICES ASSUME NEW u \in Tasks, pc'[u] = "store", OneLock(req[u].sess),
                       NEW f \in active, req[f[1]].sess = req[u].sess
                PROVE  f[2] \in known'[u]
    BY <1>2 DEF KnownCovers, OneLock
  <2>1. CASE u = t
    BY <1>1, <1>2, <2>1 DEF TypeOK, SessionFacts
  <2>2. CASE u # t
    BY <1>1, <1>2, <2>2 DEF TypeOK, KnownCovers
  <2>3. QED
    BY <2>1, <2>2
<1>4. NoDuplicateActive'
  BY <1>1, <1>2 DEF NoDuplicateActive, SameSession, OneLock
<1>5. QED
  BY <1>3, <1>4

\* The batch is stored: nothing in it was active, nobody else is storing.
LEMMA StoreGraphInv ==
  ASSUME IInv, NEW t \in Tasks, Store(t)
  PROVE  KnownCovers' /\ NoDuplicateActive'
<1>1. /\ LockInv /\ TypeOK /\ StartedTasks /\ KnownCovers /\ NoDuplicateActive
  BY DEF IInv, LockInv
<1>2. /\ pc[t] = "store"
      /\ pc' = [pc EXCEPT ![t] = "edges"]
      /\ active' = active \cup Unique(t)
      /\ req' = req /\ known' = known /\ lockOf' = lockOf
  BY DEF Store, Inside, localVars, lockVars
<1>3. \A f \in Unique(t) : f = <<t, f[2]>> /\ f[1] = t /\ f[2] \notin known[t]
  BY DEF Unique
<1>4. t <= Len(req)
  BY <1>1, <1>2, StartedInRange
<1>5. KnownCovers'
  <2>. SUFFICES ASSUME NEW u \in Tasks, pc'[u] = "store", OneLock(req[u].sess),
                       NEW f \in active', req[f[1]].sess = req[u].sess
                PROVE  f[2] \in known[u]
    BY <1>2 DEF KnownCovers, OneLock
  <2>1. u # t /\ pc[u] = "store"
    BY <1>1, <1>2 DEF TypeOK
  <2>2. u <= Len(req)
    BY <1>1, <2>1, StartedInRange
  <2>3. f \in active
    <3>1. ASSUME f \in Unique(t) PROVE FALSE
      <4>1. SameSession(t, u) /\ OneLock(req[t].sess)
        BY <1>3, <1>4, <2>2, <3>1 DEF SameSession
      <4>2. QED
        BY <1>1, <1>2, <2>1, <4>1, OneLockExcludes DEF Holding
    <3>2. QED
      BY <1>2, <3>1
  <2>4. QED
    BY <1>1, <2>1, <2>3 DEF KnownCovers
<1>6. NoDuplicateActive'
  <2>. SUFFICES ASSUME NEW f \in active', NEW g \in active',
                       SameSession(f[1], g[1]), OneLock(req[f[1]].sess),
                       f[2] = g[2]
                PROVE  f = g
    BY <1>2 DEF NoDuplicateActive, SameSession, OneLock
  <2>1. CASE f \in active /\ g \in active
    BY <1>1, <2>1 DEF NoDuplicateActive
  <2>2. CASE f \in Unique(t) /\ g \in Unique(t)
    BY <1>3, <2>2
  <2>3. ASSUME NEW x \in active, NEW y \in Unique(t),
               SameSession(x[1], y[1]) \/ SameSession(y[1], x[1]),
               OneLock(req[x[1]].sess), x[2] = y[2]
        PROVE  FALSE
    <3>1. req[x[1]].sess = req[t].sess
      BY <1>3, <2>3 DEF SameSession
    <3>2. x[2] \in known[t]
      BY <1>1, <1>2, <2>3, <3>1 DEF KnownCovers
    <3>3. QED
      BY <1>3, <2>3, <3>2
  <2>4. OneLock(req[g[1]].sess)
    BY DEF SameSession
  <2>5. QED
    BY <1>2, <2>1, <2>2, <2>3, <2>4
<1>7. QED
  BY <1>5, <1>6

LEMMA NextGraphInv == IInv /\ [Next]_vars => KnownCovers' /\ NoDuplicateActive'
<1>. SUFFICES ASSUME IInv, [Next]_vars PROVE KnownCovers' /\ NoDuplicateActive'
  OBVIOUS
<1>1. /\ LockInv /\ TypeOK /\ StartedTasks /\ KnownCovers /\ NoDuplicateActive
  BY DEF IInv, LockInv
<1>. DEFINE InSessions ==
              /\ \A f \in active : req[f[1]].sess \in Sessions
              /\ \A t \in Tasks : pc[t] = "store" => req[t].sess \in Sessions
<1>a. InSessions
  <2>1. \A f \in active : f[1] \in 1..Len(req)
    BY <1>1 DEF TypeOK, StartedTasks, Facts, Tasks
  <2>2. \A i \in 1..Len(req) : req[i].sess \in Sessions
    <3>1. req \in Seq(Requests)
      BY <1>1 DEF TypeOK
    <3>2. \A i \in 1..Len(req) : req[i] \in Requests
      BY <3>1
    <3>3. QED
      BY <3>2 DEF Requests
  <2>3. \A t \in Tasks : pc[t] = "store" => req[t].sess \in Sessions
    BY <1>1, StartedInRange
  <2>4. QED
    BY <2>1, <2>2, <2>3
<1>2. ASSUME req' = req, lockOf' = lockOf, active' \subseteq active,
             \A t \in Tasks : pc'[t] = "store" =>
               pc[t] = "store" /\ known'[t] = known[t]
      PROVE  KnownCovers' /\ NoDuplicateActive'
  BY <1>1, <1>a, <1>2, ShrinkingGraphInv DEF SameSession, OneLock
<1>3. ASSUME NEW t \in Tasks, NEW next \in Where \ {"store"},
             pc' = [pc EXCEPT ![t] = next], req' = req, lockOf' = lockOf,
             active' \subseteq active,
             \A u \in Tasks : u # t => known'[u] = known[u]
      PROVE  KnownCovers' /\ NoDuplicateActive'
  <2>1. \A u \in Tasks : pc'[u] = "store" => pc[u] = "store" /\ known'[u] = known[u]
    BY <1>1, <1>3 DEF TypeOK
  <2>2. QED
    BY <1>2, <1>3, <2>1
<1>4. ASSUME NEW r \in Requests, Start(r)
      PROVE  KnownCovers' /\ NoDuplicateActive'
  <2>. DEFINE t == Len(req) + 1
  <2>1. /\ req' = Append(req, r) /\ active' = active /\ known' = known
        /\ \/ pc' = [pc EXCEPT ![t] = "capture"]
           \/ pc' = [pc EXCEPT ![t] = "waiting"]
    BY <1>4 DEF Start, graphVars, localVars
  <2>2. /\ Len(req) \in Nat /\ Len(req') = t
        /\ \A u \in 1..Len(req) : req'[u] = req[u]
    BY <1>1, <1>4, <2>1, AppendProperties DEF TypeOK
  <2>3. \A u \in Tasks : pc'[u] = "store" => pc[u] = "store"
    BY <1>1, <2>1 DEF TypeOK
  <2>4. \A u \in Tasks : pc[u] = "store" => u \in 1..Len(req)
    BY <1>1, StartedInRange
  <2>5. \A f \in active : f[1] \in 1..Len(req)
    BY <1>1 DEF TypeOK, StartedTasks, Facts, Tasks
  <2>6. \A f \in active, g \in active :
          SameSession(f[1], g[1])' => SameSession(f[1], g[1])
    BY <2>2, <2>5 DEF SameSession
  <2>. HIDE DEF t
  <2>7. \A s \in Sessions : OneLock(s)' => OneLock(s)
    <3>1. \A u \in 1..Len(req) : lockOf'[u] = lockOf[u] /\ u \in 1..Len(req')
      BY <1>1, <1>4, <2>2 DEF Start, TypeOK, Tasks, t
    <3>2. QED
      BY <2>2, <3>1 DEF OneLock
  <2>8. QED
    BY <1>1, <1>a, <2>1, <2>2, <2>3, <2>4, <2>5, <2>6, <2>7, ShrinkingGraphInv
<1>5. ASSUME NEW t \in Tasks, Acquire(t) \/ LockTimeout(t)
      PROVE  KnownCovers' /\ NoDuplicateActive'
  <2>1. /\ \/ pc' = [pc EXCEPT ![t] = "capture"]
           \/ pc' = [pc EXCEPT ![t] = "done"]
        /\ req' = req /\ lockOf' = lockOf /\ active' = active
        /\ known' = known
    BY <1>5 DEF Acquire, LockTimeout, graphVars, localVars
  <2>2. QED
    BY <1>3, <2>1 DEF Where, Holding
<1>6. ASSUME NEW t \in Tasks, Leaves(t)
      PROVE  KnownCovers' /\ NoDuplicateActive'
  <2>1. Release(t) /\ UNCHANGED <<req, lockOf, graphVars>>
    BY <1>1, <1>6, LeavingLockInv DEF Leaves
  <2>2. /\ pc' = [pc EXCEPT ![t] = "done"] /\ req' = req /\ lockOf' = lockOf /\ active' = active
        /\ known' = [known EXCEPT ![t] = {}]
    BY <2>1 DEF Release, graphVars
  <2>3. \A u \in Tasks : u # t => known'[u] = known[u]
    BY <1>1, <2>2 DEF TypeOK
  <2>4. QED
    BY <1>3, <2>2, <2>3 DEF Where
<1>7. ASSUME NEW t \in Tasks, StaysInside(t)
      PROVE  KnownCovers' /\ NoDuplicateActive'
  <2>1. CASE ReadHashes(t)
    BY <2>1, ReadHashesGraphInv
  <2>2. CASE Store(t)
    BY <2>2, StoreGraphInv
  <2>3. CASE ~ReadHashes(t) /\ ~Store(t)
    <3>1. /\ req' = req /\ lockOf' = lockOf /\ active' \subseteq active
          /\ known' = known
          /\ \E next \in Holding \ {"store"} : pc' = [pc EXCEPT ![t] = next]
      <4>1. CASE Match(t)
        BY <1>1, <4>1, MatchType DEF Match, Inside, graphVars, lockVars, Holding
      <4>2. CASE \/ Inside(t, "extract") /\ UNCHANGED <<graphVars, localVars>>
                 \/ Extract(t) \/ Edges(t)
        BY <4>2 DEF Extract, Edges, Inside, graphVars, localVars, lockVars, Holding
      <4>3. CASE Invalidate(t) \/ Supersede(t)
        BY <4>3 DEF Invalidate, Supersede, Inside, localVars, lockVars, Holding
      <4>4. QED
        BY <1>7, <2>3, <4>1, <4>2, <4>3 DEF StaysInside
    <3>2. QED
      BY <1>3, <3>1 DEF Where
  <2>4. QED
    BY <2>1, <2>2, <2>3
<1>8. CASE CleanupLocks
  BY <1>2, <1>8 DEF CleanupLocks, graphVars, localVars
<1>9. CASE UNCHANGED vars
  BY <1>2, <1>9 DEF vars, graphVars, localVars, lockVars
<1>10. QED
  BY <1>4, <1>5, <1>6, <1>7, <1>8, <1>9, StepSplit, ConstantsAssumption DEF Next

-----------------------------------------------------------------------------
(* The lock is never leaked: its holder is a task past it.                 *)

HoldersLive ==
  \A l \in LockIds :
    holder[l] # None => pc[holder[l]] \in Holding /\ lockOf[holder[l]] = l

\* What the steps that leave the holders alone keep, as long as no task past
\* its lock leaves or changes locks.
LEMMA SameHoldersLive ==
  ASSUME LockInv, HoldersLive, holder' = holder,
         \A u \in Tasks : pc[u] \in Holding =>
           pc'[u] \in Holding /\ lockOf'[u] = lockOf[u]
  PROVE  HoldersLive'
<1>. SUFFICES ASSUME NEW l \in LockIds, holder[l] # None
              PROVE  pc'[holder[l]] \in Holding /\ lockOf'[holder[l]] = l
  BY DEF HoldersLive
<1>1. holder[l] \in Tasks
  BY DEF LockInv, TypeOK
<1>2. pc[holder[l]] \in Holding /\ lockOf[holder[l]] = l
  BY DEF HoldersLive
<1>3. QED
  BY <1>1, <1>2

LEMMA StartHoldersLive ==
  ASSUME LockInv, HoldersLive, NEW r \in Requests, Start(r)
  PROVE  HoldersLive'
<1>. DEFINE t == Len(req) + 1
            l == IF registry[r.sess] = None THEN made + 1 ELSE registry[r.sess]
<1>1. TypeOK /\ StartedTasks
  BY DEF LockInv
<1>2. t \in Tasks /\ pc[t] = "new"
  <2>1. Len(req) \in Nat
    BY <1>1 DEF TypeOK
  <2>2. QED
    BY <1>1, <2>1, ConstantsAssumption DEF Start, Tasks, StartedTasks
<1>3. /\ lockOf' = [lockOf EXCEPT ![t] = l]
      /\ \/ /\ holder' = [holder EXCEPT ![l] = t]
            /\ pc' = [pc EXCEPT ![t] = "capture"]
         \/ /\ holder' = holder
            /\ pc' = [pc EXCEPT ![t] = "waiting"]
  BY DEF Start
<1>. HIDE DEF t, l
<1>4. \A u \in Tasks : pc[u] \in Holding =>
        u # t /\ pc'[u] \in Holding /\ lockOf'[u] = lockOf[u]
  BY <1>1, <1>2, <1>3 DEF TypeOK, Holding
<1>5. CASE holder' = holder
  BY <1>4, <1>5, SameHoldersLive
<1>6. CASE holder' = [holder EXCEPT ![l] = t] /\ pc' = [pc EXCEPT ![t] = "capture"]
  <2>. SUFFICES ASSUME NEW k \in LockIds, holder'[k] # None
                PROVE  pc'[holder'[k]] \in Holding /\ lockOf'[holder'[k]] = k
    BY DEF HoldersLive
  <2>1. CASE k = l
    <3>1. holder'[k] = t
      BY <1>1, <1>6, <2>1 DEF TypeOK
    <3>2. pc'[t] = "capture" /\ lockOf'[t] = k
      BY <1>1, <1>2, <1>3, <1>6, <2>1 DEF TypeOK
    <3>3. QED
      BY <3>1, <3>2 DEF Holding
  <2>2. CASE k # l
    <3>1. holder'[k] = holder[k] /\ holder[k] \in Tasks
      BY <1>1, <1>6, <2>2 DEF TypeOK
    <3>2. pc[holder[k]] \in Holding /\ lockOf[holder[k]] = k
      BY <3>1 DEF HoldersLive
    <3>3. QED
      BY <1>4, <3>1, <3>2
  <2>3. QED
    BY <2>1, <2>2
<1>7. QED
  BY <1>3, <1>5, <1>6

LEMMA AcquireHoldersLive ==
  ASSUME LockInv, HoldersLive, NEW t \in Tasks, Acquire(t)
  PROVE  HoldersLive'
<1>1. /\ pc[t] = "waiting"
      /\ holder' = [holder EXCEPT ![lockOf[t]] = t]
      /\ pc' = [pc EXCEPT ![t] = "capture"]
      /\ lockOf' = lockOf
  BY DEF Acquire
<1>2. TypeOK
  BY DEF LockInv
<1>3. \A u \in Tasks : pc[u] \in Holding => u # t /\ pc'[u] \in Holding
  BY <1>1, <1>2 DEF TypeOK, Holding
<1>. SUFFICES ASSUME NEW l \in LockIds, holder'[l] # None
              PROVE  pc'[holder'[l]] \in Holding /\ lockOf[holder'[l]] = l
  BY <1>1 DEF HoldersLive
<1>4. CASE l = lockOf[t]
  <2>1. holder'[l] = t /\ pc'[t] = "capture"
    BY <1>1, <1>2, <1>4 DEF TypeOK
  <2>2. QED
    BY <1>4, <2>1 DEF Holding
<1>5. CASE l # lockOf[t]
  <2>1. holder'[l] = holder[l] /\ holder[l] \in Tasks
    BY <1>1, <1>2, <1>5 DEF TypeOK
  <2>2. pc[holder[l]] \in Holding /\ lockOf[holder[l]] = l
    BY <2>1 DEF HoldersLive
  <2>3. QED
    BY <1>3, <2>1, <2>2
<1>6. QED
  BY <1>4, <1>5

LEMMA ReleaseHoldersLive ==
  ASSUME LockInv, HoldersLive, NEW t \in Tasks, pc[t] \in Holding,
         Release(t), lockOf' = lockOf
  PROVE  HoldersLive'
<1>1. /\ pc' = [pc EXCEPT ![t] = "done"]
      /\ holder' = [holder EXCEPT ![lockOf[t]] = None]
  BY DEF Release
<1>2. TypeOK
  BY DEF LockInv
<1>. SUFFICES ASSUME NEW l \in LockIds, holder'[l] # None
              PROVE  pc'[holder'[l]] \in Holding /\ lockOf[holder'[l]] = l
  BY DEF HoldersLive
<1>3. l # lockOf[t] /\ holder'[l] = holder[l] /\ holder[l] \in Tasks
  BY <1>1, <1>2 DEF TypeOK
<1>4. pc[holder[l]] \in Holding /\ lockOf[holder[l]] = l
  BY <1>3 DEF HoldersLive
<1>5. QED
  BY <1>1, <1>2, <1>3, <1>4 DEF TypeOK

LEMMA NextHoldersLive ==
  LockInv /\ HoldersLive /\ [Next]_vars => HoldersLive'
<1>. SUFFICES ASSUME LockInv, HoldersLive, [Next]_vars PROVE HoldersLive'
  OBVIOUS
<1>1. CASE \E r \in Traffic : Start(r)
  BY <1>1, StartHoldersLive, ConstantsAssumption
<1>2. CASE \E t \in Tasks : Acquire(t)
  BY <1>2, AcquireHoldersLive
<1>3. ASSUME NEW t \in Tasks, LockTimeout(t)
      PROVE  HoldersLive'
  <2>1. \A u \in Tasks : pc[u] \in Holding => pc'[u] \in Holding
    BY <1>3 DEF LockTimeout, LockInv, TypeOK, Holding
  <2>2. QED
    BY <1>3, <2>1, SameHoldersLive DEF LockTimeout
<1>4. ASSUME NEW t \in Tasks, StaysInside(t)
      PROVE  HoldersLive'
  <2>1. \E next \in Holding : Inside(t, next)
    BY <1>4 DEF StaysInside, Extract, ReadHashes, Store, Edges, Match,
                Invalidate, Supersede, Holding
  <2>2. /\ holder' = holder /\ lockOf' = lockOf
        /\ \E next \in Holding : pc' = [pc EXCEPT ![t] = next]
    BY <2>1 DEF Inside, lockVars
  <2>3. \A u \in Tasks : pc[u] \in Holding => pc'[u] \in Holding
    BY <2>2 DEF LockInv, TypeOK
  <2>4. QED
    BY <2>2, <2>3, SameHoldersLive
<1>5. ASSUME NEW t \in Tasks, Leaves(t)
      PROVE  HoldersLive'
  BY <1>5, LeavingLockInv, ReleaseHoldersLive DEF Leaves
<1>6. CASE CleanupLocks
  BY <1>6, SameHoldersLive DEF CleanupLocks
<1>7. CASE UNCHANGED vars
  BY <1>7, SameHoldersLive DEF vars, lockVars
<1>8. QED
  BY <1>1, <1>2, <1>3, <1>4, <1>5, <1>6, <1>7, StepSplit DEF Next

-----------------------------------------------------------------------------
(* The theorems.                                                           *)

\* IInv holds in every reachable state.
THEOREM Invariant == Spec => []IInv
<1>1. IInv /\ [Next]_vars => IInv'
  BY NextLockInv, NextGraphInv DEF IInv
<1>2. QED
  BY <1>1, InitInv, PTL DEF Spec

\* Type correctness of the extraction tasks, their locks and the fact store.
THEOREM TypeCorrect == Spec => []TypeOK
<1>1. IInv => TypeOK
  BY DEF IInv, LockInv
<1>2. QED
  BY <1>1, Invariant, PTL

\* Each lock admits one task at a time and is never leaked: whoever is recorded
\* as its holder is past it and running, after every timeout, early return and
\* exception, and also when cleanup_stale_locks prunes locks in use.
THEOREM LockDiscipline == Spec => []LockHonoured
<1>1. Init => HoldersLive
  BY DEF Init, HoldersLive
<1>2. IInv /\ HoldersLive /\ [Next]_vars => HoldersLive'
  BY NextHoldersLive DEF IInv
<1>3. IInv /\ HoldersLive => LockHonoured
  <2>. SUFFICES ASSUME IInv, HoldersLive PROVE LockHonoured
    OBVIOUS
  <2>1. HoldersInside
    BY DEF IInv, LockInv
  <2>2. \A t, u \in Tasks :
          pc[t] \in Holding /\ pc[u] \in Holding /\ lockOf[t] = lockOf[u]
            => t = u
    BY <2>1 DEF HoldersInside
  <2>3. QED
    BY <2>2 DEF LockHonoured, HoldersLive
<1>4. QED
  BY <1>1, <1>2, <1>3, Invariant, PTL DEF Spec

\* Two extractions of one session never run at once, whatever times out,
\* fails or returns early, as long as cleanup_stale_locks never prunes.
THEOREM Exclusion == NeverPruned => (Spec => []MutualExclusion)
<1>. SUFFICES ASSUME NeverPruned PROVE Spec => []MutualExclusion
  OBVIOUS
<1>1. IInv => MutualExclusion
  BY LockInvExcludes DEF IInv
<1>2. QED
  BY <1>1, Invariant, PTL

\* With no proviso at all: the active facts of a session whose extractions
\* shared one lock all say different things.
THEOREM NoDuplicateFacts == Spec => []NoDuplicateActive
<1>1. IInv => NoDuplicateActive
  BY DEF IInv
<1>2. QED
  BY <1>1, Invariant, PTL

-----------------------------------------------------------------------------
(* The queue of a lock: it is in the order the tasks started, and whoever  *)
(* waits is in it.                                                         *)

Ordered(q, n) == /\ \A i \in 1..Len(q) : q[i] <= n
                 /\ \A i, j \in 1..Len(q) : i < j => q[i] < q[j]
InLine(q, t)  == \E i \in 1..Len(q) : q[i] = t

\* The queue r is q after its i-th task left.
Left(r, q, i) ==
  /\ r \in Seq(Tasks) /\ Len(r) = Len(q) - 1
  /\ \A j \in 1..Len(r) : r[j] = IF j < i THEN q[j] ELSE q[j + 1]

QueueInv ==
  /\ \A l \in LockIds : Ordered(waiters[l], Len(req))
  /\ \A t \in Tasks : pc[t] = "waiting" => InLine(waiters[lockOf[t]], t)

LEMMA InNat ==
  ASSUME NEW q \in Seq(Tasks), NEW i \in 1..Len(q)
  PROVE  q[i] \in Tasks /\ q[i] \in Nat
<1>1. q[i] \in Tasks
  OBVIOUS
<1>2. QED
  BY <1>1 DEF Tasks

\* A queue stays in order when a later task joins it, and nobody else leaves.
LEMMA JoinsLine ==
  ASSUME NEW q \in Seq(Tasks), NEW n \in Nat, n + 1 \in Tasks, Ordered(q, n)
  PROVE  /\ Ordered(Append(q, n + 1), n + 1)
         /\ InLine(Append(q, n + 1), n + 1)
         /\ \A t \in Tasks : InLine(q, t) => InLine(Append(q, n + 1), t)
<1>. DEFINE r == Append(q, n + 1)
<1>1. Len(r) = Len(q) + 1 /\ r[Len(q) + 1] = n + 1 /\ \A i \in 1..Len(q) : r[i] = q[i]
  OBVIOUS
<1>2. \A i \in 1..Len(q) : q[i] \in Nat
  BY InNat
<1>. HIDE DEF r
<1>3. Ordered(r, n + 1)
  BY <1>1, <1>2 DEF Ordered
<1>4. InLine(r, n + 1) /\ \A t \in Tasks : InLine(q, t) => InLine(r, t)
  BY <1>1 DEF InLine
<1>5. QED
  BY <1>3, <1>4 DEF r

\* It stays in order when the i-th leaves, and again nobody else leaves.
LEMMA LeavesLine ==
  ASSUME NEW q \in Seq(Tasks), NEW n \in Nat, Ordered(q, n), NEW i \in 1..Len(q),
         NEW r, Left(r, q, i)
  PROVE  /\ Ordered(r, n)
         /\ \A t \in Tasks : InLine(q, t) /\ t # q[i] => InLine(r, t)
<1>1. Ordered(r, n)
  <2>1. \A j \in 1..Len(q) : q[j] \in Nat
    BY InNat
  <2>2. \A j \in 1..Len(r) : \E k \in {j, j + 1} :
          k \in 1..Len(q) /\ r[j] = q[k] /\ (k = j <=> j < i)
    BY DEF Left
  <2>3. \A j \in 1..Len(r) : r[j] <= n
    BY <2>2 DEF Ordered
  <2>4. ASSUME NEW j \in 1..Len(r), NEW k \in 1..Len(r), j < k
        PROVE  r[j] < r[k]
    <3>1. PICK x \in {j, j + 1} : x \in 1..Len(q) /\ r[j] = q[x] /\ (x = j <=> j < i)
      BY <2>2
    <3>2. PICK y \in {k, k + 1} : y \in 1..Len(q) /\ r[k] = q[y] /\ (y = k <=> k < i)
      BY <2>2
    <3>3. x < y
      BY <2>4, <3>1, <3>2
    <3>4. QED
      BY <3>1, <3>2, <3>3 DEF Ordered
  <2>5. QED
    BY <2>3, <2>4 DEF Ordered
<1>2. ASSUME NEW j \in 1..Len(q), j # i
      PROVE  \E k \in 1..Len(r) : r[k] = q[j]
  <2>1. CASE j < i
    <3>1. j \in 1..Len(r)
      BY <2>1 DEF Left
    <3>2. r[j] = q[j]
      BY <2>1, <3>1 DEF Left
    <3>3. QED
      BY <3>1, <3>2
  <2>2. CASE j > i
    <3>1. PICK k : k = j - 1
      OBVIOUS
    <3>2. k \in 1..Len(r) /\ ~(k < i) /\ k + 1 = j
      BY <2>2, <3>1 DEF Left
    <3>3. r[k] = q[k + 1]
      BY <3>2 DEF Left
    <3>4. QED
      BY <3>2, <3>3
  <2>3. QED
    BY <1>2, <2>1, <2>2
<1>3. QED
  BY <1>1, <1>2 DEF InLine

LEMMA RemoveAtLine ==
  ASSUME NEW q \in Seq(Tasks), NEW i \in 1..Len(q)
  PROVE  Left(RemoveAt(q, i), q, i)
<1>. DEFINE a == SubSeq(q, 1, i - 1)
            b == SubSeq(q, i + 1, Len(q))
<1>1. a \in Seq(Tasks) /\ Len(a) = i - 1 /\ \A j \in 1..Len(a) : a[j] = q[j]
  BY SubSeqProperties
<1>2. b \in Seq(Tasks) /\ Len(b) = Len(q) - i /\ \A j \in 1..Len(b) : b[j] = q[i + j]
  BY SubSeqProperties
<1>3. RemoveAt(q, i) = a \o b
  BY DEF RemoveAt
<1>. HIDE DEF a, b
<1>4. /\ a \o b \in Seq(Tasks) /\ Len(a \o b) = Len(a) + Len(b)
      /\ \A j \in 1..(Len(a) + Len(b)) :
           (a \o b)[j] = IF j <= Len(a) THEN a[j] ELSE b[j - Len(a)]
  BY <1>1, <1>2, ConcatProperties
<1>5. ASSUME NEW j \in 1..(Len(q) - 1)
      PROVE  (a \o b)[j] = IF j < i THEN q[j] ELSE q[j + 1]
  <2>1. CASE j < i
    BY <1>1, <1>2, <1>4, <2>1
  <2>2. CASE ~(j < i)
    <3>1. j - (i - 1) \in 1..Len(b) /\ i + (j - (i - 1)) = j + 1
      BY <1>2, <2>2
    <3>2. b[j - (i - 1)] = q[j + 1]
      BY <1>2, <3>1
    <3>3. QED
      BY <1>1, <1>2, <1>4, <2>2, <3>2
  <2>3. QED
    BY <2>1, <2>2
<1>6. Len(a) + Len(b) = Len(q) - 1
  BY <1>1, <1>2
<1>7. QED
  BY <1>3, <1>4, <1>5, <1>6 DEF Left

\* What changes the queue of one lock only.
LEMMA QueueFrame ==
  ASSUME LockInv, QueueInv, NEW l \in LockIds, Len(req) <= Len(req'),
         Ordered(waiters'[l], Len(req')),
         \A k \in LockIds \ {l} : waiters'[k] = waiters[k],
         \A t \in Tasks : pc'[t] = "waiting" =>
           \/ lockOf'[t] # l /\ lockOf'[t] = lockOf[t] /\ pc[t] = "waiting"
           \/ lockOf'[t] = l /\ InLine(waiters'[l], t)
  PROVE  QueueInv'
<1>1. TypeOK /\ StartedTasks
  BY DEF LockInv
<1>2. \A k \in LockIds : Ordered(waiters'[k], Len(req'))
  <2>1. ASSUME NEW k \in LockIds \ {l} PROVE Ordered(waiters'[k], Len(req'))
    <3>. DEFINE q == waiters[k]
    <3>0. q \in Seq(Tasks)
      BY <1>1 DEF TypeOK
    <3>1. \A i \in 1..Len(q) : q[i] \in Nat
      BY <3>0, InNat
    <3>2. Ordered(q, Len(req)) /\ waiters'[k] = q
      BY DEF QueueInv
    <3>3. PICK n, m : n = Len(req) /\ m = Len(req')
      OBVIOUS
    <3>4. n \in Nat /\ (m \in Int => n <= m) /\ n <= m
      BY <1>1, <3>3 DEF TypeOK
    <3>. HIDE DEF q
    <3>5. QED
      BY <3>1, <3>2, <3>3, <3>4 DEF Ordered
  <2>2. QED
    BY <2>1
<1>3. ASSUME NEW t \in Tasks, pc'[t] = "waiting"
      PROVE  InLine(waiters'[lockOf'[t]], t)
  <2>1. CASE lockOf'[t] # l /\ lockOf'[t] = lockOf[t] /\ pc[t] = "waiting"
    <3>1. lockOf[t] \in LockIds
      BY <1>1, <2>1, StartedInRange
    <3>2. QED
      BY <2>1, <3>1 DEF QueueInv
  <2>2. QED
    BY <1>3, <2>1
<1>4. QED
  BY <1>2, <1>3 DEF QueueInv

LEMMA StartQueueInv ==
  ASSUME LockInv, QueueInv, NEW r \in Requests, Start(r)
  PROVE  QueueInv'
<1>1. TypeOK /\ StartedTasks
  BY DEF LockInv
<1>2. PICK n, t, l : /\ n = Len(req) /\ t = n + 1
                     /\ l = IF registry[r.sess] = None THEN made + 1 ELSE registry[r.sess]
  OBVIOUS
<1>3. /\ n \in Nat /\ t \in Tasks /\ l \in LockIds
      /\ req' = Append(req, r) /\ Len(req') = t
      /\ lockOf' = [lockOf EXCEPT ![t] = l]
  <2>1. n \in Nat /\ t <= MaxTasks /\ req' = Append(req, r) /\ lockOf' = [lockOf EXCEPT ![t] = l]
    BY <1>1, <1>2 DEF TypeOK, Start
  <2>2. Len(req') = t
    BY <1>1, <1>2, <2>1 DEF TypeOK
  <2>3. made <= n
    BY <1>1, <1>2 DEF StartedTasks
  <2>4. l \in LockIds
    BY <1>1, <1>2, <2>1, <2>3, ConstantsAssumption DEF TypeOK, Requests, LockIds, None
  <2>5. QED
    BY <1>2, <2>1, <2>2, <2>4, ConstantsAssumption DEF Tasks
<1>4. pc[t] = "new"
  BY <1>1, <1>2, <1>3 DEF StartedTasks
<1>5. \/ waiters' = waiters /\ pc' = [pc EXCEPT ![t] = "capture"]
      \/ /\ waiters' = [waiters EXCEPT ![l] = Append(@, t)]
         /\ pc' = [pc EXCEPT ![t] = "waiting"]
  BY <1>2 DEF Start
<1>6. PICK q : q = waiters[l] /\ q \in Seq(Tasks) /\ Ordered(q, n)
  BY <1>1, <1>2, <1>3 DEF TypeOK, QueueInv
<1>7. /\ Ordered(Append(q, t), t)
      /\ InLine(Append(q, t), t)
      /\ \A u \in Tasks : InLine(q, u) => InLine(Append(q, t), u)
  BY <1>2, <1>3, <1>6, JoinsLine
<1>8. Ordered(q, t)
  BY <1>2, <1>3, <1>6, InNat DEF Ordered
<1>9. waiters'[l] \in {q, Append(q, t)} /\ \A k \in LockIds \ {l} : waiters'[k] = waiters[k]
  BY <1>1, <1>3, <1>5, <1>6 DEF TypeOK
<1>10. Ordered(waiters'[l], Len(req'))
  BY <1>3, <1>7, <1>8, <1>9
<1>11. ASSUME NEW u \in Tasks, pc'[u] = "waiting"
       PROVE  \/ lockOf'[u] # l /\ lockOf'[u] = lockOf[u] /\ pc[u] = "waiting"
              \/ lockOf'[u] = l /\ InLine(waiters'[l], u)
  <2>1. CASE u = t
    BY <1>1, <1>3, <1>5, <1>6, <1>7, <1>11, <2>1 DEF TypeOK
  <2>2. CASE u # t
    <3>1. lockOf'[u] = lockOf[u] /\ pc[u] = "waiting"
      BY <1>1, <1>3, <1>5, <1>11, <2>2 DEF TypeOK
    <3>2. InLine(waiters[lockOf[u]], u)
      BY <3>1 DEF QueueInv
    <3>3. CASE lockOf[u] = l
      BY <1>6, <1>7, <1>9, <3>1, <3>2, <3>3
    <3>4. QED
      BY <3>1, <3>3
  <2>3. QED
    BY <2>1, <2>2
<1>12. Len(req) <= Len(req')
  BY <1>2, <1>3
<1>13. QED
  BY <1>3, <1>9, <1>10, <1>11, <1>12, QueueFrame

\* A waiting task leaves the queue, into the lock or for good.
LEMMA LeavingQueueInv ==
  ASSUME LockInv, QueueInv, NEW t \in Tasks, pc[t] = "waiting",
         NEW next \in Where \ {"waiting"}, pc' = [pc EXCEPT ![t] = next],
         UNCHANGED <<req, lockOf>>,
         NEW p, p = waiters[lockOf[t]], NEW i \in 1..Len(p), p[i] = t,
         NEW q, Left(q, p, i),
         waiters' = [waiters EXCEPT ![lockOf[t]] = q]
  PROVE  QueueInv'
<1>1. TypeOK /\ StartedTasks
  BY DEF LockInv
<1>2. lockOf[t] \in LockIds
  BY <1>1, StartedInRange
<1>3. PICK l, n : l = lockOf[t] /\ p = waiters[l] /\ n = Len(req)
  OBVIOUS
<1>4. l \in LockIds /\ p \in Seq(Tasks) /\ n \in Nat /\ Ordered(p, n)
  BY <1>1, <1>2, <1>3 DEF TypeOK, QueueInv
<1>5. Ordered(q, n) /\ \A u \in Tasks : InLine(p, u) /\ u # p[i] => InLine(q, u)
  BY <1>3, <1>4, LeavesLine
<1>6. waiters'[l] = q /\ \A k \in LockIds \ {l} : waiters'[k] = waiters[k]
  BY <1>1, <1>3, <1>4 DEF TypeOK
<1>7. ASSUME NEW u \in Tasks, pc'[u] = "waiting"
      PROVE  \/ lockOf'[u] # l /\ lockOf'[u] = lockOf[u] /\ pc[u] = "waiting"
             \/ lockOf'[u] = l /\ InLine(waiters'[l], u)
  <2>1. u # t /\ pc[u] = "waiting" /\ lockOf'[u] = lockOf[u]
    BY <1>1, <1>7 DEF TypeOK
  <2>2. InLine(waiters[lockOf[u]], u)
    BY <2>1 DEF QueueInv
  <2>3. QED
    BY <1>3, <1>5, <1>6, <2>1, <2>2
<1>8. Ordered(waiters'[l], Len(req')) /\ Len(req) <= Len(req')
  BY <1>3, <1>4, <1>5, <1>6
<1>9. QED
  BY <1>4, <1>6, <1>7, <1>8, QueueFrame

\* The first of a queue.
LEMMA HeadOfLine ==
  ASSUME NEW q \in Seq(Tasks), q # <<>>
  PROVE  1 \in 1..Len(q) /\ q[1] = Head(q) /\ Left(Tail(q), q, 1)
BY DEF Left

\* What the steps of the body and of the cleanup leave alone.
LEMMA QuietQueue ==
  ASSUME NEW t \in Tasks, Step(t), LockInv
  PROVE  /\ UNCHANGED <<req, lockOf, waiters>>
         /\ pc[t] \in Holding /\ \E next \in Holding \cup {"done"} : pc' = [pc EXCEPT ![t] = next]
<1>1. CASE StaysInside(t)
  <2>1. \E next \in Holding : Inside(t, next) /\ pc[t] \in Holding
    BY <1>1 DEF StaysInside, Capture, Extract, ReadHashes, Store, Edges, Match, Invalidate,
                Supersede, Holding
  <2>2. QED
    BY <2>1 DEF Inside, lockVars
<1>2. CASE Leaves(t)
  BY <1>2 DEF Leaves, Capture, NothingSaid, ExtractNothing, Finish, Fail, ReturnEarly,
              ReleaseAndFeed, Release, Holding
<1>3. QED
  BY <1>1, <1>2, StepSplit

LEMMA NextQueueInv == LockInv /\ QueueInv /\ [Next]_vars => QueueInv'
<1>. SUFFICES ASSUME LockInv, QueueInv, [Next]_vars PROVE QueueInv'
  OBVIOUS
<1>t. TypeOK /\ StartedTasks
  BY DEF LockInv
<1>1. ASSUME NEW r \in Traffic, Start(r) PROVE QueueInv'
  BY <1>1, StartQueueInv, ConstantsAssumption
<1>2. ASSUME NEW t \in Tasks, Acquire(t) PROVE QueueInv'
  <2>1. PICK p : p = waiters[lockOf[t]]
    OBVIOUS
  <2>2. /\ pc[t] = "waiting" /\ p # <<>> /\ Head(p) = t
        /\ waiters' = [waiters EXCEPT ![lockOf[t]] = Tail(p)]
        /\ pc' = [pc EXCEPT ![t] = "capture"] /\ UNCHANGED <<req, lockOf>>
    BY <1>2, <2>1 DEF Acquire
  <2>3. p \in Seq(Tasks)
    BY <1>t, <2>1, <2>2, StartedInRange DEF TypeOK
  <2>4. "capture" \in Where \ {"waiting"}
    BY DEF Where, Holding
  <2>5. QED
    BY <2>1, <2>2, <2>3, <2>4, HeadOfLine, LeavingQueueInv
<1>3. ASSUME NEW t \in Tasks, LockTimeout(t) PROVE QueueInv'
  <2>1. PICK p : p = waiters[lockOf[t]]
    OBVIOUS
  <2>2. PICK i \in 1..Len(p) :
          p[i] = t /\ waiters' = [waiters EXCEPT ![lockOf[t]] = RemoveAt(p, i)]
    BY <1>3, <2>1 DEF LockTimeout
  <2>3. pc[t] = "waiting" /\ pc' = [pc EXCEPT ![t] = "done"] /\ UNCHANGED <<req, lockOf>>
    BY <1>3 DEF LockTimeout
  <2>4. p \in Seq(Tasks)
    BY <1>t, <2>1, <2>3, StartedInRange DEF TypeOK
  <2>5. "done" \in Where \ {"waiting"}
    BY DEF Where
  <2>6. PICK q : q = RemoveAt(p, i)
    OBVIOUS
  <2>7. Left(q, p, i)
    BY <2>4, <2>6, RemoveAtLine
  <2>8. QED
    BY <2>1, <2>2, <2>3, <2>5, <2>6, <2>7, LeavingQueueInv
<1>4. ASSUME NEW t \in Tasks, Step(t) PROVE QueueInv'
  <2>1. UNCHANGED <<req, lockOf, waiters>> /\ \A u \in Tasks : pc'[u] = "waiting" => pc[u] = "waiting"
    BY <1>t, <1>4, QuietQueue DEF TypeOK, Holding
  <2>2. QED
    BY <2>1 DEF QueueInv
<1>5. CASE CleanupLocks \/ UNCHANGED vars
  BY <1>5 DEF CleanupLocks, vars, lockVars, QueueInv
<1>6. QED
  BY <1>1, <1>2, <1>3, <1>4, <1>5 DEF Next

\* The extractions that share a lock pass it in the order in which they came:
\* a task never overtakes one that still waits.
THEOREM InOrder == Spec => ExtractionsInOrder
<1>1. Init => QueueInv
  BY DEF Init, QueueInv, Ordered, InLine
<1>2. ASSUME LockInv, QueueInv, [Next]_vars, NEW u \in Tasks, NEW t \in 1..(u - 1),
             pc[u] \notin Holding, pc'[u] \in Holding, lockOf'[t] = lockOf'[u]
      PROVE  pc[t] # "waiting"
  <2>t. TypeOK /\ StartedTasks
    BY <1>2 DEF LockInv
  <2>u. t \in Tasks /\ t \in Nat /\ u \in Nat /\ t < u
    BY <1>2, ConstantsAssumption DEF Tasks
  <2>1. CASE \E r \in Traffic : Start(r)
    <3>1. PICK r \in Traffic : Start(r)
      BY <2>1
    <3>2. PICK n, x, l : /\ n = Len(req) /\ x = n + 1
                         /\ l = IF registry[r.sess] = None THEN made + 1 ELSE registry[r.sess]
      OBVIOUS
    <3>3. /\ lockOf' = [lockOf EXCEPT ![x] = l]
          /\ \/ Free(l) /\ pc' = [pc EXCEPT ![x] = "capture"]
             \/ pc' = [pc EXCEPT ![x] = "waiting"]
      BY <3>1, <3>2 DEF Start
    <3>4. u = x /\ Free(l)
      BY <1>2, <2>t, <3>3 DEF TypeOK, Holding
    <3>5. lockOf'[u] = l /\ lockOf'[t] = lockOf[t]
      BY <2>t, <2>u, <3>3, <3>4 DEF TypeOK
    <3>6. \A i \in 1..Len(waiters[l]) : FALSE
      BY <3>4 DEF Free
    <3>7. QED
      BY <1>2, <2>u, <3>5, <3>6 DEF QueueInv, InLine
  <2>2. CASE \E x \in Tasks : Acquire(x)
    <3>1. PICK x \in Tasks : Acquire(x)
      BY <2>2
    <3>2. x = u
      BY <1>2, <2>t, <3>1 DEF Acquire, TypeOK
    <3>3. /\ pc[u] = "waiting" /\ waiters[lockOf[u]] # <<>> /\ Head(waiters[lockOf[u]]) = u
          /\ lockOf' = lockOf
      BY <3>1, <3>2 DEF Acquire
    <3>4. PICK q : q = waiters[lockOf[u]] /\ q \in Seq(Tasks) /\ Ordered(q, Len(req))
      BY <1>2, <2>t, <3>3, StartedInRange DEF TypeOK, QueueInv
    <3>5. q[1] = u /\ 1 \in 1..Len(q)
      BY <3>3, <3>4, HeadOfLine
    <3>6. ~InLine(q, t)
      <4>1. ASSUME NEW i \in 1..Len(q), q[i] = t PROVE FALSE
        <5>1. i = 1 \/ 1 < i
          OBVIOUS
        <5>2. i = 1 \/ q[1] < q[i]
          BY <3>4, <3>5, <5>1 DEF Ordered
        <5>3. QED
          BY <2>u, <3>5, <4>1, <5>2
      <4>2. QED
        BY <4>1 DEF InLine
    <3>7. QED
      BY <1>2, <2>u, <3>3, <3>4, <3>6 DEF QueueInv
  <2>3. CASE \E x \in Tasks : LockTimeout(x)
    BY <1>2, <2>t, <2>3 DEF LockTimeout, TypeOK, Holding
  <2>4. ASSUME NEW x \in Tasks, Step(x) PROVE FALSE
    BY <1>2, <2>t, <2>4, QuietQueue DEF TypeOK
  <2>5. CASE CleanupLocks \/ UNCHANGED vars
    BY <1>2, <2>5 DEF CleanupLocks, vars
  <2>6. QED
    BY <1>2, <2>1, <2>2, <2>3, <2>4, <2>5 DEF Next
<1>3. IInv /\ QueueInv /\ [Next]_vars =>
        [\A u \in Tasks : pc[u] \notin Holding /\ pc'[u] \in Holding =>
           \A t \in 1..(u - 1) : lockOf'[t] = lockOf'[u] => pc[t] # "waiting"]_vars
  BY <1>2 DEF IInv
<1>4. IInv /\ QueueInv /\ [Next]_vars => QueueInv'
  BY NextQueueInv DEF IInv
<1>5. QED
  BY <1>1, <1>3, <1>4, Invariant, PTL DEF Spec, ExtractionsInOrder
-----------------------------------------------------------------------------
(* The file cache.  While a capture runs, what its queries that are left   *)
(* will make of the cache is what is right; the cache itself need not be.  *)

\* What the capture that runs, or the last one, has seen of the history.
Horizon == IF running THEN captures[1].len ELSE done

Queries == [kind : {"drop", "keep", "evict"}, path : Paths, text : Texts]

CaptureRecords == [len : Nat, turn : Nat]

RowsOf(f) ==
  /\ IsFiniteSet(DOMAIN f)
  /\ DOMAIN f \subseteq Paths

CacheTypes ==
  /\ disk \in [Paths -> Texts]
  /\ log \in Seq(CallsOf(Tools))
  /\ asked \subseteq Calls
  /\ captures \in Seq(CaptureRecords)
  /\ running \in BOOLEAN
  /\ todo \in Seq(Queries)
  /\ RowsOf(cache)
  /\ RowsOf(outline)
  /\ done \in Nat
  /\ dirty \in BOOLEAN
  /\ turn \in Nat

\* Captures see ever more of the history.
Lagging(cs, d, n) ==
  /\ d <= n
  /\ \A i \in 1..Len(cs) : cs[i].len <= n /\ d <= cs[i].len
  /\ \A i \in 1..Len(cs), j \in 1..Len(cs) : i <= j => cs[i].len <= cs[j].len
CapturesOrdered ==
  /\ running => captures # <<>>
  /\ Lagging(captures, done, Len(log))

\* A read returned what is on the disk, a write left its argument there, until
\* the next call that concerns the file.
Later(h, i, p) == {j \in (i + 1)..Len(h) : h[j].path = p /\ h[j].tool # "say"}
Recorded(h, d) ==
  \A i \in 1..Len(h) :
    h[i].tool \in {"read", "write"} /\ Later(h, i, h[i].path) = {}
      => h[i].text = d[h[i].path]

\* Whatever is cached was kept for a result that the capture has seen,
\* so that the next capture, too, ends with an eviction.
Seen(h, n) == \E i \in 1..n : h[i] \in Shown
RowsSeen == DOMAIN cache # {} \/ DOMAIN outline # {} \/ todo # <<>> => Seen(log, Horizon)

\* A capture ends with an eviction, and after it the bounds hold.
Ending(q) == q # <<>> => q[Len(q)].kind = "evict"
Fits == Cardinality(DOMAIN cache) <= MaxEntries /\ Cardinality(DOMAIN outline) <= MaxEntries
Bounded ==
  /\ Ending(todo)
  /\ ~running => todo = <<>>
  /\ ~dirty /\ todo = <<>> => Fits

\* The queries q say nothing of p, or that its text is t at last.
Silent(q, p) == \A m \in 1..Len(q) : q[m].path = p => q[m].kind = "evict"
Coming(q, p, t) ==
  \E k \in 1..Len(q) :
    /\ q[k] = [kind |-> "keep", path |-> p, text |-> t]
    /\ \A m \in (k + 1)..Len(q) : q[m].path = p => q[m].kind = "evict"

\* The capture of the first n calls can know the file p, by call i.
KnownBy(h, i, n) ==
  /\ i \in 1..n
  /\ Later(h, i, h[i].path) = {}
  /\ h[i].text.size = "fits"
  /\ h[i].tool = "read" \/ (h[i].tool = "write" /\ i = n)

Comes(p, t) ==
  Coming(todo, p, t) \/ (Silent(todo, p) /\ (p \in DOMAIN cache => cache[p].text = t))
Fresh ==
  ~dirty => \A i \in 1..Horizon :
              KnownBy(log, i, Horizon) => Comes(log[i].path, log[i].text)

CacheInv ==
  /\ CacheTypes
  /\ CapturesOrdered
  /\ Recorded(log, disk)
  /\ RowsSeen
  /\ Bounded
  /\ Fresh

\* The queries about a call.
LEMMA QueryIs ==
  ASSUME NEW e \in CallsOf(Tools), NEW kind \in {"drop", "keep", "evict"}
  PROVE  /\ Query(kind, e) \in Queries
         /\ Query(kind, e) = [kind |-> kind, path |-> e.path, text |-> e.text]
BY DEF Query, Queries, CallsOf

\* The calls whose result is kept.
LEMMA ShownIs ==
  /\ Shown \subseteq CallsOf(Tools)
  /\ \A e \in CallsOf(Tools) :
       /\ e \in Shown => e.tool \in PathTools /\ e.tool # "say"
       /\ e.tool \in NativeWrites => e \in Shown
       /\ e.tool = "read" /\ e.text.size = "fits" => e \in Shown
<1>1. /\ PathTools \subseteq Tools /\ NativeWrites \subseteq PathTools /\ "say" \notin PathTools
      /\ "read" \in PathTools /\ "read" \notin NativeWrites
  BY DEF PathTools, Tools, NativeWrites, Interceptable
<1>2. Shown \subseteq CallsOf(Tools)
  BY <1>1 DEF Shown, CallsOf
<1>3. ASSUME NEW e \in CallsOf(Tools)
      PROVE  /\ e \in Shown => e.tool \in PathTools /\ e.tool # "say"
             /\ e.tool \in NativeWrites => e \in Shown
             /\ e.tool = "read" /\ e.text.size = "fits" => e \in Shown
  <2>1. e \in CallsOf(PathTools) <=> e.tool \in PathTools
    BY <1>3 DEF CallsOf
  <2>2. e \in Shown <=> e.tool \in PathTools /\ ResultOf(e).text.size # "empty"
    BY <2>1 DEF Shown
  <2>3. e.tool \in NativeWrites => ResultOf(e).text.size = "fits"
    BY <1>3 DEF ResultOf, Note, CallsOf
  <2>4. e.tool = "read" => ResultOf(e) = e
    BY <1>1 DEF ResultOf
  <2>5. QED
    BY <1>1, <2>2, <2>3, <2>4
<1>4. QED
  BY <1>2, <1>3

\* The calls of a history that are in T.
LEMMA ChosenAre ==
  ASSUME NEW h \in Seq(CallsOf(Tools)), NEW T \in SUBSET CallsOf(Tools)
  PROVE  /\ Only(h, T) \in Seq(CallsOf(Tools))
         /\ Only(h, T) \in Seq(T)
         /\ Only(h, T) # <<>> <=> \E i \in 1..Len(h) : h[i] \in T
<1>p. PICK es : es = Only(h, T)
  OBVIOUS
<1>1. es \in Seq(CallsOf(Tools) \cap T)
  BY <1>p, OnlyType
<1>2. CallsOf(Tools) \cap T \subseteq CallsOf(Tools)
  OBVIOUS
<1>3. CallsOf(Tools) \cap T \subseteq T
  OBVIOUS
<1>4. es \in Seq(CallsOf(Tools))
  BY <1>1, <1>2, SeqWider
<1>5. es \in Seq(T)
  BY <1>1, <1>3, SeqWider
<1>6. ToSet(es) = ToSet(h) \cap T
  BY <1>p, OnlySet
<1>7. ToSet(h) = {h[i] : i \in 1..Len(h)} /\ \A i \in 1..Len(h) : h[i] \in CallsOf(Tools)
  BY SetOf, ElementOfSeq
<1>8. ToSet(es) = {es[i] : i \in 1..Len(es)}
  BY <1>4, SetOf
<1>9. es # <<>> <=> ToSet(es) # {}
  <2>1. Len(es) \in Nat /\ (es = <<>> <=> Len(es) = 0)
    BY <1>4, LenProperties, EmptySeq
  <2>2. ToSet(es) # {} <=> \E i \in 1..Len(es) : TRUE
    BY <1>8
  <2>3. Len(es) # 0 => 1 \in 1..Len(es)
    BY <2>1
  <2>4. Len(es) = 0 => \A i \in 1..Len(es) : FALSE
    BY <2>1
  <2>5. QED
    BY <2>1, <2>2, <2>3, <2>4
<1>10. ToSet(es) # {} <=> \E i \in 1..Len(h) : h[i] \in T
  BY <1>6, <1>7
<1>11. QED
  BY <1>4, <1>5, <1>9, <1>10, <1>p

\* The upserts of some calls: of those that are storable, then the eviction.
LEMMA UpsertsAre ==
  ASSUME NEW es \in Seq(CallsOf(Tools))
  PROVE  /\ Upserts(es) \in Seq(Queries)
         /\ es = <<>> => Upserts(es) = <<>>
         /\ es # <<>> =>
              \E ks \in Seq(CallsOf(Tools)) :
                /\ ks = Only(es, Storable)
                /\ Len(Upserts(es)) = Len(ks) + 1
                /\ \A i \in 1..Len(ks) : Upserts(es)[i] = Query("keep", ks[i])
                /\ Upserts(es)[Len(ks) + 1].kind = "evict"
<1>1. CASE es = <<>>
  BY <1>1, EmptySeq DEF Upserts
<1>2. CASE es # <<>>
  <2>s. Storable \subseteq CallsOf(Tools)
    BY DEF Storable
  <2>k. PICK ks : ks = Only(es, Storable)
    OBVIOUS
  <2>n. PICK n : n = Len(ks)
    OBVIOUS
  <2>1. ks \in Seq(CallsOf(Tools))
    BY <2>k, <2>s, ChosenAre
  <2>2. n \in Nat /\ DOMAIN ks = 1..n /\ \A i \in 1..n : ks[i] \in CallsOf(Tools)
    BY <2>1, <2>n, LenProperties, ElementOfSeq
  <2>q. PICK qs : qs = [i \in DOMAIN ks |-> Query("keep", ks[i])]
    OBVIOUS
  <2>3. \A i \in 1..n : Query("keep", ks[i]) \in Queries
    BY <2>2, QueryIs
  <2>4. qs \in [1..n -> Queries]
    BY <2>2, <2>3, <2>q
  <2>5. qs \in Seq(Queries) /\ Len(qs) = n
    BY <2>2, <2>4, ListOf
  <2>6. es[1] \in CallsOf(Tools)
    <3>1. Len(es) \in Nat /\ Len(es) # 0
      BY <1>2, LenProperties, EmptySeq
    <3>2. 1 \in 1..Len(es)
      BY <3>1
    <3>3. QED
      BY <3>2, ElementOfSeq
  <2>7. Query("evict", es[1]) \in Queries /\ Query("evict", es[1]).kind = "evict"
    BY <2>6, QueryIs
  <2>8. Upserts(es) = Append(qs, Query("evict", es[1]))
    BY <1>2, <2>k, <2>q DEF Upserts
  <2>u. PICK us, e : us = Append(qs, e) /\ e = Query("evict", es[1])
    OBVIOUS
  <2>9. /\ us \in Seq(Queries) /\ Len(us) = n + 1 /\ us[n + 1] = e
        /\ \A i \in 1..n : us[i] = qs[i]
    BY <2>5, <2>7, <2>u, AppendProperties
  <2>10. \A i \in 1..n : qs[i] = Query("keep", ks[i])
    BY <2>2, <2>q
  <2>11. QED
    BY <1>2, <2>1, <2>7, <2>8, <2>9, <2>10, <2>k, <2>n, <2>u
<1>3. QED
  BY <1>1, <1>2

\* Every upsert is followed by an eviction.
LEMMA UpsertsEnd ==
  ASSUME NEW es \in Seq(CallsOf(Tools))
  PROVE  Ending(Upserts(es)) /\ (Upserts(es) # <<>> <=> es # <<>>)
<1>1. CASE es = <<>>
  BY <1>1, UpsertsAre DEF Ending
<1>2. CASE es # <<>>
  <2>p. PICK us : us = Upserts(es)
    OBVIOUS
  <2>1. PICK ks \in Seq(CallsOf(Tools)) :
          us \in Seq(Queries) /\ Len(us) = Len(ks) + 1 /\ us[Len(ks) + 1].kind = "evict"
    BY <1>2, <2>p, UpsertsAre
  <2>2. Len(ks) \in Nat
    BY LenProperties
  <2>3. us # <<>>
    BY <2>1, <2>2, EmptySeq
  <2>4. QED
    BY <1>2, <2>1, <2>3, <2>p DEF Ending
<1>3. QED
  BY <1>1, <1>2

\* What is upserted at last for a file comes, if it is storable; and nothing
\* comes for a file of which nothing is upserted.
LEMMA UpsertsCome ==
  ASSUME NEW es \in Seq(CallsOf(Tools)), NEW x \in 1..Len(es),
         es[x].text.size # "large",
         \A y \in (x + 1)..Len(es) : es[y].path # es[x].path
  PROVE  Coming(Upserts(es), es[x].path, es[x].text)
<1>1. es # <<>>
  <2>1. Len(es) \in Nat /\ Len(es) # 0
    BY LenProperties
  <2>2. QED
    BY <2>1, EmptySeq
<1>2. PICK ks \in Seq(CallsOf(Tools)) :
        /\ ks = Only(es, Storable)
        /\ Len(Upserts(es)) = Len(ks) + 1
        /\ \A i \in 1..Len(ks) : Upserts(es)[i] = Query("keep", ks[i])
        /\ Upserts(es)[Len(ks) + 1].kind = "evict"
  BY <1>1, UpsertsAre
<1>n. PICK n, us, p, t : n = Len(ks) /\ us = Upserts(es) /\ p = es[x].path /\ t = es[x].text
  OBVIOUS
<1>3. n \in Nat /\ \A i \in 1..n : ks[i] \in CallsOf(Tools)
  BY <1>n, LenProperties, ElementOfSeq
<1>4. es[x] \in Storable
  BY ElementOfSeq DEF Storable
<1>5. KeptInOrder(es, ks, x)
  BY <1>2, <1>4, OnlyInOrder
<1>6. PICK k \in 1..n : /\ ks[k] = es[x]
                        /\ \A m \in (k + 1)..n : \E j \in (x + 1)..Len(es) : ks[m] = es[j]
  BY <1>5, <1>n DEF KeptInOrder
<1>7. us[k] = [kind |-> "keep", path |-> p, text |-> t]
  BY <1>2, <1>3, <1>6, <1>n, QueryIs
<1>8. ASSUME NEW m \in (k + 1)..(n + 1), us[m].path = p PROVE us[m].kind = "evict"
  <2>1. CASE m = n + 1
    BY <1>2, <1>n, <2>1
  <2>2. CASE m # n + 1
    <3>1. m \in (k + 1)..n /\ m \in 1..n
      BY <1>3, <1>6, <1>8, <2>2
    <3>2. ks[m].path # p
      BY <1>6, <1>n, <3>1
    <3>3. us[m] = Query("keep", ks[m])
      BY <1>2, <1>n, <3>1
    <3>4. Query("keep", ks[m]).path = ks[m].path
      BY <1>3, <3>1, QueryIs
    <3>5. QED
      BY <1>8, <3>2, <3>3, <3>4
  <2>3. QED
    BY <2>1, <2>2
<1>9. k \in 1..(n + 1) /\ Len(us) = n + 1
  BY <1>2, <1>3, <1>6, <1>n
<1>10. Coming(us, p, t)
  BY <1>7, <1>8, <1>9 DEF Coming
<1>11. QED
  BY <1>10, <1>n

LEMMA UpsertsSilent ==
  ASSUME NEW es \in Seq(CallsOf(Tools)), NEW p, \A y \in 1..Len(es) : es[y].path # p
  PROVE  Silent(Upserts(es), p)
<1>1. CASE es = <<>>
  <2>1. Upserts(es) = <<>> /\ Len(<<>>) = 0
    BY <1>1, UpsertsAre, EmptySeq
  <2>2. QED
    BY <2>1 DEF Silent
<1>2. CASE es # <<>>
  <2>1. PICK ks \in Seq(CallsOf(Tools)) :
          /\ ks = Only(es, Storable)
          /\ Len(Upserts(es)) = Len(ks) + 1
          /\ \A i \in 1..Len(ks) : Upserts(es)[i] = Query("keep", ks[i])
          /\ Upserts(es)[Len(ks) + 1].kind = "evict"
    BY <1>2, UpsertsAre
  <2>n. PICK n, us : n = Len(ks) /\ us = Upserts(es)
    OBVIOUS
  <2>2. n \in Nat /\ \A i \in 1..n : ks[i] \in CallsOf(Tools)
    BY <2>n, LenProperties, ElementOfSeq
  <2>3. ToSet(ks) = ToSet(es) \cap Storable
    BY <2>1, OnlySet
  <2>4. ToSet(ks) = {ks[i] : i \in 1..n} /\ ToSet(es) = {es[i] : i \in 1..Len(es)}
    BY <2>n, SetOf
  <2>5. ASSUME NEW i \in 1..n PROVE ks[i].path # p
    <3>1. ks[i] \in ToSet(es)
      BY <2>3, <2>4
    <3>2. PICK j \in 1..Len(es) : ks[i] = es[j]
      BY <2>4, <3>1
    <3>3. QED
      BY <3>2
  <2>6. \A i \in 1..n : us[i].path = ks[i].path
    BY <2>1, <2>2, <2>n, QueryIs
  <2>7. \A m \in 1..(n + 1) : us[m].path = p => us[m].kind = "evict"
    <3>1. \A m \in 1..(n + 1) : m \in 1..n \/ m = n + 1
      BY <2>2
    <3>2. QED
      BY <2>1, <2>5, <2>6, <2>n, <3>1
  <2>8. QED
    BY <2>1, <2>7, <2>n DEF Silent
<1>3. QED
  BY <1>1, <1>2

LEMMA DropsAre ==
  ASSUME NEW h \in Seq(CallsOf(Tools))
  PROVE  /\ Drops(h) \in Seq(Queries)
         /\ Drops(h) # <<>> => \E i \in 1..Len(h) : h[i] \in Shown
<1>p. PICK es, ds : es = Only(h, CallsOf(WriteTools)) /\ ds = Drops(h)
  OBVIOUS
<1>1. /\ CallsOf(WriteTools) \subseteq CallsOf(Tools)
      /\ \A e \in CallsOf(WriteTools) : e.tool \in NativeWrites
  BY DEF WriteTools, Tools, NativeWrites, CallsOf
<1>2. /\ es \in Seq(CallsOf(Tools))
      /\ es # <<>> <=> \E i \in 1..Len(h) : h[i] \in CallsOf(WriteTools)
  BY <1>1, <1>p, ChosenAre
<1>n. PICK n : n = Len(es)
  OBVIOUS
<1>3. n \in Nat /\ DOMAIN es = 1..n /\ \A i \in 1..n : es[i] \in CallsOf(Tools)
  BY <1>2, <1>n, LenProperties, ElementOfSeq
<1>4. \A i \in 1..n : Query("drop", es[i]) \in Queries
  BY <1>3, QueryIs
<1>5. ds = [i \in 1..n |-> Query("drop", es[i])]
  BY <1>3, <1>p DEF Drops
<1>6. ds \in [1..n -> Queries]
  BY <1>4, <1>5
<1>7. ds \in Seq(Queries) /\ Len(ds) = n
  BY <1>3, <1>6, ListOf
<1>8. ds # <<>> => es # <<>>
  BY <1>2, <1>7, <1>n, EmptySeq
<1>9. \A e \in CallsOf(WriteTools) : e \in Shown
  BY <1>1, ShownIs
<1>10. QED
  BY <1>2, <1>7, <1>8, <1>9, <1>p

LEMMA ResultIs ==
  ASSUME NEW e \in CallsOf(Tools)
  PROVE  /\ ResultOf(e) \in CallsOf(Tools)
         /\ ResultOf(e).path = e.path
         /\ e.tool = "read" => ResultOf(e) = e
<1>1. e.text.version \in Nat
  BY DEF CallsOf, Texts
<1>2. Note(e.text.version) \in Texts
  BY <1>1 DEF Note, Texts, Sizes
<1>3. [e EXCEPT !.text = Note(e.text.version)] \in CallsOf(Tools)
  BY <1>2 DEF CallsOf
<1>4. [e EXCEPT !.text = Note(e.text.version)].path = e.path
  BY DEF CallsOf
<1>5. QED
  BY <1>3, <1>4 DEF ResultOf, NativeWrites

\* The calls whose results a capture keeps.
LEMMA ResultsAre ==
  ASSUME NEW h \in Seq(CallsOf(Tools))
  PROVE  \E es \in Seq(CallsOf(Tools)), rs \in Seq(CallsOf(Tools)) :
           /\ es = Only(h, Shown)
           /\ Len(rs) = Len(es) /\ \A i \in 1..Len(es) : rs[i] = ResultOf(es[i])
           /\ Results(h) = Upserts(rs)
           /\ rs # <<>> <=> \E i \in 1..Len(h) : h[i] \in Shown
<1>p. PICK es : es = Only(h, Shown)
  OBVIOUS
<1>1. /\ es \in Seq(CallsOf(Tools))
      /\ es # <<>> <=> \E i \in 1..Len(h) : h[i] \in Shown
  BY <1>p, ShownIs, ChosenAre
<1>n. PICK n, rs : n = Len(es) /\ rs = [i \in DOMAIN es |-> ResultOf(es[i])]
  OBVIOUS
<1>3. n \in Nat /\ DOMAIN es = 1..n /\ \A i \in 1..n : es[i] \in CallsOf(Tools)
  BY <1>1, <1>n, LenProperties, ElementOfSeq
<1>4. \A i \in 1..n : ResultOf(es[i]) \in CallsOf(Tools)
  BY <1>3, ResultIs
<1>5. rs \in [1..n -> CallsOf(Tools)]
  BY <1>3, <1>4, <1>n
<1>6. rs \in Seq(CallsOf(Tools)) /\ Len(rs) = n
  BY <1>3, <1>5, ListOf
<1>7. rs # <<>> <=> es # <<>>
  BY <1>1, <1>6, <1>n, EmptySeq
<1>8. \A i \in 1..n : rs[i] = ResultOf(es[i])
  BY <1>3, <1>n
<1>9. Results(h) = Upserts(rs)
  BY <1>n, <1>p DEF Results
<1>10. QED
  BY <1>1, <1>6, <1>7, <1>8, <1>9, <1>n, <1>p

\* What a read returned, with no later call on its file, is what the results
\* make of the file.
LEMMA ResultsCome ==
  ASSUME NEW h \in Seq(CallsOf(Tools)), NEW i \in 1..Len(h), h[i].tool = "read",
         h[i].text.size = "fits", Later(h, i, h[i].path) = {}
  PROVE  Coming(Results(h), h[i].path, h[i].text)
<1>1. PICK es \in Seq(CallsOf(Tools)), rs \in Seq(CallsOf(Tools)) :
        /\ es = Only(h, Shown)
        /\ Len(rs) = Len(es) /\ \A j \in 1..Len(es) : rs[j] = ResultOf(es[j])
        /\ Results(h) = Upserts(rs)
  BY ResultsAre
<1>2. h[i] \in CallsOf(Tools) /\ \A j \in 1..Len(h) : h[j] \in CallsOf(Tools)
  BY ElementOfSeq
<1>3. h[i] \in Shown
  BY <1>2, ShownIs
<1>4. KeptInOrder(h, es, i)
  BY <1>1, <1>3, OnlyInOrder
<1>n. PICK n : n = Len(es)
  OBVIOUS
<1>5. PICK k \in 1..n : /\ es[k] = h[i]
                        /\ \A m \in (k + 1)..n : \E j \in (i + 1)..Len(h) : es[m] = h[j]
  BY <1>4, <1>n DEF KeptInOrder
<1>6. n \in Nat /\ \A m \in 1..n : es[m] \in Shown /\ es[m] \in CallsOf(Tools)
  <2>1. es \in Seq(Shown)
    BY <1>1, ShownIs, ChosenAre
  <2>2. QED
    BY <1>n, <2>1, LenProperties, ElementOfSeq
<1>7. rs[k] = h[i] /\ k \in 1..Len(rs)
  BY <1>1, <1>2, <1>5, <1>n, ResultIs
<1>8. ASSUME NEW m \in (k + 1)..Len(rs) PROVE rs[m].path # rs[k].path
  <2>1. m \in (k + 1)..n /\ m \in 1..n
    BY <1>1, <1>5, <1>6, <1>n
  <2>2. PICK j \in (i + 1)..Len(h) : es[m] = h[j]
    BY <1>5, <2>1
  <2>3. rs[m].path = h[j].path
    BY <1>1, <1>6, <1>n, <2>1, <2>2, ResultIs
  <2>4. h[j].tool # "say"
    BY <1>6, <2>1, <2>2, ShownIs
  <2>5. h[j].path # h[i].path
    BY <2>4 DEF Later
  <2>6. QED
    BY <1>7, <2>3, <2>5
<1>9. rs[k].text.size # "large"
  BY <1>7
<1>10. Coming(Upserts(rs), rs[k].path, rs[k].text)
  BY <1>7, <1>8, <1>9, UpsertsCome
<1>11. QED
  BY <1>1, <1>7, <1>10

\* Of the last message, what a full write wrote, unless it is empty.
LEMMA WrittenAre ==
  ASSUME NEW h \in Seq(CallsOf(Tools)), h # <<>>
  PROVE  \E ws \in Seq(CallsOf(Tools)) :
           /\ ws = IF h[Len(h)].tool = "write" /\ h[Len(h)].text.size # "empty"
                     THEN <<h[Len(h)]>> ELSE <<>>
           /\ Written(h) = Upserts(ws)
<1>n. PICK n, e : n = Len(h) /\ e = h[n]
  OBVIOUS
<1>1. n \in Nat /\ n # 0
  BY <1>n, LenProperties, EmptySeq
<1>2. e \in CallsOf(Tools)
  BY <1>1, <1>n, ElementOfSeq
<1>3. Last(h) = e
  BY <1>n DEF Last
<1>4. <<>> \in Seq(CallsOf(Tools)) /\ <<e>> = Append(<<>>, e)
  BY <1>2, EmptySeq
<1>5. <<e>> \in Seq(CallsOf(Tools))
  BY <1>2, <1>4, AppendProperties
<1>6. e \in Filled <=> e.tool = "write" /\ e.text.size # "empty"
  BY <1>2 DEF CallsOf, FullWrites, Filled
<1>7. Only(<<e>>, Filled)
        = IF e.tool = "write" /\ e.text.size # "empty" THEN <<e>> ELSE <<>>
  <2>1. Only(Append(<<>>, e), Filled)
          = IF e \in Filled THEN Append(Only(<<>>, Filled), e) ELSE Only(<<>>, Filled)
    BY <1>2, <1>4, OnlyAppend
  <2>2. QED
    BY <1>4, <1>6, <2>1, OnlyEmpty
<1>8. Written(h) = Upserts(Only(<<e>>, Filled))
  BY <1>3 DEF Written
<1>9. QED
  BY <1>4, <1>5, <1>7, <1>8, <1>n

LEMMA WrittenCome ==
  ASSUME NEW h \in Seq(CallsOf(Tools)), h # <<>>, h[Len(h)].tool = "write",
         h[Len(h)].text.size = "fits"
  PROVE  Coming(Written(h), h[Len(h)].path, h[Len(h)].text)
<1>n. PICK e, es : e = h[Len(h)] /\ es = <<e>>
  OBVIOUS
<1>1. es \in Seq(CallsOf(Tools)) /\ Written(h) = Upserts(es)
  BY WrittenAre, <1>n
<1>2. Len(es) = 1 /\ es[1] = e /\ 1 \in 1..1 /\ (1 + 1)..1 = {}
  BY <1>n
<1>3. es[1].text.size # "large" /\ \A y \in (1 + 1)..Len(es) : es[y].path # es[1].path
  BY <1>2, <1>n
<1>4. Coming(Upserts(es), es[1].path, es[1].text)
  BY <1>1, <1>2, <1>3, UpsertsCome
<1>5. QED
  BY <1>1, <1>2, <1>4, <1>n

\* A file that was read, and not called on later, was not written at last.
LEMMA WrittenSilent ==
  ASSUME NEW h \in Seq(CallsOf(Tools)), NEW i \in 1..Len(h), h[i].tool = "read",
         Later(h, i, h[i].path) = {}
  PROVE  Silent(Written(h), h[i].path)
<1>n. PICK n, e : n = Len(h) /\ e = h[n]
  OBVIOUS
<1>1. n \in Nat /\ n # 0 /\ h # <<>> /\ i \in 1..n
  BY <1>n, LenProperties, EmptySeq
<1>2. PICK ws \in Seq(CallsOf(Tools)) :
        /\ ws = IF e.tool = "write" /\ e.text.size # "empty" THEN <<e>> ELSE <<>>
        /\ Written(h) = Upserts(ws)
  BY <1>1, <1>n, WrittenAre
<1>3. \A y \in 1..Len(ws) : ws[y].path # h[i].path
  <2>1. CASE ws = <<>>
    BY <2>1, EmptySeq
  <2>2. CASE ws = <<e>> /\ e.tool = "write"
    <3>1. i # n
      BY <1>n, <2>2
    <3>2. n \in (i + 1)..n
      BY <1>1, <3>1
    <3>3. e.path # h[i].path
      BY <1>n, <2>2, <3>2 DEF Later
    <3>4. Len(<<e>>) = 1 /\ <<e>>[1] = e /\ \A y \in 1..1 : y = 1
      OBVIOUS
    <3>5. QED
      BY <2>2, <3>3, <3>4
  <2>3. QED
    BY <1>2, <2>1, <2>2
<1>4. QED
  BY <1>2, <1>3, UpsertsSilent

\* What is written at last is written.
LEMMA WrittenEnd ==
  ASSUME NEW h \in Seq(CallsOf(Tools))
  PROVE  /\ Written(h) \in Seq(Queries)
         /\ Ending(Written(h))
         /\ Written(h) # <<>> => \E i \in 1..Len(h) : h[i] \in Shown
<1>1. CASE h = <<>>
  BY <1>1, EmptySeq DEF Written, Ending
<1>2. CASE h # <<>>
  <2>1. PICK ws \in Seq(CallsOf(Tools)) :
          /\ ws = IF h[Len(h)].tool = "write" /\ h[Len(h)].text.size # "empty"
                    THEN <<h[Len(h)]>> ELSE <<>>
          /\ Written(h) = Upserts(ws)
    BY <1>2, WrittenAre
  <2>2. /\ Upserts(ws) \in Seq(Queries) /\ Ending(Upserts(ws))
        /\ Upserts(ws) # <<>> <=> ws # <<>>
    BY UpsertsAre, UpsertsEnd
  <2>3. Len(h) \in Nat /\ Len(h) # 0
    BY <1>2, LenProperties, EmptySeq
  <2>4. Len(h) \in 1..Len(h)
    BY <2>3
  <2>5. h[Len(h)] \in CallsOf(Tools)
    BY <2>4, ElementOfSeq
  <2>6. ws # <<>> => h[Len(h)] \in Shown
    <3>1. "write" \in NativeWrites
      BY DEF NativeWrites
    <3>2. QED
      BY <2>1, <2>5, <3>1, ShownIs
  <2>7. QED
    BY <2>1, <2>2, <2>4, <2>6
<1>3. QED
  BY <1>1, <1>2

\* One list of queries after another.
InTurn(a, b, c) ==
  \E m \in Nat, n \in Nat :
    /\ c \in Seq(Queries)
    /\ m = Len(a) /\ n = Len(b) /\ Len(c) = m + n
    /\ \A i \in 1..m : c[i] = a[i]
    /\ \A i \in 1..n : c[m + i] = b[i]

LEMMA JoinedIs ==
  ASSUME NEW a \in Seq(Queries), NEW b \in Seq(Queries)
  PROVE  InTurn(a, b, a \o b)
<1>1. /\ a \o b \in Seq(Queries) /\ Len(a) \in Nat /\ Len(b) \in Nat
      /\ Len(a \o b) = Len(a) + Len(b)
      /\ \A i \in 1..(Len(a) + Len(b)) :
           (a \o b)[i] = IF i <= Len(a) THEN a[i] ELSE b[i - Len(a)]
  BY ConcatProperties, LenProperties
<1>c. PICK c, m, n : c = a \o b /\ m = Len(a) /\ n = Len(b)
  OBVIOUS
<1>2. /\ m \in Nat /\ n \in Nat /\ c \in Seq(Queries) /\ Len(c) = m + n
      /\ \A i \in 1..(m + n) : c[i] = IF i <= m THEN a[i] ELSE b[i - m]
  BY <1>1, <1>c
<1>3. \A i \in 1..m : c[i] = a[i]
  BY <1>2
<1>4. \A i \in 1..n : c[m + i] = b[i]
  <2>1. ASSUME NEW i \in 1..n PROVE c[m + i] = b[i]
    <3>1. m + i \in 1..(m + n) /\ ~(m + i <= m) /\ (m + i) - m = i
      BY <1>2
    <3>2. QED
      BY <1>2, <3>1
  <2>2. QED
    BY <2>1
<1>5. QED
  BY <1>2, <1>3, <1>4, <1>c DEF InTurn

LEMMA JoinedEnds ==
  ASSUME NEW a \in Seq(Queries), NEW b \in Seq(Queries), Ending(b),
         b = <<>> => Ending(a)
  PROVE  Ending(a \o b) /\ (a \o b = <<>> <=> a = <<>> /\ b = <<>>)
<1>c. PICK c : c = a \o b
  OBVIOUS
<1>1. PICK m \in Nat, n \in Nat :
        /\ c \in Seq(Queries)
        /\ m = Len(a) /\ n = Len(b) /\ Len(c) = m + n
        /\ \A i \in 1..m : c[i] = a[i]
        /\ \A i \in 1..n : c[m + i] = b[i]
  <2>1. InTurn(a, b, c)
    BY <1>c, JoinedIs
  <2>2. QED
    BY <2>1 DEF InTurn
<1>2. /\ c = <<>> <=> m + n = 0
      /\ a = <<>> <=> m = 0
      /\ b = <<>> <=> n = 0
  BY <1>1, EmptySeq
<1>3. ASSUME n # 0 PROVE c[m + n].kind = "evict"
  BY <1>1, <1>2, <1>3 DEF Ending
<1>4. ASSUME n = 0, m # 0 PROVE c[m + n].kind = "evict"
  BY <1>1, <1>2, <1>4 DEF Ending
<1>5. QED
  BY <1>1, <1>2, <1>3, <1>4, <1>c DEF Ending

\* What comes at last comes.
LEMMA ComesBehind ==
  ASSUME NEW a \in Seq(Queries), NEW b \in Seq(Queries), NEW p, NEW t, Coming(b, p, t)
  PROVE  Coming(a \o b, p, t)
<1>c. PICK c : c = a \o b
  OBVIOUS
<1>1. PICK m \in Nat, n \in Nat :
        /\ c \in Seq(Queries)
        /\ m = Len(a) /\ n = Len(b) /\ Len(c) = m + n
        /\ \A i \in 1..m : c[i] = a[i]
        /\ \A i \in 1..n : c[m + i] = b[i]
  <2>1. InTurn(a, b, c)
    BY <1>c, JoinedIs
  <2>2. QED
    BY <2>1 DEF InTurn
<1>2. PICK k \in 1..n : /\ b[k] = [kind |-> "keep", path |-> p, text |-> t]
                        /\ \A x \in (k + 1)..n : b[x].path = p => b[x].kind = "evict"
  BY <1>1 DEF Coming
<1>3. m + k \in 1..(m + n) /\ c[m + k] = b[k]
  BY <1>1
<1>4. ASSUME NEW x \in ((m + k) + 1)..(m + n), c[x].path = p PROVE c[x].kind = "evict"
  <2>1. x - m \in (k + 1)..n /\ x - m \in 1..n /\ m + (x - m) = x
    BY <1>1
  <2>2. c[x] = b[x - m]
    BY <1>1, <2>1
  <2>3. QED
    BY <1>2, <1>4, <2>1, <2>2
<1>5. QED
  BY <1>1, <1>2, <1>3, <1>4, <1>c DEF Coming

LEMMA ComesBefore ==
  ASSUME NEW a \in Seq(Queries), NEW b \in Seq(Queries), NEW p, NEW t,
         Coming(a, p, t), Silent(b, p)
  PROVE  Coming(a \o b, p, t)
<1>c. PICK c : c = a \o b
  OBVIOUS
<1>1. PICK m \in Nat, n \in Nat :
        /\ c \in Seq(Queries)
        /\ m = Len(a) /\ n = Len(b) /\ Len(c) = m + n
        /\ \A i \in 1..m : c[i] = a[i]
        /\ \A i \in 1..n : c[m + i] = b[i]
  <2>1. InTurn(a, b, c)
    BY <1>c, JoinedIs
  <2>2. QED
    BY <2>1 DEF InTurn
<1>2. PICK k \in 1..m : /\ a[k] = [kind |-> "keep", path |-> p, text |-> t]
                        /\ \A x \in (k + 1)..m : a[x].path = p => a[x].kind = "evict"
  BY <1>1 DEF Coming
<1>3. \A x \in 1..n : b[x].path = p => b[x].kind = "evict"
  BY <1>1 DEF Silent
<1>4. k \in 1..(m + n) /\ c[k] = a[k]
  BY <1>1
<1>5. ASSUME NEW x \in (k + 1)..(m + n), c[x].path = p PROVE c[x].kind = "evict"
  <2>1. CASE x <= m
    <3>1. x \in (k + 1)..m /\ x \in 1..m
      BY <2>1
    <3>2. QED
      BY <1>1, <1>2, <1>5, <3>1
  <2>2. CASE ~(x <= m)
    <3>1. x - m \in 1..n /\ m + (x - m) = x
      BY <1>1, <2>2
    <3>2. c[x] = b[x - m]
      BY <1>1, <3>1
    <3>3. QED
      BY <1>3, <1>5, <3>1, <3>2
  <2>3. QED
    BY <1>1, <2>1, <2>2
<1>6. QED
  BY <1>1, <1>2, <1>4, <1>5, <1>c DEF Coming

\* The queries of a capture end with an eviction, if there are any; and there
\* are, if a result is kept.
LEMMA PlanIs ==
  ASSUME NEW h \in Seq(CallsOf(Tools))
  PROVE  /\ Plan(h) \in Seq(Queries)
         /\ Ending(Plan(h))
         /\ Plan(h) # <<>> <=> \E i \in 1..Len(h) : h[i] \in Shown
<1>p. PICK ds, us, ws : ds = Drops(h) /\ us = Results(h) /\ ws = Written(h)
  OBVIOUS
<1>s. PICK some : some = \E i \in 1..Len(h) : h[i] \in Shown
  OBVIOUS
<1>1. ds \in Seq(Queries) /\ (ds # <<>> => some)
  BY <1>p, <1>s, DropsAre
<1>2. us \in Seq(Queries) /\ Ending(us) /\ (us # <<>> <=> some)
  <2>1. PICK es \in Seq(CallsOf(Tools)), rs \in Seq(CallsOf(Tools)) :
          /\ us = Upserts(rs)
          /\ rs # <<>> <=> \E j \in 1..Len(h) : h[j] \in Shown
    BY <1>p, ResultsAre
  <2>2. QED
    BY <1>s, <2>1, UpsertsAre, UpsertsEnd
<1>3. ws \in Seq(Queries) /\ Ending(ws) /\ (ws # <<>> => some)
  BY <1>p, <1>s, WrittenEnd
<1>4. Plan(h) = (ds \o us) \o ws
  BY <1>p DEF Plan
<1>5. ds \o us \in Seq(Queries)
  BY <1>1, <1>2, ConcatProperties
<1>6. Ending(ds \o us) /\ (ds \o us = <<>> <=> ds = <<>> /\ us = <<>>)
  <2>1. us = <<>> => Ending(ds)
    BY <1>1, <1>2 DEF Ending
  <2>2. QED
    BY <1>1, <1>2, <2>1, JoinedEnds
<1>7. (ds \o us) \o ws \in Seq(Queries)
  BY <1>3, <1>5, ConcatProperties
<1>8. /\ Ending((ds \o us) \o ws)
      /\ (ds \o us) \o ws = <<>> <=> ds \o us = <<>> /\ ws = <<>>
  BY <1>3, <1>5, <1>6, JoinedEnds
<1>9. (ds \o us) \o ws # <<>> <=> some
  BY <1>1, <1>2, <1>3, <1>6, <1>8
<1>10. QED
  BY <1>4, <1>7, <1>8, <1>9, <1>s

\* Whatever else a capture does, it ends with what its last known call on a
\* file says of the file.
LEMMA PlanComes ==
  ASSUME NEW h \in Seq(CallsOf(Tools)), NEW i, KnownBy(h, i, Len(h))
  PROVE  Coming(Plan(h), h[i].path, h[i].text)
<1>p. PICK ds, us, ws, p, t : /\ ds = Drops(h) /\ us = Results(h) /\ ws = Written(h)
                              /\ p = h[i].path /\ t = h[i].text
  OBVIOUS
<1>1. /\ i \in 1..Len(h) /\ Later(h, i, h[i].path) = {} /\ h[i].text.size = "fits"
      /\ h[i].tool = "read" \/ (h[i].tool = "write" /\ i = Len(h))
  BY DEF KnownBy
<1>2. ds \in Seq(Queries) /\ us \in Seq(Queries) /\ ws \in Seq(Queries)
  <2>1. PICK rs \in Seq(CallsOf(Tools)) : us = Upserts(rs)
    BY <1>p, ResultsAre
  <2>2. QED
    BY <1>p, <2>1, DropsAre, UpsertsAre, WrittenEnd
<1>3. Plan(h) = (ds \o us) \o ws
  BY <1>p DEF Plan
<1>4. ds \o us \in Seq(Queries)
  BY <1>2, ConcatProperties
<1>5. CASE h[i].tool = "read"
  <2>1. Coming(us, p, t)
    BY <1>1, <1>5, <1>p, ResultsCome
  <2>2. Silent(ws, p)
    BY <1>1, <1>5, <1>p, WrittenSilent
  <2>3. Coming(ds \o us, p, t)
    BY <1>2, <2>1, ComesBehind
  <2>4. Coming((ds \o us) \o ws, p, t)
    BY <1>2, <1>4, <2>2, <2>3, ComesBefore
  <2>5. QED
    BY <1>3, <1>p, <2>4
<1>6. CASE h[i].tool = "write" /\ i = Len(h)
  <2>1. h # <<>>
    BY <1>1, EmptySeq
  <2>2. Coming(ws, p, t)
    BY <1>1, <1>6, <1>p, <2>1, WrittenCome
  <2>3. Coming((ds \o us) \o ws, p, t)
    BY <1>2, <1>4, <2>2, ComesBehind
  <2>4. QED
    BY <1>3, <1>p, <2>3
<1>7. QED
  BY <1>1, <1>5, <1>6

-----------------------------------------------------------------------------
(* The steps.                                                              *)

LEMMA LagAppended ==
  ASSUME NEW cs \in Seq(CaptureRecords), NEW d \in Nat, NEW n \in Nat, NEW m \in Nat, n <= m,
         Lagging(cs, d, n), NEW c \in CaptureRecords, c.len = n
  PROVE  Lagging(cs, d, m) /\ Lagging(Append(cs, c), d, m)
<1>p. PICK cs2, k : cs2 = Append(cs, c) /\ k = Len(cs)
  OBVIOUS
<1>1. /\ k \in Nat /\ Len(cs2) = k + 1 /\ cs2[k + 1] = c
      /\ \A i \in 1..k : cs2[i] = cs[i]
  BY <1>p, AppendProperties, LenProperties
<1>2. \A i \in 1..k : cs[i] \in CaptureRecords
  BY <1>p, ElementOfSeq
<1>3. /\ d <= n
      /\ \A i \in 1..k : cs[i].len \in Nat /\ cs[i].len <= n /\ d <= cs[i].len
      /\ \A i \in 1..k, j \in 1..k : i <= j => cs[i].len <= cs[j].len
  BY <1>2, <1>p DEF Lagging, CaptureRecords
<1>4. Lagging(cs, d, m)
  BY <1>3, <1>p DEF Lagging
<1>n. \A i \in 1..(k + 1) : (i \in 1..k /\ cs2[i] = cs[i]) \/ (i = k + 1 /\ cs2[i] = c)
  BY <1>1
<1>m. \A i \in 1..k : cs[i].len <= m /\ cs[i].len <= c.len
  BY <1>3
<1>5. \A i \in 1..(k + 1) : cs2[i].len <= m /\ d <= cs2[i].len
  BY <1>3, <1>m, <1>n
<1>6. \A i \in 1..(k + 1), j \in 1..(k + 1) : i <= j => cs2[i].len <= cs2[j].len
  <2>1. ASSUME NEW i \in 1..(k + 1), NEW j \in 1..(k + 1), i <= j
        PROVE  cs2[i].len <= cs2[j].len
    <3>1. CASE j \in 1..k /\ cs2[j] = cs[j]
      <4>1. i \in 1..k /\ cs2[i] = cs[i]
        BY <1>1, <1>n, <2>1, <3>1
      <4>2. QED
        BY <1>3, <2>1, <3>1, <4>1
    <3>2. CASE j = k + 1 /\ cs2[j] = c
      BY <1>m, <1>n, <3>2
    <3>3. QED
      BY <1>n, <3>1, <3>2
  <2>2. QED
    BY <2>1
<1>7. d <= m
  BY <1>3
<1>8. Lagging(cs2, d, m)
  BY <1>1, <1>5, <1>6, <1>7 DEF Lagging
<1>9. QED
  BY <1>4, <1>8, <1>p

LEMMA LagEnded ==
  ASSUME NEW cs \in Seq(CaptureRecords), cs # <<>>, NEW d \in Nat, NEW n \in Nat,
         Lagging(cs, d, n)
  PROVE  /\ Tail(cs) \in Seq(CaptureRecords)
         /\ cs[1].len \in Nat
         /\ Lagging(Tail(cs), cs[1].len, n)
<1>p. PICK ts, k : ts = Tail(cs) /\ k = Len(cs)
  OBVIOUS
<1>1. /\ k \in Nat /\ k # 0 /\ ts \in Seq(CaptureRecords) /\ Len(ts) = k - 1
      /\ \A i \in 1..(k - 1) : ts[i] = cs[i + 1]
  BY <1>p, EmptySeq, LenProperties, HeadTailProperties
<1>2. \A i \in 1..k : cs[i] \in CaptureRecords
  BY <1>p, ElementOfSeq
<1>3. /\ \A i \in 1..k : cs[i].len \in Nat /\ cs[i].len <= n /\ d <= cs[i].len
      /\ \A i \in 1..k, j \in 1..k : i <= j => cs[i].len <= cs[j].len
  BY <1>2, <1>p DEF Lagging, CaptureRecords
<1>4. cs[1].len \in Nat /\ cs[1].len <= n
  BY <1>1, <1>3
<1>n. /\ 1 \in 1..k
      /\ \A i \in 1..(k - 1) : i + 1 \in 1..k /\ 1 <= i + 1 /\ ts[i] = cs[i + 1]
      /\ \A i \in 1..(k - 1), j \in 1..(k - 1) : i <= j => i + 1 <= j + 1
  BY <1>1
<1>5. \A i \in 1..(k - 1) : ts[i].len <= n /\ cs[1].len <= ts[i].len
  BY <1>3, <1>n
<1>6. \A i \in 1..(k - 1), j \in 1..(k - 1) : i <= j => ts[i].len <= ts[j].len
  <2>1. ASSUME NEW i \in 1..(k - 1), NEW j \in 1..(k - 1), i <= j PROVE ts[i].len <= ts[j].len
    <3>1. i + 1 \in 1..k /\ j + 1 \in 1..k /\ i + 1 <= j + 1
      BY <1>n, <2>1
    <3>2. cs[i + 1].len <= cs[j + 1].len
      BY <1>3, <3>1
    <3>3. QED
      BY <1>n, <3>2
  <2>2. QED
    BY <2>1
<1>7. Lagging(ts, cs[1].len, n)
  BY <1>1, <1>4, <1>5, <1>6 DEF Lagging
<1>8. QED
  BY <1>1, <1>4, <1>7, <1>p

\* RemoveAt takes one element out.
LEMMA RemovedIs ==
  ASSUME NEW S, NEW s \in Seq(S), NEW i \in 1..Len(s)
  PROVE  /\ RemoveAt(s, i) \in Seq(S)
         /\ Len(RemoveAt(s, i)) = Len(s) - 1
         /\ \A j \in 1..(Len(s) - 1) : RemoveAt(s, i)[j] = IF j < i THEN s[j] ELSE s[j + 1]
<1>p. PICK a, b, n : a = SubSeq(s, 1, i - 1) /\ b = SubSeq(s, i + 1, n) /\ n = Len(s)
  OBVIOUS
<1>1. n \in Nat /\ i \in 1..n /\ i \in Nat /\ \A j \in 1..n : s[j] \in S
  BY <1>p, LenProperties, ElementOfSeq
<1>2. a \in Seq(S) /\ Len(a) = i - 1 /\ \A j \in 1..(i - 1) : a[j] = s[j]
  <2>1. a = [j \in 1..(i - 1) |-> s[j]]
    BY <1>1, <1>p
  <2>2. \A j \in 1..(i - 1) : s[j] \in S
    BY <1>1
  <2>3. a \in [1..(i - 1) -> S] /\ i - 1 \in Nat
    BY <1>1, <2>1, <2>2
  <2>4. a \in Seq(S) /\ Len(a) = i - 1
    BY <2>3, ListOf
  <2>5. QED
    BY <2>1, <2>4
<1>3. b \in Seq(S) /\ Len(b) = n - i /\ \A j \in 1..(n - i) : b[j] = s[i + j]
  <2>1. b = [j \in 1..(n - i) |-> s[i + j]]
    BY <1>1, <1>p
  <2>2. \A j \in 1..(n - i) : s[i + j] \in S
    BY <1>1
  <2>3. b \in [1..(n - i) -> S] /\ n - i \in Nat
    BY <1>1, <2>1, <2>2
  <2>4. b \in Seq(S) /\ Len(b) = n - i
    BY <2>3, ListOf
  <2>5. QED
    BY <2>1, <2>4
<1>c. PICK c : c = a \o b
  OBVIOUS
<1>4. /\ c \in Seq(S) /\ Len(c) = Len(a) + Len(b)
      /\ \A j \in 1..(Len(a) + Len(b)) : c[j] = IF j <= Len(a) THEN a[j] ELSE b[j - Len(a)]
  BY <1>2, <1>3, <1>c, ConcatProperties
<1>5. Len(c) = n - 1
  BY <1>1, <1>2, <1>3, <1>4
<1>6. ASSUME NEW j \in 1..(n - 1) PROVE c[j] = IF j < i THEN s[j] ELSE s[j + 1]
  <2>1. CASE j < i
    <3>1. j \in 1..(i - 1) /\ j \in 1..(Len(a) + Len(b)) /\ j <= Len(a)
      BY <1>1, <1>2, <1>3, <2>1
    <3>2. QED
      BY <1>2, <1>4, <2>1, <3>1
  <2>2. CASE ~(j < i)
    <3>1. /\ j \in 1..(Len(a) + Len(b)) /\ ~(j <= Len(a))
          /\ j - Len(a) \in 1..(n - i) /\ i + (j - Len(a)) = j + 1
      BY <1>1, <1>2, <1>3, <2>2
    <3>2. QED
      BY <1>3, <1>4, <2>2, <3>1
  <2>3. QED
    BY <2>1, <2>2
<1>7. RemoveAt(s, i) = c
  BY <1>c, <1>p DEF RemoveAt
<1>8. QED
  BY <1>4, <1>5, <1>6, <1>7, <1>p

LEMMA LagRemoved ==
  ASSUME NEW cs \in Seq(CaptureRecords), NEW i \in 1..Len(cs), NEW d \in Nat, NEW n \in Nat,
         Lagging(cs, d, n)
  PROVE  /\ RemoveAt(cs, i) \in Seq(CaptureRecords)
         /\ Lagging(RemoveAt(cs, i), d, n)
         /\ i > 1 => RemoveAt(cs, i) # <<>> /\ RemoveAt(cs, i)[1] = cs[1]
<1>p. PICK ts, k : ts = RemoveAt(cs, i) /\ k = Len(cs)
  OBVIOUS
<1>1. /\ ts \in Seq(CaptureRecords) /\ Len(ts) = k - 1
      /\ \A j \in 1..(k - 1) : ts[j] = IF j < i THEN cs[j] ELSE cs[j + 1]
  BY <1>p, RemovedIs
<1>2. k \in Nat /\ i \in 1..k /\ \A j \in 1..k : cs[j] \in CaptureRecords
  BY <1>p, LenProperties, ElementOfSeq
<1>3. /\ d <= n
      /\ \A j \in 1..k : cs[j].len \in Nat /\ cs[j].len <= n /\ d <= cs[j].len
      /\ \A x \in 1..k, j \in 1..k : x <= j => cs[x].len <= cs[j].len
  BY <1>2, <1>p DEF Lagging, CaptureRecords
<1>m. ASSUME NEW j \in 1..(k - 1)
      PROVE  /\ j \in 1..k /\ j + 1 \in 1..k
             /\ j < i => ts[j] = cs[j]
             /\ ~(j < i) => ts[j] = cs[j + 1]
  <2>1. j \in 1..k /\ j + 1 \in 1..k
    BY <1>2
  <2>2. ts[j] = IF j < i THEN cs[j] ELSE cs[j + 1]
    BY <1>1
  <2>3. QED
    BY <2>1, <2>2
<1>4. ASSUME NEW j \in 1..(k - 1) PROVE ts[j].len <= n /\ d <= ts[j].len
  <2>1. PICK y \in 1..k : ts[j] = cs[y]
    BY <1>m
  <2>2. QED
    BY <1>3, <2>1
<1>5. ASSUME NEW x \in 1..(k - 1), NEW j \in 1..(k - 1), x <= j PROVE ts[x].len <= ts[j].len
  <2>1. PICK y \in 1..k, z \in 1..k : ts[x] = cs[y] /\ ts[j] = cs[z] /\ y <= z
    <3>1. CASE j < i
      <4>1. x \in 1..k /\ j \in 1..k /\ x < i
        BY <1>2, <1>5, <3>1
      <4>2. ts[x] = cs[x] /\ ts[j] = cs[j]
        BY <1>m, <3>1, <4>1
      <4>3. QED
        BY <1>5, <4>1, <4>2
    <3>2. CASE x < i /\ ~(j < i)
      <4>1. x \in 1..k /\ j + 1 \in 1..k /\ x <= j + 1
        BY <1>2, <1>5
      <4>2. QED
        BY <1>m, <3>2, <4>1
    <3>3. CASE ~(x < i)
      <4>1. x + 1 \in 1..k /\ j + 1 \in 1..k /\ x + 1 <= j + 1 /\ ~(j < i)
        BY <1>2, <1>5, <3>3
      <4>2. QED
        BY <1>m, <3>3, <4>1
    <3>4. QED
      BY <3>1, <3>2, <3>3
  <2>2. QED
    BY <1>3, <2>1
<1>6. Lagging(ts, d, n)
  BY <1>1, <1>3, <1>4, <1>5 DEF Lagging
<1>7. ASSUME i > 1 PROVE ts # <<>> /\ ts[1] = cs[1]
  <2>1. k - 1 # 0 /\ 1 \in 1..(k - 1)
    BY <1>2, <1>7
  <2>2. QED
    BY <1>1, <1>7, <2>1, EmptySeq
<1>8. QED
  BY <1>1, <1>6, <1>7, <1>p

\* What the rest of a list of queries brings.
LEMMA RestIs ==
  ASSUME NEW q \in Seq(Queries), q # <<>>
  PROVE  /\ Tail(q) \in Seq(Queries)
         /\ q[1] \in Queries
         /\ Ending(q) => /\ Ending(Tail(q))
                         /\ Tail(q) = <<>> => q[1].kind = "evict"
<1>p. PICK r, n : r = Tail(q) /\ n = Len(q)
  OBVIOUS
<1>1. /\ n \in Nat /\ n # 0 /\ r \in Seq(Queries) /\ Len(r) = n - 1
      /\ \A i \in 1..(n - 1) : r[i] = q[i + 1]
  BY <1>p, EmptySeq, LenProperties, HeadTailProperties
<1>2. q[1] \in Queries
  BY <1>1, <1>p, ElementOfSeq
<1>3. r = <<>> <=> n - 1 = 0
  BY <1>1, EmptySeq
<1>4. ASSUME Ending(q) PROVE Ending(r) /\ (r = <<>> => q[1].kind = "evict")
  <2>1. q[n].kind = "evict"
    BY <1>4, <1>p DEF Ending
  <2>2. n - 1 # 0 => r[n - 1] = q[n]
    <3>1. n - 1 # 0 => n - 1 \in 1..(n - 1) /\ (n - 1) + 1 = n
      BY <1>1
    <3>2. QED
      BY <1>1, <3>1
  <2>3. n - 1 = 0 => n = 1
    BY <1>1
  <2>4. QED
    BY <1>1, <1>3, <2>1, <2>2, <2>3 DEF Ending
<1>5. QED
  BY <1>1, <1>2, <1>4, <1>p

LEMMA RestBrings ==
  ASSUME NEW q \in Seq(Queries), q # <<>>, NEW p, NEW t
  PROVE  /\ Silent(q, p) => /\ Silent(Tail(q), p)
                            /\ q[1].path = p => q[1].kind = "evict"
         /\ Coming(q, p, t) => \/ Coming(Tail(q), p, t)
                               \/ /\ q[1] = [kind |-> "keep", path |-> p, text |-> t]
                                  /\ Silent(Tail(q), p)
<1>p. PICK r, n : r = Tail(q) /\ n = Len(q)
  OBVIOUS
<1>1. /\ n \in Nat /\ n # 0 /\ r \in Seq(Queries) /\ Len(r) = n - 1
      /\ \A i \in 1..(n - 1) : r[i] = q[i + 1]
  BY <1>p, EmptySeq, LenProperties, HeadTailProperties
<1>2. \A i \in 1..(n - 1) : i + 1 \in 2..n /\ i + 1 \in 1..n
  BY <1>1
<1>3. ASSUME \A m \in 2..n : q[m].path = p => q[m].kind = "evict" PROVE Silent(r, p)
  <2>1. \A i \in 1..(n - 1) : r[i].path = p => r[i].kind = "evict"
    BY <1>1, <1>2, <1>3
  <2>2. QED
    BY <1>1, <2>1 DEF Silent
<1>4. ASSUME Silent(q, p) PROVE Silent(r, p) /\ (q[1].path = p => q[1].kind = "evict")
  <2>1. \A m \in 1..n : q[m].path = p => q[m].kind = "evict"
    BY <1>4, <1>p DEF Silent
  <2>2. 1 \in 1..n /\ \A m \in 2..n : m \in 1..n
    BY <1>1
  <2>3. QED
    BY <1>3, <2>1, <2>2
<1>5. ASSUME Coming(q, p, t)
      PROVE  \/ Coming(r, p, t)
             \/ q[1] = [kind |-> "keep", path |-> p, text |-> t] /\ Silent(r, p)
  <2>1. PICK k \in 1..n : /\ q[k] = [kind |-> "keep", path |-> p, text |-> t]
                          /\ \A m \in (k + 1)..n : q[m].path = p => q[m].kind = "evict"
    BY <1>5, <1>p DEF Coming
  <2>2. CASE k = 1
    BY <1>3, <2>1, <2>2
  <2>3. CASE k # 1
    <3>1. k - 1 \in 1..(n - 1) /\ (k - 1) + 1 = k
      BY <1>1, <2>3
    <3>2. r[k - 1] = q[k]
      BY <1>1, <3>1
    <3>3. ASSUME NEW m \in ((k - 1) + 1)..(n - 1), r[m].path = p PROVE r[m].kind = "evict"
      <4>1. m \in 1..(n - 1) /\ m + 1 \in (k + 1)..n
        BY <1>1, <2>1, <3>1
      <4>2. QED
        BY <1>1, <2>1, <3>3, <4>1
    <3>4. Coming(r, p, t)
      BY <1>1, <2>1, <3>1, <3>2, <3>3 DEF Coming
    <3>5. QED
      BY <3>4
  <2>4. QED
    BY <2>2, <2>3
<1>6. QED
  BY <1>4, <1>5, <1>p

\* One more call: what was known of other files is, and of its own file only
\* what the call tells.
LEMMA HistoryGrows ==
  ASSUME NEW h \in Seq(CallsOf(Tools)), NEW e \in CallsOf(Tools)
  PROVE  /\ Append(h, e) \in Seq(CallsOf(Tools))
         /\ Len(Append(h, e)) = Len(h) + 1
         /\ Append(h, e)[Len(h) + 1] = e
         /\ \A i \in 1..Len(h) :
              /\ Append(h, e)[i] = h[i]
              /\ \A p : Later(Append(h, e), i, p) = {} =>
                          Later(h, i, p) = {} /\ (e.path = p => e.tool = "say")
<1>p. PICK g, n : g = Append(h, e) /\ n = Len(h)
  OBVIOUS
<1>1. /\ n \in Nat /\ g \in Seq(CallsOf(Tools)) /\ Len(g) = n + 1 /\ g[n + 1] = e
      /\ \A i \in 1..n : g[i] = h[i]
  BY <1>p, AppendProperties, LenProperties
<1>2. ASSUME NEW i \in 1..n, NEW p, Later(g, i, p) = {}
      PROVE  Later(h, i, p) = {} /\ (e.path = p => e.tool = "say")
  <2>1. \A j \in (i + 1)..(n + 1) : ~(g[j].path = p /\ g[j].tool # "say")
    BY <1>1, <1>2 DEF Later
  <2>2. n + 1 \in (i + 1)..(n + 1) /\ \A j \in (i + 1)..n : j \in (i + 1)..(n + 1) /\ j \in 1..n
    BY <1>1
  <2>3. \A j \in (i + 1)..n : ~(h[j].path = p /\ h[j].tool # "say")
    BY <1>1, <2>1, <2>2
  <2>4. Later(h, i, p) = {}
    BY <1>p, <2>3 DEF Later
  <2>5. ~(e.path = p /\ e.tool # "say")
    BY <1>1, <2>1, <2>2
  <2>6. QED
    BY <2>4, <2>5
<1>3. QED
  BY <1>1, <1>2, <1>p

LEMMA KnownThen ==
  ASSUME NEW h \in Seq(CallsOf(Tools)), NEW e \in CallsOf(Tools), NEW n \in 0..Len(h), NEW i,
         KnownBy(Append(h, e), i, n)
  PROVE  KnownBy(h, i, n) /\ i \in 1..Len(h) /\ Append(h, e)[i] = h[i]
<1>1. i \in 1..n /\ i \in 1..Len(h)
  BY LenProperties DEF KnownBy
<1>2. Append(h, e)[i] = h[i]
  BY <1>1, HistoryGrows
<1>3. Later(Append(h, e), i, h[i].path) = {}
  BY <1>2 DEF KnownBy
<1>4. Later(h, i, h[i].path) = {}
  BY <1>1, <1>3, HistoryGrows
<1>5. QED
  BY <1>1, <1>2, <1>4 DEF KnownBy

LEMMA SeenThen ==
  ASSUME NEW h \in Seq(CallsOf(Tools)), NEW e \in CallsOf(Tools), NEW n \in 0..Len(h), Seen(h, n)
  PROVE  Seen(Append(h, e), n)
<1>1. PICK i \in 1..n : h[i] \in Shown
  BY DEF Seen
<1>2. i \in 1..Len(h)
  BY LenProperties
<1>3. Append(h, e)[i] = h[i]
  BY <1>2, HistoryGrows
<1>4. QED
  BY <1>1, <1>3 DEF Seen

LEMMA CallIs ==
  ASSUME CacheTypes, NEW c \in Calls
  PROVE  /\ Ran(c) \in CallsOf(Tools)
         /\ Ran(c).tool = c.tool /\ Ran(c).path = c.path
         /\ c.tool = "read" => Ran(c).text = disk[c.path]
         /\ c.tool = "write" => Ran(c).text = Whole(Len(log) + 1, c.size)
         /\ c.path \in Paths /\ c.tool \in Tools /\ c.size \in Sizes
<1>1. c \in [tool : Tools, path : Paths, size : Sizes]
  BY FileCacheAssumption
<1>d. PICK d, n, z : d = disk[c.path] /\ n = Len(log) + 1 /\ z = c.size
  OBVIOUS
<1>2. d \in Texts /\ d.version \in Nat /\ n \in Nat /\ z \in Sizes
  BY <1>1, <1>d, LenProperties DEF CacheTypes, Texts
<1>3. \A v \in Nat, y \in Sizes : Whole(v, y) \in Texts /\ Part(v, y) \in Texts /\ Note(v) \in Texts
  BY DEF Whole, Part, Note, Texts, Sizes
<1>t. PICK text : text = CASE c.tool = "read"  -> d
                           [] c.tool = "part"  -> Part(d.version, z)
                           [] c.tool = "write" -> Whole(n, z)
                           [] OTHER            -> Note(n)
  OBVIOUS
<1>4. /\ text \in Texts
      /\ c.tool = "read" => text = d
      /\ c.tool = "write" => text = Whole(n, z)
  BY <1>2, <1>3, <1>t
<1>5. Ran(c) = [tool |-> c.tool, path |-> c.path, text |-> text]
  BY <1>d, <1>t DEF Ran
<1>6. QED
  BY <1>1, <1>4, <1>5, <1>d DEF CallsOf

\* The client runs a call.
LEMMA RecordedThen ==
  ASSUME NEW h \in Seq(CallsOf(Tools)), NEW e \in CallsOf(Tools), NEW d, NEW d2,
         Recorded(h, d),
         \A p \in Paths : (e.path = p => e.tool = "say") => d2[p] = d[p],
         e.tool \in {"read", "write"} => e.text = d2[e.path]
  PROVE  Recorded(Append(h, e), d2)
<1>p. PICK g, n : g = Append(h, e) /\ n = Len(h)
  OBVIOUS
<1>1. /\ n \in Nat /\ Len(g) = n + 1 /\ g[n + 1] = e
      /\ \A i \in 1..n : g[i] = h[i] /\ h[i] \in CallsOf(Tools)
  BY <1>p, HistoryGrows, LenProperties, ElementOfSeq
<1>2. ASSUME NEW i \in 1..(n + 1), g[i].tool \in {"read", "write"},
             Later(g, i, g[i].path) = {}
      PROVE  g[i].text = d2[g[i].path]
  <2>1. CASE i = n + 1
    BY <1>1, <1>2, <2>1
  <2>2. CASE i # n + 1
    <3>1. i \in 1..n /\ g[i] = h[i] /\ h[i].path \in Paths
      BY <1>1, <2>2 DEF CallsOf
    <3>2. Later(h, i, h[i].path) = {} /\ (e.path = h[i].path => e.tool = "say")
      BY <1>2, <1>p, <3>1, HistoryGrows
    <3>3. h[i].text = d[h[i].path]
      BY <1>2, <1>p, <3>1, <3>2 DEF Recorded
    <3>4. d2[h[i].path] = d[h[i].path]
      BY <3>1, <3>2
    <3>5. QED
      BY <3>1, <3>3, <3>4
  <2>3. QED
    BY <2>1, <2>2
<1>3. QED
  BY <1>1, <1>2, <1>p DEF Recorded

LEMMA HorizonIn ==
  ASSUME CacheTypes, CapturesOrdered
  PROVE  /\ Horizon \in 0..Len(log) /\ Len(log) \in Nat /\ done <= Horizon
         /\ running => captures[1] \in CaptureRecords /\ 1 \in 1..Len(captures)
<1>1. Len(log) \in Nat /\ Len(captures) \in Nat /\ done \in Nat
  BY LenProperties DEF CacheTypes
<1>2. captures # <<>> => 1 \in 1..Len(captures)
  BY <1>1, EmptySeq DEF CacheTypes
<1>3. captures # <<>> => captures[1] \in CaptureRecords
  BY <1>2, ElementOfSeq DEF CacheTypes
<1>4. captures # <<>> => captures[1].len \in Nat /\ captures[1].len <= Len(log) /\ done <= captures[1].len
  BY <1>2, <1>3 DEF CapturesOrdered, Lagging, CaptureRecords
<1>5. done <= Len(log)
  BY DEF CapturesOrdered, Lagging
<1>6. CASE running
  BY <1>1, <1>2, <1>3, <1>4, <1>6 DEF Horizon, CapturesOrdered
<1>7. CASE ~running
  BY <1>1, <1>5, <1>7 DEF Horizon
<1>8. QED
  BY <1>6, <1>7

LEMMA CacheExecute ==
  ASSUME CacheInv, NEW c \in Calls, NEW text \in BOOLEAN, Execute(c, text)
  PROVE  CacheInv'
<1>. USE DEF CacheInv
<1>1. /\ log' = Append(log, Ran(c))
      /\ disk' = IF c.tool \in Changes THEN [disk EXCEPT ![c.path] = Whole(Len(log) + 1, c.size)] ELSE disk
      /\ captures' = IF text THEN Append(captures, [len |-> Len(log), turn |-> turn]) ELSE captures
      /\ asked' = {}
      /\ running' = running /\ todo' = todo /\ cache' = cache /\ outline' = outline
      /\ done' = done /\ dirty' = dirty /\ turn' = turn
  BY DEF Execute, rowVars
<1>e. PICK e, n, h, r : e = Ran(c) /\ n = Len(log) /\ h = log /\ r = Horizon
  OBVIOUS
<1>2. /\ e \in CallsOf(Tools) /\ e.tool = c.tool /\ e.path = c.path
      /\ c.tool = "read" => e.text = disk[c.path]
      /\ c.tool = "write" => e.text = Whole(n + 1, c.size)
      /\ c.path \in Paths /\ c.tool \in Tools /\ c.size \in Sizes
  BY <1>e, CallIs
<1>3. h \in Seq(CallsOf(Tools)) /\ n \in Nat /\ n = Len(h) /\ disk \in [Paths -> Texts]
  BY <1>e, LenProperties DEF CacheTypes
<1>4. r \in 0..n /\ done <= r
  BY <1>e, HorizonIn
<1>g. log' = Append(h, e)
  BY <1>1, <1>e
<1>5. log' \in Seq(CallsOf(Tools)) /\ Len(log') = n + 1
  BY <1>2, <1>3, <1>g, HistoryGrows
<1>c. PICK cr : cr = [len |-> n, turn |-> turn]
  OBVIOUS
<1>6. cr \in CaptureRecords /\ cr.len = n
  BY <1>3, <1>c DEF CacheTypes, CaptureRecords
<1>7. captures' = captures \/ captures' = Append(captures, cr)
  BY <1>1, <1>c, <1>e
<1>8. captures \in Seq(CaptureRecords) /\ captures' \in Seq(CaptureRecords)
  <2>1. captures \in Seq(CaptureRecords)
    BY DEF CacheTypes
  <2>2. Append(captures, cr) \in Seq(CaptureRecords)
    BY <1>6, <2>1, AppendProperties
  <2>3. QED
    BY <1>7, <2>1, <2>2
<1>9. disk' \in [Paths -> Texts]
  <2>w. Whole(n + 1, c.size) \in Texts
    BY <1>2, <1>3 DEF Whole, Texts
  <2>1. [disk EXCEPT ![c.path] = Whole(n + 1, c.size)] \in [Paths -> Texts]
    BY <1>2, <1>3, <2>w
  <2>2. QED
    BY <1>1, <1>3, <1>e, <2>1
<1>10. CacheTypes'
  BY <1>1, <1>5, <1>8, <1>9 DEF CacheTypes
<1>11. CapturesOrdered' /\ Horizon' = r
  <2>1. Lagging(captures, done, n) /\ done \in Nat
    BY <1>e DEF CapturesOrdered, CacheTypes
  <2>2. n + 1 \in Nat /\ n <= n + 1
    BY <1>3
  <2>3. Lagging(captures, done, n + 1) /\ Lagging(Append(captures, cr), done, n + 1)
    BY <1>3, <1>6, <1>8, <2>1, <2>2, LagAppended
  <2>4. Lagging(captures', done', Len(log'))
    BY <1>1, <1>5, <1>7, <2>3
  <2>5. running => captures # <<>> /\ 1 \in 1..Len(captures)
    BY HorizonIn DEF CapturesOrdered
  <2>6. running => captures'[1] = captures[1] /\ captures' # <<>>
    <3>1. ASSUME running PROVE Append(captures, cr)[1] = captures[1] /\ Append(captures, cr) # <<>>
      <4>p. PICK cs, a, k : cs = captures /\ a = Append(cs, cr) /\ k = Len(cs)
        OBVIOUS
      <4>1. /\ a \in Seq(CaptureRecords) /\ Len(a) = k + 1 /\ k \in Nat
            /\ \A i \in 1..k : a[i] = cs[i]
        BY <1>6, <1>8, <4>p, AppendProperties, LenProperties
      <4>2. 1 \in 1..k
        BY <2>5, <3>1, <4>p
      <4>3. a[1] = cs[1] /\ Len(a) # 0
        BY <4>1, <4>2
      <4>4. a # <<>>
        BY <4>1, <4>3, EmptySeq
      <4>5. QED
        BY <4>3, <4>4, <4>p
    <3>2. QED
      BY <1>7, <2>5, <3>1
  <2>7. QED
    BY <1>1, <1>e, <2>4, <2>6 DEF CapturesOrdered, Horizon
<1>12. Recorded(log', disk')
  <2>1. Recorded(h, disk)
    BY <1>e
  <2>2. \A p \in Paths : (e.path = p => e.tool = "say") => disk'[p] = disk[p]
    <3>1. "say" \notin Changes
      BY DEF Changes, NativeWrites
    <3>2. QED
      BY <1>1, <1>2, <1>3, <3>1
  <2>3. e.tool \in {"read", "write"} => e.text = disk'[e.path]
    <3>1. "read" \notin Changes /\ "write" \in Changes
      BY DEF Changes, NativeWrites
    <3>2. CASE c.tool = "read"
      BY <1>1, <1>2, <3>1, <3>2
    <3>3. CASE c.tool = "write"
      <4>1. disk'[c.path] = Whole(n + 1, c.size)
        BY <1>1, <1>2, <1>3, <1>e, <3>1, <3>3
      <4>2. QED
        BY <1>2, <3>3, <4>1
    <3>4. QED
      BY <1>2, <3>2, <3>3
  <2>d. PICK d2 : d2 = disk'
    OBVIOUS
  <2>4. Recorded(Append(h, e), d2)
    BY <1>2, <1>3, <2>1, <2>2, <2>3, <2>d, RecordedThen
  <2>5. QED
    BY <1>g, <2>4, <2>d
<1>13. RowsSeen'
  <2>1. DOMAIN cache # {} \/ DOMAIN outline # {} \/ todo # <<>> => Seen(h, r)
    BY <1>e DEF RowsSeen
  <2>2. Seen(h, r) => Seen(Append(h, e), r)
    BY <1>2, <1>3, <1>4, SeenThen
  <2>3. QED
    BY <1>1, <1>11, <1>g, <2>1, <2>2 DEF RowsSeen
<1>14. Bounded'
  BY <1>1 DEF Bounded, Fits
<1>15. Fresh'
  <2>1. ASSUME ~dirty, NEW i \in 1..r, KnownBy(Append(h, e), i, r)
        PROVE  Comes(Append(h, e)[i].path, Append(h, e)[i].text)
    <3>1. KnownBy(h, i, r) /\ Append(h, e)[i] = h[i]
      BY <1>2, <1>3, <1>4, <2>1, KnownThen
    <3>2. Comes(h[i].path, h[i].text)
      BY <1>e, <2>1, <3>1 DEF Fresh
    <3>3. QED
      BY <3>1, <3>2
  <2>2. \A p, t : Comes(p, t) => (Coming(todo', p, t) \/ (Silent(todo', p) /\ (p \in DOMAIN cache' => cache'[p].text = t)))
    BY <1>1 DEF Comes
  <2>3. QED
    BY <1>1, <1>11, <1>g, <2>1, <2>2 DEF Fresh, Comes
<1>16. QED
  BY <1>10, <1>11, <1>12, <1>13, <1>14, <1>15

\* A step that leaves the capture, the rows and the client's files alone.
LEMMA CacheRests ==
  ASSUME CacheInv, asked' \subseteq Calls, turn' \in Nat,
         UNCHANGED <<disk, log, captures, running, todo, cache, outline, done, dirty>>
  PROVE  CacheInv'
<1>. USE DEF CacheInv
<1>1. CacheTypes'
  BY DEF CacheTypes
<1>2. CapturesOrdered' /\ Horizon' = Horizon
  BY DEF CapturesOrdered, Horizon
<1>3. Recorded(log', disk')
  OBVIOUS
<1>4. RowsSeen'
  BY <1>2 DEF RowsSeen
<1>5. Bounded'
  BY DEF Bounded, Fits
<1>6. Fresh'
  BY <1>2 DEF Fresh, Comes
<1>7. QED
  BY <1>1, <1>2, <1>3, <1>4, <1>5, <1>6

LEMMA NoRows ==
  ASSUME NEW f, NEW g, DOMAIN f = {}, DOMAIN g = {}
  PROVE  Cardinality(DOMAIN f) <= MaxEntries /\ Cardinality(DOMAIN g) <= MaxEntries
BY FS_EmptySet, FileCacheAssumption

LEMMA CaptureStarts ==
  ASSUME CacheInv, StartCapture
  PROVE  CacheInv'
<1>. USE DEF CacheInv
<1>n. PICK n, h : n = captures[1].len /\ h = SubSeq(log, 1, n)
  OBVIOUS
<1>1. /\ ~running /\ captures # <<>> /\ running' = TRUE /\ todo' = Plan(h) /\ dirty' = FALSE
      /\ captures' = captures /\ cache' = cache /\ outline' = outline /\ done' = done
      /\ log' = log /\ disk' = disk /\ asked' = asked /\ turn' = turn
  BY <1>n DEF StartCapture, clientVars, rowVars
<1>2. /\ n \in Nat /\ n <= Len(log) /\ done <= n /\ Len(log) \in Nat /\ done \in Nat
  <2>1. Len(log) \in Nat /\ Len(captures) \in Nat /\ done \in Nat
    BY LenProperties DEF CacheTypes
  <2>2. captures \in Seq(CaptureRecords)
    BY DEF CacheTypes
  <2>3. 1 \in 1..Len(captures)
    BY <1>1, <2>1, <2>2, EmptySeq
  <2>4. captures[1] \in CaptureRecords
    BY <2>2, <2>3, ElementOfSeq
  <2>5. captures[1].len <= Len(log) /\ done <= captures[1].len
    BY <2>3 DEF CapturesOrdered, Lagging
  <2>6. QED
    BY <1>n, <2>1, <2>4, <2>5 DEF CaptureRecords
<1>3. /\ h \in Seq(CallsOf(Tools)) /\ Len(h) = n
      /\ \A i \in 1..n : h[i] = log[i]
  <2>1. log \in Seq(CallsOf(Tools)) /\ \A i \in 1..Len(log) : log[i] \in CallsOf(Tools)
    BY ElementOfSeq DEF CacheTypes
  <2>2. h = [i \in 1..n |-> log[i]]
    <3>1. h = [i \in 1..(n - 1 + 1) |-> log[1 + i - 1]]
      BY <1>2, <1>n, <2>1
    <3>2. n - 1 + 1 = n /\ \A i \in 1..n : 1 + i - 1 = i
      BY <1>2
    <3>3. QED
      BY <3>1, <3>2
  <2>3. \A i \in 1..n : log[i] \in CallsOf(Tools)
    BY <1>2, <2>1
  <2>4. h \in [1..n -> CallsOf(Tools)]
    BY <2>2, <2>3
  <2>5. QED
    BY <1>2, <2>2, <2>4, ListOf
<1>4. /\ Plan(h) \in Seq(Queries) /\ Ending(Plan(h))
      /\ Plan(h) # <<>> <=> Seen(log, n)
  <2>1. Plan(h) # <<>> <=> \E i \in 1..Len(h) : h[i] \in Shown
    BY <1>3, PlanIs
  <2>2. QED
    BY <1>3, <2>1, PlanIs DEF Seen
<1>5. DOMAIN cache # {} \/ DOMAIN outline # {} => Seen(log, n)
  <2>1. Horizon = done
    BY <1>1 DEF Horizon
  <2>2. DOMAIN cache # {} \/ DOMAIN outline # {} => Seen(log, done)
    BY <2>1 DEF RowsSeen
  <2>3. Seen(log, done) => Seen(log, n)
    BY <1>2 DEF Seen
  <2>4. QED
    BY <2>2, <2>3
<1>6. CacheTypes'
  BY <1>1, <1>4 DEF CacheTypes
<1>7. CapturesOrdered' /\ Horizon' = n
  BY <1>1, <1>n DEF CapturesOrdered, Horizon
<1>8. Recorded(log', disk')
  BY <1>1
<1>9. RowsSeen'
  BY <1>1, <1>4, <1>5, <1>7 DEF RowsSeen
<1>10. Bounded'
  <2>1. todo' = <<>> => DOMAIN cache = {} /\ DOMAIN outline = {}
    BY <1>1, <1>4, <1>5
  <2>2. todo' = <<>> => Fits
    BY <2>1, NoRows DEF Fits
  <2>3. Fits => Fits'
    BY <1>1 DEF Fits
  <2>4. QED
    BY <1>1, <1>4, <2>2, <2>3 DEF Bounded
<1>11. Fresh'
  <2>1. ASSUME NEW i \in 1..n, KnownBy(log, i, n)
        PROVE  Coming(Plan(h), log[i].path, log[i].text)
    <3>1. h[i] = log[i] /\ i \in 1..n
      BY <1>3
    <3>2. Later(log, i, log[i].path) = {}
      BY <2>1 DEF KnownBy
    <3>3. Later(h, i, h[i].path) = {}
      <4>1. \A j \in (i + 1)..n : j \in (i + 1)..Len(log) /\ h[j] = log[j]
        BY <1>2, <1>3
      <4>2. \A j \in (i + 1)..n : ~(h[j].path = log[i].path /\ h[j].tool # "say")
        BY <3>2, <4>1 DEF Later
      <4>3. QED
        BY <1>3, <3>1, <4>2 DEF Later
    <3>4. KnownBy(h, i, Len(h))
      BY <1>3, <2>1, <3>1, <3>3 DEF KnownBy
    <3>5. Coming(Plan(h), h[i].path, h[i].text)
      BY <1>3, <3>4, PlanComes
    <3>6. QED
      BY <3>1, <3>5
  <2>2. QED
    BY <1>1, <1>7, <2>1 DEF Fresh, Comes
<1>12. QED
  BY <1>6, <1>7, <1>8, <1>9, <1>10, <1>11

LEMMA CaptureEnds ==
  ASSUME CacheInv, EndCapture
  PROVE  CacheInv'
<1>. USE DEF CacheInv
<1>n. PICK n : n = captures[1].len
  OBVIOUS
<1>1. /\ running /\ todo = <<>> /\ running' = FALSE /\ captures' = Tail(captures) /\ done' = n
      /\ todo' = todo /\ cache' = cache /\ outline' = outline /\ dirty' = dirty
      /\ log' = log /\ disk' = disk /\ asked' = asked /\ turn' = turn
  BY <1>n DEF EndCapture, clientVars, rowVars
<1>2. captures \in Seq(CaptureRecords) /\ captures # <<>> /\ Lagging(captures, done, Len(log))
  BY <1>1 DEF CacheTypes, CapturesOrdered
<1>3. Len(log) \in Nat /\ done \in Nat
  BY LenProperties DEF CacheTypes
<1>4. Tail(captures) \in Seq(CaptureRecords) /\ n \in Nat /\ Lagging(Tail(captures), n, Len(log))
  BY <1>2, <1>3, <1>n, LagEnded
<1>5. CacheTypes'
  BY <1>1, <1>4 DEF CacheTypes
<1>6. CapturesOrdered'
  BY <1>1, <1>4 DEF CapturesOrdered
<1>7. Horizon' = n /\ Horizon = n
  BY <1>1, <1>n DEF Horizon
<1>8. Recorded(log', disk')
  BY <1>1
<1>9. RowsSeen'
  BY <1>1, <1>7 DEF RowsSeen
<1>10. Bounded'
  BY <1>1 DEF Bounded, Fits
<1>11. Fresh'
  BY <1>1, <1>7 DEF Fresh, Comes
<1>12. QED
  BY <1>5, <1>6, <1>8, <1>9, <1>10, <1>11

LEMMA CaptureGivesUp ==
  ASSUME CacheInv, NEW i \in DOMAIN captures, GiveUp(i)
  PROVE  CacheInv'
<1>. USE DEF CacheInv
<1>1. /\ running => i > 1
      /\ captures' = RemoveAt(captures, i) /\ running' = running /\ done' = done
      /\ todo' = todo /\ cache' = cache /\ outline' = outline /\ dirty' = dirty
      /\ log' = log /\ disk' = disk /\ asked' = asked /\ turn' = turn
  BY DEF GiveUp, clientVars, rowVars
<1>2. /\ captures \in Seq(CaptureRecords) /\ i \in 1..Len(captures)
      /\ Lagging(captures, done, Len(log)) /\ done \in Nat /\ Len(log) \in Nat
  BY LenProperties DEF CacheTypes, CapturesOrdered
<1>3. /\ captures' \in Seq(CaptureRecords) /\ Lagging(captures', done, Len(log))
      /\ i > 1 => captures' # <<>> /\ captures'[1] = captures[1]
  BY <1>1, <1>2, LagRemoved
<1>4. CacheTypes'
  BY <1>1, <1>3 DEF CacheTypes
<1>5. CapturesOrdered' /\ Horizon' = Horizon
  BY <1>1, <1>3 DEF CapturesOrdered, Horizon
<1>6. Recorded(log', disk')
  BY <1>1
<1>7. RowsSeen'
  BY <1>1, <1>5 DEF RowsSeen
<1>8. Bounded'
  BY <1>1 DEF Bounded, Fits
<1>9. Fresh'
  BY <1>1, <1>5 DEF Fresh, Comes
<1>10. QED
  BY <1>4, <1>5, <1>6, <1>7, <1>8, <1>9

\* A query was made: the rows it does not name stay or go, and what it keeps is
\* what it says.
Answered ==
  LET q == todo[1]
  IN  /\ running /\ todo # <<>>
      /\ todo' = Tail(todo)
      /\ UNCHANGED <<clientVars, captures, running, done>>
      /\ RowsOf(cache') /\ RowsOf(outline')
      /\ dirty' \in BOOLEAN
      /\ ~dirty' => /\ ~dirty
                    /\ q.kind = "evict" => Fits'
                    /\ \A p \in DOMAIN cache' :
                         IF q.kind = "keep" /\ q.path = p THEN cache'[p].text = q.text
                         ELSE p \in DOMAIN cache /\ cache'[p] = cache[p]

LEMMA CacheAnswered ==
  ASSUME CacheInv, Answered
  PROVE  CacheInv'
<1>. USE DEF CacheInv
<1>q. PICK q, r : q = todo[1] /\ r = Tail(todo)
  OBVIOUS
<1>1. /\ running /\ todo # <<>> /\ todo' = r /\ RowsOf(cache') /\ RowsOf(outline')
      /\ captures' = captures /\ running' = running /\ done' = done /\ dirty' \in BOOLEAN
      /\ log' = log /\ disk' = disk /\ asked' = asked /\ turn' = turn
  BY <1>q DEF Answered, clientVars
<1>2. ~dirty' => /\ ~dirty
                 /\ q.kind = "evict" => Fits'
                 /\ \A p \in DOMAIN cache' :
                      IF q.kind = "keep" /\ q.path = p THEN cache'[p].text = q.text
                      ELSE p \in DOMAIN cache /\ cache'[p] = cache[p]
  BY <1>q DEF Answered
<1>3. todo \in Seq(Queries)
  BY DEF CacheTypes
<1>4. /\ r \in Seq(Queries) /\ q \in Queries
      /\ Ending(r) /\ (r = <<>> => q.kind = "evict")
  <2>1. Ending(todo)
    BY DEF Bounded
  <2>2. QED
    BY <1>1, <1>3, <1>q, <2>1, RestIs
<1>5. CacheTypes'
  BY <1>1, <1>4 DEF CacheTypes
<1>6. CapturesOrdered' /\ Horizon' = Horizon
  BY <1>1 DEF CapturesOrdered, Horizon
<1>7. Recorded(log', disk')
  BY <1>1
<1>8. RowsSeen'
  <2>1. Seen(log, Horizon)
    BY <1>1 DEF RowsSeen
  <2>2. QED
    BY <1>1, <1>6, <2>1 DEF RowsSeen
<1>9. Bounded'
  BY <1>1, <1>2, <1>4 DEF Bounded
<1>10. ASSUME ~dirty', NEW p, NEW t, Comes(p, t)
       PROVE  Coming(r, p, t) \/ (Silent(r, p) /\ (p \in DOMAIN cache' => cache'[p].text = t))
  <2>1. CASE Coming(todo, p, t)
    <3>1. \/ Coming(r, p, t)
          \/ q = [kind |-> "keep", path |-> p, text |-> t] /\ Silent(r, p)
      BY <1>1, <1>3, <1>q, <2>1, RestBrings
    <3>2. ASSUME q = [kind |-> "keep", path |-> p, text |-> t], p \in DOMAIN cache'
          PROVE  cache'[p].text = t
      <4>1. q.kind = "keep" /\ q.path = p /\ q.text = t
        BY <3>2
      <4>2. QED
        BY <1>2, <1>10, <3>2, <4>1
    <3>3. QED
      BY <3>1, <3>2
  <2>2. CASE Silent(todo, p) /\ (p \in DOMAIN cache => cache[p].text = t)
    <3>1. Silent(r, p) /\ (q.path = p => q.kind = "evict")
      BY <1>1, <1>3, <1>q, <2>2, RestBrings
    <3>2. ASSUME p \in DOMAIN cache' PROVE cache'[p].text = t
      <4>1. ~(q.kind = "keep" /\ q.path = p)
        BY <3>1
      <4>2. p \in DOMAIN cache /\ cache'[p] = cache[p]
        BY <1>2, <1>10, <3>2, <4>1
      <4>3. QED
        BY <2>2, <4>2
    <3>3. QED
      BY <3>1, <3>2
  <2>3. QED
    BY <1>10, <2>1, <2>2 DEF Comes
<1>11. Fresh'
  <2>1. ASSUME ~dirty', NEW i \in 1..Horizon, KnownBy(log, i, Horizon)
        PROVE  Comes(log[i].path, log[i].text)
    BY <1>2, <2>1 DEF Fresh
  <2>2. QED
    BY <1>1, <1>6, <1>10, <2>1 DEF Fresh, Comes
<1>12. QED
  BY <1>5, <1>6, <1>7, <1>8, <1>9, <1>11

\* What the queries do to the rows.
RowsAmong(g, f) == RowsOf(g) /\ \A p \in DOMAIN g : p \in DOMAIN f /\ g[p] = f[p]

LEMMA WithoutIs ==
  ASSUME NEW f, NEW S, RowsOf(f)
  PROVE  RowsAmong(Without(f, S), f) /\ DOMAIN Without(f, S) = DOMAIN f \ S
<1>1. DOMAIN Without(f, S) = DOMAIN f \ S
  BY DEF Without
<1>2. IsFiniteSet(DOMAIN f \ S)
  BY FS_Difference DEF RowsOf
<1>3. \A p \in DOMAIN f \ S : Without(f, S)[p] = f[p]
  BY DEF Without
<1>4. QED
  BY <1>1, <1>2, <1>3 DEF RowsOf, RowsAmong

LEMMA WithIs ==
  ASSUME NEW f, NEW p \in Paths, NEW row, RowsOf(f)
  PROVE  /\ RowsOf(With(f, p, row))
         /\ p \in DOMAIN With(f, p, row) /\ With(f, p, row)[p] = row
         /\ \A x \in DOMAIN With(f, p, row) \ {p} : x \in DOMAIN f /\ With(f, p, row)[x] = f[x]
<1>1. DOMAIN With(f, p, row) = DOMAIN f \cup {p}
  BY DEF With
<1>2. IsFiniteSet(DOMAIN f \cup {p})
  BY FS_AddElement DEF RowsOf
<1>3. \A x \in DOMAIN f \cup {p} : With(f, p, row)[x] = IF x = p THEN row ELSE f[x]
  BY DEF With
<1>4. QED
  BY <1>1, <1>2, <1>3 DEF RowsOf

\* An eviction leaves at most MaxEntries rows.
LEMMA ExcessIs ==
  ASSUME NEW f, RowsOf(f), NEW S \in Excess(f)
  PROVE  Cardinality(DOMAIN f \ S) <= MaxEntries
<1>n. PICK n, D : n = Cardinality(DOMAIN f) /\ D = DOMAIN f
  OBVIOUS
<1>1. IsFiniteSet(D) /\ n = Cardinality(D) /\ n \in Nat /\ MaxEntries \in Nat
  BY <1>n, FS_CardinalityType, FileCacheAssumption DEF RowsOf
<1>2. S \subseteq D /\ Cardinality(S) = IF n - MaxEntries > 0 THEN n - MaxEntries ELSE 0
  BY <1>n DEF Excess
<1>3. D \cap S = S
  BY <1>2
<1>4. Cardinality(D \ S) = n - Cardinality(D \cap S)
  BY <1>1, FS_Difference
<1>c. PICK c, k : c = Cardinality(D \ S) /\ k = Cardinality(S)
  OBVIOUS
<1>5. c = n - k /\ k = IF n - MaxEntries > 0 THEN n - MaxEntries ELSE 0
  BY <1>2, <1>3, <1>4, <1>c
<1>6. c <= MaxEntries
  BY <1>1, <1>5
<1>7. QED
  BY <1>6, <1>c, <1>n

LEMMA QueriedIs ==
  ASSUME CacheTypes, NEW ok \in BOOLEAN, Queried(ok)
  PROVE  /\ running /\ todo # <<>> /\ todo' = Tail(todo) /\ todo[1] \in Queries
         /\ UNCHANGED <<clientVars, captures, running, done>>
         /\ dirty' \in BOOLEAN
         /\ ~dirty' => ~dirty /\ ok
<1>1. todo \in Seq(Queries) /\ todo # <<>> /\ dirty \in BOOLEAN
  BY DEF CacheTypes, Queried
<1>2. todo[1] \in Queries
  BY <1>1, RestIs
<1>3. dirty' = (dirty \/ ~ok)
  BY DEF Queried
<1>4. dirty' \in BOOLEAN /\ (~dirty' => ~dirty /\ ok)
  BY <1>1, <1>3
<1>5. QED
  BY <1>2, <1>4 DEF Queried

LEMMA DropAnswers ==
  ASSUME CacheInv, NEW n \in 0..2, Drop(n)
  PROVE  Answered
<1>q. PICK q : q = todo[1]
  OBVIOUS
<1>0. CacheTypes /\ RowsOf(cache) /\ RowsOf(outline)
  BY DEF CacheInv, CacheTypes
<1>1. /\ q.kind = "drop" /\ Queried(n = 2)
      /\ cache' = IF n >= 1 THEN Without(cache, {q.path}) ELSE cache
      /\ outline' = IF n = 2 THEN Without(outline, {q.path}) ELSE outline
  BY <1>q DEF Drop
<1>2. /\ running /\ todo # <<>> /\ todo' = Tail(todo)
      /\ UNCHANGED <<clientVars, captures, running, done>>
      /\ dirty' \in BOOLEAN
      /\ ~dirty' => ~dirty
  BY <1>0, <1>1, QueriedIs
<1>3. RowsAmong(cache, cache) /\ RowsAmong(outline, outline)
  BY <1>0 DEF RowsAmong
<1>4. RowsAmong(cache', cache) /\ RowsAmong(outline', outline)
  BY <1>0, <1>1, <1>3, WithoutIs
<1>5. QED
  BY <1>1, <1>2, <1>4, <1>q DEF Answered, RowsAmong

LEMMA KeepAnswers ==
  ASSUME CacheInv, NEW n \in 0..2, Keep(n)
  PROVE  Answered
<1>q. PICK q, row : q = todo[1] /\ row = [text |-> q.text, turn |-> captures[1].turn]
  OBVIOUS
<1>0. CacheTypes /\ RowsOf(cache) /\ RowsOf(outline)
  BY DEF CacheInv, CacheTypes
<1>1. /\ q.kind = "keep" /\ Queried(n = 2) /\ row.text = q.text
      /\ cache' = IF n >= 1 THEN Kept(cache, q.path, row) ELSE cache
      /\ outline' = IF n = 2 THEN Outlined(q, row) ELSE outline
  BY <1>q DEF Keep
<1>2. /\ running /\ todo # <<>> /\ todo' = Tail(todo) /\ q \in Queries
      /\ UNCHANGED <<clientVars, captures, running, done>>
      /\ dirty' \in BOOLEAN
      /\ ~dirty' => ~dirty /\ n = 2
  BY <1>0, <1>1, <1>q, QueriedIs
<1>3. q.path \in Paths
  BY <1>2 DEF Queries
<1>4. /\ RowsOf(With(cache, q.path, row)) /\ RowsOf(With(outline, q.path, row))
      /\ With(cache, q.path, row)[q.path] = row
      /\ \A x \in DOMAIN With(cache, q.path, row) \ {q.path} :
           x \in DOMAIN cache /\ With(cache, q.path, row)[x] = cache[x]
  BY <1>0, <1>3, WithIs
<1>5. RowsOf(cache') /\ RowsOf(outline')
  BY <1>0, <1>1, <1>4 DEF Kept, Outlined
<1>6. ASSUME ~dirty', NEW p \in DOMAIN cache'
      PROVE  IF q.path = p THEN cache'[p].text = q.text
             ELSE p \in DOMAIN cache /\ cache'[p] = cache[p]
  <2>1. cache' = Kept(cache, q.path, row)
    BY <1>1, <1>2, <1>6
  <2>2. CASE q.path \in DOMAIN cache /\ cache[q.path].text = row.text
    BY <1>1, <1>6, <2>1, <2>2 DEF Kept
  <2>3. CASE ~(q.path \in DOMAIN cache /\ cache[q.path].text = row.text)
    <3>1. cache' = With(cache, q.path, row)
      BY <2>1, <2>3 DEF Kept
    <3>2. QED
      BY <1>1, <1>4, <1>6, <3>1
  <2>4. QED
    BY <2>2, <2>3
<1>7. QED
  BY <1>1, <1>2, <1>5, <1>6, <1>q DEF Answered

LEMMA EvictAnswers ==
  ASSUME CacheInv, NEW n \in 0..4, Evict(n)
  PROVE  Answered
<1>q. PICK q : q = todo[1]
  OBVIOUS
<1>0. CacheTypes /\ RowsOf(cache) /\ RowsOf(outline)
  BY DEF CacheInv, CacheTypes
<1>c. PICK c, o : /\ c = IF n >= 1 THEN Without(cache, Old(cache)) ELSE cache
                  /\ o = IF n >= 2 THEN Without(outline, Old(outline)) ELSE outline
  OBVIOUS
<1>1. /\ q.kind = "evict" /\ Queried(n = 4)
      /\ \E S \in IF n >= 3 THEN Excess(c) ELSE {{}} : cache' = Without(c, S)
      /\ \E S \in IF n = 4 THEN Excess(o) ELSE {{}} : outline' = Without(o, S)
  BY <1>c, <1>q DEF Evict
<1>2. /\ running /\ todo # <<>> /\ todo' = Tail(todo)
      /\ UNCHANGED <<clientVars, captures, running, done>>
      /\ dirty' \in BOOLEAN
      /\ ~dirty' => ~dirty /\ n = 4
  BY <1>0, <1>1, QueriedIs
<1>3. RowsAmong(c, cache) /\ RowsOf(c) /\ RowsOf(o)
  <2>1. RowsAmong(cache, cache) /\ RowsAmong(outline, outline)
    BY <1>0 DEF RowsAmong
  <2>2. RowsAmong(c, cache) /\ RowsAmong(o, outline)
    BY <1>0, <1>c, <2>1, WithoutIs
  <2>3. QED
    BY <2>2 DEF RowsAmong
<1>4. PICK S, T : /\ cache' = Without(c, S) /\ outline' = Without(o, T)
                  /\ n = 4 => S \in Excess(c) /\ T \in Excess(o)
  BY <1>1
<1>5. /\ RowsAmong(cache', c) /\ RowsAmong(outline', o)
      /\ DOMAIN cache' = DOMAIN c \ S /\ DOMAIN outline' = DOMAIN o \ T
  BY <1>3, <1>4, WithoutIs
<1>6. n = 4 => Fits'
  <2>1. ASSUME n = 4 PROVE Cardinality(DOMAIN c \ S) <= MaxEntries /\ Cardinality(DOMAIN o \ T) <= MaxEntries
    BY <1>3, <1>4, <2>1, ExcessIs
  <2>2. QED
    BY <1>5, <2>1 DEF Fits
<1>7. /\ RowsOf(cache') /\ RowsOf(outline')
      /\ \A p \in DOMAIN cache' : p \in DOMAIN cache /\ cache'[p] = cache[p]
  BY <1>3, <1>5 DEF RowsAmong
<1>8. QED
  BY <1>1, <1>2, <1>6, <1>7, <1>q DEF Answered

LEMMA CacheBegins == CacheInit => CacheInv
<1>. SUFFICES ASSUME CacheInit PROVE CacheInv
  OBVIOUS
<1>1. /\ disk = [p \in Paths |-> Whole(0, "fits")] /\ log = <<>> /\ turn = 1 /\ asked = {} /\ captures = <<>>
      /\ running = FALSE /\ todo = <<>> /\ cache = <<>> /\ outline = <<>> /\ done = 0 /\ dirty = FALSE
  BY DEF CacheInit
<1>2. Len(log) = 0 /\ Len(captures) = 0 /\ Len(todo) = 0 /\ Horizon = 0
  BY <1>1, EmptySeq DEF Horizon
<1>3. DOMAIN cache = {} /\ DOMAIN outline = {}
  <2>1. DOMAIN <<>> = {}
    OBVIOUS
  <2>2. QED
    BY <1>1, <2>1
<1>4. CacheTypes
  <2>1. RowsOf(cache) /\ RowsOf(outline)
    BY <1>3, FS_EmptySet DEF RowsOf
  <2>2. \A S : <<>> \in Seq(S)
    BY EmptySeq
  <2>3. Whole(0, "fits") \in Texts
    BY DEF Whole, Texts, Sizes
  <2>4. QED
    BY <1>1, <2>1, <2>2, <2>3 DEF CacheTypes
<1>5. CapturesOrdered
  BY <1>1, <1>2 DEF CapturesOrdered, Lagging
<1>6. Recorded(log, disk)
  BY <1>2 DEF Recorded
<1>7. RowsSeen
  BY <1>1, <1>3 DEF RowsSeen
<1>8. Bounded
  BY <1>1, <1>3, NoRows DEF Bounded, Ending, Fits
<1>9. Fresh
  BY <1>2 DEF Fresh
<1>10. QED
  BY <1>4, <1>5, <1>6, <1>7, <1>8, <1>9 DEF CacheInv

LEMMA CacheSteps == CacheInv /\ [CacheNext]_cacheVars => CacheInv'
<1>. SUFFICES ASSUME CacheInv, [CacheNext]_cacheVars PROVE CacheInv'
  OBVIOUS
<1>0. asked \subseteq Calls /\ turn \in Nat
  BY DEF CacheInv, CacheTypes
<1>1. CASE NextTurn
  BY <1>0, <1>1, CacheRests DEF NextTurn, clientVars, rowVars
<1>2. ASSUME NEW c \in Calls, Intercept(c) PROVE CacheInv'
  BY <1>0, <1>2, CacheRests DEF Intercept, rowVars
<1>3. ASSUME NEW c \in Calls, NEW text \in BOOLEAN, Relay(c, text) \/ AnswerResend(c, text)
      PROVE  CacheInv'
  BY <1>3, CacheExecute DEF Relay, AnswerResend
<1>4. ASSUME NEW text \in BOOLEAN, ResendFails(text) PROVE CacheInv'
  BY <1>0, <1>4, CacheExecute DEF ResendFails
<1>5. CASE StartCapture
  BY <1>5, CaptureStarts
<1>6. CASE EndCapture
  BY <1>6, CaptureEnds
<1>7. ASSUME NEW i \in DOMAIN captures, GiveUp(i) PROVE CacheInv'
  BY <1>7, CaptureGivesUp
<1>8. ASSUME NEW n \in 0..2, Drop(n) \/ Keep(n) PROVE CacheInv'
  BY <1>8, DropAnswers, KeepAnswers, CacheAnswered
<1>9. ASSUME NEW n \in 0..4, Evict(n) PROVE CacheInv'
  BY <1>9, EvictAnswers, CacheAnswered
<1>10. CASE UNCHANGED cacheVars
  BY <1>0, <1>10, CacheRests DEF cacheVars, clientVars, rowVars
<1>11. QED
  BY <1>1, <1>2, <1>3, <1>4, <1>5, <1>6, <1>7, <1>8, <1>9, <1>10 DEF CacheNext

LEMMA CacheFresh == CacheInv => FreshWhenSettled
<1>. SUFFICES ASSUME CacheInv, Settled
              PROVE  /\ Fits
                     /\ \A p \in DOMAIN cache : Known(p) => cache[p].text = disk[p]
  BY DEF FreshWhenSettled, Fits
<1>1. ~running /\ ~dirty /\ todo = <<>> /\ Horizon = done /\ Fits
  BY DEF Settled, CacheInv, Bounded, Horizon
<1>2. ASSUME NEW p \in DOMAIN cache, Known(p) PROVE cache[p].text = disk[p]
  <2>m. PICK m, A, n : m = Max(A) /\ A = About(p) /\ n = Len(log)
    OBVIOUS
  <2>1. log \in Seq(CallsOf(Tools)) /\ n \in Nat /\ DOMAIN log = 1..n
    BY <2>m, LenProperties DEF CacheInv, CacheTypes
  <2>2. /\ A # {} /\ m <= done /\ log[m].text.size = "fits"
        /\ log[m].tool = "read" \/ (log[m].tool = "write" /\ m = done)
    BY <1>2, <2>m DEF Known
  <2>3. A = {i \in 1..n : log[i].path = p /\ log[i].tool # "say"}
    BY <2>1, <2>m DEF About
  <2>4. m \in A /\ \A i \in A : i <= m
    BY <2>1, <2>2, <2>3, <2>m, LastIsIn
  <2>5. m \in 1..n /\ log[m].path = p
    BY <2>3, <2>4
  <2>6. Later(log, m, p) = {}
    <3>1. \A j \in (m + 1)..n : j \in 1..n /\ ~(j <= m)
      BY <2>1, <2>5
    <3>2. \A j \in (m + 1)..n : j \notin A
      BY <2>4, <3>1
    <3>3. \A j \in (m + 1)..n : ~(log[j].path = p /\ log[j].tool # "say")
      BY <2>3, <3>1, <3>2
    <3>4. QED
      BY <2>m, <3>3 DEF Later
  <2>7. log[m].text = disk[p]
    BY <2>2, <2>5, <2>6, <2>m DEF CacheInv, Recorded
  <2>8. done \in Nat /\ m \in 1..done
    BY <2>1, <2>2, <2>5 DEF CacheInv, CacheTypes
  <2>9. KnownBy(log, m, done)
    BY <2>2, <2>5, <2>6, <2>8 DEF KnownBy
  <2>10. Comes(p, log[m].text)
    BY <1>1, <2>5, <2>8, <2>9 DEF CacheInv, Fresh
  <2>11. ~Coming(todo, p, log[m].text)
    BY <1>1, EmptySeq DEF Coming
  <2>12. QED
    BY <1>2, <2>7, <2>10, <2>11 DEF Comes
<1>3. QED
  BY <1>1, <1>2

\* openai/file_cache.py: replaying the history leaves the latest content. After
\* any capture that succeeded the cache and the outlines are within their bounds
\* and a file whose last call was a whole read or a write just made, of a text
\* neither empty nor too large, is cached as it is on the client's disk, or not at
\* all: for any files, calls, sizes, bounds and ages, however captures lag, are
\* skipped or lose queries.
THEOREM CacheIsFreshAlways == CacheSpec => []FreshWhenSettled
<1>1. CacheInit => CacheInv
  BY CacheBegins
<1>2. CacheInv /\ [CacheNext]_cacheVars => CacheInv'
  BY CacheSteps
<1>3. CacheInv => FreshWhenSettled
  BY CacheFresh
<1>4. QED
  BY <1>1, <1>2, <1>3, PTL DEF CacheSpec

=============================================================================
