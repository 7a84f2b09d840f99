------------------------ MODULE CuratorWorkersProofs ------------------------
(***************************************************************************)
(* Proofs about CuratorWorkers for any number of sessions, workers and     *)
(* events and any queue capacity.  The inductive invariant is IInv, to     *)
(* which OrderInv adds the order of the events.                            *)
(***************************************************************************)
EXTENDS CuratorWorkers, TLAPS

Alive(w) == pc[w] \notin {"unborn", "done"}

\* The ids above spawned, and no others, are objects still to be created.
FreshWorkers ==
  \A w \in WorkerIds :
    /\ pc[w] = "unborn" <=> w > spawned
    /\ pc[w] = "unborn" => queue[w] = <<>> /\ w \notin cancelled

\* Registered, awaited and listed workers were spawned.
SpawnedWorkers ==
  /\ \A s \in Sessions : registry[s] <= spawned
  /\ \A c \in Closers : waiting[c] <= spawned
  /\ \A w \in todo["lifespan"] : w <= spawned

\* What is being closed is out of the registry, for good.
ClosedUnregistered ==
  /\ \A c \in Closers : waiting[c] \notin Registered
  /\ todo["lifespan"] \cap Registered = {}
  /\ todo["lifespan"] # {} => life = "closing"

\* What the loop of w has in hand at each suspension point.
CurAt(w) ==
  /\ pc[w] \in {"unborn", "get", "done"} => cur[w] = 0
  /\ pc[w] \in {"debounce", "pass", "record"} => cur[w] # 0
  /\ pc[w] = "record" /\ w \in Registered => served[w] = cur[w]

\* NewestKept, extended to workers that were closed but still run.
OwedAt(w) ==
  Alive(w) =>
    /\ queue[w] # <<>> => queue[w][Len(queue[w])].n = newest[w]
    /\ queue[w] = <<>> /\ cur[w] # 0 => cur[w] = newest[w]
    /\ queue[w] = <<>> /\ cur[w] = 0 /\ w \in Registered => served[w] = newest[w]

CurInv  == \A w \in WorkerIds : CurAt(w)
OwedInv == \A w \in WorkerIds : OwedAt(w)

IInv ==
  /\ TypeOK
  /\ FreshWorkers
  /\ SpawnedWorkers
  /\ ClosedUnregistered
  /\ RegisteredNotCancelled
  /\ CurInv
  /\ OwedInv

-----------------------------------------------------------------------------
(* Facts about sequences the drain loop relies on.                         *)

\* A bounded put yields a queue of events that ends with the new one.
LEMMA PutProperties ==
  ASSUME NEW q \in Seq(Event), NEW e \in Event
  PROVE  /\ Put(q, e) \in Seq(Event)
         /\ Put(q, e) # <<>>
         /\ Put(q, e)[Len(Put(q, e))] = e
<1>1. CASE Len(q) < MaxQueue
  BY <1>1 DEF Put
<1>2. CASE ~(Len(q) < MaxQueue)
  <2>1. q # <<>>
    BY <1>2, ConstantsAssumption
  <2>2. Tail(q) \in Seq(Event)
    BY <2>1
  <2>. DEFINE t == Tail(q)
  <2>3. Put(q, e) = Append(t, e)
    BY <1>2 DEF Put
  <2>. HIDE DEF t
  <2>4. QED
    BY <2>2, <2>3 DEF t
<1>3. QED
  BY <1>1, <1>2

\* Taking the head of a queue leaves its last element last, unless the head
\* was the last element.
LEMMA TailProperties ==
  ASSUME NEW q \in Seq(Event), q # <<>>
  PROVE  /\ Head(q) \in Event
         /\ Tail(q) \in Seq(Event)
         /\ q[Len(q)] \in Event
         /\ Tail(q) = <<>> => Head(q) = q[Len(q)]
         /\ Tail(q) # <<>> => Tail(q)[Len(Tail(q))] = q[Len(q)]
<1>1. Len(q) \in Nat /\ Len(q) > 0
  OBVIOUS
<1>2. q[1] \in Event /\ q[Len(q)] \in Event
  BY <1>1
<1>3. Tail(q) \in Seq(Event) /\ Len(Tail(q)) = Len(q) - 1
  OBVIOUS
<1>4. ASSUME Tail(q) = <<>>
      PROVE  Len(q) = 1
  BY <1>1, <1>3, <1>4
<1>5. ASSUME Tail(q) # <<>>
      PROVE  Tail(q)[Len(Tail(q))] = q[Len(q)]
  <2>1. Len(Tail(q)) > 0
    BY <1>3, <1>5
  <2>2. QED
    BY <2>1, <1>3, <1>1
<1>6. QED
  BY <1>2, <1>3, <1>4, <1>5

-----------------------------------------------------------------------------
(* Type correctness.                                                       *)

\* One iteration of a closer's loop keeps the types it touches.
LEMMA CloseOneType ==
  ASSUME TypeOK, NEW c \in Closers, NEW left,
         left \subseteq (IF c = "lifespan" THEN WorkerIds ELSE Sessions),
         CloseOne(c, left)
  PROVE  /\ registry' \in [Sessions -> WorkerIds \cup {NoWorker}]
         /\ cancelled' \in SUBSET WorkerIds
         /\ waiting' \in [Closers -> WorkerIds \cup {NoWorker}]
         /\ todo' \in [Closers -> SUBSET (WorkerIds \cup Sessions)]
         /\ todo'["cleanup"] \cup todo'["api"] \subseteq Sessions
         /\ todo'["lifespan"] \subseteq WorkerIds
<1>1. PICK x \in left :
        LET w == IF c = "lifespan" THEN x ELSE registry[x]
        IN /\ todo' = [todo EXCEPT ![c] = left \ {x}]
           /\ registry' = IF c # "lifespan" THEN [registry EXCEPT ![x] = NoWorker]
                          ELSE IF life = "closing" THEN registry ELSE Emptied
           /\ Cancel(w)
           /\ waiting' = [waiting EXCEPT ![c] =
                           IF w # NoWorker /\ pc[w] # "done" THEN w ELSE NoWorker]
  BY DEF CloseOne
<1>2. (IF c = "lifespan" THEN x ELSE registry[x]) \in WorkerIds \cup {NoWorker}
  BY <1>1 DEF TypeOK
<1>3. registry' \in [Sessions -> WorkerIds \cup {NoWorker}]
  BY <1>1 DEF TypeOK, Emptied
<1>4. cancelled' \in SUBSET WorkerIds
  BY <1>1, <1>2 DEF TypeOK, Cancel
<1>5. waiting' \in [Closers -> WorkerIds \cup {NoWorker}]
  BY <1>1, <1>2 DEF TypeOK
<1>6. /\ todo' \in [Closers -> SUBSET (WorkerIds \cup Sessions)]
      /\ todo'["cleanup"] \cup todo'["api"] \subseteq Sessions
      /\ todo'["lifespan"] \subseteq WorkerIds
  BY <1>1 DEF TypeOK, Closers
<1>7. QED
  BY <1>3, <1>4, <1>5, <1>6

LEMMA ZeroEventNum == 0 \in EventNum
  BY ConstantsAssumption DEF EventNum

LEMMA TypeInit == Init => TypeOK
  BY ConstantsAssumption
  DEF Init, TypeOK, WorkerIds, EventNum, LoopState, Closers, NoWorker

LEMMA LatestType ==
  ASSUME TypeOK, NEW w \in WorkerIds
  PROVE  Latest(w) \in EventNum
<1>1. queue[w] \in Seq(Event) /\ cur[w] \in EventNum
  BY DEF TypeOK
<1>2. CASE queue[w] = <<>>
  BY <1>1, <1>2 DEF Latest
<1>3. CASE queue[w] # <<>>
  <2>1. queue[w][Len(queue[w])] \in Event
    BY <1>1, <1>3, TailProperties
  <2>2. QED
    BY <1>3, <2>1, ConstantsAssumption DEF Latest, Event, EventNum
<1>4. QED
  BY <1>2, <1>3

LEMMA TypeNext == TypeOK /\ [Next]_vars => TypeOK'
<1> SUFFICES ASSUME TypeOK, [Next]_vars
             PROVE  TypeOK'
  OBVIOUS
<1>1. ASSUME NEW s \in Sessions, NEW k \in Kinds, Enqueue(s, k)
      PROVE  TypeOK'
  <2>. DEFINE e == [n |-> sent + 1, kind |-> k]
              w == IF registry[s] = NoWorker THEN spawned + 1 ELSE registry[s]
  <2>1. w \in WorkerIds /\ sent + 1 \in 1..MaxEvents /\ e \in Event
    BY <1>1, ConstantsAssumption
    DEF Enqueue, TypeOK, WorkerIds, EventNum, Event, NoWorker
  <2>2. queue[w] \in Seq(Event)
    BY <2>1 DEF TypeOK
  <2>3. queue' \in [WorkerIds -> Seq(Event)]
    BY <1>1, <2>1, <2>2, PutProperties DEF Enqueue, TypeOK
  <2>4. /\ registry' \in [Sessions -> WorkerIds \cup {NoWorker}]
        /\ spawned' \in 0..MaxWorkers
        /\ pc' \in [WorkerIds -> LoopState]
        /\ newest' \in [WorkerIds -> EventNum]
        /\ idle' \in SUBSET WorkerIds
        /\ sent' \in EventNum
        /\ ended' \in SUBSET WorkerIds
    <3>1. w = spawned + 1 => spawned + 1 \in 0..MaxWorkers
      BY <2>1, ConstantsAssumption DEF TypeOK, WorkerIds
    <3>2. spawned' \in 0..MaxWorkers
      BY <1>1, <3>1 DEF Enqueue, TypeOK
    <3>3. registry' \in [Sessions -> WorkerIds \cup {NoWorker}]
      <4>1. registry' = [registry EXCEPT ![s] = w]
        BY <1>1 DEF Enqueue
      <4>. HIDE DEF w
      <4>2. QED
        BY <4>1, <2>1 DEF TypeOK
    <3>4. pc' \in [WorkerIds -> LoopState]
      <4>1. pc' = [pc EXCEPT ![w] = "get"] \/ pc' = pc
        BY <1>1 DEF Enqueue
      <4>. HIDE DEF w
      <4>2. QED
        BY <4>1 DEF TypeOK, LoopState
    <3>5. newest' \in [WorkerIds -> EventNum] /\ sent' \in EventNum
      <4>1. newest' = [newest EXCEPT ![w] = sent + 1] /\ sent' = sent + 1
        BY <1>1 DEF Enqueue
      <4>2. sent + 1 \in EventNum
        BY <2>1, ConstantsAssumption DEF EventNum
      <4>. HIDE DEF w
      <4>3. QED
        BY <4>1, <4>2 DEF TypeOK
    <3>6. idle' \in SUBSET WorkerIds
      BY <1>1 DEF Enqueue, TypeOK
    <3>7. ended' \in SUBSET WorkerIds
      <4>1. ended' = ended \/ ended' = ended \cup {w}
        BY <1>1 DEF Enqueue
      <4>. HIDE DEF w
      <4>2. QED
        BY <4>1, <2>1 DEF TypeOK
    <3>8. QED
      BY <3>2, <3>3, <3>4, <3>5, <3>6, <3>7
  <2>5. QED
    BY <1>1, <2>3, <2>4 DEF Enqueue, TypeOK, closerVars, sentVars
<1>2. ASSUME NEW s \in Sessions, ShutdownSession(s)
      PROVE  TypeOK'
  BY <1>2, CloseOneType DEF ShutdownSession, TypeOK, workerVars, sentVars, Closers
<1>3. ASSUME NEW w \in WorkerIds, Age(w)
      PROVE  TypeOK'
  BY <1>3 DEF Age, TypeOK, workerVars, closerVars, sentVars
<1>4. ASSUME NEW w \in WorkerIds, GetEvent(w)
      PROVE  TypeOK'
  <2>1. Tail(queue[w]) \in Seq(Event) /\ Head(queue[w]).n \in EventNum
    <3>1. queue[w] \in Seq(Event) /\ queue[w] # <<>>
      BY <1>4 DEF GetEvent, TypeOK
    <3>2. Tail(queue[w]) \in Seq(Event) /\ Head(queue[w]) \in Event
      BY <3>1, TailProperties
    <3>3. QED
      BY <3>2, ConstantsAssumption DEF Event, EventNum
  <2>2. queue' \in [WorkerIds -> Seq(Event)]
    BY <1>4, <2>1 DEF GetEvent, TypeOK
  <2>3. pc' \in [WorkerIds -> LoopState]
    <3>1. pc' \in {[pc EXCEPT ![w] = "done"], [pc EXCEPT ![w] = "debounce"]}
      BY <1>4 DEF GetEvent
    <3>2. pc \in [WorkerIds -> LoopState]
      BY DEF TypeOK
    <3>3. QED
      BY <3>1, <3>2 DEF LoopState
  <2>4. cur' \in [WorkerIds -> EventNum]
    BY <1>4, <2>1 DEF GetEvent, TypeOK
  <2>5. QED
    BY <1>4, <2>2, <2>3, <2>4 DEF GetEvent, TypeOK, closerVars, sentVars
<1>5. ASSUME NEW w \in WorkerIds, DrainToEnd(w)
      PROVE  TypeOK'
  <2>1. PICK i \in EndsIn(queue[w]) :
          queue' = [queue EXCEPT ![w] = SubSeq(@, i + 1, Len(@))]
    BY <1>5 DEF DrainToEnd
  <2>2. queue[w] \in Seq(Event) /\ i \in 1..Len(queue[w])
    BY <2>1 DEF TypeOK, EndsIn
  <2>3. SubSeq(queue[w], i + 1, Len(queue[w])) \in Seq(Event)
    BY <2>2
  <2>4. queue' \in [WorkerIds -> Seq(Event)]
    BY <2>1, <2>3 DEF TypeOK
  <2>5. pc' \in [WorkerIds -> LoopState] /\ cur' \in [WorkerIds -> EventNum]
    BY <1>5, ConstantsAssumption DEF DrainToEnd, TypeOK, LoopState, EventNum
  <2>6. QED
    BY <1>5, <2>4, <2>5 DEF DrainToEnd, TypeOK, closerVars, sentVars
<1>6. ASSUME NEW w \in WorkerIds, StartPass(w)
      PROVE  TypeOK'
  <2>1. Latest(w) \in EventNum
    BY LatestType
  <2>2. queue' \in [WorkerIds -> Seq(Event)]
    BY <1>6 DEF StartPass, TypeOK
  <2>3. pc' \in [WorkerIds -> LoopState] /\ cur' \in [WorkerIds -> EventNum]
    BY <1>6, <2>1 DEF StartPass, TypeOK, LoopState
  <2>4. QED
    BY <1>6, <2>2, <2>3 DEF StartPass, TypeOK, closerVars, sentVars
<1>7. ASSUME NEW w \in WorkerIds, FinishPass(w)
      PROVE  TypeOK'
  BY <1>7 DEF FinishPass, TypeOK, closerVars, sentVars, LoopState
<1>8. ASSUME NEW w \in WorkerIds, FinishRecord(w)
      PROVE  TypeOK'
  BY <1>8, ConstantsAssumption
  DEF FinishRecord, TypeOK, closerVars, sentVars, LoopState, EventNum
<1>9. ASSUME NEW w \in WorkerIds, DeliverCancel(w)
      PROVE  TypeOK'
  <2>1. pc' \in [WorkerIds -> LoopState]
    BY <1>9 DEF DeliverCancel, TypeOK, LoopState
  <2>2. cur' \in [WorkerIds -> EventNum]
    <3>1. cur' = cur \/ cur' = [cur EXCEPT ![w] = 0]
      BY <1>9 DEF DeliverCancel
    <3>2. QED
      BY <3>1, ZeroEventNum DEF TypeOK
  <2>3. QED
    BY <1>9, <2>1, <2>2 DEF DeliverCancel, TypeOK, closerVars, sentVars
<1>10. ASSUME NEW c \in Closers, CloseNext(c)
       PROVE  TypeOK'
  <2>1. todo[c] \subseteq (IF c = "lifespan" THEN WorkerIds ELSE Sessions)
    BY DEF TypeOK, Closers
  <2>2. QED
    BY <1>10, <2>1, CloseOneType DEF CloseNext, TypeOK, workerVars, sentVars
<1>11. ASSUME NEW c \in Closers, CloseReturns(c)
       PROVE  TypeOK'
  BY <1>11 DEF CloseReturns, TypeOK, workerVars, sentVars
<1>12. ASSUME CleanupTick
       PROVE  TypeOK'
  <2>1. Stale \subseteq Sessions
    BY DEF Stale
  <2>2. QED
    BY <1>12, <2>1, CloseOneType DEF CleanupTick, TypeOK, workerVars, sentVars, Closers
<1>13. ASSUME BeginShutdown
       PROVE  TypeOK'
  BY <1>13 DEF BeginShutdown, Cancel, TypeOK, workerVars, sentVars, Closers
<1>14. ASSUME ShutdownAll
       PROVE  TypeOK'
  <2>1. Registered \subseteq WorkerIds
    BY DEF Registered, TypeOK
  <2>2. CASE life' = "stopped"
    BY <1>14, <2>2 DEF ShutdownAll, TypeOK, workerVars, sentVars
  <2>3. CASE life' # "stopped"
    BY <1>14, <2>1, <2>3, CloseOneType DEF ShutdownAll, TypeOK, workerVars, sentVars, Closers
  <2>4. QED
    BY <2>2, <2>3
<1>15. ASSUME ShutdownDone
       PROVE  TypeOK'
  BY <1>15 DEF ShutdownDone, Emptied, TypeOK, workerVars, sentVars
<1>16. CASE UNCHANGED vars
  BY <1>16 DEF vars, workerVars, closerVars, sentVars, TypeOK
<1>17. QED
  BY <1>1, <1>2, <1>3, <1>4, <1>5, <1>6, <1>7, <1>8, <1>9, <1>10, <1>11,
     <1>12, <1>13, <1>14, <1>15, <1>16 DEF Next, LoopStep, CloserStep

\* Every reachable state is well typed.
THEOREM TypeCorrect == Spec => []TypeOK
  BY TypeInit, TypeNext, PTL DEF Spec

-----------------------------------------------------------------------------
(* The inductive invariant.                                                *)

LEMMA InvInit == Init => IInv
<1> SUFFICES ASSUME Init PROVE IInv
  OBVIOUS
<1>1. TypeOK
  BY TypeInit
<1>2. Registered = {}
  BY DEF Init, Registered
<1>3. FreshWorkers /\ SpawnedWorkers
  BY DEF Init, FreshWorkers, SpawnedWorkers, NoWorker, Closers
<1>4. ClosedUnregistered /\ RegisteredNotCancelled
  BY <1>2 DEF Init, ClosedUnregistered, RegisteredNotCancelled, Closers
<1>5. CurInv /\ OwedInv
  BY <1>2 DEF Init, CurInv, OwedInv, CurAt, OwedAt, Alive
<1>6. QED
  BY <1>1, <1>3, <1>4, <1>5 DEF IInv

\* A step of one worker's loop: the registry and the closers stay, so only
\* the facts about that worker are left to show.
LEMMA LoopFrame ==
  ASSUME IInv, NEW w \in WorkerIds,
         UNCHANGED <<registry, spawned, todo, waiting, life>>,
         cancelled' \subseteq cancelled,
         pc[w] # "unborn", pc'[w] # "unborn",
         \A v \in WorkerIds \ {w} :
           /\ pc'[v] = pc[v] /\ queue'[v] = queue[v] /\ cur'[v] = cur[v]
           /\ newest'[v] = newest[v] /\ served'[v] = served[v],
         CurAt(w)', OwedAt(w)'
  PROVE  /\ FreshWorkers' /\ SpawnedWorkers' /\ ClosedUnregistered'
         /\ RegisteredNotCancelled' /\ CurInv' /\ OwedInv'
<1>1. Registered' = Registered
  BY DEF Registered
<1>2. FreshWorkers'
  BY DEF IInv, FreshWorkers
<1>3. SpawnedWorkers'
  BY DEF IInv, SpawnedWorkers
<1>4. ClosedUnregistered'
  BY <1>1 DEF IInv, ClosedUnregistered
<1>5. RegisteredNotCancelled'
  BY <1>1 DEF IInv, RegisteredNotCancelled
<1>6. CurInv'
  BY <1>1 DEF IInv, CurInv, CurAt
<1>7. OwedInv'
  BY <1>1 DEF IInv, OwedInv, OwedAt, Alive
<1>8. QED
  BY <1>2, <1>3, <1>4, <1>5, <1>6, <1>7

\* One iteration of a closer's loop.
LEMMA CloseFrame ==
  ASSUME IInv, NEW c \in Closers, NEW left,
         left \subseteq (IF c = "lifespan" THEN WorkerIds ELSE Sessions),
         CloseOne(c, left),
         UNCHANGED <<spawned, workerVars>>,
         c = "lifespan" => /\ life' = "closing"
                           /\ life = "closing" => left \cap Registered = {}
                           /\ \A x \in left : x <= spawned,
         c # "lifespan" => life' = life
  PROVE  /\ FreshWorkers' /\ SpawnedWorkers' /\ ClosedUnregistered'
         /\ RegisteredNotCancelled' /\ CurInv' /\ OwedInv'
<1>1. PICK x \in left :
        LET w == IF c = "lifespan" THEN x ELSE registry[x]
        IN /\ todo' = [todo EXCEPT ![c] = left \ {x}]
           /\ registry' = IF c # "lifespan" THEN [registry EXCEPT ![x] = NoWorker]
                          ELSE IF life = "closing" THEN registry ELSE Emptied
           /\ Cancel(w)
           /\ waiting' = [waiting EXCEPT ![c] =
                           IF w # NoWorker /\ pc[w] # "done" THEN w ELSE NoWorker]
  BY DEF CloseOne
<1>. DEFINE w == IF c = "lifespan" THEN x ELSE registry[x]
<1>2. /\ todo' = [todo EXCEPT ![c] = left \ {x}]
      /\ registry' = IF c # "lifespan" THEN [registry EXCEPT ![x] = NoWorker]
                     ELSE IF life = "closing" THEN registry ELSE Emptied
      /\ cancelled' \subseteq cancelled \cup ({w} \ {NoWorker})
      /\ waiting' = [waiting EXCEPT ![c] = w] \/ waiting' = [waiting EXCEPT ![c] = NoWorker]
  BY <1>1 DEF Cancel
<1>3. w \in WorkerIds \cup {NoWorker} /\ w <= spawned /\ spawned \in Nat
  BY <1>1 DEF IInv, TypeOK, SpawnedWorkers, WorkerIds, NoWorker
<1>4. Registered' \subseteq Registered /\ w \notin Registered'
  <2>1. CASE c = "lifespan"
    <3>1. CASE life = "closing"
      <4>1. Registered' = Registered /\ w = x /\ w \notin Registered
        BY <1>1, <1>2, <2>1, <3>1 DEF Registered
      <4>2. QED
        BY <4>1
    <3>2. CASE life # "closing"
      <4>1. Registered' = {}
        BY <1>2, <2>1, <3>2 DEF Registered, Emptied
      <4>2. QED
        BY <4>1
    <3>3. QED
      BY <3>1, <3>2
  <2>2. CASE c # "lifespan"
    <3>1. x \in Sessions /\ w = registry[x]
      BY <1>1, <2>2
    <3>2. \A s \in Sessions : registry'[s] = IF s = x THEN NoWorker ELSE registry[s]
      BY <1>2, <2>2, <3>1 DEF IInv, TypeOK
    <3>3. QED
      BY <3>1, <3>2 DEF Registered, IInv, RegisteredNotCancelled
  <2>3. QED
    BY <2>1, <2>2
<1>5. c = "lifespan" => left \cap Registered' = {}
  BY <1>2, <1>4 DEF Registered, Emptied
<1>. HIDE DEF w
<1>6. FreshWorkers'
  BY <1>2, <1>3 DEF IInv, FreshWorkers, workerVars, TypeOK, WorkerIds
<1>7. SpawnedWorkers'
  <2>1. \A s \in Sessions : registry'[s] <= spawned
    BY <1>2, <1>3 DEF IInv, SpawnedWorkers, TypeOK, NoWorker, Emptied
  <2>2. \A d \in Closers : waiting'[d] <= spawned
    <3>1. \A d \in Closers : waiting'[d] \in {w, NoWorker, waiting[d]}
      BY <1>2 DEF IInv, TypeOK
    <3>2. QED
      BY <3>1, <1>3 DEF IInv, SpawnedWorkers, NoWorker
  <2>3. \A v \in todo'["lifespan"] : v <= spawned
    <3>1. CASE c = "lifespan"
      <4>1. todo'["lifespan"] = left \ {x}
        BY <1>2, <3>1 DEF IInv, TypeOK
      <4>2. QED
        BY <3>1, <4>1 DEF workerVars
    <3>2. CASE c # "lifespan"
      <4>1. todo'["lifespan"] = todo["lifespan"]
        BY <1>2, <3>2 DEF IInv, TypeOK, Closers
      <4>2. QED
        BY <4>1 DEF IInv, SpawnedWorkers
    <3>3. QED
      BY <3>1, <3>2
  <2>4. QED
    BY <2>1, <2>2, <2>3 DEF SpawnedWorkers
<1>8. ClosedUnregistered'
  <2>1. \A d \in Closers : waiting'[d] \notin Registered'
    <3>1. NoWorker \notin Registered'
      BY DEF Registered
    <3>2. QED
      BY <1>2, <1>4, <3>1 DEF IInv, ClosedUnregistered, TypeOK
  <2>2. todo'["lifespan"] \cap Registered' = {}
    BY <1>2, <1>4, <1>5 DEF IInv, ClosedUnregistered, TypeOK, Closers
  <2>3. todo'["lifespan"] # {} => life' = "closing"
    BY <1>2 DEF IInv, ClosedUnregistered, TypeOK, Closers
  <2>4. QED
    BY <2>1, <2>2, <2>3 DEF ClosedUnregistered
<1>9. RegisteredNotCancelled'
  <2>1. Registered' \cap cancelled' = {}
    BY <1>2, <1>4 DEF IInv, RegisteredNotCancelled
  <2>2. \A s, t \in Sessions :
          registry'[s] = registry'[t] /\ registry'[s] # NoWorker => s = t
    BY <1>2 DEF IInv, RegisteredNotCancelled, TypeOK, Emptied
  <2>3. QED
    BY <2>1, <2>2 DEF RegisteredNotCancelled
<1>10. CurInv'
  BY <1>4 DEF IInv, CurInv, CurAt, workerVars
<1>11. OwedInv'
  BY <1>4 DEF IInv, OwedInv, OwedAt, Alive, workerVars
<1>12. QED
  BY <1>6, <1>7, <1>8, <1>9, <1>10, <1>11

LEMMA InvNext == IInv /\ [Next]_vars => IInv'
<1> SUFFICES ASSUME IInv, [Next]_vars
             PROVE  IInv'
  OBVIOUS
<1>0. TypeOK /\ TypeOK'
  BY TypeNext DEF IInv
<1>. DEFINE Rest == /\ FreshWorkers /\ SpawnedWorkers /\ ClosedUnregistered
                    /\ RegisteredNotCancelled /\ CurInv /\ OwedInv
<1>. SUFFICES Rest'
  BY <1>0 DEF IInv
<1>1. ASSUME NEW s \in Sessions, NEW k \in Kinds, Enqueue(s, k)
      PROVE  Rest'
  <2>. DEFINE e == [n |-> sent + 1, kind |-> k]
              w == IF registry[s] = NoWorker THEN spawned + 1 ELSE registry[s]
  <2>1. /\ w \in WorkerIds /\ w # NoWorker /\ e \in Event /\ spawned \in Nat
        /\ spawned <= spawned' /\ spawned' \in Nat /\ w <= spawned'
    BY <1>1, ConstantsAssumption
    DEF IInv, Enqueue, TypeOK, WorkerIds, EventNum, Event, NoWorker, SpawnedWorkers
  <2>2. /\ registry' = [registry EXCEPT ![s] = w]
        /\ queue' = [queue EXCEPT ![w] = Put(@, e)]
        /\ newest' = [newest EXCEPT ![w] = e.n]
        /\ pc' = [pc EXCEPT ![w] = "get"] \/ pc' = pc
        /\ UNCHANGED <<cur, served, cancelled, todo, waiting, life>>
    BY <1>1 DEF Enqueue, closerVars, sentVars
  <2>3. \/ /\ w = spawned + 1 /\ spawned' = spawned + 1 /\ registry[s] = NoWorker
           /\ pc' = [pc EXCEPT ![w] = "get"]
        \/ /\ w = registry[s] /\ w <= spawned /\ spawned' = spawned /\ pc' = pc
    BY <1>1 DEF Enqueue, IInv, SpawnedWorkers
  <2>4. Registered' = Registered \cup {w} /\ Registered \subseteq {v \in WorkerIds : v <= spawned}
    <3>1. \A t \in Sessions : registry'[t] = IF t = s THEN w ELSE registry[t]
      BY <2>2 DEF IInv, TypeOK
    <3>2. registry[s] \in {NoWorker, w} /\ w # NoWorker
      BY <2>1, <2>3
    <3>3. Registered' = Registered \cup {w}
      BY <3>1, <3>2 DEF Registered
    <3>4. Registered \subseteq {v \in WorkerIds : v <= spawned}
      BY DEF Registered, IInv, SpawnedWorkers, TypeOK, NoWorker, WorkerIds
    <3>5. QED
      BY <3>3, <3>4
  <2>5. Put(queue[w], e) # <<>> /\ Put(queue[w], e)[Len(Put(queue[w], e))] = e
    BY <2>1, PutProperties DEF IInv, TypeOK
  <2>. HIDE DEF w, e
  <2>6. FreshWorkers'
    <3> SUFFICES ASSUME NEW v \in WorkerIds
                 PROVE  /\ pc'[v] = "unborn" <=> v > spawned'
                        /\ pc'[v] = "unborn" => queue'[v] = <<>> /\ v \notin cancelled
      BY <2>2 DEF FreshWorkers
    <3>1. v \in Nat /\ w \in Nat
      BY <2>1 DEF WorkerIds
    <3>2. CASE v = w
      <4>1. pc'[w] # "unborn"
        BY <2>1, <2>3, <3>1 DEF IInv, FreshWorkers, TypeOK
      <4>2. QED
        BY <4>1, <3>1, <3>2, <2>1
    <3>3. CASE v # w
      <4>1. pc'[v] = pc[v] /\ queue'[v] = queue[v]
        BY <2>2, <3>3 DEF IInv, TypeOK
      <4>2. v > spawned <=> v > spawned'
        BY <2>1, <2>3, <3>1, <3>3
      <4>3. QED
        BY <4>1, <4>2 DEF IInv, FreshWorkers
    <3>4. QED
      BY <3>2, <3>3
  <2>7. SpawnedWorkers'
    <3>1. \A t \in Sessions : registry'[t] <= spawned'
      BY <2>1, <2>2 DEF IInv, SpawnedWorkers, TypeOK, WorkerIds, NoWorker
    <3>2. \A c \in Closers : waiting'[c] <= spawned'
      BY <2>1, <2>2 DEF IInv, SpawnedWorkers, TypeOK, WorkerIds, NoWorker
    <3>3. \A v \in todo'["lifespan"] : v <= spawned'
      BY <2>1, <2>2 DEF IInv, SpawnedWorkers, TypeOK, WorkerIds
    <3>4. QED
      BY <3>1, <3>2, <3>3 DEF SpawnedWorkers
  <2>8. ClosedUnregistered'
    <3>1. \A c \in Closers : waiting'[c] \notin Registered'
      BY <2>1, <2>2, <2>3, <2>4
      DEF IInv, ClosedUnregistered, SpawnedWorkers, TypeOK, WorkerIds, NoWorker, Registered
    <3>2. w \notin todo["lifespan"]
      BY <2>1, <2>2, <2>3, <2>4
      DEF IInv, ClosedUnregistered, SpawnedWorkers, TypeOK, WorkerIds, NoWorker, Registered
    <3>3. QED
      BY <2>2, <2>4, <3>1, <3>2 DEF IInv, ClosedUnregistered
  <2>9. RegisteredNotCancelled'
    <3>1. w \notin cancelled
      BY <2>1, <2>3
      DEF IInv, FreshWorkers, RegisteredNotCancelled, Registered
    <3>2. \A t \in Sessions : registry[t] = w => t = s
      BY <2>1, <2>3 DEF IInv, RegisteredNotCancelled, SpawnedWorkers, TypeOK, NoWorker, WorkerIds
    <3>3. QED
      BY <2>1, <2>2, <2>4, <3>1, <3>2 DEF IInv, RegisteredNotCancelled, TypeOK
  <2>10. CurInv'
    <3> SUFFICES ASSUME NEW v \in WorkerIds PROVE CurAt(v)'
      BY DEF CurInv
    <3>1. CASE v = w
      BY <2>1, <2>2, <2>3, <2>4, <3>1 DEF IInv, CurInv, CurAt, FreshWorkers, TypeOK, Registered
    <3>2. CASE v # w
      BY <2>1, <2>2, <2>4, <3>2 DEF IInv, CurInv, CurAt, TypeOK
    <3>3. QED
      BY <3>1, <3>2
  <2>11. OwedInv'
    <3> SUFFICES ASSUME NEW v \in WorkerIds PROVE OwedAt(v)'
      BY DEF OwedInv
    <3>1. CASE v = w
      BY <2>1, <2>2, <2>5, <3>1 DEF IInv, OwedAt, TypeOK
    <3>2. CASE v # w
      BY <2>1, <2>2, <2>4, <3>2 DEF IInv, OwedInv, OwedAt, Alive, TypeOK
    <3>3. QED
      BY <3>1, <3>2
  <2>12. QED
    BY <2>6, <2>7, <2>8, <2>9, <2>10, <2>11
<1>2. ASSUME NEW s \in Sessions, ShutdownSession(s)
      PROVE  Rest'
  BY <1>2, CloseFrame DEF ShutdownSession, Closers
<1>3. ASSUME NEW w \in WorkerIds, Age(w)
      PROVE  Rest'
  <2>1. CurAt(w)' /\ OwedAt(w)'
    BY <1>3 DEF Age, workerVars, IInv, CurInv, OwedInv, CurAt, OwedAt, Alive, Registered
  <2>2. QED
    BY <1>3, <2>1, LoopFrame DEF Age, workerVars, closerVars, sentVars
<1>4. ASSUME NEW w \in WorkerIds, GetEvent(w)
      PROVE  Rest'
  <2>. DEFINE q == queue[w]
  <2>1. q \in Seq(Event) /\ q # <<>> /\ q[Len(q)].n = newest[w] /\ cur[w] = 0
    BY <1>4 DEF GetEvent, IInv, TypeOK, OwedInv, OwedAt, Alive, CurInv, CurAt
  <2>2. /\ Head(q) \in Event /\ Tail(q) \in Seq(Event)
        /\ Tail(q) = <<>> => Head(q) = q[Len(q)]
        /\ Tail(q) # <<>> => Tail(q)[Len(Tail(q))] = q[Len(q)]
    BY <2>1, TailProperties
  <2>3. Head(q).n # 0
    BY <2>2 DEF Event
  <2>4. queue'[w] = Tail(q) /\ newest'[w] = newest[w] /\ served'[w] = served[w]
    BY <1>4 DEF GetEvent, IInv, TypeOK
  <2>5. \/ pc'[w] = "done" /\ cur'[w] = 0
        \/ pc'[w] = "debounce" /\ cur'[w] = Head(q).n
    BY <1>4, <2>1 DEF GetEvent, IInv, TypeOK
  <2>. HIDE DEF q
  <2>6. CurAt(w)' /\ OwedAt(w)'
    BY <2>1, <2>2, <2>3, <2>4, <2>5 DEF CurAt, OwedAt, Alive
  <2>7. \A v \in WorkerIds \ {w} :
           /\ pc'[v] = pc[v] /\ queue'[v] = queue[v] /\ cur'[v] = cur[v]
    BY <1>4 DEF GetEvent, IInv, TypeOK
  <2>8. QED
    BY <1>4, <2>5, <2>6, <2>7, LoopFrame DEF GetEvent, closerVars, sentVars
<1>5. ASSUME NEW w \in WorkerIds, DrainToEnd(w)
      PROVE  Rest'
  <2>1. pc'[w] = "done" /\ cur'[w] = 0
    BY <1>5 DEF DrainToEnd, IInv, TypeOK
  <2>2. CurAt(w)' /\ OwedAt(w)'
    BY <2>1 DEF CurAt, OwedAt, Alive
  <2>3. \A v \in WorkerIds \ {w} :
           /\ pc'[v] = pc[v] /\ queue'[v] = queue[v] /\ cur'[v] = cur[v]
    BY <1>5 DEF DrainToEnd, IInv, TypeOK
  <2>4. QED
    BY <1>5, <2>2, <2>3, LoopFrame DEF DrainToEnd, closerVars, sentVars
<1>6. ASSUME NEW w \in WorkerIds, StartPass(w)
      PROVE  Rest'
  <2>1. /\ pc'[w] = "pass" /\ cur'[w] = Latest(w) /\ queue'[w] = <<>>
        /\ newest'[w] = newest[w]
    BY <1>6 DEF StartPass, IInv, TypeOK
  <2>2. Latest(w) = newest[w] /\ Latest(w) # 0
    <3>1. Latest(w) = newest[w]
      <4>1. CurAt(w) /\ OwedAt(w) /\ pc[w] = "debounce"
        BY <1>6 DEF StartPass, IInv, CurInv, OwedInv
      <4>2. QED
        BY <4>1 DEF Latest, CurAt, OwedAt, Alive
    <3>2. CASE queue[w] = <<>>
      BY <1>6, <3>1, <3>2 DEF StartPass, Latest, IInv, CurInv, CurAt
    <3>3. CASE queue[w] # <<>>
      <4>1. queue[w][Len(queue[w])] \in Event
        <5>1. queue[w] \in Seq(Event)
          BY DEF IInv, TypeOK
        <5>2. QED
          BY <3>3, <5>1, TailProperties
      <4>2. QED
        BY <3>1, <3>3, <4>1 DEF Latest, Event
    <3>4. QED
      BY <3>2, <3>3
  <2>3. CurAt(w)' /\ OwedAt(w)'
    BY <2>1, <2>2 DEF CurAt, OwedAt
  <2>4. \A v \in WorkerIds \ {w} :
           /\ pc'[v] = pc[v] /\ queue'[v] = queue[v] /\ cur'[v] = cur[v]
    BY <1>6 DEF StartPass, IInv, TypeOK
  <2>5. QED
    BY <1>6, <2>3, <2>4, LoopFrame DEF StartPass, closerVars, sentVars
<1>7. ASSUME NEW w \in WorkerIds, FinishPass(w)
      PROVE  Rest'
  <2>1. /\ pc[w] = "pass" /\ pc'[w] = "record" /\ served'[w] = cur[w]
        /\ cur'[w] = cur[w] /\ queue'[w] = queue[w] /\ newest'[w] = newest[w]
    BY <1>7 DEF FinishPass, IInv, TypeOK
  <2>2. CurAt(w)' /\ OwedAt(w)'
    BY <2>1 DEF CurAt, OwedAt, Alive, IInv, CurInv, OwedInv
  <2>3. \A v \in WorkerIds \ {w} : pc'[v] = pc[v] /\ served'[v] = served[v]
    BY <1>7 DEF FinishPass, IInv, TypeOK
  <2>4. QED
    BY <1>7, <2>1, <2>2, <2>3, LoopFrame DEF FinishPass, closerVars, sentVars
<1>8. ASSUME NEW w \in WorkerIds, FinishRecord(w)
      PROVE  Rest'
  <2>1. /\ pc[w] = "record" /\ pc'[w] = "get" /\ cur'[w] = 0
        /\ served'[w] = served[w] /\ queue'[w] = queue[w] /\ newest'[w] = newest[w]
    BY <1>8 DEF FinishRecord, IInv, TypeOK
  <2>2. Registered' = Registered
    BY <1>8 DEF FinishRecord, Registered
  <2>3. CurAt(w)' /\ OwedAt(w)'
    BY <2>1, <2>2 DEF CurAt, OwedAt, Alive, IInv, CurInv, OwedInv
  <2>4. \A v \in WorkerIds \ {w} : pc'[v] = pc[v] /\ cur'[v] = cur[v]
    BY <1>8 DEF FinishRecord, IInv, TypeOK
  <2>5. QED
    BY <1>8, <2>1, <2>3, <2>4, LoopFrame DEF FinishRecord, closerVars, sentVars
<1>9. ASSUME NEW w \in WorkerIds, DeliverCancel(w)
      PROVE  Rest'
  <2>1. /\ w \in cancelled /\ pc[w] # "unborn" /\ cancelled' \subseteq cancelled
        /\ UNCHANGED <<registry, spawned, queue, newest, served, todo, waiting, life>>
    BY <1>9 DEF DeliverCancel, closerVars, sentVars
  <2>2. w \notin Registered' /\ Registered' = Registered
    BY <2>1 DEF IInv, RegisteredNotCancelled, Registered
  <2>3. \/ pc[w] = "pass" /\ pc'[w] = "record" /\ cur' = cur
        \/ pc'[w] = "done" /\ cur'[w] = 0
    BY <1>9 DEF DeliverCancel, IInv, TypeOK
  <2>4. CurAt(w)' /\ OwedAt(w)'
    BY <2>1, <2>2, <2>3 DEF CurAt, OwedAt, Alive, IInv, CurInv, OwedInv
  <2>5. \A v \in WorkerIds \ {w} : pc'[v] = pc[v] /\ cur'[v] = cur[v]
    BY <1>9 DEF DeliverCancel, IInv, TypeOK
  <2>6. QED
    BY <2>1, <2>3, <2>4, <2>5, LoopFrame
<1>10. ASSUME NEW c \in Closers, CloseNext(c)
       PROVE  Rest'
  <2>1. todo[c] \subseteq (IF c = "lifespan" THEN WorkerIds ELSE Sessions)
    BY DEF IInv, TypeOK, Closers
  <2>2. c = "lifespan" => /\ life' = "closing"
                          /\ todo[c] \cap Registered = {}
                          /\ \A x \in todo[c] : x <= spawned
    BY <1>10 DEF CloseNext, IInv, ClosedUnregistered, SpawnedWorkers
  <2>3. QED
    BY <1>10, <2>1, <2>2, CloseFrame DEF CloseNext
<1>11. ASSUME NEW c \in Closers, CloseReturns(c)
       PROVE  Rest'
  <2>1. /\ waiting' = [waiting EXCEPT ![c] = NoWorker]
        /\ UNCHANGED <<registry, spawned, workerVars, cancelled, todo, life>>
        /\ Registered' = Registered
    BY <1>11 DEF CloseReturns, Registered
  <2>2. FreshWorkers' /\ CurInv' /\ OwedInv' /\ RegisteredNotCancelled'
    BY <2>1 DEF workerVars, IInv, FreshWorkers, CurInv, CurAt, OwedInv, OwedAt,
                Alive, RegisteredNotCancelled
  <2>3. SpawnedWorkers' /\ ClosedUnregistered'
    <3>1. \A d \in Closers : waiting'[d] \in {NoWorker, waiting[d]}
      BY <2>1 DEF IInv, TypeOK
    <3>2. NoWorker <= spawned /\ NoWorker \notin Registered
      BY DEF IInv, TypeOK, NoWorker, Registered
    <3>3. QED
      BY <2>1, <3>1, <3>2 DEF IInv, SpawnedWorkers, ClosedUnregistered
  <2>4. QED
    BY <2>2, <2>3
<1>12. ASSUME CleanupTick
       PROVE  Rest'
  BY <1>12, CloseFrame DEF CleanupTick, Stale, Closers
<1>13. ASSUME BeginShutdown
       PROVE  Rest'
  <2>1. /\ UNCHANGED <<registry, spawned, workerVars, todo, waiting>>
        /\ cancelled' \subseteq cancelled \cup ({waiting["cleanup"]} \ {NoWorker})
        /\ life = "up" /\ life' = "cancelling"
        /\ Registered' = Registered
    BY <1>13 DEF BeginShutdown, Cancel, Registered
  <2>2. waiting["cleanup"] <= spawned /\ waiting["cleanup"] \notin Registered
    BY DEF IInv, SpawnedWorkers, ClosedUnregistered, Closers
  <2>3. FreshWorkers'
    BY <2>1, <2>2 DEF IInv, FreshWorkers, workerVars, TypeOK, WorkerIds
  <2>4. SpawnedWorkers' /\ ClosedUnregistered'
    BY <2>1 DEF IInv, SpawnedWorkers, ClosedUnregistered
  <2>5. RegisteredNotCancelled'
    BY <2>1, <2>2 DEF IInv, RegisteredNotCancelled
  <2>6. CurInv' /\ OwedInv'
    BY <2>1 DEF workerVars, IInv, CurInv, CurAt, OwedInv, OwedAt, Alive
  <2>7. QED
    BY <2>3, <2>4, <2>5, <2>6
<1>14. ASSUME ShutdownAll
       PROVE  Rest'
  <2>1. CASE life' = "stopped"
    <3>1. /\ UNCHANGED <<registry, spawned, workerVars, todo, waiting, cancelled>>
          /\ Registered' = Registered /\ life = "cancelling"
      BY <1>14, <2>1 DEF ShutdownAll, Registered
    <3>2. FreshWorkers' /\ SpawnedWorkers' /\ RegisteredNotCancelled'
      BY <3>1 DEF workerVars, IInv, FreshWorkers, SpawnedWorkers, RegisteredNotCancelled
    <3>3. ClosedUnregistered'
      BY <3>1 DEF IInv, ClosedUnregistered
    <3>4. CurInv' /\ OwedInv'
      BY <3>1 DEF workerVars, IInv, CurInv, CurAt, OwedInv, OwedAt, Alive
    <3>5. QED
      BY <3>2, <3>3, <3>4
  <2>2. CASE life' # "stopped"
    <3>1. Registered \subseteq WorkerIds /\ \A x \in Registered : x <= spawned
      BY DEF Registered, IInv, TypeOK, SpawnedWorkers
    <3>2. QED
      BY <1>14, <2>2, <3>1, CloseFrame DEF ShutdownAll, Closers
  <2>3. QED
    BY <2>1, <2>2
<1>15. ASSUME ShutdownDone
       PROVE  Rest'
  <2>1. /\ UNCHANGED <<spawned, workerVars, todo, cancelled>>
        /\ registry' = Emptied /\ waiting' = [waiting EXCEPT !["lifespan"] = NoWorker]
        /\ todo["lifespan"] = {}
    BY <1>15 DEF ShutdownDone
  <2>2. Registered' = {}
    BY <2>1 DEF Registered, Emptied
  <2>3. \A d \in Closers : waiting'[d] \in {NoWorker, waiting[d]}
    BY <2>1 DEF IInv, TypeOK
  <2>4. SpawnedWorkers'
    <3>1. NoWorker <= spawned
      BY DEF IInv, TypeOK, NoWorker
    <3>2. QED
      BY <2>1, <2>3, <3>1 DEF IInv, SpawnedWorkers, Emptied
  <2>5. FreshWorkers' /\ ClosedUnregistered'
    BY <2>1, <2>2 DEF workerVars, IInv, FreshWorkers, ClosedUnregistered
  <2>6. RegisteredNotCancelled'
    BY <2>1, <2>2 DEF RegisteredNotCancelled, Emptied
  <2>7. CurInv' /\ OwedInv'
    BY <2>1, <2>2 DEF workerVars, IInv, CurInv, CurAt, OwedInv, OwedAt, Alive
  <2>8. QED
    BY <2>4, <2>5, <2>6, <2>7
<1>16. CASE UNCHANGED vars
  <2>1. Registered' = Registered
    BY <1>16 DEF vars, Registered
  <2>2. QED
    BY <1>16, <2>1
    DEF vars, workerVars, closerVars, IInv, FreshWorkers, SpawnedWorkers,
        ClosedUnregistered, RegisteredNotCancelled, CurInv, CurAt, OwedInv,
        OwedAt, Alive
<1>17. QED
  BY <1>1, <1>2, <1>3, <1>4, <1>5, <1>6, <1>7, <1>8, <1>9, <1>10, <1>11,
     <1>12, <1>13, <1>14, <1>15, <1>16 DEF Next, LoopStep, CloserStep

LEMMA InvNewestKept == IInv => NewestKept
<1> SUFFICES ASSUME IInv, NEW w \in Registered, pc[w] # "done"
             PROVE  LastOwed(w) = newest[w]
  BY DEF NewestKept
<1>1. w \in WorkerIds
  BY DEF IInv, TypeOK, Registered
<1>2. CASE pc[w] = "unborn"
  <2>1. w \in Nat /\ spawned \in Nat /\ w <= spawned
    BY <1>1 DEF IInv, TypeOK, SpawnedWorkers, Registered, WorkerIds
  <2>2. QED
    BY <2>1, <1>1, <1>2 DEF IInv, FreshWorkers
<1>3. CASE pc[w] # "unborn"
  BY <1>1, <1>3 DEF IInv, OwedInv, OwedAt, Alive, LastOwed
<1>4. QED
  BY <1>2, <1>3

-----------------------------------------------------------------------------
\* The registry never holds a worker that is being cancelled, nor one worker
\* under two sessions, whatever closers and enqueues interleave.
THEOREM NotCancelledInvariant == Spec => []RegisteredNotCancelled
<1>1. IInv => RegisteredNotCancelled
  BY DEF IInv
<1>2. QED
  BY <1>1, InvInit, InvNext, PTL DEF Spec

\* No registered worker loses the newest event it accepted.
THEOREM NewestKeptInvariant == Spec => []NewestKept
  BY InvInit, InvNext, InvNewestKept, PTL DEF Spec

-----------------------------------------------------------------------------
(* The order of events: what a worker has done, has in hand and has still  *)
(* to do are ever newer, which is why no pass is run for an old event.     *)

Pending(q) == {q[i] : i \in 1..Len(q)}

OrderAt(w) ==
  /\ cur[w] <= sent /\ served[w] <= sent
  /\ \A e \in Pending(queue[w]) : served[w] < e.n /\ e.n <= sent
  /\ pc[w] = "debounce" => served[w] < cur[w]
  /\ pc[w] = "pass" => \A e \in Pending(queue[w]) : cur[w] < e.n

OrderInv == \A w \in WorkerIds : OrderAt(w)

LEMMA PendingProperties ==
  ASSUME NEW q \in Seq(Event)
  PROVE  /\ Pending(q) \subseteq Event
         /\ Pending(<<>>) = {}
         /\ q # <<>> => Head(q) \in Pending(q) /\ Pending(Tail(q)) \subseteq Pending(q)
         /\ q # <<>> => q[Len(q)] \in Pending(q)
         /\ \A i \in 1..Len(q) : Pending(SubSeq(q, i + 1, Len(q))) \subseteq Pending(q)
         /\ \A e \in Event : Pending(Put(q, e)) \subseteq Pending(q) \cup {e}
<1>1. Pending(q) \subseteq Event /\ Pending(<<>>) = {}
  BY DEF Pending
<1>2. ASSUME q # <<>>
      PROVE  Head(q) \in Pending(q) /\ q[Len(q)] \in Pending(q)
  BY <1>2 DEF Pending
<1>3. ASSUME q # <<>>
      PROVE  Tail(q) \in Seq(Event) /\ Pending(Tail(q)) \subseteq Pending(q)
  <2>1. /\ Tail(q) \in Seq(Event) /\ Len(Tail(q)) = Len(q) - 1
        /\ \A i \in 1..Len(Tail(q)) : Tail(q)[i] = q[i + 1]
    BY <1>3
  <2>. DEFINE t == Tail(q)
  <2>. HIDE DEF t
  <2>2. \A i \in 1..Len(t) : i + 1 \in 1..Len(q) /\ t[i] = q[i + 1]
    BY <2>1 DEF t
  <2>3. Pending(t) \subseteq Pending(q)
    BY <2>2 DEF Pending
  <2>4. QED
    BY <2>1, <2>3 DEF t
<1>4. ASSUME NEW i \in 1..Len(q)
      PROVE  Pending(SubSeq(q, i + 1, Len(q))) \subseteq Pending(q)
  <2>. DEFINE t == SubSeq(q, i + 1, Len(q))
  <2>1. Len(t) = Len(q) - i /\ \A j \in 1..Len(t) : t[j] = q[i + j]
    OBVIOUS
  <2>. HIDE DEF t
  <2>2. \A j \in 1..Len(t) : i + j \in 1..Len(q) /\ t[j] = q[i + j]
    BY <2>1
  <2>3. Pending(t) \subseteq Pending(q)
    BY <2>2 DEF Pending
  <2>4. QED
    BY <2>3 DEF t
<1>5. ASSUME NEW e \in Event
      PROVE  Pending(Put(q, e)) \subseteq Pending(q) \cup {e}
  <2>1. ASSUME NEW t \in Seq(Event)
        PROVE  Pending(Append(t, e)) \subseteq Pending(t) \cup {e}
    BY DEF Pending
  <2>2. CASE Len(q) < MaxQueue
    BY <2>1, <2>2 DEF Put
  <2>3. CASE ~(Len(q) < MaxQueue)
    <3>1. q # <<>>
      BY <2>3, ConstantsAssumption
    <3>2. Tail(q) \in Seq(Event) /\ Pending(Tail(q)) \subseteq Pending(q)
      BY <1>3, <3>1
    <3>3. Pending(Append(Tail(q), e)) \subseteq Pending(Tail(q)) \cup {e}
      BY <2>1, <3>2
    <3>4. Put(q, e) = Append(Tail(q), e)
      BY <2>3 DEF Put
    <3>5. QED
      BY <3>2, <3>3, <3>4
  <2>4. QED
    BY <2>2, <2>3
<1>6. QED
  BY <1>1, <1>2, <1>3, <1>4, <1>5

LEMMA OrderInit == Init => OrderInv
<1>1. Init => \A w \in WorkerIds : Pending(queue[w]) = {}
  BY DEF Init, Pending
<1>2. QED
  BY <1>1 DEF Init, OrderInv, OrderAt

\* What the step of a loop does to the order: nothing new comes in, and what
\* other workers do is not touched.
LEMMA OrderFrame ==
  ASSUME TypeOK, OrderInv, NEW w \in WorkerIds, sent' = sent,
         \A v \in WorkerIds \ {w} :
           /\ pc'[v] = pc[v] /\ queue'[v] = queue[v] /\ cur'[v] = cur[v]
           /\ served'[v] = served[v],
         OrderAt(w)'
  PROVE  OrderInv'
<1>1. ASSUME NEW v \in WorkerIds \ {w}
      PROVE  OrderAt(v)'
  BY <1>1 DEF OrderInv, OrderAt
<1>2. QED
  BY <1>1 DEF OrderInv

LEMMA OrderNext == IInv /\ OrderInv /\ [Next]_vars => OrderInv'
<1>. SUFFICES ASSUME IInv, OrderInv, [Next]_vars
              PROVE  OrderInv'
  OBVIOUS
<1>. USE DEF EventNum
<1>t. TypeOK /\ sent \in Nat
  BY ConstantsAssumption DEF IInv, TypeOK
<1>q. \A w \in WorkerIds : /\ queue[w] \in Seq(Event) /\ cur[w] \in Nat /\ served[w] \in Nat
                           /\ OrderAt(w)
  BY <1>t, ConstantsAssumption DEF TypeOK, OrderInv
<1>p. \A w \in WorkerIds : \A f \in Pending(queue[w]) : f.n \in Nat
  <2>1. \A w \in WorkerIds : Pending(queue[w]) \subseteq Event
    BY <1>q, PendingProperties
  <2>2. \A f \in Event : f.n \in Nat
    BY DEF Event
  <2>3. QED
    BY <2>1, <2>2
<1>1. ASSUME NEW s \in Sessions, NEW k \in Kinds, Enqueue(s, k)
      PROVE  OrderInv'
  <2>1. PICK w, e : /\ w = IF registry[s] = NoWorker THEN spawned + 1 ELSE registry[s]
                    /\ e = [n |-> sent + 1, kind |-> k]
    OBVIOUS
  <2>2. w \in WorkerIds /\ e \in Event /\ e.n = sent + 1
    BY <1>1, <1>t, <2>1, ConstantsAssumption
    DEF Enqueue, TypeOK, WorkerIds, Event, NoWorker
  <2>3. /\ sent' = sent + 1 /\ queue' = [queue EXCEPT ![w] = Put(@, e)]
        /\ pc' = [pc EXCEPT ![w] = "get"] \/ pc' = pc
        /\ cur' = cur /\ served' = served
    BY <1>1, <2>1 DEF Enqueue
  <2>4. ASSUME NEW v \in WorkerIds \ {w}
        PROVE  OrderAt(v)'
    <3>1. pc'[v] = pc[v] /\ queue'[v] = queue[v]
      BY <2>3, <2>4, <1>t DEF TypeOK
    <3>2. QED
      BY <2>3, <3>1, <1>p, <1>q, <1>t DEF OrderAt
  <2>5. OrderAt(w)'
    <3>1. queue'[w] = Put(queue[w], e) /\ pc'[w] \in {pc[w], "get"}
      BY <2>2, <2>3, <1>t DEF TypeOK
    <3>2. Pending(queue'[w]) \subseteq Pending(queue[w]) \cup {e}
      BY <1>q, <2>2, <3>1, PendingProperties
    <3>3. QED
      BY <2>2, <2>3, <3>1, <3>2, <1>p, <1>q, <1>t DEF OrderAt
  <2>6. QED
    BY <2>4, <2>5 DEF OrderInv
<1>2. ASSUME NEW w \in WorkerIds, GetEvent(w)
      PROVE  OrderInv'
  <2>1. /\ queue[w] # <<>> /\ queue'[w] = Tail(queue[w])
        /\ served' = served /\ sent' = sent
        /\ \/ pc'[w] = "done" /\ cur' = cur
           \/ pc'[w] = "debounce" /\ cur'[w] = Head(queue[w]).n
        /\ \A v \in WorkerIds \ {w} :
             pc'[v] = pc[v] /\ queue'[v] = queue[v] /\ cur'[v] = cur[v]
    BY <1>2, <1>t DEF GetEvent, TypeOK, sentVars
  <2>2. Head(queue[w]) \in Pending(queue[w]) /\ Pending(Tail(queue[w])) \subseteq Pending(queue[w])
    BY <1>q, <2>1, PendingProperties
  <2>3. OrderAt(w)'
    BY <1>q, <2>1, <2>2 DEF OrderAt
  <2>4. QED
    BY <1>t, <2>1, <2>3, OrderFrame
<1>3. ASSUME NEW w \in WorkerIds, DrainToEnd(w)
      PROVE  OrderInv'
  <2>1. PICK i \in 1..Len(queue[w]) : queue' = [queue EXCEPT ![w] = SubSeq(@, i + 1, Len(@))]
    BY <1>3 DEF DrainToEnd, EndsIn
  <2>2. /\ queue'[w] = SubSeq(queue[w], i + 1, Len(queue[w]))
        /\ served' = served /\ sent' = sent /\ pc'[w] = "done" /\ cur'[w] = 0
        /\ \A v \in WorkerIds \ {w} :
             pc'[v] = pc[v] /\ queue'[v] = queue[v] /\ cur'[v] = cur[v]
    BY <1>3, <1>t, <2>1 DEF DrainToEnd, TypeOK, sentVars
  <2>3. Pending(queue'[w]) \subseteq Pending(queue[w])
    BY <1>q, <2>1, <2>2, PendingProperties
  <2>4. OrderAt(w)'
    BY <1>t, <1>q, <2>2, <2>3 DEF OrderAt
  <2>5. QED
    BY <1>t, <2>2, <2>4, OrderFrame
<1>4. ASSUME NEW w \in WorkerIds, StartPass(w)
      PROVE  OrderInv'
  <2>1. /\ pc[w] = "debounce" /\ pc'[w] = "pass" /\ cur'[w] = Latest(w) /\ queue'[w] = <<>>
        /\ served' = served /\ sent' = sent
        /\ \A v \in WorkerIds \ {w} :
             pc'[v] = pc[v] /\ queue'[v] = queue[v] /\ cur'[v] = cur[v]
    BY <1>4, <1>t DEF StartPass, TypeOK, sentVars
  <2>2. Pending(<<>>) = {} /\ (queue[w] # <<>> => queue[w][Len(queue[w])] \in Pending(queue[w]))
    BY <1>q, PendingProperties
  <2>3. OrderAt(w)'
    BY <1>t, <1>q, <2>1, <2>2 DEF OrderAt, Latest
  <2>4. QED
    BY <1>t, <2>1, <2>3, OrderFrame
<1>5. ASSUME NEW w \in WorkerIds, FinishPass(w)
      PROVE  OrderInv'
  <2>1. /\ pc[w] = "pass" /\ pc'[w] = "record" /\ served'[w] = cur[w]
        /\ cur' = cur /\ queue' = queue /\ sent' = sent
        /\ \A v \in WorkerIds \ {w} : pc'[v] = pc[v] /\ served'[v] = served[v]
    BY <1>5, <1>t DEF FinishPass, TypeOK, sentVars
  <2>2. OrderAt(w)'
    BY <1>q, <2>1 DEF OrderAt
  <2>3. QED
    BY <1>t, <2>1, <2>2, OrderFrame
<1>6. ASSUME NEW w \in WorkerIds, FinishRecord(w) \/ DeliverCancel(w)
      PROVE  OrderInv'
  <2>1. /\ pc'[w] \notin {"debounce", "pass"} /\ cur'[w] \in {0, cur[w]}
        /\ queue' = queue /\ sent' = sent /\ served' = served
        /\ \A v \in WorkerIds \ {w} : pc'[v] = pc[v] /\ cur'[v] = cur[v]
    BY <1>6, <1>t DEF FinishRecord, DeliverCancel, TypeOK, sentVars
  <2>2. OrderAt(w)'
    BY <1>t, <1>q, <2>1 DEF OrderAt
  <2>3. QED
    BY <1>t, <2>1, <2>2, OrderFrame
<1>7. CASE UNCHANGED <<workerVars, sent>>
  BY <1>7 DEF workerVars, OrderInv, OrderAt
<1>8. QED
  BY <1>1, <1>2, <1>3, <1>4, <1>5, <1>6, <1>7
  DEF Next, LoopStep, CloserStep, Age, CloseNext, CloseReturns, CleanupTick, BeginShutdown,
      ShutdownAll, ShutdownDone, ShutdownSession, vars, sentVars

\* A pass is for the newest event, for none again and for none older, and ends
\* by running to its end unless its worker was closed.
THEOREM PassIsForNewestAlways == Spec => PassIsForNewest
<1>1. ASSUME IInv, OrderInv, [Next]_vars, NEW w \in WorkerIds
      PROVE  /\ pc[w] = "debounce" /\ pc'[w] = "pass" =>
                  cur'[w] = newest[w] /\ cur'[w] > served[w]
             /\ w \in Registered /\ pc[w] = "pass" /\ pc'[w] # "pass" =>
                  served'[w] = cur[w]
  <2>. USE DEF EventNum
  <2>t. TypeOK /\ queue[w] \in Seq(Event) /\ cur[w] \in Nat /\ served[w] \in Nat
    BY <1>1, ConstantsAssumption DEF IInv, TypeOK
  <2>1. \/ UNCHANGED pc
        \/ \E s \in Sessions, k \in Kinds : Enqueue(s, k)
        \/ \E v \in WorkerIds : LoopStep(v)
    BY <1>1 DEF Next, CloserStep, Age, CloseNext, CloseReturns, CleanupTick, BeginShutdown,
                ShutdownAll, ShutdownDone, ShutdownSession, vars, workerVars
  <2>2. CASE UNCHANGED pc
    BY <2>2
  <2>3. ASSUME NEW s \in Sessions, NEW k \in Kinds, Enqueue(s, k)
        PROVE  pc'[w] = pc[w] \/ (pc'[w] = "get" /\ pc[w] # "pass")
    <3>1. PICK x : x = IF registry[s] = NoWorker THEN spawned + 1 ELSE registry[s]
      OBVIOUS
    <3>2. \/ pc' = pc
          \/ x = spawned + 1 /\ x <= MaxWorkers /\ pc' = [pc EXCEPT ![x] = "get"]
      BY <2>3, <3>1 DEF Enqueue
    <3>3. spawned \in Nat /\ w \in Nat
      BY <2>t, ConstantsAssumption DEF TypeOK, WorkerIds
    <3>4. w = spawned + 1 => pc[w] = "unborn"
      BY <1>1, <3>3 DEF IInv, FreshWorkers
    <3>5. QED
      BY <2>t, <3>2, <3>4 DEF TypeOK
  <2>4. ASSUME NEW v \in WorkerIds, LoopStep(v), v # w
        PROVE  pc'[w] = pc[w]
    BY <2>t, <2>4 DEF LoopStep, GetEvent, DrainToEnd, StartPass, FinishPass, FinishRecord,
                      DeliverCancel, TypeOK
  <2>5. CASE LoopStep(w)
    <3>1. CASE StartPass(w)
      <4>1. pc[w] = "debounce" /\ pc'[w] = "pass" /\ cur'[w] = Latest(w)
        BY <2>t, <3>1 DEF StartPass, TypeOK
      <4>2. OwedAt(w) /\ CurAt(w) /\ OrderAt(w)
        BY <1>1 DEF IInv, OwedInv, CurInv, OrderInv
      <4>3. queue[w] # <<>> => queue[w][Len(queue[w])] \in Pending(queue[w])
        BY <2>t, PendingProperties
      <4>4. Latest(w) = newest[w]
        BY <4>1, <4>2 DEF OwedAt, CurAt, Alive, Latest
      <4>5. Latest(w) > served[w]
        <5>1. CASE queue[w] = <<>>
          BY <5>1, <4>1, <4>2 , <2>t DEF OrderAt, Latest
        <5>2. CASE queue[w] # <<>>
          <6>1. queue[w][Len(queue[w])] \in Event
            BY <4>3, <5>2, <2>t, PendingProperties
          <6>2. QED
            BY <5>2, <4>2, <4>3, <6>1, <2>t DEF OrderAt, Latest, Event
        <5>3. QED
          BY <5>1, <5>2
      <4>6. QED
        BY <4>1, <4>4, <4>5
    <3>2. CASE FinishPass(w)
      BY <2>t, <3>2 DEF FinishPass, TypeOK
    <3>3. CASE DeliverCancel(w)
      <4>1. w \notin Registered /\ pc'[w] # "pass"
        BY <1>1, <2>t, <3>3 DEF DeliverCancel, IInv, RegisteredNotCancelled, TypeOK
      <4>2. QED
        BY <4>1
    <3>4. CASE GetEvent(w) \/ DrainToEnd(w) \/ FinishRecord(w)
      BY <2>t, <3>4 DEF GetEvent, DrainToEnd, FinishRecord, TypeOK
    <3>5. QED
      BY <2>5, <3>1, <3>2, <3>3, <3>4 DEF LoopStep
  <2>6. QED
    BY <2>1, <2>2, <2>3, <2>4, <2>5
<1>2. IInv /\ OrderInv /\ [Next]_vars =>
        [\A w \in WorkerIds :
           /\ pc[w] = "debounce" /\ pc'[w] = "pass" =>
                cur'[w] = newest[w] /\ cur'[w] > served[w]
           /\ w \in Registered /\ pc[w] = "pass" /\ pc'[w] # "pass" =>
                served'[w] = cur[w]]_vars
  BY <1>1
<1>3. QED
  BY <1>2, InvInit, InvNext, OrderInit, OrderNext, PTL DEF Spec, PassIsForNewest
=============================================================================
