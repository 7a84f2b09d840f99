--------------------------- MODULE ServicesProofs ---------------------------
(***************************************************************************)
(* Proofs about the services around the request path, each for any values  *)
(* of its constants: the live stream, the lifespan with its plugins, the   *)
(* promotion of facts into long-term memory, the layers of the             *)
(* configuration, and the trace store.  They share no state; the theorems  *)
(* are about the specification of each.                                    *)
(***************************************************************************)
EXTENDS LiveStream, Lifespan, Memory, Config, TraceStore, ListsProofs, FiniteSetTheorems

-----------------------------------------------------------------------------
(* The live stream.  What a client was sent, is being sent and will be     *)
(* sent is one sequence; a step moves the borders between the three parts, *)
(* or appends an event to it.                                              *)

InFlight(k) == IF k.pc = "send" THEN <<k.event>> ELSE <<>>

Run(c) == told[c] \o InFlight(conn[c]) \o queue[c]

Consecutive(r) == \A i \in 1..(Len(r) - 1) : r[i + 1] = r[i] + 1

\* The run reaches up to event n, if there is anything in it.
UpTo(r, n) == r # <<>> => Last(r) = n

LiveTypeOK ==
  /\ subscribers \in SUBSET LiveClients
  /\ queue \in [LiveClients -> Seq(Nat)]
  /\ conn \in [LiveClients -> [pc : {"new", "get", "send", "closed", "gone", "refused"}, event : Nat]]
  /\ events \in Nat
  /\ told \in [LiveClients -> Seq(Nat)]

\* The sentinel is no natural number: it never gets into a queue.
LiveAt(c) ==
  /\ conn[c].pc = "new" => told[c] = <<>> /\ queue[c] = <<>>
  /\ Connected(c) => Consecutive(Run(c))
  /\ c \in subscribers => Connected(c) /\ UpTo(Run(c), events)

LiveInv == LiveTypeOK /\ \A c \in LiveClients : LiveAt(c)

\* A run with one more event.
LEMMA RunGrows ==
  ASSUME NEW r \in Seq(Nat), NEW n \in Nat, Consecutive(r), UpTo(r, n)
  PROVE  Consecutive(Append(r, n + 1)) /\ UpTo(Append(r, n + 1), n + 1)
<1>. DEFINE s == Append(r, n + 1)
<1>1. /\ s \in Seq(Nat) /\ Len(s) = Len(r) + 1 /\ s[Len(r) + 1] = n + 1
      /\ \A i \in 1..Len(r) : s[i] = r[i]
  BY AppendProperties
<1>2. r # <<>> => Len(r) > 0 /\ r[Len(r)] = n
  BY DEF UpTo, Last
<1>. HIDE DEF s
<1>3. ASSUME NEW i \in 1..(Len(s) - 1)
      PROVE  s[i + 1] = s[i] + 1
  <2>1. CASE i = Len(r)
    <3>1. r # <<>>
      BY <1>1, <2>1
    <3>2. QED
      BY <1>1, <1>2, <2>1, <3>1
  <2>2. CASE i # Len(r)
    <3>1. i \in 1..(Len(r) - 1) /\ i + 1 \in 1..Len(r)
      BY <1>1, <2>2
    <3>2. s[i + 1] = r[i + 1] /\ s[i] = r[i]
      BY <1>1, <3>1
    <3>3. r[i + 1] = r[i] + 1
      BY <3>1 DEF Consecutive
    <3>4. QED
      BY <3>2, <3>3
  <2>3. QED
    BY <2>1, <2>2
<1>4. UpTo(s, n + 1)
  BY <1>1 DEF UpTo, Last
<1>5. QED
  BY <1>3, <1>4 DEF s, Consecutive

\* The border moves over an event that is taken, or that was sent.
LEMMA RunTaken ==
  ASSUME NEW t \in Seq(Nat), NEW q \in Seq(Nat), q # <<>>
  PROVE  /\ Head(q) \in Nat /\ Tail(q) \in Seq(Nat)
         /\ t \o <<Head(q)>> \o Tail(q) = t \o <<>> \o q
<1>1. Head(q) \in Nat /\ Tail(q) \in Seq(Nat) /\ <<Head(q)>> \in Seq(Nat)
  OBVIOUS
<1>2. <<Head(q)>> \o Tail(q) = q
  OBVIOUS
<1>3. PICK h : h = <<Head(q)>>
  OBVIOUS
<1>6. (t \o h) \o Tail(q) = t \o (h \o Tail(q))
  BY <1>1, <1>3, Assoc
<1>4. t \o <<>> = t
  BY ConcatEmptySeq
<1>5. QED
  BY <1>1, <1>2, <1>3, <1>4, <1>6

LEMMA RunSent ==
  ASSUME NEW t \in Seq(Nat), NEW q \in Seq(Nat), NEW e \in Nat
  PROVE  Append(t, e) \in Seq(Nat) /\ Append(t, e) \o <<>> \o q = t \o <<e>> \o q
<1>1. Append(t, e) \in Seq(Nat) /\ Append(t, e) = t \o <<e>>
  BY AppendIsConcat
<1>2. Append(t, e) \o <<>> = Append(t, e)
  BY <1>1, ConcatEmptySeq
<1>3. QED
  BY <1>1, <1>2

LEMMA LiveStart == LiveInit => LiveInv
<1>. SUFFICES ASSUME LiveInit PROVE LiveInv
  OBVIOUS
<1>1. LiveTypeOK
  BY DEF LiveInit, LiveTypeOK, Ended
<1>2. ASSUME NEW c \in LiveClients PROVE LiveAt(c)
  BY DEF LiveInit, LiveAt, Connected, Ended
<1>3. QED
  BY <1>1, <1>2 DEF LiveInv

\* A step of one client, which leaves the others and the events alone.
LEMMA ClientStep ==
  ASSUME LiveInv, NEW c \in LiveClients, LiveTypeOK', LiveAt(c)',
         events' = events,
         \A d \in LiveClients \ {c} :
           /\ conn'[d] = conn[d] /\ told'[d] = told[d] /\ queue'[d] = queue[d]
           /\ d \in subscribers' <=> d \in subscribers
  PROVE  LiveInv'
<1>1. ASSUME NEW d \in LiveClients \ {c} PROVE LiveAt(d)'
  BY <1>1 DEF LiveInv, LiveAt, Connected, Run
<1>2. QED
  BY <1>1 DEF LiveInv

LEMMA LiveKept == LiveInv /\ [LiveNext]_liveVars => LiveInv'
<1>. SUFFICES ASSUME LiveInv, [LiveNext]_liveVars PROVE LiveInv'
  OBVIOUS
<1>t. LiveTypeOK /\ \A c \in LiveClients : LiveAt(c)
  BY DEF LiveInv
<1>1. CASE Broadcast
  <2>1. PICK n : n = events
    OBVIOUS
  <2>2. /\ n \in Nat /\ events' = n + 1 /\ conn' = conn /\ told' = told
        /\ subscribers' = subscribers \ Overflowed
        /\ queue' = [c \in LiveClients |->
                       IF c \in Overflowed THEN Put(c, Dropped)
                       ELSE IF c \in subscribers THEN Put(c, n + 1) ELSE queue[c]]
    BY <1>1, <1>t, <2>1 DEF Broadcast, LiveTypeOK
  <2>3. ASSUME NEW c \in LiveClients
        PROVE  queue'[c] = IF c \in subscribers \ Overflowed THEN Append(queue[c], n + 1) ELSE queue[c]
    BY <2>2 DEF Overflowed, Put
  <2>4. LiveTypeOK'
    <3>1. ASSUME NEW c \in LiveClients PROVE queue'[c] \in Seq(Nat)
      <4>1. queue[c] \in Seq(Nat)
        BY <1>t DEF LiveTypeOK
      <4>2. Append(queue[c], n + 1) \in Seq(Nat)
        BY <2>2, <4>1
      <4>3. QED
        BY <2>3, <4>1, <4>2
    <3>2. queue' \in [LiveClients -> Seq(Nat)]
      BY <2>2, <3>1
    <3>3. QED
      BY <1>t, <2>2, <3>2 DEF LiveTypeOK
  <2>5. ASSUME NEW c \in LiveClients
        PROVE  LiveAt(c)'
    <3>1. LiveAt(c) /\ conn'[c] = conn[c] /\ told'[c] = told[c]
      BY <1>t, <2>2
    <3>2. CASE c \in subscribers \ Overflowed
      <4>1. Connected(c) /\ Consecutive(Run(c)) /\ UpTo(Run(c), n)
        BY <2>1, <3>1, <3>2 DEF LiveAt
      <4>2. /\ told[c] \in Seq(Nat) /\ queue[c] \in Seq(Nat) /\ conn[c].event \in Nat
            /\ InFlight(conn[c]) \in Seq(Nat)
        BY <1>t DEF LiveTypeOK, InFlight
      <4>7. PICK e, t, r, q : e = n + 1 /\ t = told[c] /\ r = InFlight(conn[c]) /\ q = queue[c]
        OBVIOUS
      <4>8. e \in Nat /\ queue'[c] = Append(q, e)
        <5>1. queue'[c] = Append(queue[c], n + 1)
          BY <2>3, <3>2
        <5>2. n + 1 \in Nat
          BY <2>2
        <5>3. QED
          BY <4>7, <5>1, <5>2
      <4>9. t \o r \o q \in Seq(Nat) /\ t \o r \o Append(q, e) = Append(t \o r \o q, e)
        <5>1. t \in Seq(Nat) /\ r \in Seq(Nat) /\ q \in Seq(Nat)
          BY <4>2, <4>7
        <5>2. e \in Nat
          BY <4>8
        <5>3. PICK u : u = t \o r
          OBVIOUS
        <5>4. u \in Seq(Nat)
          BY <5>1, <5>3
        <5>5. u \o q \in Seq(Nat)
          BY <5>1, <5>4
        <5>6. u \o Append(q, e) = Append(u \o q, e)
          BY <5>1, <5>2, <5>4
        <5>7. QED
          BY <5>3, <5>5, <5>6
      <4>10. InFlight(conn'[c]) = InFlight(conn[c])
        BY <3>1
      <4>3. Run(c) \in Seq(Nat) /\ Run(c)' = Append(Run(c), n + 1)
        BY <3>1, <4>7, <4>8, <4>9, <4>10 DEF Run
      <4>4. Consecutive(Run(c)') /\ UpTo(Run(c)', n + 1)
        BY <2>2, <4>1, <4>3, RunGrows
      <4>5. Connected(c)' /\ conn'[c].pc # "new"
        BY <3>1, <4>1 DEF Connected
      <4>6. QED
        BY <2>2, <4>4, <4>5 DEF LiveAt
    <3>3. CASE c \notin subscribers \ Overflowed
      <4>1. queue'[c] = queue[c] /\ c \notin subscribers'
        BY <2>2, <2>3, <3>3
      <4>2. QED
        BY <3>1, <4>1 DEF LiveAt, Connected, Run
    <3>4. QED
      BY <3>2, <3>3
  <2>6. QED
    BY <2>4, <2>5 DEF LiveInv
<1>2. ASSUME NEW c \in LiveClients, Connect(c)
      PROVE  LiveInv'
  <2>1. /\ conn[c].pc = "new" /\ queue' = queue /\ events' = events /\ told' = told
        /\ \/ subscribers' = subscribers \cup {c} /\ conn' = [conn EXCEPT ![c] = [pc |-> "get", event |-> 0]]
           \/ subscribers' = subscribers /\ conn' = [conn EXCEPT ![c] = [pc |-> "refused", event |-> 0]]
    BY <1>2 DEF Connect, Waiting, Ended
  <2>2. LiveTypeOK'
    <3>1. conn' \in [LiveClients -> [pc : {"new", "get", "send", "closed", "gone", "refused"}, event : Nat]]
      <4>1. PICK k \in [pc : {"new", "get", "send", "closed", "gone", "refused"}, event : Nat] :
              conn' = [conn EXCEPT ![c] = k]
        BY <2>1
      <4>2. QED
        BY <1>t, <4>1 DEF LiveTypeOK
    <3>2. subscribers' \in SUBSET LiveClients
      BY <1>t, <2>1 DEF LiveTypeOK
    <3>3. QED
      BY <1>t, <2>1, <3>1, <3>2 DEF LiveTypeOK
  <2>3. told[c] = <<>> /\ queue[c] = <<>> /\ c \notin subscribers
    BY <1>t, <2>1 DEF LiveAt, Connected
  <2>4. LiveAt(c)'
    <3>1. CASE conn'[c] = [pc |-> "get", event |-> 0]
      <4>1. Run(c)' = <<>>
        BY <2>1, <2>3, <3>1, ConcatEmptySeq DEF Run, InFlight
      <4>2. QED
        BY <2>1, <2>3, <3>1, <4>1 DEF LiveAt, Connected, Consecutive, UpTo
    <3>2. CASE conn'[c] = [pc |-> "refused", event |-> 0] /\ subscribers' = subscribers
      BY <2>3, <3>2 DEF LiveAt, Connected
    <3>3. QED
      BY <1>t, <2>1, <3>1, <3>2 DEF LiveTypeOK
  <2>5. QED
    BY <1>t, <2>1, <2>2, <2>4, ClientStep DEF LiveTypeOK
<1>3. ASSUME NEW c \in LiveClients, Get(c)
      PROVE  LiveInv'
  <2>1. /\ conn[c].pc = "get" /\ queue[c] # <<>> /\ UNCHANGED <<subscribers, events, told>>
        /\ conn' = [conn EXCEPT ![c] = [pc |-> "send", event |-> Head(queue[c])]]
        /\ queue' = [queue EXCEPT ![c] = Tail(queue[c])]
    BY <1>3 DEF Get, Sending
  <2>2. told[c] \in Seq(Nat) /\ queue[c] \in Seq(Nat)
    BY <1>t DEF LiveTypeOK
  <2>3. /\ Head(queue[c]) \in Nat /\ Tail(queue[c]) \in Seq(Nat)
        /\ told[c] \o <<Head(queue[c])>> \o Tail(queue[c]) = told[c] \o <<>> \o queue[c]
    BY <2>1, <2>2, RunTaken
  <2>4. conn'[c] = [pc |-> "send", event |-> Head(queue[c])] /\ queue'[c] = Tail(queue[c])
    BY <1>t, <2>1 DEF LiveTypeOK
  <2>5. LiveTypeOK'
    BY <1>t, <2>1, <2>3 DEF LiveTypeOK
  <2>6. Run(c)' = Run(c)
    <3>1. InFlight(conn[c]) = <<>> /\ InFlight(conn'[c]) = <<Head(queue[c])>> /\ told'[c] = told[c]
      BY <2>1, <2>4 DEF InFlight
    <3>2. QED
      BY <2>3, <2>4, <3>1 DEF Run
  <2>7. LiveAt(c)'
    BY <1>t, <2>1, <2>4, <2>6 DEF LiveAt, Connected
  <2>8. QED
    BY <1>t, <2>1, <2>5, <2>7, ClientStep DEF LiveTypeOK
<1>4. ASSUME NEW c \in LiveClients, Sent(c)
      PROVE  LiveInv'
  <2>1. conn[c].event \in Nat /\ told[c] \in Seq(Nat) /\ queue[c] \in Seq(Nat)
    BY <1>t DEF LiveTypeOK
  <2>2. /\ conn[c].pc = "send" /\ UNCHANGED <<subscribers, queue, events>>
        /\ conn' = [conn EXCEPT ![c] = [pc |-> "get", event |-> 0]]
        /\ told' = [told EXCEPT ![c] = Append(told[c], conn[c].event)]
    BY <1>4, <2>1 DEF Sent, Waiting, Dropped
  <2>3. conn'[c] = [pc |-> "get", event |-> 0] /\ told'[c] = Append(told[c], conn[c].event)
    BY <1>t, <2>2 DEF LiveTypeOK
  <2>4. /\ Append(told[c], conn[c].event) \in Seq(Nat)
        /\ Append(told[c], conn[c].event) \o <<>> \o queue[c] = told[c] \o <<conn[c].event>> \o queue[c]
    BY <2>1, RunSent
  <2>5. LiveTypeOK'
    BY <1>t, <2>2, <2>4 DEF LiveTypeOK
  <2>6. Run(c)' = Run(c)
    <3>1. InFlight(conn[c]) = <<conn[c].event>> /\ InFlight(conn'[c]) = <<>> /\ queue'[c] = queue[c]
      BY <2>2, <2>3 DEF InFlight
    <3>2. QED
      BY <2>3, <2>4, <3>1 DEF Run
  <2>7. LiveAt(c)'
    BY <1>t, <2>2, <2>3, <2>6 DEF LiveAt, Connected
  <2>8. QED
    BY <1>t, <2>2, <2>5, <2>7, ClientStep DEF LiveTypeOK
<1>5. ASSUME NEW c \in LiveClients, SendFails(c)
      PROVE  LiveInv'
  <2>1. /\ conn' = [conn EXCEPT ![c] = [pc |-> "gone", event |-> 0]]
        /\ subscribers' = subscribers \ {c} /\ UNCHANGED <<queue, events, told>>
    BY <1>5 DEF SendFails, Ended, Leave
  <2>2. LiveTypeOK' /\ conn'[c].pc = "gone" /\ c \notin subscribers'
    BY <1>t, <2>1 DEF LiveTypeOK
  <2>3. LiveAt(c)'
    BY <2>2 DEF LiveAt, Connected
  <2>4. QED
    BY <1>t, <2>1, <2>2, <2>3, ClientStep DEF LiveTypeOK
<1>6. CASE UNCHANGED liveVars
  BY <1>6 DEF liveVars, LiveInv, LiveTypeOK, LiveAt, Connected, Run
<1>7. QED
  BY <1>1, <1>2, <1>3, <1>4, <1>5, <1>6 DEF LiveNext, LiveStep

\* No client of the live stream misses an event in the middle, and a subscriber
\* has, was sent or is about to be sent everything up to the latest one.
THEOREM StreamIsUnbroken == LiveSpec => []LiveUnbroken
<1>1. ASSUME LiveInv, NEW c \in LiveClients
      PROVE  LET run == told[c] \o (IF conn[c].pc = "send" THEN <<conn[c].event>> ELSE <<>>) \o queue[c]
             IN  /\ Connected(c) => \A i \in 1..(Len(run) - 1) : run[i + 1] = run[i] + 1
                 /\ c \in subscribers => Connected(c) /\ (run # <<>> => Last(run) = events)
  BY <1>1 DEF LiveInv, LiveAt, Consecutive, UpTo, Run, InFlight
<1>2. LiveInv => LiveUnbroken
  BY <1>1 DEF LiveUnbroken
<1>3. QED
  BY <1>2, LiveStart, LiveKept, PTL DEF LiveSpec

-----------------------------------------------------------------------------
(* The lifespan.  Whether a graph came up is decided by one phase and read  *)
(* by all that follow.  What is open shrinks with the phases of the end: in  *)
(* each there is only what it and those behind it close, and what is        *)
(* excused.                                                                  *)

Started == {"sidecar", "plugins", "serving"}

Clients == {"http", "extractor"}

GraphKnown ==
  /\ phase \in {"off", "graph"} => "backend" \notin open /\ ~degraded
  /\ phase = "require" => (degraded => Unready)
  /\ phase \in Started => (degraded <=> Unready)
  /\ "backend" \in open => GraphConfigured

OpenSoFar ==
  /\ open \subseteq Resources
  /\ phase = "off" => open = {}
  /\ phase \in {"graph", "failed"} => open \subseteq Clients \cup {"lost"}
  /\ phase = "require" => open \subseteq Clients \cup {"lost", "backend"}
  /\ "lost" \in open => attempts > 0
  /\ "stranded" \in open => env.persist

StillOpen ==
  /\ phase = "deactivate" => open \subseteq Excused \cup {"semantic"} \cup Behind["semantic"]
  /\ phase \in DOMAIN After => open \subseteq Excused \cup {phase} \cup Behind[phase]
  /\ phase = "stopped" => open \subseteq Excused
  /\ phase = "raised" => \E r \in broken \cap {"semantic", "http", "extractor"} :
                           open \subseteq Excused \cup Behind[r]

LifeInv ==
  /\ degraded \in BOOLEAN /\ attempts \in Nat
  /\ GraphKnown /\ OpenSoFar /\ StillOpen

LEMMA LifeStart == LifeInit => LifeInv
<1>. SUFFICES ASSUME LifeInit PROVE LifeInv
  OBVIOUS
<1>1. phase = "off" /\ open = {} /\ attempts = 0 /\ degraded = FALSE /\ "off" \notin DOMAIN After
  BY DEF LifeInit, After
<1>2. GraphKnown /\ OpenSoFar /\ StillOpen
  BY <1>1 DEF GraphKnown, OpenSoFar, StillOpen, Started
<1>3. QED
  BY <1>1, <1>2 DEF LifeInv

\* What the phase that follows r closes, and those behind it, are those behind r.
LEMMA BehindIsAfter ==
  ASSUME NEW r \in DOMAIN After
  PROVE  /\ After[r] \in DOMAIN After => Behind[r] = {After[r]} \cup Behind[After[r]]
         /\ After[r] \notin DOMAIN After => After[r] = "stopped" /\ Behind[r] = {}
         /\ After[r] \notin {"off", "graph", "failed", "require", "deactivate", "raised"} \cup Started
<1>1. DOMAIN After = {"semantic", "adapters", "http", "extractor", "backend"}
  BY DEF After
<1>2. /\ After["semantic"] = "adapters" /\ After["adapters"] = "http" /\ After["http"] = "extractor"
      /\ After["extractor"] = "backend" /\ After["backend"] = "stopped"
  BY DEF After
<1>3. /\ Behind["semantic"] = {"adapters", "http", "extractor", "backend"}
      /\ Behind["adapters"] = {"http", "extractor", "backend"}
      /\ Behind["http"] = {"extractor", "backend"} /\ Behind["extractor"] = {"backend"}
      /\ Behind["backend"] = {}
  BY DEF Behind
<1>4. \/ r = "semantic" \/ r = "adapters" \/ r = "http" \/ r = "extractor" \/ r = "backend"
  BY <1>1
<1>5. QED
  BY <1>1, <1>2, <1>3, <1>4 DEF Started

LEMMA CloseKept ==
  ASSUME LifeInv, NEW r \in DOMAIN After, NEW ok \in BOOLEAN, Close(r, ok)
  PROVE  LifeInv'
<1>1. /\ phase = r /\ env' = env /\ attempts' = attempts /\ degraded' = degraded
      /\ \/ /\ ok /\ open' = open \ {r} /\ late' = late \ {r} /\ broken' = broken
            /\ phase' = After[r]
         \/ /\ ~ok /\ open' = open /\ late' = late /\ broken' = broken \cup {r}
            /\ phase' = IF r \in Guarded THEN After[r] ELSE "raised"
  BY DEF Close, GoTo
<1>2. phase' \notin {"off", "graph", "failed", "require", "deactivate"} \cup Started
  BY <1>1, BehindIsAfter DEF Started
<1>3. open \subseteq Excused \cup {r} \cup Behind[r]
  BY <1>1 DEF LifeInv, StillOpen
<1>4. open' \subseteq Excused' \cup Behind[r] /\ open' \subseteq open
  BY <1>1, <1>3 DEF Excused
<1>5. StillOpen'
  <2>1. CASE phase' = After[r]
    <3>1. CASE After[r] \in DOMAIN After
      <4>1. phase' \notin {"stopped", "raised", "deactivate"}
        BY <2>1, <3>1 DEF After
      <4>2. QED
        BY <1>4, <2>1, <3>1, <4>1, BehindIsAfter DEF StillOpen
    <3>2. CASE After[r] \notin DOMAIN After
      BY <1>4, <2>1, <3>2, BehindIsAfter DEF StillOpen
    <3>3. QED
      BY <3>1, <3>2
  <2>2. CASE phase' = "raised" /\ r \notin Guarded /\ r \in broken'
    <3>1. r \in {"semantic", "http", "extractor"}
      BY <2>2 DEF After, Guarded
    <3>2. phase' \notin DOMAIN After
      BY <2>2 DEF After
    <3>3. QED
      BY <1>4, <2>2, <3>1, <3>2 DEF StillOpen
  <2>3. QED
    BY <1>1, <2>1, <2>2
<1>6. OpenSoFar'
  BY <1>1, <1>2, <1>4 DEF LifeInv, OpenSoFar
<1>7. GraphKnown'
  BY <1>1, <1>2, <1>4 DEF LifeInv, GraphKnown, GraphConfigured
<1>8. QED
  BY <1>1, <1>5, <1>6, <1>7 DEF LifeInv

LEMMA UseKept ==
  ASSUME LifeInv, NEW r \in Resources, Use(r)
  PROVE  LifeInv'
<1>1. /\ phase \in Served /\ r \in {"workers", "adapters", "semantic"}
      /\ open' = open \cup {r} /\ phase' = phase /\ env' = env /\ broken' = broken
      /\ attempts' = attempts /\ degraded' = degraded
      /\ late \subseteq late'
      /\ phase # "serving" => r \in late'
  BY DEF Use
<1>2. /\ phase \notin {"off", "graph", "failed", "require", "sidecar", "plugins"}
      /\ \A q \in {"backend", "lost", "stranded"} : q \in open' <=> q \in open
  BY <1>1 DEF Served
<1>3. ASSUME phase # "serving", NEW S, open \subseteq Excused \cup S
      PROVE  open' \subseteq Excused' \cup S
  <2>1. Excused \subseteq Excused' /\ r \in Excused'
    BY <1>1, <1>3 DEF Excused
  <2>2. QED
    BY <1>1, <1>3, <2>1
<1>4. StillOpen'
  <2>1. phase = "serving" => phase \notin DOMAIN After
    BY DEF After
  <2>2. CASE phase = "serving"
    BY <1>1, <2>1, <2>2 DEF StillOpen
  <2>3. CASE phase # "serving"
    <3>1. StillOpen
      BY DEF LifeInv
    <3>2. phase = "stopped" => open' \subseteq Excused'
      <4>1. phase = "stopped" => open \subseteq Excused \cup {}
        BY <3>1 DEF StillOpen
      <4>2. QED
        BY <1>3, <2>3, <4>1
    <3>3. phase = "deactivate" => open' \subseteq Excused' \cup ({"semantic"} \cup Behind["semantic"])
      <4>1. phase = "deactivate" => open \subseteq Excused \cup ({"semantic"} \cup Behind["semantic"])
        BY <3>1 DEF StillOpen
      <4>2. QED
        BY <1>3, <2>3, <4>1
    <3>4. phase \in DOMAIN After => open' \subseteq Excused' \cup ({phase} \cup Behind[phase])
      <4>1. phase \in DOMAIN After => open \subseteq Excused \cup ({phase} \cup Behind[phase])
        BY <3>1 DEF StillOpen
      <4>2. QED
        BY <1>3, <2>3, <4>1
    <3>5. phase = "raised" => \E q \in broken \cap {"semantic", "http", "extractor"} :
                                open' \subseteq Excused' \cup Behind[q]
      <4>1. SUFFICES ASSUME phase = "raised"
                     PROVE  \E q \in broken \cap {"semantic", "http", "extractor"} :
                              open' \subseteq Excused' \cup Behind[q]
        OBVIOUS
      <4>2. PICK q \in broken \cap {"semantic", "http", "extractor"} : open \subseteq Excused \cup Behind[q]
        BY <3>1, <4>1 DEF StillOpen
      <4>3. open' \subseteq Excused' \cup Behind[q]
        BY <1>3, <2>3, <4>2
      <4>4. QED
        BY <4>3
    <3>6. QED
      BY <1>1, <3>2, <3>3, <3>4, <3>5 DEF StillOpen
  <2>4. QED
    BY <2>2, <2>3
<1>5. OpenSoFar'
  BY <1>1, <1>2 DEF LifeInv, OpenSoFar
<1>6. GraphKnown'
  BY <1>1, <1>2 DEF LifeInv, GraphKnown, GraphConfigured, Unready, GraphReady
<1>7. QED
  BY <1>1, <1>4, <1>5, <1>6 DEF LifeInv

LEMMA StopTasksKept ==
  ASSUME LifeInv, NEW failing \in SUBSET {"sidecar"}, StopTasks(failing)
  PROVE  LifeInv'
<1>1. /\ phase' = "deactivate" /\ env' = env /\ attempts' = attempts /\ degraded' = degraded
      /\ open' = open \ ({"cleanup", "workers", "callback", "sidecar"} \ failing)
      /\ broken' = broken \cup failing /\ open \subseteq Resources
  BY DEF StopTasks, GoTo, LifeInv, OpenSoFar
<1>2. Behind["semantic"] = {"adapters", "http", "extractor", "backend"} /\ "deactivate" \notin DOMAIN After
  BY DEF Behind, After
<1>3. open' \subseteq Excused' \cup {"semantic"} \cup Behind["semantic"]
  BY <1>1, <1>2 DEF Excused, Resources
<1>4. StillOpen'
  BY <1>1, <1>2, <1>3 DEF StillOpen
<1>5. OpenSoFar'
  BY <1>1 DEF LifeInv, OpenSoFar
<1>6. GraphKnown'
  BY <1>1 DEF LifeInv, GraphKnown, Started, GraphConfigured
<1>7. QED
  BY <1>1, <1>4, <1>5, <1>6 DEF LifeInv

LEMMA LifeKept == LifeInv /\ [LifeNext]_lifeVars => LifeInv'
<1>. SUFFICES ASSUME LifeInv, [LifeNext]_lifeVars PROVE LifeInv'
  OBVIOUS
<1>. USE DEF GraphReady, GraphConfigured, Unready, GoTo, Started, Clients
<1>a. /\ "semantic" \in DOMAIN After
      /\ \A p \in {"off", "graph", "require", "failed", "sidecar", "plugins", "serving", "stopping",
                   "hung", "deactivate", "stopped", "raised"} : p \notin DOMAIN After
  BY DEF After
<1>s. ASSUME phase' \in {"graph", "require", "failed", "sidecar", "plugins", "serving", "stopping", "hung"}
      PROVE  StillOpen'
  BY <1>a, <1>s DEF StillOpen
<1>1. ASSUME NEW e \in Environments, Start(e) PROVE LifeInv'
  <2>1. /\ phase = "off" /\ degraded' = degraded /\ attempts' = attempts
        /\ \/ phase' = "failed" /\ open' = open
           \/ phase' = "graph" /\ open' = {"http", "extractor"}
    BY <1>1 DEF Start
  <2>2. open = {} /\ ~degraded /\ degraded \in BOOLEAN /\ attempts \in Nat
    BY <2>1 DEF LifeInv, OpenSoFar, GraphKnown
  <2>3. OpenSoFar' /\ GraphKnown'
    BY <2>1, <2>2 DEF OpenSoFar, GraphKnown, Resources
  <2>4. QED
    BY <1>s, <2>1, <2>2, <2>3 DEF LifeInv
<1>2. CASE GraphConnects
  BY <1>2, <1>s DEF LifeInv, GraphKnown, OpenSoFar, GraphConnects, Resources
<1>3. CASE GraphFails
  <2>1. /\ phase = "graph" /\ env.backend # "none" /\ env' = env
        /\ open' \in {open, open \cup {"lost"}} /\ attempts' = attempts + 1
        /\ degraded' = (env.backend = "ladybug")
        /\ phase' = "require" \/ (phase' = "graph" /\ env.backend = "neo4j")
    BY <1>3 DEF GraphFails
  <2>2. /\ open \subseteq {"http", "extractor", "lost"} /\ attempts \in Nat
        /\ "backend" \notin open
    BY <2>1 DEF LifeInv, OpenSoFar, GraphKnown
  <2>3. OpenSoFar' /\ attempts' \in Nat
    BY <2>1, <2>2 DEF OpenSoFar, Resources
  <2>4. degraded' \in BOOLEAN /\ "backend" \notin open' /\ (phase' = "graph" => ~degraded')
    BY <2>1, <2>2
  <2>5. GraphKnown'
    BY <2>1, <2>4 DEF GraphKnown
  <2>6. QED
    BY <1>s, <2>1, <2>3, <2>4, <2>5 DEF LifeInv
<1>4. CASE NoGraph
  BY <1>4, <1>s DEF LifeInv, GraphKnown, OpenSoFar, NoGraph
<1>5. CASE RequireGraph
  BY <1>5, <1>s DEF LifeInv, GraphKnown, OpenSoFar, RequireGraph
<1>6. CASE StartSidecar
  BY <1>6, <1>s DEF LifeInv, GraphKnown, OpenSoFar, StartSidecar, Resources
<1>7. CASE UNCHANGED <<phase, env, open, closeVars, attempts, degraded>>
  BY <1>7 DEF LifeInv, GraphKnown, OpenSoFar, StillOpen, Excused, closeVars
<1>8. ASSUME NEW p \in Plugins, ActivatePlugin(p) \/ PluginTimesOut(p)
      PROVE  LifeInv'
  BY <1>7, <1>8 DEF ActivatePlugin, PluginTimesOut
<1>9. ASSUME NEW p \in Plugins, NEW answer, PluginAnswers(p, answer)
      PROVE  LifeInv'
  BY <1>7, <1>9 DEF PluginAnswers
<1>10. CASE StartServing
  BY <1>10, <1>s DEF LifeInv, GraphKnown, OpenSoFar, StartServing, Resources
<1>11. CASE WorkersHang
  BY <1>11, <1>s DEF LifeInv, GraphKnown, OpenSoFar, WorkersHang
<1>12. CASE DeactivatePlugins
  <2>1. /\ phase = "deactivate" /\ phase' = "semantic"
        /\ UNCHANGED <<env, open, late, broken, attempts, degraded>>
    BY <1>12 DEF DeactivatePlugins, closeVars
  <2>2. StillOpen'
    BY <1>a, <2>1 DEF LifeInv, StillOpen, Excused
  <2>3. QED
    BY <2>1, <2>2 DEF LifeInv, GraphKnown, OpenSoFar
<1>13. CASE Stop
  BY <1>13, <1>s DEF LifeInv, GraphKnown, OpenSoFar, Stop
<1>14. ASSUME NEW r \in Resources, Use(r) PROVE LifeInv'
  BY <1>14, UseKept
<1>15. ASSUME NEW failing \in SUBSET {"sidecar"}, StopTasks(failing) PROVE LifeInv'
  BY <1>15, StopTasksKept
<1>16. ASSUME NEW r \in DOMAIN After, NEW ok \in BOOLEAN, Close(r, ok) PROVE LifeInv'
  BY <1>16, CloseKept
<1>17. CASE UNCHANGED lifeVars
  BY <1>7, <1>17 DEF lifeVars
<1>18. QED
  BY <1>1, <1>2, <1>3, <1>4, <1>5, <1>6, <1>8, <1>9, <1>10, <1>11, <1>12, <1>13, <1>14,
     <1>15, <1>16, <1>17 DEF LifeNext, LifeStep

\* The health a serving proxy reports is that of its graph. A shutdown that came
\* to its end left open only what could not be closed by it: connections lost by
\* failed attempts, a stranded sidecar, what tasks opened behind it, what raised
\* when it was closed; one that ended by an error, also what it had not reached;
\* and a failed start its two clients.
THEOREM HealthIsHonest == LifeSpec => []HealthAndClosureHonest
<1>1. LifeInv => HealthAndClosureHonest
  <2>. SUFFICES ASSUME LifeInv PROVE HealthAndClosureHonest
    OBVIOUS
  <2>1. ASSUME phase = "serving", NEW connected \in BOOLEAN
        PROVE  /\ (Health(connected).status = "degraded") = (env.backend # "none" /\ "backend" \notin open)
               /\ Health(connected).graph = "not_configured" <=> env.backend = "none"
               /\ ~ReadyProbe(connected) => ~connected /\ Health(connected).graph = "disconnected"
    BY <2>1 DEF LifeInv, GraphKnown, Started, Health, ReadyProbe, GraphReady, GraphConfigured, Unready
  <2>2. /\ phase = "stopped" => open \subseteq Excused
        /\ phase = "raised" => \E r \in broken \cap {"semantic", "http", "extractor"} :
                                 open \subseteq Excused \cup Behind[r]
    BY DEF LifeInv, StillOpen
  <2>3. /\ phase = "failed" => open \subseteq {"http", "extractor", "lost"}
        /\ "lost" \in open => attempts > 0
        /\ "stranded" \in open => env.persist
    BY DEF LifeInv, OpenSoFar, Clients
  <2>4. QED
    BY <2>1, <2>2, <2>3 DEF HealthAndClosureHonest
<1>2. QED
  BY <1>1, LifeStart, LifeKept, PTL DEF LifeSpec

-----------------------------------------------------------------------------
(* The promotion.  The engines are registered before anything is promoted,  *)
(* and stay as they are from then on; a batch holds eligible facts only,    *)
(* and its results stand for what its engine was sent.                      *)

Ids == {c.id : c \in EngineConfigs}
Good == {f \in UNION {ToSet(facts) : facts \in FactLists} : ShouldPromote(f)}
Results == [fact : Good, engine : Ids \cup {NoEngine}, outcome : {"success", "failed", "skipped"}]
Batches == [pc : {"idle", "send", "done", "cancelled"}, todo : Seq(Good),
            engine : Ids \cup {NoEngine}, results : Seq(Results)]

MemoryTypeOK ==
  /\ engines \in [Ids -> EngineConfigs \cup {NoEngine}]
  /\ default \in Ids \cup {NoEngine}
  /\ listed \in Nat \cup {-1}
  /\ task \in [Promoters -> Batches]
  /\ remote \in SUBSET (Ids \X Good)
  /\ trail \in Seq(Results)
  /\ stats \in [attempted : Nat, success : Nat, failed : Nat, skipped : Nat]

\* Nothing is promoted while engines are registered.
Unused == listed # -1 => remote = {} /\ trail = <<>> /\ \A p \in Promoters : task[p].pc = "idle"

\* held is what the engines hold.
Backed(r, held) == r.outcome = "success" => <<r.engine, r.fact>> \in held

ResultsBacked ==
  /\ \A i \in DOMAIN trail : Backed(trail[i], remote)
  /\ \A p \in Promoters : \A i \in DOMAIN task[p].results : Backed(task[p].results[i], remote)

OnlyAvailable ==
  /\ \A e \in remote : Available(e[1])
  /\ \A p \in Promoters : task[p].pc = "send" => Available(task[p].engine)

DefaultIsBest ==
  twice = {} =>
    /\ default # NoEngine => engines[default] # NoEngine
    /\ \A id \in Ids : engines[id] # NoEngine /\ engines[id].enabled =>
         default # NoEngine /\ engines[default].priority >= engines[id].priority

Tallied(st, tr) ==
  /\ st.attempted = st.success + st.failed + st.skipped
  /\ Len(tr) = IF st.attempted > MaxTrail THEN MaxTrail ELSE st.attempted

MemoryInv ==
  /\ MemoryTypeOK /\ Unused /\ ResultsBacked /\ OnlyAvailable /\ DefaultIsBest
  /\ Tallied(stats, trail)

\* An adapter calls a success only what its engine has stored.
LEMMA SuccessIsStored ==
  ASSUME NEW id, NEW reply, Available(id), Outcome(AdapterOf(id), reply) = "success"
  PROVE  Stores(reply)
<1>. PICK t : t = engines[id].type
  OBVIOUS
<1>1. t \in DOMAIN AdapterTypes /\ AdapterOf(id) = AdapterTypes[t]
  BY DEF Available, AdapterOf
<1>2. AdapterTypes[t].ok \subseteq {"200", "201", "202", "written"}
  BY <1>1 DEF AdapterTypes, Adapter, ArcholithMemory, Mem0, Zep, ClaudeMem, OpenMemory,
              NocturneMemory, Cognee, GenericHttp, BasicMemory
<1>3. reply.status \in AdapterTypes[t].ok
  BY <1>1 DEF Outcome
<1>4. QED
  BY <1>2, <1>3 DEF Stores

LEMMA DisjointUnion ==
  ASSUME NEW S, IsFiniteSet(S), NEW T, IsFiniteSet(T), S \cap T = {}
  PROVE  IsFiniteSet(S \cup T) /\ Cardinality(S \cup T) = Cardinality(S) + Cardinality(T)
<1>1. /\ IsFiniteSet(S \cup T)
      /\ Cardinality(S \cup T) = Cardinality(S) + Cardinality(T) - Cardinality(S \cap T)
  BY FS_Union
<1>2. Cardinality(S \cap T) = 0
  BY FS_EmptySet
<1>3. Cardinality(S) \in Nat /\ Cardinality(T) \in Nat
  BY FS_CardinalityType
<1>4. QED
  BY <1>1, <1>2, <1>3

\* The counts of a list of results: each is one attempt and has one outcome.
LEMMA CountsAddUp ==
  ASSUME NEW results \in Seq(Results)
  PROVE  /\ \A o \in {"attempted", "success", "failed", "skipped"} : Counted(results, o) \in Nat
         /\ Counted(results, "attempted") = Len(results)
         /\ Len(results) = Counted(results, "success") + Counted(results, "failed")
                           + Counted(results, "skipped")
<1>. DEFINE D == 1..Len(results)
            Of(o) == {i \in D : results[i].outcome = o}
<1>0. Len(results) \in Nat /\ DOMAIN results = D /\ \A i \in D : results[i] \in Results
  OBVIOUS
<1>1. IsFiniteSet(D) /\ Cardinality(D) = Len(results)
  <2>1. PICK n \in Nat : n = Len(results)
    BY <1>0
  <2>2. IsFiniteSet(1..n) /\ Cardinality(1..n) = IF 1 > n THEN 0 ELSE n - 1 + 1
    BY FS_Interval
  <2>3. QED
    BY <2>1, <2>2
<1>2. ASSUME NEW o \in {"success", "failed", "skipped"}
      PROVE  Counted(results, o) = Cardinality(Of(o)) /\ IsFiniteSet(Of(o)) /\ Cardinality(Of(o)) \in Nat
  <2>1. {i \in DOMAIN results : o \in {"attempted", results[i].outcome}} = Of(o)
    BY <1>0
  <2>2. IsFiniteSet(Of(o))
    BY <1>1, FS_Subset
  <2>3. QED
    BY <2>1, <2>2, FS_CardinalityType DEF Counted
<1>3. {i \in DOMAIN results : "attempted" \in {"attempted", results[i].outcome}} = D
  BY <1>0
<1>4. Counted(results, "attempted") = Len(results)
  BY <1>1, <1>3 DEF Counted
<1>. PICK a, b, c : a = Of("success") /\ b = Of("failed") /\ c = Of("skipped")
  OBVIOUS
<1>5. /\ IsFiniteSet(a) /\ IsFiniteSet(b) /\ IsFiniteSet(c)
      /\ Cardinality(a) \in Nat /\ Cardinality(b) \in Nat /\ Cardinality(c) \in Nat
  BY <1>2
<1>6. a \cap b = {} /\ (a \cup b) \cap c = {}
  OBVIOUS
<1>7. (a \cup b) \cup c = D
  BY <1>0 DEF Results
<1>8. IsFiniteSet(a \cup b) /\ Cardinality(a \cup b) = Cardinality(a) + Cardinality(b)
  BY <1>5, <1>6, DisjointUnion
<1>9. Cardinality((a \cup b) \cup c) = Cardinality(a \cup b) + Cardinality(c)
  BY <1>5, <1>6, <1>8, DisjointUnion
<1>10. QED
  BY <1>0, <1>1, <1>2, <1>4, <1>5, <1>7, <1>8, <1>9

Within(s, lo, hi) == lo >= 1 /\ hi <= Len(s)

LEMMA Slice ==
  ASSUME NEW S, NEW s \in Seq(S), NEW lo \in Int, NEW hi \in Int, Within(s, lo, hi)
  PROVE  /\ SubSeq(s, lo, hi) \in Seq(S)
         /\ Len(SubSeq(s, lo, hi)) = (IF lo <= hi THEN hi - lo + 1 ELSE 0)
         /\ \A i \in 1..(hi - lo + 1) : SubSeq(s, lo, hi)[i] = s[lo + i - 1]
<1>1. \A i \in lo..hi : s[i] \in S
  BY DEF Within
<1>2. QED
  BY <1>1, SubSeqProperties

LEMMA Sums ==
  ASSUME NEW y \in Nat, NEW z \in Nat, NEW w \in Nat, NEW a \in Nat, NEW b \in Nat, NEW c \in Nat
  PROVE  (y + z + w) + (a + b + c) = (y + a) + (z + b) + (w + c)
OBVIOUS

\* What recording a list of results does to the trail and to the counts.
LEMMA Recorded ==
  ASSUME NEW results \in Seq(Results), MemoryTypeOK, Tallied(stats, trail), RecordAll(results)
  PROVE  /\ trail' \in Seq(Results)
         /\ stats' \in [attempted : Nat, success : Nat, failed : Nat, skipped : Nat]
         /\ Tallied(stats', trail')
         /\ \A i \in DOMAIN trail' : \/ \E k \in DOMAIN trail : trail'[i] = trail[k]
                                     \/ \E k \in DOMAIN results : trail'[i] = results[k]
<1>p. PICK all, t0, st : all = trail \o results /\ t0 = trail /\ st = stats
  OBVIOUS
<1>q. PICK lo : lo = IF Len(all) > MaxTrail THEN Len(all) - MaxTrail + 1 ELSE 1
  OBVIOUS
<1>0. MaxTrail \in Nat \ {0} /\ t0 \in Seq(Results) /\ Len(t0) \in Nat /\ Len(results) \in Nat
  BY <1>p, MemoryAssumption DEF MemoryTypeOK
<1>1. /\ all \in Seq(Results) /\ Len(all) = Len(t0) + Len(results) /\ Len(all) \in Nat
      /\ \A i \in 1..Len(all) : all[i] = IF i <= Len(t0) THEN t0[i] ELSE results[i - Len(t0)]
  BY <1>p, <1>0, ConcatProperties
<1>2. trail' = SubSeq(all, lo, Len(all))
  BY <1>p, <1>q DEF RecordAll
<1>3. lo \in Int /\ lo >= 1 /\ Len(all) - lo + 1 = IF Len(all) > MaxTrail THEN MaxTrail ELSE Len(all)
  BY <1>q, <1>0, <1>1
<1>r. PICK hi, new : hi = Len(all) /\ new = trail'
  OBVIOUS
<1>5. /\ new \in Seq(Results) /\ Len(new) = (IF lo <= hi THEN hi - lo + 1 ELSE 0)
      /\ \A i \in 1..(hi - lo + 1) : new[i] = all[lo + i - 1]
  <2>1. hi \in Int /\ lo \in Int
    BY <1>r, <1>1, <1>3
  <2>2. new = SubSeq(all, lo, hi)
    BY <1>r, <1>2
  <2>6. Within(all, lo, hi)
    BY <1>r, <1>1, <1>3 DEF Within
  <2>4. /\ SubSeq(all, lo, hi) \in Seq(Results) /\ Len(SubSeq(all, lo, hi)) = (IF lo <= hi THEN hi - lo + 1 ELSE 0)
        /\ \A i \in 1..(hi - lo + 1) : SubSeq(all, lo, hi)[i] = all[lo + i - 1]
    BY <1>1, <2>1, <2>6, Slice
  <2>5. QED
    BY <2>2, <2>4
<1>6. Len(new) = IF hi > MaxTrail THEN MaxTrail ELSE hi
  <2>1. hi \in Nat /\ lo \in Int /\ hi - lo + 1 = IF hi > MaxTrail THEN MaxTrail ELSE hi
    BY <1>r, <1>1, <1>3
  <2>2. lo <= hi \/ hi - lo + 1 = 0
    BY <1>0, <2>1
  <2>3. QED
    BY <1>5, <2>1, <2>2
<1>7. ASSUME NEW i \in DOMAIN trail'
      PROVE  \/ \E k \in DOMAIN t0 : trail'[i] = t0[k]
             \/ \E k \in DOMAIN results : trail'[i] = results[k]
  <2>1. i \in 1..Len(new) /\ i \in Nat /\ lo \in Int /\ hi \in Nat /\ lo >= 1
    BY <1>r, <1>1, <1>3, <1>5
  <2>6. i \in 1..(hi - lo + 1) /\ lo + i - 1 \in 1..hi
    BY <1>5, <2>1
  <2>2. PICK j \in 1..Len(all) : trail'[i] = all[j]
    BY <1>r, <1>5, <2>6
  <2>3. CASE j <= Len(t0)
    BY <1>0, <1>1, <2>2, <2>3
  <2>4. CASE j > Len(t0)
    <3>1. all[j] = results[j - Len(t0)] /\ j - Len(t0) \in 1..Len(results)
      BY <1>0, <1>1, <2>4
    <3>2. QED
      BY <2>2, <3>1
  <2>5. QED
    BY <1>0, <2>3, <2>4
<1>s. PICK n, a, b, c : /\ n = Counted(results, "attempted") /\ a = Counted(results, "success")
                        /\ b = Counted(results, "failed") /\ c = Counted(results, "skipped")
  OBVIOUS
<1>8. a \in Nat /\ b \in Nat /\ c \in Nat /\ n = Len(results) /\ n = a + b + c
  BY <1>s, CountsAddUp
<1>9. st \in [attempted : Nat, success : Nat, failed : Nat, skipped : Nat] /\ Tallied(st, t0)
  BY <1>p DEF MemoryTypeOK
<1>10. /\ stats' = [o \in {"attempted", "success", "failed", "skipped"} |-> st[o] + Counted(results, o)]
  BY <1>p, <1>9 DEF RecordAll
<1>11. /\ stats'.attempted = st.attempted + n /\ stats'.success = st.success + a
       /\ stats'.failed = st.failed + b /\ stats'.skipped = st.skipped + c
  BY <1>s, <1>10
<1>12. stats' \in [attempted : Nat, success : Nat, failed : Nat, skipped : Nat]
  <2>1. st.attempted \in Nat /\ st.success \in Nat /\ st.failed \in Nat /\ st.skipped \in Nat
    BY <1>9
  <2>2. \A o \in {"attempted", "success", "failed", "skipped"} : st[o] + Counted(results, o) \in Nat
    <3>1. \A o \in {"attempted", "success", "failed", "skipped"} : Counted(results, o) \in Nat
      BY CountsAddUp
    <3>2. \A o \in {"attempted", "success", "failed", "skipped"} : st[o] \in Nat
      BY <2>1
    <3>3. \A x, y \in Nat : x + y \in Nat
      OBVIOUS
    <3>4. QED
      BY <3>1, <3>2, <3>3, Zenon
  <2>3. QED
    BY <1>10, <2>2
<1>13. Tallied(stats', trail')
  <2>1. st.attempted \in Nat /\ st.success \in Nat /\ st.failed \in Nat /\ st.skipped \in Nat
    BY <1>9
  <2>2. /\ st.attempted = st.success + st.failed + st.skipped
        /\ Len(t0) = IF st.attempted > MaxTrail THEN MaxTrail ELSE st.attempted
    BY <1>9 DEF Tallied
  <2>p. PICK x, y, z, w : x = st.attempted /\ y = st.success /\ z = st.failed /\ w = st.skipped
    OBVIOUS
  <2>q. PICK x1, y1, z1, w1 : /\ x1 = stats'.attempted /\ y1 = stats'.success
                              /\ z1 = stats'.failed /\ w1 = stats'.skipped
    OBVIOUS
  <2>3. x1 = x + n /\ y1 = y + a /\ z1 = z + b /\ w1 = w + c
    BY <1>11, <2>p, <2>q
  <2>4. x \in Nat /\ y \in Nat /\ z \in Nat /\ w \in Nat
    BY <2>p, <2>1
  <2>9. x = y + z + w /\ Len(t0) = IF x > MaxTrail THEN MaxTrail ELSE x
    BY <2>p, <2>2
  <2>10. x1 = x + (a + b + c) /\ n \in Nat
    BY <1>8, <2>3
  <2>5. x1 = y1 + z1 + w1
    <3>1. x1 = (y + z + w) + (a + b + c)
      BY <2>9, <2>10
    <3>2. (y + z + w) + (a + b + c) = (y + a) + (z + b) + (w + c)
      BY <1>8, <2>4, Sums
    <3>3. QED
      BY <2>3, <3>1, <3>2
  <2>6. hi = Len(t0) + n /\ Len(t0) \in Nat
    BY <1>r, <1>0, <1>1, <1>8
  <2>7. Len(new) = IF x1 > MaxTrail THEN MaxTrail ELSE x1
    BY <1>0, <1>6, <2>3, <2>4, <2>6, <2>9, <2>10
  <2>8. QED
    BY <1>r, <2>q, <2>5, <2>7 DEF Tallied
<1>14. QED
  BY <1>p, <1>r, <1>5, <1>7, <1>12, <1>13

LEMMA MemoryStart == MemoryInit => MemoryInv
<1>. SUFFICES ASSUME MemoryInit PROVE MemoryInv
  OBVIOUS
<1>1. MemoryTypeOK
  BY DEF MemoryInit, MemoryTypeOK, Ids, Batches
<1>2. Unused /\ ResultsBacked /\ OnlyAvailable
  BY DEF MemoryInit, Unused, ResultsBacked, OnlyAvailable
<1>3. DefaultIsBest
  BY DEF MemoryInit, DefaultIsBest, Ids
<1>4. Tallied(stats, trail)
  BY MemoryAssumption DEF MemoryInit, Tallied
<1>5. QED
  BY <1>1, <1>2, <1>3, <1>4 DEF MemoryInv

\* The registration of engines: the best of those seen so far is the default.
LEMMA RegisterKeeps ==
  ASSUME MemoryInv, NEW c \in EngineConfigs, Register(c)
  PROVE  MemoryInv'
<1>1. /\ MemoryTypeOK /\ listed \in Nat /\ listed' = listed + 1
      /\ engines' = [engines EXCEPT ![c.id] = c]
      /\ default' = IF Better(c) THEN c.id ELSE default
      /\ twice' = IF engines[c.id] = NoEngine THEN twice ELSE twice \cup {c.id}
      /\ UNCHANGED <<task, remote, trail, stats>>
  BY DEF MemoryInv, Register
<1>2. c.id \in Ids /\ c.id # NoEngine /\ c # NoEngine /\ c.priority \in Int /\ c.enabled \in BOOLEAN
  BY MemoryAssumption DEF Ids
<1>3. MemoryTypeOK'
  <2>1. engines' \in [Ids -> EngineConfigs \cup {NoEngine}]
    BY <1>1 DEF MemoryTypeOK
  <2>2. QED
    BY <1>1, <1>2, <2>1 DEF MemoryTypeOK
<1>4. Unused' /\ ResultsBacked' /\ OnlyAvailable'
  <2>1. remote = {} /\ trail = <<>> /\ \A p \in Promoters : task[p].pc = "idle"
    BY <1>1 DEF MemoryInv, Unused
  <2>2. ResultsBacked'
    BY <1>1, <2>1 DEF MemoryInv, ResultsBacked, Backed
  <2>3. QED
    BY <1>1, <2>1, <2>2 DEF Unused, OnlyAvailable
<1>5. DefaultIsBest'
  <2>1. SUFFICES ASSUME twice' = {}
                 PROVE  /\ default' # NoEngine => engines'[default'] # NoEngine
                        /\ \A id \in Ids : engines'[id] # NoEngine /\ engines'[id].enabled =>
                             default' # NoEngine /\ engines'[default'].priority >= engines'[id].priority
    BY DEF DefaultIsBest
  <2>2. twice = {} /\ engines[c.id] = NoEngine
    BY <1>1, <2>1
  <2>3. /\ default # NoEngine => engines[default] # NoEngine /\ default \in Ids
        /\ \A id \in Ids : engines[id] # NoEngine /\ engines[id].enabled =>
             default # NoEngine /\ engines[default].priority >= engines[id].priority
    BY <1>1, <2>2 DEF MemoryInv, DefaultIsBest, MemoryTypeOK
  <2>4. /\ engines'[c.id] = c
        /\ \A id \in Ids \ {c.id} : engines'[id] = engines[id]
    BY <1>1, <1>2 DEF MemoryTypeOK
  <2>5. default # NoEngine => default # c.id /\ engines[default] \in EngineConfigs
    BY <1>1, <2>2, <2>3 DEF MemoryTypeOK
  <2>6. default # NoEngine => engines[default].priority \in Int /\ engines'[default] = engines[default]
    BY <2>3, <2>4, <2>5, MemoryAssumption
  <2>7. CASE Better(c)
    <3>1. default' = c.id /\ c.enabled
      BY <1>1, <2>7 DEF Better
    <3>2. default # NoEngine => c.priority > engines[default].priority
      BY <2>5, <2>7 DEF Better
    <3>3. ASSUME NEW id \in Ids, engines'[id] # NoEngine, engines'[id].enabled
          PROVE  c.priority >= engines'[id].priority
      <4>1. CASE id = c.id
        BY <1>2, <2>4, <4>1
      <4>2. CASE id # c.id
        <5>1. engines'[id] = engines[id] /\ engines[id] # NoEngine /\ engines[id].enabled
          BY <2>4, <3>3, <4>2
        <5>2. default # NoEngine /\ engines[default].priority >= engines[id].priority
          BY <2>3, <5>1
        <5>3. engines[id] \in EngineConfigs
          BY <1>1, <5>1 DEF MemoryTypeOK
        <5>4. engines[id].priority \in Int
          BY <5>3, MemoryAssumption
        <5>5. QED
          BY <1>2, <2>6, <3>2, <5>1, <5>2, <5>4
      <4>3. QED
        BY <4>1, <4>2
    <3>4. QED
      BY <1>2, <2>4, <3>1, <3>3
  <2>8. CASE ~Better(c)
    <3>1. default' = default
      BY <1>1, <2>8
    <3>2. ASSUME NEW id \in Ids, engines'[id] # NoEngine, engines'[id].enabled
          PROVE  default # NoEngine /\ engines[default].priority >= engines'[id].priority
      <4>1. CASE id = c.id
        <5>1. default # NoEngine /\ ~(c.priority > engines[default].priority)
          BY <2>4, <2>5, <2>8, <3>2, <4>1 DEF Better
        <5>2. QED
          BY <1>2, <2>4, <2>6, <4>1, <5>1
      <4>2. CASE id # c.id
        BY <2>3, <2>4, <3>2, <4>2
      <4>3. QED
        BY <4>1, <4>2
    <3>3. QED
      BY <2>3, <2>6, <3>1, <3>2
  <2>9. QED
    BY <2>7, <2>8
<1>6. Tallied(stats, trail)'
  BY <1>1 DEF MemoryInv
<1>7. QED
  BY <1>3, <1>4, <1>5, <1>6 DEF MemoryInv

\* A promoting task moves on, and what its engine holds may grow.
LEMMA TaskStep ==
  ASSUME MemoryInv, NEW p \in Promoters, NEW t \in Batches, task' = [task EXCEPT ![p] = t],
         UNCHANGED <<engines, default, listed, twice>>, listed = -1,
         remote \subseteq remote', remote' \in SUBSET (Ids \X Good),
         \A e \in remote' : Available(e[1]),
         t.pc = "send" => Available(t.engine),
         \A i \in DOMAIN t.results : Backed(t.results[i], remote'),
         trail' \in Seq(Results),
         \A i \in DOMAIN trail' : Backed(trail'[i], remote'),
         stats' \in [attempted : Nat, success : Nat, failed : Nat, skipped : Nat],
         Tallied(stats', trail')
  PROVE  MemoryInv'
<1>1. MemoryTypeOK /\ ResultsBacked /\ OnlyAvailable /\ DefaultIsBest
  BY DEF MemoryInv
<1>2. MemoryTypeOK'
  BY <1>1 DEF MemoryTypeOK
<1>3. task'[p] = t /\ \A q \in Promoters \ {p} : task'[q] = task[q]
  BY <1>1 DEF MemoryTypeOK
<1>4. ResultsBacked'
  <2>1. ASSUME NEW q \in Promoters, NEW i \in DOMAIN task'[q].results
        PROVE  Backed(task'[q].results[i], remote')
    <3>1. CASE q = p
      BY <1>3, <2>1, <3>1
    <3>2. CASE q # p
      BY <1>1, <1>3, <2>1, <3>2 DEF ResultsBacked, Backed
    <3>3. QED
      BY <3>1, <3>2
  <2>2. QED
    BY <2>1 DEF ResultsBacked
<1>5. OnlyAvailable'
  BY <1>1, <1>3 DEF OnlyAvailable, Available
<1>6. DefaultIsBest' /\ Unused'
  BY <1>1 DEF DefaultIsBest, Unused
<1>7. QED
  BY <1>2, <1>4, <1>5, <1>6 DEF MemoryInv

LEMMA MemoryKept == MemoryInv /\ [MemoryNext]_memoryVars => MemoryInv'
<1>. SUFFICES ASSUME MemoryInv, [MemoryNext]_memoryVars PROVE MemoryInv'
  OBVIOUS
<1>t. /\ MemoryTypeOK /\ Unused /\ ResultsBacked /\ OnlyAvailable /\ DefaultIsBest
      /\ Tallied(stats, trail)
  BY DEF MemoryInv
<1>k. ASSUME NEW p \in Promoters
      PROVE  /\ task[p] \in Batches /\ task[p].engine \in Ids \cup {NoEngine}
             /\ task[p].todo \in Seq(Good) /\ task[p].results \in Seq(Results)
             /\ task[p].pc \in {"idle", "send", "done", "cancelled"}
             /\ \A i \in DOMAIN task[p].results : Backed(task[p].results[i], remote)
  <2>1. task[p] \in Batches
    BY <1>t DEF MemoryTypeOK
  <2>2. QED
    BY <1>t, <2>1 DEF Batches, ResultsBacked
<1>u. ASSUME UNCHANGED <<engines, default, listed, task, remote, trail, stats, twice>>
      PROVE  MemoryInv'
  BY <1>t, <1>u DEF MemoryInv, MemoryTypeOK, Unused, ResultsBacked, OnlyAvailable, Available, DefaultIsBest
<1>1. ASSUME NEW c \in EngineConfigs, Register(c) PROVE MemoryInv'
  BY <1>1, RegisterKeeps
<1>2. CASE RegisterDone
  BY <1>t, <1>2 DEF RegisterDone, MemoryInv, MemoryTypeOK, Unused, ResultsBacked, OnlyAvailable,
                    Available, DefaultIsBest
<1>3. CASE HealthcheckAll
  BY <1>u, <1>3 DEF HealthcheckAll
<1>4. ASSUME NEW p \in Promoters, NEW facts \in FactLists, PromoteBatch(p, facts)
      PROVE  MemoryInv'
  <2>p. PICK eligible, reached, target, old :
          /\ eligible = Only(facts, {f \in ToSet(facts) : ShouldPromote(f)})
          /\ reached = Available(default)
          /\ target = IF reached THEN default ELSE NoEngine
          /\ old = task[p]
    OBVIOUS
  <2>1. /\ listed = -1 /\ UNCHANGED <<engines, default, listed, remote, twice>>
        /\ \/ /\ task' = [task EXCEPT ![p].pc = "done"] /\ UNCHANGED <<trail, stats>>
           \/ /\ task' = [task EXCEPT ![p].pc = "done"]
              /\ RecordAll([i \in DOMAIN eligible |-> Result(eligible[i], target, "skipped")])
           \/ /\ task' = [task EXCEPT ![p] = [pc |-> "send", todo |-> eligible,
                                              engine |-> default, results |-> <<>>]]
              /\ reached /\ UNCHANGED <<trail, stats>>
    BY <1>4, <2>p DEF PromoteBatch
  <2>2. eligible \in Seq(Good)
    <3>. DEFINE T == {f \in ToSet(facts) : ShouldPromote(f)}
    <3>1. facts \in Seq(ToSet(facts))
      BY MemoryAssumption
    <3>2. eligible \in Seq(ToSet(facts) \cap T)
      <4>. HIDE DEF T
      <4>1. QED
        BY <2>p, <3>1, OnlyType DEF T
    <3>3. ToSet(facts) \cap T \subseteq Good
      BY DEF Good
    <3>4. QED
      BY <3>2, <3>3
  <2>3. target \in Ids \cup {NoEngine} /\ default \in Ids \cup {NoEngine}
    BY <1>t, <2>p DEF MemoryTypeOK
  <2>4. \A e \in remote : Available(e[1])
    BY <1>t DEF OnlyAvailable
  <2>5. /\ trail \in Seq(Results) /\ remote \in SUBSET (Ids \X Good)
        /\ \A i \in DOMAIN trail : Backed(trail[i], remote)
        /\ stats \in [attempted : Nat, success : Nat, failed : Nat, skipped : Nat]
    BY <1>t DEF MemoryTypeOK, ResultsBacked
  <2>6. PICK done : done = [old EXCEPT !.pc = "done"]
    OBVIOUS
  <2>7. /\ done \in Batches /\ done.pc = "done"
        /\ \A i \in DOMAIN done.results : Backed(done.results[i], remote)
    BY <1>k, <2>p, <2>6 DEF Batches
  <2>8. CASE task' = [task EXCEPT ![p].pc = "done"] /\ UNCHANGED <<trail, stats>>
    <3>1. task' = [task EXCEPT ![p] = done]
      BY <2>p, <2>6, <2>8
    <3>2. QED
      BY <1>t, <2>1, <2>4, <2>5, <2>7, <2>8, <3>1, TaskStep
  <2>9. CASE /\ task' = [task EXCEPT ![p].pc = "done"]
             /\ RecordAll([i \in DOMAIN eligible |-> Result(eligible[i], target, "skipped")])
    <3>p. PICK results : results = [i \in DOMAIN eligible |-> Result(eligible[i], target, "skipped")]
      OBVIOUS
    <3>1. \A i \in 1..Len(eligible) : /\ results[i] \in Results
                                      /\ results[i].outcome = "skipped"
      BY <2>2, <2>3, <3>p DEF Results, Result
    <3>2. results \in Seq(Results) /\ DOMAIN results = 1..Len(eligible)
      <4>1. PICK n \in Nat : n = Len(eligible) /\ DOMAIN eligible = 1..n
        BY <2>2
      <4>2. results = [i \in 1..n |-> results[i]] /\ DOMAIN results = 1..n
        BY <3>p, <4>1
      <4>3. results \in [1..n -> Results]
        BY <3>1, <4>1, <4>2
      <4>4. QED
        BY <4>1, <4>2, <4>3
    <3>3. RecordAll(results)
      BY <2>9, <3>p
    <3>4. /\ trail' \in Seq(Results)
          /\ stats' \in [attempted : Nat, success : Nat, failed : Nat, skipped : Nat]
          /\ Tallied(stats', trail')
          /\ \A i \in DOMAIN trail' : \/ \E k \in DOMAIN trail : trail'[i] = trail[k]
                                      \/ \E k \in DOMAIN results : trail'[i] = results[k]
      BY <1>t, <3>2, <3>3, Recorded
    <3>5. \A i \in DOMAIN trail' : Backed(trail'[i], remote)
      <4>1. \A k \in DOMAIN results : Backed(results[k], remote)
        BY <3>1, <3>2 DEF Backed
      <4>2. \A k \in DOMAIN trail : Backed(trail[k], remote)
        BY <2>5
      <4>3. QED
        BY <3>4, <4>1, <4>2
    <3>6. task' = [task EXCEPT ![p] = done]
      BY <2>p, <2>6, <2>9
    <3>7. QED
      BY <1>t, <2>1, <2>4, <2>5, <2>7, <3>4, <3>5, <3>6, TaskStep
  <2>10. CASE /\ task' = [task EXCEPT ![p] = [pc |-> "send", todo |-> eligible,
                                              engine |-> default, results |-> <<>>]]
              /\ reached /\ UNCHANGED <<trail, stats>>
    <3>p. PICK b : b = [pc |-> "send", todo |-> eligible, engine |-> default, results |-> <<>>]
      OBVIOUS
    <3>1. b \in Batches /\ Available(b.engine) /\ b.results = <<>>
      <4>1. <<>> \in Seq(Results) /\ default \in Ids \cup {NoEngine}
        BY <2>3
      <4>2. b \in Batches
        BY <2>2, <3>p, <4>1 DEF Batches
      <4>3. QED
        BY <2>p, <2>10, <3>p, <4>2
    <3>2. \A i \in DOMAIN b.results : Backed(b.results[i], remote)
      BY <3>1
    <3>3. task' = [task EXCEPT ![p] = b]
      BY <2>10, <3>p
    <3>4. QED
      BY <1>t, <2>1, <2>4, <2>5, <2>10, <3>1, <3>2, <3>3, TaskStep
  <2>11. QED
    BY <2>1, <2>8, <2>9, <2>10
<1>5. ASSUME NEW p \in Promoters, NEW reply \in Replies, PromoteFact(p, reply)
      PROVE  MemoryInv'
  <2>p. PICK old, f, id, r : /\ old = task[p] /\ f = Head(old.todo) /\ id = old.engine
                             /\ r = Result(f, id, Outcome(AdapterOf(id), reply))
    OBVIOUS
  <2>q. PICK t : t = [old EXCEPT !.todo = Tail(old.todo), !.results = Append(old.results, r)]
    OBVIOUS
  <2>1. /\ old.pc = "send" /\ old.todo # <<>>
        /\ remote' = IF Stores(reply) THEN remote \cup {<<id, f>>} ELSE remote
        /\ UNCHANGED <<engines, adapters, default, listed, trail, stats, twice>>
    BY <1>5, <2>p DEF PromoteFact
  <2>2. task' = [task EXCEPT ![p] = t]
    BY <1>5, <2>p, <2>q DEF PromoteFact
  <2>3. /\ old \in Batches /\ old.todo \in Seq(Good) /\ old.results \in Seq(Results)
        /\ \A i \in DOMAIN old.results : Backed(old.results[i], remote)
    BY <1>k, <2>p
  <2>4. f \in Good /\ Tail(old.todo) \in Seq(Good)
    BY <2>p, <2>1, <2>3
  <2>5. Available(id) /\ id \in Ids
    BY <1>t, <1>k, <2>p, <2>1 DEF OnlyAvailable, Available
  <2>6. r \in Results /\ Backed(r, remote')
    <3>1. Outcome(AdapterOf(id), reply) \in {"success", "failed"}
      BY DEF Outcome
    <3>2. r \in Results
      BY <2>p, <2>4, <2>5, <3>1 DEF Results, Result
    <3>3. r.outcome = "success" => Stores(reply)
      BY <2>p, <2>5, SuccessIsStored DEF Result
    <3>4. <<r.engine, r.fact>> = <<id, f>>
      BY <2>p DEF Result
    <3>5. QED
      BY <2>1, <3>2, <3>3, <3>4 DEF Backed
  <2>7. remote \subseteq remote' /\ remote' \in SUBSET (Ids \X Good) /\ \A e \in remote' : Available(e[1])
    BY <1>t, <2>1, <2>4, <2>5 DEF MemoryTypeOK, OnlyAvailable
  <2>8. t \in Batches /\ t.pc = "send" /\ t.engine = id /\ t.results = Append(old.results, r)
    <3>1. Append(old.results, r) \in Seq(Results)
      BY <2>3, <2>6
    <3>2. QED
      BY <2>p, <2>q, <2>1, <2>3, <2>4, <3>1 DEF Batches
  <2>9. \A i \in DOMAIN t.results : Backed(t.results[i], remote')
    <3>1. ASSUME NEW i \in 1..(Len(old.results) + 1)
          PROVE  Backed(Append(old.results, r)[i], remote')
      <4>1. CASE i = Len(old.results) + 1
        BY <2>3, <2>6, <4>1
      <4>2. CASE i # Len(old.results) + 1
        <5>1. i \in DOMAIN old.results /\ Append(old.results, r)[i] = old.results[i]
          BY <2>3, <4>2
        <5>2. QED
          BY <2>3, <2>7, <5>1 DEF Backed
      <4>3. QED
        BY <4>1, <4>2
    <3>2. DOMAIN Append(old.results, r) = 1..(Len(old.results) + 1)
      BY <2>3, <2>6, AppendProperties
    <3>3. QED
      BY <2>8, <3>1, <3>2
  <2>10. /\ trail' \in Seq(Results) /\ \A i \in DOMAIN trail' : Backed(trail'[i], remote')
         /\ stats' \in [attempted : Nat, success : Nat, failed : Nat, skipped : Nat]
         /\ Tallied(stats', trail')
    BY <1>t, <2>1, <2>7 DEF MemoryTypeOK, ResultsBacked, Backed
  <2>11. listed = -1
    BY <1>t, <2>p, <2>1 DEF Unused
  <2>12. QED
    BY <2>1, <2>2, <2>5, <2>7, <2>8, <2>9, <2>10, <2>11, TaskStep
<1>6. ASSUME NEW p \in Promoters, BatchReturns(p) \/ PromotionCancelled(p)
      PROVE  MemoryInv'
  <2>p. PICK old, results : old = task[p] /\ results = old.results
    OBVIOUS
  <2>1. PICK how \in {"done", "cancelled"} :
          /\ old.pc = "send" /\ task' = [task EXCEPT ![p].pc = how]
          /\ UNCHANGED <<engines, adapters, default, listed, remote, twice>>
          /\ RecordAll(results) \/ UNCHANGED <<trail, stats>>
    BY <1>6, <2>p DEF BatchReturns, PromotionCancelled
  <2>2. /\ old \in Batches /\ results \in Seq(Results)
        /\ \A i \in DOMAIN results : Backed(results[i], remote)
    BY <1>k, <2>p
  <2>3. PICK t : t = [old EXCEPT !.pc = how]
    OBVIOUS
  <2>4. t \in Batches /\ t.results = results /\ t.pc # "send" /\ task' = [task EXCEPT ![p] = t]
    BY <2>p, <2>1, <2>2, <2>3 DEF Batches
  <2>5. /\ listed = -1 /\ \A e \in remote : Available(e[1])
        /\ remote \in SUBSET (Ids \X Good)
        /\ trail \in Seq(Results) /\ \A i \in DOMAIN trail : Backed(trail[i], remote)
        /\ stats \in [attempted : Nat, success : Nat, failed : Nat, skipped : Nat]
    BY <1>t, <2>p, <2>1 DEF Unused, OnlyAvailable, MemoryTypeOK, ResultsBacked
  <2>6. /\ trail' \in Seq(Results)
        /\ stats' \in [attempted : Nat, success : Nat, failed : Nat, skipped : Nat]
        /\ Tallied(stats', trail')
        /\ \A i \in DOMAIN trail' : \/ \E k \in DOMAIN trail : trail'[i] = trail[k]
                                    \/ \E k \in DOMAIN results : trail'[i] = results[k]
    <3>1. CASE RecordAll(results)
      BY <1>t, <2>2, <3>1, Recorded
    <3>2. CASE UNCHANGED <<trail, stats>>
      BY <1>t, <2>5, <3>2
    <3>3. QED
      BY <2>1, <3>1, <3>2
  <2>7. \A i \in DOMAIN trail' : Backed(trail'[i], remote)
    BY <2>2, <2>5, <2>6
  <2>8. QED
    BY <2>1, <2>2, <2>4, <2>5, <2>6, <2>7, TaskStep
<1>7. CASE UNCHANGED memoryVars
  BY <1>u, <1>7 DEF memoryVars
<1>8. QED
  BY <1>1, <1>2, <1>3, <1>4, <1>5, <1>6, <1>7 DEF MemoryNext

\* A result that claims success is backed by an engine, only eligible facts leave,
\* to the best enabled engine, and the results are counted right.
THEOREM PromotionIsHonest == MemorySpec => []PromotionHonest
<1>1. MemoryInv => PromotionHonest
  <2>. SUFFICES ASSUME MemoryInv PROVE PromotionHonest
    OBVIOUS
  <2>1. \A i \in DOMAIN trail : trail[i].outcome = "success" => <<trail[i].engine, trail[i].fact>> \in remote
    BY DEF MemoryInv, ResultsBacked, Backed
  <2>2. ASSUME NEW e \in remote
        PROVE  e[2].type \in PromotableTypes /\ e[2].confidence >= MinConfidence /\ engines[e[1]].enabled
    <3>1. e[2] \in Good /\ Available(e[1])
      BY DEF MemoryInv, MemoryTypeOK, OnlyAvailable
    <3>2. QED
      BY <3>1 DEF Good, ShouldPromote, Available
  <2>3. DOMAIN engines = Ids
    BY DEF MemoryInv, MemoryTypeOK
  <2>4. twice = {} => \A id \in DOMAIN engines : engines[id] # NoEngine /\ engines[id].enabled =>
          default # NoEngine /\ engines[default].priority >= engines[id].priority
    BY <2>3 DEF MemoryInv, DefaultIsBest
  <2>5. QED
    BY <2>1, <2>2, <2>4 DEF PromotionHonest, MemoryInv, Tallied
<1>2. QED
  BY <1>1, MemoryStart, MemoryKept, PTL DEF MemorySpec

-----------------------------------------------------------------------------
(* The configuration.  What is due to a later process, and was written, is  *)
(* in the file, in a form that the next start reads as it is.               *)

Proper(f, v) == Cast(f, v) = v /\ v # Junk

DueIsFiled ==
  \A f \in DOMAIN due \ lost :
    f \in Fields /\ f \in DOMAIN file /\ file[f] = due[f] /\ Proper(f, due[f])

AllSet == Fields \subseteq DOMAIN settings

ConfigInv == AllSet /\ DueIsFiled /\ SettingsKept

\* A value that the admin endpoint accepts is read back as it was accepted.
LEMMA CoercedIsProper ==
  ASSUME NEW f, NEW v, Coerced(f, v) # Junk
  PROVE  Proper(f, Coerced(f, v))
BY DEF Proper, Coerced, Cast, Junk, Flag, Number, Value, TypeOfField

LEMMA HandledIsList ==
  ASSUME NEW body \in ConfigBodies
  PROVE  \E S : Handled(body) \in Seq(S)
<1>1. body \in Seq(ToSet(body))
  BY ConfigAssumption
<1>2. CASE ~Refused422(body)
  BY <1>1, <1>2 DEF Handled
<1>3. CASE Refused422(body)
  <2>. DEFINE I == {i \in 1..Len(body) : Forbidden(body[i])}
  <2>1. I \in SUBSET Nat /\ I # {}
    BY <1>1, <1>3 DEF Refused422
  <2>2. Min(I) \in I
    <3>. HIDE DEF I
    <3>1. QED
      BY <2>1, FirstIsIn
  <2>3. SelectInSeq(body, Forbidden) = Min(I)
    BY <2>1 DEF SelectInSeq
  <2>4. Handled(body) = SubSeq(body, 1, Min(I) - 1)
    BY <1>3, <2>3 DEF Handled
  <2>5. PICK m \in 1..Len(body) : m = Min(I)
    BY <2>2
  <2>6. Within(body, 1, m - 1) /\ m - 1 \in Int
    BY <1>1 DEF Within
  <2>7. SubSeq(body, 1, m - 1) \in Seq(ToSet(body))
    BY <1>1, <2>6, Slice
  <2>8. QED
    BY <2>4, <2>5, <2>7
<1>4. QED
  BY <1>2, <1>3

\* What an update changes: tunable fields, each to a proper value.
LEMMA ChangesAreProper ==
  ASSUME NEW S, NEW entries \in Seq(S), NEW f \in DOMAIN Changes(entries)
  PROVE  f \in Fields /\ Proper(f, Changes(entries)[f])
<1>p. PICK T, n : T = Accepted(entries, f) /\ n = Len(entries)
  OBVIOUS
<1>1. f \in Tunable /\ T # {} /\ Changes(entries)[f] = Coerced(f, entries[Max(T)][2])
  BY <1>p DEF Changes
<1>2. n \in Nat /\ T \in SUBSET (1..n)
  BY <1>p DEF Accepted
<1>3. Max(T) \in T
  BY <1>1, <1>2, LastIsIn
<1>4. entries[Max(T)][1] = f /\ Accepts(entries[Max(T)])
  BY <1>p, <1>3 DEF Accepted
<1>5. Coerced(f, entries[Max(T)][2]) # Junk
  BY <1>4 DEF Accepts
<1>6. QED
  BY <1>1, <1>5, CoercedIsProper, ConfigAssumption

LEMMA ConfigStart == ConfigInit => ConfigInv
BY DEF ConfigInit, ConfigInv, AllSet, DueIsFiled, SettingsKept

LEMMA ConfigKept == ConfigInv /\ [ConfigNext]_configVars => ConfigInv'
<1>. SUFFICES ASSUME ConfigInv, [ConfigNext]_configVars PROVE ConfigInv'
  OBVIOUS
<1>t. /\ AllSet /\ DueIsFiled
      /\ serving => \A f \in DOMAIN due \ lost : settings[f] = due[f]
      /\ \A f \in DenyList \cap Fields : overlay.now[f] = overlay.base[f]
  BY DEF ConfigInv, SettingsKept
<1>1. CASE StartProcess
  <2>1. /\ settings' = Chosen /\ file' = file /\ due' = due /\ lost' = lost
        /\ overlay' = [base |-> settings', now |-> settings']
    BY <1>1 DEF StartProcess
  <2>2. ASSUME NEW f \in DOMAIN due \ lost
        PROVE  settings'[f] = due[f]
    <3>1. f \in Fields /\ f \in DOMAIN file /\ file[f] = due[f] /\ Cast(f, due[f]) = due[f] /\ due[f] # Junk
      BY <1>t DEF DueIsFiled, Proper
    <3>2. Overridden(f) = due[f]
      BY <3>1 DEF Overridden
    <3>3. QED
      BY <2>1, <3>1, <3>2 DEF Chosen
  <2>3. DueIsFiled'
    BY <1>t, <2>1 DEF DueIsFiled
  <2>4. \A f \in DenyList \cap Fields : overlay'.now[f] = overlay'.base[f]
    BY <2>1
  <2>5. AllSet'
    BY <2>1 DEF AllSet, Chosen
  <2>6. QED
    BY <2>1, <2>2, <2>3, <2>4, <2>5 DEF ConfigInv, SettingsKept
<1>2. ASSUME NEW cut \in BOOLEAN, EndProcess(cut)
      PROVE  ConfigInv'
  <2>1. /\ serving' = FALSE /\ overlay' = overlay /\ settings' = settings /\ due' = due
        /\ lost' = DOMAIN due \/ (lost' = lost /\ file' = file)
    BY <1>2 DEF EndProcess
  <2>2. DueIsFiled'
    BY <1>t, <2>1 DEF DueIsFiled
  <2>3. QED
    BY <1>t, <2>1, <2>2 DEF ConfigInv, AllSet, SettingsKept
<1>3. ASSUME NEW body \in ConfigBodies, NEW persist \in BOOLEAN,
             NEW outcome \in {"written", "refused", "cut"}, UpdateConfig(body, persist, outcome)
      PROVE  ConfigInv'
  <2>p. PICK new : new = Changes(Handled(body))
    OBVIOUS
  <2>1. serving /\ serving' = serving /\ overlay' = overlay /\ settings' = Updated(settings, new)
    BY <1>3, <2>p DEF UpdateConfig
  <2>o. \/ file' = Updated(file, new) /\ due' = Updated(due, new) /\ lost' = lost \ DOMAIN new
        \/ file' = file /\ due' = Updated(due, new) /\ lost' = lost \cup DOMAIN new
        \/ lost' = DOMAIN due'
        \/ file' = file /\ due' = [f \in DOMAIN due \ DOMAIN new |-> due[f]] /\ lost' = lost
    BY <1>3, <2>p DEF UpdateConfig, Writes
  <2>2. ASSUME NEW f \in DOMAIN new PROVE f \in Fields /\ Proper(f, new[f])
    BY <2>p, HandledIsList, ChangesAreProper
  <2>3. \A f \in DOMAIN due \ lost : /\ f \in Fields /\ f \in DOMAIN file /\ file[f] = due[f]
                                     /\ Proper(f, due[f]) /\ settings[f] = due[f]
    BY <1>t, <2>1 DEF DueIsFiled
  <2>4. ASSUME NEW f \in DOMAIN due' \ lost'
        PROVE  /\ f \in Fields /\ f \in DOMAIN file' /\ file'[f] = due'[f] /\ Proper(f, due'[f])
               /\ settings'[f] = due'[f]
    <3>1. CASE f \in DOMAIN new
      <4>1. file' = Updated(file, new) /\ due' = Updated(due, new)
        BY <2>o, <2>4, <3>1
      <4>2. f \in DOMAIN file' /\ file'[f] = new[f] /\ due'[f] = new[f]
        BY <3>1, <4>1 DEF Updated
      <4>3. settings'[f] = new[f]
        BY <2>1, <3>1 DEF Updated
      <4>4. QED
        BY <2>2, <3>1, <4>2, <4>3
    <3>2. CASE f \notin DOMAIN new
      <4>1. /\ f \in DOMAIN due \ lost /\ due'[f] = due[f]
            /\ f \in DOMAIN file => f \in DOMAIN file' /\ file'[f] = file[f]
        BY <2>o, <2>4, <3>2 DEF Updated
      <4>2. f \in DOMAIN settings => settings'[f] = settings[f]
        BY <2>1, <3>2 DEF Updated
      <4>3. f \in DOMAIN settings
        BY <1>t, <2>3, <4>1 DEF AllSet
      <4>4. QED
        BY <2>3, <4>1, <4>2, <4>3
    <3>3. QED
      BY <3>1, <3>2
  <2>5. DueIsFiled'
    BY <2>4 DEF DueIsFiled
  <2>6. AllSet'
    BY <1>t, <2>1 DEF AllSet, Updated
  <2>7. QED
    BY <1>t, <2>1, <2>4, <2>5, <2>6 DEF ConfigInv, SettingsKept
<1>4. ASSUME NEW own \in Overlays, Request(own)
      PROVE  ConfigInv'
  <2>1. /\ UNCHANGED <<settings, file, serving, due, lost>>
        /\ overlay' = [base |-> settings,
                       now |-> [f \in Fields |-> IF f \in DOMAIN own THEN Overlaid(f, own[f]) ELSE settings[f]]]
    BY <1>4 DEF Request
  <2>2. \A f \in DenyList \cap Fields : overlay'.now[f] = overlay'.base[f]
    BY <2>1 DEF Overlaid
  <2>3. DueIsFiled'
    BY <1>t, <2>1 DEF DueIsFiled
  <2>4. QED
    BY <1>t, <2>1, <2>2, <2>3 DEF ConfigInv, AllSet, SettingsKept
<1>5. CASE UNCHANGED configVars
  BY <1>t, <1>5 DEF configVars, ConfigInv, AllSet, DueIsFiled, SettingsKept
<1>6. QED
  BY <1>1, <1>2, <1>3, <1>4, <1>5 DEF ConfigNext

\* A setting that was persisted, and whose write did not fail, has its value in
\* every later process until the file is spoilt, and no session changes a denied
\* one for itself.
THEOREM PersistedSettingsStay == ConfigSpec => []SettingsKept
<1>1. ConfigInv => SettingsKept
  BY DEF ConfigInv
<1>2. QED
  BY <1>1, ConfigStart, ConfigKept, PTL DEF ConfigSpec

-----------------------------------------------------------------------------
(* The trace store.  A session's turns and passes are the ends of what its  *)
(* file holds of it; no write for one session changes what a file holds of  *)
(* another; and an id has one session for ever, in the memory and on disk,  *)
(* so that the index forgets no turn of a session that is still held.       *)

TraceLines == [kind : {"turn", "pass", "torn", "bad"}, sid : TraceSessions, id : Nat]

On(content, kind, s) == Only(content, RecordsOf(kind, s))

\* The records of these ids are the last of a list of lines.
Ends(list, kind, s, content) ==
  /\ Len(list) <= Len(content)
  /\ \A i \in 1..Len(list) : content[Len(content) - Len(list) + i] = Line(kind, s, list[i])

Intact(content) == content # <<>> => Last(content).kind # "torn"

Mirrored(s, t, p, content) ==
  /\ Intact(content)
  /\ Ends(t, "turn", s, On(content, "turn", s))
  /\ Ends(p, "pass", s, On(content, "pass", s))

Buried(s, t, p, content) ==
  /\ t = <<>> /\ p = <<>>
  /\ On(content, "turn", s) = <<>> /\ On(content, "pass", s) = <<>>

\* Session s has the turn i in memory, or a line of it on disk.
Claim(t, files, i, s) ==
  \/ i \in ToSet(t[s])
  \/ \E f \in TraceFiles : \E l \in ToSet(files[f]) : l.id = i /\ l.sid = s

Claimed(t, files, n) ==
  /\ \A i \in Nat, s \in TraceSessions : Claim(t, files, i, s) => i <= n
  /\ \A i \in Nat, r, s \in TraceSessions :
       Claim(t, files, i, r) /\ Claim(t, files, i, s) => r = s

TraceTypes ==
  /\ turns \in [TraceSessions -> Seq(Nat)]
  /\ passes \in [TraceSessions -> Seq(Nat)]
  /\ order \in Seq(TraceSessions)
  /\ lines \in [TraceFiles -> Seq(TraceLines)]
  /\ recorded \in Nat

TracesAt ==
  \A s \in TraceSessions :
    /\ FileOf[s] \notin faulty => Mirrored(s, turns[s], passes[s], lines[FileOf[s]])
    /\ s \in gone => Buried(s, turns[s], passes[s], lines[FileOf[s]]) /\ s \notin meta

OrderOK(o, t) == ToSet(o) = Held(t) /\ Distinct(o)

TraceInv ==
  /\ TraceTypes
  /\ TracesAt
  /\ Claimed(turns, lines, recorded)
  /\ indexed = IdsOf(turns)
  /\ OrderOK(order, turns)

\* The records of the other sessions are the same; a line is an old one, or the
\* new one of session s.
Spares(old, new, s) ==
  \A x \in TraceSessions, k \in {"turn", "pass"} : x # s => On(new, k, x) = On(old, k, x)
Adds(old, new, i, s) ==
  \A m \in ToSet(new) : m \in ToSet(old) \/ (m.id = i /\ m.sid = s)

\* What the write of a line makes of a file's lines.
LEMMA AppendedIs ==
  ASSUME NEW c \in Seq(TraceLines), NEW l \in TraceLines
  PROVE  /\ Appended(c, l) \in Seq(TraceLines)
         /\ Spares(c, Appended(c, l), l.sid)
         /\ Intact(c) => Appended(c, l) = Append(c, l)
         /\ Adds(c, Appended(c, l), l.id, l.sid)
<1>p. PICK new : new = Appended(c, l)
  OBVIOUS
<1>1. CASE c # <<>> /\ Last(c).kind = "torn"
  <2>1. PICK f, e : f = Front(c) /\ e = IF IsRecord(l) THEN [l EXCEPT !.kind = "bad"] ELSE l
    OBVIOUS
  <2>2. PICK b \in Seq(TraceLines), z \in TraceLines : c = Append(b, z)
    BY <1>1, SequenceEmptyOrAppend
  <2>3. f = b /\ z.kind = "torn"
    <3>1. Len(b) \in Nat /\ Len(c) = Len(b) + 1 /\ c[Len(b) + 1] = z
      BY <2>2, AppendProperties, LenProperties
    <3>2. z = Last(c)
      BY <3>1 DEF Last
    <3>3. f = SubSeq(c, 1, Len(b))
      BY <2>1, <3>1 DEF Front
    <3>4. SubSeq(c, 1, Len(b)) = b
      BY <2>2, <3>1
    <3>5. QED
      BY <1>1, <3>2, <3>3, <3>4
  <2>4. e \in TraceLines /\ e.kind \in {"torn", "bad"} /\ e.id = l.id /\ e.sid = l.sid
    BY <2>1 DEF TraceLines, IsRecord
  <2>5. new = Append(b, e)
    BY <1>p, <1>1, <2>1, <2>3 DEF Appended
  <2>6. new \in Seq(TraceLines)
    BY <2>4, <2>5, AppendProperties
  <2>7. ASSUME NEW x \in TraceSessions, NEW k \in {"turn", "pass"} PROVE On(new, k, x) = On(c, k, x)
    <3>1. PICK T : T = RecordsOf(k, x)
      OBVIOUS
    <3>2. e \notin T /\ z \notin T
      BY <2>3, <2>4, <3>1 DEF RecordsOf
    <3>3. Only(Append(b, e), T) = Only(b, T) /\ Only(Append(b, z), T) = Only(b, T)
      BY <2>4, <3>2, OnlyAppend
    <3>4. QED
      BY <2>2, <2>5, <3>1, <3>3 DEF On
  <2>8. ~Intact(c)
    BY <1>1 DEF Intact
  <2>9. Adds(c, new, l.id, l.sid)
    <3>1. ToSet(Append(b, e)) = ToSet(b) \cup {e} /\ ToSet(Append(b, z)) = ToSet(b) \cup {z}
      BY <2>4, SetOfAppend
    <3>2. QED
      BY <2>2, <2>4, <2>5, <3>1 DEF Adds
  <2>10. Spares(c, new, l.sid)
    BY <2>7 DEF Spares
  <2>11. QED
    BY <1>p, <2>6, <2>8, <2>9, <2>10
<1>2. CASE ~(c # <<>> /\ Last(c).kind = "torn")
  <2>1. new = Append(c, l) /\ new \in Seq(TraceLines)
    BY <1>p, <1>2, AppendProperties DEF Appended
  <2>2. ASSUME NEW x \in TraceSessions, NEW k \in {"turn", "pass"}, x # l.sid PROVE On(new, k, x) = On(c, k, x)
    <3>1. PICK T : T = RecordsOf(k, x)
      OBVIOUS
    <3>2. l \notin T
      BY <2>2, <3>1 DEF RecordsOf
    <3>3. Only(Append(c, l), T) = Only(c, T)
      BY <3>2, OnlyAppend
    <3>4. QED
      BY <2>1, <3>1, <3>3 DEF On
  <2>3. ToSet(new) = ToSet(c) \cup {l}
    BY <2>1, SetOfAppend
  <2>4. Adds(c, new, l.id, l.sid) /\ Spares(c, new, l.sid)
    BY <2>2, <2>3 DEF Adds, Spares
  <2>5. QED
    BY <1>p, <2>1, <2>4
<1>3. QED
  BY <1>1, <1>2

\* A write for session s leaves what the files hold of the others alone.
LEMMA Written ==
  ASSUME lines \in [TraceFiles -> Seq(TraceLines)],
         NEW s \in TraceSessions, NEW kind \in {"turn", "pass"}, NEW i \in Nat,
         Write(s, Line(kind, s, i))
  PROVE  /\ lines' \in [TraceFiles -> Seq(TraceLines)]
         /\ faulty \subseteq faulty'
         /\ \A f \in TraceFiles : /\ Spares(lines[f], lines'[f], s)
                                  /\ Adds(lines[f], lines'[f], i, s)
                                  /\ f # FileOf[s] => lines'[f] = lines[f]
         /\ FileOf[s] \notin faulty' /\ Intact(lines[FileOf[s]])
              => lines'[FileOf[s]] = Append(lines[FileOf[s]], Line(kind, s, i))
<1>p. PICK g, c, l, e : /\ g = FileOf[s] /\ c = lines[g] /\ l = Line(kind, s, i)
                        /\ e = [l EXCEPT !.kind = "torn"]
  OBVIOUS
<1>1. g \in TraceFiles /\ c \in Seq(TraceLines)
  BY <1>p DEF TraceFiles
<1>2. /\ l \in TraceLines /\ l.id = i /\ l.sid = s
      /\ e \in TraceLines /\ e.id = i /\ e.sid = s
  BY <1>p DEF Line, TraceLines
<1>3. PICK new : /\ lines' = [lines EXCEPT ![g] = new]
                 /\ \/ new = Appended(c, l) /\ faulty' = faulty
                    \/ new \in {c, Appended(c, e)} /\ faulty' = faulty \cup {g}
  BY <1>p DEF Write
<1>4. \A a \in {l, e} : /\ Appended(c, a) \in Seq(TraceLines) /\ Spares(c, Appended(c, a), s)
                        /\ Intact(c) => Appended(c, a) = Append(c, a)
                        /\ Adds(c, Appended(c, a), i, s)
  <2>1. SUFFICES ASSUME NEW a, a \in TraceLines, a.id = i, a.sid = s
                 PROVE  /\ Appended(c, a) \in Seq(TraceLines) /\ Spares(c, Appended(c, a), s)
                        /\ Intact(c) => Appended(c, a) = Append(c, a)
                        /\ Adds(c, Appended(c, a), i, s)
    BY <1>2
  <2>2. QED
    BY <1>1, <2>1, AppendedIs
<1>5. \A d : Spares(d, d, s) /\ Adds(d, d, i, s)
  BY DEF Spares, Adds
<1>6. new \in Seq(TraceLines) /\ Spares(c, new, s) /\ Adds(c, new, i, s)
  BY <1>1, <1>3, <1>4, <1>5
<1>7. \A f \in TraceFiles : lines'[f] = IF f = g THEN new ELSE lines[f]
  BY <1>3
<1>8. lines' \in [TraceFiles -> Seq(TraceLines)]
  BY <1>3, <1>6
<1>9. faulty \subseteq faulty' /\ (g \notin faulty' => new = Appended(c, l))
  BY <1>3
<1>10. g \notin faulty' /\ Intact(c) => lines'[g] = Append(c, l)
  BY <1>1, <1>4, <1>7, <1>9
<1>11. ASSUME NEW f \in TraceFiles
       PROVE  /\ Spares(lines[f], lines'[f], s) /\ Adds(lines[f], lines'[f], i, s)
              /\ f # g => lines'[f] = lines[f]
  BY <1>p, <1>5, <1>6, <1>7
<1>12. QED
  BY <1>p, <1>8, <1>9, <1>10, <1>11

LEMMA EndsEmpty ==
  ASSUME NEW kind, NEW s, NEW c \in Seq(TraceLines)
  PROVE  Ends(<<>>, kind, s, c)
<1>1. Len(c) \in Nat /\ Len(<<>>) = 0
  BY LenProperties
<1>2. QED
  BY <1>1 DEF Ends

LEMMA EndsGrows ==
  ASSUME NEW list \in Seq(Nat), NEW kind, NEW s, NEW c \in Seq(TraceLines), NEW i \in Nat,
         Line(kind, s, i) \in TraceLines, Ends(list, kind, s, c)
  PROVE  Ends(Append(list, i), kind, s, Append(c, Line(kind, s, i)))
<1>p. PICK a, b, e, m, n : /\ a = Append(list, i) /\ e = Line(kind, s, i) /\ b = Append(c, e)
                           /\ m = Len(list) /\ n = Len(c)
  OBVIOUS
<1>1. /\ m \in Nat /\ Len(a) = m + 1 /\ a[m + 1] = i /\ \A j \in 1..m : a[j] = list[j]
  BY <1>p, AppendProperties, LenProperties
<1>2. /\ n \in Nat /\ Len(b) = n + 1 /\ b[n + 1] = e /\ \A j \in 1..n : b[j] = c[j]
  BY <1>p, AppendProperties, LenProperties
<1>3. m <= n /\ \A j \in 1..m : c[n - m + j] = Line(kind, s, list[j])
  BY <1>p DEF Ends
<1>4. ASSUME NEW j \in 1..(m + 1) PROVE b[(n + 1) - (m + 1) + j] = Line(kind, s, a[j])
  <2>1. CASE j = m + 1
    <3>1. (n + 1) - (m + 1) + j = n + 1
      BY <1>1, <1>2, <2>1
    <3>2. QED
      BY <1>p, <1>1, <1>2, <2>1, <3>1
  <2>2. CASE j # m + 1
    <3>1. j \in 1..m /\ (n + 1) - (m + 1) + j = n - m + j /\ n - m + j \in 1..n
      BY <1>1, <1>2, <1>3, <2>2
    <3>2. QED
      BY <1>1, <1>2, <1>3, <3>1
  <2>3. QED
    BY <2>1, <2>2
<1>5. Len(a) <= Len(b)
  BY <1>1, <1>2, <1>3
<1>6. \A j \in 1..Len(a) : b[Len(b) - Len(a) + j] = Line(kind, s, a[j])
  BY <1>1, <1>2, <1>4
<1>7. QED
  BY <1>p, <1>5, <1>6 DEF Ends

LEMMA RoomIs ==
  ASSUME NEW list \in Seq(Nat), NEW n \in Nat \ {0}
  PROVE  /\ Room(list, n) \in Seq(Nat) /\ ToSet(Room(list, n)) \subseteq ToSet(list)
         /\ \A kind, s : \A c \in Seq(TraceLines) :
              Ends(list, kind, s, c) => Ends(Room(list, n), kind, s, c)
<1>p. PICK m, r, k : m = Len(list) /\ r = Room(list, n) /\ k = m - n + 1
  OBVIOUS
<1>0. m \in Nat /\ \A j \in 1..m : list[j] \in Nat
  BY <1>p, LenProperties, ElementOfSeq
<1>1. CASE m < n
  BY <1>p, <1>1 DEF Room
<1>2. CASE ~(m < n)
  <2>1. k \in 1..m /\ r = SubSeq(list, k + 1, m)
    <3>1. k \in 1..m /\ m - n + 2 = k + 1
      BY <1>p, <1>0, <1>2
    <3>2. r = SubSeq(list, m - n + 2, m)
      BY <1>p, <1>2 DEF Room
    <3>3. QED
      BY <3>1, <3>2
  <2>2. /\ r \in Seq(Nat) /\ Len(r) = m - k /\ \A j \in 1..(m - k) : r[j] = list[k + j]
    <3>1. PICK l : l = m - k
      OBVIOUS
    <3>2. l \in Nat /\ \A j \in 1..l : k + j \in 1..m
      BY <1>0, <2>1, <3>1
    <3>3. r = [j \in 1..l |-> list[k + j]]
      <4>1. r = [j \in 1..(1 + m - (k + 1)) |-> list[j + (k + 1) - 1]]
        BY <1>0, <2>1
      <4>2. 1 + m - (k + 1) = l /\ \A j \in 1..l : j + (k + 1) - 1 = k + j
        BY <1>0, <2>1, <3>1
      <4>3. QED
        BY <4>1, <4>2
    <3>4. r \in [1..l -> Nat]
      BY <1>0, <3>2, <3>3
    <3>5. r \in Seq(Nat) /\ Len(r) = l
      BY <3>2, <3>4, ListOf
    <3>6. QED
      BY <3>1, <3>3, <3>5
  <2>3. ToSet(r) \subseteq ToSet(list)
    <3>1. ToSet(r) = {r[j] : j \in 1..(m - k)} /\ ToSet(list) = {list[j] : j \in 1..m}
      <4>1. ToSet(r) = {r[j] : j \in 1..Len(r)} /\ ToSet(list) = {list[j] : j \in 1..Len(list)}
        BY <2>2, SetOf
      <4>2. QED
        BY <1>p, <2>2, <4>1
    <3>2. \A j \in 1..(m - k) : k + j \in 1..m
      BY <1>0, <2>1
    <3>3. QED
      BY <2>2, <3>1, <3>2
  <2>4. ASSUME NEW kind, NEW s, NEW c \in Seq(TraceLines), Ends(list, kind, s, c)
        PROVE  Ends(r, kind, s, c)
    <3>p. PICK w : w = Len(c)
      OBVIOUS
    <3>1. w \in Nat /\ m <= w /\ \A j \in 1..m : c[w - m + j] = Line(kind, s, list[j])
      BY <1>p, <2>4, <3>p, LenProperties DEF Ends
    <3>2. ASSUME NEW j \in 1..(m - k) PROVE c[w - (m - k) + j] = Line(kind, s, r[j])
      <4>1. k + j \in 1..m /\ w - m + (k + j) = w - (m - k) + j
        BY <1>0, <2>1, <3>1
      <4>2. c[w - m + (k + j)] = Line(kind, s, list[k + j])
        BY <3>1, <4>1
      <4>3. QED
        BY <2>2, <4>1, <4>2
    <3>3. m - k <= w
      BY <1>0, <2>1, <3>1
    <3>4. QED
      BY <2>2, <3>2, <3>3, <3>p DEF Ends
  <2>5. QED
    BY <1>p, <2>2, <2>3, <2>4
<1>3. QED
  BY <1>1, <1>2

\* The record of the newest id of a session.
LEMMA EndsRecorded ==
  ASSUME NEW list \in Seq(Nat), NEW n \in Nat \ {0}, NEW kind \in {"turn", "pass"},
         NEW s \in TraceSessions, NEW c \in Seq(TraceLines), NEW i \in Nat,
         Ends(list, kind, s, On(c, kind, s))
  PROVE  Ends(Append(Room(list, n), i), kind, s, On(Append(c, Line(kind, s, i)), kind, s))
<1>p. PICK r, e, o : r = Room(list, n) /\ e = Line(kind, s, i) /\ o = On(c, kind, s)
  OBVIOUS
<1>1. e \in TraceLines /\ e \in RecordsOf(kind, s)
  BY <1>p DEF Line, TraceLines, RecordsOf
<1>2. o \in Seq(TraceLines)
  <2>1. o \in Seq(TraceLines \cap RecordsOf(kind, s))
    BY <1>p, OnlyType DEF On
  <2>2. QED
    BY <2>1, SeqWider
<1>3. r \in Seq(Nat) /\ Ends(r, kind, s, o)
  BY <1>p, <1>2, RoomIs
<1>4. Ends(Append(r, i), kind, s, Append(o, e))
  BY <1>p, <1>1, <1>2, <1>3, EndsGrows
<1>5. On(Append(c, e), kind, s) = Append(o, e)
  BY <1>p, <1>1, OnlyAppend DEF On
<1>6. QED
  BY <1>p, <1>4, <1>5

\* A record of the other kind.
LEMMA OnOther ==
  ASSUME NEW kind \in {"turn", "pass"}, NEW other \in {"turn", "pass"}, kind # other,
         NEW s \in TraceSessions, NEW c \in Seq(TraceLines), NEW i \in Nat
  PROVE  On(Append(c, Line(kind, s, i)), other, s) = On(c, other, s)
<1>p. PICK e, T : e = Line(kind, s, i) /\ T = RecordsOf(other, s)
  OBVIOUS
<1>1. e \in TraceLines /\ e \notin T
  BY <1>p DEF Line, TraceLines, RecordsOf
<1>2. Only(Append(c, e), T) = Only(c, T)
  BY <1>1, OnlyAppend
<1>3. QED
  BY <1>p, <1>2 DEF On

LEMMA OnType ==
  ASSUME NEW kind, NEW s, NEW c \in Seq(TraceLines)
  PROVE  On(c, kind, s) \in Seq(TraceLines) /\ On(<<>>, kind, s) = <<>>
<1>1. On(c, kind, s) \in Seq(TraceLines \cap RecordsOf(kind, s))
  BY OnlyType DEF On
<1>2. On(c, kind, s) \in Seq(TraceLines)
  BY <1>1, SeqWider
<1>3. QED
  BY <1>2, OnlyEmpty DEF On

\* Who is evicted: sessions that hold turns, never the one that is recorded,
\* for there are as many others as the excess.
LEMMA EvictedIs ==
  ASSUME order \in Seq(TraceSessions), OrderOK(order, turns), NEW s \in TraceSessions
  PROVE  Evicted(s) \subseteq TraceSessions \ {s}
<1>p. PICK o, h, n, m : /\ o = Only(order, TraceSessions \ {s}) /\ h = Held(turns)
                        /\ n = Len(o) /\ m = Cardinality(h \cup {s}) - MaxSessions
  OBVIOUS
<1>1. /\ o \in Seq(TraceSessions \ {s}) /\ ToSet(o) = h \ {s} /\ Distinct(o)
  <2>1. o \in Seq(TraceSessions \cap (TraceSessions \ {s}))
    BY <1>p, OnlyType
  <2>2. ToSet(o) = ToSet(order) \cap (TraceSessions \ {s})
    BY <1>p, OnlySet
  <2>3. h \subseteq TraceSessions /\ ToSet(order) = h
    BY <1>p DEF OrderOK, Held
  <2>4. Distinct(o)
    BY <1>p, OnlyDistinct DEF OrderOK
  <2>5. TraceSessions \cap (TraceSessions \ {s}) = TraceSessions \ {s}
    OBVIOUS
  <2>6. QED
    BY <2>1, <2>2, <2>3, <2>4, <2>5
<1>2. IsFiniteSet(h \ {s}) /\ Cardinality(h \ {s}) = n /\ n \in Nat
  BY <1>p, <1>1, DistinctLen, LenProperties
<1>3. Cardinality(h \cup {s}) = n + 1
  <2>1. h \cup {s} = (h \ {s}) \cup {s}
    OBVIOUS
  <2>2. Cardinality((h \ {s}) \cup {s}) = Cardinality(h \ {s}) + 1
    BY <1>2, FS_AddElement
  <2>3. QED
    BY <1>2, <2>1, <2>2
<1>4. m \in Int /\ m <= n
  <2>1. MaxSessions \in Nat /\ MaxSessions # 0
    BY TraceBounds
  <2>2. QED
    BY <1>p, <1>2, <1>3, <2>1
<1>5. Evicted(s) = ToSet(SubSeq(o, 1, m))
  BY <1>p DEF Evicted
<1>6. ASSUME NEW x \in ToSet(SubSeq(o, 1, m)) PROVE x \in TraceSessions \ {s}
  <2>1. SubSeq(o, 1, m) = [i \in 1..m |-> o[i]]
    <3>1. SubSeq(o, 1, m) = [i \in 1..(1 + m - 1) |-> o[i + 1 - 1]]
      BY <1>4
    <3>2. 1 + m - 1 = m /\ \A i \in 1..m : i + 1 - 1 = i
      BY <1>4
    <3>3. QED
      BY <3>1, <3>2
  <2>2. PICK i \in 1..m : x = o[i]
    BY <1>6, <2>1 DEF ToSet
  <2>3. i \in 1..n
    BY <1>2, <1>4
  <2>4. QED
    BY <1>p, <1>1, <2>2, <2>3, ElementOfSeq
<1>7. QED
  BY <1>5, <1>6

LEMMA EndsSuffix ==
  ASSUME NEW list \in Seq(Nat), NEW kind \in {"turn", "pass"}, NEW s \in TraceSessions,
         NEW c \in Seq(TraceLines)
  PROVE  IsSuffix([i \in DOMAIN list |-> Line(kind, s, list[i])], c) <=> Ends(list, kind, s, c)
<1>p. PICK m, a : m = Len(list) /\ a = [i \in DOMAIN list |-> Line(kind, s, list[i])]
  OBVIOUS
<1>1. m \in Nat /\ DOMAIN list = 1..m /\ \A i \in 1..m : list[i] \in Nat
  BY <1>p, LenProperties, ElementOfSeq
<1>2. a = [i \in 1..m |-> Line(kind, s, list[i])]
  BY <1>p, <1>1
<1>3. \A i \in 1..m : a[i] = Line(kind, s, list[i]) /\ a[i] \in TraceLines
  BY <1>1, <1>2 DEF Line, TraceLines
<1>4. a \in [1..m -> TraceLines]
  BY <1>2, <1>3
<1>5. a \in Seq(TraceLines) /\ Len(a) = m
  BY <1>1, <1>4, ListOf
<1>6. IsSuffix(a, c) <=> /\ m <= Len(c)
                         /\ \A i \in 1..m : a[i] = c[Len(c) - m + i]
  BY <1>5, SuffixIs
<1>7. QED
  BY <1>p, <1>3, <1>6 DEF Ends

\* What is loaded of a session are the ids of its records.
LEMMA LoadedIs ==
  ASSUME NEW kept \in [TraceFiles -> Seq(TraceLines)], NEW kind \in {"turn", "pass"},
         NEW s \in TraceSessions
  PROVE  LET c == kept[FileOf[s]]
             list == Loaded(kept, kind, s)
         IN  /\ list \in Seq(Nat) /\ Ends(list, kind, s, On(c, kind, s))
             /\ On(c, kind, s) = <<>> => list = <<>>
             /\ \A i \in ToSet(list) : \E l \in ToSet(c) : l.id = i /\ l.sid = s
<1>p. PICK c, o, n, list : /\ c = kept[FileOf[s]] /\ o = On(c, kind, s) /\ n = Len(o)
                           /\ list = Loaded(kept, kind, s)
  OBVIOUS
<1>1. c \in Seq(TraceLines)
  BY <1>p DEF TraceFiles
<1>2. o \in Seq(TraceLines \cap RecordsOf(kind, s)) /\ ToSet(o) \subseteq ToSet(c)
  <2>1. ToSet(o) = ToSet(c) \cap RecordsOf(kind, s)
    BY <1>p, <1>1, OnlySet DEF On
  <2>2. QED
    BY <1>p, <1>1, <2>1, OnlyType DEF On
<1>3. /\ n \in Nat /\ DOMAIN o = 1..n /\ ToSet(o) = {o[i] : i \in 1..n}
      /\ \A i \in 1..n : o[i] \in TraceLines \cap RecordsOf(kind, s)
  <2>1. PICK S : S = TraceLines \cap RecordsOf(kind, s)
    OBVIOUS
  <2>2. o \in Seq(S)
    BY <1>2, <2>1
  <2>3. n \in Nat /\ DOMAIN o = 1..n /\ \A i \in 1..n : o[i] \in S
    BY <1>p, <2>2, LenProperties, ElementOfSeq
  <2>4. ToSet(o) = {o[i] : i \in 1..n}
    BY <1>p, <2>2, SetOf
  <2>5. QED
    BY <2>1, <2>3, <2>4
<1>4. \A i \in 1..n : o[i].id \in Nat /\ o[i].sid = s /\ o[i] = Line(kind, s, o[i].id)
  BY <1>3 DEF RecordsOf, Line
<1>5. list = [i \in 1..n |-> o[i].id]
  BY <1>p, <1>3 DEF Loaded, On
<1>6. list \in Seq(Nat) /\ Len(list) = n
  <2>1. list \in [1..n -> Nat]
    BY <1>4, <1>5
  <2>2. QED
    BY <1>3, <2>1, ListOf
<1>7. Ends(list, kind, s, o)
  <2>1. \A i \in 1..n : n - n + i = i
    BY <1>3
  <2>2. \A i \in 1..n : o[n - n + i] = Line(kind, s, list[i])
    BY <1>4, <1>5, <2>1
  <2>3. QED
    BY <1>p, <1>3, <1>6, <2>2 DEF Ends
<1>8. ASSUME o = <<>> PROVE list = <<>>
  <2>1. n = 0
    BY <1>p, <1>8
  <2>2. QED
    BY <1>6, <2>1, EmptySeq
<1>9. ASSUME NEW i \in ToSet(list) PROVE \E l \in ToSet(c) : l.id = i /\ l.sid = s
  <2>1. PICK j \in 1..n : i = list[j]
    <3>1. ToSet(list) = {list[j] : j \in 1..n}
      BY <1>6, SetOf
    <3>2. QED
      BY <1>9, <3>1
  <2>2. o[j] \in ToSet(c) /\ o[j].id = i /\ o[j].sid = s
    BY <1>2, <1>3, <1>4, <1>5, <2>1
  <2>3. QED
    BY <2>2
<1>10. QED
  BY <1>p, <1>6, <1>7, <1>8, <1>9

\* A new id for session s, or none.
LEMMA ClaimsNew ==
  ASSUME NEW t, NEW files, NEW n \in Nat, Claimed(t, files, n), NEW s \in TraceSessions,
         NEW t2, NEW files2,
         \A i \in Nat, x \in TraceSessions :
           Claim(t2, files2, i, x) => Claim(t, files, i, x) \/ (i = n + 1 /\ x = s)
  PROVE  Claimed(t2, files2, n + 1)
<1>1. /\ \A i \in Nat, x \in TraceSessions : Claim(t, files, i, x) => i <= n
      /\ \A i \in Nat, x, y \in TraceSessions : Claim(t, files, i, x) /\ Claim(t, files, i, y) => x = y
  BY DEF Claimed
<1>2. ASSUME NEW i \in Nat, NEW x \in TraceSessions, Claim(t2, files2, i, x) PROVE i <= n + 1
  <2>1. i <= n \/ i = n + 1
    BY <1>1, <1>2
  <2>2. QED
    BY <2>1
<1>3. ASSUME NEW i \in Nat, NEW x \in TraceSessions, NEW y \in TraceSessions,
             Claim(t2, files2, i, x), Claim(t2, files2, i, y)
      PROVE  x = y
  <2>1. CASE i = n + 1
    <3>1. ~(i <= n)
      BY <2>1
    <3>2. QED
      BY <1>1, <1>3, <3>1
  <2>2. CASE i # n + 1
    BY <1>1, <1>3, <2>2
  <2>3. QED
    BY <2>1, <2>2
<1>4. QED
  BY <1>2, <1>3 DEF Claimed

LEMMA ClaimsFewer ==
  ASSUME NEW t, NEW files, NEW n \in Nat, Claimed(t, files, n), NEW t2, NEW files2,
         \A i \in Nat, x \in TraceSessions : Claim(t2, files2, i, x) => Claim(t, files, i, x)
  PROVE  Claimed(t2, files2, n)
BY DEF Claimed

\* After the write of a record: no file is torn that is not faulty, and the
\* records of the other sessions are as they were.
WrittenTo(s, kind, i) ==
  /\ lines' \in [TraceFiles -> Seq(TraceLines)]
  /\ \A x \in TraceSessions :
       /\ FileOf[x] \notin faulty' => FileOf[x] \notin faulty /\ Intact(lines'[FileOf[x]])
       /\ x # s => \A k \in {"turn", "pass"} :
                     On(lines'[FileOf[x]], k, x) = On(lines[FileOf[x]], k, x)
  /\ FileOf[s] \notin faulty'
       => lines'[FileOf[s]] = Append(lines[FileOf[s]], Line(kind, s, i))
  /\ \A j \in Nat, x \in TraceSessions : \A f \in TraceFiles :
       (\E l \in ToSet(lines'[f]) : l.id = j /\ l.sid = x)
         => (\E l \in ToSet(lines[f]) : l.id = j /\ l.sid = x) \/ (j = i /\ x = s)

LEMMA WrittenAt ==
  ASSUME TraceInv, NEW s \in TraceSessions, NEW kind \in {"turn", "pass"}, NEW i \in Nat,
         Write(s, Line(kind, s, i))
  PROVE  WrittenTo(s, kind, i)
<1>p. PICK g, c, l : g = FileOf[s] /\ c = lines[g] /\ l = Line(kind, s, i)
  OBVIOUS
<1>t. lines \in [TraceFiles -> Seq(TraceLines)] /\ \A x \in TraceSessions : FileOf[x] \in TraceFiles
  BY DEF TraceInv, TraceTypes, TraceFiles
<1>1. /\ lines' \in [TraceFiles -> Seq(TraceLines)] /\ faulty \subseteq faulty'
      /\ \A f \in TraceFiles : /\ Spares(lines[f], lines'[f], s)
                               /\ Adds(lines[f], lines'[f], i, s)
                               /\ f # g => lines'[f] = lines[f]
      /\ g \notin faulty' /\ Intact(c) => lines'[g] = Append(c, l)
  BY <1>t, <1>p, Written
<1>2. \A x \in TraceSessions : FileOf[x] \notin faulty => Intact(lines[FileOf[x]])
  BY DEF TraceInv, TracesAt, Mirrored
<1>3. ASSUME g \notin faulty' PROVE lines'[g] = Append(c, l) /\ Intact(lines'[g])
  <2>1. lines'[g] = Append(c, l)
    BY <1>p, <1>1, <1>2, <1>3
  <2>2. c \in Seq(TraceLines) /\ l \in TraceLines /\ l.kind # "torn"
    BY <1>p, <1>t DEF Line, TraceLines
  <2>3. Last(Append(c, l)) = l
    BY <2>2, AppendProperties DEF Last
  <2>4. QED
    BY <2>1, <2>2, <2>3 DEF Intact
<1>4. ASSUME NEW x \in TraceSessions, FileOf[x] \notin faulty'
      PROVE  FileOf[x] \notin faulty /\ Intact(lines'[FileOf[x]])
  <2>1. CASE FileOf[x] = g
    BY <1>1, <1>3, <1>4, <2>1
  <2>2. CASE FileOf[x] # g
    <3>1. lines'[FileOf[x]] = lines[FileOf[x]]
      BY <1>1, <1>t, <2>2, Zenon
    <3>3. FileOf[x] \notin faulty
      BY <1>1, <1>4
    <3>2. QED
      BY <1>2, <3>1, <3>3
  <2>3. QED
    BY <2>1, <2>2
<1>5. ASSUME NEW x \in TraceSessions, x # s, NEW k \in {"turn", "pass"}
      PROVE  On(lines'[FileOf[x]], k, x) = On(lines[FileOf[x]], k, x)
  <2>1. Spares(lines[FileOf[x]], lines'[FileOf[x]], s)
    BY <1>1, <1>t
  <2>2. QED
    BY <1>5, <2>1 DEF Spares
<1>6. ASSUME NEW j \in Nat, NEW x \in TraceSessions, NEW f \in TraceFiles,
             NEW m \in ToSet(lines'[f]), m.id = j, m.sid = x
      PROVE  (\E n \in ToSet(lines[f]) : n.id = j /\ n.sid = x) \/ (j = i /\ x = s)
  <2>1. Adds(lines[f], lines'[f], i, s)
    BY <1>1
  <2>2. m \in ToSet(lines[f]) \/ (m.id = i /\ m.sid = s)
    BY <2>1 DEF Adds
  <2>3. QED
    BY <1>6, <2>2
<1>7. QED
  BY <1>1, <1>3, <1>4, <1>5, <1>6, <1>p DEF WrittenTo

LEMMA RecordKept ==
  ASSUME TraceInv, NEW s \in TraceSessions, Record(s)
  PROVE  TraceInv'
<1>p. PICK n, i, out, c, g : /\ n = recorded /\ i = n + 1 /\ out = Evicted(s)
                             /\ g = FileOf[s] /\ c = lines[g]
  OBVIOUS
<1>i. n \in Nat /\ i \in Nat
  BY <1>p DEF TraceInv, TraceTypes
<1>o. out \subseteq TraceSessions \ {s}
  BY <1>p, EvictedIs DEF TraceInv, TraceTypes
<1>m. {MaxTurns, MaxPasses} \subseteq Nat \ {0}
  BY TraceBounds
<1>t. PICK t, q : /\ t = [x \in TraceSessions |-> IF x \in out THEN <<>>
                            ELSE IF x = s THEN Append(Room(turns[s], MaxTurns), i) ELSE turns[x]]
                  /\ q = [x \in TraceSessions |-> IF x \in out THEN <<>> ELSE passes[x]]
  OBVIOUS
<1>1. /\ turns' = t /\ passes' = q /\ recorded' = i /\ gone' = gone \ {s} /\ meta' = meta \ out
      /\ order' = Append(Only(order, TraceSessions \ (out \cup {s})), s)
      /\ indexed' = (indexed \cap IdsOf(t)) \cup {i}
      /\ Write(s, Line("turn", s, i))
  BY <1>p, <1>t DEF Record, Indexed
<1>2. /\ lines' \in [TraceFiles -> Seq(TraceLines)]
      /\ \A x \in TraceSessions :
           /\ FileOf[x] \notin faulty' => FileOf[x] \notin faulty /\ Intact(lines'[FileOf[x]])
           /\ x # s => \A k \in {"turn", "pass"} :
                         On(lines'[FileOf[x]], k, x) = On(lines[FileOf[x]], k, x)
      /\ g \notin faulty' => lines'[g] = Append(c, Line("turn", s, i))
      /\ \A j \in Nat, x \in TraceSessions : \A f \in TraceFiles :
           (\E l \in ToSet(lines'[f]) : l.id = j /\ l.sid = x)
             => (\E l \in ToSet(lines[f]) : l.id = j /\ l.sid = x) \/ (j = i /\ x = s)
  <2>1. \A k \in {"turn", "pass"} : Write(s, Line(k, s, i)) => WrittenTo(s, k, i)
    BY <1>i, WrittenAt
  <2>2. WrittenTo(s, "turn", i)
    BY <1>1, <2>1
  <2>3. QED
    BY <1>p, <2>2 DEF WrittenTo
<1>3. \A x \in TraceSessions : turns[x] \in Seq(Nat) /\ passes[x] \in Seq(Nat)
  BY DEF TraceInv, TraceTypes
<1>4. PICK r : /\ r = Room(turns[s], MaxTurns) /\ r \in Seq(Nat) /\ ToSet(r) \subseteq ToSet(turns[s])
  BY <1>3, <1>m, RoomIs
<1>5. /\ t[s] = Append(r, i) /\ Append(r, i) \in Seq(Nat)
      /\ ToSet(t[s]) = ToSet(r) \cup {i} /\ t[s] # <<>>
  <2>1. t[s] = Append(r, i)
    BY <1>o, <1>t, <1>4
  <2>2. Append(r, i) \in Seq(Nat) /\ Append(r, i) # <<>> /\ ToSet(Append(r, i)) = ToSet(r) \cup {i}
    BY <1>i, <1>4, SetOfAppend, AppendProperties
  <2>3. QED
    BY <2>1, <2>2
<1>6. \A x \in TraceSessions : x # s => t[x] = IF x \in out THEN <<>> ELSE turns[x]
  BY <1>t
<1>7. TraceTypes'
  <2>1. ASSUME NEW x \in TraceSessions PROVE t[x] \in Seq(Nat) /\ q[x] \in Seq(Nat)
    <3>1. <<>> \in Seq(Nat)
      BY EmptySeq
    <3>2. t[x] \in {<<>>, Append(r, i), turns[x]} /\ q[x] \in {<<>>, passes[x]}
      BY <1>5, <1>6, <1>t
    <3>3. QED
      BY <1>3, <1>5, <3>1, <3>2
  <2>2. t \in [TraceSessions -> Seq(Nat)] /\ q \in [TraceSessions -> Seq(Nat)]
    BY <1>t, <2>1
  <2>3. order' \in Seq(TraceSessions)
    <3>1. Only(order, TraceSessions \ (out \cup {s})) \in Seq(TraceSessions \cap (TraceSessions \ (out \cup {s})))
      BY OnlyType DEF TraceInv, TraceTypes
    <3>2. Only(order, TraceSessions \ (out \cup {s})) \in Seq(TraceSessions)
      BY <3>1, SeqWider
    <3>3. QED
      BY <1>1, <3>2, AppendProperties
  <2>4. QED
    BY <1>1, <1>2, <1>i, <2>2, <2>3 DEF TraceTypes
<1>8. ASSUME NEW x \in TraceSessions, FileOf[x] \notin faulty'
      PROVE  Mirrored(x, t[x], q[x], lines'[FileOf[x]])
  <2>1. /\ lines'[FileOf[x]] \in Seq(TraceLines) /\ lines[FileOf[x]] \in Seq(TraceLines)
        /\ Intact(lines'[FileOf[x]])
        /\ Mirrored(x, turns[x], passes[x], lines[FileOf[x]])
    <3>1. FileOf[x] \in TraceFiles
      BY DEF TraceFiles
    <3>2. FileOf[x] \notin faulty /\ Intact(lines'[FileOf[x]])
      BY <1>2, <1>8
    <3>3. lines'[FileOf[x]] \in Seq(TraceLines) /\ lines[FileOf[x]] \in Seq(TraceLines)
      BY <1>2, <3>1 DEF TraceInv, TraceTypes
    <3>4. Mirrored(x, turns[x], passes[x], lines[FileOf[x]])
      BY <3>2 DEF TraceInv, TracesAt
    <3>5. QED
      BY <3>2, <3>3, <3>4
  <2>2. CASE x \in out
    <3>1. t[x] = <<>> /\ q[x] = <<>>
      BY <1>t, <2>2
    <3>2. \A k \in {"turn", "pass"} : Ends(<<>>, k, x, On(lines'[FileOf[x]], k, x))
      BY <2>1, OnType, EndsEmpty
    <3>3. QED
      BY <2>1, <3>1, <3>2 DEF Mirrored
  <2>3. CASE x = s
    <3>1. lines'[g] = Append(c, Line("turn", s, i)) /\ q[s] = passes[s] /\ c \in Seq(TraceLines)
      BY <1>2, <1>8, <1>o, <1>p, <1>t, <2>1, <2>3
    <3>2. Ends(turns[s], "turn", s, On(c, "turn", s)) /\ Ends(passes[s], "pass", s, On(c, "pass", s))
      BY <1>p, <2>1, <2>3 DEF Mirrored
    <3>3. Ends(Append(r, i), "turn", s, On(Append(c, Line("turn", s, i)), "turn", s))
      BY <1>3, <1>4, <1>i, <1>m, <3>1, <3>2, EndsRecorded
    <3>4. On(Append(c, Line("turn", s, i)), "pass", s) = On(c, "pass", s)
      BY <1>i, <3>1, OnOther
    <3>5. QED
      BY <1>5, <1>p, <2>1, <2>3, <3>1, <3>2, <3>3, <3>4 DEF Mirrored
  <2>4. CASE x # s /\ x \notin out
    <3>1. t[x] = turns[x] /\ q[x] = passes[x]
      BY <1>t, <2>4
    <3>2. \A k \in {"turn", "pass"} : On(lines'[FileOf[x]], k, x) = On(lines[FileOf[x]], k, x)
      BY <1>2, <2>4
    <3>3. QED
      BY <2>1, <3>1, <3>2 DEF Mirrored
  <2>5. QED
    BY <2>2, <2>3, <2>4
<1>9. ASSUME NEW x \in TraceSessions, x \in gone'
      PROVE  Buried(x, t[x], q[x], lines'[FileOf[x]]) /\ x \notin meta'
  <2>1. x # s /\ x \in gone
    BY <1>1, <1>9
  <2>2. Buried(x, turns[x], passes[x], lines[FileOf[x]]) /\ x \notin meta
    BY <2>1 DEF TraceInv, TracesAt
  <2>3. t[x] = <<>> /\ q[x] = <<>>
    BY <1>t, <2>1, <2>2 DEF Buried
  <2>4. \A k \in {"turn", "pass"} : On(lines'[FileOf[x]], k, x) = On(lines[FileOf[x]], k, x)
    BY <1>2, <2>1
  <2>5. QED
    BY <1>1, <2>2, <2>3, <2>4 DEF Buried
<1>10. TracesAt'
  BY <1>1, <1>8, <1>9 DEF TracesAt
<1>11. ASSUME NEW x \in TraceSessions, NEW j \in ToSet(t[x])
       PROVE  j \in ToSet(turns[x]) \/ (j = i /\ x = s)
  <2>1. CASE x = s
    BY <1>4, <1>5, <1>11, <2>1
  <2>2. CASE x # s /\ x \in out
    <3>1. t[x] = <<>>
      BY <1>6, <2>2
    <3>2. ToSet(<<>>) = {}
      BY DEF ToSet
    <3>3. QED
      BY <1>11, <3>1, <3>2
  <2>3. CASE x # s /\ x \notin out
    BY <1>6, <1>11, <2>3
  <2>4. QED
    BY <2>1, <2>2, <2>3
<1>12. Claimed(turns', lines', recorded')
  <2>1. ASSUME NEW j \in Nat, NEW x \in TraceSessions, Claim(t, lines', j, x)
        PROVE  Claim(turns, lines, j, x) \/ (j = n + 1 /\ x = s)
    <3>1. CASE j \in ToSet(t[x])
      BY <1>11, <1>p, <3>1 DEF Claim
    <3>2. CASE \E f \in TraceFiles : \E l \in ToSet(lines'[f]) : l.id = j /\ l.sid = x
      BY <1>2, <1>p, <3>2 DEF Claim
    <3>3. QED
      BY <2>1, <3>1, <3>2 DEF Claim
  <2>2. PICK t2, f2 : t2 = t /\ f2 = lines'
    OBVIOUS
  <2>3. Claimed(turns, lines, n)
    BY <1>p DEF TraceInv
  <2>4. Claimed(t2, f2, n + 1)
    BY <1>i, <2>1, <2>2, <2>3, ClaimsNew
  <2>5. QED
    BY <1>1, <1>p, <2>2, <2>4
<1>13. indexed' = IdsOf(t)
  <2>1. i \in IdsOf(t)
    BY <1>5 DEF IdsOf
  <2>2. ASSUME NEW j \in IdsOf(t) PROVE j \in IdsOf(turns) \/ j = i
    BY <1>11, <2>2 DEF IdsOf
  <2>3. indexed = IdsOf(turns)
    BY DEF TraceInv
  <2>4. QED
    BY <1>1, <2>1, <2>2, <2>3
<1>14. OrderOK(order', t)
  <2>1. PICK o, T : T = TraceSessions \ (out \cup {s}) /\ o = Only(order, T)
    OBVIOUS
  <2>2. order \in Seq(TraceSessions) /\ ToSet(order) = Held(turns) /\ Distinct(order)
    BY DEF TraceInv, TraceTypes, OrderOK
  <2>3. o \in Seq(TraceSessions) /\ ToSet(o) = Held(turns) \cap T /\ Distinct(o)
    <3>1. o \in Seq(TraceSessions \cap T)
      BY <2>1, <2>2, OnlyType
    <3>2. o \in Seq(TraceSessions)
      BY <3>1, SeqWider
    <3>3. QED
      BY <2>1, <2>2, <3>2, OnlySet, OnlyDistinct
  <2>4. Held(t) = (Held(turns) \cap T) \cup {s}
    BY <1>5, <1>6, <1>o, <2>1 DEF Held
  <2>5. ToSet(Append(o, s)) = ToSet(o) \cup {s}
    BY <2>3, SetOfAppend
  <2>6. Distinct(Append(o, s))
    <3>1. s \notin ToSet(o)
      BY <2>1, <2>3
    <3>2. QED
      BY <2>3, <3>1, DistinctAppend
  <2>7. QED
    BY <1>1, <2>1, <2>3, <2>4, <2>5, <2>6 DEF OrderOK
<1>15. QED
  BY <1>1, <1>7, <1>10, <1>12, <1>13, <1>14 DEF TraceInv

LEMMA PassKept ==
  ASSUME TraceInv, NEW s \in TraceSessions, RecordBgPass(s)
  PROVE  TraceInv'
<1>p. PICK n, i, c, g : n = recorded /\ i = n + 1 /\ g = FileOf[s] /\ c = lines[g]
  OBVIOUS
<1>i. n \in Nat /\ i \in Nat
  BY <1>p DEF TraceInv, TraceTypes
<1>3. \A x \in TraceSessions : turns[x] \in Seq(Nat) /\ passes[x] \in Seq(Nat)
  BY DEF TraceInv, TraceTypes
<1>m. MaxPasses \in Nat \ {0}
  BY TraceBounds
<1>4. PICK r : r = Room(passes[s], MaxPasses) /\ r \in Seq(Nat)
  BY <1>3, <1>m, RoomIs
<1>t. PICK q : q = [passes EXCEPT ![s] = Append(r, i)]
  OBVIOUS
<1>1. /\ turns' = turns /\ passes' = q /\ recorded' = i /\ gone' = gone \ {s} /\ meta' = meta
      /\ order' = order /\ indexed' = indexed
      /\ Write(s, Line("pass", s, i))
  BY <1>4, <1>p, <1>t DEF RecordBgPass
<1>2. /\ lines' \in [TraceFiles -> Seq(TraceLines)]
      /\ \A x \in TraceSessions :
           /\ FileOf[x] \notin faulty' => FileOf[x] \notin faulty /\ Intact(lines'[FileOf[x]])
           /\ x # s => \A k \in {"turn", "pass"} :
                         On(lines'[FileOf[x]], k, x) = On(lines[FileOf[x]], k, x)
      /\ g \notin faulty' => lines'[g] = Append(c, Line("pass", s, i))
      /\ \A j \in Nat, x \in TraceSessions : \A f \in TraceFiles :
           (\E l \in ToSet(lines'[f]) : l.id = j /\ l.sid = x)
             => (\E l \in ToSet(lines[f]) : l.id = j /\ l.sid = x) \/ (j = i /\ x = s)
  <2>1. \A k \in {"turn", "pass"} : Write(s, Line(k, s, i)) => WrittenTo(s, k, i)
    BY <1>i, WrittenAt
  <2>2. WrittenTo(s, "pass", i)
    BY <1>1, <2>1
  <2>3. QED
    BY <1>p, <2>2 DEF WrittenTo
<1>5. Append(r, i) \in Seq(Nat) /\ q[s] = Append(r, i) /\ \A x \in TraceSessions : x # s => q[x] = passes[x]
  <2>1. Append(r, i) \in Seq(Nat)
    BY <1>4, <1>i, AppendProperties
  <2>2. DOMAIN passes = TraceSessions
    BY DEF TraceInv, TraceTypes
  <2>3. QED
    BY <1>t, <2>1, <2>2
<1>7. TraceTypes'
  <2>1. q \in [TraceSessions -> Seq(Nat)]
    BY <1>t, <1>5 DEF TraceInv, TraceTypes
  <2>2. QED
    BY <1>1, <1>2, <1>i, <2>1 DEF TraceInv, TraceTypes
<1>8. ASSUME NEW x \in TraceSessions, FileOf[x] \notin faulty'
      PROVE  Mirrored(x, turns[x], q[x], lines'[FileOf[x]])
  <2>1. /\ lines[FileOf[x]] \in Seq(TraceLines) /\ Intact(lines'[FileOf[x]])
        /\ Mirrored(x, turns[x], passes[x], lines[FileOf[x]])
    <3>1. FileOf[x] \notin faulty /\ Intact(lines'[FileOf[x]])
      BY <1>2, <1>8
    <3>2. lines[FileOf[x]] \in Seq(TraceLines)
      BY DEF TraceInv, TraceTypes, TraceFiles
    <3>3. Mirrored(x, turns[x], passes[x], lines[FileOf[x]])
      BY <3>1 DEF TraceInv, TracesAt
    <3>4. QED
      BY <3>1, <3>2, <3>3
  <2>3. CASE x = s
    <3>1. lines'[g] = Append(c, Line("pass", s, i)) /\ c \in Seq(TraceLines)
      BY <1>2, <1>8, <1>p, <2>1, <2>3
    <3>2. Ends(turns[s], "turn", s, On(c, "turn", s)) /\ Ends(passes[s], "pass", s, On(c, "pass", s))
      BY <1>p, <2>1, <2>3 DEF Mirrored
    <3>3. Ends(Append(r, i), "pass", s, On(Append(c, Line("pass", s, i)), "pass", s))
      BY <1>3, <1>4, <1>i, <1>m, <3>1, <3>2, EndsRecorded
    <3>4. On(Append(c, Line("pass", s, i)), "turn", s) = On(c, "turn", s)
      BY <1>i, <3>1, OnOther
    <3>5. QED
      BY <1>5, <1>p, <2>1, <2>3, <3>1, <3>2, <3>3, <3>4 DEF Mirrored
  <2>4. CASE x # s
    <3>1. \A k \in {"turn", "pass"} : On(lines'[FileOf[x]], k, x) = On(lines[FileOf[x]], k, x)
      BY <1>2, <2>4
    <3>2. QED
      BY <1>5, <2>1, <2>4, <3>1 DEF Mirrored
  <2>5. QED
    BY <2>3, <2>4
<1>9. ASSUME NEW x \in TraceSessions, x \in gone'
      PROVE  Buried(x, turns[x], q[x], lines'[FileOf[x]]) /\ x \notin meta
  <2>1. x # s /\ x \in gone
    BY <1>1, <1>9
  <2>2. Buried(x, turns[x], passes[x], lines[FileOf[x]]) /\ x \notin meta
    BY <2>1 DEF TraceInv, TracesAt
  <2>3. \A k \in {"turn", "pass"} : On(lines'[FileOf[x]], k, x) = On(lines[FileOf[x]], k, x)
    BY <1>2, <2>1
  <2>4. QED
    BY <1>5, <2>1, <2>2, <2>3 DEF Buried
<1>10. TracesAt'
  BY <1>1, <1>8, <1>9 DEF TracesAt
<1>12. Claimed(turns', lines', recorded')
  <2>1. ASSUME NEW j \in Nat, NEW x \in TraceSessions, Claim(turns, lines', j, x)
        PROVE  Claim(turns, lines, j, x) \/ (j = n + 1 /\ x = s)
    BY <1>2, <1>p, <2>1 DEF Claim
  <2>2. PICK t, t2, f, f2 : t = turns /\ t2 = turns /\ f = lines /\ f2 = lines'
    OBVIOUS
  <2>3. Claimed(t, f, n)
    BY <1>p, <2>2 DEF TraceInv
  <2>4. Claimed(t2, f2, n + 1)
    BY <1>i, <2>1, <2>2, <2>3, ClaimsNew
  <2>5. QED
    BY <1>1, <1>p, <2>2, <2>4
<1>13. QED
  BY <1>1, <1>7, <1>10, <1>12 DEF TraceInv

LEMMA MetadataKept ==
  ASSUME TraceInv, NEW s \in TraceSessions, SetSessionMetadata(s)
  PROVE  TraceInv'
<1>1. /\ UNCHANGED <<turns, indexed, order, passes, lines, recorded, faulty>>
      /\ meta' = meta \cup {s} /\ gone' = gone \ {s}
  BY DEF SetSessionMetadata
<1>2. TracesAt'
  BY <1>1 DEF TraceInv, TracesAt
<1>3. QED
  BY <1>1, <1>2 DEF TraceInv, TraceTypes

\* The index loses the ids of this session alone, for no other claims them.
LEMMA DeleteKept ==
  ASSUME TraceInv, NEW s \in TraceSessions, DeleteSessionData(s)
  PROVE  TraceInv'
<1>p. PICK g, t, q : /\ g = FileOf[s] /\ t = [turns EXCEPT ![s] = <<>>]
                     /\ q = [passes EXCEPT ![s] = <<>>]
  OBVIOUS
<1>1. /\ turns' = t /\ passes' = q /\ meta' = meta \ {s} /\ recorded' = recorded
      /\ indexed' = indexed \ ToSet(turns[s]) /\ order' = Only(order, TraceSessions \ {s})
      /\ \/ /\ lines' = [lines EXCEPT ![g] = <<>>] /\ gone' = gone \cup {s}
            /\ faulty \subseteq faulty'
            /\ \A x \in TraceSessions \ {s} : FileOf[x] = g => g \in faulty'
         \/ UNCHANGED <<lines, gone, faulty>>
  BY <1>p DEF DeleteSessionData, Unlinked
<1>t. /\ t \in [TraceSessions -> Seq(Nat)] /\ q \in [TraceSessions -> Seq(Nat)]
      /\ t[s] = <<>> /\ q[s] = <<>> /\ g \in TraceFiles
      /\ \A x \in TraceSessions : x # s => t[x] = turns[x] /\ q[x] = passes[x]
  <2>1. <<>> \in Seq(Nat)
    BY EmptySeq
  <2>2. turns \in [TraceSessions -> Seq(Nat)] /\ passes \in [TraceSessions -> Seq(Nat)]
    BY DEF TraceInv, TraceTypes
  <2>3. QED
    BY <1>p, <2>1, <2>2 DEF TraceFiles
<1>2. /\ lines \in [TraceFiles -> Seq(TraceLines)]
      /\ lines' \in [TraceFiles -> Seq(TraceLines)]
      /\ \A f \in TraceFiles : lines'[f] \in {<<>>, lines[f]}
  <2>1. <<>> \in Seq(TraceLines) /\ lines \in [TraceFiles -> Seq(TraceLines)]
    BY EmptySeq DEF TraceInv, TraceTypes
  <2>2. QED
    BY <1>1, <1>t, <2>1
<1>3. order' \in Seq(TraceSessions) /\ OrderOK(order', t)
  <2>1. PICK o, T : T = TraceSessions \ {s} /\ o = Only(order, T)
    OBVIOUS
  <2>2. order \in Seq(TraceSessions) /\ ToSet(order) = Held(turns) /\ Distinct(order)
    BY DEF TraceInv, TraceTypes, OrderOK
  <2>3. o \in Seq(TraceSessions) /\ ToSet(o) = Held(turns) \cap T /\ Distinct(o)
    <3>1. o \in Seq(TraceSessions \cap T)
      BY <2>1, <2>2, OnlyType
    <3>2. o \in Seq(TraceSessions)
      BY <3>1, SeqWider
    <3>3. QED
      BY <2>1, <2>2, <3>2, OnlySet, OnlyDistinct
  <2>4. Held(t) = Held(turns) \cap T
    BY <1>t, <2>1 DEF Held
  <2>5. QED
    BY <1>1, <2>1, <2>3, <2>4 DEF OrderOK
<1>4. TraceTypes'
  BY <1>1, <1>t, <1>2, <1>3 DEF TraceInv, TraceTypes
<1>5. Intact(<<>>) /\ \A k, x : On(<<>>, k, x) = <<>> /\ Ends(<<>>, k, x, <<>>)
  <2>1. <<>> \in Seq(TraceLines) /\ \A k, x : On(<<>>, k, x) = <<>>
    BY EmptySeq, OnlyEmpty DEF On
  <2>2. QED
    BY <2>1, EndsEmpty DEF Intact
<1>6. ASSUME NEW x \in TraceSessions, FileOf[x] \notin faulty'
      PROVE  Mirrored(x, t[x], q[x], lines'[FileOf[x]])
  <2>1. FileOf[x] \in TraceFiles /\ FileOf[x] \notin faulty /\ (x # s /\ lines' # lines => FileOf[x] # g)
    BY <1>1, <1>6 DEF TraceFiles
  <2>2. Mirrored(x, turns[x], passes[x], lines[FileOf[x]])
    BY <2>1 DEF TraceInv, TracesAt
  <2>3. CASE x = s
    <3>1. PICK c : c = lines'[g] /\ c \in Seq(TraceLines)
      BY <1>2, <1>t
    <3>2. Intact(c)
      BY <1>2, <1>5, <1>p, <1>t, <2>2, <2>3, <3>1 DEF Mirrored
    <3>3. \A k \in {"turn", "pass"} : Ends(<<>>, k, s, On(c, k, s))
      BY <3>1, OnType, EndsEmpty
    <3>4. QED
      BY <1>p, <1>t, <2>3, <3>1, <3>2, <3>3 DEF Mirrored
  <2>4. CASE x # s
    <3>1. lines'[FileOf[x]] = lines[FileOf[x]]
      BY <1>1, <1>2, <2>1, <2>4
    <3>2. QED
      BY <1>t, <2>2, <2>4, <3>1
  <2>5. QED
    BY <2>3, <2>4
<1>7. ASSUME NEW x \in TraceSessions, x \in gone'
      PROVE  Buried(x, t[x], q[x], lines'[FileOf[x]]) /\ x \notin meta'
  <2>1. CASE x \in gone
    <3>1. Buried(x, turns[x], passes[x], lines[FileOf[x]]) /\ x \notin meta
      BY <2>1 DEF TraceInv, TracesAt
    <3>2. lines'[FileOf[x]] \in {<<>>, lines[FileOf[x]]}
      BY <1>2 DEF TraceFiles
    <3>3. QED
      BY <1>1, <1>5, <1>t, <3>1, <3>2 DEF Buried
  <2>2. CASE x \notin gone
    <3>1. x = s /\ lines' = [lines EXCEPT ![g] = <<>>]
      BY <1>1, <1>7, <2>2
    <3>2. lines'[FileOf[x]] = <<>>
      BY <1>2, <1>p, <1>t, <3>1
    <3>3. QED
      BY <1>1, <1>5, <1>t, <3>1, <3>2 DEF Buried
  <2>3. QED
    BY <2>1, <2>2
<1>8. TracesAt'
  BY <1>1, <1>6, <1>7 DEF TracesAt
<1>9. /\ \A x : ToSet(t[x]) = ToSet(t[x]) /\ ToSet(<<>>) = {}
      /\ \A x \in TraceSessions : ToSet(turns[x]) \subseteq Nat
  <2>1. ToSet(<<>>) = {}
    BY DEF ToSet
  <2>2. ASSUME NEW x \in TraceSessions PROVE ToSet(turns[x]) \subseteq Nat
    <3>1. turns[x] \in Seq(Nat)
      BY DEF TraceInv, TraceTypes
    <3>2. QED
      BY <3>1, SetOf
  <2>3. QED
    BY <2>1, <2>2
<1>10. Claimed(turns', lines', recorded')
  <2>1. ASSUME NEW j \in Nat, NEW x \in TraceSessions, Claim(t, lines', j, x)
        PROVE  Claim(turns, lines, j, x)
    <3>1. CASE j \in ToSet(t[x])
      BY <1>9, <1>t, <3>1 DEF Claim
    <3>2. CASE \E f \in TraceFiles : \E l \in ToSet(lines'[f]) : l.id = j /\ l.sid = x
      BY <1>2, <1>9, <3>2 DEF Claim
    <3>3. QED
      BY <2>1, <3>1, <3>2 DEF Claim
  <2>2. PICK t1, t2, f1, f2, n : t1 = turns /\ t2 = t /\ f1 = lines /\ f2 = lines' /\ n = recorded
    OBVIOUS
  <2>3. Claimed(t1, f1, n) /\ n \in Nat
    BY <2>2 DEF TraceInv, TraceTypes
  <2>4. Claimed(t2, f2, n)
    BY <2>1, <2>2, <2>3, ClaimsFewer
  <2>5. QED
    BY <1>1, <2>2, <2>4
<1>11. indexed' = IdsOf(t)
  <2>1. indexed = IdsOf(turns)
    BY DEF TraceInv
  <2>2. ASSUME NEW j \in ToSet(turns[s]), NEW x \in TraceSessions, x # s PROVE j \notin ToSet(turns[x])
    <3>1. SUFFICES ASSUME j \in ToSet(turns[x]) PROVE FALSE
      OBVIOUS
    <3>2. j \in Nat /\ Claim(turns, lines, j, x) /\ Claim(turns, lines, j, s)
      BY <1>9, <3>1 DEF Claim
    <3>3. QED
      BY <2>2, <3>2 DEF TraceInv, Claimed
  <2>3. ASSUME NEW j \in IdsOf(t) PROVE j \in IdsOf(turns) \ ToSet(turns[s])
    <3>1. PICK x \in TraceSessions : j \in ToSet(t[x])
      BY DEF IdsOf
    <3>2. x # s /\ j \in ToSet(turns[x])
      BY <1>9, <1>t, <3>1
    <3>3. QED
      BY <2>2, <3>2 DEF IdsOf
  <2>4. ASSUME NEW j \in IdsOf(turns) \ ToSet(turns[s]) PROVE j \in IdsOf(t)
    <3>1. PICK x \in TraceSessions : j \in ToSet(turns[x])
      BY DEF IdsOf
    <3>2. x # s
      BY <3>1
    <3>3. QED
      BY <1>t, <3>1, <3>2 DEF IdsOf
  <2>5. QED
    BY <1>1, <2>1, <2>3, <2>4
<1>12. QED
  BY <1>1, <1>3, <1>4, <1>8, <1>10, <1>11 DEF TraceInv

LEMMA ReloadKept ==
  ASSUME TraceInv, NEW old \in SUBSET TraceFiles, Reload(old)
  PROVE  TraceInv'
<1>p. PICK kept, t, q : /\ kept = [f \in TraceFiles |-> IF f \in old THEN <<>> ELSE lines[f]]
                        /\ t = [s \in TraceSessions |-> Loaded(kept, "turn", s)]
                        /\ q = [s \in TraceSessions |-> Loaded(kept, "pass", s)]
  OBVIOUS
<1>1. /\ lines' = kept /\ turns' = t /\ passes' = q /\ indexed' = IdsOf(t) /\ order' = OrderAfter(t)
      /\ meta' = {} /\ faulty' = faulty \cup old /\ recorded' = recorded /\ gone' = gone
  BY <1>p DEF Reload
<1>2. /\ kept \in [TraceFiles -> Seq(TraceLines)]
      /\ \A f \in TraceFiles : kept[f] = IF f \in old THEN <<>> ELSE lines[f]
  <2>1. <<>> \in Seq(TraceLines) /\ lines \in [TraceFiles -> Seq(TraceLines)]
    BY EmptySeq DEF TraceInv, TraceTypes
  <2>2. QED
    BY <1>p, <2>1
<1>3. ASSUME NEW s \in TraceSessions, NEW kind \in {"turn", "pass"}, NEW c, c = kept[FileOf[s]],
             NEW list, list = Loaded(kept, kind, s)
      PROVE  /\ list \in Seq(Nat) /\ Ends(list, kind, s, On(c, kind, s))
             /\ On(c, kind, s) = <<>> => list = <<>>
             /\ \A i \in ToSet(list) : \E l \in ToSet(c) : l.id = i /\ l.sid = s
  BY <1>2, <1>3, LoadedIs
<1>4. ASSUME NEW s \in TraceSessions
      PROVE  /\ t[s] = Loaded(kept, "turn", s) /\ q[s] = Loaded(kept, "pass", s)
             /\ FileOf[s] \in TraceFiles
  BY <1>p DEF TraceFiles
<1>5. ASSUME NEW s \in TraceSessions PROVE t[s] \in Seq(Nat) /\ q[s] \in Seq(Nat)
  BY <1>3, <1>4
<1>6. t \in [TraceSessions -> Seq(Nat)] /\ q \in [TraceSessions -> Seq(Nat)]
  BY <1>5, <1>p
<1>7. order' \in Seq(TraceSessions) /\ OrderOK(order', t)
  <2>1. PICK h : h = Held(t)
    OBVIOUS
  <2>2. h \subseteq TraceSessions /\ IsFiniteSet(h)
    <3>1. h \in SUBSET TraceSessions
      BY <2>1 DEF Held
    <3>2. IsFiniteSet(TraceSessions)
      BY TraceBounds
    <3>3. QED
      BY <3>1, <3>2, FS_Subset
  <2>3. order' = SetToSeq(h)
    BY <1>1, <2>1 DEF OrderAfter
  <2>4. SetToSeq(h) \in Seq(h) /\ ToSet(SetToSeq(h)) = h /\ Distinct(SetToSeq(h))
    BY <2>2, ListedOnce
  <2>5. SetToSeq(h) \in Seq(TraceSessions)
    BY <2>2, <2>4, SeqWider
  <2>6. QED
    BY <2>1, <2>3, <2>4, <2>5 DEF OrderOK
<1>8. TraceTypes'
  BY <1>1, <1>2, <1>6, <1>7 DEF TraceInv, TraceTypes
<1>9. ASSUME NEW s \in TraceSessions, FileOf[s] \notin faulty'
      PROVE  Mirrored(s, t[s], q[s], kept[FileOf[s]])
  <2>1. FileOf[s] \notin faulty /\ kept[FileOf[s]] = lines[FileOf[s]]
    BY <1>1, <1>2, <1>4, <1>9
  <2>2. Intact(kept[FileOf[s]])
    BY <2>1 DEF TraceInv, TracesAt, Mirrored
  <2>3. /\ Ends(t[s], "turn", s, On(kept[FileOf[s]], "turn", s))
        /\ Ends(q[s], "pass", s, On(kept[FileOf[s]], "pass", s))
    BY <1>3, <1>4
  <2>4. QED
    BY <2>2, <2>3 DEF Mirrored
<1>10. ASSUME NEW s \in TraceSessions, s \in gone
       PROVE  Buried(s, t[s], q[s], kept[FileOf[s]])
  <2>1. On(lines[FileOf[s]], "turn", s) = <<>> /\ On(lines[FileOf[s]], "pass", s) = <<>>
    BY <1>10 DEF TraceInv, TracesAt, Buried
  <2>2. On(<<>>, "turn", s) = <<>> /\ On(<<>>, "pass", s) = <<>>
    BY OnlyEmpty DEF On
  <2>3. On(kept[FileOf[s]], "turn", s) = <<>> /\ On(kept[FileOf[s]], "pass", s) = <<>>
    BY <1>2, <1>4, <2>1, <2>2
  <2>4. QED
    BY <1>3, <1>4, <2>3 DEF Buried
<1>11. TracesAt'
  BY <1>1, <1>9, <1>10 DEF TracesAt
<1>12. Claimed(turns', lines', recorded')
  <2>1. ASSUME NEW j \in Nat, NEW f \in TraceFiles, NEW l \in ToSet(kept[f]), NEW s \in TraceSessions,
               l.id = j, l.sid = s
        PROVE  Claim(turns, lines, j, s)
    <3>1. kept[f] # <<>>
      BY <2>1 DEF ToSet
    <3>2. l \in ToSet(lines[f])
      BY <1>2, <2>1, <3>1
    <3>3. QED
      BY <2>1, <3>2 DEF Claim
  <2>2. ASSUME NEW j \in Nat, NEW s \in TraceSessions, Claim(t, kept, j, s)
        PROVE  Claim(turns, lines, j, s)
    <3>1. CASE j \in ToSet(t[s])
      <4>1. PICK l \in ToSet(kept[FileOf[s]]) : l.id = j /\ l.sid = s
        BY <1>3, <1>4, <3>1
      <4>2. QED
        BY <1>4, <2>1, <4>1
    <3>2. CASE \E f \in TraceFiles : \E l \in ToSet(kept[f]) : l.id = j /\ l.sid = s
      BY <2>1, <3>2
    <3>3. QED
      BY <2>2, <3>1, <3>2 DEF Claim
  <2>3. PICK t1, f1, n : t1 = turns /\ f1 = lines /\ n = recorded
    OBVIOUS
  <2>4. Claimed(t1, f1, n) /\ n \in Nat
    BY <2>3 DEF TraceInv, TraceTypes
  <2>5. Claimed(t, kept, n)
    BY <2>2, <2>3, <2>4, ClaimsFewer
  <2>6. QED
    BY <1>1, <2>3, <2>5
<1>13. QED
  BY <1>1, <1>7, <1>8, <1>11, <1>12 DEF TraceInv

LEMMA TraceStarts == TraceInit => TraceInv
<1>. SUFFICES ASSUME TraceInit PROVE TraceInv
  OBVIOUS
<1>1. /\ turns = [s \in TraceSessions |-> <<>>] /\ passes = [s \in TraceSessions |-> <<>>]
      /\ order = <<>> /\ lines = [f \in TraceFiles |-> <<>>] /\ recorded = 0
      /\ indexed = {} /\ gone = {}
  BY DEF TraceInit
<1>2. ToSet(<<>>) = {} /\ \A S : <<>> \in Seq(S)
  BY EmptySeq DEF ToSet
<1>3. TraceTypes
  BY <1>1, <1>2 DEF TraceTypes
<1>4. ASSUME NEW s \in TraceSessions PROVE Mirrored(s, turns[s], passes[s], lines[FileOf[s]])
  <2>1. turns[s] = <<>> /\ passes[s] = <<>> /\ lines[FileOf[s]] = <<>>
    BY <1>1 DEF TraceFiles
  <2>2. \A k : On(<<>>, k, s) = <<>> /\ <<>> \in Seq(TraceLines)
    BY <1>2, OnlyEmpty DEF On
  <2>3. \A k : Ends(<<>>, k, s, <<>>)
    BY <2>2, EndsEmpty
  <2>4. QED
    BY <2>1, <2>2, <2>3 DEF Mirrored, Intact
<1>5. TracesAt
  BY <1>1, <1>4 DEF TracesAt
<1>6. Claimed(turns, lines, recorded)
  BY <1>1, <1>2 DEF Claimed, Claim
<1>7. indexed = IdsOf(turns)
  BY <1>1, <1>2 DEF IdsOf
<1>8. OrderOK(order, turns)
  <2>1. Held(turns) = {}
    BY <1>1 DEF Held
  <2>2. Distinct(<<>>)
    BY DEF Distinct
  <2>3. QED
    BY <1>1, <1>2, <2>1, <2>2 DEF OrderOK
<1>9. QED
  BY <1>3, <1>5, <1>6, <1>7, <1>8 DEF TraceInv

LEMMA TraceInvSurvives == TraceInv => TracesSurvive
<1>. SUFFICES ASSUME TraceInv PROVE TracesSurvive
  OBVIOUS
<1>1. ASSUME NEW s \in TraceSessions, NEW kind \in {"turn", "pass"}, NEW list \in Seq(Nat),
             NEW c, c = Only(lines[FileOf[s]], RecordsOf(kind, s))
      PROVE  IsSuffix([i \in DOMAIN list |-> Line(kind, s, list[i])], c) <=> Ends(list, kind, s, c)
  <2>1. lines[FileOf[s]] \in Seq(TraceLines)
    BY DEF TraceInv, TraceTypes, TraceFiles
  <2>2. c \in Seq(TraceLines)
    BY <1>1, <2>1, OnType DEF On
  <2>3. QED
    BY <2>2, EndsSuffix
<1>2. ASSUME NEW s \in TraceSessions, FileOf[s] \notin faulty
      PROVE  /\ IsSuffix([i \in DOMAIN turns[s] |-> Line("turn", s, turns[s][i])],
                         Only(lines[FileOf[s]], RecordsOf("turn", s)))
             /\ IsSuffix([i \in DOMAIN passes[s] |-> Line("pass", s, passes[s][i])],
                         Only(lines[FileOf[s]], RecordsOf("pass", s)))
  <2>1. PICK c, t, p : c = lines[FileOf[s]] /\ t = turns[s] /\ p = passes[s]
    OBVIOUS
  <2>2. t \in Seq(Nat) /\ p \in Seq(Nat)
    BY <2>1 DEF TraceInv, TraceTypes
  <2>3. /\ Ends(t, "turn", s, Only(c, RecordsOf("turn", s)))
        /\ Ends(p, "pass", s, Only(c, RecordsOf("pass", s)))
    BY <1>2, <2>1 DEF TraceInv, TracesAt, Mirrored, On
  <2>4. /\ IsSuffix([i \in DOMAIN t |-> Line("turn", s, t[i])], Only(c, RecordsOf("turn", s)))
        /\ IsSuffix([i \in DOMAIN p |-> Line("pass", s, p[i])], Only(c, RecordsOf("pass", s)))
    BY <1>1, <2>1, <2>2, <2>3
  <2>5. QED
    BY <2>1, <2>4
<1>3. ASSUME NEW s \in TraceSessions, s \in gone
      PROVE  /\ turns[s] = <<>> /\ passes[s] = <<>> /\ s \notin meta
             /\ Only(lines[FileOf[s]], RecordsOf("turn", s)) = <<>>
             /\ Only(lines[FileOf[s]], RecordsOf("pass", s)) = <<>>
  BY <1>3 DEF TraceInv, TracesAt, Buried, On
<1>4. ToSet(order) = Held(turns) /\ Len(order) = Cardinality(Held(turns))
  <2>1. order \in Seq(TraceSessions) /\ ToSet(order) = Held(turns) /\ Distinct(order)
    BY DEF TraceInv, TraceTypes, OrderOK
  <2>2. QED
    BY <2>1, DistinctLen
<1>5. indexed = IdsOf(turns)
  BY DEF TraceInv
<1>6. QED
  BY <1>2, <1>3, <1>4, <1>5 DEF TracesSurvive

LEMMA TraceInvHolds == TraceSpec => []TraceInv
<1>1. TraceInv /\ [TraceNext]_traceVars => TraceInv'
  <2>. SUFFICES ASSUME TraceInv, [TraceNext]_traceVars PROVE TraceInv'
    OBVIOUS
  <2>1. CASE UNCHANGED traceVars
    BY <2>1 DEF traceVars, TraceInv, TraceTypes, TracesAt
  <2>2. ASSUME NEW s \in TraceSessions,
               Record(s) \/ RecordBgPass(s) \/ SetSessionMetadata(s) \/ DeleteSessionData(s)
        PROVE  TraceInv'
    BY <2>2, RecordKept, PassKept, MetadataKept, DeleteKept
  <2>3. ASSUME NEW old \in SUBSET TraceFiles, Reload(old) PROVE TraceInv'
    BY <2>3, ReloadKept
  <2>4. QED
    BY <2>1, <2>2, <2>3 DEF TraceNext
<1>2. QED
  BY <1>1, TraceStarts, PTL DEF TraceSpec

\* Whatever is recorded, deleted, evicted, cut off or reloaded: what a session
\* has in memory is the end of what its file holds of it, as long as the file
\* has not failed; what was deleted stays deleted; and the index and the order
\* of eviction name exactly what is held.
THEOREM TracesAlwaysSurvive == TraceSpec => []TracesSurvive
BY TraceInvHolds, TraceInvSurvives, PTL
=============================================================================
