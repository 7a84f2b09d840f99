------------------------------ MODULE LiveStream ------------------------------
(***************************************************************************)
(* The live stream of archolith_proxy (proxy/live.py, routers/              *)
(* live_router.py): events are put into one bounded queue per connected     *)
(* WebSocket client, a client whose queue is full is dropped, and a handler *)
(* per client sends what is in its queue.                                   *)
(***************************************************************************)
EXTENDS Integers, Sequences, SequencesExt

CONSTANTS LiveClients,   \* WebSocket connections that may be opened
          Shows,         \* client -> what it shows at the handshake
          AdminToken,    \* is ADMIN_TOKEN set?
          AllowAnonymous,\* WS_ALLOW_ANONYMOUS
          QueueSize,     \* _MAX_CLIENT_QUEUE_SIZE
          MaxEvents      \* bound: events broadcast

ASSUME LiveBounds == QueueSize \in Nat \ {0} /\ MaxEvents \in Nat

VARIABLES subscribers,  \* _subscribers
          queue,        \* client -> its queue
          conn,         \* client -> where its handler is
          events,       \* events broadcast so far, which number them
          told          \* client -> events it was sent, in order

liveVars == <<subscribers, queue, conn, events, told>>

\* What the handlers know: they wait for their queue, or send what they took.
Waiting == [pc |-> "get", event |-> 0]
Sending(e) == [pc |-> "send", event |-> e]
Ended(how) == [pc |-> how, event |-> 0]
Connected(c) == conn[c].pc \in {"get", "send"}

\* The sentinel that tells a client that it was dropped.
Dropped == -1

\* put_nowait: nothing is put into a full queue, QueueFull is raised.
Full(c) == Len(queue[c]) >= QueueSize
Put(c, e) == IF Full(c) THEN queue[c] ELSE Append(queue[c], e)

LiveInit ==
  /\ subscribers = {}
  /\ queue = [c \in LiveClients |-> <<>>]
  /\ conn = [c \in LiveClients |-> Ended("new")]
  /\ events = 0
  /\ told = [c \in LiveClients |-> <<>>]

\* A credential is "right", "wrong" or "none".
Authorized(show) ==
  \/ AllowAnonymous
  \/ ~AdminToken /\ show.loopback
  \/ AdminToken /\ "right" \in {show.query, show.header, show.bearer}

Connect(c) ==
  /\ conn[c].pc = "new"
  /\ IF Authorized(Shows[c])
     THEN /\ subscribers' = subscribers \cup {c}
          /\ conn' = [conn EXCEPT ![c] = Waiting]
     ELSE /\ conn' = [conn EXCEPT ![c] = Ended("refused")]
          /\ UNCHANGED subscribers
  /\ UNCHANGED <<queue, events, told>>

\* Mutant of Overflowed: a full queue skips the event, its client stays.
OverflowSkips == {}

\* The subscribers found with a full queue are dropped from the list.
Overflowed == {c \in subscribers : Full(c)}

\* The broadcast_ functions skip a stream without subscribers. A queue that was
\* full is still full when its sentinel is put, for no consumer has run since.
Broadcast ==
  /\ events < MaxEvents /\ subscribers # {}
  /\ events' = events + 1
  /\ LET dead == Overflowed
     IN  /\ queue' = [c \in LiveClients |->
              IF c \in dead THEN Put(c, Dropped)
              ELSE IF c \in subscribers THEN Put(c, events') ELSE queue[c]]
         /\ subscribers' = subscribers \ dead
  /\ UNCHANGED <<conn, told>>

Get(c) ==
  /\ conn[c].pc = "get" /\ queue[c] # <<>>
  /\ conn' = [conn EXCEPT ![c] = Sending(Head(queue[c]))]
  /\ queue' = [queue EXCEPT ![c] = Tail(@)]
  /\ UNCHANGED <<subscribers, events, told>>

Sent(c) ==
  /\ conn[c].pc = "send"
  /\ told' = [told EXCEPT ![c] = Append(@, conn[c].event)]
  /\ IF conn[c].event = Dropped
     THEN conn' = [conn EXCEPT ![c] = Ended("closed")] /\ subscribers' = subscribers \ {c}
     ELSE conn' = [conn EXCEPT ![c] = Waiting] /\ UNCHANGED subscribers
  /\ UNCHANGED <<queue, events>>

\* The finally clause of the handler, after a send that raised.
Leave(c) == subscribers' = subscribers \ {c}

\* A client that went away is noticed by the next send to it.
SendFails(c) ==
  /\ conn[c].pc = "send"
  /\ conn' = [conn EXCEPT ![c] = Ended("gone")]
  /\ Leave(c)
  /\ UNCHANGED <<queue, events, told>>

LiveStep(c) == Get(c) \/ Sent(c)

LiveNext ==
  \/ Broadcast
  \/ \E c \in LiveClients : Connect(c) \/ LiveStep(c) \/ SendFails(c)

LiveSpec == LiveInit /\ [][LiveNext]_liveVars

(* ------------------------------- properties ----------------------------- *)

\* proxy/live.py: what a client was sent, is being sent and will be sent is one
\* unbroken run of events, which a subscriber has up to the last one broadcast:
\* a slow client loses its subscription, never an event in the middle; and a
\* handler that has ended leaves no queue behind.
LiveUnbroken ==
  \A c \in LiveClients :
    LET run == told[c] \o (IF conn[c].pc = "send" THEN <<conn[c].event>> ELSE <<>>) \o queue[c]
    IN  /\ Connected(c) => \A i \in 1..(Len(run) - 1) : run[i + 1] = run[i] + 1
        /\ c \in subscribers => Connected(c) /\ (run # <<>> => Last(run) = events)
===============================================================================
