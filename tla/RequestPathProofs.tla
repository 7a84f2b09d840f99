-------------------------- MODULE RequestPathProofs --------------------------
(***************************************************************************)
(* Proofs about RequestPath, for any number of slots and sessions, any     *)
(* traffic, any answers of the model and any limits of the breaker: what a *)
(* client is given is what is extracted, it sees the calls of injected     *)
(* tools in two cases only, and the effort for a request and for a session *)
(* whose model misbehaves is bounded.                                      *)
(*                                                                         *)
(* A slot is a sequential program, so most of the argument is about one    *)
(* task record at a time: Sound(t) says what a record may hold at each of  *)
(* its awaits.  Only the bound on failures relates the slots, through the  *)
(* breaker they share.                                                     *)
(***************************************************************************)
EXTENDS RequestPath, FiniteSetTheorems, SequenceTheorems, TLAPS

-----------------------------------------------------------------------------
(* The invariant.                                                          *)

Job == [kind : {"extract", "trace"}, of : Nat]

Places ==
  {"idle", "passthrough", "resolve", "budget", "inject", "call", "leak",
   "recall", "resend", "resend2", "synthetic", "synresend", "read", "reply",
   "open", "relay", "again", "again2", "jobs"}

Tasks == [pc : Places, req : Requests \cup {NoRequest},
          sess : Sessions \cup {NoSession}, offered : SUBSET Internal,
          exchanges : Nat, reply : Replies, n : Nat, final : BOOLEAN,
          raised : BOOLEAN, sent : Replies, sentOf : Nat, jobs : Seq(Job)]

Records == [streak : Nat, total : Nat, cooling : Int, hard : BOOLEAN,
            tokens : Nat]

TypeOK ==
  /\ task \in [Slots -> Tasks]
  /\ circuit \in [Sessions -> Records]

\* Before the first exchange, and with an answer in hand.
Early     == {"idle", "passthrough", "resolve", "budget", "inject", "call", "open"}
InHand    == {"leak", "recall", "resend", "resend2", "synthetic", "synresend",
              "read", "reply", "relay", "again", "again2"}
Streaming == {"open", "relay", "again", "again2"}

\* Exchanges so far, at each await.  A reply that calls the recall tool leads
\* to no exchange but those of the recall.
Spent(t) ==
  /\ t.pc \in Early => t.exchanges = 0 /\ t.reply = NoReply /\ t.n = 0
  /\ t.pc \in {"leak", "resend", "synresend", "relay", "again"} => t.exchanges = 1
  /\ t.pc \in {"resend2", "again2"} => t.exchanges = 2
  /\ t.pc \in {"recall", "synthetic"} =>
       \/ t.exchanges = 1
       \/ t.exchanges = 2 /\ t.offered = {}
       \/ t.exchanges <= 3 /\ t.pc = "synthetic" /\ "recall" \in t.reply.calls
  /\ t.pc = "read" =>
       t.exchanges <= 2 \/ (t.exchanges <= 3 /\ "recall" \in t.reply.calls)
  /\ t.exchanges <= MaxExchanges

\* What the handlers rely on about the answer in hand.
InHandSound(t) ==
  /\ t.reply.calls \cap Internal \subseteq t.offered
  /\ t.reply.odd => t.reply.calls = {}
  /\ t.pc \in InHand => t.n \in 1..t.exchanges
  /\ t.pc \in {"leak", "relay"} => t.n = 1
  /\ t.pc \in {"resend", "resend2"} => "recall" \in t.offered \cap t.reply.calls
  /\ t.pc = "synresend" => t.reply.calls = {"synthetic"} /\ "synthetic" \in t.offered
  /\ t.pc \in {"read", "reply"} /\ ~t.final /\ "synthetic" \in t.reply.calls => t.raised
  /\ t.pc \in Streaming => t.req.stream /\ "synthetic" \notin t.offered

\* What is left to do once the response was given.
JobsSound(t) ==
  IF t.pc = "jobs"
    THEN /\ t.jobs \in {<<>>, <<Trace>>} \cup
                       (IF t.sentOf = 0 THEN {}
                        ELSE {<<Extraction(t.sentOf)>>, <<Extraction(t.sentOf), Trace>>})
         /\ t.sentOf # 0 /\ t.sent.calls \cap t.offered # {} =>
              \/ t.req.stream /\ "synthetic" \notin t.offered /\ t.sentOf = 1
              \/ t.raised /\ t.sent.calls \cap t.offered = {"synthetic"}
    ELSE t.jobs = <<>> /\ t.sentOf = 0

Sound(t) ==
  /\ t.pc = "idle" => t = Idle
  /\ t.pc \in Early \ {"call", "open"} => t.offered = {}
  /\ t.pc # "idle" /\ t.pc # "jobs" /\ "synthetic" \in t.offered => t.sess # NoSession
  /\ Spent(t)
  /\ InHandSound(t)
  /\ JobsSound(t)

AllSound == \A i \in Slots : Sound(task[i])

\* A record that reached the hard limit stays disabled until it is forgotten.
HardAtLimit == \A s \in Sessions : circuit[s].total >= MaxTotal => circuit[s].hard

IInv == TypeOK /\ AllSound /\ HardAtLimit /\ EffortBounded

-----------------------------------------------------------------------------
(* Task records.                                                           *)

LEMMA Constants ==
  /\ NoReply \in Replies /\ HttpErrors \subseteq Replies
  /\ \A r \in HttpErrors : r.calls = {}
  /\ \A s \in Sessions : s # NoSession
  /\ Traffic \subseteq Requests
  /\ Idle \in Tasks
<1>1. NoReply \in Replies /\ HttpErrors \subseteq Replies
  BY DEF NoReply, HttpErrors, Replies
<1>2. Idle \in Tasks
  BY <1>1 DEF Idle, Tasks, Places
<1>3. QED
  BY <1>1, <1>2, PathAssumption DEF HttpErrors

\* What the model may answer to t.
LEMMA OffersAre ==
  ASSUME NEW t, NEW a \in Offers(t)
  PROVE  /\ a \in Replies
         /\ a.ok /\ (a.odd => a.calls = {})
         /\ a.calls \cap Internal \subseteq t.offered
BY PathAssumption DEF Offers

LEMMA WithoutIs ==
  ASSUME NEW r \in Replies, NEW tools
  PROVE  /\ Without(r, tools) \in Replies
         /\ Without(r, tools).calls = r.calls \ tools
         /\ Without(r, tools).odd = r.odd
BY DEF Without, Replies

\* The record of a request that was answered.
LEMMA SentIs ==
  ASSUME NEW t \in Tasks, NEW r \in Replies, NEW k \in Nat, NEW jobs \in Seq(Job),
         JobsSound(Sent(t, r, k, jobs))
  PROVE  Sent(t, r, k, jobs) \in Tasks /\ Sound(Sent(t, r, k, jobs))
<1>. DEFINE u == Sent(t, r, k, jobs)
<1>1. u \in Tasks
  BY Constants DEF Sent, Tasks, Places
<1>2. u.exchanges = Idle.exchanges /\ u.n = Idle.n /\ u.reply = Idle.reply
      /\ u.pc = "jobs"
  BY Constants DEF Sent, Tasks
<1>3. JobsSound(u)
  OBVIOUS
<1>. HIDE DEF u
<1>4. u.pc = "jobs" /\ u.exchanges = 0 /\ u.n = 0 /\ u.reply = NoReply
  BY <1>2 DEF Idle
<1>5. Spent(u)
  BY <1>4 DEF Spent, Early, MaxExchanges
<1>6. InHandSound(u)
  BY <1>4 DEF InHandSound, NoReply, InHand, Streaming
<1>7. u \in Tasks /\ Sound(u)
  BY <1>1, <1>3, <1>4, <1>5, <1>6 DEF Sound, Early
<1>8. QED
  BY <1>7 DEF u

\* The client got an error, with or without a trace.
LEMMA FailedIs ==
  ASSUME NEW t \in Tasks, NEW jobs \in {<<>>, <<Trace>>}
  PROVE  Failed(t, jobs) \in Tasks /\ Sound(Failed(t, jobs))
<1>1. jobs \in Seq(Job)
  <2>1. Trace \in Job
    BY DEF Job, Trace
  <2>2. <<>> \in Seq(Job) /\ <<Trace>> \in Seq(Job)
    BY <2>1
  <2>3. QED
    BY <2>2
<1>2. JobsSound(Failed(t, jobs))
  BY Constants DEF JobsSound, Failed, Sent, Tasks
<1>3. QED
  BY <1>1, <1>2, SentIs, Constants DEF Failed

-----------------------------------------------------------------------------
(* The steps of a slot, as what they do to its record.                     *)

\* t may still report a failure of the synthetic tool to the breaker.
Owes(t) == "synthetic" \in t.offered /\ t.pc \in Undecided

\* Slot i goes on with t, and owes no report that it did not owe before.
Moves(i, t) ==
  /\ t \in Tasks /\ Sound(t)
  /\ task' = [task EXCEPT ![i] = t]
  /\ Owes(t) => Owes(task[i]) /\ t.sess = task[i].sess

\* The client is answered: with r, and the jobs that go with it.
LEMMA AnsweredClient ==
  ASSUME NEW i \in Slots, NEW t \in Tasks, NEW r \in Replies, NEW k \in Nat,
         NEW jobs \in Seq(Job), JobsSound(Sent(t, r, k, jobs)),
         Become(i, Sent(t, r, k, jobs))
  PROVE  Moves(i, Sent(t, r, k, jobs))
<1>1. Sent(t, r, k, jobs).pc = "jobs"
  BY Constants DEF Sent, Tasks
<1>2. QED
  BY <1>1, SentIs DEF Moves, Become, Owes, Undecided

LEMMA Fails ==
  ASSUME NEW i \in Slots, NEW t \in Tasks, NEW jobs \in {<<>>, <<Trace>>},
         Become(i, Failed(t, jobs))
  PROVE  Moves(i, Failed(t, jobs))
<1>1. Failed(t, jobs).pc = "jobs"
  BY Constants DEF Failed, Sent, Tasks
<1>2. QED
  BY <1>1, FailedIs DEF Moves, Become, Owes, Undecided

LEMMA ArriveMoves ==
  ASSUME TypeOK, AllSound, NEW i \in Slots, NEW r \in Traffic, Arrive(i, r)
  PROVE  \E t : Moves(i, t)
<1>. DEFINE t == [Idle EXCEPT !.pc = IF r.bare THEN "passthrough" ELSE "resolve",
                             !.req = r]
<1>1. t \in Tasks
  BY Constants DEF Tasks, Places
<1>2. /\ t.offered = Idle.offered /\ t.exchanges = Idle.exchanges
      /\ t.reply = Idle.reply /\ t.n = Idle.n /\ t.jobs = Idle.jobs
      /\ t.sentOf = Idle.sentOf /\ t.pc \in {"passthrough", "resolve"}
  BY Constants DEF Tasks
<1>3. task' = [task EXCEPT ![i] = t]
  BY DEF Arrive, Become
<1>. HIDE DEF t
<1>4. /\ t.offered = {} /\ t.exchanges = 0 /\ t.reply = NoReply /\ t.n = 0
      /\ t.jobs = <<>> /\ t.sentOf = 0
  BY <1>2 DEF Idle
<1>5. Sound(t) /\ ~Owes(t)
  BY <1>2, <1>4 DEF Sound, Owes, Spent, InHandSound, JobsSound, Early, InHand,
     Streaming, MaxExchanges, NoReply
<1>6. QED
  BY <1>1, <1>3, <1>5 DEF Moves

LEMMA RefuseMoves ==
  ASSUME NEW i \in Slots, Refuse(i)
  PROVE  \E t : Moves(i, t)
BY Constants, Fails DEF Refuse

LEMMA ResolveMoves ==
  ASSUME TypeOK, AllSound, NEW i \in Slots, Resolve(i)
  PROVE  \E t : Moves(i, t)
<1>1. PICK s \in {task[i].req.sess, NoSession} :
        Become(i, [task[i] EXCEPT !.sess = s, !.pc = "budget"])
  BY DEF Resolve
<1>. DEFINE old == task[i]
            t == [old EXCEPT !.sess = s, !.pc = "budget"]
<1>2. old \in Tasks /\ Sound(old) /\ old.pc = "resolve"
  BY DEF TypeOK, AllSound, Resolve, At
<1>3. s \in Sessions \cup {NoSession}
  BY <1>2, Constants DEF Tasks, Requests, NoRequest
<1>4. t \in Tasks /\ task' = [task EXCEPT ![i] = t]
  BY <1>1, <1>2, <1>3 DEF Tasks, Places, Become
<1>5. /\ t.pc = "budget" /\ t.offered = old.offered /\ t.exchanges = old.exchanges
      /\ t.reply = old.reply /\ t.n = old.n /\ t.jobs = old.jobs
      /\ t.sentOf = old.sentOf
  BY <1>2 DEF Tasks
<1>. HIDE DEF t, old
<1>6. Sound(t) /\ ~Owes(t)
  BY <1>2, <1>5 DEF Sound, Owes, Undecided, Spent, InHandSound, JobsSound, Early, InHand,
     Streaming, MaxExchanges, NoReply
<1>7. QED
  BY <1>4, <1>6 DEF Moves

\* What the proofs below expand of the invariant of a record.
LEMMA OldIs ==
  ASSUME TypeOK, AllSound, NEW i \in Slots
  PROVE  task[i] \in Tasks /\ Sound(task[i])
BY DEF TypeOK, AllSound

LEMMA CheckBudgetMoves ==
  ASSUME TypeOK, AllSound, NEW i \in Slots, CheckBudget(i, 1)
  PROVE  \E t : Moves(i, t)
<1>. DEFINE old == task[i]
            t == [old EXCEPT !.pc = "inject"]
<1>1. old \in Tasks /\ Sound(old) /\ old.pc = "budget"
  BY OldIs DEF CheckBudget, At
<1>2. CASE Become(i, Failed(old, <<>>))
  BY <1>1, <1>2, Fails
<1>3. CASE task' = [task EXCEPT ![i] = t]
  <2>1. t \in Tasks
    BY <1>1 DEF Tasks, Places
  <2>2. /\ t.pc = "inject" /\ t.offered = old.offered /\ t.exchanges = old.exchanges
        /\ t.reply = old.reply /\ t.n = old.n /\ t.jobs = old.jobs
        /\ t.sentOf = old.sentOf
    BY <1>1 DEF Tasks
  <2>. HIDE DEF t, old
  <2>3. Sound(t) /\ ~Owes(t)
    BY <1>1, <2>2 DEF Sound, Owes, Undecided, Spent, InHandSound, JobsSound, Early,
       InHand, Streaming, MaxExchanges, NoReply
  <2>4. QED
    BY <1>3, <2>1, <2>3 DEF Moves
<1>4. QED
  BY <1>2, <1>3 DEF CheckBudget, Goto, Become

\* A request is dispatched: it may owe a report from now on, if the breaker of
\* its session allows the synthetic tool.
LEMMA InjectMoves ==
  ASSUME TypeOK, AllSound, NEW i \in Slots, Inject(i)
  PROVE  \E t \in Tasks :
           /\ Sound(t) /\ task' = [task EXCEPT ![i] = t]
           /\ t.sess = task[i].sess
           /\ ~Owes(task[i])
           /\ Owes(t) => t.sess \in Sessions /\ Allowed(t.sess)
<1>. DEFINE old == task[i]
            syn == {x \in {"synthetic"} : SyntheticOn /\ old.sess # NoSession
                                            /\ Allowed(old.sess)}
            rec == {x \in {"recall"} : RecallOn /\ old.sess # NoSession}
            t == [old EXCEPT !.offered = syn \cup rec,
                    !.pc = IF old.req.stream /\ syn = {} THEN "open" ELSE "call"]
<1>1. old \in Tasks /\ Sound(old) /\ old.pc = "inject" /\ task' = [task EXCEPT ![i] = t]
  BY OldIs DEF Inject, At, Become
<1>2. syn \cup rec \subseteq Internal
  BY DEF Internal
<1>3. t \in Tasks
  BY <1>1, <1>2 DEF Tasks, Places
<1>4. /\ t.pc = IF old.req.stream /\ syn = {} THEN "open" ELSE "call"
      /\ t.offered = syn \cup rec /\ t.exchanges = old.exchanges
      /\ t.reply = old.reply /\ t.n = old.n /\ t.jobs = old.jobs
      /\ t.sentOf = old.sentOf /\ t.req = old.req /\ t.sess = old.sess
  BY <1>1 DEF Tasks
<1>5. "synthetic" \in t.offered => /\ t.sess # NoSession /\ Allowed(t.sess)
                                   /\ t.pc = "call"
  BY <1>4
<1>6. t.sess \in Sessions \cup {NoSession}
  BY <1>3 DEF Tasks
<1>. HIDE DEF t, old, syn, rec
<1>7. Sound(t)
  BY <1>1, <1>4, <1>5 DEF Sound, Spent, InHandSound, JobsSound, Early, InHand,
     Streaming, MaxExchanges, NoReply
<1>8. QED
  BY <1>1, <1>3, <1>4, <1>5, <1>6, <1>7 DEF Owes, Undecided, old

\* One exchange more, that was answered.
LEMMA AnsweredIs ==
  ASSUME NEW t \in Tasks, NEW r \in Replies
  PROVE  /\ Answered(t, r) \in Tasks
         /\ Answered(t, r).exchanges = t.exchanges + 1
         /\ Answered(t, r).n = t.exchanges + 1
         /\ Answered(t, r).reply = r
         /\ Answered(t, r).pc = t.pc /\ Answered(t, r).offered = t.offered
         /\ Answered(t, r).sess = t.sess /\ Answered(t, r).req = t.req
         /\ Answered(t, r).final = t.final /\ Answered(t, r).raised = t.raised
         /\ Answered(t, r).jobs = t.jobs /\ Answered(t, r).sentOf = t.sentOf
<1>1. t.exchanges + 1 \in Nat
  BY DEF Tasks
<1>2. Answered(t, r) \in Tasks
  BY <1>1 DEF Answered, Tasks
<1>3. /\ Answered(t, r).exchanges = t.exchanges + 1
      /\ Answered(t, r).n = t.exchanges + 1
      /\ Answered(t, r).reply = r
      /\ Answered(t, r).pc = t.pc /\ Answered(t, r).offered = t.offered
  BY DEF Answered, Tasks
<1>4. /\ Answered(t, r).sess = t.sess /\ Answered(t, r).req = t.req
      /\ Answered(t, r).final = t.final /\ Answered(t, r).raised = t.raised
      /\ Answered(t, r).jobs = t.jobs /\ Answered(t, r).sentOf = t.sentOf
  BY DEF Answered, Tasks
<1>5. QED
  BY <1>2, <1>3, <1>4

LEMMA UnansweredIs ==
  ASSUME NEW t \in Tasks
  PROVE  /\ Unanswered(t) \in Tasks
         /\ Unanswered(t).exchanges = t.exchanges + 1
         /\ Unanswered(t).n = t.n
         /\ Unanswered(t).reply = t.reply
         /\ Unanswered(t).pc = t.pc /\ Unanswered(t).offered = t.offered
         /\ Unanswered(t).sess = t.sess /\ Unanswered(t).req = t.req
         /\ Unanswered(t).final = t.final /\ Unanswered(t).raised = t.raised
         /\ Unanswered(t).jobs = t.jobs /\ Unanswered(t).sentOf = t.sentOf
BY DEF Unanswered, Tasks

\* The fields of an answered request that its jobs are about.
LEMMA SentFields ==
  ASSUME NEW t \in Tasks, NEW r \in Replies, NEW k \in Nat, NEW jobs \in Seq(Job)
  PROVE  /\ Sent(t, r, k, jobs).pc = "jobs"
         /\ Sent(t, r, k, jobs).req = t.req
         /\ Sent(t, r, k, jobs).offered = t.offered
         /\ Sent(t, r, k, jobs).raised = t.raised
         /\ Sent(t, r, k, jobs).sent = r
         /\ Sent(t, r, k, jobs).sentOf = k
         /\ Sent(t, r, k, jobs).jobs = jobs
BY Constants DEF Sent, Tasks

LEMMA JobsAre ==
  ASSUME NEW k \in Nat
  PROVE  /\ <<>> \in Seq(Job) /\ <<Trace>> \in Seq(Job)
         /\ <<Extraction(k)>> \in Seq(Job)
         /\ <<Extraction(k), Trace>> \in Seq(Job)
<1>1. Trace \in Job /\ Extraction(k) \in Job
  BY DEF Job, Trace, Extraction
<1>2. QED
  BY <1>1

\* Upstream's reply goes to a client that no tool was injected for.
LEMMA PassMoves ==
  ASSUME TypeOK, AllSound, NEW i \in Slots, PassSingle(i) \/ PassStream(i)
  PROVE  \E t : Moves(i, t)
<1>. DEFINE old == task[i]
<1>1. old \in Tasks /\ Sound(old) /\ old.pc = "passthrough"
  BY OldIs DEF PassSingle, PassStream, At
<1>2. CASE \E jobs \in {<<>>, <<Trace>>} : Become(i, Failed(old, jobs))
  BY <1>1, <1>2, Fails
<1>3. CASE \E jobs \in {<<>>, <<Trace>>}, r \in Offers(old) \cup HttpErrors :
             Become(i, Sent(Answered(old, r), r, Answered(old, r).n, jobs))
  <2>1. PICK jobs \in {<<>>, <<Trace>>}, r \in Offers(old) \cup HttpErrors :
          Become(i, Sent(Answered(old, r), r, Answered(old, r).n, jobs))
    BY <1>3
  <2>2. r \in Replies
    BY OffersAre, Constants
  <2>3. Answered(old, r) \in Tasks /\ Answered(old, r).n \in Nat
        /\ Answered(old, r).offered = {}
    BY <1>1, <2>2, AnsweredIs DEF Sound, Early, Tasks
  <2>4. jobs \in Seq(Job)
    BY JobsAre
  <2>5. JobsSound(Sent(Answered(old, r), r, Answered(old, r).n, jobs))
    BY <2>2, <2>3, <2>4, SentFields DEF JobsSound
  <2>6. QED
    BY <2>1, <2>2, <2>3, <2>4, <2>5, AnsweredClient
<1>4. QED
  BY <1>2, <1>3 DEF PassSingle, PassStream

LEMMA CallMoves ==
  ASSUME TypeOK, AllSound, NEW i \in Slots, Call(i)
  PROVE  \E t : Moves(i, t)
<1>. DEFINE old == task[i]
<1>1. old \in Tasks /\ Sound(old) /\ old.pc = "call"
  BY OldIs DEF Call, At
<1>2. CASE Become(i, Failed(old, <<>>))
  BY <1>1, <1>2, Fails
<1>3. CASE \E r \in Offers(old) \cup HttpErrors :
             Become(i, [Answered(old, r) EXCEPT !.pc = "leak"])
  <2>1. PICK r \in Offers(old) \cup HttpErrors :
          Become(i, [Answered(old, r) EXCEPT !.pc = "leak"])
    BY <1>3
  <2>. DEFINE mid == Answered(old, r)
              t   == [mid EXCEPT !.pc = "leak"]
  <2>2. r \in Replies /\ r.calls \cap Internal \subseteq old.offered
        /\ (r.odd => r.calls = {})
    BY OffersAre, Constants
  <2>3. /\ mid \in Tasks /\ mid.exchanges = 1 /\ mid.n = 1 /\ mid.reply = r
        /\ mid.offered = old.offered /\ mid.sess = old.sess /\ mid.jobs = old.jobs
        /\ mid.sentOf = old.sentOf
    BY <1>1, <2>2, AnsweredIs DEF Sound, Spent, Early
  <2>. HIDE DEF mid
  <2>4. t \in Tasks
    BY <2>3 DEF Tasks, Places
  <2>5. /\ t.pc = "leak" /\ t.exchanges = 1 /\ t.n = 1 /\ t.reply = r
        /\ t.offered = old.offered /\ t.sess = old.sess /\ t.jobs = old.jobs
        /\ t.sentOf = old.sentOf
    BY <2>3 DEF Tasks
  <2>6. task' = [task EXCEPT ![i] = t]
    BY <2>1 DEF mid, Become
  <2>. HIDE DEF t, old
  <2>7. Sound(t)
    BY <1>1, <2>2, <2>5 DEF Sound, Spent, InHandSound, JobsSound, Early, InHand,
       Streaming, MaxExchanges
  <2>8. QED
    BY <1>1, <2>4, <2>5, <2>6, <2>7 DEF Moves, Owes, Undecided, old
<1>4. QED
  BY <1>2, <1>3 DEF Call

\* What a record keeps until the client is answered.
Same(t, u) ==
  /\ t.req = u.req /\ t.sess = u.sess /\ t.offered = u.offered
  /\ t.jobs = u.jobs /\ t.sentOf = u.sentOf

\* Slot i goes on at another place, with the answer it has.
LEMMA GotoIs ==
  ASSUME TypeOK, AllSound, NEW i \in Slots, NEW where \in Places, Goto(i, where)
  PROVE  \E t \in Tasks :
           /\ task' = [task EXCEPT ![i] = t]
           /\ t.pc = where /\ Same(t, task[i])
           /\ t.exchanges = task[i].exchanges /\ t.n = task[i].n
           /\ t.reply = task[i].reply /\ t.final = task[i].final
           /\ t.raised = task[i].raised
<1>. DEFINE old == task[i]
            t == [old EXCEPT !.pc = where]
<1>1. old \in Tasks
  BY OldIs
<1>2. t \in Tasks
  BY <1>1 DEF Tasks
<1>3. t.pc = where /\ Same(t, old) /\ t.exchanges = old.exchanges /\ t.n = old.n
      /\ t.reply = old.reply /\ t.final = old.final /\ t.raised = old.raised
  BY <1>1 DEF Tasks, Same
<1>4. task' = [task EXCEPT ![i] = t]
  BY DEF Goto, Become
<1>5. QED
  BY <1>2, <1>3, <1>4

LEMMA RefuseLeakMoves ==
  ASSUME TypeOK, AllSound, NEW i \in Slots, RefuseLeak(i)
  PROVE  \E t : Moves(i, t)
<1>. DEFINE old   == task[i]
            retry == [old EXCEPT !.exchanges = @ + 1, !.pc = "recall"]
<1>1. old \in Tasks /\ Sound(old) /\ old.pc = "leak"
  BY OldIs DEF RefuseLeak, At
<1>2. CASE Goto(i, "recall")
  <2>1. PICK t \in Tasks :
          /\ task' = [task EXCEPT ![i] = t]
          /\ t.pc = "recall" /\ Same(t, old)
          /\ t.exchanges = old.exchanges /\ t.n = old.n /\ t.reply = old.reply
    BY <1>2, GotoIs DEF Places
  <2>. HIDE DEF old
  <2>2. Sound(t)
    BY <1>1, <2>1 DEF Sound, Spent, InHandSound, JobsSound, Early, InHand,
       Streaming, MaxExchanges, Same
  <2>3. QED
    BY <1>1, <2>1, <2>2 DEF Moves, Owes, Undecided, Same, old
<1>3. CASE ~Goto(i, "recall")
  <2>1. /\ old.offered = {}
        /\ \/ \E a \in Offers(retry) :
                Become(i, [retry EXCEPT
                  !.reply = IF a.text = "markup" THEN [a EXCEPT !.text = "plain"] ELSE a,
                  !.n = retry.exchanges])
           \/ Become(i, [retry EXCEPT !.reply.text = "plain"])
    BY <1>3 DEF RefuseLeak
  <2>2. /\ retry \in Tasks /\ retry.pc = "recall" /\ Same(retry, old)
        /\ retry.exchanges = 2 /\ retry.n = 1 /\ retry.reply = old.reply
    <3>1. old.exchanges = 1 /\ old.n = 1
      BY <1>1 DEF Sound, Spent, InHandSound
    <3>2. old.exchanges + 1 \in Nat /\ "recall" \in Places
      BY <3>1 DEF Places
    <3>5. retry \in Tasks
      BY <1>1, <3>2 DEF Tasks
    <3>3. /\ retry.pc = "recall" /\ Same(retry, old) /\ retry.exchanges = old.exchanges + 1
          /\ retry.n = old.n /\ retry.reply = old.reply
      BY <1>1 DEF Tasks, Same
    <3>4. QED
      BY <3>1, <3>3, <3>5
  <2>. HIDE DEF retry
  <2>3. ASSUME NEW t \in Tasks, t.pc = "recall", Same(t, old), t.exchanges = 2,
               t.n \in {1, 2}, t.reply.calls \cap Internal = {},
               t.reply.odd => t.reply.calls = {}
        PROVE  Sound(t) /\ ~Owes(t)
    <3>1. t.offered = {} /\ t.jobs = <<>> /\ t.sentOf = 0
      BY <1>1, <2>1, <2>3 DEF Same, Sound, JobsSound
    <3>2. Spent(t) /\ InHandSound(t)
      BY <2>3, <3>1 DEF Spent, InHandSound, Early, InHand, Streaming, MaxExchanges
    <3>3. QED
      BY <2>3, <3>1, <3>2 DEF Sound, JobsSound, Early, Owes
  <2>4. CASE Become(i, [retry EXCEPT !.reply.text = "plain"])
    <3>. DEFINE t == [retry EXCEPT !.reply.text = "plain"]
    <3>1. retry.reply \in Replies
      BY <2>2 DEF Tasks
    <3>2. t \in Tasks /\ t.pc = "recall" /\ Same(t, retry) /\ t.exchanges = 2 /\ t.n = 1
      BY <2>2, <3>1 DEF Tasks, Same, Replies
    <3>3. t.reply.calls = old.reply.calls /\ t.reply.odd = old.reply.odd
      BY <2>2, <3>1 DEF Tasks, Replies
    <3>4. task' = [task EXCEPT ![i] = t]
      BY <2>4 DEF Become
    <3>. HIDE DEF t, old
    <3>5. Same(t, old) /\ t.reply.calls \cap Internal = {}
          /\ (t.reply.odd => t.reply.calls = {})
      BY <1>1, <2>1, <2>2, <3>2, <3>3 DEF Same, Sound, InHandSound
    <3>6. QED
      BY <2>3, <3>2, <3>4, <3>5 DEF Moves
  <2>5. ASSUME NEW a \in Offers(retry),
               Become(i, [retry EXCEPT
                 !.reply = IF a.text = "markup" THEN [a EXCEPT !.text = "plain"] ELSE a,
                 !.n = retry.exchanges])
        PROVE  \E t : Moves(i, t)
    <3>. DEFINE r == IF a.text = "markup" THEN [a EXCEPT !.text = "plain"] ELSE a
                t == [retry EXCEPT !.reply = r, !.n = retry.exchanges]
    <3>1. a \in Replies /\ a.calls \cap Internal \subseteq retry.offered
          /\ (a.odd => a.calls = {})
      BY OffersAre
    <3>2. r \in Replies /\ r.calls = a.calls /\ r.odd = a.odd
      BY <3>1 DEF Replies
    <3>. HIDE DEF r
    <3>3. t \in Tasks /\ t.pc = "recall" /\ Same(t, retry) /\ t.exchanges = 2 /\ t.n = 2
          /\ t.reply = r
      BY <2>2, <3>2 DEF Tasks, Same
    <3>4. task' = [task EXCEPT ![i] = t]
      BY <2>5 DEF Become, r
    <3>. HIDE DEF t, old
    <3>5. Same(t, old) /\ t.reply.calls \cap Internal = {}
          /\ (t.reply.odd => t.reply.calls = {})
      BY <2>1, <2>2, <3>1, <3>2, <3>3 DEF Same
    <3>6. QED
      BY <2>3, <3>3, <3>4, <3>5 DEF Moves
  <2>6. QED
    BY <2>1, <2>4, <2>5
<1>4. QED
  BY <1>2, <1>3

LEMMA RecallMoves ==
  ASSUME TypeOK, AllSound, NEW i \in Slots, Recall(i)
  PROVE  \E t : Moves(i, t)
<1>. DEFINE old == task[i]
<1>1. old \in Tasks /\ Sound(old) /\ old.pc = "recall"
  BY OldIs DEF Recall, At
<1>2. PICK next \in {"synthetic", "resend"} :
        /\ Goto(i, next)
        /\ next = "resend" => "recall" \in old.offered \cap old.reply.calls
  BY DEF Recall
<1>3. PICK t \in Tasks :
        /\ task' = [task EXCEPT ![i] = t]
        /\ t.pc = next /\ Same(t, old)
        /\ t.exchanges = old.exchanges /\ t.n = old.n /\ t.reply = old.reply
  BY <1>2, GotoIs DEF Places
<1>. HIDE DEF old
<1>4. Sound(t)
  BY <1>1, <1>2, <1>3 DEF Sound, Spent, InHandSound, JobsSound, Early, InHand,
     Streaming, MaxExchanges, Same
<1>5. QED
  BY <1>1, <1>3, <1>4 DEF Moves, Owes, Undecided, Same, old

\* A final answer in place of the first one.
LEMMA FinalIs ==
  ASSUME NEW t \in Tasks, NEW r \in Replies, NEW k \in Nat
  PROVE  /\ Final(t, r, k) \in Tasks /\ Final(t, r, k).pc = "reply"
         /\ Final(t, r, k).exchanges = t.exchanges /\ Final(t, r, k).n = k
         /\ Final(t, r, k).reply = r /\ Final(t, r, k).final
         /\ Final(t, r, k).raised = t.raised /\ Same(Final(t, r, k), t)
<1>1. Final(t, r, k) \in Tasks
  BY DEF Final, Tasks, Places
<1>2. QED
  BY <1>1 DEF Final, Tasks, Same

\* A final answer is sound whatever it calls of the tools that were offered.
LEMMA FinalMoves ==
  ASSUME TypeOK, AllSound, NEW i \in Slots, task[i].pc \in InHand,
         NEW t \in Tasks, Same(t, task[i]), t.exchanges \in 1..MaxExchanges,
         NEW r \in Replies, r.calls \cap Internal \subseteq task[i].offered,
         r.odd => r.calls = {}, NEW k \in 1..t.exchanges,
         Become(i, Final(t, r, k))
  PROVE  Moves(i, Final(t, r, k)) /\ ~Owes(Final(t, r, k))
<1>. DEFINE old == task[i]
            u == Final(t, r, k)
<1>1. old \in Tasks /\ Sound(old) /\ old.pc \in InHand
  BY OldIs
<1>2. /\ u \in Tasks /\ u.pc = "reply" /\ u.exchanges = t.exchanges /\ u.n = k
      /\ u.reply = r /\ u.final /\ Same(u, t)
  BY FinalIs DEF MaxExchanges
<1>3. task' = [task EXCEPT ![i] = u]
  BY DEF Become
<1>. HIDE DEF u, old
<1>4. Same(u, old)
  BY <1>2 DEF Same, old
<1>5. Spent(u)
  BY <1>2 DEF Spent, Early, MaxExchanges
<1>6. InHandSound(u)
  BY <1>2, <1>4 DEF InHandSound, Same, InHand, Streaming, old
<1>7. JobsSound(u)
  BY <1>1, <1>2, <1>4 DEF JobsSound, Same, Sound, InHand
<1>8. "synthetic" \in u.offered => u.sess # NoSession
  BY <1>1, <1>4 DEF Same, Sound, InHand
<1>9. Sound(u) /\ ~Owes(u)
  BY <1>2, <1>5, <1>6, <1>7, <1>8 DEF Sound, Early, Owes, Undecided
<1>10. Moves(i, u) /\ ~Owes(u)
  BY <1>2, <1>3, <1>9 DEF Moves
<1>11. QED
  BY <1>10 DEF u

\* One more exchange, and on to another place with the answer as it was.
LEMMA OneMore ==
  ASSUME NEW t \in Tasks, NEW where \in Places
  PROVE  /\ [Unanswered(t) EXCEPT !.pc = where] \in Tasks
         /\ [Unanswered(t) EXCEPT !.pc = where].pc = where
         /\ Same([Unanswered(t) EXCEPT !.pc = where], t)
         /\ [Unanswered(t) EXCEPT !.pc = where].exchanges = t.exchanges + 1
         /\ [Unanswered(t) EXCEPT !.pc = where].n = t.n
         /\ [Unanswered(t) EXCEPT !.pc = where].reply = t.reply
         /\ [Unanswered(t) EXCEPT !.pc = where].final = t.final
         /\ [Unanswered(t) EXCEPT !.pc = where].raised = t.raised
<1>. DEFINE m == Unanswered(t)
<1>1. /\ m \in Tasks /\ m.exchanges = t.exchanges + 1 /\ m.n = t.n /\ m.reply = t.reply
      /\ m.final = t.final /\ m.raised = t.raised /\ Same(m, t)
  BY UnansweredIs DEF Same
<1>. HIDE DEF m
<1>2. /\ [m EXCEPT !.pc = where] \in Tasks /\ [m EXCEPT !.pc = where].pc = where
      /\ Same([m EXCEPT !.pc = where], m)
      /\ [m EXCEPT !.pc = where].exchanges = m.exchanges
      /\ [m EXCEPT !.pc = where].n = m.n
      /\ [m EXCEPT !.pc = where].reply = m.reply
      /\ [m EXCEPT !.pc = where].final = m.final
      /\ [m EXCEPT !.pc = where].raised = m.raised
  BY <1>1 DEF Tasks, Same
<1>3. QED
  BY <1>1, <1>2 DEF Same, m

LEMMA RecallResendMoves ==
  ASSUME TypeOK, AllSound, NEW i \in Slots, RecallResend(i)
  PROVE  \E t : Moves(i, t)
<1>. DEFINE old == task[i]
            mid == Unanswered(old)
<1>1. old \in Tasks /\ Sound(old) /\ old.pc \in {"resend", "resend2"}
  BY OldIs DEF RecallResend
<1>2. /\ old.exchanges \in {1, 2} /\ (old.pc = "resend" => old.exchanges = 1)
      /\ "recall" \in old.offered /\ "recall" \in old.reply.calls
      /\ old.jobs = <<>> /\ old.sentOf = 0 /\ old.n \in 1..old.exchanges
      /\ ("synthetic" \in old.offered => old.sess # NoSession)
      /\ old.reply.calls \cap Internal \subseteq old.offered
      /\ (old.reply.odd => old.reply.calls = {})
  <2>. HIDE DEF old
  <2>1. QED
    BY <1>1 DEF Sound, Spent, InHandSound, JobsSound, InHand
<1>3. /\ mid \in Tasks /\ mid.exchanges = old.exchanges + 1 /\ mid.offered = old.offered
      /\ Same(mid, old)
  BY <1>1, UnansweredIs DEF Same
<1>4. ASSUME NEW where \in {"synthetic", "resend2"},
             where = "resend2" => old.pc = "resend",
             Become(i, [mid EXCEPT !.pc = where])
      PROVE  \E t : Moves(i, t)
  <2>. DEFINE t == [mid EXCEPT !.pc = where]
  <2>1. where \in Places
    BY DEF Places
  <2>2. /\ t \in Tasks /\ t.pc = where /\ Same(t, old) /\ t.exchanges = old.exchanges + 1
        /\ t.n = old.n /\ t.reply = old.reply
    BY <1>1, <2>1, OneMore
  <2>3. task' = [task EXCEPT ![i] = t]
    BY <1>4 DEF Become
  <2>. HIDE DEF t, old, mid
  <2>4. Spent(t)
    BY <1>2, <1>4, <2>2 DEF Spent, Early, MaxExchanges
  <2>5. t.n \in 1..t.exchanges
    BY <1>2, <2>2
  <2>6. InHandSound(t)
    BY <1>2, <1>4, <2>2, <2>5 DEF InHandSound, Streaming, InHand, Same
  <2>7. JobsSound(t)
    BY <1>2, <1>4, <2>2 DEF JobsSound, Same
  <2>8. Sound(t)
    BY <1>2, <1>4, <2>2, <2>4, <2>6, <2>7 DEF Sound, Early, Same
  <2>9. QED
    BY <1>1, <2>2, <2>3, <2>8 DEF Moves, Owes, Undecided, Same, old
<1>5. ASSUME NEW a \in Offers(mid), ~a.odd,
             Become(i, Final(mid, Without(a, {"recall"}), mid.exchanges))
      PROVE  \E t : Moves(i, t)
  <2>1. a \in Replies /\ a.calls \cap Internal \subseteq mid.offered
    BY OffersAre
  <2>. DEFINE r == Without(a, {"recall"})
  <2>2. r \in Replies /\ r.calls \cap Internal \subseteq old.offered /\ ~r.odd
    BY <1>3, <1>5, <2>1, WithoutIs
  <2>3. mid.exchanges \in 1..MaxExchanges /\ mid.exchanges \in 1..mid.exchanges
        /\ old.pc \in InHand
    BY <1>1, <1>2, <1>3 DEF MaxExchanges, InHand
  <2>. HIDE DEF r, mid
  <2>4. Moves(i, Final(mid, r, mid.exchanges))
    BY <1>3, <1>5, <2>2, <2>3, FinalMoves DEF r
  <2>5. QED
    BY <2>4
<1>6. QED
  BY <1>1, <1>4, <1>5 DEF RecallResend, At

\* What slot i does to the breaker besides: nothing, a success, or the failure
\* that it owes no longer.
Reports(i, t) ==
  \/ UNCHANGED breakerVars
  \/ task[i].sess \in Sessions /\ Success(task[i].sess)
  \/ task[i].sess \in Sessions /\ Owes(task[i]) /\ ~Owes(t) /\ Failure(task[i].sess)

\* The interception raised.
LEMMA RaisedMoves ==
  ASSUME TypeOK, AllSound, NEW i \in Slots,
         task[i].pc \in {"synthetic", "synresend"},
         NEW m \in Tasks, Same(m, task[i]), m.n = task[i].n, m.reply = task[i].reply,
         \/ m.exchanges = task[i].exchanges
         \/ m.exchanges = 2 /\ task[i].exchanges = 1,
         Become(i, [m EXCEPT !.pc = "read", !.raised = TRUE])
  PROVE  \E t : Moves(i, t) /\ ~Owes(t)
<1>. DEFINE old == task[i]
            t == [m EXCEPT !.pc = "read", !.raised = TRUE]
<1>1. old \in Tasks /\ Sound(old)
  BY OldIs
<1>2. /\ t \in Tasks /\ t.pc = "read" /\ t.raised /\ Same(t, m)
      /\ t.exchanges = m.exchanges /\ t.n = m.n /\ t.reply = m.reply
  BY DEF Tasks, Places, Same
<1>3. task' = [task EXCEPT ![i] = t]
  BY DEF Become
<1>4. old.exchanges \in Nat /\ t.exchanges \in Nat /\ old.n \in Nat
  BY <1>1, <1>2 DEF Tasks
<1>. HIDE DEF t, old
<1>5. Same(t, old) /\ t.n = old.n /\ t.reply = old.reply /\ old.pc \in InHand
      /\ old.pc \in {"synthetic", "synresend"}
      /\ (t.exchanges = old.exchanges \/ (t.exchanges = 2 /\ old.exchanges = 1))
  BY <1>2 DEF Same, old, InHand
<1>6. old.n \in 1..old.exchanges
  BY <1>1, <1>5 DEF Sound, InHandSound
<1>7. Spent(t)
  BY <1>1, <1>2, <1>4, <1>5 DEF Spent, Sound, Early, MaxExchanges
<1>8. t.n \in 1..t.exchanges
  BY <1>4, <1>5, <1>6
<1>9. InHandSound(t)
  BY <1>1, <1>2, <1>5, <1>8 DEF InHandSound, Sound, Same, Streaming
<1>10. JobsSound(t)
  BY <1>1, <1>2, <1>5 DEF JobsSound, Sound, Same
<1>11. Sound(t)
  BY <1>1, <1>2, <1>5, <1>7, <1>9, <1>10 DEF Sound, Same, Early
<1>12. QED
  BY <1>2, <1>3, <1>11 DEF Moves, Owes, Undecided

LEMMA SyntheticMoves ==
  ASSUME TypeOK, AllSound, NEW i \in Slots, Synthetic(i)
  PROVE  \E t : Moves(i, t) /\ Reports(i, t)
<1>. DEFINE old == task[i]
<1>1. old \in Tasks /\ Sound(old) /\ old.pc = "synthetic"
  BY OldIs DEF Synthetic, At
<1>2. /\ old.exchanges \in 1..MaxExchanges /\ old.n \in 1..old.exchanges
      /\ ("synthetic" \in old.offered => old.sess \in Sessions)
      /\ old.reply.calls \cap Internal \subseteq old.offered
      /\ (old.reply.odd => old.reply.calls = {})
      /\ old.reply \in Replies /\ old.exchanges \in Nat
  <2>1. old.sess \in Sessions \cup {NoSession} /\ old.reply \in Replies
        /\ old.exchanges \in Nat
    BY <1>1 DEF Tasks
  <2>. HIDE DEF old
  <2>2. QED
    BY <1>1, <2>1 DEF Sound, Spent, InHandSound, InHand, MaxExchanges
<1>3. ASSUME NEW where \in {"reply", "read", "synresend"},
             Goto(i, where), UNCHANGED breakerVars,
             where # "synresend" => "synthetic" \notin old.reply.calls,
             where = "synresend" => "synthetic" \in old.offered
                                    /\ old.reply.calls = {"synthetic"}
      PROVE  \E t : Moves(i, t) /\ Reports(i, t)
  <2>1. PICK t \in Tasks :
          /\ task' = [task EXCEPT ![i] = t]
          /\ t.pc = where /\ Same(t, old)
          /\ t.exchanges = old.exchanges /\ t.n = old.n /\ t.reply = old.reply
    BY <1>3, GotoIs DEF Places
  <2>. HIDE DEF old
  <2>2. Spent(t)
    BY <1>1, <1>2, <1>3, <2>1 DEF Spent, Sound, Early, MaxExchanges, Same
  <2>3. InHandSound(t)
    BY <1>2, <1>3, <2>1 DEF InHandSound, Streaming, Same
  <2>4. JobsSound(t)
    BY <1>1, <1>3, <2>1 DEF JobsSound, Sound, Same
  <2>5. Sound(t)
    BY <1>1, <1>2, <1>3, <2>1, <2>2, <2>3, <2>4 DEF Sound, Early, Same
  <2>6. QED
    BY <1>1, <1>3, <2>1, <2>5 DEF Moves, Reports, Owes, Undecided, Same, old
<1>4. CASE /\ Become(i, [old EXCEPT !.pc = "read", !.raised = TRUE])
           /\ Failure(old.sess) /\ "synthetic" \in old.offered
  <2>1. PICK t : Moves(i, t) /\ ~Owes(t)
    BY <1>1, <1>4, RaisedMoves DEF Same
  <2>2. Owes(old)
    BY <1>1, <1>4 DEF Owes, Undecided
  <2>3. QED
    BY <1>2, <1>4, <2>1, <2>2 DEF Reports
<1>5. CASE /\ Become(i, Final(old, Without(old.reply, {"synthetic"}), old.n))
           /\ Success(old.sess) /\ "synthetic" \in old.offered
  <2>. DEFINE r == Without(old.reply, {"synthetic"})
  <2>1. r \in Replies /\ r.calls \cap Internal \subseteq old.offered
        /\ (r.odd => r.calls = {})
    BY <1>2, WithoutIs
  <2>2. old.pc \in InHand /\ Same(old, old)
    BY <1>1 DEF InHand, Same
  <2>. HIDE DEF r
  <2>3. Moves(i, Final(old, r, old.n))
    BY <1>1, <1>2, <1>5, <2>1, <2>2, FinalMoves DEF r
  <2>4. QED
    BY <1>2, <1>5, <2>3 DEF Reports
<1>6. QED
  <2>1. CASE "synthetic" \notin old.offered
    <3>1. Goto(i, "reply") /\ UNCHANGED breakerVars /\ "synthetic" \notin old.reply.calls
      BY <1>2, <2>1 DEF Synthetic, Internal
    <3>2. QED
      BY <1>3, <3>1
  <2>2. CASE "synthetic" \in old.offered /\ old.reply.odd
    BY <1>4, <2>2 DEF Synthetic
  <2>3. CASE "synthetic" \in old.offered /\ ~old.reply.odd
    BY <1>3, <1>5, <2>3 DEF Synthetic
  <2>4. QED
    BY <2>1, <2>2, <2>3

LEMMA SyntheticResendMoves ==
  ASSUME TypeOK, AllSound, NEW i \in Slots, SyntheticResend(i)
  PROVE  \E t : Moves(i, t) /\ Reports(i, t)
<1>. DEFINE old == task[i]
            mid == Unanswered(old)
<1>1. old \in Tasks /\ Sound(old) /\ old.pc = "synresend"
  BY OldIs DEF SyntheticResend, At
<1>2. /\ old.exchanges = 1 /\ old.n = 1 /\ "synthetic" \in old.offered
      /\ old.sess \in Sessions /\ old.reply.calls = {"synthetic"}
      /\ ~old.reply.odd /\ old.reply \in Replies
  <2>1. old.sess \in Sessions \cup {NoSession} /\ old.reply \in Replies
        /\ old.exchanges \in Nat
    BY <1>1 DEF Tasks
  <2>. HIDE DEF old
  <2>2. old.exchanges = 1 /\ old.n \in 1..old.exchanges
    BY <1>1 DEF Sound, Spent, InHandSound, InHand
  <2>3. QED
    BY <1>1, <2>1, <2>2 DEF Sound, InHandSound
<1>3. /\ mid \in Tasks /\ mid.exchanges = 2 /\ mid.offered = old.offered
      /\ Same(mid, old) /\ mid.n = old.n /\ mid.reply = old.reply
  BY <1>1, <1>2, UnansweredIs DEF Same
<1>4. Owes(old) /\ old.pc \in InHand
  BY <1>1, <1>2 DEF Owes, Undecided, InHand
<1>5. ASSUME NEW r \in Replies, r.calls \cap Internal \subseteq old.offered,
             r.odd => r.calls = {}, NEW k \in {1, 2}, Become(i, Final(mid, r, k)),
             Success(old.sess) \/ Failure(old.sess)
      PROVE  \E t : Moves(i, t) /\ Reports(i, t)
  <2>1. k \in 1..mid.exchanges /\ mid.exchanges \in 1..MaxExchanges
    BY <1>3 DEF MaxExchanges
  <2>. HIDE DEF mid
  <2>2. Moves(i, Final(mid, r, k)) /\ ~Owes(Final(mid, r, k))
    BY <1>3, <1>4, <1>5, <2>1, FinalMoves
  <2>3. QED
    BY <1>2, <1>4, <1>5, <2>2 DEF Reports
<1>6. CASE /\ \E a \in Offers(mid) :
                Become(i, Final(mid, Without(a, {"synthetic"}), mid.exchanges))
           /\ Success(old.sess)
  <2>1. PICK a \in Offers(mid) :
          Become(i, Final(mid, Without(a, {"synthetic"}), mid.exchanges))
    BY <1>6
  <2>2. a \in Replies /\ a.calls \cap Internal \subseteq mid.offered
        /\ (a.odd => a.calls = {})
    BY OffersAre
  <2>. DEFINE r == Without(a, {"synthetic"})
  <2>3. r \in Replies /\ r.calls \cap Internal \subseteq old.offered
        /\ (r.odd => r.calls = {})
    BY <1>3, <2>2, WithoutIs
  <2>4. Become(i, Final(mid, r, 2))
    BY <1>3, <2>1
  <2>. HIDE DEF r, mid, old
  <2>5. QED
    BY <1>5, <1>6, <2>3, <2>4 DEF mid, old
<1>7. CASE /\ Become(i, Final(mid, [Without(mid.reply, {"synthetic"}) EXCEPT
                                     !.text = IF @ = "none" THEN "plain" ELSE @],
                              mid.n))
           /\ Failure(old.sess)
  <2>. DEFINE w == Without(mid.reply, {"synthetic"})
              r == [w EXCEPT !.text = IF @ = "none" THEN "plain" ELSE @]
  <2>1. w \in Replies /\ w.calls = {}
    BY <1>2, <1>3, WithoutIs
  <2>. HIDE DEF w
  <2>2. r \in Replies /\ r.calls = {}
    BY <2>1 DEF Replies
  <2>3. Become(i, Final(mid, r, 1))
    BY <1>2, <1>3, <1>7 DEF w
  <2>. HIDE DEF r, mid
  <2>4. QED
    BY <1>5, <1>7, <2>2, <2>3
<1>8. CASE /\ Become(i, [mid EXCEPT !.pc = "read", !.raised = TRUE])
           /\ Failure(old.sess)
  <2>. HIDE DEF mid
  <2>1. PICK t : Moves(i, t) /\ ~Owes(t)
    BY <1>1, <1>2, <1>3, <1>8, RaisedMoves
  <2>2. QED
    BY <1>2, <1>4, <1>8, <2>1 DEF Reports
<1>9. mid.sess = old.sess
  BY <1>3 DEF Same
<1>10. QED
  BY <1>6, <1>7, <1>8, <1>9 DEF SyntheticResend

LEMMA ReadMoves ==
  ASSUME TypeOK, AllSound, NEW i \in Slots, Read(i)
  PROVE  \E t : Moves(i, t)
<1>. DEFINE old == task[i]
            mid == Unanswered(old)
<1>1. old \in Tasks /\ Sound(old) /\ old.pc = "read" /\ old.pc \in InHand
  BY OldIs DEF Read, At, InHand
<1>2. /\ old.exchanges \in Nat /\ old.n \in 1..old.exchanges
      /\ old.exchanges <= MaxExchanges
      /\ (old.reply.calls = {"read"} => old.exchanges <= 2)
      /\ (old.reply.odd => old.reply.calls = {})
      /\ old.reply.calls \cap Internal \subseteq old.offered
      /\ (~old.final /\ "synthetic" \in old.reply.calls => old.raised)
      /\ old.jobs = <<>> /\ old.sentOf = 0
      /\ ("synthetic" \in old.offered => old.sess # NoSession)
  <2>1. old.exchanges \in Nat
    BY <1>1 DEF Tasks
  <2>. HIDE DEF old
  <2>2. QED
    BY <1>1, <2>1 DEF Sound, Spent, InHandSound, JobsSound
<1>3. ASSUME NEW t \in Tasks, task' = [task EXCEPT ![i] = t], t.pc = "reply",
             Same(t, old), t.n = old.n, t.reply = old.reply, t.final = old.final,
             t.raised = old.raised,
             t.exchanges = old.exchanges \/ t.exchanges = old.exchanges + 1,
             t.exchanges <= MaxExchanges
      PROVE  \E u : Moves(i, u)
  <2>. HIDE DEF old
  <2>1. t.n \in 1..t.exchanges
    BY <1>2, <1>3
  <2>2. Spent(t)
    BY <1>3 DEF Spent, Early
  <2>3. InHandSound(t)
    BY <1>2, <1>3, <2>1 DEF InHandSound, Streaming, Same
  <2>4. JobsSound(t)
    BY <1>2, <1>3 DEF JobsSound, Same
  <2>5. Sound(t)
    BY <1>2, <1>3, <2>2, <2>3, <2>4 DEF Sound, Early, Same
  <2>6. QED
    BY <1>3, <2>5 DEF Moves, Owes, Undecided
<1>4. CASE Goto(i, "reply")
  <2>1. \E t \in Tasks :
          /\ task' = [task EXCEPT ![i] = t]
          /\ t.pc = "reply" /\ Same(t, task[i])
          /\ t.exchanges = task[i].exchanges /\ t.n = task[i].n
          /\ t.reply = task[i].reply /\ t.final = task[i].final
          /\ t.raised = task[i].raised
    BY <1>4, GotoIs DEF Places
  <2>2. QED
    BY <1>2, <1>3, <2>1
<1>5. CASE old.reply.calls = {"read"} /\ Become(i, [mid EXCEPT !.pc = "reply"])
  <2>. DEFINE t == [mid EXCEPT !.pc = "reply"]
  <2>1. /\ t \in Tasks /\ t.pc = "reply" /\ Same(t, old) /\ t.exchanges = old.exchanges + 1
        /\ t.n = old.n /\ t.reply = old.reply /\ t.final = old.final
        /\ t.raised = old.raised
    <3>1. "reply" \in Places
      BY DEF Places
    <3>. HIDE DEF old
    <3>2. QED
      BY <1>1, <3>1, OneMore
  <2>2. task' = [task EXCEPT ![i] = t]
    BY <1>5 DEF Become
  <2>3. old.exchanges + 1 <= MaxExchanges
    BY <1>2, <1>5 DEF MaxExchanges
  <2>. HIDE DEF t, mid
  <2>4. QED
    BY <1>3, <2>1, <2>2, <2>3
<1>6. ASSUME old.reply.calls = {"read"}, NEW a \in Offers(mid),
             Become(i, Final(mid, a, mid.exchanges))
      PROVE  \E t : Moves(i, t)
  <2>1. a \in Replies /\ a.calls \cap Internal \subseteq mid.offered
        /\ (a.odd => a.calls = {})
    BY OffersAre
  <2>2. /\ mid \in Tasks /\ mid.exchanges = old.exchanges + 1
        /\ mid.offered = old.offered /\ Same(mid, old)
    BY <1>1, UnansweredIs DEF Same
  <2>3. mid.exchanges \in 1..MaxExchanges /\ mid.exchanges \in 1..mid.exchanges
    BY <1>2, <1>6, <2>2 DEF MaxExchanges
  <2>. HIDE DEF mid
  <2>4. Moves(i, Final(mid, a, mid.exchanges))
    BY <1>1, <1>6, <2>1, <2>2, <2>3, FinalMoves
  <2>5. QED
    BY <2>4
<1>7. QED
  BY <1>4, <1>5, <1>6 DEF Read

LEMMA Pair ==
  ASSUME NEW a, NEW b
  PROVE  /\ <<a>> \o <<b>> = <<a, b>>
         /\ Append(<<a>>, b) = <<a, b>> /\ Append(<<>>, b) = <<b>>
<1>. DEFINE S == {a, b}
            s == <<a>> \o <<b>>
            t == Append(<<a>>, b)
            v == Append(<<>>, b)
<1>1. <<>> \in Seq(S) /\ <<a>> \in Seq(S) /\ <<a, b>> \in Seq(S) /\ <<b>> \in Seq(S)
  OBVIOUS
<1>2. s \in Seq(S) /\ Len(s) = Len(<<a>>) + Len(<<b>>)
  BY <1>1, ConcatProperties
<1>3. s[1] = a /\ s[2] = b
  BY <1>1, ConcatProperties
<1>4. t \in Seq(S) /\ Len(t) = 2 /\ t[1] = a /\ t[2] = b
  BY <1>1, AppendProperties
<1>5. Len(s) = 2
  BY <1>2
<1>9. v \in Seq(S) /\ Len(v) = 1 /\ v[1] = b
  BY <1>1, AppendProperties
<1>. HIDE DEF s, t, v, S
<1>6. s = <<a, b>>
  <2>1. \A n \in 1..Len(s) : s[n] = <<a, b>>[n]
    BY <1>3, <1>5
  <2>2. QED
    BY <1>1, <1>2, <1>5, <2>1, SeqEqual
<1>7. t = <<a, b>>
  <2>1. \A n \in 1..Len(t) : t[n] = <<a, b>>[n]
    BY <1>4
  <2>2. QED
    BY <1>1, <1>4, <2>1, SeqEqual
<1>8. v = <<b>>
  <2>1. \A n \in 1..Len(v) : v[n] = <<b>>[n]
    BY <1>9
  <2>2. QED
    BY <1>1, <1>9, <2>1, SeqEqual
<1>10. QED
  BY <1>6, <1>7, <1>8 DEF s, t, v

LEMMA ExtractIs ==
  ASSUME NEW t, NEW r, NEW k
  PROVE  Extract(t, r, k) \o <<Trace>> \in {<<Trace>>, <<Extraction(k), Trace>>}
<1>1. <<>> \o <<Trace>> = <<Trace>>
  OBVIOUS
<1>2. <<Extraction(k)>> \o <<Trace>> = <<Extraction(k), Trace>>
  BY Pair
<1>3. QED
  BY <1>1, <1>2 DEF Extract

LEMMA RespondMoves ==
  ASSUME TypeOK, AllSound, NEW i \in Slots, Respond(i)
  PROVE  \E t : Moves(i, t)
<1>. DEFINE old  == task[i]
            hide == IF old.final THEN Internal ELSE old.offered \cap {"recall"}
            r    == Without(old.reply, hide)
            jobs == Extract(old, old.reply, old.n) \o <<Trace>>
<1>1. old \in Tasks /\ Sound(old) /\ old.pc = "reply"
  BY OldIs DEF Respond, At
<1>2. /\ old.n \in Nat \ {0} /\ old.offered \subseteq Internal
      /\ old.reply \in Replies
      /\ (~old.final /\ "synthetic" \in old.reply.calls => old.raised)
  <2>1. old.exchanges \in Nat /\ old.offered \subseteq Internal /\ old.reply \in Replies
    BY <1>1 DEF Tasks
  <2>. HIDE DEF old
  <2>2. QED
    BY <1>1, <2>1 DEF Sound, InHandSound, InHand
<1>3. jobs \in {<<Trace>>, <<Extraction(old.n), Trace>>}
  BY ExtractIs
<1>4. jobs \in Seq(Job)
  BY <1>2, <1>3, JobsAre
<1>5. r \in Replies /\ r.calls = old.reply.calls \ hide
  BY <1>2, WithoutIs
<1>6. Become(i, Sent(old, r, old.n, jobs))
  BY DEF Respond
<1>7. r.calls \cap old.offered # {} =>
        old.raised /\ r.calls \cap old.offered = {"synthetic"}
  BY <1>2, <1>5 DEF Internal
<1>. HIDE DEF jobs, r, hide
<1>8. JobsSound(Sent(old, r, old.n, jobs))
  BY <1>1, <1>2, <1>3, <1>4, <1>5, <1>7, SentFields DEF JobsSound
<1>9. Moves(i, Sent(old, r, old.n, jobs))
  BY <1>1, <1>2, <1>4, <1>5, <1>6, <1>8, AnsweredClient
<1>10. QED
  BY <1>9

LEMMA OpenMoves ==
  ASSUME TypeOK, AllSound, NEW i \in Slots, Open(i)
  PROVE  \E t : Moves(i, t)
<1>. DEFINE old == task[i]
<1>1. old \in Tasks /\ Sound(old) /\ old.pc = "open"
  BY OldIs DEF Open, At
<1>2. CASE FailStream(i, old)
  BY <1>1, <1>2, Fails DEF FailStream
<1>3. ASSUME NEW a \in Offers(old), Become(i, [Answered(old, a) EXCEPT !.pc = "relay"])
      PROVE  \E t : Moves(i, t)
  <2>. DEFINE mid == Answered(old, a)
              t   == [mid EXCEPT !.pc = "relay"]
  <2>1. a \in Replies /\ a.calls \cap Internal \subseteq old.offered
        /\ (a.odd => a.calls = {})
    BY OffersAre
  <2>2. /\ mid \in Tasks /\ mid.exchanges = 1 /\ mid.n = 1 /\ mid.reply = a
        /\ mid.offered = old.offered /\ mid.sess = old.sess /\ mid.jobs = old.jobs
        /\ mid.sentOf = old.sentOf /\ mid.req = old.req
    BY <1>1, <2>1, AnsweredIs DEF Sound, Spent, Early
  <2>. HIDE DEF mid
  <2>3. t \in Tasks
    BY <2>2 DEF Tasks, Places
  <2>4. /\ t.pc = "relay" /\ t.exchanges = 1 /\ t.n = 1 /\ t.reply = a
        /\ t.offered = old.offered /\ t.sess = old.sess /\ t.jobs = old.jobs
        /\ t.sentOf = old.sentOf /\ t.req = old.req
    BY <2>2 DEF Tasks
  <2>5. task' = [task EXCEPT ![i] = t]
    BY <1>3 DEF mid, Become
  <2>. HIDE DEF t, old
  <2>6. Sound(t)
    BY <1>1, <2>1, <2>4 DEF Sound, Spent, InHandSound, JobsSound, Early, InHand,
       Streaming, MaxExchanges
  <2>7. QED
    BY <2>3, <2>4, <2>5, <2>6 DEF Moves, Owes, Undecided
<1>4. QED
  BY <1>2, <1>3 DEF Open

\* What a slot relies on while it streams.
LEMMA StreamIs ==
  ASSUME TypeOK, AllSound, NEW i \in Slots, task[i].pc \in {"relay", "again", "again2"}
  PROVE  /\ task[i] \in Tasks /\ Sound(task[i])
         /\ task[i].req.stream /\ "synthetic" \notin task[i].offered
         /\ task[i].offered \subseteq Internal
         /\ task[i].reply \in Replies
         /\ task[i].reply.calls \cap Internal \subseteq task[i].offered
         /\ task[i].exchanges \in 1..2 /\ task[i].n \in 1..task[i].exchanges
         /\ task[i].jobs = <<>> /\ task[i].sentOf = 0
<1>. DEFINE old == task[i]
<1>1. old \in Tasks /\ Sound(old)
  BY OldIs
<1>2. old.offered \subseteq Internal /\ old.reply \in Replies
  BY <1>1 DEF Tasks
<1>. HIDE DEF old
<1>3. old.pc \in {"relay", "again", "again2"}
  BY DEF old
<1>4. old.exchanges \in 1..2
  BY <1>1, <1>3 DEF Sound, Spent
<1>5. old.req.stream /\ "synthetic" \notin old.offered /\ old.n \in 1..old.exchanges
      /\ old.jobs = <<>> /\ old.sentOf = 0
      /\ old.reply.calls \cap Internal \subseteq old.offered
  BY <1>1, <1>3 DEF Sound, InHandSound, JobsSound, Streaming, InHand
<1>6. QED
  BY <1>1, <1>2, <1>4, <1>5 DEF old

LEMMA RelayMoves ==
  ASSUME TypeOK, AllSound, NEW i \in Slots, Relay(i)
  PROVE  \E t : Moves(i, t)
<1>. DEFINE old == task[i]
<1>1. old.pc = "relay"
  BY DEF Relay, At
<1>2. /\ old \in Tasks /\ Sound(old) /\ old.req.stream /\ "synthetic" \notin old.offered
      /\ old.reply \in Replies
  BY <1>1, StreamIs
<1>3. old.n = 1
  <2>. HIDE DEF old
  <2>1. QED
    BY <1>1, <1>2 DEF Sound, InHandSound
<1>4. PICK jobs \in {Extract(old, old.reply, old.n) \o <<Trace>>, <<Trace>>, <<>>} :
        Become(i, Sent(old, old.reply, old.n, jobs))
  BY DEF Relay
<1>5. jobs \in {<<Extraction(1), Trace>>, <<Trace>>, <<>>}
  <2>. HIDE DEF old
  <2>1. Extract(old, old.reply, old.n) \o <<Trace>> \in {<<Trace>>, <<Extraction(1), Trace>>}
    BY <1>3, ExtractIs, Zenon
  <2>2. QED
    BY <2>1
<1>6. jobs \in Seq(Job)
  BY <1>5, JobsAre
<1>. HIDE DEF old
<1>7. JobsSound(Sent(old, old.reply, old.n, jobs))
  BY <1>2, <1>3, <1>5, <1>6, SentFields DEF JobsSound
<1>8. Moves(i, Sent(old, old.reply, old.n, jobs))
  BY <1>2, <1>3, <1>4, <1>6, <1>7, AnsweredClient
<1>9. QED
  BY <1>8

LEMMA HoldBackMoves ==
  ASSUME TypeOK, AllSound, NEW i \in Slots, HoldBack(i)
  PROVE  \E t : Moves(i, t)
<1>. DEFINE old == task[i]
<1>1. old.pc = "relay"
  BY DEF HoldBack, At
<1>2. /\ old \in Tasks /\ Sound(old) /\ old.req.stream /\ "synthetic" \notin old.offered
      /\ old.reply \in Replies
  BY <1>1, StreamIs
<1>3. old.n = 1
  <2>. HIDE DEF old
  <2>1. QED
    BY <1>1, <1>2 DEF Sound, InHandSound
<1>4. CASE FailStream(i, old)
  BY <1>2, <1>4, Fails DEF FailStream
<1>5. CASE Become(i, Sent(old, old.reply, old.n, <<Trace>>))
  <2>1. PICK jobs \in Seq(Job) : jobs = <<Trace>>
    BY JobsAre
  <2>. HIDE DEF old
  <2>. DEFINE u == Sent(old, old.reply, old.n, jobs)
  <2>2. /\ u.pc = "jobs" /\ u.req = old.req /\ u.offered = old.offered
        /\ u.sentOf = old.n /\ u.jobs = jobs
    <3>1. old.n \in Nat
      BY <1>3
    <3>2. QED
      BY <1>2, <3>1, SentFields
  <2>. HIDE DEF u
  <2>5. JobsSound(u)
    BY <1>2, <1>3, <2>1, <2>2 DEF JobsSound
  <2>3. Moves(i, Sent(old, old.reply, old.n, jobs))
    BY <1>2, <1>3, <1>5, <2>1, <2>5, AnsweredClient DEF u
  <2>4. QED
    BY <2>3
<1>6. CASE Goto(i, "again")
  <2>1. PICK t \in Tasks :
          /\ task' = [task EXCEPT ![i] = t]
          /\ t.pc = "again" /\ Same(t, old)
          /\ t.exchanges = old.exchanges /\ t.n = old.n /\ t.reply = old.reply
    BY <1>6, GotoIs DEF Places
  <2>. HIDE DEF old
  <2>2. Sound(t)
    BY <1>1, <1>2, <2>1 DEF Sound, Spent, InHandSound, JobsSound, Early, InHand,
       Streaming, MaxExchanges, Same
  <2>3. QED
    BY <2>1, <2>2 DEF Moves, Owes, Undecided
<1>7. QED
  BY <1>4, <1>5, <1>6 DEF HoldBack

LEMMA SendMoves ==
  ASSUME NEW i \in Slots, NEW t \in Tasks, "synthetic" \notin t.offered,
         NEW r \in Replies, NEW k \in Nat \ {0}, SendAsStream(i, t, r, k)
  PROVE  \E u : Moves(i, u)
<1>. DEFINE shown == Without(r, {"recall"})
            facts == IF shown.text # "none" \/ shown.calls # {}
                       THEN <<Extraction(k)>> ELSE <<>>
<1>1. PICK jobs \in {Append(facts, Trace), <<Trace>>, <<>>} :
        Become(i, Sent(t, shown, k, jobs))
  BY DEF SendAsStream
<1>2. Append(<<>>, Trace) = <<Trace>>
      /\ Append(<<Extraction(k)>>, Trace) = <<Extraction(k), Trace>>
  BY Pair
<1>3. jobs \in {<<Extraction(k), Trace>>, <<Trace>>, <<>>}
  BY <1>1, <1>2
<1>4. jobs \in Seq(Job)
  BY <1>3, JobsAre
<1>5. shown \in Replies /\ shown.calls = r.calls \ {"recall"}
  BY WithoutIs
<1>6. t.offered \subseteq Internal
  BY DEF Tasks
<1>7. shown.calls \cap t.offered = {}
  BY <1>5, <1>6 DEF Internal
<1>. HIDE DEF shown, facts
<1>8. JobsSound(Sent(t, shown, k, jobs))
  BY <1>3, <1>4, <1>5, <1>7, SentFields DEF JobsSound
<1>9. Moves(i, Sent(t, shown, k, jobs))
  BY <1>1, <1>4, <1>5, <1>8, AnsweredClient
<1>10. QED
  BY <1>9

LEMMA RecallAgainMoves ==
  ASSUME TypeOK, AllSound, NEW i \in Slots, RecallAgain(i)
  PROVE  \E t : Moves(i, t)
<1>. DEFINE old == task[i]
            mid == Unanswered(old)
<1>1. old.pc = "again"
  BY DEF RecallAgain, At
<1>2. /\ old \in Tasks /\ Sound(old) /\ old.req.stream /\ "synthetic" \notin old.offered
      /\ old.jobs = <<>> /\ old.sentOf = 0
  BY <1>1, StreamIs
<1>3. old.exchanges = 1
  <2>. HIDE DEF old
  <2>1. QED
    BY <1>1, <1>2 DEF Sound, Spent
<1>4. /\ mid \in Tasks /\ mid.exchanges = 2 /\ mid.offered = old.offered
      /\ Same(mid, old)
  BY <1>2, <1>3, UnansweredIs DEF Same
<1>5. CASE FailStream(i, mid)
  BY <1>4, <1>5, Fails DEF FailStream
<1>6. ASSUME NEW a \in Offers(mid), SendAsStream(i, mid, a, mid.exchanges)
      PROVE  \E t : Moves(i, t)
  BY <1>2, <1>4, <1>6, OffersAre, SendMoves
<1>7. ASSUME NEW a \in Offers(mid), ~a.odd,
             Become(i, [mid EXCEPT !.pc = "again2", !.reply = a, !.n = mid.exchanges])
      PROVE  \E t : Moves(i, t)
  <2>. DEFINE t == [mid EXCEPT !.pc = "again2", !.reply = a, !.n = mid.exchanges]
  <2>1. a \in Replies /\ a.calls \cap Internal \subseteq mid.offered
    BY OffersAre
  <2>. HIDE DEF mid
  <2>2. /\ t \in Tasks /\ t.pc = "again2" /\ t.reply = a /\ t.n = 2 /\ t.exchanges = 2
        /\ Same(t, mid)
    BY <1>4, <2>1 DEF Tasks, Places, Same
  <2>3. task' = [task EXCEPT ![i] = t]
    BY <1>7 DEF Become
  <2>. HIDE DEF t, old
  <2>4. Same(t, old)
    BY <1>4, <2>2 DEF Same
  <2>5. Sound(t)
    BY <1>2, <1>4, <1>7, <2>1, <2>2, <2>4 DEF Sound, Spent, InHandSound, JobsSound,
       Early, InHand, Streaming, MaxExchanges, Same
  <2>6. QED
    BY <2>2, <2>3, <2>5 DEF Moves, Owes, Undecided
<1>8. QED
  BY <1>5, <1>6, <1>7 DEF RecallAgain

LEMMA RecallLastMoves ==
  ASSUME TypeOK, AllSound, NEW i \in Slots, RecallLast(i)
  PROVE  \E t : Moves(i, t)
<1>. DEFINE old == task[i]
            mid == Unanswered(old)
<1>1. old.pc = "again2"
  BY DEF RecallLast, At
<1>2. /\ old \in Tasks /\ "synthetic" \notin old.offered /\ old.reply \in Replies
      /\ old.exchanges \in 1..2 /\ old.n \in 1..old.exchanges
  BY <1>1, StreamIs
<1>3. /\ mid \in Tasks /\ mid.exchanges \in Nat \ {0} /\ mid.offered = old.offered
      /\ mid.reply = old.reply /\ mid.n \in Nat \ {0}
  BY <1>2, UnansweredIs
<1>4. CASE FailStream(i, mid)
  BY <1>3, <1>4, Fails DEF FailStream
<1>5. ASSUME NEW r \in Replies, NEW k \in Nat \ {0}, SendAsStream(i, mid, r, k)
      PROVE  \E t : Moves(i, t)
  BY <1>2, <1>3, <1>5, SendMoves
<1>. HIDE DEF mid
<1>6. QED
  BY <1>2, <1>3, <1>4, <1>5, OffersAre DEF RecallLast, mid

LEMMA RunJobMoves ==
  ASSUME TypeOK, AllSound, NEW i \in Slots, RunJob(i)
  PROVE  \E t : Moves(i, t)
<1>. DEFINE old == task[i]
<1>1. old \in Tasks /\ Sound(old) /\ old.pc = "jobs"
  BY OldIs DEF RunJob, At
<1>2. CASE Become(i, Idle)
  <2>1. /\ Idle.pc = "idle" /\ Idle.offered = {} /\ Idle.exchanges = 0 /\ Idle.n = 0
        /\ Idle.reply = NoReply /\ Idle.jobs = <<>> /\ Idle.sentOf = 0
    BY DEF Idle
  <2>2. Sound(Idle) /\ ~Owes(Idle)
    BY <2>1 DEF Sound, Owes, Spent, InHandSound, JobsSound, Early, InHand,
       Streaming, MaxExchanges, NoReply
  <2>3. QED
    BY <1>2, <2>2, Constants DEF Moves, Become
<1>3. CASE /\ Len(old.jobs) > 1
           /\ Become(i, [old EXCEPT !.jobs = Tail(@)])
  <2>. DEFINE t == [old EXCEPT !.jobs = Tail(@)]
  <2>1. old.sentOf # 0 /\ old.jobs = <<Extraction(old.sentOf), Trace>>
    <3>. HIDE DEF old
    <3>1. old.jobs \in {<<>>, <<Trace>>} \cup
                       (IF old.sentOf = 0 THEN {}
                        ELSE {<<Extraction(old.sentOf)>>,
                              <<Extraction(old.sentOf), Trace>>})
      BY <1>1 DEF Sound, JobsSound
    <3>2. Len(<<>>) = 0 /\ Len(<<Trace>>) = 1 /\ Len(<<Extraction(old.sentOf)>>) = 1
      OBVIOUS
    <3>3. old.jobs # <<>> /\ old.jobs # <<Trace>>
      <4>1. ASSUME old.jobs = <<>> PROVE FALSE
        <5>1. Len(old.jobs) = 0
          BY <3>2, <4>1
        <5>2. QED
          BY <1>3, <5>1
      <4>2. ASSUME old.jobs = <<Trace>> PROVE FALSE
        <5>1. Len(old.jobs) = 1
          BY <3>2, <4>2
        <5>2. QED
          BY <1>3, <5>1
      <4>3. QED
        BY <4>1, <4>2
    <3>7. old.jobs # <<Extraction(old.sentOf)>>
      <4>1. ASSUME old.jobs = <<Extraction(old.sentOf)>> PROVE FALSE
        <5>1. Len(old.jobs) = 1
          BY <3>2, <4>1
        <5>2. QED
          BY <1>3, <5>1
      <4>2. QED
        BY <4>1
    <3>4. old.sentOf # 0
      BY <3>1, <3>3
    <3>5. old.jobs \in {<<Extraction(old.sentOf)>>, <<Extraction(old.sentOf), Trace>>}
      BY <3>1, <3>3, <3>4
    <3>6. QED
      BY <3>4, <3>5, <3>7
  <2>2. Tail(old.jobs) = <<Trace>>
    BY <2>1
  <2>3. Tail(old.jobs) \in Seq(Job)
    BY <2>2, JobsAre
  <2>4. /\ t \in Tasks /\ t.jobs = <<Trace>> /\ t.pc = "jobs" /\ t.req = old.req
        /\ t.offered = old.offered /\ t.exchanges = old.exchanges /\ t.n = old.n
        /\ t.reply = old.reply /\ t.sent = old.sent /\ t.sentOf = old.sentOf
        /\ t.raised = old.raised
    BY <1>1, <2>2, <2>3 DEF Tasks
  <2>5. task' = [task EXCEPT ![i] = t]
    BY <1>3 DEF Become
  <2>. HIDE DEF t, old
  <2>6. Spent(t) /\ InHandSound(t)
    BY <1>1, <2>4 DEF Sound, Spent, InHandSound, Early, InHand, Streaming
  <2>7. JobsSound(t)
    BY <1>1, <2>4 DEF Sound, JobsSound
  <2>8. Sound(t)
    BY <1>1, <2>4, <2>6, <2>7 DEF Sound, Early
  <2>9. QED
    BY <2>4, <2>5, <2>8 DEF Moves, Owes, Undecided
<1>4. old.jobs \in Seq(Job)
  BY <1>1 DEF Tasks
<1>5. QED
  BY <1>2, <1>3, <1>4 DEF RunJob

-----------------------------------------------------------------------------
(* The breaker that the slots share.                                       *)

\* A step that counts no failure.
Calm ==
  /\ circuit' \in [Sessions -> Records]
  /\ HardAtLimit'
  /\ \A s \in Sessions : circuit'[s].total <= circuit[s].total

LEMMA UpdateIs ==
  ASSUME TypeOK, HardAtLimit, NEW s \in Sessions, NEW new \in Records,
         new.total >= MaxTotal => new.hard, Update(s, new)
  PROVE  /\ circuit' \in [Sessions -> Records]
         /\ HardAtLimit'
         /\ circuit'[s] = new
         /\ \A x \in Sessions \ {s} : circuit'[x].total <= circuit[x].total
<1>1. Fresh \in Records /\ Fresh.total = 0
  BY DEF Fresh, Records, Closed
<1>2. circuit \in [Sessions -> Records]
  BY DEF TypeOK
<1>3. circuit' = [x \in Sessions |-> IF x = s THEN new
                                     ELSE IF x \in Evicted(s) THEN Fresh
                                     ELSE circuit[x]]
  BY DEF Update
<1>4. MaxTotal \in Nat \ {0}
  BY BreakerAssumption
<1>5. circuit' \in [Sessions -> Records] /\ circuit'[s] = new
  BY <1>1, <1>2, <1>3
<1>6. \A x \in Sessions \ {s} : circuit'[x] = Fresh \/ circuit'[x] = circuit[x]
  BY <1>3
<1>7. \A x \in Sessions : circuit[x].total \in Nat
  BY <1>2 DEF Records
<1>8. \A x \in Sessions \ {s} : circuit'[x].total <= circuit[x].total
  BY <1>1, <1>6, <1>7
<1>9. HardAtLimit'
  BY <1>1, <1>4, <1>5, <1>6 DEF HardAtLimit
<1>10. QED
  BY <1>5, <1>8, <1>9

LEMMA CalmUpdate ==
  ASSUME TypeOK, HardAtLimit, NEW s \in Sessions, NEW new \in Records,
         new.total = circuit[s].total, new.hard = circuit[s].hard, Update(s, new)
  PROVE  Calm
<1>1. circuit[s].total >= MaxTotal => circuit[s].hard
  BY DEF HardAtLimit
<1>2. circuit[s].total \in Nat
  BY DEF TypeOK, Records
<1>3. QED
  BY <1>1, <1>2, UpdateIs DEF Calm

LEMMA AskIsCalm ==
  ASSUME TypeOK, HardAtLimit, NEW s \in Sessions, Ask(s)
  PROVE  Calm
<1>. DEFINE b   == circuit[s]
            c   == [b EXCEPT !.streak = 0, !.cooling = Closed]
            new == IF ~b.hard /\ b.cooling = 0 THEN c ELSE b
<1>1. b \in Records /\ Closed \in Int
  BY DEF TypeOK, Closed
<1>5. c \in Records /\ c.total = b.total /\ c.hard = b.hard
  <2>. HIDE DEF b
  <2>1. QED
    BY <1>1 DEF Records
<1>2. new \in Records /\ new.total = circuit[s].total /\ new.hard = circuit[s].hard
  <2>. HIDE DEF b, c
  <2>1. new \in Records /\ new.total = b.total /\ new.hard = b.hard
    BY <1>1, <1>5
  <2>2. QED
    BY <2>1 DEF b
<1>3. Update(s, new)
  BY DEF Ask
<1>. HIDE DEF new
<1>4. QED
  BY <1>2, <1>3, CalmUpdate

LEMMA SuccessIsCalm ==
  ASSUME TypeOK, HardAtLimit, NEW s \in Sessions, Success(s)
  PROVE  Calm
<1>. DEFINE new == [circuit[s] EXCEPT !.streak = 0]
<1>1. circuit[s] \in Records
  BY DEF TypeOK
<1>2. new \in Records /\ new.total = circuit[s].total /\ new.hard = circuit[s].hard
  BY <1>1 DEF Records
<1>3. Update(s, new)
  BY DEF Success
<1>. HIDE DEF new
<1>4. QED
  BY <1>2, <1>3, CalmUpdate

LEMMA BudgetIsCalm ==
  ASSUME TypeOK, HardAtLimit, AllSound, NEW i \in Slots, CheckBudget(i, 1)
  PROVE  Calm
<1>. DEFINE s == task[i].sess
            c == IF task[i].req.user THEN Charged(circuit[s], 1) ELSE circuit[s]
<1>1. CASE UNCHANGED breakerVars
  <2>1. circuit' = circuit
    BY <1>1 DEF breakerVars
  <2>2. \A x \in Sessions : circuit[x].total \in Nat
    BY DEF TypeOK, Records
  <2>3. QED
    BY <2>1, <2>2 DEF Calm, TypeOK, HardAtLimit
<1>2. CASE s # NoSession /\ Update(s, c)
  <2>1. s \in Sessions
    BY <1>2, OldIs DEF Tasks
  <2>2. circuit[s] \in Records
    BY <2>1 DEF TypeOK
  <2>3. c \in Records /\ c.total = circuit[s].total /\ c.hard = circuit[s].hard
    <3>. DEFINE b == circuit[s]
    <3>1. b \in Records /\ Budget \in Nat
      BY <2>2, BreakerAssumption
    <3>. HIDE DEF b
    <3>2. b.tokens \in Nat
      BY <3>1 DEF Records
    <3>3. (IF b.tokens + 1 > Budget THEN Budget ELSE b.tokens + 1) \in Nat
      BY <3>1, <3>2
    <3>4. /\ Charged(b, 1) \in Records /\ Charged(b, 1).total = b.total
          /\ Charged(b, 1).hard = b.hard
      BY <3>1, <3>3 DEF Charged, Records
    <3>5. QED
      BY <3>1, <3>4 DEF b
  <2>. HIDE DEF c
  <2>4. QED
    BY <1>2, <2>1, <2>3, CalmUpdate
<1>3. QED
  BY <1>1, <1>2 DEF CheckBudget

LEMMA UnchangedIsCalm ==
  ASSUME TypeOK, HardAtLimit, UNCHANGED breakerVars
  PROVE  Calm
<1>1. circuit' = circuit
  BY DEF breakerVars
<1>2. \A x \in Sessions : circuit[x].total \in Nat
  BY DEF TypeOK, Records
<1>3. QED
  BY <1>1, <1>2 DEF Calm, TypeOK, HardAtLimit

LEMMA TickIsCalm ==
  ASSUME TypeOK, HardAtLimit, Tick
  PROVE  Calm
<1>1. circuit' = [s \in Sessions |->
                    [circuit[s] EXCEPT !.cooling = IF @ > 0 THEN @ - 1 ELSE @]]
  BY DEF Tick
<1>2. ASSUME NEW s \in Sessions
      PROVE  /\ circuit'[s] \in Records /\ circuit'[s].total = circuit[s].total
             /\ circuit'[s].hard = circuit[s].hard /\ circuit[s].total \in Nat
  <2>. DEFINE b == circuit[s]
              k == IF b.cooling > 0 THEN b.cooling - 1 ELSE b.cooling
  <2>1. b \in Records
    BY DEF TypeOK
  <2>2. circuit'[s] = [b EXCEPT !.cooling = k]
    BY <1>1
  <2>. HIDE DEF b
  <2>3. k \in Int
    BY <2>1 DEF Records
  <2>. HIDE DEF k
  <2>4. [b EXCEPT !.cooling = k] \in Records
        /\ [b EXCEPT !.cooling = k].total = b.total
        /\ [b EXCEPT !.cooling = k].hard = b.hard /\ b.total \in Nat
    BY <2>1, <2>3 DEF Records
  <2>5. QED
    BY <2>2, <2>4 DEF b
<1>3. circuit' \in [Sessions -> Records]
  BY <1>1, <1>2
<1>4. QED
  BY <1>2, <1>3 DEF Calm, HardAtLimit

\* A failure counts one more for its session; at the limit it disables it.
LEMMA FailureCounts ==
  ASSUME TypeOK, HardAtLimit, NEW s \in Sessions, Failure(s)
  PROVE  /\ circuit' \in [Sessions -> Records]
         /\ HardAtLimit'
         /\ circuit'[s].total = circuit[s].total + 1
         /\ \A x \in Sessions \ {s} : circuit'[x].total <= circuit[x].total
<1>. DEFINE b == circuit[s]
            c == [b EXCEPT !.streak = @ + 1, !.total = @ + 1]
            new == IF c.total >= MaxTotal THEN [c EXCEPT !.hard = TRUE]
                   ELSE IF c.streak >= MaxConsecutive
                     THEN [c EXCEPT !.cooling = Cooldown]
                   ELSE c
<1>1. b \in Records
  BY DEF TypeOK
<1>2. Update(s, new)
  BY DEF Failure
<1>. HIDE DEF b
<1>3. b.streak + 1 \in Nat /\ b.total + 1 \in Nat
  BY <1>1 DEF Records
<1>4. c \in Records /\ c.total = b.total + 1
  BY <1>1, <1>3 DEF Records
<1>. HIDE DEF c
<1>5. new \in Records /\ new.total = c.total /\ (c.total >= MaxTotal => new.hard)
  <2>. DEFINE h == [c EXCEPT !.hard = TRUE]
              k == [c EXCEPT !.cooling = Cooldown]
  <2>1. h \in Records /\ h.total = c.total /\ h.hard
    BY <1>4 DEF Records
  <2>2. k \in Records /\ k.total = c.total
    BY <1>4, BreakerAssumption DEF Records
  <2>. HIDE DEF h, k
  <2>3. (IF c.total >= MaxTotal THEN h ELSE IF c.streak >= MaxConsecutive THEN k ELSE c)
          = new
    BY DEF h, k
  <2>. HIDE DEF new
  <2>4. QED
    BY <1>4, <2>1, <2>2, <2>3
<1>. HIDE DEF new
<1>6. QED
  BY <1>2, <1>4, <1>5, UpdateIs DEF b

-----------------------------------------------------------------------------
(* The slots together.                                                     *)

\* The slots that may still report a failure for session s.
Pending(s) == {i \in Slots : task[i].sess = s /\ Owes(task[i])}

LEMMA PendingIs ==
  \A s \in Sessions :
    /\ IsFiniteSet(Pending(s)) /\ Cardinality(Pending(s)) \in Nat
    /\ Cardinality(Pending(s)) <= Cardinality(Slots)
    /\ Cardinality(Slots) \in Nat
<1>1. IsFiniteSet(Slots) /\ \A s \in Sessions : Pending(s) \subseteq Slots
  BY PathAssumption DEF Pending
<1>2. QED
  BY <1>1, FS_Subset, FS_CardinalityType

\* The invariant with the pending slots named.
Effort(s) ==
  circuit[s].total + Cardinality(Pending(s)) <= MaxTotal - 1 + Cardinality(Slots)

LEMMA EffortIs ==
  /\ EffortBounded <=> /\ \A i \in Slots : task[i].exchanges <= MaxExchanges
                       /\ \A s \in Sessions : Effort(s)
  /\ EffortBounded' <=> /\ \A i \in Slots : task'[i].exchanges <= MaxExchanges
                        /\ \A s \in Sessions : Effort(s)'
<1>1. \A s : Pending(s) = {i \in Slots : /\ task[i].sess = s
                                         /\ "synthetic" \in task[i].offered
                                         /\ task[i].pc \in Undecided}
  BY DEF Pending, Owes
<1>2. \A s : Pending(s)' = {i \in Slots : /\ task'[i].sess = s
                                          /\ "synthetic" \in task'[i].offered
                                          /\ task'[i].pc \in Undecided}
  BY DEF Pending, Owes
<1>3. QED
  BY <1>1, <1>2 DEF EffortBounded, Effort

\* What is left to show of a step that gives slot i a sound record.
LEMMA SlotStep ==
  ASSUME IInv, NEW i \in Slots, NEW t \in Tasks, Sound(t),
         task' = [task EXCEPT ![i] = t],
         circuit' \in [Sessions -> Records], HardAtLimit',
         \A s \in Sessions : Effort(s)'
  PROVE  IInv'
<1>1. TypeOK'
  BY DEF IInv, TypeOK
<1>2. AllSound'
  BY DEF IInv, TypeOK, AllSound
<1>3. \A j \in Slots : task'[j].exchanges <= MaxExchanges
  <2>1. \A j \in Slots : Sound(task'[j])
    BY <1>2 DEF AllSound
  <2>2. QED
    BY <2>1 DEF Sound, Spent
<1>4. EffortBounded'
  BY <1>3, EffortIs
<1>5. QED
  BY <1>1, <1>2, <1>4 DEF IInv

LEMMA FewerPending ==
  ASSUME NEW s \in Sessions, Pending(s)' \subseteq Pending(s),
         circuit'[s].total <= circuit[s].total, Effort(s),
         circuit[s].total \in Nat, circuit'[s].total \in Nat
  PROVE  Effort(s)'
<1>1. /\ Cardinality(Pending(s)') <= Cardinality(Pending(s))
      /\ Cardinality(Pending(s)') \in Nat /\ Cardinality(Pending(s)) \in Nat
      /\ Cardinality(Slots) \in Nat
  BY PendingIs, FS_Subset, FS_CardinalityType
<1>2. MaxTotal \in Nat
  BY BreakerAssumption
<1>. DEFINE n == Cardinality(Pending(s))
            m == Cardinality(Pending(s)')
            k == Cardinality(Slots)
            x == circuit[s].total
            y == circuit'[s].total
<1>3. x + n <= MaxTotal - 1 + k
  BY DEF Effort
<1>4. m <= n /\ m \in Nat /\ n \in Nat /\ k \in Nat /\ x \in Nat /\ y \in Nat /\ y <= x
  BY <1>1
<1>. HIDE DEF n, m, k, x, y
<1>5. y + m <= MaxTotal - 1 + k
  BY <1>2, <1>3, <1>4
<1>6. QED
  BY <1>5 DEF Effort, n, m, k, x, y

\* Only slot i moves, and owes nothing that it did not owe before.
LEMMA MovesPending ==
  ASSUME TypeOK, NEW i \in Slots, NEW t, Moves(i, t), NEW s
  PROVE  Pending(s)' \subseteq Pending(s)
<1>1. task'[i] = t /\ \A j \in Slots \ {i} : task'[j] = task[j]
  BY DEF TypeOK, Moves
<1>2. ASSUME NEW j \in Slots, task'[j].sess = s, Owes(task'[j])
      PROVE  task[j].sess = s /\ Owes(task[j])
  BY <1>1, <1>2 DEF Moves
<1>3. Owes(t)' <=> Owes(t)
  BY DEF Owes
<1>4. Pending(s)' = {j \in Slots : task'[j].sess = s /\ Owes(task'[j])}
  BY DEF Pending, Owes
<1>5. QED
  BY <1>2, <1>4 DEF Pending

LEMMA Totals ==
  ASSUME NEW c \in [Sessions -> Records], NEW s \in Sessions
  PROVE  c[s].total \in Nat
BY DEF Records

LEMMA CalmStep ==
  ASSUME IInv, NEW i \in Slots, NEW t, Moves(i, t), Calm
  PROVE  IInv'
<1>1. TypeOK
  BY DEF IInv
<1>2. ASSUME NEW s \in Sessions
      PROVE  Effort(s)'
  <2>1. Effort(s)
    BY EffortIs DEF IInv
  <2>2. Pending(s)' \subseteq Pending(s)
    BY <1>1, MovesPending
  <2>3. circuit[s].total \in Nat /\ circuit'[s].total \in Nat
    BY <1>1, Totals DEF TypeOK, Calm
  <2>4. QED
    BY <2>1, <2>2, <2>3, FewerPending DEF Calm
<1>3. QED
  BY <1>2, SlotStep DEF Moves, Calm

\* The failure that is counted was pending.
LEMMA ReportStep ==
  ASSUME IInv, NEW i \in Slots, NEW t, Moves(i, t), task[i].sess \in Sessions,
         Owes(task[i]), ~Owes(t), Failure(task[i].sess)
  PROVE  IInv'
<1>1. TypeOK /\ HardAtLimit
  BY DEF IInv
<1>. PICK u \in Sessions : u = task[i].sess
  OBVIOUS
<1>2. /\ circuit' \in [Sessions -> Records] /\ HardAtLimit'
      /\ circuit'[u].total = circuit[u].total + 1
      /\ \A x \in Sessions \ {u} : circuit'[x].total <= circuit[x].total
  BY <1>1, FailureCounts
<1>3. \A s \in Sessions : /\ circuit[s].total \in Nat /\ circuit'[s].total \in Nat
                          /\ Effort(s) /\ Pending(s)' \subseteq Pending(s)
  BY <1>1, <1>2, Totals, EffortIs, MovesPending DEF TypeOK, IInv
<1>4. \A s \in Sessions \ {u} : Effort(s)'
  BY <1>2, <1>3, FewerPending
<1>5. Effort(u)'
  <2>1. i \in Pending(u) /\ i \notin Pending(u)'
    <3>1. task'[i] = t
      BY <1>1 DEF TypeOK, Moves
    <3>2. QED
      BY <3>1 DEF Pending, Owes
  <2>2. IsFiniteSet(Pending(u))
    BY PendingIs
  <2>3. Cardinality(Pending(u) \ {i}) = Cardinality(Pending(u)) - 1
        /\ IsFiniteSet(Pending(u) \ {i})
    BY <2>1, <2>2, FS_RemoveElement
  <2>4. Pending(u)' \subseteq Pending(u) \ {i}
    BY <1>3, <2>1
  <2>. DEFINE n == Cardinality(Pending(u))
              m == Cardinality(Pending(u)')
              k == Cardinality(Slots)
              x == circuit[u].total
              y == circuit'[u].total
  <2>5. m <= Cardinality(Pending(u) \ {i}) /\ m \in Nat
    BY <2>3, <2>4, FS_Subset, FS_CardinalityType
  <2>6. n \in Nat /\ k \in Nat
    BY PendingIs
  <2>7. m <= n - 1
    BY <2>3, <2>5
  <2>8. x \in Nat /\ y = x + 1 /\ x + n <= MaxTotal - 1 + k
    BY <1>2, <1>3 DEF Effort
  <2>9. MaxTotal \in Nat
    BY BreakerAssumption
  <2>. HIDE DEF n, m, k, x, y
  <2>10. y + m <= MaxTotal - 1 + k
    BY <2>5, <2>6, <2>7, <2>8, <2>9
  <2>11. QED
    BY <2>10 DEF Effort, n, m, k, x, y
<1>6. QED
  BY <1>2, <1>4, <1>5, SlotStep DEF Moves

\* A request whose synthetic tool is offered counts as pending from now on: its
\* breaker allows the tool, so the failures of its session are below the limit.
LEMMA InjectStep ==
  ASSUME IInv, NEW i \in Slots, Inject(i)
  PROVE  IInv'
<1>1. TypeOK /\ AllSound /\ HardAtLimit
  BY DEF IInv
<1>2. PICK t \in Tasks :
        /\ Sound(t) /\ task' = [task EXCEPT ![i] = t]
        /\ t.sess = task[i].sess
        /\ ~Owes(task[i])
        /\ Owes(t) => t.sess \in Sessions /\ Allowed(t.sess)
  BY <1>1, InjectMoves
<1>3. Calm
  <2>1. task[i].sess \in Sessions \cup {NoSession}
    BY <1>1, OldIs DEF Tasks
  <2>2. QED
    BY <1>1, <2>1, AskIsCalm, UnchangedIsCalm DEF Inject
<1>4. \A s \in Sessions : circuit[s].total \in Nat /\ circuit'[s].total \in Nat /\ Effort(s)
  BY <1>1, <1>3, Totals, EffortIs DEF TypeOK, Calm, IInv
<1>5. task'[i] = t /\ \A j \in Slots \ {i} : task'[j] = task[j]
  BY <1>1, <1>2 DEF TypeOK
<1>6. ASSUME NEW s \in Sessions
      PROVE  Effort(s)'
  <2>1. CASE Owes(t) /\ t.sess = s
    <3>1. circuit[s].total <= MaxTotal - 1
      <4>1. ~circuit[s].hard
        BY <1>2, <2>1 DEF Allowed
      <4>2. QED
        BY <1>1, <1>4, <4>1, BreakerAssumption DEF HardAtLimit
    <3>2. Pending(s)' \subseteq Slots /\ IsFiniteSet(Slots)
      BY PathAssumption DEF Pending
    <3>. DEFINE m == Cardinality(Pending(s)')
                k == Cardinality(Slots)
                x == circuit[s].total
                y == circuit'[s].total
    <3>3. m <= k /\ m \in Nat /\ k \in Nat
      BY <3>2, FS_Subset, FS_CardinalityType
    <3>4. x \in Nat /\ y \in Nat /\ y <= x /\ x <= MaxTotal - 1 /\ MaxTotal \in Nat
      BY <1>3, <1>4, <3>1, BreakerAssumption DEF Calm
    <3>. HIDE DEF m, k, x, y
    <3>5. y + m <= MaxTotal - 1 + k
      BY <3>3, <3>4
    <3>6. QED
      BY <3>5 DEF Effort, m, k, x, y
  <2>2. CASE ~(Owes(t) /\ t.sess = s)
    <3>1. ASSUME NEW j \in Slots, task'[j].sess = s, Owes(task'[j])
          PROVE  task[j].sess = s /\ Owes(task[j])
      BY <1>5, <2>2, <3>1
    <3>2. Pending(s)' = {j \in Slots : task'[j].sess = s /\ Owes(task'[j])}
      BY DEF Pending, Owes
    <3>3. Pending(s)' \subseteq Pending(s)
      BY <3>1, <3>2 DEF Pending
    <3>4. QED
      BY <1>3, <1>4, <3>3, FewerPending DEF Calm
  <2>3. QED
    BY <2>1, <2>2
<1>7. QED
  BY <1>2, <1>3, <1>6, SlotStep DEF Calm

LEMMA TickStep ==
  ASSUME IInv, circuit' \in [Sessions -> Records], HardAtLimit', task' = task,
         \A s \in Sessions : circuit'[s].total <= circuit[s].total
  PROVE  IInv'
<1>1. \A s \in Sessions : Effort(s)'
  <2>1. \A s \in Sessions : Pending(s)' = Pending(s)
    BY DEF Pending, Owes
  <2>2. \A s \in Sessions : /\ circuit[s].total \in Nat /\ circuit'[s].total \in Nat
                            /\ Effort(s)
    BY Totals, EffortIs DEF IInv, TypeOK
  <2>3. QED
    BY <2>1, <2>2, FewerPending
<1>2. TypeOK' /\ AllSound'
  BY DEF IInv, TypeOK, AllSound
<1>3. EffortBounded'
  <2>1. \A i \in Slots : task'[i].exchanges <= MaxExchanges
    BY DEF IInv, EffortBounded
  <2>2. QED
    BY <1>1, <2>1, EffortIs
<1>4. QED
  BY <1>2, <1>3 DEF IInv

LEMMA ReportsStep ==
  ASSUME IInv, NEW i \in Slots, NEW t, Moves(i, t), Reports(i, t)
  PROVE  IInv'
BY CalmStep, ReportStep, UnchangedIsCalm, SuccessIsCalm DEF Reports, IInv

LEMMA Initially == Init => IInv
<1>. SUFFICES ASSUME Init PROVE IInv
  OBVIOUS
<1>1. task = [i \in Slots |-> Idle] /\ circuit = [s \in Sessions |-> Fresh]
  BY DEF Init, BreakerInit
<1>2. Fresh \in Records /\ Fresh.total = 0
  BY DEF Fresh, Records, Closed
<1>3. TypeOK
  BY <1>1, <1>2, Constants DEF TypeOK
<1>4. /\ Idle.pc = "idle" /\ Idle.offered = {} /\ Idle.exchanges = 0 /\ Idle.n = 0
      /\ Idle.reply = NoReply /\ Idle.jobs = <<>> /\ Idle.sentOf = 0
  BY DEF Idle
<1>5. Sound(Idle) /\ ~Owes(Idle)
  BY <1>4 DEF Sound, Owes, Spent, InHandSound, JobsSound, Early, InHand,
     Streaming, MaxExchanges, NoReply
<1>6. AllSound
  BY <1>1, <1>5 DEF AllSound
<1>7. HardAtLimit
  BY <1>1, <1>2, BreakerAssumption DEF HardAtLimit
<1>8. EffortBounded
  <2>1. \A i \in Slots : task[i].exchanges <= MaxExchanges
    BY <1>1, <1>4 DEF MaxExchanges
  <2>2. ASSUME NEW s \in Sessions PROVE Effort(s)
    <3>1. Pending(s) = {}
      BY <1>1, <1>5 DEF Pending
    <3>2. Cardinality(Pending(s)) = 0
      BY <3>1, FS_EmptySet
    <3>3. Cardinality(Slots) \in Nat /\ MaxTotal \in Nat \ {0} /\ circuit[s].total = 0
      BY <1>1, <1>2, PendingIs, BreakerAssumption
    <3>4. QED
      BY <3>2, <3>3 DEF Effort
  <2>3. QED
    BY <2>1, <2>2, EffortIs
<1>9. QED
  BY <1>3, <1>6, <1>7, <1>8 DEF IInv

LEMMA Inductive == IInv /\ [Next]_vars => IInv'
<1>. SUFFICES ASSUME IInv, [Next]_vars PROVE IInv'
  OBVIOUS
<1>. USE DEF IInv
<1>1. CASE UNCHANGED vars
  <2>1. Calm
    BY <1>1, UnchangedIsCalm DEF vars
  <2>2. QED
    BY <1>1, <2>1, TickStep DEF Calm, vars
<1>2. CASE ClockTick
  BY <1>2, TickIsCalm, TickStep DEF Calm, ClockTick
<1>3. ASSUME NEW i \in Slots, Refuse(i)
      PROVE  IInv'
  BY <1>3, RefuseMoves, UnchangedIsCalm, CalmStep DEF Refuse
<1>4. ASSUME NEW i \in Slots, NEW r \in Traffic, Arrive(i, r)
      PROVE  IInv'
  BY <1>4, ArriveMoves, UnchangedIsCalm, CalmStep DEF Arrive
<1>5. ASSUME NEW i \in Slots, Step(i)
      PROVE  IInv'
  <2>. HIDE DEF IInv
  <2>0. TypeOK /\ AllSound /\ HardAtLimit
    BY DEF IInv
  <2>1. CASE Resolve(i)
    BY <2>0, <2>1, ResolveMoves, UnchangedIsCalm, CalmStep DEF Resolve
  <2>2. CASE CheckBudget(i, 1)
    BY <2>0, <2>2, CheckBudgetMoves, BudgetIsCalm, CalmStep
  <2>3. CASE Inject(i)
    BY <2>3, InjectStep
  <2>4. CASE PassSingle(i) \/ PassStream(i)
    BY <2>0, <2>4, PassMoves, UnchangedIsCalm, CalmStep DEF PassSingle, PassStream
  <2>5. CASE Call(i)
    BY <2>0, <2>5, CallMoves, UnchangedIsCalm, CalmStep DEF Call
  <2>6. CASE RefuseLeak(i)
    BY <2>0, <2>6, RefuseLeakMoves, UnchangedIsCalm, CalmStep DEF RefuseLeak
  <2>7. CASE Recall(i)
    BY <2>0, <2>7, RecallMoves, UnchangedIsCalm, CalmStep DEF Recall
  <2>8. CASE RecallResend(i)
    BY <2>0, <2>8, RecallResendMoves, UnchangedIsCalm, CalmStep DEF RecallResend
  <2>9. CASE Synthetic(i)
    BY <2>0, <2>9, SyntheticMoves, ReportsStep
  <2>10. CASE SyntheticResend(i)
    BY <2>0, <2>10, SyntheticResendMoves, ReportsStep
  <2>11. CASE Read(i)
    BY <2>0, <2>11, ReadMoves, UnchangedIsCalm, CalmStep DEF Read
  <2>12. CASE Respond(i)
    BY <2>0, <2>12, RespondMoves, UnchangedIsCalm, CalmStep DEF Respond
  <2>13. CASE Open(i)
    BY <2>0, <2>13, OpenMoves, UnchangedIsCalm, CalmStep DEF Open
  <2>14. CASE Relay(i)
    BY <2>0, <2>14, RelayMoves, UnchangedIsCalm, CalmStep DEF Relay
  <2>15. CASE HoldBack(i)
    BY <2>0, <2>15, HoldBackMoves, UnchangedIsCalm, CalmStep DEF HoldBack
  <2>16. CASE RecallAgain(i)
    BY <2>0, <2>16, RecallAgainMoves, UnchangedIsCalm, CalmStep DEF RecallAgain
  <2>17. CASE RecallLast(i)
    BY <2>0, <2>17, RecallLastMoves, UnchangedIsCalm, CalmStep DEF RecallLast
  <2>18. CASE RunJob(i)
    BY <2>0, <2>18, RunJobMoves, UnchangedIsCalm, CalmStep DEF RunJob
  <2>19. QED
    BY <1>5, <2>1, <2>2, <2>3, <2>4, <2>5, <2>6, <2>7, <2>8, <2>9, <2>10, <2>11,
       <2>12, <2>13, <2>14, <2>15, <2>16, <2>17, <2>18 DEF Step
<1>6. QED
  BY <1>1, <1>2, <1>3, <1>4, <1>5 DEF Next

-----------------------------------------------------------------------------
(* The theorems.                                                           *)

\* Every task record and every record of the breaker keeps its type, every
\* task record is sound where its slot stands, and a record of the breaker at
\* the hard limit is disabled.
THEOREM PathInvariant == Spec => []IInv
BY Initially, Inductive, PTL DEF Spec

\* chat_passthrough.py, non_streaming.py, streaming.py: a request has at most
\* one extraction, of the answer its client was given.
THEOREM WhatWasSentIsExtracted == Spec => []ExtractsWhatWasSent
<1>1. IInv => ExtractsWhatWasSent
  <2>. SUFFICES ASSUME IInv, NEW i \in Slots
                PROVE  LET extracted == {k \in 1..Len(task[i].jobs) :
                                           task[i].jobs[k].kind = "extract"}
                       IN /\ Cardinality(extracted) <= 1
                          /\ \A k \in extracted :
                               Delivered(i) /\ task[i].jobs[k].of = task[i].sentOf
    BY DEF ExtractsWhatWasSent
  <2>. DEFINE jobs == task[i].jobs
              extracted == {k \in 1..Len(jobs) : jobs[k].kind = "extract"}
  <2>1. JobsSound(task[i])
    BY DEF IInv, AllSound, Sound
  <2>2. CASE jobs \in {<<>>, <<Trace>>}
    <3>1. extracted = {}
      BY <2>2 DEF Trace
    <3>2. Cardinality(extracted) = 0
      BY <3>1, FS_EmptySet
    <3>. HIDE DEF extracted
    <3>3. Cardinality(extracted) <= 1 /\ \A k \in extracted : FALSE
      BY <3>1, <3>2
    <3>4. QED
      BY <3>3 DEF extracted
  <2>3. CASE /\ task[i].pc = "jobs" /\ task[i].sentOf # 0
             /\ jobs \in {<<Extraction(task[i].sentOf)>>,
                          <<Extraction(task[i].sentOf), Trace>>}
    <3>1. extracted = {1} /\ jobs[1].of = task[i].sentOf
      BY <2>3 DEF Trace, Extraction
    <3>2. Cardinality(extracted) = 1
      BY <3>1, FS_Singleton
    <3>. HIDE DEF extracted
    <3>3. Cardinality(extracted) <= 1
      BY <3>2
    <3>4. \A k \in extracted : Delivered(i) /\ task[i].jobs[k].of = task[i].sentOf
      BY <2>3, <3>1 DEF Delivered, At
    <3>5. QED
      BY <3>3, <3>4 DEF extracted
  <2>4. QED
    BY <2>1, <2>2, <2>3 DEF JobsSound
<1>2. QED
  BY <1>1, PathInvariant, PTL

\* non_streaming.py and streaming.py: a client sees a call of an injected tool
\* only in a stream relayed as it came, or when the interception raised.
THEOREM InternalCallsAreHidden == Spec => []InternalHidden
<1>1. IInv => InternalHidden
  BY DEF IInv, AllSound, Sound, JobsSound, InternalHidden, Delivered, At
<1>2. QED
  BY <1>1, PathInvariant, PTL

\* circuit_breaker.py and recall.py: the exchanges of a request and the
\* failures of a session are bounded, for any number of slots and any limit.
THEOREM EffortIsBounded == Spec => []EffortBounded
<1>1. IInv => EffortBounded
  BY DEF IInv
<1>2. QED
  BY <1>1, PathInvariant, PTL
=============================================================================
