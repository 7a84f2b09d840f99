---------------------------- MODULE RequestPath -----------------------------
(***************************************************************************)
(* A chat completion request from its arrival to the end of its background *)
(* tasks: openai/chat.py, chat_passthrough.py, non_streaming.py and        *)
(* streaming.py of archolith_proxy, with the tool calls the proxy answers  *)
(* itself (proxy/recall.py, synthetic_tools.py, tool_intercept.py) and the *)
(* circuit breaker that requests of one session share.                     *)
(*                                                                         *)
(* A slot is the task that serves one request at a time; slots interleave  *)
(* at their awaits.  Messages are abstract: an answer of the model is the  *)
(* text it has and the tools it calls.  The context put before the         *)
(* messages changes no state of this module and is left out.               *)
(***************************************************************************)
EXTENDS CircuitBreaker

CONSTANTS
  Slots,          \* requests in flight at a time
  NoSession,      \* a request without a session
  Traffic,        \* the requests clients make
  Answers,        \* the answers the model gives
  RecallOn,       \* session_recall_tool_enabled
  SyntheticOn,    \* synthetic_tools_enabled
  BudgetRejects   \* session_token_budget_action = "reject"

\* The tools that matter: the two the proxy injects, the client's file read,
\* which it may answer from its cache, and any other tool of the client.
Internal == {"recall", "synthetic"}
Tools    == Internal \cup {"read", "other"}

\* bare: the model name ends in -passthrough; gated: DeepSeek without tools.
Requests == [sess : Sessions, stream : BOOLEAN, user : BOOLEAN,
             bare : BOOLEAN, gated : BOOLEAN]

\* What upstream sends.  An odd reply makes the tool call finders raise: an
\* answer with a tool_calls of null, or an error whose body is not JSON.
Replies == [ok : BOOLEAN, text : {"none", "plain", "markup"},
            calls : SUBSET Tools, odd : BOOLEAN]

HttpErrors == [ok : {FALSE}, text : {"none"}, calls : {{}}, odd : BOOLEAN]

ASSUME PathAssumption ==
  /\ IsFiniteSet(Slots)
  /\ NoSession \notin Sessions
  /\ Traffic \subseteq Requests
  /\ Answers \subseteq {a \in Replies : a.ok /\ (a.odd => a.calls = {})}
  /\ RecallOn \in BOOLEAN
  /\ SyntheticOn \in BOOLEAN
  /\ BudgetRejects \in BOOLEAN

NoReply   == [ok |-> FALSE, text |-> "none", calls |-> {}, odd |-> FALSE]
NoRequest == [sess |-> NoSession, stream |-> FALSE, user |-> FALSE,
              bare |-> FALSE, gated |-> FALSE]

\* Where a slot stands until the synthetic tools it injected had their verdict.
Undecided == {"call", "leak", "recall", "resend", "resend2", "synthetic",
              "synresend"}

\* pc: where the slot stands; req: its request; sess: the resolved session;
\* offered: the tools injected; exchanges: calls of upstream so far; reply:
\* the answer in hand, from exchange number n (0 is no answer); final: it
\* replaces the first one; raised: the synthetic interception raised; sent: what
\* the client got, from exchange sentOf, 0 for an error; jobs: background tasks
\* to run, of kind "extract" or "trace".
Idle == [pc |-> "idle", req |-> NoRequest, sess |-> NoSession, offered |-> {},
         exchanges |-> 0, reply |-> NoReply, n |-> 0, final |-> FALSE,
         raised |-> FALSE, sent |-> NoReply, sentOf |-> 0, jobs |-> <<>>]

VARIABLES
  task       \* the state of each slot

vars == <<task, breakerVars>>

Init ==
  /\ BreakerInit
  /\ task = [i \in Slots |-> Idle]

-----------------------------------------------------------------------------
(* Steps of a slot.                                                        *)

At(i, where) == task[i].pc = where
Become(i, t) == task' = [task EXCEPT ![i] = t]
Goto(i, where) == Become(i, [task[i] EXCEPT !.pc = where])

Trace == [kind |-> "trace", of |-> 0]
Extraction(k) == [kind |-> "extract", of |-> k]

\* t with one more call of upstream that was answered by r.
Answered(t, r) ==
  [t EXCEPT !.exchanges = @ + 1, !.reply = r, !.n = t.exchanges + 1]

\* t after one more call of upstream without an answer.
Unanswered(t) == [t EXCEPT !.exchanges = @ + 1]

\* The client gets reply r of exchange k, and the locals of the handler go.
Sent(t, r, k, jobs) ==
  [Idle EXCEPT !.pc = "jobs", !.req = t.req, !.offered = t.offered,
               !.raised = t.raised, !.sent = r, !.sentOf = k, !.jobs = jobs]

\* The client gets an error; some paths have a trace scheduled nonetheless.
Failed(t, jobs) == Sent(t, NoReply, 0, jobs)

Without(r, tools) == [r EXCEPT !.calls = @ \ tools]

\* What the model may answer to request t.
Offers(t) == {a \in Answers : a.calls \cap Internal \subseteq t.offered}

-----------------------------------------------------------------------------
(* chat_completions.                                                       *)

\* A request arrives.
Arrive(i, r) ==
  /\ At(i, "idle")
  /\ Become(i, [Idle EXCEPT !.pc = IF r.bare THEN "passthrough" ELSE "resolve",
                            !.req = r])
  /\ UNCHANGED breakerVars

\* Invalid JSON, an invalid request, no messages.
Refuse(i) ==
  /\ At(i, "idle")
  /\ Become(i, Failed(Idle, <<>>))
  /\ UNCHANGED breakerVars

\* Session resolution fails open: without a graph, or when it raises, the
\* request goes on without a session.
Resolve(i) ==
  /\ At(i, "resolve")
  /\ \E s \in {task[i].req.sess, NoSession} :
       Become(i, [task[i] EXCEPT !.sess = s, !.pc = "budget"])
  /\ UNCHANGED breakerVars

\* The token budget of a session; user turns count, t tokens each.
CheckBudget(i, t) ==
  LET s == task[i].sess
      c == IF task[i].req.user THEN Charged(circuit[s], t) ELSE circuit[s]
  IN /\ At(i, "budget")
     /\ IF s = NoSession \/ Budget = 0
          THEN Goto(i, "inject") /\ UNCHANGED breakerVars
          ELSE /\ Update(s, c)
               /\ IF OverBudget(c) /\ BudgetRejects
                    THEN Become(i, Failed(task[i], <<>>))
                    ELSE Goto(i, "inject")

\* After curation, compression and forced recall, none of which fails the
\* request: the tools are injected, and the request dispatched.  Injected
\* synthetic tools force a single exchange instead of a stream.
Inject(i) ==
  LET s   == task[i].sess
      syn == {x \in {"synthetic"} : SyntheticOn /\ s # NoSession /\ Allowed(s)}
      rec == {x \in {"recall"} : RecallOn /\ s # NoSession}
  IN /\ At(i, "inject")
     /\ Become(i, [task[i] EXCEPT
          !.offered = syn \cup rec,
          !.pc = IF task[i].req.stream /\ syn = {} THEN "open" ELSE "call"])
     /\ IF SyntheticOn /\ s # NoSession THEN Ask(s) ELSE UNCHANGED breakerVars

-----------------------------------------------------------------------------
(* The passthrough handlers: upstream's reply goes to the client as it is. *)

\* One request, with retries; without a response the trace is not stored.
PassSingle(i) ==
  /\ At(i, "passthrough") /\ ~task[i].req.stream
  /\ \/ \E r \in Offers(task[i]) \cup HttpErrors :
          LET t == Answered(task[i], r)
          IN Become(i, Sent(t, r, t.n, <<Trace>>))
     \/ Become(i, Failed(task[i], <<>>))
  /\ UNCHANGED breakerVars

\* A stream, without retries, which a time-out or a refused connection ends as
\* if it were complete; the trace is lost with a stream that breaks otherwise.
PassStream(i) ==
  /\ At(i, "passthrough") /\ task[i].req.stream
  /\ \E jobs \in {<<>>, <<Trace>>} :
       \/ \E r \in Offers(task[i]) \cup HttpErrors :
            LET t == Answered(task[i], r)
            IN Become(i, Sent(t, r, t.n, jobs))
       \/ Become(i, Failed(task[i], jobs))
  /\ UNCHANGED breakerVars

-----------------------------------------------------------------------------
(* _handle_non_streaming.                                                  *)

\* upstream_request_with_retry gives the last reply of its attempts, or
\* raises what the last one raised.
Call(i) ==
  /\ At(i, "call")
  /\ \/ \E r \in Offers(task[i]) \cup HttpErrors :
          Become(i, [Answered(task[i], r) EXCEPT !.pc = "leak"])
     \/ Become(i, Failed(task[i], <<>>))
  /\ UNCHANGED breakerVars

\* _refuse_dsml_leak, for a request without tools and none injected: markup
\* is asked for again, and stripped if it is still there.
RefuseLeak(i) ==
  LET gated == task[i].req.gated /\ task[i].offered = {}
      leaks == task[i].reply.ok /\ gated /\ task[i].reply.text = "markup"
      retry == [task[i] EXCEPT !.exchanges = @ + 1, !.pc = "recall"]
  IN /\ At(i, "leak")
     /\ IF ~leaks
          THEN Goto(i, "recall")
          ELSE \/ \E a \in Offers(retry) :
                    Become(i, [retry EXCEPT
                      !.reply = IF a.text = "markup"
                                  THEN [a EXCEPT !.text = "plain"] ELSE a,
                      !.n = retry.exchanges])
               \/ Become(i, [retry EXCEPT !.reply.text = "plain"])
     /\ UNCHANGED breakerVars

\* t answered by reply r of exchange k in place of its first reply.
Final(t, r, k) == [t EXCEPT !.pc = "reply", !.reply = r, !.n = k, !.final = TRUE]

\* handle_non_streaming_recall: if the model called the injected recall tool
\* with a question, the answer is sent upstream.
Recall(i) ==
  LET called == "recall" \in task[i].offered \cap task[i].reply.calls
  IN /\ At(i, "recall")
     /\ \E next \in {"synthetic"} \cup IF called THEN {"resend"} ELSE {} :
          Goto(i, next)
     /\ UNCHANGED breakerVars

\* resend_with_recall, its two rounds: the model may recall once more; in the
\* second round the answer is final whatever it calls.  After any error the
\* first reply stands.
RecallResend(i) ==
  LET t == Unanswered(task[i])
  IN /\ task[i].pc \in {"resend", "resend2"}
     /\ \/ Become(i, [t EXCEPT !.pc = "synthetic"])
        \/ \E a \in Offers(t) :
             /\ ~a.odd
             /\ Become(i, Final(t, Without(a, {"recall"}), t.exchanges))
        \/ /\ At(i, "resend")
           /\ \E a \in Offers(t) : "recall" \in a.calls
           /\ Become(i, [t EXCEPT !.pc = "resend2"])
     /\ UNCHANGED breakerVars

\* handle_non_streaming_synthetic.  Finding the call may raise, which counts
\* as a failure.  Beside other calls the synthetic one is only stripped.
Synthetic(i) ==
  LET t == task[i]
  IN /\ At(i, "synthetic")
     /\ CASE "synthetic" \notin t.offered ->
               Goto(i, "reply") /\ UNCHANGED breakerVars
          [] "synthetic" \in t.offered /\ t.reply.odd ->
               /\ Become(i, [t EXCEPT !.pc = "read", !.raised = TRUE])
               /\ Failure(t.sess)
          [] OTHER ->
               IF "synthetic" \notin t.reply.calls
                 THEN Goto(i, "read") /\ UNCHANGED breakerVars
               ELSE IF t.reply.calls = {"synthetic"}
                 THEN Goto(i, "synresend") /\ UNCHANGED breakerVars
               ELSE /\ Become(i, Final(t, Without(t.reply, {"synthetic"}), t.n))
                    /\ Success(t.sess)

\* The summary is sent upstream.  A time-out or an error status is a failure
\* that leaves the first reply, without the call but with some text; any
\* other exception is a failure that leaves it as it was.
SyntheticResend(i) ==
  LET t == Unanswered(task[i])
  IN /\ At(i, "synresend")
     /\ \/ /\ \E a \in Offers(t) :
                Become(i, Final(t, Without(a, {"synthetic"}), t.exchanges))
           /\ Success(t.sess)
        \/ /\ Become(i, Final(t, [Without(t.reply, {"synthetic"}) EXCEPT
                                    !.text = IF @ = "none" THEN "plain" ELSE @],
                              t.n))
           /\ Failure(t.sess)
        \/ /\ Become(i, [t EXCEPT !.pc = "read", !.raised = TRUE])
           /\ Failure(t.sess)

\* handle_native_read_intercept: an answer that only reads files, all of them
\* cached, is answered in another exchange; after an error the reply stands.
Read(i) ==
  LET t == Unanswered(task[i])
  IN /\ At(i, "read")
     /\ \/ Goto(i, "reply")
        \/ /\ task[i].reply.calls = {"read"}
           /\ \/ Become(i, [t EXCEPT !.pc = "reply"])
              \/ \E a \in Offers(t) : Become(i, Final(t, a, t.exchanges))
     /\ UNCHANGED breakerVars

\* What is extracted from reply r of exchange k of t.
Extract(t, r, k) ==
  IF t.sess # NoSession /\ r.text # "none" THEN <<Extraction(k)>> ELSE <<>>

\* Mutant of Respond: the first reply is extracted beside the final one.
RespondExtractsBoth(i) ==
  LET t == task[i]
  IN /\ At(i, "reply")
     /\ Become(i, Sent(t, Without(t.reply, Internal), t.n,
                       Extract(t, t.reply, 1) \o <<Trace>>))
     /\ UNCHANGED breakerVars

\* Mutant of Respond: only a final answer is cleaned of internal calls.
RespondRaw(i) ==
  LET t == task[i]
  IN /\ At(i, "reply")
     /\ Become(i, Sent(t, Without(t.reply, IF t.final THEN Internal ELSE {}),
                       t.n, Extract(t, t.reply, t.n) \o <<Trace>>))
     /\ UNCHANGED breakerVars

\* The response is returned with its background tasks: a final answer without
\* internal calls, another one without calls of an injected recall tool.
Respond(i) ==
  LET t    == task[i]
      hide == IF t.final THEN Internal ELSE t.offered \cap {"recall"}
  IN /\ At(i, "reply")
     /\ Become(i, Sent(t, Without(t.reply, hide), t.n,
                       Extract(t, t.reply, t.n) \o <<Trace>>))
     /\ UNCHANGED breakerVars

-----------------------------------------------------------------------------
(* _handle_streaming: the generator that feeds the client.                 *)

\* In a stream a failed exchange is an error for the client.
FailStream(i, t) == \E jobs \in {<<>>, <<Trace>>} : Become(i, Failed(t, jobs))

\* The connection, with its retries: a stream, an error event, or an
\* exception that breaks the response off.
Open(i) ==
  /\ At(i, "open")
  /\ \/ \E a \in Offers(task[i]) :
          Become(i, [Answered(task[i], a) EXCEPT !.pc = "relay"])
     \/ FailStream(i, task[i])
  /\ UNCHANGED breakerVars

\* The answer is relayed as it comes, to its end or until the stream breaks
\* or the client leaves; only a whole one is captured.
Relay(i) ==
  LET t == task[i]
  IN /\ At(i, "relay")
     /\ \E jobs \in {Extract(t, t.reply, t.n) \o <<Trace>>, <<Trace>>, <<>>} :
          Become(i, Sent(t, t.reply, t.n, jobs))
     /\ UNCHANGED breakerVars

\* stream_with_recall_detection held the answer back, because it begins with
\* a call of the recall tool; one without a question is relayed after all, and
\* a broken stream leaves the client with an error.
HoldBack(i) ==
  LET t == task[i]
  IN /\ At(i, "relay")
     /\ "recall" \in t.offered \cap t.reply.calls
     /\ t.reply.text = "none"
     /\ \/ Goto(i, "again")
        \/ Become(i, Sent(t, t.reply, t.n, <<Trace>>))
        \/ FailStream(i, t)
     /\ UNCHANGED breakerVars

\* The last answer r of exchange k is re-sent as a stream, which the client
\* may leave.  Its calls count as text for the extraction.
SendAsStream(i, t, r, k) ==
  LET shown == Without(r, {"recall"})
      facts == IF shown.text # "none" \/ shown.calls # {}
                 THEN <<Extraction(k)>> ELSE <<>>
  IN \E jobs \in {Append(facts, Trace), <<Trace>>, <<>>} :
       Become(i, Sent(t, shown, k, jobs))

\* The answer to the recall is sent upstream; the model may recall once more.
RecallAgain(i) ==
  LET t == Unanswered(task[i])
  IN /\ At(i, "again")
     /\ \/ \E a \in Offers(t) :
             /\ ~a.odd
             /\ \/ SendAsStream(i, t, a, t.exchanges)
                \/ /\ "recall" \in a.calls
                   /\ Become(i, [t EXCEPT !.pc = "again2", !.reply = a,
                                          !.n = t.exchanges])
        \/ FailStream(i, t)
     /\ UNCHANGED breakerVars

\* The second round; after a time-out or an error status the second answer
\* is kept.
RecallLast(i) ==
  LET t == Unanswered(task[i])
  IN /\ At(i, "again2")
     /\ \/ \E a \in Offers(t) : SendAsStream(i, t, a, t.exchanges)
        \/ SendAsStream(i, t, t.reply, t.n)
        \/ FailStream(i, t)
     /\ UNCHANGED breakerVars

-----------------------------------------------------------------------------
(* The background tasks run after the response, one after the other.       *)

RunJob(i) ==
  /\ At(i, "jobs")
  /\ Become(i, IF Len(task[i].jobs) <= 1 THEN Idle
               ELSE [task[i] EXCEPT !.jobs = Tail(@)])
  /\ UNCHANGED breakerVars

ClockTick == Tick /\ UNCHANGED task

Step(i) ==
  \/ Resolve(i) \/ CheckBudget(i, 1) \/ Inject(i)
  \/ PassSingle(i) \/ PassStream(i)
  \/ Call(i) \/ RefuseLeak(i) \/ Recall(i) \/ RecallResend(i)
  \/ Synthetic(i) \/ SyntheticResend(i) \/ Read(i) \/ Respond(i)
  \/ Open(i) \/ Relay(i) \/ HoldBack(i) \/ RecallAgain(i) \/ RecallLast(i)
  \/ RunJob(i)

Next ==
  \/ \E i \in Slots : Step(i) \/ Refuse(i) \/ \E r \in Traffic : Arrive(i, r)
  \/ ClockTick

Spec == Init /\ [][Next]_vars

-----------------------------------------------------------------------------
(* Properties.                                                             *)

Delivered(i) == At(i, "jobs") /\ task[i].sentOf # 0

\* Through every combination of interceptions, fallbacks and streams, a
\* request has at most one extraction, and what it extracts is the answer
\* the client was given, not one that was replaced or never sent.
ExtractsWhatWasSent ==
  \A i \in Slots :
    LET extracted == {k \in 1..Len(task[i].jobs) :
                        task[i].jobs[k].kind = "extract"}
    IN /\ Cardinality(extracted) <= 1
       /\ \A k \in extracted :
            Delivered(i) /\ task[i].jobs[k].of = task[i].sentOf

\* A client sees no call of an injected tool but in two cases: in a stream
\* that was relayed as it came, and a synthetic call whose interception
\* raised.
InternalHidden ==
  \A i \in Slots :
    Delivered(i) /\ task[i].sent.calls \cap task[i].offered # {} =>
      \/ task[i].req.stream /\ "synthetic" \notin task[i].offered
         /\ task[i].sentOf = 1
      \/ task[i].raised /\ task[i].sent.calls \cap task[i].offered = {"synthetic"}

\* No request costs more than three calls of upstream, retries of one call
\* aside, whatever tools its answers call.
MaxExchanges == 3

\* The effort for a model that misbehaves is bounded.  The hard limit ends the
\* failures of a session: those counted and those the requests in flight may
\* still report stay below the limit and the number of slots, however requests,
\* recoveries and successes interleave; and a request ends its rounds of tool
\* calls ("max 2 total per turn to prevent loops", recall.py 146).
EffortBounded ==
  /\ \A i \in Slots : task[i].exchanges <= MaxExchanges
  /\ \A s \in Sessions :
       circuit[s].total + Cardinality({i \in Slots :
           /\ task[i].sess = s
           /\ "synthetic" \in task[i].offered
           /\ task[i].pc \in Undecided})
         <= MaxTotal - 1 + Cardinality(Slots)
=============================================================================
