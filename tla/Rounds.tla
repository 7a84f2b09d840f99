------------------------------- MODULE Rounds --------------------------------
(***************************************************************************)
(* The messages of the exchanges by which the proxy answers calls of its   *)
(* own tools, and reads of cached files, before the client sees them       *)
(* (proxy/recall.py, proxy/tool_injection.py, proxy/synthetic_tools.py,    *)
(* proxy/tool_intercept.py): what is appended to the conversation, which   *)
(* tools are offered with it, and what becomes of the last answer.         *)
(*                                                                         *)
(* One request without streaming.  When upstream fails and what is         *)
(* extracted are in RequestPath; the recall's facts are in Recall.         *)
(***************************************************************************)
EXTENDS Naturals, Sequences, SequencesExt, Lists

CONSTANTS
  MaxCalls   \* bound on the calls of an answer

ASSUME RoundsAssumption == MaxCalls \in Nat \ {0}

RoundTools == {"recall", "work", "read", "other"}
OwnTools   == {"recall", "work"}

\* A call: its tool, and whether it has the argument it needs, a question or a
\* path.  It is identified by the exchange it came in and its place there.
Calls == [tool : RoundTools, good : {TRUE}] \cup [tool : {"recall", "read"}, good : {FALSE}]
Message(calls, text) == [calls |-> calls, text |-> text]
NoMessage == Message(<<>>, FALSE)

\* Where the answers for a summary come from.
SummarySources == {"trace", "checkpoint", "files", "facts", "decisions"}

VARIABLES
  stage,    \* where the request stands
  injected, \* the proxy's tools in the request
  offered,  \* those in the last request sent upstream
  exchange, \* the number of that one
  reply,    \* the answer the interceptions start from
  thread,   \* the messages appended in the last request sent
  shown     \* what the client got

roundVars == <<stage, injected, offered, exchange, reply, thread, shown>>

RoundInit ==
  /\ stage = "call"
  /\ injected \in SUBSET OwnTools
  /\ offered = injected
  /\ exchange = 1
  /\ reply = NoMessage
  /\ thread = <<>>
  /\ shown = NoMessage

-----------------------------------------------------------------------------
(* Calls and messages.                                                     *)

\* What a model may say in the current exchange.  It may call a tool of the
\* proxy that it is not offered.
Sayable ==
  {Message([i \in DOMAIN cs |-> [tool |-> cs[i].tool, good |-> cs[i].good, id |-> <<exchange, i>>]],
           text) : cs \in BoundedSeq(Calls, MaxCalls), text \in BOOLEAN}

CallsOfTools(a, tools) == Only(a.calls, {c \in Range(a.calls) : c.tool \in tools})

\* strip_recall_from_response, strip_synthetic_from_response
Stripped(a, tools) == Message(CallsOfTools(a, RoundTools \ tools), a.text)

\* build_tool_result_message and its like.
ResultOf(call, sections) == [answers |-> call.id, sections |-> sections]

IsAnswer(m) == "calls" \in DOMAIN m

\* The next exchange, with these messages appended and these tools offered.
Send(where, messages, tools) ==
  /\ stage' = where
  /\ thread' = messages
  /\ offered' = tools
  /\ exchange' = exchange + 1

Keep(where) == stage' = where /\ UNCHANGED <<offered, exchange, thread>>

\* The client gets an answer.
Show(a) ==
  /\ Keep("shown")
  /\ shown' = a
  /\ UNCHANGED <<injected, reply>>

-----------------------------------------------------------------------------
(* The first answer, and the recalls it asks for.                          *)

Answer(a) ==
  /\ stage = "call"
  /\ reply' = a
  /\ Keep("recall")
  /\ UNCHANGED <<injected, shown>>

\* handle_non_streaming_recall: the first call of the recall tool is answered,
\* if it has a question.
StartRecall ==
  LET recalls == CallsOfTools(reply, {"recall"})
      call    == recalls[1]
  IN /\ stage = "recall"
     /\ IF "recall" \in injected /\ recalls # <<>> /\ recalls[1].good
          THEN Send("recalled", <<reply, ResultOf(call, {})>>, injected \ {"recall"})
          ELSE Keep("work")
     /\ UNCHANGED <<injected, reply, shown>>

\* resend_with_recall: the model may recall once more; in the second round
\* the answer is final, whatever it calls.
AnswerRecalled(a) ==
  LET recalls == CallsOfTools(a, {"recall"})
  IN /\ stage \in {"recalled", "recalled again"}
     /\ IF stage = "recalled" /\ recalls # <<>> /\ recalls[1].good
          THEN /\ Send("recalled again", thread \o <<a, ResultOf(recalls[1], {})>>, offered)
               /\ UNCHANGED <<injected, reply, shown>>
          ELSE Show(Stripped(a, OwnTools))

\* Any failure leaves the first answer.
RecallFails ==
  /\ stage \in {"recalled", "recalled again"}
  /\ Keep("work")
  /\ UNCHANGED <<injected, reply, shown>>

-----------------------------------------------------------------------------
(* The summary of the session.                                             *)

\* The sections of the summary when these sources fail, of a session that has
\* something for each: a query that fails leaves out its own sections.  Files
\* are listed from the cache and from the traces.
Summary(ready, failing) ==
  LET from(source, sections) == IF source \in failing THEN {} ELSE sections
      traced == from("trace", {"files", "activity"})
  IN {"turns"} \cup
     (IF ~ready THEN {"unavailable"}
      ELSE traced
             \cup from("checkpoint", {"state"})
             \cup from("files", {"files"})
             \cup from("facts", {"observations", "file states", "results", "errors"})
             \cup from("decisions", {"decisions"}))

\* Mutant of Mixed: other calls beside the summary's are not looked for.
MixedNever(a) == FALSE

\* Beside other calls, the summary's is only stripped.
Mixed(a) == CallsOfTools(a, RoundTools \ {"work"}) # <<>>

\* handle_non_streaming_synthetic: the first call is answered.
StartWork(ready, failing) ==
  LET works == CallsOfTools(reply, {"work"})
  IN /\ stage = "work"
     /\ IF "work" \notin injected \/ works = <<>>
          THEN Keep("read") /\ UNCHANGED <<injected, reply, shown>>
        ELSE IF Mixed(reply) THEN Show(Stripped(reply, OwnTools))
        ELSE /\ Send("worked", <<reply, ResultOf(works[1], Summary(ready, failing))>>,
                     injected \ {"work"})
             /\ UNCHANGED <<injected, reply, shown>>

AnswerWorked(a) ==
  /\ stage = "worked"
  /\ Show(Stripped(a, OwnTools))

\* _fallback_strip_synthetic: an answer that only called for the summary gets
\* a text of the proxy instead.
WorkFails ==
  LET left == Stripped(reply, {"work"})
  IN /\ stage = "worked"
     /\ Show(Message(CallsOfTools(left, RoundTools \ OwnTools), left.text \/ left.calls = <<>>))

\* Any other exception leaves the first answer to the next interception.
WorkRaises ==
  /\ stage = "worked"
  /\ Keep("read")
  /\ UNCHANGED <<injected, reply, shown>>

-----------------------------------------------------------------------------
(* Reads of cached files.                                                  *)

\* handle_native_read_intercept: an answer that only reads files, all of them
\* cached, and that does not follow a write.  The tools stay offered.
StartRead(served) ==
  /\ stage = "read"
  /\ IF served /\ "work" \in injected /\ reply.calls # <<>>
        /\ \A c \in Range(reply.calls) : c.tool = "read" /\ c.good
       THEN Send("served",
                 <<reply>> \o [i \in DOMAIN reply.calls |-> ResultOf(reply.calls[i], {})],
                 injected)
       ELSE Keep("respond")
  /\ UNCHANGED <<injected, reply, shown>>

AnswerServed(a) ==
  /\ stage = "served"
  /\ Show(Stripped(a, OwnTools))

ServedFails ==
  /\ stage = "served"
  /\ Keep("respond")
  /\ UNCHANGED <<injected, reply, shown>>

\* The first answer goes to the client, without calls of an injected recall.
Respond ==
  /\ stage = "respond"
  /\ Show(Stripped(reply, injected \cap {"recall"}))

\* The next request.
NextRequest(tools) ==
  /\ stage = "shown"
  /\ stage' = "call"
  /\ injected' = tools
  /\ offered' = tools
  /\ exchange' = 1
  /\ reply' = NoMessage
  /\ thread' = <<>>
  /\ shown' = NoMessage

RoundNext ==
  \/ \E a \in Sayable : Answer(a) \/ AnswerRecalled(a) \/ AnswerWorked(a) \/ AnswerServed(a)
  \/ StartRecall \/ RecallFails
  \/ \E ready \in BOOLEAN, failing \in SUBSET SummarySources : StartWork(ready, failing)
  \/ WorkFails \/ WorkRaises
  \/ \E served \in BOOLEAN : StartRead(served)
  \/ ServedFails \/ Respond
  \/ \E tools \in SUBSET OwnTools : NextRequest(tools)

RoundSpec == RoundInit /\ [][RoundNext]_roundVars

-----------------------------------------------------------------------------
(* Properties.                                                             *)

Sending == stage \in {"recalled", "recalled again", "worked", "served"}

AnswersCall(i, c) == ~IsAnswer(thread[i]) /\ thread[i].answers = c.id

\* The calls of an answer sent again that no result answers.
Unanswered(j) == {c \in Range(thread[j].calls) : \A i \in DOMAIN thread : ~AnswersCall(i, c)}

\* In a conversation sent again each result answers a call of the last answer
\* before it, once, and the tool just answered for is not offered again.  A
\* call has no result only where the model called a tool of the proxy beside
\* others: with the summary just further calls for the summary are left out,
\* and where files are served none is.  Beside a recall any call is left out,
\* which upstream refuses with a 400, as synthetic_tools.py:450-453 says of "the
\* other tool_call_ids unanswered" (build_resend_messages, resend_with_recall,
\* handle_non_streaming_synthetic, handle_native_read_intercept).
ResendsArePaired ==
  Sending =>
    /\ \A i \in DOMAIN thread : ~IsAnswer(thread[i]) =>
         /\ \E j \in 1..(i - 1) :
              /\ IsAnswer(thread[j])
              /\ \A k \in (j + 1)..(i - 1) : ~IsAnswer(thread[k])
              /\ thread[i].answers \in {c.id : c \in Range(thread[j].calls)}
         /\ \A k \in DOMAIN thread \ {i} : ~IsAnswer(thread[k]) => thread[k].answers # thread[i].answers
    /\ \A j \in DOMAIN thread : IsAnswer(thread[j]) /\ Unanswered(j) # {} => Len(thread[j].calls) > 1
    /\ stage = "worked" => \A c \in Unanswered(1) : c.tool = "work"
    /\ stage = "served" => Unanswered(1) = {}
    /\ stage \in {"recalled", "recalled again"} => "recall" \notin offered
    /\ stage = "worked" => "work" \notin offered
=============================================================================
