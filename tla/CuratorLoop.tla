----------------------------- MODULE CuratorLoop -----------------------------
(***************************************************************************)
(* One run of the curator's agent loop (archolith_proxy/curator/loop.py):  *)
(* the model is called with the conversation so far, the tools it calls    *)
(* are run one after the other, and their results are appended, until it   *)
(* stops with a text, something fails, the iterations are used up or the   *)
(* caller's budget of time ends.                                           *)
(*                                                                         *)
(* A message of the conversation is the calls it makes, or the call it     *)
(* answers; the texts, the token counts and the notes of repeated fetches  *)
(* are left out.                                                           *)
(***************************************************************************)
EXTENDS Integers, Sequences, FiniteSets, SequencesExt

CONSTANTS
  AllowedTools,   \* names of the tool set of the run
  AllTools,       \* every name the model may call
  MaxIterations,
  MaxRetries,     \* of one call of the model
  MaxCalls,       \* bound on the tool calls of a reply
  Unselected      \* retained_turn_numbers before a selection

ASSUME LoopAssumption ==
  /\ AllowedTools \subseteq AllTools
  /\ {MaxIterations, MaxRetries, MaxCalls} \subseteq Nat

ErrorWindow == 4  \* _ERROR_WINDOW_SIZE

VARIABLES
  at,         \* "calling" the model, "dispatching" a call, or "done"
  iteration,  \* of the loop, from 0
  attempt,    \* of the call of the model
  talk,       \* the messages after the prompts
  todo,       \* the calls of the reply that are still to be run
  window,     \* error_window: tools and whether they failed
  toolLog,    \* tool_log: the tools and their status
  retained,   \* retained_turn_numbers, as the number of the call that set it
  outcome     \* what the caller gets: "result", or why there is none

loopVars == <<at, iteration, attempt, talk, todo, window, toolLog, retained, outcome>>

LoopInit ==
  /\ at = "calling" /\ iteration = 0 /\ attempt = 0
  /\ talk = <<>> /\ todo = <<>> /\ window = <<>> /\ toolLog = <<>>
  /\ retained = Unselected /\ outcome = "running"

-----------------------------------------------------------------------------
CallsOf(ids)  == [says |-> "calls", ids |-> ids]
AnswerTo(id)  == [says |-> "result", ids |-> <<id>>]
Nudge         == [says |-> "nudge", ids |-> <<>>]

Finish(how) ==
  /\ at' = "done" /\ outcome' = how
  /\ UNCHANGED <<iteration, attempt, talk, todo, window, toolLog, retained>>

\* The loop goes on with the next iteration, if there is one.
NextIteration ==
  /\ iteration' = iteration + 1 /\ attempt' = 0
  /\ at' = IF iteration + 1 < MaxIterations THEN "calling" ELSE "done"
  /\ outcome' = IF iteration + 1 < MaxIterations THEN outcome ELSE "max_iterations"

\* _llm_call_with_retry: a retryable error is retried after a delay, the last
\* one and any other end the loop, and so does a reply without choices.
CallFails ==
  /\ at = "calling"
  /\ \/ attempt < MaxRetries /\ attempt' = attempt + 1
        /\ UNCHANGED <<at, iteration, talk, todo, window, toolLog, retained, outcome>>
     \/ Finish("llm_error")
     \/ Finish("empty_response")

\* A reply that stops: with a text it is the result; without one the model is
\* nudged, after its first reply only.
CallStops(text) ==
  /\ at = "calling"
  /\ IF text THEN Finish("result")
     ELSE IF iteration = 0
       THEN /\ talk' = Append(talk, Nudge)
            /\ NextIteration
            /\ UNCHANGED <<todo, window, toolLog, retained>>
     ELSE Finish("empty_final")

CallCutOff ==
  at = "calling" /\ (Finish("context_length") \/ Finish("unexpected_finish"))

Answers == {i \in 1..Len(talk) : talk[i].says = "result"}

\* A reply with tool calls, under new ids.
CallsTools(tools) ==
  LET calls == [n \in 1..Len(tools) |-> [tool |-> tools[n], id |-> Cardinality(Answers) + n]]
  IN /\ at = "calling" /\ tools # <<>>
     /\ talk' = Append(talk, CallsOf([n \in 1..Len(tools) |-> calls[n].id]))
     /\ todo' = calls
     /\ at' = "dispatching"
     /\ UNCHANGED <<iteration, attempt, window, toolLog, retained, outcome>>

-----------------------------------------------------------------------------
(* Running a call.                                                         *)

Call == Head(todo)

\* Mutant of Reply: a refused call is not answered.
ReplyUnlessRefused(refused) ==
  talk' = IF refused THEN talk ELSE Append(talk, AnswerTo(Call.id))

\* The result of a call, an error too, is appended.
Reply(refused) == talk' = Append(talk, AnswerTo(Call.id))

\* The call is logged, and the next one's turn comes, or the next iteration's.
Move(status) ==
  /\ toolLog' = Append(toolLog, <<Call.tool, status>>)
  /\ todo' = Tail(todo)
  /\ IF Len(todo) > 1 THEN UNCHANGED <<at, iteration, attempt, outcome>> ELSE NextIteration

\* Arguments that are not JSON, or a tool that is not in the set: the first
\* only leaves its mark in the window, which neither looks at.
Refuse ==
  /\ at = "dispatching"
  /\ \/ /\ window' = Append(window, <<Call.tool, "error">>)
        /\ UNCHANGED retained
     \/ /\ Call.tool \notin AllowedTools
        /\ UNCHANGED <<window, retained>>
  /\ Reply(TRUE)
  /\ Move("error")

\* The handler returns, an empty-handed text ("not cached") too.
Return ==
  /\ at = "dispatching" /\ Call.tool \in AllowedTools
  /\ window' = Append(window, <<Call.tool, "ok">>)
  /\ retained' = IF Call.tool = "select_relevant_turns" THEN Call.id ELSE retained
  /\ Reply(FALSE)
  /\ \/ Move("ok")
     \/ Call.tool # "select_relevant_turns" /\ Move("soft_error")

\* Nothing but errors of one tool.
Stuck(recent) == \A i \in 1..Len(recent) : recent[i] = <<recent[1][1], "error">>

\* The handler raises: the loop ends when it is stuck, before the error is
\* appended as a result.
Raise ==
  /\ at = "dispatching" /\ Call.tool \in AllowedTools
  /\ window' = Append(window, <<Call.tool, "error">>)
  /\ UNCHANGED retained
  /\ IF Len(window') >= ErrorWindow
        /\ Stuck(SubSeq(window', Len(window') - ErrorWindow + 1, Len(window')))
       THEN /\ toolLog' = Append(toolLog, <<Call.tool, "error">>)
            /\ at' = "done" /\ outcome' = "stuck_loop"
            /\ UNCHANGED <<iteration, attempt, talk, todo>>
       ELSE Reply(FALSE) /\ Move("error")

\* wait_for of the caller: what was done so far is lost with the log.
BudgetEnds ==
  /\ at # "done"
  /\ at' = "done" /\ outcome' = "timeout" /\ toolLog' = <<>>
  /\ UNCHANGED <<iteration, attempt, talk, todo, window, retained>>

LoopNext ==
  \/ CallFails \/ CallCutOff \/ \E text \in BOOLEAN : CallStops(text)
  \/ \E n \in 1..MaxCalls : \E tools \in [1..n -> AllTools] : CallsTools(tools)
  \/ Refuse \/ Return \/ Raise \/ BudgetEnds

LoopSpec == LoopInit /\ [][LoopNext]_loopVars

-----------------------------------------------------------------------------
(* The properties.                                                         *)

\* The ids that are called, and those that are answered, in their order.
CalledIds   == FlattenSeq([i \in 1..Len(talk) |-> IF talk[i].says = "calls" THEN talk[i].ids ELSE <<>>])
AnsweredIds == FlattenSeq([i \in 1..Len(talk) |-> IF talk[i].says = "result" THEN talk[i].ids ELSE <<>>])

\* The model is never called again, by an iteration or a retry, before each
\* call it made has its one result, whatever became of it (a provider refuses
\* such a conversation, which would end every such run as llm_error); and the
\* log the caller traces has one entry for each.
LoopAnswersCalls ==
  at = "calling" => /\ AnsweredIds = CalledIds
                    /\ Len(toolLog) = Len(CalledIds)
=============================================================================
