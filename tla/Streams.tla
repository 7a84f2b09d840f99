------------------------------- MODULE Streams -------------------------------
(***************************************************************************)
(* A streamed answer on its way to the client (proxy/streaming.py, its use *)
(* in openai/streaming.py): the lines are captured for the extraction, and *)
(* held back until it is clear that they do not begin with a call of the   *)
(* recall tool; if they do, the proxy answers the call, asks again without *)
(* streaming, and makes a stream of the new answer.                        *)
(*                                                                         *)
(* Upstream cuts its answer into lines as it likes.  A text, and the       *)
(* arguments of a call, are sequences of numbered pieces.  Failures of the *)
(* upstream, and what becomes of the answers, are in RequestPath.          *)
(***************************************************************************)
EXTENDS Integers, Sequences, SequencesExt

CONSTANTS
  RecallTool, OtherTool,
  NoName,      \* a delta without a name
  NoText,      \* a line without content: null, or no such field
  Done,        \* the text of the line [DONE]
  MaxLines,    \* bound on the lines of upstream before [DONE]
  MaxParallel, \* bound on the calls of an answer
  Sizes,       \* sizes of lines
  MaxBuffer,   \* MAX_BUFFER_SIZE
  Resends      \* the answers to the second request

StreamTools == {RecallTool, OtherTool}

\* One line: its content, the delta of at most one call, the finish reason.
Line(text, deltas, finish) == [text |-> text, deltas |-> deltas, finish |-> finish]
CallDelta(index, name, args) == [index |-> index, name |-> name, args |-> args]
DoneLine == Line(Done, <<>>, "")

\* An answer; before anything of it is known.
StreamAnswer(text, calls, finish) == [text |-> text, calls |-> calls, finish |-> finish]
Blank == StreamAnswer(<<>>, <<>>, "")
Called(name, args) == [name |-> name, args |-> args]

ASSUME StreamsAssumption ==
  /\ {MaxLines, MaxParallel, MaxBuffer} \subseteq Nat \ {0}
  /\ Sizes \subseteq Nat \ {0}
  /\ NoName \notin StreamTools
  /\ NoText \notin Seq(Nat) /\ Done \notin Seq(Nat) \cup {NoText}
  /\ Resends \subseteq [text   : Seq(Nat),
                       calls  : Seq([name : StreamTools \ {RecallTool}, args : Seq(Nat)]),
                       finish : {"stop", "tool_calls"}]

VARIABLES
  said,      \* what upstream has said so far, and the answer once it is over
  lines,     \* how many lines that took
  verdict,   \* "open" before the decision, then "pass" or "recall"
  held,      \* the lines held back
  joined,    \* the calls put together from them, by index
  relayed,   \* the lines the client got
  capture,   \* lines captured: [lines, size, truncated], or the text of an answer
  again,     \* the message that was sent again with the recall, if any
  over       \* whether the client's stream has ended

streamVars == <<said, lines, verdict, held, joined, relayed, capture, again, over>>

Capture(ls, size, truncated) == [lines |-> ls, size |-> size, truncated |-> truncated]

StreamInit ==
  /\ said = Blank
  /\ lines = 0
  /\ verdict \in {"open", "pass"}  \* "pass" at once: no recall tool was offered
  /\ held = <<>>
  /\ joined = <<>>
  /\ relayed = <<>>
  /\ capture = Capture(<<>>, 0, FALSE)
  /\ again = <<>>
  /\ over = FALSE

-----------------------------------------------------------------------------
(* Putting pieces together.                                                *)

Extended(call, d) ==
  Called(IF d.name = NoName THEN call.name ELSE d.name, call.args \o d.args)

\* add_delta: an index not seen before begins a call; indexes come in order.
Added(calls, d) ==
  IF d.index \in DOMAIN calls THEN [calls EXCEPT ![d.index] = Extended(@, d)]
  ELSE Append(calls, Extended(Called(NoName, <<>>), d))

AddedAll(calls, l) == IF l.deltas = <<>> THEN calls ELSE Added(calls, l.deltas[1])

CallsRead(ls) ==
  LET calls[n \in 0..Len(ls)] == IF n = 0 THEN <<>> ELSE AddedAll(calls[n - 1], ls[n])
  IN calls[Len(ls)]

\* What get_full_text reads, or _assemble_streaming_response.
TextOf(ls) ==
  FlattenSeq([i \in 1..Len(ls) |-> IF ls[i].text \in {NoText, Done} THEN <<>> ELSE ls[i].text])

\* The last reason that was given.
FinishOf(ls) ==
  LET reasons == {i \in 1..Len(ls) : ls[i].finish # ""}
  IN IF reasons = {} THEN "stop" ELSE ls[Max(reasons)].finish

\* The answer a client puts together.
Read(ls) == StreamAnswer(TextOf(ls), CallsRead(ls), FinishOf(ls))

\* Mutant of Cut: lines that fit are captured after one that did not.
CutOne(c, l, size) ==
  IF c.size + size > MaxBuffer THEN [c EXCEPT !.truncated = TRUE]
  ELSE Capture(Append(c.lines, l), c.size + size, c.truncated)

\* add_chunk: from the line that does not fit on, nothing is captured.
Cut(c, l, size) ==
  IF c.truncated \/ c.size + size > MaxBuffer THEN [c EXCEPT !.truncated = TRUE]
  ELSE Capture(Append(c.lines, l), c.size + size, FALSE)

-----------------------------------------------------------------------------
(* A line of upstream arrives.                                             *)

\* The first call decides once it has a name; content, were it empty, does so
\* unless the same line names the recall tool.
Decision(l, calls) ==
  IF l.deltas # <<>> /\ calls[1].name # NoName
    THEN IF calls[1].name = RecallTool THEN "recall" ELSE "pass"
  ELSE IF l.text # NoText THEN "pass" ELSE "open"

\* A recall tool that comes later, or late, is relayed like any other call.
Receive(l, size, late) ==
  LET calls   == IF verdict = "pass" THEN joined ELSE AddedAll(joined, l)
      seen    == IF l.text = Done THEN "open" ELSE Decision(l, calls)
      decided == IF seen = "open" /\ late THEN "pass" ELSE seen
      shown   == verdict = "pass" \/ (verdict = "open" /\ decided = "pass")
  IN /\ late => verdict = "open"
     /\ capture' = IF l.text = Done THEN capture ELSE Cut(capture, l, size)
     /\ joined' = calls
     /\ verdict' = IF verdict = "open" THEN decided ELSE verdict
     /\ relayed' = IF shown THEN relayed \o Append(held, l) ELSE relayed
     /\ held' = IF shown THEN <<>> ELSE Append(held, l)

\* Upstream says more: with the next line, or its own last one.
Says(l, answer) ==
  /\ said.finish = "" /\ lines < MaxLines
  /\ said' = answer
  /\ lines' = lines + 1
  /\ \E size \in Sizes, late \in BOOLEAN : Receive(l, size, late)
  /\ UNCHANGED <<again, over>>

Piece == <<lines>>  \* pieces are numbered by the lines they came in

SaysRole(text) == lines = 0 /\ Says(Line(text, <<>>, ""), said)

SaysText == Says(Line(Piece, <<>>, ""), [said EXCEPT !.text = @ \o Piece])

\* A call begins, with its name or before it; the next delta has it at last.
BeginsCall(name, named) ==
  /\ Len(said.calls) < MaxParallel
  /\ Says(Line(NoText, <<CallDelta(Len(said.calls) + 1, IF named THEN name ELSE NoName, <<>>)>>, ""),
          [said EXCEPT !.calls = Append(@, Called(name, <<>>))])

GoesOn(i) ==
  Says(Line(NoText, <<CallDelta(i, said.calls[i].name, Piece)>>, ""),
       [said EXCEPT !.calls[i].args = @ \o Piece])

SaysFinish ==
  LET reason == IF said.calls = <<>> THEN "stop" ELSE "tool_calls"
  IN /\ \A c \in Range(said.calls) : c.args # <<>>
     /\ Says(Line(NoText, <<>>, reason), [said EXCEPT !.finish = reason])

SaysDone ==
  /\ said.finish # "" /\ ~over /\ again = <<>>
  /\ (relayed # <<>> => Last(relayed) # DoneLine) /\ (held # <<>> => Last(held) # DoneLine)
  /\ \E size \in Sizes, late \in BOOLEAN : Receive(DoneLine, size, late)
  /\ UNCHANGED <<said, lines, again, over>>

\* The last line of upstream was [DONE].
UpstreamEnded == \E ls \in {relayed, held} : ls # <<>> /\ Last(ls) = DoneLine

-----------------------------------------------------------------------------
(* The end of upstream's stream.                                           *)

\* What was not decided by then stays held.
EndsPassing ==
  /\ UpstreamEnded /\ ~over
  /\ verdict # "recall"
  /\ over' = TRUE
  /\ UNCHANGED <<said, lines, verdict, held, joined, relayed, capture, again>>

\* A recall without a question is given to the client after all.
EndsUnasked(asked) ==
  /\ UpstreamEnded /\ ~over /\ verdict = "recall" /\ again = <<>>
  /\ ~asked
  /\ relayed' = relayed \o held
  /\ held' = <<>>
  /\ over' = TRUE
  /\ UNCHANGED <<said, lines, verdict, joined, capture, again>>

\* The model's message is put together for the second request.
SendsAgain(asked) ==
  /\ UpstreamEnded /\ ~over /\ verdict = "recall" /\ again = <<>>
  /\ asked
  /\ again' = <<StreamAnswer(TextOf(capture.lines), joined,
                             IF joined # <<>> THEN "tool_calls" ELSE FinishOf(capture.lines))>>
  /\ UNCHANGED <<said, lines, verdict, held, joined, relayed, capture, over>>

\* Mutant of CallLines: every call has the index of the first.
CallLinesFirst(i, c) ==
  Append(<<Line(NoText, <<CallDelta(1, c.name, <<>>)>>, "")>>,
         Line(NoText, <<CallDelta(1, NoName, c.args)>>, ""))

CallLines(i, c) ==
  <<Line(NoText, <<CallDelta(i, c.name, <<>>)>>, "")>>
    \o (IF c.args = <<>> THEN <<>> ELSE <<Line(NoText, <<CallDelta(i, NoName, c.args)>>, "")>>)

\* _non_streaming_to_sse
AsLines(a) ==
  <<Line(NoText, <<>>, "")>>
    \o (IF a.text = <<>> THEN <<>> ELSE <<Line(a.text, <<>>, "")>>)
    \o FlattenSeq([i \in DOMAIN a.calls |-> CallLines(i, a.calls[i])])
    \o <<Line(NoText, <<>>, a.finish), DoneLine>>

\* The answer to the second request is streamed, and captured as it is.
Resent(a) ==
  /\ again # <<>> /\ ~over
  /\ said' = a
  /\ relayed' = AsLines(a)
  /\ held' = <<>>
  /\ capture' = Capture(<<Line(a.text, <<>>, a.finish)>>, 0, FALSE)
  /\ over' = TRUE
  /\ UNCHANGED <<lines, verdict, joined, again>>

StreamNext ==
  \/ \E text \in {NoText, <<>>} : SaysRole(text)
  \/ SaysText
  \/ \E name \in StreamTools, named \in BOOLEAN : BeginsCall(name, named)
  \/ \E i \in DOMAIN said.calls : GoesOn(i)
  \/ SaysFinish
  \/ SaysDone
  \/ EndsPassing
  \/ \E asked \in BOOLEAN : EndsUnasked(asked) \/ SendsAgain(asked)
  \/ \E a \in Resends : Resent(a)

StreamSpec == StreamInit /\ [][StreamNext]_streamVars

-----------------------------------------------------------------------------
(* Properties.                                                             *)

\* What the client puts together when its stream is over is the answer of the
\* model that answered last, however upstream cut it into lines, and as far as
\* a decision let it through ("flush buffer and switch to passthrough").
ClientReadsAnswer == over /\ verdict # "open" => Read(relayed) = said

\* The text captured for the extraction is the beginning of the answer, and
\* all of it if nothing was cut off (ResponseCapture); and so is the text of the
\* assistant message sent again with a recall, whose calls are the model's,
\* put together from their pieces (_assemble_streaming_response).
CaptureHasNoHole ==
  LET holds(text) == IF capture.truncated THEN IsPrefix(text, said.text) ELSE text = said.text
  IN /\ holds(TextOf(capture.lines))
     /\ \A m \in Range(again) :
          ~over => m.calls = said.calls /\ m.finish = said.finish /\ holds(m.text)
=============================================================================
