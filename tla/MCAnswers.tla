------------------------------ MODULE MCAnswers ------------------------------
(* What a request is answered from, in parts that share no state: a behaviour *)
(* runs one of them, and leaves the others at rest.                           *)
EXTENDS CuratorState, Recall, Streams, Rounds, Tools, TLC

CONSTANTS
  s1, s2,                  \* sessions
  ws, ext, sub, lnk, a, b  \* names of directories, a link, and files

VARIABLE part  \* what runs

StateRuns == part = "state" /\ UNCHANGED <<part, recallVars, streamVars, roundVars, toolVars>>
RecallRuns == part = "recall" /\ UNCHANGED <<part, stateVars, streamVars, roundVars, toolVars>>
StreamRuns == part = "stream" /\ UNCHANGED <<part, stateVars, recallVars, roundVars, toolVars>>
RoundsRun == part = "rounds" /\ UNCHANGED <<part, stateVars, recallVars, streamVars, toolVars>>
ToolsRun == part = "tools" /\ UNCHANGED <<part, stateVars, recallVars, streamVars, roundVars>>

Init ==
  /\ part \in {"state", "recall", "stream", "rounds", "tools"}
  /\ StateInit /\ RecallInit /\ StreamInit /\ RoundInit /\ ToolInit
  /\ part # "stream" => verdict = "open"
  /\ part # "rounds" => injected = {}
  /\ part # "tools" => roots = Unknown

Next ==
  \/ StateRuns /\ StateNext
  \/ RecallRuns /\ RecallNext
  \/ StreamRuns /\ StreamNext
  \/ RoundsRun /\ RoundNext
  \/ ToolsRun /\ ToolNext

vars == <<part, stateVars, recallVars, streamVars, roundVars, toolVars>>

Spec == Init /\ [][Next]_vars

AnswersSymmetry == Permutations(Keys)

(* -------------------------------- inputs -------------------------------- *)

\* The ends of conversations: six messages that are the user's or reads of one
\* of three files, and a last one.
MCConversations == {Append(c, m) : c \in [1..6 -> 0..3], m \in -1..3}

Fact(id, kind, turn, confidence, alike, vector, length) ==
  [id |-> id, kind |-> kind, turn |-> turn, confidence |-> confidence, alike |-> alike,
   vector |-> vector, length |-> length]

MCDecay == <<100, 59, 48, 42, 38, 36>>

\* Facts of all kinds, with and without vectors, of several turns.
MCFacts ==
  <<Fact(1, "goal", 1, 90, 10, TRUE, 3), Fact(2, "observation", 3, 60, 90, TRUE, 2),
    Fact(3, "error", 1, 70, 20, TRUE, 4), Fact(4, "tool_result", 2, 80, 70, TRUE, 1),
    Fact(5, "decision", 2, 50, 40, FALSE, 3), Fact(6, "state", 0, 80, 50, FALSE, 2)>>

\* Every choice of them, newest or shortest first.
MCPools ==
  LET newest(i, j) == MCFacts[i].turn > MCFacts[j].turn \/ (MCFacts[i].turn = MCFacts[j].turn /\ i < j)
      shortest(i, j) == MCFacts[i].length < MCFacts[j].length
                          \/ (MCFacts[i].length = MCFacts[j].length /\ i < j)
      inOrder(ns) == [n \in DOMAIN ns |-> MCFacts[ns[n]]]
  IN UNION {{inOrder(SetToSortSeq(is, newest)), inOrder(SetToSortSeq(is, shortest))} :
              is \in SUBSET DOMAIN MCFacts}
MCQuestions == [pool : MCPools, turn : {0, 1, 3}, embedded : BOOLEAN]
MCForced == [pool : {<<>>, <<MCFacts[4]>>}, turn : {1, 3}, embedded : {FALSE}]

\* What the second answer of a stream may be: nothing, or a text and calls.
MCResends ==
  {StreamAnswer(<<>>, <<>>, "stop"),
   StreamAnswer(<<7>>, <<Called(OtherTool, <<1>>), Called(OtherTool, <<>>)>>, "tool_calls")}

\* A workspace and a directory beside it, which a link leads to.
MCFolders == {<<>>, <<ws>>, <<ws, sub>>, <<ext>>}
MCLinks == <<ws, lnk>> :> <<ext>>
MCDiskFiles == {<<ws, a>>, <<ws, sub, b>>, <<ext, b>>}
MCCwd == <<ws>>
MCWorkspaces == {<<<<ws>>>>, <<<<ext>>, <<ws>>>>}
Asked(abs, path) == [abs |-> abs, path |-> path]
MCRequested ==
  {Asked(TRUE, <<ws, a>>), Asked(TRUE, <<ws, lnk, b>>), Asked(TRUE, <<ws, Up, ext, b>>),
   Asked(FALSE, <<b>>), Asked(FALSE, <<Up, a>>), Asked(FALSE, <<sub>>), Asked(FALSE, <<>>)}
MCCaptureOf == {<<ws, a>>, <<ext, a>>}
Symbol(at, words) == [at |-> at, words |-> words]
\* One text without symbols, one with two of them on its third line.
MCTexts ==
  {[length |-> 1, symbols |-> <<>>],
   [length |-> 5, symbols |-> <<Symbol(1, {"def", "x"}), Symbol(3, {"def", "y"}), Symbol(3, {"z"})>>]}
MCFocuses == {{"x"}, {"y", "def"}}
Found(match, alike, vector) == [match |-> match, alike |-> alike, vector |-> vector]
MCFactPools ==
  [1..3 -> {Found(TRUE, 3, TRUE), Found(FALSE, 50, TRUE), Found(TRUE, 70, TRUE), Found(TRUE, 20, FALSE)}]
=============================================================================
