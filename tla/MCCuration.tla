----------------------------- MODULE MCCuration -----------------------------
(* The parts of the curation, which share no state here: a behaviour runs    *)
(* one of them, and leaves the others at rest.                               *)
EXTENDS Curation, CuratorLoop, Assembly, Extractors, ARCWorkingSet, TLC

VARIABLE part  \* what runs

RequestsRun ==
  part = "requests" /\ UNCHANGED <<part, loopVars, assemblyVars, extractorVars, arcVars>>
LoopRuns ==
  part = "loop" /\ UNCHANGED <<part, curationVars, assemblyVars, extractorVars, arcVars>>
AssemblyRuns ==
  part = "assembly" /\ UNCHANGED <<part, curationVars, loopVars, extractorVars, arcVars>>
ExtractorsRun ==
  part = "extractors" /\ UNCHANGED <<part, curationVars, loopVars, assemblyVars, arcVars>>
WorkingSetRuns ==
  part = "workingset" /\ UNCHANGED <<part, curationVars, loopVars, assemblyVars, extractorVars>>

\* One of the limits, for the parts that have no budget.
NoLimit == CHOOSE l \in BudgetLimits : TRUE

Init ==
  /\ part \in {"requests", "loop", "assembly", "extractors", "workingset"}
  /\ CurationInit /\ LoopInit /\ AssemblyInit /\ ExtractorsInit /\ ArcInit
  /\ part # "requests" => mode = "llm" /\ ~blocks
  /\ part # "extractors" => ~perTool /\ limit = NoLimit /\ registry = Registered({})

Next ==
  \/ RequestsRun /\ CurationNext
  \/ LoopRuns /\ LoopNext
  \/ AssemblyRuns /\ AssemblyNext
  \/ ExtractorsRun /\ ExtractorsNext
  \/ WorkingSetRuns /\ ArcNext

vars == <<part, curationVars, loopVars, assemblyVars, extractorVars, arcVars>>

Spec == Init /\ [][Next]_vars

(* -------------------------------- inputs -------------------------------- *)

Setting(read, block, age) == [mode |-> read, blocks |-> block, staleness |-> age]

\* Each limit meets each mode, and a process that blocks on a miss and one that
\* does not.
MCSettings ==
  {Setting("llm", TRUE, 0), Setting("llm", FALSE, 2),
   Setting("deterministic", TRUE, 2), Setting("deterministic", FALSE, 0)}

MCPathOf ==
  <<Path(<<"ui">>, "Page", "tsx"), Path(<<"ui">>, "index", "ts"),
    Path(<<"ui", "api">>, "types", "ts"), Path(<<"web">>, "Page", "tsx"),
    Path(<<"web">>, "types", "ts")>>

Ref(kind, up, dirs, stem, ext) == [kind |-> kind, up |-> up, dirs |-> dirs, stem |-> stem, ext |-> ext]
Row(inOutline, turns) == [inOutline |-> inOutline, turn |-> turns]
File(raw, path, size, fenced, words, row, refs) ==
  [raw |-> raw, path |-> path, size |-> size, fenced |-> fenced, words |-> words,
   row |-> row, refs |-> refs]

\* Two of the files are one path written in two ways, one has no text, and the
\* references are of every kind, one of them with two files to choose from.
MCFetched ==
  {File("a", 1, 300, TRUE, {"add"}, Unknown, {Ref("relative", 0, <<"api">>, "types", "")}),
   File("b", 2, 150, FALSE, {}, Row(2, 4), {}),
   File("c", 3, 240, TRUE, {"add", "screen"}, Row(1, 1),
        {Ref("alias", 0, <<>>, "ui", ""), Ref("relative", 1, <<>>, "index", "ts")}),
   File("d", 4, 500, TRUE, {"screen"}, Row(0, 12),
        {Ref("relative", 0, <<>>, "types", ""), Ref("plain", 0, <<>>, "Page", "types")}),
   File("e", 4, 100, FALSE, {}, Row(0, 0), {Ref("plain", 0, <<"types">>, "index", "ts")}),
   File("f", 5, 0, FALSE, {"add"}, Row(3, 0), {Ref("plain", 0, <<"api">>, "types", "")})}

MCBuiltin ==
  (<<"Read">> :> "one") @@ (<<"WebSearch">> :> "search") @@ (<<"Bash">> :> "bash")
    @@ (<<"Grep">> :> "grep") @@ (<<"mcp", "recall">> :> "recall")
\* A plugin that takes over a tool, and one of a longer name.
MCPlugins == [p |-> {<<"Bash">>, <<"mcp", "recall", "context">>}]
MCNames ==
  {<<"Read">>, <<"WebSearch">>, <<"Grep">>, <<"Bash">>, <<"mcp", "recall", "context">>, <<"task">>}
Item(text, flawed) == [text |-> text, flawed |-> flawed]
MCParses ==
  {<<>>, <<Item(1, TRUE)>>, <<Item(3, FALSE), Item(3, FALSE)>>,
   <<Item(3, FALSE), Item(1, FALSE), Item(2, TRUE)>>}
\* From none for a call to the default.
MCLimits == {[calls |-> c, tokens |-> t] : c \in {1, 2, 4}, t \in {1500, 3000, 5000}}
MCFound == {<<>>, <<2, 3>>}
MCTurnReplies == {<<>>, <<1, 2, 3>>, <<3>>}
=============================================================================
