---------------------------- MODULE MCExtraction ----------------------------
(* What follows an answer, in two parts that share no state: the extraction *)
(* of facts and the capture of files.  A behaviour runs one of them.        *)
EXTENDS Extraction, MCFileCache, TLC

CONSTANTS s1, s2   \* the sessions

VARIABLE part  \* what runs

BothInit == part \in {"facts", "files"} /\ Init /\ CacheInit

FactsRun == part = "facts" /\ UNCHANGED <<part, cacheVars>>
FilesRun == part = "files" /\ UNCHANGED <<part, vars>>

BothNext ==
  \/ FactsRun /\ Next
  \/ FilesRun /\ CacheNext

BothSpec == BothInit /\ [][BothNext]_<<part, vars, cacheVars>>

Request(sess, of, userTurn, finish, hasUser) ==
  [sess |-> sess, turn |-> of,
   shape |-> [userTurn |-> userTurn, finish |-> finish, hasUser |-> hasUser]]

\* Final answers after tool results, in two turns of one session, beside the
\* tool calls of another one, whose request has no user message left.
MixedTraffic ==
  {Request(s1, 1, FALSE, "stop", TRUE), Request(s1, 2, FALSE, "stop", TRUE),
   Request(s2, 1, FALSE, "tool_calls", FALSE)}

\* Every content is similar to every other.
AllNear(c, d) == TRUE

ContentSymmetry == Permutations(Contents)
=============================================================================
