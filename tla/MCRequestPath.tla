--------------------------- MODULE MCRequestPath ----------------------------
(* Values for model checking RequestPath: see the .cfg files.              *)
EXTENDS RequestPath, TLC

CONSTANTS
  s1, s2,   \* the sessions
  a, b      \* the slots

Request(s, stream, gated) ==
  [sess |-> s, stream |-> stream, user |-> s = s2, bare |-> FALSE, gated |-> gated]

\* Any slot may serve any request.
SlotSymmetry == Permutations({a, b})

\* Streamed and single requests of one session, beside those of another, and
\* passthrough requests.
MixedTraffic ==
  {Request(s1, FALSE, TRUE), Request(s1, TRUE, FALSE), Request(s2, FALSE, FALSE),
   [Request(s2, TRUE, FALSE) EXCEPT !.bare = TRUE],
   [Request(s2, FALSE, FALSE) EXCEPT !.bare = TRUE]}

Answer(text, calls) == [ok |-> TRUE, text |-> text, calls |-> calls, odd |-> FALSE]

\* Text; each tool alone; the combinations that a handler treats specially.
SampleAnswers ==
  {Answer("plain", {}), Answer("markup", {}), Answer("none", {"recall"}),
   Answer("plain", {"recall", "synthetic"}), Answer("none", {"synthetic"}),
   Answer("none", {"synthetic", "other"}), Answer("none", {"read"}),
   [Answer("plain", {}) EXCEPT !.odd = TRUE]}
=============================================================================
