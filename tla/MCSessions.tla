------------------------------ MODULE MCSessions ------------------------------
(* A small instance of Sessions: two requests in flight, one conversation    *)
(* known by its first message, one known by an explicit id.                   *)
EXTENDS Sessions

CONSTANTS x, p1

MCQuery(id, print, user, cfg, consent) ==
  [id |-> id, print |-> print, user |-> user, cfg |-> cfg, consent |-> consent]

MCPrint(v) == [stable |-> p1, volatile |-> v]

\* A user turn and a tool round trip of the one conversation, each with a
\* setting; user turns of the other, the prompt differing in its volatile part;
\* and a request that says nothing.
MCQueries ==
  {MCQuery(x, None, TRUE, {"k1", "denied"}, TRUE), MCQuery(x, None, FALSE, {"k2"}, TRUE)}
  \cup {MCQuery(None, MCPrint(v), TRUE, {}, TRUE) : v \in {"monday", "tuesday"}}
  \cup {MCQuery(None, None, FALSE, {}, FALSE)}
===============================================================================
