------------------------------- MODULE Rewrite -------------------------------
(***************************************************************************)
(* How a curated request's messages are rewritten: assembler/tail.py picks *)
(* the coherence tail, curator/prompts.py numbers the turns before it for  *)
(* the curator, and proxy/rewrite.py drops the turns the curator did not   *)
(* retain, previews large informational tool results and validates what    *)
(* is left.  The first system message, which the context block goes into,  *)
(* is not listed: these are the messages after it.                         *)
(*                                                                         *)
(* The text of a message is the sequence of the positions, in the client's *)
(* conversation, of the messages it was made of.  The token ceiling of     *)
(* rewrite_messages, which no caller in the proxy sets, is left out.       *)
(***************************************************************************)
EXTENDS Integers, Sequences, FiniteSets, SequencesExt, Lists

CONSTANTS
  TailSize,    \* coherence_tail_size
  MaxTail,     \* max_tail_messages
  Shrinks,     \* the filter package is there to shrink tool results
  NoCall,      \* a message that answers no tool call
  KeepAll      \* no turns were selected

ASSUME RewriteAssumption ==
  /\ TailSize \in Nat \ {0}
  /\ MaxTail \in Nat \ {0}
  /\ Shrinks \in BOOLEAN
  /\ NoCall \notin Nat

\* body: "small", "big", "parts" (a list of content parts) or, of an assistant,
\* "marked" (with reasoning or tool-call markup in its text).
Message(role, calls, of, tool, body) ==
  [role |-> role, calls |-> calls, of |-> of, tool |-> tool, body |-> body, text |-> <<>>]

IsUser(msg)   == msg.role = "user"
IsResult(msg) == msg.role = "tool"
IsCaller(msg) == msg.role = "assistant" /\ msg.calls # {}
IsSystem(msg) == msg.role = "system"

FirstOf(positions, none) ==
  IF positions = {} THEN none ELSE CHOOSE i \in positions : \A j \in positions : i <= j

From(msgs, i)   == SubSeq(msgs, i, Len(msgs))
Before(msgs, i) == SubSeq(msgs, 1, i - 1)

AtLeastOne(n) == IF n < 1 THEN 1 ELSE n

-----------------------------------------------------------------------------
(* assembler/tail.py                                                       *)

\* Mutant of CallerOf: calls are not looked for.
NoCallerOf(msgs, id, before) == 0

\* The last assistant before a position that made a call, 0 without one.
CallerOf(msgs, id, before) ==
  LET callers == {i \in 1..(before - 1) : IsCaller(msgs[i]) /\ id \in msgs[i].calls}
  IN IF callers = {} THEN 0 ELSE CHOOSE i \in callers : \A j \in callers : j <= i

\* One scan: the window grows to the caller of the first result in it whose
\* caller is before it.
Widened(msgs, start) ==
  LET orphans == {i \in start..Len(msgs) :
                    /\ IsResult(msgs[i]) /\ msgs[i].of # NoCall
                    /\ CallerOf(msgs, msgs[i].of, start) # 0}
  IN IF orphans = {} THEN start
     ELSE CallerOf(msgs, msgs[FirstOf(orphans, 0)].of, start)

\* Too large a tail falls back to the first user message of the largest window,
\* or else to what is in it after the results without their caller.
TurnBoundary(msgs) ==
  LET window == AtLeastOne(Len(msgs) - MaxTail + 1)
      users  == {i \in window..Len(msgs) : IsUser(msgs[i])}
      whole  == {i \in window..Len(msgs) :
                   IsResult(msgs[i]) =>
                     /\ msgs[i].of # NoCall
                     /\ CallerOf(msgs, msgs[i].of, i) >= window}
  IN FirstOf(users, FirstOf(whole, Len(msgs) + 1))

\* smart_tail: where the tail starts.
TailStart(msgs) ==
  LET scan[n \in 0..TailSize] ==
        IF n = 0 THEN AtLeastOne(Len(msgs) - TailSize + 1)
                 ELSE Widened(msgs, scan[n - 1])
      start == scan[TailSize]
  IN IF Len(msgs) - start + 1 > MaxTail THEN TurnBoundary(msgs) ELSE start

-----------------------------------------------------------------------------
(* The turns, by the number of user messages up to them.                   *)

TurnAt(msgs, i) == Cardinality({j \in 1..i : IsUser(msgs[j])})

TurnsOf(msgs) == {TurnAt(msgs, i) : i \in 1..Len(msgs)} \ {0}

\* The user message that a turn number stands for.
QuestionOf(msgs, n) ==
  LET at == {i \in 1..Len(msgs) : IsUser(msgs[i]) /\ TurnAt(msgs, i) = n}
  IN IF at = {} THEN <<>> ELSE msgs[FirstOf(at, 0)].text

WithoutSystem(msgs) == Only(msgs, {msg \in Range(msgs) : ~IsSystem(msg)})

\* _build_turn_inventory: the numbers the curator may choose from, those of the
\* turns that have a message before the tail.
Inventory(conv) ==
  LET msgs == WithoutSystem(conv)
  IN {TurnAt(msgs, i) : i \in 1..(TailStart(msgs) - 1)}

-----------------------------------------------------------------------------
(* proxy/rewrite.py                                                        *)

\* What is done to the body of a message before the tail.
Condensed(msg) ==
  IF IsResult(msg) /\ msg.tool = "informational" /\ msg.body = "big"
    THEN [msg EXCEPT !.body = "preview"]
  ELSE IF msg.role = "assistant" /\ msg.body = "marked"
    THEN [msg EXCEPT !.body = "small"]
  ELSE msg

\* shrink_tail_tool_results.
Shrunk(msg) ==
  IF Shrinks /\ IsResult(msg) /\ msg.body = "big" THEN [msg EXCEPT !.body = "shrunk"] ELSE msg

\* A message a tail can start with: a user's, or calls with a result after them.
IsHead(tail, i) ==
  \/ IsUser(tail[i])
  \/ /\ IsCaller(tail[i])
     /\ \E j \in (i + 1)..Len(tail) : IsResult(tail[j]) /\ tail[j].of \in tail[i].calls

\* Two neighbours that are merged into one message.
Mergeable(one, other) ==
  /\ one.role = other.role /\ one.role \in {"user", "assistant"}
  /\ one.calls = {} /\ other.calls = {}
  /\ one.body # "parts" /\ other.body # "parts"

Merged(msgs, msg) ==
  IF msgs # <<>> /\ Mergeable(Last(msgs), msg)
    THEN [msgs EXCEPT ![Len(msgs)].text = @ \o msg.text]
    ELSE Append(msgs, msg)

MergedAll(msgs) ==
  LET merged[n \in 0..Len(msgs)] == IF n = 0 THEN <<>> ELSE Merged(merged[n - 1], msgs[n])
  IN merged[Len(msgs)]

\* _validate_tail.
ValidTail(tail) ==
  LET heads == {i \in 1..Len(tail) : IsHead(tail, i)}
  IN MergedAll(From(tail, FirstOf(heads, Len(tail) + 1)))

\* _ensure_user_first, over what follows the system message.
UserFirst(msgs) ==
  LET others == FirstOf({i \in 1..Len(msgs) : ~IsSystem(msgs[i])}, Len(msgs) + 1)
      users  == {i \in others..Len(msgs) : IsUser(msgs[i])}
  IN Before(msgs, others) \o From(msgs, FirstOf(users, Len(msgs) + 1))

\* Mutant of Middle: a question is counted after it was judged.
MiddleCountedLate(conv, retained) ==
  LET places == 1..(TailStart(conv) - 1)
      kept == Only([i \in places |-> i],
                   {i \in places : retained # KeepAll => TurnAt(conv, i - 1) \in retained})
  IN [n \in 1..Len(kept) |-> Condensed(conv[kept[n]])]

\* The messages before the tail that stay: those of the retained turns.
Middle(conv, retained) ==
  LET places == 1..(TailStart(conv) - 1)
      kept == Only([i \in places |-> i],
                   {i \in places : retained # KeepAll => TurnAt(conv, i) \in retained})
  IN [n \in 1..Len(kept) |-> Condensed(conv[kept[n]])]

\* rewrite_messages, for a set of turn numbers or KeepAll.
Rewritten(conv, retained) ==
  LET valid == ValidTail(From(conv, TailStart(conv)))
  IN UserFirst(Middle(conv, retained) \o [i \in 1..Len(valid) |-> Shrunk(valid[i])])

-----------------------------------------------------------------------------
(* What every provider demands of a list of messages: a user's message     *)
(* comes first, calls are followed by their results, one for each, and no  *)
(* result is anywhere else.                                                *)

ResultsAfter(msgs, i) ==
  {j \in (i + 1)..Len(msgs) : \A k \in (i + 1)..j : IsResult(msgs[k])}

WellFormed(msgs) ==
  /\ LET others == WithoutSystem(msgs)
     IN others # <<>> => IsUser(Head(others))
  /\ \A i \in 1..Len(msgs) :
       /\ IsCaller(msgs[i]) =>
            {msgs[j].of : j \in ResultsAfter(msgs, i)} = msgs[i].calls
       /\ IsResult(msgs[i]) =>
            \E j \in 1..(i - 1) : IsCaller(msgs[j]) /\ i \in ResultsAfter(msgs, j)
=============================================================================
