------------------------------ MODULE Curation ------------------------------
(***************************************************************************)
(* The curation of one session's requests (archolith_proxy/curator/        *)
(* pipeline.py, called by openai/chat.py): a request is answered from a    *)
(* recent briefing by an inline pass, else after a synchronous top-up,     *)
(* else by the full loop, and its messages are rewritten; the extraction   *)
(* after it starts a background pass that makes the next briefing.  Every  *)
(* await is a step of its own, and a client's next request may come while  *)
(* the extraction of the one before it has not ended.                      *)
(*                                                                         *)
(* A run of the agent loop is one outcome here (CuratorLoop has it step by *)
(* step); prompts, snapshots and the diagnostics of failed attempts, which *)
(* no decision depends on, are left out.                                   *)
(***************************************************************************)
EXTENDS Rewrite

CONSTANTS
  Settings,      \* what the process may be started with: its curation mode ("llm"
                 \* or "deterministic" inline reads), prepper_block_on_miss and
                 \* briefing_max_staleness
  ColdStart,     \* cold_start_turns
  MaxMessages,   \* bound on the conversation
  MaxRequests,   \* bound on the requests
  MaxLate,       \* bound on the extractions that have not ended
  NoBriefing

ASSUME CurationAssumption ==
  /\ Settings \subseteq [mode : {"llm", "deterministic"}, blocks : BOOLEAN, staleness : Nat]
  /\ {ColdStart, MaxMessages, MaxRequests, MaxLate} \subseteq Nat

VARIABLES
  mode,      \* the inline pass that was registered at startup
  blocks,    \* prepper_block_on_miss
  staleness, \* briefing_max_staleness
  conv,      \* the client's messages after its system message
  phase,     \* where the request is: "idle", "inline", "topup", "again",
             \* "loop" or "sent"
  turn,      \* the session's turn number
  sent,      \* the messages that went upstream last
  choice,    \* what they were rewritten by; before that, the briefing in use
  briefing,  \* _briefing_cache of the session
  late,      \* requests whose extraction has not ended, the oldest first
  pass       \* the background pass in flight

fixed == <<mode, blocks, staleness>>
curationVars == <<fixed, conv, phase, turn, sent, choice, briefing, late, pass>>

\* A selection of turns, with the question each number stood for where it was
\* made, and the turn of the briefing that it came with, 0 without one.
Choice(numbers, msgs, by, about) ==
  [retained |-> numbers, by |-> by, about |-> about,
   meant |-> IF numbers = KeepAll THEN <<>> ELSE [n \in numbers |-> QuestionOf(msgs, n)]]
NoChoice == Choice(KeepAll, <<>>, "nobody", 0)

\* What a model that is shown these messages may select; without an inventory
\* it is not asked to.
Selections(msgs) == {KeepAll} \cup SUBSET Inventory(msgs)

CurationInit ==
  /\ \E s \in Settings : mode = s.mode /\ blocks = s.blocks /\ staleness = s.staleness
  /\ conv = <<>>
  /\ phase = "idle"
  /\ turn = 0
  /\ sent = <<>>
  /\ choice = NoChoice
  /\ briefing = NoBriefing
  /\ late = <<>>
  /\ pass = NoBriefing

-----------------------------------------------------------------------------
(* The client.                                                             *)

Numbered(conversation) == [i \in 1..Len(conversation) |-> [conversation[i] EXCEPT !.text = <<i>>]]

Question == Message("user", {}, NoCall, "none", "small")
Late     == Message("system", {}, NoCall, "none", "small")
Answer   == Message("assistant", {}, NoCall, "none", "marked")
Calls(ids) == Message("assistant", ids, NoCall, "none", "small")
Result(id, tool, body) == Message("tool", {}, id, tool, body)

\* What the client adds to the answer to its last request: calls with results,
\* whose ids are new or used before, or an answer and what the user says next.
Additions ==
  {<<Question>>, <<Late, Question>>} \cup
  (IF conv = <<>> THEN {}
   ELSE {<<Answer, Question>>,
         <<Calls({Len(conv)}), Result(Len(conv), "informational", "big")>>,
         <<Calls({0, 1}), Result(0, "file", "big"), Result(1, "informational", "parts")>>})

\* is_briefing_fresh: it was made after the turn before, or later.
IsBriefingFresh(cached, now) == cached.about >= now - 1

\* A briefing that may serve a turn: a fresh one whatever the limit, or one
\* within the limit.
Usable(cached, now) ==
  cached # NoBriefing /\ (IsBriefingFresh(cached, now) \/ cached.about >= now - staleness)

\* What the next request does after no briefing served it.
Missed == IF blocks THEN "topup" ELSE "loop"

\* A request: its turn number counts, the pass in flight is cancelled, and with
\* a user's message last, enough turns and enough tokens it is curated.
Request(eligible, addition) ==
  /\ phase = "idle" /\ Len(late) < MaxLate
  /\ turn < MaxRequests /\ Len(conv) + Len(addition) <= MaxMessages
  /\ conv' = Numbered(conv \o addition)
  /\ turn' = turn + 1
  /\ pass' = NoBriefing
  /\ IF eligible /\ IsUser(Last(conv')) /\ Cardinality(TurnsOf(conv')) >= ColdStart
       THEN /\ phase' = IF Usable(briefing, turn') THEN "inline" ELSE Missed
            /\ choice' = IF Usable(briefing, turn') THEN briefing ELSE NoChoice
            /\ sent' = <<>>
       ELSE phase' = "sent" /\ sent' = conv' /\ choice' = NoChoice
  /\ UNCHANGED <<fixed, briefing, late>>

-----------------------------------------------------------------------------
(* curate_context.                                                         *)

\* The request is rewritten by a choice.
Serve(by) ==
  /\ phase' = "sent"
  /\ choice' = by
  /\ sent' = Rewritten(conv, by.retained)
  /\ UNCHANGED <<fixed, conv, turn, briefing, late, pass>>

GoTo(next) ==
  /\ phase' = next
  /\ choice' = NoChoice
  /\ UNCHANGED <<fixed, conv, turn, sent, briefing, late, pass>>

\* The inline pass has the briefing it was called with; a model selects among
\* the turns of the request, the deterministic assembler does as the briefing.
InlineServes ==
  /\ phase \in {"inline", "again"}
  /\ IF mode = "llm"
       THEN \E numbers \in Selections(conv) :
              Serve(Choice(numbers, conv, "inline", choice.about))
       ELSE Serve([choice EXCEPT !.by = "briefing"])

InlineFails ==
  \/ phase = "inline" /\ GoTo(Missed)
  \/ phase = "again" /\ GoTo("loop")

\* Mutant of Worth: after the top-up any briefing will do.
WorthAnything(cached) == cached # NoBriefing

\* The cached briefing may serve after the top-up.
Worth(cached) == Usable(cached, turn)

\* What run_light_prepper returns, whose tools cannot select turns.
LightlyPrepared(about) == Choice(KeepAll, <<>>, "prepper", about)

\* It runs with a budget: a briefing of this turn, or a failure or timeout that
\* leaves the cached one as it is.
TopUp ==
  /\ phase = "topup"
  /\ \/ briefing' = LightlyPrepared(turn)
     \/ UNCHANGED briefing
  /\ phase' = IF Worth(briefing') THEN "again" ELSE "loop"
  /\ choice' = IF Worth(briefing') THEN briefing' ELSE NoChoice
  /\ UNCHANGED <<fixed, conv, turn, sent, late, pass>>

LoopServes ==
  /\ phase = "loop"
  /\ \E numbers \in Selections(conv) : Serve(Choice(numbers, conv, "loop", 0))

\* No iterations left, an error or a timeout: the messages go as they came.
LoopFails ==
  /\ phase = "loop"
  /\ phase' = "sent" /\ sent' = conv
  /\ UNCHANGED <<fixed, conv, turn, choice, briefing, late, pass>>

-----------------------------------------------------------------------------
(* What comes after the answer.                                            *)

\* The request ends, and its extraction starts with the messages that were
\* sent.  A background pass will come of it unless they did not end with a
\* user's, the answer made tool calls, or something failed.
Answered ==
  /\ phase = "sent"
  /\ phase' = "idle"
  /\ \/ IsUser(Last(sent)) /\ late' = Append(late, [turn |-> turn, msgs |-> sent])
     \/ UNCHANGED late
  /\ UNCHANGED <<fixed, conv, turn, sent, choice, briefing, pass>>

\* It ends by replacing the background pass in flight by one of its own.
ExtractionEnds ==
  /\ late # <<>>
  /\ pass' = Head(late)
  /\ late' = Tail(late)
  /\ UNCHANGED <<fixed, conv, phase, turn, sent, choice, briefing>>

\* What run_prepper may return: its loop may select among the turns of its own
\* messages, and the briefing has what it selected.
Prepared(msgs, about) == {Choice(numbers, msgs, "prepper", about) : numbers \in Selections(msgs)}

\* The pass caches a briefing of the turn that it was started by, or ends
\* without one.
PassEnds ==
  /\ pass # NoBriefing
  /\ pass' = NoBriefing
  /\ \/ briefing' \in Prepared(pass.msgs, pass.turn)
     \/ UNCHANGED briefing
  /\ UNCHANGED <<fixed, conv, phase, turn, sent, choice, late>>

CurationNext ==
  \/ \E eligible \in BOOLEAN, addition \in Additions : Request(eligible, addition)
  \/ InlineServes \/ InlineFails \/ TopUp \/ LoopServes \/ LoopFails
  \/ Answered \/ ExtractionEnds \/ PassEnds

CurationSpec == CurationInit /\ [][CurationNext]_curationVars

-----------------------------------------------------------------------------
(* The properties.                                                         *)

Rewrote == phase = "sent" /\ choice # NoChoice

\* Whatever the client's tool loops, the selection, the window of the tail and
\* its fallbacks do to a conversation, what goes upstream is one a provider
\* accepts, and it ends with the user's question as it came.
SentIsWellFormed ==
  Rewrote => /\ WellFormed(sent)
             /\ LET asked == Last(sent).text IN IsUser(Last(sent)) /\ Last(asked) = Len(conv)

\* The texts of a list of messages.
Texts(msgs) == UNION {{msgs[i].text[k] : k \in 1..Len(msgs[i].text)} : i \in 1..Len(msgs)}

\* A model that selects among the turns of the request it serves has its way:
\* nothing it retained is lost but what heads the tail, a question is lost only
\* if its turn was offered and not retained, and the order is the client's.
\* (A system message among the others makes the inventory's tail another one
\* than that of the rewriting, which counts it.)
SelectionHonoured ==
  Rewrote /\ choice.by # "briefing" =>
    LET gone == 1..Len(conv) \ Texts(sent)
    IN /\ \A i \in gone :
            /\ choice.retained = KeepAll \/ TurnAt(conv, i) \in choice.retained =>
                 i >= TailStart(conv) \/ TurnAt(conv, i) = 0
            /\ IsUser(conv[i]) /\ (\A j \in 1..Len(conv) : ~IsSystem(conv[j])) =>
                 TurnAt(conv, i) \in Inventory(conv)
       /\ \A i \in 1..Len(sent), j \in 1..Len(sent) :
            i < j => Last(sent[i].text) < Head(sent[j].text)

\* No request is served from a briefing older than briefing_max_staleness
\* allows, or than the turn before where that allows less, whichever passes end
\* while it waits.
ServedIsRecent ==
  Rewrote /\ choice.by \in {"inline", "briefing"} =>
    choice.about >= turn - (IF staleness = 0 THEN 1 ELSE staleness)

\* "Turn numbers match the curator's turn inventory (1-indexed across the full
\* conversation, not just the middle)" (rewrite.py 187-188): a number that was
\* selected stands for the same question when the messages are rewritten.
TurnsMatchInventory ==
  Rewrote /\ choice.retained # KeepAll =>
    \A n \in choice.retained : QuestionOf(conv, n) = choice.meant[n]
=============================================================================
