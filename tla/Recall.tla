------------------------------- MODULE Recall --------------------------------
(***************************************************************************)
(* The recall the proxy forces before a request is sent, the ledger that   *)
(* debounces it (proxy/recall.py, openai/chat.py), and the query behind it *)
(* and behind the model's own recall tool (proxy/tool_injection.py,        *)
(* assembler/context.py).                                                  *)
(*                                                                         *)
(* Requests of several sessions are under way at once; each carries its    *)
(* whole conversation, which its client may shorten as it likes.  The      *)
(* ledger is read before the query and written after it.                   *)
(*                                                                         *)
(* A file is its number in the order of names.  Scores are in 1/10000.     *)
(* The cache of query vectors is left out: a query has a vector or none.   *)
(***************************************************************************)
EXTENDS Integers, Sequences, FiniteSets, SequencesExt, FiniteSetsExt, Lists

CONSTANTS
  RecallSessions,  \* the sessions
  Conversations,   \* the ends of the conversations sent
  Window,          \* messages searched for repeated reads, 20 in the code
  TopFiles,        \* most files a trigger names, 3 in the code
  LedgerSessions,  \* _MAX_LEDGER_SESSIONS
  LedgerFiles,     \* _MAX_FILES_PER_SESSION
  RecallSlots,     \* the requests that may be under way at once
  Questions,       \* what may be asked: of which facts in the graph (pool), at
                   \* which turn, and whether it gets a vector (embedded)
  ForcedQuestions, \* those a forced recall is explored with
  RecallBudget,    \* tokens of a result, 2000 in the code
  Decay,           \* 1 / (1 + log(1 + age)) in percent, from age 0
  NoRecall

\* A message is the number of the file it is a read of, or the user's.
Talk   == 0
Phrase == -1  \* one that asks to be reminded

FactKinds == {"error", "goal", "state", "tool_result", "decision", "observation"}

Facts ==
  [id : Nat, kind : FactKinds, turn : 0..Len(Decay), confidence : 0..100, alike : 0..100,
   vector : BOOLEAN, length : Nat \ {0}]

ASSUME RecallAssumption ==
  /\ ForcedQuestions \subseteq Questions
  /\ RecallBudget \in Nat /\ Decay \in Seq(0..100)
  /\ \A q \in Questions :
       /\ q.pool \in Seq(Facts) /\ q.turn \in 0..Len(Decay) /\ q.embedded \in BOOLEAN
       /\ \A i, j \in DOMAIN q.pool : q.pool[i].id = q.pool[j].id => i = j
  /\ \A c \in Conversations : c # <<>> /\ c \in Seq(Nat \cup {Phrase})
  /\ {Window, TopFiles, LedgerSessions, LedgerFiles} \subseteq Nat \ {0}

VARIABLES
  asks,      \* what the recall under way in each slot is for
  ledger,    \* _recalled_files: [sess, files], least recently used first
  given,     \* the query just answered with facts
  answered   \* history: files injected for a session and not dropped since

recallVars == <<asks, ledger, given, answered>>

RecallInit ==
  /\ asks = [i \in RecallSlots |-> NoRecall]
  /\ ledger = <<>>
  /\ given = NoRecall
  /\ answered = [s \in RecallSessions |-> {}]

-----------------------------------------------------------------------------
(* The trigger.                                                            *)

Reads(c, f) ==
  LET last == SubSeq(c, Max({1, Len(c) - Window + 1}), Len(c))
  IN Len(SelectSeq(last, LAMBDA m : m = f))

FilesRead(c) == Range(c) \ {Phrase, Talk}

\* The files read more than once, most often first: the one list in that order.
Repeated(c) ==
  LET many == {f \in FilesRead(c) : Reads(c, f) >= 2}
      before(f, g) == Reads(c, f) > Reads(c, g) \/ (Reads(c, f) = Reads(c, g) /\ f < g)
      sorted == {q \in SetToSeqs(many) : \A i, j \in DOMAIN q : i < j => before(q[i], q[j])}
  IN {SubSeq(q, 1, IF Len(q) < TopFiles THEN Len(q) ELSE TopFiles) : q \in sorted}

\* detect_recall_trigger: the files to recall for, none for a phrase.
Triggers ==
  {<<>> : c \in {d \in Conversations : Last(d) = Phrase}}
    \cup (UNION {Repeated(c) : c \in {d \in Conversations : Last(d) # Phrase}} \ {<<>>})

-----------------------------------------------------------------------------
(* The ledger.                                                             *)

\* The entries of a session, at most one, and those of the others.
Own(s) == {e \in Range(ledger) : e.sess = s}
Others(s) == Only(ledger, Range(ledger) \ Own(s))
Seen(s) == IF Own(s) = {} THEN <<>> ELSE (CHOOSE e \in Own(s) : TRUE).files

Newest(seq, n) == SubSeq(seq, IF Len(seq) < n THEN 1 ELSE Len(seq) - n + 1, Len(seq))

\* new_repeated_files: the session counts as used, if it is known.
Touched(s) == Others(s) \o Only(ledger, Own(s))

\* Mutant of Reordered: only the file read most often is marked.
ReorderedFirst(seen, files) == Append(Remove(seen, files[1]), files[1])

\* The files of a session once those just recalled for went to the end.
Reordered(seen, files) == Only(seen, Range(seen) \ Range(files)) \o files

\* mark_files_recalled
Mark(s, files) ==
  IF files = <<>> THEN UNCHANGED <<ledger, answered>>
  ELSE LET all  == Reordered(Seen(s), files)
           kept == Newest(all, LedgerFiles)
           new  == Newest(Append(Others(s), [sess |-> s, files |-> kept]), LedgerSessions)
           held == {e.sess : e \in Range(new)}
           cut  == Range(all) \ Range(kept)
       IN /\ ledger' = new
          /\ answered' = [x \in RecallSessions |->
               IF x \notin held THEN {}
               ELSE IF x = s THEN (answered[s] \cup Range(files)) \ cut ELSE answered[x]]

-----------------------------------------------------------------------------
(* The query.                                                              *)

Anchors == {"goal", "decision"}
Priority(kind) ==
  CASE kind = "error" -> 100 [] kind = "goal" -> 80 [] kind = "state" -> 60
    [] kind \in {"tool_result", "decision"} -> 40 [] kind = "observation" -> 20

\* A request's turn precedes no fact's.
Recency(f, turn) == IF turn > 0 /\ f.turn > 0 THEN Decay[turn - f.turn + 1] ELSE 50

\* _score_fact without an intent.
Score(f, turn, embedded) ==
  IF embedded /\ f.vector
    THEN 40 * f.alike + 30 * Recency(f, turn) + 15 * (Priority(f.kind) + f.confidence)
    ELSE 40 * Priority(f.kind) + 30 * f.confidence + 30 * Recency(f, turn)

Tokens(facts) ==
  LET sum[n \in 0..Len(facts)] == IF n = 0 THEN 0 ELSE sum[n - 1] + facts[n].length
  IN sum[Len(facts)]

\* As many of the facts, in order, as fit on top of the kept ones.
FirstFit(kept, facts) ==
  LET taken[n \in 0..Len(facts)] ==
        IF n = 0 THEN kept
        ELSE IF Tokens(taken[n - 1]) + facts[n].length <= RecallBudget
          THEN Append(taken[n - 1], facts[n]) ELSE taken[n - 1]
  IN taken[Len(facts)]

\* The longest beginning that fits on top of the kept ones.
Beginning(kept, facts) ==
  LET fit == {n \in 0..Len(facts) : Tokens(kept \o SubSeq(facts, 1, n)) <= RecallBudget}
  IN kept \o SubSeq(facts, 1, Max(fit))

\* The order of sort(reverse=True), which leaves facts of one score in place.
Ranked(facts, turn, embedded) ==
  LET score == [i \in DOMAIN facts |-> Score(facts[i], turn, embedded)]
      order == InOrderOf(DOMAIN facts, HighestFirst(DOMAIN facts, score))
  IN [n \in DOMAIN facts |-> facts[order[n]]]

\* _expand_with_context_window: with the facts of the turns next to theirs.
Expanded(selected, pool) ==
  LET near == UNION {{f.turn - 1, f.turn, f.turn + 1} : f \in Range(selected)}
  IN selected \o Only(pool, {f \in Range(pool) \ Range(selected) : f.turn \in near})

\* A request without a turn takes the latest one of the facts.
Effective(q) ==
  IF q.turn > 0 THEN q.turn ELSE Max({1} \cup {f.turn : f \in Range(q.pool)})

AnchorsOf(pool) == Only(pool, {f \in Range(pool) : f.kind \in Anchors})
Candidates(pool) == Only(pool, {f \in Range(pool) : f.kind \notin Anchors})

\* Mutant of Windowed: what the expansion adds is not measured.
WindowedFreely(selected, pool) == Expanded(selected, pool)

Windowed(selected, pool) == FirstFit(<<>>, Expanded(selected, pool))

\* _budget_facts
FactsFor(q) ==
  LET anchors  == FirstFit(<<>>, AnchorsOf(q.pool))
      ranked   == Ranked(Candidates(q.pool), Effective(q), q.embedded)
      selected == Beginning(anchors, ranked)
      windowed == Windowed(selected, q.pool)
  IN IF q.embedded /\ selected # <<>> /\ Len(windowed) >= Len(selected)
       THEN windowed ELSE selected

\* The logarithm of the age of a fact that another request of a later turn
\* has stored raises.
Raises(q) == \E f \in Range(Candidates(q.pool)) : q.turn > 0 /\ f.turn > q.turn

-----------------------------------------------------------------------------
(* The requests.                                                           *)

\* A trigger with files that were all recalled for does not fire.
Debounced(s, files) == files # <<>> /\ Range(files) \subseteq Range(Seen(s))

\* A request of session s arrives: `again` says that all its files were
\* answered by then.
Ask(i, s, files) ==
  /\ asks[i] = NoRecall
  /\ ledger' = IF files = <<>> THEN ledger ELSE Touched(s)
  /\ asks' = IF Debounced(s, files) THEN asks
             ELSE [asks EXCEPT ![i] =
                     [sess |-> s, files |-> files,
                      again |-> files # <<>> /\ Range(files) \subseteq answered[s]]]
  /\ given' = NoRecall
  /\ UNCHANGED answered

Ends(i) == asks[i] # NoRecall /\ asks' = [asks EXCEPT ![i] = NoRecall]

\* The facts found are injected, and only then the files marked.
Answered(i, q) ==
  LET facts == FactsFor(q)
  IN /\ ~Raises(q)
     /\ Ends(i)
     /\ IF facts = <<>>
          THEN given' = NoRecall /\ UNCHANGED <<ledger, answered>>
          ELSE /\ given' = [question |-> q, facts |-> facts]
               /\ Mark(asks[i].sess, asks[i].files)

\* The scoring raises, and the request goes on without a recall.
AskRaises(i, q) ==
  /\ Raises(q)
  /\ Ends(i)
  /\ given' = NoRecall
  /\ UNCHANGED <<ledger, answered>>

\* The graph fails: the text that says so is injected like facts.
GraphFails(i) ==
  /\ Ends(i)
  /\ given' = NoRecall
  /\ Mark(asks[i].sess, asks[i].files)

\* The model calls the recall tool.  It neither reads nor writes the ledger,
\* so it is explored while that is empty.
ToolAsks(q) ==
  /\ ledger = <<>> /\ \A i \in RecallSlots : asks[i] = NoRecall
  /\ ~Raises(q)
  /\ given' = [question |-> q, facts |-> FactsFor(q)]
  /\ UNCHANGED <<asks, ledger, answered>>

RecallNext ==
  \/ \E i \in RecallSlots, s \in RecallSessions, files \in Triggers : Ask(i, s, files)
  \/ \E i \in RecallSlots, q \in ForcedQuestions : Answered(i, q) \/ AskRaises(i, q)
  \/ \E i \in RecallSlots : GraphFails(i)
  \/ \E q \in Questions : ToolAsks(q)

RecallSpec == RecallInit /\ [][RecallNext]_recallVars

-----------------------------------------------------------------------------
(* Properties.                                                             *)

\* "a file triggers recall at most once per session, and a turn fires only if
\* it names at least one not-yet-recalled file" (the ledger's comment): no
\* recall is under way for files that had all been answered when it was asked
\* and that the bounds of the ledger did not drop.  (Two requests at once may
\* both ask.)
RecallNotRepeated == \A i \in RecallSlots : asks[i] # NoRecall => ~asks[i].again

\* What a recall returns fits the budget and holds no fact twice; the anchors
\* of the graph are left out only for want of room; and outside the window of
\* turns no fact is preferred to a more relevant one (_budget_facts).
RecallIsBest ==
  given # NoRecall =>
    LET q     == given.question
        facts == Range(given.facts)
        score(f) == Score(f, Effective(q), q.embedded)
        drawn(f) == q.embedded
                      /\ \E g \in facts \ {f} : f.turn \in {g.turn - 1, g.turn, g.turn + 1}
    IN /\ Tokens(given.facts) <= RecallBudget
       /\ Cardinality(facts) = Len(given.facts)
       /\ Tokens(AnchorsOf(q.pool)) <= RecallBudget => Range(AnchorsOf(q.pool)) \subseteq facts
       /\ \A f \in Range(q.pool) \ facts, g \in facts :
            {f.kind, g.kind} \cap Anchors = {} /\ ~drawn(g) => score(f) <= score(g)
=============================================================================
