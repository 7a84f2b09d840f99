------------------------------ MODULE Extractors ------------------------------
(***************************************************************************)
(* The facts of one turn (archolith_proxy/extractor/client.py, called by   *)
(* openai/extraction.py): an extractor for each tool record of the turn,   *)
(* some of which call a model under a budget of the turn and a semaphore   *)
(* of the process, then one call for the turn itself; what they found is   *)
(* merged, deduplicated, and embedded in batches.                          *)
(*                                                                         *)
(* A name of a tool is a sequence of its parts, a fact has the tool and    *)
(* the number of its record, and a number for its text: near-duplicates    *)
(* are the texts that differ by at most one, which is no more transitive   *)
(* than the similarity of the code.  Files touched, decisions, issues and  *)
(* the usage counters take the same way and are left out.                  *)
(***************************************************************************)
EXTENDS Integers, Sequences, FiniteSets, SequencesExt, Lists

CONSTANTS
  Builtin,      \* extractors by the names and prefixes they are registered for
  Plugins,      \* entry points: the names each is registered for
  Names,        \* tools of the records
  MaxRecords,   \* bound on the records of a turn
  BudgetLimits, \* settings: max calls and max tokens of a turn
  Concurrency,  \* extractor_llm_concurrency
  Parses,       \* items that an extractor may parse a result into
  MaxItems,     \* of them that it takes
  Found,        \* texts that a model may find in a result
  TurnReplies,  \* texts that the model may reply with for the turn
  BatchSize,    \* MAX_BATCH_SIZE of the embeddings
  Pending, Raised, NoVector

TurnTokens == 2000  \* _TURN_LEVEL_MAX_TOKENS

\* llm_requested_tokens of the extractors that may use a model.
LLMTokens == [bash |-> 1000, fetch |-> 1000, default |-> 2000, plugin |-> 0]

ASSUME ExtractorsAssumption ==
  /\ Concurrency \in Nat \ {0} /\ BatchSize \in Nat \ {0} /\ MaxRecords \in Nat /\ MaxItems \in Nat
  /\ \A limit \in BudgetLimits : limit.calls \in Nat /\ limit.tokens \in Nat
  /\ \A n \in DOMAIN Builtin \cup Names \cup UNION {Plugins[p] : p \in DOMAIN Plugins} : n \in Seq(STRING)
  /\ \A n \in DOMAIN Builtin :
       Builtin[n] \in DOMAIN LLMTokens \cup {"one", "grep", "search", "recall"}
  /\ Found \cup TurnReplies \subseteq Seq(Int)
  /\ Parses \subseteq Seq([text : Int, flawed : BOOLEAN])

VARIABLES
  registry,  \* the extractor registered for each name
  perTool,   \* per_tool_extraction_enabled
  limit,     \* the limits of the turn's budget
  stage,     \* "idle", "tools", "turn", "whole", "merged", "embedding" or "done"
  records,   \* the tools of the turn's records
  held,      \* turn_level_reserved
  asked,     \* the calls made so far and their tokens
  results,   \* what the extractor of each record returned
  queue,     \* records that wait for the semaphore, the first one first
  calling,   \* records whose call is in flight, each with a permit
  others,    \* permits of the extractions of other turns
  facts,     \* all_facts, then unique_facts
  vectors    \* their embeddings so far

extractorVars == <<registry, perTool, limit, stage, records, held, asked, results, queue,
                   calling, others, facts, vectors>>

-----------------------------------------------------------------------------
(* The registry.                                                           *)

\* The entry points that load, one after the other: the last one for a name wins.
Registered(loaded) ==
  [name \in (DOMAIN Builtin \cup UNION {Plugins[p] : p \in loaded}) |->
     IF \E p \in loaded : name \in Plugins[p] THEN "plugin" ELSE Builtin[name]]

\* The extractor of a tool: of the longest registered name that begins its own.
Routed(name) ==
  LET prefixes == {n \in DOMAIN registry : IsPrefix(n, name)}
  IN IF prefixes = {} THEN "default"
     ELSE registry[CHOOSE n \in prefixes : \A other \in prefixes : Len(other) <= Len(n)]

ExtractorsInit ==
  /\ \E loaded \in SUBSET DOMAIN Plugins : registry = Registered(loaded)
  /\ perTool \in BOOLEAN
  /\ limit \in BudgetLimits
  /\ stage = "idle" /\ records = <<>> /\ held = FALSE
  /\ asked = [calls |-> 0, tokens |-> 0]
  /\ results = <<>> /\ queue = <<>> /\ calling = {} /\ others = 0
  /\ facts = <<>> /\ vectors = <<>>

-----------------------------------------------------------------------------
(* The budget.                                                             *)

\* ExtractionBudget.reserve: it is refused by an unchanged budget.
Reserve(budget, tokens) ==
  IF budget.calls >= limit.calls \/ budget.tokens + tokens > limit.tokens THEN budget
  ELSE [calls |-> budget.calls + 1, tokens |-> budget.tokens + tokens]

UsesModel(name) == Routed(name) \in DOMAIN LLMTokens
Cost(name) == LLMTokens[Routed(name)]
Spent(tokens) == [asked EXCEPT !.calls = @ + 1, !.tokens = @ + tokens]

\* Mutant of Budgets: the turn's own call reserves after those of its records.
BudgetsTurnLast(names) ==
  LET after[i \in 0..Len(names)] ==
        IF i = 0 THEN [calls |-> 0, tokens |-> 0]
        ELSE IF UsesModel(names[i]) /\ Cost(names[i]) > 0
          THEN Reserve(after[i - 1], Cost(names[i])) ELSE after[i - 1]
  IN after

\* The budget before any record's extractor (at 0) and after each: the call for
\* the turn itself reserves first.
Budgets(names) ==
  LET after[i \in 0..Len(names)] ==
        IF i = 0 THEN Reserve([calls |-> 0, tokens |-> 0], TurnTokens)
        ELSE IF UsesModel(names[i]) /\ Cost(names[i]) > 0
          THEN Reserve(after[i - 1], Cost(names[i])) ELSE after[i - 1]
  IN after

-----------------------------------------------------------------------------
(* The records.                                                            *)

FactsOf(i, texts) ==
  [k \in 1..Len(texts) |-> [tool |-> records'[i], from |-> i, text |-> texts[k]]]

\* What is left of a record without a model: an abridged result, if it has one.
Fallback == {<<>>, <<1>>}

\* Reads, writes and listings: one fact, whatever the result is.
OneFact == <<2>>

TextsOf(items) == [k \in 1..Len(items) |-> items[k].text]
Firsts(items) == SubSeq(items, 1, IF Len(items) < MaxItems THEN Len(items) ELSE MaxItems)
Sound(items) == Only(items, {item \in Range(items) : ~item.flawed})

\* A search in files: a fact of each file, up to a limit, and none if the lines
\* have labels in the place of a path.
GrepTexts(items) ==
  LET paths == TextsOf(Sound(items))
  IN IF items = <<>> THEN <<1>> ELSE Firsts(FirstOnly(paths, {<<p, p>> : p \in Range(paths)}))

\* A search in the web: the first items, of which a null snippet raises.
SearchTexts(items) ==
  IF items = <<>> THEN <<1>>
  ELSE IF \E item \in Range(Firsts(items)) : item.flawed THEN Raised ELSE TextsOf(Firsts(items))

\* Recalled memories: of the first ones, those whose score is not too low.
RecallTexts(items) == TextsOf(Sound(Firsts(items)))

\* What an extractor without a model may return.
Parsed(extractor) ==
  CASE extractor = "one"    -> {OneFact}
    [] extractor = "grep"   -> {GrepTexts(items) : items \in Parses}
    [] extractor = "search" -> {SearchTexts(items) : items \in Parses}
    [] extractor = "recall" -> {RecallTexts(items) : items \in Parses}

\* The tasks of the records run in their order up to their first await: those
\* that need no model are done, those that may call one reserve, and wait for
\* the semaphore, or are left with their fallback.
Fan(names) ==
  LET budgets == Budgets(names)
      granted(i) == UsesModel(names[i]) /\ budgets[i] # budgets[i - 1]
      returns(i) == IF granted(i) THEN {Pending}
                    ELSE IF UsesModel(names[i]) THEN Fallback ELSE Parsed(Routed(names[i]))
  IN /\ records' = names
     /\ held' = (budgets[0].calls > 0)
     /\ queue' = Only([i \in 1..Len(names) |-> i], {i \in 1..Len(names) : granted(i)})
     /\ \E what \in {w \in [1..Len(names) -> UNION {returns(i) : i \in 1..Len(names)}] :
                       \A i \in 1..Len(names) : w[i] \in returns(i)} :
          results' = [i \in 1..Len(names) |->
                           IF what[i] \in {Pending, Raised} THEN what[i] ELSE FactsOf(i, what[i])]

Begin(names) ==
  /\ stage = "idle"
  /\ IF perTool
       THEN stage' = "tools" /\ Fan(names) /\ UNCHANGED asked
       ELSE /\ stage' = "whole" /\ asked' = Spent(TurnTokens)
            /\ UNCHANGED <<records, held, results, queue>>
  /\ UNCHANGED <<registry, perTool, limit, calling, others, facts, vectors>>

Returns(i, texts) ==
  results' = [results EXCEPT ![i] =
                [k \in 1..Len(texts) |-> [tool |-> records[i], from |-> i, text |-> texts[k]]]]

\* A permit is free for the first that waits: it calls its model, or finds, with
\* Bash, that patterns of its own cover the output.
Acquire ==
  /\ queue # <<>> /\ Cardinality(calling) + others < Concurrency
  /\ queue' = Tail(queue)
  /\ LET i == Head(queue)
     IN \/ /\ Routed(records[i]) = "bash"
           /\ \E texts \in Found \ {<<>>} : Returns(i, texts)
           /\ UNCHANGED <<calling, asked>>
        \/ /\ calling' = calling \cup {i}
           /\ asked' = Spent(Cost(records[i]))
           /\ UNCHANGED results
  /\ UNCHANGED <<registry, perTool, limit, stage, records, held, others, facts, vectors>>

\* The model answers, or fails and one fact of the result is kept.
ModelAnswers ==
  /\ \E i \in calling :
       /\ calling' = calling \ {i}
       /\ \E texts \in Found \cup {<<1>>} : Returns(i, texts)
  /\ UNCHANGED <<registry, perTool, limit, stage, records, held, asked, queue, others, facts, vectors>>

\* The extractions of other turns take permits and give them back.
OthersCall ==
  /\ stage = "tools"
  /\ \/ Cardinality(calling) + others < Concurrency /\ others' = others + 1
     \/ others > 0 /\ others' = others - 1
  /\ UNCHANGED <<registry, perTool, limit, stage, records, held, asked, results, queue, calling,
                 facts, vectors>>

-----------------------------------------------------------------------------
(* The turn.                                                               *)

\* gather: in the order of the records; those that raised are left out.
Gathered == FlattenSeq([i \in 1..Len(results) |-> IF results[i] = Raised THEN <<>> ELSE results[i]])

\* All records are done: the turn's own call is made, which no semaphore limits.
Gather ==
  /\ stage = "tools" /\ \A i \in 1..Len(results) : results[i] # Pending
  /\ IF held THEN stage' = "turn" /\ asked' = Spent(TurnTokens) ELSE stage' = "merged" /\ UNCHANGED asked
  /\ facts' = Gathered
  /\ UNCHANGED <<registry, perTool, limit, records, held, results, queue, calling, others, vectors>>

Similar(a, b) == a.text - b.text \in -1..1
TurnFacts(texts) ==
  [k \in 1..Len(texts) |-> [tool |-> <<"turn">>, from |-> MaxRecords + 1, text |-> texts[k]]]

\* deduplicate_facts: the like of one before it in the batch goes first, then
\* the like of one there is.
Novel(batch, existing) ==
  LET pairs == Range(batch) \X Range(batch)
  IN Only(FirstOnly(batch, {p \in pairs : Similar(p[2], p[1])}),
          {fact \in Range(batch) : \A e \in Range(existing) : ~Similar(fact, e)})

\* The call for the turn, or for the whole of it, answers; a failure, or a text
\* that is no JSON, finds nothing.  What was found of the whole is not compared.
TurnAnswers ==
  /\ stage \in {"turn", "whole"}
  /\ \E texts \in TurnReplies :
       facts' = IF perTool THEN facts \o Novel(TurnFacts(texts), facts) ELSE TurnFacts(texts)
  /\ stage' = "merged"
  /\ UNCHANGED <<registry, perTool, limit, records, held, asked, results, queue, calling, others,
                 vectors>>

-----------------------------------------------------------------------------
(* Storing.                                                                *)

Hash(fact) == <<fact.tool, fact.text>>

\* deduplicate_facts_by_hash
Fresh(batch, known) ==
  LET pairs == Range(batch) \X Range(batch)
  IN FirstOnly(Only(batch, {fact \in Range(batch) : Hash(fact) \notin known}),
               {p \in pairs : Hash(p[1]) = Hash(p[2])})

\* The graph has the hashes of any of them.
Deduplicate ==
  /\ stage = "merged"
  /\ \E known \in SUBSET {Hash(f) : f \in Range(facts)} : facts' = Fresh(facts, known)
  /\ stage' = IF facts' = <<>> THEN "done" ELSE "embedding"
  /\ UNCHANGED <<registry, perTool, limit, records, held, asked, results, queue, calling, others,
                 vectors>>

\* Mutant of Embedded: what has no embedding is left out.
EmbeddedCompacted(batch, got) == SelectSeq(batch, LAMBDA i : i \in got)

\* The embeddings of a batch, by the index that the reply gives each: a failed
\* request has none.
Embedded(batch, got) == [k \in 1..Len(batch) |-> IF batch[k] \in got THEN batch[k] ELSE NoVector]

\* The next batch of texts. A vector is the number of the text it was made of.
EmbedBatch ==
  /\ stage = "embedding"
  /\ LET from == Len(vectors) + 1
         size == IF Len(facts) - Len(vectors) < BatchSize THEN Len(facts) - Len(vectors) ELSE BatchSize
     IN \E got \in SUBSET (from..from + size - 1) :
          /\ vectors' = vectors \o Embedded([k \in 1..size |-> from + k - 1], got)
          /\ stage' = IF from + size > Len(facts) THEN "done" ELSE stage
  /\ UNCHANGED <<registry, perTool, limit, records, held, asked, results, queue, calling, others,
                 facts>>

ExtractorsNext ==
  \/ \E n \in 0..MaxRecords : \E names \in [1..n -> Names] : Begin(names)
  \/ Acquire \/ ModelAnswers \/ OthersCall \/ Gather \/ TurnAnswers
  \/ Deduplicate \/ EmbedBatch

ExtractorsSpec == ExtractorsInit /\ [][ExtractorsNext]_extractorVars

-----------------------------------------------------------------------------
(* The properties.                                                         *)

\* Whatever tools a turn has used, the calls it makes stay within its budget,
\* and they never use up what its own call needs: that call is made whenever
\* the budget has room for it at all.
TurnNotStarved ==
  perTool =>
    /\ asked.calls <= limit.calls /\ asked.tokens <= limit.tokens
    /\ stage \notin {"idle", "tools"} /\ limit.calls > 0 /\ limit.tokens >= TurnTokens => held

\* What is stored of a turn has the order of its records, whichever answered
\* first; no fact is stored twice, or with the vector of another; and no fact
\* of the turn's own call is like another fact of it, or like one that is
\* stored of its records.
StoredAligned ==
  stage = "done" =>
    /\ Len(vectors) = Len(facts)
    /\ \A i \in 1..Len(facts) :
         /\ vectors[i] \in {i, NoVector}
         /\ \A j \in 1..i - 1 : facts[j].from <= facts[i].from /\ Hash(facts[i]) # Hash(facts[j])
         /\ perTool /\ facts[i].from = MaxRecords + 1 => \A j \in 1..i - 1 : ~Similar(facts[i], facts[j])
=============================================================================
