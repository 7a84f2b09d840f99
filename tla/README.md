# Verification of the archolith context proxy

TLA+ models of `src/archolith_proxy`, their TLC configurations, and proofs
checked by TLAPS. Paths below are relative to `src/archolith_proxy` unless they
start with `src/`.

Check a module with `tlc -workers 2 -config <run>.cfg <module>`, for instance
`tlc -config Extraction.cfg MCExtraction`; check proofs with
`tlapm ExtractionProofs.tla`. `PROJECT.json` lists every run, the source lines
of every definition, the hazards and the theorems.

## 1. The system

archolith-proxy is an OpenAI-compatible HTTP proxy (FastAPI, one asyncio event
loop). It sits between a coding agent and a model, extracts facts from every
answer into a per-session graph, and replaces long message histories by a
curated briefing. Since there is one event loop, the code between two `await`s
is atomic; the interleavings are those of the tasks at their awaits, plus the
few executor threads that write to sqlite.

| Component | State it keeps | Operations | Hard behaviours | What makes it correct |
|---|---|---|---|---|
| Chat request path (`openai/chat*.py`, `non_streaming.py`, `streaming.py`) | per request: session, flags for curation and recall, answer, trace | resolve session, gate, curate, inject tools, call upstream, intercept, schedule background tasks | every step may raise and must fail open; tasks outlive the response | the client always gets an answer or an error; internal tool calls never reach it; one extraction and one trace at most |
| Session resolution (`proxy/session.py`, `graph/ladybug_sessions.py`) | sessions, fingerprints, turn numbers | find or create, reconcile the turn number | concurrent first requests, restarts | one session per fingerprint, turn numbers that do not go backwards |
| Fact extraction (`openai/extraction.py`, `proxy/locks.py`, `graph/ladybug_facts.py`) | session locks; facts, edges, validity | lock, capture, extract, store, invalidate, supersede, feed the curator | an await between any two queries; lock timeouts; locks pruned while held; a failing query | one extraction per session at a time, in order; no duplicate fact; what is stored is announced |
| Curator workers (`curator/worker.py`, `main.py`) | registry, one queue and one task per session | enqueue, drain, pass, idle eviction, shutdown | arrivals during debounce, pass and close; a cancellation swallowed by a callee | the newest event is served; no active worker is cancelled; shutdown ends |
| Curator state (`curator/state.py`, `working_set.py`, `persistence.py`) | two caches, the ARC lists, a write-through queue, a sqlite sidecar | cache, read, evict, prune, flush, restore | dropped events, failing batches, crashes, restart | bounded memory, current values, a sidecar that never regresses |
| Curator pipeline and agent loop (`curator/pipeline.py`, `loop.py`, `prepper.py`) | briefing, snapshot | background pass, inline curation with fallbacks | time boxes, model failures | a fallback for every failure; never a briefing for another session |
| Curator tools and assembly (`curator/tools.py`, `deterministic_assembler.py`, `dependency_graph.py`, `scoring.py`) | the workspace roots; otherwise none | list, prefetch and read files, search facts, order and fill the context block | links and parent directories, off-by-one sections, budget arithmetic | nothing outside the workspace is cached or listed; within the budget, the best first |
| Message rewriting and context assembler (`proxy/rewrite.py`, `assembler/`) | none | tail, turn numbers, selection, condensing, facts under a budget | tool calls and their results must stay together; turns are selected by number | the result is a message list the upstream accepts, with what was selected |
| Extractor client (`extractor/`) | a budget per turn, a semaphore per process | route a tool record to its extractor, call the model, deduplicate, embed | extractors share a budget with the turn's own call; answers come in any order | the turn's call is never starved; vectors belong to their facts |
| File cache and read intercept (`openai/file_cache.py`, `proxy/tool_intercept.py`, `graph/ladybug_files.py`) | cached file contents per session | capture, invalidate on writes, evict, answer reads | capture lags behind the client's writes | a read is answered from the cache only with current content |
| Recall and synthetic tools (`proxy/recall.py`, `synthetic_tools.py`, `tool_injection.py`) | rounds of tool calls the proxy answers itself | inject, intercept, execute, call upstream again | partial failures, round limits | the rounds end; the client sees none of them |
| Circuit breaker (`proxy/circuit_breaker.py`) | per session: failure counts, cooldown, budget | record, ask | requests in flight when it opens; LRU eviction | open means no injection; the hard limit is final |
| Upstream client (`proxy/upstream.py`) | none | retry with backoff | which errors are retried | a bounded number of attempts |
| Memory promotion (`memory/`) | providers, cooldowns, promoted facts | promote, recall over providers | a failing provider | failures are isolated |
| Plugins (`plugins/`) | hook chain | run hooks | a failing hook | fail open |
| Trace (`trace/`) | bounded store | record, record a late background pass, delete | a pass that ends after its trace was dropped | bounds, one entry per request |
| Live broadcaster (`proxy/live.py`) | subscriber queues | publish, subscribe | slow subscribers | bounded queues |
| Cleanup (`graph/cleanup.py`, `main.py`) | none of its own | expire sessions, prune caches and locks | expiry races use | a session in use is not expired |
| Configuration (`config/`, `routers/admin_router.py`) | settings, a file of overrides | start, update, overlay of a session | layers, restarts, a file cut off | what the operator set is what is used |
| Lifespan (`main.py`) | resources, plugins, readiness | start, stop, health | anything optional may fail; time-outs | what was opened is closed, or it is known why not; a degraded proxy says so |
| Token accounting, models, views, metrics, shared text helpers | none | pure functions, views | | not modelled, see section 7 |

How they interact: a request resolves its session, may read the caches of the
curator (`get_briefing`, `get_snapshot`), and answers; `asyncio.create_task`
then starts the extraction task and the trace write. The extraction task takes
the session lock, writes the graph, and at its end feeds the curator: an event
to the session's worker when `curator_worker_enabled`, otherwise a legacy
background pass that replaces the previous one. The pass reads the graph and
writes the caches; the working set bounds them and the sidecar mirrors them.
The lifespan task starts all of it, runs the hourly cleanup loop (expired
sessions, stale locks, idle workers), and stops it.

## 2. Modules

| Module | Models | Theorems in |
|---|---|---|
| `CuratorWorkers` | `curator/worker.py`, the cleanup loop and shutdown of `main.py`, `run_background_pass` as far as it matters to a cancellation | `CuratorWorkersProofs` |
| `Extraction` | `openai/extraction.py`, `proxy/locks.py`, the queries of `graph/ladybug_facts.py` | `ExtractionProofs` |
| `Extractors` | `extractor/client.py`, `registry.py`, `budget.py`, `dedup.py`, `embeddings.py` and the extractors of the tools | `CurationProofs` |
| `ARCWorkingSet` | `curator/working_set.py` | `AnswersProofs` |
| `CuratorState` | `curator/state.py` and `curator/persistence.py` over `ARCWorkingSet`, which it EXTENDS | `AnswersProofs` |
| `CircuitBreaker` | `proxy/circuit_breaker.py` | `RequestPathProofs` |
| `RequestPath` | `openai/chat.py`, `chat_passthrough.py`, `non_streaming.py`, `streaming.py`, over `CircuitBreaker`, which it EXTENDS | `RequestPathProofs` |
| `Rounds` | the messages of the rounds the proxy answers itself: `proxy/recall.py`, `tool_injection.py`, `synthetic_tools.py`, `tool_intercept.py` | `AnswersProofs` |
| `Streams` | `proxy/streaming.py` and its use in `openai/streaming.py` | `AnswersProofs` |
| `Recall` | the forced recall and its ledger (`proxy/recall.py`, `openai/chat.py`), the facts it selects (`assembler/context.py`) | `AnswersProofs` |
| `FileCache` | `openai/file_cache.py`, `graph/ladybug_files.py`, the capture of `openai/extraction.py`, the intercept of `proxy/tool_intercept.py` | `ExtractionProofs` |
| `SessionRegistry` | what session resolution promises | |
| `Sessions` | `proxy/session.py`, `graph/ladybug_sessions.py`, `graph/cleanup.py`; implements `SessionRegistry` | `SessionsProofs` |
| `Rewrite` | `assembler/tail.py`, `proxy/rewrite.py`, the turn inventory of `curator/prompts.py`: operators without state | `CurationProofs` |
| `Curation` | `curator/pipeline.py`, `prepper.py`, `assembler.py` and their callers, over `Rewrite`, which it EXTENDS | `CurationProofs` |
| `CuratorLoop` | `curator/loop.py` | `CurationProofs` |
| `Assembly` | `curator/deterministic_assembler.py`, `dependency_graph.py`, `scoring.py`, `briefing.py` | `CurationProofs` |
| `Tools` | `curator/tools.py` and the file and fact queries behind it | `AnswersProofs` |
| `TraceStore` | `trace/store.py` | `ServicesProofs` |
| `LiveStream` | `proxy/live.py`, `routers/live_router.py` | `ServicesProofs` |
| `Memory` | `memory/registry.py`, `memory/promotion.py`, `memory/adapters/` | `ServicesProofs` |
| `Lifespan` | the lifespan and health of `main.py`, `plugins/` | `ServicesProofs` |
| `Config` | `config/`, `update_config` of `routers/admin_router.py`, `openai/chat_overlay.py` | `ServicesProofs` |
| `Lists` | selections from lists, `[x for x in s if ...]`, and sorted lists, in a form that can be proved about | `ListsProofs` |
| `MC*` | values, symmetry, and for three of them several modules side by side | |

How they compose. A module that calls into another one EXTENDS it
(`RequestPath` the breaker, `CuratorState` the working set, `Curation` the
rewriting), and `Sessions` instantiates its abstract specification. Modules
that share no state are run by one configuration: `MCServices`, `MCCuration`
and `MCAnswers` have a variable `part` that a behaviour chooses at the start;
the modules of the other parts rest in their initial state. That only saves
configurations: the state spaces add up and do not multiply.

### CuratorWorkers

A worker is an object with an identity: an evicted one runs on until its task
has unwound, beside the session's new one, so `registry` maps sessions to
workers and everything else is indexed by worker. `pc[w]` is the await at which
the task of `w` is suspended: `queue.get`, the debounce sleep, the pass, or the
trace write at the end of a pass. `cancelled` holds the workers whose task has a
`CancelledError` waiting for its next resumption; `DeliverCancel` throws it
there. Three tasks close workers: the cleanup loop (`shutdown_idle`), a caller
of `shutdown_session`, and the lifespan. `todo` and `waiting` are what such a
loop has left and the worker task it awaits. Time is abstract: a worker may
become `idle` whenever its loop is blocked on an empty queue or has ended; an
event or a pass makes it active again. Events come at any time, also during
the shutdown and after it, since nothing ends the extraction tasks that send
them; a worker they start while the shutdown waits is dropped, running, with the
registry (`ShutdownDone`). A closer that meets a worker already ended is given a
step for it, which the code takes without an await: others get more room than
they have. The lease of an external package, by which several processes would
share the work, is left out.

### Extraction

One task per answered request; `pc[t]` is the await it is suspended at. The
lock objects have identities, since a pruned lock lives on beside its
successor; `waiters` is the deque of `asyncio.Lock`, which is fair: a task that
finds the lock free but awaited queues up. What the extractor model returns is
any non-empty set of facts and any set of obsolete descriptions, or nothing.
`Fail` is an exception at any query that is not caught where it is raised. The
token overlap of two texts is the parameter `Near`. The contents of files,
decisions and checkpoints are left out (the step `Edges`).

### Extractors

What one turn's extraction finds, behind the step `Extract` of `Extraction`.
The tool records of a turn each go to the extractor registered for the longest
prefix of the tool's name; some call a model, if the budget of the turn and a
permit of the process's semaphore allow it; then the turn's own call is made.
What came of it is merged, deduplicated by hash and by similarity, and embedded
batch by batch. A text is a number, and texts that differ by at most one are
near-duplicates, which like the overlap of words is not transitive. An
extractor's parser is a choice of the items it takes from the result and of
those that are flawed. The permits other turns hold are a number.

### ARCWorkingSet and CuratorState

The four OrderedDicts are four sets and one sequence with the order in which
keys entered the list they are in. `RecordAccess` is `record_access` with its
five cases. `CuratorState` puts the two caches on top: each cached value is the
number of its write, so "older" is visible. `state.py` has no await, so its
functions are single actions; the drain task of the sidecar takes a batch, an
executor thread writes it, and it commits, fails half way, or is cut short by
the shutdown's timeout. `db` is what the connection sees, `durable` what was
committed: sqlite rolls back the difference in a crash, but nothing rolls it
back after a failed statement, so it is committed with a later batch. Three
variables record the past, none of which a restart resets: `truth`, the last
value written and not deleted of each row; `lost`, the rows whose last event was
dropped from a full queue, failed with its batch, was discarded by a stop, died
with the process, or was made when the hook was gone; and `stale`, those of
`lost` when the process started that were not written since. `MirrorComplete`
and `MemoryIsSound` name these rows as what may be older than the last write, or
back after a deletion, and claim it of no other.

### CircuitBreaker and RequestPath

`CircuitBreaker` is the OrderedDict of per-session records: `circuit`, and the
order of use `lru`. Every accessor moves its session to the end and may forget
the first one, so `Update` does both for all of them. Of `disabled_until` the
module keeps the ticks left.

A slot of `RequestPath` serves one request at a time. `task[i]` holds the locals
of the handlers: which tools were injected, the answer in hand and the exchange
with upstream it came from, whether it replaced the first one (`final_data` in
the code), and after the response what was sent and the background tasks that
are left. Each await is a step: the passthrough of a request whose model name
asks for it, single or streamed; the first exchange (`Call`), the exchange that
refuses leaked markup, up to two for recalls, one for a synthetic call, one for
file reads; and the four steps of a stream that is relayed, or held back because
it begins with a recall. An exchange stands for its retries, and ends with any of
`Answers`, an HTTP error, or an exception; a streamed answer may also break off
or lose its client. An answer is the text it has and the set of tools it calls.
The context the curator puts before the messages, and the forced recall, change
nothing these steps look at; neither raises.

### Rounds, Streams and Recall

Three views of what `RequestPath` has as one step. `Rounds` keeps the messages:
`thread` is what was appended to the conversation for the exchange under way,
each call with the exchange it came from, and `offered` the tools that went with
it. A recall is answered beside whatever else the model called, and one call for
the summary beside further ones, so that calls stay without a result, which
upstream refuses: `ResendsArePaired` says where that may be, and that it is
nowhere else (section 6). `Streams` keeps the lines: upstream cuts its answer as
it likes, into pieces of text and of calls; the lines are held back until a
decision, and then relayed, flushed, or answered for; `Read` is how a client
puts them together again. `Recall` keeps the facts: the trigger in the last
messages of a conversation, the ledger that debounces it, read before the query
and written after it, and the query that fills a budget with anchors, with the
best of the rest, and with the window of turns around them. A conversation is a
window of file numbers; scores are in ten-thousandths; the cache of query
vectors is left out; what the model asks through its own tool is explored from
the empty ledger, which it does not touch.

### FileCache

One session. The client's `disk` holds versions of files, its history `log` the
calls with their results; `Execute` is the client running a call and sending the
next request. An extraction task sees the history of the request it belongs to
(`captures`, with its length), and the first of them, which has the session
lock, works off the queries of `Plan`: drop what was written or edited, keep
every result of a tool with a path, evict, keep what the last message wrote,
evict. Each query may fail, and between any two of them the intercept may serve
a read (`Intercept`), after which the answer to the re-send goes to the client
unseen. A text is a whole file, some lines, or a tool's note, of some version,
and is empty, within the size limit, or above it: an empty result is skipped and
a larger one not stored, and in both cases the older row of the path stays. Left
out: texts of blanks only, several calls in one message, and the extraction that
follows a capture (module `Extraction`), which only makes the tasks behind it
give up.

### Sessions and SessionRegistry

`SessionRegistry` says what resolution promises: a conversation has at most one
session, a request learns it in one indivisible step, and one request is told
that it is new. `Sessions` has every await of `resolve_session`: the look
without a lock, the creation lock of a fingerprint, the second look, the
creation, the turn number, its repair from the traces after a restart, and the
merging of a session's settings; beside it the hourly cleanup that marks rows
expired and deletes marked ones later, failing queries, and a crash that loses
the last increments of a row. The refinement maps `bound` to the rows that a
look would find and `answer` to what each request was told
(`Registry == INSTANCE SessionRegistry WITH bound <- ..., answer <- ...`), and
the run checks `ImplementsRegistry == Registry!RegistrySpec`.

The embedded backend is the one modelled. Left out are the eviction of sessions
from the trace store, which a repair may then not see, and a creation that finds
its row already there. With neo4j a session is found or
made by one MERGE query, which is the registry's own step.

### Rewrite, Curation and CuratorLoop

`Rewrite` takes a conversation to what is sent: where the tail starts, which
turns before it are offered and kept, what is condensed, how the head of the
tail is validated. A message is its role, its calls or the call it answers, its
kind of body, and as its text the positions it was made of, so that what became
of each message of the client is visible. `Curation` makes the choice by which
it is rewritten: a recent briefing (of the turn before or later, or within
`briefing_max_staleness`) and an inline pass over it, a synchronous
top-up, the full loop, or nothing; a background pass makes the next briefing
from the messages that were sent, and may end at any time until the next request
cancels it. `CuratorLoop` is the loop itself, call by call. Left out: the token
ceiling of the rewriting, which no caller sets, the hint against markup, the
prompts and snapshots, and `_last_attempt`.

### Assembly and Tools

`Assembly` is the deterministic context block: the files a briefing fetched, the
references between them resolved as the code does it (relative, aliased, plain,
through index files), scores in tenths, the three orders, the map within its
share and the fill of the budget. Texts are lengths; the lines of a map have one
length; the listing of scores (`score_file_relevance`) is read here. `Tools` is
what fetched them: paths over a disk with links and parents, looked for beside
files the agent read; what is cached, listed and shown of it; the search for
facts. To contain a name is to have all its words; to choose among the places a
file may be is by names; the listings of decisions, issues and checkpoints are
left out, and facts are searched while no file is cached, since the two share
nothing.

### TraceStore, LiveStream, Memory, Lifespan and Config

The trace store's methods are single actions over memory and append-only files,
since the lock they await is never held across an await: recording, late passes,
metadata, eviction, deletion and reloading, with restarts, lines written half and
files that cannot be written; the queries that only read are left out. The live
stream has one handler per client and a bounded queue for each; a
client may be slow, refused or gone. `Memory` registers the configured engines, and lets
two extractions promote facts through adapters whose answers may be anything,
lost after the write or cut. `Lifespan` is one coroutine with a phase per await
whose outcome matters. A failed attempt at a graph may leave its connection open
("lost"); each resource is closed in a phase of its own, which may raise, and end
the shutdown where the code does not guard it; and requests' extraction tasks may
open clients again behind it (`Use`, `late`). What is left open is therefore a
list of exceptions (`Excused`, `Behind`), and the property is that there are no
others. `Config` has the layers of a setting over two starts, with writes of the
overrides that raise, and are answered as persisted all the same, or are cut; what
was answered (`due`) and what of it was not written (`lost`) are history. Assigning
a field marks it as set, as pydantic does (`FieldsSet`), so the branch for a filter
that only the profile asks for is in the model and never taken.

## 3. Runs

Runs that pass:

| Run | Modules | Bounds | Shows |
|---|---|---|---|
| `CuratorWorkers` | `CuratorWorkers` | 2 sessions, 2 workers, 3 events, queues of 2, turns and session ends | no schedule loses the newest event of a registered worker, starts a stale or repeated pass or ends one early, or cancels a registered worker; every event is served; a shutdown of idle workers ends them and completes |
| `Extraction` | `Extraction`, `FileCache` | 3 tasks, 2 sessions, 2 turns, 2 contents, 1 lock before pruning, a pool of 1; 4 calls, 2 files, one of which may be served for the other, 1 row, 1 turn of age, 1 failed query | locks admit one task at a time, in order, and are never leaked; no duplicate active facts among tasks that shared a lock; after a capture that succeeded the file cache is within its bounds and holds the current content of every file last read whole or just written, unless that is empty or too large |
| `RequestPath` | `RequestPath`, `CircuitBreaker` | 2 requests at a time, 2 sessions, a breaker that remembers 1, opens at 1 failure and for good at 2, a budget of 2 turns, 8 answers | what is extracted is what the client got, at most once; internal calls are hidden but in the two named cases; failures and exchanges are bounded |
| `Sessions` | `Sessions`, `SessionRegistry` | 2 requests, 1 fingerprint and 1 explicit id, 2 new sessions, 1 crash that loses 1 increment, 2 past turns, 1 mark | the sessions implement the registry; a turn that runs alone is numbered above every traced one; settings asked for are kept and denied ones never used; no request is stuck |
| `Services` | `TraceStore`, `LiveStream`, `Memory`, `Lifespan`, `Config` | 3 trace sessions over 2 files, 3 records, 1 restart, 1 file with failing writes; 3 clients, queues of 2, 4 events; 2 engines of 5 configurations, 2 promoting tasks, 8 kinds of reply; 8 environments, 3 plugins; 4 settings, 3 updates, 2 starts | traces agree with their files; a live client has an unbroken run of events; a promotion that claims success has happened; health is honest, and what was opened is closed but in the cases named; settings that were written come back; start and stop end |
| `Curation` | `Rewrite`, `Curation`, `CuratorLoop`, `Assembly`, `Extractors`, `ARCWorkingSet` | 4 requests and 7 messages, limits of staleness 0 and 2, a tail of 2 and at most 3, 2 late extractions; 3 iterations of 2 calls; up to 3 files of 6, 4 budgets; 2 records, 9 budgets; 5 sessions, capacity 2 | what is sent is a list upstream accepts and has what was selected; briefings are recent; every call of the loop is answered; the block fits and holds the best files; the turn's extraction is never starved and vectors are aligned; the working set is bounded |
| `Answers` | `CuratorState`, `Recall`, `Streams`, `Rounds`, `Tools` | 2 keys, capacity 1, queue and batches of 2, 3 writes, 2 starts; 2 recalls at once, a window of 6 messages over 3 files, a ledger of 1 session and 2 files, 6 facts, a budget of 7 tokens; 6 lines, 2 calls, a capture of 6; 2 calls in an answer; 4 directories, a link, 3 files, 2 rows, 3 facts | the sidecar is complete, memory current, but for the rows whose last event was lost, and no row gets older; a recall is not repeated and is the best that fits; a client reads the answer it was given and the capture has no hole; a re-sent conversation has each result once behind its call, and no call without one but beside a recall or a call for the summary; nothing outside the workspace is cached or listed; what is shown is the best there is |

Types are part of the invariants that are proved (section 5), and are not run; the
runs check the properties.

Why the bounds are enough. Two workers let an evicted worker and its successor
coexist; with two sessions the cleanup loop closes one while another waits;
three events fill a queue of two and overflow it. Three tasks are a holder, a
waiter and a newcomer, which is what a pruned lock and the fairness of the lock
need; one content would hide which fact an invalidation matches, two do not.
Two requests are what the breaker needs for a report of one to meet the breaker
opened by the other; one remembered session makes every request of the other
session forget it. The answers have each tool alone, the pairs a handler treats
specially, leaked markup, and an answer that makes the finders of tool calls
raise. Four calls on the files give a history read, changed and read again with
a capture pending behind another, and two turns, after which a row is too old;
one row makes every second file an eviction.

Two requests are what a race for a first session needs, and a crash between them
what a lost increment needs; with two past turns a repair has two steps, between
which another request may come. Three trace sessions, two of them in one file,
with two in memory make eviction, a shared file and a reload meet. A queue of
two and four events overflow after a delivery. In the ARC the directory is full
at four keys with capacity two, and each list can have two. Seven messages hold
a question, a loop with two calls, an answer and two more questions, which the
windows of two and three cut at every place; four requests are one that makes a
briefing, one that is served from it, one that finds it at the limit and one too
late; with a limit of 0 the turn before still serves, with 2 the one before that
too. Three iterations of two calls pass the window of four errors by which the
loop decides it is stuck. The budgets of the assembly are none, too small for a
file, enough for some and for all. In the sidecar, three writes over a queue of
two and batches of two give a full queue, a batch in flight with others behind
it, and a failed batch followed by a good one; two starts are one restart. Two
recalls at once are what the ledger's check and mark need, and a ledger of one
session what forgetting needs. Six lines give a role, a text and a call in
pieces in any order; two calls in an answer give every pair of tools.

Symmetry is used for facts' contents, the keys of the sidecar and the slots of
requests, in runs without temporal properties other than action properties.

Deadlock is not checked where the system really stops: when the bounded supply
of events, tasks, requests or restarts is used up, or a part has run to its end.

Runs in which the code disagrees with its own documentation (one property each,
quoted in `PROJECT.json` under `findings`):

| Run | The documentation says | The run shows |
|---|---|---|
| `CuratorWorkersAcloseReturns` | `aclose`: "Cancel the drain loop and wait for it to unwind." | a worker in the middle of a pass swallows the cancellation, blocks on its empty queue, and `aclose` waits for ever |
| `CuratorWorkersShutdownStopsAll` | `shutdown_all_curator_workers`: "Stop all session workers and reset the registry (proxy shutdown)." | an event that arrives while the shutdown awaits a worker starts another one, which is dropped with the registry and runs on |
| `FileCacheServedIsFresh` | "earlier writes have already been processed and the cache is fresh again" | two answers after a write, all captures done, the cache holds the note of the tool that wrote, and serves it as the file |
| `SessionsOnlyIdleDeleted` | graph sessions expire after SESSION_TTL_HOURS | a session resumed after it was marked expired is deleted while it is in use |
| `CurationTurnsMatch` | "Turn numbers match the curator's turn inventory" | a briefing made from messages that were already shortened keeps the wrong question of the whole ones |

## 4. Fairness

Liveness is claimed of three specifications only; the others may stop anywhere.

- `CuratorWorkers`: weak fairness of `LoopStep`, `CloserStep`, `ShutdownAll` and
  `ShutdownDone`. Each is the continuation of a task whose timer fired or whose
  awaited task ended, and asyncio resumes every ready task: the debounce is a
  fixed sleep, a pass and its trace write are bounded by time limits. Nothing is
  assumed of clients (`Enqueue`), operators (`ShutdownSession`, `BeginShutdown`),
  the passing of time (`Age`) or the hourly tick. `EventServed` says that an
  event of a registered worker is served, or that the worker is closed, dropped or
  told that its session ended, or that the proxy has stopped, after which nothing
  is claimed to go on. A shutdown completes (`QuietShutdownCompletes`) once it has
  begun to close and the workers it took are idle, with no cancellation swallowed
  by a pass, premises without which it need not (section 6 and the run
  `CuratorWorkersAcloseReturns`).
- `Sessions`: weak fairness of `Step(r)` for each request, since the database
  calls it awaits return or raise. No fairness of locks is needed beyond that:
  the holder's own steps release it (`RequestsEnd`).
- `Services`: weak fairness of the lifespan's next phase only. Each of its
  awaits has a time limit, but the one for the workers, which is an outcome of
  its own in the model (`LifecycleEnds`); a close that raises ends the shutdown, by
  that error.

## 5. Proofs

Everything below is proved for every value of the constants: any number of
sessions, workers, tasks, clients, messages and events, any capacity and limit.
The assumptions are the `ASSUME`s of the modules, which the runs evaluate, and
nothing else:

- bounds and capacities are natural numbers, positive where the settings of the
  proxy are (`ConstantsAssumption`, `ArcAssumption`, `StateAssumption`,
  `LiveBounds`, `LifeBounds`, `TraceBounds`, `RoundsAssumption`, `LoopAssumption` and the like);
- names are told apart: no session is `NoSession`, an explicit id is no
  fingerprint and no random id, no engine is `NoEngine` (`PathAssumption`,
  `SessionNames`, `MemoryAssumption`);
- inputs have their types: bodies, lists of facts and conversations are
  sequences (`ConfigAssumption`, `MemoryAssumption`, `RecallAssumption`);
- there are finitely many requests at a time (`IsFiniteSet(Slots)`), and
  sessions in the ARC and in the trace store.

A service whose module shares a proofs module with others has a specification
of its own (`LiveSpec`, `LifeSpec`, `MemorySpec`, `ConfigSpec`, `CurationSpec`,
`LoopSpec`, `ExtractorsSpec`, `StateSpec`, `RoundSpec`, `ToolSpec`,
`RecallSpec`, `TraceSpec`, `CacheSpec`), and the theorem is about that.

**`CuratorWorkersProofs`**: `TypeCorrect`, `NotCancelledInvariant`,
`NewestKeptInvariant`, `PassIsForNewestAlways`. `NewestKept` is not inductive. Its
strengthening adds to the types that workers not yet started are as new
(`FreshWorkers`: without it the first event of a new worker could meet an old
queue), that registered, awaited and listed workers have been started
(`SpawnedWorkers`), that a worker being closed, or listed by the shutdown, is
out of the registry, although new workers are registered meanwhile
(`ClosedUnregistered`: otherwise a cancellation could take the event in hand of a
registered worker, which is also all of `NotCancelledInvariant`), what a loop has
in hand at each await, and that the newest event of a worker is in its queue, in
its hands, or served (`OwedInv`). For the action property `OrderInv` adds that
what a worker has done, has in hand and has still to do are ever newer.

**`ExtractionProofs`**: `Invariant`, `TypeCorrect`, `LockDiscipline`,
`NoDuplicateFacts`, `Exclusion`, `InOrder`, `CacheIsFreshAlways`. `LockInv` says
who may be where: a task that started has a lock, locks that were not pruned are
those of the registry, and a task beyond the lock is its recorded holder
(`HoldersInside`); `HoldersLive` is the converse and gives `LockHonoured`.
`KnownCovers` is the heart of `NoDuplicateActive`: from the reading of the
hashes to the storing, what a task knows covers every active content of its
session, because no other task with the same lock stores in between and
invalidation only takes facts away. `Exclusion` adds the condition under which
all tasks of a session exclude each other: no more sessions than `MaxLocks`, so
that nothing is ever pruned. In general pruning a lock that is held breaks it
(section 6), and `NoDuplicateActive` is stated of tasks that shared their lock.
`InOrder` is an action property: `QueueInv` says that the queue of a lock is
sorted by arrival and has everybody who waits. The capture that starts an
extraction is proved about here as well. While it runs, the cache may hold
anything: a note over a text, a row about to be dropped. So `CacheInv` speaks of
what the queries that are left will make of it: for a file that the history
tells, either the last of them about it keeps what its last call says
(`Coming`), or none is about it and the cache has that already (`Fresh`).
`PlanComes` shows it of the queries a capture begins with, from the order drops,
results, last written text. `Recorded` relates what the history tells to the
client's disk. The bounds need that a capture with queries ends with an eviction
(`Ending`), and, for one without, that there is no row: whatever is cached was
kept for a call that every later capture sees too (`RowsSeen`,
`CapturesOrdered`).

**`RequestPathProofs`**: `PathInvariant`, `WhatWasSentIsExtracted`,
`InternalCallsAreHidden`, `EffortIsBounded`. A request is a sequential program,
so most of the argument is about one task record: `Sound(t)` says what it may
hold at each await — how many exchanges it has made (`Spent`), which tools the
answer in hand may call (`InHandSound`), and what is left once a response was
given (`JobsSound`). The bound on failures relates the slots: a record at the
hard limit is disabled (`HardAtLimit`), and only requests already past the check
may still report, one each, which is why the bound has the number of slots in it.

**`SessionsProofs`**: `SessionsInvariant`, `OneSessionAlways`,
`AloneTurnsAdvanceAlways`, `OverridesAreKept`, `SessionsImplementRegistry`. Three
layers. `TasksSound` says what a request knows where it stands. `LockSound` and
`OneRow` say that the request that creates a row heads the queue of its
fingerprint and that the conversation has no row then, from which no fingerprint
has two sessions. `TurnsSound` follows the one request of an unspoiled session
through the reads and writes of its row: after the reconciliation the row is not
below the traces. The refinement is proved step by step: `BoundSound` says which
session the refinement mapping gives a conversation; then each action is shown
to be one of the registry's steps on `Bound` and `Answer`, or a stutter: finding
a session is `Join`, creating one `Open` or `OpenAlone`, the cleanup `Drop`, and
the end of requests, by an answer or a crash, `Forget`.

**`ServicesProofs`**: `StreamIsUnbroken`, `HealthIsHonest`, `PromotionIsHonest`,
`PersistedSettingsStay`, `TracesAlwaysSurvive`. What a client was sent, is being
sent and has queued is one sequence of consecutive events, and a step moves the
borders in it or appends to it (`LiveAt`). `LifeInv` says of each phase of the
lifespan what is open, what `degraded` means in it, and, of the phases of the
end, that only what they and those behind them close is open beside what is
excused (`StillOpen`). `MemoryInv` has that the default engine is the best
enabled one, that a success in the trail or in a batch is backed by what the
engine holds, and that the counts of outcomes add up. `ConfigInv` adds to the
property that what is due to a later process, and was written, is in the file in
a form that the next start reads as it is (`DueIsFiled`), which needs that a
coerced value is read back as itself. `TraceInv` says of every session that what
memory has is the end of what its file says of it, if no write of that file
failed: the records of one session can be selected from the file, and a line
written for one session spares those of the others. An id belongs to one
session, in memory and on disk, so what a deletion takes from the index is
exactly what the session had, and the index is the ids in memory. The order of
eviction lists each session of the memory once, and the sessions before the
written one are at least as many as are too many, so an eviction never takes the
session it makes room for.

**`CurationProofs`**: `ServedIsRecentAlways`, `CallsAreAnswered`,
`TurnIsNotStarved`, `StoredAsAnswered`, `SentIsAccepted`, `SelectionsAreHonoured`,
`BlocksFit`.
A request keeps the briefing it took while passes replace
the cached one, so `BriefingInv` speaks of the one in hand, and has that the turns
of all briefings on their way are numbers (`TurnsAreNumbers`). `LoopInv` says that
the ids of the calls are those of the results followed by those still to be run,
as lists, and counts the log against them. `TurnInv` relates the budget to the
queue: what was asked for, and the turn's own call as long as it is reserved, is
within the budget that the records before the first waiting one left.
`StoredInv` says stage by stage what the facts of a turn are: lists of which each
element stands in a relation to each later one (`Pairwise`: in the order of the
records, and not alike), which a concatenation of lists that are related across,
a selection, and a selection of first ones keep.
What is sent upstream follows from two relations of the rewritten list to the
conversation: it is `MadeOf` its messages, in their order, and it is `TakenWhole`:
a result starts a message of the list if and only if the message before it in the
conversation starts one, so the results of a call are all there, next to it, or
none is (`TakenIsGrouped`). The tail starts at no result (`TailStartIs`, by
induction over the scans that widen it), so each piece of the list is taken whole:
the retained turns because only a user's message changes the turn (`MiddleIs`), the
merged tail (`MergedAllIs`), the two together (`JoinedIs`), and what the cut to
the first user's message leaves (`CutKeeps`). A question that stays keeps what is
after it (`AskedStays`), from which a retained turn is lost only if it has no
question, and a question only if it was before the tail, where it was offered.
`SentInv` brings this to the requests: a request that waits has a `Conversation`,
whose calls are followed by their results, and ends with its question. That the
marker of a message that answers no call is not an id is an assumption of `Rewrite`.
`BlocksFit` follows the fill through its order (`Filled`): the blocks are those of
the first `m` of the order that have a text (`TakenTo`), and their length with what
is left of the room is the room, until one is cut. Since the order has every file
once and each before those it outranks (`ByScoreIs`, `ByTopologyIs`), what is left
out comes later; the blended order has a path once and begins with the best
exemplar (`ByBothIs`). The graph of the references may be any over the files, and
of scores only that they are numbers matters. `Assembly` assumes that sizes are
numbers, paths ranks among the known ones, and the words of a query finitely many.

**`AnswersProofs`**: `ArcInvariant`, `WorkingSetBounded`, `MemoryIsSoundAlways`,
`SidecarMirrors`, `RowsOnlyAdvance`, `ResendsKeepPairs`, `ToolsStayInside`,
`RecallsAreNotRepeated`, `StreamIsReadWhole`, `CapturesHaveNoHole`,
`RecallsTheBest`, `ToolsShowTheBest`. The sizes of the ARC's lists are inductive
for every capacity; the cases of the replacement are one lemma, and each case of
an access is arithmetic over cardinalities. `SidecarInv` says that the tables
the connection sees, and the committed ones, with the batch and the queue
applied to them, have what was written in every row that was not lost (`Agree`),
and that along them writes only get newer (`Ordered`): a row is never behind
what is still to be applied, also after a failed batch. What a failure or a
crash adds to `lost` are the rows its events touch (`Affected`), and on the
others two stores stay as they were. That memory is sound rests on it: what a
start loads agrees with what was written but for those rows. `RoundInv` says for
each stage what was sent: the answer, its results, the second answer and its
results. The tools stay inside because a path is checked after it was resolved,
and what is cached was checked. `RecallInv` says that the ledger has at most one
entry of a session, whose files have all that was answered and not dropped.
`StreamInv` says that the lines relayed, followed by those held, tell what
upstream said so far: their text is the answer's, their calls are its calls,
whose names may still be missing as long as no arguments came, and once there is
a reason to finish they read as the answer (`Tells`). Until the stream is let
through, the calls joined from the deltas are the calls of these lines, which is
why the message sent again has the model's calls; what was captured has the text
of the answer, or a beginning of it (`Kept`). What an answer made into lines
reads as is proved by induction over its calls (`CallsAreRead`, `AsLinesRead`).
What a recall returns and what a search finds are lists sorted by a number of
each place: such a list has each element once, and each before those it outranks
(`InOrderIs`, `HighestFirstSorts`), so what a beginning of it leaves out is
outranked by what it has. That the facts of a pool have distinct ids, as rows of
a table have, is an assumption of `Recall`; that a list of facts which a
selection made has none twice rests on it.

**`ListsProofs`** has what these proofs need of lists: what a selection
(`Only`), a concatenation of many (`FlattenSeq`) and an appended list hold, that
a selection keeps the order, the elements of a list as a set, what the first of
a selection is, when a list has each of its elements once, what the beginning
and the end of a list keep of that, and that a list sorted by a number of each
place has all its elements in that order.

Induction over data. The library's induction theorems take an operator as
parameter, which the provers cannot instantiate; `SetInduction` and
`SeqInduction` of `ListsProofs` say the same of a set, which they can: a set
with zero and with every number its successor has all numbers, one with the
empty list and with every list its extensions has all lists. So what a recursive
function computes can be proved where it is written as one (`Only`, `FirstOnly`,
`ApplyAll`, `Budgets`, `CallsRead`, `Tokens`, `FirstFit`, `TailStart`,
`MergedAll`, `Fill`, `LengthOf`); of the folds and of `SelectSeq` nothing can
be, since their definitions are recursive over sets or take an operator.

Only model-checked is everything temporal (`EventServed`, `QuietShutdownCompletes`,
`RequestsEnd`, `LifecycleEnds`): liveness and ENABLED are out of the prover's reach.
Every invariant that a passing run checks is proved.

## 6. What reading the code showed

Beyond the findings of section 3, these are places where the code does something
a reader of it would not expect. The models have the behaviour wherever the
module covers it; none has a run of its own.

Requests and streams
- A 504 or 502 for a non-streamed request stores no trace, and a passthrough
  stream swallows a time-out or a refused connection and ends as if complete
  (`openai/chat_passthrough.py`).
- An exception nobody catches between a synthetic call and its answer lets the
  call reach the client, though `proxy/synthetic_tools.py:18-19` rules it out
  (`openai/non_streaming.py:328`).
- A recall is handled in a stream only as its first call and with a question; a
  second one is relayed. A third recall may be executed and its answer dropped.
  A re-sent answer that only calls the other internal tool reaches the client
  empty. Of two synthetic calls in one answer the first is answered.
- A recall that is called beside other tools is answered, and the conversation
  sent again without a result for them (`proxy/recall.py:119-127`). The handler of
  the summary gives up in front of such an answer, since leaving "the other
  tool_call_ids unanswered" makes upstream return 400
  (`proxy/synthetic_tools.py:450-453`).
- A stream that ends undecided is never flushed, not even its `[DONE]`; an empty
  text in the first piece decides for relaying. After a truncation the capture
  drops `finish_reason` and usage, which the comment at `proxy/streaming.py:35`
  keeps; streamed tool calls are not in it.
- Messages compressed for an agent on its own are never sent
  (`openai/chat.py:259`, `365`). Extraction and background passes get the
  rewritten messages, not the client's (`openai/chat.py:488-512`).

Sessions
- Reconciliation is marked done before it succeeds and races with touches; two
  creations with one explicit id leave the second request without a session; two
  merges of overrides may lose one.

Extraction and the graph
- Stale locks are pruned while held, against the docstring (`proxy/locks.py:8-9`,
  `82-85`). A failed turn-level call writes an older session goal back.
- Superseding may name the fact just stored (`openai/extraction.py:319`, `333`;
  `curator/prompts.py:25`). An empty extraction does not feed the curator
  (`openai/extraction.py:215-227`, comment at line 467).
- The default extractor drops all facts if one is a bare string; facts of tools
  are not deduplicated among themselves; the turn's own call does not take the
  semaphore; similarity drops are not transitive.
- Recall scoring raises for a fact of a later turn; a fact that contains "No
  facts found" counts as no result; the text of a graph error is injected as a
  recall and marks its files as recalled; the ledger is read before the query and
  marked after it.

Files
- A read may be served while a capture puts an older content over a newer one;
  served reads carry line numbers twice (`proxy/tool_intercept.py:112`); `limit`
  is a count or an end line by the name of the argument (line 61).
- A file last read empty, or whole and above the size limit, keeps the older text
  it has in the cache (`openai/helpers.py:292`, `openai/file_cache.py:44-46`),
  which later reads are served. Outlines outlive their contents; a stored path
  may be found by an ending in either direction, also in the middle of a name.
  Prefetched rows have turn 0, so they are evicted first, and lower the turn of a
  captured row.

Curator
- `shutdown_idle` closes workers that became active again, since its list is
  made once; a cancellation that comes while it waits in `aclose` is swallowed
  there (`curator/worker.py:123-124`) and `main.py:512` waits for ever.
- A warm restart seeds the caches with empty results (`curator/state.py:84-86`,
  `persistence.py:6`); a pass in flight caches for a session just pruned; an
  older background pass may overwrite a newer briefing.
- Refusals for unknown tools and invalid JSON do not count for the stuck
  detection; `list_cached_files` returns no outline, so outlines never score;
  `recall_session_work` tags every cached file as modified.
- The deterministic block exceeds its budget by a fence and a note, and its head
  has no bound; importance is read out of the reason's text; dependencies are
  resolved in hash order.
- The deterministic selection drops turns of the tail that is "always kept"; a
  second system message moves the tail and is dropped with a selection; the tail
  is not "completely intact" (`proxy/rewrite.py:159`).

Services
- The "dropped" sentinel of a live stream is never delivered (`proxy/live.py:80`,
  `routers/live_router.py:48`). Traces of ids that differ in "/" share a file; a
  torn line swallows the record after it; loading ignores the bounds; sessions
  known only from late passes are never evicted.
- The deletion of a session by an operator is undone by an extraction in flight.
- An update of the settings with `synthetic_tools_enabled` applies the keys before
  it and then fails; "false" in an overlay is true; `curation_mode` can be changed
  but is read at the start; the file of overrides is not written atomically.
- A write of that file that fails is only logged (`config/runtime.py:98-102`), and
  the update is answered as persisted all the same (`routers/admin_router.py:188`).
- "A profile-driven enable degrades to passthrough instead of refusing to start"
  (`main.py:278-279`), but the profile's assignment marks the field as set
  (`config/runtime.py:27`), so the start is refused (`main.py:313`).
- `/ready` ignores a degraded graph; drivers of failed attempts are not closed; a
  start that fails does not close its two clients; a client that raises when it is
  closed keeps those behind it open (`main.py:543`, `554`-`555`); a
  sidecar whose load fails after its start is never stopped (`main.py:460-483`).
- No memory adapter offers deduplication, and the default engine is stale after
  it is registered again.

## 7. Not modelled

- Single queries of the graph databases, HTTP and the disk: their results and
  failures are choices of the modules that use them. With neo4j a session is
  found or made by one query, so `Sessions` models the embedded backend.
- `assemble_context`, compaction and intents, which the running application
  never calls; the token ceiling of the rewriting, which nothing enables;
  compression for an agent on its own, whose result is never sent.
- Texts: prompts, profiles, condensed results, fingerprints, and how an
  extractor parses the output of its tool.
- Token accounting: sums of estimates; which requests are curated is a choice.
- The leader lease of the workers, which belongs to an external package.
- The admin, metrics and session views, the trace builder, data models and
  logging: single calls over state other components own.
- The evaluation harness, the scripts and the dashboard, which are not part of
  the proxy.

The components of `PROJECT.json` say what is left out of each modelled part.
