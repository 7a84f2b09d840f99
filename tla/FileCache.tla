----------------------------- MODULE FileCache ------------------------------
(***************************************************************************)
(* The file cache of one session and the reads served from it: the capture *)
(* at the start of every background extraction (openai/extraction.py,      *)
(* openai/file_cache.py), its queries (graph/ladybug_files.py), and the    *)
(* intercept that answers the model's Read calls without asking the client *)
(* (proxy/tool_intercept.py).                                              *)
(*                                                                         *)
(* The client runs the tools on its disk and sends the whole history with  *)
(* every request.  A capture sees the history of the request it belongs    *)
(* to, and runs after the answer, while the next requests are served.      *)
(* The configuration is one with native_read_intercept_enabled and the     *)
(* synthetic tools it requires.  A message calls at most one tool.         *)
(***************************************************************************)
EXTENDS Integers, Sequences, FiniteSets, SequencesExt, Lists

CONSTANTS
  Paths,       \* the files the tools are called on
  EndsWith,    \* pairs <<q, p>> of paths: q ends with "/" followed by p
  Calls,       \* the tool calls the model may make, with the size of what
               \* they write to the file, or of the lines they read
  MaxEntries,  \* file_cache_max_entries
  MaxAge,      \* file_cache_ttl_turns
  MaxCalls,    \* bound on the calls the client answers
  MaxFaults    \* bound on the failed queries

\* A content is empty, or within file_cache_max_file_bytes, or larger.
Sizes == {"empty", "fits", "large"}

\* A whole read, a read of some lines, a file written, edited, patched; a
\* shell command that changes a file it does not name; and plain text.
Tools == {"read", "part", "write", "edit", "patch", "shell", "say"}

ASSUME FileCacheAssumption ==
  /\ EndsWith \subseteq Paths \X Paths
  /\ Calls \subseteq [tool : Tools, path : Paths, size : Sizes]
  /\ MaxEntries \in Nat \ {0}
  /\ MaxAge \in Nat
  /\ MaxCalls \in Nat
  /\ MaxFaults \in Nat

\* The frozensets of tool names.
Interceptable == {"read", "part"}             \* NATIVE_INTERCEPTABLE_TOOLS
NativeWrites  == {"write", "edit", "patch"}   \* NATIVE_WRITE_TOOLS
WriteTools    == {"write", "edit"}            \* WRITE_TOOLS of the invalidation
FullWrites    == {"write"}                    \* FULL_WRITE_TOOLS
Changes       == NativeWrites \cup {"shell"}
PathTools     == Interceptable \cup NativeWrites

\* A file's version is the number of the call that wrote it.  What a tool
\* returns, and what is cached, is a whole file, some lines of it, or a note
\* ("file written").
Whole(v, z) == [form |-> "whole", version |-> v, size |-> z]
Part(v, z)  == [form |-> "part", version |-> v, size |-> z]
Note(v)     == [form |-> "note", version |-> v, size |-> "fits"]
Texts       == [form : {"whole", "part", "note"}, version : Nat, size : Sizes]

\* A call of the history that used one of the tools T.
CallsOf(T) == [tool : T, path : Paths, text : Texts]

VARIABLES
  disk,      \* the client's files: path -> whole text
  log,       \* the calls of the history with their results
  turn,      \* Session.turn_number
  phase,     \* what the request in flight waits for
  asked,     \* the intercepted call that waits for the answer to the re-send
  captures,  \* the extraction tasks that hold or await the session lock
  running,   \* whether the first of them has the lock and captures
  todo,      \* the queries it has left
  cache,     \* FileContent rows: a function on the cached paths
  outline,   \* FileOutline rows, likewise
  done,      \* the length of the history last captured
  dirty,     \* whether a query of the present or last capture failed
  faults     \* how many queries failed

clientVars == <<disk, log, turn, phase, asked>>
rowVars    == <<cache, outline>>
cacheVars == <<clientVars, captures, running, todo, rowVars, done, dirty, faults>>

CacheInit ==
  /\ disk = [p \in Paths |-> Whole(0, "fits")]
  /\ log = <<>>
  /\ turn = 1
  /\ phase = "model"
  /\ asked = {}
  /\ captures = <<>>
  /\ running = FALSE
  /\ todo = <<>>
  /\ cache = <<>>
  /\ outline = <<>>
  /\ done = 0
  /\ dirty = FALSE
  /\ faults = 0

-----------------------------------------------------------------------------
(* The client.                                                             *)

\* What a call does to the client's disk, and what it returns.  The text of
\* a full write is its argument; its result is a note all the same.
Ran(c) ==
  LET n    == Len(log) + 1
      text == CASE c.tool = "read"  -> disk[c.path]
                [] c.tool = "part"  -> Part(disk[c.path].version, c.size)
                [] c.tool = "write" -> Whole(n, c.size)
                [] OTHER            -> Note(n)
  IN [tool |-> c.tool, path |-> c.path, text |-> text]

\* A tool that writes returns a note, never empty.
ResultOf(e) ==
  IF e.tool \in NativeWrites THEN [e EXCEPT !.text = Note(e.text.version)] ELSE e

\* The client gets the answer with call c, runs it, and sends the next request;
\* after mere text that takes a user message.  If the answer has text, an
\* extraction task for the history it answered is scheduled.
Execute(c, text) ==
  /\ Len(log) < MaxCalls
  /\ c.tool = "say" => text
  /\ log' = Append(log, Ran(c))
  /\ disk' = IF c.tool \in Changes
               THEN [disk EXCEPT ![c.path] = Whole(Len(log) + 1, c.size)] ELSE disk
  /\ captures' = IF text
                   THEN Append(captures, [len |-> Len(log), turn |-> turn])
                   ELSE captures
  /\ phase' = IF c.tool = "say" THEN "client" ELSE "model"
  /\ asked' = {}
  /\ UNCHANGED <<turn, running, todo, rowVars, done, dirty, faults>>

\* A request with a new user message starts a turn.
NextTurn ==
  /\ phase = "client"
  /\ phase' = "model"
  /\ turn' = turn + 1
  /\ UNCHANGED <<disk, log, asked, captures, running, todo, rowVars, done, dirty,
                 faults>>

-----------------------------------------------------------------------------
(* The intercept.                                                          *)

\* Nothing is served right after a write.
Open == log # <<>> => Last(log).tool \notin NativeWrites

\* The cached paths a read of p may be answered from: p itself, else one that
\* ends with it.
Sources(p) ==
  IF p \in DOMAIN cache THEN {p} ELSE {q \in DOMAIN cache : <<q, p>> \in EndsWith}

Hit(c) == Open /\ c.tool \in Interceptable /\ Sources(c.path) # {}

\* What it is answered with: the content cached for any of these paths.
Answers(c) == {cache[q].text : q \in Sources(c.path)}

\* The read is answered from the cache, and the answer sent upstream.
Intercept(c) ==
  /\ phase = "model"
  /\ Hit(c)
  /\ phase' = "resent"
  /\ asked' = {c}
  /\ UNCHANGED <<disk, log, turn, captures, running, todo, rowVars, done, dirty,
                 faults>>

\* The answer goes to the client: nothing to intercept, or lines beyond the
\* end of what is cached.
Relay(c, text) ==
  /\ phase = "model"
  /\ Hit(c) => c.tool = "part"
  /\ Execute(c, text)

\* The answer to the re-send goes to the client without another look.
AnswerResend(c, text) == phase = "resent" /\ Execute(c, text)

\* The re-send fails, and the client runs the call it was to be spared.
ResendFails(text) ==
  /\ phase = "resent"
  /\ \E c \in asked : Execute(c, text)

-----------------------------------------------------------------------------
(* The capture.  It goes through the whole history of its request again:   *)
(* every file written is dropped, every result of a tool with a path is    *)
(* kept as the file's content, and at last what the latest message wrote.  *)

Query(kind, e) == [kind |-> kind, path |-> e.path, text |-> e.text]

\* The calls whose text is not above file_cache_max_file_bytes.
Storable == {e \in CallsOf(Tools) : e.text.size # "large"}

\* Upserts in order, but of larger texts, whose older rows stay; then one
\* eviction if there were any texts at all.
Upserts(es) ==
  IF es = <<>> THEN <<>>
  ELSE LET ks == Only(es, Storable)
       IN Append([i \in DOMAIN ks |-> Query("keep", ks[i])], Query("evict", es[1]))

Drops(h) ==
  LET es == Only(h, CallsOf(WriteTools))
  IN [i \in DOMAIN es |-> Query("drop", es[i])]

\* _extract_file_reads: the result of every tool with a path, of whatever kind,
\* unless it is empty.
Shown == {e \in CallsOf(PathTools) : ResultOf(e).text.size # "empty"}
Results(h) ==
  LET es == Only(h, Shown)
  IN Upserts([i \in DOMAIN es |-> ResultOf(es[i])])

\* _extract_file_writes: the arguments of the last message only, unless empty.
Filled == {e \in CallsOf(FullWrites) : e.text.size # "empty"}
Written(h) ==
  IF h = <<>> THEN <<>> ELSE Upserts(Only(<<Last(h)>>, Filled))

\* Mutant of Plan: the written text is kept first, the tool's note over it.
PlanWritesFirst(h) == Drops(h) \o Written(h) \o Results(h)

Plan(h) == Drops(h) \o Results(h) \o Written(h)

StartCapture ==
  /\ ~running /\ captures # <<>>
  /\ running' = TRUE
  /\ todo' = Plan(SubSeq(log, 1, captures[1].len))
  /\ dirty' = FALSE
  /\ UNCHANGED <<clientVars, captures, rowVars, done, faults>>

EndCapture ==
  /\ running /\ todo = <<>>
  /\ running' = FALSE
  /\ captures' = Tail(captures)
  /\ done' = captures[1].len
  /\ UNCHANGED <<clientVars, todo, rowVars, dirty, faults>>

\* A task that waited ten seconds for the lock gives up.  (The extraction that
\* follows a capture under the same lock is not shown.)
GiveUp(i) ==
  /\ running => i > 1
  /\ captures' = RemoveAt(captures, i)
  /\ UNCHANGED <<clientVars, running, todo, rowVars, done, dirty, faults>>

-----------------------------------------------------------------------------
(* Its queries.                                                            *)

Without(f, S) == [p \in DOMAIN f \ S |-> f[p]]
With(f, p, row) == [q \in DOMAIN f \cup {p} |-> IF q = p THEN row ELSE f[q]]

\* upsert_file_content: nothing changes, the turn neither, for the same text.
Kept(f, p, row) ==
  IF p \in DOMAIN f /\ f[p].text = row.text THEN f ELSE With(f, p, row)

\* The query at hand is over; it failed if ok is FALSE.
Queried(ok) ==
  /\ running /\ todo # <<>>
  /\ todo' = Tail(todo)
  /\ ~ok => faults < MaxFaults
  /\ faults' = IF ok THEN faults ELSE faults + 1
  /\ dirty' = (dirty \/ ~ok)
  /\ UNCHANGED <<clientVars, captures, running, done>>

\* Content and outline are deleted one after the other; a failure of the first
\* spares both, of the second the outline.
Drop(n) ==
  /\ todo # <<>> /\ todo[1].kind = "drop"
  /\ Queried(n = 2)
  /\ cache' = IF n >= 1 THEN Without(cache, {todo[1].path}) ELSE cache
  /\ outline' = IF n = 2 THEN Without(outline, {todo[1].path}) ELSE outline

\* A note has no symbols to outline; what was there stays.
Outlined(q, row) ==
  IF q.text.form = "note" THEN outline ELSE With(outline, q.path, row)

Keep(n) ==
  /\ todo # <<>> /\ todo[1].kind = "keep"
  /\ Queried(n = 2)
  /\ LET q   == todo[1]
         row == [text |-> q.text, turn |-> captures[1].turn]
     IN /\ cache' = IF n >= 1 THEN Kept(cache, q.path, row) ELSE cache
        /\ outline' = IF n = 2 THEN Outlined(q, row) ELSE outline

\* Rows updated more than MaxAge turns ago.
Old(f) == {p \in DOMAIN f : turn - MaxAge > 0 /\ f[p].turn < turn - MaxAge}

\* The rows beyond MaxEntries, the oldest ones; any of equally old ones.
Excess(f) ==
  LET over == Cardinality(DOMAIN f) - MaxEntries
  IN {S \in SUBSET DOMAIN f :
        /\ Cardinality(S) = IF over > 0 THEN over ELSE 0
        /\ \A p \in S, q \in DOMAIN f \ S : f[p].turn <= f[q].turn}

\* evict_stale_file_cache: old contents, old outlines, contents in excess,
\* outlines in excess; the n-th of these may be the last that succeeds.
Evict(n) ==
  /\ todo # <<>> /\ todo[1].kind = "evict"
  /\ Queried(n = 4)
  /\ LET c == IF n >= 1 THEN Without(cache, Old(cache)) ELSE cache
         o == IF n >= 2 THEN Without(outline, Old(outline)) ELSE outline
     IN /\ \E S \in IF n >= 3 THEN Excess(c) ELSE {{}} : cache' = Without(c, S)
        /\ \E S \in IF n = 4 THEN Excess(o) ELSE {{}} : outline' = Without(o, S)

-----------------------------------------------------------------------------
CacheNext ==
  \/ NextTurn
  \/ \E c \in Calls : Intercept(c)
  \/ \E c \in Calls, text \in BOOLEAN : Relay(c, text) \/ AnswerResend(c, text)
  \/ \E text \in BOOLEAN : ResendFails(text)
  \/ StartCapture
  \/ EndCapture
  \/ \E i \in DOMAIN captures : GiveUp(i)
  \/ \E n \in 0..2 : Drop(n) \/ Keep(n)
  \/ \E n \in 0..4 : Evict(n)

CacheSpec == CacheInit /\ [][CacheNext]_cacheVars

-----------------------------------------------------------------------------
(* Properties.                                                             *)

\* No query of the last capture failed, and none is running.
Settled == ~running /\ ~dirty

\* The calls of the history that concern the file p.
About(p) == {i \in DOMAIN log : log[i].path = p /\ log[i].tool # "say"}

\* The last of them is part of what was captured, and the cache can know the
\* file by it: a whole read, or a full write that came last of all, of a text
\* that is neither empty nor too large to be kept.
Known(p) ==
  /\ About(p) # {}
  /\ LET last == Max(About(p))
     IN /\ last <= done
        /\ log[last].text.size = "fits"
        /\ \/ log[last].tool = "read"
           \/ log[last].tool = "write" /\ last = done

\* What the cache holds after a capture that succeeded is within its bounds, and
\* it is the file on the client's disk, for a file whose last call was a whole
\* read or a write just made, of a text the cache keeps: replaying the history in
\* order ends with the latest content (_run_file_cache_capture), whatever captures
\* were skipped.  A text that is empty or too large leaves the older row, and
\* nothing is said of it.
FreshWhenSettled ==
  Settled => /\ Cardinality(DOMAIN cache) <= MaxEntries
             /\ Cardinality(DOMAIN outline) <= MaxEntries
             /\ \A p \in DOMAIN cache : Known(p) => cache[p].text = disk[p]

\* "earlier writes have already been processed and the cache is fresh again"
\* (the intercept's comment on looking at the last message only): when no task
\* is left, none failed, and every call on a file was captured, a read of it that
\* is intercepted is answered with the file.
ServedIsFresh ==
  phase = "model" /\ captures = <<>> /\ ~dirty
    => \A c \in Calls :
         Hit(c) /\ (\A i \in About(c.path) : i <= done)
           => Answers(c) = {disk[c.path]}
=============================================================================
