------------------------------ MODULE TraceStore ------------------------------
(***************************************************************************)
(* The trace store of archolith_proxy (trace/store.py): turn and background *)
(* pass records per session, bounded in memory by evicting the oldest turn  *)
(* of a session and the least recently recorded session, mirrored to one    *)
(* append-only file per session name, reloaded at start, deleted on demand. *)
(*                                                                         *)
(* Each method is one action: it awaits only an asyncio.Lock that is never  *)
(* held across an await, so its file access follows without interruption.   *)
(***************************************************************************)
EXTENDS Integers, Sequences, FiniteSets, SequencesExt, Lists

CONSTANTS TraceSessions,  \* session ids (one of them may be __no_session__)
          FileOf,         \* session -> its file: "/" and "\" become "_"
          MaxTurns,       \* _max_turns
          MaxSessions,    \* _max_sessions
          MaxPasses,      \* _max_bg_passes
          MaxRecords,     \* bound: records ever made
          MaxReloads,     \* bound: restarts of the process
          MaxFaults       \* bound: files on which writes fail

ASSUME TraceBounds ==
  /\ {MaxTurns, MaxSessions, MaxPasses} \subseteq Nat \ {0}
  /\ {MaxRecords, MaxReloads, MaxFaults} \subseteq Nat
  /\ IsFiniteSet(TraceSessions)

TraceFiles == {FileOf[s] : s \in TraceSessions}

VARIABLES turns,      \* _by_session: session -> ids of its turns, oldest first
          indexed,    \* _by_turn_id: the ids that can be looked up
          order,      \* _session_order, least recently recorded first
          passes,     \* _bg_passes
          meta,       \* sessions with _session_meta
          lines,      \* file -> its lines
          recorded, reloads,  \* counters of the bounds
          faulty,     \* history: files a write failed on or retention removed
          gone        \* history: sessions deleted and not used since

traceVars == <<turns, indexed, order, passes, meta, lines, recorded, reloads,
               faulty, gone>>

(* -------------------------------- the file ------------------------------ *)

\* A line is a record (of kind "turn" or "pass"), or what a write that was cut
\* off has left of one, which has no newline yet ("torn"), or malformed ("bad").
Line(kind, s, id) == [kind |-> kind, sid |-> s, id |-> id]
IsRecord(l) == l.kind \in {"turn", "pass"}

\* The records of one kind of a session, by which load_from_disk files them.
RecordsOf(kind, s) == [kind : {kind}, sid : {s}, id : Nat]

\* A record appended behind a torn line shares that line and is lost with it.
Appended(file, l) ==
  IF file # <<>> /\ Last(file).kind = "torn"
  THEN Append(Front(file), IF IsRecord(l) THEN [l EXCEPT !.kind = "bad"] ELSE l)
  ELSE Append(file, l)

\* The write of a line is done, fails, or fails half way; a warning is all
\* that comes of it.
Write(s, l) ==
  LET f == FileOf[s]
      torn == [l EXCEPT !.kind = "torn"]
  IN  \/ /\ lines' = [lines EXCEPT ![f] = Appended(@, l)]
         /\ UNCHANGED faulty
      \/ /\ \E left \in {lines[f], Appended(lines[f], torn)} : lines' = [lines EXCEPT ![f] = left]
         /\ faulty' = faulty \cup {f} /\ Cardinality(faulty') <= MaxFaults

(* ------------------------------- the memory ----------------------------- *)

Held(t) == {s \in TraceSessions : t[s] # <<>>}
IdsOf(t) == UNION {ToSet(t[s]) : s \in TraceSessions}

\* The last n - 1 of a full list, which leaves room for one.
Room(list, n) == IF Len(list) < n THEN list ELSE SubSeq(list, Len(list) - n + 2, Len(list))

\* The sessions evicted while more than MaxSessions are held: from the front of
\* the order, and never s itself, which has moved to its end.
Evicted(s) ==
  LET others == Only(order, TraceSessions \ {s})
      excess == Cardinality(Held(turns) \cup {s}) - MaxSessions
  IN  ToSet(SubSeq(others, 1, excess))

\* The index after evictions have left the turns t, among them the new one.
Indexed(t, id) == (indexed \cap IdsOf(t)) \cup {id}

TraceInit ==
  /\ turns = [s \in TraceSessions |-> <<>>]
  /\ indexed = {}
  /\ order = <<>>
  /\ passes = [s \in TraceSessions |-> <<>>]
  /\ meta = {}
  /\ lines = [f \in TraceFiles |-> <<>>]
  /\ recorded = 0 /\ reloads = 0
  /\ faulty = {}
  /\ gone = {}

Record(s) ==
  LET id == recorded + 1
      out == Evicted(s)
  IN  /\ recorded < MaxRecords
      /\ recorded' = id
      /\ turns' = [x \in TraceSessions |-> IF x \in out THEN <<>>
                     ELSE IF x = s THEN Append(Room(turns[s], MaxTurns), id) ELSE turns[x]]
      /\ indexed' = Indexed(turns', id)
      /\ order' = Append(Only(order, TraceSessions \ (out \cup {s})), s)
      /\ passes' = [x \in TraceSessions |-> IF x \in out THEN <<>> ELSE passes[x]]
      /\ meta' = meta \ out
      /\ gone' = gone \ {s}
      /\ Write(s, Line("turn", s, id))
      /\ UNCHANGED reloads

\* A session known by its passes alone has no place in the order: it is not
\* counted and never evicted.
RecordBgPass(s) ==
  LET id == recorded + 1
  IN  /\ recorded < MaxRecords
      /\ recorded' = id
      /\ passes' = [passes EXCEPT ![s] = Append(Room(@, MaxPasses), id)]
      /\ gone' = gone \ {s}
      /\ Write(s, Line("pass", s, id))
      /\ UNCHANGED <<turns, indexed, order, meta, reloads>>

SetSessionMetadata(s) ==
  /\ meta' = meta \cup {s}
  /\ gone' = gone \ {s}
  /\ UNCHANGED <<turns, indexed, order, passes, lines, recorded, reloads, faulty>>

\* Mutant of Unlinked: the file is left to the retention cleanup.
UnlinkedLater(f) == lines[f]

\* What a file holds once it is unlinked.
Unlinked(f) == <<>>

\* The memory is dropped first; an unlink that raises leaves the file to the
\* next reload, and the caller learns that the deletion failed.
DeleteSessionData(s) ==
  /\ turns' = [turns EXCEPT ![s] = <<>>]
  /\ indexed' = indexed \ ToSet(turns[s])
  /\ order' = Only(order, TraceSessions \ {s})
  /\ passes' = [passes EXCEPT ![s] = <<>>]
  /\ meta' = meta \ {s}
  /\ \/ /\ lines' = [lines EXCEPT ![FileOf[s]] = Unlinked(FileOf[s])]
        /\ gone' = gone \cup {s}
        /\ faulty' = IF \E x \in TraceSessions \ {s} : FileOf[x] = FileOf[s]
                     THEN faulty \cup {FileOf[s]} ELSE faulty
     \/ UNCHANGED <<lines, gone, faulty>>
  /\ UNCHANGED <<recorded, reloads>>

(* -------------------------------- restart ------------------------------- *)

\* The ids of one kind that the records of a session's file hold, in order.
Loaded(kept, kind, s) ==
  LET mine == Only(kept[FileOf[s]], RecordsOf(kind, s))
  IN  [i \in DOMAIN mine |-> mine[i].id]

\* The order of the sessions after a reload: that of the files, by name, and
\* of the first turns in them. Any order of the sessions stands for the names.
OrderAfter(t) == SetToSeq(Held(t))

\* The process ends, and the next one removes the files past their retention
\* and loads what the others hold, without applying the bounds of the memory:
\* those are met again by the next record of each session.
Reload(old) ==
  LET kept == [f \in TraceFiles |-> IF f \in old THEN <<>> ELSE lines[f]]
  IN  /\ reloads < MaxReloads
      /\ reloads' = reloads + 1
      /\ lines' = kept
      /\ turns' = [s \in TraceSessions |-> Loaded(kept, "turn", s)]
      /\ passes' = [s \in TraceSessions |-> Loaded(kept, "pass", s)]
      /\ indexed' = IdsOf(turns')
      /\ order' = OrderAfter(turns')
      /\ meta' = {}
      /\ faulty' = faulty \cup old
      /\ UNCHANGED <<recorded, gone>>

TraceNext ==
  \/ \E s \in TraceSessions : \/ Record(s) \/ RecordBgPass(s)
                              \/ SetSessionMetadata(s) \/ DeleteSessionData(s)
  \/ \E old \in SUBSET TraceFiles : Reload(old)

TraceSpec == TraceInit /\ [][TraceNext]_traceVars

(* ------------------------------- properties ----------------------------- *)

\* trace/store.py: the turns and passes in memory are the last of those on disk,
\* kind by kind and in order, also after a restart, unless a write failed, the
\* retention removed the file, or a session whose name maps to the same file was
\* deleted. What was deleted with success is nowhere, and stays so through
\* restarts until the session is used again. Every turn that a session lists is
\* looked up by its id, and no other; and the eviction order names exactly the
\* sessions with turns (an empty order would fail the eviction).
TracesSurvive ==
  /\ \A s \in TraceSessions :
       LET onDisk(kind) == Only(lines[FileOf[s]], RecordsOf(kind, s))
           lastOf(list, kind) ==
             IsSuffix([i \in DOMAIN list |-> Line(kind, s, list[i])], onDisk(kind))
       IN  /\ FileOf[s] \notin faulty => lastOf(turns[s], "turn") /\ lastOf(passes[s], "pass")
           /\ s \in gone => /\ turns[s] = <<>> /\ passes[s] = <<>> /\ s \notin meta
                            /\ onDisk("turn") = <<>> /\ onDisk("pass") = <<>>
  /\ indexed = IdsOf(turns)
  /\ ToSet(order) = Held(turns) /\ Len(order) = Cardinality(Held(turns))
===============================================================================
