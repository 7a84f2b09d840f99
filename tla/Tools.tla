-------------------------------- MODULE Tools --------------------------------
(***************************************************************************)
(* The tools a curator works with (curator/tools.py): files of the disk    *)
(* are listed and prefetched into the session's cache, within the          *)
(* workspace; files of the cache are read in sections; facts are searched. *)
(*                                                                         *)
(* A path is a sequence of names, absolute or not; Up is "..".  The agent  *)
(* changes the disk at will, so a read finds any text.  A text is its      *)
(* length in lines and its symbols; what one is called is a set of words,  *)
(* and to contain a name is to have all its words.                         *)
(***************************************************************************)
EXTENDS Integers, Sequences, FiniteSets, SequencesExt, FiniteSetsExt, Lists

CONSTANTS
  Up,
  Unknown,     \* roots while no workspace is on record: every path is refused
  Folders,     \* the directories of the disk, paths without links
  Links,       \* links of the disk, to paths without links
  DiskFiles,   \* the files of the disk
  Cwd,         \* the directory the proxy runs in
  Workspaces,  \* the roots that may be allowed, sequences of directories
  Requested,   \* paths asked for: [abs, path]
  CaptureOf,   \* paths whose text the agent's own tools put into the cache
  DiskTexts,   \* texts
  Focuses,     \* descriptions of a section, sets of words
  Climb,       \* directories a relative path is looked for in, 8 in the code
  MaxEntries,  \* most entries listed, 200
  FocusLines,  \* most lines after the first of a focused section, 80
  PreviewLines,  \* lines shown without a focus, 20
  FullLines,   \* longest text shown whole, 200
  HeadLines,   \* lines shown of a longer one, 10
  MaxRows,     \* bound on the files cached
  FactPools,   \* the facts that may be in the graph: [match, alike, vector]
  FoundLimit   \* most facts found, 20 or what the curator asks for

\* A text has a line, and its symbols are listed as they come.
IsText(t) ==
  /\ t.length \in Nat \ {0}
  /\ t.symbols \in Seq(Range(t.symbols))
  /\ \A s \in Range(t.symbols) : s.at \in 1..t.length
  /\ \A i, j \in DOMAIN t.symbols : i < j => t.symbols[i].at <= t.symbols[j].at

ASSUME ToolsAssumption ==
  /\ \A t \in DiskTexts : IsText(t)
  /\ \A focus \in Focuses : IsFiniteSet(focus)
  /\ \A l \in DOMAIN Links : Links[l] \in Folders \cup DiskFiles
  /\ {Climb, MaxEntries, FocusLines, PreviewLines, FullLines, HeadLines, FoundLimit}
       \subseteq Nat \ {0}
  /\ HeadLines <= FullLines
  /\ FactPools \subseteq Seq([match : BOOLEAN, alike : Int, vector : BOOLEAN])

VARIABLES
  roots,    \* the allowed roots; none: all of the disk; or not known yet
  rows,     \* the session's cached files: [text, prefetched]
  outlines, \* their outlines, by path
  seen      \* the latest answer of a tool

toolVars == <<roots, rows, outlines, seen>>

Silence == [tool |-> "none"]
NoMap == [p \in {} |-> 0]

ToolInit ==
  /\ roots \in Workspaces \cup {<<>>, Unknown}
  /\ rows = NoMap
  /\ outlines = NoMap
  /\ seen = Silence

-----------------------------------------------------------------------------
(* Paths.                                                                  *)

\* Path.resolve of an absolute path.
Step(p, name) ==
  IF name = Up THEN SubSeq(p, 1, Len(p) - 1)
  ELSE LET q == Append(p, name) IN IF q \in DOMAIN Links THEN Links[q] ELSE q

Real(p) == FoldLeft(Step, <<>>, p)

Exists(p) ==
  /\ \A n \in 0..(Len(p) - 1) : Real(SubSeq(p, 1, n)) \in Folders
  /\ Real(p) \in Folders \cup DiskFiles

Inside(p) == roots = <<>> \/ \E r \in Range(roots) : IsPrefix(Real(r), Real(p))

\* A path of the proxy's own directory, if it is relative.
FromCwd(r) == IF r.abs THEN r.path ELSE Cwd \o r.path

\* The directories of cached files, and those above one of them.
ParentsOf(cached) == {Front(p) : p \in cached}
Above(p) == [k \in 1..Climb |-> SubSeq(p, 1, Max({0, Len(p) - k + 1}))]

\* Where a path is found in them: the nearest to one of the cached files.
Attempts(r) ==
  {(CHOOSE q \in {Above(d)[k] \o r.path : k \in 1..Climb} :
      \E k \in 1..Climb : /\ q = Above(d)[k] \o r.path /\ Exists(q)
                          /\ \A j \in 1..(k - 1) : ~Exists(Above(d)[j] \o r.path)) :
     d \in {e \in ParentsOf(DOMAIN rows) : \E k \in 1..Climb : Exists(Above(e)[k] \o r.path)}}

-----------------------------------------------------------------------------
(* Texts.                                                                  *)

\* _find_focused_range: how well a symbol fits a description.
Fits(symbol, focus) ==
  (IF focus \subseteq symbol.words \/ symbol.words \subseteq focus THEN 3 ELSE 0)
    + Cardinality(focus \cap symbol.words)

SectionEnd(text, i) ==
  Min({text.symbols[i].at + FocusLines,
       IF i < Len(text.symbols) THEN text.symbols[i + 1].at - 1 ELSE text.length})

Best(text, focus) ==
  LET fit(i) == Fits(text.symbols[i], focus)
  IN CHOOSE i \in DOMAIN text.symbols :
       /\ \A j \in DOMAIN text.symbols : fit(j) <= fit(i)
       /\ \A j \in 1..(i - 1) : fit(j) < fit(i)

\* The lines shown of a text, for which description, with its symbols or not.
Shown(path, text, from, to, focus) ==
  [tool |-> "text", path |-> path, text |-> text, from |-> from, to |-> to, focus |-> focus]

\* What prefetching shows: the section described, or the first lines.
Prefetched(path, text, focus) ==
  IF \E s \in Range(text.symbols) : focus # {} /\ Fits(s, focus) > 0
    THEN LET i == Best(text, focus)
         IN Shown(path, text, text.symbols[i].at, SectionEnd(text, i), focus)
    ELSE Shown(path, text, 1, Min({PreviewLines, text.length}), {})

-----------------------------------------------------------------------------
(* The tools.                                                              *)

Reports(answer) == seen' = answer /\ UNCHANGED <<roots, rows, outlines>>
Refuses == Reports(Silence)

Entered(table, path, row) ==
  [p \in DOMAIN table \cup {path} |-> IF p = path THEN row ELSE table[p]]

\* The cache gets a text; its outline only if it has one, and the outline's
\* own query does not fail.
Cache(path, text, prefetched, outlined) ==
  /\ Cardinality(DOMAIN rows \cup {path}) <= MaxRows
  /\ rows' = Entered(rows, path, [text |-> text, prefetched |-> prefetched])
  /\ outlines' = IF outlined /\ text.symbols # <<>>
                   THEN Entered(outlines, path, text.symbols) ELSE outlines

Captured(path, text, outlined) ==
  /\ Cache(path, text, FALSE, outlined)
  /\ seen' = Silence
  /\ UNCHANGED roots

\* The harness tells of its workspace.
Learn(ws) ==
  /\ roots = Unknown
  /\ roots' = ws
  /\ seen' = Silence
  /\ UNCHANGED <<rows, outlines>>

\* The file at p is read, cached, and shown in part; unless it cannot be read,
\* is too large, or is not accepted by the graph.
Load(p) ==
  \/ Refuses
  \/ \E text \in DiskTexts, focus \in Focuses \cup {{}}, outlined \in BOOLEAN :
       /\ Cache(p, text, TRUE, outlined)
       /\ seen' = Prefetched(p, text, focus)
       /\ UNCHANGED roots

\* Mutant of Validated: a path that was found is not validated again.
ValidatedOnce(p) == Exists(p) /\ Real(p) \in DiskFiles

\* The path found at last is one of a file, inside.
Validated(p) == Inside(p) /\ Exists(p) /\ Real(p) \in DiskFiles

\* prefetch_file: a relative path must be inside when taken from the proxy's
\* own directory, and then where it is found.
Prefetch(r) ==
  LET paths == IF r.abs THEN {r.path} ELSE Attempts(r)
  IN IF roots = Unknown \/ ~Inside(FromCwd(r)) \/ paths = {} THEN Refuses
     ELSE \E p \in paths : IF Validated(p) THEN Load(p) ELSE Refuses

\* list_dir: a relative path is the first root's that has it, or the first's.
TargetOf(r) ==
  LET has == {i \in DOMAIN roots : Exists(roots[i] \o r.path)}
  IN IF r.abs \/ roots = <<>> THEN FromCwd(r)
     ELSE roots[IF has = {} THEN 1 ELSE Min(has)] \o r.path

EntriesOf(d) ==
  {Last(p) : p \in {q \in Folders \cup DiskFiles \cup DOMAIN Links : q # <<>> /\ Front(q) = d}}

ListDir(r) ==
  LET target == TargetOf(r)
  IN IF \/ roots = Unknown \/ (roots = <<>> /\ r.path = <<>> /\ ~r.abs)
        \/ ~Inside(target) \/ ~Exists(target) \/ Real(target) \notin Folders
       THEN Refuses
       ELSE LET all == EntriesOf(Real(target))
            IN Reports([tool |-> "dir", target |-> target,
                     listed |-> Min({MaxEntries, Cardinality(all)}),
                     more |-> Max({0, Cardinality(all) - MaxEntries})])

\* The row a path means: its own, or the shortest that ends like it.
Ending(path) == {p \in DOMAIN rows : IsSuffix(path, p)}
RowsFor(path) ==
  IF path \in DOMAIN rows THEN {path}
  ELSE {p \in Ending(path) : \A q \in Ending(path) : Len(p) <= Len(q)}

\* get_file: a long text only begins.
GetFile(path) ==
  IF path = <<>> \/ RowsFor(path) = {} THEN Refuses
  ELSE \E p \in RowsFor(path) :
         LET t == rows[p].text
         IN Reports(Shown(p, t, 1, IF t.length <= FullLines THEN t.length ELSE HeadLines, {}))

\* get_file_lines
GetFileLines(path, from, to) ==
  IF path = <<>> \/ RowsFor(path) = {} THEN Refuses
  ELSE \E p \in RowsFor(path) :
         LET t     == rows[p].text
             first == Max({1, from})
             last  == Min({to, t.length})
         IN IF first > last THEN Refuses ELSE Reports(Shown(p, t, first, last, {}))

\* get_file_outline: any outline of a path that ends like this one, or whose
\* end this one has, will do.
GetOutline(path) ==
  LET alike == {p \in DOMAIN outlines : IsSuffix(path, p) \/ IsSuffix(p, path)}
  IN IF path = <<>> \/ alike = {} THEN Refuses
     ELSE \E p \in IF path \in DOMAIN outlines THEN {path} ELSE alike :
            Reports([tool |-> "outline", path |-> p, symbols |-> outlines[p]])

-----------------------------------------------------------------------------
(* The search for facts.                                                   *)

Threshold == 5

AtMostFound(list) == SubSeq(list, 1, Min({FoundLimit, Len(list)}))
Alike(pool) == {i \in DOMAIN pool : pool[i].alike > Threshold}

\* search_facts, and search_facts_semantic without vectors to compare.
Matching(pool) ==
  AtMostFound(Only([i \in DOMAIN pool |-> i], {i \in DOMAIN pool : pool[i].match}))

\* The facts by their likeness.
ByLikeness(pool) ==
  HighestFirst(DOMAIN pool, [i \in DOMAIN pool |-> pool[i].alike])

WithVector(pool) == {i \in DOMAIN pool : pool[i].vector}

\* Mutant of Nearest: the first facts are ranked, not the nearest taken.
NearestOfFirst(pool) ==
  LET few == AtMostFound(Only([i \in DOMAIN pool |-> i], WithVector(pool)))
  IN InOrderOf(Range(few) \cap Alike(pool), ByLikeness(pool))

\* search_facts_semantic: the nearest by their vectors.
Nearest(pool) ==
  Only(AtMostFound(InOrderOf(WithVector(pool), ByLikeness(pool))), Alike(pool))

\* Facts are searched without regard to files; explored without any cached.
Search(pool, embedded) ==
  LET near == embedded /\ \E i \in DOMAIN pool : pool[i].vector
  IN /\ rows = NoMap
     /\ Reports([tool |-> "facts", pool |-> pool, near |-> near,
              found |-> IF near THEN Nearest(pool) ELSE Matching(pool)])

ToolNext ==
  \/ \E p \in CaptureOf, t \in DiskTexts, ok \in BOOLEAN : Captured(p, t, ok)
  \/ \E ws \in Workspaces : Learn(ws)
  \/ \E r \in Requested :
       \/ Prefetch(r) \/ ListDir(r) \/ GetFile(r.path) \/ GetOutline(r.path)
       \/ \E from \in 0..2, to \in 1..3 : GetFileLines(r.path, from, to)
  \/ \E pool \in FactPools, embedded \in BOOLEAN : Search(pool, embedded)

ToolSpec == ToolInit /\ [][ToolNext]_toolVars

-----------------------------------------------------------------------------
(* Properties.                                                             *)

\* What prefetching caches, and what is listed, is in the workspace, whether
\* its path was absolute, went through links and parents, or was looked for
\* beside files that the agent read elsewhere ("reject paths outside permitted
\* roots", "validate final resolved path").
StaysInside ==
  /\ \A p \in DOMAIN rows : rows[p].prefetched => roots # Unknown /\ Inside(p)
  /\ seen.tool = "dir" => Inside(seen.target)

\* What is shown is the best there is.  The section for a description begins at
\* a symbol that fits no worse than any other and ends before the next one
\* ("from the matched symbol to the next symbol (or EOF)"); no fact left out of
\* a search is nearer than one found, and none is left out but for want of room
\* or of likeness ("the top matches sorted by relevance").
ShownIsBest ==
  /\ seen.tool = "text" =>
       /\ 1 <= seen.from /\ seen.to <= seen.text.length
       /\ seen.focus # {} =>
            \E s \in Range(seen.text.symbols) :
              /\ s.at = seen.from
              /\ \A t \in Range(seen.text.symbols) :
                   /\ Fits(t, seen.focus) <= Fits(s, seen.focus)
                   /\ t.at > s.at => t.at > seen.to
  /\ seen.tool = "facts" =>
       LET left == DOMAIN seen.pool \ Range(seen.found)
           alike(i) == seen.pool[i].alike
       IN /\ Len(seen.found) <= FoundLimit
          /\ seen.near => \A i \in left : seen.pool[i].vector =>
               /\ \A j \in Range(seen.found) : alike(i) <= alike(j)
               /\ Len(seen.found) = FoundLimit \/ alike(i) <= Threshold
          /\ ~seen.near /\ Len(seen.found) < FoundLimit => \A i \in left : ~seen.pool[i].match
=============================================================================
