------------------------------ MODULE Assembly ------------------------------
(***************************************************************************)
(* The context block that the deterministic assembler makes of a briefing  *)
(* (archolith_proxy/curator/deterministic_assembler.py): the small pools   *)
(* whole, a map of the code within its share, and the fetched files until  *)
(* the budget is used, in the order in which they came, of their score     *)
(* (scoring.py), of how many others refer to them (dependency_graph.py) or *)
(* of both around an exemplar.                                             *)
(*                                                                         *)
(* Texts are lengths in characters.  A path is its rank among the paths,   *)
(* and a reference is taken apart as the resolver does.  The lines of a    *)
(* map have one length.                                                    *)
(***************************************************************************)
EXTENDS Integers, Sequences, FiniteSets, SequencesExt, FiniteSetsExt, Lists

CONSTANTS
  PathOf,        \* the normalised paths in their order: [dirs, stem, ext]
  Fetched,       \* the files a briefing may have
  MaxFiles,      \* bound on its files
  Queries,       \* sets of words a user may ask with
  PoolSizes,     \* lengths of the small pools
  Allowances,       \* token budgets, in characters
  LineLength,    \* of a map
  Exemplars,     \* paths with one of the configured suffixes
  NoFile,
  Unknown        \* the row of a file score_file_relevance did not list

ASSUME AssemblyAssumption ==
  /\ MaxFiles \in Nat /\ LineLength \in Nat \ {0}
  /\ Allowances \subseteq Nat /\ PoolSizes \subseteq Nat
  /\ Exemplars \subseteq DOMAIN PathOf
  /\ DOMAIN PathOf \subseteq Nat
  /\ \A file \in Fetched :
       /\ file.path \in DOMAIN PathOf /\ file.size \in Nat
       /\ file.row = Unknown \/ (file.row.inOutline \in Nat /\ file.row.turn \in Nat)
  /\ \A query \in Queries : query # {} /\ IsFiniteSet(query)

VARIABLES
  briefed,    \* the files of the briefing and the query
  options,    \* the settings and the budget
  assembly    \* what came of it

assemblyVars == <<briefed, options, assembly>>

Header   == 24   \* "\n\n=== RELEVANT CODE ===\n"
MinCut   == 200
Fence    == 4
CutNote  == 35
MapCap   == 1600
CapNote  == 20   \* "\n... [map truncated]"
FitNote  == 30   \* "\n... [map truncated by budget]"
MapShare == 12   \* percent

Least(S) == CHOOSE x \in S : \A y \in S : x <= y
-----------------------------------------------------------------------------
(* dependency_graph.py: which files refer to which.                        *)

Extensions == <<"", "ts", "tsx", "js", "jsx", "mjs", "css", "astro", "vue", "svelte", "json">>
IndexExtensions == <<"ts", "tsx", "js", "jsx", "mjs">>

Path(dirs, stem, ext) == [dirs |-> dirs, stem |-> stem, ext |-> ext]

\* The paths that are looked for, in their order.
Tried(base) ==
  IF base.ext # "" THEN <<base>>
  ELSE [k \in DOMAIN Extensions |-> [base EXCEPT !.ext = Extensions[k]]]
       \o [k \in DOMAIN IndexExtensions |->
             Path(Append(base.dirs, base.stem), "index", IndexExtensions[k])]

EndsIn(path, tail) ==
  /\ path.stem = tail.stem /\ path.ext = tail.ext
  /\ Len(path.dirs) > Len(tail.dirs) /\ IsSuffix(tail.dirs, path.dirs)

\* _match_base: a path that is tried, or else the first one that ends in it.
MatchBase(base, paths) ==
  LET tried == Tried(base)
      exact == {k \in DOMAIN tried : \E p \in paths : PathOf[p] = tried[k]}
      tail  == {k \in DOMAIN tried : \E p \in paths : EndsIn(PathOf[p], tried[k])}
  IN IF exact # {} THEN CHOOSE p \in paths : PathOf[p] = tried[Least(exact)]
     ELSE IF tail # {} THEN Least({p \in paths : EndsIn(PathOf[p], tried[Least(tail)])})
     ELSE NoFile

\* _candidate_keys and _file_keys.
KeysOf(spec) ==
  {<<spec.stem, spec.ext>>, <<spec.stem, "">>} \cup
  (IF spec.ext # "" /\ spec.dirs = <<>> THEN {<<spec.ext, "">>} ELSE {})
PathKeys(path) == {<<path.stem, path.ext>>, <<path.stem, "">>}

\* The files that the keys of a reference lead to, each to the first that has
\* it.  The keys are tried in the order of a set of strings, so that it is any
\* of them, the same one through all of an assembly.
ByKey(spec, files) ==
  LET owners(key) == {i \in DOMAIN files : key \in PathKeys(PathOf[files[i].path])}
      hits == {files[Least(owners(key))].path : key \in {k \in KeysOf(spec) : owners(k) # {}}}
  IN IF hits = {} THEN {NoFile} ELSE hits

\* Of every such reference the file its keys lead to.
Hashings(files) ==
  LET specs == {s \in UNION {files[i].refs : i \in DOMAIN files} : s.kind = "plain"}
      open  == {s \in specs : Cardinality(ByKey(s, files)) > 1}
  IN {hash \in [open -> {files[i].path : i \in DOMAIN files}] :
        \A s \in open : hash[s] \in ByKey(s, files)}

Keyed(spec, files, hash) ==
  IF spec \in DOMAIN hash THEN hash[spec] ELSE CHOOSE p \in ByKey(spec, files) : TRUE

\* _resolve.
Resolved(spec, from, files, hash) ==
  LET paths == {files[i].path : i \in DOMAIN files}
      home == PathOf[from].dirs
      base == Path(spec.dirs, spec.stem, spec.ext)
      hit  == MatchBase(base, paths)
  IN CASE spec.kind = "relative" ->
            IF spec.up > Len(home) THEN NoFile
            ELSE MatchBase([base EXCEPT !.dirs = SubSeq(home, 1, Len(home) - spec.up) \o @], paths)
       [] spec.kind = "alias" -> hit
       [] spec.kind = "plain" -> IF spec.dirs # <<>> /\ hit # NoFile THEN hit ELSE Keyed(spec, files, hash)

\* extract_dependencies: of every path the others its files refer to.
DependenciesOf(files, hash) ==
  LET paths == {files[i].path : i \in DOMAIN files}
  IN [p \in paths |->
        {Resolved(spec, p, files, hash) :
           spec \in UNION {files[i].refs : i \in {j \in DOMAIN files : files[j].path = p}}}
        \ {NoFile, p}]

\* The graphs that the order of the sets may make of them.
Graph(files) == {DependenciesOf(files, hash) : hash \in Hashings(files)}

\* compute_indegree.
InDegree(deps) == [p \in DOMAIN deps |-> Cardinality({q \in DOMAIN deps : p \in deps[q]})]

-----------------------------------------------------------------------------
(* scoring.py, and the rows of curator tool score_file_relevance that it   *)
(* reads, with scores in tenths.                                           *)

AtMost(n, bound) == IF n > bound THEN bound ELSE n

\* The first number in the reasons of a row, 0 without one.  A row is how many
\* words of the query the prepper guessed are in the outline, and the turn of
\* the entry; words in the path are named without a number.  The score itself,
\* the other column, is not looked at.
ReasonNumber(row) ==
  IF row = Unknown THEN 0
  ELSE IF row.inOutline > 0 THEN row.inOutline
  ELSE IF 5 * row.turn > 10 THEN row.turn ELSE 0

\* parse_importance, in tenths.
Importance(row) ==
  LET n == ReasonNumber(row)
  IN IF n = 0 THEN 5 ELSE IF n > 1 THEN AtMost(n, 10) ELSE 10

\* retrieval_score times ten times the words of the query, less its recency,
\* which all files share.
Scored(file, query) ==
  Importance(file.row) * Cardinality(query) + 10 * Cardinality(query \cap file.words)

-----------------------------------------------------------------------------
(* The orders, of the places of the files in the briefing.                 *)

\* score_files.
Scores(files, query) == [i \in DOMAIN files |-> Scored(files[i], query)]
ByScore(files, query) ==
  InOrderOf(DOMAIN files, HighestFirst(DOMAIN files, Scores(files, query)))

\* order_by_topology.
Dependants(files, deps) ==
  LET degree == InDegree(deps) IN [i \in DOMAIN files |-> degree[files[i].path]]
FoundationsFirst(files, deps) ==
  LET n == Dependants(files, deps)
  IN {p \in (DOMAIN files) \X (DOMAIN files) :
        \/ n[p[1]] > n[p[2]]
        \/ n[p[1]] = n[p[2]] /\ files[p[1]].path < files[p[2]].path
        \/ n[p[1]] = n[p[2]] /\ files[p[1]].path = files[p[2]].path /\ p[1] < p[2]}
ByTopology(files, deps) == InOrderOf(DOMAIN files, FoundationsFirst(files, deps))

\* order_by_combo: the best exemplar, then the two orders by turns, a path once.
Models(files) == {i \in DOMAIN files : files[i].path \in Exemplars}
SamePath(files) == {p \in (DOMAIN files) \X (DOMAIN files) : files[p[1]].path = files[p[2]].path}
ByBoth(files, query, deps) ==
  LET scored == ByScore(files, query)
      topo   == ByTopology(files, deps)
      models == Only(scored, Models(files))
      turns  == FlattenSeq([k \in DOMAIN files |-> <<scored[k], topo[k]>>])
  IN FirstOnly((IF models = <<>> THEN <<>> ELSE <<models[1]>>) \o turns, SamePath(files))

OrderOf(order, files, query, deps) ==
  CASE order = "combo"       -> ByBoth(files, query, deps)
    [] order = "topological" -> ByTopology(files, deps)
    [] order = "scored"      -> ByScore(files, query)
    [] order = "fifo"        -> [i \in DOMAIN files |-> i]

-----------------------------------------------------------------------------
(* The map: render_task_map or render_code_map, then _truncate_map_to_budget. *)

MapLines(kind, files, deps) ==
  LET foundations == IF \E p \in DOMAIN deps : deps[p] # {} THEN 1 ELSE 0
  IN CASE kind = "task" -> IF files = <<>> THEN 0
                           ELSE 2 + AtMost(Len(files), 6) + foundations
       [] kind = "indegree" -> IF foundations = 0 THEN 0
                               ELSE 2 + Cardinality({p \in DOMAIN deps : deps[p] # {}})
       [] kind = "none" -> 0

\* What of that many characters is left when they are cut after whole lines.
WholeLines(chars) ==
  IF chars > LineLength THEN (chars \div (LineLength + 1)) * (LineLength + 1) - 1 ELSE chars

MapLength(lines, share) ==
  LET all    == lines * (LineLength + 1) - 1
      capped == IF all <= MapCap THEN all ELSE WholeLines(MapCap) + CapNote
  IN IF lines = 0 \/ share <= 0 THEN 0
     ELSE IF capped <= share THEN capped
     ELSE IF share <= FitNote THEN 0 ELSE WholeLines(share - FitNote) + FitNote

-----------------------------------------------------------------------------
(* build_deterministic_context.                                            *)

Piece(place, chars, cut) == [place |-> place, chars |-> chars, cut |-> cut]

\* Mutant of RoomAfter: a block costs nothing.
RoomAfterNothing(room, cost) == room

RoomAfter(room, cost) == room - cost

\* A file that fits is taken; the first that does not is cut if there is room
\* enough, and is the last.  A file without outline or sections is passed over.
Taken(files, filled, i) ==
  LET size == files[i].size
  IN IF filled.full \/ size = 0 THEN filled
     ELSE IF size + 1 <= filled.room
       THEN [filled EXCEPT !.code = Append(@, Piece(i, size, FALSE)),
                           !.room = RoomAfter(@, size + 1)]
     ELSE IF filled.room > MinCut
       THEN [filled EXCEPT !.full = TRUE,
               !.code = Append(@, Piece(i, filled.room + CutNote +
                                             (IF files[i].fenced THEN Fence ELSE 0), TRUE))]
     ELSE [filled EXCEPT !.full = TRUE]

Fill(files, order, room) ==
  LET filled[n \in 0..Len(order)] ==
        IF n = 0 THEN [code |-> <<>>, room |-> room, full |-> FALSE]
        ELSE Taken(files, filled[n - 1], order[n])
  IN filled[Len(order)].code

Assembled(files, query, opts, deps) ==
  LET map  == MapLength(MapLines(opts.map, files, deps), (opts.budget * MapShare) \div 100)
      head == map + opts.pools + (IF map > 0 /\ opts.pools > 0 THEN 2 ELSE 0)
  IN [made |-> TRUE,
      map  |-> map,
      head |-> head,
      code |-> Fill(files, OrderOf(opts.order, files, query, deps), opts.budget - head - Header),
      deps |-> deps]

NoAssembly == [made |-> FALSE, map |-> 0, head |-> 0, code |-> <<>>, deps |-> <<>>]

AssemblyInit ==
  /\ briefed = [files |-> <<>>, query |-> {}]
  /\ options = [order |-> "fifo", map |-> "none", budget |-> 0, pools |-> 0]
  /\ assembly = NoAssembly

\* The prepper fetches a file more for the next briefing: another path.
Brief(file) ==
  /\ assembly = NoAssembly /\ Len(briefed.files) < MaxFiles
  /\ \A i \in DOMAIN briefed.files : briefed.files[i].raw # file.raw
  /\ briefed' = [briefed EXCEPT !.files = Append(@, file)]
  /\ UNCHANGED <<options, assembly>>

\* run_deterministic_assembler: nothing to say leaves the request to the loop.
Assemble(deps, query, order, map, budget, pools) ==
  /\ assembly = NoAssembly
  /\ briefed' = [briefed EXCEPT !.query = query]
  /\ options' = [order |-> order, map |-> map, budget |-> budget, pools |-> pools]
  /\ assembly' = Assembled(briefed.files, query, options', deps)

AssemblyNext ==
  \/ \E file \in Fetched : Brief(file)
  \/ \E deps \in Graph(briefed.files), query \in Queries,
        order \in {"fifo", "scored", "topological", "combo"}, map \in {"none", "task", "indegree"},
        budget \in Allowances, pools \in PoolSizes :
       Assemble(deps, query, order, map, budget, pools)

AssemblySpec == AssemblyInit /\ [][AssemblyNext]_assemblyVars
-----------------------------------------------------------------------------
(* The properties.                                                         *)

ChosenOf(code) == {code[k].place : k \in DOMAIN code}

\* Of the blocks and the newlines between them.
LengthOf(code) ==
  LET length[n \in 0..Len(code)] == IF n = 0 THEN -1 ELSE length[n - 1] + code[n].chars + 1
  IN length[Len(code)]

Fits(files, query, opts, made) ==
  LET code   == made.code
      chosen == ChosenOf(code)
      out    == {i \in DOMAIN files : files[i].size > 0} \ chosen
      score  == Scores(files, query)
      n      == Dependants(files, made.deps)
      models == Models(files)
  IN /\ code # <<>> =>
          made.head + Header + LengthOf(code) <=
            opts.budget + (IF code[Len(code)].cut THEN Fence + CutNote ELSE 0)
     /\ made.map <= (opts.budget * MapShare) \div 100
     /\ \A k \in DOMAIN code : code[k].cut => k = Len(code)
     /\ \A i \in chosen, j \in out :
          /\ opts.order = "scored" => score[i] >= score[j]
          /\ opts.order = "topological" => n[i] >= n[j]
     /\ opts.order = "combo" =>
          /\ \A i, j \in chosen : files[i].path = files[j].path => i = j
          /\ \A i \in models :
               /\ code # <<>> /\ files[i].size > 0
               /\ \A j \in models : score[i] > score[j] \/ (score[i] = score[j] /\ i <= j)
               => code[1].place = i

\* The block keeps its budget but for the note and the fence of a cut file and
\* for pools that are larger than it; the map has its share; only the last file
\* is cut; no path is there twice in the blended order; and the files that are
\* left out are never ones the order is there to protect: a better score, more
\* dependants, the exemplar that scores best.
AssemblyFits == assembly # NoAssembly => Fits(briefed.files, briefed.query, options, assembly)
=============================================================================
