---------------------------- MODULE MCFileCache -----------------------------
(* Values for model checking FileCache: see the .cfg files.                *)
EXTENDS FileCache

CONSTANTS
  long, short   \* two files; the path of the first ends with the other's

LongEndsWithShort == {<<long, short>>}

Uses(tools, p) == {[tool |-> t, path |-> p, size |-> "fits"] : t \in tools}

\* The tools, spread over the two files; text names no file, and an edit or a
\* patch would be a write whose argument is not the file.  The shell makes the
\* short file too large to be kept, and the long one may be written empty.
MixedCalls ==
  Uses({"read", "part", "write", "say"}, long)
    \cup Uses({"read"}, short)
    \cup {[tool |-> "shell", path |-> short, size |-> "large"]}
    \cup {[tool |-> "write", path |-> long, size |-> "empty"]}

ReadsAndWrites == Uses({"read", "write", "say"}, long)
=============================================================================
