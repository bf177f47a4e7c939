--------------------------- MODULE MCIndexFreshness ---------------------------
(***************************************************************************)
(* IndexFreshness for TLC: two files that change between two texts and none,  *)
(* so that a change may be undone or not; two ready paths are a branch switch. *)
(* One file is in the root, the other in a directory that is made later: before *)
(* the scan, beside it, or with the watcher running.                          *)
(***************************************************************************)
EXTENDS IndexFreshness

CONSTANT f1   \* the file in the root

MCTexts == {"a", "b"}
MCDirs  == {"root", "sub"}
MCOldDirs == {"root"}
MCDirOf == [f \in Files |-> IF f = f1 THEN "root" ELSE "sub"]
MCAbove == [d \in MCDirs |-> "root"]
=============================================================================
