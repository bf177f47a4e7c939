--------------------------- MODULE MCWriterManager ---------------------------
(***************************************************************************)
(* WriterManager for TLC: every worker belongs to one IndexAll call.        *)
(***************************************************************************)
EXTENDS WriterManager, TLC

MCParentOf == [w \in Workers |-> CHOOSE i \in Indexers : TRUE]

(* Two goroutines of one kind are interchangeable; safety runs only. *)
MCSymmetry == Permutations(Workers)
=============================================================================
