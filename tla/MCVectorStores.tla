---------------------------- MODULE MCVectorStores ----------------------------
(***************************************************************************)
(* VectorStores for TLC: one project for the stores of a process, two that     *)
(* share a server; the pairs that a configuration file may name.               *)
(***************************************************************************)
EXTENDS VectorStores, TLC

Alone(vec, n) ==
  {[db |-> "sqlite", vec |-> vec, projects |-> {p}, ids |-> n] : p \in Projects}
Shared(meta, vec, n) ==
  [db |-> meta, vec |-> vec, projects |-> Projects, ids |-> n]

MCSetups == Alone("brute_force", 3) \cup Alone("hnsw", 2)
              \cup {Shared("postgres", "pgvector", 3), Shared("postgres", "qdrant", 4)}
MCHnsw   == Alone("hnsw", 2)
MCQdrant == {Shared("sqlite", "qdrant", 2)}
Symmetry == Permutations(Projects) \cup Permutations(Savers)
=============================================================================
