------------------------------ MODULE VectorMap ------------------------------
(***************************************************************************)
(* What every vector store promises its project (types.VectorStore and the   *)
(* compliance suite vectortest/suite.go): a set of chunk ids that have a       *)
(* vector, which grows by the ids of the upsert under way, shrinks, is cleared *)
(* by a purge and is read back by a restart.  A call that returns nil has       *)
(* stored every id it was given; one that fails has stored some of them.       *)
(* Nothing that one project does shows in another.                           *)
(***************************************************************************)
EXTENDS Naturals, FiniteSets

CONSTANTS Projects, Ids

VARIABLES content,  \* the ids that Has finds among a project's own vectors
          left,     \* the ids that the upsert under way has not stored yet
          kept      \* what a restart of the project's process finds

vars == <<content, left, kept>>

Init == content = [p \in Projects |-> {}] /\ left = content /\ kept = content

(* UpsertBatch is called when no other upsert of the project is under way. *)
Begin(p, S) ==
  /\ left[p] = {}
  /\ left' = [left EXCEPT ![p] = S]
  /\ UNCHANGED <<content, kept>>

Store(p, S) ==
  /\ S \subseteq left[p]
  /\ content' = [content EXCEPT ![p] = @ \cup S]
  /\ left' = [left EXCEPT ![p] = @ \ S]

(* Delete and PurgeAll: stored ids disappear, and no other id appears. *)
Remove(p, S) ==
  /\ content' = [content EXCEPT ![p] = @ \ S]
  /\ UNCHANGED left

(* SaveToDisk changes what is kept and not what is stored. *)
Save(p, S) == kept' = [kept EXCEPT ![p] = S] /\ UNCHANGED <<content, left>>

(* A call that fails, or a process that ends: what it held in memory is gone,   *)
(* what a server holds is not.                                               *)
Halt(p, S) ==
  /\ left' = [left EXCEPT ![p] = {}]
  /\ content' = [content EXCEPT ![p] = S]
  /\ S \in {{}, content[p]}
  /\ UNCHANGED kept

Reload(p) ==
  /\ content' = [content EXCEPT ![p] = kept[p]]
  /\ left' = [left EXCEPT ![p] = {}]
  /\ UNCHANGED kept

(* A server keeps what it stores; a process keeps its last file. *)
KeepsOrNot(p) == kept'[p] \in {kept[p], content'[p]} /\ \A q \in Projects \ {p} : kept'[q] = kept[q]

Next ==
  \E p \in Projects :
    \/ \E S \in SUBSET Ids : Begin(p, S) \/ Save(p, S)
    \/ \E S \in SUBSET Ids : (Store(p, S) \/ Remove(p, S)) /\ KeepsOrNot(p)
    \/ Halt(p, {}) \/ Halt(p, content[p]) \/ Reload(p)

Spec == Init /\ [][Next]_vars
=============================================================================
