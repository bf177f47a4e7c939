----------------------------- MODULE SymbolGraph -----------------------------
(***************************************************************************)
(* What a metadata store promises of the graph of symbols, whatever its        *)
(* backend (storage/storetest): an edge joins symbols of one language that      *)
(* exist, a use that cannot be resolved waits as a pending edge, a pending      *)
(* edge leaves only for an edge or with its file, and only the files whose      *)
(* symbols or edges are written lose any.                                      *)
(***************************************************************************)
CONSTANTS Files, Names, Language

VARIABLES symbols, edges, pending

vars == <<symbols, edges, pending>>

Init == symbols = {} /\ edges = {} /\ pending = {}

(* A file is deleted, or its chunks are: its symbols go, with every edge at them. *)
RemoveFile(f) ==
  LET kept == {s \in symbols : s[1] # f} IN
  /\ symbols' = kept
  /\ edges' = {e \in edges : e.src \in kept /\ e.dst \in kept}
  /\ pending' = {q \in pending : q.src \in kept}

AddSymbols(f) ==
  /\ symbols \subseteq symbols' /\ \A s \in symbols' \ symbols : s \in {f} \X Names
  /\ UNCHANGED <<edges, pending>>

(* e is the edge of a use that waited, or that waits, as q. *)
Settles(e, q) ==
  e.src = q.src /\ e.file = q.file /\ e.dst[2] = q.name /\ Language[e.dst[1]] = q.lang

(* The edges of f's uses are written, pending edges of any file are resolved. *)
RewriteEdges(f) ==
  /\ UNCHANGED symbols
  /\ \A e \in edges \ edges' : e.file = f
  /\ \A e \in edges' \ edges :
       /\ e.src \in symbols /\ e.dst \in symbols
       /\ e.src[1] = f \/ \E q \in pending : Settles(e, q)
  /\ \A q \in pending \ pending' : \E e \in edges' : Settles(e, q)
  /\ \A q \in pending' \ pending : q.src \in symbols /\ q.src[1] = f

Next == \E f \in Files : RemoveFile(f) \/ AddSymbols(f) \/ RewriteEdges(f)

Spec == Init /\ [][Next]_vars
==============================================================================
