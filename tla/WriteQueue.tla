----------------------------- MODULE WriteQueue -----------------------------
(***************************************************************************)
(* What the writer promises its producers: one queue of write jobs, applied *)
(* one at a time, each once, in the order in which they were accepted, and  *)
(* nothing accepted any more once the queue is closed.  Jobs that are still *)
(* queued when the process ends were never applied.                        *)
(*                                                                         *)
(* WriterManager is shown to implement this specification.                 *)
(***************************************************************************)
EXTENDS Naturals, Sequences, Functions

CONSTANT Jobs

VARIABLES
  open,      \* the queue still accepts jobs
  queue,     \* accepted and not yet applied, oldest first
  applied    \* the jobs applied to the store

vars == <<open, queue, applied>>

Init ==
  /\ open = TRUE
  /\ queue = <<>>
  /\ applied = {}

(* A job enters the queue once, and only while the queue is open. *)
Accept(j) ==
  /\ open
  /\ j \notin applied \cup Range(queue)
  /\ queue' = Append(queue, j)
  /\ UNCHANGED <<open, applied>>

(* The oldest job is applied. *)
Apply ==
  /\ queue # <<>>
  /\ applied' = applied \cup {Head(queue)}
  /\ queue' = Tail(queue)
  /\ UNCHANGED open

Close ==
  /\ open
  /\ open' = FALSE
  /\ UNCHANGED <<queue, applied>>

Next ==
  \/ \E j \in Jobs : Accept(j)
  \/ Apply
  \/ Close

Spec == Init /\ [][Next]_vars
=============================================================================
