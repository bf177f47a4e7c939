------------------------ MODULE LeaderElectionProofs ------------------------
(***************************************************************************)
(* Proofs about LeaderElection, for any number of processes.                 *)
(*                                                                         *)
(* OneDatabase and LeaderReachable rest on one fact: the lock is held by the   *)
(* process whose control is between TryLock and Release, so there is at most    *)
(* one, and only it touches the socket and the marker.                        *)
(***************************************************************************)
EXTENDS LeaderElection, TLAPS

(* Leaders, and nobody else, hold the lock. *)
LockHeld == \A p \in Procs : pc[p] \in LeaderPCs <=> lock = p

(* A leader whose listener is open owns the socket file, and from Serve on the    *)
(* marker, unless it could not write it.                                       *)
SocketOwned == \A p \in open : sock = p

MarkerOwned == \A p \in Procs : pc[p] = "serving" /\ p \notin failed => marker = p

IInv == TypeOK /\ LockHeld /\ SocketOwned /\ MarkerOwned

------------------------------------------------------------------------------
(* The invariant holds at the start, before any process runs: nothing is locked. *)
LEMMA InitIInv == Init => IInv
  BY ElectionAssumption
  DEF Init, IInv, TypeOK, LockHeld, SocketOwned, MarkerOwned, LeaderPCs, ProxyPCs, PCs

(* Two processes are not leaders at once. *)
LEMMA OneLeader ==
  ASSUME LockHeld, NEW p \in Procs, NEW q \in Procs,
         pc[p] \in LeaderPCs, pc[q] \in LeaderPCs
  PROVE  p = q
  BY DEF LockHeld

(* No step of a process breaks the invariant. *)
LEMMA StepIInv == IInv /\ [Next]_vars => IInv'
<1>1. SUFFICES ASSUME IInv, [Next]_vars PROVE IInv'
  OBVIOUS
<1> USE ElectionAssumption
<1>2. CASE UNCHANGED vars
  BY <1>1, <1>2 DEF vars, IInv, TypeOK, LockHeld, SocketOwned, MarkerOwned
<1>3. ASSUME NEW p \in Procs, Launch(p) PROVE IInv'
  BY <1>1, <1>3
  DEF Launch, Goto, files, IInv, TypeOK, LockHeld, SocketOwned, MarkerOwned,
      LeaderPCs, ProxyPCs, PCs
<1>4. ASSUME NEW p \in Procs, Acquire(p) PROVE IInv'
  BY <1>1, <1>4
  DEF Acquire, Goto, IInv, TypeOK, LockHeld, SocketOwned, MarkerOwned,
      LeaderPCs, ProxyPCs, PCs
<1>5. ASSUME NEW p \in Procs, Leader(p) \/ BeginStop(p) PROVE IInv'
  <2>1. CASE Listen(p)
    BY <1>1, <2>1
    DEF Listen, Goto, IInv, TypeOK, LockHeld, SocketOwned, MarkerOwned,
        LeaderPCs, ProxyPCs, PCs
  <2>2. CASE Serve(p)
    BY <1>1, <2>2
    DEF Serve, Goto, IInv, TypeOK, LockHeld, SocketOwned, MarkerOwned,
        LeaderPCs, ProxyPCs, PCs
  <2>3. CASE BeginStop(p)
    BY <1>1, <2>3
    DEF BeginStop, Goto, IInv, TypeOK, LockHeld, SocketOwned, MarkerOwned,
        LeaderPCs, ProxyPCs, PCs
  <2>4. CASE ShutdownSocket(p)
    BY <1>1, <2>4
    DEF ShutdownSocket, Goto, IInv, TypeOK, LockHeld, SocketOwned, MarkerOwned,
        LeaderPCs, ProxyPCs, PCs
  <2>5. CASE Drained(p)
    BY <1>1, <2>5
    DEF Drained, Goto, files, IInv, TypeOK, LockHeld, SocketOwned, MarkerOwned,
        LeaderPCs, ProxyPCs, PCs
  <2>6. CASE RemoveSocket(p)
    BY <1>1, <2>6
    DEF RemoveSocket, Goto, IInv, TypeOK, LockHeld, SocketOwned, MarkerOwned,
        LeaderPCs, ProxyPCs, PCs
  <2>7. CASE Release(p)
    BY <1>1, <2>7
    DEF Release, Goto, IInv, TypeOK, LockHeld, SocketOwned, MarkerOwned,
        LeaderPCs, ProxyPCs, PCs
  <2> QED
    BY <1>5, <2>1, <2>2, <2>3, <2>4, <2>5, <2>6, <2>7 DEF Leader
<1>6. ASSUME NEW p \in Procs, Crash(p) PROVE IInv'
  BY <1>1, <1>6
  DEF Crash, IInv, TypeOK, LockHeld, SocketOwned, MarkerOwned,
      LeaderPCs, ProxyPCs, PCs
<1>7. ASSUME NEW p \in Procs, MarkerFails(p) PROVE IInv'
  BY <1>1, <1>7
  DEF MarkerFails, Goto, IInv, TypeOK, LockHeld, SocketOwned, MarkerOwned,
      LeaderPCs, ProxyPCs, PCs
<1>8. ASSUME NEW p \in Procs, ServerFails(p) PROVE IInv'
  <2>1. \A q \in open : q = p
    BY <1>1, <1>8 DEF ServerFails, IInv, TypeOK, LockHeld, LeaderPCs
  <2> QED
    BY <1>1, <1>8, <2>1
    DEF ServerFails, IInv, TypeOK, LockHeld, SocketOwned, MarkerOwned
<1>9. ASSUME NEW p \in Procs, Proxy(p) \/ Exit(p) PROVE IInv'
  <2>1. files' = files /\ pc[p] \in ProxyPCs
    BY <1>9 DEF Proxy, Exit, SeeMarker, Dial, LeaderGone, Reexec, Goto, files, ProxyPCs
  <2>2. \E s \in {"start", "gone"} \cup ProxyPCs : pc' = [pc EXCEPT ![p] = s]
    BY <1>9 DEF Proxy, Exit, SeeMarker, Dial, LeaderGone, Reexec, Goto, ProxyPCs
  <2> QED
    BY <1>1, <2>1, <2>2
    DEF files, IInv, TypeOK, LockHeld, SocketOwned, MarkerOwned, LeaderPCs, ProxyPCs, PCs
<1> QED
  BY <1>1, <1>2, <1>3, <1>4, <1>5, <1>6, <1>7, <1>8, <1>9 DEF Next

(* The invariant is one of the specification. *)
LEMMA Invariance == Spec => []IInv
  BY InitIInv, StepIInv, PTL DEF Spec

------------------------------------------------------------------------------
(* Every variable keeps its type, and an open listener is one of a leader that     *)
(* has listened and not shut down.                                           *)
THEOREM TypeCorrect == Spec => []TypeOK
<1>1. IInv => TypeOK
  BY DEF IInv
<1> QED
  BY <1>1, Invariance, PTL

(* Of any number of processes that start, die, leave and are promoted, one at most  *)
(* has the stores open.                                                      *)
THEOREM OneDatabaseTheorem == Spec => []OneDatabase
<1>1. IInv => OneDatabase
  BY OneLeader DEF IInv, OneDatabase, HasStores, LeaderPCs
<1> QED
  BY <1>1, Invariance, PTL

(* The marker and the socket a proxy looks at lead to the leader while it serves,  *)
(* if it could write the marker and its server runs.                           *)
THEOREM LeaderReachableTheorem == Spec => []LeaderReachable
<1>1. IInv => LeaderReachable
  BY DEF IInv, TypeOK, SocketOwned, MarkerOwned, LeaderReachable, Dialable
<1> QED
  BY <1>1, Invariance, PTL
=============================================================================
