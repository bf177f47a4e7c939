---------------------------- MODULE LeaderElection ----------------------------
(***************************************************************************)
(* The processes of one project: cmd/shaktimand/main.go, lockfile, proxy, and  *)
(* the ends of Daemon.Start and Daemon.Stop.                                 *)
(*                                                                         *)
(* The process that gets the flock on daemon.pid is the leader: it replaces    *)
(* the socket, opens the database, and writes the ready marker.  Every other    *)
(* process is a proxy: it waits for marker and socket, forwards its client's    *)
(* requests, and when the socket refuses one it executes itself again to try    *)
(* for the lock.                                                             *)
(*                                                                         *)
(* The kernel frees the lock of a process that dies; the socket file and the    *)
(* marker stay.                                                              *)
(***************************************************************************)
EXTENDS Naturals, FiniteSets

CONSTANTS
  Procs, NoProc,
  World       \* what happens, a subset of {"crash", "exit", "marker", "server"}

ASSUME ElectionAssumption ==
  /\ IsFiniteSet(Procs) /\ NoProc \notin Procs
  /\ World \subseteq {"crash", "exit", "marker", "server"}

VARIABLES
  pc,
  lock,    \* who holds the flock
  sock,    \* whose listener the socket file belongs to
  open,    \* the processes whose listener is open
  marker,  \* who wrote the ready marker
  failed   \* history: whose marker or server has failed, which is only logged

vars  == <<pc, lock, sock, open, marker, failed>>
files == <<lock, sock, open, marker, failed>>

LeaderPCs == {"locked", "init", "serving", "closing", "draining", "cleanup", "release"}
ProxyPCs  == {"wait", "dial", "bridge", "backoff"}
PCs       == {"off", "start", "gone"} \cup LeaderPCs \cup ProxyPCs

Goto(p, from, to) == pc[p] = from /\ pc' = [pc EXCEPT ![p] = to]

(* The socket accepts connections; the kernel does so before Serve. *)
Dialable == sock \in open

Init ==
  /\ pc = [p \in Procs |-> "off"]
  /\ lock = NoProc /\ sock = NoProc /\ open = {} /\ marker = NoProc
  /\ failed = {}

------------------------------------------------------------------------------
Launch(p) == Goto(p, "off", "start") /\ UNCHANGED files

(* TryLock *)
Acquire(p) ==
  /\ Goto(p, "start", IF lock = NoProc THEN "locked" ELSE "wait")
  /\ lock' = IF lock = NoProc THEN p ELSE lock
  /\ UNCHANGED <<sock, open, marker, failed>>

(* The socket file of an earlier leader is removed first. *)
Listen(p) ==
  /\ Goto(p, "locked", "init")
  /\ sock' = p /\ open' = open \cup {p}
  /\ UNCHANGED <<lock, marker, failed>>

(* Mutant: the leader serves without a ready marker. *)
ServeUnmarked(p) ==
  /\ Goto(p, "init", "serving")
  /\ UNCHANGED files

(* daemon.New has opened the stores; Start writes the marker and serves. *)
Serve(p) ==
  /\ Goto(p, "init", "serving")
  /\ marker' = p
  /\ UNCHANGED <<lock, sock, open, failed>>

(* The marker cannot be written, or the server ends by an error and its         *)
(* listener is closed with it: either is logged, and the leader serves its own  *)
(* client as before, with the lock.                                          *)
MarkerFails(p) ==
  /\ "marker" \in World
  /\ Goto(p, "init", "serving")
  /\ failed' = failed \cup {p}
  /\ UNCHANGED <<lock, sock, open, marker>>

ServerFails(p) ==
  /\ "server" \in World
  /\ pc[p] = "serving" /\ p \in open
  /\ open' = open \ {p} /\ sock' = NoProc /\ failed' = failed \cup {p}
  /\ UNCHANGED <<pc, lock, marker>>

(* The client of the leader leaves, or a signal comes: Stop.  *)
BeginStop(p) ==
  /\ Goto(p, "serving", "closing")
  /\ marker' = NoProc
  /\ UNCHANGED <<lock, sock, open, failed>>

(* Mutant: the lock goes with the socket. *)
ShutdownSocketUnlocks(p) ==
  /\ Goto(p, "closing", "draining")
  /\ open' = open \ {p} /\ sock' = NoProc /\ lock' = NoProc
  /\ UNCHANGED <<marker, failed>>

(* Closing the listener unlinks the socket file. *)
ShutdownSocket(p) ==
  /\ Goto(p, "closing", "draining")
  /\ open' = open \ {p} /\ sock' = NoProc
  /\ UNCHANGED <<lock, marker, failed>>

(* Mutant: the deferred calls of main run in the other order. *)
DrainedUnlocks(p) ==
  /\ Goto(p, "draining", "cleanup")
  /\ lock' = NoProc
  /\ UNCHANGED <<sock, open, marker, failed>>

(* The writer has drained or its limit is over, and the stores are closed. *)
Drained(p) == Goto(p, "draining", "cleanup") /\ UNCHANGED files

(* The deferred calls of main. *)
RemoveSocket(p) ==
  /\ Goto(p, "cleanup", "release")
  /\ sock' = NoProc
  /\ UNCHANGED <<lock, open, marker, failed>>

Release(p) ==
  /\ Goto(p, "release", "gone")
  /\ lock' = NoProc
  /\ UNCHANGED <<sock, open, marker, failed>>

(* A leader is killed, or an error of its start or of its server makes it call  *)
(* os.Exit.                                                                 *)
Crash(p) ==
  /\ "crash" \in World
  /\ pc[p] \in LeaderPCs
  /\ pc' = [pc EXCEPT ![p] = "gone"]
  /\ lock' = IF lock = p THEN NoProc ELSE lock
  /\ open' = open \ {p}
  /\ UNCHANGED <<sock, marker, failed>>

Leader(p) ==
  \/ Listen(p) \/ Serve(p) \/ ShutdownSocket(p) \/ Drained(p)
  \/ RemoveSocket(p) \/ Release(p)

------------------------------------------------------------------------------
(* WaitForReady: the marker, then the socket, then both again. *)
SeeMarker(p) ==
  /\ marker # NoProc
  /\ Goto(p, "wait", "dial")
  /\ UNCHANGED files

Dial(p) ==
  /\ Goto(p, "dial", IF Dialable THEN "bridge" ELSE "wait")
  /\ UNCHANGED files

(* A request finds no listener: ErrLeaderGone. *)
LeaderGone(p) ==
  /\ ~Dialable
  /\ Goto(p, "bridge", "backoff")
  /\ UNCHANGED files

Reexec(p) == Goto(p, "backoff", "start") /\ UNCHANGED files

(* WaitForReady's time is over; the client leaves; a request fails otherwise    *)
(* than by a refused connection, for its leader is too slow or died with it.     *)
Exit(p) ==
  /\ "exit" \in World
  /\ pc[p] \in {"wait", "bridge"}
  /\ pc' = [pc EXCEPT ![p] = "gone"]
  /\ UNCHANGED files

Proxy(p) == SeeMarker(p) \/ Dial(p) \/ LeaderGone(p) \/ Reexec(p)

Next ==
  \/ \E p \in Procs :
       \/ Launch(p) \/ Acquire(p) \/ Leader(p) \/ BeginStop(p) \/ Crash(p)
       \/ MarkerFails(p) \/ ServerFails(p) \/ Proxy(p) \/ Exit(p)
  \/ (\A p \in Procs : pc[p] = "gone") /\ UNCHANGED vars

(* Each process runs on, and its clients go on asking.  Nothing makes a leader  *)
(* stop, die or fail, or a proxy exit.                                       *)
Fairness == \A p \in Procs : WF_vars(Acquire(p) \/ Leader(p) \/ Proxy(p))

Spec     == Init /\ [][Next]_vars
FairSpec == Spec /\ Fairness

------------------------------------------------------------------------------
(* Properties *)

(* Every variable has its type, and the open listeners are the leaders', but for  *)
(* servers that have failed.                                                 *)
TypeOK ==
  /\ pc \in [Procs -> PCs]
  /\ {lock, sock, marker} \subseteq Procs \cup {NoProc}
  /\ failed \subseteq Procs
  /\ open \subseteq {p \in Procs : pc[p] \in {"init", "serving", "closing"}}
  /\ {p \in Procs : pc[p] \in {"init", "serving", "closing"}} \subseteq open \cup failed

(* One process at most has the stores open, also while a leader leaves slowly,    *)
(* crashes, or is replaced.                                                   *)
HasStores(p) == pc[p] \in {"init", "serving", "closing", "draining"}
OneDatabase == \A p, q \in Procs : HasStores(p) /\ HasStores(q) => p = q

(* What a proxy looks for leads to the serving leader, unless its own marker or    *)
(* server has failed: no process that leaves, and nothing that a dead one has      *)
(* left, takes its marker or its socket away.                                  *)
LeaderReachable ==
  \A p \in Procs :
     pc[p] = "serving" /\ p \notin failed => marker = p /\ sock = p /\ Dialable

(* A proxy that waits for a leader gets through to one, unless the lock becomes    *)
(* free while it waits (see Rejoins) or is held by a leader that has failed.    *)
WaitEnds ==
  \A p \in Procs :
     pc[p] = "wait" ~> pc[p] \in {"bridge", "gone"} \/ lock \in failed \cup {NoProc}

------------------------------------------------------------------------------
(* What comments of the code say and the code does not do *)

(* main.go:381 "The re-exec'd process will attempt flock and succeed (old leader   *)
(* released it). If another proxy wins the race, we re-enter proxy mode": a proxy  *)
(* whose leader is gone becomes the leader or a proxy again.                    *)
Rejoins == \A p \in Procs : pc[p] = "backoff" ~> pc[p] \in {"serving", "bridge"}

(* daemon.go:28 the marker is written "when the leader's MCP socket server is        *)
(* accepting connections".                                                    *)
MarkerMeansServing == marker # NoProc => pc[marker] = "serving"
=============================================================================
