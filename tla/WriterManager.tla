---------------------------- MODULE WriterManager ----------------------------
(***************************************************************************)
(* The write path of the daemon: internal/daemon/writer.go and the          *)
(* goroutines that feed it.                                                *)
(*                                                                         *)
(* One goroutine (Run) applies write jobs to the store.  Jobs reach it      *)
(* through a buffered channel; Submit sends under the mutex mu without      *)
(* blocking and sleeps on the condition variable notFull while the channel  *)
(* is full.  Producers register with AddProducer, so that a cancelled Run   *)
(* waits for them before it closes the writer and drains the channel.       *)
(*                                                                         *)
(* The goroutines that submit:                                             *)
(*  - an Indexer is one call of IndexAll (cold index, branch switch, CLI):  *)
(*    it registers, runs its parse Workers, unregisters, and submits a sync *)
(*    job whose answer it waits for;                                       *)
(*  - a Watcher is the goroutine of startWatcher: it registers, turns each  *)
(*    file event into at most one job and unregisters when the event       *)
(*    channel is closed.                                                   *)
(*                                                                         *)
(* A step is one critical section, one channel operation or one operation  *)
(* of the condition variable.  A critical section that cannot block inside  *)
(* is one step; Submit's is split between the failed send and the           *)
(* registration inside notFull.Wait, because the receiver works without mu. *)
(***************************************************************************)
EXTENDS Naturals, Sequences, FiniteSets, Functions

CONSTANTS
  Indexers,      \* calls of IndexAll
  Workers,       \* parse goroutines of those calls
  Watchers,      \* event loops of startWatcher
  ParentOf,      \* the IndexAll call a worker belongs to
  Cap,           \* capacity of the channel (WriterChannelSize)
  MaxFiles,      \* bound: changed files of a scan, events of a watcher
  TimersExpire,  \* may the drain deadline (10 s) and Stop's limit (15 s) expire?
  StoreFails     \* may a transaction of a job fail?

Producers == Indexers \cup Watchers
Senders   == Indexers \cup Workers \cup Watchers

ASSUME GoroutineAssumption ==
  /\ IsFiniteSet(Indexers) /\ IsFiniteSet(Workers) /\ IsFiniteSet(Watchers)
  /\ Indexers \cap Workers = {}
  /\ Indexers \cap Watchers = {}
  /\ Workers \cap Watchers = {}
  /\ ParentOf \in [Workers -> Indexers]
ASSUME CapAssumption == Cap \in Nat \ {0}
ASSUME BoundAssumption ==
  /\ MaxFiles \in Nat \ {0}
  /\ TimersExpire \in BOOLEAN /\ StoreFails \in BOOLEAN

VARIABLES
  ch,         \* the buffered channel, oldest job first
  producers,  \* the WaitGroup counter
  draining,   \* AddProducer refuses from here on
  closed,     \* Submit refuses from here on
  waitList,   \* goroutines asleep in notFull.Wait, oldest first
  run,        \* where the Run goroutine is
  job,        \* the job Run is processing
  processed,  \* the jobs handed to processJob so far
  failed,     \* those of them that the store refused
  cut,        \* those of them that ended with the context of Run
  pc,         \* where each submitting goroutine is
  todo,       \* files or events a producer has not handed out yet
  accepted,   \* how many jobs of each goroutine the channel has taken
  writerCtx,  \* the context of Run is cancelled
  parentCtx,  \* the context of IndexAll and of the watcher is cancelled
  stop        \* where Daemon.Stop is

chanVars == <<ch, producers, draining, closed, waitList>>
runVars  == <<run, job, processed, failed, cut>>
prodVars == <<pc, todo, accepted>>
ctxVars  == <<writerCtx, parentCtx, stop>>
vars     == <<ch, producers, draining, closed, waitList, run, job, processed,
              failed, cut, pc, todo, accepted, writerCtx, parentCtx, stop>>

------------------------------------------------------------------------------
(* A job is known by the goroutine that submitted it and its number there.   *)
(* The job of an Indexer is its WriteJobSync, all others write to the store.  *)
Job   == [by : Senders, num : 1..MaxFiles]
NoJob == [by |-> "none", num |-> 0]

NextJob(t) == [by |-> t, num |-> accepted[t] + 1]
SyncJob(i) == [by |-> i, num |-> 1]

(* Jobs accepted and not yet applied, in the order they will be. *)
Pending == IF job = NoJob THEN ch ELSE <<job>> \o ch

PCs == {"idle", "working", "ready", "submit", "full", "waiting", "woken",
        "awaitSync", "returned", "refused", "exited"}

RunStates == {"select", "process", "signal", "drain", "waitProducers", "close",
              "drainLoop", "drainProcess", "drained", "expired"}

(* Goroutines between AddProducer and RemoveProducer. *)
Registered(c) ==
  \/ c \in Indexers /\ pc[c] = "working"
  \/ c \in Watchers /\ pc[c] \in {"ready", "submit", "full", "waiting", "woken"}

(* mu is held across a step only by a Submit between its failed send and Wait. *)
MuFree == \A t \in Senders : pc[t] # "full"

(* Done() is closed as soon as drain returns. *)
Done == run \in {"drained", "expired"}

Goto(t, to) == pc' = [pc EXCEPT ![t] = to]

Init ==
  /\ ch = <<>> /\ producers = 0 /\ draining = FALSE /\ closed = FALSE
  /\ waitList = <<>>
  /\ run = "select" /\ job = NoJob
  /\ processed = {} /\ failed = {} /\ cut = {}
  /\ \E broken \in SUBSET Workers :   \* those whose NewParser fails
       pc = [t \in Senders |-> IF t \in broken THEN "exited"
                               ELSE IF t \in Workers THEN "ready" ELSE "idle"]
  /\ todo \in [Producers -> 1..MaxFiles]
  /\ accepted = [t \in Senders |-> 0]
  /\ writerCtx = FALSE /\ parentCtx = FALSE /\ stop = "serving"

------------------------------------------------------------------------------
(* Submit *)

AfterAccept(t)  == IF t \in Indexers THEN "awaitSync" ELSE "ready"
AfterRefusal(t) == IF t \in Indexers THEN "returned" ELSE "ready"

InSubmit(t) == pc[t] \in {"submit", "woken"}

SubmitClosed(t) ==
  /\ InSubmit(t) /\ MuFree /\ closed
  /\ Goto(t, AfterRefusal(t))
  /\ UNCHANGED <<todo, accepted>> /\ UNCHANGED <<chanVars, runVars, ctxVars>>

(* Mutant: Submit sends without looking at closed. *)
SubmitSendUnchecked(t) ==
  /\ InSubmit(t) /\ MuFree
  /\ Len(ch) < Cap
  /\ ch' = Append(ch, NextJob(t))
  /\ accepted' = [accepted EXCEPT ![t] = @ + 1]
  /\ Goto(t, AfterAccept(t))
  /\ UNCHANGED <<producers, draining, closed, waitList, todo>>
  /\ UNCHANGED <<runVars, ctxVars>>

SubmitSend(t) ==
  /\ InSubmit(t) /\ MuFree /\ ~closed
  /\ Len(ch) < Cap
  /\ ch' = Append(ch, NextJob(t))
  /\ accepted' = [accepted EXCEPT ![t] = @ + 1]
  /\ Goto(t, AfterAccept(t))
  /\ UNCHANGED <<producers, draining, closed, waitList, todo>>
  /\ UNCHANGED <<runVars, ctxVars>>

(* Mutant: the default case of the send reports success. *)
SubmitFullDrops(t) ==
  /\ InSubmit(t) /\ MuFree /\ ~closed
  /\ Len(ch) >= Cap
  /\ accepted' = [accepted EXCEPT ![t] = @ + 1]
  /\ Goto(t, AfterAccept(t))
  /\ UNCHANGED todo /\ UNCHANGED <<chanVars, runVars, ctxVars>>

(* The send would block: Submit goes on to notFull.Wait, still holding mu. *)
SubmitFull(t) ==
  /\ InSubmit(t) /\ MuFree /\ ~closed
  /\ Len(ch) >= Cap
  /\ Goto(t, "full")
  /\ UNCHANGED <<todo, accepted>> /\ UNCHANGED <<chanVars, runVars, ctxVars>>

(* notFull.Wait: join the notify list, then release mu and sleep. *)
CondWait(t) ==
  /\ pc[t] = "full"
  /\ Goto(t, "waiting")
  /\ waitList' = Append(waitList, t)
  /\ UNCHANGED <<ch, producers, draining, closed, todo, accepted>>
  /\ UNCHANGED <<runVars, ctxVars>>

Submit(t) == SubmitClosed(t) \/ SubmitSend(t) \/ SubmitFull(t) \/ CondWait(t)

------------------------------------------------------------------------------
(* AddProducer, IndexAll and its workers, the watcher's event loop *)

(* Mutant: registration only looks at closed, not at draining. *)
AddProducerLate(c) ==
  /\ c \in Producers /\ pc[c] = "idle" /\ MuFree
  /\ IF closed
       THEN Goto(c, "refused") /\ UNCHANGED producers
       ELSE /\ Goto(c, IF c \in Indexers THEN "working" ELSE "ready")
            /\ producers' = producers + 1
  /\ UNCHANGED <<ch, draining, closed, waitList, todo, accepted>>
  /\ UNCHANGED <<runVars, ctxVars>>

AddProducer(c) ==
  /\ c \in Producers /\ pc[c] = "idle" /\ MuFree
  /\ IF draining \/ closed
       THEN Goto(c, "refused") /\ UNCHANGED producers
       ELSE /\ Goto(c, IF c \in Indexers THEN "working" ELSE "ready")
            /\ producers' = producers + 1
  /\ UNCHANGED <<ch, draining, closed, waitList, todo, accepted>>
  /\ UNCHANGED <<runVars, ctxVars>>

(* A worker takes the next file.  Parsing may fail: then there is no job. *)
TakeFile(w) ==
  /\ w \in Workers /\ pc[w] = "ready"
  /\ pc[ParentOf[w]] = "working" /\ todo[ParentOf[w]] > 0 /\ ~parentCtx
  /\ todo' = [todo EXCEPT ![ParentOf[w]] = @ - 1]
  /\ \E parsed \in BOOLEAN : IF parsed THEN Goto(w, "submit") ELSE UNCHANGED pc
  /\ UNCHANGED accepted /\ UNCHANGED <<chanVars, runVars, ctxVars>>

WorkerExit(w) ==
  /\ w \in Workers /\ pc[w] = "ready"
  /\ pc[ParentOf[w]] = "working" /\ (todo[ParentOf[w]] = 0 \/ parentCtx)
  /\ Goto(w, "exited")
  /\ UNCHANGED <<todo, accepted>> /\ UNCHANGED <<chanVars, runVars, ctxVars>>

(* Mutant: IndexAll does not wait for its workers. *)
WorkersNotAwaited(i) ==
  /\ i \in Indexers /\ pc[i] = "working"
  /\ producers' = producers - 1
  /\ Goto(i, "submit")
  /\ UNCHANGED <<ch, draining, closed, waitList, todo, accepted>>
  /\ UNCHANGED <<runVars, ctxVars>>

(* IndexAll: wg.Wait, RemoveProducer, then Submit the sync job. *)
WorkersDone(i) ==
  /\ i \in Indexers /\ pc[i] = "working"
  /\ \A w \in Workers : ParentOf[w] = i => pc[w] = "exited"
  /\ producers' = producers - 1
  /\ Goto(i, "submit")
  /\ UNCHANGED <<ch, draining, closed, waitList, todo, accepted>>
  /\ UNCHANGED <<runVars, ctxVars>>

(* The Done channel of the sync job has a buffer of one: Run never blocks on it. *)
SyncReceived(i) ==
  /\ i \in Indexers /\ pc[i] = "awaitSync" /\ SyncJob(i) \in processed
  /\ Goto(i, "returned")
  /\ UNCHANGED <<todo, accepted>> /\ UNCHANGED <<chanVars, runVars, ctxVars>>

(* The watcher's loop takes an event.  EnrichFile submits unless the file is  *)
(* unchanged or unreadable.  Events still buffered after the cancellation are *)
(* delivered.                                                                 *)
NextEvent(x) ==
  /\ x \in Watchers /\ pc[x] = "ready" /\ todo[x] > 0
  /\ todo' = [todo EXCEPT ![x] = @ - 1]
  /\ \E changed \in BOOLEAN : IF changed THEN Goto(x, "submit") ELSE UNCHANGED pc
  /\ UNCHANGED accepted /\ UNCHANGED <<chanVars, runVars, ctxVars>>

(* Mutant: the event loop ends without RemoveProducer. *)
WatcherExitRegistered(x) ==
  /\ x \in Watchers /\ pc[x] = "ready" /\ parentCtx
  /\ Goto(x, "exited")
  /\ UNCHANGED <<todo, accepted>> /\ UNCHANGED <<chanVars, runVars, ctxVars>>

(* The event channel is closed only when the watcher's context is cancelled. *)
WatcherExit(x) ==
  /\ x \in Watchers /\ pc[x] = "ready" /\ parentCtx
  /\ producers' = producers - 1
  /\ Goto(x, "exited")
  /\ UNCHANGED <<ch, draining, closed, waitList, todo, accepted>>
  /\ UNCHANGED <<runVars, ctxVars>>

Goroutine(t) ==
  \/ Submit(t)
  \/ AddProducer(t)
  \/ TakeFile(t)    \/ WorkerExit(t)
  \/ WorkersDone(t) \/ SyncReceived(t)
  \/ NextEvent(t)   \/ WatcherExit(t)

------------------------------------------------------------------------------
(* Run and drain *)

Receive(from, to) ==
  /\ run = from /\ ch # <<>>
  /\ job' = Head(ch) /\ ch' = Tail(ch)
  /\ run' = to
  /\ UNCHANGED <<producers, draining, closed, waitList, processed, failed, cut>>
  /\ UNCHANGED <<prodVars, ctxVars>>

RunReceive == Receive("select", "process")

(* How a job ends.  A sync job does nothing and cannot fail; of the others the *)
(* error is logged and the effect is gone, whatever the reason.               *)
Succeeds == UNCHANGED <<failed, cut>>
Refused  == StoreFails /\ job.by \notin Indexers /\ failed' = failed \cup {job} /\ UNCHANGED cut
CutShort == writerCtx /\ job.by \notin Indexers /\ cut' = cut \cup {job} /\ UNCHANGED failed

(* Mutant: drain, too, processes its jobs with the context that was cancelled.  *)
ProcessJobOneContext ==
  /\ run \in {"process", "drainProcess"}
  /\ processed' = processed \cup {job}
  /\ Succeeds \/ Refused \/ CutShort
  /\ job' = NoJob
  /\ run' = IF run = "process" THEN "signal" ELSE "drainLoop"
  /\ UNCHANGED <<chanVars, prodVars, ctxVars>>

(* processJob: apply the job, answer it if somebody waits for it.  Run passes   *)
(* its own context, so a job in hand when it is cancelled, or taken by the      *)
(* select after that, ends in an error (unless its last transaction was over);  *)
(* drain passes context.Background().                                          *)
ProcessJob ==
  /\ run \in {"process", "drainProcess"}
  /\ processed' = processed \cup {job}
  /\ Succeeds \/ Refused \/ (run = "process" /\ CutShort)
  /\ job' = NoJob
  /\ run' = IF run = "process" THEN "signal" ELSE "drainLoop"
  /\ UNCHANGED <<chanVars, prodVars, ctxVars>>

(* notFull.Signal, without mu: the longest sleeper wakes up. *)
SignalNotFull ==
  /\ run = "signal"
  /\ run' = "select"
  /\ IF waitList = <<>>
       THEN UNCHANGED <<pc, waitList>>
       ELSE Goto(Head(waitList), "woken") /\ waitList' = Tail(waitList)
  /\ UNCHANGED <<ch, producers, draining, closed, job, processed, failed, cut>>
  /\ UNCHANGED <<todo, accepted>>
  /\ UNCHANGED ctxVars

RunCancelled ==
  /\ run = "select" /\ writerCtx
  /\ run' = "drain"
  /\ UNCHANGED <<job, processed, failed, cut>> /\ UNCHANGED <<chanVars, prodVars, ctxVars>>

DrainStart ==
  /\ run = "drain" /\ MuFree
  /\ draining' = TRUE
  /\ run' = "waitProducers"
  /\ UNCHANGED <<ch, producers, closed, waitList>>
  /\ UNCHANGED <<job, processed, failed, cut>>
  /\ UNCHANGED <<prodVars, ctxVars>>

DrainProducersGone ==
  /\ run = "waitProducers" /\ producers = 0
  /\ run' = "close"
  /\ UNCHANGED <<job, processed, failed, cut>> /\ UNCHANGED <<chanVars, prodVars, ctxVars>>

DrainClose ==
  /\ run = "close" /\ MuFree
  /\ closed' = TRUE
  /\ waitList' = <<>>
  /\ pc' = [t \in Senders |-> IF t \in Range(waitList) THEN "woken" ELSE pc[t]]
  /\ run' = "drainLoop"
  /\ UNCHANGED <<ch, producers, draining, job, processed, failed, cut>>
  /\ UNCHANGED <<todo, accepted>>
  /\ UNCHANGED ctxVars

DrainReceive == Receive("drainLoop", "drainProcess")

(* Mutant: drain gives up although the channel holds jobs. *)
DrainQuits ==
  /\ run = "drainLoop"
  /\ run' = "drained"
  /\ UNCHANGED <<job, processed, failed, cut>> /\ UNCHANGED <<chanVars, prodVars, ctxVars>>

(* The select's default case: nothing is buffered. *)
DrainEmpty ==
  /\ run = "drainLoop" /\ ch = <<>>
  /\ run' = "drained"
  /\ UNCHANGED <<job, processed, failed, cut>> /\ UNCHANGED <<chanVars, prodVars, ctxVars>>

(* Ten seconds are over; what is still buffered is dropped. *)
DrainDeadline ==
  /\ run = "drainLoop" /\ TimersExpire
  /\ run' = "expired"
  /\ UNCHANGED <<job, processed, failed, cut>> /\ UNCHANGED <<chanVars, prodVars, ctxVars>>

Run ==
  \/ RunReceive \/ ProcessJob \/ SignalNotFull \/ RunCancelled
  \/ DrainStart \/ DrainProducersGone \/ DrainClose
  \/ DrainReceive \/ DrainEmpty

------------------------------------------------------------------------------
(* The daemon's contexts and Stop *)

(* SIGTERM or SIGINT cancels the daemon's context, and with it the writer's. *)
CancelParent ==
  /\ ~parentCtx
  /\ parentCtx' = TRUE /\ writerCtx' = TRUE
  /\ UNCHANGED stop /\ UNCHANGED <<chanVars, runVars, prodVars>>

(* The MCP server on stdio returns, because of a signal or because its client *)
(* closed stdin: Start returns, its deferred writerCancel runs, and main calls *)
(* Stop.  main cancels the parent context only after Stop.                    *)
StartReturns ==
  /\ stop = "serving"
  /\ stop' = "waiting" /\ writerCtx' = TRUE
  /\ UNCHANGED parentCtx /\ UNCHANGED <<chanVars, runVars, prodVars>>

StopDrained ==
  /\ stop = "waiting" /\ Done
  /\ stop' = "stopped"
  /\ UNCHANGED <<writerCtx, parentCtx>> /\ UNCHANGED <<chanVars, runVars, prodVars>>

StopTimeout ==
  /\ stop = "waiting" /\ TimersExpire
  /\ stop' = "timedOut"
  /\ UNCHANGED <<writerCtx, parentCtx>> /\ UNCHANGED <<chanVars, runVars, prodVars>>

(* Stop goes on to close the stores and the process exits. *)
Exited == stop \in {"stopped", "timedOut"}

Terminated == Exited /\ UNCHANGED vars

Next ==
  \/ ~Exited /\ (\E t \in Senders : Goroutine(t))
  \/ ~Exited /\ Run
  \/ ~Exited /\ DrainDeadline
  \/ ~Exited /\ CancelParent
  \/ StartReturns
  \/ StopDrained
  \/ StopTimeout
  \/ Terminated

(* The Go scheduler runs every goroutine that can run.  Nothing obliges a     *)
(* signal to arrive, stdin to close, or a timer to expire.                    *)
Fairness ==
  /\ \A t \in Senders : WF_vars(~Exited /\ Goroutine(t))
  /\ WF_vars(~Exited /\ Run)

Spec     == Init /\ [][Next]_vars
FairSpec == Spec /\ Fairness

------------------------------------------------------------------------------
(* Properties *)

AcceptedJobs ==
  UNION {{[by |-> t, num |-> n] : n \in 1..accepted[t]} : t \in Senders}

WorkerJobs(i) == {j \in AcceptedJobs : j.by \in Workers /\ ParentOf[j.by] = i}

(* Every variable has its type, and the channel is never above its capacity. *)
TypeOK ==
  /\ ch \in Seq(Job) /\ Len(ch) <= Cap
  /\ producers \in Nat
  /\ draining \in BOOLEAN /\ closed \in BOOLEAN
  /\ waitList \in Seq(Senders)
  /\ run \in RunStates
  /\ job \in Job \cup {NoJob}
  /\ processed \subseteq Job /\ failed \subseteq processed /\ cut \subseteq processed
  /\ pc \in [Senders -> PCs]
  /\ todo \in [Producers -> 0..MaxFiles]
  /\ accepted \in [Senders -> 0..MaxFiles]
  /\ writerCtx \in BOOLEAN /\ parentCtx \in BOOLEAN
  /\ stop \in {"serving", "waiting", "stopped", "timedOut"}

(* A job that Submit accepted is in the channel, with Run, or handed to         *)
(* processJob (whatever comes of it): never two of these, and never none.  (The send under mu races the receive of Run  *)
(* and the closing of the writer.)                                            *)
JobsConserved ==
  /\ AcceptedJobs = processed \cup Range(Pending)
  /\ processed \cap Range(Pending) = {}
  /\ IsInjective(Pending)

(* The jobs of one goroutine are processed in the order it submitted them: two *)
(* edits of one file reach the store in order.                                *)
InOrder ==
  \A j \in processed : \A n \in 1..(j.num - 1) :
    [by |-> j.by, num |-> n] \in processed

(* Once the writer is closed no producer is registered: drain waited for the   *)
(* last one, and none could register behind its back.  So a registered         *)
(* producer's Submit is never refused.                                        *)
ClosedBehindProducers ==
  closed => producers = 0 /\ \A c \in Producers : ~Registered(c)

(* The jobs whose effect is in the database. *)
Stored == processed \ (failed \cup cut)

(* drain returns before its deadline only when every accepted job is stored,   *)
(* but those the store refused and those that Run itself had in hand, or took,  *)
(* after its context was cancelled: no Submit slips a job into the channel      *)
(* behind the last receive, and once drain has begun the cancellation costs no  *)
(* further job.                                                               *)
CleanDrain ==
  /\ [](run = "drained" => AcceptedJobs \ (failed \cup cut) \subseteq Stored)
  /\ [][draining => UNCHANGED cut]_vars

(* The sync job of IndexAll is a barrier: when it is answered, everything the  *)
(* call's workers submitted has been processed (a job that failed included: the  *)
(* answer does not say).                                                      *)
SyncBarrier ==
  \A i \in Indexers :
    SyncJob(i) \in processed => WorkerJobs(i) \subseteq processed

(* A closed writer leaves no Submit asleep or about to sleep: the Broadcast     *)
(* reaches the sync jobs that no registration covers, and mu keeps the gap      *)
(* between a failed send and Wait out of the closing section.                  *)
NoSleeperAfterClose ==
  closed => \A t \in Senders : pc[t] \notin {"full", "waiting"}

(* What holds of the writer at every moment: the types, the order in which     *)
(* jobs are applied, and that a closed writer has neither a registered         *)
(* producer nor a sleeping Submit.                                            *)
WriterSound ==
  TypeOK /\ InOrder /\ ClosedBehindProducers /\ NoSleeperAfterClose

(* The writer implements the queue of WriteQueue. *)
Queue == INSTANCE WriteQueue
  WITH Jobs <- Job, open <- ~closed, queue <- Pending, applied <- processed

ImplementsWriteQueue == Queue!Spec

(* When the daemon's context is cancelled the writer finishes its drain. *)
ShutdownCompletes == parentCtx ~> Done

(* An IndexAll that waits for the answer to its sync job gets it, unless the   *)
(* process exits first or Stop waits with the parent context still alive (see  *)
(* StopSeesDrain below).                                                       *)
SyncAnswered ==
  \A i \in Indexers :
    pc[i] = "awaitSync"
      ~> \/ pc[i] = "returned" \/ Exited
         \/ stop = "waiting" /\ ~parentCtx

------------------------------------------------------------------------------
(* What comments of the code say and the code does not do *)

(* writer.go:64 "wake one blocked Submit", writer.go:140 "Wait releases mu,   *)
(* allowing Run to process jobs and signal notFull": an idle writer with an    *)
(* empty channel leaves no Submit asleep, unless another one is about to send. *)
NoSleeperForgotten ==
  (run = "select" /\ ch = <<>> /\ waitList # <<>>)
    => \E t \in Senders : InSubmit(t) \/ pc[t] = "full"

(* daemon.go:490 "Wait for writer to finish draining": Stop, called after the  *)
(* stdio server returned, sees the writer finish.                              *)
StopSeesDrain == stop = "waiting" ~> Done

(* writer.go:55 "Run processes write jobs until ctx is cancelled, then drains  *)
(* remaining jobs": the cancellation costs no job.                            *)
CancelLosesNothing == run = "drained" => cut = {}

(* enrichment.go:151 "Wait for all writes to complete by submitting a no-op    *)
(* sync job": when IndexAll returns, its writes are complete.                  *)
IndexAllWaits ==
  \A i \in Indexers : pc[i] = "returned" => WorkerJobs(i) \subseteq processed
=============================================================================
