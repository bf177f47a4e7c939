------------------------- MODULE WriterManagerProofs -------------------------
(***************************************************************************)
(* Proofs about WriterManager, for every number of goroutines, channel      *)
(* capacity and number of files.                                           *)
(*                                                                         *)
(* Control is the inductive invariant of the control state: where the       *)
(* goroutines are, what the flags of the shutdown mean, who is registered    *)
(* and who sleeps.  Data, on top of it, says where every accepted job is and *)
(* in which order the jobs lie.                                            *)
(***************************************************************************)
EXTENDS WriterManager, FiniteSetTheorems, TLAPS

InSubmitCall(t) == pc[t] \in {"submit", "full", "waiting", "woken"}

PcDomain ==
  /\ \A i \in Indexers :
       pc[i] \in {"idle", "working", "submit", "full", "waiting", "woken",
                  "awaitSync", "returned", "refused"}
  /\ \A w \in Workers :
       pc[w] \in {"ready", "submit", "full", "waiting", "woken", "exited"}
  /\ \A x \in Watchers :
       pc[x] \in {"idle", "ready", "submit", "full", "waiting", "woken",
                  "refused", "exited"}

(* What the position of Run says about the flags and the job in its hands. *)
Phases ==
  /\ draining <=> run \notin {"select", "process", "signal", "drain"}
  /\ closed <=> run \in {"drainLoop", "drainProcess", "drained", "expired"}
  /\ job # NoJob <=> run \in {"process", "drainProcess"}
  /\ run \in {"close", "drainLoop", "drainProcess", "drained", "expired"}
       => producers = 0
  /\ run = "drained" => ch = <<>>

RegisteredSet == {c \in Producers : Registered(c)}

(* The WaitGroup counts the registered producers. *)
Counted == producers = Cardinality(RegisteredSet)

(* The notify list holds the sleeping goroutines, each once. *)
Sleepers ==
  /\ \A t \in Senders :
       pc[t] = "waiting" <=> \E k \in 1..Len(waitList) : waitList[k] = t
  /\ \A k, l \in 1..Len(waitList) : waitList[k] = waitList[l] => k = l

(* No goroutine has more jobs accepted than there are files. *)
Bounded ==
  /\ \A i \in Indexers :
       pc[i] \notin {"awaitSync", "returned"} => accepted[i] = 0
  /\ \A w \in Workers :
       /\ accepted[w] + todo[ParentOf[w]] <= MaxFiles
       /\ InSubmitCall(w) => accepted[w] + todo[ParentOf[w]] < MaxFiles
  /\ \A x \in Watchers :
       /\ accepted[x] + todo[x] <= MaxFiles
       /\ InSubmitCall(x) => accepted[x] + todo[x] < MaxFiles

(* The workers of an IndexAll call run only while the call is registered. *)
WorkersInCall ==
  \A w \in Workers :
    InSubmitCall(w) => pc[ParentOf[w]] = "working"

Control ==
  /\ TypeOK /\ PcDomain /\ Phases /\ Counted /\ Sleepers /\ Bounded
  /\ WorkersInCall /\ NoSleeperAfterClose

------------------------------------------------------------------------------
USE GoroutineAssumption, CapAssumption, BoundAssumption

(* The registered producers can be counted. *)
LEMMA RegisteredFinite == IsFiniteSet(RegisteredSet)
  BY FS_Subset, FS_Union DEF RegisteredSet, Producers

(* Steps after which the same producers are registered. *)
LEMMA SameRegistered ==
  ASSUME Counted, producers' = producers,
         \A c \in Producers : Registered(c)' <=> Registered(c)
  PROVE  Counted'
<1>1. RegisteredSet' = RegisteredSet
  BY DEF RegisteredSet
<1> QED
  BY <1>1 DEF Counted

(* AddProducer: one more is registered, and counted. *)
LEMMA OneRegistered ==
  ASSUME Counted, NEW c \in Producers, ~Registered(c), Registered(c)',
         \A d \in Producers \ {c} : Registered(d)' <=> Registered(d),
         producers' = producers + 1
  PROVE  Counted'
<1>1. RegisteredSet' = RegisteredSet \cup {c} /\ c \notin RegisteredSet
  BY DEF RegisteredSet
<1> QED
  BY <1>1, RegisteredFinite, FS_AddElement DEF Counted

(* RemoveProducer: one less, and the counter was not zero. *)
LEMMA OneUnregistered ==
  ASSUME Counted, NEW c \in Producers, Registered(c), ~Registered(c)',
         \A d \in Producers \ {c} : Registered(d)' <=> Registered(d),
         producers' = producers - 1
  PROVE  Counted' /\ producers > 0 /\ producers' \in Nat
<1>1. RegisteredSet' = RegisteredSet \ {c} /\ c \in RegisteredSet
  BY DEF RegisteredSet
<1>2. Cardinality(RegisteredSet) \in Nat /\ Cardinality(RegisteredSet) # 0
  BY <1>1, RegisteredFinite, FS_CardinalityType, FS_EmptySet
<1>3. Cardinality(RegisteredSet \ {c}) = Cardinality(RegisteredSet) - 1
  BY <1>1, RegisteredFinite, FS_RemoveElement
<1> QED
  BY <1>1, <1>2, <1>3 DEF Counted

(* Nothing is registered, queued or asleep at the start. *)
LEMMA InitControl == Init => Control
<1> SUFFICES ASSUME Init PROVE Control
  OBVIOUS
<1> USE DEF Init
<1>1. TypeOK
  <2>1. pc \in [Senders -> PCs]
    BY DEF PCs
  <2>2. todo \in [Producers -> 0..MaxFiles] /\ accepted \in [Senders -> 0..MaxFiles]
    OBVIOUS
  <2>3. ch \in Seq(Job) /\ Len(ch) <= Cap /\ waitList \in Seq(Senders)
    OBVIOUS
  <2>4. processed \subseteq Job /\ job \in Job \cup {NoJob} /\ run \in RunStates
    BY DEF RunStates
  <2> QED
    BY <2>1, <2>2, <2>3, <2>4 DEF TypeOK
<1>2. PcDomain
  BY DEF PcDomain, Senders
<1>3. Phases
  BY DEF Phases
<1>4. RegisteredSet = {}
  BY DEF RegisteredSet, Registered, Producers, Senders
<1>5. Counted
  BY <1>4, FS_EmptySet DEF Counted
<1>6. Sleepers /\ NoSleeperAfterClose
  BY DEF Sleepers, NoSleeperAfterClose, Senders
<1>7. Bounded /\ WorkersInCall
  BY DEF Bounded, WorkersInCall, InSubmitCall, Senders, Producers
<1> QED
  BY <1>1, <1>2, <1>3, <1>5, <1>6, <1>7 DEF Control

(* Submit refused: the writer is closed. *)
LEMMA SubmitClosedControl ==
  ASSUME Control, NEW t \in Senders, SubmitClosed(t)
  PROVE  Control'
<1> USE DEF Control, SubmitClosed, InSubmit, Goto, chanVars, runVars, ctxVars,
            AfterRefusal
<1>1. TypeOK'
  BY DEF TypeOK, PCs, AfterRefusal
<1>2. PcDomain'
  BY DEF TypeOK, PcDomain, Senders
<1>3. Phases'
  BY DEF Phases
<1>4. \A c \in Producers : Registered(c)' <=> Registered(c)
  BY DEF TypeOK, Registered, Senders, Producers, PcDomain
<1>5. Counted'
  BY <1>4, SameRegistered
<1>6. Sleepers' /\ NoSleeperAfterClose'
  BY DEF TypeOK, Sleepers, NoSleeperAfterClose
<1>7. Bounded'
  BY DEF TypeOK, Bounded, InSubmitCall, Senders, Producers
<1>8. WorkersInCall'
  BY DEF TypeOK, WorkersInCall, InSubmitCall, Senders
<1> QED
  BY <1>1, <1>2, <1>3, <1>5, <1>6, <1>7, <1>8

(* Submit accepted: the channel has room. *)
LEMMA SubmitSendControl ==
  ASSUME Control, NEW t \in Senders, SubmitSend(t)
  PROVE  Control'
<1> USE DEF Control, SubmitSend, InSubmit, Goto, runVars, ctxVars
<1>1. accepted[t] < MaxFiles
  <2>1. CASE t \in Indexers
    BY <2>1 DEF Bounded
  <2>2. CASE t \in Workers
    <3>1. todo[ParentOf[t]] \in Nat /\ accepted[t] \in Nat
      BY <2>2 DEF TypeOK, Producers
    <3> QED
      BY <2>2, <3>1 DEF Bounded, InSubmitCall
  <2>3. CASE t \in Watchers
    <3>1. todo[t] \in Nat /\ accepted[t] \in Nat
      BY <2>3 DEF TypeOK, Producers
    <3> QED
      BY <2>3, <3>1 DEF Bounded, InSubmitCall
  <2> QED
    BY <2>1, <2>2, <2>3 DEF Senders
<1>2. TypeOK'
  <2>1. NextJob(t) \in Job
    BY <1>1 DEF TypeOK, NextJob, Job
  <2>2. ch' \in Seq(Job) /\ Len(ch') <= Cap
    BY <2>1 DEF TypeOK
  <2>3. pc' \in [Senders -> PCs] /\ accepted' \in [Senders -> 0..MaxFiles]
    BY <1>1 DEF TypeOK, PCs, AfterAccept
  <2> QED
    BY <2>2, <2>3 DEF TypeOK
<1>3. PcDomain'
  BY DEF TypeOK, PcDomain, Senders, AfterAccept
<1>4. Phases'
  BY DEF Phases
<1>5. \A c \in Producers : Registered(c)' <=> Registered(c)
  BY DEF TypeOK, Registered, Senders, Producers, PcDomain, AfterAccept
<1>6. Counted'
  BY <1>5, SameRegistered
<1>7. Sleepers' /\ NoSleeperAfterClose'
  BY DEF TypeOK, Sleepers, NoSleeperAfterClose, AfterAccept
<1>8. /\ \A u \in Senders \ {t} : pc'[u] = pc[u] /\ accepted'[u] = accepted[u]
      /\ pc'[t] = AfterAccept(t) /\ accepted'[t] = accepted[t] + 1
      /\ todo' = todo /\ accepted[t] \in Nat
  BY DEF TypeOK
<1>9. Bounded'
  <2>1. CASE t \in Indexers
    BY <1>8, <2>1 DEF Bounded, InSubmitCall, Senders, AfterAccept
  <2>2. CASE t \in Workers
    <3>1. InSubmitCall(t) /\ todo[ParentOf[t]] \in Nat
      BY <2>2 DEF InSubmitCall, TypeOK, Producers
    <3>2. accepted[t] + 1 + todo[ParentOf[t]] <= MaxFiles
      BY <1>8, <2>2, <3>1 DEF Bounded
    <3> QED
      BY <1>8, <2>2, <3>2 DEF Bounded, InSubmitCall, Senders, AfterAccept
  <2>3. CASE t \in Watchers
    <3>1. InSubmitCall(t) /\ todo[t] \in Nat
      BY <2>3 DEF InSubmitCall, TypeOK, Producers
    <3>2. accepted[t] + 1 + todo[t] <= MaxFiles
      BY <1>8, <2>3, <3>1 DEF Bounded
    <3> QED
      BY <1>8, <2>3, <3>2 DEF Bounded, InSubmitCall, Senders, AfterAccept
  <2> QED
    BY <2>1, <2>2, <2>3 DEF Senders
<1>10. WorkersInCall'
  <2>1. \A w \in Workers : InSubmitCall(w)' => InSubmitCall(w)
    BY <1>8 DEF InSubmitCall, Senders, AfterAccept
  <2>2. \A w \in Workers : pc[ParentOf[w]] = "working"
                           => pc'[ParentOf[w]] = "working"
    BY <1>8 DEF Senders
  <2> QED
    BY <2>1, <2>2 DEF WorkersInCall
<1> QED
  BY <1>2, <1>3, <1>4, <1>6, <1>7, <1>9, <1>10

(* Submit finds the channel full. *)
LEMMA SubmitFullControl ==
  ASSUME Control, NEW t \in Senders, SubmitFull(t)
  PROVE  Control'
<1> USE DEF Control, SubmitFull, InSubmit, Goto, chanVars, runVars, ctxVars
<1>1. TypeOK'
  BY DEF TypeOK, PCs
<1>2. PcDomain' /\ Phases'
  BY DEF TypeOK, PcDomain, Senders, Phases
<1>3. \A c \in Producers : Registered(c)' <=> Registered(c)
  BY DEF TypeOK, Registered, Senders, Producers, PcDomain
<1>4. Counted'
  BY <1>3, SameRegistered
<1>5. Sleepers' /\ NoSleeperAfterClose'
  BY DEF TypeOK, Sleepers, NoSleeperAfterClose
<1>6. Bounded' /\ WorkersInCall'
  BY DEF TypeOK, Bounded, WorkersInCall, InSubmitCall, Senders, Producers
<1> QED
  BY <1>1, <1>2, <1>4, <1>5, <1>6

(* Wait: the goroutine enters the notify list as it leaves the mutex. *)
LEMMA CondWaitControl ==
  ASSUME Control, NEW t \in Senders, CondWait(t)
  PROVE  Control'
<1> USE DEF Control, CondWait, Goto, runVars, ctxVars
<1>1. TypeOK'
  BY DEF TypeOK, PCs
<1>2. PcDomain' /\ Phases'
  BY DEF TypeOK, PcDomain, Senders, Phases
<1>3. \A c \in Producers : Registered(c)' <=> Registered(c)
  BY DEF TypeOK, Registered, Senders, Producers, PcDomain
<1>4. Counted'
  BY <1>3, SameRegistered
<1>5. NoSleeperAfterClose'
  BY DEF TypeOK, NoSleeperAfterClose
<1>6. Sleepers'
  <2>1. \A k \in 1..Len(waitList) : waitList[k] \in Senders /\ waitList[k] # t
    <3>1. \A k \in 1..Len(waitList) : waitList[k] \in Senders
      BY DEF TypeOK
    <3>2. pc[t] # "waiting" /\ t \in Senders
      OBVIOUS
    <3> QED
      BY <3>1, <3>2 DEF Sleepers
  <2>2. /\ Len(waitList') = Len(waitList) + 1
        /\ waitList'[Len(waitList) + 1] = t
        /\ \A k \in 1..Len(waitList) : waitList'[k] = waitList[k]
    BY DEF TypeOK
  <2>3. Len(waitList) \in Nat
    BY DEF TypeOK
  <2>4. \A k \in 1..Len(waitList') : k \in 1..Len(waitList) \/ k = Len(waitList) + 1
    BY <2>2, <2>3
  <2>5. \A u \in Senders : pc'[u] = "waiting" <=> pc[u] = "waiting" \/ u = t
    BY DEF TypeOK
  <2>6. \A u \in Senders :
          (\E k \in 1..Len(waitList') : waitList'[k] = u)
            <=> (\E k \in 1..Len(waitList) : waitList[k] = u) \/ u = t
    BY <2>2, <2>3, <2>4
  <2>7. \A k, l \in 1..Len(waitList') : waitList'[k] = waitList'[l] => k = l
    BY <2>1, <2>2, <2>3, <2>4 DEF Sleepers
  <2> QED
    BY <2>5, <2>6, <2>7 DEF Sleepers
<1>7. Bounded' /\ WorkersInCall'
  BY DEF TypeOK, Bounded, WorkersInCall, InSubmitCall, Senders, Producers
<1> QED
  BY <1>1, <1>2, <1>4, <1>5, <1>6, <1>7

(* A producer registers before its first job. *)
LEMMA AddProducerControl ==
  ASSUME Control, NEW c \in Senders, AddProducer(c)
  PROVE  Control'
<1> USE DEF Control, AddProducer, Goto, runVars, ctxVars
<1>1. TypeOK'
  <2>1. producers' \in Nat
    BY DEF TypeOK
  <2>2. pc' \in [Senders -> PCs]
    BY DEF TypeOK, PCs
  <2> QED
    BY <2>1, <2>2 DEF TypeOK
<1>2. /\ \A u \in Senders \ {c} : pc'[u] = pc[u]
      /\ pc'[c] \in {"refused", IF c \in Indexers THEN "working" ELSE "ready"}
      /\ c \in Indexers \cup Watchers /\ pc[c] = "idle"
      /\ todo' = todo /\ accepted' = accepted
  BY DEF TypeOK, Producers
<1>8. PcDomain'
  BY <1>2 DEF PcDomain, Senders
<1>3. Phases'
  BY DEF Phases
<1>4. Counted'
  <2>1. CASE draining \/ closed
    <3>1. \A d \in Producers : Registered(d)' <=> Registered(d)
      BY <2>1 DEF TypeOK, Registered, Senders, Producers
    <3> QED
      BY <2>1, <3>1, SameRegistered
  <2>2. CASE ~(draining \/ closed)
    <3>1. /\ ~Registered(c) /\ Registered(c)'
          /\ \A d \in Producers \ {c} : Registered(d)' <=> Registered(d)
      BY <2>2 DEF TypeOK, Registered, Senders, Producers
    <3> QED
      BY <2>2, <3>1, OneRegistered
  <2> QED
    BY <2>1, <2>2
<1>5. Sleepers' /\ NoSleeperAfterClose'
  BY <1>2 DEF Sleepers, NoSleeperAfterClose
<1>6. Bounded'
  <2>1. \A i \in Indexers : pc[i] \notin {"awaitSync", "returned"}
                             => accepted'[i] = 0
    BY <1>2 DEF Bounded
  <2>2. \A i \in Indexers : pc'[i] \notin {"awaitSync", "returned"}
                             => pc[i] \notin {"awaitSync", "returned"}
    BY <1>2 DEF Senders
  <2>3. \A u \in Workers \cup Watchers : InSubmitCall(u)' => InSubmitCall(u)
    BY <1>2 DEF InSubmitCall, Senders
  <2> QED
    BY <1>2, <2>1, <2>2, <2>3 DEF Bounded
<1>7. WorkersInCall'
  <2>1. \A w \in Workers : InSubmitCall(w)' => InSubmitCall(w)
    BY <1>2 DEF InSubmitCall, Senders
  <2>2. \A w \in Workers : pc[ParentOf[w]] = "working"
                           => pc'[ParentOf[w]] = "working"
    BY <1>2 DEF Senders
  <2> QED
    BY <2>1, <2>2 DEF WorkersInCall
<1> QED
  BY <1>1, <1>3, <1>4, <1>5, <1>6, <1>7, <1>8

(* A worker takes a file of its call. *)
LEMMA TakeFileControl ==
  ASSUME Control, NEW w \in Senders, TakeFile(w)
  PROVE  Control'
<1> USE DEF Control, TakeFile, Goto, chanVars, runVars, ctxVars
<1>1. ParentOf[w] \in Producers /\ todo[ParentOf[w]] \in Nat
  BY DEF TypeOK, Producers
<1>2. TypeOK'
  <2>1. todo' \in [Producers -> 0..MaxFiles]
    BY <1>1 DEF TypeOK
  <2>2. pc' \in [Senders -> PCs]
    BY DEF TypeOK, PCs
  <2> QED
    BY <2>1, <2>2 DEF TypeOK
<1>3. PcDomain' /\ Phases'
  <2>1. /\ \A u \in Senders \ {w} : pc'[u] = pc[u]
        /\ pc'[w] \in {"ready", "submit"}
    BY DEF TypeOK
  <2>2. PcDomain'
    BY <2>1 DEF PcDomain, Senders
  <2> QED
    BY <2>2 DEF Phases
<1>4. \A c \in Producers : Registered(c)' <=> Registered(c)
  BY DEF TypeOK, Registered, Senders, Producers
<1>5. Counted'
  BY <1>4, SameRegistered
<1>6. Sleepers' /\ NoSleeperAfterClose'
  BY DEF TypeOK, Sleepers, NoSleeperAfterClose
<1>7. Bounded'
  <2>1. \A i \in Indexers : pc'[i] = pc[i]
    BY DEF TypeOK, Senders
  <2>2. \A v \in Workers :
          /\ accepted[v] + todo'[ParentOf[v]] <= MaxFiles
          /\ InSubmitCall(v)' => accepted[v] + todo'[ParentOf[v]] < MaxFiles
    <3> SUFFICES ASSUME NEW v \in Workers
                 PROVE  /\ accepted[v] + todo'[ParentOf[v]] <= MaxFiles
                        /\ InSubmitCall(v)'
                             => accepted[v] + todo'[ParentOf[v]] < MaxFiles
      OBVIOUS
    <3>1. /\ accepted[v] \in Nat /\ todo[ParentOf[v]] \in Nat
          /\ ParentOf[v] \in Producers
      BY DEF TypeOK, Senders, Producers
    <3>2. CASE ParentOf[v] = ParentOf[w]
      BY <1>1, <3>1, <3>2 DEF TypeOK, Bounded
    <3>3. CASE ParentOf[v] # ParentOf[w]
      <4>1. v # w /\ todo'[ParentOf[v]] = todo[ParentOf[v]]
        BY <1>1, <3>1, <3>3 DEF TypeOK
      <4>2. pc'[v] = pc[v]
        BY <4>1 DEF TypeOK, Senders
      <4> QED
        BY <3>1, <4>1, <4>2 DEF Bounded, InSubmitCall
    <3> QED
      BY <3>2, <3>3
  <2>3. \A x \in Watchers : pc'[x] = pc[x] /\ todo'[x] = todo[x]
    BY <1>1 DEF TypeOK, Senders, Producers
  <2> QED
    BY <2>1, <2>2, <2>3 DEF Bounded, InSubmitCall
<1>8. WorkersInCall'
  <2>1. \A u \in Senders \ {w} : pc'[u] = pc[u]
    BY DEF TypeOK
  <2>2. pc[ParentOf[w]] = "working"
    OBVIOUS
  <2> QED
    BY <2>1, <2>2 DEF WorkersInCall, InSubmitCall, Senders
<1> QED
  BY <1>2, <1>3, <1>5, <1>6, <1>7, <1>8

(* A worker finds no file left. *)
LEMMA WorkerExitControl ==
  ASSUME Control, NEW w \in Senders, WorkerExit(w)
  PROVE  Control'
<1> USE DEF Control, WorkerExit, Goto, chanVars, runVars, ctxVars
<1>1. TypeOK'
  BY DEF TypeOK, PCs
<1>2. PcDomain' /\ Phases'
  BY DEF TypeOK, PcDomain, Senders, Phases
<1>3. \A c \in Producers : Registered(c)' <=> Registered(c)
  BY DEF TypeOK, Registered, Senders, Producers
<1>4. Counted'
  BY <1>3, SameRegistered
<1>5. Sleepers' /\ NoSleeperAfterClose'
  BY DEF TypeOK, Sleepers, NoSleeperAfterClose
<1>6. Bounded' /\ WorkersInCall'
  BY DEF TypeOK, Bounded, WorkersInCall, InSubmitCall, Senders, Producers
<1> QED
  BY <1>1, <1>2, <1>4, <1>5, <1>6

(* IndexAll unregisters after its workers. *)
LEMMA WorkersDoneControl ==
  ASSUME Control, NEW i \in Senders, WorkersDone(i)
  PROVE  Control'
<1> USE DEF Control, WorkersDone, Goto, runVars, ctxVars
<1>1. /\ Registered(i) /\ ~Registered(i)'
      /\ \A d \in Producers \ {i} : Registered(d)' <=> Registered(d)
  BY DEF TypeOK, Registered, Senders, Producers
<1>2. Counted' /\ producers > 0 /\ producers' \in Nat
  BY <1>1, OneUnregistered DEF Producers
<1>3. TypeOK'
  BY <1>2 DEF TypeOK, PCs
<1>4. PcDomain'
  BY DEF TypeOK, PcDomain, Senders
<1>5. Phases'
  BY <1>2 DEF Phases, TypeOK
<1>6. Sleepers' /\ NoSleeperAfterClose'
  BY DEF TypeOK, Sleepers, NoSleeperAfterClose
<1>7. Bounded'
  BY DEF TypeOK, Bounded, InSubmitCall, Senders, Producers
<1>8. WorkersInCall'
  BY DEF TypeOK, WorkersInCall, InSubmitCall, Senders
<1> QED
  BY <1>2, <1>3, <1>4, <1>5, <1>6, <1>7, <1>8

(* IndexAll returns with the answer to its sync job. *)
LEMMA SyncReceivedControl ==
  ASSUME Control, NEW i \in Senders, SyncReceived(i)
  PROVE  Control'
<1> USE DEF Control, SyncReceived, Goto, chanVars, runVars, ctxVars
<1>1. TypeOK'
  BY DEF TypeOK, PCs
<1>2. PcDomain' /\ Phases'
  BY DEF TypeOK, PcDomain, Senders, Phases
<1>3. \A c \in Producers : Registered(c)' <=> Registered(c)
  BY DEF TypeOK, Registered, Senders, Producers
<1>4. Counted'
  BY <1>3, SameRegistered
<1>5. Sleepers' /\ NoSleeperAfterClose'
  BY DEF TypeOK, Sleepers, NoSleeperAfterClose
<1>6. Bounded' /\ WorkersInCall'
  BY DEF TypeOK, Bounded, WorkersInCall, InSubmitCall, Senders, Producers
<1> QED
  BY <1>1, <1>2, <1>4, <1>5, <1>6

(* The event loop takes an event. *)
LEMMA NextEventControl ==
  ASSUME Control, NEW x \in Senders, NextEvent(x)
  PROVE  Control'
<1> USE DEF Control, NextEvent, Goto, chanVars, runVars, ctxVars
<1>1. x \in Producers /\ todo[x] \in Nat /\ accepted[x] \in Nat
  BY DEF TypeOK, Producers
<1>2. TypeOK'
  <2>1. todo' \in [Producers -> 0..MaxFiles]
    BY <1>1 DEF TypeOK
  <2>2. pc' \in [Senders -> PCs]
    BY DEF TypeOK, PCs
  <2> QED
    BY <2>1, <2>2 DEF TypeOK
<1>3. PcDomain' /\ Phases'
  <2>1. /\ \A u \in Senders \ {x} : pc'[u] = pc[u]
        /\ pc'[x] \in {"ready", "submit"}
    BY DEF TypeOK
  <2>2. PcDomain'
    BY <2>1 DEF PcDomain, Senders
  <2> QED
    BY <2>2 DEF Phases
<1>4. \A c \in Producers : Registered(c)' <=> Registered(c)
  BY DEF TypeOK, Registered, Senders, Producers
<1>5. Counted'
  BY <1>4, SameRegistered
<1>6. Sleepers' /\ NoSleeperAfterClose'
  BY DEF TypeOK, Sleepers, NoSleeperAfterClose
<1>7. Bounded'
  <2>1. \A i \in Indexers : pc'[i] = pc[i] /\ todo'[i] = todo[i]
    BY DEF TypeOK, Senders, Producers
  <2>2. \A w \in Workers : pc'[w] = pc[w]
    BY DEF TypeOK, Senders
  <2>3. \A y \in Watchers \ {x} : pc'[y] = pc[y] /\ todo'[y] = todo[y]
    BY DEF TypeOK, Senders, Producers
  <2>4. accepted[x] + todo'[x] < MaxFiles
    BY <1>1 DEF TypeOK, Bounded
  <2>5. accepted[x] + todo'[x] <= MaxFiles
    BY <1>1 DEF TypeOK, Bounded
  <2> QED
    BY <2>1, <2>2, <2>3, <2>4, <2>5 DEF Bounded, InSubmitCall
<1>8. WorkersInCall'
  <2>1. \A u \in Workers \cup Indexers : pc'[u] = pc[u]
    BY DEF TypeOK, Senders
  <2> QED
    BY <2>1 DEF WorkersInCall, InSubmitCall
<1> QED
  BY <1>2, <1>3, <1>5, <1>6, <1>7, <1>8

(* The event loop ends and unregisters. *)
LEMMA WatcherExitControl ==
  ASSUME Control, NEW x \in Senders, WatcherExit(x)
  PROVE  Control'
<1> USE DEF Control, WatcherExit, Goto, runVars, ctxVars
<1>1. /\ Registered(x) /\ ~Registered(x)'
      /\ \A d \in Producers \ {x} : Registered(d)' <=> Registered(d)
  BY DEF TypeOK, Registered, Senders, Producers
<1>2. Counted' /\ producers > 0 /\ producers' \in Nat
  BY <1>1, OneUnregistered DEF Producers
<1>3. TypeOK'
  BY <1>2 DEF TypeOK, PCs
<1>4. PcDomain'
  BY DEF TypeOK, PcDomain, Senders
<1>5. Phases'
  BY <1>2 DEF Phases, TypeOK
<1>6. Sleepers' /\ NoSleeperAfterClose'
  BY DEF TypeOK, Sleepers, NoSleeperAfterClose
<1>7. Bounded' /\ WorkersInCall'
  BY DEF TypeOK, Bounded, WorkersInCall, InSubmitCall, Senders, Producers
<1> QED
  BY <1>2, <1>3, <1>4, <1>5, <1>6, <1>7

------------------------------------------------------------------------------
(* The steps of Run leave the submitting goroutines where they are, except    *)
(* for the two that wake sleepers.                                            *)

(* What no goroutine's position enters is kept by every such step. *)
LEMMA SameGoroutines ==
  ASSUME Control, UNCHANGED <<pc, todo, accepted, producers, waitList>>
  PROVE  /\ PcDomain' /\ Counted' /\ Sleepers' /\ Bounded' /\ WorkersInCall'
<1>1. \A c \in Producers : Registered(c)' <=> Registered(c)
  BY DEF Registered
<1>2. Counted'
  BY <1>1, SameRegistered DEF Control
<1>3. PcDomain' /\ Sleepers'
  BY DEF Control, PcDomain, Sleepers
<1>4. Bounded' /\ WorkersInCall'
  BY DEF Control, Bounded, WorkersInCall, InSubmitCall
<1> QED
  BY <1>2, <1>3, <1>4

(* Run and drain take the head of the channel. *)
LEMMA ReceiveControl ==
  ASSUME Control, RunReceive \/ DrainReceive
  PROVE  Control'
<1> USE DEF RunReceive, DrainReceive, Receive, prodVars, ctxVars
<1>1. ch # <<>> /\ job' = Head(ch) /\ ch' = Tail(ch)
  OBVIOUS
<1>2. /\ Head(ch) \in Job /\ Tail(ch) \in Seq(Job)
      /\ Len(Tail(ch)) = Len(ch) - 1 /\ Len(ch) \in Nat
  BY <1>1 DEF Control, TypeOK
<1>3. TypeOK'
  BY <1>1, <1>2 DEF Control, TypeOK, RunStates
<1>4. job' # NoJob
  BY <1>1, <1>2 DEF Job, NoJob
<1>5. Phases'
  BY <1>4 DEF Control, Phases
<1>6. NoSleeperAfterClose'
  BY DEF Control, NoSleeperAfterClose
<1> QED
  BY <1>3, <1>5, <1>6, SameGoroutines DEF Control

(* The job in hand is processed. *)
LEMMA ProcessJobControl ==
  ASSUME Control, ProcessJob
  PROVE  Control'
<1> USE DEF ProcessJob, Succeeds, Refused, CutShort, chanVars, prodVars, ctxVars
<1>1. TypeOK'
  BY DEF Control, TypeOK, RunStates, Phases
<1>2. Phases'
  BY DEF Control, Phases
<1>3. NoSleeperAfterClose'
  BY DEF Control, NoSleeperAfterClose
<1> QED
  BY <1>1, <1>2, <1>3, SameGoroutines DEF Control

(* Run sees its context cancelled. *)
LEMMA RunCancelledControl ==
  ASSUME Control, RunCancelled
  PROVE  Control'
<1> USE DEF RunCancelled, chanVars, prodVars, ctxVars
<1>1. TypeOK' /\ Phases' /\ NoSleeperAfterClose'
  BY DEF Control, TypeOK, RunStates, Phases, NoSleeperAfterClose
<1> QED
  BY <1>1, SameGoroutines DEF Control

(* drain begins to refuse producers. *)
LEMMA DrainStartControl ==
  ASSUME Control, DrainStart
  PROVE  Control'
<1> USE DEF DrainStart, prodVars, ctxVars
<1>1. TypeOK' /\ Phases' /\ NoSleeperAfterClose'
  BY DEF Control, TypeOK, RunStates, Phases, NoSleeperAfterClose
<1> QED
  BY <1>1, SameGoroutines DEF Control

(* drain's WaitGroup is at zero. *)
LEMMA DrainProducersGoneControl ==
  ASSUME Control, DrainProducersGone
  PROVE  Control'
<1> USE DEF DrainProducersGone, chanVars, prodVars, ctxVars
<1>1. TypeOK' /\ Phases' /\ NoSleeperAfterClose'
  BY DEF Control, TypeOK, RunStates, Phases, NoSleeperAfterClose
<1> QED
  BY <1>1, SameGoroutines DEF Control

(* drain ends, empty or at its deadline. *)
LEMMA DrainEndsControl ==
  ASSUME Control, DrainEmpty \/ DrainDeadline
  PROVE  Control'
<1> USE DEF DrainEmpty, DrainDeadline, chanVars, prodVars, ctxVars
<1>1. TypeOK' /\ Phases' /\ NoSleeperAfterClose'
  BY DEF Control, TypeOK, RunStates, Phases, NoSleeperAfterClose
<1> QED
  BY <1>1, SameGoroutines DEF Control

(* Waking the sleepers of a set T: all of them move to "woken". *)
LEMMA Woken ==
  ASSUME Control,
         NEW T \in SUBSET Senders, \A t \in T : pc[t] = "waiting",
         pc' = [t \in Senders |-> IF t \in T THEN "woken" ELSE pc[t]],
         UNCHANGED <<todo, accepted, producers>>
  PROVE  /\ pc' \in [Senders -> PCs] /\ PcDomain' /\ Counted' /\ Bounded'
         /\ WorkersInCall'
<1>1. pc' \in [Senders -> PCs]
  BY DEF Control, TypeOK, PCs
<1>2. PcDomain'
  BY DEF Control, TypeOK, PcDomain, Senders
<1>3. \A c \in Producers : Registered(c)' <=> Registered(c)
  BY DEF Control, TypeOK, Registered, Senders, Producers, PcDomain
<1>4. Counted'
  BY <1>3, SameRegistered DEF Control
<1>5. \A t \in Senders : InSubmitCall(t)' <=> InSubmitCall(t)
  BY DEF Control, TypeOK, InSubmitCall
<1>6. Bounded'
  BY <1>5 DEF Control, TypeOK, Bounded, Senders, Producers
<1>7. WorkersInCall'
  BY <1>5 DEF Control, TypeOK, WorkersInCall, Senders
<1> QED
  BY <1>1, <1>2, <1>4, <1>6, <1>7

(* Signal wakes the first of the notify list. *)
LEMMA SignalNotFullControl ==
  ASSUME Control, SignalNotFull
  PROVE  Control'
<1> USE DEF SignalNotFull, Goto, ctxVars
<1>1. Phases'
  BY DEF Control, Phases
<1>2. NoSleeperAfterClose'
  BY DEF Control, Phases, NoSleeperAfterClose
<1>3. CASE waitList = <<>>
  <2>1. TypeOK'
    BY <1>3 DEF Control, TypeOK, RunStates
  <2> QED
    BY <1>1, <1>2, <1>3, <2>1, SameGoroutines DEF Control
<1>4. CASE waitList # <<>>
  <2> DEFINE t == Head(waitList)
  <2>1. /\ t \in Senders /\ t = waitList[1]
        /\ Len(waitList) \in Nat \ {0}
        /\ Tail(waitList) \in Seq(Senders)
        /\ Len(Tail(waitList)) = Len(waitList) - 1
        /\ \A k \in 1..(Len(waitList) - 1) : Tail(waitList)[k] = waitList[k + 1]
    BY <1>4 DEF Control, TypeOK
  <2>2. pc[t] = "waiting"
    BY <2>1 DEF Control, Sleepers
  <2>3. pc' = [u \in Senders |-> IF u \in {t} THEN "woken" ELSE pc[u]]
    BY <1>4, <2>1 DEF Control, TypeOK
  <2>4. /\ pc' \in [Senders -> PCs] /\ PcDomain' /\ Counted' /\ Bounded'
        /\ WorkersInCall'
    <3>1. {t} \in SUBSET Senders /\ \A u \in {t} : pc[u] = "waiting"
      BY <2>1, <2>2
    <3>2. UNCHANGED <<todo, accepted, producers>>
      OBVIOUS
    <3> QED
      BY <2>3, <3>1, <3>2, Woken
  <2>5. TypeOK'
    BY <1>4, <2>1, <2>4 DEF Control, TypeOK, RunStates
  <2>6. Sleepers'
    <3>1. waitList' = Tail(waitList)
      BY <1>4
    <3>2. \A k, l \in 1..Len(waitList') : waitList'[k] = waitList'[l] => k = l
      <4> SUFFICES ASSUME NEW k \in 1..Len(waitList'), NEW l \in 1..Len(waitList'),
                          waitList'[k] = waitList'[l]
                   PROVE  k = l
        OBVIOUS
      <4>1. /\ k + 1 \in 1..Len(waitList) /\ l + 1 \in 1..Len(waitList)
            /\ waitList[k + 1] = waitList[l + 1]
        BY <2>1, <3>1
      <4>2. k + 1 = l + 1
        BY <4>1 DEF Control, Sleepers
      <4> QED
        BY <4>2, <2>1, <3>1
    <3>3. ASSUME NEW u \in Senders
          PROVE  pc'[u] = "waiting" <=> \E k \in 1..Len(waitList') : waitList'[k] = u
      <4>1. CASE u = t
        <5>1. \A k \in 1..Len(waitList') : waitList'[k] # u
          <6> SUFFICES ASSUME NEW k \in 1..Len(waitList'), waitList'[k] = u
                       PROVE  FALSE
            OBVIOUS
          <6>1. /\ k + 1 \in 1..Len(waitList) /\ 1 \in 1..Len(waitList)
                /\ waitList[k + 1] = waitList[1] /\ k + 1 # 1
            BY <2>1, <3>1, <4>1
          <6> QED
            BY <6>1 DEF Control, Sleepers
        <5> QED
          BY <2>3, <4>1, <5>1
      <4>2. CASE u # t
        <5>1. pc'[u] = pc[u]
          BY <2>3, <4>2
        <5>2. ASSUME NEW k \in 1..Len(waitList), waitList[k] = u
              PROVE  \E m \in 1..Len(waitList') : waitList'[m] = u
          <6>1. k # 1 /\ k - 1 \in 1..(Len(waitList) - 1)
            BY <2>1, <4>2, <5>2
          <6>2. waitList'[k - 1] = u
            BY <2>1, <3>1, <5>2, <6>1
          <6> QED
            BY <2>1, <3>1, <6>1, <6>2
        <5>3. ASSUME NEW k \in 1..Len(waitList'), waitList'[k] = u
              PROVE  \E m \in 1..Len(waitList) : waitList[m] = u
          <6>1. k + 1 \in 1..Len(waitList) /\ waitList[k + 1] = u
            BY <2>1, <3>1, <5>3
          <6> QED
            BY <6>1
        <5> QED
          BY <5>1, <5>2, <5>3 DEF Control, Sleepers
      <4> QED
        BY <4>1, <4>2
    <3> QED
      BY <3>2, <3>3 DEF Sleepers
  <2> QED
    BY <1>1, <1>2, <2>4, <2>5, <2>6 DEF Control
<1> QED
  BY <1>3, <1>4

(* Broadcast wakes all of it, with the closing. *)
LEMMA DrainCloseControl ==
  ASSUME Control, DrainClose
  PROVE  Control'
<1> USE DEF DrainClose, ctxVars
<1>1. /\ Range(waitList) \subseteq Senders
      /\ \A t \in Senders : pc[t] = "waiting" <=> t \in Range(waitList)
  BY DEF Control, TypeOK, Sleepers, Range
<1>2. /\ pc' \in [Senders -> PCs] /\ PcDomain' /\ Counted' /\ Bounded'
      /\ WorkersInCall'
  <2> DEFINE T == Range(waitList)
  <2>1. T \in SUBSET Senders /\ \A t \in T : pc[t] = "waiting"
    BY <1>1
  <2>2. pc' = [t \in Senders |-> IF t \in T THEN "woken" ELSE pc[t]]
    OBVIOUS
  <2>3. UNCHANGED <<todo, accepted, producers>>
    OBVIOUS
  <2> HIDE DEF T, DrainClose
  <2> QED
    BY <2>1, <2>2, <2>3, Woken
<1>3. TypeOK'
  BY <1>2 DEF Control, TypeOK, RunStates
<1>4. Phases'
  BY DEF Control, Phases
<1>5. \A t \in Senders : pc'[t] \notin {"full", "waiting"}
  BY <1>1 DEF Control, TypeOK, MuFree
<1>6. Sleepers' /\ NoSleeperAfterClose'
  BY <1>5 DEF Sleepers, NoSleeperAfterClose
<1> QED
  BY <1>2, <1>3, <1>4, <1>6 DEF Control

(* Contexts and Stop, and stuttering. *)
LEMMA EnvironmentControl ==
  ASSUME Control,
         \/ CancelParent \/ StartReturns \/ StopDrained \/ StopTimeout
         \/ UNCHANGED vars
  PROVE  Control'
<1> USE DEF CancelParent, StartReturns, StopDrained, StopTimeout, vars,
            chanVars, runVars, prodVars
<1>1. UNCHANGED <<ch, producers, draining, closed, waitList, run, job, processed,
                  failed, cut, pc, todo, accepted>>
  OBVIOUS
<1>2. /\ writerCtx' \in BOOLEAN /\ parentCtx' \in BOOLEAN
      /\ stop' \in {"serving", "waiting", "stopped", "timedOut"}
  BY DEF Control, TypeOK
<1>3. TypeOK'
  BY <1>1, <1>2 DEF Control, TypeOK
<1>4. Phases' /\ NoSleeperAfterClose'
  BY <1>1 DEF Control, Phases, NoSleeperAfterClose
<1> QED
  BY <1>1, <1>3, <1>4, SameGoroutines DEF Control

(* Each step keeps the control part of the invariant. *)
LEMMA NextControl == Control /\ [Next]_vars => Control'
<1> SUFFICES ASSUME Control, [Next]_vars PROVE Control'
  OBVIOUS
<1>1. ASSUME NEW t \in Senders, Goroutine(t) PROVE Control'
  BY <1>1, SubmitClosedControl, SubmitSendControl, SubmitFullControl,
     CondWaitControl, AddProducerControl, TakeFileControl, WorkerExitControl,
     WorkersDoneControl, SyncReceivedControl, NextEventControl, WatcherExitControl
  DEF Goroutine, Submit
<1>2. CASE Run
  BY <1>2, ReceiveControl, ProcessJobControl, SignalNotFullControl,
     RunCancelledControl, DrainStartControl, DrainProducersGoneControl,
     DrainCloseControl, DrainEndsControl
  DEF Run
<1>3. CASE DrainDeadline
  BY <1>3, DrainEndsControl
<1>4. CASE \/ CancelParent \/ StartReturns \/ StopDrained \/ StopTimeout
           \/ UNCHANGED vars
  BY <1>4, EnvironmentControl
<1> QED
  BY <1>1, <1>2, <1>3, <1>4 DEF Next, Terminated

(* The control invariant holds throughout every execution. *)
THEOREM ControlInvariant == Spec => []Control
<1> QED
  BY InitControl, NextControl, PTL DEF Spec

(* Every variable keeps its type: in particular the WaitGroup counter never   *)
(* goes below zero, which would be a panic, and no more jobs are accepted from *)
(* a goroutine than it had files.                                             *)
THEOREM TypeCorrect == Spec => []TypeOK
<1>1. Control => TypeOK
  BY DEF Control
<1> QED
  BY <1>1, ControlInvariant, PTL

(* A closed writer has no registered producer, so the Submit of a registered   *)
(* producer is never refused (AddProducer, RemoveProducer, drain).             *)
THEOREM ProducersGoneFirst == Spec => []ClosedBehindProducers
<1>1. Control => ClosedBehindProducers
  <2> SUFFICES ASSUME Control, closed PROVE producers = 0 /\ RegisteredSet = {}
    BY DEF ClosedBehindProducers, RegisteredSet
  <2>1. producers = 0
    BY DEF Control, Phases
  <2>2. Cardinality(RegisteredSet) = 0
    BY <2>1 DEF Control, Counted
  <2> QED
    BY <2>1, <2>2, RegisteredFinite, FS_EmptySet
<1> QED
  BY <1>1, ControlInvariant, PTL

(* The Broadcast of drain reaches every sleeping Submit.                       *)
THEOREM CloseWakesAll == Spec => []NoSleeperAfterClose
<1>1. Control => NoSleeperAfterClose
  BY DEF Control
<1> QED
  BY <1>1, ControlInvariant, PTL

------------------------------------------------------------------------------
(* Data: where the accepted jobs are and how they lie. *)

InChannel(j) == \E k \in 1..Len(ch) : ch[k] = j

OfCall(j, i) == j.by \in Workers /\ ParentOf[j.by] = i

(* An accepted job is applied, with Run, or in the channel, and no other is. *)
Conserved ==
  \A j \in Job :
    j.num <= accepted[j.by] <=> j \in processed \/ j = job \/ InChannel(j)

(* The jobs of one goroutine lie in the order of their numbers. *)
Ordered ==
  /\ \A k, l \in 1..Len(ch) :
       k < l /\ ch[k].by = ch[l].by => ch[k].num < ch[l].num
  /\ job # NoJob =>
       \A k \in 1..Len(ch) : job.by = ch[k].by => job.num < ch[k].num
  /\ \A j \in processed :
       /\ \A k \in 1..Len(ch) : j.by = ch[k].by => j.num < ch[k].num
       /\ job # NoJob /\ j.by = job.by => j.num < job.num

AfterWorkers == {"submit", "full", "waiting", "woken", "awaitSync", "returned"}

WorkersExited ==
  \A w \in Workers :
    pc[ParentOf[w]] \in AfterWorkers => pc[w] = "exited"

(* Behind a sync job there is no job of a worker of its call. *)
Behind ==
  \A i \in Indexers :
    /\ \A k, l \in 1..Len(ch) : ch[k] = SyncJob(i) /\ k < l => ~OfCall(ch[l], i)
    /\ job = SyncJob(i) => \A l \in 1..Len(ch) : ~OfCall(ch[l], i)
    /\ SyncJob(i) \in processed =>
         /\ \A l \in 1..Len(ch) : ~OfCall(ch[l], i)
         /\ job # NoJob => ~OfCall(job, i)

Data == Conserved /\ Ordered /\ WorkersExited /\ Behind

(* No job exists at the start. *)
LEMMA InitData == Init => Data
  BY DEF Init, Data, Conserved, Ordered, WorkersExited, AfterWorkers, Behind, InChannel, Job,
         NoJob, SyncJob, Senders

(* One goroutine moves: a worker that had exited stays so, and a call of      *)
(* IndexAll passes its wg.Wait only when its workers are gone.                *)
LEMMA GotoWorkersExited ==
  ASSUME TypeOK, WorkersExited, NEW t \in Senders, NEW x, Goto(t, x),
         t \in Workers => pc[t] # "exited",
         t \in Indexers /\ x \in AfterWorkers =>
           \/ pc[t] \in AfterWorkers
           \/ \A w \in Workers : ParentOf[w] = t => pc[w] = "exited"
  PROVE  WorkersExited'
<1> SUFFICES ASSUME NEW w \in Workers, pc'[ParentOf[w]] \in AfterWorkers
             PROVE  pc'[w] = "exited"
  BY DEF WorkersExited, AfterWorkers
<1>1. /\ pc \in [Senders -> PCs] /\ pc' = [pc EXCEPT ![t] = x]
      /\ w \in Senders /\ ParentOf[w] \in Indexers /\ ParentOf[w] \in Senders
      /\ w # ParentOf[w]
  BY GoroutineAssumption DEF TypeOK, Goto, Senders
<1>2. CASE t = ParentOf[w]
  <2>1. pc[w] = "exited"
    BY <1>1, <1>2 DEF WorkersExited, AfterWorkers
  <2> QED
    BY <1>1, <1>2, <2>1
<1>3. CASE t # ParentOf[w]
  <2>1. pc[w] = "exited"
    BY <1>1, <1>3 DEF WorkersExited, AfterWorkers
  <2> QED
    BY <1>1, <1>3, <2>1
<1> QED
  BY <1>2, <1>3

(* The accepted job is the sender's next, and goes behind its earlier ones. *)
LEMMA SubmitSendData ==
  ASSUME Control, Data, Control', NEW t \in Senders, SubmitSend(t)
  PROVE  Data'
<1> DEFINE n == Len(ch)
           new == NextJob(t)
<1>1. /\ ch \in Seq(Job) /\ n \in Nat
      /\ Len(ch') = n + 1 /\ ch'[n + 1] = new
      /\ \A k \in 1..n : ch'[k] = ch[k] /\ ch[k] \in Job
      /\ \A k \in 1..Len(ch') : k \in 1..n \/ k = n + 1
  BY DEF Control, TypeOK, SubmitSend
<1>2. /\ accepted' = [accepted EXCEPT ![t] = accepted[t] + 1]
      /\ accepted \in [Senders -> 0..MaxFiles]
      /\ accepted' \in [Senders -> 0..MaxFiles]
      /\ UNCHANGED <<job, processed>>
  BY DEF Control, TypeOK, SubmitSend, runVars
<1>3. /\ new \in Job /\ new.by = t /\ new.num = accepted[t] + 1
      /\ \A j \in Job : j.by = t /\ j.num = accepted[t] + 1 => j = new
  BY <1>2 DEF NextJob, Job
<1>4. \A j \in Job : j.num \in Nat /\ j.by \in Senders
  BY DEF Job
<1>5. \A j \in Job : InChannel(j)' <=> InChannel(j) \/ j = new
  BY <1>1 DEF InChannel
<1>6. Conserved'
  <2> SUFFICES ASSUME NEW j \in Job
               PROVE  j.num <= accepted'[j.by]
                        <=> j \in processed \/ j = job \/ InChannel(j) \/ j = new
    BY <1>2, <1>5 DEF Conserved
  <2>1. j.num <= accepted[j.by] <=> j \in processed \/ j = job \/ InChannel(j)
    BY DEF Data, Conserved
  <2>2. CASE j.by = t
    BY <1>2, <1>3, <1>4, <2>1, <2>2
  <2>3. CASE j.by # t
    BY <1>2, <1>3, <1>4, <2>1, <2>3
  <2> QED
    BY <2>2, <2>3
<1>7. /\ \A k \in 1..n : ch[k].by = t => ch[k].num < new.num
      /\ \A j \in processed : j.by = t => j.num < new.num
      /\ job # NoJob /\ job.by = t => job.num < new.num
  <2>1. \A j \in Job : (j \in processed \/ j = job \/ InChannel(j)) /\ j.by = t
                         => j.num < new.num
    BY <1>2, <1>3, <1>4 DEF Data, Conserved
  <2>2. \A k \in 1..n : InChannel(ch[k])
    BY DEF InChannel
  <2>3. processed \subseteq Job /\ job \in Job \cup {NoJob}
    BY DEF Control, TypeOK
  <2> QED
    BY <1>1, <2>1, <2>2, <2>3
<1>8. Ordered'
  <2>1. \A k, l \in 1..Len(ch') :
          k < l /\ ch'[k].by = ch'[l].by => ch'[k].num < ch'[l].num
    <3> SUFFICES ASSUME NEW k \in 1..Len(ch'), NEW l \in 1..Len(ch'), k < l,
                        ch'[k].by = ch'[l].by
                 PROVE  ch'[k].num < ch'[l].num
      OBVIOUS
    <3>1. n \in Nat /\ k \in 1..n /\ ch'[k] = ch[k]
      BY <1>1
    <3>2. CASE l \in 1..n
      BY <1>1, <3>1, <3>2 DEF Data, Ordered
    <3>3. CASE l = n + 1
      BY <1>1, <1>3, <1>7, <3>1, <3>3
    <3> QED
      BY <1>1, <3>2, <3>3
  <2>2. job # NoJob =>
          \A k \in 1..Len(ch') : job.by = ch'[k].by => job.num < ch'[k].num
    BY <1>1, <1>3, <1>7 DEF Data, Ordered
  <2>3. \A j \in processed :
          \A k \in 1..Len(ch') : j.by = ch'[k].by => j.num < ch'[k].num
    BY <1>1, <1>3, <1>7 DEF Data, Ordered
  <2> QED
    BY <1>2, <2>1, <2>2, <2>3 DEF Data, Ordered
<1>9. WorkersExited'
  BY GotoWorkersExited DEF Control, Data, SubmitSend, InSubmit, AfterWorkers
<1>10. ASSUME NEW i \in Indexers, OfCall(new, i)
       PROVE  /\ \A k \in 1..n : ch[k] # SyncJob(i)
              /\ job # SyncJob(i) /\ SyncJob(i) \notin processed
  <2>1. pc[i] = "working"
    BY <1>3, <1>10 DEF OfCall, Control, WorkersInCall, InSubmitCall, SubmitSend, InSubmit
  <2>2. accepted[i] = 0 /\ SyncJob(i) \in Job /\ SyncJob(i).num = 1
        /\ SyncJob(i).by = i
    BY <2>1 DEF Control, Bounded, SyncJob, Job, Senders
  <2>3. ~(SyncJob(i) \in processed \/ SyncJob(i) = job \/ InChannel(SyncJob(i)))
    BY <2>2 DEF Data, Conserved
  <2> QED
    BY <2>3 DEF InChannel
<1>11. ASSUME NEW i \in Indexers
       PROVE  /\ \A k, l \in 1..Len(ch') :
                   ch'[k] = SyncJob(i) /\ k < l => ~OfCall(ch'[l], i)
              /\ job = SyncJob(i) => \A l \in 1..Len(ch') : ~OfCall(ch'[l], i)
              /\ SyncJob(i) \in processed =>
                   /\ \A l \in 1..Len(ch') : ~OfCall(ch'[l], i)
                   /\ job # NoJob => ~OfCall(job, i)
  <2>1. \A k, l \in 1..Len(ch') :
          ch'[k] = SyncJob(i) /\ k < l => ~OfCall(ch'[l], i)
    BY <1>1, <1>10 DEF Data, Behind
  <2>2. job = SyncJob(i) => \A l \in 1..Len(ch') : ~OfCall(ch'[l], i)
    BY <1>1, <1>10 DEF Data, Behind
  <2>3. SyncJob(i) \in processed =>
          /\ \A l \in 1..Len(ch') : ~OfCall(ch'[l], i)
          /\ job # NoJob => ~OfCall(job, i)
    BY <1>1, <1>10 DEF Data, Behind
  <2> QED
    BY <2>1, <2>2, <2>3
<1>12. Behind'
  BY <1>2, <1>11 DEF Behind, SyncJob, OfCall
<1> QED
  BY <1>6, <1>8, <1>9, <1>12 DEF Data

(* The head of the channel becomes the job in hand. *)
LEMMA ReceiveData ==
  ASSUME Control, Data, RunReceive \/ DrainReceive
  PROVE  Data'
<1> DEFINE n == Len(ch)
<1>1. /\ ch \in Seq(Job) /\ ch # <<>> /\ job = NoJob
      /\ job' = Head(ch) /\ ch' = Tail(ch)
      /\ UNCHANGED <<processed, pc, accepted>>
  BY DEF Control, TypeOK, Phases, RunReceive, DrainReceive, Receive, prodVars
<1>2. /\ n \in Nat \ {0} /\ Len(ch') = n - 1
      /\ job' = ch[1] /\ ch[1] \in Job /\ job' # NoJob
      /\ \A k \in 1..(n - 1) : ch'[k] = ch[k + 1]
  <2>1. \A j \in Job : j # NoJob
    BY DEF Job, NoJob
  <2>2. n \in Nat \ {0} /\ Len(ch') = n - 1
    BY <1>1
  <2>3. job' = ch[1] /\ ch[1] \in Job
    BY <1>1, <2>2
  <2>4. \A k \in 1..(n - 1) : ch'[k] = ch[k + 1]
    BY <1>1, <2>2
  <2> QED
    BY <2>1, <2>2, <2>3, <2>4
<1>3. \A k \in 1..Len(ch') : /\ k + 1 \in 1..n /\ 1 \in 1..n /\ 1 < k + 1
                            /\ ch'[k] = ch[k + 1]
  BY <1>2
<1>4. \A j \in Job : j = job' \/ InChannel(j)' <=> j = job \/ InChannel(j)
  <2> SUFFICES ASSUME NEW j \in Job
               PROVE  j = ch[1] \/ InChannel(j)' <=> InChannel(j)
    BY <1>1, <1>2 DEF Job, NoJob
  <2>1. ASSUME NEW k \in 1..n, ch[k] = j, k # 1
        PROVE  k - 1 \in 1..Len(ch') /\ ch'[k - 1] = j
    BY <1>2, <2>1
  <2>2. InChannel(j) => j = ch[1] \/ InChannel(j)'
    BY <2>1 DEF InChannel
  <2>3. InChannel(j)' => InChannel(j)
    BY <1>3 DEF InChannel
  <2>4. j = ch[1] => InChannel(j)
    BY <1>2 DEF InChannel
  <2> QED
    BY <2>2, <2>3, <2>4
<1>5. Conserved'
  BY <1>1, <1>4 DEF Data, Conserved
<1>6. Ordered'
  <2>1. \A k, l \in 1..Len(ch') :
          k < l /\ ch'[k].by = ch'[l].by => ch'[k].num < ch'[l].num
    <3> SUFFICES ASSUME NEW k \in 1..Len(ch'), NEW l \in 1..Len(ch'),
                        k < l, ch'[k].by = ch'[l].by
                 PROVE  ch'[k].num < ch'[l].num
      OBVIOUS
    <3>1. k + 1 < l + 1
      BY <1>2
    <3> QED
      BY <1>3, <3>1 DEF Data, Ordered
  <2>2. \A k \in 1..Len(ch') : job'.by = ch'[k].by => job'.num < ch'[k].num
    BY <1>2, <1>3 DEF Data, Ordered
  <2>3. \A j \in processed :
          /\ \A k \in 1..Len(ch') : j.by = ch'[k].by => j.num < ch'[k].num
          /\ j.by = job'.by => j.num < job'.num
    BY <1>2, <1>3 DEF Data, Ordered
  <2> QED
    BY <1>1, <2>1, <2>2, <2>3 DEF Ordered
<1>7. WorkersExited'
  BY <1>1 DEF Data, WorkersExited
<1>8. ASSUME NEW i \in Indexers
      PROVE  /\ \A k, l \in 1..Len(ch') :
                  ch'[k] = SyncJob(i) /\ k < l => ~OfCall(ch'[l], i)
             /\ job' = SyncJob(i) => \A l \in 1..Len(ch') : ~OfCall(ch'[l], i)
             /\ SyncJob(i) \in processed =>
                  /\ \A l \in 1..Len(ch') : ~OfCall(ch'[l], i)
                  /\ ~OfCall(job', i)
  <2>1. \A k, l \in 1..Len(ch') :
          ch'[k] = SyncJob(i) /\ k < l => ~OfCall(ch'[l], i)
    <3> SUFFICES ASSUME NEW k \in 1..Len(ch'), NEW l \in 1..Len(ch'),
                        ch'[k] = SyncJob(i), k < l
                 PROVE  ~OfCall(ch'[l], i)
      OBVIOUS
    <3>1. k + 1 < l + 1
      BY <1>2
    <3> QED
      BY <1>3, <3>1 DEF Data, Behind
  <2>2. job' = SyncJob(i) => \A l \in 1..Len(ch') : ~OfCall(ch'[l], i)
    BY <1>2, <1>3 DEF Data, Behind
  <2>3. SyncJob(i) \in processed =>
          /\ \A l \in 1..Len(ch') : ~OfCall(ch'[l], i)
          /\ ~OfCall(job', i)
    BY <1>2, <1>3 DEF Data, Behind
  <2> QED
    BY <2>1, <2>2, <2>3
<1>9. Behind'
  BY <1>1, <1>8 DEF Behind, SyncJob, OfCall
<1> QED
  BY <1>5, <1>6, <1>7, <1>9 DEF Data

(* The job in hand joins the processed ones. *)
LEMMA ProcessJobData ==
  ASSUME Control, Data, ProcessJob
  PROVE  Data'
<1>1. /\ job \in Job /\ job # NoJob /\ job' = NoJob
      /\ processed' = processed \cup {job}
      /\ UNCHANGED <<ch, pc, accepted>>
  BY DEF Control, TypeOK, Phases, ProcessJob, chanVars, prodVars
<1>2. \A j \in Job : j # NoJob
  BY DEF Job, NoJob
<1>3. Conserved'
  BY <1>1, <1>2 DEF Data, Conserved, InChannel
<1>4. Ordered'
  BY <1>1 DEF Data, Ordered
<1>5. WorkersExited'
  BY <1>1 DEF Data, WorkersExited
<1>6. \A i \in Indexers : SyncJob(i) # NoJob
  BY DEF SyncJob, NoJob
<1>7. Behind'
  BY <1>1, <1>6 DEF Data, Behind, SyncJob, OfCall
<1> QED
  BY <1>3, <1>4, <1>5, <1>7 DEF Data

(* A step that touches no job keeps the jobs where they are. *)
LEMMA SameJobsData ==
  ASSUME Data, UNCHANGED <<ch, job, processed, accepted>>, WorkersExited'
  PROVE  Data'
<1>1. Conserved' /\ Ordered'
  BY DEF Data, Conserved, Ordered, InChannel
<1>2. Behind'
  BY DEF Data, Behind, SyncJob, OfCall
<1> QED
  BY <1>1, <1>2 DEF Data

(* Each step keeps the data part of the invariant. *)
LEMMA NextData == Control /\ Control' /\ Data /\ [Next]_vars => Data'
<1> SUFFICES ASSUME Control, Control', Data, [Next]_vars PROVE Data'
  OBVIOUS
<1>1. ASSUME NEW t \in Senders, Goroutine(t) PROVE Data'
  <2>1. CASE SubmitSend(t)
    BY <2>1, SubmitSendData
  <2>2. CASE SubmitClosed(t) \/ SubmitFull(t) \/ CondWait(t)
    <3>1. UNCHANGED <<ch, job, processed, accepted>>
      BY <2>2 DEF SubmitClosed, SubmitFull, CondWait, chanVars, runVars
    <3>2. WorkersExited'
      BY <2>2, GotoWorkersExited DEF Control, Data, SubmitClosed, SubmitFull, CondWait,
                                     InSubmit, AfterWorkers
    <3> QED
      BY <3>1, <3>2, SameJobsData
  <2>3. CASE AddProducer(t)
    <3>1. UNCHANGED <<ch, job, processed, accepted>>
      BY <2>3 DEF AddProducer, runVars
    <3>2. PICK x \in {"refused", "working", "ready"} : Goto(t, x)
      BY <2>3 DEF AddProducer
    <3>3. WorkersExited'
      BY <2>3, <3>2, GotoWorkersExited DEF Control, Data, AddProducer, AfterWorkers
    <3> QED
      BY <3>1, <3>3, SameJobsData
  <2>4. CASE TakeFile(t) \/ WorkerExit(t)
    <3>1. UNCHANGED <<ch, job, processed, accepted>>
      BY <2>4 DEF TakeFile, WorkerExit, chanVars, runVars
    <3>2. pc' = pc \/ Goto(t, "submit") \/ Goto(t, "exited")
      BY <2>4 DEF TakeFile, WorkerExit
    <3>3. t \notin Indexers /\ pc[t] = "ready"
      BY <2>4, GoroutineAssumption DEF TakeFile, WorkerExit
    <3>4. pc' = pc => WorkersExited'
      BY DEF Data, WorkersExited
    <3>5. Goto(t, "submit") => WorkersExited'
      BY <3>3, GotoWorkersExited DEF Control, Data
    <3>6. Goto(t, "exited") => WorkersExited'
      BY <3>3, GotoWorkersExited DEF Control, Data
    <3>7. WorkersExited'
      BY <3>2, <3>4, <3>5, <3>6
    <3> QED
      BY <3>1, <3>7, SameJobsData
  <2>5. CASE WorkersDone(t)
    <3>1. UNCHANGED <<ch, job, processed, accepted>>
      BY <2>5 DEF WorkersDone, runVars
    <3>2. WorkersExited'
      BY <2>5, GoroutineAssumption, GotoWorkersExited DEF Control, Data, WorkersDone
    <3> QED
      BY <3>1, <3>2, SameJobsData
  <2>6. CASE SyncReceived(t) \/ NextEvent(t) \/ WatcherExit(t)
    <3>1. UNCHANGED <<ch, job, processed, accepted>>
      BY <2>6 DEF SyncReceived, NextEvent, WatcherExit, chanVars, runVars
    <3>2. ASSUME SyncReceived(t) PROVE WorkersExited'
      <4>1. Goto(t, "returned") /\ pc[t] = "awaitSync" /\ t \notin Workers
        BY <3>2, GoroutineAssumption DEF SyncReceived
      <4> QED
        BY <4>1, GotoWorkersExited DEF Control, Data, AfterWorkers
    <3>3. ASSUME NextEvent(t) \/ WatcherExit(t) PROVE WorkersExited'
      <4>1. t \notin Workers /\ t \notin Indexers
        BY <3>3, GoroutineAssumption DEF NextEvent, WatcherExit
      <4>2. pc' = pc \/ Goto(t, "submit") \/ Goto(t, "exited")
        BY <3>3 DEF NextEvent, WatcherExit
      <4>3. pc' = pc => WorkersExited'
        BY DEF Data, WorkersExited
      <4>4. Goto(t, "submit") => WorkersExited'
        BY <4>1, GotoWorkersExited DEF Control, Data
      <4>5. Goto(t, "exited") => WorkersExited'
        BY <4>1, GotoWorkersExited DEF Control, Data
      <4> QED
        BY <4>2, <4>3, <4>4, <4>5
    <3>4. WorkersExited'
      BY <2>6, <3>2, <3>3
    <3> QED
      BY <3>1, <3>4, SameJobsData
  <2> QED
    BY <1>1, <2>1, <2>2, <2>3, <2>4, <2>5, <2>6 DEF Goroutine, Submit
<1>2. CASE RunReceive \/ DrainReceive
  BY <1>2, ReceiveData
<1>3. CASE ProcessJob
  BY <1>3, ProcessJobData
<1>4. CASE SignalNotFull \/ DrainClose
  <2>1. UNCHANGED <<ch, job, processed, accepted>>
    BY <1>4 DEF SignalNotFull, DrainClose
  <2>2. \A t \in Senders : pc'[t] = pc[t] \/ (pc[t] = "waiting" /\ pc'[t] = "woken")
    <3>1. CASE DrainClose
      BY <3>1 DEF Control, TypeOK, Sleepers, DrainClose, Range
    <3>2. CASE SignalNotFull /\ waitList = <<>>
      BY <3>2 DEF SignalNotFull
    <3>3. CASE SignalNotFull /\ waitList # <<>>
      <4>1. 1 \in 1..Len(waitList) /\ Head(waitList) = waitList[1]
            /\ Head(waitList) \in Senders
        BY <3>3 DEF Control, TypeOK
      <4>2. pc[Head(waitList)] = "waiting"
        BY <4>1 DEF Control, Sleepers
      <4> QED
        BY <3>3, <4>1, <4>2 DEF SignalNotFull, Goto, Control, TypeOK
    <3> QED
      BY <1>4, <3>1, <3>2, <3>3
  <2>3. \A w \in Workers : w \in Senders /\ ParentOf[w] \in Senders
    BY GoroutineAssumption DEF Senders
  <2>4. ASSUME NEW w \in Workers, pc'[ParentOf[w]] \in AfterWorkers
        PROVE  pc'[w] = "exited"
    <3>1. pc[ParentOf[w]] \in AfterWorkers
      BY <2>2, <2>3, <2>4 DEF AfterWorkers
    <3>2. pc[w] = "exited"
      BY <3>1 DEF Data, WorkersExited
    <3> QED
      BY <2>2, <2>3, <3>2
  <2>5. WorkersExited'
    BY <2>4 DEF WorkersExited
  <2> QED
    BY <2>1, <2>5, SameJobsData
<1>5. CASE \/ RunCancelled \/ DrainStart \/ DrainProducersGone \/ DrainEmpty
           \/ DrainDeadline
           \/ CancelParent \/ StartReturns \/ StopDrained \/ StopTimeout
           \/ UNCHANGED vars
  <2>1. UNCHANGED <<ch, job, processed, accepted, pc>>
    BY <1>5 DEF RunCancelled, DrainStart, DrainProducersGone, DrainEmpty,
                DrainDeadline, CancelParent, StartReturns, StopDrained, StopTimeout,
                vars, chanVars, runVars, prodVars
  <2>2. WorkersExited'
    BY <2>1 DEF Data, WorkersExited
  <2> QED
    BY <2>1, <2>2, SameJobsData
<1> QED
  BY <1>1, <1>2, <1>3, <1>4, <1>5 DEF Next, Terminated, Run

(* Every accepted job is in one place, in the order of its goroutine (daemon/writer.go). *)
THEOREM DataInvariant == Spec => []Data
<1> QED
  BY ControlInvariant, InitData, NextData, PTL DEF Spec

------------------------------------------------------------------------------
(* What the invariants say about the properties of WriterManager. *)

(* The accepted jobs, by their numbers. *)
LEMMA AcceptedAreJobs ==
  ASSUME TypeOK
  PROVE  \A j : j \in AcceptedJobs <=> j \in Job /\ j.num <= accepted[j.by]
<1> USE DEF TypeOK
<1>1. ASSUME NEW j \in AcceptedJobs PROVE j \in Job /\ j.num <= accepted[j.by]
  <2>1. PICK t \in Senders : \E n \in 1..accepted[t] : j = [by |-> t, num |-> n]
    BY DEF AcceptedJobs
  <2>2. PICK n \in 1..accepted[t] : j = [by |-> t, num |-> n]
    BY <2>1
  <2>3. accepted[t] \in 0..MaxFiles
    OBVIOUS
  <2> QED
    BY <2>2, <2>3 DEF Job
<1>2. ASSUME NEW j \in Job, j.num <= accepted[j.by] PROVE j \in AcceptedJobs
  <2>1. /\ j.by \in Senders /\ j = [by |-> j.by, num |-> j.num]
        /\ j.num \in 1..accepted[j.by]
    BY <1>2 DEF Job
  <2>2. j \in {[by |-> j.by, num |-> n] : n \in 1..accepted[j.by]}
    BY <2>1
  <2> QED
    BY <2>1, <2>2 DEF AcceptedJobs
<1> QED
  BY <1>1, <1>2

(* What the queue of WriteQueue holds: the job in hand and the channel. *)
LEMMA PendingJobs ==
  ASSUME TypeOK
  PROVE  /\ Pending \in Seq(Job)
         /\ Range(Pending) = {j \in Job : j = job \/ InChannel(j)}
<1>1. ch \in Seq(Job) /\ job \in Job \cup {NoJob} /\ NoJob \notin Job
  BY DEF TypeOK, Job, NoJob
<1>2. CASE job = NoJob
  <2>1. Pending = ch
    BY <1>2 DEF Pending
  <2> QED
    BY <1>1, <1>2, <2>1 DEF Range, InChannel
<1>3. CASE job # NoJob
  <2>1. /\ Pending = <<job>> \o ch /\ Pending \in Seq(Job)
        /\ Len(Pending) = Len(ch) + 1 /\ Len(ch) \in Nat
    BY <1>1, <1>3 DEF Pending
  <2>2. Pending[1] = job /\ \A k \in 1..Len(ch) : Pending[k + 1] = ch[k]
    BY <1>1, <1>3, <2>1 DEF Pending
  <2>3. ASSUME NEW j \in Range(Pending)
        PROVE  j \in Job /\ (j = job \/ InChannel(j))
    <3>1. PICK k \in 1..(Len(ch) + 1) : j = Pending[k]
      BY <2>1 DEF Range
    <3>2. CASE k = 1
      BY <1>1, <1>3, <2>2, <3>1, <3>2
    <3>3. CASE k # 1
      <4>1. k - 1 \in 1..Len(ch) /\ j = ch[k - 1]
        BY <2>1, <2>2, <3>1, <3>3
      <4> QED
        BY <1>1, <4>1 DEF InChannel
    <3> QED
      BY <3>2, <3>3
  <2>4. ASSUME NEW j \in Job, j = job \/ InChannel(j)
        PROVE  j \in Range(Pending)
    <3>1. CASE j = job
      <4>1. 1 \in DOMAIN Pending /\ Pending[1] = j
        BY <2>1, <2>2, <3>1
      <4> QED
        BY <4>1 DEF Range
    <3>2. CASE InChannel(j)
      <4>1. PICK k \in 1..Len(ch) : ch[k] = j
        BY <3>2 DEF InChannel
      <4>2. k + 1 \in DOMAIN Pending /\ Pending[k + 1] = j
        BY <2>1, <2>2, <4>1
      <4> QED
        BY <4>2 DEF Range
    <3> QED
      BY <2>4, <3>1, <3>2
  <2> QED
    BY <2>1, <2>3, <2>4
<1> QED
  BY <1>2, <1>3

(* A job that Submit accepted is pending or applied, one of the two and once.  *)
THEOREM NoJobLost == Spec => []JobsConserved
<1>1. Control /\ Data => JobsConserved
  <2> SUFFICES ASSUME Control, Data PROVE JobsConserved
    OBVIOUS
  <2>1. TypeOK /\ processed \subseteq Job
    BY DEF Control, TypeOK
  <2>2. AcceptedJobs = processed \cup Range(Pending)
    BY <2>1, AcceptedAreJobs, PendingJobs DEF Data, Conserved
  <2>3. processed \cap Range(Pending) = {}
    <3> SUFFICES ASSUME NEW j \in Job, j \in processed, j = job \/ InChannel(j)
                 PROVE  FALSE
      BY <2>1, PendingJobs
    <3>1. j.num \in Nat /\ (j = job => job # NoJob)
      BY DEF Job, NoJob
    <3>2. CASE j = job
      BY <3>1, <3>2 DEF Data, Ordered
    <3>3. CASE InChannel(j)
      BY <3>1, <3>3 DEF Data, Ordered, InChannel
    <3> QED
      BY <3>2, <3>3
  <2>4. IsInjective(Pending)
    <3>1. ch \in Seq(Job) /\ job \in Job \cup {NoJob}
      BY DEF Control, TypeOK
    <3>2. \A k \in 1..Len(ch) : ch[k].num \in Nat
      <4>1. \A j \in Job : j.num \in Nat
        BY DEF Job
      <4> QED
        BY <3>1, <4>1
    <3>3. \A k, l \in 1..Len(ch) : ch[k] = ch[l] => k = l
      <4> SUFFICES ASSUME NEW k \in 1..Len(ch), NEW l \in 1..Len(ch), ch[k] = ch[l],
                          k # l
                   PROVE  FALSE
        OBVIOUS
      <4>1. k < l \/ l < k
        BY <3>1
      <4> QED
        BY <3>2, <4>1 DEF Data, Ordered
    <3>4. CASE job = NoJob
      BY <3>1, <3>3, <3>4 DEF Pending, IsInjective
    <3>5. CASE job # NoJob
      <4>1. /\ Pending = <<job>> \o ch /\ Pending \in Seq(Job)
            /\ Len(Pending) = Len(ch) + 1 /\ Len(ch) \in Nat
            /\ DOMAIN Pending = 1..(Len(ch) + 1)
        BY <3>1, <3>5 DEF Pending
      <4>2. Pending[1] = job /\ \A k \in 1..Len(ch) : Pending[k + 1] = ch[k]
        BY <3>1, <3>5, <4>1 DEF Pending
      <4>3. \A k \in 1..Len(ch) : job # ch[k]
        BY <3>2, <3>5 DEF Data, Ordered
      <4>4. ASSUME NEW k \in 1..(Len(ch) + 1), NEW l \in 1..(Len(ch) + 1),
                   Pending[k] = Pending[l]
            PROVE  k = l
        <5>1. \A m \in 1..(Len(ch) + 1) :
                m # 1 => m - 1 \in 1..Len(ch) /\ Pending[m] = ch[m - 1]
          BY <4>1, <4>2
        <5>2. k = 1 <=> l = 1
          BY <4>2, <4>3, <4>4, <5>1
        <5>3. CASE k # 1
          BY <3>3, <4>4, <5>1, <5>2, <5>3
        <5> QED
          BY <5>2, <5>3
      <4> QED
        BY <4>1, <4>4 DEF IsInjective
    <3> QED
      BY <3>4, <3>5
  <2> QED
    BY <2>2, <2>3, <2>4 DEF JobsConserved
<1> QED
  BY <1>1, ControlInvariant, DataInvariant, PTL

(* The jobs of a goroutine are applied in the order it submitted them. *)
THEOREM AppliedInOrder == Spec => []InOrder
<1>1. Control /\ Data => InOrder
  <2> SUFFICES ASSUME Control, Data, NEW j \in processed, NEW n \in 1..(j.num - 1)
               PROVE  [by |-> j.by, num |-> n] \in processed
    BY DEF InOrder
  <2> DEFINE e == [by |-> j.by, num |-> n]
  <2>1. j \in Job /\ j.num \in 1..MaxFiles /\ accepted \in [Senders -> 0..MaxFiles]
    BY DEF Control, TypeOK, Job
  <2>2. e \in Job /\ e.by = j.by /\ e.num = n /\ n < j.num
    BY <2>1 DEF Job
  <2>3. j.num <= accepted[j.by] /\ accepted[j.by] \in Nat
    BY <2>1 DEF Data, Conserved, Job
  <2>4. e \in processed \/ e = job \/ InChannel(e)
    BY <2>1, <2>2, <2>3 DEF Data, Conserved
  <2>5. e # job
    BY <2>1, <2>2 DEF Data, Ordered, NoJob, Job
  <2>6. ~InChannel(e)
    BY <2>1, <2>2 DEF Data, Ordered, InChannel
  <2> QED
    BY <2>4, <2>5, <2>6
<1> QED
  BY <1>1, ControlInvariant, DataInvariant, PTL

(* At every moment the writer is sound: jobs are applied in order, and a closed *)
(* writer has neither a registered producer nor a sleeping Submit.             *)
THEOREM WriterIsSound == Spec => []WriterSound
<1>1. TypeOK /\ InOrder /\ ClosedBehindProducers /\ NoSleeperAfterClose => WriterSound
  BY DEF WriterSound
<1> QED
  BY <1>1, TypeCorrect, AppliedInOrder, ProducersGoneFirst, CloseWakesAll, PTL

(* Once drain has begun, no job is lost to the cancelled context: the jobs that  *)
(* are left are processed with one of their own.                              *)
LEMMA DrainCutsNothing ==
  ASSUME Control, [Next]_vars, draining
  PROVE  UNCHANGED cut
<1>1. run \notin {"select", "process", "signal", "drain"}
  BY DEF Control, Phases
<1>2. ASSUME NEW t \in Senders, Goroutine(t) PROVE UNCHANGED cut
  BY <1>2 DEF Goroutine, Submit, SubmitClosed, SubmitSend, SubmitFull, CondWait,
     AddProducer, TakeFile, WorkerExit, WorkersDone, SyncReceived, NextEvent,
     WatcherExit, runVars
<1>3. ASSUME Run PROVE UNCHANGED cut
  BY <1>1, <1>3 DEF Run, RunReceive, Receive, ProcessJob, Succeeds, Refused,
     SignalNotFull, RunCancelled, DrainStart, DrainProducersGone, DrainClose,
     DrainReceive, DrainEmpty
<1>4. CASE \/ DrainDeadline \/ CancelParent \/ StartReturns \/ StopDrained
           \/ StopTimeout \/ UNCHANGED vars
  BY <1>4 DEF DrainDeadline, CancelParent, StartReturns, StopDrained, StopTimeout,
     vars, runVars
<1> QED
  BY <1>2, <1>3, <1>4 DEF Next, Terminated

(* A drain that ends in time has stored every accepted job, but those the store  *)
(* refused and those Run processed with its cancelled context; the drain itself  *)
(* adds none to these.                                                        *)
THEOREM DrainIsClean == Spec => CleanDrain
<1>1. Control /\ Data
        => (run = "drained" => AcceptedJobs \ (failed \cup cut) \subseteq Stored)
  <2> SUFFICES ASSUME Control, Data, run = "drained" PROVE AcceptedJobs = processed
    BY DEF Stored
  <2>1. TypeOK /\ processed \subseteq Job /\ ch = <<>> /\ job = NoJob
    BY DEF Control, TypeOK, Phases
  <2>2. \A j \in Job : j # job /\ ~InChannel(j)
    BY <2>1 DEF InChannel, Job, NoJob
  <2> QED
    BY <2>1, <2>2, AcceptedAreJobs DEF Data, Conserved
<1>2. Control /\ [Next]_vars => [draining => UNCHANGED cut]_vars
  BY DrainCutsNothing DEF vars
<1> QED
  BY <1>1, <1>2, ControlInvariant, DataInvariant, PTL DEF Spec, CleanDrain

(* An answered sync job has every job of the call's workers behind it. *)
THEOREM SyncIsBarrier == Spec => []SyncBarrier
<1>1. Control /\ Data => SyncBarrier
  <2> SUFFICES ASSUME Control, Data, NEW i \in Indexers, SyncJob(i) \in processed,
                      NEW j \in AcceptedJobs, OfCall(j, i)
               PROVE  j \in processed
    BY DEF SyncBarrier, WorkerJobs, OfCall
  <2>1. j \in Job /\ j.num <= accepted[j.by]
    BY AcceptedAreJobs DEF Control
  <2>2. j \in processed \/ j = job \/ InChannel(j)
    BY <2>1 DEF Data, Conserved
  <2>3. j # job
    BY <2>1 DEF Data, Behind, Job, NoJob
  <2>4. ~InChannel(j)
    BY DEF Data, Behind, InChannel
  <2> QED
    BY <2>2, <2>3, <2>4
<1> QED
  BY <1>1, ControlInvariant, DataInvariant, PTL

------------------------------------------------------------------------------
(* Refinement: each step of the writer is a step of the queue or a stutter. *)

(* An idle writer is an empty queue. *)
LEMMA RefinesInit == Init => Queue!Init
  BY DEF Init, Queue!Init, Pending

(* The send of a job is its acceptance by the queue. *)
LEMMA RefinesAccept ==
  ASSUME Control, Control', Data, NEW t \in Senders, SubmitSend(t)
  PROVE  Queue!Accept(NextJob(t))
<1> DEFINE new == NextJob(t)
<1>1. /\ ~closed /\ ch' = Append(ch, new)
      /\ UNCHANGED <<closed, job, processed>>
  BY DEF SubmitSend, runVars
<1>2. ch \in Seq(Job) /\ job \in Job \cup {NoJob}
  BY DEF Control, TypeOK
<1>3. new \in Job /\ new.by = t /\ new.num = accepted[t] + 1 /\ accepted[t] \in Nat
  <2>1. /\ accepted' = [accepted EXCEPT ![t] = accepted[t] + 1]
        /\ accepted \in [Senders -> 0..MaxFiles]
        /\ accepted' \in [Senders -> 0..MaxFiles]
    BY DEF Control, TypeOK, SubmitSend
  <2> QED
    BY <2>1 DEF NextJob, Job
<1>4. ~(new \in processed \/ new = job \/ InChannel(new))
  BY <1>3 DEF Data, Conserved
<1>5. new \notin processed \cup Range(Pending)
  BY <1>3, <1>4, PendingJobs DEF Control
<1>6. Pending' = Append(Pending, new)
  <2>1. CASE job = NoJob
    BY <1>1, <2>1 DEF Pending
  <2>2. CASE job # NoJob
    BY <1>1, <1>2, <1>3, <2>2 DEF Pending
  <2> QED
    BY <2>1, <2>2
<1>7. Queue!Range(Pending) = Range(Pending)
  BY DEF Queue!Range, Range
<1> QED
  BY <1>1, <1>5, <1>6, <1>7 DEF Queue!Accept

(* Each step of the writer is a step of the queue, or none. *)
LEMMA RefinesNext == Control /\ Control' /\ Data /\ [Next]_vars => [Queue!Next]_Queue!vars
<1> SUFFICES ASSUME Control, Control', Data, [Next]_vars
             PROVE  Queue!Next \/ UNCHANGED Queue!vars
  BY DEF Queue!vars
<1>1. ASSUME NEW t \in Senders, SubmitSend(t)
      PROVE  Queue!Next
  <2>1. NextJob(t) \in Job
    <3>1. /\ accepted' = [accepted EXCEPT ![t] = accepted[t] + 1]
          /\ accepted \in [Senders -> 0..MaxFiles]
          /\ accepted' \in [Senders -> 0..MaxFiles]
      BY <1>1 DEF Control, TypeOK, SubmitSend
    <3> QED
      BY <3>1 DEF NextJob, Job
  <2> QED
    BY <1>1, <2>1, RefinesAccept DEF Queue!Next
<1>2. ASSUME NEW t \in Senders, Goroutine(t), ~SubmitSend(t)
      PROVE  UNCHANGED Queue!vars
  BY <1>2 DEF Goroutine, Submit, SubmitClosed, SubmitFull, CondWait, AddProducer,
     TakeFile, WorkerExit, WorkersDone, SyncReceived, NextEvent, WatcherExit,
     chanVars, runVars, Queue!vars, Pending
<1>3. CASE RunReceive \/ DrainReceive
  <2>1. /\ ch \in Seq(Job) /\ ch # <<>> /\ job = NoJob /\ job' = Head(ch)
        /\ ch' = Tail(ch) /\ UNCHANGED <<closed, processed>>
    BY <1>3 DEF Control, TypeOK, Phases, RunReceive, DrainReceive, Receive
  <2>2. \A j \in Job : j # NoJob
    BY DEF Job, NoJob
  <2>3. Head(ch) \in Job /\ ch = <<Head(ch)>> \o Tail(ch)
    BY <2>1
  <2>4. Pending' = Pending
    BY <2>1, <2>2, <2>3 DEF Pending
  <2> QED
    BY <2>1, <2>4 DEF Queue!vars
<1>4. CASE ProcessJob
  <2>1. /\ ch \in Seq(Job) /\ job \in Job /\ job # NoJob /\ job' = NoJob
        /\ ch' = ch /\ closed' = closed /\ processed' = processed \cup {job}
    BY <1>4 DEF Control, TypeOK, Phases, ProcessJob, chanVars
  <2>2. Pending = <<job>> \o ch /\ Pending' = ch
    BY <2>1 DEF Pending
  <2>3. Pending # <<>> /\ Head(Pending) = job /\ Tail(Pending) = ch
    BY <2>1, <2>2
  <2> QED
    BY <2>1, <2>2, <2>3 DEF Queue!Next, Queue!Apply
<1>5. CASE DrainClose
  <2>1. ~closed /\ closed' = TRUE /\ UNCHANGED <<ch, job, processed>>
    BY <1>5 DEF Control, TypeOK, Phases, DrainClose
  <2> QED
    BY <2>1 DEF Queue!Next, Queue!Close, Pending
<1>6. CASE \/ SignalNotFull \/ RunCancelled \/ DrainStart \/ DrainProducersGone
           \/ DrainEmpty \/ DrainDeadline
           \/ CancelParent \/ StartReturns \/ StopDrained \/ StopTimeout
           \/ UNCHANGED vars
  BY <1>6 DEF SignalNotFull, RunCancelled, DrainStart, DrainProducersGone, DrainEmpty,
     DrainDeadline, CancelParent, StartReturns, StopDrained, StopTimeout,
     vars, chanVars, runVars, Queue!vars, Pending
<1> QED
  BY <1>1, <1>2, <1>3, <1>4, <1>5, <1>6 DEF Next, Terminated, Run

(* The writer, its channel, its lock and its shutdown implement the queue of    *)
(* WriteQueue: jobs are applied once each, in the order Submit accepted them.  *)
THEOREM WriterImplementsQueue == Spec => ImplementsWriteQueue
<1> QED
  BY RefinesInit, RefinesNext, ControlInvariant, DataInvariant, PTL
  DEF Spec, ImplementsWriteQueue, Queue!Spec
=============================================================================
