------------------------ MODULE IndexFreshnessProofs ------------------------
(***************************************************************************)
(* What IndexFreshness keeps for every set of files, every capacity and       *)
(* every number of edits and restarts.                                       *)
(***************************************************************************)
EXTENDS IndexFreshness, TLAPS

RunType(pcs) == [pc : pcs, job : JobType]
ScanType == [pc : {"read", "work", "wait", "embed", "idle"}, todo : SUBSET Files,
             found : [Files -> Nat], made : SUBSET JobType]

DiskTyped ==
  /\ hist \in [Files -> Seq(Texts \cup {Gone})] /\ \A f \in Files : Version(f) # 0
  /\ row \in [Files -> Nat] /\ chunks \in [Files -> Nat]
  /\ \A f \in Files : row[f] <= Version(f) /\ chunks[f] <= Version(f)
  /\ restarts \in 0..MaxRestarts /\ lost \subseteq Files /\ torn \subseteq Files
WatchTyped ==
  /\ OldDirs \subseteq dirs /\ dirs \subseteq Dirs /\ made \cup watched \subseteq dirs
  /\ raw \in [Files -> Nat]
  /\ pending \subseteq Files /\ emitting \subseteq Files
  /\ sending \in Events \cup {NoEvent} /\ signal \in BOOLEAN
  /\ events \in Seq(Events) /\ Len(events) <= EventCap
PipeTyped ==
  /\ loop \in RunType({"idle", "check", "parse", "submit"})
  /\ scan \in ScanType /\ queue \in Seq(JobType)
  /\ writer \in RunType({"idle", "guard", "deleteChunks", "insertChunks"})
Typed == DiskTyped /\ WatchTyped /\ PipeTyped

(* A job of a file carries a version that the file has had; what was read is one.  *)
IsEnrich(j) ==
  j.kind = "enrich" /\ j.file \in Files /\ j.ver # 0 /\ j.ver <= Version(j.file)
IsJob(j) ==
  \/ IsEnrich(j)
  \/ j.kind = "delete" /\ j.file \in Files
  \/ j.kind = "sync" /\ j.file = NoFile

(* What the stages of the pipeline hold; half way through a job the row is the      *)
(* job's.                                                                     *)
QueueRight  == \A j \in Range(queue) : IsJob(j)
LoopRight ==
  /\ loop.pc = "idle" => loop = IdleLoop
  /\ loop.pc \in {"check", "parse"} => IsEnrich(loop.job)
  /\ loop.pc = "submit" => IsJob(loop.job) /\ loop.job.kind # "sync"
WriterRight ==
  /\ writer.pc = "idle" => writer = IdleWriter
  /\ writer.pc = "guard" => IsJob(writer.job)
  /\ writer.pc \in Halfway => IsEnrich(writer.job) /\ row[writer.job.file] = writer.job.ver
ScanRight ==
  /\ \A f \in Files : scan.found[f] <= Version(f)
  /\ \A j \in scan.made : IsEnrich(j)
  /\ scan.pc # "read" => scan.todo = {}
  /\ scan.pc # "work" => scan.made = {}
  /\ scan.pc \notin {"read", "work"} => \A f \in Files : scan.found[f] = 0

(* There is one sync job at most, and the scan waits for it. *)
SyncsRight ==
  /\ \A m, n \in DOMAIN queue : queue[m].kind = "sync" /\ queue[n].kind = "sync" => m = n
  /\ \A n \in DOMAIN queue : queue[n].kind = "sync" => scan.pc = "wait" /\ writer.job.kind # "sync"
  /\ writer.job.kind = "sync" => scan.pc = "wait"

(* The chunks of a file are of the text of its row, but half way through its job.  *)
ChunksRight ==
  \A f \in Files \ torn : ChunksOfHash(f) \/ (writer.pc \in Halfway /\ writer.job.file = f)

(* What is on its way for a file whose last change was seen is its last content,    *)
(* and no job of it is out of date but for a row that is fresh.                   *)
Newest(f) ==
  /\ Exists(f)
  /\ \A j \in Jobs(f) : j.kind = "enrich" /\ j.ver = Version(f) /\ (j.older => Fresh(f))
  /\ scan.found[f] # 0 => scan.found[f] = Version(f)
  /\ \A e \in Range(events) \cup {sending} : e.file = f => e.type = "modify"

(* Its row is fresh, or something on its way will make it so. *)
Coming(f) ==
  \/ raw[f] # 0 \/ f \in pending \/ f \in emitting
  \/ \E e \in Range(events) \cup {sending} : e.file = f
  \/ scan.pc = "read" /\ f \in scan.todo
  \/ scan.found[f] # 0
  \/ \E j \in Range(queue) \cup {loop.job} \cup scan.made : j.file = f
  \/ writer.pc = "guard" /\ writer.job.file = f
Arriving(f) == f \in lost \/ (Newest(f) /\ (Fresh(f) \/ Coming(f)))

(* A file that is not there yet, as its directory may not be, and that nothing knows. *)
Absent(f) ==
  /\ ~Exists(f) /\ row[f] = 0
  /\ f \notin pending /\ f \notin emitting /\ Jobs(f) = {} /\ scan.found[f] = 0
  /\ \A e \in Range(events) \cup {sending} : e.file # f

Inv ==
  /\ Typed /\ QueueRight /\ LoopRight /\ WriterRight /\ ScanRight /\ SyncsRight
  /\ ChunksRight /\ \A f \in Files : Absent(f) \/ Arriving(f)

------------------------------------------------------------------------------
(* Sequences and sets *)

(* What is in a queue after a send and after a receive. *)
LEMMA Sent ==
  ASSUME NEW S, NEW q \in Seq(S), NEW x \in S
  PROVE  Append(q, x) \in Seq(S) /\ Range(Append(q, x)) = Range(q) \cup {x}
<1>1. /\ Append(q, x) \in Seq(S) /\ Len(Append(q, x)) = Len(q) + 1
      /\ \A n \in 1..Len(q) : Append(q, x)[n] = q[n]
      /\ Append(q, x)[Len(q) + 1] = x
  OBVIOUS
<1>2. ASSUME NEW y \in Range(Append(q, x)) PROVE y \in Range(q) \cup {x}
  <2>1. PICK n \in 1..(Len(q) + 1) : y = Append(q, x)[n]
    BY <1>1, <1>2 DEF Range
  <2>2. CASE n = Len(q) + 1
    BY <1>1, <2>1, <2>2
  <2>3. CASE n # Len(q) + 1
    BY <1>1, <2>1, <2>3 DEF Range
  <2> QED BY <2>2, <2>3
<1>3. ASSUME NEW y \in Range(q) PROVE y \in Range(Append(q, x))
  <2>1. PICK n \in 1..Len(q) : y = q[n]
    BY <1>3 DEF Range
  <2>2. n \in DOMAIN Append(q, x) /\ y = Append(q, x)[n]
    BY <1>1, <2>1
  <2> QED BY <2>2 DEF Range
<1>4. x \in Range(Append(q, x))
  <2>1. Len(q) + 1 \in DOMAIN Append(q, x)
    BY <1>1
  <2> QED BY <1>1, <2>1 DEF Range
<1> QED BY <1>1, <1>2, <1>3, <1>4

(* What a receive leaves of a queue. *)
LEMMA Received ==
  ASSUME NEW S, NEW q \in Seq(S), q # <<>>
  PROVE  /\ Tail(q) \in Seq(S) /\ Head(q) \in S
         /\ Range(q) = {Head(q)} \cup Range(Tail(q))
         /\ Len(Tail(q)) = Len(q) - 1 /\ Head(q) = q[1] /\ Len(q) \in Nat \ {0}
         /\ \A n \in DOMAIN Tail(q) : Tail(q)[n] = q[n + 1] /\ n + 1 \in DOMAIN q
<1>1. /\ Tail(q) \in Seq(S) /\ Head(q) \in S /\ Len(Tail(q)) = Len(q) - 1
      /\ Len(q) \in Nat \ {0} /\ Head(q) = q[1]
      /\ \A n \in 1..(Len(q) - 1) : Tail(q)[n] = q[n + 1]
  OBVIOUS
<1>2. DOMAIN q = 1..Len(q) /\ DOMAIN Tail(q) = 1..(Len(q) - 1)
  BY <1>1
<1>3. ASSUME NEW y \in Range(q) PROVE y \in {Head(q)} \cup Range(Tail(q))
  <2>1. PICK n \in 1..Len(q) : y = q[n]
    BY <1>2, <1>3 DEF Range
  <2>2. CASE n # 1
    <3>1. n - 1 \in DOMAIN Tail(q) /\ y = Tail(q)[n - 1]
      BY <1>1, <1>2, <2>1, <2>2
    <3> QED BY <3>1 DEF Range
  <2> QED BY <1>1, <2>1, <2>2
<1>4. ASSUME NEW y \in Range(Tail(q)) PROVE y \in Range(q)
  <2>1. PICK n \in 1..(Len(q) - 1) : y = Tail(q)[n]
    BY <1>2, <1>4 DEF Range
  <2>2. n + 1 \in DOMAIN q /\ y = q[n + 1]
    BY <1>1, <1>2, <2>1
  <2> QED BY <2>2 DEF Range
<1>5. Head(q) \in Range(q)
  BY <1>1, <1>2 DEF Range
<1>6. \A n \in DOMAIN Tail(q) : Tail(q)[n] = q[n + 1] /\ n + 1 \in DOMAIN q
  BY <1>1, <1>2
<1> QED BY <1>1, <1>3, <1>4, <1>5, <1>6

(* Nothing is in an empty queue. *)
LEMMA NothingSent == Range(<<>>) = {} /\ \A S : <<>> \in Seq(S)
  BY DEF Range

(* The constants, one by one. *)
LEMMA Parameters ==
  /\ NoFile \notin Files /\ Gone \notin Texts /\ Texts # {}
  /\ OldDirs \subseteq Dirs /\ DirOf \in [Files -> Dirs]
  /\ Bulk \in Nat \ {0} /\ EventCap \in Nat \ {0}
  /\ MaxEdits \in Nat /\ MaxRestarts \in Nat
  BY FreshnessAssumption, Zenon DEF FreshnessAssumption

(* A job for no file, and for a file. *)
LEMMA JobTypes ==
  /\ NoJob \in JobType /\ [NoJob EXCEPT !.kind = "sync"] \in JobType
  /\ NoJob.file = NoFile /\ NoJob.kind = "none" /\ NoJob.ver = 0 /\ ~NoJob.older
  /\ [NoJob EXCEPT !.kind = "sync"].file = NoFile
  /\ [NoJob EXCEPT !.kind = "sync"].kind = "sync"
  /\ \A f \in Files, v \in Nat : Enrich(f, v) \in JobType /\ Delete(f) \in JobType
  /\ \A f \in Files, j \in JobType : Outdate(f, j) \in JobType
  /\ \A f, v : /\ Enrich(f, v).kind = "enrich" /\ Enrich(f, v).file = f
               /\ Enrich(f, v).ver = v /\ Enrich(f, v).older = FALSE
               /\ Delete(f).kind = "delete" /\ Delete(f).file = f
  BY DEF NoJob, JobType, Versions, Enrich, Delete, Outdate

------------------------------------------------------------------------------
(* Which steps change what *)

(* The disk, the rows and the chunks. *)
LEMMA DataSteps ==
  ASSUME [Next]_vars
  PROVE  /\ hist' = hist \/ \E f \in Files, t \in Texts \cup {Gone} : Edit(f, t)
         /\ row' = row \/ DeleteFile \/ UpsertFile
         /\ chunks' = chunks \/ DeleteFile \/ DeleteChunks \/ InsertChunks
         /\ restarts' = restarts \/ Restart
BY Zenon DEF Next, vars, Restart, Watcher, Loop, Scan, Writer, diskVars, dbVars, watchVars,
  HandleEvent, Stat, FlushPending, Send, Drop, TakeEvent, CheckHash, Parsed, Submitted,
  BranchSwitch, FilterChanged, SubmitSync, ScanDone, ScanFile, WorkerParsed, WorkerSubmitted,
  TakeJob, SyncDone, SkipJob, JobFails, DeleteFile, UpsertFile, DeleteChunks, InsertChunks, Edit,
  MakeDir, HandleDir, Overflow, LoopFails, ScanSkips, WorkerFails, ScanFails

(* The two marks of the history. *)
LEMMA MarkSteps ==
  ASSUME [Next]_vars
  PROVE  /\ \/ lost' = lost
            \/ \E f \in Files : ScanFile(f) \/ \E t \in Texts \cup {Gone} : Edit(f, t)
            \/ \E f \in Files : Overflow(f) \/ ScanSkips(f) \/ WorkerFails(f)
            \/ Drop \/ JobFails \/ LoopFails \/ ScanFails
         /\ torn' = torn \/ Restart \/ DeleteFile \/ InsertChunks \/ JobFails
BY Zenon DEF Next, vars, Restart, Watcher, Loop, Scan, Writer, diskVars, dbVars, watchVars,
  HandleEvent, Stat, FlushPending, Send, Drop, TakeEvent, CheckHash, Parsed, Submitted,
  BranchSwitch, FilterChanged, SubmitSync, ScanDone, ScanFile, WorkerParsed, WorkerSubmitted,
  TakeJob, SyncDone, SkipJob, JobFails, DeleteFile, UpsertFile, DeleteChunks, InsertChunks, Edit,
  MakeDir, HandleDir, Overflow, LoopFails, ScanSkips, WorkerFails, ScanFails

(* The watcher. *)
LEMMA WatchSteps ==
  ASSUME [Next]_vars
  PROVE  \/ UNCHANGED <<dirs, watchVars, events>>
         \/ \E f \in Files, t \in Texts \cup {Gone} : Edit(f, t)
         \/ \E d \in Dirs : MakeDir(d)
         \/ Restart \/ Watcher \/ TakeEvent \/ BranchSwitch \/ ScanDone
BY Zenon DEF Next, vars, Loop, Scan, Writer, diskVars, dbVars, watchVars,
  CheckHash, Parsed, LoopFails, Submitted,
  FilterChanged, SubmitSync, ScanFile, ScanSkips, WorkerParsed, WorkerFails, WorkerSubmitted,
  ScanFails, TakeJob, SyncDone, SkipJob, JobFails, DeleteFile, UpsertFile, DeleteChunks, InsertChunks

(* The pipeline of jobs. *)
LEMMA PipeSteps ==
  ASSUME [Next]_vars
  PROVE  /\ loop' = loop \/ Restart \/ Loop \/ UpsertFile
         /\ scan' = scan \/ Restart \/ Scan \/ UpsertFile \/ SyncDone
         /\ \/ queue' = queue \/ Restart \/ Submitted \/ SubmitSync \/ TakeJob \/ UpsertFile
            \/ \E j \in scan.made : WorkerSubmitted(j)
         /\ writer' = writer \/ Restart \/ Writer
BY Zenon DEF Next, vars, Restart, Watcher, Loop, Scan, Writer, diskVars, dbVars, watchVars,
  HandleEvent, Stat, FlushPending, Send, Drop, TakeEvent, CheckHash, Parsed, Submitted,
  BranchSwitch, FilterChanged, SubmitSync, ScanDone, ScanFile, WorkerParsed, WorkerSubmitted,
  TakeJob, SyncDone, SkipJob, JobFails, DeleteFile, UpsertFile, DeleteChunks, InsertChunks, Edit,
  MakeDir, HandleDir, Overflow, LoopFails, ScanSkips, WorkerFails, ScanFails

------------------------------------------------------------------------------
(* Types *)

(* A file only ever gets further contents. *)
LEMMA HistGrows ==
  ASSUME Typed, [Next]_vars
  PROVE  /\ hist' \in [Files -> Seq(Texts \cup {Gone})]
         /\ \A f \in Files :
              /\ Version(f) \in Nat \ {0} /\ Version(f)' \in Nat \ {0}
              /\ Version(f)' >= Version(f)
              /\ \A v \in Nat : v <= Version(f) => Text(f, v)' = Text(f, v)
<1>0. /\ hist \in [Files -> Seq(Texts \cup {Gone})]
      /\ \A f \in Files : Version(f) \in Nat \ {0}
  BY DEF Typed, DiskTyped, Version
<1>1. CASE hist' = hist
  BY <1>0, <1>1 DEF Version, Text
<1>2. CASE \E f \in Files, t \in Texts \cup {Gone} : Edit(f, t)
  <2>1. PICK g \in Files, t \in Texts \cup {Gone} : Edit(g, t)
    BY <1>2
  <2>2. hist' = [hist EXCEPT ![g] = Append(@, t)]
    BY <2>1, Zenon DEF Edit
  <2>3. ASSUME NEW f \in Files
        PROVE  /\ hist'[f] \in Seq(Texts \cup {Gone})
               /\ Version(f)' \in Nat \ {0} /\ Version(f)' >= Version(f)
               /\ \A v \in Nat : v <= Version(f) => Text(f, v)' = Text(f, v)
    <3> DEFINE s == hist[f]
    <3>0. s \in Seq(Texts \cup {Gone}) /\ Len(s) \in Nat \ {0}
      BY <1>0 DEF Version
    <3>1. CASE f = g
      <4>1. hist'[f] = Append(s, t)
        BY <1>0, <2>2, <3>1
      <4>2. /\ Append(s, t) \in Seq(Texts \cup {Gone}) /\ Len(Append(s, t)) = Len(s) + 1
            /\ \A v \in 1..Len(s) : Append(s, t)[v] = s[v]
        BY <3>0
      <4>3. \A v \in Nat : v # 0 /\ v <= Len(s) => v \in 1..Len(s)
        BY <3>0
      <4> QED BY <3>0, <4>1, <4>2, <4>3 DEF Version, Text
    <3>2. CASE f # g
      <4>1. hist'[f] = s
        BY <1>0, <2>2, <3>2
      <4> QED BY <3>0, <4>1 DEF Version, Text
    <3> QED BY <3>1, <3>2
  <2>4. hist' \in [Files -> Seq(Texts \cup {Gone})]
    BY <1>0, <2>2, <2>3
  <2> QED BY <1>0, <2>3, <2>4
<1> QED BY <1>1, <1>2, DataSteps

(* A job stays one while files change. *)
LEMMA JobsStay ==
  ASSUME Typed, [Next]_vars, NEW j \in JobType
  PROVE  /\ IsEnrich(j) => j.file \in Files /\ j.ver \in Nat \ {0} /\ j.ver <= Version(j.file)'
         /\ IsEnrich(j) => j.kind = "enrich" /\ j.ver <= Version(j.file)
<1>1. j.ver \in Nat
  BY DEF JobType, Versions
<1> QED BY <1>1, HistGrows DEF IsEnrich

(* The rows and the chunks are of versions that the files have had. *)
LEMMA DiskTypedStep ==
  ASSUME Typed, LoopRight, WriterRight, [Next]_vars
  PROVE  DiskTyped'
<1>0. /\ row \in [Files -> Nat] /\ chunks \in [Files -> Nat]
      /\ \A f \in Files : row[f] <= Version(f) /\ chunks[f] <= Version(f)
      /\ restarts \in 0..MaxRestarts /\ lost \subseteq Files /\ torn \subseteq Files
      /\ writer \in RunType({"idle", "guard", "deleteChunks", "insertChunks"})
      /\ sending \in Events \cup {NoEvent}
  BY DEF Typed, DiskTyped, WatchTyped, PipeTyped
<1>1. writer.job \in JobType /\ writer.job.ver \in Nat
  BY <1>0 DEF RunType, JobType, Versions
<1>2. \A f \in Files : row[f] <= Version(f)' /\ chunks[f] <= Version(f)' /\ 0 <= Version(f)'
  BY <1>0, HistGrows
<1>3. row' \in [Files -> Nat] /\ \A f \in Files : row'[f] <= Version(f)'
  <2>1. CASE row' = row
    BY <1>0, <1>2, <2>1
  <2>2. CASE DeleteFile
    <3>1. row' = [row EXCEPT ![writer.job.file] = 0]
      BY <2>2, Zenon DEF DeleteFile
    <3> QED BY <1>0, <1>2, <3>1
  <2>3. CASE UpsertFile
    <3>1. /\ row' = [row EXCEPT ![writer.job.file] = writer.job.ver]
          /\ writer.pc = "guard" /\ writer.job.kind = "enrich"
      BY <2>3, Zenon DEF UpsertFile
    <3>2. IsEnrich(writer.job)
      BY <3>1 DEF WriterRight, IsJob
    <3> QED BY <1>0, <1>1, <1>2, <3>1, <3>2, JobsStay
  <2> QED BY <2>1, <2>2, <2>3, DataSteps
<1>4. chunks' \in [Files -> Nat] /\ \A f \in Files : chunks'[f] <= Version(f)'
  <2>1. CASE chunks' = chunks
    BY <1>0, <1>2, <2>1
  <2>2. CASE DeleteFile \/ DeleteChunks
    <3>1. chunks' = [chunks EXCEPT ![writer.job.file] = 0]
      BY <2>2, Zenon DEF DeleteFile, DeleteChunks
    <3> QED BY <1>0, <1>2, <3>1
  <2>3. CASE InsertChunks
    <3>1. /\ chunks' = [chunks EXCEPT ![writer.job.file] = writer.job.ver]
          /\ writer.pc = "insertChunks"
      BY <2>3, Zenon DEF InsertChunks
    <3>2. IsEnrich(writer.job)
      BY <3>1 DEF WriterRight, Halfway
    <3> QED BY <1>0, <1>1, <1>2, <3>1, <3>2, JobsStay
  <2> QED BY <2>1, <2>2, <2>3, DataSteps
<1>5. restarts' \in 0..MaxRestarts
  <2>1. CASE Restart
    <3>1. restarts < MaxRestarts /\ restarts' = restarts + 1
      BY <2>1, Zenon DEF Restart
    <3> QED BY <1>0, <3>1, Parameters
  <2> QED BY <1>0, <2>1, DataSteps
<1>6. lost' \subseteq Files
  <2>1. CASE \E f \in Files :
               \/ ScanFile(f) \/ Overflow(f) \/ ScanSkips(f) \/ WorkerFails(f)
               \/ \E t \in Texts \cup {Gone} : Edit(f, t)
    <3>1. PICK f \in Files :
            \/ ScanFile(f) \/ Overflow(f) \/ ScanSkips(f) \/ WorkerFails(f)
            \/ \E t \in Texts \cup {Gone} : Edit(f, t)
      BY <2>1
    <3>2. lost' \subseteq lost \cup {f}
      BY <3>1 DEF ScanFile, Edit, Overflow, ScanSkips, WorkerFails
    <3> QED BY <1>0, <3>2
  <2>2. CASE Drop
    <3>1. sending # NoEvent /\ lost' = lost \cup {sending.file}
      BY <2>2, Zenon DEF Drop
    <3> QED BY <1>0, <3>1 DEF Events
  <2>3. CASE JobFails
    <3>1. /\ lost' = lost \/ (writer.pc \notin Halfway /\ lost' = lost \cup {writer.job.file})
          /\ writer.pc # "idle" /\ writer.job.kind # "sync"
      BY <2>3, Zenon DEF JobFails
    <3>2. writer.job.file \in Files
      BY <1>0, <3>1 DEF WriterRight, IsJob, IsEnrich, RunType, Halfway
    <3> QED BY <1>0, <3>1, <3>2
  <2>4. CASE LoopFails
    <3>1. lost' = lost \cup {loop.job.file} /\ loop.job.file \in Files
      BY <2>4 DEF LoopFails, LoopRight, IsEnrich
    <3> QED BY <1>0, <3>1
  <2>5. CASE ScanFails
    <3>1. scan.todo \subseteq Files
      BY DEF Typed, PipeTyped, ScanType
    <3> QED BY <1>0, <2>5, <3>1 DEF ScanFails
  <2> QED BY <1>0, <2>1, <2>2, <2>3, <2>4, <2>5, MarkSteps
<1>7. torn' \subseteq Files
  <2>1. ASSUME writer.pc \in Halfway PROVE writer.job.file \in Files
    BY <2>1 DEF WriterRight, IsEnrich
  <2>2. torn' \subseteq torn \/ (writer.pc \in Halfway /\ torn' = torn \cup {writer.job.file})
    BY MarkSteps DEF Restart, DeleteFile, InsertChunks, JobFails
  <2> QED BY <1>0, <2>1, <2>2
<1> QED BY <1>3, <1>4, <1>5, <1>6, <1>7, HistGrows DEF DiskTyped

(* The watcher only knows files, and the channel of events holds its capacity. *)
LEMMA WatchTypedStep ==
  ASSUME Typed, [Next]_vars
  PROVE  WatchTyped'
<1>0. /\ OldDirs \subseteq dirs /\ dirs \subseteq Dirs /\ made \cup watched \subseteq dirs
      /\ raw \in [Files -> Nat]
      /\ pending \subseteq Files /\ emitting \subseteq Files
      /\ sending \in Events \cup {NoEvent} /\ signal \in BOOLEAN
      /\ events \in Seq(Events) /\ Len(events) <= EventCap
  BY DEF Typed, WatchTyped
<1> USE <1>0
<1>1. CASE UNCHANGED <<dirs, watchVars, events>>
  BY <1>1 DEF WatchTyped, watchVars
<1>2. CASE \E f \in Files, t \in Texts \cup {Gone} : Edit(f, t)
  <2>1. PICK f \in Files, t \in Texts \cup {Gone} : Edit(f, t)
    BY <1>2
  <2>2. /\ raw' = raw \/ raw' = [raw EXCEPT ![f] = @ + 1]
        /\ UNCHANGED <<dirs, watched, made, pending, emitting, sending, signal, events>>
    BY <2>1, Zenon DEF Edit
  <2> QED BY <2>2 DEF WatchTyped
<1>3. CASE Restart
  <2>1. /\ watched' = {} /\ made' = {} /\ dirs' = dirs /\ raw' = [f \in Files |-> 0]
        /\ pending' = {} /\ emitting' = {} /\ sending' = NoEvent /\ signal' = FALSE
        /\ events' = <<>>
    BY <1>3, Zenon DEF Restart
  <2>2. Len(<<>>) <= EventCap /\ <<>> \in Seq(Events)
    BY NothingSent, Parameters
  <2> QED BY <2>1, <2>2 DEF WatchTyped
<1>4. CASE \E f \in Files : HandleEvent(f)
  <2>1. PICK f \in Files : HandleEvent(f)
    BY <1>4
  <2> QED BY <2>1 DEF HandleEvent, WatchTyped, diskVars
<1>5. CASE \E f \in Files : Stat(f)
  <2>1. PICK f \in Files : Stat(f)
    BY <1>5
  <2>2. [file |-> f, type |-> IF Exists(f) THEN "modify" ELSE "delete"] \in Events
    BY DEF Events
  <2> QED BY <2>1, <2>2 DEF Stat, WatchTyped, diskVars
<1>6. CASE \E ready \in SUBSET pending : FlushPending(ready)
  BY <1>6 DEF FlushPending, WatchTyped, diskVars
<1>7. CASE Send
  <2>1. sending \in Events /\ Len(events) < EventCap
    BY <1>7 DEF Send
  <2>2. Append(events, sending) \in Seq(Events) /\ Len(Append(events, sending)) = Len(events) + 1
    BY <2>1
  <2> QED BY <1>7, <2>1, <2>2, Parameters DEF Send, WatchTyped, diskVars
<1>8. CASE Drop
  BY <1>8 DEF Drop, WatchTyped
<1>9. CASE TakeEvent
  <2>1. events' = Tail(events) /\ events # <<>> /\ UNCHANGED <<dirs, watchVars>>
    BY <1>9, Zenon DEF TakeEvent, diskVars
  <2>2. events' \in Seq(Events) /\ Len(events') = Len(events) - 1 /\ Len(events) \in Nat
    BY <2>1, Received
  <2> QED BY <2>1, <2>2, Parameters DEF WatchTyped, watchVars
<1>10. CASE BranchSwitch
  BY <1>10 DEF BranchSwitch, WatchTyped, diskVars
<1>11. CASE ScanDone
  BY <1>11 DEF ScanDone, WatchTyped, diskVars
<1>13. CASE \E f \in Files : Overflow(f)
  <2>1. PICK f \in Files : Overflow(f)
    BY <1>13
  <2> QED BY <2>1 DEF Overflow, WatchTyped
<1>14. CASE \E d \in Dirs : HandleDir(d)
  BY <1>14 DEF HandleDir, WatchTyped, diskVars
<1>15. CASE \E d \in Dirs : MakeDir(d)
  BY <1>15 DEF MakeDir, WatchTyped
<1>12. Watcher =>
         \/ \E f \in Files : HandleEvent(f)
         \/ \E f \in Files : Overflow(f)
         \/ \E d \in Dirs : HandleDir(d)
         \/ \E f \in Files : Stat(f)
         \/ \E ready \in SUBSET pending : FlushPending(ready)
         \/ Send \/ Drop
  BY Zenon DEF Watcher
<1> QED BY <1>1, <1>2, <1>3, <1>4, <1>5, <1>6, <1>7, <1>8, <1>9, <1>10, <1>11, <1>12,
           <1>13, <1>14, <1>15, WatchSteps

(* A timestamp changes nothing else of a job. *)
LEMMA Outdated ==
  ASSUME NEW f, NEW j \in JobType
  PROVE  /\ Outdate(f, j) \in JobType
         /\ Outdate(f, j).kind = j.kind /\ Outdate(f, j).file = j.file
         /\ Outdate(f, j).ver = j.ver
         /\ Outdate(f, j).older => j.older \/ j.file = f
         /\ IsJob(j) => IsJob(Outdate(f, j))
         /\ IsEnrich(j) => IsEnrich(Outdate(f, j))
<1>1. /\ Outdate(f, j) \in JobType
      /\ Outdate(f, j).kind = j.kind /\ Outdate(f, j).file = j.file
      /\ Outdate(f, j).ver = j.ver
      /\ Outdate(f, j).older => j.older \/ j.file = f
  BY DEF Outdate, JobType
<1> QED BY <1>1, Zenon DEF IsJob, IsEnrich

(* The queue when a row is written. *)
LEMMA QueueOutdated ==
  ASSUME NEW f, NEW q \in Seq(JobType)
  PROVE  /\ [n \in DOMAIN q |-> Outdate(f, q[n])] \in Seq(JobType)
         /\ DOMAIN [n \in DOMAIN q |-> Outdate(f, q[n])] = DOMAIN q
         /\ Range([n \in DOMAIN q |-> Outdate(f, q[n])]) = {Outdate(f, j) : j \in Range(q)}
<1>1. \A n \in DOMAIN q : q[n] \in JobType
  OBVIOUS
<1>2. \A n \in DOMAIN q : Outdate(f, q[n]) \in JobType
  BY <1>1, Outdated
<1>3. DOMAIN q = 1..Len(q) /\ Len(q) \in Nat
  OBVIOUS
<1>4. [n \in DOMAIN q |-> Outdate(f, q[n])] \in Seq(JobType)
  BY <1>2, <1>3
<1> QED BY <1>4 DEF Range

------------------------------------------------------------------------------
(* What the stages hold *)

(* The stages that are idle. *)
LEMMA IdleStages ==
  /\ IdleLoop.pc = "idle" /\ IdleLoop.job = NoJob
  /\ IdleWriter.pc = "idle" /\ IdleWriter.job = NoJob
  /\ \A pcs : "idle" \in pcs => IdleLoop \in RunType(pcs) /\ IdleWriter \in RunType(pcs)
  /\ \A pc : /\ Scanning(pc).pc = pc /\ Scanning(pc).todo = Files
             /\ Scanning(pc).made = {} /\ \A f \in Files : Scanning(pc).found[f] = 0
  /\ IdleScan.pc = "idle" /\ IdleScan.todo = {} /\ IdleScan.made = {}
  /\ \A f \in Files : IdleScan.found[f] = 0
  /\ Scanning("read") \in ScanType /\ IdleScan \in ScanType
  BY JobTypes DEF IdleLoop, IdleWriter, RunType, Scanning, IdleScan, ScanType

(* The next event, and the content of its file. *)
LEMMA TakeEffect ==
  ASSUME Typed, TakeEvent
  PROVE  \E e \in Events :
           /\ e = Head(events) /\ events' = Tail(events) /\ Range(events) = {e} \cup Range(events')
           /\ \/ e.type = "delete" /\ loop' = [pc |-> "submit", job |-> Delete(e.file)]
              \/ /\ e.type = "modify" /\ Exists(e.file)
                 /\ loop' = [pc |-> "check", job |-> Enrich(e.file, Version(e.file))]
              \/ e.type = "modify" /\ ~Exists(e.file) /\ loop' = IdleLoop
<1>1. events # <<>> /\ events' = Tail(events) /\ events \in Seq(Events)
  BY DEF TakeEvent, Typed, WatchTyped
<1>2. PICK e \in Events : e = Head(events) /\ Range(events) = {e} \cup Range(events')
  BY <1>1, Received
<1>3. e.type \in {"modify", "delete"}
  BY DEF Events
<1>4. \/ e.type = "delete" /\ loop' = [pc |-> "submit", job |-> Delete(e.file)]
      \/ /\ e.type = "modify" /\ Exists(e.file)
         /\ loop' = [pc |-> "check", job |-> Enrich(e.file, Version(e.file))]
      \/ e.type = "modify" /\ ~Exists(e.file) /\ loop' = IdleLoop
  BY <1>2, <1>3 DEF TakeEvent
<1> QED BY <1>1, <1>2, <1>4

(* What a step leaves in the event loop. *)
LEMMA LoopEffects ==
  ASSUME Typed, [Next]_vars
  PROVE  \/ loop' = loop
         \/ loop' = IdleLoop
         \/ TakeEvent
         \/ /\ CheckHash \/ Parsed
            /\ loop'.job = loop.job /\ loop'.pc # "idle"
            /\ loop'.pc \in {"parse", "submit"} /\ loop.pc \in {"check", "parse"}
            /\ loop' \in RunType({"idle", "check", "parse", "submit"})
         \/ /\ UpsertFile /\ loop.pc = "submit" /\ loop'.pc = "submit"
            /\ loop'.job = Outdate(writer.job.file, loop.job)
            /\ loop' \in RunType({"idle", "check", "parse", "submit"})
<1>0. loop \in RunType({"idle", "check", "parse", "submit"})
  BY DEF Typed, PipeTyped
<1>1. CASE Restart
  BY <1>1 DEF Restart
<1>2. CASE CheckHash
  BY <1>0, <1>2 DEF CheckHash, RunType
<1>3. CASE Parsed
  BY <1>0, <1>3 DEF Parsed, RunType
<1>4. CASE Submitted \/ LoopFails
  BY <1>4 DEF Submitted, LoopFails
<1>5. CASE UpsertFile
  <2>1. loop' = IF loop.pc = "submit"
                  THEN [loop EXCEPT !.job = Outdate(writer.job.file, @)] ELSE loop
    BY <1>5, Zenon DEF UpsertFile
  <2>2. loop.job \in JobType
    BY <1>0 DEF RunType
  <2>3. Outdate(writer.job.file, loop.job) \in JobType
    BY <2>2, Outdated
  <2> QED BY <1>0, <1>5, <2>1, <2>3 DEF RunType
<1> QED BY <1>1, <1>2, <1>3, <1>4, <1>5, PipeSteps DEF Loop

(* What a job needs to be of its file, next to the file's number of contents. *)
LEMMA JobsKeep ==
  ASSUME Typed, [Next]_vars, NEW j \in JobType
  PROVE  (IsEnrich(j) => IsEnrich(j)') /\ (IsJob(j) => IsJob(j)')
<1>1. IsEnrich(j) => IsEnrich(j)'
  BY JobsStay DEF IsEnrich
<1> QED BY <1>1 DEF IsJob

(* What was read just now is a version of the file. *)
LEMMA LastContent ==
  ASSUME Typed, NEW f \in Files
  PROVE  /\ Version(f) \in Nat \ {0} /\ Enrich(f, Version(f)) \in JobType
         /\ IsEnrich(Enrich(f, Version(f)))
         /\ Text(f, Version(f)) = Last(hist[f])
         /\ IsJob(Delete(f)) /\ Delete(f) \in JobType
<1>1. Version(f) \in Nat \ {0}
  BY DEF Typed, DiskTyped, Version
<1> QED BY <1>1, JobTypes DEF IsEnrich, IsJob, Text, Last, Version

(* The event loop's job is of its file. *)
LEMMA LoopStep ==
  ASSUME Typed, LoopRight, [Next]_vars
  PROVE  loop' \in RunType({"idle", "check", "parse", "submit"}) /\ LoopRight'
<1> DEFINE pcs == {"idle", "check", "parse", "submit"}
<1> DEFINE Right(l) ==
      /\ l \in RunType(pcs)
      /\ l.pc = "idle" => l = IdleLoop
      /\ l.pc \in {"check", "parse"} => IsEnrich(l.job)
      /\ l.pc = "submit" => IsJob(l.job) /\ l.job.kind # "sync"
<1>0. Right(loop) /\ loop.job \in JobType
  BY DEF Typed, PipeTyped, RunType, LoopRight
<1>1. \E l : l = loop' /\ Right(l)'
  <2>1. CASE loop' = loop
    <3>1. PICK l : l = loop
      OBVIOUS
    <3>2. l = loop' /\ l.job \in JobType /\ Right(l)
      BY <1>0, <2>1, <3>1
    <3>3. Right(l)'
      BY <3>2, JobsKeep DEF JobType
    <3> QED BY <3>2, <3>3
  <2>2. CASE loop' = IdleLoop
    <3>1. Right(IdleLoop)'
      BY IdleStages
    <3> QED BY <2>2, <3>1
  <2>3. CASE TakeEvent
    <3>1. PICK e \in Events :
            \/ loop' = [pc |-> "submit", job |-> Delete(e.file)]
            \/ loop' = [pc |-> "check", job |-> Enrich(e.file, Version(e.file))]
            \/ loop' = IdleLoop
      BY <2>3, TakeEffect
    <3>2. e.file \in Files
      BY DEF Events
    <3>3. PICK v : v = Version(e.file)
      OBVIOUS
    <3>4. /\ Enrich(e.file, v) \in JobType /\ Delete(e.file) \in JobType
          /\ IsEnrich(Enrich(e.file, v)) /\ IsJob(Delete(e.file))
      BY <3>2, <3>3, LastContent
    <3>5. IsEnrich(Enrich(e.file, v))' /\ IsJob(Delete(e.file))'
      BY <3>4, JobsKeep
    <3>6. CASE loop' = [pc |-> "submit", job |-> Delete(e.file)]
      <4>1. Right([pc |-> "submit", job |-> Delete(e.file)])'
        BY <3>4, <3>5, JobTypes DEF RunType
      <4> QED BY <3>6, <4>1
    <3>7. CASE loop' = [pc |-> "check", job |-> Enrich(e.file, Version(e.file))]
      <4>1. Right([pc |-> "check", job |-> Enrich(e.file, v)])'
        BY <3>4, <3>5, JobTypes DEF RunType
      <4> QED BY <3>3, <3>7, <4>1
    <3>8. CASE loop' = IdleLoop
      <4>1. Right(IdleLoop)'
        BY IdleStages
      <4> QED BY <3>8, <4>1
    <3> QED BY <3>1, <3>6, <3>7, <3>8
  <2>4. CASE /\ loop'.job = loop.job /\ loop'.pc # "idle"
             /\ loop'.pc \in {"parse", "submit"} /\ loop.pc \in {"check", "parse"}
             /\ loop' \in RunType(pcs)
    <3>1. PICK l, j : l = loop' /\ j = loop.job
      OBVIOUS
    <3>2. l.job = j /\ l \in RunType(pcs) /\ l.pc \in {"parse", "submit"}
      BY <2>4, <3>1
    <3>3. IsEnrich(j) /\ j \in JobType
      BY <1>0, <2>4, <3>1
    <3>4. IsEnrich(j)' /\ j.kind = "enrich"
      BY <3>3, JobsKeep DEF IsEnrich
    <3>5. Right(l)'
      BY <3>2, <3>4 DEF IsJob
    <3> QED BY <3>1, <3>5
  <2>5. CASE /\ UpsertFile /\ loop.pc = "submit" /\ loop'.pc = "submit"
             /\ loop'.job = Outdate(writer.job.file, loop.job)
             /\ loop' \in RunType(pcs)
    <3>1. PICK l, j, f : l = loop' /\ j = loop.job /\ f = writer.job.file
      OBVIOUS
    <3>2. l.job = Outdate(f, j) /\ l \in RunType(pcs) /\ l.pc = "submit"
      BY <2>5, <3>1
    <3>3. IsJob(j) /\ j.kind # "sync" /\ j \in JobType
      BY <1>0, <2>5, <3>1
    <3>4. IsJob(Outdate(f, j)) /\ Outdate(f, j).kind # "sync" /\ Outdate(f, j) \in JobType
      BY <3>3, Outdated
    <3>5. IsJob(Outdate(f, j))'
      BY <3>4, JobsKeep
    <3>6. Right(l)'
      BY <3>2, <3>4, <3>5
    <3> QED BY <3>1, <3>6
  <2> QED BY <2>1, <2>2, <2>3, <2>4, <2>5, LoopEffects
<1> QED BY <1>1, Zenon DEF LoopRight

(* The sync job. *)
SyncJob == [NoJob EXCEPT !.kind = "sync"]

(* A step that sends a job to the writer. *)
Sending(j) ==
  \/ Submitted /\ j = loop.job
  \/ WorkerSubmitted(j)
  \/ SubmitSync /\ j = SyncJob

(* What a step leaves in the writer's queue. *)
LEMMA QueueEffects ==
  ASSUME Typed, [Next]_vars
  PROVE  /\ queue' \in Seq(JobType)
         /\ \/ queue' = queue
            \/ Restart /\ queue' = <<>>
            \/ \E j \in JobType :
                 /\ Sending(j)
                 /\ queue' = Append(queue, j) /\ Range(queue') = Range(queue) \cup {j}
            \/ \E j \in JobType :
                 /\ TakeJob /\ j = Head(queue)
                 /\ queue # <<>> /\ queue' = Tail(queue) /\ Range(queue) = {j} \cup Range(queue')
            \/ /\ UpsertFile
               /\ queue' = [n \in DOMAIN queue |-> Outdate(writer.job.file, queue[n])]
               /\ Range(queue') = {Outdate(writer.job.file, j) : j \in Range(queue)}
<1>0. queue \in Seq(JobType) /\ loop.job \in JobType /\ scan.made \subseteq JobType
  BY DEF Typed, PipeTyped, RunType, ScanType
<1>1. CASE Restart
  BY <1>1, NothingSent DEF Restart
<1>2. CASE Submitted
  <2>1. queue' = Append(queue, loop.job)
    BY <1>2, Zenon DEF Submitted
  <2> QED BY <1>0, <1>2, <2>1, Sent DEF Sending
<1>3. CASE \E j \in scan.made : WorkerSubmitted(j)
  <2>1. PICK j \in scan.made : WorkerSubmitted(j)
    BY <1>3
  <2>2. queue' = Append(queue, j) /\ j \in JobType
    BY <1>0, <2>1, Zenon DEF WorkerSubmitted
  <2> QED BY <1>0, <2>1, <2>2, Sent DEF Sending
<1>4. CASE SubmitSync
  <2>1. queue' = Append(queue, SyncJob) /\ SyncJob \in JobType
    BY <1>4, JobTypes DEF SubmitSync, SyncJob
  <2> QED BY <1>0, <1>4, <2>1, Sent DEF Sending
<1>5. CASE TakeJob
  <2>1. queue # <<>> /\ queue' = Tail(queue)
    BY <1>5, Zenon DEF TakeJob
  <2> QED BY <1>0, <1>5, <2>1, Received
<1>6. CASE UpsertFile
  <2>1. queue' = [n \in DOMAIN queue |-> Outdate(writer.job.file, queue[n])]
    BY <1>6, Zenon DEF UpsertFile
  <2> QED BY <1>0, <1>6, <2>1, QueueOutdated
<1> QED BY <1>0, <1>1, <1>2, <1>3, <1>4, <1>5, <1>6, PipeSteps

(* Every job in the queue is of its file. *)
LEMMA QueueStep ==
  ASSUME Typed, LoopRight, ScanRight, QueueRight, [Next]_vars
  PROVE  queue' \in Seq(JobType) /\ QueueRight'
<1>0. Range(queue) \subseteq JobType
  BY DEF Typed, PipeTyped, Range
<1>1. \E q : q = Range(queue') /\ q \subseteq JobType /\ \A j \in q : IsJob(j)
  <2>1. CASE queue' = queue
    BY <1>0, <2>1 DEF QueueRight
  <2>2. CASE queue' = <<>>
    BY <2>2, NothingSent
  <2>3. CASE \E j \in JobType :
               /\ Sending(j)
               /\ queue' = Append(queue, j) /\ Range(queue') = Range(queue) \cup {j}
    <3>1. PICK j \in JobType :
            /\ Sending(j)
            /\ Range(queue') = Range(queue) \cup {j}
      BY <2>3
    <3>2. IsJob(j)
      BY <3>1, JobTypes DEF Sending, Submitted, LoopRight, WorkerSubmitted, ScanRight, SyncJob, IsJob
    <3> QED BY <1>0, <3>1, <3>2 DEF QueueRight
  <2>4. CASE \E j \in JobType : Range(queue) = {j} \cup Range(queue')
    BY <1>0, <2>4 DEF QueueRight
  <2>5. CASE Range(queue') = {Outdate(writer.job.file, j) : j \in Range(queue)}
    <3>1. \A j \in Range(queue) : /\ Outdate(writer.job.file, j) \in JobType
                                  /\ IsJob(Outdate(writer.job.file, j))
      BY <1>0, Outdated DEF QueueRight
    <3> QED BY <2>5, <3>1
  <2> QED BY <2>1, <2>2, <2>3, <2>4, <2>5, QueueEffects
<1>2. PICK q : q = Range(queue') /\ q \subseteq JobType /\ \A j \in q : IsJob(j)
  BY <1>1
<1>3. \A j \in q : IsJob(j)'
  BY <1>2, JobsKeep
<1> QED BY <1>2, <1>3, QueueEffects, Zenon DEF QueueRight

(* What a step leaves in the writer. *)
LEMMA WriterEffects ==
  ASSUME Typed, [Next]_vars
  PROVE  \/ writer' = writer /\ (row' = row \/ writer.pc = "guard")
         \/ writer' = IdleWriter
         \/ \E j \in Range(queue) :
              /\ TakeJob /\ j = Head(queue) /\ j \in JobType
              /\ writer' = [pc |-> "guard", job |-> j] /\ writer.pc = "idle"
         \/ /\ UpsertFile /\ writer.pc = "guard" /\ writer.job.kind = "enrich"
            /\ writer' = [pc |-> "deleteChunks", job |-> writer.job]
            /\ row' = [row EXCEPT ![writer.job.file] = writer.job.ver]
         \/ /\ DeleteChunks /\ writer.pc = "deleteChunks" /\ row' = row
            /\ writer' = [pc |-> "insertChunks", job |-> writer.job]
<1>0. /\ writer \in RunType({"idle", "guard", "deleteChunks", "insertChunks"})
      /\ queue \in Seq(JobType)
  BY DEF Typed, PipeTyped
<1>1. CASE writer' = writer
  BY <1>1, DataSteps DEF DeleteFile, UpsertFile
<1>2. CASE Restart \/ SyncDone \/ DeleteFile \/ SkipJob \/ InsertChunks \/ JobFails
  <2>1. writer' = IdleWriter
    BY <1>2, Zenon DEF Restart, SyncDone, DeleteFile, SkipJob, InsertChunks, JobFails
  <2> QED BY <2>1
<1>3. CASE TakeJob
  <2>1. /\ queue # <<>> /\ writer' = [pc |-> "guard", job |-> Head(queue)]
        /\ writer.pc = "idle"
    BY <1>3, Zenon DEF TakeJob
  <2>2. Head(queue) \in JobType /\ Head(queue) \in Range(queue)
    BY <1>0, <2>1, Received
  <2> QED BY <1>3, <2>1, <2>2
<1>4. CASE UpsertFile
  <2>1. /\ writer' = [writer EXCEPT !.pc = "deleteChunks"]
        /\ writer.pc = "guard" /\ writer.job.kind = "enrich"
        /\ row' = [row EXCEPT ![writer.job.file] = writer.job.ver]
    BY <1>4, Zenon DEF UpsertFile
  <2> QED BY <1>0, <1>4, <2>1 DEF RunType
<1>5. CASE DeleteChunks
  <2>1. /\ writer' = [writer EXCEPT !.pc = "insertChunks"]
        /\ writer.pc = "deleteChunks" /\ row' = row
    BY <1>5, Zenon DEF DeleteChunks
  <2> QED BY <1>0, <1>5, <2>1 DEF RunType
<1> QED BY <1>1, <1>2, <1>3, <1>4, <1>5, PipeSteps DEF Writer

(* The writer's job is of its file, and half way through it the row is of it. *)
LEMMA WriterStep ==
  ASSUME Typed, QueueRight, WriterRight, [Next]_vars
  PROVE  /\ writer' \in RunType({"idle", "guard", "deleteChunks", "insertChunks"})
         /\ WriterRight'
<1> DEFINE pcs == {"idle", "guard", "deleteChunks", "insertChunks"}
<1> DEFINE Right(w) ==
      /\ w \in RunType(pcs)
      /\ w.pc = "idle" => w = IdleWriter
      /\ w.pc = "guard" => IsJob(w.job)
      /\ w.pc \in Halfway => IsEnrich(w.job) /\ row[w.job.file] = w.job.ver
<1>0. PICK w : w = writer
  OBVIOUS
<1>1. Right(w) /\ w.job \in JobType /\ row \in [Files -> Nat]
  BY <1>0 DEF Typed, PipeTyped, DiskTyped, RunType, WriterRight
<1>2. (IsEnrich(w.job) => IsEnrich(w.job)') /\ (IsJob(w.job) => IsJob(w.job)')
  BY <1>1, JobsKeep
<1>3. \E x : x = writer' /\ Right(x)'
  <2>1. CASE writer' = writer /\ (row' = row \/ writer.pc = "guard")
    <3>1. Right(w)'
      BY <1>0, <1>1, <1>2, <2>1 DEF Halfway
    <3> QED BY <1>0, <2>1, <3>1
  <2>2. CASE writer' = IdleWriter
    <3>1. Right(IdleWriter)'
      BY IdleStages DEF Halfway
    <3> QED BY <2>2, <3>1
  <2>3. CASE \E j \in Range(queue) : j \in JobType /\ writer' = [pc |-> "guard", job |-> j]
    <3>1. PICK j \in Range(queue) : j \in JobType /\ writer' = [pc |-> "guard", job |-> j]
      BY <2>3
    <3>2. IsJob(j)'
      BY <3>1, JobsKeep DEF QueueRight
    <3>3. Right([pc |-> "guard", job |-> j])'
      BY <3>1, <3>2 DEF RunType, Halfway
    <3> QED BY <3>1, <3>3
  <2>4. CASE /\ writer.pc = "guard" /\ writer.job.kind = "enrich"
             /\ writer' = [pc |-> "deleteChunks", job |-> writer.job]
             /\ row' = [row EXCEPT ![writer.job.file] = writer.job.ver]
    <3>1. IsEnrich(w.job) /\ w.job.file \in Files
      BY <1>0, <1>1, <2>4 DEF IsJob, IsEnrich
    <3>2. row'[w.job.file] = w.job.ver
      BY <1>0, <1>1, <2>4, <3>1
    <3>3. Right([pc |-> "deleteChunks", job |-> w.job])'
      BY <1>1, <1>2, <3>1, <3>2 DEF RunType, Halfway
    <3> QED BY <1>0, <2>4, <3>3
  <2>5. CASE /\ writer.pc = "deleteChunks" /\ row' = row
             /\ writer' = [pc |-> "insertChunks", job |-> writer.job]
    <3>1. Right([pc |-> "insertChunks", job |-> w.job])'
      BY <1>0, <1>1, <1>2, <2>5 DEF RunType, Halfway
    <3> QED BY <1>0, <2>5, <3>1
  <2> QED BY <2>1, <2>2, <2>3, <2>4, <2>5, WriterEffects
<1> QED BY <1>3, Zenon DEF WriterRight

(* A step of the scan that leaves some of its parts alone. *)
ScanMoves(pc, todo, found, jobs) ==
  /\ scan'.pc = pc /\ scan'.todo = todo /\ scan'.found = found /\ scan'.made = jobs

(* What ScanRepo has read of a file whose hash is the database's is forgotten. *)
Filtered ==
  /\ scan.pc = "read" /\ scan.todo = {} /\ scan'.todo = {} /\ scan'.made = scan.made
  /\ scan'.pc \in {"work", "embed"}
  /\ \A f \in Files :
       \/ scan'.found[f] = scan.found[f] /\ (scan'.pc = "embed" => scan.found[f] = 0)
       \/ scan'.found[f] = 0 /\ SameHash(Enrich(f, scan.found[f]))

(* filterChanged keeps the paths whose content the database does not have. *)
LEMMA FilterEffect ==
  ASSUME Typed, FilterChanged
  PROVE  scan' \in ScanType /\ Filtered
<1> DEFINE changed(f) == scan.found[f] # 0 /\ ~SameHash(Enrich(f, scan.found[f]))
<1> DEFINE kept == [f \in Files |-> IF changed(f) THEN scan.found[f] ELSE 0]
<1> DEFINE pc == IF \E f \in Files : changed(f) THEN "work" ELSE "embed"
<1>0. scan \in ScanType
  BY DEF Typed, PipeTyped
<1>1. /\ scan.pc = "read" /\ scan.todo = {}
      /\ scan' = [scan EXCEPT !.pc = pc, !.found = kept]
  BY DEF FilterChanged
<1>2. kept \in [Files -> Nat] /\ pc \in {"work", "embed"}
  BY <1>0 DEF ScanType
<1>3. \A f \in Files : \/ kept[f] = scan.found[f] /\ (pc = "embed" => scan.found[f] = 0)
                       \/ kept[f] = 0 /\ SameHash(Enrich(f, scan.found[f]))
  OBVIOUS
<1> HIDE DEF kept, pc
<1>4. scan' \in ScanType /\ scan'.pc = pc /\ scan'.found = kept
      /\ scan'.todo = scan.todo /\ scan'.made = scan.made
  BY <1>0, <1>1, <1>2 DEF ScanType
<1> QED BY <1>1, <1>2, <1>3, <1>4 DEF Filtered

(* What the scan does. *)
LEMMA ScanActs ==
  ASSUME Typed, Scan
  PROVE  /\ scan' \in ScanType
         /\ \/ BranchSwitch /\ scan.pc = "idle" /\ scan' = Scanning("read")
            \/ \E f \in Files :
                 /\ ScanFile(f) /\ scan.pc = "read"
                 /\ ScanMoves("read", scan.todo \ {f},
                      [scan.found EXCEPT ![f] = IF Exists(f) THEN Version(f) ELSE 0], scan.made)
            \/ FilterChanged /\ Filtered
            \/ \E f \in Files :
                 /\ WorkerParsed(f) /\ scan.pc = "work" /\ scan.found[f] # 0
                 /\ ScanMoves("work", scan.todo, [scan.found EXCEPT ![f] = 0],
                      scan.made \cup {Enrich(f, scan.found[f])})
            \/ \E j \in scan.made :
                 /\ WorkerSubmitted(j)
                 /\ ScanMoves(scan.pc, scan.todo, scan.found, scan.made \ {j})
            \/ /\ SubmitSync /\ scan.pc = "work" /\ scan.made = {}
               /\ \A f \in Files : scan.found[f] = 0
               /\ ScanMoves("wait", scan.todo, scan.found, scan.made)
            \/ ScanDone /\ scan.pc = "embed" /\ scan' = IdleScan
            \/ \E f \in Files :
                 /\ ScanSkips(f) /\ scan.pc = "read"
                 /\ ScanMoves("read", scan.todo \ {f}, scan.found, scan.made)
            \/ \E f \in Files :
                 /\ WorkerFails(f) /\ scan.pc = "work"
                 /\ ScanMoves("work", scan.todo, [scan.found EXCEPT ![f] = 0], scan.made)
            \/ ScanFails /\ scan.pc \in {"read", "embed"} /\ scan' = IdleScan
<1>0. /\ scan \in ScanType
      /\ \A f \in Files : Version(f) \in Nat /\ Enrich(f, scan.found[f]) \in JobType
  <2>1. scan \in ScanType /\ \A f \in Files : Version(f) \in Nat
    BY LastContent DEF Typed, PipeTyped
  <2> QED BY <2>1, JobTypes DEF ScanType
<1>1. CASE BranchSwitch
  <2>1. scan.pc = "idle" /\ scan' = Scanning("read")
    BY <1>1, Zenon DEF BranchSwitch
  <2> QED BY <1>1, <2>1, IdleStages
<1>2. CASE \E f \in Files : ScanFile(f)
  <2>1. PICK f \in Files : ScanFile(f)
    BY <1>2
  <2> DEFINE v == IF Exists(f) THEN Version(f) ELSE 0
  <2>2. scan.pc = "read" /\ scan' = [scan EXCEPT !.todo = @ \ {f}, !.found[f] = v]
    BY <2>1, Zenon DEF ScanFile
  <2>3. v \in Nat
    BY <1>0
  <2> HIDE DEF v
  <2>4. /\ scan' \in ScanType
        /\ ScanMoves("read", scan.todo \ {f}, [scan.found EXCEPT ![f] = v], scan.made)
    BY <1>0, <2>2, <2>3 DEF ScanType, ScanMoves
  <2> QED BY <2>1, <2>2, <2>4 DEF v
<1>3. CASE FilterChanged
  BY <1>3, FilterEffect
<1>4. CASE \E f \in Files : WorkerParsed(f)
  <2>1. PICK f \in Files : WorkerParsed(f)
    BY <1>4
  <2> DEFINE j == Enrich(f, scan.found[f])
  <2>2. /\ scan.pc = "work" /\ scan.found[f] # 0
        /\ scan' = [scan EXCEPT !.found[f] = 0, !.made = @ \cup {j}]
    BY <2>1, Zenon DEF WorkerParsed
  <2>3. j \in JobType
    BY <1>0
  <2> HIDE DEF j
  <2>4. /\ scan' \in ScanType
        /\ ScanMoves("work", scan.todo, [scan.found EXCEPT ![f] = 0], scan.made \cup {j})
    BY <1>0, <2>2, <2>3 DEF ScanType, ScanMoves
  <2> QED BY <2>1, <2>2, <2>4 DEF j
<1>5. CASE \E j \in scan.made : WorkerSubmitted(j)
  <2>1. PICK j \in scan.made : WorkerSubmitted(j)
    BY <1>5
  <2>2. scan' = [scan EXCEPT !.made = @ \ {j}]
    BY <2>1, Zenon DEF WorkerSubmitted
  <2>3. scan' \in ScanType /\ ScanMoves(scan.pc, scan.todo, scan.found, scan.made \ {j})
    BY <1>0, <2>2 DEF ScanType, ScanMoves
  <2> QED BY <2>1, <2>3
<1>6. CASE SubmitSync
  <2>1. /\ scan.pc = "work" /\ scan.made = {} /\ \A f \in Files : scan.found[f] = 0
        /\ scan' = [scan EXCEPT !.pc = "wait"]
    BY <1>6, Zenon DEF SubmitSync
  <2>2. scan' \in ScanType /\ ScanMoves("wait", scan.todo, scan.found, scan.made)
    BY <1>0, <2>1 DEF ScanType, ScanMoves
  <2> QED BY <1>6, <2>1, <2>2
<1>7. CASE ScanDone
  BY <1>7, IdleStages DEF ScanDone
<1>8. CASE ScanFails
  BY <1>8, IdleStages DEF ScanFails
<1>9. CASE \E f \in Files : ScanSkips(f)
  <2>1. PICK f \in Files : ScanSkips(f)
    BY <1>9
  <2>2. scan.pc = "read" /\ scan' = [scan EXCEPT !.todo = @ \ {f}]
    BY <2>1, Zenon DEF ScanSkips
  <2>3. /\ scan' \in ScanType
        /\ ScanMoves("read", scan.todo \ {f}, scan.found, scan.made)
    BY <1>0, <2>2 DEF ScanType, ScanMoves
  <2> QED BY <2>1, <2>2, <2>3
<1>10. CASE \E f \in Files : WorkerFails(f)
  <2>1. PICK f \in Files : WorkerFails(f)
    BY <1>10
  <2>2. scan.pc = "work" /\ scan' = [scan EXCEPT !.found[f] = 0]
    BY <2>1, Zenon DEF WorkerFails
  <2>3. /\ scan' \in ScanType
        /\ ScanMoves("work", scan.todo, [scan.found EXCEPT ![f] = 0], scan.made)
    BY <1>0, <2>2 DEF ScanType, ScanMoves
  <2> QED BY <2>1, <2>2, <2>3
<1>11. Scan =>
         \/ BranchSwitch \/ FilterChanged \/ SubmitSync \/ ScanDone \/ ScanFails
         \/ \E f \in Files : ScanFile(f)
         \/ \E f \in Files : ScanSkips(f)
         \/ \E f \in Files : WorkerParsed(f)
         \/ \E f \in Files : WorkerFails(f)
         \/ \E j \in scan.made : WorkerSubmitted(j)
  BY Zenon DEF Scan
<1> QED BY <1>1, <1>2, <1>3, <1>4, <1>5, <1>6, <1>7, <1>8, <1>9, <1>10, <1>11

(* What a step leaves of the scan. *)
LEMMA ScanEffects ==
  ASSUME Typed, ScanRight, SyncsRight, [Next]_vars
  PROVE  /\ scan' \in ScanType
         /\ \/ scan' = scan
            \/ (Restart \/ scan.pc = "idle") /\ scan' = Scanning("read")
            \/ \E f \in Files :
                 /\ ScanFile(f) /\ scan.pc = "read"
                 /\ ScanMoves("read", scan.todo \ {f},
                      [scan.found EXCEPT ![f] = IF Exists(f) THEN Version(f) ELSE 0], scan.made)
            \/ Filtered
            \/ \E f \in Files :
                 /\ WorkerParsed(f) /\ scan.pc = "work" /\ scan.found[f] # 0
                 /\ ScanMoves("work", scan.todo, [scan.found EXCEPT ![f] = 0],
                      scan.made \cup {Enrich(f, scan.found[f])})
            \/ \E j \in scan.made :
                 /\ WorkerSubmitted(j)
                 /\ ScanMoves(scan.pc, scan.todo, scan.found, scan.made \ {j})
            \/ /\ SubmitSync /\ scan.pc = "work" /\ scan.made = {}
               /\ \A f \in Files : scan.found[f] = 0
               /\ ScanMoves("wait", scan.todo, scan.found, scan.made)
            \/ ScanDone /\ scan.pc = "embed" /\ scan' = IdleScan
            \/ \E f \in Files :
                 /\ ScanSkips(f) /\ scan.pc = "read"
                 /\ ScanMoves("read", scan.todo \ {f}, scan.found, scan.made)
            \/ \E f \in Files :
                 /\ WorkerFails(f) /\ scan.pc = "work"
                 /\ ScanMoves("work", scan.todo, [scan.found EXCEPT ![f] = 0], scan.made)
            \/ ScanFails /\ scan.pc \in {"read", "embed"} /\ scan' = IdleScan
            \/ /\ SyncDone /\ scan.pc = "wait"
               /\ ScanMoves("embed", scan.todo, scan.found, scan.made)
            \/ /\ UpsertFile
               /\ ScanMoves(scan.pc, scan.todo, scan.found,
                    {Outdate(writer.job.file, j) : j \in scan.made})
<1>0. scan \in ScanType
  BY DEF Typed, PipeTyped
<1>1. CASE Restart
  <2>1. scan' = Scanning("read")
    BY <1>1, Zenon DEF Restart
  <2> QED BY <1>1, <2>1, IdleStages
<1>2. CASE Scan
  BY <1>2, ScanActs
<1>3. CASE SyncDone
  <2>1. scan' = [scan EXCEPT !.pc = "embed"] /\ writer.job.kind = "sync"
    BY <1>3, Zenon DEF SyncDone
  <2>2. scan' \in ScanType /\ ScanMoves("embed", scan.todo, scan.found, scan.made)
    BY <1>0, <2>1 DEF ScanType, ScanMoves
  <2> QED BY <1>3, <2>1, <2>2 DEF SyncsRight
<1>4. CASE UpsertFile
  <2> DEFINE older == {Outdate(writer.job.file, j) : j \in scan.made}
  <2>1. scan' = [scan EXCEPT !.made = older]
    BY <1>4, Zenon DEF UpsertFile
  <2>2. older \subseteq JobType
    BY <1>0, Outdated DEF ScanType
  <2> HIDE DEF older
  <2>3. scan' \in ScanType /\ ScanMoves(scan.pc, scan.todo, scan.found, older)
    BY <1>0, <2>1, <2>2 DEF ScanType, ScanMoves
  <2> QED BY <1>4, <2>3 DEF older
<1>5. CASE scan' = scan
  BY <1>0, <1>5
<1> QED BY <1>1, <1>2, <1>3, <1>4, <1>5, PipeSteps

(* The scan holds versions that the files have had, and only while it works. *)
LEMMA ScanStep ==
  ASSUME Typed, ScanRight, SyncsRight, [Next]_vars
  PROVE  scan' \in ScanType /\ ScanRight'
<1> DEFINE Right(s) ==
      /\ \A f \in Files : s.found[f] <= Version(f)
      /\ \A j \in s.made : IsEnrich(j)
      /\ s.pc # "read" => s.todo = {}
      /\ s.pc # "work" => s.made = {}
      /\ s.pc \notin {"read", "work"} => \A f \in Files : s.found[f] = 0
<1>0. /\ scan \in ScanType /\ Right(scan) /\ scan.found \in [Files -> Nat]
      /\ \A f \in Files : Version(f) \in Nat \ {0} /\ IsEnrich(Enrich(f, Version(f)))
  BY LastContent DEF Typed, PipeTyped, ScanRight, ScanType
<1>1. PICK s : s = scan'
  OBVIOUS
<1>2. Right(s)
  <2>1. CASE scan' = scan
    BY <1>0, <1>1, <2>1
  <2>2. CASE scan' = Scanning("read") \/ scan' = IdleScan
    BY <1>0, <1>1, <2>2, IdleStages
  <2>3. CASE \E f \in Files :
               /\ scan.pc = "read"
               /\ ScanMoves("read", scan.todo \ {f},
                    [scan.found EXCEPT ![f] = IF Exists(f) THEN Version(f) ELSE 0], scan.made)
    BY <1>0, <1>1, <2>3 DEF ScanMoves
  <2>4. CASE Filtered
    BY <1>0, <1>1, <2>4 DEF Filtered
  <2>5. CASE \E f \in Files :
               /\ scan.pc = "work" /\ scan.found[f] # 0
               /\ ScanMoves("work", scan.todo, [scan.found EXCEPT ![f] = 0],
                    scan.made \cup {Enrich(f, scan.found[f])})
    <3>1. PICK f \in Files :
            /\ scan.pc = "work" /\ scan.found[f] # 0
            /\ ScanMoves("work", scan.todo, [scan.found EXCEPT ![f] = 0],
                 scan.made \cup {Enrich(f, scan.found[f])})
      BY <2>5
    <3>2. IsEnrich(Enrich(f, scan.found[f]))
      BY <1>0, <3>1, JobTypes DEF IsEnrich
    <3> QED BY <1>0, <1>1, <3>1, <3>2 DEF ScanMoves
  <2>6. CASE \E j \in scan.made : ScanMoves(scan.pc, scan.todo, scan.found, scan.made \ {j})
    BY <1>0, <1>1, <2>6 DEF ScanMoves
  <2>7. CASE /\ scan.pc = "work" /\ scan.made = {} /\ \A f \in Files : scan.found[f] = 0
             /\ ScanMoves("wait", scan.todo, scan.found, scan.made)
    BY <1>0, <1>1, <2>7 DEF ScanMoves
  <2>8. CASE scan.pc = "wait" /\ ScanMoves("embed", scan.todo, scan.found, scan.made)
    BY <1>0, <1>1, <2>8 DEF ScanMoves
  <2>9. CASE ScanMoves(scan.pc, scan.todo, scan.found,
               {Outdate(writer.job.file, j) : j \in scan.made})
    <3>1. \A j \in scan.made : IsEnrich(Outdate(writer.job.file, j))
      BY <1>0, Outdated DEF ScanType
    <3> QED BY <1>0, <1>1, <2>9, <3>1 DEF ScanMoves
  <2>10. CASE \E f \in Files :
                \/ /\ scan.pc = "read"
                   /\ ScanMoves("read", scan.todo \ {f}, scan.found, scan.made)
                \/ /\ scan.pc = "work"
                   /\ ScanMoves("work", scan.todo, [scan.found EXCEPT ![f] = 0], scan.made)
    BY <1>0, <1>1, <2>10 DEF ScanMoves
  <2> QED BY <2>1, <2>2, <2>3, <2>4, <2>5, <2>6, <2>7, <2>8, <2>9, <2>10, ScanEffects
<1>3. s \in ScanType
  BY <1>1, ScanEffects
<1>4. \A f \in Files : s.found[f] <= Version(f)'
  BY <1>2, <1>3, <1>0, HistGrows DEF ScanType
<1>5. \A j \in s.made : IsEnrich(j)'
  BY <1>2, <1>3, JobsKeep DEF ScanType
<1>6. Right(s)'
  BY <1>2, <1>4, <1>5
<1> QED BY <1>1, <1>3, <1>6, Zenon DEF ScanRight

(* Nothing but its sync job ends the wait of the scan. *)
LEMMA WaitEnds ==
  ASSUME Typed, ScanRight, SyncsRight, [Next]_vars, scan.pc = "wait"
  PROVE  scan'.pc = "wait" \/ Restart \/ SyncDone
  BY ScanEffects DEF ScanMoves, Filtered

(* There is one sync job at most, and the scan waits for it. *)
LEMMA SyncsStep ==
  ASSUME Typed, LoopRight, ScanRight, SyncsRight, [Next]_vars
  PROVE  SyncsRight'
<1> DEFINE Sync(j) == j.kind = "sync"
<1>0. /\ queue \in Seq(JobType) /\ DOMAIN queue = 1..Len(queue) /\ Len(queue) \in Nat
      /\ scan.made \subseteq JobType /\ loop.job \in JobType
  BY DEF Typed, PipeTyped, ScanType, RunType
<1>1. CASE Restart
  BY <1>1, IdleStages, JobTypes DEF Restart, SyncsRight
<1>2. CASE SyncDone
  <2>1. queue' = queue /\ writer.job.kind = "sync" /\ writer' = IdleWriter
    BY <1>2, Zenon DEF SyncDone
  <2>2. \A n \in DOMAIN queue' : ~Sync(queue'[n])
    BY <2>1 DEF SyncsRight
  <2>3. writer'.job.kind # "sync"
    BY <2>1, IdleStages, JobTypes
  <2> QED BY <2>2, <2>3 DEF SyncsRight
<1>3. CASE TakeJob
  <2>1. /\ queue # <<>> /\ queue' = Tail(queue) /\ writer'.job = Head(queue)
        /\ scan' = scan
    BY <1>3 DEF TakeJob
  <2>2. /\ 1 \in DOMAIN queue /\ Head(queue) = queue[1]
        /\ \A n \in DOMAIN queue' : /\ queue'[n] = queue[n + 1] /\ n + 1 \in DOMAIN queue
                                    /\ n \in Nat /\ n # 0
    BY <1>0, <2>1, Received
  <2>3. \A m, n \in DOMAIN queue' : Sync(queue'[m]) /\ Sync(queue'[n]) => m = n
    <3> SUFFICES ASSUME NEW m \in DOMAIN queue', NEW n \in DOMAIN queue',
                        Sync(queue'[m]), Sync(queue'[n])
                 PROVE  m = n
      OBVIOUS
    <3>1. m + 1 = n + 1
      BY <2>2 DEF SyncsRight
    <3> QED BY <2>2, <3>1
  <2>4. ASSUME NEW n \in DOMAIN queue', Sync(queue'[n])
        PROVE  scan'.pc = "wait" /\ writer'.job.kind # "sync"
    <3>1. n + 1 # 1 /\ n + 1 \in DOMAIN queue /\ Sync(queue[n + 1])
      BY <2>2, <2>4
    <3> QED BY <2>1, <2>2, <3>1 DEF SyncsRight
  <2>5. writer'.job.kind = "sync" => scan'.pc = "wait"
    BY <2>1, <2>2 DEF SyncsRight
  <2> QED BY <2>3, <2>4, <2>5 DEF SyncsRight
<1>4. CASE ~Restart /\ ~SyncDone /\ ~TakeJob
  <2>1. scan.pc = "wait" => scan'.pc = "wait"
    BY <1>4, WaitEnds
  <2>2. writer'.job.kind = "sync" => writer.job.kind = "sync"
    BY <1>4, WriterEffects, IdleStages, JobTypes
  <2>3. CASE queue' = queue
    BY <2>1, <2>2, <2>3 DEF SyncsRight
  <2>4. CASE \E j \in JobType : Sending(j) /\ queue' = Append(queue, j)
    <3>1. PICK j \in JobType : Sending(j) /\ queue' = Append(queue, j)
      BY <2>4
    <3>2. /\ DOMAIN queue' = 1..(Len(queue) + 1)
          /\ \A n \in 1..Len(queue) : queue'[n] = queue[n]
          /\ queue'[Len(queue) + 1] = j
      BY <1>0, <3>1
    <3>3. CASE ~Sync(j)
      <4>1. \A n \in DOMAIN queue' : Sync(queue'[n]) => n \in DOMAIN queue /\ queue'[n] = queue[n]
        BY <1>0, <3>2, <3>3
      <4> QED BY <2>1, <2>2, <4>1 DEF SyncsRight
    <3>4. CASE Sync(j)
      <4>1. SubmitSync /\ scan.pc = "work" /\ scan'.pc = "wait"
        BY <1>0, <3>1, <3>4, IdleStages, JobTypes
        DEF Sending, Submitted, LoopRight, WorkerSubmitted, ScanRight, IsEnrich, SubmitSync,
            Typed, PipeTyped, ScanType
      <4>2. /\ \A n \in DOMAIN queue : ~Sync(queue[n])
            /\ writer.job.kind # "sync"
        BY <4>1 DEF SyncsRight
      <4>3. \A n \in DOMAIN queue' : Sync(queue'[n]) => n = Len(queue) + 1
        BY <1>0, <3>2, <4>2
      <4> QED BY <2>2, <4>1, <4>2, <4>3 DEF SyncsRight
    <3> QED BY <3>3, <3>4
  <2>5. CASE queue' = [n \in DOMAIN queue |-> Outdate(writer.job.file, queue[n])]
    <3>1. \A n \in DOMAIN queue : Outdate(writer.job.file, queue[n]).kind = queue[n].kind
      BY <1>0, Outdated
    <3>2. DOMAIN queue' = DOMAIN queue /\ \A n \in DOMAIN queue : Sync(queue'[n]) <=> Sync(queue[n])
      BY <2>5, <3>1
    <3> QED BY <2>1, <2>2, <3>2 DEF SyncsRight
  <2> QED BY <1>4, <2>3, <2>4, <2>5, QueueEffects
<1> QED BY <1>1, <1>2, <1>3, <1>4

(* The chunks of a file stay of its hash while neither is written. *)
LEMMA ChunksStay ==
  ASSUME Typed, [Next]_vars, NEW f \in Files, row'[f] = row[f], chunks'[f] = chunks[f]
  PROVE  ChunksOfHash(f)' <=> ChunksOfHash(f)
<1>1. /\ row[f] \in Nat /\ chunks[f] \in Nat
      /\ row[f] <= Version(f) /\ chunks[f] <= Version(f)
  BY DEF Typed, DiskTyped
<1>2. /\ \A v \in {row[f], chunks[f]} : Text(f, v)' = Text(f, v)
  BY <1>1, HistGrows
<1>3. \A v : Text(f, v)' = IF v = 0 THEN Gone ELSE hist'[f][v]
  BY DEF Text
<1> QED BY <1>2, <1>3 DEF ChunksOfHash, Text

(* The steps of the writer that touch a file's row, chunks or mark. *)
LEMMA ChunksStep ==
  ASSUME Typed, WriterRight, ChunksRight, [Next]_vars
  PROVE  ChunksRight'
<1> SUFFICES ASSUME NEW f \in Files, f \notin torn'
             PROVE  ChunksOfHash(f)' \/ (writer'.pc \in Halfway /\ writer'.job.file = f)
  BY DEF ChunksRight
<1>0. /\ row \in [Files -> Nat] /\ chunks \in [Files -> Nat]
      /\ writer \in RunType({"idle", "guard", "deleteChunks", "insertChunks"})
  BY DEF Typed, DiskTyped, PipeTyped
<1>1. CASE DeleteFile
  <2>1. /\ row' = [row EXCEPT ![writer.job.file] = 0]
        /\ chunks' = [chunks EXCEPT ![writer.job.file] = 0]
        /\ torn' = torn \ {writer.job.file} /\ writer.pc = "guard"
    BY <1>1, Zenon DEF DeleteFile
  <2>2. CASE f = writer.job.file
    <3>1. row'[f] = 0 /\ chunks'[f] = 0
      BY <1>0, <2>1, <2>2
    <3> QED BY <3>1 DEF ChunksOfHash, Text
  <2>3. CASE f # writer.job.file
    <3>1. row'[f] = row[f] /\ chunks'[f] = chunks[f]
      BY <1>0, <2>1, <2>3
    <3>2. ChunksOfHash(f)
      BY <2>1, <2>3 DEF ChunksRight, Halfway
    <3> QED BY <3>1, <3>2, ChunksStay
  <2> QED BY <2>2, <2>3
<1>2. CASE UpsertFile \/ DeleteChunks
  <2>1. /\ row' = row \/ row' = [row EXCEPT ![writer.job.file] = writer.job.ver]
        /\ chunks' = chunks \/ chunks' = [chunks EXCEPT ![writer.job.file] = 0]
        /\ torn' = torn
    BY <1>2, Zenon DEF UpsertFile, DeleteChunks, diskVars
  <2>2. writer'.pc \in Halfway /\ writer'.job = writer.job
    BY <1>0, <1>2 DEF UpsertFile, DeleteChunks, Halfway, RunType
  <2>3. CASE f # writer.job.file
    <3>1. row'[f] = row[f] /\ chunks'[f] = chunks[f]
      BY <1>0, <2>1, <2>3
    <3>2. ChunksOfHash(f)
      BY <2>1, <2>3 DEF ChunksRight
    <3> QED BY <3>1, <3>2, ChunksStay
  <2> QED BY <2>2, <2>3
<1>3. CASE InsertChunks
  <2>1. /\ row' = row /\ chunks' = [chunks EXCEPT ![writer.job.file] = writer.job.ver]
        /\ torn' = torn \ {writer.job.file} /\ writer.pc = "insertChunks"
    BY <1>3, Zenon DEF InsertChunks
  <2>2. CASE f = writer.job.file
    <3>1. chunks'[f] = row'[f]
      BY <1>0, <2>1, <2>2 DEF WriterRight, Halfway
    <3> QED BY <3>1 DEF ChunksOfHash
  <2>3. CASE f # writer.job.file
    <3>1. row'[f] = row[f] /\ chunks'[f] = chunks[f]
      BY <1>0, <2>1, <2>3
    <3>2. ChunksOfHash(f)
      BY <2>1, <2>3 DEF ChunksRight
    <3> QED BY <3>1, <3>2, ChunksStay
  <2> QED BY <2>2, <2>3
<1>4. CASE Restart \/ JobFails
  <2>1. torn' = IF writer.pc \in Halfway THEN torn \cup {writer.job.file} ELSE torn
    BY <1>4 DEF Restart, JobFails
  <2>2. row' = row /\ chunks' = chunks
    BY <1>4, Zenon DEF Restart, JobFails, dbVars
  <2>3. ChunksOfHash(f)
    BY <2>1 DEF ChunksRight
  <2> QED BY <2>2, <2>3, ChunksStay
<1>5. CASE /\ ~DeleteFile /\ ~UpsertFile /\ ~DeleteChunks /\ ~InsertChunks
           /\ ~Restart /\ ~JobFails
  <2>1. row' = row /\ chunks' = chunks /\ torn' = torn
    BY <1>5, DataSteps, MarkSteps
  <2>2. writer' = writer \/ writer.pc \notin Halfway
    BY <1>5, PipeSteps DEF Writer, TakeJob, SyncDone, SkipJob, Halfway
  <2>3. ChunksOfHash(f) \/ (writer.pc \in Halfway /\ writer.job.file = f)
    BY <2>1 DEF ChunksRight
  <2> QED BY <2>1, <2>2, <2>3, ChunksStay
<1> QED BY <1>1, <1>2, <1>3, <1>4, <1>5

------------------------------------------------------------------------------
(* Nothing gets lost on the way but what the history says *)

(* What is on the way of a file. *)
Told(f) == {e \in Range(events) \cup {sending} : e.file = f}

(* A file that is left alone, and whose jobs and events are old or of its content.  *)
LEMMA Carried ==
  ASSUME NEW f \in Files, Newest(f), hist'[f] = hist[f], row'[f] = row[f],
         \A j \in Jobs(f)' : j \in Jobs(f) \/ j = Enrich(f, Version(f)),
         scan'.found[f] \in {0, Version(f), scan.found[f]},
         \A e \in Told(f)' : e \in Told(f) \/ e.type = "modify"
  PROVE  /\ Newest(f)' /\ (Fresh(f)' <=> Fresh(f))
         /\ Version(f)' = Version(f) /\ (Exists(f)' <=> Exists(f))
<1>1. /\ Version(f)' = Version(f) /\ (Exists(f)' <=> Exists(f)) /\ (Fresh(f)' <=> Fresh(f))
  BY DEF Version, Exists, Fresh, Text
<1>2. \A j \in Jobs(f)' : j.kind = "enrich" /\ j.ver = Version(f) /\ (j.older => Fresh(f))
  <2>1. LET j == Enrich(f, Version(f)) IN
          j.kind = "enrich" /\ j.ver = Version(f) /\ j.older = FALSE
    BY JobTypes
  <2> QED BY <2>1, Zenon DEF Newest
<1>3. scan'.found[f] # 0 => scan'.found[f] = Version(f)
  BY DEF Newest
<1>4. \A e \in Told(f)' : e.type = "modify"
  BY DEF Newest, Told
<1> QED BY <1>1, <1>2, <1>3, <1>4, Zenon DEF Newest, Told

(* The jobs of a file that no stage has changed but by handing one on. *)
LEMMA JobsOf ==
  ASSUME NEW f
  PROVE  \A j : j \in Jobs(f)' <=>
           /\ j.file = f
           /\ \/ j \in Range(queue') \/ j = writer'.job \/ j = loop'.job \/ j \in scan'.made
  BY DEF Jobs

(* The jobs of a file, wherever they are. *)
LEMMA JobsNow ==
  ASSUME NEW f
  PROVE  \A j : j \in Jobs(f) <=>
           /\ j.file = f
           /\ \/ j \in Range(queue) \/ j = writer.job \/ j = loop.job \/ j \in scan.made
  BY DEF Jobs

(* A file on disk changes: an event or the scan will tell, or it is marked. *)
LEMMA EditArrives ==
  ASSUME Typed, ScanRight, NEW f \in Files, NEW g \in Files, f = g \/ Arriving(f),
         NEW t \in Texts \cup {Gone}, Edit(g, t)
  PROVE  Arriving(f)'
<1>0. /\ hist \in [Files -> Seq(Texts \cup {Gone})] /\ raw \in [Files -> Nat]
      /\ scan \in ScanType
  BY DEF Typed, DiskTyped, WatchTyped, PipeTyped
<1>1. /\ hist' = [hist EXCEPT ![g] = Append(@, t)]
      /\ raw' = IF DirOf[g] \in watched THEN [raw EXCEPT ![g] = @ + 1] ELSE raw
      /\ lost' = IF Captured(g) \/ Unseen(g) \/ t = Gone THEN lost \cup {g} ELSE lost \ {g}
      /\ UNCHANGED <<row, pending, emitting, sending, events, loop, scan, queue, writer>>
  BY Zenon DEF Edit, dbVars
<1>2. Jobs(f)' = Jobs(f) /\ Told(f)' = Told(f)
  BY <1>1, Zenon DEF Jobs, Told
<1> SUFFICES ASSUME f \notin lost' PROVE Newest(f)' /\ (Fresh(f)' \/ Coming(f)')
  BY DEF Arriving
<1>3. CASE f = g
  <2>1. ~Captured(f) /\ ~Unseen(f) /\ t # Gone
    BY <1>1, <1>3
  <2>2. hist'[f] = Append(hist[f], t) /\ Exists(f)'
    <3>1. hist'[f] = Append(hist[f], t) /\ hist[f] \in Seq(Texts \cup {Gone})
      BY <1>0, <1>1, <1>3
    <3>2. Append(hist[f], t)[Len(Append(hist[f], t))] = t
      BY <3>1
    <3> QED BY <2>1, <3>1, <3>2 DEF Exists, Last
  <2>3. /\ Jobs(f)' = {} /\ scan'.found[f] = 0
        /\ \A e \in Range(events') \cup {sending'} : e.file = f => e.type # "delete"
    BY <1>1, <1>2, <2>1, Zenon DEF Captured
  <2>4. \A e \in Range(events') \cup {sending'} : e.file = f => e.type = "modify"
    <3>1. \A e \in Range(events') \cup {sending'} : e \in Events \/ e = NoEvent
      BY <1>1 DEF Typed, WatchTyped, Range
    <3> QED BY <2>3, <3>1, Parameters DEF Events, NoEvent
  <2>5. Newest(f)'
    BY <2>2, <2>3, <2>4, Zenon DEF Newest
  <2>6. CASE DirOf[f] \in watched
    <3>1. raw'[f] # 0
      BY <1>0, <1>1, <1>3, <2>6
    <3> QED BY <2>5, <3>1 DEF Coming
  <2>7. CASE DirOf[f] \notin watched
    <3>1. f \in scan.todo /\ scan.pc = "read"
      BY <2>1, <2>7 DEF Unseen, ScanRight
    <3> QED BY <1>1, <2>5, <3>1 DEF Coming
  <2> QED BY <2>6, <2>7
<1>4. CASE f # g
  <2>1. hist'[f] = hist[f] /\ row'[f] = row[f] /\ raw'[f] = raw[f] /\ f \notin lost
    BY <1>0, <1>1, <1>4
  <2>2. Newest(f)' /\ (Fresh(f)' <=> Fresh(f))
    BY <1>1, <1>2, <1>4, <2>1, Carried DEF Arriving
  <2>3. Coming(f) => Coming(f)'
    BY <1>1, <2>1 DEF Coming
  <2> QED BY <1>4, <2>1, <2>2, <2>3 DEF Arriving
<1> QED BY <1>3, <1>4

(* The process starts again, and its scan reads every file. *)
LEMMA RestartArrives ==
  ASSUME Typed, NEW f \in Files, Arriving(f), Restart
  PROVE  Arriving(f)'
<1>1. /\ events' = <<>> /\ sending' = NoEvent /\ loop' = IdleLoop
      /\ scan' = Scanning("read") /\ queue' = <<>> /\ writer' = IdleWriter
      /\ hist' = hist /\ row' = row /\ lost' = lost
  BY Zenon DEF Restart, dbVars
<1>2. f # NoFile /\ NoEvent.file = NoFile /\ NoJob.file = NoFile
  BY Parameters, JobTypes DEF NoEvent
<1>3. \A j \in Jobs(f)' : FALSE
  BY <1>1, <1>2, JobsOf, NothingSent, IdleStages
<1>4. \A e \in Told(f)' : FALSE
  BY <1>1, <1>2, NothingSent DEF Told
<1>5. scan'.pc = "read" /\ f \in scan'.todo /\ scan'.found[f] = 0
  BY <1>1, IdleStages
<1>6. Coming(f)'
  BY <1>5 DEF Coming
<1>7. CASE f \notin lost
  <2>1. Newest(f)'
    BY <1>1, <1>3, <1>4, <1>5, <1>7, Carried DEF Arriving
  <2> QED BY <1>6, <2>1 DEF Arriving
<1> QED BY <1>1, <1>7 DEF Arriving

(* A path goes through the watcher, to the channel. *)
LEMMA WatcherArrives ==
  ASSUME Typed, NEW f \in Files, Arriving(f), Watcher
  PROVE  Arriving(f)'
<1>0. /\ raw \in [Files -> Nat] /\ events \in Seq(Events)
      /\ sending \in Events \cup {NoEvent}
      /\ f # NoFile /\ NoEvent.file = NoFile
  BY Parameters DEF Typed, WatchTyped, NoEvent
<1>1. /\ hist' = hist /\ row' = row /\ loop' = loop /\ scan' = scan
      /\ queue' = queue /\ writer' = writer
      /\ \/ lost' = lost
         \/ Drop /\ lost' = lost \cup {sending.file}
         \/ \E g \in Files : Overflow(g) /\ lost' = lost \cup {g}
  BY Zenon DEF Watcher, HandleDir, Overflow, HandleEvent, Stat, FlushPending, Send, Drop,
    diskVars, dbVars
<1>2. Jobs(f)' = Jobs(f)
  BY <1>1, Zenon DEF Jobs
<1> SUFFICES ASSUME f \notin lost' PROVE Newest(f)' /\ (Fresh(f)' \/ Coming(f)')
  BY DEF Arriving
<1>3. f \notin lost /\ Newest(f) /\ (Fresh(f) \/ Coming(f))
  BY <1>1 DEF Arriving
<1>4. ASSUME \A e \in Told(f)' : e \in Told(f) \/ e.type = "modify", Coming(f) => Coming(f)'
      PROVE  Newest(f)' /\ (Fresh(f)' \/ Coming(f)')
  BY <1>1, <1>2, <1>3, <1>4, Carried
<1>5. CASE \E g \in Files : HandleEvent(g)
  <2>1. PICK g \in Files : HandleEvent(g)
    BY <1>5
  <2>2. /\ raw' = [raw EXCEPT ![g] = @ - 1]
        /\ pending' = IF Exists(g) THEN pending \cup {g} ELSE pending
        /\ UNCHANGED <<emitting, sending, events>>
    BY <2>1, Zenon DEF HandleEvent
  <2>3. Told(f)' = Told(f)
    BY <2>2, Zenon DEF Told
  <2>4. Coming(f) => Coming(f)'
    <3>1. f = g => f \in pending'
      BY <1>3, <2>2 DEF Newest
    <3>2. f # g => raw'[f] = raw[f]
      BY <1>0, <2>2
    <3> QED BY <1>1, <2>2, <3>1, <3>2 DEF Coming
  <2> QED BY <1>4, <2>3, <2>4
<1>6. CASE \E ready \in SUBSET pending : FlushPending(ready)
  <2>1. PICK ready \in SUBSET pending : FlushPending(ready)
    BY <1>6
  <2>2. /\ pending' = pending \ ready /\ emitting' = ready /\ emitting = {}
        /\ UNCHANGED <<raw, sending, events>>
    BY <2>1, Zenon DEF FlushPending
  <2>3. Told(f)' = Told(f)
    BY <2>2, Zenon DEF Told
  <2>4. Coming(f) => Coming(f)'
    BY <1>1, <2>2 DEF Coming
  <2> QED BY <1>4, <2>3, <2>4
<1>7. CASE \E g \in Files : Stat(g)
  <2>1. PICK g \in Files : Stat(g)
    BY <1>7
  <2> DEFINE e == [file |-> g, type |-> IF Exists(g) THEN "modify" ELSE "delete"]
  <2>2. /\ sending = NoEvent /\ emitting' = emitting \ {g} /\ sending' = e
        /\ UNCHANGED <<raw, pending, events>>
    BY <2>1, Zenon DEF Stat
  <2>3. f = g => e.file = f /\ e.type = "modify"
    BY <1>3 DEF Newest
  <2>4. e.file = g
    OBVIOUS
  <2> HIDE DEF e
  <2>5. \A x \in Told(f)' : x \in Told(f) \/ x.type = "modify"
    BY <2>2, <2>3, <2>4 DEF Told
  <2>6. Coming(f) => Coming(f)'
    BY <1>0, <1>1, <2>2, <2>3, <2>4 DEF Coming
  <2> QED BY <1>4, <2>5, <2>6
<1>8. CASE Send
  <2>1. /\ sending # NoEvent /\ events' = Append(events, sending) /\ sending' = NoEvent
        /\ UNCHANGED <<raw, pending, emitting>>
    BY <1>8, Zenon DEF Send
  <2>2. Range(events') = Range(events) \cup {sending}
    BY <1>0, <2>1, Sent
  <2>3. \A e \in Told(f)' : e \in Told(f)
    BY <1>0, <2>1, <2>2 DEF Told
  <2>4. Coming(f) => Coming(f)'
    BY <1>0, <1>1, <2>1, <2>2 DEF Coming
  <2> QED BY <1>4, <2>3, <2>4
<1>9. CASE Drop
  <2>1. /\ sending' = NoEvent /\ lost' = lost \cup {sending.file}
        /\ UNCHANGED <<raw, pending, emitting, events>>
    BY <1>9, Zenon DEF Drop
  <2>2. sending.file # f
    BY <2>1
  <2>3. \A e \in Told(f)' : e \in Told(f)
    BY <1>0, <2>1 DEF Told
  <2>4. Coming(f) => Coming(f)'
    BY <1>1, <2>1, <2>2 DEF Coming
  <2> QED BY <1>4, <2>3, <2>4
<1>10. CASE \E d \in Dirs : HandleDir(d)
  <2>1. UNCHANGED <<raw, pending, emitting, sending, events>>
    BY <1>10, Zenon DEF HandleDir
  <2> QED BY <1>1, <1>4, <2>1, Zenon DEF Told, Coming
<1>11. CASE \E g \in Files : Overflow(g)
  <2>1. PICK g \in Files : Overflow(g)
    BY <1>11
  <2>2. /\ raw' = [raw EXCEPT ![g] = @ - 1] /\ lost' = lost \cup {g}
        /\ UNCHANGED <<pending, emitting, sending, events>>
    BY <2>1, Zenon DEF Overflow
  <2>3. raw'[f] = raw[f]
    BY <1>0, <2>2
  <2>4. Told(f)' = Told(f)
    BY <2>2, Zenon DEF Told
  <2>5. Coming(f) => Coming(f)'
    BY <1>1, <2>2, <2>3 DEF Coming
  <2> QED BY <1>4, <2>4, <2>5
<1>12. Watcher =>
         \/ \E d \in Dirs : HandleDir(d)
         \/ \E g \in Files : HandleEvent(g)
         \/ \E g \in Files : Overflow(g)
         \/ \E g \in Files : Stat(g)
         \/ \E ready \in SUBSET pending : FlushPending(ready)
         \/ Send \/ Drop
  BY Zenon DEF Watcher
<1> QED BY <1>5, <1>6, <1>7, <1>8, <1>9, <1>10, <1>11, <1>12

(* A row with the hash of the last content is fresh. *)
LEMMA SameIsFresh ==
  ASSUME Typed, NEW f \in Files, NEW j, j.file = f, j.ver = Version(f), SameHash(j), Exists(f)
  PROVE  Fresh(f)
  BY LastContent DEF SameHash, Fresh

(* An event becomes a job, unless the database has the content already. *)
LEMMA LoopArrives ==
  ASSUME Typed, LoopRight, NEW f \in Files, Arriving(f), Loop
  PROVE  Arriving(f)'
<1>0. /\ events \in Seq(Events) /\ f # NoFile /\ NoJob.file = NoFile
      /\ loop \in RunType({"idle", "check", "parse", "submit"}) /\ queue \in Seq(JobType)
      /\ IdleLoop.job = NoJob /\ loop.job \in JobType
  BY Parameters, JobTypes, IdleStages DEF Typed, WatchTyped, PipeTyped, RunType
<1>1. /\ hist' = hist /\ row' = row /\ scan' = scan /\ writer' = writer
      /\ lost' = lost \/ (LoopFails /\ lost' = lost \cup {loop.job.file})
      /\ UNCHANGED <<raw, pending, emitting, sending>>
  BY Zenon DEF Loop, TakeEvent, CheckHash, Parsed, LoopFails, Submitted, diskVars, dbVars,
    watchVars
<1> SUFFICES ASSUME f \notin lost' PROVE Newest(f)' /\ (Fresh(f)' \/ Coming(f)')
  BY DEF Arriving
<1>3. Newest(f) /\ (Fresh(f) \/ Coming(f))
  BY <1>1 DEF Arriving
<1>4. ASSUME \A j \in Jobs(f)' : j \in Jobs(f) \/ j = Enrich(f, Version(f)),
             \A e \in Told(f)' : e \in Told(f),
             Coming(f) => Coming(f)' \/ Fresh(f)
      PROVE  Newest(f)' /\ (Fresh(f)' \/ Coming(f)')
  BY <1>1, <1>3, <1>4, Carried
<1>5. CASE TakeEvent
  <2>1. loop = IdleLoop /\ queue' = queue
    BY <1>5 DEF TakeEvent, LoopRight
  <2>2. PICK e \in Events :
          /\ Range(events) = {e} \cup Range(events')
          /\ \/ e.type = "delete" /\ loop' = [pc |-> "submit", job |-> Delete(e.file)]
             \/ /\ e.type = "modify" /\ Exists(e.file)
                /\ loop' = [pc |-> "check", job |-> Enrich(e.file, Version(e.file))]
             \/ e.type = "modify" /\ ~Exists(e.file) /\ loop' = IdleLoop
    BY <1>5, TakeEffect
  <2>3. \A x \in Told(f)' : x \in Told(f)
    BY <1>1, <2>2 DEF Told
  <2>4. f = e.file => loop'.job = Enrich(f, Version(f)) /\ loop'.job.file = f
    <3>1. f = e.file => e.type = "modify" /\ Exists(f)
      BY <1>3, <2>2 DEF Newest
    <3>2. Enrich(f, Version(f)).file = f
      BY JobTypes
    <3> QED BY <2>2, <3>1, <3>2
  <2>5. f # e.file => loop'.job.file # f
    BY <1>0, <2>2, JobTypes DEF Events
  <2>6. \A j \in Jobs(f)' : j \in Jobs(f) \/ j = Enrich(f, Version(f))
    BY <1>1, <2>1, <2>4, <2>5, JobsOf, JobsNow
  <2>7. Coming(f) => Coming(f)'
    <3>1. loop.job.file # f
      BY <1>0, <2>1
    <3> QED BY <1>1, <2>1, <2>2, <2>4, <3>1 DEF Coming
  <2> QED BY <1>4, <2>3, <2>6, <2>7
<1>6. CASE CheckHash \/ Parsed
  <2>1. events' = events /\ queue' = queue
    BY <1>6, Zenon DEF CheckHash, Parsed
  <2>2. loop'.job = loop.job \/ loop' = IdleLoop
    BY <1>0, <1>6 DEF CheckHash, Parsed, RunType
  <2>3. Told(f)' = Told(f)
    BY <1>1, <2>1, Zenon DEF Told
  <2>4. \A j \in Jobs(f)' : j \in Jobs(f)
    BY <1>0, <1>1, <2>1, <2>2, JobsOf, JobsNow
  <2>5. CASE loop'.job = loop.job
    <3>1. Coming(f) => Coming(f)'
      BY <1>1, <2>1, <2>5 DEF Coming
    <3> QED BY <1>4, <2>3, <2>4, <3>1
  <2>6. CASE loop.job.file # f
    <3>1. Coming(f) => Coming(f)'
      BY <1>1, <2>1, <2>6 DEF Coming
    <3> QED BY <1>4, <2>3, <2>4, <3>1
  <2>7. CASE loop'.job # loop.job /\ loop.job.file = f
    <3>1. loop.job \in Jobs(f)
      BY <2>7, JobsNow
    <3>2. loop.job.ver = Version(f) /\ Exists(f)
      BY <1>3, <3>1 DEF Newest
    <3>3. SameHash(loop.job)
      BY <1>0, <1>6, <2>7, <3>2 DEF CheckHash, Parsed, RunType
    <3>4. Fresh(f)
      BY <2>7, <3>2, <3>3, SameIsFresh
    <3> QED BY <1>4, <2>3, <2>4, <3>4
  <2> QED BY <2>5, <2>6, <2>7
<1>7. CASE Submitted
  <2>1. events' = events /\ queue' = Append(queue, loop.job) /\ loop' = IdleLoop
    BY <1>7, Zenon DEF Submitted
  <2>2. Range(queue') = Range(queue) \cup {loop.job}
    BY <1>0, <2>1, Sent
  <2>3. Told(f)' = Told(f)
    BY <1>1, <2>1, Zenon DEF Told
  <2>4. \A j \in Jobs(f)' : j \in Jobs(f)
    BY <1>0, <1>1, <2>1, <2>2, JobsOf, JobsNow
  <2>5. Coming(f) => Coming(f)'
    BY <1>1, <2>1, <2>2 DEF Coming
  <2> QED BY <1>4, <2>3, <2>4, <2>5
<1>8. CASE LoopFails
  <2>1. events' = events /\ queue' = queue /\ loop' = IdleLoop /\ loop.job.file # f
    BY <1>8 DEF LoopFails
  <2>2. Told(f)' = Told(f)
    BY <1>1, <2>1, Zenon DEF Told
  <2>3. \A j \in Jobs(f)' : j \in Jobs(f)
    BY <1>0, <1>1, <2>1, JobsOf, JobsNow
  <2>4. Coming(f) => Coming(f)'
    BY <1>1, <2>1 DEF Coming
  <2> QED BY <1>4, <2>2, <2>3, <2>4
<1> QED BY <1>5, <1>6, <1>7, <1>8 DEF Loop

(* The scan reads a file, and a worker makes its job, unless the database has the    *)
(* content already.                                                          *)
LEMMA ScanArrives ==
  ASSUME Typed, ScanRight, NEW f \in Files, Arriving(f), Scan
  PROVE  Arriving(f)'
<1>0. /\ scan \in ScanType /\ queue \in Seq(JobType) /\ f # NoFile
      /\ Version(f) \in Nat \ {0}
  BY Parameters, LastContent DEF Typed, PipeTyped
<1>1. /\ hist' = hist /\ row' = row /\ loop' = loop /\ writer' = writer /\ events' = events
      /\ UNCHANGED <<raw, pending, emitting, sending>>
  BY Zenon DEF Scan, BranchSwitch, FilterChanged, SubmitSync, ScanDone, ScanFile, WorkerParsed,
    WorkerSubmitted, ScanSkips, WorkerFails, ScanFails, diskVars, dbVars, watchVars
<1>2. Told(f)' = Told(f)
  BY <1>1, Zenon DEF Told
<1>3. ASSUME f \notin lost,
             \A j \in Jobs(f)' : j \in Jobs(f) \/ j = Enrich(f, Version(f)),
             scan'.found[f] \in {0, Version(f), scan.found[f]},
             Coming(f) => Coming(f)' \/ Fresh(f)
      PROVE  Arriving(f)'
  BY <1>1, <1>2, <1>3, Carried DEF Arriving
<1>4. ASSUME f \in lost, lost' = lost
      PROVE  Arriving(f)'
  BY <1>4 DEF Arriving
<1>5. CASE BranchSwitch /\ scan' = Scanning("read")
  <2>1. queue' = queue /\ lost' = lost
    BY <1>5, Zenon DEF BranchSwitch, diskVars
  <2>2. /\ scan'.made = {} /\ scan'.found[f] = 0
        /\ scan'.pc = "read" /\ f \in scan'.todo
    BY <1>5, IdleStages
  <2>3. \A j \in Jobs(f)' : j \in Jobs(f)
    BY <1>1, <2>1, <2>2, JobsOf, JobsNow
  <2>4. Coming(f)'
    BY <2>2 DEF Coming
  <2> QED BY <1>3, <1>4, <2>1, <2>2, <2>3, <2>4
<1>6. CASE \E g \in Files :
             /\ ScanFile(g)
             /\ ScanMoves("read", scan.todo \ {g},
                  [scan.found EXCEPT ![g] = IF Exists(g) THEN Version(g) ELSE 0], scan.made)
  <2>1. PICK g \in Files :
             /\ ScanFile(g)
             /\ ScanMoves("read", scan.todo \ {g},
                  [scan.found EXCEPT ![g] = IF Exists(g) THEN Version(g) ELSE 0], scan.made)
    BY <1>6
  <2>2. /\ queue' = queue
        /\ lost' = IF Exists(g) /\ ~Captured(g) THEN lost \ {g} ELSE lost
        /\ scan.pc = "read"
    BY <2>1, Zenon DEF ScanFile
  <2>3. /\ scan'.made = scan.made /\ scan'.pc = "read" /\ scan'.todo = scan.todo \ {g}
        /\ scan'.found[g] = IF Exists(g) THEN Version(g) ELSE 0
        /\ f # g => scan'.found[f] = scan.found[f]
    BY <1>0, <2>1 DEF ScanMoves, ScanType
  <2>4. Jobs(f)' = Jobs(f)
    BY <1>1, <2>2, <2>3, Zenon DEF Jobs
  <2>5. CASE f # g
    <3>1. f \in lost => f \in lost'
      BY <2>2, <2>5
    <3>2. Coming(f) => Coming(f)'
      BY <1>1, <2>2, <2>3, <2>5 DEF Coming
    <3> QED BY <1>3, <2>3, <2>4, <2>5, <3>1, <3>2 DEF Arriving
  <2>6. CASE f = g /\ f \notin lost'
    <3>1. Newest(f)
      <4>1. CASE f \notin lost
        BY <4>1 DEF Arriving
      <4>2. CASE f \in lost
        <5>1. Exists(f) /\ ~Captured(f)
          BY <2>2, <2>6, <4>2
        <5>2. \A e \in Range(events) \cup {sending} : e \in Events \/ e = NoEvent
          BY DEF Typed, WatchTyped, Range
        <5>3. \A e \in Range(events) \cup {sending} : e.file = f => e.type = "modify"
          BY <1>0, <5>1, <5>2 DEF Captured, Events, NoEvent
        <5> QED BY <5>1, <5>3, Zenon DEF Newest, Captured
      <4> QED BY <4>1, <4>2
    <3>2. scan'.found[f] = Version(f)
      BY <2>3, <2>6, <3>1 DEF Newest
    <3>3. Newest(f)'
      BY <1>1, <1>2, <2>4, <3>1, <3>2, Carried
    <3>4. Coming(f)'
      BY <1>0, <3>2 DEF Coming
    <3> QED BY <3>3, <3>4 DEF Arriving
  <2> QED BY <2>5, <2>6 DEF Arriving
<1>7. CASE FilterChanged /\ Filtered
  <2>1. queue' = queue /\ lost' = lost
    BY <1>7, Zenon DEF FilterChanged, diskVars
  <2>2. /\ scan'.made = scan.made /\ scan.todo = {}
        /\ \/ scan'.found[f] = scan.found[f]
           \/ scan'.found[f] = 0 /\ SameHash(Enrich(f, scan.found[f]))
    BY <1>7 DEF Filtered
  <2>3. Jobs(f)' = Jobs(f)
    BY <1>1, <2>1, <2>2, Zenon DEF Jobs
  <2>4. ASSUME f \notin lost, Coming(f) PROVE Coming(f)' \/ Fresh(f)
    <3>1. CASE scan'.found[f] = scan.found[f]
      BY <1>1, <2>1, <2>2, <2>4, <3>1 DEF Coming
    <3>2. CASE scan.found[f] = 0
      BY <1>1, <2>1, <2>2, <2>4, <3>2 DEF Coming
    <3>3. CASE scan.found[f] # 0 /\ SameHash(Enrich(f, scan.found[f]))
      <4>1. Exists(f) /\ scan.found[f] = Version(f)
        BY <2>4, <3>3 DEF Arriving, Newest
      <4> QED BY <3>3, <4>1, SameIsFresh, JobTypes
    <3> QED BY <2>2, <3>1, <3>2, <3>3
  <2> QED BY <1>3, <1>4, <2>1, <2>2, <2>3, <2>4
<1>8. CASE \E g \in Files :
             /\ WorkerParsed(g) /\ scan.pc = "work" /\ scan.found[g] # 0
             /\ ScanMoves("work", scan.todo, [scan.found EXCEPT ![g] = 0],
                  scan.made \cup {Enrich(g, scan.found[g])})
  <2>1. PICK g \in Files :
             /\ WorkerParsed(g) /\ scan.pc = "work" /\ scan.found[g] # 0
             /\ ScanMoves("work", scan.todo, [scan.found EXCEPT ![g] = 0],
                  scan.made \cup {Enrich(g, scan.found[g])})
    BY <1>8
  <2>2. queue' = queue /\ lost' = lost
    BY <2>1, Zenon DEF WorkerParsed, diskVars
  <2>3. /\ scan'.made = scan.made \cup {Enrich(g, scan.found[g])} /\ scan'.todo = scan.todo
        /\ scan'.found[g] = 0 /\ (f # g => scan'.found[f] = scan.found[f])
    BY <1>0, <2>1 DEF ScanMoves, ScanType
  <2>4. Enrich(g, scan.found[g]).file = g
    BY JobTypes
  <2>5. CASE f \in lost
    BY <1>4, <2>2, <2>5
  <2>6. CASE f \notin lost /\ f = g
    <3>1. scan.found[f] = Version(f)
      BY <2>1, <2>6 DEF Arriving, Newest
    <3>2. \A j \in Jobs(f)' : j \in Jobs(f) \/ j = Enrich(f, Version(f))
      BY <1>1, <2>2, <2>3, <2>6, <3>1, JobsOf, JobsNow
    <3>3. Coming(f)'
      BY <2>3, <2>4, <2>6 DEF Coming
    <3> QED BY <1>3, <2>3, <2>6, <3>2, <3>3
  <2>7. CASE f \notin lost /\ f # g
    <3>2. \A j \in Jobs(f)' : j \in Jobs(f)
      BY <1>1, <2>2, <2>3, <2>4, <2>7, JobsOf, JobsNow
    <3>3. Coming(f) => Coming(f)'
      BY <1>1, <2>1, <2>2, <2>3 , <2>7 DEF Coming
    <3> QED BY <1>3, <2>3, <2>7, <3>2, <3>3
  <2> QED BY <2>5, <2>6, <2>7
<1>9. CASE \E j \in scan.made :
             /\ WorkerSubmitted(j)
             /\ ScanMoves(scan.pc, scan.todo, scan.found, scan.made \ {j})
  <2>1. PICK j \in scan.made :
             /\ WorkerSubmitted(j)
             /\ ScanMoves(scan.pc, scan.todo, scan.found, scan.made \ {j})
    BY <1>9
  <2>2. queue' = Append(queue, j) /\ lost' = lost /\ j \in JobType
    BY <1>0, <2>1 DEF WorkerSubmitted, diskVars, ScanType
  <2>3. Range(queue') = Range(queue) \cup {j}
    BY <1>0, <2>2, Sent
  <2>4. \A k \in Jobs(f)' : k \in Jobs(f)
    BY <1>1, <2>1, <2>3, JobsOf, JobsNow DEF ScanMoves
  <2>5. Coming(f) => Coming(f)'
    BY <1>1, <2>1, <2>3 DEF Coming, ScanMoves
  <2>6. scan'.found = scan.found
    BY <2>1 DEF ScanMoves
  <2> QED BY <1>3, <1>4, <2>2, <2>4, <2>5, <2>6
<1>10. CASE SubmitSync /\ ScanMoves("wait", scan.todo, scan.found, scan.made)
  <2>1. queue' = Append(queue, SyncJob) /\ lost' = lost /\ scan.pc = "work"
    BY <1>10, Zenon DEF SubmitSync, SyncJob, diskVars
  <2>2. SyncJob \in JobType /\ SyncJob.file # f
    BY <1>0, JobTypes DEF SyncJob
  <2>3. Range(queue') = Range(queue) \cup {SyncJob}
    BY <1>0, <2>1, <2>2, Sent
  <2>4. \A k \in Jobs(f)' : k \in Jobs(f)
    BY <1>1, <1>10, <2>2, <2>3, JobsOf, JobsNow DEF ScanMoves
  <2>5. Coming(f) => Coming(f)'
    BY <1>1, <1>10, <2>1, <2>3 DEF Coming, ScanMoves
  <2>6. scan'.found = scan.found
    BY <1>10 DEF ScanMoves
  <2> QED BY <1>3, <1>4, <2>1, <2>4, <2>5, <2>6
<1>11. CASE ScanDone /\ scan.pc = "embed" /\ scan' = IdleScan
  <2>1. queue' = queue /\ lost' = lost
    BY <1>11, Zenon DEF ScanDone, diskVars
  <2>2. scan.made = {} /\ scan.found[f] = 0 /\ scan'.made = {} /\ scan'.found[f] = 0
    BY <1>11, IdleStages DEF ScanRight
  <2>3. \A j \in Jobs(f)' : j \in Jobs(f)
    BY <1>1, <2>1, <2>2, JobsOf, JobsNow
  <2>4. Coming(f) => Coming(f)'
    BY <1>1, <1>11, <2>1, <2>2 DEF Coming
  <2> QED BY <1>3, <1>4, <2>1, <2>2, <2>3, <2>4
<1>12. CASE f \in lost' /\ ((\E g \in Files : ScanSkips(g) \/ WorkerFails(g)) \/ ScanFails)
  BY <1>12 DEF Arriving
<1>13. CASE /\ f \notin lost'
            /\ \E g \in Files :
                 /\ ScanSkips(g) /\ scan.pc = "read"
                 /\ ScanMoves("read", scan.todo \ {g}, scan.found, scan.made)
  <2>1. PICK g \in Files :
          ScanSkips(g) /\ ScanMoves("read", scan.todo \ {g}, scan.found, scan.made)
    BY <1>13
  <2>2. queue' = queue /\ lost' = lost \cup {g} /\ scan.pc = "read"
    BY <2>1, Zenon DEF ScanSkips
  <2>3. \A j \in Jobs(f)' : j \in Jobs(f)
    BY <1>1, <2>1, <2>2, JobsOf, JobsNow DEF ScanMoves
  <2>4. f # g /\ f \notin lost
    BY <1>13, <2>2
  <2>5. Coming(f) => Coming(f)'
    BY <1>1, <2>1, <2>2, <2>4 DEF Coming, ScanMoves
  <2> QED BY <1>3, <2>1, <2>3, <2>4, <2>5 DEF ScanMoves
<1>14. CASE /\ f \notin lost'
            /\ \E g \in Files :
                 /\ WorkerFails(g) /\ scan.pc = "work"
                 /\ ScanMoves("work", scan.todo, [scan.found EXCEPT ![g] = 0], scan.made)
  <2>1. PICK g \in Files :
          /\ WorkerFails(g)
          /\ ScanMoves("work", scan.todo, [scan.found EXCEPT ![g] = 0], scan.made)
    BY <1>14
  <2>2. queue' = queue /\ lost' = lost \cup {g} /\ scan.pc = "work"
    BY <2>1, Zenon DEF WorkerFails
  <2>3. \A j \in Jobs(f)' : j \in Jobs(f)
    BY <1>1, <2>1, <2>2, JobsOf, JobsNow DEF ScanMoves
  <2>4. f # g /\ f \notin lost
    BY <1>14, <2>2
  <2>5. scan'.found[f] = scan.found[f]
    BY <1>0, <2>1, <2>4 DEF ScanMoves, ScanType
  <2>6. Coming(f) => Coming(f)'
    BY <1>1, <2>1, <2>2, <2>5 DEF Coming, ScanMoves
  <2> QED BY <1>3, <2>3, <2>4, <2>5, <2>6
<1>15. CASE /\ f \notin lost' /\ ScanFails
            /\ scan.pc \in {"read", "embed"} /\ scan' = IdleScan
  <2>1. /\ queue' = queue
        /\ lost' = lost \cup scan.todo \cup {g \in Files : scan.found[g] # 0}
    BY <1>15, Zenon DEF ScanFails
  <2>2. /\ f \notin lost /\ f \notin scan.todo /\ scan.found[f] = 0
        /\ scan.made = {} /\ scan'.made = {} /\ scan'.found[f] = 0
    BY <1>15, <2>1, IdleStages DEF ScanRight
  <2>3. \A j \in Jobs(f)' : j \in Jobs(f)
    BY <1>1, <2>1, <2>2, JobsOf, JobsNow
  <2>4. Coming(f) => Coming(f)'
    BY <1>1, <2>1, <2>2 DEF Coming
  <2> QED BY <1>3, <2>2, <2>3, <2>4
<1> QED BY <1>5, <1>6, <1>7, <1>8, <1>9, <1>10, <1>11, <1>12, <1>13, <1>14, <1>15, ScanActs

(* A row is written: what is on the way of its file is older, and it is fresh. *)
LEMMA UpsertArrives ==
  ASSUME Typed, WriterRight, NEW f \in Files, Arriving(f), UpsertFile
  PROVE  Arriving(f)'
<1> DEFINE g == writer.job.file
<1>0. /\ scan \in ScanType /\ queue \in Seq(JobType) /\ row \in [Files -> Nat]
      /\ loop \in RunType({"idle", "check", "parse", "submit"})
      /\ writer \in RunType({"idle", "guard", "deleteChunks", "insertChunks"})
      /\ Version(f) \in Nat \ {0}
  BY LastContent DEF Typed, DiskTyped, PipeTyped
<1>1. /\ hist' = hist /\ lost' = lost /\ events' = events
      /\ UNCHANGED <<raw, pending, emitting, sending>>
      /\ row' = [row EXCEPT ![g] = writer.job.ver]
      /\ queue' = [n \in DOMAIN queue |-> Outdate(g, queue[n])]
      /\ loop' = IF loop.pc = "submit" THEN [loop EXCEPT !.job = Outdate(g, @)] ELSE loop
      /\ scan' = [scan EXCEPT !.made = {Outdate(g, j) : j \in @}]
      /\ writer' = [writer EXCEPT !.pc = "deleteChunks"]
      /\ writer.pc = "guard" /\ writer.job.kind = "enrich"
  BY Zenon DEF UpsertFile, diskVars, watchVars
<1>2. Told(f)' = Told(f)
  BY <1>1, Zenon DEF Told
<1>3. /\ Range(queue') = {Outdate(g, j) : j \in Range(queue)}
      /\ loop'.job = loop.job \/ loop'.job = Outdate(g, loop.job)
      /\ scan'.made = {Outdate(g, j) : j \in scan.made} /\ scan'.found = scan.found
      /\ scan'.pc = scan.pc /\ scan'.todo = scan.todo
      /\ writer'.job = writer.job /\ writer'.pc = "deleteChunks"
  <2> HIDE DEF g
  <2>1. Range(queue') = {Outdate(g, j) : j \in Range(queue)}
    BY <1>0, <1>1, QueueOutdated
  <2>2. loop'.job = loop.job \/ loop'.job = Outdate(g, loop.job)
    BY <1>0, <1>1 DEF RunType
  <2>3. /\ scan'.made = {Outdate(g, j) : j \in scan.made} /\ scan'.found = scan.found
        /\ scan'.pc = scan.pc /\ scan'.todo = scan.todo
    BY <1>0, <1>1 DEF ScanType
  <2>4. writer'.job = writer.job /\ writer'.pc = "deleteChunks"
    BY <1>0, <1>1 DEF RunType
  <2> QED BY <2>1, <2>2, <2>3, <2>4
<1>4. \A j \in Jobs(f) : j \in JobType
  <2>1. /\ Range(queue) \subseteq JobType /\ scan.made \subseteq JobType
        /\ loop.job \in JobType /\ writer.job \in JobType
    BY <1>0 DEF RunType, ScanType, Range
  <2> QED BY <2>1, JobsNow
<1>5. \A j \in JobType : /\ Outdate(g, j).file = j.file /\ Outdate(g, j).kind = j.kind
                         /\ Outdate(g, j).ver = j.ver
                         /\ j.file # g => Outdate(g, j) = j
  BY Outdated DEF Outdate
<1>6. \A j \in Jobs(f)' : \E k \in Jobs(f) : j = k \/ j = Outdate(g, k)
  <2> SUFFICES ASSUME NEW j \in Jobs(f)'
               PROVE  \E k \in Jobs(f) : j = k \/ j = Outdate(g, k)
    OBVIOUS
  <2>0. loop.job \in JobType /\ scan.made \subseteq JobType /\ Range(queue) \subseteq JobType
    BY <1>0 DEF RunType, ScanType, Range
  <2>1. j.file = f
    BY JobsOf
  <2>2. CASE j = writer.job \/ j = loop.job
    BY <2>1, <2>2, JobsNow
  <2>3. CASE \E k \in Range(queue) \cup {loop.job} \cup scan.made : j = Outdate(g, k)
    <3>1. PICK k \in Range(queue) \cup {loop.job} \cup scan.made : j = Outdate(g, k)
      BY <2>3
    <3>2. k.file = f
      BY <1>5, <2>0, <2>1, <3>1
    <3> QED BY <3>1, <3>2, JobsNow
  <2> QED BY <1>3, <2>2, <2>3, JobsOf
<1> SUFFICES ASSUME f \notin lost PROVE Newest(f)' /\ (Fresh(f)' \/ Coming(f)')
  BY <1>1 DEF Arriving
<1>7. Newest(f) /\ (Fresh(f) \/ Coming(f))
  BY DEF Arriving
<1>8. CASE f # g
  <2>1. row'[f] = row[f]
    BY <1>0, <1>1, <1>8
  <2>2. \A j \in Jobs(f)' : j \in Jobs(f)
    <3>1. \A k \in Jobs(f) : Outdate(g, k) = k
      BY <1>4, <1>5, <1>8, JobsNow
    <3> QED BY <1>6, <3>1
  <2>3. Newest(f)' /\ (Fresh(f)' <=> Fresh(f))
    BY <1>1, <1>2, <1>3, <1>7, <2>1, <2>2, Carried
  <2>4. Coming(f) => Coming(f)'
    <3>1. ASSUME NEW j \in Range(queue) \cup {loop.job} \cup scan.made, j.file = f
          PROVE  j \in Range(queue') \cup {loop'.job} \cup scan'.made
      <4>1. j \in JobType
        BY <1>4, <3>1, JobsNow
      <4>2. Outdate(g, j) = j
        BY <1>5, <1>8, <3>1, <4>1
      <4> QED BY <1>3, <3>1, <4>2
    <3> QED BY <1>1, <1>3, <1>8, <3>1 DEF Coming
  <2> QED BY <1>7, <2>3, <2>4
<1>9. CASE f = g
  <2>1. writer.job \in Jobs(f)
    BY <1>9, JobsNow
  <2>2. writer.job.ver = Version(f) /\ Exists(f)
    BY <1>7, <2>1 DEF Newest
  <2>3. row'[f] = Version(f)
    BY <1>0, <1>1, <1>9, <2>2
  <2>4. Exists(f)' /\ Version(f)' = Version(f) /\ Last(hist'[f]) = hist'[f][Version(f)]
    BY <1>1, <2>2 DEF Exists, Version, Last
  <2>5. Fresh(f)'
    BY <1>0, <2>3, <2>4 DEF Fresh, Text
  <2>6. \A j \in Jobs(f)' : j.kind = "enrich" /\ j.ver = Version(f)
    BY <1>4, <1>5, <1>6, <1>7 DEF Newest
  <2>7. Newest(f)'
    <3>1. scan'.found[f] # 0 => scan'.found[f] = Version(f)
      BY <1>3, <1>7 DEF Newest
    <3>2. \A e \in Range(events') \cup {sending'} : e.file = f => e.type = "modify"
      BY <1>1, <1>7, Zenon DEF Newest
    <3> QED BY <2>4, <2>5, <2>6, <3>1, <3>2, Zenon DEF Newest
  <2> QED BY <2>5, <2>7
<1> QED BY <1>8, <1>9

(* The writer writes what is on the way, or finds it written. *)
LEMMA WriterArrives ==
  ASSUME Typed, WriterRight, SyncsRight, NEW f \in Files, Arriving(f), Writer
  PROVE  Arriving(f)'
<1>0. /\ scan \in ScanType /\ queue \in Seq(JobType) /\ row \in [Files -> Nat]
      /\ writer \in RunType({"idle", "guard", "deleteChunks", "insertChunks"})
      /\ f # NoFile /\ NoJob.file = NoFile /\ IdleWriter.job = NoJob
  BY Parameters, JobTypes, IdleStages DEF Typed, DiskTyped, PipeTyped
<1>1. CASE UpsertFile
  BY <1>1, UpsertArrives
<1>2. CASE ~UpsertFile
  <2>1. /\ hist' = hist /\ events' = events /\ loop' = loop /\ lost \subseteq lost'
        /\ UNCHANGED <<raw, pending, emitting, sending>>
        /\ scan' = scan \/ (SyncDone /\ scan' = [scan EXCEPT !.pc = "embed"])
        /\ row' = row \/ (DeleteFile /\ row' = [row EXCEPT ![writer.job.file] = 0])
        /\ queue' = queue \/ TakeJob
    BY <1>2 DEF Writer, TakeJob, SyncDone, DeleteFile, SkipJob, DeleteChunks,
      InsertChunks, JobFails, diskVars, dbVars, watchVars
  <2>2. Told(f)' = Told(f)
    BY <2>1, Zenon DEF Told
  <2>3. /\ scan'.made = scan.made /\ scan'.found = scan.found /\ scan'.todo = scan.todo
        /\ scan'.pc = scan.pc \/ scan.pc # "read"
    BY <1>0, <2>1 DEF ScanType, SyncDone, SyncsRight
  <2> SUFFICES ASSUME f \notin lost' PROVE Newest(f)' /\ (Fresh(f)' \/ Coming(f)')
    BY DEF Arriving
  <2>4. f \notin lost /\ Newest(f) /\ (Fresh(f) \/ Coming(f))
    BY <2>1 DEF Arriving
  <2>5. row'[f] = row[f]
    <3>1. CASE DeleteFile
      <4>1. writer.job.kind = "delete"
        BY <3>1, Zenon DEF DeleteFile
      <4>2. writer.job \notin Jobs(f)
        BY <2>4, <4>1 DEF Newest
      <4>3. writer.job.file # f
        BY <4>2, JobsNow
      <4> QED BY <1>0, <2>1, <4>3
    <3> QED BY <2>1, <3>1
  <2>6. ASSUME \A j \in Jobs(f)' : j \in Jobs(f), Coming(f) => Coming(f)' \/ Fresh(f)
        PROVE  Newest(f)' /\ (Fresh(f)' \/ Coming(f)')
    BY <2>1, <2>2, <2>3, <2>4, <2>5, <2>6, Carried
  <2>7. CASE TakeJob
    <3>1. /\ queue # <<>> /\ queue' = Tail(queue) /\ writer.pc = "idle"
          /\ writer'.job = Head(queue) /\ writer'.pc = "guard"
      BY <2>7 DEF TakeJob
    <3>2. Range(queue) = {Head(queue)} \cup Range(queue')
      BY <1>0, <3>1, Received
    <3>3. \A j \in Jobs(f)' : j \in Jobs(f)
      BY <2>1, <2>3, <3>1, <3>2, JobsOf, JobsNow
    <3>4. Coming(f) => Coming(f)'
      BY <2>1, <2>3, <3>1, <3>2 DEF Coming
    <3> QED BY <2>6, <3>3, <3>4
  <2>8. CASE DeleteChunks
    <3>1. writer'.job = writer.job /\ writer.pc # "guard" /\ queue' = queue
      BY <1>0, <2>8 DEF DeleteChunks, RunType
    <3>2. \A j \in Jobs(f)' : j \in Jobs(f)
      BY <2>1, <2>3, <3>1, JobsOf, JobsNow
    <3>3. Coming(f) => Coming(f)'
      BY <2>1, <2>3, <3>1 DEF Coming
    <3> QED BY <2>6, <3>2, <3>3
  <2>9. CASE SyncDone \/ DeleteFile \/ SkipJob \/ InsertChunks \/ JobFails
    <3>1. writer' = IdleWriter /\ queue' = queue
      BY <2>9, Zenon DEF SyncDone, DeleteFile, SkipJob, InsertChunks, JobFails
    <3>2. \A j \in Jobs(f)' : j \in Jobs(f)
      BY <1>0, <2>1, <2>3, <3>1, JobsOf, JobsNow
    <3>3. CASE writer.pc # "guard" \/ writer.job.file # f
      <4>1. Coming(f) => Coming(f)'
        BY <2>1, <2>3, <3>1, <3>3 DEF Coming
      <4> QED BY <2>6, <3>2, <4>1
    <3>4. CASE writer.pc = "guard" /\ writer.job.file = f
      <4>1. writer.job \in Jobs(f)
        BY <3>4, JobsNow
      <4>2. /\ writer.job.kind = "enrich" /\ writer.job.ver = Version(f) /\ Exists(f)
            /\ writer.job.older => Fresh(f)
        BY <2>4, <4>1 DEF Newest
      <4>3. ~JobFails
        BY <2>1, <3>4 DEF JobFails, Halfway
      <4>4. SkipJob
        BY <2>9, <3>4, <4>2, <4>3 DEF SyncDone, DeleteFile, InsertChunks
      <4>5. Stale(writer.job)
        BY <4>4, Zenon DEF SkipJob
      <4>6. Fresh(f)
        BY <3>4, <4>2, <4>5, SameIsFresh DEF Stale
      <4> QED BY <2>6, <3>2, <4>6
    <3> QED BY <3>3, <3>4
  <2> QED BY <1>2, <2>7, <2>8, <2>9 DEF Writer
<1> QED BY <1>1, <1>2

------------------------------------------------------------------------------
(* The invariant and the properties *)

(* What Arriving reads. *)
LEMMA ArrivingSame ==
  ASSUME NEW f, Arriving(f),
         UNCHANGED <<hist, row, raw, pending, emitting, sending, events>>,
         UNCHANGED <<loop, scan, queue, writer, lost>>
  PROVE  Arriving(f)'
  BY DEF Arriving, Newest, Coming, Jobs, Fresh, Exists, Version, Text

(* Nothing comes to know of a file that is not there. *)
LEMMA AbsentStays ==
  ASSUME Typed, ScanRight, SyncsRight, NEW f \in Files, Absent(f), [Next]_vars,
         ~\E t \in Texts \cup {Gone} : Edit(f, t)
  PROVE  Absent(f)'
<1>0. /\ hist \in [Files -> Seq(Texts \cup {Gone})] /\ row \in [Files -> Nat]
      /\ events \in Seq(Events) /\ queue \in Seq(JobType) /\ scan \in ScanType
      /\ loop \in RunType({"idle", "check", "parse", "submit"})
      /\ f # NoFile /\ NoJob.file = NoFile /\ NoEvent.file = NoFile
  BY Parameters, JobTypes DEF Typed, DiskTyped, WatchTyped, PipeTyped, NoEvent
<1>1. /\ ~Exists(f) /\ row[f] = 0
      /\ f \notin pending /\ f \notin emitting /\ scan.found[f] = 0
      /\ \A e \in Range(events) \cup {sending} : e.file # f
      /\ writer.job.file # f /\ loop.job.file # f
      /\ \A j \in Range(queue) \cup scan.made : j.file # f
  BY JobsNow DEF Absent
<1>2. hist'[f] = hist[f]
  <2>1. ASSUME NEW g \in Files, NEW t \in Texts \cup {Gone}, Edit(g, t)
        PROVE  hist'[f] = hist[f]
    <3>1. hist' = [hist EXCEPT ![g] = Append(@, t)] /\ g # f
      BY <2>1, Zenon DEF Edit
    <3> QED BY <1>0, <3>1
  <2> QED BY <2>1, DataSteps
<1>3. ~Exists(f)'
  BY <1>1, <1>2 DEF Exists
<1>4. row'[f] = 0
  <2>1. CASE DeleteFile
    <3>1. row' = [row EXCEPT ![writer.job.file] = 0]
      BY <2>1, Zenon DEF DeleteFile
    <3> QED BY <1>0, <1>1, <3>1
  <2>2. CASE UpsertFile
    <3>1. row' = [row EXCEPT ![writer.job.file] = writer.job.ver]
      BY <2>2, Zenon DEF UpsertFile
    <3> QED BY <1>0, <1>1, <3>1
  <2> QED BY <1>1, <2>1, <2>2, DataSteps
<1>5. /\ f \notin pending' /\ f \notin emitting'
      /\ \A e \in Range(events') \cup {sending'} : e.file # f
  <2>1. CASE UNCHANGED <<pending, emitting, sending, events>>
    BY <1>1, <2>1
  <2>2. CASE Restart
    BY <1>0, <2>2, NothingSent DEF Restart
  <2>3. CASE TakeEvent
    <3>1. UNCHANGED <<pending, emitting, sending>>
      BY <2>3, Zenon DEF TakeEvent, watchVars
    <3> QED BY <1>1, <2>3, <3>1, TakeEffect
  <2>4. CASE \E g \in Files : HandleEvent(g)
    BY <1>1, <2>4 DEF HandleEvent
  <2>5. CASE \E ready \in SUBSET pending : FlushPending(ready)
    BY <1>1, <2>5 DEF FlushPending
  <2>6. CASE \E g \in Files : Stat(g)
    BY <1>1, <2>6 DEF Stat
  <2>7. CASE Send
    <3>1. /\ sending # NoEvent /\ events' = Append(events, sending) /\ sending' = NoEvent
          /\ UNCHANGED <<pending, emitting>>
      BY <2>7, Zenon DEF Send
    <3>2. Range(events') = Range(events) \cup {sending}
      BY <3>1, Sent DEF Typed, WatchTyped
    <3> QED BY <1>0, <1>1, <3>1, <3>2
  <2>8. CASE Drop
    BY <1>0, <1>1, <2>8 DEF Drop
  <2>9. (\E g \in Files : Overflow(g)) \/ (\E d \in Dirs : HandleDir(d) \/ MakeDir(d))
          \/ BranchSwitch \/ ScanDone \/ (\E g \in Files, t \in Texts \cup {Gone} : Edit(g, t))
        => UNCHANGED <<pending, emitting, sending, events>>
    BY Zenon DEF Overflow, HandleDir, MakeDir, BranchSwitch, ScanDone, Edit
  <2>10. UNCHANGED <<dirs, watchVars, events>> => UNCHANGED <<pending, emitting, sending, events>>
    BY DEF watchVars
  <2>11. Watcher =>
           \/ \E d \in Dirs : HandleDir(d)
           \/ \E g \in Files : HandleEvent(g)
           \/ \E g \in Files : Overflow(g)
           \/ \E g \in Files : Stat(g)
           \/ \E ready \in SUBSET pending : FlushPending(ready)
           \/ Send \/ Drop
    BY Zenon DEF Watcher
  <2> QED BY <2>1, <2>2, <2>3, <2>4, <2>5, <2>6, <2>7, <2>8, <2>9, <2>10, <2>11, WatchSteps
<1>6. \A g, v : Enrich(g, v).file = g
  BY JobTypes
<1>7. scan'.found[f] = 0 /\ \A j \in scan'.made : j.file # f
  <2>1. CASE scan' = scan
    BY <1>1, <2>1
  <2>2. CASE scan' = Scanning("read") \/ scan' = IdleScan
    BY <2>2, IdleStages
  <2>3. CASE \E g \in Files :
               ScanMoves("read", scan.todo \ {g},
                 [scan.found EXCEPT ![g] = IF Exists(g) THEN Version(g) ELSE 0], scan.made)
    BY <1>0, <1>1, <2>3 DEF ScanMoves, ScanType
  <2>4. CASE Filtered
    BY <1>1, <2>4 DEF Filtered
  <2>5. CASE \E g \in Files :
               /\ scan.found[g] # 0
               /\ ScanMoves("work", scan.todo, [scan.found EXCEPT ![g] = 0],
                    scan.made \cup {Enrich(g, scan.found[g])})
    BY <1>0, <1>1, <1>6, <2>5 DEF ScanMoves, ScanType
  <2>6. CASE \E pc, todo, jobs :
               ScanMoves(pc, todo, scan.found, jobs) /\ jobs \subseteq scan.made
    BY <1>1, <2>6 DEF ScanMoves
  <2>7. CASE ScanMoves(scan.pc, scan.todo, scan.found,
               {Outdate(writer.job.file, j) : j \in scan.made})
    <3>1. scan.made \subseteq JobType /\ scan'.found = scan.found
      BY <1>0, <2>7 DEF ScanMoves, ScanType
    <3>2. \A j \in scan.made : Outdate(writer.job.file, j).file # f
      BY <1>1, <3>1, Outdated
    <3> QED BY <1>1, <2>7, <3>1, <3>2 DEF ScanMoves
  <2>8. CASE \E g \in Files :
               ScanMoves("work", scan.todo, [scan.found EXCEPT ![g] = 0], scan.made)
    BY <1>0, <1>1, <2>8 DEF ScanMoves, ScanType
  <2>9. \A j : scan.made \ {j} \subseteq scan.made
    OBVIOUS
  <2> QED BY <2>1, <2>2, <2>3, <2>4, <2>5, <2>6, <2>7, <2>8, <2>9, ScanEffects
<1>8. loop'.job.file # f
  <2>1. CASE loop' = IdleLoop
    BY <1>0, <2>1, IdleStages
  <2>2. CASE TakeEvent
    <3>1. PICK e \in Events :
            /\ Range(events) = {e} \cup Range(events')
            /\ \/ loop' = [pc |-> "submit", job |-> Delete(e.file)]
               \/ loop' = [pc |-> "check", job |-> Enrich(e.file, Version(e.file))]
               \/ loop' = IdleLoop
      BY <2>2, TakeEffect
    <3>2. e.file # f /\ e.file \in Files
      BY <1>1, <3>1 DEF Events
    <3> QED BY <2>1, <3>1, <3>2, JobTypes
  <2>3. loop.job \in JobType
    BY <1>0 DEF RunType
  <2> QED BY <1>1, <2>1, <2>2, <2>3, LoopEffects, Outdated
<1>9. writer'.job.file # f
  BY <1>0, <1>1, WriterEffects, IdleStages
<1>10. \A j \in Range(queue') : j.file # f
  <2>1. \A j \in JobType : Sending(j) => j.file # f
    BY <1>0, <1>1, JobTypes DEF Sending, Submitted, WorkerSubmitted, SyncJob
  <2>2. \A j \in Range(queue) : j \in JobType
    BY <1>0 DEF Range
  <2> QED BY <1>1, <2>1, <2>2, QueueEffects, NothingSent, Outdated
<1>11. Jobs(f)' = {}
  BY <1>7, <1>8, <1>9, <1>10, JobsOf
<1> QED BY <1>3, <1>4, <1>5, <1>7, <1>11 DEF Absent

(* Before the first scan nothing is on its way and every file is to be read. *)
LEMMA InitInv == Init => Inv
<1> SUFFICES ASSUME Init PROVE Inv
  OBVIOUS
<1>0. /\ row = [f \in Files |-> 0] /\ chunks = [f \in Files |-> 0]
      /\ dirs = OldDirs /\ watched = {} /\ made = {} /\ raw = [f \in Files |-> 0]
      /\ pending = {} /\ emitting = {} /\ sending = NoEvent /\ signal = FALSE
      /\ events = <<>> /\ loop = IdleLoop /\ scan = Scanning("read")
      /\ queue = <<>> /\ writer = IdleWriter
      /\ restarts = 0 /\ lost = {} /\ torn = {}
  BY Zenon DEF Init
<1>1. PICK t \in Texts :
        hist = [f \in Files |-> IF DirOf[f] \in OldDirs THEN <<t>> ELSE <<Gone>>]
  BY Parameters DEF Init
<1>2. \A f \in Files : hist[f] \in Seq(Texts \cup {Gone}) /\ Version(f) = 1
  <2>1. \A x \in Texts \cup {Gone} :
          <<x>> \in Seq(Texts \cup {Gone}) /\ Len(<<x>>) = 1
    OBVIOUS
  <2> QED BY <1>1, <2>1 DEF Version
<1>3. DiskTyped
  <2>1. hist \in [Files -> Seq(Texts \cup {Gone})]
    BY <1>1, <1>2
  <2> QED BY <1>0, <1>2, <2>1, Parameters DEF DiskTyped
<1>4. WatchTyped
  <2>1. Len(<<>>) <= EventCap /\ <<>> \in Seq(Events)
    BY NothingSent, Parameters
  <2> QED BY <1>0, <2>1, Parameters DEF WatchTyped
<1>5. PipeTyped
  BY <1>0, IdleStages, NothingSent DEF PipeTyped
<1>6. QueueRight /\ LoopRight /\ WriterRight /\ SyncsRight
  BY <1>0, IdleStages, JobTypes, NothingSent
  DEF QueueRight, LoopRight, WriterRight, SyncsRight, Halfway
<1>7. ScanRight
  BY <1>0, <1>2, IdleStages DEF ScanRight
<1>8. ChunksRight
  BY <1>0 DEF ChunksRight, ChunksOfHash, Text
<1>9. ASSUME NEW f \in Files PROVE Absent(f) \/ Arriving(f)
  <2>1. f # NoFile /\ NoEvent.file = NoFile /\ NoJob.file = NoFile
    BY Parameters, JobTypes DEF NoEvent
  <2>2. \A j \in Jobs(f) : FALSE
    BY <1>0, <2>1, JobsNow, NothingSent, IdleStages
  <2>3. \A e \in Range(events) \cup {sending} : e.file # f
    BY <1>0, <2>1, NothingSent
  <2>4. scan.pc = "read" /\ f \in scan.todo /\ scan.found[f] = 0
    BY <1>0, IdleStages
  <2>5. Exists(f) => Newest(f)
    BY <2>2, <2>3, <2>4, Zenon DEF Newest
  <2>6. ~Exists(f) => Absent(f)
    BY <1>0, <2>2, <2>3, <2>4 DEF Absent
  <2> QED BY <2>4, <2>5, <2>6 DEF Arriving, Coming
<1> QED BY <1>3, <1>4, <1>5, <1>6, <1>7, <1>8, <1>9 DEF Inv, Typed

(* Every step keeps it. *)
LEMMA StepInv == Inv /\ [Next]_vars => Inv'
<1> SUFFICES ASSUME Inv, [Next]_vars PROVE Inv'
  OBVIOUS
<1>0. /\ Typed /\ QueueRight /\ LoopRight /\ WriterRight /\ ScanRight /\ SyncsRight
      /\ ChunksRight /\ \A f \in Files : Absent(f) \/ Arriving(f)
  BY Zenon DEF Inv
<1>1. DiskTyped' /\ WatchTyped'
  BY <1>0, DiskTypedStep, WatchTypedStep
<1>2. PipeTyped' /\ QueueRight' /\ LoopRight' /\ WriterRight' /\ ScanRight'
  BY <1>0, QueueStep, LoopStep, WriterStep, ScanStep, Zenon DEF PipeTyped
<1>3. SyncsRight' /\ ChunksRight'
  BY <1>0, SyncsStep, ChunksStep
<1>4. ASSUME NEW f \in Files PROVE Absent(f)' \/ Arriving(f)'
  <2>1. Absent(f) \/ Arriving(f)
    BY <1>0
  <2>2. ASSUME NEW t \in Texts \cup {Gone}, Edit(f, t)
        PROVE  Arriving(f)'
    BY <1>0, <2>2, EditArrives
  <2>3. CASE Absent(f) /\ ~\E t \in Texts \cup {Gone} : Edit(f, t)
    BY <1>0, <2>3, AbsentStays
  <2>4. CASE Arriving(f)
    <3>1. CASE \E g \in Files, t \in Texts \cup {Gone} : Edit(g, t)
      BY <1>0, <2>4, <3>1, EditArrives
    <3>2. CASE Restart
      BY <1>0, <2>4, <3>2, RestartArrives
    <3>3. CASE Watcher
      BY <1>0, <2>4, <3>3, WatcherArrives
    <3>4. CASE Loop
      BY <1>0, <2>4, <3>4, LoopArrives
    <3>5. CASE Scan
      BY <1>0, <2>4, <3>5, ScanArrives
    <3>6. CASE Writer
      BY <1>0, <2>4, <3>6, WriterArrives
    <3>7. CASE UNCHANGED vars
      BY <2>4, <3>7, ArrivingSame DEF vars
    <3>8. CASE \E d \in Dirs : MakeDir(d)
      <4>1. /\ UNCHANGED <<hist, row, raw, pending, emitting, sending, events>>
            /\ UNCHANGED <<loop, scan, queue, writer, lost>>
        BY <3>8, Zenon DEF MakeDir, dbVars
      <4> QED BY <2>4, <4>1, ArrivingSame
    <3> QED BY <3>1, <3>2, <3>3, <3>4, <3>5, <3>6, <3>7, <3>8, Zenon DEF Next
  <2> QED BY <2>1, <2>2, <2>3, <2>4
<1> QED BY <1>1, <1>2, <1>3, <1>4, Zenon DEF Inv, Typed

(* Whatever changes on disk, fails, crashes or starts again: what the stages of the *)
(* pipeline hold is of versions that the file has had, and of a file whose last      *)
(* change was seen only the last one, until its row is fresh.                     *)
THEOREM Invariant == Spec => []Inv
<1>1. Init => Inv
  BY InitInv
<1>2. Inv /\ [Next]_vars => Inv'
  BY StepInv
<1> QED BY <1>1, <1>2, PTL DEF Spec

(* Between two write jobs of daemon/writer.go the chunks of a file are those of its   *)
(* hash, unless its last job was cut short: what the three hash checks skip is        *)
(* indexed.                                                                  *)
THEOREM RowsConsistent == Spec => []RowConsistent
<1>1. ASSUME Inv PROVE TypeOK
  <2>0. Typed /\ ScanRight
    BY <1>1 DEF Inv
  <2>1. /\ \A f \in Files : hist[f] \in Seq(Texts \cup {Gone}) /\ Version(f) \in Versions
        /\ row \in [Files -> Versions] /\ chunks \in [Files -> Versions]
        /\ \A f \in Files : row[f] <= Version(f)
        /\ restarts \in 0..MaxRestarts /\ lost \cup torn \subseteq Files
    BY <2>0, LastContent DEF Typed, DiskTyped, Versions
  <2>2. WatchTyped
    BY <2>0 DEF Typed
  <2>3. /\ loop.pc \in {"idle", "check", "parse", "submit"} /\ loop.job \in JobType
        /\ scan.pc \in {"read", "work", "wait", "embed", "idle"} /\ scan.todo \subseteq Files
        /\ scan.found \in [Files -> Versions] /\ scan.made \subseteq JobType
        /\ queue \in Seq(JobType) /\ writer.job \in JobType
        /\ writer.pc \in {"idle", "guard", "deleteChunks", "insertChunks"}
    BY <2>0 DEF Typed, PipeTyped, RunType, ScanType, Versions
  <2>4. scan.pc \in {"wait", "embed", "idle"} =>
          scan.made = {} /\ \A f \in Files : scan.found[f] = 0
    BY <2>0 DEF ScanRight
  <2> QED BY <2>1, <2>2, <2>3, <2>4 DEF TypeOK, WatchTyped
<1>2. ASSUME Inv, writer.pc = "idle" PROVE \A f \in Files \ torn : ChunksOfHash(f)
  BY <1>2 DEF Inv, ChunksRight, Halfway
<1>3. Inv => RowConsistent
  BY <1>1, <1>2 DEF RowConsistent
<1> QED BY <1>3, Invariant, PTL

(* When every goroutine waits, the row of every file has the hash of its content,      *)
(* but for the files whose last change the history marks: no debounce, channel,        *)
(* scan beside the event loop, hash check or timestamp guard loses another.           *)
THEOREM QuietFresh == Spec => []QuietIsFresh
<1>1. ASSUME Inv, Quiet, NEW f \in Files, f \notin lost PROVE Fresh(f)
  <2>0. f # NoFile /\ NoEvent.file = NoFile /\ IdleLoop.job.file = NoFile
    BY Parameters, IdleStages, JobTypes DEF NoEvent
  <2>1. Fresh(f) \/ Coming(f)
    BY <1>1 DEF Inv, Absent, Arriving, Fresh
  <2>2. /\ raw[f] = 0 /\ pending = {} /\ emitting = {} /\ sending = NoEvent /\ events = <<>>
        /\ loop = IdleLoop /\ scan.pc = "idle" /\ queue = <<>> /\ writer.pc = "idle"
    BY <1>1 DEF Quiet
  <2>3. scan.made = {} /\ scan.found[f] = 0
    BY <1>1, <2>2 DEF Inv, ScanRight
  <2>4. ~Coming(f)
    BY <2>0, <2>2, <2>3, NothingSent DEF Coming
  <2> QED BY <2>1, <2>4
<1>2. Inv => QuietIsFresh
  BY <1>1 DEF QuietIsFresh
<1> QED BY <1>2, Invariant, PTL
=============================================================================
