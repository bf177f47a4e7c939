---------------------------- MODULE IndexFreshness ----------------------------
(***************************************************************************)
(* From a change of a file on disk to its row and chunks in the database.    *)
(*                                                                         *)
(*   - the watcher turns fsnotify events into pending paths, and these into   *)
(*     change events (daemon/watcher.go);                                    *)
(*   - the event loop reads the file, compares its hash with the database     *)
(*     and submits a job (EnrichFile in daemon/enrichment.go);                *)
(*   - a scan, at start-up and after a bulk change, reads every file and       *)
(*     submits a job for each that differs (ScanRepo, IndexAll);              *)
(*   - the writer applies the jobs in order, with a hash and a timestamp        *)
(*     guard (daemon/writer.go).                                             *)
(*                                                                         *)
(* A file is the sequence of its contents since the beginning; a version is   *)
(* an index into it and a hash is the text found there.  A watch is on one     *)
(* directory, not on what lies below it; directories are made (or moved in),   *)
(* and stay.  The writer's queue is the one of WriteQueue.                     *)
(***************************************************************************)
EXTENDS Naturals, Sequences, SequencesExt, FiniteSets

CONSTANTS
  Files, NoFile,
  Dirs, OldDirs,     \* the directories that are indexed; those there from the start
  DirOf, Above,      \* the directory of a file, the one that a directory is in
  Texts, Gone,       \* contents of a file, and its absence
  Bulk,              \* more ready paths than this are a branch switch (20)
  EventCap,          \* capacity of eventCh (100)
  MaxEdits,          \* bound: changes on disk
  MaxRestarts,       \* bound: restarts of the process
  World              \* what happens, a subset of AllEvents

AllEvents == {"overlap",   \* a file changes while an older content is on its way
              "gap",       \* ... or between its scan and the start of the watcher
              "newdir",    \* a directory is made, and files in it that no watch shows
              "delete",    \* a file is deleted
              "drop",      \* an event waits a second for a full channel, or the
                           \* kernel's own queue of events overflows
              "error",     \* a read, a parse, a scan, the start of the watcher or a
                           \* transaction of the writer fails
              "crash"}     \* the process dies within a write job

ASSUME FreshnessAssumption ==
  /\ IsFiniteSet(Files) /\ NoFile \notin Files
  /\ OldDirs \subseteq Dirs /\ OldDirs # {}
  /\ DirOf \in [Files -> Dirs] /\ Above \in [Dirs -> Dirs]
  /\ Texts # {} /\ Gone \notin Texts
  /\ {Bulk, EventCap} \subseteq Nat \ {0}
  /\ {MaxEdits, MaxRestarts} \subseteq Nat /\ World \subseteq AllEvents

VARIABLES
  hist,       \* the contents of each file, the last is on disk
  row,        \* files.content_hash, as a version; 0 without a row
  chunks,     \* the version the file's chunks were parsed from
  dirs,       \* the directories that exist
  watched,    \* those with an fsnotify watch, none until the watcher starts
  made,       \* those whose Create event is not handled yet
  raw,        \* fsnotify events not handled yet, per file
  pending,    \* Watcher.pending
  emitting,   \* flushPending: the ready paths still to be emitted
  sending,    \* flushPending: the event waiting for eventCh
  signal,     \* branchSwitchCh
  events,     \* eventCh
  loop,       \* the event loop of startWatcher: EnrichFile
  scan,       \* the goroutine of the scans: ScanRepo and IndexAll
  queue,      \* the writer's channel
  writer,     \* the job being processed
  restarts,
  lost,       \* history: files whose last change the pipeline may have missed
  torn        \* history: files whose last job ended after its first transaction

diskVars  == <<hist, dirs, restarts, lost, torn>>
dbVars    == <<row, chunks>>
watchVars == <<watched, made, raw, pending, emitting, sending, signal>>
vars == <<hist, dirs, row, chunks, watched, made, raw, pending, emitting, sending,
          signal, events, loop, scan, queue, writer, restarts, lost, torn>>

Version(f)  == Len(hist[f])
Text(f, v)  == IF v = 0 THEN Gone ELSE hist[f][v]
Exists(f)   == Last(hist[f]) # Gone

NoEvent == [file |-> NoFile, type |-> "none"]
NoJob   == [kind |-> "none", file |-> NoFile, ver |-> 0, older |-> FALSE]

Enrich(f, v) == [kind |-> "enrich", file |-> f, ver |-> v, older |-> FALSE]
Delete(f)    == [kind |-> "delete", file |-> f, ver |-> 0, older |-> FALSE]

IdleLoop   == [pc |-> "idle", job |-> NoJob]
IdleWriter == [pc |-> "idle", job |-> NoJob]

(* found: the version ScanRepo has read, until a worker has parsed it; made:     *)
(* the jobs of workers on their way into the queue.                          *)
Scanning(pc) == [pc |-> pc, todo |-> Files, found |-> [f \in Files |-> 0], made |-> {}]
IdleScan     == [Scanning("idle") EXCEPT !.todo = {}]

Init ==
  /\ dirs = OldDirs
  /\ hist = [f \in Files |-> IF DirOf[f] \in OldDirs
                               THEN <<CHOOSE t \in Texts : TRUE>>   \* whichever it is
                               ELSE <<Gone>>]
  /\ row = [f \in Files |-> 0] /\ chunks = [f \in Files |-> 0]
  /\ watched = {} /\ made = {} /\ raw = [f \in Files |-> 0]
  /\ pending = {} /\ emitting = {} /\ sending = NoEvent /\ signal = FALSE
  /\ events = <<>> /\ loop = IdleLoop /\ scan = Scanning("read")
  /\ queue = <<>> /\ writer = IdleWriter
  /\ restarts = 0 /\ lost = {} /\ torn = {}

------------------------------------------------------------------------------
(* The world outside *)

Jobs(f) == {j \in Range(queue) \cup {writer.job, loop.job} \cup scan.made : j.file = f}

(* Something was decided from the file's present content and is not written: *)
(* a content read, a job made, or a stat that found the file gone.            *)
Captured(f) ==
  \/ Jobs(f) # {} \/ scan.found[f] # 0
  \/ \E e \in Range(events) \cup {sending} : e.file = f /\ e.type = "delete"

(* A change that neither an event nor a later read of the scan will show. *)
Unseen(f) == DirOf[f] \notin watched /\ f \notin scan.todo

Edit(f, t) ==
  /\ DirOf[f] \in dirs
  /\ t # Last(hist[f])
  /\ MapThenSumSet(Version, Files) < Cardinality(Files) + MaxEdits
  /\ Captured(f) => "overlap" \in World
  /\ Unseen(f) => (IF watched = {} THEN "gap" ELSE "newdir") \in World
  /\ t = Gone => "delete" \in World
  /\ hist' = [hist EXCEPT ![f] = Append(@, t)]
  /\ raw' = IF DirOf[f] \in watched THEN [raw EXCEPT ![f] = @ + 1] ELSE raw
  /\ lost' = IF Captured(f) \/ Unseen(f) \/ t = Gone THEN lost \cup {f} ELSE lost \ {f}
  /\ UNCHANGED <<dbVars, dirs, watched, made, pending, emitting, sending, signal,
                 events, loop, scan, queue, writer, restarts, torn>>

(* A directory is made.  Only a watch on the one above it shows that, and what  *)
(* happens in it before it has a watch of its own shows nowhere.               *)
MakeDir(d) ==
  /\ "newdir" \in World
  /\ d \notin dirs /\ Above[d] \in dirs
  /\ dirs' = dirs \cup {d}
  /\ made' = IF Above[d] \in watched THEN made \cup {d} ELSE made
  /\ UNCHANGED <<hist, dbVars, watched, raw, pending, emitting, sending, signal,
                 events, loop, scan, queue, writer, restarts, lost, torn>>

Halfway == {"deleteChunks", "insertChunks"}

(* The process ends and the next one starts: between two write jobs, unless   *)
(* it crashes.  What was on its way is gone, and the scan begins again.        *)
Restart ==
  /\ restarts < MaxRestarts
  /\ writer.pc # "idle" => "crash" \in World
  /\ restarts' = restarts + 1
  /\ watched' = {} /\ made' = {} /\ raw' = [f \in Files |-> 0]
  /\ pending' = {} /\ emitting' = {} /\ sending' = NoEvent /\ signal' = FALSE
  /\ events' = <<>> /\ loop' = IdleLoop /\ scan' = Scanning("read")
  /\ queue' = <<>> /\ writer' = IdleWriter
  /\ torn' = IF writer.pc \in Halfway THEN torn \cup {writer.job.file} ELSE torn
  /\ UNCHANGED <<hist, dirs, dbVars, lost>>

------------------------------------------------------------------------------
(* The watcher *)

(* A new directory gets a watch, unless fsw.Add fails, which is ignored.  There  *)
(* is no look at what it holds already, neither files nor directories.         *)
HandleDir(d) ==
  /\ d \in made /\ made' = made \ {d}
  /\ watched' \in {watched, watched \cup {d}}
  /\ UNCHANGED <<diskVars, dbVars, raw, pending, emitting, sending, signal,
                 events, loop, scan, queue, writer>>

(* fsnotify reports an overflow on its Errors channel, where it is logged.      *)
Overflow(f) ==
  /\ "drop" \in World /\ raw[f] > 0
  /\ raw' = [raw EXCEPT ![f] = @ - 1]
  /\ lost' = lost \cup {f}
  /\ UNCHANGED <<hist, dirs, restarts, torn, dbVars, watched, made, pending, emitting,
                 sending, signal, events, loop, scan, queue, writer>>

(* EvalSymlinks fails for a path that does not exist, and the event is ignored. *)
HandleEvent(f) ==
  /\ raw[f] > 0
  /\ raw' = [raw EXCEPT ![f] = @ - 1]
  /\ pending' = IF Exists(f) THEN pending \cup {f} ELSE pending
  /\ UNCHANGED <<diskVars, dbVars, watched, made, emitting, sending, signal,
                 events, loop, scan, queue, writer>>

(* Mutant: the map is cleared, whatever the age of the other paths. *)
FlushPendingClears(ready) ==
  /\ emitting = {} /\ sending = NoEvent
  /\ ready # {} /\ ready \subseteq pending
  /\ pending' = {}
  /\ emitting' = ready
  /\ signal' = (signal \/ Cardinality(ready) > Bulk)
  /\ UNCHANGED <<diskVars, dbVars, watched, made, raw, sending,
                 events, loop, scan, queue, writer>>

(* The paths whose debounce time is over. *)
FlushPending(ready) ==
  /\ emitting = {} /\ sending = NoEvent
  /\ ready # {} /\ ready \subseteq pending
  /\ pending' = pending \ ready
  /\ emitting' = ready
  /\ signal' = (signal \/ Cardinality(ready) > Bulk)
  /\ UNCHANGED <<diskVars, dbVars, watched, made, raw, sending,
                 events, loop, scan, queue, writer>>

(* os.Stat decides the type of the change. *)
Stat(f) ==
  /\ sending = NoEvent /\ f \in emitting
  /\ emitting' = emitting \ {f}
  /\ sending' = [file |-> f, type |-> IF Exists(f) THEN "modify" ELSE "delete"]
  /\ UNCHANGED <<diskVars, dbVars, watched, made, raw, pending, signal,
                 events, loop, scan, queue, writer>>

(* Mutant: the send does not wait for the channel. *)
SendAtOnce ==
  /\ sending # NoEvent /\ sending' = NoEvent
  /\ events' = IF Len(events) < EventCap THEN Append(events, sending) ELSE events
  /\ UNCHANGED <<diskVars, dbVars, watched, made, raw, pending, emitting, signal,
                 loop, scan, queue, writer>>

Send ==
  /\ sending # NoEvent /\ Len(events) < EventCap
  /\ events' = Append(events, sending) /\ sending' = NoEvent
  /\ UNCHANGED <<diskVars, dbVars, watched, made, raw, pending, emitting, signal,
                 loop, scan, queue, writer>>

(* The channel stays full for a second. *)
Drop ==
  /\ "drop" \in World
  /\ sending # NoEvent /\ Len(events) = EventCap
  /\ sending' = NoEvent
  /\ lost' = lost \cup {sending.file}
  /\ UNCHANGED <<hist, dirs, restarts, torn, dbVars, watched, made, raw, pending,
                 emitting, signal, events, loop, scan, queue, writer>>

Watcher ==
  \/ \E d \in Dirs : HandleDir(d)
  \/ \E f \in Files : HandleEvent(f) \/ Overflow(f) \/ Stat(f)
  \/ \E ready \in SUBSET pending : FlushPending(ready)
  \/ Send \/ Drop

------------------------------------------------------------------------------
(* EnrichFile, in the event loop of startWatcher *)

(* The next event, and the content of its file, if it can be read. *)
TakeEvent ==
  /\ loop.pc = "idle" /\ events # <<>>
  /\ events' = Tail(events)
  /\ LET e == Head(events) IN
     loop' = CASE e.type = "delete" -> [pc |-> "submit", job |-> Delete(e.file)]
               [] e.type = "modify" /\ Exists(e.file) ->
                    [pc |-> "check", job |-> Enrich(e.file, Version(e.file))]
               [] OTHER -> IdleLoop
  /\ UNCHANGED <<diskVars, dbVars, watchVars, scan, queue, writer>>

SameHash(j) == row[j.file] # 0 /\ Text(j.file, row[j.file]) = Text(j.file, j.ver)

(* Already indexed with the same hash? *)
CheckHash ==
  /\ loop.pc = "check"
  /\ loop' = IF SameHash(loop.job) THEN IdleLoop ELSE [loop EXCEPT !.pc = "parse"]
  /\ UNCHANGED <<diskVars, dbVars, watchVars, events, scan, queue, writer>>

(* The file is parsed and stat'ed, and the job gets its timestamp. *)
Parsed ==
  /\ loop.pc = "parse"
  /\ loop' = IF Exists(loop.job.file) THEN [loop EXCEPT !.pc = "submit"] ELSE IdleLoop
  /\ UNCHANGED <<diskVars, dbVars, watchVars, events, scan, queue, writer>>

(* The file cannot be read, the lookup, the parser or the stat fails: the error   *)
(* is logged, and the event is gone.                                          *)
LoopFails ==
  /\ "error" \in World /\ loop.pc \in {"check", "parse"}
  /\ loop' = IdleLoop
  /\ lost' = lost \cup {loop.job.file}
  /\ UNCHANGED <<hist, dirs, restarts, torn, dbVars, watchVars, events, scan, queue,
                 writer>>

Submitted ==
  /\ loop.pc = "submit"
  /\ queue' = Append(queue, loop.job)
  /\ loop' = IdleLoop
  /\ UNCHANGED <<diskVars, dbVars, watchVars, events, scan, writer>>

Loop == TakeEvent \/ CheckHash \/ Parsed \/ LoopFails \/ Submitted

------------------------------------------------------------------------------
(* ScanRepo and IndexAll *)

BranchSwitch ==
  /\ watched # {} /\ scan.pc = "idle" /\ signal
  /\ signal' = FALSE
  /\ scan' = Scanning("read")
  /\ UNCHANGED <<diskVars, dbVars, watched, made, raw, pending, emitting, sending,
                 events, loop, queue, writer>>

(* The walk reads the files in some order.  A change not captured before is   *)
(* seen now.                                                                *)
ScanFile(f) ==
  /\ scan.pc = "read" /\ f \in scan.todo
  /\ scan' = [scan EXCEPT !.todo = @ \ {f},
                          !.found[f] = IF Exists(f) THEN Version(f) ELSE 0]
  /\ lost' = IF Exists(f) /\ ~Captured(f) THEN lost \ {f} ELSE lost
  /\ UNCHANGED <<hist, dirs, restarts, torn, dbVars, watchVars, events, loop, queue, writer>>

(* The file cannot be read, or is taken for binary: the scan goes on without it.  *)
ScanSkips(f) ==
  /\ "error" \in World /\ scan.pc = "read" /\ f \in scan.todo
  /\ scan' = [scan EXCEPT !.todo = @ \ {f}]
  /\ lost' = lost \cup {f}
  /\ UNCHANGED <<hist, dirs, restarts, torn, dbVars, watchVars, events, loop, queue, writer>>

(* BatchGetFileHashes; IndexAll returns at once when no file has changed. *)
FilterChanged ==
  LET changed(f) == scan.found[f] # 0 /\ ~SameHash(Enrich(f, scan.found[f])) IN
  /\ scan.pc = "read" /\ scan.todo = {}
  /\ scan' = [scan EXCEPT !.pc = IF \E f \in Files : changed(f) THEN "work" ELSE "embed",
                          !.found = [f \in Files |-> IF changed(f) THEN @[f] ELSE 0]]
  /\ UNCHANGED <<diskVars, dbVars, watchVars, events, loop, queue, writer>>

(* enrichFile of a worker: parsed, and stamped with the present time. *)
WorkerParsed(f) ==
  /\ scan.pc = "work" /\ scan.found[f] # 0
  /\ scan' = [scan EXCEPT !.found[f] = 0, !.made = @ \cup {Enrich(f, scan.found[f])}]
  /\ UNCHANGED <<diskVars, dbVars, watchVars, events, loop, queue, writer>>

(* The parser of the worker fails: the file is counted as an error and left.     *)
WorkerFails(f) ==
  /\ "error" \in World /\ scan.pc = "work" /\ scan.found[f] # 0
  /\ scan' = [scan EXCEPT !.found[f] = 0]
  /\ lost' = lost \cup {f}
  /\ UNCHANGED <<hist, dirs, restarts, torn, dbVars, watchVars, events, loop, queue, writer>>

WorkerSubmitted(j) ==
  /\ j \in scan.made
  /\ queue' = Append(queue, j)
  /\ scan' = [scan EXCEPT !.made = @ \ {j}]
  /\ UNCHANGED <<diskVars, dbVars, watchVars, events, loop, writer>>

(* The workers are done: the sync job stands behind their jobs. *)
SubmitSync ==
  /\ scan.pc = "work" /\ scan.made = {} /\ \A f \in Files : scan.found[f] = 0
  /\ queue' = Append(queue, [NoJob EXCEPT !.kind = "sync"])
  /\ scan' = [scan EXCEPT !.pc = "wait"]
  /\ UNCHANGED <<diskVars, dbVars, watchVars, events, loop, writer>>

(* The start-up scan is followed by embedFromDB and the watcher, which adds a    *)
(* watch for every directory; a branch switch by embedFromDB.                 *)
ScanDone ==
  /\ scan.pc = "embed"
  /\ scan' = IdleScan
  /\ watched' = IF watched = {} THEN dirs ELSE watched
  /\ UNCHANGED <<diskVars, dbVars, made, raw, pending, emitting, sending, signal,
                 events, loop, queue, writer>>

(* The walk, the lookup of the hashes or the parser of a worker fails, or the     *)
(* watcher itself (fsw.Add at the limit of watches): after the start-up scan      *)
(* there is no watcher then, and the daemon serves on.                          *)
ScanFails ==
  /\ "error" \in World /\ scan.pc \in {"read", "embed"}
  /\ scan' = IdleScan
  /\ lost' = lost \cup scan.todo \cup {f \in Files : scan.found[f] # 0}
  /\ UNCHANGED <<hist, dirs, restarts, torn, dbVars, watchVars, events, loop, queue, writer>>

Scan ==
  \/ BranchSwitch \/ FilterChanged \/ SubmitSync \/ ScanDone \/ ScanFails
  \/ \E f \in Files : ScanFile(f) \/ ScanSkips(f) \/ WorkerParsed(f) \/ WorkerFails(f)
  \/ \E j \in scan.made : WorkerSubmitted(j)

------------------------------------------------------------------------------
(* The writer: processJob *)

(* A row updated after the job's timestamp. *)
Stale(j) == row[j.file] # 0 /\ (SameHash(j) \/ j.older)

TakeJob ==
  /\ writer.pc = "idle" /\ queue # <<>>
  /\ writer' = [pc |-> "guard", job |-> Head(queue)] /\ queue' = Tail(queue)
  /\ UNCHANGED <<diskVars, dbVars, watchVars, events, loop, scan>>

SyncDone ==
  /\ writer.pc = "guard" /\ writer.job.kind = "sync"
  /\ scan' = [scan EXCEPT !.pc = "embed"] /\ writer' = IdleWriter
  /\ UNCHANGED <<diskVars, dbVars, watchVars, events, loop, queue>>

(* Mutant: the chunks of the file are not deleted with it. *)
DeleteFileNoCascade ==
  /\ writer.pc = "guard" /\ writer.job.kind = "delete"
  /\ row' = [row EXCEPT ![writer.job.file] = 0]
  /\ writer' = IdleWriter
  /\ UNCHANGED <<chunks, diskVars, watchVars, events, loop, scan, queue>>

DeleteFile ==
  /\ writer.pc = "guard" /\ writer.job.kind = "delete"
  /\ row' = [row EXCEPT ![writer.job.file] = 0]
  /\ chunks' = [chunks EXCEPT ![writer.job.file] = 0]
  /\ writer' = IdleWriter /\ torn' = torn \ {writer.job.file}
  /\ UNCHANGED <<hist, dirs, restarts, lost, watchVars, events, loop, scan, queue>>

SkipJob ==
  /\ writer.pc = "guard" /\ writer.job.kind = "enrich" /\ Stale(writer.job)
  /\ writer' = IdleWriter
  /\ UNCHANGED <<diskVars, dbVars, watchVars, events, loop, scan, queue>>

(* indexed_at = now: the jobs of the file that exist already are older. *)
Outdate(f, j) == IF j.file = f THEN [j EXCEPT !.older = TRUE] ELSE j

UpsertFile ==
  LET f == writer.job.file IN
  /\ writer.pc = "guard" /\ writer.job.kind = "enrich" /\ ~Stale(writer.job)
  /\ row' = [row EXCEPT ![f] = writer.job.ver]
  /\ writer' = [writer EXCEPT !.pc = "deleteChunks"]
  /\ queue' = [n \in DOMAIN queue |-> Outdate(f, queue[n])]
  /\ loop' = IF loop.pc = "submit" THEN [loop EXCEPT !.job = Outdate(f, @)] ELSE loop
  /\ scan' = [scan EXCEPT !.made = {Outdate(f, j) : j \in @}]
  /\ UNCHANGED <<chunks, diskVars, watchVars, events>>

DeleteChunks ==
  /\ writer.pc = "deleteChunks"
  /\ chunks' = [chunks EXCEPT ![writer.job.file] = 0]
  /\ writer' = [writer EXCEPT !.pc = "insertChunks"]
  /\ UNCHANGED <<row, diskVars, watchVars, events, loop, scan, queue>>

InsertChunks ==
  /\ writer.pc = "insertChunks"
  /\ chunks' = [chunks EXCEPT ![writer.job.file] = writer.job.ver]
  /\ writer' = IdleWriter /\ torn' = torn \ {writer.job.file}
  /\ UNCHANGED <<row, hist, dirs, restarts, lost, watchVars, events, loop, scan, queue>>

(* A transaction fails; what is committed stays. *)
JobFails ==
  /\ "error" \in World
  /\ writer.pc # "idle" /\ writer.job.kind # "sync"
  /\ writer' = IdleWriter
  /\ IF writer.pc \in Halfway
       THEN torn' = torn \cup {writer.job.file} /\ UNCHANGED lost
       ELSE lost' = lost \cup {writer.job.file} /\ UNCHANGED torn
  /\ UNCHANGED <<hist, dirs, restarts, dbVars, watchVars, events, loop, scan, queue>>

Writer ==
  \/ TakeJob \/ SyncDone \/ DeleteFile \/ SkipJob
  \/ UpsertFile \/ DeleteChunks \/ InsertChunks \/ JobFails

(* Nothing is on its way to the database. *)
Quiet ==
  /\ made = {} /\ \A f \in Files : raw[f] = 0
  /\ pending \cup emitting = {} /\ sending = NoEvent /\ ~signal /\ events = <<>>
  /\ loop = IdleLoop /\ scan.pc = "idle" /\ queue = <<>> /\ writer.pc = "idle"

Next ==
  \/ \E f \in Files, t \in Texts \cup {Gone} : Edit(f, t)
  \/ \E d \in Dirs : MakeDir(d)
  \/ Restart \/ Watcher \/ Loop \/ Scan \/ Writer
  \/ Quiet /\ UNCHANGED vars   \* every goroutine waits for the next change

(* Every goroutine is scheduled: the watcher's, which handles the events of the   *)
(* kernel, its flushLoop, in which the debounce of a path runs out, the event     *)
(* loop, the scans and the writer.                                            *)
Fairness ==
  /\ WF_vars((\E f \in Files : HandleEvent(f)) \/ (\E d \in Dirs : HandleDir(d)))
  /\ WF_vars(FlushPending(pending) \/ Send \/ \E f \in Files : Stat(f))
  /\ WF_vars(Loop) /\ WF_vars(Scan) /\ WF_vars(Writer)

Spec     == Init /\ [][Next]_vars
FairSpec == Spec /\ Fairness

------------------------------------------------------------------------------
(* Properties *)

Versions == Nat
JobType  == [kind : {"none", "enrich", "delete", "sync"}, file : Files \cup {NoFile},
             ver : Versions, older : BOOLEAN]
Events   == [file : Files, type : {"modify", "delete"}]

(* Every variable has its type; a scan past its workers has nothing left. *)
TypeOK ==
  /\ \A f \in Files : hist[f] \in Seq(Texts \cup {Gone}) /\ Version(f) \in Versions
  /\ row \in [Files -> Versions] /\ chunks \in [Files -> Versions]
  /\ \A f \in Files : row[f] <= Version(f)
  /\ OldDirs \subseteq dirs /\ dirs \subseteq Dirs /\ made \cup watched \subseteq dirs
  /\ raw \in [Files -> Nat]
  /\ pending \subseteq Files /\ emitting \subseteq Files
  /\ sending \in Events \cup {NoEvent} /\ signal \in BOOLEAN
  /\ events \in Seq(Events) /\ Len(events) <= EventCap
  /\ loop.pc \in {"idle", "check", "parse", "submit"} /\ loop.job \in JobType
  /\ scan.pc \in {"read", "work", "wait", "embed", "idle"} /\ scan.todo \subseteq Files
  /\ scan.found \in [Files -> Versions] /\ scan.made \subseteq JobType
  /\ scan.pc \in {"wait", "embed", "idle"} =>
       scan.made = {} /\ \A f \in Files : scan.found[f] = 0
  /\ queue \in Seq(JobType) /\ writer.job \in JobType
  /\ writer.pc \in {"idle", "guard", "deleteChunks", "insertChunks"}
  /\ restarts \in 0..MaxRestarts /\ lost \cup torn \subseteq Files

Fresh(f) ==
  IF Exists(f) THEN row[f] # 0 /\ Text(f, row[f]) = Last(hist[f]) ELSE row[f] = 0

(* When all is quiet the row of every file has the hash of its content, except  *)
(* for a file whose last change was not seen: it fell between a read of the     *)
(* file and the write of what was read, or between its scan and the watcher, or *)
(* in a directory that had no watch yet (or never gets one, because it was made  *)
(* with the one above it, or fsw.Add failed), or its event was dropped, or it     *)
(* was a deletion, or reading or parsing it, or a transaction, failed.  The       *)
(* watcher's debounce, the channels, a scan beside the event loop, the two hash checks and the           *)
(* timestamp guard lose nothing else, and the next change seen, or the next       *)
(* scan, makes up for what was lost.                                         *)
QuietIsFresh == Quiet => \A f \in Files \ lost : Fresh(f)

(* Between two write jobs the chunks of a file are those of its hash, which is   *)
(* what lets the hash checks skip it, unless a job of the file was cut short and *)
(* none has been completed since.                                            *)
ChunksOfHash(f) == Text(f, chunks[f]) = Text(f, row[f])
RowConsistent ==
  /\ TypeOK
  /\ writer.pc = "idle" => \A f \in Files \ torn : ChunksOfHash(f)

(* A change reaches the database, whatever else happens at the same time,       *)
(* unless it is one of those that QuietIsFresh excepts.                        *)
ChangeArrives == \A f \in Files : ~Fresh(f) ~> Fresh(f) \/ f \in lost

------------------------------------------------------------------------------
(* What comments of the code say and the code does not do *)

(* docs/design/04-component-design-addendum.md:138 "A newer version was already *)
(* indexed -- skip this stale job": the timestamp guard skips no job that is     *)
(* newer than the row.                                                       *)
SkipsOnlyOlder ==
  writer.pc = "guard" /\ writer.job.kind = "enrich" /\ Stale(writer.job)
    => SameHash(writer.job) \/ writer.job.ver <= row[writer.job.file]

(* docs/architecture/02-architecture-v2.md:295 "Filesystem events (create, modify,  *)
(* delete, rename)": when all is quiet, a deleted file has no row.              *)
DeletedIsGone == Quiet => \A f \in Files : ~Exists(f) => row[f] = 0

(* README.md:24 "file watcher re-indexes on save": when all is quiet, every      *)
(* existing file is fresh.                                                   *)
SavedIsFresh == Quiet => \A f \in Files : Exists(f) => Fresh(f)

(* docs/architecture/02-architecture-v2.md:877 "Single transaction for all        *)
(* stores": a crash leaves no file with its new hash and without its new chunks.  *)
HashMeansIndexed == Quiet => \A f \in Files : ChunksOfHash(f)
=============================================================================
