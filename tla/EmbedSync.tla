------------------------------- MODULE EmbedSync -------------------------------
(***************************************************************************)
(* The chunks of the database, their vectors, and the file embeddings.bin.  *)
(*                                                                         *)
(*   - the writer replaces or deletes the chunks of a file, one transaction  *)
(*     per step (daemon/writer.go);                                         *)
(*   - RunFromDB pages through the chunks with embedded = 0, embeds them in   *)
(*     batches and marks them (vector/embed_worker.go);                      *)
(*   - the savers write the in-memory store to disk and a restart loads it    *)
(*     (vector/bruteforce/store.go, daemon/daemon.go).                       *)
(*                                                                         *)
(* A process is a "daemon", where the three run together (the watcher goes    *)
(* on while a branch switch embeds), or a "cli" run (index --embed), where     *)
(* EmbedProject follows the end of the writer and ends the process.          *)
(* What the embedding server and the circuit breaker answer is chosen        *)
(* freely among the answers that Faults admits.                             *)
(***************************************************************************)
EXTENDS Naturals, FiniteSets, FiniteSetsExt

CONSTANTS
  Files,
  MaxId,         \* bound: chunk ids are 1..MaxId
  ChunkCounts,   \* how many chunks a parse of a file can yield
  PageSize, BatchSize, QuickRetries,
  Worlds,        \* what may happen, records of
                 \*   modes   the processes that are run, a subset of {"daemon", "cli"}
                 \*   faults  what goes wrong, a subset of AllFaults
                 \*   saves   does the periodic saver get to save?
                 \*   passes  maxRetryPasses
                 \*   ids     bound: chunk ids in use
  NoFile

AllFaults == {"transient",   \* the server fails or the circuit is open
              "refused",     \* a 4xx answer, or vectors the sanitizer rejects
              "abort",       \* RunFromDB is cancelled or a query of it fails
              "writeError",  \* a transaction of the writer fails
              "upgrade",     \* the parser version differs: all files are purged
              "stop",        \* Daemon.Stop
              "crash"}

ASSUME EmbedAssumption ==
  /\ IsFiniteSet(Files) /\ Files # {} /\ NoFile \notin Files
  /\ MaxId \in Nat /\ ChunkCounts \subseteq Nat
  /\ {PageSize, BatchSize, QuickRetries} \subseteq Nat \ {0}
  /\ \A w \in Worlds :
       /\ w.modes # {} /\ w.modes \subseteq {"daemon", "cli"}
       /\ w.faults \subseteq AllFaults /\ w.saves \in BOOLEAN
       /\ w.passes \in Nat \ {0} /\ w.ids \in 0..MaxId

VARIABLES
  \* the database
  owner,     \* chunks.file_id: the file of a chunk, NoFile when there is none
  flagged,   \* the chunks with embedded = 1
  status,    \* files.embedding_status
  nextId,    \* AUTOINCREMENT of chunks.id
  \* the vector store, its file, and the saves under way
  vectors, disk, snapshot,
  \* the process
  mode, phase,
  writer,    \* the writer's job: [pc, file, stale]
  run,       \* RunFromDB: its position and its runState
  \* history: the chunks that RunFromDB has given up
  skipped,
  world      \* the one of Worlds that is looked at

vars == <<owner, flagged, status, nextId, vectors, disk, snapshot,
          mode, phase, writer, run, skipped, world>>
db   == <<owner, flagged, status, nextId>>

Modes  == world.modes
Faults == world.faults

Ids      == 1..MaxId
Savers   == {"periodic", "run", "stop"}
Live     == {i \in Ids : owner[i] # NoFile}
Chunks(f) == {i \in Ids : owner[i] = f}

(* ORDER BY id LIMIT n *)
Smallest(S, n) == {i \in S : Cardinality({j \in S : j < i}) < n}

Idle == [pc |-> "idle", page |-> {}, batch |-> {}, need |-> {},
         active |-> BatchSize, last |-> 0, tries |-> 0,
         deferred |-> {}, failing |-> {}, pass |-> 0, start |-> {}]

NoJob == [pc |-> "idle", file |-> NoFile, stale |-> {}]

Init ==
  /\ owner = [i \in Ids |-> NoFile] /\ flagged = {}
  /\ status = [f \in Files |-> "absent"] /\ nextId = 1
  /\ vectors = {} /\ disk = {} /\ snapshot = [s \in Savers |-> {}]
  /\ world \in Worlds /\ mode \in Modes /\ phase = "up"
  /\ writer = NoJob /\ run = Idle /\ skipped = {}

------------------------------------------------------------------------------
(* The writer.  In a cli process it has ended before EmbedProject. *)

WriterMayTakeJob == phase = "up" /\ writer.pc = "idle"

StepTo(pc) == writer' = [writer EXCEPT !.pc = pc]

(* processEnrichmentJob: the file row first, in a transaction of its own. *)
UpsertFile(f) ==
  /\ WriterMayTakeJob
  /\ nextId <= world.ids
  /\ status' = [status EXCEPT ![f] = "pending"]
  /\ writer' = [pc |-> "collect", file |-> f, stale |-> {}]
  /\ UNCHANGED <<owner, flagged, nextId, vectors, disk, snapshot, mode, phase, run, skipped>>

(* GetEmbeddedChunkIDsByFile *)
Collect ==
  /\ writer.pc = "collect"
  /\ writer' = [writer EXCEPT !.pc = "deleteChunks",
                              !.stale = flagged \cap Chunks(writer.file)]
  /\ UNCHANGED <<db, vectors, disk, snapshot, mode, phase, run, skipped>>

(* A delete job begins with it; only the watcher submits one. *)
CollectForDelete(f) ==
  /\ WriterMayTakeJob /\ mode = "daemon"
  /\ status[f] # "absent"
  /\ writer' = [pc |-> "deleteFile", file |-> f, stale |-> flagged \cap Chunks(f)]
  /\ UNCHANGED <<db, vectors, disk, snapshot, mode, phase, run, skipped>>

RemoveChunks(fs) ==
  /\ owner' = [i \in Ids |-> IF owner[i] \in fs THEN NoFile ELSE owner[i]]
  /\ flagged' = {i \in flagged : owner[i] \notin fs}

DeleteChunksByFile ==
  /\ writer.pc = "deleteChunks"
  /\ RemoveChunks({writer.file})
  /\ StepTo("insert")
  /\ UNCHANGED <<status, nextId, vectors, disk, snapshot, mode, phase, run, skipped>>

(* Mutant: ids are one more than the largest row (no AUTOINCREMENT). *)
FreshIdReused == IF Live = {} THEN 1 ELSE Max(Live) + 1

FreshId == nextId

InsertChunks(n) ==
  /\ writer.pc = "insert"
  /\ FreshId + n <= world.ids + 1
  /\ owner' = [i \in Ids |-> IF i \in FreshId..(FreshId + n - 1)
                               THEN writer.file ELSE owner[i]]
  /\ nextId' = FreshId + n
  /\ StepTo("deleteVectors")
  /\ UNCHANGED <<flagged, status, vectors, disk, snapshot, mode, phase, run, skipped>>

DeleteFileByPath ==
  /\ writer.pc = "deleteFile"
  /\ RemoveChunks({writer.file})
  /\ status' = [status EXCEPT ![writer.file] = "absent"]
  /\ StepTo("deleteVectors")
  /\ UNCHANGED <<nextId, vectors, disk, snapshot, mode, phase, run, skipped>>

(* Mutant: the ids are read again after the insert. *)
DeleteVectorsReadLate ==
  /\ writer.pc = "deleteVectors"
  /\ vectors' = vectors \ (writer.stale \cup Chunks(writer.file))
  /\ writer' = NoJob
  /\ UNCHANGED <<db, disk, snapshot, mode, phase, run, skipped>>

(* The vectorDeleter of processJob, after the transactions. *)
DeleteVectors ==
  /\ writer.pc = "deleteVectors"
  /\ vectors' = vectors \ writer.stale
  /\ writer' = NoJob
  /\ UNCHANGED <<db, disk, snapshot, mode, phase, run, skipped>>

(* A transaction fails: the job ends with what is committed, and the stale    *)
(* ids are dropped with it.                                                  *)
WriterFails ==
  /\ "writeError" \in Faults
  /\ writer.pc # "idle"
  /\ writer' = NoJob
  /\ UNCHANGED <<db, vectors, disk, snapshot, mode, phase, run, skipped>>

Writer ==
  \/ \E f \in Files : UpsertFile(f) \/ CollectForDelete(f)
  \/ Collect \/ DeleteChunksByFile \/ DeleteFileByPath
  \/ \E n \in ChunkCounts : InsertChunks(n)
  \/ DeleteVectors \/ WriterFails

------------------------------------------------------------------------------
(* embedStatus.MarkEmbedded and Reset recompute the status of each file that  *)
(* owns one of the chunks.                                                   *)

Affected(ids) == {owner[i] : i \in ids \cap Live}

MarkEmbedded(ids) ==
  /\ flagged' = flagged \cup (ids \cap Live)
  /\ status' = [f \in Files |->
       IF f \notin Affected(ids) THEN status[f]
       ELSE IF Chunks(f) \subseteq flagged' \/ status[f] = "complete"
         THEN "complete" ELSE "partial"]

Reset(ids) ==
  /\ flagged' = flagged \ ids
  /\ status' = [f \in Files |->
       IF f \notin Affected(ids) THEN status[f]
       ELSE IF Chunks(f) \cap flagged' = {} THEN "pending" ELSE "partial"]

ResetAll ==
  /\ flagged' = {}
  /\ status' = [f \in Files |-> IF status[f] = "absent" THEN "absent" ELSE "pending"]

------------------------------------------------------------------------------
(* RunFromDB *)

RunAt(pc) == run.pc = pc

(* embedFromDB saves the store before it starts; a cli run waits for the      *)
(* writer, and reconciles the flags first (EmbedProject): all of them when     *)
(* the store is empty, those without a vector when it holds fewer vectors      *)
(* than there are flags.                                                     *)
Reconcile ==
  IF mode = "daemon" \/ Cardinality(vectors) >= Cardinality(flagged)
    THEN UNCHANGED <<flagged, status>>
    ELSE IF vectors = {} THEN ResetAll ELSE Reset(flagged \ vectors)

StartRun ==
  /\ phase = "up" /\ run.pc = "idle"
  /\ mode = "cli" => writer.pc = "idle"
  /\ Reconcile
  /\ phase' = IF mode = "cli" THEN "embedding" ELSE "up"
  /\ snapshot' = [snapshot EXCEPT !["run"] = vectors]
  /\ run' = [Idle EXCEPT !.pc = "preSave"]
  /\ UNCHANGED <<owner, nextId, vectors, disk, mode, writer, skipped>>

Unembedded == Live \ flagged

(* GetEmbedPage; an empty page ends phase 1. *)
ReadPage ==
  LET page == Smallest({i \in Unembedded : i > run.last}, PageSize) IN
  /\ RunAt("page") /\ run.page = {}
  /\ run' = IF page # {}
              THEN [run EXCEPT !.page = page, !.last = Max(page)]
              ELSE [run EXCEPT !.pc = "retry"]
  /\ UNCHANGED <<db, vectors, disk, snapshot, mode, phase, writer, skipped>>

(* The next activeBatch chunks of the page, without those that Has finds. *)
TakeBatch ==
  LET batch == Smallest(run.page, run.active)
      need  == batch \ vectors IN
  /\ RunAt("page") /\ run.page # {}
  /\ run' = [run EXCEPT !.pc = IF need = {} THEN "mark" ELSE "ask",
                        !.batch = batch, !.need = need, !.tries = 0]
  /\ UNCHANGED <<db, vectors, disk, snapshot, mode, phase, writer, skipped>>

Asked(good) ==
  /\ vectors' = vectors \cup good
  /\ skipped' = skipped \cup (run.need \ good)

(* EmbedBatch succeeds, and the vectors that the sanitizer lets pass are      *)
(* stored, whatever has become of their chunks in the meantime.              *)
Answered(good) ==
  /\ RunAt("ask")
  /\ good \subseteq run.need
  /\ good # run.need => "refused" \in Faults
  /\ Asked(good)
  /\ run' = [run EXCEPT !.pc = "mark", !.active = BatchSize]
  /\ UNCHANGED <<db, disk, snapshot, mode, phase, writer>>

(* ErrPermanentEmbed *)
Permanent ==
  /\ "refused" \in Faults
  /\ RunAt("ask")
  /\ Asked({})
  /\ run' = [run EXCEPT !.pc = "mark"]
  /\ UNCHANGED <<db, disk, snapshot, mode, phase, writer>>

(* Mutant: the shrunk batch is cut behind the one that failed. *)
ShrunkSkips ==
  /\ "transient" \in Faults
  /\ RunAt("ask") /\ run.active > 1
  /\ run' = [run EXCEPT !.pc = "page", !.active = run.active \div 2,
                        !.page = run.page \ run.batch]
  /\ UNCHANGED <<db, vectors, disk, snapshot, mode, phase, writer, skipped>>

(* Mutant: a batch of one is "halved" too. *)
ShrunkForever ==
  /\ "transient" \in Faults
  /\ RunAt("ask")
  /\ run' = [run EXCEPT !.pc = "page", !.active = (run.active + 1) \div 2]
  /\ UNCHANGED <<db, vectors, disk, snapshot, mode, phase, writer, skipped>>

(* A failed request halves the batch, and the page is cut again. *)
Shrunk ==
  /\ "transient" \in Faults
  /\ RunAt("ask") /\ run.active > 1
  /\ run' = [run EXCEPT !.pc = "page", !.active = run.active \div 2]
  /\ UNCHANGED <<db, vectors, disk, snapshot, mode, phase, writer, skipped>>

(* Mutant: a batch that exhausts its retries is not appended to deferred. *)
AttemptFailsDropped ==
  /\ "transient" \in Faults
  /\ RunAt("ask")
  /\ run' = IF run.tries + 1 < QuickRetries
              THEN [run EXCEPT !.tries = @ + 1]
              ELSE [run EXCEPT !.pc = "mark"]
  /\ UNCHANGED <<db, vectors, disk, snapshot, mode, phase, writer, skipped>>

(* A request that cannot shrink fails, or the circuit is open: the last of    *)
(* the quick retries defers the batch to phase 2.                            *)
AttemptFails ==
  /\ "transient" \in Faults
  /\ RunAt("ask")
  /\ run' = IF run.tries + 1 < QuickRetries
              THEN [run EXCEPT !.tries = @ + 1]
              ELSE [run EXCEPT !.pc = "mark", !.deferred = @ \cup run.need]
  /\ UNCHANGED <<db, vectors, disk, snapshot, mode, phase, writer, skipped>>

(* MarkChunksEmbedded for the whole batch: embedded, refused and deferred. *)
Mark ==
  /\ RunAt("mark")
  /\ MarkEmbedded(run.batch)
  /\ run' = [run EXCEPT !.pc = "page", !.page = @ \ run.batch,
                        !.batch = {}, !.need = {}]
  /\ UNCHANGED <<owner, nextId, vectors, disk, snapshot, mode, phase, writer, skipped>>

(* retryDeferred: one request per chunk; the circuit may be open. *)
RetryOne(i) ==
  /\ RunAt("retry") /\ run.pass < world.passes
  /\ i \in run.deferred
  /\ \/ vectors' = vectors \cup {i} /\ UNCHANGED skipped
        /\ run' = [run EXCEPT !.deferred = @ \ {i}]
     \/ "refused" \in Faults
        /\ skipped' = skipped \cup {i} /\ UNCHANGED vectors
        /\ run' = [run EXCEPT !.deferred = @ \ {i}]
     \/ "transient" \in Faults
        /\ run' = [run EXCEPT !.deferred = @ \ {i}, !.failing = @ \cup {i}]
        /\ UNCHANGED <<vectors, skipped>>
  /\ UNCHANGED <<db, disk, snapshot, mode, phase, writer>>

NextPass ==
  /\ RunAt("retry") /\ run.pass < world.passes
  /\ run.deferred = {} /\ run.failing # {}
  /\ run' = [run EXCEPT !.deferred = run.failing, !.failing = {}, !.pass = @ + 1]
  /\ UNCHANGED <<db, vectors, disk, snapshot, mode, phase, writer, skipped>>

(* Nothing left to retry, or no pass left to retry it in. *)
RunReturns ==
  /\ RunAt("retry")
  /\ run.deferred \cup run.failing = {} \/ run.pass = world.passes
  /\ run' = [run EXCEPT !.pc = "done", !.deferred = {}, !.failing = {}]
  /\ skipped' = skipped \cup run.deferred \cup run.failing
  /\ UNCHANGED <<db, vectors, disk, snapshot, mode, phase, writer>>

(* The context is cancelled, or a query or a mark fails. *)
RunAborts ==
  /\ "abort" \in Faults \/ phase \notin {"up", "embedding"}
  /\ run.pc \in {"page", "ask", "mark", "retry"}
  /\ run' = [Idle EXCEPT !.pc = "aborted"]
  /\ UNCHANGED <<db, vectors, disk, snapshot, mode, phase, writer, skipped>>

(* EmbedProject saves once more, with or without an error. *)
RunEnds ==
  /\ run.pc \in {"done", "aborted"}
  /\ IF mode = "cli" /\ vectors # {}
       THEN /\ snapshot' = [snapshot EXCEPT !["run"] = vectors]
            /\ run' = [Idle EXCEPT !.pc = "endSave"]
       ELSE run' = Idle /\ UNCHANGED snapshot
  /\ UNCHANGED <<db, vectors, disk, mode, phase, writer, skipped>>

Run ==
  \/ ReadPage \/ TakeBatch \/ Permanent \/ Shrunk \/ AttemptFails \/ Mark
  \/ \E good \in SUBSET run.need : Answered(good)
  \/ \E i \in run.deferred : RetryOne(i)
  \/ NextPass \/ RunReturns \/ RunAborts \/ RunEnds

------------------------------------------------------------------------------
(* SaveToDisk copies the store under its lock, and replaces the file later     *)
(* without it.  Nothing is saved of an empty store.                          *)

PeriodicSave ==
  /\ world.saves
  /\ phase = IF mode = "cli" THEN "embedding" ELSE "up"
  /\ mode = "cli" => run.pc # "idle"
  /\ snapshot["periodic"] = {} /\ vectors # {}
  /\ snapshot' = [snapshot EXCEPT !["periodic"] = vectors]
  /\ UNCHANGED <<db, vectors, disk, mode, phase, writer, run, skipped>>

Replace(s) ==
  /\ disk' = IF snapshot[s] = {} THEN disk ELSE snapshot[s]
  /\ snapshot' = [snapshot EXCEPT ![s] = {}]

PeriodicSaved ==
  /\ snapshot["periodic"] # {}
  /\ Replace("periodic")
  /\ UNCHANGED <<db, vectors, mode, phase, writer, run, skipped>>

RunSaved ==
  /\ run.pc \in {"preSave", "endSave"}
  /\ Replace("run")
  /\ run' = IF run.pc = "preSave"
              THEN [run EXCEPT !.pc = "page", !.start = Unembedded]
              ELSE Idle
  /\ UNCHANGED <<db, vectors, mode, phase, writer, skipped>>

Save == PeriodicSave \/ PeriodicSaved \/ RunSaved

------------------------------------------------------------------------------
(* The process.  Stop waits for the writer, saves, closes the database and     *)
(* exits.  It does not wait for RunFromDB, which a signal cancels and the end  *)
(* of the client's stdin does not, nor for a periodic save under way.          *)

BeginStop ==
  /\ "stop" \in Faults
  /\ \/ mode = "daemon" /\ phase = "up"
     \/ mode = "cli" /\ phase = "embedding" /\ run.pc = "idle"
  /\ phase' = "stopping"
  /\ UNCHANGED <<db, vectors, disk, snapshot, mode, writer, run, skipped>>

StopSave ==
  /\ phase = "stopping" /\ writer.pc = "idle"
  /\ phase' = "saving"
  /\ snapshot' = [snapshot EXCEPT !["stop"] = vectors]
  /\ UNCHANGED <<db, vectors, disk, mode, writer, run, skipped>>

StopSaved ==
  /\ phase = "saving"
  /\ Replace("stop")
  /\ phase' = "saved"
  /\ UNCHANGED <<db, vectors, mode, writer, run, skipped>>

(* The next process loads the file.  When its parser version differs it        *)
(* deletes every file row, the chunks with them (ensureParserVersion).         *)
Start(m, upgrade) ==
  /\ vectors' = disk /\ snapshot' = [s \in Savers |-> {}]
  /\ mode' = m /\ phase' = "up" /\ writer' = NoJob /\ run' = Idle
  /\ IF upgrade
       THEN RemoveChunks(Files) /\ status' = [f \in Files |-> "absent"]
       ELSE UNCHANGED <<owner, flagged, status>>
  /\ UNCHANGED <<nextId, disk, skipped>>

Restart ==
  \E m \in Modes, upgrade \in BOOLEAN :
    /\ upgrade => "upgrade" \in Faults
    /\ phase = "saved" \/ "crash" \in Faults
    /\ Start(m, upgrade)

Process == BeginStop \/ StopSave \/ StopSaved \/ Restart

Next == (Writer \/ StartRun \/ Run \/ Save \/ Process) /\ UNCHANGED world

(* The goroutine of RunFromDB runs on, and its requests end: the HTTP client    *)
(* has a timeout.                                                            *)
Fairness == WF_vars((Run \/ RunSaved) /\ UNCHANGED world)

Spec     == Init /\ [][Next]_vars
FairSpec == Spec /\ Fairness

------------------------------------------------------------------------------
(* Properties *)

RunPCs    == {"idle", "preSave", "page", "ask", "mark", "retry", "done",
              "aborted", "endSave"}
WriterPCs == {"idle", "collect", "deleteChunks", "insert", "deleteFile", "deleteVectors"}
Statuses  == {"absent", "pending", "partial", "complete"}

(* Every variable has its type, and a chunk belongs to a file row. *)
TypeOK ==
  /\ owner \in [Ids -> Files \cup {NoFile}] /\ flagged \subseteq Live
  /\ status \in [Files -> Statuses] /\ nextId \in 1..(MaxId + 1)
  /\ \A i \in Live : i < nextId /\ status[owner[i]] # "absent"
  /\ vectors \subseteq Ids /\ disk \subseteq Ids /\ skipped \subseteq Ids
  /\ snapshot \in [Savers -> SUBSET Ids]
  /\ mode \in Modes /\ phase \in {"up", "embedding", "stopping", "saving", "saved"}
  /\ writer.pc \in WriterPCs /\ writer.file \in Files \cup {NoFile}
  /\ writer.stale \subseteq Ids
  /\ run.pc \in RunPCs /\ run.active \in 1..BatchSize
  /\ run.need \subseteq run.batch /\ run.batch \cup run.page \subseteq Ids
  /\ run.last \in 0..MaxId /\ run.tries \in 0..QuickRetries /\ run.pass \in 0..world.passes
  /\ run.deferred \cup run.failing \cup run.start \subseteq Ids

(* While the process is not stopped, killed or cancelled: a chunk with embedded =  *)
(* 1 has its vector, or waits in the deferred list of the run under way, or was *)
(* given up, while the writer replaces chunks and deletes vectors beside the run. *)
FlaggedHasVector ==
  TypeOK /\
  (Faults \subseteq {"transient", "refused"} =>
    flagged \subseteq vectors \cup run.deferred \cup run.failing \cup skipped)

(* When RunFromDB returns nil, every chunk that waited for it when it began and *)
(* still exists is marked: the cursor, the shrinking batches and the writer's  *)
(* deletions together skip none.                                             *)
RunCovers == run.pc = "done" => run.start \cap Live \subseteq flagged

(* A chunk is born without a vector: neither the store nor the file, nor a save *)
(* under way, holds one under its id from a chunk that is gone.               *)
BornWithoutVector ==
  [][\A i \in Live' \ Live :
       i \notin vectors \cup disk \cup UNION {snapshot[s] : s \in Savers}]_vars

(* In index --embed, embedding_status tells the truth between the writer's jobs:   *)
(* 'complete' is a file without unembedded chunks, 'partial' one that has some  *)
(* of both.                                                                  *)
Orderly == Modes = {"cli"} /\ Faults \subseteq {"transient", "refused", "stop"}
StatusHonest ==
  Orderly => \A f \in Files : writer.file # f =>
    /\ status[f] = "complete" => Chunks(f) \subseteq flagged
    /\ status[f] = "partial" => /\ Chunks(f) \cap flagged # {}
                                /\ ~(Chunks(f) \subseteq flagged)

(* daemon.go:322 "zero data loss at any scale": in index --embed, when no run is    *)
(* under way, a chunk marked as embedded is embedded, or was given up and reported. *)
(* A periodic save that ends after Stop's would put older vectors in its place      *)
(* (StopPersists below).                                                     *)
NoChunkForgotten ==
  Orderly /\ ~world.saves /\ run.pc = "idle" => flagged \subseteq vectors \cup skipped

(* After index --embed both the statuses and the flags can be believed. *)
IndexEmbedHonest == StatusHonest /\ NoChunkForgotten

(* RunFromDB returns, whatever the server answers and the writer does. *)
RunTerminates == run.pc # "idle" ~> run.pc = "idle"

------------------------------------------------------------------------------
(* What comments of the code say and the code does not do *)

(* writer.go:182 "old vectors are cleaned up. No additional synchronization is   *)
(* needed between RunFromDB and the watcher": when both are idle, each vector    *)
(* is that of a chunk.                                                       *)
NoOrphanVector == writer.pc = "idle" /\ run.pc = "idle" => vectors \subseteq Live

(* daemon.go:500 "Persist embeddings before closing stores": after a Stop the   *)
(* next process finds the vectors that the database claims.                    *)
StopPersists ==
  [][phase = "saved" /\ phase' = "up" => flagged' \subseteq vectors' \cup skipped]_vars

(* daemon.go:369 "handles partial vector loss (e.g. process killed between        *)
(* periodic saves)": EmbedProject ends with a vector for every flag.            *)
EmbedProjectRepairs ==
  run.pc = "endSave" => flagged \subseteq vectors \cup skipped

(* daemon.go:689 "any vectors orphaned here will be reclaimed on next save". *)
SaveReclaims == [][disk' # disk => disk' \subseteq Live]_vars
=============================================================================
