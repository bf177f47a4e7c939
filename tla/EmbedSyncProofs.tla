--------------------------- MODULE EmbedSyncProofs ---------------------------
(***************************************************************************)
(* What holds of the chunks, their flags and their vectors for any files,  *)
(* ids, pages, batches, retries and worlds.                                *)
(*                                                                         *)
(*   Typed    the types, and the file row of the job under way exists      *)
(*   Known    every id that anything remembers was handed out already, so   *)
(*            a chunk that is inserted is remembered by nothing            *)
(*   Backed   where nothing but an orderly Stop ends the process: a flag    *)
(*            has its vector, or the run has yet to embed it, and what the   *)
(*            writer is about to delete from the store is no chunk's any more *)
(*   Stopped  what Stop saves is the store, so that the next process finds   *)
(*            a vector for each flag                                       *)
(*   InTurn   index --embed runs its jobs, the run and Stop one at a time    *)
(*   Covered  what the run has still to mark lies in its page or beyond it  *)
(***************************************************************************)
EXTENDS EmbedSync, FiniteSetTheorems, TLAPS

(* The bounds on their own. *)
LEMMA Constants ==
  /\ MaxId \in Nat /\ Ids \subseteq Nat \ {0}
  /\ PageSize \in Nat \ {0} /\ BatchSize \in Nat \ {0} /\ QuickRetries \in Nat \ {0}
<1>1. /\ MaxId \in Nat
      /\ PageSize \in Nat \ {0} /\ BatchSize \in Nat \ {0} /\ QuickRetries \in Nat \ {0}
  BY EmbedAssumption, Zenon DEF EmbedAssumption
<1> QED BY <1>1 DEF Ids

(* A set of naturals has a least element. *)
LEMMA LeastExists ==
  ASSUME NEW S, S \subseteq Nat, S # {}
  PROVE  \E x \in S : \A y \in S : x <= y
<1>1. IsWellFoundedOn(OpToRel(<, Nat), Nat)
  BY NatLessThanWellFounded
<1>2. PICK x \in S : \A y \in S : <<y, x>> \notin OpToRel(<, Nat)
  BY <1>1, WFMin
<1>3. \A y \in S : ~ (y < x)
  BY <1>2 DEF OpToRel
<1> QED BY <1>3

(* The largest of some chunk ids. *)
LEMMA MaxOfIds ==
  ASSUME NEW S \in SUBSET Ids, S # {}
  PROVE  Max(S) \in S /\ \A y \in S : y <= Max(S)
<1> DEFINE T == {MaxId - x : x \in S}
<1>0. \A x \in 1..MaxId : MaxId - x \in Nat
  BY Constants
<1>1. T \subseteq Nat /\ T # {}
  BY <1>0 DEF Ids
<1>2. PICK t \in T : \A y \in T : t <= y
  BY <1>1, LeastExists
<1>3. PICK x \in S : t = MaxId - x
  BY <1>2
<1>4. \A y \in S : x >= y
  <2> SUFFICES ASSUME NEW y \in S PROVE x >= y
    OBVIOUS
  <2>1. MaxId - x <= MaxId - y
    BY <1>2, <1>3
  <2> QED BY <2>1, Constants DEF Ids
<1>5. /\ Max(S) \in S
      /\ \A y \in S : Max(S) >= y
  BY <1>4 DEF Max
<1> QED BY <1>5, Constants DEF Ids

(* ORDER BY id LIMIT n: a part of the set, empty only when the set is, and no    *)
(* id is left out before one that is taken.                                   *)
LEMMA SmallestOfIds ==
  ASSUME NEW S \in SUBSET Ids, NEW n \in Nat \ {0}
  PROVE  /\ Smallest(S, n) \subseteq S
         /\ S # {} => Smallest(S, n) # {}
         /\ \A x \in Smallest(S, n), y \in S : y <= x => y \in Smallest(S, n)
<1> DEFINE Before(i) == {j \in S : j < i}
<1>0. S \subseteq Nat
  BY Constants
<1>1. IsFiniteSet(S)
  <2>1. IsFiniteSet(1..MaxId)
    BY FS_Interval, Constants
  <2> QED BY <2>1, FS_Subset DEF Ids
<1>2. \A i \in S : Cardinality(Before(i)) \in Nat
  <2>1. \A i \in S : Before(i) \in SUBSET S
    OBVIOUS
  <2> QED BY <1>1, <2>1, FS_Subset, FS_CardinalityType
<1>3. Smallest(S, n) = {i \in S : Cardinality(Before(i)) < n}
  BY DEF Smallest
<1>4. ASSUME S # {} PROVE Smallest(S, n) # {}
  <2>1. PICK x \in S : \A y \in S : x <= y
    BY <1>0, <1>4, LeastExists
  <2>2. \A j \in S : ~ (j < x)
    BY <1>0, <2>1
  <2>3. Before(x) = {}
    BY <2>2
  <2>4. Cardinality(Before(x)) = 0
    BY <2>3, FS_EmptySet
  <2> QED BY <2>4, <1>3
<1>5. ASSUME NEW x \in Smallest(S, n), NEW y \in S, y <= x
      PROVE  y \in Smallest(S, n)
  <2>1. x \in S /\ Cardinality(Before(x)) < n
    BY <1>3
  <2>2. \A j \in S : j < y => j < x
    BY <1>0, <1>5, <2>1
  <2>3. Before(y) \subseteq Before(x)
    BY <2>2
  <2>4. IsFiniteSet(Before(x))
    BY <1>1, FS_Subset
  <2>5. Cardinality(Before(y)) <= Cardinality(Before(x))
    BY <2>3, <2>4, FS_Subset
  <2>6. Cardinality(Before(y)) < n
    <3> HIDE DEF Before
    <3> QED BY <1>2, <2>1, <2>5
  <2> QED BY <1>3, <2>6
<1>6. Smallest(S, n) \subseteq S
  BY <1>3
<1> QED BY <1>4, <1>5, <1>6

------------------------------------------------------------------------------
(* The invariant *)

JobType == [pc : WriterPCs, file : Files \cup {NoFile}, stale : SUBSET Ids]
RunType ==
  [pc : RunPCs, page : SUBSET Ids, batch : SUBSET Ids, need : SUBSET Ids,
   active : 1..BatchSize, last : 0..MaxId, tries : 0..QuickRetries,
   deferred : SUBSET Ids, failing : SUBSET Ids, pass : 0..world.passes,
   start : SUBSET Ids]

(* The rows of the database. *)
RowsTyped ==
  /\ owner \in [Ids -> Files \cup {NoFile}] /\ flagged \subseteq Live
  /\ status \in [Files -> Statuses] /\ nextId \in 1..(MaxId + 1)
  /\ \A i \in Live : i < nextId /\ status[owner[i]] # "absent"

RestTyped ==
  /\ vectors \subseteq Ids /\ disk \subseteq Ids /\ skipped \subseteq Ids
  /\ snapshot \in [Savers -> SUBSET Ids]
  /\ mode \in Modes /\ phase \in {"up", "embedding", "stopping", "saving", "saved"}

(* The file of a job exists, and its row does until the job deletes it. *)
JobTyped ==
  /\ writer \in JobType
  /\ writer.pc # "idle" => writer.file \in Files
  /\ writer.pc \in {"collect", "deleteChunks", "insert"} => status[writer.file] # "absent"

RunTyped == run \in RunType /\ run.need \subseteq run.batch

Typed == RowsTyped /\ RestTyped /\ JobTyped /\ RunTyped /\ world \in Worlds

(* The ids that AUTOINCREMENT has handed out. *)
Used == {i \in Ids : i < nextId}

Known ==
  /\ vectors \cup disk \cup skipped \subseteq Used
  /\ \A s \in Savers : snapshot[s] \subseteq Used
  /\ writer.stale \subseteq Used
  /\ run.page \cup run.batch \cup run.need \subseteq Used
  /\ run.deferred \cup run.failing \cup run.start \subseteq Used

(* Nothing ends the process, nor a job or a run in it. *)
Calm == Faults \subseteq {"transient", "refused"}

Waiting == run.deferred \cup run.failing \cup skipped

Backed ==
  /\ run.pc # "aborted"
  /\ run.pc \in {"idle", "preSave", "done", "endSave"} => run.deferred \cup run.failing = {}
  /\ flagged \subseteq vectors \cup Waiting
  /\ run.pc = "ask"  => (run.batch \cap Live) \ run.need \subseteq vectors \cup Waiting
  /\ run.pc = "mark" => run.batch \cap Live \subseteq vectors \cup Waiting
  /\ writer.pc \in {"deleteChunks", "deleteFile"} => writer.stale \subseteq Chunks(writer.file)
  /\ writer.pc \in {"insert", "deleteVectors"} => writer.stale \cap Live = {}

Covered ==
  /\ run.pc = "preSave" => run.last = 0
  /\ run.pc \in {"page", "ask", "mark"} =>
       \A i \in (run.start \cap Live) \ flagged : i \in run.page \/ i > run.last
  /\ run.pc \in {"retry", "done"} => run.start \cap Live \subseteq flagged

(* ... or Stop ends index --embed, with no periodic save under way. *)
Gentle == Calm \/ (Orderly /\ ~world.saves)

(* What Stop saves is the store, and the next process finds it. *)
Stopped ==
  /\ Calm => phase \in {"up", "embedding"}
  /\ ~Calm =>
       /\ snapshot["periodic"] = {}
       /\ phase = "saving" => snapshot["stop"] = vectors
       /\ phase = "saved" => flagged \subseteq disk \cup skipped

(* index --embed does one thing after the other: the jobs, the run, Stop. *)
InTurn ==
  /\ writer.pc = "idle" => writer.file = NoFile
  /\ writer.pc # "idle" =>
       phase = "up" /\ writer.pc # "deleteFile" /\ status[writer.file] = "pending"
  /\ run.pc # "idle" => phase = "embedding"

EmbedInv ==
  /\ Typed /\ Known /\ Covered
  /\ Gentle => Backed /\ Stopped
  /\ Orderly => InTurn /\ StatusHonest

------------------------------------------------------------------------------
(* Types *)

(* What EmbedAssumption says of the world that is looked at. *)
LEMMA WorldOf ==
  ASSUME world \in Worlds
  PROVE  /\ Modes \subseteq {"daemon", "cli"} /\ Faults \subseteq AllFaults
         /\ world.passes \in Nat \ {0} /\ world.ids \in 0..MaxId
  BY EmbedAssumption, Zenon DEF EmbedAssumption, Modes, Faults

(* The parts of Typed are those of TypeOK. *)
LEMMA TypedIsTypeOK == Typed => TypeOK
<1>1. RunTyped =>
        /\ run.pc \in RunPCs /\ run.active \in 1..BatchSize
        /\ run.need \subseteq run.batch /\ run.batch \cup run.page \subseteq Ids
        /\ run.last \in 0..MaxId /\ run.tries \in 0..QuickRetries /\ run.pass \in 0..world.passes
        /\ run.deferred \cup run.failing \cup run.start \subseteq Ids
  BY DEF RunTyped, RunType
<1>2. JobTyped =>
        /\ writer.pc \in WriterPCs /\ writer.file \in Files \cup {NoFile}
        /\ writer.stale \subseteq Ids
  BY DEF JobTyped, JobType
<1> QED BY <1>1, <1>2, Zenon DEF Typed, TypeOK, RowsTyped, RestTyped

(* The run and the job that are none. *)
LEMMA IdleTyped ==
  ASSUME world.passes \in Nat
  PROVE  Idle \in RunType /\ Idle.need \subseteq Idle.batch /\ NoJob \in JobType
  BY Constants DEF Idle, RunType, RunPCs, NoJob, JobType, WriterPCs

(* The empty database is typed. *)
LEMMA TypedInit == Init => Typed
<1> SUFFICES ASSUME Init PROVE Typed
  OBVIOUS
<1>1. world.passes \in Nat /\ Modes \subseteq {"daemon", "cli"}
  BY WorldOf DEF Init
<1>2. Live = {}
  BY DEF Init, Live
<1>3. RowsTyped
  BY <1>2, Constants DEF Init, RowsTyped, Statuses
<1>4. RestTyped
  BY DEF Init, RestTyped
<1>5. JobTyped /\ RunTyped
  BY <1>1, IdleTyped DEF Init, JobTyped, RunTyped, NoJob
<1> QED BY <1>3, <1>4, <1>5 DEF Typed, Init

(* Marks leave the rows typed: only rows that exist change, to no "absent". *)
LEMMA MarkTyped ==
  ASSUME RowsTyped, NEW ids \in SUBSET Ids, MarkEmbedded(ids) \/ Reset(ids) \/ ResetAll,
         UNCHANGED <<owner, nextId>>
  PROVE  /\ RowsTyped'
         /\ \A f \in Files : status'[f] = "absent" <=> status[f] = "absent"
<1>1. Live' = Live /\ \A f : Chunks(f)' = Chunks(f)
  BY DEF Live, Chunks
<1>2. flagged' \subseteq Live /\ status' \in [Files -> Statuses]
  BY DEF RowsTyped, MarkEmbedded, Reset, ResetAll, Statuses
<1>3. \A f \in Affected(ids) : f \in Files => status[f] # "absent"
  BY DEF Affected, RowsTyped
<1>4. \A f \in Files : status'[f] = "absent" <=> status[f] = "absent"
  <2>1. ASSUME NEW f \in Files, MarkEmbedded(ids)
        PROVE  /\ f \notin Affected(ids) => status'[f] = status[f]
               /\ f \in Affected(ids) => status'[f] \in {"complete", "partial"}
    BY <2>1 DEF MarkEmbedded
  <2>2. ASSUME NEW f \in Files, Reset(ids)
        PROVE  /\ f \notin Affected(ids) => status'[f] = status[f]
               /\ f \in Affected(ids) => status'[f] \in {"pending", "partial"}
    BY <2>2 DEF Reset
  <2>3. ASSUME NEW f \in Files, ResetAll
        PROVE  status'[f] = "absent" <=> status[f] = "absent"
    BY <2>3 DEF ResetAll
  <2> QED BY <1>3, <2>1, <2>2, <2>3
<1>5. \A i \in Live : owner[i] \in Files
  BY DEF RowsTyped, Live
<1> QED BY <1>1, <1>2, <1>4, <1>5 DEF RowsTyped

(* So does the deletion of files' chunks. *)
LEMMA RemoveTyped ==
  ASSUME RowsTyped, NEW fs \in SUBSET Files, RemoveChunks(fs), UNCHANGED nextId,
         status' \in [Files -> Statuses], \A f \in Files \ fs : status'[f] = status[f]
  PROVE  RowsTyped' /\ Live' \subseteq Live
<1>1. Live' = {i \in Live : owner[i] \notin fs}
  BY EmbedAssumption DEF Live, RemoveChunks, RowsTyped, EmbedAssumption
<1>2. owner' \in [Ids -> Files \cup {NoFile}] /\ flagged' \subseteq Live'
  BY <1>1 DEF RemoveChunks, RowsTyped
<1>3. \A i \in Live' : owner'[i] = owner[i] /\ owner[i] \in Files \ fs
  BY <1>1 DEF RemoveChunks, RowsTyped, Live
<1> QED BY <1>1, <1>2, <1>3 DEF RowsTyped

(* A step of the writer. *)
LEMMA TypedWriter ==
  ASSUME Typed, Writer, UNCHANGED world
  PROVE  Typed'
<1>1. RowsTyped /\ RestTyped /\ JobTyped /\ RunTyped /\ world \in Worlds
  BY DEF Typed
<1>2. world.ids \in 0..MaxId
  BY <1>1, WorldOf
<1>3. UNCHANGED <<disk, snapshot, mode, phase, run, skipped>>
  BY Zenon DEF Writer, UpsertFile, CollectForDelete, Collect, DeleteChunksByFile, DeleteFileByPath,
               InsertChunks, DeleteVectors, WriterFails
<1>4. RunTyped' /\ world' \in Worlds
  BY <1>1, <1>3 DEF RunTyped, RunType
<1>5. vectors' \subseteq vectors
  BY DEF Writer, UpsertFile, CollectForDelete, Collect, DeleteChunksByFile, DeleteFileByPath,
         InsertChunks, DeleteVectors, WriterFails
<1>6. RestTyped'
  BY <1>1, <1>3, <1>5 DEF RestTyped, Modes
<1>7. \A f : Chunks(f) \subseteq Ids
  BY DEF Chunks
<1>8. RowsTyped' /\ JobTyped'
  <2>1. ASSUME NEW f \in Files, UpsertFile(f)
        PROVE  RowsTyped' /\ JobTyped'
    <3>1. writer'.file = f /\ status'[f] = "pending" /\ writer' \in JobType
      BY <1>1, <2>1 DEF UpsertFile, RowsTyped, JobType, WriterPCs
    <3>2. status' \in [Files -> Statuses] /\ \A g \in Files : status[g] # "absent" => status'[g] # "absent"
      BY <1>1, <2>1 DEF UpsertFile, RowsTyped, Statuses
    <3>3. UNCHANGED <<owner, flagged, nextId>> /\ Live' = Live
      BY <2>1 DEF UpsertFile, Live
    <3>4. \A i \in Live : owner[i] \in Files
      BY <1>1 DEF RowsTyped, Live
    <3>5. RowsTyped'
      BY <1>1, <3>2, <3>3, <3>4 DEF RowsTyped
    <3> QED BY <3>1, <3>5 DEF JobTyped
  <2>2. ASSUME NEW f \in Files, CollectForDelete(f)
        PROVE  RowsTyped' /\ JobTyped'
    <3>1. RowsTyped'
      BY <1>1, <2>2 DEF CollectForDelete, RowsTyped, Live, db
    <3> QED BY <1>1, <1>7, <2>2, <3>1 DEF CollectForDelete, JobTyped, JobType, WriterPCs
  <2>3. CASE Collect
    <3>1. RowsTyped'
      BY <1>1, <2>3 DEF Collect, RowsTyped, Live, db
    <3> QED BY <1>1, <1>7, <2>3, <3>1 DEF Collect, JobTyped, JobType, WriterPCs, db
  <2>4. CASE DeleteChunksByFile
    <3>1. writer.file \in Files
      BY <1>1, <2>4 DEF DeleteChunksByFile, JobTyped
    <3>2. RowsTyped'
      BY <1>1, <2>4, <3>1, RemoveTyped DEF DeleteChunksByFile, RowsTyped
    <3> QED BY <1>1, <2>4, <3>2 DEF DeleteChunksByFile, StepTo, JobTyped, JobType, WriterPCs
  <2>5. CASE DeleteFileByPath
    <3>1. writer.file \in Files
      BY <1>1, <2>5 DEF DeleteFileByPath, JobTyped
    <3>2. /\ status' \in [Files -> Statuses]
          /\ \A f \in Files \ {writer.file} : status'[f] = status[f]
      BY <1>1, <2>5 DEF DeleteFileByPath, RowsTyped, Statuses
    <3>3. RowsTyped'
      BY <1>1, <2>5, <3>1, <3>2, RemoveTyped DEF DeleteFileByPath
    <3> QED BY <1>1, <2>5, <3>3 DEF DeleteFileByPath, StepTo, JobTyped, JobType, WriterPCs
  <2>6. ASSUME NEW n \in ChunkCounts, InsertChunks(n)
        PROVE  RowsTyped' /\ JobTyped'
    <3>1. writer.file \in Files /\ status[writer.file] # "absent"
      BY <1>1, <2>6 DEF InsertChunks, JobTyped
    <3>2. n \in Nat /\ nextId \in Nat /\ nextId >= 1 /\ nextId + n <= MaxId + 1
      BY <1>1, <1>2, <2>6, Constants, EmbedAssumption
      DEF InsertChunks, FreshId, RowsTyped, EmbedAssumption
    <3>3. nextId' = nextId + n /\ UNCHANGED <<flagged, status>>
      BY <2>6 DEF InsertChunks, FreshId
    <3>4. \A i \in Ids : owner'[i] = IF i \in nextId..(nextId + n - 1) THEN writer.file ELSE owner[i]
      BY <2>6 DEF InsertChunks, FreshId
    <3>5. owner' \in [Ids -> Files \cup {NoFile}]
      BY <1>1, <2>6, <3>1 DEF InsertChunks, FreshId, RowsTyped
    <3>6. Live \subseteq Live'
      BY <3>1, <3>4, EmbedAssumption DEF Live, EmbedAssumption
    <3>7. \A i \in Live' : \/ i \in Live /\ owner'[i] \in {owner[i], writer.file}
                           \/ i \in nextId..(nextId + n - 1) /\ owner'[i] = writer.file
      BY <3>4 DEF Live
    <3>8. \A i \in Live' : i < nextId' /\ status[owner'[i]] # "absent"
      <4> SUFFICES ASSUME NEW i \in Live' PROVE i < nextId + n /\ status[owner'[i]] # "absent"
        BY <3>3
      <4>1. CASE i \in Live /\ owner'[i] \in {owner[i], writer.file}
        <5>1. i < nextId /\ status[owner[i]] # "absent" /\ i \in Nat
          BY <1>1, <4>1, Constants DEF RowsTyped, Live
        <5> QED BY <3>1, <3>2, <4>1, <5>1
      <4>2. CASE i \in nextId..(nextId + n - 1) /\ owner'[i] = writer.file
        BY <3>1, <3>2, <4>2
      <4> QED BY <3>7, <4>1, <4>2
    <3>9. RowsTyped'
      BY <1>1, <3>2, <3>3, <3>5, <3>6, <3>8 DEF RowsTyped
    <3> QED BY <1>1, <2>6, <3>9 DEF InsertChunks, StepTo, JobTyped, JobType, WriterPCs
  <2>7. CASE DeleteVectors \/ WriterFails
    <3>1. RowsTyped'
      BY <1>1, <2>7 DEF DeleteVectors, WriterFails, RowsTyped, Live, db
    <3> QED BY <2>7, <3>1 DEF DeleteVectors, WriterFails, NoJob, JobTyped, JobType, WriterPCs
  <2> QED BY <2>1, <2>2, <2>3, <2>4, <2>5, <2>6, <2>7 DEF Writer
<1> QED BY <1>4, <1>6, <1>8 DEF Typed

(* A step of RunFromDB: it changes its own state, the vectors, what is skipped,   *)
(* the marks, and a snapshot.                                                  *)
LEMMA TypedRun ==
  ASSUME Typed, Run, UNCHANGED world
  PROVE  Typed'
<1>1. RowsTyped /\ RestTyped /\ JobTyped /\ RunTyped /\ world \in Worlds
  BY DEF Typed
<1>2. world.passes \in Nat \ {0}
  BY <1>1, WorldOf
<1>3. /\ run \in RunType /\ run.need \subseteq run.batch
      /\ run.batch \in SUBSET Ids /\ run.page \in SUBSET Ids /\ run.need \in SUBSET Ids
      /\ run.deferred \in SUBSET Ids /\ run.failing \in SUBSET Ids
      /\ run.active \in 1..BatchSize /\ run.tries \in 0..QuickRetries
      /\ run.pass \in 0..world.passes /\ run.last \in 0..MaxId
  BY <1>1 DEF RunTyped, RunType
<1> DEFINE Own == /\ vectors' \in SUBSET Ids /\ skipped' \in SUBSET Ids
                  /\ run' \in RunType /\ run'.need \subseteq run'.batch
           Kept == UNCHANGED <<db, disk, snapshot, mode, phase, writer>>
<1>4. ASSUME Own, Kept PROVE Typed'
  <2>1. UNCHANGED <<owner, flagged, status, nextId, disk, snapshot, mode, phase, writer>>
    BY <1>4 DEF db
  <2>2. RowsTyped' /\ JobTyped'
    BY <1>1, <2>1 DEF RowsTyped, JobTyped, Live
  <2>3. RestTyped' /\ RunTyped'
    BY <1>1, <1>4, <2>1 DEF RestTyped, RunTyped, Modes, RunType
  <2> QED BY <1>1, <2>2, <2>3 DEF Typed
<1>5. CASE ReadPage
  <2> DEFINE page == Smallest({i \in Unembedded : i > run.last}, PageSize)
  <2>1. page \in SUBSET Ids
    BY Constants, SmallestOfIds DEF Unembedded, Live
  <2>2. page # {} => Max(page) \in 0..MaxId
    BY <2>1, MaxOfIds DEF Ids
  <2> HIDE DEF page
  <2>3. Own /\ Kept
    BY <1>1, <1>3, <1>5, <2>1, <2>2 DEF ReadPage, page, RunAt, RunType, RunPCs, RestTyped
  <2> QED BY <1>4, <2>3
<1>6. CASE TakeBatch
  <2> DEFINE batch == Smallest(run.page, run.active)
  <2>1. batch \in SUBSET Ids
    BY <1>3, SmallestOfIds
  <2> HIDE DEF batch
  <2> DEFINE need == batch \ vectors
             pc == IF need = {} THEN "mark" ELSE "ask"
  <2>2. need \in SUBSET Ids /\ need \subseteq batch /\ pc \in RunPCs /\ 0 \in 0..QuickRetries
    <3>1. need \in SUBSET Ids /\ need \subseteq batch
      BY <2>1
    <3>2. pc \in RunPCs
      BY DEF RunPCs
    <3>3. 0 \in 0..QuickRetries
      BY Constants
    <3> QED BY <3>1, <3>2, <3>3
  <2>3. /\ run' = [run EXCEPT !.pc = pc, !.batch = batch, !.need = need, !.tries = 0]
        /\ UNCHANGED <<vectors, skipped>> /\ Kept
    BY <1>6 DEF TakeBatch, batch
  <2> HIDE DEF need, pc
  <2>4. run' \in RunType /\ run'.need \subseteq run'.batch
    BY <1>3, <2>1, <2>2, <2>3 DEF RunType
  <2> QED BY <1>1, <1>4, <2>3, <2>4 DEF RestTyped
<1>7. CASE Permanent \/ \E good \in SUBSET run.need : Answered(good)
  <2>1. PICK good \in SUBSET run.need : Asked(good) /\ Kept
    BY <1>7 DEF Permanent, Answered
  <2>2. vectors' \in SUBSET Ids /\ skipped' \in SUBSET Ids
    BY <1>1, <1>3, <2>1 DEF Asked, RestTyped
  <2>3. \/ run' = [run EXCEPT !.pc = "mark"]
        \/ run' = [run EXCEPT !.pc = "mark", !.active = BatchSize]
    BY <1>7 DEF Permanent, Answered
  <2>4. BatchSize \in 1..BatchSize /\ "mark" \in RunPCs
    BY Constants DEF RunPCs
  <2>5. run' \in RunType /\ run'.need \subseteq run'.batch
    <3>1. CASE run' = [run EXCEPT !.pc = "mark"]
      BY <1>3, <2>4, <3>1 DEF RunType
    <3>2. CASE run' = [run EXCEPT !.pc = "mark", !.active = BatchSize]
      BY <1>3, <2>4, <3>2 DEF RunType
    <3> QED BY <2>3, <3>1, <3>2
  <2> QED BY <1>4, <2>1, <2>2, <2>5
<1>8. CASE Shrunk
  <2>1. run.active \div 2 \in 1..BatchSize
    BY <1>3, <1>8, Constants DEF Shrunk
  <2>2. Own /\ Kept
    BY <1>1, <1>3, <1>8, <2>1 DEF Shrunk, RunAt, RunType, RunPCs, RestTyped
  <2> QED BY <1>4, <2>2
<1>9. CASE AttemptFails
  <2>1. UNCHANGED <<vectors, skipped>> /\ Kept
    BY <1>9 DEF AttemptFails
  <2>2. CASE run.tries + 1 < QuickRetries /\ run' = [run EXCEPT !.tries = @ + 1]
    <3>1. run.tries + 1 \in 0..QuickRetries
      BY <1>3, <2>2, Constants
    <3>2. run' \in RunType /\ run'.need \subseteq run'.batch
      BY <1>3, <2>2, <3>1 DEF RunType
    <3> QED BY <1>1, <1>4, <2>1, <3>2 DEF RestTyped
  <2>3. CASE run' = [run EXCEPT !.pc = "mark", !.deferred = @ \cup run.need]
    <3>1. run' \in RunType /\ run'.need \subseteq run'.batch
      BY <1>3, <2>3 DEF RunType, RunPCs
    <3> QED BY <1>1, <1>4, <2>1, <3>1 DEF RestTyped
  <2> QED BY <1>9, <2>2, <2>3 DEF AttemptFails
<1>10. CASE Mark
  <2>1. RowsTyped' /\ \A f \in Files : status'[f] = "absent" <=> status[f] = "absent"
    BY <1>1, <1>3, <1>10, MarkTyped DEF Mark
  <2>2. run' \in RunType /\ run'.need \subseteq run'.batch
    BY <1>3, <1>10 DEF Mark, RunType, RunPCs
  <2>3. RestTyped' /\ JobTyped' /\ RunTyped'
    BY <1>1, <1>10, <2>1, <2>2 DEF Mark, RestTyped, JobTyped, RunTyped, RunType, Modes
  <2> QED BY <1>1, <2>1, <2>3 DEF Typed
<1>11. CASE \E i \in run.deferred : RetryOne(i)
  <2>1. PICK i \in run.deferred : RetryOne(i)
    BY <1>11
  <2>2. i \in Ids
    BY <1>3
  <2>3. Own
    <3>1. vectors' \in SUBSET Ids /\ skipped' \in SUBSET Ids
      BY <1>1, <2>1, <2>2 DEF RetryOne, RestTyped
    <3>2. \/ run' = [run EXCEPT !.deferred = @ \ {i}]
          \/ run' = [run EXCEPT !.deferred = @ \ {i}, !.failing = @ \cup {i}]
      BY <2>1 DEF RetryOne
    <3>3. run.deferred \ {i} \in SUBSET Ids /\ run.failing \cup {i} \in SUBSET Ids
      BY <1>3, <2>2
    <3>4. run' \in RunType /\ run'.need \subseteq run'.batch
      <4>1. CASE run' = [run EXCEPT !.deferred = @ \ {i}]
        BY <1>3, <3>3, <4>1 DEF RunType
      <4>2. CASE run' = [run EXCEPT !.deferred = @ \ {i}, !.failing = @ \cup {i}]
        BY <1>3, <3>3, <4>2 DEF RunType
      <4> QED BY <3>2, <4>1, <4>2
    <3> QED BY <3>1, <3>4
  <2>4. Kept
    BY <2>1 DEF RetryOne
  <2> QED BY <1>4, <2>3, <2>4
<1>12. CASE NextPass
  <2>1. run.pass + 1 \in 0..world.passes
    BY <1>2, <1>3, <1>12 DEF NextPass
  <2>2. Own /\ Kept
    BY <1>1, <1>3, <1>12, <2>1 DEF NextPass, RunType, RestTyped
  <2> QED BY <1>4, <2>2
<1>13. CASE RunReturns
  <2>1. Own /\ Kept
    BY <1>1, <1>3, <1>13 DEF RunReturns, RunType, RunPCs, RestTyped
  <2> QED BY <1>4, <2>1
<1>14. Idle \in RunType /\ Idle.need \subseteq Idle.batch
  BY <1>2, IdleTyped
<1>15. CASE RunAborts
  <2>1. Own /\ Kept
    BY <1>1, <1>14, <1>15 DEF RunAborts, RunType, RunPCs, RestTyped
  <2> QED BY <1>4, <2>1
<1>16. CASE RunEnds
  <2>1. run' \in RunType /\ run'.need \subseteq run'.batch
    BY <1>14, <1>16 DEF RunEnds, RunType, RunPCs
  <2>2. snapshot' \in [Savers -> SUBSET Ids]
    BY <1>1, <1>16 DEF RunEnds, RestTyped
  <2>3. UNCHANGED <<owner, flagged, status, nextId, vectors, disk, mode, phase, writer, skipped>>
    BY <1>16 DEF RunEnds, db
  <2>4. RowsTyped' /\ JobTyped'
    BY <1>1, <2>3 DEF RowsTyped, JobTyped, Live
  <2>5. RestTyped' /\ RunTyped'
    BY <1>1, <2>1, <2>2, <2>3 DEF RestTyped, RunTyped, RunType, Modes
  <2> QED BY <1>1, <2>4, <2>5 DEF Typed
<1> QED BY <1>5, <1>6, <1>7, <1>8, <1>9, <1>10, <1>11, <1>12, <1>13, <1>15, <1>16 DEF Run

(* A run starts: EmbedProject reconciles the flags. *)
LEMMA TypedStartRun ==
  ASSUME Typed, StartRun, UNCHANGED world
  PROVE  Typed'
<1>1. RowsTyped /\ RestTyped /\ JobTyped /\ RunTyped /\ world \in Worlds
  BY DEF Typed
<1>2. Idle \in RunType /\ Idle.need \subseteq Idle.batch
  BY <1>1, WorldOf, IdleTyped
<1>3. RowsTyped' /\ \A f \in Files : status'[f] = "absent" <=> status[f] = "absent"
  <2>1. UNCHANGED <<owner, nextId>>
    BY DEF StartRun
  <2>2. CASE UNCHANGED <<flagged, status>>
    BY <1>1, <2>1, <2>2 DEF RowsTyped, Live
  <2>3. CASE ResetAll
    <3>1. {} \in SUBSET Ids
      OBVIOUS
    <3> QED BY <1>1, <2>1, <2>3, <3>1, MarkTyped
  <2>4. CASE Reset(flagged \ vectors)
    <3>1. flagged \ vectors \in SUBSET Ids
      BY <1>1 DEF RowsTyped, Live
    <3> QED BY <1>1, <2>1, <2>4, <3>1, MarkTyped
  <2> QED BY <2>2, <2>3, <2>4 DEF StartRun, Reconcile
<1>4. JobTyped'
  BY <1>1, <1>3 DEF StartRun, JobTyped
<1>5. RestTyped'
  BY <1>1 DEF StartRun, RestTyped, Modes
<1>6. run' \in RunType /\ run'.need \subseteq run'.batch
  BY <1>2 DEF StartRun, RunType, RunPCs
<1>7. RunTyped'
  BY <1>6 DEF RunTyped, RunType
<1> QED BY <1>1, <1>3, <1>4, <1>5, <1>7 DEF Typed

(* A save: snapshots of the vectors, and a file that is one of them. *)
LEMMA TypedSave ==
  ASSUME Typed, Save, UNCHANGED world
  PROVE  Typed'
<1>1. RowsTyped /\ RestTyped /\ JobTyped /\ RunTyped /\ world \in Worlds
  BY DEF Typed
<1>2. UNCHANGED <<owner, flagged, status, nextId, vectors, mode, phase, writer, skipped>>
  BY DEF Save, PeriodicSave, PeriodicSaved, RunSaved, db
<1>3. RowsTyped' /\ JobTyped'
  BY <1>1, <1>2 DEF RowsTyped, JobTyped, Live
<1>4. disk' \subseteq Ids /\ snapshot' \in [Savers -> SUBSET Ids]
  BY <1>1 DEF Save, PeriodicSave, PeriodicSaved, RunSaved, Replace, RestTyped, Savers
<1>5. RestTyped'
  BY <1>1, <1>2, <1>4 DEF RestTyped, Modes
<1>6. run' \in RunType /\ run'.need \subseteq run'.batch
  <2>1. CASE UNCHANGED run
    BY <1>1, <2>1 DEF RunTyped
  <2>2. CASE RunSaved
    <3>1. Unembedded \in SUBSET Ids
      BY DEF Unembedded, Live
    <3>2. Idle \in RunType /\ Idle.need \subseteq Idle.batch
      BY <1>1, WorldOf, IdleTyped
    <3> QED BY <1>1, <2>2, <3>1, <3>2 DEF RunSaved, RunTyped, RunType, RunPCs
  <2> QED BY <2>1, <2>2 DEF Save, PeriodicSave, PeriodicSaved
<1>7. RunTyped'
  BY <1>6 DEF RunTyped, RunType
<1> QED BY <1>1, <1>3, <1>5, <1>7 DEF Typed

(* The process stops, ends and starts again. *)
LEMMA TypedProcess ==
  ASSUME Typed, Process, UNCHANGED world
  PROVE  Typed'
<1>1. RowsTyped /\ RestTyped /\ JobTyped /\ RunTyped /\ world \in Worlds
  BY DEF Typed
<1>2. CASE BeginStop \/ StopSave \/ StopSaved
  <2>1. UNCHANGED <<owner, flagged, status, nextId, vectors, mode, writer, run, skipped>>
    BY <1>2 DEF BeginStop, StopSave, StopSaved, db
  <2>2. /\ disk' \subseteq Ids /\ snapshot' \in [Savers -> SUBSET Ids]
        /\ phase' \in {"up", "embedding", "stopping", "saving", "saved"}
    BY <1>1, <1>2 DEF BeginStop, StopSave, StopSaved, Replace, RestTyped, Savers
  <2>3. RowsTyped' /\ JobTyped'
    BY <1>1, <2>1 DEF RowsTyped, JobTyped, Live
  <2>4. RestTyped' /\ RunTyped'
    BY <1>1, <2>1, <2>2 DEF RestTyped, RunTyped, RunType, Modes
  <2> QED BY <1>1, <2>3, <2>4 DEF Typed
<1>3. CASE Restart
  <2>1. PICK m \in Modes, upgrade \in BOOLEAN : Start(m, upgrade)
    BY <1>3 DEF Restart
  <2>2. Idle \in RunType /\ Idle.need \subseteq Idle.batch /\ NoJob \in JobType
    BY <1>1, WorldOf, IdleTyped
  <2>3. JobTyped' /\ RunTyped'
    BY <2>1, <2>2 DEF Start, JobTyped, RunTyped, RunType, NoJob
  <2>4. RestTyped'
    BY <1>1, <2>1 DEF Start, RestTyped, Modes
  <2>5. RowsTyped'
    <3>1. CASE UNCHANGED <<owner, flagged, status>>
      BY <1>1, <2>1, <3>1 DEF Start, RowsTyped, Live
    <3>2. CASE RemoveChunks(Files) /\ status' = [f \in Files |-> "absent"]
      <4>1. status' \in [Files -> Statuses] /\ Files \in SUBSET Files
        BY <3>2 DEF Statuses
      <4> QED BY <1>1, <2>1, <3>2, <4>1, RemoveTyped DEF Start
    <3> QED BY <2>1, <3>1, <3>2 DEF Start
  <2> QED BY <1>1, <2>3, <2>4, <2>5 DEF Typed
<1> QED BY <1>2, <1>3 DEF Process

(* Every step keeps the types. *)
LEMMA TypedStep ==
  ASSUME Typed, Next
  PROVE  Typed'
  BY TypedWriter, TypedStartRun, TypedRun, TypedSave, TypedProcess DEF Next

------------------------------------------------------------------------------
(* Ids are handed out once *)

(* What the rows of the database allow: no step takes an id back. *)
LEMMA IdsGrow ==
  ASSUME Typed, Next
  PROVE  /\ Used \subseteq Used' /\ Live \subseteq Used /\ flagged \subseteq Live
         /\ nextId \in Nat /\ nextId' \in Nat
<1>1. RowsTyped /\ RowsTyped'
  BY TypedStep DEF Typed
<1>2. nextId \in Nat /\ nextId' \in Nat
  BY <1>1, Constants DEF RowsTyped
<1>3. nextId' >= nextId
  <2>1. CASE UNCHANGED nextId
    BY <1>2, <2>1
  <2>2. ASSUME NEW n \in ChunkCounts, InsertChunks(n)
        PROVE  nextId' >= nextId
    <3>1. n \in Nat
      BY EmbedAssumption, Zenon DEF EmbedAssumption
    <3> QED BY <1>2, <2>2, <3>1 DEF InsertChunks, FreshId
  <2>3. UNCHANGED nextId \/ \E n \in ChunkCounts : InsertChunks(n)
    BY Zenon DEF Next, Writer, UpsertFile, CollectForDelete, Collect, DeleteChunksByFile,
      DeleteFileByPath, DeleteVectors, WriterFails, StartRun, Run, ReadPage, TakeBatch, Permanent,
      Shrunk, AttemptFails, Mark, Answered, RetryOne, NextPass, RunReturns, RunAborts, RunEnds,
      Save, PeriodicSave, PeriodicSaved, RunSaved, Process, BeginStop, StopSave, StopSaved, Restart,
      Start, db
  <2> QED BY <2>1, <2>2, <2>3
<1>4. Used \subseteq Used'
  <2> SUFFICES ASSUME NEW i \in Used PROVE i \in Used'
    OBVIOUS
  <2>1. i \in Ids /\ i \in Nat /\ i < nextId
    BY Constants DEF Used
  <2>2. i < nextId'
    BY <1>2, <1>3, <2>1
  <2> QED BY <2>1, <2>2 DEF Used, Ids
<1> QED BY <1>1, <1>2, <1>4 DEF RowsTyped, Used, Live

(* What is remembered after a step was remembered before it, or is a chunk's. *)
LEMMA KnownStep ==
  ASSUME Typed, Known, Next
  PROVE  Known'
<1>1. /\ Used \subseteq Used' /\ Live \subseteq Used /\ flagged \subseteq Used
      /\ run \in RunType /\ snapshot \in [Savers -> SUBSET Ids] /\ writer \in JobType
  BY IdsGrow DEF Typed, RunTyped, RestTyped, JobTyped
<1>2. /\ vectors \subseteq Used /\ disk \subseteq Used /\ skipped \subseteq Used
      /\ \A s \in Savers : snapshot[s] \subseteq Used
      /\ writer.stale \subseteq Used
      /\ run.page \subseteq Used /\ run.batch \subseteq Used /\ run.need \subseteq Used
      /\ run.deferred \subseteq Used /\ run.failing \subseteq Used /\ run.start \subseteq Used
  BY DEF Known
<1> DEFINE OfRun(r) == /\ r.page \subseteq Used /\ r.batch \subseteq Used /\ r.need \subseteq Used
                       /\ r.deferred \subseteq Used /\ r.failing \subseteq Used
                       /\ r.start \subseteq Used
           Stores == vectors' \subseteq Used /\ disk' \subseteq Used /\ skipped' \subseteq Used
           Copies == \A s \in Savers : snapshot'[s] \subseteq Used
           Stale  == writer'.stale \subseteq Used
<1>3. ASSUME Stores, Copies, Stale, OfRun(run') PROVE Known'
  BY <1>1, <1>3 DEF Known
<1>4. OfRun(Idle) /\ OfRun(run)
  BY <1>2 DEF Idle
<1>5. CASE Writer
  <2>1. UNCHANGED <<disk, snapshot, run, skipped>>
    BY <1>5, Zenon DEF Writer, UpsertFile, CollectForDelete, Collect, DeleteChunksByFile,
         DeleteFileByPath, InsertChunks, DeleteVectors, WriterFails
  <2>2. vectors' \subseteq vectors
    BY <1>5 DEF Writer, UpsertFile, CollectForDelete, Collect, DeleteChunksByFile,
         DeleteFileByPath, InsertChunks, DeleteVectors, WriterFails
  <2>3. Stale
    <3>1. ASSUME NEW f \in Files, UpsertFile(f) \/ CollectForDelete(f) PROVE Stale
      BY <1>1, <3>1 DEF UpsertFile, CollectForDelete
    <3>2. CASE Collect
      BY <1>1, <3>2 DEF Collect, JobType
    <3>3. CASE DeleteChunksByFile \/ DeleteFileByPath \/ \E n \in ChunkCounts : InsertChunks(n)
      <4>1. \E pc : StepTo(pc)
        BY <3>3, Zenon DEF DeleteChunksByFile, DeleteFileByPath, InsertChunks
      <4> QED BY <1>1, <1>2, <4>1 DEF StepTo, JobType
    <3>4. CASE DeleteVectors \/ WriterFails
      BY <3>4 DEF DeleteVectors, WriterFails, NoJob
    <3> QED BY <1>5, <3>1, <3>2, <3>3, <3>4, Zenon DEF Writer
  <2> QED BY <1>2, <1>3, <1>4, <2>1, <2>2, <2>3
<1>6. CASE StartRun
  <2>1. UNCHANGED <<vectors, disk, writer, skipped>>
    BY <1>6 DEF StartRun
  <2>2. Copies
    BY <1>1, <1>2, <1>6 DEF StartRun, Savers
  <2>3. OfRun(run')
    BY <1>6 DEF StartRun, Idle
  <2> QED BY <1>2, <1>3, <2>1, <2>2, <2>3
<1>7. CASE Run
  <2>1. UNCHANGED <<disk, writer>>
    BY <1>7, Zenon DEF Run, ReadPage, TakeBatch, Permanent, Shrunk, AttemptFails, Mark, Answered,
         RetryOne, NextPass, RunReturns, RunAborts, RunEnds
  <2>2. vectors' \subseteq vectors \cup run.need \cup run.deferred
    BY <1>7 DEF Run, ReadPage, TakeBatch, Permanent, Shrunk, AttemptFails, Mark, Answered, Asked,
         RetryOne, NextPass, RunReturns, RunAborts, RunEnds
  <2>3. skipped' \subseteq skipped \cup run.need \cup run.deferred \cup run.failing
    BY <1>7 DEF Run, ReadPage, TakeBatch, Permanent, Shrunk, AttemptFails, Mark, Answered, Asked,
         RetryOne, NextPass, RunReturns, RunAborts, RunEnds
  <2>4. Copies
    <3>1. UNCHANGED snapshot \/ snapshot' = [snapshot EXCEPT !["run"] = vectors]
      BY <1>7, Zenon DEF Run, ReadPage, TakeBatch, Permanent, Shrunk, AttemptFails, Mark, Answered,
         RetryOne, NextPass, RunReturns, RunAborts, RunEnds
    <3> QED BY <1>1, <1>2, <3>1
  <2>5. OfRun(run')
    <3>1. CASE ReadPage
      <4> DEFINE page == Smallest({i \in Unembedded : i > run.last}, PageSize)
      <4>1. page \subseteq Used
        BY <1>1, Constants, SmallestOfIds DEF Unembedded, Live
      <4> HIDE DEF page
      <4>2. \/ run' = [run EXCEPT !.page = page, !.last = Max(page)]
            \/ run' = [run EXCEPT !.pc = "retry"]
        BY <3>1 DEF ReadPage, page
      <4> QED BY <1>1, <1>2, <4>1, <4>2 DEF RunType
    <3>2. CASE TakeBatch
      <4> DEFINE batch == Smallest(run.page, run.active)
      <4>1. batch \subseteq Used
        <5>1. run.page \in SUBSET Ids /\ run.active \in Nat \ {0}
          BY <1>1, Constants DEF RunType
        <5> QED BY <1>2, <5>1, SmallestOfIds
      <4> HIDE DEF batch
      <4>2. PICK pc : run' = [run EXCEPT !.pc = pc, !.batch = batch, !.need = batch \ vectors,
                                         !.tries = 0]
        BY <3>2 DEF TakeBatch, batch
      <4> QED BY <1>1, <1>2, <4>1, <4>2 DEF RunType
    <3>3. CASE Permanent \/ Shrunk \/ AttemptFails \/ Mark
      <4>1. CASE Permanent \/ Shrunk
        BY <1>1, <1>2, <4>1 DEF Permanent, Shrunk, RunType
      <4>2. CASE AttemptFails
        <5>1. CASE run' = [run EXCEPT !.tries = @ + 1]
          BY <1>1, <1>2, <5>1 DEF RunType
        <5>2. CASE run' = [run EXCEPT !.pc = "mark", !.deferred = @ \cup run.need]
          BY <1>1, <1>2, <5>2 DEF RunType
        <5> QED BY <4>2, <5>1, <5>2 DEF AttemptFails
      <4>3. CASE Mark
        BY <1>1, <1>2, <4>3 DEF Mark, RunType
      <4> QED BY <3>3, <4>1, <4>2, <4>3
    <3>4. CASE \E good \in SUBSET run.need : Answered(good)
      BY <1>1, <1>2, <3>4 DEF Answered, RunType
    <3>5. CASE \E i \in run.deferred : RetryOne(i)
      <4>1. PICK i \in run.deferred : RetryOne(i)
        BY <3>5
      <4>2. CASE run' = [run EXCEPT !.deferred = @ \ {i}]
        BY <1>1, <1>2, <4>2 DEF RunType
      <4>3. CASE run' = [run EXCEPT !.deferred = @ \ {i}, !.failing = @ \cup {i}]
        BY <1>1, <1>2, <4>1, <4>3 DEF RunType
      <4> QED BY <4>1, <4>2, <4>3 DEF RetryOne
    <3>6. CASE NextPass \/ RunReturns
      BY <1>1, <1>2, <3>6 DEF NextPass, RunReturns, RunType
    <3>7. CASE RunAborts \/ RunEnds
      BY <3>7 DEF RunAborts, RunEnds, Idle
    <3> QED BY <1>7, <3>1, <3>2, <3>3, <3>4, <3>5, <3>6, <3>7 DEF Run
  <2>6. Stores /\ Stale
    BY <1>2, <2>1, <2>2, <2>3
  <2> QED BY <1>3, <2>4, <2>5, <2>6
<1>8. CASE Save
  <2>1. UNCHANGED <<vectors, writer, skipped>>
    BY <1>8 DEF Save, PeriodicSave, PeriodicSaved, RunSaved
  <2>2. disk' \subseteq Used /\ Copies
    BY <1>1, <1>2, <1>8 DEF Save, PeriodicSave, PeriodicSaved, RunSaved, Replace, Savers
  <2>3. OfRun(run')
    <3>1. Unembedded \subseteq Used
      BY <1>1 DEF Unembedded
    <3>2. CASE PeriodicSave \/ PeriodicSaved
      <4>1. run' = run
        BY <3>2 DEF PeriodicSave, PeriodicSaved
      <4> QED BY <1>4, <4>1
    <3>3. CASE RunSaved
      <4>1. CASE run' = [run EXCEPT !.pc = "page", !.start = Unembedded]
        BY <1>1, <1>2, <3>1, <4>1 DEF RunType
      <4>2. CASE run' = Idle
        BY <1>4, <4>2
      <4> QED BY <3>3, <4>1, <4>2 DEF RunSaved
    <3> QED BY <1>8, <3>2, <3>3 DEF Save
  <2> QED BY <1>2, <1>3, <2>1, <2>2, <2>3
<1>9. CASE Process
  <2>1. CASE BeginStop \/ StopSave \/ StopSaved
    <3>1. UNCHANGED <<vectors, writer, run, skipped>>
      BY <2>1 DEF BeginStop, StopSave, StopSaved
    <3>2. disk' \subseteq Used /\ Copies
      BY <1>1, <1>2, <2>1 DEF BeginStop, StopSave, StopSaved, Replace, Savers
    <3> QED BY <1>2, <1>3, <1>4, <3>1, <3>2
  <2>2. CASE Restart
    <3>1. /\ vectors' = disk /\ disk' = disk /\ skipped' = skipped /\ writer' = NoJob
          /\ run' = Idle /\ snapshot' = [s \in Savers |-> {}]
      BY <2>2 DEF Restart, Start
    <3>2. Copies /\ Stale
      BY <3>1 DEF NoJob
    <3> QED BY <1>2, <1>3, <1>4, <3>1, <3>2
  <2> QED BY <1>9, <2>1, <2>2 DEF Process
<1> QED BY <1>5, <1>6, <1>7, <1>8, <1>9 DEF Next

(* No step of the writer gives an id out twice, and a flag goes with its chunk. *)
LEMMA WriterRows ==
  ASSUME Typed, Writer
  PROVE  /\ \A i \in Used : i \in Live' => i \in Live /\ owner'[i] = owner[i]
         /\ flagged' \subseteq flagged
         /\ \A i \in flagged : i \in Live' => i \in flagged'
<1>1. RowsTyped /\ nextId \in Nat
  BY Constants DEF Typed, RowsTyped
<1>2. CASE UNCHANGED <<owner, flagged>>
  BY <1>2 DEF Live
<1>3. ASSUME NEW fs, RemoveChunks(fs)
      PROVE  /\ \A i \in Ids : i \in Live' => i \in Live /\ owner'[i] = owner[i] /\ owner[i] \notin fs
             /\ flagged' = {i \in flagged : owner[i] \notin fs}
  BY <1>3 DEF RemoveChunks, Live
<1>4. ASSUME NEW n \in ChunkCounts, InsertChunks(n)
      PROVE  \A i \in Used : i \in Live' => i \in Live /\ owner'[i] = owner[i]
  <2> SUFFICES ASSUME NEW i \in Used, i \in Live' PROVE i \in Live /\ owner'[i] = owner[i]
    OBVIOUS
  <2>1. i \in Ids /\ i \in Nat /\ i < nextId
    BY Constants DEF Used
  <2>2. i \notin FreshId..(FreshId + n - 1)
    BY <1>1, <2>1 DEF FreshId
  <2>3. owner'[i] = owner[i]
    BY <1>4, <2>1, <2>2 DEF InsertChunks
  <2> QED BY <2>1, <2>3 DEF Live
<1>5. \/ UNCHANGED <<owner, flagged>>
      \/ RemoveChunks({writer.file})
      \/ UNCHANGED flagged /\ \E n \in ChunkCounts : InsertChunks(n)
  BY Zenon DEF Writer, UpsertFile, CollectForDelete, Collect, DeleteChunksByFile, DeleteFileByPath,
               InsertChunks, DeleteVectors, WriterFails, db
<1>6. flagged \subseteq Live /\ Used \subseteq Ids
  BY <1>1 DEF RowsTyped, Used
<1>7. CASE RemoveChunks({writer.file})
  <2>1. /\ \A i \in Ids : i \in Live' => i \in Live /\ owner'[i] = owner[i] /\ owner[i] \notin {writer.file}
        /\ flagged' = {i \in flagged : owner[i] \notin {writer.file}}
    BY <1>3, <1>7
  <2> QED BY <1>6, <2>1 DEF Live
<1> QED BY <1>2, <1>4, <1>5, <1>7

------------------------------------------------------------------------------
(* The run marks what it has begun with *)

(* The cursor, the page that is cut again and the marks leave no waiting chunk behind. *)
(* The step that matters is ReadPage: the page is a prefix of what is ahead.   *)
LEMMA CoveredStep ==
  ASSUME Typed, Known, Covered, Next
  PROVE  Covered'
<1>1. /\ run \in RunType /\ Live \subseteq Ids /\ flagged \subseteq Live
      /\ run.start \subseteq Used /\ run.page \in SUBSET Ids /\ run.last \in Nat
  BY Constants DEF Typed, RunTyped, RowsTyped, RunType, Known, Live
<1> DEFINE Owed == (run.start \cap Live) \ flagged
<1>2. /\ run.pc = "preSave" => run.last = 0
      /\ run.pc \in {"page", "ask", "mark"} => \A i \in Owed : i \in run.page \/ i > run.last
      /\ run.pc \in {"retry", "done"} => Owed = {}
  BY DEF Covered
(* The rows change, and the run goes on: nothing is owed that was not before. *)
<1>3. ASSUME run' \in RunType, run'.start = run.start, run'.last = run.last, run'.page = run.page,
             run'.pc = run.pc \/ ({run.pc, run'.pc} \subseteq {"page", "ask", "mark"})
               \/ ({run.pc, run'.pc} \subseteq {"retry", "done"}),
             (run.start \cap Live') \ flagged' \subseteq Owed
      PROVE  Covered'
  BY <1>2, <1>3 DEF Covered
<1>4. ASSUME run'.pc \in {"idle", "aborted", "endSave"} PROVE Covered'
  BY <1>4 DEF Covered
<1>5. CASE Writer
  <2>1. UNCHANGED run
    BY <1>5, Zenon DEF Writer, UpsertFile, CollectForDelete, Collect, DeleteChunksByFile,
         DeleteFileByPath, InsertChunks, DeleteVectors, WriterFails
  <2>2. (run.start \cap Live') \ flagged' \subseteq Owed
    BY <1>1, <1>5, WriterRows
  <2> QED BY <1>1, <1>3, <2>1, <2>2
<1>6. CASE StartRun
  BY <1>6 DEF StartRun, Idle, Covered
<1>7. CASE ReadPage
  <2> DEFINE ahead == {i \in Unembedded : i > run.last}
             page == Smallest(ahead, PageSize)
  <2>1. /\ page \subseteq ahead /\ ahead \in SUBSET Ids
        /\ ahead # {} => page # {}
        /\ \A x \in page, y \in ahead : y <= x => y \in page
    <3>1. ahead \in SUBSET Ids /\ PageSize \in Nat \ {0}
      BY <1>1, Constants DEF Unembedded
    <3> HIDE DEF ahead
    <3> QED BY <3>1, SmallestOfIds
  <2>2. run.pc = "page" /\ run.page = {}
    BY <1>7 DEF ReadPage, RunAt
  <2>3. Owed \subseteq ahead
    BY <1>2, <2>2 DEF Unembedded
  <2>4. run' = IF page # {} THEN [run EXCEPT !.page = page, !.last = Max(page)]
                            ELSE [run EXCEPT !.pc = "retry"]
    BY <1>7 DEF ReadPage
  <2>5. Owed' = (run'.start \cap Live) \ flagged
    BY <1>7 DEF ReadPage, db, Live
  <2> HIDE DEF ahead, page
  <2>6. run'.start = run.start
    BY <1>1, <2>4 DEF RunType
  <2>7. CASE page # {}
    <3>1. Max(page) \in page /\ Max(page) \in Ids
      BY <2>1, <2>7, MaxOfIds
    <3>2. run'.pc = "page" /\ run'.page = page /\ run'.last = Max(page)
      BY <1>1, <2>2, <2>4, <2>7 DEF RunType
    <3>3. \A i \in Owed : i \in page \/ i > Max(page)
      <4> SUFFICES ASSUME NEW i \in Owed PROVE i \in page \/ i > Max(page)
        OBVIOUS
      <4>1. i \in ahead /\ i \in Nat /\ Max(page) \in Nat
        BY <1>1, <2>3, <3>1, Constants
      <4>2. i <= Max(page) => i \in page
        BY <2>1, <3>1, <4>1
      <4> QED BY <4>1, <4>2
    <3> QED BY <2>5, <2>6, <3>2, <3>3 DEF Covered
  <2>8. CASE page = {}
    <3>1. Owed = {} /\ run'.pc = "retry"
      BY <1>1, <2>1, <2>3, <2>4, <2>8 DEF RunType
    <3> QED BY <2>5, <2>6, <3>1 DEF Covered
  <2> QED BY <2>7, <2>8
<1>8. CASE Mark
  <2>1. /\ run' = [run EXCEPT !.pc = "page", !.page = @ \ run.batch, !.batch = {}, !.need = {}]
        /\ flagged' = flagged \cup (run.batch \cap Live)
        /\ Live' = Live /\ run.pc = "mark"
    BY <1>8 DEF Mark, MarkEmbedded, Live, RunAt
  <2>2. /\ run'.pc = "page" /\ run'.page = run.page \ run.batch
        /\ run'.start = run.start /\ run'.last = run.last
    BY <1>1, <2>1 DEF RunType
  <2> QED BY <1>2, <2>1, <2>2 DEF Covered
<1>9. CASE TakeBatch \/ Permanent \/ Shrunk \/ AttemptFails \/ NextPass \/ RunReturns
           \/ (\E good \in SUBSET run.need : Answered(good)) \/ (\E i \in run.deferred : RetryOne(i))
  <2>1. Live' = Live /\ UNCHANGED flagged
    BY <1>9 DEF TakeBatch, Permanent, Shrunk, AttemptFails, NextPass, RunReturns, Answered, RetryOne,
                db, Live
  <2>2. run' \in RunType
    BY <1>9, TypedStep DEF Typed, RunTyped, RunType, Next, Run
  <2> DEFINE Goes == /\ run'.start = run.start /\ run'.last = run.last /\ run'.page = run.page
                     /\ \/ run'.pc = run.pc
                        \/ {run.pc, run'.pc} \subseteq {"page", "ask", "mark"}
                        \/ {run.pc, run'.pc} \subseteq {"retry", "done"}
  <2>3. ASSUME Goes PROVE Covered'
    BY <1>3, <2>1, <2>2, <2>3
  <2>4. CASE TakeBatch \/ Shrunk
    BY <1>1, <2>4, <2>3 DEF TakeBatch, Shrunk, RunAt, RunType
  <2>5. CASE Permanent \/ \E good \in SUBSET run.need : Answered(good)
    BY <1>1, <2>5, <2>3 DEF Permanent, Answered, RunAt, RunType
  <2>6. CASE AttemptFails
    <3>1. CASE run' = [run EXCEPT !.tries = @ + 1]
      BY <1>1, <2>3, <3>1 DEF RunType
    <3>2. CASE run' = [run EXCEPT !.pc = "mark", !.deferred = @ \cup run.need]
      BY <1>1, <2>3, <2>6, <3>2 DEF AttemptFails, RunAt, RunType
    <3> QED BY <2>6, <3>1, <3>2 DEF AttemptFails
  <2>7. CASE NextPass \/ RunReturns
    BY <1>1, <2>3, <2>7 DEF NextPass, RunReturns, RunAt, RunType
  <2>8. CASE \E i \in run.deferred : RetryOne(i)
    <3>1. PICK i \in run.deferred : RetryOne(i)
      BY <2>8
    <3>2. CASE run' = [run EXCEPT !.deferred = @ \ {i}]
      BY <1>1, <2>3, <3>2 DEF RunType
    <3>3. CASE run' = [run EXCEPT !.deferred = @ \ {i}, !.failing = @ \cup {i}]
      BY <1>1, <2>3, <3>3 DEF RunType
    <3> QED BY <3>1, <3>2, <3>3 DEF RetryOne
  <2> QED BY <1>9, <2>4, <2>5, <2>6, <2>7, <2>8
<1>10. CASE RunAborts \/ RunEnds
  BY <1>4, <1>10 DEF RunAborts, RunEnds, Idle
<1>11. CASE Save
  <2>1. Live' = Live /\ UNCHANGED flagged
    BY <1>11 DEF Save, PeriodicSave, PeriodicSaved, RunSaved, db, Live
  <2>2. CASE UNCHANGED run
    BY <1>1, <1>3, <2>1, <2>2
  <2>3. CASE run.pc = "preSave" /\ run' = [run EXCEPT !.pc = "page", !.start = Unembedded]
    <3>1. run'.pc = "page" /\ run'.last = 0
      BY <1>1, <1>2, <2>3 DEF RunType
    <3>2. \A i \in Live : i > 0
      BY <1>1, Constants
    <3> QED BY <2>1, <3>1, <3>2 DEF Covered
  <2>4. CASE run' = Idle
    BY <1>4, <2>4 DEF Idle
  <2> QED BY <1>11, <2>2, <2>3, <2>4 DEF Save, PeriodicSave, PeriodicSaved, RunSaved
<1>12. CASE Process
  <2>1. CASE Restart
    BY <1>4, <2>1 DEF Restart, Start, Idle
  <2>2. CASE BeginStop \/ StopSave \/ StopSaved
    <3>1. Live' = Live /\ UNCHANGED <<flagged, run>>
      BY <2>2 DEF BeginStop, StopSave, StopSaved, db, Live
    <3> QED BY <1>1, <1>3, <3>1
  <2> QED BY <1>12, <2>1, <2>2 DEF Process
<1> QED BY <1>5, <1>6, <1>7, <1>8, <1>9, <1>10, <1>11, <1>12 DEF Next, Run

------------------------------------------------------------------------------
(* A flag has its vector, or somebody still knows that it has not *)

(* A vector is deleted only of chunks that are gone, a mark covers only chunks whose *)
(* vector is stored, deferred or given up, and a process that nothing ends runs on.  *)
LEMMA BackedStep ==
  ASSUME Typed, Known, Gentle, Backed, Stopped, Orderly => InTurn, Next
  PROVE  Backed'
<1>1. /\ run \in RunType /\ run.need \subseteq run.batch /\ writer \in JobType
      /\ flagged \subseteq Live /\ Live \subseteq Used
      /\ run.batch \subseteq Used /\ writer.stale \subseteq Used
  BY IdsGrow DEF Typed, RunTyped, JobTyped, RowsTyped, Known
<1>2. /\ run.pc # "aborted"
      /\ run.pc \in {"idle", "preSave", "done", "endSave"} => run.deferred \cup run.failing = {}
      /\ flagged \subseteq vectors \cup Waiting
      /\ run.pc = "ask"  => (run.batch \cap Live) \ run.need \subseteq vectors \cup Waiting
      /\ run.pc = "mark" => run.batch \cap Live \subseteq vectors \cup Waiting
  BY DEF Backed
<1>3. /\ writer.pc \in {"deleteChunks", "deleteFile"} => writer.stale \subseteq Chunks(writer.file)
      /\ writer.pc \in {"insert", "deleteVectors"} => writer.stale \cap Live = {}
  BY DEF Backed
<1>4. /\ "abort" \notin Faults /\ "writeError" \notin Faults
      /\ "upgrade" \notin Faults /\ "crash" \notin Faults
      /\ run.pc # "idle" => phase \in {"up", "embedding"}
  BY DEF Gentle, Calm, Orderly, Stopped, InTurn
<1> DEFINE JobPart == /\ writer.pc \in {"deleteChunks", "deleteFile"} => writer.stale \subseteq Chunks(writer.file)
                      /\ writer.pc \in {"insert", "deleteVectors"} => writer.stale \cap Live = {}
(* RunFromDB: the rows are as they were. *)
<1>5. ASSUME UNCHANGED <<owner, writer>> PROVE JobPart'
  BY <1>3, <1>5 DEF Chunks, Live
<1>6. CASE Writer
  <2>1. UNCHANGED <<run, skipped, phase>> /\ Waiting' = Waiting
    BY <1>6, Zenon DEF Writer, UpsertFile, CollectForDelete, Collect, DeleteChunksByFile,
         DeleteFileByPath, InsertChunks, DeleteVectors, WriterFails, Waiting
  <2>2. /\ \A i \in Used : i \in Live' => i \in Live
        /\ flagged' \subseteq flagged
    BY <1>6, WriterRows
  <2>3. UNCHANGED vectors \/ DeleteVectors
    BY <1>6, Zenon DEF Writer, UpsertFile, CollectForDelete, Collect, DeleteChunksByFile,
         DeleteFileByPath, InsertChunks, DeleteVectors, WriterFails
  <2>4. vectors \cap Live \subseteq vectors'
    BY <1>3, <2>3 DEF DeleteVectors
  <2>5. JobPart'
    <3>1. ASSUME NEW f \in Files, UpsertFile(f) PROVE JobPart'
      BY <3>1 DEF UpsertFile
    <3>2. ASSUME NEW f \in Files, CollectForDelete(f) PROVE JobPart'
      <4>1. Chunks(f)' = Chunks(f)
        BY <3>2 DEF CollectForDelete, db, Chunks
      <4>2. writer'.pc = "deleteFile" /\ writer'.file = f /\ writer'.stale = flagged \cap Chunks(f)
        BY <3>2 DEF CollectForDelete
      <4> QED BY <3>2, <4>1, <4>2 DEF CollectForDelete, db, Chunks
    <3>3. CASE Collect
      <4>1. /\ writer'.pc = "deleteChunks" /\ writer'.file = writer.file
            /\ writer'.stale = flagged \cap Chunks(writer.file) /\ owner' = owner
        BY <1>1, <3>3 DEF Collect, JobType, db
      <4> QED BY <4>1 DEF Chunks
    <3>4. CASE DeleteChunksByFile \/ DeleteFileByPath
      <4>1. /\ writer'.pc \in {"insert", "deleteVectors"} /\ writer'.stale = writer.stale
            /\ writer.stale \subseteq Chunks(writer.file) /\ RemoveChunks({writer.file})
        BY <1>1, <1>3, <3>4 DEF DeleteChunksByFile, DeleteFileByPath, StepTo, JobType
      <4>2. writer.stale \cap Live' = {}
        BY <4>1 DEF RemoveChunks, Chunks, Live
      <4> QED BY <4>1, <4>2
    <3>5. CASE \E n \in ChunkCounts : InsertChunks(n)
      <4>1. /\ writer'.pc = "deleteVectors" /\ writer'.stale = writer.stale
            /\ writer.stale \cap Live = {}
        BY <1>1, <1>3, <3>5 DEF InsertChunks, StepTo, JobType
      <4> QED BY <1>1, <2>2, <4>1
    <3>6. CASE DeleteVectors
      BY <3>6 DEF DeleteVectors, NoJob
    <3> QED BY <1>4, <1>6, <3>1, <3>2, <3>3, <3>4, <3>5, <3>6 DEF Writer, WriterFails
  <2>6. flagged' \subseteq vectors' \cup Waiting'
    <3>1. \A i \in flagged' : i \in flagged /\ i \in Live
      BY <1>1, <2>2
    <3> QED BY <1>2, <2>1, <2>4, <3>1
  <2>7. run.pc = "ask" => (run.batch \cap Live') \ run.need \subseteq vectors' \cup Waiting
    BY <1>1, <1>2, <2>2, <2>4
  <2>8. run.pc = "mark" => run.batch \cap Live' \subseteq vectors' \cup Waiting
    BY <1>1, <1>2, <2>2, <2>4
  <2> QED BY <1>2, <2>1, <2>5, <2>6, <2>7, <2>8 DEF Backed
<1>7. CASE StartRun
  <2>1. /\ run.pc = "idle" /\ phase' \in {"up", "embedding"}
        /\ UNCHANGED <<owner, vectors, writer, skipped>> /\ run' = [Idle EXCEPT !.pc = "preSave"]
    BY <1>7 DEF StartRun
  <2>2. flagged' \subseteq flagged
    BY <1>7 DEF StartRun, Reconcile, ResetAll, Reset
  <2>3. run'.pc = "preSave" /\ run'.deferred = {} /\ run'.failing = {}
    BY <2>1 DEF Idle
  <2>4. flagged' \subseteq vectors' \cup Waiting'
    BY <1>2, <2>1, <2>2, <2>3 DEF Waiting
  <2>5. JobPart'
    BY <1>5, <2>1
  <2> QED BY <2>1, <2>3, <2>4, <2>5 DEF Backed
<1>8. CASE Run
  <2>1. UNCHANGED <<owner, phase, writer>> /\ Live' = Live
    BY <1>8, Zenon DEF Run, ReadPage, TakeBatch, Permanent, Shrunk, AttemptFails, Mark, Answered,
         RetryOne, NextPass, RunReturns, RunAborts, RunEnds, db, Live
  <2>2. JobPart'
    BY <1>5, <2>1
  <2> DEFINE Has == vectors \cup Waiting
  <2>3. ASSUME Has \subseteq Has', flagged' \subseteq Has', run'.pc # "aborted",
               run'.pc \in {"idle", "preSave", "done", "endSave"} => run'.deferred \cup run'.failing = {},
               run'.pc = "ask"  => (run'.batch \cap Live) \ run'.need \subseteq Has',
               run'.pc = "mark" => run'.batch \cap Live \subseteq Has'
        PROVE  Backed'
    BY <1>2, <2>1, <2>2, <2>3 DEF Backed
  <2>4. CASE ReadPage
    <3>1. /\ run'.pc \in {"page", "retry"} /\ Waiting' = Waiting /\ UNCHANGED <<flagged, vectors>>
      BY <1>1, <2>4 DEF ReadPage, RunAt, RunType, Waiting, db
    <3> QED BY <1>2, <2>3, <3>1
  <2>5. CASE TakeBatch
    <3> DEFINE batch == Smallest(run.page, run.active)
    <3>1. /\ run' = [run EXCEPT !.pc = IF batch \ vectors = {} THEN "mark" ELSE "ask",
                                !.batch = batch, !.need = batch \ vectors, !.tries = 0]
          /\ UNCHANGED <<flagged, vectors, skipped>>
      BY <2>5 DEF TakeBatch, db
    <3> HIDE DEF batch
    <3>2. /\ run'.pc = (IF batch \ vectors = {} THEN "mark" ELSE "ask")
          /\ run'.batch = batch /\ run'.need = batch \ vectors
          /\ run'.deferred = run.deferred /\ run'.failing = run.failing
      BY <1>1, <3>1 DEF RunType
    <3>3. Has' = Has
      BY <3>1, <3>2 DEF Waiting
    <3> QED BY <1>2, <2>3, <3>1, <3>2, <3>3
  <2>6. CASE Permanent \/ \E good \in SUBSET run.need : Answered(good)
    <3>1. PICK good \in SUBSET run.need : Asked(good)
      BY <2>6 DEF Permanent, Answered
    <3>2. /\ run.pc = "ask" /\ run'.pc = "mark" /\ run'.batch = run.batch
          /\ run'.deferred = run.deferred /\ run'.failing = run.failing /\ UNCHANGED flagged
      BY <1>1, <2>6 DEF Permanent, Answered, RunAt, RunType, db
    <3>3. Has \subseteq Has' /\ run.need \subseteq Has'
      BY <3>1, <3>2 DEF Asked, Waiting
    <3> QED BY <1>2, <2>3, <3>2, <3>3
  <2>7. CASE Shrunk
    <3>1. /\ run'.pc = "page" /\ run'.deferred = run.deferred /\ run'.failing = run.failing
          /\ UNCHANGED <<flagged, vectors, skipped>>
      BY <1>1, <2>7 DEF Shrunk, RunType, db
    <3>2. Has' = Has
      BY <3>1 DEF Waiting
    <3> QED BY <1>2, <2>3, <3>1, <3>2
  <2>8. CASE AttemptFails
    <3>1. run.pc = "ask" /\ UNCHANGED <<flagged, vectors, skipped>>
      BY <2>8 DEF AttemptFails, RunAt, db
    <3>2. CASE run' = [run EXCEPT !.tries = @ + 1]
      <4>1. /\ run'.pc = run.pc /\ run'.batch = run.batch /\ run'.need = run.need
            /\ run'.deferred = run.deferred /\ run'.failing = run.failing
        BY <1>1, <3>2 DEF RunType
      <4>2. Has' = Has
        BY <3>1, <4>1 DEF Waiting
      <4> QED BY <1>2, <2>3, <3>1, <4>1, <4>2
    <3>3. CASE run' = [run EXCEPT !.pc = "mark", !.deferred = @ \cup run.need]
      <4>1. /\ run'.pc = "mark" /\ run'.batch = run.batch
            /\ run'.deferred = run.deferred \cup run.need /\ run'.failing = run.failing
        BY <1>1, <3>3 DEF RunType
      <4>2. Has' = Has \cup run.need
        BY <3>1, <4>1 DEF Waiting
      <4> QED BY <1>2, <2>3, <3>1, <4>1, <4>2
    <3> QED BY <2>8, <3>2, <3>3 DEF AttemptFails
  <2>9. CASE Mark
    <3>1. /\ run.pc = "mark" /\ flagged' = flagged \cup (run.batch \cap Live)
          /\ UNCHANGED <<vectors, skipped>>
      BY <2>9 DEF Mark, MarkEmbedded, RunAt
    <3>2. run'.pc = "page" /\ run'.deferred = run.deferred /\ run'.failing = run.failing
      BY <1>1, <2>9 DEF Mark, RunType
    <3>3. Has' = Has
      BY <3>1, <3>2 DEF Waiting
    <3> QED BY <1>2, <2>3, <3>1, <3>2, <3>3
  <2>10. CASE \E i \in run.deferred : RetryOne(i)
    <3>1. PICK i \in run.deferred : RetryOne(i)
      BY <2>10
    <3>2. UNCHANGED flagged /\ run.pc = "retry"
      BY <3>1 DEF RetryOne, db, RunAt
    <3>3. CASE /\ run' = [run EXCEPT !.deferred = @ \ {i}]
               /\ vectors' \cup skipped' = vectors \cup skipped \cup {i}
      <4>1. run'.pc = "retry" /\ run'.deferred = run.deferred \ {i} /\ run'.failing = run.failing
        BY <1>1, <3>2, <3>3 DEF RunType
      <4>2. Has' = Has
        BY <3>3, <4>1 DEF Waiting
      <4> QED BY <1>2, <2>3, <3>2, <4>1, <4>2
    <3>4. CASE /\ run' = [run EXCEPT !.deferred = @ \ {i}, !.failing = @ \cup {i}]
               /\ UNCHANGED <<vectors, skipped>>
      <4>1. run'.pc = "retry" /\ run'.deferred = run.deferred \ {i} /\ run'.failing = run.failing \cup {i}
        BY <1>1, <3>2, <3>4 DEF RunType
      <4>2. Has' = Has
        BY <3>4, <4>1 DEF Waiting
      <4> QED BY <1>2, <2>3, <3>2, <4>1, <4>2
    <3> QED BY <3>1, <3>3, <3>4 DEF RetryOne
  <2>11. CASE NextPass
    <3>1. /\ run'.pc = run.pc /\ run.pc = "retry" /\ run'.deferred = run.failing /\ run'.failing = {}
          /\ run.deferred = {} /\ UNCHANGED <<flagged, vectors, skipped>>
      BY <1>1, <2>11 DEF NextPass, RunAt, RunType, db
    <3>2. Has' = Has
      BY <3>1 DEF Waiting
    <3> QED BY <1>2, <2>3, <3>1, <3>2
  <2>12. CASE RunReturns
    <3>1. /\ run'.pc = "done" /\ run'.deferred = {} /\ run'.failing = {}
          /\ skipped' = skipped \cup run.deferred \cup run.failing /\ UNCHANGED <<flagged, vectors>>
      BY <1>1, <2>12 DEF RunReturns, RunType, db
    <3>2. Has' = Has
      BY <3>1 DEF Waiting
    <3> QED BY <1>2, <2>3, <3>1, <3>2
  <2>13. CASE RunAborts
    BY <1>2, <1>4, <2>13 DEF RunAborts
  <2>14. CASE RunEnds
    <3>1. /\ run.pc = "done" /\ run'.pc \in {"idle", "endSave"} /\ run'.deferred = {}
          /\ run'.failing = {} /\ UNCHANGED <<flagged, vectors, skipped>>
      BY <1>2, <2>14 DEF RunEnds, Idle, db
    <3>2. Has' = Has
      BY <1>2, <3>1 DEF Waiting
    <3> QED BY <1>2, <2>3, <3>1, <3>2
  <2> QED BY <1>8, <2>4, <2>5, <2>6, <2>7, <2>8, <2>9, <2>10, <2>11, <2>12, <2>13, <2>14 DEF Run
<1>9. CASE Save
  <2>1. UNCHANGED <<owner, flagged, vectors, phase, writer, skipped>> /\ Live' = Live
    BY <1>9 DEF Save, PeriodicSave, PeriodicSaved, RunSaved, db, Live
  <2>2. JobPart'
    BY <1>5, <2>1
  <2>3. CASE UNCHANGED run
    BY <1>2, <2>1, <2>2, <2>3 DEF Backed, Waiting
  <2>4. CASE RunSaved
    <3>1. /\ run.pc \in {"preSave", "endSave"} /\ run'.pc \in {"page", "idle"}
          /\ run'.deferred = {} /\ run'.failing = {}
      BY <1>1, <1>2, <2>4 DEF RunSaved, RunType, Idle
    <3>2. flagged' \subseteq vectors' \cup Waiting'
      BY <1>2, <2>1, <3>1 DEF Waiting
    <3> QED BY <1>2, <2>1, <2>2, <3>1, <3>2 DEF Backed
  <2> QED BY <1>9, <2>3, <2>4 DEF Save, PeriodicSave, PeriodicSaved
<1>10. CASE BeginStop \/ StopSave \/ StopSaved
  <2>1. UNCHANGED <<owner, flagged, vectors, writer, run, skipped>> /\ Live' = Live
    BY <1>10, Zenon DEF BeginStop, StopSave, StopSaved, db, Live
  <2>2. JobPart'
    BY <1>5, <2>1
  <2> QED BY <1>2, <2>1, <2>2 DEF Backed, Waiting
<1>11. CASE Restart
  <2>1. /\ vectors' = disk /\ writer' = NoJob /\ run' = Idle
        /\ UNCHANGED <<owner, flagged, skipped>> /\ phase = "saved"
    BY <1>4, <1>11 DEF Restart, Start
  <2>2. flagged \subseteq disk \cup skipped
    BY <2>1 DEF Stopped
  <2> QED BY <2>1, <2>2 DEF Backed, Waiting, Idle, NoJob
<1> QED BY <1>6, <1>7, <1>8, <1>9, <1>10, <1>11 DEF Next, Process

------------------------------------------------------------------------------
(* index --embed does one thing after the other *)

(* What Orderly leaves out of a step. *)
LEMMA OrderlyStep ==
  ASSUME Typed, Orderly, Next
  PROVE  /\ mode = "cli" /\ "abort" \notin Faults /\ "writeError" \notin Faults
         /\ "upgrade" \notin Faults /\ "crash" \notin Faults
  BY DEF Typed, RestTyped, Orderly

(* Each step waits for what the one before it began: a job starts while nothing is  *)
(* embedded, the run when the writer has ended, Stop when the run has.             *)
LEMMA InTurnStep ==
  ASSUME Typed, Orderly, InTurn, Next
  PROVE  InTurn'
<1>1. /\ writer \in JobType /\ run \in RunType /\ status \in [Files -> Statuses]
      /\ mode = "cli" /\ "writeError" \notin Faults
      /\ "upgrade" \notin Faults /\ "crash" \notin Faults
  BY OrderlyStep DEF Typed, JobTyped, RunTyped, RowsTyped
<1>2. /\ writer.pc = "idle" => writer.file = NoFile
      /\ writer.pc # "idle" =>
           phase = "up" /\ writer.pc # "deleteFile" /\ status[writer.file] = "pending"
      /\ run.pc # "idle" => phase = "embedding"
  BY DEF InTurn
<1>3. CASE Writer
  <2>1. UNCHANGED <<run, phase>>
    BY <1>3, Zenon DEF Writer, UpsertFile, CollectForDelete, Collect, DeleteChunksByFile,
         DeleteFileByPath, InsertChunks, DeleteVectors, WriterFails
  <2>2. ASSUME NEW f \in Files, UpsertFile(f) PROVE InTurn'
    <3>1. phase = "up" /\ writer'.pc = "collect" /\ writer'.file = f /\ status'[f] = "pending"
      BY <1>1, <2>2 DEF UpsertFile, WriterMayTakeJob
    <3> QED BY <1>2, <2>1, <3>1 DEF InTurn
  <2>3. ASSUME NEW pc \in {"deleteChunks", "insert", "deleteVectors"}, writer.pc # "idle",
               UNCHANGED status, writer'.pc = pc, writer'.file = writer.file
        PROVE  InTurn'
    BY <1>2, <2>1, <2>3 DEF InTurn
  <2>4. CASE Collect
    <3>1. /\ writer.pc = "collect" /\ UNCHANGED status
          /\ writer'.pc = "deleteChunks" /\ writer'.file = writer.file
      BY <1>1, <2>4 DEF Collect, JobType, db
    <3> QED BY <2>3, <3>1
  <2>5. CASE DeleteChunksByFile
    <3>1. /\ writer.pc = "deleteChunks" /\ UNCHANGED status
          /\ writer'.pc = "insert" /\ writer'.file = writer.file
      BY <1>1, <2>5 DEF DeleteChunksByFile, StepTo, JobType
    <3> QED BY <2>3, <3>1
  <2>6. ASSUME NEW n \in ChunkCounts, InsertChunks(n) PROVE InTurn'
    <3>1. /\ writer.pc = "insert" /\ UNCHANGED status
          /\ writer'.pc = "deleteVectors" /\ writer'.file = writer.file
      BY <1>1, <2>6 DEF InsertChunks, StepTo, JobType
    <3> QED BY <2>3, <3>1
  <2>7. CASE DeleteVectors
    <3>1. writer' = NoJob
      BY <2>7 DEF DeleteVectors
    <3> QED BY <1>2, <2>1, <3>1 DEF InTurn, NoJob
  <2>8. ~DeleteFileByPath /\ ~WriterFails /\ \A f \in Files : ~CollectForDelete(f)
    BY <1>1, <1>2 DEF DeleteFileByPath, WriterFails, CollectForDelete
  <2> QED BY <1>3, <2>2, <2>4, <2>5, <2>6, <2>7, <2>8, Zenon DEF Writer
<1>4. CASE StartRun
  <2>1. writer.pc = "idle" /\ writer' = writer /\ phase' = "embedding"
    BY <1>1, <1>4 DEF StartRun
  <2> QED BY <1>2, <2>1 DEF InTurn
<1>5. CASE Run \/ RunSaved
  <2>1. UNCHANGED <<phase, writer>>
    BY <1>5, Zenon DEF Run, ReadPage, TakeBatch, Permanent, Shrunk, AttemptFails, Mark, Answered,
         RetryOne, NextPass, RunReturns, RunAborts, RunEnds, RunSaved
  <2>2. run.pc # "idle"
    BY <1>5 DEF Run, ReadPage, TakeBatch, Permanent, Shrunk, AttemptFails, Mark, Answered,
         RetryOne, NextPass, RunReturns, RunAborts, RunEnds, RunSaved, RunAt
  <2> QED BY <1>2, <2>1, <2>2 DEF InTurn
<1>6. CASE PeriodicSave \/ PeriodicSaved
  <2>1. UNCHANGED <<phase, writer, run, status>>
    BY <1>6, Zenon DEF PeriodicSave, PeriodicSaved, db
  <2> QED BY <1>2, <2>1 DEF InTurn
<1>7. CASE BeginStop \/ StopSave \/ StopSaved
  <2>1. /\ UNCHANGED <<writer, run>> /\ phase # "up"
        /\ phase = "embedding" => run.pc = "idle"
    BY <1>1, <1>7 DEF BeginStop, StopSave, StopSaved
  <2> QED BY <1>2, <2>1 DEF InTurn
<1>8. CASE Restart
  <2>1. writer' = NoJob /\ run' = Idle
    BY <1>8 DEF Restart, Start
  <2> QED BY <2>1 DEF InTurn, NoJob, Idle
<1> QED BY <1>3, <1>4, <1>5, <1>6, <1>7, <1>8 DEF Next, Save, Process

(* Stop saves the store when nothing changes it any more, and the flags agree with *)
(* it by then; an empty store is not saved, and backs no flag.                    *)
LEMMA StoppedStep ==
  ASSUME Typed, Gentle, Backed, Stopped, Orderly => InTurn, Next
  PROVE  Stopped'
<1>1. UNCHANGED world
  BY DEF Next
<1>2. Calm' = Calm
  BY <1>1 DEF Calm, Faults
<1>3. CASE Calm
  <2>1. "stop" \notin Faults /\ phase \in {"up", "embedding"}
    BY <1>3 DEF Calm, Stopped
  <2>2. phase' = phase \/ phase' \in {"up", "embedding"}
    BY <2>1 DEF Next, Writer, UpsertFile, CollectForDelete, Collect, DeleteChunksByFile,
      DeleteFileByPath, InsertChunks, DeleteVectors, WriterFails, StartRun, Run, ReadPage, TakeBatch,
      Permanent, Shrunk, AttemptFails, Mark, Answered, RetryOne, NextPass, RunReturns, RunAborts,
      RunEnds, Save, PeriodicSave, PeriodicSaved, RunSaved, Process, BeginStop, StopSave, StopSaved,
      Restart, Start
  <2> QED BY <1>2, <1>3, <2>1, <2>2 DEF Stopped
<1>4. CASE ~Calm
  <2>1. Orderly /\ ~world.saves /\ InTurn
    BY <1>4 DEF Gentle
  <2>2. /\ snapshot \in [Savers -> SUBSET Ids] /\ snapshot["periodic"] = {}
        /\ phase = "saving" => snapshot["stop"] = vectors
        /\ phase = "saved" => flagged \subseteq disk \cup skipped
    BY <1>4 DEF Stopped, Typed, RestTyped
  <2>3. mode = "cli" /\ "upgrade" \notin Faults /\ "crash" \notin Faults
    BY <2>1, OrderlyStep
  <2> SUFFICES /\ snapshot'["periodic"] = {}
               /\ phase' = "saving" => snapshot'["stop"] = vectors'
               /\ phase' = "saved" => flagged' \subseteq disk' \cup skipped'
    BY <1>2, <1>4 DEF Stopped
  <2>4. CASE Writer
    <3>1. UNCHANGED <<phase, snapshot>> /\ (writer.pc # "idle" \/ phase = "up")
      BY <2>4 DEF Writer, UpsertFile, CollectForDelete, Collect, DeleteChunksByFile,
           DeleteFileByPath, InsertChunks, DeleteVectors, WriterFails, WriterMayTakeJob
    <3> QED BY <2>1, <2>2, <3>1 DEF InTurn
  <2>5. CASE StartRun
    <3>1. phase' = "embedding" /\ snapshot'["periodic"] = snapshot["periodic"]
      BY <2>2, <2>3, <2>5 DEF StartRun, Savers
    <3> QED BY <2>2, <3>1
  <2>6. CASE Run \/ RunSaved
    <3>1. run.pc # "idle" /\ UNCHANGED phase
      BY <2>6 DEF Run, ReadPage, TakeBatch, Permanent, Shrunk, AttemptFails, Mark, Answered,
           RetryOne, NextPass, RunReturns, RunAborts, RunEnds, RunSaved, RunAt
    <3>2. UNCHANGED snapshot \/ \E S \in {vectors, {}} : snapshot' = [snapshot EXCEPT !["run"] = S]
      BY <2>6 DEF Run, ReadPage, TakeBatch, Permanent, Shrunk, AttemptFails, Mark, Answered,
           RetryOne, NextPass, RunReturns, RunAborts, RunEnds, RunSaved, Replace
    <3>3. snapshot'["periodic"] = snapshot["periodic"]
      BY <2>2, <3>2 DEF Savers
    <3> QED BY <2>1, <2>2, <3>1, <3>3 DEF InTurn
  <2>7. ~PeriodicSave /\ ~PeriodicSaved
    BY <2>1, <2>2 DEF PeriodicSave, PeriodicSaved
  <2>8. CASE BeginStop
    BY <2>2, <2>8 DEF BeginStop
  <2>9. CASE StopSave
    BY <2>2, <2>9 DEF StopSave, Savers
  <2>10. CASE StopSaved
    <3>1. /\ phase = "saving" /\ phase' = "saved" /\ UNCHANGED <<flagged, skipped>>
          /\ disk' = IF snapshot["stop"] = {} THEN disk ELSE snapshot["stop"]
          /\ snapshot' = [snapshot EXCEPT !["stop"] = {}]
      BY <2>10 DEF StopSaved, Replace, db
    <3>2. run.pc = "idle"
      BY <2>1, <3>1 DEF InTurn
    <3>3. flagged \subseteq vectors \cup skipped
      BY <3>2 DEF Backed, Waiting
    <3>4. vectors \subseteq disk'
      BY <2>2, <3>1
    <3>5. snapshot'["periodic"] = {}
      BY <2>2, <3>1 DEF Savers
    <3> QED BY <3>1, <3>3, <3>4, <3>5
  <2>11. CASE Restart
    BY <2>11 DEF Restart, Start, Savers
  <2> QED BY <2>4, <2>5, <2>6, <2>7, <2>8, <2>9, <2>10, <2>11 DEF Next, Save, Process
<1> QED BY <1>3, <1>4

------------------------------------------------------------------------------
(* The statuses of index --embed *)

(* What embedding_status says of a file is true. *)
Honest(f) ==
  /\ status[f] = "complete" => Chunks(f) \subseteq flagged
  /\ status[f] = "partial" => Chunks(f) \cap flagged # {} /\ ~(Chunks(f) \subseteq flagged)

(* A row that stays as it was says what it said. *)
LEMMA HonestStays ==
  ASSUME NEW f, Honest(f), status'[f] = status[f], Chunks(f)' = Chunks(f),
         \A i \in Chunks(f) : i \in flagged' <=> i \in flagged
  PROVE  Honest(f)'
  BY DEF Honest

(* A recomputed status is true: MarkEmbedded may keep "complete" because it unmarks   *)
(* nothing, and a chunk that Reset unmarks keeps its file from being complete.       *)
LEMMA MarksHonest ==
  ASSUME RowsTyped, NEW ids \in SUBSET Ids, MarkEmbedded(ids) \/ Reset(ids) \/ ResetAll,
         UNCHANGED owner, NEW f \in Files, Honest(f)
  PROVE  Honest(f)'
<1>1. Chunks(f)' = Chunks(f) /\ Chunks(f) \subseteq Live /\ flagged \subseteq Live
  BY EmbedAssumption DEF Chunks, Live, RowsTyped, EmbedAssumption
<1>2. f \notin Affected(ids) => Chunks(f) \cap ids = {}
  BY <1>1 DEF Affected, Chunks
<1>3. f \in Affected(ids) => \E i \in ids \cap Live : i \in Chunks(f)
  BY DEF Affected, Chunks, Live
<1>4. CASE MarkEmbedded(ids)
  <2>1. flagged' = flagged \cup (ids \cap Live)
    BY <1>4 DEF MarkEmbedded
  <2>2. status'[f] = IF f \notin Affected(ids) THEN status[f]
                     ELSE IF Chunks(f) \subseteq flagged' \/ status[f] = "complete"
                       THEN "complete" ELSE "partial"
    BY <1>4 DEF MarkEmbedded
  <2>3. CASE f \notin Affected(ids)
    BY <1>1, <1>2, <2>1, <2>2, <2>3, HonestStays
  <2>4. CASE f \in Affected(ids)
    <3>1. Chunks(f) \cap flagged' # {}
      BY <1>3, <2>1, <2>4
    <3>2. status[f] = "complete" => Chunks(f) \subseteq flagged'
      BY <2>1 DEF Honest
    <3> QED BY <1>1, <2>2, <2>4, <3>1, <3>2 DEF Honest
  <2> QED BY <2>3, <2>4
<1>5. CASE Reset(ids)
  <2>1. flagged' = flagged \ ids
    BY <1>5 DEF Reset
  <2>2. status'[f] = IF f \notin Affected(ids) THEN status[f]
                     ELSE IF Chunks(f) \cap flagged' = {} THEN "pending" ELSE "partial"
    BY <1>5 DEF Reset
  <2>3. CASE f \notin Affected(ids)
    BY <1>1, <1>2, <2>1, <2>2, <2>3, HonestStays
  <2>4. CASE f \in Affected(ids)
    <3>1. ~(Chunks(f) \subseteq flagged')
      BY <1>3, <2>1, <2>4
    <3> QED BY <1>1, <2>2, <2>4, <3>1 DEF Honest
  <2> QED BY <2>3, <2>4
<1>6. CASE ResetAll
  BY <1>6 DEF ResetAll, Honest
<1> QED BY <1>4, <1>5, <1>6

(* A job changes the chunks of its own file, whose row is 'pending' from its first       *)
(* transaction on, and nothing runs beside a run.                                     *)
LEMMA StatusStep ==
  ASSUME Typed, Known, Orderly, InTurn, StatusHonest, Next
  PROVE  StatusHonest'
<1>1. /\ writer \in JobType /\ run \in RunType /\ RowsTyped
      /\ writer.pc = "idle" => writer.file = NoFile
      /\ writer.pc # "idle" => writer.file \in Files
      /\ Live \subseteq Used /\ NoFile \notin Files
  BY EmbedAssumption, IdsGrow DEF Typed, JobTyped, RunTyped, InTurn, EmbedAssumption
<1>2. \A f \in Files : writer.file # f => Honest(f)
  BY DEF StatusHonest, Honest
<1>3. \A f \in Files : Chunks(f) \subseteq Live
  BY <1>1 DEF Chunks, Live
<1> SUFFICES ASSUME NEW f \in Files, writer'.file # f PROVE Honest(f)'
  BY DEF StatusHonest, Honest
<1>4. ASSUME UNCHANGED <<owner, flagged, status>>, Honest(f) PROVE Honest(f)'
  BY <1>4, HonestStays DEF Chunks
<1>5. CASE Writer
  <2>1. ASSUME NEW g \in Files, UpsertFile(g) PROVE Honest(f)'
    <3>1. /\ writer.pc = "idle" /\ writer'.file = g /\ UNCHANGED <<owner, flagged>>
          /\ f # g => status'[f] = status[f]
      BY <2>1 DEF UpsertFile, WriterMayTakeJob
    <3>2. Honest(f)
      BY <1>1, <1>2, <3>1
    <3> QED BY <3>1, <3>2, HonestStays DEF Chunks
  <2>2. CASE Collect
    <3>1. writer'.file = writer.file /\ UNCHANGED <<owner, flagged, status>>
      BY <1>1, <2>2 DEF Collect, JobType, db
    <3> QED BY <1>2, <1>4, <3>1
  <2>3. CASE DeleteChunksByFile
    <3>1. writer'.file = writer.file /\ RemoveChunks({writer.file}) /\ UNCHANGED status
      BY <1>1, <2>3 DEF DeleteChunksByFile, StepTo, JobType
    <3>2. Honest(f)
      BY <1>2, <3>1
    <3>3. Chunks(f)' = Chunks(f) /\ \A i \in Chunks(f) : i \in flagged' <=> i \in flagged
      BY <1>1, <3>1 DEF RemoveChunks, Chunks
    <3> QED BY <3>1, <3>2, <3>3, HonestStays
  <2>4. ASSUME NEW n \in ChunkCounts, InsertChunks(n) PROVE Honest(f)'
    <3>1. /\ writer'.file = writer.file /\ UNCHANGED <<flagged, status>>
          /\ owner' = [i \in Ids |-> IF i \in nextId..(nextId + n - 1) THEN writer.file ELSE owner[i]]
      BY <1>1, <2>4 DEF InsertChunks, StepTo, JobType, FreshId
    <3>2. \A i \in Used : i \notin nextId..(nextId + n - 1)
      BY <1>1, Constants DEF Used, RowsTyped
    <3>3. Chunks(f)' = Chunks(f)
      <4>1. ASSUME NEW i \in Ids PROVE owner'[i] = f <=> owner[i] = f
        BY <1>1, <3>1, <3>2 DEF Live
      <4> QED BY <4>1 DEF Chunks
    <3>4. Honest(f)
      BY <1>2, <3>1
    <3> QED BY <3>1, <3>3, <3>4, HonestStays
  <2>5. CASE DeleteVectors
    <3>1. UNCHANGED <<owner, flagged, status>>
      BY <2>5 DEF DeleteVectors, db
    <3>2. writer.file = f => status[f] = "pending"
      BY <2>5 DEF DeleteVectors, InTurn
    <3>3. Honest(f)
      BY <1>2, <3>2 DEF Honest
    <3> QED BY <1>4, <3>1, <3>3
  <2>6. ~DeleteFileByPath /\ ~WriterFails /\ \A g \in Files : ~CollectForDelete(g)
    BY OrderlyStep DEF DeleteFileByPath, WriterFails, CollectForDelete, InTurn
  <2> QED BY <1>5, <2>1, <2>2, <2>3, <2>4, <2>5, <2>6, Zenon DEF Writer
<1>6. CASE StartRun
  <2>1. writer.pc = "idle" /\ UNCHANGED owner /\ Reconcile
    BY <1>6, OrderlyStep DEF StartRun
  <2>2. Honest(f)
    BY <1>1, <1>2, <2>1
  <2>3. flagged \ vectors \in SUBSET Ids
    BY <1>1 DEF RowsTyped, Live
  <2>4. \/ UNCHANGED <<flagged, status>>
        \/ ResetAll
        \/ Reset(flagged \ vectors)
    BY <2>1, Zenon DEF Reconcile
  <2> QED BY <1>1, <1>4, <2>1, <2>2, <2>3, <2>4, MarksHonest
<1>7. CASE Mark
  <2>1. UNCHANGED <<owner, writer>> /\ MarkEmbedded(run.batch) /\ run.batch \in SUBSET Ids
    BY <1>1, <1>7 DEF Mark, RunType
  <2>2. Honest(f)
    BY <1>2, <2>1
  <2> QED BY <1>1, <2>1, <2>2, MarksHonest
<1>8. CASE UNCHANGED <<owner, flagged, status, writer>>
  BY <1>2, <1>4, <1>8
<1>9. CASE Restart
  <2>1. phase = "saved" /\ UNCHANGED <<owner, flagged, status>>
    BY <1>9, OrderlyStep DEF Restart, Start
  <2>2. Honest(f)
    BY <1>1, <1>2, <2>1 DEF InTurn
  <2> QED BY <1>4, <2>1, <2>2
<1>10. Run \/ Save \/ BeginStop \/ StopSave \/ StopSaved =>
         Mark \/ UNCHANGED <<owner, flagged, status, writer>>
  BY Zenon DEF Run, ReadPage, TakeBatch, Permanent, Shrunk, AttemptFails, Answered, RetryOne,
       NextPass, RunReturns, RunAborts, RunEnds, Save, PeriodicSave, PeriodicSaved, RunSaved,
       BeginStop, StopSave, StopSaved, db
<1> QED BY <1>5, <1>6, <1>7, <1>8, <1>9, <1>10, Zenon DEF Next, Process

------------------------------------------------------------------------------
(* The theorems *)

(* The invariant at the start, and after every step. *)
LEMMA EmbedInvInit == Init => EmbedInv
<1> SUFFICES ASSUME Init PROVE EmbedInv
  OBVIOUS
<1>1. Typed
  BY TypedInit
<1>2. Known
  BY DEF Init, Known, Idle, NoJob, Used
<1>3. Backed
  BY DEF Init, Backed, Idle, NoJob, Waiting
<1>4. Covered
  BY DEF Init, Covered, Idle
<1>5. Stopped
  BY DEF Init, Stopped, Savers
<1>6. InTurn
  BY DEF Init, InTurn, Idle, NoJob
<1>7. StatusHonest
  BY DEF Init, StatusHonest
<1> QED BY <1>1, <1>2, <1>3, <1>4, <1>5, <1>6, <1>7 DEF EmbedInv

(* One step: each part from the parts before it. *)
LEMMA EmbedInvStep == EmbedInv /\ [Next]_vars => EmbedInv'
<1> SUFFICES ASSUME EmbedInv, [Next]_vars PROVE EmbedInv'
  OBVIOUS
<1>1. CASE Next
  <2>1. Gentle' = Gentle /\ Orderly' = Orderly
    BY <1>1 DEF Next, Gentle, Calm, Orderly, Faults, Modes
  <2>2. Typed /\ Known /\ Covered
    BY DEF EmbedInv
  <2>3. Typed' /\ Known' /\ Covered'
    BY <1>1, <2>2, TypedStep, KnownStep, CoveredStep
  <2>4. ASSUME Gentle PROVE Backed' /\ Stopped'
    <3>1. Backed /\ Stopped /\ (Orderly => InTurn)
      BY <2>4 DEF EmbedInv
    <3> QED BY <1>1, <2>2, <2>4, <3>1, BackedStep, StoppedStep
  <2>5. ASSUME Orderly PROVE InTurn' /\ StatusHonest'
    <3>1. InTurn /\ StatusHonest
      BY <2>5 DEF EmbedInv
    <3> QED BY <1>1, <2>2, <2>5, <3>1, InTurnStep, StatusStep
  <2> QED BY <2>1, <2>3, <2>4, <2>5 DEF EmbedInv
<1>2. CASE UNCHANGED vars
  <2>1. /\ UNCHANGED <<owner, flagged, status, nextId, vectors, disk, snapshot, mode, phase, writer,
                       run, skipped, world>>
        /\ Live' = Live /\ \A f : Chunks(f)' = Chunks(f)
    BY <1>2 DEF vars, Live, Chunks
  <2>2. Typed'
    BY <2>1 DEF EmbedInv, Typed, RowsTyped, RestTyped, JobTyped, RunTyped, RunType, Modes
  <2>3. Known'
    BY <2>1 DEF EmbedInv, Known, Used
  <2>4. Gentle' = Gentle /\ Orderly' = Orderly
    BY <2>1 DEF Gentle, Calm, Orderly, Faults, Modes
  <2>5. Gentle => Backed' /\ Stopped'
    BY <2>1 DEF EmbedInv, Backed, Waiting, Stopped, Calm, Faults
  <2>6. Covered'
    BY <2>1 DEF EmbedInv, Covered
  <2>7. Orderly => InTurn' /\ StatusHonest'
    BY <2>1 DEF EmbedInv, InTurn, StatusHonest
  <2> QED BY <2>2, <2>3, <2>4, <2>5, <2>6, <2>7 DEF EmbedInv
<1> QED BY <1>1, <1>2

(* The invariant holds for any files, ids, pages, batches, retries and worlds. *)
THEOREM EmbedInvariant == Spec => []EmbedInv
<1> QED BY EmbedInvInit, EmbedInvStep, PTL DEF Spec

(* Every variable keeps its type through replaced files, runs, saves, stops, crashes *)
(* and upgrades, and a chunk always belongs to a file row (the foreign key of     *)
(* chunks.file_id): whatever the interleaving of writer.go and embed_worker.go.   *)
THEOREM EmbedTypes == Spec => []TypeOK
<1>1. EmbedInv => TypeOK
  BY TypedIsTypeOK DEF EmbedInv
<1> QED BY <1>1, EmbedInvariant, PTL

(* While nothing ends the process, a chunk with embedded = 1 has its vector, is      *)
(* deferred by the run, or was given up: the writer's deletions of vectors            *)
(* (writer.go processJob) never hit a chunk that is there, and MarkChunksEmbedded      *)
(* for a whole batch marks none that retryDeferred does not know.                    *)
THEOREM FlagsAreBacked == Spec => []FlaggedHasVector
<1>1. EmbedInv => FlaggedHasVector
  BY TypedIsTypeOK DEF EmbedInv, Gentle, Calm, Backed, Waiting, FlaggedHasVector
<1> QED BY <1>1, EmbedInvariant, PTL

(* In index --embed, between the writer's jobs, embedding_status tells the truth, and   *)
(* when no run is under way each marked chunk is embedded or was given up: over jobs,   *)
(* runs that reconcile the flags, Stop and the next process, as long as no periodic     *)
(* save is still under way when Stop saves.                                           *)
THEOREM IndexEmbedIsHonest == Spec => []IndexEmbedHonest
<1>1. EmbedInv => StatusHonest
  BY DEF EmbedInv, StatusHonest
<1>2. EmbedInv => NoChunkForgotten
  BY DEF EmbedInv, Gentle, Backed, Waiting, NoChunkForgotten
<1> QED BY <1>1, <1>2, EmbedInvariant, PTL DEF IndexEmbedHonest

(* A run of RunFromDB that returns nil has marked every chunk that waited when it      *)
(* began and still exists, for any page, batch and order of the writer's steps.      *)
THEOREM RunMarksAll == Spec => []RunCovers
<1>1. EmbedInv => RunCovers
  BY DEF EmbedInv, Covered, RunCovers
<1> QED BY <1>1, EmbedInvariant, PTL

(* The id of a new chunk is in no store, file or save under way: AUTOINCREMENT of       *)
(* chunks.id, and nothing that remembers ids outlives it.                             *)
THEOREM NoVectorInherited == Spec => BornWithoutVector
<1> DEFINE Held == vectors \cup disk \cup UNION {snapshot[s] : s \in Savers}
<1>1. ASSUME EmbedInv, [Next]_vars
      PROVE  [\A i \in Live' \ Live : i \notin Held]_vars
  <2>1. CASE UNCHANGED vars
    BY <2>1
  <2>2. CASE Next
    <3>1. Typed /\ Held \subseteq Used
      BY <1>1 DEF EmbedInv, Known
    <3>2. \A i \in Used : i \in Live' => i \in Live
      <4>1. CASE Writer
        BY <3>1, <4>1, WriterRows
      <4>2. CASE UNCHANGED owner
        BY <4>2 DEF Live
      <4>3. CASE \E m, u : Start(m, u)
        BY <4>3 DEF Start, RemoveChunks, Live, Used
      <4> QED BY <2>2, <4>1, <4>2, <4>3, Zenon DEF Next, StartRun, Run, ReadPage, TakeBatch, Permanent,
            Shrunk, AttemptFails, Mark, Answered, RetryOne, NextPass, RunReturns, RunAborts, RunEnds,
            Save, PeriodicSave, PeriodicSaved, RunSaved, Process, BeginStop, StopSave, StopSaved,
            Restart, db
    <3> QED BY <3>1, <3>2
  <2> QED BY <1>1, <2>1, <2>2
<1>2. Spec => [][\A i \in Live' \ Live : i \notin Held]_vars
  BY <1>1, EmbedInvariant, PTL DEF Spec
<1> QED BY <1>2 DEF BornWithoutVector
==============================================================================
