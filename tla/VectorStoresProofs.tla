------------------------- MODULE VectorStoresProofs -------------------------
(***************************************************************************)
(* What VectorStores keeps for every set of projects, every number of savers   *)
(* and every bound, and that the stores implement VectorMap.                  *)
(***************************************************************************)
EXTENDS VectorStores, TLAPS

(* The setups in which one project's ids or one project's requests do not      *)
(* reach another's vectors: a store and a file of its own, or a server that is  *)
(* given a project id.  The third, qdrant beside SQLite, is known not to.       *)
Scopes == InProcess \/ Scoped

Places   == Projects \cup {Server}
Held     == Vector \cup {NoVector}
FileType == [state : {"none", "partial", "whole"}, points : [Ids -> Held],
             dead : SUBSET Ids]
SaverType == [pc : {"idle", "writing", "written"}, file : {"tmp", "path", "own"},
              copy : FileType]
RunType  == [pc : {"idle", "upsert", "mark"}, batch : SUBSET Ids, left : SUBSET Ids,
             vector : Held]

DbTyped ==
  /\ setup \in Setups
  /\ chunks \in [Projects -> SUBSET Ids] /\ flagged \in [Projects -> SUBSET Ids]
  /\ nextId \in [Projects -> 1..(MaxId + 1)] /\ epoch \in [Projects -> 0..MaxEpoch]
StoreTyped ==
  /\ points \in [Places -> [Ids -> Held]] /\ dead \in [Places -> SUBSET Ids]
FilesTyped ==
  /\ disk \in [Projects -> FileType] /\ tmp \in [Projects -> FileType]
  /\ saver \in [Projects -> [Savers -> SaverType]]
ProcessTyped ==
  /\ up \in [Projects -> BOOLEAN] /\ run \in [Projects -> RunType]
  /\ stale \in [Projects -> SUBSET Ids]
  /\ purge \in [Projects -> {"none", "metadata", "vectors", "database", "files"}]
  /\ torn \in [Projects -> BOOLEAN]
Typed == DbTyped /\ StoreTyped /\ FilesTyped /\ ProcessTyped

(* Flags are of chunks; a run stores the vector that it computed from the        *)
(* database it read, and marks when nothing is left.                           *)
RunRight(p) ==
  /\ flagged[p] \subseteq chunks[p] /\ run[p].left \subseteq run[p].batch
  /\ run[p].pc # "idle" => run[p].vector = [of |-> p, epoch |-> epoch[p]]
  /\ run[p].pc # "upsert" => run[p].left = {}

(* A purge runs while the process is down, and a process that is down holds      *)
(* nothing.                                                                   *)
DownHoldsNothing(p) ==
  /\ purge[p] # "none" => ~up[p]
  /\ ~up[p] => /\ run[p] = IdleRun /\ stale[p] = {} /\ saver[p] = IdleSaver
               /\ InProcess => points[p] = Empty /\ dead[p] = {}

(* Only hnsw has deleted labels, each of a point that is stored.                 *)
LabelsOf(f, S) ==
  /\ S \subseteq {i \in Ids : f[i] # NoVector}
  /\ ~Is("hnsw") => S = {}
LabelsRight(p) ==
  /\ LabelsOf(points[p], dead[p])
  /\ LabelsOf(disk[p].points, disk[p].dead)
  /\ LabelsOf(tmp[p].points, tmp[p].dead)
  /\ \A s \in Savers : LabelsOf(saver[p][s].copy.points, saver[p][s].copy.dead)

(* A project's own memory and files hold its own vectors only, and, unless a     *)
(* purge is or was stopped between the two files, those of the database that     *)
(* is there.  A temporary file left behind by a crash is the exception until a    *)
(* saver of hnsw opens it.                                                    *)
Mine(p, f)    == \A i \in Ids : f[i] # NoVector => f[i].of = p
Current(p, f) == \A i \in Ids : f[i] # NoVector => f[i] = [of |-> p, epoch |-> epoch[p]]
FilesMine(p) ==
  InProcess => /\ Mine(p, points[p]) /\ Mine(p, disk[p].points) /\ Mine(p, tmp[p].points)
               /\ \A s \in Savers : Mine(p, saver[p][s].copy.points)
FilesCurrent(p) ==
  (InProcess /\ ~torn[p] /\ purge[p] # "files") =>
    /\ Current(p, points[p]) /\ Current(p, disk[p].points)
    /\ \A s \in Savers : saver[p][s].pc # "idle" =>
         /\ Current(p, saver[p][s].copy.points)
         /\ Is("hnsw") => Current(p, tmp[p].points)

(* brute_force renames whole files only. *)
FilesWhole(p) ==
  Is("brute_force") => /\ disk[p].state # "partial"
                       /\ \A s \in Savers : saver[p][s].copy.state # "partial"

(* What a project keeps by itself. *)
Local(p) ==
  /\ RunRight(p) /\ DownHoldsNothing(p) /\ LabelsRight(p)
  /\ FilesMine(p) /\ FilesCurrent(p) /\ FilesWhole(p)

(* The ids that a project answers for on a shared server: its chunks, those it    *)
(* deletes or embeds, and those of its vectors.                                *)
Claims(p) ==
  chunks[p] \cup stale[p] \cup run[p].batch
    \cup {i \in Ids : points[Server][i] # NoVector /\ points[Server][i].of = p}

(* One sequence gives every id of a server, to one project, once. *)
IdsApart ==
  /\ \A p, q \in Projects : nextId[p] = nextId[q]
  /\ \A p \in Projects : \A i \in Claims(p) : i < nextId[p]
  /\ \A p, q \in Projects : p # q => Claims(p) \cap Claims(q) = {}
  /\ \A p \in Projects : stale[p] \cap chunks[p] = {}
  /\ \A i \in Ids : points[Server][i] # NoVector =>
       points[Server][i].epoch = epoch[points[Server][i].of]

(* What a run has stored of the chunks that are still there is there, and so is    *)
(* what is flagged; a purge takes the chunks before their vectors.               *)
ServerKeeps ==
  \A p \in Projects :
    /\ flagged[p] \subseteq Stored(Server)
    /\ (run[p].batch \ run[p].left) \cap chunks[p] \subseteq Stored(Server)
    /\ purge[p] = "vectors" => chunks[p] = {}

Inv ==
  /\ Typed /\ dead[Server] = {}
  /\ \A p \in Projects : Local(p)
  /\ Scoped => IdsApart /\ ServerKeeps

------------------------------------------------------------------------------
(* Facts that the steps share *)

(* The pairs of ValidateBackendConfig: a store of the process goes with SQLite,   *)
(* pgvector with PostgreSQL.                                                   *)
LEMMA Pairs ==
  ASSUME setup \in Setups
  PROVE  /\ setup.vec \in Backends /\ setup.db \in {"sqlite", "postgres"}
         /\ setup.projects \subseteq Projects /\ setup.ids \in 0..MaxId
         /\ Scoped => ~InProcess
         /\ Is("pgvector") => Scoped
         /\ Is("brute_force") \/ Is("hnsw") <=> InProcess
         /\ ~InProcess => Is("pgvector") \/ Is("qdrant")
BY VectorAssumption DEF Valid, Scoped, InProcess, Is, Backends

(* An empty store, and the files that a saver starts from, have no vectors. *)
LEMMA Blanks ==
  /\ Empty \in [Ids -> Held] /\ \A i \in Ids : Empty[i] = NoVector
  /\ NoFile \in FileType /\ Partial \in FileType
  /\ NoFile.points = Empty /\ NoFile.dead = {} /\ NoFile.state = "none"
  /\ Partial.points = Empty /\ Partial.dead = {} /\ Partial.state = "partial"
  /\ IdleRun \in RunType /\ IdleSaver \in [Savers -> SaverType]
  /\ \A s \in Savers : IdleSaver[s].pc = "idle" /\ IdleSaver[s].copy = NoFile
  /\ IdleRun.pc = "idle" /\ IdleRun.batch = {} /\ IdleRun.left = {}
<1>1. Empty \in [Ids -> Held] /\ \A i \in Ids : Empty[i] = NoVector
  BY DEF Empty, Held
<1>2. NoFile \in FileType /\ NoFile.points = Empty /\ NoFile.dead = {} /\ NoFile.state = "none"
  BY <1>1 DEF NoFile, FileType
<1>3. Partial = [state |-> "partial", points |-> Empty, dead |-> {}]
  BY DEF Partial, NoFile
<1>4. Partial \in FileType /\ Partial.points = Empty /\ Partial.dead = {} /\ Partial.state = "partial"
  BY <1>1, <1>3 DEF FileType
<1>5. /\ IdleRun \in RunType
      /\ IdleRun.pc = "idle" /\ IdleRun.batch = {} /\ IdleRun.left = {}
  BY DEF IdleRun, RunType, Held
<1>6. /\ IdleSaver \in [Savers -> SaverType]
      /\ \A s \in Savers : IdleSaver[s].pc = "idle" /\ IdleSaver[s].copy = NoFile
  BY <1>2 DEF IdleSaver, SaverType
<1> QED BY <1>1, <1>2, <1>4, <1>5, <1>6

(* A request is of the ids that are waiting to be sent. *)
LEMMA WindowIsPart ==
  ASSUME NEW S
  PROVE  Window(S) \subseteq S
BY DEF Window

(* A step is a step of a project; the setup stays. *)
LEMMA SetupStays ==
  ASSUME NEW p \in Projects, Step(p)
  PROVE  setup' = setup
BY DEF Step, Embed, Upsert, Mark, Replace, DeleteStale, Save, BruteForceCopy, BruteForceRename,
       HnswOpen, HnswWrite, HnswRename, Crash, Boot, Purge, BeginPurge, PurgeMetadata,
       PurgeVectors, PurgeDatabase, PurgeVectorFiles, PurgeStops, PurgeStep

(* A step that changes the database is a mark, a replacement or one of the two   *)
(* steps of a purge. *)
LEMMA DbSteps ==
  ASSUME NEW p \in Projects, Step(p)
  PROVE  \/ UNCHANGED db
         \/ Mark(p) \/ PurgeMetadata(p) \/ PurgeDatabase(p)
         \/ \E D \in SUBSET chunks[p], n \in 0..2 : Replace(p, D, n)
BY Zenon DEF Step, Embed, Upsert, DeleteStale, Save, BruteForceCopy, BruteForceRename,
       HnswOpen, HnswWrite, HnswRename, Crash, Boot, Purge, BeginPurge,
       PurgeVectors, PurgeVectorFiles, PurgeStops, db

(* A step that changes the vectors is one of these. *)
LEMMA StoreSteps ==
  ASSUME NEW p \in Projects, Step(p)
  PROVE  \/ UNCHANGED store
         \/ Upsert(p) \/ DeleteStale(p) \/ Crash(p) \/ Boot(p)
         \/ PurgeMetadata(p) \/ PurgeVectors(p)
         \/ \E D \in SUBSET chunks[p], n \in 0..2 : Replace(p, D, n)
BY Zenon DEF Step, Embed, Mark, Save, BruteForceCopy, BruteForceRename,
       HnswOpen, HnswWrite, HnswRename, Purge, BeginPurge,
       PurgeDatabase, PurgeVectorFiles, PurgeStops, store

(* A step that changes the files is a saver's, a crash or the last of a purge. *)
LEMMA FileSteps ==
  ASSUME NEW p \in Projects, Step(p)
  PROVE  \/ UNCHANGED files
         \/ Crash(p) \/ PurgeVectorFiles(p)
         \/ \E s \in Savers : Save(p, s)
<1>1. PurgeMetadata(p) \/ PurgeVectors(p) \/ PurgeDatabase(p) \/ BeginPurge(p) => UNCHANGED files
  BY Zenon DEF BeginPurge, PurgeMetadata, PurgeVectors, PurgeDatabase, PurgeStep, files
<1> QED BY <1>1, Zenon DEF Step, Embed, Upsert, Mark, Replace, DeleteStale, Boot, Purge, PurgeStops, files

(* A step that changes the process: the run, what the writer deletes, whether it  *)
(* is up, or the purge. *)
LEMMA ProcessSteps ==
  ASSUME NEW p \in Projects, Step(p)
  PROVE  /\ UNCHANGED run \/ Embed(p) \/ Upsert(p) \/ Mark(p) \/ Crash(p)
         /\ \/ UNCHANGED stale \/ DeleteStale(p) \/ Crash(p)
            \/ \E D \in SUBSET chunks[p], n \in 0..2 : Replace(p, D, n)
         /\ UNCHANGED up \/ Crash(p) \/ Boot(p)
         /\ UNCHANGED <<purge, torn>> \/ Purge(p)
<1>1. Purge(p) => UNCHANGED <<run, stale, up>>
  BY Zenon DEF Purge, BeginPurge, PurgeMetadata, PurgeVectors, PurgeDatabase, PurgeVectorFiles,
     PurgeStops, PurgeStep
<1>2. ASSUME NEW s \in Savers, Save(p, s) PROVE UNCHANGED <<run, stale, up, purge, torn>>
  BY <1>2, Zenon DEF Save, BruteForceCopy, BruteForceRename, HnswOpen, HnswWrite, HnswRename
<1> QED BY <1>1, <1>2, Zenon DEF Step, Embed, Upsert, Mark, Replace, DeleteStale, Boot, Crash

(* The database: the ids that a replacement takes are those up to the bound. *)
LEMMA DbTypedStep ==
  ASSUME NEW p \in Projects, Step(p), DbTyped
  PROVE  DbTyped'
<1>. setup' = setup
  BY SetupStays
<1>1. CASE UNCHANGED db
  BY <1>1 DEF DbTyped, db
<1>2. CASE Mark(p)
  <2>1. flagged' = [flagged EXCEPT ![p] = @ \cup (run[p].batch \cap chunks[p])]
    BY <1>2 DEF Mark
  <2>2. flagged' \in [Projects -> SUBSET Ids]
    BY <2>1 DEF DbTyped
  <2> QED BY <1>2, <2>2 DEF Mark, DbTyped
<1>3. CASE PurgeMetadata(p)
  <2>1. chunks' \in [Projects -> SUBSET Ids] /\ flagged' \in [Projects -> SUBSET Ids]
    BY <1>3 DEF PurgeMetadata, DbTyped
  <2> QED BY <1>3, <2>1 DEF PurgeMetadata, DbTyped
<1>4. CASE PurgeDatabase(p)
  <2>1. chunks' \in [Projects -> SUBSET Ids] /\ flagged' \in [Projects -> SUBSET Ids]
    BY <1>4 DEF PurgeDatabase, DbTyped, db
  <2>2. 1 \in 1..(MaxId + 1)
    BY VectorAssumption
  <2>3. nextId' \in [Projects -> 1..(MaxId + 1)]
    BY <1>4, <2>2 DEF PurgeDatabase, DbTyped, db
  <2>4. setup.db = "sqlite" => epoch[p] + 1 \in 0..MaxEpoch
    BY <1>4, VectorAssumption DEF PurgeDatabase, DbTyped
  <2>5. epoch' \in [Projects -> 0..MaxEpoch]
    BY <1>4, <2>4 DEF PurgeDatabase, DbTyped, db
  <2> QED BY <2>1, <2>3, <2>5 DEF DbTyped
<1>5. ASSUME NEW D \in SUBSET chunks[p], NEW n \in 0..2, Replace(p, D, n)
      PROVE  DbTyped'
  <2>1. /\ nextId[p] \in 1..(MaxId + 1) /\ nextId[p] + n <= setup.ids + 1
        /\ setup.ids \in 0..MaxId
    BY <1>5, Pairs DEF DbTyped, Replace
  <2>2. nextId[p] + n \in 1..(MaxId + 1) /\ FreshIds(p, n) \subseteq Ids
    BY <2>1, VectorAssumption DEF FreshIds, Ids
  <2>3. chunks' \in [Projects -> SUBSET Ids] /\ flagged' \in [Projects -> SUBSET Ids]
    BY <1>5, <2>2 DEF Replace, DbTyped
  <2>4. nextId' \in [Projects -> 1..(MaxId + 1)]
    BY <1>5, <2>2 DEF Replace, DbTyped
  <2> QED BY <1>5, <2>3, <2>4 DEF Replace, DbTyped
<1> QED BY <1>1, <1>2, <1>3, <1>4, <1>5, DbSteps

(* A call of a store keeps the shape of the store. *)
LEMMA CallsTyped ==
  ASSUME StoreTyped, NEW h \in Places, NEW S
  PROVE  /\ \A v \in Held : Put(h, S, v) => StoreTyped'
         /\ Remove(h, S) => StoreTyped'
         /\ \A p \in Projects : HnswDelete(p, S) => StoreTyped'
<1>1. ASSUME NEW v \in Held, Put(h, S, v) PROVE StoreTyped'
  <2>1. [i \in Ids |-> IF i \in S THEN v ELSE points[h][i]] \in [Ids -> Held]
    BY DEF StoreTyped
  <2> QED BY <1>1, <2>1 DEF Put, StoreTyped
<1>2. ASSUME Remove(h, S) PROVE StoreTyped'
  <2>1. [i \in Ids |-> IF i \in S THEN NoVector ELSE points[h][i]] \in [Ids -> Held]
    BY DEF StoreTyped, Held
  <2> QED BY <1>2, <2>1 DEF Remove, StoreTyped
<1>3. ASSUME NEW p \in Projects, HnswDelete(p, S) PROVE StoreTyped'
  <2>1. Stored(p) \subseteq Ids
    BY DEF Stored
  <2> QED BY <1>3, <2>1 DEF HnswDelete, StoreTyped, Places
<1> QED BY <1>1, <1>2, <1>3

(* A start reads the file of the project, or leaves the store as it is. *)
LEMMA BootLoads ==
  ASSUME NEW p \in Projects, Boot(p)
  PROVE  \/ UNCHANGED store
         \/ InProcess /\ disk[p].state = "whole" /\ Loaded(p)
         \/ /\ InProcess /\ disk[p].state # "whole"
            /\ points' = [points EXCEPT ![p] = Empty] /\ dead' = [dead EXCEPT ![p] = {}]
BY DEF Boot, BruteForceLoad, HnswLoad, Loaded, store, Is, InProcess

(* The vectors. *)
LEMMA StoreTypedStep ==
  ASSUME NEW p \in Projects, Step(p), Typed
  PROVE  StoreTyped'
<1>0. StoreTyped /\ Home(p) \in Places /\ Server \in Places /\ p \in Places
      /\ run[p].vector \in Held
  BY DEF Typed, Home, Places, ProcessTyped, RunType
<1>1. CASE UNCHANGED store
  BY <1>0, <1>1 DEF StoreTyped, store
<1>2. CASE Upsert(p)
  <2>1. UNCHANGED store \/ \E S : Put(Home(p), S, run[p].vector)
    BY <1>2 DEF Upsert, BruteForceUpsert, HnswUpsert, PgvectorUpsert, QdrantUpsert, Upserted, UpsertFails
  <2> QED BY <1>0, <1>1, <2>1, CallsTyped
<1>3. CASE DeleteStale(p)
  <2>1. UNCHANGED store \/ DeleteRequest(p, Window(stale[p]))
    BY <1>3 DEF DeleteStale
  <2>2. DeleteRequest(p, Window(stale[p])) => \/ HnswDelete(p, Window(stale[p]))
                                              \/ Remove(Home(p), Window(stale[p]))
    BY DEF DeleteRequest
  <2> QED BY <1>0, <1>1, <2>1, <2>2, CallsTyped
<1>4. CASE Crash(p)
  BY <1>0, <1>1, <1>4, Blanks DEF Crash, StoreTyped
<1>5. CASE Boot(p)
  <2>1. disk[p].points \in [Ids -> Held] /\ disk[p].dead \in SUBSET Ids
    BY DEF Typed, FilesTyped, FileType
  <2>2. Loaded(p) => StoreTyped'
    BY <2>1, <1>0 DEF Loaded, StoreTyped
  <2>3. ASSUME points' = [points EXCEPT ![p] = Empty], dead' = [dead EXCEPT ![p] = {}]
        PROVE  StoreTyped'
    BY <2>3, <1>0, Blanks DEF StoreTyped
  <2> QED BY <1>5, <1>1, <2>2, <2>3, BootLoads
<1>6. CASE PurgeMetadata(p)
  <2>1. UNCHANGED store \/ Remove(Server, chunks[p])
    BY <1>6 DEF PurgeMetadata, CascadeToVectors
  <2> QED BY <1>0, <1>1, <2>1, CallsTyped
<1>7. CASE PurgeVectors(p)
  <2>1. UNCHANGED store \/ \E S : Remove(Server, S)
    BY <1>7 DEF PurgeVectors, PgvectorPurgeAll, QdrantPurgeAll
  <2> QED BY <1>0, <1>1, <2>1, CallsTyped
<1>8. ASSUME NEW D \in SUBSET chunks[p], NEW n \in 0..2, Replace(p, D, n)
      PROVE  StoreTyped'
  <2>1. UNCHANGED store \/ Remove(Server, D)
    BY <1>8 DEF Replace, CascadeToVectors
  <2> QED BY <1>0, <1>1, <2>1, CallsTyped
<1> QED BY <1>1, <1>2, <1>3, <1>4, <1>5, <1>6, <1>7, <1>8, StoreSteps

(* The files and their savers. *)
LEMMA FilesTypedStep ==
  ASSUME NEW p \in Projects, Step(p), Typed
  PROVE  FilesTyped'
<1>0. FilesTyped /\ Image(p) \in FileType /\ disk[p] \in FileType /\ tmp[p] \in FileType
  BY DEF Typed, FilesTyped, StoreTyped, Image, FileType, Places
<1>1. ASSUME NEW s \in Savers, NEW pc \in {"idle", "writing", "written"},
             NEW file \in {"tmp", "path", "own"}, NEW copy \in FileType,
             Saver(p, s, pc, file, copy)
      PROVE  saver' \in [Projects -> [Savers -> SaverType]]
  <2>1. [pc |-> pc, file |-> file, copy |-> copy] \in SaverType
    BY DEF SaverType
  <2>2. saver[p] \in [Savers -> SaverType]
    BY <1>0 DEF FilesTyped
  <2>. DEFINE r == [pc |-> pc, file |-> file, copy |-> copy]
  <2>3. saver' = [saver EXCEPT ![p] = [saver[p] EXCEPT ![s] = r]]
    BY <1>1, <1>0 DEF Saver, FilesTyped
  <2>. HIDE DEF r
  <2> QED BY <2>1, <2>2, <2>3, <1>0 DEF FilesTyped, r
<1>2. CASE UNCHANGED files
  BY <1>0, <1>2 DEF FilesTyped, files
<1>3. CASE Crash(p)
  BY <1>0, <1>3, Blanks DEF Crash, FilesTyped
<1>4. CASE PurgeVectorFiles(p)
  BY <1>0, <1>4, Blanks DEF PurgeVectorFiles, PurgeStep, FilesTyped
<1>5. ASSUME NEW s \in Savers, Save(p, s)
      PROVE  FilesTyped'
  <2>0. saver[p][s].copy \in FileType /\ saver[p][s].file \in {"tmp", "path", "own"}
        /\ NoFile \in FileType /\ Partial \in FileType
    BY <1>0, Blanks DEF FilesTyped, SaverType
  <2>1. CASE BruteForceCopy(p, s)
    <3>1. saver' \in [Projects -> [Savers -> SaverType]]
      BY <2>1, <1>0, <1>1 DEF BruteForceCopy
    <3> QED BY <3>1, <2>1, <1>0 DEF BruteForceCopy, FilesTyped
  <2>2. CASE BruteForceRename(p, s)
    <3>1. saver' \in [Projects -> [Savers -> SaverType]]
      BY <2>2, <2>0, <1>1 DEF BruteForceRename
    <3> QED BY <3>1, <2>2, <2>0, <1>0 DEF BruteForceRename, FilesTyped
  <2>3. CASE HnswOpen(p, s)
    <3>1. saver' \in [Projects -> [Savers -> SaverType]]
      BY <2>3, <2>0, <1>1 DEF HnswOpen
    <3> QED BY <3>1, <2>3, <2>0, <1>0 DEF HnswOpen, FilesTyped
  <2>4. CASE HnswWrite(p, s)
    <3>1. saver' \in [Projects -> [Savers -> SaverType]]
      BY <2>4, <2>0, <1>1 DEF HnswWrite
    <3> QED BY <3>1, <2>4, <2>0, <1>0 DEF HnswWrite, FilesTyped
  <2>5. CASE HnswRename(p, s)
    <3>1. ASSUME NEW t \in Savers
          PROVE  [saver[p][t] EXCEPT !.file = "path"] \in SaverType
      <4>1. saver[p][t] \in SaverType
        BY <1>0 DEF FilesTyped
      <4> QED BY <4>1 DEF SaverType
    <3>2. [t \in Savers |-> IF t = s THEN IdleSaver[s] ELSE [saver[p][t] EXCEPT !.file = "path"]]
            \in [Savers -> SaverType]
      BY <3>1, Blanks
    <3>3. saver' \in [Projects -> [Savers -> SaverType]]
      BY <3>2, <2>5, <1>0 DEF HnswRename, FilesTyped
    <3> QED BY <3>3, <2>5, <2>0, <1>0 DEF HnswRename, FilesTyped
  <2> QED BY <1>5, <2>1, <2>2, <2>3, <2>4, <2>5 DEF Save
<1> QED BY <1>2, <1>3, <1>4, <1>5, FileSteps

(* The steps of an upsert: a window of what is left is stored, or the run ends.  *)
LEMMA Upserts ==
  ASSUME NEW p \in Projects, Upsert(p)
  PROVE  \/ UpsertFails(p)
         \/ \E S \in SUBSET run[p].left : Upserted(p, S) /\ (Is("pgvector") => S \subseteq chunks[p])
<1>1. CASE BruteForceUpsert(p) \/ HnswUpsert(p)
  BY <1>1 DEF BruteForceUpsert, HnswUpsert, Is
<1>2. CASE PgvectorUpsert(p)
  <2>. DEFINE S == Window(run[p].left)
  <2>1. S \subseteq run[p].left
    BY WindowIsPart
  <2>2. ~Refused(p, S) => S \subseteq chunks[p]
    BY DEF Refused
  <2>3. (~Refused(p, S) /\ Upserted(p, S)) \/ UpsertFails(p)
    BY <1>2 DEF PgvectorUpsert
  <2>. HIDE DEF S
  <2> QED BY <2>1, <2>2, <2>3
<1>3. CASE QdrantUpsert(p)
  <2>. DEFINE S == Window(run[p].left)
  <2>1. S \subseteq run[p].left
    BY WindowIsPart
  <2>2. Upserted(p, S) \/ UpsertFails(p)
    BY <1>3 DEF QdrantUpsert
  <2>3. ~Is("pgvector")
    BY <1>3 DEF QdrantUpsert, Is
  <2>. HIDE DEF S
  <2> QED BY <2>1, <2>2, <2>3
<1> QED BY <1>1, <1>2, <1>3 DEF Upsert

(* What a request changes in the record of a run. *)
LEMMA RunExcept ==
  ASSUME NEW a \in RunType, NEW l, NEW c
  PROVE  [[a EXCEPT !.left = l] EXCEPT !.pc = c]
           = [pc |-> c, batch |-> a.batch, left |-> l, vector |-> a.vector]
<1>1. a = [pc |-> a.pc, batch |-> a.batch, left |-> a.left, vector |-> a.vector]
  BY DEF RunType
<1>2. [a EXCEPT !.left = l] = [pc |-> a.pc, batch |-> a.batch, left |-> l, vector |-> a.vector]
  BY <1>1
<1>3. [[pc |-> a.pc, batch |-> a.batch, left |-> l, vector |-> a.vector] EXCEPT !.pc = c]
        = [pc |-> c, batch |-> a.batch, left |-> l, vector |-> a.vector]
  OBVIOUS
<1> QED BY <1>2, <1>3, Zenon

(* The run after a window: the rest is left, and nothing else changes. *)
LEMMA UpsertedRun ==
  ASSUME ProcessTyped, NEW p \in Projects, NEW S \in SUBSET run[p].left, Upserted(p, S)
  PROVE  /\ run'[p].pc = IF run[p].left = S THEN "mark" ELSE "upsert"
         /\ run'[p].batch = run[p].batch /\ run'[p].left = run[p].left \ S
         /\ run'[p].vector = run[p].vector
         /\ \A q \in Projects \ {p} : run'[q] = run[q]
         /\ run' \in [Projects -> RunType]
<1>. DEFINE r == [pc |-> IF run[p].left = S THEN "mark" ELSE "upsert",
                  batch |-> run[p].batch, left |-> run[p].left \ S, vector |-> run[p].vector]
<1>1. run[p] \in RunType /\ run \in [Projects -> RunType]
  BY DEF ProcessTyped
<1>2. r \in RunType
  BY <1>1 DEF RunType
<1>3. run' = [run EXCEPT ![p] = r]
  <2>1. run' = [run EXCEPT ![p] = [[run[p] EXCEPT !.left = run[p].left \ S]
                                     EXCEPT !.pc = IF run[p].left = S THEN "mark" ELSE "upsert"]]
    BY <1>1 DEF Upserted
  <2>2. [[run[p] EXCEPT !.left = run[p].left \ S]
           EXCEPT !.pc = IF run[p].left = S THEN "mark" ELSE "upsert"] = r
    BY <1>1, RunExcept
  <2> QED BY <2>1, <2>2
<1>4. run'[p] = r /\ run' \in [Projects -> RunType] /\ \A q \in Projects \ {p} : run'[q] = run[q]
  <2>. HIDE DEF r
  <2> QED BY <1>1, <1>2, <1>3
<1> QED BY <1>4

(* The steps of a purge: what becomes of the purge and of its history. *)
LEMMA Purges ==
  ASSUME NEW p \in Projects, Purge(p), ProcessTyped
  PROVE  /\ ProcessTyped' /\ UNCHANGED <<up, run, stale, saver, tmp>>
         /\ \A q \in Projects \ {p} : purge'[q] = purge[q] /\ torn'[q] = torn[q]
<1>1. ASSUME NEW a, NEW b \in {"none", "metadata", "vectors", "database", "files"},
             PurgeStep(p, a, b)
      PROVE  /\ ProcessTyped' /\ UNCHANGED <<up, run, stale, saver, tmp>>
             /\ \A q \in Projects \ {p} : purge'[q] = purge[q] /\ torn'[q] = torn[q]
  BY <1>1 DEF PurgeStep, ProcessTyped
<1>2. CASE PurgeStops(p)
  BY <1>2 DEF PurgeStops, ProcessTyped, files
<1> QED BY <1>1, <1>2 DEF Purge, BeginPurge, PurgeMetadata, PurgeVectors, PurgeDatabase, PurgeVectorFiles

(* The processes. *)
LEMMA ProcessTypedStep ==
  ASSUME NEW p \in Projects, Step(p), Typed
  PROVE  ProcessTyped'
<1>0. ProcessTyped /\ DbTyped /\ setup' = setup
  BY SetupStays DEF Typed
<1>1. run' \in [Projects -> RunType]
  <2>1. CASE Embed(p)
    <3>. DEFINE batch == chunks[p] \ flagged[p]
                need  == {i \in batch : ~Has(p, i)}
                r == [pc |-> IF need = {} THEN "mark" ELSE "upsert", batch |-> batch,
                      left |-> need, vector |-> [of |-> p, epoch |-> epoch[p]]]
    <3>1. batch \subseteq Ids /\ need \subseteq Ids
      BY <1>0 DEF DbTyped
    <3>2. [of |-> p, epoch |-> epoch[p]] \in Held
      BY <1>0 DEF DbTyped, Held, Vector
    <3>3. r \in RunType
      <4>. HIDE DEF batch, need
      <4> QED BY <3>1, <3>2 DEF RunType
    <3>4. run' = [run EXCEPT ![p] = r]
      BY <2>1 DEF Embed
    <3>. HIDE DEF r
    <3> QED BY <3>3, <3>4, <1>0 DEF ProcessTyped
  <2>2. CASE Upsert(p)
    <3>1. UpsertFails(p) => run' \in [Projects -> RunType]
      BY <1>0, Blanks DEF UpsertFails, ProcessTyped
    <3> QED BY <3>1, <2>2, <1>0, Upserts, UpsertedRun
  <2>3. CASE Mark(p) \/ Crash(p)
    BY <2>3, <1>0, Blanks DEF Mark, Crash, ProcessTyped
  <2>4. CASE UNCHANGED run
    BY <2>4, <1>0 DEF ProcessTyped
  <2> QED BY <2>1, <2>2, <2>3, <2>4, ProcessSteps
<1>2. stale' \in [Projects -> SUBSET Ids]
  <2>1. CASE DeleteStale(p)
    BY <2>1, <1>0 DEF DeleteStale, ProcessTyped
  <2>2. CASE Crash(p) \/ UNCHANGED stale
    BY <2>2, <1>0 DEF Crash, ProcessTyped
  <2>3. ASSUME NEW D \in SUBSET chunks[p], NEW n \in 0..2, Replace(p, D, n)
        PROVE  stale' \in [Projects -> SUBSET Ids]
    BY <2>3, <1>0 DEF Replace, ProcessTyped, DbTyped
  <2> QED BY <2>1, <2>2, <2>3, ProcessSteps
<1>3. up' \in [Projects -> BOOLEAN]
  BY <1>0, ProcessSteps DEF ProcessTyped, Crash, Boot
<1>4. /\ purge' \in [Projects -> {"none", "metadata", "vectors", "database", "files"}]
      /\ torn' \in [Projects -> BOOLEAN]
  BY <1>0, ProcessSteps, Purges DEF ProcessTyped
<1> QED BY <1>1, <1>2, <1>3, <1>4 DEF ProcessTyped

(* Typed is an invariant. *)
LEMMA TypedStep ==
  ASSUME NEW p \in Projects, Step(p), Typed
  PROVE  Typed'
BY DbTypedStep, StoreTypedStep, FilesTypedStep, ProcessTypedStep DEF Typed

(* What a step does, project by project: another project's database, files and   *)
(* process stay, and so do the vectors in its own memory. *)
Untouched(q) ==
  /\ chunks'[q] = chunks[q] /\ flagged'[q] = flagged[q] /\ epoch'[q] = epoch[q]
  /\ points'[q] = points[q] /\ dead'[q] = dead[q]
  /\ disk'[q] = disk[q] /\ tmp'[q] = tmp[q] /\ saver'[q] = saver[q]
  /\ up'[q] = up[q] /\ run'[q] = run[q] /\ stale'[q] = stale[q]
  /\ purge'[q] = purge[q] /\ torn'[q] = torn[q]

(* A call of a store changes the place it is made of. *)
LEMMA CallsStay ==
  ASSUME StoreTyped, NEW h, NEW S, NEW v, NEW g \in Places, g # h,
         Put(h, S, v) \/ Remove(h, S) \/ (HnswDelete(h, S) /\ h \in Projects)
  PROVE  points'[g] = points[g] /\ dead'[g] = dead[g]
BY DEF StoreTyped, Put, Remove, HnswDelete

(* A step of one project leaves the others. *)
LEMMA OthersUntouched ==
  ASSUME NEW p \in Projects, Step(p), Typed, NEW q \in Projects \ {p}
  PROVE  Untouched(q)
<1>0. /\ DbTyped /\ StoreTyped /\ FilesTyped /\ ProcessTyped /\ setup' = setup
      /\ q \in Places /\ q # p /\ q # Server /\ q # Home(p)
  BY SetupStays, VectorAssumption DEF Typed, Places, Home
<1>1. chunks'[q] = chunks[q] /\ flagged'[q] = flagged[q] /\ epoch'[q] = epoch[q]
  <2>1. CASE UNCHANGED db
    BY <2>1 DEF db
  <2>2. CASE Mark(p)
    BY <2>2, <1>0 DEF Mark, DbTyped
  <2>3. CASE PurgeMetadata(p)
    BY <2>3, <1>0 DEF PurgeMetadata, DbTyped
  <2>4. CASE PurgeDatabase(p)
    BY <2>4, <1>0 DEF PurgeDatabase, DbTyped, db
  <2>5. ASSUME NEW D \in SUBSET chunks[p], NEW n \in 0..2, Replace(p, D, n)
        PROVE  chunks'[q] = chunks[q] /\ flagged'[q] = flagged[q] /\ epoch'[q] = epoch[q]
    BY <2>5, <1>0 DEF Replace, DbTyped
  <2> QED BY <2>1, <2>2, <2>3, <2>4, <2>5, DbSteps
<1>2. points'[q] = points[q] /\ dead'[q] = dead[q]
  <2>1. CASE UNCHANGED store
    BY <2>1 DEF store
  <2>2. CASE Upsert(p)
    <3>1. UNCHANGED store \/ \E S : Put(Home(p), S, run[p].vector)
      BY <2>2, Upserts DEF Upserted, UpsertFails
    <3> QED BY <3>1, <2>1, <1>0, CallsStay
  <2>3. CASE DeleteStale(p)
    <3>1. UNCHANGED store \/ DeleteRequest(p, Window(stale[p]))
      BY <2>3 DEF DeleteStale
    <3>2. DeleteRequest(p, Window(stale[p])) => \/ HnswDelete(p, Window(stale[p]))
                                                \/ Remove(Home(p), Window(stale[p]))
      BY DEF DeleteRequest
    <3> QED BY <1>0, <2>1, <3>1, <3>2, CallsStay
  <2>4. CASE Crash(p)
    BY <2>1, <2>4, <1>0 DEF Crash, StoreTyped
  <2>5. CASE Boot(p)
    BY <2>1, <2>5, <1>0, BootLoads DEF Loaded, StoreTyped
  <2>6. CASE PurgeMetadata(p)
    <3>1. UNCHANGED store \/ Remove(Server, chunks[p])
      BY <2>6 DEF PurgeMetadata, CascadeToVectors
    <3> QED BY <1>0, <2>1, <3>1, CallsStay
  <2>7. CASE PurgeVectors(p)
    <3>1. UNCHANGED store \/ \E S : Remove(Server, S)
      BY <2>7 DEF PurgeVectors, PgvectorPurgeAll, QdrantPurgeAll
    <3> QED BY <1>0, <2>1, <3>1, CallsStay
  <2>8. ASSUME NEW D \in SUBSET chunks[p], NEW n \in 0..2, Replace(p, D, n)
        PROVE  points'[q] = points[q] /\ dead'[q] = dead[q]
    <3>1. UNCHANGED store \/ Remove(Server, D)
      BY <2>8 DEF Replace, CascadeToVectors
    <3> QED BY <1>0, <2>1, <3>1, CallsStay
  <2> QED BY <2>1, <2>2, <2>3, <2>4, <2>5, <2>6, <2>7, <2>8, StoreSteps
<1>3. disk'[q] = disk[q] /\ tmp'[q] = tmp[q] /\ saver'[q] = saver[q]
  <2>1. CASE UNCHANGED files
    BY <2>1 DEF files
  <2>2. CASE Crash(p)
    BY <2>2, <1>0 DEF Crash, FilesTyped
  <2>3. CASE PurgeVectorFiles(p)
    BY <2>3, <1>0 DEF PurgeVectorFiles, PurgeStep, FilesTyped
  <2>4. ASSUME NEW s \in Savers, Save(p, s)
        PROVE  disk'[q] = disk[q] /\ tmp'[q] = tmp[q] /\ saver'[q] = saver[q]
    <3>1. CASE BruteForceCopy(p, s) \/ BruteForceRename(p, s) \/ HnswOpen(p, s)
      BY <3>1, <1>0 DEF BruteForceCopy, BruteForceRename, HnswOpen, Saver, FilesTyped
    <3>2. CASE HnswWrite(p, s)
      BY <3>2, <1>0 DEF HnswWrite, Saver, FilesTyped
    <3>3. CASE HnswRename(p, s)
      BY <3>3, <1>0 DEF HnswRename, FilesTyped
    <3> QED BY <2>4, <3>1, <3>2, <3>3 DEF Save
  <2> QED BY <2>1, <2>2, <2>3, <2>4, FileSteps
<1>4. up'[q] = up[q]
  BY <1>0, ProcessSteps DEF Crash, Boot, ProcessTyped
<1>5. run'[q] = run[q]
  <2>1. CASE Upsert(p)
    BY <2>1, <1>0, Upserts, UpsertedRun DEF UpsertFails, ProcessTyped
  <2>2. CASE Embed(p) \/ Mark(p) \/ Crash(p)
    BY <2>2, <1>0 DEF Embed, Mark, Crash, ProcessTyped
  <2> QED BY <2>1, <2>2, ProcessSteps
<1>6. stale'[q] = stale[q]
  <2>1. CASE DeleteStale(p) \/ Crash(p)
    BY <2>1, <1>0 DEF DeleteStale, Crash, ProcessTyped
  <2>2. ASSUME NEW D \in SUBSET chunks[p], NEW n \in 0..2, Replace(p, D, n)
        PROVE  stale'[q] = stale[q]
    BY <2>2, <1>0 DEF Replace, ProcessTyped
  <2> QED BY <2>1, <2>2, ProcessSteps
<1>7. purge'[q] = purge[q] /\ torn'[q] = torn[q]
  BY <1>0, ProcessSteps, Purges
<1> QED BY <1>1, <1>2, <1>3, <1>4, <1>5, <1>6, <1>7 DEF Untouched

(* What is left alone stays right. *)
LEMMA UntouchedStaysLocal ==
  ASSUME NEW q \in Projects, Local(q), Untouched(q), setup' = setup
  PROVE  Local(q)'
<1>. Is("hnsw")' = Is("hnsw") /\ Is("brute_force")' = Is("brute_force") /\ InProcess' = InProcess
  BY DEF Is, InProcess
<1>1. RunRight(q)'
  BY DEF Local, Untouched, RunRight
<1>2. DownHoldsNothing(q)'
  BY DEF Local, Untouched, DownHoldsNothing
<1>3. LabelsRight(q)'
  BY DEF Local, Untouched, LabelsRight, LabelsOf
<1>4. FilesMine(q)'
  BY DEF Local, Untouched, FilesMine, Mine
<1>5. FilesCurrent(q)'
  BY DEF Local, Untouched, FilesCurrent, Current
<1>6. FilesWhole(q)'
  BY DEF Local, Untouched, FilesWhole
<1> QED BY <1>1, <1>2, <1>3, <1>4, <1>5, <1>6 DEF Local

------------------------------------------------------------------------------
(* What a project keeps by itself *)

(* A project whose process is down has no run, no deletion and no saver under way.*)
LEMMA PurgeIsDown ==
  ASSUME NEW p \in Projects, DownHoldsNothing(p), Purge(p)
  PROVE  ~up[p] /\ run[p] = IdleRun /\ stale[p] = {} /\ saver[p] = IdleSaver
BY DEF DownHoldsNothing, Purge, BeginPurge, PurgeMetadata, PurgeVectors, PurgeDatabase,
       PurgeVectorFiles, PurgeStops, PurgeStep

(* A run: a purge changes the database of a process that is down, and no run       *)
(* begins before the one before it has ended.                                 *)
LEMMA RunRightStep ==
  ASSUME NEW p \in Projects, Step(p), Typed, Local(p)
  PROVE  RunRight(p)'
<1>0. /\ DbTyped /\ StoreTyped /\ FilesTyped /\ ProcessTyped /\ setup' = setup
      /\ RunRight(p) /\ DownHoldsNothing(p) /\ run[p] \in RunType
  BY SetupStays DEF Typed, Local, ProcessTyped
<1>1. CASE Embed(p)
  <2>. DEFINE batch == chunks[p] \ flagged[p]
              need  == {i \in batch : ~Has(p, i)}
              r == [pc |-> IF need = {} THEN "mark" ELSE "upsert", batch |-> batch,
                    left |-> need, vector |-> [of |-> p, epoch |-> epoch[p]]]
  <2>1. run' = [run EXCEPT ![p] = r] /\ UNCHANGED db
    BY <1>1 DEF Embed
  <2>2. /\ r.left \subseteq r.batch
        /\ r.pc # "upsert" => r.left = {}
        /\ r.vector = [of |-> p, epoch |-> epoch[p]]
    BY Zenon
  <2>3. run'[p] = r /\ chunks' = chunks /\ flagged' = flagged /\ epoch' = epoch
    <3>. HIDE DEF r
    <3> QED BY <2>1, <1>0 DEF ProcessTyped, db
  <2>. HIDE DEF r
  <2> QED BY <2>2, <2>3, <1>0 DEF RunRight
<1>2. CASE Upsert(p)
  <2>1. CASE UpsertFails(p)
    BY <2>1, <1>2, <1>0, Blanks DEF UpsertFails, Upsert, RunRight, ProcessTyped, db
  <2>2. ASSUME NEW S \in SUBSET run[p].left, Upserted(p, S)
        PROVE  RunRight(p)'
    <3>1. /\ run'[p].batch = run[p].batch /\ run'[p].left = run[p].left \ S
          /\ run'[p].vector = run[p].vector
          /\ run'[p].pc # "upsert" => run[p].left = S
      BY <2>2, <1>0, UpsertedRun
    <3>2. UNCHANGED db /\ run[p].pc = "upsert"
      BY <1>2 DEF Upsert
    <3> QED BY <3>1, <3>2, <1>0 DEF RunRight, db
  <2> QED BY <2>1, <2>2, <1>2, Upserts
<1>3. CASE Mark(p)
  BY <1>3, <1>0, Blanks DEF Mark, RunRight, ProcessTyped, DbTyped
<1>4. CASE Crash(p)
  BY <1>4, <1>0, Blanks DEF Crash, RunRight, ProcessTyped, db
<1>5. CASE UNCHANGED run
  <2>1. CASE UNCHANGED db
    BY <2>1, <1>5, <1>0 DEF RunRight, db
  <2>2. CASE PurgeMetadata(p) \/ PurgeDatabase(p)
    <3>1. run[p] = IdleRun
      BY <2>2, <1>0, PurgeIsDown DEF Purge
    <3>2. flagged'[p] \subseteq chunks'[p]
      BY <2>2, <1>0 DEF PurgeMetadata, PurgeDatabase, DbTyped, RunRight, db
    <3> QED BY <3>1, <3>2, <1>5, Blanks DEF RunRight
  <2>3. ASSUME NEW D \in SUBSET chunks[p], NEW n \in 0..2, Replace(p, D, n)
        PROVE  RunRight(p)'
    BY <2>3, <1>5, <1>0 DEF Replace, RunRight, DbTyped
  <2> QED BY <2>1, <2>2, <2>3, <1>3, DbSteps
<1> QED BY <1>1, <1>2, <1>3, <1>4, <1>5, ProcessSteps

(* A process that is down: only a start ends it, and only a crash begins it.       *)
LEMMA DownStep ==
  ASSUME NEW p \in Projects, Step(p), Typed, Local(p)
  PROVE  DownHoldsNothing(p)'
<1>0. /\ DbTyped /\ StoreTyped /\ FilesTyped /\ ProcessTyped /\ setup' = setup
      /\ DownHoldsNothing(p) /\ InProcess' = InProcess
  BY SetupStays DEF Typed, Local, InProcess
<1>1. CASE Crash(p)
  BY <1>1, <1>0 DEF Crash, DownHoldsNothing, ProcessTyped, FilesTyped, StoreTyped, Places, files
<1>2. CASE Boot(p)
  BY <1>2, <1>0 DEF Boot, DownHoldsNothing, ProcessTyped
<1>3. CASE Purge(p)
  <2>1. ~up[p] /\ UNCHANGED <<up, run, stale, saver, tmp>>
    BY <1>3, <1>0, PurgeIsDown, Purges
  <2>2. InProcess => UNCHANGED store
    <3>1. PurgeVectors(p) /\ InProcess => UNCHANGED store
      BY DEF PurgeVectors, PgvectorPurgeAll, QdrantPurgeAll, Is, InProcess
    <3>2. PurgeMetadata(p) /\ InProcess => UNCHANGED store
      BY DEF PurgeMetadata, CascadeToVectors, Is, InProcess, store
    <3> QED BY <1>3, <3>1, <3>2, Zenon DEF Purge, BeginPurge, PurgeDatabase, PurgeVectorFiles, PurgeStops
  <2> QED BY <2>1, <2>2, <1>0 DEF DownHoldsNothing, store
<1>4. CASE Embed(p) \/ Upsert(p) \/ Mark(p) \/ DeleteStale(p)
           \/ \E D \in SUBSET chunks[p], n \in 0..2 : Replace(p, D, n)
  <2>1. up[p] /\ UNCHANGED <<up, purge>>
    BY <1>4 DEF Embed, Upsert, Mark, DeleteStale, Replace
  <2> QED BY <2>1, <1>0 DEF DownHoldsNothing
<1>5. ASSUME NEW s \in Savers, Save(p, s) PROVE DownHoldsNothing(p)'
  <2>1. up[p] /\ UNCHANGED <<up, purge>>
    BY <1>5 DEF Save, BruteForceCopy, BruteForceRename, HnswOpen, HnswWrite, HnswRename, MaySave
  <2> QED BY <2>1, <1>0 DEF DownHoldsNothing
<1> QED BY <1>1, <1>2, <1>3, <1>4, <1>5 DEF Step

(* What a step makes of the vectors in the memory of its process. *)
Memory(p, f, S) == points'[p] = f /\ dead'[p] = S
WithPut(f, S, v) == [i \in Ids |-> IF i \in S THEN v ELSE f[i]]
MemoryStored(p, S) ==
  /\ InProcess /\ up[p] /\ run[p].pc # "idle" /\ S \subseteq run[p].left
  /\ Memory(p, WithPut(points[p], S, run[p].vector), dead[p] \ S)
  /\ UNCHANGED <<epoch, purge, torn>>
MemoryRemoved(p, S) ==
  /\ ~Is("hnsw") /\ Memory(p, WithPut(points[p], S, NoVector), dead[p])
  /\ UNCHANGED <<epoch, purge, torn>>
MemoryDeleted(p, S) ==
  /\ Is("hnsw") /\ Memory(p, points[p], dead[p] \cup (S \cap Stored(p)))
  /\ UNCHANGED <<epoch, purge, torn>>
MemoryRead(p) ==
  /\ Memory(p, disk[p].points, disk[p].dead)
  /\ UNCHANGED <<epoch, purge, torn>>

(* What a step may do to the store of a process. *)
LEMMA MemorySteps ==
  ASSUME NEW p \in Projects, Step(p), Typed
  PROVE  \/ Memory(p, points[p], dead[p])
         \/ Memory(p, Empty, {}) \/ MemoryRead(p)
         \/ \E S : MemoryStored(p, S) \/ MemoryRemoved(p, S) \/ MemoryDeleted(p, S)
<1>0. /\ StoreTyped /\ p \in Places /\ Server \in Places /\ p # Server /\ setup \in Setups
      /\ InProcess <=> Home(p) = p
      /\ ~InProcess <=> Home(p) = Server
  BY VectorAssumption DEF Typed, DbTyped, Places, Home
<1>1. CASE UNCHANGED store
  BY <1>1 DEF store, Memory
<1>2. CASE Upsert(p)
  <2>1. CASE UpsertFails(p)
    BY <1>1, <2>1 DEF UpsertFails
  <2>2. ASSUME NEW S \in SUBSET run[p].left, Upserted(p, S)
        PROVE  Memory(p, points[p], dead[p]) \/ MemoryStored(p, S)
    <3>1. CASE ~InProcess
      BY <3>1, <2>2, <1>0, CallsStay DEF Upserted, Memory
    <3>2. CASE InProcess
      <4>1. Put(p, S, run[p].vector)
        BY <3>2, <2>2, <1>0 DEF Upserted
      <4>2. Memory(p, WithPut(points[p], S, run[p].vector), dead[p] \ S)
        BY <4>1, <1>0 DEF Put, Memory, WithPut, StoreTyped
      <4>3. up[p] /\ run[p].pc # "idle" /\ UNCHANGED <<epoch, purge, torn>>
        BY <1>2 DEF Upsert, db
      <4> QED BY <4>2, <4>3, <3>2 DEF MemoryStored
    <3> QED BY <3>1, <3>2
  <2> QED BY <2>1, <2>2, <1>2, Upserts
<1>3. CASE DeleteStale(p)
  <2>. DEFINE S == Window(stale[p])
  <2>0. UNCHANGED <<epoch, purge, torn>>
    BY <1>3 DEF DeleteStale, db
  <2>1. UNCHANGED store \/ DeleteRequest(p, S)
    BY <1>3 DEF DeleteStale
  <2>2. CASE DeleteRequest(p, S) /\ Is("hnsw")
    <3>1. HnswDelete(p, S)
      BY <2>2 DEF DeleteRequest, Is
    <3> QED BY <3>1, <2>0, <2>2, <1>0 DEF HnswDelete, MemoryDeleted, Memory, StoreTyped
  <2>3. CASE DeleteRequest(p, S) /\ ~Is("hnsw")
    <3>1. Remove(Home(p), S)
      BY <2>3 DEF DeleteRequest, Is
    <3>2. CASE ~InProcess
      BY <3>1, <3>2, <1>0, CallsStay DEF Memory
    <3>3. CASE InProcess
      BY <3>1, <3>3, <2>0, <2>3, <1>0 DEF Remove, MemoryRemoved, Memory, WithPut, StoreTyped
    <3> QED BY <3>2, <3>3
  <2>. HIDE DEF S
  <2> QED BY <2>1, <2>2, <2>3, <1>1
<1>4. CASE Crash(p)
  BY <1>1, <1>4, <1>0 DEF Crash, StoreTyped, Memory
<1>5. CASE Boot(p)
  <2>1. UNCHANGED <<epoch, purge, torn>>
    BY <1>5 DEF Boot, db
  <2> QED BY <1>1, <1>5, <2>1, <1>0, BootLoads DEF Loaded, StoreTyped, Memory, MemoryRead
<1>6. ASSUME NEW S, Remove(Server, S) PROVE Memory(p, points[p], dead[p])
  BY <1>6, <1>0, CallsStay DEF Memory
<1>7. CASE PurgeMetadata(p)
  BY <1>1, <1>6, <1>7 DEF PurgeMetadata, CascadeToVectors
<1>8. CASE PurgeVectors(p)
  BY <1>1, <1>6, <1>8 DEF PurgeVectors, PgvectorPurgeAll, QdrantPurgeAll
<1>9. ASSUME NEW D \in SUBSET chunks[p], NEW n \in 0..2, Replace(p, D, n)
      PROVE  Memory(p, points[p], dead[p])
  BY <1>1, <1>6, <1>9 DEF Replace, CascadeToVectors, store, Memory
<1> QED BY <1>1, <1>2, <1>3, <1>4, <1>5, <1>7, <1>8, <1>9, StoreSteps

(* Where the contents of the files come from when a saver takes a step. *)
SavedFrom(p, s) ==
  /\ UNCHANGED <<store, epoch, purge, torn>>
  /\ \/ disk'[p] = disk[p]
     \/ /\ saver[p][s].pc # "idle"
        /\ \/ ~Is("hnsw") /\ disk'[p] = saver[p][s].copy
           \/ Is("hnsw") /\ disk'[p] \in {tmp[p], Image(p), Partial}
  /\ \/ tmp'[p] = tmp[p] /\ (Is("hnsw") => saver[p][s].pc # "idle")
     \/ Is("hnsw") /\ tmp'[p] \in {Partial, NoFile, Image(p)}
  /\ saver'[p][s].copy \in {NoFile, Image(p)}
  /\ \A t \in Savers \ {s} : /\ saver'[p][t].copy = saver[p][t].copy
                             /\ saver'[p][t].pc = saver[p][t].pc

(* What a step of a save may do to the file, the temporary file and the copies. *)
LEMMA SaveSteps ==
  ASSUME NEW p \in Projects, NEW s \in Savers, Save(p, s), Typed
  PROVE  SavedFrom(p, s)
<1>0. /\ FilesTyped /\ disk \in [Projects -> FileType] /\ tmp \in [Projects -> FileType]
      /\ saver \in [Projects -> [Savers -> SaverType]] /\ saver[p] \in [Savers -> SaverType]
      /\ \A t \in Savers : saver[p][t] \in SaverType
  BY DEF Typed, FilesTyped
<1>1. ASSUME NEW pc, NEW file, NEW copy, Saver(p, s, pc, file, copy)
      PROVE  /\ saver'[p][s].copy = copy
             /\ \A t \in Savers \ {s} : saver'[p][t] = saver[p][t]
  BY <1>0, <1>1 DEF Saver
<1>2. CASE BruteForceCopy(p, s)
  <2>1. saver'[p][s].copy = Image(p) /\ \A t \in Savers \ {s} : saver'[p][t] = saver[p][t]
    BY <1>2, <1>1 DEF BruteForceCopy
  <2> QED BY <2>1, <1>2 DEF BruteForceCopy, SavedFrom, Is, db, files
<1>3. CASE BruteForceRename(p, s)
  <2>1. saver'[p][s].copy = NoFile /\ \A t \in Savers \ {s} : saver'[p][t] = saver[p][t]
    BY <1>3, <1>1 DEF BruteForceRename
  <2>2. disk'[p] = saver[p][s].copy
    BY <1>3, <1>0 DEF BruteForceRename
  <2> QED BY <2>1, <2>2, <1>3 DEF BruteForceRename, SavedFrom, Is, db
<1>4. CASE HnswOpen(p, s)
  <2>1. saver'[p][s].copy = NoFile /\ \A t \in Savers \ {s} : saver'[p][t] = saver[p][t]
    BY <1>4, <1>1 DEF HnswOpen
  <2>2. tmp'[p] = Partial
    BY <1>4, <1>0 DEF HnswOpen
  <2> QED BY <2>1, <2>2, <1>4 DEF HnswOpen, SavedFrom, Is, db
<1>5. CASE HnswWrite(p, s)
  <2>1. saver'[p][s].copy = NoFile /\ \A t \in Savers \ {s} : saver'[p][t] = saver[p][t]
    BY <1>5, <1>1 DEF HnswWrite
  <2>2. /\ disk'[p] \in {disk[p], Image(p), Partial}
        /\ tmp'[p] \in {tmp[p], Image(p), Partial}
    BY <1>5, <1>0 DEF HnswWrite
  <2> QED BY <2>1, <2>2, <1>5 DEF HnswWrite, SavedFrom, Is, db
<1>6. CASE HnswRename(p, s)
  <2>1. saver'[p][s].copy = NoFile
    BY <1>6, <1>0, Blanks DEF HnswRename
  <2>2. ASSUME NEW t \in Savers \ {s}
        PROVE  saver'[p][t].copy = saver[p][t].copy /\ saver'[p][t].pc = saver[p][t].pc
    <3>1. saver'[p][t] = [saver[p][t] EXCEPT !.file = "path"]
      BY <1>6, <1>0 DEF HnswRename
    <3> QED BY <3>1, <1>0 DEF SaverType
  <2>3. disk'[p] \in {disk[p], tmp[p]} /\ tmp'[p] = NoFile
    BY <1>6, <1>0 DEF HnswRename
  <2> QED BY <2>1, <2>2, <2>3, <1>6 DEF HnswRename, SavedFrom, Is, db
<1> QED BY <1>2, <1>3, <1>4, <1>5, <1>6 DEF Save

(* Labels: nothing is deleted that is not stored, nothing is deleted by halves.    *)
LEMMA LabelsRightStep ==
  ASSUME NEW p \in Projects, Step(p), Typed, Local(p)
  PROVE  LabelsRight(p)'
<1>0. /\ StoreTyped /\ FilesTyped /\ ProcessTyped /\ setup' = setup /\ LabelsRight(p)
      /\ Is("hnsw")' = Is("hnsw") /\ p \in Places /\ points[p] \in [Ids -> Held]
      /\ run[p].pc # "idle" => run[p].vector \in Vector
  <2>1. run[p].pc # "idle" => run[p].vector \in Vector
    BY DEF Typed, Local, RunRight, Vector, DbTyped
  <2> QED BY <2>1, SetupStays DEF Typed, Local, Is, Places, StoreTyped
<1>1. LabelsOf(Empty, {})
  BY DEF LabelsOf
<1>3. LabelsOf(points'[p], dead'[p])
  <2>1. CASE Memory(p, points[p], dead[p]) \/ Memory(p, Empty, {}) \/ MemoryRead(p)
    BY <2>1, <1>0, <1>1 DEF Memory, MemoryRead, LabelsRight
  <2>2. ASSUME NEW S, MemoryStored(p, S)
        PROVE  LabelsOf(points'[p], dead'[p])
    BY <2>2, <1>0, VectorAssumption
       DEF MemoryStored, Memory, WithPut, LabelsRight, LabelsOf, Vector
  <2>3. ASSUME NEW S, MemoryRemoved(p, S)
        PROVE  LabelsOf(points'[p], dead'[p])
    BY <2>3, <1>0 DEF MemoryRemoved, Memory, WithPut, LabelsRight, LabelsOf
  <2>4. ASSUME NEW S, MemoryDeleted(p, S)
        PROVE  LabelsOf(points'[p], dead'[p])
    BY <2>4, <1>0 DEF MemoryDeleted, Memory, Stored, LabelsRight, LabelsOf
  <2> QED BY <2>1, <2>2, <2>3, <2>4, MemorySteps
<1>4. /\ LabelsOf(disk'[p].points, disk'[p].dead)
      /\ LabelsOf(tmp'[p].points, tmp'[p].dead)
      /\ \A s \in Savers : LabelsOf(saver'[p][s].copy.points, saver'[p][s].copy.dead)
  <2>1. CASE UNCHANGED files
    BY <2>1, <1>0 DEF files, LabelsRight
  <2>2. CASE Crash(p)
    BY <2>2, <1>0, <1>1, Blanks DEF Crash, LabelsRight, FilesTyped
  <2>3. CASE PurgeVectorFiles(p)
    BY <2>3, <1>0, <1>1, Blanks DEF PurgeVectorFiles, PurgeStep, LabelsRight, FilesTyped
  <2>4. ASSUME NEW s \in Savers, Save(p, s)
        PROVE  <1>4!1 /\ <1>4!2 /\ <1>4!3
    <3>1. SavedFrom(p, s)
      BY <2>4, SaveSteps
    <3>2. Image(p).points = points[p] /\ Image(p).dead = dead[p]
      BY DEF Image
    <3>3. LabelsOf(disk'[p].points, disk'[p].dead)
      BY <3>1, <3>2, <1>0, <1>1, Blanks DEF SavedFrom, LabelsRight
    <3>4. LabelsOf(tmp'[p].points, tmp'[p].dead)
      BY <3>1, <3>2, <1>0, <1>1, Blanks DEF SavedFrom, LabelsRight
    <3>5. ASSUME NEW t \in Savers
          PROVE  LabelsOf(saver'[p][t].copy.points, saver'[p][t].copy.dead)
      BY <3>1, <3>2, <1>0, <1>1, Blanks DEF SavedFrom, LabelsRight
    <3> QED BY <3>3, <3>4, <3>5
  <2> QED BY <2>1, <2>2, <2>3, <2>4, FileSteps
<1> QED BY <1>0, <1>3, <1>4 DEF LabelsRight, LabelsOf

(* Vectors: a project stores its own, and reads what it has saved. *)
LEMMA FilesMineStep ==
  ASSUME NEW p \in Projects, Step(p), Typed, Local(p)
  PROVE  FilesMine(p)'
<1>. SUFFICES ASSUME InProcess
              PROVE  /\ Mine(p, points'[p]) /\ Mine(p, disk'[p].points) /\ Mine(p, tmp'[p].points)
                     /\ \A s \in Savers : Mine(p, saver'[p][s].copy.points)
  BY SetupStays DEF FilesMine, InProcess, Mine
<1>0. /\ FilesTyped /\ FilesMine(p) /\ Image(p).points = points[p]
      /\ Mine(p, points[p]) /\ Mine(p, disk[p].points) /\ Mine(p, tmp[p].points)
      /\ \A s \in Savers : Mine(p, saver[p][s].copy.points)
      /\ run[p].pc # "idle" => run[p].vector.of = p
      /\ Mine(p, Empty)
  <2>1. run[p].pc # "idle" => run[p].vector.of = p
    BY DEF Local, RunRight
  <2>2. Mine(p, Empty)
    BY Blanks DEF Mine
  <2> QED BY <2>1, <2>2 DEF Typed, Local, FilesMine, Image
<1>1. Mine(p, points'[p])
  <2>1. CASE Memory(p, points[p], dead[p]) \/ Memory(p, Empty, {}) \/ MemoryRead(p)
    BY <2>1, <1>0 DEF Memory, MemoryRead
  <2>2. ASSUME NEW S, MemoryStored(p, S)
        PROVE  Mine(p, points'[p])
    BY <2>2, <1>0 DEF MemoryStored, Memory, WithPut, Mine
  <2>3. ASSUME NEW S, MemoryRemoved(p, S) \/ MemoryDeleted(p, S)
        PROVE  Mine(p, points'[p])
    BY <2>3, <1>0 DEF MemoryRemoved, MemoryDeleted, Memory, WithPut, Mine
  <2> QED BY <2>1, <2>2, <2>3, MemorySteps
<1>2. /\ Mine(p, disk'[p].points) /\ Mine(p, tmp'[p].points)
      /\ \A s \in Savers : Mine(p, saver'[p][s].copy.points)
  <2>1. CASE UNCHANGED files
    BY <2>1, <1>0 DEF files
  <2>2. CASE Crash(p)
    BY <2>2, <1>0, Blanks DEF Crash, FilesTyped
  <2>3. CASE PurgeVectorFiles(p)
    BY <2>3, <1>0, Blanks DEF PurgeVectorFiles, PurgeStep, FilesTyped
  <2>4. ASSUME NEW s \in Savers, Save(p, s)
        PROVE  /\ Mine(p, disk'[p].points) /\ Mine(p, tmp'[p].points)
               /\ \A t \in Savers : Mine(p, saver'[p][t].copy.points)
    <3>1. SavedFrom(p, s)
      BY <2>4, SaveSteps
    <3>2. Mine(p, disk'[p].points) /\ Mine(p, tmp'[p].points)
      BY <3>1, <1>0, Blanks DEF SavedFrom
    <3>3. ASSUME NEW t \in Savers
          PROVE  Mine(p, saver'[p][t].copy.points)
      BY <3>1, <1>0, Blanks DEF SavedFrom
    <3> QED BY <3>2, <3>3
  <2> QED BY <2>1, <2>2, <2>3, <2>4, FileSteps
<1> QED BY <1>1, <1>2

(* A purge between the two files: what it has not finished counts as torn. *)
LEMMA TornSteps ==
  ASSUME NEW p \in Projects, Step(p), Typed, InProcess
  PROVE  \/ UNCHANGED <<purge, torn, epoch>>
         \/ /\ ~torn'[p] /\ purge'[p] # "files" /\ ~torn[p] /\ purge[p] # "files"
            /\ UNCHANGED epoch /\ Purge(p) /\ UNCHANGED <<store, files>>
         \/ PurgeVectorFiles(p)
         \/ torn'[p] \/ purge'[p] = "files"
<1>0. /\ ProcessTyped /\ DbTyped /\ setup \in Setups /\ purge[p] \in {"none", "metadata", "vectors", "database", "files"}
      /\ torn[p] \in BOOLEAN
  BY DEF Typed, ProcessTyped, DbTyped
<1>1. setup.db = "sqlite"
  BY <1>0, Pairs DEF Scoped
<1>2. CASE BeginPurge(p) \/ PurgeMetadata(p) \/ PurgeVectors(p)
  <2>1. UNCHANGED <<store, files, epoch>>
    BY <1>2, <1>1 DEF BeginPurge, PurgeMetadata, PurgeVectors, PgvectorPurgeAll, QdrantPurgeAll,
       PurgeStep, files, store, db, Is, InProcess
  <2>2. /\ torn'[p] = torn[p]
        /\ purge[p] # "files" /\ purge'[p] # "files"
    BY <1>2, <1>0 DEF BeginPurge, PurgeMetadata, PurgeVectors, PurgeStep, ProcessTyped
  <2> QED BY <2>1, <2>2, <1>2 DEF Purge
<1>3. CASE PurgeDatabase(p)
  BY <1>3, <1>0 DEF PurgeDatabase, PurgeStep, ProcessTyped
<1>4. CASE PurgeStops(p)
  <2>1. torn'[p] = (torn[p] \/ (purge[p] = "files")) /\ purge'[p] = "none"
    BY <1>4, <1>0, <1>1 DEF PurgeStops, ProcessTyped
  <2>2. UNCHANGED <<store, files, epoch>>
    BY <1>4 DEF PurgeStops, db
  <2> QED BY <2>1, <2>2, <1>4 DEF Purge
<1>5. CASE PurgeVectorFiles(p)
  BY <1>5
<1>6. CASE UNCHANGED <<purge, torn>>
  <2>1. CASE UNCHANGED db \/ Mark(p) \/ \E D \in SUBSET chunks[p], n \in 0..2 : Replace(p, D, n)
    BY <2>1, <1>6 DEF db, Mark, Replace
  <2>2. CASE PurgeMetadata(p) \/ PurgeDatabase(p)
    BY <2>2, <1>2, <1>3
  <2> QED BY <2>1, <2>2, DbSteps
<1> QED BY <1>2, <1>3, <1>4, <1>5, <1>6, ProcessSteps DEF Purge

(* Unless a purge is or was between the two files, they are of one database.  *)
LEMMA FilesCurrentStep ==
  ASSUME NEW p \in Projects, Step(p), Typed, Local(p)
  PROVE  FilesCurrent(p)'
<1>0. FilesTyped /\ Image(p).points = points[p] /\ Current(p, Empty) /\ setup' = setup
  BY Blanks, SetupStays DEF Typed, Image, Current
<1>1. CASE PurgeVectorFiles(p)
  <2>1. ~up[p] /\ saver[p] = IdleSaver /\ saver' = saver /\ UNCHANGED store
    BY <1>1, PurgeIsDown DEF Local, Purge, PurgeVectorFiles, PurgeStep
  <2>2. InProcess => points'[p] = Empty
    BY <2>1 DEF Local, DownHoldsNothing, store
  <2>3. disk'[p] = NoFile
    BY <1>1, <1>0 DEF PurgeVectorFiles, FilesTyped
  <2> QED BY <2>1, <2>2, <2>3, <1>0, Blanks DEF FilesCurrent, Current, InProcess
<1>2. CASE /\ ~torn'[p] /\ purge'[p] # "files" /\ ~torn[p] /\ purge[p] # "files"
           /\ UNCHANGED epoch /\ UNCHANGED <<store, files>>
  BY <1>2, <1>0 DEF Local, FilesCurrent, Current, InProcess, Is, store, files
<1>3. ASSUME UNCHANGED <<purge, torn, epoch>>, InProcess, ~torn[p], purge[p] # "files"
      PROVE  /\ Current(p, points'[p]) /\ Current(p, disk'[p].points)
             /\ \A s \in Savers : saver'[p][s].pc # "idle" =>
                  /\ Current(p, saver'[p][s].copy.points)
                  /\ Is("hnsw") => Current(p, tmp'[p].points)
  <2>0. /\ Current(p, points[p]) /\ Current(p, disk[p].points)
        /\ \A s \in Savers : saver[p][s].pc # "idle" =>
                  /\ Current(p, saver[p][s].copy.points)
                  /\ Is("hnsw") => Current(p, tmp[p].points)
        /\ run[p].pc # "idle" => run[p].vector = [of |-> p, epoch |-> epoch[p]]
    BY <1>3 DEF Local, FilesCurrent, RunRight
  <2>1. Current(p, points'[p])
    <3>1. CASE Memory(p, points[p], dead[p]) \/ Memory(p, Empty, {}) \/ MemoryRead(p)
      BY <3>1, <2>0, <1>0 DEF Memory, MemoryRead
    <3>2. ASSUME NEW S, MemoryStored(p, S)
          PROVE  Current(p, points'[p])
      BY <3>2, <2>0 DEF MemoryStored, Memory, WithPut, Current
    <3>3. ASSUME NEW S, MemoryRemoved(p, S) \/ MemoryDeleted(p, S)
          PROVE  Current(p, points'[p])
      BY <3>3, <2>0 DEF MemoryRemoved, MemoryDeleted, Memory, WithPut, Current
    <3> QED BY <3>1, <3>2, <3>3, MemorySteps
  <2>2. /\ Current(p, disk'[p].points)
        /\ \A s \in Savers : saver'[p][s].pc # "idle" =>
             /\ Current(p, saver'[p][s].copy.points)
             /\ Is("hnsw") => Current(p, tmp'[p].points)
    <3>1. CASE UNCHANGED files
      BY <3>1, <2>0 DEF files
    <3>2. CASE Crash(p)
      BY <3>2, <2>0, <1>0, Blanks DEF Crash, FilesTyped
    <3>3. CASE PurgeVectorFiles(p)
      BY <3>3, <1>3, <1>0 DEF PurgeVectorFiles, PurgeStep, Typed, ProcessTyped
    <3>4. ASSUME NEW s \in Savers, Save(p, s)
          PROVE  /\ Current(p, disk'[p].points)
                 /\ \A t \in Savers : saver'[p][t].pc # "idle" =>
                      /\ Current(p, saver'[p][t].copy.points)
                      /\ Is("hnsw") => Current(p, tmp'[p].points)
      <4>1. SavedFrom(p, s)
        BY <3>4, SaveSteps
      <4>2. Current(p, disk'[p].points)
        BY <4>1, <2>0, <1>0, Blanks DEF SavedFrom
      <4>3. ASSUME NEW t \in Savers, saver'[p][t].pc # "idle"
            PROVE  Current(p, saver'[p][t].copy.points)
        BY <4>3, <4>1, <2>0, <1>0, Blanks DEF SavedFrom
      <4>4. Is("hnsw") => Current(p, tmp'[p].points)
        BY <4>1, <2>0, <1>0, Blanks DEF SavedFrom
      <4> QED BY <4>2, <4>3, <4>4
    <3> QED BY <3>1, <3>2, <3>3, <3>4, FileSteps
  <2> QED BY <2>1, <2>2
<1>4. CASE UNCHANGED <<purge, torn, epoch>>
  BY <1>4, <1>3, <1>0 DEF FilesCurrent, Current, InProcess, Is
<1>5. CASE torn'[p] \/ purge'[p] = "files"
  BY <1>5 DEF FilesCurrent
<1>6. CASE ~InProcess
  BY <1>6, <1>0 DEF FilesCurrent, InProcess
<1> QED BY <1>1, <1>2, <1>4, <1>5, <1>6, TornSteps

(* brute_force writes a file of its own to its end before it renames it. *)
LEMMA FilesWholeStep ==
  ASSUME NEW p \in Projects, Step(p), Typed, Local(p)
  PROVE  FilesWhole(p)'
<1>. SUFFICES ASSUME Is("brute_force")
              PROVE  /\ disk'[p].state # "partial"
                     /\ \A s \in Savers : saver'[p][s].copy.state # "partial"
  BY SetupStays DEF FilesWhole, Is
<1>0. /\ FilesTyped /\ ~Is("hnsw") /\ Image(p).state = "whole" /\ NoFile.state = "none"
      /\ disk[p].state # "partial" /\ \A s \in Savers : saver[p][s].copy.state # "partial"
  BY Blanks DEF Typed, Local, FilesWhole, Is, Image
<1>1. CASE UNCHANGED files
  BY <1>1, <1>0 DEF files
<1>2. CASE Crash(p)
  BY <1>2, <1>0, Blanks DEF Crash, FilesTyped
<1>3. CASE PurgeVectorFiles(p)
  BY <1>3, <1>0, Blanks DEF PurgeVectorFiles, PurgeStep, FilesTyped
<1>4. ASSUME NEW s \in Savers, Save(p, s)
      PROVE  /\ disk'[p].state # "partial"
             /\ \A t \in Savers : saver'[p][t].copy.state # "partial"
  BY <1>4, <1>0, SaveSteps DEF SavedFrom
<1> QED BY <1>1, <1>2, <1>3, <1>4, FileSteps

(* What a project keeps by itself is inductive. *)
LEMMA LocalStep ==
  ASSUME NEW p \in Projects, Step(p), Typed, \A q \in Projects : Local(q)
  PROVE  \A q \in Projects : Local(q)'
<1>1. Local(p)'
  BY RunRightStep, DownStep, LabelsRightStep, FilesMineStep, FilesCurrentStep, FilesWholeStep DEF Local
<1>2. ASSUME NEW q \in Projects \ {p} PROVE Local(q)'
  BY OthersUntouched, UntouchedStaysLocal, SetupStays
<1> QED BY <1>1, <1>2

------------------------------------------------------------------------------
(* The server *)

(* What a step makes of the vectors of the server: those of its run's window are  *)
(* stored, or some of the project's own that are not of a chunk any more go.     *)
ServerStored(p, S) ==
  /\ points'[Server] = WithPut(points[Server], S, run[p].vector)
  /\ S \subseteq run[p].left /\ run[p].pc = "upsert" /\ UNCHANGED db
  /\ run'[p].batch = run[p].batch /\ run'[p].left = run[p].left \ S
ServerRemoved(p, S) ==
  /\ points'[Server] = WithPut(points[Server], S, NoVector)
  /\ S \subseteq Claims(p) /\ S \cap chunks'[p] = {} /\ UNCHANGED run

(* No label of a server is ever deleted: hnsw is a store of the process. *)
LEMMA ServerHasNoLabels ==
  ASSUME NEW p \in Projects, Step(p), Typed, dead[Server] = {}
  PROVE  dead'[Server] = {}
<1>0. StoreTyped /\ Server \in Places /\ p \in Places /\ p # Server
  BY VectorAssumption DEF Typed, Places
<1>1. ASSUME NEW h \in Places, NEW S, NEW v, Put(h, S, v) \/ Remove(h, S)
      PROVE  dead'[Server] = {}
  BY <1>0, <1>1 DEF Put, Remove, StoreTyped
<1>2. Home(p) \in Places
  BY DEF Home, Places
<1>3. CASE UNCHANGED store
  BY <1>3 DEF store
<1>4. CASE Upsert(p)
  BY <1>1, <1>2, <1>3, <1>4, Upserts DEF Upserted, UpsertFails
<1>5. CASE DeleteStale(p)
  <2>1. UNCHANGED store \/ DeleteRequest(p, Window(stale[p]))
    BY <1>5 DEF DeleteStale
  <2>2. DeleteRequest(p, Window(stale[p])) => \/ HnswDelete(p, Window(stale[p]))
                                              \/ Remove(Home(p), Window(stale[p]))
    BY DEF DeleteRequest
  <2>3. HnswDelete(p, Window(stale[p])) => dead'[Server] = dead[Server]
    BY <1>0, CallsStay
  <2> QED BY <1>1, <1>2, <1>3, <2>1, <2>2, <2>3
<1>6. CASE Crash(p) \/ Boot(p)
  BY <1>0, <1>3, <1>6, BootLoads DEF Crash, Loaded, StoreTyped
<1>7. CASE PurgeMetadata(p)
  BY <1>0, <1>1, <1>3, <1>7 DEF PurgeMetadata, CascadeToVectors
<1>8. CASE PurgeVectors(p)
  BY <1>0, <1>1, <1>3, <1>8 DEF PurgeVectors, PgvectorPurgeAll, QdrantPurgeAll
<1>9. ASSUME NEW D \in SUBSET chunks[p], NEW n \in 0..2, Replace(p, D, n)
      PROVE  dead'[Server] = {}
  BY <1>0, <1>1, <1>3, <1>9 DEF Replace, CascadeToVectors, store
<1> QED BY <1>3, <1>4, <1>5, <1>6, <1>7, <1>8, <1>9, StoreSteps

(* The ids of a PostgreSQL database: a replacement takes the next ones, and they   *)
(* are given once. *)
Sequence(p) ==
  /\ epoch' = epoch
  /\ \/ nextId' = nextId /\ chunks'[p] \subseteq chunks[p]
     \/ \E n \in 0..2 : /\ \A q \in Projects : nextId'[q] = nextId[p] + n
                        /\ chunks'[p] \subseteq chunks[p] \cup FreshIds(p, n)

(* What a step may do to the chunk ids. *)
LEMMA SequenceSteps ==
  ASSUME NEW p \in Projects, Step(p), Typed, Scoped
  PROVE  Sequence(p)
<1>0. DbTyped
  BY DEF Typed
<1>1. CASE UNCHANGED db
  BY <1>1 DEF db, Sequence
<1>2. CASE Mark(p)
  BY <1>2 DEF Mark, Sequence
<1>3. CASE PurgeMetadata(p)
  <2>1. chunks'[p] \subseteq chunks[p]
    BY <1>3, <1>0 DEF PurgeMetadata, DbTyped
  <2> QED BY <2>1, <1>3 DEF PurgeMetadata, Sequence
<1>4. CASE PurgeDatabase(p)
  BY <1>4, <1>1 DEF PurgeDatabase, Scoped
<1>5. ASSUME NEW D \in SUBSET chunks[p], NEW n \in 0..2, Replace(p, D, n)
      PROVE  Sequence(p)
  <2>1. chunks'[p] = (chunks[p] \ D) \cup FreshIds(p, n)
    BY <1>5, <1>0 DEF Replace, DbTyped
  <2>2. \A q \in Projects : nextId'[q] = nextId[p] + n
    BY <1>5 DEF Replace, Scoped
  <2> QED BY <2>1, <2>2, <1>5 DEF Replace, Sequence
<1> QED BY <1>1, <1>2, <1>3, <1>4, <1>5, DbSteps

(* The vectors of the server. *)
LEMMA ServerSteps ==
  ASSUME NEW p \in Projects, Step(p), Inv, Scoped
  PROVE  \/ points'[Server] = points[Server]
         \/ \E S \in SUBSET Ids : ServerStored(p, S) \/ ServerRemoved(p, S)
<1>0. /\ DbTyped /\ StoreTyped /\ ProcessTyped /\ setup \in Setups /\ Server \in Places
      /\ ~InProcess /\ Home(p) = Server /\ IdsApart /\ ServerKeeps /\ p # Server /\ Local(p)
      /\ chunks[p] \subseteq Ids /\ stale[p] \subseteq Ids
  BY VectorAssumption, Pairs DEF Inv, Typed, DbTyped, ProcessTyped, Places, Home
<1>1. CASE UNCHANGED store
  BY <1>1 DEF store
<1>2. ASSUME NEW S, Remove(Server, S)
      PROVE  points'[Server] = WithPut(points[Server], S, NoVector)
  BY <1>2, <1>0 DEF Remove, WithPut, StoreTyped
<1>3. CASE Upsert(p)
  <2>1. UpsertFails(p) => UNCHANGED store
    BY DEF UpsertFails
  <2>2. ASSUME NEW S \in SUBSET run[p].left, Upserted(p, S)
        PROVE  \E T \in SUBSET Ids : ServerStored(p, T)
    <3>1. points'[Server] = WithPut(points[Server], S, run[p].vector)
      BY <2>2, <1>0 DEF Upserted, Put, WithPut, StoreTyped
    <3>2. S \subseteq Ids
      BY <1>0 DEF ProcessTyped, RunType
    <3>3. ServerStored(p, S)
      BY <3>1, <2>2, <1>0, <1>3, UpsertedRun DEF ServerStored, Upsert
    <3> QED BY <3>2, <3>3
  <2> QED BY <2>1, <2>2, <1>1, <1>3, Upserts
<1>4. CASE DeleteStale(p)
  <2>. DEFINE S == Window(stale[p])
  <2>1. UNCHANGED store \/ Remove(Server, S)
    BY <1>4, <1>0 DEF DeleteStale, DeleteRequest, Is, InProcess
  <2>2. S \subseteq stale[p] /\ UNCHANGED run /\ chunks' = chunks
    BY <1>4, WindowIsPart DEF DeleteStale, db
  <2>3. S \subseteq Claims(p) /\ S \cap chunks'[p] = {} /\ S \subseteq Ids
    BY <2>2, <1>0 DEF Claims, IdsApart
  <2>. HIDE DEF S
  <2>4. Remove(Server, S) => ServerRemoved(p, S)
    BY <1>2, <2>2, <2>3 DEF ServerRemoved
  <2> QED BY <2>1, <2>3, <2>4, <1>1
<1>5. CASE Crash(p) \/ Boot(p)
  BY <1>5, <1>1, <1>0, BootLoads DEF Crash
<1>6. CASE PurgeMetadata(p)
  <2>1. UNCHANGED store \/ Remove(Server, chunks[p])
    BY <1>6 DEF PurgeMetadata, CascadeToVectors
  <2>2. chunks'[p] = {} /\ UNCHANGED run /\ chunks[p] \subseteq Claims(p)
    BY <1>6, <1>0 DEF PurgeMetadata, PurgeStep, Scoped, DbTyped, Claims
  <2>3. Remove(Server, chunks[p]) => ServerRemoved(p, chunks[p])
    BY <1>2, <2>2 DEF ServerRemoved
  <2> QED BY <2>1, <2>3, <1>1, <1>0
<1>7. CASE PurgeVectors(p)
  <2>. DEFINE S == {i \in Live(Server) : points[Server][i].of = p}
  <2>1. UNCHANGED store \/ Remove(Server, S)
    BY <1>7, <1>0 DEF PurgeVectors, PgvectorPurgeAll, QdrantPurgeAll, PgvectorSearch, QdrantSearch
  <2>2. S \subseteq Ids /\ S \subseteq Claims(p)
    BY DEF Live, Stored, Claims
  <2>3. chunks'[p] = {} /\ UNCHANGED run
    BY <1>7, <1>0 DEF PurgeVectors, PurgeStep, ServerKeeps, db
  <2>. HIDE DEF S
  <2>4. Remove(Server, S) => ServerRemoved(p, S)
    BY <1>2, <2>2, <2>3 DEF ServerRemoved
  <2> QED BY <2>1, <2>2, <2>4, <1>1
<1>8. ASSUME NEW D \in SUBSET chunks[p], NEW n \in 0..2, Replace(p, D, n)
      PROVE  points'[Server] = points[Server] \/ ServerRemoved(p, D)
  <2>1. UNCHANGED store \/ Remove(Server, D)
    BY <1>8 DEF Replace, CascadeToVectors
  <2>2. chunks'[p] = (chunks[p] \ D) \cup FreshIds(p, n) /\ UNCHANGED run
    BY <1>8, <1>0 DEF Replace, DbTyped
  <2>3. \A i \in D : i \in Nat /\ i < nextId[p] /\ i \in Claims(p)
    BY <1>0 DEF IdsApart, Claims, Ids
  <2>4. nextId[p] \in Nat /\ \A i \in FreshIds(p, n) : i >= nextId[p]
    BY <1>0 DEF DbTyped, FreshIds
  <2>5. \A i \in D : i \notin FreshIds(p, n)
    BY <2>3, <2>4
  <2>6. D \subseteq Claims(p) /\ D \cap chunks'[p] = {}
    BY <2>2, <2>3, <2>5
  <2>7. UNCHANGED store => points'[Server] = points[Server]
    BY DEF store
  <2> QED BY <2>1, <2>2, <2>6, <2>7, <1>2, Zenon DEF ServerRemoved
<1> QED
  <2>1. ASSUME NEW D \in SUBSET chunks[p], ServerRemoved(p, D)
        PROVE  \E S \in SUBSET Ids : ServerRemoved(p, S)
    BY <2>1, <1>0
  <2> QED BY <2>1, <1>1, <1>3, <1>4, <1>5, <1>6, <1>7, <1>8, StoreSteps

(* What a project answers for grows by the ids that a replacement takes.  *)
LEMMA ClaimsStep ==
  ASSUME NEW p \in Projects, Step(p), Inv, Scoped
  PROVE  /\ \A q \in Projects \ {p} : Claims(q)' \subseteq Claims(q)
         /\ Claims(p)' \subseteq Claims(p) \cup chunks'[p]
<1>0. /\ Typed /\ DbTyped /\ StoreTyped /\ ProcessTyped /\ IdsApart /\ Local(p)
      /\ RunRight(p)
  BY DEF Inv, Typed, Local
<1>1. ASSUME NEW q \in Projects, NEW i \in Ids, points'[Server][i] # NoVector,
             points'[Server][i].of = q
      PROVE  i \in Claims(q)
  <2>1. CASE points'[Server] = points[Server]
    BY <2>1, <1>1 DEF Claims
  <2>2. ASSUME NEW S \in SUBSET Ids, ServerStored(p, S) PROVE i \in Claims(q)
    <3>1. CASE i \in S
      <4>1. points'[Server][i] = run[p].vector /\ i \in run[p].batch
        BY <3>1, <2>2, <1>0 DEF ServerStored, WithPut, RunRight
      <4>2. run[p].vector.of = p
        BY <2>2, <1>0 DEF ServerStored, RunRight
      <4> QED BY <4>1, <4>2, <1>1 DEF Claims
    <3>2. CASE i \notin S
      BY <3>2, <2>2, <1>1 DEF ServerStored, WithPut, Claims
    <3> QED BY <3>1, <3>2
  <2>3. ASSUME NEW S \in SUBSET Ids, ServerRemoved(p, S) PROVE i \in Claims(q)
    BY <2>3, <1>1 DEF ServerRemoved, WithPut, Claims
  <2> QED BY <2>1, <2>2, <2>3, ServerSteps
<1>2. ASSUME NEW q \in Projects \ {p} PROVE Claims(q)' \subseteq Claims(q)
  <2>1. chunks'[q] = chunks[q] /\ stale'[q] = stale[q] /\ run'[q] = run[q]
    BY <1>0, OthersUntouched DEF Untouched
  <2> QED BY <1>1, <2>1 DEF Claims
<1>3. stale'[p] \subseteq Claims(p)
  <2>1. CASE UNCHANGED stale
    BY <2>1 DEF Claims
  <2>2. CASE DeleteStale(p) \/ Crash(p)
    BY <2>2, <1>0 DEF DeleteStale, Crash, ProcessTyped, Claims
  <2>3. ASSUME NEW D \in SUBSET chunks[p], NEW n \in 0..2, Replace(p, D, n)
        PROVE  stale'[p] \subseteq Claims(p)
    BY <2>3, <1>0 DEF Replace, ProcessTyped, Claims
  <2> QED BY <2>1, <2>2, <2>3, ProcessSteps
<1>4. run'[p].batch \subseteq Claims(p)
  <2>1. CASE Embed(p)
    <3>. DEFINE batch == chunks[p] \ flagged[p]
                need  == {i \in batch : ~Has(p, i)}
                r == [pc |-> IF need = {} THEN "mark" ELSE "upsert", batch |-> batch,
                      left |-> need, vector |-> [of |-> p, epoch |-> epoch[p]]]
    <3>1. run' = [run EXCEPT ![p] = r]
      BY <2>1 DEF Embed
    <3>2. r.batch = batch
      OBVIOUS
    <3>. HIDE DEF r
    <3>3. run'[p].batch = batch
      BY <3>1, <3>2, <1>0 DEF ProcessTyped
    <3> QED BY <3>3 DEF Claims
  <2>2. CASE Upsert(p)
    BY <2>2, <1>0, Upserts, UpsertedRun, Blanks DEF UpsertFails, ProcessTyped, Claims
  <2>3. CASE Mark(p) \/ Crash(p)
    BY <2>3, <1>0, Blanks DEF Mark, Crash, ProcessTyped
  <2>4. CASE UNCHANGED run
    BY <2>4 DEF Claims
  <2> QED BY <2>1, <2>2, <2>3, <2>4, ProcessSteps
<1> QED BY <1>1, <1>2, <1>3, <1>4 DEF Claims

(* The ids of a shared server stay apart. *)
LEMMA IdsApartStep ==
  ASSUME NEW p \in Projects, Step(p), Inv, Scoped
  PROVE  IdsApart'
<1>0. /\ Typed /\ DbTyped /\ StoreTyped /\ ProcessTyped /\ IdsApart /\ Local(p)
      /\ RunRight(p) /\ nextId[p] \in Nat /\ Sequence(p) /\ DbTyped'
  BY SequenceSteps, DbTypedStep DEF Inv, Typed, DbTyped, Local
<1>1. \A q, r \in Projects : nextId'[q] = nextId'[r]
  BY <1>0 DEF Sequence, IdsApart
<1>2. PICK new \in SUBSET Nat :
        /\ chunks'[p] \subseteq chunks[p] \cup new
        /\ \A i \in new : \A q \in Projects : nextId[q] <= i /\ i < nextId'[q]
        /\ \A q \in Projects : nextId[q] <= nextId'[q]
  <2>1. CASE nextId' = nextId /\ chunks'[p] \subseteq chunks[p]
    <3>1. {} \in SUBSET Nat /\ \A q \in Projects : nextId[q] <= nextId'[q]
      BY <2>1, <1>0 DEF DbTyped
    <3> QED BY <2>1, <3>1
  <2>2. ASSUME NEW n \in 0..2, \A q \in Projects : nextId'[q] = nextId[p] + n,
               chunks'[p] \subseteq chunks[p] \cup FreshIds(p, n)
        PROVE  /\ FreshIds(p, n) \subseteq Nat
               /\ \A i \in FreshIds(p, n) : \A q \in Projects : nextId[q] <= i /\ i < nextId'[q]
               /\ \A q \in Projects : nextId[q] <= nextId'[q]
    <3>1. \A q \in Projects : nextId[q] = nextId[p] /\ nextId'[q] = nextId[p] + n
      BY <2>2, <1>0 DEF IdsApart
    <3>2. \A i \in FreshIds(p, n) : i \in Nat /\ nextId[p] <= i /\ i < nextId[p] + n
      BY <1>0 DEF FreshIds
    <3>3. nextId[p] <= nextId[p] + n
      BY <1>0
    <3> QED BY <3>1, <3>2, <3>3
  <2> QED BY <2>1, <2>2, <1>0 DEF Sequence
<1>3. \A q \in Projects : \A i \in Claims(q) : i \in Nat
  BY <1>0 DEF Claims, DbTyped, ProcessTyped, RunType, Ids
<1>4. \A q \in Projects \ {p} : Claims(q)' \subseteq Claims(q)
  BY ClaimsStep
<1>5. Claims(p)' \subseteq Claims(p) \cup new
  BY ClaimsStep, <1>2 DEF Claims
<1>6. ASSUME NEW q \in Projects, NEW i \in Claims(q)'
      PROVE  i < nextId'[q]
  <2>1. CASE i \in Claims(q)
    <3>1. i < nextId[q] /\ i \in Nat /\ nextId[q] <= nextId'[q]
      BY <2>1, <1>0, <1>2, <1>3 DEF IdsApart
    <3>2. nextId[q] \in Nat /\ nextId'[q] \in Nat
      BY <1>0 DEF DbTyped
    <3> QED BY <3>1, <3>2
  <2>2. CASE i \notin Claims(q)
    BY <2>2, <1>2, <1>4, <1>5, <1>6
  <2> QED BY <2>1, <2>2
<1>7. ASSUME NEW q \in Projects, NEW i \in Claims(q), i \in new
      PROVE  FALSE
  <2>1. i < nextId[q] /\ nextId[q] <= i /\ i \in Nat /\ nextId[q] \in Nat
    BY <1>7, <1>0, <1>2 DEF IdsApart, DbTyped
  <2> QED BY <2>1
<1>8. ASSUME NEW q \in Projects, NEW r \in Projects, q # r
      PROVE  Claims(q)' \cap Claims(r)' = {}
  <2>1. Claims(q) \cap Claims(r) = {}
    BY <1>0, <1>8 DEF IdsApart
  <2> QED BY <2>1, <1>4, <1>5, <1>7, <1>8
<1>9. \A q \in Projects : stale'[q] \cap chunks'[q] = {}
  <2>1. ASSUME NEW q \in Projects \ {p} PROVE stale'[q] \cap chunks'[q] = {}
    BY <1>0, OthersUntouched DEF Untouched, IdsApart
  <2>2. stale'[p] \cap chunks'[p] = {}
    <3>1. CASE DeleteStale(p)
      BY <3>1, <1>0 DEF DeleteStale, ProcessTyped, IdsApart, db
    <3>2. CASE Crash(p)
      BY <3>2, <1>0 DEF Crash, ProcessTyped
    <3>3. ASSUME NEW D \in SUBSET chunks[p], NEW n \in 0..2, Replace(p, D, n)
          PROVE  stale'[p] \cap chunks'[p] = {}
      <4>1. stale'[p] \subseteq D /\ chunks'[p] = (chunks[p] \ D) \cup FreshIds(p, n)
        BY <3>3, <1>0 DEF Replace, ProcessTyped, DbTyped
      <4>2. \A i \in D : i < nextId[p] /\ i \in Nat
        BY <1>0, <1>3 DEF IdsApart, Claims
      <4>3. \A i \in FreshIds(p, n) : nextId[p] <= i /\ i \in Nat
        BY <1>0 DEF FreshIds
      <4>4. \A i \in D : i \notin FreshIds(p, n)
        BY <4>2, <4>3, <1>0
      <4> QED BY <4>1, <4>4
    <3>4. CASE UNCHANGED stale /\ ~\E D \in SUBSET chunks[p], n \in 0..2 : Replace(p, D, n)
      <4>1. chunks'[p] \subseteq chunks[p]
        BY <3>4, <1>0, DbSteps DEF db, Mark, PurgeMetadata, PurgeDatabase, DbTyped
      <4> QED BY <4>1, <3>4, <1>0 DEF IdsApart
    <3> QED BY <3>1, <3>2, <3>3, <3>4, ProcessSteps
  <2> QED BY <2>1, <2>2
<1>10. ASSUME NEW i \in Ids, points'[Server][i] # NoVector
       PROVE  points'[Server][i].epoch = epoch'[points'[Server][i].of]
  <2>0. epoch' = epoch
    BY <1>0 DEF Sequence
  <2>1. CASE points'[Server] = points[Server]
    BY <2>0, <2>1, <1>0, <1>10 DEF IdsApart
  <2>2. ASSUME NEW S \in SUBSET Ids, ServerStored(p, S)
        PROVE  points'[Server][i].epoch = epoch[points'[Server][i].of]
    <3>1. run[p].vector = [of |-> p, epoch |-> epoch[p]]
      BY <2>2, <1>0 DEF ServerStored, RunRight
    <3>2. points'[Server][i] \in {run[p].vector, points[Server][i]}
      BY <2>2 DEF ServerStored, WithPut
    <3> QED BY <3>1, <3>2, <1>0, <1>10 DEF IdsApart
  <2>3. ASSUME NEW S \in SUBSET Ids, ServerRemoved(p, S)
        PROVE  points'[Server][i].epoch = epoch[points'[Server][i].of]
    BY <2>3, <1>0, <1>10 DEF ServerRemoved, WithPut, IdsApart
  <2> QED BY <2>0, <2>1, <2>2, <2>3, ServerSteps
<1> QED BY <1>1, <1>6, <1>8, <1>9, <1>10 DEF IdsApart

(* A server keeps the vectors of what a run has stored and of what is flagged:     *)
(* what a step removes is of no chunk that is left, and of no other project.     *)
LEMMA ServerKeepsStep ==
  ASSUME NEW p \in Projects, Step(p), Inv, Scoped
  PROVE  ServerKeeps'
<1>0. /\ Typed /\ DbTyped /\ StoreTyped /\ ProcessTyped /\ IdsApart /\ Local(p) /\ ServerKeeps
      /\ RunRight(p) /\ dead[Server] = {} /\ ~InProcess /\ Home(p) = Server
      /\ \A q \in Projects : RunRight(q)
  BY Pairs DEF Inv, Typed, DbTyped, Local, Home
<1>1. ASSUME NEW q \in Projects \ {p}
      PROVE  /\ flagged'[q] \subseteq Stored(Server)'
             /\ (run'[q].batch \ run'[q].left) \cap chunks'[q] \subseteq Stored(Server)'
             /\ purge'[q] = "vectors" => chunks'[q] = {}
  <2>1. Untouched(q)
    BY <1>0, OthersUntouched
  <2>2. ASSUME NEW i \in Stored(Server), i \in chunks[q]
        PROVE  i \in Stored(Server)'
    <3>1. CASE points'[Server] = points[Server]
      BY <3>1, <2>2 DEF Stored
    <3>2. ASSUME NEW S \in SUBSET Ids, ServerStored(p, S)
          PROVE  i \in Stored(Server)'
      <4>1. run[p].vector \in Vector
        BY <3>2, <1>0 DEF ServerStored, RunRight, Vector, DbTyped
      <4> QED BY <4>1, <3>2, <2>2, VectorAssumption DEF ServerStored, WithPut, Stored, Vector
    <3>3. ASSUME NEW S \in SUBSET Ids, ServerRemoved(p, S)
          PROVE  i \in Stored(Server)'
      <4>1. i \notin S
        BY <3>3, <2>2, <1>0 DEF ServerRemoved, IdsApart, Claims
      <4> QED BY <4>1, <3>3, <2>2 DEF ServerRemoved, WithPut, Stored
    <3> QED BY <3>1, <3>2, <3>3, ServerSteps
  <2>3. flagged[q] \subseteq chunks[q] /\ flagged[q] \subseteq Stored(Server)
        /\ (run[q].batch \ run[q].left) \cap chunks[q] \subseteq Stored(Server)
    BY <1>0 DEF RunRight, ServerKeeps
  <2>4. purge[q] = "vectors" => chunks[q] = {}
    BY <1>0 DEF ServerKeeps
  <2> QED BY <2>1, <2>2, <2>3, <2>4 DEF Untouched
<1>2. ASSUME NEW i \in Stored(Server), i \in chunks'[p]
      PROVE  i \in Stored(Server)'
  <2>1. CASE points'[Server] = points[Server]
    BY <2>1, <1>2 DEF Stored
  <2>2. ASSUME NEW S \in SUBSET Ids, ServerStored(p, S)
        PROVE  i \in Stored(Server)'
    <3>1. run[p].vector \in Vector
      BY <2>2, <1>0 DEF ServerStored, RunRight, Vector, DbTyped
    <3> QED BY <3>1, <2>2, <1>2, VectorAssumption DEF ServerStored, WithPut, Stored, Vector
  <2>3. ASSUME NEW S \in SUBSET Ids, ServerRemoved(p, S)
        PROVE  i \in Stored(Server)'
    BY <2>3, <1>2 DEF ServerRemoved, WithPut, Stored
  <2> QED BY <2>1, <2>2, <2>3, ServerSteps
<1>3. /\ flagged[p] \subseteq Stored(Server)
      /\ (run[p].batch \ run[p].left) \cap chunks[p] \subseteq Stored(Server)
  BY <1>0 DEF ServerKeeps
<1>4. RunRight(p)'
  BY <1>0, RunRightStep
<1>5. flagged'[p] \subseteq Stored(Server)'
  <2>1. flagged'[p] \subseteq Stored(Server)
    <3>1. CASE UNCHANGED db
      BY <3>1, <1>3 DEF db
    <3>2. CASE Mark(p)
      <4>1. flagged'[p] = flagged[p] \cup (run[p].batch \cap chunks[p]) /\ run[p].left = {}
        BY <3>2, <1>0 DEF Mark, DbTyped, RunRight
      <4> QED BY <4>1, <1>3
    <3>3. CASE PurgeMetadata(p) \/ PurgeDatabase(p)
      BY <3>3, <1>0, <1>3 DEF PurgeMetadata, PurgeDatabase, DbTyped, db, Scoped
    <3>4. ASSUME NEW D \in SUBSET chunks[p], NEW n \in 0..2, Replace(p, D, n)
          PROVE  flagged'[p] \subseteq Stored(Server)
      BY <3>4, <1>0, <1>3 DEF Replace, DbTyped
    <3> QED BY <3>1, <3>2, <3>3, <3>4, DbSteps
  <2> QED BY <2>1, <1>2, <1>4 DEF RunRight
<1>6. (run'[p].batch \ run'[p].left) \cap chunks'[p] \subseteq Stored(Server)'
  <2>1. CASE UNCHANGED run
    <3>1. ASSUME NEW i \in run[p].batch, i \in chunks'[p]
          PROVE  i \in chunks[p]
      <4>1. i \in Claims(p) /\ i \in Nat /\ i < nextId[p] /\ nextId[p] \in Nat
        BY <3>1, <1>0 DEF Claims, IdsApart, ProcessTyped, RunType, Ids, DbTyped
      <4>2. ASSUME NEW n \in 0..2 PROVE i \notin FreshIds(p, n)
        BY <4>1 DEF FreshIds
      <4>3. chunks'[p] \subseteq chunks[p] \/ \E n \in 0..2 : chunks'[p] \subseteq chunks[p] \cup FreshIds(p, n)
        BY <1>0, SequenceSteps DEF Sequence
      <4> QED BY <3>1, <4>2, <4>3
    <3> QED BY <2>1, <3>1, <1>2, <1>3
  <2>2. CASE Embed(p)
    <3>. DEFINE batch == chunks[p] \ flagged[p]
                need  == {i \in batch : ~Has(p, i)}
                r == [pc |-> IF need = {} THEN "mark" ELSE "upsert", batch |-> batch,
                      left |-> need, vector |-> [of |-> p, epoch |-> epoch[p]]]
    <3>1. run' = [run EXCEPT ![p] = r] /\ UNCHANGED <<db, store>>
      BY <2>2 DEF Embed
    <3>2. r.batch = batch /\ r.left = need
      OBVIOUS
    <3>3. \A i \in batch \ need : i \in Stored(Server)
      BY <1>0 DEF Has, Live
    <3>. HIDE DEF r
    <3>4. run'[p].batch = batch /\ run'[p].left = need
      BY <3>1, <3>2, <1>0 DEF ProcessTyped
    <3>5. Stored(Server)' = Stored(Server)
      BY <3>1 DEF Stored, store
    <3> QED BY <3>3, <3>4, <3>5
  <2>3. CASE Upsert(p)
    <3>1. chunks' = chunks
      BY <2>3 DEF Upsert, db
    <3>2. CASE UpsertFails(p)
      BY <3>2, <1>0, Blanks DEF UpsertFails, ProcessTyped
    <3>3. ASSUME NEW S \in SUBSET run[p].left, Upserted(p, S)
          PROVE  (run'[p].batch \ run'[p].left) \cap chunks'[p] \subseteq Stored(Server)'
      <4>1. /\ run'[p].batch = run[p].batch /\ run'[p].left = run[p].left \ S
        BY <3>3, <1>0, UpsertedRun
      <4>2. points'[Server] = WithPut(points[Server], S, run[p].vector)
        BY <3>3, <1>0 DEF Upserted, Put, WithPut, StoreTyped, Places
      <4>3. run[p].vector \in Vector
        BY <2>3, <1>0 DEF Upsert, RunRight, Vector, DbTyped
      <4>4. \A i \in S : i \in Ids
        BY <1>0 DEF ProcessTyped, RunType
      <4>5. \A i \in S : i \in Stored(Server)'
        BY <4>2, <4>3, <4>4, VectorAssumption DEF WithPut, Stored, Vector
      <4> QED BY <4>1, <4>5, <3>1, <1>2, <1>3
    <3> QED BY <3>2, <3>3, <2>3, Upserts
  <2>4. CASE Mark(p) \/ Crash(p)
    BY <2>4, <1>0, Blanks DEF Mark, Crash, ProcessTyped
  <2> QED BY <2>1, <2>2, <2>3, <2>4, ProcessSteps
<1>7. purge'[p] = "vectors" => chunks'[p] = {}
  <2>1. CASE PurgeMetadata(p)
    BY <2>1, <1>0 DEF PurgeMetadata, DbTyped, Scoped
  <2>2. CASE Purge(p) /\ ~PurgeMetadata(p)
    BY <2>2, <1>0 DEF Purge, BeginPurge, PurgeVectors, PurgeDatabase, PurgeVectorFiles,
       PurgeStops, PurgeStep, ProcessTyped
  <2>3. ASSUME purge'[p] = "vectors", ~Purge(p)
        PROVE  chunks'[p] = {}
    <3>1. purge' = purge /\ chunks[p] = {} /\ ~up[p]
      BY <2>3, <1>0, ProcessSteps DEF ServerKeeps, Local, DownHoldsNothing
    <3>2. chunks' = chunks
      BY <2>3, <3>1, DbSteps DEF db, Mark, Replace, Purge
    <3> QED BY <3>1, <3>2
  <2> QED BY <2>1, <2>2, <2>3
<1> QED BY <1>1, <1>5, <1>6, <1>7 DEF ServerKeeps

------------------------------------------------------------------------------
(* The invariant and what follows from it *)

(* A fresh start: nothing is stored anywhere. *)
LEMMA InitInv ==
  ASSUME Init
  PROVE  Inv
<1>1. DbTyped
  BY VectorAssumption DEF Init, DbTyped
<1>2. StoreTyped
  BY Blanks DEF Init, StoreTyped, Places
<1>3. FilesTyped
  BY Blanks DEF Init, FilesTyped
<1>4. ProcessTyped
  BY Blanks DEF Init, ProcessTyped
<1>5. dead[Server] = {} /\ \A i \in Ids : points[Server][i] = NoVector
  BY Blanks DEF Init
<1>6. ASSUME NEW p \in Projects PROVE Local(p)
  <2>1. /\ chunks[p] = {} /\ flagged[p] = {} /\ points[p] = Empty /\ dead[p] = {}
        /\ disk[p] = NoFile /\ tmp[p] = NoFile /\ saver[p] = IdleSaver
        /\ run[p] = IdleRun /\ stale[p] = {} /\ purge[p] = "none"
    BY DEF Init
  <2>2. RunRight(p) /\ DownHoldsNothing(p)
    BY <2>1, Blanks DEF RunRight, DownHoldsNothing
  <2>3. LabelsRight(p)
    BY <2>1, Blanks DEF LabelsRight, LabelsOf
  <2>4. FilesMine(p) /\ FilesCurrent(p)
    BY <2>1, Blanks DEF FilesMine, FilesCurrent, Mine, Current
  <2>5. FilesWhole(p)
    BY <2>1, Blanks DEF FilesWhole
  <2> QED BY <2>2, <2>3, <2>4, <2>5 DEF Local
<1>7. IdsApart /\ ServerKeeps
  <2>1. \A p \in Projects : Claims(p) = {} /\ stale[p] = {} /\ nextId[p] = 1
    BY <1>5, Blanks DEF Init, Claims
  <2>2. \A p \in Projects : flagged[p] = {} /\ chunks[p] = {} /\ run[p].batch = {}
    BY Blanks DEF Init
  <2> QED BY <2>1, <2>2, <1>5 DEF IdsApart, ServerKeeps
<1> QED BY <1>1, <1>2, <1>3, <1>4, <1>5, <1>6, <1>7 DEF Inv, Typed

(* Every step of every project keeps it. *)
LEMMA StepInv ==
  ASSUME Inv, [Next]_vars
  PROVE  Inv'
<1>1. CASE UNCHANGED vars
  <2>1. DbTyped' /\ StoreTyped' /\ FilesTyped' /\ ProcessTyped'
    BY <1>1 DEF vars, Inv, Typed, DbTyped, StoreTyped, FilesTyped, ProcessTyped
  <2>2. \A q \in Projects : Local(q)'
    <3>1. \A q \in Projects : Untouched(q) /\ setup' = setup
      BY <1>1 DEF vars, Untouched
    <3> QED BY <3>1, UntouchedStaysLocal DEF Inv
  <2>3. Scoped' = Scoped /\ (IdsApart => IdsApart') /\ (ServerKeeps => ServerKeeps')
    BY <1>1 DEF vars, Scoped, IdsApart, ServerKeeps, Claims, Stored
  <2> QED BY <1>1, <2>1, <2>2, <2>3 DEF vars, Inv, Typed
<1>2. ASSUME NEW p \in Projects, Step(p)
      PROVE  Inv'
  <2>1. Typed' /\ dead'[Server] = {} /\ \A q \in Projects : Local(q)'
    BY <1>2, TypedStep, ServerHasNoLabels, LocalStep DEF Inv
  <2>2. Scoped => IdsApart' /\ ServerKeeps'
    BY <1>2, IdsApartStep, ServerKeepsStep
  <2>3. Scoped' = Scoped
    BY <1>2, SetupStays DEF Scoped
  <2> QED BY <2>1, <2>2, <2>3 DEF Inv
<1> QED BY <1>1, <1>2 DEF Next

(* The invariant: what each project keeps by itself, and, on a shared server that  *)
(* is given a project id, whose the ids are and that what is flagged is stored.  *)
THEOREM Invariant == Spec => []Inv
<1>1. Init => Inv
  BY InitInv
<1>2. Inv /\ [Next]_vars => Inv'
  BY StepInv
<1> QED BY <1>1, <1>2, PTL DEF Spec

(* What Search answers from: live points, and on a server those of the project.   *)
LEMMA SearchIsOwn ==
  ASSUME NEW p \in Projects, NEW topK, setup \in Setups, Scopes
  PROVE  /\ Search(p, topK) \subseteq Live(Home(p))
         /\ ~InProcess => \A i \in Search(p, topK) : points[Server][i].of = p
<1>1. CASE InProcess
  BY <1>1 DEF InProcess, Is, Search, Home, BruteForceSearch, HnswSearch
<1>2. CASE ~InProcess
  BY <1>2, Pairs DEF InProcess, Is, Scopes, Search, Home, PgvectorSearch, QdrantSearch
<1> QED BY <1>1, <1>2

(* Search finds a chunk by the vector that was computed from it: not by one of      *)
(* another project that has the same id, and not by one of a database that was     *)
(* removed since, through saves, crashes, restarts and purges; where a purge was    *)
(* stopped between the two files, and qdrant beside SQLite, are the exceptions.    *)
THEOREM OwnVectors == Spec => [](Scopes => OwnVector)
<1>1. Inv => (Scopes => OwnVector)
  <2>. SUFFICES ASSUME Inv, Scopes, NEW p \in Projects, NEW topK \in Ids,
                       NEW i \in chunks[p] \cap Search(p, topK), ~torn[p]
                PROVE  points[Home(p)][i] = [of |-> p, epoch |-> epoch[p]]
    BY Zenon DEF OwnVector
  <2>0. /\ StoreTyped /\ setup \in Setups /\ Local(p) /\ i \in Live(Home(p))
        /\ i \in Ids /\ points[Home(p)][i] # NoVector /\ Server \in Places
    <3>1. setup \in Setups
      BY DEF Inv, Typed, DbTyped
    <3>2. i \in Live(Home(p))
      BY <3>1, SearchIsOwn
    <3> QED BY <3>1, <3>2 DEF Inv, Typed, Places, Live, Stored
  <2>1. CASE InProcess
    <3>1. points[p] # Empty
      BY <2>0, <2>1, Blanks DEF Home
    <3>2. purge[p] # "files"
      BY <3>1, <2>0, <2>1 DEF Local, DownHoldsNothing
    <3> QED BY <3>2, <2>0, <2>1 DEF Local, FilesCurrent, Current, Home
  <2>2. CASE ~InProcess
    <3>1. IdsApart /\ Home(p) = Server
      BY <2>2 DEF Inv, Scopes, Home
    <3>2. points[Server][i].of = p /\ points[Server][i] \in Vector
      BY <2>0, <2>2, <3>1, SearchIsOwn DEF StoreTyped, Held
    <3>3. points[Server][i].epoch = epoch[p]
      BY <3>1, <3>2, <2>0 DEF IdsApart
    <3> QED BY <3>1, <3>2, <3>3 DEF Vector
  <2> QED BY <2>1, <2>2
<1> QED BY <1>1, Invariant, PTL

(* A server keeps the vector of every chunk that is marked as embedded: requests     *)
(* that fail half way, ids that are deleted while a run stores others, crashes and *)
(* purges that stop do not lose one.                                          *)
THEOREM FlagsDurable == Spec => [](Scopes => FlagsAreDurable)
<1>1. Inv => (Scopes => FlagsAreDurable)
  BY DEF Inv, Scopes, ServerKeeps, FlagsAreDurable, Live
<1> QED BY <1>1, Invariant, PTL

(* brute_force never has a part of a store under the name it loads, however many    *)
(* callers save and wherever the process dies; every variable has its type.      *)
THEOREM DiskAlwaysWhole == Spec => []DiskIsWhole
<1>1. ASSUME Inv PROVE DiskIsWhole
  <2>0. Typed /\ DbTyped /\ StoreTyped /\ FilesTyped /\ ProcessTyped
    BY <1>1 DEF Inv, Typed
  <2>1. \A p \in Projects : flagged[p] \subseteq chunks[p] /\ run[p].left \subseteq run[p].batch
    BY <1>1 DEF Inv, Local, RunRight
  <2>2. \A h \in Projects \cup {Server} : dead[h] \subseteq Stored(h)
    BY <1>1 DEF Inv, Local, LabelsRight, LabelsOf, Stored
  <2>3. Is("brute_force") => \A p \in Projects : disk[p].state # "partial"
    BY <1>1 DEF Inv, Local, FilesWhole
  <2>4. \A p \in Projects : /\ disk[p].state \in {"none", "partial", "whole"}
                            /\ tmp[p].state \in {"none", "partial", "whole"}
    BY <2>0 DEF FilesTyped, FileType
  <2>5. ASSUME NEW p \in Projects, NEW s \in Savers
        PROVE  saver[p][s].pc \in {"idle", "writing", "written"}
    <3>1. saver[p] \in [Savers -> SaverType]
      BY <2>0 DEF FilesTyped
    <3> QED BY <3>1 DEF SaverType
  <2>6. \A p \in Projects : /\ run[p].pc \in {"idle", "upsert", "mark"}
                            /\ stale[p] \subseteq Ids
                            /\ purge[p] \in {"none", "metadata", "vectors", "database", "files"}
    BY <2>0 DEF ProcessTyped, RunType
  <2>7. TypeOK
    BY <2>0, <2>1, <2>2, <2>4, <2>5, <2>6
       DEF TypeOK, DbTyped, StoreTyped, ProcessTyped, Places, Held
  <2> QED BY <2>3, <2>7 DEF DiskIsWhole
<1> QED BY <1>1, Invariant, PTL

------------------------------------------------------------------------------
(* The stores implement the contract *)

(* The contract's variables for a project. *)
LeftOf(p) == IF run[p].pc = "upsert" THEN run[p].left ELSE {}
KeptOf(p) ==
  IF ~InProcess THEN Content(p)
  ELSE IF disk[p].state = "whole"
    THEN {i \in Ids : disk[p].points[i] # NoVector} \ disk[p].dead ELSE {}

(* The actions of the contract, for one project. *)
Begins(p)  == Content(p)' = Content(p) /\ LeftOf(p) = {} /\ KeptOf(p)' = KeptOf(p)
Saves(p)   == Content(p)' = Content(p) /\ LeftOf(p)' = LeftOf(p)
Stores(p, S) ==
  /\ S \subseteq LeftOf(p) /\ LeftOf(p)' = LeftOf(p) \ S
  /\ Content(p)' = Content(p) \cup S /\ KeptOf(p)' \in {KeptOf(p), Content(p)'}
Removes(p) ==
  /\ Content(p)' \subseteq Content(p) /\ LeftOf(p)' = LeftOf(p)
  /\ KeptOf(p)' \in {KeptOf(p), Content(p)'}
Halts(p) ==
  LeftOf(p)' = {} /\ Content(p)' \in {{}, Content(p)} /\ KeptOf(p)' = KeptOf(p)
Reloads(p) ==
  LeftOf(p)' = {} /\ Content(p)' = KeptOf(p) /\ KeptOf(p)' = KeptOf(p)
Keeps(p) ==
  \/ Begins(p) \/ Saves(p) \/ Removes(p) \/ Halts(p) \/ Reloads(p)
  \/ \E S : Stores(p, S)

(* They are sets of ids. *)
LEMMA ContentIsOfIds ==
  ASSUME NEW p \in Projects, Inv
  PROVE  /\ Content(p) \in SUBSET Ids /\ KeptOf(p) \in SUBSET Ids
         /\ LeftOf(p) = run[p].left /\ LeftOf(p) \in SUBSET Ids
<1>1. Content(p) \in SUBSET Ids /\ KeptOf(p) \in SUBSET Ids
  BY DEF Content, Live, Stored, KeptOf
<1>2. LeftOf(p) = run[p].left
  BY DEF Inv, Local, RunRight, LeftOf
<1>3. run[p].left \in SUBSET Ids
  BY DEF Inv, Typed, ProcessTyped, RunType
<1> QED BY <1>1, <1>2, <1>3

(* What one project does shows in no other. *)
LEMMA OthersKeep ==
  ASSUME NEW p \in Projects, Step(p), Inv, Inv', Scopes, NEW q \in Projects \ {p}
  PROVE  Content(q)' = Content(q) /\ LeftOf(q)' = LeftOf(q) /\ KeptOf(q)' = KeptOf(q)
<1>0. /\ Untouched(q) /\ setup' = setup /\ setup \in Setups
      /\ dead[Server] = {} /\ dead'[Server] = {} /\ Local(p)
  BY OthersUntouched, SetupStays DEF Inv, Typed, DbTyped
<1>1. LeftOf(q)' = LeftOf(q)
  BY <1>0 DEF Untouched, LeftOf
<1>2. CASE InProcess
  <2>1. Home(q) = q /\ Home(q)' = q /\ InProcess'
    BY <1>0, <1>2 DEF Home, InProcess
  <2>2. Content(q)' = Content(q)
    BY <2>1, <1>0 DEF Content, Live, Stored, Untouched
  <2>3. disk'[q] = disk[q]
    BY <1>0 DEF Untouched
  <2>4. KeptOf(q)' = KeptOf(q)
    BY <2>1, <2>3, <1>2 DEF KeptOf
  <2> QED BY <2>2, <2>4, <1>1
<1>3. CASE ~InProcess
  <2>1. Home(q) = Server /\ Home(q)' = Server /\ ~InProcess' /\ Scoped /\ IdsApart
    BY <1>0, <1>3 DEF Home, InProcess, Scopes, Inv
  <2>2. Content(q) = {i \in Ids : points[Server][i] # NoVector /\ points[Server][i].of = q}
    BY <2>1, <1>0 DEF Content, Live, Stored
  <2>3. Content(q)' = {i \in Ids : points'[Server][i] # NoVector /\ points'[Server][i].of = q}
    BY <2>1, <1>0 DEF Content, Live, Stored
  <2>4. ASSUME NEW i \in Ids
        PROVE  (points[Server][i] # NoVector /\ points[Server][i].of = q)
                 <=> (points'[Server][i] # NoVector /\ points'[Server][i].of = q)
    <3>1. CASE points'[Server] = points[Server]
      BY <3>1
    <3>2. ASSUME NEW S \in SUBSET Ids, ServerStored(p, S), i \in S
          PROVE  /\ points'[Server][i].of = p
                 /\ ~(points[Server][i] # NoVector /\ points[Server][i].of = q)
      <4>1. points'[Server][i] = run[p].vector /\ run[p].vector.of = p /\ i \in Claims(p)
        BY <3>2, <1>0 DEF ServerStored, WithPut, Local, RunRight, Claims
      <4>2. i \notin Claims(q)
        BY <4>1, <2>1 DEF IdsApart
      <4> QED BY <4>1, <4>2 DEF Claims
    <3>3. ASSUME NEW S \in SUBSET Ids, ServerRemoved(p, S), i \in S
          PROVE  /\ points'[Server][i] = NoVector
                 /\ ~(points[Server][i] # NoVector /\ points[Server][i].of = q)
      <4>1. points'[Server][i] = NoVector /\ i \in Claims(p)
        BY <3>3 DEF ServerRemoved, WithPut
      <4>2. i \notin Claims(q)
        BY <4>1, <2>1 DEF IdsApart
      <4> QED BY <4>1, <4>2 DEF Claims
    <3>4. ASSUME NEW S \in SUBSET Ids, ServerStored(p, S) \/ ServerRemoved(p, S), i \notin S
          PROVE  points'[Server][i] = points[Server][i]
      BY <3>4 DEF ServerStored, ServerRemoved, WithPut
    <3> QED BY <3>1, <3>2, <3>3, <3>4, <2>1, ServerSteps
  <2>5. Content(q)' = Content(q)
    BY <2>2, <2>3, <2>4
  <2> QED BY <2>1, <2>5, <1>1, <1>3 DEF KeptOf
<1> QED BY <1>2, <1>3

(* A call removes what it is asked to, and nothing else. *)
LEMMA CallsRemove ==
  ASSUME NEW p \in Projects, Inv, NEW S, setup' = setup,
         UNCHANGED store \/ Remove(Home(p), S) \/ (HnswDelete(p, S) /\ InProcess)
  PROVE  Content(p)' \subseteq Content(p)
<1>0. StoreTyped /\ Home(p)' = Home(p) /\ Home(p) \in Places
  BY DEF Inv, Typed, Home, InProcess, Places
<1>1. CASE UNCHANGED store
  BY <1>0, <1>1 DEF store, Content, Live, Stored
<1>2. CASE Remove(Home(p), S)
  <2>1. /\ points'[Home(p)] = WithPut(points[Home(p)], S, NoVector)
        /\ dead'[Home(p)] = dead[Home(p)]
    BY <1>0, <1>2 DEF Remove, WithPut, StoreTyped
  <2> QED BY <2>1, <1>0 DEF WithPut, Content, Live, Stored
<1>3. CASE HnswDelete(p, S) /\ InProcess
  <2>1. Home(p) = p /\ points' = points /\ dead[p] \subseteq dead'[p]
    BY <1>0, <1>3 DEF HnswDelete, Home, StoreTyped, Places
  <2> QED BY <2>1, <1>0 DEF Content, Live, Stored
<1> QED BY <1>1, <1>2, <1>3

(* What the calls of a project do to what it holds is what the contract lets it.  *)
LEMMA OwnKeeps ==
  ASSUME NEW p \in Projects, Step(p), Inv, Inv', Scopes
  PROVE  Keeps(p)
<1>0. /\ setup' = setup /\ setup \in Setups /\ Home(p)' = Home(p) /\ InProcess' = InProcess
      /\ Typed /\ StoreTyped /\ FilesTyped /\ ProcessTyped /\ Local(p) /\ Home(p) \in Places
      /\ LeftOf(p) = run[p].left /\ LeftOf(p)' = run'[p].left
  <2>1. setup' = setup
    BY SetupStays
  <2>2. LeftOf(p) = run[p].left /\ LeftOf(p)' = run'[p].left
    BY DEF Inv, Local, RunRight, LeftOf
  <2> QED BY <2>1, <2>2 DEF Inv, Typed, DbTyped, Home, InProcess, Places
<1>1. UNCHANGED store => Content(p)' = Content(p)
  BY <1>0 DEF store, Content, Live, Stored
<1>2. UNCHANGED disk => KeptOf(p)' \in {KeptOf(p), Content(p)'}
  BY <1>0 DEF KeptOf
<1>3. UNCHANGED <<disk, store>> => KeptOf(p)' = KeptOf(p)
  BY <1>0, <1>1 DEF KeptOf
<1>4. UNCHANGED run => LeftOf(p)' = LeftOf(p)
  BY <1>0
<1>5. UNCHANGED <<store, run>> => Saves(p)
  BY <1>1, <1>4 DEF Saves
<1>6. CASE Embed(p)
  <2>1. UNCHANGED <<disk, store>> /\ run[p].pc = "idle"
    BY <1>6 DEF Embed, files
  <2>2. LeftOf(p) = {}
    BY <2>1 DEF LeftOf
  <2> QED BY <2>1, <2>2, <1>1, <1>3 DEF Begins, Keeps
<1>7. CASE Upsert(p)
  <2>0. UNCHANGED disk
    BY <1>7 DEF Upsert, files
  <2>1. CASE UpsertFails(p)
    <3>1. LeftOf(p)' = {}
      BY <2>1, <1>0, Blanks DEF UpsertFails, ProcessTyped
    <3> QED BY <2>0, <2>1, <3>1, <1>1, <1>3 DEF UpsertFails, Halts, Keeps
  <2>2. ASSUME NEW S \in SUBSET run[p].left, Upserted(p, S)
        PROVE  Stores(p, S)
    <3>1. LeftOf(p)' = LeftOf(p) \ S /\ S \subseteq LeftOf(p) /\ S \subseteq Ids
      BY <2>2, <1>0, UpsertedRun DEF ProcessTyped, RunType
    <3>2. run[p].vector \in Vector /\ run[p].vector.of = p /\ run[p].vector # NoVector
      <4>1. run[p].vector = [of |-> p, epoch |-> epoch[p]]
        BY <1>0, <1>7 DEF Upsert, Local, RunRight
      <4>2. run[p].vector \in Vector
        BY <4>1, <1>0 DEF Vector, Typed, DbTyped
      <4> QED BY <4>1, <4>2, VectorAssumption DEF Vector
    <3>3. /\ points'[Home(p)] = WithPut(points[Home(p)], S, run[p].vector)
          /\ dead'[Home(p)] = dead[Home(p)] \ S
      BY <2>2, <1>0 DEF Upserted, Put, WithPut, StoreTyped
    <3>4. Content(p)' = {i \in Ids : /\ points'[Home(p)][i] # NoVector
                                     /\ i \notin dead'[Home(p)]
                                     /\ points'[Home(p)][i].of = p}
      BY <1>0 DEF Content, Live, Stored
    <3>5. Content(p) = {i \in Ids : /\ points[Home(p)][i] # NoVector
                                    /\ i \notin dead[Home(p)]
                                    /\ points[Home(p)][i].of = p}
      BY <1>0 DEF Content, Live, Stored
    <3>6. Content(p)' = Content(p) \cup S
      BY <3>1, <3>2, <3>3, <3>4, <3>5 DEF WithPut
    <3> QED BY <3>1, <3>6, <2>0, <1>2 DEF Stores
  <2> QED BY <2>1, <2>2, <1>7, Upserts DEF Keeps
<1>8. CASE Mark(p)
  <2>1. UNCHANGED store /\ LeftOf(p)' = {} /\ LeftOf(p) = {}
    BY <1>8, <1>0, Blanks DEF Mark, LeftOf, ProcessTyped
  <2> QED BY <2>1, <1>1 DEF Saves, Keeps
<1>9. ASSUME UNCHANGED <<disk, run>>,
             \E S : UNCHANGED store \/ Remove(Home(p), S) \/ (HnswDelete(p, S) /\ InProcess)
      PROVE  Keeps(p)
  BY <1>9, <1>0, <1>2, <1>4, CallsRemove DEF Removes, Keeps
<1>10. ASSUME NEW S, Remove(Server, S), ~InProcess
       PROVE  Remove(Home(p), S)
  BY <1>10 DEF Home
<1>11. CASE DeleteStale(p)
  <2>1. UNCHANGED <<disk, run>> /\ (UNCHANGED store \/ DeleteRequest(p, Window(stale[p])))
    BY <1>11 DEF DeleteStale, files
  <2>2. DeleteRequest(p, Window(stale[p])) =>
          \/ HnswDelete(p, Window(stale[p])) /\ InProcess
          \/ Remove(Home(p), Window(stale[p]))
    BY DEF DeleteRequest, Is, InProcess
  <2> QED BY <2>1, <2>2, <1>9
<1>12. ASSUME NEW D \in SUBSET chunks[p], NEW n \in 0..2, Replace(p, D, n)
       PROVE  Keeps(p)
  <2>1. UNCHANGED <<disk, run>> /\ (UNCHANGED store \/ (Remove(Server, D) /\ Is("pgvector")))
    BY <1>12 DEF Replace, CascadeToVectors, files
  <2> QED BY <2>1, <1>9, <1>10 DEF Is, InProcess
<1>13. CASE PurgeMetadata(p) \/ PurgeVectors(p)
  <2>1. UNCHANGED <<disk, run>>
    BY <1>13 DEF PurgeMetadata, PurgeVectors, PurgeStep
  <2>2. UNCHANGED store \/ \E S : Remove(Server, S) /\ ~InProcess
    BY <1>13 DEF PurgeMetadata, PurgeVectors, CascadeToVectors, PgvectorPurgeAll,
       QdrantPurgeAll, Is, InProcess
  <2> QED BY <2>1, <2>2, <1>9, <1>10
<1>14. CASE Crash(p)
  <2>1. LeftOf(p)' = {} /\ UNCHANGED disk
    BY <1>14, <1>0, Blanks DEF Crash, ProcessTyped
  <2>2. CASE InProcess
    <3>1. points'[p] = Empty /\ Home(p)' = p
      BY <1>14, <2>2, <1>0 DEF Crash, StoreTyped, Places, Home
    <3>2. Content(p)' = {}
      BY <3>1, Blanks DEF Content, Live, Stored
    <3>3. KeptOf(p)' = KeptOf(p)
      BY <2>1, <2>2, <1>0 DEF KeptOf
    <3> QED BY <2>1, <3>2, <3>3 DEF Halts, Keeps
  <2>3. CASE ~InProcess
    BY <2>1, <2>3, <1>14, <1>1, <1>3 DEF Crash, Halts, Keeps
  <2> QED BY <2>2, <2>3
<1>15. CASE Boot(p)
  <2>0. UNCHANGED <<disk, run>> /\ run[p] = IdleRun
    BY <1>15, <1>0 DEF Boot, files, Local, DownHoldsNothing
  <2>1. LeftOf(p)' = {}
    BY <2>0, <1>0, Blanks
  <2>2. CASE UNCHANGED store
    BY <2>0, <2>2, <1>5 DEF Keeps
  <2>3. CASE InProcess /\ disk[p].state = "whole" /\ Loaded(p)
    <3>1. points'[p] = disk[p].points /\ dead'[p] = disk[p].dead /\ Home(p)' = p
      BY <2>3, <1>0 DEF Loaded, StoreTyped, Places, Home
    <3>2. Mine(p, disk[p].points)
      BY <2>3, <1>0 DEF Local, FilesMine
    <3>3. Content(p)' = KeptOf(p)
      BY <3>1, <3>2, <2>3 DEF Content, Live, Stored, KeptOf, Mine
    <3>4. KeptOf(p)' = KeptOf(p)
      BY <2>0, <2>3, <1>0 DEF KeptOf
    <3> QED BY <2>1, <3>3, <3>4 DEF Reloads, Keeps
  <2>4. CASE InProcess /\ points' = [points EXCEPT ![p] = Empty]
    <3>1. points'[p] = Empty /\ Home(p)' = p
      BY <2>4, <1>0 DEF StoreTyped, Places, Home
    <3>2. Content(p)' = {}
      BY <3>1, Blanks DEF Content, Live, Stored
    <3>3. KeptOf(p)' = KeptOf(p)
      BY <2>0, <2>4, <1>0 DEF KeptOf
    <3> QED BY <2>1, <3>2, <3>3 DEF Halts, Keeps
  <2> QED BY <2>2, <2>3, <2>4, <1>15, BootLoads
<1>16. ASSUME NEW s \in Savers, Save(p, s)
       PROVE  Keeps(p)
  <2>1. UNCHANGED <<store, run>>
    BY <1>16, SaveSteps DEF Save, BruteForceCopy, BruteForceRename, HnswOpen, HnswWrite, HnswRename
  <2> QED BY <2>1, <1>5 DEF Keeps
<1>17. CASE BeginPurge(p) \/ PurgeDatabase(p) \/ PurgeVectorFiles(p) \/ PurgeStops(p)
  <2>1. UNCHANGED <<store, run>>
    BY <1>17 DEF BeginPurge, PurgeDatabase, PurgeVectorFiles, PurgeStops, PurgeStep
  <2> QED BY <2>1, <1>5 DEF Keeps
<1> QED BY <1>6, <1>7, <1>8, <1>11, <1>12, <1>13, <1>14, <1>15, <1>16, <1>17, Zenon DEF Step, Purge

(* The contract's step, project by project. *)
LEMMA KeepsIsNext ==
  ASSUME NEW p \in Projects, Keeps(p), Inv, Inv',
         \A q \in Projects \ {p} : /\ Content(q)' = Content(q) /\ LeftOf(q)' = LeftOf(q)
                                   /\ KeptOf(q)' = KeptOf(q)
  PROVE  VM!Next
<1>. DEFINE c == [q \in Projects |-> Content(q)]
            l == [q \in Projects |-> LeftOf(q)]
            k == [q \in Projects |-> KeptOf(q)]
<1>0. /\ Content(p) \in SUBSET Ids /\ KeptOf(p) \in SUBSET Ids /\ LeftOf(p) \in SUBSET Ids
      /\ Content(p)' \in SUBSET Ids /\ KeptOf(p)' \in SUBSET Ids /\ LeftOf(p)' \in SUBSET Ids
  <2>1. LeftOf(p)' = run'[p].left /\ run'[p].left \in SUBSET Ids
    BY DEF Inv, Local, RunRight, LeftOf, Typed, ProcessTyped, RunType
  <2> QED BY <2>1, ContentIsOfIds DEF Content, Live, Stored, KeptOf
<1>1. c' = [c EXCEPT ![p] = Content(p)'] /\ c[p] = Content(p) /\ c'[p] = Content(p)'
  OBVIOUS
<1>2. l' = [l EXCEPT ![p] = LeftOf(p)'] /\ l[p] = LeftOf(p)
  OBVIOUS
<1>3. k' = [k EXCEPT ![p] = KeptOf(p)'] /\ k[p] = KeptOf(p) /\ k'[p] = KeptOf(p)'
      /\ \A q \in Projects \ {p} : k'[q] = k[q]
  OBVIOUS
<1>4. /\ Content(p)' = Content(p) => c' = c
      /\ LeftOf(p)' = LeftOf(p) => l' = l
      /\ KeptOf(p)' = KeptOf(p) => k' = k
  OBVIOUS
<1>5. /\ \A S : VM!Begin(p, S) <=> (l[p] = {} /\ l' = [l EXCEPT ![p] = S] /\ c' = c /\ k' = k)
      /\ \A S : VM!Save(p, S) <=> (k' = [k EXCEPT ![p] = S] /\ c' = c /\ l' = l)
  BY Zenon DEF VM!Begin, VM!Save, LeftOf, KeptOf
<1>6. /\ \A S : VM!Store(p, S) <=> /\ S \subseteq l[p] /\ c' = [c EXCEPT ![p] = c[p] \cup S]
                                  /\ l' = [l EXCEPT ![p] = l[p] \ S]
      /\ \A S : VM!Remove(p, S) <=> (c' = [c EXCEPT ![p] = c[p] \ S] /\ l' = l)
  BY Zenon DEF VM!Store, VM!Remove, LeftOf
<1>7. VM!KeepsOrNot(p) <=> k'[p] \in {k[p], c'[p]} /\ \A q \in Projects \ {p} : k'[q] = k[q]
  BY Zenon DEF VM!KeepsOrNot, KeptOf
<1>8. /\ \A S : VM!Halt(p, S) <=> /\ l' = [l EXCEPT ![p] = {}] /\ c' = [c EXCEPT ![p] = S]
                                 /\ S \in {{}, c[p]} /\ k' = k
      /\ VM!Reload(p) <=> (c' = [c EXCEPT ![p] = k[p]] /\ l' = [l EXCEPT ![p] = {}] /\ k' = k)
  BY Zenon DEF VM!Halt, VM!Reload, LeftOf, KeptOf
<1>. HIDE DEF c, l, k
<1>9. CASE Begins(p)
  <2>0. PICK S \in SUBSET Ids : S = LeftOf(p)'
    BY <1>0
  <2>1. VM!Begin(p, S)
    BY <2>0, <1>9, <1>1, <1>2, <1>3, <1>4, <1>5 DEF Begins
  <2> QED BY <2>1, Zenon DEF VM!Next
<1>10. CASE Saves(p)
  <2>0. PICK S \in SUBSET Ids : S = KeptOf(p)'
    BY <1>0
  <2>1. VM!Save(p, S)
    BY <2>0, <1>10, <1>1, <1>2, <1>3, <1>4, <1>5 DEF Saves
  <2> QED BY <2>1, Zenon DEF VM!Next
<1>11. ASSUME NEW S, Stores(p, S) PROVE VM!Next
  <2>1. S \in SUBSET Ids
    BY <1>0, <1>11 DEF Stores
  <2>2. VM!Store(p, S)
    <3>1. S \subseteq l[p] /\ c' = [c EXCEPT ![p] = c[p] \cup S] /\ l' = [l EXCEPT ![p] = l[p] \ S]
      BY <1>11, <1>1, <1>2 DEF Stores
    <3> QED BY <3>1, <1>6, Zenon
  <2>3. VM!KeepsOrNot(p)
    BY <1>11, <1>1, <1>3, <1>7 DEF Stores
  <2> QED BY <2>1, <2>2, <2>3, Zenon DEF VM!Next
<1>12. CASE Removes(p)
  <2>1. PICK S \in SUBSET Ids : Content(p) \ S = Content(p)'
    <3>1. /\ Content(p) \ Content(p)' \in SUBSET Ids
          /\ Content(p) \ (Content(p) \ Content(p)') = Content(p)'
      BY <1>0, <1>12 DEF Removes
    <3> QED BY <3>1
  <2>2. VM!Remove(p, S)
    BY <1>12, <2>1, <1>1, <1>4, <1>6 DEF Removes
  <2>3. VM!KeepsOrNot(p)
    BY <1>12, <1>1, <1>3, <1>7 DEF Removes
  <2> QED BY <2>2, <2>3, Zenon DEF VM!Next
<1>13. CASE Halts(p)
  <2>2. Content(p)' = {} \/ Content(p)' = Content(p)
    BY <1>13 DEF Halts
  <2>3. CASE Content(p)' = {}
    <3>1. VM!Halt(p, {})
      BY <2>3, <1>13, <1>1, <1>2, <1>4, <1>8 DEF Halts
    <3> QED BY <3>1, Zenon DEF VM!Next
  <2>4. CASE Content(p)' = Content(p)
    <3>1. /\ l' = [l EXCEPT ![p] = {}] /\ c' = [c EXCEPT ![p] = c[p]]
          /\ c[p] \in {{}, c[p]} /\ k' = k
      BY <2>4, <1>13, <1>1, <1>2, <1>4 DEF Halts
    <3>2. VM!Halt(p, c[p])
      BY <3>1, Zenon DEF VM!Halt, c, l, k, LeftOf, KeptOf
    <3> QED BY <3>2, Zenon DEF VM!Next, VM!Halt, c
  <2> QED BY <2>2, <2>3, <2>4
<1>14. CASE Reloads(p)
  <2>1. VM!Reload(p)
    BY <1>14, <1>1, <1>2, <1>3, <1>4, <1>8 DEF Reloads
  <2> QED BY <2>1, Zenon DEF VM!Next
<1> QED BY <1>9, <1>10, <1>11, <1>12, <1>13, <1>14 DEF Keeps

(* The four stores implement VectorMap: for every project, whatever the others do    *)
(* on the same server, its vectors are those it stored and has not removed, a       *)
(* failed request stores some of its ids and no other, a restart reads what was    *)
(* kept, and nothing that one project does shows in another.                     *)
THEOREM ContractImplemented == Spec => (Scopes => Contract)
<1>1. Init /\ Scopes => VM!Init
  <2>. SUFFICES ASSUME Init PROVE VM!Init
    OBVIOUS
  <2>1. /\ \A p \in Projects : disk[p] = NoFile /\ run[p] = IdleRun
        /\ \A h \in Projects \cup {Server} : points[h] = Empty
    BY DEF Init
  <2>2. \A p \in Projects : Content(p) = {}
    BY <2>1, Blanks DEF Content, Live, Stored, Home
  <2>3. \A p \in Projects : LeftOf(p) = {} /\ KeptOf(p) = {}
    BY <2>1, <2>2, Blanks DEF LeftOf, KeptOf
  <2>4. /\ [p \in Projects |-> Content(p)] = [p \in Projects |-> {}]
        /\ [p \in Projects |-> LeftOf(p)] = [p \in Projects |-> {}]
        /\ [p \in Projects |-> KeptOf(p)] = [p \in Projects |-> {}]
    BY <2>2, <2>3
  <2> QED BY <2>4, Zenon DEF VM!Init, LeftOf, KeptOf
<1>2. Inv /\ Inv' /\ Scopes /\ [Next]_vars => [VM!Next]_(VM!vars)
  <2>1. ASSUME Inv, Inv', Scopes, NEW p \in Projects, Step(p)
        PROVE  VM!Next
    BY <2>1, OthersKeep, OwnKeeps, KeepsIsNext
  <2>2. CASE UNCHANGED vars
    BY <2>2 DEF vars, VM!vars, Content, Live, Stored, Home, InProcess
  <2> QED BY <2>1, <2>2 DEF Next
<1>3. Scopes /\ [Next]_vars => Scopes'
  <2>1. ASSUME [Next]_vars PROVE setup' = setup
    BY <2>1, SetupStays DEF Next, vars
  <2> QED BY <2>1 DEF Scopes, InProcess, Scoped
<1> QED
  BY Invariant, <1>1, <1>2, <1>3, PTL DEF Spec, Contract, VM!Spec
=============================================================================
