---------------------------- MODULE VectorStores ----------------------------
(***************************************************************************)
(* The four vector stores under the operations that change them, for the      *)
(* pairs of metadata and vector backend that ValidateBackendConfig admits.     *)
(*                                                                         *)
(*   brute_force, hnsw  one store and one file per project (SQLite only);      *)
(*   pgvector, qdrant   one table or collection that all projects share.       *)
(*                                                                         *)
(* A project's process embeds chunks (the "run"), replaces chunks (the          *)
(* "writer") and saves its store; it can crash and start again.  While it is    *)
(* down "shaktiman reindex" can purge the project (backends/purge.go).         *)
(* A vector is known by the project and the generation of the database whose    *)
(* chunk it was computed from: ids restart when the SQLite file is removed.     *)
(***************************************************************************)
EXTENDS Naturals, FiniteSets, FiniteSetsExt

CONSTANTS
  Projects, Server,  \* the places that hold vectors
  Setups,            \* the setups that are run: [db, vec, projects, ids]
  MaxId,             \* bound: chunk ids are 1..MaxId; 1..setup.ids are used
  MaxEpoch,          \* bound: how often a database file is removed
  Savers,            \* the callers of SaveToDisk
  BatchLimit,        \* maxBatchSize, the points of one request to a server
  Faults,            \* a subset of {"request", "unavailable", "crash", "purgeStops"}
  NoVector

Backends == {"brute_force", "hnsw", "pgvector", "qdrant"}

(* ValidateBackendConfig *)
Valid(db, vec) ==
  /\ vec = "pgvector" => db = "postgres"
  /\ db = "postgres" => vec \in {"pgvector", "qdrant"}

ASSUME VectorAssumption ==
  /\ Server \notin Projects /\ MaxId \in Nat \ {0} /\ MaxEpoch \in Nat
  /\ BatchLimit \in Nat \ {0} /\ NoVector \notin [of : Projects, epoch : 0..MaxEpoch]
  /\ \A s \in Setups : /\ s.vec \in Backends /\ Valid(s.db, s.vec)
                       /\ s.db \in {"sqlite", "postgres"}
                       /\ s.projects \subseteq Projects /\ s.projects # {}
                       /\ s.ids \in 0..MaxId

VARIABLES
  setup,
  \* the metadata stores
  chunks, flagged, nextId, epoch,
  \* the vectors: points of a place, and the labels that hnsw has soft-deleted
  points, dead,
  \* the files: the store's file, hnsw's temporary file, and the savers
  disk, tmp, saver,
  \* the processes: is it up, RunFromDB, the writer's vectorDeleter, the purge
  up, run, stale, purge,
  torn       \* history: a purge has removed the database file and not the vectors'

vars == <<setup, chunks, flagged, nextId, epoch, points, dead, disk, tmp, saver,
          up, run, stale, purge, torn>>
db    == <<chunks, flagged, nextId, epoch>>
store == <<points, dead>>
files == <<disk, tmp, saver>>

Ids    == 1..MaxId
Vector == [of : Projects, epoch : 0..MaxEpoch]

Is(vec)   == setup.vec = vec
InProcess == setup.vec \in {"brute_force", "hnsw"}
Active    == setup.projects
Home(p)   == IF InProcess THEN p ELSE Server

(* StoreConfigFrom: only the PostgreSQL store has a ProjectID. *)
Scoped == setup.db = "postgres"

Stored(h) == {i \in Ids : points[h][i] # NoVector}
Live(h)   == Stored(h) \ dead[h]

(* Has is by id, whatever the project; hnsw finds no data under a deleted label. *)
Has(p, i) == i \in Live(Home(p))

(* Search(topK): the ids that its answer is taken from.  hnsw clamps topK to the  *)
(* number of labels, deleted ones included, and answers nothing when fewer are    *)
(* live; pgvector filters by project_id, qdrant when it has one.               *)
BruteForceSearch(p) == Live(p)

HnswSearch(p, topK) ==
  LET k == Min({topK, Cardinality(Stored(p))}) IN
  IF k > Cardinality(Live(p)) THEN {} ELSE Live(p)

PgvectorSearch(p) == {i \in Live(Server) : points[Server][i].of = p}

QdrantSearch(p) == {i \in Live(Server) : Scoped => points[Server][i].of = p}

Search(p, topK) ==
  CASE Is("brute_force") -> BruteForceSearch(p)
    [] Is("hnsw")        -> HnswSearch(p, topK)
    [] Is("pgvector")    -> PgvectorSearch(p)
    [] Is("qdrant")      -> QdrantSearch(p)

Empty    == [i \in Ids |-> NoVector]
NoFile   == [state |-> "none", points |-> Empty, dead |-> {}]
Partial  == [NoFile EXCEPT !.state = "partial"]
Image(h) == [state |-> "whole", points |-> points[h], dead |-> dead[h]]

IdleRun   == [pc |-> "idle", batch |-> {}, left |-> {}, vector |-> NoVector]
IdleSaver == [s \in Savers |-> [pc |-> "idle", file |-> "tmp", copy |-> NoFile]]

Init ==
  /\ setup \in Setups
  /\ chunks = [p \in Projects |-> {}] /\ flagged = chunks
  /\ nextId = [p \in Projects |-> 1] /\ epoch = [p \in Projects |-> 0]
  /\ points = [h \in Projects \cup {Server} |-> Empty]
  /\ dead = [h \in Projects \cup {Server} |-> {}]
  /\ disk = [p \in Projects |-> NoFile] /\ tmp = disk
  /\ saver = [p \in Projects |-> IdleSaver]
  /\ up = [p \in Projects |-> p \in setup.projects]
  /\ run = [p \in Projects |-> IdleRun] /\ stale = [p \in Projects |-> {}]
  /\ purge = [p \in Projects |-> "none"] /\ torn = [p \in Projects |-> FALSE]

------------------------------------------------------------------------------
(* The operations of the stores *)

Put(h, S, v) ==
  /\ points' = [points EXCEPT ![h] = [i \in Ids |-> IF i \in S THEN v ELSE @[i]]]
  /\ dead' = [dead EXCEPT ![h] = @ \ S]

Remove(h, S) ==
  /\ points' = [points EXCEPT ![h] = [i \in Ids |-> IF i \in S THEN NoVector ELSE @[i]]]
  /\ UNCHANGED dead

(* MarkDeleted keeps the point, and its error for an absent label is ignored.   *)
HnswDelete(p, S) ==
  /\ dead' = [dead EXCEPT ![p] = @ \cup (S \cap Stored(p))]
  /\ UNCHANGED points

(* ForEachBatch: a server is sent the next BatchLimit points, the others take   *)
(* the whole call.                                                           *)
Window(S) ==
  IF InProcess THEN S ELSE {i \in S : Cardinality({j \in S : j < i}) < BatchLimit}

------------------------------------------------------------------------------
(* RunFromDB: the batch is what Has does not find; UpsertBatch; Mark. *)

Embed(p) ==
  LET batch == chunks[p] \ flagged[p]
      need  == {i \in batch : ~Has(p, i)} IN
  /\ up[p] /\ run[p].pc = "idle" /\ batch # {}
  /\ run' = [run EXCEPT ![p] =
       [pc |-> IF need = {} THEN "mark" ELSE "upsert", batch |-> batch,
        left |-> need, vector |-> [of |-> p, epoch |-> epoch[p]]]]
  /\ UNCHANGED <<setup, db, store, files, up, stale, purge, torn>>

Upserted(p, window) ==
  /\ Put(Home(p), window, run[p].vector)
  /\ run' = [run EXCEPT ![p].left = @ \ window,
                        ![p].pc = IF run[p].left = window THEN "mark" ELSE "upsert"]

(* An error of UpsertBatch ends the run. *)
UpsertFails(p) == run' = [run EXCEPT ![p] = IdleRun] /\ UNCHANGED store

(* The dimensions are checked before anything is stored: all or nothing. *)
BruteForceUpsert(p) == Is("brute_force") /\ Upserted(p, run[p].left)

(* AddPoints makes a deleted label live again; the index grows as needed. *)
HnswUpsert(p) == Is("hnsw") /\ Upserted(p, run[p].left)

(* embeddings.chunk_id REFERENCES chunks(id) ON DELETE CASCADE: the vector of a  *)
(* chunk that has been deleted since is refused, and the request with it.       *)
Refused(p, S) == ~(S \subseteq chunks[p])

(* Mutant: an error of a request is not returned, and the next one is sent. *)
PgvectorUpsertGoesOn(p) ==
  LET window == Window(run[p].left) IN
  /\ Is("pgvector")
  /\ \/ ~Refused(p, window) /\ Upserted(p, window)
     \/ /\ run' = [run EXCEPT ![p].left = @ \ window,
                              ![p].pc = IF run[p].left = window THEN "mark" ELSE "upsert"]
        /\ UNCHANGED store

(* One batch of INSERTs, in one implicit transaction. *)
PgvectorUpsert(p) ==
  LET window == Window(run[p].left) IN
  /\ Is("pgvector")
  /\ \/ ~Refused(p, window) /\ Upserted(p, window)
     \/ (Refused(p, window) \/ "request" \in Faults) /\ UpsertFails(p)

(* Mutant: every request carries all the points that are left. *)
QdrantUpsertSendsAll(p) ==
  LET window == Window(run[p].left) IN
  /\ Is("qdrant")
  /\ Put(Server, run[p].left, run[p].vector)
  /\ run' = [run EXCEPT ![p].left = @ \ window,
                        ![p].pc = IF run[p].left = window THEN "mark" ELSE "upsert"]

(* One PUT of points, which waits until they are stored. *)
QdrantUpsert(p) ==
  /\ Is("qdrant")
  /\ \/ Upserted(p, Window(run[p].left))
     \/ "request" \in Faults /\ UpsertFails(p)

Upsert(p) ==
  /\ up[p] /\ run[p].pc = "upsert"
  /\ BruteForceUpsert(p) \/ HnswUpsert(p) \/ PgvectorUpsert(p) \/ QdrantUpsert(p)
  /\ UNCHANGED <<setup, db, files, up, stale, purge, torn>>

(* MarkChunksEmbedded: an UPDATE, nothing for a chunk that is gone. *)
Mark(p) ==
  /\ up[p] /\ run[p].pc = "mark"
  /\ flagged' = [flagged EXCEPT ![p] = @ \cup (run[p].batch \cap chunks[p])]
  /\ run' = [run EXCEPT ![p] = IdleRun]
  /\ UNCHANGED <<setup, chunks, nextId, epoch, store, files, up, stale, purge, torn>>

------------------------------------------------------------------------------
(* The writer: the chunks D of the project are replaced by n new ones.  The     *)
(* ids are AUTOINCREMENT of a project's own SQLite file, or one sequence of    *)
(* the PostgreSQL database.                                                  *)

FreshIds(p, n) == nextId[p]..(nextId[p] + n - 1)

CascadeToVectors(S) ==
  IF Is("pgvector") THEN Remove(Server, S) ELSE UNCHANGED store

Replace(p, D, n) ==
  /\ up[p] /\ stale[p] = {} /\ D \subseteq chunks[p]
  /\ nextId[p] + n <= setup.ids + 1
  /\ chunks' = [chunks EXCEPT ![p] = (@ \ D) \cup FreshIds(p, n)]
  /\ flagged' = [flagged EXCEPT ![p] = @ \ D]
  /\ nextId' = [q \in Projects |-> IF q = p \/ Scoped THEN nextId[p] + n ELSE nextId[q]]
  /\ stale' = [stale EXCEPT ![p] = flagged[p] \cap D]
  /\ CascadeToVectors(D)
  /\ UNCHANGED <<setup, epoch, files, up, run, purge, torn>>

DeleteRequest(p, S) ==
  CASE Is("hnsw") -> HnswDelete(p, S)
    [] OTHER      -> Remove(Home(p), S)

(* One request of vectorDeleter.Delete, by id; an error is logged only. *)
DeleteStale(p) ==
  LET window == Window(stale[p]) IN
  /\ up[p] /\ stale[p] # {}
  /\ \/ DeleteRequest(p, window) /\ stale' = [stale EXCEPT ![p] = @ \ window]
     \/ /\ "request" \in Faults /\ ~InProcess
        /\ stale' = [stale EXCEPT ![p] = {}] /\ UNCHANGED store
  /\ UNCHANGED <<setup, db, files, up, run, purge, torn>>

------------------------------------------------------------------------------
(* SaveToDisk *)

MaySave(p, s) ==
  /\ up[p] /\ saver[p][s].pc = "idle"
  /\ Stored(p) # {}

Saver(p, s, pc, file, copy) ==
  saver' = [saver EXCEPT ![p][s] = [pc |-> pc, file |-> file, copy |-> copy]]

(* brute_force copies the store under its lock, and writes a file of its own. *)
BruteForceCopy(p, s) ==
  /\ Is("brute_force") /\ MaySave(p, s)
  /\ Saver(p, s, "written", "own", Image(p))
  /\ UNCHANGED <<setup, db, store, disk, tmp, up, run, stale, purge, torn>>

(* Mutant: brute_force writes into a temporary file with a fixed name. *)
BruteForceRenameFixedTemp(p, s) ==
  /\ Is("brute_force") /\ up[p] /\ saver[p][s].pc = "written"
  /\ disk' = [disk EXCEPT ![p] = IF \E t \in Savers \ {s} : saver[p][t].pc # "idle"
                                   THEN Partial ELSE saver[p][s].copy]
  /\ Saver(p, s, "idle", "tmp", NoFile)
  /\ UNCHANGED <<setup, db, store, tmp, up, run, stale, purge, torn>>

BruteForceRename(p, s) ==
  /\ Is("brute_force") /\ up[p] /\ saver[p][s].pc = "written"
  /\ disk' = [disk EXCEPT ![p] = saver[p][s].copy]
  /\ Saver(p, s, "idle", "tmp", NoFile)
  /\ UNCHANGED <<setup, db, store, tmp, up, run, stale, purge, torn>>

(* hnsw writes the index to path.tmp, whoever saves. *)
HnswOpen(p, s) ==
  /\ Is("hnsw") /\ MaySave(p, s)
  /\ tmp' = [tmp EXCEPT ![p] = Partial]
  /\ Saver(p, s, "writing", "tmp", NoFile)
  /\ UNCHANGED <<setup, db, store, disk, up, run, stale, purge, torn>>

(* A file is whole when nobody is writing it any more. *)
HnswWrite(p, s) ==
  LET file  == saver[p][s].file
      other == \E t \in Savers \ {s} : saver[p][t].pc = "writing" /\ saver[p][t].file = file
      image == IF other THEN Partial ELSE Image(p) IN
  /\ Is("hnsw") /\ up[p] /\ saver[p][s].pc = "writing"
  /\ IF file = "tmp" THEN tmp' = [tmp EXCEPT ![p] = image] /\ UNCHANGED disk
                     ELSE disk' = [disk EXCEPT ![p] = image] /\ UNCHANGED tmp
  /\ Saver(p, s, "written", file, NoFile)
  /\ UNCHANGED <<setup, db, store, up, run, stale, purge, torn>>

(* os.Rename takes the file along with whoever is writing it. *)
HnswRename(p, s) ==
  /\ Is("hnsw") /\ up[p] /\ saver[p][s].pc = "written"
  /\ disk' = IF tmp[p] = NoFile THEN disk ELSE [disk EXCEPT ![p] = tmp[p]]
  /\ tmp' = [tmp EXCEPT ![p] = NoFile]
  /\ saver' = [saver EXCEPT ![p] = [t \in Savers |->
                 IF t = s THEN IdleSaver[s] ELSE [@[t] EXCEPT !.file = "path"]]]
  /\ UNCHANGED <<setup, db, store, up, run, stale, purge, torn>>

Save(p, s) ==
  \/ BruteForceCopy(p, s) \/ BruteForceRename(p, s)
  \/ HnswOpen(p, s) \/ HnswWrite(p, s) \/ HnswRename(p, s)

------------------------------------------------------------------------------
(* The process *)

Crash(p) ==
  /\ "crash" \in Faults /\ up[p]
  /\ up' = [up EXCEPT ![p] = FALSE]
  /\ run' = [run EXCEPT ![p] = IdleRun] /\ stale' = [stale EXCEPT ![p] = {}]
  /\ saver' = [saver EXCEPT ![p] = IdleSaver]
  /\ IF InProcess
       THEN points' = [points EXCEPT ![p] = Empty] /\ dead' = [dead EXCEPT ![p] = {}]
       ELSE UNCHANGED store
  /\ UNCHANGED <<setup, db, disk, tmp, purge, torn>>

Loaded(p) ==
  /\ points' = [points EXCEPT ![p] = disk[p].points]
  /\ dead' = [dead EXCEPT ![p] = disk[p].dead]

(* Any error (magic, bounds, length, CRC) leaves the store as it was. *)
BruteForceLoad(p) ==
  Is("brute_force") /\ IF disk[p].state = "whole" THEN Loaded(p) ELSE UNCHANGED store

(* The index is freed first; one that cannot be loaded is replaced by an empty. *)
HnswLoad(p) ==
  /\ Is("hnsw")
  /\ CASE disk[p].state = "none"  -> UNCHANGED store
       [] disk[p].state = "whole" -> Loaded(p)
       [] OTHER -> /\ points' = [points EXCEPT ![p] = Empty]
                   /\ dead' = [dead EXCEPT ![p] = {}]

(* Daemon.New *)
Boot(p) ==
  /\ ~up[p] /\ p \in Active /\ purge[p] = "none"
  /\ up' = [up EXCEPT ![p] = TRUE]
  /\ \/ BruteForceLoad(p) \/ HnswLoad(p)
     \/ ~InProcess /\ UNCHANGED store
  /\ UNCHANGED <<setup, db, files, run, stale, purge, torn>>

------------------------------------------------------------------------------
(* shaktiman reindex: PurgeBackends (metadata, then vectors), then PurgeFiles   *)
(* (the SQLite file, then the files of the vectors).                          *)

PurgeStep(p, from, to) ==
  /\ purge[p] = from /\ purge' = [purge EXCEPT ![p] = to]
  /\ torn' = [torn EXCEPT ![p] = @ /\ to # "none"]
  /\ UNCHANGED <<setup, tmp, saver, up, run, stale>>

BeginPurge(p) ==
  /\ ~up[p] /\ p \in Active
  /\ PurgeStep(p, "none", "metadata")
  /\ UNCHANGED <<db, store, disk>>

(* StorePurger is the PostgreSQL store only. *)
PurgeMetadata(p) ==
  /\ PurgeStep(p, "metadata", "vectors")
  /\ IF setup.db = "postgres"
       THEN /\ chunks' = [chunks EXCEPT ![p] = {}] /\ flagged' = [flagged EXCEPT ![p] = {}]
            /\ CascadeToVectors(chunks[p])
       ELSE UNCHANGED <<chunks, flagged, store>>
  /\ UNCHANGED <<nextId, epoch, disk>>

PgvectorPurgeAll(p) == Is("pgvector") /\ Remove(Server, PgvectorSearch(p))

(* Without a project id the collection is dropped and created again. *)
QdrantPurgeAll(p) ==
  Is("qdrant") /\ Remove(Server, IF Scoped THEN QdrantSearch(p) ELSE Ids)

(* VectorPurger is pgvector and qdrant.  A vector store that could not be opened  *)
(* is nil, and is skipped.                                                    *)
PurgeVectors(p) ==
  /\ PurgeStep(p, "vectors", "database")
  /\ \/ PgvectorPurgeAll(p) \/ QdrantPurgeAll(p)
     \/ (InProcess \/ "unavailable" \in Faults) /\ UNCHANGED store
  /\ UNCHANGED <<db, disk>>

(* A new SQLite file starts at id 1 again. *)
PurgeDatabase(p) ==
  /\ setup.db = "sqlite" => epoch[p] < MaxEpoch
  /\ PurgeStep(p, "database", "files")
  /\ IF setup.db = "sqlite"
       THEN /\ chunks' = [chunks EXCEPT ![p] = {}] /\ flagged' = [flagged EXCEPT ![p] = {}]
            /\ nextId' = [nextId EXCEPT ![p] = 1] /\ epoch' = [epoch EXCEPT ![p] = @ + 1]
       ELSE UNCHANGED db
  /\ UNCHANGED <<store, disk>>

(* Mutant: only embeddings.bin is removed. *)
PurgeBinFileOnly(p) ==
  /\ PurgeStep(p, "files", "none")
  /\ disk' = IF Is("hnsw") THEN disk ELSE [disk EXCEPT ![p] = NoFile]
  /\ UNCHANGED <<db, store>>

(* Both names that a vector file can have. *)
PurgeVectorFiles(p) ==
  /\ PurgeStep(p, "files", "none")
  /\ disk' = [disk EXCEPT ![p] = NoFile]
  /\ UNCHANGED <<db, store>>

(* An error or a signal ends the command where it is. *)
PurgeStops(p) ==
  /\ "purgeStops" \in Faults
  /\ purge[p] # "none"
  /\ purge' = [purge EXCEPT ![p] = "none"]
  /\ torn' = [torn EXCEPT ![p] = @ \/ (purge[p] = "files" /\ setup.db = "sqlite")]
  /\ UNCHANGED <<setup, db, store, files, up, run, stale>>

Purge(p) ==
  \/ BeginPurge(p) \/ PurgeMetadata(p) \/ PurgeVectors(p)
  \/ PurgeDatabase(p) \/ PurgeVectorFiles(p) \/ PurgeStops(p)

Step(p) ==
  \/ Embed(p) \/ Upsert(p) \/ Mark(p)
  \/ \E D \in SUBSET chunks[p], n \in 0..2 : Replace(p, D, n)
  \/ DeleteStale(p)
  \/ \E s \in Savers : Save(p, s)
  \/ Crash(p) \/ Boot(p) \/ Purge(p)

Next == \E p \in Projects : Step(p)

Spec == Init /\ [][Next]_vars

------------------------------------------------------------------------------
(* Properties *)

Content(p) == {i \in Live(Home(p)) : points[Home(p)][i].of = p}

(* The types: flags and batches are of chunks, deletions of stored points. *)
TypeOK ==
  /\ setup \in Setups /\ chunks \in [Projects -> SUBSET Ids]
  /\ \A p \in Projects : flagged[p] \subseteq chunks[p]
  /\ nextId \in [Projects -> 1..(MaxId + 1)] /\ epoch \in [Projects -> 0..MaxEpoch]
  /\ points \in [Projects \cup {Server} -> [Ids -> Vector \cup {NoVector}]]
  /\ \A h \in Projects \cup {Server} : dead[h] \subseteq Stored(h)
  /\ \A p \in Projects : /\ disk[p].state \in {"none", "partial", "whole"}
                          /\ tmp[p].state \in {"none", "partial", "whole"}
                          /\ \A s \in Savers : saver[p][s].pc \in {"idle", "writing", "written"}
                          /\ run[p].pc \in {"idle", "upsert", "mark"}
                          /\ run[p].left \subseteq run[p].batch
                          /\ stale[p] \subseteq Ids
                          /\ purge[p] \in {"none", "metadata", "vectors", "database", "files"}
  /\ up \in [Projects -> BOOLEAN] /\ torn \in [Projects -> BOOLEAN]

(* What Search returns under the id of a chunk was computed from that chunk,    *)
(* and not from one of another project or of a database that is gone; a purge    *)
(* that stopped between the two files is the exception.                        *)
OwnVector ==
  \A p \in Projects, topK \in Ids : \A i \in chunks[p] \cap Search(p, topK) :
    torn[p] \/ points[Home(p)][i] = [of |-> p, epoch |-> epoch[p]]

(* A server keeps the vector of every chunk that is marked as embedded: through  *)
(* requests that fail half way, deletions beside the run, crashes and purges     *)
(* that stop at any step.                                                     *)
FlagsAreDurable ==
  ~InProcess => \A p \in Projects : flagged[p] \subseteq Live(Server)

(* brute_force: whoever saves beside it and wherever the process dies, the file  *)
(* is never a part of a store; every variable has its type.                    *)
DiskIsWhole ==
  /\ TypeOK
  /\ Is("brute_force") => \A p \in Projects : disk[p].state # "partial"

(* The stores implement the contract. *)
VM == INSTANCE VectorMap WITH
  content <- [p \in Projects |-> Content(p)],
  left    <- [p \in Projects |-> IF run[p].pc = "upsert" THEN run[p].left ELSE {}],
  kept    <- [p \in Projects |->
                IF ~InProcess THEN Content(p)
                ELSE IF disk[p].state = "whole"
                  THEN {i \in Ids : disk[p].points[i] # NoVector} \ disk[p].dead ELSE {}]

Contract == VM!Spec

------------------------------------------------------------------------------
(* What comments of the code say and the code does not do *)

(* hnsw/store.go:195 "persists the HNSW index using atomic rename": the file is   *)
(* a whole index.                                                             *)
RenameIsAtomic == \A p \in Projects : disk[p].state # "partial"

(* hnsw/store.go:170 "returns the number of stored vectors". *)
CountIsOfVectors == \A p \in Projects : InProcess => Stored(p) = Live(p)

(* hnsw/store.go:68 "returns the topK most similar vectors": it returns as many   *)
(* as there are, up to topK.                                                   *)
SearchFinds ==
  \A p \in Projects, topK \in Ids : InProcess /\ Live(p) # {} => Search(p, topK) # {}
=============================================================================
