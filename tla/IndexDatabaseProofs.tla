------------------------ MODULE IndexDatabaseProofs ------------------------
(***************************************************************************)
(* Proofs about IndexDatabase, for any files, names, contents and projects,    *)
(* any setups, any number of operations and of versions of the parser.        *)
(***************************************************************************)
EXTENDS IndexDatabase, FiniteSetTheorems, TLAPS

Phases    == {"down", "started", "cold", "indexed", "watching"}
Languages == {Language[f] : f \in Files}
Tasks     == [file : Files, content : Contents]
JobType   == [pc : {"idle", "delete", "insert", "symbols", "diff", "edges"},
              file : Files \cup {None}, content : Contents \cup {None},
              old : SUBSET Names, index : BOOLEAN]

RowsTyped ==
  /\ setup \in Setups
  /\ row \in [Files -> Contents \cup {None}]
  /\ chunk \in [Files -> [content : Contents, algo : Nat] \cup {None}]
  /\ torn \subseteq Files

GraphTyped ==
  /\ symbols \subseteq Symbols
  /\ edges \subseteq [src : Symbols, dst : Symbols, file : Files]
  /\ pending \subseteq [src : Symbols, name : Names, lang : Languages, file : Files]

TextTyped ==
  /\ logged \in [Files -> SUBSET Names] /\ orphans \in [Files -> SUBSET Names]
  /\ unlogged \subseteq Files
  /\ triggers \in BOOLEAN /\ found \subseteq Files /\ unseen \subseteq Files

DaemonsTyped ==
  /\ version \in [Projects \cup {Shared} -> Nat]
  /\ phase \in [Projects -> Phases] /\ algo \in [Projects -> Nat]
  /\ todo \in [Projects -> SUBSET Tasks] /\ job \in [Projects -> JobType]
  /\ bulk \in [Projects -> {"none", "open", "rebuilt"}]

Typed == RowsTyped /\ GraphTyped /\ TextTyped /\ DaemonsTyped

(* A daemon works only between its start's purge and its end, and on files of its   *)
(* own project.                                                              *)
DaemonHolds(p) ==
  /\ phase[p] \in {"down", "started"} => Idle(p) /\ todo[p] = {} /\ bulk[p] = "none"
  /\ p \notin Active => phase[p] = "down"
  /\ \A t \in todo[p] : t.file \in FilesOf(p)

(* What a job's transactions leave for the next one. *)
JobHolds(p) ==
  ~Idle(p) =>
    /\ job[p].file \in FilesOf(p) /\ job[p].content \in Contents
    /\ job[p].file \in torn /\ row[job[p].file] = job[p].content
    /\ job[p].pc = "insert" => chunk[job[p].file] = None
    /\ job[p].pc \in {"symbols", "diff", "edges"} => chunk[job[p].file] # None
    /\ job[p].pc \in {"insert", "symbols"} => OldSymbols(job[p].file) = {}
    /\ job[p].pc \in {"diff", "edges"} => OldSymbols(job[p].file) = Defs[job[p].content]

Works == \A p \in Projects : DaemonHolds(p) /\ JobHolds(p)

(* The foreign keys. *)
Keys ==
  /\ \A f \in Files : row[f] # None => f \in setup.files
  /\ \A f \in Files : row[f] = None => chunk[f] = None
  /\ \A s \in symbols : chunk[s[1]] # None
  /\ \A e \in edges : e.src \in symbols /\ e.dst \in symbols /\ e.file = e.src[1]
  /\ \A q \in pending : q.src \in symbols /\ q.file = q.src[1]

(* Edges and pending edges are in their source's language; a pending edge with a    *)
(* symbol that would settle it waits for a job of that symbol's file.            *)
Resolves ==
  /\ \A e \in edges : Language[e.src[1]] = Language[e.dst[1]]
  /\ \A q \in pending : q.lang = Language[q.src[1]]
  /\ \A q \in pending, s \in symbols :
       s[2] = q.name /\ Language[s[1]] = q.lang /\ ProjectOf[s[1]] = ProjectOf[q.file]
         => s[1] \in torn

(* Replayed, the diff log of f gives these names, and besides them only orphans. *)
Gives(f, names) == names \subseteq logged[f] /\ logged[f] \ names \subseteq orphans[f]

(* The diff log at each step of a job. *)
LogHolds(f) ==
  LET j == job[ProjectOf[f]] IN
  /\ j.pc = "idle" \/ j.file # f \/ j.pc \in {"delete", "edges"} => Gives(f, OldSymbols(f))
  /\ j.pc \in {"delete", "insert", "symbols", "diff"} /\ j.file = f => Gives(f, j.old)

Logs == \A f \in Files \ unlogged : LogHolds(f)

(* What is in the text index, and what is not. *)
Texts ==
  /\ found \subseteq Indexed /\ unseen \subseteq Indexed \ found
  /\ Postgres => found = Indexed
  /\ (\A p \in Projects : bulk[p] # "open") => Indexed \ found \subseteq unseen

AllParsedBy(p) == \A f \in FilesOf(p) : chunk[f] # None => chunk[f].algo = algo[p]

(* The recorded version is never ahead of the parser's, and when the two agree, or   *)
(* none is recorded, every chunk is of the parser's.                             *)
VersionHolds(p) ==
  /\ GetConfig(p) <= algo[p]
  /\ GetConfig(p) \in {0, algo[p]} \/ phase[p] \in {"cold", "indexed", "watching"}
       => AllParsedBy(p)

Versions == Alone => \A p \in Active : VersionHolds(p)

(* The setups in which an upgrade waits for the version to be recorded and a purge     *)
(* is not given up (README, Variations).                                        *)
Orderly == setup.faults \cap {"purge", "early"} = {}

(* Every use of a file that was written without an error has its edge, or waits, or   *)
(* lost its edge with its target.                                              *)
HasEdge(f, u) == \E e \in edges : e.src = <<f, u[1]>> /\ e.dst[2] = u[2]
Waits(f, u)   == \E q \in pending : q.src = <<f, u[1]>> /\ q.name = u[2]

UseHolds(f, u) ==
  \/ HasEdge(f, u)
  \/ Waits(f, u)
  \/ [src |-> <<f, u[1]>>, name |-> u[2]] \in cut

UsesHold == \A f \in Indexed \ torn : \A u \in Used(row[f]) : UseHolds(f, u)

USE DatabaseAssumption

------------------------------------------------------------------------------
(* Jobs: what a step does to the record of a process's job *)

(* No job is a job. *)
LEMMA NoJobTyped == NoJob \in JobType
  BY DEF NoJob, JobType

(* Then: a job moves on, the others do not. *)
LEMMA JobMoves ==
  ASSUME job \in [Projects -> JobType], NEW p \in Projects,
         NEW from, NEW to \in {"insert", "symbols", "diff", "edges"}, Then(p, from, to)
  PROVE  /\ job' \in [Projects -> JobType] /\ job[p].pc = from /\ job'[p].pc = to
         /\ job'[p].file = job[p].file /\ job'[p].content = job[p].content
         /\ job'[p].old = job[p].old /\ job'[p].index = job[p].index
         /\ \A q \in Projects \ {p} : job'[q] = job[q]
<1> DEFINE r == [job[p] EXCEPT !.pc = to]
<1>1. /\ job' = [job EXCEPT ![p] = r] /\ job[p].pc = from
  BY DEF Then
<1>2. job[p] \in JobType
  OBVIOUS
<1>3. /\ r \in JobType /\ r.pc = to /\ r.file = job[p].file /\ r.content = job[p].content
      /\ r.old = job[p].old /\ r.index = job[p].index
  BY <1>2 DEF JobType
<1> HIDE DEF r
<1> QED
  BY <1>1, <1>3

(* A job that ends or is given up is replaced by none. *)
LEMMA JobEnds ==
  ASSUME job \in [Projects -> JobType], NEW p \in Projects, job' = [job EXCEPT ![p] = NoJob]
  PROVE  /\ job' \in [Projects -> JobType] /\ job'[p] = NoJob
         /\ \A q \in Projects \ {p} : job'[q] = job[q]
<1> HIDE DEF NoJob
<1> QED
  BY NoJobTyped

(* UpsertFile: the job's first transaction. *)
LEMMA JobStarts ==
  ASSUME job \in [Projects -> JobType], NEW p \in Projects, NEW f \in Files,
         NEW c \in Contents, NEW i \in BOOLEAN, UpsertFile(p, f, c, i)
  PROVE  /\ job' \in [Projects -> JobType] /\ job'[p].pc = "delete" /\ job'[p].file = f
         /\ job'[p].content = c /\ job'[p].index = i
         /\ \/ job'[p].old = OldSymbols(f) /\ unlogged' = unlogged
            \/ unlogged' = unlogged \cup {f}
         /\ \A q \in Projects \ {p} : job'[q] = job[q]
<1>1. PICK old \in {OldSymbols(f), {}} :
        /\ \/ old = OldSymbols(f) /\ unlogged' = unlogged
           \/ unlogged' = unlogged \cup {f}
        /\ job' = [job EXCEPT ![p] = [pc |-> "delete", file |-> f, content |-> c,
                                      old |-> old, index |-> i]]
  BY Zenon DEF UpsertFile
<1> DEFINE r == [pc |-> "delete", file |-> f, content |-> c, old |-> old, index |-> i]
<1>2. old \in SUBSET Names
  BY DEF OldSymbols
<1>3. /\ r \in JobType /\ r.pc = "delete" /\ r.file = f /\ r.content = c
      /\ r.old = old /\ r.index = i
  BY <1>2 DEF JobType
<1>4. job' = [job EXCEPT ![p] = r]
  BY <1>1
<1> HIDE DEF r
<1> QED
  BY <1>1, <1>3, <1>4

------------------------------------------------------------------------------
(* Types *)

(* The sets of which the model's functions are made. *)
LEMMA Sets ==
  ASSUME NEW p \in Projects
  PROVE  /\ FilesOf(p) \subseteq Files /\ \A f \in FilesOf(p) : ProjectOf[f] = p
         /\ \A f \in Files : f \in FilesOf(ProjectOf[f]) /\ ProjectOf[f] \in Projects
         /\ ConfigOf(p) \in Projects \cup {Shared}
  BY DEF FilesOf, Projects, ConfigOf

(* The steps by what they write: the job's transactions, the deletion of a file, and    *)
(* the steps that write neither rows nor the graph.                              *)
Starts(p) == \E f \in FilesOf(p) \cap setup.files, c \in Contents, i \in BOOLEAN :
               UpsertFile(p, f, c, i) /\ UNCHANGED <<phase, algo, bulk, version>>
Deletes(p) == \E f \in FilesOf(p) :
                /\ row[f] # None /\ DeleteFileByPath(f)
                /\ UNCHANGED <<setup, phase, algo, todo, bulk, version, job>>
Others(p) == \/ JobFails(p) \/ BulkBegin(p) \/ NothingToIndex(p) \/ SkipFile(p) \/ BulkEnd(p)
             \/ BulkTriggers(p) \/ OnStartup(p) \/ VersionChecked(p) \/ RecordVersion(p)
             \/ Halt(p) \/ Upgrade(p)

(* The tasks and the phase of a process that begins a job or deletes a file. *)
StartsFor(p) ==
  \/ phase[p] = "watching" /\ UNCHANGED todo
  \/ \E t \in todo[p] : todo' = [todo EXCEPT ![p] = @ \ {t}]

(* A step of process p. *)
Step(p) ==
  \/ DeleteChunksByFile(p)
  \/ InsertChunks(p)
  \/ InsertSymbols(p)
  \/ RecordDiff(p)
  \/ WriteEdges(p)
  \/ (Starts(p) /\ StartsFor(p))
  \/ (Deletes(p) /\ phase[p] \in {"started", "watching"} /\ (phase[p] = "started" \/ Idle(p)))
  \/ Others(p)

(* The kinds of steps. *)
LEMMA Kinds ==
  ASSUME DaemonsTyped, Next
  PROVE  \E p \in Projects : Step(p)
<1>1. PICK p \in Projects :
        \/ DeleteChunksByFile(p) \/ InsertChunks(p) \/ InsertSymbols(p) \/ RecordDiff(p)
        \/ WriteEdges(p) \/ JobFails(p) \/ BulkBegin(p) \/ NothingToIndex(p) \/ IndexFile(p)
        \/ SkipFile(p) \/ BulkEnd(p) \/ BulkTriggers(p) \/ OnStartup(p) \/ PurgeFile(p)
        \/ VersionChecked(p) \/ RecordVersion(p) \/ WatchFile(p) \/ DeleteFile(p)
        \/ Halt(p) \/ Upgrade(p)
  BY DEF Next
<1>2. IndexFile(p) => Starts(p) /\ StartsFor(p)
  <2> SUFFICES ASSUME NEW t \in todo[p], UpsertFile(p, t.file, t.content, TRUE),
                      todo' = [todo EXCEPT ![p] = @ \ {t}],
                      UNCHANGED <<phase, algo, bulk, version, ops>>
               PROVE  Starts(p) /\ StartsFor(p)
    BY DEF IndexFile
  <2>1. t.content \in Contents /\ t.file \in FilesOf(p) \cap setup.files
    BY DEF DaemonsTyped, Tasks, UpsertFile
  <2>2. Starts(p)
    BY <2>1 DEF Starts
  <2> QED
    BY <2>2 DEF StartsFor
<1>3. WatchFile(p) => Starts(p) /\ StartsFor(p)
  <2> SUFFICES ASSUME phase[p] = "watching", NEW f \in Files, NEW c \in Contents,
                      UpsertFile(p, f, c, FALSE),
                      UNCHANGED <<phase, algo, todo, bulk, version>>
               PROVE  Starts(p) /\ StartsFor(p)
    BY DEF WatchFile
  <2>1. f \in FilesOf(p) \cap setup.files
    BY DEF UpsertFile
  <2> QED
    BY <2>1 DEF Starts, StartsFor
<1>4. PurgeFile(p) => Deletes(p) /\ phase[p] = "started"
  BY Zenon DEF PurgeFile, Deletes, daemon
<1>5. DeleteFile(p) => Deletes(p) /\ phase[p] = "watching" /\ Idle(p)
  BY Zenon DEF DeleteFile, Deletes
<1> QED
  BY <1>1, <1>2, <1>3, <1>4, <1>5, Zenon DEF Others, Step

(* A step that is none of the job's, and deletes no file, leaves rows and graph. *)
LEMMA OthersLeave ==
  ASSUME NEW p \in Projects, Others(p)
  PROVE  /\ UNCHANGED <<setup, row, chunk, graph, logged, orphans, torn>>
         /\ \/ UNCHANGED <<job, unlogged>>
            \/ GivenUp(p)
<1> USE DEF Others
<1>1. UNCHANGED <<setup, row, chunk, graph, logged, orphans, torn>>
  BY Zenon DEF JobFails, BulkBegin, NothingToIndex, SkipFile, BulkEnd, BulkTriggers,
     OnStartup, VersionChecked, RecordVersion, Halt, Upgrade, log
<1>2. (JobFails(p) \/ Halt(p)) => GivenUp(p)
  BY Zenon DEF JobFails, Halt
<1>3. ~(JobFails(p) \/ Halt(p)) => UNCHANGED <<job, unlogged>>
  BY Zenon DEF BulkBegin, NothingToIndex, SkipFile, BulkEnd, BulkTriggers,
     OnStartup, VersionChecked, RecordVersion, Upgrade, log
<1> QED
  BY <1>1, <1>2, <1>3

(* A cascade leaves fewer symbols, edges and pending edges. *)
LEMMA CascadeLess ==
  ASSUME NEW f, CascadeSymbols(f)
  PROVE  symbols' \subseteq symbols /\ edges' \subseteq edges /\ pending' \subseteq pending
  BY DEF CascadeSymbols

(* Every step keeps the types of the rows: a job that inserts chunks has a content. *)
LEMMA RowsTypedNext ==
  ASSUME Typed, Works, Next
  PROVE  RowsTyped'
<1> PICK p \in Projects : Step(p)
  BY Kinds DEF Typed
<1> USE DEF RowsTyped
<1> RowsTyped
  BY DEF Typed
<1>j. job[p] \in JobType /\ algo[p] \in Nat /\ FilesOf(p) \subseteq Files
  BY Sets DEF Typed, DaemonsTyped
<1>1. CASE DeleteChunksByFile(p)
  BY <1>1, <1>j DEF DeleteChunksByFile
<1>2. CASE InsertChunks(p)
  <2> DEFINE v == [content |-> job[p].content, algo |-> algo[p]]
             g == job[p].file
  <2>1. chunk' = [chunk EXCEPT ![g] = v] /\ UNCHANGED <<setup, row, torn>>
    BY <1>2 DEF InsertChunks
  <2>2. v \in [content : Contents, algo : Nat]
    BY <1>2, <1>j DEF InsertChunks, Then, Works, JobHolds, Idle
  <2> HIDE DEF v, g
  <2> QED
    BY <2>1, <2>2
<1>3. CASE InsertSymbols(p) \/ RecordDiff(p) \/ Others(p)
  <2>1. UNCHANGED <<setup, row, chunk, torn>>
    BY <1>3, OthersLeave, Zenon DEF InsertSymbols, RecordDiff
  <2> QED
    BY <2>1
<1>4. CASE WriteEdges(p)
  BY <1>4 DEF WriteEdges
<1>5. CASE Starts(p)
  BY <1>5, <1>j DEF Starts, UpsertFile
<1>6. CASE Deletes(p)
  BY <1>6, <1>j DEF Deletes, DeleteFileByPath
<1> QED
  BY <1>1, <1>2, <1>3, <1>4, <1>5, <1>6 DEF Step

(* The text index is written by the end of a bulk write and the halt in one.  At a      *)
(* start it is not: the counts that are compared are both those of the chunks.     *)
LEMMA OthersText ==
  ASSUME TextTyped, NEW p \in Projects, Others(p)
  PROVE  /\ triggers' \in BOOLEAN
         /\ \/ UNCHANGED <<found, unseen>> /\ (bulk[p] = "open" => Postgres \/ bulk' = bulk)
            \/ ~Postgres /\ bulk[p] = "open" /\ found' = Indexed /\ unseen' = {}
            \/ bulk[p] = "open" /\ found' = found /\ unseen' = Indexed \ found
            \/ bulk[p] = "open" /\ found' = found /\ unseen' = unseen \cup (Indexed \ found)
<1> USE DEF Others, TextTyped
<1>1. CASE \/ JobFails(p) \/ NothingToIndex(p) \/ SkipFile(p)
           \/ VersionChecked(p) \/ RecordVersion(p) \/ Upgrade(p)
  <2>1. UNCHANGED text /\ bulk' = bulk
    BY <1>1, Zenon DEF daemon, JobFails, NothingToIndex, SkipFile, VersionChecked, RecordVersion, Upgrade
  <2> QED
    BY <2>1 DEF text
<1>2. CASE BulkBegin(p)
  BY <1>2 DEF BulkBegin, DisableFTSTriggers
<1>3. CASE BulkEnd(p)
  BY <1>3 DEF BulkEnd, RebuildFTS
<1>4. CASE BulkTriggers(p)
  BY <1>4 DEF BulkTriggers, EnableFTSTriggers
<1>5. CASE OnStartup(p)
  BY <1>5 DEF OnStartup, EnableFTSTriggers, IsFTSStale, FtsCount
<1>6. CASE Halt(p)
  BY <1>6 DEF Halt
<1> QED
  BY <1>1, <1>2, <1>3, <1>4, <1>5, <1>6

(* Every step keeps the types of the diff log and of the text index. *)
LEMMA TextTypedNext ==
  ASSUME Typed, Works, Next
  PROVE  TextTyped'
<1> PICK p \in Projects : Step(p)
  BY Kinds DEF Typed
<1> USE DEF TextTyped
<1> TextTyped
  BY DEF Typed
<1>j. /\ job[p] \in JobType /\ FilesOf(p) \subseteq Files /\ RebuildFTS \subseteq Files
      /\ Indexed \subseteq Files
      /\ ~Idle(p) => job[p].file \in Files /\ job[p].content \in Contents
  BY Sets DEF Typed, DaemonsTyped, RebuildFTS, Indexed, Works, JobHolds
<1>1. CASE DeleteChunksByFile(p)
  BY <1>1 DEF DeleteChunksByFile, log
<1>2. CASE InsertChunks(p)
  <2>1. job[p].file \in Files
    BY <1>2, <1>j DEF InsertChunks, Then, Idle
  <2> QED
    BY <1>2, <2>1 DEF InsertChunks, log, PostgresIndexes, SqliteIndexes
<1>3. CASE InsertSymbols(p) \/ WriteEdges(p)
  <2>1. UNCHANGED <<log, text>>
    BY <1>3, Zenon DEF InsertSymbols, WriteEdges
  <2> QED
    BY <2>1 DEF log, text
<1>7. CASE Starts(p)
  <2>1. PICK f \in FilesOf(p), c \in Contents, i \in BOOLEAN : UpsertFile(p, f, c, i)
    BY <1>7 DEF Starts
  <2>2. UNCHANGED <<logged, orphans, text>>
    BY <2>1 DEF UpsertFile
  <2>3. unlogged' \in {unlogged, unlogged \cup {f}} /\ f \in Files
    BY <2>1, <1>j, JobStarts DEF Typed, DaemonsTyped
  <2> QED
    BY <2>2, <2>3 DEF text
<1>4. CASE RecordDiff(p)
  <2> DEFINE f == job[p].file
             l == (logged[f] \ Removed(job[p].old, job[p].content)) \cup Added(job[p].old, job[p].content)
             o == orphans[f] \cup (Parsed[job[p].content] \ Defs[job[p].content])
  <2>1. ~Idle(p)
    BY <1>4 DEF RecordDiff, Then, Idle
  <2>2. l \in SUBSET Names /\ o \in SUBSET Names /\ f \in Files
    BY <2>1, <1>j, DatabaseAssumption DEF Removed, Added
  <2>3. /\ UNCHANGED text
        /\ \/ /\ logged' = [logged EXCEPT ![f] = l] /\ orphans' = [orphans EXCEPT ![f] = o]
              /\ UNCHANGED unlogged
           \/ unlogged' = unlogged \cup {f} /\ UNCHANGED <<logged, orphans>>
    BY <1>4 DEF RecordDiff
  <2> HIDE DEF f, l, o
  <2> QED
    BY <2>2, <2>3 DEF text
<1>5. CASE Deletes(p)
  BY <1>5, <1>j DEF Deletes, DeleteFileByPath
<1>6. CASE Others(p)
  <2>1. triggers' \in BOOLEAN /\ found' \in {found, Indexed}
        /\ unseen' \in {unseen, {}, Indexed \ found, unseen \cup (Indexed \ found)}
    BY <1>6, OthersText
  <2>2. /\ UNCHANGED <<logged, orphans>> /\ unlogged' \in {unlogged, unlogged \cup {job[p].file}}
        /\ (Idle(p) => unlogged' = unlogged)
    BY <1>6, OthersLeave, Zenon DEF GivenUp, Idle
  <2> QED
    BY <2>1, <2>2, <1>j
<1> QED
  BY <1>1, <1>2, <1>3, <1>4, <1>5, <1>6, <1>7 DEF Step

------------------------------------------------------------------------------
(* The edges of a job *)

(* s is the symbol that a transaction of p finds for a name, or none. *)
Finds(p, s, n, lang) ==
  \/ s = None /\ Lookup(p, n, lang) = {}
  \/ s # None /\ s \in symbols /\ s[2] = n /\ Language[s[1]] = lang

(* The answers to a transaction's lookups: none, when there is no symbol to find. *)
LEMMA Picked ==
  ASSUME symbols \subseteq Symbols, NEW p, NEW asked, NEW pick \in Picks(p, asked),
         NEW n, NEW l, <<n, l>> \in asked
  PROVE  Finds(p, pick[<<n, l>>], n, l)
<1> DEFINE k == <<n, l>>
           s == pick[k]
<1>1. k[1] = n /\ k[2] = l
  OBVIOUS
<1>2. \/ Lookup(p, n, l) = {} /\ s = None
      \/ Lookup(p, n, l) # {} /\ s \in Lookup(p, n, l)
  BY <1>1 DEF Picks
<1>3. \A t \in Lookup(p, n, l) : t # None /\ t \in symbols /\ t[2] = n /\ Language[t[1]] = l
  BY DEF Lookup, SqliteLookup, PostgresLookup
<1> QED
  BY <1>2, <1>3 DEF Finds

(* The uses of a content, and the symbols that a job finds of its own file. *)
LEMMA UsesAndDefs ==
  ASSUME NEW c \in Contents, NEW f \in Files, OldSymbols(f) = Defs[c]
  PROVE  /\ Used(c) \subseteq Names \X Names /\ \A u \in Used(c) : u[1] \in Defs[c]
         /\ Defs[c] \subseteq Names /\ \A n \in Defs[c] : <<f, n>> \in symbols
         /\ \A n \in Names : <<f, n>> \in symbols => n \in Defs[c]
  BY DEF Used, OldSymbols

(* Target: no symbol, or one of the use's name and the file's language. *)
LEMMA TargetFound ==
  ASSUME GraphTyped, NEW p \in Projects, NEW c \in Contents, NEW f \in FilesOf(p),
         OldSymbols(f) = Defs[c], NEW asked, NEW pick \in Picks(p, asked),
         NEW u \in Used(c), <<u[2], Language[f]>> \in asked
  PROVE  /\ Target(f, c, u[2], pick) = None => u[2] \notin Defs[c]
         /\ Finds(p, Target(f, c, u[2], pick), u[2], Language[f])
<1>1. f \in Files
  BY Sets
<1>2. CASE u[2] \in Defs[c]
  <2>1. <<f, u[2]>> \in symbols /\ Target(f, c, u[2], pick) = <<f, u[2]>>
    BY <1>1, <1>2, UsesAndDefs DEF Target
  <2>2. <<f, u[2]>> # None
    BY <2>1 DEF GraphTyped
  <2> QED
    BY <2>1, <2>2, <1>1 DEF Finds
<1>3. CASE u[2] \notin Defs[c]
  <2>1. Target(f, c, u[2], pick) = pick[<<u[2], Language[f]>>]
    BY <1>3 DEF Target
  <2> QED
    BY <2>1, <1>3, Picked DEF GraphTyped, Finds
<1> QED
  BY <1>2, <1>3

(* An edge for one of the uses of f's content c; an edge for a use that waited.      *)
EdgeOfUse(e, f, c) ==
  /\ e \in [src : Symbols, dst : Symbols, file : Files] /\ e.file = f
  /\ e.dst \in symbols /\ Language[e.dst[1]] = Language[f]
  /\ \E u \in Used(c) : e.src = <<f, u[1]>> /\ e.dst[2] = u[2]

EdgeOfWaiting(e, q) ==
  /\ e \in [src : Symbols, dst : Symbols, file : Files]
  /\ e.src = q.src /\ e.file = q.file
  /\ e.dst \in symbols /\ e.dst[2] = q.name /\ Language[e.dst[1]] = q.lang

(* A use of f's content c that waits, because there is nothing of its project that       *)
(* would settle it.                                                            *)
WaitingUse(q, p, f, c) ==
  /\ q \in [src : Symbols, name : Names, lang : Languages, file : Files]
  /\ q.file = f /\ q.lang = Language[f] /\ q.name \notin Defs[c]
  /\ \E u \in Used(c) : q.src = <<f, u[1]>> /\ q.name = u[2]
  /\ Lookup(p, q.name, q.lang) = {}

(* What the last transaction of a job writes (WriteEdges): the edges of other files stay, *)
(* each new edge is of a use of the file or of one that waited, and each use of the   *)
(* file has an edge or waits; a pending edge leaves for an edge, and stays only     *)
(* when it has no name of the content or the lookup has no answer.               *)
LEMMA EdgesWritten ==
  ASSUME Typed, NEW p \in Projects, JobHolds(p), WriteEdges(p),
         NEW f, NEW c, f = job[p].file, c = job[p].content
  PROVE  /\ \A e \in edges : e.file # f => e \in edges'
         /\ \A e \in edges' : \/ e \in edges /\ e.file # f
                              \/ EdgeOfUse(e, f, c)
                              \/ \E q \in pending : EdgeOfWaiting(e, q)
         /\ \A u \in Used(c) : HasEdge(f, u)' \/ Waits(f, u)'
         /\ \A q \in pending' : \/ q \in pending /\ (q.name \notin Defs[c] \/ Lookup(p, q.name, q.lang) = {})
                                \/ WaitingUse(q, p, f, c)
         /\ \A q \in pending \ pending' : \E e \in edges' : EdgeOfWaiting(e, q)
<1> DEFINE asked == {<<u[2], Language[f]>> : u \in Used(c)} \cup
                    {<<q.name, q.lang>> : q \in {q \in pending : q.name \in Defs[c]}}
<1>1. /\ f \in FilesOf(p) /\ f \in Files /\ c \in Contents /\ OldSymbols(f) = Defs[c]
      /\ job[p].pc = "edges" /\ Language[f] \in Languages
  BY Sets DEF WriteEdges, JobHolds, Idle, Languages
<1>2. PICK pick \in Picks(p, asked) :
        /\ edges' = DeleteEdgesByFile(f) \cup InsertedEdges(f, c, pick)
                      \cup Resolved(Resolvable(pending \cup InsertedPending(f, c, pick), c, pick), pick)
        /\ pending' = StillPending(pending \cup InsertedPending(f, c, pick), c, pick)
  BY DEF WriteEdges
<1> DEFINE new   == InsertedPending(f, c, pick)
           rows  == pending \cup new
<1>t. GraphTyped
  BY DEF Typed
<1>d. /\ Used(c) \subseteq Names \X Names /\ Defs[c] \subseteq Names
      /\ \A u \in Used(c) : u[1] \in Defs[c]
  BY <1>1, UsesAndDefs
<1>3. \A u \in Used(c) :
        /\ Target(f, c, u[2], pick) = None => u[2] \notin Defs[c]
        /\ Finds(p, Target(f, c, u[2], pick), u[2], Language[f])
  <2> TAKE u \in Used(c)
  <2>1. <<u[2], Language[f]>> \in asked
    OBVIOUS
  <2> HIDE DEF asked
  <2> QED
    BY <1>1, <1>t, <2>1, TargetFound
<1>4. \A q \in pending : q.name \in Defs[c] =>
        Finds(p, pick[<<q.name, q.lang>>], q.name, q.lang)
  <2> TAKE q \in pending
  <2> HAVE q.name \in Defs[c]
  <2>1. <<q.name, q.lang>> \in asked
    OBVIOUS
  <2> HIDE DEF asked
  <2> QED
    BY <1>t, <2>1, Picked DEF GraphTyped, Finds
<1> HIDE DEF asked
<1>5. \A q \in new : WaitingUse(q, p, f, c)
  <2> TAKE q \in new
  <2>1. PICK u \in Used(c) : /\ Target(f, c, u[2], pick) = None
                             /\ q = [src |-> <<f, u[1]>>, name |-> u[2], lang |-> Language[f], file |-> f]
    BY DEF InsertedPending
  <2>2. u[1] \in Names /\ u[2] \in Names /\ <<f, u[1]>> \in Symbols
    BY <1>1, <1>d DEF Symbols
  <2>3. u[2] \notin Defs[c] /\ Lookup(p, u[2], Language[f]) = {}
    BY <1>3, <2>1 DEF GraphTyped, Finds
  <2> QED
    BY <1>1, <2>1, <2>2, <2>3 DEF WaitingUse
<1>6. \A u \in Used(c) : Target(f, c, u[2], pick) = None =>
        \E q \in new : q.src = <<f, u[1]>> /\ q.name = u[2]
  <2> TAKE u \in Used(c)
  <2> HAVE Target(f, c, u[2], pick) = None
  <2> DEFINE q == [src |-> <<f, u[1]>>, name |-> u[2], lang |-> Language[f], file |-> f]
  <2>1. q \in new
    BY DEF InsertedPending
  <2> QED
    BY <2>1
<1>7. \A u \in Used(c) : Target(f, c, u[2], pick) # None =>
        \E e \in InsertedEdges(f, c, pick) : e.src = <<f, u[1]>> /\ e.dst[2] = u[2]
  <2> TAKE u \in Used(c)
  <2> HAVE Target(f, c, u[2], pick) # None
  <2> DEFINE e == [src |-> <<f, u[1]>>, dst |-> Target(f, c, u[2], pick), file |-> f]
  <2>1. e \in InsertedEdges(f, c, pick)
    BY DEF InsertedEdges
  <2> QED
    BY <2>1, <1>3 DEF Finds
<1>8. \A e \in InsertedEdges(f, c, pick) : EdgeOfUse(e, f, c)
  <2> TAKE e \in InsertedEdges(f, c, pick)
  <2>1. PICK u \in Used(c) : /\ Target(f, c, u[2], pick) # None
                             /\ e = [src |-> <<f, u[1]>>, dst |-> Target(f, c, u[2], pick), file |-> f]
    BY DEF InsertedEdges
  <2> DEFINE s == Target(f, c, u[2], pick)
  <2>2. s \in symbols /\ s[2] = u[2] /\ Language[s[1]] = Language[f] /\ s \in Symbols
    BY <1>3, <1>t, <2>1 DEF GraphTyped, Finds
  <2>3. <<f, u[1]>> \in Symbols
    BY <1>1, <1>d DEF Symbols
  <2>4. e = [src |-> <<f, u[1]>>, dst |-> s, file |-> f]
    BY <2>1
  <2> HIDE DEF s
  <2>5. /\ e.src = <<f, u[1]>> /\ e.dst = s /\ e.file = f
        /\ e \in [src : Symbols, dst : Symbols, file : Files]
    BY <1>1, <2>2, <2>3, <2>4
  <2> QED
    BY <2>2, <2>5 DEF EdgeOfUse
<1>9. \A q \in rows : q \in Resolvable(rows, c, pick) <=> (q.name \in Defs[c] /\ pick[<<q.name, q.lang>>] # None)
  BY DEF Resolvable
<1>10. Resolvable(rows, c, pick) \subseteq pending
  BY <1>5 DEF Resolvable, WaitingUse
<1>11. \A q \in Resolvable(rows, c, pick) : \E e \in Resolved(Resolvable(rows, c, pick), pick) : EdgeOfWaiting(e, q)
  <2> TAKE q \in Resolvable(rows, c, pick)
  <2> DEFINE s == pick[<<q.name, q.lang>>]
             e == [src |-> q.src, dst |-> s, file |-> q.file]
  <2>1. s \in symbols /\ s[2] = q.name /\ Language[s[1]] = q.lang /\ s \in Symbols
        /\ q.src \in Symbols /\ q.file \in Files
    BY <1>4, <1>9, <1>10, <1>t DEF GraphTyped, Resolvable, Finds
  <2>2. e \in Resolved(Resolvable(rows, c, pick), pick)
    BY DEF Resolved
  <2>3. EdgeOfWaiting(e, q)
    <3> HIDE DEF s
    <3> QED
      BY <2>1 DEF EdgeOfWaiting
  <2> QED
    BY <2>2, <2>3
<1>12. \A e \in Resolved(Resolvable(rows, c, pick), pick) : \E q \in pending : EdgeOfWaiting(e, q)
  <2> TAKE e \in Resolved(Resolvable(rows, c, pick), pick)
  <2>1. PICK q \in Resolvable(rows, c, pick) :
          e = [src |-> q.src, dst |-> pick[<<q.name, q.lang>>], file |-> q.file]
    BY DEF Resolved
  <2> DEFINE s == pick[<<q.name, q.lang>>]
  <2>2. s \in symbols /\ s[2] = q.name /\ Language[s[1]] = q.lang /\ s \in Symbols
        /\ q \in pending /\ q.src \in Symbols /\ q.file \in Files
    BY <1>4, <1>9, <1>10, <1>t DEF GraphTyped, Resolvable, Finds
  <2>4. e = [src |-> q.src, dst |-> s, file |-> q.file]
    BY <2>1
  <2>3. EdgeOfWaiting(e, q)
    <3> HIDE DEF s
    <3>1. /\ e.src = q.src /\ e.dst = s /\ e.file = q.file
          /\ e \in [src : Symbols, dst : Symbols, file : Files]
      BY <2>2, <2>4
    <3> QED
      BY <2>2, <3>1 DEF EdgeOfWaiting
  <2> QED
    BY <2>2, <2>3
<1>13. pending' = rows \ Resolvable(rows, c, pick) /\ new \subseteq pending'
  BY <1>2, <1>5, <1>10 DEF StillPending, Resolvable, WaitingUse
<1>14. edges' = DeleteEdgesByFile(f) \cup InsertedEdges(f, c, pick) \cup Resolved(Resolvable(rows, c, pick), pick)
  BY <1>2
<1> HIDE DEF rows, new
<1>15. \A q \in pending' : \/ q \in pending /\ (q.name \notin Defs[c] \/ Lookup(p, q.name, q.lang) = {})
                           \/ WaitingUse(q, p, f, c)
  BY <1>4, <1>5, <1>9, <1>13 DEF rows, Finds
<1>16. \A u \in Used(c) : HasEdge(f, u)' \/ Waits(f, u)'
  <2> TAKE u \in Used(c)
  <2>1. CASE Target(f, c, u[2], pick) = None
    BY <1>6, <1>13, <2>1, Zenon DEF Waits
  <2>2. CASE Target(f, c, u[2], pick) # None
    <3>1. PICK e \in InsertedEdges(f, c, pick) : e.src = <<f, u[1]>> /\ e.dst[2] = u[2]
      BY <1>7, <2>2, Zenon
    <3>2. e \in edges'
      BY <1>14
    <3> QED
      BY <3>1, <3>2, Zenon DEF HasEdge
  <2> QED
    BY <2>1, <2>2
<1>17. \A q \in pending \ pending' : \E e \in edges' : EdgeOfWaiting(e, q)
  BY <1>11, <1>13, <1>14 DEF rows
<1>18. /\ \A e \in edges : e.file # f => e \in edges'
       /\ \A e \in edges' : \/ e \in edges /\ e.file # f
                            \/ EdgeOfUse(e, f, c)
                            \/ \E q \in pending : EdgeOfWaiting(e, q)
  BY <1>8, <1>12, <1>14 DEF DeleteEdgesByFile
<1> QED
  BY <1>15, <1>16, <1>17, <1>18

(* Every step keeps the types of symbols, edges and pending edges. *)
LEMMA GraphTypedNext ==
  ASSUME Typed, Works, Next
  PROVE  GraphTyped'
<1> PICK p \in Projects : Step(p)
  BY Kinds DEF Typed
<1> USE DEF GraphTyped
<1> GraphTyped
  BY DEF Typed
<1>1. CASE DeleteChunksByFile(p)
  BY <1>1, CascadeLess DEF DeleteChunksByFile
<1>2. CASE Deletes(p)
  BY <1>2, CascadeLess DEF Deletes, DeleteFileByPath
<1>3. CASE InsertSymbols(p)
  <2>1. job[p].file \in Files /\ Defs[job[p].content] \subseteq Names
    BY <1>3, Sets DEF InsertSymbols, Then, Works, JobHolds, Idle
  <2> QED
    BY <1>3, <2>1 DEF InsertSymbols, Symbols
<1>4. CASE WriteEdges(p)
  <2>1. /\ \A e \in edges' : e \in [src : Symbols, dst : Symbols, file : Files]
        /\ \A q \in pending' : q \in [src : Symbols, name : Names, lang : Languages, file : Files]
    BY <1>4, EdgesWritten DEF Works, EdgeOfUse, EdgeOfWaiting, WaitingUse
  <2> QED
    BY <1>4, <2>1 DEF WriteEdges
<1>5. CASE InsertChunks(p) \/ RecordDiff(p) \/ Starts(p) \/ Others(p)
  <2>1. UNCHANGED graph
    BY <1>5, OthersLeave, Zenon DEF InsertChunks, RecordDiff, Starts, UpsertFile
  <2> QED
    BY <2>1 DEF graph
<1> QED
  BY <1>1, <1>2, <1>3, <1>4, <1>5 DEF Step

(* The steps of Others and the state of the daemons. *)
LEMMA OthersDaemons ==
  ASSUME DaemonsTyped, NEW p \in Projects, Others(p)
  PROVE  /\ DaemonsTyped'
         /\ \A q \in Projects \ {p} :
              phase'[q] = phase[q] /\ algo'[q] = algo[q] /\ todo'[q] = todo[q] /\ bulk'[q] = bulk[q]
<1> USE DEF DaemonsTyped, Others
<1>1. CASE JobFails(p)
  <2>1. UNCHANGED daemon /\ job' = [job EXCEPT ![p] = NoJob]
    BY <1>1, Zenon DEF JobFails, GivenUp
  <2> QED
    BY <2>1, JobEnds DEF daemon
<1>2. CASE BulkBegin(p)
  <2>1. PICK disk \in [FilesOf(p) \cap setup.files -> Contents \cup {None}] :
          todo' = [todo EXCEPT ![p] = {[file |-> f, content |-> disk[f]] :
                     f \in {f \in DOMAIN disk : disk[f] \notin {None, row[f]}}}]
    BY <1>2 DEF BulkBegin
  <2> DEFINE T == {[file |-> f, content |-> disk[f]] :
                     f \in {f \in DOMAIN disk : disk[f] \notin {None, row[f]}}}
  <2>2. T \in SUBSET Tasks
    BY Sets DEF Tasks
  <2>3. todo' = [todo EXCEPT ![p] = T]
    BY <2>1
  <2> HIDE DEF T
  <2> QED
    BY <1>2, <2>2, <2>3 DEF BulkBegin
<1>3. CASE NothingToIndex(p)
  BY <1>3 DEF NothingToIndex, Returned, Phases
<1>4. CASE SkipFile(p)
  BY <1>4 DEF SkipFile
<1>5. CASE BulkEnd(p)
  BY <1>5 DEF BulkEnd, Returned, Phases
<1>6. CASE BulkTriggers(p)
  BY <1>6 DEF BulkTriggers, Returned, Phases
<1>7. CASE OnStartup(p)
  BY <1>7 DEF OnStartup, Phases
<1>8. CASE VersionChecked(p)
  BY <1>8 DEF VersionChecked, Phases
<1>9. CASE RecordVersion(p)
  BY <1>9, Sets DEF RecordVersion, SetConfig, Phases
<1>10. CASE Halt(p)
  <2>1. /\ phase' = [phase EXCEPT ![p] = "down"] /\ todo' = [todo EXCEPT ![p] = {}]
        /\ bulk' = [bulk EXCEPT ![p] = "none"] /\ UNCHANGED <<version, algo>>
        /\ job' = [job EXCEPT ![p] = NoJob]
    BY <1>10, Zenon DEF Halt, GivenUp
  <2> QED
    BY <2>1, JobEnds DEF Phases
<1>11. CASE Upgrade(p)
  BY <1>11 DEF Upgrade
<1> QED
  BY <1>1, <1>2, <1>3, <1>4, <1>5, <1>6, <1>7, <1>8, <1>9, <1>10, <1>11

(* Every step keeps the types of the daemons and their jobs. *)
LEMMA DaemonsTypedNext ==
  ASSUME Typed, Works, Next
  PROVE  DaemonsTyped'
<1> PICK p \in Projects : Step(p)
  BY Kinds DEF Typed
<1> USE DEF DaemonsTyped
<1> DaemonsTyped
  BY DEF Typed
<1>1. CASE DeleteChunksByFile(p) \/ InsertChunks(p) \/ InsertSymbols(p) \/ RecordDiff(p)
  <2>1. UNCHANGED daemon
    BY <1>1, Zenon DEF DeleteChunksByFile, InsertChunks, InsertSymbols, RecordDiff
  <2>2. job' \in [Projects -> JobType]
    BY <1>1, JobMoves DEF DeleteChunksByFile, InsertChunks, InsertSymbols, RecordDiff
  <2> QED
    BY <2>1, <2>2 DEF daemon
<1>2. CASE WriteEdges(p)
  <2>1. UNCHANGED daemon /\ job' = [job EXCEPT ![p] = NoJob]
    BY <1>2, Zenon DEF WriteEdges
  <2> QED
    BY <2>1, JobEnds DEF daemon
<1>3. CASE Starts(p) /\ StartsFor(p)
  <2>1. PICK f \in FilesOf(p), c \in Contents, i \in BOOLEAN :
          UpsertFile(p, f, c, i) /\ UNCHANGED <<phase, algo, bulk, version>>
    BY <1>3 DEF Starts
  <2>2. job' \in [Projects -> JobType]
    BY <2>1, JobStarts, Sets DEF UpsertFile
  <2>3. todo' \in [Projects -> SUBSET Tasks]
    BY <1>3 DEF StartsFor
  <2> QED
    BY <2>1, <2>2, <2>3
<1>4. CASE Deletes(p)
  BY <1>4 DEF Deletes
<1>5. CASE Others(p)
  BY <1>5, OthersDaemons
<1> QED
  BY <1>1, <1>2, <1>3, <1>4, <1>5 DEF Step

------------------------------------------------------------------------------
(* Jobs *)

(* A cascade takes the symbols of one file. *)
LEMMA CascadeSymbolsOf ==
  ASSUME NEW f, CascadeSymbols(f), symbols \subseteq Symbols, f \in Files
  PROVE  /\ OldSymbols(f)' = {}
         /\ \A g \in Files \ {f} : OldSymbols(g)' = OldSymbols(g)
         /\ symbols' = {s \in symbols : s[1] # f}
<1>1. symbols' = {s \in symbols : s[1] # f}
  BY DEF CascadeSymbols
<1>2. \A g, n : <<g, n>>[1] = g
  OBVIOUS
<1> QED
  BY <1>1, <1>2 DEF OldSymbols

(* What a step of one process leaves of each file: all but those of its job or of the  *)
(* deletion, which are its project's.                                         *)
SameFile(g) ==
  /\ row'[g] = row[g] /\ chunk'[g] = chunk[g] /\ OldSymbols(g)' = OldSymbols(g)
  /\ (g \in torn') = (g \in torn) /\ (g \in unlogged') = (g \in unlogged)
  /\ logged'[g] = logged[g] /\ orphans'[g] = orphans[g]

(* A step of p touches no file of another project, and no step changes the setup. *)
LEMMA OtherFiles ==
  ASSUME Typed, Works, NEW p \in Projects, Step(p)
  PROVE  /\ \A g \in Files : ProjectOf[g] # p => SameFile(g)
         /\ setup' = setup
<1> USE DEF Typed, RowsTyped, TextTyped
<1>f. /\ job[p] \in JobType /\ \A g \in FilesOf(p) : g \in Files /\ ProjectOf[g] = p
      /\ symbols \subseteq Symbols
      /\ ~Idle(p) => job[p].file \in FilesOf(p)
  BY Sets DEF DaemonsTyped, GraphTyped, Works, JobHolds
<1>o. symbols' = symbols => \A g \in Files : OldSymbols(g)' = OldSymbols(g)
  BY DEF OldSymbols
<1>1. CASE DeleteChunksByFile(p)
  <2> DEFINE f == job[p].file
  <2>1. /\ chunk' = [chunk EXCEPT ![f] = None] /\ CascadeSymbols(f)
        /\ UNCHANGED <<setup, row, logged, unlogged, orphans, torn>> /\ f \in Files /\ ProjectOf[f] = p
    BY <1>1, <1>f DEF DeleteChunksByFile, Then, Idle, log
  <2> HIDE DEF f
  <2>2. \A g \in Files \ {f} : OldSymbols(g)' = OldSymbols(g)
    BY <2>1, <1>f, CascadeSymbolsOf
  <2> QED
    BY <2>1, <2>2 DEF SameFile
<1>2. CASE InsertChunks(p)
  <2> DEFINE f == job[p].file
             v == [content |-> job[p].content, algo |-> algo[p]]
  <2>1. /\ chunk' = [chunk EXCEPT ![f] = v] /\ ProjectOf[f] = p
        /\ UNCHANGED <<setup, row, symbols, logged, unlogged, orphans, torn>>
    BY <1>2, <1>f DEF InsertChunks, Then, Idle, log, graph
  <2> HIDE DEF f, v
  <2> QED
    BY <2>1, <1>o DEF SameFile
<1>3. CASE InsertSymbols(p)
  <2> DEFINE f == job[p].file
  <2>1. /\ symbols' = symbols \cup {<<f, n>> : n \in Defs[job[p].content]} /\ ProjectOf[f] = p
        /\ UNCHANGED <<setup, row, chunk, logged, unlogged, orphans, torn>>
    BY <1>3, <1>f DEF InsertSymbols, Then, Idle, log
  <2> HIDE DEF f
  <2>2. \A g \in Files \ {f} : OldSymbols(g)' = OldSymbols(g)
    BY <2>1 DEF OldSymbols
  <2> QED
    BY <2>1, <2>2 DEF SameFile
<1>4. CASE RecordDiff(p)
  <2> DEFINE f == job[p].file
             l == (logged[f] \ Removed(job[p].old, job[p].content)) \cup Added(job[p].old, job[p].content)
             o == orphans[f] \cup (Parsed[job[p].content] \ Defs[job[p].content])
  <2>1. /\ \/ /\ logged' = [logged EXCEPT ![f] = l] /\ orphans' = [orphans EXCEPT ![f] = o]
              /\ unlogged' = unlogged
           \/ UNCHANGED <<logged, orphans>> /\ unlogged' = unlogged \cup {f}
        /\ UNCHANGED <<setup, row, chunk, symbols, torn>> /\ ProjectOf[f] = p
    BY <1>4, <1>f DEF RecordDiff, Then, Idle, graph
  <2> HIDE DEF f, l, o
  <2> QED
    BY <2>1, <1>o DEF SameFile
<1>5. CASE WriteEdges(p)
  <2>1. UNCHANGED <<setup, row, chunk, symbols, log>> /\ torn' = torn \ {job[p].file}
        /\ ProjectOf[job[p].file] = p
    BY <1>5, <1>f DEF WriteEdges, Idle
  <2> QED
    BY <2>1, <1>o DEF SameFile, log
<1>6. CASE Starts(p)
  <2>1. PICK f \in FilesOf(p), c \in Contents, i \in BOOLEAN : UpsertFile(p, f, c, i)
    BY <1>6 DEF Starts
  <2>2. /\ row' = [row EXCEPT ![f] = c] /\ torn' = torn \cup {f}
        /\ UNCHANGED <<setup, chunk, symbols, logged, orphans>>
    BY <2>1 DEF UpsertFile, graph
  <2>3. unlogged' \in {unlogged, unlogged \cup {f}}
    BY <2>1, <1>f, JobStarts DEF DaemonsTyped
  <2> QED
    BY <2>2, <2>3, <1>o, <1>f DEF SameFile
<1>7. CASE Deletes(p)
  <2>1. PICK f \in FilesOf(p) : DeleteFileByPath(f) /\ setup' = setup
    BY <1>7 DEF Deletes
  <2>2. \A g \in Files \ {f} : OldSymbols(g)' = OldSymbols(g)
    BY <2>1, <1>f, CascadeSymbolsOf DEF DeleteFileByPath
  <2>3. \A g \in Files : ProjectOf[g] # p => g # f
    BY <1>f
  <2> QED
    BY <2>1, <2>2, <2>3 DEF SameFile, DeleteFileByPath
<1>8. CASE Others(p)
  <2>1. UNCHANGED <<setup, row, chunk, symbols, logged, orphans, torn>>
    BY <1>8, OthersLeave, Zenon DEF graph
  <2>2. \A g \in Files : ProjectOf[g] # p => ((g \in unlogged') = (g \in unlogged))
    BY <1>8, <1>f, OthersLeave DEF GivenUp, Idle
  <2> QED
    BY <2>1, <2>2, <1>o DEF SameFile
<1> QED
  BY <1>1, <1>2, <1>3, <1>4, <1>5, <1>6, <1>7, <1>8 DEF Step

(* A step of one process leaves the others' jobs, phases and tasks. *)
LEMMA OtherProcesses ==
  ASSUME Typed, Works, NEW p \in Projects, Step(p)
  PROVE  \A q \in Projects \ {p} :
           /\ job'[q] = job[q] /\ phase'[q] = phase[q] /\ algo'[q] = algo[q]
           /\ todo'[q] = todo[q] /\ bulk'[q] = bulk[q]
<1> USE DEF Typed, DaemonsTyped
<1>1. CASE DeleteChunksByFile(p) \/ InsertChunks(p) \/ InsertSymbols(p) \/ RecordDiff(p)
  <2>1. UNCHANGED daemon
    BY <1>1, Zenon DEF DeleteChunksByFile, InsertChunks, InsertSymbols, RecordDiff
  <2>2. \A q \in Projects \ {p} : job'[q] = job[q]
    BY <1>1, JobMoves DEF DeleteChunksByFile, InsertChunks, InsertSymbols, RecordDiff
  <2> QED
    BY <2>1, <2>2 DEF daemon
<1>2. CASE WriteEdges(p)
  <2>1. UNCHANGED daemon /\ job' = [job EXCEPT ![p] = NoJob]
    BY <1>2, Zenon DEF WriteEdges
  <2> QED
    BY <2>1, JobEnds DEF daemon
<1>3. CASE Starts(p) /\ StartsFor(p)
  <2>1. PICK f \in FilesOf(p), c \in Contents, i \in BOOLEAN :
          UpsertFile(p, f, c, i) /\ UNCHANGED <<phase, algo, bulk, version>>
    BY <1>3 DEF Starts
  <2>2. \A q \in Projects \ {p} : job'[q] = job[q]
    BY <2>1, JobStarts, Sets DEF UpsertFile
  <2>3. \A q \in Projects \ {p} : todo'[q] = todo[q]
    BY <1>3 DEF StartsFor
  <2> QED
    BY <2>1, <2>2, <2>3
<1>4. CASE Deletes(p)
  BY <1>4 DEF Deletes
<1>5. CASE Others(p)
  <2>1. \A q \in Projects \ {p} : job'[q] = job[q]
    BY <1>5, OthersLeave, JobEnds DEF GivenUp
  <2> QED
    BY <1>5, <2>1, OthersDaemons
<1> QED
  BY <1>1, <1>2, <1>3, <1>4, <1>5 DEF Step

(* A daemon is at work only while it is up, and on its own files. *)
LEMMA DaemonNext ==
  ASSUME Typed, Works, NEW p \in Projects, Step(p)
  PROVE  DaemonHolds(p)'
<1> USE DEF Typed, DaemonsTyped
<1>h. DaemonHolds(p) /\ setup' = setup /\ Active' = Active /\ FilesOf(p)' = FilesOf(p)
  BY OtherFiles DEF Works, Active
<1>1. CASE DeleteChunksByFile(p) \/ InsertChunks(p) \/ InsertSymbols(p) \/ RecordDiff(p)
  <2>1. UNCHANGED daemon
    BY <1>1, Zenon DEF DeleteChunksByFile, InsertChunks, InsertSymbols, RecordDiff
  <2>2. ~Idle(p)
    BY <1>1 DEF DeleteChunksByFile, InsertChunks, InsertSymbols, RecordDiff, Then, Idle
  <2> QED
    BY <2>1, <2>2, <1>h DEF daemon, DaemonHolds
<1>2. CASE WriteEdges(p)
  <2>1. UNCHANGED daemon /\ ~Idle(p)
    BY <1>2, Zenon DEF WriteEdges, Idle
  <2> QED
    BY <2>1, <1>h DEF daemon, DaemonHolds
<1>3. CASE Starts(p) /\ StartsFor(p)
  <2>1. UNCHANGED <<phase, bulk>>
    BY <1>3 DEF Starts
  <2>2. todo'[p] \subseteq todo[p] /\ phase[p] \notin {"down", "started"}
    BY <1>3, <1>h DEF StartsFor, DaemonHolds
  <2> QED
    BY <2>1, <2>2, <1>h DEF DaemonHolds
<1>4. CASE Deletes(p)
  BY <1>4, <1>h DEF Deletes, DaemonHolds, Idle
<1>5. CASE Others(p)
  <2> USE DEF DaemonHolds
  <2>1. CASE JobFails(p)
    <3>1. UNCHANGED daemon /\ job'[p] = NoJob
      BY <2>1, JobEnds DEF JobFails, GivenUp
    <3> QED
      BY <3>1, <1>h DEF daemon, Idle, NoJob
  <2>2. CASE BulkBegin(p)
    <3>1. PICK disk \in [FilesOf(p) \cap setup.files -> Contents \cup {None}] :
            todo' = [todo EXCEPT ![p] = {[file |-> f, content |-> disk[f]] :
                     f \in {f \in DOMAIN disk : disk[f] \notin {None, row[f]}}}]
      BY <2>2 DEF BulkBegin
    <3>2. \A t \in todo'[p] : t.file \in FilesOf(p)
      BY <3>1
    <3> QED
      BY <2>2, <3>2, <1>h DEF BulkBegin
  <2>3. CASE NothingToIndex(p)
    BY <2>3, <1>h DEF NothingToIndex, Returned
  <2>4. CASE SkipFile(p)
    BY <2>4, <1>h DEF SkipFile, Idle
  <2>5. CASE BulkEnd(p)
    BY <2>5, <1>h DEF BulkEnd, Returned
  <2>6. CASE BulkTriggers(p)
    BY <2>6, <1>h DEF BulkTriggers, Returned
  <2>7. CASE OnStartup(p)
    BY <2>7, <1>h DEF OnStartup, Idle
  <2>8. CASE VersionChecked(p)
    BY <2>8, <1>h DEF VersionChecked
  <2>9. CASE RecordVersion(p)
    BY <2>9, <1>h DEF RecordVersion
  <2>10. CASE Halt(p)
    <3>1. job'[p] = NoJob
      BY <2>10, JobEnds DEF Halt, GivenUp
    <3> QED
      BY <2>10, <3>1, <1>h DEF Halt, Idle, NoJob
  <2>11. CASE Upgrade(p)
    BY <2>11, <1>h DEF Upgrade, Idle
  <2> QED
    BY <1>5, <2>1, <2>2, <2>3, <2>4, <2>5, <2>6, <2>7, <2>8, <2>9, <2>10, <2>11 DEF Others
<1> QED
  BY <1>1, <1>2, <1>3, <1>4, <1>5 DEF Step

(* Each transaction of a job leaves what the next one needs. *)
LEMMA JobNext ==
  ASSUME Typed, Works, Keys, NEW p \in Projects, Step(p)
  PROVE  JobHolds(p)'
<1> USE DEF Typed, DaemonsTyped, RowsTyped
<1>f. /\ job[p] \in JobType /\ FilesOf(p) \subseteq Files /\ symbols \subseteq Symbols
      /\ JobHolds(p)
  BY Sets DEF GraphTyped, Works
<1> USE DEF JobHolds
<1>1. CASE DeleteChunksByFile(p)
  <2> DEFINE f == job[p].file
  <2>1. /\ job'[p].pc = "insert" /\ job'[p].file = f /\ job'[p].content = job[p].content
        /\ ~Idle(p)
    BY <1>1, JobMoves DEF DeleteChunksByFile, Then, Idle
  <2>2. /\ chunk' = [chunk EXCEPT ![f] = None] /\ CascadeSymbols(f) /\ UNCHANGED <<row, torn>>
    BY <1>1 DEF DeleteChunksByFile
  <2>3. OldSymbols(f)' = {}
    BY <2>1, <2>2, <1>f, CascadeSymbolsOf
  <2> QED
    BY <2>1, <2>2, <2>3, <1>f
<1>2. CASE InsertChunks(p)
  <2> DEFINE f == job[p].file
             v == [content |-> job[p].content, algo |-> algo[p]]
  <2>1. /\ job'[p].pc = "symbols" /\ job'[p].file = f /\ job'[p].content = job[p].content
        /\ ~Idle(p) /\ job[p].pc = "insert"
    BY <1>2, JobMoves DEF InsertChunks, Then, Idle
  <2>2. /\ chunk' = [chunk EXCEPT ![f] = v] /\ UNCHANGED <<row, torn, symbols>>
    BY <1>2 DEF InsertChunks, graph
  <2>3. v # None
    BY <2>1, <1>f
  <2>4. \A g \in Files : OldSymbols(g)' = OldSymbols(g)
    BY <2>2 DEF OldSymbols
  <2> HIDE DEF v
  <2> QED
    BY <2>1, <2>2, <2>3, <2>4, <1>f
<1>3. CASE InsertSymbols(p)
  <2> DEFINE f == job[p].file
             c == job[p].content
  <2>1. /\ job'[p].pc = "diff" /\ job'[p].file = f /\ job'[p].content = c
        /\ ~Idle(p) /\ job[p].pc = "symbols"
    BY <1>3, JobMoves DEF InsertSymbols, Then, Idle
  <2>2. symbols' = symbols \cup {<<f, n>> : n \in Defs[c]} /\ UNCHANGED <<row, torn, chunk>>
    BY <1>3 DEF InsertSymbols
  <2>3. OldSymbols(f)' = Defs[c]
    BY <2>1, <2>2, <1>f DEF OldSymbols
  <2> QED
    BY <2>1, <2>2, <2>3, <1>f
<1>4. CASE RecordDiff(p)
  <2>1. /\ job'[p].pc = "edges" /\ job'[p].file = job[p].file /\ job'[p].content = job[p].content
        /\ ~Idle(p) /\ job[p].pc = "diff"
    BY <1>4, JobMoves DEF RecordDiff, Then, Idle
  <2>2. UNCHANGED <<row, torn, chunk, symbols>>
    BY <1>4 DEF RecordDiff, graph
  <2>3. \A g \in Files : OldSymbols(g)' = OldSymbols(g)
    BY <2>2 DEF OldSymbols
  <2> QED
    BY <2>1, <2>2, <2>3, <1>f
<1>5. CASE WriteEdges(p)
  <2>1. job'[p] = NoJob
    BY <1>5, JobEnds DEF WriteEdges
  <2> QED
    BY <2>1 DEF NoJob, Idle
<1>6. CASE Starts(p)
  <2>1. PICK f \in FilesOf(p), c \in Contents, i \in BOOLEAN : UpsertFile(p, f, c, i)
    BY <1>6 DEF Starts
  <2>2. job'[p].pc = "delete" /\ job'[p].file = f /\ job'[p].content = c
    BY <2>1, <1>f, JobStarts DEF UpsertFile
  <2>3. row' = [row EXCEPT ![f] = c] /\ torn' = torn \cup {f}
    BY <2>1 DEF UpsertFile
  <2> QED
    BY <2>2, <2>3, <1>f
<1>7. CASE Deletes(p) /\ (phase[p] = "started" \/ Idle(p))
  <2>1. Idle(p) /\ job' = job
    BY <1>7 DEF Deletes, Works, DaemonHolds
  <2> QED
    BY <2>1 DEF Idle
<1>8. CASE Others(p)
  <2>1. UNCHANGED <<row, chunk, symbols, torn>>
    BY <1>8, OthersLeave, Zenon DEF graph
  <2>2. job' = job \/ job'[p] = NoJob
    BY <1>8, OthersLeave, JobEnds DEF GivenUp
  <2>3. \A g \in Files : OldSymbols(g)' = OldSymbols(g)
    BY <2>1 DEF OldSymbols
  <2>4. CASE job' = job
    BY <2>1, <2>3, <2>4, <1>f DEF Idle
  <2>5. CASE job'[p] = NoJob
    BY <2>5 DEF NoJob, Idle
  <2> QED
    BY <2>2, <2>4, <2>5
<1> QED
  BY <1>1, <1>2, <1>3, <1>4, <1>5, <1>6, <1>7, <1>8 DEF Step

(* Every daemon and every job holds after every step of any of them. *)
LEMMA WorksNext ==
  ASSUME Typed, Works, Keys, Next
  PROVE  Works'
<1> PICK p \in Projects : Step(p)
  BY Kinds DEF Typed
<1>1. DaemonHolds(p)' /\ JobHolds(p)'
  BY DaemonNext, JobNext
<1>2. ASSUME NEW q \in Projects \ {p}
      PROVE  DaemonHolds(q)' /\ JobHolds(q)'
  <2>1. DaemonHolds(q) /\ JobHolds(q)
    BY DEF Works
  <2>2. /\ job'[q] = job[q] /\ phase'[q] = phase[q] /\ todo'[q] = todo[q] /\ bulk'[q] = bulk[q]
        /\ setup' = setup /\ Active' = Active
    BY OtherProcesses, OtherFiles DEF Active
  <2>3. DaemonHolds(q)'
    BY <2>1, <2>2 DEF DaemonHolds, Idle
  <2>4. \A g \in FilesOf(q) : g \in Files /\ SameFile(g)
    BY Sets, OtherFiles
  <2>5. JobHolds(q)'
    BY <2>1, <2>2, <2>4 DEF JobHolds, Idle, SameFile
  <2> QED
    BY <2>3, <2>5
<1> QED
  BY <1>1, <1>2 DEF Works, Projects

------------------------------------------------------------------------------
(* The graph *)

(* A deletion's cascade leaves no reference to a symbol that is gone. *)
LEMMA CascadeKeys ==
  ASSUME Typed, Keys, NEW f \in Files, CascadeSymbols(f)
  PROVE  /\ \A s \in symbols' : s \in symbols /\ s[1] # f
         /\ \A e \in edges' : e \in edges /\ e.src \in symbols' /\ e.dst \in symbols'
         /\ \A q \in pending' : q \in pending /\ q.src \in symbols'
  BY DEF CascadeSymbols, Keys

(* Every step keeps the foreign keys, and leaves nothing to resolve but what a torn file has. *)
LEMMA KeysNext ==
  ASSUME Typed, Works, Keys, Resolves, Next
  PROVE  Keys' /\ Resolves'
<1> PICK p \in Projects : Step(p)
  BY Kinds DEF Typed
<1> USE DEF Keys, Resolves
<1>f. /\ FilesOf(p) \subseteq Files /\ \A g \in FilesOf(p) : ProjectOf[g] = p
      /\ RowsTyped /\ GraphTyped /\ setup' = setup /\ JobHolds(p) /\ job[p] \in JobType
  BY Sets, OtherFiles DEF Typed, Works, DaemonsTyped
<1>1. CASE DeleteChunksByFile(p)
  <2> DEFINE f == job[p].file
  <2>1. f \in FilesOf(p) /\ CascadeSymbols(f) /\ chunk' = [chunk EXCEPT ![f] = None]
        /\ UNCHANGED <<row, torn>>
    BY <1>1, <1>f DEF DeleteChunksByFile, Then, JobHolds, Idle
  <2> HIDE DEF f
  <2>2. /\ \A s \in symbols' : s \in symbols /\ s[1] # f
        /\ \A e \in edges' : e \in edges /\ e.src \in symbols' /\ e.dst \in symbols'
        /\ \A q \in pending' : q \in pending /\ q.src \in symbols'
    BY <1>f, <2>1, CascadeKeys
  <2>3. \A s \in symbols : s[1] \in Files
    BY <1>f DEF GraphTyped, Symbols
  <2>4. Keys'
    BY <1>f, <2>1, <2>2, <2>3 DEF RowsTyped
  <2> QED
    BY <1>f, <2>1, <2>2, <2>4
<1>2. CASE Deletes(p)
  <2>1. PICK f \in FilesOf(p) : DeleteFileByPath(f)
    BY <1>2 DEF Deletes
  <2>2. /\ \A s \in symbols' : s \in symbols /\ s[1] # f
        /\ \A e \in edges' : e \in edges /\ e.src \in symbols' /\ e.dst \in symbols'
        /\ \A q \in pending' : q \in pending /\ q.src \in symbols'
    BY <1>f, <2>1, CascadeKeys DEF DeleteFileByPath
  <2>3. \A s \in symbols : s[1] \in Files
    BY <1>f DEF GraphTyped, Symbols
  <2>5. row' = [row EXCEPT ![f] = None] /\ chunk' = [chunk EXCEPT ![f] = None] /\ torn' = torn \ {f}
    BY <2>1 DEF DeleteFileByPath
  <2>4. Keys'
    BY <1>f, <2>2, <2>3, <2>5 DEF RowsTyped
  <2> QED
    BY <1>f, <2>2, <2>4, <2>5
<1>3. CASE InsertChunks(p)
  <2> DEFINE f == job[p].file
             v == [content |-> job[p].content, algo |-> algo[p]]
  <2>1. chunk' = [chunk EXCEPT ![f] = v] /\ UNCHANGED <<row, torn, symbols, edges, pending>>
    BY <1>3 DEF InsertChunks, graph
  <2>2. /\ f \in Files /\ row[f] # None /\ algo[p] \in Nat /\ job[p].content \in Contents
    BY <1>3, <1>f DEF InsertChunks, Then, JobHolds, Idle, Typed, DaemonsTyped
  <2>3. v # None
    BY <2>2
  <2> HIDE DEF f, v
  <2> QED
    BY <1>f, <2>1, <2>2, <2>3 DEF RowsTyped
<1>4. CASE InsertSymbols(p)
  <2> DEFINE f == job[p].file
             added == {<<f, n>> : n \in Defs[job[p].content]}
  <2>1. symbols' = symbols \cup added /\ UNCHANGED <<row, chunk, torn, edges, pending>>
    BY <1>4 DEF InsertSymbols
  <2>2. f \in torn /\ chunk[f] # None
    BY <1>4, <1>f DEF InsertSymbols, Then, JobHolds, Idle
  <2>3. \A s \in added : s[1] = f
    OBVIOUS
  <2> HIDE DEF f, added
  <2> QED
    BY <1>f, <2>1, <2>2, <2>3
<1>5. CASE WriteEdges(p)
  <2> DEFINE f == job[p].file
             c == job[p].content
  <2>1. /\ UNCHANGED <<row, chunk, symbols>> /\ torn' = torn \ {f} /\ f \in Files /\ c \in Contents
        /\ OldSymbols(f) = Defs[c]
    BY <1>5, <1>f DEF WriteEdges, JobHolds, Idle
  <2>2. /\ \A e \in edges' : \/ e \in edges
                             \/ EdgeOfUse(e, f, c)
                             \/ \E q \in pending : EdgeOfWaiting(e, q)
        /\ \A q \in pending' : \/ q \in pending /\ (q.name \notin Defs[c] \/ Lookup(p, q.name, q.lang) = {})
                               \/ WaitingUse(q, p, f, c)
    BY <1>5, <1>f, EdgesWritten
  <2>n. f \in FilesOf(p)
    BY <1>5, <1>f DEF WriteEdges, JobHolds, Idle
  <2> HIDE DEF f, c
  <2>3. \A u \in Used(c) : <<f, u[1]>> \in symbols
    BY <2>1, UsesAndDefs
  <2>4. \A e \in edges' : /\ e.src \in symbols /\ e.dst \in symbols /\ e.file = e.src[1]
                          /\ Language[e.src[1]] = Language[e.dst[1]]
    <3> TAKE e \in edges'
    <3>1. CASE e \in edges
      BY <3>1
    <3>2. CASE EdgeOfUse(e, f, c)
      <4>1. PICK u \in Used(c) : e.src = <<f, u[1]>>
        BY <3>2 DEF EdgeOfUse
      <4>2. e.src \in symbols /\ e.src[1] = f
        BY <4>1, <2>3
      <4> QED
        BY <3>2, <4>2 DEF EdgeOfUse
    <3>3. CASE \E q \in pending : EdgeOfWaiting(e, q)
      BY <3>3 DEF EdgeOfWaiting
    <3> QED
      BY <2>2, <3>1, <3>2, <3>3
  <2>5. \A q \in pending' : q.src \in symbols /\ q.file = q.src[1] /\ q.lang = Language[q.src[1]]
    <3> TAKE q \in pending'
    <3>1. CASE q \in pending
      BY <3>1
    <3>2. CASE WaitingUse(q, p, f, c)
      <4>1. PICK u \in Used(c) : q.src = <<f, u[1]>>
        BY <3>2 DEF WaitingUse
      <4>2. q.src \in symbols /\ q.src[1] = f
        BY <4>1, <2>3
      <4> QED
        BY <3>2, <4>2 DEF WaitingUse
    <3> QED
      BY <2>2, <3>1, <3>2
  <2>6. ASSUME NEW q \in pending', NEW s \in symbols,
               s[2] = q.name, Language[s[1]] = q.lang, ProjectOf[s[1]] = ProjectOf[q.file]
        PROVE  s[1] \in torn \ {f}
    <3>s. s = <<s[1], s[2]>> /\ s[1] \in Files /\ s[2] \in Names
      BY <1>f DEF GraphTyped, Symbols
    <3>l. s[1] \in FilesOf(p) => Lookup(p, q.name, q.lang) # {}
      BY <2>6 DEF Lookup, SqliteLookup, PostgresLookup
    <3>1. CASE q \in pending /\ (q.name \notin Defs[c] \/ Lookup(p, q.name, q.lang) = {})
      <4>1. s[1] \in torn
        BY <2>6, <3>1
      <4>2. s[1] # f
        BY <2>1, <2>n, <2>6, <3>1, <3>s, <3>l, UsesAndDefs
      <4> QED
        BY <4>1, <4>2
    <3>2. CASE WaitingUse(q, p, f, c)
      <4>1. Lookup(p, q.name, q.lang) = {} /\ q.file = f
        BY <3>2 DEF WaitingUse
      <4>2. s[1] \in FilesOf(p)
        BY <4>1, <2>6, <2>n, <1>f, <3>s DEF FilesOf
      <4> QED
        BY <4>1, <4>2, <3>l
    <3> QED
      BY <2>2, <3>1, <3>2
  <2> QED
    BY <1>f, <2>1, <2>4, <2>5, <2>6
<1>6. CASE Starts(p)
  <2>1. PICK f \in FilesOf(p) \cap setup.files, c \in Contents : UpsertFile(p, f, c, TRUE) \/ UpsertFile(p, f, c, FALSE)
    BY <1>6 DEF Starts
  <2>2. row' = [row EXCEPT ![f] = c] /\ torn' = torn \cup {f}
        /\ UNCHANGED <<chunk, symbols, edges, pending>>
    BY <2>1 DEF UpsertFile, graph
  <2> QED
    BY <1>f, <2>2 DEF RowsTyped
<1>7. CASE RecordDiff(p) \/ Others(p)
  <2>1. UNCHANGED <<setup, row, chunk, torn, graph>>
    BY <1>7, OthersLeave, Zenon DEF RecordDiff
  <2> QED
    BY <2>1 DEF graph
<1> QED
  BY <1>1, <1>2, <1>3, <1>4, <1>5, <1>6, <1>7 DEF Step

------------------------------------------------------------------------------
(* The diff log *)

(* Every step keeps the diff log in line with the symbols and the job. *)
LEMMA LogsNext ==
  ASSUME Typed, Works, Keys, Logs, Next
  PROVE  Logs'
<1> PICK p \in Projects : Step(p)
  BY Kinds DEF Typed
<1> SUFFICES ASSUME NEW g \in Files, g \notin unlogged'
             PROVE  LogHolds(g)'
  BY DEF Logs
<1>f. /\ FilesOf(p) \subseteq Files /\ \A f \in FilesOf(p) : ProjectOf[f] = p
      /\ symbols \subseteq Symbols /\ JobHolds(p) /\ job[p] \in JobType
      /\ logged \in [Files -> SUBSET Names] /\ orphans \in [Files -> SUBSET Names]
      /\ ProjectOf[g] \in Projects
      /\ g \notin unlogged => LogHolds(g)
  BY Sets DEF Typed, Works, DaemonsTyped, GraphTyped, TextTyped, Logs
<1>0. CASE ProjectOf[g] # p
  <2>1. SameFile(g) /\ job'[ProjectOf[g]] = job[ProjectOf[g]]
    BY <1>0, <1>f, OtherFiles, OtherProcesses
  <2> QED
    BY <2>1, <1>f DEF LogHolds, Gives, SameFile
<1> SUFFICES ASSUME ProjectOf[g] = p PROVE LogHolds(g)'
  BY <1>0
<1>s. symbols' = symbols => OldSymbols(g)' = OldSymbols(g)
  BY DEF OldSymbols
<1> USE DEF LogHolds, Gives
<1>1. CASE DeleteChunksByFile(p)
  <2> DEFINE f == job[p].file
  <2>1. /\ job'[p].pc = "insert" /\ job'[p].file = f /\ job'[p].old = job[p].old
        /\ ~Idle(p) /\ job[p].pc = "delete" /\ f \in Files
    BY <1>1, <1>f, JobMoves DEF DeleteChunksByFile, Then, Idle, Typed, DaemonsTyped, JobHolds
  <2>2. CascadeSymbols(f) /\ UNCHANGED <<logged, orphans, unlogged>>
    BY <1>1 DEF DeleteChunksByFile, log
  <2>3. g # f => OldSymbols(g)' = OldSymbols(g)
    BY <2>1, <2>2, <1>f, CascadeSymbolsOf
  <2> QED
    BY <2>1, <2>2, <2>3, <1>f
<1>2. CASE InsertChunks(p)
  <2>1. /\ job'[p].pc = "symbols" /\ job'[p].file = job[p].file /\ job'[p].old = job[p].old
        /\ job[p].pc = "insert"
    BY <1>2, JobMoves DEF InsertChunks, Then, Typed, DaemonsTyped
  <2>2. UNCHANGED <<logged, orphans, unlogged, symbols>>
    BY <1>2 DEF InsertChunks, log, graph
  <2> QED
    BY <2>1, <2>2, <1>f, <1>s
<1>3. CASE InsertSymbols(p)
  <2> DEFINE f == job[p].file
  <2>1. /\ job'[p].pc = "diff" /\ job'[p].file = f /\ job'[p].old = job[p].old
        /\ job[p].pc = "symbols"
    BY <1>3, JobMoves DEF InsertSymbols, Then, Typed, DaemonsTyped
  <2>2. symbols' = symbols \cup {<<f, n>> : n \in Defs[job[p].content]} /\ UNCHANGED <<logged, orphans, unlogged>>
    BY <1>3 DEF InsertSymbols, log
  <2>3. g # f => OldSymbols(g)' = OldSymbols(g)
    BY <2>2 DEF OldSymbols
  <2> QED
    BY <2>1, <2>2, <2>3, <1>f
<1>4. CASE RecordDiff(p)
  <2> DEFINE f == job[p].file
             c == job[p].content
             l == (logged[f] \ Removed(job[p].old, c)) \cup Added(job[p].old, c)
             o == orphans[f] \cup (Parsed[c] \ Defs[c])
  <2>1. /\ job'[p].pc = "edges" /\ job'[p].file = f /\ job[p].pc = "diff" /\ ~Idle(p)
    BY <1>4, JobMoves DEF RecordDiff, Then, Typed, DaemonsTyped, Idle
  <2>2. /\ \/ /\ logged' = [logged EXCEPT ![f] = l] /\ orphans' = [orphans EXCEPT ![f] = o]
              /\ unlogged' = unlogged
           \/ UNCHANGED <<logged, orphans>> /\ unlogged' = unlogged \cup {f}
        /\ symbols' = symbols
    BY <1>4 DEF RecordDiff, graph
  <2>3. /\ OldSymbols(f) = Defs[c] /\ f \in Files /\ Defs[c] \subseteq Parsed[c]
    BY <2>1, <1>f, DatabaseAssumption DEF JobHolds
  <2>4. Gives(f, job[p].old) => Defs[c] \subseteq l /\ l \ Defs[c] \subseteq o
    BY <2>3 DEF Removed, Added
  <2>5. CASE g = f
    <3>1. /\ logged' = [logged EXCEPT ![f] = l] /\ orphans' = [orphans EXCEPT ![f] = o]
          /\ g \notin unlogged
      BY <2>2, <2>5
    <3>2. Gives(f, job[p].old)
      BY <3>1, <1>f, <2>1, <2>5
    <3>3. logged'[g] = l /\ orphans'[g] = o
      BY <3>1, <2>3, <2>5, <1>f
    <3>4. OldSymbols(g)' = Defs[c]
      BY <1>s, <2>2, <2>3, <2>5
    <3> HIDE DEF l, o
    <3> QED
      BY <2>1, <2>4, <3>2, <3>3, <3>4
  <2>6. CASE g # f
    <3> HIDE DEF f, l, o
    <3>1. logged'[g] = logged[g] /\ orphans'[g] = orphans[g] /\ g \notin unlogged
      BY <2>2, <2>3, <2>6, <1>f
    <3> QED
      BY <3>1, <2>1, <2>2, <2>6, <1>f, <1>s DEF f
  <2> QED
    BY <2>5, <2>6
<1>5. CASE WriteEdges(p)
  <2>1. /\ job' = [job EXCEPT ![p] = NoJob] /\ job[p].pc = "edges"
        /\ UNCHANGED <<symbols, log>>
    BY <1>5, Zenon DEF WriteEdges
  <2>2. job'[p].pc = "idle"
    BY <2>1, JobEnds DEF NoJob, Typed, DaemonsTyped
  <2> QED
    BY <2>1, <2>2, <1>f, <1>s DEF log
<1>6. CASE Starts(p)
  <2>1. PICK f \in FilesOf(p), c \in Contents, i \in BOOLEAN :
          UpsertFile(p, f, c, i)
    BY <1>6 DEF Starts
  <2>2. /\ job'[p].pc = "delete" /\ job'[p].file = f /\ g \notin unlogged
        /\ g = f => job'[p].old = OldSymbols(f)
    BY <2>1, <1>f, JobStarts DEF Typed, DaemonsTyped
  <2>3. UNCHANGED <<logged, orphans, symbols>> /\ Idle(p)
    BY <2>1 DEF UpsertFile, graph
  <2> QED
    BY <2>1, <2>2, <2>3, <1>f, <1>s DEF Idle
<1>7. CASE Deletes(p) /\ (phase[p] = "started" \/ Idle(p))
  <2>1. Idle(p) /\ job' = job
    BY <1>7 DEF Deletes, Works, DaemonHolds
  <2>2. PICK f \in FilesOf(p) : DeleteFileByPath(f)
    BY <1>7 DEF Deletes
  <2>3. /\ f \in Files /\ CascadeSymbols(f) /\ logged' = [logged EXCEPT ![f] = {}]
        /\ orphans' = [orphans EXCEPT ![f] = {}] /\ unlogged' = unlogged \ {f}
    BY <2>2, <1>f DEF DeleteFileByPath
  <2>4. OldSymbols(f)' = {} /\ (g # f => OldSymbols(g)' = OldSymbols(g))
    BY <2>3, <1>f, CascadeSymbolsOf
  <2> QED
    BY <2>1, <2>3, <2>4, <1>f DEF Idle
<1>8. CASE Others(p)
  <2>1. UNCHANGED <<logged, orphans, symbols>>
    BY <1>8, OthersLeave, Zenon DEF graph
  <2>2. CASE UNCHANGED <<job, unlogged>>
    BY <2>1, <2>2, <1>f, <1>s
  <2>3. CASE GivenUp(p)
    <3>1. job'[p] = NoJob
      BY <2>3, JobEnds DEF GivenUp, Typed, DaemonsTyped
    <3>2. g \notin unlogged /\ (job[p].file = g => job[p].pc \notin {"insert", "symbols", "diff"})
      BY <2>3 DEF GivenUp
    <3>3. job[p].pc \in {"idle", "delete", "insert", "symbols", "diff", "edges"}
      BY <1>f DEF JobType
    <3> QED
      BY <3>1, <3>2, <3>3, <2>1, <1>f, <1>s DEF NoJob
  <2> QED
    BY <1>8, <2>2, <2>3, OthersLeave
<1> QED
  BY <1>1, <1>2, <1>3, <1>4, <1>5, <1>6, <1>7, <1>8 DEF Step

------------------------------------------------------------------------------
(* The text index *)

(* Every step keeps account of the chunks that are not in the text index. *)
LEMMA TextsNext ==
  ASSUME Typed, Works, Texts, Next
  PROVE  Texts'
<1> PICK p \in Projects : Step(p)
  BY Kinds DEF Typed
<1> USE DEF Texts
<1>f. /\ FilesOf(p) \subseteq Files /\ JobHolds(p) /\ RowsTyped /\ TextTyped
      /\ Postgres' = Postgres /\ Indexed \subseteq Files
      /\ \A q \in Projects \ {p} : bulk'[q] = bulk[q]
  BY Sets, OtherFiles, OtherProcesses DEF Typed, Works, Postgres, Indexed
<1>1. ASSUME NEW f \in Files, chunk' = [chunk EXCEPT ![f] = None],
             found' = found \ {f}, unseen' = unseen \ {f}, bulk' = bulk
      PROVE  Texts'
  <2>1. Indexed' = Indexed \ {f}
    BY <1>1, <1>f DEF Indexed, RowsTyped
  <2> QED
    BY <1>1, <1>f, <2>1
<1>2. CASE DeleteChunksByFile(p)
  <2>1. job[p].file \in Files /\ bulk' = bulk
    BY <1>2, <1>f DEF DeleteChunksByFile, Then, Idle, JobHolds, daemon
  <2> QED
    BY <1>1, <1>2, <2>1 DEF DeleteChunksByFile
<1>3. CASE Deletes(p)
  <2>1. PICK f \in FilesOf(p) : DeleteFileByPath(f) /\ bulk' = bulk
    BY <1>3 DEF Deletes
  <2> QED
    BY <1>1, <1>f, <2>1 DEF DeleteFileByPath
<1>4. CASE InsertChunks(p)
  <2> DEFINE f == job[p].file
             v == [content |-> job[p].content, algo |-> algo[p]]
             indexed == IF Postgres THEN PostgresIndexes(f) ELSE SqliteIndexes(f)
  <2>1. /\ chunk' = [chunk EXCEPT ![f] = v] /\ found' = found \cup indexed
        /\ unseen' = IF bulk[p] # "open" THEN unseen \cup ({f} \ indexed) ELSE unseen
        /\ bulk' = bulk
    BY <1>4 DEF InsertChunks, daemon
  <2>2. f \in Files /\ job[p].content \in Contents /\ algo[p] \in Nat /\ chunk[f] = None
    BY <1>4, <1>f DEF InsertChunks, Then, Idle, JobHolds, Typed, DaemonsTyped
  <2>3. v # None
    BY <2>2
  <2>4. indexed \subseteq {f} /\ (Postgres => indexed = {f})
    BY DEF PostgresIndexes, SqliteIndexes
  <2> HIDE DEF f, v, indexed
  <2>5. Indexed' = Indexed \cup {f} /\ f \notin Indexed
    BY <2>1, <2>2, <2>3, <1>f DEF Indexed, RowsTyped
  <2> QED
    BY <1>f, <2>1, <2>4, <2>5
<1>5. CASE InsertSymbols(p) \/ RecordDiff(p) \/ WriteEdges(p)
  <2>1. UNCHANGED <<chunk, text, daemon>>
    BY <1>5, Zenon DEF InsertSymbols, RecordDiff, WriteEdges
  <2>2. Indexed' = Indexed
    BY <2>1 DEF Indexed
  <2> QED
    BY <1>f, <2>1, <2>2 DEF text, daemon
<1>6. CASE Starts(p)
  <2>1. UNCHANGED <<chunk, text, bulk>>
    BY <1>6 DEF Starts, UpsertFile
  <2>2. Indexed' = Indexed
    BY <2>1 DEF Indexed
  <2> QED
    BY <1>f, <2>1, <2>2 DEF text
<1>7. CASE Others(p)
  <2>1. Indexed' = Indexed
    BY <1>7, OthersLeave DEF Indexed
  <2>2. /\ \/ UNCHANGED <<found, unseen>> /\ (bulk[p] = "open" => Postgres \/ bulk' = bulk)
           \/ ~Postgres /\ bulk[p] = "open" /\ found' = Indexed /\ unseen' = {}
           \/ bulk[p] = "open" /\ found' = found /\ unseen' = Indexed \ found
           \/ bulk[p] = "open" /\ found' = found /\ unseen' = unseen \cup (Indexed \ found)
    BY <1>7, <1>f, OthersText
  <2>3. CASE UNCHANGED <<found, unseen>> /\ (bulk[p] = "open" => Postgres \/ bulk' = bulk)
    BY <1>f, <2>1, <2>3
  <2>4. CASE ~(UNCHANGED <<found, unseen>> /\ (bulk[p] = "open" => Postgres \/ bulk' = bulk))
    BY <1>f, <2>1, <2>2, <2>4
  <2> QED
    BY <2>3, <2>4
<1> QED
  BY <1>2, <1>3, <1>4, <1>5, <1>6, <1>7 DEF Step

(* A project that is alone in its database is the only one with files there. *)
LEMMA OneActive ==
  ASSUME setup \in Setups, Sqlite, NEW p \in Active, NEW q \in Active
  PROVE  p = q
<1>1. PICK r \in Projects : setup.files \subseteq FilesOf(r)
  BY DEF Sqlite
<1> QED
  BY <1>1 DEF Active, FilesOf

(* In PostgreSQL by the generated column, in SQLite by the one project of the database. *)
LEMMA TextsImply ==
  ASSUME Typed, Works, Texts
  PROVE  FtsExact
<1> SUFFICES ASSUME NEW p \in Active, bulk[p] # "open", phase[p] # "down"
             PROVE  KeywordSearch(p) \cap FilesOf(p) = (Indexed \cap FilesOf(p)) \ unseen
  BY DEF FtsExact
<1>1. CASE Postgres
  BY <1>1 DEF Texts, KeywordSearch, PostgresKeywordSearch
<1>2. CASE ~Postgres
  <2>1. Sqlite /\ setup \in Setups
    BY <1>2 DEF Postgres, Sqlite, Typed, RowsTyped
  <2>2. \A q \in Projects : bulk[q] # "open"
    <3> TAKE q \in Projects
    <3>1. CASE q \in Active
      BY <2>1, <3>1, OneActive
    <3>2. CASE q \notin Active
      BY <3>2 DEF Works, DaemonHolds
    <3> QED
      BY <3>1, <3>2
  <2> QED
    BY <1>2, <2>2 DEF Texts, KeywordSearch, SqliteKeywordSearch
<1> QED
  BY <1>1, <1>2

------------------------------------------------------------------------------
(* The version of the parser *)

(* There are as many projects as files, or fewer. *)
LEMMA ActiveFinite == IsFiniteSet(Active)
<1> DEFINE h == [f \in Files |-> ProjectOf[f]]
<1>1. h \in Surjection(Files, Projects)
  BY DEF Surjection, Projects
<1>2. IsFiniteSet(Projects)
  BY <1>1, FS_Surjection
<1> QED
  BY <1>2, FS_Subset DEF Active

(* Alone means that no other project has files in the database. *)
LEMMA AloneOne ==
  ASSUME setup \in Setups, Alone, NEW p \in Active, NEW q \in Active
  PROVE  p = q
<1>1. CASE Sqlite
  BY <1>1, OneActive
<1>2. CASE Cardinality(Active) = 1
  <2>1. IsFiniteSet(Active) /\ IsFiniteSet({p, q})
    BY ActiveFinite, FS_EmptySet, FS_AddElement, FS_Subset
  <2>2. \E r : Active = {r}
    BY <1>2, <2>1, FS_Singleton
  <2> QED
    BY <2>2
<1> QED
  BY <1>1, <1>2 DEF Alone

(* Only the end of a cold index records a version. *)
LEMMA OthersVersion ==
  ASSUME NEW p \in Projects, Step(p), ~RecordVersion(p)
  PROVE  version' = version
  BY Zenon DEF Step, DeleteChunksByFile, InsertChunks, InsertSymbols, RecordDiff, WriteEdges,
     daemon, Starts, Deletes, Others, JobFails, BulkBegin, NothingToIndex, SkipFile, BulkEnd,
     BulkTriggers, OnStartup, VersionChecked, Halt, Upgrade

(* Every step keeps the recorded version honest. *)
LEMMA VersionsNext ==
  ASSUME Typed, Works, Keys, Orderly, Versions, Next
  PROVE  Versions'
<1> PICK q \in Projects : Step(q)
  BY Kinds DEF Typed
<1>s. /\ setup' = setup /\ Active' = Active /\ (Alone' <=> Alone) /\ RowsTyped /\ DaemonsTyped
      /\ setup \in Setups /\ Active \subseteq Projects
  BY OtherFiles DEF Active, Alone, Sqlite, Typed, RowsTyped
<1> SUFFICES ASSUME Alone, NEW p \in Active
             PROVE  VersionHolds(p)'
  BY <1>s DEF Versions
<1>h. /\ GetConfig(p) <= algo[p] /\ GetConfig(p) \in Nat /\ algo[p] \in Nat
      /\ GetConfig(p) \in {0, algo[p]} \/ phase[p] \in {"cold", "indexed", "watching"} => AllParsedBy(p)
      /\ ConfigOf(p)' = ConfigOf(p) /\ ConfigOf(p) \in Projects \cup {Shared}
      /\ DaemonHolds(p) /\ JobHolds(p)
  BY <1>s, Sets DEF Versions, VersionHolds, DaemonsTyped, GetConfig, ConfigOf, Works, Postgres
<1>g. version' = version => GetConfig(p)' = GetConfig(p)
  BY <1>h DEF GetConfig
<1>a. ASSUME algo' = algo, \A f \in FilesOf(p) : chunk'[f] = chunk[f] \/ chunk'[f] = None
      PROVE  AllParsedBy(p) => AllParsedBy(p)'
  BY <1>a DEF AllParsedBy
<1>0. CASE q # p
  <2>1. algo'[p] = algo[p] /\ phase'[p] = phase[p]
    BY <1>0, <1>s, OtherProcesses
  <2>2. version' = version
    <3> SUFFICES ASSUME RecordVersion(q) PROVE FALSE
      BY OthersVersion
    <3>1. q \in Active
      BY DEF RecordVersion, Works, DaemonHolds
    <3> QED
      BY <1>0, <1>s, <3>1, AloneOne
  <2>3. \A f \in FilesOf(p) : chunk'[f] = chunk[f]
    BY <1>0, <1>s, Sets, OtherFiles DEF SameFile
  <2>4. AllParsedBy(p) => AllParsedBy(p)'
    BY <2>1, <2>3 DEF AllParsedBy
  <2> QED
    BY <1>g, <1>h, <2>1, <2>2, <2>4 DEF VersionHolds
<1> SUFFICES ASSUME q = p PROVE VersionHolds(p)'
  BY <1>0
<1>1. ASSUME UNCHANGED <<version, phase, algo>>, \A f \in FilesOf(p) : chunk'[f] = chunk[f] \/ chunk'[f] = None
      PROVE  VersionHolds(p)'
  BY <1>1, <1>a, <1>g, <1>h DEF VersionHolds
<1>2. CASE DeleteChunksByFile(p)
  BY <1>1, <1>2, <1>s, Sets DEF DeleteChunksByFile, daemon, RowsTyped
<1>3. CASE Deletes(p)
  BY <1>1, <1>3, <1>s, Sets DEF Deletes, DeleteFileByPath, RowsTyped
<1>4. CASE InsertChunks(p)
  <2> DEFINE f == job[p].file
             v == [content |-> job[p].content, algo |-> algo[p]]
  <2>1. chunk' = [chunk EXCEPT ![f] = v] /\ UNCHANGED <<version, phase, algo>>
    BY <1>4 DEF InsertChunks, daemon
  <2>2. AllParsedBy(p)
    BY <1>4, <1>h, <1>s DEF InsertChunks, Then, Idle, DaemonHolds, DaemonsTyped, Phases
  <2>3. v.algo = algo[p]
    OBVIOUS
  <2> HIDE DEF f, v
  <2>4. AllParsedBy(p)'
    BY <2>1, <2>2, <2>3, <1>s, Sets DEF AllParsedBy, RowsTyped
  <2> QED
    BY <1>g, <1>h, <2>1, <2>4 DEF VersionHolds
<1>5. CASE InsertSymbols(p) \/ RecordDiff(p) \/ WriteEdges(p)
  <2>1. UNCHANGED <<chunk, daemon>>
    BY <1>5, Zenon DEF InsertSymbols, RecordDiff, WriteEdges
  <2> QED
    BY <2>1, <1>1 DEF daemon
<1>6. CASE Starts(p)
  BY <1>6, <1>1 DEF Starts, UpsertFile
<1>7. CASE Others(p)
  <2>c. chunk' = chunk
    BY <1>7, OthersLeave
  <2>1. CASE JobFails(p) \/ BulkBegin(p) \/ SkipFile(p)
    <3>1. UNCHANGED <<version, phase, algo>>
      BY <2>1, Zenon DEF JobFails, BulkBegin, SkipFile, daemon
    <3> QED
      BY <3>1, <2>c, <1>1
  <2>2. CASE NothingToIndex(p) \/ BulkEnd(p) \/ BulkTriggers(p)
    <3>1. UNCHANGED <<version, algo>> /\ (phase' = phase \/ Returned(p))
      BY <2>2, Zenon DEF NothingToIndex, BulkEnd, BulkTriggers
    <3>2. phase'[p] = phase[p] \/ phase[p] = "cold"
      BY <3>1 DEF Returned
    <3> QED
      BY <3>1, <3>2, <2>c, <1>a, <1>g, <1>h DEF VersionHolds
  <2>3. CASE OnStartup(p) \/ Halt(p)
    <3>1. UNCHANGED <<version, algo>> /\ phase'[p] \in {"started", "down"}
      BY <2>3, <1>s DEF OnStartup, Halt, DaemonsTyped
    <3> QED
      BY <3>1, <2>c, <1>a, <1>g, <1>h DEF VersionHolds
  <2>4. CASE VersionChecked(p)
    <3>1. UNCHANGED <<version, algo>>
      BY <2>4 DEF VersionChecked
    <3>2. GetConfig(p) \in {0, algo[p]} \/ \A f \in FilesOf(p) : row[f] = None
      BY <2>4 DEF VersionChecked, Outdated, Orderly
    <3>3. AllParsedBy(p)
      BY <3>2, <1>h, Sets, <1>s DEF AllParsedBy, Keys
    <3> QED
      BY <3>1, <3>3, <2>c, <1>a, <1>g, <1>h DEF VersionHolds
  <2>5. CASE RecordVersion(p)
    <3>1. algo' = algo /\ phase[p] = "indexed" /\ version' = [version EXCEPT ![ConfigOf(p)] = algo[p]]
      BY <2>5 DEF RecordVersion, SetConfig
    <3>2. GetConfig(p)' = algo[p]
      BY <3>1, <1>h, <1>s DEF GetConfig, DaemonsTyped
    <3> QED
      BY <3>1, <3>2, <2>c, <1>a, <1>h DEF VersionHolds
  <2>6. CASE Upgrade(p)
    <3>1. /\ algo'[p] = algo[p] + 1 /\ UNCHANGED <<version, phase>> /\ phase[p] = "down"
          /\ GetConfig(p) # 0
      BY <2>6, <1>s DEF Upgrade, DaemonsTyped, Orderly
    <3> QED
      BY <3>1, <1>g, <1>h DEF VersionHolds
  <2> QED
    BY <1>7, <2>1, <2>2, <2>3, <2>4, <2>5, <2>6 DEF Others
<1> QED
  BY <1>2, <1>3, <1>4, <1>5, <1>6, <1>7 DEF Step

------------------------------------------------------------------------------
(* The callers of a name *)

(* A cascade keeps what is known of another file's use: its edge is cut, or stays. *)
LEMMA CascadeUses ==
  ASSUME NEW g, CascadeSymbols(g), NEW f, f # g, NEW u, UseHolds(f, u)
  PROVE  UseHolds(f, u)'
<1> DEFINE gone == {s \in symbols : s[1] = g}
<1>1. /\ edges' = {e \in edges : e.src \notin gone /\ e.dst \notin gone}
      /\ pending' = {q \in pending : q.src \notin gone}
      /\ cut' = {w \in cut : w.src[1] # g} \cup
                {[src |-> e.src, name |-> e.dst[2]] : e \in {e \in edges : e.dst \in gone /\ e.src \notin gone}}
  BY DEF CascadeSymbols
<1>2. <<f, u[1]>>[1] = f /\ <<f, u[1]>> \notin gone
  OBVIOUS
<1>3. ASSUME NEW e \in edges, e.src = <<f, u[1]>>, e.dst[2] = u[2]
      PROVE  UseHolds(f, u)'
  <2>1. CASE e.dst \notin gone
    <3>1. e \in edges'
      BY <1>1, <1>2, <1>3, <2>1
    <3> QED
      BY <1>3, <3>1 DEF UseHolds, HasEdge, Waits
  <2>2. CASE e.dst \in gone
    <3>1. [src |-> e.src, name |-> e.dst[2]] \in cut'
      BY <1>1, <1>2, <1>3, <2>2
    <3> QED
      BY <1>3, <3>1 DEF UseHolds, HasEdge, Waits
  <2> QED
    BY <2>1, <2>2
<1>4. ASSUME NEW q \in pending, q.src = <<f, u[1]>>, q.name = u[2]
      PROVE  UseHolds(f, u)'
  <2>1. q \in pending'
    BY <1>1, <1>2, <1>4
  <2> QED
    BY <1>4, <2>1 DEF UseHolds, HasEdge, Waits
<1>5. ASSUME [src |-> <<f, u[1]>>, name |-> u[2]] \in cut
      PROVE  UseHolds(f, u)'
  <2> DEFINE w == [src |-> <<f, u[1]>>, name |-> u[2]]
  <2>1. w.src[1] = f
    OBVIOUS
  <2>2. w \in cut'
    <3> HIDE DEF w, gone
    <3>1. w \in cut
      BY <1>5 DEF w
    <3> QED
      BY <1>1, <2>1, <3>1
  <2> QED
    BY <2>2 DEF UseHolds, HasEdge, Waits
<1> QED
  BY <1>3, <1>4, <1>5 DEF UseHolds, HasEdge, Waits

(* Every step keeps account of the uses of the files that are whole. *)
LEMMA UsesNext ==
  ASSUME Typed, Works, Keys, UsesHold, Next
  PROVE  UsesHold'
<1> PICK p \in Projects : Step(p)
  BY Kinds DEF Typed
<1> SUFFICES ASSUME NEW f \in Indexed', f \notin torn', NEW u \in Used(row'[f])
             PROVE  UseHolds(f, u)'
  BY DEF UsesHold, Used
<1>f. /\ FilesOf(p) \subseteq Files /\ JobHolds(p) /\ RowsTyped /\ f \in Files /\ chunk'[f] # None
  BY Sets DEF Typed, Works, Indexed
<1>i. chunk[f] # None /\ row'[f] = row[f] /\ f \notin torn => UseHolds(f, u)
  BY <1>f DEF UsesHold, Indexed
<1>u. UNCHANGED <<edges, pending, cut>> => (UseHolds(f, u) => UseHolds(f, u)')
  BY DEF UseHolds, HasEdge, Waits
<1>1. CASE DeleteChunksByFile(p)
  <2> DEFINE g == job[p].file
  <2>1. g \in torn /\ UNCHANGED <<row, torn>> /\ chunk' = [chunk EXCEPT ![g] = None] /\ CascadeSymbols(g)
    BY <1>1, <1>f DEF DeleteChunksByFile, Then, Idle, JobHolds
  <2> HIDE DEF g
  <2>2. f # g /\ chunk[f] # None
    BY <2>1, <1>f DEF RowsTyped
  <2> QED
    BY <2>1, <2>2, <1>i, CascadeUses
<1>2. CASE Deletes(p)
  <2>1. PICK g \in FilesOf(p) : DeleteFileByPath(g)
    BY <1>2 DEF Deletes
  <2>2. /\ row' = [row EXCEPT ![g] = None] /\ chunk' = [chunk EXCEPT ![g] = None]
        /\ torn' = torn \ {g} /\ CascadeSymbols(g)
    BY <2>1 DEF DeleteFileByPath
  <2>3. f # g /\ chunk[f] # None /\ row'[f] = row[f] /\ f \notin torn
    BY <2>2, <1>f DEF RowsTyped
  <2> QED
    BY <2>2, <2>3, <1>i, CascadeUses
<1>3. CASE InsertChunks(p)
  <2> DEFINE g == job[p].file
             v == [content |-> job[p].content, algo |-> algo[p]]
  <2>1. g \in torn /\ UNCHANGED <<row, torn, edges, pending, cut>> /\ chunk' = [chunk EXCEPT ![g] = v]
    BY <1>3, <1>f DEF InsertChunks, Then, Idle, JobHolds, graph
  <2> HIDE DEF g, v
  <2>2. f # g /\ chunk[f] # None
    BY <2>1, <1>f DEF RowsTyped
  <2> QED
    BY <2>1, <2>2, <1>i, <1>u
<1>4. CASE InsertSymbols(p) \/ RecordDiff(p) \/ Others(p)
  <2>1. UNCHANGED <<row, chunk, torn, edges, pending, cut>>
    BY <1>4, OthersLeave, Zenon DEF InsertSymbols, RecordDiff, graph
  <2> QED
    BY <2>1, <1>f, <1>i, <1>u
<1>5. CASE Starts(p)
  <2>1. PICK g \in FilesOf(p), c \in Contents :
          /\ row' = [row EXCEPT ![g] = c] /\ torn' = torn \cup {g}
          /\ UNCHANGED <<chunk, edges, pending, cut>>
    BY <1>5 DEF Starts, UpsertFile, graph
  <2>2. f # g /\ row'[f] = row[f] /\ f \notin torn
    BY <2>1, <1>f DEF RowsTyped
  <2> QED
    BY <2>1, <2>2, <1>f, <1>i, <1>u
<1>6. CASE WriteEdges(p)
  <2>0. PICK g, c : g = job[p].file /\ c = job[p].content
    OBVIOUS
  <2>1. UNCHANGED <<row, chunk, cut>> /\ torn' = torn \ {g} /\ row[g] = c
    BY <1>6, <1>f, <2>0 DEF WriteEdges, JobHolds, Idle
  <2>2. /\ \A e \in edges : e.file # g => e \in edges'
        /\ \A w \in Used(c) : HasEdge(g, w)' \/ Waits(g, w)'
        /\ \A q \in pending \ pending' : \E e \in edges' : EdgeOfWaiting(e, q)
    BY <1>6, <1>f, <2>0, EdgesWritten
  <2>3. CASE f = g
    BY <2>1, <2>2, <2>3 DEF UseHolds, HasEdge, Waits
  <2>4. CASE f # g
    <3>0. UseHolds(f, u)
      BY <2>1, <2>4, <1>f, <1>i
    <3>1. ASSUME NEW e \in edges, e.src = <<f, u[1]>>, e.dst[2] = u[2]
          PROVE  UseHolds(f, u)'
      <4>1. e.file = f
        BY <3>1 DEF Keys
      <4> QED
        BY <2>2, <2>4, <3>1, <4>1 DEF UseHolds, HasEdge, Waits
    <3>2. ASSUME NEW q \in pending, q.src = <<f, u[1]>>, q.name = u[2]
          PROVE  UseHolds(f, u)'
      <4>1. CASE q \in pending'
        BY <3>2, <4>1 DEF UseHolds, HasEdge, Waits
      <4>2. CASE q \notin pending'
        <5>1. PICK e \in edges' : EdgeOfWaiting(e, q)
          BY <2>2, <4>2
        <5>2. e.src = <<f, u[1]>> /\ e.dst[2] = u[2]
          BY <3>2, <5>1 DEF EdgeOfWaiting
        <5> QED
          BY <5>2 DEF UseHolds, HasEdge, Waits
      <4> QED
        BY <4>1, <4>2
    <3> QED
      BY <3>0, <3>1, <3>2, <2>1 DEF UseHolds, HasEdge, Waits
  <2> QED
    BY <2>3, <2>4
<1> QED
  BY <1>1, <1>2, <1>3, <1>4, <1>5, <1>6 DEF Step

(* A name without a definition: what leads to it waits, or its edge was cut. *)
LEMMA UsesImply ==
  ASSUME Typed, Works, Keys, UsesHold
  PROVE  CallersFound
<1> SUFFICES ASSUME Alone, NEW p \in Active, NEW f \in (FilesOf(p) \cap Indexed) \ torn,
                    NEW u \in Used(row[f]), NEW scope \in Scopes, GetSymbolByName(p, u[2]) = {},
                    AcceptByFileID(scope, f),
                    [src |-> <<f, u[1]>>, name |-> u[2]] \notin cut
             PROVE  <<f, u[1]>> \in ReferencedBy(p, u[2], scope)
  BY DEF CallersFound
<1>1. ASSUME NEW s \in symbols, s[2] = u[2] PROVE FALSE
  <2>1. s[1] \in Files /\ chunk[s[1]] # None /\ s[1] \in setup.files
    BY DEF Keys, Typed, GraphTyped, Symbols
  <2>2. ProjectOf[s[1]] \in Active
    BY <2>1, Sets DEF Active
  <2>3. ProjectOf[s[1]] = p
    BY <2>2, AloneOne DEF Typed, RowsTyped
  <2>4. s[1] \in FilesOf(p)
    BY <2>1, <2>3 DEF FilesOf
  <2> QED
    BY <1>1, <2>4 DEF GetSymbolByName
<1>2. \A e \in edges : e.dst[2] # u[2]
  BY <1>1 DEF Keys
<1>3. UseHolds(f, u)
  BY DEF UsesHold
<1>4. PICK q \in pending : q.src = <<f, u[1]>> /\ q.name = u[2]
  BY <1>2, <1>3 DEF UseHolds, HasEdge, Waits
<1>5. <<f, u[1]>> \in PendingEdgeCallers(u[2])
  BY <1>4 DEF PendingEdgeCallers
<1>6. <<f, u[1]>>[1] \in FilesOf(p)
  OBVIOUS
<1> QED
  BY <1>5, <1>6 DEF ReferencedBy, GetSymbolByID

------------------------------------------------------------------------------
(* The graph that every backend promises *)

(* A cascade removes a file from the graph. *)
LEMMA CascadeRemoves ==
  ASSUME Keys, NEW f \in Files, CascadeSymbols(f)
  PROVE  Graph!RemoveFile(f)
  BY DEF CascadeSymbols, Keys, Graph!RemoveFile

(* Each step is one of the abstract graph's, or leaves the graph. *)
LEMMA GraphNext ==
  ASSUME Typed, Works, Keys, Next
  PROVE  [Graph!Next]_(<<symbols, edges, pending>>)
<1> PICK p \in Projects : Step(p)
  BY Kinds DEF Typed
<1>f. FilesOf(p) \subseteq Files /\ JobHolds(p) /\ GraphTyped
  BY Sets DEF Typed, Works
<1>1. CASE DeleteChunksByFile(p)
  <2>1. job[p].file \in Files /\ CascadeSymbols(job[p].file)
    BY <1>1, <1>f DEF DeleteChunksByFile, Then, Idle, JobHolds
  <2>2. PICK f \in Files : CascadeSymbols(f)
    BY <2>1
  <2> QED
    BY <2>2, CascadeRemoves DEF Graph!Next
<1>2. CASE Deletes(p)
  <2>1. PICK f \in Files : CascadeSymbols(f)
    BY <1>2, <1>f DEF Deletes, DeleteFileByPath
  <2> QED
    BY <2>1, CascadeRemoves DEF Graph!Next
<1>3. CASE InsertSymbols(p)
  <2>1. PICK f \in Files, D \in SUBSET Names :
          symbols' = symbols \cup {<<f, n>> : n \in D} /\ UNCHANGED <<edges, pending>>
    BY <1>3, <1>f DEF InsertSymbols, Then, Idle, JobHolds
  <2>2. Graph!AddSymbols(f)
    BY <2>1 DEF Graph!AddSymbols
  <2> QED
    BY <2>2 DEF Graph!Next
<1>4. CASE WriteEdges(p)
  <2>0. PICK f, c : f = job[p].file /\ c = job[p].content
    OBVIOUS
  <2>1. /\ f \in Files /\ c \in Contents /\ OldSymbols(f) = Defs[c] /\ symbols' = symbols
    BY <1>4, <1>f, <2>0 DEF WriteEdges, JobHolds, Idle
  <2>2. /\ \A e \in edges : e.file # f => e \in edges'
        /\ \A e \in edges' : \/ e \in edges
                             \/ EdgeOfUse(e, f, c)
                             \/ \E q \in pending : EdgeOfWaiting(e, q)
        /\ \A q \in pending' : q \in pending \/ WaitingUse(q, p, f, c)
        /\ \A q \in pending \ pending' : \E e \in edges' : EdgeOfWaiting(e, q)
    BY <1>4, <1>f, <2>0, EdgesWritten
  <2>3. \A u \in Used(c) : <<f, u[1]>> \in symbols
    BY <2>1, UsesAndDefs
  <2>4. \A e, q : EdgeOfWaiting(e, q) => Graph!Settles(e, q)
    BY DEF EdgeOfWaiting, Graph!Settles
  <2>5. \A e \in edges' \ edges :
          /\ e.src \in symbols /\ e.dst \in symbols
          /\ e.src[1] = f \/ \E q \in pending : Graph!Settles(e, q)
    <3> TAKE e \in edges' \ edges
    <3>1. CASE EdgeOfUse(e, f, c)
      <4>1. PICK u \in Used(c) : e.src = <<f, u[1]>>
        BY <3>1 DEF EdgeOfUse
      <4>2. e.src \in symbols /\ e.src[1] = f
        BY <4>1, <2>3
      <4> QED
        BY <3>1, <4>2 DEF EdgeOfUse
    <3>2. CASE \E q \in pending : EdgeOfWaiting(e, q)
      <4>1. PICK q \in pending : EdgeOfWaiting(e, q)
        BY <3>2
      <4> QED
        BY <4>1, <2>4 DEF EdgeOfWaiting, Keys
    <3> QED
      BY <2>2, <3>1, <3>2
  <2>6. \A q \in pending' \ pending : q.src \in symbols /\ q.src[1] = f
    <3> TAKE q \in pending' \ pending
    <3>1. PICK u \in Used(c) : q.src = <<f, u[1]>>
      BY <2>2 DEF WaitingUse
    <3> QED
      BY <3>1, <2>3
  <2>7. \A q \in pending \ pending' : \E e \in edges' : Graph!Settles(e, q)
    BY <2>2, <2>4
  <2>8. Graph!RewriteEdges(f)
    BY <2>1, <2>2, <2>5, <2>6, <2>7 DEF Graph!RewriteEdges
  <2> QED
    BY <2>1, <2>8 DEF Graph!Next
<1>5. CASE InsertChunks(p) \/ RecordDiff(p) \/ Starts(p) \/ Others(p)
  <2>1. UNCHANGED graph
    BY <1>5, OthersLeave, Zenon DEF InsertChunks, RecordDiff, Starts, UpsertFile
  <2> QED
    BY <2>1 DEF graph
<1> QED
  BY <1>1, <1>2, <1>3, <1>4, <1>5 DEF Step

------------------------------------------------------------------------------
(* The neighbours of a symbol *)

(* What the recursive query computes for each depth. *)
OutReach(s) == CHOOSE r : r = [k \in 1..10 |-> IF k = 1 THEN Outgoing({s})
                                               ELSE r[k - 1] \cup Outgoing(r[k - 1])]
InReach(s)  == CHOOSE r : r = [k \in 1..10 |-> IF k = 1 THEN Incoming({s})
                                               ELSE r[k - 1] \cup Incoming(r[k - 1])]

(* What holds of 1, and of each successor up to 10, holds up to 10. *)
LEMMA UpToTen ==
  ASSUME NEW S, 1 \in S, \A k \in 1..9 : k \in S => k + 1 \in S
  PROVE  \A k \in 1..10 : k \in S
<1>1. 2 \in S /\ 3 \in S /\ 4 \in S
  BY 1 + 1 = 2, 2 + 1 = 3, 3 + 1 = 4
<1>2. 5 \in S /\ 6 \in S /\ 7 \in S
  BY <1>1, 4 + 1 = 5, 5 + 1 = 6, 6 + 1 = 7
<1>3. 8 \in S /\ 9 \in S /\ 10 \in S
  BY <1>2, 7 + 1 = 8, 8 + 1 = 9, 9 + 1 = 10
<1> QED
  BY <1>1, <1>2, <1>3

(* r holds the first ten iterates of a function. *)
IteratesOf(r, D, G, x) == r \in [1..10 -> D] /\ r[1] = x /\ \A k \in 1..9 : r[k + 1] = G[r[k]]

(* They exist. *)
LEMMA Iterates ==
  ASSUME NEW D, NEW G \in [D -> D], NEW x \in D
  PROVE  \E r : IteratesOf(r, D, G, x)
<1>1. PICK x2 \in D, x3 \in D, x4 \in D : x2 = G[x] /\ x3 = G[x2] /\ x4 = G[x3]
  OBVIOUS
<1>2. PICK x5 \in D, x6 \in D, x7 \in D : x5 = G[x4] /\ x6 = G[x5] /\ x7 = G[x6]
  OBVIOUS
<1>3. PICK x8 \in D, x9 \in D, x10 \in D : x8 = G[x7] /\ x9 = G[x8] /\ x10 = G[x9]
  OBVIOUS
<1> DEFINE r == [k \in 1..10 |->
                   IF k = 1 THEN x ELSE IF k = 2 THEN x2 ELSE IF k = 3 THEN x3 ELSE IF k = 4 THEN x4
                   ELSE IF k = 5 THEN x5 ELSE IF k = 6 THEN x6 ELSE IF k = 7 THEN x7
                   ELSE IF k = 8 THEN x8 ELSE IF k = 9 THEN x9 ELSE x10]
<1>4. r \in [1..10 -> D]
  OBVIOUS
<1>5. /\ r[1] = x /\ r[2] = x2 /\ r[3] = x3 /\ r[4] = x4 /\ r[5] = x5
      /\ r[6] = x6 /\ r[7] = x7 /\ r[8] = x8 /\ r[9] = x9 /\ r[10] = x10
  OBVIOUS
<1> HIDE DEF r
<1>6. \A k \in 1..9 : \/ k = 1 \/ k = 2 \/ k = 3 \/ k = 4 \/ k = 5
                       \/ k = 6 \/ k = 7 \/ k = 8 \/ k = 9
  OBVIOUS
<1>7. \A k \in 1..9 : r[k + 1] = G[r[k]]
  <2> TAKE k \in 1..9
  <2>1. CASE k \in {1, 2, 3}
    BY <2>1, <1>1, <1>5
  <2>2. CASE k \in {4, 5, 6}
    BY <2>2, <1>2, <1>5
  <2>3. CASE k \in {7, 8, 9}
    BY <2>3, <1>3, <1>5
  <2> QED
    BY <1>6, <2>1, <2>2, <2>3
<1> QED
  BY <1>4, <1>5, <1>7 DEF IteratesOf

(* The recursive query outwards: each step adds the successors of the one before.       *)
LEMMA OutReachIs ==
  ASSUME edges \subseteq [src : Symbols, dst : Symbols, file : Files], NEW s
  PROVE  /\ OutReach(s)[1] = Outgoing({s})
         /\ \A k \in 1..9 : OutReach(s)[k + 1] = OutReach(s)[k] \cup Outgoing(OutReach(s)[k])
         /\ \A d : OutgoingNeighbors(s, d) = OutReach(s)[Depth(d)]
<1>1. PICK D : D = SUBSET Symbols
  OBVIOUS
<1>2. PICK G \in [D -> D] : \A S \in D : G[S] = S \cup Outgoing(S)
  <2> DEFINE G == [S \in D |-> S \cup Outgoing(S)]
  <2> G \in [D -> D] /\ \A S \in D : G[S] = S \cup Outgoing(S)
    BY <1>1 DEF Outgoing
  <2> QED
    OBVIOUS
<1>x. PICK x \in D : x = Outgoing({s})
  <2>1. Outgoing({s}) \in D
    BY <1>1 DEF Outgoing
  <2> QED
    BY <2>1, Zenon
<1>3. PICK r \in [1..10 -> D] : r[1] = x /\ \A k \in 1..9 : r[k + 1] = G[r[k]]
  <2>1. G \in [D -> D] /\ x \in D
    BY <1>2, <1>x
  <2>2. \E r : IteratesOf(r, D, G, x)
    BY <2>1, Iterates
  <2> QED
    BY <2>2 DEF IteratesOf
<1>4. \A k \in 1..9 : r[k + 1] = r[k] \cup Outgoing(r[k])
  BY <1>2, <1>3
<1>5. \A k \in 1..10 : r[k] = IF k = 1 THEN Outgoing({s}) ELSE r[k - 1] \cup Outgoing(r[k - 1])
  <2> TAKE k \in 1..10
  <2>1. CASE k = 1
    BY <2>1, <1>3, <1>x
  <2>2. CASE k # 1
    <3>1. k - 1 \in 1..9 /\ (k - 1) + 1 = k
      BY <2>2
    <3>2. r[(k - 1) + 1] = r[k - 1] \cup Outgoing(r[k - 1])
      BY <3>1, <1>4
    <3> QED
      BY <2>2, <3>1, <3>2
  <2> QED
    BY <2>1, <2>2
<1>6. r = [k \in 1..10 |-> IF k = 1 THEN Outgoing({s}) ELSE r[k - 1] \cup Outgoing(r[k - 1])]
  BY <1>3, <1>5
<1>7. OutReach(s) = [k \in 1..10 |-> IF k = 1 THEN Outgoing({s})
                                     ELSE OutReach(s)[k - 1] \cup Outgoing(OutReach(s)[k - 1])]
  BY <1>6, Zenon DEF OutReach
<1>8. \A d : OutgoingNeighbors(s, d) = OutReach(s)[Depth(d)]
  BY Zenon DEF OutgoingNeighbors, OutReach
<1>9. OutReach(s)[1] = Outgoing({s})
  BY <1>7
<1>10. ASSUME NEW k \in 1..9
       PROVE  OutReach(s)[k + 1] = OutReach(s)[k] \cup Outgoing(OutReach(s)[k])
  <2>1. k + 1 \in 1..10 /\ k + 1 # 1 /\ (k + 1) - 1 = k
    OBVIOUS
  <2> QED
    BY <1>7, <2>1
<1> QED
  BY <1>8, <1>9, <1>10

(* The same, inwards. *)
LEMMA InReachIs ==
  ASSUME edges \subseteq [src : Symbols, dst : Symbols, file : Files], NEW s
  PROVE  /\ InReach(s)[1] = Incoming({s})
         /\ \A k \in 1..9 : InReach(s)[k + 1] = InReach(s)[k] \cup Incoming(InReach(s)[k])
         /\ \A d : IncomingNeighbors(s, d) = InReach(s)[Depth(d)]
<1>1. PICK D : D = SUBSET Symbols
  OBVIOUS
<1>2. PICK G \in [D -> D] : \A S \in D : G[S] = S \cup Incoming(S)
  <2> DEFINE G == [S \in D |-> S \cup Incoming(S)]
  <2> G \in [D -> D] /\ \A S \in D : G[S] = S \cup Incoming(S)
    BY <1>1 DEF Incoming
  <2> QED
    OBVIOUS
<1>x. PICK x \in D : x = Incoming({s})
  <2>1. Incoming({s}) \in D
    BY <1>1 DEF Incoming
  <2> QED
    BY <2>1, Zenon
<1>3. PICK r \in [1..10 -> D] : r[1] = x /\ \A k \in 1..9 : r[k + 1] = G[r[k]]
  <2>1. G \in [D -> D] /\ x \in D
    BY <1>2, <1>x
  <2>2. \E r : IteratesOf(r, D, G, x)
    BY <2>1, Iterates
  <2> QED
    BY <2>2 DEF IteratesOf
<1>4. \A k \in 1..9 : r[k + 1] = r[k] \cup Incoming(r[k])
  BY <1>2, <1>3
<1>5. \A k \in 1..10 : r[k] = IF k = 1 THEN Incoming({s}) ELSE r[k - 1] \cup Incoming(r[k - 1])
  <2> TAKE k \in 1..10
  <2>1. CASE k = 1
    BY <2>1, <1>3, <1>x
  <2>2. CASE k # 1
    <3>1. k - 1 \in 1..9 /\ (k - 1) + 1 = k
      BY <2>2
    <3>2. r[(k - 1) + 1] = r[k - 1] \cup Incoming(r[k - 1])
      BY <3>1, <1>4
    <3> QED
      BY <2>2, <3>1, <3>2
  <2> QED
    BY <2>1, <2>2
<1>6. r = [k \in 1..10 |-> IF k = 1 THEN Incoming({s}) ELSE r[k - 1] \cup Incoming(r[k - 1])]
  BY <1>3, <1>5
<1>7. InReach(s) = [k \in 1..10 |-> IF k = 1 THEN Incoming({s})
                                     ELSE InReach(s)[k - 1] \cup Incoming(InReach(s)[k - 1])]
  BY <1>6, Zenon DEF InReach
<1>8. \A d : IncomingNeighbors(s, d) = InReach(s)[Depth(d)]
  BY Zenon DEF IncomingNeighbors, InReach
<1>9. InReach(s)[1] = Incoming({s})
  BY <1>7
<1>10. ASSUME NEW k \in 1..9
       PROVE  InReach(s)[k + 1] = InReach(s)[k] \cup Incoming(InReach(s)[k])
  <2>1. k + 1 \in 1..10 /\ k + 1 # 1 /\ (k + 1) - 1 = k
    OBVIOUS
  <2> QED
    BY <1>7, <2>1
<1> QED
  BY <1>8, <1>9, <1>10

(* A predecessor's predecessors are predecessors, one edge further.                    *)
LEMMA InReachGrows ==
  ASSUME GraphTyped, NEW e \in edges
  PROVE  \A k \in 1..9 : InReach(e.src)[k] \subseteq InReach(e.dst)[k + 1]
<1>1. /\ InReach(e.src)[1] = Incoming({e.src}) /\ InReach(e.dst)[1] = Incoming({e.dst})
      /\ \A k \in 1..9 : InReach(e.src)[k + 1] = InReach(e.src)[k] \cup Incoming(InReach(e.src)[k])
      /\ \A k \in 1..9 : InReach(e.dst)[k + 1] = InReach(e.dst)[k] \cup Incoming(InReach(e.dst)[k])
  BY InReachIs DEF GraphTyped
<1>2. \A S, T : S \subseteq T => Incoming(S) \subseteq Incoming(T)
  BY DEF Incoming
<1>3. e.src \in Incoming({e.dst})
  BY DEF Incoming
<1> DEFINE S == {k \in 1..10 : k \in 1..9 => InReach(e.src)[k] \subseteq InReach(e.dst)[k + 1]}
<1>4. 1 \in S
  <2>1. Incoming({e.src}) \subseteq Incoming(Incoming({e.dst}))
    BY <1>2, <1>3
  <2>2. InReach(e.dst)[1 + 1] = InReach(e.dst)[1] \cup Incoming(InReach(e.dst)[1])
    BY <1>1
  <2>3. InReach(e.src)[1] \subseteq InReach(e.dst)[1 + 1]
    BY <1>1, <2>1, <2>2
  <2> QED
    BY <2>3
<1>5. ASSUME NEW k \in 1..9, k \in S
      PROVE  k + 1 \in S
  <2>1. SUFFICES ASSUME k + 1 \in 1..9 PROVE InReach(e.src)[k + 1] \subseteq InReach(e.dst)[(k + 1) + 1]
    OBVIOUS
  <2>2. InReach(e.src)[k] \subseteq InReach(e.dst)[k + 1]
    BY <1>5
  <2>3. Incoming(InReach(e.src)[k]) \subseteq Incoming(InReach(e.dst)[k + 1])
    BY <1>2, <2>2
  <2>4. /\ InReach(e.src)[k + 1] = InReach(e.src)[k] \cup Incoming(InReach(e.src)[k])
        /\ InReach(e.dst)[(k + 1) + 1] = InReach(e.dst)[k + 1] \cup Incoming(InReach(e.dst)[k + 1])
    BY <1>1, <2>1
  <2> QED
    BY <2>2, <2>3, <2>4
<1>6. \A k \in 1..10 : k \in S
  <2> HIDE DEF S
  <2> QED
    BY <1>4, <1>5, UpToTen
<1> QED
  BY <1>6

(* A path outwards to a symbol is a path inwards from it.                              *)
LEMMA ReachBothWays ==
  ASSUME GraphTyped, Keys
  PROVE  \A k \in 1..10 : \A s, t : t \in OutReach(s)[k] => s \in InReach(t)[k] /\ t \in symbols
<1> DEFINE S == {k \in 1..10 : \A s, t : t \in OutReach(s)[k] => s \in InReach(t)[k] /\ t \in symbols}
<1>1. \A s : /\ OutReach(s)[1] = Outgoing({s}) /\ InReach(s)[1] = Incoming({s})
             /\ \A k \in 1..9 : OutReach(s)[k + 1] = OutReach(s)[k] \cup Outgoing(OutReach(s)[k])
             /\ \A k \in 1..9 : InReach(s)[k + 1] = InReach(s)[k] \cup Incoming(InReach(s)[k])
  BY OutReachIs, InReachIs DEF GraphTyped
<1>2. 1 \in S
  BY <1>1 DEF Outgoing, Incoming, Keys
<1>3. ASSUME NEW k \in 1..9, k \in S
      PROVE  k + 1 \in S
  <2>1. k + 1 \in 1..10
    OBVIOUS
  <2>2. ASSUME NEW s, NEW t, t \in OutReach(s)[k + 1]
        PROVE  s \in InReach(t)[k + 1] /\ t \in symbols
    <3>1. CASE t \in OutReach(s)[k]
      <4>1. s \in InReach(t)[k] /\ t \in symbols
        BY <1>3, <3>1
      <4> QED
        BY <1>1, <4>1
    <3>2. CASE t \in Outgoing(OutReach(s)[k])
      <4>1. PICK e \in edges : e.src \in OutReach(s)[k] /\ e.dst = t
        BY <3>2 DEF Outgoing
      <4>2. s \in InReach(e.src)[k]
        BY <1>3, <4>1
      <4>3. InReach(e.src)[k] \subseteq InReach(e.dst)[k + 1]
        BY InReachGrows
      <4> QED
        BY <4>1, <4>2, <4>3 DEF Keys
    <3> QED
      BY <1>1, <2>2, <3>1, <3>2
  <2> QED
    BY <2>1, <2>2
<1>4. \A k \in 1..10 : k \in S
  <2> HIDE DEF S
  <2> QED
    BY <1>2, <1>3, UpToTen
<1> QED
  BY <1>4

(* The filter by project keeps the symbol asked for, which is of the project. *)
LEMMA DependenciesImply ==
  ASSUME Typed, Keys
  PROVE  DependenciesAgree
<1> SUFFICES ASSUME NEW p \in Active, NEW n \in Names, NEW depth \in {0, 11},
                    NEW s \in GetSymbolByName(p, n), NEW scope \in Scopes,
                    NEW t \in LookupDependencies(p, n, s, "outgoing", depth, scope)
             PROVE  /\ AcceptByFileID(scope, t[1]) /\ (Postgres => t[1] \in FilesOf(p))
                    /\ s \in LookupDependencies(p, t[2], t, "incoming", depth, "all")
  BY DEF DependenciesAgree
<1>1. /\ GraphTyped /\ s \in symbols /\ s # None /\ (Postgres => s[1] \in FilesOf(p))
      /\ \A r \in symbols : r # None
  BY DEF Typed, GraphTyped, GetSymbolByName
<1>2. Depth(depth) \in 1..10
  BY DEF Depth
<1>3. /\ t \in OutgoingNeighbors(s, depth) /\ (Postgres => t[1] \in FilesOf(p))
      /\ AcceptByFileID(scope, t[1])
  BY <1>1 DEF LookupDependencies, GetSymbolByID, Neighbors
<1>4. t \in OutReach(s)[Depth(depth)]
  BY <1>1, <1>3, OutReachIs DEF GraphTyped
<1>5. s \in InReach(t)[Depth(depth)] /\ t \in symbols
  BY <1>1, <1>2, <1>4, ReachBothWays
<1>6. s \in IncomingNeighbors(t, depth)
  BY <1>1, <1>5, InReachIs DEF GraphTyped
<1>7. s \in LookupDependencies(p, t[2], t, "incoming", depth, "all")
  BY <1>1, <1>5, <1>6 DEF LookupDependencies, GetSymbolByID, Neighbors, AcceptByFileID
<1> QED
  BY <1>3, <1>7

------------------------------------------------------------------------------
(* The invariant of every behaviour *)

Inv == /\ Typed /\ Works /\ Keys /\ Resolves /\ Logs /\ Texts /\ UsesHold
       /\ Orderly => Versions

(* The empty database. *)
LEMMA InvInit == Init => Inv
<1> SUFFICES ASSUME Init PROVE Inv
  OBVIOUS
<1>1. /\ \A p \in Projects : job[p] = NoJob /\ phase[p] = "down" /\ todo[p] = {} /\ bulk[p] = "none"
      /\ \A f \in Files : row[f] = None /\ chunk[f] = None /\ logged[f] = {} /\ orphans[f] = {}
      /\ \A p \in Projects : algo[p] = 1
      /\ symbols = {} /\ edges = {} /\ pending = {} /\ found = {} /\ unseen = {} /\ torn = {} /\ unlogged = {}
  BY DEF Init
<1>2. Typed
  <2>1. RowsTyped /\ GraphTyped /\ TextTyped
    BY DEF Init, RowsTyped, GraphTyped, TextTyped
  <2>2. job \in [Projects -> JobType]
    BY NoJobTyped DEF Init
  <2>3. DaemonsTyped
    BY <2>2 DEF Init, DaemonsTyped, Phases
  <2> QED
    BY <2>1, <2>3 DEF Typed
<1>3. \A p \in Projects : Idle(p)
  BY <1>1 DEF Idle, NoJob
<1>4. Works
  BY <1>1, <1>3 DEF Works, DaemonHolds, JobHolds
<1>5. Keys /\ Resolves
  BY <1>1 DEF Keys, Resolves
<1>6. Logs
  <2>1. \A f \in Files : job[ProjectOf[f]] = NoJob /\ logged[f] = {}
    BY <1>1, Zenon DEF Projects
  <2>3. NoJob.pc = "idle"
    BY DEF NoJob
  <2>2. \A f \in Files : OldSymbols(f) = {}
    BY <1>1 DEF OldSymbols
  <2> QED
    BY <2>1, <2>2, <2>3 DEF Logs, LogHolds, Gives
<1>7. Indexed = {}
  BY <1>1 DEF Indexed
<1>8. Texts /\ UsesHold
  BY <1>1, <1>7 DEF Texts, UsesHold
<1>9. Versions
  <2>1. \A p \in Projects : ConfigOf(p) \in Projects \cup {Shared}
    BY Sets
  <2>2. \A p \in Projects : GetConfig(p) = 0
    BY <2>1 DEF Init, GetConfig
  <2> QED
    BY <1>1, <2>2, Sets DEF Versions, VersionHolds, AllParsedBy, Active
<1> QED
  BY <1>2, <1>4, <1>5, <1>6, <1>8, <1>9 DEF Inv

(* Every step keeps the invariant. *)
LEMMA InvNext == Inv /\ [Next]_vars => Inv'
<1> SUFFICES ASSUME Inv, [Next]_vars PROVE Inv'
  OBVIOUS
<1>1. CASE Next
  <2>1. Typed'
    BY <1>1, RowsTypedNext, GraphTypedNext, TextTypedNext, DaemonsTypedNext, Zenon DEF Inv, Typed
  <2>2. Works' /\ Keys' /\ Resolves' /\ Logs' /\ Texts' /\ UsesHold'
    BY <1>1, WorksNext, KeysNext, LogsNext, TextsNext, UsesNext, Zenon DEF Inv
  <2>3. (Orderly => Versions)'
    <3>1. Orderly' <=> Orderly
      BY <1>1, Kinds, OtherFiles DEF Inv, Orderly, Typed
    <3> QED
      BY <1>1, <3>1, VersionsNext, Zenon DEF Inv
  <2> QED
    BY <2>1, <2>2, <2>3, Zenon DEF Inv
<1>2. CASE UNCHANGED vars
  <2>1. Typed' /\ Works' /\ Keys' /\ Resolves'
    BY <1>2 DEF Inv, vars, Typed, RowsTyped, GraphTyped, TextTyped, DaemonsTyped, Works, DaemonHolds,
       JobHolds, Idle, OldSymbols, Keys, Resolves, Active
  <2>2. Logs' /\ Texts' /\ UsesHold'
    BY <1>2 DEF Inv, vars, Logs, LogHolds, Gives, OldSymbols, Texts, Indexed, Postgres, UsesHold, UseHolds,
       HasEdge, Waits, Used
  <2>3. (Orderly => Versions)'
    BY <1>2 DEF Inv, vars, Orderly, Versions, VersionHolds, Alone, Sqlite, Active, GetConfig, ConfigOf,
       Postgres, AllParsedBy
  <2> QED
    BY <2>1, <2>2, <2>3 DEF Inv
<1> QED
  BY <1>1, <1>2

(* The invariant of every behaviour, from which the rest follows. *)
THEOREM Invariant == Spec => []Inv
  BY InvInit, InvNext, PTL DEF Spec

(* GraphIsResolved is weaker than its invariant: a job on a file keeps the file torn. *)
LEMMA ResolvesImply ==
  ASSUME Inv
  PROVE  GraphIsResolved
<1> USE DEF Inv
<1>1. TypeOK
  BY DEF TypeOK, Typed, RowsTyped, GraphTyped, DaemonsTyped, Keys, Phases, JobType
<1>2. \A e \in edges : Language[e.src[1]] = Language[e.dst[1]]
  BY DEF Resolves
<1>3. \A q \in pending, s \in symbols :
        (s[2] = q.name /\ Language[s[1]] = q.lang /\ ProjectOf[s[1]] = ProjectOf[q.file]) => s[1] \in torn
  BY DEF Resolves
<1> QED
  BY <1>1, <1>2, <1>3 DEF GraphIsResolved

(* Types and foreign keys hold; edges stay in their language; between jobs no use waits  *)
(* for a symbol of its own project and language that exists, unless the job that      *)
(* wrote it failed (ResolvePendingEdges, lookupSymbolIDTx, lookupSymbolIDPg).       *)
THEOREM GraphResolved == Spec => []GraphIsResolved
<1>1. Inv => GraphIsResolved
  BY ResolvesImply
<1> QED
  BY Invariant, <1>1, PTL

(* Replaying a file's diff log gives its symbols, and besides them only names that the  *)
(* parser once found outside every chunk of the file; unless an entry was lost        *)
(* (computeAndRecordDiff, recordAddDiff).                                       *)
THEOREM LogAlwaysReplays == Spec => []LogReplays
<1>1. Inv => LogReplays
  <2> SUFFICES ASSUME Inv, NEW f \in Files \ unlogged, Idle(ProjectOf[f])
               PROVE  Gives(f, OldSymbols(f))
    BY DEF LogReplays, Gives
  <2> QED
    BY DEF Inv, Logs, LogHolds, Idle
<1> QED
  BY Invariant, <1>1, PTL

(* Outside a bulk write the full-text index holds exactly the chunks, but those written   *)
(* while a failed transaction left it without triggers (OnBulkWriteBegin,            *)
(* OnBulkWriteEnd).                                                          *)
THEOREM TextIndexExact == Spec => []FtsExact
<1>1. Inv => FtsExact
  BY TextsImply DEF Inv
<1> QED
  BY Invariant, <1>1, PTL

(* While a project that is alone in its database watches, every chunk is of its parser's   *)
(* version, unless a purge is given up or an upgrade precedes the first recorded       *)
(* version (ensureParserVersion).                                              *)
THEOREM ChunksOfTheParser == Spec => [](Orderly => VersionHonest)
<1>1. Inv => (Orderly => VersionHonest)
  <2> SUFFICES ASSUME Inv, Orderly, Alone, NEW p \in Active, NEW f \in Files,
                      phase[p] = "watching", f \in FilesOf(p), chunk[f] # None
               PROVE  chunk[f].algo = algo[p]
    BY DEF VersionHonest
  <2> QED
    BY DEF Inv, Versions, VersionHolds, AllParsedBy
<1> QED
  BY Invariant, <1>1, PTL

(* Of a name without a definition, every use in a file that was written without an error   *)
(* is among its callers, unless its edge went with the definition; of a symbol, what   *)
(* depends on it is what it is a dependency of (LookupSymbols, Neighbors).           *)
THEOREM LookupsAlwaysRight == Spec => []LookupsRight
<1>1. Inv => LookupsRight
  BY UsesImply, DependenciesImply DEF Inv, LookupsRight
<1> QED
  BY Invariant, <1>1, PTL

(* The database implements the symbol graph that storage/storetest asks of every backend.  *)
THEOREM SymbolGraphImplemented == Spec => ImplementsSymbolGraph
<1>1. Init => Graph!Init
  BY DEF Init, Graph!Init
<1>2. Inv /\ [Next]_vars => [Graph!Next]_(Graph!vars)
  <2>1. CASE Next
    BY <2>1, GraphNext DEF Inv, Graph!vars
  <2>2. CASE UNCHANGED vars
    BY <2>2 DEF vars, Graph!vars
  <2> QED
    BY <2>1, <2>2 DEF Inv
<1> QED
  BY Invariant, <1>1, <1>2, PTL DEF Spec, ImplementsSymbolGraph, Graph!Spec
=============================================================================
