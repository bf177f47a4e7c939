---------------------------- MODULE IndexDatabase ----------------------------
(***************************************************************************)
(* The metadata database: the rows that processEnrichmentJob writes in six     *)
(* transactions (file, chunks, symbols, diff, edges), the graph of symbols,     *)
(* the full-text index around a bulk write, the recorded version of the         *)
(* parser, and what the lookups answer.                                       *)
(*                                                                         *)
(*   sqlite    one database per project; text index kept by triggers           *)
(*   postgres  one database for all projects; text index is a generated column  *)
(*                                                                         *)
(* A file has one chunk, which stands for all of its chunks; a symbol is its    *)
(* file and its name.  A process is one project's daemon.                      *)
(***************************************************************************)
EXTENDS Naturals, FiniteSets

CONSTANTS
  Files, Names, Contents,
  ProjectOf, Language,   \* [Files -> ...]; the language follows from the path
  Tests,                 \* the files whose path is that of a test
  Parsed, Defs, Uses,    \* of a content: the names of the parser's symbols, those of them
                         \* that lie in a chunk, and its uses, pairs of names
  Setups,                \* the setups that are run: [db, files, faults], faults a subset
                         \* of {"fail", "read", "purge", "crash", "upgrade", "early"}
  MaxOps, MaxAlgo,       \* bounds: bulk runs and events, versions of the parser
  None, Shared

Projects  == {ProjectOf[f] : f \in Files}
Symbols   == Files \X Names
FilesOf(p) == {f \in Files : ProjectOf[f] = p}

ASSUME DatabaseAssumption ==
  /\ IsFiniteSet(Files) /\ Shared \notin Projects
  /\ None \notin Contents /\ None \notin Symbols /\ None \notin [content : Contents, algo : Nat]
  /\ MaxOps \in Nat /\ MaxAlgo \in Nat \ {0}
  /\ \A c \in Contents : Defs[c] \subseteq Parsed[c] /\ Parsed[c] \subseteq Names
                         /\ Uses[c] \subseteq Names \X Names
  /\ \A s \in Setups : \/ s.db = "postgres"
                       \/ s.db = "sqlite" /\ \E p \in Projects : s.files \subseteq FilesOf(p)

VARIABLES
  setup,
  row,        \* [Files -> content whose hash is in the row]
  chunk,      \* [Files -> [content, algo] its chunks were made from]
  symbols, edges, pending,
  logged,     \* [Files -> the names that the entries of diff_log, replayed, leave]
  triggers, found,           \* FTS: the triggers exist; files whose chunks are in the index
  version,    \* the table config: parser_algorithm_version, 0 when absent
  phase, algo, todo, job, bulk,   \* the daemons, their IndexAll, their writer
  ops,                  \* bound: runs of IndexAll and events of the watcher so far
  torn, unlogged, orphans, cut, unseen
                        \* history: files whose last job failed, files with a diff that
                        \* was lost, [Files -> the names that were logged for symbols
                        \* outside every chunk], uses whose edge went with its target,
                        \* chunks inserted without triggers outside a bulk write

vars == <<setup, row, chunk, symbols, edges, pending, logged, triggers, found,
          version, phase, algo, todo, job, bulk, ops, torn, unlogged, orphans, cut, unseen>>
graph  == <<symbols, edges, pending, cut>>
text   == <<triggers, found, unseen>>
log    == <<logged, unlogged, orphans>>
daemon == <<phase, algo, todo, bulk, version, ops>>

Postgres  == setup.db = "postgres"
Sqlite    == setup.db = "sqlite"
Active    == {p \in Projects : FilesOf(p) \cap setup.files # {}}
ConfigOf(p) == IF Postgres THEN Shared ELSE p
NoJob     == [pc |-> "idle", file |-> None, content |-> None, old |-> {}, index |-> FALSE]
Idle(p)   == job[p].pc = "idle"
Quiet     == \A p \in Projects : Idle(p)

Init ==
  /\ setup \in Setups
  /\ row = [f \in Files |-> None] /\ chunk = row
  /\ logged = [f \in Files |-> {}] /\ orphans = logged
  /\ symbols = {} /\ edges = {} /\ pending = {}
  /\ triggers = TRUE /\ found = {}
  /\ version = [s \in Projects \cup {Shared} |-> 0]
  /\ phase = [p \in Projects |-> "down"] /\ algo = [p \in Projects |-> 1]
  /\ todo = [p \in Projects |-> {}] /\ job = [p \in Projects |-> NoJob]
  /\ bulk = [p \in Projects |-> "none"] /\ ops = 0
  /\ torn = {} /\ unlogged = {} /\ cut = {} /\ unseen = {}

------------------------------------------------------------------------------
(* ON DELETE CASCADE: from files and chunks to symbols, from symbols to edges     *)
(* (both ends) and to pending edges (their source).                          *)
CascadeSymbols(f) ==
  LET gone == {s \in symbols : s[1] = f} IN
  /\ symbols' = symbols \ gone
  /\ edges' = {e \in edges : e.src \notin gone /\ e.dst \notin gone}
  /\ pending' = {q \in pending : q.src \notin gone}
  /\ cut' = {u \in cut : u.src[1] # f} \cup
            {[src |-> e.src, name |-> e.dst[2]] :
               e \in {e \in edges : e.dst \in gone /\ e.src \notin gone}}

(* The file's row and all that refers to it: chunks, symbols, edges, diff log. *)
DeleteFileByPath(f) ==
  /\ row' = [row EXCEPT ![f] = None] /\ chunk' = [chunk EXCEPT ![f] = None]
  /\ logged' = [logged EXCEPT ![f] = {}] /\ orphans' = [orphans EXCEPT ![f] = {}]
  /\ found' = found \ {f} /\ unseen' = unseen \ {f}
  /\ torn' = torn \ {f} /\ unlogged' = unlogged \ {f}
  /\ CascadeSymbols(f)
  /\ UNCHANGED triggers

------------------------------------------------------------------------------
(* The writer: processEnrichmentJob, one transaction per action *)

Then(p, from, to) == job[p].pc = from /\ job' = [job EXCEPT ![p].pc = to]

(* Mutant: the old symbols are read when the chunks are gone. *)
OldSymbolsTooLate(f) == {}

(* buildOldSymbols, before the chunks and their symbols go. *)
OldSymbols(f) == {n \in Names : <<f, n>> \in symbols}

(* The hash guard has passed; UpsertFile.  When the old row or its symbols cannot be   *)
(* read, the job goes on as if there were none.                                   *)
UpsertFile(p, f, c, index) ==
  /\ Idle(p) /\ f \in FilesOf(p) \cap setup.files /\ row[f] # c
  /\ row' = [row EXCEPT ![f] = c]
  /\ \E old \in {OldSymbols(f), {}} :
       /\ IF old = OldSymbols(f) THEN UNCHANGED unlogged
          ELSE "read" \in setup.faults /\ unlogged' = unlogged \cup {f}
       /\ job' = [job EXCEPT ![p] = [pc |-> "delete", file |-> f, content |-> c,
                                     old |-> old, index |-> index]]
  /\ torn' = torn \cup {f}
  /\ UNCHANGED <<setup, chunk, graph, logged, orphans, text>>

DeleteChunksByFile(p) ==
  /\ Then(p, "delete", "insert")
  /\ chunk' = [chunk EXCEPT ![job[p].file] = None]
  /\ CascadeSymbols(job[p].file)
  /\ found' = found \ {job[p].file} /\ unseen' = unseen \ {job[p].file}
  /\ UNCHANGED <<setup, row, log, triggers, daemon, torn>>

(* The trigger chunks_fts_insert, when it is there. *)
SqliteIndexes(f) == IF triggers THEN {f} ELSE {}

(* content_tsv is GENERATED ALWAYS. *)
PostgresIndexes(f) == {f}

InsertChunks(p) ==
  LET f == job[p].file
      indexed == IF Postgres THEN PostgresIndexes(f) ELSE SqliteIndexes(f) IN
  /\ Then(p, "insert", "symbols")
  /\ chunk' = [chunk EXCEPT ![f] = [content |-> job[p].content, algo |-> algo[p]]]
  /\ found' = found \cup indexed
  /\ unseen' = IF bulk[p] # "open" THEN unseen \cup ({f} \ indexed) ELSE unseen
  /\ UNCHANGED <<setup, row, graph, log, triggers, daemon, torn>>

(* Symbols outside every chunk are skipped. *)
InsertSymbols(p) ==
  /\ Then(p, "symbols", "diff")
  /\ symbols' = symbols \cup {<<job[p].file, n>> : n \in Defs[job[p].content]}
  /\ UNCHANGED <<setup, row, chunk, edges, pending, cut, log, text, daemon, torn>>

(* The entries of diff_symbols: a removed name for each old symbol that the parser   *)
(* did not find, an added one for each new one that it did, in a chunk or not.       *)
Removed(old, c) == old \ Parsed[c]
Added(old, c)   == Parsed[c] \ old

(* recordAddDiff or computeAndRecordDiff; the error of its transaction is ignored. *)
RecordDiff(p) ==
  LET f == job[p].file  c == job[p].content  old == job[p].old IN
  /\ \/ /\ Then(p, "diff", "edges")
        /\ logged' = [logged EXCEPT ![f] = (@ \ Removed(old, c)) \cup Added(old, c)]
        /\ orphans' = [orphans EXCEPT ![f] = @ \cup (Parsed[c] \ Defs[c])]
        /\ UNCHANGED unlogged
     \/ /\ "fail" \in setup.faults /\ Then(p, "diff", "edges")
        /\ unlogged' = unlogged \cup {f} /\ UNCHANGED <<logged, orphans>>
  /\ UNCHANGED <<setup, row, chunk, graph, text, daemon, torn>>

------------------------------------------------------------------------------
(* The edges of a job: one transaction of three calls *)

(* Mutant: when the language has no such symbol, any other is taken. *)
LookupAnyLanguage(n, lang) ==
  LET same == {s \in symbols : s[2] = n /\ Language[s[1]] = lang} IN
  IF same # {} THEN same ELSE {s \in symbols : s[2] = n}

(* lookupSymbolIDTx beyond the file itself: a symbol of the source's language, or   *)
(* none.                                                                     *)
SqliteLookup(n, lang) == {s \in symbols : s[2] = n /\ Language[s[1]] = lang}

(* lookupSymbolIDPg: the same within the process's own project. *)
PostgresLookup(p, n, lang) ==
  {s \in symbols : s[2] = n /\ Language[s[1]] = lang /\ s[1] \in FilesOf(p)}

Lookup(p, n, lang) == IF Postgres THEN PostgresLookup(p, n, lang) ELSE SqliteLookup(n, lang)

(* LIMIT 1 without ORDER BY: the answers to the lookups of one transaction. *)
Picks(p, asked) ==
  {pick \in [asked -> symbols \cup {None}] : \A k \in asked :
     LET S == Lookup(p, k[1], k[2]) IN IF S = {} THEN pick[k] = None ELSE pick[k] \in S}

(* The uses of a content that have a source among its symbols. *)
Used(c) == {u \in Uses[c] : u[1] \in Defs[c]}

(* The job's own symbols first, by name; then the lookup. *)
Target(f, c, n, pick) == IF n \in Defs[c] THEN <<f, n>> ELSE pick[<<n, Language[f]>>]

InsertedEdges(f, c, pick) ==
  {[src |-> <<f, u[1]>>, dst |-> Target(f, c, u[2], pick), file |-> f] :
     u \in {u \in Used(c) : Target(f, c, u[2], pick) # None}}

InsertedPending(f, c, pick) ==
  {[src |-> <<f, u[1]>>, name |-> u[2], lang |-> Language[f], file |-> f] :
     u \in {u \in Used(c) : Target(f, c, u[2], pick) = None}}

(* ResolvePendingEdges: the rows that wait for one of the new symbols' names - in   *)
(* PostgreSQL those of every project - and for which the lookup has an answer.     *)
Resolvable(rows, c, pick) ==
  {q \in rows : q.name \in Defs[c] /\ pick[<<q.name, q.lang>>] # None}

(* Mutant: the edge belongs to the file of its target. *)
ResolvedForTarget(rows, pick) ==
  {[src |-> q.src, dst |-> pick[<<q.name, q.lang>>], file |-> pick[<<q.name, q.lang>>][1]] : q \in rows}

Resolved(rows, pick) ==
  {[src |-> q.src, dst |-> pick[<<q.name, q.lang>>], file |-> q.file] : q \in rows}

(* Mutant: every row that waits for one of the names is deleted. *)
StillPendingByName(rows, c, pick) == {q \in rows : q.name \notin Defs[c]}

StillPending(rows, c, pick) == rows \ Resolvable(rows, c, pick)

DeleteEdgesByFile(f) == {e \in edges : e.file # f}

WriteEdges(p) ==
  LET f == job[p].file  c == job[p].content
      asked == {<<u[2], Language[f]>> : u \in Used(c)} \cup
               {<<q.name, q.lang>> : q \in {q \in pending : q.name \in Defs[c]}} IN
  /\ job[p].pc = "edges" /\ job' = [job EXCEPT ![p] = NoJob]
  /\ \E pick \in Picks(p, asked) :
       LET rows == pending \cup InsertedPending(f, c, pick) IN
       /\ edges' = DeleteEdgesByFile(f) \cup InsertedEdges(f, c, pick)
                     \cup Resolved(Resolvable(rows, c, pick), pick)
       /\ pending' = StillPending(rows, c, pick)
  /\ torn' = torn \ {f}
  /\ UNCHANGED <<setup, row, chunk, symbols, cut, log, text, daemon>>

(* A transaction fails: the job is given up where it stands. *)
GivenUp(p) ==
  /\ job' = [job EXCEPT ![p] = NoJob]
  /\ unlogged' = IF job[p].pc \in {"insert", "symbols", "diff"}
                   THEN unlogged \cup {job[p].file} ELSE unlogged

JobFails(p) ==
  /\ "fail" \in setup.faults /\ ~Idle(p) /\ GivenUp(p)
  /\ UNCHANGED <<setup, row, chunk, graph, logged, orphans, text, daemon, torn>>

------------------------------------------------------------------------------
(* Full-text search of SQLite around a bulk write; IndexAll *)

Indexed == {f \in Files : chunk[f] # None}

(* Mutant: the triggers come back, what was written without them is not indexed. *)
RebuildFTSNot == found

(* INSERT INTO chunks_fts(chunks_fts) VALUES('rebuild') *)
RebuildFTS == Indexed

DisableFTSTriggers == triggers' = (Postgres /\ triggers)
EnableFTSTriggers  == triggers' = TRUE

(* The scan's files that differ from their row; None: not on disk. *)
BulkBegin(p) ==
  /\ phase[p] \in {"cold", "watching"} /\ bulk[p] = "none" /\ ops < MaxOps
  /\ \E disk \in [FilesOf(p) \cap setup.files -> Contents \cup {None}] :
       LET changed == {f \in DOMAIN disk : disk[f] \notin {None, row[f]}} IN
       /\ changed # {}
       /\ todo' = [todo EXCEPT ![p] = {[file |-> f, content |-> disk[f]] : f \in changed}]
  /\ bulk' = [bulk EXCEPT ![p] = "open"] /\ ops' = ops + 1
  /\ DisableFTSTriggers
  /\ UNCHANGED <<setup, row, chunk, graph, log, found, unseen, version, phase, algo, job, torn>>

Returned(p) == phase' = IF phase[p] = "cold" THEN [phase EXCEPT ![p] = "indexed"] ELSE phase

NothingToIndex(p) ==
  /\ phase[p] = "cold" /\ bulk[p] = "none" /\ Returned(p)
  /\ UNCHANGED <<setup, row, chunk, graph, log, text, version, algo, todo, job, bulk, ops, torn>>

IndexFile(p) ==
  \E t \in todo[p] :
    /\ UpsertFile(p, t.file, t.content, TRUE)
    /\ todo' = [todo EXCEPT ![p] = @ \ {t}]
    /\ UNCHANGED <<phase, algo, bulk, version, ops>>

(* The hash guard, or an error of the parser. *)
SkipFile(p) ==
  \E t \in todo[p] :
    /\ row[t.file] = t.content \/ "fail" \in setup.faults
    /\ todo' = [todo EXCEPT ![p] = @ \ {t}]
    /\ UNCHANGED <<setup, row, chunk, graph, log, text, phase, algo, bulk, version, ops, job, torn>>

(* Behind the sync job, OnBulkWriteEnd's first transaction. *)
BulkEnd(p) ==
  /\ bulk[p] = "open" /\ todo[p] = {} /\ ~job[p].index
  /\ IF Postgres
       THEN bulk' = [bulk EXCEPT ![p] = "none"] /\ Returned(p) /\ UNCHANGED <<found, unseen>>
       ELSE \/ /\ found' = RebuildFTS /\ unseen' = {}
               /\ bulk' = [bulk EXCEPT ![p] = "rebuilt"] /\ UNCHANGED phase
            \/ /\ "fail" \in setup.faults /\ unseen' = Indexed \ found /\ UNCHANGED found
               /\ bulk' = [bulk EXCEPT ![p] = "none"] /\ Returned(p)
  /\ UNCHANGED <<setup, row, chunk, graph, log, triggers, version, algo, todo, job, ops, torn>>

(* OnBulkWriteEnd's second transaction. *)
BulkTriggers(p) ==
  /\ bulk[p] = "rebuilt" /\ bulk' = [bulk EXCEPT ![p] = "none"] /\ Returned(p)
  /\ EnableFTSTriggers \/ ("fail" \in setup.faults /\ UNCHANGED triggers)
  /\ UNCHANGED <<setup, row, chunk, graph, log, found, unseen, version, algo, todo, job, ops, torn>>

------------------------------------------------------------------------------
(* A daemon: start, parser version, cold index, watcher *)

(* COUNT( * ) of an external-content table counts the rows of its content table:     *)
(* both counts are those of chunks.                                            *)
FtsCount   == Cardinality(Indexed)
IsFTSStale == Cardinality(Indexed) # FtsCount

OnStartup(p) ==
  /\ phase[p] = "down" /\ p \in Active /\ phase' = [phase EXCEPT ![p] = "started"]
  /\ EnableFTSTriggers
  /\ IF IsFTSStale THEN found' = RebuildFTS /\ unseen' = {} ELSE UNCHANGED <<found, unseen>>
  /\ UNCHANGED <<setup, row, chunk, graph, log, version, algo, todo, job, bulk, ops, torn>>

GetConfig(p)    == version[ConfigOf(p)]
SetConfig(p, v) == version' = [version EXCEPT ![ConfigOf(p)] = v]

Outdated(p) == GetConfig(p) \notin {0, algo[p]}

(* Mutant: the version is recorded when it is found to differ. *)
PurgeBeginsWithConfig(p) ==
  /\ phase[p] = "started" /\ Outdated(p)
  /\ \E f \in FilesOf(p) : row[f] # None /\ DeleteFileByPath(f)
  /\ SetConfig(p, algo[p])
  /\ UNCHANGED <<setup, phase, algo, todo, bulk, ops, job>>

(* ensureParserVersion: one file of the purge. *)
PurgeFile(p) ==
  /\ phase[p] = "started" /\ Outdated(p)
  /\ \E f \in FilesOf(p) : row[f] # None /\ DeleteFileByPath(f)
  /\ UNCHANGED <<setup, daemon, job>>

(* Its end; an error ends it too, with a warning. *)
VersionChecked(p) ==
  /\ phase[p] = "started" /\ phase' = [phase EXCEPT ![p] = "cold"]
  /\ \/ ~Outdated(p) \/ \A f \in FilesOf(p) : row[f] = None
     \/ "purge" \in setup.faults
  /\ UNCHANGED <<setup, row, chunk, graph, log, text, version, algo, todo, job, bulk, ops, torn>>

(* After the cold index: the version is recorded, the watcher starts. *)
RecordVersion(p) ==
  /\ phase[p] = "indexed" /\ phase' = [phase EXCEPT ![p] = "watching"]
  /\ SetConfig(p, algo[p])
  /\ UNCHANGED <<setup, row, chunk, graph, log, text, algo, todo, job, bulk, ops, torn>>

(* The watcher's job for a file that was saved, during a branch switch too. *)
WatchFile(p) ==
  /\ phase[p] = "watching" /\ ops < MaxOps /\ ops' = ops + 1
  /\ \E f \in Files, c \in Contents : UpsertFile(p, f, c, FALSE)
  /\ UNCHANGED <<phase, algo, todo, bulk, version>>

(* The watcher's job for a file that is gone. *)
DeleteFile(p) ==
  /\ phase[p] = "watching" /\ Idle(p) /\ ops < MaxOps /\ ops' = ops + 1
  /\ \E f \in FilesOf(p) : row[f] # None /\ DeleteFileByPath(f)
  /\ UNCHANGED <<setup, phase, algo, todo, bulk, version, job>>

(* The process stops between two jobs, or dies. *)
Halt(p) ==
  /\ phase[p] # "down" /\ ("crash" \in setup.faults \/ (Idle(p) /\ bulk[p] = "none"))
  /\ phase' = [phase EXCEPT ![p] = "down"] /\ todo' = [todo EXCEPT ![p] = {}]
  /\ bulk' = [bulk EXCEPT ![p] = "none"] /\ GivenUp(p)
  /\ unseen' = IF bulk[p] = "open" THEN unseen \cup (Indexed \ found) ELSE unseen
  /\ UNCHANGED <<setup, row, chunk, graph, logged, orphans, triggers, found, version, algo, ops, torn>>

(* A release with another ChunkAlgorithmVersion; "early": before a first cold       *)
(* index was completed.                                                        *)
Upgrade(p) ==
  /\ "upgrade" \in setup.faults /\ phase[p] = "down" /\ algo[p] < MaxAlgo
  /\ GetConfig(p) # 0 \/ "early" \in setup.faults
  /\ algo' = [algo EXCEPT ![p] = @ + 1]
  /\ UNCHANGED <<setup, row, chunk, graph, log, text, version, phase, todo, job, bulk, ops, torn>>

Next == \E p \in Projects :
  \/ DeleteChunksByFile(p) \/ InsertChunks(p) \/ InsertSymbols(p) \/ RecordDiff(p)
  \/ WriteEdges(p) \/ JobFails(p) \/ BulkBegin(p) \/ NothingToIndex(p) \/ IndexFile(p)
  \/ SkipFile(p) \/ BulkEnd(p) \/ BulkTriggers(p) \/ OnStartup(p) \/ PurgeFile(p)
  \/ VersionChecked(p) \/ RecordVersion(p) \/ WatchFile(p) \/ DeleteFile(p)
  \/ Halt(p) \/ Upgrade(p)

Spec == Init /\ [][Next]_vars

------------------------------------------------------------------------------
(* What a process's lookups answer *)

GetSymbolByName(p, n) == {s \in symbols : s[2] = n /\ (Postgres => s[1] \in FilesOf(p))}

GetSymbolByID(p, ids) == {s \in ids : Postgres => s[1] \in FilesOf(p)}

Outgoing(S) == {e.dst : e \in {e \in edges : e.src \in S}}
Incoming(S) == {e.src : e \in {e \in edges : e.dst \in S}}

Depth(n) == IF n < 1 THEN 1 ELSE IF n > 10 THEN 10 ELSE n

(* The recursive query: the symbols within k edges. *)
OutgoingNeighbors(s, depth) ==
  LET reach[k \in 1..10] ==
        IF k = 1 THEN Outgoing({s}) ELSE LET near == reach[k - 1] IN near \cup Outgoing(near)
  IN reach[Depth(depth)]

IncomingNeighbors(s, depth) ==
  LET reach[k \in 1..10] ==
        IF k = 1 THEN Incoming({s}) ELSE LET near == reach[k - 1] IN near \cup Incoming(near)
  IN reach[Depth(depth)]

Neighbors(s, depth, direction) ==
  (IF direction \in {"outgoing", "both"} THEN OutgoingNeighbors(s, depth) ELSE {}) \cup
  (IF direction \in {"incoming", "both"} THEN IncomingNeighbors(s, depth) ELSE {})

(* Of every project. *)
PendingEdgeCallers(n) == {q.src : q \in {q \in pending : q.name = n}}

(* TestFilter: scope "all", "impl" or "test". *)
Scopes == {"all", "impl", "test"}
AcceptByFileID(scope, f) == scope = "all" \/ (scope = "test" <=> f \in Tests)

(* first: the definition that GetSymbolByName lists first. *)
LookupDependencies(p, n, first, direction, depth, scope) ==
  LET near == IF first = None THEN {} ELSE Neighbors(first, depth, direction)
      waiting == IF near = {} /\ direction # "outgoing" THEN PendingEdgeCallers(n) ELSE {}
  IN {s \in GetSymbolByID(p, near \cup waiting) : AcceptByFileID(scope, s[1])}

(* The callers that LookupSymbols lists for a name without a definition in any scope. *)
ReferencedBy(p, n, scope) ==
  IF GetSymbolByName(p, n) # {} THEN {}
  ELSE {s \in GetSymbolByID(p, PendingEdgeCallers(n)) : AcceptByFileID(scope, s[1])}

SqliteKeywordSearch      == found \cap Indexed
PostgresKeywordSearch(p) == found \cap FilesOf(p)
KeywordSearch(p) == IF Postgres THEN PostgresKeywordSearch(p) ELSE SqliteKeywordSearch

------------------------------------------------------------------------------
(* Types and foreign keys: a row's content, and no symbol, edge or pending edge    *)
(* that refers to a row which is gone (the schema's ON DELETE CASCADE).           *)
TypeOK ==
  /\ row \in [Files -> Contents \cup {None}] /\ symbols \subseteq Symbols
  /\ phase \in [Projects -> {"down", "started", "cold", "indexed", "watching"}]
  /\ job \in [Projects -> [pc : {"idle", "delete", "insert", "symbols", "diff", "edges"},
                           file : Files \cup {None}, content : Contents \cup {None},
                           old : SUBSET Names, index : BOOLEAN]]
  /\ \A f \in Files : row[f] = None => chunk[f] = None
  /\ \A s \in symbols : chunk[s[1]] # None
  /\ \A e \in edges : e.src \in symbols /\ e.dst \in symbols /\ e.file = e.src[1]
  /\ \A q \in pending : q.src \in symbols /\ q.file = q.src[1]

(* Types and foreign keys hold.  An edge stays in its language; between jobs no use waits for a symbol of its own  *)
(* project and language that exists, unless the job that wrote it failed            *)
(* (ResolvePendingEdges, lookupSymbolIDTx, lookupSymbolIDPg).                     *)
GraphIsResolved ==
  /\ TypeOK
  /\ \A e \in edges : Language[e.src[1]] = Language[e.dst[1]]
  /\ \A q \in pending, s \in symbols :
       (s[2] = q.name /\ Language[s[1]] = q.lang /\ ProjectOf[s[1]] = ProjectOf[q.file])
         => s[1] \in torn \/ ~Idle(ProjectOf[s[1]])

(* A project is alone in its database. *)
Alone == Sqlite \/ Cardinality(Active) = 1

(* A name without a definition: every use of it in a file of the scope that was written *)
(* without an error is among the callers, unless its edge went when a definition was deleted *)
(* (LookupSymbols' "check pending_edges for references").                         *)
CallersFound ==
  Alone /\ Quiet =>
    \A p \in Active : \A f \in (FilesOf(p) \cap Indexed) \ torn : \A u \in Used(row[f]) :
        \A scope \in Scopes : GetSymbolByName(p, u[2]) = {} /\ AcceptByFileID(scope, f)
          => \/ <<f, u[1]>> \in ReferencedBy(p, u[2], scope)
             \/ [src |-> <<f, u[1]>>, name |-> u[2]] \in cut

(* Every dependency listed is a symbol of the process's own project and of the scope,   *)
(* though edges lead elsewhere, and lists the symbol in turn when asked the other way *)
(* in every scope (Neighbors, GetSymbolByID, TestFilter).                   *)
DependenciesAgree ==
  \A p \in Active, n \in Names, depth \in {0, 11} : \A s \in GetSymbolByName(p, n) :
    \A scope \in Scopes : \A t \in LookupDependencies(p, n, s, "outgoing", depth, scope) :
      /\ AcceptByFileID(scope, t[1]) /\ (Postgres => t[1] \in FilesOf(p))
      /\ s \in LookupDependencies(p, t[2], t, "incoming", depth, "all")

(* Both ways of looking at the graph are right: of a name without a definition and     *)
(* of a symbol (core/lookup.go).                                                  *)
LookupsRight == CallersFound /\ DependenciesAgree

(* The graph is one that every backend promises (storage/storetest). *)
Graph == INSTANCE SymbolGraph
ImplementsSymbolGraph == Graph!Spec

(* Outside a bulk write every chunk is found, but those written between its two        *)
(* transactions or after one that failed (OnBulkWriteBegin, OnBulkWriteEnd).        *)
FtsExact ==
  \A p \in Active : bulk[p] # "open" /\ phase[p] # "down"
    => KeywordSearch(p) \cap FilesOf(p) = (Indexed \cap FilesOf(p)) \ unseen

(* While the watcher runs, all chunks are of the running version of the parser       *)
(* (ensureParserVersion: "every file is deleted").                               *)
VersionHonest ==
  Alone => \A p \in Active, f \in Files :
    phase[p] = "watching" /\ f \in FilesOf(p) /\ chunk[f] # None => chunk[f].algo = algo[p]

(* Replaying a file's diff log gives its symbols, and besides them only names that     *)
(* the parser once found outside every chunk of the file; unless an entry was lost    *)
(* (computeAndRecordDiff, recordAddDiff: the old names are read from the tables, the  *)
(* new ones are the parser's).                                                   *)
LogReplays ==
  \A f \in Files \ unlogged : Idle(ProjectOf[f]) =>
    OldSymbols(f) \subseteq logged[f] /\ logged[f] \ OldSymbols(f) \subseteq orphans[f]

(* LogReplays without its exception for orphans. *)
LogIsExact ==
  \A f \in Files \ unlogged : Idle(ProjectOf[f]) => logged[f] = OldSymbols(f)

(* "cross-project edges cannot exist" (postgres/graph.go:155). *)
EdgesInProject ==
  \A e \in edges : ProjectOf[e.src[1]] = ProjectOf[e.dst[1]]

(* "OnStartup performs crash recovery: ... rebuilds the FTS index if it is stale"       *)
(* (lifecycle.go:26-27).                                                         *)
StartupRecovers ==
  \A p \in Active : phase[p] \in {"started", "cold", "watching"} /\ bulk[p] = "none"
    => KeywordSearch(p) \cap FilesOf(p) = Indexed \cap FilesOf(p)

(* VersionHonest, of projects that share a database as well. *)
VersionHonestShared ==
  \A p \in Active, f \in Files :
    phase[p] = "watching" /\ f \in FilesOf(p) /\ chunk[f] # None => chunk[f].algo = algo[p]
==============================================================================
