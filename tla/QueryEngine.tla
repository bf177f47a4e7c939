---------------------------- MODULE QueryEngine ----------------------------
(***************************************************************************)
(* Search and context queries (internal/core: engine, retrieval, fallback, *)
(* assembler, session), asked by the MCP handlers (mcp/tools.go) while     *)
(* files are re-indexed beside them.  A query reads the store several      *)
(* times, without a transaction: it takes chunk ids from the full-text     *)
(* index and the vectors, then reads their rows, then their siblings.      *)
(*                                                                         *)
(* Layout[f] gives, generation after generation of file f, the sequence of *)
(* its chunks' rows [name, kind, decl, first, last, tokens]; a chunk's id  *)
(* is <<file, generation, place>> and is live in that generation only.     *)
(* decl names the declaration in the source a chunk was cut from.  Scores  *)
(* are abstracted: a ranking is any order, a least score cuts it anywhere. *)
(* A result is [id, parts, tokens]: a chunk, or a chunk standing for all   *)
(* its siblings; a file of the filesystem fallback has place 0, no parts.  *)
(***************************************************************************)
EXTENDS Integers, Sequences, FiniteSets, SequencesExt, FiniteSetsExt

CONSTANTS
  Calls,            \* tool calls, each on a goroutine of its own
  Queries,          \* what each may ask: [tool, names, max, min, scope, under, budget]
  Files, TestFiles, Layout,
  Tree,             \* the project's source files as WalkDir meets them
  FileTokens,       \* and their size
  LongestLine,      \* what truncateChunk counts for a chunk's first line, at most
  FallbackBudget,   \* Search's budget for the fallback: 4096
  ContextResults,   \* candidates of a context query: 200
  OverfetchCap, FtsCap,
  SessionSize, CacheSize

Inputs ==
  [tool : {"search", "context"}, names : SUBSET STRING, max : Nat, min : BOOLEAN,
   scope : {"impl", "test", "all"}, under : SUBSET Files, budget : Nat]
ChunkRecords == [name : STRING, kind : STRING, decl : STRING, first : Nat, last : Nat, tokens : Nat]

(* The handler refuses a context budget below 256. *)
ASSUME QueryAssumption ==
  /\ IsFiniteSet(Files) /\ TestFiles \subseteq Files
  /\ Layout \in [Files -> Seq(Seq(ChunkRecords)) \ {<<>>}]
  /\ Tree \in Seq(Files) /\ IsInjective(Tree) /\ FileTokens \in [Files -> Nat]
  /\ \A c \in Calls : \A q \in Queries[c] : q \in Inputs /\ (q.tool = "context" => q.budget > 0)
  /\ SessionSize \in Nat \ {0} /\ CacheSize \in Nat \ {0} /\ OverfetchCap \in Nat
  /\ ContextResults \in Nat \ {0} /\ FallbackBudget \in Nat \ {0}
  /\ LongestLine \in Nat

VARIABLES
  gen,         \* generation of each file in the store, 0 before any
  vecs,        \* chunk ids in the vector store
  session,     \* SessionStore.order, least recent first: [key, count, last]
  generation,  \* SessionStore.generation
  cache,       \* EmbedCache.order: queries, least recent first
  call,        \* the state of each call
  log          \* history: the hits of each RecordAndDecay

vars == <<gen, vecs, session, generation, cache, call, log>>
index == <<gen, vecs>>
recorded == <<session, generation, log>>

------------------------------------------------------------------------------
(* Rows and results *)

Row(id) == Layout[id[1]][id[2]][id[3]]
Chunks(f) == IF gen[f] = 0 THEN {} ELSE {<<f, gen[f], i>> : i \in DOMAIN Layout[f][gen[f]]}
Live == UNION {Chunks(f) : f \in Files}

(* GetSiblingChunks: same file, same name, same kind. *)
Siblings(id) ==
  {s \in Chunks(id[1]) : Row(s).name = Row(id).name /\ Row(s).kind = Row(id).kind}

(* TestFilter.AcceptIsTest under ScopeToFilter. *)
Accepts(scope, f) ==
  CASE scope = "test" -> f \in TestFiles
    [] scope = "all"  -> TRUE
    [] OTHER          -> f \notin TestFiles

(* The rows of one generation of a file that are among the parts, added up. *)
TokensOf(id, parts) ==
  LET rows == Layout[id[1]][id[2]]
      sum[k \in 0..Len(rows)] ==
        IF k = 0 THEN 0
        ELSE sum[k - 1] + (IF <<id[1], id[2], k>> \in parts THEN rows[k].tokens ELSE 0)
  IN  sum[Len(rows)]
Merged(id, parts) == [id |-> id, parts |-> parts, tokens |-> TokensOf(id, parts)]
Single(id) == Merged(id, {id})
Ids(results) == {r.id : r \in results}

FirstLine(r) == IF r.parts = {} THEN 1 ELSE Min({Row(p).first : p \in r.parts})
LastLine(r)  == IF r.parts = {} THEN 1 ELSE Max({Row(p).last : p \in r.parts})
Total(chunks) ==
  LET sum[i \in 0..Len(chunks)] == IF i = 0 THEN 0 ELSE sum[i - 1] + chunks[i].tokens
  IN  sum[Len(chunks)]

(* The elements of s that are in T, in their order. *)
Only(s, T) ==
  LET kept[i \in 0..Len(s)] ==
        IF i = 0 THEN <<>>
        ELSE IF s[i] \in T THEN Append(kept[i - 1], s[i]) ELSE kept[i - 1]
  IN  kept[Len(s)]
Take(s, n) == SubSeq(s, 1, Min({n, Len(s)}))
SubsetsUpTo(S, n) == {T \in SUBSET S : Cardinality(T) = Min({n, Cardinality(S)})}

(* The orders sort.Slice may give, scores unknown. *)
Rankings(results) == SetToSeqs(results)

(* filterByScore of a ranking. *)
Scored(ranking, min) ==
  IF min THEN {SubSeq(ranking, 1, n) : n \in 0..Len(ranking)} ELSE {ranking}

------------------------------------------------------------------------------
(* ExpandSplitSiblings *)

IsNamed(id) == Row(id).name # "" /\ Row(id).kind # "header"
Group(r) ==
  IF IsNamed(r.id) /\ Cardinality(Siblings(r.id)) > 1 THEN Siblings(r.id) ELSE {}

(* Mutant: only the fragments found are joined. *)
MergeFoundOnly(results) ==
  LET groups == {Group(r) : r \in {x \in results : x.id \in Group(x)}}
      alone == {r \in results : r.id \notin Group(r)}
      Found(g) == g \cap Ids(results)
  IN  alone \cup {Merged(CHOOSE id \in Found(g) : TRUE, Found(g)) : g \in groups}

(* mergeSiblings: each group once, for one of the fragments found. *)
MergeSiblings(results) ==
  LET groups == {Group(r) : r \in {x \in results : x.id \in Group(x)}}
      alone == {r \in results : r.id \notin Group(r)}
  IN  alone \cup {Merged(CHOOSE id \in g : id \in Ids(results), g) : g \in groups}

------------------------------------------------------------------------------
(* FilesystemFallback, Assemble *)

(* A file is read whole, or as far as the budget goes. *)
ReadFile(acc, f) ==
  LET tokens == Min({FileTokens[f], acc.left})
  IN  IF acc.left <= 0 THEN acc
      ELSE [left |-> acc.left - tokens,
            chunks |-> Append(acc.chunks, [id |-> <<f, 0, 0>>, parts |-> {}, tokens |-> tokens])]

(* A file that cannot be read, or comes after the end of the context, is not    *)
(* `readable` and is skipped.                                                *)
FilesystemFallback(budget, readable) ==
  LET read[i \in 0..Len(Tree)] ==
        IF i = 0 THEN [left |-> budget, chunks |-> <<>>]
        ELSE IF Tree[i] \in readable THEN ReadFile(read[i - 1], Tree[i])
        ELSE read[i - 1]
  IN  read[Len(Tree)].chunks

(* hasLineOverlap: more than half of c's lines are those of a chunk chosen. *)
HasLineOverlap(c, chosen) ==
  \E s \in Range(chosen) :
     /\ s.id[1] = c.id[1]
     /\ 2 * (Min({LastLine(c), LastLine(s)}) - Max({FirstLine(c), FirstLine(s)}) + 1)
          > LastLine(c) - FirstLine(c) + 1

(* The greedy pass; `cut` is what truncateChunk counts for the text it keeps. *)
Consider(acc, c, cut) ==
  IF acc.left <= 0 \/ HasLineOverlap(c, acc.chunks) THEN acc
  ELSE IF c.tokens > acc.left /\ acc.chunks = <<>>
  THEN [acc EXCEPT !.chunks = <<[c EXCEPT !.tokens = cut]>>, !.left = 0, !.truncated = TRUE]
  ELSE [acc EXCEPT !.chunks = Append(@, c), !.left = @ - c.tokens,
                   !.overflow = @ \/ c.tokens > acc.left]

Pack(candidates, budget, cut) ==
  LET start == [chunks |-> <<>>, left |-> budget, truncated |-> FALSE, overflow |-> FALSE]
      pack[i \in 0..Len(candidates)] ==
        IF i = 0 THEN start ELSE Consider(pack[i - 1], candidates[i], cut)
  IN  pack[Len(candidates)]

(* A neighbour is added when it fits. *)
AddNeighbour(acc, c) ==
  IF c.tokens <= acc.left
  THEN [left |-> acc.left - c.tokens, chunks |-> Append(acc.chunks, c)]
  ELSE acc

(* Mutant: the share is computed without dividing. *)
ExpandWholeBudget(package, neighbours) ==
  LET add[i \in 0..Len(neighbours)] ==
        IF i = 0 THEN [left |-> package.left * 30, chunks |-> package.chunks]
        ELSE AddNeighbour(add[i - 1], neighbours[i])
  IN  IF package.left <= 0 THEN package
      ELSE [package EXCEPT !.chunks = add[Len(neighbours)].chunks]

(* structuralExpand: neighbours of the chosen among the candidates, in 30% of *)
(* what is left.                                                             *)
StructuralExpand(package, neighbours) ==
  LET add[i \in 0..Len(neighbours)] ==
        IF i = 0 THEN [left |-> (package.left * 30) \div 100, chunks |-> package.chunks]
        ELSE AddNeighbour(add[i - 1], neighbours[i])
  IN  IF package.left <= 0 THEN package
      ELSE [package EXCEPT !.chunks = add[Len(neighbours)].chunks]

(* What truncateChunk may count: whole lines within the budget, but the first *)
(* line in any case.                                                        *)
Cuts(budget) == (1..budget) \cup (budget..LongestLine)

(* Assemble: every package it may return for a ranking. *)
Packages(candidates, budget) ==
  LET Expanded(package) ==
        LET others == {c \in Range(candidates) :
                         c.parts # {} /\ c.id \notin Ids(Range(package.chunks))}
        IN  {StructuralExpand(package, Only(candidates, near)) : near \in SUBSET others}
  IN  UNION {Expanded(Pack(candidates, budget, cut)) : cut \in Cuts(budget)}

------------------------------------------------------------------------------
(* SessionStore, EmbedCache *)

Places(s, key) == {i \in DOMAIN s : s[i].key = key}
Evict(s) == IF Len(s) >= SessionSize THEN Tail(s) ELSE s

(* Mutant: a hit of an entry leaves it where it is. *)
RecordInPlace(s, key, g) ==
  IF Places(s, key) = {} THEN Append(Evict(s), [key |-> key, count |-> 1, last |-> g])
  ELSE LET i == Min(Places(s, key))
       IN  [s EXCEPT ![i].count = @ + 1, ![i].last = g]

RecordHit(s, key, g) ==
  IF Places(s, key) = {} THEN Append(Evict(s), [key |-> key, count |-> 1, last |-> g])
  ELSE LET i == Min(Places(s, key))
       IN  Append(RemoveAt(s, i), [s[i] EXCEPT !.count = @ + 1, !.last = g])

(* The hits of one query, in the order of its results. *)
RecordHits(s, hits, g) ==
  LET after[i \in 0..Len(hits)] == IF i = 0 THEN s ELSE RecordHit(after[i - 1], hits[i], g)
  IN  after[Len(hits)]

RecordAndDecay(hits) ==
  /\ generation' = generation + 1
  /\ session' = RecordHits(session, hits, generation + 1)
  /\ log' = Append(log, hits)

SessionKey(r) == <<r.id[1], FirstLine(r)>>

MoveToBack(c, q) == Append(Remove(c, q), q)
CachePut(c, q) ==
  IF Contains(c, q) THEN MoveToBack(c, q)
  ELSE Append(IF Len(c) >= CacheSize THEN Tail(c) ELSE c, q)

------------------------------------------------------------------------------
(* What a query asks of the engine *)

SearchOverfetchLimit(q) ==
  IF q.under = {} THEN q.max ELSE Min({3 * q.max, OverfetchCap})
MaxResults(q) == IF q.tool = "search" THEN SearchOverfetchLimit(q) ELSE ContextResults
FtsLimit(q, limit) == IF q.scope = "all" THEN limit ELSE Min({2 * limit, FtsCap})

(* FilterByPathPrefix. *)
FilterByPathPrefix(q, chunks) ==
  IF q.under = {} THEN chunks
  ELSE Take(Only(chunks, {r \in Range(chunks) : r.id[1] \in q.under}), q.max)

Idle == [pc |-> "idle"]
Becomes(c, state) == call' = [call EXCEPT ![c] = state]

(* The end of a call: what the tool answers, and from where. *)
Answer(c, source, chunks, flagged) ==
  LET s == call[c]
  IN  Becomes(c, [s EXCEPT !.pc = "done", !.hits = {}, !.found = {}, !.ranked = <<>>,
                    !.source = source, !.flagged = flagged, !.until = gen,
                    !.chunks = IF s.ask.tool = "search"
                               THEN FilterByPathPrefix(s.ask, chunks) ELSE chunks])
Fails(c) == Answer(c, "error", <<>>, FALSE)

(* The fallback fails when the project's root cannot be resolved. *)
AnswerFiles(c, budget) ==
  \/ \E readable \in SUBSET Range(Tree) :
       Answer(c, "files", FilesystemFallback(budget, readable), FALSE)
  \/ Fails(c)

------------------------------------------------------------------------------
(* The steps of a call *)

DetermineLevel(ready) ==
  IF Live = {} THEN "filesystem"
  ELSE IF ready /\ vecs # {} /\ 5 * Cardinality(vecs) >= Cardinality(Live) THEN "semantic"
  ELSE "keyword"

(* Search, Context: the level is fixed by the counts at this moment; when they *)
(* cannot be read, it is the filesystem.                                     *)
Ask(c, q, ready) ==
  /\ call[c] = Idle
  /\ \E plan \in {DetermineLevel(ready), "filesystem"} :
       Becomes(c, [pc |-> IF plan = "filesystem" THEN "files" ELSE "fts", ask |-> q,
                   plan |-> plan, since |-> gen, until |-> gen, hits |-> {}, found |-> {},
                   ranked |-> <<>>, chunks |-> <<>>, source |-> "none", flagged |-> FALSE,
                   expanded |-> FALSE])
  /\ UNCHANGED <<index, recorded, cache>>

(* At the filesystem's level a call has no other source. *)
ReadFiles(c) ==
  LET s == call[c] IN
  /\ s.pc = "files"
  /\ AnswerFiles(c, IF s.ask.tool = "search" THEN FallbackBudget ELSE s.ask.budget)
  /\ UNCHANGED <<index, recorded, cache>>

(* store.KeywordSearch; a semantic search asks for twice as many. *)
Fts(c) ==
  LET s == call[c]
      wanted == MaxResults(s.ask) * (IF s.plan = "semantic" THEN 2 ELSE 1)
      matching == {id \in Live : Row(id).name \in s.ask.names}
  IN  /\ s.pc = "fts"
      /\ \/ \E hits \in SubsetsUpTo(matching, FtsLimit(s.ask, wanted)) :
              Becomes(c, [s EXCEPT !.pc = "hydrate", !.hits = hits])
         \/ Fails(c)
      /\ UNCHANGED <<index, recorded, cache>>

(* hydrateFTSResults, and what each path does with the rows it got. *)
Hydrate(c) ==
  LET s == call[c]
      found == {Single(id) : id \in {h \in s.hits \cap Live : Accepts(s.ask.scope, h[1])}}
      next == IF s.plan = "semantic" THEN "embed"
              ELSE IF s.ask.tool = "context" /\ s.plan = "keyword" THEN "rank" ELSE "expand"
  IN  /\ s.pc = "hydrate"
      /\ \/ /\ s.plan = "semantic" \/ found # {}
            /\ Becomes(c, [s EXCEPT !.pc = next, !.hits = {}, !.found = found])
         \/ /\ s.plan # "semantic" /\ found = {} /\ s.ask.tool = "search"
            /\ AnswerFiles(c, FallbackBudget)
         \/ /\ s.plan = "keyword" /\ found = {} /\ s.ask.tool = "context"
            /\ AnswerFiles(c, s.ask.budget)
         \/ /\ s.plan = "retry" /\ found = {} /\ s.ask.tool = "context"
            /\ \E readable \in SUBSET Range(Tree) :
                 LET files == FilesystemFallback(FallbackBudget, readable)
                 IN  IF files = <<>> THEN AnswerFiles(c, s.ask.budget)
                     ELSE Becomes(c, [s EXCEPT !.pc = "assemble", !.hits = {}, !.ranked = files])
         \/ s.hits # {} /\ Fails(c)
      /\ UNCHANGED <<index, recorded, cache>>

(* searchSemantic gives up and runs searchKeyword. *)
Retry(c) ==
  Becomes(c, [call[c] EXCEPT !.pc = "fts", !.plan = "retry", !.hits = {}, !.found = {}])

(* embedQuery: from the cache, or asked of the embedder. *)
EmbedQuery(c) ==
  LET s == call[c] IN
  /\ s.pc = "embed"
  /\ IF Contains(cache, s.ask.names)
     THEN cache' = MoveToBack(cache, s.ask.names) /\ Becomes(c, [s EXCEPT !.pc = "vector"])
     ELSE cache' = cache /\ Becomes(c, [s EXCEPT !.pc = "embedding"])
  /\ UNCHANGED <<index, recorded>>

Embedded(c) ==
  LET s == call[c] IN
  /\ s.pc = "embedding"
  /\ \/ cache' = CachePut(cache, s.ask.names) /\ Becomes(c, [s EXCEPT !.pc = "vector"])
     \/ cache' = cache /\ Retry(c)
  /\ UNCHANGED <<index, recorded>>

(* vectorStore.Search. *)
VectorSearch(c) ==
  LET s == call[c] IN
  /\ s.pc = "vector"
  /\ \/ \E near \in SubsetsUpTo(vecs, 2 * MaxResults(s.ask)) :
          Becomes(c, [s EXCEPT !.pc = "merge", !.hits = near])
     \/ Retry(c)
  /\ UNCHANGED <<index, recorded, cache>>

(* Mutant: vector-only candidates skip the filter. *)
MergeUnfiltered(c) ==
  LET s == call[c]
      more == (s.hits \ Ids(s.found)) \cap Live
  IN  /\ s.pc = "merge"
      /\ \E got \in SUBSET more :
           Becomes(c, [s EXCEPT !.pc = "expand", !.hits = {},
                         !.found = @ \cup {Single(id) : id \in got}])
      /\ UNCHANGED <<index, recorded, cache>>

(* mergeResults: the rows of the vector-only candidates; if the batch fails, *)
(* those the per-item path can read.                                        *)
Merge(c) ==
  LET s == call[c]
      more == {id \in (s.hits \ Ids(s.found)) \cap Live : Accepts(s.ask.scope, id[1])}
  IN  /\ s.pc = "merge"
      /\ \E got \in SUBSET more :
           Becomes(c, [s EXCEPT !.pc = "expand", !.hits = {},
                         !.found = @ \cup {Single(id) : id \in got}])
      /\ UNCHANGED <<index, recorded, cache>>

(* ExpandSplitSiblings; a failed query leaves the fragments. *)
Expand(c) ==
  LET s == call[c] IN
  /\ s.pc = "expand"
  /\ \/ Becomes(c, [s EXCEPT !.pc = "rank", !.found = MergeSiblings(@), !.expanded = TRUE])
     \/ Becomes(c, [s EXCEPT !.pc = "rank"])
  /\ UNCHANGED <<index, recorded, cache>>

(* HybridRank and recordSession; only a semantic search trims.  contextKeyword *)
(* does not record.                                                          *)
Rank(c) ==
  LET s == call[c]
      Trimmed(r) == IF s.plan = "semantic" THEN Take(r, MaxResults(s.ask)) ELSE r
  IN  /\ s.pc = "rank"
      /\ \E ranking \in Rankings(s.found) : \E ranked \in Scored(Trimmed(ranking), s.ask.min) :
           /\ IF s.ask.tool = "context" /\ s.plan = "keyword" THEN UNCHANGED recorded
              ELSE RecordAndDecay([i \in DOMAIN ranked |-> SessionKey(ranked[i])])
           /\ IF s.ask.tool = "search" THEN Answer(c, "index", ranked, FALSE)
              ELSE IF ranked = <<>> THEN AnswerFiles(c, s.ask.budget)
              ELSE Becomes(c, [s EXCEPT !.pc = "assemble", !.found = {}, !.ranked = ranked])
      /\ UNCHANGED <<index, cache>>

(* contextSemantic and contextKeyword end in Assemble. *)
AssembleContext(c) ==
  LET s == call[c]
      source == IF \E r \in Range(s.ranked) : r.parts = {} THEN "files" ELSE "index"
  IN  /\ s.pc = "assemble"
      /\ \E package \in Packages(s.ranked, s.ask.budget) :
           Answer(c, source, package.chunks, package.truncated \/ package.overflow)
      /\ UNCHANGED <<index, recorded, cache>>

------------------------------------------------------------------------------
(* The index changes meanwhile: a file is re-indexed, its new chunks are *)
(* embedded, the vectors of its old ones are deleted later.  Bound: the  *)
(* project is indexed before the calls or after them.                    *)

Reindex(f) ==
  /\ gen[f] \in 1..(Len(Layout[f]) - 1)
  /\ gen' = [gen EXCEPT ![f] = @ + 1]
  /\ UNCHANGED <<vecs, recorded, cache, call>>

EmbedChunks ==
  /\ vecs' = vecs \cup Live /\ vecs' # vecs
  /\ UNCHANGED <<gen, recorded, cache, call>>

DropStaleVectors ==
  /\ vecs' = vecs \cap Live /\ vecs' # vecs
  /\ UNCHANGED <<gen, recorded, cache, call>>

------------------------------------------------------------------------------
Init ==
  /\ gen \in {[f \in Files |-> g] : g \in {0, 1}}
  /\ vecs \in {{}, Live}
  /\ session = <<>> /\ generation = 0 /\ log = <<>>
  /\ cache = <<>>
  /\ call = [c \in Calls |-> Idle]

Step(c) ==
  \/ \E q \in Queries[c], ready \in BOOLEAN : Ask(c, q, ready)
  \/ call[c] # Idle
     /\ \/ ReadFiles(c) \/ Fts(c) \/ Hydrate(c) \/ EmbedQuery(c) \/ Embedded(c) \/ VectorSearch(c)
        \/ Merge(c) \/ Expand(c) \/ Rank(c) \/ AssembleContext(c)

Next ==
  \/ \E c \in Calls : Step(c)
  \/ \E f \in Files : Reindex(f)
  \/ EmbedChunks
  \/ DropStaleVectors

Spec == Init /\ [][Next]_vars

------------------------------------------------------------------------------
(* Properties *)

Done == {c \in Calls : call[c].pc = "done"}
FromIndex == {c \in Done : call[c].source = "index"}

(* Whatever re-indexing happened during the call, an answer from the index     *)
(* holds only what was asked for (scope, path, and with a path at most         *)
(* max_results), only rows that were in the store at some time during the      *)
(* call, no chunk's text twice, and each result's text is of one generation of *)
(* its file and includes the chunk that was found.                             *)
AnswersSound ==
  \A c \in FromIndex :
     LET s == call[c]
         Sound(r) ==
           /\ Accepts(s.ask.scope, r.id[1])
           /\ s.ask.tool = "search" /\ s.ask.under # {} => r.id[1] \in s.ask.under
           /\ r.id \in r.parts
           /\ \A p \in r.parts : p[1] = r.id[1] /\ p[2] = r.id[2]
           /\ s.since[r.id[1]] <= r.id[2] /\ r.id[2] <= s.until[r.id[1]]
     IN  /\ \A i \in DOMAIN s.chunks : Sound(s.chunks[i])
         /\ \A i, j \in DOMAIN s.chunks :
              i # j => s.chunks[i].parts \cap s.chunks[j].parts = {}
         /\ s.ask.tool = "search" /\ (s.plan = "semantic" \/ s.ask.under # {})
              => Len(s.chunks) <= s.ask.max

(* Where the sibling query succeeded, a symbol split by the chunker is        *)
(* answered whole; a fragment alone is of a file re-indexed before the answer *)
(* (engine.go:179, "Expand split method fragments into complete methods").    *)
AnswersWhole ==
  \A c \in FromIndex : \A i \in DOMAIN call[c].chunks :
     LET r == call[c].chunks[i]
         rows == {<<r.id[1], r.id[2], k>> : k \in DOMAIN Layout[r.id[1]][r.id[2]]}
         whole == {p \in rows : /\ IsNamed(r.id)
                                /\ Row(p).name = Row(r.id).name
                                /\ Row(p).kind = Row(r.id).kind} \cup {r.id}
     IN  call[c].expanded => r.parts = whole \/ r.id[2] < call[c].until[r.id[1]]

(* The session store is what its queries, in the order of their atomic         *)
(* RecordAndDecay, make it: the SessionSize most recently hit places, the most *)
(* recent last, each with the number of the last query that hit it, which      *)
(* Score reads the decay from, whatever the calls' interleaving.  A hit is     *)
(* <<n, m>>, the m-th of query n, and the latest are the last of their place;  *)
(* at[i] is the one that entry i remembers.                                    *)
Hits(queries) == UNION {{<<n, m>> : m \in DOMAIN queries[n]} : n \in DOMAIN queries}
Later(p, q) == p[1] > q[1] \/ (p[1] = q[1] /\ p[2] > q[2])
Latest(hits, queries) ==
  {p \in hits : \A q \in hits : Later(q, p) => queries[q[1]][q[2]] # queries[p[1]][p[2]]}
Remembers(s, at, latest, queries) ==
  /\ \A i \in DOMAIN s : s[i].key = queries[at[i][1]][at[i][2]] /\ s[i].last = at[i][1]
  /\ \A i, j \in DOMAIN s : i < j => Later(at[j], at[i])
  /\ \A p \in latest : \/ \E i \in DOMAIN s : at[i] = p
                       \/ (Len(s) = SessionSize /\ \A i \in DOMAIN s : Later(at[i], p))
SessionFollowsQueries ==
  LET latest == Latest(Hits(log), log)
  IN  /\ generation = Len(log) /\ Len(session) <= SessionSize
      /\ \E at \in [DOMAIN session -> latest] : Remembers(session, at, latest, log)

(* A context package is empty only when the index gave no candidate and no     *)
(* file could be read; one that says nothing keeps to the budget, and one that *)
(* overflows does so by its last chunk alone (assembler.go:92, "Surface lossy  *)
(* or over-budget assembly so callers can react").                             *)
ContextHonest ==
  \A c \in Done :
     LET s == call[c] IN
     s.ask.tool = "context" /\ s.source # "error" =>
        /\ s.chunks = <<>> => s.source = "files"
        /\ ~s.flagged => Total(s.chunks) <= s.ask.budget
        /\ s.flagged => Total(Front(s.chunks)) < s.ask.budget
        /\ \A i, j \in DOMAIN s.chunks : i # j => s.chunks[i].id # s.chunks[j].id

------------------------------------------------------------------------------
(* Statements of the documents and comments that the code does not keep *)

(* retrieval.go:203, "detected by the presence of sibling chunks", "complete   *)
(* methods": a result is text of one declaration.                              *)
OneDeclaration ==
  \A c \in FromIndex : \A i \in DOMAIN call[c].chunks :
     \A p, q \in call[c].chunks[i].parts : Row(p).decl = Row(q).decl

(* queryparams.go:62, "the engine returns exactly maxResults". *)
AtMostMaxResults ==
  \A c \in FromIndex : call[c].ask.tool = "search" => Len(call[c].chunks) <= call[c].ask.max

(* mcp/tools.go:60, "Excludes test files by default". *)
FallbackKeepsScope ==
  \A c \in Done : \A i \in DOMAIN call[c].chunks :
     Accepts(call[c].ask.scope, call[c].chunks[i].id[1])
=============================================================================
