------------------------------ MODULE Chunker ------------------------------
(***************************************************************************)
(* The parser's own part of indexing a file (internal/parser): a           *)
(* tree-sitter tree is cut into chunks, its symbols are assigned to the    *)
(* chunks that hold them, its calls become edges, and the writer links     *)
(* what it is given (daemon/writer.go:285).  A tree is a record of its     *)
(* root's                                                                  *)
(*   type, name, first, last   node type, declared name, first, last line  *)
(*   body                      line at which its body begins               *)
(*   kids                      its named children, in order                *)
(*   decl                      which of them is its field declaration, or 0 *)
(* The text of a chunk is the sequence of the source lines it holds; Member *)
(* stands for the line of a signature that lists a member, Blank for the    *)
(* empty line between two merged chunks.  A file's weight gives each source *)
(* line its tokens; a Member is one.                                       *)
(***************************************************************************)
EXTENDS Integers, Sequences, FiniteSets, SequencesExt

CONSTANTS
  Files,          \* parsed files: records [root, weight]
  Nodes,          \* LanguageConfig.Nodes: node type -> NodeMeta
  Wrappers,       \* <<ExportType, AmbientType>> of the language
  MaxChunkTokens, MinChunkTokens, MaxChunkDepth, MaxASTDepth

ASSUME LimitAssumption ==
  /\ MinChunkTokens \in Nat /\ MaxChunkTokens \in Nat
  /\ MinChunkTokens < MaxChunkTokens
  /\ MaxChunkDepth \in Nat /\ MaxASTDepth \in Nat

VARIABLES
  file,      \* the file at hand
  stage,     \* how far Parse and the writer are
  chunks,    \* its chunks; ChunkIndex is the place, from 0
  symbols,   \* its symbols: [name, line, chunk], chunk -1 when none holds it
  edges      \* its call edges: [src, dst]

vars == <<file, stage, chunks, symbols, edges>>

NoParent == -1        \* ParentIndex nil
NoChunk == -1         \* what findContainingChunk answers when there is none
Meta(n) == Nodes[n.type]
Member == 0
Blank == -1
Lines(first, last) == [i \in 1..(last - first + 1) |-> first + i - 1]

(* tokenCounter.Count of a chunk's text. *)
Weight(w, item) == IF item = Blank THEN 0 ELSE IF item = Member THEN 1 ELSE w[item]
Tokens(w, content) == FoldLeft(LAMBDA sum, item : sum + Weight(w, item), 0, content)

------------------------------------------------------------------------------
(* Names and wrappers *)

(* findDeclarationChild: the wrapped declaration, as a sequence of at most one: the  *)
(* field of that name whatever it is, or the first child that is a declaration.     *)
FindDeclarationChild(n) ==
  LET inner == SelectSeq(n.kids, LAMBDA k :
                 Meta(k).chunkable /\ k.type \notin Range(Wrappers) /\ Meta(k).kind # "")
  IN  IF n.decl # 0 THEN <<n.kids[n.decl]>>
      ELSE SubSeq(inner, 1, IF inner = <<>> THEN 0 ELSE 1)

(* The two unwrapping steps of chunkFile and findChunkableChildren. *)
Unwrap(n) ==
  FoldLeft(LAMBDA target, wrapper :
             IF target.type = wrapper /\ FindDeclarationChild(target) # <<>>
             THEN Head(FindDeclarationChild(target)) ELSE target,
           n, Wrappers)

(* extractName: the declared name; of a declaration with declarators, the first. *)
ExtractName(n) ==
  IF n.name = "" /\ n.kids # <<>> /\ Head(n.kids).type = "declarator"
  THEN Head(n.kids).name ELSE n.name

------------------------------------------------------------------------------
(* chunkFile *)


(* splitLargeChunks of one chunk: line by line, cutting before the line that *)
(* would reach the limit; line numbers are counted along the chunk's text.   *)
SplitChunk(w, c) ==
  LET size == Len(c.content)
      Part(acc, last) ==
        Append(acc.parts, [c EXCEPT !.first = acc.start, !.last = last,
                                    !.content = acc.current])
      Line(acc, i) ==
        LET tokens == Weight(w, c.content[i]) + (IF i < size THEN 1 ELSE 0)
            cut == acc.tokens + tokens >= MaxChunkTokens /\ acc.current # <<>>
        IN  IF cut
            THEN [parts |-> Part(acc, c.first + i - 2), start |-> c.first + i - 1,
                  current |-> <<c.content[i]>>, tokens |-> tokens]
            ELSE [acc EXCEPT !.current = Append(@, c.content[i]), !.tokens = @ + tokens]
      all == FoldLeft(Line, [parts |-> <<>>, start |-> c.first, current |-> <<>>,
                             tokens |-> 0], Lines(1, size))
  IN  IF Tokens(w, c.content) <= MaxChunkTokens THEN <<c>> ELSE Part(all, c.last)

SplitLargeChunks(w, cs) ==
  FoldLeft(LAMBDA result, c : result \o SplitChunk(w, c), <<>>, cs)

(* mergeSmallChunks: a tiny chunk is appended to the one before it, behind an empty *)
(* line; its name, kind and first line stay.                                 *)
MergeSmallChunks(w, cs) ==
  LET Merge(merged, c) ==
        LET k == Len(merged)
        IN  IF Tokens(w, c.content) < MinChunkTokens /\ k > 0 /\ c.kind # "header"
            THEN [merged EXCEPT ![k].content = Append(@, Blank) \o c.content, ![k].last = c.last]
            ELSE Append(merged, c)
  IN  FoldLeft(Merge, <<>>, cs)

(* buildSignatureFromExtracted: the header lines and the direct members. *)
SignatureOf(n, extracted) ==
  LET direct == SelectSeq(extracted, LAMBDA c : c.parent = NoParent)
  IN  Lines(n.first, n.body) \o [i \in DOMAIN direct |-> Member]

(* chunkNode and findChunkableChildren: a declaration that fits is one chunk;  *)
(* one that does not becomes its signature and the chunks of the declarations *)
(* inside it, below at most MaxASTDepth others; one with none is cut by lines. *)
RECURSIVE ChunkNode(_, _, _), FindChunkableChildren(_, _, _, _)
ChunkNode(w, n, depth) ==
  LET inner == IF Meta(n).kind = "" THEN FindDeclarationChild(n) ELSE <<>>
      named == IF inner = <<>> THEN n ELSE Head(inner)
      whole == [name |-> ExtractName(named), first |-> n.first, last |-> n.last,
                kind |-> IF Meta(named).kind = "" THEN "block" ELSE Meta(named).kind,
                content |-> Lines(n.first, n.last), parent |-> NoParent]
      extracted == FindChunkableChildren(w, n, depth, 0)
      Adopt(c) == IF c.parent = NoParent THEN [c EXCEPT !.parent = 0] ELSE c
  IN  IF Tokens(w, whole.content) <= MaxChunkTokens
      THEN <<whole>>
      ELSE IF depth > MaxChunkDepth \/ extracted = <<>>
      THEN SplitLargeChunks(w, <<whole>>)
      ELSE <<[whole EXCEPT !.content = SignatureOf(n, extracted)]>>
             \o [i \in 1..Len(extracted) |-> Adopt(extracted[i])]

FindChunkableChildren(w, n, depth, astDepth) ==
  FoldLeft(LAMBDA extracted, kid :
             LET k == Unwrap(kid)
             IN  extracted \o
                   (IF kid.type = "comment" THEN <<>>
                    ELSE IF Meta(k).chunkable THEN ChunkNode(w, k, depth + 1)
                    ELSE FindChunkableChildren(w, k, depth, astDepth + 1)),
           <<>>, IF astDepth > MaxASTDepth THEN <<>> ELSE n.kids)

(* The header gathers what is at the top level and is not a declaration. *)
InHeader(k) == k.type # "comment" /\ (Meta(k).import \/ ~Meta(k).chunkable)
HeaderChunk(parts) ==
  IF parts = <<>> THEN <<>>
  ELSE <<[name |-> "", kind |-> "header", parent |-> NoParent,
          first |-> Head(parts).first, last |-> Last(parts).last,
          content |-> FoldLeft(LAMBDA text, p : text \o Lines(p.first, p.last),
                               <<>>, parts)]>>

(* Mutant: what is merged is not looked at again. *)
ChunkFileSplitFirst(f) ==
  LET kids == f.root.kids
      cut == FoldLeft(LAMBDA cs, k : cs \o ChunkNode(f.weight, Unwrap(k), 0), <<>>,
                      SelectSeq(kids, LAMBDA k : k.type # "comment" /\ ~InHeader(k)))
  IN  MergeSmallChunks(f.weight,
        SplitLargeChunks(f.weight, HeaderChunk(SelectSeq(kids, InHeader)) \o cut))

ChunkFile(f) ==
  LET kids == f.root.kids
      cut == FoldLeft(LAMBDA cs, k : cs \o ChunkNode(f.weight, Unwrap(k), 0), <<>>,
                      SelectSeq(kids, LAMBDA k : k.type # "comment" /\ ~InHeader(k)))
  IN  SplitLargeChunks(f.weight,
        MergeSmallChunks(f.weight, HeaderChunk(SelectSeq(kids, InHeader)) \o cut))

------------------------------------------------------------------------------
(* extractSymbols and extractEdges *)

(* findContainingChunk: the first chunk whose line range contains the line. *)
FindContainingChunk(line, cs) ==
  LET holds == {i \in DOMAIN cs : cs[i].first <= line /\ line <= cs[i].last}
  IN  IF holds = {} THEN NoChunk ELSE Min(holds) - 1

(* The declarators of a declaration that can name several, or the node itself. *)
Declared(n) ==
  IF \E i \in DOMAIN n.kids : n.kids[i].type = "declarator"
  THEN SelectSeq(n.kids, LAMBDA k : k.type = "declarator" /\ k.name # "")
  ELSE IF ExtractName(n) # "" THEN <<n>> ELSE <<>>

(* walkForSymbols: bodies of symbols are entered only for containers. *)
RECURSIVE WalkForSymbols(_)
WalkForSymbols(n) ==
  (IF Meta(n).symbolKind # "" THEN Declared(n) ELSE <<>>)
    \o (IF Meta(n).symbolKind = "" \/ Meta(n).container
        THEN FoldLeft(LAMBDA found, k : found \o WalkForSymbols(k), <<>>, n.kids)
        ELSE <<>>)

ExtractSymbols(f, cs) ==
  LET found == WalkForSymbols(f.root)
  IN  [i \in DOMAIN found |->
         [name |-> found[i].name, line |-> found[i].first,
          chunk |-> FindContainingChunk(found[i].first, cs)]]

(* What walkForEdges passes over in a decorated_definition. *)
Skipped(n, kid) == n.type = "decorated" /\ kid.type = "decorator"

(* Mutant: a call of the owner itself is no edge (bug #9 of the parser's review). *)
RECURSIVE WalkForEdgesNoSelf(_, _, _)
WalkForEdgesNoSelf(n, owner, importOwner) ==
  LET named == Meta(n).symbolKind # "" /\ ExtractName(n) # ""
      inner == IF named THEN ExtractName(n) ELSE owner
      call == IF n.type = "call" /\ n.name # inner THEN {[src |-> inner, dst |-> n.name]} ELSE {}
  IN  IF Meta(n).import
      THEN {[src |-> IF owner = "" THEN importOwner ELSE owner, dst |-> n.name]}
      ELSE IF n.type = "heritage" THEN {[src |-> inner, dst |-> n.name]}
      ELSE call \cup UNION {WalkForEdgesNoSelf(n.kids[i], inner, importOwner) :
                              i \in {i \in DOMAIN n.kids : ~Skipped(n, n.kids[i])}}

(* walkForEdges: the owner of a call is the innermost node around it that would *)
(* declare a symbol; imports belong to the first symbol of the file.  A heritage      *)
(* clause gives its own edge and is not entered.                                 *)
RECURSIVE WalkForEdges(_, _, _)
WalkForEdges(n, owner, importOwner) ==
  LET named == Meta(n).symbolKind # "" /\ ExtractName(n) # ""
      inner == IF named THEN ExtractName(n) ELSE owner
      call == IF n.type = "call" THEN {[src |-> inner, dst |-> n.name]} ELSE {}
  IN  IF Meta(n).import
      THEN {[src |-> IF owner = "" THEN importOwner ELSE owner, dst |-> n.name]}
      ELSE IF n.type = "heritage" THEN {[src |-> inner, dst |-> n.name]}
      ELSE call \cup UNION {WalkForEdges(n.kids[i], inner, importOwner) :
                              i \in {i \in DOMAIN n.kids : ~Skipped(n, n.kids[i])}}

ExtractEdges(f, syms) ==
  WalkForEdges(f.root, "", IF syms = <<>> THEN "" ELSE Head(syms).name)

------------------------------------------------------------------------------
(* What the writer keeps (processEnrichmentJob): no symbol without a chunk, and *)
(* no edge whose source is not a symbol it kept.                              *)
Kept(syms) == SelectSeq(syms, LAMBDA s : s.chunk # NoChunk /\ s.chunk < Len(chunks))
KeptEdges(found, syms) == {e \in found : \E i \in DOMAIN syms : syms[i].name = e.src}

Init ==
  /\ file \in Files
  /\ stage = "parsed"
  /\ chunks = <<>>
  /\ symbols = <<>>
  /\ edges = {}

Parse_Chunks ==
  /\ stage = "parsed"
  /\ stage' = "chunked"
  /\ chunks' = ChunkFile(file)
  /\ UNCHANGED <<file, symbols, edges>>

Parse_Symbols ==
  /\ stage = "chunked"
  /\ stage' = "symbols"
  /\ symbols' = ExtractSymbols(file, chunks)
  /\ UNCHANGED <<file, chunks, edges>>

Parse_Edges ==
  /\ stage = "symbols"
  /\ stage' = "edges"
  /\ edges' = ExtractEdges(file, symbols)
  /\ UNCHANGED <<file, chunks, symbols>>

Store ==
  /\ stage = "edges"
  /\ stage' = "stored"
  /\ symbols' = Kept(symbols)
  /\ edges' = KeptEdges(edges, Kept(symbols))
  /\ UNCHANGED <<file, chunks>>

Next == Parse_Chunks \/ Parse_Symbols \/ Parse_Edges \/ Store

Spec == Init /\ [][Next]_vars

------------------------------------------------------------------------------
(* Reference definitions over the tree *)

RECURSIVE NodesOf(_)
NodesOf(n) == {n} \cup UNION {NodesOf(n.kids[i]) : i \in DOMAIN n.kids}

IsDeclaration(n) ==
  Meta(n).chunkable /\ ~Meta(n).import /\ n.type \notin Range(Wrappers)
Declarations == {n \in NodesOf(file.root) : IsDeclaration(n)}
IsLeaf(n) == \A d \in NodesOf(n) \ {n} : ~IsDeclaration(d)

(* The declarations that chunks are made of: those without one inside, and not *)
(* local to a function.                                                      *)
FunctionNodes == {n \in Declarations : Meta(n).symbolKind # "" /\ ~Meta(n).container}
Leaves == {n \in Declarations :
             IsLeaf(n) /\ \A g \in FunctionNodes \ {n} : n \notin NodesOf(g)}
Enclosing(n) == {d \in Declarations \ {n} : n \in NodesOf(d)}

(* The structural nodes between a declaration and the innermost around it; a declaration is   *)
(* within reach when neither it nor one around it lies below more than the limit.     *)
Between(n) ==
  {m \in NodesOf(file.root) \ {n, file.root} :
     n \in NodesOf(m) /\ ~Meta(m).chunkable /\ \A d \in Enclosing(n) : m \in NodesOf(d) \ {d}}
WithinReach(n) == \A d \in Enclosing(n) \cup {n} : Cardinality(Between(d)) <= MaxASTDepth

(* Among the declarations that are chunked: not in an item that goes to the header. *)
Chunked(n) == \A i \in DOMAIN file.root.kids :
                n \in NodesOf(file.root.kids[i]) => ~InHeader(file.root.kids[i])
Text == UNION {ToSet(chunks[i].content) : i \in DOMAIN chunks}
Holding(line) == {i \in DOMAIN chunks : line \in ToSet(chunks[i].content)}

(* The call sites of a file: the callee, the innermost symbol around it that    *)
(* walkForSymbols finds, and whether a declaration of that symbol's body is    *)
(* or a clause that is not its body is between them.                           *)
RECURSIVE CallSites(_, _, _)
CallSites(n, symbol, inBody) ==
  LET declares == Meta(n).symbolKind # "" /\ ExtractName(n) # ""
      here == IF declares /\ ~inBody THEN ExtractName(n) ELSE symbol
      closed == inBody \/ (declares /\ ~Meta(n).container)
      local == (inBody /\ declares) \/ n.type \in {"heritage", "decorator"}
  IN  IF Meta(n).import THEN {}
      ELSE (IF n.type = "call" THEN {[src |-> here, dst |-> n.name, local |-> FALSE]} ELSE {})
        \cup {[c EXCEPT !.local = @ \/ local] :
                c \in UNION {CallSites(n.kids[i], here, closed) : i \in DOMAIN n.kids}}

------------------------------------------------------------------------------
(* Every variable has its type; until the file is stored, header chunks come first. *)
TypeOK ==
  /\ file \in Files
  /\ stage \in {"parsed", "chunked", "symbols", "edges", "stored"}
  /\ \A i \in DOMAIN chunks : chunks[i].parent \in {NoParent, 0}
  /\ \A i \in DOMAIN symbols : symbols[i].chunk \in {NoChunk} \cup 0..(Len(chunks) - 1)
  /\ stage # "stored" => \A i, j \in DOMAIN chunks :
       i < j /\ chunks[j].kind = "header" => chunks[i].kind = "header"

(* chunker.go:12 "the threshold above which a chunk is split": after merging and *)
(* splitting, no chunk is over the limit but one of a single line.           *)
ChunksFit ==
  \A i \in DOMAIN chunks :
    Tokens(file.weight, chunks[i].content) <= MaxChunkTokens \/ Len(chunks[i].content) = 1

(* No line of a declaration is lost or indexed twice, however its containers are *)
(* taken apart, its neighbours merged into it and it is cut, when it is not below *)
(* more nodes than the chunker descends (maxASTDepth).                        *)
DeclarationsKept ==
  stage # "parsed" =>
    \A n \in Leaves : WithinReach(n) => \A l \in n.first..n.last : Cardinality(Holding(l)) = 1

(* A declaration outside the header that is not tiny, nor deeper than the chunker  *)
(* goes, is found under its own name and kind: what is appended to a chunk never   *)
(* takes it over.                                                            *)
DeclarationsNamed ==
  stage # "parsed" =>
    \A n \in Leaves :
      /\ Tokens(file.weight, Lines(n.first, n.last)) >= MinChunkTokens
      /\ Cardinality(Enclosing(n)) <= MaxChunkDepth + 1 /\ WithinReach(n) /\ Chunked(n)
      => \A l \in n.first..n.last : \A i \in Holding(l) :
          chunks[i].name = ExtractName(n) /\ chunks[i].kind = Meta(n).kind


(* A call written as a statement of an indexed function or method is an edge of *)
(* that symbol, a recursive one too (edges.go:111).                          *)
StatementCallsStored ==
  stage = "stored" =>
    \A c \in CallSites(file.root, "", FALSE) :
      ~c.local /\ (\E i \in DOMAIN symbols : symbols[i].name = c.src)
        => [src |-> c.src, dst |-> c.dst] \in edges

------------------------------------------------------------------------------
(* What the documentation says of the chunker, and it does not do *)

(* 05-data-model.md:742 "Oversized chunks (>1024 tokens): Split into sub-chunks *)
(* before embedding": every line of a function is in some chunk.            *)
FunctionsKept ==
  stage # "parsed" => \A n \in FunctionNodes : n.first..n.last \subseteq Text

(* DeclarationsKept without its limit: chunker.go:25 "200 is comfortably above any   *)
(* realistic code nesting".                                                  *)
DeclarationsKeptAtAnyDepth ==
  stage # "parsed" => \A n \in Leaves : n.first..n.last \subseteq Text

(* 05-data-model.md:76 "class methods become separate chunks with parent_chunk_id *)
(* -> class": the parent of a chunk is one whose lines are around it.        *)
ParentEncloses ==
  \A i \in DOMAIN chunks : chunks[i].parent # NoParent =>
    LET p == chunks[chunks[i].parent + 1]
    IN  p.kind # "header" /\ p.first <= chunks[i].first /\ chunks[i].last <= p.last

(* symbols.go:221: a symbol is not mis-attributed to the header: the chunk it is *)
(* assigned to holds its line.                                               *)
SymbolsPlaced ==
  \A i \in DOMAIN symbols :
    symbols[i].chunk # NoChunk /\ symbols[i].line \in ToSet(chunks[symbols[i].chunk + 1].content)

(* tools.go:251 "Trace callers or callees of a symbol across the codebase": every *)
(* call inside an indexed symbol is an edge of it.                           *)
CallsStored ==
  stage = "stored" =>
    \A c \in CallSites(file.root, "", FALSE) :
      (\E i \in DOMAIN symbols : symbols[i].name = c.src)
        => [src |-> c.src, dst |-> c.dst] \in edges
=============================================================================
