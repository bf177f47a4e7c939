----------------------------- MODULE MCChunker -----------------------------
(* Files of up to three top-level items in a language like TypeScript: every    *)
(* line is one token but that of "minified".                                 *)
EXTENDS Chunker, TLC
CONSTANT MaxLine

Plain == [chunkable |-> FALSE, kind |-> "", container |-> FALSE, symbolKind |-> "",
          import |-> FALSE]
Declares(kind, container) ==
  [Plain EXCEPT !.chunkable = TRUE, !.kind = kind, !.container = container,
                !.symbolKind = kind]
MCNodes ==
  [t \in {"program", "body", "statement", "call", "declarator", "comment",
                    "heritage", "decorator"} |-> Plain]
    @@ [t \in {"import"} |-> [Plain EXCEPT !.import = TRUE]]
    @@ [t \in {"export", "ambient", "decorated"} |->
          [Plain EXCEPT !.chunkable = TRUE, !.container = TRUE]]
    @@ [t \in {"class"} |-> Declares("class", TRUE)]
    @@ [t \in {"method", "function"} |-> Declares(t, FALSE)]
    @@ [t \in {"lexical"} |-> Declares("block", FALSE)]

(* A shape has its own lines and kids that begin `at` lines after it; a kid on a *)
(* line of its own leaves one for the closing brace.  An export's and an ambient  *)
(* node's only child is its declaration.                                    *)
Shape(type, name, lines, at, kids) ==
  [type |-> type, name |-> name, lines |-> lines, at |-> at, kids |-> kids,
   decl |-> IF type = "export" THEN 1 ELSE 0]
Call(f) == Shape("call", f, 1, 0, <<>>)
Statement(f) == Shape("statement", "", 1, 0, <<Call(f)>>)
Const(x, f) ==
  Shape("lexical", "", 1, 0, <<Shape("declarator", x, 1, 0, <<Call(f)>>)>>)
Function(type, name, lines, body) ==
  Shape(type, name, lines, 0,
        IF body = <<>> THEN <<>> ELSE <<Shape("body", "", 1, 1, body)>>)
Class(name, members) == Shape("class", name, 1, 0, <<Shape("body", "", 1, 1, members)>>)

Short == {
  Shape("import", "lib", 1, 0, <<>>),
  Statement("run"),
  Function("function", "tiny", 1, <<>>),
  Function("function", "small", 3, <<Statement("small")>>),
  Function("function", "long", 8, <<>>),
  Shape("export", "", 1, 0, <<Function("function", "shown", 2, <<>>)>>) }
Long == {
  Shape("comment", "", 1, 0, <<>>),
  Function("function", "minified", 2, <<>>),
  Function("function", "work", 8, <<Const("x", "tiny"), Statement("small")>>),
  Shape("lexical", "", 1, 0, <<Shape("declarator", "a", 1, 0, <<Call("run")>>),
                               Shape("declarator", "b", 1, 0, <<>>)>>),
  Class("Shell", <<Function("method", "get", 1, <<>>),
                   Function("method", "put", 4, <<Statement("put")>>)>>),
  Class("Deck", <<Function("method", "top", 4, <<>>),
                  Shape("body", "", 1, 0, <<Shape("body", "", 1, 0,
                    <<Function("method", "low", 3, <<>>)>>)>>)>>),
  Shape("decorated", "", 1, 0, <<
    Shape("decorator", "", 1, 0, <<Call("run")>>),
    Shape("class", "Heir", 2, 0, <<Shape("heritage", "Shell", 1, 0, <<Call("run")>>)>>)>>),
  Shape("export", "", 1, 0, <<Shape("ambient", "", 1, 0, <<Function("function", "given", 7, <<>>)>>)>>),
  Shape("statement", "", 1, 0, <<Function("function", "inner", 3, <<>>)>>),
  Class("Outer", <<Class("Mid", <<Class("Inner", <<Function("method", "deep", 8, <<>>)>>)>>)>>) }

RECURSIVE Place(_, _)
Place(s, line) ==
  LET Add(acc, k) ==
        LET p == Place(k, acc.line)
        IN  [kids |-> Append(acc.kids, p), line |-> p.last + 1]
      placed == FoldLeft(Add, [kids |-> <<>>, line |-> line + s.at], s.kids)
      end == IF s.kids = <<>> THEN line ELSE Last(placed.kids).last + s.at
      own == line + s.lines - 1
  IN  [type |-> s.type, name |-> s.name, first |-> line, body |-> line,
       last |-> IF end > own THEN end ELSE own, kids |-> placed.kids, decl |-> s.decl]

MCFiles ==
  LET files == (BoundedSeq(Short, 3) \cup BoundedSeq(Short \cup Long, 2)) \ {<<>>}
      roots == {Place(Shape("program", "", 1, 0, items), 1) : items \in files}
      Heavy(r) == {r.kids[i].first : i \in {j \in DOMAIN r.kids : r.kids[j].name = "minified"}}
  IN  {[root |-> r, weight |-> [l \in 1..MaxLine |-> IF l \in Heavy(r) THEN 9 ELSE 1]] :
         r \in roots}

MCWrappers == <<"export", "ambient">>
=============================================================================
