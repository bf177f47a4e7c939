--------------------------- MODULE MCQueryEngine ---------------------------
(* A source file with a large class whose method was split, then edited so that *)
(* its method is whole and a method elsewhere in the file has the same name;     *)
(* and a test file.                                                         *)
EXTENDS QueryEngine

Chunk(name, kind, decl, first, last, tokens) ==
  [name |-> name, kind |-> kind, decl |-> decl, first |-> first, last |-> last,
   tokens |-> tokens]

MCFiles == {"src", "test"}
MCTestFiles == {"test"}
MCTree == <<"src", "test">>
MCFileTokens == [f \in MCFiles |-> 3]
MCLayout ==
  [f \in MCFiles |->
     IF f = "src"
     THEN <<<<Chunk("Class", "class", "Class", 1, 9, 2),
              Chunk("get", "method", "Class.get", 2, 5, 3),
              Chunk("get", "method", "Class.get", 6, 8, 3)>>,
            <<Chunk("get", "method", "Class.get", 1, 3, 2),
              Chunk("get", "method", "Other.get", 5, 6, 1)>>>>
     ELSE <<<<Chunk("get", "function", "get", 1, 2, 1)>>>>]

Query(tool, names, max, min, scope, under, budget) ==
  [tool |-> tool, names |-> names, max |-> max, min |-> min, scope |-> scope,
   under |-> under, budget |-> budget]
(* The second caller asks little, to keep the interleavings few. *)
MCQueries ==
  <<{ Query("search", {"get"}, 1, TRUE, "impl", {"src"}, 0),
      Query("search", {"get"}, 1, FALSE, "impl", {}, 0),
      Query("context", {"Class", "get"}, 0, FALSE, "impl", {}, 4),
      Query("context", {"get"}, 0, FALSE, "all", {}, 8) },
    { Query("search", {"get"}, 1, FALSE, "test", {"test"}, 0) }>>
=============================================================================
