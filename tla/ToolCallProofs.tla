--------------------------- MODULE ToolCallProofs ---------------------------
(***************************************************************************)
(* What the MCP server does with a tool call, for any number of calls on   *)
(* any layout of files: QueryEngine answers it, MetricsRecorder keeps its  *)
(* record.  The two share no variable.                                     *)
(*                                                                         *)
(* A query reads the store several times while files move to their next    *)
(* generations, so the invariant IInv dates what a call holds: rows of     *)
(* generations between its start and now.  SessionInv is the session       *)
(* store's own, beside it.  RecorderInv says where a record can be.        *)
(*                                                                         *)
(* The engine's loops are recursive functions over 0..n.  Recursion shows  *)
(* that such a function exists, from the well-foundedness of the naturals; *)
(* with it each loop is unfolded once (OnlyUnfolds and so on), and UpTo is *)
(* the induction along it.                                                 *)
(***************************************************************************)
EXTENDS QueryEngine, MetricsRecorder, FiniteSetTheorems, TLAPS

------------------------------------------------------------------------------
(* Induction and recursion up to a bound *)

(* Induction up to a bound: the naturals have least elements, so the library's *)
(* fact about them gives it without a predicate parameter.                   *)
LEMMA LeastExists ==
  ASSUME NEW S, S \subseteq Nat, S # {}
  PROVE  \E x \in S : \A y \in S : x <= y
<1>1. IsWellFoundedOn(OpToRel(<, Nat), Nat)
  BY NatLessThanWellFounded
<1>2. PICK x \in S : \A y \in S : <<y, x>> \notin OpToRel(<, Nat)
  BY <1>1, WFMin
<1>3. \A y \in S : ~ (y < x)
  BY <1>2 DEF OpToRel
<1> QED BY <1>3

(* What holds at 0 and passes from each number to the next holds at n. *)
LEMMA UpTo ==
  ASSUME NEW n \in Nat, NEW S, 0 \in S, \A i \in 1..n : i - 1 \in S => i \in S
  PROVE  n \in S
<1> DEFINE Missing == {i \in 0..n : i \notin S}
<1>1. Missing \subseteq Nat
  OBVIOUS
<1>2. CASE Missing # {}
  <2>1. PICK x \in Missing : \A y \in Missing : x <= y
    <3> HIDE DEF Missing
    <3> QED BY <1>1, <1>2, LeastExists
  <2>2. x \in 1..n /\ x - 1 \in 0..n
    BY <2>1
  <2>3. x - 1 \in S
    BY <2>1, <2>2
  <2> QED BY <2>1, <2>2, <2>3
<1>3. CASE Missing = {}
  BY <1>3
<1> QED BY <1>2, <1>3

(* A function defined by recursion along 0..n exists. *)
Steps(n, A) == [(1..n) \X A -> A]
Follows(f, n, base, step) == f[0] = base /\ \A i \in 1..n : f[i] = step[<<i, f[i - 1]>>]

(* The function that a base and a step define along 0..n exists. *)
LEMMA Recursion ==
  ASSUME NEW n \in Nat, NEW A, NEW base \in A, NEW step \in Steps(n, A)
  PROVE  \E f \in [0..n -> A] : Follows(f, n, base, step)
<1> USE DEF Steps, Follows
<1> DEFINE Upto(k) == \E f \in [0..k -> A] :
                        f[0] = base /\ \A i \in 1..k : f[i] = step[<<i, f[i - 1]>>]
           S == {k \in 0..n : Upto(k)}
<1>1. 0 \in S
  <2> DEFINE z == [i \in 0..0 |-> base]
  <2>1. z \in [0..0 -> A] /\ z[0] = base /\ 1..0 = {}
    OBVIOUS
  <2>2. Upto(0)
    <3> HIDE DEF z
    <3> QED BY <2>1
  <2> QED BY <2>2
<1>2. ASSUME NEW k \in 1..n, k - 1 \in S PROVE k \in S
  <2>1. PICK f \in [0..(k - 1) -> A] :
          f[0] = base /\ \A i \in 1..(k - 1) : f[i] = step[<<i, f[i - 1]>>]
    BY <1>2
  <2> DEFINE g == [i \in 0..k |-> IF i = k THEN step[<<k, f[k - 1]>>] ELSE f[i]]
  <2>2. step[<<k, f[k - 1]>>] \in A
    <3>1. f[k - 1] \in A
      OBVIOUS
    <3> QED BY <3>1
  <2>3. g \in [0..k -> A] /\ g[0] = base
    BY <2>1, <2>2
  <2>4. \A i \in 1..k : g[i] = step[<<i, g[i - 1]>>]
    <3>1. TAKE i \in 1..k
    <3>2. CASE i = k
      <4>1. g[i - 1] = f[k - 1] /\ g[i] = step[<<k, f[k - 1]>>]
        BY <3>2
      <4> QED
        <5> HIDE DEF g
        <5> QED BY <3>2, <4>1
    <3>3. CASE i # k
      <4>1. i \in 1..(k - 1) /\ g[i - 1] = f[i - 1] /\ g[i] = f[i]
        BY <3>3
      <4> QED BY <4>1, <2>1
    <3> QED BY <3>2, <3>3
  <2>5. Upto(k)
    <3> HIDE DEF g
    <3> QED BY <2>3, <2>4
  <2> QED BY <2>5
<1>3. n \in S
  <2> HIDE DEF S
  <2> QED BY <1>1, <1>2, UpTo
<1> QED BY <1>3

(* What each step of a recursion keeps, all of it keeps. *)
LEMMA AlongRecursion ==
  ASSUME NEW n \in Nat, NEW A, NEW g, g[0] \in A, \A i \in 1..n : g[i - 1] \in A => g[i] \in A
  PROVE  \A i \in 0..n : g[i] \in A
<1> TAKE k \in 0..n
<1> DEFINE S == {i \in 0..k : g[i] \in A}
<1>1. 0 \in S /\ \A i \in 1..k : i - 1 \in S => i \in S
  OBVIOUS
<1>2. k \in S
  <2> HIDE DEF S
  <2> QED BY <1>1, UpTo
<1> QED BY <1>2

------------------------------------------------------------------------------
(* The ids of the rows of every generation; results; the states of the packing; *)
(* the results of the fallback.                                                *)
RowIds == {id \in Files \X Nat \X Nat : /\ id[2] \in 1..Len(Layout[id[1]])
                                        /\ id[3] \in 1..Len(Layout[id[1]][id[2]])}
Results == [id : Files \X Nat \X Nat, parts : SUBSET RowIds, tokens : Nat]

PackStates == [chunks : Seq(Results), left : Int, truncated : BOOLEAN, overflow : BOOLEAN]
FileResults == {r \in Results : r.parts = {} /\ r.id[2] = 0 /\ r.id[3] = 0}

(* The rows that an id names. *)
LEMMA RowsTyped ==
  ASSUME NEW id \in RowIds
  PROVE  /\ id[1] \in Files /\ id[2] \in Nat /\ id[3] \in Nat /\ id = <<id[1], id[2], id[3]>>
         /\ Layout[id[1]] \in Seq(Seq(ChunkRecords)) /\ id[2] \in 1..Len(Layout[id[1]])
         /\ Layout[id[1]][id[2]] \in Seq(ChunkRecords)
         /\ id[3] \in 1..Len(Layout[id[1]][id[2]]) /\ Row(id) \in ChunkRecords
<1>1. id[1] \in Files /\ id[2] \in Nat /\ id[3] \in Nat /\ id = <<id[1], id[2], id[3]>>
  BY DEF RowIds
<1>2. Layout[id[1]] \in Seq(Seq(ChunkRecords))
  BY <1>1, QueryAssumption DEF QueryAssumption
<1>3. id[2] \in 1..Len(Layout[id[1]]) /\ id[3] \in 1..Len(Layout[id[1]][id[2]])
  BY DEF RowIds
<1>4. Layout[id[1]][id[2]] \in Seq(ChunkRecords)
  BY <1>2, <1>3
<1>5. Layout[id[1]][id[2]][id[3]] \in ChunkRecords
  BY <1>3, <1>4
<1> QED BY <1>1, <1>2, <1>3, <1>4, <1>5 DEF Row

(* The smaller and the larger of two numbers. *)
LEMMA MinOfTwo ==
  ASSUME NEW a \in Int, NEW b \in Int
  PROVE  Min({a, b}) = IF a <= b THEN a ELSE b
<1> DEFINE m == IF a <= b THEN a ELSE b
<1>1. m \in {a, b} /\ \A y \in {a, b} : m <= y
  OBVIOUS
<1>2. \A x \in {a, b} : (\A y \in {a, b} : x <= y) => x = m
  OBVIOUS
<1> QED BY <1>1, <1>2 DEF Min

(* One file of the fallback. *)
LEMMA ReadFileType ==
  ASSUME NEW acc \in [left : Nat, chunks : Seq(FileResults)], NEW f \in Files
  PROVE  ReadFile(acc, f) \in [left : Nat, chunks : Seq(FileResults)]
<1> DEFINE t == Min({FileTokens[f], acc.left})
           r == [id |-> <<f, 0, 0>>, parts |-> {}, tokens |-> t]
<1>1. FileTokens[f] \in Nat /\ acc.left \in Nat /\ acc.chunks \in Seq(FileResults)
  BY QueryAssumption DEF QueryAssumption
<1>2. t \in Nat /\ acc.left - t \in Nat
  BY <1>1, MinOfTwo
<1> HIDE DEF t
<1>3. r \in Results
  BY <1>2 DEF Results
<1>4. r \in FileResults
  BY <1>3 DEF FileResults
<1>5. ReadFile(acc, f) = IF acc.left <= 0 THEN acc
                         ELSE [left |-> acc.left - t, chunks |-> Append(acc.chunks, r)]
  BY DEF ReadFile, t
<1> HIDE DEF r
<1> QED BY <1>1, <1>2, <1>4, <1>5

(* A result cut to another size is a result still. *)
LEMMA Resized ==
  ASSUME NEW c \in Results, NEW n \in Nat
  PROVE  LET r == [c EXCEPT !.tokens = n]
         IN  r \in Results /\ r.id = c.id /\ r.parts = c.parts
  BY DEF Results

(* One candidate of the greedy pass. *)
LEMMA ConsiderType ==
  ASSUME NEW acc \in PackStates, NEW c \in Results, NEW cut \in Nat
  PROVE  Consider(acc, c, cut) \in PackStates
<1>1. [c EXCEPT !.tokens = cut] \in Results
  BY Resized
<1>2. <<[c EXCEPT !.tokens = cut]>> \in Seq(Results) /\ Append(acc.chunks, c) \in Seq(Results)
  BY <1>1 DEF PackStates
<1>3. c.tokens \in Nat /\ acc.left \in Int
  BY DEF Results, PackStates
<1>4. /\ acc.chunks \in Seq(Results) /\ acc.left \in Int
      /\ acc.truncated \in BOOLEAN /\ acc.overflow \in BOOLEAN
  BY DEF PackStates
<1>5. acc = [chunks |-> acc.chunks, left |-> acc.left, truncated |-> acc.truncated,
             overflow |-> acc.overflow]
  BY DEF PackStates
<1>6. CASE acc.left <= 0 \/ HasLineOverlap(c, acc.chunks)
  BY <1>6 DEF Consider
<1>7. CASE /\ ~(acc.left <= 0 \/ HasLineOverlap(c, acc.chunks))
           /\ c.tokens > acc.left /\ acc.chunks = <<>>
  <2>1. Consider(acc, c, cut) = [chunks |-> <<[c EXCEPT !.tokens = cut]>>, left |-> 0,
                                 truncated |-> TRUE, overflow |-> acc.overflow]
    BY <1>7 DEF Consider, PackStates
  <2> QED BY <1>2, <1>4, <2>1 DEF PackStates
<1>8. CASE /\ ~(acc.left <= 0 \/ HasLineOverlap(c, acc.chunks))
           /\ ~(c.tokens > acc.left /\ acc.chunks = <<>>)
  <2>1. Consider(acc, c, cut) = [chunks |-> Append(acc.chunks, c), left |-> acc.left - c.tokens,
                                 truncated |-> acc.truncated,
                                 overflow |-> acc.overflow \/ c.tokens > acc.left]
    BY <1>8 DEF Consider, PackStates
  <2>2. acc.left - c.tokens \in Int /\ (acc.overflow \/ c.tokens > acc.left) \in BOOLEAN
    BY <1>3, <1>4
  <2> QED BY <1>2, <1>4, <2>1, <2>2 DEF PackStates
<1> QED BY <1>6, <1>7, <1>8

(* The recursions of the model, as functions of the steps taken. *)
OnlyRuns(f, s, T) ==
  /\ f[0] = <<>>
  /\ \A i \in 1..Len(s) : f[i] = IF s[i] \in T THEN Append(f[i - 1], s[i]) ELSE f[i - 1]
TotalRuns(f, s) == f[0] = 0 /\ \A i \in 1..Len(s) : f[i] = f[i - 1] + s[i].tokens
FallbackRuns(f, budget, readable) ==
  /\ f[0] = [left |-> budget, chunks |-> <<>>]
  /\ \A i \in 1..Len(Tree) :
       f[i] = IF Tree[i] \in readable THEN ReadFile(f[i - 1], Tree[i]) ELSE f[i - 1]
PackRuns(f, s, budget, cut) ==
  /\ f[0] = [chunks |-> <<>>, left |-> budget, truncated |-> FALSE, overflow |-> FALSE]
  /\ \A i \in 1..Len(s) : f[i] = Consider(f[i - 1], s[i], cut)
ExpandRuns(f, p, s) ==
  /\ f[0] = [left |-> (p.left * 30) \div 100, chunks |-> p.chunks]
  /\ \A i \in 1..Len(s) : f[i] = AddNeighbour(f[i - 1], s[i])

(* Only, unfolded. *)
LEMMA OnlyUnfolds ==
  ASSUME NEW R, NEW s \in Seq(R), NEW T
  PROVE  \E f \in [0..Len(s) -> Seq(R \cap T)] : OnlyRuns(f, s, T) /\ Only(s, T) = f[Len(s)]
<1> DEFINE n == Len(s)
           A == Seq(R \cap T)
           start == <<>>
           Next1(i, a) == IF s[i] \in T THEN Append(a, s[i]) ELSE a
           step == [x \in (1..n) \X A |-> Next1(x[1], x[2])]
           Is(f) == f = [i \in 0..n |-> IF i = 0 THEN start ELSE Next1(i, f[i - 1])]
           kept == CHOOSE f : Is(f)
<1>1. n \in Nat /\ start \in A
  OBVIOUS
<1>2. \A i \in 1..n, a \in A : Next1(i, a) \in A
  OBVIOUS
<1>3. Only(s, T) = kept[n]
  BY DEF Only
<1>4. step \in [(1..n) \X A -> A] /\ \A i \in 1..n, a \in A : step[<<i, a>>] = Next1(i, a)
  <2> HIDE DEF Next1
  <2> QED BY <1>2
<1> HIDE DEF n, A, Next1, start, step
<1>5. PICK f \in [0..n -> A] : Follows(f, n, start, step)
  <2>1. step \in Steps(n, A)
    BY <1>4 DEF Steps
  <2> QED BY <1>1, <2>1, Recursion
<1>6. \A i \in 1..n : f[i] = Next1(i, f[i - 1])
  <2>1. \A i \in 1..n : i - 1 \in 0..n
    BY <1>1
  <2> QED BY <1>4, <1>5, <2>1 DEF Follows
<1>7. Is(f)
  <2>1. f[0] = start
    BY <1>5 DEF Follows
  <2>2. \A i \in 0..n : f[i] = IF i = 0 THEN start ELSE Next1(i, f[i - 1])
    BY <1>1, <1>6, <2>1
  <2>3. f = [i \in 0..n |-> f[i]]
    BY <1>5
  <2> QED BY <2>2, <2>3
<1>8. Is(kept)
  <2> HIDE DEF Is
  <2> QED BY <1>7
<1>9. kept[0] = start /\ \A i \in 1..n : kept[i] = Next1(i, kept[i - 1])
  <2> DEFINE body == [i \in 0..n |-> IF i = 0 THEN start ELSE Next1(i, kept[i - 1])]
  <2>1. kept = body
    BY <1>8
  <2> HIDE DEF kept
  <2>2. body[0] = start /\ \A i \in 1..n : body[i] = Next1(i, kept[i - 1])
    BY <1>1
  <2> HIDE DEF body
  <2> QED BY <2>1, <2>2
<1>10. kept = [i \in 0..n |-> kept[i]]
  BY <1>8
<1> HIDE DEF kept
<1>11. \A i \in 0..n : kept[i] \in A
  BY <1>1, <1>2, <1>9, AlongRecursion
<1>12. kept \in [0..n -> A]
  BY <1>10, <1>11
<1> QED BY <1>3, <1>9, <1>12 DEF n, A, start, Next1, OnlyRuns

(* Total, unfolded. *)
LEMMA TotalUnfolds ==
  ASSUME NEW s \in Seq(Results)
  PROVE  \E f \in [0..Len(s) -> Nat] : TotalRuns(f, s) /\ Total(s) = f[Len(s)]
<1> DEFINE n == Len(s)
           A == Nat
           start == 0
           Next1(i, a) == a + s[i].tokens
           step == [x \in (1..n) \X A |-> Next1(x[1], x[2])]
           Is(f) == f = [i \in 0..n |-> IF i = 0 THEN start ELSE Next1(i, f[i - 1])]
           kept == CHOOSE f : Is(f)
<1>1. n \in Nat /\ start \in A
  OBVIOUS
<1>2. \A i \in 1..n, a \in A : Next1(i, a) \in A
  <2>1. ASSUME NEW i \in 1..n, NEW a \in A PROVE s[i].tokens \in Nat
    <3>1. s[i] \in Results
      OBVIOUS
    <3> QED BY <3>1 DEF Results
  <2> QED BY <2>1
<1>3. Total(s) = kept[n]
  BY DEF Total
<1>4. step \in [(1..n) \X A -> A] /\ \A i \in 1..n, a \in A : step[<<i, a>>] = Next1(i, a)
  <2> HIDE DEF Next1
  <2> QED BY <1>2
<1> HIDE DEF n, A, Next1, start, step
<1>5. PICK f \in [0..n -> A] : Follows(f, n, start, step)
  <2>1. step \in Steps(n, A)
    BY <1>4 DEF Steps
  <2> QED BY <1>1, <2>1, Recursion
<1>6. \A i \in 1..n : f[i] = Next1(i, f[i - 1])
  <2>1. \A i \in 1..n : i - 1 \in 0..n
    BY <1>1
  <2> QED BY <1>4, <1>5, <2>1 DEF Follows
<1>7. Is(f)
  <2>1. f[0] = start
    BY <1>5 DEF Follows
  <2>2. \A i \in 0..n : f[i] = IF i = 0 THEN start ELSE Next1(i, f[i - 1])
    BY <1>1, <1>6, <2>1
  <2>3. f = [i \in 0..n |-> f[i]]
    BY <1>5
  <2> QED BY <2>2, <2>3
<1>8. Is(kept)
  <2> HIDE DEF Is
  <2> QED BY <1>7
<1>9. kept[0] = start /\ \A i \in 1..n : kept[i] = Next1(i, kept[i - 1])
  <2> DEFINE body == [i \in 0..n |-> IF i = 0 THEN start ELSE Next1(i, kept[i - 1])]
  <2>1. kept = body
    BY <1>8
  <2> HIDE DEF kept
  <2>2. body[0] = start /\ \A i \in 1..n : body[i] = Next1(i, kept[i - 1])
    BY <1>1
  <2> HIDE DEF body
  <2> QED BY <2>1, <2>2
<1>10. kept = [i \in 0..n |-> kept[i]]
  BY <1>8
<1> HIDE DEF kept
<1>11. \A i \in 0..n : kept[i] \in A
  BY <1>1, <1>2, <1>9, AlongRecursion
<1>12. kept \in [0..n -> A]
  BY <1>10, <1>11
<1> QED BY <1>3, <1>9, <1>12 DEF n, A, start, Next1, TotalRuns

(* TokensOf, unfolded: the tokens of a result are a number. *)
LEMMA TokensOfType ==
  ASSUME NEW id \in RowIds, NEW parts
  PROVE  TokensOf(id, parts) \in Nat
<1> DEFINE n == Len(Layout[id[1]][id[2]])
           A == Nat
           start == 0
           Next1(i, a) == a + (IF <<id[1], id[2], i>> \in parts THEN Layout[id[1]][id[2]][i].tokens ELSE 0)
           step == [x \in (1..n) \X A |-> Next1(x[1], x[2])]
           Is(f) == f = [i \in 0..n |-> IF i = 0 THEN start ELSE Next1(i, f[i - 1])]
           kept == CHOOSE f : Is(f)
<1>1. n \in Nat /\ start \in A
  BY RowsTyped
<1>2. \A i \in 1..n, a \in A : Next1(i, a) \in A
  <2>1. ASSUME NEW i \in 1..n PROVE Layout[id[1]][id[2]][i].tokens \in Nat
    <3>1. Layout[id[1]][id[2]][i] \in ChunkRecords
      BY RowsTyped
    <3> QED BY <3>1 DEF ChunkRecords
  <2>2. ASSUME NEW i \in 1..n, NEW a \in A PROVE Next1(i, a) \in A
    <3> DEFINE x == Layout[id[1]][id[2]][i].tokens
    <3>1. x \in Nat
      BY <2>1
    <3> HIDE DEF x, n
    <3>2. Next1(i, a) = a + x \/ Next1(i, a) = a + 0
      BY DEF x
    <3> HIDE DEF Next1
    <3> QED BY <3>1, <3>2
  <2> QED BY <2>2
<1>3. TokensOf(id, parts) = kept[n]
  BY DEF TokensOf
<1>4. step \in [(1..n) \X A -> A] /\ \A i \in 1..n, a \in A : step[<<i, a>>] = Next1(i, a)
  <2> HIDE DEF Next1
  <2> QED BY <1>2
<1> HIDE DEF n, A, Next1, start, step
<1>5. PICK f \in [0..n -> A] : Follows(f, n, start, step)
  <2>1. step \in Steps(n, A)
    BY <1>4 DEF Steps
  <2> QED BY <1>1, <2>1, Recursion
<1>6. \A i \in 1..n : f[i] = Next1(i, f[i - 1])
  <2>1. \A i \in 1..n : i - 1 \in 0..n
    BY <1>1
  <2> QED BY <1>4, <1>5, <2>1 DEF Follows
<1>7. Is(f)
  <2>1. f[0] = start
    BY <1>5 DEF Follows
  <2>2. \A i \in 0..n : f[i] = IF i = 0 THEN start ELSE Next1(i, f[i - 1])
    BY <1>1, <1>6, <2>1
  <2>3. f = [i \in 0..n |-> f[i]]
    BY <1>5
  <2> QED BY <2>2, <2>3
<1>8. Is(kept)
  <2> HIDE DEF Is
  <2> QED BY <1>7
<1>9. kept[0] = start /\ \A i \in 1..n : kept[i] = Next1(i, kept[i - 1])
  <2> DEFINE body == [i \in 0..n |-> IF i = 0 THEN start ELSE Next1(i, kept[i - 1])]
  <2>1. kept = body
    BY <1>8
  <2> HIDE DEF kept
  <2>2. body[0] = start /\ \A i \in 1..n : body[i] = Next1(i, kept[i - 1])
    BY <1>1
  <2> HIDE DEF body
  <2> QED BY <2>1, <2>2
<1>10. kept = [i \in 0..n |-> kept[i]]
  BY <1>8
<1> HIDE DEF kept
<1>11. \A i \in 0..n : kept[i] \in A
  BY <1>1, <1>2, <1>9, AlongRecursion
<1>12. kept \in [0..n -> A]
  BY <1>10, <1>11
<1> QED BY <1>3, <1>9, <1>12 DEF n, A, start, Next1

(* FilesystemFallback, unfolded. *)
LEMMA FallbackUnfolds ==
  ASSUME NEW budget \in Nat, NEW readable
  PROVE  \E f \in [0..Len(Tree) -> [left : Nat, chunks : Seq(FileResults)]] :
           /\ FallbackRuns(f, budget, readable)
           /\ FilesystemFallback(budget, readable) = f[Len(Tree)].chunks
<1> DEFINE n == Len(Tree)
           A == [left : Nat, chunks : Seq(FileResults)]
           start == [left |-> budget, chunks |-> <<>>]
           Next1(i, a) == IF Tree[i] \in readable THEN ReadFile(a, Tree[i]) ELSE a
           step == [x \in (1..n) \X A |-> Next1(x[1], x[2])]
           Is(f) == f = [i \in 0..n |-> IF i = 0 THEN start ELSE Next1(i, f[i - 1])]
           kept == CHOOSE f : Is(f)
<1>1. n \in Nat /\ start \in A
  BY QueryAssumption DEF QueryAssumption
<1>2. \A i \in 1..n, a \in A : Next1(i, a) \in A
  <2>1. \A i \in 1..n : Tree[i] \in Files
    BY QueryAssumption DEF QueryAssumption
  <2> QED BY <2>1, ReadFileType
<1>3. FilesystemFallback(budget, readable) = kept[n].chunks
  BY DEF FilesystemFallback
<1>4. step \in [(1..n) \X A -> A] /\ \A i \in 1..n, a \in A : step[<<i, a>>] = Next1(i, a)
  <2> HIDE DEF Next1
  <2> QED BY <1>2
<1> HIDE DEF n, A, Next1, start, step
<1>5. PICK f \in [0..n -> A] : Follows(f, n, start, step)
  <2>1. step \in Steps(n, A)
    BY <1>4 DEF Steps
  <2> QED BY <1>1, <2>1, Recursion
<1>6. \A i \in 1..n : f[i] = Next1(i, f[i - 1])
  <2>1. \A i \in 1..n : i - 1 \in 0..n
    BY <1>1
  <2> QED BY <1>4, <1>5, <2>1 DEF Follows
<1>7. Is(f)
  <2>1. f[0] = start
    BY <1>5 DEF Follows
  <2>2. \A i \in 0..n : f[i] = IF i = 0 THEN start ELSE Next1(i, f[i - 1])
    BY <1>1, <1>6, <2>1
  <2>3. f = [i \in 0..n |-> f[i]]
    BY <1>5
  <2> QED BY <2>2, <2>3
<1>8. Is(kept)
  <2> HIDE DEF Is
  <2> QED BY <1>7
<1>9. kept[0] = start /\ \A i \in 1..n : kept[i] = Next1(i, kept[i - 1])
  <2> DEFINE body == [i \in 0..n |-> IF i = 0 THEN start ELSE Next1(i, kept[i - 1])]
  <2>1. kept = body
    BY <1>8
  <2> HIDE DEF kept
  <2>2. body[0] = start /\ \A i \in 1..n : body[i] = Next1(i, kept[i - 1])
    BY <1>1
  <2> HIDE DEF body
  <2> QED BY <2>1, <2>2
<1>10. kept = [i \in 0..n |-> kept[i]]
  BY <1>8
<1> HIDE DEF kept
<1>11. \A i \in 0..n : kept[i] \in A
  BY <1>1, <1>2, <1>9, AlongRecursion
<1>12. kept \in [0..n -> A]
  BY <1>10, <1>11
<1> QED BY <1>3, <1>9, <1>12 DEF n, A, start, Next1, FallbackRuns

(* Pack, unfolded. *)
LEMMA PackUnfolds ==
  ASSUME NEW s \in Seq(Results), NEW budget \in Nat, NEW cut \in Nat
  PROVE  \E f \in [0..Len(s) -> PackStates] :
           PackRuns(f, s, budget, cut) /\ Pack(s, budget, cut) = f[Len(s)]
<1> DEFINE n == Len(s)
           A == PackStates
           start == [chunks |-> <<>>, left |-> budget, truncated |-> FALSE, overflow |-> FALSE]
           Next1(i, a) == Consider(a, s[i], cut)
           step == [x \in (1..n) \X A |-> Next1(x[1], x[2])]
           Is(f) == f = [i \in 0..n |-> IF i = 0 THEN start ELSE Next1(i, f[i - 1])]
           kept == CHOOSE f : Is(f)
<1>1. n \in Nat /\ start \in A
  BY DEF PackStates
<1>2. \A i \in 1..n, a \in A : Next1(i, a) \in A
  BY ConsiderType
<1>3. Pack(s, budget, cut) = kept[n]
  BY DEF Pack
<1>4. step \in [(1..n) \X A -> A] /\ \A i \in 1..n, a \in A : step[<<i, a>>] = Next1(i, a)
  <2> HIDE DEF Next1
  <2> QED BY <1>2
<1> HIDE DEF n, A, Next1, start, step
<1>5. PICK f \in [0..n -> A] : Follows(f, n, start, step)
  <2>1. step \in Steps(n, A)
    BY <1>4 DEF Steps
  <2> QED BY <1>1, <2>1, Recursion
<1>6. \A i \in 1..n : f[i] = Next1(i, f[i - 1])
  <2>1. \A i \in 1..n : i - 1 \in 0..n
    BY <1>1
  <2> QED BY <1>4, <1>5, <2>1 DEF Follows
<1>7. Is(f)
  <2>1. f[0] = start
    BY <1>5 DEF Follows
  <2>2. \A i \in 0..n : f[i] = IF i = 0 THEN start ELSE Next1(i, f[i - 1])
    BY <1>1, <1>6, <2>1
  <2>3. f = [i \in 0..n |-> f[i]]
    BY <1>5
  <2> QED BY <2>2, <2>3
<1>8. Is(kept)
  <2> HIDE DEF Is
  <2> QED BY <1>7
<1>9. kept[0] = start /\ \A i \in 1..n : kept[i] = Next1(i, kept[i - 1])
  <2> DEFINE body == [i \in 0..n |-> IF i = 0 THEN start ELSE Next1(i, kept[i - 1])]
  <2>1. kept = body
    BY <1>8
  <2> HIDE DEF kept
  <2>2. body[0] = start /\ \A i \in 1..n : body[i] = Next1(i, kept[i - 1])
    BY <1>1
  <2> HIDE DEF body
  <2> QED BY <2>1, <2>2
<1>10. kept = [i \in 0..n |-> kept[i]]
  BY <1>8
<1> HIDE DEF kept
<1>11. \A i \in 0..n : kept[i] \in A
  BY <1>1, <1>2, <1>9, AlongRecursion
<1>12. kept \in [0..n -> A]
  BY <1>10, <1>11
<1> QED BY <1>3, <1>9, <1>12 DEF n, A, start, Next1, PackRuns

(* StructuralExpand, unfolded. *)
LEMMA ExpandUnfolds ==
  ASSUME NEW p \in PackStates, NEW s \in Seq(Results), p.left > 0
  PROVE  \E f \in [0..Len(s) -> [left : Int, chunks : Seq(Results)]] :
           ExpandRuns(f, p, s) /\ StructuralExpand(p, s) = [p EXCEPT !.chunks = f[Len(s)].chunks]
<1> DEFINE n == Len(s)
           A == [left : Int, chunks : Seq(Results)]
           start == [left |-> (p.left * 30) \div 100, chunks |-> p.chunks]
           Next1(i, a) == AddNeighbour(a, s[i])
           step == [x \in (1..n) \X A |-> Next1(x[1], x[2])]
           Is(f) == f = [i \in 0..n |-> IF i = 0 THEN start ELSE Next1(i, f[i - 1])]
           kept == CHOOSE f : Is(f)
<1>1. n \in Nat /\ start \in A
  BY DEF PackStates
<1>2. \A i \in 1..n, a \in A : Next1(i, a) \in A
  <2>1. ASSUME NEW i \in 1..n, NEW a \in A PROVE AddNeighbour(a, s[i]) \in A
    <3>1. s[i] \in Results
      OBVIOUS
    <3>2. s[i].tokens \in Nat
      BY <3>1 DEF Results
    <3> HIDE DEF n
    <3> QED BY <3>1, <3>2 DEF AddNeighbour
  <2> QED BY <2>1
<1>3. StructuralExpand(p, s) = [p EXCEPT !.chunks = kept[n].chunks]
  BY DEF StructuralExpand, PackStates
<1>4. step \in [(1..n) \X A -> A] /\ \A i \in 1..n, a \in A : step[<<i, a>>] = Next1(i, a)
  <2> HIDE DEF Next1
  <2> QED BY <1>2
<1> HIDE DEF n, A, Next1, start, step
<1>5. PICK f \in [0..n -> A] : Follows(f, n, start, step)
  <2>1. step \in Steps(n, A)
    BY <1>4 DEF Steps
  <2> QED BY <1>1, <2>1, Recursion
<1>6. \A i \in 1..n : f[i] = Next1(i, f[i - 1])
  <2>1. \A i \in 1..n : i - 1 \in 0..n
    BY <1>1
  <2> QED BY <1>4, <1>5, <2>1 DEF Follows
<1>7. Is(f)
  <2>1. f[0] = start
    BY <1>5 DEF Follows
  <2>2. \A i \in 0..n : f[i] = IF i = 0 THEN start ELSE Next1(i, f[i - 1])
    BY <1>1, <1>6, <2>1
  <2>3. f = [i \in 0..n |-> f[i]]
    BY <1>5
  <2> QED BY <2>2, <2>3
<1>8. Is(kept)
  <2> HIDE DEF Is
  <2> QED BY <1>7
<1>9. kept[0] = start /\ \A i \in 1..n : kept[i] = Next1(i, kept[i - 1])
  <2> DEFINE body == [i \in 0..n |-> IF i = 0 THEN start ELSE Next1(i, kept[i - 1])]
  <2>1. kept = body
    BY <1>8
  <2> HIDE DEF kept
  <2>2. body[0] = start /\ \A i \in 1..n : body[i] = Next1(i, kept[i - 1])
    BY <1>1
  <2> HIDE DEF body
  <2> QED BY <2>1, <2>2
<1>10. kept = [i \in 0..n |-> kept[i]]
  BY <1>8
<1> HIDE DEF kept
<1>11. \A i \in 0..n : kept[i] \in A
  BY <1>1, <1>2, <1>9, AlongRecursion
<1>12. kept \in [0..n -> A]
  BY <1>10, <1>11
<1> QED BY <1>3, <1>9, <1>12 DEF n, A, start, Next1, ExpandRuns
------------------------------------------------------------------------------
(* What a pass keeps of the candidates: each result stands at a place of its own *)
(* among them, with that one's id and parts.                                 *)
Picks(at, o, s) ==
  /\ at \in [1..Len(o) -> 1..Len(s)]
  /\ \A i, j \in 1..Len(o) : at[i] = at[j] => i = j
  /\ \A i \in 1..Len(o) : o[i].id = s[at[i]].id /\ o[i].parts = s[at[i]].parts
Free(at, o, k) == \A i \in 1..Len(o) : at[i] # k
Extends(new, at, o, p, k) == \A i \in 1..Len(p) : new[i] = IF i <= Len(o) THEN at[i] ELSE k
DrawnFrom(o, s) == \E at : Picks(at, o, s)

(* One more result, from a place not taken. *)
LEMMA PicksOneMore ==
  ASSUME NEW o \in Seq(Results), NEW s \in Seq(Results), NEW at, Picks(at, o, s),
         NEW k \in 1..Len(s), Free(at, o, k),
         NEW c \in Results, c.id = s[k].id, c.parts = s[k].parts
  PROVE  \E new : Picks(new, Append(o, c), s) /\ Extends(new, at, o, Append(o, c), k)
<1> DEFINE p == Append(o, c)
           new == [i \in 1..Len(p) |-> IF i <= Len(o) THEN at[i] ELSE k]
<1>1. /\ Len(o) \in Nat /\ Len(s) \in Nat /\ Len(p) = Len(o) + 1
      /\ \A i \in 1..Len(o) : p[i] = o[i]
      /\ p[Len(o) + 1] = c
  OBVIOUS
<1>2. \A i \in 1..Len(p) : i \in 1..Len(o) \/ i = Len(o) + 1
  BY <1>1
<1> HIDE DEF p
<1>3. /\ \A i \in 1..Len(o) : new[i] = at[i] /\ at[i] \in 1..Len(s)
      /\ new[Len(o) + 1] = k
  BY <1>1 DEF Picks
<1>4. new \in [1..Len(p) -> 1..Len(s)]
  BY <1>1, <1>2 DEF Picks
<1>5. Extends(new, at, o, p, k)
  BY DEF Extends
<1> HIDE DEF new
<1>6. \A i, j \in 1..Len(p) : new[i] = new[j] => i = j
  BY <1>2, <1>3 DEF Picks, Free
<1>7. \A i \in 1..Len(p) : p[i].id = s[new[i]].id /\ p[i].parts = s[new[i]].parts
  BY <1>1, <1>2, <1>3 DEF Picks
<1> QED BY <1>4, <1>5, <1>6, <1>7 DEF Picks, p

(* Nothing is drawn from anything. *)
LEMMA PicksNothing ==
  ASSUME NEW s \in Seq(Results)
  PROVE  \E at : Picks(at, <<>>, s)
<1> DEFINE at == [i \in {} |-> 0]
<1>1. Len(<<>>) = 0 /\ 1..0 = {}
  OBVIOUS
<1>2. at \in [{} -> 1..Len(s)]
  OBVIOUS
<1>3. Picks(at, <<>>, s)
  <2> HIDE DEF at
  <2> QED BY <1>1, <1>2 DEF Picks
<1> QED BY <1>3

(* Only keeps elements of s that are in T, each from its own place. *)
LEMMA OnlyDrawn ==
  ASSUME NEW s \in Seq(Results), NEW T
  PROVE  Only(s, T) \in Seq(Results \cap T) /\ DrawnFrom(Only(s, T), s)
<1>1. PICK f \in [0..Len(s) -> Seq(Results \cap T)] :
        OnlyRuns(f, s, T) /\ Only(s, T) = f[Len(s)]
  BY OnlyUnfolds
<1> DEFINE Upto(k) == \E at : Picks(at, f[k], s) /\ \A i \in 1..Len(f[k]) : at[i] <= k
           S == {k \in 0..Len(s) : Upto(k)}
<1>2. Len(s) \in Nat
  OBVIOUS
<1>3. 0 \in S
  <2>1. Upto(0)
    BY <1>1, PicksNothing DEF OnlyRuns
  <2> QED BY <2>1, <1>2
<1>4. ASSUME NEW k \in 1..Len(s), k - 1 \in S PROVE k \in S
  <2>1. PICK at : Picks(at, f[k - 1], s) /\ \A i \in 1..Len(f[k - 1]) : at[i] <= k - 1
    BY <1>4
  <2>2. f[k - 1] \in Seq(Results) /\ s[k] \in Results /\ k - 1 \in 0..Len(s)
    BY <1>2
  <2>3. \A i \in 1..Len(f[k - 1]) : at[i] \in Nat /\ at[i] # k /\ at[i] <= k
    BY <1>2, <2>1 DEF Picks
  <2>4. CASE s[k] \in T
    <3>1. f[k] = Append(f[k - 1], s[k])
      BY <1>1, <2>4 DEF OnlyRuns
    <3>2. Free(at, f[k - 1], k)
      BY <2>3 DEF Free
    <3>3. PICK new : Picks(new, f[k], s) /\ Extends(new, at, f[k - 1], f[k], k)
      BY <2>1, <2>2, <3>1, <3>2, PicksOneMore
    <3>4. \A i \in 1..Len(f[k]) : new[i] <= k
      <4>1. \A i \in 1..Len(f[k]) : i \in 1..Len(f[k - 1]) \/ ~(i <= Len(f[k - 1]))
        BY <2>2
      <4>2. \A i \in 1..Len(f[k]) : new[i] = IF i <= Len(f[k - 1]) THEN at[i] ELSE k
        BY <3>3 DEF Extends
      <4>3. k <= k
        OBVIOUS
      <4>4. \A i \in 1..Len(f[k - 1]) : at[i] <= k
        BY <2>3
      <4> QED BY <4>1, <4>2, <4>3, <4>4
    <3> QED BY <3>3, <3>4
  <2>5. CASE s[k] \notin T
    <3>1. f[k] = f[k - 1]
      BY <1>1, <2>5 DEF OnlyRuns
    <3> QED BY <2>1, <2>3, <3>1
  <2> QED BY <2>4, <2>5
<1>5. Len(s) \in S
  <2> HIDE DEF S
  <2> QED BY <1>2, <1>3, <1>4, UpTo
<1> QED BY <1>1, <1>2, <1>5 DEF DrawnFrom

(* The greedy pass keeps candidates. *)
LEMMA PackDrawn ==
  ASSUME NEW s \in Seq(Results), NEW budget \in Nat, NEW cut \in Nat
  PROVE  /\ Pack(s, budget, cut) \in PackStates
         /\ DrawnFrom(Pack(s, budget, cut).chunks, s)
<1>1. PICK f \in [0..Len(s) -> PackStates] :
        PackRuns(f, s, budget, cut) /\ Pack(s, budget, cut) = f[Len(s)]
  BY PackUnfolds
<1> DEFINE Upto(k) == \E at : /\ Picks(at, f[k].chunks, s)
                              /\ \A i \in 1..Len(f[k].chunks) : at[i] <= k
           S == {k \in 0..Len(s) : Upto(k)}
<1>2. Len(s) \in Nat
  OBVIOUS
<1>3. 0 \in S
  <2>1. f[0].chunks = <<>>
    BY <1>1 DEF PackRuns
  <2>2. Upto(0)
    BY <2>1, PicksNothing
  <2> QED BY <2>2, <1>2
<1>4. ASSUME NEW k \in 1..Len(s), k - 1 \in S PROVE k \in S
  <2> DEFINE a == f[k - 1]
             cutDown == [s[k] EXCEPT !.tokens = cut]
  <2>1. PICK at : Picks(at, a.chunks, s) /\ \A i \in 1..Len(a.chunks) : at[i] <= k - 1
    BY <1>4
  <2>2. a \in PackStates /\ s[k] \in Results
    BY <1>2
  <2>3. f[k] = Consider(a, s[k], cut)
    BY <1>1 DEF PackRuns
  <2> HIDE DEF a
  <2>4. a.chunks \in Seq(Results)
    BY <2>2 DEF PackStates
  <2>5. \A i \in 1..Len(a.chunks) : at[i] \in Nat /\ at[i] # k /\ at[i] <= k
    <3>1. \A i \in 1..Len(a.chunks) : at[i] \in 1..Len(s)
      BY <2>1 DEF Picks
    <3>2. \A i \in 1..Len(a.chunks) : at[i] <= k - 1
      BY <2>1
    <3> QED BY <1>2, <3>1, <3>2
  <2>6. cutDown \in Results /\ cutDown.id = s[k].id /\ cutDown.parts = s[k].parts
    <3>1. s[k] \in Results
      BY <2>2
    <3> QED BY <3>1, Resized
  <2> HIDE DEF cutDown
  <2>7. \/ f[k].chunks = a.chunks
        \/ \E c \in {s[k], cutDown} : f[k].chunks = Append(a.chunks, c)
    <3>1. CASE a.left <= 0 \/ HasLineOverlap(s[k], a.chunks)
      BY <2>3, <3>1 DEF Consider
    <3>2. CASE /\ ~(a.left <= 0 \/ HasLineOverlap(s[k], a.chunks))
               /\ s[k].tokens > a.left /\ a.chunks = <<>>
      <4>1. f[k].chunks = <<cutDown>>
        BY <2>2, <2>3, <3>2 DEF Consider, PackStates, cutDown
      <4>2. <<cutDown>> = Append(<<>>, cutDown)
        OBVIOUS
      <4> QED BY <4>1, <4>2, <3>2
    <3>3. CASE /\ ~(a.left <= 0 \/ HasLineOverlap(s[k], a.chunks))
               /\ ~(s[k].tokens > a.left /\ a.chunks = <<>>)
      BY <2>2, <2>3, <3>3 DEF Consider, PackStates
    <3> QED BY <3>1, <3>2, <3>3
  <2>8. CASE f[k].chunks = a.chunks
    BY <2>1, <2>5, <2>8
  <2>9. ASSUME NEW c \in {s[k], cutDown}, f[k].chunks = Append(a.chunks, c) PROVE k \in S
    <3>1. c \in Results /\ c.id = s[k].id /\ c.parts = s[k].parts
      BY <2>2, <2>6
    <3>2. Free(at, a.chunks, k)
      BY <2>5 DEF Free
    <3>3. PICK new : Picks(new, f[k].chunks, s) /\ Extends(new, at, a.chunks, f[k].chunks, k)
      BY <2>1, <2>4, <2>9, <3>1, <3>2, PicksOneMore
    <3>4. \A i \in 1..Len(f[k].chunks) : new[i] <= k
      BY <2>4, <2>5, <2>9, <3>3 DEF Extends
    <3> QED BY <3>3, <3>4
  <2> QED BY <2>7, <2>8, <2>9
<1>5. Len(s) \in S
  <2> HIDE DEF S
  <2> QED BY <1>2, <1>3, <1>4, UpTo
<1> QED BY <1>1, <1>2, <1>5 DEF DrawnFrom

(* What truncateChunk counts is a number. *)
LEMMA CutsTyped ==
  ASSUME NEW budget \in Nat
  PROVE  Cuts(budget) \subseteq Nat
  BY QueryAssumption DEF QueryAssumption, Cuts

(* The expansion adds candidates that the pass did not take. *)
LEMMA PackageDrawn ==
  ASSUME NEW s \in Seq(Results), NEW budget \in Nat, NEW package \in Packages(s, budget)
  PROVE  package \in PackStates /\ DrawnFrom(package.chunks, s)
<1>1. PICK cut \in Nat :
        \E near : /\ \A c \in near : c.id \notin Ids(Range(Pack(s, budget, cut).chunks))
                  /\ package = StructuralExpand(Pack(s, budget, cut), Only(s, near))
  BY CutsTyped DEF Packages
<1> DEFINE p == Pack(s, budget, cut)
<1>2. PICK near : /\ \A c \in near : c.id \notin Ids(Range(p.chunks))
                  /\ package = StructuralExpand(p, Only(s, near))
  BY <1>1
<1> DEFINE o == Only(s, near)
<1>3. p \in PackStates /\ DrawnFrom(p.chunks, s)
  BY PackDrawn
<1>4. o \in Seq(Results \cap near) /\ DrawnFrom(o, s)
  BY OnlyDrawn
<1>5. package = StructuralExpand(p, o)
  BY <1>2
<1>6. \A c \in near : c.id \notin Ids(Range(p.chunks))
  BY <1>2
<1> HIDE DEF p, o
<1>7. CASE p.left <= 0
  BY <1>3, <1>5, <1>7 DEF StructuralExpand
<1>8. CASE ~(p.left <= 0)
  <2>1. o \in Seq(Results) /\ p.left > 0 /\ Len(o) \in Nat
    BY <1>3, <1>4, <1>8 DEF PackStates
  <2>2. PICK f \in [0..Len(o) -> [left : Int, chunks : Seq(Results)]] :
          ExpandRuns(f, p, o) /\ package = [p EXCEPT !.chunks = f[Len(o)].chunks]
    BY <1>3, <1>5, <2>1, ExpandUnfolds
  <2>3. PICK pat : Picks(pat, p.chunks, s)
    BY <1>3 DEF DrawnFrom
  <2>4. PICK oat : Picks(oat, o, s)
    BY <1>4 DEF DrawnFrom
  <2> DEFINE Old(q) == s[q].id \in Ids(Range(p.chunks))
             Upto(k) == \E at : /\ Picks(at, f[k].chunks, s)
                                /\ \A i \in 1..Len(f[k].chunks) :
                                     Old(at[i]) \/ \E j \in 1..k : at[i] = oat[j]
             S == {k \in 0..Len(o) : Upto(k)}
  <2>5. 0 \in S
    <3>1. f[0].chunks = p.chunks
      BY <2>2 DEF ExpandRuns
    <3>2. ASSUME NEW i \in 1..Len(p.chunks) PROVE Old(pat[i])
      <4>1. p.chunks \in Seq(Results)
        BY <1>3 DEF PackStates
      <4>2. p.chunks[i] \in Range(p.chunks)
        BY <4>1 DEF Range
      <4> QED BY <2>3, <4>2 DEF Picks, Ids
    <3>3. Upto(0)
      BY <3>1, <3>2, <2>3
    <3> QED BY <3>3, <2>1
  <2>6. ASSUME NEW k \in 1..Len(o), k - 1 \in S PROVE k \in S
    <3> DEFINE a == f[k - 1]
    <3>1. PICK at : /\ Picks(at, a.chunks, s)
                    /\ \A i \in 1..Len(a.chunks) :
                         Old(at[i]) \/ \E j \in 1..(k - 1) : at[i] = oat[j]
      BY <2>6
    <3>2. a.chunks \in Seq(Results) /\ o[k] \in Results /\ o[k] \in near
      <4>1. k - 1 \in 0..Len(o)
        BY <2>1
      <4>2. a \in [left : Int, chunks : Seq(Results)]
        BY <4>1
      <4>3. o[k] \in Results \cap near
        BY <1>4
      <4> HIDE DEF a
      <4> QED BY <4>2, <4>3
    <3>3. f[k].chunks = a.chunks \/ f[k].chunks = Append(a.chunks, o[k])
      <4>1. f[k] = AddNeighbour(a, o[k])
        BY <2>2 DEF ExpandRuns
      <4> QED BY <4>1 DEF AddNeighbour
    <3> HIDE DEF a
    <3>4. oat[k] \in 1..Len(s) /\ o[k].id = s[oat[k]].id /\ o[k].parts = s[oat[k]].parts
      BY <2>4 DEF Picks
    <3>5. ~Old(oat[k]) /\ \A j \in 1..(k - 1) : oat[j] # oat[k]
      <4>1. o[k].id \notin Ids(Range(p.chunks))
        BY <1>6, <3>2
      <4>2. ~Old(oat[k])
        <5> HIDE DEF p
        <5> QED BY <3>4, <4>1
      <4>3. k \in 1..Len(o) /\ \A j \in 1..(k - 1) : j \in 1..Len(o) /\ j # k
        BY <2>1
      <4>4. \A i, j \in 1..Len(o) : oat[i] = oat[j] => i = j
        BY <2>4 DEF Picks
      <4> HIDE DEF Old
      <4>5. \A j \in 1..(k - 1) : oat[j] # oat[k]
        BY <4>3, <4>4
      <4> QED BY <4>2, <4>5
    <3> HIDE DEF Old
    <3>6. CASE f[k].chunks = a.chunks
      <4>1. \A i \in 1..Len(f[k].chunks) : Old(at[i]) \/ \E j \in 1..k : at[i] = oat[j]
        BY <3>1, <3>6
      <4> QED BY <3>1, <3>6, <4>1
    <3>7. CASE f[k].chunks = Append(a.chunks, o[k])
      <4>1. Free(at, a.chunks, oat[k])
        BY <3>1, <3>5 DEF Free
      <4>2. PICK new : /\ Picks(new, f[k].chunks, s)
                       /\ Extends(new, at, a.chunks, f[k].chunks, oat[k])
        <5>1. PICK q \in 1..Len(s) : q = oat[k]
          BY <3>4
        <5>2. Free(at, a.chunks, q) /\ o[k].id = s[q].id /\ o[k].parts = s[q].parts
          BY <3>4, <4>1, <5>1
        <5>3. Picks(at, a.chunks, s) /\ a.chunks \in Seq(Results) /\ o[k] \in Results
          BY <3>1, <3>2
        <5>4. \E new : /\ Picks(new, Append(a.chunks, o[k]), s)
                       /\ Extends(new, at, a.chunks, Append(a.chunks, o[k]), q)
          BY <5>2, <5>3, PicksOneMore
        <5> QED BY <3>7, <5>1, <5>4
      <4>3. \A i \in 1..Len(f[k].chunks) : Old(new[i]) \/ \E j \in 1..k : new[i] = oat[j]
        <5> TAKE i \in 1..Len(f[k].chunks)
        <5>1. CASE i <= Len(a.chunks)
          <6>1. i \in 1..Len(a.chunks) /\ new[i] = at[i]
            BY <3>2, <4>2, <5>1 DEF Extends
          <6>2. \A j \in 1..(k - 1) : j \in 1..k
            OBVIOUS
          <6> QED BY <3>1, <6>1, <6>2
        <5>2. CASE ~(i <= Len(a.chunks))
          BY <4>2, <5>2 DEF Extends
        <5> QED BY <5>1, <5>2
      <4> QED BY <4>2, <4>3
    <3> QED BY <3>3, <3>6, <3>7
  <2>7. Len(o) \in S
    <3> HIDE DEF S
    <3> QED BY <2>1, <2>5, <2>6, UpTo
  <2>8. DrawnFrom(f[Len(o)].chunks, s)
    BY <2>7 DEF DrawnFrom
  <2>9. f[Len(o)].chunks \in Seq(Results)
    BY <2>1
  <2> QED BY <1>3, <2>2, <2>8, <2>9 DEF PackStates
<1> QED BY <1>7, <1>8
------------------------------------------------------------------------------
(* Token counts. *)
LEMMA TotalEmpty == Total(<<>>) = 0
<1>1. <<>> \in Seq(Results) /\ Len(<<>>) = 0
  OBVIOUS
<1>2. PICK f \in [0..Len(<<>>) -> Nat] : TotalRuns(f, <<>>) /\ Total(<<>>) = f[Len(<<>>)]
  BY <1>1, TotalUnfolds
<1> QED BY <1>1, <1>2 DEF TotalRuns

(* A sum of tokens is a number. *)
LEMMA TotalType ==
  ASSUME NEW s \in Seq(Results)
  PROVE  Total(s) \in Nat
<1>1. PICK f \in [0..Len(s) -> Nat] : TotalRuns(f, s) /\ Total(s) = f[Len(s)]
  BY TotalUnfolds
<1> QED BY <1>1

(* One more result adds its tokens to the sum. *)
LEMMA TotalAppend ==
  ASSUME NEW s \in Seq(Results), NEW c \in Results
  PROVE  Total(s) \in Nat /\ Total(Append(s, c)) = Total(s) + c.tokens
<1> DEFINE t == Append(s, c)
<1>1. /\ t \in Seq(Results) /\ Len(s) \in Nat /\ Len(t) = Len(s) + 1
      /\ (\A i \in 1..Len(s) : t[i] = s[i]) /\ t[Len(s) + 1] = c
  OBVIOUS
<1> HIDE DEF t
<1>2. PICK f \in [0..Len(s) -> Nat] : TotalRuns(f, s) /\ Total(s) = f[Len(s)]
  BY TotalUnfolds
<1>3. PICK g \in [0..Len(t) -> Nat] : TotalRuns(g, t) /\ Total(t) = g[Len(t)]
  BY <1>1, TotalUnfolds
<1> DEFINE S == {i \in 0..Len(s) : g[i] = f[i]}
<1>4. 0 \in S
  BY <1>1, <1>2, <1>3 DEF TotalRuns
<1>5. ASSUME NEW i \in 1..Len(s), i - 1 \in S PROVE i \in S
  <2>1. i \in 1..Len(t) /\ t[i] = s[i]
    BY <1>1
  <2>2. f[i] = f[i - 1] + s[i].tokens /\ g[i] = g[i - 1] + t[i].tokens
    BY <1>2, <1>3, <2>1 DEF TotalRuns
  <2> QED BY <1>5, <2>1, <2>2
<1>6. Len(s) \in S
  <2> HIDE DEF S
  <2> QED BY <1>1, <1>4, <1>5, UpTo
<1>7. Len(t) \in 1..Len(t) /\ Len(t) - 1 = Len(s)
  BY <1>1
<1>8. g[Len(t)] = g[Len(t) - 1] + t[Len(t)].tokens
  BY <1>3, <1>7 DEF TotalRuns
<1>9. g[Len(t)] = f[Len(s)] + c.tokens
  BY <1>1, <1>6, <1>7, <1>8
<1>10. Total(t) = Total(s) + c.tokens
  BY <1>2, <1>3, <1>9
<1> QED BY <1>10, TotalType DEF t

(* A sequence that was appended to is not empty. *)
LEMMA AppendNotEmpty ==
  ASSUME NEW R, NEW s \in Seq(R), NEW c \in R
  PROVE  Append(s, c) # <<>>
<1>1. Len(Append(s, c)) = Len(s) + 1 /\ Len(s) \in Nat
  OBVIOUS
<1>2. Len(Append(s, c)) # 0
  BY <1>1
<1>3. Len(<<>>) = 0
  OBVIOUS
<1> QED BY <1>2, <1>3

(* All but the last of a sequence one longer. *)
LEMMA FrontAppend ==
  ASSUME NEW R, NEW s \in Seq(R), NEW c \in R
  PROVE  Front(Append(s, c)) = s
<1>1. Len(Append(s, c)) = Len(s) + 1 /\ Len(s) \in Nat /\ \A i \in 1..Len(s) : Append(s, c)[i] = s[i]
  OBVIOUS
<1>2. Front(Append(s, c)) = SubSeq(Append(s, c), 1, Len(s))
  BY <1>1 DEF Front
<1>3. SubSeq(Append(s, c), 1, Len(s)) = s
  BY <1>1
<1> QED BY <1>2, <1>3

(* The package keeps to the budget, or says that its last chunk does not. *)
Honest(a, budget) ==
  /\ a.truncated => a.left = 0 /\ ~a.overflow
  /\ a.overflow => a.left < 0
  /\ a.truncated \/ a.overflow => a.chunks # <<>> /\ Total(Front(a.chunks)) < budget
  /\ ~(a.truncated \/ a.overflow) => a.left >= 0 /\ Total(a.chunks) + a.left = budget

(* One candidate of the greedy pass keeps the budget: it is skipped, cut to  *)
(* fit when it is the first, or added with a flag when it goes over; the     *)
(* first one is never skipped.                                               *)
LEMMA ConsiderHonest ==
  ASSUME NEW budget \in Nat \ {0}, NEW cut \in Nat, NEW a \in PackStates, NEW c \in Results,
         Honest(a, budget)
  PROVE  /\ Honest(Consider(a, c, cut), budget)
         /\ a.chunks = <<>> /\ a.left = budget => Consider(a, c, cut).chunks # <<>>
         /\ a.chunks # <<>> => Consider(a, c, cut).chunks # <<>>
<1> DEFINE b == Consider(a, c, cut)
<1>1. /\ a.chunks \in Seq(Results) /\ a.left \in Int /\ c.tokens \in Nat
      /\ a.truncated \in BOOLEAN /\ a.overflow \in BOOLEAN
  BY DEF PackStates, Results
<1>2. ~HasLineOverlap(c, <<>>)
  BY DEF HasLineOverlap, Range
<1>3. CASE a.left <= 0 \/ HasLineOverlap(c, a.chunks)
  <2>1. b = a
    BY <1>3 DEF Consider
  <2> HIDE DEF b
  <2> QED BY <1>2, <1>3, <2>1 DEF b
<1>4. CASE ~(a.left <= 0 \/ HasLineOverlap(c, a.chunks)) /\ c.tokens > a.left /\ a.chunks = <<>>
  <2> DEFINE d == [c EXCEPT !.tokens = cut]
  <2>1. /\ b.chunks = <<d>> /\ b.left = 0 /\ b.truncated = TRUE
        /\ b.overflow = a.overflow
    BY <1>4 DEF Consider, PackStates
  <2>2. ~a.overflow
    BY <1>1, <1>4 DEF Honest
  <2>3. d \in Results
    BY DEF Results
  <2> HIDE DEF d, b
  <2>4. Front(<<d>>) = <<>> /\ <<d>> # <<>>
    <3>1. <<d>> = Append(<<>>, d) /\ <<>> \in Seq(Results)
      OBVIOUS
    <3> QED BY <2>3, <3>1, FrontAppend
  <2>5. Total(Front(b.chunks)) < budget
    BY <2>1, <2>4, TotalEmpty
  <2>6. Honest(b, budget)
    BY <2>1, <2>2, <2>4, <2>5 DEF Honest
  <2> QED BY <2>1, <2>4, <2>6 DEF b
<1>5. CASE /\ ~(a.left <= 0 \/ HasLineOverlap(c, a.chunks))
           /\ ~(c.tokens > a.left /\ a.chunks = <<>>)
  <2>1. /\ b.chunks = Append(a.chunks, c) /\ b.left = a.left - c.tokens
        /\ b.truncated = a.truncated
        /\ b.overflow = (a.overflow \/ c.tokens > a.left)
    BY <1>5 DEF Consider, PackStates
  <2> HIDE DEF b
  <2>2. ~a.truncated /\ ~a.overflow /\ Total(a.chunks) + a.left = budget
    BY <1>1, <1>5 DEF Honest
  <2>3. Total(a.chunks) \in Nat /\ Total(b.chunks) = Total(a.chunks) + c.tokens
    BY <1>1, <2>1, TotalAppend
  <2>4. Front(b.chunks) = a.chunks /\ b.chunks # <<>>
    <3>1. Append(a.chunks, c) # <<>>
      BY <1>1
    <3> QED BY <1>1, <2>1, <3>1, FrontAppend
  <2>5. Total(Front(b.chunks)) < budget
    BY <1>1, <1>5, <2>2, <2>3, <2>4
  <2>6. b.overflow <=> c.tokens > a.left
    BY <2>1, <2>2
  <2>7. Honest(b, budget)
    <3>1. b.overflow => b.left < 0
      BY <1>1, <2>1, <2>6
    <3>2. ~b.overflow => b.left >= 0 /\ Total(b.chunks) + b.left = budget
      BY <1>1, <2>1, <2>2, <2>3, <2>6
    <3> QED BY <2>1, <2>2, <2>4, <2>5, <3>1, <3>2 DEF Honest
  <2> QED BY <2>4, <2>7 DEF b
<1> QED BY <1>3, <1>4, <1>5

(* The greedy pass keeps the budget up to a flagged last chunk, and packs    *)
(* something when there is a candidate.                                      *)
LEMMA PackHonest ==
  ASSUME NEW s \in Seq(Results), NEW budget \in Nat \ {0}, NEW cut \in Nat
  PROVE  /\ Honest(Pack(s, budget, cut), budget)
         /\ s # <<>> => Pack(s, budget, cut).chunks # <<>>
<1>1. PICK f \in [0..Len(s) -> PackStates] :
        PackRuns(f, s, budget, cut) /\ Pack(s, budget, cut) = f[Len(s)]
  BY PackUnfolds
<1>2. Len(s) \in Nat /\ (s # <<>> => Len(s) > 0)
  OBVIOUS
<1>3. /\ f[0].chunks = <<>> /\ f[0].left = budget
      /\ f[0].truncated = FALSE /\ f[0].overflow = FALSE
  BY <1>1 DEF PackRuns
<1> DEFINE S == {k \in 0..Len(s) : Honest(f[k], budget) /\ (k > 0 => f[k].chunks # <<>>)}
<1>4. 0 \in S
  <2>1. Honest(f[0], budget)
    BY <1>3, TotalEmpty DEF Honest
  <2> QED BY <1>2, <2>1
<1>5. ASSUME NEW k \in 1..Len(s), k - 1 \in S PROVE k \in S
  <2>1. f[k] = Consider(f[k - 1], s[k], cut) /\ s[k] \in Results /\ f[k - 1] \in PackStates
    BY <1>1, <1>2 DEF PackRuns
  <2>2. Honest(f[k], budget)
    BY <1>5, <2>1, ConsiderHonest
  <2>3. f[k].chunks # <<>>
    <3>1. CASE k = 1
      BY <1>3, <1>5, <2>1, <3>1, ConsiderHonest
    <3>2. CASE k # 1
      <4>1. f[k - 1].chunks # <<>>
        BY <1>5, <3>2
      <4> QED BY <1>5, <2>1, <4>1, ConsiderHonest
    <3> QED BY <3>1, <3>2
  <2> QED BY <2>2, <2>3
<1>6. Len(s) \in S
  <2> HIDE DEF S
  <2> QED BY <1>2, <1>4, <1>5, UpTo
<1> QED BY <1>1, <1>2, <1>6

(* What Assemble returns, after the structural expansion. *)
LEMMA PackageHonest ==
  ASSUME NEW s \in Seq(Results), NEW budget \in Nat \ {0}, NEW package \in Packages(s, budget)
  PROVE  /\ package.truncated \/ package.overflow => Total(Front(package.chunks)) < budget
         /\ ~(package.truncated \/ package.overflow) => Total(package.chunks) <= budget
         /\ s # <<>> => package.chunks # <<>>
<1>1. PICK cut \in Nat, near \in SUBSET Range(s) :
        package = StructuralExpand(Pack(s, budget, cut), Only(s, near))
  BY CutsTyped DEF Packages
<1> DEFINE p == Pack(s, budget, cut)
           o == Only(s, near)
<1>2. p \in PackStates /\ Honest(p, budget) /\ (s # <<>> => p.chunks # <<>>)
  BY PackDrawn, PackHonest
<1>3. o \in Seq(Results \cap near) /\ package = StructuralExpand(p, o)
  BY <1>1, OnlyDrawn
<1> HIDE DEF p, o
<1>13. o \in Seq(Results)
  BY <1>3
<1>4. p.chunks \in Seq(Results) /\ p.left \in Int /\ p.truncated \in BOOLEAN /\ p.overflow \in BOOLEAN
  BY <1>2 DEF PackStates
<1>5. Total(p.chunks) \in Nat
  BY <1>4, TotalType
<1>6. CASE p.left <= 0
  <2>1. package = p
    BY <1>3, <1>6 DEF StructuralExpand
  <2> QED BY <1>2, <1>4, <1>5, <1>6, <2>1 DEF Honest
<1>7. CASE ~(p.left <= 0)
  <2>1. p.left > 0 /\ Len(o) \in Nat
    BY <1>13, <1>4, <1>7
  <2>2. PICK f \in [0..Len(o) -> [left : Int, chunks : Seq(Results)]] :
          ExpandRuns(f, p, o) /\ package = [p EXCEPT !.chunks = f[Len(o)].chunks]
    BY <1>2, <1>3, <1>13, <2>1, ExpandUnfolds
  <2> DEFINE share == (p.left * 30) \div 100
             Kept(a) == /\ a.left >= 0 /\ Total(a.chunks) + a.left = Total(p.chunks) + share
                        /\ p.chunks # <<>> => a.chunks # <<>>
             S == {k \in 0..Len(o) : Kept(f[k])}
  <2>3. share \in Nat /\ share <= p.left
    BY <1>4, <2>1
  <2> HIDE DEF share
  <2>4. 0 \in S
    <3>1. f[0].left = share /\ f[0].chunks = p.chunks
      BY <2>2 DEF ExpandRuns, share
    <3> QED BY <2>1, <2>3, <3>1
  <2>5. ASSUME NEW k \in 1..Len(o), k - 1 \in S PROVE k \in S
    <3> DEFINE a == f[k - 1]
    <3>1. f[k] = AddNeighbour(a, o[k])
      BY <2>2 DEF ExpandRuns
    <3>2. a.left \in Int /\ a.chunks \in Seq(Results) /\ Kept(a)
      BY <2>1, <2>5
    <3> HIDE DEF a
    <3>3. o[k] \in Results
      BY <1>13
    <3>4. o[k].tokens \in Nat
      BY <3>3 DEF Results
    <3>5. Total(a.chunks) \in Nat /\ Total(Append(a.chunks, o[k])) = Total(a.chunks) + o[k].tokens
      BY <3>2, <3>3, TotalAppend
    <3>6. CASE o[k].tokens <= a.left
      <4>1. f[k].left = a.left - o[k].tokens /\ f[k].chunks = Append(a.chunks, o[k])
        BY <3>1, <3>6 DEF AddNeighbour
      <4>2. Append(a.chunks, o[k]) # <<>>
        <5>1. a.chunks \in Seq(Results)
          BY <3>2
        <5> QED BY <3>3, <5>1, AppendNotEmpty
      <4>3. f[k].left >= 0
        BY <3>2, <3>4, <3>6, <4>1
      <4>4. Total(f[k].chunks) + f[k].left = Total(p.chunks) + share
        <5>1. Total(f[k].chunks) + f[k].left
                = (Total(a.chunks) + o[k].tokens) + (a.left - o[k].tokens)
          BY <3>5, <4>1
        <5>2. Total(a.chunks) + a.left = Total(p.chunks) + share /\ a.left \in Int
          BY <1>5, <2>3, <3>2
        <5>3. \A x, y, z \in Int : (x + y) + (z - y) = x + z
          OBVIOUS
        <5>4. Total(a.chunks) \in Int /\ o[k].tokens \in Int
          BY <3>4, <3>5
        <5> QED BY <5>1, <5>2, <5>3, <5>4
      <4>5. f[k].chunks # <<>>
        BY <4>1, <4>2
      <4>6. Kept(f[k])
        <5> HIDE DEF a
        <5> QED BY <4>3, <4>4, <4>5
      <4> HIDE DEF Kept
      <4> QED BY <4>6
    <3>7. CASE ~(o[k].tokens <= a.left)
      <4>1. f[k] = a
        BY <3>1, <3>7 DEF AddNeighbour
      <4> QED BY <3>2, <4>1
    <3> QED BY <3>6, <3>7
  <2>6. Len(o) \in S
    <3> HIDE DEF S
    <3> QED BY <2>1, <2>4, <2>5, UpTo
  <2> DEFINE e == f[Len(o)]
  <2>7. Kept(e) /\ e.left \in Int /\ e.chunks \in Seq(Results)
    BY <2>1, <2>6
  <2>8. package.chunks = e.chunks /\ package.truncated = p.truncated /\ package.overflow = p.overflow
    BY <1>2, <2>2 DEF PackStates
  <2> HIDE DEF e
  <2>9. ~p.truncated /\ ~p.overflow /\ Total(p.chunks) + p.left = budget
    BY <1>2, <1>4, <1>7 DEF Honest
  <2>10. Total(e.chunks) \in Nat
    BY <2>7, TotalType
  <2>11. Total(e.chunks) <= budget
    BY <1>4, <1>5, <2>3, <2>7, <2>9, <2>10
  <2> QED BY <1>2, <2>7, <2>8, <2>9, <2>11
<1> QED BY <1>6, <1>7

(* The files of the fallback: each once, within the budget. *)
LEMMA FallbackHonest ==
  ASSUME NEW budget \in Nat \ {0}, NEW readable
  PROVE  LET files == FilesystemFallback(budget, readable)
         IN  /\ files \in Seq(FileResults) /\ Total(files) <= budget
             /\ \A i, j \in 1..Len(files) : files[i].id = files[j].id => i = j
<1>1. PICK f \in [0..Len(Tree) -> [left : Nat, chunks : Seq(FileResults)]] :
        /\ FallbackRuns(f, budget, readable)
        /\ FilesystemFallback(budget, readable) = f[Len(Tree)].chunks
  BY FallbackUnfolds
<1>2. Tree \in Seq(Files) /\ Len(Tree) \in Nat /\ FileTokens \in [Files -> Nat]
      /\ \A i, j \in 1..Len(Tree) : Tree[i] = Tree[j] => i = j
  <2>1. Tree \in Seq(Files) /\ IsInjective(Tree) /\ FileTokens \in [Files -> Nat]
    BY QueryAssumption DEF QueryAssumption
  <2>2. Len(Tree) \in Nat /\ DOMAIN Tree = 1..Len(Tree)
    BY <2>1
  <2>3. \A i, j \in 1..Len(Tree) : Tree[i] = Tree[j] => i = j
    BY <2>1, <2>2, Zenon DEF IsInjective
  <2> QED BY <2>1, <2>2, <2>3
<1> DEFINE Kept(k) ==
             LET c == f[k].chunks
             IN  /\ Total(c) + f[k].left = budget
                 /\ \A i \in 1..Len(c) : \E q \in 1..k : c[i].id = <<Tree[q], 0, 0>>
                 /\ \A i, j \in 1..Len(c) : c[i].id = c[j].id => i = j
           S == {k \in 0..Len(Tree) : Kept(k)}
<1>3. 0 \in S
  <2>1. f[0].chunks = <<>> /\ f[0].left = budget
    BY <1>1 DEF FallbackRuns
  <2>2. Len(<<>>) = 0 /\ 1..0 = {}
    OBVIOUS
  <2>3. Kept(0)
    BY <2>1, <2>2, TotalEmpty
  <2> QED BY <1>2, <2>3
<1>4. ASSUME NEW k \in 1..Len(Tree), k - 1 \in S PROVE k \in S
  <2> DEFINE a == f[k - 1]
             t == Min({FileTokens[Tree[k]], a.left})
             r == [id |-> <<Tree[k], 0, 0>>, parts |-> {}, tokens |-> t]
  <2>0. Tree[k] \in Files /\ FileTokens[Tree[k]] \in Nat
    BY <1>2
  <2>1. a.left \in Nat /\ a.chunks \in Seq(FileResults) /\ FileTokens[Tree[k]] \in Nat /\ Tree[k] \in Files
    <3>1. k - 1 \in 0..Len(Tree)
      BY <1>2
    <3>2. a \in [left : Nat, chunks : Seq(FileResults)]
      BY <3>1
    <3> QED BY <2>0, <3>2
  <2>2. f[k] = IF Tree[k] \notin readable \/ a.left <= 0 THEN a
               ELSE [left |-> a.left - t, chunks |-> Append(a.chunks, r)]
    BY <1>1 DEF FallbackRuns, ReadFile
  <2>3. Kept(k - 1)
    BY <1>4
  <2>4. t \in Nat /\ t <= a.left
    <3> DEFINE x == FileTokens[Tree[k]]
               y == a.left
    <3>1. x \in Nat /\ y \in Nat
      BY <2>1
    <3> HIDE DEF x, y
    <3>2. Min({x, y}) = IF x <= y THEN x ELSE y
      BY <3>1, MinOfTwo
    <3>3. Min({x, y}) \in Nat /\ Min({x, y}) <= y
      BY <3>1, <3>2
    <3> QED BY <3>3 DEF x, y
  <2>5. r \in Results /\ r.id = <<Tree[k], 0, 0>> /\ r.tokens = t
    BY <2>1, <2>4 DEF Results
  <2>6. a.chunks \in Seq(Results)
    BY <2>1 DEF FileResults
  <2> HIDE DEF t, r
  <2>8. CASE Tree[k] \notin readable \/ a.left <= 0
    <3>1. f[k].chunks = a.chunks /\ f[k].left = a.left
      BY <2>2, <2>8
    <3>2. \A i \in 1..Len(a.chunks) : \E q \in 1..k : a.chunks[i].id = <<Tree[q], 0, 0>>
      <4>1. \A q \in 1..(k - 1) : q \in 1..k
        OBVIOUS
      <4> QED BY <2>3, <4>1
    <3>3. Kept(k)
      <4> HIDE DEF a
      <4> QED BY <2>3, <3>1, <3>2 DEF a
    <3>4. k \in 0..Len(Tree)
      BY <1>2
    <3> HIDE DEF Kept
    <3> QED BY <3>3, <3>4
  <2>9. CASE ~(Tree[k] \notin readable \/ a.left <= 0)
    <3> DEFINE c == Append(a.chunks, r)
    <3>1. f[k].chunks = c /\ f[k].left = a.left - t
      BY <2>2, <2>9
    <3>2. /\ Len(a.chunks) \in Nat /\ Len(c) = Len(a.chunks) + 1 /\ c # <<>>
          /\ (\A i \in 1..Len(a.chunks) : c[i] = a.chunks[i]) /\ c[Len(a.chunks) + 1] = r
      BY <2>6
    <3>3. Total(a.chunks) \in Nat /\ Total(c) = Total(a.chunks) + t
      BY <2>5, <2>6, TotalAppend
    <3>4. Total(a.chunks) + a.left = budget
      BY <2>3
    <3>5. \A i \in 1..Len(a.chunks) : \E q \in 1..(k - 1) : a.chunks[i].id = <<Tree[q], 0, 0>>
      BY <2>3
    <3>6. \A i, j \in 1..Len(a.chunks) : a.chunks[i].id = a.chunks[j].id => i = j
      BY <2>3
    <3> HIDE DEF a, c
    <3>7. \A i \in 1..Len(c) : i \in 1..Len(a.chunks) \/ i = Len(a.chunks) + 1
      BY <3>2
    <3>8. \A i \in 1..Len(c) : \E q \in 1..k : c[i].id = <<Tree[q], 0, 0>>
      <4> TAKE i \in 1..Len(c)
      <4>1. CASE i \in 1..Len(a.chunks)
        <5>1. PICK q \in 1..(k - 1) : a.chunks[i].id = <<Tree[q], 0, 0>>
          BY <3>5, <4>1
        <5>2. q \in 1..k /\ c[i] = a.chunks[i]
          BY <3>2, <4>1
        <5> QED BY <5>1, <5>2
      <4>2. CASE i = Len(a.chunks) + 1
        <5>1. c[i].id = <<Tree[k], 0, 0>> /\ k \in 1..k
          BY <2>5, <3>2, <4>2
        <5> QED BY <5>1
      <4> QED BY <3>7, <4>1, <4>2
    <3>9. \A i \in 1..Len(a.chunks) : a.chunks[i].id # r.id
      <4> TAKE i \in 1..Len(a.chunks)
      <4>1. PICK q \in 1..(k - 1) : a.chunks[i].id = <<Tree[q], 0, 0>>
        BY <3>5
      <4>2. q \in 1..Len(Tree) /\ q # k
        BY <1>2
      <4>3. Tree[q] # Tree[k]
        BY <1>2, <4>2
      <4> QED BY <2>5, <4>1, <4>3
    <3>10. \A i, j \in 1..Len(c) : c[i].id = c[j].id => i = j
      BY <3>2, <3>6, <3>7, <3>9
    <3>11. Total(c) + (a.left - t) = budget
      BY <2>1, <2>4, <3>3, <3>4 DEF a
    <3>12. Kept(k)
      BY <3>1, <3>2, <3>8, <3>10, <3>11
    <3>13. k \in 0..Len(Tree)
      BY <1>2
    <3> HIDE DEF Kept
    <3> QED BY <3>12, <3>13
  <2> QED BY <2>8, <2>9
<1>5. Len(Tree) \in S
  <2> HIDE DEF S
  <2> QED BY <1>2, <1>3, <1>4, UpTo
<1>6. Kept(Len(Tree)) /\ f[Len(Tree)].left \in Nat /\ f[Len(Tree)].chunks \in Seq(FileResults)
  BY <1>2, <1>5
<1>7. f[Len(Tree)].chunks \in Seq(Results)
  BY <1>6 DEF FileResults
<1>8. Total(f[Len(Tree)].chunks) \in Nat
  BY <1>7, TotalType
<1> QED BY <1>1, <1>6, <1>8
------------------------------------------------------------------------------
(* The invariant. *)
PCs == {"files", "fts", "hydrate", "embed", "embedding", "vector", "merge", "expand", "rank",
        "assemble", "done"}
CallStates ==
  [pc : PCs, ask : Inputs, plan : {"filesystem", "keyword", "semantic", "retry"},
   since : [Files -> Nat], until : [Files -> Nat], hits : SUBSET RowIds,
   found : SUBSET Results, ranked : Seq(Results), chunks : Seq(Results),
   source : {"none", "index", "files", "error"}, flagged : BOOLEAN, expanded : BOOLEAN]

(* A result of call s is what was asked for and of one generation between the *)
(* call's start and g.                                                       *)
SoundIn(s, r, g) ==
  /\ r \in Results /\ r.id \in RowIds
  /\ Accepts(s.ask.scope, r.id[1])
  /\ r.id \in r.parts
  /\ \A p \in r.parts : p[1] = r.id[1] /\ p[2] = r.id[2]
  /\ s.since[r.id[1]] <= r.id[2] /\ r.id[2] <= g[r.id[1]]

(* Its symbol's rows are all there, or it is of an earlier generation. *)
Whole(id) ==
  {p \in {<<id[1], id[2], k>> : k \in DOMAIN Layout[id[1]][id[2]]} :
     IsNamed(id) /\ Row(p).name = Row(id).name /\ Row(p).kind = Row(id).kind} \cup {id}
IsWhole(r, g) == r.parts = Whole(r.id) \/ r.id[2] < g[r.id[1]]

(* No two results share a row. *)
Apart(results) == \A q, r \in results : q # r => q.parts \cap r.parts = {}

GoodSeq(s, t, g) ==
  /\ t \in Seq(Results)
  /\ \A i \in 1..Len(t) : SoundIn(s, t[i], g) /\ (s.expanded => IsWhole(t[i], g))
  /\ \A i, j \in 1..Len(t) : i # j => t[i].parts \cap t[j].parts = {}

(* The files of the fallback. *)
FileSeq(t) ==
  /\ t \in Seq(FileResults)
  /\ \A i, j \in 1..Len(t) : t[i].id = t[j].id => i = j

GenTyped == gen \in [Files -> Nat] /\ \A f \in Files : gen[f] <= Len(Layout[f])

Fragments(s) == ~s.expanded /\ \A r \in s.found : r = Single(r.id)
Looking(s, g) ==
  /\ IsFiniteSet(s.found) /\ Apart(s.found)
  /\ \A r \in s.found : SoundIn(s, r, g)
  /\ s.pc \notin {"rank", "assemble", "done"} => Fragments(s)
  /\ s.pc = "rank" /\ s.expanded => \A r \in s.found : IsWhole(r, g)
  /\ s.pc = "assemble" =>
       /\ s.ask.tool = "context"
       /\ FileSeq(s.ranked) \/ GoodSeq(s, s.ranked, g)
       /\ s.ranked # <<>>

(* What an answer from the index holds, and what a context package does. *)
Within(s, chunks) ==
  /\ s.ask.tool = "search" /\ s.ask.under # {} =>
       \A i \in 1..Len(chunks) : chunks[i].id[1] \in s.ask.under
  /\ s.ask.tool = "search" /\ (s.plan = "semantic" \/ s.ask.under # {})
       => Len(chunks) <= s.ask.max
FromTheIndex(s) == s.source = "index" => GoodSeq(s, s.chunks, s.until) /\ Within(s, s.chunks)
Packed(chunks, flagged, budget) ==
  /\ ~flagged => Total(chunks) <= budget
  /\ flagged => Total(Front(chunks)) < budget
  /\ \A i, j \in 1..Len(chunks) : i # j => chunks[i].id # chunks[j].id
InContext(s) ==
  s.ask.tool = "context" /\ s.source # "error" =>
    Packed(s.chunks, s.flagged, s.ask.budget) /\ (s.chunks = <<>> => s.source = "files")

Known(s, g) ==
  /\ s \in CallStates
  /\ s.ask.tool = "context" => s.ask.budget > 0
  /\ \A f \in Files : s.since[f] <= g[f]
CallOK(s, g) ==
  s # Idle => /\ Known(s, g)
              /\ s.pc # "done" => Looking(s, g)
              /\ s.pc = "done" => FromTheIndex(s) /\ InContext(s)

IInv ==
  /\ GenTyped /\ vecs \subseteq RowIds
  /\ DOMAIN call = Calls
  /\ \A c \in Calls : CallOK(call[c], gen)

------------------------------------------------------------------------------
(* Rows and results *)

(* What a function makes of a finite set is finite. *)
LEMMA FiniteImage ==
  ASSUME NEW S, IsFiniteSet(S), NEW f, f = [x \in S |-> f[x]]
  PROVE  IsFiniteSet({f[x] : x \in S})
<1> DEFINE T == {f[x] : x \in S}
<1>1. f \in [S -> T]
  OBVIOUS
<1>2. \A t \in T : \E x \in S : f[x] = t
  OBVIOUS
<1>3. f \in Surjection(S, T)
  <2> HIDE DEF T
  <2> QED BY <1>1, <1>2 DEF Surjection
<1> HIDE DEF T
<1>4. IsFiniteSet(T)
  BY <1>3, FS_Surjection
<1> QED BY <1>4 DEF T

(* The rows of a file that are in the store. *)
LEMMA ChunksTyped ==
  ASSUME GenTyped, NEW f \in Files
  PROVE  /\ Chunks(f) \subseteq RowIds /\ IsFiniteSet(Chunks(f))
         /\ \A id \in Chunks(f) : id[1] = f /\ id[2] = gen[f] /\ gen[f] # 0
<1>1. CASE gen[f] = 0
  BY <1>1, FS_EmptySet DEF Chunks
<1>2. CASE gen[f] # 0
  <2> DEFINE rows == Layout[f][gen[f]]
             h == [i \in 1..Len(rows) |-> <<f, gen[f], i>>]
  <2>1. gen[f] \in 1..Len(Layout[f]) /\ Layout[f] \in Seq(Seq(ChunkRecords))
    BY <1>2, QueryAssumption DEF GenTyped, QueryAssumption
  <2>2. rows \in Seq(ChunkRecords)
    BY <2>1
  <2>3. DOMAIN rows = 1..Len(rows) /\ Len(rows) \in Nat
    BY <2>2
  <2>4. Chunks(f) = {h[i] : i \in 1..Len(rows)}
    BY <1>2, <2>3 DEF Chunks
  <2>5. IsFiniteSet(1..Len(rows))
    BY <2>3, FS_Interval
  <2>6. IsFiniteSet(Chunks(f))
    <3>1. h = [i \in 1..Len(rows) |-> h[i]]
      OBVIOUS
    <3> HIDE DEF h
    <3> QED BY <2>4, <2>5, <3>1, FiniteImage
  <2>7. Chunks(f) \subseteq RowIds
    <3> SUFFICES ASSUME NEW i \in 1..Len(rows) PROVE <<f, gen[f], i>> \in RowIds
      BY <2>4
    <3>1. gen[f] \in Nat /\ i \in Nat
      BY <2>1, <2>3
    <3> QED BY <2>1, <3>1 DEF RowIds
  <2>8. \A id \in Chunks(f) : id[1] = f /\ id[2] = gen[f]
    <3> TAKE id \in Chunks(f)
    <3>1. PICK i \in 1..Len(rows) : id = h[i]
      BY <2>4
    <3>2. id = <<f, gen[f], i>>
      BY <3>1
    <3> QED BY <3>2
  <2> QED BY <1>2, <2>6, <2>7, <2>8
<1> QED BY <1>1, <1>2

(* The rows in the store are of the current generations of their files. *)
LEMMA LiveTyped ==
  ASSUME GenTyped
  PROVE  /\ Live \subseteq RowIds /\ IsFiniteSet(Live)
         /\ \A id \in Live : id[1] \in Files /\ id[2] = gen[id[1]] /\ id \in Chunks(id[1])
<1> DEFINE h == [f \in Files |-> Chunks(f)]
           T == {h[f] : f \in Files}
<1>1. IsFiniteSet(T)
  <2>1. h = [f \in Files |-> h[f]]
    OBVIOUS
  <2>2. IsFiniteSet(Files)
    BY QueryAssumption DEF QueryAssumption
  <2> HIDE DEF h
  <2> QED BY <2>1, <2>2, FiniteImage
<1>2. \A t \in T : IsFiniteSet(t)
  BY ChunksTyped
<1>3. Live = UNION T
  BY DEF Live
<1>4. IsFiniteSet(Live)
  <2> HIDE DEF T
  <2> QED BY <1>1, <1>2, <1>3, FS_UNION
<1>5. \A id \in Live : \E f \in Files : id \in Chunks(f)
  BY DEF Live
<1>6. \A id \in Live : id \in RowIds /\ id[1] \in Files /\ id[2] = gen[id[1]] /\ id \in Chunks(id[1])
  BY <1>5, ChunksTyped
<1> QED BY <1>4, <1>6

(* A row of the store on its own. *)
LEMMA SingleTyped ==
  ASSUME NEW id \in RowIds
  PROVE  Single(id) \in Results /\ Single(id).id = id /\ Single(id).parts = {id}
<1>1. TokensOf(id, {id}) \in Nat
  BY TokensOfType
<1>2. id \in Files \X Nat \X Nat
  BY DEF RowIds
<1> QED BY <1>1, <1>2 DEF Single, Merged, Results

(* Siblings are siblings of each other. *)
LEMMA SiblingsAlike ==
  ASSUME GenTyped, NEW id \in RowIds, NEW t \in Siblings(id)
  PROVE  /\ t \in RowIds /\ t[1] = id[1] /\ t[2] = gen[id[1]]
         /\ Row(t).name = Row(id).name /\ Row(t).kind = Row(id).kind
         /\ Siblings(t) = Siblings(id) /\ (IsNamed(t) <=> IsNamed(id))
<1>1. id[1] \in Files
  BY RowsTyped
<1>2. t \in RowIds /\ t[1] = id[1] /\ t[2] = gen[id[1]]
  BY <1>1, ChunksTyped DEF Siblings
<1>3. Row(t).name = Row(id).name /\ Row(t).kind = Row(id).kind
  BY DEF Siblings
<1>4. Siblings(t) = Siblings(id)
  BY <1>2, <1>3 DEF Siblings
<1> QED BY <1>2, <1>3, <1>4 DEF IsNamed

(* ExpandSplitSiblings leaves each fragment of the present generation whole, and *)
(* no row in two results.                                                    *)
LEMMA MergeSiblingsGood ==
  ASSUME GenTyped, NEW s, NEW results, IsFiniteSet(results),
         s.since \in [Files -> Nat], \A f \in Files : s.since[f] <= gen[f],
         \A r \in results : SoundIn(s, r, gen) /\ r = Single(r.id)
  PROVE  LET m == MergeSiblings(results)
         IN  /\ IsFiniteSet(m) /\ Apart(m)
             /\ \A r \in m : SoundIn(s, r, gen) /\ IsWhole(r, gen)
<1> DEFINE joined == {x \in results : x.id \in Group(x)}
           groups == {Group(r) : r \in joined}
           alone == {r \in results : r.id \notin Group(r)}
           Joint(g) == Merged(CHOOSE id \in g : id \in Ids(results), g)
           merged == {Joint(g) : g \in groups}
<1>1. MergeSiblings(results) = alone \cup merged
  BY DEF MergeSiblings
<1>2. \A r \in results : /\ r.id \in RowIds /\ r.parts = {r.id} /\ r \in Results
                         /\ r.id[1] \in Files
  BY SingleTyped, RowsTyped DEF SoundIn
<1>3. IsFiniteSet(alone) /\ IsFiniteSet(joined)
  <2>1. alone \in SUBSET results /\ joined \in SUBSET results
    OBVIOUS
  <2> HIDE DEF alone, joined
  <2> QED BY <2>1, FS_Subset
<1>4. IsFiniteSet(merged)
  <2> DEFINE h == [r \in joined |-> Group(r)]
             k == [g \in groups |-> Joint(g)]
  <2>1. h = [r \in joined |-> h[r]] /\ groups = {h[r] : r \in joined}
    OBVIOUS
  <2>2. k = [g \in groups |-> k[g]] /\ merged = {k[g] : g \in groups}
    <3> HIDE DEF Joint, groups
    <3> QED OBVIOUS
  <2> HIDE DEF h, k, joined, groups, merged
  <2>3. IsFiniteSet(groups)
    BY <1>3, <2>1, FiniteImage
  <2> QED BY <2>2, <2>3, FiniteImage
<1>5. ASSUME NEW g \in groups
      PROVE  LET j == Joint(g)
             IN  /\ j.id \in g /\ j.parts = g /\ j.id \in RowIds
                 /\ g = Siblings(j.id) /\ IsNamed(j.id)
                 /\ SoundIn(s, j, gen) /\ IsWhole(j, gen)
  <2>1. PICK r \in results : r.id \in Group(r) /\ g = Group(r)
    OBVIOUS
  <2>2. g = Siblings(r.id) /\ IsNamed(r.id) /\ r.id \in RowIds
    BY <1>2, <2>1 DEF Group
  <2> DEFINE id == CHOOSE x \in g : x \in Ids(results)
  <2>3. r.id \in g /\ r.id \in Ids(results)
    BY <2>1 DEF Ids
  <2>4. id \in g /\ id \in Ids(results)
    BY <2>3
  <2> HIDE DEF id
  <2>5. /\ id \in RowIds /\ id[1] = r.id[1] /\ id[2] = gen[id[1]]
        /\ g = Siblings(id) /\ IsNamed(id)
    BY <2>2, <2>4, SiblingsAlike
  <2>6. TokensOf(id, g) \in Nat
    BY <2>5, TokensOfType
  <2>7. Joint(g) = [id |-> id, parts |-> g, tokens |-> TokensOf(id, g)]
    BY DEF Merged, id
  <2>8. /\ g \subseteq RowIds
        /\ \A p \in g : p[1] = id[1] /\ p[2] = id[2]
    BY <2>5, SiblingsAlike
  <2>9. id \in Files \X Nat \X Nat
    BY <2>5 DEF RowIds
  <2> DEFINE j == Joint(g)
  <2>10. j \in Results /\ j.id = id /\ j.parts = g
    <3>1. j = [id |-> id, parts |-> g, tokens |-> TokensOf(id, g)]
      BY <2>7
    <3> HIDE DEF j, Joint, groups
    <3> QED BY <2>6, <2>8, <2>9, <3>1 DEF Results
  <2> HIDE DEF j
  <2>11. Accepts(s.ask.scope, id[1])
    BY <2>1, <2>5 DEF SoundIn
  <2>12. id[1] \in Files /\ gen[id[1]] \in Nat /\ s.since[id[1]] <= id[2]
    BY <2>5, RowsTyped DEF GenTyped
  <2>13. id[2] <= gen[id[1]]
    BY <2>5, <2>12
  <2>14. SoundIn(s, j, gen)
    BY <2>4, <2>5, <2>8, <2>10, <2>11, <2>12, <2>13 DEF SoundIn
  <2>15. g = Whole(id)
    <3>1. gen[id[1]] # 0
      BY <2>4, <2>5, <2>12, ChunksTyped DEF Siblings
    <3>2. Chunks(id[1]) = {<<id[1], id[2], k>> : k \in DOMAIN Layout[id[1]][id[2]]}
      BY <2>5, <3>1 DEF Chunks
    <3> QED BY <2>4, <2>5, <3>2 DEF Whole, Siblings
  <2> QED BY <2>4, <2>5, <2>10, <2>14, <2>15 DEF IsWhole, j
<1>6. ASSUME NEW r \in alone
      PROVE  SoundIn(s, r, gen) /\ IsWhole(r, gen) /\ r.parts = {r.id} /\ r.id \in RowIds
  <2>1. r \in results /\ r.id \notin Group(r)
    OBVIOUS
  <2>2. SoundIn(s, r, gen) /\ r.parts = {r.id} /\ r.id \in RowIds /\ r.id[1] \in Files
    BY <1>2, <2>1
  <2>3. r.id[2] \in Nat /\ gen[r.id[1]] \in Nat /\ r.id[2] <= gen[r.id[1]]
    BY <2>2, RowsTyped DEF SoundIn, GenTyped
  <2>4. CASE r.id[2] = gen[r.id[1]]
    <3>1. gen[r.id[1]] # 0 /\ r.id[3] \in DOMAIN Layout[r.id[1]][r.id[2]]
          /\ r.id = <<r.id[1], r.id[2], r.id[3]>>
      BY <2>2, <2>4, RowsTyped
    <3>2. Chunks(r.id[1]) = {<<r.id[1], r.id[2], k>> : k \in DOMAIN Layout[r.id[1]][r.id[2]]}
      BY <2>4, <3>1 DEF Chunks
    <3>3. r.id \in Siblings(r.id)
      BY <3>1, <3>2 DEF Siblings
    <3>4. CASE ~IsNamed(r.id)
      BY <2>2, <3>4 DEF Whole, IsWhole
    <3>5. CASE IsNamed(r.id)
      <4>1. ~(Cardinality(Siblings(r.id)) > 1)
        BY <2>1, <3>3, <3>5 DEF Group
      <4>2. Siblings(r.id) \in SUBSET Chunks(r.id[1]) /\ IsFiniteSet(Chunks(r.id[1]))
        BY <2>2, ChunksTyped DEF Siblings
      <4>3. IsFiniteSet(Siblings(r.id))
        BY <4>2, FS_Subset
      <4>4. Cardinality(Siblings(r.id)) \in Nat
        BY <4>3, FS_CardinalityType
      <4>5. Cardinality(Siblings(r.id)) # 0
        BY <3>3, <4>3, FS_EmptySet
      <4>6. Cardinality(Siblings(r.id)) = 1
        BY <4>1, <4>4, <4>5
      <4>7. PICK x : Siblings(r.id) = {x}
        BY <4>3, <4>6, FS_Singleton
      <4>8. Siblings(r.id) = {r.id}
        BY <3>3, <4>7
      <4>9. Whole(r.id) = {r.id}
        BY <3>2, <4>8 DEF Whole, Siblings
      <4> QED BY <2>2, <4>9 DEF IsWhole
    <3> QED BY <2>2, <3>4, <3>5
  <2>5. CASE r.id[2] # gen[r.id[1]]
    BY <2>2, <2>3, <2>5 DEF IsWhole
  <2> QED BY <2>2, <2>4, <2>5
<1>7. Apart(alone \cup merged)
  <2> SUFFICES ASSUME NEW q \in alone \cup merged, NEW r \in alone \cup merged, q # r
               PROVE  q.parts \cap r.parts = {}
    BY DEF Apart
  <2>1. \A x \in merged : \E g \in groups : x = Joint(g)
    OBVIOUS
  <2>2. \A x \in alone : x = Single(x.id) /\ x.id \notin Group(x)
    OBVIOUS
  <2>3. \A x \in alone : \A g \in groups : x.id \notin g
    <3> SUFFICES ASSUME NEW x \in alone, NEW g \in groups, x.id \in g PROVE FALSE
      OBVIOUS
    <3> DEFINE j == Joint(g)
    <3>1. j.id \in RowIds /\ g = Siblings(j.id) /\ IsNamed(j.id)
      BY <1>5
    <3> HIDE DEF j
    <3>2. x.id \in Siblings(j.id)
      BY <3>1
    <3>3. Siblings(x.id) = g /\ IsNamed(x.id)
      BY <3>1, <3>2, SiblingsAlike
    <3>4. PICK y \in results : y.id \in Group(y) /\ g = Group(y)
      OBVIOUS
    <3>5. g = Siblings(y.id) /\ Cardinality(Siblings(y.id)) > 1
      BY <3>4 DEF Group
    <3>6. Group(x) = g
      BY <3>3, <3>5 DEF Group
    <3> QED BY <2>2, <3>6
  <2>4. \A g, h \in groups : g \cap h # {} => g = h
    <3> SUFFICES ASSUME NEW g \in groups, NEW h \in groups, NEW x \in g, x \in h PROVE g = h
      OBVIOUS
    <3>1. PICK a \in RowIds : g = Siblings(a)
      BY <1>5
    <3>2. PICK b \in RowIds : h = Siblings(b)
      BY <1>5
    <3>3. Siblings(x) = g /\ Siblings(x) = h
      BY <3>1, <3>2, SiblingsAlike
    <3> QED BY <3>3
  <2>5. \A x \in merged : \E g \in groups : x = Joint(g) /\ x.parts = g
    BY <1>5
  <2>6. \A x \in alone : x.parts = {x.id}
    BY <1>6
  <2> HIDE DEF alone, merged, groups, Joint
  <2>7. CASE q \in alone /\ r \in alone
    BY <2>2, <2>6, <2>7
  <2>8. CASE q \in merged /\ r \in merged
    <3>1. PICK g \in groups : q = Joint(g) /\ q.parts = g
      BY <2>5, <2>8
    <3>2. PICK h \in groups : r = Joint(h) /\ r.parts = h
      BY <2>5, <2>8
    <3> QED BY <2>4, <3>1, <3>2
  <2>9. CASE q \in alone /\ r \in merged
    BY <2>3, <2>5, <2>6, <2>9
  <2>10. CASE q \in merged /\ r \in alone
    BY <2>3, <2>5, <2>6, <2>10
  <2> QED BY <2>7, <2>8, <2>9, <2>10
<1>8. IsFiniteSet(alone \cup merged)
  <2> HIDE DEF alone, merged
  <2> QED BY <1>3, <1>4, FS_Union
<1>9. \A r \in alone \cup merged : SoundIn(s, r, gen) /\ IsWhole(r, gen)
  BY <1>5, <1>6
<1> QED BY <1>1, <1>7, <1>8, <1>9

------------------------------------------------------------------------------
(* What is drawn from results, ranked, cut or filtered. *)

(* Results drawn from sound results, each at most once, are sound. *)
LEMMA DrawnGood ==
  ASSUME NEW s, NEW t, NEW g, GoodSeq(s, t, g), NEW o \in Seq(Results), DrawnFrom(o, t)
  PROVE  GoodSeq(s, o, g)
<1>1. PICK at : Picks(at, o, t)
  BY DEF DrawnFrom
<1>2. \A i \in 1..Len(o) : /\ at[i] \in 1..Len(t) /\ o[i].id = t[at[i]].id
                           /\ o[i].parts = t[at[i]].parts /\ o[i] \in Results
  BY <1>1 DEF Picks
<1>3. \A i \in 1..Len(t) : SoundIn(s, t[i], g) /\ (s.expanded => IsWhole(t[i], g))
  BY DEF GoodSeq
<1>4. ASSUME NEW i \in 1..Len(o)
      PROVE  SoundIn(s, o[i], g) /\ (s.expanded => IsWhole(o[i], g))
  <2>1. SoundIn(s, t[at[i]], g) /\ (s.expanded => IsWhole(t[at[i]], g))
    BY <1>2, <1>3
  <2>2. SoundIn(s, o[i], g)
    BY <1>2, <2>1 DEF SoundIn
  <2>3. s.expanded => IsWhole(o[i], g)
    BY <1>2, <2>1 DEF IsWhole
  <2> QED BY <2>2, <2>3
<1>5. ASSUME NEW i \in 1..Len(o), NEW j \in 1..Len(o), i # j
      PROVE  o[i].parts \cap o[j].parts = {}
  <2>1. at[i] # at[j] /\ at[i] \in 1..Len(t) /\ at[j] \in 1..Len(t)
    BY <1>1, <1>2, <1>5 DEF Picks
  <2>2. t[at[i]].parts \cap t[at[j]].parts = {}
    BY <2>1 DEF GoodSeq
  <2> QED BY <1>2, <2>2
<1> QED BY <1>4, <1>5 DEF GoodSeq

(* Files drawn from files of the fallback, each at most once, differ. *)
LEMMA DrawnFiles ==
  ASSUME NEW t, FileSeq(t), NEW o \in Seq(Results), DrawnFrom(o, t)
  PROVE  \A i, j \in 1..Len(o) : i # j => o[i].id # o[j].id
<1>1. PICK at : Picks(at, o, t)
  BY DEF DrawnFrom
<1>2. at \in [1..Len(o) -> 1..Len(t)] /\ \A i, j \in 1..Len(o) : at[i] = at[j] => i = j
  BY <1>1 DEF Picks
<1>3. \A i \in 1..Len(o) : o[i].id = t[at[i]].id /\ at[i] \in 1..Len(t)
  BY <1>1, <1>2 DEF Picks
<1>4. \A i, j \in 1..Len(t) : t[i].id = t[j].id => i = j
  BY DEF FileSeq
<1> QED BY <1>2, <1>3, <1>4

(* Results of which no two share a row are of different chunks. *)
LEMMA GoodApart ==
  ASSUME NEW s, NEW t, NEW g, GoodSeq(s, t, g)
  PROVE  \A i, j \in 1..Len(t) : i # j => t[i].id # t[j].id
<1> QED BY DEF GoodSeq, SoundIn

(* A sequence cut short. *)
LEMMA CutDrawn ==
  ASSUME NEW t \in Seq(Results), NEW m \in 0..Len(t)
  PROVE  LET o == SubSeq(t, 1, m)
         IN  /\ o \in Seq(Results) /\ Len(o) = m /\ DrawnFrom(o, t)
             /\ \A i \in 1..m : o[i] = t[i] /\ i \in 1..Len(t)
<1> DEFINE o == SubSeq(t, 1, m)
           at == [i \in 1..m |-> i]
<1>1. m \in Nat /\ Len(t) \in Nat /\ m <= Len(t)
  OBVIOUS
<1>2. o \in Seq(Results) /\ Len(o) = m /\ \A i \in 1..m : o[i] = t[i]
  BY <1>1
<1>3. \A i \in 1..m : i \in 1..Len(t)
  BY <1>1
<1>4. at \in [1..m -> 1..Len(t)] /\ \A i \in 1..m : at[i] = i
  BY <1>3
<1> HIDE DEF o, at
<1>5. Picks(at, o, t)
  BY <1>2, <1>3, <1>4 DEF Picks
<1> QED BY <1>2, <1>3, <1>5 DEF DrawnFrom, o

(* Take: a prefix, no longer than its bound. *)
LEMMA TakeDrawn ==
  ASSUME NEW t \in Seq(Results), NEW n \in Nat
  PROVE  LET o == Take(t, n)
         IN  /\ o \in Seq(Results) /\ Len(o) <= n /\ DrawnFrom(o, t)
             /\ \A i \in 1..Len(o) : o[i] = t[i] /\ i \in 1..Len(t)
<1> DEFINE m == Min({n, Len(t)})
<1>1. Len(t) \in Nat
  OBVIOUS
<1>2. m = IF n <= Len(t) THEN n ELSE Len(t)
  BY <1>1, MinOfTwo
<1>3. m \in 0..Len(t) /\ m <= n
  BY <1>1, <1>2
<1>4. Take(t, n) = SubSeq(t, 1, m)
  BY DEF Take
<1> HIDE DEF m
<1> QED BY <1>3, <1>4, CutDrawn

(* filterByScore cuts a ranking, or leaves it. *)
LEMMA ScoredDrawn ==
  ASSUME NEW t \in Seq(Results), NEW min, NEW o \in Scored(t, min)
  PROVE  o \in Seq(Results) /\ Len(o) <= Len(t) /\ DrawnFrom(o, t)
<1>1. PICK m \in 0..Len(t) : o = SubSeq(t, 1, m)
  <2>1. CASE min
    BY <2>1 DEF Scored
  <2>2. CASE ~min
    <3>1. o = t
      BY <2>2 DEF Scored
    <3>2. t = SubSeq(t, 1, Len(t)) /\ Len(t) \in 0..Len(t)
      OBVIOUS
    <3> QED BY <3>1, <3>2
  <2> QED BY <2>1, <2>2
<1>2. m \in Nat /\ m <= Len(t)
  OBVIOUS
<1> QED BY <1>1, <1>2, CutDrawn

(* A ranking holds each result once. *)
LEMMA RankingGood ==
  ASSUME NEW s, NEW results, NEW g, IsFiniteSet(results), Apart(results),
         \A r \in results : SoundIn(s, r, g) /\ (s.expanded => IsWhole(r, g)),
         NEW ranking \in Rankings(results)
  PROVE  GoodSeq(s, ranking, g)
<1> DEFINE n == Cardinality(results)
<1>1. n \in Nat
  BY FS_CardinalityType
<1>2. ranking \in [1..n -> results] /\ \A i, j \in 1..n : i # j => ranking[i] # ranking[j]
  BY Zenon DEF Rankings, SetToSeqs
<1>3. results \subseteq Results
  BY DEF SoundIn
<1> HIDE DEF n
<1>4. ranking \in Seq(Results) /\ Len(ranking) = n
  <2>1. ranking \in [1..n -> Results]
    BY <1>2, <1>3
  <2> QED BY <1>1, <2>1
<1>5. \A i \in 1..n : SoundIn(s, ranking[i], g) /\ (s.expanded => IsWhole(ranking[i], g))
  <2>1. \A i \in 1..n : ranking[i] \in results
    BY <1>2
  <2> QED BY <2>1
<1>6. \A i, j \in 1..n : i # j => ranking[i].parts \cap ranking[j].parts = {}
  <2>1. \A i \in 1..n : ranking[i] \in results
    BY <1>2
  <2> QED BY <1>2, <2>1 DEF Apart
<1> QED BY <1>4, <1>5, <1>6 DEF GoodSeq

(* FilterByPathPrefix. *)
LEMMA FilterDrawn ==
  ASSUME NEW q \in Inputs, NEW t \in Seq(Results)
  PROVE  LET o == FilterByPathPrefix(q, t)
         IN  /\ o \in Seq(Results)
             /\ q.under = {} => o = t
             /\ q.under # {} => Len(o) <= q.max /\ \A i \in 1..Len(o) : o[i].id[1] \in q.under
             /\ \A s, g : GoodSeq(s, t, g) => GoodSeq(s, o, g)
<1>1. CASE q.under = {}
  BY <1>1 DEF FilterByPathPrefix
<1>2. CASE q.under # {}
  <2> DEFINE T == {r \in Range(t) : r.id[1] \in q.under}
             p == Only(t, T)
             o == Take(p, q.max)
  <2>1. FilterByPathPrefix(q, t) = o
    BY <1>2 DEF FilterByPathPrefix
  <2>2. p \in Seq(Results \cap T) /\ DrawnFrom(p, t)
    BY OnlyDrawn
  <2>3. q.max \in Nat
    BY DEF Inputs
  <2>4. \A r \in T : r.id[1] \in q.under
    OBVIOUS
  <2> HIDE DEF T, p
  <2>5. p \in Seq(Results) /\ \A i \in 1..Len(p) : p[i] \in T
    BY <2>2
  <2>6. /\ o \in Seq(Results) /\ Len(o) <= q.max /\ DrawnFrom(o, p)
        /\ \A i \in 1..Len(o) : o[i] = p[i] /\ i \in 1..Len(p)
    BY <2>3, <2>5, TakeDrawn
  <2> HIDE DEF o
  <2>7. \A i \in 1..Len(o) : o[i].id[1] \in q.under
    BY <2>4, <2>5, <2>6
  <2>8. ASSUME NEW s, NEW g, GoodSeq(s, t, g) PROVE GoodSeq(s, o, g)
    <3>1. GoodSeq(s, p, g)
      BY <2>2, <2>5, <2>8, DrawnGood
    <3> QED BY <2>6, <3>1, DrawnGood
  <2> QED BY <1>2, <2>1, <2>6, <2>7, <2>8
<1> QED BY <1>1, <1>2

(* The limits a query sets are numbers. *)
LEMMA LimitsTyped ==
  ASSUME NEW q \in Inputs
  PROVE  /\ MaxResults(q) \in Nat
         /\ q.tool = "search" /\ q.under = {} => MaxResults(q) = q.max
<1>1. q.max \in Nat /\ 3 * q.max \in Nat
  BY DEF Inputs
<1>2. OverfetchCap \in Nat /\ ContextResults \in Nat
  BY QueryAssumption DEF QueryAssumption
<1>3. Min({3 * q.max, OverfetchCap}) \in Nat
  BY <1>1, <1>2, MinOfTwo
<1> QED BY <1>1, <1>2, <1>3 DEF MaxResults, SearchOverfetchLimit

------------------------------------------------------------------------------
(* The steps of a call. *)

(* Two states of one call agree on what it may answer. *)
SameCall(s, t) == t.ask = s.ask /\ t.since = s.since /\ t.expanded = s.expanded

(* Soundness depends on what was asked, since when, and whether it was       *)
(* expanded.                                                                 *)
LEMMA SameGood ==
  ASSUME NEW s, NEW t, SameCall(s, t), NEW x, NEW g
  PROVE  GoodSeq(s, x, g) => GoodSeq(t, x, g)
<1> QED BY DEF SameCall, GoodSeq, SoundIn

(* While a call looks for chunks it has fragments of its own generation. *)
LEMMA FragmentsOK ==
  ASSUME NEW s, NEW g, Known(s, g), NEW t \in CallStates, t.ask = s.ask, t.since = s.since,
         ~t.expanded, IsFiniteSet(t.found),
         \A r \in t.found : SoundIn(s, r, g) /\ r = Single(r.id),
         t.pc \notin {"assemble", "done"}
  PROVE  CallOK(t, g)
<1>1. Known(t, g)
  BY DEF Known
<1>2. \A r \in t.found : SoundIn(t, r, g)
  BY DEF SoundIn
<1>3. Apart(t.found)
  <2>1. \A r \in t.found : r.parts = {r.id}
    BY SingleTyped DEF SoundIn
  <2> QED BY <2>1 DEF Apart
<1>4. Fragments(t)
  BY DEF Fragments
<1> QED BY <1>1, <1>2, <1>3, <1>4 DEF CallOK, Looking

(* Before it is expanded, ranked or answered, a call holds single rows. *)
LEMMA FragmentsHeld ==
  ASSUME NEW s, NEW g, CallOK(s, g), s # Idle, s.pc \notin {"rank", "assemble", "done"}
  PROVE  /\ Known(s, g) /\ ~s.expanded /\ IsFiniteSet(s.found)
         /\ \A r \in s.found : SoundIn(s, r, g) /\ r = Single(r.id)
<1> QED BY DEF CallOK, Looking, Fragments

(* A row in the store when it is read is one of the present generation. *)
LEMMA SingleSound ==
  ASSUME GenTyped, NEW s, Known(s, gen), NEW id \in Live, Accepts(s.ask.scope, id[1])
  PROVE  SoundIn(s, Single(id), gen) /\ Single(id) = Single(Single(id).id)
<1>1. id \in RowIds /\ id[1] \in Files /\ id[2] = gen[id[1]]
  BY LiveTyped
<1>2. Single(id) \in Results /\ Single(id).id = id /\ Single(id).parts = {id}
  BY <1>1, SingleTyped
<1>3. s.since[id[1]] <= gen[id[1]] /\ gen[id[1]] <= gen[id[1]]
  BY <1>1 DEF Known, GenTyped
<1> HIDE DEF Single
<1> QED BY <1>1, <1>2, <1>3 DEF SoundIn

(* What an answer is made of. *)
Answered(s, source, chunks, flagged, g) ==
  [s EXCEPT !.pc = "done", !.hits = {}, !.found = {}, !.ranked = <<>>,
     !.source = source, !.flagged = flagged, !.until = g,
     !.chunks = IF s.ask.tool = "search" THEN FilterByPathPrefix(s.ask, chunks) ELSE chunks]

(* An answer that is sound when it is given: from the index, from files, or  *)
(* an error.                                                                 *)
LEMMA AnsweredOK ==
  ASSUME NEW s, NEW g \in [Files -> Nat], Known(s, g),
         NEW chunks \in Seq(Results), NEW source \in {"index", "files", "error"},
         NEW flagged \in BOOLEAN,
         source = "index" =>
           /\ GoodSeq(s, chunks, g)
           /\ s.ask.tool = "search" /\ s.plan = "semantic" /\ s.ask.under = {}
                => Len(chunks) <= s.ask.max,
         s.ask.tool = "context" /\ source # "error" =>
           Packed(chunks, flagged, s.ask.budget) /\ (chunks = <<>> => source = "files")
  PROVE  CallOK(Answered(s, source, chunks, flagged, g), g)
<1> DEFINE o == IF s.ask.tool = "search" THEN FilterByPathPrefix(s.ask, chunks) ELSE chunks
           t == Answered(s, source, chunks, flagged, g)
<1>1. s \in CallStates /\ s.ask \in Inputs /\ s.ask.tool \in {"search", "context"}
  BY DEF Known, CallStates, Inputs
<1>2. /\ o \in Seq(Results)
      /\ GoodSeq(s, chunks, g) => GoodSeq(s, o, g)
      /\ s.ask.tool = "context" => o = chunks
  <2>1. CASE s.ask.tool = "search"
    BY <1>1, <2>1, FilterDrawn
  <2>2. CASE s.ask.tool # "search"
    BY <2>2
  <2> QED BY <2>1, <2>2
<1>3. source = "index" => Within(s, o)
  <2>1. CASE s.ask.tool = "search"
    <3>1. /\ s.ask.under = {} => o = chunks
          /\ s.ask.under # {} => Len(o) <= s.ask.max /\ \A i \in 1..Len(o) : o[i].id[1] \in s.ask.under
      BY <1>1, <2>1, FilterDrawn
    <3> HIDE DEF o
    <3> QED BY <3>1 DEF Within
  <2>2. CASE s.ask.tool # "search"
    BY <2>2 DEF Within
  <2> QED BY <2>1, <2>2
<1> HIDE DEF o
<1>4. t = [s EXCEPT !.pc = "done", !.hits = {}, !.found = {}, !.ranked = <<>>,
             !.source = source, !.flagged = flagged, !.until = g, !.chunks = o]
  BY DEF Answered, o
<1> HIDE DEF t
<1>5. /\ t.pc = "done" /\ t.ask = s.ask /\ t.plan = s.plan /\ t.since = s.since
      /\ t.until = g /\ t.hits = {} /\ t.found = {} /\ t.ranked = <<>> /\ t.chunks = o
      /\ t.source = source /\ t.flagged = flagged /\ t.expanded = s.expanded
  BY <1>1, <1>4 DEF CallStates
<1>6. t \in CallStates
  <2>1. t = [pc |-> "done", ask |-> s.ask, plan |-> s.plan, since |-> s.since, until |-> g,
             hits |-> {}, found |-> {}, ranked |-> <<>>, chunks |-> o, source |-> source,
             flagged |-> flagged, expanded |-> s.expanded]
    BY <1>1, <1>4 DEF CallStates
  <2>2. /\ s.ask \in Inputs /\ s.plan \in {"filesystem", "keyword", "semantic", "retry"}
        /\ s.since \in [Files -> Nat] /\ s.expanded \in BOOLEAN /\ "done" \in PCs
        /\ <<>> \in Seq(Results)
    BY <1>1 DEF CallStates, PCs
  <2> QED BY <1>2, <2>1, <2>2 DEF CallStates
<1>7. Known(t, g)
  BY <1>5, <1>6 DEF Known
<1>8. GoodSeq(s, o, g) => GoodSeq(t, o, g)
  BY <1>5, SameGood DEF SameCall
<1>9. FromTheIndex(t)
  <2>1. Within(s, o) => Within(t, o)
    BY <1>5 DEF Within
  <2> QED BY <1>2, <1>3, <1>5, <1>8, <2>1 DEF FromTheIndex
<1>10. InContext(t)
  BY <1>2, <1>5 DEF InContext
<1>11. t # Idle
  BY <1>5 DEF Idle
<1> QED BY <1>5, <1>7, <1>9, <1>10 DEF CallOK, t

(* The files of the fallback as an answer. *)
LEMMA FilesPacked ==
  ASSUME NEW budget \in Nat \ {0}, NEW readable
  PROVE  /\ FilesystemFallback(budget, readable) \in Seq(Results)
         /\ FileSeq(FilesystemFallback(budget, readable))
         /\ Packed(FilesystemFallback(budget, readable), FALSE, budget)
<1> DEFINE files == FilesystemFallback(budget, readable)
<1>1. /\ files \in Seq(FileResults) /\ Total(files) <= budget
      /\ \A i, j \in 1..Len(files) : files[i].id = files[j].id => i = j
  BY FallbackHonest
<1> HIDE DEF files
<1>2. files \in Seq(Results)
  BY <1>1 DEF FileResults
<1> QED BY <1>1, <1>2 DEF FileSeq, Packed, files

(* The filesystem fallback's answer keeps the budget of the context query. *)
LEMMA FilesAnsweredOK ==
  ASSUME NEW s, NEW g \in [Files -> Nat], Known(s, g), NEW budget \in Nat \ {0},
         s.ask.tool = "context" => budget = s.ask.budget, NEW readable
  PROVE  CallOK(Answered(s, "files", FilesystemFallback(budget, readable), FALSE, g), g)
<1> DEFINE files == FilesystemFallback(budget, readable)
<1>1. files \in Seq(Results) /\ Packed(files, FALSE, budget)
  BY FilesPacked
<1> HIDE DEF files
<1>2. CallOK(Answered(s, "files", files, FALSE, g), g)
  BY <1>1, AnsweredOK
<1> QED BY <1>2 DEF files

(* An error answers nothing. *)
LEMMA FailedOK ==
  ASSUME NEW s, NEW g \in [Files -> Nat], Known(s, g)
  PROVE  CallOK(Answered(s, "error", <<>>, FALSE, g), g)
<1>1. <<>> \in Seq(Results)
  OBVIOUS
<1> QED BY <1>1, AnsweredOK

(* A step that leaves the index alone changes one call. *)
LEMMA CallStep ==
  ASSUME IInv, NEW c \in Calls, NEW s, CallOK(s, gen), call' = [call EXCEPT ![c] = s],
         UNCHANGED index
  PROVE  IInv'
<1>1. gen' = gen /\ vecs' = vecs
  BY DEF index
<1>2. GenTyped'
  BY <1>1 DEF IInv, GenTyped
<1>3. DOMAIN call' = Calls /\ \A d \in Calls : call'[d] = IF d = c THEN s ELSE call[d]
  BY DEF IInv
<1>4. \A d \in Calls : CallOK(call'[d], gen)
  BY <1>3 DEF IInv
<1>5. vecs' \subseteq RowIds
  BY <1>1 DEF IInv
<1> QED BY <1>1, <1>2, <1>3, <1>4, <1>5 DEF IInv

------------------------------------------------------------------------------
(* The actions. *)

(* What the invariant says of a call in flight. *)
LEMMA CallsKnown ==
  ASSUME IInv, NEW c \in Calls, call[c] # Idle
  PROVE  /\ GenTyped /\ gen \in [Files -> Nat] /\ CallOK(call[c], gen) /\ Known(call[c], gen)
         /\ call[c] \in CallStates /\ call[c].ask \in Inputs
         /\ call[c].ask.tool \in {"search", "context"}
         /\ call[c].ask.budget \in Nat
         /\ call[c].ask.tool = "context" => call[c].ask.budget \in Nat \ {0}
<1>1. GenTyped /\ gen \in [Files -> Nat] /\ CallOK(call[c], gen)
  BY DEF IInv, GenTyped
<1>2. Known(call[c], gen)
  BY <1>1 DEF CallOK
<1>3. call[c].ask \in Inputs
  BY <1>2 DEF Known, CallStates
<1>4. call[c].ask.budget \in Nat /\ call[c].ask.tool \in {"search", "context"}
  BY <1>3 DEF Inputs
<1>5. call[c].ask.tool = "context" => call[c].ask.budget > 0
  BY <1>2 DEF Known
<1> QED BY <1>1, <1>2, <1>3, <1>4, <1>5 DEF Known

(* A step that fails the call keeps the invariant. *)
LEMMA FailsOK ==
  ASSUME IInv, NEW c \in Calls, call[c] # Idle, Fails(c), UNCHANGED index
  PROVE  IInv'
<1>1. call' = [call EXCEPT ![c] = Answered(call[c], "error", <<>>, FALSE, gen)]
  BY DEF Fails, Answer, Becomes, Answered
<1>2. CallOK(Answered(call[c], "error", <<>>, FALSE, gen), gen)
  BY CallsKnown, FailedOK
<1> QED BY <1>1, <1>2, CallStep

(* Answering from the filesystem keeps the invariant. *)
LEMMA AnswerFilesOK ==
  ASSUME IInv, NEW c \in Calls, call[c] # Idle, NEW budget \in Nat \ {0},
         call[c].ask.tool = "context" => budget = call[c].ask.budget,
         AnswerFiles(c, budget), UNCHANGED index
  PROVE  IInv'
<1>1. CASE Fails(c)
  BY <1>1, FailsOK
<1>2. ASSUME NEW readable,
             Answer(c, "files", FilesystemFallback(budget, readable), FALSE)
      PROVE  IInv'
  <2> DEFINE t == Answered(call[c], "files", FilesystemFallback(budget, readable), FALSE, gen)
  <2>1. call' = [call EXCEPT ![c] = t]
    BY <1>2 DEF Answer, Becomes, Answered
  <2>2. CallOK(t, gen)
    BY CallsKnown, FilesAnsweredOK
  <2> HIDE DEF t
  <2> QED BY <2>1, <2>2, CallStep
<1> QED BY <1>1, <1>2 DEF AnswerFiles

(* A call that goes on looking with the fragments it has. *)
LEMMA MovesOn ==
  ASSUME IInv, NEW c \in Calls, call[c] # Idle, call[c].pc \notin {"rank", "assemble", "done"},
         NEW pc \in PCs \ {"assemble", "done"}, NEW hits \in SUBSET RowIds,
         NEW t \in {[call[c] EXCEPT !.pc = pc], [call[c] EXCEPT !.pc = pc, !.hits = hits]},
         Becomes(c, t), UNCHANGED index
  PROVE  IInv'
<1> DEFINE s == call[c]
<1>1. /\ s \in CallStates /\ Known(s, gen) /\ ~s.expanded /\ IsFiniteSet(s.found)
      /\ \A r \in s.found : SoundIn(s, r, gen) /\ r = Single(r.id)
  BY CallsKnown, FragmentsHeld
<1>2. /\ t.pc = pc /\ t.ask = s.ask /\ t.since = s.since /\ t.found = s.found
      /\ t.expanded = s.expanded
  BY <1>1 DEF CallStates
<1>3. t \in CallStates
  BY <1>1 DEF CallStates
<1>4. CallOK(t, gen)
  BY <1>1, <1>2, <1>3, FragmentsOK
<1> QED BY <1>4, CallStep DEF Becomes

(* Fts: ids of rows of the store, read at one moment. *)
LEMMA FtsOK ==
  ASSUME IInv, NEW c \in Calls, call[c] # Idle, Fts(c)
  PROVE  IInv'
<1>1. call[c].pc = "fts" /\ UNCHANGED index
  BY DEF Fts
<1>2. CASE Fails(c)
  BY <1>1, <1>2, FailsOK
<1>3. ASSUME NEW hits \in SUBSET Live, Becomes(c, [call[c] EXCEPT !.pc = "hydrate", !.hits = hits])
      PROVE  IInv'
  <2>1. hits \in SUBSET RowIds
    BY CallsKnown, LiveTyped
  <2>2. "hydrate" \in PCs \ {"assemble", "done"}
    BY DEF PCs
  <2> QED BY <1>1, <1>3, <2>1, <2>2, MovesOn
<1>4. \/ Fails(c)
      \/ \E hits \in SUBSET Live : Becomes(c, [call[c] EXCEPT !.pc = "hydrate", !.hits = hits])
  BY DEF Fts, SubsetsUpTo
<1> QED BY <1>2, <1>3, <1>4

(* Falling back from the semantic plan to the keyword plan keeps the         *)
(* invariant.                                                                *)
LEMMA RetryOK ==
  ASSUME IInv, NEW c \in Calls, call[c] # Idle, Retry(c), UNCHANGED index,
         call[c].pc \notin {"rank", "assemble", "done"}
  PROVE  IInv'
<1> DEFINE s == call[c]
           t == [s EXCEPT !.pc = "fts", !.plan = "retry", !.hits = {}, !.found = {}]
<1>1. s \in CallStates /\ CallOK(s, gen) /\ Known(s, gen) /\ ~s.expanded
  BY CallsKnown, FragmentsHeld
<1>2. /\ t.pc = "fts" /\ t.ask = s.ask /\ t.since = s.since /\ t.found = {}
      /\ t.expanded = s.expanded
  BY <1>1 DEF CallStates
<1>3. t \in CallStates
  BY <1>1 DEF CallStates, PCs
<1>4. call' = [call EXCEPT ![c] = t]
  BY DEF Retry, Becomes
<1> HIDE DEF t
<1>5. CallOK(t, gen)
  BY <1>1, <1>2, <1>3, FragmentsOK, FS_EmptySet
<1> QED BY <1>4, <1>5, CallStep

(* EmbedQuery reads nothing of the index. *)
LEMMA EmbedQueryOK ==
  ASSUME IInv, NEW c \in Calls, call[c] # Idle, EmbedQuery(c)
  PROVE  IInv'
<1>1. call[c].pc = "embed" /\ UNCHANGED index
  BY DEF EmbedQuery
<1>2. PICK pc \in {"vector", "embedding"} : Becomes(c, [call[c] EXCEPT !.pc = pc])
  BY DEF EmbedQuery
<1>3. pc \in PCs \ {"assemble", "done"} /\ {} \in SUBSET RowIds
  BY DEF PCs
<1> QED BY <1>1, <1>2, <1>3, MovesOn

(* Embedded: the query's vector is there, or the keyword search is tried     *)
(* instead.                                                                  *)
LEMMA EmbeddedOK ==
  ASSUME IInv, NEW c \in Calls, call[c] # Idle, Embedded(c)
  PROVE  IInv'
<1>1. call[c].pc = "embedding" /\ UNCHANGED index
  BY DEF Embedded
<1>2. CASE Retry(c)
  BY <1>1, <1>2, RetryOK
<1>3. CASE Becomes(c, [call[c] EXCEPT !.pc = "vector"])
  <2>1. "vector" \in PCs \ {"assemble", "done"} /\ {} \in SUBSET RowIds
    BY DEF PCs
  <2> QED BY <1>1, <1>3, <2>1, MovesOn
<1> QED BY <1>2, <1>3 DEF Embedded

(* VectorSearch: ids near the query, whether their rows are still there or   *)
(* not.                                                                      *)
LEMMA VectorSearchOK ==
  ASSUME IInv, NEW c \in Calls, call[c] # Idle, VectorSearch(c)
  PROVE  IInv'
<1>1. call[c].pc = "vector" /\ UNCHANGED index
  BY DEF VectorSearch
<1>2. CASE Retry(c)
  BY <1>1, <1>2, RetryOK
<1>3. ASSUME NEW near \in SUBSET vecs, Becomes(c, [call[c] EXCEPT !.pc = "merge", !.hits = near])
      PROVE  IInv'
  <2>1. near \in SUBSET RowIds /\ "merge" \in PCs \ {"assemble", "done"}
    BY DEF IInv, PCs
  <2> QED BY <1>1, <1>3, <2>1, MovesOn
<1> QED BY <1>2, <1>3 DEF VectorSearch, SubsetsUpTo

(* More rows of the store, read one by one. *)
LEMMA FoundOK ==
  ASSUME IInv, NEW c \in Calls, call[c] # Idle, call[c].pc \notin {"rank", "assemble", "done"},
         NEW got \in SUBSET Live, \A id \in got : Accepts(call[c].ask.scope, id[1]),
         NEW found \in {{Single(id) : id \in got}, call[c].found \cup {Single(id) : id \in got}},
         NEW pc \in PCs \ {"assemble", "done"},
         Becomes(c, [call[c] EXCEPT !.pc = pc, !.hits = {}, !.found = found]),
         UNCHANGED index
  PROVE  IInv'
<1> DEFINE s == call[c]
           t == [s EXCEPT !.pc = pc, !.hits = {}, !.found = found]
           h == [id \in got |-> Single(id)]
           new == {h[id] : id \in got}
<1>1. /\ s \in CallStates /\ Known(s, gen) /\ ~s.expanded /\ IsFiniteSet(s.found)
      /\ (\A r \in s.found : SoundIn(s, r, gen) /\ r = Single(r.id)) /\ GenTyped
  BY CallsKnown, FragmentsHeld
<1>2. IsFiniteSet(new)
  <2>1. IsFiniteSet(Live)
    BY <1>1, LiveTyped
  <2>2. IsFiniteSet(got)
    BY <2>1, FS_Subset
  <2>3. h = [id \in got |-> h[id]]
    OBVIOUS
  <2> HIDE DEF h
  <2> QED BY <2>2, <2>3, FiniteImage
<1>3. new = {Single(id) : id \in got}
  OBVIOUS
<1>4. \A r \in new : SoundIn(s, r, gen) /\ r = Single(r.id)
  <2> SUFFICES ASSUME NEW id \in got
               PROVE  SoundIn(s, Single(id), gen) /\ Single(id) = Single(Single(id).id)
    BY <1>3
  <2> QED BY <1>1, SingleSound
<1> HIDE DEF new, h
<1>5. found = new \/ found = s.found \cup new
  BY <1>3
<1>6. IsFiniteSet(found) /\ \A r \in found : SoundIn(s, r, gen) /\ r = Single(r.id)
  <2> HIDE DEF s, t
  <2>1. IsFiniteSet(s.found \cup new)
    BY <1>1, <1>2, FS_Union
  <2>3. IsFiniteSet(found)
    BY <1>2, <1>5, <2>1
  <2>2. \A r \in found : r \in s.found \/ r \in new
    BY <1>5
  <2> QED BY <1>1, <1>4, <2>2, <2>3
<1>7. found \in SUBSET Results
  BY <1>6 DEF SoundIn
<1>8. /\ t.pc = pc /\ t.ask = s.ask /\ t.since = s.since /\ t.found = found
      /\ t.expanded = s.expanded
  BY <1>1 DEF CallStates
<1>9. t \in CallStates
  BY <1>1, <1>7 DEF CallStates
<1> HIDE DEF t
<1>10. CallOK(t, gen)
  BY <1>1, <1>6, <1>8, <1>9, FragmentsOK
<1> QED BY <1>10, CallStep DEF Becomes, t

(* Merge: of the ids that only the vectors gave, rows of the store in scope  *)
(* are added.                                                                *)
LEMMA MergeOK ==
  ASSUME IInv, NEW c \in Calls, call[c] # Idle, Merge(c)
  PROVE  IInv'
<1>1. call[c].pc = "merge" /\ UNCHANGED index
  BY DEF Merge
<1>2. PICK got \in SUBSET Live :
        /\ \A id \in got : Accepts(call[c].ask.scope, id[1])
        /\ Becomes(c, [call[c] EXCEPT !.pc = "expand", !.hits = {},
                         !.found = @ \cup {Single(id) : id \in got}])
  BY DEF Merge
<1>3. "expand" \in PCs \ {"assemble", "done"}
  BY DEF PCs
<1> QED BY <1>1, <1>2, <1>3, FoundOK

(* Hydrate: of the ids found, those in scope whose rows are still there. *)
LEMMA HydrateOK ==
  ASSUME IInv, NEW c \in Calls, call[c] # Idle, Hydrate(c)
  PROVE  IInv'
<1> DEFINE s == call[c]
           got == {h \in s.hits \cap Live : Accepts(s.ask.scope, h[1])}
           next == IF s.plan = "semantic" THEN "embed"
                   ELSE IF s.ask.tool = "context" /\ s.plan = "keyword" THEN "rank" ELSE "expand"
<1>1. s.pc = "hydrate" /\ UNCHANGED index
  BY DEF Hydrate
<1>2. FallbackBudget \in Nat \ {0}
  BY QueryAssumption DEF QueryAssumption
<1>3. /\ s \in CallStates /\ s.ask.tool \in {"search", "context"} /\ Known(s, gen)
      /\ s.ask.tool = "context" => s.ask.budget \in Nat \ {0}
      /\ ~s.expanded
  BY <1>1, CallsKnown, FragmentsHeld
<1>4. CASE Becomes(c, [s EXCEPT !.pc = next, !.hits = {}, !.found = {Single(id) : id \in got}])
  <2>1. next \in PCs \ {"assemble", "done"}
    BY DEF PCs
  <2>2. got \in SUBSET Live /\ \A id \in got : Accepts(s.ask.scope, id[1])
    OBVIOUS
  <2> HIDE DEF next, got
  <2> QED BY <1>1, <1>4, <2>1, <2>2, FoundOK
<1>5. CASE s.ask.tool = "search" /\ AnswerFiles(c, FallbackBudget)
  BY <1>1, <1>2, <1>5, AnswerFilesOK
<1>6. CASE s.ask.tool = "context" /\ AnswerFiles(c, s.ask.budget)
  BY <1>1, <1>3, <1>6, AnswerFilesOK
<1>7. ASSUME s.ask.tool = "context", NEW readable,
             FilesystemFallback(FallbackBudget, readable) # <<>>,
             Becomes(c, [s EXCEPT !.pc = "assemble", !.hits = {},
                           !.ranked = FilesystemFallback(FallbackBudget, readable)])
      PROVE  IInv'
  <2> DEFINE files == FilesystemFallback(FallbackBudget, readable)
             t == [s EXCEPT !.pc = "assemble", !.hits = {}, !.ranked = files]
  <2>1. files \in Seq(Results) /\ FileSeq(files) /\ files # <<>>
    BY <1>2, <1>7, FilesPacked
  <2> HIDE DEF files
  <2>2. /\ t.pc = "assemble" /\ t.ask = s.ask /\ t.since = s.since /\ t.found = s.found
        /\ t.expanded = s.expanded /\ t.ranked = files
    BY <1>3 DEF CallStates
  <2>3. t \in CallStates
    BY <1>3, <2>1 DEF CallStates, PCs
  <2> HIDE DEF t
  <2>4. Known(t, gen)
    BY <1>3, <2>2, <2>3 DEF Known
  <2>5. Looking(s, gen)
    BY <1>1, CallsKnown DEF CallOK
  <2>6. Looking(t, gen)
    <3>1. \A r \in t.found : SoundIn(t, r, gen)
      BY <2>2, <2>5 DEF Looking, SoundIn
    <3> QED BY <1>7, <2>1, <2>2, <2>5, <3>1 DEF Looking
  <2>7. CallOK(t, gen)
    BY <2>2, <2>4, <2>6 DEF CallOK
  <2> QED BY <1>1, <1>7, <2>7, CallStep DEF Becomes, t, files
<1>8. CASE Fails(c)
  BY <1>1, <1>8, FailsOK
<1> QED BY <1>4, <1>5, <1>6, <1>7, <1>8 DEF Hydrate

(* Expand: a fragment becomes its whole symbol, once for all its siblings, of*)
(* one generation.                                                           *)
LEMMA ExpandOK ==
  ASSUME IInv, NEW c \in Calls, call[c] # Idle, Expand(c)
  PROVE  IInv'
<1> DEFINE s == call[c]
<1>1. s.pc = "expand" /\ UNCHANGED index
  BY DEF Expand
<1>2. CASE Becomes(c, [s EXCEPT !.pc = "rank"])
  <2>1. "rank" \in PCs \ {"assemble", "done"} /\ {} \in SUBSET RowIds
    BY DEF PCs
  <2> QED BY <1>1, <1>2, <2>1, MovesOn
<1>3. CASE Becomes(c, [s EXCEPT !.pc = "rank", !.found = MergeSiblings(@), !.expanded = TRUE])
  <2> DEFINE m == MergeSiblings(s.found)
             t == [s EXCEPT !.pc = "rank", !.found = m, !.expanded = TRUE]
  <2>1. /\ s \in CallStates /\ Known(s, gen) /\ IsFiniteSet(s.found) /\ GenTyped
        /\ \A r \in s.found : SoundIn(s, r, gen) /\ r = Single(r.id)
    BY <1>1, CallsKnown, FragmentsHeld
  <2>2. s.since \in [Files -> Nat] /\ \A f \in Files : s.since[f] <= gen[f]
    BY <2>1 DEF Known, CallStates
  <2>3. /\ IsFiniteSet(m) /\ Apart(m)
        /\ \A r \in m : SoundIn(s, r, gen) /\ IsWhole(r, gen)
    BY <2>1, <2>2, MergeSiblingsGood
  <2> HIDE DEF m
  <2>4. m \in SUBSET Results
    BY <2>3 DEF SoundIn
  <2>5. /\ t.pc = "rank" /\ t.ask = s.ask /\ t.since = s.since /\ t.found = m
    BY <2>1 DEF CallStates
  <2>6. t \in CallStates
    BY <2>1, <2>4 DEF CallStates, PCs
  <2>7. Becomes(c, t)
    BY <1>3 DEF m
  <2> HIDE DEF t
  <2>8. Known(t, gen)
    BY <2>1, <2>5, <2>6 DEF Known
  <2>9. Looking(t, gen)
    <3>1. \A r \in t.found : SoundIn(t, r, gen) /\ IsWhole(r, gen)
      BY <2>3, <2>5 DEF SoundIn
    <3> QED BY <2>3, <2>5, <3>1 DEF Looking
  <2>10. CallOK(t, gen)
    BY <2>5, <2>8, <2>9 DEF CallOK
  <2> QED BY <1>1, <2>7, <2>10, CallStep DEF Becomes
<1> QED BY <1>2, <1>3 DEF Expand

(* Rank: the results in some order, cut at the limits; the answer of a       *)
(* search, the candidates of a context query.                                *)
LEMMA RankOK ==
  ASSUME IInv, NEW c \in Calls, call[c] # Idle, Rank(c)
  PROVE  IInv'
<1> DEFINE s == call[c]
           Trimmed(r) == IF s.plan = "semantic" THEN Take(r, MaxResults(s.ask)) ELSE r
<1>1. s.pc = "rank" /\ UNCHANGED index
  BY DEF Rank
<1> DEFINE Goes(ranked) ==
             IF s.ask.tool = "search" THEN Answer(c, "index", ranked, FALSE)
             ELSE IF ranked = <<>> THEN AnswerFiles(c, s.ask.budget)
             ELSE Becomes(c, [s EXCEPT !.pc = "assemble", !.found = {}, !.ranked = ranked])
<1>2. PICK ranking \in Rankings(s.found) :
        \E ranked \in Scored(Trimmed(ranking), s.ask.min) : Goes(ranked)
  BY DEF Rank
<1> DEFINE trimmed == Trimmed(ranking)
<1>8. PICK ranked \in Scored(trimmed, s.ask.min) : Goes(ranked)
  BY <1>2
<1>3. /\ s \in CallStates /\ s.ask \in Inputs /\ Known(s, gen) /\ CallOK(s, gen)
      /\ s.ask.tool \in {"search", "context"} /\ gen \in [Files -> Nat]
      /\ s.ask.tool = "context" => s.ask.budget \in Nat \ {0}
  BY CallsKnown
<1>4. Looking(s, gen)
  BY <1>1, <1>3 DEF CallOK
<1>5. GoodSeq(s, ranking, gen)
  <2>1. /\ IsFiniteSet(s.found) /\ Apart(s.found)
        /\ \A r \in s.found : SoundIn(s, r, gen) /\ (s.expanded => IsWhole(r, gen))
    BY <1>1, <1>4 DEF Looking
  <2> QED BY <2>1, RankingGood
<1>6. ranking \in Seq(Results)
  BY <1>5 DEF GoodSeq
<1>7. /\ trimmed \in Seq(Results) /\ GoodSeq(s, trimmed, gen)
      /\ s.plan = "semantic" => Len(trimmed) <= MaxResults(s.ask)
  <2>1. CASE s.plan = "semantic"
    <3>1. MaxResults(s.ask) \in Nat
      BY <1>3, LimitsTyped
    <3> DEFINE o == Take(ranking, MaxResults(s.ask))
    <3>2. o \in Seq(Results) /\ Len(o) <= MaxResults(s.ask) /\ DrawnFrom(o, ranking)
      BY <1>6, <3>1, TakeDrawn
    <3>3. trimmed = o
      BY <2>1
    <3> HIDE DEF o, trimmed
    <3> QED BY <1>5, <3>2, <3>3, DrawnGood
  <2>2. CASE s.plan # "semantic"
    BY <1>5, <1>6, <2>2
  <2> QED BY <2>1, <2>2
<1> HIDE DEF trimmed
<1>9. ranked \in Seq(Results) /\ Len(ranked) <= Len(trimmed) /\ DrawnFrom(ranked, trimmed)
  BY <1>7, <1>8, ScoredDrawn
<1>10. GoodSeq(s, ranked, gen)
  BY <1>7, <1>9, DrawnGood
<1>11. s.ask.tool = "search" /\ s.plan = "semantic" /\ s.ask.under = {} => Len(ranked) <= s.ask.max
  <2>1. s.ask.tool = "search" /\ s.ask.under = {} => MaxResults(s.ask) = s.ask.max
    BY <1>3, LimitsTyped
  <2>2. Len(ranked) \in Nat /\ Len(trimmed) \in Nat /\ MaxResults(s.ask) \in Nat
    BY <1>3, <1>7, <1>9, LimitsTyped
  <2> HIDE DEF s
  <2> QED BY <1>7, <1>9, <2>1, <2>2
<1>12. CASE s.ask.tool = "search"
  <2> DEFINE t == Answered(s, "index", ranked, FALSE, gen)
  <2>1. call' = [call EXCEPT ![c] = t]
    BY <1>8, <1>12 DEF Answer, Becomes, Answered
  <2>2. CallOK(t, gen)
    <3> HIDE DEF s
    <3> QED BY <1>3, <1>9, <1>10, <1>11, <1>12, AnsweredOK
  <2> HIDE DEF t
  <2> QED BY <1>1, <2>1, <2>2, CallStep
<1>13. CASE s.ask.tool = "context" /\ ranked = <<>>
  BY <1>1, <1>8, <1>3, <1>13, AnswerFilesOK
<1>14. CASE s.ask.tool = "context" /\ ranked # <<>>
  <2> DEFINE t == [s EXCEPT !.pc = "assemble", !.found = {}, !.ranked = ranked]
  <2>1. /\ t.pc = "assemble" /\ t.ask = s.ask /\ t.since = s.since /\ t.found = {}
        /\ t.expanded = s.expanded /\ t.ranked = ranked
    BY <1>3 DEF CallStates
  <2>2. t \in CallStates
    BY <1>3, <1>9 DEF CallStates, PCs
  <2>3. Becomes(c, t)
    BY <1>8, <1>14
  <2> HIDE DEF t
  <2>4. Known(t, gen)
    BY <1>3, <2>1, <2>2 DEF Known
  <2>5. GoodSeq(t, ranked, gen)
    BY <1>10, <2>1, SameGood DEF SameCall
  <2>6. Looking(t, gen)
    BY <1>14, <2>1, <2>5, FS_EmptySet DEF Looking, Apart
  <2>7. CallOK(t, gen)
    BY <2>1, <2>4, <2>6 DEF CallOK
  <2> QED BY <1>1, <2>3, <2>7, CallStep DEF Becomes
<1> QED BY <1>3, <1>12, <1>13, <1>14

(* AssembleContext: the package of a context query. *)
LEMMA AssembleContextOK ==
  ASSUME IInv, NEW c \in Calls, call[c] # Idle, AssembleContext(c)
  PROVE  IInv'
<1> DEFINE s == call[c]
           source == IF \E r \in Range(s.ranked) : r.parts = {} THEN "files" ELSE "index"
<1>1. s.pc = "assemble" /\ UNCHANGED index
  BY DEF AssembleContext
<1>2. PICK package \in Packages(s.ranked, s.ask.budget) :
        Answer(c, source, package.chunks, package.truncated \/ package.overflow)
  BY DEF AssembleContext
<1> DEFINE chunks == package.chunks
           flagged == package.truncated \/ package.overflow
<1>3. /\ s \in CallStates /\ Known(s, gen) /\ CallOK(s, gen) /\ gen \in [Files -> Nat]
      /\ s.ask.tool = "context" => s.ask.budget \in Nat \ {0}
  BY CallsKnown
<1>4. /\ s.ask.tool = "context" /\ s.ranked # <<>>
      /\ FileSeq(s.ranked) \/ GoodSeq(s, s.ranked, gen)
  BY <1>1, <1>3 DEF CallOK, Looking
<1>5. s.ranked \in Seq(Results) /\ s.ask.budget \in Nat \ {0}
  BY <1>3, <1>4 DEF CallStates
<1>6. package \in PackStates /\ DrawnFrom(chunks, s.ranked)
  BY <1>5, PackageDrawn
<1>7. chunks \in Seq(Results) /\ flagged \in BOOLEAN
  BY <1>6 DEF PackStates
<1>8. source \in {"index", "files", "error"}
  OBVIOUS
<1>9. source = "index" => GoodSeq(s, chunks, gen)
  <2> SUFFICES ASSUME source = "index" PROVE GoodSeq(s, chunks, gen)
    OBVIOUS
  <2>1. \A i \in 1..Len(s.ranked) : s.ranked[i].parts # {}
    <3>1. \A r \in Range(s.ranked) : r.parts # {}
      OBVIOUS
    <3>2. \A i \in 1..Len(s.ranked) : s.ranked[i] \in Range(s.ranked)
      BY <1>5 DEF Range
    <3> QED BY <3>1, <3>2
  <2> HIDE DEF source
  <2>2. CASE FileSeq(s.ranked)
    <3>1. \A i \in 1..Len(s.ranked) : s.ranked[i].parts = {}
      BY <2>2 DEF FileSeq, FileResults
    <3>2. \A i \in 1..Len(s.ranked) : FALSE
      BY <2>1, <3>1
    <3>3. GoodSeq(s, s.ranked, gen)
      BY <1>5, <3>2 DEF GoodSeq
    <3> QED BY <1>6, <1>7, <3>3, DrawnGood
  <2>3. CASE GoodSeq(s, s.ranked, gen)
    BY <1>6, <1>7, <2>3, DrawnGood
  <2> QED BY <1>4, <2>2, <2>3
<1>10. \A i, j \in 1..Len(chunks) : i # j => chunks[i].id # chunks[j].id
  <2>1. CASE FileSeq(s.ranked)
    BY <1>6, <1>7, <2>1, DrawnFiles
  <2>2. CASE GoodSeq(s, s.ranked, gen)
    <3>1. GoodSeq(s, chunks, gen)
      BY <1>6, <1>7, <2>2, DrawnGood
    <3> HIDE DEF chunks
    <3> QED BY <3>1, GoodApart
  <2> QED BY <1>4, <2>1, <2>2
<1>11. /\ flagged => Total(Front(chunks)) < s.ask.budget
       /\ ~flagged => Total(chunks) <= s.ask.budget
       /\ s.ranked # <<>> => chunks # <<>>
  BY <1>5, PackageHonest
<1>12. Packed(chunks, flagged, s.ask.budget)
  <2> HIDE DEF chunks, flagged, s
  <2> QED BY <1>4, <1>10, <1>11 DEF Packed
<1> DEFINE t == Answered(s, source, chunks, flagged, gen)
<1>13. call' = [call EXCEPT ![c] = t]
  BY <1>2 DEF Answer, Becomes, Answered
<1>14. CallOK(t, gen)
  <2> HIDE DEF s, source, chunks, flagged
  <2> QED BY <1>3, <1>4, <1>7, <1>8, <1>9, <1>11, <1>12, AnsweredOK
<1> HIDE DEF t
<1> QED BY <1>1, <1>13, <1>14, CallStep

(* Ask: a call begins with nothing found. *)
LEMMA AskOK ==
  ASSUME IInv, NEW c \in Calls, NEW q \in Queries[c], NEW ready \in BOOLEAN, Ask(c, q, ready)
  PROVE  IInv'
<1>1. PICK plan \in {DetermineLevel(ready), "filesystem"} :
        call' = [call EXCEPT ![c] =
                   [pc |-> IF plan = "filesystem" THEN "files" ELSE "fts", ask |-> q,
                    plan |-> plan, since |-> gen, until |-> gen, hits |-> {}, found |-> {},
                    ranked |-> <<>>, chunks |-> <<>>, source |-> "none", flagged |-> FALSE,
                    expanded |-> FALSE]]
  BY DEF Ask, Becomes
<1> DEFINE pc == IF plan = "filesystem" THEN "files" ELSE "fts"
           s == [pc |-> pc, ask |-> q, plan |-> plan, since |-> gen, until |-> gen,
                 hits |-> {}, found |-> {}, ranked |-> <<>>, chunks |-> <<>>,
                 source |-> "none", flagged |-> FALSE, expanded |-> FALSE]
<1>2. q \in Inputs /\ (q.tool = "context" => q.budget > 0)
  BY QueryAssumption DEF QueryAssumption
<1>3. gen \in [Files -> Nat]
  BY DEF IInv, GenTyped
<1>4. plan \in {"filesystem", "keyword", "semantic", "retry"}
  BY DEF DetermineLevel
<1>5. pc \in {"files", "fts"}
  OBVIOUS
<1>6. call' = [call EXCEPT ![c] = s]
  BY <1>1
<1> HIDE DEF pc
<1>7. s \in CallStates
  <2>1. <<>> \in Seq(Results) /\ pc \in PCs
    BY <1>5 DEF PCs
  <2> QED BY <1>2, <1>3, <1>4, <2>1 DEF CallStates
<1>8. s.ask = q /\ s.since = gen /\ s.found = {} /\ ~s.expanded /\ s.pc \in {"files", "fts"}
  BY <1>5
<1> HIDE DEF s
<1>9. Known(s, gen)
  <2>1. \A f \in Files : gen[f] <= gen[f]
    BY <1>3
  <2> QED BY <1>2, <1>7, <1>8, <2>1 DEF Known
<1>10. CallOK(s, gen)
  BY <1>7, <1>8, <1>9, FragmentsOK, FS_EmptySet
<1> QED BY <1>6, <1>10, CallStep DEF Ask

(* ReadFiles: a call at the filesystem's level is answered from files. *)
LEMMA ReadFilesOK ==
  ASSUME IInv, NEW c \in Calls, call[c] # Idle, ReadFiles(c)
  PROVE  IInv'
<1> DEFINE budget == IF call[c].ask.tool = "search" THEN FallbackBudget ELSE call[c].ask.budget
<1>1. AnswerFiles(c, budget) /\ UNCHANGED index
  BY DEF ReadFiles
<1>2. FallbackBudget \in Nat \ {0}
  BY QueryAssumption DEF QueryAssumption
<1>3. /\ budget \in Nat \ {0}
      /\ call[c].ask.tool = "context" => budget = call[c].ask.budget
  BY <1>2, CallsKnown
<1> HIDE DEF budget
<1> QED BY <1>1, <1>3, AnswerFilesOK

(* Re-indexing leaves what a call knows true: results only grow older. *)
LEMMA GoodLater ==
  ASSUME NEW s, NEW x, NEW g \in [Files -> Nat], NEW h \in [Files -> Nat],
         \A f \in Files : g[f] <= h[f], s.since \in [Files -> Nat]
  PROVE  /\ SoundIn(s, x, g) => SoundIn(s, x, h)
         /\ SoundIn(s, x, g) /\ IsWhole(x, g) => IsWhole(x, h)
<1> SUFFICES ASSUME SoundIn(s, x, g)
             PROVE  SoundIn(s, x, h) /\ (IsWhole(x, g) => IsWhole(x, h))
  OBVIOUS
<1>1. x.id[1] \in Files /\ x.id[2] \in Nat
  BY RowsTyped DEF SoundIn
<1>2. g[x.id[1]] \in Nat /\ h[x.id[1]] \in Nat /\ g[x.id[1]] <= h[x.id[1]]
  BY <1>1
<1> QED BY <1>1, <1>2 DEF SoundIn, IsWhole

(* What was sound of a call stays sound when files move to later generations. *)
LEMMA CallLater ==
  ASSUME NEW s, NEW g \in [Files -> Nat], NEW h \in [Files -> Nat],
         \A f \in Files : g[f] <= h[f], CallOK(s, g)
  PROVE  CallOK(s, h)
<1> SUFFICES ASSUME s # Idle PROVE CallOK(s, h)
  BY DEF CallOK
<1>1. Known(s, g) /\ s.since \in [Files -> Nat]
  BY DEF CallOK, Known, CallStates
<1>2. Known(s, h)
  <2>1. \A f \in Files : s.since[f] \in Nat /\ g[f] \in Nat /\ h[f] \in Nat
    BY <1>1
  <2> QED BY <1>1, <2>1 DEF Known
<1>3. CASE s.pc = "done"
  BY <1>2, <1>3 DEF CallOK
<1>4. CASE s.pc # "done"
  <2>1. Looking(s, g)
    BY <1>4 DEF CallOK
  <2>2. \A r \in s.found : SoundIn(s, r, h) /\ (IsWhole(r, g) => IsWhole(r, h))
    BY <1>1, <2>1, GoodLater DEF Looking
  <2>3. GoodSeq(s, s.ranked, g) => GoodSeq(s, s.ranked, h)
    BY <1>1, GoodLater DEF GoodSeq
  <2>4. Looking(s, h)
    BY <2>1, <2>2, <2>3 DEF Looking
  <2> QED BY <1>2, <1>4, <2>4 DEF CallOK
<1> QED BY <1>3, <1>4

(* Reindex: the file's next generation replaces its rows. *)
LEMMA ReindexOK ==
  ASSUME IInv, NEW f \in Files, Reindex(f)
  PROVE  IInv'
<1>1. /\ gen[f] \in 1..(Len(Layout[f]) - 1) /\ gen' = [gen EXCEPT ![f] = @ + 1]
      /\ vecs' = vecs /\ call' = call
  BY DEF Reindex
<1>2. gen \in [Files -> Nat] /\ \A x \in Files : gen[x] <= Len(Layout[x])
  BY DEF IInv, GenTyped
<1>3. Len(Layout[f]) \in Nat
  BY QueryAssumption DEF QueryAssumption
<1>4. gen' \in [Files -> Nat] /\ \A x \in Files : gen[x] <= gen'[x]
  BY <1>1, <1>2
<1>5. \A x \in Files : gen'[x] <= Len(Layout[x])
  BY <1>1, <1>2, <1>3
<1>6. GenTyped'
  BY <1>4, <1>5 DEF GenTyped
<1>7. \A c \in Calls : CallOK(call[c], gen')
  <2>1. \A c \in Calls : CallOK(call[c], gen)
    BY DEF IInv
  <2> QED BY <1>2, <1>4, <2>1, CallLater
<1> QED BY <1>1, <1>6, <1>7 DEF IInv

(* Vectors come and go; they name rows that were in the store. *)
LEMMA VectorsOK ==
  ASSUME IInv, gen' = gen, call' = call, vecs' \subseteq vecs \cup Live
  PROVE  IInv'
<1>1. vecs' \subseteq RowIds
  BY LiveTyped DEF IInv
<1>2. GenTyped'
  BY DEF IInv, GenTyped
<1> QED BY <1>1, <1>2 DEF IInv

(* At the start no call is in flight. *)
LEMMA InitOK ==
  ASSUME Init
  PROVE  IInv
<1>1. PICK g \in {0, 1} : gen = [f \in Files |-> g]
  BY DEF Init
<1>2. \A f \in Files : Layout[f] \in Seq(Seq(ChunkRecords)) /\ Layout[f] # <<>>
  BY QueryAssumption DEF QueryAssumption
<1>3. \A f \in Files : Len(Layout[f]) \in Nat /\ Len(Layout[f]) # 0
  BY <1>2
<1>4. GenTyped
  BY <1>1, <1>3 DEF GenTyped
<1>5. vecs \subseteq RowIds
  BY <1>4, LiveTyped DEF Init
<1>6. call = [c \in Calls |-> Idle]
  BY DEF Init
<1>7. \A c \in Calls : CallOK(call[c], gen)
  BY <1>6 DEF CallOK
<1> QED BY <1>4, <1>5, <1>6, <1>7 DEF IInv

(* Every step of a call, of the indexer and of the embedder keeps the        *)
(* invariant.                                                                *)
LEMMA StepOK ==
  ASSUME IInv, [Next]_vars
  PROVE  IInv'
<1>1. ASSUME NEW c \in Calls, Step(c) PROVE IInv'
  <2>1. ASSUME NEW q \in Queries[c], NEW ready \in BOOLEAN, Ask(c, q, ready) PROVE IInv'
    BY <2>1, AskOK
  <2>2. CASE call[c] # Idle
    BY <1>1, <2>1, <2>2, ReadFilesOK, FtsOK, HydrateOK, EmbedQueryOK, EmbeddedOK, VectorSearchOK, MergeOK,
       ExpandOK, RankOK, AssembleContextOK DEF Step
  <2>3. CASE call[c] = Idle
    BY <1>1, <2>1, <2>3 DEF Step
  <2> QED BY <2>2, <2>3
<1>2. ASSUME NEW f \in Files, Reindex(f) PROVE IInv'
  BY <1>2, ReindexOK
<1>3. CASE EmbedChunks
  BY <1>3, VectorsOK DEF EmbedChunks
<1>4. CASE DropStaleVectors
  BY <1>4, VectorsOK DEF DropStaleVectors
<1>5. CASE UNCHANGED vars
  <2>1. gen' = gen /\ call' = call /\ vecs' \subseteq vecs \cup Live
    BY <1>5 DEF vars
  <2> QED BY <2>1, VectorsOK
<1> QED BY <1>1, <1>2, <1>3, <1>4, <1>5 DEF Next

(* The inductive invariant: what a call in flight holds is in scope, of      *)
(* generations between its start and now, and no row twice; an answered      *)
(* call's answer is what it was when it was given (engine.go: searchSemantic,*)
(* searchKeyword, contextSemantic, contextKeyword read the store several     *)
(* times while files are re-indexed).                                        *)
THEOREM QueryInvariant == Spec => []IInv
<1> QED BY InitOK, StepOK, PTL DEF Spec

------------------------------------------------------------------------------
(* The results. *)

(* What the invariant says of an answered call. *)
LEMMA DoneOK ==
  ASSUME IInv, NEW c \in Done
  PROVE  /\ c \in Calls /\ FromTheIndex(call[c]) /\ InContext(call[c]) /\ call[c] \in CallStates
         /\ DOMAIN call[c].chunks = 1..Len(call[c].chunks)
<1>1. c \in Calls /\ call[c].pc = "done" /\ CallOK(call[c], gen)
  BY DEF Done, IInv
<1>2. call[c] # Idle
  BY <1>1 DEF Idle
<1>3. FromTheIndex(call[c]) /\ InContext(call[c]) /\ call[c] \in CallStates
  BY <1>1, <1>2 DEF CallOK, Known
<1>4. call[c].chunks \in Seq(Results)
  BY <1>3 DEF CallStates
<1> QED BY <1>1, <1>3, <1>4

(* AnswersSound, of one result and of one answer. *)
ResultSound(s, r) ==
  /\ Accepts(s.ask.scope, r.id[1])
  /\ s.ask.tool = "search" /\ s.ask.under # {} => r.id[1] \in s.ask.under
  /\ r.id \in r.parts
  /\ \A p \in r.parts : p[1] = r.id[1] /\ p[2] = r.id[2]
  /\ s.since[r.id[1]] <= r.id[2] /\ r.id[2] <= s.until[r.id[1]]
AnswerSound(s) ==
  /\ \A i \in DOMAIN s.chunks : ResultSound(s, s.chunks[i])
  /\ \A i, j \in DOMAIN s.chunks : i # j => s.chunks[i].parts \cap s.chunks[j].parts = {}
  /\ s.ask.tool = "search" /\ (s.plan = "semantic" \/ s.ask.under # {})
       => Len(s.chunks) <= s.ask.max

(* An answer from the index holds only what was asked for, only rows that    *)
(* were in the store during the call, no text twice, and each result's text  *)
(* is of one generation (engine.go: searchSemantic and searchKeyword, with   *)
(* hydrateFTSResults, mergeResults, the path filter and the limits).         *)
THEOREM QueryAnswersSound == Spec => []AnswersSound
<1>1. IInv => AnswersSound
  <2> SUFFICES ASSUME IInv, NEW c \in FromIndex
               PROVE  LET s == call[c]
                      IN  /\ GoodSeq(s, s.chunks, s.until) /\ Within(s, s.chunks)
                          /\ DOMAIN s.chunks = 1..Len(s.chunks)
    <3>1. ASSUME NEW s, GoodSeq(s, s.chunks, s.until), Within(s, s.chunks),
                 DOMAIN s.chunks = 1..Len(s.chunks)
          PROVE  AnswerSound(s)
      <4>1. ASSUME NEW i \in DOMAIN s.chunks PROVE ResultSound(s, s.chunks[i])
        <5>1. SoundIn(s, s.chunks[i], s.until)
          BY <3>1 DEF GoodSeq
        <5>2. s.ask.tool = "search" /\ s.ask.under # {} => s.chunks[i].id[1] \in s.ask.under
          BY <3>1 DEF Within
        <5> QED BY <5>1, <5>2 DEF SoundIn, ResultSound
      <4>2. \A i, j \in DOMAIN s.chunks : i # j => s.chunks[i].parts \cap s.chunks[j].parts = {}
        BY <3>1 DEF GoodSeq
      <4>3. s.ask.tool = "search" /\ (s.plan = "semantic" \/ s.ask.under # {})
              => Len(s.chunks) <= s.ask.max
        BY <3>1 DEF Within
      <4> QED BY <4>1, <4>2, <4>3 DEF AnswerSound
    <3>2. (\A d \in FromIndex : AnswerSound(call[d])) => AnswersSound
      BY DEF AnswersSound, AnswerSound, ResultSound
    <3> QED BY <3>1, <3>2
  <2>1. c \in Done /\ call[c].source = "index"
    BY DEF FromIndex
  <2> QED BY <2>1, DoneOK DEF FromTheIndex
<1> QED BY <1>1, QueryInvariant, PTL

(* Where the sibling query succeeded, a symbol that the chunker split is     *)
(* answered whole, or its file was re-indexed before the answer              *)
(* (retrieval.go: ExpandSplitSiblings, mergeSiblings).                       *)
THEOREM QueryAnswersWhole == Spec => []AnswersWhole
<1>1. IInv => AnswersWhole
  <2> DEFINE Holds(r, until) ==
        LET rows == {<<r.id[1], r.id[2], k>> : k \in DOMAIN Layout[r.id[1]][r.id[2]]}
            whole == {p \in rows : /\ IsNamed(r.id)
                                   /\ Row(p).name = Row(r.id).name
                                   /\ Row(p).kind = Row(r.id).kind} \cup {r.id}
        IN  r.parts = whole \/ r.id[2] < until[r.id[1]]
  <2>1. ASSUME NEW r, NEW until, IsWhole(r, until) PROVE Holds(r, until)
    BY <2>1 DEF IsWhole, Whole
  <2>2. ASSUME IInv, NEW c \in FromIndex, NEW i \in DOMAIN call[c].chunks, call[c].expanded
        PROVE  Holds(call[c].chunks[i], call[c].until)
    <3>1. c \in Done /\ call[c].source = "index"
      BY DEF FromIndex
    <3>2. IsWhole(call[c].chunks[i], call[c].until)
      BY <2>2, <3>1, DoneOK DEF FromTheIndex, GoodSeq
    <3> HIDE DEF Holds
    <3> QED BY <2>1, <3>2
  <2>3. AnswersWhole = \A c \in FromIndex : \A i \in DOMAIN call[c].chunks :
                         call[c].expanded => Holds(call[c].chunks[i], call[c].until)
    BY DEF AnswersWhole
  <2> HIDE DEF Holds
  <2> QED BY <2>2, <2>3
<1> QED BY <1>1, QueryInvariant, PTL

(* A context package is empty only when it is of files, keeps to its         *)
(* budget unless it says that it does not, and then goes over it by its last *)
(* chunk alone; it holds no chunk twice (assembler.go: Assemble,             *)
(* structuralExpand; fallback.go: FilesystemFallback).                       *)
THEOREM QueryContextHonest == Spec => []ContextHonest
<1>1. IInv => ContextHonest
  <2> SUFFICES ASSUME IInv, NEW c \in Done
               PROVE  InContext(call[c]) /\ DOMAIN call[c].chunks = 1..Len(call[c].chunks)
    BY DEF ContextHonest, InContext, Packed
  <2> QED BY DoneOK
<1> QED BY <1>1, QueryInvariant, PTL

------------------------------------------------------------------------------
(* The session store. *)
Keys == {SessionKey(r) : r \in Results}
Entries == [key : Keys, count : Nat, last : Nat]
Pairs == Nat \X Nat
KeyOf(p, Q) == Q[p[1]][p[2]]

(* The hits that a store's entries remember. *)
Memory(s, at, H, Q) ==
  at \in [1..Len(s) -> Latest(H, Q)] /\ Remembers(s, at, Latest(H, Q), Q)
Remembered(s, H, Q) == Len(s) <= SessionSize /\ \E at : Memory(s, at, H, Q)

(* u is what is left of s when an entry for a new hit of key is made at its end. *)
Leaves(s, u, key, f) ==
  /\ f \in [1..Len(u) -> 1..Len(s)]
  /\ \A i, j \in 1..Len(u) : i < j => f[i] < f[j]
  /\ \A k \in 1..Len(u) : u[k] = s[f[k]] /\ u[k].key # key
  /\ \A i \in 1..Len(s) : \/ \E k \in 1..Len(u) : f[k] = i
                          \/ s[i].key = key
                          \/ (Len(u) + 1 = SessionSize /\ \A k \in 1..Len(u) : i < f[k])
  /\ Len(s) = SessionSize => Len(u) + 1 = SessionSize
  /\ Len(u) + 1 <= SessionSize

(* The least of a set of numbers. *)
LEMMA MinOfSet ==
  ASSUME NEW S, S \subseteq Nat, S # {}
  PROVE  Min(S) \in S
<1>1. \E x \in S : \A y \in S : x <= y
  BY LeastExists
<1> QED BY <1>1 DEF Min

(* Later orders the hits. *)
LEMMA LaterOrders ==
  ASSUME NEW p \in Pairs, NEW q \in Pairs
  PROVE  /\ p # q => Later(p, q) \/ Later(q, p)
         /\ ~(Later(p, q) /\ Later(q, p)) /\ ~Later(p, p)
<1>1. p[1] \in Nat /\ p[2] \in Nat /\ q[1] \in Nat /\ q[2] \in Nat
  BY DEF Pairs
<1>2. p = <<p[1], p[2]>> /\ q = <<q[1], q[2]>>
  BY DEF Pairs
<1>3. p[1] = q[1] /\ p[2] = q[2] => p = q
  BY <1>2
<1> HIDE DEF Pairs
<1> QED BY <1>1, <1>3 DEF Later

(* The latest hits once one more, after all of them, is made. *)
LEMMA LatestOneMore ==
  ASSUME NEW H \in SUBSET Pairs, NEW Q, NEW p \in Pairs, \A q \in H : Later(p, q)
  PROVE  Latest(H \cup {p}, Q) = {q \in Latest(H, Q) : KeyOf(q, Q) # KeyOf(p, Q)} \cup {p}
<1> DEFINE G == H \cup {p}
<1>1. p \in Latest(G, Q)
  <2>1. \A q \in G : ~Later(q, p)
    BY LaterOrders
  <2> QED BY <2>1 DEF Latest
<1>2. ASSUME NEW q \in Latest(G, Q), q # p
      PROVE  q \in Latest(H, Q) /\ KeyOf(q, Q) # KeyOf(p, Q)
  <2>1. q \in H
    BY <1>2 DEF Latest
  <2>2. Later(p, q) /\ p \in G
    BY <2>1
  <2> QED BY <2>1, <2>2 DEF Latest, KeyOf
<1>3. ASSUME NEW q \in Latest(H, Q), KeyOf(q, Q) # KeyOf(p, Q)
      PROVE  q \in Latest(G, Q)
  BY <1>3 DEF Latest, KeyOf
<1> QED BY <1>1, <1>2, <1>3

(* A hit's entry at the end of what is left of the store remembers it. *)
LEMMA LeavesRemembered ==
  ASSUME NEW s \in Seq(Entries), NEW u \in Seq(Entries), NEW H \in SUBSET Pairs, NEW Q,
         NEW p \in Pairs, \A q \in H : Later(p, q),
         NEW at, Memory(s, at, H, Q), NEW f, Leaves(s, u, KeyOf(p, Q), f),
         NEW e \in Entries, e.key = KeyOf(p, Q), e.last = p[1]
  PROVE  Remembered(Append(u, e), H \cup {p}, Q)
<1> DEFINE t == Append(u, e)
           G == H \cup {p}
           new == [i \in 1..Len(t) |-> IF i <= Len(u) THEN at[f[i]] ELSE p]
           L == Latest(H, Q)
           M == Latest(G, Q)
<1>1. M = {q \in L : KeyOf(q, Q) # KeyOf(p, Q)} \cup {p}
  BY LatestOneMore
<1>2. /\ Len(u) \in Nat /\ Len(s) \in Nat /\ Len(t) = Len(u) + 1
      /\ DOMAIN s = 1..Len(s) /\ DOMAIN t = 1..Len(t)
      /\ (\A i \in 1..Len(u) : t[i] = u[i]) /\ t[Len(u) + 1] = e
  OBVIOUS
<1>3. \A i \in 1..Len(t) : i \in 1..Len(u) \/ i = Len(u) + 1
  BY <1>2
<1>4. /\ at \in [1..Len(s) -> L]
      /\ \A i \in 1..Len(s) : s[i].key = KeyOf(at[i], Q) /\ s[i].last = at[i][1]
      /\ \A i, j \in 1..Len(s) : i < j => Later(at[j], at[i])
      /\ \A q \in L : \/ \E i \in 1..Len(s) : at[i] = q
                      \/ (Len(s) = SessionSize /\ \A i \in 1..Len(s) : Later(at[i], q))
  BY <1>2 DEF Memory, Remembers, KeyOf
<1>5. L \subseteq H
  BY DEF Latest
<1> HIDE DEF t, L, M
<1>6. /\ \A i \in 1..Len(u) : new[i] = at[f[i]] /\ f[i] \in 1..Len(s) /\ i \in 1..Len(t)
      /\ new[Len(u) + 1] = p /\ Len(u) + 1 \in 1..Len(t)
  BY <1>2 DEF Leaves
<1>7. \A i \in 1..Len(u) : new[i] \in L /\ new[i] \in M
  <2> TAKE i \in 1..Len(u)
  <2>1. new[i] \in L
    BY <1>4, <1>6
  <2>2. KeyOf(new[i], Q) # KeyOf(p, Q)
    <3>1. new[i] = at[f[i]] /\ f[i] \in 1..Len(s)
      BY <1>6
    <3>2. s[f[i]].key = KeyOf(at[f[i]], Q)
      BY <1>4, <3>1
    <3>3. u[i] = s[f[i]] /\ u[i].key # KeyOf(p, Q)
      BY <1>2 DEF Leaves
    <3> HIDE DEF new
    <3> QED BY <3>1, <3>2, <3>3
  <2> HIDE DEF new
  <2> QED BY <1>1, <2>1, <2>2
<1>8. new \in [1..Len(t) -> M]
  <2>1. \A i \in 1..Len(t) : new[i] \in M
    BY <1>1, <1>3, <1>6, <1>7
  <2> QED BY <2>1
<1> HIDE DEF new
<1>9. \A i \in 1..Len(t) : t[i].key = KeyOf(new[i], Q) /\ t[i].last = new[i][1]
  <2> TAKE i \in 1..Len(t)
  <2>1. CASE i \in 1..Len(u)
    BY <1>2, <1>4, <1>6, <2>1 DEF Leaves
  <2>2. CASE i = Len(u) + 1
    BY <1>2, <1>6, <2>2
  <2> QED BY <1>3, <2>1, <2>2
<1>10. ASSUME NEW i \in 1..Len(t), NEW j \in 1..Len(t), i < j
       PROVE  Later(new[j], new[i])
  <2>1. i \in 1..Len(u)
    BY <1>2, <1>10
  <2>2. CASE j \in 1..Len(u)
    <3>1. f[i] < f[j]
      BY <1>10, <2>1, <2>2 DEF Leaves
    <3> QED BY <1>4, <1>6, <2>1, <2>2, <3>1
  <2>3. CASE j = Len(u) + 1
    BY <1>5, <1>6, <1>7, <2>1, <2>3
  <2> QED BY <1>3, <2>2, <2>3
<1>11. ASSUME NEW q \in M
       PROVE  \/ \E i \in 1..Len(t) : new[i] = q
              \/ (Len(t) = SessionSize /\ \A i \in 1..Len(t) : Later(new[i], q))
  <2>1. CASE q = p
    BY <1>6, <2>1
  <2>2. CASE q # p
    <3>1. q \in L /\ KeyOf(q, Q) # KeyOf(p, Q) /\ Later(p, q)
      BY <1>1, <1>5, <2>2
    <3>2. ASSUME NEW i \in 1..Len(s), at[i] = q
          PROVE  \/ \E k \in 1..Len(t) : new[k] = q
                 \/ (Len(t) = SessionSize /\ \A k \in 1..Len(t) : Later(new[k], q))
      <4>1. s[i].key # KeyOf(p, Q)
        BY <1>4, <3>1, <3>2
      <4>2. CASE \E k \in 1..Len(u) : f[k] = i
        BY <1>6, <3>2, <4>2
      <4>3. CASE Len(u) + 1 = SessionSize /\ \A k \in 1..Len(u) : i < f[k]
        <5>1. \A k \in 1..Len(u) : Later(new[k], q)
          BY <1>4, <1>6, <3>2, <4>3
        <5>2. \A k \in 1..Len(t) : Later(new[k], q)
          BY <1>3, <1>6, <3>1, <5>1
        <5> QED BY <1>2, <4>3, <5>2
      <4> QED BY <4>1, <4>2, <4>3 DEF Leaves
    <3>3. CASE Len(s) = SessionSize /\ \A i \in 1..Len(s) : Later(at[i], q)
      <4>1. Len(t) = SessionSize
        BY <1>2, <3>3 DEF Leaves
      <4>2. \A k \in 1..Len(t) : Later(new[k], q)
        BY <1>3, <1>6, <3>1, <3>3
      <4> QED BY <4>1, <4>2
    <3> QED BY <1>4, <3>1, <3>2, <3>3
  <2> QED BY <2>1, <2>2
<1>12. Remembers(t, new, M, Q)
  <2>1. \A i \in DOMAIN t : t[i].key = Q[new[i][1]][new[i][2]] /\ t[i].last = new[i][1]
    BY <1>2, <1>9 DEF KeyOf
  <2>2. \A i, j \in DOMAIN t : i < j => Later(new[j], new[i])
    BY <1>2, <1>10
  <2>3. \A q \in M : \/ \E i \in DOMAIN t : new[i] = q
                     \/ (Len(t) = SessionSize /\ \A i \in DOMAIN t : Later(new[i], q))
    BY <1>2, <1>11
  <2> QED BY <2>1, <2>2, <2>3 DEF Remembers
<1>13. Len(t) <= SessionSize
  BY <1>2 DEF Leaves
<1>14. Memory(t, new, G, Q)
  BY <1>8, <1>12 DEF Memory, M
<1> QED BY <1>13, <1>14 DEF Remembered, t

(* An entry that is hit again. *)
LEMMA EntryHit ==
  ASSUME NEW e \in Entries, NEW g \in Nat
  PROVE  LET n == [e EXCEPT !.count = @ + 1, !.last = g]
         IN  n \in Entries /\ n.key = e.key /\ n.last = g
<1> DEFINE c == e.count + 1
           n == [e EXCEPT !.count = c, !.last = g]
<1>1. c \in Nat
  BY DEF Entries
<1> HIDE DEF c
<1>2. n \in Entries
  BY <1>1 DEF Entries
<1>3. n.key = e.key /\ n.last = g
  BY DEF Entries
<1> HIDE DEF n
<1> QED BY <1>2, <1>3 DEF n, c

(* Nothing, the first entry or the hit's own is taken out of the store. *)
LEMMA EvictLeaves ==
  ASSUME NEW s \in Seq(Entries), Len(s) <= SessionSize, NEW key, Places(s, key) = {}
  PROVE  Evict(s) \in Seq(Entries) /\ \E f : Leaves(s, Evict(s), key, f)
<1>1. Len(s) \in Nat /\ DOMAIN s = 1..Len(s) /\ SessionSize \in Nat \ {0}
  BY QueryAssumption DEF QueryAssumption
<1>0. /\ Len(s) >= SessionSize => Len(s) = SessionSize
      /\ ~(Len(s) >= SessionSize) => Len(s) # SessionSize /\ Len(s) + 1 <= SessionSize
  <2>1. \A m, n \in Nat : m <= n => /\ m >= n => m = n
                                    /\ ~(m >= n) => m # n /\ m + 1 <= n
    OBVIOUS
  <2> QED BY <1>1, <2>1
<1>2. \A i \in 1..Len(s) : s[i].key # key
  BY <1>1 DEF Places
<1>3. CASE Len(s) >= SessionSize
  <2> DEFINE u == Tail(s)
             f == [k \in 1..Len(u) |-> k + 1]
  <2>1. s # <<>>
    BY <1>1, <1>3
  <2>2. /\ u \in Seq(Entries) /\ Len(u) = Len(s) - 1 /\ Len(s) = SessionSize
        /\ \A k \in 1..Len(u) : u[k] = s[k + 1]
    <3>1. Len(s) = SessionSize
      BY <1>0, <1>3
    <3>2. u \in Seq(Entries) /\ Len(u) = Len(s) - 1
      BY <1>1, <2>1
    <3>3. \A k \in 1..(Len(s) - 1) : u[k] = s[k + 1]
      BY <1>1, <2>1
    <3> QED BY <3>1, <3>2, <3>3
  <2>3. Evict(s) = u
    BY <1>3 DEF Evict
  <2> HIDE DEF u
  <2>4. f \in [1..Len(u) -> 1..Len(s)] /\ \A k \in 1..Len(u) : f[k] = k + 1
    BY <1>1, <2>2
  <2> HIDE DEF f
  <2>5. ASSUME NEW i \in 1..Len(s)
        PROVE  (\E k \in 1..Len(u) : f[k] = i) \/ \A k \in 1..Len(u) : i < f[k]
    <3>1. CASE i = 1
      BY <2>4, <3>1
    <3>2. CASE i # 1
      <4>1. i - 1 \in 1..Len(u) /\ f[i - 1] = i
        BY <1>1, <2>2, <2>4, <3>2
      <4> QED BY <4>1
    <3> QED BY <3>1, <3>2
  <2>6. \A i, j \in 1..Len(u) : i < j => f[i] < f[j]
    BY <2>4
  <2>7. \A k \in 1..Len(u) : u[k] = s[f[k]] /\ u[k].key # key
    BY <1>2, <2>2, <2>4
  <2>8. Len(u) + 1 = SessionSize /\ Len(u) + 1 <= SessionSize
    BY <1>1, <2>2
  <2>9. Leaves(s, u, key, f)
    BY <2>4, <2>5, <2>6, <2>7, <2>8 DEF Leaves
  <2> QED BY <2>2, <2>3, <2>9
<1>4. CASE ~(Len(s) >= SessionSize)
  <2> DEFINE f == [k \in 1..Len(s) |-> k]
  <2>1. Evict(s) = s
    BY <1>4 DEF Evict
  <2>2. f \in [1..Len(s) -> 1..Len(s)] /\ \A k \in 1..Len(s) : f[k] = k
    OBVIOUS
  <2> HIDE DEF f
  <2>3. Len(s) # SessionSize /\ Len(s) + 1 <= SessionSize
    BY <1>0, <1>4
  <2>4. \A i, j \in 1..Len(s) : i < j => f[i] < f[j]
    BY <2>2
  <2>5. \A i \in 1..Len(s) : \E k \in 1..Len(s) : f[k] = i
    BY <2>2
  <2>6. Leaves(s, s, key, f)
    BY <1>2, <2>2, <2>3, <2>4, <2>5 DEF Leaves
  <2> QED BY <2>1, <2>6
<1> QED BY <1>3, <1>4

(* RemoveAt. *)
LEMMA RemoveAtGives ==
  ASSUME NEW R, NEW s \in Seq(R), NEW i \in 1..Len(s)
  PROVE  LET u == RemoveAt(s, i)
         IN  /\ u \in Seq(R) /\ Len(u) = Len(s) - 1
             /\ \A k \in 1..Len(u) : u[k] = s[IF k < i THEN k ELSE k + 1]
<1> DEFINE a == SubSeq(s, 1, i - 1)
           b == SubSeq(s, i + 1, Len(s))
<1>1. Len(s) \in Nat /\ i \in Nat /\ 1 <= i /\ i <= Len(s)
  OBVIOUS
<1>2. a \in Seq(R) /\ Len(a) = i - 1 /\ \A k \in 1..(i - 1) : a[k] = s[k]
  BY <1>1
<1>3. b \in Seq(R) /\ Len(b) = Len(s) - i /\ \A k \in 1..(Len(s) - i) : b[k] = s[k + i]
  BY <1>1
<1>4. RemoveAt(s, i) = a \o b
  BY DEF RemoveAt
<1> HIDE DEF a, b
<1>5. /\ a \o b \in Seq(R) /\ Len(a \o b) = Len(s) - 1
      /\ \A k \in 1..(i - 1) : (a \o b)[k] = a[k]
      /\ \A k \in i..(Len(s) - 1) : (a \o b)[k] = b[k - (i - 1)]
  <2>1. a \o b \in Seq(R) /\ Len(a \o b) = Len(a) + Len(b)
    <3>1. a \in Seq(R) /\ b \in Seq(R)
      BY <1>2, <1>3
    <3> QED BY <3>1
  <2>2. \A k \in 1..(Len(a) + Len(b)) : (a \o b)[k] = IF k <= Len(a) THEN a[k] ELSE b[k - Len(a)]
    BY <1>2, <1>3
  <2>3. Len(a) + Len(b) = Len(s) - 1
    BY <1>1, <1>2, <1>3
  <2>4. ASSUME NEW k \in 1..(i - 1) PROVE (a \o b)[k] = a[k]
    BY <1>1, <1>2, <2>2, <2>3
  <2>5. ASSUME NEW k \in i..(Len(s) - 1) PROVE (a \o b)[k] = b[k - (i - 1)]
    BY <1>1, <1>2, <2>2, <2>3
  <2> QED BY <2>1, <2>3, <2>4, <2>5
<1>6. ASSUME NEW k \in 1..(Len(s) - 1)
      PROVE  (a \o b)[k] = s[IF k < i THEN k ELSE k + 1]
  <2>1. CASE k < i
    BY <1>1, <1>2, <1>5, <2>1
  <2>2. CASE ~(k < i)
    <3>1. k \in i..(Len(s) - 1) /\ k - (i - 1) \in 1..(Len(s) - i) /\ (k - (i - 1)) + i = k + 1
      BY <1>1, <2>2
    <3> QED BY <1>3, <1>5, <2>2, <3>1
  <2> QED BY <2>1, <2>2
<1> QED BY <1>4, <1>5, <1>6

(* No two entries are for one place. *)
LEMMA EntriesApart ==
  ASSUME NEW s \in Seq(Entries), NEW at, NEW H \in SUBSET Pairs, NEW Q, Memory(s, at, H, Q)
  PROVE  \A i, j \in 1..Len(s) : s[i].key = s[j].key => i = j
<1>1. DOMAIN s = 1..Len(s) /\ Len(s) \in Nat
  OBVIOUS
<1>2. ASSUME NEW i \in 1..Len(s), NEW j \in 1..Len(s), i < j, s[i].key = s[j].key
      PROVE  FALSE
  <2>1. Later(at[j], at[i]) /\ at[i] \in Latest(H, Q) /\ at[j] \in H
    BY <1>1, <1>2 DEF Memory, Remembers, Latest
  <2>2. KeyOf(at[j], Q) = KeyOf(at[i], Q)
    BY <1>1, <1>2 DEF Memory, Remembers, KeyOf
  <2> QED BY <2>1, <2>2 DEF Latest, KeyOf
<1> QED BY <1>1, <1>2

(* Removing an entry leaves the others, in their order. *)
LEMMA RemoveLeaves ==
  ASSUME NEW s \in Seq(Entries), Len(s) <= SessionSize, NEW key, NEW i \in 1..Len(s),
         s[i].key = key, \A j \in 1..Len(s) : s[j].key = key => j = i
  PROVE  \E f : Leaves(s, RemoveAt(s, i), key, f)
<1> DEFINE u == RemoveAt(s, i)
           f == [k \in 1..Len(u) |-> IF k < i THEN k ELSE k + 1]
<1>1. Len(s) \in Nat /\ i \in Nat /\ SessionSize \in Nat
  BY QueryAssumption DEF QueryAssumption
<1>2. Len(u) = Len(s) - 1 /\ \A k \in 1..Len(u) : u[k] = s[IF k < i THEN k ELSE k + 1]
  BY RemoveAtGives
<1> HIDE DEF u
<1>3. /\ f \in [1..Len(u) -> 1..Len(s)]
      /\ \A k \in 1..Len(u) : f[k] = IF k < i THEN k ELSE k + 1
  BY <1>1, <1>2
<1> HIDE DEF f
<1>4. \A a, b \in 1..Len(u) : a < b => f[a] < f[b]
  BY <1>1, <1>2, <1>3
<1>5. \A k \in 1..Len(u) : u[k] = s[f[k]] /\ f[k] # i /\ u[k].key # key
  <2>1. TAKE k \in 1..Len(u)
  <2>2. f[k] = (IF k < i THEN k ELSE k + 1) /\ f[k] \in 1..Len(s)
    BY <1>3
  <2>3. u[k] = s[f[k]]
    BY <1>2, <2>2
  <2>4. f[k] # i
    BY <1>1, <2>2
  <2>5. s[f[k]].key # key
    BY <2>2, <2>4
  <2> QED BY <2>3, <2>4, <2>5
<1>6. ASSUME NEW j \in 1..Len(s), j # i
      PROVE  \E k \in 1..Len(u) : f[k] = j
  <2>1. CASE j < i
    <3>1. j \in 1..Len(u) /\ f[j] = j
      BY <1>1, <1>2, <1>3, <2>1
    <3> QED BY <3>1
  <2>2. CASE ~(j < i)
    <3>1. j - 1 \in 1..Len(u) /\ f[j - 1] = j
      BY <1>1, <1>2, <1>3, <1>6, <2>2
    <3> QED BY <3>1
  <2> QED BY <2>1, <2>2
<1>7. Len(u) + 1 = Len(s) /\ Len(u) + 1 <= SessionSize
  BY <1>1, <1>2
<1>8. Leaves(s, u, key, f)
  BY <1>3, <1>4, <1>5, <1>6, <1>7 DEF Leaves
<1> QED BY <1>8 DEF u

(* One hit, of any store. *)
LEMMA RecordHitType ==
  ASSUME NEW s \in Seq(Entries), NEW key \in Keys, NEW g \in Nat
  PROVE  RecordHit(s, key, g) \in Seq(Entries)
<1>1. SessionSize \in Nat \ {0} /\ Len(s) \in Nat /\ DOMAIN s = 1..Len(s)
  BY QueryAssumption DEF QueryAssumption
<1>2. CASE Places(s, key) = {}
  <2>1. Evict(s) \in Seq(Entries)
    <3>1. Len(s) >= SessionSize => s # <<>>
      BY <1>1
    <3>2. s # <<>> => Tail(s) \in Seq(Entries)
      OBVIOUS
    <3> QED BY <3>1, <3>2 DEF Evict
  <2>2. [key |-> key, count |-> 1, last |-> g] \in Entries
    BY DEF Entries
  <2> QED BY <1>2, <2>1, <2>2 DEF RecordHit
<1>3. CASE Places(s, key) # {}
  <2> DEFINE i == Min(Places(s, key))
  <2>1. i \in 1..Len(s)
    <3>1. Places(s, key) \subseteq Nat /\ Places(s, key) \subseteq 1..Len(s)
      BY <1>1 DEF Places
    <3> QED BY <1>3, <3>1, MinOfSet
  <2> HIDE DEF i
  <2>2. RemoveAt(s, i) \in Seq(Entries) /\ s[i] \in Entries
    BY <2>1, RemoveAtGives
  <2>3. [s[i] EXCEPT !.count = @ + 1, !.last = g] \in Entries
    BY <2>2, EntryHit
  <2>4. RecordHit(s, key, g) = Append(RemoveAt(s, i), [s[i] EXCEPT !.count = @ + 1, !.last = g])
    BY <1>3 DEF RecordHit, i
  <2> QED BY <2>2, <2>3, <2>4
<1> QED BY <1>2, <1>3

(* One hit of a store that remembers those before it. *)
LEMMA RecordHitRemembers ==
  ASSUME NEW s \in Seq(Entries), NEW H \in SUBSET Pairs, NEW Q, Remembered(s, H, Q),
         NEW p \in Pairs, \A q \in H : Later(p, q), KeyOf(p, Q) \in Keys
  PROVE  Remembered(RecordHit(s, KeyOf(p, Q), p[1]), H \cup {p}, Q)
<1> DEFINE key == KeyOf(p, Q)
<1>1. PICK at : Memory(s, at, H, Q)
  BY DEF Remembered
<1>2. Len(s) <= SessionSize /\ Len(s) \in Nat /\ DOMAIN s = 1..Len(s) /\ p[1] \in Nat
  BY DEF Remembered, Pairs
<1>3. CASE Places(s, key) = {}
  <2> DEFINE e == [key |-> key, count |-> 1, last |-> p[1]]
  <2>1. e \in Entries /\ e.key = key /\ e.last = p[1]
    BY <1>2 DEF Entries
  <2>2. Evict(s) \in Seq(Entries) /\ \E f : Leaves(s, Evict(s), key, f)
    BY <1>2, <1>3, EvictLeaves
  <2>3. RecordHit(s, key, p[1]) = Append(Evict(s), e)
    BY <1>3 DEF RecordHit
  <2> HIDE DEF e
  <2> QED BY <1>1, <2>1, <2>2, <2>3, LeavesRemembered
<1>4. CASE Places(s, key) # {}
  <2> DEFINE i == Min(Places(s, key))
             e == [s[i] EXCEPT !.count = @ + 1, !.last = p[1]]
  <2>1. i \in 1..Len(s) /\ s[i].key = key
    <3>1. Places(s, key) \subseteq Nat /\ \A j \in Places(s, key) : j \in 1..Len(s) /\ s[j].key = key
      BY <1>2 DEF Places
    <3>2. i \in Places(s, key)
      BY <1>4, <3>1, MinOfSet
    <3> QED BY <3>1, <3>2
  <2>2. RecordHit(s, key, p[1]) = Append(RemoveAt(s, i), e)
    BY <1>4 DEF RecordHit
  <2> HIDE DEF i
  <2>3. e \in Entries /\ e.key = key /\ e.last = p[1]
    <3>1. s[i] \in Entries
      BY <2>1
    <3> QED BY <1>2, <2>1, <3>1, EntryHit
  <2> HIDE DEF e
  <2>4. \A j \in 1..Len(s) : s[j].key = key => j = i
    BY <1>1, <2>1, EntriesApart
  <2>5. RemoveAt(s, i) \in Seq(Entries)
    BY <2>1, RemoveAtGives
  <2>6. \E f : Leaves(s, RemoveAt(s, i), key, f)
    <3> HIDE DEF key
    <3> QED BY <1>2, <2>1, <2>4, RemoveLeaves
  <2> QED BY <1>1, <2>2, <2>3, <2>5, <2>6, LeavesRemembered
<1> QED BY <1>3, <1>4

RecordRuns(f, s, hits, g) ==
  f[0] = s /\ \A i \in 1..Len(hits) : f[i] = RecordHit(f[i - 1], hits[i], g)
(* RecordHits, unfolded. *)
LEMMA RecordHitsUnfolds ==
  ASSUME NEW s \in Seq(Entries), NEW hits \in Seq(Keys), NEW g \in Nat
  PROVE  \E f \in [0..Len(hits) -> Seq(Entries)] :
           RecordRuns(f, s, hits, g) /\ RecordHits(s, hits, g) = f[Len(hits)]
<1> DEFINE n == Len(hits)
           A == Seq(Entries)
           start == s
           Next1(i, a) == RecordHit(a, hits[i], g)
           step == [x \in (1..n) \X A |-> Next1(x[1], x[2])]
           Is(f) == f = [i \in 0..n |-> IF i = 0 THEN start ELSE Next1(i, f[i - 1])]
           kept == CHOOSE f : Is(f)
<1>1. n \in Nat /\ start \in A
  OBVIOUS
<1>2. \A i \in 1..n, a \in A : Next1(i, a) \in A
  <2>1. ASSUME NEW i \in 1..n, NEW a \in A PROVE RecordHit(a, hits[i], g) \in A
    <3>1. hits[i] \in Keys
      OBVIOUS
    <3> QED BY <3>1, RecordHitType
  <2> QED BY <2>1
<1>3. RecordHits(s, hits, g) = kept[n]
  BY DEF RecordHits
<1>4. step \in [(1..n) \X A -> A] /\ \A i \in 1..n, a \in A : step[<<i, a>>] = Next1(i, a)
  <2> HIDE DEF Next1
  <2> QED BY <1>2
<1> HIDE DEF n, A, Next1, start, step
<1>5. PICK f \in [0..n -> A] : Follows(f, n, start, step)
  <2>1. step \in Steps(n, A)
    BY <1>4 DEF Steps
  <2> QED BY <1>1, <2>1, Recursion
<1>6. \A i \in 1..n : f[i] = Next1(i, f[i - 1])
  <2>1. \A i \in 1..n : i - 1 \in 0..n
    BY <1>1
  <2> QED BY <1>4, <1>5, <2>1 DEF Follows
<1>7. Is(f)
  <2>1. f[0] = start
    BY <1>5 DEF Follows
  <2>2. \A i \in 0..n : f[i] = IF i = 0 THEN start ELSE Next1(i, f[i - 1])
    BY <1>1, <1>6, <2>1
  <2>3. f = [i \in 0..n |-> f[i]]
    BY <1>5
  <2> QED BY <2>2, <2>3
<1>8. Is(kept)
  <2> HIDE DEF Is
  <2> QED BY <1>7
<1>9. kept[0] = start /\ \A i \in 1..n : kept[i] = Next1(i, kept[i - 1])
  <2> DEFINE body == [i \in 0..n |-> IF i = 0 THEN start ELSE Next1(i, kept[i - 1])]
  <2>1. kept = body
    BY <1>8
  <2> HIDE DEF kept
  <2>2. body[0] = start /\ \A i \in 1..n : body[i] = Next1(i, kept[i - 1])
    BY <1>1
  <2> HIDE DEF body
  <2> QED BY <2>1, <2>2
<1>10. kept = [i \in 0..n |-> kept[i]]
  BY <1>8
<1> HIDE DEF kept
<1>11. \A i \in 0..n : kept[i] \in A
  BY <1>1, <1>2, <1>9, AlongRecursion
<1>12. kept \in [0..n -> A]
  BY <1>10, <1>11
<1> QED BY <1>3, <1>9, <1>12 DEF n, A, start, Next1, RecordRuns

(* The hits of the queries so far. *)
LEMMA HitsTyped ==
  ASSUME NEW Q \in Seq(Seq(Keys))
  PROVE  Hits(Q) \subseteq Pairs /\ \A p \in Hits(Q) : p[1] \in 1..Len(Q) /\ p[2] \in 1..Len(Q[p[1]])
<1>1. DOMAIN Q = 1..Len(Q) /\ Len(Q) \in Nat
  OBVIOUS
<1>2. ASSUME NEW n \in 1..Len(Q)
      PROVE  Q[n] \in Seq(Keys) /\ DOMAIN Q[n] = 1..Len(Q[n]) /\ Len(Q[n]) \in Nat
  <2>1. Q[n] \in Seq(Keys)
    OBVIOUS
  <2> QED BY <2>1
<1>3. ASSUME NEW p \in Hits(Q)
      PROVE  p \in Pairs /\ p[1] \in 1..Len(Q) /\ p[2] \in 1..Len(Q[p[1]])
  <2>1. PICK n \in 1..Len(Q) : p \in {<<n, m>> : m \in DOMAIN Q[n]}
    BY <1>1 DEF Hits
  <2>2. PICK m \in 1..Len(Q[n]) : p = <<n, m>>
    BY <1>2, <2>1
  <2>3. n \in Nat /\ m \in Nat
    BY <1>1, <1>2
  <2>4. p[1] = n /\ p[2] = m
    BY <2>2
  <2> QED BY <2>2, <2>3, <2>4 DEF Pairs
<1> QED BY <1>3

(* The hits of one more query. *)
LEMMA HitsAppend ==
  ASSUME NEW Q \in Seq(Seq(Keys)), NEW hits \in Seq(Keys)
  PROVE  Hits(Append(Q, hits)) = Hits(Q) \cup {<<Len(Q) + 1, m>> : m \in 1..Len(hits)}
<1> DEFINE L == Append(Q, hits)
           n == Len(Q) + 1
<1>1. /\ Len(Q) \in Nat /\ DOMAIN Q = 1..Len(Q) /\ DOMAIN L = 1..n /\ L[n] = hits
      /\ (\A i \in 1..Len(Q) : L[i] = Q[i]) /\ DOMAIN hits = 1..Len(hits)
  OBVIOUS
<1>2. 1..n = 1..Len(Q) \cup {n}
  BY <1>1
<1> HIDE DEF L, n
<1>3. Hits(L) = UNION {{<<i, m>> : m \in DOMAIN L[i]} : i \in 1..Len(Q) \cup {n}}
  BY <1>1, <1>2 DEF Hits
<1>4. ASSUME NEW p \in Hits(L) PROVE p \in Hits(Q) \cup {<<n, m>> : m \in 1..Len(hits)}
  <2>1. PICK i \in 1..Len(Q) \cup {n} : p \in {<<i, m>> : m \in DOMAIN L[i]}
    BY <1>3
  <2>2. CASE i = n
    BY <1>1, <2>1, <2>2
  <2>3. CASE i \in 1..Len(Q)
    <3>1. p \in {<<i, m>> : m \in DOMAIN Q[i]} /\ i \in DOMAIN Q
      BY <1>1, <2>1, <2>3
    <3> QED BY <3>1 DEF Hits
  <2> QED BY <2>2, <2>3
<1>5. ASSUME NEW p \in Hits(Q) PROVE p \in Hits(L)
  <2>1. PICK i \in 1..Len(Q) : p \in {<<i, m>> : m \in DOMAIN Q[i]}
    BY <1>1 DEF Hits
  <2>2. i \in 1..Len(Q) \cup {n} /\ L[i] = Q[i]
    BY <1>1
  <2> QED BY <1>3, <2>1, <2>2
<1>6. ASSUME NEW m \in 1..Len(hits) PROVE <<n, m>> \in Hits(L)
  <2>1. m \in DOMAIN L[n] /\ n \in 1..Len(Q) \cup {n}
    BY <1>1
  <2> QED BY <1>3, <2>1
<1> QED BY <1>4, <1>5, <1>6 DEF L, n

(* A later query does not change what is remembered of the earlier ones. *)
LEMMA RememberedLater ==
  ASSUME NEW s \in Seq(Entries), NEW Q \in Seq(Seq(Keys)), NEW hits \in Seq(Keys),
         Remembered(s, Hits(Q), Q)
  PROVE  Remembered(s, Hits(Q), Append(Q, hits))
<1> DEFINE L == Append(Q, hits)
<1>1. \A i \in 1..Len(Q) : L[i] = Q[i]
  OBVIOUS
<1> HIDE DEF L
<1>2. \A p \in Hits(Q) : L[p[1]][p[2]] = Q[p[1]][p[2]]
  BY <1>1, HitsTyped
<1>3. Latest(Hits(Q), L) = Latest(Hits(Q), Q)
  BY <1>2 DEF Latest
<1>4. PICK at : Memory(s, at, Hits(Q), Q)
  BY DEF Remembered
<1>5. \A i \in DOMAIN s : at[i] \in Hits(Q)
  <2>1. DOMAIN s = 1..Len(s)
    OBVIOUS
  <2> QED BY <1>4, <2>1 DEF Memory, Latest
<1>6. Memory(s, at, Hits(Q), L)
  <2>1. at \in [1..Len(s) -> Latest(Hits(Q), L)] /\ Remembers(s, at, Latest(Hits(Q), L), Q)
    BY <1>3, <1>4 DEF Memory
  <2>2. \A i \in DOMAIN s : L[at[i][1]][at[i][2]] = Q[at[i][1]][at[i][2]]
    BY <1>2, <1>5
  <2>3. Remembers(s, at, Latest(Hits(Q), L), L)
    <3> DEFINE M == Latest(Hits(Q), L)
    <3> HIDE DEF M
    <3>1. Remembers(s, at, M, Q) => Remembers(s, at, M, L)
      BY <2>2 DEF Remembers
    <3> QED BY <2>1, <3>1 DEF M
  <2> QED BY <2>1, <2>3 DEF Memory
<1> QED BY <1>6 DEF Remembered, L

(* RecordAndDecay. *)
LEMMA QueryRemembered ==
  ASSUME NEW s \in Seq(Entries), NEW Q \in Seq(Seq(Keys)), NEW hits \in Seq(Keys),
         Remembered(s, Hits(Q), Q)
  PROVE  LET L == Append(Q, hits)
             r == RecordHits(s, hits, Len(Q) + 1)
         IN  /\ r \in Seq(Entries) /\ L \in Seq(Seq(Keys)) /\ Len(L) = Len(Q) + 1
             /\ Remembered(r, Hits(L), L)
<1> DEFINE L == Append(Q, hits)
           n == Len(Q) + 1
           H(k) == Hits(Q) \cup {<<n, m>> : m \in 1..k}
<1>1. /\ L \in Seq(Seq(Keys)) /\ Len(L) = n /\ L[n] = hits /\ n \in Nat /\ Len(Q) \in Nat
      /\ Len(hits) \in Nat
  OBVIOUS
<1>2. Remembered(s, Hits(Q), L)
  BY RememberedLater
<1>3. Hits(L) = H(Len(hits))
  BY HitsAppend
<1>4. Hits(Q) \subseteq Pairs /\ \A q \in Hits(Q) : q[1] \in 1..Len(Q)
  BY HitsTyped
<1> HIDE DEF L
<1>5. PICK f \in [0..Len(hits) -> Seq(Entries)] :
        RecordRuns(f, s, hits, n) /\ RecordHits(s, hits, n) = f[Len(hits)]
  BY <1>1, RecordHitsUnfolds
<1> DEFINE S == {k \in 0..Len(hits) : Remembered(f[k], H(k), L)}
<1>6. 0 \in S
  <2>1. H(0) = Hits(Q)
    OBVIOUS
  <2>2. f[0] = s
    BY <1>5 DEF RecordRuns
  <2> HIDE DEF H
  <2> QED BY <1>1, <1>2, <2>1, <2>2
<1>7. ASSUME NEW k \in 1..Len(hits), k - 1 \in S PROVE k \in S
  <2> DEFINE p == <<n, k>>
             G == H(k - 1)
  <2>1. G \cup {p} = H(k)
    <3>1. \A m \in 1..k : m \in 1..(k - 1) \/ m = k
      OBVIOUS
    <3>2. \A m \in 1..(k - 1) : m \in 1..k
      OBVIOUS
    <3>3. k \in 1..k
      OBVIOUS
    <3> QED BY <3>1, <3>2, <3>3
  <2>2. p \in Pairs /\ p[1] = n /\ p[2] = k
    BY <1>1 DEF Pairs
  <2>3. ASSUME NEW q \in G PROVE q \in Pairs /\ Later(p, q)
    <3>1. CASE q \in Hits(Q)
      <4>1. q[1] \in 1..Len(Q) /\ q \in Pairs
        BY <1>4, <3>1
      <4>2. n > q[1]
        BY <1>1, <4>1
      <4> HIDE DEF n
      <4> QED BY <4>1, <4>2 DEF Later
    <3>2. ASSUME NEW m \in 1..(k - 1), q = <<n, m>> PROVE q \in Pairs /\ Later(p, q)
      <4>1. m \in Nat /\ k > m
        OBVIOUS
      <4> HIDE DEF n
      <4> QED BY <1>1, <3>2, <4>1 DEF Pairs, Later
    <3> QED BY <2>3, <3>1, <3>2
  <2>4. KeyOf(p, L) = hits[k] /\ hits[k] \in Keys
    BY <1>1 DEF KeyOf
  <2>5. f[k - 1] \in Seq(Entries) /\ f[k] = RecordHit(f[k - 1], hits[k], n)
    <3>1. k - 1 \in 0..Len(hits)
      BY <1>1
    <3>2. f[k] = RecordHit(f[k - 1], hits[k], n)
      <4> HIDE DEF n
      <4> QED BY <1>5 DEF RecordRuns
    <3>3. f[k - 1] \in Seq(Entries)
      BY <3>1
    <3> QED BY <3>2, <3>3
  <2>6. Remembered(f[k - 1], G, L)
    BY <1>7
  <2> HIDE DEF p, G, H, n
  <2>7. Remembered(RecordHit(f[k - 1], KeyOf(p, L), p[1]), G \cup {p}, L)
    BY <2>2, <2>3, <2>4, <2>5, <2>6, RecordHitRemembers
  <2>8. Remembered(f[k], H(k), L)
    BY <2>1, <2>2, <2>4, <2>5, <2>7
  <2> QED BY <2>8
<1>8. Len(hits) \in S
  <2> HIDE DEF S
  <2> QED BY <1>1, <1>6, <1>7, UpTo
<1>9. f[Len(hits)] \in Seq(Entries)
  BY <1>1
<1> HIDE DEF H
<1> QED BY <1>1, <1>3, <1>5, <1>8, <1>9 DEF L

(* The session store is true to the queries recorded. *)
SessionInv ==
  /\ log \in Seq(Seq(Keys)) /\ session \in Seq(Entries)
  /\ generation = Len(log) /\ Remembered(session, Hits(log), log)

(* Before the first query there is nothing to remember. *)
LEMMA SessionInitOK ==
  ASSUME Init
  PROVE  SessionInv
<1>1. session = <<>> /\ generation = 0 /\ log = <<>>
  BY DEF Init
<1>2. /\ <<>> \in Seq(Seq(Keys)) /\ <<>> \in Seq(Entries) /\ Len(<<>>) = 0
      /\ DOMAIN <<>> = {} /\ 1..0 = {}
  OBVIOUS
<1>3. Hits(<<>>) = {}
  BY <1>2 DEF Hits
<1>4. Latest({}, <<>>) = {}
  BY DEF Latest
<1> DEFINE at == [i \in {} |-> 0]
<1>5. at \in [{} -> {}]
  OBVIOUS
<1> HIDE DEF at
<1>6. Memory(<<>>, at, Hits(<<>>), <<>>)
  BY <1>2, <1>3, <1>4, <1>5 DEF Memory, Remembers
<1>7. 0 <= SessionSize
  BY QueryAssumption DEF QueryAssumption
<1> QED BY <1>1, <1>2, <1>6, <1>7 DEF SessionInv, Remembered

(* What a query records are places of results. *)
LEMMA RankedTyped ==
  ASSUME IInv, NEW c \in Calls, call[c] # Idle, call[c].pc = "rank",
         NEW ranking \in Rankings(call[c].found),
         NEW trimmed \in {ranking, Take(ranking, MaxResults(call[c].ask))},
         NEW ranked \in Scored(trimmed, call[c].ask.min)
  PROVE  [i \in DOMAIN ranked |-> SessionKey(ranked[i])] \in Seq(Keys)
<1> DEFINE s == call[c]
<1>1. CallOK(s, gen) /\ s.ask \in Inputs
  BY CallsKnown
<1>2. Looking(s, gen)
  BY <1>1 DEF CallOK
<1>3. GoodSeq(s, ranking, gen)
  <2>1. /\ IsFiniteSet(s.found) /\ Apart(s.found)
        /\ \A r \in s.found : SoundIn(s, r, gen) /\ (s.expanded => IsWhole(r, gen))
    BY <1>2 DEF Looking
  <2> QED BY <2>1, RankingGood
<1>4. ranking \in Seq(Results)
  BY <1>3 DEF GoodSeq
<1>5. trimmed \in Seq(Results)
  BY <1>1, <1>4, LimitsTyped, TakeDrawn
<1>6. ranked \in Seq(Results)
  BY <1>5, ScoredDrawn
<1>7. DOMAIN ranked = 1..Len(ranked) /\ Len(ranked) \in Nat
  BY <1>6
<1>8. \A i \in 1..Len(ranked) : SessionKey(ranked[i]) \in Keys
  BY <1>6 DEF Keys
<1> QED BY <1>7, <1>8

(* What records no query leaves the session store as it is. *)
LEMMA SessionKept ==
  ASSUME SessionInv, UNCHANGED recorded
  PROVE  SessionInv'
<1> QED BY DEF SessionInv, recorded

(* Rank: one query is recorded, or none. *)
LEMMA SessionRankOK ==
  ASSUME SessionInv, IInv, NEW c \in Calls, call[c] # Idle, Rank(c)
  PROVE  SessionInv'
<1> DEFINE s == call[c]
           Trimmed(r) == IF s.plan = "semantic" THEN Take(r, MaxResults(s.ask)) ELSE r
           Ends(ranked) == \/ UNCHANGED recorded
                           \/ RecordAndDecay([i \in DOMAIN ranked |-> SessionKey(ranked[i])])
<1>1. s.pc = "rank"
  BY DEF Rank
<1>2. PICK ranking \in Rankings(s.found) :
        \E ranked \in Scored(Trimmed(ranking), s.ask.min) : Ends(ranked)
  BY DEF Rank
<1>3. PICK ranked \in Scored(Trimmed(ranking), s.ask.min) : Ends(ranked)
  BY <1>2
<1> DEFINE hits == [i \in DOMAIN ranked |-> SessionKey(ranked[i])]
<1>4. hits \in Seq(Keys)
  <2>1. Trimmed(ranking) \in {ranking, Take(ranking, MaxResults(s.ask))}
    OBVIOUS
  <2> HIDE DEF Trimmed
  <2> QED BY <1>1, <2>1, RankedTyped
<1>5. CASE UNCHANGED recorded
  BY <1>5, SessionKept
<1>6. CASE RecordAndDecay(hits)
  <2>1. /\ generation' = generation + 1 /\ session' = RecordHits(session, hits, generation + 1)
        /\ log' = Append(log, hits)
    BY <1>6 DEF RecordAndDecay
  <2> HIDE DEF hits
  <2>2. /\ session' \in Seq(Entries) /\ log' \in Seq(Seq(Keys)) /\ Len(log') = Len(log) + 1
        /\ Remembered(session', Hits(log'), log')
    BY <1>4, <2>1, QueryRemembered DEF SessionInv
  <2> QED BY <2>1, <2>2 DEF SessionInv
<1> QED BY <1>3, <1>5, <1>6

(* Every step keeps the session store true to the queries recorded. *)
LEMMA SessionStepOK ==
  ASSUME SessionInv, IInv, [Next]_vars
  PROVE  SessionInv'
<1>1. ASSUME NEW c \in Calls, Step(c) PROVE SessionInv'
  <2>1. CASE call[c] # Idle /\ Rank(c)
    BY <2>1, SessionRankOK
  <2>2. CASE ~(call[c] # Idle /\ Rank(c))
    <3>1. UNCHANGED recorded
      BY <1>1, <2>2 DEF Step, Ask, ReadFiles, Fts, Hydrate, EmbedQuery, Embedded, VectorSearch,
         Merge, Expand, AssembleContext
    <3> QED BY <3>1, SessionKept
  <2> QED BY <2>1, <2>2
<1>2. CASE (\E f \in Files : Reindex(f)) \/ EmbedChunks \/ DropStaleVectors
  <2>1. UNCHANGED recorded
    BY <1>2 DEF Reindex, EmbedChunks, DropStaleVectors
  <2> QED BY <2>1, SessionKept
<1>3. CASE UNCHANGED vars
  <2>1. UNCHANGED recorded
    BY <1>3 DEF vars, recorded
  <2> QED BY <2>1, SessionKept
<1> QED BY <1>1, <1>2, <1>3 DEF Next

(* The session store holds the most recently hit places, each with the number*)
(* of the last query that hit it, whatever the interleaving of the calls     *)
(* (session.go: RecordAndDecay; engine.go: recordSession).                   *)
THEOREM SessionRemembers == Spec => []SessionFollowsQueries
<1>1. SessionInv => SessionFollowsQueries
  <2> SUFFICES ASSUME SessionInv PROVE SessionFollowsQueries
    OBVIOUS
  <2>1. PICK at : Memory(session, at, Hits(log), log)
    BY DEF SessionInv, Remembered
  <2>2. DOMAIN session = 1..Len(session)
    BY DEF SessionInv
  <2>3. at \in [DOMAIN session -> Latest(Hits(log), log)]
    BY <2>1, <2>2 DEF Memory
  <2>4. Remembers(session, at, Latest(Hits(log), log), log)
    BY <2>1 DEF Memory
  <2>5. generation = Len(log) /\ Len(session) <= SessionSize
    BY DEF SessionInv, Remembered
  <2> QED BY <2>3, <2>4, <2>5 DEF SessionFollowsQueries
<1>2. Init => SessionInv
  BY SessionInitOK
<1>3. SessionInv /\ IInv /\ [Next]_vars => SessionInv'
  BY SessionStepOK
<1> QED BY <1>1, <1>2, <1>3, QueryInvariant, PTL DEF Spec

------------------------------------------------------------------------------
(* The records of the calls: sequences without repetition, then the recorder *)

(* Items and NoRepeat of Append. *)
LEMMA ItemsAppend ==
  ASSUME NEW S, NEW s \in Seq(S), NEW x \in S
  PROVE  /\ Append(s, x) \in Seq(S)
         /\ Items(Append(s, x)) = Items(s) \cup {x}
         /\ NoRepeat(s) /\ x \notin Items(s) => NoRepeat(Append(s, x))
<1>1. DOMAIN Append(s, x) = 1..(Len(s) + 1) /\ DOMAIN s = 1..Len(s) /\ Len(s) \in Nat
  OBVIOUS
<1>2. /\ \A i \in 1..Len(s) : Append(s, x)[i] = s[i]
      /\ Append(s, x)[Len(s) + 1] = x
  OBVIOUS
<1>3. Items(Append(s, x)) = Items(s) \cup {x}
  BY <1>1, <1>2, Z3 DEF Items
<1>4. ASSUME NoRepeat(s), x \notin Items(s)
      PROVE  NoRepeat(Append(s, x))
  BY <1>1, <1>2, <1>4 DEF NoRepeat, Items
<1> QED BY <1>3, <1>4

(* Items and NoRepeat of Head and Tail. *)
LEMMA ItemsHeadTail ==
  ASSUME NEW S, NEW s \in Seq(S), s # <<>>
  PROVE  /\ Tail(s) \in Seq(S) /\ Head(s) \in S
         /\ Items(s) = Items(Tail(s)) \cup {Head(s)}
         /\ NoRepeat(s) => NoRepeat(Tail(s)) /\ Head(s) \notin Items(Tail(s))
<1>1. /\ Len(s) \in Nat \ {0} /\ DOMAIN s = 1..Len(s)
      /\ Tail(s) \in Seq(S) /\ DOMAIN Tail(s) = 1..(Len(s) - 1) /\ Head(s) = s[1]
  OBVIOUS
<1>2. \A i \in 1..(Len(s) - 1) : Tail(s)[i] = s[i + 1]
  OBVIOUS
<1>3. Items(s) = Items(Tail(s)) \cup {Head(s)}
  <2>1. ASSUME NEW i \in 1..Len(s)
        PROVE  s[i] \in Items(Tail(s)) \cup {Head(s)}
    <3>1. CASE i = 1
      BY <1>1, <3>1
    <3>2. CASE i # 1
      BY <1>1, <1>2, <3>2, i - 1 \in 1..(Len(s) - 1), Tail(s)[i - 1] = s[i] DEF Items
    <3> QED BY <3>1, <3>2
  <2>2. Items(Tail(s)) \cup {Head(s)} \subseteq Items(s)
    BY <1>1, <1>2 DEF Items
  <2> QED BY <1>1, <2>1, <2>2 DEF Items
<1>4. ASSUME NoRepeat(s)
      PROVE  NoRepeat(Tail(s)) /\ Head(s) \notin Items(Tail(s))
  BY <1>1, <1>2, <1>4 DEF NoRepeat, Items
<1> QED BY <1>1, <1>3, <1>4

(* NoRepeat needs to be checked for ordered pairs of indices only. *)
LEMMA DistinctOrdered ==
  ASSUME NEW n \in Nat, NEW u, DOMAIN u = 1..n,
         \A i, j \in 1..n : i < j => u[i] # u[j]
  PROVE  NoRepeat(u)
<1>1. \A i, j \in 1..n : i # j => i < j \/ j < i
  OBVIOUS
<1> QED BY <1>1 DEF NoRepeat

(* Items and NoRepeat of a concatenation. *)
LEMMA ItemsConcat ==
  ASSUME NEW S, NEW s \in Seq(S), NEW t \in Seq(S)
  PROVE  /\ s \o t \in Seq(S)
         /\ Items(s \o t) = Items(s) \cup Items(t)
         /\ NoRepeat(s) /\ NoRepeat(t) /\ Items(s) \cap Items(t) = {}
              => NoRepeat(s \o t)
<1>1. /\ Len(s) \in Nat /\ Len(t) \in Nat /\ DOMAIN s = 1..Len(s) /\ DOMAIN t = 1..Len(t)
      /\ s \o t \in Seq(S) /\ DOMAIN (s \o t) = 1..(Len(s) + Len(t))
  OBVIOUS
<1>2. /\ \A i \in 1..Len(s) : (s \o t)[i] = s[i]
      /\ \A i \in (Len(s) + 1)..(Len(s) + Len(t)) : (s \o t)[i] = t[i - Len(s)]
  OBVIOUS
<1>3. Items(s \o t) = Items(s) \cup Items(t)
  <2>1. ASSUME NEW i \in 1..(Len(s) + Len(t))
        PROVE  (s \o t)[i] \in Items(s) \cup Items(t)
    <3>1. CASE i \in 1..Len(s)
      BY <1>1, <1>2, <3>1 DEF Items
    <3>2. CASE i \notin 1..Len(s)
      BY <1>1, <1>2, <3>2, i - Len(s) \in 1..Len(t) DEF Items
    <3> QED BY <3>1, <3>2
  <2>2. ASSUME NEW j \in 1..Len(t)
        PROVE  t[j] = (s \o t)[j + Len(s)]
    BY <1>1, <1>2
  <2>3. Items(s) \subseteq Items(s \o t)
    BY <1>1, <1>2 DEF Items
  <2>4. Items(t) \subseteq Items(s \o t)
    BY <1>1, <2>2, \A j \in 1..Len(t) : j + Len(s) \in 1..(Len(s) + Len(t)) DEF Items
  <2> QED BY <1>1, <2>1, <2>3, <2>4 DEF Items
<1>4. ASSUME NoRepeat(s), NoRepeat(t), Items(s) \cap Items(t) = {}
      PROVE  NoRepeat(s \o t)
  <2> DEFINE u == s \o t
             D == 1..(Len(s) + Len(t))
  <2> SUFFICES \A i, j \in D : i < j => u[i] # u[j]
    <3>1. Len(s) + Len(t) \in Nat /\ DOMAIN u = 1..(Len(s) + Len(t))
      BY <1>1
    <3> QED BY <3>1, DistinctOrdered
  <2> SUFFICES ASSUME NEW i \in D, NEW j \in D, i < j PROVE u[i] # u[j]
    OBVIOUS
  <2>1. CASE j \in 1..Len(s)
    BY <1>1, <1>2, <1>4, <2>1 DEF NoRepeat
  <2>2. CASE i \notin 1..Len(s)
    BY <1>1, <1>2, <1>4, <2>2, i - Len(s) \in 1..Len(t), j - Len(s) \in 1..Len(t)
       DEF NoRepeat
  <2>3. CASE i \in 1..Len(s) /\ j \notin 1..Len(s)
    <3>1. (s \o t)[i] \in Items(s)
      BY <1>1, <1>2, <2>3 DEF Items
    <3>2. (s \o t)[j] \in Items(t)
      BY <1>1, <1>2, <2>3, j - Len(s) \in 1..Len(t) DEF Items
    <3> QED BY <1>4, <3>1, <3>2
  <2> QED BY <2>1, <2>2, <2>3
<1> QED BY <1>1, <1>3, <1>4

------------------------------------------------------------------------------
(* The recorder's types, and where its records are: a call that is handled has none. *)
RecorderInv == RecorderTypeOK /\ RecordsConserved

(* A recorder that has just started holds no record. *)
LEMMA RecorderInitInv == RecorderInit => RecorderInv
  BY DEF RecorderInit, RecorderInv, RecorderTypeOK, RecordsConserved, Held, Items,
     NoRepeat

(* Record: the record of a call that was handled, hence is nowhere yet. *)
LEMMA RecorderRecordInv ==
  ASSUME RecorderInv, NEW c \in ToolCalls, Record(c) PROVE RecorderInv'
<1>1. c \notin Held
  BY DEF RecorderInv, RecordsConserved, Record
<1>2. /\ ch \in Seq(ToolCalls)
      /\ Append(ch, c) \in Seq(ToolCalls)
  BY DEF RecorderInv, RecorderTypeOK
<1>6. RecorderTypeOK'
  BY <1>2 DEF RecorderInv, RecorderTypeOK, Record
<1>3. {d \in ToolCalls : handler[d] = "returned"}'
        = {d \in ToolCalls : handler[d] = "returned"} \cup {c}
  BY DEF RecorderInv, RecorderTypeOK, Record
<1>4. CASE Len(ch) < Cap
  <2>1. /\ Items(ch') = Items(ch) \cup {c}
        /\ NoRepeat(ch')
    <3>1. ch' = Append(ch, c) /\ NoRepeat(ch) /\ c \notin Items(ch)
      BY <1>1, <1>4 DEF RecorderInv, RecordsConserved, Held, Record
    <3> QED BY <1>2, <3>1, ItemsAppend
  <2> QED BY <1>1, <1>3, <1>4, <1>6, <2>1
            DEF RecorderInv, RecordsConserved, Held, Record
<1>5. CASE ~(Len(ch) < Cap)
  BY <1>1, <1>3, <1>5, <1>6 DEF RecorderInv, RecordsConserved, Held, Record
<1> QED BY <1>4, <1>5

(* Receive and Drain: a record moves from the channel to the batch. *)
LEMMA RecorderReceiveInv ==
  ASSUME RecorderInv, Receive \/ Drain PROVE RecorderInv'
<1>1. ch # <<>> /\ batch' = Append(batch, Head(ch)) /\ ch' = Tail(ch)
  BY DEF Receive, Drain
<1>2. UNCHANGED <<handler, daemon, stored, dropped, failed>>
  BY DEF Receive, Drain, history
<1>3. run' \in {"select", "flush", "drain", "lastFlush", "done"}
  BY DEF Receive, Drain, RecorderInv, RecorderTypeOK
<1>4. /\ ch' \in Seq(ToolCalls) /\ Head(ch) \in ToolCalls
      /\ Items(ch) = Items(ch') \cup {Head(ch)}
      /\ NoRepeat(ch') /\ Head(ch) \notin Items(ch')
  BY <1>1, ItemsHeadTail DEF RecorderInv, RecorderTypeOK, RecordsConserved
<1>5. Head(ch) \notin Items(batch)
  BY <1>4 DEF RecorderInv, RecordsConserved
<1>6. /\ batch' \in Seq(ToolCalls)
      /\ Items(batch') = Items(batch) \cup {Head(ch)}
      /\ NoRepeat(batch')
  BY <1>1, <1>4, <1>5, ItemsAppend DEF RecorderInv, RecorderTypeOK, RecordsConserved
<1>7. RecorderTypeOK'
  BY <1>2, <1>3, <1>4, <1>6 DEF RecorderInv, RecorderTypeOK
<1>8. RecordsConserved'
  BY <1>2, <1>4, <1>6 DEF RecorderInv, RecordsConserved, Held
<1> QED BY <1>7, <1>8 DEF RecorderInv

(* Flush and LastFlush: the batch is written as a whole or fails as a whole. *)
LEMMA RecorderFlushInv ==
  ASSUME RecorderInv, Flush \/ LastFlush PROVE RecorderInv'
<1>1. /\ batch' = <<>> /\ UNCHANGED <<handler, ch, daemon, dropped>>
      /\ run' \in {"select", "flush", "drain", "lastFlush", "done"}
      /\ \E ok \in BOOLEAN : Write(ok)
  BY DEF Flush, LastFlush
<1>2. Items(batch') = {} /\ NoRepeat(batch') /\ batch' \in Seq(ToolCalls)
  BY <1>1 DEF Items, NoRepeat
<1>3. Items(batch) \subseteq ToolCalls
  BY DEF RecorderInv, RecordsConserved, Held
<1>4. CASE Write(TRUE)
  <2>1. stored' = stored \o batch /\ UNCHANGED failed
    BY <1>4 DEF Write
  <2>2. /\ stored' \in Seq(ToolCalls)
        /\ Items(stored') = Items(stored) \cup Items(batch)
        /\ NoRepeat(stored')
    BY <2>1, ItemsConcat DEF RecorderInv, RecorderTypeOK, RecordsConserved
  <2>3. RecorderTypeOK'
    BY <1>1, <1>2, <2>1, <2>2 DEF RecorderInv, RecorderTypeOK
  <2>4. RecordsConserved'
    BY <1>1, <1>2, <2>1, <2>2 DEF RecorderInv, RecordsConserved, Held
  <2> QED BY <2>3, <2>4 DEF RecorderInv
<1>5. CASE Write(FALSE)
  <2>1. failed' = failed \cup Items(batch) /\ UNCHANGED stored
    BY <1>5 DEF Write
  <2>2. RecorderTypeOK'
    BY <1>1, <1>2, <1>3, <2>1 DEF RecorderInv, RecorderTypeOK
  <2>3. RecordsConserved'
    BY <1>1, <1>2, <2>1 DEF RecorderInv, RecordsConserved, Held
  <2> QED BY <2>2, <2>3 DEF RecorderInv
<1> QED BY <1>1, <1>4, <1>5

(* A call's begin, the ticker, and the steps of the shutdown move no record. *)
LEMMA RecorderOtherInv ==
  ASSUME RecorderInv,
         \/ \E c \in ToolCalls : Handle(c)
         \/ Tick \/ Cancelled \/ Deadline \/ Daemon \/ UNCHANGED recorderVars
  PROVE  RecorderInv'
<1>1. UNCHANGED <<ch, batch, stored, dropped, failed>>
  BY DEF Handle, Tick, Cancelled, Deadline, Daemon, StartReturns,
     SocketShutdown, CloseBackends, Exit, recorderVars, history
<1>2. {d \in ToolCalls : handler[d] = "returned"}' = {d \in ToolCalls : handler[d] = "returned"}
  BY DEF RecorderInv, RecorderTypeOK, Handle, Tick, Cancelled, Deadline, Daemon,
     StartReturns, SocketShutdown, CloseBackends, Exit, recorderVars
<1>3. RecorderTypeOK'
  BY DEF RecorderInv, RecorderTypeOK, Handle, Tick, Cancelled, Deadline, Daemon,
     StartReturns, SocketShutdown, CloseBackends, Exit, recorderVars, history
<1>4. RecordsConserved'
  BY <1>1, <1>2 DEF RecorderInv, RecordsConserved, Held, Items, NoRepeat
<1> QED BY <1>3, <1>4 DEF RecorderInv

(* Every step keeps the invariant. *)
LEMMA RecorderNextInv == RecorderInv /\ [RecorderNext]_recorderVars => RecorderInv'
  BY RecorderRecordInv, RecorderReceiveInv, RecorderFlushInv, RecorderOtherInv DEF RecorderNext,
     Runner

(* The variables of the recorder keep their types. *)
THEOREM TypeCorrect == RecorderSpec => []RecorderTypeOK
<1>1. RecorderSpec => []RecorderInv
  BY RecorderInitInv, RecorderNextInv, PTL DEF RecorderSpec
<1> QED BY <1>1, PTL DEF RecorderInv

(* metrics.go: Record, Run and flush keep every record of a returned call in *)
(* exactly one place.                                                        *)
THEOREM Conserved == RecorderSpec => []RecordsConserved
<1>1. RecorderSpec => []RecorderInv
  BY RecorderInitInv, RecorderNextInv, PTL DEF RecorderSpec
<1> QED BY <1>1, PTL DEF RecorderInv
=============================================================================
