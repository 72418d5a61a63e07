------------------------- MODULE YamlCommandsProofs -------------------------
(* Proofs about YamlCommands: for sections of any number of items, and     *)
(* items of any number of lines, the lines come in the documented order.   *)
(*                                                                         *)
(* FlattenSeq is defined by recursion over a sequence. What it does with a *)
(* sequence of sequences is said here without recursion, by its cells:     *)
(* <<i, j>> is the place of the j-th element of the i-th sequence.         *)
EXTENDS YamlCommands, FiniteSetTheorems, FunctionTheorems, SequenceTheorems, TLAPS

---------------------------------------------------------------------------
(* Induction over the natural numbers, for sets. The theorem of the library*)
(* has an operator as a parameter; this one follows from the fact that the *)
(* natural numbers are well-founded.                                       *)

LEMMA LeastOf ==
  ASSUME NEW T \in SUBSET Nat, T # {}
  PROVE  \E x \in T : \A y \in T : ~(y < x)
<1>1. IsWellFoundedOn(OpToRel(<, Nat), Nat)
  BY NatLessThanWellFounded
<1>2. PICK x \in T : \A y \in T : <<y, x>> \notin OpToRel(<, Nat)
  BY <1>1, WFMin, Zenon
<1> QED BY <1>2 DEF OpToRel

LEMMA InductionUpTo ==
  ASSUME NEW G, NEW m \in Nat, 0 \in G, \A n \in 0..(m - 1) : n \in G => n + 1 \in G
  PROVE  0..m \subseteq G
<1> SUFFICES ASSUME NEW n \in 0..m, n \notin G PROVE FALSE
  OBVIOUS
<1> DEFINE T == {k \in 0..m : k \notin G}
<1>1. PICK x \in T : \A y \in T : ~(y < x)
  <2>1. T \in SUBSET Nat /\ T # {}
    OBVIOUS
  <2> HIDE DEF T
  <2> QED BY <2>1, LeastOf
<1>2. x \in 1..m /\ x - 1 \in 0..(m - 1)
  BY <1>1
<1>3. x - 1 \in G
  BY <1>1, <1>2
<1> QED BY <1>1, <1>2, <1>3

---------------------------------------------------------------------------
(* Cells, row by row.                                                      *)

Cells(seqs) == UNION {{<<i, j>> : j \in DOMAIN seqs[i]} : i \in DOMAIN seqs}
FirstRows(seqs, n) == {c \in Cells(seqs) : c[1] <= n}
Row(i, m) == {<<i, j>> : j \in 1..m}

CellNotAfter(c, d) == c[1] < d[1] \/ (c[1] = d[1] /\ c[2] <= d[2])
Position(seqs, c) == Cardinality({d \in Cells(seqs) : CellNotAfter(d, c)})

LEMMA CellsAre ==
  ASSUME NEW S, NEW seqs \in Seq(Seq(S))
  PROVE  /\ \A i \in 1..Len(seqs) : seqs[i] \in Seq(S) /\ DOMAIN seqs[i] = 1..Len(seqs[i])
                                    /\ Len(seqs[i]) \in Nat
         /\ \A i \in 1..Len(seqs) : \A j \in 1..Len(seqs[i]) : <<i, j>> \in Cells(seqs)
         /\ \A c \in Cells(seqs) : /\ c = <<c[1], c[2]>>
                                  /\ c[1] \in 1..Len(seqs) /\ c[2] \in 1..Len(seqs[c[1]])
<1>1. DOMAIN seqs = 1..Len(seqs)
  OBVIOUS
<1>2. \A i \in 1..Len(seqs) : seqs[i] \in Seq(S)
  OBVIOUS
<1>3. \A i \in 1..Len(seqs) : DOMAIN seqs[i] = 1..Len(seqs[i]) /\ Len(seqs[i]) \in Nat
  BY <1>2
<1>4. ASSUME NEW c \in Cells(seqs)
      PROVE  /\ c = <<c[1], c[2]>>
             /\ c[1] \in 1..Len(seqs) /\ c[2] \in 1..Len(seqs[c[1]])
  <2>1. PICK i \in 1..Len(seqs) : \E j \in 1..Len(seqs[i]) : c = <<i, j>>
    BY <1>1, <1>3 DEF Cells
  <2> QED BY <2>1
<1> QED BY <1>1, <1>2, <1>3, <1>4 DEF Cells

LEMMA RowSize ==
  ASSUME NEW i, NEW m \in Nat
  PROVE  IsFiniteSet(Row(i, m)) /\ Cardinality(Row(i, m)) = m
<1> DEFINE f == [j \in 1..m |-> <<i, j>>]
<1>1. f \in Bijection(1..m, Row(i, m))
  BY DEF Bijection, Injection, Surjection, IsInjective, Row
<1>2. IsFiniteSet(1..m) /\ Cardinality(1..m) = m
  BY FS_Interval
<1> QED BY <1>1, <1>2, FS_Bijection DEF ExistsBijection

LEMMA OneMoreRow ==
  ASSUME NEW S, NEW seqs \in Seq(Seq(S)), NEW n \in 0..(Len(seqs) - 1)
  PROVE  /\ FirstRows(seqs, n + 1) = FirstRows(seqs, n) \cup Row(n + 1, Len(seqs[n + 1]))
         /\ FirstRows(seqs, n) \cap Row(n + 1, Len(seqs[n + 1])) = {}
<1>1. n \in Nat /\ n + 1 \in 1..Len(seqs) /\ Len(seqs) \in Nat
  OBVIOUS
<1>2. ASSUME NEW c \in FirstRows(seqs, n + 1)
      PROVE  c \in FirstRows(seqs, n) \cup Row(n + 1, Len(seqs[n + 1]))
  <2>1. /\ c = <<c[1], c[2]>> /\ c[1] <= n + 1 /\ c \in Cells(seqs)
        /\ c[1] \in 1..Len(seqs) /\ c[2] \in 1..Len(seqs[c[1]])
    BY <1>2, CellsAre DEF FirstRows
  <2>2. CASE c[1] <= n
    BY <2>1, <2>2 DEF FirstRows
  <2>3. CASE c[1] = n + 1
    BY <2>1, <2>3 DEF Row
  <2> QED BY <1>1, <2>1, <2>2, <2>3
<1>3. ASSUME NEW c \in Row(n + 1, Len(seqs[n + 1]))
      PROVE  c \in FirstRows(seqs, n + 1) /\ c \notin FirstRows(seqs, n)
  <2>1. PICK j \in 1..Len(seqs[n + 1]) : c = <<n + 1, j>>
    BY <1>3 DEF Row
  <2>2. c \in Cells(seqs) /\ c[1] = n + 1
    BY <1>1, <2>1, CellsAre
  <2> QED BY <1>1, <2>2 DEF FirstRows
<1>4. FirstRows(seqs, n) \subseteq FirstRows(seqs, n + 1)
  <2> SUFFICES ASSUME NEW c \in FirstRows(seqs, n) PROVE c \in FirstRows(seqs, n + 1)
    OBVIOUS
  <2>1. c[1] \in 1..Len(seqs) /\ c \in Cells(seqs) /\ c[1] <= n
    BY CellsAre DEF FirstRows
  <2> QED BY <1>1, <2>1 DEF FirstRows
<1> QED BY <1>2, <1>3, <1>4

LEMMA RowsAreFinite ==
  ASSUME NEW S, NEW seqs \in Seq(Seq(S))
  PROVE  /\ FirstRows(seqs, 0) = {}
         /\ FirstRows(seqs, Len(seqs)) = Cells(seqs)
         /\ \A n \in 0..Len(seqs) :
              IsFiniteSet(FirstRows(seqs, n)) /\ Cardinality(FirstRows(seqs, n)) \in Nat
         /\ \A n \in 0..(Len(seqs) - 1) :
              Cardinality(FirstRows(seqs, n + 1)) =
                Cardinality(FirstRows(seqs, n)) + Len(seqs[n + 1])
<1>1. Len(seqs) \in Nat
  OBVIOUS
<1>2. FirstRows(seqs, 0) = {} /\ FirstRows(seqs, Len(seqs)) = Cells(seqs)
  <2>1. \A c \in Cells(seqs) : c[1] \in 1..Len(seqs)
    BY CellsAre
  <2> QED BY <1>1, <2>1 DEF FirstRows
<1>3. ASSUME NEW n \in 0..(Len(seqs) - 1), IsFiniteSet(FirstRows(seqs, n))
      PROVE  /\ IsFiniteSet(FirstRows(seqs, n + 1))
             /\ Cardinality(FirstRows(seqs, n + 1)) =
                  Cardinality(FirstRows(seqs, n)) + Len(seqs[n + 1])
  <2> DEFINE A == FirstRows(seqs, n)
             B == Row(n + 1, Len(seqs[n + 1]))
  <2>1. Len(seqs[n + 1]) \in Nat
    BY <1>1, CellsAre
  <2>2. IsFiniteSet(B) /\ Cardinality(B) = Len(seqs[n + 1])
    BY <2>1, RowSize
  <2>3. FirstRows(seqs, n + 1) = A \cup B /\ A \cap B = {}
    BY OneMoreRow
  <2>4. IsFiniteSet(A) /\ Cardinality(A) \in Nat
    BY <1>3, FS_CardinalityType
  <2> HIDE DEF A, B
  <2>5. IsFiniteSet(A \cup B)
        /\ Cardinality(A \cup B) = Cardinality(A) + Cardinality(B) - Cardinality(A \cap B)
    BY <2>2, <2>4, FS_Union
  <2>6. Cardinality(A \cap B) = 0
    BY <2>3, FS_EmptySet
  <2>7. IsFiniteSet(A \cup B) /\ Cardinality(A \cup B) = Cardinality(A) + Len(seqs[n + 1])
    BY <2>1, <2>2, <2>4, <2>5, <2>6
  <2> QED BY <2>3, <2>7 DEF A
<1> DEFINE G == {n \in 0..Len(seqs) : IsFiniteSet(FirstRows(seqs, n))}
<1>4. 0 \in G /\ \A n \in 0..(Len(seqs) - 1) : n \in G => n + 1 \in G
  <2>1. IsFiniteSet(FirstRows(seqs, 0))
    BY <1>2, FS_EmptySet
  <2> QED BY <1>1, <1>3, <2>1
<1> HIDE DEF G
<1>5. 0..Len(seqs) \subseteq G
  BY <1>1, <1>4, InductionUpTo
<1>6. \A n \in 0..Len(seqs) : IsFiniteSet(FirstRows(seqs, n))
  BY <1>5 DEF G
<1>7. \A n \in 0..Len(seqs) : Cardinality(FirstRows(seqs, n)) \in Nat
  BY <1>6, FS_CardinalityType
<1> QED BY <1>1, <1>2, <1>3, <1>6, <1>7

LEMMA RowBefore ==
  ASSUME NEW n \in Nat, NEW i \in 1..n
  PROVE  /\ i - 1 \in 0..n /\ i - 1 \in 0..(n - 1) /\ (i - 1) + 1 = i
         /\ \A k \in 1..n : k < i => k <= i - 1
OBVIOUS

LEMMA PositionInRow ==
  ASSUME NEW S, NEW seqs \in Seq(Seq(S)),
         NEW i \in 1..Len(seqs), NEW j \in 1..Len(seqs[i])
  PROVE  Position(seqs, <<i, j>>) = Cardinality(FirstRows(seqs, i - 1)) + j
<1> DEFINE A == FirstRows(seqs, i - 1)
           B == Row(i, j)
           P == {d \in Cells(seqs) : CellNotAfter(d, <<i, j>>)}
<1>1. Len(seqs) \in Nat /\ i - 1 \in 0..(Len(seqs) - 1) /\ (i - 1) + 1 = i /\ j \in Nat
      /\ Len(seqs[i]) \in Nat
  BY CellsAre
<1>2. ASSUME NEW d \in P PROVE d \in A \cup B
  <2>1. /\ d = <<d[1], d[2]>> /\ d \in Cells(seqs)
        /\ d[1] \in 1..Len(seqs) /\ d[2] \in 1..Len(seqs[d[1]])
    BY CellsAre
  <2>2. d[1] < i \/ (d[1] = i /\ d[2] <= j)
    BY DEF CellNotAfter
  <2>3. CASE d[1] < i
    BY <1>1, <2>1, <2>3 DEF FirstRows
  <2>4. CASE d[1] = i /\ d[2] <= j
    <3>1. d[2] \in 1..j
      BY <1>1, <2>1, <2>4
    <3> QED BY <2>1, <2>4, <3>1 DEF Row
  <2> QED BY <2>2, <2>3, <2>4
<1>3. ASSUME NEW d \in B PROVE d \in P /\ d \notin A
  <2>1. PICK k \in 1..j : d = <<i, k>>
    BY DEF Row
  <2>2. d \in Cells(seqs)
    BY <1>1, <2>1, CellsAre
  <2> QED BY <1>1, <2>1, <2>2 DEF CellNotAfter, FirstRows
<1>4. ASSUME NEW d \in A PROVE d \in P
  BY <1>1, CellsAre DEF FirstRows, CellNotAfter
<1>5. P = A \cup B /\ A \cap B = {}
  BY <1>2, <1>3, <1>4
<1>6. IsFiniteSet(A) /\ Cardinality(A) \in Nat
  BY <1>1, RowsAreFinite
<1>7. IsFiniteSet(B) /\ Cardinality(B) = j
  BY <1>1, RowSize
<1>8. Position(seqs, <<i, j>>) = Cardinality(P)
  BY DEF Position
<1> HIDE DEF A, B, P
<1>9. Cardinality(A \cup B) = Cardinality(A) + Cardinality(B) - Cardinality(A \cap B)
  BY <1>6, <1>7, FS_Union
<1>10. Cardinality(A \cap B) = 0
  BY <1>5, FS_EmptySet
<1>11. Cardinality(P) = Cardinality(A) + j
  BY <1>1, <1>5, <1>6, <1>7, <1>9, <1>10
<1> QED BY <1>8, <1>11 DEF A

LEMMA PositionsIncrease ==
  ASSUME NEW S, NEW seqs \in Seq(Seq(S)), NEW c \in Cells(seqs), NEW d \in Cells(seqs)
  PROVE  /\ Position(seqs, c) \in Nat /\ Position(seqs, d) \in Nat
         /\ CellNotAfter(c, d) /\ c # d => Position(seqs, c) < Position(seqs, d)
         /\ CellNotAfter(c, d) \/ CellNotAfter(d, c)
<1>1. /\ c = <<c[1], c[2]>> /\ c[1] \in 1..Len(seqs) /\ c[2] \in 1..Len(seqs[c[1]])
      /\ d = <<d[1], d[2]>> /\ d[1] \in 1..Len(seqs) /\ d[2] \in 1..Len(seqs[d[1]])
      /\ Len(seqs) \in Nat /\ Len(seqs[c[1]]) \in Nat /\ Len(seqs[d[1]]) \in Nat
  BY CellsAre
<1> DEFINE a == Cardinality(FirstRows(seqs, c[1] - 1))
           b == Cardinality(FirstRows(seqs, d[1] - 1))
           e == Cardinality(FirstRows(seqs, c[1]))
<1>2. Position(seqs, c) = a + c[2] /\ Position(seqs, d) = b + d[2]
  BY <1>1, PositionInRow
<1>3. a \in Nat /\ b \in Nat /\ e = a + Len(seqs[c[1]])
  <2>1. /\ c[1] - 1 \in 0..(Len(seqs) - 1) /\ (c[1] - 1) + 1 = c[1]
        /\ d[1] - 1 \in 0..Len(seqs) /\ c[1] - 1 \in 0..Len(seqs)
    BY <1>1, RowBefore
  <2> QED BY <2>1, RowsAreFinite
<1>4. ASSUME c[1] < d[1] PROVE e <= b
  <2>1. c[1] <= d[1] - 1 /\ d[1] - 1 \in 0..Len(seqs)
    BY <1>1, <1>4, RowBefore
  <2>2. IsFiniteSet(FirstRows(seqs, d[1] - 1))
    BY <2>1, RowsAreFinite
  <2>3. FirstRows(seqs, c[1]) \subseteq FirstRows(seqs, d[1] - 1)
    <3> SUFFICES ASSUME NEW x \in FirstRows(seqs, c[1]) PROVE x \in FirstRows(seqs, d[1] - 1)
      OBVIOUS
    <3>1. x \in Cells(seqs) /\ x[1] \in 1..Len(seqs) /\ x[1] <= c[1]
      BY CellsAre DEF FirstRows
    <3>2. x[1] <= d[1] - 1
      BY <1>1, <2>1, <3>1, SMTT(30)
    <3> QED BY <3>1, <3>2 DEF FirstRows
  <2> QED BY <2>2, <2>3, FS_Subset
<1> HIDE DEF a, b, e
<1>5. ASSUME CellNotAfter(c, d), c # d
      PROVE  Position(seqs, c) < Position(seqs, d)
  <2>1. CASE c[1] < d[1]
    BY <1>1, <1>2, <1>3, <1>4, <2>1, SMTT(30)
  <2>2. CASE c[1] = d[1] /\ c[2] <= d[2]
    <3>1. c[2] # d[2]
      BY <1>1, <1>5, <2>2
    <3>2. a = b
      BY <2>2 DEF a, b
    <3> QED BY <1>1, <1>2, <1>3, <2>2, <3>1, <3>2, SMTT(30)
  <2> QED BY <1>5, <2>1, <2>2 DEF CellNotAfter
<1>6. Position(seqs, c) \in Nat /\ Position(seqs, d) \in Nat
  BY <1>1, <1>2, <1>3, SMTT(30)
<1>7. CellNotAfter(c, d) \/ CellNotAfter(d, c)
  BY <1>1 DEF CellNotAfter
<1> QED BY <1>5, <1>6, <1>7

---------------------------------------------------------------------------
(* FlattenSeq: the function that it defines by recursion exists, and what  *)
(* it says of the first n sequences.                                       *)

Joins(seqs, f) ==
  f = [i \in 1..Len(seqs) |-> IF i = 1 THEN seqs[i] ELSE f[i - 1] \o seqs[i]]

LEMMA JoinExists ==
  ASSUME NEW S, NEW seqs \in Seq(Seq(S))
  PROVE  \E f : Joins(seqs, f)
<1> DEFINE n == Len(seqs)
           JoinsFirst(f, m) ==
             \A i \in 1..m : f[i] = IF i = 1 THEN seqs[i] ELSE f[i - 1] \o seqs[i]
           G == {m \in 0..n : \E f : /\ DOMAIN f = 1..n /\ f = [i \in 1..n |-> f[i]]
                                    /\ JoinsFirst(f, m)}
<1>1. n \in Nat
  OBVIOUS
<1>2. 0 \in G
  <2>1. /\ DOMAIN [i \in 1..n |-> seqs[i]] = 1..n
        /\ [i \in 1..n |-> seqs[i]] = [i \in 1..n |-> [k \in 1..n |-> seqs[k]][i]]
        /\ JoinsFirst([i \in 1..n |-> seqs[i]], 0)
    OBVIOUS
  <2> QED BY <1>1, <2>1
<1>3. ASSUME NEW m \in 0..(n - 1), m \in G PROVE m + 1 \in G
  <2>1. PICK f : DOMAIN f = 1..n /\ f = [i \in 1..n |-> f[i]] /\ JoinsFirst(f, m)
    BY <1>3
  <2> DEFINE g == [i \in 1..n |->
                     IF i # m + 1 THEN f[i]
                     ELSE IF i = 1 THEN seqs[i] ELSE f[i - 1] \o seqs[i]]
  <2>2. DOMAIN g = 1..n /\ g = [i \in 1..n |-> g[i]]
    OBVIOUS
  <2>3. \A i \in 1..n : g[i] = IF i # m + 1 THEN f[i]
                               ELSE IF i = 1 THEN seqs[i] ELSE f[i - 1] \o seqs[i]
    OBVIOUS
  <2> HIDE DEF g
  <2>4. ASSUME NEW i \in 1..(m + 1)
        PROVE  g[i] = IF i = 1 THEN seqs[i] ELSE g[i - 1] \o seqs[i]
    <3>1. i \in 1..n /\ (i # 1 => i - 1 \in 1..n /\ i - 1 # m + 1)
      BY <1>1
    <3>2. i # 1 => g[i - 1] = f[i - 1]
      BY <2>3, <3>1
    <3>3. CASE i = m + 1
      BY <2>3, <3>1, <3>2, <3>3
    <3>4. CASE i # m + 1
      <4>1. i \in 1..m
        BY <1>1, <3>4
      <4> QED BY <2>1, <2>3, <3>1, <3>2, <3>4, <4>1
    <3> QED BY <3>3, <3>4
  <2>5. m + 1 \in 0..n /\ JoinsFirst(g, m + 1)
    BY <1>1, <2>4
  <2> QED BY <2>2, <2>5
<1> HIDE DEF G
<1>4. n \in G
  <2>1. 0..n \subseteq G
    BY <1>1, <1>2, <1>3, InductionUpTo
  <2> QED BY <1>1, <2>1
<1>5. PICK f : DOMAIN f = 1..n /\ f = [i \in 1..n |-> f[i]] /\ JoinsFirst(f, n)
  BY <1>4 DEF G
<1>6. Joins(seqs, f)
  BY <1>5 DEF Joins
<1> QED BY <1>6

LEMMA FlattenIsJoin ==
  ASSUME NEW S, NEW seqs \in Seq(Seq(S)), seqs # <<>>
  PROVE  \E f : Joins(seqs, f) /\ Seqs!FlattenSeq(seqs) = f[Len(seqs)]
<1> DEFINE flatten == CHOOSE f :
             f = [i \in 1..Len(seqs) |-> IF i = 1 THEN seqs[i] ELSE f[i - 1] \o seqs[i]]
<1>1. Len(seqs) # 0
  OBVIOUS
<1>2. Seqs!FlattenSeq(seqs) = flatten[Len(seqs)]
  BY <1>1 DEF Seqs!FlattenSeq
<1>3. flatten = [i \in 1..Len(seqs) |-> IF i = 1 THEN seqs[i] ELSE flatten[i - 1] \o seqs[i]]
  BY JoinExists DEF Joins
<1> HIDE DEF flatten
<1>4. Joins(seqs, flatten)
  BY <1>3 DEF Joins
<1> QED BY <1>2, <1>4

(* A sequence that holds, in their order, the elements of the cells of seqs*)
(* in the first n rows, each at its position.                              *)
HoldsRows(seqs, n, list) ==
  /\ Len(list) = Cardinality(FirstRows(seqs, n))
  /\ \A c \in FirstRows(seqs, n) : /\ Position(seqs, c) \in 1..Len(list)
                                   /\ list[Position(seqs, c)] = seqs[c[1]][c[2]]
  /\ \A k \in 1..Len(list) : \E c \in FirstRows(seqs, n) : Position(seqs, c) = k

LEMMA RowAppended ==
  ASSUME NEW S, NEW seqs \in Seq(Seq(S)), NEW n \in 0..(Len(seqs) - 1),
         NEW list \in Seq(S), HoldsRows(seqs, n, list)
  PROVE  /\ list \o seqs[n + 1] \in Seq(S)
         /\ HoldsRows(seqs, n + 1, list \o seqs[n + 1])
<1> DEFINE row == seqs[n + 1]
           new == list \o row
<1>1. n + 1 \in 1..Len(seqs) /\ (n + 1) - 1 = n /\ n \in Nat /\ Len(seqs) \in Nat
  OBVIOUS
<1>2. row \in Seq(S) /\ Len(row) \in Nat /\ Len(list) \in Nat
  BY <1>1, CellsAre
<1>3. FirstRows(seqs, n + 1) = FirstRows(seqs, n) \cup Row(n + 1, Len(row))
  BY OneMoreRow
<1>4. /\ Cardinality(FirstRows(seqs, n)) = Len(list)
      /\ Cardinality(FirstRows(seqs, n + 1)) = Len(list) + Len(row)
  <2>1. Len(list) = Cardinality(FirstRows(seqs, n))
    BY DEF HoldsRows
  <2> QED BY <2>1, RowsAreFinite
<1>5. \A j \in 1..Len(row) : Position(seqs, <<n + 1, j>>) = Len(list) + j
  <2> SUFFICES ASSUME NEW j \in 1..Len(row) PROVE Position(seqs, <<n + 1, j>>) = Len(list) + j
    OBVIOUS
  <2>1. Position(seqs, <<n + 1, j>>) = Cardinality(FirstRows(seqs, (n + 1) - 1)) + j
    BY <1>1, PositionInRow
  <2> QED BY <1>1, <1>4, <2>1
<1>6. /\ new \in Seq(S) /\ Len(new) = Len(list) + Len(row)
      /\ \A i \in 1..Len(list) : new[i] = list[i]
      /\ \A j \in 1..Len(row) : new[Len(list) + j] = row[j]
  <2> HIDE DEF row
  <2>1. /\ new \in Seq(S) /\ Len(new) = Len(list) + Len(row)
        /\ \A i \in 1..(Len(list) + Len(row)) :
             new[i] = IF i <= Len(list) THEN list[i] ELSE row[i - Len(list)]
    BY <1>2, ConcatProperties
  <2> HIDE DEF new
  <2>2. ASSUME NEW i \in 1..Len(list) PROVE new[i] = list[i]
    <3>1. i \in 1..(Len(list) + Len(row)) /\ i <= Len(list)
      BY <1>2
    <3> QED BY <2>1, <3>1
  <2>3. ASSUME NEW j \in 1..Len(row) PROVE new[Len(list) + j] = row[j]
    <3>1. /\ Len(list) + j \in 1..(Len(list) + Len(row)) /\ ~(Len(list) + j <= Len(list))
          /\ (Len(list) + j) - Len(list) = j
      BY <1>2
    <3> QED BY <2>1, <3>1
  <2> QED BY <2>1, <2>2, <2>3
<1> HIDE DEF new
<1>7. ASSUME NEW c \in FirstRows(seqs, n + 1)
      PROVE  Position(seqs, c) \in 1..Len(new) /\ new[Position(seqs, c)] = seqs[c[1]][c[2]]
  <2>1. CASE c \in FirstRows(seqs, n)
    <3>1. Position(seqs, c) \in 1..Len(list) /\ list[Position(seqs, c)] = seqs[c[1]][c[2]]
      BY <2>1 DEF HoldsRows
    <3> QED BY <1>2, <1>6, <3>1, SMTT(30)
  <2>2. CASE c \in Row(n + 1, Len(row))
    <3>1. PICK j \in 1..Len(row) : c = <<n + 1, j>>
      BY <2>2 DEF Row
    <3>2. Position(seqs, c) = Len(list) + j /\ seqs[c[1]][c[2]] = row[j]
      BY <1>5, <3>1
    <3>3. Len(list) + j \in 1..Len(new)
      BY <1>2, <1>6
    <3> QED BY <1>6, <3>2, <3>3
  <2> QED BY <1>3, <2>1, <2>2
<1>8. ASSUME NEW k \in 1..Len(new)
      PROVE  \E c \in FirstRows(seqs, n + 1) : Position(seqs, c) = k
  <2>1. CASE k \in 1..Len(list)
    <3>1. PICK c \in FirstRows(seqs, n) : Position(seqs, c) = k
      BY <2>1 DEF HoldsRows
    <3> QED BY <1>3, <3>1
  <2>2. CASE k \notin 1..Len(list)
    <3>1. k - Len(list) \in 1..Len(row) /\ Len(list) + (k - Len(list)) = k
      BY <1>2, <1>6, <2>2, SMTT(30)
    <3>2. <<n + 1, k - Len(list)>> \in FirstRows(seqs, n + 1)
      BY <1>3, <3>1 DEF Row
    <3>3. Position(seqs, <<n + 1, k - Len(list)>>) = k
      BY <1>5, <3>1
    <3> QED BY <3>2, <3>3
  <2> QED BY <2>1, <2>2
<1>9. Len(new) = Cardinality(FirstRows(seqs, n + 1))
  BY <1>4, <1>6
<1>10. HoldsRows(seqs, n + 1, new)
  BY <1>7, <1>8, <1>9 DEF HoldsRows
<1> QED BY <1>6, <1>10 DEF new

(* FlattenSeq, without recursion.                                          *)
LEMMA FlattenHoldsRows ==
  ASSUME NEW S, NEW seqs \in Seq(Seq(S))
  PROVE  /\ Seqs!FlattenSeq(seqs) \in Seq(S)
         /\ HoldsRows(seqs, Len(seqs), Seqs!FlattenSeq(seqs))
<1>1. Len(seqs) \in Nat
  OBVIOUS
<1>2. <<>> \in Seq(S) /\ HoldsRows(seqs, 0, <<>>)
  BY RowsAreFinite, FS_EmptySet DEF HoldsRows
<1>3. CASE seqs = <<>>
  <2>1. Seqs!FlattenSeq(seqs) = <<>> /\ Len(seqs) = 0
    BY <1>3 DEF Seqs!FlattenSeq
  <2> QED BY <1>2, <2>1
<1>4. CASE seqs # <<>>
  <2>1. PICK f : Joins(seqs, f) /\ Seqs!FlattenSeq(seqs) = f[Len(seqs)]
    BY <1>4, FlattenIsJoin
  <2>2. \A i \in 1..Len(seqs) : f[i] = IF i = 1 THEN seqs[i] ELSE f[i - 1] \o seqs[i]
    BY <2>1 DEF Joins
  <2> DEFINE So(n) == IF n = 0 THEN <<>> ELSE f[n]
             G == {n \in 0..Len(seqs) : So(n) \in Seq(S) /\ HoldsRows(seqs, n, So(n))}
  <2>3. 0 \in G
    BY <1>1, <1>2
  <2>4. ASSUME NEW n \in 0..(Len(seqs) - 1), n \in G PROVE n + 1 \in G
    <3>1. n \in Nat /\ n + 1 \in 1..Len(seqs) /\ (n + 1) - 1 = n
      BY <1>1
    <3>2. seqs[n + 1] \in Seq(S)
      BY <3>1
    <3>3. So(n + 1) = So(n) \o seqs[n + 1]
      <4>1. CASE n = 0
        BY <2>2, <3>1, <3>2, <4>1, ConcatEmptySeq
      <4>2. CASE n # 0
        <5>1. n + 1 # 1 /\ n + 1 # 0
          BY <3>1, <4>2
        <5>2. f[n + 1] = f[(n + 1) - 1] \o seqs[n + 1]
          BY <2>2, <3>1, <5>1
        <5> QED BY <3>1, <4>2, <5>1, <5>2
      <4> QED BY <4>1, <4>2
    <3>4. So(n) \in Seq(S) /\ HoldsRows(seqs, n, So(n))
      BY <2>4
    <3> HIDE DEF So
    <3>5. So(n + 1) \in Seq(S) /\ HoldsRows(seqs, n + 1, So(n + 1))
      BY <3>3, <3>4, RowAppended
    <3>6. n + 1 \in 0..Len(seqs)
      BY <1>1
    <3> QED BY <3>5, <3>6
  <2> HIDE DEF G
  <2>5. Len(seqs) \in G
    <3>1. 0..Len(seqs) \subseteq G
      BY <1>1, <2>3, <2>4, InductionUpTo
    <3> QED BY <1>1, <3>1
  <2>6. So(Len(seqs)) \in Seq(S) /\ HoldsRows(seqs, Len(seqs), So(Len(seqs)))
    BY <2>5 DEF G
  <2>7. So(Len(seqs)) = Seqs!FlattenSeq(seqs)
    BY <1>4, <2>1
  <2> HIDE DEF So
  <2> QED BY <2>6, <2>7
<1> QED BY <1>3, <1>4

LEMMA FlattenCells ==
  ASSUME NEW S, NEW seqs \in Seq(Seq(S))
  PROVE  LET list == Seqs!FlattenSeq(seqs) IN
         /\ list \in Seq(S)
         /\ IsFiniteSet(Cells(seqs)) /\ Len(list) = Cardinality(Cells(seqs))
         /\ \A c \in Cells(seqs) : /\ Position(seqs, c) \in 1..Len(list)
                                   /\ list[Position(seqs, c)] = seqs[c[1]][c[2]]
         /\ \A k \in 1..Len(list) : \E c \in Cells(seqs) : Position(seqs, c) = k
<1>1. FirstRows(seqs, Len(seqs)) = Cells(seqs) /\ IsFiniteSet(FirstRows(seqs, Len(seqs)))
  <2>1. Len(seqs) \in 0..Len(seqs)
    OBVIOUS
  <2> QED BY <2>1, RowsAreFinite
<1> QED BY <1>1, FlattenHoldsRows DEF HoldsRows

---------------------------------------------------------------------------
(* A text is flattened twice: its sections to items, these to lines.       *)

AreSections(sections, S) ==
  /\ DOMAIN sections \subseteq Fields
  /\ \A f \in DOMAIN sections : sections[f] \in Seq(Seq(S))

SectionsInOrder(sections) ==
  [i \in DOMAIN InOrderFields |-> ItemsOf(sections, InOrderFields[i])]

(* Where the items of the text have the line that the text has at p.       *)
CellOf(sections, p) ==
  <<Position(SectionsInOrder(sections), <<Order[p[1]], p[2]>>), p[3]>>

LEMMA FieldsAreOrdered ==
  /\ DOMAIN InOrderFields = 1..6 /\ Len(InOrderFields) = 6
  /\ \A i \in 1..6 : InOrderFields[i] \in Fields /\ Order[InOrderFields[i]] = i
  /\ \A f \in Fields : Order[f] \in 1..6 /\ InOrderFields[Order[f]] = f
<1>1. DOMAIN InOrderFields = 1..6 /\ Len(InOrderFields) = 6
  BY DEF InOrderFields
<1>2. ASSUME NEW i \in 1..6 PROVE InOrderFields[i] \in Fields /\ Order[InOrderFields[i]] = i
  <2>1. i = 1 \/ i = 2 \/ i = 3 \/ i = 4 \/ i = 5 \/ i = 6
    OBVIOUS
  <2>2. Order[InOrderFields[i]] = i
    BY <2>1 DEF InOrderFields, Order
  <2> QED BY <1>1, <2>2 DEF Fields
<1>3. ASSUME NEW f \in Fields PROVE Order[f] \in 1..6 /\ InOrderFields[Order[f]] = f
  <2>1. PICK i \in 1..6 : f = InOrderFields[i]
    BY <1>1 DEF Fields
  <2> QED BY <1>2, <2>1
<1> QED BY <1>1, <1>2, <1>3

LEMMA PlacesAre ==
  ASSUME NEW S, NEW sections, AreSections(sections, S)
  PROVE  /\ \A p \in Places(sections) :
              /\ p = <<p[1], p[2], p[3]>> /\ p[1] \in DOMAIN sections /\ p[1] \in Fields
              /\ p[2] \in DOMAIN sections[p[1]] /\ p[3] \in DOMAIN sections[p[1]][p[2]]
         /\ \A f \in DOMAIN sections : \A i \in DOMAIN sections[f] :
              \A j \in DOMAIN sections[f][i] : <<f, i, j>> \in Places(sections)
<1>1. ASSUME NEW p \in Places(sections)
      PROVE  /\ p = <<p[1], p[2], p[3]>> /\ p[1] \in DOMAIN sections /\ p[1] \in Fields
             /\ p[2] \in DOMAIN sections[p[1]] /\ p[3] \in DOMAIN sections[p[1]][p[2]]
  <2>1. PICK f \in DOMAIN sections :
               \E i \in DOMAIN sections[f] : \E j \in DOMAIN sections[f][i] : p = <<f, i, j>>
    BY DEF Places
  <2> QED BY <2>1 DEF AreSections
<1> QED BY <1>1 DEF Places

LEMMA FunctionIsSequence ==
  ASSUME NEW T, NEW n \in Nat, NEW f \in [1..n -> T]
  PROVE  f \in Seq(T) /\ Len(f) = n
<1>1. f \in Seq(T)
  BY SeqDef
<1> QED BY <1>1, LenProperties

LEMMA ItemsAre ==
  ASSUME NEW S, NEW sections, AreSections(sections, S),
         NEW ordered, ordered = SectionsInOrder(sections)
  PROVE  /\ ordered \in Seq(Seq(Seq(S)))
         /\ Len(ordered) = 6
         /\ \A f \in DOMAIN sections : ordered[Order[f]] = sections[f]
         /\ \A i \in 1..6 : InOrderFields[i] \notin DOMAIN sections => ordered[i] = <<>>
<1>1. ordered = [i \in 1..6 |-> ItemsOf(sections, InOrderFields[i])]
  BY FieldsAreOrdered DEF SectionsInOrder
<1>2. \A i \in 1..6 : /\ InOrderFields[i] \notin DOMAIN sections => ordered[i] = <<>>
                      /\ InOrderFields[i] \in DOMAIN sections =>
                           ordered[i] = sections[InOrderFields[i]]
  BY <1>1 DEF ItemsOf
<1>3. ASSUME NEW i \in 1..6 PROVE ordered[i] \in Seq(Seq(S))
  <2>1. CASE InOrderFields[i] \in DOMAIN sections
    BY <1>2, <2>1 DEF AreSections
  <2>2. CASE InOrderFields[i] \notin DOMAIN sections
    BY <1>2, <2>2, EmptySeq
  <2> QED BY <2>1, <2>2
<1>4. ordered \in Seq(Seq(Seq(S))) /\ Len(ordered) = 6
  <2>1. ordered \in [1..6 -> Seq(Seq(S))]
    BY <1>1, <1>3
  <2> QED BY <2>1, FunctionIsSequence
<1>5. ASSUME NEW f \in DOMAIN sections PROVE ordered[Order[f]] = sections[f]
  <2>1. f \in Fields
    BY DEF AreSections
  <2>2. Order[f] \in 1..6 /\ InOrderFields[Order[f]] = f
    BY <2>1, FieldsAreOrdered
  <2>3. InOrderFields[Order[f]] \in DOMAIN sections =>
          ordered[Order[f]] = sections[InOrderFields[Order[f]]]
    BY <1>2, <2>2
  <2> QED BY <2>2, <2>3
<1> QED BY <1>2, <1>4, <1>5

(* The lines of the text, place by place, are those of its items.          *)
LEMMA CellOfPlace ==
  ASSUME NEW S, NEW sections, AreSections(sections, S)
  PROVE  LET items == CmdsInOrder(sections) IN
         /\ items \in Seq(Seq(S))
         /\ \A p \in Places(sections) :
              /\ CellOf(sections, p) \in Cells(items)
              /\ items[CellOf(sections, p)[1]][CellOf(sections, p)[2]] = LineAt(sections, p)
         /\ \A c \in Cells(items) : \E p \in Places(sections) : CellOf(sections, p) = c
<1> DEFINE ordered == SectionsInOrder(sections)
           items == CmdsInOrder(sections)
<1>1. items = Seqs!FlattenSeq(ordered)
  BY DEF CmdsInOrder, SectionsInOrder
<1> HIDE DEF items
<1>2. /\ ordered \in Seq(Seq(Seq(S))) /\ Len(ordered) = 6
      /\ \A f \in DOMAIN sections : ordered[Order[f]] = sections[f]
      /\ \A i \in 1..6 : InOrderFields[i] \notin DOMAIN sections => ordered[i] = <<>>
  <2> HIDE DEF ordered
  <2>1. ordered = SectionsInOrder(sections)
    BY DEF ordered
  <2> QED BY <2>1, ItemsAre
<1> HIDE DEF ordered
<1>3. /\ items \in Seq(Seq(S))
      /\ \A c \in Cells(ordered) : /\ Position(ordered, c) \in 1..Len(items)
                                   /\ items[Position(ordered, c)] = ordered[c[1]][c[2]]
      /\ \A k \in 1..Len(items) : \E c \in Cells(ordered) : Position(ordered, c) = k
  BY <1>1, <1>2, FlattenCells
<1>4. ASSUME NEW p \in Places(sections)
      PROVE  /\ CellOf(sections, p) \in Cells(items)
             /\ items[CellOf(sections, p)[1]][CellOf(sections, p)[2]] = LineAt(sections, p)
  <2> DEFINE c == <<Order[p[1]], p[2]>>
             k == Position(ordered, c)
  <2>1. /\ p[1] \in DOMAIN sections /\ p[1] \in Fields /\ p[2] \in DOMAIN sections[p[1]]
        /\ p[3] \in DOMAIN sections[p[1]][p[2]]
    BY PlacesAre
  <2>2. Order[p[1]] \in 1..6 /\ ordered[Order[p[1]]] = sections[p[1]]
    BY <1>2, <2>1, FieldsAreOrdered
  <2>3. c \in Cells(ordered)
    <3>1. DOMAIN ordered = 1..6
      BY <1>2
    <3> QED BY <2>1, <2>2, <3>1 DEF Cells
  <2>4. k \in 1..Len(items) /\ items[k] = sections[p[1]][p[2]]
    BY <1>3, <2>2, <2>3
  <2>5. CellOf(sections, p) = <<k, p[3]>>
    BY DEF CellOf, ordered
  <2> HIDE DEF c, k
  <2>6. <<k, p[3]>> \in Cells(items)
    <3>1. DOMAIN items = 1..Len(items)
      BY <1>3
    <3> QED BY <2>1, <2>4, <3>1 DEF Cells
  <2> QED BY <2>4, <2>5, <2>6 DEF LineAt
<1>5. ASSUME NEW d \in Cells(items)
      PROVE  \E p \in Places(sections) : CellOf(sections, p) = d
  <2>1. d = <<d[1], d[2]>> /\ d[1] \in 1..Len(items) /\ d[2] \in 1..Len(items[d[1]])
    BY <1>3, CellsAre
  <2>2. PICK c \in Cells(ordered) : Position(ordered, c) = d[1]
    BY <1>3, <2>1
  <2>3. c = <<c[1], c[2]>> /\ c[1] \in 1..6 /\ c[2] \in 1..Len(ordered[c[1]])
    BY <1>2, CellsAre
  <2> DEFINE f == InOrderFields[c[1]]
             p == <<f, c[2], d[2]>>
  <2>4. f \in Fields /\ Order[f] = c[1]
    BY <2>3, FieldsAreOrdered
  <2>5. f \in DOMAIN sections /\ ordered[c[1]] = sections[f]
    <3>1. ordered[c[1]] # <<>>
      BY <2>3
    <3>2. f \notin DOMAIN sections => ordered[c[1]] = <<>>
      BY <1>2, <2>3
    <3>3. f \in DOMAIN sections => ordered[c[1]] = sections[f]
      BY <1>2, <2>4
    <3> QED BY <3>1, <3>2, <3>3
  <2>6. items[d[1]] = sections[f][c[2]]
    BY <1>3, <2>2, <2>5
  <2>7. c[2] \in DOMAIN sections[f]
    <3>1. c[1] \in 1..Len(ordered)
      BY <1>2, <2>3
    <3>2. ordered[c[1]] \in Seq(Seq(S))
      BY <1>2, <3>1, ElementOfSeq
    <3>3. DOMAIN ordered[c[1]] = 1..Len(ordered[c[1]])
      BY <3>2, LenProperties
    <3> QED BY <2>3, <2>5, <3>3
  <2>8. d[2] \in DOMAIN sections[f][c[2]]
    <3>1. items[d[1]] \in Seq(S)
      BY <1>3, <2>1
    <3> QED BY <2>1, <2>6, <3>1
  <2>9. p \in Places(sections)
    BY <2>5, <2>7, <2>8, PlacesAre
  <2>10. CellOf(sections, p) = d
    BY <2>1, <2>2, <2>3, <2>4 DEF CellOf, ordered
  <2> QED BY <2>9, <2>10
<1> QED BY <1>3, <1>4, <1>5 DEF items

(* The order of the places is the order of the cells.                      *)
LEMMA PlacesAreOrdered ==
  ASSUME NEW S, NEW sections, AreSections(sections, S),
         NEW p \in Places(sections), NEW q \in Places(sections)
  PROVE  /\ NotAfter(p, q) <=> CellNotAfter(CellOf(sections, p), CellOf(sections, q))
         /\ CellOf(sections, p) = CellOf(sections, q) => p = q
<1> DEFINE ordered == SectionsInOrder(sections)
           c == <<Order[p[1]], p[2]>>
           d == <<Order[q[1]], q[2]>>
           j == Position(ordered, c)
           k == Position(ordered, d)
<1>1. /\ ordered \in Seq(Seq(Seq(S))) /\ Len(ordered) = 6
      /\ \A f \in DOMAIN sections : ordered[Order[f]] = sections[f]
  <2> HIDE DEF ordered
  <2>1. ordered = SectionsInOrder(sections)
    BY DEF ordered
  <2> QED BY <2>1, ItemsAre
<1>2. /\ p = <<p[1], p[2], p[3]>> /\ p[1] \in DOMAIN sections /\ p[1] \in Fields
      /\ p[2] \in DOMAIN sections[p[1]] /\ p[3] \in DOMAIN sections[p[1]][p[2]]
      /\ q = <<q[1], q[2], q[3]>> /\ q[1] \in DOMAIN sections /\ q[1] \in Fields
      /\ q[2] \in DOMAIN sections[q[1]] /\ q[3] \in DOMAIN sections[q[1]][q[2]]
  BY PlacesAre
<1>3. /\ Order[p[1]] \in 1..6 /\ ordered[Order[p[1]]] = sections[p[1]]
      /\ Order[q[1]] \in 1..6 /\ ordered[Order[q[1]]] = sections[q[1]]
      /\ Order[p[1]] = Order[q[1]] => p[1] = q[1]
  BY <1>1, <1>2, FieldsAreOrdered
<1>4. /\ sections[p[1]] \in Seq(Seq(S)) /\ sections[q[1]] \in Seq(Seq(S))
      /\ p[2] \in Nat /\ q[2] \in Nat
  <2>1. sections[p[1]] \in Seq(Seq(S)) /\ sections[q[1]] \in Seq(Seq(S))
    BY <1>2 DEF AreSections
  <2> QED BY <1>2, <2>1
<1>5. p[3] \in Nat /\ q[3] \in Nat
  <2>1. sections[p[1]][p[2]] \in Seq(S) /\ sections[q[1]][q[2]] \in Seq(S)
    BY <1>2, <1>4
  <2> QED BY <1>2, <2>1
<1>6. CellOf(sections, p) = <<j, p[3]>> /\ CellOf(sections, q) = <<k, q[3]>>
  BY DEF CellOf
<1>7. c \in Cells(ordered) /\ d \in Cells(ordered)
  <2> HIDE DEF ordered
  <2>1. DOMAIN ordered = 1..6
    BY <1>1
  <2> QED BY <1>2, <1>3, <2>1 DEF Cells
<1> HIDE DEF ordered, c, d
<1>8. /\ j \in Nat /\ k \in Nat
      /\ CellNotAfter(c, d) /\ c # d => j < k
      /\ CellNotAfter(d, c) /\ d # c => k < j
      /\ CellNotAfter(c, d) \/ CellNotAfter(d, c)
  BY <1>1, <1>7, PositionsIncrease
<1>9. c = d => j = k
  OBVIOUS
<1> HIDE DEF j, k
<1>10. /\ c = <<Order[p[1]], p[2]>> /\ d = <<Order[q[1]], q[2]>>
       /\ c[1] = Order[p[1]] /\ c[2] = p[2] /\ d[1] = Order[q[1]] /\ d[2] = q[2]
  BY DEF c, d
<1>11. j < k <=> Order[p[1]] < Order[q[1]] \/ (p[1] = q[1] /\ p[2] < q[2])
  <2>1. CASE Order[p[1]] < Order[q[1]]
    <3>1. CellNotAfter(c, d) /\ c # d
      BY <1>3, <1>10, <2>1 DEF CellNotAfter
    <3> QED BY <1>8, <2>1, <3>1
  <2>2. CASE Order[q[1]] < Order[p[1]]
    <3>1. CellNotAfter(d, c) /\ c # d
      BY <1>3, <1>10, <2>2 DEF CellNotAfter
    <3>2. p[1] # q[1] /\ ~(Order[p[1]] < Order[q[1]])
      BY <1>3, <2>2
    <3> QED BY <1>8, <3>1, <3>2
  <2>3. CASE Order[p[1]] = Order[q[1]]
    <3>1. CASE p[2] < q[2]
      <4>1. CellNotAfter(c, d) /\ c # d
        BY <1>4, <1>10, <2>3, <3>1 DEF CellNotAfter
      <4> QED BY <1>3, <1>8, <2>3, <3>1, <4>1
    <3>2. CASE q[2] < p[2]
      <4>1. CellNotAfter(d, c) /\ c # d
        BY <1>4, <1>10, <2>3, <3>2 DEF CellNotAfter
      <4>2. ~(p[2] < q[2]) /\ ~(Order[p[1]] < Order[q[1]])
        BY <1>3, <1>4, <2>3, <3>2
      <4> QED BY <1>8, <4>1, <4>2
    <3>3. CASE p[2] = q[2]
      <4>1. c = d
        BY <1>10, <2>3, <3>3
      <4>2. ~(p[2] < q[2]) /\ ~(Order[p[1]] < Order[q[1]])
        BY <1>3, <1>4, <2>3, <3>3
      <4> QED BY <1>8, <1>9, <4>1, <4>2
    <3> QED BY <1>4, <3>1, <3>2, <3>3
  <2> QED BY <1>3, <2>1, <2>2, <2>3
<1>12. j = k <=> p[1] = q[1] /\ p[2] = q[2]
  <2>1. ASSUME j = k PROVE c = d
    BY <1>8, <2>1
  <2>2. c = d <=> p[1] = q[1] /\ p[2] = q[2]
    BY <1>3, <1>10
  <2> QED BY <1>9, <2>1, <2>2
<1>13. CellNotAfter(CellOf(sections, p), CellOf(sections, q)) <=>
         j < k \/ (j = k /\ p[3] <= q[3])
  BY <1>6 DEF CellNotAfter
<1>14. CellOf(sections, p) = CellOf(sections, q) => j = k /\ p[3] = q[3]
  BY <1>6
<1>15. NotAfter(p, q) <=> CellNotAfter(CellOf(sections, p), CellOf(sections, q))
  BY <1>11, <1>12, <1>13 DEF NotAfter
<1> QED BY <1>2, <1>12, <1>14, <1>15

LEMMA CellsOfPlaces ==
  ASSUME NEW S, NEW sections, AreSections(sections, S),
         NEW P \in SUBSET Places(sections), NEW C \in SUBSET Cells(CmdsInOrder(sections)),
         \A p \in Places(sections) : p \in P <=> CellOf(sections, p) \in C
  PROVE  Cardinality(P) = Cardinality(C)
<1> DEFINE f == [p \in P |-> CellOf(sections, p)]
<1>1. f \in Injection(P, C)
  BY PlacesAreOrdered DEF Injection, IsInjective
<1>2. \A c \in C : \E p \in P : f[p] = c
  <2> SUFFICES ASSUME NEW c \in C PROVE \E p \in P : f[p] = c
    OBVIOUS
  <2>1. PICK p \in Places(sections) : CellOf(sections, p) = c
    BY CellOfPlace
  <2> QED BY <2>1
<1>3. f \in Bijection(P, C)
  BY <1>1, <1>2 DEF Bijection, Surjection, Injection
<1>4. IsFiniteSet(C)
  <2>1. IsFiniteSet(Cells(CmdsInOrder(sections)))
    BY CellOfPlace, FlattenCells
  <2> QED BY <2>1, FS_Subset
<1> HIDE DEF f
<1>5. ExistsBijection(P, C)
  BY <1>3 DEF ExistsBijection
<1>6. ExistsBijection(C, P)
  BY <1>5, Fun_ExistsBijSymmetric
<1> QED BY <1>4, <1>6, FS_Bijection

(* The lines of a text are those of its sections, all of them, each once,  *)
(* in the order of the sections that the documentation states, and within a*)
(* section in that of its items and their lines: the line at place p is    *)
(* that of number Rank(p), and the numbers increase with the places        *)
(* (get_cmds_in_order, of yaml_cmds_splitter.py).                          *)
THEOREM LinesAreInOrder ==
  ASSUME NEW S, NEW sections, AreSections(sections, S)
  PROVE  /\ Lines(sections) \in Seq(S)
         /\ Len(Lines(sections)) = Cardinality(Places(sections))
         /\ \A p \in Places(sections) :
              /\ Rank(sections, p) \in 1..Len(Lines(sections))
              /\ Lines(sections)[Rank(sections, p)] = LineAt(sections, p)
         /\ \A p, q \in Places(sections) :
              NotAfter(p, q) /\ p # q => Rank(sections, p) < Rank(sections, q)
<1> DEFINE items == CmdsInOrder(sections)
<1>1. items \in Seq(Seq(S))
  BY CellOfPlace
<1>2. Lines(sections) = Seqs!FlattenSeq(items)
  BY DEF Lines
<1>3. \A p \in Places(sections) :
        /\ CellOf(sections, p) \in Cells(items)
        /\ items[CellOf(sections, p)[1]][CellOf(sections, p)[2]] = LineAt(sections, p)
  BY CellOfPlace
<1>4. Cardinality(Places(sections)) = Cardinality(Cells(items))
  <2>1. \A p \in Places(sections) : p \in Places(sections) <=> CellOf(sections, p) \in Cells(items)
    BY <1>3
  <2> QED BY <2>1, CellsOfPlaces
<1>5. ASSUME NEW p \in Places(sections)
      PROVE  Rank(sections, p) = Position(items, CellOf(sections, p))
  <2> DEFINE P == {q \in Places(sections) : NotAfter(q, p)}
             C == {c \in Cells(items) : CellNotAfter(c, CellOf(sections, p))}
  <2>1. \A q \in Places(sections) : q \in P <=> CellOf(sections, q) \in C
    BY <1>3, PlacesAreOrdered
  <2>2. P \in SUBSET Places(sections) /\ C \in SUBSET Cells(items)
    OBVIOUS
  <2>3. Rank(sections, p) = Cardinality(P)
        /\ Position(items, CellOf(sections, p)) = Cardinality(C)
    BY DEF Rank, Position
  <2> HIDE DEF P, C
  <2> QED BY <2>1, <2>2, <2>3, CellsOfPlaces
<1> HIDE DEF items
<1>6. /\ Lines(sections) \in Seq(S)
      /\ Len(Lines(sections)) = Cardinality(Cells(items))
      /\ \A c \in Cells(items) : /\ Position(items, c) \in 1..Len(Lines(sections))
                                 /\ Lines(sections)[Position(items, c)] = items[c[1]][c[2]]
  BY <1>1, <1>2, FlattenCells
<1>7. ASSUME NEW p \in Places(sections), NEW q \in Places(sections), NotAfter(p, q), p # q
      PROVE  Rank(sections, p) < Rank(sections, q)
  <2>1. /\ CellNotAfter(CellOf(sections, p), CellOf(sections, q))
        /\ CellOf(sections, p) # CellOf(sections, q)
    BY <1>7, PlacesAreOrdered
  <2> QED BY <1>1, <1>3, <1>5, <2>1, PositionsIncrease
<1>8. \A p \in Places(sections) :
        /\ Rank(sections, p) \in 1..Len(Lines(sections))
        /\ Lines(sections)[Rank(sections, p)] = LineAt(sections, p)
  BY <1>3, <1>5, <1>6
<1> QED BY <1>4, <1>6, <1>7, <1>8
=============================================================================
