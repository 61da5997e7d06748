--------------------------- MODULE TableFiles_proofs ---------------------------
(***************************************************************************)
(* Proofs about TableFiles, for any field lists, any number of rows,       *)
(* ALTERs and crashes: what the files of a table hold after any of the     *)
(* statements, and that ALTER TABLE moves every column to where the next   *)
(* reader looks for it.                                                    *)
(***************************************************************************)
EXTENDS TableFiles, FiniteSetTheorems, TLAPS

Fields == Seq(Field)

Row == UNION {[D -> Seq(Word)] : D \in SUBSET Names}

-----------------------------------------------------------------------------
(***************************************************************************)
(* Numbers.                                                                *)
(***************************************************************************)
\* Every set of numbers that is not empty has a least one: what each
\* induction below rests on.
LEMMA Least ==
  ASSUME NEW T \in SUBSET Nat, T # {}
  PROVE  \E x \in T : \A y \in T : x <= y
<1> DEFINE U == {0..t : t \in T}
<1>1. U \subseteq FiniteSubsetsOf(Nat) /\ U # {}
  <2>1. ASSUME NEW t \in T PROVE 0..t \in FiniteSubsetsOf(Nat)
    <3>1. IsFiniteSet(0..t)
      BY FS_Interval
    <3> QED
      BY <3>1 DEF FiniteSubsetsOf
  <2> QED
    BY <2>1
<1>2. PICK u \in U : \A v \in U : ~ (<<v, u>> \in StrictSubsetOrdering(Nat))
  <2> HIDE DEF U
  <2> QED
    BY <1>1, FS_StrictSubsetOrderingWellFounded, WFMin
<1>3. PICK x \in T : u = 0..x
  OBVIOUS
<1>4. ASSUME NEW y \in T, y < x PROVE FALSE
  <2>1. /\ 0..y \in SUBSET Nat /\ 0..x \in SUBSET Nat /\ 0..y \subseteq 0..x
        /\ x \in 0..x /\ x \notin 0..y /\ 0..y \in U
    BY <1>4
  <2> QED
    BY <1>2, <1>3, <2>1 DEF StrictSubsetOrdering
<1> QED
  BY <1>4

\* Induction over the numbers up to L, for a set of them.
LEMMA UpTo ==
  ASSUME NEW L \in Nat, NEW G \in SUBSET (0..L), 0 \in G,
         \A n \in 1..L : n - 1 \in G => n \in G
  PROVE  G = 0..L
<1> SUFFICES ASSUME (0..L) \ G # {} PROVE FALSE
  OBVIOUS
<1> DEFINE T == (0..L) \ G
<1>1. PICK n \in T : \A m \in T : n <= m
  <2>1. T \in SUBSET Nat /\ T # {}
    OBVIOUS
  <2> HIDE DEF T
  <2> QED
    BY <2>1, Least
<1>2. n # 0 /\ n - 1 \in 0..L
  BY <1>1
<1>3. n - 1 \in G
  BY <1>1, <1>2
<1> QED
  BY <1>1, <1>2, <1>3

\* Multiplying keeps the order of numbers.
LEMMA Product ==
  ASSUME NEW a \in Nat, NEW b \in Nat, NEW n \in Nat, a <= b
  PROVE  a * n <= b * n /\ a * n \in Nat /\ b * n = a * n + (b - a) * n
OBVIOUS

\* The quotient of a position by the size of a record is the number of the record.
LEMMA Quotient ==
  ASSUME NEW a \in Nat, NEW n \in Nat \ {0}, NEW b \in 0..n - 1
  PROVE  (a * n + b) \div n = a
<1> DEFINE q == (a * n + b) \div n
<1>1. q \in Int /\ q * n <= a * n + b /\ a * n + b < q * n + n
  OBVIOUS
<1> HIDE DEF q
<1>2. CASE q < a
  <2>1. (q + 1) * n <= a * n
    BY <1>1, <1>2
  <2> QED
    BY <1>1, <2>1
<1>3. CASE q > a
  <2>1. (a + 1) * n <= q * n
    BY <1>1, <1>3
  <2> QED
    BY <1>1, <2>1
<1> QED
  BY <1>1, <1>2, <1>3 DEF q

-----------------------------------------------------------------------------
(***************************************************************************)
(* Offsets.                                                                *)
(***************************************************************************)
\* What a field list consists of.
LEMMA FieldType ==
  ASSUME NEW fs \in Fields, NEW i \in DOMAIN fs
  PROVE  /\ fs[i].width \in Nat \ {0} /\ fs[i].width \in Widths
         /\ fs[i].order \in Nat /\ fs[i].name \in Names
         /\ fs[i] \in Field
         /\ Len(fs) \in Nat /\ DOMAIN fs = 1..Len(fs)
<1>1. fs \in Seq(Field)
  BY DEF Fields
<1>2. fs[i] \in Field /\ Len(fs) \in Nat /\ DOMAIN fs = 1..Len(fs)
  BY <1>1
<1>3. /\ fs[i].width \in Widths /\ fs[i].order \in Nat /\ fs[i].name \in Names
  BY <1>2 DEF Field
<1> QED
  BY <1>2, <1>3, WidthsAssumption

\* The equations Ends is defined by, and that it has values.
LEMMA EndsDef ==
  ASSUME NEW fs \in Fields
  PROVE  /\ Ends(fs) \in [0..Len(fs) -> Nat]
         /\ Ends(fs)[0] = 0
         /\ \A n \in 1..Len(fs) : Ends(fs)[n] = Ends(fs)[n - 1] + fs[n].width
<1> DEFINE L == Len(fs)
           Sums(g, n) == g[0] = 0 /\ \A k \in 1..n : g[k] = g[k - 1] + fs[k].width
           G == {n \in 0..L : \E g \in [0..n -> Nat] : Sums(g, n)}
           Body(g) == [n \in 0..L |-> IF n = 0 THEN 0 ELSE g[n - 1] + fs[n].width]
<1>0. L \in Nat /\ \A n \in 1..L : fs[n].width \in Nat
  BY FieldType DEF Fields
<1>1. 0 \in G
  <2>1. [k \in 0..0 |-> 0] \in [0..0 -> Nat] /\ Sums([k \in 0..0 |-> 0], 0)
    OBVIOUS
  <2>2. \E g \in [0..0 -> Nat] : Sums(g, 0)
    BY <2>1
  <2>3. 0 \in 0..L
    BY <1>0
  <2> HIDE DEF Sums
  <2> QED
    BY <2>2, <2>3
<1>2. ASSUME NEW n \in 1..L, n - 1 \in G PROVE n \in G
  <2>1. PICK g \in [0..n - 1 -> Nat] : Sums(g, n - 1)
    BY <1>2
  <2> DEFINE h == [k \in 0..n |-> IF k = n THEN g[n - 1] + fs[n].width ELSE g[k]]
  <2>2. h \in [0..n -> Nat]
    BY <1>0, <2>1
  <2>3. Sums(h, n)
    BY <1>0, <2>1
  <2>4. \E f \in [0..n -> Nat] : Sums(f, n)
    <3> HIDE DEF Sums, h
    <3> QED
      BY <2>2, <2>3
  <2>5. n \in 0..L
    BY <1>0
  <2> HIDE DEF Sums
  <2> QED
    BY <2>4, <2>5
<1>3. L \in G
  <2> HIDE DEF G
  <2>1. G = 0..L
    BY <1>0, <1>1, <1>2, UpTo DEF G
  <2> QED
    BY <1>0, <2>1
<1>4. PICK g \in [0..L -> Nat] : Sums(g, L)
  BY <1>3
<1>5. g = Body(g)
  BY <1>0, <1>4
<1>6. Ends(fs) = CHOOSE e : e = Body(e)
  BY DEF Ends
<1>7. Ends(fs) = Body(Ends(fs))
  BY <1>5, <1>6
<1>8. Sums(Ends(fs), L)
  BY <1>0, <1>7
<1>9. \A n \in 0..L : Ends(fs)[n] \in Nat
  <2> DEFINE H == {n \in 0..L : Ends(fs)[n] \in Nat}
  <2>1. 0 \in H /\ \A n \in 1..L : n - 1 \in H => n \in H
    BY <1>0, <1>8, SMTT(60)
  <2>2. H = 0..L
    <3> HIDE DEF H
    <3> QED
      BY <1>0, <2>1, UpTo DEF H
  <2> QED
    BY <2>2
<1> QED
  BY <1>7, <1>8, <1>9

\* A field ends before the next begins.
LEMMA EndsGrow ==
  ASSUME NEW fs \in Fields, NEW m \in 1..Len(fs)
  PROVE  \A n \in m..Len(fs) : Ends(fs)[m - 1] + fs[m].width <= Ends(fs)[n]
<1> DEFINE L == Len(fs)
           G == {d \in 0..L - m : Ends(fs)[m - 1] + fs[m].width <= Ends(fs)[m + d]}
<1>0. L \in Nat /\ m \in 1..L /\ L - m \in Nat
  BY DEF Fields
<1>1. \A n \in 1..L : fs[n].width \in Nat
  BY FieldType, <1>0
<1>2. \A n \in 0..L : Ends(fs)[n] \in Nat
  BY EndsDef
<1>3. \A n \in 1..L : Ends(fs)[n] = Ends(fs)[n - 1] + fs[n].width
  BY EndsDef
<1>4. 0 \in G
  BY <1>0, <1>1, <1>2, <1>3
<1>5. ASSUME NEW d \in 1..L - m, d - 1 \in G PROVE d \in G
  <2>1. m + d \in 1..L /\ m + d - 1 \in 0..L /\ m + (d - 1) = m + d - 1 /\ m - 1 \in 0..L
    BY <1>0
  <2>2. Ends(fs)[m + d - 1] <= Ends(fs)[m + d]
    BY <1>1, <1>2, <1>3, <2>1, SMTT(60)
  <2>3. Ends(fs)[m - 1] + fs[m].width <= Ends(fs)[m + d - 1]
    BY <1>5, <2>1
  <2>4. Ends(fs)[m - 1] + fs[m].width <= Ends(fs)[m + d]
    BY <1>0, <1>1, <1>2, <2>1, <2>2, <2>3
  <2> QED
    BY <2>4
<1>6. G = 0..L - m
  <2> HIDE DEF G
  <2> QED
    BY <1>0, <1>4, <1>5, UpTo DEF G
<1> SUFFICES ASSUME NEW n \in m..L PROVE Ends(fs)[m - 1] + fs[m].width <= Ends(fs)[n]
  OBVIOUS
<1>7. n - m \in 0..L - m /\ m + (n - m) = n
  BY <1>0
<1>8. n - m \in G
  <2> HIDE DEF G
  <2> QED
    BY <1>6, <1>7
<1> QED
  BY <1>7, <1>8

\* Offsets look only at the widths before them.
LEMMA EndsSame ==
  ASSUME NEW fs \in Fields, NEW gs \in Fields, NEW L \in Nat,
         L <= Len(fs), L <= Len(gs), \A i \in 1..L : fs[i].width = gs[i].width
  PROVE  \A n \in 0..L : Ends(fs)[n] = Ends(gs)[n]
<1> DEFINE G == {n \in 0..L : Ends(fs)[n] = Ends(gs)[n]}
<1>0. Len(fs) \in Nat /\ Len(gs) \in Nat
  BY DEF Fields
<1>1. /\ Ends(fs)[0] = 0 /\ Ends(gs)[0] = 0
      /\ \A n \in 1..L : Ends(fs)[n] = Ends(fs)[n - 1] + fs[n].width
      /\ \A n \in 1..L : Ends(gs)[n] = Ends(gs)[n - 1] + gs[n].width
  BY <1>0, EndsDef
<1>2. 0 \in G /\ \A n \in 1..L : n - 1 \in G => n \in G
  BY <1>1
<1>3. G = 0..L
  <2> HIDE DEF G
  <2> QED
    BY <1>2, UpTo DEF G
<1> QED
  BY <1>3

\* What the rest needs to know of the places of fields in a record.
LEMMA Places ==
  ASSUME NEW fs \in Fields
  PROVE  /\ Size(fs) \in Nat
         /\ \A i \in DOMAIN fs :
              /\ Offset(fs, i) \in Nat
              /\ Offset(fs, i) + fs[i].width <= Size(fs)
         /\ \A i, j \in DOMAIN fs : i < j => Offset(fs, i) + fs[i].width <= Offset(fs, j)
         /\ Size(fs) = 0 <=> fs = <<>>
<1>0. Len(fs) \in Nat /\ DOMAIN fs = 1..Len(fs) /\ (fs = <<>> <=> Len(fs) = 0)
  BY DEF Fields
<1>1. \A n \in 0..Len(fs) : Ends(fs)[n] \in Nat
  BY EndsDef
<1>2. Size(fs) \in Nat
  BY <1>0, <1>1 DEF Size
<1>3. ASSUME NEW i \in DOMAIN fs
      PROVE  /\ Offset(fs, i) \in Nat
             /\ Offset(fs, i) + fs[i].width <= Size(fs)
             /\ \A j \in DOMAIN fs : i < j => Offset(fs, i) + fs[i].width <= Offset(fs, j)
  <2>1. \A n \in i..Len(fs) : Ends(fs)[i - 1] + fs[i].width <= Ends(fs)[n]
    BY <1>0, EndsGrow
  <2>2. i - 1 \in 0..Len(fs) /\ Len(fs) \in i..Len(fs)
    BY <1>0
  <2>3. \A j \in DOMAIN fs : i < j => j - 1 \in i..Len(fs)
    BY <1>0
  <2> QED
    BY <1>1, <2>1, <2>2, <2>3 DEF Offset, Size
<1>4. Size(fs) = 0 <=> fs = <<>>
  <2>1. CASE Len(fs) = 0
    BY <1>0, <2>1, EndsDef DEF Size
  <2>2. CASE Len(fs) # 0
    <3>1. 1 \in DOMAIN fs
      BY <1>0, <2>2
    <3>2. fs[1].width > 0 /\ fs[1].width \in Nat
      BY <3>1, FieldType
    <3> QED
      BY <1>0, <1>2, <1>3, <2>2, <3>1, <3>2
  <2> QED
    BY <2>1, <2>2
<1> QED
  BY <1>2, <1>3, <1>4

\* Each word of a record is in one field.
LEMMA OneField ==
  ASSUME NEW fs \in Fields, NEW i \in DOMAIN fs, NEW j \in DOMAIN fs, NEW q \in Nat,
         Offset(fs, i) < q, q <= Offset(fs, i) + fs[i].width,
         Offset(fs, j) < q, q <= Offset(fs, j) + fs[j].width
  PROVE  i = j
<1>1. i \in Nat /\ j \in Nat /\ fs[i].width \in Nat /\ fs[j].width \in Nat
  BY FieldType
<1> QED
  BY <1>1, Places

\* FieldOf finds the field a word lies in.
LEMMA FieldOfWord ==
  ASSUME NEW fs \in Fields, NEW i \in DOMAIN fs, NEW q \in Nat,
         Offset(fs, i) < q, q <= Offset(fs, i) + fs[i].width
  PROVE  FieldOf(fs, q) = i
BY OneField DEF FieldOf

\* Every word of a record lies in a field.
LEMMA SomeField ==
  ASSUME NEW fs \in Fields, NEW q \in 1..Size(fs)
  PROVE  /\ FieldOf(fs, q) \in DOMAIN fs
         /\ Offset(fs, FieldOf(fs, q)) < q
         /\ q <= Offset(fs, FieldOf(fs, q)) + fs[FieldOf(fs, q)].width
<1> DEFINE T == {n \in 0..Len(fs) : q <= Ends(fs)[n]}
<1>0. Len(fs) \in Nat /\ DOMAIN fs = 1..Len(fs) /\ Size(fs) \in Nat
  BY Places DEF Fields
<1>1. Len(fs) \in T
  BY <1>0 DEF Size
<1>2. PICK n \in T : \A m \in T : n <= m
  <2>1. T \in SUBSET Nat /\ T # {}
    BY <1>1
  <2> HIDE DEF T
  <2> QED
    BY <2>1, Least
<1>3. n # 0
  BY EndsDef
<1>4. n - 1 \in 0..Len(fs) /\ n - 1 \notin T /\ n \in DOMAIN fs
  BY <1>0, <1>2, <1>3
<1>5. /\ Ends(fs)[n - 1] < q /\ q <= Ends(fs)[n]
      /\ Ends(fs)[n] = Ends(fs)[n - 1] + fs[n].width
  BY <1>0, <1>2, <1>4, EndsDef
<1>6. n \in DOMAIN fs /\ Offset(fs, n) < q /\ q <= Offset(fs, n) + fs[n].width
  BY <1>4, <1>5 DEF Offset
<1>7. FieldOf(fs, q) = n
  BY <1>6, FieldOfWord
<1> QED
  BY <1>6, <1>7

-----------------------------------------------------------------------------
(***************************************************************************)
(* Sorting.                                                                *)
(***************************************************************************)
\* i comes before j in the list sorted by order number.
Earlier(fs, i, j) == fs[i].order < fs[j].order \/ (fs[i].order = fs[j].order /\ i < j)

Below(fs, j) == {i \in DOMAIN fs : Earlier(fs, i, j)}

\* A list in the order of its numbers is sorted.
LEMMA SortedOrdered ==
  ASSUME NEW fs \in Fields, Ordered(fs)
  PROVE  Sorted(fs) = fs
<1>0. /\ Len(fs) \in Nat /\ DOMAIN fs = 1..Len(fs)
      /\ \A i \in DOMAIN fs : fs[i].order \in Nat
      /\ fs = [r \in DOMAIN fs |-> fs[r]]
  BY FieldType DEF Fields
<1>1. ASSUME NEW j \in DOMAIN fs PROVE Cardinality(Below(fs, j)) = j - 1
  <2>1. Below(fs, j) = 1..j - 1
    BY <1>0 DEF Below, Earlier, Ordered
  <2>2. j - 1 \in Int /\ 1 \in Int /\ ~ (1 > j - 1 /\ j - 1 # 0) /\ j - 1 - 1 + 1 = j - 1
    BY <1>0
  <2>3. Cardinality(1..j - 1) = IF 1 > j - 1 THEN 0 ELSE j - 1 - 1 + 1
    BY <2>2, FS_Interval
  <2> QED
    BY <2>1, <2>2, <2>3
<1>2. Sorted(fs) = [r \in DOMAIN fs |->
                      fs[CHOOSE j \in DOMAIN fs : Cardinality(Below(fs, j)) = r - 1]]
  BY DEF Sorted, Below, Earlier
<1>3. \A r \in DOMAIN fs : (CHOOSE j \in DOMAIN fs : Cardinality(Below(fs, j)) = r - 1) = r
  BY <1>0, <1>1
<1> QED
  BY <1>0, <1>2, <1>3

\* Sorting keeps every field, and makes none.
LEMMA SortedKeeps ==
  ASSUME NEW fs \in Fields
  PROVE  /\ Sorted(fs) \in Fields /\ Len(Sorted(fs)) = Len(fs)
         /\ NamesIn(Sorted(fs)) = NamesIn(fs)
<1> DEFINE n == Len(fs)
           rank == [j \in 1..n |-> Cardinality(Below(fs, j))]
           S == Sorted(fs)
<1>0. /\ n \in Nat /\ DOMAIN fs = 1..n
      /\ \A i \in 1..n : fs[i].order \in Nat /\ fs[i] \in Field
  BY FieldType DEF Fields
<1>1. IsFiniteSet(1..n) /\ Cardinality(1..n) = n /\ IsFiniteSet(0..n - 1) /\ Cardinality(0..n - 1) = n
  <2>1. 0 \in Int /\ 1 \in Int /\ n \in Int /\ n - 1 \in Int
    BY <1>0
  <2>2. IsFiniteSet(1..n) /\ Cardinality(1..n) = IF 1 > n THEN 0 ELSE n - 1 + 1
    BY <2>1, FS_Interval
  <2>3. IsFiniteSet(0..n - 1) /\ Cardinality(0..n - 1) = IF 0 > n - 1 THEN 0 ELSE n - 1 - 0 + 1
    BY <2>1, FS_Interval
  <2> QED
    BY <1>0, <2>2, <2>3
<1>2. ASSUME NEW j \in 1..n
      PROVE  IsFiniteSet(Below(fs, j)) /\ rank[j] \in 0..n - 1
  <2>1. Below(fs, j) \in SUBSET ((1..n) \ {j})
    BY <1>0 DEF Below, Earlier
  <2>2. IsFiniteSet((1..n) \ {j}) /\ Cardinality((1..n) \ {j}) = n - 1
    BY <1>1, FS_RemoveElement
  <2>3. IsFiniteSet(Below(fs, j)) /\ Cardinality(Below(fs, j)) <= n - 1
    BY <2>1, <2>2, FS_Subset
  <2>4. Cardinality(Below(fs, j)) \in Nat
    BY <2>3, FS_CardinalityType
  <2> QED
    BY <1>0, <2>3, <2>4
<1>3. ASSUME NEW i \in 1..n, NEW j \in 1..n, Earlier(fs, i, j)
      PROVE  rank[i] < rank[j]
  <2>1. Below(fs, i) \cup {i} \in SUBSET Below(fs, j) /\ i \notin Below(fs, i)
    BY <1>0, <1>3 DEF Below, Earlier
  <2>2. Cardinality(Below(fs, i) \cup {i}) = rank[i] + 1
    BY <1>2, <2>1, FS_AddElement
  <2>3. Cardinality(Below(fs, i) \cup {i}) <= rank[j]
    BY <1>2, <2>1, FS_Subset
  <2> QED
    BY <1>2, <2>2, <2>3
<1>4. ASSUME NEW i \in 1..n, NEW j \in 1..n, rank[i] = rank[j] PROVE i = j
  <2>1. i = j \/ Earlier(fs, i, j) \/ Earlier(fs, j, i)
    BY <1>0 DEF Earlier
  <2> QED
    BY <1>2, <1>3, <1>4, <2>1
<1>5. rank \in [1..n -> 0..n - 1]
  BY <1>2
<1>6. rank \in Injection(1..n, 0..n - 1)
  <2> HIDE DEF rank
  <2> QED
    BY <1>4, <1>5 DEF Injection, IsInjective
<1>7. rank \in Surjection(1..n, 0..n - 1)
  <2> HIDE DEF rank
  <2> QED
    BY <1>1, <1>6, FS_Injection
<1>8. \A r \in 1..n : \E j \in 1..n : rank[j] = r - 1
  <2> HIDE DEF rank
  <2> QED
    BY <1>0, <1>7 DEF Surjection
<1> DEFINE at == [r \in 1..n |-> CHOOSE j \in 1..n : Cardinality(Below(fs, j)) = r - 1]
<1>9. S = [r \in 1..n |-> fs[at[r]]]
  BY <1>0 DEF Sorted, Below, Earlier
<1>10. \A r \in 1..n : at[r] \in 1..n /\ rank[at[r]] = r - 1
  BY <1>8
<1> HIDE DEF rank, at
<1>11. ASSUME NEW j \in 1..n PROVE rank[j] + 1 \in 1..n /\ at[rank[j] + 1] = j
  <2>1. rank[j] \in Int /\ rank[j] + 1 \in 1..n
    BY <1>0, <1>5
  <2>2. \A r \in 1..n : r - 1 = rank[j] => at[r] = j
    <3>1. ASSUME NEW r \in 1..n, r - 1 = rank[j] PROVE at[r] = j
      <4>1. at[r] \in 1..n /\ rank[at[r]] = rank[j]
        BY <1>10, <3>1
      <4> QED
        BY <1>4, <4>1
    <3> QED
      BY <3>1
  <2>3. PICK r \in 1..n : r = rank[j] + 1
    BY <2>1
  <2>4. r - 1 = rank[j]
    BY <2>1, <2>3
  <2> QED
    BY <2>2, <2>3, <2>4
<1> HIDE DEF S
<1>12. S \in Seq(Field) /\ DOMAIN S = 1..n /\ Len(S) = n
  <2>1. \A r \in 1..n : fs[at[r]] \in Field
    BY <1>0, <1>10
  <2> QED
    BY <1>0, <1>9, <2>1
<1>13. NamesIn(S) = NamesIn(fs)
  <2>1. ASSUME NEW r \in 1..n PROVE S[r].name \in NamesIn(fs)
    BY <1>0, <1>9, <1>10 DEF NamesIn
  <2>2. ASSUME NEW j \in 1..n PROVE fs[j].name \in NamesIn(S)
    <3>1. S[rank[j] + 1] = fs[j]
      BY <1>9, <1>11
    <3> QED
      BY <1>11, <1>12, <3>1 DEF NamesIn
  <2> QED
    BY <1>0, <1>12, <2>1, <2>2 DEF NamesIn
<1> QED
  BY <1>12, <1>13 DEF S, Fields

-----------------------------------------------------------------------------
(***************************************************************************)
(* Records.                                                                *)
(***************************************************************************)
\* The rows are what a reader of the records finds in them.
Layout(fs, words, rows) ==
  /\ Len(words) = Len(rows) * Size(fs)
  /\ fs = <<>> => rows = <<>>
  /\ \A r \in DOMAIN rows : \A i \in DOMAIN fs : rows[r][fs[i].name] = Read(fs, words, r, i)

\* The words of a part of a file.
LEMMA Window ==
  ASSUME NEW s \in Seq(Word), NEW m \in Nat, NEW w \in Nat, m + w <= Len(s)
  PROVE  /\ SubSeq(s, m + 1, m + w) = [k \in 1..w |-> s[m + k]]
         /\ SubSeq(s, m + 1, m + w) \in Seq(Word)
         /\ Len(SubSeq(s, m + 1, m + w)) = w
<1>1. Len(s) \in Nat /\ \A k \in 1..w : m + k \in 1..Len(s) /\ s[m + k] \in Word
  OBVIOUS
<1>2. SubSeq(s, m + 1, m + w) = [k \in 1..w |-> s[m + k]]
  <2>1. SubSeq(s, m + 1, m + w) = [k \in 1..(m + w) - (m + 1) + 1 |-> s[(m + 1) + k - 1]]
    OBVIOUS
  <2>2. (m + w) - (m + 1) + 1 = w
    OBVIOUS
  <2>3. \A k \in 1..w : (m + 1) + k - 1 = m + k
    OBVIOUS
  <2> QED
    BY <2>1, <2>2, <2>3
<1> QED
  BY <1>1, <1>2

\* A field of a record lies within it, and records follow one another.
LEMMA Within ==
  ASSUME NEW fs \in Fields, NEW i \in DOMAIN fs, NEW n \in Nat, NEW r \in 1..n
  PROVE  /\ (r - 1) * Size(fs) \in Nat
         /\ Offset(fs, i) \in Nat /\ fs[i].width \in Nat
         /\ (r - 1) * Size(fs) + Offset(fs, i) \in Nat
         /\ (r - 1) * Size(fs) + Offset(fs, i) + fs[i].width <= n * Size(fs)
<1>1. /\ Size(fs) \in Nat /\ Offset(fs, i) \in Nat /\ fs[i].width \in Nat
      /\ Offset(fs, i) + fs[i].width <= Size(fs)
  BY Places, FieldType
<1>2. /\ r - 1 \in Nat /\ r \in Nat /\ r - 1 <= r /\ r <= n
  OBVIOUS
<1>3. (r - 1) * Size(fs) \in Nat /\ r * Size(fs) = (r - 1) * Size(fs) + (r - (r - 1)) * Size(fs)
  BY <1>1, <1>2, Product
<1>4. (r - (r - 1)) * Size(fs) = Size(fs)
  BY <1>1, <1>2
<1>5. r * Size(fs) <= n * Size(fs) /\ n * Size(fs) \in Nat
  BY <1>1, <1>2, Product
<1> HIDE DEF Size, Offset
<1> QED
  BY <1>1, <1>3, <1>4, <1>5

\* As many records as there are rows.
LEMMA CountRows ==
  ASSUME NEW fs \in Fields, NEW words \in Seq(Word), NEW rows \in Seq(Row), Layout(fs, words, rows)
  PROVE  Count(fs, words) = Len(rows)
<1>1. Size(fs) \in Nat /\ Len(rows) \in Nat /\ (Size(fs) = 0 <=> fs = <<>>)
  BY Places
<1>2. CASE Size(fs) = 0
  BY <1>1, <1>2 DEF Count, Layout
<1>3. CASE Size(fs) # 0
  <2>1. Size(fs) \in Nat \ {0} /\ 0 \in 0..Size(fs) - 1
    BY <1>1, <1>3
  <2>2. (Len(rows) * Size(fs) + 0) \div Size(fs) = Len(rows)
    BY <1>1, <2>1, Quotient
  <2>3. Len(rows) * Size(fs) + 0 = Len(words) /\ Len(words) \in Nat
    BY <1>1 DEF Layout
  <2> QED
    BY <1>3, <2>2, <2>3 DEF Count
<1> QED
  BY <1>2, <1>3

\* What Read finds, word by word.
LEMMA ReadIs ==
  ASSUME NEW fs \in Fields, NEW words \in Seq(Word), NEW n \in Nat, Len(words) = n * Size(fs),
         NEW r \in 1..n, NEW i \in DOMAIN fs
  PROVE  /\ Read(fs, words, r, i)
              = [k \in 1..fs[i].width |-> words[(r - 1) * Size(fs) + Offset(fs, i) + k]]
         /\ Len(Read(fs, words, r, i)) = fs[i].width
         /\ Read(fs, words, r, i) \in Seq(Word)
<1> DEFINE m == (r - 1) * Size(fs) + Offset(fs, i)
<1>1. m \in Nat /\ fs[i].width \in Nat /\ m + fs[i].width <= Len(words)
  BY Within
<1>2. Read(fs, words, r, i) = SubSeq(words, m + 1, m + fs[i].width)
  BY DEF Read
<1> HIDE DEF m
<1>3. /\ Read(fs, words, r, i) = [k \in 1..fs[i].width |-> words[m + k]]
      /\ Len(Read(fs, words, r, i)) = fs[i].width
      /\ Read(fs, words, r, i) \in Seq(Word)
  <2> DEFINE w == fs[i].width
             t == SubSeq(words, m + 1, m + w)
  <2>1. m \in Nat /\ w \in Nat /\ m + w <= Len(words)
    BY <1>1
  <2>2. Read(fs, words, r, i) = t
    BY <1>2
  <2> HIDE DEF w
  <2>3. t = [k \in 1..w |-> words[m + k]] /\ t \in Seq(Word) /\ Len(t) = w
    BY <2>1, Window
  <2> HIDE DEF t
  <2>4. Read(fs, words, r, i) = [k \in 1..w |-> words[m + k]] /\ Len(Read(fs, words, r, i)) = w
        /\ Read(fs, words, r, i) \in Seq(Word)
    BY <2>2, <2>3
  <2> QED
    BY <2>4 DEF w
<1> QED
  BY <1>3 DEF m

\* SELECT shows the rows, when the field list is in the order of its numbers.
LEMMA ShownRows ==
  ASSUME tdf \in Fields, trd \in Seq(Word), want \in Seq(Row), Ordered(tdf), Distinct(tdf),
         \A r \in DOMAIN want : DOMAIN want[r] = NamesIn(tdf), Layout(tdf, trd, want)
  PROVE  Shown = want
<1>1. Sorted(tdf) = tdf
  BY SortedOrdered
<1>2. Count(tdf, trd) = Len(want)
  BY CountRows
<1>3. Len(want) \in Nat /\ DOMAIN want = 1..Len(want) /\ want = [r \in 1..Len(want) |-> want[r]]
  OBVIOUS
<1> DEFINE row(r) == [c \in NamesIn(tdf) |->
                        Read(tdf, trd, r, CHOOSE i \in DOMAIN tdf : tdf[i].name = c)]
<1>4. ASSUME NEW r \in 1..Len(want) PROVE row(r) = want[r]
  <2>1. want[r] = [c \in NamesIn(tdf) |-> want[r][c]]
    <3>1. want[r] \in Row /\ DOMAIN want[r] = NamesIn(tdf)
      BY <1>3
    <3>2. PICK D \in SUBSET Names : want[r] \in [D -> Seq(Word)]
      BY <3>1 DEF Row
    <3> QED
      BY <3>1, <3>2
  <2>2. ASSUME NEW c \in NamesIn(tdf)
        PROVE  Read(tdf, trd, r, CHOOSE i \in DOMAIN tdf : tdf[i].name = c) = want[r][c]
    <3>1. PICK i \in DOMAIN tdf : tdf[i].name = c
      BY DEF NamesIn
    <3>2. (CHOOSE j \in DOMAIN tdf : tdf[j].name = c) = i
      BY <3>1 DEF Distinct
    <3> QED
      BY <1>3, <3>1, <3>2 DEF Layout
  <2> QED
    BY <2>1, <2>2
<1>5. Shown = [r \in 1..Len(want) |-> row(r)]
  BY <1>1, <1>2 DEF Shown
<1> HIDE DEF row
<1> QED
  BY <1>3, <1>4, <1>5

\* What INSERT appends: a record with every column's value in its place.
LEMMA EncodedIs ==
  ASSUME NEW fs \in Fields, NEW x \in Nat \ {0}
  PROVE  /\ Encoded(fs, x) \in Seq(Word)
         /\ Len(Encoded(fs, x)) = Size(fs)
         /\ \A i \in DOMAIN fs : \A k \in 1..fs[i].width :
              Encoded(fs, x)[Offset(fs, i) + k] = Value(fs[i].name, x, fs[i].width)[k]
<1>0. Size(fs) \in Nat
  BY Places
<1>1. ASSUME NEW i \in DOMAIN fs, NEW q \in Nat, Offset(fs, i) < q, q <= Offset(fs, i) + fs[i].width
      PROVE  /\ q - Offset(fs, i) \in 1..fs[i].width
             /\ Value(fs[i].name, x, fs[i].width)[q - Offset(fs, i)] \in Word
  <2>1. Offset(fs, i) \in Nat /\ fs[i].width \in Nat /\ fs[i].name \in Names
    BY Places, FieldType
  <2>2. q - Offset(fs, i) \in 1..fs[i].width /\ q - Offset(fs, i) \in Nat \ {0}
    BY <1>1, <2>1
  <2> QED
    BY <2>1, <2>2 DEF Value, Word
<1>2. ASSUME NEW q \in 1..Size(fs) PROVE Encoded(fs, x)[q] \in Word
  <2>1. q \in Nat
    BY <1>0
  <2>2. Encoded(fs, x)[q] = Value(fs[FieldOf(fs, q)].name, x, fs[FieldOf(fs, q)].width)[q - Offset(fs, FieldOf(fs, q))]
    BY DEF Encoded
  <2> QED
    BY <1>1, <2>1, <2>2, SomeField
<1>3. Encoded(fs, x) \in Seq(Word) /\ Len(Encoded(fs, x)) = Size(fs)
  <2>1. Encoded(fs, x) = [q \in 1..Size(fs) |-> Encoded(fs, x)[q]]
    BY DEF Encoded
  <2> QED
    BY <1>0, <1>2, <2>1
<1>4. ASSUME NEW i \in DOMAIN fs, NEW k \in 1..fs[i].width
      PROVE  Encoded(fs, x)[Offset(fs, i) + k] = Value(fs[i].name, x, fs[i].width)[k]
  <2>1. /\ Offset(fs, i) \in Nat /\ fs[i].width \in Nat
        /\ Offset(fs, i) + fs[i].width <= Size(fs)
    BY Places, FieldType
  <2>2. PICK q \in 1..Size(fs) : q = Offset(fs, i) + k
    BY <1>0, <2>1
  <2>3. FieldOf(fs, q) = i
    BY <2>1, <2>2, FieldOfWord
  <2>4. q - Offset(fs, i) = k
    BY <2>1, <2>2
  <2> QED
    BY <2>2, <2>3, <2>4 DEF Encoded
<1> QED
  BY <1>3, <1>4

\* INSERT adds a row to what is read.
LEMMA InsertLayout ==
  ASSUME NEW fs \in Fields, fs # <<>>, NEW words \in Seq(Word), NEW rows \in Seq(Row),
         Layout(fs, words, rows), NEW x \in Nat \ {0}, NEW row \in Row,
         \A i \in DOMAIN fs : row[fs[i].name] = Value(fs[i].name, x, fs[i].width)
  PROVE  Layout(fs, words \o Encoded(fs, x), Append(rows, row))
<1> DEFINE n == Len(rows)
           more == words \o Encoded(fs, x)
<1>0. /\ n \in Nat /\ Size(fs) \in Nat /\ Len(words) = n * Size(fs) /\ Len(words) \in Nat
      /\ Encoded(fs, x) \in Seq(Word) /\ Len(Encoded(fs, x)) = Size(fs)
  BY Places, EncodedIs DEF Layout
<1>1. more \in Seq(Word) /\ Len(more) = (n + 1) * Size(fs)
  <2>1. Len(more) = Len(words) + Len(Encoded(fs, x)) /\ more \in Seq(Word)
    <3>1. Encoded(fs, x) \in Seq(Word)
      BY <1>0
    <3> QED
      BY <3>1
  <2>2. n * Size(fs) + Size(fs) = (n + 1) * Size(fs)
    BY <1>0
  <2> QED
    BY <1>0, <2>1, <2>2
<1>2. Append(rows, row) \in Seq(Row) /\ Len(Append(rows, row)) = n + 1 /\ Append(rows, row) # <<>>
  OBVIOUS
<1>3. ASSUME NEW q \in 1..Len(words) PROVE more[q] = words[q]
  BY <1>0
<1>4. ASSUME NEW q \in 1..Size(fs) PROVE more[n * Size(fs) + q] = Encoded(fs, x)[q]
  <2>1. more[Len(words) + q] = Encoded(fs, x)[q]
    BY <1>0, SMTT(60)
  <2> QED
    BY <1>0, <2>1
<1> HIDE DEF more, n
<1>5. n + 1 \in Nat
  BY <1>0
<1>6. ASSUME NEW r \in 1..n + 1, NEW i \in DOMAIN fs
      PROVE  Append(rows, row)[r][fs[i].name] = Read(fs, more, r, i)
  <2> DEFINE w == fs[i].width
             m == (r - 1) * Size(fs) + Offset(fs, i)
  <2>1. Read(fs, more, r, i) = [k \in 1..w |-> more[m + k]]
    BY <1>0, <1>1, ReadIs, SMTT(40)
  <2>2. w \in Nat /\ m \in Nat /\ Offset(fs, i) \in Nat /\ Offset(fs, i) + w <= Size(fs)
    BY <1>0, <1>5, Within, Places
  <2>3. CASE r \in 1..n
    <3>1. Append(rows, row)[r][fs[i].name] = Read(fs, words, r, i)
      BY <1>0, <2>3 DEF Layout, n
    <3>2. Read(fs, words, r, i) = [k \in 1..w |-> words[m + k]]
      BY <1>0, <2>3, ReadIs
    <3>3. m + w <= Len(words)
      BY <1>0, <2>3, Within
    <3> HIDE DEF m, w
    <3>4. \A k \in 1..w : m + k \in 1..Len(words)
      BY <1>0, <2>2, <3>3
    <3> QED
      BY <1>3, <2>1, <3>1, <3>2, <3>4
  <2>4. CASE r = n + 1
    <3>1. Append(rows, row)[r] = row
      BY <1>0, <2>4 DEF n
    <3>2. row[fs[i].name] = [k \in 1..w |-> <<fs[i].name, k, x>>]
      BY DEF Value
    <3>3. m = n * Size(fs) + Offset(fs, i)
      BY <1>0, <2>4
    <3>4. ASSUME NEW k \in 1..w PROVE more[m + k] = <<fs[i].name, k, x>>
      <4>1. PICK q \in 1..Size(fs) : q = Offset(fs, i) + k
        <5>1. /\ w \in Nat /\ Offset(fs, i) \in Nat /\ Offset(fs, i) + w <= Size(fs)
              /\ Size(fs) \in Nat
          BY <1>0, <2>2
        <5> HIDE DEF w
        <5> QED
          BY <5>1
      <4>2. m + k = n * Size(fs) + q
        BY <1>0, <2>2, <3>3, <4>1, SMTT(60)
      <4>3. more[m + k] = Encoded(fs, x)[q]
        BY <1>4, <4>2
      <4>4. Encoded(fs, x)[q] = Value(fs[i].name, x, w)[k]
        BY <4>1, EncodedIs
      <4> QED
        BY <4>3, <4>4 DEF Value
    <3> HIDE DEF m, w
    <3> QED
      BY <2>1, <3>1, <3>2, <3>4
  <2>5. r \in 1..n \/ r = n + 1
    <3>1. n \in Nat
      BY <1>0
    <3> QED
      BY <3>1
  <2> QED
    BY <2>3, <2>4, <2>5
<1> QED
  <2>1. DOMAIN Append(rows, row) = 1..n + 1
    BY <1>2 DEF n
  <2> QED
    BY <1>1, <1>2, <1>6, <2>1 DEF Layout, more

-----------------------------------------------------------------------------
(***************************************************************************)
(* rewriteRecords.                                                         *)
(***************************************************************************)
\* A set of moves that is not empty has a last one.
LEMMA Greatest ==
  ASSUME NEW L \in Nat, NEW T \in SUBSET (1..L), T # {}
  PROVE  \E x \in T : \A y \in T : y <= x
<1> DEFINE U == {L - t : t \in T}
<1>1. U \in SUBSET Nat /\ U # {}
  <2>1. \A t \in T : L - t \in Nat
    OBVIOUS
  <2>2. PICK t \in T : TRUE
    OBVIOUS
  <2> QED
    BY <2>1, <2>2
<1>2. PICK u \in U : \A v \in U : u <= v
  <2> HIDE DEF U
  <2> QED
    BY <1>1, Least
<1>3. PICK x \in T : u = L - x
  BY <1>2
<1>4. ASSUME NEW y \in T PROVE y <= x
  <2>1. L - y \in U /\ y \in Nat /\ x \in Nat
    OBVIOUS
  <2>2. L - x <= L - y
    BY <1>2, <1>3, <2>1
  <2> QED
    BY <2>1, <2>2
<1> QED
  BY <1>4

\* The moves read only within a record.
MovesFit(old, moves) ==
  /\ \E n \in Nat : DOMAIN moves = 1..n
  /\ \A i \in DOMAIN moves :
       /\ moves[i].from \in Nat /\ moves[i].to \in Nat /\ moves[i].len \in Nat
       /\ moves[i].from + moves[i].len <= Size(old)

Hits(moves, q) == {i \in DOMAIN moves : moves[i].to < q /\ q <= moves[i].to + moves[i].len}

\* The words of a whole record of the file.
LEMMA RecordIs ==
  ASSUME NEW fs \in Fields, trd \in Seq(Word), NEW r \in 1..Count(fs, trd)
  PROVE  /\ Size(fs) \in Nat \ {0} /\ (r - 1) * Size(fs) \in Nat /\ Count(fs, trd) \in Nat
         /\ Record(fs, r) \in Seq(Word) /\ Len(Record(fs, r)) = Size(fs)
         /\ \A k \in 1..Size(fs) : Record(fs, r)[k] = trd[(r - 1) * Size(fs) + k]
<1>1. Size(fs) \in Nat /\ Len(trd) \in Nat
  BY Places
<1>2. Size(fs) # 0
  BY DEF Count
<1> DEFINE n == Count(fs, trd)
<1>3. n \in Nat /\ n * Size(fs) <= Len(trd)
  BY <1>1, <1>2 DEF Count
<1>4. r \in Nat /\ r - 1 \in Nat /\ r <= n /\ r - 1 <= r
  BY <1>3
<1> HIDE DEF n
<1>5. r * Size(fs) <= n * Size(fs) /\ (r - 1) * Size(fs) \in Nat
  BY <1>1, <1>3, <1>4, Product
<1>6. r * Size(fs) = (r - 1) * Size(fs) + Size(fs)
  BY <1>1, <1>4
<1> DEFINE m == (r - 1) * Size(fs)
<1>7. m \in Nat /\ m + Size(fs) <= Len(trd)
  BY <1>1, <1>3, <1>5, <1>6
<1>8. Record(fs, r) = SubSeq(trd, m + 1, m + Size(fs))
  BY <1>6 DEF Record
<1> HIDE DEF m
<1>9. /\ Record(fs, r) = [k \in 1..Size(fs) |-> trd[m + k]]
      /\ Len(Record(fs, r)) = Size(fs)
      /\ Record(fs, r) \in Seq(Word)
  <2> DEFINE w == Size(fs)
  <2>1. w \in Nat /\ m + w <= Len(trd) /\ m \in Nat
    BY <1>1, <1>7
  <2> HIDE DEF w
  <2>2. /\ SubSeq(trd, m + 1, m + w) = [k \in 1..w |-> trd[m + k]]
        /\ SubSeq(trd, m + 1, m + w) \in Seq(Word)
        /\ Len(SubSeq(trd, m + 1, m + w)) = w
    BY <2>1, Window
  <2> QED
    BY <1>8, <2>2 DEF w
<1> QED
  BY <1>1, <1>2, <1>3, <1>5, <1>9 DEF m, n

\* Each word of a moved record is a word of the old one, or zero.
LEMMA MovedType ==
  ASSUME NEW old \in Fields, trd \in Seq(Word), NEW r \in 1..Count(old, trd), NEW moves, MovesFit(old, moves),
         NEW size \in Nat, NEW q \in 1..size
  PROVE  Moved(Record(old, r), moves, size)[q] \in Word
<1> DEFINE rec == Record(old, r)
<1>1. rec \in Seq(Word) /\ Len(rec) = Size(old) /\ Size(old) \in Nat
  BY RecordIs
<1> HIDE DEF rec
<1>2. Moved(rec, moves, size)[q]
        = IF Hits(moves, q) = {} THEN Blank
          ELSE LET m == moves[CHOOSE i \in Hits(moves, q) : \A j \in Hits(moves, q) : j <= i]
               IN  rec[m.from + q - m.to]
  BY DEF Moved, Hits
<1>3. CASE Hits(moves, q) = {}
  BY <1>2, <1>3 DEF Word, rec
<1>4. CASE Hits(moves, q) # {}
  <2>1. PICK n \in Nat : DOMAIN moves = 1..n
    BY DEF MovesFit
  <2>2. \E i \in Hits(moves, q) : \A j \in Hits(moves, q) : j <= i
    <3>1. Hits(moves, q) \in SUBSET (1..n)
      BY <2>1 DEF Hits
    <3> QED
      BY <1>4, <3>1, Greatest
  <2>3. PICK i \in Hits(moves, q) : i = CHOOSE h \in Hits(moves, q) : \A j \in Hits(moves, q) : j <= h
    BY <2>2
  <2>4. /\ i \in DOMAIN moves /\ moves[i].to < q /\ q <= moves[i].to + moves[i].len
        /\ moves[i].from \in Nat /\ moves[i].to \in Nat /\ moves[i].len \in Nat
        /\ moves[i].from + moves[i].len <= Size(old)
    BY <2>3 DEF Hits, MovesFit
  <2>5. moves[i].from + q - moves[i].to \in 1..Len(rec)
    BY <1>1, <2>4, SMTT(60)
  <2>6. Moved(rec, moves, size)[q] = rec[moves[i].from + q - moves[i].to]
    BY <1>2, <1>4, <2>3
  <2> QED
    BY <1>1, <2>5, <2>6 DEF rec
<1> QED
  BY <1>3, <1>4

\* The new file is the old records moved, one after the other.
LEMMA RewrittenIs ==
  ASSUME NEW old \in Fields, NEW new \in Fields, trd \in Seq(Word), NEW moves, MovesFit(old, moves)
  PROVE  /\ Count(old, trd) \in Nat
         /\ Rewritten(old, new, moves) \in Seq(Word)
         /\ Len(Rewritten(old, new, moves)) = Count(old, trd) * Size(new)
         /\ \A r \in 1..Count(old, trd) : \A q \in 1..Size(new) :
              Rewritten(old, new, moves)[(r - 1) * Size(new) + q]
                = Moved(Record(old, r), moves, Size(new))[q]
<1> DEFINE size == Size(new)
           n == Count(old, trd)
           W == Rewritten(old, new, moves)
<1>0. size \in Nat /\ n \in Nat /\ n * size \in Nat
  <2>1. size \in Nat /\ Size(old) \in Nat /\ Len(trd) \in Nat
    BY Places
  <2>2. n \in Nat
    BY <2>1 DEF Count
  <2> HIDE DEF n, size
  <2> QED
    BY <2>1, <2>2
<1>1. W = [q \in 1..n * size |->
             Moved(Record(old, ((q - 1) \div size) + 1), moves, size)[q - ((q - 1) \div size) * size]]
  BY DEF Rewritten
<1> HIDE DEF W, n, size
<1>2. ASSUME NEW q \in 1..n * size
      PROVE  ((q - 1) \div size) + 1 \in 1..n /\ q - ((q - 1) \div size) * size \in 1..size
  <2>1. size # 0
    BY <1>0
  <2> DEFINE d == (q - 1) \div size
  <2>2. d \in Int /\ d * size <= q - 1 /\ q - 1 < d * size + size
    BY <1>0, <2>1
  <2>3. q - 1 \in Nat /\ q <= n * size
    BY <1>0
  <2> HIDE DEF d
  <2>4. d >= 0
    <3>1. CASE d < 0
      <4>1. (d + 1) * size <= 0
        BY <1>0, <2>1, <2>2, <3>1
      <4> QED
        BY <1>0, <2>2, <2>3, <4>1
    <3> QED
      BY <2>2, <3>1
  <2>5. d < n
    <3>1. CASE d >= n
      <4>1. n * size <= d * size
        BY <1>0, <2>2, <2>4, <3>1, Product
      <4> QED
        BY <1>0, <2>2, <2>3, <4>1
    <3> QED
      BY <1>0, <2>2, <3>1
  <2>6. d + 1 \in 1..n
    BY <1>0, <2>2, <2>4, <2>5
  <2>7. q - d * size \in 1..size
    BY <1>0, <2>2, <2>3
  <2> QED
    BY <2>6, <2>7 DEF d
<1>3. ASSUME NEW q \in 1..n * size PROVE W[q] \in Word
  <2>1. W[q] = Moved(Record(old, ((q - 1) \div size) + 1), moves, size)[q - ((q - 1) \div size) * size]
    BY <1>1
  <2> QED
    BY <1>0, <1>2, <2>1, MovedType DEF n
<1>4. W \in Seq(Word) /\ Len(W) = n * size
  <2>1. W = [q \in 1..n * size |-> W[q]]
    BY <1>1
  <2> DEFINE N == n * size
  <2>2. N \in Nat /\ W = [q \in 1..N |-> W[q]] /\ \A q \in 1..N : W[q] \in Word
    BY <1>0, <1>3, <2>1
  <2> HIDE DEF N
  <2>3. W \in Seq(Word) /\ Len(W) = N
    BY <2>2
  <2> QED
    BY <2>3 DEF N
<1>5. ASSUME NEW r \in 1..n, NEW q \in 1..size
      PROVE  W[(r - 1) * size + q] = Moved(Record(old, r), moves, size)[q]
  <2> DEFINE m == (r - 1) * size
  <2>1. m \in Nat /\ m + size <= n * size /\ r - 1 \in Nat
    <3>1. r \in Nat /\ r - 1 \in Nat /\ r <= n
      BY <1>0
    <3>2. r * size <= n * size /\ m \in Nat
      BY <1>0, <3>1, Product
    <3>3. r * size = m + size
      BY <1>0, <3>1
    <3> QED
      BY <3>1, <3>2, <3>3
  <2>2. size \in Nat \ {0} /\ q - 1 \in 0..size - 1
    BY <1>0
  <2>3. (m + (q - 1)) \div size = r - 1
    BY <2>1, <2>2, Quotient
  <2>4. m + q \in 1..n * size /\ m + q - 1 = m + (q - 1) /\ m + q - m = q /\ r - 1 + 1 = r
    <3>1. m + q \in Nat /\ 1 <= m + q /\ m + q <= m + size /\ m + q - 1 = m + (q - 1) /\ m + q - m = q
      <4> HIDE DEF m
      <4> QED
        BY <1>0, <2>1
    <3>2. r - 1 + 1 = r
      BY <1>0
    <3> DEFINE N == n * size
    <3>3. N \in Nat /\ m + size <= N /\ m + size \in Nat
      BY <1>0, <2>1
    <3> HIDE DEF m, N
    <3>4. m + q \in 1..N
      BY <3>1, <3>3
    <3> QED
      BY <3>1, <3>2, <3>4 DEF N
  <2>5. PICK p \in 1..n * size : p = m + q
    BY <2>4
  <2>6. p - 1 = m + (q - 1) /\ p - m = q
    <3>1. m \in Nat /\ size \in Nat
      BY <1>0, <2>1
    <3> HIDE DEF m
    <3> QED
      BY <2>5, <3>1
  <2>7. W[p] = Moved(Record(old, ((p - 1) \div size) + 1), moves, size)[p - ((p - 1) \div size) * size]
    BY <1>1
  <2>8. (p - 1) \div size = r - 1
    <3> HIDE DEF m
    <3> QED
      BY <2>3, <2>6
  <2>9. W[p] = Moved(Record(old, r), moves, size)[q]
    BY <2>4, <2>6, <2>7, <2>8
  <2> HIDE DEF m
  <2>10. W[m + q] = Moved(Record(old, r), moves, size)[q]
    BY <2>5, <2>9
  <2> QED
    BY <2>10 DEF m
<1> QED
  BY <1>0, <1>4, <1>5 DEF W, n, size

\* The i-th move fills the i-th new field, or a first part of it.
MovesTo(old, new, moves) ==
  /\ MovesFit(old, moves)
  /\ DOMAIN moves \subseteq DOMAIN new
  /\ \A i \in DOMAIN moves : moves[i].to = Offset(new, i) /\ moves[i].len <= new[i].width

\* What a reader with the new field list finds in a rewritten record.
LEMMA RewrittenField ==
  ASSUME NEW old \in Fields, NEW new \in Fields, trd \in Seq(Word), NEW moves, MovesTo(old, new, moves),
         NEW r \in 1..Count(old, trd), NEW i \in DOMAIN new
  PROVE  Read(new, Rewritten(old, new, moves), r, i)
           = [k \in 1..new[i].width |->
                IF i \in DOMAIN moves /\ k <= moves[i].len
                  THEN trd[(r - 1) * Size(old) + moves[i].from + k] ELSE Blank]
<1> DEFINE W == Rewritten(old, new, moves)
           n == Count(old, trd)
           size == Size(new)
           w == new[i].width
           o == Offset(new, i)
<1>1. /\ MovesFit(old, moves) /\ n \in Nat /\ W \in Seq(Word) /\ Len(W) = n * size
      /\ \A q \in 1..size : W[(r - 1) * size + q] = Moved(Record(old, r), moves, size)[q]
  <2>1. MovesFit(old, moves)
    BY DEF MovesTo
  <2> QED
    BY <2>1, RewrittenIs
<1>2. size \in Nat /\ w \in Nat /\ o \in Nat /\ o + w <= size /\ (r - 1) * size \in Nat
  <2>1. size \in Nat /\ w \in Nat /\ o \in Nat /\ o + w <= size
    BY Places, FieldType
  <2>2. (r - 1) * size \in Nat
    BY <1>1, Within
  <2> QED
    BY <2>1, <2>2
<1>3. Read(new, W, r, i) = [k \in 1..w |-> W[(r - 1) * size + o + k]]
  BY <1>1, ReadIs
<1>4. ASSUME NEW k \in 1..w
      PROVE  W[(r - 1) * size + o + k]
               = IF i \in DOMAIN moves /\ k <= moves[i].len
                   THEN trd[(r - 1) * Size(old) + moves[i].from + k] ELSE Blank
  <2> DEFINE m == (r - 1) * size
  <2>1. m \in Nat
    BY <1>2
  <2> HIDE DEF m, w, o, size
  <2>2. PICK q \in 1..size : q = o + k
    BY <1>2
  <2>3. m + o + k = m + q
    BY <1>2, <2>1, <2>2
  <2>4. W[m + q] = Moved(Record(old, r), moves, size)[q]
    BY <1>1 DEF m
  <2>5. Hits(moves, q) = IF i \in DOMAIN moves /\ k <= moves[i].len THEN {i} ELSE {}
    <3>1. ASSUME NEW j \in DOMAIN moves, moves[j].to < q, q <= moves[j].to + moves[j].len
          PROVE  j = i
      <4>1. /\ j \in DOMAIN new /\ Offset(new, j) < q /\ Offset(new, j) \in Nat
            /\ moves[j].len \in Nat /\ new[j].width \in Nat
            /\ q <= Offset(new, j) + moves[j].len /\ moves[j].len <= new[j].width
        BY <3>1, Places, FieldType DEF MovesTo, MovesFit
      <4>2. q \in Nat /\ q <= Offset(new, j) + new[j].width
        BY <1>2, <2>2, <4>1
      <4>3. Offset(new, i) < q /\ q <= Offset(new, i) + new[i].width
        BY <1>2, <2>2 DEF o, w
      <4> QED
        BY <4>1, <4>2, <4>3, OneField
    <3>2. ASSUME i \in DOMAIN moves
          PROVE  moves[i].to < q /\ (q <= moves[i].to + moves[i].len <=> k <= moves[i].len)
      <4>1. moves[i].to = o /\ moves[i].len \in Nat
        BY <3>2 DEF MovesTo, MovesFit, o
      <4> QED
        BY <1>2, <2>2, <4>1
    <3> QED
      BY <3>1, <3>2 DEF Hits
  <2>6. Moved(Record(old, r), moves, size)[q]
          = IF Hits(moves, q) = {} THEN Blank
            ELSE LET mv == moves[CHOOSE j \in Hits(moves, q) : \A g \in Hits(moves, q) : g <= j]
                 IN  Record(old, r)[mv.from + q - mv.to]
    BY DEF Moved, Hits
  <2>7. CASE i \in DOMAIN moves /\ k <= moves[i].len
    <3>1. Hits(moves, q) = {i} /\ i \in Nat
      <4>1. i \in Nat
        BY DEF Fields
      <4> QED
        BY <2>5, <2>7, <4>1
    <3>2. (CHOOSE j \in Hits(moves, q) : \A g \in Hits(moves, q) : g <= j) = i
      BY <3>1
    <3>3. Moved(Record(old, r), moves, size)[q] = Record(old, r)[moves[i].from + q - moves[i].to]
      BY <2>6, <3>1, <3>2
    <3>4. /\ moves[i].from \in Nat /\ moves[i].to = o /\ moves[i].len \in Nat
          /\ moves[i].from + moves[i].len <= Size(old)
      BY <2>7 DEF MovesTo, MovesFit, o
    <3>5. moves[i].from + q - moves[i].to = moves[i].from + k
      BY <1>2, <2>2, <3>4
    <3>6. /\ Size(old) \in Nat \ {0} /\ (r - 1) * Size(old) \in Nat
          /\ \A g \in 1..Size(old) : Record(old, r)[g] = trd[(r - 1) * Size(old) + g]
      BY RecordIs
    <3>7. PICK g \in 1..Size(old) : g = moves[i].from + k
      <4>1. Size(old) \in Nat /\ k \in Nat /\ 1 <= k /\ k <= moves[i].len
        BY <1>2, <2>7, <3>6
      <4>2. moves[i].from + k \in 1..Size(old)
        BY <3>4, <4>1
      <4> QED
        BY <4>2
    <3> DEFINE M == (r - 1) * Size(old)
    <3>8. M \in Nat /\ Record(old, r)[g] = trd[M + g]
      BY <3>6
    <3> HIDE DEF M
    <3>9. M + g = M + moves[i].from + k
      BY <3>4, <3>7, <3>8
    <3>10. Record(old, r)[moves[i].from + k] = trd[M + moves[i].from + k]
      BY <3>7, <3>8, <3>9
    <3>11. W[m + o + k] = trd[M + moves[i].from + k]
      BY <2>3, <2>4, <3>3, <3>5, <3>10
    <3> QED
      BY <2>7, <3>11 DEF M, m
  <2>8. CASE ~ (i \in DOMAIN moves /\ k <= moves[i].len)
    <3>1. Moved(Record(old, r), moves, size)[q] = Blank
      BY <2>5, <2>6, <2>8
    <3>2. W[m + o + k] = Blank
      BY <2>3, <2>4, <3>1
    <3> QED
      BY <2>8, <3>2 DEF m
  <2> QED
    BY <2>7, <2>8
<1> HIDE DEF W, w, o, size
<1> QED
  BY <1>3, <1>4 DEF w, W

-----------------------------------------------------------------------------
(***************************************************************************)
(* The three ALTERs.                                                       *)
(***************************************************************************)
\* The fields that stay when one is dropped.
LEMMA WithoutIs ==
  ASSUME NEW fs \in Fields, NEW p \in DOMAIN fs
  PROVE  /\ Without(fs, p) \in Fields
         /\ DOMAIN Without(fs, p) = 1..Len(fs) - 1 /\ Len(Without(fs, p)) = Len(fs) - 1
         /\ \A i \in DOMAIN Without(fs, p) :
              /\ (IF i < p THEN i ELSE i + 1) \in DOMAIN fs \ {p}
              /\ Without(fs, p)[i] = fs[IF i < p THEN i ELSE i + 1]
<1> DEFINE n == Len(fs)
           left == SubSeq(fs, 1, p - 1)
           right == SubSeq(fs, p + 1, n)
<1>0. fs \in Seq(Field) /\ n \in Nat /\ DOMAIN fs = 1..n /\ p \in 1..n
  BY DEF Fields
<1>1. left \in Seq(Field) /\ Len(left) = p - 1 /\ \A i \in 1..p - 1 : left[i] = fs[i]
  BY <1>0
<1>2. right \in Seq(Field) /\ Len(right) = n - p /\ \A i \in 1..n - p : right[i] = fs[p + i]
  BY <1>0
<1> HIDE DEF left, right
<1>3. Without(fs, p) = left \o right
  BY DEF Without, left, right
<1>4. left \o right \in Seq(Field) /\ Len(left \o right) = n - 1
  <2>1. left \in Seq(Field) /\ right \in Seq(Field)
    BY <1>1, <1>2
  <2>2. left \o right \in Seq(Field) /\ Len(left \o right) = Len(left) + Len(right)
    BY <2>1
  <2> QED
    BY <1>0, <1>1, <1>2, <2>2
<1>5. ASSUME NEW i \in 1..n - 1
      PROVE  /\ (IF i < p THEN i ELSE i + 1) \in 1..n /\ (IF i < p THEN i ELSE i + 1) # p
             /\ (left \o right)[i] = fs[IF i < p THEN i ELSE i + 1]
  <2>1. CASE i < p
    BY <1>0, <1>1, <1>2, <2>1
  <2>2. CASE ~ (i < p)
    <3>1. i - (p - 1) \in 1..n - p /\ p + (i - (p - 1)) = i + 1
      BY <1>0, <2>2
    <3>2. (left \o right)[i] = right[i - (p - 1)]
      BY <1>0, <1>1, <1>2, <2>2, <3>1
    <3>3. right[i - (p - 1)] = fs[i + 1]
      BY <1>2, <3>1
    <3> QED
      BY <1>0, <2>2, <3>2, <3>3
  <2> QED
    BY <2>1, <2>2
<1>6. Without(fs, p) \in Fields /\ Len(Without(fs, p)) = n - 1
  BY <1>3, <1>4 DEF Fields
<1>7. DOMAIN Without(fs, p) = 1..n - 1
  BY <1>0, <1>6 DEF Fields
<1> QED
  BY <1>0, <1>3, <1>5, <1>6, <1>7

\* The moves of each ALTER read only within a record.
LEMMA AddFits ==
  ASSUME NEW old \in Fields, NEW new \in Fields, Len(old) <= Len(new)
  PROVE  MovesFit(old, AddMoves(old, new))
<1>1. Len(old) \in Nat /\ Len(new) \in Nat /\ DOMAIN old = 1..Len(old) /\ DOMAIN new = 1..Len(new)
  BY DEF Fields
<1>2. ASSUME NEW i \in DOMAIN old
      PROVE  /\ Offset(old, i) \in Nat /\ Offset(new, i) \in Nat /\ old[i].width \in Nat
             /\ Offset(old, i) + old[i].width <= Size(old)
  BY <1>1, Places, FieldType
<1> QED
  BY <1>1, <1>2 DEF MovesFit, AddMoves, Move

\* The same for DROP.
LEMMA DropFits ==
  ASSUME NEW old \in Fields, NEW p \in DOMAIN old
  PROVE  MovesFit(old, DropMoves(old, Without(old, p), p))
<1> DEFINE new == Without(old, p)
           from(i) == IF i < p THEN i ELSE i + 1
<1>1. new \in Fields /\ Len(old) - 1 \in Nat /\ DOMAIN new = 1..Len(old) - 1
  BY WithoutIs DEF Fields
<1>2. ASSUME NEW i \in DOMAIN new
      PROVE  /\ Offset(old, from(i)) \in Nat /\ Offset(new, i) \in Nat /\ old[from(i)].width \in Nat
             /\ Offset(old, from(i)) + old[from(i)].width <= Size(old)
  <2>1. from(i) \in DOMAIN old
    BY WithoutIs
  <2> HIDE DEF from
  <2> QED
    BY <1>1, <2>1, Places, FieldType
<1> HIDE DEF new
<1>3. DropMoves(old, new, p)
        = [i \in DOMAIN new |-> Move(Offset(old, from(i)), Offset(new, i), old[from(i)].width)]
  BY DEF DropMoves
<1> HIDE DEF from
<1> QED
  BY <1>1, <1>2, <1>3 DEF MovesFit, Move, new

\* The same for MODIFY.
LEMMA ModifyFits ==
  ASSUME NEW old \in Fields, NEW new \in Fields, Len(old) = Len(new)
  PROVE  MovesFit(old, ModifyMoves(old, new))
<1>1. Len(old) \in Nat /\ DOMAIN old = 1..Len(old) /\ DOMAIN new = DOMAIN old
  BY DEF Fields
<1>2. ASSUME NEW i \in DOMAIN old
      PROVE  /\ Offset(old, i) \in Nat /\ Offset(new, i) \in Nat
             /\ old[i].width \in Nat /\ new[i].width \in Nat
             /\ Offset(old, i) + old[i].width <= Size(old)
  BY <1>1, Places, FieldType
<1> DEFINE moves == ModifyMoves(old, new)
<1>3. ASSUME NEW i \in DOMAIN old
      PROVE  /\ moves[i].from \in Nat /\ moves[i].to \in Nat /\ moves[i].len \in Nat
             /\ moves[i].from + moves[i].len <= Size(old)
  <2>1. /\ moves[i].from = Offset(old, i) /\ moves[i].to = Offset(new, i)
        /\ moves[i].len = IF old[i].width < new[i].width THEN old[i].width ELSE new[i].width
    BY DEF ModifyMoves, Move
  <2>2. Size(old) \in Nat
    BY Places
  <2> HIDE DEF moves
  <2> QED
    BY <1>2, <2>1, <2>2
<1>4. DOMAIN moves = DOMAIN old
  BY DEF ModifyMoves
<1> HIDE DEF moves
<1>5. MovesFit(old, moves)
  BY <1>1, <1>3, <1>4 DEF MovesFit
<1> QED
  BY <1>5 DEF moves

\* After ADD the old columns read as before and the new one as zeros.
LEMMA AddLayout ==
  ASSUME NEW old \in Fields, old # <<>>, trd \in Seq(Word), NEW rows \in Seq(Row),
         Layout(old, trd, rows), NEW f \in Field, f.name \notin NamesIn(old)
  PROVE  LET new == Append(old, f)
         IN  Layout(new, Rewritten(old, new, AddMoves(old, new)),
                    [r \in DOMAIN rows |->
                       [d \in NamesIn(new) |-> IF d = f.name THEN Zeros(f.width) ELSE rows[r][d]]])
<1> DEFINE new == Append(old, f)
           moves == AddMoves(old, new)
           n == Len(old)
           rows2 == [r \in DOMAIN rows |->
                       [d \in NamesIn(new) |-> IF d = f.name THEN Zeros(f.width) ELSE rows[r][d]]]
<1>0. /\ n \in Nat /\ DOMAIN old = 1..n /\ new \in Fields /\ Len(new) = n + 1 /\ DOMAIN new = 1..n + 1
      /\ new[n + 1] = f /\ \A i \in 1..n : new[i] = old[i]
      /\ \A i \in 1..n : old[i].width \in Nat
  BY FieldType DEF Fields
<1> HIDE DEF new
<1>1. Count(old, trd) = Len(rows) /\ Len(rows) \in Nat /\ DOMAIN rows = 1..Len(rows)
  BY CountRows
<1>2. \A i \in 1..n : Offset(new, i) = Offset(old, i)
  <2>1. \A m \in 0..n : Ends(new)[m] = Ends(old)[m]
    BY <1>0, EndsSame, SMTT(40)
  <2> QED
    BY <1>0, <2>1 DEF Offset
<1>3. MovesTo(old, new, moves)
  <2>1. MovesFit(old, moves)
    BY <1>0, AddFits
  <2>2. DOMAIN moves \subseteq DOMAIN new
    BY <1>0 DEF AddMoves
  <2>3. \A i \in DOMAIN moves : moves[i].to = Offset(new, i) /\ moves[i].len <= new[i].width
    BY <1>0 DEF AddMoves, Move
  <2> QED
    BY <2>1, <2>2, <2>3 DEF MovesTo
<1>4. ASSUME NEW r \in DOMAIN rows, NEW i \in DOMAIN new
      PROVE  rows2[r][new[i].name] = Read(new, Rewritten(old, new, moves), r, i)
  <2>1. Read(new, Rewritten(old, new, moves), r, i)
          = [k \in 1..new[i].width |->
               IF i \in DOMAIN moves /\ k <= moves[i].len
                 THEN trd[(r - 1) * Size(old) + moves[i].from + k] ELSE Blank]
    BY <1>0, <1>1, <1>3, RewrittenField
  <2>2. new[i].name \in NamesIn(new)
    BY DEF NamesIn
  <2>3. CASE i \in 1..n
    <3>1. moves[i] = Move(Offset(old, i), Offset(new, i), old[i].width) /\ i \in DOMAIN moves
      BY <1>0, <2>3 DEF AddMoves
    <3>2. Read(old, trd, r, i)
            = [k \in 1..old[i].width |-> trd[(r - 1) * Size(old) + Offset(old, i) + k]]
      BY <1>0, <1>1, <2>3, ReadIs DEF Layout
    <3>3. rows[r][old[i].name] = Read(old, trd, r, i)
      BY <1>0, <2>3 DEF Layout
    <3>4. old[i].name # f.name
      BY <1>0, <2>3 DEF NamesIn
    <3>5. rows2[r][new[i].name] = rows[r][old[i].name]
      BY <1>0, <2>2, <2>3, <3>4
    <3>6. Read(new, Rewritten(old, new, moves), r, i)
            = [k \in 1..old[i].width |-> trd[(r - 1) * Size(old) + Offset(old, i) + k]]
      <4> HIDE DEF moves
      <4>1. /\ new[i].width = old[i].width /\ moves[i].len = old[i].width
            /\ moves[i].from = Offset(old, i) /\ old[i].width \in Nat
        BY <1>0, <2>3, <3>1 DEF Move
      <4> QED
        BY <2>1, <3>1, <4>1
    <3> QED
      BY <3>2, <3>3, <3>5, <3>6
  <2>4. CASE i = n + 1
    <3>1. i \notin DOMAIN moves
      BY <1>0, <2>4 DEF AddMoves
    <3>2. Read(new, Rewritten(old, new, moves), r, i) = Zeros(f.width)
      <4> HIDE DEF moves
      <4> QED
        BY <1>0, <2>1, <2>4, <3>1 DEF Zeros
    <3> QED
      BY <1>0, <2>2, <2>4, <3>2
  <2>5. i \in 1..n \/ i = n + 1
    BY <1>0
  <2> QED
    BY <2>3, <2>4, <2>5
<1>5. Len(Rewritten(old, new, moves)) = Count(old, trd) * Size(new)
  BY <1>0, <1>3, RewrittenIs DEF MovesTo
<1>6. Len(rows2) = Len(rows) /\ DOMAIN rows2 = DOMAIN rows /\ new # <<>>
  BY <1>0, <1>1
<1>7. Layout(new, Rewritten(old, new, moves), rows2)
  <2> HIDE DEF rows2, moves
  <2> QED
    BY <1>1, <1>4, <1>5, <1>6 DEF Layout
<1> QED
  BY <1>7 DEF new

\* After DROP the columns that are left read as before.
LEMMA DropLayout ==
  ASSUME NEW old \in Fields, NEW p \in DOMAIN old, trd \in Seq(Word), NEW rows \in Seq(Row),
         Layout(old, trd, rows)
  PROVE  LET new == Without(old, p)
         IN  Layout(new, Rewritten(old, new, DropMoves(old, new, p)),
                    IF new = <<>> THEN <<>>
                    ELSE [r \in DOMAIN rows |-> [d \in NamesIn(new) |-> rows[r][d]]])
<1> DEFINE new == Without(old, p)
           from(i) == IF i < p THEN i ELSE i + 1
           moves == DropMoves(old, new, p)
           W == Rewritten(old, new, moves)
           rows2 == [r \in DOMAIN rows |-> [d \in NamesIn(new) |-> rows[r][d]]]
<1>0. new \in Fields /\ \A i \in DOMAIN new : from(i) \in DOMAIN old /\ new[i] = old[from(i)]
  BY WithoutIs
<1> HIDE DEF new
<1>1. Count(old, trd) = Len(rows) /\ Len(rows) \in Nat /\ DOMAIN rows = 1..Len(rows)
  BY CountRows
<1>2. moves = [i \in DOMAIN new |-> Move(Offset(old, from(i)), Offset(new, i), old[from(i)].width)]
  BY DEF DropMoves
<1>3. MovesTo(old, new, moves)
  <2>1. MovesFit(old, moves)
    BY DropFits DEF new
  <2>2. DOMAIN moves = DOMAIN new
    BY <1>2
  <2>3. \A i \in DOMAIN new : moves[i].to = Offset(new, i) /\ moves[i].len = new[i].width /\ new[i].width \in Nat
    <3> HIDE DEF from
    <3> QED
      BY <1>0, <1>2, FieldType DEF Move
  <2> HIDE DEF moves
  <2> QED
    BY <2>1, <2>2, <2>3 DEF MovesTo
<1>4. Len(W) = Count(old, trd) * Size(new)
  BY <1>0, <1>3, RewrittenIs DEF MovesTo
<1> HIDE DEF from, moves
<1>5. ASSUME NEW r \in DOMAIN rows, NEW i \in DOMAIN new
      PROVE  rows2[r][new[i].name] = Read(new, W, r, i)
  <2> DEFINE j == from(i)
  <2>0. j \in DOMAIN old /\ new[i] = old[j] /\ old[j].width \in Nat
    BY <1>0, FieldType
  <2>1. W = Rewritten(old, new, moves) /\ r \in 1..Count(old, trd)
    BY <1>1
  <2>2. Read(new, W, r, i)
          = [k \in 1..new[i].width |->
               IF i \in DOMAIN moves /\ k <= moves[i].len
                 THEN trd[(r - 1) * Size(old) + moves[i].from + k] ELSE Blank]
    BY <1>0, <1>3, <2>1, RewrittenField
  <2>3. /\ i \in DOMAIN moves /\ moves[i].len = old[j].width /\ moves[i].from = Offset(old, j)
        /\ new[i].width = old[j].width
    BY <1>2, <2>0 DEF Move
  <2> HIDE DEF j, W
  <2>4. Read(new, W, r, i) = [k \in 1..old[j].width |-> trd[(r - 1) * Size(old) + Offset(old, j) + k]]
    BY <2>0, <2>2, <2>3
  <2>5. Read(old, trd, r, j)
          = [k \in 1..old[j].width |-> trd[(r - 1) * Size(old) + Offset(old, j) + k]]
    BY <1>1, <2>0, ReadIs DEF Layout
  <2>6. rows[r][old[j].name] = Read(old, trd, r, j)
    BY <2>0 DEF Layout
  <2>7. new[i].name \in NamesIn(new)
    BY DEF NamesIn
  <2>8. rows2[r][new[i].name] = rows[r][old[j].name]
    BY <2>0, <2>7
  <2> QED
    BY <2>4, <2>5, <2>6, <2>8
<1>6. Len(rows2) = Len(rows) /\ DOMAIN rows2 = DOMAIN rows
  BY <1>1
<1>7. CASE new = <<>>
  <2>1. Size(new) = 0
    BY <1>0, <1>7, Places
  <2>2. Len(W) = 0
    BY <1>1, <1>4, <2>1
  <2>3. Layout(new, W, <<>>)
    <3> HIDE DEF W
    <3> QED
      BY <2>1, <2>2 DEF Layout
  <2> QED
    BY <1>7, <2>3 DEF new, moves
<1>8. CASE new # <<>>
  <2>1. Layout(new, W, rows2)
    <3> HIDE DEF rows2, W
    <3> QED
      BY <1>1, <1>4, <1>5, <1>6, <1>8 DEF Layout
  <2> QED
    BY <1>8, <2>1 DEF new, moves
<1> QED
  BY <1>7, <1>8

\* MODIFY changes one width and nothing else.
LEMMA WidthSet ==
  ASSUME NEW fs \in Fields, NEW p \in DOMAIN fs, NEW w \in Widths
  PROVE  LET new == [fs EXCEPT ![p].width = w]
         IN  /\ new \in Fields /\ Len(new) = Len(fs) /\ DOMAIN new = DOMAIN fs
             /\ \A i \in DOMAIN fs :
                  /\ new[i].name = fs[i].name /\ new[i].order = fs[i].order
                  /\ new[i].width = (IF i = p THEN w ELSE fs[i].width)
                  /\ i # p => new[i] = fs[i]
                  /\ fs[i].width \in Nat /\ new[i].width \in Nat
<1> DEFINE new == [fs EXCEPT ![p].width = w]
           f == [fs[p] EXCEPT !.width = w]
<1>1. Len(fs) \in Nat /\ DOMAIN fs = 1..Len(fs) /\ \A i \in DOMAIN fs : fs[i] \in Field
  BY FieldType DEF Fields
<1>2. f \in Field /\ f.name = fs[p].name /\ f.order = fs[p].order /\ f.width = w
  BY <1>1 DEF Field
<1>3. new = [i \in DOMAIN fs |-> IF i = p THEN f ELSE fs[i]]
  OBVIOUS
<1> HIDE DEF new, f
<1>4. new \in Seq(Field) /\ Len(new) = Len(fs) /\ DOMAIN new = DOMAIN fs
  BY <1>1, <1>2, <1>3
<1>5. \A i \in DOMAIN fs : new[i] = IF i = p THEN f ELSE fs[i]
  BY <1>3
<1>6. \A i \in DOMAIN fs : fs[i].width \in Nat
  BY FieldType
<1> QED
  BY <1>2, <1>4, <1>5, <1>6, WidthsAssumption DEF new, Fields

\* After MODIFY one column reads cut or zero-filled, the others as before.
LEMMA ModifyLayout ==
  ASSUME NEW old \in Fields, Distinct(old), NEW p \in DOMAIN old, NEW w \in Widths,
         trd \in Seq(Word), NEW rows \in Seq(Row), Layout(old, trd, rows),
         \A r \in DOMAIN rows : DOMAIN rows[r] = NamesIn(old)
  PROVE  LET new == [old EXCEPT ![p].width = w]
         IN  Layout(new, Rewritten(old, new, ModifyMoves(old, new)),
                    [r \in DOMAIN rows |-> [rows[r] EXCEPT ![old[p].name] = Fit(@, w)]])
<1> DEFINE new == [old EXCEPT ![p].width = w]
           moves == ModifyMoves(old, new)
           W == Rewritten(old, new, moves)
           rows2 == [r \in DOMAIN rows |-> [rows[r] EXCEPT ![old[p].name] = Fit(@, w)]]
<1>0. /\ new \in Fields /\ Len(new) = Len(old) /\ DOMAIN new = DOMAIN old
      /\ \A i \in DOMAIN old :
           /\ new[i].name = old[i].name
           /\ new[i].width = (IF i = p THEN w ELSE old[i].width)
           /\ old[i].width \in Nat /\ new[i].width \in Nat
  BY WidthSet
<1> HIDE DEF new
<1>1. Count(old, trd) = Len(rows) /\ Len(rows) \in Nat /\ DOMAIN rows = 1..Len(rows)
  BY CountRows
<1>2. moves = [i \in DOMAIN old |->
                 Move(Offset(old, i), Offset(new, i),
                      IF old[i].width < new[i].width THEN old[i].width ELSE new[i].width)]
  BY DEF ModifyMoves
<1>3. MovesTo(old, new, moves)
  <2>1. MovesFit(old, moves)
    BY <1>0, ModifyFits
  <2>2. DOMAIN moves = DOMAIN new
    BY <1>0, <1>2
  <2>3. \A i \in DOMAIN new : moves[i].to = Offset(new, i) /\ moves[i].len <= new[i].width
    BY <1>0, <1>2 DEF Move
  <2> HIDE DEF moves
  <2> QED
    BY <2>1, <2>2, <2>3 DEF MovesTo
<1>4. Len(W) = Count(old, trd) * Size(new)
  BY <1>0, <1>3, RewrittenIs DEF MovesTo
<1> HIDE DEF moves
<1>5. ASSUME NEW r \in DOMAIN rows, NEW i \in DOMAIN new
      PROVE  rows2[r][new[i].name] = Read(new, W, r, i)
  <2> DEFINE value == Read(old, trd, r, i)
             words == [k \in 1..old[i].width |-> trd[(r - 1) * Size(old) + Offset(old, i) + k]]
  <2>1. W = Rewritten(old, new, moves) /\ r \in 1..Count(old, trd)
    BY <1>1
  <2>2. Read(new, W, r, i)
          = [k \in 1..new[i].width |->
               IF i \in DOMAIN moves /\ k <= moves[i].len
                 THEN trd[(r - 1) * Size(old) + moves[i].from + k] ELSE Blank]
    BY <1>0, <1>3, <2>1, RewrittenField
  <2>3. /\ i \in DOMAIN moves /\ moves[i].from = Offset(old, i)
        /\ moves[i].len = IF old[i].width < new[i].width THEN old[i].width ELSE new[i].width
    BY <1>0, <1>2 DEF Move
  <2>4. value = words /\ Len(value) = old[i].width
    BY <1>0, <1>1, ReadIs DEF Layout
  <2>5. rows[r][old[i].name] = value
    BY <1>0 DEF Layout
  <2> HIDE DEF W
  <2>6. Read(new, W, r, i) = [k \in 1..new[i].width |-> IF k <= old[i].width THEN words[k] ELSE Blank]
    <3>1. ASSUME NEW k \in 1..new[i].width
          PROVE  (IF i \in DOMAIN moves /\ k <= moves[i].len
                    THEN trd[(r - 1) * Size(old) + moves[i].from + k] ELSE Blank)
                   = IF k <= old[i].width THEN words[k] ELSE Blank
      <4>1. old[i].width \in Nat /\ new[i].width \in Nat /\ k \in Nat /\ 1 <= k /\ k <= new[i].width
        BY <1>0
      <4>2. k <= moves[i].len <=> k <= old[i].width
        BY <2>3, <4>1
      <4>3. k <= old[i].width => words[k] = trd[(r - 1) * Size(old) + Offset(old, i) + k]
        BY <4>1
      <4> HIDE DEF words
      <4> QED
        BY <2>3, <4>2, <4>3
    <3> HIDE DEF words
    <3> QED
      BY <2>2, <3>1
  <2>7. CASE i = p
    <3>1. old[p].name \in DOMAIN rows[r]
      BY <1>0, <2>7 DEF NamesIn
    <3>2. rows2[r][old[p].name] = Fit(value, w)
      BY <2>5, <2>7, <3>1
    <3>3. Fit(value, w) = [k \in 1..w |-> IF k <= old[i].width THEN words[k] ELSE Blank]
      BY <2>4 DEF Fit
    <3> QED
      BY <1>0, <2>6, <2>7, <3>2, <3>3
  <2>8. CASE i # p
    <3>1. old[i].name # old[p].name
      BY <1>0, <2>8 DEF Distinct
    <3>2. old[i].name \in DOMAIN rows[r]
      BY <1>0 DEF NamesIn
    <3>3. rows2[r][old[i].name] = value
      BY <2>5, <3>1, <3>2
    <3>4. Read(new, W, r, i) = words
      <4>1. new[i].width = old[i].width /\ old[i].width \in Nat
        BY <1>0, <2>8
      <4> QED
        BY <2>6, <4>1
    <3> QED
      BY <1>0, <2>4, <3>3, <3>4
  <2> QED
    BY <2>7, <2>8
<1>6. Len(rows2) = Len(rows) /\ DOMAIN rows2 = DOMAIN rows
  BY <1>1
<1>7. Layout(new, W, rows2)
  <2>1. new # <<>>
    BY <1>0 DEF Fields
  <2> HIDE DEF rows2, W
  <2> QED
    BY <1>1, <1>4, <1>5, <1>6, <2>1 DEF Layout
<1> QED
  BY <1>7 DEF new, moves

-----------------------------------------------------------------------------
(***************************************************************************)
(* Names, rows and file sets.                                              *)
(***************************************************************************)
\* The files besides .tb, as a set.
LEMMA OthersSet ==
  /\ ToSet(Others) = {"tdf", "trd", "tic", "tid"}
  /\ Others \in Seq(Names \cup ToSet(Others))
<1>1. Others = <<"tdf", "trd", "tic", "tid">>
  BY DEF Others
<1>2. DOMAIN Others = 1..4
  BY <1>1
<1>3. ToSet(Others) = {"tdf", "trd", "tic", "tid"}
  BY <1>1, <1>2 DEF ToSet
<1>4. Others \in Seq({"tdf", "trd", "tic", "tid"})
  BY <1>1
<1>5. Others \in Seq(Names \cup {"tdf", "trd", "tic", "tid"})
  BY <1>4
<1> QED
  BY <1>3, <1>5

\* A row gives each of some columns words.
LEMMA RowIs ==
  ASSUME NEW f, f = [d \in DOMAIN f |-> f[d]]
  PROVE  f \in Row <=> DOMAIN f \subseteq Names /\ \A d \in DOMAIN f : f[d] \in Seq(Word)
<1>1. ASSUME f \in Row PROVE DOMAIN f \subseteq Names /\ \A d \in DOMAIN f : f[d] \in Seq(Word)
  <2>1. PICK D \in SUBSET Names : f \in [D -> Seq(Word)]
    BY <1>1 DEF Row
  <2> QED
    BY <2>1
<1>2. ASSUME DOMAIN f \subseteq Names, \A d \in DOMAIN f : f[d] \in Seq(Word) PROVE f \in Row
  <2>1. DOMAIN f \in SUBSET Names /\ f \in [DOMAIN f -> Seq(Word)]
    BY <1>2
  <2> QED
    BY <2>1 DEF Row
<1> QED
  BY <1>1, <1>2

\* A row is a function.
LEMMA RowFunction ==
  ASSUME NEW f \in Row
  PROVE  /\ f = [d \in DOMAIN f |-> f[d]]
         /\ DOMAIN f \subseteq Names /\ \A d \in DOMAIN f : f[d] \in Seq(Word)
<1>1. PICK D \in SUBSET Names : f \in [D -> Seq(Word)]
  BY DEF Row
<1> QED
  BY <1>1

\* The names in a field list are column names.
LEMMA NamesInNames ==
  ASSUME NEW fs \in Fields
  PROVE  NamesIn(fs) \subseteq Names
BY FieldType DEF NamesIn

\* A field list with one field more.
LEMMA AppendIs ==
  ASSUME NEW fs \in Fields, NEW f \in Field
  PROVE  /\ Append(fs, f) \in Fields /\ Len(Append(fs, f)) = Len(fs) + 1
         /\ NamesIn(Append(fs, f)) = NamesIn(fs) \cup {f.name}
         /\ Distinct(fs) /\ f.name \notin NamesIn(fs) => Distinct(Append(fs, f))
<1> DEFINE new == Append(fs, f)
           n == Len(fs)
<1>1. /\ n \in Nat /\ DOMAIN fs = 1..n /\ new \in Fields /\ DOMAIN new = 1..n + 1 /\ Len(new) = n + 1
      /\ \A i \in 1..n : new[i] = fs[i]
      /\ new[n + 1] = f
  BY DEF Fields
<1> HIDE DEF new, n
<1>2. \A i \in 1..n + 1 : i \in 1..n \/ i = n + 1
  BY <1>1
<1>3. 1..n \subseteq 1..n + 1 /\ n + 1 \in 1..n + 1
  BY <1>1
<1>4. NamesIn(new) = NamesIn(fs) \cup {f.name}
  BY <1>1, <1>2, <1>3 DEF NamesIn
<1>5. ASSUME Distinct(fs), f.name \notin NamesIn(fs) PROVE Distinct(new)
  BY <1>1, <1>2, <1>5 DEF Distinct, NamesIn
<1> QED
  BY <1>1, <1>4, <1>5 DEF new, n

\* Leaving out a field keeps names once and the order.
LEMMA WithoutNames ==
  ASSUME NEW fs \in Fields, NEW p \in DOMAIN fs
  PROVE  /\ NamesIn(Without(fs, p)) \subseteq NamesIn(fs)
         /\ Distinct(fs) => Distinct(Without(fs, p))
         /\ Ordered(fs) => Ordered(Without(fs, p))
<1> DEFINE new == Without(fs, p)
           from(i) == IF i < p THEN i ELSE i + 1
<1>1. /\ Len(fs) \in Nat /\ DOMAIN fs = 1..Len(fs) /\ DOMAIN new = 1..Len(fs) - 1
      /\ \A i \in DOMAIN new : from(i) \in DOMAIN fs /\ new[i] = fs[from(i)]
  BY WithoutIs DEF Fields
<1> HIDE DEF new
<1>2. \A i, j \in DOMAIN new : (i < j => from(i) < from(j)) /\ (from(i) = from(j) => i = j)
  BY <1>1
<1> HIDE DEF from
<1> QED
  BY <1>1, <1>2 DEF NamesIn, Distinct, Ordered, new

\* The field list of UpdateField.
Replaced(fs, f) == [fs EXCEPT ![Find(fs, f.name)] = f]

\* UpdateField keeps the number of fields.
LEMMA ReplacedIs ==
  ASSUME NEW fs \in Fields, NEW f \in Field
  PROVE  Replaced(fs, f) \in Fields /\ Len(Replaced(fs, f)) = Len(fs)
<1> DEFINE k == Find(fs, f.name)
<1> HIDE DEF k
<1>1. [fs EXCEPT ![k] = f] \in Seq(Field) /\ Len([fs EXCEPT ![k] = f]) = Len(fs)
  <2>1. Len(fs) \in Nat /\ DOMAIN fs = 1..Len(fs) /\ \A i \in DOMAIN fs : fs[i] \in Field
    BY FieldType DEF Fields
  <2> DEFINE g == [i \in 1..Len(fs) |-> IF i = k THEN f ELSE fs[i]]
  <2>2. [fs EXCEPT ![k] = f] = g
    <3>1. fs = [i \in 1..Len(fs) |-> fs[i]]
      BY <2>1 DEF Fields
    <3> QED
      BY <2>1, <3>1
  <2>3. g \in Seq(Field) /\ Len(g) = Len(fs)
    BY <2>1
  <2> QED
    BY <2>2, <2>3
<1> QED
  BY <1>1 DEF k, Replaced, Fields

\* UpdateField changes the field whose records MODIFY has changed: the first of its name.
LEMMA ReplacedWidth ==
  ASSUME NEW fs \in Fields, NEW p \in DOMAIN fs, p = Find(fs, fs[p].name), NEW w \in Widths
  PROVE  LET new == [fs EXCEPT ![p].width = w]
         IN  /\ new[p] \in Field /\ new[p].name = fs[p].name
             /\ Replaced(fs, new[p]) = new
<1> DEFINE new == [fs EXCEPT ![p].width = w]
<1>1. /\ new \in Fields /\ DOMAIN new = DOMAIN fs
      /\ \A i \in DOMAIN fs : new[i].name = fs[i].name /\ (i # p => new[i] = fs[i])
  BY WidthSet
<1>2. new = [i \in DOMAIN fs |-> new[i]]
  BY <1>1
<1> HIDE DEF new
<1>3. new[p] \in Field
  BY <1>1, FieldType
<1>4. [fs EXCEPT ![p] = new[p]] = new
  BY <1>1, <1>2
<1>5. Replaced(fs, new[p]) = [fs EXCEPT ![p] = new[p]]
  BY <1>1 DEF Replaced
<1> QED
  BY <1>1, <1>3, <1>4, <1>5 DEF new

\* Numbers that are kept are reached by counting up to them.
LEMMA KeptRank ==
  ASSUME NEW n \in Nat, NEW K \in SUBSET (1..n)
  PROVE  /\ Cardinality(K) \in Nat
         /\ \A r \in 1..Cardinality(K) : \E i \in K : Cardinality({j \in K : j <= i}) = r
<1> DEFINE m == Cardinality(K)
           upTo(i) == {j \in K : j <= i}
           rank == [i \in K |-> Cardinality(upTo(i))]
<1>1. IsFiniteSet(K) /\ m \in Nat
  <2>1. 1 \in Int /\ n \in Int
    OBVIOUS
  <2>2. IsFiniteSet(1..n)
    BY <2>1, FS_Interval
  <2>3. IsFiniteSet(K)
    BY <2>2, FS_Subset
  <2> QED
    BY <2>3, FS_CardinalityType
<1>2. IsFiniteSet(1..m) /\ Cardinality(1..m) = m
  <2>1. 1 \in Int /\ m \in Int
    BY <1>1
  <2>2. IsFiniteSet(1..m) /\ Cardinality(1..m) = IF 1 > m THEN 0 ELSE m - 1 + 1
    BY <2>1, FS_Interval
  <2> QED
    BY <1>1, <2>2
<1>3. ASSUME NEW i \in K PROVE IsFiniteSet(upTo(i)) /\ rank[i] \in 1..m
  <2>1. upTo(i) \subseteq K /\ i \in upTo(i)
    OBVIOUS
  <2>2. IsFiniteSet(upTo(i)) /\ Cardinality(upTo(i)) <= m
    BY <1>1, <2>1, FS_Subset
  <2>3. Cardinality(upTo(i)) \in Nat /\ (Cardinality(upTo(i)) = 0 <=> upTo(i) = {})
    BY <2>2, FS_CardinalityType, FS_EmptySet
  <2> QED
    BY <1>1, <2>1, <2>2, <2>3
<1>4. ASSUME NEW i \in K, NEW j \in K, i < j PROVE rank[i] < rank[j]
  <2>1. upTo(i) \cup {j} \subseteq upTo(j) /\ j \notin upTo(i)
    <3>1. i \in Int /\ j \in Int /\ \A x \in K : x \in Int
      OBVIOUS
    <3>2. \A x \in K : (x <= i => x <= j) /\ (x = j => ~ (x <= i) /\ x <= j)
      BY <1>4, <3>1
    <3> QED
      BY <3>2
  <2>2. Cardinality(upTo(i) \cup {j}) = Cardinality(upTo(i)) + 1
    BY <1>3, <2>1, FS_AddElement
  <2>3. Cardinality(upTo(i) \cup {j}) <= Cardinality(upTo(j))
    BY <1>3, <2>1, FS_Subset
  <2> HIDE DEF upTo
  <2> QED
    BY <1>3, <2>2, <2>3
<1>5. ASSUME NEW i \in K, NEW j \in K, rank[i] = rank[j] PROVE i = j
  <2>1. rank[i] \in Int /\ rank[j] \in Int
    BY <1>3
  <2>2. ~ (i < j) /\ ~ (j < i)
    BY <1>4, <1>5, <2>1
  <2> QED
    BY <2>2
<1>6. rank \in [K -> 1..m]
  BY <1>3
<1>7. rank \in Injection(K, 1..m)
  <2> HIDE DEF rank
  <2> QED
    BY <1>5, <1>6 DEF Injection, IsInjective
<1>8. rank \in Surjection(K, 1..m)
  <2> HIDE DEF rank
  <2> QED
    BY <1>1, <1>2, <1>7, FS_Injection
<1>9. \A r \in 1..m : \E i \in K : rank[i] = r
  <2> HIDE DEF rank
  <2> QED
    BY <1>8 DEF Surjection
<1> QED
  BY <1>1, <1>9

\* dropField keeps a part of the field list; with names once it leaves out one
\* field, the one whose bytes were cut out of the records.
LEMMA ExceptIs ==
  ASSUME NEW fs \in Fields, NEW p \in DOMAIN fs
  PROVE  /\ Except(fs, fs[p].name) \in Fields
         /\ NamesIn(Except(fs, fs[p].name)) \subseteq NamesIn(fs)
         /\ Distinct(fs) => Except(fs, fs[p].name) = Without(fs, p)
<1> DEFINE c == fs[p].name
           n == Len(fs)
           K == {i \in DOMAIN fs : fs[i].name # c}
           m == Cardinality(K)
           at == [r \in 1..m |-> CHOOSE i \in K : Cardinality({j \in K : j <= i}) = r]
<1>1. n \in Nat /\ DOMAIN fs = 1..n /\ p \in 1..n /\ \A i \in 1..n : fs[i] \in Field
  BY FieldType DEF Fields
<1>2. K \in SUBSET (1..n)
  BY <1>1
<1>3. m \in Nat /\ \A r \in 1..m : \E i \in K : Cardinality({j \in K : j <= i}) = r
  <2> HIDE DEF K
  <2> QED
    BY <1>1, <1>2, KeptRank
<1>4. \A r \in 1..m : at[r] \in K /\ Cardinality({j \in K : j <= at[r]}) = r
  <2> HIDE DEF K, m
  <2> QED
    BY <1>3
<1>5. Except(fs, c) = [r \in 1..m |-> fs[at[r]]]
  BY DEF Except
<1> HIDE DEF at
<1>6. \A r \in 1..m : at[r] \in 1..n
  BY <1>2, <1>4
<1>7. Except(fs, c) \in Seq(Field) /\ DOMAIN Except(fs, c) = 1..m
  <2> HIDE DEF m
  <2> QED
    BY <1>1, <1>3, <1>5, <1>6
<1>8. NamesIn(Except(fs, c)) \subseteq NamesIn(fs)
  <2> HIDE DEF m
  <2> QED
    BY <1>1, <1>5, <1>6, <1>7 DEF NamesIn
<1>9. ASSUME Distinct(fs) PROVE Except(fs, c) = Without(fs, p)
  <2>1. K = (1..n) \ {p}
    BY <1>1, <1>9 DEF Distinct
  <2>2. \A i \in 0..n : IsFiniteSet(1..i) /\ Cardinality(1..i) = i
    <3>1. SUFFICES ASSUME NEW i \in 0..n PROVE IsFiniteSet(1..i) /\ Cardinality(1..i) = i
      OBVIOUS
    <3>2. 1 \in Int /\ i \in Int /\ i \in Nat
      BY <1>1
    <3>3. IsFiniteSet(1..i) /\ Cardinality(1..i) = IF 1 > i THEN 0 ELSE i - 1 + 1
      BY <3>2, FS_Interval
    <3> QED
      BY <3>2, <3>3
  <2>3. \A i \in p..n : Cardinality((1..i) \ {p}) = i - 1
    <3>1. SUFFICES ASSUME NEW i \in p..n PROVE Cardinality((1..i) \ {p}) = i - 1
      OBVIOUS
    <3>2. i \in 0..n /\ p \in 1..i
      BY <1>1
    <3> QED
      BY <2>2, <3>2, FS_RemoveElement
  <2>4. m = n - 1
    <3>1. n \in p..n
      BY <1>1
    <3> QED
      BY <2>1, <2>3, <3>1
  <2>5. ASSUME NEW i \in K
        PROVE  Cardinality({j \in K : j <= i}) = IF i < p THEN i ELSE i - 1
    <3>1. i \in 1..n /\ i # p
      BY <2>1
    <3>2. CASE i < p
      <4>1. {j \in K : j <= i} = 1..i
        BY <1>1, <2>1, <3>1, <3>2
      <4>2. Cardinality(1..i) = i
        BY <1>1, <2>2, <3>1
      <4> QED
        BY <3>2, <4>1, <4>2
    <3>3. CASE ~ (i < p)
      <4>1. {j \in K : j <= i} = (1..i) \ {p} /\ i \in p..n
        BY <1>1, <2>1, <3>1, <3>3
      <4> QED
        BY <2>3, <3>3, <4>1
    <3> QED
      BY <3>2, <3>3
  <2>6. ASSUME NEW r \in 1..n - 1 PROVE at[r] = IF r < p THEN r ELSE r + 1
    <3>1. r \in 1..m
      BY <2>4
    <3>2. at[r] \in K /\ (IF at[r] < p THEN at[r] ELSE at[r] - 1) = r
      <4> DEFINE a == at[r]
      <4>1. a \in K /\ Cardinality({j \in K : j <= a}) = r
        BY <1>4, <3>1
      <4> HIDE DEF a, K
      <4>2. (IF a < p THEN a ELSE a - 1) = r
        BY <2>5, <4>1
      <4> QED
        BY <4>1, <4>2 DEF a
    <3>3. at[r] \in 1..n /\ at[r] # p
      BY <2>1, <3>2
    <3> QED
      BY <1>1, <3>2, <3>3
  <2>7. /\ Without(fs, p) \in Seq(Field) /\ DOMAIN Without(fs, p) = 1..n - 1
        /\ \A r \in 1..n - 1 : Without(fs, p)[r] = fs[IF r < p THEN r ELSE r + 1]
    BY WithoutIs DEF Fields
  <2>8. Without(fs, p) = [r \in 1..n - 1 |-> Without(fs, p)[r]]
    BY <2>7
  <2>9. Except(fs, c) = [r \in 1..n - 1 |-> fs[at[r]]]
    BY <1>5, <2>4
  <2> QED
    BY <2>6, <2>7, <2>8, <2>9
<1> QED
  BY <1>7, <1>8, <1>9 DEF Fields

\* The field list CREATE TABLE writes: numbers in order.
LEMMA FieldListIs ==
  ASSUME NEW fs \in Creations
  PROVE  /\ FieldList(fs) \in Fields /\ Len(FieldList(fs)) = Len(fs) /\ Len(fs) \in Nat
         /\ Ordered(FieldList(fs))
         /\ Required[fs] \in Seq(Names)
<1>1. /\ fs \in Seq(Names \X Widths)
      /\ Required[fs] \in Seq({fs[i][1] : i \in DOMAIN fs})
  BY CreationsAssumption
<1>2. /\ Len(fs) \in Nat /\ DOMAIN fs = 1..Len(fs)
      /\ \A i \in 1..Len(fs) : fs[i][1] \in Names /\ fs[i][2] \in Widths /\ i - 1 \in Nat
  BY <1>1
<1> DEFINE new == FieldList(fs)
<1>3. /\ new = [i \in 1..Len(fs) |-> new[i]]
      /\ \A i \in 1..Len(fs) : new[i] = [name |-> fs[i][1], order |-> i - 1, width |-> fs[i][2]]
  BY <1>2 DEF FieldList
<1> HIDE DEF new
<1>4. \A i \in 1..Len(fs) : new[i] \in Field /\ new[i].name = fs[i][1] /\ new[i].order = i - 1
  BY <1>2, <1>3 DEF Field
<1>5. new \in Seq(Field) /\ Len(new) = Len(fs) /\ DOMAIN new = 1..Len(fs)
  BY <1>2, <1>3, <1>4
<1>6. Ordered(new)
  BY <1>2, <1>4, <1>5 DEF Ordered
<1>7. Required[fs] \in Seq(Names)
  <2>1. {fs[i][1] : i \in DOMAIN fs} \subseteq Names
    BY <1>2
  <2> QED
    BY <1>1, <2>1
<1> QED
  BY <1>2, <1>5, <1>6, <1>7 DEF Fields, new

-----------------------------------------------------------------------------
(***************************************************************************)
(* The invariant.                                                          *)
(***************************************************************************)
\* The field list there will be when the running statement has written it.
Coming ==
  IF pc \in {"rewrite", "put"} /\ kind = "add" THEN Append(tdf, field)
  ELSE IF pc \in {"rewrite", "put"} /\ kind = "drop" THEN queue
  ELSE IF pc \in {"rewrite", "put"} /\ kind = "modify" THEN Replaced(tdf, field)
  ELSE IF pc = "tdf" THEN queue
  ELSE IF pc = "field" THEN tdf \o queue
  ELSE tdf

\* The records there will be.
Data == IF pc = "rewrite" THEN buf ELSE trd

Creating == pc \in {"tdf", "tic", "tid", "require"} \/ (pc = "field" /\ kind = "create")

\* Which statement can be where, and that all but DROP TABLE have a table.
Phases ==
  /\ pc # "trd"
  /\ pc \in {"tdf", "tic", "tid", "require"} => kind = "create"
  /\ pc = "field" => kind \in {"create", "drop"}
  /\ pc \in {"rewrite", "put"} => kind \in {"add", "drop", "modify"}
  /\ pc = "meta" => kind \in {"add", "drop"}
  /\ pc = "count" => kind = "insert"
  /\ pc = "delete" => kind = "dropTable"
  /\ pc \notin {"idle", "delete"} => tb # None

Types == TypeOK /\ want \in Seq(Row) /\ Phases

NamesOnce == ~ doubled => Distinct(tdf) /\ Distinct(Coming)

\* How far CREATE TABLE has come.
CreatingInv ==
  Creating =>
    /\ want = <<>>
    /\ \E fs \in Creations :
         /\ tb = [fields |-> Len(fs), records |-> 0]
         /\ Coming = FieldList(fs)
         /\ pc # "require" => rest = Required[fs]
         /\ pc # "tdf" => "tdf" \in files
         /\ pc \in {"tic", "tid", "require"} => "trd" \in files /\ trd = <<>>
         /\ pc = "tid" => "tic" \in files /\ tic = <<>>
         /\ pc = "require" => files = ToSet(Others) /\ tic \o rest = Required[fs]

\* What DROP TABLE has still to delete.
DroppingInv == pc = "delete" => tb = None /\ want = <<>> /\ files \subseteq ToSet(rest)

\* Without a crash a table has all its files, and no table has none.
FilesInv ==
  crashes = 0 =>
    /\ pc = "idle" /\ tb = None => files = {}
    /\ tb # None /\ ~ Creating => files = ToSet(Others)
    /\ "tdf" \notin files => tdf = <<>>
    /\ "trd" \notin files => trd = <<>>

\* By how much the field count lags behind the field list that is coming.
FieldsDue ==
  IF pc \in {"rewrite", "put", "meta"} /\ kind = "add" THEN 0 - 1
  ELSE IF pc \in {"rewrite", "put", "field", "meta"} /\ kind = "drop" THEN 1
  ELSE 0

CountsInv ==
  crashes = 0 /\ ~ doubled /\ tb # None =>
    /\ tb.fields = Len(Coming) + FieldsDue
    /\ Coming # <<>> => tb.records + (IF pc = "count" THEN 1 ELSE 0) = Len(want)

Columns == crashes = 0 => \A r \in DOMAIN want : DOMAIN want[r] = NamesIn(Coming)

\* The records that are coming hold the rows, laid out by the field list that is coming.
RowsInv ==
  crashes = 0 /\ ~ mixed /\ ~ doubled /\ pc # "delete" => Ordered(Coming) /\ Layout(Coming, Data, want)

IInv ==
  /\ Types /\ NamesOnce /\ CreatingInv /\ DroppingInv /\ FilesInv /\ CountsInv /\ Columns /\ RowsInv
  /\ CreatedWhole /\ DroppedWhole

-----------------------------------------------------------------------------
(***************************************************************************)
(* The steps that carry out what a statement has begun.                    *)
(***************************************************************************)
\* What is coming has the types of what it will replace.
LEMMA ComingType ==
  ASSUME Types
  PROVE  Coming \in Fields /\ tdf \in Fields /\ Data \in Seq(Word)
<1>1. tdf \in Seq(Field) /\ queue \in Seq(Field) /\ field \in Field /\ buf \in Seq(Word) /\ trd \in Seq(Word)
  BY DEF Types, TypeOK
<1>2. Append(tdf, field) \in Fields /\ tdf \o queue \in Fields /\ Replaced(tdf, field) \in Fields
  BY <1>1, ReplacedIs DEF Fields
<1> QED
  BY <1>1, <1>2 DEF Coming, Data, Fields

\* Writing the head of a queue to the end of a list keeps the two together as they are.
LEMMA OneMoved ==
  ASSUME NEW S, NEW s \in Seq(S), NEW q \in Seq(S), q # <<>>
  PROVE  Append(s, Head(q)) \o Tail(q) = s \o q
<1>1. Head(q) \in S /\ Tail(q) \in Seq(S) /\ Len(Tail(q)) = Len(q) - 1 /\ Len(q) \in Nat \ {0} /\ Len(s) \in Nat
  OBVIOUS
<1> DEFINE a == Append(s, Head(q)) \o Tail(q)
           b == s \o q
<1>2. Append(s, Head(q)) \in Seq(S) /\ Len(Append(s, Head(q))) = Len(s) + 1
  BY <1>1
<1>3. a \in Seq(S) /\ Len(a) = Len(s) + 1 + (Len(q) - 1)
  BY <1>1, <1>2
<1>4. b \in Seq(S) /\ Len(b) = Len(s) + Len(q)
  BY <1>1
<1>5. ASSUME NEW i \in 1..Len(s) + Len(q) PROVE a[i] = b[i]
  BY <1>1, <1>2
<1> HIDE DEF a, b
<1>6. Len(a) = Len(b) /\ DOMAIN a = 1..Len(a) /\ DOMAIN b = 1..Len(b)
  BY <1>1, <1>3, <1>4
<1>7. a = [i \in 1..Len(a) |-> a[i]] /\ b = [i \in 1..Len(b) |-> b[i]]
  BY <1>3, <1>4
<1>8. a = b
  BY <1>1, <1>4, <1>5, <1>6, <1>7
<1> QED
  BY <1>8 DEF a, b

\* The steps that bring what is coming nearer and change none of it.
Working ==
  \/ CreateTdf \/ AppendField \/ CreateTrd \/ CreateTic \/ CreateTid \/ AddIntegrity \/ CreateDone
  \/ InsertCount \/ RewriteRecords \/ AddField \/ UpdateField \/ ClearFields \/ FieldsBack \/ CountFields

\* They change neither what is coming nor what the rows should be.
LEMMA ComingSame ==
  ASSUME Types, Working
  PROVE  /\ Coming' = Coming /\ UNCHANGED <<want, mixed, doubled, alters, crashes, kind>>
         /\ Data' = Data \/ (Data' = <<>> /\ Creating)
         /\ Creating' => Creating
<1>1. tdf \in Seq(Field) /\ queue \in Seq(Field) /\ field \in Field
  BY DEF Types, TypeOK
<1>2. <<>> \o queue = queue /\ tdf \o <<>> = tdf
  BY <1>1
<1> USE DEF Goto, End, Forget, history, disk, locals, Data, Creating
<1>3. CASE CreateTdf
  BY <1>2, <1>3 DEF CreateTdf, Coming
<1>4. CASE AppendField
  <2>1. tdf' \o queue' = tdf \o queue
    BY <1>1, <1>4, OneMoved DEF AppendField
  <2> QED
    BY <1>4, <2>1 DEF AppendField, Coming
<1>5. CASE CreateTrd
  BY <1>2, <1>5 DEF CreateTrd, Coming
<1>6. CASE CreateTic \/ CreateTid \/ AddIntegrity \/ CreateDone
  BY <1>6 DEF CreateTic, CreateTid, AddIntegrity, CreateDone, Coming
<1>7. CASE InsertCount \/ CountFields
  BY <1>7 DEF InsertCount, CountFields, CountFieldsBy, Coming
<1>8. CASE RewriteRecords
  BY <1>8 DEF RewriteRecords, Coming
<1>9. CASE AddField
  BY <1>9 DEF AddField, Coming
<1>10. CASE UpdateField
  <2>1. tdf' = Replaced(tdf, field)
    BY <1>10 DEF UpdateField, Replaced
  <2> QED
    BY <1>10, <2>1 DEF UpdateField, Coming
<1>11. CASE ClearFields
  BY <1>2, <1>11 DEF ClearFields, Coming
<1>12. CASE FieldsBack
  BY <1>2, <1>12 DEF FieldsBack, Coming
<1> QED
  BY <1>3, <1>4, <1>5, <1>6, <1>7, <1>8, <1>9, <1>10, <1>11, <1>12 DEF Working

\* A first part of a list with names once has names once.
LEMMA DistinctPrefix ==
  ASSUME NEW s \in Seq(Field), NEW q \in Seq(Field), Distinct(s \o q)
  PROVE  Distinct(s)
<1> DEFINE a == s \o q
<1>1. Len(s) \in Nat /\ DOMAIN s = 1..Len(s) /\ \A i \in 1..Len(s) : i \in DOMAIN a /\ a[i] = s[i]
  OBVIOUS
<1> HIDE DEF a
<1> QED
  BY <1>1 DEF Distinct, a

\* Working steps keep the types.
LEMMA WorkingTypes ==
  ASSUME IInv, Working
  PROVE  Types'
<1>1. /\ tdf \in Seq(Field) /\ queue \in Seq(Field) /\ field \in Field /\ NoField \in Field
      /\ trd \in Seq(Word) /\ buf \in Seq(Word) /\ tic \in Seq(Names)
      /\ rest \in Seq(Names \cup ToSet(Others))
  BY WidthsAssumption DEF IInv, Types, TypeOK, NoField, Field
<1>11. \A S : <<>> \in Seq(S)
  OBVIOUS
<1>12. \A S : \A s \in Seq(S) : s # <<>> => Tail(s) \in Seq(S)
  OBVIOUS
<1>2. UNCHANGED <<want, mixed, doubled, alters, crashes, kind>>
  BY ComingSame DEF IInv
<1>3. tb' # None => tb' \in [fields : Int, records : Nat] /\ (crashes' = 0 /\ ~ doubled' => tb'.fields \in Nat)
  <2>1. tb # None => tb \in [fields : Int, records : Nat] /\ (crashes = 0 /\ ~ doubled => tb.fields \in Nat)
    BY DEF IInv, Types, TypeOK
  <2>2. CASE InsertCount
    <3>1. tb # None /\ tb' = [tb EXCEPT !.records = @ + 1]
      BY <2>2 DEF InsertCount, IInv, Types, Phases
    <3> QED
      BY <1>2, <2>1, <3>1
  <2>3. CASE CountFields
    <3>1. tb # None /\ pc = "meta" /\ kind \in {"add", "drop"}
      BY <2>3 DEF CountFields, CountFieldsBy, IInv, Types, Phases
    <3> DEFINE n == IF kind = "add" THEN 1 ELSE 0 - 1
    <3>2. tb' = [tb EXCEPT !.fields = @ + n] /\ n \in Int /\ (kind = "drop" => n = 0 - 1)
      BY <2>3, <3>1 DEF CountFields, CountFieldsBy
    <3> HIDE DEF n
    <3>3. tb' \in [fields : Int, records : Nat] /\ tb'.fields = tb.fields + n
      BY <2>1, <3>1, <3>2
    <3>4. crashes = 0 /\ ~ doubled => tb'.fields \in Nat
      <4>1. crashes = 0 /\ ~ doubled => tb.fields \in Nat
        BY <2>1, <3>1
      <4>2. CASE kind = "add"
        <5>1. n = 1
          BY <4>2 DEF n
        <5> QED
          BY <3>3, <4>1, <5>1
      <4>3. CASE kind = "drop"
        <5>1. Len(Coming) \in Nat
          BY ComingType DEF IInv, Fields
        <5>2. crashes = 0 /\ ~ doubled => tb.fields = Len(Coming) + 1
          BY <3>1, <4>3 DEF IInv, CountsInv, FieldsDue
        <5> QED
          BY <3>2, <3>3, <4>3, <5>1, <5>2
      <4> QED
        BY <3>1, <4>2, <4>3
    <3> QED
      BY <1>2, <3>3, <3>4
  <2>4. CASE ~ InsertCount /\ ~ CountFields
    <3>1. UNCHANGED tb
      BY <2>4 DEF Working, CreateTdf, AppendField, CreateTrd, CreateTic, CreateTid, AddIntegrity,
         CreateDone, InsertCount, RewriteRecords, AddField, UpdateField, ClearFields, FieldsBack,
         CountFields, CountFieldsBy, disk
    <3> QED
      BY <1>2, <2>1, <3>1
  <2> QED
    BY <2>2, <2>3, <2>4
<1>4. tdf' \in Seq(Field)
  <2>1. \/ tdf' = tdf \/ tdf' = <<>> \/ (queue # <<>> /\ tdf' = Append(tdf, Head(queue)))
        \/ tdf' = Append(tdf, field) \/ tdf' = Replaced(tdf, field)
    BY DEF Working, CreateTdf, AppendField, CreateTrd, CreateTic, CreateTid, AddIntegrity,
         CreateDone, InsertCount, RewriteRecords, AddField, UpdateField, ClearFields, FieldsBack,
         CountFields, CountFieldsBy, End, Forget, disk, locals, Replaced
  <2>2. Replaced(tdf, field) \in Seq(Field) /\ Append(tdf, field) \in Seq(Field)
    BY <1>1, ReplacedIs DEF Fields
  <2>3. queue # <<>> => Append(tdf, Head(queue)) \in Seq(Field)
    BY <1>1
  <2> QED
    BY <1>1, <1>11, <2>1, <2>2, <2>3
<1>5. trd' \in Seq(Word) /\ buf' \in Seq(Word)
  <2>1. (trd' = trd \/ trd' = <<>> \/ trd' = buf) /\ (buf' = buf \/ buf' = <<>>)
    BY DEF Working, CreateTdf, AppendField, CreateTrd, CreateTic, CreateTid, AddIntegrity,
         CreateDone, InsertCount, RewriteRecords, AddField, UpdateField, ClearFields, FieldsBack,
         CountFields, CountFieldsBy, End, Forget, disk, locals
  <2> QED
    BY <1>1, <1>11, <2>1
<1>6. tic' \in Seq(Names)
  <2>1. CASE AddIntegrity
    <3>1. PICK fs \in Creations : tic \o rest = Required[fs]
      BY <2>1 DEF AddIntegrity, IInv, CreatingInv, Creating
    <3>2. tic \o rest \in Seq(Names) /\ rest # <<>>
      BY <2>1, <3>1, FieldListIs DEF AddIntegrity
    <3>3. Len(tic) + 1 \in DOMAIN (tic \o rest) /\ (tic \o rest)[Len(tic) + 1] = Head(rest)
      BY <1>1, <3>2
    <3>4. Head(rest) \in Names
      BY <3>2, <3>3
    <3> QED
      BY <1>1, <2>1, <3>4 DEF AddIntegrity
  <2>2. CASE ~ AddIntegrity
    <3>1. tic' = tic \/ tic' = <<>>
      BY <2>2 DEF Working, CreateTdf, AppendField, CreateTrd, CreateTic, CreateTid, AddIntegrity,
         CreateDone, InsertCount, RewriteRecords, AddField, UpdateField, ClearFields, FieldsBack,
         CountFields, CountFieldsBy, End, Forget, disk
    <3> QED
      BY <1>1, <1>11, <3>1
  <2> QED
    BY <2>1, <2>2
<1>7. files' \subseteq ToSet(Others)
  BY OthersSet DEF IInv, Types, TypeOK, Working, CreateTdf, AppendField, CreateTrd, CreateTic, CreateTid, AddIntegrity,
         CreateDone, InsertCount, RewriteRecords, AddField, UpdateField, ClearFields, FieldsBack,
         CountFields, CountFieldsBy, disk
<1>8. queue' \in Seq(Field) /\ rest' \in Seq(Names \cup ToSet(Others)) /\ field' \in Field
  <2>1. \/ queue' = queue \/ queue' = <<>> \/ (queue # <<>> /\ queue' = Tail(queue))
    BY DEF Working, CreateTdf, AppendField, CreateTrd, CreateTic, CreateTid, AddIntegrity,
         CreateDone, InsertCount, RewriteRecords, AddField, UpdateField, ClearFields, FieldsBack,
         CountFields, CountFieldsBy, End, Forget, locals
  <2>2. \/ rest' = rest \/ rest' = <<>> \/ (rest # <<>> /\ rest' = Tail(rest))
    BY DEF Working, CreateTdf, AppendField, CreateTrd, CreateTic, CreateTid, AddIntegrity,
         CreateDone, InsertCount, RewriteRecords, AddField, UpdateField, ClearFields, FieldsBack,
         CountFields, CountFieldsBy, End, Forget, locals
  <2>3. field' = field \/ field' = NoField
    BY DEF Working, CreateTdf, AppendField, CreateTrd, CreateTic, CreateTid, AddIntegrity,
         CreateDone, InsertCount, RewriteRecords, AddField, UpdateField, ClearFields, FieldsBack,
         CountFields, CountFieldsBy, End, Forget, locals
  <2> QED
    BY <1>1, <1>11, <1>12, <2>1, <2>2, <2>3
<1>9. ok' \in BOOLEAN /\ reply' \in {"none", "ok", "error", "refused", "crashed", "died"}
  BY DEF IInv, Types, TypeOK, Working, CreateTdf, AppendField, CreateTrd, CreateTic, CreateTid, AddIntegrity,
         CreateDone, InsertCount, RewriteRecords, AddField, UpdateField, ClearFields, FieldsBack,
         CountFields, CountFieldsBy, Goto, End, Forget, locals
<1>10. Phases' /\ pc' \in {"idle", "count", "tdf", "field", "trd", "tic", "tid", "require", "delete",
             "rewrite", "put", "meta"}
  BY <1>2 DEF IInv, Types, TypeOK, Phases, Working, CreateTdf, AppendField, CreateTrd, CreateTic, CreateTid, AddIntegrity,
         CreateDone, InsertCount, RewriteRecords, AddField, UpdateField, ClearFields, FieldsBack,
         CountFields, CountFieldsBy, Goto, End, disk
<1> QED
  BY <1>2, <1>3, <1>4, <1>5, <1>6, <1>7, <1>8, <1>9, <1>10 DEF IInv, Types, TypeOK

\* Working steps keep names once.
LEMMA WorkingNames ==
  ASSUME IInv, Working
  PROVE  NamesOnce'
<1>0. SUFFICES ASSUME ~ doubled' PROVE NamesOnce'
  BY DEF NamesOnce
<1>1. tdf \in Seq(Field) /\ queue \in Seq(Field) /\ Coming' = Coming /\ Distinct(Coming) /\ Distinct(tdf)
  BY <1>0, ComingSame DEF IInv, Types, TypeOK, NamesOnce
<1>2. Distinct(<<>>)
  BY DEF Distinct
<1>3. CASE AppendField
  <2>1. Distinct(tdf' \o queue')
    BY <1>1, <1>3 DEF AppendField, Goto, Coming
  <2>2. tdf' \in Seq(Field) /\ queue' \in Seq(Field)
    BY WorkingTypes DEF Types, TypeOK
  <2>3. Distinct(tdf')
    BY <2>1, <2>2, DistinctPrefix
  <2> QED
    BY <1>1, <2>3 DEF NamesOnce, Distinct
<1>4. CASE AddField \/ UpdateField
  <2>1. tdf' = Coming
    BY <1>1, <1>4 DEF AddField, UpdateField, Goto, End, Coming
  <2> QED
    BY <1>1, <2>1 DEF NamesOnce, Distinct
<1>5. CASE ~ AppendField /\ ~ AddField /\ ~ UpdateField
  <2>1. tdf' = tdf \/ tdf' = <<>>
    BY <1>5 DEF Working, CreateTdf, AppendField, CreateTrd, CreateTic, CreateTid, AddIntegrity,
         CreateDone, InsertCount, RewriteRecords, AddField, UpdateField, ClearFields, FieldsBack,
         CountFields, CountFieldsBy, disk
  <2> QED
    BY <1>1, <1>2, <2>1 DEF NamesOnce, Distinct
<1> QED
  BY <1>3, <1>4, <1>5

\* Working steps carry CREATE TABLE on.
LEMMA WorkingCreating ==
  ASSUME IInv, Working
  PROVE  CreatingInv'
<1> SUFFICES ASSUME Creating' PROVE CreatingInv'
  BY DEF CreatingInv
<1>1. Creating /\ Coming' = Coming /\ want' = want /\ kind' = kind
  BY ComingSame DEF IInv
<1>2. want = <<>> /\ kind = "create"
  BY <1>1 DEF IInv, CreatingInv, Creating, Types, Phases
<1>3. PICK fs \in Creations :
         /\ tb = [fields |-> Len(fs), records |-> 0]
         /\ Coming = FieldList(fs)
         /\ pc # "require" => rest = Required[fs]
         /\ pc # "tdf" => "tdf" \in files
         /\ pc \in {"tic", "tid", "require"} => "trd" \in files /\ trd = <<>>
         /\ pc = "tid" => "tic" \in files /\ tic = <<>>
         /\ pc = "require" => files = ToSet(Others) /\ tic \o rest = Required[fs]
  BY <1>1 DEF IInv, CreatingInv
<1>4. /\ tb' = [fields |-> Len(fs), records |-> 0]
      /\ pc' # "require" => rest' = Required[fs]
      /\ pc' # "tdf" => "tdf" \in files'
      /\ pc' \in {"tic", "tid", "require"} => "trd" \in files' /\ trd' = <<>>
      /\ pc' = "tid" => "tic" \in files' /\ tic' = <<>>
      /\ pc' = "require" => files' = ToSet(Others) /\ tic' \o rest' = Required[fs]
  <2>1. CASE CreateTdf \/ AppendField \/ CreateTrd \/ CreateTic
    BY <1>2, <1>3, <2>1 DEF CreateTdf, AppendField, CreateTrd, CreateTic, Goto, locals
  <2>2. CASE CreateTid
    <3>1. files' = ToSet(Others)
      <4>1. files \subseteq ToSet(Others)
        BY DEF IInv, Types, TypeOK
      <4> QED
        BY <1>3, <2>2, <4>1, OthersSet DEF CreateTid
    <3>2. tic' \o rest' = Required[fs]
      <4>1. tic' = <<>> /\ rest' = Required[fs]
        BY <1>3, <2>2 DEF CreateTid, locals
      <4>2. Required[fs] \in Seq(Names)
        BY FieldListIs
      <4> QED
        BY <4>1, <4>2
    <3> QED
      BY <1>3, <2>2, <3>1, <3>2 DEF CreateTid, Goto, locals
  <2>3. CASE AddIntegrity
    <3>1. tic' \o rest' = tic \o rest
      <4>1. tic \in Seq(Names) /\ rest \in Seq(Names \cup ToSet(Others)) /\ rest # <<>>
        BY <2>3 DEF AddIntegrity, IInv, Types, TypeOK
      <4>2. tic \in Seq(Names \cup ToSet(Others))
        BY <4>1
      <4> QED
        BY <2>3, <4>1, <4>2, OneMoved DEF AddIntegrity
    <3> QED
      BY <1>3, <2>3, <3>1 DEF AddIntegrity, Goto
  <2>4. CASE CreateDone \/ InsertCount \/ RewriteRecords \/ AddField \/ UpdateField \/ ClearFields
             \/ FieldsBack \/ CountFields
    BY <1>2, <2>4 DEF CreateDone, InsertCount, RewriteRecords, AddField, UpdateField, ClearFields,
         FieldsBack, CountFields, CountFieldsBy, Goto, End, Creating
  <2> QED
    BY <2>1, <2>2, <2>3, <2>4 DEF Working
<1> QED
  BY <1>1, <1>2, <1>3, <1>4 DEF CreatingInv

\* No working step is part of DROP TABLE.
LEMMA WorkingDropping ==
  ASSUME IInv, Working
  PROVE  DroppingInv' /\ DroppedWhole'
<1>1. pc # "delete" /\ kind # "dropTable"
  BY DEF IInv, Types, Phases, Working, CreateTdf, AppendField, CreateTrd, CreateTic, CreateTid, AddIntegrity,
         CreateDone, InsertCount, RewriteRecords, AddField, UpdateField, ClearFields, FieldsBack,
         CountFields, CountFieldsBy
<1>2. kind' = kind
  BY ComingSame DEF IInv
<1>3. pc' # "delete"
  BY <1>1 DEF Working, CreateTdf, AppendField, CreateTrd, CreateTic, CreateTid, AddIntegrity,
         CreateDone, InsertCount, RewriteRecords, AddField, UpdateField, ClearFields, FieldsBack,
         CountFields, CountFieldsBy, Goto, End
<1> QED
  BY <1>1, <1>2, <1>3 DEF DroppingInv, DroppedWhole

\* Working steps leave no content where there is no file.
LEMMA WorkingFiles ==
  ASSUME IInv, Working
  PROVE  FilesInv'
<1>0. SUFFICES ASSUME crashes' = 0 PROVE FilesInv'
  BY DEF FilesInv
<1>1. crashes = 0 /\ kind' = kind /\ (Creating' => Creating)
  BY <1>0, ComingSame DEF IInv
<1>2. tb # None /\ tb' # None /\ pc # "idle"
  <2>1. tb # None /\ pc # "idle"
    BY DEF IInv, Types, Phases, Working, CreateTdf, AppendField, CreateTrd, CreateTic, CreateTid, AddIntegrity,
         CreateDone, InsertCount, RewriteRecords, AddField, UpdateField, ClearFields, FieldsBack,
         CountFields, CountFieldsBy
  <2>2. tb' # None
    <3>1. CASE InsertCount \/ CountFields
      <4>1. tb \in [fields : Int, records : Nat]
        BY <2>1 DEF IInv, Types, TypeOK
      <4>2. /\ [tb EXCEPT !.records = @ + 1] \in [fields : Int, records : Int]
            /\ [tb EXCEPT !.fields = @ + 1] \in [fields : Int, records : Int]
            /\ [tb EXCEPT !.fields = @ + (0 - 1)] \in [fields : Int, records : Int]
        BY <4>1
      <4>3. tb' \in [fields : Int, records : Int]
        <5>1. \/ tb' = [tb EXCEPT !.records = @ + 1]
              \/ tb' = [tb EXCEPT !.fields = @ + 1]
              \/ tb' = [tb EXCEPT !.fields = @ + (0 - 1)]
          BY <3>1 DEF InsertCount, CountFields, CountFieldsBy
        <5> QED
          BY <4>2, <5>1
      <4> QED
        BY <4>3, BoundsAssumption
    <3>2. CASE ~ InsertCount /\ ~ CountFields
      BY <2>1, <3>2 DEF Working, CreateTdf, AppendField, CreateTrd, CreateTic, CreateTid, AddIntegrity,
         CreateDone, InsertCount, RewriteRecords, AddField, UpdateField, ClearFields, FieldsBack,
         CountFields, CountFieldsBy, disk
    <3> QED
      BY <3>1, <3>2
  <2> QED
    BY <2>1, <2>2
<1>3. CASE ~ Creating
  <2>1. files = ToSet(Others) /\ "tdf" \in files /\ "trd" \in files
    BY <1>1, <1>2, <1>3, OthersSet DEF IInv, FilesInv
  <2>2. files' = files
    BY <1>3 DEF IInv, Types, Phases, Creating, Working, CreateTdf, AppendField, CreateTrd, CreateTic, CreateTid, AddIntegrity,
         CreateDone, InsertCount, RewriteRecords, AddField, UpdateField, ClearFields, FieldsBack,
         CountFields, CountFieldsBy, disk
  <2> QED
    BY <1>1, <1>2, <1>3, <2>1, <2>2 DEF FilesInv
<1>4. CASE Creating
  <2>1. kind = "create"
    BY <1>4 DEF IInv, Types, Phases, Creating
  <2>2. CASE CreateDone
    <3>1. files' = ToSet(Others) /\ "tdf" \in files' /\ "trd" \in files'
      BY <1>4, <2>2, OthersSet DEF IInv, CreatingInv, CreateDone, disk
    <3> QED
      BY <1>2, <3>1 DEF FilesInv
  <2>3. CASE ~ CreateDone
    <3>1. Creating' /\ pc' # "idle"
      BY <1>4, <2>1, <2>3 DEF Working, CreateTdf, AppendField, CreateTrd, CreateTic, CreateTid, AddIntegrity,
         CreateDone, InsertCount, RewriteRecords, AddField, UpdateField, ClearFields, FieldsBack,
         CountFields, CountFieldsBy, Creating, Goto, End
    <3>2. "tdf" \notin files' => tdf' = <<>>
      BY <1>1, <1>4, <2>1, <2>3 DEF IInv, FilesInv, CreatingInv, Creating, Working, CreateTdf, AppendField, CreateTrd, CreateTic, CreateTid, AddIntegrity,
         CreateDone, InsertCount, RewriteRecords, AddField, UpdateField, ClearFields, FieldsBack,
         CountFields, CountFieldsBy, End, disk
    <3>3. "trd" \notin files' => trd' = <<>>
      BY <1>1, <1>4, <2>1, <2>3 DEF IInv, FilesInv, Creating, Working, CreateTdf, AppendField, CreateTrd, CreateTic, CreateTid, AddIntegrity,
         CreateDone, InsertCount, RewriteRecords, AddField, UpdateField, ClearFields, FieldsBack,
         CountFields, CountFieldsBy, End, disk
    <3> QED
      BY <3>1, <3>2, <3>3 DEF FilesInv
  <2> QED
    BY <2>2, <2>3
<1> QED
  BY <1>3, <1>4

\* Working steps bring the counts to what is coming.
LEMMA WorkingCounts ==
  ASSUME IInv, Working
  PROVE  CountsInv'
<1>0. SUFFICES ASSUME crashes' = 0, ~ doubled' PROVE CountsInv'
  BY DEF CountsInv
<1>1. crashes = 0 /\ ~ doubled /\ kind' = kind /\ want' = want /\ Coming' = Coming
  BY <1>0, ComingSame DEF IInv
<1>2. tb # None /\ tb \in [fields : Int, records : Nat] /\ Len(Coming) \in Nat
  BY ComingType DEF IInv, Types, TypeOK, Phases, Working, CreateTdf, AppendField, CreateTrd, CreateTic, CreateTid, AddIntegrity,
         CreateDone, InsertCount, RewriteRecords, AddField, UpdateField, ClearFields, FieldsBack,
         CountFields, CountFieldsBy, Fields
<1>3. /\ tb.fields = Len(Coming) + FieldsDue
      /\ Coming # <<>> => tb.records + (IF pc = "count" THEN 1 ELSE 0) = Len(want)
  BY <1>1, <1>2 DEF IInv, CountsInv
<1>4. CASE InsertCount
  <2>1. pc = "count" /\ pc' = "idle" /\ kind = "insert"
    BY <1>4 DEF InsertCount, End, IInv, Types, Phases
  <2>2. tb'.fields = tb.fields /\ tb'.records = tb.records + 1
    BY <1>2, <1>4 DEF InsertCount
  <2>3. FieldsDue = 0 /\ FieldsDue' = 0
    BY <1>1, <2>1 DEF FieldsDue
  <2> QED
    BY <1>1, <1>2, <1>3, <2>1, <2>2, <2>3 DEF CountsInv
<1>5. CASE CountFields
  <2>1. pc = "meta" /\ pc' = "idle" /\ kind \in {"add", "drop"}
    BY <1>5 DEF CountFields, CountFieldsBy, End, IInv, Types, Phases
  <2>2. FieldsDue = (IF kind = "add" THEN 0 - 1 ELSE 1) /\ FieldsDue' = 0
    BY <1>1, <2>1 DEF FieldsDue
  <2>3. CASE kind = "add"
    <3>1. tb' = [tb EXCEPT !.fields = @ + 1]
      BY <1>5, <2>3 DEF CountFields, CountFieldsBy
    <3>2. tb'.fields = tb.fields + 1 /\ tb'.records = tb.records
      BY <1>2, <3>1
    <3> QED
      BY <1>1, <1>2, <1>3, <2>1, <2>2, <2>3, <3>2 DEF CountsInv
  <2>4. CASE kind = "drop"
    <3>1. tb' = [tb EXCEPT !.fields = @ + (0 - 1)]
      BY <1>5, <2>4 DEF CountFields, CountFieldsBy
    <3>2. tb'.fields = tb.fields - 1 /\ tb'.records = tb.records
      BY <1>2, <3>1
    <3> QED
      BY <1>1, <1>2, <1>3, <2>1, <2>2, <2>4, <3>2 DEF CountsInv
  <2> QED
    BY <2>1, <2>3, <2>4
<1>6. CASE ~ InsertCount /\ ~ CountFields
  <2>1. tb' = tb
    BY <1>6 DEF Working, CreateTdf, AppendField, CreateTrd, CreateTic, CreateTid, AddIntegrity,
         CreateDone, InsertCount, RewriteRecords, AddField, UpdateField, ClearFields, FieldsBack,
         CountFields, CountFieldsBy, disk
  <2>2. FieldsDue' = FieldsDue /\ pc # "count" /\ pc' # "count"
    BY <1>1, <1>6 DEF IInv, Types, Phases, FieldsDue, Working, CreateTdf, AppendField, CreateTrd, CreateTic, CreateTid, AddIntegrity,
         CreateDone, InsertCount, RewriteRecords, AddField, UpdateField, ClearFields, FieldsBack,
         CountFields, CountFieldsBy, Goto, End
  <2> QED
    BY <1>1, <1>3, <2>1, <2>2 DEF CountsInv
<1> QED
  BY <1>4, <1>5, <1>6

\* Working steps keep the rows.
LEMMA WorkingRows ==
  ASSUME IInv, Working
  PROVE  Columns' /\ RowsInv'
<1>1. /\ Coming' = Coming /\ want' = want /\ mixed' = mixed /\ doubled' = doubled /\ crashes' = crashes
      /\ Data' = Data \/ (Data' = <<>> /\ Creating)
  BY ComingSame DEF IInv
<1>2. Columns'
  BY <1>1 DEF IInv, Columns
<1>3. RowsInv'
  <2>0. SUFFICES ASSUME crashes = 0, ~ mixed, ~ doubled PROVE Ordered(Coming) /\ Layout(Coming, Data', want)
    BY <1>1 DEF RowsInv
  <2>1. pc # "delete"
    BY DEF Working, CreateTdf, AppendField, CreateTrd, CreateTic, CreateTid, AddIntegrity,
         CreateDone, InsertCount, RewriteRecords, AddField, UpdateField, ClearFields, FieldsBack,
         CountFields, CountFieldsBy, IInv, Types, Phases
  <2>2. Ordered(Coming) /\ Layout(Coming, Data, want)
    BY <2>0, <2>1 DEF IInv, RowsInv
  <2>3. CASE Data' = Data
    BY <2>2, <2>3
  <2>4. CASE Data' = <<>> /\ Creating
    <3>1. want = <<>>
      BY <2>4 DEF IInv, CreatingInv
    <3>2. Size(Coming) \in Nat
      BY ComingType, Places DEF IInv
    <3>3. Layout(Coming, <<>>, <<>>)
      BY <3>2 DEF Layout
    <3> QED
      BY <2>2, <2>4, <3>1, <3>3
  <2> QED
    BY <1>1, <2>3, <2>4
<1> QED
  BY <1>2, <1>3

\* A CREATE TABLE that ends well has done all of it.
LEMMA WorkingCreated ==
  ASSUME IInv, Working
  PROVE  CreatedWhole'
<1>1. SUFFICES ASSUME pc' = "idle", kind' = "create" PROVE CreatedWhole'
  BY DEF CreatedWhole, Idle
<1>2. kind = "create"
  BY <1>1, ComingSame DEF IInv
<1>3. CreateDone
  BY <1>1, <1>2 DEF IInv, Types, Phases, Working, CreateTdf, AppendField, CreateTrd, CreateTic, CreateTid, AddIntegrity,
         CreateDone, InsertCount, RewriteRecords, AddField, UpdateField, ClearFields, FieldsBack,
         CountFields, CountFieldsBy, Goto, End
<1>4. pc = "require" /\ rest = <<>> /\ UNCHANGED disk /\ Creating /\ Coming = tdf /\ tic \in Seq(Names)
  BY <1>3 DEF CreateDone, Creating, Coming, IInv, Types, TypeOK
<1>5. PICK fs \in Creations :
         /\ tb = [fields |-> Len(fs), records |-> 0]
         /\ Coming = FieldList(fs)
         /\ "trd" \in files /\ trd = <<>>
         /\ files = ToSet(Others) /\ tic \o rest = Required[fs]
  BY <1>4 DEF IInv, CreatingInv
<1>6. tic = Required[fs]
  BY <1>4, <1>5
<1> QED
  BY <1>4, <1>5, <1>6 DEF CreatedWhole, disk

\* Working steps keep the invariant.
LEMMA WorkingStep ==
  ASSUME IInv, Working
  PROVE  IInv'
BY WorkingTypes, WorkingNames, WorkingCreating, WorkingDropping, WorkingFiles, WorkingCounts,
   WorkingRows, WorkingCreated DEF IInv

-----------------------------------------------------------------------------
(***************************************************************************)
(* Refusals, DROP TABLE, crashes.                                          *)
(***************************************************************************)
\* The invariant holds at first.
LEMMA InitStep ==
  ASSUME Init
  PROVE  IInv
<1>1. \A S : <<>> \in Seq(S)
  OBVIOUS
<1>2. NoField \in Field
  BY WidthsAssumption DEF NoField, Field
<1>3. /\ tb = None /\ tdf = <<>> /\ trd = <<>> /\ tic = <<>> /\ files = {}
      /\ pc = "idle" /\ kind = "dropTable" /\ reply = "ok"
      /\ queue = <<>> /\ rest = <<>> /\ field = NoField /\ buf = <<>> /\ ok = TRUE
      /\ want = <<>> /\ mixed = FALSE /\ doubled = FALSE /\ alters = 0 /\ crashes = 0
  BY DEF Init
<1>4. 0 \in 0..MaxAlters /\ 0 \in 0..MaxCrashes
  BY BoundsAssumption
<1>5. Types
  <2>1. /\ tdf \in Seq(Field) /\ queue \in Seq(Field) /\ field \in Field /\ tic \in Seq(Names)
        /\ trd \in Seq(Word) /\ buf \in Seq(Word) /\ rest \in Seq(Names \cup ToSet(Others))
        /\ want \in Seq(Row) /\ \A r \in DOMAIN want : FALSE
    BY <1>1, <1>2, <1>3
  <2> QED
    BY <1>3, <1>4, <2>1 DEF Types, TypeOK, Phases
<1>6. Coming = <<>> /\ Data = <<>> /\ <<>> \in Fields /\ Size(<<>>) \in Nat
  <2>1. <<>> \in Fields
    BY <1>1 DEF Fields
  <2> QED
    BY <1>3, <2>1, Places DEF Coming, Data
<1>7. NamesOnce /\ CreatingInv /\ DroppingInv /\ FilesInv /\ CountsInv /\ Columns
  BY <1>3, <1>6 DEF NamesOnce, Distinct, CreatingInv, Creating, DroppingInv, FilesInv, CountsInv, Columns
<1>8. RowsInv
  BY <1>3, <1>6 DEF RowsInv, Ordered, Layout
<1>9. CreatedWhole /\ DroppedWhole
  BY <1>3 DEF CreatedWhole, DroppedWhole, HasTable
<1> QED
  BY <1>5, <1>7, <1>8, <1>9 DEF IInv

\* A refusal changes nothing but the reply.
LEMMA QuietStep ==
  ASSUME IInv, UNCHANGED <<disk, pc, kind, locals, history>>,
         reply' \in {"refused", "died"} \/ reply' = reply
  PROVE  IInv'
<1>1. /\ tb' = tb /\ tdf' = tdf /\ trd' = trd /\ tic' = tic /\ files' = files /\ pc' = pc /\ kind' = kind
      /\ queue' = queue /\ rest' = rest /\ field' = field /\ buf' = buf /\ ok' = ok
      /\ want' = want /\ mixed' = mixed /\ doubled' = doubled /\ alters' = alters /\ crashes' = crashes
  BY DEF disk, locals, history
<1>2. Coming' = Coming /\ Data' = Data /\ (Creating' <=> Creating) /\ FieldsDue' = FieldsDue
  BY <1>1 DEF Coming, Data, Creating, FieldsDue
<1>3. Types'
  BY <1>1 DEF IInv, Types, TypeOK, Phases
<1>4. NamesOnce' /\ CreatingInv' /\ DroppingInv' /\ FilesInv'
  BY <1>1, <1>2 DEF IInv, NamesOnce, CreatingInv, DroppingInv, FilesInv
<1>5. CountsInv' /\ Columns' /\ RowsInv'
  BY <1>1, <1>2 DEF IInv, CountsInv, Columns, RowsInv
<1>6. CreatedWhole' /\ DroppedWhole'
  BY <1>1 DEF IInv, CreatedWhole, DroppedWhole, Idle, HasTable
<1> QED
  BY <1>3, <1>4, <1>5, <1>6 DEF IInv

\* DROP TABLE begins.
LEMMA DropTableStep ==
  ASSUME IInv, DropTable
  PROVE  IInv'
<1>1. /\ tb # None /\ tb' = None /\ tdf' = tdf /\ trd' = trd /\ tic' = tic /\ files' = files
      /\ pc = "idle" /\ pc' = "delete" /\ kind' = "dropTable" /\ reply' = "none"
      /\ queue' = queue /\ rest' = Others /\ field' = field /\ buf' = buf /\ ok' = ok
      /\ want' = <<>> /\ mixed' = FALSE /\ doubled' = doubled /\ alters' = alters /\ crashes' = crashes
  BY DEF DropTable, Begin, HasTable
<1>2. Types'
  <2>1. \A S : <<>> \in Seq(S)
    OBVIOUS
  <2>2. rest' \in Seq(Names \cup ToSet(Others))
    BY <1>1, OthersSet
  <2>3. want' \in Seq(Row) /\ \A r \in DOMAIN want' : FALSE
    BY <1>1, <2>1
  <2> QED
    BY <1>1, <2>2, <2>3 DEF IInv, Types, TypeOK, Phases
<1>3. NamesOnce'
  BY <1>1 DEF IInv, NamesOnce, Coming
<1>4. DroppingInv'
  BY <1>1 DEF IInv, Types, TypeOK, DroppingInv
<1>5. FilesInv'
  BY <1>1, OthersSet DEF IInv, FilesInv, Creating
<1>6. CreatingInv' /\ CountsInv' /\ Columns' /\ RowsInv' /\ CreatedWhole' /\ DroppedWhole'
  BY <1>1 DEF CreatingInv, Creating, CountsInv, Columns, RowsInv, CreatedWhole, DroppedWhole, Idle
<1> QED
  BY <1>2, <1>3, <1>4, <1>5, <1>6 DEF IInv

\* What is still to delete covers what is left.
LEMMA DeleteFileStep ==
  ASSUME IInv, DeleteFile
  PROVE  IInv'
<1> DEFINE f == Head(rest)
<1>1. /\ tb' = tb /\ pc = "delete" /\ pc' = "delete" /\ kind' = kind /\ reply' = reply
      /\ rest # <<>> /\ rest' = Tail(rest) /\ files' = files \ {f}
      /\ tdf' = (IF f = "tdf" THEN <<>> ELSE tdf)
      /\ trd' = (IF f = "trd" THEN <<>> ELSE trd)
      /\ tic' = (IF f = "tic" THEN <<>> ELSE tic)
      /\ ok' \in BOOLEAN
      /\ queue' = queue /\ field' = field /\ buf' = buf
      /\ want' = want /\ mixed' = mixed /\ doubled' = doubled /\ alters' = alters /\ crashes' = crashes
  BY DEF DeleteFile, DeleteThen, Delete, Goto, history, IInv, Types, TypeOK
<1>2. tb = None /\ want = <<>> /\ files \subseteq ToSet(rest) /\ kind = "dropTable"
  BY <1>1 DEF IInv, DroppingInv, Types, Phases
<1>3. rest \in Seq(Names \cup ToSet(Others))
  BY DEF IInv, Types, TypeOK
<1> HIDE DEF f
<1>4. Types'
  <2>1. \A S : <<>> \in Seq(S)
    OBVIOUS
  <2>2. Tail(rest) \in Seq(Names \cup ToSet(Others))
    BY <1>1, <1>3
  <2>3. /\ tdf' \in Seq(Field) /\ trd' \in Seq(Word) /\ tic' \in Seq(Names)
        /\ files' \subseteq ToSet(Others)
    BY <1>1, <2>1 DEF IInv, Types, TypeOK
  <2> QED
    BY <1>1, <1>2, <2>2, <2>3 DEF IInv, Types, TypeOK, Phases
<1>5. NamesOnce'
  <2>1. Distinct(<<>>)
    BY DEF Distinct
  <2>2. ~ doubled' => Distinct(tdf')
    BY <1>1, <2>1 DEF IInv, NamesOnce
  <2> QED
    BY <1>1, <2>2 DEF NamesOnce, Coming
<1>6. DroppingInv'
  <2>1. ASSUME NEW g \in files, g # f PROVE g \in ToSet(Tail(rest))
    <3>1. PICK i \in DOMAIN rest : rest[i] = g
      BY <1>2 DEF ToSet
    <3>2. i # 1 /\ i \in 1..Len(rest) /\ Len(rest) \in Nat
      BY <1>3, <2>1, <3>1 DEF f
    <3>3. i - 1 \in DOMAIN Tail(rest) /\ Tail(rest)[i - 1] = g
      BY <1>1, <1>3, <3>1, <3>2
    <3> QED
      BY <3>3 DEF ToSet
  <2> QED
    BY <1>1, <1>2, <2>1 DEF DroppingInv
<1>7. FilesInv'
  BY <1>1, <1>2 DEF IInv, FilesInv
<1>8. CreatingInv' /\ CountsInv' /\ Columns' /\ RowsInv' /\ CreatedWhole' /\ DroppedWhole'
  BY <1>1, <1>2 DEF CreatingInv, Creating, CountsInv, Columns, RowsInv, CreatedWhole, DroppedWhole, Idle
<1> QED
  BY <1>4, <1>5, <1>6, <1>7, <1>8 DEF IInv

\* With nothing left to delete nothing is left.
LEMMA DropTableDoneStep ==
  ASSUME IInv, DropTableDone
  PROVE  IInv'
<1>1. /\ tb' = tb /\ tdf' = tdf /\ trd' = trd /\ tic' = tic /\ files' = files
      /\ pc = "delete" /\ pc' = "idle" /\ kind' = kind /\ reply' \in {"ok", "error"}
      /\ rest = <<>> /\ rest' = <<>> /\ queue' = <<>> /\ field' = NoField /\ buf' = <<>> /\ ok' = TRUE
      /\ want' = want /\ mixed' = mixed /\ doubled' = doubled /\ alters' = alters /\ crashes' = crashes
  BY DEF DropTableDone, End, Forget, history, disk
<1>2. tb = None /\ want = <<>> /\ files = {} /\ kind = "dropTable"
  <2>1. ToSet(<<>>) = {}
    BY DEF ToSet
  <2> QED
    BY <1>1, <2>1 DEF IInv, DroppingInv, Types, Phases
<1>3. Types'
  <2>1. \A S : <<>> \in Seq(S)
    OBVIOUS
  <2>2. NoField \in Field
    BY WidthsAssumption DEF NoField, Field
  <2> QED
    BY <1>1, <1>2, <2>1, <2>2 DEF IInv, Types, TypeOK, Phases
<1>4. NamesOnce'
  BY <1>1 DEF IInv, NamesOnce, Coming
<1>5. FilesInv'
  BY <1>1, <1>2 DEF IInv, FilesInv
<1>6. RowsInv'
  <2>1. SUFFICES ASSUME crashes = 0 PROVE Ordered(Coming') /\ Layout(Coming', Data', want')
    BY <1>1 DEF RowsInv
  <2>2. tdf = <<>> /\ trd = <<>>
    BY <1>2, <2>1 DEF IInv, FilesInv
  <2>3. Coming' = <<>> /\ Data' = <<>> /\ want' = <<>>
    BY <1>1, <1>2, <2>2 DEF Coming, Data
  <2>4. <<>> \in Fields
    BY DEF Fields
  <2>5. Size(<<>>) \in Nat
    BY <2>4, Places
  <2>6. Ordered(<<>>) /\ Layout(<<>>, <<>>, <<>>)
    BY <2>5 DEF Ordered, Layout
  <2> QED
    BY <2>3, <2>6
<1>7. DroppingInv' /\ CreatingInv' /\ CountsInv' /\ Columns' /\ CreatedWhole' /\ DroppedWhole'
  BY <1>1, <1>2 DEF DroppingInv, CreatingInv, Creating, CountsInv, Columns, CreatedWhole, DroppedWhole, HasTable
<1> QED
  BY <1>3, <1>4, <1>5, <1>6, <1>7 DEF IInv

\* After a crash the invariant says only what holds whatever was cut short.
LEMMA CrashStep ==
  ASSUME IInv, Crash
  PROVE  IInv'
<1>1. /\ tb' = tb /\ tdf' = tdf /\ tic' = tic /\ files' = files
      /\ pc' = "idle" /\ kind' = kind /\ reply' = "crashed"
      /\ rest' = <<>> /\ queue' = <<>> /\ field' = NoField /\ buf' = <<>> /\ ok' = TRUE
      /\ want' = <<>> /\ mixed' = mixed /\ doubled' = doubled /\ alters' = alters
      /\ crashes' = crashes + 1 /\ crashes < MaxCrashes
  BY DEF Crash, Forget
<1>2. crashes' \in 0..MaxCrashes /\ crashes' # 0
  BY <1>1, BoundsAssumption DEF IInv, Types, TypeOK
<1>3. trd' \in Seq(Word)
  <2>1. trd \in Seq(Word) /\ buf \in Seq(Word)
    BY DEF IInv, Types, TypeOK
  <2>2. \A n \in 0..Len(buf) : SubSeq(buf, 1, n) \in Seq(Word)
    BY <2>1
  <2>3. trd' = trd \/ \E n \in 0..Len(buf) : trd' = SubSeq(buf, 1, n)
    BY DEF Crash
  <2> QED
    BY <2>1, <2>2, <2>3
<1>4. Types'
  <2>1. \A S : <<>> \in Seq(S)
    OBVIOUS
  <2>2. NoField \in Field
    BY WidthsAssumption DEF NoField, Field
  <2> QED
    BY <1>1, <1>2, <1>3, <2>1, <2>2 DEF IInv, Types, TypeOK, Phases
<1>5. NamesOnce'
  BY <1>1 DEF IInv, NamesOnce, Coming
<1>6. /\ DroppingInv' /\ CreatingInv' /\ FilesInv' /\ CountsInv' /\ Columns' /\ RowsInv'
      /\ CreatedWhole' /\ DroppedWhole'
  BY <1>1, <1>2 DEF DroppingInv, CreatingInv, Creating, FilesInv, CountsInv, Columns, RowsInv,
       CreatedWhole, DroppedWhole
<1> QED
  BY <1>4, <1>5, <1>6 DEF IInv

\* Only where a crash has taken the field list away.
LEMMA AddFieldFailsStep ==
  ASSUME IInv, AddFieldFails
  PROVE  IInv'
<1>1. /\ tb' = tb /\ tdf' = tdf /\ trd' = trd /\ tic' = tic /\ files' = files
      /\ pc = "put" /\ kind = "add" /\ "tdf" \notin files
      /\ pc' = "idle" /\ kind' = kind /\ reply' = "error"
      /\ rest' = <<>> /\ queue' = <<>> /\ field' = NoField /\ buf' = <<>> /\ ok' = TRUE
      /\ want' = want /\ mixed' = mixed /\ doubled' = doubled /\ alters' = alters /\ crashes' = crashes
  BY DEF AddFieldFails, End, Forget, history, disk
<1>2. crashes # 0
  BY <1>1, OthersSet DEF IInv, Types, Phases, FilesInv, Creating
<1>3. Types'
  <2>1. \A S : <<>> \in Seq(S)
    OBVIOUS
  <2>2. NoField \in Field
    BY WidthsAssumption DEF NoField, Field
  <2> QED
    BY <1>1, <2>1, <2>2 DEF IInv, Types, TypeOK, Phases
<1>4. NamesOnce'
  BY <1>1 DEF IInv, NamesOnce, Coming
<1>5. /\ DroppingInv' /\ CreatingInv' /\ FilesInv' /\ CountsInv' /\ Columns' /\ RowsInv'
      /\ CreatedWhole' /\ DroppedWhole'
  BY <1>1, <1>2 DEF DroppingInv, CreatingInv, Creating, FilesInv, CountsInv, Columns, RowsInv,
       CreatedWhole, DroppedWhole
<1> QED
  BY <1>3, <1>4, <1>5 DEF IInv

-----------------------------------------------------------------------------
(***************************************************************************)
(* CREATE TABLE and INSERT begin.                                          *)
(***************************************************************************)
\* CREATE TABLE begins.
LEMMA CreateTableStep ==
  ASSUME IInv, NEW fs \in Creations, CreateTable(fs)
  PROVE  IInv'
<1>1. /\ tb = None /\ tb' = [fields |-> Len(fs), records |-> 0]
      /\ tdf' = tdf /\ trd' = trd /\ tic' = tic /\ files' = files
      /\ pc = "idle" /\ pc' = "tdf" /\ kind' = "create" /\ reply' = "none"
      /\ queue' = FieldList(fs) /\ rest' = Required[fs] /\ field' = field /\ buf' = buf /\ ok' = ok
      /\ want' = <<>> /\ mixed' = FALSE /\ alters' = alters /\ crashes' = crashes
      /\ doubled' = (~ Distinct(FieldList(fs)) \/ (doubled /\ tdf # <<>>))
  BY DEF CreateTable, Begin, HasTable
<1>2. /\ FieldList(fs) \in Fields /\ Len(FieldList(fs)) = Len(fs) /\ Len(fs) \in Nat
      /\ Ordered(FieldList(fs)) /\ Required[fs] \in Seq(Names)
      /\ FieldList(fs) \in Seq(Field)
  BY FieldListIs DEF Fields
<1>3. Coming' = FieldList(fs) /\ Data' = trd /\ Creating' /\ FieldsDue' = 0
  BY <1>1 DEF Coming, Data, Creating, FieldsDue
<1>4. tb' \in [fields : Int, records : Nat] /\ tb' # None /\ tb'.fields \in Nat
  <2>1. [fields |-> Len(fs), records |-> 0] \in [fields : Int, records : Nat]
    BY <1>2
  <2>2. [fields |-> Len(fs), records |-> 0] \in [fields : Int, records : Int]
    BY <1>2
  <2> QED
    BY <1>1, <1>2, <2>1, <2>2, BoundsAssumption
<1>5. Types'
  <2>1. \A S : <<>> \in Seq(S)
    OBVIOUS
  <2>2. rest' \in Seq(Names \cup ToSet(Others)) /\ queue' \in Seq(Field)
    BY <1>1, <1>2
  <2>3. want' \in Seq(Row) /\ \A r \in DOMAIN want' : FALSE
    BY <1>1, <2>1
  <2> QED
    BY <1>1, <1>4, <2>2, <2>3 DEF IInv, Types, TypeOK, Phases
<1>6. NamesOnce'
  <2>1. SUFFICES ASSUME ~ doubled' PROVE Distinct(tdf') /\ Distinct(Coming')
    BY DEF NamesOnce
  <2>2. Distinct(FieldList(fs)) /\ (~ doubled \/ tdf = <<>>)
    BY <1>1, <2>1
  <2>3. Distinct(tdf)
    <3>1. Distinct(<<>>)
      BY DEF Distinct
    <3> QED
      BY <2>2, <3>1 DEF IInv, NamesOnce
  <2> QED
    BY <1>1, <1>3, <2>2, <2>3
<1>7. CreatingInv'
  BY <1>1, <1>3 DEF CreatingInv
<1>8. FilesInv'
  BY <1>1, <1>3, <1>4 DEF IInv, FilesInv
<1>9. CountsInv'
  BY <1>1, <1>2, <1>3 DEF CountsInv
<1>10. RowsInv'
  <2>1. SUFFICES ASSUME crashes = 0 PROVE Ordered(Coming') /\ Layout(Coming', Data', want')
    BY <1>1 DEF RowsInv
  <2>2. trd = <<>>
    BY <1>1, <2>1 DEF IInv, FilesInv
  <2>3. Size(FieldList(fs)) \in Nat
    BY <1>2, Places
  <2>4. Layout(FieldList(fs), <<>>, <<>>)
    BY <2>3 DEF Layout
  <2> QED
    BY <1>1, <1>2, <1>3, <2>2, <2>4
<1>11. DroppingInv' /\ Columns' /\ CreatedWhole' /\ DroppedWhole'
  BY <1>1 DEF DroppingInv, Columns, CreatedWhole, DroppedWhole, Idle
<1> QED
  BY <1>5, <1>6, <1>7, <1>8, <1>9, <1>10, <1>11 DEF IInv

\* INSERT appends a record: one row more to count.
LEMMA InsertStep ==
  ASSUME IInv, Insert
  PROVE  IInv'
<1> DEFINE fs == Sorted(tdf)
           x == tb.records + 1
           row == [c \in NamesIn(fs) |->
                     LET i == CHOOSE i \in DOMAIN fs : fs[i].name = c IN Value(c, x, fs[i].width)]
<1>1. /\ tb # None /\ tdf # <<>> /\ "trd" \in files
      /\ tb' = tb /\ tdf' = tdf /\ trd' = trd \o Encoded(fs, x) /\ tic' = tic /\ files' = files
      /\ pc = "idle" /\ pc' = "count" /\ kind' = "insert" /\ reply' = "none"
      /\ queue' = queue /\ rest' = rest /\ field' = field /\ buf' = buf /\ ok' = ok
      /\ want' = (IF crashes > 0 THEN want ELSE Append(want, row))
      /\ mixed' = mixed /\ doubled' = doubled /\ alters' = alters /\ crashes' = crashes
  BY DEF Insert, InsertIn, CanInsert, Begin, HasTable, locals
<1>2. /\ tdf \in Fields /\ trd \in Seq(Word) /\ want \in Seq(Row) /\ x \in Nat \ {0}
      /\ crashes \in Nat /\ tb.records \in Nat
  BY <1>1, SMTT(60) DEF IInv, Types, TypeOK, Fields
<1>3. fs \in Fields /\ NamesIn(fs) = NamesIn(tdf) /\ NamesIn(fs) \subseteq Names
  BY <1>2, SortedKeeps, NamesInNames
<1> HIDE DEF fs, x
<1>4. row \in Row /\ DOMAIN row = NamesIn(tdf)
  <2>1. ASSUME NEW c \in NamesIn(fs) PROVE row[c] \in Seq(Word)
    <3>1. PICK i \in DOMAIN fs : i = CHOOSE h \in DOMAIN fs : fs[h].name = c
      BY DEF NamesIn
    <3>2. c \in Names /\ fs[i].width \in Nat
      BY <1>3, FieldType
    <3>3. row[c] = [k \in 1..fs[i].width |-> <<c, k, x>>]
      BY <3>1 DEF Value
    <3>4. \A k \in 1..fs[i].width : <<c, k, x>> \in Word
      BY <1>2, <3>2 DEF Word
    <3> QED
      BY <3>2, <3>3, <3>4
  <2>2. DOMAIN row = NamesIn(fs) /\ row = [d \in DOMAIN row |-> row[d]]
    OBVIOUS
  <2> HIDE DEF row
  <2> QED
    BY <1>3, <2>1, <2>2, RowIs
<1>5. trd' \in Seq(Word) /\ want' \in Seq(Row)
  <2>1. Encoded(fs, x) \in Seq(Word)
    BY <1>2, <1>3, EncodedIs
  <2> HIDE DEF row
  <2> QED
    BY <1>1, <1>2, <1>4, <2>1
<1>6. Coming = tdf /\ Coming' = tdf /\ Data' = trd' /\ Data = trd /\ ~ Creating /\ ~ Creating'
      /\ FieldsDue = 0 /\ FieldsDue' = 0
  BY <1>1 DEF Coming, Data, Creating, FieldsDue
<1>7. Types'
  <2>1. \A r \in DOMAIN want' : \A d \in DOMAIN want'[r] : d \in Names /\ want'[r][d] \in Seq(Word)
    <3>1. \A r \in DOMAIN want' : want'[r] \in Row
      BY <1>5
    <3> QED
      BY <3>1, RowFunction
  <2> QED
    BY <1>1, <1>5, <2>1 DEF IInv, Types, TypeOK, Phases
<1>8. NamesOnce' /\ CreatingInv' /\ DroppingInv' /\ CreatedWhole' /\ DroppedWhole'
  BY <1>1, <1>6 DEF IInv, NamesOnce, CreatingInv, DroppingInv, CreatedWhole, DroppedWhole, Idle
<1>9. FilesInv'
  BY <1>1, <1>6 DEF IInv, FilesInv
<1>10. ASSUME crashes = 0 PROVE want' = Append(want, row) /\ Len(want') = Len(want) + 1
  BY <1>1, <1>2, <1>10
<1> HIDE DEF row
<1>11. CountsInv'
  <2> SUFFICES ASSUME crashes = 0, ~ doubled PROVE CountsInv'
    BY <1>1 DEF CountsInv
  <2>1. tb.fields = Len(tdf) + 0 /\ tb.records + 0 = Len(want)
    BY <1>1, <1>6 DEF IInv, CountsInv
  <2>2. tb.records + 1 = Len(want')
    BY <1>2, <1>10, <2>1
  <2> QED
    BY <1>1, <1>6, <2>1, <2>2 DEF CountsInv
<1>12. Columns'
  <2> SUFFICES ASSUME crashes = 0, NEW r \in DOMAIN want' PROVE DOMAIN want'[r] = NamesIn(Coming')
    BY <1>1 DEF Columns
  <2>1. (r \in DOMAIN want /\ want'[r] = want[r]) \/ want'[r] = row
    BY <1>2, <1>4, <1>10
  <2> QED
    BY <1>4, <1>6, <2>1 DEF IInv, Columns
<1>13. RowsInv'
  <2> SUFFICES ASSUME crashes = 0, ~ mixed, ~ doubled PROVE Ordered(Coming') /\ Layout(Coming', Data', want')
    BY <1>1 DEF RowsInv
  <2>1. Ordered(tdf) /\ Layout(tdf, trd, want) /\ Distinct(tdf)
    BY <1>1, <1>6 DEF IInv, RowsInv, NamesOnce
  <2>2. fs = tdf
    BY <1>2, <2>1, SortedOrdered DEF fs
  <2>3. ASSUME NEW i \in DOMAIN tdf
        PROVE  row[tdf[i].name] = Value(tdf[i].name, x, tdf[i].width)
    <3>1. tdf[i].name \in NamesIn(fs)
      BY <2>2 DEF NamesIn
    <3>2. (CHOOSE j \in DOMAIN fs : fs[j].name = tdf[i].name) = i
      BY <2>1, <2>2 DEF Distinct
    <3> QED
      BY <2>2, <3>1, <3>2 DEF row
  <2>4. Layout(tdf, trd \o Encoded(tdf, x), Append(want, row))
    BY <1>1, <1>2, <1>4, <2>1, <2>3, InsertLayout
  <2> QED
    BY <1>1, <1>6, <1>10, <2>1, <2>2, <2>4
<1> QED
  BY <1>7, <1>8, <1>9, <1>11, <1>12, <1>13 DEF IInv

-----------------------------------------------------------------------------
(***************************************************************************)
(* ALTER TABLE begins.  What the three have in common first: coming is the *)
(* field list that will be written, new the one the records are laid out   *)
(* by, which is the same as long as the list is in order.                  *)
(***************************************************************************)
\* Any ALTER that lays the rows out by what is coming keeps the invariant.
LEMMA AlterStep ==
  ASSUME IInv, NEW k \in {"add", "drop", "modify"}, NEW new \in Fields, NEW moves, NEW rows,
         Alter(k, new, moves, "put", rows), MovesFit(tdf, moves),
         queue' \in Seq(Field), field' \in Field, mixed' \in BOOLEAN, mixed => mixed',
         NEW coming \in Fields, ~ doubled => Distinct(coming),
         coming = IF k = "add" THEN Append(tdf, field')
                  ELSE IF k = "drop" THEN queue' ELSE Replaced(tdf, field'),
         ~ doubled => Len(tdf) = Len(coming) + (IF k = "add" THEN 0 - 1 ELSE IF k = "drop" THEN 1 ELSE 0),
         crashes = 0 =>
           /\ rows \in Seq(Row)
           /\ \A r \in DOMAIN rows : DOMAIN rows[r] = NamesIn(coming)
           /\ coming # <<>> => Len(rows) = Len(want),
         crashes = 0 /\ ~ mixed' /\ ~ doubled =>
           Ordered(coming) /\ Layout(coming, Rewritten(tdf, new, moves), rows)
  PROVE  IInv'
<1>1. /\ tb # None /\ alters < MaxAlters
      /\ tb' = tb /\ tdf' = tdf /\ trd' = trd /\ tic' = tic /\ files' = files
      /\ pc = "idle" /\ kind' = k /\ reply' = "none"
      /\ rest' = rest /\ ok' = ok
      /\ want' = (IF crashes > 0 THEN want ELSE rows)
      /\ alters' = alters + 1 /\ doubled' = doubled /\ crashes' = crashes
      /\ AlterTo(new, moves, "put") /\ Divides
  BY DEF Alter, HasTable, disk
<1>2. \/ /\ "trd" \in files /\ Count(tdf, trd) > 0 /\ pc' = "rewrite" /\ buf' = Rewritten(tdf, new, moves)
      \/ /\ ~ ("trd" \in files /\ Count(tdf, trd) > 0) /\ pc' = "put" /\ buf' = buf
  BY <1>1 DEF AlterTo
<1>3. /\ tdf \in Fields /\ trd \in Seq(Word) /\ want \in Seq(Row) /\ crashes \in Nat
      /\ alters \in Nat /\ buf \in Seq(Word)
  BY DEF IInv, Types, TypeOK, Fields
<1>4. /\ Rewritten(tdf, new, moves) \in Seq(Word) /\ Count(tdf, trd) \in Nat
      /\ Len(Rewritten(tdf, new, moves)) = Count(tdf, trd) * Size(new)
  BY <1>3, RewrittenIs
<1>5. /\ Coming = tdf /\ Coming' = coming /\ Data = trd /\ ~ Creating /\ ~ Creating'
      /\ FieldsDue' = (IF k = "add" THEN 0 - 1 ELSE IF k = "drop" THEN 1 ELSE 0)
      /\ FieldsDue = 0
  BY <1>1, <1>2 DEF Coming, Data, Creating, FieldsDue
<1>6. want' \in Seq(Row)
  BY <1>1, <1>3
<1>7. Types'
  <2>1. \A r \in DOMAIN want' : \A d \in DOMAIN want'[r] : d \in Names /\ want'[r][d] \in Seq(Word)
    <3>1. \A r \in DOMAIN want' : want'[r] \in Row
      BY <1>6
    <3> QED
      BY <3>1, RowFunction
  <2>2. buf' \in Seq(Word) /\ pc' \in {"rewrite", "put"}
    BY <1>2, <1>3, <1>4
  <2>3. alters' \in 0..MaxAlters
    BY <1>1, <1>3, BoundsAssumption
  <2> QED
    BY <1>1, <1>6, <2>1, <2>2, <2>3 DEF IInv, Types, TypeOK, Phases
<1>8. NamesOnce'
  BY <1>1, <1>5 DEF IInv, NamesOnce
<1>9. CreatingInv' /\ DroppingInv' /\ CreatedWhole' /\ DroppedWhole'
  BY <1>1, <1>2, <1>5 DEF CreatingInv, DroppingInv, CreatedWhole, DroppedWhole, Idle
<1>10. FilesInv'
  BY <1>1, <1>2, <1>5 DEF IInv, FilesInv
<1>11. CountsInv'
  <2> SUFFICES ASSUME crashes = 0, ~ doubled PROVE CountsInv'
    BY <1>1 DEF CountsInv
  <2>1. tb.fields = Len(tdf) + 0 /\ (tdf # <<>> => tb.records + 0 = Len(want)) /\ Len(tdf) \in Nat
    BY <1>1, <1>3, <1>5 DEF IInv, CountsInv, Fields
  <2>2. tdf # <<>>
    <3>1. "trd" \in files
      BY <1>1, <1>5, OthersSet DEF IInv, FilesInv
    <3>2. Size(tdf) # 0
      BY <1>1, <3>1 DEF Divides
    <3> QED
      BY <1>3, <3>2, Places
  <2>3. tb'.fields = Len(coming) + FieldsDue'
    BY <1>1, <1>5, <2>1
  <2>4. coming # <<>> => tb'.records + 0 = Len(want')
    BY <1>1, <2>1, <2>2
  <2> QED
    BY <1>2, <1>5, <2>3, <2>4 DEF CountsInv
<1>12. Columns'
  BY <1>1, <1>3, <1>5 DEF Columns
<1>13. RowsInv'
  <2> SUFFICES ASSUME crashes = 0, ~ mixed', ~ doubled PROVE Ordered(coming) /\ Layout(coming, Data', want')
    BY <1>1, <1>5 DEF RowsInv
  <2>1. want' = rows /\ Ordered(coming) /\ Layout(coming, Rewritten(tdf, new, moves), rows)
    BY <1>1
  <2>2. CASE pc' = "rewrite"
    BY <1>2, <2>1, <2>2 DEF Data
  <2>3. CASE pc' = "put"
    <3>1. "trd" \in files /\ Data' = trd
      BY <1>1, <1>5, <2>3, OthersSet DEF IInv, FilesInv, Data
    <3>2. Count(tdf, trd) = 0
      BY <1>2, <1>4, <2>3, <3>1
    <3>3. rows = <<>>
      <4>1. Size(new) \in Nat /\ Size(coming) \in Nat /\ (Size(coming) = 0 <=> coming = <<>>)
        BY Places
      <4>2. 0 = Len(rows) * Size(coming) /\ Len(rows) \in Nat /\ rows \in Seq(Row)
        BY <1>4, <2>1, <3>2, <4>1 DEF Layout
      <4>3. CASE coming = <<>>
        BY <2>1, <4>3 DEF Layout
      <4>4. CASE coming # <<>>
        <5>1. Len(rows) = 0
          <6> DEFINE n == Len(rows)
                     s == Size(coming)
          <6>1. n \in Nat /\ s \in Nat \ {0} /\ n * s = 0
            BY <4>1, <4>2, <4>4
          <6> HIDE DEF n, s
          <6>2. CASE n > 0
            <7>1. 1 * s <= n * s
              BY <6>1, <6>2, Product
            <7> QED
              BY <6>1, <7>1
          <6>3. n = 0
            BY <6>1, <6>2
          <6> QED
            BY <6>3 DEF n
        <5> QED
          BY <4>2, <5>1
      <4> QED
        BY <4>3, <4>4
    <3>4. Len(trd) = 0
      <4>1. ~ mixed
        OBVIOUS
      <4>2. Layout(tdf, trd, want)
        BY <1>1, <1>5, <4>1 DEF IInv, RowsInv
      <4>3. Len(want) = 0
        BY <1>3, <3>2, <4>2, CountRows
      <4>4. Size(tdf) \in Nat
        BY <1>3, Places
      <4> QED
        BY <4>2, <4>3, <4>4 DEF Layout
    <3>5. Size(coming) \in Nat
      BY Places
    <3>6. Layout(coming, trd, <<>>)
      BY <3>4, <3>5 DEF Layout
    <3> QED
      BY <2>1, <3>1, <3>3, <3>6
  <2> QED
    BY <1>2, <2>2, <2>3
<1> QED
  BY <1>7, <1>8, <1>9, <1>10, <1>11, <1>12, <1>13 DEF IInv

\* What the invariant says when no statement runs.
LEMMA IdleFacts ==
  ASSUME IInv, pc = "idle"
  PROVE  /\ tdf \in Fields /\ trd \in Seq(Word) /\ want \in Seq(Row) /\ (~ doubled => Distinct(tdf))
         /\ queue \in Seq(Field) /\ field \in Field /\ mixed \in BOOLEAN
         /\ Len(want) \in Nat /\ DOMAIN want = 1..Len(want)
         /\ crashes = 0 =>
              \A r \in DOMAIN want :
                /\ DOMAIN want[r] = NamesIn(tdf) /\ want[r] = [d \in NamesIn(tdf) |-> want[r][d]]
                /\ \A d \in NamesIn(tdf) : want[r][d] \in Seq(Word)
         /\ crashes = 0 /\ ~ mixed /\ ~ doubled => Ordered(tdf) /\ Layout(tdf, trd, want)
<1>1. Coming = tdf /\ Data = trd
  BY DEF Coming, Data
<1>2. want \in Seq(Row)
  BY DEF IInv, Types
<1>3. \A r \in DOMAIN want : want[r] \in Row
  BY <1>2
<1>4. crashes = 0 =>
        \A r \in DOMAIN want :
          /\ DOMAIN want[r] = NamesIn(tdf) /\ want[r] = [d \in NamesIn(tdf) |-> want[r][d]]
          /\ \A d \in NamesIn(tdf) : want[r][d] \in Seq(Word)
  <2> SUFFICES ASSUME crashes = 0, NEW r \in DOMAIN want
               PROVE  /\ DOMAIN want[r] = NamesIn(tdf) /\ want[r] = [d \in NamesIn(tdf) |-> want[r][d]]
                      /\ \A d \in NamesIn(tdf) : want[r][d] \in Seq(Word)
    OBVIOUS
  <2>1. DOMAIN want[r] = NamesIn(tdf)
    BY <1>1 DEF IInv, Columns
  <2>2. want[r] \in Row
    BY <1>3
  <2>3. /\ want[r] = [d \in DOMAIN want[r] |-> want[r][d]]
        /\ \A d \in DOMAIN want[r] : want[r][d] \in Seq(Word)
    BY <2>2, RowFunction
  <2> QED
    BY <2>1, <2>3
<1> QED
  BY <1>1, <1>2, <1>4 DEF IInv, Types, TypeOK, NamesOnce, RowsInv, Fields

\* ADD COLUMN is such an ALTER.
LEMMA AddColumnStep ==
  ASSUME IInv, NEW c \in Names, NEW w \in Widths, AddColumn(c, w)
  PROVE  IInv'
<1> DEFINE f == NewField(c, w)
           coming == Append(tdf, f)
           new == Sorted(coming)
           moves == AddMoves(tdf, new)
           rows == [r \in DOMAIN want |->
                      [d \in NamesIn(new) |-> IF d = c THEN Zeros(w) ELSE want[r][d]]]
<1>1. /\ c \notin NamesIn(tdf) /\ field' = f /\ queue' = queue
      /\ mixed' = (mixed \/ ~ Ordered(Append(tdf, field')))
      /\ Alter("add", new, moves, "put", rows) /\ pc = "idle" /\ Divides /\ tb # None
  BY DEF AddColumn, Alter, HasTable
<1>2. /\ tdf \in Fields /\ trd \in Seq(Word) /\ want \in Seq(Row) /\ (~ doubled => Distinct(tdf))
      /\ queue \in Seq(Field) /\ mixed \in BOOLEAN /\ Len(want) \in Nat /\ DOMAIN want = 1..Len(want)
  BY <1>1, IdleFacts
<1>3. f \in Field /\ f.name = c /\ f.width = w /\ Len(tdf) \in Nat
  BY <1>2 DEF NewField, Field, Fields
<1> HIDE DEF f
<1>4. /\ coming \in Fields /\ Len(coming) = Len(tdf) + 1 /\ NamesIn(coming) = NamesIn(tdf) \cup {c}
      /\ ~ doubled => Distinct(coming)
  BY <1>1, <1>2, <1>3, AppendIs
<1>5. mixed' = (mixed \/ ~ Ordered(coming))
  BY <1>1
<1> HIDE DEF coming
<1>6. new \in Fields /\ Len(new) = Len(coming) /\ NamesIn(new) = NamesIn(coming)
  BY <1>4, SortedKeeps
<1>7. NamesIn(new) \subseteq Names
  BY <1>6, NamesInNames
<1> HIDE DEF new
<1>8. MovesFit(tdf, moves)
  BY <1>2, <1>3, <1>4, <1>6, AddFits
<1>9. ASSUME crashes = 0
      PROVE  /\ rows \in Seq(Row)
             /\ \A r \in DOMAIN rows : DOMAIN rows[r] = NamesIn(coming)
             /\ Len(rows) = Len(want)
  <2>1. ASSUME NEW r \in DOMAIN want PROVE rows[r] \in Row
    <3>1. Zeros(w) \in Seq(Word)
      BY WidthsAssumption DEF Zeros, Word
    <3>2. \A d \in NamesIn(new) : rows[r][d] \in Seq(Word)
      BY <1>1, <1>4, <1>6, <1>9, <3>1, IdleFacts
    <3>3. DOMAIN rows[r] = NamesIn(new) /\ rows[r] = [d \in DOMAIN rows[r] |-> rows[r][d]]
      OBVIOUS
    <3> HIDE DEF rows
    <3> QED
      BY <1>7, <3>2, <3>3, RowIs
  <2>2. \A r \in DOMAIN want : DOMAIN rows[r] = NamesIn(coming)
    BY <1>6
  <2>3. rows = [r \in 1..Len(want) |-> rows[r]]
    BY <1>2
  <2> HIDE DEF rows
  <2> QED
    BY <1>2, <2>1, <2>2, <2>3
<1>10. ASSUME crashes = 0, ~ mixed', ~ doubled
       PROVE  Ordered(coming) /\ Layout(coming, Rewritten(tdf, new, moves), rows)
  <2>1. Ordered(coming) /\ ~ mixed
    BY <1>2, <1>5, <1>10
  <2>2. new = coming
    BY <1>4, <2>1, SortedOrdered DEF new
  <2>3. Layout(tdf, trd, want)
    BY <1>1, <1>10, <2>1, IdleFacts
  <2>4. tdf # <<>>
    <3>1. "trd" \in files
      BY <1>1, <1>10, OthersSet DEF IInv, FilesInv, Creating
    <3> QED
      BY <1>1, <1>2, <3>1, Places DEF Divides
  <2>5. Layout(coming, Rewritten(tdf, coming, AddMoves(tdf, coming)),
               [r \in DOMAIN want |->
                  [d \in NamesIn(coming) |-> IF d = f.name THEN Zeros(f.width) ELSE want[r][d]]])
    BY <1>1, <1>2, <1>3, <2>3, <2>4, AddLayout DEF coming
  <2> QED
    BY <1>3, <2>1, <2>2, <2>5
<1>11. mixed' \in BOOLEAN /\ (mixed => mixed')
  BY <1>2, <1>5
<1>12. coming = Append(tdf, field')
  BY <1>1 DEF coming
<1>13. Len(tdf) = Len(coming) + (0 - 1)
  BY <1>3, <1>4
<1> HIDE DEF moves, rows
<1> QED
  BY <1>1, <1>2, <1>3, <1>4, <1>6, <1>8, <1>9, <1>10, <1>11, <1>12, <1>13, AlterStep

\* So is DROP COLUMN.
LEMMA DropColumnStep ==
  ASSUME IInv, NEW p \in DOMAIN tdf, DropColumn(p)
  PROVE  IInv'
<1> DEFINE new == Without(tdf, p)
           moves == DropMoves(tdf, new, p)
           left == Except(tdf, tdf[p].name)
           rows == IF left = <<>> THEN <<>>
                   ELSE [r \in DOMAIN want |-> [d \in NamesIn(left) |-> want[r][d]]]
<1>1. /\ queue' = left /\ field' = field /\ mixed' = mixed
      /\ Alter("drop", new, moves, "put", rows) /\ pc = "idle"
  BY DEF DropColumn, Alter
<1>2. /\ tdf \in Fields /\ trd \in Seq(Word) /\ want \in Seq(Row) /\ (~ doubled => Distinct(tdf))
      /\ field \in Field /\ mixed \in BOOLEAN /\ Len(want) \in Nat /\ DOMAIN want = 1..Len(want)
  BY <1>1, IdleFacts
<1>3. new \in Fields /\ Len(new) = Len(tdf) - 1 /\ Len(tdf) \in Nat
  BY <1>2, WithoutIs DEF Fields
<1>4. /\ left \in Fields /\ NamesIn(left) \subseteq NamesIn(tdf) /\ NamesIn(left) \subseteq Names
      /\ ~ doubled => left = new /\ Distinct(left)
      /\ ~ doubled /\ Ordered(tdf) => Ordered(left)
  BY <1>2, <1>3, ExceptIs, WithoutNames, NamesInNames
<1>5. MovesFit(tdf, moves)
  BY <1>2, DropFits
<1>6. ASSUME crashes = 0, ~ mixed, ~ doubled
      PROVE  Ordered(left) /\ Layout(left, Rewritten(tdf, new, moves), rows)
  <2>1. Ordered(tdf) /\ Layout(tdf, trd, want)
    BY <1>1, <1>6, IdleFacts
  <2>2. left = new
    BY <1>4, <1>6
  <2>3. Layout(new, Rewritten(tdf, new, moves),
               IF new = <<>> THEN <<>>
               ELSE [r \in DOMAIN want |-> [d \in NamesIn(new) |-> want[r][d]]])
    BY <1>2, <2>1, DropLayout
  <2> QED
    BY <1>4, <1>6, <2>1, <2>2, <2>3
<1> HIDE DEF new, left
<1>7. ASSUME crashes = 0
      PROVE  /\ rows \in Seq(Row)
             /\ \A r \in DOMAIN rows : DOMAIN rows[r] = NamesIn(left)
             /\ left # <<>> => Len(rows) = Len(want)
  <2>1. CASE left = <<>>
    <3>1. rows = <<>>
      BY <2>1
    <3>2. <<>> \in Seq(Row) /\ \A r \in DOMAIN <<>> : FALSE
      OBVIOUS
    <3> HIDE DEF rows
    <3> QED
      BY <2>1, <3>1, <3>2
  <2>2. CASE left # <<>>
    <3>1. ASSUME NEW r \in DOMAIN want PROVE rows[r] \in Row /\ DOMAIN rows[r] = NamesIn(left)
      <4>1. rows[r] = [d \in NamesIn(left) |-> want[r][d]]
        BY <2>2
      <4>2. \A d \in NamesIn(left) : rows[r][d] \in Seq(Word)
        BY <1>1, <1>4, <1>7, <4>1, IdleFacts
      <4>3. DOMAIN rows[r] = NamesIn(left) /\ rows[r] = [d \in DOMAIN rows[r] |-> rows[r][d]]
        BY <4>1
      <4> HIDE DEF rows
      <4> QED
        BY <1>4, <4>2, <4>3, RowIs
    <3>2. rows = [r \in 1..Len(want) |-> rows[r]]
      BY <1>2, <2>2
    <3> HIDE DEF rows
    <3> QED
      BY <1>2, <3>1, <3>2
  <2> QED
    BY <2>1, <2>2
<1>8. (~ doubled => Len(tdf) = Len(left) + 1) /\ queue' \in Seq(Field)
  BY <1>1, <1>3, <1>4 DEF Fields
<1> HIDE DEF moves, rows
<1> QED
  BY <1>1, <1>2, <1>3, <1>4, <1>5, <1>6, <1>7, <1>8, AlterStep

\* So is MODIFY COLUMN.
LEMMA ModifyColumnStep ==
  ASSUME IInv, NEW p \in DOMAIN tdf, NEW w \in Widths, ModifyColumn(p, w)
  PROVE  IInv'
<1> DEFINE new == [tdf EXCEPT ![p].width = w]
           moves == ModifyMoves(tdf, new)
           rows == [r \in DOMAIN want |-> [want[r] EXCEPT ![tdf[p].name] = Fit(@, w)]]
<1>1. /\ queue' = queue /\ field' = new[p] /\ mixed' = mixed /\ p = Find(tdf, tdf[p].name)
      /\ Alter("modify", new, moves, "put", rows) /\ pc = "idle"
  BY DEF ModifyColumn, Alter
<1>2. /\ tdf \in Fields /\ trd \in Seq(Word) /\ want \in Seq(Row) /\ (~ doubled => Distinct(tdf))
      /\ queue \in Seq(Field) /\ mixed \in BOOLEAN /\ Len(want) \in Nat /\ DOMAIN want = 1..Len(want)
  BY <1>1, IdleFacts
<1>3. /\ new \in Fields /\ Len(new) = Len(tdf) /\ DOMAIN new = DOMAIN tdf /\ Len(tdf) \in Nat
      /\ \A i \in DOMAIN tdf : new[i].name = tdf[i].name /\ new[i].order = tdf[i].order
  BY <1>2, WidthSet DEF Fields
<1>4. new[p] \in Field /\ Replaced(tdf, new[p]) = new
  BY <1>1, <1>2, ReplacedWidth
<1>5. ASSUME crashes = 0
      PROVE  \A r \in DOMAIN want :
               /\ DOMAIN want[r] = NamesIn(tdf) /\ want[r] = [d \in NamesIn(tdf) |-> want[r][d]]
               /\ \A d \in NamesIn(tdf) : want[r][d] \in Seq(Word)
  BY <1>1, <1>5, IdleFacts
<1>6. ASSUME crashes = 0, ~ mixed, ~ doubled
      PROVE  Ordered(tdf) /\ Layout(new, Rewritten(tdf, new, moves), rows)
  <2>1. Ordered(tdf) /\ Layout(tdf, trd, want)
    BY <1>1, <1>6, IdleFacts
  <2>2. \A r \in DOMAIN want : DOMAIN want[r] = NamesIn(tdf)
    BY <1>5, <1>6
  <2>3. Layout(new, Rewritten(tdf, new, moves), rows)
    BY <1>2, <1>6, <2>1, <2>2, ModifyLayout
  <2> QED
    BY <2>1, <2>3
<1> HIDE DEF new
<1>7. /\ NamesIn(new) = NamesIn(tdf) /\ (~ doubled => Distinct(new)) /\ (Ordered(tdf) => Ordered(new))
      /\ NamesIn(tdf) \subseteq Names /\ tdf[p].name \in NamesIn(tdf)
  <2>1. NamesIn(new) = NamesIn(tdf) /\ tdf[p].name \in NamesIn(tdf)
    BY <1>3 DEF NamesIn
  <2>2. Distinct(tdf) => Distinct(new)
    BY <1>3 DEF Distinct
  <2>3. Ordered(tdf) => Ordered(new)
    BY <1>3 DEF Ordered
  <2> QED
    BY <1>2, <2>1, <2>2, <2>3, NamesInNames
<1>8. ASSUME crashes = 0
      PROVE  /\ rows \in Seq(Row)
             /\ \A r \in DOMAIN rows : DOMAIN rows[r] = NamesIn(new)
             /\ Len(rows) = Len(want)
  <2>1. ASSUME NEW r \in DOMAIN want PROVE rows[r] \in Row /\ DOMAIN rows[r] = NamesIn(new)
    <3>1. Fit(want[r][tdf[p].name], w) \in Seq(Word)
      <4> DEFINE value == want[r][tdf[p].name]
      <4>1. value \in Seq(Word)
        BY <1>5, <1>7, <1>8
      <4>2. \A k \in 1..w : (IF k <= Len(value) THEN value[k] ELSE Blank) \in Word
        <5>1. \A k \in 1..w : k <= Len(value) => value[k] \in Word
          BY <4>1
        <5> HIDE DEF value
        <5> QED
          BY <5>1 DEF Word
      <4>3. w \in Nat
        BY WidthsAssumption
      <4> HIDE DEF value
      <4>4. Fit(value, w) \in Seq(Word)
        BY <4>2, <4>3 DEF Fit
      <4> QED
        BY <4>4 DEF value
    <3>2. DOMAIN want[r] = NamesIn(tdf) /\ \A d \in NamesIn(tdf) : want[r][d] \in Seq(Word)
      BY <1>5, <1>8
    <3>3. rows[r] = [want[r] EXCEPT ![tdf[p].name] = Fit(want[r][tdf[p].name], w)]
      OBVIOUS
    <3> HIDE DEF rows
    <3>4. DOMAIN rows[r] = NamesIn(tdf) /\ rows[r] = [d \in DOMAIN rows[r] |-> rows[r][d]]
      BY <3>2, <3>3
    <3>5. \A d \in NamesIn(tdf) : rows[r][d] \in Seq(Word)
      BY <3>1, <3>2, <3>3
    <3> QED
      BY <1>7, <3>4, <3>5, RowIs
  <2>2. rows = [r \in 1..Len(want) |-> rows[r]]
    BY <1>2
  <2> HIDE DEF rows
  <2> QED
    BY <1>2, <2>1, <2>2
<1> HIDE DEF moves, rows
<1>9. mixed' \in BOOLEAN /\ new = Replaced(tdf, field') /\ field' \in Field /\ queue' \in Seq(Field)
  BY <1>1, <1>2, <1>4
<1>10. Len(tdf) = Len(new) + 0
  BY <1>3
<1>11. MovesFit(tdf, moves)
  BY <1>2, <1>3, ModifyFits DEF moves
<1> QED
  BY <1>1, <1>2, <1>3, <1>6, <1>7, <1>8, <1>9, <1>10, <1>11, AlterStep

-----------------------------------------------------------------------------
(***************************************************************************)
(* Theorems.                                                               *)
(***************************************************************************)
\* Every step keeps the invariant.
LEMMA NextStep ==
  ASSUME IInv, [Next]_vars
  PROVE  IInv'
<1>1. CASE UNCHANGED vars
  BY <1>1, QuietStep DEF vars
<1>2. CASE Refuse
  BY <1>2, QuietStep DEF Refuse
<1>3. ASSUME NEW c \in Names, AddDies(c) PROVE IInv'
  BY <1>3, QuietStep DEF AddDies
<1>4. CASE Start
  BY <1>2, <1>3, <1>4, CreateTableStep, DropTableStep, InsertStep, AddColumnStep, DropColumnStep, ModifyColumnStep
     DEF Start, CreateTableRefused, DropTableRefused, InsertRefused, AddRefused, DropOrModifyRefused
<1>5. CASE Step
  BY <1>5, WorkingStep, DeleteFileStep, DropTableDoneStep, AddFieldFailsStep DEF Step, Working
<1>6. CASE Crash
  BY <1>6, CrashStep
<1> QED
  BY <1>1, <1>4, <1>5, <1>6 DEF Next

\* The invariant always holds.
THEOREM Invariant == Spec => []IInv
<1>1. Init => IInv
  BY InitStep
<1>2. IInv /\ [Next]_vars => IInv'
  BY NextStep
<1> QED
  BY <1>1, <1>2, PTL DEF Spec

\* Every file and variable always has its type: no ALTER reads outside a
\* record, and no sequence of statements and crashes makes a count a non-number.
THEOREM TypeCorrect == Spec => []TypeOK
<1>1. IInv => TypeOK
  BY DEF IInv, Types
<1> QED
  BY <1>1, Invariant, PTL

\* For any columns, any number of rows and any ALTERs: as long as the field
\* list is in order and names no column twice, and no crash has cut a
\* statement, SELECT shows the rows as
\* INSERT stored them, with added columns zero, modified ones cut or
\* zero-filled, and all others as they were.
THEOREM RowsAreKept == Spec => []RowsKept
<1>1. IInv => RowsKept
  <2> SUFFICES ASSUME IInv, Idle, crashes = 0, ~ mixed, ~ doubled PROVE Shown = want
    BY DEF RowsKept
  <2>1. pc = "idle"
    BY DEF Idle
  <2>2. /\ tdf \in Fields /\ trd \in Seq(Word) /\ want \in Seq(Row) /\ Distinct(tdf)
        /\ Ordered(tdf) /\ Layout(tdf, trd, want)
        /\ \A r \in DOMAIN want : DOMAIN want[r] = NamesIn(tdf)
    BY <2>1, IdleFacts
  <2> QED
    BY <2>2, ShownRows
<1> QED
  BY <1>1, Invariant, PTL

\* Without a crash the counts in the .tb file are those of the field list and
\* the rows, as long as the list names no column twice.
THEOREM CountsAgreeAlways == Spec => []CountsAgree
<1>1. IInv => CountsAgree
  <2> SUFFICES ASSUME IInv, Idle, crashes = 0, ~ doubled, HasTable, tdf # <<>>
               PROVE  tb = [fields |-> Len(tdf), records |-> Len(want)]
    BY DEF CountsAgree
  <2>1. pc = "idle" /\ tb # None /\ Coming = tdf /\ FieldsDue = 0
    BY DEF Idle, HasTable, Coming, FieldsDue
  <2>2. tb \in [fields : Int, records : Nat] /\ Len(tdf) \in Nat
    BY <2>1 DEF IInv, Types, TypeOK
  <2>3. tb.fields = Len(tdf) + 0 /\ tb.records + 0 = Len(want)
    BY <2>1 DEF IInv, CountsInv
  <2> QED
    BY <2>2, <2>3
<1> QED
  BY <1>1, Invariant, PTL

\* As long as CREATE TABLE is not given a name twice, no statement, cut short
\* or not, leaves two fields of one name.
THEOREM FieldsStayDistinct == Spec => []FieldsDistinct
<1>1. IInv => FieldsDistinct
  BY DEF IInv, NamesOnce, Distinct, FieldsDistinct
<1> QED
  BY <1>1, Invariant, PTL

\* A CREATE TABLE that reports success has left just the table it was given,
\* whatever earlier crashes had left.
THEOREM CreateIsWhole == Spec => []CreatedWhole
<1>1. IInv => CreatedWhole
  BY DEF IInv
<1> QED
  BY <1>1, Invariant, PTL

\* A DROP TABLE that ran to its end leaves none of the files.
THEOREM DropIsWhole == Spec => []DroppedWhole
<1>1. IInv => DroppedWhole
  BY DEF IInv
<1> QED
  BY <1>1, Invariant, PTL

=============================================================================
