--------------------------- MODULE Operators_proofs ---------------------------
(***************************************************************************)
(* Two operators of a SELECT, for any tables, conditions and indexes.      *)
(*                                                                         *)
(* JoinOperator::next returns what the join asks for (JoinComplete).  The  *)
(* two indexes say which pairs have been considered.  What has been        *)
(* returned is the matching pairs among them and, in the second phase of a *)
(* RIGHT JOIN, the lonely right rows passed there; the flags of the right  *)
(* rows say, when that phase begins, which rows those are.                 *)
(*                                                                         *)
(* The index chosen for a WHERE reads every row the WHERE lets through.    *)
(***************************************************************************)
EXTENDS Join, IndexPlan, FiniteSetTheorems, TLAPS

-----------------------------------------------------------------------------
(***************************************************************************)
(* The loops of a join.                                                    *)
(***************************************************************************)

Passed(p) == p[1] < leftIdx \/ (p[1] = leftIdx /\ p[2] < rightIdx)

SecondOfRight == joinType = "RIGHT" /\ emittingNullRow

Returned == {joined[n] : n \in DOMAIN joined}

ReturnedOnce == \A m, n \in DOMAIN joined : joined[m] = joined[n] => m = n

LonelyPassed == {p \in {0} \X RightAlone : SecondOfRight /\ p[2] < rightIdx}

JoinTypeOK ==
  /\ joinType \in JoinTypes
  /\ nLeft \in Nat /\ nRight \in Nat
  /\ matches \in SUBSET ((1..nLeft) \X (1..nRight))
  /\ leftIdx \in 1..(nLeft + 1) /\ rightIdx \in 1..(nRight + 1)
  /\ rightMatched \in SUBSET (1..nRight)
  /\ emittingNullRow \in BOOLEAN
  /\ emittingNullRow => Outer /\ leftIdx = nLeft + 1
  /\ leftIdx = nLeft + 1 /\ ~emittingNullRow => rightIdx = 1
  /\ joined \in Seq(Nat \X Nat)

\* What the flags of the right rows mean, in either phase.
FlagsAgree ==
  joinType = "RIGHT" =>
    \A j \in 1..nRight :
      IF emittingNullRow
      THEN j >= rightIdx => (j \in rightMatched <=> j \notin RightAlone)
      ELSE j \in rightMatched <=> \E i \in 1..nLeft : <<i, j>> \in matches /\ Passed(<<i, j>>)

ReturnedAsPassed == Returned = {p \in matches : Passed(p)} \cup LonelyPassed

JoinInv == JoinTypeOK /\ FlagsAgree /\ ReturnedOnce /\ ReturnedAsPassed

-----------------------------------------------------------------------------
\* Returning a pair that has not been returned adds it, once.
LEMMA EmitAdds ==
  ASSUME JoinTypeOK, ReturnedOnce,
         NEW i \in Nat, NEW j \in Nat, <<i, j>> \notin Returned, Emit(i, j)
  PROVE  /\ joined' \in Seq(Nat \X Nat)
         /\ ReturnedOnce'
         /\ Returned' = Returned \cup {<<i, j>>}
<1> DEFINE e == <<i, j>>
           k == Len(joined) + 1
<1>1. joined \in Seq(Nat \X Nat) /\ e \in Nat \X Nat /\ joined' = Append(joined, e)
  BY DEF JoinTypeOK, Emit
<1> HIDE DEF e
<1>2. /\ joined' \in Seq(Nat \X Nat)
      /\ DOMAIN joined = 1..Len(joined) /\ Len(joined) \in Nat
      /\ DOMAIN joined' = 1..k
      /\ joined'[k] = e
      /\ \A n \in DOMAIN joined : joined'[n] = joined[n]
  BY <1>1
<1>3. DOMAIN joined' = DOMAIN joined \cup {k} /\ k \notin DOMAIN joined
  BY <1>2
<1>4. Returned' = Returned \cup {e}
  BY <1>2, <1>3, SMTT(40) DEF Returned
<1>5. \A n \in DOMAIN joined : joined[n] # e
  BY DEF Returned, e
<1>6. ReturnedOnce'
  BY <1>2, <1>3, <1>5 DEF ReturnedOnce
<1> QED
  BY <1>2, <1>4, <1>6 DEF e

\* The same pairs have been returned if none is returned now.
LEMMA NothingReturned ==
  ASSUME UNCHANGED joined
  PROVE  Returned' = Returned /\ (ReturnedOnce => ReturnedOnce')
BY DEF Returned, ReturnedOnce

\* init leaves everything to be passed.
LEMMA JoinInitInv == JoinInit => JoinInv
<1> SUFFICES ASSUME NEW type \in JoinTypes, NEW l \in Nat, NEW r \in Nat,
                    NEW pairs \in SUBSET ((1..l) \X (1..r)), JoinStart(type, l, r, pairs)
             PROVE  JoinInv
  BY DEF JoinInit
<1>1. JoinTypeOK
  <2>1. /\ joinType \in JoinTypes /\ nLeft \in Nat /\ nRight \in Nat
        /\ matches \in SUBSET ((1..nLeft) \X (1..nRight))
        /\ leftIdx = 1 /\ rightIdx = 1 /\ rightMatched = {} /\ emittingNullRow = FALSE
    BY DEF JoinStart
  <2>2. joined \in Seq(Nat \X Nat)
    BY DEF JoinStart
  <2>3. leftIdx \in 1..(nLeft + 1) /\ rightIdx \in 1..(nRight + 1)
    BY <2>1
  <2>4. emittingNullRow \in BOOLEAN /\ ~emittingNullRow
    BY <2>1
  <2> QED BY <2>1, <2>2, <2>3, <2>4 DEF JoinTypeOK
<1>2. \A p \in matches : ~Passed(p)
  BY DEF JoinStart, Passed
<1>3. LonelyPassed = {} /\ Returned = {} /\ ReturnedOnce
  BY DEF LonelyPassed, SecondOfRight, JoinStart, Returned, ReturnedOnce
<1>4. FlagsAgree
  BY <1>2 DEF FlagsAgree, JoinStart
<1> QED
  BY <1>1, <1>2, <1>3, <1>4 DEF JoinInv, ReturnedAsPassed

-----------------------------------------------------------------------------
LEMMA ConsiderPairInv == JoinInv /\ ConsiderPair => JoinInv'
<1> SUFFICES ASSUME JoinInv, ConsiderPair PROVE JoinInv'
  OBVIOUS
<1> DEFINE now == <<leftIdx, rightIdx>>
<1>1. /\ leftIdx \in 1..nLeft /\ rightIdx \in 1..nRight /\ nLeft \in Nat /\ nRight \in Nat
      /\ matches \in SUBSET ((1..nLeft) \X (1..nRight))
      /\ rightIdx' = rightIdx + 1
      /\ UNCHANGED <<joinType, nLeft, nRight, matches, leftIdx, emittingNullRow>>
      /\ ~emittingNullRow
  BY DEF JoinInv, JoinTypeOK, ConsiderPair
<1>2. ASSUME NEW p \in (1..nLeft) \X (1..nRight) PROVE Passed(p)' <=> Passed(p) \/ p = now
  <2>1. p = <<p[1], p[2]>> /\ p[1] \in 1..nLeft /\ p[2] \in 1..nRight
    OBVIOUS
  <2> QED BY <1>1, <2>1 DEF Passed
<1>3. LonelyPassed = {} /\ LonelyPassed' = {}
  BY <1>1 DEF LonelyPassed, SecondOfRight
<1>4. ~Passed(now)
  BY <1>1 DEF Passed
<1>5. CASE now \in matches
  <2>1. Emit(leftIdx, rightIdx) /\ rightMatched' = IF Outer THEN rightMatched \cup {rightIdx} ELSE rightMatched
    BY <1>5 DEF ConsiderPair
  <2>2. now \notin Returned
    BY <1>3, <1>4 DEF JoinInv, ReturnedAsPassed
  <2>3. joined' \in Seq(Nat \X Nat) /\ ReturnedOnce' /\ Returned' = Returned \cup {now}
    BY <1>1, <2>1, <2>2, EmitAdds DEF JoinInv
  <2>4. JoinTypeOK'
    BY <1>1, <2>1, <2>3 DEF JoinInv, JoinTypeOK, Outer
  <2>5. {p \in matches' : Passed(p)'} = {p \in matches : Passed(p)} \cup {now}
    BY <1>1, <1>2, <1>5
  <2>6. ReturnedAsPassed'
    BY <1>3, <2>3, <2>5 DEF JoinInv, ReturnedAsPassed
  <2>7. FlagsAgree'
    <3> SUFFICES ASSUME joinType = "RIGHT", NEW j \in 1..nRight
                 PROVE  j \in rightMatched' <=> \E i \in 1..nLeft : <<i, j>> \in matches /\ Passed(<<i, j>>)'
      BY <1>1 DEF FlagsAgree
    <3>1. j \in rightMatched <=> \E i \in 1..nLeft : <<i, j>> \in matches /\ Passed(<<i, j>>)
      BY <1>1 DEF JoinInv, FlagsAgree
    <3>2. j \in rightMatched' <=> j \in rightMatched \/ j = rightIdx
      BY <2>1 DEF Outer
    <3>3. \A i \in 1..nLeft : Passed(<<i, j>>)' <=> Passed(<<i, j>>) \/ (i = leftIdx /\ j = rightIdx)
      BY <1>2
    <3> QED BY <1>1, <1>5, <3>1, <3>2, <3>3
  <2> QED BY <2>3, <2>4, <2>6, <2>7 DEF JoinInv
<1>6. CASE now \notin matches
  <2>1. UNCHANGED <<joined, leftMatched, rightMatched>>
    BY <1>6 DEF ConsiderPair
  <2>2. \A p \in matches : Passed(p)' <=> Passed(p)
    BY <1>1, <1>2, <1>6
  <2>3. JoinTypeOK'
    BY <1>1, <2>1 DEF JoinInv, JoinTypeOK, Outer
  <2>4. ReturnedOnce' /\ ReturnedAsPassed'
    BY <1>1, <1>3, <2>1, <2>2, NothingReturned DEF JoinInv, ReturnedAsPassed
  <2>5. FlagsAgree'
    BY <1>1, <2>1, <2>2 DEF JoinInv, FlagsAgree
  <2> QED BY <2>3, <2>4, <2>5 DEF JoinInv
<1> QED BY <1>5, <1>6

LEMMA NextLeftRowInv == JoinInv /\ NextLeftRow => JoinInv'
<1> SUFFICES ASSUME JoinInv, NextLeftRow PROVE JoinInv'
  OBVIOUS
<1>1. /\ leftIdx \in 1..nLeft /\ rightIdx = nRight + 1 /\ nLeft \in Nat /\ nRight \in Nat
      /\ matches \in SUBSET ((1..nLeft) \X (1..nRight))
      /\ leftIdx' = leftIdx + 1 /\ rightIdx' = 1
      /\ UNCHANGED <<joinType, nLeft, nRight, matches, leftMatched, rightMatched, emittingNullRow, joined>>
      /\ ~emittingNullRow
  BY DEF JoinInv, JoinTypeOK, NextLeftRow
<1>2. ASSUME NEW p \in (1..nLeft) \X (1..nRight) PROVE Passed(p)' <=> Passed(p)
  <2>1. p[1] \in 1..nLeft /\ p[2] \in 1..nRight
    OBVIOUS
  <2> QED BY <1>1, <2>1 DEF Passed
<1>3. JoinTypeOK'
  BY <1>1 DEF JoinInv, JoinTypeOK, Outer
<1>4. \A p \in matches : Passed(p)' <=> Passed(p)
  BY <1>1, <1>2
<1>5. LonelyPassed = {} /\ LonelyPassed' = {}
  BY <1>1 DEF LonelyPassed, SecondOfRight
<1>6. ReturnedOnce' /\ ReturnedAsPassed'
  BY <1>1, <1>4, <1>5, NothingReturned DEF JoinInv, ReturnedAsPassed
<1>7. FlagsAgree'
  BY <1>1, <1>4 DEF JoinInv, FlagsAgree
<1> QED BY <1>3, <1>6, <1>7 DEF JoinInv

LEMMA BeginNullRowsInv == JoinInv /\ BeginNullRows => JoinInv'
<1> SUFFICES ASSUME JoinInv, BeginNullRows PROVE JoinInv'
  OBVIOUS
<1>1. /\ leftIdx = nLeft + 1 /\ nLeft \in Nat /\ nRight \in Nat
      /\ matches \in SUBSET ((1..nLeft) \X (1..nRight))
      /\ rightIdx \in 1..(nRight + 1)
      /\ emittingNullRow' /\ ~emittingNullRow
      /\ UNCHANGED <<joinType, nLeft, nRight, matches, leftIdx, rightIdx, leftMatched, rightMatched, joined>>
  BY DEF JoinInv, JoinTypeOK, BeginNullRows
<1>2. JoinTypeOK'
  BY <1>1 DEF JoinInv, JoinTypeOK, BeginNullRows, Outer
<1>3. FlagsAgree'
  <2> SUFFICES ASSUME joinType = "RIGHT", NEW j \in 1..nRight
               PROVE  j \in rightMatched <=> j \notin RightAlone
    BY <1>1 DEF FlagsAgree, RightAlone
  <2>1. j \in rightMatched <=> \E i \in 1..nLeft : <<i, j>> \in matches /\ Passed(<<i, j>>)
    BY <1>1 DEF JoinInv, FlagsAgree
  <2>2. \A i \in 1..nLeft : Passed(<<i, j>>)
    BY <1>1 DEF Passed
  <2> QED BY <2>1, <2>2 DEF RightAlone
<1>4. LonelyPassed = {}
  BY <1>1 DEF LonelyPassed, SecondOfRight
<1>5. LonelyPassed' = {}
  <2>1. rightIdx' = 1
    BY <1>1 DEF JoinInv, JoinTypeOK
  <2>2. \A p \in {0} \X RightAlone' : ~(p[2] < rightIdx')
    BY <1>1, <2>1 DEF RightAlone
  <2> QED BY <2>2 DEF LonelyPassed
<1>6. \A p \in matches : Passed(p)' <=> Passed(p)
  BY <1>1 DEF Passed
<1>7. ReturnedOnce' /\ ReturnedAsPassed'
  BY <1>1, <1>4, <1>5, <1>6, NothingReturned DEF JoinInv, ReturnedAsPassed
<1> QED BY <1>2, <1>3, <1>7 DEF JoinInv

LEMMA NullRowInv == JoinInv /\ NullRow => JoinInv'
<1> SUFFICES ASSUME JoinInv, NullRow PROVE JoinInv'
  OBVIOUS
<1>1. /\ joinType = "RIGHT" /\ emittingNullRow
      /\ leftIdx = nLeft + 1 /\ nLeft \in Nat /\ nRight \in Nat
      /\ matches \in SUBSET ((1..nLeft) \X (1..nRight))
      /\ rightIdx \in 1..nRight /\ rightIdx' = rightIdx + 1
      /\ rightMatched' = rightMatched \cup {rightIdx}
      /\ UNCHANGED <<joinType, nLeft, nRight, matches, leftIdx, emittingNullRow>>
      /\ IF rightIdx \in rightMatched THEN UNCHANGED joined ELSE Emit(0, rightIdx)
  BY DEF JoinInv, JoinTypeOK, NullRow, RestIdx, RestEnd, Outer
<1>2. \A p \in matches : p \in (1..nLeft) \X (1..nRight) /\ Passed(p) /\ Passed(p)'
  BY <1>1 DEF Passed
<1>3. rightIdx \in rightMatched <=> rightIdx \notin RightAlone
  BY <1>1 DEF JoinInv, FlagsAgree
<1>4. RightAlone' = RightAlone
  BY <1>1 DEF RightAlone
<1>5. FlagsAgree'
  BY <1>1, <1>4 DEF JoinInv, FlagsAgree
<1>6. ASSUME NEW p \in {0} \X RightAlone
      PROVE  p \in LonelyPassed' <=> p \in LonelyPassed \/ p = <<0, rightIdx>>
  <2>1. p = <<p[1], p[2]>> /\ p[1] = 0 /\ p[2] \in 1..nRight
    BY DEF RightAlone
  <2> QED BY <1>1, <1>4, <2>1 DEF LonelyPassed, SecondOfRight
<1>7. {p \in matches' : Passed(p)'} = {p \in matches : Passed(p)}
  BY <1>1, <1>2
<1>8. CASE rightIdx \in rightMatched
  <2>1. UNCHANGED joined /\ rightIdx \notin RightAlone
    BY <1>1, <1>3, <1>8
  <2>2. \A p \in {0} \X RightAlone : p # <<0, rightIdx>>
    BY <2>1
  <2>3. LonelyPassed' = LonelyPassed
    BY <1>4, <1>6, <2>2 DEF LonelyPassed
  <2>4. JoinTypeOK'
    BY <1>1, <2>1 DEF JoinInv, JoinTypeOK, Outer
  <2> QED BY <1>5, <1>7, <2>1, <2>3, <2>4, NothingReturned DEF JoinInv, ReturnedAsPassed
<1>9. CASE rightIdx \notin rightMatched
  <2>1. Emit(0, rightIdx) /\ rightIdx \in RightAlone
    BY <1>1, <1>3, <1>9
  <2>2. <<0, rightIdx>> \notin Returned
    BY <1>1, <1>2 DEF JoinInv, ReturnedAsPassed, LonelyPassed
  <2>3. joined' \in Seq(Nat \X Nat) /\ ReturnedOnce' /\ Returned' = Returned \cup {<<0, rightIdx>>}
    BY <1>1, <2>1, <2>2, EmitAdds DEF JoinInv
  <2>4. LonelyPassed' = LonelyPassed \cup {<<0, rightIdx>>}
    BY <1>4, <1>6, <2>1 DEF LonelyPassed
  <2>5. JoinTypeOK'
    BY <1>1, <2>3 DEF JoinInv, JoinTypeOK, Outer
  <2> QED BY <1>5, <1>7, <2>3, <2>4, <2>5 DEF JoinInv, ReturnedAsPassed
<1> QED BY <1>8, <1>9

-----------------------------------------------------------------------------
LEMMA JoinAlways == JoinSpec => []JoinInv
<1>1. JoinInv /\ [JoinStep]_joinVars => JoinInv'
  <2>1. JoinInv /\ UNCHANGED joinVars => JoinInv'
    BY SMTT(60) DEF joinVars, JoinInv, JoinTypeOK, Outer, FlagsAgree, ReturnedOnce, ReturnedAsPassed, Returned,
           Passed, LonelyPassed, SecondOfRight, RightAlone
  <2> QED BY <2>1, ConsiderPairInv, NextLeftRowInv, BeginNullRowsInv, NullRowInv DEF JoinStep
<1> QED BY JoinInitInv, <1>1, PTL DEF JoinSpec

\* What the invariant says when both indexes are at their ends.
LEMMA JoinInvComplete == JoinInv => JoinComplete
<1> SUFFICES ASSUME JoinInv PROVE JoinComplete
  OBVIOUS
<1>1. \A n \in DOMAIN joined :
        \/ joined[n] \in matches
        \/ joinType = "RIGHT" /\ \E j \in RightAlone : joined[n] = <<0, j>>
  <2> SUFFICES ASSUME NEW n \in DOMAIN joined, joined[n] \notin matches
               PROVE  joinType = "RIGHT" /\ \E j \in RightAlone : joined[n] = <<0, j>>
    OBVIOUS
  <2>1. joined[n] \in LonelyPassed
    BY DEF JoinInv, ReturnedAsPassed, Returned
  <2> QED BY <2>1 DEF LonelyPassed, SecondOfRight
<1>2. ASSUME JoinEnded, NEW p \in matches PROVE p \in Returned
  <2>1. leftIdx > nLeft /\ nLeft \in Nat /\ leftIdx \in Int /\ p \in (1..nLeft) \X (1..nRight)
    BY <1>2 DEF JoinInv, JoinTypeOK, JoinEnded
  <2>2. Passed(p)
    BY <2>1 DEF Passed
  <2> QED BY <2>2 DEF JoinInv, ReturnedAsPassed
<1>3. ASSUME JoinEnded, joinType = "RIGHT", NEW j \in RightAlone PROVE <<0, j>> \in Returned
  <2>1. emittingNullRow /\ rightIdx > nRight /\ j \in 1..nRight /\ nRight \in Nat /\ rightIdx \in Int
    BY <1>3 DEF JoinInv, JoinTypeOK, JoinEnded, Outer, RestIdx, RestEnd, RightAlone
  <2>2. <<0, j>> \in LonelyPassed
    BY <1>3, <2>1 DEF LonelyPassed, SecondOfRight
  <2> QED BY <2>2 DEF JoinInv, ReturnedAsPassed
<1> QED BY <1>1, <1>2, <1>3 DEF JoinInv, JoinComplete, ReturnedOnce, Returned

\* JoinOperator::next, however its loops are left and entered again, returns every matching pair
\* once, in a RIGHT JOIN every lonely right row once, and nothing else: for tables of any size, any
\* condition and any kind of join.
THEOREM JoinReturnsAll == JoinSpec => []JoinComplete
<1> QED BY JoinAlways, JoinInvComplete, PTL

-----------------------------------------------------------------------------
(***************************************************************************)
(* The choice of an index.                                                 *)
(***************************************************************************)
\* A set of numbers has a least one.
LEMMA Least ==
  ASSUME NEW T \in SUBSET Nat, T # {}
  PROVE  \E x \in T : \A y \in T : x <= y
<1> DEFINE U == {0..t : t \in T}
<1>1. U \subseteq FiniteSubsetsOf(Nat) /\ U # {}
  <2>1. ASSUME NEW t \in T PROVE 0..t \in FiniteSubsetsOf(Nat)
    <3>1. IsFiniteSet(0..t)
      BY FS_Interval
    <3> QED
      BY <3>1 DEF FiniteSubsetsOf
  <2> QED
    BY <2>1
<1>2. PICK u \in U : \A v \in U : ~ (<<v, u>> \in StrictSubsetOrdering(Nat))
  <2> HIDE DEF U
  <2> QED
    BY <1>1, FS_StrictSubsetOrderingWellFounded, WFMin
<1>3. PICK x \in T : u = 0..x
  OBVIOUS
<1>4. ASSUME NEW y \in T, y < x PROVE FALSE
  <2>1. /\ 0..y \in SUBSET Nat /\ 0..x \in SUBSET Nat /\ 0..y \subseteq 0..x
        /\ x \in 0..x /\ x \notin 0..y /\ 0..y \in U
    BY <1>4
  <2> QED
    BY <1>2, <1>3, <2>1 DEF StrictSubsetOrdering
<1> QED
  BY <1>4

LEMMA LastIn ==
  ASSUME NEW n \in Nat, NEW ks \in SUBSET (1..n), ks # {}
  PROVE  LastOf(ks) \in ks
<1> DEFINE T == {n - k : k \in ks}
<1>1. T \in SUBSET Nat /\ T # {}
  <2>1. ASSUME NEW k \in ks PROVE n - k \in Nat
    <3>1. k \in 1..n
      OBVIOUS
    <3> QED
      BY <3>1
  <2> QED
    BY <2>1
<1>2. PICK x \in T : \A y \in T : x <= y
  <2> HIDE DEF T
  <2> QED
    BY <1>1, Least
<1>3. PICK k \in ks : x = n - k
  OBVIOUS
<1>4. ASSUME NEW j \in ks PROVE j <= k
  <2>1. j \in 1..n /\ k \in 1..n
    OBVIOUS
  <2>2. n - j \in T
    OBVIOUS
  <2>3. n - k <= n - j
    <3> HIDE DEF T
    <3> QED
      BY <1>2, <1>3, <2>2
  <2> QED
    BY <2>1, <2>3
<1> QED
  BY <1>4 DEF LastOf

LEMMA FirstIn ==
  ASSUME NEW indexes, NEW ks, ks \in SUBSET Nat, ks # {}
  PROVE  \E k \in ks : First(indexes, ks) = indexes[k]
<1>1. PICK k \in ks : \A j \in ks : k <= j
  BY Least
<1> QED
  BY <1>1 DEF First

\* A condition the choice of an index makes use of, its column and its literals.
Usable(c) == Straight(c) \/ Reversed(c) \/ IsBetween(c)

ColumnIn(c) == IF Reversed(c) THEN c.y ELSE c.x

LiteralsIn(c) == IF IsBetween(c) THEN {c.low.value, c.high.value} ELSE {EqualityLiteral(c)}

\* A column the filter looks up in the row before it.
OfThisRow(x, ctx) == x.table = "" \/ ctx.alias = "" \/ x.table # ctx.alias

\* The row passes the condition in the filter, if the choice of an index makes use of it.
Allows(c, row, ctx) ==
  Usable(c) => LiteralsIn(c) \subseteq Int /\ OfThisRow(ColumnIn(c), ctx) /\ Passes(c, row, ctx)

LEMMA CellIs ==
  ASSUME NEW row \in Seq(Int), NEW schema, NEW name
  PROVE  CellOf(schema, row, name) \in Int
BY DEF CellOf, CellAt, Empty

\* Both operands of a condition have their values; the column's is that of the row.
LEMMA ColumnIs ==
  ASSUME NEW x, NEW row, NEW ctx, x.kind = "col", OfThisRow(x, ctx)
  PROVE  ValueOf(x, row, ctx) = CellOf(ctx.schema, row, x.name)
BY DEF OfThisRow, ValueOf, ColumnValue

LEMMA LiteralIs ==
  ASSUME NEW x, NEW row, NEW ctx, x.kind = "lit"
  PROVE  ValueOf(x, row, ctx) = x.value
BY DEF ValueOf

LEMMA ComparisonSays ==
  ASSUME NEW c, NEW row, NEW ctx, Straight(c) \/ Reversed(c), Allows(c, row, ctx)
  PROVE  LET v == CellOf(ctx.schema, row, ColumnIn(c).name)
         IN  /\ Straight(c) => Compare(c.op, v, c.y.value)
             /\ Reversed(c) => Compare(c.op, c.x.value, v)
<1>1. Passes(c, row, ctx) /\ OfThisRow(ColumnIn(c), ctx)
  BY DEF Allows, Usable
<1>2. c.op \in Comparisons
  BY DEF Straight, Reversed
<1>3. Compare(c.op, ValueOf(c.x, row, ctx), ValueOf(c.y, row, ctx))
  BY <1>1, <1>2 DEF Passes, Comparisons
<1>4. CASE Straight(c)
  <2>1. ColumnIn(c) = c.x /\ c.x.kind = "col" /\ c.y.kind = "lit" /\ ~Reversed(c)
    BY <1>4 DEF ColumnIn, Straight, Reversed
  <2> QED
    BY <1>1, <1>3, <2>1, ColumnIs, LiteralIs
<1>5. CASE Reversed(c)
  <2>1. ColumnIn(c) = c.y /\ c.y.kind = "col" /\ c.x.kind = "lit" /\ ~Straight(c)
    BY <1>5 DEF ColumnIn, Straight, Reversed
  <2> QED
    BY <1>1, <1>3, <2>1, ColumnIs, LiteralIs
<1> QED
  BY <1>4, <1>5

\* A condition that gives a literal for a column holds of no other cell.
LEMMA EqualitySays ==
  ASSUME NEW c, NEW name, NEW row, NEW ctx, Allows(c, row, ctx), Concerns(c, name), c.op = "="
  PROVE  CellOf(ctx.schema, row, name) = EqualityLiteral(c)
<1>1. Straight(c) \/ Reversed(c)
  BY DEF Concerns, IsBetween
<1>2. ColumnIn(c).name = name
  BY DEF Concerns, ColumnIn, Straight, Reversed, IsBetween
<1>3. Reversed(c) => ~Straight(c)
  BY DEF Straight, Reversed
<1> QED
  BY <1>1, <1>2, <1>3, ComparisonSays DEF Compare, EqualityLiteral

\* The two sides of InBounds.
Above(v, b) == b = <<>> \/ v > b[1] \/ (b[2] /\ v = b[1])
Below(v, b) == b = <<>> \/ v < b[1] \/ (b[2] /\ v = b[1])

\* Mirrored takes a comparison to the one with its sides exchanged.
LEMMA MirroredSays ==
  ASSUME NEW op \in Comparisons, NEW u \in Int, NEW v \in Int, Compare(op, u, v)
  PROVE  Mirrored(op) \in Comparisons /\ Compare(Mirrored(op), v, u)
BY DEF Comparisons, Compare, Mirrored

\* What passes a comparison is within the bounds it stands for.
LEMMA ComparisonBounds ==
  ASSUME NEW op \in Comparisons, NEW v \in Int, NEW w \in Int, Compare(op, v, w)
  PROVE  Above(v, Bounds(op, w).lower) /\ Below(v, Bounds(op, w).upper)
<1>1. CASE op \in {"=", "!="}
  BY <1>1 DEF Bounds, NoBounds, Above, Below
<1>2. CASE op = ">"
  <2>1. v > w /\ Bounds(op, w) = [lower |-> <<w, FALSE>>, upper |-> <<>>]
    BY <1>2 DEF Compare, Bounds, Lower
  <2> QED
    BY <2>1 DEF Above, Below
<1>3. CASE op = ">="
  <2>1. v >= w /\ Bounds(op, w) = [lower |-> <<w, TRUE>>, upper |-> <<>>]
    BY <1>3 DEF Compare, Bounds, Lower
  <2> QED
    BY <2>1 DEF Above, Below
<1>4. CASE op = "<"
  <2>1. v < w /\ Bounds(op, w) = [lower |-> <<>>, upper |-> <<w, FALSE>>]
    BY <1>4 DEF Compare, Bounds, Upper
  <2> QED
    BY <2>1 DEF Above, Below
<1>5. CASE op = "<="
  <2>1. v <= w /\ Bounds(op, w) = [lower |-> <<>>, upper |-> <<w, TRUE>>]
    BY <1>5 DEF Compare, Bounds, Upper
  <2> QED
    BY <2>1 DEF Above, Below
<1> QED
  BY <1>1, <1>2, <1>3, <1>4, <1>5 DEF Comparisons

\* What passes a condition is within the bounds the plan takes from it.
LEMMA ConditionBounds ==
  ASSUME NEW c, NEW name, NEW row \in Seq(Int), NEW ctx, Allows(c, row, ctx), Concerns(c, name)
  PROVE  LET v == CellOf(ctx.schema, row, name)
         IN  Above(v, BoundsOf(c).lower) /\ Below(v, BoundsOf(c).upper)
<1> DEFINE v == CellOf(ctx.schema, row, name)
<1>1. v \in Int
  BY CellIs
<1>2. ColumnIn(c).name = name
  BY DEF Concerns, ColumnIn, Straight, Reversed, IsBetween
<1>3. LiteralsIn(c) \subseteq Int
  BY DEF Concerns, Allows, Usable
<1>4. CASE Straight(c)
  <2>1. c.op \in Comparisons /\ ~Reversed(c) /\ ~IsBetween(c)
    BY <1>4 DEF Straight, Reversed, IsBetween, Comparisons
  <2>2. c.y.value \in Int
    BY <1>3, <1>4, <2>1 DEF LiteralsIn, EqualityLiteral
  <2>3. Compare(c.op, v, c.y.value)
    BY <1>2, <1>4, ComparisonSays
  <2>4. BoundsOf(c) = Bounds(c.op, c.y.value)
    BY <1>4, <2>1 DEF BoundsOf
  <2> QED
    BY <1>1, <2>1, <2>2, <2>3, <2>4, ComparisonBounds
<1>5. CASE Reversed(c)
  <2>1. c.op \in Comparisons /\ ~Straight(c) /\ ~IsBetween(c)
    BY <1>5 DEF Straight, Reversed, IsBetween, Comparisons
  <2>2. c.x.value \in Int
    BY <1>3, <1>5, <2>1 DEF LiteralsIn, EqualityLiteral
  <2>3. Compare(c.op, c.x.value, v)
    BY <1>2, <1>5, ComparisonSays
  <2>4. BoundsOf(c) = Bounds(Mirrored(c.op), c.x.value)
    BY <1>5, <2>1 DEF BoundsOf
  <2>5. Mirrored(c.op) \in Comparisons /\ Compare(Mirrored(c.op), v, c.x.value)
    BY <1>1, <2>1, <2>2, <2>3, MirroredSays
  <2> QED
    BY <1>1, <2>2, <2>4, <2>5, ComparisonBounds
<1>6. CASE IsBetween(c)
  <2>1. c.op = "BETWEEN" /\ c.x.kind = "col" /\ c.low.kind = "lit" /\ c.high.kind = "lit"
    BY <1>6 DEF IsBetween
  <2>2. ~Straight(c) /\ ~Reversed(c)
    BY <2>1 DEF Straight, Reversed, Comparisons
  <2>3. c.low.value \in Int /\ c.high.value \in Int
    BY <1>3, <1>6 DEF LiteralsIn
  <2>4. Passes(c, row, ctx) /\ OfThisRow(c.x, ctx)
    BY <1>6, <2>2 DEF Allows, Usable, ColumnIn
  <2>5. c.low.value <= v /\ v <= c.high.value
    BY <1>2, <2>1, <2>2, <2>4, ColumnIs, LiteralIs DEF Passes, ColumnIn, Comparisons
  <2>6. BoundsOf(c).lower = <<c.low.value, TRUE>> /\ BoundsOf(c).upper = <<c.high.value, TRUE>>
    BY <1>6, <2>2 DEF BoundsOf
  <2> QED
    BY <1>1, <2>3, <2>5, <2>6 DEF Above, Below
<1> QED
  BY <1>4, <1>5, <1>6 DEF Concerns

\* Whatever a WHERE puts together by AND, whichever of these conditions the bounds and the key are
\* taken from, and whichever indexes a table has, a row that passes those conditions in the filter
\* is read (tryBuildIndexScan and FilterOperator): an index never hides a row of the answer.
THEOREM PlanReadsWhatPasses ==
  ASSUME NEW Condition, NEW cs \in Seq(Condition),
         NEW Index, NEW indexes \in Seq(Index),
         NEW row \in Seq(Int), NEW ctx,
         \A k \in DOMAIN cs : Allows(cs[k], row, ctx)
  PROVE  Reads(PlanScan(cs, indexes), ctx.schema, row)
<1> DEFINE keyed  == {k \in DOMAIN indexes : HasKey(indexes[k], cs)}
           ranged == {k \in DOMAIN indexes : HasRange(indexes[k], cs)}
           plan   == PlanScan(cs, indexes)
           Cell(name) == CellOf(ctx.schema, row, name)
<1>1. ASSUME NEW ks \in SUBSET DOMAIN cs, ks # {} PROVE LastOf(ks) \in ks
  <2>1. Len(cs) \in Nat /\ DOMAIN cs = 1..Len(cs)
    OBVIOUS
  <2> QED
    BY <1>1, <2>1, LastIn
<1>2. keyed \in SUBSET Nat /\ ranged \in SUBSET Nat
  OBVIOUS
<1>3. CASE keyed # {}
  <2>1. PICK f \in keyed : First(indexes, keyed) = indexes[f]
    BY <1>2, <1>3, FirstIn
  <2>2. plan = [index |-> indexes[f], key |-> KeyFor(indexes[f], cs), bounds |-> NoBounds]
    BY <1>3, <2>1 DEF PlanScan
  <2>3. ASSUME NEW i \in DOMAIN indexes[f]
        PROVE  Cell(indexes[f][i]) = KeyFor(indexes[f], cs)[i]
    <3> DEFINE ks == EqualityLiterals(cs, indexes[f][i])
    <3>1. ks # {} /\ ks \in SUBSET DOMAIN cs
      BY <2>3 DEF HasKey, EqualityLiterals
    <3>2. LastOf(ks) \in ks
      <4> HIDE DEF ks
      <4> QED
        BY <1>1, <3>1
    <3>3. Concerns(cs[LastOf(ks)], indexes[f][i]) /\ cs[LastOf(ks)].op = "=" /\ LastOf(ks) \in DOMAIN cs
      BY <3>2 DEF EqualityLiterals
    <3>4. Cell(indexes[f][i]) = EqualityLiteral(cs[LastOf(ks)])
      <4> HIDE DEF ks
      <4> QED
        BY <3>3, EqualitySays
    <3> QED
      BY <3>4 DEF KeyFor
  <2>4. CASE indexes[f] = <<>>
    BY <2>2, <2>4 DEF Reads
  <2>5. CASE KeyFor(indexes[f], cs) # <<>>
    BY <2>2, <2>3, <2>5 DEF Reads
  <2>6. KeyFor(indexes[f], cs) = <<>> => DOMAIN indexes[f] = {}
    BY DEF KeyFor
  <2> QED
    BY <2>4, <2>5, <2>6
<1>4. CASE keyed = {} /\ ranged # {}
  <2>1. PICK f \in ranged : First(indexes, ranged) = indexes[f]
    BY <1>2, <1>4, FirstIn
  <2> DEFINE name == indexes[f][1]
  <2>2. plan = [index |-> indexes[f], key |-> <<>>, bounds |-> RangeOf(cs, name)]
    BY <1>4, <2>1 DEF PlanScan
  <2>3. ASSUME NEW side \in {"lower", "upper"}, RangePredicates(cs, name, side) # {}
        PROVE  \E k \in DOMAIN cs : Concerns(cs[k], name) /\ Bound(cs, name, side) = BoundsOf(cs[k])[side]
    <3> DEFINE ks == RangePredicates(cs, name, side)
    <3>1. ks # {} /\ ks \in SUBSET DOMAIN cs
      BY <2>3 DEF RangePredicates
    <3>2. LastOf(ks) \in ks
      <4> HIDE DEF ks
      <4> QED
        BY <1>1, <3>1
    <3>3. Concerns(cs[LastOf(ks)], name) /\ LastOf(ks) \in DOMAIN cs
      BY <3>2 DEF RangePredicates
    <3>4. Bound(cs, name, side) = BoundsOf(cs[LastOf(ks)])[side]
      BY <2>3 DEF Bound
    <3> QED
      BY <3>3, <3>4
  <2>4. Above(Cell(name), Bound(cs, name, "lower"))
    <3>1. CASE RangePredicates(cs, name, "lower") = {}
      BY <3>1 DEF Bound, Above
    <3>2. CASE RangePredicates(cs, name, "lower") # {}
      <4>1. PICK k \in DOMAIN cs : Concerns(cs[k], name) /\ Bound(cs, name, "lower") = BoundsOf(cs[k]).lower
        BY <2>3, <3>2
      <4> QED
        BY <4>1, ConditionBounds
    <3> QED
      BY <3>1, <3>2
  <2>5. Below(Cell(name), Bound(cs, name, "upper"))
    <3>1. CASE RangePredicates(cs, name, "upper") = {}
      BY <3>1 DEF Bound, Below
    <3>2. CASE RangePredicates(cs, name, "upper") # {}
      <4>1. PICK k \in DOMAIN cs : Concerns(cs[k], name) /\ Bound(cs, name, "upper") = BoundsOf(cs[k]).upper
        BY <2>3, <3>2
      <4> QED
        BY <4>1, ConditionBounds
    <3> QED
      BY <3>1, <3>2
  <2>6. InBounds(Cell(name), RangeOf(cs, name))
    BY <2>4, <2>5 DEF InBounds, RangeOf, Above, Below
  <2> QED
    BY <2>2, <2>6 DEF Reads
<1>5. CASE keyed = {} /\ ranged = {}
  BY <1>5 DEF PlanScan, SeqScan, Reads
<1> QED
  BY <1>3, <1>4, <1>5
=============================================================================
