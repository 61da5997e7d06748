------------------------------ MODULE IndexPlan ------------------------------
(***************************************************************************)
(* The choice of an index for a table and its WHERE (tryBuildIndexScan in  *)
(* QueryBuilder), and what IndexScanOperator then reads.  An index is the  *)
(* sequence of its one or two columns; its file agrees with the table      *)
(* (TableEngine!IndexAgrees).  Of the WHERE only the conditions put        *)
(* together by AND count, a sequence.                                      *)
(***************************************************************************)
EXTENDS Cells

\* A column compared with a literal, or a literal with a column.
Straight(c) == c.op \in Comparisons /\ c.x.kind = "col" /\ c.y.kind = "lit"
Reversed(c) == c.op \in Comparisons /\ c.x.kind = "lit" /\ c.y.kind = "col"

IsBetween(c) == c.op = "BETWEEN" /\ c.x.kind = "col" /\ c.low.kind = "lit" /\ c.high.kind = "lit"

\* The condition is about that column; its qualifier is not looked at.
Concerns(c, name) ==
  \/ (Straight(c) \/ IsBetween(c)) /\ c.x.name = name
  \/ Reversed(c) /\ c.y.name = name

\* The last of several conditions is the one that counts.
LastOf(ks) == CHOOSE k \in ks : \A j \in ks : j <= k

\* collectEqualityLiterals: the conditions that give a literal for a column.
EqualityLiterals(cs, name) ==
  {k \in DOMAIN cs : Concerns(cs[k], name) /\ cs[k].op = "="}

EqualityLiteral(c) == IF Straight(c) THEN c.y.value ELSE c.x.value

\* A bound is <<>> or <<literal, whether it is included>>.
NoBounds == [lower |-> <<>>, upper |-> <<>>]

Lower(v, included) == [lower |-> <<v, included>>, upper |-> <<>>]
Upper(v, included) == [lower |-> <<>>, upper |-> <<v, included>>]

Bounds(op, v) ==
  CASE op = ">"  -> Lower(v, FALSE)
    [] op = ">=" -> Lower(v, TRUE)
    [] op = "<"  -> Upper(v, FALSE)
    [] op = "<=" -> Upper(v, TRUE)
    [] OTHER     -> NoBounds

\* Faulty: the literal may be on either side and the bound stays as written.
NotMirrored(op) == op

\* The same comparison with its sides exchanged.
Mirrored(op) ==
  CASE op = ">" -> "<" [] op = ">=" -> "<=" [] op = "<" -> ">" [] op = "<=" -> ">=" [] OTHER -> op

BoundsOf(c) ==
  CASE Straight(c)  -> Bounds(c.op, c.y.value)
    [] Reversed(c)  -> Bounds(Mirrored(c.op), c.x.value)
    [] IsBetween(c) -> [lower |-> <<c.low.value, TRUE>>, upper |-> <<c.high.value, TRUE>>]

\* collectRangePredicates: the conditions that bound a column on one side.
RangePredicates(cs, name, side) ==
  {k \in DOMAIN cs : Concerns(cs[k], name) /\ BoundsOf(cs[k])[side] # <<>>}

Bound(cs, name, side) ==
  LET ks == RangePredicates(cs, name, side)
  IN  IF ks = {} THEN <<>> ELSE BoundsOf(cs[LastOf(ks)])[side]

RangeOf(cs, name) == [lower |-> Bound(cs, name, "lower"), upper |-> Bound(cs, name, "upper")]

SeqScan == [index |-> <<>>, key |-> <<>>, bounds |-> NoBounds]

\* buildKeyForIndex succeeds: there is a literal for each column of the index.
HasKey(index, cs) == \A i \in DOMAIN index : EqualityLiterals(cs, index[i]) # {}

KeyFor(index, cs) ==
  [i \in DOMAIN index |-> EqualityLiteral(cs[LastOf(EqualityLiterals(cs, index[i]))])]

HasRange(index, cs) == Len(index) = 1 /\ RangeOf(cs, index[1]) # NoBounds

First(indexes, eligible) ==
  indexes[CHOOSE k \in eligible : \A j \in eligible : k <= j]

\* tryBuildIndexScan: the first index with a key for equality, else the first with a range.
PlanScan(cs, indexes) ==
  LET keyed  == {k \in DOMAIN indexes : HasKey(indexes[k], cs)}
      ranged == {k \in DOMAIN indexes : HasRange(indexes[k], cs)}
  IN  IF keyed # {}
      THEN LET index == First(indexes, keyed)
           IN  [index |-> index, key |-> KeyFor(index, cs), bounds |-> NoBounds]
      ELSE IF ranged # {}
      THEN LET index == First(indexes, ranged)
           IN  [index |-> index, key |-> <<>>, bounds |-> RangeOf(cs, index[1])]
      ELSE SeqScan

InBounds(v, bounds) ==
  /\ bounds.lower = <<>> \/ v > bounds.lower[1] \/ (bounds.lower[2] /\ v = bounds.lower[1])
  /\ bounds.upper = <<>> \/ v < bounds.upper[1] \/ (bounds.upper[2] /\ v = bounds.upper[1])

\* IndexScanOperator: whether a row is among those read for a plan; without an index all are.
Reads(plan, columns, row) ==
  LET Cell(i) == CellOf(columns, row, plan.index[i])
  IN  \/ plan.index = <<>>
      \/ plan.key # <<>> /\ \A i \in DOMAIN plan.index : Cell(i) = plan.key[i]
      \/ plan.index # <<>> /\ plan.key = <<>> /\ InBounds(Cell(1), plan.bounds)

\* An index hands the rows out in the order of its keys, the model in that of the table: nothing
\* is said of it below.
ScanRows(plan, table) == SelectSeq(table.rows, LAMBDA r : Reads(plan, table.columns, r))
=============================================================================
