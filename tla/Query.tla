-------------------------------- MODULE Query --------------------------------
(***************************************************************************)
(* The operators SELECT is put together from (execution/operators and      *)
(* QueryBuilder), as functions of the rows they are given.                 *)
(***************************************************************************)
EXTENDS Cells, SequencesExt, TLC

RECURSIVE JoinHolds(_, _, _)

\* JoinOperator::evaluateCondition: columns are found by their bare name, orders need two numbers,
\* and what is not a comparison, AND or OR is false.
JoinHolds(c, schema, row) ==
  LET Value(x) == IF x.kind = "lit" THEN x.value ELSE CellOf(schema, row, x.name)
  IN  CASE c.op = "ANY ROW" -> TRUE
        [] c.op = "AND" -> JoinHolds(c.l, schema, row) /\ JoinHolds(c.r, schema, row)
        [] c.op = "OR"  -> JoinHolds(c.l, schema, row) \/ JoinHolds(c.r, schema, row)
        [] c.op \in {"=", "!="} -> Compare(c.op, Value(c.x), Value(c.y))
        [] c.op \in Comparisons \ {"=", "!="} ->
             /\ Value(c.x) # Empty /\ Value(c.y) # Empty
             /\ Compare(c.op, Value(c.x), Value(c.y))
        [] OTHER -> FALSE

-----------------------------------------------------------------------------
(***************************************************************************)
(* AggregateOperator.  A target is [agg, col, as], agg "" for a plain      *)
(* column, col "*" for COUNT( * ), "?" for an argument it does not know.   *)
(* COUNT of a column that is not there has the mark of COUNT( * ).         *)
(***************************************************************************)
TotalOf(s) == FoldLeft(LAMBDA x, y : x + y, 0, s)

LargestOf(s)  == FoldLeft(LAMBDA x, y : IF y > x THEN y ELSE x, s[1], s)
SmallestOf(s) == FoldLeft(LAMBDA x, y : IF y < x THEN y ELSE x, s[1], s)

AggValue(f, group) ==
  LET at(r)  == IF f.index > 0 THEN CellAt(r, f.index) ELSE Empty
      cells  == SelectSeq([k \in DOMAIN group |-> at(group[k])], LAMBDA v : v # Empty)
      all    == f.index = 0 /\ f.col # "?"
  IN  CASE f.agg = "COUNT" -> IF all THEN Len(group) ELSE Len(cells)
        [] f.agg = "SUM" -> TotalOf(cells)
        [] f.agg = "MAX" -> IF cells = <<>> THEN Empty ELSE LargestOf(cells)
        [] f.agg = "MIN" -> IF cells = <<>> THEN Empty ELSE SmallestOf(cells)

\* parseAggregates: the GROUP BY columns, then each target; a plain target that is not yet there
\* is one more column to group by.
ParseTarget(inSchema, parsed, target) ==
  LET i == ColIndex(inSchema, target.col)
  IN  IF target.agg # ""
      THEN [parsed EXCEPT !.schema = Append(@, target.agg),
                          !.aggs = Append(@, [agg |-> target.agg, col |-> target.col, index |-> i])]
      ELSE IF i = 0 \/ ColIndex(parsed.schema, target.col) # 0 THEN parsed
           ELSE [parsed EXCEPT !.schema = Append(@, target.col), !.cols = Append(@, i)]

ParseAggregates(inSchema, groupBy, targets) ==
  FoldLeft(LAMBDA parsed, target : ParseTarget(inSchema, parsed, target),
           [schema |-> groupBy, cols |-> [k \in DOMAIN groupBy |-> ColIndex(inSchema, groupBy[k])],
            aggs |-> <<>>],
           targets)

GroupKey(parsed, r) == [k \in DOMAIN parsed.cols |-> CellAt(r, parsed.cols[k])]

\* The keys in the order they turn up.
KeysOf(parsed, rows) ==
  FoldLeft(LAMBDA keys, r : IF GroupKey(parsed, r) \in Range(keys) THEN keys ELSE Append(keys, GroupKey(parsed, r)),
           <<>>, rows)

GroupRow(parsed, rows, key) ==
  LET group == SelectSeq(rows, LAMBDA r : GroupKey(parsed, r) = key)
  IN  key \o [f \in DOMAIN parsed.aggs |-> AggValue(parsed.aggs[f], group)]

\* Faulty: no rows, no group.
GroupsFound(parsed, rows) ==
  LET keys == KeysOf(parsed, rows) IN [n \in DOMAIN keys |-> GroupRow(parsed, rows, keys[n])]

\* init and next: one group per key; without a column to group by, one group of all rows, be there
\* any or not.  The columns of a group come before its aggregates.
GroupRows(parsed, rows) ==
  LET keys == IF parsed.cols = <<>> THEN << <<>> >> ELSE KeysOf(parsed, rows)
  IN  [n \in DOMAIN keys |-> GroupRow(parsed, rows, keys[n])]

NoAnswer == [ok |-> FALSE, schema |-> <<>>, rows |-> <<>>]

\* rows need not have the layout inSchema says.
Aggregate(rows, inSchema, groupBy, targets) ==
  LET parsed == ParseAggregates(inSchema, groupBy, targets)
  IN  IF \E k \in DOMAIN groupBy : parsed.cols[k] = 0 THEN NoAnswer
      ELSE IF parsed.cols = <<>> /\ parsed.aggs = <<>>
           THEN [ok |-> TRUE, schema |-> inSchema, rows |-> rows]
           ELSE [ok |-> TRUE, schema |-> parsed.schema, rows |-> GroupRows(parsed, rows)]

HasAggregates(q) == \E k \in DOMAIN q.targets : q.targets[k].agg # ""

Grouped(q) == q.groupBy # <<>> \/ HasAggregates(q)

RECURSIVE HavingAggs(_)

\* collectHavingAggs: the names of the functions, without their arguments.
HavingAggs(c) ==
  LET Named(x) == IF x.kind = "agg" THEN <<x.name>> ELSE <<>>
  IN  CASE c.op \in {"AND", "OR"} -> HavingAggs(c.l) \o HavingAggs(c.r)
        [] c.op \in Comparisons   -> Named(c.x) \o Named(c.y)
        [] c.op \in {"IN", "NOT IN"} -> Named(c.x)
        [] c.op = "NOT" -> HavingAggs(c.l)
        [] OTHER -> <<>>

\* A call without arguments counts rows if it is COUNT, and computes nothing otherwise.
HavingTargets(c) ==
  [k \in DOMAIN HavingAggs(c) |->
     [agg |-> HavingAggs(c)[k], col |-> IF HavingAggs(c)[k] = "COUNT" THEN "*" ELSE "?", as |-> ""]]

-----------------------------------------------------------------------------
(***************************************************************************)
(* FilterOperator, with AND, OR, NOT and subqueries.                       *)
(***************************************************************************)
RECURSIVE Evaluate(_, _, _, _), SubqueryRows(_, _, _)

\* evaluate: IN looks at the first cell of each row of the subquery, a comparison at that of the
\* first row, and only of a subquery on its right.
Evaluate(c, row, ctx, db) ==
  LET Inner(q) == SubqueryRows(q, [ctx EXCEPT !.outerRow = row], db)
      V(x)     == ValueOf(x, row, ctx)
      First(q) == IF Inner(q) = <<>> THEN Empty ELSE CellAt(Inner(q)[1], 1)
  IN  CASE c.op = "AND" -> Evaluate(c.l, row, ctx, db) /\ Evaluate(c.r, row, ctx, db)
        [] c.op = "OR"  -> Evaluate(c.l, row, ctx, db) \/ Evaluate(c.r, row, ctx, db)
        [] c.op = "NOT" -> ~Evaluate(c.l, row, ctx, db)
        [] c.op = "EXISTS"  -> Inner(c.sub) # <<>>
        [] c.op = "IN"      -> \E k \in DOMAIN Inner(c.sub) : CellAt(Inner(c.sub)[k], 1) = V(c.x)
        [] c.op = "NOT IN"  -> \A k \in DOMAIN Inner(c.sub) : CellAt(Inner(c.sub)[k], 1) # V(c.x)
        [] c.op \in Comparisons /\ c.y.kind = "sub" -> Compare(c.op, V(c.x), First(c.y.sub))
        [] OTHER -> Passes(c, row, ctx)

Filter(c, rows, ctx, db) == SelectSeq(rows, LAMBDA r : Evaluate(c, r, ctx, db))

\* runSubquery, over one table: no index, no ORDER BY, no projection, so that the rows are those
\* of the table, or of the aggregation.  outer is the context of the filter that asks.
SubqueryRows(q, outer, db) ==
  LET table == db[q.from.table]
      found == Filter(q.where, table.rows, [outer EXCEPT !.schema = table.columns], db)
      aggr  == Aggregate(found, table.columns, q.groupBy, q.targets \o HavingTargets(q.having))
  IN  IF ~Grouped(q) THEN found
      ELSE Filter(q.having, aggr.rows, [outer EXCEPT !.schema = aggr.schema], db)

RECURSIVE Conjuncts(_)

\* The conditions every row must pass, from left to right: how collectEqualityLiterals and
\* collectRangePredicates go through a WHERE.
Conjuncts(c) == IF c.op = "AND" THEN Conjuncts(c.l) \o Conjuncts(c.r) ELSE <<c>>
=============================================================================
