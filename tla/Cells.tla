-------------------------------- MODULE Cells --------------------------------
(***************************************************************************)
(* The cells of a row and what a condition says of them.                   *)
(*                                                                         *)
(* A cell is a number, or Empty.  The operators compare two cells as       *)
(* numbers where both read as numbers and as text otherwise; cells here    *)
(* are such that both orders agree, with the empty text below the others.  *)
(* A schema is a sequence of column names, a row one of cells.             *)
(*                                                                         *)
(* Operands   [kind |-> "col", table |-> "" or alias, name |-> column]     *)
(*            [kind |-> "lit", value |-> cell]                             *)
(*            [kind |-> "agg", name |-> function]       (HAVING)           *)
(*            [kind |-> "sub", sub |-> query]                              *)
(* Conditions [op |-> "AND" or "OR", l, r], [op |-> "NOT", l],             *)
(*            [op |-> "=" ..., x, y], [op |-> "BETWEEN", x, low, high],    *)
(*            [op |-> "IS NULL", x], [op |-> "EXISTS", sub],               *)
(*            [op |-> "IN" or "NOT IN", x, sub], [op |-> "ANY ROW"] (none) *)
(***************************************************************************)
EXTENDS Integers, Sequences

Empty == -1

AnyRow == [op |-> "ANY ROW"]

Comparisons == {"=", "!=", "<", "<=", ">", ">="}

\* findColumnIndex, findColIndex, findCol: the first column of that name, or 0.
ColIndex(schema, name) ==
  LET at == {i \in DOMAIN schema : schema[i] = name}
  IN  IF at = {} THEN 0 ELSE CHOOSE i \in at : \A j \in at : i <= j

\* The cell at an index, or the empty one where there is none.
CellAt(row, i) == IF i \in DOMAIN row THEN row[i] ELSE Empty

CellOf(schema, row, name) == CellAt(row, ColIndex(schema, name))

Compare(op, u, v) ==
  CASE op = "="  -> u = v
    [] op = "!=" -> u # v
    [] op = "<"  -> u < v
    [] op = "<=" -> u <= v
    [] op = ">"  -> u > v
    [] op = ">=" -> u >= v

-----------------------------------------------------------------------------
(***************************************************************************)
(* What FilterOperator makes of a condition that asks nothing of other     *)
(* rows.  ctx is its schema and its outer context: the alias the outer row *)
(* goes by ("" for none), that row (<<>> for none), its schema.            *)
(***************************************************************************)
NoContext(schema) == [schema |-> schema, alias |-> "", outerRow |-> <<>>, outerSchema |-> <<>>]

\* evaluateValue
ColumnValue(x, row, ctx) ==
  IF x.table # "" /\ ctx.alias # "" /\ x.table = ctx.alias
  THEN CellOf(ctx.outerSchema, ctx.outerRow, x.name)
  ELSE CellOf(ctx.schema, row, x.name)

ValueOf(x, row, ctx) ==
  CASE x.kind = "lit" -> x.value
    [] x.kind = "col" -> ColumnValue(x, row, ctx)
    [] x.kind = "agg" -> CellOf(ctx.schema, row, x.name)
    [] x.kind = "sub" -> Empty

Passes(c, row, ctx) ==
  LET V(x) == ValueOf(x, row, ctx)
  IN  CASE c.op = "ANY ROW" -> TRUE
        [] c.op = "IS NULL" -> V(c.x) = Empty
        [] c.op = "BETWEEN" -> V(c.low) <= V(c.x) /\ V(c.x) <= V(c.high)
        [] c.op \in Comparisons -> Compare(c.op, V(c.x), V(c.y))
=============================================================================
