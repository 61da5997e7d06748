-------------------------------- MODULE Answer --------------------------------
(***************************************************************************)
(* What a query asks for, without operators, schemas or plans: columns are *)
(* found by the table they are of, and rows are counted, not produced.     *)
(*                                                                         *)
(* A scope is a sequence of [alias, columns, row], innermost table first.  *)
(***************************************************************************)
EXTENDS Select

NameOf(source) == IF source.alias = "" THEN source.table ELSE source.alias

Entry(source, row) == [alias |-> NameOf(source), columns |-> Columns(source), row |-> row]

Scoped(scope, x) ==
  LET fits == {k \in DOMAIN scope : /\ x.table \in {"", scope[k].alias}
                                    /\ x.name \in Range(scope[k].columns)}
      k == CHOOSE k \in fits : \A j \in fits : k <= j
  IN  IF fits = {} THEN Empty ELSE CellOf(scope[k].columns, scope[k].row, x.name)

RECURSIVE Holds(_, _), Found(_, _)

\* The cells a one-column subquery on one table has for the rows around it.
Found(q, scope) ==
  LET inner(r) == <<Entry(q.from, r)>> \o scope
  IN  {Scoped(inner(r), [table |-> "", name |-> IF q.targets = <<>> THEN Columns(q.from)[1] ELSE q.targets[1].col]) :
         r \in {r \in Range(db[q.from.table].rows) : Holds(q.where, inner(r))}}

Holds(c, scope) ==
  LET V(x) == CASE x.kind = "lit" -> x.value
                [] x.kind = "col" -> Scoped(scope, x)
                [] x.kind = "agg" -> Scoped(scope, [table |-> "", name |-> x.name])
                [] x.kind = "sub" -> IF Found(x.sub, scope) = {} THEN Empty
                                     ELSE CHOOSE v \in Found(x.sub, scope) : TRUE
  IN  CASE c.op = "ANY ROW" -> TRUE
        [] c.op = "AND" -> Holds(c.l, scope) /\ Holds(c.r, scope)
        [] c.op = "OR"  -> Holds(c.l, scope) \/ Holds(c.r, scope)
        [] c.op = "NOT" -> ~Holds(c.l, scope)
        [] c.op = "EXISTS"  -> Found(c.sub, scope) # {}
        [] c.op = "IN"      -> V(c.x) \in Found(c.sub, scope)
        [] c.op = "NOT IN"  -> V(c.x) \notin Found(c.sub, scope)
        [] c.op = "IS NULL" -> V(c.x) = Empty
        [] c.op = "BETWEEN" -> V(c.low) <= V(c.x) /\ V(c.x) <= V(c.high)
        [] OTHER -> Compare(c.op, V(c.x), V(c.y))

-----------------------------------------------------------------------------
Sources == <<query.from>> \o query.joins

\* A tuple has the number of one row of each source, 0 where an outer join found no partner.
TupleScope(t) ==
  [k \in DOMAIN t |-> Entry(Sources[k], IF t[k] = 0 THEN <<>> ELSE db[Sources[k].table].rows[t[k]])]

Extended(tuples, join) ==
  LET others == DOMAIN db[join.table].rows
      good   == {p \in tuples \X others : Holds(join.on, TupleScope(Append(p[1], p[2])))}
      pairs  == {Append(p[1], p[2]) : p \in good}
      lonelyLeft  == {t \in tuples : \A p \in good : p[1] # t}
      lonelyRight == {j \in others : \A p \in good : p[2] # j}
      position    == CHOOSE k \in DOMAIN query.joins : query.joins[k] = join
  IN  pairs
      \cup (IF join.type \in {"LEFT", "FULL"} THEN {Append(t, 0) : t \in lonelyLeft} ELSE {})
      \cup (IF join.type \in {"RIGHT", "FULL"}
            THEN {Append([k \in 1..position |-> 0], j) : j \in lonelyRight} ELSE {})

\* The combinations of rows FROM and WHERE leave.
Chosen ==
  LET from == {<<i>> : i \in DOMAIN db[query.from.table].rows}
      all  == FoldLeft(Extended, from, query.joins)
  IN  {t \in all : Holds(query.where, TupleScope(t))}

Of(t, col) == Scoped(TupleScope(t), [table |-> "", name |-> col])

Total(tuples, col) == FoldSet(LAMBDA t, n : n + Of(t, col), 0, tuples)

AggOf(target, tuples) ==
  LET filled == {t \in tuples : Of(t, target.col) # Empty}
      cells  == {Of(t, target.col) : t \in filled}
  IN  CASE target.agg = "COUNT" /\ target.col = "*" -> Cardinality(tuples)
        [] target.agg = "COUNT" /\ target.col # "*" -> Cardinality(filled)
        [] target.agg = "SUM" -> Total(filled, target.col)
        [] target.agg = "MAX" -> IF cells = {} THEN Empty ELSE Max(cells)
        [] target.agg = "MIN" -> IF cells = {} THEN Empty ELSE Min(cells)

\* The row of targets for one group of combinations: of one combination, without grouping.
RowOf(tuples) ==
  LET some == CHOOSE t \in tuples : TRUE
  IN  IF query.targets = <<>>
      THEN FoldLeft(LAMBDA cells, e : cells \o [k \in DOMAIN e.columns |-> CellAt(e.row, k)], <<>>,
                    TupleScope(some))
      ELSE [k \in DOMAIN query.targets |->
              IF query.targets[k].agg = "" THEN Of(some, query.targets[k].col)
              ELSE AggOf(query.targets[k], tuples)]

\* HAVING sees the targets by their names.
HavingHolds(tuples) ==
  Holds(query.having, <<[alias |-> "", columns |-> [k \in DOMAIN query.targets |-> TargetName(query.targets[k])],
                         row |-> RowOf(tuples)]>>)

Key(t) == [k \in DOMAIN query.groupBy |-> Of(t, query.groupBy[k])]

Groups ==
  IF ~Grouped(query) THEN {{t} : t \in Chosen}
  ELSE IF query.groupBy = <<>> THEN {Chosen}
  ELSE {{t \in Chosen : Key(t) = key} : key \in {Key(t) : t \in Chosen}}

Asked == {g \in Groups : HavingHolds(g)}

\* rows are the rows asked for, each as often as it was asked for, in the order asked for.
IsAnswer ==
  /\ \A r \in Range(rows) \cup {RowOf(g) : g \in Asked} :
       Cardinality({n \in DOMAIN rows : rows[n] = r}) = Cardinality({g \in Asked : RowOf(g) = r})
  /\ \A i, j \in DOMAIN rows : i < j => ~RowBefore(rows[j], rows[i])

-----------------------------------------------------------------------------
(***************************************************************************)
(* The queries the server answers as they are written.                     *)
(***************************************************************************)
SchemaOf(sources) == FoldLeft(LAMBDA names, source : names \o Columns(source), <<>>, sources)

RECURSIVE Operands(_), Subqueries(_)

Operands(c) ==
  CASE c.op \in {"AND", "OR"} -> Operands(c.l) \cup Operands(c.r)
    [] c.op = "NOT" -> Operands(c.l)
    [] c.op \in {"IN", "NOT IN", "IS NULL"} -> {c.x}
    [] c.op = "BETWEEN" -> {c.x, c.low, c.high}
    [] c.op \in Comparisons -> {c.x, c.y}
    [] OTHER -> {}

Subqueries(c) ==
  CASE c.op \in {"AND", "OR"} -> Subqueries(c.l) \cup Subqueries(c.r)
    [] c.op = "NOT" -> Subqueries(c.l)
    [] c.op \in {"IN", "NOT IN", "EXISTS"} -> {c.sub}
    [] c.op \in Comparisons -> {x.sub : x \in {x \in {c.x, c.y} : x.kind = "sub"}}
    [] OTHER -> {}

Names(operands, alias) == {x \in operands : x.kind = "col" /\ x.table = alias}

\* Columns are found by their bare names: those of joined tables must differ.
NamesTellTablesApart ==
  LET s == SchemaOf(Sources) IN \A i, j \in DOMAIN s : s[i] = s[j] => i = j

\* The filter takes the table's own alias for an outer row it does not have.
WhereUnqualified == query.joins = <<>> => Names(Operands(query.where), MainAlias) = {}

RECURSIVE Operators(_)

Operators(c) == IF c.op \in {"AND", "OR"} THEN Operators(c.l) \cup Operators(c.r) ELSE {c.op}

\* LEFT and FULL do not return the rows without a partner, and in ON no empty cell comes before
\* another as it does in WHERE.
JoinsSupported ==
  \A k \in DOMAIN query.joins : /\ query.joins[k].type \in {"INNER", "CROSS", "RIGHT"}
                                /\ Operators(query.joins[k].on) \subseteq {"=", "!=", "ANY ROW"}

\* A subquery gives the first column of its table whatever it selects; and the alias of the outer
\* row is there only in a filter the route keeps, and only if the outer query is on one table.
SubqueriesSupported ==
  \A q \in Subqueries(query.where) :
    /\ ~Grouped(q)
    /\ q.targets # <<>> => q.targets[1].col = Columns(q.from)[1]
    /\ Names(Operands(q.where), MainAlias) # {} => WhereContext.alias # ""

\* Neither route sorts groups: one tells the sort the columns of the table, the other groups by
\* the wrong columns.
GroupsUnsorted == ~(Grouped(query) /\ Sorted)

\* Aggregates are named by their function alone, and what is neither grouped by nor aggregated is
\* not a target.
TargetsSupported ==
  /\ \A i, j \in DOMAIN query.targets : TargetName(query.targets[i]) = TargetName(query.targets[j]) => i = j
  /\ \A k \in DOMAIN query.targets :
       LET t == query.targets[k]
       IN  /\ t.agg # "" => t.as = ""
           /\ t.agg = "" => t.col \in (IF Grouped(query) THEN Range(query.groupBy) ELSE Range(SchemaOf(Sources)))
           /\ t.as # "" => t.as \notin Range(SchemaOf(Sources))
  /\ Grouped(query) => query.targets # <<>>
  /\ \A k \in DOMAIN HavingAggs(query.having) :
       \E j \in DOMAIN query.targets : query.targets[j].agg = HavingAggs(query.having)[k]

\* Rows are sorted by columns that are shown under their own names.
SortedByTargets ==
  query.targets # <<>> =>
    \A k \in DOMAIN query.orderBy : \E j \in DOMAIN query.targets :
      TargetName(query.targets[j]) = query.orderBy[k].field

Supported ==
  /\ NamesTellTablesApart /\ WhereUnqualified /\ JoinsSupported /\ SubqueriesSupported
  /\ GroupsUnsorted /\ TargetsSupported /\ SortedByTargets

\* Whatever index the plan picks, in whichever of the two ways the operators are put together, and
\* however a join's loops and sort's ties go, both results of a query of this class are its answer.
AnswersAsAsked ==
  Supported => phase # "failed" /\ (phase = "done" => IsAnswer)

\* Reading a table through an index loses no row of the WHERE, whatever its conditions and the
\* indexes (tryBuildIndexScan): compare QueryBuilder's bounds with FilterOperator's comparisons.
IndexLosesNoRow ==
  phase = AfterWhere /\ query.joins = <<>> /\ WhereUnqualified =>
    LET table == db[query.from.table]
        all   == Filter(query.where, table.rows, WhereContext, db)
    IN  \A r \in Range(table.rows) :
          Cardinality({n \in DOMAIN rows : rows[n] = r}) = Cardinality({n \in DOMAIN all : all[n] = r})

\* A join on columns that both tables call the same pairs the rows that agree on them
\* (test_queries.sql 4.2: each student with the grades of the courses that student takes).
JoinsAsWritten ==
  phase = "done" /\ query.joins # <<>> => IsAnswer
=============================================================================
