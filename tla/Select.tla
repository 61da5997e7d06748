-------------------------------- MODULE Select --------------------------------
(***************************************************************************)
(* A SELECT on its way through the server.  SqlService::execute runs it    *)
(* twice: runSelect fills the table the client shows, SelectExecutor       *)
(* prints the text beside it.  Each puts the operators together in its own *)
(* way; route says which of the two this behaviour follows.                *)
(*                                                                         *)
(* The operators pull rows from one another; here each reads all its rows  *)
(* before the next begins, except for the loops of a join (Join).          *)
(* SelectExecutor builds its operators up to three times, to learn their   *)
(* schemas; what is followed is the last time, with what was learnt.       *)
(*                                                                         *)
(* A query is a record                                                     *)
(*   from    [table, alias]                                                *)
(*   joins   a sequence of [type, table, alias, on]                        *)
(*   where, having  conditions, AnyRow for none                            *)
(*   targets a sequence of [agg, col, as]; <<>> is SELECT *                *)
(*   groupBy a sequence of column names                                    *)
(*   orderBy a sequence of [field, asc]                                    *)
(***************************************************************************)
EXTENDS IndexPlan, Query, Join

CONSTANT Cases    \* a set of [query, db, indexes]

VARIABLES
  case,           \* the query, the tables, and the indexes of the table it is on
  route,          \* "service" (SqlService::runSelect) or "executor" (SelectExecutor::execute)
  phase,          \* the operator to run next, "done", or "failed" when an init has failed
  left,           \* the number of joins begun
  rows, schema    \* what the operators so far give

vars == <<case, route, phase, left, rows, schema, joinVars>>

query == case.query
db    == case.db

Columns(source) == db[source.table].columns

-----------------------------------------------------------------------------
\* buildTableSource: a single table is read through an index if its WHERE allows it, the tables of
\* a join never are.
OpenTable ==
  /\ phase = "source"
  /\ LET plan == IF query.joins = <<>> THEN PlanScan(Conjuncts(query.where), case.indexes) ELSE SeqScan
     IN  rows' = ScanRows(plan, db[query.from.table])
  /\ schema' = Columns(query.from)
  /\ phase' = IF query.joins = <<>> THEN "where" ELSE "join"
  /\ UNCHANGED <<case, route, left, joinVars>>

Joining == query.joins[left]

\* The rows of the two children side by side, those of number 0 empty.
Side(list, i, width) == IF i = 0 THEN [k \in 1..width |-> Empty] ELSE list[i]

Combined(pair) ==
  Side(rows, pair[1], Len(schema)) \o Side(db[Joining.table].rows, pair[2], Len(Columns(Joining)))

JoinedSchema == schema \o Columns(Joining)

\* JoinOperator::init
BeginJoin ==
  /\ phase = "join" /\ left < Len(query.joins)
  /\ LET next  == query.joins[left + 1]
         other == db[next.table].rows
         both  == schema \o Columns(next)
     IN  JoinRestart(next.type, Len(rows), Len(other),
                     {p \in (1..Len(rows)) \X (1..Len(other)) :
                        JoinHolds(next.on, both, rows[p[1]] \o other[p[2]])})
  /\ left' = left + 1
  /\ phase' = "joining"
  /\ UNCHANGED <<case, route, rows, schema>>

NextRow == phase = "joining" /\ JoinStep /\ UNCHANGED <<case, route, phase, left, rows, schema>>

JoinDone ==
  /\ phase = "joining" /\ JoinEnded
  /\ rows' = [n \in DOMAIN joined |-> Combined(joined[n])]
  /\ schema' = JoinedSchema
  /\ phase' = IF left = Len(query.joins) THEN "where" ELSE "join"
  /\ UNCHANGED <<case, route, left, joinVars>>

-----------------------------------------------------------------------------
Sorted == query.orderBy # <<>>

MainAlias == IF query.from.alias = "" THEN query.from.table ELSE query.from.alias

\* The outer context of the WHERE filter is the table itself, without a row, if the query is on
\* one table; an executor that has to build the filter again leaves it out.
WhereContext ==
  IF query.joins # <<>> \/ (route = "executor" /\ (Grouped(query) \/ Sorted))
  THEN NoContext(schema)
  ELSE [NoContext(schema) EXCEPT !.alias = MainAlias, !.outerSchema = Columns(query.from)]

AfterWhere == IF Grouped(query) THEN "group" ELSE IF Sorted THEN "sort" ELSE "project"

Where ==
  /\ phase = "where"
  /\ rows' = Filter(query.where, rows, WhereContext, db)
  /\ phase' = AfterWhere
  /\ UNCHANGED <<case, route, left, schema, joinVars>>

\* Only the executor has the aggregates of HAVING computed.
AllTargets == IF route = "executor" THEN query.targets \o HavingTargets(query.having) ELSE query.targets

\* The schema the aggregation is told its rows have: for the executor, if it has to sort as well,
\* that of the aggregation it built before.
GroupSchema ==
  IF route = "executor" /\ Sorted
  THEN Aggregate(<<>>, schema, query.groupBy, AllTargets).schema ELSE schema

\* The schema the sort is told, which is also the one it passes on.
SortSchema == IF route = "executor" THEN GroupSchema ELSE schema

\* The aggregation and the filter for HAVING.
Group ==
  /\ phase = "group"
  /\ LET aggr == Aggregate(rows, GroupSchema, query.groupBy, AllTargets)
     IN  IF ~aggr.ok
         THEN phase' = "failed" /\ rows' = <<>> /\ UNCHANGED schema
         ELSE /\ rows' = Filter(query.having, aggr.rows, NoContext(aggr.schema), db)
              /\ schema' = IF Sorted THEN SortSchema ELSE aggr.schema
              /\ phase' = IF Sorted THEN "sort" ELSE "project"
  /\ UNCHANGED <<case, route, left, joinVars>>

Before(item, r, s) ==
  LET i == ColIndex(schema, item.field)
  IN  IF i = 0 THEN FALSE
      ELSE IF item.asc THEN CellAt(r, i) < CellAt(s, i) ELSE CellAt(r, i) > CellAt(s, i)

\* SortOperator's comparison: the first item on which the rows differ decides.
RowBefore(r, s) ==
  \E k \in DOMAIN query.orderBy :
    /\ Before(query.orderBy[k], r, s)
    /\ \A j \in 1..(k-1) : ~Before(query.orderBy[j], r, s) /\ ~Before(query.orderBy[j], s, r)

\* std::sort leaves rows it finds equal in any order.
Sort ==
  /\ phase = "sort"
  /\ \E p \in Permutations(DOMAIN rows) :
       /\ \A i, j \in DOMAIN rows : i < j => ~RowBefore(rows[p[j]], rows[p[i]])
       /\ rows' = [k \in DOMAIN rows |-> rows[p[k]]]
  /\ phase' = "project"
  /\ UNCHANGED <<case, route, left, schema, joinVars>>

\* ProjectOperator: the name it looks for, the targets with that name as their alias, and the
\* number of the column it takes, 0 for an empty cell (an aggregate is not computed here).
TargetName(t) == IF t.as # "" THEN t.as ELSE IF t.agg # "" THEN t.agg ELSE t.col

Aliased(name) == SelectSeq(query.targets, LAMBDA t : t.as = name)

Source(t) ==
  LET i == ColIndex(schema, TargetName(t))
      e == Head(Aliased(TargetName(t)))
  IN  IF i # 0 THEN i ELSE IF e.agg = "" THEN ColIndex(schema, e.col) ELSE 0

Project ==
  /\ phase = "project"
  /\ IF query.targets = <<>>
     THEN phase' = "done" /\ UNCHANGED <<rows, schema>>
     ELSE IF \E k \in DOMAIN query.targets :
               LET name == TargetName(query.targets[k])
               IN  ColIndex(schema, name) = 0 /\ Aliased(name) = <<>>
     THEN phase' = "failed" /\ rows' = <<>> /\ UNCHANGED schema
     ELSE /\ rows' = [n \in DOMAIN rows |->
                        [k \in DOMAIN query.targets |-> CellAt(rows[n], Source(query.targets[k]))]]
          /\ schema' = [k \in DOMAIN query.targets |-> TargetName(query.targets[k])]
          /\ phase' = "done"
  /\ UNCHANGED <<case, route, left, joinVars>>

Init ==
  /\ case \in Cases
  /\ route \in {"service", "executor"}
  /\ phase = "source" /\ left = 0
  /\ rows = <<>> /\ schema = <<>>
  /\ JoinStart("CROSS", 0, 0, {})

Next ==
  \/ OpenTable \/ BeginJoin \/ NextRow \/ JoinDone
  \/ Where \/ Group \/ Sort \/ Project

Spec == Init /\ [][Next]_vars
=============================================================================
