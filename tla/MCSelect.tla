------------------------------ MODULE MCSelect ------------------------------
(***************************************************************************)
(* The queries, tables and indexes SELECT is checked on.                   *)
(***************************************************************************)
EXTENDS Answer

Col(t, n) == [kind |-> "col", table |-> t, name |-> n]
Lit(v)    == [kind |-> "lit", value |-> v]
Agg(n)    == [kind |-> "agg", name |-> n]
Sub(q)    == [kind |-> "sub", sub |-> q]

Cmp(o, x, y) == [op |-> o, x |-> x, y |-> y]
And(a, b)    == [op |-> "AND", l |-> a, r |-> b]
Or(a, b)     == [op |-> "OR", l |-> a, r |-> b]
Not(a)       == [op |-> "NOT", l |-> a]
In(o, x, q)  == [op |-> o, x |-> x, sub |-> q]
Exists(q)    == [op |-> "EXISTS", sub |-> q]
Null(x)      == [op |-> "IS NULL", x |-> x]
Between(x, low, high) == [op |-> "BETWEEN", x |-> x, low |-> low, high |-> high]

T(agg, col, as) == [agg |-> agg, col |-> col, as |-> as]
C(col)          == T("", col, "")

From(t, a)         == [table |-> t, alias |-> a]
Join1(type, t, on) == [type |-> type, table |-> t, alias |-> "", on |-> on]

All(from) == [from |-> from, joins |-> <<>>, where |-> AnyRow, having |-> AnyRow,
              targets |-> <<>>, groupBy |-> <<>>, orderBy |-> <<>>]

Up(f)   == [field |-> f, asc |-> TRUE]
Down(f) == [field |-> f, asc |-> FALSE]

-----------------------------------------------------------------------------
(***************************************************************************)
(* One table with every row over three cells, every WHERE of at most two   *)
(* comparisons, and the lists of indexes on two columns.                   *)
(***************************************************************************)
Full ==
  [t |-> [columns |-> <<"a", "b">>,
          rows |-> [n \in 1..9 |-> <<<<Empty, 1, 2>>[1 + (n % 3)], <<Empty, 1, 2>>[1 + ((n \div 3) % 3)]>>]]]

Atoms ==
  {Cmp(o, Col("", n), Lit(v)) : o \in Comparisons, n \in {"a", "b"}, v \in {1, 2}}
  \cup {Cmp(o, Lit(v), Col("", n)) : o \in Comparisons \ {"!="}, n \in {"a", "b"}, v \in {1, 2}}
  \cup {Between(Col("", n), Lit(1), Lit(v)) : n \in {"a", "b"}, v \in {1, 2}}

IndexLists == {<< <<"a">> >>, << <<"b", "a">>, <<"b">> >>, << <<"b">>, <<"a", "b">> >>}

Wheres == Atoms \cup {Not(x) : x \in Atoms}
          \cup {And(x, y) : x, y \in Atoms} \cup {Or(x, y) : x, y \in Atoms}

Scans == {[query |-> [All(From("t", "")) EXCEPT !.where = w], db |-> Full, indexes |-> list] :
            w \in Wheres, list \in IndexLists}

-----------------------------------------------------------------------------
(***************************************************************************)
(* Three small tables, s and r with a column of the same name, and a query *)
(* of each kind.                                                           *)
(***************************************************************************)
Small ==
  LET sRows == {<<1, 1>>, <<1, 2>>, <<2, Empty>>}
      rRows == {<<1, 2>>, <<2, 1>>}
      Tables(s, r) == [s |-> [columns |-> <<"k", "a">>, rows |-> s],
                       r |-> [columns |-> <<"k", "b">>, rows |-> r],
                       u |-> [columns |-> <<"c">>, rows |-> << <<1>>, <<3>> >>]]
  IN  {Tables(s, r) : s \in BoundedSeq(sRows, 2), r \in BoundedSeq(rRows, 2)}

S == All(From("s", ""))
R == All(From("r", ""))

A == Col("", "a")
K == Col("", "k")

OnA == Cmp("=", Col("s", "a"), Col("u", "c"))
OnK == Cmp("=", Col("s", "k"), Col("r", "k"))
OnB == Cmp("=", Col("r", "b"), Col("u", "c"))

Correlated == [R EXCEPT !.where = Cmp("=", Col("r", "k"), Col("s", "k"))]

Queries == {
  [S EXCEPT !.targets = <<C("a"), C("k")>>, !.where = Or(Cmp("=", K, Lit(1)), Null(A)), !.orderBy = <<Down("a"), Up("k")>>],
  [S EXCEPT !.targets = <<T("", "a", "x")>>, !.where = Between(A, Lit(1), Lit(2))],
  [S EXCEPT !.joins = <<Join1("INNER", "u", Cmp("<", Col("s", "a"), Col("u", "c")))>>],
  [S EXCEPT !.joins = <<Join1("INNER", "u", Or(OnA, Cmp("=", K, Lit(2))))>>, !.where = Cmp("!=", A, Lit(1))],
  [S EXCEPT !.joins = <<Join1("RIGHT", "u", OnA)>>, !.targets = <<C("c"), C("a")>>, !.orderBy = <<Up("c")>>],
  [R EXCEPT !.joins = <<Join1("RIGHT", "u", And(OnB, Cmp("=", Col("u", "c"), Lit(1))))>>],
  [R EXCEPT !.joins = <<Join1("LEFT", "u", OnB)>>],
  [R EXCEPT !.joins = <<Join1("FULL", "u", OnB)>>],
  [S EXCEPT !.joins = <<Join1("CROSS", "u", AnyRow)>>, !.where = Cmp("=", A, Col("u", "c"))],
  [S EXCEPT !.joins = <<Join1("INNER", "r", OnK), Join1("RIGHT", "u", OnB)>>],
  [S EXCEPT !.targets = <<C("k"), T("COUNT", "*", ""), T("SUM", "a", "")>>, !.groupBy = <<"k">>],
  [S EXCEPT !.targets = <<T("MAX", "a", ""), C("k")>>, !.groupBy = <<"k">>, !.having = Cmp(">", Agg("MAX"), Lit(1))],
  [S EXCEPT !.targets = <<T("COUNT", "a", ""), T("MIN", "a", "")>>, !.where = Cmp("=", K, Lit(2))],
  [S EXCEPT !.joins = <<Join1("INNER", "u", OnA)>>, !.targets = <<C("c"), T("COUNT", "k", "")>>, !.groupBy = <<"c">>],
  [S EXCEPT !.targets = <<C("k")>>, !.groupBy = <<"k">>, !.having = Cmp(">", Agg("COUNT"), Lit(1))],
  [S EXCEPT !.targets = <<C("k"), T("COUNT", "*", "")>>, !.groupBy = <<"k">>, !.orderBy = <<Up("k")>>],
  [S EXCEPT !.targets = <<C("k"), T("COUNT", "*", "n")>>, !.groupBy = <<"k">>],
  [S EXCEPT !.targets = <<C("nosuch")>>],
  [S EXCEPT !.targets = <<C("k")>>, !.groupBy = <<"nosuch">>],
  [S EXCEPT !.where = Exists(Correlated)],
  [S EXCEPT !.where = Not(Exists(Correlated)), !.orderBy = <<Up("k")>>],
  [S EXCEPT !.where = In("IN", K, [R EXCEPT !.targets = <<C("k")>>, !.where = Cmp(">", Col("", "b"), Lit(1))])],
  [S EXCEPT !.where = In("NOT IN", A, [R EXCEPT !.targets = <<C("b")>>])],
  [S EXCEPT !.where = In("NOT IN", A, [R EXCEPT !.targets = <<C("k")>>])],
  [S EXCEPT !.where = Cmp(">", K, Sub([R EXCEPT !.targets = <<T("MIN", "b", "")>>]))],
  [S EXCEPT !.where = Cmp("=", Col("s", "k"), Lit(1))]
}

Runs == {[query |-> q, db |-> tables, indexes |-> << <<"k">> >>] : q \in Queries, tables \in Small}

MCCases == Scans \cup Runs

\* test_queries.sql 4.2 on two tables of at most two rows.
MCJoins ==
  {[query |-> [S EXCEPT !.joins = <<Join1("INNER", "r", OnK)>>, !.targets = <<C("a"), C("b")>>],
    db |-> tables, indexes |-> <<>>] : tables \in Small}
=============================================================================
