---------------------------- MODULE MCTableEngine ----------------------------
(***************************************************************************)
(* Small instances of TableEngine for TLC: two columns, three values.      *)
(***************************************************************************)
EXTENDS TableEngine

CONSTANTS id, v, a, b   \* model values: the columns and the index names

\* The values and inputs 0, 1, 2 stand for '', 'abc' and 'abcd'.  Column id is a
\* VARCHAR(4), whose slot 'abcd' fills, column v a VARCHAR(3) in a slot of four
\* bytes: INSERT and every reader but UPDATE cut 'abcd' to 'abc' there.
Cut(c, x) == CASE x = Missing -> 0 [] c = v /\ x = 2 -> 1 [] OTHER -> x

MCStored(c, x) == Cut(c, x)

MCUpdated(c, x) == IF x = Missing THEN 0 ELSE x

MCRead(c, x) == Cut(c, x)

MCShown(c, x) == x

\* Keys shorter than kMaxKeyBytes are kept whole.
MCPack(k) == k

\* id has a CHECK that refuses nothing, v is NOT NULL.
MCLegal == [c \in {id, v} |-> IF c = v THEN {0, 1, 2} ELSE {0, 1, 2, Missing}]

OneColumn(c) == {{r \in Row : r[c] = x} : x \in Values}

MCPredicates == {Row} \cup OneColumn(id)

\* v = 2 is UPDATE's alone to store; SET id = v and the swap give two rows one key.
MCAssignments ==
  {[c \in {v} |-> x] : x \in {0, 2}} \cup {[c \in {id} |-> v]}
    \cup {[c \in {id, v} |-> IF c = id THEN v ELSE id]}

RowOf(x, y) == [c \in {id, v} |-> IF c = id THEN x ELSE y]

MCSources ==
  {<<RowOf(0, 1)>>, <<RowOf(2, 0)>>, <<RowOf(2, 2)>>, <<RowOf(Missing, 1)>>, <<>>,
   <<RowOf(0, 0), RowOf(2, 0)>>}

\* Fewer statements, for the run with crashes.
MCFewPredicates == {Row, {r \in Row : r[id] = 0}}

MCFewAssignments == {[c \in {v} |-> 2], [c \in {id} |-> v]}

MCFewSources == {<<RowOf(0, 1)>>, <<RowOf(1, 0)>>, <<RowOf(0, 1), RowOf(1, 1)>>}

MCIndexDefs ==
  {[name |-> a, cols |-> <<id>>, unique |-> TRUE],
   [name |-> b, cols |-> <<v>>, unique |-> TRUE],
   [name |-> b, cols |-> <<v, id>>, unique |-> FALSE]}

=============================================================================
