----------------------------- MODULE MCTableFiles -----------------------------
(***************************************************************************)
(* A small instance of TableFiles for TLC: three column names, columns of  *)
(* one or two words.                                                       *)
(***************************************************************************)
EXTENDS TableFiles

CONSTANTS a, b, c   \* model values: the column names

MCCreations ==
  {<<<<b, 2>>>>, <<<<c, 2>>, <<a, 1>>>>, <<<<a, 1>>, <<a, 1>>, <<b, 1>>>>}

\* The first column is a primary key where it is c.
MCRequired == [fs \in MCCreations |-> IF fs[1][1] = c THEN <<c>> ELSE <<>>]

=============================================================================
