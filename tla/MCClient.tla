-------------------------------- MODULE MCClient --------------------------------
(***************************************************************************)
(* Two databases with one table each; rows of one key and two values, of   *)
(* which INSERT cuts one to the other and ALTER TABLE leaves neither as it *)
(* was.                                                                    *)
(***************************************************************************)
EXTENDS Client, TLC

CONSTANTS d1, d2, k, v, w

MCDatabases == {d1, d2}
MCSymmetry == Permutations(MCDatabases)
MCVals == {v, w}
MCKeys == {k}
MCKept == [r \in Rows |-> <<k, v>>]
MCAltered == [r \in Rows |-> <<k, IF r[2] = v THEN w ELSE v>>]
=============================================================================
