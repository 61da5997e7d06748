-------------------------------- MODULE Join --------------------------------
(***************************************************************************)
(* JoinOperator::next, one round of its loops per step.                    *)
(*                                                                         *)
(* init has read both children to their ends; a row is its number, and 0   *)
(* is a row of empty cells.  What evaluateCondition says of each pair of   *)
(* rows is in matches, computed by the module that extends this one.       *)
(***************************************************************************)
EXTENDS Integers, Sequences

JoinTypes == {"INNER", "CROSS", "LEFT", "RIGHT", "FULL"}

VARIABLES
  joinType,
  nLeft, nRight,              \* leftRows.size(), rightRows.size()
  matches,                    \* the pairs for which evaluateCondition is true
  leftIdx, rightIdx,
  leftMatched, rightMatched,  \* the rows whose flag is set
  emittingNullRow,
  joined                      \* the pairs returned by next so far

joinVars == <<joinType, nLeft, nRight, matches, leftIdx, rightIdx, leftMatched, rightMatched,
              emittingNullRow, joined>>

\* The pairs of rows of the two children.
Pairs == (1..nLeft) \X (1..nRight)

Emit(i, j) == joined' = Append(joined, <<i, j>>)

\* Only LEFT and RIGHT remember which rows found a partner and have a second phase.
Outer == joinType \in {"LEFT", "RIGHT"}

ConsiderPair ==
  /\ ~emittingNullRow
  /\ leftIdx <= nLeft /\ rightIdx <= nRight
  /\ rightIdx' = rightIdx + 1
  /\ IF <<leftIdx, rightIdx>> \in matches
     THEN /\ Emit(leftIdx, rightIdx)
          /\ leftMatched'  = IF Outer THEN leftMatched \cup {leftIdx} ELSE leftMatched
          /\ rightMatched' = IF Outer THEN rightMatched \cup {rightIdx} ELSE rightMatched
     ELSE UNCHANGED <<joined, leftMatched, rightMatched>>
  /\ UNCHANGED <<joinType, nLeft, nRight, matches, leftIdx, emittingNullRow>>

\* Faulty: the right rows are not begun again.
NextLeftRowOnly ==
  /\ ~emittingNullRow
  /\ leftIdx <= nLeft /\ rightIdx > nRight
  /\ leftIdx' = leftIdx + 1
  /\ UNCHANGED <<joinType, nLeft, nRight, matches, rightIdx, leftMatched, rightMatched, emittingNullRow, joined>>

NextLeftRow ==
  /\ ~emittingNullRow
  /\ leftIdx <= nLeft /\ rightIdx > nRight
  /\ leftIdx' = leftIdx + 1
  /\ rightIdx' = 1
  /\ UNCHANGED <<joinType, nLeft, nRight, matches, leftMatched, rightMatched, emittingNullRow, joined>>

BeginNullRows ==
  /\ Outer /\ ~emittingNullRow
  /\ leftIdx > nLeft
  /\ emittingNullRow' = TRUE
  /\ UNCHANGED <<joinType, nLeft, nRight, matches, leftIdx, rightIdx, leftMatched, rightMatched, joined>>

\* The row the second phase is at, on the side that is kept whole.
RestIdx == IF joinType = "LEFT" THEN leftIdx ELSE rightIdx
RestEnd == IF joinType = "LEFT" THEN nLeft ELSE nRight

\* Neither index is set back between the phases: the first one leaves leftIdx at its end.
NullRow ==
  /\ emittingNullRow
  /\ RestIdx <= RestEnd
  /\ leftIdx'  = IF joinType = "LEFT" THEN leftIdx + 1 ELSE leftIdx
  /\ rightIdx' = IF joinType = "LEFT" THEN rightIdx ELSE rightIdx + 1
  /\ IF joinType = "LEFT"
     THEN /\ IF leftIdx \in leftMatched THEN UNCHANGED joined ELSE Emit(leftIdx, 0)
          /\ leftMatched' = leftMatched \cup {leftIdx}
          /\ UNCHANGED rightMatched
     ELSE /\ IF rightIdx \in rightMatched THEN UNCHANGED joined ELSE Emit(0, rightIdx)
          /\ rightMatched' = rightMatched \cup {rightIdx}
          /\ UNCHANGED leftMatched
  /\ UNCHANGED <<joinType, nLeft, nRight, matches, emittingNullRow>>

JoinStep == ConsiderPair \/ NextLeftRow \/ BeginNullRows \/ NullRow

\* next returns false.
JoinEnded ==
  IF Outer THEN emittingNullRow /\ RestIdx > RestEnd ELSE leftIdx > nLeft

\* JoinOperator::init, over whatever rows and whatever condition.
JoinStart(type, left, right, pairs) ==
  /\ joinType = type /\ nLeft = left /\ nRight = right /\ matches = pairs
  /\ leftIdx = 1 /\ rightIdx = 1
  /\ leftMatched = {} /\ rightMatched = {}
  /\ emittingNullRow = FALSE /\ joined = <<>>

\* The same for the next join of a chain, whose left child is the join before.
JoinRestart(type, left, right, pairs) ==
  /\ joinType' = type /\ nLeft' = left /\ nRight' = right /\ matches' = pairs
  /\ leftIdx' = 1 /\ rightIdx' = 1
  /\ leftMatched' = {} /\ rightMatched' = {}
  /\ emittingNullRow' = FALSE /\ joined' = <<>>

JoinInit ==
  \E type \in JoinTypes, left, right \in Nat :
    \E pairs \in SUBSET ((1..left) \X (1..right)) : JoinStart(type, left, right, pairs)

JoinSpec == JoinInit /\ [][JoinStep]_joinVars

-----------------------------------------------------------------------------
\* The right rows no left row goes with.
RightAlone == {j \in 1..nRight : \A i \in 1..nLeft : <<i, j>> \notin matches}

\* JoinOperator::next, whichever way its two loops are left and entered again, returns each
\* matching pair once, in a RIGHT JOIN each right row without a partner once, and nothing else.
\* (LEFT and FULL return the matching pairs only.)
JoinComplete ==
  /\ \A m, n \in DOMAIN joined : joined[m] = joined[n] => m = n
  /\ \A n \in DOMAIN joined :
       \/ joined[n] \in matches
       \/ joinType = "RIGHT" /\ \E j \in RightAlone : joined[n] = <<0, j>>
  /\ JoinEnded =>
       /\ \A p \in matches : \E n \in DOMAIN joined : joined[n] = p
       /\ joinType = "RIGHT" => \A j \in RightAlone : \E n \in DOMAIN joined : joined[n] = <<0, j>>
=============================================================================
