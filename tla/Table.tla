-------------------------------- MODULE Table --------------------------------
(***************************************************************************)
(* What the executors promise of one table while the server stays up:      *)
(* every statement takes effect at one instant, on the rows alone.         *)
(* Indexes are invisible but for the unique ones, which no two rows        *)
(* violate as long as the table is sound.  INSERT promises less than the   *)
(* others: of several rows a first part may have been added when it        *)
(* reports an error.  UPDATE may report an error with its rows changed if  *)
(* they violate a unique index; the table is then not sound until an       *)
(* UPDATE or DELETE leaves rows that do not.                               *)
(***************************************************************************)
EXTENDS TableRows

CONSTANTS Predicates, Assignments, Sources

VARIABLES
  rows,      \* the rows of the table, in the order they were inserted
  defs,      \* the definitions of its indexes
  sound,     \* no UPDATE has left rows that violate a unique index
  answer     \* how the last statement ended

tvars == <<rows, defs, sound, answer>>

TInit == rows = <<>> /\ defs = {} /\ sound = TRUE /\ answer = "none"

\* new holds what old holds at the given positions, in the same order.
Keeps(old, new, positions) ==
  \E at \in [DOMAIN new -> positions] :
    /\ \A i, j \in DOMAIN new : i < j => at[i] < at[j]
    /\ \A p \in positions : \E i \in DOMAIN new : at[i] = p
    /\ \A i \in DOMAIN new : new[i] = old[at[i]]

UniqueHold == \A d \in defs : d.unique => Distinct(d, rows)

\* The first n rows of a source were accepted; all of them if n is its length.
TInsert(source, n) ==
  /\ rows' = rows \o StoredRows(SubSeq(source, 1, n))
  /\ answer' = IF n = Len(source) THEN "ok" ELSE "error"
  /\ UNCHANGED <<defs, sound>>

\* The new rows stand, and an error says if they violate a unique index.
TRewritten ==
  /\ \/ answer' = "ok" /\ sound' = TRUE
     \/ answer' = "error" /\ sound' = FALSE /\ ~ UniqueHold'
  /\ defs' = defs

TUpdate(w, a) ==
  /\ AcceptsUpdate(rows, w, a)
  /\ rows' = UpdatedRows(rows, w, a)
  /\ TRewritten

\* The rows stay whose key is none of the selected ones; of the others only
\* those may whose key runs on.  A sound table stays sound.
TDelete(w) ==
  /\ \E kept \in SUBSET (DOMAIN rows) :
       /\ Keeps(rows, rows', kept)
       /\ \A i \in DOMAIN rows :
            /\ rows[i][PK] \notin DoomedKeys(rows, w) => i \in kept
            /\ i \in kept => rows[i][PK] \notin DoomedKeys(rows, w) \ RunsOn
  /\ TRewritten
  /\ sound => sound'

\* No row is selected.
TNothing == answer' = "ok" /\ UNCHANGED <<rows, defs, sound>>

TCreateIndex(d) ==
  /\ d.name \notin {e.name : e \in defs}
  /\ d.unique => Distinct(d, rows)
  /\ defs' = defs \cup {d}
  /\ answer' = "ok"
  /\ UNCHANGED <<rows, sound>>

TDropIndex(d) ==
  /\ d \in defs
  /\ defs' = defs \ {d}
  /\ answer' = "ok"
  /\ UNCHANGED <<rows, sound>>

TRefuse == answer' = "error" /\ UNCHANGED <<rows, defs, sound>>

\* The server has taken a statement and not yet answered it.
TTake == answer' = "none" /\ UNCHANGED <<rows, defs, sound>>

TStep ==
  \/ \E source \in Sources : \E n \in 0..Len(source) : TInsert(source, n)
  \/ \E w \in Predicates : TDelete(w) \/ \E a \in Assignments : TUpdate(w, a)
  \/ \E d \in IndexDefs : TCreateIndex(d) \/ TDropIndex(d)
  \/ TNothing \/ TRefuse \/ TTake

TNext == TStep /\ (sound' => UniqueHold')

TSpec == TInit /\ [][TNext]_tvars

=============================================================================
