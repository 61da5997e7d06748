------------------------------ MODULE TableRows ------------------------------
(***************************************************************************)
(* The rows of one table and what the executors compute from them.         *)
(*                                                                         *)
(* A row is what its record in the .trd file holds: a value per column, in *)
(* a slot whose size is a multiple of four.  What a statement supplies for *)
(* a column is an input, and the executors do not agree on what becomes of *)
(* it.  INSERT cuts a string at the declared width and stores 1.5 in an    *)
(* INT column as 1 (Stored); UPDATE cuts a string at the size of the slot  *)
(* (Updated).  Scans, indexes and constraints read the declared width      *)
(* (Read), UPDATE's own expressions the whole slot (Shown), and DELETE     *)
(* compares keys up to the first zero byte, wherever that is (RunsOn).     *)
(* An index does not compare column values but the key bytes makeEntry     *)
(* packs from them and cuts at kMaxKeyBytes; Pack is that packing.         *)
(***************************************************************************)
EXTENDS Naturals, Sequences

CONSTANTS
  Columns,       \* the columns of the table
  PK,            \* its PRIMARY KEY column; anything else if it has none
  UniqueCols,    \* the columns with a UNIQUE constraint
  Values,        \* what the slot of a column can hold
  RunsOn,        \* values that, as a key, DELETE may not recognise: strings that fill their
                 \* slot, which it reads on behind, and types it does not read at all
  Inputs,        \* what a literal in a statement can be
  Missing,       \* NULL, or a column the statement does not mention
  Legal,         \* Legal[c]: inputs the NOT NULL and CHECK constraints of c let through
  IndexNames,    \* index names a statement can use
  IndexDefs,     \* index definitions a CREATE INDEX can give
  Stored(_, _),  \* Stored(c, x): what INSERT puts into the slot of column c for input x
  Updated(_, _), \* Updated(c, x): what UPDATE puts there
  Read(_, _),    \* Read(c, v): what scans, indexes and constraints read where the slot holds v
  Shown(_, _),   \* Shown(c, v): what UPDATE's expressions read there
  Pack(_)        \* the key bytes an index keeps of a sequence of column values

Given == Inputs \cup {Missing}

Row == [Columns -> Values]

\* A definition is a name, one or two columns and the UNIQUE flag.
ColumnLists == [1..1 -> Columns] \cup [1..2 -> Columns]

IndexDef == [name : IndexNames, cols : ColumnLists, unique : BOOLEAN]

\* The keys an index on one or two columns can hold, and its entries.
Keys == {Pack(k) : k \in [1..1 -> Values] \cup [1..2 -> Values]}

Entry == Keys \X (Nat \ {0})

ASSUME StoredAssumption ==
  \A c \in Columns :
    /\ \A x \in Given : Stored(c, x) \in Values /\ Updated(c, x) \in Values
    /\ \A v \in Values : Read(c, v) \in Values /\ Shown(c, v) \in Inputs
ASSUME MissingAssumption == Missing \notin Values \cup Inputs
ASSUME ColumnsAssumption == /\ Columns \cap Inputs = {}
                            /\ Missing \notin Columns
ASSUME DefsAssumption    == IndexDefs \subseteq IndexDef

-----------------------------------------------------------------------------
(***************************************************************************)
(* Constraints.  checkInsert and checkUpdate look at one column at a time  *)
(* and compare the supplied input, before it is encoded, with what they    *)
(* read of the stored rows.  A missing value passes UNIQUE but not PRIMARY *)
(* KEY.                                                                    *)
(***************************************************************************)
Accepts(rows, c, v) ==
  /\ v \in Legal[c]
  /\ c = PK => v # Missing
  /\ c \in UniqueCols \cup {PK} /\ v # Missing =>
        \A i \in DOMAIN rows : Read(c, rows[i][c]) # v

AcceptsRow(rows, in) == \A c \in Columns : Accepts(rows, c, in[c])

StoredRow(in) == [c \in Columns |-> Stored(c, in[c])]

StoredRows(src) == [i \in DOMAIN src |-> StoredRow(src[i])]

\* A row as scans, indexes and constraints see it.
ReadRow(row) == [c \in Columns |-> Read(c, row[c])]

-----------------------------------------------------------------------------
(***************************************************************************)
(* UPDATE.  A WHERE clause w is the set of rows it holds of: here whole    *)
(* slots, in a DELETE what a scan reads.  The SET list a maps some columns *)
(* to an expression: a literal, NULL, or the name of a column, read from   *)
(* the row as it was before the statement.                                 *)
(***************************************************************************)
Eval(e, row) == IF e \in Columns THEN Shown(e, row[e]) ELSE e

SetRow(a, row) ==
  [c \in Columns |-> IF c \in DOMAIN a THEN Updated(c, Eval(a[c], row)) ELSE row[c]]

UpdatedRows(rows, w, a) ==
  [i \in DOMAIN rows |-> IF rows[i] \in w THEN SetRow(a, rows[i]) ELSE rows[i]]

AcceptsUpdate(rows, w, a) ==
  \A i \in DOMAIN rows : rows[i] \in w =>
    \A c \in DOMAIN a : Accepts(rows, c, Eval(a[c], rows[i]))

\* DELETE goes by primary key, collected from the rows a scan reads.
DoomedKeys(rows, w) ==
  {Read(PK, rows[i][PK]) : i \in {j \in DOMAIN rows : ReadRow(rows[j]) \in w}}

-----------------------------------------------------------------------------
(***************************************************************************)
(* Index keys.  A record's offset in the .trd file is its position.        *)
(***************************************************************************)
SlotValues(d, row) == [k \in DOMAIN d.cols |-> row[d.cols[k]]]

Key(d, row) == Pack(SlotValues(d, ReadRow(row)))

EntriesOf(d, rows) == {<<Key(d, rows[i]), i>> : i \in DOMAIN rows}

KeysIn(entries) == {e[1] : e \in entries}

\* No two rows have one key in d: what a unique index enforces.
Distinct(d, rows) ==
  \A i, j \in DOMAIN rows : Key(d, rows[i]) = Key(d, rows[j]) => i = j

\* No two rows hold the same in the slots of d's columns.
DistinctSlots(d, rows) ==
  \A i, j \in DOMAIN rows : SlotValues(d, rows[i]) = SlotValues(d, rows[j]) => i = j

=============================================================================
