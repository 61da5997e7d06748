-------------------------- MODULE TableEngine_proofs --------------------------
(***************************************************************************)
(* Proofs about TableEngine, for every table, statement and crash count:   *)
(* types, what the index files hold whatever crashes came before, what     *)
(* holds on a server that stayed up, the refinement of Table, and that     *)
(* every statement runs out of steps.                                      *)
(***************************************************************************)
EXTENDS TableEngine, SequenceTheorems, TLAPS

(***************************************************************************)
(* Row operators keep the type of rows and keys.                           *)
(***************************************************************************)
\* What the executors encode is a row of the table.
LEMMA StoredRowType ==
  ASSUME NEW in \in [Columns -> Given]
  PROVE  StoredRow(in) \in Row
BY StoredAssumption DEF StoredRow, Row

\* What UPDATE computes for a row is a row of the table.
LEMMA SetRowType ==
  ASSUME NEW a \in Assignments, NEW row \in Row
  PROVE  SetRow(a, row) \in Row
<1>1. ASSUME NEW c \in DOMAIN a PROVE Eval(a[c], row) \in Given
  BY <1>1, StatementsAssumption, StoredAssumption DEF Eval, Row, Given
<1>2. ASSUME NEW c \in Columns
      PROVE  (IF c \in DOMAIN a THEN Updated(c, Eval(a[c], row)) ELSE row[c]) \in Values
  <2>1. CASE c \in DOMAIN a
    BY <1>1, <2>1, StoredAssumption
  <2>2. CASE c \notin DOMAIN a
    BY <2>2 DEF Row
  <2>3. QED
    BY <2>1, <2>2
<1>3. QED
  BY <1>2 DEF SetRow, Row

\* UPDATE keeps the number of rows.
LEMMA UpdatedRowsType ==
  ASSUME NEW w, NEW a \in Assignments, NEW rows \in Seq(Row)
  PROVE  /\ UpdatedRows(rows, w, a) \in Seq(Row)
         /\ Len(UpdatedRows(rows, w, a)) = Len(rows)
<1>1. UpdatedRows(rows, w, a) \in [1..Len(rows) -> Row]
  BY SetRowType DEF UpdatedRows
<1>2. QED
  BY <1>1

\* What a scan reads of a row is a row.
LEMMA ReadRowType == ASSUME NEW row \in Row PROVE ReadRow(row) \in Row
BY StoredAssumption DEF ReadRow, Row

\* The keys a DELETE collects are values.
LEMMA DoomedType == ASSUME NEW rows \in Seq(Row), NEW w, PK \in Columns PROVE DoomedKeys(rows, w) \subseteq Values
BY StoredAssumption DEF DoomedKeys, Row

\* An index entry can be made of every row.
LEMMA KeyType ==
  ASSUME NEW d \in IndexDefs, NEW row \in Row
  PROVE  Key(d, row) \in Keys
<1>1. d.cols \in [1..1 -> Columns] \cup [1..2 -> Columns]
  BY DefsAssumption DEF IndexDef, ColumnLists
<1>2. SlotValues(d, ReadRow(row)) \in [1..1 -> Values] \cup [1..2 -> Values]
  BY <1>1, ReadRowType DEF SlotValues, Row
<1>3. QED
  BY <1>2 DEF Key, Keys

\* The kept list of a DROP INDEX is the list without one element.
LEMMA DropType ==
  ASSUME NEW list \in Seq(IndexDefs), NEW p \in DOMAIN list
  PROVE  Drop(list, p) \in Seq(IndexDefs)
<1>1. p \in 1..Len(list)
  OBVIOUS
<1>2. SubSeq(list, 1, p - 1) \in Seq(IndexDefs)
  BY <1>1, SubSeqProperties
<1>3. SubSeq(list, p + 1, Len(list)) \in Seq(IndexDefs)
  BY <1>1, SubSeqProperties
<1>4. QED
  BY <1>2, <1>3, ConcatProperties DEF Drop

\* A definition names an index of the table.
LEMMA NameType == ASSUME NEW d \in IndexDefs PROVE d.name \in IndexNames
BY DefsAssumption DEF IndexDef

\* Entering a key into an index file keeps the files typed.
LEMMA WithEntryType ==
  ASSUME ix \in [DOMAIN ix -> SUBSET Entry],
         NEW n \in DOMAIN ix, NEW k \in Keys, NEW i \in Nat \ {0}
  PROVE  /\ DOMAIN WithEntry(n, k, i) = DOMAIN ix
         /\ WithEntry(n, k, i) \in [DOMAIN ix -> SUBSET Entry]
<1>1. <<k, i>> \in Entry
  BY DEF Entry
<1>2. QED
  BY <1>1 DEF WithEntry

-----------------------------------------------------------------------------
(***************************************************************************)
(* Type correctness.  It is inductive with what each program point knows:  *)
(* INSERT maintains entries of the record it has just appended, and the    *)
(* rebuild loop stands on an index of its list.                            *)
(***************************************************************************)
Phases ==
  /\ pc \in {"meta", "entry"} => trd # <<>>
  /\ pc \in {"create", "fill", "register"} => queue # <<>>

TypeInv == TypeOK /\ Phases

\* The state after CREATE TABLE is well typed.
LEMMA TypeInit == Init => TypeInv
<1> SUFFICES ASSUME Init PROVE TypeInv
  OBVIOUS
<1>1. trd \in Seq(Row) /\ tid \in Seq(IndexDefs) /\ src \in Seq([Columns -> Given])
      /\ buf \in Seq(Row) /\ queue \in Seq(IndexDefs)
  BY DEF Init
<1>2. DOMAIN ix \subseteq IndexNames /\ ix \in [DOMAIN ix -> SUBSET Entry]
  BY DEF Init
<1>3. before \in [rows : Seq(Row), defs : Seq(IndexDefs)]
  BY DEF Init
<1>4. /\ recordNum \in Int /\ torn \subseteq IndexNames /\ pc \in Points /\ kind \in Kinds
      /\ doomed \subseteq Values /\ deleted \in Nat /\ cur \in Nat /\ target \in IndexNames
      /\ reply \in Replies /\ crashes \in 0..MaxCrashes
  BY BoundsAssumption DEF Init, Points, Kinds, Replies
<1>5. stale \in BOOLEAN /\ Phases
  BY DEF Init, Phases
<1>6. QED
  BY <1>1, <1>2, <1>3, <1>4, <1>5 DEF TypeInv, TypeOK

\* Every step keeps the types.
LEMMA TypeStep == TypeInv /\ [Next]_vars => TypeInv'
<1> SUFFICES ASSUME TypeInv, [Next]_vars PROVE TypeInv'
  OBVIOUS
<1> USE DEF TypeInv, TypeOK, Phases, Points, Kinds, Replies, vars, disk, locals, history
<1>1. ASSUME NEW rows \in Sources, Insert(rows) PROVE TypeInv'
  BY <1>1, StatementsAssumption DEF Insert, Begin
<1>2. ASSUME NEW w \in Predicates, NEW a \in Assignments, Update(w, a) PROVE TypeInv'
  BY <1>2, UpdatedRowsType DEF Update, Begin
<1>3. ASSUME NEW w \in Predicates, NEW a \in Assignments, UpdateAnswered(w, a) PROVE TypeInv'
  BY <1>3 DEF UpdateAnswered, Answer
<1>4. ASSUME NEW w \in Predicates, Delete(w) PROVE TypeInv'
  BY <1>4, DoomedType DEF Delete, Begin
<1>5. ASSUME NEW w \in Predicates, DeleteAnswered(w) PROVE TypeInv'
  BY <1>5 DEF DeleteAnswered, Answer
<1>6. ASSUME NEW d \in IndexDefs, CreateIndex(d) PROVE TypeInv'
  BY <1>6, DefsAssumption DEF CreateIndex, Begin, WithFile, IndexDef
<1>7. ASSUME NEW d \in IndexDefs, CreateIndexAnswered(d) PROVE TypeInv'
  BY <1>7 DEF CreateIndexAnswered, Answer
<1>8. ASSUME NEW n \in IndexNames, DropIndex(n) PROVE TypeInv'
  BY <1>8, DropType DEF DropIndex, Begin, Unlist
<1>9. ASSUME NEW n \in IndexNames, DropIndexAnswered(n) PROVE TypeInv'
  BY <1>9 DEF DropIndexAnswered, Answer
<1>10. CASE InsertDone
  BY <1>10 DEF InsertDone, End, Close, Forget
<1>11. CASE InsertRefused
  BY <1>11 DEF InsertRefused, End, Close, Forget
<1>12. CASE InsertAppend
  <2> DEFINE given == Head(src)
             new == StoredRow(given)
             more == Append(trd, new)
  <2>1. given \in [Columns -> Given] /\ Tail(src) \in Seq([Columns -> Given])
    BY <1>12 DEF InsertAppend, Store
  <2>2. new \in Row
    BY <2>1, StoredRowType
  <2> HIDE DEF new
  <2>3. more \in Seq(Row) /\ more # <<>>
    <3> HIDE DEF TypeInv, TypeOK, Phases
    <3>1. trd \in Seq(Row)
      BY DEF TypeInv, TypeOK
    <3> QED
      BY <2>2, <3>1, AppendProperties
  <2>4. /\ trd' = more /\ src' = Tail(src) /\ pc' = "meta" /\ UNCHANGED <<kind, reply, before, crashes, stale>>
        /\ UNCHANGED <<recordNum, tid, ix, torn, buf, doomed, deleted, queue, cur, target>>
    BY <1>12 DEF InsertAppend, Store, Goto, new
  <2> HIDE DEF more, given
  <2> QED
    BY <2>1, <2>3, <2>4
<1>13. CASE InsertCount
  BY <1>13 DEF InsertCount, Goto
<1>14. CASE InsertEntry
  <2> DEFINE d == Head(queue)
             k == Key(d, trd[Len(trd)])
  <2>1. d \in IndexDefs /\ k \in Keys /\ Len(trd) \in Nat \ {0}
    BY <1>14, KeyType DEF InsertEntry
  <2>2. ix' = WithEntry(d.name, k, Len(trd)) /\ d.name \in DOMAIN ix
    BY <1>14 DEF InsertEntry, Enters
  <2>3. DOMAIN ix' = DOMAIN ix /\ ix' \in [DOMAIN ix -> SUBSET Entry]
    BY <2>1, <2>2, WithEntryType
  <2>4. QED
    BY <1>14, <2>3 DEF InsertEntry, Goto
<1>15. CASE InsertEntryRefused
  BY <1>15 DEF InsertEntryRefused, Goto
<1>16. CASE InsertNext
  BY <1>16 DEF InsertNext, Goto
<1>17. CASE ScanKeeps
  BY <1>17, SMTT(60) DEF ScanKeeps, Goto
<1>18. CASE ScanDrops
  BY <1>18, SMTT(60) DEF ScanDrops, Goto
<1>19. CASE Scanned
  BY <1>19 DEF Scanned, Goto
<1>20. CASE Truncate
  BY <1>20 DEF Truncate, Goto
<1>21. CASE Write
  BY <1>21 DEF Write, WriteAndIndex, Goto
<1>22. CASE DeleteCount
  BY <1>22 DEF DeleteCount, CountDown, Goto
<1>23. CASE RebuildNext
  BY <1>23 DEF RebuildNext, WithoutFile, Goto
<1>24. CASE RebuildCreate
  BY <1>24, NameType DEF RebuildCreate, RebuildFrom, WithFile, Goto
<1>25. CASE RebuildEntry
  <2> DEFINE d == Head(queue)
             k == Key(d, trd[cur + 1])
  <2>1. d \in IndexDefs /\ k \in Keys /\ cur + 1 \in Nat \ {0}
    BY <1>25, KeyType, SMTT(60) DEF RebuildEntry
  <2>2. ix' = WithEntry(d.name, k, cur + 1) /\ d.name \in DOMAIN ix
    BY <1>25 DEF RebuildEntry, Enters
  <2>3. DOMAIN ix' = DOMAIN ix /\ ix' \in [DOMAIN ix -> SUBSET Entry]
    BY <2>1, <2>2, WithEntryType
  <2>4. QED
    BY <1>25, <2>3 DEF RebuildEntry, Goto
<1>26. CASE RebuildFilled
  BY <1>26 DEF RebuildFilled, RebuildContinue, Goto
<1>27. CASE RebuildRefused
  <2>1. CASE kind = "createIndex"
    BY <1>27, <2>1 DEF RebuildRefused, Goto
  <2>2. CASE kind # "createIndex"
    BY <1>27, <2>2 DEF RebuildRefused, End, Close, Forget
  <2>3. QED
    BY <2>1, <2>2
<1>28. CASE RebuildDone
  BY <1>28 DEF RebuildDone, End, Close, Forget
<1>29. CASE Register
  BY <1>29 DEF Register, Goto
<1>30. CASE CreateIndexUndo
  BY <1>30, DropType DEF CreateIndexUndo, Unlist, Goto
<1>31. CASE Relist
  BY <1>31 DEF Relist, Goto
<1>32. CASE Relisted
  BY <1>32 DEF Relisted, Goto
<1>33. CASE Unlink
  BY <1>33 DEF Unlink, UnlinkLeaving, WithoutFile, End, Close, Forget
<1>34. CASE Crash
  <2>1. trd' \in Seq(Row)
    <3>1. ASSUME NEW n \in 0..Len(buf) PROVE SubSeq(buf, 1, n) \in Seq(Row)
      <4>1. \A i \in 1..n : buf[i] \in Row
        OBVIOUS
      <4>2. QED
        BY <4>1, SubSeqProperties
    <3>2. QED
      BY <1>34, <3>1 DEF Crash
  <2>2. crashes' \in 0..MaxCrashes
    BY <1>34, BoundsAssumption DEF Crash
  <2>3. torn' \subseteq IndexNames
    <3>1. InWriting \subseteq IndexNames
      BY NameType DEF InWriting
    <3>2. QED
      BY <1>34, <3>1 DEF Crash
  <2>4. QED
    BY <1>34, <2>1, <2>2, <2>3 DEF Crash, Forget
<1>35. CASE UNCHANGED vars
  BY <1>35
<1>36. QED
  BY <1>1, <1>2, <1>3, <1>4, <1>5, <1>6, <1>7, <1>8, <1>9, <1>10, <1>11, <1>12, <1>13, <1>14, <1>15, <1>16, <1>17, <1>18, <1>19, <1>20, <1>21, <1>22, <1>23, <1>24, <1>25, <1>26, <1>27, <1>28, <1>29, <1>30, <1>31, <1>32, <1>33, <1>34, <1>35 DEF Next, Start, Step

\* Every variable keeps its type, whatever statements run and whatever crashes
\* interrupt them.
THEOREM TypeCorrect == Spec => []TypeOK
<1>1. TypeInv => TypeOK
  BY DEF TypeInv
<1>2. QED
  BY TypeInit, TypeStep, <1>1, PTL DEF Spec

-----------------------------------------------------------------------------
(***************************************************************************)
(* record_num.  While a statement runs it is the number of rows of the     *)
(* record file but for the steps between a write of that file and the      *)
(* write of the count; there the difference is the row just appended, or   *)
(* the rows DELETE has left out.                                           *)
(***************************************************************************)
Counted ==
  /\ pc = "idle" => buf = <<>> /\ cur = 0 /\ deleted = 0
  /\ kind # "delete" => deleted = 0 /\ pc \notin {"scan", "count"}
  /\ crashes = 0 =>
       /\ pc \notin {"meta", "write", "count"} => recordNum = Len(trd)
       /\ pc = "meta" => recordNum + 1 = Len(trd)
       /\ pc = "scan" => deleted + Len(buf) = cur /\ cur <= Len(trd)
       /\ pc = "truncate" => deleted + Len(buf) = Len(trd)
       /\ pc = "write" => deleted + Len(buf) = recordNum
       /\ pc = "count" => deleted + Len(trd) = recordNum

\* Every step accounts for the rows it adds or leaves out.
LEMMA CountStep == TypeInv /\ Counted /\ [Next]_vars => Counted'
<1> SUFFICES ASSUME TypeInv, Counted, [Next]_vars PROVE Counted'
  OBVIOUS
<1> USE DEF TypeInv, TypeOK, Counted, vars, disk, locals, history
<1>1. ASSUME NEW rows \in Sources, Insert(rows) PROVE Counted'
  BY <1>1 DEF Insert, Begin
<1>2. ASSUME NEW w \in Predicates, NEW a \in Assignments, Update(w, a) PROVE Counted'
  BY <1>2, UpdatedRowsType DEF Update, Begin
<1>3. ASSUME NEW w \in Predicates, NEW a \in Assignments, UpdateAnswered(w, a) PROVE Counted'
  BY <1>3 DEF UpdateAnswered, Answer
<1>4. ASSUME NEW w \in Predicates, Delete(w) PROVE Counted'
  BY <1>4 DEF Delete, Begin
<1>5. ASSUME NEW w \in Predicates, DeleteAnswered(w) PROVE Counted'
  BY <1>5 DEF DeleteAnswered, Answer
<1>6. ASSUME NEW d \in IndexDefs, CreateIndex(d) PROVE Counted'
  BY <1>6 DEF CreateIndex, Begin, WithFile
<1>7. ASSUME NEW d \in IndexDefs, CreateIndexAnswered(d) PROVE Counted'
  BY <1>7 DEF CreateIndexAnswered, Answer
<1>8. ASSUME NEW n \in IndexNames, DropIndex(n) PROVE Counted'
  BY <1>8 DEF DropIndex, Begin, Unlist
<1>9. ASSUME NEW n \in IndexNames, DropIndexAnswered(n) PROVE Counted'
  BY <1>9 DEF DropIndexAnswered, Answer
<1>10. CASE InsertDone
  BY <1>10 DEF InsertDone, End, Close, Forget
<1>11. CASE InsertRefused
  BY <1>11 DEF InsertRefused, End, Close, Forget
<1>12. CASE InsertAppend
  BY <1>12 DEF InsertAppend, Store, Goto
<1>13. CASE InsertCount
  BY <1>13 DEF InsertCount, Goto
<1>14. CASE InsertEntry
  BY <1>14 DEF InsertEntry, Goto
<1>15. CASE InsertEntryRefused
  BY <1>15 DEF InsertEntryRefused, Goto
<1>16. CASE InsertNext
  BY <1>16 DEF InsertNext, Goto
<1>17. CASE ScanKeeps
  BY <1>17 DEF ScanKeeps, Goto
<1>18. CASE ScanDrops
  BY <1>18 DEF ScanDrops, Goto
<1>19. CASE Scanned
  BY <1>19 DEF Scanned, Goto
<1>20. CASE Truncate
  BY <1>20 DEF Truncate, Goto
<1>21. CASE Write
  BY <1>21 DEF Write, WriteAndIndex, Goto
<1>22. CASE DeleteCount
  BY <1>22 DEF DeleteCount, CountDown, Goto
<1>23. CASE RebuildNext
  BY <1>23 DEF RebuildNext, Goto
<1>24. CASE RebuildCreate
  BY <1>24 DEF RebuildCreate, RebuildFrom, Goto
<1>25. CASE RebuildEntry
  BY <1>25 DEF RebuildEntry, Goto
<1>26. CASE RebuildFilled
  BY <1>26 DEF RebuildFilled, RebuildContinue, Goto
<1>27. CASE RebuildRefused
  BY <1>27 DEF RebuildRefused, Goto, End, Close, Forget
<1>28. CASE RebuildDone
  BY <1>28 DEF RebuildDone, End, Close, Forget
<1>29. CASE Register
  BY <1>29 DEF Register, Goto
<1>30. CASE CreateIndexUndo
  BY <1>30 DEF CreateIndexUndo, Unlist, Goto
<1>31. CASE Relist
  BY <1>31 DEF Relist, Goto
<1>32. CASE Relisted
  BY <1>32 DEF Relisted, Goto
<1>33. CASE Unlink
  BY <1>33 DEF Unlink, UnlinkLeaving, End, Close, Forget
<1>34. CASE Crash
  BY <1>34 DEF Crash, Forget
<1>35. CASE UNCHANGED vars
  BY <1>35
<1>36. QED
  BY <1>1, <1>2, <1>3, <1>4, <1>5, <1>6, <1>7, <1>8, <1>9, <1>10, <1>11, <1>12, <1>13, <1>14, <1>15, <1>16, <1>17, <1>18, <1>19, <1>20, <1>21, <1>22, <1>23, <1>24, <1>25, <1>26, <1>27, <1>28, <1>29, <1>30, <1>31, <1>32, <1>33, <1>34, <1>35 DEF Next, Start, Step

\* Between statements record_num is the length of the record file, for any
\* table and any sequence of statements no crash has interrupted.
THEOREM RecordNumCorrect == Spec => []RecordNumAgrees
<1>1. Init => Counted
  BY DEF Init, Counted
<1>2. Counted => RecordNumAgrees
  BY DEF Counted, RecordNumAgrees, Quiet
<1>3. QED
  BY TypeInit, TypeStep, CountStep, <1>1, <1>2, PTL DEF Spec

-----------------------------------------------------------------------------
(***************************************************************************)
(* The index files.                                                        *)
(***************************************************************************)

(***************************************************************************)
(* The lists of definitions.  No two definitions of .tid, and none that is *)
(* still to be written back to it, have the same name; what an executor    *)
(* has still to maintain is the last part of .tid.                         *)
(***************************************************************************)
NamesIn(list) == {list[k].name : k \in DOMAIN list}

NamesDistinct(list) == \A i, j \in DOMAIN list : list[i].name = list[j].name => i = j

Maintaining == pc \in {"entry", "count", "rebuild", "create", "fill"}

\* The number of definitions an executor has dealt with.
Done == Len(tid) - Len(queue)

LastPart == Len(queue) <= Len(tid) /\ \A q \in 1..Len(queue) : queue[q] = tid[Done + q]

NewName == Len(queue) = 1 /\ Head(queue).name \notin NamesIn(tid)

Apart == NamesDistinct(queue) /\ NamesIn(tid) \cap NamesIn(queue) = {}

ListInv ==
  /\ NamesDistinct(tid)
  /\ Maintaining => LastPart
  /\ pc = "register" => NewName
  /\ pc = "relist" => Apart

\* Taking a definition out of a list leaves the others, in order.
LEMMA DropElements ==
  ASSUME NEW list \in Seq(IndexDefs), NEW p \in DOMAIN list
  PROVE  /\ Len(Drop(list, p)) = Len(list) - 1
         /\ \A i \in 1..Len(list) - 1 : Drop(list, p)[i] = list[IF i < p THEN i ELSE i + 1]
<1>1. p \in 1..Len(list)
  OBVIOUS
<1>2. /\ Len(SubSeq(list, 1, p - 1)) = p - 1
      /\ \A i \in 1..p - 1 : SubSeq(list, 1, p - 1)[i] = list[i]
  BY <1>1, SubSeqProperties
<1>3. /\ Len(SubSeq(list, p + 1, Len(list))) = Len(list) - p
      /\ \A i \in 1..Len(list) - p : SubSeq(list, p + 1, Len(list))[i] = list[p + i]
  BY <1>1, SubSeqProperties
<1> DEFINE left == SubSeq(list, 1, p - 1)
           right == SubSeq(list, p + 1, Len(list))
<1>4. left \in Seq(IndexDefs) /\ right \in Seq(IndexDefs)
  BY <1>1, SubSeqProperties
<1> HIDE DEF left, right
<1>5. /\ Len(left \o right) = Len(left) + Len(right)
      /\ \A i \in 1..Len(left) : (left \o right)[i] = left[i]
      /\ \A i \in Len(left) + 1..Len(left) + Len(right) : (left \o right)[i] = right[i - Len(left)]
  BY <1>4, ConcatProperties
<1>6. Len(left) = p - 1 /\ Len(right) = Len(list) - p /\ Drop(list, p) = left \o right
  BY <1>2, <1>3 DEF left, right, Drop
<1>7. /\ \A i \in 1..p - 1 : left[i] = list[i]
      /\ \A i \in 1..Len(list) - p : right[i] = list[p + i]
  BY <1>2, <1>3 DEF left, right
<1>8. ASSUME NEW i \in 1..Len(list) - 1 PROVE Drop(list, p)[i] = list[IF i < p THEN i ELSE i + 1]
  <2>1. CASE i < p
    BY <1>1, <1>5, <1>6, <1>7, <2>1
  <2>2. CASE ~ (i < p)
    <3>1. i - (p - 1) \in 1..Len(list) - p /\ p + (i - (p - 1)) = i + 1
      BY <1>1, <2>2
    <3>2. Drop(list, p)[i] = right[i - (p - 1)]
      <4>1. Len(list) \in Nat /\ p \in Nat /\ i \in Nat
        BY <1>1
      <4>2. i \in Len(left) + 1..Len(left) + Len(right) /\ i - Len(left) = i - (p - 1)
        BY <1>1, <1>6, <2>2, <4>1
      <4>3. QED
        BY <1>5, <1>6, <4>2
    <3>3. QED
      BY <1>7, <2>2, <3>1, <3>2
  <2>3. QED
    BY <2>1, <2>2
<1>9. Len(Drop(list, p)) = Len(list) - 1
  <2>1. Len(list) \in Nat /\ p \in Nat
    BY <1>1
  <2>2. QED
    BY <1>5, <1>6, <2>1
<1>10. QED
  BY <1>8, <1>9

\* DROP INDEX keeps names apart and takes one name away.
LEMMA DropNames ==
  ASSUME NEW list \in Seq(IndexDefs), NamesDistinct(list), NEW p \in DOMAIN list
  PROVE  /\ NamesDistinct(Drop(list, p))
         /\ NamesIn(Drop(list, p)) = NamesIn(list) \ {list[p].name}
<1> DEFINE kept == Drop(list, p)
           old(i) == IF i < p THEN i ELSE i + 1
           new(i) == IF i < p THEN i ELSE i - 1
<1> HIDE DEF kept
<1>1. kept \in Seq(IndexDefs) /\ Len(kept) = Len(list) - 1 /\ p \in 1..Len(list) /\ Len(list) \in Nat
  BY DropType, DropElements DEF kept
<1>2. \A i \in 1..Len(list) - 1 : kept[i] = list[IF i < p THEN i ELSE i + 1]
  BY DropElements DEF kept
<1>3. ASSUME NEW i \in 1..Len(list), i # p
      PROVE  new(i) \in 1..Len(list) - 1 /\ kept[new(i)] = list[i]
  BY <1>1, <1>2, <1>3, SMTT(60)
<1>4. NamesDistinct(kept)
  <2> SUFFICES ASSUME NEW i \in 1..Len(list) - 1, NEW j \in 1..Len(list) - 1,
                      kept[i].name = kept[j].name
               PROVE  i = j
    BY <1>1 DEF NamesDistinct
  <2>1. /\ old(i) \in 1..Len(list) /\ kept[i] = list[old(i)]
        /\ old(j) \in 1..Len(list) /\ kept[j] = list[old(j)]
    BY <1>1, <1>2
  <2>2. old(i) = old(j)
    BY <2>1 DEF NamesDistinct
  <2>3. QED
    BY <1>1, <2>2
<1>5. NamesIn(kept) = NamesIn(list) \ {list[p].name}
  <2>1. ASSUME NEW i \in 1..Len(list) - 1
        PROVE  kept[i].name \in NamesIn(list) \ {list[p].name}
    <3>1. old(i) \in 1..Len(list) /\ old(i) # p /\ kept[i] = list[old(i)]
      BY <1>1, <1>2
    <3> HIDE DEF old
    <3>2. QED
      BY <1>1, <3>1 DEF NamesIn, NamesDistinct
  <2>2. ASSUME NEW i \in 1..Len(list), list[i].name # list[p].name PROVE list[i].name \in NamesIn(kept)
    <3>1. i # p
      BY <2>2
    <3>2. new(i) \in DOMAIN kept /\ kept[new(i)].name = list[i].name
      BY <1>1, <1>3, <3>1
    <3> HIDE DEF new
    <3>3. QED
      BY <3>2 DEF NamesIn
  <2>3. QED
    BY <1>1, <2>1, <2>2, SMTT(60) DEF NamesIn
<1>6. QED
  BY <1>4, <1>5 DEF kept

\* A definition appended to a list brings its name.
LEMMA AppendNames ==
  ASSUME NEW list \in Seq(IndexDefs), NamesDistinct(list), NEW d \in IndexDefs,
         d.name \notin NamesIn(list)
  PROVE  /\ NamesDistinct(Append(list, d))
         /\ NamesIn(Append(list, d)) = NamesIn(list) \cup {d.name}
<1>1. /\ Append(list, d) \in Seq(IndexDefs) /\ Len(Append(list, d)) = Len(list) + 1
      /\ \A i \in 1..Len(list) : Append(list, d)[i] = list[i]
      /\ Append(list, d)[Len(list) + 1] = d
  OBVIOUS
<1>2. NamesDistinct(Append(list, d))
  BY <1>1 DEF NamesDistinct, NamesIn
<1>3. NamesIn(Append(list, d)) = NamesIn(list) \cup {d.name}
  BY <1>1 DEF NamesIn
<1>4. QED
  BY <1>2, <1>3

\* The rest of a list has the other names.
LEMMA TailNames ==
  ASSUME NEW list \in Seq(IndexDefs), NamesDistinct(list), list # <<>>
  PROVE  /\ NamesDistinct(Tail(list))
         /\ NamesIn(Tail(list)) = NamesIn(list) \ {Head(list).name}
         /\ Head(list).name \in NamesIn(list)
<1>1. /\ Len(list) \in Nat /\ Len(list) > 0 /\ Head(list) = list[1]
      /\ Len(Tail(list)) = Len(list) - 1 /\ Tail(list) \in Seq(IndexDefs)
      /\ \A i \in 1..Len(list) - 1 : Tail(list)[i] = list[i + 1]
  OBVIOUS
<1>2. NamesDistinct(Tail(list))
  BY <1>1 DEF NamesDistinct
<1>3. ASSUME NEW i \in 1..Len(list), i # 1 PROVE list[i].name \in NamesIn(Tail(list))
  <2>1. i - 1 \in DOMAIN Tail(list) /\ Tail(list)[i - 1] = list[i]
    BY <1>1, <1>3
  <2>2. QED
    BY <2>1 DEF NamesIn
<1>4. ASSUME NEW i \in 1..Len(list) - 1 PROVE Tail(list)[i].name \in NamesIn(list) \ {Head(list).name}
  BY <1>1, <1>4 DEF NamesIn, NamesDistinct
<1>5. QED
  BY <1>1, <1>2, <1>3, <1>4, SMTT(60) DEF NamesIn

\* Every step keeps names apart and the queue a last part of .tid.
LEMMA ListStep == TypeInv /\ ListInv /\ [Next]_vars => ListInv'
<1> SUFFICES ASSUME TypeInv, ListInv, [Next]_vars PROVE ListInv'
  OBVIOUS
<1> USE DEF ListInv
<1>a. tid \in Seq(IndexDefs) /\ queue \in Seq(IndexDefs)
  BY DEF TypeInv, TypeOK
<1>b. ASSUME UNCHANGED tid, ~ Maintaining', pc' \notin {"register", "relist"} PROVE ListInv'
  BY <1>b DEF NamesDistinct
<1>c. ASSUME UNCHANGED <<tid, queue>>, Maintaining, pc' \notin {"register", "relist"} PROVE ListInv'
  BY <1>c DEF NamesDistinct, LastPart, Done
<1>d. ASSUME UNCHANGED tid, queue' = tid, pc' \notin {"register", "relist"} PROVE ListInv'
  BY <1>a, <1>d DEF NamesDistinct, LastPart, Done
<1>e. ASSUME UNCHANGED tid, queue # <<>>, queue' = Tail(queue), Maintaining, pc' \notin {"register", "relist"}
      PROVE ListInv'
  <2>1. /\ Len(queue') = Len(queue) - 1 /\ Len(queue) > 0 /\ Len(queue) \in Nat
        /\ \A i \in 1..Len(queue) - 1 : queue'[i] = queue[i + 1]
    BY <1>a, <1>e
  <2>2. LastPart'
    BY <1>a, <1>e, <2>1 DEF LastPart, Done
  <2>3. QED
    BY <1>e, <2>2 DEF NamesDistinct
<1>f. ASSUME NEW n, Unlist(n), pc' = "relist" PROVE ListInv'
  <2>1. PICK p \in DOMAIN tid : queue' = Drop(tid, p)
    BY <1>f DEF Unlist
  <2>2. tid' = <<>> /\ NamesDistinct(queue')
    BY <1>a, <1>f, <2>1, DropNames DEF Unlist
  <2>3. QED
    BY <1>f, <2>2 DEF Apart, NamesDistinct, NamesIn, Maintaining
<1>g. ASSUME UNCHANGED <<pc, tid, queue>> PROVE ListInv'
  <2>1. /\ pc' = pc /\ tid' = tid /\ queue' = queue /\ Maintaining' = Maintaining
        /\ NamesIn(tid') = NamesIn(tid) /\ NamesIn(queue') = NamesIn(queue)
    BY <1>g DEF Maintaining
  <2>2. LastPart' = LastPart
    BY <2>1 DEF LastPart, Done
  <2>3. NewName' = NewName
    BY <2>1 DEF NewName
  <2>4. NamesDistinct(tid') = NamesDistinct(tid) /\ Apart' = Apart
    BY <2>1 DEF Apart, NamesDistinct
  <2>5. QED
    BY <2>1, <2>2, <2>3, <2>4
<1>1. ASSUME NEW rows \in Sources, Insert(rows) PROVE ListInv'
  BY <1>1, <1>b DEF Insert, Begin, Maintaining, disk, locals
<1>2. ASSUME NEW w \in Predicates, NEW a \in Assignments, Update(w, a) PROVE ListInv'
  BY <1>2, <1>b DEF Update, Begin, Maintaining, disk, locals
<1>3. ASSUME NEW w \in Predicates, NEW a \in Assignments, UpdateAnswered(w, a) PROVE ListInv'
  BY <1>3, <1>g DEF UpdateAnswered, Answer, Maintaining, disk, locals
<1>4. ASSUME NEW w \in Predicates, Delete(w) PROVE ListInv'
  BY <1>4, <1>b DEF Delete, Begin, Maintaining, disk, locals
<1>5. ASSUME NEW w \in Predicates, DeleteAnswered(w) PROVE ListInv'
  BY <1>5, <1>g DEF DeleteAnswered, Answer, Maintaining, disk, locals
<1>6. ASSUME NEW d \in IndexDefs, CreateIndex(d) PROVE ListInv'
  <2>1. NewName'
    BY <1>6 DEF CreateIndex, IndexRefused, Registered, NewName, NamesIn
  <2>2. QED
    BY <1>6, <2>1 DEF CreateIndex, Begin, NamesDistinct, Maintaining
<1>7. ASSUME NEW d \in IndexDefs, CreateIndexAnswered(d) PROVE ListInv'
  BY <1>7, <1>g DEF CreateIndexAnswered, Answer, Maintaining, disk, locals
<1>8. ASSUME NEW n \in IndexNames, DropIndex(n) PROVE ListInv'
  BY <1>8, <1>f DEF DropIndex, Begin
<1>9. ASSUME NEW n \in IndexNames, DropIndexAnswered(n) PROVE ListInv'
  BY <1>9, <1>g DEF DropIndexAnswered, Answer, Maintaining, disk, locals
<1>10. CASE InsertDone
  BY <1>10, <1>b DEF InsertDone, End, Close, Forget, Maintaining, disk, locals
<1>11. CASE InsertRefused
  BY <1>11, <1>b DEF InsertRefused, End, Close, Forget, Maintaining, disk, locals
<1>12. CASE InsertAppend
  BY <1>12, <1>b DEF InsertAppend, Store, Goto, Maintaining, disk, locals
<1>13. CASE InsertCount
  BY <1>13, <1>d DEF InsertCount, Goto, Maintaining, disk, locals
<1>14. CASE InsertEntry
  BY <1>14, <1>e DEF InsertEntry, Goto, Maintaining, disk, locals
<1>15. CASE InsertEntryRefused
  BY <1>15, <1>d DEF InsertEntryRefused, Goto, Maintaining, disk, locals
<1>16. CASE InsertNext
  BY <1>16, <1>b DEF InsertNext, Goto, Maintaining, disk, locals
<1>17. CASE ScanKeeps
  BY <1>17, <1>b DEF ScanKeeps, Goto, Maintaining, disk, locals
<1>18. CASE ScanDrops
  BY <1>18, <1>b DEF ScanDrops, Goto, Maintaining, disk, locals
<1>19. CASE Scanned
  BY <1>19, <1>b DEF Scanned, Goto, Maintaining, disk, locals
<1>20. CASE Truncate
  BY <1>20, <1>b DEF Truncate, Goto, Maintaining, disk, locals
<1>21. CASE Write
  BY <1>21, <1>d DEF Write, WriteAndIndex, Goto, Maintaining, disk, locals
<1>22. CASE DeleteCount
  BY <1>22, <1>c DEF DeleteCount, CountDown, Goto, Maintaining, disk, locals
<1>23. CASE RebuildNext
  BY <1>23, <1>c DEF RebuildNext, Goto, Maintaining, disk, locals
<1>24. CASE RebuildCreate
  BY <1>24, <1>c DEF RebuildCreate, RebuildFrom, Goto, Maintaining, disk, locals
<1>25. CASE RebuildEntry
  BY <1>25, <1>c DEF RebuildEntry, Goto, Maintaining, disk, locals
<1>26. CASE RebuildFilled
  BY <1>26, <1>e DEF RebuildFilled, RebuildContinue, Goto, Maintaining, disk, locals, TypeInv, Phases
<1>27. CASE RebuildRefused
  <2>1. UNCHANGED tid /\ pc' \in {"undo", "idle"}
    BY <1>27 DEF RebuildRefused, Goto, End, Close, disk
  <2>2. QED
    BY <2>1, <1>b DEF Maintaining
<1>28. CASE RebuildDone
  BY <1>28, <1>b DEF RebuildDone, End, Close, Forget, Maintaining, disk, locals
<1>29. CASE Register
  <2>1. /\ tid' = Append(tid, Head(queue)) /\ UNCHANGED queue /\ pc = "register" /\ pc' = "rebuild"
    BY <1>29 DEF Register, Goto, locals
  <2>2. Len(queue) = 1 /\ Head(queue) = queue[1] /\ Head(queue) \in IndexDefs
    BY <1>a, <2>1, SMTT(30) DEF NewName
  <2>3. Len(tid') = Len(tid) + 1 /\ tid'[Len(tid) + 1] = queue[1] /\ Len(tid) \in Nat
    BY <1>a, <2>1, <2>2
  <2>4. LastPart'
    BY <2>1, <2>2, <2>3 DEF LastPart, Done
  <2>5. NamesDistinct(tid')
    BY <1>a, <2>1, <2>2, AppendNames DEF NewName
  <2>6. QED
    BY <2>1, <2>4, <2>5
<1>30. CASE CreateIndexUndo
  BY <1>30, <1>f DEF CreateIndexUndo, Goto
<1>31. CASE Relist
  <2>1. /\ tid' = Append(tid, Head(queue)) /\ queue' = Tail(queue) /\ queue # <<>>
        /\ pc = "relist" /\ pc' = "relist"
    BY <1>31 DEF Relist, Goto
  <2>2. Head(queue) \in IndexDefs /\ Head(queue).name \notin NamesIn(tid)
    BY <1>a, <2>1, TailNames DEF Apart
  <2>3. /\ NamesDistinct(tid') /\ NamesIn(tid') = NamesIn(tid) \cup {Head(queue).name}
        /\ NamesDistinct(queue') /\ NamesIn(queue') = NamesIn(queue) \ {Head(queue).name}
    BY <1>a, <2>1, <2>2, AppendNames, TailNames DEF Apart
  <2>4. QED
    BY <2>1, <2>3 DEF Maintaining, Apart, NamesIn, NamesDistinct
<1>32. CASE Relisted
  BY <1>32, <1>b DEF Relisted, Goto, Maintaining, disk, locals
<1>33. CASE Unlink
  BY <1>33, <1>b DEF Unlink, UnlinkLeaving, End, Close, Forget, Maintaining, disk, locals
<1>34. CASE Crash
  BY <1>34, <1>b DEF Crash, Forget, Maintaining, disk, locals
<1>35. CASE UNCHANGED vars
  BY <1>35, <1>g DEF vars, disk, locals
<1>36. QED
  BY <1>1, <1>2, <1>3, <1>4, <1>5, <1>6, <1>7, <1>8, <1>9, <1>10, <1>11, <1>12, <1>13, <1>14, <1>15, <1>16, <1>17, <1>18, <1>19, <1>20, <1>21, <1>22, <1>23, <1>24, <1>25, <1>26, <1>27, <1>28, <1>29, <1>30, <1>31, <1>32, <1>33, <1>34, <1>35 DEF Next, Start, Step

\* At every point a rebuild, or the entries of an INSERT, stand on the next
\* definition of .tid, and no other definition has its name.
LEMMA HeadOfQueue ==
  ASSUME TypeInv, ListInv, Maintaining, queue # <<>>
  PROVE  /\ Done + 1 \in 1..Len(tid) /\ Done \in Nat /\ Head(queue) = tid[Done + 1]
         /\ Head(queue) \in IndexDefs
         /\ \A k \in 1..Len(tid) : tid[k].name = Head(queue).name => k = Done + 1
<1>1. tid \in Seq(IndexDefs) /\ queue \in Seq(IndexDefs)
  BY DEF TypeInv, TypeOK
<1>2. Len(queue) \in Nat /\ Len(queue) > 0 /\ Len(tid) \in Nat /\ Head(queue) = queue[1]
  BY <1>1
<1>3. Len(queue) <= Len(tid) /\ queue[1] = tid[Done + 1]
  BY <1>2 DEF ListInv, LastPart
<1>4. QED
  BY <1>1, <1>2, <1>3 DEF Done, ListInv, NamesDistinct

\* Making or deleting one file leaves the others as they are.
LEMMA OtherFiles ==
  ASSUME NEW n \in IndexNames, NEW m, m # n
  PROVE  /\ m \in DOMAIN WithFile(n) <=> m \in DOMAIN ix
         /\ m \in DOMAIN WithoutFile(n) <=> m \in DOMAIN ix
         /\ m \in DOMAIN ix => WithFile(n)[m] = ix[m] /\ WithoutFile(n)[m] = ix[m]
BY DEF WithFile, WithoutFile

\* Entering a key into one file leaves the others as they are.
LEMMA OtherEntries ==
  ASSUME TypeInv, NEW n \in DOMAIN ix, NEW k, NEW i
  PROVE  /\ DOMAIN WithEntry(n, k, i) = DOMAIN ix
         /\ WithEntry(n, k, i)[n] = ix[n] \cup {<<k, i>>}
         /\ \A m \in DOMAIN ix : m # n => WithEntry(n, k, i)[m] = ix[m]
BY DEF WithEntry, TypeInv, TypeOK

-----------------------------------------------------------------------------
(***************************************************************************)
(* Unique index files that no crash has cut.  While DROP INDEX writes .tid *)
(* back, the definitions it has still to write are looked after as well.   *)
(***************************************************************************)
KeyOnce(entries) == \A e, f \in entries : e[1] = f[1] => e = f

OnceIn(list) ==
  \A k \in DOMAIN list :
    list[k].unique /\ list[k].name \in DOMAIN ix \ torn => KeyOnce(ix[list[k].name])

FileInv ==
  /\ OnceIn(tid)
  /\ pc = "relist" => OnceIn(queue)
  /\ pc = "register" => /\ Head(queue).name \in DOMAIN ix
                        /\ ix[Head(queue).name] = {}

\* A key that enters a file is not yet in it, unless the file is torn.
LEMMA EntryOnce ==
  ASSUME TypeInv, ListInv, FileInv, Maintaining, queue # <<>>, NEW k \in Keys, NEW i \in Nat \ {0},
         Enters(Head(queue), k), ix' = WithEntry(Head(queue).name, k, i), UNCHANGED <<tid, torn>>
  PROVE  OnceIn(tid)'
<1> DEFINE d == Head(queue)
<1>1. d.name \in DOMAIN ix /\ (d.unique /\ d.name \notin torn => k \notin KeysIn(ix[d.name]))
  BY DEF Enters, Taken
<1>2. /\ DOMAIN ix' = DOMAIN ix /\ ix'[d.name] = ix[d.name] \cup {<<k, i>>}
      /\ \A m \in DOMAIN ix : m # d.name => ix'[m] = ix[m]
  BY <1>1, OtherEntries
<1>3. ASSUME NEW j \in DOMAIN tid, tid[j].unique, tid[j].name \in DOMAIN ix \ torn
      PROVE  KeyOnce(ix'[tid[j].name])
  <2>1. CASE tid[j].name # d.name
    BY <1>2, <1>3, <2>1 DEF FileInv, OnceIn
  <2>2. CASE tid[j].name = d.name
    <3>1. tid[j] = d
      <4>1. tid \in Seq(IndexDefs)
        BY DEF TypeInv, TypeOK
      <4>2. j \in 1..Len(tid)
        BY <4>1
      <4>3. QED
        BY <2>2, <4>2, HeadOfQueue
    <3>2. KeyOnce(ix[d.name]) /\ k \notin KeysIn(ix[d.name])
      BY <1>1, <1>3, <3>1 DEF FileInv, OnceIn
    <3>3. QED
      BY <1>2, <2>2, <3>2 DEF KeyOnce, KeysIn
  <2>3. QED
    BY <2>1, <2>2
<1>4. QED
  BY <1>2, <1>3 DEF OnceIn

\* Every step keeps the files of unique indexes free of repeated keys.
LEMMA FileStep == TypeInv /\ ListInv /\ FileInv /\ [Next]_vars => FileInv'
<1> SUFFICES ASSUME TypeInv, ListInv, FileInv, [Next]_vars PROVE FileInv'
  OBVIOUS
<1>a. tid \in Seq(IndexDefs) /\ queue \in Seq(IndexDefs)
  BY DEF TypeInv, TypeOK
<1>b. ASSUME UNCHANGED <<tid, ix>>, torn \subseteq torn', pc' \notin {"register", "relist"} PROVE FileInv'
  BY <1>b DEF FileInv, OnceIn
<1>c. ASSUME UNCHANGED <<pc, tid, queue, ix, torn>> PROVE FileInv'
  BY <1>c DEF FileInv, OnceIn
<1>d. ASSUME NEW n \in IndexNames, UNCHANGED tid, ix' = WithoutFile(n), torn' = torn \ {n},
             pc' \notin {"register", "relist"}
      PROVE  FileInv'
  BY <1>d DEF FileInv, OnceIn, WithoutFile
<1>e. ASSUME NEW n \in IndexNames, UNCHANGED <<tid, torn>>, ix' = WithFile(n) PROVE OnceIn(tid)'
  BY <1>e DEF FileInv, OnceIn, WithFile, KeyOnce
<1>f. ASSUME NEW n, Unlist(n), pc' = "relist" PROVE FileInv'
  <2>1. PICK p \in DOMAIN tid : queue' = Drop(tid, p)
    BY <1>f DEF Unlist
  <2>2. tid' = <<>> /\ UNCHANGED <<ix, torn>>
    BY <1>f DEF Unlist
  <2>3. ASSUME NEW i \in 1..Len(tid) - 1 PROVE \E j \in DOMAIN tid : queue'[i] = tid[j]
    <3>1. PICK j \in 1..Len(tid) : j = (IF i < p THEN i ELSE i + 1)
      BY <1>a
    <3>2. Drop(tid, p)[i] = tid[j]
      BY <1>a, <3>1, DropElements
    <3>3. QED
      BY <1>a, <2>1, <3>2
  <2>4. DOMAIN queue' = 1..Len(tid) - 1
    BY <1>a, <2>1, DropElements, DropType
  <2>5. OnceIn(queue)'
    BY <2>2, <2>3, <2>4 DEF FileInv, OnceIn
  <2>6. QED
    BY <1>f, <2>2, <2>5 DEF FileInv, OnceIn
<1>1. ASSUME NEW rows \in Sources, Insert(rows) PROVE FileInv'
  BY <1>1, <1>b DEF Insert, Begin, disk, locals
<1>2. ASSUME NEW w \in Predicates, NEW a \in Assignments, Update(w, a) PROVE FileInv'
  BY <1>2, <1>b DEF Update, Begin, disk, locals
<1>3. ASSUME NEW w \in Predicates, NEW a \in Assignments, UpdateAnswered(w, a) PROVE FileInv'
  BY <1>3, <1>c DEF UpdateAnswered, Answer, disk, locals
<1>4. ASSUME NEW w \in Predicates, Delete(w) PROVE FileInv'
  BY <1>4, <1>b DEF Delete, Begin, disk, locals
<1>5. ASSUME NEW w \in Predicates, DeleteAnswered(w) PROVE FileInv'
  BY <1>5, <1>c DEF DeleteAnswered, Answer, disk, locals
<1>6. ASSUME NEW d \in IndexDefs, CreateIndex(d) PROVE FileInv'
  <2>1. /\ UNCHANGED <<tid, torn>> /\ ix' = WithFile(d.name) /\ queue' = <<d>> /\ d.name \in IndexNames
        /\ pc' = "register"
    BY <1>6, NameType DEF CreateIndex, Begin
  <2>2. OnceIn(tid)'
    BY <1>e, <2>1
  <2>3. Head(queue').name = d.name /\ d.name \in DOMAIN ix' /\ ix'[d.name] = {}
    BY <2>1 DEF WithFile
  <2>4. QED
    BY <2>1, <2>2, <2>3 DEF FileInv
<1>7. ASSUME NEW d \in IndexDefs, CreateIndexAnswered(d) PROVE FileInv'
  BY <1>7, <1>c DEF CreateIndexAnswered, Answer, disk, locals
<1>8. ASSUME NEW n \in IndexNames, DropIndex(n) PROVE FileInv'
  BY <1>8, <1>f DEF DropIndex, Begin
<1>9. ASSUME NEW n \in IndexNames, DropIndexAnswered(n) PROVE FileInv'
  BY <1>9, <1>c DEF DropIndexAnswered, Answer, disk, locals
<1>10. CASE InsertDone
  BY <1>10, <1>b DEF InsertDone, End, Close, Forget, disk, locals
<1>11. CASE InsertRefused
  BY <1>11, <1>b DEF InsertRefused, End, Close, Forget, disk, locals
<1>12. CASE InsertAppend
  BY <1>12, <1>b DEF InsertAppend, Store, Goto, disk, locals
<1>13. CASE InsertCount
  BY <1>13, <1>b DEF InsertCount, Goto, disk, locals
<1>14. CASE InsertEntry
  <2> DEFINE k == Key(Head(queue), trd[Len(trd)])
  <2>1. /\ pc = "entry" /\ pc' = "entry" /\ queue # <<>> /\ Enters(Head(queue), k)
        /\ ix' = WithEntry(Head(queue).name, k, Len(trd)) /\ UNCHANGED <<tid, torn>>
    BY <1>14 DEF InsertEntry, Goto
  <2>2. k \in Keys /\ Len(trd) \in Nat \ {0}
    BY <1>a, <2>1, KeyType DEF TypeInv, TypeOK, Phases
  <2>3. OnceIn(tid)'
    BY <2>1, <2>2, EntryOnce DEF Maintaining
  <2>4. QED
    BY <2>1, <2>3 DEF FileInv
<1>15. CASE InsertEntryRefused
  BY <1>15, <1>b DEF InsertEntryRefused, Goto, disk, locals
<1>16. CASE InsertNext
  BY <1>16, <1>b DEF InsertNext, Goto, disk, locals
<1>17. CASE ScanKeeps
  BY <1>17, <1>b DEF ScanKeeps, Goto, disk, locals
<1>18. CASE ScanDrops
  BY <1>18, <1>b DEF ScanDrops, Goto, disk, locals
<1>19. CASE Scanned
  BY <1>19, <1>b DEF Scanned, Goto, disk, locals
<1>20. CASE Truncate
  BY <1>20, <1>b DEF Truncate, Goto, disk, locals
<1>21. CASE Write
  BY <1>21, <1>b DEF Write, WriteAndIndex, Goto, disk, locals
<1>22. CASE DeleteCount
  BY <1>22, <1>b DEF DeleteCount, CountDown, Goto, disk, locals
<1>23. CASE RebuildNext
  BY <1>23, <1>d, NameType DEF RebuildNext, Goto, disk, locals, TypeInv, TypeOK, Phases
<1>24. CASE RebuildCreate
  <2>1. UNCHANGED <<tid, torn>> /\ ix' = WithFile(Head(queue).name) /\ pc' = "fill" /\ Head(queue) \in IndexDefs
    BY <1>24, <1>a DEF RebuildCreate, RebuildFrom, Goto, TypeInv, Phases
  <2>2. QED
    BY <1>e, <2>1, NameType DEF FileInv
<1>25. CASE RebuildEntry
  <2> DEFINE k == Key(Head(queue), trd[cur + 1])
  <2>1. /\ pc = "fill" /\ pc' = "fill" /\ queue # <<>> /\ Enters(Head(queue), k) /\ cur < Len(trd)
        /\ ix' = WithEntry(Head(queue).name, k, cur + 1) /\ UNCHANGED <<tid, torn>>
    BY <1>25 DEF RebuildEntry, Goto, TypeInv, Phases
  <2>2. k \in Keys /\ cur + 1 \in Nat \ {0}
    BY <1>a, <2>1, KeyType DEF TypeInv, TypeOK
  <2>3. OnceIn(tid)'
    BY <2>1, <2>2, EntryOnce DEF Maintaining
  <2>4. QED
    BY <2>1, <2>3 DEF FileInv
<1>26. CASE RebuildFilled
  BY <1>26, <1>b DEF RebuildFilled, RebuildContinue, Goto, disk, locals
<1>27. CASE RebuildRefused
  BY <1>27, <1>b DEF RebuildRefused, Goto, End, Close, Forget, disk, locals
<1>28. CASE RebuildDone
  BY <1>28, <1>b DEF RebuildDone, End, Close, Forget, disk, locals
<1>29. CASE Register
  <2>1. /\ tid' = Append(tid, Head(queue)) /\ UNCHANGED <<ix, torn>> /\ pc = "register" /\ pc' = "rebuild"
    BY <1>29 DEF Register, Goto
  <2>2. /\ Len(tid') = Len(tid) + 1 /\ tid'[Len(tid) + 1] = Head(queue)
        /\ \A i \in 1..Len(tid) : tid'[i] = tid[i]
        /\ DOMAIN tid' = 1..Len(tid) + 1
    BY <1>a, <2>1
  <2>3. KeyOnce(ix[Head(queue).name])
    BY <2>1 DEF FileInv, KeyOnce
  <2>4. QED
    BY <1>a, <2>1, <2>2, <2>3 DEF FileInv, OnceIn
<1>30. CASE CreateIndexUndo
  BY <1>30, <1>f DEF CreateIndexUndo, Goto
<1>31. CASE Relist
  <2>1. /\ tid' = Append(tid, Head(queue)) /\ UNCHANGED <<ix, torn>> /\ pc = "relist" /\ pc' = "relist"
        /\ queue # <<>> /\ queue' = Tail(queue)
    BY <1>31 DEF Relist, Goto
  <2>2. /\ Len(tid') = Len(tid) + 1 /\ tid'[Len(tid) + 1] = queue[1]
        /\ \A i \in 1..Len(tid) : tid'[i] = tid[i]
        /\ DOMAIN tid' = 1..Len(tid) + 1
    BY <1>a, <2>1
  <2>3. /\ DOMAIN queue' = 1..Len(queue) - 1 /\ Len(queue) > 0 /\ Len(queue) \in Nat
        /\ \A i \in 1..Len(queue) - 1 : queue'[i] = queue[i + 1]
    BY <1>a, <2>1
  <2>4. OnceIn(tid)' /\ OnceIn(queue)'
    BY <1>a, <2>1, <2>2, <2>3 DEF FileInv, OnceIn
  <2>5. QED
    BY <2>1, <2>4 DEF FileInv
<1>32. CASE Relisted
  BY <1>32, <1>b DEF Relisted, Goto, disk, locals
<1>33. CASE Unlink
  BY <1>33, <1>d, NameType DEF Unlink, UnlinkLeaving, End, Close, Forget, disk, locals, TypeInv, TypeOK
<1>34. CASE Crash
  BY <1>34, <1>b DEF Crash, Forget, disk, locals
<1>35. CASE UNCHANGED vars
  BY <1>35, <1>c DEF vars, disk, locals
<1>36. QED
  BY <1>1, <1>2, <1>3, <1>4, <1>5, <1>6, <1>7, <1>8, <1>9, <1>10, <1>11, <1>12, <1>13, <1>14, <1>15, <1>16, <1>17, <1>18, <1>19, <1>20, <1>21, <1>22, <1>23, <1>24, <1>25, <1>26, <1>27, <1>28, <1>29, <1>30, <1>31, <1>32, <1>33, <1>34, <1>35 DEF Next, Start, Step

\* No statement ever puts a key twice into the file of a registered unique
\* index, whatever crashes came before, unless one of them cut that file
\* between two page writes and no rebuild has replaced it.
THEOREM UniqueFileCorrect == Spec => []UniqueFile
<1>1. Init => ListInv /\ FileInv
  BY DEF Init, ListInv, FileInv, OnceIn, NamesDistinct, Maintaining
<1>2. FileInv => UniqueFile
  BY DEF FileInv, OnceIn, KeyOnce, UniqueFile
<1>3. QED
  BY TypeInit, TypeStep, ListStep, FileStep, <1>1, <1>2, PTL DEF Spec

-----------------------------------------------------------------------------
(***************************************************************************)
(* Rebuilding.  The definitions a rebuild has dealt with agree with the    *)
(* record file, the file it is filling holds the records behind cur.       *)
(* CREATE INDEX builds one index only and leaves the others as they are.   *)
(***************************************************************************)
EntriesUpTo(d, n) == {<<Key(d, trd[i]), i>> : i \in 1..n}

Rebuilding == pc \in {"rebuild", "create", "fill"}

Filling ==
  /\ cur <= Len(trd)
  /\ Head(queue).name \in DOMAIN ix \ torn
  /\ ix[Head(queue).name] = EntriesUpTo(Head(queue), cur)

HealInv ==
  /\ Rebuilding /\ kind # "createIndex" => \A k \in 1..Done : Agrees(tid[k])
  /\ pc = "create" => Head(queue).name \notin torn
  /\ pc = "fill" => Filling
  /\ pc = "register" => kind = "createIndex"
  /\ pc = "count" => queue = tid

\* A definition agrees with the file when it holds an entry for every record.
LEMMA AgreesUpTo ==
  ASSUME TypeInv, NEW d
  PROVE  Agrees(d) <=> d.name \in DOMAIN ix \ torn /\ ix[d.name] = EntriesUpTo(d, Len(trd))
<1>1. DOMAIN trd = 1..Len(trd)
  BY DEF TypeInv, TypeOK
<1>2. QED
  BY <1>1 DEF Agrees, EntriesOf, EntriesUpTo

\* One more record is one more entry.
LEMMA EntriesGrow ==
  ASSUME NEW d, NEW n \in Nat
  PROVE  /\ EntriesUpTo(d, n + 1) = EntriesUpTo(d, n) \cup {<<Key(d, trd[n + 1]), n + 1>>}
         /\ EntriesUpTo(d, 0) = {}
<1>1. 1..n + 1 = (1..n) \cup {n + 1} /\ 1..0 = {}
  OBVIOUS
<1>2. QED
  BY <1>1 DEF EntriesUpTo

\* Work on the file at the head of the queue leaves the finished ones in agreement.
LEMMA FinishedKept ==
  ASSUME TypeInv, ListInv, Maintaining, queue # <<>>, UNCHANGED <<trd, tid>>, torn' \subseteq torn,
         \A m \in DOMAIN ix : m # Head(queue).name => m \in DOMAIN ix' /\ ix'[m] = ix[m],
         NEW k \in 1..Done, Agrees(tid[k])
  PROVE  Agrees(tid[k])'
<1>1. k \in 1..Len(tid) /\ k # Done + 1
  BY HeadOfQueue
<1>2. tid[k].name # Head(queue).name
  BY <1>1, HeadOfQueue
<1>3. QED
  BY <1>2 DEF Agrees

\* Every step of a rebuild adds to what agrees.
LEMMA HealStep == TypeInv /\ ListInv /\ HealInv /\ [Next]_vars => HealInv'
<1> SUFFICES ASSUME TypeInv, ListInv, HealInv, [Next]_vars PROVE HealInv'
  OBVIOUS
<1>a. tid \in Seq(IndexDefs) /\ queue \in Seq(IndexDefs) /\ trd \in Seq(Row) /\ cur \in Nat
  BY DEF TypeInv, TypeOK
<1>b. ASSUME ~ Rebuilding', pc' \notin {"register", "count"} PROVE HealInv'
  BY <1>b DEF HealInv, Rebuilding
<1>c. ASSUME UNCHANGED <<pc, kind, tid, queue, trd, cur, ix, torn>> PROVE HealInv'
  BY <1>c DEF HealInv, Rebuilding, Filling, Done, Agrees, EntriesUpTo
<1>d. ASSUME UNCHANGED tid, queue' = tid, pc' = "rebuild" PROVE HealInv'
  <2>1. Done' = 0
    BY <1>a, <1>d DEF Done
  <2>2. QED
    BY <1>d, <2>1 DEF HealInv, Rebuilding
<1>1. ASSUME NEW rows \in Sources, Insert(rows) PROVE HealInv'
  BY <1>1, <1>b DEF Insert, Begin, Rebuilding, disk, locals
<1>2. ASSUME NEW w \in Predicates, NEW a \in Assignments, Update(w, a) PROVE HealInv'
  BY <1>2, <1>b DEF Update, Begin, Rebuilding, disk, locals
<1>3. ASSUME NEW w \in Predicates, NEW a \in Assignments, UpdateAnswered(w, a) PROVE HealInv'
  <2>1. pc = "idle" /\ pc' = "idle"
    BY <1>3 DEF UpdateAnswered, Answer
  <2>2. QED
    BY <1>b, <2>1 DEF Rebuilding
<1>4. ASSUME NEW w \in Predicates, Delete(w) PROVE HealInv'
  BY <1>4, <1>b DEF Delete, Begin, Rebuilding, disk, locals
<1>5. ASSUME NEW w \in Predicates, DeleteAnswered(w) PROVE HealInv'
  <2>1. pc = "idle" /\ pc' = "idle"
    BY <1>5 DEF DeleteAnswered, Answer
  <2>2. QED
    BY <1>b, <2>1 DEF Rebuilding
<1>6. ASSUME NEW d \in IndexDefs, CreateIndex(d) PROVE HealInv'
  BY <1>6 DEF CreateIndex, Begin, HealInv, Rebuilding
<1>7. ASSUME NEW d \in IndexDefs, CreateIndexAnswered(d) PROVE HealInv'
  <2>1. pc = "idle" /\ pc' = "idle"
    BY <1>7 DEF CreateIndexAnswered, Answer
  <2>2. QED
    BY <1>b, <2>1 DEF Rebuilding
<1>8. ASSUME NEW n \in IndexNames, DropIndex(n) PROVE HealInv'
  BY <1>8, <1>b DEF DropIndex, Begin, Unlist, Rebuilding, disk, locals
<1>9. ASSUME NEW n \in IndexNames, DropIndexAnswered(n) PROVE HealInv'
  <2>1. pc = "idle" /\ pc' = "idle"
    BY <1>9 DEF DropIndexAnswered, Answer
  <2>2. QED
    BY <1>b, <2>1 DEF Rebuilding
<1>10. CASE InsertDone
  BY <1>10, <1>b DEF InsertDone, End, Close, Forget, Rebuilding, disk, locals
<1>11. CASE InsertRefused
  BY <1>11, <1>b DEF InsertRefused, End, Close, Forget, Rebuilding, disk, locals
<1>12. CASE InsertAppend
  BY <1>12, <1>b DEF InsertAppend, Store, Goto, Rebuilding, disk, locals
<1>13. CASE InsertCount
  BY <1>13, <1>b DEF InsertCount, Goto, Rebuilding, disk, locals
<1>14. CASE InsertEntry
  BY <1>14, <1>b DEF InsertEntry, Goto, Rebuilding, disk, locals
<1>15. CASE InsertEntryRefused
  BY <1>15, <1>d DEF InsertEntryRefused, Goto, disk
<1>16. CASE InsertNext
  BY <1>16, <1>b DEF InsertNext, Goto, Rebuilding, disk, locals
<1>17. CASE ScanKeeps
  BY <1>17, <1>b DEF ScanKeeps, Goto, Rebuilding, disk, locals
<1>18. CASE ScanDrops
  BY <1>18, <1>b DEF ScanDrops, Goto, Rebuilding, disk, locals
<1>19. CASE Scanned
  BY <1>19, <1>b DEF Scanned, Goto, Rebuilding, disk, locals
<1>20. CASE Truncate
  BY <1>20, <1>b DEF Truncate, Goto, Rebuilding, disk, locals
<1>21. CASE Write
  <2>1. UNCHANGED tid /\ queue' = tid /\ pc' \in {"count", "rebuild"}
    BY <1>21 DEF Write, WriteAndIndex, Goto
  <2>2. QED
    BY <2>1, <1>d DEF Rebuilding, HealInv
<1>22. CASE DeleteCount
  <2>1. /\ UNCHANGED <<kind, tid, queue>> /\ pc' = "rebuild" /\ pc = "count"
    BY <1>22 DEF DeleteCount, CountDown, Goto, locals
  <2>2. queue = tid
    BY <2>1 DEF HealInv
  <2>3. QED
    BY <1>d, <2>1, <2>2
<1>23. CASE RebuildNext
  <2>1. /\ pc = "rebuild" /\ pc' = "create" /\ queue # <<>> /\ ix' = WithoutFile(Head(queue).name)
        /\ torn' = torn \ {Head(queue).name} /\ UNCHANGED <<kind, trd, tid, queue>>
    BY <1>23 DEF RebuildNext, Goto, locals
  <2>2. Head(queue).name \in IndexNames
    BY <1>a, <2>1, NameType
  <2>3. \A m \in DOMAIN ix : m # Head(queue).name => m \in DOMAIN ix' /\ ix'[m] = ix[m]
    BY <2>1, <2>2, OtherFiles
  <2>4. QED
    BY <2>1, <2>3, FinishedKept DEF HealInv, Rebuilding, Maintaining, Done
<1>24. CASE RebuildCreate
  <2>1. /\ pc = "create" /\ pc' = "fill" /\ queue # <<>> /\ ix' = WithFile(Head(queue).name)
        /\ cur' = 0 /\ UNCHANGED <<kind, trd, tid, queue, torn>>
    BY <1>24 DEF RebuildCreate, RebuildFrom, Goto, TypeInv, Phases
  <2>2. Head(queue).name \in IndexNames
    BY <1>a, <2>1, NameType
  <2>3. \A m \in DOMAIN ix : m # Head(queue).name => m \in DOMAIN ix' /\ ix'[m] = ix[m]
    BY <2>1, <2>2, OtherFiles
  <2>4. Filling'
    BY <1>a, <2>1 DEF HealInv, Filling, WithFile, EntriesUpTo
  <2>5. QED
    BY <2>1, <2>3, <2>4, FinishedKept DEF HealInv, Rebuilding, Maintaining, Done
<1>25. CASE RebuildEntry
  <2> DEFINE d == Head(queue)
  <2>1. /\ pc = "fill" /\ pc' = "fill" /\ queue # <<>> /\ cur < Len(trd) /\ cur' = cur + 1
        /\ ix' = WithEntry(d.name, Key(d, trd[cur + 1]), cur + 1) /\ UNCHANGED <<kind, trd, tid, queue, torn>>
    BY <1>25 DEF RebuildEntry, Goto, TypeInv, Phases
  <2>2. d.name \in DOMAIN ix \ torn /\ ix[d.name] = EntriesUpTo(d, cur)
    BY <2>1 DEF HealInv, Filling
  <2>3. /\ DOMAIN ix' = DOMAIN ix
        /\ ix'[d.name] = ix[d.name] \cup {<<Key(d, trd[cur + 1]), cur + 1>>}
        /\ \A m \in DOMAIN ix : m # d.name => ix'[m] = ix[m]
    BY <2>1, <2>2, OtherEntries
  <2>4. ix'[d.name] = EntriesUpTo(d, cur + 1)
    BY <1>a, <2>2, <2>3, EntriesGrow
  <2>5. Filling'
    BY <1>a, <2>1, <2>2, <2>3, <2>4 DEF Filling, EntriesUpTo
  <2>6. QED
    BY <2>1, <2>3, <2>5, FinishedKept DEF HealInv, Rebuilding, Maintaining, Done
<1>26. CASE RebuildFilled
  <2>1. /\ pc = "fill" /\ pc' = "rebuild" /\ queue # <<>> /\ cur = Len(trd) /\ queue' = Tail(queue)
        /\ UNCHANGED <<kind, trd, tid, ix, torn>>
    BY <1>26 DEF RebuildFilled, RebuildContinue, Goto, TypeInv, Phases, disk
  <2>2. Agrees(Head(queue))
    BY <2>1, AgreesUpTo DEF HealInv, Filling
  <2>3. Done' = Done + 1 /\ Done \in Nat /\ Head(queue) = tid[Done + 1]
    BY <1>a, <2>1, HeadOfQueue DEF Maintaining, Done
  <2>4. kind # "createIndex" => \A k \in 1..Done + 1 : Agrees(tid[k])
    BY <2>1, <2>2, <2>3 DEF HealInv, Rebuilding
  <2>5. kind # "createIndex" => \A k \in 1..Done' : Agrees(tid[k])'
    BY <2>1, <2>3, <2>4 DEF Agrees
  <2>6. QED
    BY <2>1, <2>5 DEF HealInv
<1>27. CASE RebuildRefused
  <2>1. pc' \in {"undo", "idle"}
    BY <1>27 DEF RebuildRefused, Goto, End, Close
  <2>2. QED
    BY <2>1, <1>b DEF Rebuilding
<1>28. CASE RebuildDone
  BY <1>28, <1>b DEF RebuildDone, End, Close, Forget, Rebuilding, disk, locals
<1>29. CASE Register
  <2>1. kind = "createIndex" /\ UNCHANGED kind /\ pc' = "rebuild"
    BY <1>29 DEF Register, Goto, HealInv
  <2>2. QED
    BY <2>1 DEF HealInv
<1>30. CASE CreateIndexUndo
  BY <1>30, <1>b DEF CreateIndexUndo, Unlist, Goto, Rebuilding, disk, locals
<1>31. CASE Relist
  BY <1>31, <1>b DEF Relist, Goto, Rebuilding, disk, locals
<1>32. CASE Relisted
  BY <1>32, <1>b DEF Relisted, Goto, Rebuilding, disk, locals
<1>33. CASE Unlink
  BY <1>33, <1>b DEF Unlink, UnlinkLeaving, End, Close, Forget, Rebuilding, disk, locals
<1>34. CASE Crash
  BY <1>34, <1>b DEF Crash, Forget, Rebuilding, disk, locals
<1>35. CASE UNCHANGED vars
  BY <1>35, <1>c DEF vars, disk, locals
<1>36. QED
  BY <1>1, <1>2, <1>3, <1>4, <1>5, <1>6, <1>7, <1>8, <1>9, <1>10, <1>11, <1>12, <1>13, <1>14, <1>15, <1>16, <1>17, <1>18, <1>19, <1>20, <1>21, <1>22, <1>23, <1>24, <1>25, <1>26, <1>27, <1>28, <1>29, <1>30, <1>31, <1>32, <1>33, <1>34, <1>35 DEF Next, Start, Step

\* A rebuild that runs to its end leaves every index of the table in agreement
\* with the record file, whatever crashes had left there.
THEOREM RebuildHealsCorrect == Spec => []RebuildHeals
<1>1. Init => ListInv /\ HealInv
  BY DEF Init, ListInv, HealInv, NamesDistinct, Maintaining, Rebuilding
<1>2. TypeInv /\ HealInv => RebuildHeals
  <2> SUFFICES ASSUME TypeInv, HealInv, pc = "rebuild", queue = <<>>, kind # "createIndex",
                      NEW k \in DOMAIN tid
               PROVE  Agrees(tid[k])
    BY DEF RebuildHeals
  <2>1. k \in 1..Done
    BY DEF Done, TypeInv, TypeOK
  <2>2. QED
    BY <2>1 DEF HealInv, Rebuilding
<1>3. QED
  BY TypeInit, TypeStep, ListStep, HealStep, <1>1, <1>2, PTL DEF Spec

-----------------------------------------------------------------------------
(***************************************************************************)
(* A server that has not crashed: which files exist, what they hold, and   *)
(* that the executors implement Table; and, at the end, which rows a crash *)
(* can cost.                                                               *)
(***************************************************************************)

(***************************************************************************)
(* Which executor can stand at which point.                                *)
(***************************************************************************)
KindAt ==
  /\ pc \in {"row", "meta", "entry"} => kind = "insert"
  /\ pc \in {"scan", "count"} => kind = "delete"
  /\ pc \in {"truncate", "write"} => kind \in {"update", "delete"}
  /\ Rebuilding => kind # "dropIndex"
  /\ pc \in {"register", "undo"} => kind = "createIndex"
  /\ pc \in {"relist", "unlink"} => kind \in {"createIndex", "dropIndex"}

\* Every step stays in the code of its executor.
LEMMA KindStep == TypeInv /\ KindAt /\ [Next]_vars => KindAt'
<1> SUFFICES ASSUME TypeInv, KindAt, [Next]_vars PROVE KindAt'
  OBVIOUS
<1> USE DEF KindAt, Rebuilding, vars, disk, locals, history
<1>a. kind \in Kinds
  BY DEF TypeInv, TypeOK
<1>1. ASSUME NEW rows \in Sources, Insert(rows) PROVE KindAt'
  BY <1>1 DEF Insert, Begin
<1>2. ASSUME NEW w \in Predicates, NEW a \in Assignments, Update(w, a) PROVE KindAt'
  BY <1>2 DEF Update, Begin
<1>3. ASSUME NEW w \in Predicates, NEW a \in Assignments, UpdateAnswered(w, a) PROVE KindAt'
  BY <1>3 DEF UpdateAnswered, Answer
<1>4. ASSUME NEW w \in Predicates, Delete(w) PROVE KindAt'
  BY <1>4 DEF Delete, Begin
<1>5. ASSUME NEW w \in Predicates, DeleteAnswered(w) PROVE KindAt'
  BY <1>5 DEF DeleteAnswered, Answer
<1>6. ASSUME NEW d \in IndexDefs, CreateIndex(d) PROVE KindAt'
  BY <1>6 DEF CreateIndex, Begin, WithFile
<1>7. ASSUME NEW d \in IndexDefs, CreateIndexAnswered(d) PROVE KindAt'
  BY <1>7 DEF CreateIndexAnswered, Answer
<1>8. ASSUME NEW n \in IndexNames, DropIndex(n) PROVE KindAt'
  BY <1>8 DEF DropIndex, Begin, Unlist
<1>9. ASSUME NEW n \in IndexNames, DropIndexAnswered(n) PROVE KindAt'
  BY <1>9 DEF DropIndexAnswered, Answer
<1>10. CASE InsertDone
  BY <1>10 DEF InsertDone, End, Close, Forget
<1>11. CASE InsertRefused
  BY <1>11 DEF InsertRefused, End, Close, Forget
<1>12. CASE InsertAppend
  BY <1>12 DEF InsertAppend, Store, Goto
<1>13. CASE InsertCount
  BY <1>13 DEF InsertCount, Goto
<1>14. CASE InsertEntry
  BY <1>14 DEF InsertEntry, Goto
<1>15. CASE InsertEntryRefused
  BY <1>15 DEF InsertEntryRefused, Goto
<1>16. CASE InsertNext
  BY <1>16 DEF InsertNext, Goto
<1>17. CASE ScanKeeps
  BY <1>17 DEF ScanKeeps, Goto
<1>18. CASE ScanDrops
  BY <1>18 DEF ScanDrops, Goto
<1>19. CASE Scanned
  BY <1>19 DEF Scanned, Goto
<1>20. CASE Truncate
  BY <1>20 DEF Truncate, Goto
<1>21. CASE Write
  BY <1>21, <1>a DEF Write, WriteAndIndex, Goto, Kinds
<1>22. CASE DeleteCount
  BY <1>22 DEF DeleteCount, CountDown, Goto
<1>23. CASE RebuildNext
  BY <1>23 DEF RebuildNext, Goto
<1>24. CASE RebuildCreate
  BY <1>24 DEF RebuildCreate, RebuildFrom, Goto
<1>25. CASE RebuildEntry
  BY <1>25 DEF RebuildEntry, Goto
<1>26. CASE RebuildFilled
  BY <1>26 DEF RebuildFilled, RebuildContinue, Goto
<1>27. CASE RebuildRefused
  BY <1>27 DEF RebuildRefused, Goto, End, Close, Forget
<1>28. CASE RebuildDone
  BY <1>28 DEF RebuildDone, End, Close, Forget
<1>29. CASE Register
  BY <1>29 DEF Register, Goto
<1>30. CASE CreateIndexUndo
  BY <1>30 DEF CreateIndexUndo, Unlist, Goto
<1>31. CASE Relist
  BY <1>31 DEF Relist, Goto
<1>32. CASE Relisted
  BY <1>32 DEF Relisted, Goto
<1>33. CASE Unlink
  BY <1>33 DEF Unlink, UnlinkLeaving, End, Close, Forget
<1>34. CASE Crash
  BY <1>34 DEF Crash, Forget
<1>35. CASE UNCHANGED vars
  BY <1>35
<1>36. QED
  BY <1>1, <1>2, <1>3, <1>4, <1>5, <1>6, <1>7, <1>8, <1>9, <1>10, <1>11, <1>12, <1>13, <1>14, <1>15, <1>16, <1>17, <1>18, <1>19, <1>20, <1>21, <1>22, <1>23, <1>24, <1>25, <1>26, <1>27, <1>28, <1>29, <1>30, <1>31, <1>32, <1>33, <1>34, <1>35 DEF Next, Start, Step

-----------------------------------------------------------------------------
(***************************************************************************)
(* The index files that exist are those .tid lists, but for the one a      *)
(* CREATE INDEX has made and not registered, the one a rebuild has deleted *)
(* and not made again, and those DROP INDEX has taken out of .tid.         *)
(***************************************************************************)
FileNames ==
  crashes = 0 =>
    /\ pc \notin {"create", "register", "relist", "unlink"} => DOMAIN ix = NamesIn(tid)
    /\ pc = "create" => DOMAIN ix = NamesIn(tid) \ {Head(queue).name}
    /\ pc = "register" => DOMAIN ix = NamesIn(tid) \cup {Head(queue).name}
    /\ pc = "relist" => /\ DOMAIN ix = NamesIn(tid) \cup NamesIn(queue) \cup {target}
                        /\ target \notin NamesIn(tid) \cup NamesIn(queue)
    /\ pc = "unlink" => /\ DOMAIN ix = NamesIn(tid) \cup {target}
                        /\ target \notin NamesIn(tid)

\* Every step accounts for the files it makes and deletes.
LEMMA FileNamesStep == TypeInv /\ ListInv /\ FileNames /\ [Next]_vars => FileNames'
<1> SUFFICES ASSUME TypeInv, ListInv, FileNames, [Next]_vars, crashes' = 0 PROVE FileNames'
  BY DEF FileNames
<1>a. tid \in Seq(IndexDefs) /\ queue \in Seq(IndexDefs)
  BY DEF TypeInv, TypeOK
<1>b. ASSUME UNCHANGED <<tid, ix, crashes>>, pc \notin {"create", "register", "relist", "unlink"},
             pc' \notin {"create", "register", "relist", "unlink"}
      PROVE  FileNames'
  BY <1>b DEF FileNames, NamesIn
<1>c. ASSUME UNCHANGED <<pc, tid, queue, ix, target, crashes>> PROVE FileNames'
  BY <1>c DEF FileNames, NamesIn
<1>f. ASSUME NEW n, Unlist(n), pc \in {"idle", "undo"}, pc' = "relist", UNCHANGED crashes
      PROVE  FileNames'
  <2>1. PICK p \in DOMAIN tid : tid[p].name = n /\ queue' = Drop(tid, p)
    BY <1>f DEF Unlist
  <2>2. tid' = <<>> /\ UNCHANGED ix /\ target' = n
    BY <1>f DEF Unlist
  <2>3. NamesIn(queue') = NamesIn(tid) \ {n}
    BY <1>a, <2>1, DropNames DEF ListInv
  <2>4. n \in NamesIn(tid) /\ DOMAIN ix = NamesIn(tid)
    BY <1>f, <2>1 DEF FileNames, NamesIn
  <2>5. NamesIn(tid)' = {}
    BY <2>2 DEF NamesIn
  <2>6. NamesIn(queue)' = NamesIn(tid) \ {n}
    BY <2>3 DEF NamesIn
  <2>7. QED
    BY <1>f, <2>2, <2>4, <2>5, <2>6 DEF FileNames
<1>1. ASSUME NEW rows \in Sources, Insert(rows) PROVE FileNames'
  BY <1>1, <1>b DEF Insert, Begin, disk, locals, history
<1>2. ASSUME NEW w \in Predicates, NEW a \in Assignments, Update(w, a) PROVE FileNames'
  BY <1>2, <1>b DEF Update, Begin, disk, locals, history
<1>3. ASSUME NEW w \in Predicates, NEW a \in Assignments, UpdateAnswered(w, a) PROVE FileNames'
  BY <1>3, <1>c DEF UpdateAnswered, Answer, disk, locals, history
<1>4. ASSUME NEW w \in Predicates, Delete(w) PROVE FileNames'
  BY <1>4, <1>b DEF Delete, Begin, disk, locals, history
<1>5. ASSUME NEW w \in Predicates, DeleteAnswered(w) PROVE FileNames'
  BY <1>5, <1>c DEF DeleteAnswered, Answer, disk, locals, history
<1>6. ASSUME NEW d \in IndexDefs, CreateIndex(d) PROVE FileNames'
  <2>1. /\ UNCHANGED <<tid, crashes>> /\ ix' = WithFile(d.name) /\ queue' = <<d>> /\ pc = "idle"
        /\ pc' = "register"
    BY <1>6 DEF CreateIndex, Begin
  <2>2. QED
    BY <2>1 DEF FileNames, NamesIn, WithFile
<1>7. ASSUME NEW d \in IndexDefs, CreateIndexAnswered(d) PROVE FileNames'
  BY <1>7, <1>c DEF CreateIndexAnswered, Answer, disk, locals, history
<1>8. ASSUME NEW n \in IndexNames, DropIndex(n) PROVE FileNames'
  BY <1>8, <1>f DEF DropIndex, Begin
<1>9. ASSUME NEW n \in IndexNames, DropIndexAnswered(n) PROVE FileNames'
  BY <1>9, <1>c DEF DropIndexAnswered, Answer, disk, locals, history
<1>10. CASE InsertDone
  BY <1>10, <1>b DEF InsertDone, End, Close, Forget, disk, locals, history
<1>11. CASE InsertRefused
  BY <1>11, <1>b DEF InsertRefused, End, Close, Forget, disk, locals, history
<1>12. CASE InsertAppend
  BY <1>12, <1>b DEF InsertAppend, Store, Goto, disk, locals, history
<1>13. CASE InsertCount
  BY <1>13, <1>b DEF InsertCount, Goto, disk, locals, history
<1>14. CASE InsertEntry
  <2>1. /\ UNCHANGED <<pc, tid, crashes>> /\ pc = "entry" /\ DOMAIN ix' = DOMAIN ix
    BY <1>14 DEF InsertEntry, Goto, WithEntry, history
  <2>2. QED
    BY <2>1 DEF FileNames, NamesIn
<1>15. CASE InsertEntryRefused
  BY <1>15, <1>b DEF InsertEntryRefused, Goto, disk, locals, history
<1>16. CASE InsertNext
  BY <1>16, <1>b DEF InsertNext, Goto, disk, locals, history
<1>17. CASE ScanKeeps
  BY <1>17, <1>b DEF ScanKeeps, Goto, disk, locals, history
<1>18. CASE ScanDrops
  BY <1>18, <1>b DEF ScanDrops, Goto, disk, locals, history
<1>19. CASE Scanned
  BY <1>19, <1>b DEF Scanned, Goto, disk, locals, history
<1>20. CASE Truncate
  BY <1>20, <1>b DEF Truncate, Goto, disk, locals, history
<1>21. CASE Write
  <2>1. UNCHANGED <<tid, ix, crashes>> /\ pc = "write" /\ pc' \in {"count", "rebuild"}
    BY <1>21 DEF Write, WriteAndIndex, Goto, history
  <2>2. QED
    BY <2>1, <1>b
<1>22. CASE DeleteCount
  BY <1>22, <1>b DEF DeleteCount, CountDown, Goto, disk, locals, history
<1>23. CASE RebuildNext
  <2>1. /\ pc = "rebuild" /\ pc' = "create" /\ ix' = WithoutFile(Head(queue).name)
        /\ UNCHANGED <<tid, queue, crashes>>
    BY <1>23 DEF RebuildNext, Goto, locals, history
  <2>2. QED
    BY <2>1 DEF FileNames, NamesIn, WithoutFile
<1>24. CASE RebuildCreate
  <2>1. /\ pc = "create" /\ pc' = "fill" /\ queue # <<>> /\ ix' = WithFile(Head(queue).name)
        /\ UNCHANGED <<tid, crashes>>
    BY <1>24 DEF RebuildCreate, RebuildFrom, Goto, TypeInv, Phases, history
  <2>2. Head(queue).name \in NamesIn(tid)
    BY <1>a, <2>1, HeadOfQueue DEF Maintaining, NamesIn
  <2>3. QED
    BY <2>1, <2>2 DEF FileNames, NamesIn, WithFile
<1>25. CASE RebuildEntry
  <2>1. /\ UNCHANGED <<pc, tid, crashes>> /\ pc = "fill" /\ DOMAIN ix' = DOMAIN ix
    BY <1>25 DEF RebuildEntry, Goto, WithEntry, history
  <2>2. QED
    BY <2>1 DEF FileNames, NamesIn
<1>26. CASE RebuildFilled
  BY <1>26, <1>b DEF RebuildFilled, RebuildContinue, Goto, disk, locals, history
<1>27. CASE RebuildRefused
  <2>1. UNCHANGED <<tid, ix, crashes>> /\ pc = "fill" /\ pc' \in {"undo", "idle"}
    BY <1>27 DEF RebuildRefused, Goto, End, Close, disk, history
  <2>2. QED
    BY <2>1, <1>b
<1>28. CASE RebuildDone
  BY <1>28, <1>b DEF RebuildDone, End, Close, Forget, disk, locals, history
<1>29. CASE Register
  <2>1. /\ tid' = Append(tid, Head(queue)) /\ UNCHANGED <<ix, crashes>> /\ pc = "register"
        /\ pc' = "rebuild"
    BY <1>29 DEF Register, Goto, history
  <2>2. Len(queue) = 1 /\ Head(queue).name \notin NamesIn(tid)
    BY <2>1 DEF ListInv, NewName
  <2>3. Head(queue) \in IndexDefs
    BY <1>a, <2>2
  <2>4. NamesIn(tid') = NamesIn(tid) \cup {Head(queue).name}
    BY <1>a, <2>1, <2>2, <2>3, AppendNames DEF ListInv
  <2>5. QED
    BY <2>1, <2>4 DEF FileNames, NamesIn
<1>30. CASE CreateIndexUndo
  BY <1>30, <1>f DEF CreateIndexUndo, Goto, history
<1>31. CASE Relist
  <2>1. /\ tid' = Append(tid, Head(queue)) /\ UNCHANGED <<ix, target, crashes>> /\ pc = "relist"
        /\ pc' = "relist" /\ queue # <<>> /\ queue' = Tail(queue)
    BY <1>31 DEF Relist, Goto, history
  <2>2. Head(queue) \in IndexDefs /\ Head(queue).name \notin NamesIn(tid)
    BY <1>a, <2>1, TailNames DEF ListInv, Apart
  <2>3. /\ NamesIn(tid') = NamesIn(tid) \cup {Head(queue).name}
        /\ NamesIn(queue') = NamesIn(queue) \ {Head(queue).name}
        /\ Head(queue).name \in NamesIn(queue)
    BY <1>a, <2>1, <2>2, AppendNames, TailNames DEF ListInv, Apart
  <2>4. NamesIn(tid)' = NamesIn(tid') /\ NamesIn(queue)' = NamesIn(queue')
    BY DEF NamesIn
  <2>5. QED
    BY <2>1, <2>3, <2>4 DEF FileNames
<1>32. CASE Relisted
  <2>1. /\ pc = "relist" /\ queue = <<>> /\ pc' = "unlink" /\ UNCHANGED <<tid, ix, target, crashes>>
    BY <1>32 DEF Relisted, Goto, disk, locals, history
  <2>2. NamesIn(queue) = {}
    BY <2>1 DEF NamesIn
  <2>3. QED
    BY <2>1, <2>2 DEF FileNames, NamesIn
<1>33. CASE Unlink
  <2>1. /\ pc = "unlink" /\ pc' = "idle" /\ ix' = WithoutFile(target) /\ UNCHANGED <<tid, crashes>>
    BY <1>33 DEF Unlink, UnlinkLeaving, End, Close, history
  <2>2. QED
    BY <2>1 DEF FileNames, NamesIn, WithoutFile
<1>34. CASE Crash
  BY <1>34 DEF Crash, TypeInv, TypeOK
<1>35. CASE UNCHANGED vars
  BY <1>35, <1>c DEF vars, disk, locals, history
<1>36. QED
  BY <1>1, <1>2, <1>3, <1>4, <1>5, <1>6, <1>7, <1>8, <1>9, <1>10, <1>11, <1>12, <1>13, <1>14, <1>15, <1>16, <1>17, <1>18, <1>19, <1>20, <1>21, <1>22, <1>23, <1>24, <1>25, <1>26, <1>27, <1>28, <1>29, <1>30, <1>31, <1>32, <1>33, <1>34, <1>35 DEF Next, Start, Step

\* Between statements the index files are exactly those .tid registers.
THEOREM NoOrphanFileCorrect == Spec => []NoOrphanFile
<1>1. Init => ListInv /\ FileNames
  BY DEF Init, ListInv, FileNames, NamesDistinct, NamesIn, Maintaining
<1>2. FileNames => NoOrphanFile
  BY DEF FileNames, NoOrphanFile, Quiet, Registered, NamesIn
<1>3. QED
  BY TypeInit, TypeStep, ListStep, FileNamesStep, <1>1, <1>2, PTL DEF Spec

-----------------------------------------------------------------------------
(***************************************************************************)
(* No file is torn before the first crash.                                 *)
(***************************************************************************)
Whole == crashes = 0 => torn = {}

\* A crash is never taken back, and only a crash cuts a file.
LEMMA CrashStep ==
  ASSUME TypeInv, [Next]_vars
  PROVE  \/ crashes' = crashes /\ torn' \subseteq torn
         \/ crashes' = crashes + 1
<1> USE DEF disk, history
<1>1. CASE Start
  BY <1>1 DEF Start, Insert, Update, UpdateAnswered, Delete, DeleteAnswered, CreateIndex, CreateIndexAnswered,
    DropIndex, DropIndexAnswered, Unlist, Begin, Answer
<1>2. CASE Step
  BY <1>2 DEF Step, InsertDone, InsertRefused, InsertAppend, Store, InsertCount, InsertEntry, InsertEntryRefused,
    InsertNext, ScanKeeps, ScanDrops, Scanned, Truncate, Write, WriteAndIndex, DeleteCount, CountDown, RebuildNext,
    RebuildCreate, RebuildFrom, RebuildEntry, RebuildFilled, RebuildContinue, RebuildRefused, RebuildDone, Register,
    CreateIndexUndo, Unlist, Relist, Relisted, Unlink, UnlinkLeaving, Goto, End, Close
<1>3. CASE Crash
  BY <1>3 DEF Crash
<1>4. CASE UNCHANGED vars
  BY <1>4 DEF vars
<1>5. QED
  BY <1>1, <1>2, <1>3, <1>4 DEF Next

\* As long as the server stays up no file is torn.
LEMMA WholeStep == TypeInv /\ Whole /\ [Next]_vars => Whole'
<1> SUFFICES ASSUME TypeInv, Whole, [Next]_vars, crashes' = 0 PROVE torn' = {}
  BY DEF Whole
<1>1. crashes \in Nat
  BY BoundsAssumption DEF TypeInv, TypeOK
<1>2. QED
  BY <1>1, CrashStep DEF Whole

\* The table stops being stale when a rebuild of all its indexes ends, and
\* becomes stale when one is refused.
LEMMA StaleStep ==
  ASSUME TypeInv, [Next]_vars
  PROVE  \/ UNCHANGED stale
         \/ RebuildDone /\ kind # "createIndex"
         \/ RebuildRefused /\ kind # "createIndex" /\ stale' = TRUE
<1> USE DEF history
<1>1. CASE Start
  BY <1>1 DEF Start, Insert, Update, UpdateAnswered, Delete, DeleteAnswered, CreateIndex, CreateIndexAnswered,
    DropIndex, DropIndexAnswered, Begin, Answer
<1>2. CASE Step
  <2>1. CASE RebuildDone
    <3>1. stale' = (stale /\ kind = "createIndex") /\ stale \in BOOLEAN
      BY <2>1 DEF RebuildDone, TypeInv, TypeOK
    <3>2. CASE kind = "createIndex"
      <4>1. stale' = stale
        BY <3>1, <3>2
      <4>2. QED
        BY <4>1
    <3>3. CASE kind # "createIndex"
      BY <2>1, <3>3
    <3>4. QED
      BY <3>2, <3>3
  <2>2. CASE RebuildRefused
    BY <2>2 DEF RebuildRefused, Goto
  <2>3. CASE ~ RebuildDone /\ ~ RebuildRefused
    BY <1>2, <2>3 DEF Step, InsertDone, InsertRefused, InsertAppend, Store, InsertCount, InsertEntry,
      InsertEntryRefused, InsertNext, ScanKeeps, ScanDrops, Scanned, Truncate, Write, WriteAndIndex, DeleteCount,
      CountDown, RebuildNext, RebuildCreate, RebuildFrom, RebuildEntry, RebuildFilled, RebuildContinue, Register,
      CreateIndexUndo, Relist, Relisted, Unlink, UnlinkLeaving, Goto, End
  <2>4. QED
    BY <2>1, <2>2, <2>3
<1>3. CASE Crash
  BY <1>3 DEF Crash
<1>4. CASE UNCHANGED vars
  BY <1>4 DEF vars
<1>5. QED
  BY <1>1, <1>2, <1>3, <1>4 DEF Next

-----------------------------------------------------------------------------
(***************************************************************************)
(* Agreement of index files and record file.  UPDATE and DELETE find out   *)
(* whether the unique indexes can be rebuilt by comparing whole slots, the *)
(* rebuild compares what it reads of them: it may be refused after the     *)
(* rows are written, and until a rebuild runs to its end the table is then *)
(* stale.  What a stale table keeps is its Shape: the files that           *)
(* exist, and that an INSERT enters keys only where it found them missing. *)
(***************************************************************************)
AllAgree(list) == \A k \in DOMAIN list : Agrees(list[k])

\* The index can take the key of the last record.
Ready(d) ==
  /\ d.name \in DOMAIN ix
  /\ d.unique => Key(d, trd[Len(trd)]) \notin KeysIn(ix[d.name])

\* The index lacks the last record.
Behind(d) ==
  /\ d.name \in DOMAIN ix
  /\ ix[d.name] = EntriesUpTo(d, Len(trd) - 1)

AllDistinct(rows) == \A k \in DOMAIN tid : tid[k].unique => Distinct(tid[k], rows)

\* No row DELETE has kept has the key in d of one it has still to look at.
ScanApart(d) ==
  \A i \in DOMAIN buf : \A j \in cur + 1..Len(trd) : Key(d, buf[i]) # Key(d, trd[j])

Shape ==
  /\ pc = "meta" => \A k \in DOMAIN tid : Ready(tid[k])
  /\ pc = "entry" => \A k \in Done + 1..Len(tid) : Ready(tid[k])
  /\ Rebuilding => kind # "insert"
  /\ Rebuilding /\ kind = "createIndex" =>
       Len(queue) <= 1 /\ (queue # <<>> => Head(queue).name = target)
  /\ pc = "rebuild" /\ kind = "createIndex" /\ queue = <<>> =>
       \A k \in DOMAIN tid : tid[k].name = target => Agrees(tid[k])
  /\ pc = "register" => Head(queue).name = target

Even ==
  /\ pc \in {"idle", "row", "scan", "truncate", "register", "relist", "unlink"} => AllAgree(tid)
  /\ pc = "relist" => AllAgree(queue)
  /\ pc = "undo" => \A k \in DOMAIN tid : tid[k].name # target => Agrees(tid[k])
  /\ pc = "meta" => \A k \in DOMAIN tid : Behind(tid[k])
  /\ pc = "entry" => /\ \A k \in 1..Done : Agrees(tid[k])
                     /\ \A k \in Done + 1..Len(tid) : Behind(tid[k])
  /\ Rebuilding => \A k \in 1..Done : Agrees(tid[k])

Apartness ==
  /\ pc = "scan" => /\ AllDistinct(buf) /\ AllDistinct(trd)
                    /\ \A k \in DOMAIN tid : tid[k].unique => ScanApart(tid[k])
  /\ kind = "delete" /\ pc \in {"truncate", "write"} => AllDistinct(buf)
  /\ pc = "count" \/ (Rebuilding /\ kind = "delete") => AllDistinct(trd)

Agreement == ~ stale => Even

Distinctness == ~ stale => Apartness

Outcome ==
  /\ pc # "idle" /\ kind \in {"createIndex", "dropIndex"} => trd = before.rows
  /\ pc = "idle" /\ reply = "error" /\ kind # "insert" /\ trd # before.rows =>
       /\ kind \in {"update", "delete"} /\ stale
       /\ \E k \in DOMAIN tid : tid[k].unique /\ ~ Distinct(tid[k], trd)

UpInv == crashes = 0 => Shape /\ Agreement /\ Distinctness /\ Outcome

Known == TypeInv /\ ListInv /\ FileInv /\ HealInv /\ KindAt /\ Counted /\ FileNames /\ Whole

\* An index that agrees with the record file and holds no key twice keeps its
\* rows distinct.
LEMMA OneDistinct ==
  ASSUME TypeInv, NEW d, Agrees(d), KeyOnce(ix[d.name])
  PROVE  Distinct(d, trd)
<1> SUFFICES ASSUME NEW i \in DOMAIN trd, NEW j \in DOMAIN trd, Key(d, trd[i]) = Key(d, trd[j])
             PROVE  i = j
  BY DEF Distinct
<1>1. <<Key(d, trd[i]), i>> \in ix[d.name] /\ <<Key(d, trd[j]), j>> \in ix[d.name]
  BY DEF Agrees, EntriesOf
<1>2. QED
  BY <1>1 DEF KeyOnce

\* Unique indexes that agree with the record file keep its rows distinct.
LEMMA AgreeingDistinct ==
  ASSUME TypeInv, FileInv, AllAgree(tid)
  PROVE  AllDistinct(trd)
<1> SUFFICES ASSUME NEW k \in DOMAIN tid, tid[k].unique PROVE Distinct(tid[k], trd)
  BY DEF AllDistinct
<1>1. Agrees(tid[k]) /\ KeyOnce(ix[tid[k].name])
  BY DEF AllAgree, Agrees, FileInv, OnceIn
<1>2. QED
  BY <1>1, OneDistinct

\* An index that agreed before a record was appended lacks just that record.
LEMMA AppendBehind ==
  ASSUME TypeInv, NEW row \in Row, trd' = Append(trd, row), UNCHANGED <<tid, ix>>,
         NEW k \in DOMAIN tid, Agrees(tid[k])
  PROVE  Behind(tid[k])'
<1>1. /\ trd \in Seq(Row) /\ Len(trd) \in Nat /\ Len(trd') = Len(trd) + 1 /\ trd'[Len(trd) + 1] = row
      /\ \A i \in 1..Len(trd) : trd'[i] = trd[i]
  BY DEF TypeInv, TypeOK
<1>2. tid[k].name \in DOMAIN ix /\ ix[tid[k].name] = EntriesUpTo(tid[k], Len(trd))
  BY AgreesUpTo
<1>3. EntriesUpTo(tid[k], Len(trd) - 1)' = EntriesUpTo(tid[k], Len(trd))
  <2>1. (Len(trd) - 1)' = Len(trd) /\ tid[k]' = tid[k]
    BY <1>1
  <2>2. QED
    BY <1>1, <2>1 DEF EntriesUpTo
<1>4. QED
  BY <1>2, <1>3 DEF Behind

\* A rebuild is refused only where two rows have one key in a unique index.
LEMMA RefusedTwice ==
  ASSUME Known, crashes = 0, pc = "fill", cur < Len(trd), Refuses(Head(queue), Key(Head(queue), trd[cur + 1]))
  PROVE  \E k \in DOMAIN tid : tid[k].unique /\ ~ Distinct(tid[k], trd)
<1> DEFINE d == Head(queue)
<1> USE DEF Known
<1>1. /\ queue # <<>> /\ cur \in Nat /\ Len(trd) \in Nat /\ DOMAIN trd = 1..Len(trd) /\ DOMAIN tid = 1..Len(tid)
  BY DEF TypeInv, TypeOK, Phases
<1>2. PICK k \in DOMAIN tid : tid[k] = d
  BY <1>1, HeadOfQueue DEF Maintaining
<1>3. d.name \in DOMAIN ix \ torn /\ ix[d.name] = EntriesUpTo(d, cur)
  BY DEF HealInv, Filling
<1>4. d.unique /\ Key(d, trd[cur + 1]) \in KeysIn(EntriesUpTo(d, cur))
  BY <1>3 DEF Refuses, Taken
<1>5. PICK i \in 1..cur : Key(d, trd[i]) = Key(d, trd[cur + 1])
  BY <1>4 DEF KeysIn, EntriesUpTo
<1>6. i \in DOMAIN trd /\ cur + 1 \in DOMAIN trd /\ i # cur + 1
  BY <1>1
<1>7. ~ Distinct(d, trd)
  BY <1>5, <1>6 DEF Distinct
<1>8. QED
  BY <1>2, <1>4, <1>7

\* A server that has stayed up enters keys only into indexes that can take
\* them, and CREATE INDEX builds the one index it was asked for.
LEMMA ShapeStep ==
  ASSUME Known, crashes = 0, crashes' = 0, Shape, [Next]_vars
  PROVE  Shape'
<1> USE DEF Known
<1>a. /\ tid \in Seq(IndexDefs) /\ queue \in Seq(IndexDefs) /\ trd \in Seq(Row) /\ cur \in Nat
      /\ Len(tid) \in Nat /\ DOMAIN tid = 1..Len(tid)
  BY DEF TypeInv, TypeOK
<1>t. torn = {} /\ torn' = {}
  BY WholeStep DEF Whole
<1>b. ASSUME pc' \in {"idle", "row", "scan", "truncate", "write", "count", "undo", "relist", "unlink"} PROVE Shape'
  BY <1>b DEF Shape, Rebuilding
<1>e. ASSUME pc' = "rebuild", kind' \in {"update", "delete"} PROVE Shape'
  BY <1>e DEF Shape, Rebuilding
<1>f. ASSUME UNCHANGED <<kind, queue, target>>, Rebuilding, pc' \in {"create", "fill"} PROVE Shape'
  BY <1>f DEF Shape, Rebuilding
<1>1. ASSUME NEW rows \in Sources, Insert(rows) PROVE Shape'
  BY <1>1, <1>b DEF Insert, Begin
<1>2. ASSUME NEW w \in Predicates, NEW a \in Assignments, Update(w, a) PROVE Shape'
  BY <1>2, <1>b DEF Update, Begin
<1>3. ASSUME NEW w \in Predicates, NEW a \in Assignments, UpdateAnswered(w, a) PROVE Shape'
  <2>1. pc = "idle" /\ pc' = "idle"
    BY <1>3 DEF UpdateAnswered, Answer
  <2>2. QED
    BY <2>1, <1>b
<1>4. ASSUME NEW w \in Predicates, Delete(w) PROVE Shape'
  BY <1>4, <1>b DEF Delete, Begin
<1>5. ASSUME NEW w \in Predicates, DeleteAnswered(w) PROVE Shape'
  <2>1. pc = "idle" /\ pc' = "idle"
    BY <1>5 DEF DeleteAnswered, Answer
  <2>2. QED
    BY <2>1, <1>b
<1>6. ASSUME NEW d \in IndexDefs, CreateIndex(d) PROVE Shape'
  BY <1>6 DEF CreateIndex, Begin, Shape, Rebuilding
<1>7. ASSUME NEW d \in IndexDefs, CreateIndexAnswered(d) PROVE Shape'
  <2>1. pc = "idle" /\ pc' = "idle"
    BY <1>7 DEF CreateIndexAnswered, Answer
  <2>2. QED
    BY <2>1, <1>b
<1>8. ASSUME NEW n \in IndexNames, DropIndex(n) PROVE Shape'
  BY <1>8, <1>b DEF DropIndex, Begin
<1>9. ASSUME NEW n \in IndexNames, DropIndexAnswered(n) PROVE Shape'
  <2>1. pc = "idle" /\ pc' = "idle"
    BY <1>9 DEF DropIndexAnswered, Answer
  <2>2. QED
    BY <2>1, <1>b
<1>10. CASE InsertDone
  BY <1>10, <1>b DEF InsertDone, End, Close
<1>11. CASE InsertRefused
  BY <1>11, <1>b DEF InsertRefused, End, Close
<1>12. CASE InsertAppend
  <2> DEFINE row == StoredRow(Head(src))
  <2>1. /\ pc = "row" /\ pc' = "meta" /\ trd' = Append(trd, row) /\ UniqueFree(row) /\ UNCHANGED <<tid, ix>>
    BY <1>12 DEF InsertAppend, Store, Goto
  <2>2. trd'[Len(trd')] = row
    BY <1>a, <2>1
  <2>3. \A k \in DOMAIN tid : tid[k].name \in DOMAIN ix
    BY <2>1 DEF FileNames, NamesIn
  <2>4. ASSUME NEW k \in DOMAIN tid PROVE Ready(tid[k])'
    <3>1. tid[k].unique => Key(tid[k], row) \notin KeysIn(ix[tid[k].name])
      BY <1>t, <2>1, <2>3 DEF UniqueFree, Taken
    <3>2. tid'[k] = tid[k] /\ ix' = ix
      BY <2>1
    <3> HIDE DEF row
    <3>3. QED
      BY <2>2, <2>3, <3>1, <3>2 DEF Ready
  <2>5. DOMAIN tid' = DOMAIN tid
    BY <2>1
  <2>6. QED
    BY <2>1, <2>4, <2>5 DEF Shape, Rebuilding
<1>13. CASE InsertCount
  <2>1. /\ pc = "meta" /\ pc' = "entry" /\ queue' = tid /\ UNCHANGED <<trd, tid, ix>>
    BY <1>13 DEF InsertCount, Goto
  <2>2. Done' = 0
    BY <1>a, <2>1 DEF Done
  <2>3. \A k \in 1..Len(tid) : Ready(tid[k])'
    BY <1>a, <2>1 DEF Shape, Ready
  <2>4. QED
    BY <1>a, <2>1, <2>2, <2>3 DEF Shape, Rebuilding
<1>14. CASE InsertEntry
  <2> DEFINE d == Head(queue)
             k == Key(d, trd[Len(trd)])
  <2>1. /\ pc = "entry" /\ pc' = "entry" /\ queue # <<>> /\ ix' = WithEntry(d.name, k, Len(trd))
        /\ UNCHANGED <<trd, tid>> /\ queue' = Tail(queue)
    BY <1>14 DEF InsertEntry, Goto
  <2>2. /\ Done \in Nat /\ Done + 1 \in 1..Len(tid) /\ d = tid[Done + 1] /\ Done' = Done + 1
        /\ \A j \in 1..Len(tid) : tid[j].name = d.name => j = Done + 1
    BY <1>a, <2>1, HeadOfQueue DEF Maintaining, Done
  <2>3. Ready(d)
    BY <2>1, <2>2 DEF Shape
  <2>4. /\ DOMAIN ix' = DOMAIN ix
        /\ \A m \in DOMAIN ix : m # d.name => ix'[m] = ix[m]
    BY <2>1, <2>3, OtherEntries DEF Ready
  <2>5. ASSUME NEW j \in Done + 2..Len(tid) PROVE Ready(tid[j])'
    <3>1. j \in Done + 1..Len(tid) /\ j \in 1..Len(tid) /\ j # Done + 1
      BY <1>a, <2>2
    <3>2. Ready(tid[j])
      BY <2>1, <3>1 DEF Shape
    <3>3. tid[j].name # d.name /\ tid'[j] = tid[j] /\ trd' = trd
      BY <2>1, <2>2, <3>1
    <3>4. tid[j].name \in DOMAIN ix' /\ ix'[tid[j].name] = ix[tid[j].name]
      BY <2>4, <3>2, <3>3 DEF Ready
    <3>5. QED
      BY <3>2, <3>3, <3>4 DEF Ready
  <2>6. Done' + 1 = Done + 2 /\ Len(tid)' = Len(tid)
    BY <2>1, <2>2
  <2>7. QED
    BY <2>1, <2>5, <2>6 DEF Shape, Rebuilding
<1>15. CASE InsertEntryRefused
  <2>1. /\ pc = "entry" /\ queue # <<>> /\ Refuses(Head(queue), Key(Head(queue), trd[Len(trd)]))
    BY <1>15 DEF InsertEntryRefused
  <2>2. Done + 1 \in 1..Len(tid) /\ Head(queue) = tid[Done + 1] /\ Done \in Nat
    BY <2>1, HeadOfQueue DEF Maintaining
  <2>3. Ready(Head(queue))
    BY <2>1, <2>2 DEF Shape
  <2>4. QED
    BY <1>t, <2>1, <2>3 DEF Ready, Refuses, Taken
<1>16. CASE InsertNext
  BY <1>16, <1>b DEF InsertNext, Goto
<1>17. CASE ScanKeeps
  BY <1>17, <1>b DEF ScanKeeps, Goto
<1>18. CASE ScanDrops
  BY <1>18, <1>b DEF ScanDrops, Goto
<1>19. CASE Scanned
  BY <1>19, <1>b DEF Scanned, Goto
<1>20. CASE Truncate
  BY <1>20, <1>b DEF Truncate, Goto
<1>21. CASE Write
  <2>1. /\ pc = "write" /\ UNCHANGED kind /\ pc' = IF kind = "delete" THEN "count" ELSE "rebuild"
    BY <1>21 DEF Write, WriteAndIndex, Goto
  <2>2. kind \in {"update", "delete"}
    BY <2>1 DEF KindAt
  <2>3. QED
    BY <2>1, <2>2, <1>b, <1>e
<1>22. CASE DeleteCount
  BY <1>22, <1>e DEF DeleteCount, CountDown, Goto, KindAt
<1>23. CASE RebuildNext
  BY <1>23, <1>f DEF RebuildNext, Goto, locals, Rebuilding
<1>24. CASE RebuildCreate
  BY <1>24, <1>f DEF RebuildCreate, RebuildFrom, Goto, Rebuilding
<1>25. CASE RebuildEntry
  BY <1>25, <1>f DEF RebuildEntry, Goto, Rebuilding
<1>26. CASE RebuildFilled
  <2>1. /\ pc = "fill" /\ pc' = "rebuild" /\ queue # <<>> /\ cur = Len(trd) /\ queue' = Tail(queue)
        /\ UNCHANGED <<kind, trd, tid, ix, torn, target>>
    BY <1>26 DEF RebuildFilled, RebuildContinue, Goto, TypeInv, Phases, disk
  <2>2. kind # "insert"
    BY <2>1 DEF Shape, Rebuilding
  <2>3. ASSUME kind = "createIndex" PROVE queue' = <<>>
    BY <1>a, <2>1, <2>3 DEF Shape, Rebuilding
  <2>4. ASSUME kind = "createIndex", NEW k \in DOMAIN tid, tid[k].name = target PROVE Agrees(tid[k])
    <3>1. Head(queue).name = target
      BY <2>1, <2>4 DEF Shape, Rebuilding
    <3>2. tid[k] = Head(queue)
      BY <1>a, <2>1, <2>4, <3>1, HeadOfQueue DEF Maintaining
    <3>3. QED
      BY <2>1, <3>2, AgreesUpTo DEF HealInv, Filling
  <2>5. ASSUME kind = "createIndex", NEW k \in DOMAIN tid', tid'[k].name = target' PROVE Agrees(tid[k])'
    BY <2>1, <2>4, <2>5 DEF Agrees
  <2>6. Len(<<>>) = 0
    OBVIOUS
  <2>7. QED
    BY <2>1, <2>2, <2>3, <2>5, <2>6 DEF Shape, Rebuilding
<1>27. CASE RebuildRefused
  BY <1>27, <1>b DEF RebuildRefused, Goto, Close
<1>28. CASE RebuildDone
  BY <1>28, <1>b DEF RebuildDone, Close
<1>29. CASE Register
  <2>1. /\ pc = "register" /\ pc' = "rebuild" /\ UNCHANGED <<kind, queue, target>>
    BY <1>29 DEF Register, Goto, locals
  <2>2. Len(queue) = 1 /\ Head(queue).name = target /\ kind = "createIndex"
    BY <2>1 DEF ListInv, NewName, Shape, KindAt
  <2>3. queue # <<>>
    BY <2>1 DEF TypeInv, Phases
  <2>4. QED
    BY <2>1, <2>2, <2>3 DEF Shape, Rebuilding
<1>30. CASE CreateIndexUndo
  BY <1>30, <1>b DEF CreateIndexUndo, Goto
<1>31. CASE Relist
  BY <1>31, <1>b DEF Relist, Goto
<1>32. CASE Relisted
  BY <1>32, <1>b DEF Relisted, Goto
<1>33. CASE Unlink
  BY <1>33, <1>b DEF Unlink, UnlinkLeaving, End, Close
<1>34. CASE Crash
  BY <1>34 DEF Crash
<1>35. CASE UNCHANGED vars
  <2>1. UNCHANGED <<pc, kind, tid, ix, trd, torn, queue, target>>
    BY <1>35 DEF vars, disk, locals
  <2>2. QED
    BY <2>1 DEF Shape, Rebuilding, Ready, Done, Agrees
<1>36. QED
  BY <1>1, <1>2, <1>3, <1>4, <1>5, <1>6, <1>7, <1>8, <1>9, <1>10, <1>11, <1>12, <1>13, <1>14, <1>15, <1>16, <1>17, <1>18, <1>19, <1>20, <1>21, <1>22, <1>23, <1>24, <1>25, <1>26, <1>27, <1>28, <1>29, <1>30, <1>31, <1>32, <1>33, <1>34, <1>35 DEF Next, Start, Step

\* Every statement brings the index files back into agreement.
LEMMA EvenStep ==
  ASSUME Known, crashes = 0, crashes' = 0, ~ stale', Shape, Even, [Next]_vars
  PROVE  Even'
<1> USE DEF Known
<1>a. /\ tid \in Seq(IndexDefs) /\ queue \in Seq(IndexDefs) /\ trd \in Seq(Row) /\ cur \in Nat
      /\ Len(tid) \in Nat
  BY DEF TypeInv, TypeOK
<1>t. torn = {} /\ torn' = {}
  BY WholeStep DEF Whole
<1> USE <1>t
<1>b. ASSUME UNCHANGED <<trd, tid, ix>>, pc \in {"idle", "row", "scan", "truncate"},
             pc' \in {"idle", "row", "scan", "truncate"}
      PROVE  Even'
  BY <1>b DEF Even, AllAgree, Agrees, Rebuilding
<1>c. ASSUME pc' \in {"write", "count"} PROVE Even'
  BY <1>c DEF Even, Rebuilding
<1>d. ASSUME UNCHANGED <<pc, kind, trd, tid, ix, queue, target>> PROVE Even'
  BY <1>d DEF Even, AllAgree, Agrees, Rebuilding, Behind, EntriesUpTo, Done
<1>e. ASSUME UNCHANGED tid, queue' = tid, pc' = "rebuild", kind' \in {"update", "delete"} PROVE Even'
  <2>1. Done' = 0
    BY <1>a, <1>e DEF Done
  <2>2. QED
    BY <1>e, <2>1 DEF Even, Rebuilding
<1>f. ASSUME UNCHANGED <<kind, trd, tid, queue, target>>, Rebuilding, queue # <<>>, pc' \in {"create", "fill"},
             \A m \in DOMAIN ix : m # Head(queue).name => m \in DOMAIN ix' /\ ix'[m] = ix[m]
      PROVE  Even'
  <2>1. Maintaining
    BY <1>f DEF Maintaining, Rebuilding
  <2>2. \A k \in 1..Done : Agrees(tid[k])'
    BY <1>f, <2>1, FinishedKept DEF Even
  <2>3. Done' = Done
    BY <1>f DEF Done
  <2>4. QED
    BY <1>f, <2>2, <2>3 DEF Even, Rebuilding
<1>g. ASSUME NEW n, Unlist(n), pc' = "relist", \A k \in DOMAIN tid : tid[k].name # n => Agrees(tid[k])
      PROVE  Even'
  <2>1. PICK p \in DOMAIN tid : tid[p].name = n /\ queue' = Drop(tid, p)
    BY <1>g DEF Unlist
  <2>2. tid' = <<>> /\ UNCHANGED <<trd, ix>>
    BY <1>g DEF Unlist
  <2>3. DOMAIN queue' = 1..Len(tid) - 1
    BY <1>a, <2>1, DropElements, DropType
  <2>4. ASSUME NEW i \in 1..Len(tid) - 1 PROVE Agrees(queue'[i])
    <3>1. PICK j \in 1..Len(tid) : j = (IF i < p THEN i ELSE i + 1)
      BY <1>a
    <3>2. Drop(tid, p)[i] = tid[j] /\ j # p
      BY <1>a, <3>1, DropElements
    <3>3. tid[j].name # n
      BY <1>a, <2>1, <3>2 DEF ListInv, NamesDistinct
    <3>4. QED
      BY <1>a, <1>g, <2>1, <3>2, <3>3
  <2>5. AllAgree(queue)' /\ AllAgree(tid)'
    BY <2>2, <2>3, <2>4 DEF AllAgree, Agrees
  <2>6. QED
    BY <1>g, <2>5 DEF Even, Rebuilding
<1>1. ASSUME NEW rows \in Sources, Insert(rows) PROVE Even'
  BY <1>1, <1>b DEF Insert, Begin, disk, locals
<1>2. ASSUME NEW w \in Predicates, NEW a \in Assignments, Update(w, a) PROVE Even'
  BY <1>2, <1>b DEF Update, Begin, disk, locals
<1>3. ASSUME NEW w \in Predicates, NEW a \in Assignments, UpdateAnswered(w, a) PROVE Even'
  BY <1>3, <1>b DEF UpdateAnswered, Answer, disk, locals
<1>4. ASSUME NEW w \in Predicates, Delete(w) PROVE Even'
  BY <1>4, <1>b DEF Delete, Begin, disk, locals
<1>5. ASSUME NEW w \in Predicates, DeleteAnswered(w) PROVE Even'
  BY <1>5, <1>b DEF DeleteAnswered, Answer, disk, locals
<1>6. ASSUME NEW d \in IndexDefs, CreateIndex(d) PROVE Even'
  <2>1. /\ pc = "idle" /\ pc' = "register" /\ ix' = WithFile(d.name) /\ queue' = <<d>> /\ target' = d.name
        /\ UNCHANGED <<trd, tid>> /\ d.name \notin DOMAIN ix
    BY <1>6 DEF CreateIndex, IndexRefused, Begin
  <2>2. AllAgree(tid)
    BY <2>1 DEF Even
  <2>3. AllAgree(tid)'
    BY <2>1, <2>2 DEF AllAgree, Agrees, WithFile
  <2>4. QED
    BY <2>1, <2>3 DEF Even, Rebuilding
<1>7. ASSUME NEW d \in IndexDefs, CreateIndexAnswered(d) PROVE Even'
  BY <1>7, <1>b DEF CreateIndexAnswered, Answer, disk, locals
<1>8. ASSUME NEW n \in IndexNames, DropIndex(n) PROVE Even'
  <2>1. Unlist(n) /\ pc = "idle" /\ pc' = "relist"
    BY <1>8 DEF DropIndex, Begin
  <2>2. QED
    BY <2>1, <1>g DEF Even, AllAgree
<1>9. ASSUME NEW n \in IndexNames, DropIndexAnswered(n) PROVE Even'
  BY <1>9, <1>b DEF DropIndexAnswered, Answer, disk, locals
<1>10. CASE InsertDone
  BY <1>10, <1>b DEF InsertDone, End, Close, Forget, disk, locals
<1>11. CASE InsertRefused
  BY <1>11, <1>b DEF InsertRefused, End, Close, Forget, disk, locals
<1>12. CASE InsertAppend
  <2> DEFINE row == StoredRow(Head(src))
  <2>1. /\ pc = "row" /\ pc' = "meta" /\ src # <<>> /\ trd' = Append(trd, row) /\ UNCHANGED <<tid, ix>>
    BY <1>12 DEF InsertAppend, Store, Goto
  <2>2. row \in Row
    BY <2>1, StoredRowType DEF TypeInv, TypeOK
  <2>3. \A k \in DOMAIN tid : Agrees(tid[k])
    BY <2>1 DEF Even, AllAgree
  <2>4. \A k \in DOMAIN tid : Behind(tid[k])'
    BY <2>1, <2>2, <2>3, AppendBehind
  <2>5. QED
    BY <2>1, <2>4 DEF Even, Rebuilding
<1>13. CASE InsertCount
  <2>1. /\ pc = "meta" /\ pc' = "entry" /\ queue' = tid /\ UNCHANGED <<trd, tid, ix>>
    BY <1>13 DEF InsertCount, Goto
  <2>2. Done' = 0 /\ DOMAIN tid = 1..Len(tid)
    BY <1>a, <2>1 DEF Done
  <2>3. \A k \in 1..Len(tid) : Behind(tid[k])'
    BY <2>1, <2>2 DEF Even, Behind, EntriesUpTo
  <2>4. QED
    BY <1>a, <2>1, <2>2, <2>3 DEF Even, Rebuilding
<1>14. CASE InsertEntry
  <2> DEFINE d == Head(queue)
             k == Key(d, trd[Len(trd)])
  <2>1. /\ pc = "entry" /\ pc' = "entry" /\ queue # <<>> /\ ix' = WithEntry(d.name, k, Len(trd))
        /\ UNCHANGED <<trd, tid>> /\ queue' = Tail(queue)
    BY <1>14 DEF InsertEntry, Goto
  <2>2. /\ Done \in Nat /\ Done + 1 \in 1..Len(tid) /\ d = tid[Done + 1] /\ Done' = Done + 1
        /\ \A j \in 1..Len(tid) : tid[j].name = d.name => j = Done + 1
    BY <1>a, <2>1, HeadOfQueue DEF Maintaining, Done
  <2>3. Behind(d)
    BY <2>1, <2>2 DEF Even
  <2>4. /\ DOMAIN ix' = DOMAIN ix /\ ix'[d.name] = ix[d.name] \cup {<<k, Len(trd)>>}
        /\ \A m \in DOMAIN ix : m # d.name => ix'[m] = ix[m]
    BY <2>1, <2>3, OtherEntries DEF Behind
  <2>5. Len(trd) - 1 \in Nat /\ Len(trd) \in Nat
    BY <1>a, <2>1 DEF TypeInv, Phases
  <2>6. ix'[d.name] = EntriesUpTo(d, Len(trd))
    BY <2>3, <2>4, <2>5, EntriesGrow DEF Behind
  <2>7. EntriesOf(d, trd) = EntriesUpTo(d, Len(trd))
    BY <1>a DEF EntriesOf, EntriesUpTo
  <2>8. ASSUME NEW j \in 1..Done + 1 PROVE Agrees(tid[j])'
    <3>1. CASE j = Done + 1
      <4>1. tid'[j] = d /\ trd' = trd /\ d.name \in DOMAIN ix
        BY <2>1, <2>2, <2>3, <3>1 DEF Behind
      <4>2. QED
        BY <2>4, <2>6, <2>7, <4>1 DEF Agrees
    <3>2. CASE j \in 1..Done
      <4>1. Agrees(tid[j])
        BY <2>1, <3>2 DEF Even
      <4>2. j \in 1..Len(tid) /\ j # Done + 1
        BY <1>a, <2>2, <3>2
      <4>3. tid[j].name # d.name /\ tid'[j] = tid[j] /\ trd' = trd
        BY <2>1, <2>2, <4>2
      <4>4. QED
        BY <2>4, <4>1, <4>3 DEF Agrees
    <3>3. QED
      BY <2>2, <3>1, <3>2
  <2>9. ASSUME NEW j \in Done + 2..Len(tid) PROVE Behind(tid[j])'
    <3>1. j \in Done + 1..Len(tid) /\ j \in 1..Len(tid) /\ j # Done + 1
      BY <1>a, <2>2
    <3>2. Behind(tid[j])
      BY <2>1, <3>1 DEF Even
    <3>3. tid[j].name # d.name /\ tid'[j] = tid[j] /\ trd' = trd
      BY <2>1, <2>2, <3>1
    <3>4. tid[j].name \in DOMAIN ix' /\ ix'[tid[j].name] = ix[tid[j].name]
      BY <2>4, <3>2, <3>3 DEF Behind
    <3>5. EntriesUpTo(tid[j], Len(trd) - 1)' = EntriesUpTo(tid[j], Len(trd) - 1)
      BY <3>3 DEF EntriesUpTo
    <3>6. QED
      BY <3>2, <3>3, <3>4, <3>5 DEF Behind
  <2>10. QED
    <3>1. Done' + 1 = Done + 2 /\ Len(tid)' = Len(tid)
      BY <2>1, <2>2
    <3>2. /\ \A j \in 1..Done' : Agrees(tid[j])'
          /\ \A j \in Done' + 1..Len(tid)' : Behind(tid[j])'
      BY <2>2, <2>8, <2>9, <3>1
    <3>3. QED
      BY <2>1, <3>2 DEF Even, Rebuilding
<1>15. CASE InsertEntryRefused
  <2>1. pc = "entry" /\ pc' = "rebuild" /\ UNCHANGED kind
    BY <1>15 DEF InsertEntryRefused, Goto
  <2>2. kind' = "insert" /\ kind' # "insert"
    BY <2>1, ShapeStep DEF KindAt, Shape, Rebuilding
  <2>3. QED
    BY <2>2
<1>16. CASE InsertNext
  <2>1. /\ pc = "entry" /\ pc' = "row" /\ queue = <<>> /\ UNCHANGED <<trd, tid, ix>>
    BY <1>16 DEF InsertNext, Goto, disk
  <2>2. Done = Len(tid) /\ DOMAIN tid = 1..Len(tid)
    BY <1>a, <2>1 DEF Done
  <2>3. QED
    BY <2>1, <2>2 DEF Even, AllAgree, Agrees, Rebuilding
<1>17. CASE ScanKeeps
  BY <1>17, <1>b DEF ScanKeeps, Goto, disk, locals
<1>18. CASE ScanDrops
  BY <1>18, <1>b DEF ScanDrops, Goto, disk, locals
<1>19. CASE Scanned
  BY <1>19, <1>b DEF Scanned, Goto, disk, locals
<1>20. CASE Truncate
  BY <1>20, <1>c DEF Truncate, Goto, disk, locals
<1>21. CASE Write
  <2>1. /\ pc = "write" /\ UNCHANGED <<tid, kind>> /\ queue' = tid
        /\ pc' = IF kind = "delete" THEN "count" ELSE "rebuild"
    BY <1>21 DEF Write, WriteAndIndex, Goto
  <2>2. kind \in {"update", "delete"}
    BY <2>1 DEF KindAt
  <2>3. QED
    BY <2>1, <2>2, <1>c, <1>e
<1>22. CASE DeleteCount
  <2>1. /\ pc = "count" /\ pc' = "rebuild" /\ UNCHANGED <<tid, kind, queue>>
    BY <1>22 DEF DeleteCount, CountDown, Goto, locals
  <2>2. kind = "delete" /\ queue = tid
    BY <2>1 DEF KindAt, HealInv
  <2>3. QED
    BY <2>1, <2>2, <1>e
<1>23. CASE RebuildNext
  <2>1. /\ pc = "rebuild" /\ pc' = "create" /\ queue # <<>> /\ ix' = WithoutFile(Head(queue).name)
        /\ UNCHANGED <<kind, trd, tid, queue, target>>
    BY <1>23 DEF RebuildNext, Goto, locals
  <2>2. Head(queue).name \in IndexNames
    BY <1>a, <2>1, NameType
  <2>3. QED
    BY <2>1, <2>2, <1>f, OtherFiles DEF Rebuilding
<1>24. CASE RebuildCreate
  <2>1. /\ pc = "create" /\ pc' = "fill" /\ queue # <<>> /\ ix' = WithFile(Head(queue).name)
        /\ UNCHANGED <<kind, trd, tid, queue, target>>
    BY <1>24 DEF RebuildCreate, RebuildFrom, Goto, TypeInv, Phases
  <2>2. Head(queue).name \in IndexNames
    BY <1>a, <2>1, NameType
  <2>3. QED
    BY <2>1, <2>2, <1>f, OtherFiles DEF Rebuilding
<1>25. CASE RebuildEntry
  <2> DEFINE k == Key(Head(queue), trd[cur + 1])
  <2>1. /\ pc = "fill" /\ pc' = "fill" /\ queue # <<>> /\ ix' = WithEntry(Head(queue).name, k, cur + 1)
        /\ UNCHANGED <<kind, trd, tid, queue, target>>
    BY <1>25 DEF RebuildEntry, Goto, TypeInv, Phases
  <2>2. Head(queue).name \in DOMAIN ix
    BY <2>1 DEF HealInv, Filling
  <2>3. QED
    BY <2>1, <2>2, <1>f, OtherEntries DEF Rebuilding
<1>26. CASE RebuildFilled
  <2>1. /\ pc = "fill" /\ pc' = "rebuild" /\ queue # <<>> /\ cur = Len(trd) /\ queue' = Tail(queue)
        /\ UNCHANGED <<kind, trd, tid, ix, target>>
    BY <1>26 DEF RebuildFilled, RebuildContinue, Goto, TypeInv, Phases, disk
  <2>2. Agrees(Head(queue))
    BY <2>1, AgreesUpTo DEF HealInv, Filling
  <2>3. Done' = Done + 1 /\ Done \in Nat /\ Head(queue) = tid[Done + 1]
    BY <1>a, <2>1, HeadOfQueue DEF Maintaining, Done
  <2>4. \A k \in 1..Done + 1 : Agrees(tid[k])
    BY <2>1, <2>2, <2>3 DEF Even, Rebuilding
  <2>5. \A k \in 1..Done' : Agrees(tid[k])'
    BY <2>1, <2>3, <2>4 DEF Agrees
  <2>6. QED
    BY <2>1, <2>5 DEF Even, Rebuilding
<1>27. CASE RebuildRefused
  <2>1. /\ pc = "fill" /\ queue # <<>> /\ UNCHANGED <<trd, tid, ix>> /\ cur < Len(trd)
        /\ Refuses(Head(queue), Key(Head(queue), trd[cur + 1]))
    BY <1>27 DEF RebuildRefused, TypeInv, Phases, disk
  <2>2. CASE kind = "createIndex"
    <3>1. pc' = "undo" /\ UNCHANGED target
      BY <1>27, <2>2 DEF RebuildRefused, Goto, locals
    <3>2. Len(queue) <= 1 /\ Head(queue).name = target /\ \A k \in 1..Done : Agrees(tid[k])
      BY <2>1, <2>2 DEF Even, Shape, Rebuilding
    <3>a. Len(queue) \in Nat /\ Len(queue) > 0 /\ Len(queue) <= 1
      BY <1>a, <2>1, <3>2
    <3>b. \A n \in Nat : n > 0 /\ n <= 1 => n = 1
      OBVIOUS
    <3>0. Len(queue) = 1
      BY <3>a, <3>b, Zenon
    <3>3. Done + 1 \in 1..Len(tid) /\ Head(queue) = tid[Done + 1]
      BY <2>1, HeadOfQueue DEF Maintaining
    <3>4. Done = Len(tid) - 1
      BY <1>a, <3>0 DEF Done
    <3>5. ASSUME NEW k \in DOMAIN tid, tid[k].name # target PROVE Agrees(tid[k])
      <4>1. k \in 1..Len(tid) /\ k # Done + 1
        BY <1>a, <3>2, <3>3, <3>5
      <4>2. k \in 1..Done
        BY <1>a, <3>4, <4>1
      <4>3. QED
        BY <3>2, <4>2
    <3>6. QED
      BY <2>1, <3>1, <3>5 DEF Even, Agrees, Rebuilding
  <2>3. CASE kind # "createIndex"
    BY <1>27, <2>3 DEF RebuildRefused
  <2>4. QED
    BY <2>2, <2>3
<1>28. CASE RebuildDone
  <2>1. /\ pc = "rebuild" /\ pc' = "idle" /\ queue = <<>> /\ UNCHANGED <<trd, tid, ix>>
    BY <1>28 DEF RebuildDone, End, Close, disk
  <2>2. Done = Len(tid) /\ DOMAIN tid = 1..Len(tid)
    BY <1>a, <2>1 DEF Done
  <2>3. QED
    BY <2>1, <2>2 DEF Even, AllAgree, Agrees, Rebuilding
<1>29. CASE Register
  <2>1. /\ tid' = Append(tid, Head(queue)) /\ pc = "register" /\ pc' = "rebuild"
        /\ UNCHANGED <<kind, trd, ix, queue, target>>
    BY <1>29 DEF Register, Goto, locals
  <2>2. Len(queue) = 1 /\ Head(queue).name = target /\ kind = "createIndex" /\ AllAgree(tid)
    BY <2>1 DEF ListInv, NewName, Shape, Even, KindAt
  <2>3. Done' = Len(tid) /\ \A i \in 1..Len(tid) : tid'[i] = tid[i]
    BY <1>a, <2>1, <2>2 DEF Done
  <2>4. ASSUME NEW i \in 1..Len(tid) PROVE Agrees(tid[i])'
    <3>1. Agrees(tid[i]) /\ tid'[i] = tid[i] /\ UNCHANGED <<trd, ix>>
      BY <1>a, <2>1, <2>2, <2>3 DEF AllAgree
    <3>2. QED
      BY <3>1 DEF Agrees
  <2>5. \A i \in 1..Done' : Agrees(tid[i])'
    BY <2>3, <2>4
  <2>6. QED
    BY <2>1, <2>5 DEF Even, Rebuilding
<1>30. CASE CreateIndexUndo
  <2>1. Unlist(target) /\ pc = "undo" /\ pc' = "relist"
    BY <1>30 DEF CreateIndexUndo, Goto
  <2>2. QED
    BY <2>1, <1>g DEF Even
<1>31. CASE Relist
  <2>1. /\ tid' = Append(tid, Head(queue)) /\ UNCHANGED <<trd, ix>> /\ pc = "relist" /\ pc' = "relist"
        /\ queue # <<>> /\ queue' = Tail(queue)
    BY <1>31 DEF Relist, Goto
  <2>2. /\ tid'[Len(tid) + 1] = queue[1] /\ \A i \in 1..Len(tid) : tid'[i] = tid[i]
        /\ DOMAIN tid' = 1..Len(tid) + 1
    BY <1>a, <2>1
  <2>3. /\ DOMAIN queue' = 1..Len(queue) - 1 /\ Len(queue) > 0 /\ Len(queue) \in Nat
        /\ \A i \in 1..Len(queue) - 1 : queue'[i] = queue[i + 1]
    BY <1>a, <2>1
  <2>4. AllAgree(tid) /\ AllAgree(queue)
    BY <2>1 DEF Even
  <2>5. AllAgree(tid)' /\ AllAgree(queue)'
    BY <1>a, <2>1, <2>2, <2>3, <2>4 DEF AllAgree, Agrees
  <2>6. QED
    BY <2>1, <2>5 DEF Even, Rebuilding
<1>32. CASE Relisted
  BY <1>32 DEF Relisted, Goto, disk, locals, Even, AllAgree, Agrees, Rebuilding
<1>33. CASE Unlink
  <2>1. /\ pc = "unlink" /\ pc' = "idle" /\ ix' = WithoutFile(target) /\ UNCHANGED <<trd, tid>>
    BY <1>33 DEF Unlink, UnlinkLeaving, End, Close
  <2>2. target \notin NamesIn(tid) /\ AllAgree(tid)
    BY <2>1 DEF FileNames, Even
  <2>3. AllAgree(tid)'
    BY <2>1, <2>2 DEF AllAgree, Agrees, NamesIn, WithoutFile
  <2>4. QED
    BY <2>1, <2>3 DEF Even, Rebuilding
<1>34. CASE Crash
  BY <1>34 DEF Crash
<1>35. CASE UNCHANGED vars
  BY <1>35, <1>d DEF vars, disk, locals
<1>36. QED
  BY <1>1, <1>2, <1>3, <1>4, <1>5, <1>6, <1>7, <1>8, <1>9, <1>10, <1>11, <1>12, <1>13, <1>14, <1>15, <1>16, <1>17, <1>18, <1>19, <1>20, <1>21, <1>22, <1>23, <1>24, <1>25, <1>26, <1>27, <1>28, <1>29, <1>30, <1>31, <1>32, <1>33, <1>34, <1>35 DEF Next, Start, Step

\* The end of a rebuild of all indexes brings a stale table back into agreement.
LEMMA AgreementStep ==
  ASSUME Known, crashes = 0, crashes' = 0, Shape, Agreement, [Next]_vars
  PROVE  Agreement'
<1> SUFFICES ASSUME ~ stale' PROVE Even'
  BY DEF Agreement
<1> USE DEF Known
<1>1. CASE ~ stale
  BY <1>1, EvenStep DEF Agreement
<1>2. CASE stale
  <2>1. RebuildDone /\ kind # "createIndex"
    BY <1>2, StaleStep DEF TypeInv, TypeOK
  <2>2. /\ pc = "rebuild" /\ pc' = "idle" /\ queue = <<>> /\ UNCHANGED <<trd, tid, ix, torn>>
    BY <2>1 DEF RebuildDone, Close, disk
  <2>3. Done = Len(tid) /\ DOMAIN tid = 1..Len(tid)
    BY <2>2 DEF Done, TypeInv, TypeOK
  <2>4. AllAgree(tid)
    BY <2>1, <2>2, <2>3 DEF HealInv, Rebuilding, AllAgree
  <2>5. QED
    BY <2>2, <2>4 DEF Even, AllAgree, Agrees, Rebuilding
<1>3. QED
  BY <1>1, <1>2

\* What UPDATE and DELETE write back has no two rows a unique index would confuse.
LEMMA ApartnessStep ==
  ASSUME Known, ~ stale, crashes = 0, Agreement, Apartness, [Next]_vars, crashes' = 0
  PROVE  Apartness'
<1> USE DEF Known
<1>a. /\ trd \in Seq(Row) /\ buf \in Seq(Row) /\ cur \in Nat /\ Len(trd) \in Nat /\ Len(buf) \in Nat
      /\ DOMAIN trd = 1..Len(trd) /\ DOMAIN buf = 1..Len(buf)
  BY DEF TypeInv, TypeOK
<1>b. ASSUME pc' \in {"idle", "row", "meta", "entry", "register", "undo", "relist", "unlink"}
      PROVE  Apartness'
  BY <1>b DEF Apartness, Rebuilding
<1>c. ASSUME pc' \in {"rebuild", "create", "fill"}, kind' # "delete"
      PROVE  Apartness'
  BY <1>c DEF Apartness, Rebuilding
<1>d. ASSUME UNCHANGED <<trd, tid>>, Rebuilding, UNCHANGED kind, pc' \in {"rebuild", "create", "fill"}
      PROVE  Apartness'
  BY <1>d DEF Apartness, Rebuilding, AllDistinct
<1>e. ASSUME UNCHANGED <<buf, tid, kind>>, pc \in {"scan", "truncate"}, pc' \in {"truncate", "write"}
      PROVE  Apartness'
  BY <1>e DEF Apartness, Rebuilding, AllDistinct
<1>1. ASSUME NEW rows \in Sources, Insert(rows) PROVE Apartness'
  BY <1>1, <1>b DEF Insert, Begin
<1>2. ASSUME NEW w \in Predicates, NEW a \in Assignments, Update(w, a) PROVE Apartness'
  BY <1>2 DEF Update, Begin, Apartness, Rebuilding
<1>3. ASSUME NEW w \in Predicates, NEW a \in Assignments, UpdateAnswered(w, a) PROVE Apartness'
  <2>1. pc = "idle" /\ pc' = "idle"
    BY <1>3 DEF UpdateAnswered, Answer
  <2>2. QED
    BY <2>1, <1>b
<1>4. ASSUME NEW w \in Predicates, Delete(w) PROVE Apartness'
  <2>1. pc = "idle" /\ pc' = "scan" /\ UNCHANGED <<trd, tid, buf, cur>>
    BY <1>4 DEF Delete, Begin, disk
  <2>2. AllDistinct(trd) /\ buf = <<>>
    BY <2>1, AgreeingDistinct DEF Agreement, Even, Counted
  <2>3. AllDistinct(trd)' /\ AllDistinct(buf)'
    BY <2>1, <2>2 DEF AllDistinct, Distinct
  <2>4. \A k \in DOMAIN tid : ScanApart(tid[k])'
    BY <2>1, <2>2 DEF ScanApart
  <2>5. QED
    BY <2>1, <2>3, <2>4 DEF Apartness, Rebuilding
<1>5. ASSUME NEW w \in Predicates, DeleteAnswered(w) PROVE Apartness'
  <2>1. pc = "idle" /\ pc' = "idle"
    BY <1>5 DEF DeleteAnswered, Answer
  <2>2. QED
    BY <2>1, <1>b
<1>6. ASSUME NEW d \in IndexDefs, CreateIndex(d) PROVE Apartness'
  BY <1>6, <1>b DEF CreateIndex, Begin, WithFile
<1>7. ASSUME NEW d \in IndexDefs, CreateIndexAnswered(d) PROVE Apartness'
  <2>1. pc = "idle" /\ pc' = "idle"
    BY <1>7 DEF CreateIndexAnswered, Answer
  <2>2. QED
    BY <2>1, <1>b
<1>8. ASSUME NEW n \in IndexNames, DropIndex(n) PROVE Apartness'
  BY <1>8, <1>b DEF DropIndex, Begin, Unlist
<1>9. ASSUME NEW n \in IndexNames, DropIndexAnswered(n) PROVE Apartness'
  <2>1. pc = "idle" /\ pc' = "idle"
    BY <1>9 DEF DropIndexAnswered, Answer
  <2>2. QED
    BY <2>1, <1>b
<1>10. CASE InsertDone
  BY <1>10, <1>b DEF InsertDone, End, Close, Forget
<1>11. CASE InsertRefused
  BY <1>11, <1>b DEF InsertRefused, End, Close, Forget
<1>12. CASE InsertAppend
  BY <1>12, <1>b DEF InsertAppend, Store, Goto
<1>13. CASE InsertCount
  BY <1>13, <1>b DEF InsertCount, Goto
<1>14. CASE InsertEntry
  BY <1>14, <1>b DEF InsertEntry, Goto
<1>15. CASE InsertEntryRefused
  <2>1. pc = "entry" /\ pc' = "rebuild" /\ UNCHANGED kind
    BY <1>15 DEF InsertEntryRefused, Goto
  <2>2. QED
    BY <2>1, <1>c DEF KindAt
<1>16. CASE InsertNext
  BY <1>16, <1>b DEF InsertNext, Goto
<1>17. CASE ScanKeeps
  <2>1. /\ pc = "scan" /\ pc' = "scan" /\ cur < Len(trd) /\ buf' = Append(buf, trd[cur + 1])
        /\ cur' = cur + 1 /\ UNCHANGED <<trd, tid>>
    BY <1>17 DEF ScanKeeps, Goto, disk
  <2>2. /\ trd[cur + 1] \in Row /\ cur + 1 \in DOMAIN trd
        /\ DOMAIN buf' = 1..Len(buf) + 1 /\ buf'[Len(buf) + 1] = trd[cur + 1]
        /\ \A i \in DOMAIN buf : buf'[i] = buf[i]
    BY <1>a, <2>1
  <2>3. ASSUME NEW k \in DOMAIN tid, tid[k].unique
        PROVE  Distinct(tid[k], buf)' /\ ScanApart(tid[k])'
    <3>1. Distinct(tid[k], buf) /\ Distinct(tid[k], trd) /\ ScanApart(tid[k])
      BY <2>1, <2>3 DEF Apartness, AllDistinct
    <3>2. ASSUME NEW i \in DOMAIN buf', NEW j \in DOMAIN buf',
                 Key(tid[k], buf'[i]) = Key(tid[k], buf'[j])
          PROVE  i = j
      <4>1. cur + 1 \in cur + 1..Len(trd)
        BY <1>a, <2>1
      <4>2. CASE i \in DOMAIN buf /\ j \in DOMAIN buf
        BY <2>2, <3>1, <3>2, <4>2 DEF Distinct
      <4>3. CASE i \in DOMAIN buf /\ j = Len(buf) + 1
        BY <2>2, <3>1, <3>2, <4>1, <4>3 DEF ScanApart
      <4>4. CASE i = Len(buf) + 1 /\ j \in DOMAIN buf
        BY <2>2, <3>1, <3>2, <4>1, <4>4 DEF ScanApart
      <4>5. QED
        BY <1>a, <2>2, <3>2, <4>2, <4>3, <4>4
    <3>3. ASSUME NEW i \in DOMAIN buf', NEW j \in cur + 2..Len(trd)
          PROVE  Key(tid[k], buf'[i]) # Key(tid[k], trd[j])
      <4>1. j \in cur + 1..Len(trd) /\ j \in DOMAIN trd /\ j # cur + 1
        BY <1>a
      <4>2. CASE i \in DOMAIN buf
        BY <2>2, <3>1, <4>1, <4>2 DEF ScanApart
      <4>3. CASE i = Len(buf) + 1
        BY <2>2, <3>1, <4>1, <4>3 DEF Distinct
      <4>4. QED
        BY <1>a, <2>2, <4>2, <4>3
    <3>4. tid'[k] = tid[k] /\ trd' = trd /\ cur' + 1 = cur + 2
      BY <1>a, <2>1
    <3>5. Distinct(tid[k], buf)'
      BY <3>2, <3>4 DEF Distinct
    <3>6. ScanApart(tid[k])'
      BY <3>3, <3>4 DEF ScanApart
    <3>7. QED
      BY <3>5, <3>6
  <2>4. AllDistinct(trd)'
    BY <2>1 DEF Apartness, AllDistinct
  <2>5. /\ AllDistinct(buf)'
        /\ (\A k \in DOMAIN tid : tid[k].unique => ScanApart(tid[k]))'
    BY <2>1, <2>3 DEF AllDistinct
  <2>6. QED
    BY <2>1, <2>4, <2>5 DEF Apartness, Rebuilding
<1>18. CASE ScanDrops
  <2>1. pc = "scan" /\ pc' = "scan" /\ cur' = cur + 1 /\ UNCHANGED <<trd, tid, buf>>
    BY <1>18 DEF ScanDrops, Goto, disk
  <2>2. AllDistinct(trd)' /\ AllDistinct(buf)'
    BY <2>1 DEF Apartness, AllDistinct
  <2>3. cur' + 1..Len(trd) \subseteq cur + 1..Len(trd)
    BY <1>a, <2>1
  <2>4. (\A k \in DOMAIN tid : tid[k].unique => ScanApart(tid[k]))'
    BY <2>1, <2>3 DEF Apartness, ScanApart
  <2>5. QED
    BY <2>1, <2>2, <2>4 DEF Apartness, Rebuilding
<1>19. CASE Scanned
  <2>1. pc = "scan" /\ pc' = "truncate" /\ UNCHANGED <<buf, tid, kind>>
    BY <1>19 DEF Scanned, Goto, disk, locals
  <2>2. QED
    BY <2>1, <1>e
<1>20. CASE Truncate
  <2>1. pc = "truncate" /\ pc' = "write" /\ UNCHANGED <<buf, tid, kind>>
    BY <1>20 DEF Truncate, Goto, locals
  <2>2. QED
    BY <2>1, <1>e
<1>21. CASE Write
  <2>1. pc = "write" /\ pc' = (IF kind = "delete" THEN "count" ELSE "rebuild") /\ trd' = buf /\ UNCHANGED <<tid, kind>>
    BY <1>21 DEF Write, WriteAndIndex, Goto
  <2>2. kind = "delete" => AllDistinct(trd)'
    BY <2>1 DEF Apartness, AllDistinct
  <2>3. QED
    BY <2>1, <2>2 DEF Apartness, Rebuilding
<1>22. CASE DeleteCount
  <2>1. pc = "count" /\ pc' = "rebuild" /\ UNCHANGED <<trd, tid>>
    BY <1>22 DEF DeleteCount, CountDown, Goto
  <2>2. AllDistinct(trd)'
    BY <2>1 DEF Apartness, AllDistinct
  <2>3. QED
    BY <2>1, <2>2 DEF Apartness, Rebuilding
<1>23. CASE RebuildNext
  <2>1. pc = "rebuild" /\ pc' = "create" /\ UNCHANGED <<kind, trd, tid>>
    BY <1>23 DEF RebuildNext, Goto
  <2>2. QED
    BY <2>1, <1>d DEF Rebuilding
<1>24. CASE RebuildCreate
  <2>1. pc = "create" /\ pc' = "fill" /\ UNCHANGED <<kind, trd, tid>>
    BY <1>24 DEF RebuildCreate, RebuildFrom, Goto
  <2>2. QED
    BY <2>1, <1>d DEF Rebuilding
<1>25. CASE RebuildEntry
  <2>1. pc = "fill" /\ pc' = "fill" /\ UNCHANGED <<kind, trd, tid>>
    BY <1>25 DEF RebuildEntry, Goto
  <2>2. QED
    BY <2>1, <1>d DEF Rebuilding
<1>26. CASE RebuildFilled
  <2>1. pc = "fill" /\ pc' = "rebuild" /\ UNCHANGED <<kind, trd, tid>>
    BY <1>26 DEF RebuildFilled, RebuildContinue, Goto, disk
  <2>2. QED
    BY <2>1, <1>d DEF Rebuilding
<1>27. CASE RebuildRefused
  BY <1>27, <1>b DEF RebuildRefused, Goto, Close
<1>28. CASE RebuildDone
  BY <1>28, <1>b DEF RebuildDone, Close
<1>29. CASE Register
  <2>1. pc = "register" /\ pc' = "rebuild" /\ UNCHANGED kind
    BY <1>29 DEF Register, Goto
  <2>2. QED
    BY <2>1, <1>c DEF KindAt
<1>30. CASE CreateIndexUndo
  BY <1>30, <1>b DEF CreateIndexUndo, Unlist, Goto
<1>31. CASE Relist
  BY <1>31, <1>b DEF Relist, Goto
<1>32. CASE Relisted
  BY <1>32, <1>b DEF Relisted, Goto
<1>33. CASE Unlink
  BY <1>33, <1>b DEF Unlink, UnlinkLeaving, End, Close, Forget
<1>34. CASE Crash
  BY <1>34 DEF Crash
<1>35. CASE UNCHANGED vars
  BY <1>35 DEF vars, disk, locals, Apartness, Rebuilding, AllDistinct, ScanApart
<1>36. QED
  BY <1>1, <1>2, <1>3, <1>4, <1>5, <1>6, <1>7, <1>8, <1>9, <1>10, <1>11, <1>12, <1>13, <1>14, <1>15, <1>16, <1>17, <1>18, <1>19, <1>20, <1>21, <1>22, <1>23, <1>24, <1>25, <1>26, <1>27, <1>28, <1>29, <1>30, <1>31, <1>32, <1>33, <1>34, <1>35 DEF Next, Start, Step

LEMMA DistinctnessStep ==
  ASSUME Known, crashes = 0, crashes' = 0, Agreement, Distinctness, [Next]_vars
  PROVE  Distinctness'
<1> SUFFICES ASSUME ~ stale' PROVE Apartness'
  BY DEF Distinctness
<1>1. CASE ~ stale
  BY <1>1, ApartnessStep DEF Distinctness
<1>2. CASE stale
  <2>1. pc' = "idle"
    BY <1>2, StaleStep DEF Known, TypeInv, TypeOK, RebuildDone, Close
  <2>2. QED
    BY <2>1 DEF Apartness, Rebuilding
<1>3. QED
  BY <1>1, <1>2

\* A statement other than an INSERT that has changed a row and reports an error
\* has met two rows with one key.
LEMMA OutcomeStep ==
  ASSUME Known, crashes = 0, crashes' = 0, Shape, Outcome, [Next]_vars
  PROVE  Outcome'
<1> USE DEF Known
<1>a. kind \in Kinds
  BY DEF TypeInv, TypeOK
<1>b. ASSUME before'.rows = trd, UNCHANGED trd PROVE Outcome'
  BY <1>b DEF Outcome
<1>c. ASSUME UNCHANGED <<trd, before, kind>>, pc # "idle", pc' # "idle" PROVE Outcome'
  BY <1>c DEF Outcome
<1>d. ASSUME UNCHANGED <<trd, before, kind>>, pc # "idle",
             reply' = "error" => kind \in {"insert", "createIndex", "dropIndex"}
      PROVE  Outcome'
  BY <1>d DEF Outcome
<1>e. ASSUME kind' \in {"insert", "update", "delete"}, pc' # "idle" PROVE Outcome'
  BY <1>e DEF Outcome
<1>1. ASSUME NEW rows \in Sources, Insert(rows) PROVE Outcome'
  BY <1>1, <1>b DEF Insert, Begin, disk, locals, history
<1>2. ASSUME NEW w \in Predicates, NEW a \in Assignments, Update(w, a) PROVE Outcome'
  BY <1>2, <1>b DEF Update, Begin, disk, locals, history
<1>3. ASSUME NEW w \in Predicates, NEW a \in Assignments, UpdateAnswered(w, a) PROVE Outcome'
  BY <1>3, <1>b DEF UpdateAnswered, Answer, disk, locals, history
<1>4. ASSUME NEW w \in Predicates, Delete(w) PROVE Outcome'
  BY <1>4, <1>b DEF Delete, Begin, disk, locals, history
<1>5. ASSUME NEW w \in Predicates, DeleteAnswered(w) PROVE Outcome'
  BY <1>5, <1>b DEF DeleteAnswered, Answer, disk, locals, history
<1>6. ASSUME NEW d \in IndexDefs, CreateIndex(d) PROVE Outcome'
  BY <1>6, <1>b DEF CreateIndex, Begin, WithFile, disk, locals, history
<1>7. ASSUME NEW d \in IndexDefs, CreateIndexAnswered(d) PROVE Outcome'
  BY <1>7, <1>b DEF CreateIndexAnswered, Answer, disk, locals, history
<1>8. ASSUME NEW n \in IndexNames, DropIndex(n) PROVE Outcome'
  BY <1>8, <1>b DEF DropIndex, Begin, Unlist, disk, locals, history
<1>9. ASSUME NEW n \in IndexNames, DropIndexAnswered(n) PROVE Outcome'
  BY <1>9, <1>b DEF DropIndexAnswered, Answer, disk, locals, history
<1>10. CASE InsertDone
  BY <1>10, <1>a, <1>d DEF InsertDone, End, Close, Forget, disk, locals, history, Kinds, KindAt, Rebuilding
<1>11. CASE InsertRefused
  BY <1>11, <1>a, <1>d DEF InsertRefused, End, Close, Forget, disk, locals, history, Kinds, KindAt, Rebuilding
<1>12. CASE InsertAppend
  <2>1. pc = "row" /\ pc' = "meta" /\ UNCHANGED kind
    BY <1>12 DEF InsertAppend, Store, Goto
  <2>2. QED
    BY <2>1, <1>e DEF KindAt
<1>13. CASE InsertCount
  BY <1>13, <1>c DEF InsertCount, Goto, disk, locals, history
<1>14. CASE InsertEntry
  BY <1>14, <1>c DEF InsertEntry, Goto, disk, locals, history
<1>15. CASE InsertEntryRefused
  BY <1>15, <1>c DEF InsertEntryRefused, Goto, disk, locals, history
<1>16. CASE InsertNext
  BY <1>16, <1>c DEF InsertNext, Goto, disk, locals, history
<1>17. CASE ScanKeeps
  BY <1>17, <1>c DEF ScanKeeps, Goto, disk, locals, history
<1>18. CASE ScanDrops
  BY <1>18, <1>c DEF ScanDrops, Goto, disk, locals, history
<1>19. CASE Scanned
  BY <1>19, <1>c DEF Scanned, Goto, disk, locals, history
<1>20. CASE Truncate
  <2>1. pc = "truncate" /\ pc' = "write" /\ UNCHANGED kind
    BY <1>20 DEF Truncate, Goto
  <2>2. QED
    BY <2>1, <1>e DEF KindAt
<1>21. CASE Write
  <2>1. pc = "write" /\ pc' \in {"count", "rebuild"} /\ UNCHANGED kind
    BY <1>21 DEF Write, WriteAndIndex, Goto
  <2>2. QED
    BY <2>1, <1>e DEF KindAt
<1>22. CASE DeleteCount
  BY <1>22, <1>c DEF DeleteCount, CountDown, Goto, disk, locals, history
<1>23. CASE RebuildNext
  BY <1>23, <1>c DEF RebuildNext, Goto, disk, locals, history
<1>24. CASE RebuildCreate
  BY <1>24, <1>c DEF RebuildCreate, RebuildFrom, Goto, disk, locals, history
<1>25. CASE RebuildEntry
  BY <1>25, <1>c DEF RebuildEntry, Goto, disk, locals, history
<1>26. CASE RebuildFilled
  BY <1>26, <1>c DEF RebuildFilled, RebuildContinue, Goto, disk, locals, history
<1>27. CASE RebuildRefused
  <2>1. /\ pc = "fill" /\ cur < Len(trd) /\ UNCHANGED <<trd, before, kind>>
        /\ Refuses(Head(queue), Key(Head(queue), trd[cur + 1]))
    BY <1>27 DEF RebuildRefused, Goto, End, Close, disk, history
  <2>2. CASE kind = "createIndex"
    BY <1>27, <2>1, <2>2, <1>c DEF RebuildRefused, Goto
  <2>3. CASE kind # "createIndex"
    <3>1. pc' = "idle" /\ stale' = TRUE
      BY <1>27, <2>3 DEF RebuildRefused, Close
    <3>2. kind \in {"update", "delete"}
      BY <1>a, <2>1, <2>3 DEF Shape, Rebuilding, KindAt, Kinds
    <3>3. \E k \in DOMAIN tid : tid[k].unique /\ ~ Distinct(tid[k], trd)
      BY <2>1, RefusedTwice
    <3>4. UNCHANGED tid
      BY <1>27 DEF RebuildRefused, disk
    <3>5. QED
      BY <2>1, <3>1, <3>2, <3>3, <3>4 DEF Outcome, Distinct
  <2>4. QED
    BY <2>2, <2>3
<1>28. CASE RebuildDone
  BY <1>28, <1>a, <1>d DEF RebuildDone, End, Close, Forget, disk, locals, history, Kinds, KindAt, Rebuilding
<1>29. CASE Register
  BY <1>29, <1>c DEF Register, Goto, disk, locals, history
<1>30. CASE CreateIndexUndo
  BY <1>30, <1>c DEF CreateIndexUndo, Unlist, Goto, disk, locals, history
<1>31. CASE Relist
  BY <1>31, <1>c DEF Relist, Goto, disk, locals, history
<1>32. CASE Relisted
  BY <1>32, <1>c DEF Relisted, Goto, disk, locals, history
<1>33. CASE Unlink
  BY <1>33, <1>a, <1>d DEF Unlink, UnlinkLeaving, End, Close, Forget, disk, locals, history, Kinds, KindAt, Rebuilding
<1>34. CASE Crash
  BY <1>34 DEF Crash
<1>35. CASE UNCHANGED vars
  BY <1>35 DEF vars, disk, locals, history, Outcome
<1>36. QED
  BY <1>1, <1>2, <1>3, <1>4, <1>5, <1>6, <1>7, <1>8, <1>9, <1>10, <1>11, <1>12, <1>13, <1>14, <1>15, <1>16, <1>17, <1>18, <1>19, <1>20, <1>21, <1>22, <1>23, <1>24, <1>25, <1>26, <1>27, <1>28, <1>29, <1>30, <1>31, <1>32, <1>33, <1>34, <1>35 DEF Next, Start, Step

-----------------------------------------------------------------------------
\* What is known without the crash counter, and what needs no crash.
LEMMA UpInit == Init => Known /\ UpInv
BY TypeInit DEF Init, Known, ListInv, FileInv, OnceIn, HealInv, KindAt, Counted, FileNames, Whole, UpInv,
  Shape, Agreement, Even, Distinctness, Apartness, Outcome, AllAgree, AllDistinct, NamesDistinct, NamesIn,
  Maintaining, Rebuilding

LEMMA KnownStep == Known /\ [Next]_vars => Known'
BY TypeStep, ListStep, FileStep, HealStep, KindStep, CountStep, FileNamesStep, WholeStep DEF Known

\* A crash is never taken back.
LEMMA CrashesGrow == ASSUME TypeInv, [Next]_vars, crashes' = 0 PROVE crashes = 0
<1>1. crashes \in Nat
  BY BoundsAssumption DEF TypeInv, TypeOK
<1>2. QED
  BY <1>1, CrashStep

\* Shape, agreement, distinctness and outcome survive every step that is no crash.
LEMMA UpStep == ASSUME Known, UpInv, [Next]_vars PROVE UpInv'
<1> SUFFICES ASSUME crashes' = 0 PROVE (Shape /\ Agreement /\ Distinctness /\ Outcome)'
  BY DEF UpInv
<1>1. crashes = 0
  BY CrashesGrow DEF Known
<1>2. QED
  BY <1>1, ShapeStep, AgreementStep, DistinctnessStep, OutcomeStep DEF UpInv

\* As long as no crash has happened, every index of a table between statements
\* holds one entry per row, under that row's key, unless the last rebuild of its
\* indexes was refused.
THEOREM IndexAgreesCorrect == Spec => []IndexAgrees
<1>1. Known /\ UpInv /\ [Next]_vars => Known' /\ UpInv'
  BY KnownStep, UpStep
<1>2. UpInv => IndexAgrees
  BY DEF UpInv, Agreement, Even, AllAgree, IndexAgrees, Quiet
<1>3. QED
  BY UpInit, <1>1, <1>2, PTL DEF Spec

\* ... and no two of its rows have one key in a unique index.
THEOREM UniqueEnforcedCorrect == Spec => []UniqueEnforced
<1>1. Known /\ UpInv /\ [Next]_vars => Known' /\ UpInv'
  BY KnownStep, UpStep
<1>2. Known /\ UpInv => UniqueEnforced
  BY AgreeingDistinct DEF Known, UpInv, Agreement, Even, AllDistinct, UniqueEnforced, Quiet
<1>3. QED
  BY UpInit, <1>1, <1>2, PTL DEF Spec

\* As long as no crash has happened, an UPDATE, DELETE, CREATE INDEX or DROP
\* INDEX that reports an error has changed no row, unless it is an UPDATE or
\* DELETE and two of the rows now have one key in a unique index.
THEOREM ErrorKeepsRowsCorrect == Spec => []ErrorKeepsRows
<1>1. Known /\ UpInv /\ [Next]_vars => Known' /\ UpInv'
  BY KnownStep, UpStep
<1>2. UpInv => ErrorKeepsRows
  BY DEF UpInv, Outcome, ErrorKeepsRows, Quiet
<1>3. QED
  BY UpInit, <1>1, <1>2, PTL DEF Spec

-----------------------------------------------------------------------------
(***************************************************************************)
(* The table as its clients see it.  While a statement runs, the state it  *)
(* found is kept in before; Progress says how far it has come from there,  *)
(* so that its end is one step of Table.                                   *)
(***************************************************************************)
\* INSERT has stored the first n rows of source; the others are still in src.
Inserting(source, n) ==
  /\ Len(src) = Len(source) - n
  /\ \A i \in 1..Len(src) : src[i] = source[n + i]
  /\ Len(trd) = Len(before.rows) + n
  /\ \A i \in 1..Len(before.rows) : trd[i] = before.rows[i]
  /\ \A i \in 1..n : trd[Len(before.rows) + i] = StoredRow(source[i])

\* A DELETE with this WHERE clause may have left new of the first n rows.
Left(rows, new, w, n) ==
  \E kept \in SUBSET (1..n) :
    /\ Client!Keeps(rows, new, kept)
    /\ \A i \in 1..n :
         /\ rows[i][PK] \notin DoomedKeys(rows, w) => i \in kept
         /\ i \in kept => rows[i][PK] \notin DoomedKeys(rows, w) \ RunsOn

\* What the running UPDATE or DELETE makes of the rows it found.
Result(rows) ==
  /\ kind = "update" =>
       \E w \in Predicates : \E a \in Assignments :
         AcceptsUpdate(before.rows, w, a) /\ rows = UpdatedRows(before.rows, w, a)
  /\ kind = "delete" =>
       \E w \in Predicates : Left(before.rows, rows, w, Len(before.rows))

RowsProgress ==
  /\ kind = "insert" => \E source \in Sources : \E n \in 0..Len(source) : Inserting(source, n)
  /\ pc = "scan" =>
       \E w \in Predicates :
         /\ trd = before.rows
         /\ doomed = DoomedKeys(trd, w)
         /\ Left(trd, buf, w, cur)
  /\ pc \in {"truncate", "write"} => Result(buf)
  /\ pc = "count" \/ Rebuilding => Result(trd)

\* CREATE INDEX has registered d.
Registering(d) ==
  /\ DefsIn(tid) = DefsIn(before.defs) \cup {d}
  /\ d.name = target
  /\ d.name \notin NamesIn(before.defs)

\* The definitions back in .tid or still to be written back are the old ones,
\* but for the index that DROP INDEX takes away.
Relisting ==
  LET list == DefsIn(tid) \cup DefsIn(queue)
  IN  /\ kind = "createIndex" => list = DefsIn(before.defs)
      /\ kind = "dropIndex" =>
           \E d \in DefsIn(before.defs) \cap IndexDefs : list = DefsIn(before.defs) \ {d}

DefsProgress ==
  /\ kind \in {"insert", "update", "delete"} \/ pc = "register" => tid = before.defs
  /\ kind = "createIndex" /\ (Rebuilding \/ pc = "undo") => \E d \in IndexDefs : Registering(d)
  /\ pc \in {"relist", "unlink"} => Relisting
  /\ pc = "unlink" => queue = <<>>

OldDistinct ==
  ~ stale => \A d \in DefsIn(before.defs) : d.unique => Distinct(d, before.rows)

Progress == crashes = 0 /\ pc # "idle" => OldDistinct /\ RowsProgress /\ DefsProgress

\* A statement has kept nothing before it has looked at a row.
LEMMA KeepsNone == ASSUME NEW old PROVE Client!Keeps(old, <<>>, {})
<1>1. DOMAIN <<>> = {}
  OBVIOUS
<1>2. [i \in {} |-> i] \in [{} -> {}]
  OBVIOUS
<1>3. QED
  BY <1>1, <1>2 DEF Client!Keeps

\* It keeps one row more.
LEMMA KeepsNext ==
  ASSUME NEW old \in Seq(Row), NEW new \in Seq(Row), NEW n \in Nat, n + 1 \in DOMAIN old,
         NEW positions \in SUBSET (1..n), Client!Keeps(old, new, positions)
  PROVE  Client!Keeps(old, Append(new, old[n + 1]), positions \cup {n + 1})
<1> DEFINE longer == Append(new, old[n + 1])
           last == Len(new) + 1
<1>1. PICK at \in [DOMAIN new -> positions] :
        /\ \A i, j \in DOMAIN new : i < j => at[i] < at[j]
        /\ \A p \in positions : \E i \in DOMAIN new : at[i] = p
        /\ \A i \in DOMAIN new : new[i] = old[at[i]]
  BY DEF Client!Keeps
<1>a. old[n + 1] \in Row
  OBVIOUS
<1>2. /\ Len(new) \in Nat /\ DOMAIN new = 1..Len(new) /\ DOMAIN longer = 1..last
      /\ longer[last] = old[n + 1] /\ \A i \in 1..Len(new) : longer[i] = new[i]
  BY <1>a
<1> DEFINE more == [i \in 1..last |-> IF i = last THEN n + 1 ELSE at[i]]
<1>3. ASSUME NEW i \in 1..Len(new) PROVE more[i] = at[i] /\ at[i] \in positions /\ at[i] \in 1..n
  <2>1. i \in 1..last /\ i # last /\ i \in DOMAIN new
    BY <1>2
  <2>2. more[i] = at[i]
    BY <2>1
  <2>3. at[i] \in positions
    BY <2>1
  <2>4. QED
    BY <2>2, <2>3
<1>4. more[last] = n + 1
  BY <1>2
<1>5. \A i \in 1..last : i = last \/ i \in 1..Len(new)
  BY <1>2
<1>6. more \in [DOMAIN longer -> positions \cup {n + 1}]
  BY <1>2, <1>3, <1>4, <1>5
<1> HIDE DEF more, longer
<1>7. ASSUME NEW i \in 1..last, NEW j \in 1..last, i < j PROVE more[i] < more[j]
  <2>1. i \in 1..Len(new)
    BY <1>2, <1>7
  <2>2. CASE j = last
    BY <1>3, <1>4, <2>1, <2>2
  <2>3. CASE j \in 1..Len(new)
    BY <1>1, <1>2, <1>3, <1>7, <2>1, <2>3
  <2>4. QED
    BY <1>5, <2>2, <2>3
<1>8. ASSUME NEW p \in positions \cup {n + 1} PROVE \E i \in 1..last : more[i] = p
  <2>1. CASE p = n + 1
    BY <1>2, <1>4, <2>1
  <2>2. CASE p \in positions
    <3>1. PICK i \in 1..Len(new) : at[i] = p
      BY <1>1, <1>2, <2>2
    <3>2. i \in 1..last /\ more[i] = p
      BY <1>2, <1>3, <3>1
    <3>3. QED
      BY <3>2
  <2>3. QED
    BY <2>1, <2>2
<1>9. \A i \in 1..last : longer[i] = old[more[i]]
  BY <1>1, <1>2, <1>3, <1>4, <1>5
<1>10. DOMAIN longer = 1..last
  BY <1>2
<1>b. \A i, j \in DOMAIN longer : i < j => more[i] < more[j]
  BY <1>7, <1>10
<1>c. \A p \in positions \cup {n + 1} : \E i \in DOMAIN longer : more[i] = p
  BY <1>8, <1>10
<1>d. \A i \in DOMAIN longer : longer[i] = old[more[i]]
  BY <1>9, <1>10
<1>11. Client!Keeps(old, longer, positions \cup {n + 1})
  BY <1>6, <1>b, <1>c, <1>d DEF Client!Keeps
<1>12. QED
  BY <1>11 DEF longer

\* A statement that selects no row keeps them all.
LEMMA KeepsAll == ASSUME NEW rows \in Seq(Row) PROVE Client!Keeps(rows, rows, DOMAIN rows)
<1>1. [i \in DOMAIN rows |-> i] \in [DOMAIN rows -> DOMAIN rows]
  OBVIOUS
<1>2. QED
  BY <1>1 DEF Client!Keeps

\* An INSERT that has stored n rows of its source has added what Table says.
LEMMA InsertedRows ==
  ASSUME TypeInv, NEW source \in Sources, NEW n \in 0..Len(source), Inserting(source, n)
  PROVE  trd = before.rows \o StoredRows(SubSeq(source, 1, n))
<1> DEFINE old == before.rows
           first == SubSeq(source, 1, n)
           new == StoredRows(first)
<1>1. trd \in Seq(Row) /\ old \in Seq(Row) /\ source \in Seq([Columns -> Given])
  BY StatementsAssumption DEF TypeInv, TypeOK
<1>2. first \in Seq([Columns -> Given]) /\ Len(first) = n /\ \A i \in 1..n : first[i] = source[i]
  BY <1>1, SubSeqProperties
<1>3. new \in [1..n -> Row] /\ \A i \in 1..n : new[i] = StoredRow(source[i])
  BY <1>2, StoredRowType DEF StoredRows
<1>4. new \in Seq(Row) /\ Len(new) = n
  BY <1>3
<1> HIDE DEF new
<1>5. /\ Len(trd) = Len(old) + n
      /\ \A i \in 1..Len(old) : trd[i] = old[i]
      /\ \A i \in 1..n : trd[Len(old) + i] = new[i]
  BY <1>3 DEF Inserting
<1> HIDE DEF old
<1>6. Len(old) \in Nat /\ n \in Nat
  BY <1>1
<1>7. /\ old \o new \in Seq(Row) /\ Len(old \o new) = Len(old) + n
      /\ \A i \in 1..Len(old) + n : (old \o new)[i] = IF i <= Len(old) THEN old[i] ELSE new[i - Len(old)]
  BY <1>1, <1>4, ConcatProperties
<1>8. ASSUME NEW i \in 1..Len(old) + n PROVE trd[i] = (old \o new)[i]
  <2>1. CASE i <= Len(old)
    BY <1>5, <1>6, <1>7, <2>1
  <2>2. CASE ~ i <= Len(old)
    <3>1. i - Len(old) \in 1..n /\ Len(old) + (i - Len(old)) = i
      BY <1>6, <2>2
    <3>2. trd[i] = new[i - Len(old)]
      BY <1>5, <3>1
    <3>3. QED
      BY <1>7, <2>2, <3>2
  <2>3. QED
    BY <2>1, <2>2
<1>10. trd = old \o new
  BY <1>1, <1>5, <1>7, <1>8
<1>11. QED
  BY <1>10 DEF old, new

\* The definitions of a list, after one is taken out, added or read off.
LEMMA DropDefs ==
  ASSUME NEW list \in Seq(IndexDefs), NamesDistinct(list), NEW p \in DOMAIN list
  PROVE  DefsIn(Drop(list, p)) = DefsIn(list) \ {list[p]}
<1> DEFINE kept == Drop(list, p)
<1>1. kept \in Seq(IndexDefs) /\ Len(kept) = Len(list) - 1 /\ p \in 1..Len(list) /\ Len(list) \in Nat
  BY DropType, DropElements
<1>2. \A i \in 1..Len(list) - 1 : kept[i] = list[IF i < p THEN i ELSE i + 1]
  BY DropElements
<1> HIDE DEF kept
<1>3. ASSUME NEW i \in 1..Len(list) - 1 PROVE kept[i] \in DefsIn(list) \ {list[p]}
  <2>1. PICK j \in 1..Len(list) : j = IF i < p THEN i ELSE i + 1
    BY <1>1
  <2>2. kept[i] = list[j] /\ j # p
    BY <1>1, <1>2, <2>1
  <2>3. list[j] # list[p]
    BY <1>1, <2>2 DEF NamesDistinct
  <2>4. QED
    BY <1>1, <2>2, <2>3 DEF DefsIn
<1>4. ASSUME NEW j \in 1..Len(list), j # p PROVE list[j] \in DefsIn(kept)
  <2>1. PICK i \in 1..Len(list) - 1 : i = IF j < p THEN j ELSE j - 1
    BY <1>1, <1>4
  <2>2. kept[i] = list[j] /\ i \in DOMAIN kept
    BY <1>1, <1>2, <1>4, <2>1
  <2>3. QED
    BY <2>2 DEF DefsIn
<1>5. DefsIn(kept) = DefsIn(list) \ {list[p]}
  BY <1>1, <1>3, <1>4, SMTT(60) DEF DefsIn
<1>6. QED
  BY <1>5 DEF kept

LEMMA AppendDefs ==
  ASSUME NEW list \in Seq(IndexDefs), NEW d \in IndexDefs
  PROVE  DefsIn(Append(list, d)) = DefsIn(list) \cup {d}
<1>1. /\ Append(list, d) \in Seq(IndexDefs) /\ Len(Append(list, d)) = Len(list) + 1
      /\ \A i \in 1..Len(list) : Append(list, d)[i] = list[i]
      /\ Append(list, d)[Len(list) + 1] = d
  OBVIOUS
<1>2. QED
  BY <1>1 DEF DefsIn

LEMMA TailDefs ==
  ASSUME NEW list \in Seq(IndexDefs), list # <<>>
  PROVE  DefsIn(list) = DefsIn(Tail(list)) \cup {Head(list)} /\ Head(list) \in IndexDefs
<1>1. /\ Len(list) \in Nat /\ Len(list) > 0 /\ Head(list) = list[1]
      /\ Len(Tail(list)) = Len(list) - 1 /\ Tail(list) \in Seq(IndexDefs)
      /\ \A i \in 1..Len(list) - 1 : Tail(list)[i] = list[i + 1]
  OBVIOUS
<1>2. ASSUME NEW i \in 1..Len(list), i # 1 PROVE list[i] \in DefsIn(Tail(list))
  <2>1. i - 1 \in DOMAIN Tail(list) /\ Tail(list)[i - 1] = list[i]
    BY <1>1, <1>2
  <2>2. QED
    BY <2>1 DEF DefsIn
<1>3. ASSUME NEW i \in 1..Len(list) - 1 PROVE Tail(list)[i] \in DefsIn(list)
  BY <1>1, <1>3 DEF DefsIn
<1>4. list[1] \in DefsIn(list) /\ list[1] \in IndexDefs
  BY <1>1 DEF DefsIn
<1>5. QED
  BY <1>1, <1>2, <1>3, <1>4, SMTT(30) DEF DefsIn

\* Every step keeps the running statement on its way from the rows it found.
LEMMA RowsProgressStep ==
  ASSUME Known, Shape, Shape', crashes = 0, crashes' = 0, pc # "idle" => RowsProgress /\ DefsProgress,
         pc' # "idle", [Next]_vars
  PROVE  RowsProgress'
<1> USE DEF Known
<1>a. /\ trd \in Seq(Row) /\ buf \in Seq(Row) /\ before.rows \in Seq(Row) /\ cur \in Nat /\ kind \in Kinds
      /\ src \in Seq([Columns -> Given])
  BY DEF TypeInv, TypeOK
<1>b. ASSUME kind = "insert", UNCHANGED <<kind, trd, src, before>>, pc # "idle", pc' \in {"row", "meta", "entry"}
      PROVE  RowsProgress'
  <2>1. PICK source \in Sources : \E n \in 0..Len(source) : Inserting(source, n)
    BY <1>b DEF RowsProgress
  <2>2. PICK n \in 0..Len(source) : Inserting(source, n)
    BY <2>1
  <2>3. Inserting(source, n)'
    BY <1>b, <2>2 DEF Inserting
  <2>4. QED
    BY <1>b, <2>3 DEF RowsProgress, Rebuilding
<1>c. ASSUME kind' \in {"createIndex", "dropIndex"}, pc' \notin {"scan", "count"} PROVE RowsProgress'
  BY <1>c DEF RowsProgress, Result
<1>d. ASSUME kind' \in {"update", "delete"}, pc' \in {"truncate", "write"}, Result(buf)' PROVE RowsProgress'
  BY <1>d DEF RowsProgress, Rebuilding
<1>e. ASSUME kind' \in {"update", "delete"}, pc' \in {"count", "rebuild", "create", "fill"}, Result(trd)'
      PROVE  RowsProgress'
  BY <1>e DEF RowsProgress
<1>f. ASSUME pc = "count" \/ Rebuilding, pc' \in {"rebuild", "create", "fill"}, UNCHANGED <<kind, trd, before>>
      PROVE  RowsProgress'
  <2>1. kind \in {"update", "delete", "createIndex"}
    BY <1>a, <1>f DEF KindAt, Kinds, Shape, Rebuilding
  <2>2. CASE kind = "createIndex"
    BY <1>c, <1>f, <2>2
  <2>3. CASE kind \in {"update", "delete"}
    <3>1. Result(trd)
      BY <1>f DEF RowsProgress, Rebuilding
    <3>2. Result(trd)'
      BY <1>f, <3>1 DEF Result
    <3>3. QED
      BY <1>e, <1>f, <2>3, <3>2
  <2>4. QED
    BY <2>1, <2>2, <2>3
<1>1. ASSUME NEW rows \in Sources, Insert(rows) PROVE RowsProgress'
  <2>1. /\ kind' = "insert" /\ pc' = "row" /\ before' = [rows |-> trd, defs |-> tid] /\ src' = rows
        /\ UNCHANGED trd
    BY <1>1 DEF Insert, Begin, disk
  <2>2. rows \in Seq([Columns -> Given]) /\ Len(rows) \in Nat
    BY StatementsAssumption
  <2>3. Inserting(rows, 0)'
    BY <1>a, <2>1, <2>2 DEF Inserting
  <2>4. 0 \in 0..Len(rows)
    BY <2>2
  <2>5. QED
    BY <2>1, <2>3, <2>4 DEF RowsProgress, Rebuilding
<1>2. ASSUME NEW w \in Predicates, NEW a \in Assignments, Update(w, a) PROVE RowsProgress'
  <2>1. /\ kind' = "update" /\ pc' = "truncate" /\ before' = [rows |-> trd, defs |-> tid]
        /\ buf' = UpdatedRows(trd, w, a) /\ AcceptsUpdate(trd, w, a)
    BY <1>2 DEF Update, Begin
  <2>2. Result(buf)'
    BY <2>1 DEF Result
  <2>3. QED
    BY <1>d, <2>1, <2>2
<1>3. ASSUME NEW w \in Predicates, NEW a \in Assignments, UpdateAnswered(w, a) PROVE RowsProgress'
  BY <1>3 DEF UpdateAnswered, Answer
<1>4. ASSUME NEW w \in Predicates, Delete(w) PROVE RowsProgress'
  <2>1. /\ kind' = "delete" /\ pc' = "scan" /\ before' = [rows |-> trd, defs |-> tid]
        /\ doomed' = DoomedKeys(trd, w) /\ UNCHANGED <<trd, buf, cur>> /\ buf = <<>> /\ cur = 0
    BY <1>4 DEF Delete, Begin, disk, Counted
  <2>2. Client!Keeps(trd, <<>>, {})
    BY KeepsNone
  <2>3. Left(trd, buf, w, cur)
    BY <2>1, <2>2 DEF Left
  <2>4. Left(trd, buf, w, cur)'
    BY <2>1, <2>3
  <2>5. QED
    BY <2>1, <2>4 DEF RowsProgress, Rebuilding
<1>5. ASSUME NEW w \in Predicates, DeleteAnswered(w) PROVE RowsProgress'
  BY <1>5 DEF DeleteAnswered, Answer
<1>6. ASSUME NEW d \in IndexDefs, CreateIndex(d) PROVE RowsProgress'
  BY <1>6, <1>c DEF CreateIndex, Begin
<1>7. ASSUME NEW d \in IndexDefs, CreateIndexAnswered(d) PROVE RowsProgress'
  BY <1>7 DEF CreateIndexAnswered, Answer
<1>8. ASSUME NEW n \in IndexNames, DropIndex(n) PROVE RowsProgress'
  BY <1>8, <1>c DEF DropIndex, Begin
<1>9. ASSUME NEW n \in IndexNames, DropIndexAnswered(n) PROVE RowsProgress'
  BY <1>9 DEF DropIndexAnswered, Answer
<1>10. CASE InsertDone
  BY <1>10 DEF InsertDone, End, Close
<1>11. CASE InsertRefused
  BY <1>11 DEF InsertRefused, End, Close
<1>12. CASE InsertAppend
  <2> DEFINE row == StoredRow(Head(src))
  <2>1. /\ pc = "row" /\ pc' = "meta" /\ src # <<>> /\ trd' = Append(trd, row) /\ src' = Tail(src)
        /\ UNCHANGED <<kind, before>>
    BY <1>12 DEF InsertAppend, Store, Goto, history
  <2>2. kind = "insert"
    BY <2>1 DEF KindAt
  <2>a. PICK source \in Sources : \E n \in 0..Len(source) : Inserting(source, n)
    BY <2>1, <2>2 DEF RowsProgress
  <2>3. PICK n \in 0..Len(source) : Inserting(source, n)
    BY <2>a
  <2>4. source \in Seq([Columns -> Given]) /\ Len(source) \in Nat /\ n \in Nat
    BY StatementsAssumption
  <2>5. /\ Len(src) \in Nat /\ Len(src) > 0 /\ Len(src') = Len(src) - 1 /\ Head(src) = src[1]
        /\ \A i \in 1..Len(src) - 1 : src'[i] = src[i + 1]
    BY <1>a, <2>1
  <2>6. n + 1 \in 0..Len(source) /\ Head(src) = source[n + 1]
    BY <2>3, <2>4, <2>5 DEF Inserting
  <2>7. row \in Row
    BY <1>a, <2>1, StoredRowType
  <2>8. /\ Len(trd) \in Nat /\ Len(trd') = Len(trd) + 1 /\ trd'[Len(trd) + 1] = row
        /\ \A i \in 1..Len(trd) : trd'[i] = trd[i]
    BY <1>a, <2>1, <2>7
  <2> DEFINE old == before.rows
  <2>9. Len(old) \in Nat /\ Len(trd) = Len(old) + n
    BY <1>a, <2>3 DEF Inserting
  <2>10. Inserting(source, n + 1)'
    <3>1. Len(src') = Len(source) - (n + 1)
      BY <2>3, <2>4, <2>5 DEF Inserting
    <3>2. ASSUME NEW i \in 1..Len(src') PROVE src'[i] = source[n + 1 + i]
      <4>1. i \in 1..Len(src) - 1 /\ i + 1 \in 1..Len(src) /\ n + (i + 1) = n + 1 + i
        BY <2>4, <2>5
      <4>2. src'[i] = src[i + 1] /\ src[i + 1] = source[n + (i + 1)]
        BY <2>3, <2>5, <4>1 DEF Inserting
      <4>3. QED
        BY <4>1, <4>2
    <3>3. Len(trd') = Len(old) + (n + 1)
      BY <2>4, <2>8, <2>9
    <3>4. \A i \in 1..Len(old) : trd'[i] = old[i]
      BY <2>3, <2>4, <2>8, <2>9 DEF Inserting
    <3>5. ASSUME NEW i \in 1..n + 1 PROVE trd'[Len(old) + i] = StoredRow(source[i])
      <4>1. CASE i = n + 1
        <5>1. Len(old) + i = Len(trd) + 1
          BY <2>8, <3>3, <4>1
        <5>2. row = StoredRow(source[i])
          BY <2>6, <4>1
        <5>3. QED
          BY <2>8, <5>1, <5>2
      <4>2. CASE i \in 1..n
        <5>1. Len(old) + i \in 1..Len(trd)
          BY <2>4, <2>9, <4>2
        <5>2. trd[Len(old) + i] = StoredRow(source[i])
          BY <2>3, <4>2 DEF Inserting
        <5>3. QED
          BY <2>8, <5>1, <5>2
      <4>3. QED
        BY <2>4, <4>1, <4>2
    <3>6. before' = before
      BY <2>1
    <3>7. QED
      BY <3>1, <3>2, <3>3, <3>4, <3>5, <3>6 DEF Inserting
  <2>11. QED
    BY <2>1, <2>2, <2>6, <2>10 DEF RowsProgress, Rebuilding
<1>13. CASE InsertCount
  BY <1>13, <1>b DEF InsertCount, Goto, history, KindAt
<1>14. CASE InsertEntry
  BY <1>14, <1>b DEF InsertEntry, Goto, history, KindAt
<1>15. CASE InsertEntryRefused
  <2>1. pc = "entry" /\ pc' = "rebuild" /\ UNCHANGED kind
    BY <1>15 DEF InsertEntryRefused, Goto
  <2>2. QED
    BY <2>1 DEF KindAt, Shape, Rebuilding
<1>16. CASE InsertNext
  BY <1>16, <1>b DEF InsertNext, Goto, disk, locals, history, KindAt
<1>17. CASE ScanKeeps
  <2>1. /\ pc = "scan" /\ pc' = "scan" /\ cur < Len(trd) /\ trd[cur + 1][PK] \notin doomed \ RunsOn
        /\ buf' = Append(buf, trd[cur + 1]) /\ cur' = cur + 1 /\ UNCHANGED <<kind, before, trd, doomed>>
    BY <1>17 DEF ScanKeeps, Goto, disk, history
  <2>2. PICK w \in Predicates : trd = before.rows /\ doomed = DoomedKeys(trd, w) /\ Left(trd, buf, w, cur)
    BY <2>1 DEF RowsProgress
  <2>3. PICK kept \in SUBSET (1..cur) :
          /\ Client!Keeps(trd, buf, kept)
          /\ \A i \in 1..cur : /\ trd[i][PK] \notin doomed => i \in kept
                               /\ i \in kept => trd[i][PK] \notin doomed \ RunsOn
    BY <2>2 DEF Left
  <2> DEFINE more == kept \cup {cur + 1}
  <2>4. cur + 1 \in DOMAIN trd /\ more \in SUBSET (1..cur + 1)
        /\ \A i \in 1..cur + 1 : i \in 1..cur \/ i = cur + 1
    BY <1>a, <2>1
  <2>5. Client!Keeps(trd, buf', more)
    BY <1>a, <2>1, <2>3, <2>4, KeepsNext
  <2>6. ASSUME NEW i \in 1..cur + 1
        PROVE  /\ trd[i][PK] \notin doomed => i \in more
               /\ i \in more => trd[i][PK] \notin doomed \ RunsOn
    <3>1. CASE i = cur + 1
      BY <2>1, <3>1
    <3>2. CASE i \in 1..cur
      <4>1. i # cur + 1
        BY <1>a, <3>2
      <4>2. QED
        BY <2>3, <3>2, <4>1
    <3>3. QED
      BY <2>4, <3>1, <3>2
  <2> HIDE DEF more
  <2>7. Left(trd, buf', w, cur + 1)
    BY <2>2, <2>4, <2>5, <2>6 DEF Left
  <2>8. Left(trd', buf', w, cur')
    BY <2>1, <2>7
  <2>9. QED
    BY <2>1, <2>2, <2>8 DEF RowsProgress, Rebuilding, KindAt
<1>18. CASE ScanDrops
  <2>1. /\ pc = "scan" /\ pc' = "scan" /\ cur < Len(trd) /\ trd[cur + 1][PK] \in doomed
        /\ cur' = cur + 1 /\ UNCHANGED <<kind, before, trd, buf, doomed>>
    BY <1>18 DEF ScanDrops, Goto, disk, history
  <2>2. PICK w \in Predicates : trd = before.rows /\ doomed = DoomedKeys(trd, w) /\ Left(trd, buf, w, cur)
    BY <2>1 DEF RowsProgress
  <2>3. PICK kept \in SUBSET (1..cur) :
          /\ Client!Keeps(trd, buf, kept)
          /\ \A i \in 1..cur : /\ trd[i][PK] \notin doomed => i \in kept
                               /\ i \in kept => trd[i][PK] \notin doomed \ RunsOn
    BY <2>2 DEF Left
  <2>4. /\ kept \in SUBSET (1..cur + 1) /\ cur + 1 \notin kept
        /\ \A i \in 1..cur + 1 : i \in 1..cur \/ i = cur + 1
    BY <1>a, <2>1
  <2>5. ASSUME NEW i \in 1..cur + 1
        PROVE  /\ trd[i][PK] \notin doomed => i \in kept
               /\ i \in kept => trd[i][PK] \notin doomed \ RunsOn
    <3>1. CASE i = cur + 1
      BY <2>1, <2>4, <3>1
    <3>2. CASE i \in 1..cur
      BY <2>3, <3>2
    <3>3. QED
      BY <2>4, <3>1, <3>2
  <2>6. Left(trd, buf, w, cur + 1)
    BY <2>2, <2>3, <2>4, <2>5 DEF Left
  <2>7. Left(trd', buf', w, cur')
    BY <2>1, <2>6
  <2>8. QED
    BY <2>1, <2>2, <2>7 DEF RowsProgress, Rebuilding, KindAt
<1>19. CASE Scanned
  <2>1. /\ pc = "scan" /\ pc' = "truncate" /\ cur = Len(trd) /\ UNCHANGED <<kind, before, buf>>
    BY <1>19 DEF Scanned, Goto, locals, history
  <2>2. PICK w \in Predicates : trd = before.rows /\ Left(trd, buf, w, cur)
    BY <2>1 DEF RowsProgress
  <2>3. Left(before.rows, buf, w, Len(before.rows))
    BY <2>1, <2>2
  <2>4. kind = "delete"
    BY <2>1 DEF KindAt
  <2>5. Result(buf)'
    BY <2>1, <2>3, <2>4 DEF Result
  <2>6. QED
    BY <1>d, <2>1, <2>4, <2>5
<1>20. CASE Truncate
  <2>1. /\ pc = "truncate" /\ pc' = "write" /\ UNCHANGED <<kind, before, buf>>
    BY <1>20 DEF Truncate, Goto, locals, history
  <2>2. kind \in {"update", "delete"} /\ Result(buf)
    BY <2>1 DEF KindAt, RowsProgress
  <2>3. Result(buf)'
    BY <2>1, <2>2 DEF Result
  <2>4. QED
    BY <1>d, <2>1, <2>2, <2>3
<1>21. CASE Write
  <2>1. /\ pc = "write" /\ pc' \in {"count", "rebuild"} /\ trd' = buf /\ UNCHANGED <<kind, before>>
    BY <1>21 DEF Write, WriteAndIndex, Goto, history
  <2>2. kind \in {"update", "delete"} /\ Result(buf)
    BY <2>1 DEF KindAt, RowsProgress
  <2>3. Result(trd)'
    BY <2>1, <2>2 DEF Result
  <2>4. QED
    BY <1>e, <2>1, <2>2, <2>3
<1>22. CASE DeleteCount
  BY <1>22, <1>f DEF DeleteCount, CountDown, Goto, history
<1>23. CASE RebuildNext
  BY <1>23, <1>f DEF RebuildNext, Goto, history, Rebuilding
<1>24. CASE RebuildCreate
  BY <1>24, <1>f DEF RebuildCreate, RebuildFrom, Goto, history, Rebuilding
<1>25. CASE RebuildEntry
  BY <1>25, <1>f DEF RebuildEntry, Goto, history, Rebuilding
<1>26. CASE RebuildFilled
  BY <1>26, <1>f DEF RebuildFilled, RebuildContinue, Goto, disk, history, Rebuilding
<1>27. CASE RebuildRefused
  BY <1>27, <1>c DEF RebuildRefused, Goto, End, Close
<1>28. CASE RebuildDone
  BY <1>28 DEF RebuildDone, End, Close
<1>29. CASE Register
  BY <1>29, <1>c DEF Register, Goto, KindAt
<1>30. CASE CreateIndexUndo
  BY <1>30, <1>c DEF CreateIndexUndo, Goto, KindAt
<1>31. CASE Relist
  BY <1>31, <1>c DEF Relist, Goto, KindAt
<1>32. CASE Relisted
  BY <1>32, <1>c DEF Relisted, Goto, KindAt
<1>33. CASE Unlink
  BY <1>33 DEF Unlink, UnlinkLeaving, End, Close
<1>34. CASE Crash
  BY <1>34 DEF Crash
<1>35. CASE UNCHANGED vars
  <2>1. RowsProgress /\ UNCHANGED <<pc, kind, trd, src, buf, doomed, cur, before>>
    BY <1>35 DEF vars, disk, locals, history
  <2>2. (\E source \in Sources : \E n \in 0..Len(source) : Inserting(source, n))
          => (\E source \in Sources : \E n \in 0..Len(source) : Inserting(source, n))'
    BY <2>1 DEF Inserting
  <2>3. (Result(buf) => Result(buf)') /\ (Result(trd) => Result(trd)')
    BY <2>1 DEF Result
  <2>4. ASSUME NEW w \in Predicates, Left(trd, buf, w, cur) PROVE Left(trd, buf, w, cur)'
    BY <2>1, <2>4
  <2>5. QED
    BY <2>1, <2>2, <2>3, <2>4 DEF RowsProgress, Rebuilding
<1>36. QED
  BY <1>1, <1>2, <1>3, <1>4, <1>5, <1>6, <1>7, <1>8, <1>9, <1>10, <1>11, <1>12, <1>13, <1>14, <1>15, <1>16, <1>17, <1>18, <1>19, <1>20, <1>21, <1>22, <1>23, <1>24, <1>25, <1>26, <1>27, <1>28, <1>29, <1>30, <1>31, <1>32, <1>33, <1>34, <1>35 DEF Next, Start, Step

\* Every step keeps .tid on its way from the definitions it found.
LEMMA DefsProgressStep ==
  ASSUME Known, Shape, Shape', crashes = 0, crashes' = 0, pc # "idle" => DefsProgress,
         pc' # "idle", [Next]_vars
  PROVE  DefsProgress'
<1> USE DEF Known
<1>a. tid \in Seq(IndexDefs) /\ queue \in Seq(IndexDefs) /\ kind \in Kinds
  BY DEF TypeInv, TypeOK
<1>b. ASSUME tid' = before'.defs, pc' \notin {"undo", "relist", "unlink"}, kind' # "createIndex" \/ pc' = "register"
      PROVE  DefsProgress'
  BY <1>b DEF DefsProgress, Rebuilding
<1>c. ASSUME kind \in {"insert", "update", "delete"}, pc # "idle", UNCHANGED <<kind, tid, before>>,
             pc' \notin {"undo", "relist", "unlink"}
      PROVE  DefsProgress'
  BY <1>b, <1>c DEF DefsProgress
<1>d. ASSUME Rebuilding, pc' \in {"rebuild", "create", "fill", "undo"}, pc' = "undo" => kind = "createIndex",
             UNCHANGED <<kind, tid, before, target>>
      PROVE  DefsProgress'
  <2>1. kind \in {"update", "delete", "createIndex"}
    BY <1>a, <1>d DEF KindAt, Kinds, Shape, Rebuilding
  <2>2. CASE kind \in {"update", "delete"}
    BY <1>c, <1>d, <2>2 DEF Rebuilding
  <2>3. CASE kind = "createIndex"
    <3>1. PICK d \in IndexDefs : Registering(d)
      BY <1>d, <2>3 DEF DefsProgress, Rebuilding
    <3>2. Registering(d)'
      BY <1>d, <3>1 DEF Registering, DefsIn, NamesIn
    <3>3. QED
      BY <1>d, <2>3, <3>2 DEF DefsProgress
  <2>4. QED
    BY <2>1, <2>2, <2>3
<1>e. ASSUME kind \in {"createIndex", "dropIndex"}, pc' \in {"relist", "unlink"}, Relisting',
             pc' = "unlink" => queue' = <<>>, UNCHANGED kind
      PROVE  DefsProgress'
  BY <1>e DEF DefsProgress, Rebuilding
<1>1. ASSUME NEW rows \in Sources, Insert(rows) PROVE DefsProgress'
  BY <1>1, <1>b DEF Insert, Begin, disk
<1>2. ASSUME NEW w \in Predicates, NEW a \in Assignments, Update(w, a) PROVE DefsProgress'
  BY <1>2, <1>b DEF Update, Begin, disk
<1>3. ASSUME NEW w \in Predicates, NEW a \in Assignments, UpdateAnswered(w, a) PROVE DefsProgress'
  BY <1>3 DEF UpdateAnswered, Answer
<1>4. ASSUME NEW w \in Predicates, Delete(w) PROVE DefsProgress'
  BY <1>4, <1>b DEF Delete, Begin, disk
<1>5. ASSUME NEW w \in Predicates, DeleteAnswered(w) PROVE DefsProgress'
  BY <1>5 DEF DeleteAnswered, Answer
<1>6. ASSUME NEW d \in IndexDefs, CreateIndex(d) PROVE DefsProgress'
  BY <1>6, <1>b DEF CreateIndex, Begin
<1>7. ASSUME NEW d \in IndexDefs, CreateIndexAnswered(d) PROVE DefsProgress'
  BY <1>7 DEF CreateIndexAnswered, Answer
<1>8. ASSUME NEW n \in IndexNames, DropIndex(n) PROVE DefsProgress'
  <2>1. /\ kind' = "dropIndex" /\ pc' = "relist" /\ before' = [rows |-> trd, defs |-> tid] /\ tid' = <<>>
    BY <1>8 DEF DropIndex, Begin, Unlist
  <2>2. PICK p \in DOMAIN tid : queue' = Drop(tid, p)
    BY <1>8 DEF DropIndex, Unlist
  <2>3. DefsIn(queue') = DefsIn(tid) \ {tid[p]}
    BY <1>a, <2>2, DropDefs DEF ListInv
  <2>4. DefsIn(tid') = {} /\ tid[p] \in DefsIn(tid) \cap IndexDefs /\ before'.defs = tid
    BY <1>a, <2>1 DEF DefsIn
  <2>5. /\ DefsIn(tid)' = DefsIn(tid') /\ DefsIn(queue)' = DefsIn(queue')
        /\ DefsIn(before.defs)' = DefsIn(tid)
    BY <2>4 DEF DefsIn
  <2>6. Relisting'
    BY <2>1, <2>3, <2>4, <2>5 DEF Relisting
  <2>7. QED
    BY <2>1, <2>6 DEF DefsProgress, Rebuilding
<1>9. ASSUME NEW n \in IndexNames, DropIndexAnswered(n) PROVE DefsProgress'
  BY <1>9 DEF DropIndexAnswered, Answer
<1>10. CASE InsertDone
  BY <1>10 DEF InsertDone, End, Close
<1>11. CASE InsertRefused
  BY <1>11 DEF InsertRefused, End, Close
<1>12. CASE InsertAppend
  BY <1>12, <1>c DEF InsertAppend, Store, Goto, history, KindAt
<1>13. CASE InsertCount
  BY <1>13, <1>c DEF InsertCount, Goto, history, KindAt
<1>14. CASE InsertEntry
  BY <1>14, <1>c DEF InsertEntry, Goto, history, KindAt
<1>15. CASE InsertEntryRefused
  BY <1>15, <1>c DEF InsertEntryRefused, Goto, disk, history, KindAt
<1>16. CASE InsertNext
  BY <1>16, <1>c DEF InsertNext, Goto, disk, history, KindAt
<1>17. CASE ScanKeeps
  BY <1>17, <1>c DEF ScanKeeps, Goto, disk, history, KindAt
<1>18. CASE ScanDrops
  BY <1>18, <1>c DEF ScanDrops, Goto, disk, history, KindAt
<1>19. CASE Scanned
  BY <1>19, <1>c DEF Scanned, Goto, disk, history, KindAt
<1>20. CASE Truncate
  BY <1>20, <1>c DEF Truncate, Goto, history, KindAt
<1>21. CASE Write
  <2>1. pc = "write" /\ pc' \in {"count", "rebuild"} /\ UNCHANGED <<kind, tid, before>>
    BY <1>21 DEF Write, WriteAndIndex, Goto, history
  <2>2. kind \in {"insert", "update", "delete"}
    BY <2>1 DEF KindAt
  <2>3. QED
    BY <1>c, <2>1, <2>2
<1>22. CASE DeleteCount
  BY <1>22, <1>c DEF DeleteCount, CountDown, Goto, history, KindAt
<1>23. CASE RebuildNext
  BY <1>23, <1>d DEF RebuildNext, Goto, locals, history, Rebuilding
<1>24. CASE RebuildCreate
  BY <1>24, <1>d DEF RebuildCreate, RebuildFrom, Goto, history, Rebuilding
<1>25. CASE RebuildEntry
  BY <1>25, <1>d DEF RebuildEntry, Goto, history, Rebuilding
<1>26. CASE RebuildFilled
  BY <1>26, <1>d DEF RebuildFilled, RebuildContinue, Goto, disk, history, Rebuilding
<1>27. CASE RebuildRefused
  <2>1. pc = "fill" /\ pc' = "undo" /\ kind = "createIndex" /\ UNCHANGED <<kind, tid, before, target>>
    BY <1>27 DEF RebuildRefused, Goto, End, Close, disk, locals, history
  <2>2. QED
    BY <1>d, <2>1 DEF Rebuilding
<1>28. CASE RebuildDone
  BY <1>28 DEF RebuildDone, End, Close
<1>29. CASE Register
  <2>1. /\ pc = "register" /\ pc' = "rebuild" /\ tid' = Append(tid, Head(queue))
        /\ UNCHANGED <<kind, before, queue, target>>
    BY <1>29 DEF Register, Goto, locals, history
  <2>2. kind = "createIndex" /\ tid = before.defs
    BY <2>1 DEF KindAt, DefsProgress
  <2>3. Len(queue) = 1 /\ Head(queue).name \notin NamesIn(tid)
    BY <2>1 DEF ListInv, NewName
  <2>4. Head(queue) \in IndexDefs
    BY <1>a, <2>3
  <2>5. Head(queue).name = target'
    BY <2>1, <2>3 DEF Shape, Rebuilding
  <2>6. DefsIn(tid') = DefsIn(tid) \cup {Head(queue)}
    BY <1>a, <2>1, <2>4, AppendDefs
  <2>7. DefsIn(tid)' = DefsIn(tid') /\ DefsIn(before.defs)' = DefsIn(tid) /\ NamesIn(before.defs)' = NamesIn(tid)
    BY <2>1, <2>2 DEF DefsIn, NamesIn
  <2>8. Registering(Head(queue))'
    BY <2>1, <2>3, <2>5, <2>6, <2>7 DEF Registering
  <2>9. \E d \in IndexDefs : Registering(d)'
    <3> DEFINE d == Head(queue)
    <3>1. queue' = queue
      BY <2>1
    <3>2. Head(queue)' = d
      BY <3>1
    <3>3. DefsIn(tid') = DefsIn(before'.defs) \cup {d} /\ d.name = target' /\ d.name \notin NamesIn(before'.defs)
      BY <2>1, <2>2, <2>3, <2>5, <2>6
    <3>4. QED
      BY <2>4, <3>3 DEF Registering, DefsIn, NamesIn
  <2>10. QED
    BY <2>1, <2>2, <2>9 DEF DefsProgress, Rebuilding
<1>30. CASE CreateIndexUndo
  <2>1. /\ pc = "undo" /\ pc' = "relist" /\ tid' = <<>> /\ UNCHANGED <<kind, before>>
    BY <1>30 DEF CreateIndexUndo, Unlist, Goto, history
  <2>2. PICK p \in DOMAIN tid : tid[p].name = target /\ queue' = Drop(tid, p)
    BY <1>30 DEF CreateIndexUndo, Unlist
  <2>3. kind = "createIndex"
    BY <2>1 DEF KindAt
  <2>4. PICK d \in IndexDefs : Registering(d)
    BY <2>1, <2>3 DEF DefsProgress
  <2>5. DefsIn(queue') = DefsIn(tid) \ {tid[p]}
    BY <1>a, <2>2, DropDefs DEF ListInv
  <2>6. tid[p] = d
    <3>1. PICK k \in DOMAIN tid : tid[k] = d
      BY <2>4 DEF Registering, DefsIn
    <3>2. QED
      BY <2>2, <2>4, <3>1 DEF Registering, ListInv, NamesDistinct
  <2>7. d \notin DefsIn(before.defs)
    BY <2>4 DEF Registering, DefsIn, NamesIn
  <2>8. DefsIn(queue') = DefsIn(before.defs) /\ DefsIn(tid') = {}
    <3>1. DefsIn(tid') = {}
      BY <2>1 DEF DefsIn
    <3>2. DefsIn(tid) = DefsIn(before.defs) \cup {d}
      BY <2>4 DEF Registering
    <3>3. QED
      BY <2>5, <2>6, <2>7, <3>1, <3>2
  <2>9. DefsIn(tid)' = DefsIn(tid') /\ DefsIn(queue)' = DefsIn(queue') /\ DefsIn(before.defs)' = DefsIn(before.defs)
    BY <2>1 DEF DefsIn
  <2>10. Relisting'
    BY <2>1, <2>3, <2>8, <2>9 DEF Relisting
  <2>11. QED
    BY <1>e, <2>1, <2>3, <2>10
<1>31. CASE Relist
  <2>1. /\ pc = "relist" /\ pc' = "relist" /\ queue # <<>> /\ tid' = Append(tid, Head(queue))
        /\ queue' = Tail(queue) /\ UNCHANGED <<kind, before>>
    BY <1>31 DEF Relist, Goto, history
  <2>2. kind \in {"createIndex", "dropIndex"} /\ Relisting
    BY <2>1 DEF KindAt, DefsProgress
  <2>3. DefsIn(queue) = DefsIn(queue') \cup {Head(queue)} /\ Head(queue) \in IndexDefs
    BY <1>a, <2>1, TailDefs
  <2>4. DefsIn(tid') = DefsIn(tid) \cup {Head(queue)}
    BY <1>a, <2>1, <2>3, AppendDefs
  <2>5. DefsIn(tid') \cup DefsIn(queue') = DefsIn(tid) \cup DefsIn(queue)
    BY <2>3, <2>4
  <2>6. DefsIn(tid)' = DefsIn(tid') /\ DefsIn(queue)' = DefsIn(queue') /\ DefsIn(before.defs)' = DefsIn(before.defs)
    BY <2>1 DEF DefsIn
  <2>7. Relisting'
    BY <2>1, <2>2, <2>5, <2>6 DEF Relisting
  <2>8. QED
    BY <1>e, <2>1, <2>2, <2>7
<1>32. CASE Relisted
  <2>1. /\ pc = "relist" /\ pc' = "unlink" /\ queue = <<>> /\ UNCHANGED <<kind, before, tid, queue>>
    BY <1>32 DEF Relisted, Goto, disk, locals, history
  <2>2. kind \in {"createIndex", "dropIndex"} /\ Relisting
    BY <2>1 DEF KindAt, DefsProgress
  <2>a. DefsIn(tid)' = DefsIn(tid) /\ DefsIn(queue)' = DefsIn(queue) /\ DefsIn(before.defs)' = DefsIn(before.defs)
    BY <2>1 DEF DefsIn
  <2>3. Relisting'
    BY <2>1, <2>2, <2>a DEF Relisting
  <2>4. QED
    BY <1>e, <2>1, <2>2, <2>3
<1>33. CASE Unlink
  BY <1>33 DEF Unlink, UnlinkLeaving, End, Close
<1>34. CASE Crash
  BY <1>34 DEF Crash
<1>35. CASE UNCHANGED vars
  <2>1. DefsProgress /\ UNCHANGED <<pc, kind, tid, queue, target, before>>
    BY <1>35 DEF vars, disk, locals, history
  <2>2. DefsIn(tid)' = DefsIn(tid) /\ DefsIn(queue)' = DefsIn(queue) /\ DefsIn(before.defs)' = DefsIn(before.defs)
    BY <2>1 DEF DefsIn
  <2>3. ASSUME NEW d \in IndexDefs, Registering(d) PROVE Registering(d)'
    BY <2>1, <2>2, <2>3 DEF Registering, NamesIn
  <2>4. Relisting => Relisting'
    BY <2>1, <2>2 DEF Relisting
  <2>5. QED
    BY <2>1, <2>3, <2>4 DEF DefsProgress, Rebuilding
<1>36. QED
  BY <1>1, <1>2, <1>3, <1>4, <1>5, <1>6, <1>7, <1>8, <1>9, <1>10, <1>11, <1>12, <1>13, <1>14, <1>15, <1>16, <1>17, <1>18, <1>19, <1>20, <1>21, <1>22, <1>23, <1>24, <1>25, <1>26, <1>27, <1>28, <1>29, <1>30, <1>31, <1>32, <1>33, <1>34, <1>35 DEF Next, Start, Step

\* before is the state the running statement found.
LEMMA BeforeKept ==
  ASSUME [Next]_vars, pc' # "idle"
  PROVE  before' = IF pc = "idle" THEN [rows |-> trd, defs |-> tid] ELSE before
<1>1. CASE Start
  BY <1>1 DEF Start, Insert, Update, UpdateAnswered, Delete, DeleteAnswered, CreateIndex, CreateIndexAnswered,
    DropIndex, DropIndexAnswered, Begin, Answer
<1>2. CASE Step
  BY <1>2 DEF Step, InsertDone, InsertRefused, InsertAppend, Store, InsertCount, InsertEntry,
    InsertEntryRefused, InsertNext, ScanKeeps, ScanDrops, Scanned, Truncate, Write, WriteAndIndex, DeleteCount,
    CountDown, RebuildNext, RebuildCreate, RebuildFrom, RebuildEntry, RebuildFilled, RebuildContinue, RebuildRefused,
    RebuildDone, Register, CreateIndexUndo, Relist, Relisted, Unlink, UnlinkLeaving, Goto, End, Close, history
<1>3. CASE Crash
  BY <1>3 DEF Crash
<1>4. CASE UNCHANGED vars
  BY <1>4 DEF vars, history
<1>5. QED
  BY <1>1, <1>2, <1>3, <1>4 DEF Next

\* A statement starts on its way, and stays on it.
LEMMA ProgressStep ==
  ASSUME Known, UpInv, UpInv', UniqueEnforced, Progress, [Next]_vars
  PROVE  Progress'
<1> SUFFICES ASSUME crashes' = 0, pc' # "idle" PROVE (OldDistinct /\ RowsProgress /\ DefsProgress)'
  BY DEF Progress
<1>1. crashes = 0
  BY CrashesGrow DEF Known
<1>2. Shape /\ Shape'
  BY <1>1 DEF UpInv
<1>3. OldDistinct'
  <2> SUFFICES ASSUME ~ stale' PROVE (\A d \in DefsIn(before.defs) : d.unique => Distinct(d, before.rows))'
    BY DEF OldDistinct
  <2>s. ~ stale
    BY StaleStep DEF Known, RebuildDone, RebuildRefused, Close
  <2>1. CASE pc = "idle"
    <3>1. \A k \in DOMAIN tid : tid[k].unique => Distinct(tid[k], trd)
      BY <1>1, <2>1, <2>s DEF UniqueEnforced, Quiet
    <3>2. before' = [rows |-> trd, defs |-> tid]
      BY <2>1, BeforeKept
    <3>3. \A d \in DefsIn(tid) : d.unique => Distinct(d, trd)
      BY <3>1 DEF DefsIn
    <3>4. QED
      BY <3>2, <3>3 DEF DefsIn
  <2>2. CASE pc # "idle"
    <3>1. OldDistinct /\ before' = before
      BY <1>1, <2>2, BeforeKept DEF Progress
    <3>2. QED
      BY <2>s, <3>1 DEF OldDistinct, DefsIn
  <2>3. QED
    BY <2>1, <2>2
<1>4. RowsProgress'
  BY <1>1, <1>2, RowsProgressStep DEF Progress
<1>5. DefsProgress'
  BY <1>1, <1>2, DefsProgressStep DEF Progress
<1>6. QED
  BY <1>3, <1>4, <1>5

\* What a client sees of the table.
ClientRows == IF pc = "idle" THEN trd ELSE before.rows

ClientDefs == DefsIn(IF pc = "idle" THEN tid ELSE before.defs)

\* Table computes rows as TableEngine does.
LEMMA ClientOperators ==
  ASSUME NEW rows, NEW w, NEW a, NEW source, NEW d
  PROVE  /\ Client!AcceptsUpdate(rows, w, a) = AcceptsUpdate(rows, w, a)
         /\ Client!UpdatedRows(rows, w, a) = UpdatedRows(rows, w, a)
         /\ Client!DoomedKeys(rows, w) = DoomedKeys(rows, w)
         /\ Client!StoredRows(source) = StoredRows(source)
         /\ Client!Distinct(d, rows) = Distinct(d, rows)
BY Zenon DEF Client!AcceptsUpdate, AcceptsUpdate, Client!Accepts, Accepts, Client!Eval, Eval, Client!UpdatedRows, UpdatedRows,
  Client!SetRow, SetRow, Client!DoomedKeys, DoomedKeys, Client!StoredRows, StoredRows, Client!StoredRow, StoredRow,
  Client!Distinct, Distinct, Client!Key, Key, Client!SlotValues, SlotValues, Client!ReadRow, ReadRow

\* While the server stays up, every step is one of Table, or invisible.
LEMMA RefinementStep ==
  ASSUME Known, UpInv, UpInv', UniqueEnforced, UniqueEnforced', Progress, Progress',
         crashes = 0, crashes' = 0, [Next]_vars
  PROVE  [Client!TNext]_(Client!tvars)
<1> USE DEF Known
<1>a. /\ trd \in Seq(Row) /\ tid \in Seq(IndexDefs) /\ queue \in Seq(IndexDefs) /\ kind \in Kinds
      /\ src \in Seq([Columns -> Given])
  BY DEF TypeInv, TypeOK
<1>u. ASSUME ~ stale' PROVE Client!UniqueHold'
  <2>1. CASE pc' = "idle"
    <3>1. \A k \in DOMAIN tid' : tid'[k].unique => Distinct(tid'[k], trd')
      BY <1>u, <2>1 DEF UniqueEnforced, Quiet
    <3>2. QED
      BY <2>1, <3>1, ClientOperators DEF Client!UniqueHold, DefsIn
  <2>2. CASE pc' # "idle"
    <3>1. OldDistinct'
      BY <2>2 DEF Progress
    <3>2. QED
      BY <1>u, <2>2, <3>1, ClientOperators DEF Client!UniqueHold, OldDistinct, DefsIn
  <2>3. QED
    BY <2>1, <2>2
<1>t. ASSUME Client!TStep PROVE Client!TNext
  BY <1>t, <1>u DEF Client!TNext
<1>o. stale \in BOOLEAN
  BY DEF TypeInv, TypeOK
<1>b. ASSUME pc = "idle", pc' # "idle", before' = [rows |-> trd, defs |-> tid], reply' = "none",
             UNCHANGED stale
      PROVE  Client!TNext
  BY <1>b, <1>t DEF Client!TStep, Client!TTake, DefsIn
<1>s. ASSUME pc # "idle", pc' # "idle", UNCHANGED <<before, reply, stale>> PROVE UNCHANGED Client!tvars
  BY <1>s DEF Client!tvars, DefsIn
<1>r. ASSUME reply' = "error", ClientRows' = ClientRows, ClientDefs' = ClientDefs, UNCHANGED stale
      PROVE  Client!TNext
  BY <1>r, <1>t DEF Client!TStep, Client!TRefuse, ClientRows, ClientDefs
<1>v. ASSUME reply' = "ok", ClientRows' = ClientRows, ClientDefs' = ClientDefs, UNCHANGED stale
      PROVE  Client!TNext
  BY <1>v, <1>t DEF Client!TStep, Client!TNothing, ClientRows, ClientDefs
<1>n. ASSUME pc = "idle", pc' = "idle", UNCHANGED <<trd, tid>>
      PROVE  ClientRows = trd /\ ClientRows' = trd /\ ClientDefs = DefsIn(tid) /\ ClientDefs' = DefsIn(tid)
  BY <1>n DEF ClientRows, ClientDefs, DefsIn
<1>e. ASSUME pc # "idle", pc' = "idle", UNCHANGED <<trd, tid>>
      PROVE  /\ ClientRows = before.rows /\ ClientRows' = trd
             /\ ClientDefs = DefsIn(before.defs) /\ ClientDefs' = DefsIn(tid)
  BY <1>e DEF ClientRows, ClientDefs, DefsIn
<1>i. ASSUME NEW source \in Sources, NEW n \in 0..Len(source),
             ClientRows' = ClientRows \o StoredRows(SubSeq(source, 1, n)),
             reply' = IF n = Len(source) THEN "ok" ELSE "error", ClientDefs' = ClientDefs, UNCHANGED stale
      PROVE  Client!TNext
  <2>1. Client!TInsert(source, n)
    BY <1>i, ClientOperators DEF Client!TInsert, ClientRows, ClientDefs
  <2>2. QED
    BY <2>1, <1>t DEF Client!TStep
<1>w. ASSUME ClientDefs' = ClientDefs,
             \/ reply' = "ok" /\ ~ stale'
             \/ reply' = "error" /\ stale' /\ ~ Client!UniqueHold'
      PROVE  Client!TRewritten
  <2>1. (~ stale)' = ~ stale'
    OBVIOUS
  <2>2. \/ reply' = "ok" /\ (~ stale)' = TRUE
        \/ reply' = "error" /\ (~ stale)' = FALSE /\ ~ Client!UniqueHold'
    BY <1>w, <2>1
  <2>3. QED
    BY <1>w, <2>2 DEF Client!TRewritten, ClientDefs
<1>p. ASSUME NEW w \in Predicates, NEW a \in Assignments, AcceptsUpdate(ClientRows, w, a),
             ClientRows' = UpdatedRows(ClientRows, w, a), Client!TRewritten
      PROVE  Client!TNext
  <2>1. Client!TUpdate(w, a)
    BY <1>p, ClientOperators DEF Client!TUpdate, ClientRows
  <2>2. QED
    BY <2>1, <1>t DEF Client!TStep
<1>d. ASSUME NEW w \in Predicates, ClientRows \in Seq(Row), Left(ClientRows, ClientRows', w, Len(ClientRows)),
             Client!TRewritten, stale' => stale
      PROVE  Client!TNext
  <2>1. DOMAIN ClientRows = 1..Len(ClientRows)
    BY <1>d
  <2>2. \E kept \in SUBSET (DOMAIN ClientRows) :
          /\ Client!Keeps(ClientRows, ClientRows', kept)
          /\ \A i \in DOMAIN ClientRows :
               /\ ClientRows[i][PK] \notin DoomedKeys(ClientRows, w) => i \in kept
               /\ i \in kept => ClientRows[i][PK] \notin DoomedKeys(ClientRows, w) \ RunsOn
    BY <1>d, <2>1 DEF Left
  <2>3. Client!TDelete(w)
    BY <1>d, <2>2, ClientOperators DEF Client!TDelete, ClientRows
  <2>4. QED
    BY <2>3, <1>t DEF Client!TStep
<1>1. ASSUME NEW rows \in Sources, Insert(rows) PROVE Client!TNext
  BY <1>1, <1>b DEF Insert, Begin
<1>2. ASSUME NEW w \in Predicates, NEW a \in Assignments, Update(w, a) PROVE Client!TNext
  BY <1>2, <1>b DEF Update, Begin
<1>3. ASSUME NEW w \in Predicates, NEW a \in Assignments, UpdateAnswered(w, a) PROVE Client!TNext
  <2>1. pc = "idle" /\ pc' = "idle" /\ UNCHANGED <<trd, tid, stale>>
    BY <1>3 DEF UpdateAnswered, Answer, disk
  <2>2. CASE UpdateNothing(w)
    <3>1. reply' = "ok"
      BY <1>3, <2>2 DEF UpdateAnswered, Answer
    <3>2. QED
      BY <2>1, <3>1, <1>n, <1>v
  <2>3. CASE ~ UpdateNothing(w)
    <3>1. reply' = "error"
      BY <1>3, <2>3 DEF UpdateAnswered, Answer
    <3>2. QED
      BY <2>1, <3>1, <1>n, <1>r
  <2>4. QED
    BY <2>2, <2>3
<1>4. ASSUME NEW w \in Predicates, Delete(w) PROVE Client!TNext
  BY <1>4, <1>b DEF Delete, Begin
<1>5. ASSUME NEW w \in Predicates, DeleteAnswered(w) PROVE Client!TNext
  <2>1. pc = "idle" /\ pc' = "idle" /\ UNCHANGED <<trd, tid, stale>>
    BY <1>5 DEF DeleteAnswered, Answer, disk
  <2>2. CASE PK \in Columns
    <3>1. reply' = "ok"
      BY <1>5, <2>2 DEF DeleteAnswered, Answer
    <3>2. QED
      BY <2>1, <3>1, <1>n, <1>v
  <2>3. CASE PK \notin Columns
    <3>1. reply' = "error"
      BY <1>5, <2>3 DEF DeleteAnswered, Answer
    <3>2. QED
      BY <2>1, <3>1, <1>n, <1>r
  <2>4. QED
    BY <2>2, <2>3
<1>6. ASSUME NEW d \in IndexDefs, CreateIndex(d) PROVE Client!TNext
  BY <1>6, <1>b DEF CreateIndex, Begin
<1>7. ASSUME NEW d \in IndexDefs, CreateIndexAnswered(d) PROVE Client!TNext
  BY <1>7, <1>n, <1>r DEF CreateIndexAnswered, Answer, disk
<1>8. ASSUME NEW n \in IndexNames, DropIndex(n) PROVE Client!TNext
  BY <1>8, <1>b DEF DropIndex, Begin
<1>9. ASSUME NEW n \in IndexNames, DropIndexAnswered(n) PROVE Client!TNext
  BY <1>9, <1>n, <1>r DEF DropIndexAnswered, Answer, disk
<1>q. ASSUME pc = "row", pc' = "idle", UNCHANGED <<trd, tid, stale>>, reply' = IF src = <<>> THEN "ok" ELSE "error"
      PROVE  Client!TNext
  <2>1. kind = "insert" /\ tid = before.defs
    BY <1>q DEF KindAt, Progress, DefsProgress
  <2>2. PICK source \in Sources : \E n \in 0..Len(source) : Inserting(source, n)
    BY <1>q, <2>1 DEF Progress, RowsProgress
  <2>3. PICK n \in 0..Len(source) : Inserting(source, n)
    BY <2>2
  <2>4. trd = before.rows \o StoredRows(SubSeq(source, 1, n))
    BY <2>3, InsertedRows
  <2>5. source \in Seq([Columns -> Given]) /\ Len(source) \in Nat
    BY StatementsAssumption
  <2>6. src = <<>> <=> n = Len(source)
    BY <1>a, <2>3, <2>5, SMTT(60) DEF Inserting
  <2>7. QED
    BY <1>q, <2>1, <2>4, <2>6, <1>e, <1>i
<1>10. CASE InsertDone
  BY <1>10, <1>q DEF InsertDone, End, Close, disk
<1>11. CASE InsertRefused
  BY <1>11, <1>q DEF InsertRefused, End, Close, disk
<1>12. CASE InsertAppend
  BY <1>12, <1>s DEF InsertAppend, Store, Goto, history
<1>13. CASE InsertCount
  BY <1>13, <1>s DEF InsertCount, Goto, history
<1>14. CASE InsertEntry
  BY <1>14, <1>s DEF InsertEntry, Goto, history
<1>15. CASE InsertEntryRefused
  BY <1>15, <1>s DEF InsertEntryRefused, Goto, history
<1>16. CASE InsertNext
  BY <1>16, <1>s DEF InsertNext, Goto, history
<1>17. CASE ScanKeeps
  BY <1>17, <1>s DEF ScanKeeps, Goto, history
<1>18. CASE ScanDrops
  BY <1>18, <1>s DEF ScanDrops, Goto, history
<1>19. CASE Scanned
  BY <1>19, <1>s DEF Scanned, Goto, history
<1>20. CASE Truncate
  BY <1>20, <1>s DEF Truncate, Goto, history
<1>21. CASE Write
  BY <1>21, <1>s DEF Write, WriteAndIndex, Goto, history
<1>22. CASE DeleteCount
  BY <1>22, <1>s DEF DeleteCount, CountDown, Goto, history
<1>23. CASE RebuildNext
  BY <1>23, <1>s DEF RebuildNext, Goto, history
<1>24. CASE RebuildCreate
  BY <1>24, <1>s DEF RebuildCreate, RebuildFrom, Goto, history
<1>25. CASE RebuildEntry
  BY <1>25, <1>s DEF RebuildEntry, Goto, history
<1>26. CASE RebuildFilled
  BY <1>26, <1>s DEF RebuildFilled, RebuildContinue, Goto, history
<1>x. ASSUME Rebuilding, pc' = "idle", UNCHANGED <<trd, tid>>, kind \in {"update", "delete"},
             Client!TRewritten, kind = "delete" => (stale' => stale)
      PROVE  Client!TNext
  <2>1. RowsProgress /\ DefsProgress
    BY <1>x DEF Progress, Rebuilding
  <2>2. tid = before.defs /\ Result(trd)
    BY <1>x, <2>1 DEF DefsProgress, RowsProgress
  <2>3. ClientRows = before.rows /\ ClientRows' = trd
    BY <1>x, <1>e DEF Rebuilding
  <2>4. CASE kind = "update"
    <3>1. PICK w \in Predicates : \E a \in Assignments :
            AcceptsUpdate(before.rows, w, a) /\ trd = UpdatedRows(before.rows, w, a)
      BY <2>2, <2>4 DEF Result
    <3>2. PICK a \in Assignments : AcceptsUpdate(before.rows, w, a) /\ trd = UpdatedRows(before.rows, w, a)
      BY <3>1
    <3>3. QED
      BY <1>x, <2>3, <3>2, <1>p
  <2>5. CASE kind = "delete"
    <3>1. PICK w \in Predicates : Left(before.rows, trd, w, Len(before.rows))
      BY <2>2, <2>5 DEF Result
    <3>2. before.rows \in Seq(Row)
      BY DEF TypeInv, TypeOK
    <3>3. ClientRows \in Seq(Row) /\ Left(ClientRows, ClientRows', w, Len(ClientRows))
      BY <2>3, <3>1, <3>2
    <3>4. QED
      BY <1>x, <2>5, <3>3, <1>d
  <2>6. QED
    BY <1>x, <2>4, <2>5
<1>27. CASE RebuildRefused
  <2>1. /\ pc = "fill" /\ cur < Len(trd)
        /\ Refuses(Head(queue), Key(Head(queue), trd[cur + 1]))
    BY <1>27 DEF RebuildRefused
  <2>2. kind \in {"update", "delete", "createIndex"}
    BY <1>a, <2>1 DEF KindAt, Kinds, UpInv, Shape, Rebuilding
  <2>3. CASE kind = "createIndex"
    BY <1>27, <2>1, <2>3, <1>s DEF RebuildRefused, Goto, history
  <2>4. CASE kind \in {"update", "delete"}
    <3>1. pc' = "idle" /\ reply' = "error" /\ stale' = TRUE /\ UNCHANGED <<trd, tid>>
      BY <1>27, <2>4 DEF RebuildRefused, Close, disk
    <3>2. PICK k \in DOMAIN tid : tid[k].unique /\ ~ Distinct(tid[k], trd)
      BY <2>1, RefusedTwice
    <3>3. ~ Client!UniqueHold'
      BY <3>1, <3>2, ClientOperators DEF Client!UniqueHold, DefsIn
    <3>4. tid = before.defs
      BY <2>1, <2>4 DEF Progress, DefsProgress
    <3>5. ClientDefs' = ClientDefs
      BY <2>1, <3>1, <3>4, <1>e
    <3>6. Client!TRewritten
      BY <3>1, <3>3, <3>5, <1>w
    <3>7. kind = "delete" => stale
      <4> SUFFICES ASSUME kind = "delete", ~ stale PROVE FALSE
        OBVIOUS
      <4>1. AllDistinct(trd)
        BY <2>1 DEF UpInv, Distinctness, Apartness, Rebuilding
      <4>2. QED
        BY <3>2, <4>1 DEF AllDistinct
    <3>8. QED
      BY <2>1, <2>4, <3>1, <3>6, <3>7, <1>x DEF Rebuilding
  <2>5. QED
    BY <2>2, <2>3, <2>4
<1>28. CASE RebuildDone
  <2>1. /\ pc = "rebuild" /\ queue = <<>> /\ pc' = "idle" /\ UNCHANGED <<trd, tid>>
        /\ reply' = IF kind = "insert" THEN "error" ELSE "ok"
        /\ stale' = (stale /\ kind = "createIndex")
    BY <1>28 DEF RebuildDone, Close, disk
  <2>2. kind \in {"update", "delete", "createIndex"}
    BY <1>a, <2>1 DEF KindAt, Kinds, UpInv, Shape, Rebuilding
  <2>3. RowsProgress /\ DefsProgress
    BY <2>1 DEF Progress
  <2>4. CASE kind \in {"update", "delete"}
    <3>1. reply' = "ok" /\ ~ stale'
      BY <2>1, <2>4
    <3>2. tid = before.defs
      BY <2>3, <2>4 DEF DefsProgress
    <3>3. ClientDefs' = ClientDefs
      BY <2>1, <3>2, <1>e
    <3>4. Client!TRewritten
      BY <3>1, <3>3, <1>w
    <3>5. QED
      BY <2>1, <2>4, <3>1, <3>4, <1>x DEF Rebuilding
  <2>5. CASE kind = "createIndex"
    <3>1. PICK d \in IndexDefs : Registering(d)
      BY <2>1, <2>3, <2>5 DEF DefsProgress, Rebuilding
    <3>2. trd = before.rows
      BY <2>1, <2>5 DEF UpInv, Outcome
    <3>3. d.name \notin {e.name : e \in DefsIn(before.defs)}
      BY <3>1 DEF Registering, NamesIn, DefsIn
    <3>4. ClientRows = trd /\ ClientRows' = ClientRows /\ ClientDefs' = ClientDefs \cup {d}
          /\ ClientDefs = DefsIn(before.defs)
      BY <2>1, <3>1, <3>2, <1>e DEF Registering
    <3>5. ASSUME d.unique PROVE Distinct(d, trd)
      <4>1. PICK k \in DOMAIN tid : tid[k] = d
        BY <3>1 DEF Registering, DefsIn
      <4>2. Agrees(tid[k])
        BY <2>1, <2>5, <3>1, <4>1 DEF UpInv, Shape, Registering
      <4>3. KeyOnce(ix[d.name])
        BY <3>5, <4>1, <4>2 DEF FileInv, OnceIn, Agrees
      <4>4. QED
        BY <4>1, <4>2, <4>3, OneDistinct
    <3>6. stale' = stale
      BY <1>o, <2>1, <2>5
    <3>7. Client!TCreateIndex(d)
      BY <2>1, <2>5, <3>3, <3>4, <3>5, <3>6, ClientOperators DEF Client!TCreateIndex, ClientRows, ClientDefs
    <3>8. QED
      BY <3>7, <1>t DEF Client!TStep
  <2>6. QED
    BY <2>2, <2>4, <2>5
<1>29. CASE Register
  BY <1>29, <1>s DEF Register, Goto, history
<1>30. CASE CreateIndexUndo
  BY <1>30, <1>s DEF CreateIndexUndo, Goto, history
<1>31. CASE Relist
  BY <1>31, <1>s DEF Relist, Goto, history
<1>32. CASE Relisted
  BY <1>32, <1>s DEF Relisted, Goto, history
<1>33. CASE Unlink
  <2>1. /\ pc = "unlink" /\ pc' = "idle" /\ UNCHANGED <<trd, tid, stale>>
        /\ reply' = IF kind = "dropIndex" THEN "ok" ELSE "error"
    BY <1>33 DEF Unlink, UnlinkLeaving, End, Close
  <2>2. kind \in {"createIndex", "dropIndex"} /\ queue = <<>> /\ Relisting
    BY <2>1 DEF KindAt, Progress, DefsProgress
  <2>3. trd = before.rows
    BY <2>1, <2>2 DEF UpInv, Outcome
  <2>4. DefsIn(tid) \cup DefsIn(queue) = DefsIn(tid)
    BY <2>2 DEF DefsIn
  <2>5. CASE kind = "createIndex"
    <3>1. DefsIn(tid) = DefsIn(before.defs)
      BY <2>2, <2>4, <2>5 DEF Relisting
    <3>2. QED
      BY <2>1, <2>3, <2>5, <3>1, <1>e, <1>r
  <2>6. CASE kind = "dropIndex"
    <3>1. PICK d \in DefsIn(before.defs) \cap IndexDefs : DefsIn(tid) = DefsIn(before.defs) \ {d}
      BY <2>2, <2>4, <2>6 DEF Relisting
    <3>2. /\ d \in ClientDefs /\ ClientDefs' = ClientDefs \ {d} /\ ClientRows' = ClientRows
      BY <2>1, <2>3, <3>1, <1>e
    <3>3. Client!TDropIndex(d)
      BY <2>1, <2>6, <3>2 DEF Client!TDropIndex, ClientRows, ClientDefs
    <3>4. QED
      BY <3>3, <1>t DEF Client!TStep
  <2>7. QED
    BY <2>2, <2>5, <2>6
<1>34. CASE Crash
  BY <1>34 DEF Crash
<1>35. CASE UNCHANGED vars
  BY <1>35 DEF vars, disk, history, Client!tvars, DefsIn
<1>36. QED
  BY <1>1, <1>2, <1>3, <1>4, <1>5, <1>6, <1>7, <1>8, <1>9, <1>10, <1>11, <1>12, <1>13, <1>14, <1>15, <1>16, <1>17, <1>18, <1>19, <1>20, <1>21, <1>22, <1>23, <1>24, <1>25, <1>26, <1>27, <1>28, <1>29, <1>30, <1>31, <1>32, <1>33, <1>34, <1>35 DEF Next, Start, Step

\* On a server that does not crash the executors implement Table: a statement
\* takes effect at one instant, a refused one not at all but for the first
\* rows of an INSERT, an UPDATE that fails with its rows changed makes the
\* table unsound, and no two rows of a sound one agree on a unique index.
THEOREM TableImplemented == Spec /\ [](crashes = 0) => ImplementsTable
<1>1. Known /\ UpInv /\ [Next]_vars => Known' /\ UpInv'
  BY KnownStep, UpStep
<1>2. Known /\ UpInv => UniqueEnforced
  BY AgreeingDistinct DEF Known, UpInv, Agreement, Even, AllDistinct, UniqueEnforced, Quiet
<1>3. Init => Client!TInit /\ Progress
  BY DEF Init, Client!TInit, DefsIn, Progress
<1>4. Known /\ UpInv /\ UpInv' /\ UniqueEnforced /\ Progress /\ [Next]_vars => Progress'
  BY ProgressStep
<1>5. Known /\ UpInv /\ UpInv' /\ UniqueEnforced /\ UniqueEnforced' /\ Progress /\ Progress'
        /\ crashes = 0 /\ (crashes = 0)' /\ [Next]_vars => [Client!TNext]_(Client!tvars)
  BY RefinementStep
<1>6. QED
  BY UpInit, <1>1, <1>2, <1>3, <1>4, <1>5, PTL DEF Spec, ImplementsTable, Client!TSpec

-----------------------------------------------------------------------------
(***************************************************************************)
(* A crash.                                                                *)
(***************************************************************************)

\* The rows of s are the first rows of t, in order.
Begins(s, t) == Len(s) <= Len(t) /\ \A i \in 1..Len(s) : s[i] = t[i]

(***************************************************************************)
(* While a statement other than UPDATE and DELETE runs, and after a crash  *)
(* cut it short, the record file begins with the rows it found.            *)
(***************************************************************************)
Kept ==
  (pc # "idle" \/ reply = "crashed") /\ kind \notin {"update", "delete"} => Begins(before.rows, trd)

\* Only the rewrite of UPDATE and DELETE ever takes a row out of the file.
LEMMA KeptStep == TypeInv /\ KindAt /\ Kept /\ [Next]_vars => Kept'
<1> SUFFICES ASSUME TypeInv, KindAt, Kept, [Next]_vars PROVE Kept'
  OBVIOUS
<1>a. trd \in Seq(Row) /\ before.rows \in Seq(Row) /\ Len(trd) \in Nat /\ Len(before.rows) \in Nat
  BY DEF TypeInv, TypeOK
<1>b. ASSUME before'.rows = trd, UNCHANGED trd PROVE Kept'
  BY <1>a, <1>b DEF Kept, Begins
<1>c. ASSUME UNCHANGED <<trd, before, kind>>, pc # "idle" PROVE Kept'
  BY <1>c DEF Kept
<1>d. ASSUME kind' \in {"update", "delete"} PROVE Kept'
  BY <1>d DEF Kept
<1>1. ASSUME NEW rows \in Sources, Insert(rows) PROVE Kept'
  BY <1>1, <1>b DEF Insert, Begin, disk, locals, history
<1>2. ASSUME NEW w \in Predicates, NEW a \in Assignments, Update(w, a) PROVE Kept'
  BY <1>2, <1>b DEF Update, Begin, disk, locals, history
<1>3. ASSUME NEW w \in Predicates, NEW a \in Assignments, UpdateAnswered(w, a) PROVE Kept'
  BY <1>3, <1>b DEF UpdateAnswered, Answer, disk, locals, history
<1>4. ASSUME NEW w \in Predicates, Delete(w) PROVE Kept'
  BY <1>4, <1>b DEF Delete, Begin, disk, locals, history
<1>5. ASSUME NEW w \in Predicates, DeleteAnswered(w) PROVE Kept'
  BY <1>5, <1>b DEF DeleteAnswered, Answer, disk, locals, history
<1>6. ASSUME NEW d \in IndexDefs, CreateIndex(d) PROVE Kept'
  BY <1>6, <1>b DEF CreateIndex, Begin, WithFile, disk, locals, history
<1>7. ASSUME NEW d \in IndexDefs, CreateIndexAnswered(d) PROVE Kept'
  BY <1>7, <1>b DEF CreateIndexAnswered, Answer, disk, locals, history
<1>8. ASSUME NEW n \in IndexNames, DropIndex(n) PROVE Kept'
  BY <1>8, <1>b DEF DropIndex, Begin, Unlist, disk, locals, history
<1>9. ASSUME NEW n \in IndexNames, DropIndexAnswered(n) PROVE Kept'
  BY <1>9, <1>b DEF DropIndexAnswered, Answer, disk, locals, history
<1>10. CASE InsertDone
  BY <1>10, <1>c DEF InsertDone, End, Close, Forget, disk, locals, history
<1>11. CASE InsertRefused
  BY <1>11, <1>c DEF InsertRefused, End, Close, Forget, disk, locals, history
<1>12. CASE InsertAppend
  <2> DEFINE row == StoredRow(Head(src))
  <2>1. pc = "row" /\ trd' = Append(trd, row) /\ UNCHANGED <<before, kind>>
    BY <1>12 DEF InsertAppend, Store, Goto, history
  <2>2. /\ Len(trd') = Len(trd) + 1
        /\ \A i \in 1..Len(trd) : trd'[i] = trd[i]
    BY <1>a, <2>1
  <2>3. Begins(before.rows, trd)
    BY <2>1 DEF Kept, KindAt
  <2>4. Begins(before.rows, trd')
    BY <1>a, <2>2, <2>3 DEF Begins
  <2>5. QED
    BY <2>1, <2>4 DEF Kept
<1>13. CASE InsertCount
  BY <1>13, <1>c DEF InsertCount, Goto, disk, locals, history
<1>14. CASE InsertEntry
  BY <1>14, <1>c DEF InsertEntry, Goto, disk, locals, history
<1>15. CASE InsertEntryRefused
  BY <1>15, <1>c DEF InsertEntryRefused, Goto, disk, locals, history
<1>16. CASE InsertNext
  BY <1>16, <1>c DEF InsertNext, Goto, disk, locals, history
<1>17. CASE ScanKeeps
  BY <1>17, <1>c DEF ScanKeeps, Goto, disk, locals, history
<1>18. CASE ScanDrops
  BY <1>18, <1>c DEF ScanDrops, Goto, disk, locals, history
<1>19. CASE Scanned
  BY <1>19, <1>c DEF Scanned, Goto, disk, locals, history
<1>20. CASE Truncate
  <2>1. pc \in {"truncate", "write"} /\ UNCHANGED kind
    BY <1>20 DEF Truncate, Goto
  <2>2. QED
    BY <2>1, <1>d DEF KindAt
<1>21. CASE Write
  <2>1. pc \in {"truncate", "write"} /\ UNCHANGED kind
    BY <1>21 DEF Write, WriteAndIndex, Goto
  <2>2. QED
    BY <2>1, <1>d DEF KindAt
<1>22. CASE DeleteCount
  BY <1>22, <1>c DEF DeleteCount, CountDown, Goto, disk, locals, history
<1>23. CASE RebuildNext
  BY <1>23, <1>c DEF RebuildNext, Goto, disk, locals, history
<1>24. CASE RebuildCreate
  BY <1>24, <1>c DEF RebuildCreate, RebuildFrom, Goto, disk, locals, history
<1>25. CASE RebuildEntry
  BY <1>25, <1>c DEF RebuildEntry, Goto, disk, locals, history
<1>26. CASE RebuildFilled
  BY <1>26, <1>c DEF RebuildFilled, RebuildContinue, Goto, disk, locals, history
<1>27. CASE RebuildRefused
  BY <1>27, <1>c DEF RebuildRefused, Goto, End, Close, Forget, disk, locals, history
<1>28. CASE RebuildDone
  BY <1>28, <1>c DEF RebuildDone, End, Close, Forget, disk, locals, history
<1>29. CASE Register
  BY <1>29, <1>c DEF Register, Goto, disk, locals, history
<1>30. CASE CreateIndexUndo
  BY <1>30, <1>c DEF CreateIndexUndo, Unlist, Goto, disk, locals, history
<1>31. CASE Relist
  BY <1>31, <1>c DEF Relist, Goto, disk, locals, history
<1>32. CASE Relisted
  BY <1>32, <1>c DEF Relisted, Goto, disk, locals, history
<1>33. CASE Unlink
  BY <1>33, <1>c DEF Unlink, UnlinkLeaving, End, Close, Forget, disk, locals, history
<1>34. CASE Crash
  <2>1. UNCHANGED <<kind, before>> /\ pc # "idle" /\ (pc # "write" => UNCHANGED trd)
    BY <1>34 DEF Crash
  <2>2. CASE pc = "write"
    BY <2>1, <2>2, <1>d DEF KindAt
  <2>3. CASE pc # "write"
    BY <2>1, <2>3, <1>c
  <2>4. QED
    BY <2>2, <2>3
<1>35. CASE UNCHANGED vars
  BY <1>35 DEF vars, disk, locals, history, Kept
<1>36. QED
  BY <1>1, <1>2, <1>3, <1>4, <1>5, <1>6, <1>7, <1>8, <1>9, <1>10, <1>11, <1>12, <1>13, <1>14, <1>15, <1>16, <1>17, <1>18, <1>19, <1>20, <1>21, <1>22, <1>23, <1>24, <1>25, <1>26, <1>27, <1>28, <1>29, <1>30, <1>31, <1>32, <1>33, <1>34, <1>35 DEF Next, Start, Step

\* A crash in the middle of an INSERT, a CREATE INDEX or a DROP INDEX leaves
\* every row that was there before, at its old place in the record file.
THEOREM CrashKeepsRowsCorrect == Spec => []CrashKeepsRows
<1>1. Init => KindAt /\ Kept
  BY DEF Init, KindAt, Kept, Rebuilding
<1>2. TypeInv /\ Kept => CrashKeepsRows
  <2> SUFFICES ASSUME TypeInv, Begins(before.rows, trd)
               PROVE  before.rows = SubSeq(trd, 1, Len(before.rows))
    BY DEF CrashKeepsRows, Kept, Begins
  <2> DEFINE old == before.rows
             new == SubSeq(trd, 1, Len(old))
  <2>1. old \in Seq(Row) /\ trd \in Seq(Row) /\ Len(old) \in Nat /\ Len(trd) \in Nat /\ Len(old) <= Len(trd)
    BY DEF TypeInv, TypeOK, Begins
  <2>2. new \in Seq(Row) /\ Len(new) = Len(old) /\ \A i \in 1..Len(old) : new[i] = trd[i]
    BY <2>1, SubSeqProperties
  <2>3. \A i \in 1..Len(old) : new[i] = old[i]
    BY <2>2 DEF Begins
  <2> HIDE DEF old, new
  <2>4. old = new
    BY <2>1, <2>2, <2>3
  <2>5. QED
    BY <2>4 DEF old, new
<1>3. QED
  BY TypeInit, TypeStep, KindStep, KeptStep, <1>1, <1>2, PTL DEF Spec

-----------------------------------------------------------------------------
(***************************************************************************)
(* A statement runs down.  No loop of the executors can go on for ever:    *)
(* every step brings its statement to an earlier stage, or leaves fewer    *)
(* rows or definitions to deal with, or less to do for the one in hand.    *)
(***************************************************************************)
Stage ==
  CASE pc = "idle" -> 0
    [] pc \in {"relist", "unlink"} -> 1
    [] pc = "undo" -> 2
    [] pc \in {"rebuild", "create", "fill"} -> 3
    [] pc \in {"row", "meta", "entry", "truncate", "write", "count", "register"} -> 4
    [] pc = "scan" -> 5

\* The rows to insert or to scan, the definitions to maintain or to write back.
Ahead ==
  CASE pc \in {"row", "meta", "entry"} -> Len(src)
    [] pc = "scan" -> Len(trd) + 1 - cur
    [] pc \in {"rebuild", "create", "fill"} -> Len(queue)
    [] pc = "relist" -> Len(queue) + 1
    [] pc = "truncate" -> 3
    [] pc = "write" -> 2
    [] pc = "count" -> 1
    [] pc \in {"idle", "register", "undo", "unlink"} -> 0

\* The index entries to make for one row, or for one index.
InHand ==
  CASE pc = "meta" -> Len(tid) + 2
    [] pc = "entry" -> Len(queue) + 1
    [] pc = "rebuild" -> Len(trd) + 2
    [] pc = "create" -> Len(trd) + 1
    [] pc = "fill" -> Len(trd) - cur
    [] pc \notin {"meta", "entry", "rebuild", "create", "fill"} -> 0

Lower ==
  \/ Stage' < Stage
  \/ Stage' = Stage /\ Ahead' < Ahead
  \/ Stage' = Stage /\ Ahead' = Ahead /\ InHand' < InHand

\* What the numbers and the steps rely on: where a step looks at a record, a list
\* or a definition, it is there, so a running statement has a step to take.
GoesOn ==
  /\ pc \in {"meta", "entry"} => trd # <<>>
  /\ pc \in {"scan", "fill"} => cur <= Len(trd)
  /\ pc \in {"create", "fill", "register"} => queue # <<>>
  /\ pc = "undo" => target \in Registered

\* The index a CREATE INDEX takes back is one it has registered.
Targeted ==
  /\ pc = "register" => Head(queue).name = target
  /\ kind = "createIndex" /\ pc \in {"rebuild", "create", "fill", "undo"} => target \in Registered
  /\ pc = "scan" => cur <= Len(trd)

\* The state after CREATE TABLE.
LEMMA TargetedInit == Init => Targeted
BY DEF Init, Targeted

\* A rebuild changes no definition.
LEMMA SameTargeted ==
  ASSUME Targeted, tid' = tid, target' = target, kind' = kind,
         pc \in {"rebuild", "create", "fill"} \/ kind # "createIndex",
         pc' \notin {"register", "scan"}
  PROVE  Targeted'
BY DEF Targeted, Registered

\* Every step keeps them.
LEMMA TargetedStep == TypeInv /\ KindAt /\ Counted /\ Targeted /\ [Next]_vars => Targeted'
<1> SUFFICES ASSUME TypeInv, KindAt, Counted, Targeted, [Next]_vars PROVE Targeted'
  OBVIOUS
<1>a. cur \in Nat /\ trd \in Seq(Row) /\ Len(trd) \in Nat /\ (pc = "idle" => cur = 0)
  BY DEF TypeInv, TypeOK, Counted
<1>b. /\ pc \in {"row", "meta", "entry"} => kind = "insert"
      /\ pc \in {"scan", "count"} => kind = "delete"
      /\ pc \in {"truncate", "write"} => kind \in {"update", "delete"}
  BY DEF KindAt
<1> USE DEF Targeted, vars, disk, locals, history
<1>1. ASSUME NEW rows \in Sources, Insert(rows) PROVE Targeted'
  BY <1>1, <1>a DEF Insert, Begin
<1>2. ASSUME NEW w \in Predicates, NEW a \in Assignments, Update(w, a) PROVE Targeted'
  BY <1>2, <1>a DEF Update, Begin
<1>3. ASSUME NEW w \in Predicates, NEW a \in Assignments, UpdateAnswered(w, a) PROVE Targeted'
  BY <1>3, <1>a DEF UpdateAnswered, Answer
<1>4. ASSUME NEW w \in Predicates, Delete(w) PROVE Targeted'
  BY <1>4, <1>a DEF Delete, Begin
<1>5. ASSUME NEW w \in Predicates, DeleteAnswered(w) PROVE Targeted'
  BY <1>5, <1>a DEF DeleteAnswered, Answer
<1>6. ASSUME NEW d \in IndexDefs, CreateIndex(d) PROVE Targeted'
  BY <1>6, <1>a DEF CreateIndex, Begin
<1>7. ASSUME NEW d \in IndexDefs, CreateIndexAnswered(d) PROVE Targeted'
  BY <1>7, <1>a DEF CreateIndexAnswered, Answer
<1>8. ASSUME NEW n \in IndexNames, DropIndex(n) PROVE Targeted'
  BY <1>8, <1>a DEF DropIndex, Begin, Unlist
<1>9. ASSUME NEW n \in IndexNames, DropIndexAnswered(n) PROVE Targeted'
  BY <1>9, <1>a DEF DropIndexAnswered, Answer
<1>10. CASE InsertDone
  BY <1>10, <1>a, <1>b DEF InsertDone, End, Close, Forget
<1>11. CASE InsertRefused
  BY <1>11, <1>a, <1>b DEF InsertRefused, End, Close, Forget
<1>12. CASE InsertAppend
  BY <1>12, <1>b, SameTargeted DEF InsertAppend, Store, Goto
<1>13. CASE InsertCount
  BY <1>13, <1>b, SameTargeted DEF InsertCount, Goto
<1>14. CASE InsertEntry
  BY <1>14, <1>b, SameTargeted DEF InsertEntry, Goto
<1>15. CASE InsertEntryRefused
  BY <1>15, <1>b, SameTargeted DEF InsertEntryRefused, Goto
<1>16. CASE InsertNext
  BY <1>16, <1>b, SameTargeted DEF InsertNext, Goto
<1>17. CASE ScanKeeps
  BY <1>17, <1>a, <1>b DEF ScanKeeps, Goto
<1>18. CASE ScanDrops
  BY <1>18, <1>a, <1>b DEF ScanDrops, Goto
<1>19. CASE Scanned
  BY <1>19, <1>b, SameTargeted DEF Scanned, Goto
<1>20. CASE Truncate
  BY <1>20, <1>b, SameTargeted DEF Truncate, Goto
<1>21. CASE Write
  BY <1>21, <1>b, SameTargeted DEF Write, WriteAndIndex, Goto
<1>22. CASE DeleteCount
  BY <1>22, <1>b, SameTargeted DEF DeleteCount, CountDown, Goto
<1>23. CASE RebuildNext
  BY <1>23, <1>b, SameTargeted DEF RebuildNext, Goto
<1>24. CASE RebuildCreate
  BY <1>24, <1>b, SameTargeted DEF RebuildCreate, RebuildFrom, Goto
<1>25. CASE RebuildEntry
  BY <1>25, <1>b, SameTargeted DEF RebuildEntry, Goto
<1>26. CASE RebuildFilled
  BY <1>26, <1>b, SameTargeted DEF RebuildFilled, RebuildContinue, Goto
<1>27. CASE RebuildRefused
  <2>1. CASE kind = "createIndex"
    BY <1>27, <2>1, SameTargeted DEF RebuildRefused, Goto
  <2>2. CASE kind # "createIndex"
    BY <1>27, <2>2 DEF RebuildRefused, Close, Forget
  <2> QED
    BY <2>1, <2>2
<1>28. CASE RebuildDone
  BY <1>28, <1>a, <1>b DEF RebuildDone, Close, Forget
<1>29. CASE Register
  <2> DEFINE d == Head(queue)
             more == Append(tid, d)
  <2>1. d \in IndexDefs /\ tid \in Seq(IndexDefs) /\ d.name = target
    BY <1>29 DEF Register, TypeInv, TypeOK, Phases
  <2>2. /\ tid' = more /\ target' = target /\ pc' = "rebuild"
    BY <1>29 DEF Register, Goto
  <2> HIDE DEF d
  <2>3. Len(tid) + 1 \in DOMAIN more /\ more[Len(tid) + 1] = d
    BY <2>1
  <2> HIDE DEF more
  <2> QED
    BY <2>1, <2>2, <2>3 DEF Registered
<1>30. CASE CreateIndexUndo
  BY <1>30, <1>a, <1>b DEF CreateIndexUndo, Unlist, Goto
<1>31. CASE Relist
  BY <1>31, <1>a, <1>b DEF Relist, Goto
<1>32. CASE Relisted
  BY <1>32, <1>a, <1>b DEF Relisted, Goto
<1>33. CASE Unlink
  BY <1>33, <1>a, <1>b DEF Unlink, UnlinkLeaving, End, Close, Forget
<1>34. CASE Crash
  BY <1>34, <1>a, <1>b DEF Crash, Forget
<1>35. CASE UNCHANGED vars
  BY <1>35 DEF Registered
<1> QED
  BY <1>1, <1>2, <1>3, <1>4, <1>5, <1>6, <1>7, <1>8, <1>9, <1>10, <1>11, <1>12, <1>13, <1>14, <1>15, <1>16, <1>17, <1>18, <1>19, <1>20, <1>21, <1>22, <1>23, <1>24, <1>25, <1>26, <1>27, <1>28, <1>29, <1>30, <1>31, <1>32, <1>33, <1>34, <1>35 DEF Next, Start, Step

LEMMA InvGoesOn == TypeInv /\ HealInv /\ KindAt /\ Targeted => GoesOn
BY DEF TypeInv, Phases, HealInv, Filling, KindAt, Targeted, GoesOn

\* The three numbers are such.
LEMMA MeasureIs == TypeInv /\ GoesOn => Stage \in Nat /\ Ahead \in Nat /\ InHand \in Nat
<1> SUFFICES ASSUME TypeInv, GoesOn PROVE Stage \in Nat /\ Ahead \in Nat /\ InHand \in Nat
  OBVIOUS
<1>1. /\ Len(src) \in Nat /\ Len(queue) \in Nat /\ Len(trd) \in Nat /\ Len(tid) \in Nat /\ cur \in Nat
      /\ pc \in Points
  BY DEF TypeInv, TypeOK
<1>2. pc \in {"scan", "fill"} => cur <= Len(trd)
  BY DEF GoesOn
<1>3. Stage \in Nat
  BY <1>1 DEF Stage, Points
<1>4. Ahead \in Nat
  BY <1>1, <1>2 DEF Ahead, Points
<1>5. InHand \in Nat
  BY <1>1, <1>2 DEF InHand, Points
<1> QED
  BY <1>3, <1>4, <1>5

\* A step that ends the statement, or takes it to an earlier stage.
LEMMA EarlierStage ==
  ASSUME TypeInv, TypeInv', pc # "idle",
         \/ pc' = "idle"
         \/ pc = "scan" /\ pc' = "truncate"
         \/ pc \in {"entry", "write", "count", "register"} /\ pc' = "rebuild"
         \/ pc = "fill" /\ pc' = "undo"
         \/ pc = "undo" /\ pc' = "relist"
  PROVE  Lower
<1>1. pc \in Points /\ pc' \in Points
  BY DEF TypeInv, TypeOK
<1>2. Stage' < Stage
  BY <1>1 DEF Stage, Points
<1> QED
  BY <1>2 DEF Lower

\* Every step of a statement, and its being cut short, lowers them.
LEMMA StepLowers ==
  ASSUME TypeInv, TypeInv', GoesOn, GoesOn', pc # "idle", Step \/ Crash
  PROVE  Lower
<1>t. src \in Seq([Columns -> Given]) /\ queue \in Seq(IndexDefs) /\ trd \in Seq(Row) /\ tid \in Seq(IndexDefs)
  BY DEF TypeInv, TypeOK
<1>a. Len(src) \in Nat /\ Len(queue) \in Nat /\ Len(trd) \in Nat /\ Len(tid) \in Nat /\ cur \in Nat
  <2>1. cur \in Nat
    BY DEF TypeInv, TypeOK
  <2> QED
    BY <1>t, <2>1
<1>b. /\ src # <<>> => Len(Tail(src)) = Len(src) - 1
      /\ queue # <<>> => Len(Tail(queue)) = Len(queue) - 1
      /\ queue = <<>> => Len(queue) = 0
  BY <1>t
<1>c. pc \in {"create", "fill"} => queue # <<>>
  BY DEF GoesOn
<1>1. CASE InsertDone
  BY <1>1, EarlierStage DEF InsertDone, End, Close, Forget
<1>2. CASE InsertRefused
  BY <1>2, EarlierStage DEF InsertRefused, End, Close, Forget
<1>3. CASE InsertAppend
  <2>1. pc = "row" /\ pc' = "meta" /\ Len(src') = Len(src) - 1
    BY <1>3, <1>b DEF InsertAppend, Store, Goto
  <2> QED
    BY <1>a, <2>1 DEF Lower, Stage, Ahead
<1>4. CASE InsertCount
  <2>1. pc = "meta" /\ pc' = "entry" /\ src' = src /\ queue' = tid
    BY <1>4 DEF InsertCount, Goto
  <2> QED
    BY <1>a, <2>1 DEF Lower, Stage, Ahead, InHand
<1>5. CASE InsertEntry
  <2>1. pc = "entry" /\ pc' = "entry" /\ src' = src /\ Len(queue') = Len(queue) - 1
    BY <1>5, <1>b DEF InsertEntry, Goto
  <2> QED
    BY <1>a, <2>1 DEF Lower, Stage, Ahead, InHand
<1>6. CASE InsertEntryRefused
  BY <1>6, EarlierStage DEF InsertEntryRefused, Goto
<1>7. CASE InsertNext
  <2>1. pc = "entry" /\ pc' = "row" /\ src' = src
    BY <1>7 DEF InsertNext, Goto, locals
  <2> QED
    BY <1>a, <2>1 DEF Lower, Stage, Ahead, InHand
<1>8. CASE ScanKeeps
  <2>1. pc = "scan" /\ pc' = "scan" /\ trd' = trd /\ cur' = cur + 1
    BY <1>8 DEF ScanKeeps, Goto, disk
  <2> QED
    BY <1>a, <2>1 DEF Lower, Stage, Ahead
<1>9. CASE ScanDrops
  <2>1. pc = "scan" /\ pc' = "scan" /\ trd' = trd /\ cur' = cur + 1
    BY <1>9 DEF ScanDrops, Goto, disk
  <2> QED
    BY <1>a, <2>1 DEF Lower, Stage, Ahead
<1>10. CASE Scanned
  BY <1>10, EarlierStage DEF Scanned, Goto
<1>11. CASE Truncate
  <2>1. pc = "truncate" /\ pc' = "write"
    BY <1>11 DEF Truncate, Goto
  <2> QED
    BY <1>a, <2>1 DEF Lower, Stage, Ahead
<1>12. CASE Write
  <2>1. CASE kind = "delete"
    <3>1. pc = "write" /\ pc' = "count"
      BY <1>12, <2>1 DEF Write, WriteAndIndex, Goto
    <3> QED
      BY <3>1 DEF Lower, Stage, Ahead
  <2>2. CASE kind # "delete"
    BY <1>12, <2>2, EarlierStage DEF Write, WriteAndIndex, Goto
  <2> QED
    BY <2>1, <2>2
<1>13. CASE DeleteCount
  BY <1>13, EarlierStage DEF DeleteCount, CountDown, Goto
<1>14. CASE RebuildNext
  <2>1. pc = "rebuild" /\ pc' = "create" /\ queue' = queue /\ trd' = trd
    BY <1>14 DEF RebuildNext, Goto, locals
  <2> QED
    BY <1>a, <2>1 DEF Lower, Stage, Ahead, InHand
<1>15. CASE RebuildCreate
  <2>1. pc = "create" /\ pc' = "fill" /\ queue' = queue /\ trd' = trd /\ cur' = 0
    BY <1>15 DEF RebuildCreate, RebuildFrom, Goto
  <2> QED
    BY <1>a, <2>1 DEF Lower, Stage, Ahead, InHand
<1>16. CASE RebuildEntry
  <2>1. pc = "fill" /\ pc' = "fill" /\ queue' = queue /\ trd' = trd /\ cur' = cur + 1
    BY <1>16 DEF RebuildEntry, Goto
  <2> QED
    BY <1>a, <2>1 DEF Lower, Stage, Ahead, InHand
<1>17. CASE RebuildFilled
  <2>1. pc = "fill" /\ pc' = "rebuild" /\ Len(queue') = Len(queue) - 1
    BY <1>17, <1>b, <1>c DEF RebuildFilled, RebuildContinue, Goto
  <2> QED
    BY <1>a, <2>1 DEF Lower, Stage, Ahead
<1>18. CASE RebuildRefused
  BY <1>18, EarlierStage DEF RebuildRefused, Goto, End, Close, Forget
<1>19. CASE RebuildDone
  BY <1>19, EarlierStage DEF RebuildDone, End, Close, Forget
<1>20. CASE Register
  BY <1>20, EarlierStage DEF Register, Goto
<1>21. CASE CreateIndexUndo
  BY <1>21, EarlierStage DEF CreateIndexUndo, Unlist, Goto
<1>22. CASE Relist
  <2>1. pc = "relist" /\ pc' = "relist" /\ Len(queue') = Len(queue) - 1
    BY <1>22, <1>b DEF Relist, Goto
  <2> QED
    BY <1>a, <2>1 DEF Lower, Stage, Ahead
<1>23. CASE Relisted
  <2>1. pc = "relist" /\ pc' = "unlink" /\ Len(queue) = 0
    BY <1>23, <1>b DEF Relisted, Goto, locals
  <2> QED
    BY <1>a, <2>1 DEF Lower, Stage, Ahead
<1>24. CASE Unlink
  BY <1>24, EarlierStage DEF Unlink, UnlinkLeaving, End, Close, Forget
<1>25. CASE Crash
  BY <1>25, EarlierStage DEF Crash, Forget
<1> QED
  BY <1>1, <1>2, <1>3, <1>4, <1>5, <1>6, <1>7, <1>8, <1>9, <1>10, <1>11, <1>12, <1>13, <1>14, <1>15, <1>16, <1>17, <1>18, <1>19, <1>20, <1>21, <1>22, <1>23, <1>24, <1>25 DEF Step

\* While a statement runs, nothing happens but its steps and a crash.
LEMMA OnlySteps == ASSUME pc # "idle", Next PROVE Step \/ Crash
<1>1. ~ Start
  BY DEF Start, Insert, Update, UpdateAnswered, Delete, DeleteAnswered, CreateIndex, CreateIndexAnswered,
         DropIndex, DropIndexAnswered, Begin, Answer
<1> QED
  BY <1>1 DEF Next

RunInv == TypeInv /\ ListInv /\ HealInv /\ KindAt /\ Counted /\ Targeted

LEMMA RunInvKept == Spec => []RunInv
<1>1. Init => RunInv
  BY TypeInit, TargetedInit
     DEF Init, RunInv, ListInv, HealInv, KindAt, Counted, NamesDistinct, Maintaining, Rebuilding
<1>2. RunInv /\ [Next]_vars => RunInv'
  BY TypeStep, ListStep, HealStep, KindStep, CountStep, TargetedStep DEF RunInv
<1> QED
  BY <1>1, <1>2, PTL DEF Spec

\* A running statement never stands before a record or a definition
\* that is not there, so that some step of its executor can be taken.
THEOREM StatementGoesOn == Spec => []GoesOn
<1>1. RunInv => GoesOn
  BY InvGoesOn DEF RunInv
<1> QED
  BY <1>1, RunInvKept, PTL

\* And no statement, in any loop of any executor, runs for ever: each of its
\* steps lowers three natural numbers, the first before the others.
THEOREM StatementRunsDown ==
  Spec => /\ [](Stage \in Nat /\ Ahead \in Nat /\ InHand \in Nat)
          /\ [][pc # "idle" => Lower]_vars
<1>1. RunInv => GoesOn
  BY InvGoesOn DEF RunInv
<1>2. RunInv /\ GoesOn => Stage \in Nat /\ Ahead \in Nat /\ InHand \in Nat
  BY MeasureIs DEF RunInv
<1>3. RunInv /\ GoesOn /\ RunInv' /\ GoesOn' /\ [Next]_vars => [pc # "idle" => Lower]_vars
  <2>1. ASSUME RunInv, GoesOn, RunInv', GoesOn', Next, pc # "idle" PROVE Lower
    <3>1. TypeInv /\ TypeInv'
      BY <2>1 DEF RunInv
    <3> QED
      BY <2>1, <3>1, OnlySteps, StepLowers
  <2> QED
    BY <2>1
<1> QED
  BY <1>1, <1>2, <1>3, RunInvKept, PTL DEF Spec

=============================================================================
