------------------------------ MODULE TableFiles ------------------------------
(***************************************************************************)
(* The files of one table and the statements that decide how its records   *)
(* are laid out: CREATE TABLE, DROP TABLE, ALTER TABLE ADD, DROP and       *)
(* MODIFY COLUMN, with INSERT to put records there.                        *)
(*                                                                         *)
(* A record has no header and no separator: its bytes mean what the field  *)
(* list in the .tdf file says, and every reader sorts that list by the     *)
(* order numbers in it before it computes offsets.  ALTER TABLE computes   *)
(* offsets from the list as the file has it.                               *)
(*                                                                         *)
(* Each action is one storage write with the checks before it.  A word     *)
(* stands for four bytes; a row's words name the column and the row they   *)
(* were stored for, so that a reader that looks in the wrong place is seen. *)
(***************************************************************************)
EXTENDS Integers, Sequences, FiniteSets, SequencesExt

CONSTANTS
  Names,         \* column names
  Widths,        \* sizes of a column, in words
  Creations,     \* field lists CREATE TABLE is given: sequences of <<name, width>>
  Required,      \* Required[fs]: the columns of fs with a constraint that asks for a value
  None,          \* no table
  MaxRows,       \* bound on the records ever counted
  MaxAlters,     \* bound on the number of ALTER statements begun
  MaxCrashes     \* bound on the number of crashes

VARIABLES
  tb,            \* the .tb file: its two counts, or None
  tdf,           \* the .tdf file: the fields, in file order
  trd,           \* the .trd file: words
  tic,           \* the .tic file: the columns its blocks ask a value for
  files,         \* which of .tdf, .trd, .tic and .tid exist
  pc,            \* what the running statement does next, "idle" if none runs
  kind,          \* which statement runs, or was the last to run
  queue,         \* fields still to write to .tdf
  rest,          \* CREATE: constraints still to write; DROP TABLE: files still to delete
  field,         \* ADD, MODIFY: the new field
  buf,           \* ALTER: the new contents of the record file
  ok,            \* DROP TABLE: no deletion has failed
  reply,         \* how the last statement ended
  want,          \* what the rows should read as, by column (history)
  mixed,         \* an ADD has put a column before an older one (history)
  doubled,       \* the field list may name a column twice: CREATE TABLE did (history)
  alters,        \* how many ALTER statements have begun (history)
  crashes        \* how often the process was killed (history)

disk    == <<tb, tdf, trd, tic, files>>
locals  == <<queue, rest, field, buf, ok>>
history == <<want, mixed, doubled, alters, crashes>>
vars    == <<disk, pc, kind, locals, reply, history>>

Others == <<"tdf", "trd", "tic", "tid">>

Field == [name : Names, order : Nat, width : Widths]

Blank == <<>>

Word == {Blank} \cup (Names \X (Nat \ {0}) \X (Nat \ {0}))

NoField == [name |-> CHOOSE c \in Names : TRUE, order |-> 0, width |-> CHOOSE w \in Widths : TRUE]

ASSUME WidthsAssumption == Widths \subseteq Nat \ {0} /\ Widths # {} /\ Names # {}
ASSUME CreationsAssumption ==
  \A fs \in Creations :
    /\ fs \in Seq(Names \X Widths)
    /\ Required[fs] \in Seq({fs[i][1] : i \in DOMAIN fs})
ASSUME BoundsAssumption ==
  MaxRows \in Nat /\ MaxAlters \in Nat /\ MaxCrashes \in Nat /\ None \notin [fields : Int, records : Int]

-----------------------------------------------------------------------------
(***************************************************************************)
(* Layout.                                                                 *)
(***************************************************************************)
NamesIn(fs) == {fs[i].name : i \in DOMAIN fs}

Distinct(fs) == \A i, j \in DOMAIN fs : fs[i].name = fs[j].name => i = j

\* Where a search for a name ends: at the first field that has it.
Find(fs, c) ==
  CHOOSE i \in DOMAIN fs : fs[i].name = c /\ \A j \in DOMAIN fs : fs[j].name = c => i <= j

Without(fs, p) == SubSeq(fs, 1, p - 1) \o SubSeq(fs, p + 1, Len(fs))

\* The fields with another name than c, in order.
Except(fs, c) ==
  LET kept == {i \in DOMAIN fs : fs[i].name # c}
      At(r) == CHOOSE i \in kept : Cardinality({j \in kept : j <= i}) = r
  IN  [r \in 1..Cardinality(kept) |-> fs[At(r)]]

Ordered(fs) == \A i, j \in DOMAIN fs : i < j => fs[i].order <= fs[j].order

\* The fields by order number; std::sort leaves short lists with equal numbers as they are.
Sorted(fs) ==
  LET Before(i, j) == fs[i].order < fs[j].order \/ (fs[i].order = fs[j].order /\ i < j)
      At(r) == CHOOSE j \in DOMAIN fs : Cardinality({i \in DOMAIN fs : Before(i, j)}) = r - 1
  IN  [r \in DOMAIN fs |-> fs[At(r)]]

\* Ends(fs)[n]: how many words of a record the first n fields take.
Ends(fs) ==
  LET sum[n \in 0..Len(fs)] == IF n = 0 THEN 0 ELSE sum[n - 1] + fs[n].width
  IN  sum

Size(fs) == Ends(fs)[Len(fs)]

Offset(fs, i) == Ends(fs)[i - 1]

\* How many whole records a file holds.
Count(fs, words) == IF Size(fs) = 0 THEN 0 ELSE Len(words) \div Size(fs)

\* What a reader finds for the i-th field in the r-th record.
Read(fs, words, r, i) ==
  LET start == (r - 1) * Size(fs) + Offset(fs, i) IN SubSeq(words, start + 1, start + fs[i].width)

\* The rows SELECT shows, by column name (SeqScanOperator).
Shown ==
  LET fs == Sorted(tdf)
  IN  [r \in 1..Count(fs, trd) |->
        [c \in NamesIn(fs) |-> Read(fs, trd, r, CHOOSE i \in DOMAIN fs : fs[i].name = c)]]

\* The value of column c in row x: words no other column and row has.
Value(c, x, width) == [k \in 1..width |-> <<c, k, x>>]

Zeros(width) == [k \in 1..width |-> Blank]

\* The field a word of a record belongs to.
FieldOf(fs, q) ==
  CHOOSE i \in DOMAIN fs : Offset(fs, i) < q /\ q <= Offset(fs, i) + fs[i].width

\* The record INSERT encodes.
Encoded(fs, x) ==
  [q \in 1..Size(fs) |->
     LET i == FieldOf(fs, q) IN Value(fs[i].name, x, fs[i].width)[q - Offset(fs, i)]]

\* A value cut or zero-filled to another width.
Fit(value, width) == [k \in 1..width |-> IF k <= Len(value) THEN value[k] ELSE Blank]

-----------------------------------------------------------------------------
(***************************************************************************)
(* rewriteRecords.  A move copies len words of a record from one offset to *)
(* another; later moves overwrite earlier ones, and the rest is zero.      *)
(***************************************************************************)
Move(from, to, len) == [from |-> from, to |-> to, len |-> len]

AddMoves(old, new) ==
  [i \in DOMAIN old |-> Move(Offset(old, i), Offset(new, i), old[i].width)]

\* Faulty: the columns behind the dropped one stay where they were.
DropMovesInPlace(old, new, p) ==
  [i \in DOMAIN new |->
     LET j == IF i < p THEN i ELSE i + 1 IN Move(Offset(old, i), Offset(new, i), old[j].width)]

DropMoves(old, new, p) ==
  [i \in DOMAIN new |->
     LET j == IF i < p THEN i ELSE i + 1 IN Move(Offset(old, j), Offset(new, i), old[j].width)]

ModifyMoves(old, new) ==
  [i \in DOMAIN old |->
     Move(Offset(old, i), Offset(new, i),
          IF old[i].width < new[i].width THEN old[i].width ELSE new[i].width)]

Moved(record, moves, size) ==
  [q \in 1..size |->
     LET hits == {i \in DOMAIN moves : moves[i].to < q /\ q <= moves[i].to + moves[i].len}
     IN  IF hits = {} THEN Blank
         ELSE LET m == moves[CHOOSE i \in hits : \A j \in hits : j <= i]
              IN  record[m.from + q - m.to]]

\* The r-th record of the file.
Record(fs, r) == SubSeq(trd, (r - 1) * Size(fs) + 1, r * Size(fs))

Rewritten(old, new, moves) ==
  LET size == Size(new)
  IN  [q \in 1..(Count(old, trd) * size) |->
         LET r == (q - 1) \div size
         IN  Moved(Record(old, r + 1), moves, size)[q - r * size]]

-----------------------------------------------------------------------------
TypeOK ==
  /\ tb # None => tb \in [fields : Int, records : Nat] /\ (crashes = 0 /\ ~ doubled => tb.fields \in Nat)
  /\ tdf \in Seq(Field)
  /\ trd \in Seq(Word)
  /\ tic \in Seq(Names)
  /\ files \subseteq ToSet(Others)
  /\ pc \in {"idle", "count", "tdf", "field", "trd", "tic", "tid", "require", "delete",
             "rewrite", "put", "meta"}
  /\ kind \in {"create", "dropTable", "insert", "add", "drop", "modify"}
  /\ queue \in Seq(Field)
  /\ rest \in Seq(Names \cup ToSet(Others))
  /\ field \in Field
  /\ buf \in Seq(Word)
  /\ ok \in BOOLEAN
  /\ reply \in {"none", "ok", "error", "refused", "crashed", "died"}
  /\ \A r \in DOMAIN want : \A d \in DOMAIN want[r] : d \in Names /\ want[r][d] \in Seq(Word)
  /\ mixed \in BOOLEAN /\ doubled \in BOOLEAN
  /\ alters \in 0..MaxAlters
  /\ crashes \in 0..MaxCrashes

Init ==
  /\ tb = None /\ tdf = <<>> /\ trd = <<>> /\ tic = <<>> /\ files = {}
  /\ pc = "idle" /\ kind = "dropTable" /\ reply = "ok"
  /\ queue = <<>> /\ rest = <<>> /\ field = NoField /\ buf = <<>> /\ ok = TRUE
  /\ want = <<>> /\ mixed = FALSE /\ doubled = FALSE /\ alters = 0 /\ crashes = 0

\* A .tb file of the right size is all there is to a table.
HasTable == tb # None

Begin(k, next) == pc = "idle" /\ kind' = k /\ pc' = next /\ reply' = "none" /\ UNCHANGED crashes

\* A statement that is refused before it writes anything.
Refuse ==
  /\ pc = "idle" /\ reply' = "refused"
  /\ UNCHANGED <<disk, pc, kind, locals, history>>

Goto(next) == pc' = next /\ UNCHANGED <<kind, reply, history>>

Forget == queue' = <<>> /\ rest' = <<>> /\ field' = NoField /\ buf' = <<>> /\ ok' = TRUE

End(how) == pc' = "idle" /\ reply' = how /\ Forget /\ UNCHANGED <<kind, history>>

-----------------------------------------------------------------------------
(***************************************************************************)
(* CREATE TABLE: the .tb file with its block, the .tdf file and its fields *)
(* one by one, the other files, then the constraints.                      *)
(***************************************************************************)
FieldList(fs) ==
  [i \in DOMAIN fs |-> [name |-> fs[i][1], order |-> i - 1, width |-> fs[i][2]]]

\* Nothing looks for a name that is there twice.
CreateTable(fs) ==
  /\ ~ HasTable
  /\ Begin("create", "tdf")
  /\ tb' = [fields |-> Len(fs), records |-> 0]
  /\ queue' = FieldList(fs)
  /\ rest' = Required[fs]
  /\ doubled' = (~ Distinct(FieldList(fs)) \/ (doubled /\ tdf # <<>>))
  /\ want' = <<>> /\ mixed' = FALSE /\ UNCHANGED alters
  /\ UNCHANGED <<tdf, trd, tic, files, field, buf, ok>>

CreateTableRefused == HasTable /\ Refuse

\* Faulty: a .tdf file that is still there keeps its fields.
CreateTdfKeeps ==
  /\ pc = "tdf"
  /\ files' = files \cup {"tdf"}
  /\ Goto("field")
  /\ UNCHANGED <<tb, tdf, trd, tic, locals>>

\* createFile empties a file that is still there.
CreateTdf ==
  /\ pc = "tdf"
  /\ tdf' = <<>> /\ files' = files \cup {"tdf"}
  /\ Goto("field")
  /\ UNCHANGED <<tb, trd, tic, locals>>

\* createTable and dropField write a field list block by block.
AppendField ==
  /\ pc = "field" /\ queue # <<>>
  /\ tdf' = Append(tdf, Head(queue))
  /\ queue' = Tail(queue)
  /\ Goto("field")
  /\ UNCHANGED <<tb, trd, tic, files, rest, field, buf, ok>>

CreateTrd ==
  /\ pc = "field" /\ queue = <<>> /\ kind = "create"
  /\ trd' = <<>> /\ files' = files \cup {"trd"}
  /\ Goto("tic")
  /\ UNCHANGED <<tb, tdf, tic, locals>>

CreateTic ==
  /\ pc = "tic"
  /\ tic' = <<>> /\ files' = files \cup {"tic"}
  /\ Goto("tid")
  /\ UNCHANGED <<tb, tdf, trd, locals>>

CreateTid ==
  /\ pc = "tid"
  /\ files' = files \cup {"tid"}
  /\ Goto("require")
  /\ UNCHANGED <<tb, tdf, trd, tic, locals>>

AddIntegrity ==
  /\ pc = "require" /\ rest # <<>>
  /\ tic' = Append(tic, Head(rest))
  /\ rest' = Tail(rest)
  /\ Goto("require")
  /\ UNCHANGED <<tb, tdf, trd, files, queue, field, buf, ok>>

CreateDone == pc = "require" /\ rest = <<>> /\ End("ok") /\ UNCHANGED disk

-----------------------------------------------------------------------------
(***************************************************************************)
(* DROP TABLE deletes the .tb file first.  A deletion that fails, because  *)
(* the file is not there, makes the answer an error and stops nothing.     *)
(***************************************************************************)
DropTable ==
  /\ HasTable
  /\ Begin("dropTable", "delete")
  /\ tb' = None
  /\ rest' = Others
  /\ want' = <<>> /\ mixed' = FALSE /\ UNCHANGED <<doubled, alters>>
  /\ UNCHANGED <<tdf, trd, tic, files, queue, field, buf, ok>>

DropTableRefused == ~ HasTable /\ Refuse

Delete(f) ==
  /\ files' = files \ {f}
  /\ tdf' = IF f = "tdf" THEN <<>> ELSE tdf
  /\ trd' = IF f = "trd" THEN <<>> ELSE trd
  /\ tic' = IF f = "tic" THEN <<>> ELSE tic

DeleteThen(f, left) ==
  /\ pc = "delete" /\ rest # <<>>
  /\ Delete(f)
  /\ ok' = (ok /\ f \in files)
  /\ rest' = left
  /\ Goto("delete")
  /\ UNCHANGED <<tb, queue, field, buf>>

\* Faulty: after a failed deletion nothing more is deleted.
DeleteStops == DeleteThen(Head(rest), IF Head(rest) \in files THEN Tail(rest) ELSE <<>>)

DeleteFile == DeleteThen(Head(rest), Tail(rest))

DropTableDone ==
  /\ pc = "delete" /\ rest = <<>>
  /\ End(IF ok THEN "ok" ELSE "error")
  /\ UNCHANGED disk

-----------------------------------------------------------------------------
(***************************************************************************)
(* INSERT gives every column a value.  It is refused where there is no     *)
(* column to give one to, and a constraint on a column that is gone        *)
(* refuses every row.                                                      *)
(***************************************************************************)
CanInsert ==
  HasTable /\ tdf # <<>> /\ ToSet(tic) \subseteq NamesIn(tdf) /\ "trd" \in files

InsertIn(fs) ==
  LET x == tb.records + 1
  IN  /\ CanInsert /\ x <= MaxRows
      /\ Begin("insert", "count")
      /\ trd' = trd \o Encoded(fs, x)
      /\ want' = IF crashes > 0 THEN want
                 ELSE Append(want, [c \in NamesIn(fs) |->
                        LET i == CHOOSE i \in DOMAIN fs : fs[i].name = c IN Value(c, x, fs[i].width)])
      /\ UNCHANGED <<tb, tdf, tic, files, locals, mixed, doubled, alters>>

Insert == InsertIn(Sorted(tdf))

InsertRefused == ~ CanInsert /\ Refuse

InsertCount ==
  /\ pc = "count"
  /\ tb' = [tb EXCEPT !.records = @ + 1]
  /\ End("ok")
  /\ UNCHANGED <<tdf, trd, tic, files>>

-----------------------------------------------------------------------------
(***************************************************************************)
(* ALTER TABLE: the records are rewritten, then the field list.  Nothing   *)
(* is rewritten when there is no whole record or no record file.           *)
(***************************************************************************)
\* rewriteRecords divides by the size of a record before it looks for records.
Divides == "trd" \in files => Size(tdf) # 0

AlterTo(new, moves, next) ==
  IF "trd" \in files /\ Count(tdf, trd) > 0
    THEN pc' = "rewrite" /\ buf' = Rewritten(tdf, new, moves)
    ELSE pc' = next /\ UNCHANGED buf

Alter(k, new, moves, next, rows) ==
  /\ pc = "idle" /\ HasTable /\ Divides /\ alters < MaxAlters
  /\ kind' = k /\ reply' = "none"
  /\ AlterTo(new, moves, next)
  /\ want' = IF crashes > 0 THEN want ELSE rows
  /\ alters' = alters + 1
  /\ UNCHANGED <<disk, rest, ok, doubled, crashes>>

NewField(c, w) == [name |-> c, order |-> Len(tdf) + 1, width |-> w]

AddColumn(c, w) ==
  LET new == Sorted(Append(tdf, NewField(c, w)))
  IN  /\ c \notin NamesIn(tdf)
      /\ field' = NewField(c, w)
      /\ mixed' = (mixed \/ ~ Ordered(Append(tdf, field')))
      /\ Alter("add", new, AddMoves(tdf, new), "put",
               [r \in DOMAIN want |->
                  [d \in NamesIn(new) |-> IF d = c THEN Zeros(w) ELSE want[r][d]]])
      /\ UNCHANGED queue

\* The records lose the first column of the name, the field list (dropField) all of them.
DropColumn(p) ==
  LET new  == Without(tdf, p)
      left == Except(tdf, tdf[p].name)
  IN  /\ p = Find(tdf, tdf[p].name)
      /\ queue' = left
      /\ Alter("drop", new, DropMoves(tdf, new, p), "put",
               IF left = <<>> THEN <<>>
               ELSE [r \in DOMAIN want |-> [d \in NamesIn(left) |-> want[r][d]]])
      /\ UNCHANGED <<field, mixed>>

ModifyColumn(p, w) ==
  LET new == [tdf EXCEPT ![p].width = w]
  IN  /\ p = Find(tdf, tdf[p].name)
      /\ field' = new[p]
      /\ Alter("modify", new, ModifyMoves(tdf, new), "put",
               [r \in DOMAIN want |-> [want[r] EXCEPT ![tdf[p].name] = Fit(@, w)]])
      /\ UNCHANGED <<queue, mixed>>

\* No table, a column that exists, or one that does not.
AddRefused == (HasTable => NamesIn(tdf) # {}) /\ Refuse

DropOrModifyRefused == (HasTable => NamesIn(tdf) # Names) /\ Refuse

\* ADD to a table without columns: division by zero ends the process.
AddDies(c) ==
  /\ pc = "idle" /\ HasTable /\ ~ Divides /\ c \notin NamesIn(tdf)
  /\ reply' = "died"
  /\ UNCHANGED <<disk, pc, kind, locals, history>>

RewriteRecords ==
  /\ pc = "rewrite"
  /\ trd' = buf
  /\ Goto("put")
  /\ UNCHANGED <<tb, tdf, tic, files, locals>>

\* addField cannot append to a file a crash kept from being made.
AddField ==
  /\ pc = "put" /\ kind = "add" /\ "tdf" \in files
  /\ tdf' = Append(tdf, field)
  /\ Goto("meta")
  /\ UNCHANGED <<tb, trd, tic, files, locals>>

AddFieldFails == pc = "put" /\ kind = "add" /\ "tdf" \notin files /\ End("error") /\ UNCHANGED disk

UpdateField ==
  /\ pc = "put" /\ kind = "modify"
  /\ tdf' = [tdf EXCEPT ![Find(tdf, field.name)] = field]
  /\ End("ok")
  /\ UNCHANGED <<tb, trd, tic, files>>

\* dropField empties the file, then writes the other fields back.
ClearFields ==
  /\ pc = "put" /\ kind = "drop"
  /\ tdf' = <<>>
  /\ Goto("field")
  /\ UNCHANGED <<tb, trd, tic, files, locals>>

FieldsBack ==
  /\ pc = "field" /\ queue = <<>> /\ kind = "drop"
  /\ Goto("meta")
  /\ UNCHANGED <<disk, locals>>

CountFieldsBy(n) ==
  /\ pc = "meta"
  /\ tb' = [tb EXCEPT !.fields = @ + n]
  /\ End("ok")
  /\ UNCHANGED <<tdf, trd, tic, files>>

\* Faulty: ADD counts down too.
CountFieldsDown == CountFieldsBy(0 - 1)

CountFields == CountFieldsBy(IF kind = "add" THEN 1 ELSE 0 - 1)

-----------------------------------------------------------------------------
\* The process ends and is started again; a record file being written is
\* still the old one or a first part of the new one.  What the rows should be is then no longer said.
Crash ==
  /\ pc # "idle" /\ crashes < MaxCrashes
  /\ crashes' = crashes + 1
  /\ IF pc = "rewrite"
       THEN trd' \in {trd} \cup {SubSeq(buf, 1, n) : n \in 0..Len(buf)}
       ELSE UNCHANGED trd
  /\ pc' = "idle" /\ reply' = "crashed" /\ want' = <<>>
  /\ Forget
  /\ UNCHANGED <<tb, tdf, tic, files, kind, mixed, doubled, alters>>

Start ==
  \/ \E fs \in Creations : CreateTable(fs)
  \/ CreateTableRefused \/ DropTable \/ DropTableRefused \/ Insert \/ InsertRefused \/ AddRefused \/ DropOrModifyRefused
  \/ \E c \in Names :
       \/ \E w \in Widths : AddColumn(c, w)
       \/ AddDies(c)
  \/ \E p \in DOMAIN tdf : DropColumn(p) \/ \E w \in Widths : ModifyColumn(p, w)

Step ==
  \/ CreateTdf \/ AppendField \/ CreateTrd \/ CreateTic \/ CreateTid \/ AddIntegrity \/ CreateDone
  \/ DeleteFile \/ DropTableDone \/ InsertCount
  \/ RewriteRecords \/ AddField \/ AddFieldFails \/ UpdateField \/ ClearFields \/ FieldsBack \/ CountFields

Next == Start \/ Step \/ Crash

Spec == Init /\ [][Next]_vars

-----------------------------------------------------------------------------
Idle == pc = "idle"

\* As long as the field list is in the order of its numbers, names no column
\* twice, and no crash has cut a statement, every row reads as what was stored
\* in it: an added column as zeros, a modified one cut or zero-filled, all
\* others unchanged (rewriteRecords against SeqScanOperator and InsertExecutor).
RowsKept == Idle /\ crashes = 0 /\ ~ mixed /\ ~ doubled => Shown = want

\* Without a crash the counts in the .tb file are those of the field list and
\* of the rows, as long as the table has columns, and no two of one name.
CountsAgree ==
  Idle /\ crashes = 0 /\ ~ doubled /\ HasTable /\ tdf # <<>> =>
    tb = [fields |-> Len(tdf), records |-> Len(want)]

\* No statement but a CREATE TABLE that is given them, cut short or not,
\* leaves two fields of one name: a column would have two places in a record.
FieldsDistinct == ~ doubled => Distinct(tdf)

\* A CREATE TABLE that reports success has left an empty table with just the
\* fields and constraints it was given, whatever an earlier crash had left.
CreatedWhole ==
  Idle /\ kind = "create" /\ reply = "ok" =>
    /\ files = ToSet(Others) /\ trd = <<>>
    /\ \E fs \in Creations :
         /\ tdf = FieldList(fs) /\ tic = Required[fs]
         /\ tb = [fields |-> Len(fs), records |-> 0]

\* A DROP TABLE that ran leaves none of the five files, also where a crash had
\* left only some of them and it reports an error.
DroppedWhole ==
  Idle /\ kind = "dropTable" /\ reply \in {"ok", "error"} => ~ HasTable /\ files = {}

-----------------------------------------------------------------------------
\* AlterTableExecutor.cpp:113 says of the rewrite for ADD COLUMN that old
\* fields are copied as they are and the new column is filled with 0: after
\* an ADD every row reads so.
AddFillsZero == Idle /\ crashes = 0 /\ ~ doubled /\ kind = "add" => Shown = want

=============================================================================
