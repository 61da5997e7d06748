----------------------------- MODULE TableEngine -----------------------------
(***************************************************************************)
(* One table on disk and the executors that change it: InsertExecutor      *)
(* (also INSERT ... SELECT), UpdateExecutor, DeleteExecutor and the CREATE *)
(* INDEX and DROP INDEX executors, with the index maintenance they share.  *)
(*                                                                         *)
(* SqlService runs one statement at a time under its mutex, so steps of    *)
(* two statements never interleave.  What does come between two storage    *)
(* calls is the end of the process: every call is flushed, nothing is      *)
(* logged and no file is repaired at start-up.  Each action below is one   *)
(* storage write with the checks that precede it; Crash may follow any.    *)
(***************************************************************************)
EXTENDS TableRows, Integers, FiniteSets

CONSTANTS
  Predicates,    \* WHERE clauses, each the set of rows it holds of
  Assignments,   \* SET lists
  Sources,       \* what INSERT ... VALUES and INSERT ... SELECT supply: sequences of rows
  MaxRows,       \* bound on the length of the record file
  MaxCrashes     \* bound on the number of crashes

VARIABLES
  trd,           \* the record file: its rows in file order
  recordNum,     \* TableBlock.record_num in the .tb file
  tid,           \* the .tid file: definitions of the table's indexes, in file order
  ix,            \* the index files that exist: ix[n] is the entries <<key, offset>> of n.ix
  torn,          \* the index files a crash cut between two of their page writes
  pc,            \* what the running statement does next, "idle" if none runs
  kind,          \* which executor runs or ran last
  src,           \* INSERT: the rows still to insert
  buf,           \* UPDATE, DELETE: the new contents of the record file
  doomed,        \* DELETE: the primary keys of the rows to leave out of buf
  deleted,       \* DELETE: the number of rows left out of buf
  queue,         \* index definitions still to maintain, or to write back to .tid
  cur,           \* DELETE, rebuild: how many records of the file are behind us
  target,        \* the index whose file DROP INDEX deletes
  reply,         \* how the last statement ended
  before,        \* rows and definitions when it began (history, for the properties)
  crashes,       \* how often the process died (history, for the properties)
  stale          \* a rebuild was refused and none ran to its end since (history)

disk     == <<trd, recordNum, tid, ix, torn>>
locals   == <<src, buf, doomed, deleted, queue, cur, target>>
history  == <<before, crashes, stale>>
vars     == <<disk, pc, kind, locals, reply, history>>

Kinds == {"insert", "update", "delete", "createIndex", "dropIndex"}

Points == {"idle", "row", "meta", "entry", "scan", "truncate", "write",
           "count", "rebuild", "create", "fill", "register", "undo", "relist", "unlink"}

Replies == {"none", "ok", "error", "crashed"}

ASSUME BoundsAssumption == MaxRows \in Nat /\ MaxCrashes \in Nat
ASSUME StatementsAssumption ==
  /\ Predicates \subseteq SUBSET Row
  /\ Sources \subseteq Seq([Columns -> Given])
  /\ \A a \in Assignments : \A c \in DOMAIN a : a[c] \in Given \cup Columns

TypeOK ==
  /\ trd \in Seq(Row)
  /\ recordNum \in Int
  /\ tid \in Seq(IndexDefs)
  /\ DOMAIN ix \subseteq IndexNames
  /\ ix \in [DOMAIN ix -> SUBSET Entry]
  /\ torn \subseteq IndexNames
  /\ pc \in Points
  /\ kind \in Kinds
  /\ src \in Seq([Columns -> Given])
  /\ buf \in Seq(Row)
  /\ doomed \subseteq Values
  /\ deleted \in Nat
  /\ queue \in Seq(IndexDefs)
  /\ cur \in Nat
  /\ target \in IndexNames
  /\ reply \in Replies
  /\ before \in [rows : Seq(Row), defs : Seq(IndexDefs)]
  /\ crashes \in 0..MaxCrashes
  /\ stale \in BOOLEAN

\* The state CreateExecutor and createTable leave: an empty table, no index.
Init ==
  /\ trd = <<>> /\ recordNum = 0 /\ tid = <<>>
  /\ ix = <<>> /\ torn = {}
  /\ pc = "idle" /\ kind = "insert" /\ reply = "none"
  /\ src = <<>> /\ buf = <<>> /\ doomed = {} /\ deleted = 0 /\ queue = <<>> /\ cur = 0
  /\ target \in IndexNames
  /\ before = [rows |-> <<>>, defs |-> <<>>] /\ crashes = 0 /\ stale = FALSE

-----------------------------------------------------------------------------
(***************************************************************************)
(* The index manager on whole files.  Writing an entry takes several page  *)
(* writes, and what a crash among them leaves is the business of module    *)
(* IndexTree; here such a file is torn.  Its entries are then those it may *)
(* still hold: a search can miss any of them, and an insertion can fail.   *)
(***************************************************************************)
Registered == {tid[k].name : k \in DOMAIN tid}

WithFile(n) == [m \in DOMAIN ix \cup {n} |-> IF m = n THEN {} ELSE ix[m]]

WithoutFile(n) == [m \in DOMAIN ix \ {n} |-> ix[m]]

\* Faulty: records are counted from 0.
WithEntryFromZero(n, k, i) == [ix EXCEPT ![n] = @ \cup {<<k, i - 1>>}]

WithEntry(n, k, i) == [ix EXCEPT ![n] = @ \cup {<<k, i>>}]

\* Faulty: what follows the dropped definition is lost.
DropTail(list, p) == SubSeq(list, 1, p - 1)

\* The list without its p-th element; names in .tid are unique.
Drop(list, p) == SubSeq(list, 1, p - 1) \o SubSeq(list, p + 1, Len(list))

\* Faulty: every index is taken for a unique one.
TakenInAny(d, k) == d.name \in DOMAIN ix /\ k \in KeysIn(ix[d.name])

\* What a unique index holds of key k already; a search of a torn file may miss it.
Taken(d, k) == d.unique /\ d.name \in DOMAIN ix /\ k \in KeysIn(ix[d.name])

\* Faulty: a unique index takes a key it already holds.
EntersAgain(d, k) == d.name \in DOMAIN ix

\* insertEntryInternal succeeds: a readable file, and in a unique one no such key found.
Enters(d, k) == d.name \in DOMAIN ix /\ (Taken(d, k) => d.name \in torn)

Refuses(d, k) == d.name \in DOMAIN ix \ torn => Taken(d, k)

\* validateUniqueIndexes finds the key in no unique index, or in one: search
\* finds nothing in a file that cannot be read.
UniqueFree(row) ==
  \A k \in DOMAIN tid : Taken(tid[k], Key(tid[k], row)) => tid[k].name \in torn

UniqueTaken(row) == \E k \in DOMAIN tid : Taken(tid[k], Key(tid[k], row))

\* canRebuildTableIndexesFromRows, on whole slots and before any packing: the
\* rebuild after the write reads less of a slot and may find two keys alike.
CanRebuild(rows) == \A k \in DOMAIN tid : tid[k].unique => DistinctSlots(tid[k], rows)

-----------------------------------------------------------------------------
(***************************************************************************)
(* Beginning and ending a statement.                                       *)
(***************************************************************************)
Begin(k, next) ==
  /\ pc = "idle"
  /\ kind' = k
  /\ pc' = next
  /\ before' = [rows |-> trd, defs |-> tid]
  /\ reply' = "none"
  /\ UNCHANGED <<crashes, stale>>

\* A statement that is refused or has nothing to do before it writes anything.
Answer(k, how) ==
  /\ pc = "idle"
  /\ kind' = k
  /\ before' = [rows |-> trd, defs |-> tid]
  /\ reply' = how
  /\ UNCHANGED <<disk, pc, locals, crashes, stale>>

\* The local variables of a running statement go out of scope.
Forget ==
  /\ src' = <<>> /\ buf' = <<>> /\ doomed' = {} /\ deleted' = 0
  /\ queue' = <<>> /\ cur' = 0
  /\ UNCHANGED target

Close(how) ==
  /\ pc' = "idle"
  /\ reply' = how
  /\ Forget
  /\ UNCHANGED <<kind, before, crashes>>

End(how) == Close(how) /\ UNCHANGED stale

Goto(next) == pc' = next /\ UNCHANGED <<kind, reply, history>>

-----------------------------------------------------------------------------
(***************************************************************************)
(* INSERT: check, append the record, count it, then one entry per index in *)
(* the order of .tid.  INSERT ... SELECT repeats this for each row of the  *)
(* query's result and stops at the first row that is refused.              *)
(***************************************************************************)
Insert(rows) ==
  /\ Len(trd) + Len(rows) <= MaxRows
  /\ Begin("insert", "row")
  /\ src' = rows
  /\ UNCHANGED <<disk, buf, doomed, deleted, queue, cur, target>>

InsertDone ==
  /\ pc = "row" /\ src = <<>>
  /\ End("ok")
  /\ UNCHANGED disk

InsertRefused ==
  /\ pc = "row" /\ src # <<>>
  /\ ~ AcceptsRow(trd, Head(src)) \/ UniqueTaken(StoredRow(Head(src)))
  /\ End("error")
  /\ UNCHANGED disk

Store(records) ==
  /\ pc = "row" /\ src # <<>>
  /\ AcceptsRow(trd, Head(src))
  /\ UniqueFree(StoredRow(Head(src)))
  /\ trd' = Append(records, StoredRow(Head(src)))
  /\ src' = Tail(src)
  /\ Goto("meta")
  /\ UNCHANGED <<recordNum, tid, ix, torn, buf, doomed, deleted, queue, cur, target>>

\* Faulty: the file is opened for writing, not for appending.
InsertOverwrites == Store(<<>>)

InsertAppend == Store(trd)

InsertCount ==
  /\ pc = "meta"
  /\ recordNum' = recordNum + 1
  /\ queue' = tid
  /\ Goto("entry")
  /\ UNCHANGED <<trd, tid, ix, torn, src, buf, doomed, deleted, cur, target>>

InsertEntry ==
  /\ pc = "entry" /\ queue # <<>>
  /\ LET d == Head(queue)
         k == Key(d, trd[Len(trd)])
     IN  /\ Enters(d, k)
         /\ ix' = WithEntry(d.name, k, Len(trd))
  /\ queue' = Tail(queue)
  /\ Goto("entry")
  /\ UNCHANGED <<trd, recordNum, tid, torn, src, buf, doomed, deleted, cur, target>>

\* insertRowIndexes failed: rebuild every index, then report failure.
InsertEntryRefused ==
  /\ pc = "entry" /\ queue # <<>>
  /\ Refuses(Head(queue), Key(Head(queue), trd[Len(trd)]))
  /\ queue' = tid
  /\ Goto("rebuild")
  /\ UNCHANGED <<disk, src, buf, doomed, deleted, cur, target>>

InsertNext ==
  /\ pc = "entry" /\ queue = <<>>
  /\ Goto("row")
  /\ UNCHANGED <<disk, locals>>

-----------------------------------------------------------------------------
(***************************************************************************)
(* UPDATE and DELETE compute the whole new record file in memory, truncate *)
(* the file, write it, and rebuild every index.                            *)
(***************************************************************************)
UpdateNothing(w) == \A i \in DOMAIN trd : trd[i] \notin w

Update(w, a) ==
  /\ ~ UpdateNothing(w)
  /\ AcceptsUpdate(trd, w, a)
  /\ CanRebuild(UpdatedRows(trd, w, a))
  /\ Begin("update", "truncate")
  /\ buf' = UpdatedRows(trd, w, a)
  /\ UNCHANGED <<disk, src, doomed, deleted, queue, cur, target>>

UpdateAnswered(w, a) ==
  IF UpdateNothing(w) THEN Answer("update", "ok")
  ELSE /\ ~ (AcceptsUpdate(trd, w, a) /\ CanRebuild(UpdatedRows(trd, w, a)))
       /\ Answer("update", "error")

Delete(w) ==
  /\ PK \in Columns
  /\ DoomedKeys(trd, w) # {}
  /\ Begin("delete", "scan")
  /\ doomed' = DoomedKeys(trd, w)
  /\ UNCHANGED <<disk, src, buf, deleted, queue, cur, target>>

\* DELETE is refused on a table with no primary key.
DeleteAnswered(w) ==
  IF PK \notin Columns THEN Answer("delete", "error")
  ELSE DoomedKeys(trd, w) = {} /\ Answer("delete", "ok")

\* The key is taken from the slot again, a string up to the first zero byte: one
\* that fills its slot runs on into the next column and may match nothing.
ScanKeeps ==
  /\ pc = "scan" /\ cur < Len(trd)
  /\ trd[cur + 1][PK] \in doomed => trd[cur + 1][PK] \in RunsOn
  /\ buf' = Append(buf, trd[cur + 1])
  /\ cur' = cur + 1
  /\ Goto("scan")
  /\ UNCHANGED <<disk, src, doomed, deleted, queue, target>>

ScanDrops ==
  /\ pc = "scan" /\ cur < Len(trd)
  /\ trd[cur + 1][PK] \in doomed
  /\ deleted' = deleted + 1
  /\ cur' = cur + 1
  /\ Goto("scan")
  /\ UNCHANGED <<disk, src, buf, doomed, queue, target>>

Scanned ==
  /\ pc = "scan" /\ cur = Len(trd)
  /\ Goto("truncate")
  /\ UNCHANGED <<disk, locals>>

Truncate ==
  /\ pc = "truncate"
  /\ trd' = <<>>
  /\ Goto("write")
  /\ UNCHANGED <<recordNum, tid, ix, torn, locals>>

WriteAndIndex(list) ==
  /\ pc = "write"
  /\ trd' = buf
  /\ queue' = list
  /\ Goto(IF kind = "delete" THEN "count" ELSE "rebuild")
  /\ UNCHANGED <<recordNum, tid, ix, torn, src, buf, doomed, deleted, cur, target>>

\* Faulty: no index is rebuilt.
WriteUnindexed == WriteAndIndex(<<>>)

Write == WriteAndIndex(tid)

CountDown(n) ==
  /\ pc = "count"
  /\ recordNum' = recordNum - n
  /\ Goto("rebuild")
  /\ UNCHANGED <<trd, tid, ix, torn, locals>>

\* Faulty: counts primary keys, not rows.
DeleteCountsKeys == CountDown(Cardinality(doomed))

DeleteCount == CountDown(deleted)

-----------------------------------------------------------------------------
(***************************************************************************)
(* rebuildIndex for each definition in queue: delete the file, initialise  *)
(* it, enter the records one by one.  A duplicate key in a unique index    *)
(* ends the rebuild where it stands.                                       *)
(***************************************************************************)
RebuildNext ==
  /\ pc = "rebuild" /\ queue # <<>>
  /\ ix' = WithoutFile(Head(queue).name)
  /\ torn' = torn \ {Head(queue).name}
  /\ Goto("create")
  /\ UNCHANGED <<trd, recordNum, tid, locals>>

RebuildFrom(n) ==
  /\ pc = "create"
  /\ ix' = WithFile(Head(queue).name)
  /\ cur' = n
  /\ Goto("fill")
  /\ UNCHANGED <<trd, recordNum, tid, torn, src, buf, doomed, deleted, queue, target>>

\* Faulty: the first record is left out.
RebuildFromSecond == RebuildFrom(1)

RebuildCreate == RebuildFrom(0)

RebuildEntry ==
  /\ pc = "fill" /\ cur < Len(trd)
  /\ LET d == Head(queue)
         k == Key(d, trd[cur + 1])
     IN  /\ Enters(d, k)
         /\ ix' = WithEntry(d.name, k, cur + 1)
  /\ cur' = cur + 1
  /\ Goto("fill")
  /\ UNCHANGED <<trd, recordNum, tid, torn, src, buf, doomed, deleted, queue, target>>

RebuildContinue(list) ==
  /\ pc = "fill" /\ cur = Len(trd)
  /\ queue' = list
  /\ Goto("rebuild")
  /\ UNCHANGED <<disk, src, buf, doomed, deleted, cur, target>>

\* Faulty: the index just built is built again.
RebuildRepeats == RebuildContinue(queue)

RebuildFilled == RebuildContinue(Tail(queue))

\* CREATE INDEX takes the definition back; the other executors report failure.
RebuildRefused ==
  /\ pc = "fill" /\ cur < Len(trd)
  /\ Refuses(Head(queue), Key(Head(queue), trd[cur + 1]))
  /\ IF kind = "createIndex"
       THEN Goto("undo") /\ UNCHANGED <<disk, locals>>
       ELSE Close("error") /\ stale' = TRUE /\ UNCHANGED disk

\* INSERT rebuilds only after a failure, and reports that failure.
RebuildDone ==
  /\ pc = "rebuild" /\ queue = <<>>
  /\ Close(IF kind = "insert" THEN "error" ELSE "ok")
  /\ stale' = (stale /\ kind = "createIndex")
  /\ UNCHANGED disk

-----------------------------------------------------------------------------
(***************************************************************************)
(* CREATE INDEX makes the file, then registers it, then builds it.  DROP   *)
(* INDEX empties .tid, writes the remaining definitions back one by one    *)
(* and deletes the file.                                                   *)
(***************************************************************************)
IndexRefused(d) == d.name \in Registered \cup DOMAIN ix

CreateIndex(d) ==
  /\ ~ IndexRefused(d)
  /\ Begin("createIndex", "register")
  /\ ix' = WithFile(d.name)
  /\ queue' = <<d>>
  /\ target' = d.name
  /\ UNCHANGED <<trd, recordNum, tid, torn, src, buf, doomed, deleted, cur>>

CreateIndexAnswered(d) == IndexRefused(d) /\ Answer("createIndex", "error")

Register ==
  /\ pc = "register"
  /\ tid' = Append(tid, Head(queue))
  /\ Goto("rebuild")
  /\ UNCHANGED <<trd, recordNum, ix, torn, locals>>

\* dropIndex clears .tid first; queue is the kept list it then writes back.
Unlist(n) ==
  /\ tid' = <<>>
  /\ \E p \in DOMAIN tid : tid[p].name = n /\ queue' = Drop(tid, p)
  /\ target' = n
  /\ UNCHANGED <<trd, recordNum, ix, torn, src, buf, doomed, deleted, cur>>

DropIndex(n) == Begin("dropIndex", "relist") /\ Unlist(n)

DropIndexAnswered(n) == n \notin Registered /\ Answer("dropIndex", "error")

CreateIndexUndo == pc = "undo" /\ Goto("relist") /\ Unlist(target)

Relist ==
  /\ pc = "relist" /\ queue # <<>>
  /\ tid' = Append(tid, Head(queue))
  /\ queue' = Tail(queue)
  /\ Goto("relist")
  /\ UNCHANGED <<trd, recordNum, ix, torn, src, buf, doomed, deleted, cur, target>>

Relisted ==
  /\ pc = "relist" /\ queue = <<>>
  /\ Goto("unlink")
  /\ UNCHANGED <<disk, locals>>

UnlinkLeaving(files) ==
  /\ pc = "unlink"
  /\ ix' = files
  /\ torn' = torn \ {target}
  /\ End(IF kind = "dropIndex" THEN "ok" ELSE "error")
  /\ UNCHANGED <<trd, recordNum, tid>>

\* Faulty: the index is unregistered and its file stays.
UnlinkForgets == UnlinkLeaving(ix)

Unlink == UnlinkLeaving(WithoutFile(target))

-----------------------------------------------------------------------------
(***************************************************************************)
(* The process dies and is started again.  The disk stays as the last      *)
(* storage call left it; a crash while the record file is written back     *)
(* leaves a first part of it, and one among the page writes of an index    *)
(* file leaves that file torn.                                             *)
(***************************************************************************)
\* The index file the page writes before this point went to.
InWriting ==
  CASE pc = "register" -> {target}
    [] pc = "fill" -> {Head(queue).name}
    [] pc = "entry" /\ Len(queue) < Len(tid) -> {tid[Len(tid) - Len(queue)].name}
    [] OTHER -> {}

Crash ==
  /\ pc # "idle" /\ crashes < MaxCrashes
  /\ crashes' = crashes + 1
  /\ IF pc = "write"
       THEN \E n \in 0..Len(buf) : trd' = SubSeq(buf, 1, n)
       ELSE UNCHANGED trd
  /\ \E cut \in SUBSET InWriting : torn' = torn \cup cut
  /\ pc' = "idle" /\ reply' = "crashed"
  /\ Forget
  /\ UNCHANGED <<recordNum, tid, ix, kind, before, stale>>

Start ==
  \/ \E rows \in Sources : Insert(rows)
  \/ \E w \in Predicates :
       \/ \E a \in Assignments : Update(w, a) \/ UpdateAnswered(w, a)
       \/ Delete(w)
       \/ DeleteAnswered(w)
  \/ \E d \in IndexDefs : CreateIndex(d) \/ CreateIndexAnswered(d)
  \/ \E n \in IndexNames : DropIndex(n) \/ DropIndexAnswered(n)

Step ==
  \/ InsertDone \/ InsertRefused \/ InsertAppend \/ InsertCount
  \/ InsertEntry \/ InsertEntryRefused \/ InsertNext
  \/ ScanKeeps \/ ScanDrops \/ Scanned \/ Truncate \/ Write \/ DeleteCount
  \/ RebuildNext \/ RebuildCreate \/ RebuildEntry \/ RebuildFilled
  \/ RebuildRefused \/ RebuildDone
  \/ Register \/ CreateIndexUndo \/ Relist \/ Relisted \/ Unlink

Next == Start \/ Step \/ Crash

Spec == Init /\ [][Next]_vars

\* The server thread runs a statement it has begun to its end.
FairSpec == Spec /\ WF_vars(Step)

-----------------------------------------------------------------------------
(***************************************************************************)
(* Properties of a server that has not crashed since the table was made.   *)
(* An UPDATE whose rows pass its own check and then differ too little for  *)
(* the rebuild ends with an error, the new rows in place and the indexes   *)
(* half built; that state, which a later rebuild may end, is stale.        *)
(***************************************************************************)
Quiet == pc = "idle" /\ crashes = 0

Agrees(d) == d.name \in DOMAIN ix \ torn /\ ix[d.name] = EntriesOf(d, trd)

\* Between statements every index of the table holds exactly one entry per
\* row of the record file, under that row's key: an index scan finds the rows
\* a table scan would (insertRowIndexes, rebuildTableIndexes), unless the last
\* rebuild of all indexes was refused.
IndexAgrees == Quiet /\ ~ stale => \A k \in DOMAIN tid : Agrees(tid[k])

\* Between statements no two rows have one key in a unique index, whichever
\* executor stored them and whatever it cut off (validateUniqueIndexes, CREATE
\* INDEX), unless a rebuild was refused: so two such rows are never stored by
\* a statement that reports success.
UniqueEnforced ==
  Quiet /\ ~ stale => \A k \in DOMAIN tid : tid[k].unique => Distinct(tid[k], trd)

\* Between statements record_num is the number of rows in the record file:
\* INSERT and DELETE count every row they add or leave out, on their failure
\* paths as well.
RecordNumAgrees == Quiet => recordNum = Len(trd)

\* Between statements the index files on disk are those .tid registers: a
\* CREATE INDEX whose build fails leaves neither a definition nor a file.
NoOrphanFile == Quiet => DOMAIN ix = Registered

\* A statement other than INSERT that reports an error has changed no row, but
\* for an UPDATE or DELETE whose new rows a unique index cannot take: their
\* rebuild comes after the rows are written, and what it refuses is there to
\* be seen, two rows with one key.
ErrorKeepsRows ==
  Quiet /\ reply = "error" /\ kind # "insert" /\ trd # before.rows =>
    /\ kind \in {"update", "delete"} /\ stale
    /\ \E k \in DOMAIN tid : tid[k].unique /\ ~ Distinct(tid[k], trd)

-----------------------------------------------------------------------------
(***************************************************************************)
(* Properties that hold whatever crashes came before.                      *)
(***************************************************************************)
\* The file of a registered unique index never holds one key twice, also
\* after crashes have left records without entries; only a file whose own page
\* writes a crash cut can, until a rebuild replaces it.
UniqueFile ==
  \A k \in DOMAIN tid :
    tid[k].unique /\ tid[k].name \in DOMAIN ix \ torn =>
      \A e, f \in ix[tid[k].name] : e[1] = f[1] => e = f

\* An executor whose rebuild runs to its end leaves every index of the table
\* whole and in agreement with the record file, whatever a crash had left there.
RebuildHeals ==
  pc = "rebuild" /\ queue = <<>> /\ kind # "createIndex" =>
    \A k \in DOMAIN tid : Agrees(tid[k])

\* A crash loses no row that was there when an INSERT began, nor any row
\* while an index is created or dropped; only the rewrite of the record file
\* by UPDATE and DELETE can.
CrashKeepsRows ==
  reply = "crashed" /\ kind \notin {"update", "delete"} =>
    Len(before.rows) <= Len(trd) /\ before.rows = SubSeq(trd, 1, Len(before.rows))

\* Every statement the server begins is answered, or cut short by a crash.
StatementEnds == pc # "idle" ~> pc = "idle"

-----------------------------------------------------------------------------
(***************************************************************************)
(* The table as its clients see it: a statement that is still running has  *)
(* not happened yet.                                                       *)
(***************************************************************************)
DefsIn(list) == {list[k] : k \in DOMAIN list}

Client == INSTANCE Table WITH
  rows   <- IF pc = "idle" THEN trd ELSE before.rows,
  defs   <- DefsIn(IF pc = "idle" THEN tid ELSE before.defs),
  sound  <- ~ stale,
  answer <- reply

\* Without crashes the executors implement Table: each statement takes effect
\* at one instant, refused ones not at all, and unique indexes hold as long as
\* no UPDATE has broken one and said so.
ImplementsTable == Client!TSpec

-----------------------------------------------------------------------------
(***************************************************************************)
(* What the source says and the code does not do.                          *)
(***************************************************************************)
\* InsertExecutor.cpp:59 reports "INSERT SELECT violates an integrity
\* constraint, rolled back": an INSERT that reports an error leaves the rows
\* as they were.
InsertSelectRollsBack ==
  Quiet /\ reply = "error" /\ kind = "insert" => trd = before.rows

=============================================================================
