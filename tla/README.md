# RuanKoDBMS in TLA+

RuanKoDBMS is a small relational database in C++/Qt: a server that keeps each
database as a directory of flat files and answers SQL text over TCP, and a
desktop client. This directory holds TLA+ modules translated from its source,
the TLC configurations that check them on small instances, and theorems that
TLAPS proves for every value of the constants. Paths below are relative to the
repository.

Run everything from this directory:

    tlc -config TableEngine_up.cfg MCTableEngine.tla
    tlc -config TableEngine_crash.cfg MCTableEngine.tla
    tlc -config IndexTree_dup.cfg IndexTree.tla
    tlc -config IndexTree_crash.cfg IndexTree.tla
    tlc -config TableFiles.cfg MCTableFiles.tla
    tlc -config Catalog.cfg Catalog.tla
    tlc -config Server.cfg MCServer.tla
    tlc -config Client.cfg MCClient.tla
    tlc -config Select.cfg MCSelect.tla

and `tlapm M.tla` for each of `TableEngine_proofs`, `IndexTree_proofs`,
`IndexSearch_proofs`, `TableFiles_proofs`, `Catalog_proofs`, `Server_proofs`,
`Client_proofs` and `Operators_proofs` (minutes each for the first three). Three
more configurations (`TableEngine_rollback.cfg`, `TableFiles_order.cfg`,
`Select_join.cfg`) end in a counterexample each.

## 1. The system

### Parts, their state and their operations

| Part | State | Operations | Correct when |
|---|---|---|---|
| Storage engine (`server/src/storage`) | the files | createFile, deleteFile, clearFile, readRaw, writeRaw, appendRaw, directories | each call is complete and flushed, or reports failure |
| Row executors (`InsertExecutor`, `UpdateExecutor`, `DeleteExecutor`) | the record file `.trd`, `record_num` in `.tb` | INSERT, INSERT ... SELECT, UPDATE, DELETE | a statement takes effect whole or not at all; counts and constraints hold |
| Index manager (`server/src/index`) and index maintenance (`IndexMaintenance`, `IndexExecutor`) | `.tid` (definitions), one `.ix` file per index | CREATE/DROP INDEX, insertion, search, range search, rebuild | an index scan finds what a table scan finds |
| Integrity manager | none; reads `.tic` and the rows | checkInsert, checkUpdate | no row that breaks PRIMARY KEY, UNIQUE, NOT NULL, CHECK is stored |
| Catalog manager and database executors | `ruanko.db` (registry), the directories, the current database | CREATE/DROP/USE DATABASE, table and field metadata | registry and directories agree |
| Table executors (`CreateExecutor`, `DropTableExecutor`, `AlterTableExecutor`) | `.tb`, `.tdf`, `.tic`, `.trd`, `.tid` of each table | CREATE/DROP TABLE, ADD/DROP/MODIFY COLUMN | the records are laid out as the field list says |
| Query pipeline (`QueryBuilder`, `SelectExecutor`, `operators/`) | none | scans, filter, join, aggregate, sort, project | the answer is the relational one whatever plan is chosen |
| Security manager, `UserExecutor` | `users.db` and its copy in memory | authenticate, CREATE/DROP USER, GRANT, REVOKE | the file and the copy agree whenever the server listens |
| SQL service and TCP server (`server/src/network`) | sessions, the statement mutex | login, role check, execute one statement | statements are serial; a role is enforced when the statement runs |
| Client (`client/network/DbClient`, `client/ui/MainWindow`) | receive buffer, request mode, queues of statements | connect, send, interpret responses, save a grid, save a structure | every response is shown for the request it answers |
| Backup and restore | directory copies | BACKUP, RESTORE | the target holds what the source holds and nothing else |
| Lexer and parser | none | text to syntax trees | — |

### How they interact

`DbClient` sends a framed request; `TcpServer` has one session object per
connection and calls `SqlService::execute`. That takes `executionMutex_`
(`server/src/network/SqlService.cpp:142`), so statements of different
connections never overlap. The service parses, checks the role and makes an
executor through `ExecutorFactory`. Executors read metadata from the catalog,
ask the integrity manager, and change the record file and the catalog through
the storage engine, then call the index maintenance functions, which use the
index manager. Nothing is logged, and nothing is repaired when the server
starts: whatever order the storage calls of an executor come in is the order a
crash can cut.

### What is hard

* **Crashes.** One statement is between two and a hundred storage writes.
  UPDATE and DELETE truncate the record file before they write it; DROP INDEX
  empties `.tid` before it writes it back; a page split writes pages that point
  to pages not yet written; ALTER rewrites records before the field list.
* **Partial failure.** The later steps of a statement can fail when the earlier
  ones are on disk: index insertion after the append, a rebuild after UPDATE,
  the second row of INSERT ... SELECT, the build of a new unique index.
* **Many notions of equality.** Constraints compare literals, INSERT and UPDATE
  encode them differently, scans read the declared width of a column, UPDATE
  its whole slot, DELETE up to the first zero byte, and an index compares
  packed bytes.
* **Redundant state.** Rows, `record_num`, `.tid` and `.ix` files must agree
  and are written separately.
* **Shared session state.** The current database is one variable for all
  connections; a session logs in once, and its user may be dropped or demoted
  from another connection while it goes on.
* **Responses without identity.** The client matches a response to the request
  by a mode variable and two flags; a lost connection resets none of them.
* **Two pipelines.** Every SELECT is run twice, by two pieces of code that put
  the same operators together differently; the client shows both results.

`PROJECT.json` lists these hazards at the lines where they bite, with the
properties that cover them, or the reason none does yet; smaller ones that no
property covers are in section 5.

## 2. Modules

| Module | What it is |
|---|---|
| `TableRows` | Rows, constraints, SET lists, index keys: the functions the executors compute. No variables. |
| `Table` | Abstract specification: one table whose statements take effect at one instant. Indexes are visible only through the unique constraints. |
| `TableEngine` | The files of one table and every storage write of INSERT, INSERT ... SELECT, UPDATE, DELETE, CREATE INDEX, DROP INDEX; crashes. Shown to implement `Table`. |
| `MCTableEngine` | Two string columns, one of a width that is no multiple of four, the values `''`, `'abc'` and `'abcd'`, two index names for TLC. |
| `TableEngine_proofs` | Types and the row count of `TableEngine`, what the index files hold whatever crashes came before; index files, unique indexes and failed statements on a server that has not crashed, the refinement of `Table`, which rows a crash can cost, and that every statement runs down, proved. |
| `IndexTree` | The pages of one index file: every page write of insertion, split, root growth, deletion and rebuild; both searches; crashes. |
| `IndexTree_proofs` | That every page read is well formed and every search and every operation comes to an end, also after a crash, proved for any page size. |
| `IndexSearch_proofs` | That both searches find exactly what was entered, that the pages are linked into a balanced tree and that a unique index holds no key twice, proved for any page size. |
| `TableFiles` | The five files of one table and what decides the layout of its records: CREATE TABLE, DROP TABLE, the three ALTERs; crashes. |
| `MCTableFiles` | Three column names and three field lists, one with a name twice, for TLC. |
| `TableFiles_proofs` | That the records are laid out as the field list says, and what crashes leave of a table, proved. |
| `Catalog` | The registry, the directories, the current database and the backups: every change on disk of CREATE, DROP, USE, BACKUP, RESTORE DATABASE; kills and restarts. |
| `Accounts` | Users, passwords, roles and the user file, written record by record and read line by line; kills within a line. |
| `Server` | The process: `Catalog` and `Accounts` behind connections, logins, batches of packets, the role check and the dispatch of statements. |
| `MCServer` | Two users, one password and two connections for TLC. |
| `Catalog_proofs`, `Server_proofs` | The registry, the directories and their copies, the accounts and who may change them, proved; `Server`'s steps shown to be steps of its two parts, and its packet loop to come free. |
| `Client` | The window and its connection: request modes, the save queues, the grid; refused statements and lost connections. |
| `MCClient` | Two databases, interchangeable, and rows that INSERT and ALTER change, for TLC. |
| `Client_proofs` | What a reply is taken for, where tables appear and go, and that the snapshot a save works from is what the server holds, proved. |
| `Join` | The iterator of a join, one round of its loops per step. |
| `Cells` | Cells, and what the filter makes of a condition that asks nothing of other rows. |
| `Query` | Filter, aggregation, join condition and subqueries as functions of rows. |
| `IndexPlan` | The choice of an index for the conditions of a WHERE, and what an index scan reads. |
| `Operators_proofs` | That a join returns every pair and no other, and that the scan chosen for a WHERE reads every row it lets through, proved. |
| `Select` | A SELECT through its operators, in both ways the server puts them together; EXTENDS `IndexPlan`, `Query` and `Join`. |
| `Answer` | What a query means, defined without operators, and the properties. |
| `MCSelect` | The queries and tables for TLC. |

### TableEngine

Variables and code:

| Variable | Code |
|---|---|
| `trd` | records of `<table>.trd`, in file order; the offset of a record is its position |
| `recordNum` | `TableBlock.record_num` |
| `tid` | the `IndexBlock`s of `<table>.tid` |
| `ix` | a function whose domain is the existing `.ix` files; the entries in each |
| `pc`, `kind`, `src`, `buf`, `doomed`, `deleted`, `queue`, `cur`, `target` | where the running executor is, and its local variables |
| `torn` | the index files a crash cut between two of their page writes |
| `reply`, `before`, `crashes`, `stale` | history, read by properties only |

Each action is one storage write with the checks before it; the control between
two writes (loops, early returns, failure paths) is in the guards and in `pc`:

* INSERT: `Insert`, then per row `InsertRefused` or `InsertAppend`,
  `InsertCount`, one `InsertEntry` per definition in `.tid`, `InsertNext`; an
  index that refuses leads to `InsertEntryRefused`, which rebuilds everything
  and reports an error with the row kept, as `insertSingleRow` does.
* UPDATE: `Update` computes the new file in memory after the integrity check
  and the check that every unique index could be rebuilt (`CanRebuild`, which
  compares whole slots); `Truncate`, `Write`, rebuild.
* DELETE: collects the primary keys of the rows a scan selects, takes the key of
  every record again, this time without a bound (`ScanKeeps`, `ScanDrops`),
  `Truncate`, `Write`, `DeleteCount`, rebuild.
* Rebuild: per definition `RebuildNext` deletes the file, `RebuildCreate`
  makes it, `RebuildEntry` enters one record, `RebuildRefused` stops.
* CREATE INDEX: file, registration, build; `CreateIndexUndo` goes through the
  steps of DROP INDEX when the build fails.
* DROP INDEX: `.tid` emptied, written back block by block (`Relist`), file
  deleted (`Unlink`).
* `Crash`: the process ends between two calls, or within the write of the
  record file, of which any first part may then be on disk.

What is abstracted:

* `Values` are what the slot of a column can hold, its size rounded up to four
  bytes. An input is a literal; `Stored` is what the encoder of INSERT makes of
  it, which cuts a VARCHAR at the declared width (`InsertExecutor.cpp:236`),
  `Updated` what UPDATE makes of it, which cuts at the size of the slot
  (`UpdateExecutor.cpp:94`). `Read` is what scans, constraints and
  `readIndexRecords` see of a slot (the declared width, `IndexMaintenance.cpp:156`),
  `Shown` what UPDATE sees (the slot). `RunsOn` are the keys DELETE may fail to
  recognise: strings that fill their slot, which `DeleteExecutor.cpp:148` reads on
  into the next column (whether such a key still matches depends on the bytes
  there, so either may happen), and the types other than INTEGER and VARCHAR,
  of which it reads nothing. `Pack` is `makeEntry`: the identity in the runs
  (keys below 256 bytes). In the proofs all six are arbitrary.
* A WHERE clause is the set of rows it selects.
* `Legal[c]` stands for the NOT NULL and CHECK constraints, which
  `checkInsert` evaluates one column at a time.
* Rows enter after `enrichRow` has filled in DEFAULT and IDENTITY values.
* FOREIGN KEY constraints cannot be declared through the SQL grammar and are
  left out.
* An insertion into an index file is one step here; `IndexTree` opens it up. It
  is several page writes, so a crash after an entry, or before it, may also
  leave the file `torn`: until a rebuild makes it anew or it is deleted, a search
  there may miss any key and an insertion may fail (`Enters`, `Refuses`).
* `createFile`, header and empty root page of a new index are one step here.
* Reading never fails, and storage calls fail only by the process ending.

Where the readers disagree, three things happen without any crash. In a unique
index on a VARCHAR(3), an UPDATE that stores 'abcd' and 'abce' passes its check,
rewrites the file, and then has its rebuild refused, because both read 'abc':
the statement reports an error, the rows are changed, and the indexes are as
far as the rebuild came (`stale`). They stay so until another UPDATE, DELETE or
failed INSERT rebuilds them all. `IndexAgrees` and `UniqueEnforced` are stated
for the time before, `ErrorKeepsRows` says that nothing else changes rows under
an error, and in `Table` such a table is not `sound`. A row whose key is in
`RunsOn` may outlive a DELETE that selected it and reported success. And
`validateUniqueIndexes` looks at what will be stored, `checkInsert` at what was
written in the statement.

### IndexTree

| Variable | Code |
|---|---|
| `head` | the file header: a valid magic number, `rootPage`, `nextPage` |
| `page` | the pages written so far |
| `todo` | page and header writes the running call has still to make, in the order of the code |
| `pc`, `left`, `right`, `sep` | the arguments of the pending `insertIntoParent` |
| `entered`, `count`, `deletes`, `torn`, `crashes` | history, read by properties and bounds only |

`insertIntoLeaf`, each round of `insertIntoParent`, and `splitInternalNode`
read pages, change copies and write them; an action puts the writes of one
round in `todo`, and `Write` makes one at a time. Reading the pages of a round
from disk at its start is what the code does: the copies in memory that outlive
a round (`left`, `right`, the header) equal the pages just written.
`Crash` forgets `todo` and the pending split. `deleteEntry` is modelled though
no executor calls it; the executors rebuild instead.

Keys are integers ordered as `memcmp` orders the packed bytes. A page that was
skipped because a crash lost its allocation reads as zeros in the code; no page
ever refers to it, and it is absent from `page`.

### TableFiles

| Variable | Code |
|---|---|
| `tb` | the `.tb` file: `field_num` and `record_num`, or `None`; this file alone makes a table exist |
| `tdf` | the `FieldBlock`s of `.tdf`, in file order |
| `trd` | the bytes of `.trd`, four to a word |
| `tic` | the columns the `IntegrityBlock`s of `.tic` ask a value for |
| `files` | which of the four other files exist |
| `pc`, `kind`, `queue`, `rest`, `field`, `buf`, `ok` | where the running executor is, and its local variables |
| `reply`, `want`, `mixed`, `doubled`, `alters`, `crashes` | history, read by properties and bounds only |

`TableEngine` takes rows as values; here a record is words, and a row is what a
reader cuts out of them. `Sorted` is the order every reader uses, file order the
one `rewriteRecords` uses. A word stored by INSERT names its column and row, so
a value read at a wrong offset is seen. The three loops of `rewriteRecords` are
lists of moves from old to new offsets (`AddMoves`, `DropMoves`, `ModifyMoves`).
One action is one storage call; `Crash` may cut the write of the record file at
any word. Types are left out: a MODIFY changes the width. Constraints matter
here only because those of a dropped column stay in `.tic`, so PRIMARY KEY, NOT
NULL and IDENTITY are one kind and the others none. Inserting is one append and
one count: what INSERT does otherwise is in `TableEngine`, and the indexes,
which ALTER and DROP TABLE do not touch, are not here.

Nothing in the server refuses a CREATE TABLE that names a column twice: not the
parser (`SQLParserImpl.cpp:177`), not `CreateExecutor`, not `createTable`; only
ADD COLUMN and the client's dialog look. A search for a name ends at the first
field of that name (`Find`), while `dropField` takes every field of the name out
of the list (`Except`) and lowers `field_num` by one, and the rewrite of the
records cuts out one column. So on `(a, a, b)` DROP COLUMN a leaves two columns
of bytes under one field, and all rows misread. `doubled` is history: the table
was created so, and none was since. `RowsKept`, `CountsAgree` and
`FieldsDistinct` are false of such tables and stated for the others.

### Catalog, Accounts, Server

| Variable | Code |
|---|---|
| `registry` | the blocks of `ruanko.db`, in file order |
| `dirs`, `tables` | directories under `data/` and backup directories; the tables whose files each holds |
| `currentDB` | `currentDatabase` of `CatalogManagerImpl` |
| `pc`, `db`, `from`, `to`, `rest` | where the running statement is, and its local variables |
| `users`, `passwords` | `users_` |
| `file` | the user file: for each user the lines written for it |
| `accPc`, `unwritten` | where `save` is |
| `conn`, `user`, `packets` | `clients_`, the user each is logged in as, data received |
| `serving`, `batch`, `running` | the loop of `processBuffer` |
| `acked`, `torn`, `granted`, `odd` | history, read by properties only |

`remove_all` and the recursive copy go entry by entry, so a kill leaves a
directory half removed or half copied; `save` empties the file and writes a
record per user, so a kill leaves a prefix of the records, the last perhaps cut
(a cut role still loads, as USER). `Killed` and `AccKilled` happen together in
`Server`. `torn` is the set of directories a kill left in the middle: the
registry may name them and they need not be there.

`save` writes `name|password|role` and a line break and changes nothing in a
password (`SecurityManagerImpl.cpp:88`), which may hold both signs: the lexer takes
any text between two quotes. So a password is a sequence of lines, each a
sequence of the pieces between separators, a record (`Record`) is the lines
that come of it, and `load` splits each line at its first two separators and
lets the last line that names a user count (`LinesOf`, `LoadedRole`,
`LoadedPassword`). An administrator with the password `p|q` is a user with the
password `p` after a restart, and the password `x|ADMIN` with a line break after
it makes an administrator of whoever gets it. `UsersDurable` and `NoPromotion`
are false then; they are stated for plain passwords, one line of one piece
(`odd` says that another was given). A login packet ends at a line break, so a
user whose password has one cannot log in before a restart (`Login`). A wrong
password and a login refused are `BadPacket`.

One thread runs the event loop, so a packet is handled to its end before
another socket is looked at; packets arrive at any time (`Receive`). What a
packet asks for is chosen when it is handled. A statement without effect on
catalog and accounts is `Query`; what rows it touches is in the other modules.

`Catalog.CreateTable` and `DropTable` stand for all the files of a table at
once; `TableFiles` opens them up. `CreateTable` makes the directory of the
current database again where a kill has removed it.

### Client

`contents`, `dbs` and `currentDB` are the server as one client sees it; the
other variables have the names of `MainWindow`'s members. A handler of a reply
is one action: it reads the mode and the flags, changes the window and sends the
next statement. Any statement may be refused, and the connection may be lost
between any two steps; `onServerDisconnected` resets nothing, so the mode, the
flags and the queues outlive it, and only `LoginSucceeded` sets a new mode.

Assumed of the user: waits for the reply before sending anything else (but
edits the grid meanwhile). The window does not enforce this: a second click
while a reply is outstanding overwrites the mode, and `AnswersMatch` fails.
Statements of the SQL editor that create or drop tables and databases are left
out. `DbClient.cpp:121` takes any response whose text contains 'Login OK.' for the
answer to a login; here only that answer is one.

The rows of `contents` are those SELECT shows. INSERT keeps of a row what its
columns have room for, and of a number what `stoi` reads (`Kept`), DELETE finds
only keys that do not fill their column (`Found`), and ALTER changes rows
(`Altered`); all three are arbitrary. Of ALTER statements only the number is
kept; any of them may be refused, and those before it are done. The save
remembers the text of the grid as what the server holds (`OriginalsAfterSave`).
A row that the server keeps as it is and finds by its key is `Whole`.

`exact` is history: the table was opened, and since then only saves that
completed touched it. It becomes false where a save was refused or cut off,
where it deletes or inserts a row that is not `Whole`, with the first ALTER sent
of a change of structure (whether the others succeed or not) until the table is
opened again, where the user typed into the grid during a save, after a
statement of the editor, and when a table has just been created; in each of
these the snapshot a save works from is not what the server holds, and the next
save can lose rows or copy those of another table. `hazards` names the lines.

### Join, Cells, Query, IndexPlan, Select, Answer

| Variable | Code |
|---|---|
| `leftIdx`, `rightIdx`, `leftMatched`, `rightMatched`, `emittingNullRow` | the members of `JoinOperator` |
| `matches`, `joined` | the pairs `evaluateCondition` accepts; the pairs `next` has returned |
| `route` | which of the two pipelines: `SqlService::runSelect` or `SelectExecutor::execute` |
| `phase`, `left`, `rows`, `schema` | the operator to run next, joins begun, and what the operators below it give |

`Select` follows the order and the schemas each pipeline gives its operators,
also where they look wrong: the executor builds the filter again without the
outer row, aggregates with the schema of an earlier aggregation when it also
sorts, and the service tells the sort the schema of the table. `PlanScan` sees
the WHERE as the sequence of conditions it puts together by AND (`Conjuncts`),
which is all `tryBuildIndexScan` looks at. `Answer` is independent of all this:
it resolves columns by alias, counts combinations of rows, and never looks at
an operator.

`Supported` is the class of queries for which both pipelines give the answer.
It is as wide as the code allows: without any one of `NamesTellTablesApart`,
`WhereUnqualified`, `JoinsSupported`, `SubqueriesSupported`, `GroupsUnsorted`
or `TargetsSupported`, TLC finds a query with a wrong result. So this is also
the list of what the server does not answer as written:

* tables joined or listed together that have a column of the same name;
* a WHERE that names the columns of its one table by the table's alias;
* LEFT and FULL joins (rows without a partner are missing), and orders in ON
  with an empty cell;
* a subquery whose first target is not the first column of its table, or that
  aggregates; a correlated subquery in a query that joins, or, in the
  executor's pipeline, groups or sorts;
* GROUP BY or aggregates together with ORDER BY;
* an aggregate under an alias, a plain target that is not grouped by, two
  aggregates of the same function, HAVING on an aggregate that is no target.

(`SortedByTargets` only makes the order visible in the result.)

Cells are numbers or empty, and such that comparing as numbers, as text and as
packed index bytes agree. In the code they differ for fractions, for numerals
in a VARCHAR and for aggregates compared by IN, and an index then finds other
rows than the filter. Left out: arithmetic, LIKE, lists of values in IN,
COUNT(DISTINCT), AVG, NOT BETWEEN (which the parser writes as an operator
nothing evaluates), joins inside a subquery. DISTINCT is parsed and ignored by
the code, so it has no place here. HAVING with two aggregates takes a pointer
into a vector that is then reallocated; the queries here have one.

## 3. Runs

| Run | Instance | Shows |
|---|---|---|
| `table_up` | 2 columns, 3 values, one of which INSERT and the readers cut to another in one column and which DELETE reads on behind in the other, 3 index definitions, up to 3 rows, no crash | `TypeOK`; `IndexAgrees`, `UniqueEnforced`, `RecordNumAgrees`, `NoOrphanFile`, `ErrorKeepsRows` between statements; `ImplementsTable`, refinement of `Table` |
| `table_crash` | fewer statements, up to 3 rows, 1 crash anywhere | `UniqueFile`, `RebuildHeals`, `CrashKeepsRows`; `StatementEnds` under fairness |
| `rollback` | as `table_up` | a counterexample to `InsertSelectRollsBack` |
| `index_pages` | an index with repeated keys (3 keys) or a unique one (7 keys in every order), pages of 2, 7 insertions, 1 deletion, any number of rebuilds | `SearchFinds`, `RangeFinds`, `WellLinked`, `UniqueKept`; `InsertEnds` under fairness |
| `index_crash` | 2 keys, 7 insertions, 1 crash between any two writes | `SearchesEnd`; `SearchFinds` after a rebuild |
| `table_files` | three field lists over 3 column names of 1 or 2 words, one with a name twice, 2 rows, 2 ALTERs, 2 crashes anywhere | `RowsKept`, `CountsAgree` without a crash; `FieldsDistinct`, `CreatedWhole`, `DroppedWhole` whatever crashes came |
| `column_order` | the same with 4 ALTERs and no crash | a counterexample to `AddFillsZero` |
| `catalog` | 2 databases besides the system's, 2 tables, 1 backup directory, any number of kills | `NamesDistinct`, `AcknowledgedKept`, `DirectoryKept`, `CopiesExact` |
| `server` | 2 connections, 2 users, 1 plain password, 1 database besides the system's, 1 table, up to 2 packets waiting on one connection and 1 on the other, any number of kills | `UsersDurable`, `NoPromotion`, `OnlyAdminsChange`; `Answered` under fairness |
| `client` | 2 databases of one table, 1 key, 2 values of which INSERT cuts one to the other and ALTER exchanges both, 1 row in the grid, 1 or 2 ALTERs, any number of refusals and lost connections | `AnswersMatch`, `OriginalsOnServer`, `TablesAsAsked` |
| `query` | every WHERE of up to two comparisons on a table of 9 rows under 3 lists of indexes; 26 other queries on every choice of up to two rows for two tables; both pipelines | `JoinComplete`, `AnswersAsAsked`, `IndexLosesNoRow` |
| `join_names` | the join of `test_queries.sql` 4.2 on such tables | a counterexample to `JoinsAsWritten` |

Why the bounds are enough to be interesting. Three rows let an UPDATE or DELETE
keep a row before and after the one it changes, and an INSERT ... SELECT of two
rows meet a row already there; the literal that INSERT stores as something else
makes a row pass the integrity check and fail a unique index, UPDATE stores it
whole and meets a rebuild that does not see the difference, and as a key it is
one that DELETE may pass over; two index names with a unique one-column, a
unique one-column and a plain two-column definition let one index refuse after
another has accepted, and let a name be dropped and made again with another
definition. With pages of two entries the fourth leaf splits the root and the
sixth splits an inner page below the root, so seven insertions reach every
branch of `insertIntoParent`; repeated keys spread over several leaves, and a
crash in an inner split followed by a split below it reaches the parent that
does not know its child. One crash is enough for every window of one statement,
and the statements that follow show what survives.

In `TableFiles` two rows show a wrong stride, a column before and one behind
the altered one show a wrong offset, and two ALTERs allow each kind after
each other. On the field list with a name twice one DROP COLUMN misreads the
rows. A DROP TABLE meets files in an order of its own only after two
crashes: one that leaves files of a dropped table, one in the CREATE after it.

In `Catalog` two databases let a DROP rewrite a registry that holds another one,
and two tables let a directory be half full; kills are not counted, so any
number of half-done statements may come one after the other. In `Server` two
connections and two users let one connection change the account another is
logged in with; the catalog needs one database there, because its own run has
more. Its one password is plain: with a password of another shape the states are
more than three times as many, and the theorems of section 4 are about any
passwords. In `Client` two databases are what the shared current database can
confuse, one key with two values lets a save replace a row by another of the
same key, and of the two values one survives INSERT and none ALTER; two ALTERs
let the second be refused after the first. The two databases may be exchanged in
every state (`MCSymmetry`), as nothing in the model tells them apart. For
`Select`, nine rows are all rows over three cells, so every comparison meets a
smaller, an equal, a larger and an empty cell; joins of up to two rows a side
leave each loop in the middle and at its end, and with no rows on either side. A
chain of two joins has a join as its left child.

`MaxRows`, `MaxCrashes`, `MaxEntries`, `MaxDeletes`, `MaxAlters` and
`MaxPackets` are the only bounds; all appear in guards. Deadlock is checked in
every run but those of `Select`, where a query ends.

**Fairness.** `FairSpec` asks for weak fairness of `Step`, the continuation of a
statement or page operation that has begun. The thread that runs the statement
holds the statement mutex and waits for nothing else, so it goes on unless the
process ends. No fairness is asked of clients (a statement need never begin) or
of crashes. In `Server`, weak fairness of `HandlePacket` is the same thread
going on; strong fairness of each `ReadyRead` is the event loop, which reports a
socket with data each time it comes round, whatever the other sockets do.

**Findings.** `InsertExecutor.cpp:59` reports "INSERT SELECT violates an
integrity constraint, rolled back" (in Chinese), but the rows inserted before
the refused one stay: nothing rolls back. `Table` therefore promises only that
a first part of the source has been added.

`AlterTableExecutor.cpp:113` says that for ADD COLUMN old fields are copied as
they are and the new one is zero. The new column's number is the count of
columns plus one, and after DROP COLUMN an older column may have a higher one:
create `(a, b)`, add `c` (number 3), drop `a` and `b`, add `a` (number 2). The
list sorts `a` before `c`, the loop pairs old and new offsets by position, and
`c`'s bytes end up in `a`. `RowsKept` holds for tables where this has not
happened (`mixed` is false).

`JoinOperator.cpp:48` finds the columns of ON by their bare names among those of
both tables. `ON s.sno = sc.sno` therefore compares the left table's `sno` with
itself, and the query of `test_queries.sql` 4.2, which is to give each student
the grades of that student, gives every student every grade.

**What crashes do, beyond the properties.** After a crash an index may miss
rows, also ones inserted long before (a split writes the back link of the next
leaf before the new leaf), so a unique check may pass that should not; the
record file may be a first part of the new one after UPDATE or DELETE; DROP
INDEX may have unregistered the other indexes of the table; a table may have
records of one layout under the field list of another, or a field list without
some of its constraints; `field_num` may be off, even negative. The source
promises nothing here, and the properties say what is still true: a file of a
unique index holds no key twice, unless a crash cut its own page writes (then a
later INSERT may enter a key that is out of reach), searches end, INSERT and
index statements lose no row, and the next rebuild that completes sets every
index right.

## 4. Proofs

The theorems hold for every value of the constants; each inductive step has one
proof step per action, and the properties were checked with TLC first. Those
about `TableEngine` hold for every table, every set of statements and index
definitions, any `Stored`, `Updated`, `Read`, `Shown` and `Pack`, which need not
agree, any set `RunsOn`, any number of rows and, where not said otherwise, of
crashes. They use the assumptions named in `TableRows` and `TableEngine` (that
`Stored`, `Updated`, `Read` and `Shown` return values of the table, the types of
definitions, statements and literals); the others use `NamesAssumption`,
`UsersAssumption`, `PasswordsAssumption` (passwords are lines of pieces, and
every name and role is a piece), `SessionsAssumption`, `ClientAssumption` and,
for `TableFiles`, `WidthsAssumption`, `CreationsAssumption` and
`BoundsAssumption`, for `IndexTree`, `OrderAssumption`, `KeysAssumption` and
`BoundsAssumption`. TLC evaluates all of them in the runs.

| Theorem | States | Inductive invariant |
|---|---|---|
| `TypeCorrect` | `[]TypeOK` | `TypeInv` |
| `RecordNumCorrect` | `[]RecordNumAgrees` | `Counted` |
| `UniqueFileCorrect` | `[]UniqueFile` | `ListInv`, `FileInv` |
| `RebuildHealsCorrect` | `[]RebuildHeals` | `ListInv`, `HealInv` |
| `NoOrphanFileCorrect` | `[]NoOrphanFile` | `ListInv`, `FileNames` |
| `IndexAgreesCorrect` | `[]IndexAgrees` | all of the above and `UpInv` |
| `UniqueEnforcedCorrect` | `[]UniqueEnforced` | the same |
| `ErrorKeepsRowsCorrect` | `[]ErrorKeepsRows` | the same |
| `CrashKeepsRowsCorrect` | `[]CrashKeepsRows` | `KindAt`, `Kept` |
| `TableImplemented` | `Spec /\ [](crashes = 0) => ImplementsTable` | `UpInv`, `Progress` |
| `StatementGoesOn` | `[]GoesOn` | `RunInv` |
| `StatementRunsDown` | each step of a statement lowers `<<Stage, Ahead, InHand>>` | `RunInv` |
| `TypeCorrect` (of `IndexTree_proofs`) | `[]TypeOK` | `Types` |
| `LineKept` | `[](Types /\ InLine)` | itself |
| `SearchesComeToAnEnd` | `[]SearchesEnd` | `Types`, `InLine` |
| `OperationHasStep` | `[]HasStep` | `Types` |
| `OperationRunsDown` | each step of an operation lowers `<<Above, Len(todo)>>` | `Types`, `SplitInv` |
| `TreeKept` | `[](Types /\ TreeInv)` | itself |
| `SearchFindsEntered`, `RangeFindsEntered` | `[]SearchFinds`, `[]RangeFinds` | `Types`, `TreeInv` |
| `LinksKept` | `[]WellLinked` | the same |
| `UniqueIndex` | `[]UniqueKept` | the same and `UniqueKept` |
| `TypeCorrect` (of `TableFiles_proofs`) | `[]TypeOK` | `IInv` |
| `RowsAreKept` | `[]RowsKept` | the same |
| `CountsAgreeAlways` | `[]CountsAgree` | the same |
| `FieldsStayDistinct` | `[]FieldsDistinct` | the same |
| `CreateIsWhole`, `DropIsWhole` | `[]CreatedWhole`, `[]DroppedWhole` | the same |
| `CatalogTypeCorrect` | `CatSpec => []CatTypeOK` | `CatTypeOK` with `RegInv` |
| `DirectoriesKept` | `CatSpec => []DirectoryKept` | `DirInv` |
| `CopiesAreExact` | `CatSpec => []CopiesExact` | `DirInv` |
| `RegistryNamesDistinct` | `CatSpec => []NamesDistinct` | `RegInv` |
| `RegistryKeepsAcknowledged` | `CatSpec => []AcknowledgedKept` | `RegInv` |
| `ServerRegistry` | both of them of the whole server | `RegInv` |
| `ServerDirectories` | `DirectoryKept` and `CopiesExact` of the whole server | `DirInv` |
| `ServerUsersDurable` | `Spec => []UsersDurable` | `AccInv` |
| `ServerNoPromotion` | `Spec => []NoPromotion` | `AccInv` |
| `ServerOnlyAdminsChange` | `Spec => OnlyAdminsChange` | `AdminInv` |
| `ServerHasStep` | `[]HasStep` | `LoopInv` |
| `ServerRunsDown` | `Tables` finite implies: each step of the packet loop but `Receive` lowers `<<batch, Stage, Left>>` | `LoopInv` |
| `ClientAnswersMatch` | `Spec => []AnswersMatch` | `ClientInv` |
| `ClientTablesAsAsked` | `Spec => TablesAsAsked` | `ClientInv` |
| `ClientOriginalsOnServer` | `Spec => []OriginalsOnServer` | `ClientInv`, `OpenInv` |
| `JoinReturnsAll` | `JoinSpec => []JoinComplete` | `JoinInv` |
| `PlanReadsWhatPasses` | a row that passes the conditions is read by the scan `PlanScan` chooses | — (no state) |

Why the invariants are what they are:

* `TypeOK` alone is not inductive: a rebuild takes the head of `queue`, INSERT
  looks at the last row. `Phases` (part of `TypeInv`) says when the queue, the
  source and the record file are not empty.
* `Counted` follows the difference of count and rows through each phase: one
  row ahead between append and count, the rows of `buf` and `deleted` during a
  scan, `before.rows` while the file is truncated.
* `ListInv`: names in `.tid` are distinct, and while indexes are maintained the
  queue is the last part of `.tid`. So the definitions before it (`Done` of
  them) are those already maintained, and no two of them share a file.
* `FileInv`: keys occur once in the file of every unique definition in `.tid` or
  in the queue of a DROP INDEX that is not `torn`; a file about to be registered
  is empty. A crash between any two writes keeps it, because it never mentions
  the rows.
* `HealInv`: of the rebuild of `queue`, the first `Done` indexes agree with the
  record file and the one being filled holds exactly the first `cur` records.
* `FileNames` says for each phase which file exists beyond, or is missing from,
  those of `.tid`.
* `UpInv` (no crash so far) has four parts. `Shape`: an insertion can go on in
  every index it has left to do, so only a CREATE INDEX, an UPDATE and a DELETE
  ever rebuild. `Agreement`: as long as no rebuild was refused, which indexes
  hold all rows in which phase, and which lack just the last one and can take
  it. `Distinctness`, under the same condition: the rows DELETE is about to
  write, or has written, are distinct for every unique index, because they are
  among the old ones, and those are distinct because unique indexes agreed with
  them. `Outcome`: when an error is reported and the rows have changed, a unique
  index of the list cannot take them. They need each other: a rebuild after a
  DELETE is not refused because the rows are distinct, and agreement at the end
  of the rebuild is what makes the rows distinct for the next statement. Of the
  rows of an UPDATE nothing of the kind is known, since its check compares whole
  slots: its rebuild may be refused, which is what `stale` says, and if it is
  not, that is itself why the rows are distinct. `Whole` says that only a crash
  leaves a file `torn`.

* `Progress` relates a running statement to the state it began in, which the
  history variable `before` keeps. INSERT has stored the first n rows of its
  source; the scan of DELETE has kept the rows of the first `cur` whose keys are
  not doomed; what UPDATE and DELETE are about to write, or have written, is
  the `Result`; `.tid` is the old list, the old list and one more, or being
  written back without one. So the last step of each statement is one step of
  `Table`, and every other step changes nothing `Table` shows. `Table` states
  the effect of DELETE as a relation (`Keeps`: an order-preserving choice of the
  rows), since a definition by recursion over the rows could not be reasoned
  about. The theorem is about a server that does not crash, because `Table`
  promises nothing across a crash; what a crash leaves is `CrashKeepsRows`.

* `Types` says what the first so many of an operation's page writes leave, since
  a crash may come after any of them. A page is written before a page that links
  to it (`Ready`), so every link read leads to a page; pages have levels, a page
  one more than its children (`Fitting`), and fewer levels than pages, so the
  walk of `findLeafPage` ends at a leaf (`Descends`); and an inner page has one
  child more than keys or none (`Arity`), so both halves of one fit a page.
* `InLine` is what a crash leaves of the order of the leaves. After one, `next`
  and `prev` need not be inverse, a page can be linked to by two others, and
  the leaves that hold entries need not be one chain; but the pages can still
  be numbered so that each stands before its `next` and after its `prev`
  (`Between`), and the writes still to be made keep to the same numbers
  (`Lined`), so any first part of them does. A split gives the new page the
  number behind that of the page it splits and moves up all above (`Behind`).
  A walk along `next` or back along `prev` therefore moves through the numbers
  in one direction, and there are more steps in `Walk` than pages, so it comes
  to rest (`NoCircle`, by the pigeonhole theorem): `rangeSearch` at the end of
  the chain, `findLeftmostLeafPage` at a page that is not its own `prev`. For
  this `Types` says of `prev` too that it leads to a page that is known.
* `SplitInv` is why a split goes up only so far. `Above` counts the pages over the
  one just split: those from which it is reached through children. The page that
  is split next is one of them and, by the levels of `Types`, does not have the
  lower one above it. Until the writes of the split are made nothing can come
  over the page, because they change no children but those of the two halves.
  This needs no order of keys and no intact tree, so it holds of what a crash has
  left, where a parent may not know its child (`ParentLost`) or a page no parent.
* `TreeInv` speaks of the pages as they will be when the writes in `todo` are
  made (`Gives`), so a `Write` keeps it, and each operation has only to show
  what its whole list of writes makes of a tree. That `Tree` exists with a
  height for every page (`level`), the range of keys it is for (`lo`, `hi`) and
  the leaves in order (`chain`); they are not in the file, and each operation
  gives the new ones. The separators of a page part its range between its
  children (`Parted`). Equal keys may lie on both sides of a separator, so a
  range includes the least key of the next one; this is why `search` must begin
  at the leftmost leaf that may hold the key and go on along the chain. Along
  the chain entries ascend by key and, of one key, by age (`Ascends`): a new
  entry goes behind the older ones of its key. While a split waits to be
  entered in the parent, both halves are found in the place of the left one
  (`Upper`, `Halved`), at every level up to a new root. That the walks of
  `findLeafPage` and along the chain pass the right pages is shown by choosing
  the least number of steps after which they have not (`UpTo`).
  A crash between two writes makes `torn` true and the invariant empty; a
  rebuild starts with a new file and restores it. `UniqueKept` is inductive
  once searches are exact: what the search before an insertion does not find is
  not there.
* `IInv` is about `Coming` and `Data`: the field list and the records there will
  be when the running statement has written what it has in hand. Between the two
  writes of an ALTER the files contradict each other, but `RowsInv` always holds
  of `Coming` and `Data`: every row is found where `Coming` says (`Layout`). It
  speaks of a server that has not crashed and a table that is neither `mixed`
  nor `doubled`; `NamesOnce` (as long as it is not `doubled`), `CreatingInv` and
  `DroppingInv` (how far CREATE and DROP TABLE are) hold across crashes and
  carry `FieldsDistinct`, `CreatedWhole` and `DroppedWhole`. `FilesInv`,
  `CountsInv` and `Columns` say which files exist, by how much the counts lag
  behind, and which columns a row has. The three loops of `rewriteRecords` are
  shown to move every column to its new offset (lemmas about `AddMoves`,
  `DropMoves` and `ModifyMoves`); offsets are sums over the fields before a
  field, and the induction over fields is made by choosing the least number for
  which a claim fails.
* `Stage`, `Ahead`, `InHand` (in `TableEngine_proofs`) count what a statement has
  before it: which of the nested loops it is in, the rows or definitions that
  loop has left, and the entries or records left for the one in hand. A step
  lowers the first that it changes, so no statement takes infinitely many steps.
  That the differences are natural numbers, and that a step is possible at all,
  is `GoesOn`; a CREATE INDEX that is taken back needs `Targeted`, that the index
  it removes is one it registered. This holds after any number of crashes.
  `StatementEnds` then needs only the fairness of `Spec`.
* `DirInv` says where the directory of every database is while a statement
  runs: made before it is registered, removed after its registration has gone,
  and a copy holds no more than its source until it is full. A kill excuses a
  name only when it cut the statement about this very directory (`torn`).
* `RegInv` says what DROP DATABASE has in hand: until the registry is cleared,
  the blocks read are those in the file; while it is written back, the blocks
  written and those left share no name and together hold every acknowledged
  one. `ServerIsCatalog` and `ServerIsAccounts` show that every step of `Server`
  is a step of `Catalog` or a kill, and likewise of `Accounts`, so the
  invariants of the parts hold of the whole.
* `AccInv` follows `save`: the lines of a user in the file are its `Record`, or
  the user is still to be written. As long as every password was plain, a line
  that `load` counts names the user it was written for, and one that says ADMIN
  was written for root or for a user who had been granted it (`OwnLines`); a
  record cut by a kill is no exception.
* `AdminInv`: while a statement on the catalog is in progress, the user of the
  connection served is an administrator; accounts do not change until it ends,
  so nobody can take the role away in between.
* `LoopInv` joins `ServeInv` (a packet is in hand while a connection is served, at
  most one of catalog and accounts is busy, neither in a process that is down)
  with what a statement on the catalog needs to have a step. The triple is the
  packets still in hand, the stage of the statement, and the lines, blocks and
  directory entries it has left; the theorem assumes that a directory holds
  finitely many files (`Tables`), since DROP removes them one by one. The one
  step that does not lower it is `Receive`, another packet from a client: what
  `Answered` says of it is left to fairness and the bound on packets.
* `ClientInv`: at most one statement or reply is under way (`OneExchange`), it
  belongs to the mode (`ModeInv`), and what was asked about whole tables is
  about the pending names in the pending database (`TargetInv`). A lost
  connection empties the wire and leaves the mode; the login that follows is
  the one statement every mode accepts.
* `OpenInv` and `SaveInv` follow a snapshot: the rows that arrive are those of the
  table in the pending database, whatever the connection went through, and
  while a save of `Whole` rows runs, the rows of the table and those of the grid
  differ by what the statements still queued will delete and insert (`Covered`).
* `JoinInv`: the pairs returned are the matching pairs passed so far, in the
  order of the two loops, and in the second phase of a RIGHT JOIN the lonely
  right rows passed there; `FlagsAgree` says that the flags are what the pairs
  passed have set, and that the right index is back at its first row when the
  second phase begins.

* `PlanReadsWhatPasses` is about single conditions, literals and cells of any
  number: the key of an equality, or the bounds of a range, come from some of the
  conditions (the last that names the column), and each holds of a row that
  passes (`EqualitySays`, `ConditionBounds`); a literal on the left turns the
  comparison round (`MirroredSays`). Its hypothesis `Allows` asks of a condition
  the plan makes use of that its literals are cells and that its column is one
  the filter looks up in the row (`OfThisRow`), as `WhereUnqualified` makes sure;
  the other conditions may be anything. It is in terms of the cells of `Cells`,
  of which numeric, text and key order agree.

Only model-checked: liveness as such (`StatementEnds`, `InsertEnds`,
`Answered`), which is out of the prover's reach. What each of them needs beside
fairness and ENABLED is proved: that something is always left to do
(`StatementGoesOn`, `OperationHasStep`, `ServerHasStep`) and that it becomes less
with every step (`StatementRunsDown`, `OperationRunsDown`, `ServerRunsDown`).
Also `AnswersAsAsked` and `IndexLosesNoRow`, about WHEREs of any depth, whose
definitions (`Query`, `Answer`) use RECURSIVE operators, which the prover does not
take. What an index contributes to the second is `PlanReadsWhatPasses`; that the
filter lets a row pass AND exactly if it lets it pass the `Conjuncts` stays with
TLC.

## 5. Not modelled, and what could follow

* Integrity checks: CHECK over several columns and FOREIGN KEY. The checks in
  use are guards of `TableRows`; a model of the evaluator beside the filter's
  would show where the two disagree.
* Lexer and parser: a pure function of the text with no state.
* Of the query pipeline: arithmetic, LIKE, lists in IN, COUNT(DISTINCT), AVG,
  joins inside a subquery.
* Two clients at once in `Client`. The current database is shared, so another
  connection's USE between a client's USE and its next statement redirects it;
  no document of the repository says that this cannot happen.
* Key types other than INTEGER and VARCHAR in detail: `RunsOn` says only that
  DELETE may keep such a row.
* Backups to a path inside `data/`, which empty the database they are to copy.
* The command-line server: the same executors with one user at a console.
* Widgets and layout of the client, formatting of answers, and the statement
  log, which nothing reads.
* Small hazards that no property covers: two aggregates in HAVING leave the
  pointer to the first dangling (`SelectExecutor.cpp:126`); group keys are the
  cells joined with `|` (`AggregateOperator.cpp:124`); an index takes its key
  from the text of a literal where the filter compares numbers
  (`QueryBuilder.cpp:175`); NOT BETWEEN is parsed into an operator that no
  evaluation knows (`SQLParserImpl.cpp:603`); `.tic` keeps the constraints of a
  dropped column (`InsertExecutor.cpp:108`, the guard `CanInsert`); DROP TABLE
  leaves the `.ix` files, so an index of the same name cannot be made again
  (`CatalogManagerImpl.cpp:268`); ADD COLUMN divides by the size of a record
  with no columns (`AlterTableExecutor.cpp:102`, the action `AddDies`).
