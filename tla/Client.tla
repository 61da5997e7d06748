-------------------------------- MODULE Client --------------------------------
(***************************************************************************)
(* The desktop client: DbClient and MainWindow, in front of the server.    *)
(*                                                                         *)
(* A dialog of the window sends one statement, remembers in m_requestMode  *)
(* what its reply will mean, and sends the next from the handler of the    *)
(* reply.  Saving a table or its structure sends a queue of statements     *)
(* the same way, under a flag; the queues are sets here, and the order of  *)
(* the DELETEs, of the INSERTs and of the ALTERs is left open.  A reply    *)
(* names no request: what it is taken for depends on the mode and the      *)
(* flags when it arrives.                                                  *)
(*                                                                         *)
(* The user waits for the reply before sending anything else, but edits    *)
(* the grid at any time.  The connection can be lost at any moment, and    *)
(* the server can refuse any statement.  The client is alone.  Message     *)
(* boxes, the tree, the log and the status line are left out.              *)
(***************************************************************************)
EXTENDS Naturals, Sequences, FiniteSets

CONSTANTS
  Databases,
  Tables,
  Keys,          \* values of the first column, the primary key
  Vals,          \* the rest of a row
  Kept,          \* what the server keeps of a row it is given
  Altered,       \* what ALTER TABLE makes of a row
  Found,         \* the keys by which DELETE finds their rows
  None,          \* no name, no rows, no table
  MaxRows,       \* bound on the rows the user puts into the grid
  MaxAlters      \* bound on the ALTER statements of one change of structure

Rows == Keys \X Vals

ASSUME ClientAssumption ==
  /\ None \notin Databases \cup Tables
  /\ \A rows \in SUBSET Rows : None # rows
  /\ Kept \in [Rows -> Rows] /\ Altered \in [Rows -> Rows]
  /\ Found \subseteq Keys
  /\ MaxRows \in Nat /\ MaxAlters \in Nat

VARIABLES
  contents,      \* server: the rows of each table of each database, None where there is no table
  dbs,           \* server: the databases
  currentDB,     \* server: the current database
  link,          \* DbClient: "off", "login" (connected, not authenticated) or "on"
  asked,         \* the statements on their way to the server
  answer,        \* the replies on their way to the client
  mode,          \* m_requestMode
  pendingDatabase, pendingTable,
  currentDatabase, currentTable,
  grid,          \* m_dataTable: None without columns, else the set of its rows
  originalRows,  \* m_originalRows
  saving,        \* m_isSavingToServer
  sqlQueue,      \* m_pendingSqlQueue: the statements left
  savingStructure,
  structureSql,  \* m_pendingStructureSql: the statements left
  exact          \* the table was opened and only completed saves of whole rows
                 \* touched it since (history)

server   == <<contents, dbs, currentDB>>
wire     == <<link, asked, answer>>
request  == <<mode, pendingDatabase, pendingTable>>
shown    == <<currentDatabase, currentTable, grid, originalRows>>
saves    == <<saving, sqlQueue, savingStructure, structureSql>>
vars     == <<server, wire, request, shown, saves, exact>>

Statement(op, name, row) == [op |-> op, name |-> name, row |-> row]
Use(d)     == Statement("USE", d, None)
Plain(op)  == Statement(op, None, None)

Init ==
  /\ contents = [d \in Databases |-> [t \in Tables |-> None]]
  /\ dbs = {}
  /\ currentDB = None
  /\ link = "off" /\ asked = <<>> /\ answer = <<>>
  /\ mode = "None" /\ pendingDatabase = None /\ pendingTable = None
  /\ currentDatabase = None /\ currentTable = None /\ grid = None /\ originalRows = {}
  /\ saving = FALSE /\ sqlQueue = {}
  /\ savingStructure = FALSE /\ structureSql = {}
  /\ exact = FALSE

-----------------------------------------------------------------------------
(***************************************************************************)
(* The server, as one client sees it.  Its rows are those SELECT shows.    *)
(* INSERT cuts a VARCHAR at the width of its column, takes a number for    *)
(* what it can read of it, and so on: what it keeps is not what was typed. *)
(* DELETE reads a VARCHAR key that fills its column together with what     *)
(* follows it, and finds no such row.                                      *)
(***************************************************************************)
\* A row that INSERT keeps as it is and DELETE finds by its key.
Whole(r) == Kept[r] = r /\ r[1] \in Found

\* A statement without a name is not one that parses.
HasTable(t) == currentDB # None /\ t \in Tables /\ contents[currentDB][t] # None

TableRows(t) == contents[currentDB][t]

\* Which statements can succeed.
CanDo(s) ==
  CASE s.op \in {"LOGIN", "SHOW DATABASES"} -> TRUE
    [] s.op = "SHOW TABLES"     -> currentDB # None
    [] s.op = "USE"             -> s.name \in dbs
    [] s.op = "CREATE DATABASE" -> s.name \notin dbs
    [] s.op = "DROP DATABASE"   -> s.name \in dbs
    [] s.op = "CREATE TABLE"    -> currentDB # None /\ ~HasTable(s.name)
    [] s.op = "INSERT"          -> HasTable(s.name) /\ \A r \in TableRows(s.name) : r[1] # Kept[s.row][1]
    [] OTHER                    -> HasTable(s.name)

Become(t, rows) == contents' = [contents EXCEPT ![currentDB][t] = rows]

Effect(s) ==
  /\ CASE s.op = "CREATE TABLE"  -> Become(s.name, {})
       [] s.op = "DROP TABLE"    -> Become(s.name, None)
       [] s.op = "INSERT"        -> Become(s.name, TableRows(s.name) \cup {Kept[s.row]})
       [] s.op = "DELETE"        ->
            Become(s.name, {r \in TableRows(s.name) : r[1] \in Found => r[1] # s.row[1]})
       [] s.op = "ALTER"         -> Become(s.name, {Altered[r] : r \in TableRows(s.name)})
       [] s.op = "DROP DATABASE" -> contents' = [contents EXCEPT ![s.name] = [t \in Tables |-> None]]
       [] OTHER                  -> UNCHANGED contents
  /\ dbs' = CASE s.op = "CREATE DATABASE" -> dbs \cup {s.name}
              [] s.op = "DROP DATABASE"   -> dbs \ {s.name}
              [] OTHER                    -> dbs
  /\ currentDB' = CASE s.op = "USE" -> s.name
                    [] s.op = "DROP DATABASE" /\ currentDB = s.name -> None
                    [] OTHER -> currentDB

Reply(s, ok) ==
  [to   |-> s, ok |-> ok,
   db   |-> IF s.op = "LOGIN" THEN None ELSE currentDB',
   rows |-> IF ok /\ s.op = "SELECT" THEN TableRows(s.name) ELSE None]

Serve ==
  /\ asked # <<>>
  /\ asked' = Tail(asked)
  /\ LET s == Head(asked)
     IN  \/ CanDo(s) /\ Effect(s) /\ answer' = Append(answer, Reply(s, TRUE))
         \/ UNCHANGED server /\ answer' = Append(answer, Reply(s, FALSE))
  /\ UNCHANGED <<link, request, shown, saves, exact>>

-----------------------------------------------------------------------------
(***************************************************************************)
(* The connection.  Nothing of the window is reset when it is lost.        *)
(***************************************************************************)
Quiet == asked = <<>> /\ answer = <<>>

Send(s) == asked' = Append(asked, s)

\* DbClient::connectToServer and onConnected: what was under way on the old connection is lost.
ConnectToServer ==
  /\ link' = "login"
  /\ asked' = <<Plain("LOGIN")>>
  /\ answer' = <<>>

OnNewConnection ==
  /\ ConnectToServer
  /\ exact' = (exact /\ Quiet)
  /\ UNCHANGED <<server, request, shown, saves>>

OnDisconnected ==
  /\ link # "off"
  /\ link' = "off" /\ asked' = <<>> /\ answer' = <<>>
  /\ exact' = (exact /\ Quiet)
  /\ UNCHANGED <<server, request, shown, saves>>

\* The user sends something: connected, and nothing outstanding.
Ready == link = "on" /\ Quiet

\* The reply that arrives.
Arrived == Head(answer)

\* A reply with this outcome is handled.
Received(ok) == answer # <<>> /\ answer' = Tail(answer) /\ Arrived.ok = ok

\* The reply in this mode is taken for the one the mode waits for.
InMode(m) == mode = m /\ Received(TRUE) /\ Arrived.to.op # "LOGIN"

-----------------------------------------------------------------------------
(***************************************************************************)
(* Requests that take several statements.                                  *)
(***************************************************************************)
\* The pending names are read in the modes of the request that set them: they are cleared
\* with its end, also where the code leaves them.
ClearPending == pendingDatabase' = None /\ pendingTable' = None

LoadExplorer ==
  /\ mode' = "LoadDatabases"
  /\ ClearPending
  /\ Send(Plain("SHOW DATABASES"))

\* A request that starts by making d the current database of the server.
Request(m, d, t) ==
  /\ mode' = m
  /\ pendingDatabase' = d
  /\ pendingTable' = t
  /\ Send(Use(d))

RequestTables(d) == Request("LoadTablesUseDatabase", d, None)
OpenTable(d, t)  == Request("OpenTableUseDatabase", d, t)

\* The next statement of the request is sent, and its reply awaited.
Advance(m, s) ==
  /\ mode' = m
  /\ Send(s)
  /\ UNCHANGED <<pendingDatabase, pendingTable>>

RequestOver == mode' = "None" /\ ClearPending /\ UNCHANGED asked

\* Faulty: a login leaves the mode as the lost connection left it.
LoginOnly ==
  /\ Received(TRUE) /\ Arrived.to.op = "LOGIN"
  /\ link' = "on"
  /\ UNCHANGED <<server, asked, request, shown, saves, exact>>

LoginSucceeded ==
  /\ Received(TRUE) /\ Arrived.to.op = "LOGIN"
  /\ link' = "on"
  /\ LoadExplorer
  /\ UNCHANGED <<server, shown, saves, exact>>

\* A refused login comes as a response like any other.
RequestFailed ==
  /\ mode # "None"
  /\ Received(FALSE)
  /\ RequestOver
  /\ UNCHANGED <<server, link, shown, saves, exact>>

RequestLoaded ==
  /\ InMode("LoadDatabases") \/ InMode("LoadTables") \/ InMode("OpenTableDesc")
  /\ RequestOver
  /\ UNCHANGED <<server, link, shown, saves, exact>>

UsedForTables ==
  /\ InMode("LoadTablesUseDatabase")
  /\ Advance("LoadTables", Plain("SHOW TABLES"))
  /\ UNCHANGED <<server, link, shown, saves, exact>>

-----------------------------------------------------------------------------
\* Clicks in the tree.  A database clicked becomes the current one at once.
OnDatabaseClicked(d) ==
  /\ Ready
  /\ currentDatabase' = d
  /\ currentTable' = None
  /\ RequestTables(d)
  /\ UNCHANGED <<server, link, answer, grid, originalRows, saves, exact>>

OnTableClicked(d, t) ==
  /\ Ready
  /\ OpenTable(d, t)
  /\ UNCHANGED <<server, link, answer, shown, saves, exact>>

OnRefresh ==
  /\ Ready
  /\ IF currentDatabase # None /\ currentTable # None
       THEN OpenTable(currentDatabase, currentTable)
       ELSE LoadExplorer
  /\ UNCHANGED <<server, link, answer, shown, saves, exact>>

UsedForOpen ==
  /\ InMode("OpenTableUseDatabase")
  /\ Advance("OpenTableSelect", Statement("SELECT", pendingTable, None))
  /\ UNCHANGED <<server, link, shown, saves, exact>>

\* fillDataTable
FillData(rows) ==
  /\ grid' = rows
  /\ originalRows' = rows

TableSelected ==
  /\ InMode("OpenTableSelect")
  /\ currentDatabase' = pendingDatabase
  /\ currentTable' = pendingTable
  /\ FillData(Arrived.rows)
  /\ exact' = TRUE
  /\ Advance("OpenTableDesc", Statement("DESC", pendingTable, None))
  /\ UNCHANGED <<server, link, saves>>

-----------------------------------------------------------------------------
(***************************************************************************)
(* Creating and deleting databases and tables.                             *)
(***************************************************************************)
ChangeDatabase(m, op, d) ==
  /\ Ready
  /\ mode' = m
  /\ pendingDatabase' = d
  /\ pendingTable' = None
  /\ Send(Statement(op, d, None))
  /\ UNCHANGED <<server, link, answer, shown, saves, exact>>

OnCreateDatabase(d) == ChangeDatabase("CreateDatabase", "CREATE DATABASE", d)
OnDeleteDatabase    == currentDatabase # None /\ ChangeDatabase("DeleteDatabase", "DROP DATABASE", currentDatabase)

DatabaseCreated ==
  /\ InMode("CreateDatabase")
  /\ LoadExplorer
  /\ UNCHANGED <<server, link, shown, saves, exact>>

DatabaseDeleted ==
  /\ InMode("DeleteDatabase")
  /\ IF currentDatabase = pendingDatabase
       THEN currentDatabase' = None /\ currentTable' = None /\ grid' = None
       ELSE UNCHANGED <<currentDatabase, currentTable, grid>>
  /\ LoadExplorer
  /\ UNCHANGED <<server, link, originalRows, saves, exact>>

\* Faulty: the table is dropped in whatever database the server is in.
DeleteTableAtOnce ==
  /\ Ready
  /\ currentDatabase # None /\ currentTable # None
  /\ mode' = "DeleteTableDrop"
  /\ pendingDatabase' = currentDatabase
  /\ pendingTable' = currentTable
  /\ Send(Statement("DROP TABLE", currentTable, None))
  /\ UNCHANGED <<server, link, answer, shown, saves, exact>>

OnDeleteTable ==
  /\ Ready
  /\ currentDatabase # None /\ currentTable # None
  /\ Request("DeleteTableUseDatabase", currentDatabase, currentTable)
  /\ UNCHANGED <<server, link, answer, shown, saves, exact>>

UsedForDelete ==
  /\ InMode("DeleteTableUseDatabase")
  /\ Advance("DeleteTableDrop", Statement("DROP TABLE", pendingTable, None))
  /\ UNCHANGED <<server, link, shown, saves, exact>>

TableDeleted ==
  /\ InMode("DeleteTableDrop")
  /\ currentDatabase' = pendingDatabase
  /\ currentTable' = None
  /\ grid' = IF currentDatabase = pendingDatabase /\ currentTable = pendingTable THEN None ELSE grid
  /\ RequestTables(pendingDatabase)
  /\ UNCHANGED <<server, link, originalRows, saves, exact>>

OnCreateTable(t) ==
  /\ Ready
  /\ currentDatabase # None
  /\ Request("CreateTableUseDatabase", currentDatabase, t)
  /\ UNCHANGED <<server, link, answer, shown, saves, exact>>

UsedForCreate ==
  /\ InMode("CreateTableUseDatabase")
  /\ Advance("CreateTableCreate", Statement("CREATE TABLE", pendingTable, None))
  /\ UNCHANGED <<server, link, shown, saves, exact>>

\* The new table becomes the current one; the grid and originalRows are still another's.
TableCreated ==
  /\ InMode("CreateTableCreate")
  /\ currentDatabase' = pendingDatabase
  /\ currentTable' = pendingTable
  /\ exact' = FALSE
  /\ RequestTables(pendingDatabase)
  /\ UNCHANGED <<server, link, grid, originalRows, saves>>

-----------------------------------------------------------------------------
(***************************************************************************)
(* The grid, and saving it: USE, one DELETE for each original row, one     *)
(* INSERT for each row of the grid.                                        *)
(***************************************************************************)
Edit(g) ==
  /\ currentTable # None /\ grid # None
  /\ grid' = g
  /\ exact' = (exact /\ (Quiet \/ ~saving))
  /\ UNCHANGED <<server, wire, request, currentDatabase, currentTable, originalRows, saves>>

OnAddRow(r)            == r \notin grid /\ Cardinality(grid) < MaxRows /\ Edit(grid \cup {r})
OnDeleteRow(r)         == r \in grid /\ Edit(grid \ {r})
OnCellChanged(r, new)  == r \in grid /\ new \notin grid /\ Edit((grid \ {r}) \cup {new})

DeleteSql(r) == Statement("DELETE", currentTable, r)
InsertSql(r) == Statement("INSERT", currentTable, r)

\* What can be sent next: the INSERTs come after the DELETEs.
NextOf(queue) ==
  {s \in queue : s.op = "DELETE" \/ \A other \in queue : other.op # "DELETE"}

OnSaveChanges ==
  /\ Ready
  /\ currentDatabase # None /\ currentTable # None /\ grid # None
  /\ saving' = TRUE
  /\ sqlQueue' = {DeleteSql(r) : r \in originalRows} \cup {InsertSql(r) : r \in grid}
  /\ Send(Use(currentDatabase))
  /\ exact' = (exact /\ \A r \in originalRows \cup grid : Whole(r))
  /\ UNCHANGED <<server, link, answer, request, shown, savingStructure, structureSql>>

\* Faulty: the rows saved do not become the original ones.
OriginalsLeft == originalRows

OriginalsAfterSave == IF grid = None THEN {} ELSE grid

ExecuteNextQueuedSql ==
  \/ /\ sqlQueue = {}
     /\ saving' = FALSE
     /\ originalRows' = OriginalsAfterSave
     /\ UNCHANGED <<sqlQueue, asked>>
  \/ \E s \in NextOf(sqlQueue) :
       /\ sqlQueue' = sqlQueue \ {s}
       /\ Send(s)
       /\ UNCHANGED <<saving, originalRows>>

SaveReply ==
  /\ mode = "None" /\ ~savingStructure /\ saving
  /\ Received(TRUE) /\ Arrived.to.op # "LOGIN"
  /\ ExecuteNextQueuedSql
  /\ UNCHANGED <<server, link, request, currentDatabase, currentTable, grid, savingStructure,
                 structureSql, exact>>

SaveFailed ==
  /\ mode = "None" /\ ~savingStructure /\ saving
  /\ Received(FALSE)
  /\ saving' = FALSE /\ sqlQueue' = {}
  /\ exact' = FALSE
  /\ UNCHANGED <<server, link, asked, request, shown, savingStructure, structureSql>>

-----------------------------------------------------------------------------
(***************************************************************************)
(* Saving the structure: USE and some ALTER statements, of which only the  *)
(* number is kept; then the table is opened again.  When one is refused,   *)
(* those before it are done, and the grid still shows the old rows.        *)
(***************************************************************************)
AlterSql(i) == Statement("ALTER", currentTable, i)

OnSaveStructure(n) ==
  /\ Ready
  /\ currentDatabase # None /\ currentTable # None
  /\ savingStructure' = TRUE
  /\ structureSql' = {AlterSql(i) : i \in 1..n}
  /\ Send(Use(currentDatabase))
  /\ UNCHANGED <<server, link, answer, request, shown, saving, sqlQueue, exact>>

StructureReply ==
  /\ mode = "None" /\ savingStructure
  /\ Received(TRUE) /\ Arrived.to.op # "LOGIN"
  /\ \E s \in structureSql : structureSql' = structureSql \ {s} /\ Send(s)
  /\ exact' = FALSE
  /\ UNCHANGED <<server, link, request, shown, saving, sqlQueue, savingStructure>>

\* finishStructureSave
StructureSaved ==
  /\ mode = "None" /\ savingStructure
  /\ Received(TRUE) /\ Arrived.to.op # "LOGIN"
  /\ structureSql = {}
  /\ savingStructure' = FALSE
  /\ OpenTable(currentDatabase, currentTable)
  /\ UNCHANGED <<server, link, shown, saving, sqlQueue, structureSql, exact>>

StructureFailed ==
  /\ mode = "None" /\ savingStructure
  /\ Received(FALSE)
  /\ savingStructure' = FALSE /\ structureSql' = {}
  /\ UNCHANGED <<server, link, asked, request, shown, saving, sqlQueue, exact>>

-----------------------------------------------------------------------------
(***************************************************************************)
(* The SQL editor, of whose statements those that change databases and     *)
(* tables are left out.  SELECT * FROM t makes t the current table and     *)
(* fills the grid, but not originalRows.                                   *)
(***************************************************************************)
EditorStatements ==
  {Use(d) : d \in Databases}
    \cup {Statement("SELECT", t, None) : t \in Tables}
    \cup {Statement(op, t, r) : op \in {"INSERT", "DELETE"}, t \in Tables, r \in Rows}

OnExecuteSql(s) ==
  /\ Ready
  /\ Send(s)
  /\ exact' = FALSE
  /\ UNCHANGED <<server, link, answer, request, shown, saves>>

PlainReply ==
  /\ mode = "None" /\ ~savingStructure /\ ~saving
  /\ answer # <<>> /\ answer' = Tail(answer)
  /\ Arrived.ok => Arrived.to.op # "LOGIN"
  /\ currentDatabase' = IF Arrived.db # None /\ currentTable = None THEN Arrived.db ELSE currentDatabase
  /\ IF Arrived.rows # None
       THEN currentTable' = Arrived.to.name /\ grid' = Arrived.rows
       ELSE UNCHANGED <<currentTable, grid>>
  /\ UNCHANGED <<server, link, asked, request, originalRows, saves, exact>>

-----------------------------------------------------------------------------
OnResponse ==
  \/ LoginSucceeded \/ RequestFailed \/ RequestLoaded
  \/ UsedForTables \/ UsedForOpen \/ TableSelected
  \/ DatabaseCreated \/ DatabaseDeleted
  \/ UsedForDelete \/ TableDeleted \/ UsedForCreate \/ TableCreated
  \/ StructureReply \/ StructureSaved \/ StructureFailed
  \/ SaveReply \/ SaveFailed \/ PlainReply

UserStep ==
  \/ OnNewConnection
  \/ \E d \in Databases :
       OnDatabaseClicked(d) \/ OnCreateDatabase(d) \/ \E t \in Tables : OnTableClicked(d, t)
  \/ OnRefresh \/ OnDeleteDatabase \/ OnDeleteTable
  \/ \E t \in Tables : OnCreateTable(t)
  \/ grid # None /\ \E r \in Rows : OnAddRow(r) \/ OnDeleteRow(r) \/ \E new \in Rows : OnCellChanged(r, new)
  \/ OnSaveChanges
  \/ \E n \in 1..MaxAlters : OnSaveStructure(n)
  \/ \E s \in EditorStatements : OnExecuteSql(s)

Next == Serve \/ OnDisconnected \/ OnResponse \/ UserStep

Spec == Init /\ [][Next]_vars

-----------------------------------------------------------------------------
(***************************************************************************)
(* Properties.                                                             *)
(***************************************************************************)
\* What the reply a mode waits for answers.
Awaited(m) ==
  CASE m = "LoadDatabases"     -> "SHOW DATABASES"
    [] m = "LoadTables"        -> "SHOW TABLES"
    [] m = "OpenTableSelect"   -> "SELECT"
    [] m = "OpenTableDesc"     -> "DESC"
    [] m = "CreateDatabase"    -> "CREATE DATABASE"
    [] m = "DeleteDatabase"    -> "DROP DATABASE"
    [] m = "DeleteTableDrop"   -> "DROP TABLE"
    [] m = "CreateTableCreate" -> "CREATE TABLE"
    [] OTHER                   -> "USE"

\* A reply handled under a request mode answers the statement the mode was set for: of a user who
\* waits for replies, no lost connection or refused statement leaves a mode behind that takes the
\* reply of something else for its own (MainWindow::onServerResponse).
AnswersMatch ==
  answer # <<>> /\ mode # "None" => Arrived.to.op \in {Awaited(mode), "LOGIN"}

\* A table appears or goes only in the database for which the user asked it.
AskedByUser ==
  \A d \in Databases, t \in Tables :
    (contents[d][t] = None) # (contents'[d][t] = None)
      => \/ mode \in {"DeleteTableDrop", "CreateTableCreate"} /\ <<pendingDatabase, pendingTable>> = <<d, t>>
         \/ mode = "DeleteDatabase" /\ pendingDatabase = d

\* Whatever database the server had been in, and whichever connection the request is continued
\* on, a table appears or goes only in the database for which the user asked it.
TablesAsAsked == [][AskedByUser]_vars

\* Since a table was opened, as long as only saves have touched it, of rows that the server keeps
\* as they are and finds by their keys, and none of them failed, was cut off or was typed into: when
\* no save is running, originalRows is what the server's table holds, so that the next save deletes
\* what is there, and what was saved is what the grid showed.
OriginalsOnServer ==
  exact /\ Quiet /\ ~saving /\ currentDatabase # None /\ currentTable # None
    => contents[currentDatabase][currentTable] = originalRows
=============================================================================
