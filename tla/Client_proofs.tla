----------------------------- MODULE Client_proofs -----------------------------
(***************************************************************************)
(* The client, for any names, rows and sizes: a reply is never taken for   *)
(* another's, tables appear and go only where the user asked, and the rows *)
(* a save is to replace are those of the server.                           *)
(***************************************************************************)
EXTENDS Client, TLAPS

\* Where a request has used a database and not yet sent its statement.
UseModes == {"DeleteTableUseDatabase", "CreateTableUseDatabase"}

\* One exchange at a time.
OneExchange ==
  /\ asked = <<>> \/ asked = <<Head(asked)>>
  /\ answer = <<>> \/ answer = <<Head(answer)>>
  /\ asked = <<>> \/ answer = <<>>

\* What is asked or answered belongs to the mode; without an exchange there is no mode.
ModeInv ==
  /\ asked # <<>> /\ mode # "None" => Head(asked).op \in {Awaited(mode), "LOGIN"}
  /\ AnswersMatch
  /\ link = "on" /\ Quiet => mode = "None"

\* Statements about whole tables or databases go where the request says.
TargetInv ==
  /\ asked # <<>> =>
       /\ Head(asked).op = "DROP TABLE"
            => mode = "DeleteTableDrop" /\ Head(asked).name = pendingTable /\ currentDB = pendingDatabase
       /\ Head(asked).op = "CREATE TABLE"
            => mode = "CreateTableCreate" /\ Head(asked).name = pendingTable /\ currentDB = pendingDatabase
       /\ Head(asked).op = "DROP DATABASE" => mode = "DeleteDatabase" /\ Head(asked).name = pendingDatabase
       /\ mode \in UseModes /\ Head(asked).op # "LOGIN" => Head(asked).name = pendingDatabase
  /\ answer # <<>> /\ mode \in UseModes /\ Arrived.ok /\ Arrived.to.op # "LOGIN"
       => currentDB = pendingDatabase

\* Saved statements are about rows.
RowsInv ==
  /\ contents \in [Databases -> [Tables -> (SUBSET Rows) \cup {None}]]
  /\ dbs \subseteq Databases
  /\ currentDB \in Databases \cup {None}
  /\ answer # <<>> => Arrived.rows \in (SUBSET Rows) \cup {None}
  /\ answer # <<>> /\ Arrived.ok /\ Arrived.to.op = "SELECT" => Arrived.rows \in SUBSET Rows
  /\ asked # <<>> => /\ Head(asked).op = "INSERT" => Head(asked).row \in Rows
                     /\ Head(asked).op = "CREATE DATABASE" => Head(asked).name \in Databases

\* What the window holds.
WindowInv ==
  /\ grid \in (SUBSET Rows) \cup {None}
  /\ originalRows \subseteq Rows
  /\ \A s \in sqlQueue : s.op \in {"DELETE", "INSERT"} /\ s.row \in Rows
  /\ \A s \in structureSql : s.op = "ALTER"

ClientInv == OneExchange /\ ModeInv /\ TargetInv /\ RowsInv /\ WindowInv

-----------------------------------------------------------------------------
LEMMA OneStatement ==
  \A s : /\ Append(<<>>, s) = <<s>> /\ Head(<<s>>) = s /\ Tail(<<s>>) = <<>> /\ <<s>> # <<>>
OBVIOUS

LEMMA ClientInitInv == Init => ClientInv
<1> SUFFICES ASSUME Init PROVE ClientInv
  OBVIOUS
<1>1. /\ asked = <<>> /\ answer = <<>> /\ mode = "None" /\ link = "off"
      /\ dbs = {} /\ currentDB = None /\ grid = None /\ originalRows = {}
      /\ sqlQueue = {} /\ structureSql = {}
      /\ contents = [d \in Databases |-> [t \in Tables |-> None]]
  BY DEF Init
<1>2. contents \in [Databases -> [Tables -> (SUBSET Rows) \cup {None}]]
  BY <1>1
<1> QED
  BY <1>1, <1>2 DEF ClientInv, OneExchange, ModeInv, AnswersMatch, TargetInv, RowsInv, WindowInv

\* What is known when a reply is handled.
LEMMA OneReply ==
  ASSUME OneExchange, answer # <<>>
  PROVE  asked = <<>> /\ Tail(answer) = <<>> /\ \A s : Append(asked, s) = <<s>>
BY OneStatement DEF OneExchange

\* A step of the client that ends with a statement on its way.
LEMMA StatementSent ==
  ASSUME ClientInv, WindowInv', NEW s,
         UNCHANGED server, asked' = <<s>>, answer' = <<>>,
         mode' = "None" \/ s.op \in {Awaited(mode'), "LOGIN"},
         s.op = "DROP TABLE"
           => mode' = "DeleteTableDrop" /\ s.name = pendingTable' /\ currentDB = pendingDatabase',
         s.op = "CREATE TABLE"
           => mode' = "CreateTableCreate" /\ s.name = pendingTable' /\ currentDB = pendingDatabase',
         s.op = "DROP DATABASE" => mode' = "DeleteDatabase" /\ s.name = pendingDatabase',
         mode' \in UseModes /\ s.op # "LOGIN" => s.name = pendingDatabase',
         s.op = "INSERT" => s.row \in Rows,
         s.op = "CREATE DATABASE" => s.name \in Databases
  PROVE  ClientInv'
<1>1. Head(asked') = s /\ asked' # <<>> /\ answer' = <<>>
  BY OneStatement
<1>2. OneExchange'
  BY <1>1 DEF OneExchange
<1>3. ModeInv'
  BY <1>1 DEF ModeInv, AnswersMatch, Quiet, Awaited
<1>4. TargetInv'
  BY <1>1 DEF TargetInv, server
<1>5. RowsInv'
  BY <1>1 DEF ClientInv, RowsInv, server
<1> QED
  BY <1>2, <1>3, <1>4, <1>5 DEF ClientInv

\* A step of the client after which nothing is under way and no reply awaited.
LEMMA ExchangeOver ==
  ASSUME ClientInv, WindowInv',
         UNCHANGED server, asked' = <<>>, answer' = <<>>,
         mode' = "None" \/ link' # "on"
  PROVE  ClientInv'
BY DEF ClientInv, OneExchange, ModeInv, AnswersMatch, TargetInv, RowsInv, server

\* A statement of the next step of a request.
LEMMA RequestSteps ==
  ASSUME ClientInv, UsedForTables \/ UsedForOpen \/ UsedForDelete \/ UsedForCreate
  PROVE  ClientInv'
<1>1. /\ UNCHANGED <<server, shown, saves, pendingDatabase, pendingTable>>
      /\ answer # <<>> /\ answer' = Tail(answer) /\ Arrived.ok /\ Arrived.to.op # "LOGIN"
  BY DEF UsedForTables, UsedForOpen, UsedForDelete, UsedForCreate, InMode, Received, Advance
<1>2. answer' = <<>> /\ \A s : Append(asked, s) = <<s>>
  BY <1>1, OneReply DEF ClientInv
<1>3. WindowInv'
  BY <1>1 DEF ClientInv, WindowInv, shown, saves
<1>4. CASE UsedForTables
  <2>1. mode' = "LoadTables" /\ asked' = <<Plain("SHOW TABLES")>>
    BY <1>2, <1>4 DEF UsedForTables, Advance, Send
  <2> QED
    BY <1>1, <1>2, <1>3, <2>1, StatementSent DEF Plain, Statement, Awaited, UseModes
<1>5. CASE UsedForOpen
  <2>1. mode' = "OpenTableSelect" /\ asked' = <<Statement("SELECT", pendingTable, None)>>
    BY <1>2, <1>5 DEF UsedForOpen, Advance, Send
  <2> QED
    BY <1>1, <1>2, <1>3, <2>1, StatementSent DEF Statement, Awaited, UseModes
<1>6. CASE UsedForDelete
  <2>1. /\ mode = "DeleteTableUseDatabase" /\ mode' = "DeleteTableDrop"
        /\ asked' = <<Statement("DROP TABLE", pendingTable, None)>>
    BY <1>2, <1>6 DEF UsedForDelete, InMode, Advance, Send
  <2>2. currentDB = pendingDatabase
    BY <1>1, <2>1 DEF ClientInv, TargetInv, UseModes
  <2> QED
    BY <1>1, <1>2, <1>3, <2>1, <2>2, StatementSent DEF Statement, Awaited, UseModes
<1>7. CASE UsedForCreate
  <2>1. /\ mode = "CreateTableUseDatabase" /\ mode' = "CreateTableCreate"
        /\ asked' = <<Statement("CREATE TABLE", pendingTable, None)>>
    BY <1>2, <1>7 DEF UsedForCreate, InMode, Advance, Send
  <2>2. currentDB = pendingDatabase
    BY <1>1, <2>1 DEF ClientInv, TargetInv, UseModes
  <2> QED
    BY <1>1, <1>2, <1>3, <2>1, <2>2, StatementSent DEF Statement, Awaited, UseModes
<1> QED
  BY <1>4, <1>5, <1>6, <1>7

\* Loading the list of databases, and using a database for a request.
LEMMA LoadsExplorer ==
  ASSUME ClientInv, WindowInv', UNCHANGED server, answer' = <<>>, asked = <<>>, LoadExplorer
  PROVE  ClientInv'
<1>1. mode' = "LoadDatabases" /\ asked' = <<Plain("SHOW DATABASES")>>
  BY OneStatement DEF LoadExplorer, Send
<1> QED
  BY <1>1, StatementSent DEF Plain, Statement, Awaited, UseModes

LEMMA RequestUses ==
  ASSUME ClientInv, WindowInv', UNCHANGED server, answer' = <<>>, asked = <<>>,
         NEW m \in UseModes \cup {"LoadTablesUseDatabase", "OpenTableUseDatabase"}, NEW d, NEW t,
         Request(m, d, t)
  PROVE  ClientInv'
<1>1. mode' = m /\ pendingDatabase' = d /\ asked' = <<Use(d)>>
  BY OneStatement DEF Request, Send
<1>2. Awaited(m) = "USE"
  BY DEF Awaited, UseModes
<1> QED
  BY <1>1, <1>2, StatementSent DEF Use, Statement

\* Replies that end a request, or go on to another.
LEMMA RequestReplies ==
  ASSUME ClientInv,
         \/ LoginSucceeded \/ RequestFailed \/ RequestLoaded \/ TableSelected
         \/ DatabaseCreated \/ DatabaseDeleted \/ TableDeleted \/ TableCreated
  PROVE  ClientInv'
<1>1. UNCHANGED <<server, saves>> /\ answer # <<>> /\ answer' = Tail(answer)
  BY DEF LoginSucceeded, RequestFailed, RequestLoaded, TableSelected, DatabaseCreated,
         DatabaseDeleted, TableDeleted, TableCreated, InMode, Received
<1>2. asked = <<>> /\ answer' = <<>> /\ \A s : Append(asked, s) = <<s>>
  BY <1>1, OneReply DEF ClientInv
<1>3. CASE LoginSucceeded
  <2>1. WindowInv' /\ LoadExplorer
    BY <1>3 DEF LoginSucceeded, ClientInv, WindowInv, shown, saves
  <2> QED
    BY <1>1, <1>2, <2>1, LoadsExplorer
<1>4. CASE RequestFailed \/ RequestLoaded
  <2>1. WindowInv' /\ mode' = "None" /\ asked' = <<>>
    BY <1>2, <1>4 DEF RequestFailed, RequestLoaded, RequestOver, ClientInv, WindowInv, shown, saves
  <2> QED
    BY <1>1, <1>2, <2>1, ExchangeOver
<1>5. CASE TableSelected
  <2>1. /\ mode = "OpenTableSelect" /\ Arrived.ok /\ Arrived.to.op # "LOGIN"
        /\ grid' = Arrived.rows /\ originalRows' = Arrived.rows
        /\ mode' = "OpenTableDesc" /\ asked' = <<Statement("DESC", pendingTable, None)>>
    BY <1>2, <1>5 DEF TableSelected, InMode, Received, FillData, Advance, Send
  <2>2. Arrived.to.op = "SELECT"
    BY <1>1, <2>1 DEF ClientInv, ModeInv, AnswersMatch, Awaited
  <2>3. WindowInv'
    BY <1>1, <2>1, <2>2 DEF ClientInv, RowsInv, WindowInv, saves
  <2> QED
    BY <1>1, <1>2, <2>1, <2>3, StatementSent DEF Statement, Awaited, UseModes
<1>6. CASE DatabaseCreated
  <2>1. WindowInv' /\ LoadExplorer
    BY <1>6 DEF DatabaseCreated, ClientInv, WindowInv, shown, saves
  <2> QED
    BY <1>1, <1>2, <2>1, LoadsExplorer
<1>7. CASE DatabaseDeleted
  <2>1. WindowInv' /\ LoadExplorer
    BY <1>7 DEF DatabaseDeleted, ClientInv, WindowInv, saves
  <2> QED
    BY <1>1, <1>2, <2>1, LoadsExplorer
<1>8. CASE TableDeleted
  <2>1. WindowInv' /\ Request("LoadTablesUseDatabase", pendingDatabase, None)
    BY <1>8 DEF TableDeleted, RequestTables, ClientInv, WindowInv, saves
  <2> QED
    BY <1>1, <1>2, <2>1, RequestUses
<1>9. CASE TableCreated
  <2>1. WindowInv' /\ Request("LoadTablesUseDatabase", pendingDatabase, None)
    BY <1>9 DEF TableCreated, RequestTables, ClientInv, WindowInv, saves
  <2> QED
    BY <1>1, <1>2, <2>1, RequestUses
<1> QED
  BY <1>3, <1>4, <1>5, <1>6, <1>7, <1>8, <1>9

\* Replies outside requests: saves and the editor.
LEMMA OtherReplies ==
  ASSUME ClientInv,
         StructureReply \/ StructureSaved \/ StructureFailed \/ SaveReply \/ SaveFailed \/ PlainReply
  PROVE  ClientInv'
<1>1. UNCHANGED server /\ answer # <<>> /\ answer' = Tail(answer) /\ mode = "None"
  BY DEF StructureReply, StructureSaved, StructureFailed, SaveReply, SaveFailed, PlainReply, Received
<1>2. asked = <<>> /\ answer' = <<>> /\ \A s : Append(asked, s) = <<s>>
  BY <1>1, OneReply DEF ClientInv
<1>3. WindowInv /\ RowsInv
  BY DEF ClientInv
<1>4. CASE StructureReply
  <2>1. PICK s \in structureSql : structureSql' = structureSql \ {s} /\ Send(s)
    BY <1>4 DEF StructureReply
  <2>2. WindowInv' /\ mode' = "None"
    BY <1>1, <1>3, <1>4, <2>1 DEF StructureReply, WindowInv, shown, request
  <2>3. asked' = <<s>> /\ s.op = "ALTER"
    BY <1>2, <1>3, <2>1 DEF Send, WindowInv
  <2> QED
    BY <1>1, <1>2, <2>2, <2>3, StatementSent DEF UseModes
<1>5. CASE StructureSaved
  <2>1. WindowInv' /\ Request("OpenTableUseDatabase", currentDatabase, currentTable)
    BY <1>3, <1>5 DEF StructureSaved, OpenTable, WindowInv, shown
  <2> QED
    BY <1>1, <1>2, <2>1, RequestUses
<1>6. CASE StructureFailed \/ SaveFailed
  <2>1. WindowInv' /\ mode' = "None" /\ asked' = <<>>
    BY <1>1, <1>2, <1>3, <1>6 DEF StructureFailed, SaveFailed, WindowInv, shown, request
  <2> QED
    BY <1>1, <1>2, <2>1, ExchangeOver
<1>7. CASE SaveReply
  <2>0. mode' = "None" /\ grid' = grid /\ structureSql' = structureSql
    BY <1>1, <1>7 DEF SaveReply, request
  <2>1. CASE sqlQueue' = {} /\ originalRows' = OriginalsAfterSave /\ UNCHANGED asked
    <3>1. WindowInv'
      BY <1>3, <2>0, <2>1 DEF WindowInv, OriginalsAfterSave
    <3> QED
      BY <1>1, <1>2, <2>0, <2>1, <3>1, ExchangeOver
  <2>2. ASSUME NEW s \in sqlQueue, sqlQueue' = sqlQueue \ {s}, Send(s), originalRows' = originalRows
        PROVE  ClientInv'
    <3>1. WindowInv'
      BY <1>3, <2>0, <2>2 DEF WindowInv
    <3>2. asked' = <<s>> /\ s.op \in {"DELETE", "INSERT"} /\ s.row \in Rows
      BY <1>2, <1>3, <2>2 DEF Send, WindowInv
    <3> QED
      BY <1>1, <1>2, <2>0, <3>1, <3>2, StatementSent DEF UseModes
  <2> QED
    BY <1>7, <2>1, <2>2 DEF SaveReply, ExecuteNextQueuedSql, NextOf
<1>8. CASE PlainReply
  <2>1. mode' = "None" /\ asked' = <<>>
    BY <1>1, <1>2, <1>8 DEF PlainReply, request
  <2>2. WindowInv'
    BY <1>1, <1>3, <1>8 DEF PlainReply, WindowInv, RowsInv, saves
  <2> QED
    BY <1>1, <1>2, <2>1, <2>2, ExchangeOver
<1> QED
  BY <1>4, <1>5, <1>6, <1>7, <1>8

\* What the user does; nothing is sent while a request waits.
LEMMA UserSteps == ClientInv /\ UserStep => ClientInv'
<1> SUFFICES ASSUME ClientInv, UserStep PROVE ClientInv'
  OBVIOUS
<1>0. WindowInv /\ RowsInv
  BY DEF ClientInv
<1>1. CASE OnNewConnection
  <2>1. /\ asked' = <<Plain("LOGIN")>> /\ answer' = <<>> /\ UNCHANGED server /\ WindowInv'
    BY <1>0, <1>1 DEF OnNewConnection, ConnectToServer, WindowInv, shown, saves
  <2> QED
    BY <2>1, StatementSent DEF Plain, Statement
<1>2. ASSUME Ready PROVE asked = <<>> /\ answer = <<>> /\ mode = "None"
  BY <1>2 DEF Ready, Quiet, ClientInv, ModeInv
<1>3. ASSUME NEW d \in Databases, OnDatabaseClicked(d) PROVE ClientInv'
  <2>1. /\ Ready /\ answer' = answer /\ UNCHANGED server /\ WindowInv'
        /\ Request("LoadTablesUseDatabase", d, None)
    BY <1>0, <1>3 DEF OnDatabaseClicked, RequestTables, WindowInv, saves
  <2> QED
    BY <1>2, <2>1, RequestUses
<1>4. ASSUME NEW d \in Databases, NEW t \in Tables, OnTableClicked(d, t) PROVE ClientInv'
  <2>1. /\ Ready /\ answer' = answer /\ UNCHANGED server /\ WindowInv'
        /\ Request("OpenTableUseDatabase", d, t)
    BY <1>0, <1>4 DEF OnTableClicked, OpenTable, WindowInv, shown, saves
  <2> QED
    BY <1>2, <2>1, RequestUses
<1>5. CASE OnRefresh
  <2>1. Ready /\ answer' = answer /\ UNCHANGED server /\ WindowInv'
    BY <1>0, <1>5 DEF OnRefresh, WindowInv, shown, saves
  <2>2. LoadExplorer \/ Request("OpenTableUseDatabase", currentDatabase, currentTable)
    BY <1>5 DEF OnRefresh, OpenTable
  <2> QED
    BY <1>2, <2>1, <2>2, RequestUses, LoadsExplorer
<1>6. ASSUME NEW m, NEW op, NEW d, ChangeDatabase(m, op, d),
             \/ m = "CreateDatabase" /\ op = "CREATE DATABASE" /\ d \in Databases
             \/ m = "DeleteDatabase" /\ op = "DROP DATABASE"
      PROVE  ClientInv'
  <2>1. /\ Ready /\ answer' = answer /\ UNCHANGED server /\ WindowInv'
        /\ mode' = m /\ pendingDatabase' = d /\ Send(Statement(op, d, None))
    BY <1>0, <1>6 DEF ChangeDatabase, WindowInv, shown, saves
  <2>2. asked' = <<Statement(op, d, None)>> /\ answer' = <<>>
    BY <1>2, <2>1, OneStatement DEF Send
  <2> QED
    BY <1>6, <2>1, <2>2, StatementSent DEF Statement, Awaited, UseModes
<1>7. ASSUME NEW d \in Databases, OnCreateDatabase(d) PROVE ClientInv'
  BY <1>6, <1>7 DEF OnCreateDatabase
<1>8. CASE OnDeleteDatabase
  BY <1>6, <1>8 DEF OnDeleteDatabase
<1>9. CASE OnDeleteTable
  <2>1. /\ Ready /\ answer' = answer /\ UNCHANGED server /\ WindowInv'
        /\ Request("DeleteTableUseDatabase", currentDatabase, currentTable)
    BY <1>0, <1>9 DEF OnDeleteTable, WindowInv, shown, saves
  <2> QED
    BY <1>2, <2>1, RequestUses DEF UseModes
<1>10. ASSUME NEW t \in Tables, OnCreateTable(t) PROVE ClientInv'
  <2>1. /\ Ready /\ answer' = answer /\ UNCHANGED server /\ WindowInv'
        /\ Request("CreateTableUseDatabase", currentDatabase, t)
    BY <1>0, <1>10 DEF OnCreateTable, WindowInv, shown, saves
  <2> QED
    BY <1>2, <2>1, RequestUses DEF UseModes
<1>11. ASSUME NEW g \in SUBSET Rows, Edit(g) PROVE ClientInv'
  BY <1>0, <1>11 DEF Edit, WindowInv, RowsInv, ClientInv, OneExchange, ModeInv, AnswersMatch, TargetInv,
                     Quiet, Arrived, server, wire, request, saves
<1>12. ASSUME NEW r \in Rows, grid # None, OnAddRow(r) \/ OnDeleteRow(r) PROVE ClientInv'
  BY <1>0, <1>11, <1>12 DEF OnAddRow, OnDeleteRow, WindowInv
<1>13. ASSUME NEW r \in Rows, NEW new \in Rows, grid # None, OnCellChanged(r, new) PROVE ClientInv'
  BY <1>0, <1>11, <1>13 DEF OnCellChanged, WindowInv
<1>14. CASE OnSaveChanges
  <2>1. /\ Ready /\ answer' = answer /\ UNCHANGED server /\ mode' = mode /\ Send(Use(currentDatabase))
        /\ grid' = grid /\ originalRows' = originalRows /\ structureSql' = structureSql
        /\ sqlQueue' = {DeleteSql(r) : r \in originalRows} \cup {InsertSql(r) : r \in grid}
        /\ grid # None
    BY <1>14 DEF OnSaveChanges, request, shown
  <2>2. WindowInv'
    BY <1>0, <2>1 DEF WindowInv, DeleteSql, InsertSql, Statement
  <2>3. asked' = <<Use(currentDatabase)>> /\ answer' = <<>> /\ mode' = "None"
    BY <1>2, <2>1, OneStatement DEF Send
  <2> QED
    BY <2>1, <2>2, <2>3, StatementSent DEF Use, Statement, UseModes
<1>15. ASSUME NEW n \in 1..MaxAlters, OnSaveStructure(n) PROVE ClientInv'
  <2>1. /\ Ready /\ answer' = answer /\ UNCHANGED server /\ mode' = mode /\ Send(Use(currentDatabase))
        /\ structureSql' = {AlterSql(i) : i \in 1..n} /\ UNCHANGED <<grid, originalRows, sqlQueue>>
    BY <1>15 DEF OnSaveStructure, request, shown
  <2>2. WindowInv'
    BY <1>0, <2>1 DEF WindowInv, AlterSql, Statement
  <2>3. asked' = <<Use(currentDatabase)>> /\ answer' = <<>> /\ mode' = "None"
    BY <1>2, <2>1, OneStatement DEF Send
  <2> QED
    BY <2>1, <2>2, <2>3, StatementSent DEF Use, Statement, UseModes
<1>16. ASSUME NEW s \in EditorStatements, OnExecuteSql(s) PROVE ClientInv'
  <2>1. Ready /\ answer' = answer /\ UNCHANGED server /\ mode' = mode /\ Send(s) /\ WindowInv'
    BY <1>0, <1>16 DEF OnExecuteSql, WindowInv, request, shown, saves
  <2>2. asked' = <<s>> /\ answer' = <<>> /\ mode' = "None"
    BY <1>2, <2>1, OneStatement DEF Send
  <2>3. s.op \in {"USE", "SELECT", "INSERT", "DELETE"} /\ (s.op = "INSERT" => s.row \in Rows)
    BY DEF EditorStatements, Use, Statement
  <2> QED
    BY <2>1, <2>2, <2>3, StatementSent DEF UseModes
<1> QED
  BY <1>1, <1>3, <1>4, <1>5, <1>7, <1>8, <1>9, <1>10, <1>12, <1>13, <1>14, <1>15, <1>16 DEF UserStep

-----------------------------------------------------------------------------
\* A statement that succeeds keeps the tables' shape, and only statements about whole tables or
\* databases make tables appear or go, their own.
LEMMA EffectOnTables ==
  ASSUME RowsInv, NEW s, CanDo(s), Effect(s), s.op = "INSERT" => s.row \in Rows,
         s.op = "CREATE DATABASE" => s.name \in Databases
  PROVE  /\ contents' \in [Databases -> [Tables -> (SUBSET Rows) \cup {None}]]
         /\ dbs' \subseteq Databases
         /\ currentDB' \in Databases \cup {None}
         /\ s.op = "USE" => currentDB' = s.name
         /\ \A d \in Databases, t \in Tables :
              (contents[d][t] = None) # (contents'[d][t] = None)
                => \/ s.op \in {"CREATE TABLE", "DROP TABLE"} /\ <<currentDB, s.name>> = <<d, t>>
                   \/ s.op = "DROP DATABASE" /\ s.name = d
<1> DEFINE Shape == [Databases -> [Tables -> (SUBSET Rows) \cup {None}]]
           Confined == \A d \in Databases, t \in Tables :
                         (contents[d][t] = None) # (contents'[d][t] = None)
                           => \/ s.op \in {"CREATE TABLE", "DROP TABLE"} /\ <<currentDB, s.name>> = <<d, t>>
                              \/ s.op = "DROP DATABASE" /\ s.name = d
<1>1. contents \in Shape /\ dbs \subseteq Databases /\ currentDB \in Databases \cup {None}
  BY DEF RowsInv
<1>2. \A rows \in SUBSET Rows : None # rows
  BY ClientAssumption
<1>3. /\ dbs' \subseteq Databases
      /\ currentDB' \in Databases \cup {None}
      /\ s.op = "USE" => currentDB' = s.name
  <2>1. s.op = "USE" => s.name \in dbs
    BY DEF CanDo
  <2> QED
    BY <1>1, <2>1 DEF Effect
<1>4. ASSUME NEW rows \in (SUBSET Rows) \cup {None}, contents' = [contents EXCEPT ![currentDB][s.name] = rows]
      PROVE  /\ contents' \in Shape
             /\ \A d \in Databases, t \in Tables :
                  contents'[d][t] = IF <<currentDB, s.name>> = <<d, t>> THEN rows ELSE contents[d][t]
  BY <1>1, <1>4
<1>5. CASE s.op = "CREATE TABLE"
  <2>1. contents' = [contents EXCEPT ![currentDB][s.name] = {}]
    BY <1>5 DEF Effect, Become
  <2>2. {} \in (SUBSET Rows) \cup {None}
    OBVIOUS
  <2>3. /\ contents' \in Shape
        /\ \A d \in Databases, t \in Tables :
             contents'[d][t] = IF <<currentDB, s.name>> = <<d, t>> THEN {} ELSE contents[d][t]
    BY <1>4, <2>1, <2>2
  <2> QED
    BY <1>3, <1>5, <2>3
<1>6. CASE s.op = "DROP TABLE"
  <2>1. contents' = [contents EXCEPT ![currentDB][s.name] = None]
    BY <1>6 DEF Effect, Become
  <2> QED
    BY <1>3, <1>4, <1>6, <2>1
<1>7. CASE s.op \in {"INSERT", "DELETE", "ALTER"}
  <2>1. currentDB \in Databases /\ s.name \in Tables /\ TableRows(s.name) \in SUBSET Rows
    BY <1>1, <1>7 DEF CanDo, HasTable, TableRows
  <2>2. PICK rows \in SUBSET Rows : contents' = [contents EXCEPT ![currentDB][s.name] = rows]
    <3>1. CASE s.op = "INSERT"
      <4>1. TableRows(s.name) \cup {Kept[s.row]} \in SUBSET Rows
        BY <2>1, <3>1, ClientAssumption
      <4> QED
        BY <3>1, <4>1 DEF Effect, Become
    <3>2. CASE s.op = "DELETE"
      <4>1. {r \in TableRows(s.name) : r[1] \in Found => r[1] # s.row[1]} \in SUBSET Rows
        BY <2>1
      <4> QED
        BY <3>2, <4>1 DEF Effect, Become
    <3>3. CASE s.op = "ALTER"
      <4>1. {Altered[r] : r \in TableRows(s.name)} \in SUBSET Rows
        BY <2>1, ClientAssumption
      <4> QED
        BY <3>3, <4>1 DEF Effect, Become
    <3> QED
      BY <1>7, <3>1, <3>2, <3>3
  <2>3. contents[currentDB][s.name] # None
    BY <1>7 DEF CanDo, HasTable
  <2>4. Confined
    BY <1>2, <1>4, <2>1, <2>2, <2>3
  <2> QED
    BY <1>3, <1>4, <2>2, <2>4
<1>8. CASE s.op = "DROP DATABASE"
  <2>1. contents' = [contents EXCEPT ![s.name] = [t \in Tables |-> None]]
    BY <1>8 DEF Effect
  <2>2. contents' \in Shape
    BY <1>1, <2>1
  <2>3. \A d \in Databases : d # s.name => contents'[d] = contents[d]
    BY <1>1, <2>1
  <2> QED
    BY <1>3, <1>8, <2>2, <2>3
<1>9. CASE s.op \notin {"CREATE TABLE", "DROP TABLE", "INSERT", "DELETE", "ALTER", "DROP DATABASE"}
  <2>1. contents' = contents
    BY <1>9 DEF Effect
  <2> QED
    BY <1>1, <1>3, <2>1
<1> QED
  BY <1>5, <1>6, <1>7, <1>8, <1>9

\* The server runs or refuses a statement: the reply belongs to the mode the statement did.
LEMMA ServeInv == ClientInv /\ Serve => ClientInv'
<1> SUFFICES ASSUME ClientInv, Serve PROVE ClientInv'
  OBVIOUS
<1> DEFINE s == Head(asked)
<1>1. /\ asked # <<>> /\ asked = <<s>> /\ answer = <<>> /\ asked' = Tail(asked)
      /\ UNCHANGED <<link, request, shown, saves>>
  BY DEF ClientInv, OneExchange, Serve
<1>2. asked' = <<>>
  BY <1>1, OneStatement
<1>3. PICK ok \in BOOLEAN : /\ answer' = Append(answer, Reply(s, ok))
                            /\ IF ok THEN CanDo(s) /\ Effect(s) ELSE UNCHANGED server
  BY DEF Serve
<1>4. answer' = <<Reply(s, ok)>> /\ Arrived' = Reply(s, ok) /\ answer' # <<>>
  BY <1>1, <1>3, OneStatement DEF Arrived
<1>5. Arrived'.to = s /\ Arrived'.ok = ok
      /\ Arrived'.rows = IF ok /\ s.op = "SELECT" THEN TableRows(s.name) ELSE None
  BY <1>4 DEF Reply
<1>6. /\ s.op = "INSERT" => s.row \in Rows
      /\ s.op = "CREATE DATABASE" => s.name \in Databases
  BY <1>1 DEF ClientInv, RowsInv
<1> HIDE DEF s
<1>7. OneExchange'
  BY <1>2, <1>4, OneStatement DEF OneExchange
<1>8. ModeInv'
  <2>1. mode' # "None" => s.op \in {Awaited(mode'), "LOGIN"}
    BY <1>1 DEF s, ClientInv, ModeInv, request
  <2> QED
    BY <1>1, <1>2, <1>4, <1>5, <2>1 DEF ModeInv, AnswersMatch, Quiet
<1>9. RowsInv'
  <2>1. CASE ok
    <3>1. s.op = "SELECT" => TableRows(s.name) \in SUBSET Rows
      BY <1>3, <2>1, ZenonT(60) DEF CanDo, HasTable, TableRows, ClientInv, RowsInv
    <3>2. RowsInv
      BY DEF ClientInv
    <3> QED
      BY <1>2, <1>3, <1>4, <1>5, <1>6, <2>1, <3>1, <3>2, EffectOnTables DEF RowsInv
  <2>2. CASE ~ok
    BY <1>2, <1>3, <1>4, <1>5, <2>2 DEF ClientInv, RowsInv, server
  <2> QED
    BY <2>1, <2>2
<1>10. TargetInv'
  <2> SUFFICES ASSUME mode' \in UseModes, ok, s.op # "LOGIN" PROVE currentDB' = pendingDatabase'
    BY <1>2, <1>4, <1>5 DEF TargetInv
  <2>1. s.op = "USE"
    BY <1>1 DEF s, ClientInv, ModeInv, Awaited, UseModes, request
  <2>2. s.name = pendingDatabase
    BY <1>1 DEF s, ClientInv, TargetInv, request
  <2>3. currentDB' = s.name
    BY <1>3, <1>6, <2>1, EffectOnTables DEF ClientInv
  <2> QED
    BY <1>1, <2>2, <2>3 DEF request
<1>11. WindowInv'
  BY <1>1 DEF ClientInv, WindowInv, shown, saves
<1> QED
  BY <1>7, <1>8, <1>9, <1>10, <1>11 DEF ClientInv

LEMMA ClientStep == ClientInv /\ [Next]_vars => ClientInv'
<1> SUFFICES ASSUME ClientInv, [Next]_vars PROVE ClientInv'
  OBVIOUS
<1>1. CASE Serve
  BY <1>1, ServeInv
<1>2. CASE OnDisconnected
  <2>1. WindowInv' /\ UNCHANGED server /\ asked' = <<>> /\ answer' = <<>> /\ link' = "off"
    BY <1>2 DEF OnDisconnected, ClientInv, WindowInv, shown, saves
  <2> QED
    BY <2>1, ExchangeOver
<1>3. CASE OnResponse
  BY <1>3, RequestSteps, RequestReplies, OtherReplies DEF OnResponse
<1>4. CASE UserStep
  BY <1>4, UserSteps
<1>5. CASE UNCHANGED vars
  BY <1>5 DEF vars, server, wire, request, shown, saves, ClientInv, OneExchange, ModeInv, AnswersMatch,
              TargetInv, RowsInv, WindowInv, Quiet, Arrived
<1> QED
  BY <1>1, <1>2, <1>3, <1>4, <1>5 DEF Next

LEMMA ClientInvariant == Spec => []ClientInv
BY ClientInitInv, ClientStep, PTL DEF Spec

-----------------------------------------------------------------------------
\* For a user who waits for replies, MainWindow::onServerResponse never takes the reply of one
\* statement for that of another, whatever was refused and however connections were lost.
THEOREM ClientAnswersMatch == Spec => []AnswersMatch
<1>1. ClientInv => AnswersMatch
  BY DEF ClientInv, ModeInv
<1> QED
  BY <1>1, ClientInvariant, PTL

\* Tables appear and go only in the database, and under the name, the user was asked to confirm.
THEOREM ClientTablesAsAsked == Spec => TablesAsAsked
<1>1. ASSUME ClientInv, [Next]_vars PROVE [AskedByUser]_vars
  <2>1. CASE Serve
    <3> DEFINE s == Head(asked)
    <3>1. asked # <<>> /\ (contents' = contents \/ (CanDo(s) /\ Effect(s)))
      BY <2>1 DEF Serve, server
    <3>2. CASE CanDo(s) /\ Effect(s)
      <4>1. \A d \in Databases, t \in Tables :
              (contents[d][t] = None) # (contents'[d][t] = None)
                => \/ s.op \in {"CREATE TABLE", "DROP TABLE"} /\ <<currentDB, s.name>> = <<d, t>>
                   \/ s.op = "DROP DATABASE" /\ s.name = d
        BY <1>1, <3>1, <3>2, EffectOnTables DEF ClientInv, RowsInv
      <4> QED
        BY <1>1, <3>1, <4>1, ZenonT(60) DEF ClientInv, TargetInv, AskedByUser
    <3> QED
      BY <3>1, <3>2 DEF AskedByUser
  <2>2. CASE OnDisconnected \/ OnResponse \/ UserStep
    <3>1. contents' = contents
      BY <2>2 DEF OnDisconnected, OnResponse, UserStep, LoginSucceeded, RequestFailed, RequestLoaded,
                  UsedForTables, UsedForOpen, TableSelected, DatabaseCreated, DatabaseDeleted,
                  UsedForDelete, TableDeleted, UsedForCreate, TableCreated, StructureReply,
                  StructureSaved, StructureFailed, SaveReply, SaveFailed, PlainReply,
                  OnNewConnection, OnDatabaseClicked, OnCreateDatabase, OnTableClicked, OnRefresh,
                  OnDeleteDatabase, ChangeDatabase, OnDeleteTable, OnCreateTable, OnAddRow,
                  OnDeleteRow, OnCellChanged, Edit, OnSaveChanges, OnSaveStructure, OnExecuteSql, server
    <3> QED
      BY <3>1 DEF AskedByUser
  <2> QED
    BY <1>1, <2>1, <2>2 DEF Next
<1>2. ASSUME ClientInv, [Next]_vars PROVE ClientInv'
  BY <1>2, ClientStep
<1> QED
  BY <1>1, <1>2, ClientInitInv, PTL DEF Spec, TablesAsAsked

-----------------------------------------------------------------------------
(***************************************************************************)
(* Saving a grid.                                                          *)
(***************************************************************************)

\* Names are names, and the replies carry them.
NamesInv ==
  /\ currentDatabase \in Databases \cup {None}
  /\ currentTable \in Tables \cup {None}
  /\ pendingDatabase \in Databases \cup {None}
  /\ pendingTable \in Tables \cup {None}
  /\ answer # <<>> => /\ Arrived.db \in Databases \cup {None}
                      /\ Arrived.rows # None => Arrived.to.op = "SELECT" /\ Arrived.to.name \in Tables
                      /\ Arrived.to.op = "LOGIN" => Arrived.db = None

\* Opening a table: the rows that arrive are those of the table in the pending database.
OpenInv ==
  /\ asked # <<>> /\ Head(asked).op # "LOGIN" =>
       /\ mode = "OpenTableUseDatabase" => Head(asked).name = pendingDatabase
       /\ mode = "OpenTableSelect" => Head(asked).name = pendingTable /\ currentDB = pendingDatabase
  /\ answer # <<>> /\ Arrived.ok /\ Arrived.to.op # "LOGIN" =>
       /\ mode = "OpenTableUseDatabase" => currentDB = pendingDatabase
       /\ mode = "OpenTableSelect" => /\ pendingDatabase \in Databases /\ pendingTable \in Tables
                                      /\ Arrived.rows = contents[pendingDatabase][pendingTable]

\* The exchange under way belongs to a save, and to nothing else.
SaveUnderWay ==
  /\ mode = "None" /\ ~savingStructure /\ ~Quiet
  /\ asked # <<>> => Head(asked).op # "LOGIN"
  /\ answer # <<>> => Arrived.to.op # "LOGIN"

\* What the server holds of the current table.
Held == contents[currentDatabase][currentTable]

\* What the window takes for the rows of its table is what the server holds.
AsOpened == exact /\ currentDatabase # None /\ currentTable # None => Held = originalRows

\* A reply that says that the current table is no more.
TableGone ==
  /\ answer # <<>> /\ Arrived.ok /\ Arrived.to.op # "LOGIN"
  /\ \/ mode = "DeleteTableDrop"
     \/ mode = "DeleteDatabase" /\ pendingDatabase = currentDatabase

\* Nothing but a save, or what takes the table away, touches the table opened.
UntouchedInv == SaveUnderWay \/ TableGone \/ AsOpened

\* The DELETEs among some statements.
Deletes(queue) == {s \in queue : s.op = "DELETE"}

\* With these statements left: a row in the table is one of the grid that has been inserted, or one
\* that is still to be deleted; the rows of the grid that are not there are still to be inserted.
\* The server takes each of them as it is.
Covered(queue) ==
  /\ \A r \in Held : \/ Deletes(queue) = {} /\ r \in grid
                     \/ \E s \in Deletes(queue) : s.row[1] = r[1]
  /\ \A r \in grid : \/ Deletes(queue) = {} /\ r \in Held
                     \/ InsertSql(r) \in queue
  /\ \A s \in queue : Whole(s.row) /\ (s.op = "INSERT" => s.row \in grid)

SaveInv ==
  exact /\ SaveUnderWay =>
    /\ saving /\ currentDatabase \in Databases /\ currentTable \in Tables
    /\ grid \in SUBSET Rows /\ Held \in SUBSET Rows
    /\ \A s \in sqlQueue : s.name = currentTable
    /\ asked # <<>> =>
         \/ /\ Head(asked).op = "USE" /\ Head(asked).name = currentDatabase
            /\ Covered(sqlQueue)
         \/ /\ Head(asked).op \in {"DELETE", "INSERT"} /\ Head(asked).name = currentTable
            /\ currentDB = currentDatabase
            /\ Head(asked).op = "INSERT" => \A s \in sqlQueue : s.op # "DELETE"
            /\ Covered(sqlQueue \cup {Head(asked)})
    /\ answer # <<>> /\ Arrived.ok => currentDB = currentDatabase /\ Covered(sqlQueue)

\* A structure is saved by other statements than those about rows, and the first ALTER ends
\* what is known of the table.
StructureInv ==
  exact /\ mode = "None" /\ savingStructure /\ asked # <<>>
    => Head(asked).op \in {"USE", "LOGIN"}

OpenedInv == NamesInv /\ OpenInv /\ UntouchedInv /\ SaveInv /\ StructureInv

\* Nothing is open at first.
LEMMA OpenedInitInv == Init => OpenedInv
<1> SUFFICES ASSUME Init PROVE OpenedInv
  OBVIOUS
<1>1. asked = <<>> /\ answer = <<>>
  BY DEF Init
<1> QED
  BY <1>1 DEF Init, OpenedInv, NamesInv, OpenInv, SaveUnderWay, AsOpened, UntouchedInv, SaveInv, StructureInv, Quiet

\* After a step of the client that sends s, which is not a statement of a save.
LEMMA OpenedSent ==
  ASSUME NEW s, asked' = <<s>>, answer' = <<>>, AsOpened',
         currentDatabase' \in Databases \cup {None}, currentTable' \in Tables \cup {None},
         pendingDatabase' \in Databases \cup {None}, pendingTable' \in Tables \cup {None},
         mode' = "OpenTableUseDatabase" /\ s.op # "LOGIN" => s.name = pendingDatabase',
         mode' = "OpenTableSelect" /\ s.op # "LOGIN" => s.name = pendingTable' /\ currentDB' = pendingDatabase',
         exact' /\ mode' = "None" /\ ~savingStructure' => s.op = "LOGIN",
         exact' /\ mode' = "None" /\ savingStructure' => s.op \in {"USE", "LOGIN"}
  PROVE  OpenedInv'
<1>1. Head(asked') = s /\ asked' # <<>> /\ answer' = <<>>
  BY OneStatement
<1>2. NamesInv' /\ OpenInv' /\ UntouchedInv' /\ StructureInv'
  BY <1>1 DEF NamesInv, OpenInv, UntouchedInv, StructureInv
<1>3. SaveInv'
  BY <1>1 DEF SaveInv, SaveUnderWay
<1> QED
  BY <1>2, <1>3 DEF OpenedInv

\* After a step that leaves nothing under way.
LEMMA OpenedOver ==
  ASSUME asked' = <<>>, answer' = <<>>, AsOpened',
         currentDatabase' \in Databases \cup {None}, currentTable' \in Tables \cup {None},
         pendingDatabase' \in Databases \cup {None}, pendingTable' \in Tables \cup {None}
  PROVE  OpenedInv'
BY DEF OpenedInv, NamesInv, OpenInv, UntouchedInv, StructureInv, SaveInv, SaveUnderWay, Quiet

\* As long as the table stays the current one and nobody touches it, it is as it was opened.
LEMMA OpenedStays ==
  ASSUME AsOpened, exact' => exact, UNCHANGED <<contents, currentDatabase, currentTable, originalRows>>
  PROVE  AsOpened'
BY DEF AsOpened, Held

\* Without a save under way or a reply that ends it, the table is as it was opened.
LEMMA OpenedCalm ==
  ASSUME OpenedInv, ~SaveUnderWay, ~TableGone
  PROVE  AsOpened
BY DEF OpenedInv, UntouchedInv

\* Replies to requests.
LEMMA OpenedRequests ==
  ASSUME ClientInv, OpenedInv,
         \/ LoginSucceeded \/ RequestFailed \/ RequestLoaded
         \/ UsedForTables \/ UsedForOpen \/ TableSelected
         \/ DatabaseCreated \/ DatabaseDeleted
         \/ UsedForDelete \/ TableDeleted \/ UsedForCreate \/ TableCreated
  PROVE  OpenedInv'
<1>1. UNCHANGED <<server, saves>> /\ answer # <<>> /\ answer' = Tail(answer)
  BY DEF LoginSucceeded, RequestFailed, RequestLoaded, UsedForTables, UsedForOpen, TableSelected,
         DatabaseCreated, DatabaseDeleted, UsedForDelete, TableDeleted, UsedForCreate, TableCreated,
         InMode, Received
<1>2. asked = <<>> /\ answer' = <<>> /\ \A s : Append(asked, s) = <<s>>
  BY <1>1, OneReply DEF ClientInv
<1>3. /\ currentDatabase \in Databases \cup {None} /\ currentTable \in Tables \cup {None}
      /\ pendingDatabase \in Databases \cup {None} /\ pendingTable \in Tables \cup {None}
  BY DEF OpenedInv, NamesInv
<1>4. ~SaveUnderWay
  BY <1>1 DEF SaveUnderWay, LoginSucceeded, RequestFailed, RequestLoaded, UsedForTables, UsedForOpen,
              TableSelected, DatabaseCreated, DatabaseDeleted, UsedForDelete, TableDeleted, UsedForCreate,
              TableCreated, InMode, Received
<1>5. CASE LoginSucceeded \/ DatabaseCreated
  <2>1. /\ UNCHANGED <<shown, exact>> /\ LoadExplorer /\ ~TableGone
    BY <1>5 DEF LoginSucceeded, DatabaseCreated, TableGone, InMode
  <2>2. AsOpened'
    BY <1>1, <1>4, <2>1, OpenedCalm, OpenedStays DEF shown, server
  <2>3. /\ asked' = <<Plain("SHOW DATABASES")>> /\ mode' = "LoadDatabases"
        /\ pendingDatabase' = None /\ pendingTable' = None
    BY <1>2, <2>1 DEF LoadExplorer, Send, ClearPending
  <2> QED
    BY <1>2, <1>3, <2>1, <2>2, <2>3, OpenedSent DEF shown
<1>6. CASE RequestFailed \/ RequestLoaded
  <2>1. /\ UNCHANGED <<shown, exact>> /\ RequestOver /\ ~TableGone
    BY <1>6 DEF RequestFailed, RequestLoaded, TableGone, InMode, Received
  <2>2. AsOpened'
    BY <1>1, <1>4, <2>1, OpenedCalm, OpenedStays DEF shown, server
  <2>3. asked' = <<>> /\ pendingDatabase' = None /\ pendingTable' = None
    BY <1>2, <2>1 DEF RequestOver, ClearPending
  <2> QED
    BY <1>2, <1>3, <2>1, <2>2, <2>3, OpenedOver DEF shown
<1>7. CASE UsedForTables \/ UsedForOpen \/ UsedForDelete \/ UsedForCreate
  <2>1. /\ UNCHANGED <<shown, exact, pendingDatabase, pendingTable>> /\ ~TableGone
    BY <1>7 DEF UsedForTables, UsedForOpen, UsedForDelete, UsedForCreate, Advance, TableGone, InMode
  <2>2. AsOpened'
    BY <1>1, <1>4, <2>1, OpenedCalm, OpenedStays DEF shown, server
  <2>3. PICK s : /\ asked' = <<s>> /\ mode' \in {"LoadTables", "OpenTableSelect", "DeleteTableDrop", "CreateTableCreate"}
                 /\ mode' = "OpenTableSelect" => UsedForOpen /\ s.name = pendingTable
    <3>1. CASE UsedForTables
      BY <1>2, <3>1 DEF UsedForTables, Advance, Send
    <3>2. CASE UsedForOpen
      <4>1. asked' = <<Statement("SELECT", pendingTable, None)>> /\ mode' = "OpenTableSelect"
        BY <1>2, <3>2 DEF UsedForOpen, Advance, Send
      <4>2. Statement("SELECT", pendingTable, None).name = pendingTable
        BY DEF Statement
      <4> QED
        BY <3>2, <4>1, <4>2
    <3>3. CASE UsedForDelete
      BY <1>2, <3>3 DEF UsedForDelete, Advance, Send
    <3>4. CASE UsedForCreate
      BY <1>2, <3>4 DEF UsedForCreate, Advance, Send
    <3> QED
      BY <1>7, <3>1, <3>2, <3>3, <3>4
  <2>4. mode' = "OpenTableSelect" => currentDB = pendingDatabase
    BY <1>1, <2>3 DEF UsedForOpen, InMode, Received, OpenedInv, OpenInv
  <2> QED
    BY <1>1, <1>2, <1>3, <2>1, <2>2, <2>3, <2>4, OpenedSent DEF shown, server
<1>8. CASE TableSelected
  <2>1. /\ mode = "OpenTableSelect" /\ Arrived.ok /\ Arrived.to.op # "LOGIN"
        /\ currentDatabase' = pendingDatabase /\ currentTable' = pendingTable
        /\ originalRows' = Arrived.rows /\ mode' = "OpenTableDesc"
        /\ asked' = <<Statement("DESC", pendingTable, None)>>
        /\ UNCHANGED <<pendingDatabase, pendingTable>>
    BY <1>2, <1>8 DEF TableSelected, InMode, Received, FillData, Advance, Send
  <2>2. Arrived.rows = contents[pendingDatabase][pendingTable]
    BY <1>1, <2>1 DEF OpenedInv, OpenInv
  <2>3. AsOpened'
    BY <1>1, <2>1, <2>2 DEF AsOpened, Held, server
  <2> QED
    BY <1>2, <1>3, <2>1, <2>3, OpenedSent
<1>9. CASE DatabaseDeleted
  <2>1. /\ currentDatabase' = (IF currentDatabase = pendingDatabase THEN None ELSE currentDatabase)
        /\ currentTable' = (IF currentDatabase = pendingDatabase THEN None ELSE currentTable)
        /\ UNCHANGED <<originalRows, exact>> /\ LoadExplorer /\ mode = "DeleteDatabase"
    BY <1>9 DEF DatabaseDeleted, InMode
  <2>2. AsOpened'
    <3>1. CASE currentDatabase = pendingDatabase
      BY <2>1, <3>1 DEF AsOpened
    <3>2. CASE currentDatabase # pendingDatabase
      <4>1. ~TableGone
        BY <2>1, <3>2 DEF TableGone
      <4> QED
        BY <1>1, <1>4, <2>1, <3>2, <4>1, OpenedCalm, OpenedStays DEF server
    <3> QED
      BY <3>1, <3>2
  <2>3. /\ asked' = <<Plain("SHOW DATABASES")>> /\ mode' = "LoadDatabases"
        /\ pendingDatabase' = None /\ pendingTable' = None
    BY <1>2, <2>1 DEF LoadExplorer, Send, ClearPending
  <2> QED
    BY <1>2, <1>3, <2>1, <2>2, <2>3, OpenedSent
<1>10. CASE TableDeleted \/ TableCreated
  <2>1. /\ Request("LoadTablesUseDatabase", pendingDatabase, None)
        /\ currentDatabase' = pendingDatabase /\ currentTable' \in {None, pendingTable}
        /\ exact' /\ currentTable' # None => FALSE
    BY <1>10 DEF TableDeleted, TableCreated, RequestTables
  <2>2. /\ asked' = <<Use(pendingDatabase)>> /\ mode' = "LoadTablesUseDatabase"
        /\ pendingDatabase' = pendingDatabase /\ pendingTable' = None
    BY <1>2, <2>1 DEF Request, Send
  <2>3. AsOpened'
    BY <2>1 DEF AsOpened
  <2> QED
    BY <1>2, <1>3, <2>1, <2>2, <2>3, OpenedSent
<1> QED
  BY <1>5, <1>6, <1>7, <1>8, <1>9, <1>10

\* Replies to the statements of a change of structure, of which none is about rows.
LEMMA OpenedStructure ==
  ASSUME ClientInv, OpenedInv, StructureReply \/ StructureSaved \/ StructureFailed
  PROVE  OpenedInv'
<1>1. /\ UNCHANGED <<server, shown>> /\ (exact' => exact) /\ answer # <<>> /\ answer' = Tail(answer)
      /\ mode = "None" /\ savingStructure
  BY DEF StructureReply, StructureSaved, StructureFailed, Received
<1>2. asked = <<>> /\ answer' = <<>> /\ \A s : Append(asked, s) = <<s>>
  BY <1>1, OneReply DEF ClientInv
<1>3. /\ currentDatabase \in Databases \cup {None} /\ currentTable \in Tables \cup {None}
      /\ pendingDatabase \in Databases \cup {None} /\ pendingTable \in Tables \cup {None}
  BY DEF OpenedInv, NamesInv
<1>4. AsOpened'
  BY <1>1, OpenedCalm, OpenedStays DEF SaveUnderWay, TableGone, server, shown
<1>5. CASE StructureReply
  <2>1. PICK s \in structureSql : asked' = <<s>>
    BY <1>2, <1>5 DEF StructureReply, Send
  <2>2. ~exact' /\ UNCHANGED <<mode, pendingDatabase, pendingTable, savingStructure>>
    BY <1>5 DEF StructureReply, ClientInv, WindowInv, request
  <2> QED
    BY <1>1, <1>2, <1>3, <1>4, <2>1, <2>2, OpenedSent DEF shown
<1>6. CASE StructureSaved
  <2>1. /\ asked' = <<Use(currentDatabase)>> /\ mode' = "OpenTableUseDatabase"
        /\ pendingDatabase' = currentDatabase /\ pendingTable' = currentTable
    BY <1>2, <1>6 DEF StructureSaved, OpenTable, Request, Send
  <2> QED
    BY <1>1, <1>2, <1>3, <1>4, <2>1, OpenedSent DEF shown, Use, Statement
<1>7. CASE StructureFailed
  <2>1. asked' = <<>> /\ UNCHANGED <<pendingDatabase, pendingTable>>
    BY <1>2, <1>7 DEF StructureFailed, request
  <2> QED
    BY <1>1, <1>2, <1>3, <1>4, <2>1, OpenedOver DEF shown
<1> QED
  BY <1>5, <1>6, <1>7

\* Replies to the statements of a save, and to those of the editor.
LEMMA OpenedSaves ==
  ASSUME ClientInv, OpenedInv, SaveReply \/ SaveFailed \/ PlainReply
  PROVE  OpenedInv'
<1>1. /\ UNCHANGED <<server, request, savingStructure>> /\ answer # <<>> /\ answer' = Tail(answer)
      /\ mode = "None" /\ ~savingStructure
  BY DEF SaveReply, SaveFailed, PlainReply, Received, saves
<1>2. asked = <<>> /\ answer' = <<>> /\ \A s : Append(asked, s) = <<s>>
  BY <1>1, OneReply DEF ClientInv
<1>3. /\ currentDatabase \in Databases \cup {None} /\ currentTable \in Tables \cup {None}
      /\ pendingDatabase' \in Databases \cup {None} /\ pendingTable' \in Tables \cup {None}
  BY <1>1 DEF OpenedInv, NamesInv, request
<1>4. ~TableGone
  BY <1>1 DEF TableGone
<1>5. CASE SaveFailed
  <2>1. asked' = <<>> /\ exact' = FALSE /\ UNCHANGED shown
    BY <1>2, <1>5 DEF SaveFailed
  <2> QED
    BY <1>2, <1>3, <2>1, OpenedOver DEF AsOpened, shown
<1>6. CASE PlainReply
  <2>1. /\ asked' = <<>> /\ UNCHANGED <<exact, originalRows>> /\ ~saving
        /\ currentDatabase' = (IF Arrived.db # None /\ currentTable = None THEN Arrived.db ELSE currentDatabase)
        /\ currentTable' = IF Arrived.rows # None THEN Arrived.to.name ELSE currentTable
    BY <1>2, <1>6 DEF PlainReply
  <2>2. NamesInv /\ SaveInv
    BY DEF OpenedInv
  <2>3. /\ currentDatabase' \in Databases \cup {None} /\ currentTable' \in Tables \cup {None}
    BY <1>1, <1>3, <2>1, <2>2 DEF NamesInv
  <2>4. AsOpened'
    <3>1. SUFFICES ASSUME exact PROVE AsOpened'
      BY <2>1 DEF AsOpened
    <3>2. ~SaveUnderWay
      BY <2>1, <2>2, <3>1 DEF SaveInv
    <3>3. Arrived.to.op = "LOGIN"
      BY <1>1, <1>2, <3>2 DEF SaveUnderWay, Quiet
    <3>4. UNCHANGED <<currentDatabase, currentTable>>
      BY <1>1, <2>1, <2>2, <3>3 DEF NamesInv
    <3> QED
      BY <1>1, <1>4, <2>1, <3>2, <3>4, OpenedCalm, OpenedStays DEF server
  <2> QED
    BY <1>2, <1>3, <2>1, <2>3, <2>4, OpenedOver
<1>7. CASE SaveReply
  <2>1. /\ Arrived.ok /\ Arrived.to.op # "LOGIN" /\ saving /\ ExecuteNextQueuedSql
        /\ UNCHANGED <<currentDatabase, currentTable, grid, exact>>
    BY <1>7 DEF SaveReply, Received
  <2>2. SaveUnderWay
    BY <1>1, <1>2, <2>1 DEF SaveUnderWay, Quiet
  <2>3. exact => /\ currentDatabase \in Databases /\ currentTable \in Tables
                 /\ grid \in SUBSET Rows /\ Held \in SUBSET Rows
                 /\ \A s \in sqlQueue : s.name = currentTable
                 /\ currentDB = currentDatabase /\ Covered(sqlQueue)
    BY <1>1, <2>1, <2>2 DEF OpenedInv, SaveInv
  <2>4. CASE sqlQueue = {} /\ originalRows' = OriginalsAfterSave /\ UNCHANGED asked
    <3>1. ASSUME exact PROVE Held = grid /\ originalRows' = grid
      <4>1. Held \subseteq grid /\ grid \subseteq Held
        BY <2>3, <2>4, <3>1 DEF Covered, Deletes
      <4>2. grid # None
        BY <2>3, <3>1, ClientAssumption
      <4> QED
        BY <2>4, <4>1, <4>2 DEF OriginalsAfterSave
    <3>2. AsOpened'
      BY <1>1, <2>1, <3>1 DEF AsOpened, Held, server
    <3> QED
      BY <1>2, <1>3, <2>1, <2>4, <3>2, OpenedOver
  <2>5. ASSUME NEW s \in NextOf(sqlQueue), sqlQueue' = sqlQueue \ {s}, Send(s), UNCHANGED <<saving, originalRows>>
        PROVE  OpenedInv'
    <3>1. /\ asked' = <<s>> /\ asked' # <<>> /\ Head(asked') = s /\ mode' = "None" /\ ~savingStructure'
          /\ s \in sqlQueue /\ s.op \in {"DELETE", "INSERT"}
          /\ s.op = "DELETE" \/ \A other \in sqlQueue : other.op # "DELETE"
      BY <1>1, <1>2, <2>5, OneStatement DEF Send, NextOf, ClientInv, WindowInv, request
    <3>2. NamesInv' /\ OpenInv' /\ StructureInv'
      BY <1>2, <1>3, <2>1, <3>1 DEF NamesInv, OpenInv, StructureInv
    <3>3. SaveUnderWay'
      BY <1>2, <3>1 DEF SaveUnderWay, Quiet
    <3>4. ASSUME exact PROVE Covered(sqlQueue \cup {s})'
      <4>1. sqlQueue' \cup {s} = sqlQueue
        BY <2>5, <3>1
      <4>2. Covered(sqlQueue)
        BY <2>3, <3>4
      <4>3. UNCHANGED <<contents, currentDatabase, currentTable, grid>>
        BY <1>1, <2>1 DEF server
      <4> HIDE DEF NextOf
      <4> QED
        BY <4>1, <4>2, <4>3 DEF Covered, Deletes, Held, InsertSql
    <3>5. SaveInv'
      <4> SUFFICES ASSUME exact' PROVE SaveInv'
        BY DEF SaveInv
      <4>1. /\ saving' /\ currentDatabase' \in Databases /\ currentTable' \in Tables
            /\ grid' \in SUBSET Rows /\ Held' \in SUBSET Rows /\ currentDB' = currentDatabase'
            /\ \A x \in sqlQueue' \cup {s} : x.name = currentTable'
        BY <1>1, <2>1, <2>3, <2>5, <3>1 DEF Held, server
      <4>2. s.op = "INSERT" => \A x \in sqlQueue' : x.op # "DELETE"
        BY <2>5, <3>1
      <4>3. Covered(sqlQueue \cup {Head(asked)})'
        BY <2>1, <3>1, <3>4 DEF Covered, Deletes
      <4> QED
        BY <1>2, <3>1, <4>1, <4>2, <4>3 DEF SaveInv
    <3> QED
      BY <3>2, <3>3, <3>5 DEF OpenedInv, UntouchedInv
  <2> QED
    BY <2>1, <2>4, <2>5 DEF ExecuteNextQueuedSql
<1> QED
  BY <1>5, <1>6, <1>7

\* What the user does when nothing is under way, and to the grid at any time.
LEMMA OpenedUser == ClientInv /\ OpenedInv /\ UserStep => OpenedInv'
<1> SUFFICES ASSUME ClientInv, OpenedInv, UserStep PROVE OpenedInv'
  OBVIOUS
<1>1. /\ currentDatabase \in Databases \cup {None} /\ currentTable \in Tables \cup {None}
      /\ pendingDatabase \in Databases \cup {None} /\ pendingTable \in Tables \cup {None}
  BY DEF OpenedInv, NamesInv
<1>2. ASSUME Quiet PROVE AsOpened
  BY <1>2, OpenedCalm DEF SaveUnderWay, TableGone, Quiet
<1>3. ASSUME Ready PROVE asked = <<>> /\ answer = <<>> /\ mode = "None" /\ AsOpened
  BY <1>2, <1>3 DEF Ready, Quiet, ClientInv, ModeInv
<1>4. CASE OnNewConnection
  <2>1. /\ asked' = <<Plain("LOGIN")>> /\ answer' = <<>> /\ exact' = (exact /\ Quiet)
        /\ UNCHANGED <<server, shown, request>>
    BY <1>4 DEF OnNewConnection, ConnectToServer
  <2>2. AsOpened'
    BY <1>2, <2>1, OpenedStays DEF AsOpened, shown, server
  <2> QED
    BY <1>1, <2>1, <2>2, OpenedSent DEF Plain, Statement, shown, request
<1>5. ASSUME NEW m, NEW d \in Databases \cup {None}, NEW t \in Tables \cup {None},
             Ready, answer' = answer, UNCHANGED <<server, originalRows, exact>>,
             Request(m, d, t), m \in UseModes \cup {"LoadTablesUseDatabase", "OpenTableUseDatabase"},
             \/ UNCHANGED <<currentDatabase, currentTable>>
             \/ currentDatabase' \in Databases /\ currentTable' = None
      PROVE  OpenedInv'
  <2>1. asked' = <<Use(d)>> /\ answer' = <<>> /\ mode' = m /\ pendingDatabase' = d /\ pendingTable' = t
    BY <1>3, <1>5, OneStatement DEF Request, Send
  <2>2. AsOpened'
    BY <1>3, <1>5, OpenedStays DEF AsOpened, server
  <2> QED
    BY <1>1, <1>5, <2>1, <2>2, OpenedSent DEF Use, Statement, UseModes
<1>6. ASSUME NEW d \in Databases, OnDatabaseClicked(d) PROVE OpenedInv'
  BY <1>5, <1>6 DEF OnDatabaseClicked, RequestTables
<1>7. ASSUME NEW d \in Databases, NEW t \in Tables, OnTableClicked(d, t) PROVE OpenedInv'
  BY <1>5, <1>7 DEF OnTableClicked, OpenTable, shown
<1>8. CASE OnRefresh
  <2>1. Ready /\ answer' = answer /\ UNCHANGED <<server, shown, exact>>
    BY <1>8 DEF OnRefresh
  <2>2. CASE Request("OpenTableUseDatabase", currentDatabase, currentTable)
    BY <1>1, <1>5, <2>1, <2>2 DEF shown
  <2>3. CASE LoadExplorer
    <3>1. /\ asked' = <<Plain("SHOW DATABASES")>> /\ answer' = <<>> /\ mode' = "LoadDatabases"
          /\ pendingDatabase' = None /\ pendingTable' = None
      BY <1>3, <2>1, <2>3, OneStatement DEF LoadExplorer, Send, ClearPending
    <3>2. AsOpened'
      BY <1>3, <2>1, OpenedStays DEF shown, server
    <3> QED
      BY <1>1, <2>1, <3>1, <3>2, OpenedSent DEF shown
  <2> QED
    BY <1>8, <2>2, <2>3 DEF OnRefresh, OpenTable
<1>9. ASSUME NEW m \in {"CreateDatabase", "DeleteDatabase"}, NEW op, NEW d \in Databases \cup {None},
             ChangeDatabase(m, op, d)
      PROVE  OpenedInv'
  <2>1. /\ Ready /\ answer' = answer /\ UNCHANGED <<server, shown, exact>>
        /\ mode' = m /\ pendingDatabase' = d /\ pendingTable' = None /\ Send(Statement(op, d, None))
    BY <1>9 DEF ChangeDatabase
  <2>2. asked' = <<Statement(op, d, None)>> /\ answer' = <<>>
    BY <1>3, <2>1, OneStatement DEF Send
  <2>3. AsOpened'
    BY <1>3, <2>1, OpenedStays DEF shown, server
  <2> QED
    BY <1>1, <2>1, <2>2, <2>3, OpenedSent DEF shown
<1>10. CASE \/ OnDeleteDatabase
            \/ \E d \in Databases : OnCreateDatabase(d)
  BY <1>1, <1>9, <1>10 DEF OnDeleteDatabase, OnCreateDatabase
<1>11. CASE \/ OnDeleteTable
            \/ \E t \in Tables : OnCreateTable(t)
  BY <1>1, <1>5, <1>11 DEF OnDeleteTable, OnCreateTable, shown, UseModes
<1>12. ASSUME NEW g, Edit(g) PROVE OpenedInv'
  <2>1. /\ exact' = (exact /\ (Quiet \/ ~saving))
        /\ UNCHANGED <<server, wire, request, saves, currentDatabase, currentTable, originalRows>>
    BY <1>12 DEF Edit
  <2>2. NamesInv' /\ OpenInv' /\ StructureInv'
    BY <2>1, ZenonT(60) DEF OpenedInv, NamesInv, OpenInv, StructureInv, Arrived, server, wire, request, saves
  <2>3. (SaveUnderWay' <=> SaveUnderWay) /\ (TableGone' <=> TableGone)
    BY <2>1 DEF SaveUnderWay, TableGone, Quiet, Arrived, wire, request, saves
  <2>4. UntouchedInv'
    BY <2>1, <2>3, OpenedStays DEF OpenedInv, UntouchedInv, server
  <2>5. ~(exact' /\ SaveUnderWay')
    BY <2>1, <2>3 DEF OpenedInv, SaveInv, SaveUnderWay
  <2> QED
    BY <2>2, <2>4, <2>5 DEF OpenedInv, SaveInv
<1>13. ASSUME grid # None,
              NEW r \in Rows, OnAddRow(r) \/ OnDeleteRow(r) \/ \E new \in Rows : OnCellChanged(r, new)
       PROVE  OpenedInv'
  BY <1>12, <1>13 DEF OnAddRow, OnDeleteRow, OnCellChanged
<1>14. CASE OnSaveChanges
  <2>1. /\ Ready /\ answer' = answer /\ Send(Use(currentDatabase))
        /\ UNCHANGED <<server, request, shown, savingStructure>> /\ saving'
        /\ exact' = (exact /\ \A r \in originalRows \cup grid : Whole(r))
        /\ currentDatabase # None /\ currentTable # None /\ grid # None
        /\ sqlQueue' = {DeleteSql(r) : r \in originalRows} \cup {InsertSql(r) : r \in grid}
    BY <1>14 DEF OnSaveChanges
  <2>2. /\ asked' = <<Use(currentDatabase)>> /\ answer' = <<>> /\ mode' = "None"
        /\ asked' # <<>> /\ Head(asked') = Use(currentDatabase)
    BY <1>3, <2>1, OneStatement DEF Send, request
  <2>3. AsOpened /\ AsOpened'
    BY <1>3, <2>1, OpenedStays DEF shown, server
  <2>4. CASE savingStructure \/ ~exact'
    <3>1. AsOpened'
      BY <2>3
    <3> QED
      BY <1>1, <2>1, <2>2, <2>3, <2>4, OpenedSent DEF shown, request, Use, Statement
  <2>5. CASE ~savingStructure /\ exact'
    <3>1. Held = originalRows
      BY <2>1, <2>3, <2>5 DEF AsOpened
    <3>2. grid \in SUBSET Rows /\ originalRows \in SUBSET Rows
      BY <2>1 DEF ClientInv, WindowInv
    <3>3. UNCHANGED <<contents, currentDB, currentDatabase, currentTable, originalRows, grid>>
      BY <2>1 DEF server, shown
    <3>4. \A s \in sqlQueue' : s.name = currentTable
      BY <2>1 DEF DeleteSql, InsertSql, Statement
    <3>5. Covered(sqlQueue)'
      <4>1. \A r \in originalRows : DeleteSql(r) \in sqlQueue' /\ DeleteSql(r).op = "DELETE" /\ DeleteSql(r).row = r
        BY <2>1 DEF DeleteSql, Statement
      <4>2. \A r \in grid : InsertSql(r) \in sqlQueue'
        BY <2>1
      <4>3. \A s \in sqlQueue' : Whole(s.row) /\ (s.op = "INSERT" => s.row \in grid)
        <5>1. \A r \in originalRows : Whole(r) /\ DeleteSql(r).row = r /\ DeleteSql(r).op = "DELETE"
          BY <2>1, <2>5 DEF DeleteSql, Statement
        <5>2. \A r \in grid : Whole(r) /\ InsertSql(r).row = r
          BY <2>1, <2>5 DEF InsertSql, Statement
        <5> QED
          BY <2>1, <5>1, <5>2
      <4>4. Held' = originalRows /\ grid' = grid /\ \A r : InsertSql(r)' = InsertSql(r)
        BY <3>1, <3>3 DEF Held, InsertSql
      <4> QED
        BY <4>1, <4>2, <4>3, <4>4 DEF Covered, Deletes
    <3>6. SaveInv'
      BY <1>1, <2>1, <2>2, <3>1, <3>2, <3>3, <3>4, <3>5 DEF SaveInv, Held, Use, Statement
    <3>7. SaveUnderWay'
      BY <2>1, <2>2, <2>5 DEF SaveUnderWay, Quiet, Use, Statement
    <3>8. NamesInv' /\ OpenInv' /\ StructureInv'
      BY <1>1, <2>1, <2>2, <2>5, <3>3 DEF NamesInv, OpenInv, StructureInv, request
    <3> QED
      BY <3>6, <3>7, <3>8 DEF OpenedInv, UntouchedInv
  <2> QED
    BY <2>4, <2>5
<1>15. ASSUME NEW n \in 1..MaxAlters, OnSaveStructure(n) PROVE OpenedInv'
  <2>1. /\ Ready /\ answer' = answer /\ Send(Use(currentDatabase))
        /\ UNCHANGED <<server, request, shown, exact>> /\ savingStructure'
    BY <1>15 DEF OnSaveStructure
  <2>2. asked' = <<Use(currentDatabase)>> /\ answer' = <<>> /\ mode' = "None"
    BY <1>3, <2>1, OneStatement DEF Send, request
  <2>3. AsOpened'
    BY <1>3, <2>1, OpenedStays DEF shown, server
  <2> QED
    BY <1>1, <2>1, <2>2, <2>3, OpenedSent DEF shown, request, Use, Statement
<1>16. ASSUME NEW s, OnExecuteSql(s) PROVE OpenedInv'
  <2>1. /\ Ready /\ answer' = answer /\ Send(s) /\ exact' = FALSE /\ UNCHANGED <<request, shown>>
    BY <1>16 DEF OnExecuteSql
  <2>2. asked' = <<s>> /\ answer' = <<>> /\ mode' = "None"
    BY <1>3, <2>1, OneStatement DEF Send, request
  <2> QED
    BY <1>1, <2>1, <2>2, OpenedSent DEF AsOpened, shown, request
<1> QED
  BY <1>4, <1>6, <1>7, <1>8, <1>10, <1>11, <1>13, <1>14, <1>15, <1>16 DEF UserStep

\* What a statement that succeeds does to the rows of a table.
LEMMA EffectOnRows ==
  ASSUME RowsInv, NEW s, CanDo(s), Effect(s), NEW d \in Databases, NEW t \in Tables
  PROVE  /\ s.op = "INSERT" => contents'[d][t] = IF currentDB = d /\ s.name = t THEN contents[d][t] \cup {Kept[s.row]}
                                                 ELSE contents[d][t]
         /\ s.op = "DELETE" => contents'[d][t] = IF currentDB = d /\ s.name = t
                                                 THEN {r \in contents[d][t] : r[1] \in Found => r[1] # s.row[1]}
                                                 ELSE contents[d][t]
         /\ s.op \notin {"INSERT", "DELETE", "ALTER"} =>
              \/ contents'[d][t] = contents[d][t]
              \/ s.op = "CREATE TABLE" /\ contents[d][t] = None
              \/ s.op = "DROP TABLE"
              \/ s.op = "DROP DATABASE" /\ s.name = d
<1>1. contents \in [Databases -> [Tables -> (SUBSET Rows) \cup {None}]] /\ currentDB \in Databases \cup {None}
  BY DEF RowsInv
<1>2. ASSUME NEW rows, contents' = [contents EXCEPT ![currentDB][s.name] = rows]
      PROVE  contents'[d][t] = IF currentDB = d /\ s.name = t THEN rows ELSE contents[d][t]
  BY <1>1, <1>2
<1>3. CASE s.op = "INSERT"
  <2>1. contents' = [contents EXCEPT ![currentDB][s.name] = TableRows(s.name) \cup {Kept[s.row]}]
    BY <1>3 DEF Effect, Become
  <2>2. contents'[d][t] = IF currentDB = d /\ s.name = t THEN TableRows(s.name) \cup {Kept[s.row]} ELSE contents[d][t]
    BY <1>2, <2>1
  <2> QED
    BY <1>3, <2>2 DEF TableRows
<1>4. CASE s.op = "DELETE"
  <2>1. contents' = [contents EXCEPT ![currentDB][s.name] = {r \in TableRows(s.name) : r[1] \in Found => r[1] # s.row[1]}]
    BY <1>4 DEF Effect, Become
  <2>2. contents'[d][t] = IF currentDB = d /\ s.name = t THEN {r \in TableRows(s.name) : r[1] \in Found => r[1] # s.row[1]}
                          ELSE contents[d][t]
    BY <1>2, <2>1
  <2> QED
    BY <1>4, <2>2 DEF TableRows
<1>5. CASE s.op = "CREATE TABLE"
  <2>1. contents' = [contents EXCEPT ![currentDB][s.name] = {}] /\ ~HasTable(s.name) /\ currentDB # None
    BY <1>5 DEF Effect, Become, CanDo
  <2>2. contents'[d][t] = IF currentDB = d /\ s.name = t THEN {} ELSE contents[d][t]
    BY <1>2, <2>1
  <2> QED
    BY <1>5, <2>1, <2>2 DEF HasTable
<1>6. CASE s.op = "DROP TABLE"
  BY <1>6
<1>7. CASE s.op = "ALTER"
  BY <1>7
<1>8. CASE s.op = "DROP DATABASE"
  <2>1. contents' = [contents EXCEPT ![s.name] = [u \in Tables |-> None]]
    BY <1>8 DEF Effect
  <2> QED
    BY <1>1, <1>8, <2>1
<1>9. CASE s.op \notin {"CREATE TABLE", "DROP TABLE", "INSERT", "DELETE", "ALTER", "DROP DATABASE"}
  <2>1. contents' = contents
    BY <1>9 DEF Effect
  <2> QED
    BY <1>9, <2>1
<1> QED
  BY <1>3, <1>4, <1>5, <1>6, <1>7, <1>8, <1>9

\* The server carries out a statement of a save.
LEMMA SaveServed ==
  ASSUME ClientInv, OpenedInv, exact, SaveUnderWay, asked # <<>>,
         CanDo(Head(asked)), Effect(Head(asked)),
         UNCHANGED <<currentDatabase, currentTable, grid, sqlQueue>>
  PROVE  /\ Held' \in SUBSET Rows
         /\ currentDB' = currentDatabase
         /\ Covered(sqlQueue)'
<1> DEFINE s == Head(asked)
<1>1. /\ currentDatabase \in Databases /\ currentTable \in Tables
      /\ grid \in SUBSET Rows /\ Held \in SUBSET Rows
      /\ \/ /\ s.op = "USE" /\ s.name = currentDatabase
            /\ Covered(sqlQueue)
         \/ /\ s.op \in {"DELETE", "INSERT"} /\ s.name = currentTable
            /\ currentDB = currentDatabase
            /\ s.op = "INSERT" => \A x \in sqlQueue : x.op # "DELETE"
            /\ Covered(sqlQueue \cup {s})
  BY DEF OpenedInv, SaveInv
<1>2. CanDo(s) /\ Effect(s) /\ RowsInv
  BY DEF ClientInv
<1>3. Held' = contents'[currentDatabase][currentTable]
  BY DEF Held
<1>4. Covered(sqlQueue)' <=>
        /\ \A r \in Held' : (Deletes(sqlQueue) = {} /\ r \in grid) \/ \E x \in Deletes(sqlQueue) : x.row[1] = r[1]
        /\ \A r \in grid : (Deletes(sqlQueue) = {} /\ r \in Held') \/ InsertSql(r) \in sqlQueue
        /\ \A x \in sqlQueue : Whole(x.row) /\ (x.op = "INSERT" => x.row \in grid)
  BY DEF Covered, Deletes, InsertSql
<1> HIDE DEF s
<1>5. CASE s.op = "USE" /\ s.name = currentDatabase /\ Covered(sqlQueue)
  <2>1. contents' = contents /\ currentDB' = currentDatabase
    BY <1>2, <1>5 DEF Effect
  <2>2. Held' = Held
    BY <1>3, <2>1 DEF Held
  <2> QED
    BY <1>1, <1>4, <1>5, <2>1, <2>2 DEF Covered
<1>6. CASE s.op = "DELETE" /\ s.name = currentTable /\ currentDB = currentDatabase /\ Covered(sqlQueue \cup {s})
  <2>1. Held' = {r \in Held : r[1] # s.row[1]} /\ currentDB' = currentDB
    <3>1. Held' = {r \in Held : r[1] \in Found => r[1] # s.row[1]} /\ currentDB' = currentDB
      BY <1>1, <1>2, <1>3, <1>6, EffectOnRows DEF Effect, Held
    <3>2. s.row[1] \in Found
      BY <1>6 DEF Covered, Whole
    <3> QED
      BY <3>1, <3>2
  <2>2. s \in Deletes(sqlQueue \cup {s}) /\ Deletes(sqlQueue \cup {s}) = Deletes(sqlQueue) \cup {s}
    BY <1>6 DEF Deletes
  <2>3. ASSUME NEW r \in Held' PROVE \E x \in Deletes(sqlQueue) : x.row[1] = r[1]
    BY <1>6, <2>1, <2>2, <2>3 DEF Covered
  <2>4. ASSUME NEW r \in grid PROVE InsertSql(r) \in sqlQueue
    <3>1. InsertSql(r) \in sqlQueue \cup {s} /\ InsertSql(r).op = "INSERT"
      BY <1>6, <2>2 DEF Covered, InsertSql, Statement
    <3> QED
      BY <1>6, <3>1
  <2> QED
    BY <1>1, <1>4, <1>6, <2>1, <2>3, <2>4 DEF Covered
<1>7. CASE /\ s.op = "INSERT" /\ s.name = currentTable /\ currentDB = currentDatabase
           /\ \A x \in sqlQueue : x.op # "DELETE"
           /\ Covered(sqlQueue \cup {s})
  <2>1. Held' = Held \cup {s.row} /\ currentDB' = currentDB
    <3>1. Held' = Held \cup {Kept[s.row]} /\ currentDB' = currentDB
      BY <1>1, <1>2, <1>3, <1>7, EffectOnRows DEF Effect, Held
    <3>2. Kept[s.row] = s.row
      BY <1>7 DEF Covered, Whole
    <3> QED
      BY <3>1, <3>2
  <2>2. Deletes(sqlQueue \cup {s}) = {} /\ Deletes(sqlQueue) = {}
    BY <1>7 DEF Deletes
  <2>3. s.row \in grid /\ s.row \in Rows
    BY <1>1, <1>7 DEF Covered
  <2>4. ASSUME NEW r \in grid PROVE r \in Held' \/ InsertSql(r) \in sqlQueue
    <3>1. r \in Held \/ InsertSql(r) \in sqlQueue \cup {s}
      BY <1>7 DEF Covered
    <3>2. InsertSql(r).row = r
      BY DEF InsertSql, Statement
    <3> QED
      BY <2>1, <3>1, <3>2
  <2>5. ASSUME NEW r \in Held' PROVE r \in grid
    BY <1>7, <2>1, <2>2, <2>3, <2>5 DEF Covered
  <2> QED
    BY <1>1, <1>4, <1>7, <2>1, <2>2, <2>3, <2>4, <2>5 DEF Covered
<1> QED
  BY <1>1, <1>5, <1>6, <1>7

\* The server runs or refuses a statement.
LEMMA OpenedServe == ClientInv /\ OpenedInv /\ Serve => OpenedInv'
<1> SUFFICES ASSUME ClientInv, OpenedInv, Serve PROVE OpenedInv'
  OBVIOUS
<1> DEFINE s == Head(asked)
<1>1. /\ asked # <<>> /\ asked = <<s>> /\ answer = <<>> /\ asked' = <<>>
      /\ UNCHANGED <<link, request, shown, saves, exact>>
  BY OneStatement DEF ClientInv, OneExchange, Serve
<1>2. PICK ok \in BOOLEAN : /\ answer' = Append(answer, Reply(s, ok))
                            /\ IF ok THEN CanDo(s) /\ Effect(s) ELSE UNCHANGED server
  BY DEF Serve
<1>3. Arrived' = Reply(s, ok) /\ answer' # <<>>
  BY <1>1, <1>2, OneStatement DEF Arrived
<1>4. /\ Arrived'.to = s /\ Arrived'.ok = ok
      /\ Arrived'.rows = (IF ok /\ s.op = "SELECT" THEN TableRows(s.name) ELSE None)
      /\ Arrived'.db = IF s.op = "LOGIN" THEN None ELSE currentDB'
  BY <1>3 DEF Reply
<1>5. /\ s.op = "INSERT" => s.row \in Rows
      /\ s.op = "CREATE DATABASE" => s.name \in Databases
      /\ RowsInv
  BY <1>1 DEF ClientInv, RowsInv
<1>6. ASSUME ok PROVE /\ CanDo(s) /\ Effect(s)
                      /\ s.op = "SELECT" => /\ s.name \in Tables /\ currentDB \in Databases
                                            /\ contents' = contents /\ currentDB' = currentDB
  BY <1>2, <1>5, <1>6 DEF CanDo, HasTable, RowsInv, Effect
<1>7. NamesInv'
  <2>1. currentDB' \in Databases \cup {None}
    BY <1>2, <1>5, <1>6, EffectOnTables DEF RowsInv, server
  <2> QED
    BY <1>1, <1>3, <1>4, <1>6, <2>1 DEF OpenedInv, NamesInv, request, shown
<1>8. OpenInv'
  <2> SUFFICES ASSUME ok, s.op # "LOGIN"
               PROVE  /\ mode = "OpenTableUseDatabase" => currentDB' = pendingDatabase
                      /\ mode = "OpenTableSelect" =>
                           /\ pendingDatabase \in Databases /\ pendingTable \in Tables
                           /\ Arrived'.rows = contents'[pendingDatabase][pendingTable]
    BY <1>1, <1>3, <1>4 DEF OpenInv, request
  <2>1. mode # "None" => s.op = Awaited(mode)
    BY <1>1 DEF ClientInv, ModeInv
  <2>2. ASSUME mode = "OpenTableUseDatabase" PROVE currentDB' = pendingDatabase
    <3>1. s.op = "USE" /\ s.name = pendingDatabase
      BY <1>1, <2>1, <2>2 DEF Awaited, OpenedInv, OpenInv
    <3> QED
      BY <1>6, <3>1 DEF Effect
  <2>3. ASSUME mode = "OpenTableSelect"
        PROVE  /\ pendingDatabase \in Databases /\ pendingTable \in Tables
               /\ Arrived'.rows = contents'[pendingDatabase][pendingTable]
    <3>1. s.op = "SELECT" /\ s.name = pendingTable /\ currentDB = pendingDatabase
      BY <1>1, <2>1, <2>3 DEF Awaited, OpenedInv, OpenInv
    <3> QED
      BY <1>4, <1>6, <3>1 DEF TableRows
  <2> QED
    BY <2>2, <2>3
<1>9. SaveUnderWay' <=> SaveUnderWay
  BY <1>1, <1>3, <1>4 DEF SaveUnderWay, Quiet, request, saves
<1>10. UntouchedInv'
  <2> SUFFICES ASSUME exact, currentDatabase # None, currentTable # None, ~SaveUnderWay, ~TableGone'
               PROVE  contents'[currentDatabase][currentTable] = originalRows
    BY <1>1, <1>9 DEF UntouchedInv, AsOpened, Held, shown
  <2>1. contents[currentDatabase][currentTable] = originalRows
    BY <1>1 DEF OpenedInv, UntouchedInv, TableGone, AsOpened, Held
  <2>2. CASE ~ok
    BY <1>2, <2>1, <2>2 DEF server
  <2>3. CASE ok
    <3>1. s.op = "DROP TABLE" => mode = "DeleteTableDrop"
      BY <1>1 DEF ClientInv, TargetInv
    <3>2. s.op = "DROP DATABASE" => mode = "DeleteDatabase" /\ s.name = pendingDatabase
      BY <1>1 DEF ClientInv, TargetInv
    <3>3. s.op \notin {"INSERT", "DELETE", "ALTER"}
      <4>1. CASE mode # "None"
        BY <1>1, <4>1 DEF ClientInv, ModeInv, Awaited
      <4>2. CASE mode = "None" /\ savingStructure
        BY <1>1, <4>2 DEF OpenedInv, StructureInv
      <4>3. CASE mode = "None" /\ ~savingStructure
        BY <1>1, <4>3 DEF SaveUnderWay, Quiet
      <4> QED
        BY <4>1, <4>2, <4>3
    <3>4. s.op # "DROP TABLE" /\ ~(s.op = "DROP DATABASE" /\ s.name = currentDatabase)
      BY <1>1, <1>3, <1>4, <2>3, <3>1, <3>2 DEF TableGone, request, shown
    <3>5. currentDatabase \in Databases /\ currentTable \in Tables /\ originalRows # None
      BY ClientAssumption DEF OpenedInv, NamesInv, ClientInv, WindowInv
    <3> HIDE DEF s
    <3> QED
      BY <1>5, <1>6, <2>1, <2>3, <3>3, <3>4, <3>5, EffectOnRows, ZenonT(60)
  <2> QED
    BY <2>2, <2>3
<1>11. SaveInv'
  <2> SUFFICES ASSUME exact, SaveUnderWay PROVE SaveInv'
    BY <1>1, <1>9 DEF SaveInv
  <2>1. /\ saving' /\ currentDatabase' \in Databases /\ currentTable' \in Tables
        /\ grid' \in SUBSET Rows /\ Held \in SUBSET Rows
        /\ \A x \in sqlQueue' : x.name = currentTable'
    BY <1>1 DEF OpenedInv, SaveInv, shown, saves
  <2>2. CASE ~ok
    <3>1. Held' \in SUBSET Rows
      BY <1>1, <1>2, <2>1, <2>2 DEF Held, server, shown
    <3> QED
      BY <1>1, <1>4, <2>1, <2>2, <3>1 DEF SaveInv
  <2>3. CASE ok
    <3>1. Held' \in SUBSET Rows /\ currentDB' = currentDatabase /\ Covered(sqlQueue)'
      BY <1>1, <1>6, <2>3, SaveServed DEF shown, saves
    <3> QED
      BY <1>1, <2>1, <3>1 DEF SaveInv, shown
  <2> QED
    BY <2>2, <2>3
<1>12. StructureInv'
  BY <1>1 DEF StructureInv
<1> QED
  BY <1>7, <1>8, <1>10, <1>11, <1>12 DEF OpenedInv

\* Every step keeps what is known of the table opened.
LEMMA OpenedStep == ClientInv /\ OpenedInv /\ [Next]_vars => OpenedInv'
<1> SUFFICES ASSUME ClientInv, OpenedInv, [Next]_vars PROVE OpenedInv'
  OBVIOUS
<1>1. CASE Serve
  BY <1>1, OpenedServe
<1>2. CASE OnDisconnected
  <2>1. /\ asked' = <<>> /\ answer' = <<>> /\ exact' = (exact /\ Quiet)
        /\ UNCHANGED <<server, shown, request>>
    BY <1>2 DEF OnDisconnected
  <2>2. Quiet => AsOpened
    BY OpenedCalm DEF SaveUnderWay, TableGone, Quiet
  <2>3. AsOpened'
    BY <2>1, <2>2, OpenedStays DEF AsOpened, shown, server
  <2> QED
    BY <2>1, <2>3, OpenedOver DEF OpenedInv, NamesInv, shown, request
<1>3. CASE OnResponse
  BY <1>3, OpenedRequests, OpenedStructure, OpenedSaves DEF OnResponse
<1>4. CASE UserStep
  BY <1>4, OpenedUser
<1>5. CASE UNCHANGED vars
  BY <1>5 DEF vars, server, wire, request, shown, saves, OpenedInv, NamesInv, OpenInv, SaveUnderWay, Held,
              AsOpened, TableGone, UntouchedInv, Covered, Deletes, InsertSql, SaveInv, StructureInv, Quiet,
              Arrived
<1> QED
  BY <1>1, <1>2, <1>3, <1>4, <1>5 DEF Next

\* Between saves, originalRows of MainWindow is what the server's table holds, as long as only saves
\* that went through, of rows that the server takes as they are, have touched the table since it was
\* opened: so the DELETEs of the next save are for the rows that are there, and what was saved is
\* what the grid showed.
THEOREM ClientOriginalsOnServer == Spec => []OriginalsOnServer
<1>1. Init => ClientInv /\ OpenedInv
  BY ClientInitInv, OpenedInitInv
<1>2. ClientInv /\ OpenedInv /\ [Next]_vars => ClientInv' /\ OpenedInv'
  BY ClientStep, OpenedStep
<1>3. OpenedInv => OriginalsOnServer
  BY DEF OpenedInv, UntouchedInv, SaveUnderWay, TableGone, AsOpened, Held, OriginalsOnServer, Quiet
<1> QED
  BY <1>1, <1>2, <1>3, PTL DEF Spec
=============================================================================
