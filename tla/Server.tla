-------------------------------- MODULE Server --------------------------------
(***************************************************************************)
(* The server process: TcpServer and SqlService over the Catalog and the   *)
(* Accounts.                                                               *)
(*                                                                         *)
(* One thread runs the event loop.  When a socket has data, all the whole  *)
(* packets received on it are handled one after the other, and each        *)
(* statement runs to its end before the next packet is looked at.  What a  *)
(* packet asks for is chosen when it is handled: nobody sees it before.    *)
(* Of the statements, those that change neither the catalog nor the        *)
(* accounts are one, Query.                                                *)
(***************************************************************************)
EXTENDS Catalog, Accounts

CONSTANTS
  Sessions,      \* connections
  NoOne,         \* no user, no session
  MaxPackets     \* bound on the packets received and not yet handled, for each connection

ASSUME SessionsAssumption ==
  /\ NoOne \notin Users \cup Sessions
  /\ MaxPackets \in [Sessions -> Nat \ {0}]

VARIABLES
  listening,     \* start-up is over
  conn,          \* the connections in clients_
  user,          \* username of an authenticated connection, else NoOne
  packets,       \* how many whole packets are waiting in each connection
  serving,       \* the connection whose packets are being handled, or NoOne
  batch,         \* how many of them are left
  running        \* a statement of that connection is in progress

netVars == <<listening, conn, user, packets, serving, batch, running>>
vars    == <<catVars, accVars, netVars>>

Init ==
  /\ CatInit
  /\ AccInit
  /\ listening = FALSE
  /\ conn = {}
  /\ user = [s \in Sessions |-> NoOne]
  /\ packets = [s \in Sessions |-> 0]
  /\ serving = NoOne
  /\ batch = 0
  /\ running = FALSE

-----------------------------------------------------------------------------
(***************************************************************************)
(* The process: accounts first, then the catalog, then the socket.         *)
(***************************************************************************)
Boot ==
  /\ ~listening
  /\ UNCHANGED netVars
  /\ \/ (LoadUsers \/ WriteRecord \/ SaveDone) /\ UNCHANGED catVars
     \/ accPc = "idle" /\ (InitSystem \/ MakeSystem) /\ UNCHANGED accVars

Listen ==
  /\ ~listening
  /\ pc = "idle"
  /\ listening' = TRUE
  /\ UNCHANGED <<catVars, accVars, conn, user, packets, serving, batch, running>>

Crash ==
  /\ accPc # "down"
  /\ Killed
  /\ AccKilled
  /\ listening' = FALSE
  /\ conn' = {}
  /\ user' = [s \in Sessions |-> NoOne]
  /\ packets' = [s \in Sessions |-> 0]
  /\ serving' = NoOne
  /\ batch' = 0
  /\ running' = FALSE

-----------------------------------------------------------------------------
(***************************************************************************)
(* Connections.                                                            *)
(***************************************************************************)
Connect(s) ==
  /\ listening
  /\ serving = NoOne
  /\ s \notin conn
  /\ conn' = conn \cup {s}
  /\ user' = [user EXCEPT ![s] = NoOne]
  /\ UNCHANGED <<catVars, accVars, listening, packets, serving, batch, running>>

\* A packet arrives; this may happen while a statement runs.
Receive(s) ==
  /\ s \in conn
  /\ packets[s] < MaxPackets[s]
  /\ packets' = [packets EXCEPT ![s] = @ + 1]
  /\ UNCHANGED <<catVars, accVars, listening, conn, user, serving, batch, running>>

Forget(s) ==
  /\ conn' = conn \ {s}
  /\ user' = [user EXCEPT ![s] = NoOne]
  /\ packets' = [packets EXCEPT ![s] = 0]

Disconnect(s) ==
  /\ s \in conn
  /\ serving = NoOne
  /\ Forget(s)
  /\ UNCHANGED <<catVars, accVars, listening, serving, batch, running>>

\* onReadyRead: everything received so far is handled in one go.
ReadyRead(s) ==
  /\ serving = NoOne
  /\ s \in conn
  /\ packets[s] > 0
  /\ serving' = s
  /\ batch' = packets[s]
  /\ packets' = [packets EXCEPT ![s] = 0]
  /\ UNCHANGED <<catVars, accVars, listening, conn, user, running>>

-----------------------------------------------------------------------------
(***************************************************************************)
(* Packets.                                                                *)
(***************************************************************************)
Handling == serving # NoOne /\ batch > 0 /\ ~running

\* A reply is sent and the next packet taken; after the last one the loop is free.
Replied ==
  /\ batch' = batch - 1
  /\ serving' = IF batch = 1 THEN NoOne ELSE serving

\* Faulty: the loop is not left after the last packet.
RefusedAndHeld == batch' = batch - 1 /\ UNCHANGED serving

\* What is left to do after a packet that is answered with an error.
Refused == Replied

\* A line break ends the password in the packet: one that has it is never right.
Login(u) ==
  /\ Handling
  /\ users[u] # "absent" /\ Len(passwords[u]) = 1
  /\ user' = [user EXCEPT ![serving] = u]
  /\ Replied
  /\ UNCHANGED <<catVars, accVars, listening, conn, packets, running>>

\* A failed login, a statement before login or an unknown packet: an error is the reply,
\* and whoever was logged in still is.
BadPacket ==
  /\ Handling
  /\ Refused
  /\ UNCHANGED <<catVars, accVars, listening, conn, user, packets, running>>

\* A header that announces too much: the connection is closed, the rest of its data dropped.
TooLarge ==
  /\ Handling
  /\ Forget(serving)
  /\ serving' = NoOne
  /\ batch' = 0
  /\ UNCHANGED <<catVars, accVars, listening, running>>

AdminOnly ==
  {"CREATE TABLE", "DROP TABLE", "ALTER TABLE", "CREATE DATABASE", "DROP DATABASE", "BACKUP", "RESTORE",
   "CREATE USER", "DROP USER", "GRANT", "REVOKE"}

\* Faulty: GRANT is missing from the list.
IsAdminOnlyButGrant(kind) == kind \in AdminOnly \ {"GRANT"}

IsAdminOnly(kind) == kind \in AdminOnly

\* The role is looked up for every statement, by the name given at login.
Permitted(kind) == IsAdminOnly(kind) => GetRole(user[serving]) = "ADMIN"

Accepts(kind) ==
  /\ Handling
  /\ user[serving] # NoOne
  /\ Permitted(kind)

\* A statement that takes steps: its reply comes with the last.
Begin ==
  /\ running' = TRUE
  /\ UNCHANGED <<listening, conn, user, packets, serving, batch>>

\* A statement that is over at once.
Answer ==
  /\ Replied
  /\ UNCHANGED <<listening, conn, user, packets, running>>

\* A statement refused for its role, or by its executor, or cut short by an exception.
RefuseStatement ==
  /\ Handling
  /\ user[serving] # NoOne
  /\ Refused
  /\ UNCHANGED <<catVars, accVars, listening, conn, user, packets, running>>

CatalogStatement ==
  /\ \E n \in Names :
       \/ Accepts("CREATE DATABASE") /\ CreateDatabase(n) /\ Begin
       \/ Accepts("DROP DATABASE") /\ DropDatabase(n) /\ Begin
       \/ Accepts("DROP DATABASE") /\ DropDatabaseFails(n) /\ Answer
       \/ Accepts("USE") /\ UseDatabase(n) /\ Answer
       \/ \E p \in Paths :
            \/ Accepts("BACKUP") /\ BackupDatabase(n, p) /\ Begin
            \/ Accepts("RESTORE") /\ RestoreDatabase(n, p) /\ Begin
  /\ UNCHANGED accVars

TableStatement ==
  /\ \E t \in Tables :
       \/ Accepts("CREATE TABLE") /\ CreateTable(t) /\ Answer
       \/ Accepts("DROP TABLE") /\ DropTable(t) /\ Answer
  /\ UNCHANGED accVars

AccountStatement ==
  /\ \E u \in Users :
       \/ \E password \in Passwords : Accepts("CREATE USER") /\ CreateUser(u, password) /\ Begin
       \/ Accepts("DROP USER") /\ DropUser(u) /\ Begin
       \/ Accepts("REVOKE") /\ RevokeRole(u) /\ Begin
       \/ \E role \in Roles : Accepts("GRANT") /\ GrantRole(u, role) /\ Begin
  /\ UNCHANGED catVars

Query == Accepts("QUERY") /\ Answer /\ UNCHANGED <<catVars, accVars>>

StatementStep ==
  /\ running
  /\ UNCHANGED netVars
  /\ \/ Continue /\ UNCHANGED accVars
     \/ (WriteRecord \/ SaveDone) /\ UNCHANGED catVars

StatementEnd ==
  /\ running
  /\ pc = "idle" /\ accPc = "idle"
  /\ running' = FALSE
  /\ Replied
  /\ UNCHANGED <<catVars, accVars, listening, conn, user, packets>>

HandlePacket ==
  \/ \E u \in Users : Login(u)
  \/ BadPacket \/ TooLarge
  \/ RefuseStatement \/ CatalogStatement \/ TableStatement \/ AccountStatement \/ Query
  \/ StatementStep \/ StatementEnd

Next ==
  \/ Boot \/ Listen \/ Crash
  \/ \E s \in Sessions : Connect(s) \/ Receive(s) \/ Disconnect(s) \/ ReadyRead(s)
  \/ HandlePacket

\* The thread goes on with what it is doing; the event loop comes round to every socket with data.
Fairness ==
  /\ WF_vars(HandlePacket)
  /\ \A s \in Sessions : SF_vars(ReadyRead(s))

Spec == Init /\ [][Next]_vars /\ Fairness

-----------------------------------------------------------------------------
(***************************************************************************)
(* Properties.                                                             *)
(***************************************************************************)

\* The catalog and the accounts change only at start-up, by a kill, or by a statement of a
\* connection whose user is an administrator at that moment: a user dropped or demoted on another
\* connection after login can change nothing any more (SqlService::execute, TcpServer::handlePacket).
OnlyAdminsChange ==
  [][\/ accPc' = "down" \/ ~listening
     \/ UNCHANGED <<registry, dirs, tables, memory>>
     \/ serving # NoOne /\ GetRole(user[serving]) = "ADMIN"]_vars

\* Whatever the other connections send, the packets waiting on a connection are taken up,
\* unless it ends: no statement, refused packet or error keeps the loop for ever.
Answered == \A s \in Sessions : packets[s] > 0 ~> packets[s] = 0
=============================================================================
