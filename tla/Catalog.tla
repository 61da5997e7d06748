------------------------------- MODULE Catalog -------------------------------
(***************************************************************************)
(* The databases of the server: the registry file ruanko.db, one directory *)
(* for each database under data/, the current database, and the backups.   *)
(*                                                                         *)
(* CatalogManagerImpl, the executors of CREATE, DROP, USE, BACKUP and      *)
(* RESTORE DATABASE and DatabaseMaintenanceImpl.  Statements run one at a  *)
(* time.  Each action is one change on disk with the checks before it, so  *)
(* that the process can be killed between any two; removing or copying a   *)
(* directory goes entry by entry.  An entry stands for all the files of    *)
(* one table.                                                              *)
(***************************************************************************)
EXTENDS Naturals, Sequences

CONSTANTS
  Databases,     \* names users give to databases
  System,        \* the system database, "Ruanko"
  Tables,        \* table names
  Paths,         \* directories outside data/ that backups are written to
  None           \* no database

Names  == Databases \cup {System}
Places == Names \cup Paths

ASSUME NamesAssumption ==
  /\ System \notin Databases
  /\ None \notin Places
  /\ Paths \cap Names = {}

VARIABLES
  registry,      \* ruanko.db: the names of its blocks, in file order
  dirs,          \* which directories exist
  tables,        \* the tables whose files are in each directory
  currentDB,     \* the current database, None for the empty string
  pc,            \* what the server does next: "down", "idle" or a step of a statement
  db,            \* the database the running statement is about
  from,          \* BACKUP and RESTORE: the directory copied
  to,            \* the directory being deleted or copied to
  rest,          \* DROP DATABASE: blocks read before, not yet written back
  acked,         \* databases found or made, whose DROP has not begun (history)
  torn           \* directories a kill left half made, or not made (history)

disk    == <<registry, dirs, tables>>
local   == <<pc, db, from, to, rest>>
history == <<acked, torn>>
catVars == <<disk, currentDB, local, history>>

Elems(s) == {s[i] : i \in DOMAIN s}

Steps == {"down", "boot", "idle", "register", "delete", "clear", "rewrite", "wipe", "copy", "fill"}

CatInit ==
  /\ registry = <<>>
  /\ dirs = {}
  /\ tables = [p \in Places |-> {}]
  /\ currentDB = None
  /\ pc = "down"
  /\ db = System
  /\ from = System
  /\ to = System
  /\ rest = <<>>
  /\ acked = {}
  /\ torn = {}

\* The statement's variables are gone when it ends.
Leave(step) ==
  /\ pc' = step
  /\ db' = System
  /\ from' = System
  /\ to' = System
  /\ rest' = <<>>

Finish == Leave("idle")

-----------------------------------------------------------------------------
(***************************************************************************)
(* Start and kill.                                                         *)
(***************************************************************************)
AllDatabases == Elems(registry)

HasDatabase(n) == n \in AllDatabases

\* initSystem registers the system database if it is missing ...
RegisterSystem ==
  /\ ~HasDatabase(System)
  /\ registry' = Append(registry, System)
  /\ pc' = "boot"
  /\ to' = System
  /\ UNCHANGED <<dirs, tables, currentDB, db, from, rest, history>>

\* ... and then makes its directory; a registered one is taken to have it.
MakeSystem ==
  /\ pc = "boot"
  /\ dirs' = dirs \cup {System}
  /\ torn' = torn \ {System}
  /\ currentDB' = System
  /\ Finish
  /\ acked' = acked \cup {System}
  /\ UNCHANGED <<registry, tables>>

FindSystem ==
  /\ HasDatabase(System)
  /\ currentDB' = System
  /\ Finish
  /\ acked' = acked \cup {System}
  /\ UNCHANGED <<disk, torn>>

InitSystem == pc = "down" /\ (RegisterSystem \/ FindSystem)

\* The process is killed: what is on disk stays.
Killed ==
  /\ currentDB' = None
  /\ Leave("down")
  /\ acked' = IF pc = "rewrite" THEN acked \cap Elems(registry) ELSE acked
  /\ torn' = IF pc \in {"boot", "delete", "clear", "wipe", "copy", "fill"} THEN torn \cup {to} ELSE torn
  /\ UNCHANGED disk

Kill == pc # "down" /\ Killed

-----------------------------------------------------------------------------
(***************************************************************************)
(* CREATE DATABASE: the directory, which may exist already, then the block *)
(* in the registry.  The .tb and .log files of the database, written last, *)
(* are read by nobody.                                                     *)
(***************************************************************************)
\* Faulty: only the directory is looked for.
MayCreateByDirectory(n) == n \notin dirs

MayCreate(n) == ~HasDatabase(n)

CreateDatabase(n) ==
  /\ pc = "idle"
  /\ MayCreate(n)
  /\ dirs' = dirs \cup {n}
  /\ torn' = torn \ {n}
  /\ db' = n
  /\ pc' = "register"
  /\ UNCHANGED <<registry, tables, currentDB, from, to, rest, acked>>

RegisterDatabase ==
  /\ pc = "register"
  /\ registry' = Append(registry, db)
  /\ acked' = acked \cup {db}
  /\ Finish
  /\ UNCHANGED <<dirs, tables, currentDB, torn>>

-----------------------------------------------------------------------------
(***************************************************************************)
(* DROP DATABASE: the directory goes first; then the registry is emptied   *)
(* and the other blocks are appended one by one.                           *)
(***************************************************************************)
\* Faulty: the current database is left as it is.
CurrentKept(n) == currentDB

CurrentWithout(n) == IF currentDB = n THEN None ELSE currentDB

MayDrop(n) == n # System /\ HasDatabase(n)

DropDatabase(n) ==
  /\ pc = "idle"
  /\ MayDrop(n)
  /\ n \in dirs
  /\ currentDB' = CurrentWithout(n)
  /\ db' = n
  /\ to' = n
  /\ rest' = registry
  /\ acked' = acked \ {n}
  /\ pc' = "delete"
  /\ UNCHANGED <<disk, from, torn>>

\* A registered database whose directory is missing cannot be dropped.
DropDatabaseFails(n) ==
  /\ pc = "idle"
  /\ MayDrop(n)
  /\ n \notin dirs
  /\ currentDB' = CurrentWithout(n)
  /\ UNCHANGED <<disk, local, history>>

\* remove_all, for DROP DATABASE and for the target of a copy.
RemoveEntry(t) ==
  /\ pc \in {"delete", "wipe"}
  /\ t \in tables[to]
  /\ tables' = [tables EXCEPT ![to] = @ \ {t}]
  /\ UNCHANGED <<registry, dirs, currentDB, local, history>>

\* Faulty: the directory is taken out before it is empty.
RemoveDirectoryEarly ==
  /\ pc \in {"delete", "wipe"}
  /\ dirs' = dirs \ {to}
  /\ pc' = IF pc = "delete" THEN "clear" ELSE "copy"
  /\ UNCHANGED <<registry, tables, currentDB, db, from, to, rest, history>>

RemoveDirectory ==
  /\ pc \in {"delete", "wipe"}
  /\ tables[to] = {}
  /\ dirs' = dirs \ {to}
  /\ pc' = IF pc = "delete" THEN "clear" ELSE "copy"
  /\ UNCHANGED <<registry, tables, currentDB, db, from, to, rest, history>>

ClearRegistry ==
  /\ pc = "clear"
  /\ registry' = <<>>
  /\ pc' = "rewrite"
  /\ UNCHANGED <<dirs, tables, currentDB, db, from, to, rest, history>>

\* Faulty: the system database, which is always there, is left out too.
OthersButSystem(n) == n \notin {db, System}

\* Which of the old blocks are written back.
Others(n) == n # db

RewriteRegistry ==
  /\ pc = "rewrite"
  /\ rest # <<>>
  /\ registry' = IF Others(Head(rest)) THEN Append(registry, Head(rest)) ELSE registry
  /\ rest' = Tail(rest)
  /\ UNCHANGED <<dirs, tables, currentDB, pc, db, from, to, history>>

DropDone ==
  /\ pc = "rewrite"
  /\ rest = <<>>
  /\ Finish
  /\ UNCHANGED <<disk, currentDB, history>>

-----------------------------------------------------------------------------
(***************************************************************************)
(* BACKUP DATABASE n TO p and RESTORE DATABASE n FROM p: the target is     *)
(* removed and the source copied.  Only BACKUP asks for a registered       *)
(* database; RESTORE registers nothing.                                    *)
(***************************************************************************)
\* Faulty: the target is not removed, and what it holds stays.
CopyOver(source, target) ==
  /\ pc = "idle"
  /\ source \in dirs
  /\ from' = source
  /\ to' = target
  /\ pc' = "copy"
  /\ UNCHANGED <<disk, currentDB, db, rest, history>>

Copy(source, target) ==
  /\ pc = "idle"
  /\ source \in dirs
  /\ from' = source
  /\ to' = target
  /\ pc' = IF target \in dirs THEN "wipe" ELSE "copy"
  /\ UNCHANGED <<disk, currentDB, db, rest, history>>

BackupDatabase(n, p)  == HasDatabase(n) /\ Copy(n, p)
RestoreDatabase(n, p) == Copy(p, n)

MakeTarget ==
  /\ pc = "copy"
  /\ dirs' = dirs \cup {to}
  /\ pc' = "fill"
  /\ UNCHANGED <<registry, tables, currentDB, db, from, to, rest, history>>

CopyEntry(t) ==
  /\ pc = "fill"
  /\ t \in tables[from] \ tables[to]
  /\ tables' = [tables EXCEPT ![to] = @ \cup {t}]
  /\ UNCHANGED <<registry, dirs, currentDB, local, history>>

CopyDone ==
  /\ pc = "fill"
  /\ tables[from] \subseteq tables[to]
  /\ torn' = torn \ {to}
  /\ Finish
  /\ UNCHANGED <<disk, currentDB, acked>>

-----------------------------------------------------------------------------
(***************************************************************************)
(* USE asks for the directory, not for the registry.  CREATE and DROP      *)
(* TABLE work in the current database, whichever that is.                  *)
(***************************************************************************)
UseDatabase(n) ==
  /\ pc = "idle"
  /\ n \in dirs
  /\ currentDB' = n
  /\ UNCHANGED <<disk, local, history>>

HasTable(t) == currentDB # None /\ t \in tables[currentDB]

\* CREATE TABLE makes the directory if it is missing.
CreateTable(t) ==
  /\ pc = "idle"
  /\ currentDB # None
  /\ ~HasTable(t)
  /\ dirs' = dirs \cup {currentDB}
  /\ tables' = [tables EXCEPT ![currentDB] = @ \cup {t}]
  /\ UNCHANGED <<registry, currentDB, local, history>>

DropTable(t) ==
  /\ pc = "idle"
  /\ HasTable(t)
  /\ tables' = [tables EXCEPT ![currentDB] = @ \ {t}]
  /\ UNCHANGED <<registry, dirs, currentDB, local, history>>

\* The steps of a statement that has begun.
Continue ==
  \/ MakeSystem
  \/ RegisterDatabase
  \/ \E t \in Tables : RemoveEntry(t) \/ CopyEntry(t)
  \/ RemoveDirectory
  \/ ClearRegistry \/ RewriteRegistry \/ DropDone
  \/ MakeTarget \/ CopyDone

CatNext ==
  \/ InitSystem
  \/ Kill
  \/ Continue
  \/ \E n \in Names : CreateDatabase(n) \/ DropDatabase(n) \/ DropDatabaseFails(n) \/ UseDatabase(n)
  \/ \E n \in Names, p \in Paths : BackupDatabase(n, p) \/ RestoreDatabase(n, p)
  \/ \E t \in Tables : CreateTable(t) \/ DropTable(t)

CatSpec == CatInit /\ [][CatNext]_catVars

-----------------------------------------------------------------------------
(***************************************************************************)
(* Properties.                                                             *)
(***************************************************************************)

\* The type invariant: a directory that does not exist holds nothing.
CatTypeOK ==
  /\ registry \in Seq(Names)
  /\ dirs \subseteq Places
  /\ tables \in [Places -> SUBSET Tables]
  /\ \A p \in Places \ dirs : tables[p] = {}
  /\ currentDB \in Names \cup {None}
  /\ pc \in Steps
  /\ db \in Names /\ from \in Places /\ to \in Places
  /\ rest \in Seq(Names)
  /\ acked \subseteq Names /\ torn \subseteq Places

\* No database has two blocks in the registry, whenever a statement is cut off:
\* dropDatabase writes all blocks of a name or none, and hasDatabase takes any.
NamesDistinct == \A i, j \in DOMAIN registry : registry[i] = registry[j] => i = j

\* A database whose CREATE succeeded, and the system database, stay registered until their own
\* DROP; only a kill while DROP DATABASE writes the registry back (CatalogManagerImpl::dropDatabase)
\* takes others along.
AcknowledgedKept == pc # "rewrite" => acked \subseteq Elems(registry)

\* Between statements, each registered database and the current one have their directory,
\* unless a kill cut off the statement that was making or removing that directory.
DirectoryKept ==
  pc = "idle" => \A n \in Elems(registry) \cup ({currentDB} \ {None}) : n \in dirs \/ n \in torn

\* A finished BACKUP or RESTORE leaves in the target what is in the source and nothing else:
\* no table that only the target had survives it, also if an earlier copy was cut off there.
CopiesExact ==
  [][pc = "fill" /\ pc' = "idle" => to \in dirs /\ tables[to] = tables[from]]_catVars
=============================================================================
