---------------------------- MODULE Catalog_proofs ----------------------------
(***************************************************************************)
(* The registry and the directories, for any databases, tables, backups    *)
(* and kills: no name has two blocks, acknowledged databases stay, those   *)
(* registered keep their directory, and copies are exact.                  *)
(***************************************************************************)
EXTENDS Catalog, TLAPS

Distinct(s) == \A i, j \in DOMAIN s : s[i] = s[j] => i = j

RegTypeOK ==
  /\ registry \in Seq(Names)
  /\ rest \in Seq(Names)
  /\ db \in Names
  /\ acked \subseteq Names

\* While DROP DATABASE runs, the blocks it read are those in the registry, or the ones
\* not yet written back; the database dropped is acknowledged no more.
RegInv ==
  /\ RegTypeOK
  /\ Distinct(registry)
  /\ Distinct(rest)
  /\ pc = "boot" => System \in Elems(registry)
  /\ pc = "register" => db \notin Elems(registry)
  /\ pc \in {"delete", "clear"} => rest = registry
  /\ pc = "rewrite" => Elems(registry) \cap Elems(rest) = {}
  /\ pc \in {"delete", "clear", "rewrite"} => db \notin acked
  /\ pc # "rewrite" => acked \subseteq Elems(registry)
  /\ pc = "rewrite" => acked \subseteq Elems(registry) \cup Elems(rest)

-----------------------------------------------------------------------------
\* Appending to a file of blocks adds one name, and no second copy of it if it is new.
LEMMA AppendBlock ==
  ASSUME NEW S, NEW s \in Seq(S), NEW x \in S
  PROVE  /\ Append(s, x) \in Seq(S)
         /\ Elems(Append(s, x)) = Elems(s) \cup {x}
         /\ Distinct(s) /\ x \notin Elems(s) => Distinct(Append(s, x))
<1> DEFINE t == Append(s, x)
<1>1. /\ t \in Seq(S)
      /\ DOMAIN t = 1..(Len(s) + 1)
      /\ \A i \in 1..Len(s) : t[i] = s[i]
      /\ t[Len(s) + 1] = x
      /\ DOMAIN s = 1..Len(s)
      /\ Len(s) \in Nat
  OBVIOUS
<1> HIDE DEF t
<1>2. Elems(t) = Elems(s) \cup {x}
  <2>1. ASSUME NEW e \in Elems(t) PROVE e \in Elems(s) \cup {x}
    <3>1. PICK i \in DOMAIN t : e = t[i]
      BY <2>1 DEF Elems
    <3>2. CASE i \in 1..Len(s)
      BY <1>1, <3>1, <3>2 DEF Elems
    <3>3. CASE i = Len(s) + 1
      BY <1>1, <3>1, <3>3
    <3> QED
      BY <1>1, <3>1, <3>2, <3>3
  <2>2. ASSUME NEW e \in Elems(s) \cup {x} PROVE e \in Elems(t)
    <3>1. CASE e \in Elems(s)
      <4>1. PICK i \in 1..Len(s) : e = s[i]
        BY <1>1, <3>1 DEF Elems
      <4> QED
        BY <1>1, <4>1 DEF Elems
    <3>2. CASE e = x
      <4>1. Len(s) + 1 \in DOMAIN t
        BY <1>1
      <4> QED
        BY <1>1, <3>2, <4>1 DEF Elems
    <3> QED
      BY <2>2, <3>1, <3>2
  <2> QED
    BY <2>1, <2>2
<1>3. ASSUME Distinct(s), x \notin Elems(s) PROVE Distinct(t)
  BY <1>1, <1>3 DEF Distinct, Elems
<1> QED
  BY <1>1, <1>2, <1>3 DEF t

\* The first block of a file without copies is not among the others.
LEMMA FirstBlock ==
  ASSUME NEW S, NEW s \in Seq(S), s # <<>>, Distinct(s)
  PROVE  /\ Head(s) \in S
         /\ Tail(s) \in Seq(S)
         /\ Distinct(Tail(s))
         /\ Elems(s) = {Head(s)} \cup Elems(Tail(s))
         /\ Head(s) \notin Elems(Tail(s))
<1> DEFINE t == Tail(s)
<1>1. /\ t \in Seq(S)
      /\ Head(s) = s[1]
      /\ Len(s) \in Nat \ {0}
      /\ DOMAIN s = 1..Len(s)
      /\ DOMAIN t = 1..(Len(s) - 1)
      /\ \A i \in 1..(Len(s) - 1) : t[i] = s[i + 1]
      /\ Head(s) \in S
  OBVIOUS
<1> HIDE DEF t
<1>2. Distinct(t)
  <2> SUFFICES ASSUME NEW i \in DOMAIN t, NEW j \in DOMAIN t, t[i] = t[j] PROVE i = j
    BY DEF Distinct
  <2>1. i \in Nat /\ j \in Nat /\ i + 1 \in DOMAIN s /\ j + 1 \in DOMAIN s
    BY <1>1
  <2>2. s[i + 1] = s[j + 1]
    BY <1>1
  <2>3. i + 1 = j + 1
    BY <2>1, <2>2 DEF Distinct
  <2> QED
    BY <2>1, <2>3
<1>3. ASSUME NEW e \in Elems(t) PROVE e \in Elems(s) /\ e # Head(s)
  <2>1. PICK i \in 1..(Len(s) - 1) : e = s[i + 1]
    BY <1>1, <1>3 DEF Elems
  <2>2. i + 1 \in DOMAIN s /\ 1 \in DOMAIN s /\ i + 1 # 1
    BY <1>1
  <2> QED
    BY <1>1, <2>1, <2>2 DEF Elems, Distinct
<1>4. ASSUME NEW e \in Elems(s), e # Head(s) PROVE e \in Elems(t)
  <2>1. PICK i \in 1..Len(s) : e = s[i]
    BY <1>1, <1>4 DEF Elems
  <2>2. i - 1 \in 1..(Len(s) - 1) /\ i = (i - 1) + 1
    BY <1>1, <1>4, <2>1
  <2> QED
    BY <1>1, <2>1, <2>2 DEF Elems
<1>5. Head(s) \in Elems(s)
  BY <1>1 DEF Elems
<1> QED
  BY <1>1, <1>2, <1>3, <1>4, <1>5 DEF t

LEMMA EmptyFile == Elems(<<>>) = {} /\ Distinct(<<>>)
BY DEF Elems, Distinct

-----------------------------------------------------------------------------
LEMMA RegInit == CatInit => RegInv
<1> SUFFICES ASSUME CatInit PROVE RegInv
  OBVIOUS
<1>1. registry = <<>> /\ rest = <<>> /\ pc = "down" /\ acked = {} /\ db = System
  BY DEF CatInit
<1>2. <<>> \in Seq(Names) /\ System \in Names
  BY DEF Names
<1> QED
  BY <1>1, <1>2, EmptyFile DEF RegInv, RegTypeOK

\* A step that leaves the registry, the blocks read, the database and the history alone,
\* and does not enter a step the invariant speaks of.
LEMMA RegSame ==
  ASSUME RegInv, registry' = registry, rest' = rest, db' = db, acked' = acked,
         \/ pc' = pc
         \/ pc' \notin {"boot", "register", "delete", "clear", "rewrite"} /\ pc # "rewrite"
         \/ pc = "delete" /\ pc' = "clear"
  PROVE  RegInv'
BY DEF RegInv, RegTypeOK, Distinct, Elems

\* A statement that ends, or is killed, outside the rewriting of the registry.
LEMMA RegLeave ==
  ASSUME RegInv, registry' = registry, rest' = <<>>, db' \in Names,
         pc' \in {"down", "idle"},
         acked' \subseteq Names, acked' \subseteq Elems(registry)
  PROVE  RegInv'
<1>1. Distinct(rest') /\ rest' \in Seq(Names)
  BY EmptyFile
<1> QED
  BY <1>1 DEF RegInv, RegTypeOK, Distinct, Elems

\* Start-up appends the system database only to a registry without it.
LEMMA RegStart == RegInv /\ InitSystem => RegInv'
<1> SUFFICES ASSUME RegInv, InitSystem PROVE RegInv'
  OBVIOUS
<1>sys. System \in Names
  BY DEF Names
<1>1. CASE RegisterSystem
  <2>1. registry' = Append(registry, System) /\ System \notin Elems(registry)
    BY <1>1 DEF RegisterSystem, HasDatabase, AllDatabases
  <2>2. /\ registry' \in Seq(Names)
        /\ Elems(registry') = Elems(registry) \cup {System}
        /\ Distinct(registry')
    BY <1>sys, <2>1, AppendBlock DEF RegInv, RegTypeOK
  <2>3. pc = "down" /\ pc' = "boot" /\ UNCHANGED <<rest, db, acked>>
    BY <1>1 DEF InitSystem, RegisterSystem, history
  <2> QED
    BY <2>2, <2>3 DEF RegInv, RegTypeOK, Distinct, Elems
<1>2. CASE FindSystem
  <2>1. /\ pc = "down" /\ pc' = "idle"
        /\ registry' = registry /\ rest' = <<>> /\ db' = System
        /\ acked' = acked \cup {System} /\ System \in Elems(registry)
    BY <1>2 DEF InitSystem, FindSystem, Finish, Leave, disk, HasDatabase, AllDatabases
  <2>2. acked \subseteq Elems(registry) /\ acked' \subseteq Names
    BY <1>sys, <2>1 DEF RegInv, RegTypeOK
  <2> QED
    BY <1>sys, <2>1, <2>2, RegLeave
<1> QED
  BY <1>1, <1>2 DEF InitSystem

\* A kill while the registry is written back takes with it what was not written yet.
LEMMA RegKilled == RegInv /\ Killed => RegInv'
<1> SUFFICES ASSUME RegInv, Killed PROVE RegInv'
  OBVIOUS
<1>1. /\ registry' = registry /\ rest' = <<>> /\ db' = System /\ pc' = "down"
      /\ acked' = IF pc = "rewrite" THEN acked \cap Elems(registry) ELSE acked
  BY DEF Killed, Leave, disk
<1>2. acked' \subseteq Names /\ acked' \subseteq Elems(registry)
  BY <1>1 DEF RegInv, RegTypeOK
<1>3. System \in Names
  BY DEF Names
<1> QED
  BY <1>1, <1>2, <1>3, RegLeave

\* The steps of a statement under way.
LEMMA RegContinue == RegInv /\ Continue => RegInv'
<1> SUFFICES ASSUME RegInv, Continue PROVE RegInv'
  OBVIOUS
<1>sys. System \in Names
  BY DEF Names
<1>1. CASE MakeSystem
  <2>1. /\ pc = "boot" /\ pc' = "idle" /\ registry' = registry /\ rest' = <<>> /\ db' = System
        /\ acked' = acked \cup {System}
    BY <1>1 DEF MakeSystem, Finish, Leave
  <2>2. acked' \subseteq Names /\ acked' \subseteq Elems(registry)
    BY <1>sys, <2>1 DEF RegInv, RegTypeOK
  <2> QED
    BY <1>sys, <2>1, <2>2, RegLeave
<1>2. CASE RegisterDatabase
  <2>1. /\ pc = "register" /\ pc' = "idle" /\ rest' = <<>> /\ db' = System
        /\ registry' = Append(registry, db) /\ acked' = acked \cup {db}
        /\ db \in Names /\ db \notin Elems(registry)
    BY <1>2 DEF RegisterDatabase, Finish, Leave, RegInv, RegTypeOK
  <2>2. /\ registry' \in Seq(Names)
        /\ Elems(registry') = Elems(registry) \cup {db}
        /\ Distinct(registry')
    BY <2>1, AppendBlock DEF RegInv, RegTypeOK
  <2>3. Distinct(rest') /\ rest' \in Seq(Names)
    BY <2>1, EmptyFile
  <2>4. RegTypeOK'
    BY <1>sys, <2>1, <2>2, <2>3 DEF RegInv, RegTypeOK
  <2>5. acked' \subseteq Elems(registry')
    BY <2>1, <2>2 DEF RegInv
  <2>6. Distinct(registry)' /\ Distinct(rest)' /\ acked' \subseteq Elems(registry)'
    BY <2>2, <2>3, <2>5 DEF Elems, Distinct
  <2> QED
    BY <2>1, <2>4, <2>6 DEF RegInv
<1>3. CASE \E t \in Tables : RemoveEntry(t) \/ CopyEntry(t)
  <2>1. UNCHANGED <<registry, rest, db, acked, pc>>
    BY <1>3 DEF RemoveEntry, CopyEntry, local, history
  <2> QED
    BY <2>1, RegSame
<1>4. CASE RemoveDirectory
  <2>1. /\ UNCHANGED <<registry, rest, db, acked>>
        /\ \/ pc = "delete" /\ pc' = "clear"
           \/ pc = "wipe" /\ pc' = "copy"
    BY <1>4 DEF RemoveDirectory, history
  <2> QED
    BY <2>1, RegSame
<1>5. CASE ClearRegistry
  <2>1. /\ pc = "clear" /\ pc' = "rewrite" /\ registry' = <<>>
        /\ UNCHANGED <<rest, db, acked>>
    BY <1>5 DEF ClearRegistry, history
  <2>2. registry' \in Seq(Names) /\ Distinct(registry)' /\ Elems(registry)' = {}
    BY <2>1, EmptyFile DEF Elems, Distinct
  <2>3. acked \subseteq Elems(rest) /\ db \notin acked
    BY <2>1 DEF RegInv
  <2>4. Elems(rest)' = Elems(rest) /\ Distinct(rest)'
    BY <2>1 DEF Elems, RegInv, Distinct
  <2> QED
    BY <2>1, <2>2, <2>3, <2>4 DEF RegInv, RegTypeOK
<1>6. CASE RewriteRegistry
  <2>1. /\ pc = "rewrite" /\ pc' = "rewrite" /\ rest # <<>> /\ rest' = Tail(rest)
        /\ registry' = IF Head(rest) # db THEN Append(registry, Head(rest)) ELSE registry
        /\ UNCHANGED <<db, acked>>
    BY <1>6 DEF RewriteRegistry, Others, history
  <2>2. /\ rest \in Seq(Names) /\ registry \in Seq(Names)
        /\ Distinct(rest) /\ Distinct(registry)
        /\ Elems(registry) \cap Elems(rest) = {}
        /\ db \notin acked /\ acked \subseteq Elems(registry) \cup Elems(rest)
    BY <2>1 DEF RegInv, RegTypeOK
  <2>3. /\ Head(rest) \in Names
        /\ rest' \in Seq(Names)
        /\ Distinct(rest')
        /\ Elems(rest) = {Head(rest)} \cup Elems(rest')
        /\ Head(rest) \notin Elems(rest')
    BY <2>1, <2>2, FirstBlock
  <2>4. /\ registry' \in Seq(Names)
        /\ Distinct(registry')
        /\ Elems(registry') = Elems(registry) \cup (IF Head(rest) # db THEN {Head(rest)} ELSE {})
    <3>1. CASE Head(rest) # db
      <4>1. Head(rest) \notin Elems(registry)
        BY <2>2, <2>3
      <4> QED
        BY <2>1, <2>2, <2>3, <3>1, <4>1, AppendBlock
    <3>2. CASE Head(rest) = db
      BY <2>1, <2>2, <3>2
    <3> QED
      BY <3>1, <3>2
  <2>5. Elems(registry') \cap Elems(rest') = {}
    BY <2>2, <2>3, <2>4
  <2>6. acked' \subseteq Elems(registry') \cup Elems(rest')
    BY <2>1, <2>2, <2>3, <2>4
  <2>7. /\ Elems(registry)' = Elems(registry') /\ Elems(rest)' = Elems(rest')
        /\ Distinct(registry)' /\ Distinct(rest)'
    BY <2>3, <2>4 DEF Elems, Distinct
  <2> QED
    BY <2>1, <2>2, <2>3, <2>4, <2>5, <2>6, <2>7 DEF RegInv, RegTypeOK
<1>7. CASE DropDone
  <2>1. /\ pc = "rewrite" /\ pc' = "idle" /\ rest = <<>> /\ rest' = <<>> /\ db' = System
        /\ UNCHANGED <<registry, acked>>
    BY <1>7 DEF DropDone, Finish, Leave, disk, history
  <2>2. acked' \subseteq Names /\ acked' \subseteq Elems(registry)
    BY <2>1, EmptyFile DEF RegInv, RegTypeOK
  <2> QED
    BY <1>sys, <2>1, <2>2, RegLeave
<1>8. CASE MakeTarget
  <2>1. /\ UNCHANGED <<registry, rest, db, acked>>
        /\ pc = "copy" /\ pc' = "fill"
    BY <1>8 DEF MakeTarget, history
  <2> QED
    BY <2>1, RegSame
<1>9. CASE CopyDone
  <2>1. /\ pc = "fill" /\ pc' = "idle" /\ rest' = <<>> /\ db' = System
        /\ UNCHANGED <<registry, acked>>
    BY <1>9 DEF CopyDone, Finish, Leave, disk
  <2>2. acked' \subseteq Names /\ acked' \subseteq Elems(registry)
    BY <2>1 DEF RegInv, RegTypeOK
  <2> QED
    BY <1>sys, <2>1, <2>2, RegLeave
<1> QED
  BY <1>1, <1>2, <1>3, <1>4, <1>5, <1>6, <1>7, <1>8, <1>9 DEF Continue

LEMMA RegStep == RegInv /\ [CatNext]_catVars => RegInv'
<1> SUFFICES ASSUME RegInv, [CatNext]_catVars PROVE RegInv'
  OBVIOUS
<1>1. CASE InitSystem
  BY <1>1, RegStart
<1>2. CASE Kill
  BY <1>2, RegKilled DEF Kill
<1>3. CASE Continue
  BY <1>3, RegContinue
<1>4. ASSUME NEW n \in Names, CreateDatabase(n) PROVE RegInv'
  <2>1. /\ pc = "idle" /\ pc' = "register" /\ db' = n /\ n \notin Elems(registry)
        /\ UNCHANGED <<registry, rest, acked>>
    BY <1>4 DEF CreateDatabase, MayCreate, HasDatabase, AllDatabases
  <2> QED
    BY <2>1 DEF RegInv, RegTypeOK, Distinct, Elems
<1>5. ASSUME NEW n \in Names, DropDatabase(n) PROVE RegInv'
  <2>1. /\ pc = "idle" /\ pc' = "delete" /\ db' = n /\ rest' = registry
        /\ registry' = registry /\ acked' = acked \ {n}
    BY <1>5 DEF DropDatabase, disk
  <2> QED
    BY <2>1 DEF RegInv, RegTypeOK, Distinct, Elems
<1>6. ASSUME NEW n \in Names, NEW p \in Paths, BackupDatabase(n, p) \/ RestoreDatabase(n, p)
      PROVE  RegInv'
  <2>1. /\ UNCHANGED <<registry, rest, db, acked>>
        /\ pc = "idle" /\ pc' \in {"wipe", "copy"}
    BY <1>6 DEF BackupDatabase, RestoreDatabase, Copy, disk, history
  <2> QED
    BY <2>1, RegSame
<1>7. ASSUME NEW n \in Names, DropDatabaseFails(n) \/ UseDatabase(n) PROVE RegInv'
  <2>1. UNCHANGED <<registry, rest, db, acked, pc>>
    BY <1>7 DEF DropDatabaseFails, UseDatabase, disk, local, history
  <2> QED
    BY <2>1, RegSame
<1>8. ASSUME NEW t \in Tables, CreateTable(t) \/ DropTable(t) PROVE RegInv'
  <2>1. UNCHANGED <<registry, rest, db, acked, pc>>
    BY <1>8 DEF CreateTable, DropTable, local, history
  <2> QED
    BY <2>1, RegSame
<1>9. CASE UNCHANGED catVars
  <2>1. UNCHANGED <<registry, rest, db, acked, pc>>
    BY <1>9 DEF catVars, disk, local, history
  <2> QED
    BY <2>1, RegSame
<1> QED
  BY <1>1, <1>2, <1>3, <1>4, <1>5, <1>6, <1>7, <1>8, <1>9 DEF CatNext

LEMMA RegInvariant == CatSpec => []RegInv
BY RegInit, RegStep, PTL DEF CatSpec

-----------------------------------------------------------------------------
\* No name has two blocks in the registry (dropDatabase and registerDatabase
\* of CatalogManagerImpl), wherever statements are cut off.
THEOREM RegistryNamesDistinct == CatSpec => []NamesDistinct
<1>1. RegInv => NamesDistinct
  BY DEF RegInv, Distinct, NamesDistinct
<1> QED
  BY <1>1, RegInvariant, PTL

\* What CREATE DATABASE acknowledged stays registered until its own DROP, except for what a kill
\* within the writing back of the registry by dropDatabase takes along.
THEOREM RegistryKeepsAcknowledged == CatSpec => []AcknowledgedKept
<1>1. RegInv => AcknowledgedKept
  BY DEF RegInv, AcknowledgedKept
<1> QED
  BY <1>1, RegInvariant, PTL

-----------------------------------------------------------------------------
(***************************************************************************)
(* The directories.                                                        *)
(***************************************************************************)

\* The databases somebody counts on: those registered, those about to be registered again by
\* DROP DATABASE, and the current one.
Named ==
  Elems(registry) \cup (IF pc = "rewrite" THEN Elems(rest) ELSE {}) \cup ({currentDB} \ {None})

\* The database whose directory the running statement has removed or not made yet.
Away ==
  IF pc \in {"boot", "clear", "copy"} THEN {to} ELSE IF pc = "rewrite" THEN {db} ELSE {}

\* Every database counted on has its directory, or a kill cost it, or the running statement is
\* about it; a copy fills a new directory, with nothing the source has not.
DirInv ==
  /\ CatTypeOK
  /\ Named \ Away \subseteq dirs \cup torn
  /\ pc \in {"down", "boot"} => currentDB = None
  /\ pc = "boot" => to = System
  /\ pc \in {"delete", "clear"} => to = db
  /\ pc \in {"delete", "clear", "rewrite"} => currentDB # db
  /\ pc = "rewrite" => db \notin Elems(registry)
  /\ pc = "register" => db \in dirs
  /\ pc = "copy" => to \notin dirs
  /\ pc = "fill" => to \in dirs /\ tables[to] \subseteq tables[from]

LEMMA DirInit == CatInit => DirInv
<1> SUFFICES ASSUME CatInit PROVE DirInv
  OBVIOUS
<1>1. <<>> \in Seq(Names) /\ System \in Names /\ Elems(<<>>) = {}
  BY EmptyFile DEF Names
<1>2. registry = <<>> /\ rest = <<>> /\ pc = "down" /\ currentDB = None
  BY DEF CatInit
<1>3. CatTypeOK
  BY <1>1 DEF CatInit, CatTypeOK, Steps, Places
<1> QED
  BY <1>1, <1>2, <1>3 DEF DirInv, Named, Away

\* A statement that is over, or was killed, leaves its variables at their first values.
LEMMA DirLeave ==
  ASSUME DirInv, RegInv', Leave("idle") \/ Leave("down"), UNCHANGED tables,
         dirs \subseteq dirs', dirs' \subseteq Places, torn' \subseteq Places, acked' \subseteq Names,
         currentDB' \in Names \cup {None}, pc' = "down" => currentDB' = None,
         Elems(registry)' \cup ({currentDB'} \ {None}) \subseteq dirs' \cup torn'
  PROVE  DirInv'
<1>1. /\ pc' \in {"idle", "down"} /\ db' = System /\ from' = System /\ to' = System
      /\ System \in Names
  BY DEF Leave, Names
<1>2. CatTypeOK'
  BY <1>1 DEF CatTypeOK, DirInv, RegInv, RegTypeOK, Places, Steps
<1> QED
  BY <1>1, <1>2 DEF DirInv, Named, Away

\* Start-up registers the system database before it makes the directory.
LEMMA DirStart == RegInv /\ DirInv /\ InitSystem => DirInv'
<1> SUFFICES ASSUME RegInv, DirInv, InitSystem PROVE DirInv'
  OBVIOUS
<1>sys. System \in Names /\ RegInv' /\ CatTypeOK /\ registry \in Seq(Names)
  BY RegStart DEF Names, DirInv, CatTypeOK
<1>1. pc = "down" /\ currentDB = None /\ Elems(registry) \subseteq dirs \cup torn
  BY DEF InitSystem, DirInv, Named, Away
<1>2. CASE RegisterSystem
  <2>1. /\ pc' = "boot" /\ to' = System /\ registry' = Append(registry, System)
        /\ UNCHANGED <<dirs, tables, currentDB, db, from, rest, acked, torn>>
    BY <1>2 DEF RegisterSystem, history
  <2>2. Elems(registry') = Elems(registry) \cup {System}
    BY <1>sys, <2>1, AppendBlock
  <2>3. Elems(registry)' = Elems(registry) \cup {System}
    BY <2>2 DEF Elems
  <2>4. CatTypeOK'
    BY <1>sys, <2>1 DEF CatTypeOK, RegInv, RegTypeOK, Places, Steps
  <2> QED
    BY <1>1, <2>1, <2>3, <2>4 DEF DirInv, Named, Away
<1>3. CASE FindSystem
  <2>1. /\ UNCHANGED <<registry, dirs, tables, torn>> /\ Leave("idle") /\ pc' = "idle"
        /\ currentDB' = System /\ acked' = acked \cup {System} /\ System \in Elems(registry)
    BY <1>3 DEF FindSystem, Finish, Leave, disk, HasDatabase, AllDatabases
  <2>2. Elems(registry)' = Elems(registry)
    BY <2>1 DEF Elems
  <2>3. /\ dirs' \subseteq Places /\ torn' \subseteq Places /\ acked' \subseteq Names
        /\ Elems(registry)' \cup ({currentDB'} \ {None}) \subseteq dirs' \cup torn'
    BY <1>sys, <1>1, <2>1, <2>2 DEF CatTypeOK
  <2> QED
    BY <1>sys, <2>1, <2>3, DirLeave
<1> QED
  BY <1>2, <1>3 DEF InitSystem

\* Whatever a kill leaves without its directory is recorded as torn.
LEMMA DirKilled == RegInv /\ DirInv /\ Killed => DirInv'
<1> SUFFICES ASSUME RegInv, DirInv, Killed PROVE DirInv'
  OBVIOUS
<1>1. /\ UNCHANGED <<registry, dirs, tables>> /\ Leave("down") /\ pc' = "down" /\ currentDB' = None
      /\ acked' \subseteq acked
      /\ torn' = IF pc \in {"boot", "delete", "clear", "wipe", "copy", "fill"} THEN torn \cup {to} ELSE torn
  BY DEF Killed, Leave, disk
<1>2. Elems(registry)' = Elems(registry) /\ RegInv' /\ CatTypeOK
  BY <1>1, RegKilled DEF Elems, DirInv
<1>3. Elems(registry) \subseteq dirs \cup torn'
  <2>1. CASE pc = "rewrite"
    BY <1>1, <2>1 DEF DirInv, Named, Away
  <2>2. CASE pc # "rewrite"
    BY <1>1, <2>2 DEF DirInv, Named, Away
  <2> QED
    BY <2>1, <2>2
<1>4. dirs' \subseteq Places /\ torn' \subseteq Places /\ acked' \subseteq Names
  BY <1>1, <1>2 DEF CatTypeOK
<1> QED
  BY <1>1, <1>2, <1>3, <1>4, DirLeave

\* The steps of a statement under way.
LEMMA DirContinue == RegInv /\ DirInv /\ Continue => DirInv'
<1> SUFFICES ASSUME RegInv, DirInv, Continue PROVE DirInv'
  OBVIOUS
<1>a. System \in Names /\ RegInv' /\ RegTypeOK' /\ CatTypeOK /\ Names \subseteq Places
  BY RegContinue DEF Names, DirInv, Places, RegInv
<1>b. ASSUME UNCHANGED registry PROVE Elems(registry)' = Elems(registry)
  BY <1>b DEF Elems
<1>1. CASE MakeSystem
  <2>1. /\ pc = "boot" /\ UNCHANGED <<registry, tables>> /\ Leave("idle") /\ pc' = "idle"
        /\ dirs' = dirs \cup {System} /\ torn' = torn \ {System}
        /\ currentDB' = System /\ acked' = acked \cup {System}
    BY <1>1 DEF MakeSystem, Finish, Leave
  <2>2. Elems(registry)' \cup ({currentDB'} \ {None}) \subseteq dirs' \cup torn'
    BY <1>b, <2>1 DEF DirInv, Named, Away
  <2>3. dirs' \subseteq Places /\ torn' \subseteq Places /\ acked' \subseteq Names
    BY <1>a, <2>1 DEF CatTypeOK
  <2> QED
    BY <1>a, <2>1, <2>2, <2>3, DirLeave
<1>2. CASE RegisterDatabase
  <2>1. /\ pc = "register" /\ UNCHANGED <<dirs, tables, currentDB, torn>> /\ Leave("idle") /\ pc' = "idle"
        /\ registry' = Append(registry, db) /\ acked' = acked \cup {db}
    BY <1>2 DEF RegisterDatabase, Finish, Leave
  <2>2. Elems(registry)' = Elems(registry) \cup {db}
    <3>1. Elems(registry') = Elems(registry) \cup {db}
      BY <2>1, AppendBlock DEF RegInv, RegTypeOK
    <3> QED
      BY <3>1 DEF Elems
  <2>3. Elems(registry)' \cup ({currentDB'} \ {None}) \subseteq dirs' \cup torn'
    BY <2>1, <2>2 DEF DirInv, Named, Away
  <2>4. dirs' \subseteq Places /\ torn' \subseteq Places /\ acked' \subseteq Names
        /\ currentDB' \in Names \cup {None}
    BY <1>a, <2>1 DEF CatTypeOK
  <2> QED
    BY <1>a, <2>1, <2>3, <2>4, DirLeave
<1>3. ASSUME NEW t \in Tables, RemoveEntry(t) PROVE DirInv'
  <2>1. /\ pc \in {"delete", "wipe"} /\ tables' = [tables EXCEPT ![to] = tables[to] \ {t}]
        /\ UNCHANGED <<registry, dirs, currentDB, pc, db, from, to, rest, acked, torn>>
    BY <1>3 DEF RemoveEntry, local, history
  <2>2. CatTypeOK'
    BY <1>a, <2>1 DEF CatTypeOK
  <2> QED
    BY <1>b, <2>1, <2>2 DEF DirInv, Named, Away
<1>4. ASSUME NEW t \in Tables, CopyEntry(t) PROVE DirInv'
  <2>1. /\ pc = "fill" /\ tables' = [tables EXCEPT ![to] = tables[to] \cup {t}] /\ t \in tables[from]
        /\ UNCHANGED <<registry, dirs, currentDB, pc, db, from, to, rest, acked, torn>>
    BY <1>4 DEF CopyEntry, local, history
  <2>2. CatTypeOK'
    BY <1>a, <2>1 DEF CatTypeOK, DirInv
  <2>3. tables'[to] \subseteq tables'[from]
    BY <2>1 DEF CatTypeOK, DirInv
  <2> QED
    BY <1>b, <2>1, <2>2, <2>3 DEF DirInv, Named, Away
<1>5. CASE RemoveDirectory
  <2>1. /\ pc \in {"delete", "wipe"} /\ tables[to] = {} /\ dirs' = dirs \ {to}
        /\ pc' = IF pc = "delete" THEN "clear" ELSE "copy"
        /\ UNCHANGED <<registry, tables, currentDB, db, from, to, rest, acked, torn>>
    BY <1>5 DEF RemoveDirectory, history
  <2>2. CatTypeOK'
    BY <1>a, <2>1 DEF CatTypeOK, Steps
  <2> QED
    BY <1>b, <2>1, <2>2 DEF DirInv, Named, Away
<1>6. CASE ClearRegistry
  <2>1. /\ pc = "clear" /\ pc' = "rewrite" /\ registry' = <<>> /\ rest = registry
        /\ UNCHANGED <<dirs, tables, currentDB, db, from, to, rest, acked, torn>>
    BY <1>6 DEF ClearRegistry, history, RegInv
  <2>2. Elems(registry)' = {} /\ Elems(rest)' = Elems(registry)
    BY <2>1 DEF Elems
  <2>3. CatTypeOK'
    BY <1>a, <2>1 DEF CatTypeOK, Steps, RegTypeOK
  <2> QED
    BY <2>1, <2>2, <2>3 DEF DirInv, Named, Away
<1>7. CASE RewriteRegistry
  <2>1. /\ pc = "rewrite" /\ rest # <<>> /\ rest' = Tail(rest)
        /\ registry' = IF Head(rest) # db THEN Append(registry, Head(rest)) ELSE registry
        /\ UNCHANGED <<dirs, tables, currentDB, pc, db, from, to, acked, torn>>
    BY <1>7 DEF RewriteRegistry, Others, history
  <2>2. registry \in Seq(Names) /\ rest \in Seq(Names) /\ Distinct(rest)
    BY DEF RegInv, RegTypeOK
  <2>3. Head(rest) \in Names /\ Elems(rest) = {Head(rest)} \cup Elems(Tail(rest))
    BY <2>1, <2>2, FirstBlock
  <2>4. Elems(Append(registry, Head(rest))) = Elems(registry) \cup {Head(rest)}
    BY <2>2, <2>3, AppendBlock
  <2>5. Elems(rest)' = Elems(Tail(rest))
    BY <2>1 DEF Elems
  <2>6. Elems(registry)' = IF Head(rest) # db THEN Elems(Append(registry, Head(rest))) ELSE Elems(registry)
    BY <2>1 DEF Elems
  <2>7. CatTypeOK'
    BY <1>a, <2>1 DEF CatTypeOK, Steps, RegTypeOK
  <2> QED
    BY <2>1, <2>3, <2>4, <2>5, <2>6, <2>7 DEF DirInv, Named, Away
<1>8. CASE DropDone
  <2>1. /\ pc = "rewrite" /\ rest = <<>> /\ Leave("idle") /\ pc' = "idle"
        /\ UNCHANGED <<registry, dirs, tables, currentDB, acked, torn>>
    BY <1>8 DEF DropDone, Finish, Leave, disk, history
  <2>2. /\ Elems(registry)' \cup ({currentDB'} \ {None}) \subseteq dirs' \cup torn'
        /\ dirs' \subseteq Places /\ torn' \subseteq Places /\ acked' \subseteq Names
        /\ currentDB' \in Names \cup {None}
    BY <1>b, <2>1 DEF DirInv, Named, Away, CatTypeOK
  <2> QED
    BY <1>a, <2>1, <2>2, DirLeave
<1>9. CASE MakeTarget
  <2>1. /\ pc = "copy" /\ dirs' = dirs \cup {to} /\ pc' = "fill"
        /\ UNCHANGED <<registry, tables, currentDB, db, from, to, rest, acked, torn>>
    BY <1>9 DEF MakeTarget, history
  <2>2. CatTypeOK'
    BY <1>a, <2>1 DEF CatTypeOK, Steps
  <2>3. tables[to] = {}
    BY <2>1 DEF DirInv, CatTypeOK
  <2> QED
    BY <1>b, <2>1, <2>2, <2>3 DEF DirInv, Named, Away
<1>10. CASE CopyDone
  <2>1. /\ pc = "fill" /\ torn' = torn \ {to} /\ Leave("idle") /\ pc' = "idle"
        /\ UNCHANGED <<registry, dirs, tables, currentDB, acked>>
    BY <1>10 DEF CopyDone, Finish, Leave, disk
  <2>2. /\ Elems(registry)' \cup ({currentDB'} \ {None}) \subseteq dirs' \cup torn'
        /\ dirs' \subseteq Places /\ torn' \subseteq Places /\ acked' \subseteq Names
        /\ currentDB' \in Names \cup {None}
    BY <1>b, <2>1 DEF DirInv, Named, Away, CatTypeOK
  <2> QED
    BY <1>a, <2>1, <2>2, DirLeave
<1> QED
  BY <1>1, <1>2, <1>3, <1>4, <1>5, <1>6, <1>7, <1>8, <1>9, <1>10 DEF Continue

LEMMA DirStep == RegInv /\ DirInv /\ [CatNext]_catVars => DirInv'
<1> SUFFICES ASSUME RegInv, DirInv, [CatNext]_catVars PROVE DirInv'
  OBVIOUS
<1>a. RegTypeOK' /\ CatTypeOK /\ Names \subseteq Places /\ Paths \subseteq Places
  BY RegStep DEF DirInv, Places, RegInv
<1>b. ASSUME UNCHANGED registry PROVE Elems(registry)' = Elems(registry)
  BY <1>b DEF Elems
<1>1. CASE InitSystem
  BY <1>1, DirStart
<1>2. CASE Kill
  BY <1>2, DirKilled DEF Kill
<1>3. CASE Continue
  BY <1>3, DirContinue
<1>4. ASSUME NEW n \in Names, CreateDatabase(n) PROVE DirInv'
  <2>1. /\ pc = "idle" /\ pc' = "register" /\ db' = n
        /\ dirs' = dirs \cup {n} /\ torn' = torn \ {n}
        /\ UNCHANGED <<registry, tables, currentDB, from, to, rest, acked>>
    BY <1>4 DEF CreateDatabase
  <2>2. CatTypeOK'
    BY <1>a, <2>1 DEF CatTypeOK, Steps, RegTypeOK
  <2> QED
    BY <1>b, <2>1, <2>2 DEF DirInv, Named, Away
<1>5. ASSUME NEW n \in Names, DropDatabase(n) PROVE DirInv'
  <2>1. /\ pc = "idle" /\ pc' = "delete" /\ db' = n /\ to' = n /\ rest' = registry
        /\ currentDB' = (IF currentDB = n THEN None ELSE currentDB)
        /\ acked' = acked \ {n}
        /\ UNCHANGED <<registry, dirs, tables, from, torn>>
    BY <1>5 DEF DropDatabase, CurrentWithout, disk
  <2>2. CatTypeOK'
    BY <1>a, <2>1 DEF CatTypeOK, Steps, RegTypeOK
  <2>3. None \notin Names
    BY NamesAssumption DEF Places
  <2> QED
    BY <1>b, <2>1, <2>2, <2>3 DEF DirInv, Named, Away
<1>6. ASSUME NEW n \in Names, NEW p \in Paths, BackupDatabase(n, p) \/ RestoreDatabase(n, p)
      PROVE  DirInv'
  <2>1. PICK s \in Places, t \in Places : Copy(s, t)
    BY <1>a, <1>6 DEF BackupDatabase, RestoreDatabase
  <2>2. /\ pc = "idle" /\ from' = s /\ to' = t
        /\ pc' = IF t \in dirs THEN "wipe" ELSE "copy"
        /\ UNCHANGED <<registry, dirs, tables, currentDB, db, rest, acked, torn>>
    BY <2>1 DEF Copy, disk, history
  <2>3. CatTypeOK'
    BY <1>a, <2>2 DEF CatTypeOK, Steps, RegTypeOK
  <2> QED
    BY <1>b, <2>2, <2>3 DEF DirInv, Named, Away
<1>7. ASSUME NEW n \in Names, DropDatabaseFails(n) PROVE DirInv'
  <2>1. /\ pc = "idle" /\ currentDB' \in {currentDB, None}
        /\ UNCHANGED <<registry, dirs, tables, pc, db, from, to, rest, acked, torn>>
    BY <1>7 DEF DropDatabaseFails, CurrentWithout, disk, local, history
  <2>2. CatTypeOK'
    BY <1>a, <2>1 DEF CatTypeOK
  <2> QED
    BY <1>b, <2>1, <2>2 DEF DirInv, Named, Away
<1>8. ASSUME NEW n \in Names, UseDatabase(n) PROVE DirInv'
  <2>1. /\ pc = "idle" /\ n \in dirs /\ currentDB' = n
        /\ UNCHANGED <<registry, dirs, tables, pc, db, from, to, rest, acked, torn>>
    BY <1>8 DEF UseDatabase, disk, local, history
  <2>2. CatTypeOK'
    BY <1>a, <2>1 DEF CatTypeOK
  <2> QED
    BY <1>b, <2>1, <2>2 DEF DirInv, Named, Away
<1>9. ASSUME NEW t \in Tables, CreateTable(t) \/ DropTable(t) PROVE DirInv'
  <2>1. /\ pc = "idle"
        /\ UNCHANGED <<registry, currentDB, pc, db, from, to, rest, acked, torn>>
    BY <1>9 DEF CreateTable, DropTable, local, history
  <2>2. \/ /\ currentDB \in Names /\ dirs' = dirs \cup {currentDB}
           /\ tables' = [tables EXCEPT ![currentDB] = tables[currentDB] \cup {t}]
        \/ /\ dirs' = dirs
           /\ tables' = [tables EXCEPT ![currentDB] = tables[currentDB] \ {t}]
    <3>1. currentDB \in Names \cup {None}
      BY <1>a DEF CatTypeOK
    <3> QED
      BY <1>9, <3>1 DEF CreateTable, DropTable
  <2>3. /\ tables' \in [Places -> SUBSET Tables]
        /\ dirs' \subseteq Places /\ dirs \subseteq dirs'
        /\ \A p \in Places \ dirs' : tables'[p] = {}
    <3>1. /\ tables \in [Places -> SUBSET Tables] /\ dirs \subseteq Places /\ Names \subseteq Places
          /\ \A p \in Places \ dirs : tables[p] = {}
      BY DEF CatTypeOK, DirInv, Places
    <3>2. tables' \in [Places -> SUBSET Tables]
      BY <2>2, <3>1
    <3>3. dirs' \subseteq Places /\ dirs \subseteq dirs'
      BY <2>2, <3>1
    <3>4. ASSUME NEW p \in Places \ dirs' PROVE tables'[p] = {}
      BY <2>2, <3>1, <3>4
    <3> QED
      BY <3>2, <3>3, <3>4
  <2>4. CatTypeOK'
    BY <1>a, <2>1, <2>3 DEF CatTypeOK
  <2> QED
    BY <1>b, <2>1, <2>3, <2>4 DEF DirInv, Named, Away
<1>10. CASE UNCHANGED catVars
  <2>1. UNCHANGED <<registry, dirs, tables, currentDB, pc, db, from, to, rest, acked, torn>>
    BY <1>10 DEF catVars, disk, local, history
  <2>2. CatTypeOK' /\ Elems(rest)' = Elems(rest)
    BY <1>a, <2>1 DEF CatTypeOK, Elems
  <2> QED
    BY <1>b, <2>1, <2>2 DEF DirInv, Named, Away
<1> QED
  BY <1>1, <1>2, <1>3, <1>4, <1>5, <1>6, <1>7, <1>8, <1>9, <1>10 DEF CatNext

LEMMA DirInvariant == CatSpec => [](RegInv /\ DirInv)
<1>1. RegInv /\ DirInv /\ [CatNext]_catVars => RegInv' /\ DirInv'
  BY RegStep, DirStep
<1> QED
  BY <1>1, RegInit, DirInit, PTL DEF CatSpec

-----------------------------------------------------------------------------
\* A directory that does not exist holds nothing, also after a kill within remove_all or a copy
\* (createDatabase, dropDatabase of CatalogManagerImpl, DatabaseMaintenanceImpl).
THEOREM CatalogTypeCorrect == CatSpec => []CatTypeOK
<1>1. DirInv => CatTypeOK
  BY DEF DirInv
<1> QED
  BY <1>1, DirInvariant, PTL

\* Between statements every registered database and the current one have their directory, or a
\* kill within CREATE, DROP, RESTORE or the start of the server is what took it.
THEOREM DirectoriesKept == CatSpec => []DirectoryKept
<1>1. DirInv => DirectoryKept
  BY DEF DirInv, DirectoryKept, Named, Away
<1> QED
  BY <1>1, DirInvariant, PTL

\* A finished BACKUP or RESTORE (DatabaseMaintenanceImpl) leaves in the target what is in the source
\* and nothing else, whatever an earlier copy that was cut off had left there.
THEOREM CopiesAreExact == CatSpec => CopiesExact
<1>1. ASSUME RegInv, DirInv, [CatNext]_catVars, pc = "fill", pc' = "idle"
      PROVE  to \in dirs /\ tables[to] = tables[from]
  <2>1. CopyDone
    BY <1>1 DEF CatNext, InitSystem, Kill, Killed, Continue, MakeSystem, RegisterDatabase, RemoveEntry,
       CopyEntry, RemoveDirectory, ClearRegistry, RewriteRegistry, DropDone, MakeTarget, CreateDatabase,
       DropDatabase, DropDatabaseFails, UseDatabase, BackupDatabase, RestoreDatabase, Copy, CreateTable,
       DropTable, Leave, catVars, local, Finish
  <2>2. tables[from] \subseteq tables[to]
    BY <2>1 DEF CopyDone
  <2> QED
    BY <1>1, <2>2 DEF DirInv
<1> QED
  BY <1>1, DirInvariant, PTL DEF CatSpec, CopiesExact
=============================================================================
