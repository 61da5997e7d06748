----------------------------- MODULE Server_proofs -----------------------------
(***************************************************************************)
(* The server, for any connections, users, databases and kills: what its   *)
(* steps are for the catalog and for the accounts, hence what holds of     *)
(* both in the whole server; who may change them; and that its loop comes  *)
(* free.                                                                   *)
(***************************************************************************)
EXTENDS Server, Catalog_proofs, FiniteSetTheorems

-----------------------------------------------------------------------------
(***************************************************************************)
(* Accounts.                                                               *)
(***************************************************************************)

\* No line in the file but a user's own can be taken for a record, nor says
\* ADMIN of one not granted it.
OwnLines ==
  \A u \in Users : \A k \in DOMAIN file[u] : Counts(file[u][k]) =>
    /\ file[u][k][1] = u
    /\ u # Root /\ RoleIn(file[u][k]) = "ADMIN" => u \in granted

\* The user file agrees with memory up to the records still to be written, and,
\* as long as every password was plain, says of nobody what it should not.
AccInv ==
  /\ AccTypeOK
  /\ NoPromotion
  /\ ~odd => OwnLines /\ \A u \in Users : Plain(passwords[u])
  /\ \A u \in Users : users[u] = "absent" <=> passwords[u] = <<>>
  /\ accPc # "down" => users[Root] # "absent"
  /\ accPc = "idle" => \A u \in Users : file[u] = Record(u)
  /\ accPc = "save" => \A u \in Users : file[u] = Record(u) \/ u \in Elems(unwritten)

LEMMA AccInitInv == AccInit => AccInv
<1> SUFFICES ASSUME AccInit PROVE AccInv
  OBVIOUS
<1>1. <<>> \in Seq(Seq(Pieces \cup {"cut"})) /\ <<>> \in Seq(Users)
  OBVIOUS
<1>2. AccTypeOK
  BY <1>1 DEF AccInit, AccTypeOK
<1>3. NoPromotion
  BY DEF AccInit, NoPromotion
<1>4. OwnLines
  <2>1. \A u \in Users : DOMAIN file[u] = {}
    BY DEF AccInit
  <2> QED
    BY <2>1 DEF OwnLines
<1> QED
  BY <1>2, <1>3, <1>4, UsersAssumption DEF AccInit, AccInv, Plain

\* Of finitely many places one is behind all others.
LEMMA LastPlace ==
  ASSUME NEW S \in SUBSET (Nat \X Nat), IsFiniteSet(S), S # {}
  PROVE  \E at \in S : \A b \in S : b[1] < at[1] \/ (b[1] = at[1] /\ b[2] <= at[2])
<1> DEFINE Behind(at) == {b \in S : ~ (b[1] < at[1] \/ (b[1] = at[1] /\ b[2] <= at[2]))}
           U == {Behind(at) : at \in S}
<1>1. U \subseteq FiniteSubsetsOf(S) /\ U # {}
  <2>1. ASSUME NEW at \in S PROVE Behind(at) \in FiniteSubsetsOf(S)
    <3>1. Behind(at) \subseteq S
      OBVIOUS
    <3>2. IsFiniteSet(Behind(at))
      BY <3>1, FS_Subset
    <3> QED
      BY <3>1, <3>2 DEF FiniteSubsetsOf
  <2> HIDE DEF Behind
  <2> QED
    BY <2>1
<1>2. PICK v \in U : \A w \in U : ~ (<<w, v>> \in StrictSubsetOrdering(S))
  <2> HIDE DEF U
  <2> QED
    BY <1>1, FS_StrictSubsetOrderingWellFounded, WFMin
<1>3. PICK at \in S : v = Behind(at)
  OBVIOUS
<1>4. ASSUME NEW b \in Behind(at) PROVE FALSE
  <2>1. b \in S /\ b \notin Behind(b) /\ Behind(b) \subseteq Behind(at)
    BY <1>4
  <2> HIDE DEF Behind
  <2>2. Behind(b) \in U /\ Behind(b) # v
    BY <1>3, <1>4, <2>1
  <2>3. Behind(b) \in SUBSET S /\ v \in SUBSET S
    BY <1>3, <2>1 DEF Behind
  <2> QED
    BY <1>2, <1>3, <2>1, <2>2, <2>3 DEF StrictSubsetOrdering
<1> QED
  BY <1>4

\* What is loaded of a user is in a line of the file that names it.
LEMMA LastLineIs ==
  ASSUME AccTypeOK, NEW u \in Users, LinesOf(u) # {}
  PROVE  \E v \in Users : \E k \in DOMAIN file[v] :
           LastLineOf(u) = file[v][k] /\ Counts(file[v][k]) /\ file[v][k][1] = u
<1> DEFINE S == LinesOf(u)
           Lines(i) == {i} \X DOMAIN file[Order[i]]
           Blocks == {Lines(i) : i \in DOMAIN Order}
<1>1. \A i \in DOMAIN Order : i \in Nat /\ Order[i] \in Users
  BY UsersAssumption
<1>2. \A v \in Users : DOMAIN file[v] = 1..Len(file[v]) /\ Len(file[v]) \in Nat
  BY DEF AccTypeOK
<1>3. S \subseteq UNION Blocks
  BY DEF LinesOf
<1>4. S \in SUBSET (Nat \X Nat)
  BY <1>1, <1>2, <1>3
<1>5. IsFiniteSet(S)
  <2>1. \A i \in DOMAIN Order : IsFiniteSet(Lines(i))
    <3>1. ASSUME NEW i \in DOMAIN Order PROVE IsFiniteSet({i}) /\ IsFiniteSet(DOMAIN file[Order[i]])
      <4>1. Order[i] \in Users
        BY <1>1
      <4>2. DOMAIN file[Order[i]] = 1..Len(file[Order[i]]) /\ Len(file[Order[i]]) \in Nat
        BY <1>2, <4>1
      <4>3. IsFiniteSet(1..Len(file[Order[i]]))
        BY <4>2, FS_Interval
      <4> QED
        BY <4>2, <4>3, FS_Singleton
    <3> QED
      BY <3>1, FS_Product
  <2>2. IsFiniteSet(DOMAIN Order)
    BY UsersAssumption, FS_Interval
  <2>3. IsFiniteSet(Blocks)
    <3> DEFINE f == [i \in DOMAIN Order |-> Lines(i)]
    <3> HIDE DEF Lines
    <3>1. f \in Surjection(DOMAIN Order, Blocks)
      BY DEF Surjection
    <3> QED
      BY <2>2, <3>1, FS_Surjection
  <2>4. \A T \in Blocks : IsFiniteSet(T)
    BY <2>1
  <2>5. IsFiniteSet(UNION Blocks)
    <3> HIDE DEF Blocks
    <3> QED
      BY <2>3, <2>4, FS_UNION
  <2> QED
    BY <1>3, <2>5, FS_Subset
<1>6. PICK at \in S :
        /\ \A b \in S : b[1] < at[1] \/ (b[1] = at[1] /\ b[2] <= at[2])
        /\ LastLineOf(u) = file[Order[at[1]]][at[2]]
  <2>1. \E at \in S : \A b \in S : b[1] < at[1] \/ (b[1] = at[1] /\ b[2] <= at[2])
    <3>1. S # {}
      OBVIOUS
    <3> HIDE DEF S
    <3> QED
      BY <1>4, <1>5, <3>1, LastPlace
  <2> QED
    BY <2>1 DEF LastLineOf
<1>7. /\ at[1] \in DOMAIN Order /\ at[2] \in DOMAIN file[Order[at[1]]]
      /\ Counts(file[Order[at[1]]][at[2]]) /\ file[Order[at[1]]][at[2]][1] = u
  BY <1>6 DEF LinesOf
<1> QED
  BY <1>1, <1>6, <1>7

\* What is loaded is an account.
LEMMA LoadedIs ==
  ASSUME AccTypeOK, NEW u \in Users
  PROVE  /\ LoadedRole(u) \in Roles \cup {"absent"}
         /\ LoadedPassword(u) \in Seq(Seq(Pieces \cup {"cut"})) /\ Plain(LoadedPassword(u))
         /\ LoadedRole(u) = "absent" <=> LinesOf(u) = {}
         /\ LoadedPassword(u) = <<>> <=> LinesOf(u) = {}
<1>1. CASE LinesOf(u) = {}
  BY <1>1 DEF LoadedRole, LoadedPassword, Plain
<1>2. CASE LinesOf(u) # {}
  <2>1. PICK v \in Users : \E k \in DOMAIN file[v] : LastLineOf(u) = file[v][k] /\ Counts(file[v][k])
    BY <1>2, LastLineIs
  <2>2. PICK k \in DOMAIN file[v] : LastLineOf(u) = file[v][k] /\ Counts(file[v][k])
    BY <2>1
  <2>3. file[v][k] \in Seq(Pieces \cup {"cut"}) /\ Len(file[v][k]) >= 3
    <3>1. file[v] \in Seq(Seq(Pieces \cup {"cut"}))
      BY DEF AccTypeOK
    <3>2. file[v][k] \in Seq(Pieces \cup {"cut"})
      BY <2>2, <3>1
    <3> QED
      BY <2>2, <3>2 DEF Counts
  <2>4. LastLineOf(u)[2] \in Pieces \cup {"cut"}
    BY <2>2, <2>3
  <2>5. LoadedRole(u) \in Roles
    BY <1>2 DEF LoadedRole, RoleIn, RoleFromString, Roles
  <2>6. LoadedPassword(u) = <<<<LastLineOf(u)[2]>>>>
    BY <1>2 DEF LoadedPassword
  <2>7. Plain(LoadedPassword(u)) /\ LoadedPassword(u) # <<>>
    BY <2>6 DEF Plain
  <2> QED
    BY <1>2, <2>4, <2>5, <2>6, <2>7 DEF Roles
<1> QED
  BY <1>1, <1>2

LEMMA Joined ==
  ASSUME NEW P, NEW s \in Seq(P), NEW t \in Seq(P)
  PROVE  /\ s \o t \in Seq(P) /\ Len(s \o t) = Len(s) + Len(t)
         /\ \A i \in 1..Len(s) : (s \o t)[i] = s[i]
         /\ \A i \in 1..Len(t) : (s \o t)[Len(s) + i] = t[i]
OBVIOUS

\* What is written of a user is text; for a plain password, its one record.
LEMMA RecordIs ==
  ASSUME NEW u \in Users, NEW P,
         Users \cup {"ADMIN", "USER"} \subseteq P,
         users[u] \in Roles \cup {"absent"}, passwords[u] \in Seq(Seq(P)),
         users[u] = "absent" <=> passwords[u] = <<>>
  PROVE  /\ Record(u) \in Seq(Seq(P))
         /\ Plain(passwords[u]) =>
              IF users[u] = "absent" THEN Record(u) = <<>>
              ELSE Record(u) = <<<<u, passwords[u][1][1], users[u]>>>> /\ passwords[u] = <<<<passwords[u][1][1]>>>>
<1> DEFINE p == passwords[u]
           L(k) == (IF k = 1 THEN <<u>> ELSE <<>>) \o p[k] \o (IF k = Len(p) THEN <<users[u]>> ELSE <<>>)
<1>1. Record(u) = [k \in DOMAIN p |-> L(k)]
  BY DEF Record
<1>2. ASSUME NEW k \in DOMAIN p PROVE L(k) \in Seq(P)
  <2>1. p[k] \in Seq(P) /\ u \in P /\ users[u] \in P
    BY <1>2 DEF Roles
  <2>2. (IF k = 1 THEN <<u>> ELSE <<>>) \in Seq(P)
    BY <2>1
  <2>3. (IF k = Len(p) THEN <<users[u]>> ELSE <<>>) \in Seq(P)
    BY <2>1
  <2> QED
    BY <2>1, <2>2, <2>3
<1>3. Record(u) \in Seq(Seq(P))
  <2>1. p \in Seq(Seq(P)) /\ DOMAIN p = 1..Len(p) /\ Len(p) \in Nat
    OBVIOUS
  <2> HIDE DEF L, p
  <2>2. Record(u) = [k \in 1..Len(p) |-> L(k)] /\ \A k \in 1..Len(p) : L(k) \in Seq(P)
    BY <1>1, <1>2, <2>1
  <2> QED
    BY <2>1, <2>2
<1>4. ASSUME Plain(p), users[u] = "absent" PROVE Record(u) = <<>>
  <2>1. p = <<>>
    BY <1>4
  <2>2. DOMAIN p = {}
    BY <2>1
  <2> HIDE DEF L, p
  <2>3. Record(u) = [k \in {} |-> L(k)]
    BY <1>1, <2>2
  <2> QED
    BY <2>3
<1>5. ASSUME Plain(p), users[u] # "absent"
      PROVE  Record(u) = <<<<u, p[1][1], users[u]>>>> /\ p = <<<<p[1][1]>>>>
  <2>1. Len(p) = 1 /\ DOMAIN p = {1} /\ p[1] \in Seq(P) /\ Len(p[1]) = 1
    <3>1. p # <<>> /\ p \in Seq(Seq(P)) /\ Len(p) \in Nat /\ DOMAIN p = 1..Len(p)
      BY <1>5
    <3>2. Len(p) >= 1
      BY <3>1
    <3>3. 1 \in DOMAIN p /\ Len(p) \in DOMAIN p
      BY <3>1, <3>2
    <3> QED
      BY <1>5, <3>1, <3>3 DEF Plain
  <2>2. p[1] = <<p[1][1]>>
    BY <2>1
  <2>3. p = <<p[1]>>
    BY <2>1
  <2>4. L(1) = <<u, p[1][1], users[u]>>
    <3>1. L(1) = <<u>> \o p[1] \o <<users[u]>>
      BY <2>1
    <3>2. u \in P /\ p[1][1] \in P /\ users[u] \in P
      BY <1>5, <2>1 DEF Roles
    <3> DEFINE a == <<u>> \o p[1]
               w == a \o <<users[u]>>
               l == <<u, p[1][1], users[u]>>
    <3>3. a \in Seq(P) /\ Len(a) = 2 /\ a[1] = u /\ a[2] = p[1][1]
      <4>1. <<u>> \in Seq(P) /\ Len(<<u>>) = 1
        BY <3>2
      <4>2. <<u>>[1] = u /\ 1 \in 1..Len(<<u>>) /\ 1 \in 1..Len(p[1])
        BY <2>1, <4>1
      <4>3. Len(a) = 2 /\ a \in Seq(P) /\ a[1] = <<u>>[1] /\ a[1 + 1] = p[1][1]
        BY <2>1, <4>1, <4>2, Joined
      <4> QED
        BY <4>2, <4>3
    <3> HIDE DEF a
    <3>4. w \in Seq(P) /\ Len(w) = 3 /\ w[1] = u /\ w[2] = p[1][1] /\ w[3] = users[u]
      <4>1. <<users[u]>> \in Seq(P) /\ Len(<<users[u]>>) = 1
        BY <3>2
      <4>2. <<users[u]>>[1] = users[u] /\ 1 \in 1..Len(<<users[u]>>) /\ 1 \in 1..Len(a) /\ 2 \in 1..Len(a)
        BY <3>3, <4>1
      <4>3. w \in Seq(P) /\ Len(w) = 3 /\ w[1] = a[1] /\ w[2] = a[2] /\ w[2 + 1] = <<users[u]>>[1]
        BY <3>3, <4>1, <4>2, Joined
      <4> QED
        BY <3>3, <4>2, <4>3
    <3> HIDE DEF w
    <3>5. l \in Seq(P) /\ Len(l) = 3 /\ \A i \in 1..3 : w[i] = l[i]
      BY <3>2, <3>4
    <3>6. w = l
      <4> HIDE DEF l
      <4> QED
        BY <3>4, <3>5
    <3> QED
      BY <3>1, <3>6 DEF a, w
  <2>5. Record(u) = [k \in {1} |-> L(k)]
    BY <1>1, <2>1
  <2>6. [k \in {1} |-> L(k)] = <<L(1)>>
    <3> HIDE DEF L
    <3>1. 1..1 = {1}
      OBVIOUS
    <3>2. DOMAIN <<L(1)>> = 1..1 /\ <<L(1)>>[1] = L(1)
      OBVIOUS
    <3> QED
      BY <3>1, <3>2
  <2> QED
    BY <2>2, <2>3, <2>4, <2>5, <2>6
<1> QED
  BY <1>3, <1>4, <1>5

\* save, after any change of the users that respects the history.
LEMMA SaveInv ==
  ASSUME AccInv, Save,
         users' \in [Users -> Roles \cup {"absent"}],
         passwords' \in [Users -> Seq(Seq(Pieces \cup {"cut"}))],
         \A u \in Users : users'[u] = "absent" <=> passwords'[u] = <<>>,
         users'[Root] # "absent",
         granted' \subseteq Users,
         odd' \in BOOLEAN,
         ~odd' => \A u \in Users : Plain(passwords'[u]),
         NoPromotion'
  PROVE  AccInv'
<1>1. /\ file' = [u \in Users |-> <<>>]
      /\ unwritten' = Order
      /\ accPc' = "save"
  BY DEF Save
<1>2. AccTypeOK'
  BY <1>1, UsersAssumption DEF AccTypeOK
<1>3. \A u \in Users : u \in Elems(unwritten)'
  BY <1>1, UsersAssumption DEF Elems
<1>4. OwnLines'
  BY <1>1 DEF OwnLines
<1> QED
  BY <1>1, <1>2, <1>3, <1>4 DEF AccInv, Plain

\* A change that leaves memory alone leaves what save writes of it.
LEMMA RecordSame ==
  ASSUME UNCHANGED memory, NEW u
  PROVE  Record(u)' = Record(u)
BY DEF memory, Record

\* The first record is written; the others are still to come.
LEMMA WriteRecordInv == AccInv /\ WriteRecord => AccInv'
<1> SUFFICES ASSUME AccInv, WriteRecord PROVE AccInv'
  OBVIOUS
<1> DEFINE h == Head(unwritten)
<1>1. /\ accPc = "save" /\ accPc' = "save"
      /\ unwritten \in Seq(Users) /\ unwritten # <<>>
      /\ file' = [file EXCEPT ![h] = Record(h)]
      /\ unwritten' = Tail(unwritten)
      /\ UNCHANGED memory /\ users' = users /\ passwords' = passwords /\ granted' = granted /\ odd' = odd
  BY DEF WriteRecord, AccInv, AccTypeOK, memory
<1>2. h \in Users /\ unwritten' \in Seq(Users)
  BY <1>1
<1>3. ASSUME NEW u \in Elems(unwritten), u # h PROVE u \in Elems(unwritten')
  <2>1. PICK i \in DOMAIN unwritten : unwritten[i] = u
    BY <1>3 DEF Elems
  <2>2. i \in Nat /\ i > 1 /\ i - 1 \in DOMAIN Tail(unwritten) /\ Tail(unwritten)[i - 1] = unwritten[i]
    BY <1>1, <1>3, <2>1
  <2> QED
    BY <1>1, <2>1, <2>2 DEF Elems
<1> HIDE DEF h
<1>4. Record(h) \in Seq(Seq(Pieces \cup {"cut"}))
  BY <1>2, RecordIs, PasswordsAssumption DEF AccInv, AccTypeOK
<1>5. AccTypeOK'
  BY <1>1, <1>2, <1>4 DEF AccInv, AccTypeOK
<1>6. \A u \in Users : file'[u] = IF u = h THEN Record(u) ELSE file[u]
  BY <1>1, <1>2 DEF AccInv, AccTypeOK
<1>7. ASSUME ~odd PROVE OwnLines'
  <2>1. OwnLines /\ Plain(passwords[h]) /\ NoPromotion
    BY <1>2, <1>7 DEF AccInv
  <2>2. users[h] \in Roles \cup {"absent"}
    BY <1>2 DEF AccInv, AccTypeOK
  <2>3. ASSUME NEW k \in DOMAIN Record(h), Counts(Record(h)[k])
        PROVE  Record(h)[k][1] = h /\ (h # Root /\ RoleIn(Record(h)[k]) = "ADMIN" => h \in granted)
    <3>1. users[h] # "absent" /\ Record(h) = <<<<h, passwords[h][1][1], users[h]>>>>
      <4>1. IF users[h] = "absent" THEN Record(h) = <<>>
            ELSE Record(h) = <<<<h, passwords[h][1][1], users[h]>>>>
        BY <1>2, <2>1, RecordIs, PasswordsAssumption DEF AccInv, AccTypeOK
      <4> QED
        BY <2>3, <4>1
    <3>2. Record(h)[k] = <<h, passwords[h][1][1], users[h]>>
      BY <2>3, <3>1
    <3>3. Len(Record(h)[k]) = 3 /\ Record(h)[k][1] = h /\ Record(h)[k][3] = users[h]
      BY <3>2
    <3> QED
      BY <1>2, <1>7, <2>1, <3>3 DEF RoleIn, RoleFromString, NoPromotion
  <2>4. ASSUME NEW u \in Users, NEW k \in DOMAIN file'[u], Counts(file'[u][k])
        PROVE  file'[u][k][1] = u /\ (u # Root /\ RoleIn(file'[u][k]) = "ADMIN" => u \in granted)
    BY <1>6, <2>1, <2>3, <2>4 DEF OwnLines
  <2> QED
    BY <1>1, <2>4 DEF OwnLines, Counts, RoleIn
<1>8. \A u \in Users : file'[u] = Record(u) \/ u \in Elems(unwritten')
  BY <1>1, <1>3, <1>6 DEF AccInv
<1>9. \A u \in Users : file[u]' = Record(u)' \/ u \in Elems(unwritten)'
  BY <1>1, <1>8, RecordSame DEF Elems
<1> QED
  BY <1>1, <1>5, <1>7, <1>9 DEF AccInv, NoPromotion

LEMMA SaveDoneInv == AccInv /\ SaveDone => AccInv'
<1> SUFFICES ASSUME AccInv, SaveDone PROVE AccInv'
  OBVIOUS
<1>1. /\ accPc = "save" /\ accPc' = "idle" /\ unwritten = <<>>
      /\ UNCHANGED memory /\ UNCHANGED <<users, passwords, file, unwritten, granted, odd>>
  BY DEF SaveDone, memory
<1>2. \A u \in Users : file[u] = Record(u)
  BY <1>1, EmptyFile DEF AccInv
<1>3. \A u \in Users : file[u]' = Record(u)'
  BY <1>1, <1>2, RecordSame
<1>4. AccTypeOK' /\ NoPromotion' /\ (OwnLines => OwnLines')
  BY <1>1 DEF AccInv, AccTypeOK, NoPromotion, OwnLines
<1> QED
  BY <1>1, <1>3, <1>4 DEF AccInv

\* Loading takes a cut record for none or for USER: it grants nothing.
LEMMA LoadUsersInv == AccInv /\ LoadUsers => AccInv'
<1> SUFFICES ASSUME AccInv, LoadUsers PROVE AccInv'
  OBVIOUS
<1> DEFINE Fresh(u) == u = Root /\ LinesOf(u) = {}
<1>1. /\ users' = [u \in Users |-> IF Fresh(u) THEN "ADMIN" ELSE LoadedRole(u)]
      /\ passwords' = [u \in Users |-> IF Fresh(u) THEN RootPassword ELSE LoadedPassword(u)]
      /\ Save
      /\ granted' = granted /\ odd' = odd
  BY DEF LoadUsers
<1>2. AccTypeOK
  BY DEF AccInv
<1>3. /\ RootPassword \in Seq(Seq(Pieces \cup {"cut"})) /\ RootPassword # <<>> /\ Plain(RootPassword)
  BY PasswordsAssumption DEF Plain
<1>4. /\ users' \in [Users -> Roles \cup {"absent"}]
      /\ passwords' \in [Users -> Seq(Seq(Pieces \cup {"cut"}))]
  BY <1>1, <1>2, <1>3, LoadedIs DEF Roles
<1>5. \A u \in Users : /\ users'[u] = "absent" <=> passwords'[u] = <<>>
                       /\ Plain(passwords'[u])
  BY <1>1, <1>2, <1>3, LoadedIs
<1>6. users'[Root] # "absent"
  BY <1>1, <1>2, LoadedIs, UsersAssumption
<1>7. ASSUME ~odd, NEW u \in Users \ {Root}, users'[u] = "ADMIN" PROVE u \in granted
  <2>1. LoadedRole(u) = "ADMIN"
    BY <1>1, <1>7
  <2>2. LinesOf(u) # {} /\ RoleIn(LastLineOf(u)) = "ADMIN"
    BY <2>1 DEF LoadedRole
  <2>3. PICK v \in Users : \E k \in DOMAIN file[v] :
               LastLineOf(u) = file[v][k] /\ Counts(file[v][k]) /\ file[v][k][1] = u
    BY <1>2, <2>2, LastLineIs
  <2> QED
    BY <1>7, <2>2, <2>3 DEF AccInv, OwnLines
<1>8. NoPromotion' /\ odd' \in BOOLEAN /\ granted' \subseteq Users
  BY <1>1, <1>2, <1>7 DEF NoPromotion, AccTypeOK
<1> HIDE DEF Fresh
<1> QED
  BY <1>1, <1>4, <1>5, <1>6, <1>8, SaveInv

\* A record cut off has its last line cut: it is another's in nothing it was not before.
LEMMA CutIs ==
  ASSUME NEW P, NEW record \in Seq(Seq(P)), NEW k \in DOMAIN record, NEW n \in DOMAIN record[k],
         "cut" \in P
  PROVE  /\ CutRecord(record, k, n) \in Seq(Seq(P))
         /\ k = 1 => /\ CutRecord(record, k, n) = <<CutRecord(record, k, n)[1]>>
                     /\ Len(CutRecord(record, k, n)[1]) = n
                     /\ CutRecord(record, k, n)[1][n] = "cut"
                     /\ n > 1 => CutRecord(record, k, n)[1][1] = record[1][1]
<1> DEFINE c == [SubSeq(record[k], 1, n) EXCEPT ![n] = "cut"]
<1>1. record[k] \in Seq(P) /\ n \in 1..Len(record[k]) /\ Len(record[k]) \in Nat
  OBVIOUS
<1>2. /\ SubSeq(record[k], 1, n) \in Seq(P) /\ Len(SubSeq(record[k], 1, n)) = n
      /\ \A i \in 1..n : SubSeq(record[k], 1, n)[i] = record[k][i]
  BY <1>1
<1>3. c \in Seq(P) /\ Len(c) = n /\ c[n] = "cut" /\ (n > 1 => c[1] = record[k][1])
  <2> DEFINE s == SubSeq(record[k], 1, n)
  <2>1. DOMAIN s = 1..n /\ n \in 1..n /\ s \in Seq(P)
    BY <1>1, <1>2
  <2> HIDE DEF s
  <2>2. c = [s EXCEPT ![n] = "cut"]
    BY DEF s
  <2>3. c = [i \in 1..n |-> IF i = n THEN "cut" ELSE s[i]]
    BY <2>1, <2>2
  <2>4. n \in Nat /\ \A i \in 1..n : c[i] \in P
    <3>1. \A i \in 1..n : s[i] \in P
      BY <2>1
    <3> HIDE DEF c
    <3> QED
      BY <1>1, <2>3, <3>1
  <2>5. c \in Seq(P) /\ Len(c) = n
    BY <2>3, <2>4
  <2>6. c[n] = "cut" /\ (n > 1 => c[1] = record[k][1])
    <3>1. \A i \in 1..n : s[i] = record[k][i]
      BY <1>2 DEF s
    <3>2. n > 1 => 1 \in 1..n /\ 1 # n
      BY <1>1
    <3> HIDE DEF c
    <3> QED
      BY <2>1, <2>3, <3>1, <3>2
  <2> HIDE DEF c
  <2> QED
    BY <2>5, <2>6
<1>4. CutRecord(record, k, n) = SubSeq(record, 1, k - 1) \o <<c>>
  BY DEF CutRecord
<1> HIDE DEF c
<1>5. SubSeq(record, 1, k - 1) \in Seq(Seq(P))
  OBVIOUS
<1>6. CutRecord(record, k, n) \in Seq(Seq(P))
  BY <1>3, <1>4, <1>5
<1>7. ASSUME k = 1 PROVE CutRecord(record, k, n) = <<c>>
  <2>1. SubSeq(record, 1, k - 1) = <<>>
    BY <1>7
  <2>2. <<>> \o <<c>> = <<c>>
    BY <1>3
  <2> QED
    BY <1>4, <2>1, <2>2
<1>8. <<c>>[1] = c
  OBVIOUS
<1> QED
  BY <1>3, <1>6, <1>7, <1>8

LEMMA AccKilledInv == AccInv /\ AccKilled => AccInv'
<1> SUFFICES ASSUME AccInv, AccKilled PROVE AccInv'
  OBVIOUS
<1> DEFINE h == Head(unwritten)
<1>1. /\ users' = [u \in Users |-> "absent"] /\ passwords' = [u \in Users |-> <<>>]
      /\ accPc' = "down" /\ unwritten' = <<>> /\ granted' = granted /\ odd' = odd
  BY DEF AccKilled
<1>2. CASE file' = file
  <2>1. AccTypeOK' /\ NoPromotion' /\ (OwnLines => OwnLines')
    BY <1>1, <1>2 DEF AccInv, AccTypeOK, NoPromotion, OwnLines, Roles
  <2> QED
    BY <1>1, <2>1 DEF AccInv, Plain
<1>3. CASE unwritten # <<>> /\ \E k \in DOMAIN Record(h) : \E n \in DOMAIN Record(h)[k] :
             file' = [file EXCEPT ![h] = CutRecord(Record(h), k, n)]
  <2>1. h \in Users /\ AccTypeOK
    BY <1>3 DEF AccInv, AccTypeOK
  <2> HIDE DEF h
  <2>2. PICK k \in DOMAIN Record(h) : \E n \in DOMAIN Record(h)[k] :
             file' = [file EXCEPT ![h] = CutRecord(Record(h), k, n)]
    BY <1>3
  <2>3. PICK n \in DOMAIN Record(h)[k] : file' = [file EXCEPT ![h] = CutRecord(Record(h), k, n)]
    BY <2>2
  <2> DEFINE cut == CutRecord(Record(h), k, n)
  <2>4. Record(h) \in Seq(Seq(Pieces \cup {"cut"}))
    BY <2>1, RecordIs, PasswordsAssumption DEF AccInv, AccTypeOK
  <2>5. cut \in Seq(Seq(Pieces \cup {"cut"}))
    BY <2>4, CutIs
  <2>6. \A u \in Users : file'[u] = IF u = h THEN cut ELSE file[u]
    BY <2>1, <2>3 DEF AccTypeOK
  <2>7. AccTypeOK' /\ NoPromotion'
    BY <1>1, <2>1, <2>3, <2>5 DEF AccTypeOK, NoPromotion, Roles
  <2>8. ASSUME ~odd PROVE OwnLines'
    <3>1. OwnLines /\ Plain(passwords[h])
      BY <2>1, <2>8 DEF AccInv
    <3>2. users[h] # "absent" /\ Record(h) = <<<<h, passwords[h][1][1], users[h]>>>>
      <4>1. IF users[h] = "absent" THEN Record(h) = <<>>
            ELSE Record(h) = <<<<h, passwords[h][1][1], users[h]>>>>
        BY <2>1, <3>1, RecordIs, PasswordsAssumption DEF AccInv, AccTypeOK
      <4> QED
        BY <4>1
    <3>3. k = 1 /\ Record(h)[1] = <<h, passwords[h][1][1], users[h]>>
      BY <3>2
    <3>4. n \in 1..3 /\ Record(h)[1][1] = h
      BY <3>3
    <3>5. /\ cut = <<cut[1]>> /\ Len(cut[1]) = n /\ cut[1][n] = "cut"
          /\ n > 1 => cut[1][1] = h
      BY <2>4, <3>3, <3>4, CutIs
    <3> HIDE DEF cut
    <3>6. ASSUME NEW j \in DOMAIN cut, Counts(cut[j])
          PROVE  cut[j][1] = h /\ RoleIn(cut[j]) = "USER"
      <4>1. j = 1
        <5>1. \A x : DOMAIN <<x>> = {1}
          OBVIOUS
        <5> QED
          BY <3>5, <3>6, <5>1
      <4>2. n = 3
        <5>1. Len(cut[1]) >= 3
          BY <3>6, <4>1 DEF Counts
        <5> QED
          BY <3>4, <3>5, <5>1
      <4> QED
        BY <3>5, <4>1, <4>2 DEF RoleIn, RoleFromString
    <3>7. ASSUME NEW u \in Users, NEW j \in DOMAIN file'[u], Counts(file'[u][j])
          PROVE  file'[u][j][1] = u /\ (u # Root /\ RoleIn(file'[u][j]) = "ADMIN" => u \in granted)
      BY <2>6, <3>1, <3>6, <3>7 DEF OwnLines
    <3> QED
      BY <1>1, <3>7 DEF OwnLines, Counts, RoleIn
  <2> QED
    BY <1>1, <2>7, <2>8 DEF AccInv, Plain
<1> QED
  BY <1>2, <1>3 DEF AccKilled

\* CREATE USER, DROP USER, GRANT and REVOKE.
LEMMA AccountInv ==
  ASSUME AccInv, NEW u \in Users, NEW role \in Roles, NEW password,
         (password \in Passwords /\ CreateUser(u, password)) \/ DropUser(u) \/ RevokeRole(u) \/ GrantRole(u, role)
  PROVE  AccInv'
<1>0. /\ users \in [Users -> Roles \cup {"absent"}]
      /\ passwords \in [Users -> Seq(Seq(Pieces \cup {"cut"}))]
      /\ granted \subseteq Users /\ odd \in BOOLEAN
      /\ NoPromotion
      /\ ~odd => \A v \in Users : Plain(passwords[v])
      /\ \A v \in Users : users[v] = "absent" <=> passwords[v] = <<>>
  BY DEF AccInv, AccTypeOK
<1>1. accPc = "idle" /\ users[Root] # "absent" /\ Save
  BY DEF CreateUser, DropUser, RevokeRole, GrantRole, AccInv
<1>2. CASE password \in Passwords /\ CreateUser(u, password)
  <2>1. /\ users' = [users EXCEPT ![u] = "USER"] /\ granted' = granted \ {u}
        /\ passwords' = [passwords EXCEPT ![u] = password] /\ odd' = (odd \/ ~ Plain(password))
    BY <1>2 DEF CreateUser
  <2>2. password # <<>> /\ password \in Seq(Seq(Pieces \cup {"cut"}))
    BY <1>2, PasswordsAssumption
  <2>3. NoPromotion' /\ odd' \in BOOLEAN
    BY <1>0, <2>1 DEF NoPromotion
  <2>4. \A v \in Users : users'[v] = "absent" <=> passwords'[v] = <<>>
    BY <1>0, <2>1, <2>2
  <2>5. ~odd' => \A v \in Users : Plain(passwords'[v])
    BY <1>0, <2>1
  <2> QED
    BY <1>0, <1>1, <2>1, <2>2, <2>3, <2>4, <2>5, SaveInv, UsersAssumption DEF Roles
<1>3. CASE DropUser(u)
  <2>1. /\ users' = [users EXCEPT ![u] = "absent"] /\ granted' = granted \ {u} /\ u # Root
        /\ passwords' = [passwords EXCEPT ![u] = <<>>] /\ odd' = odd
    BY <1>3 DEF DropUser, MayDropUser
  <2>2. Plain(<<>>) /\ <<>> \in Seq(Seq(Pieces \cup {"cut"}))
    BY DEF Plain
  <2>3. NoPromotion'
    BY <1>0, <2>1 DEF NoPromotion
  <2>4. ~odd' => \A v \in Users : Plain(passwords'[v])
    BY <1>0, <2>1, <2>2
  <2> QED
    BY <1>0, <1>1, <2>1, <2>2, <2>3, <2>4, SaveInv, UsersAssumption DEF Roles
<1>4. CASE RevokeRole(u)
  <2>1. /\ users' = [users EXCEPT ![u] = "USER"] /\ granted' = granted \ {u} /\ users[u] # "absent"
        /\ passwords' = passwords /\ odd' = odd
    BY <1>4 DEF RevokeRole, MayRevoke
  <2>2. NoPromotion'
    BY <1>0, <2>1 DEF NoPromotion
  <2> QED
    BY <1>0, <1>1, <2>1, <2>2, SaveInv, UsersAssumption DEF Roles
<1>5. CASE GrantRole(u, role)
  <2>1. /\ users' = [users EXCEPT ![u] = role] /\ users[u] # "absent"
        /\ granted' = IF role = "ADMIN" /\ u # Root THEN granted \cup {u} ELSE granted \ {u}
        /\ passwords' = passwords /\ odd' = odd
    BY <1>5 DEF GrantRole, MayGrant
  <2>2. users' \in [Users -> Roles \cup {"absent"}] /\ users'[Root] # "absent"
    BY <1>0, <1>1, <2>1, UsersAssumption DEF Roles
  <2>3. granted' \subseteq Users
    BY <1>0, <2>1
  <2>4. NoPromotion'
    BY <1>0, <2>1 DEF NoPromotion, Roles
  <2>5. \A v \in Users : users'[v] = "absent" <=> passwords'[v] = <<>>
    BY <1>0, <2>1 DEF Roles
  <2> QED
    BY <1>0, <1>1, <2>1, <2>2, <2>3, <2>4, <2>5, SaveInv
<1> QED
  BY <1>2, <1>3, <1>4, <1>5

\* With plain passwords a file that is written through loads as what is in memory.
LEMMA FileIsMemory ==
  ASSUME AccInv, accPc = "idle", \A u \in Users : Plain(passwords[u]), NEW u \in Users
  PROVE  LoadedRole(u) = users[u] /\ LoadedPassword(u) = passwords[u]
<1>1. AccTypeOK /\ \A v \in Users : file[v] = Record(v)
  BY DEF AccInv
<1>2. ASSUME NEW v \in Users
      PROVE  /\ users[v] \in Roles \cup {"absent"}
             /\ users[v] = "absent" => file[v] = <<>> /\ passwords[v] = <<>>
             /\ users[v] # "absent" => /\ file[v] = <<<<v, passwords[v][1][1], users[v]>>>>
                                       /\ passwords[v] = <<<<passwords[v][1][1]>>>>
  <2>1. users[v] \in Roles \cup {"absent"} /\ (users[v] = "absent" <=> passwords[v] = <<>>)
    BY DEF AccInv, AccTypeOK
  <2>2. IF users[v] = "absent" THEN Record(v) = <<>>
        ELSE Record(v) = <<<<v, passwords[v][1][1], users[v]>>>> /\ passwords[v] = <<<<passwords[v][1][1]>>>>
    BY <2>1, RecordIs, PasswordsAssumption DEF AccInv, AccTypeOK
  <2> QED
    BY <1>1, <2>1, <2>2
<1>3. ASSUME NEW v \in Users, NEW k \in DOMAIN file[v]
      PROVE  users[v] # "absent" /\ k = 1 /\ file[v][k] = <<v, passwords[v][1][1], users[v]>>
  <2>1. users[v] # "absent"
    BY <1>2, <1>3
  <2>2. DOMAIN file[v] = {1} /\ file[v][1] = <<v, passwords[v][1][1], users[v]>>
    <3>1. \A x : DOMAIN <<x>> = {1} /\ <<x>>[1] = x
      OBVIOUS
    <3> QED
      BY <1>2, <2>1, <3>1
  <2> QED
    BY <2>1, <2>2
<1>4. CASE LinesOf(u) = {}
  <2>1. PICK i \in DOMAIN Order : Order[i] = u
    BY UsersAssumption
  <2>2. ASSUME users[u] # "absent" PROVE FALSE
    <3>1. 1 \in DOMAIN file[u] /\ file[u][1] = <<u, passwords[u][1][1], users[u]>>
      <4>1. \A x : DOMAIN <<x>> = {1} /\ <<x>>[1] = x
        OBVIOUS
      <4> QED
        BY <1>2, <2>2, <4>1
    <3>2. Counts(file[u][1]) /\ file[u][1][1] = u
      <4>1. users[u] # ""
        BY <1>2 DEF Roles
      <4>2. Len(file[u][1]) = 3 /\ file[u][1][3] = users[u] /\ file[u][1][1] = u
        BY <3>1
      <4>3. Len(file[u][1]) >= 3
        BY <4>2
      <4>4. file[u][1][3] # ""
        BY <4>1, <4>2
      <4> QED
        BY <4>2, <4>3, <4>4, Zenon DEF Counts
    <3>3. <<i, 1>> \in LinesOf(u)
      BY <2>1, <3>1, <3>2 DEF LinesOf
    <3> QED
      BY <1>4, <3>3
  <2> QED
    BY <1>2, <1>4, <2>2 DEF LoadedRole, LoadedPassword
<1>5. CASE LinesOf(u) # {}
  <2>1. PICK v \in Users : \E k \in DOMAIN file[v] : LastLineOf(u) = file[v][k] /\ file[v][k][1] = u
    BY <1>1, <1>5, LastLineIs
  <2>2. users[v] # "absent" /\ LastLineOf(u) = <<v, passwords[v][1][1], users[v]>> /\ LastLineOf(u)[1] = u
    BY <1>3, <2>1
  <2>3. v = u
    BY <2>2
  <2>4. /\ Len(LastLineOf(u)) = 3
        /\ LastLineOf(u)[2] = passwords[u][1][1] /\ LastLineOf(u)[3] = users[u]
    BY <2>2, <2>3
  <2>5. RoleIn(LastLineOf(u)) = users[u]
    BY <1>2, <2>2, <2>3, <2>4 DEF RoleIn, RoleFromString, Roles
  <2> QED
    BY <1>2, <1>5, <2>2, <2>3, <2>4, <2>5 DEF LoadedRole, LoadedPassword
<1> QED
  BY <1>4, <1>5

LEMMA AccStep == AccInv /\ ([AccNext]_accVars \/ AccKilled) => AccInv'
<1> SUFFICES ASSUME AccInv, [AccNext]_accVars \/ AccKilled PROVE AccInv'
  OBVIOUS
<1>1. CASE AccKilled
  BY <1>1, AccKilledInv
<1>2. CASE LoadUsers \/ WriteRecord \/ SaveDone
  BY <1>2, LoadUsersInv, WriteRecordInv, SaveDoneInv
<1>3. ASSUME NEW u \in Users, DropUser(u) \/ RevokeRole(u) PROVE AccInv'
  BY <1>3, AccountInv DEF Roles
<1>4. ASSUME NEW u \in Users, NEW role \in Roles, GrantRole(u, role) PROVE AccInv'
  BY <1>4, AccountInv
<1>5. CASE UNCHANGED accVars
  <2>1. UNCHANGED memory /\ UNCHANGED <<users, passwords, file, accPc, unwritten, granted, odd>>
    BY <1>5 DEF accVars, memory
  <2>2. \A u \in Users : Record(u)' = Record(u)
    BY <2>1, RecordSame
  <2>3. AccTypeOK' /\ NoPromotion' /\ (OwnLines => OwnLines')
    BY <2>1 DEF AccInv, AccTypeOK, NoPromotion, OwnLines
  <2> QED
    BY <2>1, <2>2, <2>3 DEF AccInv, Elems
<1>6. ASSUME NEW u \in Users, NEW password \in Passwords, CreateUser(u, password) PROVE AccInv'
  BY <1>6, AccountInv DEF Roles
<1> QED
  BY <1>1, <1>2, <1>3, <1>4, <1>5, <1>6 DEF AccNext

-----------------------------------------------------------------------------
(***************************************************************************)
(* What a step of the server is for each of its parts.                     *)
(***************************************************************************)
LEMMA ServerIsCatalog == [Next]_vars => [CatNext]_catVars \/ Killed
<1> SUFFICES ASSUME [Next]_vars, ~UNCHANGED catVars, ~Killed PROVE CatNext
  OBVIOUS
<1>1. CASE Boot \/ Listen \/ Crash
  BY <1>1 DEF Boot, Listen, Crash, CatNext, Continue
<1>2. ASSUME NEW s \in Sessions, Connect(s) \/ Receive(s) \/ Disconnect(s) \/ ReadyRead(s)
      PROVE  FALSE
  BY <1>2 DEF Connect, Receive, Disconnect, ReadyRead
<1>3. CASE (\E u \in Users : Login(u)) \/ BadPacket \/ TooLarge \/ RefuseStatement \/ AccountStatement
           \/ Query \/ StatementEnd
  BY <1>3 DEF Login, BadPacket, TooLarge, RefuseStatement, AccountStatement, Query, StatementEnd
<1>4. CASE CatalogStatement
  BY <1>4 DEF CatalogStatement, CatNext
<1>5. CASE TableStatement
  BY <1>5 DEF TableStatement, CatNext
<1>6. CASE StatementStep
  BY <1>6 DEF StatementStep, CatNext
<1> QED
  BY <1>1, <1>2, <1>3, <1>4, <1>5, <1>6 DEF Next, HandlePacket, vars

LEMMA ServerIsAccounts == [Next]_vars => [AccNext]_accVars \/ AccKilled
<1> SUFFICES ASSUME [Next]_vars, ~UNCHANGED accVars, ~AccKilled PROVE AccNext
  OBVIOUS
<1>1. CASE Boot \/ Listen \/ Crash
  BY <1>1 DEF Boot, Listen, Crash, AccNext
<1>2. ASSUME NEW s \in Sessions, Connect(s) \/ Receive(s) \/ Disconnect(s) \/ ReadyRead(s)
      PROVE  FALSE
  BY <1>2 DEF Connect, Receive, Disconnect, ReadyRead
<1>3. CASE (\E u \in Users : Login(u)) \/ BadPacket \/ TooLarge \/ RefuseStatement
           \/ CatalogStatement \/ TableStatement \/ Query \/ StatementEnd
  BY <1>3 DEF Login, BadPacket, TooLarge, RefuseStatement, CatalogStatement, TableStatement, Query,
              StatementEnd
<1>4. CASE AccountStatement
  BY <1>4 DEF AccountStatement, AccNext
<1>5. CASE StatementStep
  BY <1>5 DEF StatementStep, AccNext
<1> QED
  BY <1>1, <1>2, <1>3, <1>4, <1>5 DEF Next, HandlePacket, vars

LEMMA ServerAccounts == Spec => []AccInv
<1>1. Init => AccInv
  BY AccInitInv DEF Init
<1>2. AccInv /\ [Next]_vars => AccInv'
  BY ServerIsAccounts, AccStep
<1> QED
  BY <1>1, <1>2, PTL DEF Spec

\* The server's registry has what the catalog's has, alone: no two blocks of a name, and every
\* acknowledged database (SqlService runs statements one at a time, so that none sees another's steps).
THEOREM ServerRegistry == Spec => [](NamesDistinct /\ AcknowledgedKept)
<1>1. Init => RegInv
  BY RegInit DEF Init
<1>2. RegInv /\ [Next]_vars => RegInv'
  BY ServerIsCatalog, RegStep, RegKilled
<1>3. RegInv => NamesDistinct /\ AcknowledgedKept
  BY DEF RegInv, Distinct, NamesDistinct, AcknowledgedKept
<1> QED
  BY <1>1, <1>2, <1>3, PTL DEF Spec

\* The same of the directories: between statements each registered database and the current
\* one have theirs, unless a kill took it.
THEOREM ServerDirectories == Spec => [](CatTypeOK /\ DirectoryKept)
<1>1. Init => RegInv /\ DirInv
  BY RegInit, DirInit DEF Init
<1>2. RegInv /\ DirInv /\ [Next]_vars => RegInv' /\ DirInv'
  BY ServerIsCatalog, RegStep, RegKilled, DirStep, DirKilled
<1>3. DirInv => CatTypeOK /\ DirectoryKept
  BY DEF DirInv, DirectoryKept, Named, Away
<1> QED
  BY <1>1, <1>2, <1>3, PTL DEF Spec

\* When the server listens between changes root exists, and, unless some password has a separator
\* or a line break, loading the user file gives what is in memory (SecurityManagerImpl::save, load).
THEOREM ServerUsersDurable == Spec => []UsersDurable
<1>1. AccInv => UsersDurable
  BY FileIsMemory DEF AccInv, UsersDurable
<1> QED
  BY <1>1, ServerAccounts, PTL

\* As long as no user was made with a password that has a separator or a line break, no cut in the
\* user file, and no restart from it, makes an administrator (SecurityManagerImpl::load).
THEOREM ServerNoPromotion == Spec => []NoPromotion
<1>1. AccInv => NoPromotion
  BY DEF AccInv
<1> QED
  BY <1>1, ServerAccounts, PTL

-----------------------------------------------------------------------------
(***************************************************************************)
(* Who changes the catalog and the accounts.                               *)
(***************************************************************************)

\* The connection whose statement changes the catalog step by step is an administrator's.
AdminInv ==
  listening /\ pc # "idle" => running /\ serving # NoOne /\ GetRole(user[serving]) = "ADMIN"

\* No statement steps on when none is under way, none ends the accounts' changes but the
\* writing of the file.
LEMMA ContinueBusy == Continue => pc # "idle"
BY DEF Continue, MakeSystem, RegisterDatabase, RemoveEntry, CopyEntry, RemoveDirectory,
       ClearRegistry, RewriteRegistry, DropDone, MakeTarget, CopyDone

LEMMA AdminAccepted ==
  ASSUME NEW kind \in AdminOnly, Accepts(kind)
  PROVE  serving # NoOne /\ ~running /\ GetRole(user[serving]) = "ADMIN"
BY DEF Accepts, Handling, Permitted, IsAdminOnly

\* A catalog statement is an administrator's, or leaves what it can leave.
LEMMA CatalogByAdmin ==
  CatalogStatement =>
    /\ UNCHANGED memory /\ user' = user
    /\ \/ /\ serving # NoOne /\ GetRole(user[serving]) = "ADMIN"
          /\ running' /\ UNCHANGED <<user, serving, listening>>
       \/ running' = running /\ UNCHANGED <<registry, dirs, tables, pc, listening>>
<1> SUFFICES ASSUME CatalogStatement
             PROVE  /\ UNCHANGED memory /\ user' = user
                    /\ \/ /\ serving # NoOne /\ GetRole(user[serving]) = "ADMIN"
                          /\ running' /\ UNCHANGED <<user, serving, listening>>
                       \/ running' = running /\ UNCHANGED <<registry, dirs, tables, pc, listening>>
  OBVIOUS
<1>0. UNCHANGED memory
  BY DEF CatalogStatement, accVars
<1>1. {"CREATE DATABASE", "DROP DATABASE", "BACKUP", "RESTORE"} \subseteq AdminOnly
  BY DEF AdminOnly
<1>2. ASSUME NEW n \in Names,
             \/ Accepts("CREATE DATABASE") /\ CreateDatabase(n) /\ Begin
             \/ Accepts("DROP DATABASE") /\ DropDatabase(n) /\ Begin
      PROVE  /\ serving # NoOne /\ GetRole(user[serving]) = "ADMIN"
             /\ running' /\ UNCHANGED <<user, serving, listening>>
  BY <1>1, <1>2, AdminAccepted DEF Begin
<1>3. ASSUME NEW n \in Names,
             \/ Accepts("DROP DATABASE") /\ DropDatabaseFails(n) /\ Answer
             \/ Accepts("USE") /\ UseDatabase(n) /\ Answer
      PROVE  running' = running /\ user' = user /\ UNCHANGED <<registry, dirs, tables, pc, listening>>
  BY <1>3 DEF DropDatabaseFails, UseDatabase, Answer, disk, local
<1>4. ASSUME NEW n \in Names, NEW p \in Paths,
             \/ Accepts("BACKUP") /\ BackupDatabase(n, p) /\ Begin
             \/ Accepts("RESTORE") /\ RestoreDatabase(n, p) /\ Begin
      PROVE  /\ serving # NoOne /\ GetRole(user[serving]) = "ADMIN"
             /\ running' /\ UNCHANGED <<user, serving, listening>>
  BY <1>1, <1>4, AdminAccepted DEF Begin
<1> QED
  BY <1>0, <1>2, <1>3, <1>4 DEF CatalogStatement

LEMMA AccountByAdmin ==
  AccountStatement => serving # NoOne /\ ~running /\ GetRole(user[serving]) = "ADMIN"
<1> SUFFICES ASSUME AccountStatement
             PROVE  serving # NoOne /\ ~running /\ GetRole(user[serving]) = "ADMIN"
  OBVIOUS
<1>1. PICK kind \in {"CREATE USER", "DROP USER", "GRANT", "REVOKE"} : Accepts(kind)
  BY DEF AccountStatement
<1>2. kind \in AdminOnly
  BY DEF AdminOnly
<1> QED
  BY <1>1, <1>2, AdminAccepted

LEMMA TableByAdmin ==
  TableStatement => serving # NoOne /\ ~running /\ GetRole(user[serving]) = "ADMIN"
<1> SUFFICES ASSUME TableStatement
             PROVE  serving # NoOne /\ ~running /\ GetRole(user[serving]) = "ADMIN"
  OBVIOUS
<1>1. PICK kind \in {"CREATE TABLE", "DROP TABLE"} : Accepts(kind)
  BY DEF TableStatement
<1>2. kind \in AdminOnly
  BY DEF AdminOnly
<1> QED
  BY <1>1, <1>2, AdminAccepted

LEMMA AdminInit == Init => AdminInv
BY DEF Init, AdminInv

LEMMA AdminStep == AdminInv /\ [Next]_vars => AdminInv'
<1> SUFFICES ASSUME AdminInv, [Next]_vars, listening', pc' # "idle"
             PROVE  running' /\ serving' # NoOne /\ GetRole(user[serving])' = "ADMIN"
  BY DEF AdminInv
<1> DEFINE Admin == running /\ serving # NoOne /\ GetRole(user[serving]) = "ADMIN"
<1>0. UNCHANGED <<users, user, serving>> => GetRole(user[serving])' = GetRole(user[serving])
  BY DEF GetRole
<1>1. CASE Boot
  BY <1>1 DEF Boot, netVars
<1>2. CASE Listen \/ Crash
  BY <1>2 DEF Listen, Crash, catVars, local
<1>3. ASSUME NEW s \in Sessions, Connect(s) \/ Receive(s) \/ Disconnect(s) \/ ReadyRead(s)
      PROVE  Admin'
  <2>1. pc' = pc /\ listening' = listening /\ users' = users
    BY <1>3 DEF Connect, Receive, Disconnect, ReadyRead, catVars, local, accVars, memory
  <2>2. Admin
    BY <2>1 DEF AdminInv
  <2>3. Receive(s)
    BY <1>3, <2>2 DEF Connect, Disconnect, ReadyRead
  <2> QED
    BY <1>0, <2>1, <2>2, <2>3 DEF Receive
<1>4. CASE (\E u \in Users : Login(u)) \/ BadPacket \/ TooLarge \/ RefuseStatement \/ Query
  <2>1. ~running /\ pc' = pc /\ listening' = listening
    BY <1>4 DEF Login, BadPacket, TooLarge, RefuseStatement, Query, Accepts, Answer, Handling,
                catVars, local
  <2> QED
    BY <2>1 DEF AdminInv
<1>5. CASE CatalogStatement
  <2>1. ~running
    BY <1>5 DEF CatalogStatement, Accepts, Handling
  <2> QED
    BY <1>0, <1>5, <2>1, CatalogByAdmin DEF AdminInv, memory
<1>6. CASE TableStatement
  <2>1. pc' = pc /\ listening' = listening
    BY <1>6 DEF TableStatement, CreateTable, DropTable, Answer, local
  <2> QED
    BY <1>6, <2>1, TableByAdmin DEF AdminInv
<1>7. CASE AccountStatement
  <2>1. pc' = pc /\ listening' = listening
    BY <1>7 DEF AccountStatement, Begin, catVars, local
  <2> QED
    BY <1>7, <2>1, AccountByAdmin DEF AdminInv
<1>8. CASE StatementStep
  <2>1. UNCHANGED netVars /\ users' = users /\ pc # "idle"
    BY <1>8, ContinueBusy DEF StatementStep, WriteRecord, SaveDone, accVars, memory, catVars, local
  <2> QED
    BY <1>0, <2>1 DEF AdminInv, netVars
<1>9. CASE StatementEnd
  BY <1>9 DEF StatementEnd, catVars, local
<1>10. CASE UNCHANGED vars
  <2>1. UNCHANGED <<netVars, users, pc>>
    BY <1>10 DEF vars, catVars, local, accVars, memory
  <2> QED
    BY <1>0, <2>1 DEF AdminInv, netVars
<1> QED
  BY <1>1, <1>2, <1>3, <1>4, <1>5, <1>6, <1>7, <1>8, <1>9, <1>10 DEF Next, HandlePacket

\* The databases, their tables and the accounts change only at start-up, by a kill, or by a statement
\* of a connection whose user is an administrator then (SqlService::execute looks the role up each time).
THEOREM ServerOnlyAdminsChange == Spec => OnlyAdminsChange
<1> DEFINE A == \/ accPc' = "down" \/ ~listening
                \/ UNCHANGED <<registry, dirs, tables, memory>>
                \/ serving # NoOne /\ GetRole(user[serving]) = "ADMIN"
<1>1. ASSUME AdminInv, [Next]_vars PROVE [A]_vars
  <2>1. CASE Boot \/ Listen \/ Crash
    BY <2>1 DEF Boot, Listen, Crash, AccKilled, catVars, disk, accVars
  <2>2. ASSUME NEW s \in Sessions, Connect(s) \/ Receive(s) \/ Disconnect(s) \/ ReadyRead(s)
        PROVE  A
    BY <2>2 DEF Connect, Receive, Disconnect, ReadyRead, catVars, disk, accVars
  <2>3. CASE (\E u \in Users : Login(u)) \/ BadPacket \/ TooLarge \/ RefuseStatement \/ Query
             \/ StatementEnd
    BY <2>3 DEF Login, BadPacket, TooLarge, RefuseStatement, Query, StatementEnd, catVars, disk, accVars
  <2>4. CASE CatalogStatement
    BY <2>4, CatalogByAdmin
  <2>5. CASE TableStatement \/ AccountStatement
    BY <2>5, TableByAdmin, AccountByAdmin
  <2>6. CASE StatementStep
    <3>1. CASE Continue
      BY <3>1, <1>1, ContinueBusy DEF AdminInv
    <3>2. CASE (WriteRecord \/ SaveDone) /\ UNCHANGED catVars
      BY <3>2 DEF WriteRecord, SaveDone, catVars, disk
    <3> QED
      BY <2>6, <3>1, <3>2 DEF StatementStep
  <2> QED
    BY <1>1, <2>1, <2>2, <2>3, <2>4, <2>5, <2>6 DEF Next, HandlePacket
<1>2. ASSUME AdminInv, [Next]_vars PROVE AdminInv'
  BY <1>2, AdminStep
<1> QED
  BY <1>1, <1>2, AdminInit, PTL DEF Spec, OnlyAdminsChange

-----------------------------------------------------------------------------
(***************************************************************************)
(* The loop comes free.  No packet and no statement keeps the thread for   *)
(* ever: every step of it takes one of the packets away, or brings the     *)
(* statement to an earlier stage, or leaves it fewer lines, blocks or      *)
(* entries to deal with.                                                   *)
(***************************************************************************)
\* A statement not yet begun is the farthest from its end.
Stage ==
  CASE ~running -> 5
    [] running /\ accPc = "save" -> 4
    [] running /\ accPc # "save" /\ pc \in {"wipe", "delete"} -> 3
    [] running /\ accPc # "save" /\ pc \in {"copy", "clear"} -> 2
    [] running /\ accPc # "save" /\ pc \in {"boot", "register", "fill", "rewrite"} -> 1
    [] running /\ accPc # "save" /\ pc \in {"down", "idle"} -> 0

\* Of the directory being removed or copied, the entries still to go.
Entries ==
  CASE pc \in {"wipe", "delete"} -> tables[to]
    [] pc = "fill" -> tables[from] \ tables[to]
    [] pc \notin {"wipe", "delete", "fill"} -> {}

Left == Len(unwritten) + Len(rest) + Cardinality(Entries)

Nearer ==
  \/ batch' < batch
  \/ batch' = batch /\ Stage' < Stage
  \/ batch' = batch /\ Stage' = Stage /\ Left' < Left

\* What the numbers and the steps rely on: the thread has a packet in hand, and a
\* statement steps on only in a process that is up, beginning from a quiet one.
ServeInv ==
  /\ batch \in Nat /\ packets \in [Sessions -> Nat]
  /\ serving # NoOne \/ conn # {} => listening
  /\ serving # NoOne => batch > 0
  /\ running => serving # NoOne /\ (pc = "idle" \/ accPc = "idle")
  /\ listening => pc # "down" /\ accPc # "down"
  /\ listening /\ ~running => pc = "idle" /\ accPc = "idle"
  /\ ~listening /\ pc # "down" => accPc = "idle"

LEMMA ServeInit == Init => ServeInv
BY DEF Init, CatInit, AccInit, ServeInv

\* After a reply the next packet is in hand, or the loop is free.
LEMMA ReplyLeaves ==
  ASSUME ServeInv, serving # NoOne, Replied
  PROVE  /\ batch' \in Nat /\ batch' < batch
         /\ serving' # NoOne => serving' = serving /\ batch' > 0
BY DEF ServeInv, Replied

\* Statements step on only while the process is up.
LEMMA ContinueUp ==
  Continue => pc \notin {"down", "idle"} /\ pc' # "down" /\ (pc' = "idle" \/ pc' \notin {"down", "idle"})
BY DEF Continue, MakeSystem, RegisterDatabase, RemoveEntry, CopyEntry, RemoveDirectory,
       ClearRegistry, RewriteRegistry, DropDone, MakeTarget, CopyDone, Finish, Leave, local

\* A statement begins with the catalog or the accounts, the other is left alone.
LEMMA CatalogBegins ==
  CatalogStatement =>
    /\ Handling /\ UNCHANGED <<accVars, listening, packets, conn>>
    /\ \/ Begin /\ pc' # "down"
       \/ Answer /\ pc' = pc
<1> SUFFICES ASSUME CatalogStatement
             PROVE  /\ Handling /\ UNCHANGED <<accVars, listening, packets, conn>>
                    /\ \/ Begin /\ pc' # "down"
                       \/ Answer /\ pc' = pc
  OBVIOUS
<1>0. UNCHANGED accVars
  BY DEF CatalogStatement
<1> DEFINE Begun == Handling /\ ((Begin /\ pc' # "down") \/ (Answer /\ pc' = pc))
<1>1. ASSUME NEW n \in Names,
             \/ Accepts("CREATE DATABASE") /\ CreateDatabase(n) /\ Begin
             \/ Accepts("DROP DATABASE") /\ DropDatabase(n) /\ Begin
      PROVE  Begun
  BY <1>1 DEF Accepts, CreateDatabase, DropDatabase
<1>2. ASSUME NEW n \in Names,
             \/ Accepts("DROP DATABASE") /\ DropDatabaseFails(n) /\ Answer
             \/ Accepts("USE") /\ UseDatabase(n) /\ Answer
      PROVE  Begun
  BY <1>2 DEF Accepts, DropDatabaseFails, UseDatabase, local
<1>3. ASSUME NEW n \in Names, NEW p \in Paths,
             \/ Accepts("BACKUP") /\ BackupDatabase(n, p) /\ Begin
             \/ Accepts("RESTORE") /\ RestoreDatabase(n, p) /\ Begin
      PROVE  Begun
  BY <1>3 DEF Accepts, BackupDatabase, RestoreDatabase, Copy
<1>4. Begun
  BY <1>1, <1>2, <1>3 DEF CatalogStatement
<1> QED
  BY <1>0, <1>4 DEF Begin, Answer

LEMMA AccountBegins ==
  AccountStatement => Handling /\ Begin /\ accPc' = "save" /\ UNCHANGED catVars
<1> SUFFICES ASSUME AccountStatement
             PROVE  Handling /\ Begin /\ accPc' = "save" /\ UNCHANGED catVars
  OBVIOUS
<1>1. PICK kind \in {"CREATE USER", "DROP USER", "GRANT", "REVOKE"} : Accepts(kind)
  BY DEF AccountStatement
<1>2. Begin /\ Save /\ UNCHANGED catVars
  BY DEF AccountStatement, CreateUser, DropUser, RevokeRole, GrantRole
<1> QED
  BY <1>1, <1>2 DEF Accepts, Save

\* Packets that are answered at once, whatever they ask for.
LEMMA AnsweredAtOnce ==
  (\E u \in Users : Login(u)) \/ BadPacket \/ RefuseStatement \/ TableStatement \/ Query =>
    /\ Handling /\ Replied
    /\ UNCHANGED <<pc, accPc, listening, packets, running, conn>>
<1> SUFFICES ASSUME (\E u \in Users : Login(u)) \/ BadPacket \/ RefuseStatement \/ TableStatement \/ Query
             PROVE  /\ Handling /\ Replied
                    /\ UNCHANGED <<pc, accPc, listening, packets, running, conn>>
  OBVIOUS
<1>1. ASSUME NEW u \in Users, Login(u) PROVE Handling /\ Replied /\ UNCHANGED <<pc, accPc, listening, packets, running, conn>>
  BY <1>1 DEF Login, catVars, accVars, local
<1>2. CASE BadPacket \/ RefuseStatement
  BY <1>2 DEF BadPacket, RefuseStatement, Refused, catVars, accVars, local
<1>3. CASE Query
  BY <1>3 DEF Query, Accepts, Answer, catVars, accVars, local
<1>4. CASE TableStatement
  <2>1. PICK t \in Tables : \/ Accepts("CREATE TABLE") /\ CreateTable(t) /\ Answer
                            \/ Accepts("DROP TABLE") /\ DropTable(t) /\ Answer
    BY <1>4 DEF TableStatement
  <2>2. UNCHANGED accVars
    BY <1>4 DEF TableStatement
  <2> QED
    BY <2>1, <2>2 DEF Accepts, CreateTable, DropTable, Answer, local, accVars
<1> QED
  BY <1>1, <1>2, <1>3, <1>4

LEMMA ServeStep == ServeInv /\ [Next]_vars => ServeInv'
<1> SUFFICES ASSUME ServeInv, [Next]_vars PROVE ServeInv'
  OBVIOUS
<1>1. CASE Boot
  <2>1. UNCHANGED netVars /\ ~listening
    BY <1>1 DEF Boot
  <2>2. CASE LoadUsers /\ UNCHANGED catVars
    <3>1. pc' = pc /\ pc = "down"
      BY <2>1, <2>2 DEF LoadUsers, ServeInv, catVars, local
    <3> QED
      BY <2>1, <3>1 DEF ServeInv, netVars
  <2>3. CASE (WriteRecord \/ SaveDone) /\ UNCHANGED catVars
    <3>1. pc' = pc /\ pc = "down"
      BY <2>1, <2>3 DEF WriteRecord, SaveDone, ServeInv, catVars, local
    <3> QED
      BY <2>1, <3>1 DEF ServeInv, netVars
  <2>4. CASE accPc = "idle" /\ UNCHANGED accVars
    BY <2>1, <2>4 DEF ServeInv, netVars, accVars
  <2> QED
    BY <1>1, <2>2, <2>3, <2>4 DEF Boot
<1>2. CASE Listen
  BY <1>2 DEF Listen, ServeInv, catVars, local, accVars
<1>3. CASE Crash
  BY <1>3 DEF Crash, Killed, Leave, AccKilled, ServeInv
<1>4. ASSUME NEW s \in Sessions, Connect(s) \/ Receive(s) \/ Disconnect(s)
      PROVE  ServeInv'
  <2>1. listening /\ UNCHANGED <<pc, accPc, listening, serving, batch, running>>
    BY <1>4 DEF Connect, Receive, Disconnect, ServeInv, catVars, local, accVars
  <2>2. packets' \in [Sessions -> Nat]
    BY <1>4 DEF Connect, Receive, Disconnect, Forget, ServeInv
  <2> QED
    BY <2>1, <2>2 DEF ServeInv
<1>5. ASSUME NEW s \in Sessions, ReadyRead(s)
      PROVE  ServeInv'
  <2>1. UNCHANGED <<pc, accPc, listening, running>>
    BY <1>5 DEF ReadyRead, catVars, local, accVars
  <2>2. batch' > 0 /\ batch' \in Nat /\ packets' \in [Sessions -> Nat]
    BY <1>5 DEF ReadyRead, ServeInv
  <2>3. serving' = s /\ s # NoOne
    BY <1>5, SessionsAssumption DEF ReadyRead
  <2>4. ~running
    BY <1>5 DEF ReadyRead, ServeInv
  <2>5. listening
    BY <1>5 DEF ReadyRead, ServeInv
  <2>6. conn' = conn
    BY <1>5 DEF ReadyRead
  <2> QED
    BY <2>1, <2>2, <2>3, <2>4, <2>5, <2>6 DEF ServeInv
<1>6. CASE (\E u \in Users : Login(u)) \/ BadPacket \/ RefuseStatement \/ TableStatement \/ Query
  BY <1>6, AnsweredAtOnce, ReplyLeaves DEF Handling, ServeInv
<1>7. CASE TooLarge
  BY <1>7 DEF TooLarge, Forget, Handling, ServeInv, catVars, local, accVars
<1>8. CASE CatalogStatement
  BY <1>8, CatalogBegins, ReplyLeaves DEF Handling, Begin, Answer, ServeInv, accVars
<1>9. CASE AccountStatement
  <2>1. UNCHANGED <<pc, listening, packets, serving, batch, conn>> /\ running' /\ accPc' = "save" /\ Handling
    BY <1>9, AccountBegins DEF Begin, catVars, local
  <2> QED
    BY <2>1 DEF Handling, ServeInv
<1>10. CASE StatementStep
  <2>1. UNCHANGED netVars /\ running
    BY <1>10 DEF StatementStep
  <2>2. CASE Continue /\ UNCHANGED accVars
    <3>1. accPc' = "idle" /\ pc' # "down"
      BY <2>1, <2>2, ContinueUp DEF ServeInv, accVars
    <3> QED
      BY <2>1, <3>1 DEF ServeInv, netVars
  <2>3. CASE (WriteRecord \/ SaveDone) /\ UNCHANGED catVars
    <3>1. accPc' # "down" /\ pc' = "idle"
      BY <2>1, <2>3 DEF WriteRecord, SaveDone, ServeInv, catVars, local
    <3> QED
      BY <2>1, <3>1 DEF ServeInv, netVars
  <2> QED
    BY <1>10, <2>2, <2>3 DEF StatementStep
<1>11. CASE StatementEnd
  <2>1. serving # NoOne
    BY <1>11 DEF StatementEnd, ServeInv
  <2> QED
    BY <1>11, <2>1, ReplyLeaves DEF StatementEnd, ServeInv, catVars, local, accVars
<1>12. CASE UNCHANGED vars
  BY <1>12 DEF vars, catVars, local, accVars, netVars, ServeInv
<1> QED
  BY <1>1, <1>2, <1>3, <1>4, <1>5, <1>6, <1>7, <1>8, <1>9, <1>10, <1>11, <1>12 DEF Next, HandlePacket

\* What is counted is there to be counted.
LEMMA EntriesCounted ==
  ASSUME IsFiniteSet(Tables), CatTypeOK
  PROVE  Entries \subseteq Tables /\ IsFiniteSet(Entries) /\ Cardinality(Entries) \in Nat
<1>1. Entries \subseteq Tables
  BY DEF CatTypeOK, Entries, Steps
<1>2. IsFiniteSet(Entries)
  BY <1>1, FS_Subset
<1> QED
  BY <1>1, <1>2, FS_CardinalityType

LEMMA StageIs == CatTypeOK => Stage \in Nat
BY DEF CatTypeOK, Steps, Stage

LEMMA LeftIs ==
  ASSUME IsFiniteSet(Tables), CatTypeOK, AccTypeOK
  PROVE  Left \in Nat
BY EntriesCounted DEF Left, CatTypeOK, AccTypeOK

\* A step of a statement on the catalog.
LEMMA ContinueNearer ==
  ASSUME IsFiniteSet(Tables), CatTypeOK, AccTypeOK, ServeInv, running,
         Continue, UNCHANGED netVars, UNCHANGED accVars
  PROVE  Nearer
<1>0. batch' = batch /\ running' /\ accPc' = accPc /\ unwritten' = unwritten
  BY DEF netVars, accVars
<1>1. accPc = "idle"
  BY ContinueUp DEF ServeInv
<1>2. ASSUME pc' = pc, Left' < Left
      PROVE  Nearer
  <2>1. Stage' = Stage
    BY <1>0, <1>1, <1>2 DEF Stage
  <2> QED
    BY <1>0, <1>2, <2>1 DEF Nearer
<1>3. ASSUME Stage' < Stage
      PROVE  Nearer
  BY <1>0, <1>3 DEF Nearer
<1>4. Len(unwritten) \in Nat /\ Len(rest) \in Nat /\ Cardinality(Entries) \in Nat /\ IsFiniteSet(Entries)
  BY EntriesCounted DEF AccTypeOK, CatTypeOK
<1>5. ASSUME pc' = pc, rest' = rest, NEW t \in Entries, Entries' = Entries \ {t}
      PROVE  Nearer
  <2>1. Cardinality(Entries') = Cardinality(Entries) - 1
    BY <1>4, <1>5, FS_RemoveElement
  <2> QED
    BY <1>0, <1>2, <1>4, <1>5, <2>1 DEF Left
<1>6. CASE MakeSystem \/ RegisterDatabase
  BY <1>0, <1>1, <1>3, <1>6 DEF MakeSystem, RegisterDatabase, Finish, Leave, Stage
<1>7. ASSUME NEW t \in Tables, RemoveEntry(t) PROVE Nearer
  <2>1. pc' = pc /\ rest' = rest /\ to' = to /\ pc \in {"wipe", "delete"} /\ t \in Entries
    BY <1>7 DEF RemoveEntry, local, Entries
  <2>2. tables'[to] = tables[to] \ {t}
    BY <1>7 DEF RemoveEntry, CatTypeOK
  <2>3. Entries' = Entries \ {t}
    BY <2>1, <2>2 DEF Entries
  <2> QED
    BY <1>5, <2>1, <2>3
<1>8. ASSUME NEW t \in Tables, CopyEntry(t) PROVE Nearer
  <2>1. pc' = pc /\ rest' = rest /\ to' = to /\ from' = from /\ pc = "fill" /\ t \in Entries
    BY <1>8 DEF CopyEntry, local, Entries
  <2>2. from # to
    BY <1>8 DEF CopyEntry
  <2>3. tables'[to] = tables[to] \cup {t} /\ tables'[from] = tables[from]
    BY <1>8, <2>2 DEF CopyEntry, CatTypeOK
  <2>4. Entries' = Entries \ {t}
    BY <2>1, <2>3 DEF Entries
  <2> QED
    BY <1>5, <2>1, <2>4
<1>9. CASE RemoveDirectory
  BY <1>0, <1>1, <1>3, <1>9 DEF RemoveDirectory, Stage
<1>10. CASE ClearRegistry \/ MakeTarget
  BY <1>0, <1>1, <1>3, <1>10 DEF ClearRegistry, MakeTarget, Stage
<1>11. CASE RewriteRegistry
  <2>1. pc = "rewrite" /\ pc' = "rewrite" /\ Len(rest') = Len(rest) - 1
    BY <1>11 DEF RewriteRegistry, CatTypeOK
  <2>2. Entries = {} /\ Entries' = {}
    BY <2>1 DEF Entries
  <2>3. Left' < Left
    BY <1>0, <1>4, <2>1, <2>2 DEF Left
  <2> QED
    BY <1>2, <2>1, <2>3
<1>12. CASE DropDone \/ CopyDone
  BY <1>0, <1>1, <1>3, <1>12 DEF DropDone, CopyDone, Finish, Leave, Stage
<1> QED
  BY <1>6, <1>7, <1>8, <1>9, <1>10, <1>11, <1>12 DEF Continue

\* A step of a statement on the accounts: save writes the next line, or is done.
LEMMA SaveNearer ==
  ASSUME IsFiniteSet(Tables), CatTypeOK, AccTypeOK, ServeInv, running,
         WriteRecord \/ SaveDone, UNCHANGED netVars, UNCHANGED catVars
  PROVE  Nearer
<1>0. batch' = batch /\ running' /\ UNCHANGED <<pc, from, to, rest, tables>>
  BY DEF netVars, catVars, disk, local
<1>1. CASE WriteRecord
  <2>1. accPc = "save" /\ accPc' = "save" /\ Len(unwritten') = Len(unwritten) - 1
    BY <1>1 DEF WriteRecord, AccTypeOK
  <2>2. Len(unwritten) \in Nat /\ Len(rest) \in Nat /\ Cardinality(Entries) \in Nat
    BY EntriesCounted DEF AccTypeOK, CatTypeOK
  <2>3. Entries' = Entries
    BY <1>0 DEF Entries
  <2>4. Left' < Left
    BY <1>0, <2>1, <2>2, <2>3 DEF Left
  <2>5. Stage' = Stage
    BY <1>0, <2>1 DEF Stage
  <2> QED
    BY <1>0, <2>4, <2>5 DEF Nearer
<1>2. CASE SaveDone
  <2>1. accPc = "save" /\ accPc' = "idle" /\ pc = "idle"
    BY <1>2 DEF SaveDone, ServeInv
  <2> QED
    BY <1>0, <2>1 DEF Nearer, Stage
<1> QED
  BY <1>1, <1>2

\* A packet that asks for a statement makes it the one in progress.
LEMMA BeginNearer ==
  ASSUME CatTypeOK', ServeInv, Handling, Begin
  PROVE  Nearer
<1>1. batch' = batch /\ ~running /\ running'
  BY DEF Begin, Handling
<1>2. pc' \in Steps
  BY DEF CatTypeOK
<1>3. Stage' < Stage
  BY <1>1, <1>2 DEF Stage, Steps
<1> QED
  BY <1>1, <1>3 DEF Nearer

LEMMA StepNearer ==
  ASSUME IsFiniteSet(Tables), CatTypeOK, AccTypeOK, ServeInv, CatTypeOK',
         serving # NoOne, Next
  PROVE  Nearer \/ \E s \in Sessions : Receive(s)
<1>1. CASE Boot \/ Listen
  BY <1>1 DEF Boot, Listen, ServeInv
<1>2. CASE Crash
  BY <1>2 DEF Crash, ServeInv, Nearer
<1>3. ASSUME NEW s \in Sessions, Connect(s) \/ Receive(s) \/ Disconnect(s) \/ ReadyRead(s)
      PROVE  Receive(s)
  BY <1>3 DEF Connect, Disconnect, ReadyRead
<1>4. CASE (\E u \in Users : Login(u)) \/ BadPacket \/ RefuseStatement \/ TableStatement \/ Query
  BY <1>4, AnsweredAtOnce, ReplyLeaves DEF Nearer
<1>5. CASE TooLarge
  BY <1>5 DEF TooLarge, ServeInv, Nearer
<1>6. CASE CatalogStatement
  BY <1>6, CatalogBegins, BeginNearer, ReplyLeaves DEF Answer, Nearer
<1>7. CASE AccountStatement
  BY <1>7, AccountBegins, BeginNearer
<1>8. CASE StatementStep
  BY <1>8, ContinueNearer, SaveNearer DEF StatementStep
<1>9. CASE StatementEnd
  BY <1>9, ReplyLeaves DEF StatementEnd, Nearer
<1> QED
  BY <1>1, <1>2, <1>3, <1>4, <1>5, <1>6, <1>7, <1>8, <1>9 DEF Next, HandlePacket

\* While the thread has packets in hand it has a step to take for them.
HasStep ==
  serving # NoOne =>
    \/ Handling
    \/ running /\ pc = "idle" /\ accPc = "idle"
    \/ running /\ accPc = "save"
    \/ running /\ pc \in Steps \ {"down", "idle"} /\ tables[to] \cup tables[from] \subseteq Tables

LoopInv == RegInv /\ DirInv /\ AccInv /\ ServeInv

LEMMA LoopInvKept == Spec => []LoopInv
<1>1. Init => LoopInv
  BY RegInit, DirInit, AccInitInv, ServeInit DEF Init, LoopInv
<1>2. LoopInv /\ [Next]_vars => LoopInv'
  BY ServerIsCatalog, RegStep, RegKilled, DirStep, DirKilled, ServerIsAccounts, AccStep, ServeStep
     DEF LoopInv
<1> QED
  BY <1>1, <1>2, PTL DEF Spec

\* The thread that handles packets is never left without a step: a packet waits to be looked at,
\* or the statement can go on or end (the loops of TcpServer::handlePacket and the executors).
THEOREM ServerHasStep == Spec => []HasStep
<1>1. LoopInv => HasStep
  <2> SUFFICES ASSUME LoopInv, serving # NoOne, running, ~(pc = "idle" /\ accPc = "idle"), accPc # "save"
               PROVE  pc \in Steps \ {"down", "idle"} /\ tables[to] \cup tables[from] \subseteq Tables
    BY DEF HasStep, Handling, LoopInv, ServeInv
  <2>1. CatTypeOK /\ accPc \in {"idle", "save"} /\ pc # "down"
    BY DEF LoopInv, DirInv, AccInv, AccTypeOK, ServeInv
  <2> QED
    BY <2>1 DEF CatTypeOK
<1> QED
  BY <1>1, LoopInvKept, PTL

\* And it does not take steps for ever: with finitely many files in a directory, each step but the
\* arrival of a packet lowers the packets in hand, the stage of the statement or what it has left,
\* the first before the others. So the loop comes free, whatever the packets ask for.
THEOREM ServerRunsDown ==
  ASSUME IsFiniteSet(Tables)
  PROVE  Spec => /\ [](batch \in Nat /\ Stage \in Nat /\ Left \in Nat)
                 /\ [][serving # NoOne => Nearer \/ \E s \in Sessions : Receive(s)]_vars
<1>1. LoopInv => batch \in Nat /\ Stage \in Nat /\ Left \in Nat
  BY StageIs, LeftIs DEF LoopInv, DirInv, AccInv, ServeInv
<1>2. LoopInv /\ LoopInv' /\ [Next]_vars =>
        [serving # NoOne => Nearer \/ \E s \in Sessions : Receive(s)]_vars
  <2>1. ASSUME LoopInv, LoopInv', Next, serving # NoOne
        PROVE  Nearer \/ \E s \in Sessions : Receive(s)
    <3>1. CatTypeOK /\ AccTypeOK /\ ServeInv /\ CatTypeOK'
      BY <2>1 DEF LoopInv, DirInv, AccInv
    <3> QED
      BY <2>1, <3>1, StepNearer
  <2> QED
    BY <2>1
<1> QED
  BY <1>1, <1>2, LoopInvKept, PTL DEF Spec
=============================================================================
