------------------------------- MODULE Accounts -------------------------------
(***************************************************************************)
(* Users and their roles (SecurityManagerImpl, UserExecutor).              *)
(*                                                                         *)
(* The users are kept in memory and written to the user file, as a whole,  *)
(* after every change: the file is emptied and gets a record per user, in  *)
(* the order of std::map, name|password|role and a line break.  A kill     *)
(* leaves a prefix of the records, the last of them perhaps cut.           *)
(*                                                                         *)
(* Neither CREATE USER nor save looks at what a password holds: the text   *)
(* between two quotes may have separators and line breaks.  So a password  *)
(* is a sequence of lines, and a line a sequence of the pieces between its *)
(* separators; a plain one is a single line of a single piece.             *)
(***************************************************************************)
EXTENDS Naturals, Sequences

CONSTANTS
  Users,         \* user names
  Root,          \* "root"
  Order,         \* the user names in the order of std::map
  Pieces,        \* what may stand between two separators, "" for nothing
  Passwords,     \* the passwords users are created with
  RootPassword   \* the password root is made with

ASSUME UsersAssumption ==
  /\ Root \in Users
  /\ Order \in Seq(Users)
  /\ \A u \in Users : \E i \in DOMAIN Order : Order[i] = u

\* Users has every name a line of a password could be taken for.
ASSUME PasswordsAssumption ==
  /\ Users \cup {"ADMIN", "USER"} \subseteq Pieces
  /\ Passwords \subseteq Seq(Seq(Pieces)) \ {<<>>}
  /\ \E t \in Pieces : RootPassword = <<<<t>>>>

VARIABLES
  users,         \* users_: the role of each user, "absent" if there is none
  passwords,     \* users_: the password of each user, <<>> if there is none
  file,          \* the user file: for each user, the lines written for it
  accPc,         \* "down", "idle" or "save"
  unwritten,     \* save: the users still to write, in order
  granted,       \* users other than root given ADMIN and not deprived of it (history)
  odd            \* a user was created with a password that is not plain (history)

memory  == <<users, passwords>>
accVars == <<memory, file, accPc, unwritten, granted, odd>>

Roles == {"ADMIN", "USER"}

Plain(password) == \A k \in DOMAIN password : k = 1 /\ Len(password[k]) = 1

AccInit ==
  /\ users = [u \in Users |-> "absent"]
  /\ passwords = [u \in Users |-> <<>>]
  /\ file = [u \in Users |-> <<>>]
  /\ accPc = "down"
  /\ unwritten = <<>>
  /\ granted = {}
  /\ odd = FALSE

-----------------------------------------------------------------------------
\* Faulty: what is not USER is taken for ADMIN.
RoleUnlessUser(text) == IF text = "USER" THEN "USER" ELSE "ADMIN"

RoleFromString(text) == IF text = "ADMIN" THEN "ADMIN" ELSE "USER"

GetRole(u) == IF u \in Users /\ users[u] = "ADMIN" THEN "ADMIN" ELSE "USER"

\* What save writes for u: its name before the first line of its password,
\* its role after the last.
Record(u) ==
  LET password == passwords[u]
  IN  [k \in DOMAIN password |->
         (IF k = 1 THEN <<u>> ELSE <<>>) \o password[k]
           \o (IF k = Len(password) THEN <<users[u]>> ELSE <<>>)]

\* save empties the file; its records follow one by one.
Save ==
  /\ file' = [u \in Users |-> <<>>]
  /\ unwritten' = Order
  /\ accPc' = "save"

WriteRecord ==
  /\ accPc = "save"
  /\ unwritten # <<>>
  /\ file' = [file EXCEPT ![Head(unwritten)] = Record(Head(unwritten))]
  /\ unwritten' = Tail(unwritten)
  /\ UNCHANGED <<memory, accPc, granted, odd>>

SaveDone ==
  /\ accPc = "save"
  /\ unwritten = <<>>
  /\ accPc' = "idle"
  /\ UNCHANGED <<memory, file, unwritten, granted, odd>>

\* load splits a line at its first two separators; what is behind them is the role.
Counts(line) == Len(line) >= 3 /\ (Len(line) = 3 => line[3] # "")

RoleIn(line) == IF Len(line) = 3 THEN RoleFromString(line[3]) ELSE "USER"

\* Where in the file the lines are that name u; the last of them counts.
LinesOf(u) ==
  {at \in UNION {{i} \X DOMAIN file[Order[i]] : i \in DOMAIN Order} :
     LET line == file[Order[at[1]]][at[2]] IN Counts(line) /\ line[1] = u}

LastLineOf(u) ==
  LET last == CHOOSE at \in LinesOf(u) :
                \A b \in LinesOf(u) : b[1] < at[1] \/ (b[1] = at[1] /\ b[2] <= at[2])
  IN  file[Order[last[1]]][last[2]]

LoadedRole(u) == IF LinesOf(u) = {} THEN "absent" ELSE RoleIn(LastLineOf(u))

LoadedPassword(u) == IF LinesOf(u) = {} THEN <<>> ELSE <<<<LastLineOf(u)[2]>>>>

\* The constructor: load, then add root if it is not there, then save.
LoadUsers ==
  /\ accPc = "down"
  /\ users' = [u \in Users |-> IF u = Root /\ LinesOf(u) = {} THEN "ADMIN" ELSE LoadedRole(u)]
  /\ passwords' = [u \in Users |->
                     IF u = Root /\ LinesOf(u) = {} THEN RootPassword ELSE LoadedPassword(u)]
  /\ Save
  /\ UNCHANGED <<granted, odd>>

\* The first part of a record that is in the file when save is cut off in its line k.
CutRecord(record, k, n) ==
  SubSeq(record, 1, k - 1) \o <<[SubSeq(record[k], 1, n) EXCEPT ![n] = "cut"]>>

\* Killed while saving, some of the record being written may be left.
AccKilled ==
  /\ \/ UNCHANGED file
     \/ /\ unwritten # <<>>
        /\ LET record == Record(Head(unwritten))
           IN  \E k \in DOMAIN record : \E n \in DOMAIN record[k] :
                 file' = [file EXCEPT ![Head(unwritten)] = CutRecord(record, k, n)]
  /\ users' = [u \in Users |-> "absent"]
  /\ passwords' = [u \in Users |-> <<>>]
  /\ accPc' = "down"
  /\ unwritten' = <<>>
  /\ UNCHANGED <<granted, odd>>

-----------------------------------------------------------------------------
(***************************************************************************)
(* CREATE USER, DROP USER, GRANT and REVOKE.  The root user cannot be      *)
(* dropped or revoked; GRANT can give it any role.                         *)
(***************************************************************************)
MayCreateUser(u) == users[u] = "absent"
MayDropUser(u)   == u # Root /\ users[u] # "absent"
MayGrant(u)      == users[u] # "absent"
MayRevoke(u)     == u # Root /\ users[u] # "absent"

CreateUser(u, password) ==
  /\ accPc = "idle"
  /\ MayCreateUser(u)
  /\ users' = [users EXCEPT ![u] = "USER"]
  /\ passwords' = [passwords EXCEPT ![u] = password]
  /\ granted' = granted \ {u}
  /\ odd' = (odd \/ ~ Plain(password))
  /\ Save

DropUser(u) ==
  /\ accPc = "idle"
  /\ MayDropUser(u)
  /\ users' = [users EXCEPT ![u] = "absent"]
  /\ passwords' = [passwords EXCEPT ![u] = <<>>]
  /\ granted' = granted \ {u}
  /\ Save
  /\ UNCHANGED odd

GrantRole(u, role) ==
  /\ accPc = "idle"
  /\ MayGrant(u)
  /\ users' = [users EXCEPT ![u] = role]
  /\ granted' = IF role = "ADMIN" /\ u # Root THEN granted \cup {u} ELSE granted \ {u}
  /\ Save
  /\ UNCHANGED <<passwords, odd>>

\* Faulty: the change stays in memory.
RevokeInMemory(u) ==
  /\ accPc = "idle"
  /\ MayRevoke(u)
  /\ users' = [users EXCEPT ![u] = "USER"]
  /\ granted' = granted \ {u}
  /\ UNCHANGED <<passwords, file, accPc, unwritten, odd>>

RevokeRole(u) ==
  /\ accPc = "idle"
  /\ MayRevoke(u)
  /\ users' = [users EXCEPT ![u] = "USER"]
  /\ granted' = granted \ {u}
  /\ Save
  /\ UNCHANGED <<passwords, odd>>

AccNext ==
  \/ LoadUsers \/ WriteRecord \/ SaveDone
  \/ accPc # "down" /\ AccKilled
  \/ \E u \in Users :
       \/ \E password \in Passwords : CreateUser(u, password)
       \/ DropUser(u) \/ RevokeRole(u)
       \/ \E role \in Roles : GrantRole(u, role)

-----------------------------------------------------------------------------
(***************************************************************************)
(* Properties.                                                             *)
(***************************************************************************)

\* The type invariant.
AccTypeOK ==
  /\ users \in [Users -> Roles \cup {"absent"}]
  /\ passwords \in [Users -> Seq(Seq(Pieces \cup {"cut"}))]
  /\ file \in [Users -> Seq(Seq(Pieces \cup {"cut"}))]
  /\ accPc \in {"down", "idle", "save"}
  /\ unwritten \in Seq(Users)
  /\ granted \subseteq Users
  /\ odd \in BOOLEAN

\* Whenever the server listens, root can log in, and unless some user has a password with a
\* separator or a line break, a restart changes no account: load would make of the user file
\* what is in memory (every operation of SecurityManagerImpl ends in save).
UsersDurable ==
  accPc = "idle" =>
    /\ users[Root] # "absent"
    /\ (\A u \in Users : Plain(passwords[u])) =>
         \A u \in Users : LoadedRole(u) = users[u] /\ LoadedPassword(u) = passwords[u]

\* Nobody but root ever has the role ADMIN without having been granted it since it was last
\* taken away, also after any number of kills within save and restarts from what it left,
\* as long as no password ever had a separator or a line break.
NoPromotion == ~ odd => \A u \in Users \ {Root} : users[u] = "ADMIN" => u \in granted
=============================================================================
