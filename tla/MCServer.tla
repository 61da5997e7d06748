------------------------------- MODULE MCServer -------------------------------
(***************************************************************************)
(* The server with two connections, of which only one gets ahead of the    *)
(* thread, two users, a database and a table.                              *)
(***************************************************************************)
EXTENDS Server

CONSTANTS root, ann, s1, s2

MCUsers == {ann, root}
MCOrder == <<ann, root>>
MCPieces == MCUsers \cup {"ADMIN", "USER", "p", ""}
MCPasswords == {<<<<"p">>>>}
MCRootPassword == <<<<"p">>>>
MCSessions == {s1, s2}
MCMaxPackets == [s \in MCSessions |-> IF s = s1 THEN 2 ELSE 1]
=============================================================================
