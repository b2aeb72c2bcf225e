----------------------------- MODULE MCChatServer -----------------------------
(***************************************************************************)
(* ChatServer on small instances: three connections, the first two of which *)
(* ask for the same name.                                                  *)
(***************************************************************************)
EXTENDS ChatServerProperties, TLC

CONSTANTS c1, c2, c3, alice, bob

MCConn == {c1, c2, c3}
MCTwoConn == {c1, c3}
MCRivals == {c1, c2}
MCFirst == {c1}
MCSecond == {c2}
MCNobody == {}
MCName == {alice, bob}

MCNameOf == [c \in Conn |-> IF c = c3 THEN bob ELSE alice]

\* c3 has the room's first message on file, the others nothing.
MCSinceOf == [c \in Conn |-> IF c = c3 THEN 1 ELSE 0]
MCNothingOnFile == [c \in Conn |-> 0]

MCSilent == [c \in Conn |-> 0]
MCTwoEach == [c \in Conn |-> 2]
MCOneFromFirst == [c \in Conn |-> IF c = c1 THEN 1 ELSE 0]
MCOneEach == [c \in Conn |-> 1]

MCOneFd == {5}
MCTwoFds == {5, 6}
MCThreeFds == {5, 6, 7}

\* c1 and c2 are alike.
MCSymmetry == Permutations({c1, c2})
=============================================================================
