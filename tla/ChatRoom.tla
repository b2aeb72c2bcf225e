------------------------------- MODULE ChatRoom -------------------------------
(***************************************************************************)
(* What the Multichat server promises to its users, without sockets,       *)
(* buffers or threads: a name has one holder at a time, the room has one   *)
(* sequence of messages, to which only the holder of a name adds, and who  *)
(* joins hears the logged messages it lacks and then all that others say,  *)
(* once each and in that order.  ChatServer implements it.                 *)
(***************************************************************************)
EXTENDS Naturals, Sequences, FiniteSets, Subsequence

CONSTANTS Conn, Name, NameOf, SinceOf, NoConn

VARIABLES
    holder,     \* holder[n]: the connection that holds name n
    spoken,     \* the messages of the room, oldest first
    joined,     \* joined[c]: how much was logged and spoken when c joined
    heard       \* heard[c]: the messages c was told

vars == <<holder, spoken, joined, heard>>

Message == [op : {"SMG_BROADMSG"}, user : Name, msg : Conn \X Nat]

TypeOK ==
    /\ holder \in [Name -> Conn \cup {NoConn}]
    /\ spoken \in Seq(Message)
    /\ joined \in [Conn -> [in : BOOLEAN, logged : Nat, spoken : Nat]]
    /\ heard \in [Conn -> Seq(Message)]

Init ==
    /\ holder = [n \in Name |-> NoConn]
    /\ spoken = <<>>
    /\ joined = [c \in Conn |-> [in |-> FALSE, logged |-> 0, spoken |-> 0]]
    /\ heard = [c \in Conn |-> <<>>]

\* The messages meant for c: what was in the log when it joined, from the
\* first it lacks, then what others have said since.
NotOwn(c) == {m \in Message : m.msg[1] # c}
Feed(c) ==
    SubSeq(spoken, SinceOf[c] + 1, joined[c].logged)
        \o Only(SubSeq(spoken, joined[c].spoken + 1, Len(spoken)), NotOwn(c))

\* c takes a name nobody holds.  The log may be behind the room.
Join(c) ==
    /\ ~joined[c].in
    /\ holder[NameOf[c]] = NoConn
    /\ holder' = [holder EXCEPT ![NameOf[c]] = c]
    /\ \E k \in 0 .. Len(spoken) :
        joined' = [joined EXCEPT ![c] =
                    [in |-> TRUE, logged |-> k, spoken |-> Len(spoken)]]
    /\ UNCHANGED <<spoken, heard>>

Leave(c) ==
    /\ holder[NameOf[c]] = c
    /\ holder' = [holder EXCEPT ![NameOf[c]] = NoConn]
    /\ UNCHANGED <<spoken, joined, heard>>

\* The next message of c, under the name it holds.
Say(c) ==
    /\ holder[NameOf[c]] = c
    /\ LET before == {i \in DOMAIN spoken : spoken[i].msg[1] = c}
       IN  spoken' = Append(spoken, [op |-> "SMG_BROADMSG", user |-> NameOf[c],
                                     msg |-> <<c, Cardinality(before) + 1>>])
    /\ UNCHANGED <<holder, joined, heard>>

\* c is told some more of what is meant for it.
Hear(c) ==
    /\ joined[c].in
    /\ \E k \in Len(heard[c]) .. Len(Feed(c)) :
        heard' = [heard EXCEPT ![c] = SubSeq(Feed(c), 1, k)]
    /\ UNCHANGED <<holder, spoken, joined>>

Next == \E c \in Conn : Join(c) \/ Leave(c) \/ Say(c) \/ Hear(c)

Spec == Init /\ [][Next]_vars
=============================================================================
