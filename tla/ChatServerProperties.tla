------------------------- MODULE ChatServerProperties -------------------------
(***************************************************************************)
(* What the server must keep true whatever the interleaving of its three   *)
(* threads, the kernel and the clients: properties of ChatServer.          *)
(***************************************************************************)
EXTENDS ChatServer, Subsequence

Up == server = "up"
Registered == {fd \in clients : username[fd] # NoName}

\* The event the main thread is in the middle of, if any.
Current == IF pc \in {"wait", "loop"} THEN {} ELSE {cur}
Pending == batch \cup Current

\* What the room has been told, oldest first.
Spoken == log \o logQueue

-----------------------------------------------------------------------------
(***************************************************************************)
(* Registration.                                                           *)
(***************************************************************************)
\* userMap and the usernames in clientMap are inverse of each other: no name
\* is held by two connections, no entry outlives its connection, and none is
\* lost when dropClient() gives the mutex back in the middle.
RegistryAgrees ==
    /\ \A n \in UserList : userMap[n] \in clients /\ username[userMap[n]] = n
    /\ \A fd \in Registered : userMap[username[fd]] = fd

\* clientBroadMsg() never takes a client that keeps to the protocol for an
\* impostor, whoever used its descriptor before: a connection is marked to
\* die only with the refusal of its name as the last of its output.
OnlyRefusedMarked ==
    \A fd \in markToDie :
        /\ writeBuf[fd] # <<>>
        /\ writeBuf[fd][Len(writeBuf[fd])] = ServerValidate(FALSE, {})

\* Every pending event is about the connection it was reported for: a close
\* and an accept that reuse the descriptor never leave a stale event behind.
EventsAreFresh ==
    Up => \A e \in Pending : e.fd \in epollSet /\ sock[e.fd] = e.conn

\* epoll_ctl() never fails, which would end the process (epollModify).
KernelCallsSucceed == server # "exited"

-----------------------------------------------------------------------------
(***************************************************************************)
(* Edges.  With EPOLLET an edge that is missed is never reported again.    *)
(***************************************************************************)
\* Buffered output waits for an edge that is on its way: the client is armed
\* (or about to be, or about to be dropped), and when its socket has room
\* the edge is on the ready list or among the pending events.
OutputHasAnEdge ==
    Up => \A fd \in clients \cap epollSet :
        writeBuf[fd] # <<>> =>
            \/ \E e \in Current : e.fd = fd
            \/ /\ fd \in armed
               /\ Writable(fd) => fd \in ready \/ \E e \in batch : e.fd = fd

\* What a client sent, and its end, waits in the kernel for an edge that is
\* on its way.
InputHasAnEdge ==
    Up => \A fd \in clients \cap epollSet :
        Readable(fd) => fd \in ready \/ \E e \in Pending : e.fd = fd

\* A connection that waits in the backlog has the edge of the listening socket
\* coming, or the accept thread at work, until it is accepted; it loses them
\* only where accept() finds no descriptor free (server.cpp:404), and is then
\* not accepted before somebody else dials, however many are closed.
BacklogKeepsItsEdge ==
    [][backlog # {} /\ (lready \/ apc # "poll") =>
        \/ backlog' = {} \/ lready' \/ apc' # "poll"
        \/ FreeFds = {}]_vars

\* Nothing a client sent waits in readBuf while the main thread sleeps with
\* nothing to wake it up (README.md: messages are exchanged in real time).
NoStrandedPacket ==
    Up /\ pc = "wait" /\ ready = {} => \A fd \in clients : readBuf[fd] = <<>>

-----------------------------------------------------------------------------
(***************************************************************************)
(* What a client is told.                                                  *)
(***************************************************************************)
\* All that was sent to the connection of descriptor fd, in order.
Stream(fd) == LET c == sock[fd] IN inbox[c] \o outq[c] \o writeBuf[fd]

\* The clients in the room whose connection is whole.
Members == {fd \in Registered : peer[sock[fd]] = "open"}

Answers(s) == {i \in DOMAIN s : s[i].op = "SMG_VALIDATE"}

\* Packet p says that user n is in the room, or that n is not.
SaysIn(p, n) ==
    \/ p.op = "SMG_CONNECT" /\ p.user = n
    \/ p.op = "SMG_VALIDATE" /\ n \in p.users
SaysOut(p, n) ==
    \/ p.op = "SMG_DISCONNECT" /\ p.user = n
    \/ p.op = "SMG_VALIDATE" /\ n \notin p.users

\* A member's list of users, once it has read all that was sent to it, is
\* the registry: the list in the answer, the joins and the leaves add up,
\* and no name is listed twice.  A user whose leave is being told is out.
UserListsAgree ==
    Up => \A fd \in Members :
        LET s == Stream(fd)
            start == CHOOSE i \in Answers(s) : TRUE
            Ins(n) == {i \in start .. Len(s) : SaysIn(s[i], n)}
            Outs(n) == {i \in start .. Len(s) : SaysOut(s[i], n)}
            leaving == IF pc = "erase" THEN {username[cur.fd]} ELSE {}
        IN  /\ Cardinality(Answers(s)) = 1
            /\ fd # cur.fd \/ pc # "erase" =>
                \A n \in Name :
                    n \in UserList \ leaving <=>
                        \E i \in Ins(n) : \A j \in Outs(n) : j < i
            /\ \A n \in Name : \A i, k \in Ins(n) :
                i < k => \E j \in Outs(n) : i < j /\ j < k

\* A member is told, after its answer, exactly the logged messages it asked
\* for and then every later message of the others, once each, in the one
\* order of the room.
FeedIsExact ==
    Up => \A fd \in Members :
        LET s == Stream(fd)
            c == sock[fd]
            start == CHOOSE i \in Answers(s) : TRUE
            told == Only(SubSeq(s, start, Len(s)), BroadPacket)
            replayed == SubSeq(Spoken, SinceOf[c] + 1, joined[c].logged)
            live == SubSeq(Spoken, joined[c].spoken + 1, Len(Spoken))
            notOwn == {m \in BroadPacket : m.msg[1] # c}
        IN  told = replayed \o Only(live, notOwn)

\* The server implements the room: the holder of a name is the connection
\* its descriptor refers to, and a client has heard the messages it has read
\* after its answer.
Room ==
    INSTANCE ChatRoom WITH
        holder <- [n \in Name |->
                    IF userMap[n] = NoFd THEN NoConn ELSE sock[userMap[n]]],
        spoken <- Spoken,
        heard <- [c \in Conn |->
                    IF inbox[c] # <<>> /\ inbox[c][1].op = "SMG_VALIDATE"
                    THEN Only(inbox[c], BroadPacket) ELSE <<>>]

\* No client sees two holders of a name, a message out of the room's order,
\* twice, or not meant for it, and no message is said by who holds no name.
ImplementsChatRoom == Room!Spec

\* A connection hears nothing before the answer to its CMG_CONNECT, which
\* the client takes the first packet for (src/client/chatWin/packet.cpp:52).
AnswerComesFirst ==
    \A c \in Conn : inbox[c] # <<>> => inbox[c][1].op = "SMG_VALIDATE"

\* A refused client is told so ("Send rejection response to client",
\* src/server/servUtils.cpp:13): it never sees the connection just end.
RejectionIsDelivered == \A c \in Conn : Up /\ c \notin Quitters => cst[c] # "failed"

-----------------------------------------------------------------------------
(***************************************************************************)
(* Progress, under the fairness of FairSpec.                               *)
(***************************************************************************)
\* A client that waits for its answer does not wait for ever.
WaitEnds == \A c \in Conn : cst[c] = "wait" ~> cst[c] # "wait"

\* A connection whose client went away is dropped.
GoneIsDropped ==
    \A c \in Conn : cst[c] = "gone" ~> ~ServerHolds(c)

\* What is buffered for a member that reads is written to it.
OutputDrains ==
    \A fd \in Fd :
        (Up /\ fd \in clients /\ writeBuf[fd] # <<>>)
            ~> (~Up \/ fd \notin clients \/ writeBuf[fd] = <<>>)
=============================================================================
