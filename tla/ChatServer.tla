------------------------------ MODULE ChatServer ------------------------------
(***************************************************************************)
(* The Multichat server (src/server): the epoll loop of the main thread,   *)
(* the accept thread and the log thread, over the kernel's sockets and     *)
(* edge-triggered epoll instance, with the clients of src/client as its    *)
(* environment.                                                            *)
(*                                                                         *)
(* Abstractions.  A packet is a record and the byte streams carry whole    *)
(* packets (a packet cut by a short read or write is put together again by *)
(* the length header).  A message is named by its author and its number.   *)
(* A connection is used once: a client that dials again is another member  *)
(* of Conn.  The queue of the log thread and the batch it has moved out of *)
(* the queue are one sequence, logQueue.  The time of a message is its     *)
(* position among the room's messages.                                     *)
(***************************************************************************)
EXTENDS Naturals, Sequences, FiniteSets

CONSTANTS
    Conn,       \* the TCP connections clients ever open
    Name,       \* the usernames
    Fd,         \* the descriptors the server may have for connections
    NameOf,     \* NameOf[c]: the username the client on c asks for
    SinceOf,    \* SinceOf[c]: how many of the messages the client on c has on file
    Quitters,   \* the connections whose client may go away
    NoName,     \* the empty username of an unregistered connection
    NoConn,     \* what a closed descriptor refers to
    SockCap,    \* packets a socket takes before write() says EAGAIN
    MaxEvents,  \* MAX_EVENTS, the size of the array given to epoll_wait()
    MaxSend     \* bound: MaxSend[c] messages are sent on connection c

ASSUME NamesAssumption ==
    /\ NoName \notin Name
    /\ NoConn \notin Conn
    /\ NameOf \in [Conn -> Name]
    /\ SinceOf \in [Conn -> Nat]
    /\ Quitters \subseteq Conn
ASSUME FdAssumption == Fd \subseteq Nat \ {0} /\ IsFiniteSet(Fd)
ASSUME BoundsAssumption ==
    /\ SockCap \in Nat \ {0}
    /\ MaxEvents \in Nat \ {0}
    /\ MaxSend \in [Conn -> Nat]

NoFd == 0       \* no entry in userMap

Smaller(m, n) == IF m < n THEN m ELSE n

(***************************************************************************)
(* Packets (src/protocol.hpp).                                             *)
(***************************************************************************)
Message == Conn \X Nat

ClientConnect(user, since) ==
    [op |-> "CMG_CONNECT", user |-> user, since |-> since]
ClientBroadMsg(msg) == [op |-> "CMG_BROADMSG", msg |-> msg]
ServerValidate(able, users) ==
    [op |-> "SMG_VALIDATE", able |-> able, users |-> users]
ServerConnect(user) == [op |-> "SMG_CONNECT", user |-> user]
ServerDisconnect(user) == [op |-> "SMG_DISCONNECT", user |-> user]
ServerBroadMsg(user, msg) == [op |-> "SMG_BROADMSG", user |-> user, msg |-> msg]

BroadPacket == [op : {"SMG_BROADMSG"}, user : Name, msg : Message]
ClientPacket ==
    [op : {"CMG_CONNECT"}, user : Name, since : Nat]
        \cup [op : {"CMG_BROADMSG"}, msg : Message]
ServerPacket ==
    [op : {"SMG_VALIDATE"}, able : BOOLEAN, users : SUBSET Name]
        \cup [op : {"SMG_CONNECT", "SMG_DISCONNECT"}, user : Name]
        \cup BroadPacket

VARIABLES
    \* the kernel
    peer,       \* peer[c]: the client's end, as the server's TCP knows it
    backlog,    \* connections that wait for accept()
    lready,     \* the listening socket is on the accept thread's ready list
    sock,       \* sock[fd]: the connection descriptor fd refers to
    inq,        \* inq[c]: sent by the client, not yet read by the server
    outq,       \* outq[c]: written by the server, not yet read by the client
    epollSet,   \* descriptors registered with epollFd
    armed,      \* those whose interest (epollMask) includes EPOLLOUT
    ready,      \* the ready list of epollFd
    \* the server's memory
    clients,    \* the keys of clientMap
    username,   \* the fields of clientMap[fd]
    readBuf,
    writeBuf,
    markToDie,
    userMap,
    logQueue,
    log,        \* the records in the log files, in file order
    \* the threads
    server,     \* the process: up, or why it ended
    pc,         \* the main thread
    cur,        \* the event the main thread handles
    batch,      \* the events of this epoll_wait() still to be handled
    apc,        \* the accept thread
    afd,        \* its clientFd
    \* the clients
    cst,        \* cst[c]: where the client is
    inbox,      \* inbox[c]: history of the packets the client has read
    nsent,      \* nsent[c]: messages the client has sent
    joined      \* history: what was logged and spoken when c was registered

kernelVars == <<peer, backlog, lready, sock, inq, outq>>
epollVars == <<epollSet, armed, ready>>
connVars == <<clients, username, readBuf, writeBuf, markToDie, userMap>>
logVars == <<logQueue, log>>
mainVars == <<pc, cur, batch>>
acceptVars == <<apc, afd>>
clientVars == <<cst, inbox, nsent>>

vars == <<kernelVars, epollVars, connVars, logVars, server, mainVars,
          acceptVars, clientVars, joined>>

Steps == {"wait", "loop", "arm", "write", "disarm", "drop", "erase"}
PeerStates == {"none", "open", "fin", "answered", "rst", "broken"}
ClientStates == {"idle", "dialed", "wait", "chat", "rejected", "failed",
                 "dead", "gone"}
Event == [fd : Fd, conn : Conn, in : BOOLEAN, out : BOOLEAN, hup : BOOLEAN]
NoEvent == [fd |-> NoFd, conn |-> NoConn, in |-> FALSE, out |-> FALSE,
            hup |-> FALSE]

KernelType ==
    /\ peer \in [Conn -> PeerStates]
    /\ backlog \subseteq Conn
    /\ lready \in BOOLEAN
    /\ sock \in [Fd -> Conn \cup {NoConn}]
    /\ inq \in [Conn -> Seq(ClientPacket)]
    /\ outq \in [Conn -> Seq(ServerPacket)]
    /\ epollSet \subseteq Fd
    /\ armed \subseteq Fd
    /\ ready \subseteq Fd

TablesType ==
    /\ clients \subseteq Fd
    /\ username \in [Fd -> Name \cup {NoName}]
    /\ readBuf \in [Fd -> Seq(ClientPacket)]
    /\ writeBuf \in [Fd -> Seq(ServerPacket)]
    /\ markToDie \subseteq Fd
    /\ userMap \in [Name -> Fd \cup {NoFd}]
    /\ logQueue \in Seq(BroadPacket)
    /\ log \in Seq(BroadPacket)

ThreadsType ==
    /\ server \in {"up", "exited", "crashed", "killed"}
    /\ pc \in Steps
    /\ cur \in Event \cup {NoEvent}
    /\ batch \subseteq Event
    /\ apc \in {"poll", "accept", "emplace", "add"}
    /\ afd \in Fd \cup {NoFd}

ClientsType ==
    /\ cst \in [Conn -> ClientStates]
    /\ inbox \in [Conn -> Seq(ServerPacket)]
    /\ nsent \in [Conn -> Nat]
    /\ joined \in [Conn -> [in : BOOLEAN, logged : Nat, spoken : Nat]]

TypeOK == KernelType /\ TablesType /\ ThreadsType /\ ClientsType

Init ==
    /\ peer = [c \in Conn |-> "none"]
    /\ backlog = {}
    /\ lready = FALSE
    /\ sock = [fd \in Fd |-> NoConn]
    /\ inq = [c \in Conn |-> <<>>]
    /\ outq = [c \in Conn |-> <<>>]
    /\ epollSet = {} /\ armed = {} /\ ready = {}
    /\ clients = {}
    /\ username = [fd \in Fd |-> NoName]
    /\ readBuf = [fd \in Fd |-> <<>>]
    /\ writeBuf = [fd \in Fd |-> <<>>]
    /\ markToDie = {}
    /\ userMap = [n \in Name |-> NoFd]
    /\ logQueue = <<>> /\ log = <<>>
    /\ server = "up"
    /\ pc = "wait" /\ cur = NoEvent /\ batch = {}
    /\ apc = "poll" /\ afd = NoFd
    /\ cst = [c \in Conn |-> "idle"]
    /\ inbox = [c \in Conn |-> <<>>]
    /\ nsent = [c \in Conn |-> 0]
    /\ joined = [c \in Conn |-> [in |-> FALSE, logged |-> 0, spoken |-> 0]]

-----------------------------------------------------------------------------
(***************************************************************************)
(* The kernel.  epollFd is edge-triggered: a descriptor enters the ready   *)
(* list when something happens to its socket, or when epoll_ctl() finds it *)
(* ready, and leaves it when epoll_wait() reports it.                      *)
(***************************************************************************)
Readable(fd) ==
    \E c \in Conn : sock[fd] = c /\ (inq[c] # <<>> \/ peer[c] # "open")
Writable(fd) ==
    \E c \in Conn :
        sock[fd] = c /\ (peer[c] # "open" \/ Len(outq[c]) < SockCap)
HungUp(fd) == \E c \in Conn : sock[fd] = c /\ peer[c] \in {"rst", "broken"}

\* The registered descriptors of connection c: the ones an edge on c reaches.
Watching(c) == {fd \in epollSet : sock[fd] = c}

\* The server still holds its end of c.
ServerHolds(c) ==
    server = "up" /\ (c \in backlog \/ \E fd \in Fd : sock[fd] = c)

\* What epoll_wait() reports of fd, from the state of its socket.
EventOf(fd) ==
    [fd |-> fd, conn |-> sock[fd], in |-> Readable(fd),
     out |-> fd \in armed /\ Writable(fd), hup |-> HungUp(fd)]

\* epoll_ctl(EPOLL_CTL_MOD) that adds EPOLLOUT to the descriptors in F;
\* epollModify() ends the process when epoll_ctl() fails.
ArmAll(F) ==
    /\ armed' = armed \cup F
    /\ ready' = ready \cup {fd \in F : Readable(fd) \/ Writable(fd)}
    /\ server' = IF F \subseteq epollSet THEN server ELSE "exited"

(***************************************************************************)
(* The server's tables.                                                    *)
(***************************************************************************)
FaultyUsernameExists(n) == FALSE    \* fault: the look-up is left out
usernameExists(n) == n \in Name /\ userMap[n] # NoFd
UserList == {n \in Name : usernameExists(n)}

FaultyMutexFree == TRUE     \* fault: the main thread does not take the mutex

\* clientMapMtx is free: the accept thread is not between emplace() and the
\* end of its lock_guard.  The main thread holds it within single steps.
MutexFree == apc # "add"

valConnMsg(n, fd) == n # NoName /\ userMap[n] = fd

\* What serializeToAllButSender() does with packet p and sender fd: p goes
\* to every client but fd, and a client whose buffer was empty is armed.
Others(fd) == clients \ {fd}
AppendTo(F, p) ==
    [f \in Fd |-> IF f \in F THEN Append(writeBuf[f], p) ELSE writeBuf[f]]
FaultyQuiet(F) == {f \in F : writeBuf[f] # <<>>}     \* fault: wasEmpty negated
Quiet(F) == {f \in F : writeBuf[f] = <<>>}

\* sendBackLogFiles(): the logged messages newer than the client's newest.
FaultyBackLog(since) ==     \* fault: the last record is not read
    SubSeq(log, since + 1, Len(log) - 1)
BackLog(since) == SubSeq(log, since + 1, Len(log))

\* The main thread goes to step s of event e, with b still to be handled.
Goto(s, e, b) ==
    /\ pc' = s
    /\ cur' = IF s \in {"wait", "loop"} THEN NoEvent ELSE e
    /\ batch' = b

\* Where it goes once an event is done with ...
Resume(b) == IF b = {} THEN "wait" ELSE "loop"

\* ... and once handleRead() is done, arming aside: drop, write, or go on.
AfterRead(e, dying, b) ==
    IF dying THEN "drop" ELSE IF e.out THEN "write" ELSE Resume(b)

\* ... and after a write(): write the rest, or disarm, or go on.
FaultyAfterWrite(fd, rest) == "disarm"  \* fault: disarm with output left
AfterWrite(fd, rest) ==
    IF rest # <<>> THEN "write"
    ELSE IF fd \in armed THEN "disarm" ELSE Resume(batch)

-----------------------------------------------------------------------------
(***************************************************************************)
(* The main thread: one epoll_wait(), then its events in any order.        *)
(***************************************************************************)
EpollWait ==
    /\ server = "up" /\ pc = "wait"
    /\ \E reported \in SUBSET ready :
        LET events == {EventOf(fd) : fd \in reported}
            shown == {e \in events : e.in \/ e.out \/ e.hup}
        IN  /\ Cardinality(shown) <= MaxEvents
            /\ reported # ready => Cardinality(shown) = MaxEvents
            /\ shown # {}
            /\ ready' = ready \ reported
            /\ Goto("loop", NoEvent, shown)
    /\ UNCHANGED <<kernelVars, epollSet, armed, connVars, logVars, server,
                   acceptVars, clientVars, joined>>

\* The next event is e, and clientMapMtx is free for lockFindCli().
Handles(e) ==
    /\ server = "up" /\ pc = "loop" /\ e \in batch
    /\ MutexFree

\* The connection is gone, or lockFindCli() finds no client: drop it.
HangUp(e) ==
    /\ Handles(e)
    /\ e.hup \/ e.fd \notin clients
    /\ Goto("drop", e, batch \ {e})
    /\ UNCHANGED <<kernelVars, epollVars, connVars, logVars, server,
                   acceptVars, clientVars, joined>>

\* Fault: the end of the connection is taken for "nothing to read".
FaultyReadClosed(e) ==
    /\ Handles(e)
    /\ ~e.hup /\ e.in /\ e.fd \in clients
    /\ \E c \in Conn : sock[e.fd] = c /\ peer[c] # "open"
    /\ Goto(AfterRead(e, FALSE, batch \ {e}), e, batch \ {e})
    /\ UNCHANGED <<kernelVars, epollVars, connVars, logVars, server,
                   acceptVars, clientVars, joined>>

\* handleRead() when drainReadPipe() meets the end of the connection: what
\* was still to be read is dropped with the client.
ReadClosed(e) ==
    /\ Handles(e)
    /\ ~e.hup /\ e.in /\ e.fd \in clients
    /\ \E c \in Conn :
        /\ sock[e.fd] = c /\ peer[c] # "open"
        /\ readBuf' = [readBuf EXCEPT ![e.fd] = @ \o inq[c]]
        /\ inq' = [inq EXCEPT ![c] = <<>>]
    /\ Goto("drop", e, batch \ {e})
    /\ UNCHANGED <<peer, backlog, lready, sock, outq, epollVars, clients,
                   username, writeBuf, markToDie, userMap, logVars, server,
                   acceptVars, clientVars, joined>>

\* handleRead() drains c into readBuf and takes the first packet, p, off it;
\* the packets behind p stay in readBuf until the next event of fd.
Takes(e, c, p) ==
    /\ Handles(e)
    /\ ~e.hup /\ e.in /\ e.fd \in clients
    /\ sock[e.fd] = c /\ peer[c] = "open"
    /\ LET drained == readBuf[e.fd] \o inq[c]
       IN  /\ drained # <<>>
           /\ p = Head(drained)
           /\ readBuf' = [readBuf EXCEPT ![e.fd] = Tail(drained)]
    /\ inq' = [inq EXCEPT ![c] = <<>>]

\* clientConnect() with a name that is taken: refuse, and mark to die.
ReadConnectRejected(e) ==
    /\ \E c \in Conn :
        LET p == Head(readBuf[e.fd] \o inq[c])
        IN  /\ Takes(e, c, p)
            /\ p.op = "CMG_CONNECT" /\ usernameExists(p.user)
    /\ writeBuf' = AppendTo({e.fd}, ServerValidate(FALSE, {}))
    /\ markToDie' = markToDie \cup {e.fd}
    /\ LET b == batch \ {e}
       IN  Goto(IF Quiet({e.fd}) # {} THEN "arm" ELSE AfterRead(e, TRUE, b), e, b)
    /\ UNCHANGED <<peer, backlog, lready, sock, outq, epollVars, clients,
                   username, userMap, logVars, server, acceptVars, clientVars,
                   joined>>

\* clientConnect() with a free name: register it, answer with the list of
\* users, tell the others, and replay the log to the newcomer.
ReadConnectAccepted(e) ==
    /\ \E c \in Conn :
        LET p == Head(readBuf[e.fd] \o inq[c])
        IN  /\ Takes(e, c, p)
            /\ p.op = "CMG_CONNECT" /\ ~usernameExists(p.user)
            /\ userMap' = [userMap EXCEPT ![p.user] = e.fd]
            /\ username' = [username EXCEPT ![e.fd] = p.user]
            /\ writeBuf' =
                [AppendTo(Others(e.fd), ServerConnect(p.user)) EXCEPT
                    ![e.fd] = @ \o <<ServerValidate(TRUE, UserList')>>
                                \o BackLog(p.since)]
            /\ joined' = [joined EXCEPT ![c] =
                            [in |-> TRUE, logged |-> Len(log),
                             spoken |-> Len(log) + Len(logQueue)]]
    /\ ArmAll(Quiet(Others(e.fd)))
    /\ LET b == batch \ {e}
       IN  Goto(IF Quiet({e.fd}) # {} THEN "arm" ELSE AfterRead(e, FALSE, b), e, b)
    /\ UNCHANGED <<peer, backlog, lready, sock, outq, epollSet, clients,
                   markToDie, logVars, acceptVars, clientVars>>

\* clientBroadMsg(): to everyone else and to the log thread's queue; a
\* sender whose name is not registered to it is marked to die.
ReadBroadMsg(e) ==
    /\ \E c \in Conn :
        LET p == Head(readBuf[e.fd] \o inq[c])
            n == username[e.fd]
            valid == valConnMsg(n, e.fd)
            others == IF valid THEN Others(e.fd) ELSE {}
            b == batch \ {e}
        IN  /\ Takes(e, c, p)
            /\ p.op = "CMG_BROADMSG"
            /\ writeBuf' = AppendTo(others, ServerBroadMsg(n, p.msg))
            /\ ArmAll(Quiet(others))
            /\ logQueue' = IF valid THEN Append(logQueue, ServerBroadMsg(n, p.msg))
                                    ELSE logQueue
            /\ markToDie' = IF valid THEN markToDie ELSE markToDie \cup {e.fd}
            /\ Goto(AfterRead(e, ~valid, b), e, b)
    /\ UNCHANGED <<peer, backlog, lready, sock, outq, epollSet, clients,
                   username, userMap, log, acceptVars, clientVars, joined>>

\* Fault: EPOLLOUT is served in place of EPOLLIN.
FaultyWriteEvent(e) ==
    /\ Handles(e)
    /\ ~e.hup /\ e.out /\ e.fd \in clients
    /\ Goto("write", e, batch \ {e})
    /\ UNCHANGED <<kernelVars, epollVars, connVars, logVars, server,
                   acceptVars, clientVars, joined>>

\* An event that only says the socket takes data again.
WriteEvent(e) ==
    /\ Handles(e)
    /\ ~e.hup /\ ~e.in /\ e.out /\ e.fd \in clients
    /\ Goto("write", e, batch \ {e})
    /\ UNCHANGED <<kernelVars, epollVars, connVars, logVars, server,
                   acceptVars, clientVars, joined>>

\* modFdEpoll() without clientMapMtx: it reads clientMap, and when the accept
\* thread inserts into the map at the same time the process may crash.
RacyMapAccess(outcome) ==
    server' \in IF MutexFree THEN {outcome} ELSE {outcome, "crashed"}

\* modFdEpoll() at the end of handleRead(): the sender's buffer has data now.
Arm ==
    LET fd == cur.fd
    IN  /\ server = "up" /\ pc = "arm"
        /\ armed' = armed \cup {fd}
        /\ ready' = ready \cup {f \in {fd} : Readable(f) \/ Writable(f)}
        /\ RacyMapAccess(IF fd \in epollSet THEN "up" ELSE "exited")
        /\ Goto(AfterRead(cur, fd \in markToDie, batch), cur, batch)
        /\ UNCHANGED <<kernelVars, epollSet, connVars, logVars, acceptVars,
                       clientVars, joined>>

\* One write() of handleWrite() that takes some of the buffer: the loop
\* goes on with the rest, and an empty buffer is disarmed.
WriteSome ==
    LET fd == cur.fd
        c == sock[fd]
        room == SockCap - Len(outq[c])
        n == Smaller(Len(writeBuf[fd]), room)
        rest == SubSeq(writeBuf[fd], n + 1, Len(writeBuf[fd]))
    IN  /\ server = "up" /\ pc = "write"
        /\ peer[c] = "open" /\ room > 0
        /\ outq' = [outq EXCEPT ![c] = @ \o SubSeq(writeBuf[fd], 1, n)]
        /\ writeBuf' = [writeBuf EXCEPT ![fd] = rest]
        /\ Goto(AfterWrite(fd, rest), cur, batch)
        /\ UNCHANGED <<peer, backlog, lready, sock, inq, epollVars, clients,
                       username, readBuf, markToDie, userMap, logVars, server,
                       acceptVars, clientVars, joined>>

\* write() says EAGAIN: wait for the next EPOLLOUT.
WriteBlocked ==
    LET c == sock[cur.fd]
    IN  /\ server = "up" /\ pc = "write"
        /\ peer[c] = "open" /\ Len(outq[c]) = SockCap
        /\ Goto(Resume(batch), cur, batch)
        /\ UNCHANGED <<kernelVars, epollVars, connVars, logVars, server,
                       acceptVars, clientVars, joined>>

\* write() to a client that has closed: the kernel takes the data, nobody
\* reads it, and the client's TCP will answer with a reset.
WriteToClosed ==
    LET fd == cur.fd
        c == sock[fd]
        n == Smaller(Len(writeBuf[fd]), SockCap)
        rest == SubSeq(writeBuf[fd], n + 1, Len(writeBuf[fd]))
    IN  /\ server = "up" /\ pc = "write"
        /\ peer[c] \in {"fin", "answered"}
        /\ peer' = [peer EXCEPT ![c] = "answered"]
        /\ writeBuf' = [writeBuf EXCEPT ![fd] = rest]
        /\ Goto(AfterWrite(fd, rest), cur, batch)
        /\ UNCHANGED <<backlog, lready, sock, inq, outq, epollVars, clients,
                       username, readBuf, markToDie, userMap, logVars, server,
                       acceptVars, clientVars, joined>>

\* write() after a reset of the connection: ECONNRESET, the client is
\* dropped; after the reset of a closed one: SIGPIPE, which nobody handles.
WriteAfterReset ==
    LET c == sock[cur.fd]
    IN  /\ server = "up" /\ pc = "write"
        /\ peer[c] \in {"rst", "broken"}
        /\ server' = IF peer[c] = "broken" THEN "killed" ELSE server
        /\ Goto("drop", cur, batch)
        /\ UNCHANGED <<kernelVars, epollVars, connVars, logVars, acceptVars,
                       clientVars, joined>>

\* The buffer is empty: modFdEpoll() takes EPOLLOUT out of the interest.
Disarm ==
    LET fd == cur.fd
    IN  /\ server = "up" /\ pc = "disarm"
        /\ armed' = armed \ {fd}
        /\ ready' = ready \cup {f \in {fd} : Readable(f)}
        /\ RacyMapAccess(IF fd \in epollSet THEN "up" ELSE "exited")
        /\ Goto(Resume(batch), cur, batch)
        /\ UNCHANGED <<kernelVars, epollSet, connVars, logVars, acceptVars,
                       clientVars, joined>>

\* Fault: the "" that usernameExists() returns is read the wrong way round.
FaultyAnnounced(fd) ==
    fd \in clients /\ username[fd] # NoName /\ ~usernameExists(username[fd])
\* Fault: the test for a name is left out.
FaultyUnnamed(fd) == fd \in clients

\* The others have heard of the client: it has a name, and one in userMap.
Announced(fd) ==
    fd \in clients /\ username[fd] # NoName /\ usernameExists(username[fd])

\* Fault: the descriptor is closed before the mutex is given back.
FaultyDropBroadcast ==
    LET fd == cur.fd
    IN  /\ server = "up" /\ pc = "drop" /\ MutexFree
        /\ Announced(fd)
        /\ writeBuf' = AppendTo(Others(fd), ServerDisconnect(username[fd]))
        /\ ArmAll(Quiet(Others(fd)))
        /\ sock' = [sock EXCEPT ![fd] = NoConn]
        /\ Goto("erase", cur, batch)
        /\ UNCHANGED <<peer, backlog, lready, inq, outq, epollSet, clients,
                       username, readBuf, markToDie, userMap, logVars,
                       acceptVars, clientVars, joined>>

\* dropClient(), first part: tell the others that a registered user left.
DropBroadcast ==
    LET fd == cur.fd
    IN  /\ server = "up" /\ pc = "drop" /\ MutexFree
        /\ Announced(fd)
        /\ writeBuf' = AppendTo(Others(fd), ServerDisconnect(username[fd]))
        /\ ArmAll(Quiet(Others(fd)))
        /\ Goto("erase", cur, batch)
        /\ UNCHANGED <<kernelVars, epollSet, clients, username, readBuf,
                       markToDie, userMap, logVars, acceptVars, clientVars,
                       joined>>

\* killUser().
FaultyKillUser(fd) == UNCHANGED userMap     \* fault: the name stays taken
killUser(fd) ==
    userMap' = [n \in Name |-> IF n = username[fd] THEN NoFd ELSE userMap[n]]

\* EPOLL_CTL_DEL and close().
CloseFd(fd) ==
    /\ server' = IF fd \in epollSet THEN server ELSE "exited"
    /\ epollSet' = epollSet \ {fd}
    /\ armed' = armed \ {fd}
    /\ ready' = ready \ {fd}
    /\ sock' = [sock EXCEPT ![fd] = NoConn]
    /\ inq' = [c \in Conn |-> IF c = sock[fd] THEN <<>> ELSE inq[c]]

\* Fault: the record is used again with what its buffer still holds.
FaultyErase(fd) ==
    /\ clients' = clients \ {fd}
    /\ username' = [username EXCEPT ![fd] = NoName]
    /\ writeBuf' = [writeBuf EXCEPT ![fd] = <<>>]
    /\ markToDie' = markToDie \ {fd}
    /\ UNCHANGED readBuf

\* clientMap.erase(): the next entry of this key is a new clientConn.
Erase(fd) ==
    /\ clients' = clients \ {fd}
    /\ username' = [username EXCEPT ![fd] = NoName]
    /\ readBuf' = [readBuf EXCEPT ![fd] = <<>>]
    /\ writeBuf' = [writeBuf EXCEPT ![fd] = <<>>]
    /\ markToDie' = markToDie \ {fd}

Forget(fd) == killUser(fd) /\ CloseFd(fd) /\ Erase(fd)

\* dropClient(), last part, for a user the others have been told of.
DropErase ==
    /\ server = "up" /\ pc = "erase" /\ MutexFree
    /\ Forget(cur.fd)
    /\ Goto(Resume(batch), cur, batch)
    /\ UNCHANGED <<peer, backlog, lready, outq, logVars, acceptVars,
                   clientVars, joined>>

\* dropClient() of a client that has no registered name (or is not found).
DropUnregistered ==
    LET fd == cur.fd
    IN  /\ server = "up" /\ pc = "drop" /\ MutexFree
        /\ ~Announced(fd)
        /\ Forget(fd)
        /\ Goto(Resume(batch), cur, batch)
        /\ UNCHANGED <<peer, backlog, lready, outq, logVars, acceptVars,
                       clientVars, joined>>

MainThread ==
    \/ EpollWait
    \/ \E e \in batch :
        \/ HangUp(e) \/ ReadClosed(e) \/ ReadConnectRejected(e)
        \/ ReadConnectAccepted(e) \/ ReadBroadMsg(e) \/ WriteEvent(e)
    \/ Arm \/ WriteSome \/ WriteBlocked \/ WriteToClosed \/ WriteAfterReset
    \/ Disarm \/ DropBroadcast \/ DropErase \/ DropUnregistered

-----------------------------------------------------------------------------
(***************************************************************************)
(* The accept thread: its own epoll instance holds the listening socket,   *)
(* edge-triggered.                                                         *)
(***************************************************************************)
AcceptPoll ==
    /\ server = "up" /\ apc = "poll" /\ lready
    /\ lready' = FALSE
    /\ apc' = "accept"
    /\ UNCHANGED <<peer, backlog, sock, inq, outq, epollVars, connVars,
                   logVars, server, mainVars, afd, clientVars, joined>>

FreeFds == {fd \in Fd : sock[fd] = NoConn}

\* accept() fails: no connection waits, or no descriptor is free.
AcceptFails ==
    /\ server = "up" /\ apc = "accept"
    /\ backlog = {} \/ FreeFds = {}
    /\ apc' = "poll"
    /\ UNCHANGED <<kernelVars, epollVars, connVars, logVars, server, mainVars,
                   afd, clientVars, joined>>

\* accept() takes the lowest free descriptor.
Accept(c) ==
    /\ server = "up" /\ apc = "accept"
    /\ c \in backlog
    /\ backlog' = backlog \ {c}
    /\ \E fd \in FreeFds :
        /\ \A f \in FreeFds : fd <= f
        /\ sock' = [sock EXCEPT ![fd] = c]
        /\ afd' = fd
    /\ apc' = "emplace"
    /\ UNCHANGED <<peer, lready, inq, outq, epollVars, connVars, logVars,
                   server, mainVars, clientVars, joined>>

\* lock_guard, then emplace(), which leaves an entry that exists alone.
AcceptEmplace ==
    /\ server = "up" /\ apc = "emplace"
    /\ clients' = clients \cup {afd}
    /\ apc' = "add"
    /\ UNCHANGED <<kernelVars, epollVars, username, readBuf, writeBuf,
                   markToDie, userMap, logVars, server, mainVars, afd,
                   clientVars, joined>>

\* Fault: one connection is accepted for each edge.
FaultyAcceptAdd ==
    /\ server = "up" /\ apc = "add"
    /\ server' = IF afd \in epollSet THEN "exited" ELSE server
    /\ epollSet' = epollSet \cup {afd}
    /\ ready' = ready \cup {fd \in {afd} : Readable(fd)}
    /\ apc' = "poll"
    /\ afd' = NoFd
    /\ UNCHANGED <<kernelVars, armed, connVars, logVars, mainVars, clientVars,
                   joined>>

\* addFdToEpoll(), and the end of the lock_guard.
AcceptAdd ==
    /\ server = "up" /\ apc = "add"
    /\ server' = IF afd \in epollSet THEN "exited" ELSE server
    /\ epollSet' = epollSet \cup {afd}
    /\ ready' = ready \cup {fd \in {afd} : Readable(fd)}
    /\ apc' = "accept"
    /\ afd' = NoFd
    /\ UNCHANGED <<kernelVars, armed, connVars, logVars, mainVars, clientVars,
                   joined>>

AcceptThread ==
    \/ AcceptPoll \/ AcceptFails \/ AcceptEmplace \/ AcceptAdd
    \/ \E c \in Conn : Accept(c)

\* The log thread writes the next message to today's file.
LogThread ==
    /\ server = "up"
    /\ logQueue # <<>>
    /\ log' = Append(log, Head(logQueue))
    /\ logQueue' = Tail(logQueue)
    /\ UNCHANGED <<kernelVars, epollVars, connVars, server, mainVars,
                   acceptVars, clientVars, joined>>

-----------------------------------------------------------------------------
(***************************************************************************)
(* The clients: connect(), one CMG_CONNECT, the first packet as answer,    *)
(* then messages both ways, until the user closes the client.              *)
(***************************************************************************)
Dial(c) ==
    /\ cst[c] = "idle" /\ server = "up"
    /\ cst' = [cst EXCEPT ![c] = "dialed"]
    /\ peer' = [peer EXCEPT ![c] = "open"]
    /\ backlog' = backlog \cup {c}
    /\ lready' = TRUE
    /\ UNCHANGED <<sock, inq, outq, epollVars, connVars, logVars, server,
                   mainVars, acceptVars, inbox, nsent, joined>>

\* Packet p of the client on c reaches the server's socket: an edge.
Sends(c, p) ==
    /\ inq' = [inq EXCEPT ![c] = IF ServerHolds(c) THEN Append(@, p) ELSE @]
    /\ ready' = ready \cup Watching(c)

SendConnect(c) ==
    /\ cst[c] = "dialed"
    /\ cst' = [cst EXCEPT ![c] = "wait"]
    /\ Sends(c, ClientConnect(NameOf[c], SinceOf[c]))
    /\ UNCHANGED <<peer, backlog, lready, sock, outq, epollSet, armed,
                   connVars, logVars, server, mainVars, acceptVars, inbox,
                   nsent, joined>>

\* The client on c takes its first n packets: room in a socket that was
\* full is an edge for a descriptor that waits for it.
Receives(c, n) ==
    /\ inbox' = [inbox EXCEPT ![c] = @ \o SubSeq(outq[c], 1, n)]
    /\ outq' = [outq EXCEPT ![c] = SubSeq(@, n + 1, Len(@))]
    /\ ready' = IF Len(outq[c]) = SockCap
                THEN ready \cup (Watching(c) \cap armed) ELSE ready

\* recvOneVal() takes the first packet for the answer, whatever it is.  Any
\* other packet has bytes of a string where the cast looks for userList, and
\* moving that list follows a wild pointer: the client's process ends.
RecvVal(c) ==
    /\ cst[c] = "wait" /\ outq[c] # <<>>
    /\ LET p == Head(outq[c])
       IN  IF p.op = "SMG_VALIDATE"
           THEN /\ cst' = [cst EXCEPT ![c] = IF p.able THEN "chat" ELSE "rejected"]
                /\ Receives(c, 1)
                /\ UNCHANGED peer
           ELSE /\ cst' = [cst EXCEPT ![c] = "dead"]
                /\ inbox' = [inbox EXCEPT ![c] = Append(@, p)]
                /\ outq' = [outq EXCEPT ![c] = <<>>]
                /\ peer' = [peer EXCEPT ![c] = IF Len(outq[c]) = 1
                                               THEN "fin" ELSE "rst"]
                /\ ready' = ready \cup Watching(c)
    /\ UNCHANGED <<backlog, lready, sock, inq, epollSet, armed, connVars,
                   logVars, server, mainVars, acceptVars, nsent, joined>>

\* recvOneVal() meets the end of the connection instead of an answer.
RecvEof(c) ==
    /\ cst[c] = "wait" /\ outq[c] = <<>> /\ ~ServerHolds(c)
    /\ cst' = [cst EXCEPT ![c] = "failed"]
    /\ UNCHANGED <<kernelVars, epollVars, connVars, logVars, server, mainVars,
                   acceptVars, inbox, nsent, joined>>

\* ChatContext::handleRead() drains the socket.
ClientRead(c) ==
    /\ cst[c] = "chat" /\ outq[c] # <<>>
    /\ Receives(c, Len(outq[c]))
    /\ UNCHANGED <<peer, backlog, lready, sock, inq, epollSet, armed, connVars,
                   logVars, server, mainVars, acceptVars, cst, nsent, joined>>

\* The user enters a line.
ClientSend(c) ==
    /\ cst[c] = "chat" /\ nsent[c] < MaxSend[c]
    /\ nsent' = [nsent EXCEPT ![c] = @ + 1]
    /\ Sends(c, ClientBroadMsg(<<c, nsent[c] + 1>>))
    /\ UNCHANGED <<peer, backlog, lready, sock, outq, epollSet, armed,
                   connVars, logVars, server, mainVars, acceptVars, cst, inbox,
                   joined>>

\* The client ends; closing a socket with data unread resets the connection.
ClientClose(c) ==
    /\ c \in Quitters
    /\ cst[c] \in {"dialed", "wait", "chat"}
    /\ cst' = [cst EXCEPT ![c] = "gone"]
    /\ peer' = [peer EXCEPT ![c] = IF outq[c] = <<>> THEN "fin" ELSE "rst"]
    /\ outq' = [outq EXCEPT ![c] = <<>>]
    /\ ready' = ready \cup Watching(c)
    /\ UNCHANGED <<backlog, lready, sock, inq, epollSet, armed, connVars,
                   logVars, server, mainVars, acceptVars, inbox, nsent, joined>>

\* The reset that answers a write to a closed client arrives.
ResetArrives(c) ==
    /\ peer[c] = "answered"
    /\ peer' = [peer EXCEPT ![c] = "broken"]
    /\ ready' = ready \cup Watching(c)
    /\ UNCHANGED <<backlog, lready, sock, inq, outq, epollSet, armed, connVars,
                   logVars, server, mainVars, acceptVars, clientVars, joined>>

ClientReceives(c) == RecvVal(c) \/ RecvEof(c) \/ ClientRead(c)

Environment(c) ==
    \/ Dial(c) \/ SendConnect(c) \/ ClientSend(c) \/ ClientClose(c)
    \/ ClientReceives(c) \/ ResetArrives(c)

Next ==
    \/ MainThread
    \/ AcceptThread
    \/ LogThread
    \/ \E c \in Conn : Environment(c)

Spec == Init /\ [][Next]_vars

\* The three threads are scheduled, and a client reads what it is sent.
Fairness ==
    /\ WF_vars(MainThread)
    /\ WF_vars(AcceptThread)
    /\ WF_vars(LogThread)
    /\ \A c \in Conn : WF_vars(SendConnect(c)) /\ WF_vars(ClientReceives(c))

FairSpec == Spec /\ Fairness
=============================================================================
