------------------------- MODULE ChatServerRoomProof -------------------------
(***************************************************************************)
(* The room: every member is told the logged messages it asked for and     *)
(* then what the others say, once each and in order, and ChatServer        *)
(* implements ChatRoom, for any number of connections, names, descriptors  *)
(* and messages and any capacity of the sockets.                           *)
(***************************************************************************)
EXTENDS ChatServerStreamsProof, SubsequenceProof

\* The messages of connection c the room has been told.
SaidIn(s, c) == {i \in DOMAIN s : s[i].msg[1] = c}
Said(c) == Cardinality(SaidIn(Spoken, c))

\* A connection has joined exactly when its descriptor has a name, the one
\* its client asked for, and before that it has said nothing.
JoinedAreNamed ==
    \A fd \in Fd, c \in Conn : sock[fd] = c =>
        /\ joined[c].in <=> Named(fd)
        /\ Named(fd) => username[fd] = NameOf[c]
NewAreOut == \A c \in Conn : c \in backlog \/ cst[c] = "idle" => ~joined[c].in
OutAreSilent ==
    \A c \in Conn : ~joined[c].in => Unanswered(c) /\ nsent[c] = 0 /\ Said(c) = 0

\* A CMG_CONNECT is the one its client sent.
ConnectsTrue ==
    \A c \in Conn : \A i \in 1 .. Len(inq[c]) :
        inq[c][i].op = "CMG_CONNECT" => inq[c][i] = ClientConnect(NameOf[c], SinceOf[c])

\* What waits of a user's messages goes on where the room's messages end.
Unread(fd) == readBuf[fd] \o inq[sock[fd]]
GoesOn(s, c, k) == \A i \in 1 .. Len(s) : s[i] = ClientBroadMsg(<<c, k + i>>)
Numbered ==
    Up => \A fd \in clients : Named(fd) =>
        /\ GoesOn(Unread(fd), sock[fd], Said(sock[fd]))
        /\ Said(sock[fd]) + Len(Unread(fd)) = nsent[sock[fd]]

\* What was logged and spoken when c joined is a part of the room's messages.
JoinedInBounds ==
    \A c \in Conn : joined[c].logged <= Len(Spoken) /\ joined[c].spoken <= Len(Spoken)

RoomInv ==
    /\ JoinedAreNamed
    /\ NewAreOut
    /\ OutAreSilent
    /\ ConnectsTrue
    /\ Numbered
    /\ JoinedInBounds

\* The messages in s behind its answer, and those c is to be told.
After(s) ==
    LET start == CHOOSE i \in Answers(s) : TRUE
    IN  Only(SubSeq(s, start, Len(s)), BroadPacket)
NotBy(c) == {m \in BroadPacket : m.msg[1] # c}
Due(c) ==
    SubSeq(Spoken, SinceOf[c] + 1, joined[c].logged)
        \o Only(SubSeq(Spoken, joined[c].spoken + 1, Len(Spoken)), NotBy(c))

FeedKept ==
    \A fd \in clients : Named(fd) /\ peer[sock[fd]] = "open" =>
        After(Stream(fd)) = Due(sock[fd])

\* The server drops a member only once its client has gone.
HangUpsTrue == \A e \in Pending : e.hup => peer[e.conn] # "open"
DropsTheGone ==
    pc \in {"drop", "erase"} => ~Named(cur.fd) \/ peer[sock[cur.fd]] # "open"
MembersAreHeld ==
    \A c \in Conn : joined[c].in /\ peer[c] = "open" => \E fd \in clients : sock[fd] = c

\* A client that chats has read the answer and has not gone.
ChatIsOpen ==
    \A c \in Conn :
        /\ cst[c] \in {"dialed", "wait", "chat"} => peer[c] = "open"
        /\ cst[c] \in {"idle", "dialed", "wait"} => inbox[c] = <<>>
        /\ cst[c] = "idle" => peer[c] = "none"
        /\ cst[c] = "chat" => inbox[c] # <<>> /\ inbox[c][1].op = "SMG_VALIDATE"

HoldInv ==
    /\ HangUpsTrue
    /\ DropsTheGone
    /\ MembersAreHeld
    /\ ChatIsOpen

-----------------------------------------------------------------------------
(***************************************************************************)
(* The room's messages.                                                    *)
(***************************************************************************)
LEMMA SpokenType ==
    ASSUME IInv
    PROVE  /\ log \in Seq(BroadPacket) /\ logQueue \in Seq(BroadPacket)
           /\ Spoken \in Seq(BroadPacket) /\ Len(Spoken) \in Nat
<1>1. log \in Seq(BroadPacket) /\ logQueue \in Seq(BroadPacket)
  BY DEF IInv, TypeOK, TablesType
<1> QED
  BY <1>1 DEF Spoken

\* The log thread moves a message within the room's sequence.
LEMMA LogKeepsSpoken ==
    ASSUME IInv, LogThread
    PROVE  Spoken' = Spoken
<1>0. PICK l, q : l = log /\ q = logQueue
  OBVIOUS
<1>1. l \in Seq(BroadPacket) /\ q \in Seq(BroadPacket) /\ q # <<>>
  BY <1>0, SpokenType DEF LogThread
<1>2. Spoken = l \o q /\ Spoken' = Append(l, Head(q)) \o Tail(q)
  BY <1>0 DEF Spoken, LogThread
<1>3. PICK h, u, k : h = Head(q) /\ u = Tail(q) /\ k = <<h>>
  OBVIOUS
<1>4. h \in BroadPacket /\ u \in Seq(BroadPacket) /\ k \in Seq(BroadPacket)
  BY <1>1, <1>3
<1>5. q = k \o u
  BY <1>1, <1>3
<1>6. Append(l, h) = l \o k
  BY <1>1, <1>3, <1>4, AppendIsConcat
<1>7. JoinsAt(l, k, u)
  BY <1>1, <1>4, JoinAssociative
<1> QED
  BY <1>2, <1>3, <1>5, <1>6, <1>7 DEF JoinsAt

\* A message more counts for its author and nobody else.
LEMMA SaidMore ==
    ASSUME NEW s \in Seq(BroadPacket), NEW m \in BroadPacket, NEW c
    PROVE  /\ Cardinality(SaidIn(s, c)) \in Nat
           /\ Cardinality(SaidIn(Append(s, m), c)) =
                Cardinality(SaidIn(s, c)) + (IF m.msg[1] = c THEN 1 ELSE 0)
<1> DEFINE A == SaidIn(s, c)
           B == SaidIn(Append(s, m), c)
           n == Len(s)
<1>1. /\ n \in Nat /\ DOMAIN s = 1 .. n /\ DOMAIN Append(s, m) = 1 .. n + 1
      /\ Append(s, m)[n + 1] = m
      /\ \A i \in 1 .. n : Append(s, m)[i] = s[i]
  OBVIOUS
<1>2. A \subseteq 1 .. n
  BY <1>1 DEF SaidIn
<1>3. IsFiniteSet(A) /\ n + 1 \notin A
  <2>1. IsFiniteSet(1 .. n)
    <3>1. 1 \in Int /\ n \in Int
      BY <1>1
    <3> HIDE DEF n
    <3> QED
      BY <3>1, FS_Interval
  <2>2. IsFiniteSet(A)
    BY <1>2, <2>1, FS_Subset
  <2> HIDE DEF A
  <2> QED
    BY <1>1, <1>2, <2>2
<1>4. B = IF m.msg[1] = c THEN A \cup {n + 1} ELSE A
  <2>1. \A i : i \in 1 .. n + 1 <=> i \in 1 .. n \/ i = n + 1
    BY <1>1
  <2>2. \A i : i \in B <=> i \in 1 .. n + 1 /\ Append(s, m)[i].msg[1] = c
    BY <1>1 DEF SaidIn
  <2>3. \A i : i \in A <=> i \in 1 .. n /\ s[i].msg[1] = c
    BY <1>1 DEF SaidIn
  <2>4. Append(s, m)[n + 1].msg[1] = m.msg[1] /\ n + 1 \notin 1 .. n
    BY <1>1
  <2>5. \A i \in 1 .. n : Append(s, m)[i].msg[1] = s[i].msg[1]
    BY <1>1
  <2>6. \A i : i \in B <=> i \in A \/ (i = n + 1 /\ m.msg[1] = c)
    <3> HIDE DEF A, B, n
    <3> QED
      BY <2>1, <2>2, <2>3, <2>4, <2>5
  <2> HIDE DEF A, B, n
  <2> QED
    BY <2>6
<1>5. Cardinality(A) \in Nat
  BY <1>3, FS_CardinalityType
<1>6. Cardinality(A \cup {n + 1}) = Cardinality(A) + 1
  BY <1>3, FS_AddElement
<1> HIDE DEF A, B, n
<1>7. Cardinality(B) = Cardinality(A) + (IF m.msg[1] = c THEN 1 ELSE 0)
  BY <1>4, <1>5, <1>6
<1> QED
  BY <1>5, <1>7 DEF A, B

LEMMA SaidNothing ==
    ASSUME NEW c
    PROVE  Cardinality(SaidIn(<<>>, c)) = 0
<1>1. SaidIn(<<>>, c) = {}
  BY DEF SaidIn
<1> QED
  BY <1>1, FS_EmptySet

LEMMA SaidType ==
    ASSUME IInv, NEW c
    PROVE  Said(c) \in Nat
<1>1. Spoken \in Seq(BroadPacket)
  BY SpokenType
<1>2. PICK s : s = Spoken
  OBVIOUS
<1>3. SaidIn(s, c) \subseteq 1 .. Len(s) /\ Len(s) \in Nat
  BY <1>1, <1>2 DEF SaidIn
<1>4. IsFiniteSet(1 .. Len(s))
  <2>1. 1 \in Int /\ Len(s) \in Int
    BY <1>3
  <2> QED
    BY <2>1, FS_Interval
<1>5. IsFiniteSet(SaidIn(s, c))
  BY <1>3, <1>4, FS_Subset
<1> QED
  BY <1>2, <1>5, FS_CardinalityType DEF Said

\* Messages that go on from k: the first taken, and one more sent.
LEMMA GoesOnHead ==
    ASSUME NEW s \in Seq(ClientPacket), s # <<>>, NEW c, NEW k \in Nat, GoesOn(s, c, k)
    PROVE  /\ Head(s) = ClientBroadMsg(<<c, k + 1>>)
           /\ GoesOn(Tail(s), c, k + 1) /\ Len(Tail(s)) = Len(s) - 1
<1>1. /\ Len(s) \in Nat /\ Head(s) = s[1] /\ 1 \in 1 .. Len(s)
      /\ Len(Tail(s)) = Len(s) - 1
      /\ \A i \in 1 .. Len(Tail(s)) : Tail(s)[i] = s[i + 1] /\ i + 1 \in 1 .. Len(s)
  OBVIOUS
<1>2. \A i \in 1 .. Len(Tail(s)) : k + (i + 1) = (k + 1) + i
  OBVIOUS
<1>3. \A i \in 1 .. Len(Tail(s)) : Tail(s)[i] = ClientBroadMsg(<<c, (k + 1) + i>>)
  BY <1>1, <1>2 DEF GoesOn
<1> QED
  BY <1>1, <1>3 DEF GoesOn

LEMMA GoesOnAppend ==
    ASSUME NEW s \in Seq(ClientPacket), NEW c, NEW k \in Nat, GoesOn(s, c, k),
           NEW p \in ClientPacket, p = ClientBroadMsg(<<c, k + Len(s) + 1>>)
    PROVE  GoesOn(Append(s, p), c, k) /\ Len(Append(s, p)) = Len(s) + 1
<1>1. /\ Len(s) \in Nat /\ Len(Append(s, p)) = Len(s) + 1
      /\ Append(s, p)[Len(s) + 1] = p
      /\ \A i \in 1 .. Len(s) : Append(s, p)[i] = s[i]
  OBVIOUS
<1>2. \A i \in 1 .. Len(s) + 1 : i \in 1 .. Len(s) \/ i = Len(s) + 1
  BY <1>1
<1>3. k + Len(s) + 1 = k + (Len(s) + 1)
  BY <1>1
<1> QED
  BY <1>1, <1>2, <1>3 DEF GoesOn

-----------------------------------------------------------------------------
(***************************************************************************)
(* RoomInv is inductive.                                                   *)
(***************************************************************************)
LEMMA InitRoom == Init => RoomInv
<1> SUFFICES ASSUME Init PROVE RoomInv
  OBVIOUS
<1>1. Spoken = <<>> /\ \A c : Said(c) = 0
  BY SaidNothing DEF Init, Spoken, Said
<1>2. JoinedAreNamed /\ NewAreOut
  BY NamesAssumption DEF Init, JoinedAreNamed, NewAreOut
<1>3. OutAreSilent
  BY <1>1 DEF Init, OutAreSilent, Unanswered, NoAnswer, Silent
<1>4. ConnectsTrue /\ Numbered
  BY DEF Init, ConnectsTrue, Numbered
<1>5. JoinedInBounds
  BY <1>1 DEF Init, JoinedInBounds
<1> QED
  BY <1>2, <1>3, <1>4, <1>5 DEF RoomInv

\* The process does not come back.
LEMMA StaysDown ==
    ASSUME [Next]_vars, Up'
    PROVE  Up
<1>1. CASE MainThread
  <2>1. ASSUME NEW e \in batch, HangUp(e) \/ WriteEvent(e) \/ ReadClosed(e)
        PROVE  Up
    BY <2>1 DEF HangUp, WriteEvent, ReadClosed, Handles, Up
  <2>2. ASSUME NEW e \in batch,
               ReadConnectRejected(e) \/ ReadConnectAccepted(e) \/ ReadBroadMsg(e)
        PROVE  Up
    <3>1. \E c \in Conn : \E p : Takes(e, c, p)
      BY <2>2 DEF ReadConnectRejected, ReadConnectAccepted, ReadBroadMsg
    <3> QED
      BY <3>1 DEF Takes, Handles, Up
  <2>3. CASE \/ EpollWait \/ Arm \/ WriteSome \/ WriteBlocked \/ WriteToClosed
             \/ WriteAfterReset \/ Disarm \/ DropBroadcast \/ DropErase
             \/ DropUnregistered
    BY <2>3 DEF EpollWait, Arm, WriteSome, WriteBlocked, WriteToClosed,
       WriteAfterReset, Disarm, DropBroadcast, DropErase, DropUnregistered, Up
  <2> QED
    BY <1>1, <2>1, <2>2, <2>3 DEF MainThread
<1>2. CASE AcceptThread \/ LogThread
  BY <1>2 DEF AcceptThread, AcceptPoll, AcceptFails, Accept, AcceptEmplace,
     AcceptAdd, LogThread, Up
<1>3. ASSUME NEW c \in Conn, Environment(c)
      PROVE  Up
  BY <1>3 DEF Environment, Dial, SendConnect, ClientSend, ClientClose,
     ClientReceives, RecvVal, RecvEof, ClientRead, ResetArrives, Up
<1>4. CASE UNCHANGED vars
  BY <1>4 DEF vars, Up
<1> QED
  BY <1>1, <1>2, <1>3, <1>4 DEF Next

\* A step that neither names nor reads, and says nothing.
LEMMA KeepRoom ==
    ASSUME IInv, RoomInv, Up' => Up,
           UNCHANGED <<sock, backlog, joined, inq, cst, nsent, username, readBuf, Spoken>>,
           \A c \in Conn : ~joined[c].in /\ Unanswered(c) => Unanswered(c)',
           \A fd \in clients' : Named(fd) => fd \in clients
    PROVE  RoomInv'
<1>1. \A c : Said(c)' = Said(c)
  BY DEF Said
<1>2. JoinedAreNamed' /\ NewAreOut' /\ ConnectsTrue' /\ JoinedInBounds'
  BY DEF RoomInv, JoinedAreNamed, NewAreOut, ConnectsTrue, JoinedInBounds, Named
<1>3. OutAreSilent'
  BY <1>1 DEF RoomInv, OutAreSilent
<1>4. Numbered'
  <2>1. \A fd : Unread(fd)' = Unread(fd) /\ Named(fd)' = Named(fd)
    BY DEF Unread, Named
  <2> QED
    BY <1>1, <2>1 DEF RoomInv, Numbered
<1> QED
  BY <1>2, <1>3, <1>4 DEF RoomInv

LEMMA MovingRoom ==
    ASSUME IInv, RoomInv, Up' => Up,
           \/ EpollWait \/ LogThread \/ AcceptPoll \/ AcceptFails
           \/ AcceptEmplace \/ AcceptAdd
           \/ Arm \/ Disarm \/ WriteBlocked \/ WriteAfterReset \/ DropBroadcast
           \/ UNCHANGED vars
           \/ \E e \in batch : HangUp(e) \/ WriteEvent(e)
    PROVE  RoomInv' /\ joined' = joined
<1>1. /\ UNCHANGED <<sock, backlog, joined, inq, cst, nsent, username, readBuf>>
      /\ UNCHANGED <<outq, inbox>>
  BY DEF EpollWait, LogThread, AcceptPoll, AcceptFails, AcceptEmplace,
         AcceptAdd, Arm, Disarm, WriteBlocked, WriteAfterReset, DropBroadcast,
         vars, HangUp, WriteEvent, kernelVars, connVars, clientVars
<1>2. Spoken' = Spoken
  <2>1. CASE LogThread
    BY <2>1, LogKeepsSpoken
  <2>2. CASE ~LogThread
    BY <2>2 DEF EpollWait, AcceptPoll, AcceptFails, AcceptEmplace,
         AcceptAdd, Arm, Disarm, WriteBlocked, WriteAfterReset, DropBroadcast,
         vars, HangUp, WriteEvent, logVars, Spoken
  <2> QED
    BY <2>1, <2>2
<1>3. \A fd \in clients' : Named(fd) => fd \in clients
  <2>1. clients' = clients \/ AcceptEmplace
    BY DEF EpollWait, LogThread, AcceptPoll, AcceptFails, AcceptAdd, Arm,
           Disarm, WriteBlocked, WriteAfterReset, DropBroadcast, vars, HangUp,
           WriteEvent, connVars
  <2>2. AcceptEmplace => clients' = clients \cup {afd} /\ afd \in Fd \ clients
    BY DEF AcceptEmplace, IInv, DescriptorsAgree, Accepting
  <2>3. AcceptEmplace => ~Named(afd)
    BY <2>2 DEF IInv, NamesAreFresh, Named
  <2> QED
    BY <2>1, <2>2, <2>3
<1>4. \A c \in Conn : Unanswered(c) => Unanswered(c)'
  BY <1>1 DEF Unanswered
<1> QED
  BY <1>1, <1>2, <1>3, <1>4, KeepRoom

\* What is written to a connection that has not joined is no answer.
LEMMA WriteRoom ==
    ASSUME IInv, AnswerInv, RoomInv, Up' => Up, WriteSome \/ WriteToClosed
    PROVE  RoomInv' /\ joined' = joined
<1>1. /\ UNCHANGED <<sock, backlog, joined, inq, cst, nsent, username, readBuf,
                    inbox, clients, log, logQueue>>
      /\ pc = "write"
  BY DEF WriteSome, WriteToClosed, clientVars, logVars
<1>2. Spoken' = Spoken
  BY <1>1 DEF Spoken
<1>3. ASSUME NEW c \in Conn, ~joined[c].in, Unanswered(c)
      PROVE  Unanswered(c)'
  <2>1. PICK fd : fd = cur.fd
    OBVIOUS
  <2>2. fd \in Fd /\ sock[fd] \in Conn /\ outq \in [Conn -> Seq(ServerPacket)]
    BY <1>1, <2>1, CurrentClient DEF IInv, TypeOK, KernelType
  <2>3. CASE sock[fd] = c
    <3>1. ~Named(fd)'
      BY <1>1, <1>3, <2>2, <2>3 DEF RoomInv, JoinedAreNamed, Named
    <3>2. UnnamedAreSilent'
      BY WriteAnswers DEF AnswerInv
    <3> QED
      BY <1>1, <2>2, <2>3, <3>1, <3>2 DEF UnnamedAreSilent
  <2>4. CASE sock[fd] # c
    <3>1. outq'[c] = outq[c]
      BY <2>1, <2>2, <2>4 DEF WriteSome, WriteToClosed
    <3> QED
      BY <1>1, <1>3, <3>1 DEF Unanswered
  <2> QED
    BY <2>3, <2>4
<1> QED
  BY <1>1, <1>2, <1>3, KeepRoom

\* The client is forgotten, and what others may still send to it.
LEMMA ForgetRoom ==
    ASSUME IInv, AnswerInv, RoomInv, Up' => Up, DropErase \/ DropUnregistered
    PROVE  RoomInv' /\ joined' = joined
<1>0. PICK f, d : f = cur.fd /\ d = sock[f]
  OBVIOUS
<1>1. /\ pc \in {"drop", "erase"} /\ CloseFd(f) /\ Erase(f)
      /\ UNCHANGED <<backlog, outq, cst, inbox, nsent, joined, log, logQueue>>
  BY <1>0 DEF DropErase, DropUnregistered, Forget, clientVars, logVars
<1>2. /\ f \in Fd /\ d \in Conn /\ clients \subseteq Fd
      /\ sock \in [Fd -> Conn \cup {NoConn}] /\ inq \in [Conn -> Seq(ClientPacket)]
      /\ username \in [Fd -> Name \cup {NoName}]
      /\ readBuf \in [Fd -> Seq(ClientPacket)]
  BY <1>0, <1>1, CurrentClient DEF IInv, TypeOK, KernelType, TablesType
<1>3. /\ sock' = [sock EXCEPT ![f] = NoConn]
      /\ inq' = [c \in Conn |-> IF c = d THEN <<>> ELSE inq[c]]
      /\ readBuf' = [readBuf EXCEPT ![f] = <<>>]
      /\ username' = [username EXCEPT ![f] = NoName]
      /\ clients' = clients \ {f}
  BY <1>0, <1>1 DEF CloseFd, Erase
<1>4. Spoken' = Spoken /\ \A c : Said(c)' = Said(c)
  BY <1>1 DEF Spoken, Said
<1>5. JoinedAreNamed' /\ NewAreOut' /\ JoinedInBounds'
  BY <1>1, <1>2, <1>3, <1>4, NamesAssumption
  DEF RoomInv, JoinedAreNamed, NewAreOut, JoinedInBounds, Named
<1>6. OutAreSilent' /\ ConnectsTrue'
  BY <1>1, <1>3, <1>4
  DEF RoomInv, OutAreSilent, ConnectsTrue, Unanswered, Silent
<1>7. ASSUME Up, NEW fd \in clients', Named(fd)'
      PROVE  /\ GoesOn(Unread(fd), sock[fd], Said(sock[fd]))'
             /\ Said(sock[fd])' + Len(Unread(fd))' = nsent'[sock'[fd]]
  <2>1. fd \in clients /\ fd # f /\ fd \in Fd
    BY <1>2, <1>3, <1>7
  <2>2. Named(fd) /\ sock'[fd] = sock[fd] /\ readBuf'[fd] = readBuf[fd]
    BY <1>2, <1>3, <1>7, <2>1 DEF Named
  <2>3. sock[fd] \in Conn /\ sock[fd] # d
    BY <1>0, <1>2, <2>1, NamesAssumption, StreamParts DEF AnswerInv, OneDescriptor
  <2> QED
    BY <1>1, <1>3, <1>4, <1>7, <2>1, <2>2, <2>3 DEF RoomInv, Numbered, Unread
<1> QED
  BY <1>1, <1>5, <1>6, <1>7 DEF RoomInv, Numbered

\* A connection is accepted before it has joined, by a descriptor without
\* a name.
LEMMA AcceptRoom ==
    ASSUME IInv, RoomInv, Up' => Up, NEW c \in Conn, Accept(c)
    PROVE  RoomInv' /\ joined' = joined
<1>1. PICK fd \in FreeFds : sock' = [sock EXCEPT ![fd] = c] /\ backlog' = backlog \ {c}
  BY DEF Accept
<1>2. /\ UNCHANGED <<inq, outq, username, readBuf, cst, inbox, nsent, joined,
                    clients, log, logQueue>>
      /\ c \in backlog
  BY DEF Accept, connVars, logVars, clientVars
<1>3. /\ sock \in [Fd -> Conn \cup {NoConn}] /\ fd \in Fd /\ fd \notin clients
      /\ clients \subseteq Fd /\ ~Named(fd)
  BY NamesAssumption DEF IInv, TypeOK, KernelType, TablesType, FreeFds,
     DescriptorsAgree, NamesAreFresh, Named
<1>4. Spoken' = Spoken /\ \A d : Said(d)' = Said(d)
  BY <1>2 DEF Spoken, Said
<1>5. JoinedAreNamed' /\ NewAreOut'
  BY <1>1, <1>2, <1>3 DEF RoomInv, JoinedAreNamed, NewAreOut, Named
<1>6. OutAreSilent' /\ ConnectsTrue' /\ JoinedInBounds'
  BY <1>2, <1>4
  DEF RoomInv, OutAreSilent, ConnectsTrue, JoinedInBounds, Unanswered
<1>7. \A f \in clients : sock'[f] = sock[f] /\ Named(f)' = Named(f)
  BY <1>1, <1>2, <1>3 DEF Named
<1>8. Numbered'
  BY <1>2, <1>4, <1>7 DEF RoomInv, Numbered, Unread
<1> QED
  BY <1>2, <1>5, <1>6, <1>8 DEF RoomInv

\* Reading moves what is unread, and nothing of the other connections.
LEMMA ReadRoom ==
    ASSUME IInv, AnswerInv, RoomInv, NEW e \in batch, NEW rest \in Seq(ClientPacket),
           readBuf' = [readBuf EXCEPT ![e.fd] = rest],
           inq' = [inq EXCEPT ![sock[e.fd]] = <<>>],
           UNCHANGED <<sock, outq, cst, inbox>>
    PROVE  /\ ConnectsTrue'
           /\ Unread(e.fd)' = rest
           /\ \A fd \in clients : fd # e.fd => Unread(fd)' = Unread(fd)
           /\ \A c \in Conn : Unanswered(c) => Unanswered(c)'
<1>1. /\ e.fd \in Fd /\ sock[e.fd] \in Conn /\ clients \subseteq Fd
      /\ readBuf \in [Fd -> Seq(ClientPacket)] /\ inq \in [Conn -> Seq(ClientPacket)]
  BY BatchClient DEF IInv, TypeOK, KernelType, TablesType
<1>2. \A c \in Conn : inq'[c] = inq[c] \/ inq'[c] = <<>>
  BY <1>1
<1>3. ConnectsTrue' /\ \A c \in Conn : Unanswered(c) => Unanswered(c)'
  <2>1. Len(<<>>) = 0 /\ 1 .. 0 = {}
    OBVIOUS
  <2> QED
    BY <1>2, <2>1 DEF RoomInv, ConnectsTrue, Unanswered, Silent
<1>4. Unread(e.fd)' = rest
  <2>1. readBuf'[e.fd] = rest /\ inq'[sock'[e.fd]] = <<>>
    BY <1>1
  <2>2. rest \o <<>> = rest
    OBVIOUS
  <2> QED
    BY <2>1, <2>2 DEF Unread
<1>5. ASSUME NEW fd \in clients, fd # e.fd
      PROVE  Unread(fd)' = Unread(fd)
  <2>1. sock[fd] # sock[e.fd] /\ fd \in Fd /\ sock[fd] \in Conn
    BY <1>1, <1>5, NamesAssumption DEF AnswerInv, OneDescriptor, IInv, DescriptorsAgree
  <2> QED
    BY <1>1, <1>5, <2>1 DEF Unread
<1> QED
  BY <1>3, <1>4, <1>5

\* Reading that takes nothing off what a member has sent.
LEMMA ReadKeepsRoom ==
    ASSUME IInv, AnswerInv, RoomInv, Up' => Up, NEW e \in batch,
           NEW rest \in Seq(ClientPacket),
           readBuf' = [readBuf EXCEPT ![e.fd] = rest],
           inq' = [inq EXCEPT ![sock[e.fd]] = <<>>],
           Named(e.fd) => rest = Unread(e.fd),
           UNCHANGED <<backlog, sock, outq, cst, inbox, nsent, clients, username,
                       joined, log, logQueue>>
    PROVE  RoomInv'
<1>1. Spoken' = Spoken /\ \A c : Said(c)' = Said(c)
  BY DEF Spoken, Said
<1>2. /\ ConnectsTrue'
      /\ Unread(e.fd)' = rest
      /\ \A fd \in clients : fd # e.fd => Unread(fd)' = Unread(fd)
      /\ \A c \in Conn : Unanswered(c) => Unanswered(c)'
  BY ReadRoom
<1>3. JoinedAreNamed' /\ NewAreOut' /\ JoinedInBounds'
  BY <1>1 DEF RoomInv, JoinedAreNamed, NewAreOut, JoinedInBounds, Named
<1>4. OutAreSilent'
  BY <1>1, <1>2 DEF RoomInv, OutAreSilent
<1>5. \A fd \in clients : Named(fd) => Unread(fd)' = Unread(fd)
  BY <1>2
<1>6. Numbered'
  BY <1>1, <1>5 DEF RoomInv, Numbered, Named
<1> QED
  BY <1>2, <1>3, <1>4, <1>6 DEF RoomInv

LEMMA ReadClosedRoom ==
    ASSUME IInv, AnswerInv, RoomInv, Up' => Up, NEW e \in batch, ReadClosed(e)
    PROVE  RoomInv' /\ joined' = joined
<1>1. PICK rest : rest = Unread(e.fd)
  OBVIOUS
<1>2. rest \in Seq(ClientPacket)
  <2>1. readBuf[e.fd] \in Seq(ClientPacket) /\ inq[sock[e.fd]] \in Seq(ClientPacket)
    BY BatchClient DEF IInv, TypeOK, KernelType, TablesType
  <2> QED
    BY <1>1, <2>1 DEF Unread
<1>3. /\ readBuf' = [readBuf EXCEPT ![e.fd] = rest]
      /\ inq' = [inq EXCEPT ![sock[e.fd]] = <<>>]
  BY <1>1 DEF ReadClosed, Unread
<1>4. UNCHANGED <<backlog, sock, outq, cst, inbox, nsent, clients, username,
                  joined, log, logQueue>>
  BY DEF ReadClosed, clientVars, logVars
<1> QED
  BY <1>1, <1>2, <1>3, <1>4, ReadKeepsRoom

LEMMA RejectedRoom ==
    ASSUME IInv, AnswerInv, RoomInv, Up' => Up, NEW e \in batch,
           ReadConnectRejected(e)
    PROVE  RoomInv' /\ joined' = joined
<1>1. PICK c \in Conn : /\ Takes(e, c, Head(readBuf[e.fd] \o inq[c]))
                        /\ Head(readBuf[e.fd] \o inq[c]).op = "CMG_CONNECT"
  BY DEF ReadConnectRejected
<1>2. PICK rest : rest = Tail(readBuf[e.fd] \o inq[c])
  OBVIOUS
<1>3. readBuf[e.fd] \o inq[c] # <<>> /\ username[e.fd] = NoName
  BY <1>1, TakesFacts DEF Takes
<1>4. rest \in Seq(ClientPacket) /\ ~Named(e.fd)
  <2>1. readBuf[e.fd] \in Seq(ClientPacket) /\ inq[c] \in Seq(ClientPacket)
    BY BatchClient DEF IInv, TypeOK, KernelType, TablesType
  <2> QED
    BY <1>2, <1>3, <2>1 DEF Named
<1>5. /\ readBuf' = [readBuf EXCEPT ![e.fd] = rest]
      /\ inq' = [inq EXCEPT ![sock[e.fd]] = <<>>]
  BY <1>1, <1>2, TakesAnswers
<1>6. UNCHANGED <<backlog, sock, outq, cst, inbox, nsent, clients, username,
                  joined, log, logQueue>>
  BY DEF ReadConnectRejected, clientVars, logVars
<1> QED
  BY <1>4, <1>5, <1>6, ReadKeepsRoom

\* A CMG_CONNECT is all its connection has sent: the name and the time that
\* its client asked with, and no message before it or behind it.
LEMMA ConnectAlone ==
    ASSUME IInv, AnswerInv, RoomInv, NEW e \in batch, NEW c \in Conn,
           Takes(e, c, Head(readBuf[e.fd] \o inq[c])),
           Head(readBuf[e.fd] \o inq[c]).op = "CMG_CONNECT"
    PROVE  /\ sock[e.fd] = c /\ e.fd \in Fd /\ ~Named(e.fd)
           /\ Head(readBuf[e.fd] \o inq[c]) = ClientConnect(NameOf[c], SinceOf[c])
           /\ Tail(readBuf[e.fd] \o inq[c]) = <<>>
           /\ ~joined[c].in /\ nsent[c] = 0 /\ Said(c) = 0
<1>1. PICK s, t : s = readBuf[e.fd] /\ t = inq[c]
  OBVIOUS
<1>2. s \in Seq(ClientPacket) /\ t \in Seq(ClientPacket) /\ e.fd \in Fd
  BY <1>1, BatchClient DEF IInv, TypeOK, KernelType, TablesType
<1>3. sock[e.fd] = c /\ ~Named(e.fd) /\ pc = "loop" /\ s \o t # <<>>
  BY <1>1, TakesFacts DEF Takes, Handles, Named
<1>4. Silent(s) /\ Silent(t)
  BY <1>1, <1>3, UnnamedReads
<1>5. s = <<>>
  <2>1. NoConnectIn(s)
    BY <1>1, <1>2, <1>3 DEF IInv, ConnectIsFirst, Dropping
  <2>2. \A i \in 1 .. Len(s) : s[i].op \in {"CMG_CONNECT", "CMG_BROADMSG"}
    BY <1>2 DEF ClientPacket
  <2>3. 1 \notin 1 .. Len(s)
    BY <1>4, <2>1, <2>2 DEF Silent, NoConnectIn
  <2> QED
    BY <1>2, <2>3
<1>6. s \o t = t
  BY <1>2, <1>5
<1>7. 1 \in 1 .. Len(t) /\ Head(t) = t[1] /\ t # <<>>
  BY <1>2, <1>3, <1>6
<1>8. Head(t) = ClientConnect(NameOf[c], SinceOf[c])
  BY <1>1, <1>6, <1>7 DEF RoomInv, ConnectsTrue
<1>9. Tail(t) = <<>>
  <2>1. \A i \in 1 .. Len(t) : t[i].op \in {"CMG_CONNECT", "CMG_BROADMSG"}
    BY <1>2 DEF ClientPacket
  <2>2. \A i \in 1 .. Len(t) : t[i].op = "CMG_CONNECT" => i = 1
    BY <1>1 DEF IInv, ConnectIsFirst
  <2>3. 2 \notin 1 .. Len(t)
    BY <1>4, <2>1, <2>2 DEF Silent
  <2> QED
    BY <1>2, <1>7, <2>3
<1>10. ~joined[c].in /\ nsent[c] = 0 /\ Said(c) = 0
  BY <1>2, <1>3 DEF RoomInv, JoinedAreNamed, OutAreSilent
<1> QED
  BY <1>1, <1>2, <1>3, <1>6, <1>8, <1>9, <1>10

LEMMA AcceptedRoom ==
    ASSUME IInv, AnswerInv, RoomInv, Up' => Up, NEW e \in batch,
           ReadConnectAccepted(e)
    PROVE  RoomInv'
<1>1. PICK c \in Conn :
        /\ Takes(e, c, Head(readBuf[e.fd] \o inq[c]))
        /\ Head(readBuf[e.fd] \o inq[c]).op = "CMG_CONNECT"
        /\ username' = [username EXCEPT ![e.fd] = Head(readBuf[e.fd] \o inq[c]).user]
        /\ joined' = [joined EXCEPT ![c] =
                        [in |-> TRUE, logged |-> Len(log),
                         spoken |-> Len(log) + Len(logQueue)]]
  BY DEF ReadConnectAccepted
<1>2. /\ sock[e.fd] = c /\ e.fd \in Fd /\ ~Named(e.fd)
      /\ Head(readBuf[e.fd] \o inq[c]) = ClientConnect(NameOf[c], SinceOf[c])
      /\ Tail(readBuf[e.fd] \o inq[c]) = <<>>
      /\ ~joined[c].in /\ nsent[c] = 0 /\ Said(c) = 0
  BY <1>1, ConnectAlone
<1>3. /\ username' = [username EXCEPT ![e.fd] = NameOf[c]]
      /\ NameOf[c] \in Name /\ NameOf[c] # NoName
  <2>1. Head(readBuf[e.fd] \o inq[c]).user = NameOf[c]
    <3>1. PICK p : p = Head(readBuf[e.fd] \o inq[c])
      OBVIOUS
    <3>2. p.user = NameOf[c]
      <4>1. p = ClientConnect(NameOf[c], SinceOf[c])
        BY <1>2, <3>1
      <4> QED
        BY <4>1 DEF ClientConnect
    <3> QED
      BY <3>1, <3>2
  <2>2. NameOf[c] \in Name /\ NameOf[c] # NoName
    BY NamesAssumption
  <2> QED
    BY <1>1, <2>1, <2>2
<1>4. UNCHANGED <<backlog, sock, outq, cst, inbox, nsent, clients, log, logQueue>>
  BY DEF ReadConnectAccepted, clientVars, logVars
<1>5. /\ Spoken' = Spoken /\ \A d : Said(d)' = Said(d)
      /\ log \in Seq(BroadPacket) /\ logQueue \in Seq(BroadPacket)
      /\ Len(Spoken) = Len(log) + Len(logQueue) /\ Len(log) \in Nat
      /\ Len(logQueue) \in Nat
  BY <1>4, SpokenType DEF Spoken, Said
<1>6. /\ username \in [Fd -> Name \cup {NoName}] /\ clients \subseteq Fd
      /\ joined \in [Conn -> [in : BOOLEAN, logged : Nat, spoken : Nat]]
  BY DEF IInv, TypeOK, TablesType, ClientsType
<1>7. /\ joined'[c] = [in |-> TRUE, logged |-> Len(log), spoken |-> Len(Spoken)]
      /\ \A d \in Conn : d # c => joined'[d] = joined[d]
      /\ Named(e.fd)' /\ username'[e.fd] = NameOf[c]
      /\ \A fd \in Fd : fd # e.fd => Named(fd)' = Named(fd) /\ username'[fd] = username[fd]
  BY <1>1, <1>2, <1>3, <1>5, <1>6 DEF Named
<1>8. \A fd \in Fd : sock[fd] = c => fd = e.fd
  BY <1>2, NamesAssumption DEF AnswerInv, OneDescriptor
<1>9. JoinedAreNamed'
  <2> SUFFICES ASSUME NEW fd \in Fd, NEW d \in Conn, sock[fd] = d
               PROVE  /\ joined'[d].in <=> Named(fd)'
                      /\ Named(fd)' => username'[fd] = NameOf[d]
    BY <1>4 DEF JoinedAreNamed
  <2>1. CASE fd = e.fd
    BY <2>1, <1>2, <1>7
  <2>2. CASE fd # e.fd
    BY <2>2, <1>7, <1>8 DEF RoomInv, JoinedAreNamed
  <2> QED
    BY <2>1, <2>2
<1>10. NewAreOut'
  <2>1. ~(c \in backlog \/ cst[c] = "idle")
    BY <1>2 DEF AnswerInv, NewAreFresh, Fresh
  <2> QED
    BY <2>1, <1>4, <1>7 DEF RoomInv, NewAreOut
<1>11. /\ ConnectsTrue'
       /\ Unread(e.fd)' = <<>>
       /\ \A fd \in clients : fd # e.fd => Unread(fd)' = Unread(fd)
       /\ \A d \in Conn : Unanswered(d) => Unanswered(d)'
  <2>1. /\ readBuf' = [readBuf EXCEPT ![e.fd] = <<>>]
        /\ inq' = [inq EXCEPT ![sock[e.fd]] = <<>>]
    BY <1>1, <1>2, TakesAnswers
  <2>2. <<>> \in Seq(ClientPacket)
    OBVIOUS
  <2> QED
    BY <2>1, <2>2, <1>4, ReadRoom
<1>12. OutAreSilent'
  BY <1>4, <1>5, <1>7, <1>11 DEF RoomInv, OutAreSilent
<1>13. JoinedInBounds'
  <2>1. \A d \in Conn : joined'[d].logged <= Len(Spoken) /\ joined'[d].spoken <= Len(Spoken)
    BY <1>5, <1>7 DEF RoomInv, JoinedInBounds
  <2> QED
    BY <2>1, <1>5 DEF JoinedInBounds
<1>14. Numbered'
  <2> SUFFICES ASSUME Up, NEW fd \in clients, Named(fd)'
               PROVE  /\ GoesOn(Unread(fd)', sock[fd], Said(sock[fd]))
                      /\ Said(sock[fd]) + Len(Unread(fd)') = nsent[sock[fd]]
    BY <1>4, <1>5 DEF Numbered, GoesOn
  <2>1. CASE fd = e.fd
    <3>1. Len(<<>>) = 0 /\ 1 .. 0 = {}
      OBVIOUS
    <3> QED
      BY <2>1, <3>1, <1>2, <1>11 DEF GoesOn
  <2>2. CASE fd # e.fd
    BY <2>2, <1>6, <1>7, <1>11 DEF RoomInv, Numbered
  <2> QED
    BY <2>1, <2>2
<1> QED
  BY <1>9, <1>10, <1>11, <1>12, <1>13, <1>14 DEF RoomInv

\* What is read of a member is the message it says next.
Says(e, c, m, rest) ==
    /\ sock[e.fd] = c /\ Named(e.fd) /\ username[e.fd] = NameOf[c]
    /\ m = ServerBroadMsg(NameOf[c], <<c, Said(c) + 1>>)
    /\ Spoken' = Append(Spoken, m)
    /\ writeBuf' = AppendTo(Others(e.fd), m)
    /\ Unread(e.fd) = <<ClientBroadMsg(<<c, Said(c) + 1>>)>> \o rest
    /\ Len(rest) = Len(Unread(e.fd)) - 1
    /\ GoesOn(rest, c, Said(c) + 1)
    /\ readBuf' = [readBuf EXCEPT ![e.fd] = rest]
    /\ inq' = [inq EXCEPT ![sock[e.fd]] = <<>>]

LEMMA SaysNext ==
    ASSUME IInv, AnswerInv, RoomInv, NEW e \in batch, ReadBroadMsg(e)
    PROVE  \E c \in Conn, m \in BroadPacket, rest \in Seq(ClientPacket) : Says(e, c, m, rest)
<1>1. PICK c \in Conn :
        /\ Takes(e, c, Head(readBuf[e.fd] \o inq[c]))
        /\ Head(readBuf[e.fd] \o inq[c]).op = "CMG_BROADMSG"
        /\ valConnMsg(username[e.fd], e.fd) =>
            /\ writeBuf' = AppendTo(Others(e.fd),
                    ServerBroadMsg(username[e.fd], Head(readBuf[e.fd] \o inq[c]).msg))
            /\ logQueue' = Append(logQueue,
                    ServerBroadMsg(username[e.fd], Head(readBuf[e.fd] \o inq[c]).msg))
        /\ log' = log
  BY DEF ReadBroadMsg
<1>2. /\ sock[e.fd] = c /\ Named(e.fd) /\ e.fd \in Fd /\ e.fd \in clients /\ Up
      /\ readBuf[e.fd] \o inq[c] # <<>>
      /\ valConnMsg(username[e.fd], e.fd)
  BY <1>1, SpeakerIsValid, TakesAnswers, BatchClient DEF Takes, Handles, Up
<1>3. username[e.fd] = NameOf[c]
  BY <1>2 DEF RoomInv, JoinedAreNamed
<1>4. PICK u, k : u = readBuf[e.fd] \o inq[c] /\ k = Said(c)
  OBVIOUS
<1>5. u \in Seq(ClientPacket) /\ u # <<>> /\ k \in Nat /\ Unread(e.fd) = u
  <2>1. readBuf[e.fd] \in Seq(ClientPacket) /\ inq[c] \in Seq(ClientPacket)
    BY BatchClient DEF IInv, TypeOK, KernelType, TablesType
  <2> QED
    BY <2>1, <1>2, <1>4, SaidType DEF Unread
<1>6. GoesOn(u, c, k)
  BY <1>2, <1>4, <1>5 DEF RoomInv, Numbered
<1>7. PICK rest : rest = Tail(u)
  OBVIOUS
<1>8. /\ Head(u) = ClientBroadMsg(<<c, k + 1>>)
      /\ GoesOn(rest, c, k + 1) /\ Len(rest) = Len(u) - 1
      /\ rest \in Seq(ClientPacket)
      /\ u = <<Head(u)>> \o rest
  BY <1>5, <1>6, <1>7, GoesOnHead
<1>9. PICK m : m = ServerBroadMsg(NameOf[c], <<c, k + 1>>)
  OBVIOUS
<1>10. m \in BroadPacket
  <2>1. <<c, k + 1>> \in Message /\ NameOf[c] \in Name
    BY <1>5, NamesAssumption DEF Message
  <2> QED
    BY <1>9, <2>1 DEF ServerBroadMsg, BroadPacket
<1>11. Head(u).msg = <<c, k + 1>>
  BY <1>8 DEF ClientBroadMsg
<1>12. writeBuf' = AppendTo(Others(e.fd), m) /\ logQueue' = Append(logQueue, m)
  BY <1>1, <1>2, <1>3, <1>4, <1>9, <1>11
<1>13. Spoken' = Append(Spoken, m)
  <2>1. log \o Append(logQueue, m) = Append(log \o logQueue, m)
    BY <1>10, SpokenType, AppendJoin
  <2> QED
    BY <1>1, <1>12, <2>1 DEF Spoken
<1>14. /\ readBuf' = [readBuf EXCEPT ![e.fd] = rest]
       /\ inq' = [inq EXCEPT ![sock[e.fd]] = <<>>]
  BY <1>1, <1>4, <1>7, TakesAnswers
<1>15. Says(e, c, m, rest)
  BY <1>2, <1>3, <1>4, <1>5, <1>8, <1>9, <1>12, <1>13, <1>14 DEF Says
<1> QED
  BY <1>8, <1>10, <1>15

LEMMA BroadMsgRoom ==
    ASSUME IInv, AnswerInv, RoomInv, Up' => Up, NEW e \in batch, ReadBroadMsg(e)
    PROVE  RoomInv' /\ joined' = joined
<1>1. PICK c \in Conn, m \in BroadPacket, rest \in Seq(ClientPacket) : Says(e, c, m, rest)
  BY SaysNext
<1>2. UNCHANGED <<backlog, sock, outq, cst, inbox, nsent, clients, username, joined>>
  BY DEF ReadBroadMsg, clientVars
<1>3. e.fd \in Fd /\ e.fd \in clients /\ clients \subseteq Fd /\ Up
  <2>1. \E d \in Conn : \E p : Takes(e, d, p)
    BY DEF ReadBroadMsg
  <2> QED
    BY <2>1, BatchClient DEF IInv, TypeOK, TablesType, Takes, Handles, Up
<1>4. m.msg[1] = c
  BY <1>1 DEF Says, ServerBroadMsg
<1>5. /\ \A d : Said(d) \in Nat
      /\ \A d : Said(d)' = Said(d) + (IF d = c THEN 1 ELSE 0)
  BY <1>1, <1>4, SpokenType, SaidMore DEF Says, Said
<1>6. Len(Spoken') = Len(Spoken) + 1 /\ Len(Spoken) \in Nat
  BY <1>1, SpokenType DEF Says
<1>7. /\ ConnectsTrue'
      /\ Unread(e.fd)' = rest
      /\ \A fd \in clients : fd # e.fd => Unread(fd)' = Unread(fd)
      /\ \A d \in Conn : Unanswered(d) => Unanswered(d)'
  BY <1>1, <1>2, ReadRoom DEF Says
<1>8. JoinedAreNamed' /\ NewAreOut'
  BY <1>2 DEF RoomInv, JoinedAreNamed, NewAreOut, Named
<1>9. joined[c].in /\ sock[e.fd] = c
  BY <1>1, <1>3 DEF RoomInv, JoinedAreNamed, Says
<1>10. OutAreSilent'
  BY <1>2, <1>5, <1>7, <1>9 DEF RoomInv, OutAreSilent
<1>11. JoinedInBounds'
  <2>1. joined \in [Conn -> [in : BOOLEAN, logged : Nat, spoken : Nat]]
    BY DEF IInv, TypeOK, ClientsType
  <2>2. \A d \in Conn : joined[d].logged \in Nat /\ joined[d].spoken \in Nat
    BY <2>1
  <2> QED
    BY <1>2, <1>6, <2>2 DEF RoomInv, JoinedInBounds
<1>12. Numbered'
  <2> SUFFICES ASSUME NEW fd \in clients, Named(fd)
               PROVE  /\ GoesOn(Unread(fd)', sock[fd], Said(sock[fd])')
                      /\ Said(sock[fd])' + Len(Unread(fd)') = nsent[sock[fd]]
    BY <1>2 DEF Numbered, GoesOn, Named, Said
  <2>1. /\ GoesOn(Unread(fd), sock[fd], Said(sock[fd]))
        /\ Said(sock[fd]) + Len(Unread(fd)) = nsent[sock[fd]]
    BY <1>3 DEF RoomInv, Numbered
  <2>2. CASE fd = e.fd
    <3>1. Said(c)' = Said(c) + 1 /\ Said(c) \in Nat
      BY <1>5
    <3>2. Len(rest) = Len(Unread(fd)) - 1 /\ GoesOn(rest, c, Said(c) + 1)
      BY <1>1, <2>2 DEF Says
    <3>3. Len(rest) \in Nat
      OBVIOUS
    <3> QED
      BY <2>1, <2>2, <3>1, <3>2, <3>3, <1>2, <1>7, <1>9
  <2>3. CASE fd # e.fd
    <3>1. sock[fd] # c
      BY <2>3, <1>3, <1>9, NamesAssumption DEF AnswerInv, OneDescriptor
    <3> QED
      BY <2>1, <2>3, <3>1, <1>2, <1>5, <1>7
  <2> QED
    BY <2>2, <2>3
<1> QED
  BY <1>2, <1>7, <1>8, <1>10, <1>11, <1>12 DEF RoomInv

\* What the client on c does: only a member sends a message.
LEMMA EnvironmentSends ==
    ASSUME IInv, NEW c \in Conn, Environment(c)
    PROVE  /\ UNCHANGED <<sock, clients, username, readBuf, joined, log, logQueue, server>>
           /\ \A d \in Conn \ {c} : nsent'[d] = nsent[d]
           /\ c \in backlog' \/ cst'[c] = "idle" => c \in backlog \/ cst[c] = "idle"
           /\ \/ inq'[c] = inq[c] /\ nsent'[c] = nsent[c] /\ ~ClientSend(c)
              \/ /\ cst[c] = "dialed" /\ nsent'[c] = nsent[c] /\ ~ClientSend(c)
                 /\ inq'[c] = Append(inq[c], ClientConnect(NameOf[c], SinceOf[c]))
              \/ /\ ClientSend(c) /\ cst[c] = "chat" /\ nsent'[c] = nsent[c] + 1
                 /\ inq'[c] = IF ServerHolds(c)
                              THEN Append(inq[c], ClientBroadMsg(<<c, nsent[c] + 1>>))
                              ELSE inq[c]
<1> USE DEF Environment, Dial, SendConnect, Sends, ClientSend, ClientClose,
            ClientReceives, RecvVal, RecvEof, ClientRead, Receives, ResetArrives,
            kernelVars, clientVars
<1>1. UNCHANGED <<sock, clients, username, readBuf, joined, log, logQueue, server>>
  BY DEF connVars, logVars
<1>2. /\ inq \in [Conn -> Seq(ClientPacket)] /\ nsent \in [Conn -> Nat]
      /\ cst \in [Conn -> ClientStates]
  BY DEF IInv, TypeOK, KernelType, ClientsType
<1>3. CASE ClientSend(c)
  BY <1>1, <1>2, <1>3
<1>4. CASE SendConnect(c)
  <2>1. /\ inq'[c] = inq[c] \/ inq'[c] = Append(inq[c], ClientConnect(NameOf[c], SinceOf[c]))
        /\ cst[c] = "dialed" /\ nsent' = nsent /\ backlog' = backlog /\ cst'[c] = "wait"
    BY <1>2, <1>4
  <2> QED
    BY <1>1, <2>1
<1>5. CASE ~ClientSend(c) /\ ~SendConnect(c)
  <2>1. inq' = inq /\ nsent' = nsent
    BY <1>5
  <2>2. c \in backlog' \/ cst'[c] = "idle" => c \in backlog \/ cst[c] = "idle"
    BY <1>2, <1>5 DEF ClientStates
  <2>3. ~ClientSend(c)
    BY <1>5
  <2> QED
    BY <1>1, <2>1, <2>2, <2>3
<1> QED
  BY <1>3, <1>4, <1>5

LEMMA EnvironmentRoom ==
    ASSUME IInv, AnswerInv, RoomInv, NEW c \in Conn, Environment(c)
    PROVE  RoomInv' /\ joined' = joined
<1>1. /\ UNCHANGED <<sock, clients, username, readBuf, joined, log, logQueue, server>>
      /\ \A d \in Conn \ {c} : nsent'[d] = nsent[d]
      /\ c \in backlog' \/ cst'[c] = "idle" => c \in backlog \/ cst[c] = "idle"
  BY EnvironmentSends
<1>2. /\ \A d \in Conn \ {c} :
            /\ inq'[d] = inq[d] /\ outq'[d] = outq[d] /\ inbox'[d] = inbox[d]
            /\ cst'[d] = cst[d] /\ (d \in backlog' <=> d \in backlog)
      /\ Unanswered(c) => Unanswered(c)'
  BY EnvironmentFacts
<1>3. /\ inq \in [Conn -> Seq(ClientPacket)] /\ nsent \in [Conn -> Nat]
      /\ clients \subseteq Fd /\ readBuf \in [Fd -> Seq(ClientPacket)]
  BY DEF IInv, TypeOK, KernelType, TablesType, ClientsType
<1>4. Spoken' = Spoken /\ \A d : Said(d)' = Said(d)
  BY <1>1 DEF Spoken, Said
<1>5. JoinedAreNamed' /\ NewAreOut' /\ JoinedInBounds'
  BY <1>1, <1>2, <1>4 DEF RoomInv, JoinedAreNamed, NewAreOut, JoinedInBounds, Named
<1>6. OutAreSilent'
  <2>1. \A d \in Conn : ~joined[d].in => Unanswered(d) /\ nsent[d] = 0 /\ Said(d) = 0
    BY DEF RoomInv, OutAreSilent
  <2>2. \A d \in Conn \ {c} : Unanswered(d) => Unanswered(d)'
    BY <1>2 DEF Unanswered
  <2>3. Unanswered(c) => nsent'[c] = nsent[c]
    BY EnvironmentSends DEF Unanswered
  <2> QED
    BY <2>1, <2>2, <2>3, <1>1, <1>2, <1>4 DEF OutAreSilent
<1>7. ConnectsTrue'
  <2>1. ASSUME NEW i \in 1 .. Len(inq'[c]), inq'[c][i].op = "CMG_CONNECT"
        PROVE  inq'[c][i] = ClientConnect(NameOf[c], SinceOf[c])
    <3>1. PICK s, p, q : s = inq[c] /\ p = ClientConnect(NameOf[c], SinceOf[c])
                          /\ q = ClientBroadMsg(<<c, nsent[c] + 1>>)
      OBVIOUS
    <3>2. s \in Seq(ClientPacket) /\ q.op = "CMG_BROADMSG"
      BY <1>3, <3>1 DEF ClientBroadMsg
    <3>3. inq'[c] = s \/ inq'[c] = Append(s, p) \/ inq'[c] = Append(s, q)
      BY <3>1, EnvironmentSends
    <3>4. \A j \in 1 .. Len(s) : s[j].op = "CMG_CONNECT" => s[j] = p
      BY <3>1 DEF RoomInv, ConnectsTrue
    <3>5. \A x : /\ Len(Append(s, x)) = Len(s) + 1 /\ Append(s, x)[Len(s) + 1] = x
                 /\ \A j \in 1 .. Len(s) : Append(s, x)[j] = s[j]
      BY <3>2
    <3>6. \A j \in 1 .. Len(s) + 1 : j \in 1 .. Len(s) \/ j = Len(s) + 1
      BY <3>2
    <3> QED
      BY <2>1, <3>1, <3>2, <3>3, <3>4, <3>5, <3>6
  <2> QED
    BY <2>1, <1>2 DEF RoomInv, ConnectsTrue
<1>8. Numbered'
  <2> SUFFICES ASSUME Up, NEW fd \in clients, Named(fd)
               PROVE  /\ GoesOn(Unread(fd)', sock[fd], Said(sock[fd]))
                      /\ Said(sock[fd]) + Len(Unread(fd)') = nsent'[sock[fd]]
    BY <1>1, <1>4 DEF Numbered, GoesOn, Named, Up
  <2>1. /\ GoesOn(Unread(fd), sock[fd], Said(sock[fd]))
        /\ Said(sock[fd]) + Len(Unread(fd)) = nsent[sock[fd]]
    BY DEF RoomInv, Numbered
  <2>2. fd \in Fd /\ sock[fd] \in Conn
    BY <1>3 DEF IInv, DescriptorsAgree
  <2>3. CASE inq'[sock[fd]] = inq[sock[fd]] /\ nsent'[sock[fd]] = nsent[sock[fd]]
    <3>1. Unread(fd)' = Unread(fd)
      BY <2>3, <1>1 DEF Unread
    <3> QED
      BY <2>1, <2>3, <3>1
  <2>4. CASE sock[fd] = c /\ ClientSend(c)
    <3>1. PICK s, t, p, k : /\ s = readBuf[fd] /\ t = inq[c] /\ k = Said(c)
                            /\ p = ClientBroadMsg(<<c, nsent[c] + 1>>)
      OBVIOUS
    <3>2. /\ s \in Seq(ClientPacket) /\ t \in Seq(ClientPacket) /\ k \in Nat
          /\ nsent[c] \in Nat
      BY <1>3, <2>2, <3>1, SaidType
    <3>3. p \in ClientPacket
      <4>1. <<c, nsent[c] + 1>> \in Message
        BY <3>2 DEF Message
      <4> QED
        BY <3>1, <4>1 DEF ClientBroadMsg, ClientPacket
    <3>4. inq'[c] = Append(t, p) /\ nsent'[c] = nsent[c] + 1
      <4>1. ServerHolds(c)
        BY <2>2, <2>4 DEF ServerHolds, Up
      <4> QED
        BY <2>4, <3>1, <4>1, EnvironmentSends
    <3>5. Unread(fd) = s \o t /\ Unread(fd)' = Append(s \o t, p) /\ s \o t \in Seq(ClientPacket)
      <4>1. Unread(fd)' = s \o Append(t, p)
        BY <1>1, <2>4, <3>1, <3>4 DEF Unread
      <4>2. Unread(fd) = s \o t
        BY <2>4, <3>1 DEF Unread
      <4> QED
        BY <3>2, <3>3, <4>1, <4>2, AppendJoin
    <3>6. PICK u : u = s \o t
      OBVIOUS
    <3>7. u \in Seq(ClientPacket) /\ Len(u) \in Nat /\ k + Len(u) = nsent[c] /\ GoesOn(u, c, k)
      <4>1. u \in Seq(ClientPacket) /\ Unread(fd) = u
        BY <3>5, <3>6
      <4>2. k + Len(u) = nsent[c] /\ GoesOn(u, c, k)
        <5>1. k = Said(sock[fd])
          BY <2>4, <3>1
        <5> QED
          BY <2>1, <2>4, <4>1, <5>1
      <4> QED
        BY <4>1, <4>2
    <3>8. GoesOn(Append(u, p), c, k) /\ Len(Append(u, p)) = Len(u) + 1
      BY <3>1, <3>2, <3>3, <3>7, GoesOnAppend
    <3>9. k + (Len(u) + 1) = nsent[c] + 1
      BY <3>2, <3>7
    <3> QED
      BY <2>4, <3>1, <3>4, <3>5, <3>6, <3>8, <3>9
  <2>5. sock[fd] = c => cst[c] # "dialed"
    BY <2>2 DEF IInv, ConnectIsFirst, Untouched, Named
  <2> QED
    BY <2>2, <2>3, <2>4, <2>5, <1>1, <1>2, EnvironmentSends
<1> QED
  BY <1>1, <1>5, <1>6, <1>7, <1>8 DEF RoomInv

LEMMA NextRoom == IInv /\ AnswerInv /\ RoomInv /\ [Next]_vars => RoomInv'
<1> SUFFICES ASSUME IInv, AnswerInv, RoomInv, [Next]_vars PROVE RoomInv'
  OBVIOUS
<1>0. Up' => Up
  BY StaysDown
<1>1. CASE MainThread
  <2>1. ASSUME NEW e \in batch, HangUp(e) \/ WriteEvent(e)
        PROVE  RoomInv'
    BY <2>1, <1>0, MovingRoom
  <2>2. ASSUME NEW e \in batch, ReadClosed(e)
        PROVE  RoomInv'
    BY <2>2, <1>0, ReadClosedRoom
  <2>3. ASSUME NEW e \in batch, ReadConnectRejected(e)
        PROVE  RoomInv'
    BY <2>3, <1>0, RejectedRoom
  <2>4. ASSUME NEW e \in batch, ReadConnectAccepted(e)
        PROVE  RoomInv'
    BY <2>4, <1>0, AcceptedRoom
  <2>5. ASSUME NEW e \in batch, ReadBroadMsg(e)
        PROVE  RoomInv'
    BY <2>5, <1>0, BroadMsgRoom
  <2>6. CASE EpollWait \/ Arm \/ Disarm \/ WriteBlocked \/ WriteAfterReset \/ DropBroadcast
    BY <2>6, <1>0, MovingRoom
  <2>7. CASE WriteSome \/ WriteToClosed
    BY <2>7, <1>0, WriteRoom
  <2>8. CASE DropErase \/ DropUnregistered
    BY <2>8, <1>0, ForgetRoom
  <2> QED
    BY <1>1, <2>1, <2>2, <2>3, <2>4, <2>5, <2>6, <2>7, <2>8 DEF MainThread
<1>2. CASE AcceptThread
  <2>1. ASSUME NEW c \in Conn, Accept(c)
        PROVE  RoomInv'
    BY <2>1, <1>0, AcceptRoom
  <2>2. CASE AcceptPoll \/ AcceptFails \/ AcceptEmplace \/ AcceptAdd
    BY <2>2, <1>0, MovingRoom
  <2> QED
    BY <1>2, <2>1, <2>2 DEF AcceptThread
<1>3. CASE LogThread \/ UNCHANGED vars
  BY <1>3, <1>0, MovingRoom
<1>4. ASSUME NEW c \in Conn, Environment(c)
      PROVE  RoomInv'
  BY <1>4, EnvironmentRoom
<1> QED
  BY <1>1, <1>2, <1>3, <1>4 DEF Next

\* Whoever has joined has the name its client asked for, and what waits of
\* its messages, in the socket and in readBuf, is what comes after those the
\* room was told: a message is never told twice, skipped or out of turn, and
\* nothing of a connection is taken for a message before it has its name
\* (clientConnect(), clientBroadMsg(), handleRead()).
THEOREM RoomInvariance == Spec => []RoomInv
<1>1. IInv /\ AnswerInv /\ RoomInv /\ [Next]_vars => RoomInv'
  BY NextRoom
<1> QED
  BY <1>1, InitRoom, Invariance, AnswerInvariance, PTL DEF Spec

-----------------------------------------------------------------------------
(***************************************************************************)
(* What grows at its end: a stream's messages, and those a member is due.  *)
(***************************************************************************)
\* From its place m on, a sequence with one more holds one more.
LEMMA CutGrows ==
    ASSUME NEW S, NEW s \in Seq(S), NEW p \in S, NEW m \in 1 .. Len(s) + 1
    PROVE  /\ SubSeq(Append(s, p), m, Len(s) + 1) = Append(SubSeq(s, m, Len(s)), p)
           /\ SubSeq(s, m, Len(s)) \in Seq(S)
<1>0. PICK n, l, r : /\ n = Len(s) /\ l = SubSeq(Append(s, p), m, n + 1)
                     /\ r = SubSeq(s, m, n)
  OBVIOUS
<1>1. n \in Nat /\ m \in Nat /\ m >= 1 /\ m <= n + 1
  BY <1>0
<1>2. /\ Append(s, p) \in Seq(S) /\ Len(Append(s, p)) = n + 1
      /\ Append(s, p)[n + 1] = p /\ \A i \in 1 .. n : Append(s, p)[i] = s[i]
  BY <1>0
<1>3. /\ l \in Seq(S) /\ Len(l) = n + 1 - m + 1
      /\ \A i \in 1 .. n + 1 - m + 1 : l[i] = Append(s, p)[m + i - 1]
  BY <1>0, <1>1, <1>2
<1>4. r \in Seq(S) /\ Len(r) = n - m + 1 /\ \A i \in 1 .. n - m + 1 : r[i] = s[m + i - 1]
  BY <1>0, <1>1
<1>5. PICK t : t = Append(r, p)
  OBVIOUS
<1>6. /\ t \in Seq(S) /\ Len(t) = n - m + 1 + 1 /\ t[n - m + 1 + 1] = p
      /\ \A i \in 1 .. n - m + 1 : t[i] = r[i]
  BY <1>4, <1>5
<1>7. \A i \in 1 .. n - m + 1 + 1 : l[i] = t[i]
  <2> TAKE i \in 1 .. n - m + 1 + 1
  <2>1. CASE i = n - m + 1 + 1
    <3>1. m + i - 1 = n + 1 /\ i \in 1 .. n + 1 - m + 1
      BY <2>1, <1>1
    <3> QED
      BY <2>1, <3>1, <1>2, <1>3, <1>6
  <2>2. CASE i # n - m + 1 + 1
    <3>1. i \in 1 .. n - m + 1 /\ m + i - 1 \in 1 .. n /\ i \in 1 .. n + 1 - m + 1
      BY <2>2, <1>1
    <3> QED
      BY <3>1, <1>2, <1>3, <1>4, <1>6
  <2> QED
    BY <2>1, <2>2
<1>8. n + 1 - m + 1 = n - m + 1 + 1
  BY <1>1
<1>9. l = t
  BY <1>3, <1>6, <1>7, <1>8, SeqEqual
<1> QED
  BY <1>0, <1>4, <1>5, <1>9

\* A part that ends before the end stays what it was.
LEMMA CutStays ==
    ASSUME NEW S, NEW s \in Seq(S), NEW p \in S, NEW m \in Nat \ {0},
           NEW n \in Nat, n <= Len(s)
    PROVE  SubSeq(Append(s, p), m, n) = SubSeq(s, m, n)
<1>0. PICK a : a = Append(s, p)
  OBVIOUS
<1>1. /\ a \in Seq(S) /\ Len(a) = Len(s) + 1 /\ Len(s) \in Nat
      /\ \A i \in 1 .. Len(s) : a[i] = s[i]
  BY <1>0
<1>2. \A i \in m .. n : i \in 1 .. Len(s)
  BY <1>1
<1>3. CASE m > n
  <2>1. SubSeq(a, m, n) = <<>> /\ SubSeq(s, m, n) = <<>>
    BY <1>1, <1>3
  <2> QED
    BY <2>1, <1>0
<1>4. CASE m <= n
  <2>1. PICK l, r : l = SubSeq(a, m, n) /\ r = SubSeq(s, m, n)
    OBVIOUS
  <2>2. /\ l \in Seq(S) /\ Len(l) = n - m + 1
        /\ \A i \in 1 .. n - m + 1 : l[i] = a[m + i - 1]
    BY <2>1, <1>1, <1>4
  <2>3. /\ r \in Seq(S) /\ Len(r) = n - m + 1
        /\ \A i \in 1 .. n - m + 1 : r[i] = s[m + i - 1]
    BY <2>1, <1>1, <1>4
  <2>4. \A i \in 1 .. n - m + 1 : m + i - 1 \in 1 .. Len(s)
    BY <1>1, <1>4
  <2>5. \A i \in 1 .. n - m + 1 : l[i] = r[i]
    BY <2>2, <2>3, <2>4, <1>1
  <2>6. l = r
    BY <2>2, <2>3, <2>5, SeqEqual
  <2> QED
    BY <2>1, <2>6, <1>0
<1> QED
  BY <1>3, <1>4

\* The part of a sequence from its place m on.
LEMMA CutFrom ==
    ASSUME NEW S, NEW s \in Seq(S), NEW m \in 1 .. Len(s)
    PROVE  /\ SubSeq(s, m, Len(s)) \in Seq(S)
           /\ Len(SubSeq(s, m, Len(s))) = Len(s) - m + 1
           /\ \A i \in 1 .. Len(s) - m + 1 : SubSeq(s, m, Len(s))[i] = s[m + i - 1]
  OBVIOUS

\* Behind the answer a message more is told, and no other packet counts.
LEMMA AfterAppend ==
    ASSUME NEW s \in Seq(ServerPacket), NEW p \in ServerPacket, OneList(s),
           p.op # "SMG_VALIDATE"
    PROVE  /\ After(Append(s, p)) =
                IF p \in BroadPacket THEN Append(After(s), p) ELSE After(s)
           /\ After(s) \in Seq(ServerPacket)
<1>1. PICK a \in 1 .. Len(s) : Answers(s) = {a}
  BY DEF OneList
<1>2. PICK t : t = Append(s, p)
  OBVIOUS
<1>3. /\ t \in Seq(ServerPacket) /\ Len(t) = Len(s) + 1 /\ Len(s) \in Nat
      /\ t[Len(s) + 1] = p /\ \A i \in 1 .. Len(s) : t[i] = s[i]
      /\ DOMAIN t = 1 .. Len(s) + 1 /\ DOMAIN s = 1 .. Len(s)
  BY <1>2
<1>4. Answers(t) = {a}
  <2>1. \A i \in 1 .. Len(s) + 1 : i \in 1 .. Len(s) \/ i = Len(s) + 1
    BY <1>3
  <2>2. \A i \in 1 .. Len(s) : i \in 1 .. Len(s) + 1
    BY <1>3
  <2> QED
    BY <2>1, <2>2, <1>1, <1>3 DEF Answers
<1>5. PICK u : u = SubSeq(s, a, Len(s))
  OBVIOUS
<1>6. a \in 1 .. Len(s) + 1
  BY <1>3
<1>7. u \in Seq(ServerPacket) /\ SubSeq(t, a, Len(t)) = Append(u, p)
  BY <1>2, <1>3, <1>5, <1>6, CutGrows
<1>8. After(s) = Only(u, BroadPacket) /\ After(t) = Only(Append(u, p), BroadPacket)
  BY <1>1, <1>4, <1>5, <1>7 DEF After
<1>9. /\ Only(Append(u, p), BroadPacket) =
            IF p \in BroadPacket THEN Append(Only(u, BroadPacket), p)
            ELSE Only(u, BroadPacket)
      /\ Only(u, BroadPacket) \in Seq(ServerPacket)
  <2>1. u \in Seq(ServerPacket)
    BY <1>7
  <2> QED
    BY <2>1, OnlyAppend, OnlyType
<1> QED
  BY <1>2, <1>8, <1>9

IsReplay(t, s, v, r) == t = (s \o <<v>>) \o r
LEMMA AfterNew ==
    ASSUME NEW s \in Seq(ServerPacket), NoAnswer(s),
           NEW v \in ServerPacket, v.op = "SMG_VALIDATE",
           NEW r \in Seq(BroadPacket),
           NEW t \in Seq(ServerPacket), IsReplay(t, s, v, r)
    PROVE  After(t) = r
<1>1. PICK k, a : k = <<v>> /\ a = Len(s) + 1
  OBVIOUS
<1>2. /\ k \in Seq(ServerPacket) /\ Len(k) = 1 /\ r \in Seq(ServerPacket)
      /\ Len(s) \in Nat /\ Len(r) \in Nat /\ k[1] = v
  BY <1>1, PacketTypes
<1>3. t = s \o (k \o r) /\ k \o r \in Seq(ServerPacket)
  <2>1. JoinsAt(s, k, r)
    BY <1>2, JoinAssociative
  <2> QED
    BY <2>1, <1>1, <1>2 DEF JoinsAt, IsReplay
<1>4. PICK w : w = k \o r
  OBVIOUS
<1>5. /\ w \in Seq(ServerPacket) /\ Len(w) = Len(r) + 1 /\ w[1] = v
      /\ \A i \in 2 .. Len(w) : w[i] = r[i - 1] /\ i - 1 \in 1 .. Len(r)
  <2>1. k \in Seq(ServerPacket) /\ r \in Seq(ServerPacket)
    BY <1>2
  <2>2. /\ w \in Seq(ServerPacket) /\ Len(w) = Len(k) + Len(r)
        /\ \A i \in 1 .. Len(k) + Len(r) :
                w[i] = IF i <= Len(k) THEN k[i] ELSE r[i - Len(k)]
    BY <2>1, <1>4, ConcatProperties
  <2>3. w[1] = v /\ Len(w) = Len(r) + 1
    BY <2>2, <1>2
  <2>4. \A i \in 2 .. Len(w) :
            i \in 1 .. Len(k) + Len(r) /\ ~(i <= Len(k)) /\ i - 1 \in 1 .. Len(r)
    BY <2>3, <1>2
  <2> QED
    BY <2>2, <2>3, <2>4, <1>2
<1>6. /\ t = s \o w /\ Len(t) = Len(s) + Len(w)
      /\ \A i \in 1 .. Len(s) : t[i] = s[i]
      /\ \A i \in 1 .. Len(w) : t[Len(s) + i] = w[i]
  <2>1. t = s \o w
    BY <1>3, <1>4
  <2>2. /\ s \in Seq(ServerPacket) /\ w \in Seq(ServerPacket)
        /\ Len(s) \in Nat /\ Len(w) \in Nat
    BY <1>2, <1>5
  <2>3. /\ Len(s \o w) = Len(s) + Len(w)
        /\ \A i \in 1 .. Len(s) + Len(w) :
                (s \o w)[i] = IF i <= Len(s) THEN s[i] ELSE w[i - Len(s)]
    BY <2>2, ConcatProperties
  <2>4. \A i \in 1 .. Len(s) : i \in 1 .. Len(s) + Len(w) /\ i <= Len(s)
    BY <2>2
  <2>5. \A i \in 1 .. Len(w) :
            /\ Len(s) + i \in 1 .. Len(s) + Len(w) /\ ~(Len(s) + i <= Len(s))
            /\ (Len(s) + i) - Len(s) = i
    BY <2>2
  <2>6. \A i \in 1 .. Len(w) : (s \o w)[Len(s) + i] = w[i]
    BY <2>3, <2>5
  <2>7. \A i \in 1 .. Len(s) : (s \o w)[i] = s[i]
    BY <2>3, <2>4
  <2> QED
    BY <2>1, <2>3, <2>6, <2>7
<1>7. Answers(t) = {a}
  <2>1. \A i \in 1 .. Len(r) : r[i].op = "SMG_BROADMSG"
    <3>1. \A i \in 1 .. Len(r) : r[i] \in BroadPacket
      OBVIOUS
    <3> QED
      BY <3>1 DEF BroadPacket
  <2>2. \A i \in 2 .. Len(w) : w[i].op # "SMG_VALIDATE"
    BY <2>1, <1>5
  <2>3. \A i \in 1 .. Len(t) :
            i \in 1 .. Len(s) \/ i = a \/ (i - Len(s) \in 2 .. Len(w) /\ Len(s) + (i - Len(s)) = i)
    BY <1>1, <1>2, <1>5, <1>6
  <2>4. \A i \in 1 .. Len(s) : t[i].op # "SMG_VALIDATE"
    BY <1>6 DEF NoAnswer
  <2>5. \A i \in 2 .. Len(w) : i \in 1 .. Len(w)
    BY <1>5
  <2>6. t[a] = v /\ a \in 1 .. Len(t)
    <3>1. 1 \in 1 .. Len(w) /\ a = Len(s) + 1 /\ a \in 1 .. Len(s) + Len(w)
      BY <1>1, <1>2, <1>5
    <3> QED
      BY <3>1, <1>5, <1>6
  <2>7. \A i \in 1 .. Len(t) : i # a => t[i].op # "SMG_VALIDATE"
    BY <2>2, <2>3, <2>4, <2>5, <1>6
  <2>8. DOMAIN t = 1 .. Len(t)
    OBVIOUS
  <2> QED
    BY <2>6, <2>7, <2>8 DEF Answers
<1>8. SubSeq(t, a, Len(t)) = w
  <2>1. PICK l : l = SubSeq(t, a, Len(t))
    OBVIOUS
  <2>2. a \in 1 .. Len(t) /\ Len(t) \in Nat /\ Len(t) - a + 1 = Len(w)
    BY <1>1, <1>2, <1>5, <1>6
  <2>3. /\ l \in Seq(ServerPacket) /\ Len(l) = Len(w)
        /\ \A i \in 1 .. Len(w) : l[i] = t[a + i - 1]
    <3>1. t \in Seq(ServerPacket) /\ a \in 1 .. Len(t)
      BY <2>2
    <3>2. /\ l \in Seq(ServerPacket) /\ Len(l) = Len(t) - a + 1
          /\ \A i \in 1 .. Len(t) - a + 1 : l[i] = t[a + i - 1]
      BY <2>1, <3>1, CutFrom
    <3> QED
      BY <2>2, <3>2
  <2>4. \A i \in 1 .. Len(w) : a + i - 1 = Len(s) + i
    BY <1>1, <1>2
  <2>5. \A i \in 1 .. Len(w) : l[i] = w[i]
    BY <2>3, <2>4, <1>6
  <2>6. l = w
    BY <2>3, <2>5, <1>5, SeqEqual
  <2> QED
    BY <2>1, <2>6
<1>9. After(t) = Only(w, BroadPacket)
  BY <1>7, <1>8 DEF After
<1>10. Only(w, BroadPacket) = Only(k, BroadPacket) \o Only(r, BroadPacket)
  <2>1. k \in Seq(ServerPacket) /\ r \in Seq(ServerPacket)
    BY <1>2
  <2>2. Only(k \o r, BroadPacket) = Only(k, BroadPacket) \o Only(r, BroadPacket)
    BY <2>1, OnlyJoin
  <2> QED
    BY <2>2, <1>4
<1>11. Only(k, BroadPacket) = <<>>
  <2>1. k = Append(<<>>, v) /\ <<>> \in Seq(ServerPacket) /\ v \notin BroadPacket
    BY <1>1 DEF BroadPacket
  <2>2. Only(Append(<<>>, v), BroadPacket) = Only(<<>>, BroadPacket)
    BY <2>1, OnlyAppend
  <2> QED
    BY <2>1, <2>2, OnlyEmpty
<1>12. Only(r, BroadPacket) = r
  BY OnlyAll
<1> QED
  BY <1>9, <1>10, <1>11, <1>12

\* A message said is due to every member but its author.
LEMMA DueAppend ==
    ASSUME IInv, RoomInv, NEW d \in Conn, NEW m \in BroadPacket,
           Spoken' = Append(Spoken, m), joined'[d] = joined[d]
    PROVE  Due(d)' = IF m.msg[1] = d THEN Due(d) ELSE Append(Due(d), m)
<1>0. PICK s, a, k, l : /\ s = Spoken /\ a = SinceOf[d] + 1
                        /\ k = joined[d].logged /\ l = joined[d].spoken
  OBVIOUS
<1>1. /\ s \in Seq(BroadPacket) /\ Len(s) \in Nat /\ a \in Nat \ {0}
      /\ k \in Nat /\ l \in Nat /\ k <= Len(s) /\ l <= Len(s)
  BY <1>0, SpokenType, NamesAssumption
  DEF IInv, TypeOK, ClientsType, RoomInv, JoinedInBounds
<1>2. PICK x, y : x = SubSeq(s, a, k) /\ y = SubSeq(s, l + 1, Len(s))
  OBVIOUS
<1>3. x \in Seq(BroadPacket)
  BY <1>1, <1>2
<1>4. SubSeq(Append(s, m), a, k) = x
  BY <1>1, <1>2, CutStays
<1>5. /\ SubSeq(Append(s, m), l + 1, Len(Append(s, m))) = Append(y, m)
      /\ y \in Seq(BroadPacket)
  <2>1. l + 1 \in 1 .. Len(s) + 1 /\ Len(Append(s, m)) = Len(s) + 1
    BY <1>1
  <2>2. s \in Seq(BroadPacket)
    BY <1>1
  <2>3. /\ SubSeq(Append(s, m), l + 1, Len(s) + 1) = Append(SubSeq(s, l + 1, Len(s)), m)
        /\ SubSeq(s, l + 1, Len(s)) \in Seq(BroadPacket)
    BY <2>1, <2>2, CutGrows
  <2> QED
    BY <2>1, <2>3, <1>2
<1>6. m \in NotBy(d) <=> m.msg[1] # d
  BY DEF NotBy
<1>7. PICK z : z = Only(y, NotBy(d))
  OBVIOUS
<1>8. /\ z \in Seq(BroadPacket)
      /\ Only(Append(y, m), NotBy(d)) = IF m.msg[1] # d THEN Append(z, m) ELSE z
  <2>1. y \in Seq(BroadPacket)
    BY <1>5
  <2>2. /\ Only(Append(y, m), NotBy(d)) =
                IF m \in NotBy(d) THEN Append(Only(y, NotBy(d)), m) ELSE Only(y, NotBy(d))
        /\ Only(y, NotBy(d)) \in Seq(BroadPacket)
    BY <2>1, OnlyAppend, OnlyType
  <2> QED
    BY <2>2, <1>6, <1>7
<1>9. Due(d) = x \o z
  BY <1>0, <1>2, <1>7 DEF Due
<1>10. Due(d)' = x \o Only(Append(y, m), NotBy(d))
  BY <1>0, <1>4, <1>5 DEF Due
<1>11. x \o Append(z, m) = Append(x \o z, m)
  BY <1>3, <1>8, AppendJoin
<1> QED
  BY <1>8, <1>9, <1>10, <1>11

\* The part of a join that lies within its first sequence.
LEMMA CutOfJoin ==
    ASSUME NEW S, NEW s \in Seq(S), NEW t \in Seq(S), NEW m \in Nat \ {0}
    PROVE  SubSeq(s \o t, m, Len(s)) = SubSeq(s, m, Len(s))
<1>0. PICK a, n : a = s \o t /\ n = Len(s)
  OBVIOUS
<1>1. /\ a \in Seq(S) /\ Len(a) = n + Len(t) /\ n \in Nat /\ Len(t) \in Nat
      /\ \A i \in 1 .. n : a[i] = s[i]
  BY <1>0
<1>2. CASE m > n
  BY <1>0, <1>1, <1>2
<1>3. CASE m <= n
  <2>1. PICK l, r : l = SubSeq(a, m, n) /\ r = SubSeq(s, m, n)
    OBVIOUS
  <2>2. /\ l \in Seq(S) /\ Len(l) = n - m + 1
        /\ \A i \in 1 .. n - m + 1 : l[i] = a[m + i - 1]
    BY <2>1, <1>1, <1>3
  <2>3. /\ r \in Seq(S) /\ Len(r) = n - m + 1
        /\ \A i \in 1 .. n - m + 1 : r[i] = s[m + i - 1]
    BY <2>1, <1>0, <1>1, <1>3
  <2>4. \A i \in 1 .. n - m + 1 : m + i - 1 \in 1 .. n
    BY <1>1, <1>3
  <2>5. \A i \in 1 .. n - m + 1 : l[i] = r[i]
    BY <2>2, <2>3, <2>4, <1>1
  <2>6. l = r
    BY <2>2, <2>3, <2>5, SeqEqual
  <2> QED
    BY <2>1, <2>6, <1>0
<1> QED
  BY <1>2, <1>3, <1>1

-----------------------------------------------------------------------------
(***************************************************************************)
(* FeedKept is inductive.                                                  *)
(***************************************************************************)
LEMMA InitFeed == Init => FeedKept
  BY DEF Init, FeedKept

\* A step that moves packets along the streams and says nothing.
LEMMA KeepFeed ==
    ASSUME FeedKept, KeepsStreams, UNCHANGED <<Spoken, joined>>
    PROVE  FeedKept'
<1>1. \A c : Due(c)' = Due(c)
  BY DEF Due
<1>2. ASSUME NEW fd \in clients', Named(fd)', peer'[sock'[fd]] = "open"
      PROVE  After(Stream(fd)') = Due(sock[fd])'
  <2>1. /\ fd \in clients /\ Named(fd) /\ peer[sock[fd]] = "open"
        /\ sock'[fd] = sock[fd] /\ Stream(fd)' = Stream(fd)
    BY <1>2 DEF KeepsStreams
  <2>2. After(Stream(fd)) = Due(sock[fd])
    BY <2>1 DEF FeedKept
  <2>3. Due(sock[fd])' = Due(sock[fd])
    BY <1>1, <2>1
  <2> QED
    BY <2>1, <2>2, <2>3
<1> QED
  BY <1>2 DEF FeedKept

\* A message goes to every member but its author.
LEMMA BroadMsgFeed ==
    ASSUME IInv, AnswerInv, RoomInv, ListsKept, FeedKept, NEW e \in batch,
           ReadBroadMsg(e)
    PROVE  FeedKept'
<1>1. PICK c \in Conn, m \in BroadPacket, rest \in Seq(ClientPacket) : Says(e, c, m, rest)
  BY SaysNext
<1>2. /\ sock[e.fd] = c /\ m.msg[1] = c /\ Spoken' = Append(Spoken, m)
      /\ writeBuf' = AppendTo(Others(e.fd), m)
  BY <1>1 DEF Says, ServerBroadMsg
<1>3. /\ UNCHANGED <<peer, sock, outq, clients, username, inbox, joined>>
      /\ pc = "loop"
  <2>1. \E d \in Conn : \E p : Takes(e, d, p)
    BY DEF ReadBroadMsg
  <2> QED
    BY <2>1 DEF ReadBroadMsg, clientVars, Takes, Handles
<1>4. m \in ServerPacket /\ m.op # "SMG_VALIDATE"
  BY PacketTypes DEF BroadPacket
<1>5. ASSUME NEW fd \in clients, Named(fd), peer[sock[fd]] = "open"
      PROVE  After(Stream(fd)') = Due(sock[fd])'
  <2>0. PICK s, d : s = Stream(fd) /\ d = sock[fd]
    OBVIOUS
  <2>1. /\ OneList(s) /\ s \in Seq(ServerPacket) /\ After(s) = Due(d)
        /\ d \in Conn /\ fd \in Fd
    BY <2>0, <1>5, StreamParts DEF ListsKept, FeedKept
  <2>2. Stream(fd)' = IF fd = e.fd THEN s ELSE Append(s, m)
    BY <2>0, <1>2, <1>3, <1>4, BroadcastStreams DEF Others
  <2>3. After(Append(s, m)) = Append(After(s), m)
    BY <2>1, <1>4, AfterAppend
  <2>4. fd = e.fd <=> d = c
    BY <2>0, <2>1, <1>2, BatchClient, NamesAssumption DEF AnswerInv, OneDescriptor
  <2>5. Due(d)' = IF d = c THEN Due(d) ELSE Append(Due(d), m)
    BY <2>1, <1>2, <1>3, DueAppend
  <2>6. Due(sock[fd])' = Due(d)'
    BY <2>0, <1>3 DEF Due
  <2> QED
    BY <2>1, <2>2, <2>3, <2>4, <2>5, <2>6
<1> QED
  BY <1>3, <1>5 DEF FeedKept, Named

LEMMA DropBroadcastFeed ==
    ASSUME IInv, ListsKept, FeedKept, DropBroadcast
    PROVE  FeedKept'
<1>0. PICK f, n, b : f = cur.fd /\ n = username[cur.fd] /\ b = ServerDisconnect(n)
  OBVIOUS
<1>1. /\ UNCHANGED <<peer, sock, outq, clients, username, inbox, joined, log, logQueue>>
      /\ pc = "drop" /\ writeBuf' = AppendTo(Others(f), b)
  BY <1>0 DEF DropBroadcast, kernelVars, clientVars, logVars
<1>2. n \in Name
  BY <1>0, <1>1, CurrentClient DEF DropBroadcast, Announced, IInv, TypeOK, TablesType
<1>3. b \in ServerPacket /\ b.op = "SMG_DISCONNECT" /\ b \notin BroadPacket
  BY <1>0, <1>2, PacketTypes DEF ServerDisconnect, BroadPacket
<1>4. \A c : Due(c)' = Due(c)
  BY <1>1 DEF Due, Spoken
<1>5. ASSUME NEW fd \in clients, Named(fd), peer[sock[fd]] = "open"
      PROVE  After(Stream(fd)') = Due(sock[fd])
  <2>0. PICK s : s = Stream(fd)
    OBVIOUS
  <2>1. OneList(s) /\ s \in Seq(ServerPacket) /\ After(s) = Due(sock[fd])
    BY <2>0, <1>5, StreamParts DEF ListsKept, FeedKept
  <2>2. Stream(fd)' = s \/ Stream(fd)' = Append(s, b)
    BY <2>0, <1>1, <1>3, BroadcastStreams
  <2>3. After(Append(s, b)) = After(s)
    BY <2>1, <1>3, AfterAppend
  <2> QED
    BY <2>1, <2>2, <2>3
<1>6. \A fd \in clients : Due(sock[fd])' = Due(sock[fd])
  BY <1>1, <1>4
<1> QED
  BY <1>1, <1>5, <1>6 DEF FeedKept, Named

\* The newcomer gets the logged messages it asked for; it is due no others
\* yet, and the messages that wait for the log thread are none of them.
LEMMA AcceptedFeed ==
    ASSUME IInv, AnswerInv, RoomInv, ListsKept, FeedKept, NEW e \in batch,
           ReadConnectAccepted(e)
    PROVE  FeedKept'
<1>0. PICK c \in Conn :
        LET p == Head(readBuf[e.fd] \o inq[c])
        IN  /\ Takes(e, c, p)
            /\ p.op = "CMG_CONNECT"
            /\ username' = [username EXCEPT ![e.fd] = p.user]
            /\ writeBuf' =
                [AppendTo(Others(e.fd), ServerConnect(p.user)) EXCEPT
                    ![e.fd] = @ \o <<ServerValidate(TRUE, UserList')>>
                                \o BackLog(p.since)]
            /\ joined' = [joined EXCEPT ![c] =
                            [in |-> TRUE, logged |-> Len(log),
                             spoken |-> Len(log) + Len(logQueue)]]
  BY DEF ReadConnectAccepted
<1>1. PICK p, v, r, b :
        /\ p = Head(readBuf[e.fd] \o inq[c])
        /\ v = ServerValidate(TRUE, UserList')
        /\ b = ServerConnect(p.user)
        /\ r = BackLog(p.since)
        /\ Takes(e, c, p)
        /\ p.op = "CMG_CONNECT"
        /\ username' = [username EXCEPT ![e.fd] = p.user]
        /\ writeBuf' = [AppendTo(Others(e.fd), b) EXCEPT ![e.fd] = @ \o <<v>> \o r]
        /\ joined' = [joined EXCEPT ![c] =
                        [in |-> TRUE, logged |-> Len(log),
                         spoken |-> Len(log) + Len(logQueue)]]
  BY <1>0
<1>2. /\ sock[e.fd] = c /\ e.fd \in Fd /\ ~Named(e.fd) /\ e.fd \in clients
      /\ p = ClientConnect(NameOf[c], SinceOf[c])
  BY <1>1, ConnectAlone, BatchClient
<1>3. p.user = NameOf[c] /\ p.since = SinceOf[c] /\ NameOf[c] \in Name /\ SinceOf[c] \in Nat
  BY <1>2, NamesAssumption DEF ClientConnect
<1>4. /\ UNCHANGED <<peer, sock, outq, clients, inbox, log, logQueue>>
      /\ pc = "loop" /\ markToDie = {}
  <2>1. pc = "loop"
    BY <1>1 DEF Takes, Handles
  <2> QED
    BY <2>1, NoMarks DEF ReadConnectAccepted, clientVars, logVars, AnswerInv
<1>5. /\ clients \subseteq Fd /\ writeBuf \in [Fd -> Seq(ServerPacket)]
      /\ username \in [Fd -> Name \cup {NoName}]
      /\ joined \in [Conn -> [in : BOOLEAN, logged : Nat, spoken : Nat]]
  BY DEF IInv, TypeOK, TablesType, ClientsType
<1>6. /\ log \in Seq(BroadPacket) /\ logQueue \in Seq(BroadPacket)
      /\ Spoken \in Seq(BroadPacket) /\ Len(Spoken) = Len(log) + Len(logQueue)
      /\ Len(log) \in Nat /\ Len(logQueue) \in Nat
  BY SpokenType DEF Spoken
<1>7. /\ v \in ServerPacket /\ v.op = "SMG_VALIDATE"
      /\ b \in ServerPacket /\ b.op = "SMG_CONNECT" /\ b \notin BroadPacket
  <2>1. UserList' \in SUBSET Name
    BY DEF UserList
  <2> QED
    BY <1>1, <1>3, <2>1, PacketTypes DEF ServerValidate, ServerConnect, BroadPacket
<1>8. /\ joined'[c].logged = Len(log) /\ joined'[c].spoken = Len(Spoken)
      /\ \A d \in Conn : d # c => joined'[d] = joined[d]
  BY <1>1, <1>5, <1>6
<1>9. \A d \in Conn : d # c => Due(d)' = Due(d)
  <2>1. Spoken' = Spoken
    BY <1>4 DEF Spoken
  <2> QED
    BY <2>1, <1>8 DEF Due
<1>10. r \in Seq(BroadPacket) /\ r = SubSeq(log, SinceOf[c] + 1, Len(log))
  <2>1. r = SubSeq(log, SinceOf[c] + 1, Len(log))
    BY <1>1, <1>3 DEF BackLog
  <2> QED
    BY <2>1, <1>3, <1>6
<1>11. ASSUME NEW fd \in clients, fd # e.fd, Named(fd), peer[sock[fd]] = "open"
       PROVE  After(Stream(fd)') = Due(sock[fd])'
  <2>0. PICK s : s = Stream(fd)
    OBVIOUS
  <2>1. /\ OneList(s) /\ s \in Seq(ServerPacket) /\ After(s) = Due(sock[fd])
        /\ sock[fd] \in Conn /\ fd \in Fd
    BY <2>0, <1>11, StreamParts DEF ListsKept, FeedKept
  <2>2. writeBuf'[fd] = AppendTo(Others(e.fd), b)[fd] /\ fd \in Others(e.fd)
    <3>1. fd \in DOMAIN AppendTo(Others(e.fd), b) /\ fd \in Others(e.fd)
      BY <1>5, <1>11 DEF AppendTo, Others
    <3> QED
      BY <3>1, <1>1, <1>11
  <2>3. Stream(fd)' = Append(s, b)
    BY <2>0, <2>2, <1>4, <1>7, BroadcastStreams
  <2>4. After(Append(s, b)) = After(s)
    BY <2>1, <1>7, AfterAppend
  <2>5. sock[fd] # c
    BY <2>1, <1>2, <1>11, NamesAssumption DEF AnswerInv, OneDescriptor
  <2>6. Due(sock[fd])' = Due(sock[fd])
    BY <2>1, <2>5, <1>4, <1>9
  <2> QED
    BY <2>1, <2>3, <2>4, <2>6
<1>12. After(Stream(e.fd)') = r
  <2>0. PICK x, q, w, s, t :
            /\ x = inbox[sock[e.fd]] /\ q = outq[sock[e.fd]] /\ w = writeBuf[e.fd]
            /\ s = x \o q \o w /\ t = Stream(e.fd)'
    OBVIOUS
  <2>1. /\ x \in Seq(ServerPacket) /\ q \in Seq(ServerPacket) /\ w \in Seq(ServerPacket)
    BY <2>0, <1>2, StreamParts
  <2>2. writeBuf'[e.fd] = w \o <<v>> \o r
    <3>1. AppendTo(Others(e.fd), b)[e.fd] = w /\ e.fd \in DOMAIN AppendTo(Others(e.fd), b)
      BY <2>0, <1>2 DEF AppendTo, Others
    <3> QED
      BY <3>1, <1>1
  <2>3. t = x \o q \o (w \o <<v>> \o r)
    BY <2>0, <2>2, <1>4 DEF Stream
  <2>4. r \in Seq(ServerPacket) /\ <<v>> \in Seq(ServerPacket)
    BY <1>7, <1>10, PacketTypes
  <2>5. AnswersAlong(x, q, w, v, r)
    BY <2>1, <2>4, <1>7, StreamAnswer
  <2>6. t = (s \o <<v>>) \o r
    BY <2>0, <2>3, <2>5 DEF AnswersAlong
  <2>7. x \o q \in Seq(ServerPacket) /\ s \in Seq(ServerPacket)
    BY <2>0, <2>1
  <2>8. NoAnswer(s)
    <3>1. NoAnswer(x) /\ NoAnswer(q) /\ NoAnswer(w)
      BY <2>0, <1>2, <1>4 DEF AnswerInv, UnnamedAreSilent, Unanswered
    <3>2. PICK y : y = x \o q
      OBVIOUS
    <3>3. y \in Seq(ServerPacket) /\ NoAnswer(y)
      BY <2>1, <2>7, <3>1, <3>2, NoAnswerJoin
    <3>4. NoAnswer(y \o w)
      BY <2>1, <3>1, <3>3, NoAnswerJoin
    <3> QED
      BY <2>0, <3>2, <3>4
  <2>9. t \in Seq(ServerPacket)
    <3>1. s \o <<v>> \in Seq(ServerPacket)
      BY <2>4, <2>7
    <3> QED
      BY <2>4, <2>6, <3>1
  <2>10. After(t) = r
    <3>1. IsReplay(t, s, v, r)
      BY <2>6 DEF IsReplay
    <3>2. s \in Seq(ServerPacket) /\ t \in Seq(ServerPacket)
      BY <2>7, <2>9
    <3> QED
      BY <3>1, <3>2, <2>8, <1>7, <1>10, AfterNew
  <2> QED
    BY <2>0, <2>10
<1>13. Due(c)' = r
  <2>1. Due(c)' = SubSeq(Spoken, SinceOf[c] + 1, Len(log))
                    \o Only(SubSeq(Spoken, Len(Spoken) + 1, Len(Spoken)), NotBy(c))
    BY <1>4, <1>8 DEF Due, Spoken
  <2>2. SubSeq(Spoken, Len(Spoken) + 1, Len(Spoken)) = <<>>
    BY <1>6
  <2>3. SubSeq(Spoken, SinceOf[c] + 1, Len(log)) = r
    <3>1. SinceOf[c] + 1 \in Nat \ {0}
      BY <1>3
    <3>2. log \in Seq(BroadPacket) /\ logQueue \in Seq(BroadPacket)
      BY <1>6
    <3>3. SubSeq(log \o logQueue, SinceOf[c] + 1, Len(log)) =
            SubSeq(log, SinceOf[c] + 1, Len(log))
      BY <3>1, <3>2, CutOfJoin
    <3> QED
      BY <3>3, <1>10 DEF Spoken
  <2>4. Only(<<>>, NotBy(c)) = <<>>
    BY OnlyEmpty
  <2>5. r \o <<>> = r
    BY <1>10
  <2> QED
    BY <2>1, <2>2, <2>3, <2>4, <2>5
<1>14. Due(sock[e.fd])' = r
  BY <1>2, <1>4, <1>13
<1>15. \A fd \in clients : fd # e.fd => Named(fd)' = Named(fd)
  BY <1>1, <1>5 DEF Named
<1> QED
  BY <1>4, <1>11, <1>12, <1>14, <1>15 DEF FeedKept

LEMMA NextFeed ==
    IInv /\ AnswerInv /\ RoomInv /\ ListsKept /\ FeedKept /\ [Next]_vars => FeedKept'
<1> SUFFICES ASSUME IInv, AnswerInv, RoomInv, ListsKept, FeedKept, [Next]_vars
             PROVE  FeedKept'
  OBVIOUS
<1>0. Up' => Up
  BY StaysDown
<1>1. CASE MainThread
  <2>1. ASSUME NEW e \in batch, HangUp(e) \/ WriteEvent(e) \/ ReadClosed(e)
        PROVE  FeedKept'
    <3>1. joined' = joined /\ Spoken' = Spoken
      BY <2>1 DEF HangUp, WriteEvent, ReadClosed, logVars, Spoken
    <3> QED
      BY <2>1, <3>1, MovingStreams, KeepFeed
  <2>2. ASSUME NEW e \in batch, ReadConnectRejected(e)
        PROVE  FeedKept'
    <3>1. joined' = joined /\ Spoken' = Spoken
      BY <2>2 DEF ReadConnectRejected, logVars, Spoken
    <3> QED
      BY <2>2, <3>1, RejectedStreams, KeepFeed
  <2>3. ASSUME NEW e \in batch, ReadConnectAccepted(e) \/ ReadBroadMsg(e)
        PROVE  FeedKept'
    BY <2>3, AcceptedFeed, BroadMsgFeed
  <2>4. CASE EpollWait \/ Arm \/ Disarm \/ WriteBlocked \/ WriteAfterReset
    <3>1. joined' = joined /\ Spoken' = Spoken
      BY <2>4 DEF EpollWait, Arm, Disarm, WriteBlocked, WriteAfterReset, logVars, Spoken
    <3> QED
      BY <2>4, <3>1, MovingStreams, KeepFeed
  <2>5. CASE WriteSome \/ WriteToClosed
    <3>1. joined' = joined /\ Spoken' = Spoken
      BY <2>5 DEF WriteSome, WriteToClosed, logVars, Spoken
    <3> QED
      BY <2>5, <3>1, WriteStreams, KeepFeed
  <2>6. CASE DropErase \/ DropUnregistered
    <3>1. joined' = joined /\ Spoken' = Spoken
      BY <2>6 DEF DropErase, DropUnregistered, logVars, Spoken
    <3> QED
      BY <2>6, <3>1, ForgetStreams, KeepFeed
  <2>7. CASE DropBroadcast
    BY <2>7, DropBroadcastFeed
  <2> QED
    BY <1>1, <2>1, <2>2, <2>3, <2>4, <2>5, <2>6, <2>7 DEF MainThread
<1>2. CASE AcceptThread
  <2>1. joined' = joined /\ Spoken' = Spoken
    BY <1>2 DEF AcceptThread, AcceptPoll, AcceptFails, AcceptEmplace, AcceptAdd,
       Accept, logVars, Spoken
  <2>2. KeepsStreams
    BY <1>2, MovingStreams, AcceptStreams DEF AcceptThread
  <2> QED
    BY <2>1, <2>2, KeepFeed
<1>3. CASE LogThread
  <2>1. joined' = joined /\ Spoken' = Spoken
    BY <1>3, LogKeepsSpoken DEF LogThread
  <2> QED
    BY <1>3, <2>1, MovingStreams, KeepFeed
<1>4. CASE UNCHANGED vars
  <2>1. joined' = joined /\ Spoken' = Spoken
    BY <1>4 DEF vars, logVars, Spoken
  <2> QED
    BY <1>4, <2>1, MovingStreams, KeepFeed
<1>5. ASSUME NEW c \in Conn, Environment(c)
      PROVE  FeedKept'
  <2>1. joined' = joined /\ Spoken' = Spoken
    BY <1>5, EnvironmentSends DEF Spoken
  <2> QED
    BY <1>5, <2>1, EnvironmentStreams, KeepFeed
<1> QED
  BY <1>1, <1>2, <1>3, <1>4, <1>5 DEF Next

LEMMA FeedInvariance == Spec => []FeedKept
<1>1. IInv /\ AnswerInv /\ RoomInv /\ ListsKept /\ FeedKept /\ [Next]_vars => FeedKept'
  BY NextFeed
<1> QED
  BY <1>1, InitFeed, Invariance, AnswerInvariance, RoomInvariance, ListsInvariance,
     PTL DEF Spec

\* Every member is told, behind its answer, the logged messages it asked for
\* and then what the others say, once each and in the room's order, however
\* they are spread over writeBuf, the socket and what the client has read
\* (clientConnect(), sendBackLogFiles(), clientBroadMsg()).
THEOREM FeedsAreExact == Spec => []FeedIsExact
<1>1. FeedKept => FeedIsExact
  BY DEF FeedKept, FeedIsExact, After, Due, NotBy, Members, Registered, Named
<1> QED
  BY <1>1, FeedInvariance, PTL

-----------------------------------------------------------------------------
(***************************************************************************)
(* HoldInv is inductive.                                                   *)
(***************************************************************************)
LEMMA InitHold == Init => HoldInv
  BY DEF Init, HoldInv, HangUpsTrue, DropsTheGone, MembersAreHeld, ChatIsOpen,
         Pending, Current

\* How the main thread moves on: with new events, with the next one of the
\* batch, or with the one it has.
LEMMA MainMoves ==
    ASSUME [Next]_vars
    PROVE  \/ EpollWait
           \/ UNCHANGED mainVars
           \/ pc = "loop" /\ \E e \in batch : \E s : Goto(s, e, batch \ {e})
           \/ pc \notin {"wait", "loop"} /\ \E s : Goto(s, cur, batch)
<1>1. CASE MainThread
  <2>1. ASSUME NEW e \in batch, HangUp(e) \/ WriteEvent(e) \/ ReadClosed(e)
        PROVE  pc = "loop" /\ \E s : Goto(s, e, batch \ {e})
    BY <2>1 DEF HangUp, WriteEvent, ReadClosed, Handles
  <2>2. ASSUME NEW e \in batch,
               ReadConnectRejected(e) \/ ReadConnectAccepted(e) \/ ReadBroadMsg(e)
        PROVE  pc = "loop" /\ \E s : Goto(s, e, batch \ {e})
    <3>1. \E c \in Conn : \E p : Takes(e, c, p)
      BY <2>2 DEF ReadConnectRejected, ReadConnectAccepted, ReadBroadMsg
    <3>2. \E s : Goto(s, e, batch \ {e})
      BY <2>2 DEF ReadConnectRejected, ReadConnectAccepted, ReadBroadMsg
    <3> QED
      BY <3>1, <3>2 DEF Takes, Handles
  <2>3. CASE \/ Arm \/ WriteSome \/ WriteBlocked \/ WriteToClosed \/ WriteAfterReset
             \/ Disarm \/ DropBroadcast \/ DropErase \/ DropUnregistered
    BY <2>3 DEF Arm, WriteSome, WriteBlocked, WriteToClosed, WriteAfterReset,
       Disarm, DropBroadcast, DropErase, DropUnregistered
  <2> QED
    BY <1>1, <2>1, <2>2, <2>3 DEF MainThread
<1>2. CASE AcceptThread \/ LogThread
  BY <1>2 DEF AcceptThread, AcceptPoll, AcceptFails, Accept, AcceptEmplace,
     AcceptAdd, LogThread
<1>3. ASSUME NEW c \in Conn, Environment(c)
      PROVE  UNCHANGED mainVars
  BY <1>3 DEF Environment, Dial, SendConnect, ClientSend, ClientClose,
     ClientReceives, RecvVal, RecvEof, ClientRead, ResetArrives
<1>4. CASE UNCHANGED vars
  BY <1>4 DEF vars
<1> QED
  BY <1>1, <1>2, <1>3, <1>4 DEF Next

LEMMA PendingShrinks ==
    ASSUME [Next]_vars, ~EpollWait
    PROVE  Pending' \subseteq Pending
<1>1. CASE UNCHANGED mainVars
  BY <1>1 DEF mainVars, Pending, Current
<1>2. ASSUME NEW e \in batch, NEW s, pc = "loop", Goto(s, e, batch \ {e})
      PROVE  Pending' \subseteq Pending
  BY <1>2 DEF Goto, Pending, Current
<1>3. ASSUME NEW s, pc \notin {"wait", "loop"}, Goto(s, cur, batch)
      PROVE  Pending' \subseteq Pending
  BY <1>3 DEF Goto, Pending, Current
<1> QED
  BY <1>1, <1>2, <1>3, MainMoves

\* A connection that was not open is opened by its client's dialing only,
\* when no descriptor refers to it and it has not joined.
LEMMA OpensByDialing ==
    ASSUME IInv, AnswerInv, RoomInv, [Next]_vars, NEW c \in Conn,
           peer'[c] = "open", peer[c] # "open"
    PROVE  /\ Dial(c) /\ \A fd \in Fd : sock[fd] # c
           /\ ~joined[c].in /\ UNCHANGED <<sock, joined>>
<1>1. peer \in [Conn -> PeerStates]
  BY DEF IInv, TypeOK, KernelType
<1>2. ~MainThread
  <2>1. ASSUME NEW e \in batch,
               \/ HangUp(e) \/ ReadClosed(e) \/ ReadConnectRejected(e)
               \/ ReadConnectAccepted(e) \/ ReadBroadMsg(e) \/ WriteEvent(e)
        PROVE  peer' = peer
    BY <2>1 DEF HangUp, ReadClosed, ReadConnectRejected, ReadConnectAccepted,
       ReadBroadMsg, WriteEvent, kernelVars
  <2>2. ASSUME \/ EpollWait \/ Arm \/ WriteSome \/ WriteBlocked \/ WriteAfterReset
               \/ Disarm \/ DropBroadcast \/ DropErase \/ DropUnregistered
        PROVE  peer' = peer
    BY <2>2 DEF EpollWait, Arm, WriteSome, WriteBlocked, WriteAfterReset, Disarm,
       DropBroadcast, DropErase, DropUnregistered, kernelVars
  <2>3. ASSUME WriteToClosed
        PROVE  peer'[c] = peer[c] \/ peer'[c] = "answered"
    BY <2>3, <1>1 DEF WriteToClosed
  <2> QED
    BY <2>1, <2>2, <2>3 DEF MainThread
<1>3. ~AcceptThread /\ ~LogThread /\ ~(UNCHANGED vars)
  BY DEF AcceptThread, AcceptPoll, AcceptFails, Accept, AcceptEmplace, AcceptAdd,
     LogThread, vars, kernelVars
<1>4. PICK d \in Conn : Environment(d)
  BY <1>2, <1>3 DEF Next
<1>5. Dial(d) /\ d = c
  BY <1>1, <1>4 DEF Environment, Dial, SendConnect, ClientSend, ClientClose,
     ClientReceives, RecvVal, RecvEof, ClientRead, ResetArrives, kernelVars
<1>6. cst[c] = "idle" /\ UNCHANGED <<sock, joined>>
  BY <1>5 DEF Dial
<1> QED
  BY <1>5, <1>6 DEF AnswerInv, NewAreFresh, Fresh, RoomInv, NewAreOut

LEMMA NextHangUps ==
    ASSUME IInv, AnswerInv, RoomInv, HangUpsTrue, [Next]_vars
    PROVE  HangUpsTrue'
<1> SUFFICES ASSUME NEW e \in Pending', e.hup
             PROVE  peer'[e.conn] # "open"
  BY DEF HangUpsTrue
<1>1. CASE EpollWait
  <2>1. PICK reported \in SUBSET ready :
            \E shown : /\ shown \subseteq {EventOf(fd) : fd \in reported}
                       /\ Goto("loop", NoEvent, shown)
    <3>1. \A S, T : {x \in S : x \in T} \subseteq S
      OBVIOUS
    <3> QED
      BY <1>1 DEF EpollWait
  <2>2. PICK fd \in reported : e = EventOf(fd)
    BY <2>1 DEF Goto, Pending, Current
  <2>3. HungUp(fd) /\ e.conn = sock[fd] /\ peer' = peer
    BY <1>1, <2>2 DEF EventOf, EpollWait, kernelVars
  <2> QED
    BY <2>3 DEF HungUp
<1>2. CASE ~EpollWait
  <2>1. e \in Pending /\ peer[e.conn] # "open"
    BY <1>2, PendingShrinks DEF HangUpsTrue
  <2>2. e.fd \in epollSet /\ sock[e.fd] = e.conn
    BY <2>1 DEF IInv, EventsAgree
  <2>3. e.fd \in clients /\ e.fd \in Fd /\ e.conn \in Conn
    BY <2>2 DEF IInv, DescriptorsAgree, TypeOK, KernelType
  <2> QED
    BY <2>1, <2>2, <2>3, OpensByDialing
<1> QED
  BY <1>1, <1>2

\* A member is dropped only once its client has gone; a name is refused to
\* one that is no member.
LEMMA NextDrops ==
    ASSUME IInv, AnswerInv, RoomInv, HangUpsTrue, DropsTheGone, [Next]_vars
    PROVE  DropsTheGone'
<1> SUFFICES ASSUME pc' \in {"drop", "erase"}
             PROVE  ~Named(cur.fd)' \/ peer'[sock'[cur'.fd]] # "open"
  BY DEF DropsTheGone
<1>1. ASSUME NEW fd \in clients, cur'.fd = fd, sock'[fd] = sock[fd],
             username'[fd] = username[fd],
             ~Named(fd) \/ peer[sock[fd]] # "open"
      PROVE  ~Named(cur.fd)' \/ peer'[sock'[cur'.fd]] # "open"
  <2>1. sock[fd] \in Conn /\ fd \in Fd
    BY StreamParts
  <2>2. peer'[sock[fd]] = "open" => peer[sock[fd]] = "open"
    BY <2>1, OpensByDialing
  <2> QED
    BY <1>1, <2>2 DEF Named
<1>2. CASE MainThread
  <2>1. ASSUME NEW e \in batch, HangUp(e) \/ ReadClosed(e)
        PROVE  ~Named(cur.fd)' \/ peer'[sock'[cur'.fd]] # "open"
    <3>1. UNCHANGED <<sock, username>> /\ Goto("drop", e, batch \ {e})
      BY <2>1 DEF HangUp, ReadClosed, kernelVars, connVars
    <3>2. cur' = e
      BY <3>1 DEF Goto
    <3>3. e.fd \in clients /\ e.fd \in Fd /\ sock[e.fd] = e.conn
      BY BatchClient DEF IInv, EventsAgree, Pending
    <3>4. HangUp(e) => e.hup
      BY <3>3 DEF HangUp
    <3>5. peer[sock[e.fd]] # "open"
      <4>1. CASE HangUp(e)
        BY <3>3, <3>4, <4>1 DEF HangUpsTrue, Pending
      <4>2. CASE ReadClosed(e)
        BY <4>2 DEF ReadClosed
      <4> QED
        BY <2>1, <4>1, <4>2
    <3> QED
      BY <1>1, <3>1, <3>2, <3>3, <3>5
  <2>2. ASSUME NEW e \in batch, ReadConnectRejected(e)
        PROVE  ~Named(cur.fd)' \/ peer'[sock'[cur'.fd]] # "open"
    <3>1. UNCHANGED <<sock, username>> /\ \E s : Goto(s, e, batch \ {e})
      BY <2>2 DEF ReadConnectRejected
    <3>2. cur' = e
      BY <3>1 DEF Goto
    <3>3. username[e.fd] = NoName
      <4>1. PICK c \in Conn :
                /\ Takes(e, c, Head(readBuf[e.fd] \o inq[c]))
                /\ Head(readBuf[e.fd] \o inq[c]).op = "CMG_CONNECT"
        BY <2>2 DEF ReadConnectRejected
      <4> QED
        BY <4>1, TakesFacts
    <3> QED
      BY <3>1, <3>2, <3>3 DEF Named
  <2>3. ASSUME NEW e \in batch, ReadConnectAccepted(e) \/ WriteEvent(e)
        PROVE  FALSE
    BY <2>3, StepTypes DEF ReadConnectAccepted, WriteEvent, Goto, AfterRead, Resume
  <2>4. ASSUME NEW e \in batch, ReadBroadMsg(e)
        PROVE  FALSE
    <3>1. PICK c \in Conn :
            /\ Takes(e, c, Head(readBuf[e.fd] \o inq[c]))
            /\ Head(readBuf[e.fd] \o inq[c]).op = "CMG_BROADMSG"
            /\ Goto(AfterRead(e, ~valConnMsg(username[e.fd], e.fd), batch \ {e}), e, batch \ {e})
      BY <2>4 DEF ReadBroadMsg
    <3>2. valConnMsg(username[e.fd], e.fd)
      BY <3>1, SpeakerIsValid
    <3> QED
      BY <3>1, <3>2 DEF Goto, AfterRead, Resume
  <2>5. CASE Arm
    <3>1. /\ UNCHANGED <<sock, username>> /\ pc = "arm"
          /\ Goto(AfterRead(cur, cur.fd \in markToDie, batch), cur, batch)
      BY <2>5 DEF Arm, kernelVars, connVars
    <3>2. cur' = cur /\ cur.fd \in markToDie
      BY <3>1 DEF Goto, AfterRead, Resume
    <3>3. ~Named(cur.fd)
      BY <3>2 DEF AnswerInv, MarksRefused
    <3> QED
      BY <3>1, <3>2, <3>3 DEF Named
  <2>6. CASE WriteAfterReset
    <3>1. /\ UNCHANGED <<sock, username, peer>> /\ pc = "write"
          /\ Goto("drop", cur, batch) /\ peer[sock[cur.fd]] # "open"
      BY <2>6 DEF WriteAfterReset, kernelVars, connVars
    <3> QED
      BY <3>1 DEF Goto
  <2>7. CASE DropBroadcast
    <3>1. /\ UNCHANGED <<sock, username, peer>> /\ pc = "drop"
          /\ Goto("erase", cur, batch)
      BY <2>7 DEF DropBroadcast, kernelVars
    <3> QED
      BY <3>1 DEF Goto, DropsTheGone, Named
  <2>8. CASE \/ EpollWait \/ WriteSome \/ WriteBlocked \/ WriteToClosed \/ Disarm
             \/ DropErase \/ DropUnregistered
    BY <2>8 DEF EpollWait, WriteSome, WriteBlocked, WriteToClosed, Disarm,
       DropErase, DropUnregistered, Goto, AfterWrite, Resume
  <2> QED
    BY <1>2, <2>1, <2>2, <2>3, <2>4, <2>5, <2>6, <2>7, <2>8 DEF MainThread
<1>3. CASE ~MainThread
  <2>1. UNCHANGED <<pc, cur, username>>
    <3>1. CASE AcceptThread \/ LogThread \/ UNCHANGED vars
      BY <3>1 DEF AcceptThread, AcceptPoll, AcceptFails, Accept, AcceptEmplace,
         AcceptAdd, LogThread, vars, mainVars, connVars
    <3>2. ASSUME NEW c \in Conn, Environment(c)
          PROVE  UNCHANGED <<pc, cur, username>>
      BY <3>2, EnvironmentFacts
    <3> QED
      BY <1>3, <3>1, <3>2 DEF Next
  <2>2. cur.fd \in clients
    BY <2>1, CurrentClient
  <2>3. sock'[cur.fd] = sock[cur.fd]
    <3>1. ASSUME NEW c \in Conn, Accept(c)
          PROVE  sock'[cur.fd] = sock[cur.fd]
      <4>1. PICK fd \in FreeFds : sock' = [sock EXCEPT ![fd] = c]
        BY <3>1 DEF Accept
      <4>2. fd # cur.fd
        BY <2>2, NamesAssumption DEF FreeFds, IInv, DescriptorsAgree
      <4> QED
        BY <4>1, <4>2, <2>2 DEF IInv, TypeOK, KernelType, TablesType
    <3>2. CASE \/ AcceptPoll \/ AcceptFails \/ AcceptEmplace \/ AcceptAdd
               \/ LogThread \/ UNCHANGED vars
      BY <3>2 DEF AcceptPoll, AcceptFails, AcceptEmplace, AcceptAdd, LogThread,
         vars, kernelVars
    <3>3. ASSUME NEW c \in Conn, Environment(c)
          PROVE  sock' = sock
      BY <3>3, EnvironmentFacts
    <3> QED
      BY <1>3, <3>1, <3>2, <3>3 DEF Next, AcceptThread
  <2> QED
    BY <1>1, <2>1, <2>2, <2>3 DEF DropsTheGone
<1> QED
  BY <1>2, <1>3

\* A client stays in the tables, with its connection, until it is dropped.
LEMMA HeldUntilDropped ==
    ASSUME IInv, [Next]_vars, NEW fd \in clients
    PROVE  \/ fd \in clients' /\ sock'[fd] = sock[fd]
           \/ (DropErase \/ DropUnregistered) /\ fd = cur.fd
<1>0. /\ clients \subseteq Fd /\ sock \in [Fd -> Conn \cup {NoConn}] /\ fd \in Fd
      /\ fd \notin FreeFds
  BY NamesAssumption DEF IInv, TypeOK, KernelType, TablesType, DescriptorsAgree, FreeFds
<1>1. CASE MainThread
  <2>1. ASSUME NEW e \in batch,
               \/ HangUp(e) \/ ReadClosed(e) \/ ReadConnectRejected(e)
               \/ ReadConnectAccepted(e) \/ ReadBroadMsg(e) \/ WriteEvent(e)
        PROVE  UNCHANGED <<clients, sock>>
    BY <2>1 DEF HangUp, ReadClosed, ReadConnectRejected, ReadConnectAccepted,
       ReadBroadMsg, WriteEvent, kernelVars, connVars
  <2>2. CASE \/ EpollWait \/ Arm \/ WriteSome \/ WriteBlocked \/ WriteToClosed
             \/ WriteAfterReset \/ Disarm \/ DropBroadcast
    BY <2>2 DEF EpollWait, Arm, WriteSome, WriteBlocked, WriteToClosed,
       WriteAfterReset, Disarm, DropBroadcast, kernelVars, connVars
  <2>3. CASE DropErase \/ DropUnregistered
    <3>1. /\ clients' = clients \ {cur.fd}
          /\ sock' = [sock EXCEPT ![cur.fd] = NoConn]
      BY <2>3 DEF DropErase, DropUnregistered, Forget, Erase, CloseFd
    <3> QED
      BY <2>3, <3>1, <1>0
  <2> QED
    BY <1>1, <2>1, <2>2, <2>3 DEF MainThread
<1>2. CASE AcceptThread
  <2>1. ASSUME NEW c \in Conn, Accept(c)
        PROVE  fd \in clients' /\ sock'[fd] = sock[fd]
    <3>1. PICK f \in FreeFds : sock' = [sock EXCEPT ![f] = c]
      BY <2>1 DEF Accept
    <3> QED
      BY <2>1, <3>1, <1>0 DEF Accept, connVars
  <2>2. CASE AcceptPoll \/ AcceptFails \/ AcceptEmplace \/ AcceptAdd
    BY <2>2 DEF AcceptPoll, AcceptFails, AcceptEmplace, AcceptAdd, kernelVars, connVars
  <2> QED
    BY <1>2, <2>1, <2>2 DEF AcceptThread
<1>3. CASE LogThread \/ UNCHANGED vars
  BY <1>3 DEF LogThread, vars, kernelVars, connVars
<1>4. ASSUME NEW c \in Conn, Environment(c)
      PROVE  UNCHANGED <<clients, sock>>
  BY <1>4, EnvironmentSends
<1> QED
  BY <1>1, <1>2, <1>3, <1>4 DEF Next

\* Only an accepted name joins.
LEMMA JoinsByName ==
    ASSUME IInv, [Next]_vars, \A e \in batch : ~ReadConnectAccepted(e)
    PROVE  joined' = joined
<1>1. CASE MainThread
  <2>1. ASSUME NEW e \in batch,
               \/ HangUp(e) \/ ReadClosed(e) \/ ReadConnectRejected(e)
               \/ ReadBroadMsg(e) \/ WriteEvent(e)
        PROVE  joined' = joined
    BY <2>1 DEF HangUp, ReadClosed, ReadConnectRejected, ReadBroadMsg, WriteEvent
  <2>2. CASE \/ EpollWait \/ Arm \/ WriteSome \/ WriteBlocked \/ WriteToClosed
             \/ WriteAfterReset \/ Disarm \/ DropBroadcast \/ DropErase
             \/ DropUnregistered
    BY <2>2 DEF EpollWait, Arm, WriteSome, WriteBlocked, WriteToClosed,
       WriteAfterReset, Disarm, DropBroadcast, DropErase, DropUnregistered
  <2> QED
    BY <1>1, <2>1, <2>2 DEF MainThread
<1>2. CASE AcceptThread \/ LogThread \/ UNCHANGED vars
  BY <1>2 DEF AcceptThread, AcceptPoll, AcceptFails, AcceptEmplace, AcceptAdd,
     Accept, LogThread, vars
<1>3. ASSUME NEW c \in Conn, Environment(c)
      PROVE  joined' = joined
  BY <1>3, EnvironmentSends
<1> QED
  BY <1>1, <1>2, <1>3 DEF Next

LEMMA NextMembers ==
    ASSUME IInv, AnswerInv, RoomInv, DropsTheGone, MembersAreHeld, [Next]_vars
    PROVE  MembersAreHeld'
<1> SUFFICES ASSUME NEW c \in Conn, joined'[c].in, peer'[c] = "open"
             PROVE  \E fd \in clients' : sock'[fd] = c
  BY DEF MembersAreHeld
<1>1. CASE joined[c].in
  <2>1. peer[c] = "open"
    BY <1>1, OpensByDialing
  <2>2. PICK fd \in clients : sock[fd] = c
    BY <1>1, <2>1 DEF MembersAreHeld
  <2>3. Named(fd) /\ fd \in Fd
    BY <1>1, <2>2, StreamParts DEF RoomInv, JoinedAreNamed
  <2>4. (DropErase \/ DropUnregistered) => fd # cur.fd
    <3>1. DropErase \/ DropUnregistered => pc \in {"drop", "erase"}
      BY DEF DropErase, DropUnregistered
    <3> QED
      BY <2>1, <2>2, <2>3, <3>1 DEF DropsTheGone
  <2> QED
    BY <2>2, <2>4, HeldUntilDropped
<1>2. CASE ~joined[c].in
  <2>1. PICK e \in batch : ReadConnectAccepted(e)
    BY <1>2, JoinsByName
  <2>2. PICK d \in Conn :
            /\ Takes(e, d, Head(readBuf[e.fd] \o inq[d]))
            /\ joined' = [joined EXCEPT ![d] =
                            [in |-> TRUE, logged |-> Len(log),
                             spoken |-> Len(log) + Len(logQueue)]]
    BY <2>1 DEF ReadConnectAccepted
  <2>3. sock[e.fd] = d /\ e.fd \in clients /\ UNCHANGED <<sock, clients>>
    BY <2>1, <2>2, BatchClient DEF Takes, ReadConnectAccepted
  <2>4. joined \in [Conn -> [in : BOOLEAN, logged : Nat, spoken : Nat]]
    BY DEF IInv, TypeOK, ClientsType
  <2>5. d = c
    BY <1>2, <2>2, <2>4
  <2> QED
    BY <2>3, <2>5
<1> QED
  BY <1>1, <1>2

\* The first packet of a sequence, cut off.
LEMMA FirstOf ==
    ASSUME NEW S, NEW s \in Seq(S), s # <<>>
    PROVE  SubSeq(s, 1, 1) = <<Head(s)>>
<1>1. Len(s) \in Nat \ {0} /\ Head(s) = s[1] /\ Head(s) \in S
  OBVIOUS
<1>2. PICK t : t = SubSeq(s, 1, 1)
  OBVIOUS
<1>3. t \in Seq(S) /\ Len(t) = 1 /\ t[1] = Head(s)
  BY <1>1, <1>2
<1>4. <<Head(s)>> \in Seq(S) /\ Len(<<Head(s)>>) = 1 /\ <<Head(s)>>[1] = Head(s)
  BY <1>1
<1>5. t = <<Head(s)>>
  BY <1>3, <1>4, SeqEqual
<1> QED
  BY <1>2, <1>5

\* What the client on c has read and where it is, one client at a time.
ChatOf(c) ==
    /\ cst[c] \in {"dialed", "wait", "chat"} => peer[c] = "open"
    /\ cst[c] \in {"idle", "dialed", "wait"} => inbox[c] = <<>>
    /\ cst[c] = "idle" => peer[c] = "none"
    /\ cst[c] = "chat" => inbox[c] # <<>> /\ inbox[c][1].op = "SMG_VALIDATE"

LEMMA NextChat ==
    ASSUME IInv, AnswerInv, ChatIsOpen, [Next]_vars
    PROVE  ChatIsOpen'
<1> SUFFICES ASSUME NEW c \in Conn PROVE ChatOf(c)'
  BY DEF ChatIsOpen, ChatOf
<1>1. ChatOf(c)
  BY DEF ChatIsOpen, ChatOf
<1>2. /\ peer \in [Conn -> PeerStates] /\ cst \in [Conn -> ClientStates]
      /\ outq \in [Conn -> Seq(ServerPacket)] /\ inbox \in [Conn -> Seq(ServerPacket)]
  BY DEF IInv, TypeOK, KernelType, ClientsType
<1>3. ASSUME UNCHANGED <<cst, inbox>>,
             \/ peer'[c] = peer[c]
             \/ peer[c] \in {"fin", "answered"} /\ peer'[c] = "answered"
      PROVE  ChatOf(c)'
  BY <1>1, <1>3 DEF ChatOf
<1>4. CASE MainThread
  <2>1. ASSUME NEW e \in batch,
               \/ HangUp(e) \/ ReadClosed(e) \/ ReadConnectRejected(e)
               \/ ReadConnectAccepted(e) \/ ReadBroadMsg(e) \/ WriteEvent(e)
        PROVE  UNCHANGED <<cst, inbox, peer>>
    BY <2>1 DEF HangUp, ReadClosed, ReadConnectRejected, ReadConnectAccepted,
       ReadBroadMsg, WriteEvent, kernelVars, clientVars
  <2>2. CASE \/ EpollWait \/ Arm \/ WriteSome \/ WriteBlocked \/ WriteAfterReset
             \/ Disarm \/ DropBroadcast \/ DropErase \/ DropUnregistered
    <3>1. UNCHANGED <<cst, inbox, peer>>
      BY <2>2 DEF EpollWait, Arm, WriteSome, WriteBlocked, WriteAfterReset,
         Disarm, DropBroadcast, DropErase, DropUnregistered, kernelVars, clientVars
    <3> QED
      BY <3>1, <1>3
  <2>3. CASE WriteToClosed
    <3>1. /\ UNCHANGED <<cst, inbox>>
          /\ peer[sock[cur.fd]] \in {"fin", "answered"}
          /\ peer' = [peer EXCEPT ![sock[cur.fd]] = "answered"]
      BY <2>3 DEF WriteToClosed, clientVars
    <3> QED
      BY <3>1, <1>2, <1>3
  <2> QED
    BY <1>3, <1>4, <2>1, <2>2, <2>3 DEF MainThread
<1>5. CASE AcceptThread \/ LogThread \/ UNCHANGED vars
  <2>1. UNCHANGED <<cst, inbox, peer>>
    BY <1>5 DEF AcceptThread, AcceptPoll, AcceptFails, AcceptEmplace, AcceptAdd,
       Accept, LogThread, vars, kernelVars, clientVars
  <2> QED
    BY <2>1, <1>3
<1>6. ASSUME NEW d \in Conn, Environment(d), d # c
      PROVE  ChatOf(c)'
  <2>1. cst'[c] = cst[c] /\ inbox'[c] = inbox[c]
    BY <1>6, EnvironmentFacts
  <2>2. peer'[c] = peer[c]
    BY <1>2, <1>6 DEF Environment, Dial, SendConnect, ClientSend, ClientClose,
       ClientReceives, RecvVal, RecvEof, ClientRead, ResetArrives, kernelVars
  <2> QED
    BY <1>1, <2>1, <2>2 DEF ChatOf
<1>7. ASSUME Environment(c)
      PROVE  ChatOf(c)'
  <2>1. CASE Dial(c) \/ SendConnect(c) \/ ClientSend(c) \/ RecvEof(c)
    BY <1>1, <1>2, <2>1 DEF Dial, SendConnect, ClientSend, RecvEof, kernelVars, ChatOf
  <2>2. CASE ClientClose(c) \/ ResetArrives(c)
    BY <1>1, <1>2, <2>2 DEF ClientClose, ResetArrives, clientVars, ChatOf
  <2>3. CASE RecvVal(c)
    <3>1. PICK p : p = Head(outq[c])
      OBVIOUS
    <3>2. inbox[c] = <<>> /\ peer[c] = "open" /\ outq[c] \in Seq(ServerPacket) /\ outq[c] # <<>>
      BY <1>1, <1>2, <2>3 DEF RecvVal, ChatOf
    <3>3. CASE p.op = "SMG_VALIDATE"
      <4>1. /\ cst'[c] = (IF p.able THEN "chat" ELSE "rejected") /\ peer' = peer
            /\ inbox'[c] = <<>> \o SubSeq(outq[c], 1, 1)
        BY <1>2, <2>3, <3>1, <3>2, <3>3 DEF RecvVal, Receives
      <4>2. SubSeq(outq[c], 1, 1) = <<p>>
        BY <3>1, <3>2, FirstOf
      <4>3. <<>> \o <<p>> = <<p>> /\ <<p>> # <<>> /\ <<p>>[1] = p
        OBVIOUS
      <4> QED
        BY <3>2, <3>3, <4>1, <4>2, <4>3 DEF ChatOf
    <3>4. CASE p.op # "SMG_VALIDATE"
      <4>1. cst'[c] = "dead"
        BY <1>2, <2>3, <3>1, <3>4 DEF RecvVal
      <4> QED
        BY <4>1 DEF ChatOf
    <3> QED
      BY <3>3, <3>4
  <2>4. CASE ClientRead(c)
    <3>1. PICK x, q : x = inbox[c] /\ q = SubSeq(outq[c], 1, Len(outq[c]))
      OBVIOUS
    <3>2. /\ cst'[c] = cst[c] /\ cst[c] = "chat" /\ peer' = peer /\ inbox'[c] = x \o q
      BY <1>2, <2>4, <3>1 DEF ClientRead, Receives
    <3>3. /\ x \in Seq(ServerPacket) /\ q \in Seq(ServerPacket) /\ x # <<>>
          /\ x[1].op = "SMG_VALIDATE" /\ peer[c] = "open"
      BY <1>1, <1>2, <3>1, <3>2 DEF ChatOf
    <3>4. x \o q # <<>> /\ (x \o q)[1] = x[1]
      BY <3>3
    <3> QED
      BY <3>2, <3>3, <3>4 DEF ChatOf
  <2> QED
    BY <1>7, <2>1, <2>2, <2>3, <2>4 DEF Environment, ClientReceives
<1> QED
  BY <1>4, <1>5, <1>6, <1>7 DEF Next

\* A member is held, by the server, for as long as its client is there.
LEMMA HoldInvariance == Spec => []HoldInv
<1>1. IInv /\ AnswerInv /\ RoomInv /\ HoldInv /\ [Next]_vars => HoldInv'
  BY NextHangUps, NextDrops, NextMembers, NextChat DEF HoldInv
<1> QED
  BY <1>1, InitHold, Invariance, AnswerInvariance, RoomInvariance, PTL DEF Spec

-----------------------------------------------------------------------------
(***************************************************************************)
(* The refinement: each step of the server is one of the room, or stutters.*)
(***************************************************************************)
\* The variables of ChatRoom that are not among the server's.
Holder == [n \in Name |-> IF userMap[n] = NoFd THEN NoConn ELSE sock[userMap[n]]]
Told(s) ==
    IF s # <<>> /\ s[1].op = "SMG_VALIDATE" THEN Only(s, BroadPacket) ELSE <<>>
Heard == [c \in Conn |-> Told(inbox[c])]

LEMMA RoomStutters ==
    ASSUME UNCHANGED <<Holder, Heard, Spoken, joined>>
    PROVE  UNCHANGED Room!vars
  BY DEF Room!vars, Holder, Heard, Told

\* The operators of ChatRoom are those of the server's model.
LEMMA RoomOperators ==
    /\ \A s, P : Room!Only(s, P) = Only(s, P)
    /\ \A c : Room!NotOwn(c) = NotBy(c)
    /\ \A c : Room!Feed(c) = Due(c)
    /\ \A S : Room!Cardinality(S) = Cardinality(S)
<1>1. ASSUME NEW s, NEW P
      PROVE  Room!Only(s, P) = Only(s, P)
  BY Zenon DEF Room!Only, Only
<1>2. ASSUME NEW c
      PROVE  Room!NotOwn(c) = NotBy(c)
  BY DEF Room!NotOwn, Room!Message, NotBy, BroadPacket, Message
<1>3. ASSUME NEW c
      PROVE  Room!Feed(c) = Due(c)
  BY <1>1, <1>2, Zenon DEF Room!Feed, Due
<1>4. ASSUME NEW S
      PROVE  Room!Cardinality(S) = Cardinality(S)
  BY Zenon DEF Room!Cardinality, Cardinality
<1> QED
  BY <1>1, <1>2, <1>3, <1>4

LEMMA InitMaps == Init => Room!Init
<1> SUFFICES ASSUME Init PROVE Room!Init
  OBVIOUS
<1>1. /\ userMap = [n \in Name |-> NoFd] /\ log = <<>> /\ logQueue = <<>>
      /\ inbox = [c \in Conn |-> <<>>]
      /\ joined = [c \in Conn |-> [in |-> FALSE, logged |-> 0, spoken |-> 0]]
  BY DEF Init
<1>2. Holder = [n \in Name |-> NoConn] /\ Heard = [c \in Conn |-> <<>>]
  BY <1>1 DEF Holder, Heard, Told
<1>3. Spoken = <<>>
  BY <1>1 DEF Spoken
<1> QED
  BY <1>1, <1>2, <1>3 DEF Room!Init, Holder, Heard, Told

\* The connections that hold names: the clients'.
LEMMA HoldersAreClients ==
    ASSUME IInv, NEW n \in Name, userMap[n] # NoFd
    PROVE  userMap[n] \in clients /\ username[userMap[n]] = n
  BY DEF IInv, RegistryAgrees, UserList, usernameExists

LEMMA HoldersStay ==
    ASSUME IInv, userMap' = userMap, \A fd \in clients : sock'[fd] = sock[fd]
    PROVE  Holder' = Holder
<1>1. \A n \in Name : userMap[n] # NoFd => sock'[userMap[n]] = sock[userMap[n]]
  BY HoldersAreClients
<1> QED
  BY <1>1 DEF Holder

\* A name that is accepted: its connection joins.
LEMMA AcceptedMaps ==
    ASSUME IInv, AnswerInv, RoomInv, NEW e \in batch, ReadConnectAccepted(e)
    PROVE  \E c \in Conn : Room!Join(c)
<1>1. PICK c \in Conn :
        /\ Takes(e, c, Head(readBuf[e.fd] \o inq[c]))
        /\ Head(readBuf[e.fd] \o inq[c]).op = "CMG_CONNECT"
        /\ ~usernameExists(Head(readBuf[e.fd] \o inq[c]).user)
        /\ userMap' = [userMap EXCEPT ![Head(readBuf[e.fd] \o inq[c]).user] = e.fd]
        /\ joined' = [joined EXCEPT ![c] =
                        [in |-> TRUE, logged |-> Len(log),
                         spoken |-> Len(log) + Len(logQueue)]]
  BY DEF ReadConnectAccepted
<1>2. /\ sock[e.fd] = c /\ e.fd \in Fd /\ ~joined[c].in
      /\ Head(readBuf[e.fd] \o inq[c]) = ClientConnect(NameOf[c], SinceOf[c])
  BY <1>1, ConnectAlone
<1>3. Head(readBuf[e.fd] \o inq[c]).user = NameOf[c]
  <2>1. PICK p : p = Head(readBuf[e.fd] \o inq[c])
    OBVIOUS
  <2>2. p = ClientConnect(NameOf[c], SinceOf[c])
    BY <1>2, <2>1
  <2>3. p.user = NameOf[c]
    BY <2>2 DEF ClientConnect
  <2> QED
    BY <2>1, <2>3
<1>4. UNCHANGED <<sock, inbox, log, logQueue>>
  BY DEF ReadConnectAccepted, clientVars, logVars
<1>5. /\ NameOf[c] \in Name /\ userMap[NameOf[c]] = NoFd
      /\ userMap' = [userMap EXCEPT ![NameOf[c]] = e.fd]
  BY <1>1, <1>3, NamesAssumption DEF usernameExists
<1>6. userMap \in [Name -> Fd \cup {NoFd}] /\ e.fd # NoFd
  BY <1>2, FdAssumption DEF IInv, TypeOK, TablesType, NoFd
<1>7. Holder[NameOf[c]] = NoConn /\ Holder' = [Holder EXCEPT ![NameOf[c]] = c]
  BY <1>2, <1>4, <1>5, <1>6 DEF Holder
<1>8. Len(log) \in 0 .. Len(Spoken) /\ Len(Spoken) = Len(log) + Len(logQueue)
  BY SpokenType DEF Spoken
<1>9. Spoken' = Spoken /\ Heard' = Heard
  BY <1>4 DEF Spoken, Heard, Told
<1>10. joined' = [joined EXCEPT ![c] =
                    [in |-> TRUE, logged |-> Len(log), spoken |-> Len(Spoken)]]
  BY <1>1, <1>8
<1>11. \E k \in 0 .. Len(Spoken) :
        joined' = [joined EXCEPT ![c] =
                    [in |-> TRUE, logged |-> k, spoken |-> Len(Spoken)]]
  BY <1>8, <1>10
<1>12. Room!Join(c)
  BY <1>2, <1>7, <1>9, <1>11 DEF Room!Join, Holder, Heard, Told
<1> QED
  BY <1>12

\* A message of a member: the room's next one.
LEMMA BroadMsgMaps ==
    ASSUME IInv, AnswerInv, RoomInv, NEW e \in batch, ReadBroadMsg(e)
    PROVE  \E c \in Conn : Room!Say(c)
<1>1. PICK c \in Conn, m \in BroadPacket, rest \in Seq(ClientPacket) : Says(e, c, m, rest)
  BY SaysNext
<1>2. UNCHANGED <<sock, userMap, inbox, joined>>
  BY DEF ReadBroadMsg, clientVars
<1>3. Holder' = Holder /\ Heard' = Heard
  BY <1>2 DEF Holder, Heard, Told
<1>4. e.fd \in Fd /\ e.fd \in clients /\ e.fd # NoFd
  BY BatchClient, FdAssumption DEF NoFd
<1>5. NameOf[c] \in Name /\ userMap[NameOf[c]] = e.fd
  BY <1>1, <1>4, NamesAssumption DEF Says, Named, IInv, RegistryAgrees, Registered
<1>6. Holder[NameOf[c]] = c
  BY <1>1, <1>4, <1>5 DEF Holder, Says
<1>7. Spoken' = Append(Spoken, [op |-> "SMG_BROADMSG", user |-> NameOf[c],
                                msg |-> <<c, Said(c) + 1>>])
  BY <1>1 DEF Says, ServerBroadMsg
<1>8. Said(c) = Cardinality({i \in DOMAIN Spoken : Spoken[i].msg[1] = c})
  BY DEF Said, SaidIn
<1>9. UNCHANGED joined
  BY <1>2
<1>10. Room!Say(c)
  BY <1>3, <1>6, <1>7, <1>8, <1>9, RoomOperators DEF Room!Say, Holder, Heard, Told
<1> QED
  BY <1>10

\* The end of a member is its leave; that of another connection is nothing.
LEMMA ForgetMaps ==
    ASSUME IInv, RoomInv, DropErase \/ DropUnregistered
    PROVE  (\E c \in Conn : Room!Leave(c)) \/ UNCHANGED Room!vars
<1>1. PICK fd : fd = cur.fd
  OBVIOUS
<1>2. /\ userMap' = [n \in Name |-> IF n = username[fd] THEN NoFd ELSE userMap[n]]
      /\ sock' = [sock EXCEPT ![fd] = NoConn]
      /\ UNCHANGED <<inbox, log, logQueue, joined>>
  BY <1>1 DEF DropErase, DropUnregistered, Forget, killUser, CloseFd, clientVars, logVars
<1>3. fd \in Fd /\ fd \in clients /\ sock[fd] \in Conn /\ fd # NoFd
  <2>1. pc \notin {"wait", "loop"}
    BY DEF DropErase, DropUnregistered
  <2> QED
    BY <1>1, <2>1, CurrentClient, FdAssumption DEF NoFd
<1>4. /\ userMap \in [Name -> Fd \cup {NoFd}] /\ sock \in [Fd -> Conn \cup {NoConn}]
      /\ username \in [Fd -> Name \cup {NoName}] /\ NoFd \notin Fd
  BY FdAssumption DEF IInv, TypeOK, TablesType, KernelType, NoFd
<1>5. Spoken' = Spoken /\ Heard' = Heard
  BY <1>2 DEF Spoken, Heard, Told
<1>6. \A n \in Name : userMap[n] # NoFd /\ n # username[fd] =>
            userMap[n] # fd /\ sock'[userMap[n]] = sock[userMap[n]]
  <2> SUFFICES ASSUME NEW n \in Name, userMap[n] # NoFd, n # username[fd]
               PROVE  userMap[n] # fd /\ sock'[userMap[n]] = sock[userMap[n]]
    OBVIOUS
  <2>1. username[userMap[n]] = n /\ userMap[n] \in Fd
    BY <1>4, HoldersAreClients
  <2> QED
    BY <2>1, <1>2, <1>4
<1>7. CASE Named(fd)
  <2>1. PICK c \in Conn : c = sock[fd]
    BY <1>3
  <2>2. username[fd] = NameOf[c] /\ NameOf[c] \in Name
    BY <1>3, <1>7, <2>1, NamesAssumption DEF RoomInv, JoinedAreNamed
  <2>3. userMap[NameOf[c]] = fd
    BY <1>3, <1>7, <2>2 DEF IInv, RegistryAgrees, Registered, Named
  <2>4. Holder[NameOf[c]] = c
    BY <1>3, <2>1, <2>2, <2>3 DEF Holder
  <2>5. Holder' = [Holder EXCEPT ![NameOf[c]] = NoConn]
    BY <1>2, <1>6, <2>2 DEF Holder
  <2>6. Room!Leave(c)
    BY <1>2, <1>5, <2>4, <2>5 DEF Room!Leave, Holder, Heard, Told
  <2> QED
    BY <2>6
<1>8. CASE ~Named(fd)
  <2>1. \A n \in Name : n # username[fd]
    BY <1>8, NamesAssumption DEF Named
  <2>2. userMap' = userMap
    BY <1>2, <1>4, <2>1
  <2>3. Holder' = Holder
    BY <1>6, <2>1, <2>2 DEF Holder
  <2> QED
    BY <1>2, <1>5, <2>3, RoomStutters
<1> QED
  BY <1>7, <1>8

\* A client that chats reads what it was sent: some more of what is due to it.
LEMMA ReadMaps ==
    ASSUME IInv, AnswerInv, RoomInv, ListsKept, FeedKept, HoldInv,
           NEW c \in Conn, ClientRead(c)
    PROVE  Room!Hear(c)
<1>1. PICK x, q : x = inbox[c] /\ q = outq[c]
  OBVIOUS
<1>2. /\ x \in Seq(ServerPacket) /\ q \in Seq(ServerPacket) /\ Len(q) \in Nat
      /\ inbox \in [Conn -> Seq(ServerPacket)]
  BY <1>1 DEF IInv, TypeOK, KernelType, ClientsType
<1>3. /\ cst[c] = "chat" /\ inbox' = [inbox EXCEPT ![c] = @ \o SubSeq(q, 1, Len(q))]
      /\ UNCHANGED <<userMap, sock, log, logQueue, joined>>
  BY <1>1 DEF ClientRead, Receives, connVars, logVars
<1>4. x # <<>> /\ x[1].op = "SMG_VALIDATE" /\ peer[c] = "open"
  BY <1>1, <1>3 DEF HoldInv, ChatIsOpen
<1>5. joined[c].in
  BY <1>3 DEF RoomInv, OutAreSilent, Unanswered
<1>6. PICK fd \in clients : sock[fd] = c
  BY <1>4, <1>5 DEF HoldInv, MembersAreHeld
<1>7. Named(fd)
  BY <1>5, <1>6, StreamParts DEF RoomInv, JoinedAreNamed
<1>8. PICK w, s : w = writeBuf[fd] /\ s = Stream(fd)
  OBVIOUS
<1>9. w \in Seq(ServerPacket) /\ s \in Seq(ServerPacket) /\ s = (x \o q) \o w
  BY <1>1, <1>6, <1>8, StreamParts DEF Stream
<1>10. OneList(s) /\ After(s) = Due(c)
  BY <1>4, <1>6, <1>7, <1>8 DEF ListsKept, FeedKept
<1>11. x \o q \in Seq(ServerPacket) /\ x \o q # <<>> /\ (x \o q)[1] = x[1]
  BY <1>2, <1>4
<1>12. s[1] = x[1] /\ 1 \in DOMAIN s
  BY <1>4, <1>2, <1>9
<1>13. Answers(s) = {1}
  <2>1. 1 \in Answers(s)
    BY <1>4, <1>12 DEF Answers
  <2>2. PICK a : Answers(s) = {a}
    BY <1>10 DEF OneList
  <2> QED
    BY <2>1, <2>2
<1>14. PICK h, g : h = Only(x \o q, BroadPacket) /\ g = Only(w, BroadPacket)
  OBVIOUS
<1>15. h \in Seq(ServerPacket) /\ g \in Seq(ServerPacket)
  BY <1>9, <1>11, <1>14, OnlyType
<1>16. Due(c) = h \o g
  <2>1. SubSeq(s, 1, Len(s)) = s
    BY <1>9, SubSeqFull
  <2>2. After(s) = Only(s, BroadPacket)
    BY <1>13, <2>1 DEF After
  <2>3. Only(s, BroadPacket) = h \o g
    <3>1. PICK y : y = x \o q
      OBVIOUS
    <3>2. y \in Seq(ServerPacket) /\ w \in Seq(ServerPacket)
      BY <1>9, <1>11, <3>1
    <3>3. Only(y \o w, BroadPacket) = Only(y, BroadPacket) \o Only(w, BroadPacket)
      BY <3>2, OnlyJoin
    <3> QED
      BY <1>9, <1>14, <3>1, <3>3
  <2> QED
    BY <1>10, <2>2, <2>3
<1>17. SubSeq(Due(c), 1, Len(h)) = h
  <2>1. SubSeq(h \o g, 1, Len(h)) = SubSeq(h, 1, Len(h))
    BY <1>15, CutOfJoin
  <2>2. SubSeq(h, 1, Len(h)) = h
    BY <1>15, SubSeqFull
  <2> QED
    BY <1>16, <2>1, <2>2
<1>18. Heard[c] = Only(x, BroadPacket)
  BY <1>1, <1>4 DEF Heard, Told
<1>19. Len(h) \in Len(Heard[c]) .. Len(Due(c))
  <2>1. PICK u, v : u = Only(x, BroadPacket) /\ v = Only(q, BroadPacket)
    OBVIOUS
  <2>2. u \in Seq(ServerPacket) /\ v \in Seq(ServerPacket)
    BY <1>2, <2>1, OnlyType
  <2>3. h = u \o v
    <3>1. x \in Seq(ServerPacket) /\ q \in Seq(ServerPacket)
      BY <1>2
    <3>2. Only(x \o q, BroadPacket) = Only(x, BroadPacket) \o Only(q, BroadPacket)
      BY <3>1, OnlyJoin
    <3> QED
      BY <1>14, <2>1, <3>2
  <2>4. Len(h) = Len(u) + Len(v) /\ Len(h \o g) = Len(h) + Len(g)
    BY <1>15, <2>2, <2>3
  <2>5. Len(u) \in Nat /\ Len(v) \in Nat /\ Len(g) \in Nat
    BY <1>15, <2>2
  <2> QED
    BY <1>16, <1>18, <2>1, <2>4, <2>5
<1>20. Heard' = [Heard EXCEPT ![c] = h]
  <2>1. inbox' = [inbox EXCEPT ![c] = x \o q]
    <3>1. SubSeq(q, 1, Len(q)) = q
      BY <1>2, SubSeqFull
    <3> QED
      BY <1>1, <1>3, <3>1
  <2>2. Told(x \o q) = h
    BY <1>4, <1>11, <1>14 DEF Told
  <2>3. \A d \in Conn : Told(inbox'[d]) = IF d = c THEN h ELSE Told(inbox[d])
    BY <2>1, <2>2, <1>2
  <2> QED
    BY <2>3 DEF Heard
<1>21. Holder' = Holder /\ Spoken' = Spoken
  BY <1>3 DEF Holder, Spoken
<1>22. \E k \in Len(Heard[c]) .. Len(Room!Feed(c)) :
        Heard' = [Heard EXCEPT ![c] = SubSeq(Room!Feed(c), 1, k)]
  BY <1>17, <1>19, <1>20, RoomOperators
<1> QED
  BY <1>3, <1>5, <1>21, <1>22 DEF Room!Hear, Holder, Heard, Told

\* The answer is no message, and what takes the place of one is not heard.
LEMMA AnswerMaps ==
    ASSUME IInv, HoldInv, NEW c \in Conn, RecvVal(c)
    PROVE  Heard' = Heard
<1>1. PICK p : p = Head(outq[c])
  OBVIOUS
<1>2. /\ inbox \in [Conn -> Seq(ServerPacket)] /\ inbox[c] = <<>>
      /\ outq[c] \in Seq(ServerPacket) /\ outq[c] # <<>>
  BY DEF IInv, TypeOK, KernelType, ClientsType, RecvVal, HoldInv, ChatIsOpen
<1>3. inbox' = [inbox EXCEPT ![c] = <<p>>]
  <2>1. SubSeq(outq[c], 1, 1) = <<p>>
    BY <1>1, <1>2, FirstOf
  <2>2. <<>> \o <<p>> = <<p>> /\ Append(<<>>, p) = <<p>>
    OBVIOUS
  <2> QED
    BY <1>1, <1>2, <2>1, <2>2 DEF RecvVal, Receives
<1>4. p \in ServerPacket
  BY <1>1, <1>2
<1>5. Told(<<p>>) = <<>>
  <2>1. CASE p.op = "SMG_VALIDATE"
    <3>1. p \notin BroadPacket
      BY <2>1 DEF BroadPacket
    <3>2. <<>> \in Seq(ServerPacket) /\ Append(<<>>, p) = <<p>>
      OBVIOUS
    <3>3. Only(Append(<<>>, p), BroadPacket) = Only(<<>>, BroadPacket)
      BY <1>4, <3>1, <3>2, OnlyAppend
    <3> QED
      BY <3>2, <3>3, OnlyEmpty DEF Told
  <2>2. CASE p.op # "SMG_VALIDATE"
    BY <2>2 DEF Told
  <2> QED
    BY <2>1, <2>2
<1>6. \A d \in Conn : Told(inbox'[d]) = Told(inbox[d])
  <2>1. Told(<<>>) = <<>>
    BY DEF Told
  <2> QED
    BY <1>2, <1>3, <1>5, <2>1
<1> QED
  BY <1>6 DEF Heard

LEMMA NextMaps ==
    ASSUME IInv, AnswerInv, RoomInv, ListsKept, FeedKept, HoldInv, [Next]_vars
    PROVE  [Room!Next]_Room!vars
<1>1. CASE MainThread
  <2>1. ASSUME NEW e \in batch,
               HangUp(e) \/ ReadClosed(e) \/ ReadConnectRejected(e) \/ WriteEvent(e)
        PROVE  UNCHANGED Room!vars
    <3>1. UNCHANGED <<userMap, sock, log, logQueue, inbox, joined>>
      BY <2>1 DEF HangUp, ReadClosed, ReadConnectRejected, WriteEvent, kernelVars,
         connVars, logVars, clientVars
    <3> QED
      BY <3>1, RoomStutters DEF Holder, Heard, Told, Spoken
  <2>2. ASSUME NEW e \in batch, ReadConnectAccepted(e)
        PROVE  Room!Next
    BY <2>2, AcceptedMaps DEF Room!Next
  <2>3. ASSUME NEW e \in batch, ReadBroadMsg(e)
        PROVE  Room!Next
    BY <2>3, BroadMsgMaps DEF Room!Next
  <2>4. CASE \/ EpollWait \/ Arm \/ WriteSome \/ WriteBlocked \/ WriteToClosed
             \/ WriteAfterReset \/ Disarm \/ DropBroadcast
    <3>1. UNCHANGED <<userMap, sock, log, logQueue, inbox, joined>>
      BY <2>4 DEF EpollWait, Arm, WriteSome, WriteBlocked, WriteToClosed,
         WriteAfterReset, Disarm, DropBroadcast, kernelVars, connVars, logVars,
         clientVars
    <3> QED
      BY <3>1, RoomStutters DEF Holder, Heard, Told, Spoken
  <2>5. CASE DropErase \/ DropUnregistered
    BY <2>5, ForgetMaps DEF Room!Next
  <2> QED
    BY <1>1, <2>1, <2>2, <2>3, <2>4, <2>5 DEF MainThread
<1>2. CASE AcceptThread
  <2>1. UNCHANGED <<userMap, log, logQueue, inbox, joined>>
    BY <1>2 DEF AcceptThread, AcceptPoll, AcceptFails, AcceptEmplace, AcceptAdd,
       Accept, connVars, logVars, clientVars
  <2>2. \A fd \in clients : sock'[fd] = sock[fd]
    <3>1. ASSUME NEW c \in Conn, Accept(c), NEW fd \in clients
          PROVE  sock'[fd] = sock[fd]
      <4>1. PICK f \in FreeFds : sock' = [sock EXCEPT ![f] = c]
        BY <3>1 DEF Accept
      <4>2. fd # f
        BY NamesAssumption DEF FreeFds, IInv, DescriptorsAgree
      <4> QED
        BY <4>1, <4>2 DEF IInv, TypeOK, KernelType, TablesType
    <3>2. CASE AcceptPoll \/ AcceptFails \/ AcceptEmplace \/ AcceptAdd
      BY <3>2 DEF AcceptPoll, AcceptFails, AcceptEmplace, AcceptAdd, kernelVars
    <3> QED
      BY <1>2, <3>1, <3>2 DEF AcceptThread
  <2> QED
    BY <2>1, <2>2, HoldersStay, RoomStutters DEF Heard, Told, Spoken
<1>3. CASE LogThread
  <2>1. UNCHANGED <<userMap, sock, inbox, joined>>
    BY <1>3 DEF LogThread, kernelVars, connVars, clientVars
  <2> QED
    BY <1>3, <2>1, LogKeepsSpoken, RoomStutters DEF Holder, Heard, Told
<1>4. ASSUME NEW c \in Conn, Environment(c)
      PROVE  [Room!Next]_Room!vars
  <2>1. UNCHANGED <<userMap, sock, log, logQueue, joined>>
    BY <1>4 DEF Environment, Dial, SendConnect, ClientSend, ClientClose,
       ClientReceives, RecvVal, RecvEof, ClientRead, ResetArrives, kernelVars,
       connVars, logVars
  <2>2. Holder' = Holder /\ Spoken' = Spoken
    BY <2>1 DEF Holder, Spoken
  <2>3. CASE ClientRead(c)
    BY <2>3, ReadMaps DEF Room!Next
  <2>4. CASE RecvVal(c)
    BY <2>1, <2>2, <2>4, AnswerMaps, RoomStutters
  <2>5. CASE \/ Dial(c) \/ SendConnect(c) \/ ClientSend(c) \/ ClientClose(c)
             \/ RecvEof(c) \/ ResetArrives(c)
    <3>1. inbox' = inbox
      BY <2>5 DEF Dial, SendConnect, ClientSend, ClientClose, RecvEof,
         ResetArrives, clientVars
    <3>2. Heard' = Heard
      BY <3>1 DEF Heard, Told
    <3> QED
      BY <2>1, <2>2, <3>2, RoomStutters
  <2> QED
    BY <1>4, <2>3, <2>4, <2>5 DEF Environment, ClientReceives
<1>5. CASE UNCHANGED vars
  <2>1. UNCHANGED <<userMap, sock, log, logQueue, inbox, joined>>
    BY <1>5 DEF vars, kernelVars, connVars, logVars, clientVars
  <2> QED
    BY <2>1, RoomStutters DEF Holder, Heard, Told, Spoken
<1> QED
  BY <1>1, <1>2, <1>3, <1>4, <1>5 DEF Next

\* The server, for any number of connections, names and descriptors, is the
\* room its users are promised: one holder of a name, one sequence of
\* messages, of which a client hears only what is meant for it, in order
\* (src/server/packet.cpp, handleEpoll.cpp).
THEOREM ImplementsRoom == Spec => ImplementsChatRoom
<1>1. /\ IInv /\ AnswerInv /\ RoomInv /\ ListsKept /\ FeedKept /\ HoldInv /\ [Next]_vars
      => [Room!Next]_Room!vars
  BY NextMaps
<1>2. Init => Room!Init
  BY InitMaps
<1> QED
  BY <1>1, <1>2, Invariance, AnswerInvariance, RoomInvariance, ListsInvariance,
     FeedInvariance, HoldInvariance, PTL DEF Spec, Room!Spec, ImplementsChatRoom
=============================================================================
