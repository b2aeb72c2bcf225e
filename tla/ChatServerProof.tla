--------------------------- MODULE ChatServerProof ---------------------------
(***************************************************************************)
(* The registry, the descriptors and the pending events of ChatServer stay *)
(* consistent, and no edge of epoll is lost, for every number of           *)
(* connections, names and descriptors.                                     *)
(***************************************************************************)
EXTENDS ChatServerProperties, TLAPS

\* The descriptor the accept thread is busy with.
Accepting == apc \in {"emplace", "add"}

\* clientMap, the open descriptors and the epoll set hold the same
\* descriptors, up to the one that is being accepted.
DescriptorsAgree ==
    /\ Accepting => afd \in Fd /\ sock[afd] # NoConn /\ afd \notin epollSet
    /\ apc = "emplace" => afd \notin clients
    /\ epollSet = {fd \in clients : apc = "add" => fd # afd}
    /\ \A fd \in clients : sock[fd] \in Conn
    /\ \A fd \in Fd \ clients :
        sock[fd] # NoConn => apc = "emplace" /\ fd = afd
    /\ armed \subseteq epollSet
    /\ ready \subseteq epollSet

\* An event is pending once, and for a registered descriptor that still
\* refers to the connection it was reported for.
EventsAgree ==
    /\ pc \notin {"wait", "loop"} => cur \in Event
    /\ \A e \in Pending : e.fd \in epollSet /\ sock[e.fd] = e.conn
    /\ \A d, e \in batch : d.fd = e.fd => d = e
    /\ \A d \in Current, e \in batch : d.fd # e.fd

\* A descriptor that is not in clientMap has no name and no input.
NamesAreFresh ==
    \A fd \in Fd \ clients : username[fd] = NoName /\ readBuf[fd] = <<>>

\* A CMG_CONNECT is the first packet of its connection: it is never among
\* what handleRead() left in readBuf, and while it waits in the socket the
\* connection has neither name nor input.
NoConnectIn(s) == \A i \in 1 .. Len(s) : s[i].op # "CMG_CONNECT"
Untouched(c) ==
    \A fd \in Fd : sock[fd] = c => username[fd] = NoName /\ readBuf[fd] = <<>>
Dropping(fd) == pc \in {"drop", "erase"} /\ cur.fd = fd
ConnectIsFirst ==
    /\ \A fd \in Fd : Dropping(fd) \/ NoConnectIn(readBuf[fd])
    /\ \A c \in Conn : cst[c] \in {"idle", "dialed"} => inq[c] = <<>> /\ Untouched(c)
    /\ \A c \in Conn : \A i \in 1 .. Len(inq[c]) :
        inq[c][i].op = "CMG_CONNECT" => i = 1 /\ Untouched(c)

IInv ==
    /\ TypeOK
    /\ DescriptorsAgree
    /\ EventsAgree
    /\ NamesAreFresh
    /\ ConnectIsFirst
    /\ RegistryAgrees
    /\ KernelCallsSucceed

-----------------------------------------------------------------------------
(***************************************************************************)
(* Facts about the operators the model is built from.                      *)
(***************************************************************************)
\* Changing a function at one place keeps its type.
LEMMA ExceptType ==
    ASSUME NEW D, NEW R, NEW f \in [D -> R], NEW d, NEW v \in R
    PROVE  [f EXCEPT ![d] = v] \in [D -> R]
  OBVIOUS

\* The two parts handleWrite() cuts a buffer into are sequences of packets.
LEMMA CutType ==
    ASSUME NEW S, NEW s \in Seq(S), NEW n \in 0 .. Len(s)
    PROVE  /\ SubSeq(s, 1, n) \in Seq(S)
           /\ SubSeq(s, n + 1, Len(s)) \in Seq(S)
  OBVIOUS

\* serializeToAllButSender() keeps every buffer a sequence of packets.
LEMMA AppendToType ==
    ASSUME writeBuf \in [Fd -> Seq(ServerPacket)], NEW F, NEW p \in ServerPacket
    PROVE  AppendTo(F, p) \in [Fd -> Seq(ServerPacket)]
  BY DEF AppendTo

\* The packets the server builds are packets.
LEMMA PacketTypes ==
    /\ \A b \in BOOLEAN, us \in SUBSET Name : ServerValidate(b, us) \in ServerPacket
    /\ \A u \in Name : ServerConnect(u) \in ServerPacket
    /\ \A u \in Name : ServerDisconnect(u) \in ServerPacket
    /\ \A u \in Name, m \in Message : ServerBroadMsg(u, m) \in BroadPacket
    /\ BroadPacket \subseteq ServerPacket
  BY DEF ServerValidate, ServerConnect, ServerDisconnect, ServerBroadMsg,
         ServerPacket, BroadPacket

-----------------------------------------------------------------------------
LEMMA InitInv == Init => IInv
<1> SUFFICES ASSUME Init PROVE IInv
  OBVIOUS
<1> USE NamesAssumption, FdAssumption, BoundsAssumption DEF Init
<1>1. TypeOK
  <2>1. KernelType
    <3>1. inq \in [Conn -> Seq(ClientPacket)] /\ outq \in [Conn -> Seq(ServerPacket)]
      OBVIOUS
    <3>2. peer \in [Conn -> PeerStates]
      BY DEF PeerStates
    <3>3. sock \in [Fd -> Conn \cup {NoConn}]
      OBVIOUS
    <3> QED
      BY <3>1, <3>2, <3>3 DEF KernelType
  <2>2. TablesType
    BY DEF TablesType, NoFd
  <2>3. ThreadsType
    BY DEF ThreadsType, Steps, NoFd
  <2>4. ClientsType
    BY DEF ClientsType, ClientStates
  <2> QED
    BY <2>1, <2>2, <2>3, <2>4 DEF TypeOK
<1>2. DescriptorsAgree
  BY DEF DescriptorsAgree, Accepting
<1>3. EventsAgree
  BY DEF EventsAgree, Pending, Current
<1>4. NamesAreFresh
  BY DEF NamesAreFresh
<1>5. RegistryAgrees
  BY DEF RegistryAgrees, UserList, usernameExists, Registered, NoFd
<1>6. KernelCallsSucceed
  BY DEF KernelCallsSucceed
<1>7. ConnectIsFirst
  BY DEF ConnectIsFirst, NoConnectIn, Untouched
<1> QED
  BY <1>1, <1>2, <1>3, <1>4, <1>5, <1>6, <1>7 DEF IInv

\* A step that moves no packet of a client, renames nobody and gives back
\* no dropped client.
LEMMA KeepConnect ==
    ASSUME IInv, UNCHANGED <<sock, username, readBuf, inq, cst>>,
           \/ pc \notin {"drop", "erase"}
           \/ pc' \in {"drop", "erase"} /\ cur' = cur
    PROVE  ConnectIsFirst'
  BY DEF IInv, ConnectIsFirst, NoConnectIn, Untouched, Dropping

LEMMA StutterInv == IInv /\ UNCHANGED vars => IInv'
<1> SUFFICES ASSUME IInv, UNCHANGED vars PROVE IInv'
  OBVIOUS
<1> USE DEF vars, kernelVars, epollVars, connVars, logVars, mainVars,
            acceptVars, clientVars
<1>1. TypeOK'
  BY DEF IInv, TypeOK, KernelType, TablesType, ThreadsType, ClientsType
<1>2. DescriptorsAgree'
  BY DEF IInv, DescriptorsAgree, Accepting
<1>3. EventsAgree'
  BY DEF IInv, EventsAgree, Pending, Current
<1>4. NamesAreFresh' /\ RegistryAgrees' /\ KernelCallsSucceed'
  BY DEF IInv, NamesAreFresh, RegistryAgrees, KernelCallsSucceed, UserList,
         usernameExists, Registered
<1>5. ConnectIsFirst'
  BY DEF IInv, ConnectIsFirst, NoConnectIn, Untouched, Dropping
<1> QED
  BY <1>1, <1>2, <1>3, <1>4, <1>5 DEF IInv

-----------------------------------------------------------------------------
(***************************************************************************)
(* The clients change the sockets and the ready list, nothing of the       *)
(* server's.                                                               *)
(***************************************************************************)
LEMMA EnvironmentStep ==
    ASSUME IInv, NEW c \in Conn, Environment(c)
    PROVE  IInv'
<1> USE NamesAssumption, FdAssumption, BoundsAssumption
<1>1. TypeOK
  BY DEF IInv
<1>2. Watching(c) \subseteq epollSet
  BY DEF Watching
<1>3. /\ UNCHANGED <<sock, epollSet, armed, connVars, logVars, server,
                     mainVars, acceptVars>>
      /\ ready' \subseteq ready \cup epollSet
  BY <1>2 DEF Environment, Dial, SendConnect, Sends, ClientSend, ClientClose,
         ClientReceives, RecvVal, RecvEof, ClientRead, Receives, ResetArrives,
         epollVars, kernelVars
<1>4. TablesType' /\ ThreadsType'
  BY <1>1, <1>3 DEF TypeOK, TablesType, ThreadsType, connVars, logVars,
                    mainVars, acceptVars
<1>5. KernelType' /\ ClientsType'
  <2> USE DEF TypeOK, KernelType, ClientsType, PeerStates, ClientStates
  <2>1. ready' \subseteq Fd /\ epollSet' \subseteq Fd /\ armed' \subseteq Fd
    BY <1>1, <1>3
  <2>2. CASE Dial(c)
    BY <2>2, <1>1 DEF Dial, epollVars
  <2>3. CASE SendConnect(c)
    <3>1. ClientConnect(NameOf[c], SinceOf[c]) \in ClientPacket
      BY DEF ClientConnect, ClientPacket
    <3> QED
      BY <2>1, <2>3, <3>1, <1>1 DEF SendConnect, Sends
  <2>4. CASE ClientSend(c)
    <3>1. ClientBroadMsg(<<c, nsent[c] + 1>>) \in ClientPacket
      BY <1>1 DEF ClientBroadMsg, ClientPacket, Message
    <3>2. inq' \in [Conn -> Seq(ClientPacket)]
      BY <2>4, <3>1, <1>1 DEF ClientSend, Sends
    <3>3. nsent' \in [Conn -> Nat]
      BY <2>4, <1>1 DEF ClientSend
    <3> QED
      BY <2>1, <2>4, <3>2, <3>3, <1>1 DEF ClientSend
  <2>5. CASE ClientClose(c)
    <3>1. cst' \in [Conn -> ClientStates]
      BY <2>5, <1>1 DEF ClientClose
    <3>2. peer' \in [Conn -> PeerStates]
      BY <2>5, <1>1 DEF ClientClose
    <3>3. outq' \in [Conn -> Seq(ServerPacket)]
      BY <2>5, <1>1 DEF ClientClose
    <3>4. UNCHANGED <<backlog, lready, sock, inq, inbox, nsent, joined>>
      BY <2>5 DEF ClientClose
    <3>5. KernelType'
      BY <2>1, <3>2, <3>3, <3>4, <1>1
    <3>6. ClientsType'
      BY <3>1, <3>4, <1>1
    <3> QED
      BY <3>5, <3>6
  <2>6. CASE RecvVal(c)
    <3>1. outq[c] \in Seq(ServerPacket) /\ inbox[c] \in Seq(ServerPacket)
      BY <1>1
    <3>2. Head(outq[c]) \in ServerPacket /\ 1 \in 0 .. Len(outq[c])
      BY <2>6, <3>1 DEF RecvVal
    <3>3. /\ SubSeq(outq[c], 1, 1) \in Seq(ServerPacket)
          /\ SubSeq(outq[c], 1 + 1, Len(outq[c])) \in Seq(ServerPacket)
      BY <3>1, <3>2, CutType
    <3>4. inbox' \in [Conn -> Seq(ServerPacket)]
      <4>1. inbox[c] \o SubSeq(outq[c], 1, 1) \in Seq(ServerPacket)
        BY <3>1, <3>3
      <4>2. Append(inbox[c], Head(outq[c])) \in Seq(ServerPacket)
        BY <3>1, <3>2
      <4>3. \/ inbox' = [inbox EXCEPT ![c] = inbox[c] \o SubSeq(outq[c], 1, 1)]
            \/ inbox' = [inbox EXCEPT ![c] = Append(inbox[c], Head(outq[c]))]
        BY <2>6 DEF RecvVal, Receives
      <4>4. inbox \in [Conn -> Seq(ServerPacket)]
        BY <1>1
      <4> QED
        BY <4>1, <4>2, <4>3, <4>4, ExceptType
    <3>5. outq' \in [Conn -> Seq(ServerPacket)]
      <4>1. <<>> \in Seq(ServerPacket)
        OBVIOUS
      <4>2. \/ outq' = [outq EXCEPT ![c] = SubSeq(outq[c], 1 + 1, Len(outq[c]))]
            \/ outq' = [outq EXCEPT ![c] = <<>>]
        BY <2>6 DEF RecvVal, Receives
      <4>3. outq \in [Conn -> Seq(ServerPacket)]
        BY <1>1
      <4> QED
        BY <3>3, <4>1, <4>2, <4>3, ExceptType
    <3>6. peer' \in [Conn -> PeerStates] /\ cst' \in [Conn -> ClientStates]
      BY <2>6, <1>1 DEF RecvVal
    <3> QED
      BY <2>1, <2>6, <3>4, <3>5, <3>6, <1>1 DEF RecvVal
  <2>7. CASE RecvEof(c)
    BY <2>7, <1>1 DEF RecvEof, kernelVars, epollVars
  <2>8. CASE ClientRead(c)
    <3>1. outq[c] \in Seq(ServerPacket) /\ inbox[c] \in Seq(ServerPacket)
      BY <1>1
    <3>2. Len(outq[c]) \in 0 .. Len(outq[c])
      BY <3>1
    <3>3. /\ SubSeq(outq[c], 1, Len(outq[c])) \in Seq(ServerPacket)
          /\ SubSeq(outq[c], Len(outq[c]) + 1, Len(outq[c])) \in Seq(ServerPacket)
      BY <3>1, <3>2, CutType
    <3>4. inbox' \in [Conn -> Seq(ServerPacket)]
      BY <2>8, <3>1, <3>3, <1>1 DEF ClientRead, Receives
    <3>5. outq' \in [Conn -> Seq(ServerPacket)]
      BY <2>8, <3>1, <3>3, <1>1 DEF ClientRead, Receives
    <3> QED
      BY <2>1, <2>8, <3>4, <3>5, <1>1 DEF ClientRead
  <2>9. CASE ResetArrives(c)
    BY <2>1, <2>9, <1>1 DEF ResetArrives, clientVars
  <2> QED
    BY <2>2, <2>3, <2>4, <2>5, <2>6, <2>7, <2>8, <2>9
       DEF Environment, ClientReceives
<1>6. DescriptorsAgree'
  BY <1>3 DEF IInv, DescriptorsAgree, Accepting, connVars, acceptVars
<1>7. EventsAgree'
  BY <1>3 DEF IInv, EventsAgree, Pending, Current, mainVars
<1>8. NamesAreFresh' /\ RegistryAgrees' /\ KernelCallsSucceed'
  BY <1>3 DEF IInv, NamesAreFresh, RegistryAgrees, KernelCallsSucceed,
              UserList, usernameExists, Registered, connVars
<1>9. ConnectIsFirst'
  <2> USE DEF ConnectIsFirst, NoConnectIn, Untouched, Dropping, connVars, mainVars
  <2>1. ConnectIsFirst /\ inq \in [Conn -> Seq(ClientPacket)]
                        /\ cst \in [Conn -> ClientStates]
    BY <1>1 DEF IInv, TypeOK, KernelType, ClientsType
  <2>2. CASE Dial(c)
    BY <2>1, <2>2, <1>3 DEF Dial
  <2>3. CASE SendConnect(c)
    <3>1. inq[c] = <<>> /\ Untouched(c)
      BY <2>1, <2>3 DEF SendConnect
    <3>2. \A i \in 1 .. Len(inq'[c]) : i = 1
      BY <2>1, <2>3, <3>1 DEF SendConnect, Sends
    <3> QED
      BY <2>1, <2>3, <3>1, <3>2, <1>3 DEF SendConnect, Sends
  <2>4. CASE ClientSend(c)
    <3>1. cst[c] = "chat" /\ cst' = cst
      BY <2>4 DEF ClientSend
    <3> DEFINE p == ClientBroadMsg(<<c, nsent[c] + 1>>)
    <3>2. \/ inq' = inq
          \/ inq' = [inq EXCEPT ![c] = Append(inq[c], p)]
      <4>1. inq' = [inq EXCEPT ![c] = IF ServerHolds(c) THEN Append(inq[c], p)
                                      ELSE inq[c]]
        BY <2>4 DEF ClientSend, Sends
      <4> HIDE DEF p
      <4>2. CASE ServerHolds(c)
        BY <4>1, <4>2
      <4>3. CASE ~ServerHolds(c)
        BY <4>1, <4>3, <2>1
      <4> QED
        BY <4>2, <4>3
    <3>3. p.op # "CMG_CONNECT" /\ p \in ClientPacket
      BY <1>1 DEF ClientBroadMsg, ClientPacket, Message, TypeOK, ClientsType
    <3>4. \A d \in Conn : \A i \in 1 .. Len(inq'[d]) :
            inq'[d][i].op = "CMG_CONNECT" =>
                i \in 1 .. Len(inq[d]) /\ inq[d][i].op = "CMG_CONNECT"
      <4> HIDE DEF p
      <4>1. CASE inq' = inq
        BY <4>1
      <4>2. CASE inq' = [inq EXCEPT ![c] = Append(inq[c], p)]
        <5>1. TAKE d \in Conn
        <5>2. CASE d # c
          BY <5>2, <4>2, <2>1
        <5>3. CASE d = c
          <6>1. inq[c] \in Seq(ClientPacket) /\ inq'[c] = Append(inq[c], p)
            BY <4>2, <2>1
          <6> QED
            BY <5>3, <6>1, <3>3
        <5> QED
          BY <5>2, <5>3
      <4> QED
        BY <3>2, <4>1, <4>2
    <3> HIDE DEF p
    <3> QED
      BY <2>1, <3>1, <3>2, <3>4, <1>3
  <2>5. CASE ClientClose(c) \/ ClientReceives(c) \/ ResetArrives(c)
    <3>1. inq' = inq
      BY <2>5 DEF ClientClose, ClientReceives, RecvVal, RecvEof, ClientRead,
                  ResetArrives, kernelVars
    <3>2. \A d \in Conn : cst'[d] \in {"idle", "dialed"} => cst[d] = cst'[d]
      BY <2>1, <2>5 DEF ClientClose, ClientReceives, RecvVal, RecvEof, ClientRead,
                  ResetArrives, clientVars, ClientStates
    <3> QED
      BY <2>1, <3>1, <3>2, <1>3
  <2> QED
    BY <2>2, <2>3, <2>4, <2>5 DEF Environment
<1> QED
  BY <1>4, <1>5, <1>6, <1>7, <1>8, <1>9 DEF IInv, TypeOK

-----------------------------------------------------------------------------
(***************************************************************************)
(* The log thread touches no table the invariant is about.                 *)
(***************************************************************************)
LEMMA LogStep ==
    ASSUME IInv, LogThread
    PROVE  IInv'
<1> USE DEF LogThread, kernelVars, epollVars, connVars, mainVars, acceptVars,
            clientVars
<1>1. TypeOK'
  <2>1. Head(logQueue) \in BroadPacket /\ Tail(logQueue) \in Seq(BroadPacket)
    BY DEF IInv, TypeOK, TablesType
  <2>2. TablesType'
    BY <2>1 DEF IInv, TypeOK, TablesType
  <2> QED
    BY <2>2 DEF IInv, TypeOK, KernelType, ThreadsType, ClientsType
<1>2. DescriptorsAgree'
  BY DEF IInv, DescriptorsAgree, Accepting
<1>3. EventsAgree'
  BY DEF IInv, EventsAgree, Pending, Current
<1>4. NamesAreFresh' /\ RegistryAgrees' /\ KernelCallsSucceed'
  BY DEF IInv, NamesAreFresh, RegistryAgrees, KernelCallsSucceed, UserList,
         usernameExists, Registered
<1>5. ConnectIsFirst'
  BY KeepConnect
<1> QED
  BY <1>1, <1>2, <1>3, <1>4, <1>5 DEF IInv

(***************************************************************************)
(* The accept thread: accept() takes a descriptor that is neither in       *)
(* clientMap nor in the epoll set, and a new entry of clientMap has no     *)
(* name.                                                                   *)
(***************************************************************************)
LEMMA AcceptStep ==
    ASSUME IInv, AcceptThread
    PROVE  IInv'
<1> USE NamesAssumption, FdAssumption
<1>1. /\ TypeOK /\ DescriptorsAgree /\ EventsAgree /\ NamesAreFresh
      /\ RegistryAgrees /\ KernelCallsSucceed /\ ConnectIsFirst
  BY DEF IInv
<1>2. CASE AcceptPoll \/ AcceptFails
  <2> USE <1>2 DEF AcceptPoll, AcceptFails, kernelVars, epollVars, connVars,
                   logVars, mainVars, clientVars
  <2>1. TypeOK'
    BY <1>1 DEF TypeOK, KernelType, TablesType, ThreadsType, ClientsType
  <2>2. DescriptorsAgree'
    BY <1>1 DEF DescriptorsAgree, Accepting
  <2>3. EventsAgree'
    BY <1>1 DEF EventsAgree, Pending, Current
  <2>4. NamesAreFresh' /\ RegistryAgrees' /\ KernelCallsSucceed'
    BY <1>1 DEF NamesAreFresh, RegistryAgrees, KernelCallsSucceed, UserList,
                usernameExists, Registered
  <2>5. ConnectIsFirst'
    BY KeepConnect
  <2> QED
    BY <2>1, <2>2, <2>3, <2>4, <2>5 DEF IInv
<1>3. ASSUME NEW c \in Conn, Accept(c)
      PROVE  IInv'
  <2> USE <1>3 DEF epollVars, connVars, logVars, mainVars, clientVars
  <2>1. PICK fd \in FreeFds : sock' = [sock EXCEPT ![fd] = c] /\ afd' = fd
    BY DEF Accept
  <2>2. fd \in Fd /\ fd \notin clients /\ fd \notin epollSet
    BY <2>1, <1>1 DEF FreeFds, DescriptorsAgree
  <2>3. TypeOK'
    BY <2>1, <2>2, <1>1 DEF Accept, TypeOK, KernelType, TablesType,
       ThreadsType, ClientsType
  <2>4. DescriptorsAgree'
    BY <2>1, <2>2, <1>1 DEF Accept, DescriptorsAgree, Accepting, TypeOK,
       KernelType, TablesType
  <2>5. EventsAgree'
    BY <2>1, <2>2, <1>1 DEF Accept, EventsAgree, Pending, Current, TypeOK,
       KernelType
  <2>6. NamesAreFresh' /\ RegistryAgrees' /\ KernelCallsSucceed'
    BY <1>1 DEF Accept, NamesAreFresh, RegistryAgrees, KernelCallsSucceed,
                UserList, usernameExists, Registered
  <2>7. ConnectIsFirst'
    <3>1. username[fd] = NoName /\ readBuf[fd] = <<>>
      BY <2>2, <1>1 DEF NamesAreFresh
    <3>2. \A d \in Conn : Untouched(d) => Untouched(d)'
      BY <2>1, <2>2, <3>1, <1>1 DEF Accept, Untouched, TypeOK, KernelType
    <3> QED
      BY <3>2, <1>1 DEF Accept, ConnectIsFirst, NoConnectIn, Dropping
  <2> QED
    BY <2>3, <2>4, <2>5, <2>6, <2>7 DEF IInv
<1>4. CASE AcceptEmplace
  <2> USE <1>4 DEF AcceptEmplace, kernelVars, epollVars, logVars, mainVars,
                   clientVars
  <2>1. afd \in Fd /\ afd \notin clients /\ username[afd] = NoName
    BY <1>1 DEF DescriptorsAgree, Accepting, NamesAreFresh
  <2>2. TypeOK'
    BY <2>1, <1>1 DEF TypeOK, KernelType, TablesType, ThreadsType, ClientsType
  <2>3. DescriptorsAgree'
    BY <2>1, <1>1 DEF DescriptorsAgree, Accepting, TypeOK, KernelType
  <2>4. EventsAgree'
    BY <1>1 DEF EventsAgree, Pending, Current
  <2>5. NamesAreFresh' /\ KernelCallsSucceed'
    BY <1>1 DEF NamesAreFresh, KernelCallsSucceed
  <2>6. RegistryAgrees'
    BY <2>1, <1>1 DEF RegistryAgrees, UserList, usernameExists, Registered
  <2>7. ConnectIsFirst'
    BY KeepConnect
  <2> QED
    BY <2>2, <2>3, <2>4, <2>5, <2>6, <2>7 DEF IInv
<1>5. CASE AcceptAdd
  <2> USE <1>5 DEF AcceptAdd, kernelVars, connVars, logVars, mainVars, clientVars
  <2>1. afd \in Fd /\ afd \notin epollSet /\ afd \in clients
    BY <1>1 DEF DescriptorsAgree, Accepting, TypeOK, KernelType
  <2>2. TypeOK'
    BY <2>1, <1>1 DEF TypeOK, KernelType, TablesType, ThreadsType,
       ClientsType, NoFd
  <2>3. DescriptorsAgree'
    BY <2>1, <1>1 DEF DescriptorsAgree, Accepting
  <2>4. EventsAgree'
    BY <1>1 DEF EventsAgree, Pending, Current
  <2>5. NamesAreFresh' /\ RegistryAgrees' /\ KernelCallsSucceed'
    BY <2>1, <1>1 DEF NamesAreFresh, RegistryAgrees, KernelCallsSucceed,
       UserList, usernameExists, Registered
  <2>6. ConnectIsFirst'
    BY KeepConnect
  <2> QED
    BY <2>2, <2>3, <2>4, <2>5, <2>6 DEF IInv
<1> QED
  BY <1>2, <1>3, <1>4, <1>5 DEF AcceptThread

-----------------------------------------------------------------------------
(***************************************************************************)
(* The main thread.  First what its steps have in common.                  *)
(***************************************************************************)
\* Where a step may go.
LEMMA StepTypes ==
    /\ \A b : Resume(b) \in {"wait", "loop"}
    /\ \A e, dying, b : AfterRead(e, dying, b) \in Steps
    /\ \A fd, rest : AfterWrite(fd, rest) \in Steps
  BY DEF Resume, AfterRead, AfterWrite, Steps

\* Taking event e out of the batch and staying with it, or being done with it.
LEMMA TakeEvent ==
    ASSUME IInv, pc = "loop", NEW e \in batch, NEW s \in Steps,
           Goto(s, e, batch \ {e}), UNCHANGED <<sock, epollSet>>
    PROVE  /\ EventsAgree'
           /\ pc' \in Steps /\ cur' \in Event \cup {NoEvent} /\ batch' \subseteq Event
<1>1. e \in Event /\ batch \subseteq Event
  BY DEF IInv, TypeOK, ThreadsType
<1> QED
  BY <1>1 DEF IInv, EventsAgree, Pending, Current, Goto

\* Going on with the current event, or being done with it.
LEMMA KeepEvent ==
    ASSUME IInv, pc \notin {"wait", "loop"}, NEW s \in Steps,
           Goto(s, cur, batch), UNCHANGED <<sock, epollSet>>
    PROVE  /\ EventsAgree'
           /\ pc' \in Steps /\ cur' \in Event \cup {NoEvent} /\ batch' \subseteq Event
<1>1. cur \in Event /\ batch \subseteq Event
  BY DEF IInv, TypeOK, ThreadsType, EventsAgree
<1> QED
  BY <1>1 DEF IInv, EventsAgree, Pending, Current, Goto

\* The current event is about a client of clientMap and its connection.
LEMMA CurrentClient ==
    ASSUME IInv, pc \notin {"wait", "loop"}
    PROVE  /\ cur \in Event /\ cur.fd \in Fd /\ cur.fd \in epollSet
           /\ cur.fd \in clients /\ sock[cur.fd] \in Conn
  BY DEF IInv, EventsAgree, Pending, Current, Event, DescriptorsAgree

\* A step that changes neither clientMap nor the open descriptors, nor arms
\* a descriptor that is not registered.
LEMMA KeepDescriptors ==
    ASSUME IInv, UNCHANGED <<clients, sock, epollSet, acceptVars>>,
           armed' \subseteq epollSet, ready' \subseteq epollSet
    PROVE  DescriptorsAgree'
  BY DEF IInv, DescriptorsAgree, Accepting, acceptVars

\* With the mutex, serializeToAllButSender() meets registered clients only,
\* so epoll_ctl() does not fail.
LEMMA BroadcastReaches ==
    ASSUME IInv, MutexFree, NEW F, F \subseteq clients, ArmAll(Quiet(F))
    PROVE  /\ armed' \subseteq epollSet /\ ready' \subseteq epollSet
           /\ server' = server
  BY DEF IInv, MutexFree, Quiet, ArmAll, DescriptorsAgree

\* A step that leaves the names alone.
LEMMA KeepNames ==
    ASSUME IInv, UNCHANGED <<clients, username, userMap, readBuf>>
    PROVE  NamesAreFresh' /\ RegistryAgrees'
  BY DEF IInv, NamesAreFresh, RegistryAgrees, UserList, usernameExists,
         Registered

LEMMA EpollWaitStep ==
    ASSUME IInv, EpollWait
    PROVE  IInv'
<1> USE DEF EpollWait, kernelVars, connVars, logVars, acceptVars, clientVars
<1>1. PICK reported \in SUBSET ready :
        LET shown == {e \in {EventOf(fd) : fd \in reported} :
                        e.in \/ e.out \/ e.hup}
        IN  ready' = ready \ reported /\ Goto("loop", NoEvent, shown)
  OBVIOUS
<1> DEFINE shown == {e \in {EventOf(fd) : fd \in reported} :
                        e.in \/ e.out \/ e.hup}
<1>2. reported \subseteq epollSet /\ epollSet \subseteq Fd
  BY <1>1 DEF IInv, DescriptorsAgree, TypeOK, KernelType
<1>3. \A e \in shown : e.fd \in epollSet /\ e.fd \in Fd /\ sock[e.fd] = e.conn
                        /\ e = EventOf(e.fd)
  BY <1>2 DEF EventOf
<1>4. \A e \in shown : e \in Event
  <2> TAKE e \in shown
  <2>1. e = EventOf(e.fd) /\ e.fd \in Fd /\ (e.in \/ e.out \/ e.hup)
    BY <1>3
  <2>2. /\ e.in = Readable(e.fd) /\ e.hup = HungUp(e.fd)
        /\ e.out = (e.fd \in armed /\ Writable(e.fd))
    BY <2>1 DEF EventOf
  <2>3. Readable(e.fd) \/ Writable(e.fd) \/ HungUp(e.fd)
    BY <2>1, <2>2
  <2>4. sock[e.fd] \in Conn
    BY <2>3 DEF Readable, Writable, HungUp
  <2>5. /\ Readable(e.fd) \in BOOLEAN /\ HungUp(e.fd) \in BOOLEAN
        /\ (e.fd \in armed /\ Writable(e.fd)) \in BOOLEAN
    BY DEF Readable, HungUp
  <2>6. /\ e.in \in BOOLEAN /\ e.out \in BOOLEAN /\ e.hup \in BOOLEAN
        /\ e.fd \in Fd /\ e.conn \in Conn
    BY <1>3, <2>1, <2>2, <2>4, <2>5
  <2>7. e = [fd |-> e.fd, conn |-> e.conn, in |-> e.in, out |-> e.out,
             hup |-> e.hup]
    BY <2>1, Zenon DEF EventOf
  <2> QED
    BY <2>6, <2>7 DEF Event
<1>5. pc' = "loop" /\ cur' = NoEvent /\ batch' = shown
  BY <1>1 DEF Goto
<1>6. ThreadsType'
  BY <1>4, <1>5 DEF IInv, TypeOK, ThreadsType, Steps
<1>7. TypeOK'
  BY <1>1, <1>6 DEF IInv, TypeOK, KernelType, TablesType, ClientsType
<1>8. DescriptorsAgree'
  <2>1. armed' \subseteq epollSet /\ ready' \subseteq epollSet
    BY <1>1 DEF IInv, DescriptorsAgree
  <2> QED
    BY <2>1, KeepDescriptors
<1>9. EventsAgree'
  <2>1. \A d, e \in shown : d.fd = e.fd => d = e
    BY <1>3
  <2> QED
    BY <1>3, <1>5, <2>1 DEF EventsAgree, Pending, Current
<1>10. NamesAreFresh' /\ RegistryAgrees' /\ KernelCallsSucceed'
  BY KeepNames DEF IInv, KernelCallsSucceed
<1>11. ConnectIsFirst'
  BY KeepConnect
<1> QED
  BY <1>7, <1>8, <1>9, <1>10, <1>11 DEF IInv

(***************************************************************************)
(* The steps that take an event of the batch.                              *)
(***************************************************************************)
\* The descriptor of a pending event is a client's, the connection too.
LEMMA BatchClient ==
    ASSUME IInv, NEW e \in batch
    PROVE  /\ e \in Event /\ e.fd \in Fd /\ e.fd \in epollSet
           /\ e.fd \in clients /\ sock[e.fd] \in Conn
  BY DEF IInv, EventsAgree, Pending, Event, DescriptorsAgree, TypeOK,
         ThreadsType, KernelType

LEMMA SkipStep ==
    ASSUME IInv, NEW e \in batch, HangUp(e) \/ WriteEvent(e)
    PROVE  IInv'
<1> USE DEF HangUp, WriteEvent, Handles, kernelVars, epollVars, connVars,
            logVars, acceptVars, clientVars
<1>1. EventsAgree' /\ ThreadsType'
  <2>1. PICK s \in {"drop", "write"} : Goto(s, e, batch \ {e})
    OBVIOUS
  <2>2. s \in Steps /\ UNCHANGED <<sock, epollSet>> /\ pc = "loop"
    BY DEF Steps
  <2> QED
    BY <2>1, <2>2, TakeEvent DEF IInv, TypeOK, ThreadsType
<1>2. TypeOK'
  BY <1>1 DEF IInv, TypeOK, KernelType, TablesType, ClientsType
<1>3. DescriptorsAgree'
  <2>1. armed' \subseteq epollSet /\ ready' \subseteq epollSet
    BY DEF IInv, DescriptorsAgree
  <2> QED
    BY <2>1, KeepDescriptors
<1>4. NamesAreFresh' /\ RegistryAgrees' /\ KernelCallsSucceed' /\ ConnectIsFirst'
  BY KeepNames, KeepConnect DEF IInv, KernelCallsSucceed
<1> QED
  BY <1>1, <1>2, <1>3, <1>4 DEF IInv

LEMMA ReadClosedStep ==
    ASSUME IInv, NEW e \in batch, ReadClosed(e)
    PROVE  IInv'
<1> USE DEF ReadClosed, Handles
<1>1. PICK c \in Conn :
        /\ sock[e.fd] = c
        /\ readBuf' = [readBuf EXCEPT ![e.fd] = readBuf[e.fd] \o inq[c]]
        /\ inq' = [inq EXCEPT ![c] = <<>>]
  OBVIOUS
<1>2. e.fd \in Fd /\ e.fd \in clients
  BY BatchClient
<1>3. /\ readBuf \in [Fd -> Seq(ClientPacket)] /\ inq \in [Conn -> Seq(ClientPacket)]
      /\ cst \in [Conn -> ClientStates]
  BY DEF IInv, TypeOK, KernelType, TablesType, ClientsType
<1>4. /\ readBuf' \in [Fd -> Seq(ClientPacket)]
      /\ inq' \in [Conn -> Seq(ClientPacket)]
  BY <1>1, <1>2, <1>3
<1>5. EventsAgree' /\ ThreadsType'
  <2>1. "drop" \in Steps /\ Goto("drop", e, batch \ {e}) /\ pc = "loop"
        /\ UNCHANGED <<sock, epollSet>>
    BY DEF Steps, epollVars
  <2> QED
    BY <2>1, TakeEvent DEF IInv, TypeOK, ThreadsType, acceptVars
<1>6. TypeOK'
  BY <1>4, <1>5 DEF IInv, TypeOK, KernelType, TablesType, ClientsType,
     epollVars, logVars, clientVars
<1>7. DescriptorsAgree'
  <2>1. armed' \subseteq epollSet /\ ready' \subseteq epollSet
    BY DEF IInv, DescriptorsAgree, epollVars
  <2> QED
    BY <2>1, KeepDescriptors DEF epollVars
<1>8. NamesAreFresh' /\ RegistryAgrees' /\ KernelCallsSucceed'
  BY <1>1, <1>2, <1>3 DEF IInv, NamesAreFresh, RegistryAgrees,
     KernelCallsSucceed, UserList, usernameExists, Registered
<1>9. ConnectIsFirst'
  <2>1. pc' = "drop" /\ cur' = e
    BY DEF Goto
  <2>2. ConnectIsFirst /\ pc = "loop" /\ UNCHANGED <<sock, username, cst>>
    BY DEF IInv, clientVars
  <2>3. \A fd \in Fd : Dropping(fd)' \/ NoConnectIn(readBuf[fd])'
    BY <2>1, <2>2, <1>1, <1>3 DEF ConnectIsFirst, Dropping, NoConnectIn
  <2>4. \A d \in Conn : d # c => (Untouched(d) => Untouched(d)')
    BY <2>2, <1>1, <1>3 DEF Untouched
  <2>5. \A d \in Conn : cst[d] \in {"idle", "dialed"} => inq'[d] = <<>> /\ Untouched(d)'
    <3> SUFFICES ASSUME NEW d \in Conn, cst[d] \in {"idle", "dialed"}
                 PROVE  inq'[d] = <<>> /\ Untouched(d)'
      OBVIOUS
    <3>1. inq[d] = <<>> /\ Untouched(d)
      BY <2>2 DEF ConnectIsFirst
    <3>2. CASE d # c
      BY <3>1, <3>2, <2>4, <1>1, <1>3
    <3>3. CASE d = c
      <4>1. readBuf[e.fd] = <<>> /\ inq[c] = <<>>
        BY <3>1, <3>3, <1>1, <1>2 DEF Untouched
      <4>2. readBuf' = readBuf /\ inq' = inq
        BY <4>1, <1>1, <1>3
      <4> QED
        BY <4>2, <3>1, <2>2 DEF Untouched
    <3> QED
      BY <3>2, <3>3
  <2>6. \A d \in Conn : \A i \in 1 .. Len(inq'[d]) :
            inq'[d][i].op = "CMG_CONNECT" => i = 1 /\ Untouched(d)'
    <3> SUFFICES ASSUME NEW d \in Conn, NEW i \in 1 .. Len(inq'[d]),
                        inq'[d][i].op = "CMG_CONNECT"
                 PROVE  i = 1 /\ Untouched(d)'
      OBVIOUS
    <3>1. d # c /\ inq'[d] = inq[d]
      BY <1>1, <1>3
    <3> QED
      BY <3>1, <2>2, <2>4 DEF ConnectIsFirst
  <2> QED
    BY <2>2, <2>3, <2>5, <2>6 DEF ConnectIsFirst
<1> QED
  BY <1>5, <1>6, <1>7, <1>8, <1>9 DEF IInv

\* What handleRead() takes: a packet of the client, and a CMG_CONNECT only
\* from a connection without a name; none is left behind in readBuf.
LEMMA TakesFacts ==
    ASSUME IInv, NEW e \in batch, NEW c \in Conn, NEW p, Takes(e, c, p)
    PROVE  /\ p \in ClientPacket
           /\ readBuf' \in [Fd -> Seq(ClientPacket)]
           /\ inq' \in [Conn -> Seq(ClientPacket)]
           /\ p.op = "CMG_CONNECT" => username[e.fd] = NoName
           /\ \A fd \in Fd : NoConnectIn(readBuf'[fd])
           /\ cst[c] \notin {"idle", "dialed"}
<1> DEFINE s == readBuf[e.fd]
           t == inq[c]
           drained == s \o t
<1>1. /\ e.fd \in Fd /\ s \in Seq(ClientPacket) /\ t \in Seq(ClientPacket)
      /\ readBuf \in [Fd -> Seq(ClientPacket)]
      /\ inq \in [Conn -> Seq(ClientPacket)]
  BY BatchClient DEF IInv, TypeOK, KernelType, TablesType
<1>2. /\ sock[e.fd] = c /\ drained # <<>> /\ p = Head(drained)
      /\ readBuf' = [readBuf EXCEPT ![e.fd] = Tail(drained)]
      /\ inq' = [inq EXCEPT ![c] = <<>>]
      /\ pc = "loop"
  BY DEF Takes, Handles
<1>3. /\ \A fd \in Fd : NoConnectIn(readBuf[fd])
      /\ \A i \in 1 .. Len(t) : t[i].op = "CMG_CONNECT" => i = 1 /\ Untouched(c)
      /\ cst[c] \in {"idle", "dialed"} => t = <<>> /\ Untouched(c)
  BY <1>2 DEF IInv, ConnectIsFirst, Dropping
<1>4. \A i \in 1 .. Len(s) : s[i].op # "CMG_CONNECT"
  BY <1>1, <1>3 DEF NoConnectIn
<1>5. Untouched(c) => s = <<>> /\ username[e.fd] = NoName
  BY <1>1, <1>2 DEF Untouched
<1> HIDE DEF s, t
<1>6. drained \in Seq(ClientPacket) /\ p \in ClientPacket
      /\ Tail(drained) \in Seq(ClientPacket)
  BY <1>1, <1>2
<1>7. p.op = "CMG_CONNECT" => username[e.fd] = NoName
  <2>1. CASE s = <<>>
    <3>1. drained = t /\ p = t[1] /\ 1 \in 1 .. Len(t)
      BY <2>1, <1>1, <1>2
    <3> QED
      BY <3>1, <1>3, <1>5
  <2>2. CASE s # <<>>
    <3>1. p = s[1] /\ 1 \in 1 .. Len(s)
      BY <2>2, <1>1, <1>2
    <3> QED
      BY <3>1, <1>4
  <2> QED
    BY <2>1, <2>2
<1>8. \A i \in 1 .. Len(Tail(drained)) : Tail(drained)[i].op # "CMG_CONNECT"
  <2> SUFFICES ASSUME NEW i \in 1 .. Len(Tail(drained))
               PROVE  drained[i + 1].op # "CMG_CONNECT"
    <3>1. \A i \in 1 .. Len(Tail(drained)) : Tail(drained)[i] = drained[i + 1]
      BY <1>2, <1>6
    <3> QED
      BY <3>1
  <2>1. i + 1 \in 2 .. Len(drained) /\ Len(drained) = Len(s) + Len(t)
    BY <1>1, <1>2
  <2>2. CASE i + 1 <= Len(s)
    BY <2>1, <2>2, <1>1, <1>4
  <2>3. CASE i + 1 > Len(s)
    <3>1. /\ i + 1 - Len(s) \in 1 .. Len(t)
          /\ drained[i + 1] = t[i + 1 - Len(s)]
      BY <2>1, <2>3, <1>1
    <3>2. t[i + 1 - Len(s)].op = "CMG_CONNECT" => i + 1 = Len(s) + 1 /\ s = <<>>
      BY <3>1, <1>1, <1>3, <1>5
    <3> QED
      BY <3>1, <3>2, <2>1, <1>1
  <2> QED
    BY <2>1, <2>2, <2>3, <1>1
<1>9. \A fd \in Fd : NoConnectIn(readBuf'[fd])
  <2> SUFFICES ASSUME NEW fd \in Fd PROVE NoConnectIn(readBuf'[fd])
    OBVIOUS
  <2>1. CASE fd = e.fd
    BY <2>1, <1>1, <1>2, <1>8 DEF NoConnectIn
  <2>2. CASE fd # e.fd
    BY <2>2, <1>1, <1>2, <1>3
  <2> QED
    BY <2>1, <2>2
<1>10. cst[c] \notin {"idle", "dialed"}
  BY <1>1, <1>2, <1>3, <1>5
<1> QED
  BY <1>1, <1>2, <1>6, <1>7, <1>9, <1>10

\* Taking a packet, and naming its connection or not, keeps the order of
\* what the clients send.
LEMMA TakesConnect ==
    ASSUME IInv, NEW e \in batch, NEW c \in Conn, NEW p, Takes(e, c, p),
           UNCHANGED <<sock, cst>>,
           \A fd \in Fd : fd # e.fd => username'[fd] = username[fd]
    PROVE  ConnectIsFirst'
<1>1. /\ \A fd \in Fd : NoConnectIn(readBuf'[fd])
      /\ cst[c] \notin {"idle", "dialed"}
      /\ readBuf \in [Fd -> Seq(ClientPacket)] /\ inq \in [Conn -> Seq(ClientPacket)]
  BY TakesFacts DEF IInv, TypeOK, KernelType, TablesType
<1>2. /\ inq' = [inq EXCEPT ![c] = <<>>] /\ sock[e.fd] = c
      /\ \A fd \in Fd : fd # e.fd => readBuf'[fd] = readBuf[fd]
  BY <1>1 DEF Takes
<1>3. \A d \in Conn : d # c => (Untouched(d) => Untouched(d)') /\ inq'[d] = inq[d]
  BY <1>1, <1>2 DEF Untouched
<1>4. inq'[c] = <<>>
  BY <1>1, <1>2
<1> QED
  BY <1>1, <1>3, <1>4 DEF IInv, ConnectIsFirst

\* The next step of an event that has been read.
LEMMA AfterReadStep ==
    ASSUME IInv, pc = "loop", NEW e \in batch, NEW s \in Steps,
           Goto(s, e, batch \ {e}), UNCHANGED <<sock, epollSet, acceptVars>>,
           server' \in {"up", "exited", "crashed", "killed"}
    PROVE  EventsAgree' /\ ThreadsType'
  BY TakeEvent DEF IInv, TypeOK, ThreadsType, acceptVars

LEMMA RejectedStep ==
    ASSUME IInv, NEW e \in batch, ReadConnectRejected(e)
    PROVE  IInv'
<1> USE DEF ReadConnectRejected
<1>1. PICK c \in Conn : Takes(e, c, Head(readBuf[e.fd] \o inq[c]))
  OBVIOUS
<1>2. /\ readBuf' \in [Fd -> Seq(ClientPacket)]
      /\ inq' \in [Conn -> Seq(ClientPacket)]
  BY <1>1, TakesFacts
<1>3. pc = "loop" /\ e \in batch /\ server = "up" /\ e.fd \in Fd /\ e.fd \in clients
  BY <1>1, BatchClient DEF Takes, Handles
<1>4. writeBuf' \in [Fd -> Seq(ServerPacket)]
  BY PacketTypes, AppendToType DEF IInv, TypeOK, TablesType
<1>5. EventsAgree' /\ ThreadsType'
  <2> DEFINE s == IF Quiet({e.fd}) # {} THEN "arm"
                  ELSE AfterRead(e, TRUE, batch \ {e})
  <2>1. s \in Steps
    BY StepTypes DEF Steps
  <2>2. Goto(s, e, batch \ {e}) /\ UNCHANGED <<sock, epollSet, acceptVars, server>>
    BY DEF epollVars
  <2> HIDE DEF s
  <2> QED
    BY <1>3, <2>1, <2>2, AfterReadStep
<1>6. TypeOK'
  BY <1>2, <1>3, <1>4, <1>5 DEF IInv, TypeOK, KernelType, TablesType, ClientsType,
     epollVars, logVars, clientVars
<1>7. DescriptorsAgree'
  <2>1. armed' \subseteq epollSet /\ ready' \subseteq epollSet
    BY DEF IInv, DescriptorsAgree, epollVars
  <2> QED
    BY <2>1, KeepDescriptors DEF epollVars
<1>8. NamesAreFresh' /\ RegistryAgrees' /\ KernelCallsSucceed'
  <2>1. \A fd \in Fd \ clients : readBuf'[fd] = readBuf[fd]
    BY <1>1, <1>3 DEF Takes, IInv, TypeOK, TablesType
  <2> QED
    BY <2>1 DEF IInv, NamesAreFresh, RegistryAgrees, KernelCallsSucceed,
       UserList, usernameExists, Registered
<1>9. ConnectIsFirst'
  BY <1>1, TakesConnect DEF clientVars
<1> QED
  BY <1>5, <1>6, <1>7, <1>8, <1>9 DEF IInv

LEMMA BroadMsgStep ==
    ASSUME IInv, NEW e \in batch, ReadBroadMsg(e)
    PROVE  IInv'
<1> DEFINE n == username[e.fd]
           valid == valConnMsg(n, e.fd)
           others == IF valid THEN Others(e.fd) ELSE {}
           b == batch \ {e}
<1>1. PICK c \in Conn :
        LET p == Head(readBuf[e.fd] \o inq[c])
        IN  /\ Takes(e, c, p)
            /\ p.op = "CMG_BROADMSG"
            /\ writeBuf' = AppendTo(others, ServerBroadMsg(n, p.msg))
            /\ ArmAll(Quiet(others))
            /\ logQueue' = IF valid THEN Append(logQueue, ServerBroadMsg(n, p.msg))
                                    ELSE logQueue
            /\ markToDie' = IF valid THEN markToDie ELSE markToDie \cup {e.fd}
            /\ Goto(AfterRead(e, ~valid, b), e, b)
  BY DEF ReadBroadMsg
<1> DEFINE p == Head(readBuf[e.fd] \o inq[c])
<1>2. /\ p \in ClientPacket
      /\ readBuf' \in [Fd -> Seq(ClientPacket)]
      /\ inq' \in [Conn -> Seq(ClientPacket)]
  BY <1>1, TakesFacts
<1>3. pc = "loop" /\ MutexFree /\ e.fd \in Fd /\ e.fd \in clients
  BY <1>1, BatchClient DEF Takes, Handles
<1>4. UNCHANGED <<peer, backlog, lready, sock, outq, epollSet, clients,
                  username, userMap, log, acceptVars, clientVars, joined>>
  BY DEF ReadBroadMsg
<1>5. /\ armed' \subseteq epollSet /\ ready' \subseteq epollSet
      /\ server' = server
  <2>1. others \subseteq clients /\ ArmAll(Quiet(others))
    BY <1>1 DEF Others
  <2> QED
    BY <2>1, <1>3, BroadcastReaches
<1>6. p.msg \in Message
  <2>1. p.op = "CMG_BROADMSG"
    BY <1>1
  <2> QED
    BY <2>1, <1>2 DEF ClientPacket
<1>7. valid => n \in Name
  BY <1>3 DEF valConnMsg, IInv, TypeOK, TablesType
<1>8. TablesType'
  <2>1. writeBuf \in [Fd -> Seq(ServerPacket)] /\ logQueue \in Seq(BroadPacket)
        /\ markToDie \subseteq Fd
    BY DEF IInv, TypeOK, TablesType
  <2>2. CASE valid
    <3>1. ServerBroadMsg(n, p.msg) \in BroadPacket
      BY <2>2, <1>6, <1>7, PacketTypes
    <3>2. ServerBroadMsg(n, p.msg) \in ServerPacket
      BY <3>1, PacketTypes
    <3>3. writeBuf' \in [Fd -> Seq(ServerPacket)]
      BY <1>1, <2>1, <3>2, AppendToType
    <3>4. logQueue' = Append(logQueue, ServerBroadMsg(n, p.msg))
          /\ markToDie' = markToDie
      BY <1>1, <2>2
    <3>5. logQueue' \in Seq(BroadPacket) /\ markToDie' \subseteq Fd
      <4> HIDE DEF n, p, valid
      <4> QED
        BY <2>1, <3>1, <3>4
    <3> QED
      BY <1>2, <1>4, <3>3, <3>5 DEF IInv, TypeOK, TablesType
  <2>3. CASE ~valid
    <3>1. writeBuf' = writeBuf
      BY <1>1, <2>1, <2>3 DEF AppendTo
    <3>2. logQueue' = logQueue /\ markToDie' \subseteq Fd
      BY <1>1, <1>3, <2>1, <2>3
    <3> QED
      BY <1>2, <1>4, <3>1, <3>2 DEF IInv, TypeOK, TablesType
  <2> QED
    BY <2>2, <2>3
<1>9. EventsAgree' /\ ThreadsType'
  <2>1. AfterRead(e, ~valid, b) \in Steps
    BY StepTypes
  <2>2. Goto(AfterRead(e, ~valid, b), e, b)
    BY <1>1
  <2>3. server' \in {"up", "exited", "crashed", "killed"}
    BY <1>5 DEF IInv, TypeOK, ThreadsType
  <2> QED
    BY <1>3, <1>4, <2>1, <2>2, <2>3, AfterReadStep
<1>10. TypeOK'
  BY <1>2, <1>4, <1>5, <1>8, <1>9 DEF IInv, TypeOK, KernelType, ClientsType,
     clientVars
<1>11. DescriptorsAgree'
  BY <1>4, <1>5, KeepDescriptors
<1>12. NamesAreFresh' /\ RegistryAgrees' /\ KernelCallsSucceed'
  <2>1. \A fd \in Fd \ clients : readBuf'[fd] = readBuf[fd]
    BY <1>1, <1>3 DEF Takes, IInv, TypeOK, TablesType
  <2> QED
    BY <2>1, <1>4, <1>5 DEF IInv, NamesAreFresh, RegistryAgrees,
       KernelCallsSucceed, UserList, usernameExists, Registered
<1>13. ConnectIsFirst'
  BY <1>1, <1>4, TakesConnect DEF clientVars
<1> QED
  BY <1>9, <1>10, <1>11, <1>12, <1>13 DEF IInv

LEMMA AcceptedStep ==
    ASSUME IInv, NEW e \in batch, ReadConnectAccepted(e)
    PROVE  IInv'
<1> USE NamesAssumption, FdAssumption
<1>1. PICK c \in Conn :
        LET p == Head(readBuf[e.fd] \o inq[c])
        IN  /\ Takes(e, c, p)
            /\ p.op = "CMG_CONNECT" /\ ~usernameExists(p.user)
            /\ userMap' = [userMap EXCEPT ![p.user] = e.fd]
            /\ username' = [username EXCEPT ![e.fd] = p.user]
            /\ writeBuf' =
                [AppendTo(Others(e.fd), ServerConnect(p.user)) EXCEPT
                    ![e.fd] = @ \o <<ServerValidate(TRUE, UserList')>>
                                \o BackLog(p.since)]
            /\ joined' = [joined EXCEPT ![c] =
                            [in |-> TRUE, logged |-> Len(log),
                             spoken |-> Len(log) + Len(logQueue)]]
  BY DEF ReadConnectAccepted
<1> DEFINE p == Head(readBuf[e.fd] \o inq[c])
<1>2. /\ p \in ClientPacket
      /\ readBuf' \in [Fd -> Seq(ClientPacket)]
      /\ inq' \in [Conn -> Seq(ClientPacket)]
      /\ username[e.fd] = NoName
  BY <1>1, TakesFacts
<1>3. p.user \in Name /\ p.since \in Nat
  <2>1. p.op = "CMG_CONNECT"
    BY <1>1
  <2> QED
    BY <2>1, <1>2 DEF ClientPacket
<1>4. pc = "loop" /\ MutexFree /\ e.fd \in Fd /\ e.fd \in clients
  BY <1>1, BatchClient DEF Takes, Handles
<1>5. UNCHANGED <<peer, backlog, lready, sock, outq, epollSet, clients,
                  markToDie, logQueue, log, apc, afd, cst, inbox, nsent>>
  BY DEF ReadConnectAccepted, logVars, acceptVars, clientVars
<1>6. /\ userMap[p.user] = NoFd
      /\ userMap' = [userMap EXCEPT ![p.user] = e.fd]
      /\ username' = [username EXCEPT ![e.fd] = p.user]
  BY <1>1, <1>3 DEF usernameExists
<1> DEFINE told == AppendTo(Others(e.fd), ServerConnect(p.user))
           answer == <<ServerValidate(TRUE, UserList')>>
           replay == BackLog(p.since)
<1>7. writeBuf' = [told EXCEPT ![e.fd] = told[e.fd] \o answer \o replay]
  BY <1>1
<1>8. joined' \in [Conn -> [in : BOOLEAN, logged : Nat, spoken : Nat]]
  <2>1. Len(log) \in Nat /\ Len(logQueue) \in Nat
    BY DEF IInv, TypeOK, TablesType
  <2>2. [in |-> TRUE, logged |-> Len(log), spoken |-> Len(log) + Len(logQueue)]
            \in [in : BOOLEAN, logged : Nat, spoken : Nat]
    BY <2>1
  <2> QED
    BY <1>1, <2>2, ExceptType DEF IInv, TypeOK, ClientsType
<1>9. told \in [Fd -> Seq(ServerPacket)]
  BY <1>3, PacketTypes, AppendToType DEF IInv, TypeOK, TablesType
<1>10. answer \in Seq(ServerPacket)
  <2>1. UserList' \in SUBSET Name
    BY DEF UserList
  <2>2. ServerValidate(TRUE, UserList') \in ServerPacket
    BY <2>1, PacketTypes
  <2> DEFINE v == ServerValidate(TRUE, UserList')
  <2>3. v \in ServerPacket
    BY <2>2
  <2>4. <<v>> \in Seq(ServerPacket)
    <3> HIDE DEF v
    <3> QED
      BY <2>3
  <2> QED
    BY <2>4
<1>11. replay \in Seq(ServerPacket)
  <2>1. log \in Seq(ServerPacket)
    BY PacketTypes DEF IInv, TypeOK, TablesType
  <2>2. \A i \in p.since + 1 .. Len(log) : log[i] \in ServerPacket
    <3> HIDE DEF p
    <3> QED
      BY <1>3, <2>1
  <2>3. SubSeq(log, p.since + 1, Len(log)) \in Seq(ServerPacket)
    <3> HIDE DEF p
    <3> QED
      BY <1>3, <2>1, <2>2
  <2> QED
    BY <2>3 DEF BackLog
<1> HIDE DEF p, told, answer, replay
<1>12. writeBuf' \in [Fd -> Seq(ServerPacket)]
  <2>1. told[e.fd] \o answer \o replay \in Seq(ServerPacket)
    <3>1. told[e.fd] \in Seq(ServerPacket)
      BY <1>4, <1>9
    <3>2. told[e.fd] \o answer \in Seq(ServerPacket)
      BY <3>1, <1>10
    <3> QED
      BY <3>2, <1>11
  <2> QED
    BY <1>7, <1>9, <2>1, ExceptType
<1>13. TablesType'
  <2>1. userMap' \in [Name -> Fd \cup {NoFd}]
    BY <1>3, <1>4, <1>6 DEF IInv, TypeOK, TablesType
  <2>2. username' \in [Fd -> Name \cup {NoName}]
    BY <1>3, <1>4, <1>6 DEF IInv, TypeOK, TablesType
  <2> QED
    BY <1>2, <1>5, <1>12, <2>1, <2>2 DEF IInv, TypeOK, TablesType
<1>14. /\ armed' \subseteq epollSet /\ ready' \subseteq epollSet
       /\ server' = server
  <2>1. Others(e.fd) \subseteq clients /\ ArmAll(Quiet(Others(e.fd)))
    BY DEF Others, ReadConnectAccepted
  <2> QED
    BY <2>1, <1>4, BroadcastReaches
<1>15. EventsAgree' /\ ThreadsType'
  <2> DEFINE s == IF Quiet({e.fd}) # {} THEN "arm"
                  ELSE AfterRead(e, FALSE, batch \ {e})
  <2>1. s \in Steps
    BY StepTypes DEF Steps
  <2>2. Goto(s, e, batch \ {e})
    BY DEF ReadConnectAccepted
  <2>3. server' \in {"up", "exited", "crashed", "killed"}
    BY <1>14 DEF IInv, TypeOK, ThreadsType
  <2>4. UNCHANGED <<sock, epollSet, acceptVars>>
    BY <1>5 DEF acceptVars
  <2> HIDE DEF s
  <2> QED
    BY <1>4, <2>1, <2>2, <2>3, <2>4, AfterReadStep
<1>16. TypeOK'
  <2>1. KernelType'
    BY <1>2, <1>5, <1>14 DEF IInv, TypeOK, KernelType
  <2>2. ClientsType'
    BY <1>5, <1>8 DEF IInv, TypeOK, ClientsType
  <2> QED
    BY <1>13, <1>15, <2>1, <2>2 DEF TypeOK
<1>17. DescriptorsAgree'
  BY <1>5, <1>14, KeepDescriptors DEF acceptVars
<1>18. NamesAreFresh' /\ KernelCallsSucceed'
  <2>1. \A fd \in Fd \ clients : readBuf'[fd] = readBuf[fd]
    BY <1>1, <1>4 DEF Takes, IInv, TypeOK, TablesType
  <2>2. \A fd \in Fd \ clients : username'[fd] = username[fd]
    BY <1>4, <1>6 DEF IInv, TypeOK, TablesType
  <2> QED
    BY <2>1, <2>2, <1>5, <1>14 DEF IInv, NamesAreFresh, KernelCallsSucceed
\* The new name was free and the descriptor had none, so no entry of
\* userMap and no username is overwritten.
<1>19. RegistryAgrees'
  <2>1. /\ RegistryAgrees /\ clients \subseteq Fd
        /\ userMap \in [Name -> Fd \cup {NoFd}]
        /\ username \in [Fd -> Name \cup {NoName}]
    BY DEF IInv, TypeOK, TablesType
  <2>2. userMap'[p.user] = e.fd /\ username'[e.fd] = p.user
    BY <1>3, <1>4, <1>6, <2>1
  <2>3. \A n \in Name : n # p.user => userMap'[n] = userMap[n]
    BY <1>6, <2>1
  <2>4. \A fd \in Fd : fd # e.fd => username'[fd] = username[fd]
    BY <1>6, <2>1
  <2>5. \A n \in UserList' : userMap'[n] \in clients' /\ username'[userMap'[n]] = n
    <3> SUFFICES ASSUME NEW n \in Name, userMap'[n] # NoFd
                 PROVE  userMap'[n] \in clients' /\ username'[userMap'[n]] = n
      BY DEF UserList, usernameExists
    <3>1. CASE n = p.user
      BY <3>1, <2>2, <1>4, <1>5
    <3>2. CASE n # p.user
      <4>1. userMap'[n] = userMap[n] /\ n \in UserList
        BY <3>2, <2>3 DEF UserList, usernameExists
      <4>2. userMap[n] \in clients /\ username[userMap[n]] = n
        BY <4>1, <2>1 DEF RegistryAgrees
      <4>3. userMap[n] # e.fd
        BY <4>2, <1>2
      <4> QED
        BY <4>1, <4>2, <4>3, <2>1, <2>4, <1>5
    <3> QED
      BY <3>1, <3>2
  <2>6. \A fd \in Registered' : userMap'[username'[fd]] = fd
    <3> SUFFICES ASSUME NEW fd \in clients, username'[fd] # NoName
                 PROVE  userMap'[username'[fd]] = fd
      BY <1>5 DEF Registered
    <3>1. CASE fd = e.fd
      BY <3>1, <2>2
    <3>2. CASE fd # e.fd
      <4>1. username'[fd] = username[fd] /\ fd \in Registered
        BY <3>2, <2>1, <2>4 DEF Registered
      <4>2. userMap[username[fd]] = fd /\ username[fd] \in Name /\ fd # NoFd
        BY <4>1, <2>1 DEF RegistryAgrees, NoFd
      <4>3. username[fd] # p.user
        BY <4>2, <1>6
      <4> QED
        BY <4>1, <4>2, <4>3, <2>3
    <3> QED
      BY <3>1, <3>2
  <2> QED
    BY <2>5, <2>6 DEF RegistryAgrees
<1>20. ConnectIsFirst'
  <2>1. Takes(e, c, p)
    BY <1>1 DEF p
  <2>2. \A fd \in Fd : fd # e.fd => username'[fd] = username[fd]
    BY <1>6 DEF IInv, TypeOK, TablesType
  <2> QED
    BY <2>1, <2>2, <1>5, TakesConnect
<1> QED
  BY <1>15, <1>16, <1>17, <1>18, <1>19, <1>20 DEF IInv

(***************************************************************************)
(* The steps that go on with the current event.                            *)
(***************************************************************************)
\* Arm and Disarm find the descriptor registered, so epoll_ctl() does not
\* fail; the map may crash under them all the same.
LEMMA InterestStep ==
    ASSUME IInv, Arm \/ Disarm
    PROVE  IInv'
<1> USE DEF Arm, Disarm, kernelVars, connVars, logVars, acceptVars, clientVars
<1>1. pc \in {"arm", "disarm"} /\ cur.fd \in Fd /\ cur.fd \in epollSet
  BY CurrentClient
<1>2. server' \in {"up", "crashed"}
  <2>1. RacyMapAccess(IF cur.fd \in epollSet THEN "up" ELSE "exited")
    OBVIOUS
  <2> QED
    BY <1>1, <2>1 DEF RacyMapAccess
<1>3. armed' \subseteq epollSet /\ ready' \subseteq epollSet
  BY <1>1 DEF IInv, DescriptorsAgree
<1>4. PICK s \in Steps : Goto(s, cur, batch)
  BY StepTypes DEF Steps
<1>5. EventsAgree' /\ ThreadsType'
  BY <1>1, <1>2, <1>4, KeepEvent DEF IInv, TypeOK, ThreadsType
<1>6. TypeOK'
  BY <1>3, <1>5 DEF IInv, TypeOK, KernelType, TablesType, ClientsType
<1>7. DescriptorsAgree'
  BY <1>3, KeepDescriptors
<1>8. NamesAreFresh' /\ RegistryAgrees' /\ KernelCallsSucceed'
  BY <1>2, KeepNames DEF KernelCallsSucceed
<1>9. ConnectIsFirst'
  BY <1>1, KeepConnect
<1> QED
  BY <1>5, <1>6, <1>7, <1>8, <1>9 DEF IInv

\* The rest handleWrite() leaves in the buffer of the current client.
LEMMA RestType ==
    ASSUME IInv, pc \notin {"wait", "loop"}, NEW room \in Nat,
           NEW n, n = Smaller(Len(writeBuf[cur.fd]), room)
    PROVE  /\ n \in 0 .. Len(writeBuf[cur.fd])
           /\ SubSeq(writeBuf[cur.fd], 1, n) \in Seq(ServerPacket)
           /\ SubSeq(writeBuf[cur.fd], n + 1, Len(writeBuf[cur.fd]))
                \in Seq(ServerPacket)
<1>1. writeBuf[cur.fd] \in Seq(ServerPacket)
  BY CurrentClient DEF IInv, TypeOK, TablesType
<1>2. n \in 0 .. Len(writeBuf[cur.fd])
  BY <1>1 DEF Smaller
<1> QED
  BY <1>1, <1>2, CutType

LEMMA WriteStep ==
    ASSUME IInv, WriteSome \/ WriteBlocked \/ WriteToClosed \/ WriteAfterReset
    PROVE  IInv'
<1> USE BoundsAssumption
<1>1. pc = "write" /\ cur.fd \in Fd /\ sock[cur.fd] \in Conn
  BY CurrentClient DEF WriteSome, WriteBlocked, WriteToClosed, WriteAfterReset
<1>2. UNCHANGED <<backlog, lready, sock, inq, epollSet, armed, ready, clients,
                  username, readBuf, markToDie, userMap, logQueue, log,
                  apc, afd, cst, inbox, nsent, joined>>
  BY DEF WriteSome, WriteBlocked, WriteToClosed, WriteAfterReset, kernelVars,
         epollVars, connVars, logVars, acceptVars, clientVars
<1>3. server' = server \/ server' = "killed"
  BY DEF WriteSome, WriteBlocked, WriteToClosed, WriteAfterReset
<1>4. PICK s \in Steps : Goto(s, cur, batch)
  <2>1. CASE WriteSome \/ WriteToClosed
    BY <2>1, StepTypes DEF WriteSome, WriteToClosed
  <2>2. CASE WriteBlocked
    BY <2>2, StepTypes DEF WriteBlocked, Steps
  <2>3. CASE WriteAfterReset
    BY <2>3 DEF WriteAfterReset, Steps
  <2> QED
    BY <2>1, <2>2, <2>3
<1>5. /\ peer' \in [Conn -> PeerStates]
      /\ outq' \in [Conn -> Seq(ServerPacket)]
      /\ writeBuf' \in [Fd -> Seq(ServerPacket)]
  <2>1. /\ peer \in [Conn -> PeerStates]
        /\ outq \in [Conn -> Seq(ServerPacket)]
        /\ writeBuf \in [Fd -> Seq(ServerPacket)]
    BY DEF IInv, TypeOK, KernelType, TablesType
  <2>2. CASE WriteSome
    <3> DEFINE fd == cur.fd
               c == sock[fd]
               room == SockCap - Len(outq[c])
               n == Smaller(Len(writeBuf[fd]), room)
               rest == SubSeq(writeBuf[fd], n + 1, Len(writeBuf[fd]))
               head == SubSeq(writeBuf[fd], 1, n)
    <3>1. /\ room > 0 /\ UNCHANGED peer
          /\ outq' = [outq EXCEPT ![c] = outq[c] \o head]
          /\ writeBuf' = [writeBuf EXCEPT ![fd] = rest]
      BY <2>2 DEF WriteSome
    <3>2. c \in Conn /\ outq[c] \in Seq(ServerPacket)
      BY <1>1, <2>1
    <3>3. room \in Nat
      BY <3>1, <3>2
    <3>4. head \in Seq(ServerPacket) /\ rest \in Seq(ServerPacket)
      <4> HIDE DEF room
      <4> QED
        BY <1>1, <3>3, RestType
    <3> HIDE DEF c, room, n, rest, head
    <3>5. outq[c] \o head \in Seq(ServerPacket)
      BY <3>2, <3>4
    <3> QED
      BY <1>1, <2>1, <3>1, <3>2, <3>4, <3>5, ExceptType
  <2>3. CASE WriteToClosed
    <3> DEFINE fd == cur.fd
               n == Smaller(Len(writeBuf[fd]), SockCap)
               rest == SubSeq(writeBuf[fd], n + 1, Len(writeBuf[fd]))
    <3>1. /\ UNCHANGED outq
          /\ peer' = [peer EXCEPT ![sock[fd]] = "answered"]
          /\ writeBuf' = [writeBuf EXCEPT ![fd] = rest]
      BY <2>3 DEF WriteToClosed
    <3>2. rest \in Seq(ServerPacket)
      BY <1>1, RestType
    <3>3. "answered" \in PeerStates
      BY DEF PeerStates
    <3> HIDE DEF n, rest
    <3> QED
      BY <1>1, <2>1, <3>1, <3>2, <3>3, ExceptType
  <2>4. CASE WriteBlocked \/ WriteAfterReset
    BY <2>1, <2>4 DEF WriteBlocked, WriteAfterReset, kernelVars, connVars
  <2> QED
    BY <2>2, <2>3, <2>4
<1>6. EventsAgree' /\ ThreadsType'
  <2>1. /\ EventsAgree' /\ pc' \in Steps /\ cur' \in Event \cup {NoEvent}
        /\ batch' \subseteq Event
    BY <1>1, <1>2, <1>4, KeepEvent
  <2> QED
    BY <2>1, <1>2, <1>3 DEF IInv, TypeOK, ThreadsType
<1>7. TypeOK'
  <2>1. KernelType'
    BY <1>2, <1>5 DEF IInv, TypeOK, KernelType
  <2>2. TablesType'
    BY <1>2, <1>5 DEF IInv, TypeOK, TablesType
  <2>3. ClientsType'
    BY <1>2 DEF IInv, TypeOK, ClientsType
  <2> QED
    BY <2>1, <2>2, <2>3, <1>6 DEF TypeOK
<1>8. DescriptorsAgree'
  <2>1. armed' \subseteq epollSet /\ ready' \subseteq epollSet
    BY <1>2 DEF IInv, DescriptorsAgree
  <2> QED
    BY <2>1, <1>2, KeepDescriptors DEF acceptVars
<1>9. NamesAreFresh' /\ RegistryAgrees' /\ KernelCallsSucceed'
  BY <1>2, <1>3, KeepNames DEF IInv, KernelCallsSucceed
<1>10. ConnectIsFirst'
  BY <1>1, <1>2, KeepConnect
<1> QED
  BY <1>6, <1>7, <1>8, <1>9, <1>10 DEF IInv

LEMMA DropBroadcastStep ==
    ASSUME IInv, DropBroadcast
    PROVE  IInv'
<1> USE DEF DropBroadcast, kernelVars, logVars, acceptVars, clientVars
<1>1. pc = "drop" /\ MutexFree /\ cur.fd \in Fd
  BY CurrentClient
<1>2. username[cur.fd] \in Name
  BY <1>1 DEF Announced, IInv, TypeOK, TablesType
<1>3. writeBuf' \in [Fd -> Seq(ServerPacket)]
  BY <1>2, PacketTypes, AppendToType DEF IInv, TypeOK, TablesType
<1>4. /\ armed' \subseteq epollSet /\ ready' \subseteq epollSet
      /\ server' = server
  <2>1. Others(cur.fd) \subseteq clients /\ ArmAll(Quiet(Others(cur.fd)))
    BY DEF Others
  <2> QED
    BY <2>1, <1>1, BroadcastReaches
<1>5. EventsAgree' /\ ThreadsType'
  <2>1. "erase" \in Steps /\ Goto("erase", cur, batch)
    BY DEF Steps
  <2>2. /\ EventsAgree' /\ pc' \in Steps /\ cur' \in Event \cup {NoEvent}
        /\ batch' \subseteq Event
    BY <1>1, <2>1, KeepEvent
  <2> QED
    BY <2>2, <1>4 DEF IInv, TypeOK, ThreadsType
<1>6. TypeOK'
  <2>1. KernelType'
    BY <1>4 DEF IInv, TypeOK, KernelType
  <2>2. TablesType'
    BY <1>3 DEF IInv, TypeOK, TablesType
  <2>3. ClientsType'
    BY DEF IInv, TypeOK, ClientsType
  <2> QED
    BY <2>1, <2>2, <2>3, <1>5 DEF TypeOK
<1>7. DescriptorsAgree'
  BY <1>4, KeepDescriptors
<1>8. NamesAreFresh' /\ RegistryAgrees' /\ KernelCallsSucceed'
  BY <1>4, KeepNames DEF IInv, KernelCallsSucceed
<1>9. ConnectIsFirst'
  <2>1. pc' = "erase" /\ cur' = cur
    BY DEF Goto
  <2> QED
    BY <1>1, <2>1, KeepConnect
<1> QED
  BY <1>5, <1>6, <1>7, <1>8, <1>9 DEF IInv

\* dropClient() forgets all of a client at once: the name, the record, the
\* registration and the descriptor.  No other pending event is about it.
LEMMA ForgetStep ==
    ASSUME IInv, DropErase \/ DropUnregistered
    PROVE  IInv'
<1> USE NamesAssumption, FdAssumption
<1> DEFINE fd == cur.fd
<1>1. /\ pc \in {"drop", "erase"} /\ MutexFree /\ server = "up"
      /\ killUser(fd) /\ CloseFd(fd) /\ Erase(fd)
      /\ Goto(Resume(batch), cur, batch)
  BY DEF DropErase, DropUnregistered, Forget
<1>2. UNCHANGED <<peer, backlog, lready, outq, logQueue, log, apc, afd, cst,
                  inbox, nsent, joined>>
  BY DEF DropErase, DropUnregistered, logVars, acceptVars, clientVars
<1>3. cur \in Event /\ fd \in Fd /\ fd \in epollSet /\ fd \in clients
      /\ sock[fd] \in Conn
  BY <1>1, CurrentClient
<1>4. /\ TypeOK /\ DescriptorsAgree /\ EventsAgree /\ NamesAreFresh
      /\ ConnectIsFirst /\ RegistryAgrees /\ KernelCallsSucceed
  BY DEF IInv
<1>5. /\ sock \in [Fd -> Conn \cup {NoConn}] /\ inq \in [Conn -> Seq(ClientPacket)]
      /\ readBuf \in [Fd -> Seq(ClientPacket)]
      /\ writeBuf \in [Fd -> Seq(ServerPacket)]
      /\ username \in [Fd -> Name \cup {NoName}]
      /\ userMap \in [Name -> Fd \cup {NoFd}] /\ clients \subseteq Fd
  BY <1>4 DEF TypeOK, KernelType, TablesType
<1>6. /\ sock' = [sock EXCEPT ![fd] = NoConn]
      /\ inq' = [c \in Conn |-> IF c = sock[fd] THEN <<>> ELSE inq[c]]
      /\ readBuf' = [readBuf EXCEPT ![fd] = <<>>]
      /\ writeBuf' = [writeBuf EXCEPT ![fd] = <<>>]
      /\ username' = [username EXCEPT ![fd] = NoName]
      /\ userMap' = [n \in Name |-> IF n = username[fd] THEN NoFd ELSE userMap[n]]
      /\ clients' = clients \ {fd} /\ epollSet' = epollSet \ {fd}
      /\ armed' = armed \ {fd} /\ ready' = ready \ {fd}
      /\ markToDie' = markToDie \ {fd} /\ server' = server
  BY <1>1, <1>3 DEF killUser, CloseFd, Erase
<1>7. /\ pc' \in {"wait", "loop"} /\ cur' = NoEvent /\ batch' = batch
  BY <1>1, StepTypes DEF Goto
<1> HIDE DEF fd
<1>8. TypeOK'
  <2>1. KernelType'
    <3>1. sock' \in [Fd -> Conn \cup {NoConn}]
      BY <1>3, <1>5, <1>6
    <3>2. inq' \in [Conn -> Seq(ClientPacket)]
      BY <1>5, <1>6
    <3> QED
      BY <3>1, <3>2, <1>2, <1>4, <1>6 DEF TypeOK, KernelType
  <2>2. TablesType'
    <3>1. /\ readBuf' \in [Fd -> Seq(ClientPacket)]
          /\ writeBuf' \in [Fd -> Seq(ServerPacket)]
      BY <1>3, <1>5, <1>6
    <3>2. /\ username' \in [Fd -> Name \cup {NoName}]
          /\ userMap' \in [Name -> Fd \cup {NoFd}]
      BY <1>3, <1>5, <1>6
    <3> QED
      BY <3>1, <3>2, <1>2, <1>4, <1>6 DEF TypeOK, TablesType
  <2>3. ThreadsType'
    BY <1>2, <1>4, <1>6, <1>7 DEF TypeOK, ThreadsType, Steps
  <2>4. ClientsType'
    BY <1>2, <1>4 DEF TypeOK, ClientsType
  <2> QED
    BY <2>1, <2>2, <2>3, <2>4 DEF TypeOK
<1>9. DescriptorsAgree'
  BY <1>1, <1>2, <1>3, <1>4, <1>5, <1>6 DEF DescriptorsAgree, Accepting, MutexFree
<1>10. EventsAgree'
  <2>1. \A e \in batch : e.fd # fd
    BY <1>1, <1>4 DEF EventsAgree, Current, fd
  <2>2. \A e \in batch : e.fd \in epollSet /\ sock[e.fd] = e.conn
    BY <1>4 DEF EventsAgree, Pending
  <2>3. epollSet \subseteq Fd
    BY <1>4 DEF TypeOK, KernelType
  <2> QED
    BY <2>1, <2>2, <2>3, <1>4, <1>5, <1>6, <1>7 DEF EventsAgree, Pending, Current
<1>11. NamesAreFresh' /\ KernelCallsSucceed'
  BY <1>3, <1>4, <1>5, <1>6 DEF NamesAreFresh, KernelCallsSucceed
<1>12. RegistryAgrees'
  <2>1. \A n \in UserList' : userMap'[n] \in clients' /\ username'[userMap'[n]] = n
    <3> SUFFICES ASSUME NEW n \in Name, userMap'[n] # NoFd
                 PROVE  userMap'[n] \in clients' /\ username'[userMap'[n]] = n
      BY DEF UserList, usernameExists
    <3>1. n # username[fd] /\ userMap'[n] = userMap[n] /\ n \in UserList
      BY <1>6 DEF UserList, usernameExists
    <3>2. userMap[n] \in clients /\ username[userMap[n]] = n
      BY <3>1, <1>4 DEF RegistryAgrees
    <3> QED
      BY <3>1, <3>2, <1>5, <1>6
  <2>2. \A f \in Registered' : userMap'[username'[f]] = f
    <3> SUFFICES ASSUME NEW f \in clients', username'[f] # NoName
                 PROVE  userMap'[username'[f]] = f
      BY DEF Registered
    <3>1. f \in clients /\ f # fd /\ username'[f] = username[f]
      BY <1>5, <1>6
    <3>2. userMap[username[f]] = f /\ username[f] \in Name
      BY <3>1, <1>4, <1>5 DEF RegistryAgrees, Registered
    <3>3. username[f] # username[fd]
      BY <3>1, <3>2, <1>3, <1>4 DEF RegistryAgrees, Registered
    <3> QED
      BY <3>1, <3>2, <3>3, <1>6
  <2> QED
    BY <2>1, <2>2 DEF RegistryAgrees
<1>13. ConnectIsFirst'
  <2>1. \A f \in Fd : f # fd => ~Dropping(f)
    BY <1>1 DEF Dropping, fd
  <2>2. \A f \in Fd : NoConnectIn(readBuf'[f])
    <3> SUFFICES ASSUME NEW f \in Fd PROVE NoConnectIn(readBuf'[f])
      OBVIOUS
    <3>1. CASE f = fd
      BY <3>1, <1>3, <1>5, <1>6 DEF NoConnectIn
    <3>2. CASE f # fd
      BY <3>2, <2>1, <1>4, <1>5, <1>6 DEF ConnectIsFirst
    <3> QED
      BY <3>1, <3>2
  <2>3. \A c \in Conn : Untouched(c) => Untouched(c)'
    BY <1>3, <1>5, <1>6, NamesAssumption DEF Untouched
  <2>4. \A c \in Conn : inq'[c] = inq[c] \/ inq'[c] = <<>>
    BY <1>5, <1>6
  <2>5. \A c \in Conn : cst'[c] \in {"idle", "dialed"} => inq'[c] = <<>> /\ Untouched(c)'
    BY <2>3, <2>4, <1>2, <1>4 DEF ConnectIsFirst
  <2>6. \A c \in Conn : \A i \in 1 .. Len(inq'[c]) :
            inq'[c][i].op = "CMG_CONNECT" => i = 1 /\ Untouched(c)'
    <3> SUFFICES ASSUME NEW c \in Conn, NEW i \in 1 .. Len(inq'[c]),
                        inq'[c][i].op = "CMG_CONNECT"
                 PROVE  i = 1 /\ Untouched(c)'
      OBVIOUS
    <3>1. inq'[c] = inq[c]
      BY <2>4
    <3> QED
      BY <3>1, <2>3, <1>4 DEF ConnectIsFirst
  <2> QED
    BY <2>2, <2>5, <2>6 DEF ConnectIsFirst
<1> QED
  BY <1>8, <1>9, <1>10, <1>11, <1>12, <1>13 DEF IInv

-----------------------------------------------------------------------------
(***************************************************************************)
(* Every step keeps the invariant.                                         *)
(***************************************************************************)
LEMMA NextInv == IInv /\ [Next]_vars => IInv'
<1> SUFFICES ASSUME IInv, [Next]_vars PROVE IInv'
  OBVIOUS
<1>1. CASE MainThread
  <2>1. CASE EpollWait
    BY <2>1, EpollWaitStep
  <2>2. ASSUME NEW e \in batch,
               \/ HangUp(e) \/ ReadClosed(e) \/ ReadConnectRejected(e)
               \/ ReadConnectAccepted(e) \/ ReadBroadMsg(e) \/ WriteEvent(e)
        PROVE  IInv'
    BY <2>2, SkipStep, ReadClosedStep, RejectedStep, AcceptedStep, BroadMsgStep
  <2>3. CASE Arm \/ Disarm
    BY <2>3, InterestStep
  <2>4. CASE WriteSome \/ WriteBlocked \/ WriteToClosed \/ WriteAfterReset
    BY <2>4, WriteStep
  <2>5. CASE DropBroadcast
    BY <2>5, DropBroadcastStep
  <2>6. CASE DropErase \/ DropUnregistered
    BY <2>6, ForgetStep
  <2> QED
    BY <1>1, <2>1, <2>2, <2>3, <2>4, <2>5, <2>6 DEF MainThread
<1>2. CASE AcceptThread
  BY <1>2, AcceptStep
<1>3. CASE LogThread
  BY <1>3, LogStep
<1>4. ASSUME NEW c \in Conn, Environment(c)
      PROVE  IInv'
  BY <1>4, EnvironmentStep
<1>5. CASE UNCHANGED vars
  BY <1>5, StutterInv
<1> QED
  BY <1>1, <1>2, <1>3, <1>4, <1>5 DEF Next

\* The inductive invariant holds in every state the server, its threads and
\* its clients reach.
THEOREM Invariance == Spec => []IInv
BY InitInv, NextInv, PTL DEF Spec

\* Every variable of the server keeps its type: in particular accept() and
\* the tables never go beyond the descriptors, and every buffer holds whole
\* packets of its direction.
THEOREM TypeCorrect == Spec => []TypeOK
<1>1. IInv => TypeOK
  BY DEF IInv
<1> QED
  BY <1>1, Invariance, PTL

\* userMap and the usernames of clientMap (servUtils.cpp: clientConnect,
\* dropClient, killUser) are inverse of each other for any number of clients
\* that come, go and ask for the same names.
THEOREM RegistryConsistent == Spec => []RegistryAgrees
<1>1. IInv => RegistryAgrees
  BY DEF IInv
<1> QED
  BY <1>1, Invariance, PTL

\* A pending event of epoll_wait() is always about the connection it was
\* reported for, however many descriptors are closed and accepted anew
\* while the main thread works through the batch.
THEOREM EventsFresh == Spec => []EventsAreFresh
<1>1. IInv => EventsAreFresh
  BY DEF IInv, EventsAgree, EventsAreFresh
<1> QED
  BY <1>1, Invariance, PTL

\* No epoll_ctl() of the server fails, so epollModify() and addFdToEpoll()
\* never end the process.
THEOREM NoKernelFailure == Spec => []KernelCallsSucceed
<1>1. IInv => KernelCallsSucceed
  BY DEF IInv
<1> QED
  BY <1>1, Invariance, PTL

-----------------------------------------------------------------------------
(***************************************************************************)
(* No edge is lost: with EPOLLET every byte that waits, in the server's    *)
(* buffers or in the kernel's, waits for an edge that is on its way, for   *)
(* any socket capacity and any MAX_EVENTS.  IInv is the invariant of the   *)
(* tables; EdgeInv is what the edges need on top of it.                    *)
(***************************************************************************)
\* The main thread is in the middle of an event of fd.
Busy(fd) == pc \notin {"wait", "loop"} /\ cur.fd = fd

\* An event is left of no earlier epoll_wait(); EPOLLOUT is only reported,
\* and served, for a descriptor that is armed; and it is only taken out of
\* the interest of a client that has nothing to be written.
BatchesAgree ==
    /\ pc = "wait" => batch = {}
    /\ \A e \in Pending : e.out => e.fd \in armed
    /\ pc = "write" => cur.out
    /\ pc = "disarm" => writeBuf[cur.fd] = <<>>

\* A descriptor that is not in the epoll set has nothing to be written.
QuietOutside == \A fd \in Fd \ epollSet : writeBuf[fd] = <<>>

SocketsBounded == \A c \in Conn : Len(outq[c]) <= SockCap

\* OutputHasAnEdge, with the event that must serve the output: the current
\* one, or one that reports EPOLLOUT.
OutputEdge ==
    \A fd \in epollSet :
        writeBuf[fd] # <<>> =>
            \/ Busy(fd)
            \/ /\ fd \in armed
               /\ Writable(fd) =>
                    fd \in ready \/ \E e \in batch : e.fd = fd /\ e.out

\* InputHasAnEdge, likewise.
InputEdge ==
    \A fd \in epollSet :
        Readable(fd) =>
            \/ fd \in ready
            \/ \E e \in batch : e.fd = fd /\ e.in
            \/ Dropping(fd)

EdgeInv ==
    /\ BatchesAgree
    /\ QuietOutside
    /\ SocketsBounded
    /\ OutputEdge
    /\ InputEdge

-----------------------------------------------------------------------------
\* write() makes a socket's queue as much longer as it takes.
LEMMA JoinLength ==
    ASSUME NEW S, NEW s \in Seq(S), NEW t \in Seq(S)
    PROVE  Len(s \o t) = Len(s) + Len(t)
  OBVIOUS

LEMMA InitEdges == Init => EdgeInv
<1> SUFFICES ASSUME Init PROVE EdgeInv
  OBVIOUS
<1>1. BatchesAgree
  BY DEF Init, BatchesAgree, Pending, Current
<1>2. QuietOutside /\ SocketsBounded
  BY BoundsAssumption DEF Init, QuietOutside, SocketsBounded
<1>3. OutputEdge /\ InputEdge
  BY DEF Init, OutputEdge, InputEdge
<1> QED
  BY <1>1, <1>2, <1>3 DEF EdgeInv

(***************************************************************************)
(* What may change a socket without an edge.                               *)
(***************************************************************************)
\* No descriptor of F becomes readable, or writable, unless it is put on the
\* ready list.
NoNewInput(F) == \A fd \in F : Readable(fd)' => Readable(fd) \/ fd \in ready'
NoNewOutput(F) ==
    \A fd \in F : Writable(fd)' => Writable(fd) \/ fd \in ready' \/ fd \notin armed

\* A step of the other threads or of a client keeps the edges when whatever
\* it makes possible comes with an edge.
LEMMA OthersKeepEdges ==
    ASSUME IInv, EdgeInv,
           UNCHANGED <<epollSet, armed, writeBuf, mainVars>>,
           ready \subseteq ready',
           SocketsBounded', NoNewInput(epollSet), NoNewOutput(epollSet)
    PROVE  EdgeInv'
<1> USE DEF EdgeInv, mainVars
<1>1. BatchesAgree' /\ QuietOutside'
  BY DEF BatchesAgree, Pending, Current, QuietOutside
<1>2. OutputEdge'
  BY DEF OutputEdge, NoNewOutput, Busy
<1>3. InputEdge'
  BY DEF InputEdge, NoNewInput, Dropping
<1> QED
  BY <1>1, <1>2, <1>3

\* The edges are about the sockets and the state of the main thread only.
LEMMA SameSockets ==
    ASSUME UNCHANGED <<sock, inq, outq, peer>>, NEW F
    PROVE  NoNewInput(F) /\ NoNewOutput(F)
  BY DEF NoNewInput, NoNewOutput, Readable, Writable

LEMMA EnvironmentEdges ==
    ASSUME IInv, EdgeInv, NEW c \in Conn, Environment(c)
    PROVE  EdgeInv'
<1>1. /\ UNCHANGED <<sock, epollSet, armed, writeBuf, mainVars>>
      /\ ready \subseteq ready'
  BY DEF Environment, Dial, SendConnect, Sends, ClientSend, ClientClose,
         ClientReceives, RecvVal, RecvEof, ClientRead, Receives, ResetArrives,
         epollVars, kernelVars, connVars
<1>2. /\ peer \in [Conn -> PeerStates] /\ inq \in [Conn -> Seq(ClientPacket)]
      /\ outq \in [Conn -> Seq(ServerPacket)]
  BY DEF IInv, TypeOK, KernelType
<1>3. \A d \in Conn \ {c} :
        peer'[d] = peer[d] /\ inq'[d] = inq[d] /\ outq'[d] = outq[d]
  BY <1>2 DEF Environment, Dial, SendConnect, Sends, ClientSend, ClientClose,
         ClientReceives, RecvVal, RecvEof, ClientRead, Receives, ResetArrives,
         kernelVars
<1>4. \/ Watching(c) \subseteq ready'
      \/ inq'[c] = inq[c] /\ (peer'[c] = peer[c] \/ peer'[c] = "open")
  BY <1>2 DEF Environment, Dial, SendConnect, Sends, ClientSend, ClientClose,
         ClientReceives, RecvVal, RecvEof, ClientRead, Receives, ResetArrives,
         kernelVars
<1>5. \/ Watching(c) \cap armed \subseteq ready'
      \/ /\ peer'[c] = peer[c] \/ peer'[c] = "open"
         /\ outq'[c] = outq[c] \/ Len(outq[c]) # SockCap
  BY <1>2 DEF Environment, Dial, SendConnect, Sends, ClientSend, ClientClose,
         ClientReceives, RecvVal, RecvEof, ClientRead, Receives, ResetArrives,
         kernelVars
<1>6. Len(outq'[c]) <= Len(outq[c])
  <2>1. outq[c] \in Seq(ServerPacket) /\ Len(outq[c]) \in Nat /\ c \in DOMAIN outq
    BY <1>2
  <2>2. \/ outq' = outq
        \/ outq' = [outq EXCEPT ![c] = <<>>]
        \/ \E n \in 1 .. Len(outq[c]) :
            outq' = [outq EXCEPT ![c] = SubSeq(outq[c], n + 1, Len(outq[c]))]
    <3>1. outq[c] # <<>> => 1 \in 1 .. Len(outq[c]) /\ Len(outq[c]) \in 1 .. Len(outq[c])
      BY <2>1
    <3> QED
      BY <3>1 DEF Environment, Dial, SendConnect, Sends, ClientSend,
         ClientClose, ClientReceives, RecvVal, RecvEof, ClientRead, Receives,
         ResetArrives, kernelVars
  <2>3. ASSUME NEW n \in 1 .. Len(outq[c])
        PROVE  Len(SubSeq(outq[c], n + 1, Len(outq[c]))) <= Len(outq[c])
    BY <2>1
  <2>4. ASSUME NEW n \in 1 .. Len(outq[c]),
               outq' = [outq EXCEPT ![c] = SubSeq(outq[c], n + 1, Len(outq[c]))]
        PROVE  Len(outq'[c]) <= Len(outq[c])
    BY <2>1, <2>3, <2>4
  <2>5. CASE outq' = outq
    BY <2>1, <2>5
  <2>6. CASE outq' = [outq EXCEPT ![c] = <<>>]
    BY <2>1, <2>6
  <2> QED
    BY <2>2, <2>4, <2>5, <2>6
<1>7. \A d \in Conn : Len(outq[d]) \in Nat /\ Len(outq[d]) <= SockCap
  BY <1>2 DEF EdgeInv, SocketsBounded
<1>8. SocketsBounded'
  <2>1. Len(outq'[c]) \in Nat
    <3>1. outq' \in [Conn -> Seq(ServerPacket)]
      BY EnvironmentStep DEF IInv, TypeOK, KernelType
    <3> QED
      BY <3>1
  <2> QED
    BY <1>3, <1>6, <1>7, <2>1, BoundsAssumption DEF SocketsBounded
<1>9. NoNewInput(epollSet)
  <2> SUFFICES ASSUME NEW fd \in epollSet, Readable(fd)', fd \notin ready'
               PROVE  Readable(fd)
    BY DEF NoNewInput
  <2>1. PICK d \in Conn : sock[fd] = d /\ (inq'[d] # <<>> \/ peer'[d] # "open")
    BY <1>1 DEF Readable
  <2>2. CASE d = c
    BY <2>1, <2>2, <1>4 DEF Readable, Watching
  <2>3. CASE d # c
    BY <2>1, <2>3, <1>3 DEF Readable
  <2> QED
    BY <2>2, <2>3
<1>10. NoNewOutput(epollSet)
  <2> SUFFICES ASSUME NEW fd \in epollSet, Writable(fd)', fd \notin ready', fd \in armed
               PROVE  Writable(fd)
    BY DEF NoNewOutput
  <2>1. PICK d \in Conn :
            sock[fd] = d /\ (peer'[d] # "open" \/ Len(outq'[d]) < SockCap)
    BY <1>1 DEF Writable
  <2>2. CASE d = c
    <3>1. fd \in Watching(c) \cap armed
      BY <2>1, <2>2 DEF Watching
    <3>2. outq'[c] = outq[c] \/ Len(outq[c]) # SockCap
      BY <3>1, <1>5
    <3>3. peer'[c] = peer[c] \/ peer'[c] = "open"
      BY <3>1, <1>5
    <3>4. peer[c] # "open" \/ Len(outq[c]) < SockCap
      BY <2>1, <2>2, <3>2, <3>3, <1>7, BoundsAssumption
    <3> QED
      BY <2>1, <2>2, <3>4 DEF Writable
  <2>3. CASE d # c
    BY <2>1, <2>3, <1>3 DEF Writable
  <2> QED
    BY <2>2, <2>3
<1> QED
  BY <1>1, <1>8, <1>9, <1>10, OthersKeepEdges

-----------------------------------------------------------------------------
(***************************************************************************)
(* The log thread and the accept thread.                                   *)
(***************************************************************************)
LEMMA LogEdges ==
    ASSUME IInv, EdgeInv, LogThread
    PROVE  EdgeInv'
<1> USE DEF LogThread, kernelVars, epollVars, connVars
<1>1. NoNewInput(epollSet) /\ NoNewOutput(epollSet)
  BY SameSockets
<1>2. SocketsBounded'
  BY DEF EdgeInv, SocketsBounded
<1> QED
  BY <1>1, <1>2, OthersKeepEdges

\* accept() gives a descriptor that is not registered yet; EPOLL_CTL_ADD
\* finds what its client has sent in the meantime.
LEMMA AcceptEdges ==
    ASSUME IInv, EdgeInv, AcceptThread
    PROVE  EdgeInv'
<1>1. CASE AcceptPoll \/ AcceptFails \/ AcceptEmplace
  <2>1. UNCHANGED <<peer, sock, inq, outq, epollVars, writeBuf, mainVars>>
    BY <1>1 DEF AcceptPoll, AcceptFails, AcceptEmplace, kernelVars, connVars
  <2>2. NoNewInput(epollSet) /\ NoNewOutput(epollSet)
    BY <2>1, SameSockets
  <2>3. SocketsBounded'
    BY <2>1 DEF EdgeInv, SocketsBounded
  <2> QED
    BY <2>1, <2>2, <2>3, OthersKeepEdges DEF epollVars
<1>2. ASSUME NEW c \in Conn, Accept(c)
      PROVE  EdgeInv'
  <2>1. PICK fd \in FreeFds : sock' = [sock EXCEPT ![fd] = c]
    BY <1>2 DEF Accept
  <2>2. UNCHANGED <<peer, inq, outq, epollVars, writeBuf, mainVars>>
    BY <1>2 DEF Accept, connVars
  <2>3. \A f \in epollSet : sock'[f] = sock[f]
    <3>1. TAKE f \in epollSet
    <3>2. f \in Fd /\ sock[f] \in Conn
      BY DEF IInv, DescriptorsAgree, TypeOK, KernelType
    <3>3. f # fd
      BY <3>2, NamesAssumption DEF FreeFds
    <3> QED
      BY <2>1, <3>2, <3>3 DEF IInv, TypeOK, KernelType
  <2>4. NoNewInput(epollSet) /\ NoNewOutput(epollSet)
    BY <2>2, <2>3 DEF NoNewInput, NoNewOutput, Readable, Writable
  <2>5. SocketsBounded'
    BY <2>2 DEF EdgeInv, SocketsBounded
  <2> QED
    BY <2>2, <2>4, <2>5, OthersKeepEdges DEF epollVars
<1>3. CASE AcceptAdd
  <2> USE DEF EdgeInv
  <2>1. /\ UNCHANGED <<peer, sock, inq, outq, armed, writeBuf, mainVars>>
        /\ epollSet' = epollSet \cup {afd}
        /\ ready' = ready \cup {fd \in {afd} : Readable(fd)}
    BY <1>3 DEF AcceptAdd, kernelVars, connVars
  <2>2. afd \in Fd /\ writeBuf[afd] = <<>>
    BY <1>3 DEF AcceptAdd, IInv, DescriptorsAgree, Accepting, QuietOutside
  <2>3. \A fd \in Fd : Readable(fd)' = Readable(fd) /\ Writable(fd)' = Writable(fd)
    BY <2>1 DEF Readable, Writable
  <2>4. epollSet \subseteq Fd
    BY DEF IInv, TypeOK, KernelType
  <2>5. BatchesAgree' /\ SocketsBounded' /\ QuietOutside'
    BY <2>1 DEF BatchesAgree, Pending, Current, SocketsBounded, QuietOutside,
                mainVars
  <2>6. OutputEdge'
    BY <2>1, <2>2, <2>3, <2>4 DEF OutputEdge, Busy, mainVars
  <2>7. InputEdge'
    BY <2>1, <2>2, <2>3, <2>4 DEF InputEdge, Dropping, mainVars
  <2> QED
    BY <2>5, <2>6, <2>7
<1> QED
  BY <1>1, <1>2, <1>3 DEF AcceptThread

-----------------------------------------------------------------------------
(***************************************************************************)
(* The main thread: epoll_wait() turns edges into events.                  *)
(***************************************************************************)
LEMMA EpollWaitEdges ==
    ASSUME IInv, EdgeInv, EpollWait
    PROVE  EdgeInv'
<1> USE DEF EdgeInv
<1>1. PICK reported \in SUBSET ready :
        LET shown == {e \in {EventOf(fd) : fd \in reported} :
                        e.in \/ e.out \/ e.hup}
        IN  ready' = ready \ reported /\ Goto("loop", NoEvent, shown)
  BY DEF EpollWait
<1> DEFINE shown == {e \in {EventOf(fd) : fd \in reported} :
                        e.in \/ e.out \/ e.hup}
<1>2. pc = "wait" /\ UNCHANGED <<peer, sock, inq, outq, epollSet, armed, writeBuf>>
  BY DEF EpollWait, kernelVars, connVars
<1>3. batch = {} /\ pc' = "loop" /\ cur' = NoEvent /\ batch' = shown
  BY <1>1, <1>2 DEF BatchesAgree, Goto
<1>4. \A fd \in reported :
        /\ Readable(fd) => \E e \in shown : e.fd = fd /\ e.in
        /\ fd \in armed /\ Writable(fd) => \E e \in shown : e.fd = fd /\ e.out
  <2> TAKE fd \in reported
  <2>1. /\ EventOf(fd) \in {EventOf(f) : f \in reported}
        /\ EventOf(fd).fd = fd
        /\ EventOf(fd).in = Readable(fd)
        /\ EventOf(fd).out = (fd \in armed /\ Writable(fd))
    BY DEF EventOf
  <2> QED
    BY <2>1
<1>5. \A e \in shown : e.out => e.fd \in armed
  <2> TAKE e \in shown
  <2>1. PICK fd \in reported : e = EventOf(fd)
    OBVIOUS
  <2>2. e.fd = fd /\ e.out = (fd \in armed /\ Writable(fd))
    BY <2>1 DEF EventOf
  <2> QED
    BY <2>2
<1>6. \A fd : Readable(fd)' = Readable(fd) /\ Writable(fd)' = Writable(fd)
  BY <1>2 DEF Readable, Writable
<1> HIDE DEF shown
<1>7. BatchesAgree' /\ QuietOutside' /\ SocketsBounded'
  BY <1>2, <1>3, <1>5 DEF BatchesAgree, Pending, Current, QuietOutside,
                          SocketsBounded
<1>8. OutputEdge'
  BY <1>1, <1>2, <1>3, <1>4, <1>6 DEF OutputEdge, Busy
<1>9. InputEdge'
  BY <1>1, <1>2, <1>3, <1>4, <1>6 DEF InputEdge, Dropping
<1> QED
  BY <1>7, <1>8, <1>9

(***************************************************************************)
(* The steps that take an event e of the batch.                            *)
(***************************************************************************)
\* The input of a client is read up to the end, or the client is dropped, or
\* the event did not say that there is input.
LEMMA TakeInput ==
    ASSUME IInv, InputEdge, pc = "loop", NEW e \in batch, NEW s,
           Goto(s, e, batch \ {e}), UNCHANGED epollSet, ready \subseteq ready',
           \A fd \in epollSet : Readable(fd)' => Readable(fd),
           s = "drop" \/ ~e.in \/ ~Readable(e.fd)'
    PROVE  InputEdge'
<1>1. \A d \in batch : d.fd = e.fd => d = e
  BY DEF IInv, EventsAgree
<1>2. /\ pc' = s /\ batch' = batch \ {e}
      /\ s = "drop" => cur' = e
  BY DEF Goto
<1> QED
  BY <1>1, <1>2 DEF InputEdge, Dropping

\* A client gets output only together with an edge, or from its own event,
\* which then arms it; an event that says EPOLLOUT is not done with before
\* it is served.
GetsAnEdge(fd) == fd \in armed' /\ (Writable(fd)' => fd \in ready')
LEMMA TakeOutput ==
    ASSUME IInv, OutputEdge, pc = "loop", NEW e \in batch, NEW s,
           Goto(s, e, batch \ {e}), UNCHANGED epollSet,
           armed \subseteq armed', ready \subseteq ready',
           \A fd \in epollSet : Writable(fd)' => Writable(fd),
           \A fd \in epollSet : writeBuf'[fd] # <<>> =>
                writeBuf[fd] # <<>> \/ GetsAnEdge(fd) \/ (fd = e.fd /\ s = "arm"),
           e.out => s \notin {"wait", "loop"}
    PROVE  OutputEdge'
<1>1. \A d \in batch : d.fd = e.fd => d = e
  BY DEF IInv, EventsAgree
<1>2. /\ pc' = s /\ batch' = batch \ {e}
      /\ s \notin {"wait", "loop"} => cur' = e
  BY DEF Goto
<1>3. \A fd \in epollSet : writeBuf'[fd] # <<>> =>
        \/ pc' \notin {"wait", "loop"} /\ cur'.fd = fd
        \/ /\ fd \in armed'
           /\ Writable(fd)' => fd \in ready' \/ \E d \in batch' : d.fd = fd /\ d.out
  <2> SUFFICES ASSUME NEW fd \in epollSet, writeBuf'[fd] # <<>>,
                      ~(pc' \notin {"wait", "loop"} /\ cur'.fd = fd)
               PROVE  /\ fd \in armed'
                      /\ Writable(fd)' => \/ fd \in ready'
                                          \/ \E d \in batch' : d.fd = fd /\ d.out
    OBVIOUS
  <2>1. CASE GetsAnEdge(fd)
    BY <2>1 DEF GetsAnEdge
  <2>2. CASE ~GetsAnEdge(fd)
    <3>1. writeBuf[fd] # <<>>
      BY <2>2, <1>2
    <3>2. /\ fd \in armed
          /\ Writable(fd) => fd \in ready \/ \E d \in batch : d.fd = fd /\ d.out
      BY <3>1 DEF OutputEdge, Busy
    <3>3. \A d \in batch : d.fd = fd /\ d.out => d \in batch'
      BY <1>1, <1>2
    <3> QED
      BY <3>2, <3>3
  <2> QED
    BY <2>1, <2>2
<1> QED
  BY <1>3 DEF OutputEdge, Busy

LEMMA TakeBatches ==
    ASSUME IInv, BatchesAgree, pc = "loop", NEW e \in batch, NEW s,
           Goto(s, e, batch \ {e}), armed \subseteq armed',
           s = "wait" => batch \ {e} = {},
           s = "write" => e.out,
           s # "disarm"
    PROVE  BatchesAgree'
<1>1. /\ pc' = s /\ batch' = batch \ {e}
      /\ s \notin {"wait", "loop"} => cur' = e
  BY DEF Goto
<1>2. \A d \in Pending' : d \in batch
  BY <1>1 DEF Pending, Current
<1> QED
  BY <1>1, <1>2 DEF BatchesAgree, Pending

LEMMA HangUpEdges ==
    ASSUME IInv, EdgeInv, NEW e \in batch, HangUp(e) \/ WriteEvent(e)
    PROVE  EdgeInv'
<1> USE DEF EdgeInv
<1>1. /\ pc = "loop"
      /\ UNCHANGED <<peer, sock, inq, outq, epollSet, armed, ready, writeBuf>>
  BY DEF HangUp, WriteEvent, Handles, kernelVars, epollVars, connVars
<1>2. PICK s \in {"drop", "write"} :
        /\ Goto(s, e, batch \ {e})
        /\ s = "write" => ~e.in /\ e.out
  BY DEF HangUp, WriteEvent
<1>3. \A fd : Readable(fd)' = Readable(fd) /\ Writable(fd)' = Writable(fd)
  BY <1>1 DEF Readable, Writable
<1>4. BatchesAgree'
  BY <1>1, <1>2, TakeBatches
<1>5. InputEdge'
  BY <1>1, <1>2, <1>3, TakeInput
<1>6. OutputEdge'
  BY <1>1, <1>2, <1>3, TakeOutput
<1>7. QuietOutside' /\ SocketsBounded'
  BY <1>1 DEF QuietOutside, SocketsBounded
<1> QED
  BY <1>4, <1>5, <1>6, <1>7

LEMMA ReadClosedEdges ==
    ASSUME IInv, EdgeInv, NEW e \in batch, ReadClosed(e)
    PROVE  EdgeInv'
<1> USE DEF EdgeInv
<1>1. /\ pc = "loop" /\ Goto("drop", e, batch \ {e})
      /\ UNCHANGED <<peer, sock, outq, epollSet, armed, ready, writeBuf>>
  BY DEF ReadClosed, Handles, epollVars
<1>2. inq \in [Conn -> Seq(ClientPacket)]
  BY DEF IInv, TypeOK, KernelType
<1>3. \A c \in Conn : inq'[c] = inq[c] \/ inq'[c] = <<>>
  BY <1>2 DEF ReadClosed
<1>4. \A fd : (Readable(fd)' => Readable(fd)) /\ Writable(fd)' = Writable(fd)
  BY <1>1, <1>3 DEF Readable, Writable
<1>5. BatchesAgree'
  BY <1>1, TakeBatches
<1>6. InputEdge'
  BY <1>1, <1>4, TakeInput
<1>7. OutputEdge'
  BY <1>1, <1>4, TakeOutput
<1>8. QuietOutside' /\ SocketsBounded'
  BY <1>1 DEF QuietOutside, SocketsBounded
<1> QED
  BY <1>5, <1>6, <1>7, <1>8

\* handleRead() reads its client dry and touches no other socket.
LEMMA TakesDrains ==
    ASSUME IInv, NEW e \in batch, NEW c \in Conn, NEW p, Takes(e, c, p),
           UNCHANGED <<sock, peer, outq>>
    PROVE  /\ \A fd : Readable(fd)' => Readable(fd)
           /\ \A fd : Writable(fd)' = Writable(fd)
           /\ ~Readable(e.fd)'
<1>1. inq \in [Conn -> Seq(ClientPacket)]
  BY DEF IInv, TypeOK, KernelType
<1>2. inq' = [inq EXCEPT ![c] = <<>>] /\ sock[e.fd] = c /\ peer[c] = "open"
  BY DEF Takes
<1> QED
  BY <1>1, <1>2 DEF Readable, Writable

\* serializeToAllButSender() with the mutex: who gets its first output gets
\* an edge, and nobody outside the epoll set gets any.
LEMMA BroadcastEdges ==
    ASSUME IInv, EdgeInv, MutexFree, NEW F, F \subseteq clients,
           ArmAll(Quiet(F)), UNCHANGED <<sock, peer, outq>>, NEW p
    PROVE  /\ armed \subseteq armed' /\ ready \subseteq ready'
           /\ F \subseteq epollSet
           /\ \A fd \in Fd : AppendTo(F, p)[fd] # <<>> =>
                writeBuf[fd] # <<>> \/ (fd \in F /\ GetsAnEdge(fd))
<1>1. F \subseteq epollSet
  BY DEF IInv, DescriptorsAgree, MutexFree
<1>2. \A fd \in Quiet(F) : GetsAnEdge(fd)
  BY DEF ArmAll, GetsAnEdge, Writable
<1>3. \A fd \in Fd : AppendTo(F, p)[fd] # <<>> => writeBuf[fd] # <<>> \/ fd \in Quiet(F)
  BY DEF AppendTo, Quiet
<1> QED
  BY <1>1, <1>2, <1>3 DEF ArmAll, Quiet

\* Where handleRead() goes without arming its own client.
LEMMA AfterReadGoes ==
    ASSUME NEW e, NEW dying, NEW b
    PROVE  /\ AfterRead(e, dying, b) = "write" => e.out
           /\ AfterRead(e, dying, b) = "wait" => b = {}
           /\ AfterRead(e, dying, b) \notin {"disarm", "arm"}
           /\ e.out => AfterRead(e, dying, b) \notin {"wait", "loop"}
  BY DEF AfterRead, Resume

LEMMA RejectedEdges ==
    ASSUME IInv, EdgeInv, NEW e \in batch, ReadConnectRejected(e)
    PROVE  EdgeInv'
<1> USE DEF EdgeInv
<1>1. /\ UNCHANGED <<peer, sock, outq, epollSet, armed, ready>>
      /\ writeBuf' = AppendTo({e.fd}, ServerValidate(FALSE, {}))
  BY DEF ReadConnectRejected, epollVars
<1>2. PICK c \in Conn : Takes(e, c, Head(readBuf[e.fd] \o inq[c]))
  BY DEF ReadConnectRejected
<1> DEFINE s == IF Quiet({e.fd}) # {} THEN "arm"
                ELSE AfterRead(e, TRUE, batch \ {e})
<1>3. Goto(s, e, batch \ {e}) /\ pc = "loop"
  BY <1>2 DEF ReadConnectRejected, Takes, Handles
<1>4. /\ s = "write" => e.out
      /\ s = "wait" => batch \ {e} = {}
      /\ s # "disarm"
      /\ e.out => s \notin {"wait", "loop"}
      /\ s # "arm" => writeBuf[e.fd] # <<>>
  BY AfterReadGoes DEF Quiet
<1>5. /\ \A fd : Readable(fd)' => Readable(fd)
      /\ \A fd : Writable(fd)' = Writable(fd)
      /\ ~Readable(e.fd)'
  BY <1>1, <1>2, TakesDrains
<1>6. \A fd \in Fd : fd # e.fd => writeBuf'[fd] = writeBuf[fd]
  BY <1>1 DEF AppendTo
<1>7. e.fd \in epollSet /\ epollSet \subseteq Fd
  BY BatchClient DEF IInv, TypeOK, KernelType
<1> HIDE DEF s
<1>8. BatchesAgree'
  BY <1>1, <1>3, <1>4, TakeBatches
<1>9. InputEdge'
  BY <1>1, <1>3, <1>5, TakeInput
<1>10. OutputEdge'
  <2>1. \A fd \in epollSet : writeBuf'[fd] # <<>> =>
            writeBuf[fd] # <<>> \/ GetsAnEdge(fd) \/ (fd = e.fd /\ s = "arm")
    BY <1>4, <1>6, <1>7
  <2> QED
    BY <2>1, <1>1, <1>3, <1>4, <1>5, TakeOutput
<1>11. QuietOutside' /\ SocketsBounded'
  BY <1>1, <1>6, <1>7 DEF QuietOutside, SocketsBounded
<1> QED
  BY <1>8, <1>9, <1>10, <1>11

LEMMA AcceptedEdges ==
    ASSUME IInv, EdgeInv, NEW e \in batch, ReadConnectAccepted(e)
    PROVE  EdgeInv'
<1> USE DEF EdgeInv
<1>1. /\ UNCHANGED <<peer, sock, outq, epollSet>>
      /\ ArmAll(Quiet(Others(e.fd)))
  BY DEF ReadConnectAccepted
<1>2. PICK c \in Conn :
        LET p == Head(readBuf[e.fd] \o inq[c])
        IN  /\ Takes(e, c, p)
            /\ writeBuf' =
                [AppendTo(Others(e.fd), ServerConnect(p.user)) EXCEPT
                    ![e.fd] = @ \o <<ServerValidate(TRUE, UserList')>>
                                \o BackLog(p.since)]
  BY DEF ReadConnectAccepted
<1> DEFINE p == Head(readBuf[e.fd] \o inq[c])
           s == IF Quiet({e.fd}) # {} THEN "arm"
                ELSE AfterRead(e, FALSE, batch \ {e})
<1>3. Goto(s, e, batch \ {e}) /\ pc = "loop" /\ MutexFree
  BY <1>2 DEF ReadConnectAccepted, Takes, Handles
<1>4. /\ s = "write" => e.out
      /\ s = "wait" => batch \ {e} = {}
      /\ s # "disarm"
      /\ e.out => s \notin {"wait", "loop"}
      /\ s # "arm" => writeBuf[e.fd] # <<>>
  BY AfterReadGoes DEF Quiet
<1>5. /\ \A fd : Readable(fd)' => Readable(fd)
      /\ \A fd : Writable(fd)' = Writable(fd)
      /\ ~Readable(e.fd)'
  BY <1>1, <1>2, TakesDrains
<1>6. /\ armed \subseteq armed' /\ ready \subseteq ready'
      /\ Others(e.fd) \subseteq epollSet
      /\ \A fd \in Fd : AppendTo(Others(e.fd), ServerConnect(p.user))[fd] # <<>> =>
            writeBuf[fd] # <<>> \/ (fd \in Others(e.fd) /\ GetsAnEdge(fd))
  <2>1. Others(e.fd) \subseteq clients
    BY DEF Others
  <2> HIDE DEF p
  <2> QED
    BY <2>1, <1>1, <1>3, BroadcastEdges
<1>7. \A fd \in Fd : fd # e.fd =>
        writeBuf'[fd] = AppendTo(Others(e.fd), ServerConnect(p.user))[fd]
  BY <1>2 DEF AppendTo
<1>8. e.fd \in epollSet /\ epollSet \subseteq Fd
  BY BatchClient DEF IInv, TypeOK, KernelType
<1> HIDE DEF s, p
<1>9. BatchesAgree'
  BY <1>3, <1>4, <1>6, TakeBatches
<1>10. InputEdge'
  BY <1>1, <1>3, <1>5, <1>6, TakeInput
<1>11. OutputEdge'
  <2>1. \A fd \in epollSet : writeBuf'[fd] # <<>> =>
            writeBuf[fd] # <<>> \/ GetsAnEdge(fd) \/ (fd = e.fd /\ s = "arm")
    BY <1>4, <1>6, <1>7, <1>8
  <2> QED
    BY <2>1, <1>1, <1>3, <1>4, <1>5, <1>6, TakeOutput
<1>12. QuietOutside'
  BY <1>1, <1>6, <1>7, <1>8 DEF QuietOutside
<1>13. SocketsBounded'
  BY <1>1 DEF SocketsBounded
<1> QED
  BY <1>9, <1>10, <1>11, <1>12, <1>13

LEMMA BroadMsgEdges ==
    ASSUME IInv, EdgeInv, NEW e \in batch, ReadBroadMsg(e)
    PROVE  EdgeInv'
<1> USE DEF EdgeInv
<1> DEFINE n == username[e.fd]
           valid == valConnMsg(n, e.fd)
           others == IF valid THEN Others(e.fd) ELSE {}
           s == AfterRead(e, ~valid, batch \ {e})
<1>1. UNCHANGED <<peer, sock, outq, epollSet>>
  BY DEF ReadBroadMsg
<1>2. PICK c \in Conn :
        LET p == Head(readBuf[e.fd] \o inq[c])
        IN  /\ Takes(e, c, p)
            /\ writeBuf' = AppendTo(others, ServerBroadMsg(n, p.msg))
            /\ ArmAll(Quiet(others))
            /\ Goto(s, e, batch \ {e})
  BY DEF ReadBroadMsg
<1> DEFINE p == Head(readBuf[e.fd] \o inq[c])
<1>3. Goto(s, e, batch \ {e}) /\ pc = "loop" /\ MutexFree
  BY <1>2 DEF Takes, Handles
<1>4. /\ s = "write" => e.out
      /\ s = "wait" => batch \ {e} = {}
      /\ s # "disarm"
      /\ e.out => s \notin {"wait", "loop"}
  BY AfterReadGoes
<1>5. /\ \A fd : Readable(fd)' => Readable(fd)
      /\ \A fd : Writable(fd)' = Writable(fd)
      /\ ~Readable(e.fd)'
  BY <1>1, <1>2, TakesDrains
<1>6. /\ armed \subseteq armed' /\ ready \subseteq ready'
      /\ others \subseteq epollSet
      /\ \A fd \in Fd : writeBuf'[fd] # <<>> =>
            writeBuf[fd] # <<>> \/ (fd \in others /\ GetsAnEdge(fd))
  <2>1. others \subseteq clients /\ ArmAll(Quiet(others))
        /\ writeBuf' = AppendTo(others, ServerBroadMsg(n, p.msg))
    BY <1>2 DEF Others
  <2> HIDE DEF others, p, n
  <2> QED
    BY <2>1, <1>1, <1>3, BroadcastEdges
<1>7. epollSet \subseteq Fd
  BY DEF IInv, TypeOK, KernelType
<1> HIDE DEF s, others
<1>8. BatchesAgree'
  BY <1>3, <1>4, <1>6, TakeBatches
<1>9. InputEdge'
  BY <1>1, <1>3, <1>5, <1>6, TakeInput
<1>10. OutputEdge'
  BY <1>1, <1>3, <1>4, <1>5, <1>6, <1>7, TakeOutput
<1>11. QuietOutside' /\ SocketsBounded'
  BY <1>1, <1>6, <1>7 DEF QuietOutside, SocketsBounded
<1> QED
  BY <1>8, <1>9, <1>10, <1>11

-----------------------------------------------------------------------------
(***************************************************************************)
(* The steps that go on with the current event: no event of the batch is   *)
(* about its client.                                                       *)
(***************************************************************************)
\* Arm, in the middle of the event of a client with new output.
LEMMA ArmEdges ==
    ASSUME IInv, EdgeInv, Arm
    PROVE  EdgeInv'
<1> USE DEF EdgeInv
<1> DEFINE fd == cur.fd
           s == AfterRead(cur, fd \in markToDie, batch)
<1>1. /\ pc = "arm" /\ Goto(s, cur, batch)
      /\ UNCHANGED <<peer, sock, inq, outq, epollSet, writeBuf>>
      /\ armed' = armed \cup {fd}
      /\ ready' = ready \cup {f \in {fd} : Readable(f) \/ Writable(f)}
  BY DEF Arm, kernelVars, connVars
<1>2. /\ s = "write" => cur.out
      /\ s = "wait" => batch = {}
      /\ s # "disarm"
  BY AfterReadGoes
<1>3. /\ pc' = s /\ batch' = batch
      /\ s \notin {"wait", "loop"} => cur' = cur
  BY <1>1 DEF Goto
<1>4. \A f : Readable(f)' = Readable(f) /\ Writable(f)' = Writable(f)
  BY <1>1 DEF Readable, Writable
<1> HIDE DEF s
<1>5. BatchesAgree'
  BY <1>1, <1>2, <1>3 DEF BatchesAgree, Pending, Current
<1>6. OutputEdge'
  BY <1>1, <1>3, <1>4 DEF OutputEdge, Busy
<1>7. InputEdge'
  BY <1>1, <1>3, <1>4 DEF InputEdge, Dropping
<1>8. QuietOutside' /\ SocketsBounded'
  BY <1>1 DEF QuietOutside, SocketsBounded
<1> QED
  BY <1>5, <1>6, <1>7, <1>8

LEMMA DisarmEdges ==
    ASSUME IInv, EdgeInv, Disarm
    PROVE  EdgeInv'
<1> USE DEF EdgeInv
<1> DEFINE fd == cur.fd
<1>1. /\ pc = "disarm" /\ Goto(Resume(batch), cur, batch)
      /\ UNCHANGED <<peer, sock, inq, outq, epollSet, writeBuf>>
      /\ armed' = armed \ {fd}
      /\ ready \subseteq ready'
  BY DEF Disarm, kernelVars, connVars
<1>2. /\ pc' \in {"wait", "loop"} /\ batch' = batch
      /\ pc' = "wait" => batch = {}
  BY <1>1 DEF Goto, Resume
<1>3. \A f : Readable(f)' = Readable(f) /\ Writable(f)' = Writable(f)
  BY <1>1 DEF Readable, Writable
<1>4. \A e \in batch : e.fd # fd
  BY <1>1 DEF IInv, EventsAgree, Current
<1>5. writeBuf[fd] = <<>>
  BY <1>1 DEF BatchesAgree
<1>6. BatchesAgree'
  BY <1>1, <1>2, <1>4 DEF BatchesAgree, Pending, Current
<1>7. OutputEdge'
  BY <1>1, <1>2, <1>3, <1>5 DEF OutputEdge, Busy
<1>8. InputEdge'
  BY <1>1, <1>2, <1>3 DEF InputEdge, Dropping
<1>9. QuietOutside' /\ SocketsBounded'
  BY <1>1 DEF QuietOutside, SocketsBounded
<1> QED
  BY <1>6, <1>7, <1>8, <1>9

\* write() shortens the buffer of the current client and makes no socket
\* readable or writable.
LEMMA WriteEdges ==
    ASSUME IInv, EdgeInv, WriteSome \/ WriteToClosed
    PROVE  EdgeInv'
<1> USE DEF EdgeInv
<1> DEFINE fd == cur.fd
<1>1. /\ pc = "write" /\ fd \in Fd /\ fd \in epollSet /\ sock[fd] \in Conn
      /\ UNCHANGED <<sock, inq, epollSet, armed, ready>>
  BY CurrentClient DEF WriteSome, WriteToClosed, epollVars
<1>2. PICK rest :
        /\ writeBuf' = [writeBuf EXCEPT ![fd] = rest]
        /\ Goto(AfterWrite(fd, rest), cur, batch)
  BY DEF WriteSome, WriteToClosed
<1>3. /\ peer \in [Conn -> PeerStates] /\ outq \in [Conn -> Seq(ServerPacket)]
      /\ writeBuf \in [Fd -> Seq(ServerPacket)]
      /\ writeBuf' \in [Fd -> Seq(ServerPacket)]
      /\ outq' \in [Conn -> Seq(ServerPacket)]
  BY WriteStep DEF IInv, TypeOK, KernelType, TablesType
<1>4. /\ rest # <<>> => pc' = "write" /\ cur' = cur
      /\ rest = <<>> => pc' \in {"disarm", "wait", "loop"}
      /\ pc' = "disarm" => cur' = cur /\ rest = <<>>
      /\ pc' = "wait" => batch = {}
      /\ batch' = batch
  BY <1>2 DEF Goto, AfterWrite, Resume
<1>5. /\ writeBuf'[fd] = rest
      /\ \A f \in Fd : f # fd => writeBuf'[f] = writeBuf[f]
  BY <1>1, <1>2, <1>3
<1>6. \A c \in Conn : (peer'[c] = "open") = (peer[c] = "open")
  BY <1>3 DEF WriteSome, WriteToClosed
<1>7. \A c \in Conn : Len(outq[c]) <= Len(outq'[c]) /\ Len(outq'[c]) <= SockCap
  <2>1. CASE WriteToClosed
    BY <2>1, <1>3 DEF WriteToClosed, SocketsBounded
  <2>2. CASE WriteSome
    <3> DEFINE d == sock[fd]
               room == SockCap - Len(outq[d])
               n == Smaller(Len(writeBuf[fd]), room)
               head == SubSeq(writeBuf[fd], 1, n)
    <3>1. room > 0 /\ outq' = [outq EXCEPT ![d] = outq[d] \o head]
      BY <2>2 DEF WriteSome
    <3>2. d \in Conn /\ outq[d] \in Seq(ServerPacket) /\ writeBuf[fd] \in Seq(ServerPacket)
      BY <1>1, <1>3
    <3>3. room \in Nat /\ n \in 0 .. Len(writeBuf[fd]) /\ n <= room
      <4>1. Len(outq[d]) \in Nat /\ Len(writeBuf[fd]) \in Nat
        BY <3>2
      <4>2. room \in Nat
        <5> HIDE DEF d
        <5> QED
          BY <3>1, <4>1, BoundsAssumption
      <4> HIDE DEF room, fd
      <4> QED
        BY <4>1, <4>2 DEF Smaller
    <3>4. head \in Seq(ServerPacket) /\ Len(head) = n
      BY <3>2, <3>3
    <3>5. Len(outq[d] \o head) = Len(outq[d]) + n
      <4> HIDE DEF head, n, d
      <4>1. head \in Seq(ServerPacket) /\ outq[d] \in Seq(ServerPacket)
        BY <3>2, <3>4
      <4>2. Len(outq[d] \o head) = Len(outq[d]) + Len(head)
        BY <4>1, JoinLength
      <4> QED
        BY <3>4, <4>2
    <3>6. Len(outq'[d]) = Len(outq[d]) + n
      <4> HIDE DEF head, n, d
      <4> QED
        BY <1>3, <3>1, <3>2, <3>5
    <3>7. \A c \in Conn : c # d => outq'[c] = outq[c]
      BY <1>3, <3>1
    <3>8. \A c \in Conn : Len(outq[c]) \in Nat /\ Len(outq[c]) <= SockCap
      BY <1>3 DEF SocketsBounded
    <3>9. Len(outq[d]) + n <= SockCap
      <4> HIDE DEF n, d
      <4> QED
        BY <3>2, <3>3, <3>8, BoundsAssumption
    <3> HIDE DEF room, n, head, d
    <3> QED
      BY <3>2, <3>3, <3>6, <3>7, <3>8, <3>9, BoundsAssumption
  <2> QED
    BY <2>1, <2>2
<1>8. \A f : Readable(f)' = Readable(f)
  BY <1>1, <1>6 DEF Readable
<1>9. \A f : Writable(f)' => Writable(f)
  BY <1>1, <1>3, <1>6, <1>7, BoundsAssumption DEF Writable
<1> HIDE DEF fd
<1>10. BatchesAgree'
  BY <1>1, <1>4, <1>5 DEF BatchesAgree, Pending, Current, fd
<1>11. OutputEdge'
  <2> SUFFICES ASSUME NEW f \in epollSet, writeBuf'[f] # <<>>
               PROVE  \/ pc' \notin {"wait", "loop"} /\ cur'.fd = f
                      \/ /\ f \in armed
                         /\ Writable(f)' =>
                                f \in ready \/ \E e \in batch : e.fd = f /\ e.out
    BY <1>1, <1>4 DEF OutputEdge, Busy
  <2>1. f \in Fd
    BY DEF IInv, TypeOK, KernelType
  <2>2. CASE f = fd
    BY <2>2, <1>4, <1>5 DEF fd
  <2>3. CASE f # fd
    <3>1. writeBuf[f] # <<>> /\ ~Busy(f)
      BY <2>1, <2>3, <1>5 DEF Busy, fd
    <3> QED
      BY <3>1, <1>9 DEF OutputEdge
  <2> QED
    BY <2>2, <2>3
<1>12. InputEdge'
  <2>1. \A f : ~Dropping(f)
    BY <1>1 DEF Dropping
  <2> QED
    BY <2>1, <1>1, <1>4, <1>8 DEF InputEdge
<1>13. QuietOutside'
  BY <1>1, <1>5 DEF QuietOutside
<1>14. SocketsBounded'
  BY <1>7 DEF SocketsBounded
<1> QED
  BY <1>10, <1>11, <1>12, <1>13, <1>14

\* A client that stops at EAGAIN is armed and its socket is full; one whose
\* connection was reset is dropped.
LEMMA WriteStopsEdges ==
    ASSUME IInv, EdgeInv, WriteBlocked \/ WriteAfterReset
    PROVE  EdgeInv'
<1> USE DEF EdgeInv
<1> DEFINE fd == cur.fd
<1>1. /\ pc = "write" /\ fd \in epollSet /\ cur.out
      /\ UNCHANGED <<peer, sock, inq, outq, epollSet, armed, ready, writeBuf>>
  BY CurrentClient DEF WriteBlocked, WriteAfterReset, kernelVars, epollVars,
     connVars, BatchesAgree
<1>2. \/ pc' = "drop" /\ cur' = cur /\ batch' = batch
      \/ /\ pc' \in {"wait", "loop"} /\ batch' = batch
         /\ pc' = "wait" => batch = {}
         /\ peer[sock[fd]] = "open" /\ Len(outq[sock[fd]]) = SockCap
  BY DEF WriteBlocked, WriteAfterReset, Goto, Resume
<1>3. \A f : Readable(f)' = Readable(f) /\ Writable(f)' = Writable(f)
  BY <1>1 DEF Readable, Writable
<1>4. fd \in armed
  BY <1>1 DEF BatchesAgree, Pending, Current
<1>5. pc' # "drop" => ~Writable(fd)
  BY <1>2, BoundsAssumption DEF Writable
<1>6. BatchesAgree'
  BY <1>1, <1>2 DEF BatchesAgree, Pending, Current
<1>7. OutputEdge'
  BY <1>1, <1>2, <1>3, <1>4, <1>5 DEF OutputEdge, Busy
<1>8. InputEdge'
  BY <1>1, <1>2, <1>3 DEF InputEdge, Dropping
<1>9. QuietOutside' /\ SocketsBounded'
  BY <1>1 DEF QuietOutside, SocketsBounded
<1> QED
  BY <1>6, <1>7, <1>8, <1>9

LEMMA DropBroadcastEdges ==
    ASSUME IInv, EdgeInv, DropBroadcast
    PROVE  EdgeInv'
<1> USE DEF EdgeInv
<1> DEFINE fd == cur.fd
           p == ServerDisconnect(username[fd])
<1>1. /\ pc = "drop" /\ MutexFree /\ Goto("erase", cur, batch)
      /\ UNCHANGED <<peer, sock, inq, outq, epollSet>>
      /\ writeBuf' = AppendTo(Others(fd), p)
      /\ ArmAll(Quiet(Others(fd)))
  BY DEF DropBroadcast, kernelVars
<1>2. pc' = "erase" /\ cur' = cur /\ batch' = batch
  BY <1>1 DEF Goto
<1>3. /\ armed \subseteq armed' /\ ready \subseteq ready'
      /\ Others(fd) \subseteq epollSet
      /\ \A f \in Fd : writeBuf'[f] # <<>> =>
            writeBuf[f] # <<>> \/ (f \in Others(fd) /\ GetsAnEdge(f))
  <2>1. Others(fd) \subseteq clients
    BY DEF Others
  <2> HIDE DEF p, fd
  <2> QED
    BY <2>1, <1>1, BroadcastEdges
<1>4. \A f : Readable(f)' = Readable(f) /\ Writable(f)' = Writable(f)
  BY <1>1 DEF Readable, Writable
<1>5. epollSet \subseteq Fd
  BY DEF IInv, TypeOK, KernelType
<1>6. BatchesAgree'
  BY <1>1, <1>2, <1>3 DEF BatchesAgree, Pending, Current
<1>7. OutputEdge'
  BY <1>1, <1>2, <1>3, <1>4, <1>5 DEF OutputEdge, Busy, GetsAnEdge
<1>8. InputEdge'
  BY <1>1, <1>2, <1>3, <1>4 DEF InputEdge, Dropping
<1>9. QuietOutside' /\ SocketsBounded'
  BY <1>1, <1>3 DEF QuietOutside, SocketsBounded
<1> QED
  BY <1>6, <1>7, <1>8, <1>9

\* The descriptor leaves the epoll set with its buffers empty.
LEMMA ForgetEdges ==
    ASSUME IInv, EdgeInv, DropErase \/ DropUnregistered
    PROVE  EdgeInv'
<1> USE DEF EdgeInv
<1> DEFINE fd == cur.fd
<1>1. /\ pc \in {"drop", "erase"}
      /\ CloseFd(fd) /\ Erase(fd) /\ Goto(Resume(batch), cur, batch)
      /\ UNCHANGED <<peer, outq>>
  BY DEF DropErase, DropUnregistered, Forget
<1>2. /\ sock \in [Fd -> Conn \cup {NoConn}] /\ inq \in [Conn -> Seq(ClientPacket)]
      /\ writeBuf \in [Fd -> Seq(ServerPacket)] /\ fd \in Fd /\ epollSet \subseteq Fd
  BY <1>1, CurrentClient DEF IInv, TypeOK, KernelType, TablesType
<1>3. /\ epollSet' = epollSet \ {fd} /\ armed' = armed \ {fd} /\ ready' = ready \ {fd}
      /\ sock' = [sock EXCEPT ![fd] = NoConn]
      /\ writeBuf' = [writeBuf EXCEPT ![fd] = <<>>]
      /\ \A c \in Conn : inq'[c] = inq[c] \/ inq'[c] = <<>>
  BY <1>1 DEF CloseFd, Erase
<1>4. /\ pc' \in {"wait", "loop"} /\ batch' = batch
      /\ pc' = "wait" => batch = {}
  BY <1>1 DEF Goto, Resume
<1>5. \A e \in batch : e.fd # fd
  BY <1>1 DEF IInv, EventsAgree, Current
<1>6. \A f \in epollSet' :
        /\ f \in epollSet /\ f # fd
        /\ Readable(f)' => Readable(f)
        /\ Writable(f)' => Writable(f)
        /\ writeBuf'[f] = writeBuf[f]
  BY <1>1, <1>2, <1>3 DEF Readable, Writable
<1>7. \A f \in epollSet' : ~Busy(f) /\ ~Dropping(f)
  BY <1>6 DEF Busy, Dropping
<1> HIDE DEF fd
<1>8. BatchesAgree'
  BY <1>3, <1>4, <1>5 DEF BatchesAgree, Pending, Current
<1>9. OutputEdge'
  BY <1>3, <1>4, <1>6, <1>7 DEF OutputEdge
<1>10. InputEdge'
  BY <1>3, <1>4, <1>6, <1>7 DEF InputEdge
<1>11. QuietOutside' /\ SocketsBounded'
  BY <1>1, <1>2, <1>3 DEF QuietOutside, SocketsBounded
<1> QED
  BY <1>8, <1>9, <1>10, <1>11

-----------------------------------------------------------------------------
LEMMA NextEdges == IInv /\ EdgeInv /\ [Next]_vars => EdgeInv'
<1> SUFFICES ASSUME IInv, EdgeInv, [Next]_vars PROVE EdgeInv'
  OBVIOUS
<1>1. CASE MainThread
  <2>1. CASE EpollWait
    BY <2>1, EpollWaitEdges
  <2>2. ASSUME NEW e \in batch,
               \/ HangUp(e) \/ ReadClosed(e) \/ ReadConnectRejected(e)
               \/ ReadConnectAccepted(e) \/ ReadBroadMsg(e) \/ WriteEvent(e)
        PROVE  EdgeInv'
    BY <2>2, HangUpEdges, ReadClosedEdges, RejectedEdges, AcceptedEdges,
       BroadMsgEdges
  <2>3. CASE Arm \/ Disarm
    BY <2>3, ArmEdges, DisarmEdges
  <2>4. CASE WriteSome \/ WriteBlocked \/ WriteToClosed \/ WriteAfterReset
    BY <2>4, WriteEdges, WriteStopsEdges
  <2>5. CASE DropBroadcast
    BY <2>5, DropBroadcastEdges
  <2>6. CASE DropErase \/ DropUnregistered
    BY <2>6, ForgetEdges
  <2> QED
    BY <1>1, <2>1, <2>2, <2>3, <2>4, <2>5, <2>6 DEF MainThread
<1>2. CASE AcceptThread
  BY <1>2, AcceptEdges
<1>3. CASE LogThread
  BY <1>3, LogEdges
<1>4. ASSUME NEW c \in Conn, Environment(c)
      PROVE  EdgeInv'
  BY <1>4, EnvironmentEdges
<1>5. CASE UNCHANGED vars
  <2>1. UNCHANGED <<peer, sock, inq, outq, epollVars, writeBuf, mainVars>>
    BY <1>5 DEF vars, kernelVars, connVars
  <2>2. NoNewInput(epollSet) /\ NoNewOutput(epollSet)
    BY <2>1, SameSockets
  <2>3. SocketsBounded'
    BY <2>1 DEF EdgeInv, SocketsBounded
  <2> QED
    BY <2>1, <2>2, <2>3, OthersKeepEdges DEF epollVars
<1> QED
  BY <1>1, <1>2, <1>3, <1>4, <1>5 DEF Next

\* The strengthening holds in every reachable state.
THEOREM EdgeInvariance == Spec => []EdgeInv
<1>1. IInv /\ EdgeInv /\ [Next]_vars => EdgeInv'
  BY NextEdges
<1> QED
  BY <1>1, InitEdges, Invariance, PTL DEF Spec

\* Nothing that is buffered for a client is forgotten by the edge-triggered
\* loop (serializeToAllButSender, handleRead, handleWrite): it waits for
\* EPOLLOUT, or the main thread is about to arm, write or drop the client.
THEOREM OutputKeepsItsEdge == Spec => []OutputHasAnEdge
<1>1. IInv /\ EdgeInv => OutputHasAnEdge
  BY DEF IInv, EdgeInv, OutputEdge, OutputHasAnEdge, Busy, Current
<1> QED
  BY <1>1, Invariance, EdgeInvariance, PTL

\* Nothing a client has sent, and no end of a connection, is left in the
\* kernel without an edge: drainReadPipe() reads until EAGAIN.
THEOREM InputKeepsItsEdge == Spec => []InputHasAnEdge
<1>1. IInv /\ EdgeInv => InputHasAnEdge
  <2> SUFFICES ASSUME IInv, EdgeInv, NEW fd \in clients \cap epollSet,
                      Readable(fd), fd \notin ready
               PROVE  \E e \in Pending : e.fd = fd
    BY DEF InputHasAnEdge
  <2>1. (\E e \in batch : e.fd = fd) \/ Dropping(fd)
    BY DEF EdgeInv, InputEdge
  <2>2. Dropping(fd) => cur \in Pending /\ cur.fd = fd
    BY DEF Dropping, Pending, Current
  <2> QED
    BY <2>1, <2>2 DEF Pending
<1> QED
  BY <1>1, Invariance, EdgeInvariance, PTL

\* A connection in the backlog is left without the edge of the listening socket
\* only where accept() finds no descriptor free (acceptLoop): the accept thread
\* takes all connections that wait before it waits for another edge, and a dial
\* that meets it at work is another edge.
THEOREM BacklogEdgeIsSpentByFullTable == Spec => BacklogKeepsItsEdge
<1> DEFINE Kept == backlog # {} /\ (lready \/ apc # "poll") =>
                    \/ backlog' = {} \/ lready' \/ apc' # "poll"
                    \/ FreeFds = {}
<1>1. [Next]_vars => Kept
  <2> SUFFICES ASSUME [Next]_vars, backlog # {}, lready \/ apc # "poll",
                      FreeFds # {}
               PROVE  lready' \/ apc' # "poll"
    OBVIOUS
  <2>1. CASE MainThread
    <3>1. CASE EpollWait
      BY <3>1 DEF EpollWait, kernelVars, acceptVars
    <3>2. ASSUME NEW e \in batch,
                 \/ HangUp(e) \/ ReadClosed(e) \/ ReadConnectRejected(e)
                 \/ ReadConnectAccepted(e) \/ ReadBroadMsg(e) \/ WriteEvent(e)
          PROVE  UNCHANGED <<lready, apc>>
      <4>1. CASE HangUp(e) \/ WriteEvent(e)
        BY <4>1 DEF HangUp, WriteEvent, kernelVars, acceptVars
      <4>2. CASE ReadClosed(e)
        BY <4>2 DEF ReadClosed, acceptVars
      <4>3. CASE ReadConnectRejected(e)
        BY <4>3 DEF ReadConnectRejected, acceptVars
      <4>4. CASE ReadConnectAccepted(e)
        <5>1. UNCHANGED <<peer, backlog, lready, sock, outq, epollSet, clients,
                          markToDie, logVars, acceptVars, clientVars>>
          BY <4>4, Zenon DEF ReadConnectAccepted
        <5> QED
          BY <5>1 DEF acceptVars
      <4>5. CASE ReadBroadMsg(e)
        BY <4>5 DEF ReadBroadMsg, acceptVars
      <4> QED
        BY <3>2, <4>1, <4>2, <4>3, <4>4, <4>5
    <3>3. CASE Arm \/ WriteBlocked \/ WriteAfterReset
      BY <3>3 DEF Arm, WriteBlocked, WriteAfterReset, kernelVars, acceptVars
    <3>4. CASE WriteSome \/ WriteToClosed
      <4>1. CASE WriteSome
        BY <4>1 DEF WriteSome, acceptVars
      <4>2. CASE WriteToClosed
        BY <4>2 DEF WriteToClosed, acceptVars
      <4> QED
        BY <3>4, <4>1, <4>2
    <3>5. CASE Disarm \/ DropBroadcast \/ DropErase \/ DropUnregistered
      BY <3>5 DEF Disarm, DropBroadcast, DropErase, DropUnregistered,
                  kernelVars, acceptVars
    <3> QED
      BY <2>1, <3>1, <3>2, <3>3, <3>4, <3>5 DEF MainThread
  <2>2. CASE AcceptPoll \/ AcceptEmplace \/ AcceptAdd
    BY <2>2 DEF AcceptPoll, AcceptEmplace, AcceptAdd
  <2>3. CASE AcceptFails
    BY <2>3 DEF AcceptFails
  <2>4. ASSUME NEW c \in Conn, Accept(c)
        PROVE  apc' # "poll"
    BY <2>4 DEF Accept
  <2>5. CASE LogThread
    BY <2>5 DEF LogThread, kernelVars, acceptVars
  <2>6. ASSUME NEW c \in Conn, Environment(c)
        PROVE  lready' \/ apc' # "poll"
    <3>1. CASE Dial(c)
      BY <3>1 DEF Dial
    <3>2. CASE ~Dial(c)
      <4>1. UNCHANGED <<lready, apc>>
        BY <2>6, <3>2 DEF Environment, SendConnect, ClientSend, ClientClose,
                          ClientReceives, RecvVal, RecvEof, ClientRead,
                          ResetArrives, kernelVars, acceptVars
      <4> QED
        BY <4>1
    <3> QED
      BY <3>1, <3>2
  <2>7. CASE UNCHANGED vars
    BY <2>7 DEF vars, kernelVars, acceptVars
  <2> QED
    BY <2>1, <2>2, <2>3, <2>4, <2>5, <2>6, <2>7 DEF Next, AcceptThread
<1>2. [Next]_vars => [Kept]_vars
  BY <1>1
<1> QED
  BY <1>2, PTL DEF Spec, BacklogKeepsItsEdge
=============================================================================
