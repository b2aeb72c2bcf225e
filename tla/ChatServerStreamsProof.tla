------------------------ MODULE ChatServerStreamsProof ------------------------
(***************************************************************************)
(* What the server writes to its clients: who is answered and who is       *)
(* refused, and the lists of users the answers, the joins and the leaves   *)
(* add up to, for any number of connections, names and descriptors.        *)
(***************************************************************************)
EXTENDS ChatServerProof, SequenceTheorems, FiniteSetTheorems

Named(fd) == username[fd] # NoName
NoAnswer(s) == \A i \in 1 .. Len(s) : s[i].op # "SMG_VALIDATE"
Silent(s) == \A i \in 1 .. Len(s) : s[i].op # "CMG_BROADMSG"

\* A connection the server has not accepted has seen nothing of it.
Fresh(c) ==
    /\ inbox[c] = <<>> /\ outq[c] = <<>> /\ Silent(inq[c])
    /\ cst[c] # "chat" /\ \A fd \in Fd : sock[fd] # c
    /\ cst[c] = "idle" => c \notin backlog
NewAreFresh == \A c \in Conn : c \in backlog \/ cst[c] = "idle" => Fresh(c)

\* No two descriptors refer to one connection.
OneDescriptor ==
    \A f, g \in Fd : sock[f] = sock[g] /\ sock[f] # NoConn => f = g

\* A client without a name has been sent no answer, but for the refusal in
\* its buffer, and so it sends no message: only a client that was told yes
\* speaks.
Unanswered(c) ==
    NoAnswer(inbox[c]) /\ NoAnswer(outq[c]) /\ Silent(inq[c]) /\ cst[c] # "chat"
UnnamedAreSilent ==
    \A fd \in Fd : ~Named(fd) =>
        /\ fd \in markToDie \/ NoAnswer(writeBuf[fd])
        /\ Silent(readBuf[fd])
        /\ \A c \in Conn : sock[fd] = c => Unanswered(c)

\* Only the current client is marked, from its refusal to its end.
Refused(fd) ==
    writeBuf[fd] # <<>> /\ writeBuf[fd][Len(writeBuf[fd])] = ServerValidate(FALSE, {})
MarksRefused ==
    \A fd \in markToDie :
        pc \in {"arm", "drop", "erase"} /\ cur.fd = fd /\ Refused(fd) /\ ~Named(fd)

AnswerInv ==
    /\ NewAreFresh
    /\ OneDescriptor
    /\ UnnamedAreSilent
    /\ MarksRefused

-----------------------------------------------------------------------------
(***************************************************************************)
(* Sequences of packets without an answer, or without a message.           *)
(***************************************************************************)
LEMMA NoAnswerJoin ==
    ASSUME NEW S, NEW s \in Seq(S), NEW t \in Seq(S)
    PROVE  NoAnswer(s \o t) <=> NoAnswer(s) /\ NoAnswer(t)
<1>1. Len(s) \in Nat /\ Len(t) \in Nat /\ Len(s \o t) = Len(s) + Len(t)
  OBVIOUS
<1>2. \A i \in 1 .. Len(s) : (s \o t)[i] = s[i] /\ i \in 1 .. Len(s \o t)
  BY <1>1
<1>3. \A i \in 1 .. Len(t) :
        (s \o t)[Len(s) + i] = t[i] /\ Len(s) + i \in 1 .. Len(s \o t)
  BY <1>1
<1>4. \A i \in 1 .. Len(s \o t) :
        i \in 1 .. Len(s) \/ \E j \in 1 .. Len(t) : i = Len(s) + j
  <2> TAKE i \in 1 .. Len(s \o t)
  <2>1. i > Len(s) => i - Len(s) \in 1 .. Len(t) /\ i = Len(s) + (i - Len(s))
    BY <1>1
  <2> QED
    BY <2>1, <1>1
<1>5. NoAnswer(s \o t) => NoAnswer(s) /\ NoAnswer(t)
  <2> SUFFICES ASSUME NoAnswer(s \o t) PROVE NoAnswer(s) /\ NoAnswer(t)
    OBVIOUS
  <2>1. \A i \in 1 .. Len(s) : (s \o t)[i].op # "SMG_VALIDATE"
    BY <1>2 DEF NoAnswer
  <2>2. \A i \in 1 .. Len(t) : (s \o t)[Len(s) + i].op # "SMG_VALIDATE"
    BY <1>3 DEF NoAnswer
  <2> QED
    BY <2>1, <2>2, <1>2, <1>3 DEF NoAnswer
<1>6. NoAnswer(s) /\ NoAnswer(t) => NoAnswer(s \o t)
  <2> SUFFICES ASSUME NoAnswer(s), NoAnswer(t), NEW i \in 1 .. Len(s \o t)
               PROVE  (s \o t)[i].op # "SMG_VALIDATE"
    BY DEF NoAnswer
  <2>1. CASE i \in 1 .. Len(s)
    BY <2>1, <1>2 DEF NoAnswer
  <2>2. ASSUME NEW j \in 1 .. Len(t), i = Len(s) + j
        PROVE  (s \o t)[i].op # "SMG_VALIDATE"
    BY <2>2, <1>3 DEF NoAnswer
  <2> QED
    BY <2>1, <2>2, <1>4
<1> QED
  BY <1>5, <1>6

LEMMA NoAnswerAppend ==
    ASSUME NEW S, NEW s \in Seq(S), NEW p \in S, NoAnswer(s), p.op # "SMG_VALIDATE"
    PROVE  NoAnswer(Append(s, p))
  BY DEF NoAnswer

LEMMA NoAnswerCut ==
    ASSUME NEW S, NEW s \in Seq(S), NEW m \in Nat \ {0}, NEW n \in 0 .. Len(s),
           NoAnswer(s)
    PROVE  NoAnswer(SubSeq(s, m, n))
<1>1. \A i \in 1 .. Len(SubSeq(s, m, n)) :
        SubSeq(s, m, n)[i] = s[m + i - 1] /\ m + i - 1 \in 1 .. Len(s)
  OBVIOUS
<1> QED
  BY <1>1 DEF NoAnswer

\* What handleRead() leaves of two silent sequences.
LEMMA SilentTail ==
    ASSUME NEW S, NEW s \in Seq(S), NEW t \in Seq(S), s \o t # <<>>,
           Silent(s), Silent(t)
    PROVE  /\ Head(s \o t).op # "CMG_BROADMSG"
           /\ Silent(Tail(s \o t))
           /\ Silent(s \o t)
<1> DEFINE u == s \o t
<1>1. /\ u \in Seq(S) /\ Len(u) = Len(s) + Len(t)
      /\ Len(s) \in Nat /\ Len(t) \in Nat
  OBVIOUS
<1>2. Silent(u)
  <2> SUFFICES ASSUME NEW i \in 1 .. Len(u) PROVE u[i].op # "CMG_BROADMSG"
    BY DEF Silent
  <2>1. CASE i <= Len(s)
    <3>1. i \in 1 .. Len(s) /\ u[i] = s[i]
      BY <2>1, <1>1
    <3> QED
      BY <3>1 DEF Silent
  <2>2. CASE i > Len(s)
    <3>1. i - Len(s) \in 1 .. Len(t) /\ u[i] = t[i - Len(s)]
      BY <2>2, <1>1
    <3> QED
      BY <3>1 DEF Silent
  <2> QED
    BY <2>1, <2>2, <1>1
<1> HIDE DEF u
<1>3. Head(u) = u[1] /\ 1 \in 1 .. Len(u)
  BY <1>1, EmptySeq DEF u
<1>4. \A i \in 1 .. Len(Tail(u)) : Tail(u)[i] = u[i + 1] /\ i + 1 \in 1 .. Len(u)
  BY <1>1, HeadTailProperties DEF u
<1> QED
  BY <1>2, <1>3, <1>4 DEF Silent, u

\* Two silent sequences that are joined without a packet taken.
LEMMA SilentJoin ==
    ASSUME NEW S, NEW s \in Seq(S), NEW t \in Seq(S), Silent(s), Silent(t)
    PROVE  Silent(s \o t)
<1>1. CASE s \o t = <<>>
  BY <1>1 DEF Silent
<1>2. CASE s \o t # <<>>
  BY <1>2, SilentTail
<1> QED
  BY <1>1, <1>2

-----------------------------------------------------------------------------
(***************************************************************************)
(* AnswerInv is inductive.                                                 *)
(***************************************************************************)
LEMMA InitAnswers == Init => AnswerInv
<1> SUFFICES ASSUME Init PROVE AnswerInv
  OBVIOUS
<1> USE NamesAssumption DEF Init
<1>1. NewAreFresh
  BY DEF NewAreFresh, Fresh, Silent
<1>2. OneDescriptor /\ MarksRefused
  BY DEF OneDescriptor, MarksRefused
<1>3. UnnamedAreSilent
  BY DEF UnnamedAreSilent, Unanswered, NoAnswer, Silent
<1> QED
  BY <1>1, <1>2, <1>3 DEF AnswerInv

LEMMA NoMarks ==
    ASSUME MarksRefused, pc \notin {"arm", "drop", "erase"}
    PROVE  markToDie = {}
  BY DEF MarksRefused

\* A step that moves no packet and gives nobody a name or a mark.
LEMMA KeepAnswers ==
    ASSUME AnswerInv,
           UNCHANGED <<backlog, sock, inq, outq, username, readBuf, writeBuf,
                       markToDie, cst, inbox>>,
           \A fd \in markToDie : pc' \in {"arm", "drop", "erase"} /\ cur'.fd = fd
    PROVE  AnswerInv'
  BY DEF AnswerInv, NewAreFresh, OneDescriptor, UnnamedAreSilent, MarksRefused,
         Refused, Named, Fresh, Unanswered

\* The steps that only move the threads on.
LEMMA MovingAnswers ==
    ASSUME IInv, AnswerInv,
           \/ EpollWait \/ LogThread \/ AcceptPoll \/ AcceptFails
           \/ AcceptEmplace \/ AcceptAdd
           \/ Arm \/ Disarm \/ WriteBlocked \/ WriteAfterReset
           \/ UNCHANGED vars
           \/ \E e \in batch : HangUp(e) \/ WriteEvent(e)
    PROVE  AnswerInv'
<1>1. UNCHANGED <<backlog, sock, inq, outq, username, readBuf, writeBuf,
                  markToDie, cst, inbox>>
  BY DEF EpollWait, LogThread, AcceptPoll, AcceptFails, AcceptEmplace,
         AcceptAdd, Arm, Disarm, WriteBlocked, WriteAfterReset, vars, HangUp,
         WriteEvent, kernelVars, connVars, clientVars
<1>2. \/ markToDie = {}
      \/ Arm
      \/ UNCHANGED <<pc, cur>>
  BY NoMarks DEF EpollWait, LogThread, AcceptPoll, AcceptFails, AcceptEmplace,
     AcceptAdd, Disarm, WriteBlocked, WriteAfterReset, HangUp,
     WriteEvent, Handles, mainVars, AnswerInv, vars
<1>3. CASE Arm
  <2>1. \A fd \in markToDie : fd = cur.fd
    BY DEF AnswerInv, MarksRefused
  <2>2. cur.fd \in markToDie => pc' = "drop" /\ cur' = cur
    BY <1>3 DEF Arm, Goto, AfterRead
  <2> QED
    BY <1>1, <2>1, <2>2, KeepAnswers
<1>4. \A fd \in markToDie : pc \in {"arm", "drop", "erase"} /\ cur.fd = fd
  BY DEF AnswerInv, MarksRefused
<1> QED
  BY <1>1, <1>2, <1>3, <1>4, KeepAnswers

\* What a client does is about its own connection, and a connection without
\* an answer has none after it.
LEMMA EnvironmentFacts ==
    ASSUME IInv, AnswerInv, NEW c \in Conn, Environment(c)
    PROVE  /\ UNCHANGED <<sock, username, readBuf, writeBuf, markToDie, pc, cur>>
           /\ \A d \in Conn \ {c} :
                /\ inq'[d] = inq[d] /\ outq'[d] = outq[d] /\ inbox'[d] = inbox[d]
                /\ cst'[d] = cst[d] /\ (d \in backlog' <=> d \in backlog)
           /\ c \in backlog' \/ cst'[c] = "idle" => Fresh(c)'
           /\ Unanswered(c) => Unanswered(c)'
<1> USE DEF Environment, Dial, SendConnect, Sends, ClientSend, ClientClose,
            ClientReceives, RecvVal, RecvEof, ClientRead, Receives, ResetArrives,
            kernelVars, clientVars
<1>1. UNCHANGED <<sock, username, readBuf, writeBuf, markToDie, pc, cur>>
  BY DEF connVars, mainVars
<1>2. /\ inq \in [Conn -> Seq(ClientPacket)] /\ outq \in [Conn -> Seq(ServerPacket)]
      /\ cst \in [Conn -> ClientStates] /\ inbox \in [Conn -> Seq(ServerPacket)]
  BY DEF IInv, TypeOK, KernelType, ClientsType
<1>3. \A d \in Conn \ {c} :
        /\ inq'[d] = inq[d] /\ outq'[d] = outq[d] /\ inbox'[d] = inbox[d]
        /\ cst'[d] = cst[d] /\ (d \in backlog' <=> d \in backlog)
  BY <1>2
<1>4. c \in backlog \/ cst[c] = "idle" =>
        /\ inbox[c] = <<>> /\ outq[c] = <<>> /\ Silent(inq[c])
        /\ cst[c] # "chat" /\ \A fd \in Fd : sock[fd] # c
        /\ cst[c] = "idle" => c \notin backlog
  BY DEF AnswerInv, NewAreFresh, Fresh
<1>5. Silent(inq'[c]) \/ cst[c] = "chat" \/ ~Silent(inq[c])
  <2>1. CASE SendConnect(c)
    <3> DEFINE p == ClientConnect(NameOf[c], SinceOf[c])
    <3>1. inq'[c] = inq[c] \/ inq'[c] = Append(inq[c], p)
      BY <2>1, <1>2
    <3>2. p.op = "CMG_CONNECT" /\ inq[c] \in Seq(ClientPacket)
      BY <1>2 DEF ClientConnect
    <3> HIDE DEF p
    <3>3. Silent(inq[c]) => Silent(Append(inq[c], p))
      BY <3>2 DEF Silent
    <3> QED
      BY <3>1, <3>3
  <2>2. CASE ~SendConnect(c) /\ ~ClientSend(c)
    BY <2>2
  <2>3. CASE ClientSend(c)
    BY <2>3
  <2> QED
    BY <2>1, <2>2, <2>3
<1>6. NoAnswer(outq[c]) =>
        /\ NoAnswer(outq'[c])
        /\ NoAnswer(inbox[c]) /\ cst[c] # "chat" =>
            NoAnswer(inbox'[c]) /\ cst'[c] # "chat"
  <2> SUFFICES ASSUME NoAnswer(outq[c])
               PROVE  /\ NoAnswer(outq'[c])
                      /\ NoAnswer(inbox[c]) /\ cst[c] # "chat" =>
                            NoAnswer(inbox'[c]) /\ cst'[c] # "chat"
    OBVIOUS
  <2>1. NoAnswer(<<>>)
    BY DEF NoAnswer
  <2>2. CASE RecvVal(c)
    <3>1. /\ outq[c] \in Seq(ServerPacket) /\ outq[c] # <<>>
          /\ inbox[c] \in Seq(ServerPacket)
      BY <2>2, <1>2
    <3>2. /\ Head(outq[c]) = outq[c][1] /\ 1 \in 1 .. Len(outq[c])
          /\ Head(outq[c]) \in ServerPacket
      BY <3>1
    <3>3. Head(outq[c]).op # "SMG_VALIDATE"
      BY <3>2 DEF NoAnswer
    <3>4. /\ outq'[c] = <<>> /\ inbox'[c] = Append(inbox[c], Head(outq[c]))
          /\ cst'[c] = "dead"
      BY <2>2, <3>3, <1>2
    <3> QED
      BY <2>1, <3>1, <3>2, <3>3, <3>4, NoAnswerAppend
  <2>3. CASE ClientRead(c)
    <3>1. outq[c] \in Seq(ServerPacket) /\ cst[c] = "chat"
      BY <2>3, <1>2
    <3>2. outq'[c] = SubSeq(outq[c], Len(outq[c]) + 1, Len(outq[c]))
      BY <2>3, <1>2
    <3>3. NoAnswer(outq'[c])
      BY <3>1, <3>2, NoAnswerCut
    <3> QED
      BY <3>1, <3>3
  <2>4. CASE ~RecvVal(c) /\ ~ClientRead(c)
    <3>1. outq'[c] = outq[c] \/ outq'[c] = <<>>
      BY <2>4, <1>2
    <3>2. inbox' = inbox /\ (cst'[c] = cst[c] \/ cst'[c] # "chat")
      BY <2>4, <1>2
    <3> QED
      BY <2>1, <3>1, <3>2
  <2> QED
    BY <2>2, <2>3, <2>4
<1>7. c \in backlog' \/ cst'[c] = "idle" =>
        /\ inbox'[c] = <<>> /\ outq'[c] = <<>> /\ Silent(inq'[c])
        /\ cst'[c] # "chat" /\ \A fd \in Fd : sock'[fd] # c
        /\ cst'[c] = "idle" => c \notin backlog'
  <2> SUFFICES ASSUME c \in backlog' \/ cst'[c] = "idle"
               PROVE  /\ inbox'[c] = <<>> /\ outq'[c] = <<>> /\ Silent(inq'[c])
                      /\ cst'[c] # "chat" /\ \A fd \in Fd : sock'[fd] # c
                      /\ cst'[c] = "idle" => c \notin backlog'
    OBVIOUS
  <2>1. c \in backlog \/ cst[c] = "idle"
    BY <1>2 DEF ClientStates
  <2>2. inbox[c] = <<>> /\ outq[c] = <<>> /\ cst[c] # "chat"
    BY <2>1, <1>4
  <2>3. inbox'[c] = <<>> /\ outq'[c] = <<>> /\ cst'[c] # "chat"
    BY <2>2, <1>2
  <2>4. cst'[c] = "idle" => cst[c] = "idle" /\ backlog' = backlog
    BY <1>2
  <2> QED
    BY <2>1, <2>2, <2>3, <2>4, <1>1, <1>4, <1>5
<1>8. Unanswered(c) => Unanswered(c)'
  BY <1>5, <1>6 DEF Unanswered
<1>9. c \in backlog' \/ cst'[c] = "idle" => Fresh(c)'
  BY <1>7 DEF Fresh
<1> QED
  BY <1>1, <1>3, <1>8, <1>9

LEMMA EnvironmentAnswers ==
    ASSUME IInv, AnswerInv, NEW c \in Conn, Environment(c)
    PROVE  AnswerInv'
<1>1. UNCHANGED <<sock, username, readBuf, writeBuf, markToDie, pc, cur>>
  BY EnvironmentFacts
<1>2. \A d \in Conn \ {c} :
        /\ inq'[d] = inq[d] /\ outq'[d] = outq[d] /\ inbox'[d] = inbox[d]
        /\ cst'[d] = cst[d] /\ (d \in backlog' <=> d \in backlog)
  BY EnvironmentFacts
<1>3. c \in backlog' \/ cst'[c] = "idle" => Fresh(c)'
  BY EnvironmentFacts
<1>4. Unanswered(c) => Unanswered(c)'
  BY EnvironmentFacts
<1>5. NewAreFresh'
  BY <1>1, <1>2, <1>3 DEF AnswerInv, NewAreFresh, Fresh
<1>6. UnnamedAreSilent'
  <2> SUFFICES ASSUME NEW fd \in Fd, ~Named(fd), NEW d \in Conn, sock[fd] = d
               PROVE  Unanswered(d)'
    BY <1>1 DEF AnswerInv, UnnamedAreSilent, Named, Unanswered
  <2>1. Unanswered(d)
    BY DEF AnswerInv, UnnamedAreSilent, Unanswered
  <2> QED
    BY <2>1, <1>2, <1>4 DEF Unanswered
<1>7. OneDescriptor' /\ MarksRefused'
  BY <1>1 DEF AnswerInv, OneDescriptor, MarksRefused, Refused, Named
<1> QED
  BY <1>5, <1>6, <1>7 DEF AnswerInv

LEMMA AcceptAnswers ==
    ASSUME IInv, EdgeInv, AnswerInv, NEW c \in Conn, Accept(c)
    PROVE  AnswerInv'
<1>1. PICK fd \in FreeFds : sock' = [sock EXCEPT ![fd] = c] /\ backlog' = backlog \ {c}
  BY DEF Accept
<1>2. UNCHANGED <<inq, outq, username, readBuf, writeBuf, markToDie, cst, inbox, pc, cur>>
  BY DEF Accept, connVars, mainVars, clientVars
<1>3. sock \in [Fd -> Conn \cup {NoConn}] /\ fd \in Fd
  BY DEF IInv, TypeOK, KernelType, FreeFds
<1>4. Fresh(c) /\ c \in backlog /\ cst[c] # "idle"
  BY DEF Accept, AnswerInv, NewAreFresh, Fresh
<1>5. NewAreFresh'
  BY <1>1, <1>2, <1>3, <1>4 DEF AnswerInv, NewAreFresh, Fresh
<1>6. OneDescriptor'
  BY <1>1, <1>3, <1>4 DEF AnswerInv, OneDescriptor, Fresh
<1>7. UnnamedAreSilent'
  <2>1. Unanswered(c)
    BY <1>4 DEF Fresh, Unanswered, NoAnswer
  <2> QED
    BY <2>1, <1>1, <1>2, <1>3 DEF AnswerInv, UnnamedAreSilent, Unanswered, Named
<1>8. MarksRefused'
  BY <1>2 DEF AnswerInv, MarksRefused, Refused, Named
<1> QED
  BY <1>5, <1>6, <1>7, <1>8 DEF AnswerInv

\* Reading a client dry: what is left of a silent client is silent, and the
\* buffers of those without a name get no answer unless they are marked.
LEMMA ReadingAnswers ==
    ASSUME IInv, AnswerInv, NEW e \in batch, NEW rest,
           readBuf' = [readBuf EXCEPT ![e.fd] = rest],
           inq' = [inq EXCEPT ![sock[e.fd]] = <<>>],
           UNCHANGED <<backlog, sock, outq, cst, inbox>>,
           \A fd \in Fd : ~Named(fd)' => ~Named(fd),
           ~Named(e.fd)' => Silent(rest),
           \A fd \in Fd : ~Named(fd)' => fd \in markToDie' \/ NoAnswer(writeBuf'[fd]),
           MarksRefused'
    PROVE  AnswerInv'
<1>1. e.fd \in Fd /\ sock[e.fd] \in Conn
  BY BatchClient
<1>2. /\ readBuf \in [Fd -> Seq(ClientPacket)] /\ inq \in [Conn -> Seq(ClientPacket)]
  BY DEF IInv, TypeOK, KernelType, TablesType
<1>3. \A c \in Conn : Silent(inq[c]) => Silent(inq'[c])
  BY <1>1, <1>2 DEF Silent
<1>4. \A fd \in Fd : ~Named(fd)' => Silent(readBuf[fd])
  BY DEF AnswerInv, UnnamedAreSilent
<1>5. \A fd \in Fd : ~Named(fd)' => Silent(readBuf'[fd])
  BY <1>1, <1>2, <1>4
<1>6. NewAreFresh'
  BY <1>3 DEF AnswerInv, NewAreFresh, Fresh
<1>7. UnnamedAreSilent'
  <2>1. \A c \in Conn : Unanswered(c) => Unanswered(c)'
    BY <1>3 DEF Unanswered
  <2>2. \A fd \in Fd : ~Named(fd)' =>
            \A c \in Conn : sock[fd] = c => Unanswered(c)
    BY DEF AnswerInv, UnnamedAreSilent
  <2> QED
    BY <2>1, <2>2, <1>5 DEF UnnamedAreSilent
<1>8. OneDescriptor'
  BY DEF AnswerInv, OneDescriptor
<1> QED
  BY <1>6, <1>7, <1>8 DEF AnswerInv

\* The client of e, when it has no name, has sent no message.
LEMMA UnnamedReads ==
    ASSUME IInv, AnswerInv, NEW e \in batch, ~Named(e.fd)
    PROVE  Silent(readBuf[e.fd]) /\ Silent(inq[sock[e.fd]])
  BY BatchClient DEF AnswerInv, UnnamedAreSilent, Unanswered

LEMMA TakesAnswers ==
    ASSUME IInv, AnswerInv, NEW e \in batch, NEW c \in Conn,
           Takes(e, c, Head(readBuf[e.fd] \o inq[c]))
    PROVE  /\ c = sock[e.fd] /\ pc = "loop" /\ markToDie = {}
           /\ readBuf' = [readBuf EXCEPT ![e.fd] = Tail(readBuf[e.fd] \o inq[c])]
           /\ inq' = [inq EXCEPT ![sock[e.fd]] = <<>>]
           /\ ~Named(e.fd) =>
                /\ Silent(Tail(readBuf[e.fd] \o inq[c]))
                /\ Head(readBuf[e.fd] \o inq[c]).op # "CMG_BROADMSG"
<1>1. /\ readBuf \in [Fd -> Seq(ClientPacket)] /\ inq \in [Conn -> Seq(ClientPacket)]
      /\ e.fd \in Fd
  BY BatchClient DEF IInv, TypeOK, KernelType, TablesType
<1>2. c = sock[e.fd] /\ pc = "loop" /\ readBuf[e.fd] \o inq[c] # <<>>
  BY DEF Takes, Handles
<1>3. markToDie = {}
  BY <1>2, NoMarks DEF AnswerInv
<1>4. ~Named(e.fd) =>
        /\ Silent(Tail(readBuf[e.fd] \o inq[c]))
        /\ Head(readBuf[e.fd] \o inq[c]).op # "CMG_BROADMSG"
  <2>1. readBuf[e.fd] \in Seq(ClientPacket) /\ inq[c] \in Seq(ClientPacket)
    BY <1>1
  <2> QED
    BY <2>1, <1>2, UnnamedReads, SilentTail
<1> QED
  BY <1>2, <1>3, <1>4 DEF Takes

\* A message comes from a client that holds its name.
LEMMA SpeakerIsValid ==
    ASSUME IInv, AnswerInv, NEW e \in batch, NEW c \in Conn,
           Takes(e, c, Head(readBuf[e.fd] \o inq[c])),
           Head(readBuf[e.fd] \o inq[c]).op = "CMG_BROADMSG"
    PROVE  valConnMsg(username[e.fd], e.fd) /\ username[e.fd] \in Name
<1>1. Named(e.fd)
  BY TakesAnswers
<1>2. e.fd \in Fd /\ e.fd \in clients
  BY BatchClient
<1> QED
  BY <1>1, <1>2 DEF Named, valConnMsg, IInv, RegistryAgrees, Registered, TypeOK,
     TablesType

\* A broadcast of anything but an answer.
LEMMA BroadcastAnswers ==
    ASSUME IInv, NEW F, NEW p \in ServerPacket, p.op # "SMG_VALIDATE"
    PROVE  \A fd \in Fd : NoAnswer(writeBuf[fd]) => NoAnswer(AppendTo(F, p)[fd])
<1>1. writeBuf \in [Fd -> Seq(ServerPacket)]
  BY DEF IInv, TypeOK, TablesType
<1> TAKE fd \in Fd
<1>2. NoAnswer(writeBuf[fd]) => NoAnswer(Append(writeBuf[fd], p))
  <2>1. writeBuf[fd] \in Seq(ServerPacket)
    BY <1>1
  <2> QED
    BY <2>1, NoAnswerAppend
<1> QED
  BY <1>2 DEF AppendTo

LEMMA ReadClosedAnswers ==
    ASSUME IInv, AnswerInv, NEW e \in batch, ReadClosed(e)
    PROVE  AnswerInv'
<1>1. PICK c \in Conn :
        /\ sock[e.fd] = c
        /\ readBuf' = [readBuf EXCEPT ![e.fd] = readBuf[e.fd] \o inq[c]]
        /\ inq' = [inq EXCEPT ![c] = <<>>]
  BY DEF ReadClosed
<1> DEFINE rest == readBuf[e.fd] \o inq[c]
<1>2. /\ UNCHANGED <<backlog, sock, outq, cst, inbox, username, writeBuf, markToDie>>
      /\ pc = "loop"
  BY DEF ReadClosed, Handles, clientVars
<1>3. markToDie = {}
  BY <1>2, NoMarks DEF AnswerInv
<1>4. ~Named(e.fd) => Silent(rest)
  <2>1. readBuf[e.fd] \in Seq(ClientPacket) /\ inq[c] \in Seq(ClientPacket)
    BY BatchClient DEF IInv, TypeOK, KernelType, TablesType
  <2> QED
    BY <2>1, <1>1, UnnamedReads, SilentJoin
<1> HIDE DEF rest
<1>5. readBuf' = [readBuf EXCEPT ![e.fd] = rest] /\ inq' = [inq EXCEPT ![sock[e.fd]] = <<>>]
  BY <1>1 DEF rest
<1>6. \A fd : Named(fd)' = Named(fd)
  BY <1>2 DEF Named
<1>7. \A fd \in Fd : ~Named(fd) => fd \in markToDie \/ NoAnswer(writeBuf[fd])
  BY DEF AnswerInv, UnnamedAreSilent
<1>8. MarksRefused'
  BY <1>2, <1>3 DEF MarksRefused
<1> QED
  BY <1>2, <1>4, <1>5, <1>6, <1>7, <1>8, ReadingAnswers

\* The refusal is the last of the output, and marks the client.
LEMMA RejectedAnswers ==
    ASSUME IInv, AnswerInv, NEW e \in batch, ReadConnectRejected(e)
    PROVE  AnswerInv'
<1> DEFINE refusal == ServerValidate(FALSE, {})
<1>1. PICK c \in Conn :
        /\ Takes(e, c, Head(readBuf[e.fd] \o inq[c]))
        /\ Head(readBuf[e.fd] \o inq[c]).op = "CMG_CONNECT"
  BY DEF ReadConnectRejected
<1> DEFINE rest == Tail(readBuf[e.fd] \o inq[c])
<1>2. /\ UNCHANGED <<backlog, sock, outq, cst, inbox, username>>
      /\ writeBuf' = AppendTo({e.fd}, refusal)
      /\ markToDie' = markToDie \cup {e.fd}
  BY DEF ReadConnectRejected, clientVars
<1>3. /\ markToDie = {} /\ pc = "loop" /\ c = sock[e.fd]
      /\ readBuf' = [readBuf EXCEPT ![e.fd] = rest]
      /\ inq' = [inq EXCEPT ![sock[e.fd]] = <<>>]
      /\ ~Named(e.fd) => Silent(rest)
  BY <1>1, TakesAnswers
<1>4. \A fd : Named(fd)' = Named(fd)
  BY <1>2 DEF Named
<1>5. \A fd \in Fd : ~Named(fd) => fd \in markToDie' \/ NoAnswer(writeBuf'[fd])
  <2>1. \A fd \in Fd : fd # e.fd => writeBuf'[fd] = writeBuf[fd]
    BY <1>2 DEF AppendTo
  <2> QED
    BY <2>1, <1>2, <1>3 DEF AnswerInv, UnnamedAreSilent
<1>6. MarksRefused'
  <2>1. writeBuf[e.fd] \in Seq(ServerPacket) /\ e.fd \in Fd
    BY BatchClient DEF IInv, TypeOK, TablesType
  <2>2. writeBuf'[e.fd] = Append(writeBuf[e.fd], refusal)
    BY <1>2, <2>1 DEF AppendTo
  <2>3. Refused(e.fd)'
    <3>1. refusal \in ServerPacket
      BY PacketTypes
    <3>2. /\ Append(writeBuf[e.fd], refusal) # <<>>
          /\ Append(writeBuf[e.fd], refusal)
                [Len(Append(writeBuf[e.fd], refusal))] = refusal
      <4> HIDE DEF refusal
      <4> QED
        BY <2>1, <3>1
    <3> QED
      BY <2>2, <3>2 DEF Refused
  <2>4. pc' \in {"arm", "drop"} /\ cur' = e
    BY DEF ReadConnectRejected, Goto, AfterRead
  <2>5. ~Named(e.fd)'
    <3>1. username[e.fd] = NoName
      BY <1>1, TakesFacts
    <3> QED
      BY <3>1, <1>2 DEF Named
  <2> QED
    BY <2>3, <2>4, <2>5, <1>2, <1>3 DEF MarksRefused
<1> HIDE DEF rest, refusal
<1> QED
  BY <1>2, <1>3, <1>4, <1>5, <1>6, ReadingAnswers

\* A client that is told yes has its name from then on.
LEMMA AcceptedAnswers ==
    ASSUME IInv, AnswerInv, NEW e \in batch, ReadConnectAccepted(e)
    PROVE  AnswerInv'
<1>1. PICK c \in Conn :
        LET p == Head(readBuf[e.fd] \o inq[c])
        IN  /\ Takes(e, c, p)
            /\ p.op = "CMG_CONNECT"
            /\ username' = [username EXCEPT ![e.fd] = p.user]
            /\ writeBuf' =
                [AppendTo(Others(e.fd), ServerConnect(p.user)) EXCEPT
                    ![e.fd] = @ \o <<ServerValidate(TRUE, UserList')>>
                                \o BackLog(p.since)]
  BY DEF ReadConnectAccepted
<1> DEFINE p == Head(readBuf[e.fd] \o inq[c])
           rest == Tail(readBuf[e.fd] \o inq[c])
<1>2. UNCHANGED <<backlog, sock, outq, cst, inbox, markToDie>>
  BY DEF ReadConnectAccepted, clientVars
<1>3. /\ markToDie = {} /\ pc = "loop" /\ c = sock[e.fd]
      /\ readBuf' = [readBuf EXCEPT ![e.fd] = rest]
      /\ inq' = [inq EXCEPT ![sock[e.fd]] = <<>>]
  BY <1>1, TakesAnswers
<1>4. p.user \in Name
  <2>1. p \in ClientPacket /\ p.op = "CMG_CONNECT"
    BY <1>1, TakesFacts
  <2> QED
    BY <2>1 DEF ClientPacket
<1>5. e.fd \in Fd /\ username \in [Fd -> Name \cup {NoName}]
  BY BatchClient DEF IInv, TypeOK, TablesType
<1>6. Named(e.fd)' /\ \A fd \in Fd : fd # e.fd => Named(fd)' = Named(fd)
  BY <1>1, <1>4, <1>5, NamesAssumption DEF Named
<1>7. \A fd \in Fd : ~Named(fd)' => fd \in markToDie' \/ NoAnswer(writeBuf'[fd])
  <2> SUFFICES ASSUME NEW fd \in Fd, fd # e.fd, ~Named(fd)
               PROVE  NoAnswer(writeBuf'[fd])
    BY <1>6
  <2>1. NoAnswer(writeBuf[fd])
    BY <1>3 DEF AnswerInv, UnnamedAreSilent
  <2>2. ServerConnect(p.user) \in ServerPacket /\ ServerConnect(p.user).op # "SMG_VALIDATE"
    BY <1>4, PacketTypes DEF ServerConnect
  <2>3. writeBuf'[fd] = AppendTo(Others(e.fd), ServerConnect(p.user))[fd]
    BY <1>1 DEF AppendTo
  <2>4. NoAnswer(AppendTo(Others(e.fd), ServerConnect(p.user))[fd])
    <3> DEFINE q == ServerConnect(p.user)
    <3>1. q \in ServerPacket /\ q.op # "SMG_VALIDATE"
      BY <2>2
    <3> HIDE DEF q, p
    <3>2. NoAnswer(AppendTo(Others(e.fd), q)[fd])
      BY <2>1, <3>1, BroadcastAnswers
    <3> QED
      BY <3>2 DEF q
  <2> QED
    BY <2>3, <2>4
<1>8. MarksRefused'
  BY <1>2, <1>3 DEF MarksRefused
<1> HIDE DEF rest, p
<1> QED
  BY <1>2, <1>3, <1>5, <1>6, <1>7, <1>8, ReadingAnswers

LEMMA BroadMsgAnswers ==
    ASSUME IInv, AnswerInv, NEW e \in batch, ReadBroadMsg(e)
    PROVE  AnswerInv'
<1> DEFINE n == username[e.fd]
<1>1. PICK c \in Conn :
        LET p == Head(readBuf[e.fd] \o inq[c])
            valid == valConnMsg(n, e.fd)
        IN  /\ Takes(e, c, p)
            /\ p.op = "CMG_BROADMSG"
            /\ writeBuf' = AppendTo(IF valid THEN Others(e.fd) ELSE {},
                                    ServerBroadMsg(n, p.msg))
            /\ markToDie' = IF valid THEN markToDie ELSE markToDie \cup {e.fd}
  BY DEF ReadBroadMsg
<1> DEFINE p == Head(readBuf[e.fd] \o inq[c])
           rest == Tail(readBuf[e.fd] \o inq[c])
<1>2. UNCHANGED <<backlog, sock, outq, cst, inbox, username>>
  BY DEF ReadBroadMsg, clientVars
<1>3. /\ markToDie = {} /\ pc = "loop" /\ c = sock[e.fd]
      /\ readBuf' = [readBuf EXCEPT ![e.fd] = rest]
      /\ inq' = [inq EXCEPT ![sock[e.fd]] = <<>>]
      /\ Named(e.fd)
  BY <1>1, TakesAnswers
<1>4. valConnMsg(n, e.fd) /\ n \in Name
  BY <1>1, SpeakerIsValid
<1>5. markToDie' = markToDie /\ writeBuf' = AppendTo(Others(e.fd), ServerBroadMsg(n, p.msg))
  BY <1>1, <1>4
<1>6. p.msg \in Message
  <2>1. p \in ClientPacket /\ p.op = "CMG_BROADMSG"
    BY <1>1, TakesFacts
  <2> QED
    BY <2>1 DEF ClientPacket
<1>7. \A fd : Named(fd)' = Named(fd)
  BY <1>2 DEF Named
<1>8. \A fd \in Fd : ~Named(fd) => fd \in markToDie' \/ NoAnswer(writeBuf'[fd])
  <2> SUFFICES ASSUME NEW fd \in Fd, ~Named(fd)
               PROVE  NoAnswer(writeBuf'[fd])
    OBVIOUS
  <2>1. NoAnswer(writeBuf[fd])
    BY <1>3 DEF AnswerInv, UnnamedAreSilent
  <2> DEFINE q == ServerBroadMsg(n, p.msg)
  <2>2. q \in ServerPacket /\ q.op # "SMG_VALIDATE"
    BY <1>4, <1>6, PacketTypes DEF ServerBroadMsg
  <2>3. writeBuf' = AppendTo(Others(e.fd), q)
    BY <1>5
  <2> HIDE DEF q
  <2> QED
    BY <2>1, <2>2, <2>3, BroadcastAnswers
<1>9. MarksRefused'
  BY <1>3, <1>5 DEF MarksRefused
<1> HIDE DEF rest, p
<1> QED
  BY <1>2, <1>3, <1>7, <1>8, <1>9, ReadingAnswers

\* write() moves a part of the buffer, of a client that is not marked.
LEMMA WriteAnswers ==
    ASSUME IInv, AnswerInv, WriteSome \/ WriteToClosed
    PROVE  AnswerInv'
<1> DEFINE fd == cur.fd
           c == sock[fd]
           b == writeBuf[fd]
<1>1. /\ UNCHANGED <<backlog, sock, inq, username, readBuf, markToDie, cst, inbox>>
      /\ pc = "write"
  BY DEF WriteSome, WriteToClosed, clientVars
<1>2. /\ fd \in Fd /\ c \in Conn /\ b \in Seq(ServerPacket)
      /\ writeBuf \in [Fd -> Seq(ServerPacket)] /\ outq \in [Conn -> Seq(ServerPacket)]
  BY <1>1, CurrentClient DEF IInv, TypeOK, KernelType, TablesType
<1>3. PICK n \in 0 .. Len(b) :
        /\ writeBuf' = [writeBuf EXCEPT ![fd] = SubSeq(b, n + 1, Len(b))]
        /\ \/ outq' = outq
           \/ outq' = [outq EXCEPT ![c] = outq[c] \o SubSeq(b, 1, n)]
  <2>1. CASE WriteSome
    <3> DEFINE room == SockCap - Len(outq[c])
               n == Smaller(Len(b), room)
    <3>1. /\ room > 0
          /\ writeBuf' = [writeBuf EXCEPT ![fd] = SubSeq(b, n + 1, Len(b))]
          /\ outq' = [outq EXCEPT ![c] = outq[c] \o SubSeq(b, 1, n)]
      BY <2>1 DEF WriteSome
    <3>2. n \in 0 .. Len(b)
      <4>1. Len(outq[c]) \in Nat /\ Len(b) \in Nat
        BY <1>2
      <4>2. room \in Nat
        <5> HIDE DEF c
        <5> QED
          BY <3>1, <4>1, BoundsAssumption
      <4> HIDE DEF room, b
      <4> QED
        BY <4>1, <4>2 DEF Smaller
    <3> HIDE DEF n
    <3> QED
      BY <3>1, <3>2
  <2>2. CASE WriteToClosed
    <3> DEFINE n == Smaller(Len(b), SockCap)
    <3>1. /\ writeBuf' = [writeBuf EXCEPT ![fd] = SubSeq(b, n + 1, Len(b))]
          /\ outq' = outq
      BY <2>2 DEF WriteToClosed
    <3>2. n \in 0 .. Len(b)
      <4>1. Len(b) \in Nat
        BY <1>2
      <4> HIDE DEF b
      <4> QED
        BY <4>1, BoundsAssumption DEF Smaller
    <3> HIDE DEF n
    <3> QED
      BY <3>1, <3>2
  <2> QED
    BY <2>1, <2>2
<1>4. markToDie = {}
  BY <1>1, NoMarks DEF AnswerInv
<1> HIDE DEF b, c, fd
<1>5. NoAnswer(b) => NoAnswer(SubSeq(b, n + 1, Len(b))) /\ NoAnswer(SubSeq(b, 1, n))
  <2>1. n \in Nat /\ n + 1 \in Nat \ {0} /\ 1 \in Nat \ {0} /\ Len(b) \in 0 .. Len(b)
    BY <1>2, <1>3
  <2> QED
    BY <2>1, <1>2, <1>3, NoAnswerCut
<1>6. \A f \in Fd : NoAnswer(writeBuf[f]) => NoAnswer(writeBuf'[f])
  BY <1>2, <1>3, <1>5 DEF b
<1>7. NoAnswer(b) /\ NoAnswer(outq[c]) => NoAnswer(outq'[c])
  <2>1. SubSeq(b, 1, n) \in Seq(ServerPacket) /\ outq[c] \in Seq(ServerPacket)
    BY <1>2, <1>3
  <2>2. NoAnswer(b) /\ NoAnswer(outq[c]) => NoAnswer(outq[c] \o SubSeq(b, 1, n))
    BY <2>1, <1>5, NoAnswerJoin
  <2> QED
    BY <2>2, <1>2, <1>3
<1>8. \A d \in Conn : d # c => outq'[d] = outq[d]
  BY <1>2, <1>3
<1>9. NewAreFresh'
  <2>1. \A d \in Conn : d \in backlog \/ cst[d] = "idle" => d # c
    BY <1>2 DEF AnswerInv, NewAreFresh, Fresh, c
  <2> QED
    BY <2>1, <1>1, <1>8 DEF AnswerInv, NewAreFresh, Fresh
<1>10. UnnamedAreSilent'
  <2> SUFFICES ASSUME NEW f \in Fd, ~Named(f)
               PROVE  /\ NoAnswer(writeBuf'[f])
                      /\ \A d \in Conn : sock[f] = d => NoAnswer(outq'[d])
    BY <1>1 DEF AnswerInv, UnnamedAreSilent, Unanswered, Named
  <2>1. /\ NoAnswer(writeBuf[f])
        /\ \A d \in Conn : sock[f] = d => NoAnswer(outq[d])
    BY <1>4 DEF AnswerInv, UnnamedAreSilent, Unanswered
  <2>2. ASSUME NEW d \in Conn, sock[f] = d
        PROVE  NoAnswer(outq'[d])
    <3>1. CASE d = c
      <4>1. f = fd
        BY <1>2, <2>2, <3>1, NamesAssumption DEF AnswerInv, OneDescriptor, c
      <4> QED
        BY <4>1, <2>1, <2>2, <3>1, <1>7 DEF b
    <3>2. CASE d # c
      BY <2>1, <2>2, <3>2, <1>8
    <3> QED
      BY <3>1, <3>2
  <2> QED
    BY <2>1, <2>2, <1>6
<1>11. OneDescriptor' /\ MarksRefused'
  BY <1>1, <1>4 DEF AnswerInv, OneDescriptor, MarksRefused
<1> QED
  BY <1>9, <1>10, <1>11 DEF AnswerInv

LEMMA DropBroadcastAnswers ==
    ASSUME IInv, AnswerInv, DropBroadcast
    PROVE  AnswerInv'
<1> DEFINE fd == cur.fd
           p == ServerDisconnect(username[fd])
<1>1. /\ UNCHANGED <<backlog, sock, inq, outq, username, readBuf, markToDie, cst, inbox>>
      /\ pc = "drop" /\ pc' = "erase" /\ cur' = cur
      /\ writeBuf' = AppendTo(Others(fd), p)
  BY DEF DropBroadcast, Goto, kernelVars, clientVars
<1>2. p \in ServerPacket /\ p.op # "SMG_VALIDATE"
  <2>1. username[fd] \in Name
    BY <1>1, CurrentClient DEF DropBroadcast, Announced, IInv, TypeOK, TablesType
  <2> QED
    BY <2>1, PacketTypes DEF ServerDisconnect
<1> HIDE DEF p
<1>3. \A f \in Fd : NoAnswer(writeBuf[f]) => NoAnswer(writeBuf'[f])
  BY <1>1, <1>2, BroadcastAnswers
<1>4. UnnamedAreSilent'
  BY <1>1, <1>3 DEF AnswerInv, UnnamedAreSilent, Unanswered, Named
<1>5. MarksRefused'
  <2>1. \A f \in markToDie : f = fd
    BY DEF AnswerInv, MarksRefused
  <2>2. fd \in markToDie => writeBuf'[fd] = writeBuf[fd]
    <3>1. fd \in Fd /\ fd \notin Others(fd)
      BY <1>1, CurrentClient DEF Others
    <3> QED
      BY <3>1, <1>1 DEF AppendTo
  <2> QED
    BY <2>1, <2>2, <1>1 DEF AnswerInv, MarksRefused, Refused, Named
<1>6. NewAreFresh' /\ OneDescriptor'
  BY <1>1 DEF AnswerInv, NewAreFresh, Fresh, OneDescriptor
<1> QED
  BY <1>4, <1>5, <1>6 DEF AnswerInv

\* The descriptor is given back with nothing of the client left.
LEMMA ForgetAnswers ==
    ASSUME IInv, AnswerInv, DropErase \/ DropUnregistered
    PROVE  AnswerInv'
<1> DEFINE fd == cur.fd
<1>1. /\ pc \in {"drop", "erase"} /\ CloseFd(fd) /\ Erase(fd)
      /\ UNCHANGED <<backlog, outq, cst, inbox>>
  BY DEF DropErase, DropUnregistered, Forget, clientVars
<1>2. /\ sock \in [Fd -> Conn \cup {NoConn}] /\ inq \in [Conn -> Seq(ClientPacket)]
      /\ writeBuf \in [Fd -> Seq(ServerPacket)] /\ fd \in Fd
      /\ readBuf \in [Fd -> Seq(ClientPacket)]
      /\ username \in [Fd -> Name \cup {NoName}]
  BY <1>1, CurrentClient DEF IInv, TypeOK, KernelType, TablesType
<1>3. /\ sock' = [sock EXCEPT ![fd] = NoConn]
      /\ writeBuf' = [writeBuf EXCEPT ![fd] = <<>>]
      /\ readBuf' = [readBuf EXCEPT ![fd] = <<>>]
      /\ username' = [username EXCEPT ![fd] = NoName]
      /\ markToDie' = markToDie \ {fd}
      /\ \A c \in Conn : inq'[c] = inq[c] \/ inq'[c] = <<>>
  BY <1>1 DEF CloseFd, Erase
<1> HIDE DEF fd
<1>4. \A c \in Conn : Silent(inq[c]) => Silent(inq'[c])
  BY <1>3 DEF Silent
<1>5. \A c \in Conn : Unanswered(c) => Unanswered(c)'
  BY <1>1, <1>4 DEF Unanswered
<1>6. NewAreFresh'
  BY <1>1, <1>2, <1>3, <1>4, NamesAssumption DEF AnswerInv, NewAreFresh, Fresh
<1>7. OneDescriptor'
  BY <1>2, <1>3 DEF AnswerInv, OneDescriptor
<1>8. UnnamedAreSilent'
  <2> SUFFICES ASSUME NEW f \in Fd, ~Named(f)'
               PROVE  /\ f \in markToDie' \/ NoAnswer(writeBuf'[f])
                      /\ Silent(readBuf'[f])
                      /\ \A c \in Conn : sock'[f] = c => Unanswered(c)'
    BY DEF UnnamedAreSilent
  <2>1. CASE f = fd
    BY <2>1, <1>2, <1>3, NamesAssumption DEF NoAnswer, Silent
  <2>2. CASE f # fd
    <3>1. /\ ~Named(f) /\ sock'[f] = sock[f] /\ writeBuf'[f] = writeBuf[f]
          /\ readBuf'[f] = readBuf[f] /\ (f \in markToDie => f \in markToDie')
      BY <2>2, <1>2, <1>3 DEF Named
    <3> QED
      BY <3>1, <1>5 DEF AnswerInv, UnnamedAreSilent
  <2> QED
    BY <2>1, <2>2
<1>9. MarksRefused'
  <2>1. \A f \in markToDie : f = fd
    BY DEF AnswerInv, MarksRefused, fd
  <2> QED
    BY <2>1, <1>3 DEF MarksRefused
<1> QED
  BY <1>6, <1>7, <1>8, <1>9 DEF AnswerInv

LEMMA NextAnswers == IInv /\ EdgeInv /\ AnswerInv /\ [Next]_vars => AnswerInv'
<1> SUFFICES ASSUME IInv, EdgeInv, AnswerInv, [Next]_vars PROVE AnswerInv'
  OBVIOUS
<1>1. CASE MainThread
  <2>1. CASE EpollWait
    BY <2>1, MovingAnswers
  <2>2. ASSUME NEW e \in batch, HangUp(e) \/ WriteEvent(e)
        PROVE  AnswerInv'
    BY <2>2, MovingAnswers
  <2>3. ASSUME NEW e \in batch,
               \/ ReadClosed(e) \/ ReadConnectRejected(e)
               \/ ReadConnectAccepted(e) \/ ReadBroadMsg(e)
        PROVE  AnswerInv'
    BY <2>3, ReadClosedAnswers, RejectedAnswers, AcceptedAnswers, BroadMsgAnswers
  <2>4. CASE Arm \/ Disarm \/ WriteBlocked \/ WriteAfterReset
    BY <2>4, MovingAnswers
  <2>5. CASE WriteSome \/ WriteToClosed
    BY <2>5, WriteAnswers
  <2>6. CASE DropBroadcast \/ DropErase \/ DropUnregistered
    BY <2>6, DropBroadcastAnswers, ForgetAnswers
  <2> QED
    BY <1>1, <2>1, <2>2, <2>3, <2>4, <2>5, <2>6 DEF MainThread
<1>2. CASE AcceptThread
  <2>1. CASE AcceptPoll \/ AcceptFails \/ AcceptEmplace \/ AcceptAdd
    BY <2>1, MovingAnswers
  <2>2. ASSUME NEW c \in Conn, Accept(c)
        PROVE  AnswerInv'
    BY <2>2, AcceptAnswers
  <2> QED
    BY <1>2, <2>1, <2>2 DEF AcceptThread
<1>3. CASE LogThread
  BY <1>3, MovingAnswers
<1>4. ASSUME NEW c \in Conn, Environment(c)
      PROVE  AnswerInv'
  BY <1>4, EnvironmentAnswers
<1>5. CASE UNCHANGED vars
  BY <1>5, MovingAnswers
<1> QED
  BY <1>1, <1>2, <1>3, <1>4, <1>5 DEF Next

THEOREM AnswerInvariance == Spec => []AnswerInv
<1>1. IInv /\ EdgeInv /\ AnswerInv /\ [Next]_vars => AnswerInv'
  BY NextAnswers
<1> QED
  BY <1>1, InitAnswers, Invariance, EdgeInvariance, PTL DEF Spec

\* clientBroadMsg() never marks a client (servUtils.cpp: valConnMsg), so
\* markToDie holds the refused clients only, each with the refusal last.
THEOREM MarkedAreRefused == Spec => []OnlyRefusedMarked
<1>1. AnswerInv => OnlyRefusedMarked
  BY DEF AnswerInv, MarksRefused, Refused, OnlyRefusedMarked
<1> QED
  BY <1>1, AnswerInvariance, PTL

-----------------------------------------------------------------------------
(***************************************************************************)
(* The lists of users.                                                     *)
(***************************************************************************)
\* The packets of s from the answer at place a on that say n is in, or out.
InsOf(s, a, n) == {i \in a .. Len(s) : SaysIn(s[i], n)}
OutsOf(s, a, n) == {i \in a .. Len(s) : SaysOut(s[i], n)}

\* s holds one answer, and no name is listed twice.
OneList(s) ==
    \E a \in 1 .. Len(s) :
        /\ Answers(s) = {a}
        /\ \A n \in Name : \A i, k \in InsOf(s, a, n) :
            i < k => \E j \in OutsOf(s, a, n) : i < j /\ j < k

\* ... and the names it leaves listed are those in U.
ListIs(s, U) ==
    \A a \in Answers(s) : \A n \in Name :
        n \in U <=> \E i \in InsOf(s, a, n) : \A j \in OutsOf(s, a, n) : j < i

\* The users the others have been told of.
InRoom == UserList \ (IF pc = "erase" THEN {username[cur.fd]} ELSE {})

ListsKept ==
    \A fd \in clients : Named(fd) /\ peer[sock[fd]] = "open" =>
        /\ OneList(Stream(fd))
        /\ pc # "erase" \/ cur.fd # fd => ListIs(Stream(fd), InRoom)

-----------------------------------------------------------------------------
(***************************************************************************)
(* Lists grow at their end.                                                *)
(***************************************************************************)
\* No packet says of a name both that it is in and that it is out.
LEMMA InOrOut ==
    ASSUME NEW p, NEW n, SaysIn(p, n)
    PROVE  ~SaysOut(p, n)
  BY DEF SaysIn, SaysOut

\* Packet p is put behind s, whose answer is at place a.
LEMMA GrowAtEnd ==
    ASSUME NEW s \in Seq(ServerPacket), NEW p \in ServerPacket,
           p.op # "SMG_VALIDATE", NEW a \in 1 .. Len(s), Answers(s) = {a}
    PROVE  /\ Len(s) \in Nat /\ Len(Append(s, p)) = Len(s) + 1
           /\ Answers(Append(s, p)) = {a} /\ a \in 1 .. Len(Append(s, p))
           /\ \A n : /\ InsOf(Append(s, p), a, n) = InsOf(s, a, n) \cup
                            {i \in {Len(s) + 1} : SaysIn(p, n)}
                     /\ OutsOf(Append(s, p), a, n) = OutsOf(s, a, n) \cup
                            {i \in {Len(s) + 1} : SaysOut(p, n)}
<1> DEFINE t == Append(s, p)
<1>1. /\ Len(s) \in Nat /\ Len(t) = Len(s) + 1 /\ DOMAIN t = 1 .. Len(s) + 1
      /\ DOMAIN s = 1 .. Len(s)
      /\ t[Len(s) + 1] = p
      /\ \A i \in 1 .. Len(s) : t[i] = s[i]
  OBVIOUS
<1> HIDE DEF t
<1>2. Answers(t) = {a}
  BY <1>1 DEF Answers
<1>3. \A i : i \in a .. Len(t) <=> i \in a .. Len(s) \/ i = Len(s) + 1
  BY <1>1
<1>4. \A i \in a .. Len(s) : t[i] = s[i]
  BY <1>1
<1>5. ASSUME NEW n
      PROVE  /\ InsOf(t, a, n) = InsOf(s, a, n) \cup {i \in {Len(s) + 1} : SaysIn(p, n)}
             /\ OutsOf(t, a, n) = OutsOf(s, a, n) \cup {i \in {Len(s) + 1} : SaysOut(p, n)}
  BY <1>1, <1>3, <1>4 DEF InsOf, OutsOf
<1> QED
  BY <1>1, <1>2, <1>5 DEF t

\* A join of a name that is not listed, the leave of a name and a message
\* keep the list in order, and change it by that name.
LEMMA GrowList ==
    ASSUME NEW s \in Seq(ServerPacket), NEW p \in ServerPacket, NEW U, NEW V,
           OneList(s), ListIs(s, U), p.op # "SMG_VALIDATE",
           \A n \in Name :
                /\ SaysIn(p, n) => n \notin U
                /\ n \in V <=> SaysIn(p, n) \/ (n \in U /\ ~SaysOut(p, n))
    PROVE  OneList(Append(s, p)) /\ ListIs(Append(s, p), V)
<1>1. PICK a \in 1 .. Len(s) :
        /\ Answers(s) = {a}
        /\ \A n \in Name : \A i, k \in InsOf(s, a, n) :
            i < k => \E j \in OutsOf(s, a, n) : i < j /\ j < k
  BY DEF OneList
<1> DEFINE t == Append(s, p)
           m == Len(s) + 1
<1>2. /\ Answers(t) = {a} /\ a \in 1 .. Len(t) /\ Len(s) \in Nat
      /\ \A n : /\ InsOf(t, a, n) = InsOf(s, a, n) \cup {i \in {m} : SaysIn(p, n)}
                /\ OutsOf(t, a, n) = OutsOf(s, a, n) \cup {i \in {m} : SaysOut(p, n)}
  BY <1>1, GrowAtEnd
<1> HIDE DEF t
<1>3. \A n : \A i \in InsOf(s, a, n) \cup OutsOf(s, a, n) : i \in Nat /\ i < m
  BY <1>2 DEF InsOf, OutsOf
<1>4. \A n \in Name :
        n \in U <=> \E i \in InsOf(s, a, n) : \A j \in OutsOf(s, a, n) : j < i
  BY <1>1 DEF ListIs
<1>5. \A n : \A i \in InsOf(s, a, n) : i \notin OutsOf(s, a, n)
  BY InOrOut DEF InsOf, OutsOf
<1>6. m \in Nat
  BY <1>2
<1> HIDE DEF m
<1>7. ASSUME NEW n \in Name
      PROVE  /\ n \in V <=> \E i \in InsOf(t, a, n) : \A j \in OutsOf(t, a, n) : j < i
             /\ \A i, k \in InsOf(t, a, n) :
                    i < k => \E j \in OutsOf(t, a, n) : i < j /\ j < k
  <2>1. CASE SaysIn(p, n)
    <3>1. InsOf(t, a, n) = InsOf(s, a, n) \cup {m} /\ OutsOf(t, a, n) = OutsOf(s, a, n)
      BY <2>1, <1>2, InOrOut
    <3>2. \A i \in InsOf(s, a, n) : \E j \in OutsOf(s, a, n) : i < j /\ j < m
      <4>1. n \notin U
        BY <2>1
      <4>2. TAKE i \in InsOf(s, a, n)
      <4>3. PICK j \in OutsOf(s, a, n) : ~(j < i)
        BY <4>1, <1>4
      <4>4. i # j /\ i \in Nat /\ j \in Nat /\ j < m
        BY <1>3, <1>5
      <4> QED
        BY <4>3, <4>4
    <3>3. \A i, k \in InsOf(t, a, n) :
            i < k => \E j \in OutsOf(t, a, n) : i < j /\ j < k
      BY <3>1, <3>2, <1>1, <1>3, <1>6
    <3>4. \A j \in OutsOf(t, a, n) : j < m
      BY <3>1, <1>3
    <3> QED
      BY <2>1, <3>1, <3>3, <3>4
  <2>2. CASE ~SaysIn(p, n) /\ SaysOut(p, n)
    <3>1. InsOf(t, a, n) = InsOf(s, a, n) /\ OutsOf(t, a, n) = OutsOf(s, a, n) \cup {m}
      BY <2>2, <1>2
    <3>2. \A i, k \in InsOf(t, a, n) :
            i < k => \E j \in OutsOf(t, a, n) : i < j /\ j < k
      BY <3>1, <1>1
    <3>3. \A i \in InsOf(t, a, n) : ~(m < i)
      BY <3>1, <1>3, <1>6
    <3> QED
      BY <2>2, <3>1, <3>2, <3>3
  <2>3. CASE ~SaysIn(p, n) /\ ~SaysOut(p, n)
    <3>1. InsOf(t, a, n) = InsOf(s, a, n) /\ OutsOf(t, a, n) = OutsOf(s, a, n)
      BY <2>3, <1>2
    <3> QED
      BY <2>3, <3>1, <1>1, <1>4
  <2> QED
    BY <2>1, <2>2, <2>3
<1> QED
  BY <1>2, <1>7 DEF OneList, ListIs, t

\* The answer v lists its users, whatever was sent before it and whichever
\* messages are replayed behind it.
LEMMA NewList ==
    ASSUME NEW s \in Seq(ServerPacket), NoAnswer(s),
           NEW v \in ServerPacket, v.op = "SMG_VALIDATE",
           NEW r \in Seq(ServerPacket),
           \A i \in 1 .. Len(r) : r[i].op = "SMG_BROADMSG",
           NEW t \in Seq(ServerPacket), t = (s \o <<v>>) \o r
    PROVE  OneList(t) /\ ListIs(t, v.users)
<1> DEFINE a == Len(s) + 1
<1>1. /\ Len(s) \in Nat /\ Len(r) \in Nat /\ a \in Nat
      /\ Len(t) = a + Len(r) /\ DOMAIN t = 1 .. Len(t)
  OBVIOUS
<1>2. t[a] = v /\ a \in 1 .. Len(t)
  OBVIOUS
<1>3. \A i \in 1 .. Len(s) : t[i] = s[i]
  OBVIOUS
<1>4. \A i \in a + 1 .. Len(t) : i - a \in 1 .. Len(r) /\ t[i] = r[i - a]
  <2> TAKE i \in a + 1 .. Len(t)
  <2>1. i - a \in 1 .. Len(r)
    BY <1>1
  <2> DEFINE u == s \o <<v>>
  <2>2. u \in Seq(ServerPacket) /\ Len(u) = a
    OBVIOUS
  <2>3. t = u \o r /\ i \in 1 .. Len(u) + Len(r) /\ ~(i <= Len(u))
    BY <1>1, <2>2
  <2> HIDE DEF u, a
  <2>4. t[i] = r[i - Len(u)]
    BY <2>2, <2>3, ConcatProperties
  <2> QED
    BY <2>1, <2>2, <2>4
<1> HIDE DEF a
<1>5. \A i \in 1 .. Len(t) : i \in 1 .. Len(s) \/ i = a \/ i \in a + 1 .. Len(t)
  BY <1>1 DEF a
<1>6. \A i \in 1 .. Len(s) : t[i].op # "SMG_VALIDATE"
  BY <1>3 DEF NoAnswer
<1>7. \A i \in a + 1 .. Len(t) : t[i].op = "SMG_BROADMSG"
  BY <1>4
<1>8. Answers(t) = {a}
  BY <1>1, <1>2, <1>5, <1>6, <1>7 DEF Answers
<1>9. \A i \in a .. Len(t) : i = a \/ t[i].op = "SMG_BROADMSG"
  BY <1>1, <1>7
<1>10. a \in a .. Len(t)
  BY <1>1, <1>2
<1>11. ASSUME NEW n \in Name
       PROVE  /\ InsOf(t, a, n) = {i \in {a} : n \in v.users}
              /\ OutsOf(t, a, n) = {i \in {a} : n \notin v.users}
  BY <1>2, <1>9, <1>10 DEF InsOf, OutsOf, SaysIn, SaysOut
<1>12. ASSUME NEW n \in Name
       PROVE  /\ n \in v.users <=>
                    \E i \in InsOf(t, a, n) : \A j \in OutsOf(t, a, n) : j < i
              /\ \A i, k \in InsOf(t, a, n) : ~(i < k)
  <2>1. \A i, k \in InsOf(t, a, n) : ~(i < k)
    BY <1>1, <1>11
  <2>2. CASE n \in v.users
    <3>1. a \in InsOf(t, a, n) /\ OutsOf(t, a, n) = {}
      BY <2>2, <1>11
    <3> QED
      BY <2>1, <2>2, <3>1
  <2>3. CASE n \notin v.users
    <3>1. InsOf(t, a, n) = {}
      BY <2>3, <1>11
    <3> QED
      BY <2>1, <2>3, <3>1
  <2> QED
    BY <2>2, <2>3
<1> QED
  BY <1>2, <1>8, <1>12 DEF OneList, ListIs

(***************************************************************************)
(* The stream of a client.                                                 *)
(***************************************************************************)
LEMMA StreamParts ==
    ASSUME IInv, NEW fd \in clients
    PROVE  /\ sock[fd] \in Conn /\ fd \in Fd
           /\ inbox[sock[fd]] \in Seq(ServerPacket)
           /\ outq[sock[fd]] \in Seq(ServerPacket)
           /\ writeBuf[fd] \in Seq(ServerPacket)
           /\ Stream(fd) \in Seq(ServerPacket)
<1>1. fd \in Fd /\ sock[fd] \in Conn
  BY DEF IInv, DescriptorsAgree, TypeOK, TablesType
<1>2. /\ inbox[sock[fd]] \in Seq(ServerPacket) /\ outq[sock[fd]] \in Seq(ServerPacket)
      /\ writeBuf[fd] \in Seq(ServerPacket)
  BY <1>1 DEF IInv, TypeOK, KernelType, TablesType, ClientsType
<1>3. Stream(fd) \in Seq(ServerPacket)
  BY <1>2 DEF Stream
<1> QED
  BY <1>1, <1>2, <1>3

\* Joining three sequences; a name keeps the provers from rewriting at will.
JoinsAt(s, t, u) == (s \o t) \o u = s \o (t \o u)
LEMMA JoinAssociative ==
    ASSUME NEW S, NEW s \in Seq(S), NEW t \in Seq(S), NEW u \in Seq(S)
    PROVE  JoinsAt(s, t, u)
  BY ConcatAssociative DEF JoinsAt

\* What the server puts into the buffer is put behind the stream.
AppendsAlong(x, q, w, p) == x \o q \o Append(w, p) = Append(x \o q \o w, p)

LEMMA StreamAppend ==
    ASSUME NEW S, NEW x \in Seq(S), NEW q \in Seq(S), NEW w \in Seq(S), NEW p \in S
    PROVE  AppendsAlong(x, q, w, p)
<1>1. x \o q \in Seq(S) /\ <<p>> \in Seq(S) /\ x \o q \o w \in Seq(S)
  OBVIOUS
<1>2. Append(w, p) = w \o <<p>>
  BY AppendIsConcat
<1>3. (x \o q) \o (w \o <<p>>) = ((x \o q) \o w) \o <<p>>
  BY <1>1, ConcatAssociative
<1>4. Append(x \o q \o w, p) = (x \o q \o w) \o <<p>>
  BY <1>1, AppendIsConcat
<1> QED
  BY <1>2, <1>3, <1>4 DEF AppendsAlong

LEMMA CutJoin ==
    ASSUME NEW S, NEW q \in Seq(S), NEW n \in 0 .. Len(q)
    PROVE  /\ SubSeq(q, 1, n) \in Seq(S) /\ SubSeq(q, n + 1, Len(q)) \in Seq(S)
           /\ SubSeq(q, 1, n) \o SubSeq(q, n + 1, Len(q)) = q
<1>1. Len(q) \in Nat
  OBVIOUS
<1>2. 1 \in 1 .. Len(q) + 1 /\ n \in 1 - 1 .. Len(q) /\ Len(q) \in n .. Len(q)
  BY <1>1
<1>3. SubSeq(q, 1, n) \o SubSeq(q, n + 1, Len(q)) = SubSeq(q, 1, Len(q))
  BY <1>2, ConcatAdjacentSubSeq
<1>4. SubSeq(q, 1, Len(q)) = q
  BY SubSeqFull
<1> QED
  BY <1>3, <1>4, CutType

\* Reading and writing move packets along the stream.
ReadsAlong(x, q, w, n) ==
    (x \o SubSeq(q, 1, n)) \o SubSeq(q, n + 1, Len(q)) \o w = x \o q \o w
WritesAlong(x, q, w, n) ==
    x \o (q \o SubSeq(w, 1, n)) \o SubSeq(w, n + 1, Len(w)) = x \o q \o w

LEMMA StreamReads ==
    ASSUME NEW S, NEW x \in Seq(S), NEW q \in Seq(S), NEW w \in Seq(S),
           NEW n \in 0 .. Len(q)
    PROVE  ReadsAlong(x, q, w, n)
<1>1. \A l, r \in Seq(S) : JoinsAt(x, l, r)
  BY JoinAssociative
<1>2. JoinsAt(x, SubSeq(q, 1, n), SubSeq(q, n + 1, Len(q)))
  BY <1>1, CutJoin
<1>3. SubSeq(q, 1, n) \o SubSeq(q, n + 1, Len(q)) = q
  BY CutJoin
<1> QED
  BY <1>2, <1>3 DEF JoinsAt, ReadsAlong

LEMMA StreamWrites ==
    ASSUME NEW S, NEW x \in Seq(S), NEW q \in Seq(S), NEW w \in Seq(S),
           NEW n \in 0 .. Len(w)
    PROVE  WritesAlong(x, q, w, n)
<1> DEFINE y == x \o q
<1>1. y \in Seq(S)
  OBVIOUS
<1> HIDE DEF y
<1>2. \A l, r \in Seq(S) : JoinsAt(x, q, l) /\ JoinsAt(y, l, r)
  BY <1>1, JoinAssociative
<1>3. /\ JoinsAt(x, q, SubSeq(w, 1, n))
      /\ JoinsAt(y, SubSeq(w, 1, n), SubSeq(w, n + 1, Len(w)))
  BY <1>2, CutJoin
<1>4. SubSeq(w, 1, n) \o SubSeq(w, n + 1, Len(w)) = w
  BY CutJoin
<1> QED
  BY <1>3, <1>4 DEF JoinsAt, y, WritesAlong

-----------------------------------------------------------------------------
(***************************************************************************)
(* ListsKept is inductive.                                                 *)
(***************************************************************************)
\* After a step every member was one before, with the same stream.
KeepsStreams ==
    \A fd \in clients' : Named(fd)' /\ peer'[sock'[fd]] = "open" =>
        /\ fd \in clients /\ Named(fd) /\ peer[sock[fd]] = "open"
        /\ sock'[fd] = sock[fd] /\ Stream(fd)' = Stream(fd)

LEMMA KeepLists ==
    ASSUME ListsKept, UNCHANGED userMap, KeepsStreams,
           pc = "erase" <=> pc' = "erase",
           pc = "erase" => cur' = cur /\ username'[cur.fd] = username[cur.fd]
    PROVE  ListsKept'
<1>1. InRoom' = InRoom
  BY DEF InRoom, UserList, usernameExists
<1> QED
  BY <1>1 DEF ListsKept, KeepsStreams

LEMMA InitLists == Init => ListsKept
  BY DEF Init, ListsKept

\* The steps that touch neither a stream nor a name.
LEMMA MovingStreams ==
    ASSUME IInv,
           \/ EpollWait \/ LogThread \/ AcceptPoll \/ AcceptFails
           \/ AcceptEmplace \/ AcceptAdd
           \/ Arm \/ Disarm \/ WriteBlocked \/ WriteAfterReset
           \/ UNCHANGED vars
           \/ \E e \in batch : HangUp(e) \/ WriteEvent(e) \/ ReadClosed(e)
    PROVE  /\ UNCHANGED <<peer, sock, outq, username, writeBuf, userMap, inbox>>
           /\ KeepsStreams
<1>1. UNCHANGED <<peer, sock, outq, username, writeBuf, userMap, inbox>>
  BY DEF EpollWait, LogThread, AcceptPoll, AcceptFails, AcceptEmplace,
         AcceptAdd, Arm, Disarm, WriteBlocked, WriteAfterReset, vars, HangUp,
         WriteEvent, ReadClosed, kernelVars, connVars, clientVars
<1>2. \A fd \in clients' : Named(fd) => fd \in clients
  <2>1. clients' = clients \/ AcceptEmplace
    BY DEF EpollWait, LogThread, AcceptPoll, AcceptFails, AcceptAdd, Arm,
           Disarm, WriteBlocked, WriteAfterReset, vars, HangUp, WriteEvent,
           ReadClosed, connVars
  <2>2. AcceptEmplace => clients' = clients \cup {afd} /\ afd \in Fd \ clients
    BY DEF AcceptEmplace, IInv, DescriptorsAgree, Accepting
  <2>3. AcceptEmplace => ~Named(afd)
    BY <2>2 DEF IInv, NamesAreFresh, Named
  <2> QED
    BY <2>1, <2>2, <2>3
<1> QED
  BY <1>1, <1>2 DEF KeepsStreams, Stream, Named

LEMMA MovingLists ==
    ASSUME IInv, ListsKept,
           \/ EpollWait \/ LogThread \/ AcceptPoll \/ AcceptFails
           \/ AcceptEmplace \/ AcceptAdd
           \/ Arm \/ Disarm \/ WriteBlocked \/ WriteAfterReset
           \/ UNCHANGED vars
           \/ \E e \in batch : HangUp(e) \/ WriteEvent(e) \/ ReadClosed(e)
    PROVE  ListsKept'
<1>1. UNCHANGED <<username, userMap>> /\ KeepsStreams
  BY MovingStreams
<1>2. /\ pc = "erase" <=> pc' = "erase"
      /\ pc = "erase" => cur' = cur
  BY StepTypes DEF EpollWait, LogThread, AcceptPoll, AcceptFails, AcceptEmplace,
     AcceptAdd, Arm, Disarm, WriteBlocked, WriteAfterReset, vars, HangUp,
     WriteEvent, ReadClosed, Handles, mainVars, Goto, AfterRead, Resume
<1> QED
  BY <1>1, <1>2, KeepLists

LEMMA AcceptStreams ==
    ASSUME IInv, NEW c \in Conn, Accept(c)
    PROVE  UNCHANGED <<username, userMap, pc, cur>> /\ KeepsStreams
<1>1. PICK fd \in FreeFds : sock' = [sock EXCEPT ![fd] = c]
  BY DEF Accept
<1>2. /\ UNCHANGED <<peer, outq, clients, username, writeBuf, userMap, inbox, pc, cur>>
      /\ fd \notin clients
  BY NamesAssumption DEF Accept, FreeFds, IInv, DescriptorsAgree, connVars,
     mainVars, clientVars
<1>3. \A f \in clients : sock'[f] = sock[f]
  BY <1>1, <1>2 DEF IInv, TypeOK, KernelType, TablesType
<1> QED
  BY <1>2, <1>3 DEF KeepsStreams, Stream, Named

\* A client that reads moves its stream along; one that goes is no member.
LEMMA EnvironmentStreams ==
    ASSUME IInv, AnswerInv, NEW c \in Conn, Environment(c)
    PROVE  UNCHANGED <<username, userMap, pc, cur>> /\ KeepsStreams
<1>1. UNCHANGED <<sock, username, writeBuf, userMap, clients, pc, cur>>
  BY DEF Environment, Dial, SendConnect, ClientSend, ClientClose,
         ClientReceives, RecvVal, RecvEof, ClientRead, ResetArrives,
         kernelVars, connVars, mainVars
<1>2. \A d \in Conn \ {c} :
        outq'[d] = outq[d] /\ inbox'[d] = inbox[d]
  BY EnvironmentFacts
<1>3. /\ peer \in [Conn -> PeerStates]
      /\ outq \in [Conn -> Seq(ServerPacket)] /\ inbox \in [Conn -> Seq(ServerPacket)]
  BY DEF IInv, TypeOK, KernelType, ClientsType
<1>4. \A d \in Conn \ {c} : peer'[d] = peer[d]
  BY <1>3 DEF Environment, Dial, SendConnect, ClientSend, ClientClose,
     ClientReceives, RecvVal, RecvEof, ClientRead, ResetArrives, kernelVars
<1>5. ASSUME NEW w \in Seq(ServerPacket), peer'[c] = "open", ~Dial(c)
      PROVE  peer[c] = "open" /\ inbox'[c] \o outq'[c] \o w = inbox[c] \o outq[c] \o w
  <2>1. outq[c] \in Seq(ServerPacket) /\ inbox[c] \in Seq(ServerPacket)
    BY <1>3
  <2>2. ASSUME NEW n \in 0 .. Len(outq[c]), Receives(c, n), UNCHANGED peer
        PROVE  peer[c] = "open" /\ inbox'[c] \o outq'[c] \o w = inbox[c] \o outq[c] \o w
    <3>1. /\ inbox'[c] = inbox[c] \o SubSeq(outq[c], 1, n)
          /\ outq'[c] = SubSeq(outq[c], n + 1, Len(outq[c]))
      BY <2>2, <1>3 DEF Receives
    <3>2. PICK x, q : x = inbox[c] /\ q = outq[c]
      OBVIOUS
    <3>3. x \in Seq(ServerPacket) /\ q \in Seq(ServerPacket) /\ n \in 0 .. Len(q)
      BY <2>1, <3>2
    <3>4. ReadsAlong(x, q, w, n)
      BY <3>3, StreamReads
    <3> QED
      BY <2>2, <3>1, <3>2, <3>4, <1>5 DEF ReadsAlong
  <2>3. CASE RecvVal(c)
    <3>1. peer'[c] # "open" \/ (Receives(c, 1) /\ UNCHANGED peer)
      BY <2>3, <1>3 DEF RecvVal
    <3>2. 1 \in 0 .. Len(outq[c])
      BY <2>1, <2>3 DEF RecvVal
    <3> QED
      BY <3>1, <3>2, <2>2, <1>5
  <2>4. CASE ClientRead(c)
    <3>1. Len(outq[c]) \in 0 .. Len(outq[c])
      BY <2>1
    <3> QED
      BY <2>2, <2>4, <3>1 DEF ClientRead
  <2>5. CASE SendConnect(c) \/ ClientSend(c) \/ RecvEof(c)
    BY <2>5, <1>5 DEF SendConnect, ClientSend, RecvEof, kernelVars
  <2>6. CASE ClientClose(c) \/ ResetArrives(c)
    <3>1. peer'[c] # "open"
      BY <2>6, <1>3 DEF ClientClose, ResetArrives
    <3> QED
      BY <3>1, <1>5
  <2> QED
    BY <2>3, <2>4, <2>5, <2>6, <1>5 DEF Environment, ClientReceives
<1>6. Dial(c) => \A fd \in Fd : sock[fd] # c
  BY DEF Dial, AnswerInv, NewAreFresh, Fresh
<1>7. ASSUME NEW fd \in clients, peer'[sock[fd]] = "open"
      PROVE  peer[sock[fd]] = "open" /\ Stream(fd)' = Stream(fd)
  <2>1. sock[fd] \in Conn /\ fd \in Fd /\ writeBuf[fd] \in Seq(ServerPacket)
    BY StreamParts
  <2>2. CASE sock[fd] = c
    BY <2>1, <2>2, <1>1, <1>5, <1>6, <1>7 DEF Stream
  <2>3. CASE sock[fd] # c
    BY <2>1, <2>3, <1>1, <1>2, <1>4, <1>7 DEF Stream
  <2> QED
    BY <2>2, <2>3
<1> QED
  BY <1>1, <1>7 DEF KeepsStreams, Named

\* A refusal goes to a client without a name.
LEMMA RejectedStreams ==
    ASSUME IInv, NEW e \in batch, ReadConnectRejected(e)
    PROVE  /\ UNCHANGED <<username, userMap>> /\ pc # "erase" /\ pc' # "erase"
           /\ KeepsStreams
<1>1. PICK c \in Conn :
        /\ Takes(e, c, Head(readBuf[e.fd] \o inq[c]))
        /\ Head(readBuf[e.fd] \o inq[c]).op = "CMG_CONNECT"
  BY DEF ReadConnectRejected
<1>2. username[e.fd] = NoName /\ pc = "loop"
  BY <1>1, TakesFacts DEF Takes, Handles
<1>3. /\ UNCHANGED <<peer, sock, outq, clients, username, userMap, inbox>>
      /\ writeBuf' = AppendTo({e.fd}, ServerValidate(FALSE, {}))
      /\ pc' # "erase"
  BY DEF ReadConnectRejected, clientVars, Goto, AfterRead
<1>4. \A fd \in clients : fd # e.fd => writeBuf'[fd] = writeBuf[fd]
  BY <1>3 DEF AppendTo, IInv, TypeOK, TablesType
<1> QED
  BY <1>2, <1>3, <1>4 DEF KeepsStreams, Stream, Named

\* What is written moves along the stream too.
LEMMA WriteStreams ==
    ASSUME IInv, AnswerInv, WriteSome \/ WriteToClosed
    PROVE  /\ UNCHANGED <<username, userMap>> /\ pc # "erase" /\ pc' # "erase"
           /\ KeepsStreams
<1>0. PICK fd, c, b : fd = cur.fd /\ c = sock[fd] /\ b = writeBuf[fd]
  OBVIOUS
<1> DEFINE n == Smaller(Len(b), SockCap - Len(outq[c]))
<1>1. /\ UNCHANGED <<sock, username, userMap, inbox, clients>>
      /\ pc = "write" /\ pc' # "erase"
  BY DEF WriteSome, WriteToClosed, clientVars, Goto, AfterWrite, Resume
<1>2. /\ fd \in clients /\ fd \in Fd /\ c \in Conn /\ b \in Seq(ServerPacket)
      /\ writeBuf \in [Fd -> Seq(ServerPacket)] /\ outq \in [Conn -> Seq(ServerPacket)]
      /\ peer \in [Conn -> PeerStates] /\ inbox[c] \in Seq(ServerPacket)
      /\ outq[c] \in Seq(ServerPacket)
  BY <1>0, <1>1, CurrentClient DEF IInv, TypeOK, KernelType, TablesType, ClientsType
<1>3. \A f \in clients : f # fd => sock[f] # c
  BY <1>0, <1>2, NamesAssumption DEF AnswerInv, OneDescriptor, IInv, TypeOK, TablesType
<1>4. CASE WriteSome
  <2>1. /\ peer' = peer
        /\ writeBuf' = [writeBuf EXCEPT ![fd] = SubSeq(b, n + 1, Len(b))]
        /\ outq' = [outq EXCEPT ![c] = outq[c] \o SubSeq(b, 1, n)]
    BY <1>0, <1>4 DEF WriteSome
  <2>2. n \in 0 .. Len(b)
    <3> DEFINE room == SockCap - Len(outq[c])
    <3>1. Len(outq[c]) \in Nat /\ Len(b) \in Nat
      BY <1>2
    <3>2. room \in Nat
      <4>1. room > 0
        BY <1>0, <1>4 DEF WriteSome
      <4> QED
        BY <3>1, <4>1, BoundsAssumption
    <3> HIDE DEF room
    <3>3. Smaller(Len(b), room) \in 0 .. Len(b)
      BY <3>1, <3>2 DEF Smaller
    <3> QED
      BY <3>3 DEF room
  <2> HIDE DEF n
  <2>3. Stream(fd)' = Stream(fd)
    <3>1. /\ writeBuf'[fd] = SubSeq(b, n + 1, Len(b))
          /\ outq'[c] = outq[c] \o SubSeq(b, 1, n)
      BY <2>1, <1>2
    <3>0. PICK x, q : x = inbox[c] /\ q = outq[c]
      OBVIOUS
    <3>2. x \in Seq(ServerPacket) /\ q \in Seq(ServerPacket) /\ b \in Seq(ServerPacket)
      BY <1>2, <3>0
    <3>3. Stream(fd) = x \o q \o b
      BY <1>0, <3>0 DEF Stream
    <3>4. Stream(fd)' = x \o (q \o SubSeq(b, 1, n)) \o SubSeq(b, n + 1, Len(b))
      BY <3>0, <3>1, <1>0, <1>1 DEF Stream
    <3>5. WritesAlong(x, q, b, n)
      BY <3>2, <2>2, StreamWrites
    <3> QED
      BY <3>3, <3>4, <3>5 DEF WritesAlong
  <2>4. \A f \in clients : f # fd => Stream(f)' = Stream(f)
    <3>1. \A f \in clients : f # fd =>
            /\ sock[f] \in Conn /\ f \in Fd /\ sock[f] # c
      BY <1>3 DEF IInv, DescriptorsAgree, TypeOK, TablesType
    <3>2. \A f \in clients : f # fd =>
            writeBuf'[f] = writeBuf[f] /\ outq'[sock[f]] = outq[sock[f]]
      BY <3>1, <2>1, <1>2
    <3> QED
      BY <3>2, <1>1 DEF Stream
  <2> QED
    BY <1>1, <2>1, <2>3, <2>4 DEF KeepsStreams, Named
<1>5. CASE WriteToClosed
  <2> DEFINE rest == SubSeq(b, Smaller(Len(b), SockCap) + 1, Len(b))
  <2>1. /\ peer' = [peer EXCEPT ![c] = "answered"] /\ outq' = outq
        /\ writeBuf' = [writeBuf EXCEPT ![fd] = rest]
    BY <1>0, <1>5 DEF WriteToClosed
  <2> HIDE DEF rest
  <2>2. peer'[c] # "open"
    BY <2>1, <1>2
  <2>3. \A f \in clients : f # fd =>
            /\ sock[f] \in Conn /\ f \in Fd /\ sock[f] # c
    BY <1>3 DEF IInv, DescriptorsAgree, TypeOK, TablesType
  <2>4. \A f \in clients : f # fd =>
            writeBuf'[f] = writeBuf[f] /\ peer'[sock[f]] = peer[sock[f]]
    BY <2>1, <2>3, <1>2
  <2>5. \A f \in clients : f # fd => Stream(f)' = Stream(f)
    BY <2>1, <2>4, <1>1 DEF Stream
  <2> QED
    BY <1>0, <1>1, <2>2, <2>4, <2>5 DEF KeepsStreams, Named
<1> QED
  BY <1>4, <1>5

\* Packet p, broadcast to the clients in F, is put behind their streams.
LEMMA BroadcastStreams ==
    ASSUME IInv, NEW F, NEW p \in ServerPacket, NEW fd \in clients,
           UNCHANGED <<sock, outq, inbox>>, writeBuf'[fd] = AppendTo(F, p)[fd]
    PROVE  Stream(fd)' = IF fd \in F THEN Append(Stream(fd), p) ELSE Stream(fd)
<1>0. PICK x, q, w : x = inbox[sock[fd]] /\ q = outq[sock[fd]] /\ w = writeBuf[fd]
  OBVIOUS
<1>1. /\ x \in Seq(ServerPacket) /\ q \in Seq(ServerPacket) /\ w \in Seq(ServerPacket)
      /\ fd \in Fd
  BY <1>0, StreamParts
<1>2. AppendsAlong(x, q, w, p)
  BY <1>1, StreamAppend
<1>3. writeBuf'[fd] = IF fd \in F THEN Append(w, p) ELSE w
  BY <1>0, <1>1 DEF AppendTo
<1>4. Stream(fd) = x \o q \o w
  BY <1>0 DEF Stream
<1>5. Stream(fd)' = x \o q \o writeBuf'[fd]
  BY <1>0 DEF Stream
<1> QED
  BY <1>2, <1>3, <1>4, <1>5 DEF AppendsAlong

\* A message changes no list.
LEMMA BroadMsgLists ==
    ASSUME IInv, AnswerInv, ListsKept, NEW e \in batch, ReadBroadMsg(e)
    PROVE  ListsKept'
<1>1. PICK c, p :
        /\ c \in Conn /\ p = Head(readBuf[e.fd] \o inq[c])
        /\ Takes(e, c, p) /\ p.op = "CMG_BROADMSG"
        /\ valConnMsg(username[e.fd], e.fd) =>
                writeBuf' = AppendTo(Others(e.fd), ServerBroadMsg(username[e.fd], p.msg))
  BY DEF ReadBroadMsg
<1>2. valConnMsg(username[e.fd], e.fd) /\ username[e.fd] \in Name
  BY <1>1, SpeakerIsValid
<1>3. p.msg \in Message
  <2>1. p \in ClientPacket
    BY <1>1, TakesFacts
  <2> QED
    BY <2>1, <1>1 DEF ClientPacket
<1>4. PICK b : b = ServerBroadMsg(username[e.fd], p.msg)
  OBVIOUS
<1>5. b \in ServerPacket /\ b.op = "SMG_BROADMSG"
  BY <1>2, <1>3, <1>4, PacketTypes DEF ServerBroadMsg
<1>6. writeBuf' = AppendTo(Others(e.fd), b)
  BY <1>1, <1>2, <1>4
<1>7. /\ UNCHANGED <<peer, sock, outq, clients, username, userMap, inbox>>
      /\ pc = "loop" /\ pc' # "erase"
  BY StepTypes DEF ReadBroadMsg, Takes, Handles, clientVars, Goto, AfterRead
<1>8. \A n \in Name : ~SaysIn(b, n) /\ ~SaysOut(b, n)
  BY <1>5 DEF SaysIn, SaysOut
<1>9. InRoom' = InRoom
  BY <1>7 DEF InRoom, UserList, usernameExists
<1>10. ASSUME NEW fd \in clients, Named(fd), peer[sock[fd]] = "open"
       PROVE  OneList(Stream(fd)') /\ ListIs(Stream(fd)', InRoom)
  <2>0. PICK s : s = Stream(fd)
    OBVIOUS
  <2>1. OneList(s) /\ ListIs(s, InRoom) /\ s \in Seq(ServerPacket)
    BY <2>0, <1>7, <1>10, StreamParts DEF ListsKept
  <2>2. Stream(fd)' = s \/ Stream(fd)' = Append(s, b)
    BY <2>0, <1>5, <1>6, <1>7, BroadcastStreams
  <2>3. OneList(Append(s, b)) /\ ListIs(Append(s, b), InRoom)
    BY <2>1, <1>5, <1>8, GrowList
  <2> QED
    BY <2>1, <2>2, <2>3
<1> QED
  BY <1>7, <1>9, <1>10 DEF ListsKept, Named

\* The others are told before the user is forgotten: its name is out of
\* their lists, and InRoom with it.
LEMMA DropBroadcastLists ==
    ASSUME IInv, ListsKept, DropBroadcast
    PROVE  ListsKept'
<1>0. PICK f, n, b : f = cur.fd /\ n = username[cur.fd] /\ b = ServerDisconnect(n)
  OBVIOUS
<1>1. /\ UNCHANGED <<peer, sock, outq, clients, username, userMap, inbox, cur>>
      /\ pc = "drop" /\ pc' = "erase"
      /\ writeBuf' = AppendTo(Others(f), b)
  BY <1>0 DEF DropBroadcast, kernelVars, clientVars, Goto
<1>2. n \in Name
  BY <1>0, <1>1, CurrentClient DEF DropBroadcast, Announced, IInv, TypeOK, TablesType
<1>3. /\ b \in ServerPacket /\ b.op = "SMG_DISCONNECT" /\ b.user = n
  BY <1>0, <1>2, PacketTypes DEF ServerDisconnect
<1>4. InRoom = UserList /\ InRoom' = UserList \ {n}
  BY <1>0, <1>1 DEF InRoom, UserList, usernameExists
<1>5. \A m \in Name :
        /\ ~SaysIn(b, m)
        /\ m \in InRoom' <=> SaysIn(b, m) \/ (m \in InRoom /\ ~SaysOut(b, m))
  BY <1>3, <1>4 DEF SaysIn, SaysOut
<1>6. ASSUME NEW fd \in clients, Named(fd), peer[sock[fd]] = "open"
      PROVE  OneList(Stream(fd)') /\ (fd # f => ListIs(Stream(fd)', InRoom'))
  <2>0. PICK s, V : s = Stream(fd) /\ V = InRoom'
    OBVIOUS
  <2>1. OneList(s) /\ ListIs(s, InRoom) /\ s \in Seq(ServerPacket)
    BY <2>0, <1>1, <1>6, StreamParts DEF ListsKept
  <2>2. Stream(fd)' = IF fd = f THEN s ELSE Append(s, b)
    BY <2>0, <1>1, <1>3, BroadcastStreams DEF Others
  <2>3. OneList(Append(s, b)) /\ ListIs(Append(s, b), V)
    BY <2>0, <2>1, <1>3, <1>5, GrowList
  <2> QED
    BY <2>0, <2>1, <2>2, <2>3
<1> QED
  BY <1>0, <1>1, <1>6 DEF ListsKept, Named

\* Forgetting a client leaves the streams of the others alone.
LEMMA ForgetStreams ==
    ASSUME IInv, DropErase \/ DropUnregistered
    PROVE  /\ pc \in {"drop", "erase"} /\ pc' # "erase"
           /\ cur.fd \in clients /\ clients' = clients \ {cur.fd}
           /\ UserList' = UserList \ {username[cur.fd]}
           /\ username[cur.fd] \in Name \cup {NoName}
           /\ KeepsStreams
<1>0. PICK f : f = cur.fd
  OBVIOUS
<1>1. /\ pc \in {"drop", "erase"} /\ killUser(f) /\ CloseFd(f) /\ Erase(f)
      /\ UNCHANGED <<peer, outq, inbox>> /\ pc' # "erase"
  BY <1>0, StepTypes DEF DropErase, DropUnregistered, Forget, Goto, clientVars, Resume
<1>2. /\ f \in clients /\ f \in Fd /\ sock[f] \in Conn
      /\ sock \in [Fd -> Conn \cup {NoConn}]
      /\ writeBuf \in [Fd -> Seq(ServerPacket)]
      /\ username \in [Fd -> Name \cup {NoName}] /\ clients \subseteq Fd
  BY <1>0, <1>1, CurrentClient DEF IInv, TypeOK, KernelType, TablesType
<1>3. /\ sock' = [sock EXCEPT ![f] = NoConn]
      /\ writeBuf' = [writeBuf EXCEPT ![f] = <<>>]
      /\ username' = [username EXCEPT ![f] = NoName]
      /\ clients' = clients \ {f}
  BY <1>1 DEF CloseFd, Erase
<1>4. UserList' = UserList \ {username[f]}
  BY <1>1 DEF killUser, UserList, usernameExists
<1>5. \A fd \in clients' : /\ fd \in clients /\ fd # f /\ Stream(fd)' = Stream(fd)
                           /\ username'[fd] = username[fd] /\ sock'[fd] = sock[fd]
  BY <1>1, <1>2, <1>3 DEF Stream
<1> QED
  BY <1>0, <1>1, <1>2, <1>3, <1>4, <1>5 DEF KeepsStreams, Named

\* dropClient() takes the name out of userMap that the others were told of,
\* or none at all.
LEMMA ForgetLists ==
    ASSUME IInv, ListsKept, DropErase \/ DropUnregistered
    PROVE  ListsKept'
<1>0. PICK f : f = cur.fd
  OBVIOUS
<1>1. /\ pc \in {"drop", "erase"} /\ pc' # "erase" /\ clients' = clients \ {f}
      /\ UserList' = UserList \ {username[f]} /\ username[f] \in Name \cup {NoName}
      /\ f \in clients /\ KeepsStreams
  BY <1>0, ForgetStreams
<1>2. InRoom' = InRoom
  <2>1. CASE DropErase
    BY <2>1, <1>0, <1>1 DEF InRoom, DropErase
  <2>2. CASE DropUnregistered
    <3>1. pc = "drop" /\ ~Announced(f)
      BY <2>2, <1>0 DEF DropUnregistered
    <3>2. username[f] \notin UserList
      BY <3>1, <1>1, NamesAssumption DEF Announced, UserList
    <3> QED
      BY <3>1, <3>2, <1>1 DEF InRoom
  <2> QED
    BY <2>1, <2>2
<1>3. \A fd \in clients' : fd # f
  BY <1>1
<1> QED
  BY <1>0, <1>1, <1>2, <1>3 DEF ListsKept, KeepsStreams

\* The messages replayed to a newcomer.
LEMMA ReplayFacts ==
    ASSUME IInv, NEW since \in Nat
    PROVE  /\ BackLog(since) \in Seq(ServerPacket)
           /\ \A i \in 1 .. Len(BackLog(since)) :
                BackLog(since)[i].op = "SMG_BROADMSG"
<1>1. log \in Seq(BroadPacket)
  BY DEF IInv, TypeOK, TablesType
<1>2. BackLog(since) \in Seq(BroadPacket)
  BY <1>1 DEF BackLog
<1> HIDE DEF BackLog
<1>3. \A i \in 1 .. Len(BackLog(since)) : BackLog(since)[i] \in BroadPacket
  BY <1>2
<1>4. \A i \in 1 .. Len(BackLog(since)) : BackLog(since)[i].op = "SMG_BROADMSG"
  BY <1>3 DEF BroadPacket
<1> QED
  BY <1>2, <1>4, PacketTypes

\* The answer and the replayed messages behind what was in the buffer.
AnswersAlong(x, q, w, v, r) ==
    x \o q \o (w \o <<v>> \o r) = (x \o q \o w) \o <<v>> \o r

LEMMA StreamAnswer ==
    ASSUME NEW S, NEW x \in Seq(S), NEW q \in Seq(S), NEW w \in Seq(S),
           NEW v \in S, NEW r \in Seq(S)
    PROVE  AnswersAlong(x, q, w, v, r)
<1>0. PICK y, z, u, k : y = x \o q /\ u = <<v>> /\ z = w \o u /\ k = y \o w
  OBVIOUS
<1>1. y \in Seq(S) /\ u \in Seq(S)
  BY <1>0
<1>2. z \in Seq(S)
  BY <1>0, <1>1
<1>3. JoinsAt(y, z, r) /\ JoinsAt(y, w, u)
  BY <1>1, <1>2, JoinAssociative
<1> QED
  BY <1>0, <1>3 DEF JoinsAt, AnswersAlong

\* The newcomer's list is the registry with itself, and the others get its
\* name, which none of them had.
LEMMA AcceptedLists ==
    ASSUME IInv, AnswerInv, ListsKept, NEW e \in batch, ReadConnectAccepted(e)
    PROVE  ListsKept'
<1>0. PICK c \in Conn :
        LET p == Head(readBuf[e.fd] \o inq[c])
        IN  /\ Takes(e, c, p)
            /\ p.op = "CMG_CONNECT" /\ ~usernameExists(p.user)
            /\ userMap' = [userMap EXCEPT ![p.user] = e.fd]
            /\ username' = [username EXCEPT ![e.fd] = p.user]
            /\ writeBuf' =
                [AppendTo(Others(e.fd), ServerConnect(p.user)) EXCEPT
                    ![e.fd] = @ \o <<ServerValidate(TRUE, UserList')>>
                                \o BackLog(p.since)]
  BY DEF ReadConnectAccepted
<1>1. PICK p, v, r, b :
        /\ p = Head(readBuf[e.fd] \o inq[c])
        /\ v = ServerValidate(TRUE, UserList')
        /\ b = ServerConnect(p.user)
        /\ r = BackLog(p.since)
        /\ Takes(e, c, p)
        /\ p.op = "CMG_CONNECT" /\ ~usernameExists(p.user)
        /\ userMap' = [userMap EXCEPT ![p.user] = e.fd]
        /\ username' = [username EXCEPT ![e.fd] = p.user]
        /\ writeBuf' = [AppendTo(Others(e.fd), b) EXCEPT ![e.fd] = @ \o <<v>> \o r]
  BY <1>0
<1>2. p.user \in Name /\ p.since \in Nat /\ username[e.fd] = NoName
  <2>1. p \in ClientPacket /\ username[e.fd] = NoName
    BY <1>1, TakesFacts
  <2> QED
    BY <2>1, <1>1 DEF ClientPacket
<1>3. /\ e.fd \in Fd /\ e.fd \in clients /\ sock[e.fd] \in Conn
      /\ pc = "loop" /\ markToDie = {}
  <2>1. pc = "loop"
    BY <1>1 DEF Takes, Handles
  <2> QED
    BY <2>1, BatchClient, NoMarks DEF AnswerInv
<1>4. /\ UNCHANGED <<peer, sock, outq, clients, inbox>> /\ pc' # "erase"
  BY StepTypes DEF ReadConnectAccepted, clientVars, Goto, AfterRead
<1>5. /\ userMap \in [Name -> Fd \cup {NoFd}] /\ clients \subseteq Fd
      /\ writeBuf \in [Fd -> Seq(ServerPacket)] /\ username \in [Fd -> Name \cup {NoName}]
  BY DEF IInv, TypeOK, TablesType
<1>6. /\ UserList' = UserList \cup {p.user} /\ p.user \notin UserList
      /\ InRoom = UserList /\ InRoom' = UserList'
  <2>1. e.fd # NoFd
    BY <1>3, FdAssumption DEF NoFd
  <2> QED
    BY <2>1, <1>1, <1>2, <1>3, <1>4, <1>5 DEF UserList, usernameExists, InRoom
<1>7. /\ v \in ServerPacket /\ v.op = "SMG_VALIDATE" /\ v.users = UserList'
      /\ b \in ServerPacket /\ b.op = "SMG_CONNECT" /\ b.user = p.user
  <2>1. UserList' \in SUBSET Name
    BY DEF UserList
  <2> QED
    BY <1>1, <1>2, <2>1, PacketTypes DEF ServerValidate, ServerConnect
<1>8. /\ r \in Seq(ServerPacket)
      /\ \A i \in 1 .. Len(r) : r[i].op = "SMG_BROADMSG"
  BY <1>1, <1>2, ReplayFacts
<1>9. \A n \in Name :
        /\ SaysIn(b, n) => n \notin UserList
        /\ n \in UserList' <=> SaysIn(b, n) \/ (n \in UserList /\ ~SaysOut(b, n))
  BY <1>6, <1>7 DEF SaysIn, SaysOut
<1>10. ASSUME NEW fd \in clients, fd # e.fd, Named(fd), peer[sock[fd]] = "open"
       PROVE  OneList(Stream(fd)') /\ ListIs(Stream(fd)', InRoom')
  <2>0. PICK s, U, V : s = Stream(fd) /\ U = UserList /\ V = UserList'
    OBVIOUS
  <2>1. OneList(s) /\ ListIs(s, U) /\ s \in Seq(ServerPacket)
    BY <2>0, <1>3, <1>6, <1>10, StreamParts DEF ListsKept
  <2>2. writeBuf'[fd] = AppendTo(Others(e.fd), b)[fd] /\ fd \in Others(e.fd)
    <3>1. fd \in DOMAIN AppendTo(Others(e.fd), b) /\ fd \in Others(e.fd)
      BY <1>5, <1>10 DEF AppendTo, Others
    <3> QED
      BY <3>1, <1>1, <1>10
  <2>3. Stream(fd)' = Append(s, b)
    BY <2>0, <2>2, <1>4, <1>7, BroadcastStreams
  <2>4. OneList(Append(s, b)) /\ ListIs(Append(s, b), V)
    BY <2>0, <2>1, <1>7, <1>9, GrowList
  <2> QED
    BY <2>0, <2>3, <2>4, <1>6
<1>11. OneList(Stream(e.fd)') /\ ListIs(Stream(e.fd)', InRoom')
  <2>0. PICK x, q, w, s, t :
            /\ x = inbox[sock[e.fd]] /\ q = outq[sock[e.fd]] /\ w = writeBuf[e.fd]
            /\ s = x \o q \o w /\ t = Stream(e.fd)'
    OBVIOUS
  <2>1. /\ x \in Seq(ServerPacket) /\ q \in Seq(ServerPacket) /\ w \in Seq(ServerPacket)
    BY <2>0, <1>3, StreamParts
  <2>2. writeBuf'[e.fd] = w \o <<v>> \o r
    <3>1. AppendTo(Others(e.fd), b)[e.fd] = w /\ e.fd \in DOMAIN AppendTo(Others(e.fd), b)
      BY <2>0, <1>3 DEF AppendTo, Others
    <3> QED
      BY <3>1, <1>1
  <2>3. t = x \o q \o (w \o <<v>> \o r)
    BY <2>0, <2>2, <1>4 DEF Stream
  <2>4. AnswersAlong(x, q, w, v, r)
    BY <2>1, <1>7, <1>8, StreamAnswer
  <2>5. t = (s \o <<v>>) \o r
    BY <2>0, <2>3, <2>4 DEF AnswersAlong
  <2>6. x \o q \in Seq(ServerPacket) /\ s \in Seq(ServerPacket)
    BY <2>0, <2>1
  <2>7. NoAnswer(s)
    <3>1. NoAnswer(x) /\ NoAnswer(q) /\ NoAnswer(w)
      BY <2>0, <1>2, <1>3 DEF AnswerInv, UnnamedAreSilent, Unanswered, Named
    <3>2. PICK y : y = x \o q
      OBVIOUS
    <3>3. y \in Seq(ServerPacket) /\ NoAnswer(y)
      BY <2>1, <2>6, <3>1, <3>2, NoAnswerJoin
    <3>4. NoAnswer(y \o w)
      BY <2>1, <3>1, <3>3, NoAnswerJoin
    <3> QED
      BY <2>0, <3>2, <3>4
  <2>8. t \in Seq(ServerPacket)
    <3>1. <<v>> \in Seq(ServerPacket)
      BY <1>7
    <3>2. s \o <<v>> \in Seq(ServerPacket)
      BY <2>6, <3>1
    <3> QED
      BY <2>5, <3>2, <1>8
  <2>9. OneList(t) /\ ListIs(t, v.users)
    BY <2>5, <2>6, <2>7, <2>8, <1>7, <1>8, NewList
  <2> QED
    BY <2>0, <2>9, <1>6, <1>7
<1>12. \A fd \in clients : fd # e.fd => Named(fd)' = Named(fd)
  BY <1>1, <1>5 DEF Named
<1> QED
  BY <1>4, <1>10, <1>11, <1>12 DEF ListsKept

LEMMA NextLists == IInv /\ AnswerInv /\ ListsKept /\ [Next]_vars => ListsKept'
<1> SUFFICES ASSUME IInv, AnswerInv, ListsKept, [Next]_vars PROVE ListsKept'
  OBVIOUS
<1>1. CASE MainThread
  <2>1. CASE EpollWait \/ Arm \/ Disarm \/ WriteBlocked \/ WriteAfterReset
    BY <2>1, MovingLists
  <2>2. ASSUME NEW e \in batch, HangUp(e) \/ WriteEvent(e) \/ ReadClosed(e)
        PROVE  ListsKept'
    BY <2>2, MovingLists
  <2>3. ASSUME NEW e \in batch,
               ReadConnectRejected(e) \/ ReadConnectAccepted(e) \/ ReadBroadMsg(e)
        PROVE  ListsKept'
    BY <2>3, RejectedStreams, KeepLists, AcceptedLists, BroadMsgLists
  <2>4. CASE WriteSome \/ WriteToClosed
    BY <2>4, WriteStreams, KeepLists
  <2>5. CASE DropBroadcast \/ DropErase \/ DropUnregistered
    BY <2>5, DropBroadcastLists, ForgetLists
  <2> QED
    BY <1>1, <2>1, <2>2, <2>3, <2>4, <2>5 DEF MainThread
<1>2. CASE AcceptThread
  <2>1. CASE AcceptPoll \/ AcceptFails \/ AcceptEmplace \/ AcceptAdd
    BY <2>1, MovingLists
  <2>2. ASSUME NEW c \in Conn, Accept(c)
        PROVE  ListsKept'
    BY <2>2, AcceptStreams, KeepLists
  <2> QED
    BY <1>2, <2>1, <2>2 DEF AcceptThread
<1>3. CASE LogThread \/ UNCHANGED vars
  BY <1>3, MovingLists
<1>4. ASSUME NEW c \in Conn, Environment(c)
      PROVE  ListsKept'
  BY <1>4, EnvironmentStreams, KeepLists
<1> QED
  BY <1>1, <1>2, <1>3, <1>4 DEF Next

THEOREM ListsInvariance == Spec => []ListsKept
<1>1. IInv /\ AnswerInv /\ ListsKept /\ [Next]_vars => ListsKept'
  BY NextLists
<1> QED
  BY <1>1, InitLists, Invariance, AnswerInvariance, PTL DEF Spec

\* Every member's list is the registry, however the answer, the joins and
\* the leaves are spread over the buffer, the socket and what was read.
THEOREM UserListsAreExact == Spec => []UserListsAgree
<1>1. IInv /\ ListsKept => UserListsAgree
  <2> SUFFICES ASSUME IInv, ListsKept PROVE UserListsAgree
    OBVIOUS
  <2>1. ASSUME NEW fd \in Members
        PROVE  LET s == Stream(fd)
                   start == CHOOSE i \in Answers(s) : TRUE
                   Ins(n) == {i \in start .. Len(s) : SaysIn(s[i], n)}
                   Outs(n) == {i \in start .. Len(s) : SaysOut(s[i], n)}
                   leaving == IF pc = "erase" THEN {username[cur.fd]} ELSE {}
               IN  /\ Cardinality(Answers(s)) = 1
                   /\ fd # cur.fd \/ pc # "erase" =>
                        \A n \in Name :
                            n \in UserList \ leaving <=>
                                \E i \in Ins(n) : \A j \in Outs(n) : j < i
                   /\ \A n \in Name : \A i, k \in Ins(n) :
                        i < k => \E j \in Outs(n) : i < j /\ j < k
    <3>0. PICK s, start : s = Stream(fd) /\ start = CHOOSE i \in Answers(s) : TRUE
      OBVIOUS
    <3>1. fd \in clients /\ Named(fd) /\ peer[sock[fd]] = "open"
      BY <2>1 DEF Members, Registered, Named
    <3>2. /\ OneList(s)
          /\ pc # "erase" \/ cur.fd # fd => ListIs(s, InRoom)
      BY <3>0, <3>1 DEF ListsKept
    <3>3. PICK a \in 1 .. Len(s) :
            /\ Answers(s) = {a}
            /\ \A n \in Name : \A i, k \in InsOf(s, a, n) :
                i < k => \E j \in OutsOf(s, a, n) : i < j /\ j < k
      BY <3>2 DEF OneList
    <3>4. start = a
      BY <3>0, <3>3
    <3>5. Cardinality(Answers(s)) = 1
      BY <3>3, FS_Singleton
    <3>6. pc # "erase" \/ cur.fd # fd =>
            \A n \in Name :
                n \in InRoom <=>
                    \E i \in InsOf(s, a, n) : \A j \in OutsOf(s, a, n) : j < i
      BY <3>2, <3>3 DEF ListIs
    <3> QED
      BY <3>0, <3>3, <3>4, <3>5, <3>6 DEF InsOf, OutsOf, InRoom
  <2> QED
    BY <2>1 DEF UserListsAgree
<1> QED
  BY <1>1, Invariance, ListsInvariance, PTL
=============================================================================
