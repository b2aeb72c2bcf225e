------------------------ MODULE ClientControllerProof ------------------------
(***************************************************************************)
(* The client's state, socket, connection data and pending events agree,   *)
(* and no edge of its socket is lost, for any addresses and any capacity.  *)
(***************************************************************************)
EXTENDS ClientController, TLAPS

\* The loop over events goes on exactly while there are events.
LoopAgrees ==
    /\ pc = "wait" <=> batch = {}
    /\ pc = "chars" => "stdin" \in batch

\* rmServFd() leaves nothing of the socket behind, or the next would find it.
NothingLeft ==
    link = "none" => /\ net = 0 /\ outq = 0 /\ writeBuf = 0
                     /\ ~armed /\ ~servReady

\* What did not fit the socket has EPOLLOUT asked for.
OutputIsArmed == (alive /\ writeBuf > 0) => armed

IInv ==
    /\ TypeOK
    /\ LoopAgrees
    /\ NothingLeft
    /\ OutputIsArmed
    /\ ChatHasItsSocket
    /\ OnlyCheckedData
    /\ EventsAreFresh
    /\ OutputHasAnEdge
    /\ InputHasAnEdge

-----------------------------------------------------------------------------
(***************************************************************************)
(* Facts about the operators the model is built from.                      *)
(***************************************************************************)
\* epoll reports a record of bits.
EventBits == [hup : BOOLEAN, in : BOOLEAN, out : BOOLEAN]
LEMMA ReportedBits ==
    ASSUME TypeOK
    PROVE  /\ Reported \in EventBits
           /\ Reported.hup => link = "rst"
           /\ Reported # NoEvent => link # "none" /\ servReady
           /\ (servReady /\ link # "none" /\ net > 0) => Reported.in
           /\ (servReady /\ link = "open" /\ armed /\ outq < SockCap) =>
                  Reported.out
  BY DEF TypeOK, Reported, Bits, NoEvent, EventBits

\* A socket that can be read, or that is asked about and can be written, has
\* something to report.
LEMMA BitsOfOpen ==
    ASSUME NEW l, NEW n \in Nat, NEW q, NEW a \in BOOLEAN
    PROVE  /\ n > 0 => Bits(l, n, q, a) # NoEvent
           /\ Bits(l, n, q, a).in = TRUE <=> (n > 0 \/ l \in {"fin", "rst"})
  BY DEF Bits, NoEvent

\* write() takes what fits, and leaves something only in a full socket.
LEMMA FitsBounds ==
    ASSUME TypeOK, NEW n \in Nat
    PROVE  /\ Fits(n) \in 0..n
           /\ outq + Fits(n) \in 0..SockCap
           /\ n - Fits(n) \in Nat
           /\ n - Fits(n) > 0 => outq + Fits(n) = SockCap
  BY BoundsAssumption DEF TypeOK, Fits

\* The loop over events is left in one of its places.
LEMMA DoneType ==
    ASSUME TypeOK, NEW e, Done(e)
    PROVE  /\ batch' \subseteq {"serv", "stdin", "winch"}
           /\ pc' \in {"wait", "loop", "chars"}
           /\ batch' \subseteq batch
           /\ e \notin batch'
           /\ e # "serv" => ("serv" \in batch' <=> "serv" \in batch)
  BY DEF TypeOK, Done

-----------------------------------------------------------------------------
(***************************************************************************)
(* The inductive invariant.                                                *)
(***************************************************************************)
LEMMA InitIInv == Init => IInv
  <1> SUFFICES ASSUME Init PROVE IInv
    OBVIOUS
  <1>1. TypeOK
    <2>1. [d \in Addr \cup {NoAddr} |-> {}] \in [Addr \cup {NoAddr} -> SUBSET Addr]
      OBVIOUS
    <2>2. NoEvent \in [hup : BOOLEAN, in : BOOLEAN, out : BOOLEAN]
      BY DEF NoEvent
    <2>3. curState \in States
      BY DEF Init, States
    <2>4. 0 \in 0..SockCap
      BY BoundsAssumption
    <2> QED
      BY <2>1, <2>2, <2>3, <2>4 DEF Init, TypeOK
  <1> QED
    BY <1>1
    DEF Init, IInv, LoopAgrees, NothingLeft, OutputIsArmed, ChatHasItsSocket,
        OnlyCheckedData, EventsAreFresh, OutputHasAnEdge, InputHasAnEdge

\* epoll_wait() takes the ready list for a batch; the socket is in it only
\* while the chat is on.
LEMMA EpollWaitStep == IInv /\ EpollWait => IInv'
  <1> SUFFICES ASSUME IInv, EpollWait PROVE IInv'
    OBVIOUS
  <1> USE DEF IInv, EpollWait, logVars
  <1>a. /\ batch' \subseteq {"serv", "stdin", "winch"}
        /\ "serv" \in batch' <=> Reported # NoEvent
    OBVIOUS
  <1>1. TypeOK'
    BY <1>a, ReportedBits DEF TypeOK, EventBits
  <1>2. /\ LoopAgrees' /\ NothingLeft' /\ OutputIsArmed'
        /\ ChatHasItsSocket' /\ OnlyCheckedData'
    BY DEF LoopAgrees, NothingLeft, OutputIsArmed, ChatHasItsSocket,
           OnlyCheckedData
  <1>3. EventsAreFresh'
    BY <1>a, ReportedBits DEF EventsAreFresh, ChatHasItsSocket, TypeOK
  <1>4. OutputHasAnEdge'
    <2> SUFFICES ASSUME alive, link = "open", writeBuf > 0, outq < SockCap
                 PROVE  "serv" \in batch' /\ event'.out
      BY DEF OutputHasAnEdge
    <2>1. CASE servReady
      <3>1. Reported.out
        BY <2>1, ReportedBits DEF OutputIsArmed
      <3> QED
        BY <1>a, <3>1 DEF NoEvent
    <2>2. CASE ~servReady
      BY <2>2 DEF OutputHasAnEdge, LoopAgrees
    <2> QED
      BY <2>1, <2>2
  <1>5. InputHasAnEdge'
    <2> SUFFICES ASSUME alive, link # "none", net > 0
                 PROVE  "serv" \in batch' /\ event'.in
      BY DEF InputHasAnEdge
    <2>1. CASE servReady
      <3>1. Reported.in
        BY <2>1, ReportedBits
      <3> QED
        BY <1>a, <3>1 DEF NoEvent
    <2>2. CASE ~servReady
      BY <2>2 DEF InputHasAnEdge, LoopAgrees
    <2> QED
      BY <2>1, <2>2
  <1> QED
    BY <1>1, <1>2, <1>3, <1>4, <1>5

\* EPOLLHUP: nothing of the socket is left, nor of its event.
LEMMA HangUpStep == IInv /\ HangUp => IInv'
  <1> SUFFICES ASSUME IInv, HangUp PROVE IInv'
    OBVIOUS
  <1> USE DEF IInv, HangUp, Serves, ttyVars, logVars
  <1>1. TypeOK'
    <2>1. alive' \in BOOLEAN /\ curState' \in States
      BY DEF States
    <2>2. event' \in [hup : BOOLEAN, in : BOOLEAN, out : BOOLEAN]
      BY DEF NoEvent
    <2>3. 0 \in 0..SockCap
      BY BoundsAssumption
    <2>4. /\ pc' \in {"wait", "loop", "chars"}
          /\ batch' \subseteq {"serv", "stdin", "winch"}
      BY DoneType
    <2> QED
      BY <2>1, <2>2, <2>3, <2>4 DEF TypeOK
  <1>2. LoopAgrees'
    BY DEF LoopAgrees, Done
  <1>3. NothingLeft' /\ OutputIsArmed' /\ OutputHasAnEdge' /\ InputHasAnEdge'
    BY DEF NothingLeft, OutputIsArmed, OutputHasAnEdge, InputHasAnEdge
  <1>4. ChatHasItsSocket' /\ OnlyCheckedData' /\ EventsAreFresh'
    BY DoneType DEF ChatHasItsSocket, OnlyCheckedData, EventsAreFresh
  <1> QED
    BY <1>1, <1>2, <1>3, <1>4

\* What write() leaves in writeBuf has EPOLLOUT asked for, and epoll looks at
\* the socket again.
LEMMA ServWriteStep == IInv /\ ServWrite => IInv'
  <1> SUFFICES ASSUME IInv, ServWrite PROVE IInv'
    OBVIOUS
  <1> USE DEF IInv, ServWrite, Serves, Write, ttyVars, logVars
  <1>a. /\ outq' = outq + Fits(writeBuf) /\ outq' \in 0..SockCap
        /\ writeBuf' = writeBuf - Fits(writeBuf) /\ writeBuf' \in Nat
        /\ writeBuf' > 0 => outq' = SockCap
    BY FitsBounds DEF TypeOK
  <1>b. event' = [event EXCEPT !.out = FALSE] /\ event' \in EventBits
    BY DEF TypeOK, EventBits
  <1>c. /\ event.in => UNCHANGED <<batch, pc>>
        /\ ~event.in => Done("serv")
    OBVIOUS
  <1>1. TypeOK'
    <2>1. reset' \in BOOLEAN /\ armed' \in BOOLEAN /\ alive' \in BOOLEAN
      OBVIOUS
    <2>2. servReady' \in BOOLEAN
      OBVIOUS
    <2>3. pc' \in {"wait", "loop", "chars"} /\ batch' \subseteq {"serv", "stdin", "winch"}
      BY <1>c, DoneType DEF TypeOK
    <2> QED
      BY <1>a, <1>b, <2>1, <2>2, <2>3 DEF TypeOK, EventBits
  <1>2. LoopAgrees'
    BY <1>c DEF LoopAgrees, Done
  <1>3. NothingLeft' /\ OutputIsArmed' /\ OutputHasAnEdge'
    <2>1. link # "none" /\ link' = link
      BY DEF EventsAreFresh, ChatHasItsSocket
    <2>2. writeBuf' > 0 => ~(outq' < SockCap)
      BY <1>a, BoundsAssumption
    <2>3. armed' = (writeBuf' > 0)
      OBVIOUS
    <2> QED
      BY <2>1, <2>2, <2>3 DEF NothingLeft, OutputIsArmed, OutputHasAnEdge
  <1>4. InputHasAnEdge'
    BY <1>b, <1>c DEF InputHasAnEdge, TypeOK
  <1>5. ChatHasItsSocket' /\ OnlyCheckedData'
    BY DEF ChatHasItsSocket, OnlyCheckedData
  <1>6. EventsAreFresh'
    BY <1>b, <1>c, DoneType DEF EventsAreFresh, TypeOK
  <1> QED
    BY <1>1, <1>2, <1>3, <1>4, <1>5, <1>6

\* handleRead() reads until there is nothing.
LEMMA ServReadStep == IInv /\ ServRead => IInv'
  <1> SUFFICES ASSUME IInv, ServRead PROVE IInv'
    OBVIOUS
  <1> USE DEF IInv, ServRead, Serves, ttyVars
  <1>1. TypeOK'
    BY DoneType DEF TypeOK, NoEvent, EventsAreFresh, ChatHasItsSocket,
                    OnlyCheckedData
  <1>2. LoopAgrees'
    BY DEF LoopAgrees, Done
  <1>3. NothingLeft' /\ OutputIsArmed' /\ InputHasAnEdge'
    BY DEF NothingLeft, OutputIsArmed, InputHasAnEdge
  <1>4. OutputHasAnEdge'
    BY DEF OutputHasAnEdge
  <1>5. ChatHasItsSocket' /\ OnlyCheckedData' /\ EventsAreFresh'
    BY DoneType DEF ChatHasItsSocket, OnlyCheckedData, EventsAreFresh
  <1> QED
    BY <1>1, <1>2, <1>3, <1>4, <1>5

\* A line entered is written, or EPOLLOUT is asked for.
LEMMA SayStep == IInv /\ Say => IInv'
  <1> SUFFICES ASSUME IInv, Say PROVE IInv'
    OBVIOUS
  <1> USE DEF IInv, Say, Enter, Write
  <1>a. /\ outq' \in 0..SockCap /\ writeBuf' \in Nat
        /\ writeBuf' > 0 => ~(outq' < SockCap)
    <2> DEFINE n == writeBuf + 1
    <2>1. TypeOK /\ n \in Nat
      BY DEF TypeOK
    <2>2. outq' = outq + Fits(n) /\ writeBuf' = n - Fits(n)
      OBVIOUS
    <2> HIDE DEF n, IInv, Say, Write
    <2>3. /\ outq + Fits(n) \in 0..SockCap /\ n - Fits(n) \in Nat
          /\ n - Fits(n) > 0 => outq + Fits(n) = SockCap
      BY <2>1, FitsBounds
    <2> QED
      BY <2>2, <2>3
  <1>b. /\ writeBuf' > 0 => armed' = TRUE
        /\ armed' \in BOOLEAN /\ servReady' \in BOOLEAN
        /\ servReady => servReady'
    BY DEF TypeOK
  <1>1. TypeOK'
    BY <1>a, <1>b DEF TypeOK, ChatHasItsSocket, OnlyCheckedData
  <1>2. NothingLeft' /\ OutputIsArmed' /\ OutputHasAnEdge'
    BY <1>a, <1>b DEF NothingLeft, OutputIsArmed, OutputHasAnEdge,
                      ChatHasItsSocket
  <1>3. InputHasAnEdge'
    BY <1>b DEF InputHasAnEdge
  <1>4. /\ LoopAgrees' /\ ChatHasItsSocket' /\ OnlyCheckedData'
        /\ EventsAreFresh'
    BY DEF LoopAgrees, ChatHasItsSocket, OnlyCheckedData, EventsAreFresh
  <1> QED
    BY <1>1, <1>2, <1>3, <1>4

\* switchIntoChat() finds no socket and no event of one, because the chat is
\* not on; with a socket the chat is on, without one it is not.
LEMMA SwitchStep ==
    ASSUME IInv, NEW a \in Addr, switchIntoChat(a), addr' = a,
           curState # "MESSENGING", pc = "chars", Done("stdin"),
           UNCHANGED <<keyReady, winch, event, localQueue, files, alive,
                       logQueue, said>>,
           keys' \in Nat
    PROVE  IInv'
  <1> USE DEF IInv
  <1>a. /\ link = "none" /\ net = 0 /\ outq = 0 /\ writeBuf = 0
        /\ ~armed /\ ~servReady
        /\ "serv" \notin batch
        /\ "stdin" \in batch
    BY DEF ChatHasItsSocket, NothingLeft, EventsAreFresh, LoopAgrees
  <1>b. "serv" \notin batch' /\ LoopAgrees'
    BY <1>a, DoneType DEF LoopAgrees, Done
  <1>1. CASE Connected(a)
    <2>1. TypeOK'
      BY <1>1, DoneType DEF TypeOK, Connected, States
    <2> QED
      BY <1>1, <1>a, <1>b, <2>1
      DEF Connected, NothingLeft, OutputIsArmed, ChatHasItsSocket,
          OnlyCheckedData, EventsAreFresh, OutputHasAnEdge, InputHasAnEdge
  <1>2. CASE NotConnected(a)
    <2>1. TypeOK'
      BY <1>2, DoneType DEF TypeOK, NotConnected, States, sockVars
    <2> QED
      BY <1>2, <1>a, <1>b, <2>1
      DEF NotConnected, sockVars, NothingLeft, OutputIsArmed, ChatHasItsSocket,
          OnlyCheckedData, EventsAreFresh, OutputHasAnEdge, InputHasAnEdge
  <1> QED
    BY <1>1, <1>2 DEF switchIntoChat

\* The keyboard, in the menus and in the form.
LEMMA KeyboardStep ==
    IInv /\ (HandleChar \/ NoMoreChars \/ SayNothing \/ MenuConnect
             \/ MenuConfigure \/ FormConnect \/ FormRefused) => IInv'
  <1> SUFFICES ASSUME IInv PROVE
        (HandleChar \/ NoMoreChars \/ SayNothing \/ MenuConnect
         \/ MenuConfigure \/ FormConnect \/ FormRefused) => IInv'
    OBVIOUS
  <1>k. keys > 0 => keys - 1 \in Nat
    BY DEF IInv, TypeOK
  <1>1. CASE HandleChar \/ SayNothing
    BY <1>1, <1>k
    DEF HandleChar, SayNothing, Enter, sockVars, ttyVars, logVars, IInv, TypeOK,
        LoopAgrees, NothingLeft, OutputIsArmed, ChatHasItsSocket,
        OnlyCheckedData, EventsAreFresh, OutputHasAnEdge, InputHasAnEdge
  <1>2. CASE NoMoreChars
    <2>1. TypeOK'
      BY <1>2, DoneType DEF NoMoreChars, IInv, TypeOK, sockVars, ttyVars, logVars
    <2>2. LoopAgrees'
      BY <1>2 DEF NoMoreChars, IInv, LoopAgrees, Done
    <2> QED
      BY <1>2, <2>1, <2>2, DoneType
      DEF NoMoreChars, sockVars, ttyVars, logVars, IInv, NothingLeft,
          OutputIsArmed, ChatHasItsSocket, OnlyCheckedData, EventsAreFresh,
          OutputHasAnEdge, InputHasAnEdge
  <1>3. CASE MenuConnect
    <2>1. addr \in Addr /\ curState # "MESSENGING"
      BY <1>3 DEF MenuConnect, Enter, IInv, OnlyCheckedData
    <2> QED
      BY <1>3, <1>k, <2>1, SwitchStep DEF MenuConnect, Enter
  <1>4. CASE FormConnect
    <2>1. curState # "MESSENGING"
      BY <1>4 DEF FormConnect, Enter
    <2> QED
      BY <1>4, <1>k, <2>1, SwitchStep DEF FormConnect, Enter
  <1>5. CASE MenuConfigure \/ FormRefused
    <2>1. "serv" \notin batch /\ "stdin" \in batch
      BY <1>5 DEF MenuConfigure, FormRefused, Enter, IInv, EventsAreFresh,
                  LoopAgrees
    <2>2. Done("stdin")
      BY <1>5 DEF MenuConfigure, FormRefused
    <2>3. TypeOK'
      BY <1>5, <1>k, <2>2, DoneType
      DEF MenuConfigure, FormRefused, Enter, IInv, TypeOK, States, sockVars
    <2>4. LoopAgrees'
      BY <2>1, <2>2 DEF IInv, LoopAgrees, Done
    <2> QED
      BY <1>5, <2>1, <2>2, <2>3, <2>4, DoneType
      DEF MenuConfigure, FormRefused, Enter, sockVars, IInv, NothingLeft,
          OutputIsArmed, ChatHasItsSocket, OnlyCheckedData, EventsAreFresh,
          OutputHasAnEdge, InputHasAnEdge
  <1> QED
    BY <1>1, <1>2, <1>3, <1>4, <1>5

\* A resize changes the connection data only where nothing relies on it.
LEMMA WinchStep == IInv /\ HandleWinch => IInv'
  <1> SUFFICES ASSUME IInv, HandleWinch PROVE IInv'
    OBVIOUS
  <1> USE DEF IInv, HandleWinch, sockVars, ttyVars, logVars
  <1>1. TypeOK'
    BY DoneType DEF TypeOK
  <1>2. LoopAgrees'
    BY DEF LoopAgrees, Done
  <1>3. ChatHasItsSocket' /\ OnlyCheckedData'
    BY DEF ChatHasItsSocket, OnlyCheckedData
  <1>4. /\ NothingLeft' /\ OutputIsArmed' /\ EventsAreFresh'
        /\ OutputHasAnEdge' /\ InputHasAnEdge'
    BY DoneType DEF NothingLeft, OutputIsArmed, EventsAreFresh,
                    OutputHasAnEdge, InputHasAnEdge
  <1> QED
    BY <1>1, <1>2, <1>3, <1>4

\* The log thread touches nothing the invariant is about.
LEMMA LogStep == IInv /\ LogThread => IInv'
  <1> SUFFICES ASSUME IInv, LogThread PROVE IInv'
    OBVIOUS
  <1> USE DEF LogThread, TakeQueue, addToLog, sockVars, ttyVars, loopVars
  <1>1. TypeOK'
    <2>1. CASE TakeQueue
      BY <2>1 DEF IInv, TypeOK
    <2>2. CASE addToLog
      <3>1. PICK a \in localQueue :
               /\ files' = [files EXCEPT ![addr] = @ \cup {a}]
               /\ localQueue' = localQueue \ {a}
        BY <2>2
      <3>2. /\ files \in [Addr \cup {NoAddr} -> SUBSET Addr]
            /\ addr \in Addr \cup {NoAddr} /\ localQueue \subseteq Addr
        BY DEF IInv, TypeOK
      <3>3. files' \in [Addr \cup {NoAddr} -> SUBSET Addr]
        BY <3>1, <3>2
      <3> QED
        BY <2>2, <3>1, <3>2, <3>3 DEF IInv, TypeOK
    <2> QED
      BY <2>1, <2>2
  <1>2. /\ LoopAgrees' /\ NothingLeft' /\ OutputIsArmed' /\ ChatHasItsSocket'
        /\ OnlyCheckedData' /\ EventsAreFresh' /\ OutputHasAnEdge'
        /\ InputHasAnEdge'
    BY DEF IInv, LoopAgrees, NothingLeft, OutputIsArmed, ChatHasItsSocket,
           OnlyCheckedData, EventsAreFresh, OutputHasAnEdge, InputHasAnEdge
  <1> QED
    BY <1>1, <1>2 DEF IInv

\* The user and the server: what makes the socket ready puts it on the list.
LEMMA WorldStep == IInv /\ World => IInv'
  <1> SUFFICES ASSUME IInv PROVE World => IInv'
    OBVIOUS
  <1> USE DEF IInv, TypeOK, LoopAgrees, NothingLeft, OutputIsArmed,
        ChatHasItsSocket, OnlyCheckedData, EventsAreFresh, OutputHasAnEdge,
        InputHasAnEdge, sockVars, ttyVars, loopVars, logVars
  <1>1. CASE Type \/ Resize
    <2>1. /\ keys' \in Nat /\ keyReady' \in BOOLEAN /\ winch' \in BOOLEAN
          /\ UNCHANGED <<sockVars, alive, loopVars, curState, addr, config,
                         writeBuf, logVars, said>>
      <3>1. CASE Type
        BY <3>1 DEF Type
      <3>2. CASE Resize
        BY <3>2 DEF Resize
      <3> QED
        BY <1>1, <3>1, <3>2
    <2>2. TypeOK'
      BY <2>1
    <2> QED
      BY <2>1, <2>2
  <1>2. CASE ServerSends
    BY <1>2 DEF ServerSends
  <1>3. CASE ServerReads
    <2>1. outq < SockCap \/ outq = SockCap
      BY BoundsAssumption
    <2>2. 0 \in 0..SockCap
      BY BoundsAssumption
    <2> QED
      BY <1>3, <2>1, <2>2 DEF ServerReads
  <1>4. CASE ServerCloses
    BY <1>4 DEF ServerCloses
  <1>5. CASE ResetArrives
    BY <1>5 DEF ResetArrives
  <1> QED
    BY <1>1, <1>2, <1>3, <1>4, <1>5 DEF World

LEMMA StutterStep == IInv /\ UNCHANGED vars => IInv'
  BY DEF IInv, vars, sockVars, ttyVars, loopVars, logVars, TypeOK, LoopAgrees,
         NothingLeft, OutputIsArmed, ChatHasItsSocket, OnlyCheckedData,
         EventsAreFresh, OutputHasAnEdge, InputHasAnEdge

\* The invariant holds in every reachable state.
THEOREM Invariance == Spec => []IInv
  <1>1. Init => IInv
    BY InitIInv
  <1>2. IInv /\ [Next]_vars => IInv'
    BY EpollWaitStep, HangUpStep, ServWriteStep, ServReadStep, SayStep,
       KeyboardStep, WinchStep, LogStep, WorldStep, StutterStep
    DEF Next, MainThread
  <1> QED
    BY <1>1, <1>2, PTL DEF Spec

\* Every variable keeps its type.
THEOREM TypeCorrect == Spec => []TypeOK
  <1>1. IInv => TypeOK
    BY DEF IInv
  <1> QED
    BY <1>1, Invariance, PTL

\* The chat is on exactly while there is a socket, connected to the server the
\* form, the menus and the config file last named.
THEOREM ChatIsConnected == Spec => []ChatHasItsSocket
  <1>1. IInv => ChatHasItsSocket
    BY DEF IInv
  <1> QED
    BY <1>1, Invariance, PTL

\* Nothing that checkCliInfo() refuses is dialed or saved, however the user
\* types and resizes.
THEOREM DataIsChecked == Spec => []OnlyCheckedData
  <1>1. IInv => OnlyCheckedData
    BY DEF IInv
  <1> QED
    BY <1>1, Invariance, PTL

\* A pending event is never about a connection that has been replaced.
THEOREM EventsFresh == Spec => []EventsAreFresh
  <1>1. IInv => EventsAreFresh
    BY DEF IInv
  <1> QED
    BY <1>1, Invariance, PTL

\* What waits in writeBuf is written, for any capacity of the socket: EPOLLOUT
\* is asked for, and the room for it is about to be reported.
THEOREM OutputKeepsItsEdge == Spec => []OutputHasAnEdge
  <1>1. IInv => OutputHasAnEdge
    BY DEF IInv
  <1> QED
    BY <1>1, Invariance, PTL

\* What the server sent, or its end, is about to be reported: controlEpoll()
\* loses no edge of the socket between two batches.
THEOREM InputKeepsItsEdge == Spec => []InputHasAnEdge
  <1>1. IInv => InputHasAnEdge
    BY DEF IInv
  <1> QED
    BY <1>1, Invariance, PTL
=============================================================================
