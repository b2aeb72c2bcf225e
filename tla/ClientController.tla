--------------------------- MODULE ClientController ---------------------------
(***************************************************************************)
(* The Multichat client (src/client): the controller's epoll loop and its  *)
(* four states, the socket of the server, the form's connection data, the  *)
(* config file, and the log thread.                                        *)
(*                                                                         *)
(* Abstractions.  What the user types is the Enter at the end of a         *)
(* selection, a form or a line; a server is named by its address, and      *)
(* NoAddr stands for whatever checkCliInfo() refuses.  Only messages that  *)
(* are logged are packets, named by the server they belong to.  Dialing,   *)
(* CMG_CONNECT and its answer are one step of this thread (ChatServer has  *)
(* them in full), which fails or not.  The queues and files of the log     *)
(* thread are sets: their order is the subject of ServerShutdown, whose    *)
(* queue is the same code.  Drawing is left out.                           *)
(***************************************************************************)
EXTENDS Naturals

CONSTANTS
    Addr,       \* the addresses of servers
    NoAddr,     \* connection data that is not valid, or missing
    SockCap,    \* messages the socket takes before write() says EAGAIN
    MaxKeys,    \* bound: Enter keys not yet read
    MaxSaid,    \* bound: messages the user sends
    MaxUnread   \* bound: messages the server has sent and we have not read

ASSUME AddrAssumption == NoAddr \notin Addr
ASSUME BoundsAssumption ==
    /\ SockCap \in Nat \ {0}
    /\ MaxKeys \in Nat /\ MaxSaid \in Nat /\ MaxUnread \in Nat

VARIABLES
    \* the socket of servFd, as this host's kernel knows it
    link,       \* "none" while servFd = -1; "open"; "fin" or "rst" came
    server,     \* the address it is connected to
    net,        \* messages to be read
    outq,       \* messages written and not yet taken by the server
    reset,      \* a RST is under way: we wrote to a closed server
    armed,      \* EPOLLOUT is asked for
    servReady,  \* the socket is on the ready list of epollFd
    \* the terminal
    keys,       \* Enter keys not yet read
    keyReady,   \* stdin is on the ready list
    winch,      \* a SIGWINCH is on the signalfd
    \* the process
    alive,
    pc,         \* "wait" in epoll_wait(), "loop" over events, "chars" in handleChar()
    batch,      \* events to be handled: "serv", "stdin", "winch"
    event,      \* the bits of the "serv" event
    curState,   \* curState->state
    addr,       \* clientInfo
    config,     \* the config file
    writeBuf,   \* messages not yet written
    logQueue, localQueue,   \* the servers of the messages in the queues
    files,      \* files[d]: the servers whose messages are in the logs of d
    said        \* how many messages the user has sent

sockVars == <<link, server, net, outq, reset, armed, servReady>>
ttyVars == <<keys, keyReady, winch>>
loopVars == <<pc, batch, event>>
logVars == <<logQueue, localQueue, files>>
vars == <<sockVars, ttyVars, alive, loopVars, curState, addr, config, writeBuf,
          logVars, said>>

States == {"FILE_DETECT", "FORM_FILL", "RECONNECT", "MESSENGING"}
NoEvent == [hup |-> FALSE, in |-> FALSE, out |-> FALSE]

TypeOK ==
    /\ link \in {"none", "open", "fin", "rst"}
    /\ server \in Addr \cup {NoAddr}
    /\ net \in Nat
    /\ outq \in 0..SockCap
    /\ reset \in BOOLEAN
    /\ armed \in BOOLEAN
    /\ servReady \in BOOLEAN
    /\ keys \in Nat
    /\ keyReady \in BOOLEAN
    /\ winch \in BOOLEAN
    /\ alive \in BOOLEAN
    /\ pc \in {"wait", "loop", "chars"}
    /\ batch \subseteq {"serv", "stdin", "winch"}
    /\ event \in [hup : BOOLEAN, in : BOOLEAN, out : BOOLEAN]
    /\ curState \in States
    /\ addr \in Addr \cup {NoAddr}
    /\ config \in Addr \cup {NoAddr}
    /\ writeBuf \in Nat
    /\ logQueue \subseteq Addr
    /\ localQueue \subseteq Addr
    /\ files \in [Addr \cup {NoAddr} -> SUBSET Addr]
    /\ said \in Nat

\* main(): a config file that passes fileVerify() leads to the menu, none to
\* the form.
Init ==
    /\ link = "none" /\ server = NoAddr /\ net = 0 /\ outq = 0
    /\ reset = FALSE /\ armed = FALSE /\ servReady = FALSE
    /\ keys = 0 /\ keyReady = FALSE /\ winch = FALSE
    /\ alive = TRUE
    /\ pc = "wait" /\ batch = {} /\ event = NoEvent
    /\ config \in Addr \cup {NoAddr}
    /\ addr = config
    /\ curState = IF config = NoAddr THEN "FORM_FILL" ELSE "FILE_DETECT"
    /\ writeBuf = 0
    /\ logQueue = {} /\ localQueue = {}
    /\ files = [d \in Addr \cup {NoAddr} |-> {}]
    /\ said = 0

(***************************************************************************)
(* The event loop.                                                         *)
(***************************************************************************)
\* What epoll reports of the socket.  A FIN alone is EPOLLIN; a RST closes
\* both ways, which is EPOLLHUP with everything that is asked for.
Bits(l, n, q, a) ==
    [hup |-> l = "rst",
     in  |-> n > 0 \/ l \in {"fin", "rst"},
     out |-> a /\ (q < SockCap \/ l = "rst")]

Reported == IF link # "none" /\ servReady THEN Bits(link, net, outq, armed)
            ELSE NoEvent

EpollWait ==
    /\ alive
    /\ pc = "wait"
    /\ batch' = {e \in {"serv", "stdin", "winch"} :
                    CASE e = "serv" -> Reported # NoEvent
                      [] e = "stdin" -> keyReady
                      [] e = "winch" -> winch}
    /\ batch' # {}
    /\ event' = Reported
    /\ pc' = "loop"
    /\ servReady' = FALSE /\ keyReady' = FALSE /\ winch' = FALSE
    /\ UNCHANGED <<link, server, net, outq, reset, armed, keys, alive, curState,
                   addr, config, writeBuf, logVars, said>>

\* The next event of the batch, or the next epoll_wait().
Done(e) == /\ batch' = batch \ {e}
           /\ pc' = IF batch = {e} THEN "wait" ELSE "loop"

\* fd == servFd, and we are in the chat: handleServFd().
Serves == alive /\ pc = "loop" /\ "serv" \in batch

FaultyHangUp ==     \* fault: the loop does not leave the event behind
    /\ Serves
    /\ event.hup
    /\ link' = "none" /\ server' = NoAddr /\ net' = 0 /\ outq' = 0
    /\ reset' = FALSE /\ armed' = FALSE /\ servReady' = FALSE
    /\ curState' = "RECONNECT"
    /\ writeBuf' = 0
    /\ UNCHANGED <<alive, loopVars, ttyVars, addr, config, logVars, said>>

FaultyIgnoreHup ==  \* fault: no test of EPOLLHUP and EPOLLERR
    /\ Serves
    /\ event.hup
    /\ event' = NoEvent
    /\ Done("serv")
    /\ UNCHANGED <<sockVars, ttyVars, alive, curState, addr, config, writeBuf,
                   logVars, said>>

\* The chat is torn down, the socket closed.  The bits that are left are then
\* handled as if the chat were there: handleRead() fails on servFd = -1 without
\* harm, handleWrite() takes the error of write(-1) for the end.
HangUp ==
    /\ Serves
    /\ event.hup
    /\ link' = "none" /\ server' = NoAddr /\ net' = 0 /\ outq' = 0
    /\ reset' = FALSE /\ armed' = FALSE /\ servReady' = FALSE
    /\ curState' = "RECONNECT"
    /\ writeBuf' = 0
    /\ alive' = ~event.out
    /\ event' = NoEvent
    /\ Done("serv")
    /\ UNCHANGED <<ttyVars, addr, config, logVars, said>>

\* write(servFd) of n messages: as many as fit.  After a RST it is the end of
\* the process (EPIPE, and SIGPIPE is not handled).
FaultyFits(n) == n      \* fault: short writes are not expected
Fits(n) == IF n < SockCap - outq THEN n ELSE SockCap - outq
Write(n) ==
    /\ alive' = (link # "rst")
    /\ outq' = outq + Fits(n)
    /\ writeBuf' = n - Fits(n)
    /\ reset' = (reset \/ (link = "fin" /\ Fits(n) > 0))

FaultyServWrite ==  \* fault: the EPOLLOUT bit is ignored
    /\ Serves
    /\ event.out /\ ~event.hup
    /\ event' = [event EXCEPT !.out = FALSE]
    /\ IF event.in THEN UNCHANGED <<batch, pc>> ELSE Done("serv")
    /\ UNCHANGED <<sockVars, ttyVars, alive, curState, addr, config, writeBuf,
                   logVars, said>>

\* handleWrite(); EPOLL_CTL_MOD puts a socket that is ready on the ready list.
ServWrite ==
    /\ Serves
    /\ event.out /\ ~event.hup
    /\ Write(writeBuf)
    /\ armed' = (writeBuf' > 0)
    /\ servReady' = (servReady \/ Bits(link, net, outq', armed') # NoEvent)
    /\ event' = [event EXCEPT !.out = FALSE]
    /\ IF event.in THEN UNCHANGED <<batch, pc>> ELSE Done("serv")
    /\ UNCHANGED <<link, server, net, ttyVars, curState, addr, config, logVars,
                   said>>

FaultyServRead ==   \* fault: one read() per event
    /\ Serves
    /\ event.in /\ ~event.out /\ ~event.hup
    /\ net' = IF net = 0 THEN 0 ELSE net - 1
    /\ event' = NoEvent
    /\ Done("serv")
    /\ UNCHANGED <<link, server, outq, reset, armed, servReady, ttyVars, alive,
                   curState, addr, config, writeBuf, logVars, said>>

\* handleRead(): every message is shown and queued for the log, unless the end
\* of the stream comes right after them, which makes it return before it looks.
ServRead ==
    /\ Serves
    /\ event.in /\ ~event.out /\ ~event.hup
    /\ net' = 0
    /\ logQueue' = IF link = "open" /\ net > 0 THEN logQueue \cup {server}
                   ELSE logQueue
    /\ event' = NoEvent
    /\ Done("serv")
    /\ UNCHANGED <<link, server, outq, reset, armed, servReady, ttyVars, alive,
                   curState, addr, config, writeBuf, localQueue, files, said>>

(***************************************************************************)
(* The keyboard: handleChar() gives the state one key after the other until *)
(* there are none, or the state is done.                                   *)
(***************************************************************************)
HandleChar ==
    /\ alive
    /\ pc = "loop" /\ "stdin" \in batch
    /\ pc' = "chars"
    /\ UNCHANGED <<sockVars, ttyVars, alive, batch, event, curState, addr,
                   config, writeBuf, logVars, said>>

NoMoreChars ==
    /\ alive
    /\ pc = "chars"
    /\ keys = 0
    /\ Done("stdin")
    /\ UNCHANGED <<sockVars, ttyVars, alive, event, curState, addr, config,
                   writeBuf, logVars, said>>

Enter(S) ==
    /\ alive
    /\ pc = "chars"
    /\ keys > 0
    /\ curState \in S
    /\ keys' = keys - 1
    /\ UNCHANGED <<keyReady, winch, event, localQueue, files>>

FaultySay ==        \* fault: no EPOLLOUT for what did not fit
    /\ Enter({"MESSENGING"})
    /\ said < MaxSaid
    /\ said' = said + 1
    /\ logQueue' = logQueue \cup {server}
    /\ Write(writeBuf + 1)
    /\ UNCHANGED <<link, server, net, armed, servReady, pc, batch, curState,
                   addr, config>>

\* A line is entered in the chat: ChatContext::handleCh().
Say ==
    /\ Enter({"MESSENGING"})
    /\ said < MaxSaid
    /\ said' = said + 1
    /\ logQueue' = logQueue \cup {server}
    /\ Write(writeBuf + 1)
    /\ IF writeBuf' > 0
       THEN /\ armed' = TRUE
            /\ servReady' = (servReady \/ Bits(link, net, outq', TRUE) # NoEvent)
       ELSE UNCHANGED <<armed, servReady>>
    /\ UNCHANGED <<link, server, net, pc, batch, curState, addr, config>>

\* An Enter with nothing typed.
SayNothing ==
    /\ Enter({"MESSENGING"})
    /\ UNCHANGED <<sockVars, pc, batch, alive, curState, addr, config, writeBuf,
                   logQueue, said>>

\* switchIntoChat(): the chat starts up, and saves the connection data, also if
\* there is no connection.
Connected(a) ==
    /\ link' = "open" /\ server' = a
    /\ curState' = "MESSENGING"
    /\ config' = a
    /\ writeBuf' = 0
    /\ UNCHANGED <<net, outq, reset, armed, servReady>>
FaultyNotConnected(a) ==    \* fault: servFd < 0 is not tested
    /\ curState' = "MESSENGING"
    /\ config' = a
    /\ UNCHANGED <<sockVars, writeBuf>>
NotConnected(a) ==
    /\ curState' = "RECONNECT"
    /\ config' = a
    /\ UNCHANGED <<sockVars, writeBuf>>
switchIntoChat(a) == Connected(a) \/ NotConnected(a)

\* "Use Existing" and "Reconnect".
MenuConnect ==
    /\ Enter({"FILE_DETECT", "RECONNECT"})
    /\ switchIntoChat(addr)
    /\ Done("stdin")
    /\ UNCHANGED <<alive, addr, logQueue, said>>

\* "Configure New" and "Configure".
MenuConfigure ==
    /\ Enter({"FILE_DETECT", "RECONNECT"})
    /\ curState' = "FORM_FILL"
    /\ Done("stdin")
    /\ UNCHANGED <<sockVars, alive, addr, config, writeBuf, logQueue, said>>

FormConnect ==
    /\ Enter({"FORM_FILL"})
    /\ addr' \in Addr
    /\ switchIntoChat(addr')
    /\ Done("stdin")
    /\ UNCHANGED <<alive, logQueue, said>>

FaultyFormRefused ==    \* fault: refused data leads to the menu
    /\ Enter({"FORM_FILL"})
    /\ addr' = NoAddr
    /\ curState' = "RECONNECT"
    /\ Done("stdin")
    /\ UNCHANGED <<sockVars, alive, config, writeBuf, logQueue, said>>

\* checkCliInfo() refuses: an empty form again.
FormRefused ==
    /\ Enter({"FORM_FILL"})
    /\ addr' = NoAddr
    /\ Done("stdin")
    /\ UNCHANGED <<sockVars, alive, curState, config, writeBuf, logQueue, said>>

(***************************************************************************)
(* handleWinch(): redraw() of a form tears it down, which stores whatever   *)
(* is typed so far, and that of the first menu reads the config file.      *)
(***************************************************************************)
HandleWinch ==
    /\ alive
    /\ pc = "loop" /\ "winch" \in batch
    /\ \/ curState = "FORM_FILL" /\ addr' \in Addr \cup {NoAddr}
       \/ curState = "FILE_DETECT" /\ addr' = config
       \/ curState \in {"RECONNECT", "MESSENGING"} /\ UNCHANGED addr
    /\ Done("winch")
    /\ UNCHANGED <<sockVars, ttyVars, alive, event, curState, config, writeBuf,
                   logVars, said>>

MainThread ==
    \/ EpollWait \/ HangUp \/ ServWrite \/ ServRead
    \/ HandleChar \/ NoMoreChars \/ Say \/ SayNothing
    \/ MenuConnect \/ MenuConfigure \/ FormConnect \/ FormRefused
    \/ HandleWinch

(***************************************************************************)
(* The log thread.                                                         *)
(***************************************************************************)
TakeQueue ==
    /\ alive
    /\ localQueue = {} /\ logQueue # {}
    /\ localQueue' = logQueue
    /\ logQueue' = {}
    /\ UNCHANGED <<sockVars, ttyVars, alive, loopVars, curState, addr, config,
                   writeBuf, files, said>>

\* getLogDir() is of the address clientInfo has now.
addToLog ==
    /\ alive
    /\ \E a \in localQueue :
        /\ files' = [files EXCEPT ![addr] = @ \cup {a}]
        /\ localQueue' = localQueue \ {a}
    /\ UNCHANGED <<sockVars, ttyVars, alive, loopVars, curState, addr, config,
                   writeBuf, logQueue, said>>

LogThread == TakeQueue \/ addToLog

(***************************************************************************)
(* The user and the server.                                                *)
(***************************************************************************)
Type ==
    /\ alive
    /\ keys < MaxKeys
    /\ keys' = keys + 1
    /\ keyReady' = TRUE
    /\ UNCHANGED <<winch, sockVars, alive, loopVars, curState, addr, config,
                   writeBuf, logVars, said>>

Resize ==
    /\ alive
    /\ ~winch
    /\ winch' = TRUE
    /\ UNCHANGED <<keys, keyReady, sockVars, alive, loopVars, curState, addr,
                   config, writeBuf, logVars, said>>

ServerSends ==
    /\ alive
    /\ link = "open"
    /\ net < MaxUnread
    /\ net' = net + 1
    /\ servReady' = TRUE
    /\ UNCHANGED <<link, server, outq, reset, armed, ttyVars, alive, loopVars,
                   curState, addr, config, writeBuf, logVars, said>>

ServerReads ==
    /\ alive
    /\ link = "open" /\ outq > 0
    /\ outq' = 0
    /\ servReady' = (servReady \/ (armed /\ outq = SockCap))
    /\ UNCHANGED <<link, server, net, reset, armed, ttyVars, alive, loopVars,
                   curState, addr, config, writeBuf, logVars, said>>

\* A server that closes with our messages unread resets the connection.
ServerCloses ==
    /\ alive
    /\ link = "open"
    /\ link' = IF outq = 0 THEN "fin" ELSE "rst"
    /\ servReady' = TRUE
    /\ UNCHANGED <<server, net, outq, reset, armed, ttyVars, alive, loopVars,
                   curState, addr, config, writeBuf, logVars, said>>

ResetArrives ==
    /\ alive
    /\ link = "fin" /\ reset
    /\ link' = "rst"
    /\ servReady' = TRUE
    /\ UNCHANGED <<server, net, outq, reset, armed, ttyVars, alive, loopVars,
                   curState, addr, config, writeBuf, logVars, said>>

World == Type \/ Resize \/ ServerSends \/ ServerReads \/ ServerCloses
         \/ ResetArrives

Next == MainThread \/ LogThread \/ World

Spec == Init /\ [][Next]_vars

\* The threads are scheduled, the server reads, a reset arrives.  No user
\* types for ever so fast that handleChar() never runs out of keys.
FairSpec ==
    /\ Spec
    /\ WF_vars(MainThread)
    /\ []<>(pc # "chars" \/ ~alive)
    /\ WF_vars(LogThread)
    /\ WF_vars(ServerReads)
    /\ WF_vars(ResetArrives)

(***************************************************************************)
(* Properties.                                                             *)
(***************************************************************************)
\* The chat is on exactly while there is a socket, and the socket, the chat's
\* connection data and the config file are about the same server.
ChatHasItsSocket ==
    /\ curState = "MESSENGING" <=> link # "none"
    /\ curState = "MESSENGING" => server = addr /\ server = config

\* Only data that passed checkCliInfo() is ever dialed or saved: outside the
\* form clientInfo is valid, whatever was typed, resized or refused before.
OnlyCheckedData == curState # "FORM_FILL" => addr \in Addr /\ config \in Addr

\* A pending event of the socket finds the chat and the connection it was
\* reported for, although other events of the same batch change the state.
EventsAreFresh ==
    "serv" \in batch =>
        /\ curState = "MESSENGING"
        /\ event.hup => link = "rst"

\* Messages that could be written wait for an event that will come.
OutputHasAnEdge ==
    (alive /\ link = "open" /\ writeBuf > 0 /\ outq < SockCap) =>
        (armed /\ servReady) \/ ("serv" \in batch /\ event.out)

\* Messages that have come are not left unread in the socket.
InputHasAnEdge ==
    (alive /\ link # "none" /\ net > 0) =>
        servReady \/ ("serv" \in batch /\ (event.in \/ event.hup))

\* A reset connection ends in the reconnect menu or with the process.
ResetIsNoticed == (link = "rst") ~> (~alive \/ curState = "RECONNECT")

\* A message the user sent leaves the client unless the connection ends.
OutputDrains == (writeBuf > 0) ~> (~alive \/ writeBuf = 0 \/ link # "open")

\* README: "The client can attempt to reconnect if the connection fails."
EndIsNoticed == (link = "fin") ~> (~alive \/ curState # "MESSENGING")

\* README: "The client also maintains logs of chat activity per server".
FiledAtHome == \A a \in Addr \cup {NoAddr} : files[a] \subseteq {a}
=============================================================================
