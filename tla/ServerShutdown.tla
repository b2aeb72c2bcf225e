---------------------------- MODULE ServerShutdown ----------------------------
(***************************************************************************)
(* How the Multichat server stops (src/server): SIGINT through the         *)
(* signalfd, the flag shutdownAll, the condition variable of the log       *)
(* thread, the joins and killServer().                                     *)
(*                                                                         *)
(* ChatServer has the server's work in full; here an event of a client is  *)
(* a message that goes to the log, messages are numbered in the order of   *)
(* the broadcasts, and a connection is only accepted and closed.  Critical *)
(* sections that nothing can interrupt are one step: of the two mutexes    *)
(* only logMtx is ever seen locked, by a log thread about to sleep.        *)
(***************************************************************************)
EXTENDS Naturals, Sequences

CONSTANTS
    Conn,       \* the connections clients may open
    NoConn,     \* acceptLoop has no connection in hand
    MaxMsg      \* bound: messages broadcast

ASSUME ConnAssumption == NoConn \notin Conn
ASSUME MsgAssumption == MaxMsg \in Nat

VARIABLES
    signal,         \* SIGINT: "none", "pending" on the signalfd, or "read"
    shutdownAll,
    listening,      \* listenFd is open
    backlog,        \* connections that wait for accept()
    clientMap,      \* its connections
    dialed,         \* connections clients have opened
    closed,         \* connections the server's side of which is closed
    sent,           \* how many messages have been broadcast
    logQueue,
    localQueue,     \* the batch of the log thread
    files,          \* the records in the log files, in order
    mpc, apc, lpc,  \* the main, accept and log threads
    clientFd        \* the connection acceptLoop has in hand

queueVars == <<sent, logQueue, localQueue, files>>
connVars == <<listening, backlog, clientMap, dialed, closed, clientFd>>
vars == <<signal, shutdownAll, connVars, queueVars, mpc, apc, lpc>>

MainSteps == {"events", "append", "notify", "close", "joinAccept", "joinLog",
              "kill", "exited"}
AcceptSteps == {"head", "poll", "accept", "insert", "done"}
LogSteps == {"head", "lock", "block", "sleep", "write", "done"}

TypeOK ==
    /\ signal \in {"none", "pending", "read"}
    /\ shutdownAll \in BOOLEAN
    /\ listening \in BOOLEAN
    /\ backlog \subseteq Conn
    /\ clientMap \subseteq Conn
    /\ dialed \subseteq Conn
    /\ closed \subseteq Conn
    /\ sent \in Nat
    /\ logQueue \in Seq(Nat)
    /\ localQueue \in Seq(Nat)
    /\ files \in Seq(Nat)
    /\ mpc \in MainSteps
    /\ apc \in AcceptSteps
    /\ lpc \in LogSteps
    /\ clientFd \in Conn \cup {NoConn}

Init ==
    /\ signal = "none"
    /\ shutdownAll = FALSE
    /\ listening = TRUE
    /\ backlog = {}
    /\ clientMap = {}
    /\ dialed = {}
    /\ closed = {}
    /\ sent = 0
    /\ logQueue = <<>>
    /\ localQueue = <<>>
    /\ files = <<>>
    /\ mpc = "events" /\ apc = "head" /\ lpc = "head"
    /\ clientFd = NoConn

Wake == lpc' = IF lpc = "sleep" THEN "lock" ELSE lpc

(***************************************************************************)
(* The main thread.                                                        *)
(***************************************************************************)
\* clientBroadMsg(): the message has gone to every other client's buffer.
Broadcast ==
    /\ mpc = "events"
    /\ sent < MaxMsg
    /\ sent' = sent + 1
    /\ mpc' = "append"
    /\ UNCHANGED <<signal, shutdownAll, connVars, logQueue, localQueue, files,
                   apc, lpc>>

\* logMtx is taken while the log thread is about to sleep.
FaultyLogMtxFree == TRUE     \* fault: appendToLog() without the lock
LogMtxFree == lpc # "block"

AppendToLog ==
    /\ mpc = "append"
    /\ LogMtxFree
    /\ logQueue' = Append(logQueue, sent)
    /\ Wake
    /\ mpc' = "events"
    /\ UNCHANGED <<signal, shutdownAll, connVars, sent, localQueue, files, apc>>

\* The event of the signalfd; the events after it are forgotten (break).
TakeSignal ==
    /\ mpc = "events"
    /\ signal = "pending"
    /\ signal' = "read"
    /\ shutdownAll' = TRUE
    /\ mpc' = "notify"
    /\ UNCHANGED <<connVars, queueVars, apc, lpc>>

\* queueCv.notify_all(), without logMtx.
NotifyAll ==
    /\ mpc = "notify"
    /\ Wake
    /\ mpc' = "close"
    /\ UNCHANGED <<signal, shutdownAll, connVars, queueVars, apc>>

\* The kernel resets the connections nobody has accepted.
CloseListenFd ==
    /\ mpc = "close"
    /\ listening' = FALSE
    /\ backlog' = {}
    /\ closed' = closed \cup backlog
    /\ mpc' = "joinAccept"
    /\ UNCHANGED <<signal, shutdownAll, clientMap, dialed, clientFd, queueVars,
                   apc, lpc>>

JoinAccept ==
    /\ mpc = "joinAccept"
    /\ apc = "done"
    /\ mpc' = "joinLog"
    /\ UNCHANGED <<signal, shutdownAll, connVars, queueVars, apc, lpc>>

JoinLog ==
    /\ mpc = "joinLog"
    /\ lpc = "done"
    /\ mpc' = "kill"
    /\ UNCHANGED <<signal, shutdownAll, connVars, queueVars, apc, lpc>>

killServer ==
    /\ mpc = "kill"
    /\ closed' = closed \cup clientMap
    /\ clientMap' = {}
    /\ mpc' = "exited"
    /\ UNCHANGED <<signal, shutdownAll, listening, backlog, dialed, clientFd,
                   queueVars, apc, lpc>>

Stopping == TakeSignal \/ NotifyAll \/ CloseListenFd \/ JoinAccept \/ JoinLog
            \/ killServer

(***************************************************************************)
(* The accept thread.                                                      *)
(***************************************************************************)
AcceptHead ==
    /\ apc = "head"
    /\ apc' = IF shutdownAll THEN "done" ELSE "poll"
    /\ UNCHANGED <<signal, shutdownAll, connVars, queueVars, mpc, lpc>>

AcceptPoll ==
    /\ apc = "poll"
    /\ backlog # {}
    /\ apc' = "accept"
    /\ UNCHANGED <<signal, shutdownAll, connVars, queueVars, mpc, lpc>>

FaultyAcceptTimeout == FALSE    \* fault: epoll_wait() without a timeout

\* epoll_wait() gives up after 200 ms.
AcceptTimeout ==
    /\ apc = "poll"
    /\ apc' = "head"
    /\ UNCHANGED <<signal, shutdownAll, connVars, queueVars, mpc, lpc>>

FaultyAccept ==     \* fault: a failed accept() is taken for a connection
    /\ apc = "accept"
    /\ backlog = {}
    /\ apc' = "insert"
    /\ UNCHANGED <<signal, shutdownAll, connVars, queueVars, mpc, lpc>>

Accept ==
    /\ apc = "accept"
    /\ \/ \E c \in backlog :
            /\ backlog' = backlog \ {c}
            /\ clientFd' = c
            /\ apc' = "insert"
       \/ \* EAGAIN, or EBADF once listenFd is closed
          /\ backlog = {}
          /\ apc' = "head"
          /\ UNCHANGED <<backlog, clientFd>>
    /\ UNCHANGED <<signal, shutdownAll, listening, clientMap, dialed, closed,
                   queueVars, mpc, lpc>>

FaultyInsertOrClose ==  \* fault: the late connection is not closed
    /\ apc = "insert"
    /\ shutdownAll
    /\ clientFd' = NoConn
    /\ apc' = "head"
    /\ UNCHANGED <<signal, shutdownAll, listening, backlog, clientMap, dialed,
                   closed, queueVars, mpc, lpc>>

\* Under clientMapMtx: the connection that came too late is closed.
InsertOrClose ==
    /\ apc = "insert"
    /\ clientFd' = NoConn
    /\ \/ /\ shutdownAll
          /\ closed' = closed \cup {clientFd}
          /\ apc' = "head"
          /\ UNCHANGED clientMap
       \/ /\ ~shutdownAll
          /\ clientMap' = clientMap \cup {clientFd}
          /\ apc' = "accept"
          /\ UNCHANGED closed
    /\ UNCHANGED <<signal, shutdownAll, listening, backlog, dialed, queueVars,
                   mpc, lpc>>

AcceptThread == AcceptHead \/ AcceptPoll \/ AcceptTimeout \/ Accept
                \/ InsertOrClose

(***************************************************************************)
(* The log thread.                                                         *)
(***************************************************************************)
LogHead ==
    /\ lpc = "head"
    /\ lpc' = IF shutdownAll THEN "done" ELSE "lock"
    /\ UNCHANGED <<signal, shutdownAll, connVars, queueVars, mpc, apc>>

\* The predicate of queueCv.wait() is false; the thread still has logMtx.
PredicateFalse ==
    /\ lpc = "lock"
    /\ logQueue = <<>> /\ ~shutdownAll
    /\ lpc' = "block"
    /\ UNCHANGED <<signal, shutdownAll, connVars, queueVars, mpc, apc>>

\* wait() gives logMtx back and sleeps, in one step for who uses logMtx.
Block ==
    /\ lpc = "block"
    /\ lpc' = "sleep"
    /\ UNCHANGED <<signal, shutdownAll, connVars, queueVars, mpc, apc>>

\* A condition variable may wake up by itself; nobody can rely on it.
SpuriousWakeup ==
    /\ lpc = "sleep"
    /\ lpc' = "lock"
    /\ UNCHANGED <<signal, shutdownAll, connVars, queueVars, mpc, apc>>

LogBreak ==
    /\ lpc = "lock"
    /\ shutdownAll /\ logQueue = <<>>
    /\ lpc' = "done"
    /\ UNCHANGED <<signal, shutdownAll, connVars, queueVars, mpc, apc>>

FaultyTakeQueue ==  \* fault: the queue is copied, not moved
    /\ lpc = "lock"
    /\ logQueue # <<>>
    /\ localQueue' = logQueue
    /\ lpc' = "write"
    /\ UNCHANGED <<signal, shutdownAll, connVars, sent, logQueue, files, mpc, apc>>

\* Without logMtx from here on: the queue fills up again meanwhile.
TakeQueue ==
    /\ lpc = "lock"
    /\ logQueue # <<>>
    /\ localQueue' = logQueue
    /\ logQueue' = <<>>
    /\ lpc' = "write"
    /\ UNCHANGED <<signal, shutdownAll, connVars, sent, files, mpc, apc>>

addToLog ==
    /\ lpc = "write"
    /\ files' = Append(files, Head(localQueue))
    /\ localQueue' = Tail(localQueue)
    /\ lpc' = IF Tail(localQueue) = <<>> THEN "head" ELSE "write"
    /\ UNCHANGED <<signal, shutdownAll, connVars, sent, logQueue, mpc, apc>>

LogThread == LogHead \/ PredicateFalse \/ Block \/ LogBreak \/ TakeQueue
             \/ addToLog

(***************************************************************************)
(* The world: clients dial, somebody presses Ctrl-C.                       *)
(***************************************************************************)
Dial(c) ==
    /\ listening
    /\ c \notin dialed
    /\ dialed' = dialed \cup {c}
    /\ backlog' = backlog \cup {c}
    /\ UNCHANGED <<signal, shutdownAll, listening, clientMap, closed, clientFd,
                   queueVars, mpc, apc, lpc>>

Interrupt ==
    /\ signal = "none"
    /\ signal' = "pending"
    /\ UNCHANGED <<shutdownAll, connVars, queueVars, mpc, apc, lpc>>

World == (\E c \in Conn : Dial(c)) \/ Interrupt

Next == Broadcast \/ AppendToLog \/ Stopping \/ AcceptThread \/ LogThread
        \/ SpuriousWakeup \/ World

Spec == Init /\ [][Next]_vars

\* The threads are scheduled; no client has to say anything.  Nobody can count
\* on a spurious wakeup, nor do they come for ever (a thread that always finds
\* logMtx taken by one that falls asleep again would be starved).
FairSpec ==
    /\ Spec
    /\ WF_vars(AppendToLog \/ Stopping)
    /\ WF_vars(AcceptThread)
    /\ WF_vars(LogThread)
    /\ <>[][~SpuriousWakeup]_vars

(***************************************************************************)
(* Properties.                                                             *)
(***************************************************************************)
Unqueued == IF mpc = "append" THEN <<sent>> ELSE <<>>

\* No message is lost, doubled or overtaken between the broadcast and the
\* file, whatever the moment of the shutdown: the files, the log thread's
\* batch, the queue and the message in hand are the broadcasts, in order.
NoMessageMislaid ==
    files \o localQueue \o logQueue \o Unqueued = [i \in 1..sent |-> i]

\* A connection is in one place at any moment, also one that comes in while
\* the threads are told to stop: it waits, the accept thread has it in hand,
\* it is in clientMap, or it is closed; and it is closed when the server exits.
NobodyIsForgotten ==
    /\ dialed \subseteq backlog \cup {clientFd} \cup clientMap \cup closed
    /\ clientMap \cap (closed \cup {clientFd}) = {}
    /\ mpc = "exited" => dialed \subseteq closed

\* A broadcast message is written unless the server is told to stop: no
\* message waits in the queue of a log thread that sleeps.
MessagesAreWritten ==
    \A m \in 1..MaxMsg : (sent >= m) ~> (Len(files) >= m \/ shutdownAll)

\* The only way the server can fail to stop is a log thread that tested the
\* predicate before shutdownAll was set and went to sleep after notify_all().
Overslept ==
    mpc = "joinLog" /\ lpc = "sleep" /\ logQueue = <<>> /\ localQueue = <<>>
StopsUnlessOverslept ==
    [](shutdownAll => <>[](mpc = "exited" \/ Overslept))

\* README: "Logs all broadcast messages and connection events".
AllBroadcastsLogged == mpc = "exited" => Len(files) = sent
=============================================================================
