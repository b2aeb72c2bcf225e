------------------------------ MODULE HistorySync ------------------------------
(***************************************************************************)
(* How a client's history is kept and completed: every message goes into   *)
(* the client's log (src/client/logging.cpp), and a client that connects   *)
(* says how new its newest record is (getLatestLoggedMsgTime) and is sent  *)
(* what the server has on file after that (sendBackLogFiles).              *)
(*                                                                         *)
(* Both log threads write from a queue, times are whole seconds of two     *)
(* clocks, and connections and programs end at any moment.  What           *)
(* LogRetention says of the files is all that is used of it: the oldest go *)
(* first, and today's stays.  The client is only ever on this one server.  *)
(***************************************************************************)
EXTENDS Integers, SequencesExt, Subsequence

CONSTANTS
    Skew,           \* what the client's clock may be ahead of the server's
    DayLength,      \* seconds in a day
    MaxTime,        \* bound: seconds
    MaxMsg,         \* bound: messages
    MaxDials        \* bound: connections of the client

VARIABLES
    now,            \* the server's clock
    skew,           \* how far ahead the client's is
    count,          \* messages so far: each has its number
    dials,          \* connections so far
    files,          \* the server's log files, oldest record first
    servQueue,      \* the server's logQueue
    conn,           \* the client: "off", "dialing", "in" the chat
    since,          \* ClientConnect.timestamp of the CMG_CONNECT under way, or 0
    up,             \* the client's messages on their way
    down,           \* records on their way to the client
    cliQueue,       \* the client's logQueue
    history,        \* history: all records ever written to the client's files
    passed,         \* history: messages that were in servQueue at a replay
    raced           \* history: the client dialed with records in cliQueue

connVars == <<dials, conn, since, up, down>>
servVars == <<files, servQueue>>
cliVars == <<cliQueue, history>>
histVars == <<passed, raced>>
vars == <<now, skew, count, servVars, connVars, cliVars, histVars>>

Record == [id : Nat, own : BOOLEAN, ts : Int]

TypeOK ==
    /\ now \in Nat
    /\ skew \in Skew
    /\ count \in Nat /\ dials \in Nat
    /\ files \in Seq(Record) /\ servQueue \in Seq(Record)
    /\ conn \in {"off", "dialing", "in"}
    /\ since \in Int
    /\ up \in Seq(Nat)
    /\ down \in Seq(Record)
    /\ cliQueue \in Seq(Record) /\ history \in Seq(Record)
    /\ passed \subseteq Nat
    /\ raced \in BOOLEAN

Init ==
    /\ now = DayLength      \* records are never of time 0
    /\ skew \in Skew
    /\ count = 0 /\ dials = 0
    /\ files = <<>> /\ servQueue = <<>>
    /\ conn = "off" /\ since = 0
    /\ up = <<>> /\ down = <<>>
    /\ cliQueue = <<>> /\ history = <<>>
    /\ passed = {}
    /\ raced = FALSE

Ids(s) == {s[i].id : i \in DOMAIN s}
DayOf(t) == t \div DayLength

(***************************************************************************)
(* Messages.                                                               *)
(***************************************************************************)
\* The server has the message of id, of this client or another: it goes to
\* the log queue, and to the client unless it is its own.
Broadcast(m) ==
    /\ servQueue' = Append(servQueue, m)
    /\ down' = IF conn = "in" /\ ~m.own THEN Append(down, m) ELSE down

OthersSay ==
    /\ count < MaxMsg
    /\ count' = count + 1
    /\ Broadcast([id |-> count', own |-> FALSE, ts |-> now])
    /\ UNCHANGED <<now, skew, files, dials, conn, since, up, cliVars, histVars>>

\* Enter: the client logs the message with its own time, and sends it.
Say ==
    /\ conn = "in"
    /\ count < MaxMsg
    /\ count' = count + 1
    /\ up' = Append(up, count')
    /\ cliQueue' = Append(cliQueue,
                          [id |-> count', own |-> TRUE, ts |-> now + skew])
    /\ UNCHANGED <<now, skew, servVars, dials, conn, since, down, history,
                   histVars>>

clientBroadMsg ==
    /\ up # <<>>
    /\ up' = Tail(up)
    /\ Broadcast([id |-> Head(up), own |-> TRUE, ts |-> now])
    /\ UNCHANGED <<now, skew, count, files, dials, conn, since, cliVars, histVars>>

serverBroadMsg ==
    /\ down # <<>>
    /\ down' = Tail(down)
    /\ cliQueue' = Append(cliQueue, Head(down))
    /\ UNCHANGED <<now, skew, count, servVars, dials, conn, since, up, history,
                   histVars>>

(***************************************************************************)
(* The log threads.                                                        *)
(***************************************************************************)
\* Files of days before the newest go, oldest first (weenLogFiles).
WithoutOldest(s) ==
    {Only(s, {r \in Record : DayOf(r.ts) >= d}) : d \in 0..DayOf(Last(s).ts)}

ServerLogs ==
    /\ servQueue # <<>>
    /\ servQueue' = Tail(servQueue)
    /\ files' \in WithoutOldest(Append(files, Head(servQueue)))
    /\ UNCHANGED <<now, skew, count, connVars, cliVars, histVars>>

ClientLogs ==
    /\ cliQueue # <<>>
    /\ cliQueue' = Tail(cliQueue)
    /\ history' = Append(history, Head(cliQueue))
    /\ UNCHANGED <<now, skew, count, servVars, connVars, histVars>>

(***************************************************************************)
(* Connections.                                                            *)
(***************************************************************************)
\* The last record of the newest file, whosever it is.
getLatestLoggedMsgTime == IF history = <<>> THEN 0 ELSE Last(history).ts

\* sendOneConn(), in the chat's thread: the client's log thread may still
\* be writing.
Dial ==
    /\ conn = "off"
    /\ dials < MaxDials
    /\ dials' = dials + 1
    /\ conn' = "dialing"
    /\ since' = getLatestLoggedMsgTime
    /\ raced' = (raced \/ cliQueue # <<>>)
    /\ UNCHANGED <<now, skew, count, servVars, up, down, cliVars, passed>>

FaultySendBack(s, t) == Only(s, {r \in Record : r.ts >= t})  \* fault: >=
FaultySendNewest(s, t) ==   \* fault: only the newest file is read
    Only(s, {r \in Record : r.ts > t /\ DayOf(r.ts) = DayOf(Last(s).ts)})

sendBackLogFiles(s, t) == Only(s, {r \in Record : r.ts > t})

\* clientConnect() of this client.
Admit ==
    /\ conn = "dialing"
    /\ conn' = "in"
    /\ down' = sendBackLogFiles(files, since)
    /\ passed' = passed \cup Ids(servQueue)
    /\ since' = 0
    /\ UNCHANGED <<now, skew, count, servVars, dials, up, cliVars, raced>>

\* The connection ends: what is under way either way is lost.
Hangup ==
    /\ conn' = "off"
    /\ up' = <<>> /\ down' = <<>>
    /\ since' = 0
    /\ UNCHANGED dials

Disconnect ==
    /\ conn # "off"
    /\ Hangup
    /\ UNCHANGED <<now, skew, count, servVars, cliVars, histVars>>

\* The client's process ends, by exit() or otherwise; its queue is lost.
ClientExits ==
    /\ conn # "off" \/ cliQueue # <<>>
    /\ Hangup
    /\ cliQueue' = <<>>
    /\ UNCHANGED <<now, skew, count, servVars, history, histVars>>

\* The server's process ends, the log thread's queue is lost unless it was
\* written before, and the next one starts.
ServerRestarts ==
    /\ Hangup
    /\ servQueue' = <<>>
    /\ files' \in IF files = <<>> THEN {<<>>} ELSE WithoutOldest(files)
    /\ UNCHANGED <<now, skew, count, cliVars, histVars>>

Tick ==
    /\ now < DayLength + MaxTime
    /\ now' = now + 1
    /\ UNCHANGED <<skew, count, servVars, connVars, cliVars, histVars>>

Next ==
    \/ OthersSay \/ Say \/ clientBroadMsg \/ serverBroadMsg
    \/ ServerLogs \/ ClientLogs
    \/ Dial \/ Admit \/ Disconnect \/ ClientExits \/ ServerRestarts
    \/ Tick

Spec == Init /\ [][Next]_vars

(***************************************************************************)
(* Properties.                                                             *)
(***************************************************************************)
Received == history \o cliQueue \o down

\* Whatever connections and programs do, the history has every message of
\* others at most once and in the order of the server: replayed and live
\* messages never overlap.  Two things break it, and nothing else: a client
\* whose clock is behind, and one that dials before its log thread is done.
OthersOnceInOrder ==
    skew >= 0 /\ ~raced =>
        \A i, j \in DOMAIN Received :
            i < j /\ ~Received[i].own /\ ~Received[j].own =>
                Received[i].id < Received[j].id

\* A client in the chat has, or is about to get, every message of others the
\* server has on file, but for three losses: the message was in the server's
\* queue when the client was let in; it is of the same second as another the
\* client had already; or the client had said something no earlier than it.
GapsAreExplained ==
    conn = "in" =>
        \A i \in DOMAIN files : LET m == files[i] IN
            \/ m.own
            \/ m.id \in Ids(Received) \cup passed
            \/ \E j \in DOMAIN history : LET r == history[j] IN
                \/ r.own /\ r.ts >= m.ts
                \/ r.id # m.id /\ r.ts = m.ts
=============================================================================
