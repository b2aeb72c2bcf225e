# Multichat in TLA+

A specification of the [Multichat](../src/README.md) chat server and client: TLA+
modules translated from the C++ source, TLC runs that check them on small
instances, and TLAPS proofs for instances of any size.

## 1. The system

| part | code | state | operations |
|---|---|---|---|
| event loop (main thread) | `server/server.cpp`, `server/servUtils.cpp` | `clientMap` (per descriptor: `readBuf`, `writeBuf`, `epollMask`, `username`, `markToDie`), `epollFd` | `epoll_wait`, `handleRead`, `protocolParser`, `handleWrite`, `dropClient` |
| registry | `servUtils.cpp` | `userMap`, `clientMap[fd].username` | `clientConnect`, `valConnMsg`, `killUser` |
| accept thread | `server.cpp: acceptLoop` | its own epoll instance with the listening socket | `accept`, `emplace`, `addFdToEpoll` |
| log thread | `server/logging.cpp` | `logQueue`, one file per day | `appendToLog`, `logLoop`, `addToLog`, `weenLogFiles`, `sendBackLogFiles` |
| shutdown | `main`, `killServer` | `shutdownAll`, the signalfd | wake the threads, join them, close everything |
| client session | `client/chatWin/network.cpp`, `packet.cpp`, `ui.cpp` | `servFd`, `readBuf`, `writeBuf`, `userConns` | `servFdStart`, `recvOneVal`, `handleRead`, `handleWrite`, a line entered |
| client controller | `client/controller.cpp`, `*/control.cpp` | `curState`: file, form, chat, reconnect | `stateChange`, `switchIntoChat`, `handleServFd` |
| client log | `client/logging.cpp`, `interface.cpp` | `logQueue`, `reaccLogTarget`, files per server and day | `logLoop`, `restoreHistory`, `getLatestLoggedMsgTime` |
| windows, form, menus | `client/chatWin`, `formWin`, `menuWin` | ring of messages, pad, fields | drawing, scrolling, validating |
| protocol | `protocol.cpp` | none | `parse`, `serialize` |

How they interact.  The accept thread and the main thread share `clientMap`
under `clientMapMtx`, and the epoll instance; the main thread and the log
thread share `logQueue` under `logMtx` and the files under `fileMtx`.  The
clients reach the server through TCP and edge-triggered epoll: an edge that is
not acted upon is not reported again.

What is hard.  Most steps of the main thread run without the mutex, and
`dropClient()` gives it back half-way; the events of one `epoll_wait()` are
handled while descriptors are closed and reused by the accept thread; buffers
of slow clients wait for an edge; a client may go away, or be reset, at any
moment; a newcomer gets the log replayed while messages are still in the queue.
The server's shutdown crosses three threads and a condition variable.  The
client's controller handles several events of one `epoll_wait()` while each may
replace the state the next one is for, and its log thread reads the connection
data the form is changing.  The list `hazards` of `PROJECT.json` names every
such place with its line.

What makes each part correct: the registry has one holder per name and forgets
it with the connection; every pending event is about the connection it was
reported for; nothing that can be read or written waits without an edge; every
client's list of users adds up to the registry; every client hears each message
of the room once and in one order; a connection that is gone is dropped, one
that waits is answered; what is queued for the log is written, in order; the
server stops when told to; the client's state, its socket, its connection data
and its config file are about the same server.

## 2. The modules

* `ChatRoom` - what users are promised: a name has one holder, only holders
  speak, a newcomer hears the logged messages it lacks and then what others say.
* `ChatServer` - the implementation: the three threads, the kernel's sockets,
  ready list and descriptors, the clients as environment.
* `ChatServerProperties` - its invariants, liveness properties and the
  refinement mapping to `ChatRoom`.
* `Subsequence` - the members of a sequence that are in a set, which the messages
  among the packets are, the records a newcomer lacks, and the octets of an address
  that are not empty.  It is `SelectSeq` with a set for the test: an operator that
  is a parameter is out of the provers' reach.
* `SubsequenceProof` - what `Only` leaves of joins and parts, and induction stated by
  sets, for the modules of proofs that need them.
* `MCChatServer` and `ChatServer*.cfg` - the instances TLC checks.
* `ChatServerProof` - the inductive invariant of the tables and the descriptors, and
  that no edge is lost.
* `ChatServerStreamsProof` - what is sent to a client before, with and after its
  answer: the marks and the lists of users.
* `ChatServerRoomProof` - the messages: the feed of a member, and the refinement of
  `ChatRoom`.  Each of the three extends the one before it.
* `ServerShutdown`, `MCServerShutdown` - how the server stops: the signal, the
  flag, the condition variable, the joins, and what becomes of the messages and
  connections that are under way; `ServerShutdownProof`.
* `ClientController`, `MCClientController` - the client: states, socket,
  keyboard, connection data, config file, log thread; `ClientControllerProof`.
* `LogRetention` - which log files either program keeps, over days, restarts and
  changes of server; `LogRetentionProof`.
* `HistorySync` - time stamps, the files of client and server, and what a client
  is sent again when it reconnects.
* `Framing` - how the client cuts packets out of a stream of bytes.
* `MsgWindow` - the ring of messages, the pad they are printed on, and the view.
* `ConnForm` - the form, its checks, and the config file over several starts.
* `Parts` - these five, which share no state, side by side: the initial state picks
  the module of the behaviour.  `MCParts` - the instances of them TLC checks in one
  run; `PartsProof` - the proofs about `Framing`, `ConnForm`, `MsgWindow` and
  `HistorySync`, and the types of all five.

`ChatServer` has the server's work in full and never stops; `ServerShutdown` has
its end in full and reduces the work to what goes through the log queue and
`clientMap`.  `ClientController` is the other end of the connections of
`ChatServer`, which has the dial, `CMG_CONNECT` and the answer as steps of its
environment.  The five smaller modules open what the large ones abstract from:
`Framing` the whole packets of a stream, `HistorySync` the place in the log that
`ChatServer` has for a time stamp, `LogRetention` and `ConnForm` the files and the
data that `ClientController` only compares.

### `ChatServer`: state and code

`clients`, `username`, `readBuf`, `writeBuf`, `markToDie` are the keys and
fields of `clientMap`; `armed` is the part of `epollMask` that changes.  `sock`,
`inq`, `outq`, `peer`, `backlog` and `lready` are the kernel's: what a
descriptor refers to, the bytes in flight each way, how far the client's end
is closed, the backlog and the listening socket's edge.  `epollSet` and `ready`
are the epoll instance.  `pc`, `cur`, `batch` place the main thread in its loop
over events; `apc`, `afd` the accept thread.  `joined`, `inbox` are history.

Main thread: an event is taken by one of `HangUp`, `ReadClosed`,
`ReadConnectRejected`, `ReadConnectAccepted`, `ReadBroadMsg`, `WriteEvent`.
`handleRead()` up to its last lines is one step, because nothing it touches is
visible to another thread before `serializeToAllButSender()` has the mutex, and
it has the log read once; the arming of the sender, `Arm`, is a step of its own
because it uses the map without the mutex.  Each `write()` is a step
(`WriteSome`, `WriteBlocked`, `WriteToClosed`, `WriteAfterReset`), so a client
may close between two.  `dropClient()` is `DropBroadcast` then `DropErase`,
since the mutex is free in between, or `DropUnregistered`.  Accept thread:
`AcceptPoll`, `Accept`, `AcceptEmplace`, `AcceptAdd`, `AcceptFails`; the mutex
is held from `AcceptEmplace` to `AcceptAdd`.

Abstractions:

* Packets are records; a stream carries whole packets.  `ServerBroadMsg` has
  no time stamp: its time is its place among the messages of the room, which
  is exact as long as no two messages share a second and clocks agree.
* A connection is used once.  A client that dials again is another member of
  `Conn`, so reuse of names and descriptors is covered.
* `CMG_SERVMSG` (printed only), unknown opcodes and names of a wrong length
  do not occur: the client's code sends none of them.
* A socket takes `SockCap` packets; what a client reads frees all of that.
* The data race on `clientMap` (`modFdEpoll` without the mutex) may end the
  process (`RacyMapAccess`); it is not given other outcomes.
* `EpollWait` reports ready descriptors in any order; the kernel's is FIFO.

### `ServerShutdown`: state and code

`mpc`, `apc` and `lpc` place the three threads; `signal` is the signalfd,
`listening` and `backlog` the kernel's part of `listenFd`, `clientFd` the
connection `acceptLoop` has in hand, `localQueue` the batch `logLoop` has moved
out of `logQueue`, `files` the records written.  `sent`, `dialed` and `closed`
are history.

Main thread: `Broadcast` and `AppendToLog` are `clientBroadMsg()`; `TakeSignal`,
`NotifyAll`, `CloseListenFd`, `JoinAccept`, `JoinLog`, `killServer` are the
statements of `main()` from the signal on, one step each, because the other
threads run between them.  Accept thread: `AcceptHead` tests the flag,
`AcceptPoll` and `AcceptTimeout` are `epoll_wait()` with its 200 ms,
`InsertOrClose` is the critical section after `accept()`.  Log thread: `LogHead`
tests the flag, `queueCv.wait()` is `PredicateFalse` (the predicate is false,
`logMtx` is held) and `Block` (it is given back and the thread sleeps), or
`LogBreak`, or `TakeQueue`; `addToLog` writes one message of the batch.

Abstractions: a critical section nothing can see into is one step; messages are
numbered by their broadcast; connections carry no packets.  `NotifyAll` needs no
mutex, so it may fall between `PredicateFalse` and `Block`, and then wakes
nobody; `AppendToLog` takes `logMtx` and cannot.

### `ClientController`: state and code

`link`, `server`, `net`, `outq`, `reset`, `servReady` are the kernel's side of
`servFd` (`link = "none"` is `servFd == -1`); `keys`, `keyReady`, `winch` the
terminal and the signalfd of SIGWINCH; `pc`, `batch`, `event` place
`controlEpoll()` in its loop; `curState` is `curState->state`, `addr`
`clientInfo` and `config` the file it is saved to, `NoAddr` standing for data
`checkCliInfo()` or `fileVerify()` refuse.

`EpollWait` starts a batch.  `HangUp`, `ServWrite`, `ServRead` are the three
parts of `handleServFd()`; `HandleChar`, `NoMoreChars` and the actions built on
`Enter` are `handleChar()` with the state it gives a key to and the
`stateChange()` that may follow, with all that `switchIntoChat()` does;
`HandleWinch` is the redraw, which stores or reads connection data.
`TakeQueue` and `addToLog` are the log thread.  The user types and resizes, the
server sends, reads, closes, and resets.

Abstractions: `TakeQueue` and `addToLog` treat the queues as sets of the
servers messages belong to (their order is that of `ServerShutdown`); only
messages that are logged count as packets; dialing and its answer are one step
that fails or not; keys that do not end an input do nothing.

### `LogRetention`: state and code

`logFiles` is the list the log thread keeps, `disk` the files there are, `dir`
the directory `getLogDir()` would return now and `listed` (history) the one the
list was read from.  `RenewList`, `ClearFlag` and `SkipRenewal` are the head of
`logLoop()`, three steps because the chat may call `startLog()` and the form may
set the address between them; `TakeQueue` is the wait, `addToLog` one message.
The server's code is the same with a single directory, which never changes and
is listed once; it is an instance of the module, in which `updateConnInfo` and
`startLog` change nothing that matters.  `weenLogFiles` is stated by what it
leaves: the list cut to `n`, where either the list is short enough or the next
file to go is not there.  `Restart` is any end of the program; `Midnight` the
clock, which is not set back.  That a file cannot be opened is left out.

### `HistorySync`: state and code

`now` is the server's clock and `now + skew` the client's, both cut to seconds.
`servQueue`, `files` are the server's log, `cliQueue`, `history` the client's,
`up`, `down` the records under way, `since` the time in a `CMG_CONNECT`.
`Dial` reads the newest record of the files, which the log thread may still be
writing to; `Admit` is `clientConnect()` with `sendBackLogFiles()`.  Connections
end, and both programs end and restart, at any moment.  Which files the server
has removed is left open as far as `LogRetention` allows (`WithoutOldest`); the
client's are never short of the newest record, all that is read of them.
`passed` and `raced` are history variables for the properties.  Records are
whole, and the client only talks to this server.

### `Framing`: state and code

A byte is known by its packet and its place in it.  `net` and `socket` are what
TCP has not delivered and what `read()` would return, `edge` the event of epoll.
`RecvHeader`, `RecvRest`, `RecvEof` are `recvOneVal()`, whose reads block and may
be short; `Drain` is `drainReadFd()`, and `Dispatch`, `WaitForMore`, `Lose` are
the outcomes of one turn of the loop in `handleRead()`.  `Lose` ends the
behaviour: at a place that is no start of a packet the code goes on with
whatever the bytes say, which is not followed.  The `SMG_VALIDATE` is always an
acceptance; a refusal is in `ClientController`.

### `MsgWindow`: state and code

`msgBuf` and `writeIdx` are the ring, `occLines` and `cursOffset` the program's
count of lines and its place, `rows` what ncurses has written on the pad and
`printed` (history) the messages that were printed since it was erased.  The pad does
not scroll, and `wmove()` past its last row fails: `drawn` are the printed messages
whose rows are all on the pad, and the others are cut or not to be seen.  `Show` is
`appendMsgWin()` with its `shiftPad()` and `addMsg()`, `scrollUp` and `scrollDown`
the keys, `redrawMsgWin` a resize.  A message is the length of its header and of its
text.  `lineCount` is what the program computes and `Drawn` what its printing comes
to.

### `ConnForm`: state and code

`clientInfo` and `config` are the data and the file; `phase` is the state the
controller is in.  `Start` is `FileState::startUp()` with `fileVerify()`, `Enter(f)`
and `Redraw(f)` the two ways the form is torn down with `f` in its fields,
`UseExisting`, `Reconnect` and `Configure` what the menus offer.  Every dial is a
`switchIntoChat`, with the `fileCreate()` of `startProcess()` in it: the data is saved
before the outcome is looked at, so an attempt that ends in the reconnect menu has saved
it too.  `ServerGone` is a connection that is lost.  The file may be edited between
two starts, but lines stay lines.  Addresses are digits in octets: the field takes
nothing else.

## 3. What is checked

| run | instance | shows |
|---|---|---|
| `room` | 3 connections, `c1` and `c2` want one name, 2 descriptors, `SockCap` 1, `MaxEvents` 2, `c2` may leave, `c1` says one message, `c3` has one message on file | the other invariants, `BacklogKeepsItsEdge`, and the refinement of `ChatRoom`; 0.8 million states |
| `progress` | 2 connections with nothing on file, one says a message and may leave, fair | `FeedIsExact`, `WaitEnds`, `GoneIsDropped`, `OutputDrains` |
| `stranded` | 2 connections, 2 messages each | `NoStrandedPacket` **fails**: one packet per edge |
| `early` | 2 connections | `AnswerComesFirst` **fails**: broadcasts before the answer |
| `refusal` | the 2 rivals | `RejectionIsDelivered` **fails**: dropped before the refusal is written |
| `stop` | 2 connections, 3 messages, SIGINT at any moment, fair | no message or connection mislaid, messages get written, `StopsUnlessOverslept`; 11 thousand states |
| `loss` | 2 connections, 2 messages | `AllBroadcastsLogged` **fails**: the log thread leaves with messages queued |
| `session` | one server, 2 keys, 2 lines and 2 messages at a time, `SockCap` 1, fair | state, socket, data and config agree; edges; a reset is noticed; output drains; 109 thousand states |
| `ended` | as `session` with 1 of each | `EndIsNoticed` **fails**: the end of the connection is ignored |
| `misfiled` | two servers, 1 of each | `FiledAtHome` **fails**: the log thread asks for the directory too late |
| `parts` | the five smaller modules, instances below | files go oldest first, histories have no doubles, packets stay in step, the pad shows the latest, the form and `connect()` agree; 1.35 million states |
| `saved` | as `parts` | `SavedOnceConnected` **fails**: a dial that never connects is saved too |

`StopsUnlessOverslept` names the one way in which the server does not stop: the
log thread has tested its predicate, `main()` sets `shutdownAll` and notifies
without `logMtx`, and the log thread goes to sleep (`Overslept`).  That state is
reachable, so `logT.join()` can wait for ever; the run shows that nothing else
keeps the server from stopping.

`BacklogKeepsItsEdge` names the one way in which a connection is left in the backlog:
`accept()` finds no descriptor free, and with `EPOLLET` the edge of the listening
socket is spent, so that whoever waits is not accepted before somebody else dials,
however many descriptors are closed meanwhile.  With two descriptors and three
connections that happens in `room`; nothing else loses the edge.  This is where the
"thousands of simultaneous connections" of [src/README.md](../src/README.md) (line
40) meet the limit on descriptors, which the property states as its exception.

The bounds.  Two descriptors for three connections make the third reuse a
descriptor, or find none.  `SockCap` 1 makes every second packet wait for
`EPOLLOUT`.  `MaxEvents` 2 with two descriptors lets a batch hold two events
of which the first changes the second one's client.  In `progress` the one message
is on nobody's file: a client that joins after it is told of it by the replay, or
misses it in the queue, and one that joins before hears it live, so that `FeedIsExact` sees
each of the three.  Two messages make that run, which checks liveness, too long; `FeedsAreExact`
is of any number.  In `room` the third client has the message on file: the replay
must not bring it again, and is empty.  The refinement with a replay that is not
is what `ImplementsRoom` proves, for every `SinceOf`.  In `room` the rival is the one who may leave, so that its name and its
descriptor pass to another; one who has spoken leaves in `progress`.  `MaxSend` is the only bound on behaviours of `ChatServer`: everything else is
finite because a connection is used once.

In `stop` three messages are one that is being written, one in the log thread's
batch behind it and one in the queue, and the second connection arrives while
the first is handled; `MaxMsg` bounds the broadcasts.  In `session` two keys let
a key be left over by the one that changes the state, two lines with `SockCap` 1
make one wait for `EPOLLOUT`, and two unread messages tell a read of all from a
read of one; `MaxKeys` and `MaxUnread` bound what is under way, `MaxSaid` what
is said altogether.  The client dials any number of times.  `session` has one
address because every property of it compares addresses that one dial sets
together, or valid data with refused (`NoAddr`), and it is proved of any number
of addresses; `misfiled` needs two.

In `parts`, each property is guarded by the module it is about.

* `LogRetention`: 2 directories, `LOG_DAY_MAX` 2, 4 days, batches of 2, 4 entries.
  Three files of one directory make one go; a list of 4 entries has two of one
  day, which is where `weenLogFiles()` meets a file that is gone.
* `HistorySync`: 3 messages, 2 dials, 2 seconds which are days of their own,
  clocks equal or one second apart: one message before a connection, one in the
  queues, one after it, the same second or another, and a file to be removed.
* `Framing`: packets of 3 or 4 bytes behind an `SMG_VALIDATE` of 3, 7 or 9 bytes
  where a length is written modulo 6, 4 packets, every cut of the bytes.  The
  longer two of these wrap.
* `MsgWindow`: a ring of 3, a pad of 6 rows, texts of 1 and 5 columns behind a header
  of 2, widths 2 and 4, 6 messages: the ring wraps twice, the pad is erased, a
  header fills the window, and the ring alone may be too long for the pad, where
  messages are cut.
* `ConnForm`: an address for each way of being right or wrong (a fifth octet, two
  dots together, a leading zero, an octet of 256, too few), the ports -1, 65535,
  65537 or none, and names of 16 and 17 characters.

What the properties of `parts` except is what the code does not give:

* `OthersOnceInOrder`: doubles come when the client's clock is behind (its own
  message makes the newest record look old), or when it dials again before its
  log thread is done (`raced`).
* `GapsAreExplained`: a message of the same second as the newest record is never
  sent again, nor is one older than something the client has said, nor one that
  waited in `logQueue` when the client was let in and was broadcast before.
* `BoundedUnlessStuck`: one entry per message makes the list end in files
  that are gone, at which the removal gives up until the list is renewed; in the
  server that is its next start.
* `TodayIsKept`: a client that goes to another server and logs a message before
  the list is renewed removes files of the first server, in the end today's.
* `InStep`: once the users' names make the `SMG_VALIDATE` 65536 bytes long its
  length wraps, and the client is lost.
* `RowsAgree`: a header as wide as the window is a row that `lineCount()` does not
  count, and a ring of 2500 lines that wrap is more than the pad holds.
* `PadShowsTheLatest` and `ViewIsFull`: in these same two cases (`NothingIsCut` is
  false) rows are printed past the end of the pad.  The newest messages are then not
  to be seen, and `cursOffset` may lie beyond the pad, where `prefresh()` shows nothing.
* `OnlyMisreadIsDialed`: five octets, two dots together and leading zeros pass the
  check and are refused by `inet_pton()`.

What a document or a comment of the repository says otherwise has a run that fails:
`stranded`, `early`, `refusal`, `loss`, `ended`, `misfiled`, and `saved`, where
[src/README.md](../src/README.md) (line 13) and the comment at
`client/chatWin/control.cpp:25` have the data saved once there is a connection.  The
exceptions above are cases the documents are silent about, or speak of only in general:
that the client "syncs with the server" (line 16) and that its messages can be scrolled
(lines 10 and 31) does not say how a second with two messages is split, or what becomes of
lines the pad has no room for.

Deadlock is not checked (`CHECK_DEADLOCK FALSE`): when all clients are done
the server sleeps in `epoll_wait()`, as it should, the stopped server has
exited, and so may the client have.

Fairness (`FairSpec`).  The main, accept and log threads are each weakly fair:
the operating system schedules them.  A client sends its `CMG_CONNECT` once
connected (the code does so at once, `servFdStart`) and reads what it is sent.
Nobody is made to dial, to send a message or to leave.

In `ServerShutdown` the threads are fair and nobody broadcasts, dials or presses
Ctrl-C by obligation.  Spurious wakeups happen, but neither is there one to
count on nor do they come for ever.  In `ClientController` the threads are fair,
the server reads what it is sent and a reset arrives; the user need not type,
and does not type so fast for ever that `handleChar()` never runs out of keys
(`[]<>(pc # "chars" \/ ~alive)`): that loop handles no other event.

## 4. What is proved

Each component's theorems are in a module of their own, and follow from a
theorem `Invariance`, `Spec => []IInv`.

The three modules about the server prove, for any sets of connections, names and
descriptors, any capacity, `MAX_EVENTS` and number of messages, under the
assumptions named in `ChatServer` (`NamesAssumption`, `FdAssumption`,
`BoundsAssumption`), every invariant, the action property and the refinement the runs `room` and `progress` check:

| theorem | statement | from |
|---|---|---|
| `TypeCorrect` | `Spec => []TypeOK` | `IInv` |
| `RegistryConsistent` | `Spec => []RegistryAgrees` | `IInv` |
| `EventsFresh` | `Spec => []EventsAreFresh` | `IInv` |
| `NoKernelFailure` | `Spec => []KernelCallsSucceed` | `IInv` |
| `OutputKeepsItsEdge` | `Spec => []OutputHasAnEdge` | `EdgeInv` |
| `InputKeepsItsEdge` | `Spec => []InputHasAnEdge` | `EdgeInv` |
| `MarkedAreRefused` | `Spec => []OnlyRefusedMarked` | `AnswerInv` |
| `UserListsAreExact` | `Spec => []UserListsAgree` | `ListsKept` |
| `BacklogEdgeIsSpentByFullTable` | `Spec => BacklogKeepsItsEdge` | the actions alone |
| `FeedsAreExact` | `Spec => []FeedIsExact` | `FeedKept` |
| `ImplementsRoom` | `Spec => ImplementsChatRoom` | all of them, and `HoldInv` |

Each invariant is inductive given the ones above it: one lemma per action, or
per group of actions with the same argument, shows that a step keeps it.

`IInv` (`ChatServerProof`).  `RegistryAgrees` alone is not
inductive.  `clientConnect()` overwrites the name of its sender, so the sender
must not have one yet: `ConnectIsFirst` says that a `CMG_CONNECT` is the first
packet of its connection, which needs a descriptor that is not in `clientMap`
to have no name and no input (`NamesAreFresh`), which needs `clientMap`, the
epoll set and the open descriptors to agree up to the one that is being
accepted (`DescriptorsAgree`).  That in turn needs pending events to be about
registered descriptors and no descriptor to be pending twice (`EventsAgree`),
or a drop would close somebody else's.

`EdgeInv` (same module).  The two properties speak of descriptors in the
epoll set while the server is up.  They are inductive once one knows what an
event says that is taken but not done (`BatchesAgree`), that a descriptor
between `emplace()` and `addFdToEpoll()` has no output (`QuietOutside`), and that a
socket is never over its capacity (`SocketsBounded`), so that a client's read of
a full one is an edge.

`AnswerInv` (`ChatServerStreamsProof`).  Why is nobody but a refused client marked to
die?  `clientBroadMsg()` marks a sender whose name is not its own, so a client
must not speak before it has a name: it speaks only once it has read an
acceptance, and a client without a name has been sent no answer, or the refusal
that its mark goes with (`UnnamedAreSilent`, `MarksRefused`).  What was said to the
last user of a descriptor does not count because a connection is new when it
is accepted (`NewAreFresh`) and has one descriptor (`OneDescriptor`).

`ListsKept` (same module).  What was sent to a member is one sequence, `Stream`: read,
in the socket, in `writeBuf`; most steps move packets along it (`KeepsStreams`).
It holds one answer, and for each name the last packet that speaks of it says
in or out as the registry does, except for a leave that is told but not done
(`InRoom`).  A join or a leave appends one packet to the streams of all the
others (`GrowList`); the newcomer's begins with the list itself (`NewList`).

`RoomInv` and `FeedKept` (`ChatServerRoomProof`).  Descriptors with a name are the
connections that have joined, under the names their clients asked for
(`JoinedAreNamed`), and what waits of a member's messages goes on, number by
number, where the room's messages end (`Numbered`): a message is never said
twice or skipped, so it is the `Say` of `ChatRoom`.  `FeedKept` says that what
follows the answer in a stream is what is due to its reader (`Due`).  The log
thread moves a message from the queue to the files without changing
`Spoken`; a broadcast is one message more at the end of every other stream and of
everything due; and a newcomer is due exactly the replay, since what was in the
queue then is in neither.

`HoldInv` and the refinement.  A client that has read part of its feed must still be
known to the server for `FeedKept` to speak of it: `MembersAreHeld` says that a
connection that has joined and is open has a descriptor, since a member is
dropped only once its client has gone (`DropsTheGone`), which an event that says
so is evidence of (`HangUpsTrue`).  Then `AcceptedMaps`, `ForgetMaps`, `BroadMsgMaps`
and `ReadMaps` show that accepting a name is a `Join`, the end of a member a
`Leave`, a broadcast a `Say` and a read of the client a `Hear`; `NextMaps` that every
other step leaves the room as it is.

The facts about `Only` (`SubsequenceProof`: it takes joins part by part, and a new last
member or not, and all if all are in the set) are proved by induction over sequences.  The induction theorems of the
library have an operator as a parameter, so `SetInd` and `SeqInd` state induction by
sets: a set of numbers with 0 and every successor holds them all, by `WFMin`.

`ServerShutdownProof` proves, for any sets of connections and any number of
messages (`ConnAssumption`, `MsgAssumption`), `TypeCorrect`, `MessagesKept`
(`NoMessageMislaid`) and `ConnectionsKept` (`NobodyIsForgotten`).  The messages
need `BatchAgrees`: a batch is taken only when the last one is written, or it
would be overwritten.  The connections need `PlacesAreDisjoint` (one that is
accepted is nowhere else) and `StoppingAgrees`: once the main thread has joined
the accept thread, nothing is in its hand and nothing waits, which is why
`killServer()` finds them all.

`ClientControllerProof` proves, for any addresses and any capacity
(`AddrAssumption`, `BoundsAssumption`), `TypeCorrect`, `ChatIsConnected`,
`DataIsChecked`, `EventsFresh`, `OutputKeepsItsEdge` and `InputKeepsItsEdge`.  They hold each other up: a
menu may dial because the chat is off, so there is no socket
(`ChatHasItsSocket`), no event of one in the batch (`EventsAreFresh`), and
nothing left in its buffers (`NothingLeft`); a resize may store anything because
only the form is open to it (`OnlyCheckedData`); an edge taken by
`epoll_wait()` is in the batch because the batch before is done (`LoopAgrees`)
and because `EPOLLOUT` is asked for while `writeBuf` is not empty
(`OutputIsArmed`).

`LogRetentionProof` proves, for any directories, `LOG_DAY_MAX`, days, batches
and lengths of the list (`RetentionAssumption`), `TypeCorrect`, `ExcessExplained`
(`BoundedUnlessStuck`), `OldestGoFirst` (`OldestFirst`), `TodayStays` (`TodayIsKept`) and
`RenewalLeavesNewest` (`RenewalKeepsNewest`).  The argument is one about lists:
while the list is in use (`InUse`) every file of its directory is in it and days
descend along it (`ListAgrees`), nothing is of a day to come (`DaysAgree`), so what is
behind `LOG_DAY_MAX` entries is no newer than what is before it, and of the same
name only if it is the same file.  `Bounded` needs that a surjection from the
list bounds the files (`Entries`), and the renewal that the list has no doubles,
so that a file's place counts the newer ones (`NewerThan`).  A changed address
falsifies nothing of this, because `ListAgrees` is about `listed`.

`PartsProof` proves of `PartsSpec` the properties of the other four modules it is made
of, and the types of all five; each follows from the module's own invariant, since
what a behaviour of `Parts` does to the variables of a module is a behaviour of that
module (`LogRuns`, `HistoryRuns`, `FramingRuns`, `FormRuns`, `WindowRuns`).

| theorem | statement | from |
|---|---|---|
| `StaysInStep` | `PartsSpec => []InStep` | `FramingInv` |
| `NoneWholeIsLeft` | `PartsSpec => []NothingWholeWaits` | `FramingInv` |
| `OffersWhatWasSaved` | `PartsSpec => [](part = "form" => C!SavedIsOffered)` | `FormInv` |
| `PadIsTheLatest` | `PartsSpec => []PadShowsTheLatest` | `WindowInv` |
| `OccLinesAreRows` | `PartsSpec => []RowsAgree` | `WindowInv` |
| `ViewKeepsFull` | `PartsSpec => []ViewIsFull` | `WindowInv` |
| `OnlyMisreadAddresses` | `PartsSpec => []OnlyMisreadIsDialed` | `FormInv` |
| `HistoryIsInOrder` | `PartsSpec => []OthersOnceInOrder` | `HistoryInv` |
| `HistoryGaps` | `PartsSpec => []GapsAreExplained` | `HistoryInv` |
| `PartsTypes` | `PartsSpec => []PartsTypeOK` | all of them, and `LogRetentionProof` |

`FramingInv`, for any sizes of packets that have a header and any way to cut the
bytes (`FramingAssumption`: only the `SMG_VALIDATE` may be too long for its length).
What was sent is bytes in a row, and what the client holds, what its socket
holds and what is under way are runs of that row, each beginning where the one
before it ends (`Chain`); `Position` says where the first begins: at the start of a
packet, unless the length of the first one wrapped.  A read or a delivery moves a
byte from one run to the next (`ChainConcat`, `ChainSplit`), and since bytes in a row are
of one packet until its last (`WithinPacket`), a buffer that is as long as the
length at its front says is that packet.  The blocking reads of the connect are the
same with part of the first packet missing.

`FormInv`, for any addresses, ports, names and `NAMELEN` (`FormAssumption`: an address is octets,
and what stands for a line, file or number that is not there is not data).  Once the client has
dialled, connected or not, the file says what `clientInfo` says, and that has passed
`checkCliInfo()`.  Nothing is used of the checks
but that they depend on the data alone: what they took when it was typed they
take when it is read (`ReadsWhatWasSaved`), as a saved port is below 65536.  So what was
dialled last is offered at the next start (`SavedIsOffered`, which no run checks:
whether a failed attempt should be saved at all is what `saved` is about).

`OnlyMisreadAddresses` looks into the checks of an address, for any set of dotted
addresses of octets of any length and value.  One without empty octets is what
its tokens are (`AllTokens`), and four octets of one to three digits make the 7 to 15
characters the field wants (`FourOctets`), so what `inet_pton()` takes is taken as it
was typed (`RightTaken`).  The other way round, what is dialled has four or five
tokens of at most 255; if it has no empty octet and no leading zero and is not
five, it is four octets that `inet_pton()` takes.

`WindowInv`, for any sizes of ring and pad, any widths and heights, any finite set of
messages and any number of them (`WindowAssumption`: a column at least).  `RingInv`
says of each place of the ring which message it has, so that its order is the
latest messages in a row, wherever it wraps (`RunOfAll`); `PrintedInv` that what is printed
is a run that ends with the newest message and has all of the ring.  `RowsInv`, by which
`occLines` counts the lines of what is printed, and `ViewInv` are about sums over such a
run.  Where every header is narrower than the window lines are rows, and the rows of the
first messages are no more than those of all (`PrefixSum`): while `occLines` is within the
pad, all that is printed is on it (`AllIsDrawn`), which is the case `NothingIsCut` of
`PadShowsTheLatest` and `ViewIsFull`.  `SumFunction` is a fold that picks its
indices by `CHOOSE`; it is defined by a function on the subsets of a finite set, which
`SumsExist` shows to exist by induction over cardinality, and `SumsTakeAny` that the
order does not matter, so that a sum may be taken apart at its last or its first
index (`SumLast`, `SumFirst`).  With these a message more is its lines more, and a run
that loses its first message for it loses at most the lines of the longest
(`RunGrows`), which is what `occLines` needs to stay within the pad.

`HistoryInv`, for any lengths of a day, clocks and numbers of messages and dials
(`HistoryAssumption`: a clock is off by whole seconds, and a day has at least one, so
that no record is of time 0, which a `CMG_CONNECT` uses for "none").  Most of it speaks
of the records in a sequence and of which of two comes first (`InOrder`); a record of
this client may have the time of the other clock, so nothing is said of what follows it.
What the server has logged is in order; a message of others is known to be no newer than
the server's clock (`Known`), and of two the later has the later time (`Monotone`).  The
time in a `CMG_CONNECT` is that of a record the client has, and no record of others
it has is newer, unless its clock is behind or it `raced` (`ConnInv`): what is sent back
then is newer than all of those, which is `OthersOnceInOrder`.

The gaps are more than `GapsAreExplained` says, which is not inductive: a message may be
missing while the client is off.  `Gapless` says that before a message of others the
client has every older one that is `Due` to it: on file or in the queue, and none of the
three losses.  So a client that loses the end of what it has received, or the server
the oldest of what it has logged, leaves no gap that was not there (`NothingNew`, for all
steps that bring no record).  `SayStep` and `MessageStep` are new records.  In `AdmitStep`
a due message is either newer than the time the client asked from, and sent, or not newer
than the record that time is from: then that record is the client's own or of the same
second, which explains the message, or is a later message of others, and the
message is before it already.

`PartsTypes` takes types from every invariant.  For the message window it needs that the
pad never has more rows than it was made with (`RowsFit`) and that places in the ring hold
messages there are (`RingIndices`).

So every invariant and action property of the runs that pass has a theorem, and
so has the refinement.  Only model-checked:

* Liveness: `WaitEnds`, `GoneIsDropped` and `OutputDrains` of the server,
  `MessagesAreWritten` and `StopsUnlessOverslept` of its shutdown, `ResetIsNoticed` and
  `OutputDrains` of the client.  They rest on fairness, whose meaning is `ENABLED`, which the
  installed prover cannot expand; the runs check them on small instances.
* What fails (`stranded`, `early` and the like) is a counterexample of TLC.

## 5. What is left

Every module of section 2 has its safety proved.  A next step would be to open what
the models leave closed: the layout of packets below `Framing`, and the records of
the log files as bytes.

Not modelled, and why:

* Menus and drawing, apart from the message window: ncurses output.
* The Makefile and the container files: not part of the running program.
* `killClient()`: never called.
* Records split at a byte 10 (`server/logging.cpp:161`): the first fragment is
  parsed past its end, so what follows is undefined.
* What a client makes of the bytes after a length that wrapped.
* `restoreHistory()`: it reads the files and shows them.
* `FileState::redraw()` when the file was edited while the menu is shown.
* The descriptors refused clients leak (`client/chatWin/network.cpp:15`).
