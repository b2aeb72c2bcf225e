-------------------------------- MODULE Framing --------------------------------
(***************************************************************************)
(* How the client finds packets in the bytes the server sent: recvOneVal() *)
(* on the blocking socket, then drainReadFd() and the loop of handleRead() *)
(* (src/client/chatWin/network.cpp), with a length in front of each packet *)
(* that has a fixed width (src/protocol.cpp).                              *)
(*                                                                         *)
(* A byte is known by its packet and its place there.  What a length says  *)
(* that is not at the start of a packet is not followed: the client is     *)
(* lost then.                                                              *)
(***************************************************************************)
EXTENDS Integers, SequencesExt

CONSTANTS
    ValidateSize, Size, \* the sizes of an SMG_VALIDATE, and of other packets
    headerLen,
    LengthRange,        \* a length is written modulo this: 2^16
    MaxSent             \* bound: packets

VARIABLES
    sent,       \* the sizes of the packets, the SMG_VALIDATE first
    net,        \* bytes on the way
    link,       \* "open", "closing" by the server, "closed" once the client knows
    socket,     \* bytes read() would return
    edge,       \* epoll has an event
    readBuf,
    pc,         \* the client; "sleep" is epoll_wait()
    dispatched  \* history: the packets protocolParser() was given

vars == <<sent, net, link, socket, edge, readBuf, pc, dispatched>>

Byte == [of : 1..MaxSent, at : Nat \ {0}]

TypeOK ==
    /\ sent \in Seq(ValidateSize \cup Size) /\ Len(sent) <= MaxSent
    /\ net \in Seq(Byte) /\ socket \in Seq(Byte) /\ readBuf \in Seq(Byte)
    /\ link \in {"open", "closing", "closed"} /\ edge \in BOOLEAN
    /\ pc \in {"header", "rest", "sleep", "parse", "ended", "lost"}
    /\ dispatched \in Seq(1..MaxSent)

Init ==
    /\ sent = <<>> /\ net = <<>> /\ socket = <<>> /\ readBuf = <<>>
    /\ link = "open" /\ edge = FALSE
    /\ pc = "header"
    /\ dispatched = <<>>

Drop(bytes, n) == SubSeq(bytes, n + 1, Len(bytes))
Take(bytes, n) == SubSeq(bytes, 1, n)

AtStart(bytes) == bytes # <<>> => bytes[1].at = 1

\* The 16 bits the packet's constructor left in length.
parsePacketLen(bytes) == sent[bytes[1].of] % LengthRange

(***************************************************************************)
(* The server and the network.                                             *)
(***************************************************************************)
Send(size) ==
    /\ link = "open" /\ Len(sent) < MaxSent
    /\ sent' = Append(sent, size)
    /\ net' = net \o [i \in 1..size |-> [of |-> Len(sent) + 1, at |-> i]]
    /\ UNCHANGED <<link, socket, edge, readBuf, pc, dispatched>>

Close ==
    /\ link = "open"
    /\ link' = "closing"
    /\ UNCHANGED <<sent, net, socket, edge, readBuf, pc, dispatched>>

Deliver ==
    \E n \in 1..Len(net) :
        /\ socket' = socket \o Take(net, n)
        /\ net' = Drop(net, n)
        /\ edge' = TRUE
        /\ UNCHANGED <<sent, link, readBuf, pc, dispatched>>

Fin ==
    /\ link = "closing" /\ net = <<>>
    /\ link' = "closed"
    /\ edge' = TRUE
    /\ UNCHANGED <<sent, net, socket, readBuf, pc, dispatched>>

(***************************************************************************)
(* recvOneVal(): blocking reads of exactly what is missing, first of the   *)
(* header and then of the packet.                                          *)
(***************************************************************************)
FaultyMissing(want) == Len(socket)  \* fault: read() takes what there is

Missing(want) == want - Len(readBuf)

ReadUpTo(want, then) ==
    \E n \in 1..Missing(want) :
        /\ n <= Len(socket)
        /\ socket' = Drop(socket, n)
        /\ LET got == readBuf \o Take(socket, n) IN
           IF Len(got) < want THEN readBuf' = got /\ UNCHANGED pc
           ELSE /\ readBuf' = IF then = "rest" THEN got ELSE <<>>
                /\ pc' = then

RecvHeader ==
    /\ pc = "header"
    /\ ReadUpTo(headerLen, "rest")
    /\ UNCHANGED <<sent, net, link, edge, dispatched>>

\* The fd goes to epoll afterwards, which reports what is there already.
RecvRest ==
    /\ pc = "rest"
    /\ LET fullLen == parsePacketLen(readBuf) IN
       IF Len(readBuf) < fullLen THEN ReadUpTo(fullLen, "sleep")
       ELSE readBuf' = <<>> /\ pc' = "sleep" /\ UNCHANGED socket
    /\ edge' = (socket' # <<>> \/ link = "closed")
    /\ UNCHANGED <<sent, net, link, dispatched>>

RecvEof ==
    /\ pc \in {"header", "rest"}
    /\ socket = <<>> /\ link = "closed"
    /\ pc = "rest" => Len(readBuf) < parsePacketLen(readBuf)
    /\ pc' = "ended"
    /\ UNCHANGED <<sent, net, link, socket, edge, readBuf, dispatched>>

(***************************************************************************)
(* handleRead().                                                           *)
(***************************************************************************)
\* drainReadFd(): at the end of the connection nothing is looked at any more.
Drain ==
    /\ pc = "sleep" /\ edge
    /\ readBuf' = readBuf \o socket
    /\ socket' = <<>>
    /\ edge' = FALSE
    /\ pc' = IF link = "closed" THEN "ended" ELSE "parse"
    /\ UNCHANGED <<sent, net, link, dispatched>>

FaultyIsWhole(bytes) == Len(bytes) > parsePacketLen(bytes)  \* fault: not >=

IsWhole(bytes) == Len(bytes) >= parsePacketLen(bytes)

HasPacket(bytes) == Len(bytes) >= headerLen /\ AtStart(bytes) /\ IsWhole(bytes)

Dispatch ==
    /\ pc = "parse" /\ HasPacket(readBuf)
    /\ dispatched' = Append(dispatched, readBuf[1].of)
    /\ readBuf' = Drop(readBuf, parsePacketLen(readBuf))
    /\ UNCHANGED <<sent, net, link, socket, edge, pc>>

Lose ==
    /\ pc = "parse" /\ ~AtStart(readBuf)
    /\ pc' = "lost"
    /\ UNCHANGED <<sent, net, link, socket, edge, readBuf, dispatched>>

WaitForMore ==
    /\ pc = "parse" /\ AtStart(readBuf) /\ ~HasPacket(readBuf)
    /\ pc' = "sleep"
    /\ UNCHANGED <<sent, net, link, socket, edge, readBuf, dispatched>>

Next ==
    \/ \E size \in IF sent = <<>> THEN ValidateSize ELSE Size : Send(size)
    \/ Close \/ Deliver \/ Fin
    \/ RecvHeader \/ RecvRest \/ RecvEof
    \/ Drain \/ Dispatch \/ Lose \/ WaitForMore

Spec == Init /\ [][Next]_vars

(***************************************************************************)
(* Properties.                                                             *)
(***************************************************************************)
\* However the bytes are cut, the client stays in step with the packets and
\* dispatches each after the SMG_VALIDATE once and in order, as long as the
\* length of the SMG_VALIDATE fits in its 16 bits.
InStep ==
    sent # <<>> /\ sent[1] < LengthRange =>
        /\ pc # "lost"
        /\ \A i \in DOMAIN dispatched : dispatched[i] = i + 1

\* Whenever the client sleeps it has dispatched every packet that it has read
\* whole: what the end of a connection costs came together with that end.
NothingWholeWaits ==
    pc = "sleep" =>
        \A i \in DOMAIN readBuf : readBuf[i].at < sent[readBuf[i].of]
=============================================================================
