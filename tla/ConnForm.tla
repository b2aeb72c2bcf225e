-------------------------------- MODULE ConnForm --------------------------------
(***************************************************************************)
(* The connection data of the client: typed into the form, checked, saved  *)
(* to the config file when the client dials, and read back at the next     *)
(* start (src/client/formWin/form.cpp, control.cpp, menuWin/control.cpp,   *)
(* controller.cpp).                                                        *)
(*                                                                         *)
(* An address is the sequence of the texts its dots separate, each a run   *)
(* of digits, for the field takes nothing else: len of them, worth value.  *)
(* A name is its length, all that is checked of it.                        *)
(***************************************************************************)
EXTENDS Integers, SequencesExt, Subsequence

CONSTANTS
    Addr, Port, Name,   \* what may be typed, or stand in the file
    NoNumber,           \* a port that stoi() does not take
    NoLine, NoFile

CONSTANT NAMELEN

VARIABLES
    phase,      \* "off", or the state's name: "file", "form", "chat"
                \* (connected), "reconnect" (not, or no longer)
    clientInfo,
    config      \* the config file

vars == <<phase, clientInfo, config>>

Octet == [len : Nat, value : Nat]
Info == [addr : Addr \cup {<<>>}, port : Nat, username : Name \cup {0}]
NoInfo == [addr |-> <<>>, port |-> 0, username |-> 0]
Fields == [addr : Addr, port : Port \cup {NoNumber}, username : Name]
File == [addr : Addr \cup {NoLine},
         port : Port \cup {NoNumber, NoLine},
         username : Name \cup {NoLine}]

TypeOK ==
    /\ phase \in {"off", "file", "form", "chat", "reconnect"}
    /\ clientInfo \in Info /\ clientInfo.port <= 65535
    /\ config \in {NoFile} \cup
                  [addr : Addr \cup {<<>>, NoLine},
                   port : Int \cup {NoNumber, NoLine},
                   username : Name \cup {0, NoLine}]

Init ==
    /\ phase = "off"
    /\ clientInfo = NoInfo
    /\ config = NoFile

(***************************************************************************)
(* Checks.                                                                 *)
(***************************************************************************)
length(addr) == SumFunction([i \in DOMAIN addr |-> addr[i].len]) + Len(addr) - 1

\* strtok() sees no empty tokens; the count is tested before a fifth is kept.
octetTokenize(addr) == Only(addr, {octet \in Octet : octet.len > 0})

FaultyValidateIpv4(addr) ==     \* fault: an octet is a byte whatever it says
    LET octets == octetTokenize(addr) IN
    /\ length(addr) \in 7..15
    /\ Len(octets) \in 4..5
    /\ \A i \in DOMAIN octets : octets[i].len <= 3

validateIpv4(addr) ==
    LET octets == octetTokenize(addr) IN
    /\ length(addr) \in 7..15
    /\ Len(octets) \in 4..5
    /\ \A i \in DOMAIN octets : octets[i].len <= 3 /\ octets[i].value <= 255

checkCliInfo(info) ==
    /\ info.addr # <<>>
    /\ info.port # 0
    /\ info.username \in 1..NAMELEN
    /\ validateIpv4(info.addr)

LeadingZero(octet) == octet.len > 1 /\ octet.value < 10 ^ (octet.len - 1)

\* What inet_pton() takes for an IPv4 address.
inet_pton(addr) ==
    /\ Len(addr) = 4
    /\ \A i \in 1..4 : /\ addr[i].len \in 1..3
                       /\ addr[i].value <= 255
                       /\ ~LeadingZero(addr[i])

(***************************************************************************)
(* The form and the file.                                                  *)
(***************************************************************************)
FaultyUint16(n) == n    \* fault: the port is not cut

uint16(n) == n % 65536

\* The outcome of form_driver(REQ_VALIDATION) is not looked at: the range of
\* the port is not checked, it is cut to 16 bits.
updateConnInfo(f) ==
    [addr |-> f.addr,
     port |-> IF f.port = NoNumber THEN 0 ELSE uint16(f.port),
     username |-> f.username]

fileCreate(info) ==
    [addr |-> info.addr, port |-> info.port, username |-> info.username]

\* More than five characters, or what stoi() or the range refuse.
BadPort(p) == p = NoNumber \/ p > 65536 \/ p < 0

Line(text, old) == IF text = NoLine THEN old ELSE text

\* The line of the port stands second: a bad one leaves the address behind.
fileVerify(info, f) ==
    IF f = NoFile THEN [ok |-> FALSE, info |-> NoInfo]
    ELSE IF f.port # NoLine /\ BadPort(f.port)
    THEN [ok |-> FALSE, info |-> [info EXCEPT !.addr = Line(f.addr, @)]]
    ELSE LET read == [addr |-> Line(f.addr, info.addr),
                      port |-> IF f.port = NoLine THEN info.port
                               ELSE uint16(f.port),
                      username |-> Line(f.username, info.username)]
         IN IF checkCliInfo(read) THEN [ok |-> TRUE, info |-> read]
            ELSE [ok |-> FALSE, info |-> NoInfo]

(***************************************************************************)
(* What the user does.                                                     *)
(***************************************************************************)
\* FileState: the menu, or straight to the form.
Start ==
    /\ phase = "off"
    /\ LET verdict == fileVerify(clientInfo, config) IN
        /\ phase' = IF verdict.ok THEN "file" ELSE "form"
        /\ clientInfo' = verdict.info
    /\ UNCHANGED config

\* switchIntoChat(): dial, save the data, and only then look at whether the
\* connection came about.  Without an address there is none to come about.
switchIntoChat(info) ==
    /\ config' = fileCreate(info)
    /\ phase' \in {"chat", "reconnect"}
    /\ phase' = "chat" => inet_pton(info.addr)

UseExisting ==
    /\ phase = "file"
    /\ switchIntoChat(clientInfo)
    /\ UNCHANGED clientInfo

\* "Reconnect", with the data at hand.
Reconnect ==
    /\ phase = "reconnect"
    /\ switchIntoChat(clientInfo)
    /\ UNCHANGED clientInfo

\* The connection is lost.
ServerGone ==
    /\ phase = "chat"
    /\ phase' = "reconnect"
    /\ UNCHANGED <<clientInfo, config>>

\* "Configure New", or "Configure" when there is no connection.
Configure ==
    /\ phase \in {"file", "reconnect"}
    /\ phase' = "form"
    /\ UNCHANGED <<clientInfo, config>>

\* tearDown(), with f in the fields.
Enter(f) ==
    /\ phase = "form"
    /\ clientInfo' = updateConnInfo(f)
    /\ IF checkCliInfo(clientInfo') THEN switchIntoChat(clientInfo')
       ELSE UNCHANGED <<phase, config>>

\* A resize tears the form down as well and sets up an empty one.
Redraw(f) ==
    /\ phase = "form"
    /\ clientInfo' = updateConnInfo(f)
    /\ UNCHANGED <<phase, config>>

Quit ==
    /\ phase # "off"
    /\ phase' = "off"
    /\ clientInfo' = NoInfo
    /\ UNCHANGED config

\* Somebody edits or removes the file between two starts.
EditConfig ==
    /\ phase = "off"
    /\ config' \in {NoFile} \cup File
    /\ UNCHANGED <<phase, clientInfo>>

Next ==
    \/ Start \/ UseExisting \/ Reconnect \/ ServerGone
    \/ Configure \/ Quit \/ EditConfig
    \/ \E f \in Fields : Enter(f) \/ Redraw(f)

Spec == Init /\ [][Next]_vars

(***************************************************************************)
(* Properties.                                                             *)
(***************************************************************************)
\* What was dialled last, with or without success, is offered unchanged at the
\* next start.
SavedIsOffered ==
    phase \in {"chat", "reconnect"} =>
        fileVerify(NoInfo, config) = [ok |-> TRUE, info |-> clientInfo]

\* The data is saved "after the first successful connection" (src/README.md:13;
\* "on successful connection", src/client/chatWin/control.cpp:25): an attempt
\* that ends without one leaves the file alone.
SavedOnceConnected == [][phase' = "reconnect" => config' = config]_vars

\* The form's check and what connect() needs are two definitions of an
\* address.  Nothing right is refused or changed by the first, and what it
\* lets through to connect() wrongly is one of three kinds: five octets, two
\* dots together, or a leading zero.
Right(f) ==
    /\ inet_pton(f.addr)
    /\ f.port \in Int /\ 0 < f.port /\ f.port <= 65535
    /\ f.username \in 1..NAMELEN
RightIsTaken ==
    \A f \in Fields : Right(f) => checkCliInfo(f) /\ updateConnInfo(f) = f
Misread(addr) ==
    \/ Len(octetTokenize(addr)) = 5
    \/ \E i \in DOMAIN addr : addr[i].len = 0 \/ LeadingZero(addr[i])
OnlyMisreadIsDialed ==
    /\ phase = "form" => RightIsTaken
    /\ phase \in {"chat", "reconnect"} =>
        inet_pton(clientInfo.addr) \/ Misread(clientInfo.addr)
=============================================================================
