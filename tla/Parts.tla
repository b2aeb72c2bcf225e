--------------------------------- MODULE Parts ---------------------------------
(***************************************************************************)
(* The modules that share no state, side by side: a behaviour is one of    *)
(* the module its initial state picks, and the other modules stay where    *)
(* they began.                                                             *)
(***************************************************************************)
EXTENDS LogRetention

CONSTANTS Skew, DayLength, MaxTime, MaxMsg, MaxDials
VARIABLES now, skew, count, dials, files, servQueue, conn, since, up, down,
          cliQueue, history, passed, raced
history_vars == <<now, skew, count, dials, files, servQueue, conn, since, up,
                  down, cliQueue, history, passed, raced>>
H == INSTANCE HistorySync

ASSUME HistoryAssumption ==
    /\ Skew \subseteq Int /\ DayLength \in Nat \ {0}
    /\ MaxTime \in Nat /\ MaxMsg \in Nat /\ MaxDials \in Nat

CONSTANTS MAX_MSG_BUF, PAD_BUF_MULTI, Message, Width, Height, MaxAdded
VARIABLES msgBuf, writeIdx, occLines, cursOffset, rows, printed, added, width,
          maxRows
window_vars == <<msgBuf, writeIdx, occLines, cursOffset, rows, printed, added,
                 width, maxRows>>
W == INSTANCE MsgWindow

\* The terminal has a column at least.
ASSUME WindowAssumption ==
    /\ MAX_MSG_BUF \in Nat \ {0} /\ PAD_BUF_MULTI \in Nat
    /\ Width \subseteq Nat \ {0} /\ Height \subseteq Nat
    /\ Message \subseteq [header : Nat, text : Nat]
    /\ Message # {} /\ IsFiniteSet(Message)

CONSTANTS Addr, Port, Name, NAMELEN, NoNumber, NoLine, NoFile
VARIABLES phase, clientInfo, config
form_vars == <<phase, clientInfo, config>>
C == INSTANCE ConnForm

\* What stands for a port that is no number, a line or a file that is not
\* there is told from the data.
ASSUME FormAssumption ==
    /\ Addr \subseteq Seq(C!Octet)
    /\ Port \subseteq Int /\ Name \subseteq Nat /\ NAMELEN \in Nat
    /\ NoNumber \notin Int
    /\ NoLine \notin Int \cup Addr \cup {<<>>, NoNumber}
    /\ NoFile \notin C!Info \cup C!File

CONSTANTS ValidateSize, Size, headerLen, LengthRange, MaxSent
VARIABLES sent, net, link, socket, edge, readBuf, pc, dispatched
framing_vars == <<sent, net, link, socket, edge, readBuf, pc, dispatched>>
F == INSTANCE Framing

\* Every packet begins with its header.  Only the SMG_VALIDATE, which repeats
\* the list of all users, may be too long for the field its length stands in.
ASSUME FramingAssumption ==
    /\ headerLen \in Nat \ {0} /\ LengthRange \in Nat \ {0} /\ MaxSent \in Nat
    /\ \A size \in ValidateSize \cup Size : size \in Nat /\ size >= headerLen
    /\ \A size \in Size : size < LengthRange

VARIABLE part   \* the module of this behaviour
parts_vars == <<part, vars, history_vars, window_vars, form_vars, framing_vars>>

PartsInit ==
    /\ part \in {"log", "history", "window", "form", "framing"}
    /\ Init /\ H!Init /\ W!Init /\ C!Init /\ F!Init
    /\ part # "log" => dir = CHOOSE d \in Dir : TRUE
    /\ part # "history" => skew = CHOOSE s \in Skew : TRUE
    /\ part # "window" => /\ width = CHOOSE w \in Width : TRUE
                          /\ maxRows = CHOOSE h \in Height : TRUE

PartsNext ==
    /\ UNCHANGED part
    /\ \/ /\ part = "log" /\ Next
          /\ UNCHANGED <<history_vars, window_vars, form_vars, framing_vars>>
       \/ /\ part = "history" /\ H!Next
          /\ UNCHANGED <<vars, window_vars, form_vars, framing_vars>>
       \/ /\ part = "window" /\ W!Next
          /\ UNCHANGED <<vars, history_vars, form_vars, framing_vars>>
       \/ /\ part = "form" /\ C!Next
          /\ UNCHANGED <<vars, history_vars, window_vars, framing_vars>>
       \/ /\ part = "framing" /\ F!Next
          /\ UNCHANGED <<vars, history_vars, window_vars, form_vars>>

PartsSpec == PartsInit /\ [][PartsNext]_parts_vars

\* The properties of the modules: each is stated where it is defined.
PartsTypeOK ==
    CASE part = "log" -> TypeOK
      [] part = "history" -> H!TypeOK
      [] part = "window" -> W!TypeOK
      [] part = "form" -> C!TypeOK
      [] part = "framing" -> F!TypeOK
OthersOnceInOrder == part = "history" => H!OthersOnceInOrder
GapsAreExplained == part = "history" => H!GapsAreExplained
PadShowsTheLatest == part = "window" => W!PadShowsTheLatest
RowsAgree == part = "window" => W!RowsAgree
ViewIsFull == part = "window" => W!ViewIsFull
SavedOnceConnected == C!SavedOnceConnected
OnlyMisreadIsDialed == part = "form" => C!OnlyMisreadIsDialed
InStep == part = "framing" => F!InStep
NothingWholeWaits == part = "framing" => F!NothingWholeWaits
=============================================================================
