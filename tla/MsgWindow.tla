------------------------------- MODULE MsgWindow -------------------------------
(***************************************************************************)
(* The client's message window (src/client/chatWin/ui.cpp, redraw.cpp):    *)
(* the ring msgBuf of the latest messages, the ncurses pad they are printed  *)
(* on, and the place of the pad that is shown.                             *)
(*                                                                         *)
(* A message is what its drawing depends on: the lengths of its header     *)
(* and of its text.  Rows of the pad count from 0.                         *)
(***************************************************************************)
EXTENDS Integers, SequencesExt

CONSTANTS
    MAX_MSG_BUF,
    PAD_BUF_MULTI,
    Message,        \* records [header, text] of lengths
    Width,          \* widths the terminal may give the pad
    Height,         \* rows it may give the window (maxRows)
    MaxAdded        \* bound: messages

VARIABLES
    msgBuf, writeIdx,       \* the ring
    occLines, cursOffset,
    rows,                   \* rows of the pad that are written on
    printed,                \* the messages printed since the pad was erased,
                            \* by number, whether they were cut or not
    added,                  \* history: all messages, in order
    width, maxRows          \* of the window now

vars == <<msgBuf, writeIdx, occLines, cursOffset, rows, printed, added, width,
          maxRows>>

padHeight == PAD_BUF_MULTI * MAX_MSG_BUF

TypeOK ==
    /\ msgBuf \in Seq(1..Len(added)) /\ Len(msgBuf) <= MAX_MSG_BUF
    /\ writeIdx \in 0..MAX_MSG_BUF-1
    /\ occLines \in Nat /\ cursOffset \in Nat
    /\ rows \in 0..padHeight
    /\ printed \in Seq(1..Len(added))
    /\ added \in Seq(Message)
    /\ width \in Width /\ maxRows \in Height

Init ==
    /\ msgBuf = <<>> /\ writeIdx = 0
    /\ occLines = 0 /\ cursOffset = 0
    /\ rows = 0
    /\ printed = <<>>
    /\ added = <<>>
    /\ width \in Width /\ maxRows \in Height

(***************************************************************************)
(* Drawing.                                                                *)
(***************************************************************************)
CeilDiv(a, b) == (a + b - 1) \div b

FaultyLineCount(m, cols) == \* fault: a started line does not count
    m.header \div cols + m.text \div (cols - (m.header % cols))

lineCount(m, cols) ==
    m.header \div cols + CeilDiv(m.text, cols - (m.header % cols))

\* What appendMsgWin() prints: the header, the text, and before each line of
\* text but the first as many blanks as the header is long.  The pad does not
\* scroll: below its last row nothing is written, and wmove() fails.
Drawn(m, cols) ==
    LET lines == CeilDiv(m.text, cols - (m.header % cols)) IN
    CeilDiv(m.header * lines + m.text, cols)

\* The window after a run of messages, by number, on a pad that was erased.
LinesOf(s, cols) == SumFunction([i \in DOMAIN s |-> lineCount(added[s[i]], cols)])
RowsOf(s, cols) == SumFunction([i \in DOMAIN s |-> Drawn(added[s[i]], cols)])
OnPad(n) == IF n > padHeight THEN padHeight ELSE n

\* The printed messages whose rows are all on the pad.  What fits of the next
\* one goes on in the last row, and the others are not to be seen.
drawn ==
    Restrict(printed, {i \in DOMAIN printed :
                        RowsOf(SubSeq(printed, 1, i), width) <= padHeight})

\* The order in which replayMessages() draws the ring: oldest first.
Ring ==
    LET n == Len(msgBuf)
        start == IF n = MAX_MSG_BUF THEN writeIdx ELSE 0
    IN [i \in 1..n |-> msgBuf[((start + i - 1) % MAX_MSG_BUF) + 1]]

replayMessages(cols) ==
    /\ printed' = Ring
    /\ rows' = OnPad(RowsOf(Ring, cols))
    /\ occLines' = LinesOf(Ring, cols)
    /\ cursOffset' = LinesOf(Ring, cols)

FaultyAddMsg(k) ==  \* fault: the index runs over
    /\ msgBuf' = IF writeIdx >= Len(msgBuf) THEN Append(msgBuf, k)
                 ELSE [msgBuf EXCEPT ![writeIdx + 1] = k]
    /\ writeIdx' = IF writeIdx + 1 = MAX_MSG_BUF THEN 1 ELSE writeIdx + 1

addMsg(k) ==
    /\ msgBuf' = IF writeIdx >= Len(msgBuf) THEN Append(msgBuf, k)
                 ELSE [msgBuf EXCEPT ![writeIdx + 1] = k]
    /\ writeIdx' = (writeIdx + 1) % MAX_MSG_BUF

PadIsFull(lines) == occLines + lines > padHeight

\* A message m is printed below what is there, or, when the pad has no room
\* for it, below the ring, printed anew (shiftPad).  The view follows if it was
\* at the bottom, or if ownLine (scrollBottom).
appendMsgWin(m, ownLine) ==
    LET k == Len(added) + 1
        lines == lineCount(m, width)
        shift == PadIsFull(lines)
        occ == IF shift THEN LinesOf(Ring, width) ELSE occLines
        offset == IF shift THEN occ ELSE cursOffset
        used == IF shift THEN OnPad(RowsOf(Ring, width)) ELSE rows
    IN
    /\ added' = Append(added, m)
    /\ printed' = Append(IF shift THEN Ring ELSE printed, k)
    /\ rows' = OnPad(used + Drawn(m, width))
    /\ occLines' = occ + lines
    /\ cursOffset' = IF ownLine \/ occ <= offset THEN occ + lines ELSE offset
    /\ addMsg(k)

(***************************************************************************)
(* What happens to the window.                                             *)
(***************************************************************************)
Show ==
    /\ Len(added) < MaxAdded
    /\ \E m \in Message, ownLine \in BOOLEAN : appendMsgWin(m, ownLine)
    /\ UNCHANGED <<width, maxRows>>

FaultyScrollUp ==   \* fault: scrolls into the empty rows
    /\ cursOffset > 0
    /\ cursOffset' = cursOffset - 1
    /\ UNCHANGED <<msgBuf, writeIdx, occLines, rows, printed, added, width, maxRows>>

scrollUp ==
    /\ cursOffset > maxRows
    /\ cursOffset' = cursOffset - 1
    /\ UNCHANGED <<msgBuf, writeIdx, occLines, rows, printed, added, width, maxRows>>

scrollDown ==
    /\ occLines > cursOffset
    /\ cursOffset' = cursOffset + 1
    /\ UNCHANGED <<msgBuf, writeIdx, occLines, rows, printed, added, width, maxRows>>

\* The terminal has another size: a new pad.
redrawMsgWin ==
    /\ width' \in Width /\ maxRows' \in Height
    /\ replayMessages(width')
    /\ UNCHANGED <<msgBuf, writeIdx, added>>

Next == Show \/ scrollUp \/ scrollDown \/ redrawMsgWin

Spec == Init /\ [][Next]_vars

(***************************************************************************)
(* Properties.                                                             *)
(***************************************************************************)
\* The program's own count says that all it printed is on the pad, and the
\* count can be trusted: no header is as wide as the window.
NothingIsCut ==
    /\ occLines <= padHeight
    /\ \A i \in DOMAIN printed : added[printed[i]].header < width

\* The ring holds the newest MAX_MSG_BUF messages.  They are printed once each
\* and in order, up to the newest, and what the pad has of them whole are the
\* first: all of the ring, the newest with it, unless the rows run out
\* (RowsAgree says when).  This is so wherever the ring wraps and the pad is
\* erased meanwhile.
Consecutive(s) == s = [i \in 1..Len(s) |-> Len(added) - Len(s) + i]
PadShowsTheLatest ==
    /\ Consecutive(Ring)
    /\ Len(Ring) = IF Len(added) < MAX_MSG_BUF THEN Len(added) ELSE MAX_MSG_BUF
    /\ Consecutive(printed) /\ Len(printed) >= Len(Ring)
    /\ NothingIsCut => Consecutive(drawn) /\ Len(drawn) >= Len(Ring)

\* occLines is the number of rows written, as long as no header is as wide
\* as the window: scrolling and the test for a full pad depend on it.  It
\* stays within the pad unless the ring alone, with the message it has just
\* dropped, would not: erasing the pad is no help then.
Longest == LET n == {lineCount(m, width) : m \in Message}
           IN CHOOSE x \in n : \A y \in n : x >= y
RowsAgree ==
    /\ (\A i \in DOMAIN printed : added[printed[i]].header < width) =>
         rows = OnPad(occLines)
    /\ LinesOf(Ring, width) + Longest <= padHeight => occLines <= padHeight

\* The view never leaves the lines the program counts, and has no empty rows
\* while lines are scrolled out of it; unless messages are cut, it ends at a
\* written line.
ViewIsFull ==
    /\ cursOffset <= occLines
    /\ cursOffset < occLines => cursOffset >= maxRows
    /\ NothingIsCut => cursOffset <= rows
=============================================================================
