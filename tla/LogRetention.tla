----------------------------- MODULE LogRetention -----------------------------
(***************************************************************************)
(* Which log files the programs keep: addToLog() and weenLogFiles(), which *)
(* the server (src/server/logging.cpp) and the client                      *)
(* (src/client/interface.cpp, logging.cpp) have word for word, with the    *)
(* list of files the log thread works from.                                *)
(*                                                                         *)
(* The client has a directory per server and renews the list when it goes  *)
(* to a chat; the server is the same machine with a single directory.      *)
(***************************************************************************)
EXTENDS Integers, Sequences, FiniteSets

CONSTANTS
    Dir,            \* the directories: one per server the client talks to
    LOG_DAY_MAX,
    MaxDay,         \* bound: days
    MaxBatch,       \* bound: messages in one batch of the log thread
    MaxList         \* bound: entries of the list

ASSUME RetentionAssumption ==
    /\ Dir # {}
    /\ LOG_DAY_MAX \in Nat \ {0}
    /\ MaxDay \in Nat /\ MaxBatch \in Nat /\ MaxList \in Nat

VARIABLES
    disk,           \* the log files there are
    logFiles,       \* the log thread's list, newest first
    today,
    dir,            \* what getLogDir() returns, by clientInfo.addr
    reaccLogTarget, \* the list is to be renewed
    batch,          \* messages in localQueue
    lpc,            \* the log thread
    listed          \* history: the directory the list was last read from

vars == <<disk, logFiles, today, dir, reaccLogTarget, batch, lpc, listed>>

File == [dir : Dir, day : Nat]
LogSteps == {"head", "renewed", "wait", "write"}

TypeOK ==
    /\ disk \subseteq File
    /\ logFiles \in Seq(File)
    /\ today \in Nat
    /\ dir \in Dir /\ listed \in Dir
    /\ reaccLogTarget \in BOOLEAN
    /\ batch \in Nat
    /\ lpc \in LogSteps

Init ==
    /\ disk = {}
    /\ logFiles = <<>>
    /\ today = 1
    /\ dir \in Dir
    /\ listed = dir
    /\ reaccLogTarget = TRUE
    /\ batch = 0
    /\ lpc = "head"

In(d) == {f \in disk : f.dir = d}

(***************************************************************************)
(* weenLogFiles(): remove() the last file of the list and pop it, while    *)
(* the list is too long; give up at a file that is not there, which is     *)
(* also what a second entry of a file comes to.  The list is cut to n.     *)
(***************************************************************************)
Removable(list, files, i) ==
    /\ list[i] \in files
    /\ \A j \in i+1..Len(list) : list[j] # list[i]

FaultyWeenLogFiles(list, files, n) ==   \* fault: one file too many goes
    /\ n \in 0..Len(list)
    /\ n = Len(list) \/ n >= LOG_DAY_MAX - 1
    /\ \A i \in n+1..Len(list) : Removable(list, files, i)
    /\ n > LOG_DAY_MAX - 1 => ~Removable(list, files, n)

weenLogFiles(list, files, n) ==
    /\ n \in 0..Len(list)
    /\ n = Len(list) \/ n >= LOG_DAY_MAX
    /\ \A i \in n+1..Len(list) : Removable(list, files, i)
    /\ n > LOG_DAY_MAX => ~Removable(list, files, n)

\* The thread's list becomes list, weened, with files on the disk.
KeepNewest(list, files) ==
    \E n \in 0..Len(list) :
        /\ weenLogFiles(list, files, n)
        /\ logFiles' = SubSeq(list, 1, n)
        /\ disk' = files \ {list[i] : i \in n+1..Len(list)}

(***************************************************************************)
(* The log thread.                                                         *)
(***************************************************************************)
FaultyNewestFirst(list) ==  \* fault: sorted with less<path>
    \A i, j \in 1..Len(list) : i < j => list[i].day < list[j].day

NewestFirst(list) == \A i, j \in 1..Len(list) : i < j => list[i].day > list[j].day

\* detectLogFiles(), sort(greater) and weenLogFiles(), at the start of the
\* thread and, in the client, when the flag is set at the head of the loop.
RenewList ==
    /\ lpc = "head"
    /\ reaccLogTarget
    /\ \E list \in [1..Cardinality(In(dir)) -> In(dir)] :
        /\ NewestFirst(list)
        /\ KeepNewest(list, disk)
    /\ listed' = dir
    /\ lpc' = "renewed"
    /\ UNCHANGED <<today, dir, reaccLogTarget, batch>>

\* The flag may have been set again since it was read.
ClearFlag ==
    /\ lpc = "renewed"
    /\ reaccLogTarget' = FALSE
    /\ lpc' = "wait"
    /\ UNCHANGED <<disk, logFiles, today, dir, batch, listed>>

SkipRenewal ==
    /\ lpc = "head"
    /\ ~reaccLogTarget
    /\ lpc' = "wait"
    /\ UNCHANGED <<disk, logFiles, today, dir, reaccLogTarget, batch, listed>>

\* The flag is not looked at again before the batch is written.
TakeQueue ==
    /\ lpc = "wait"
    /\ batch' \in 1..MaxBatch
    /\ lpc' = "write"
    /\ UNCHANGED <<disk, logFiles, today, dir, reaccLogTarget, listed>>

FaultyAddToLog ==   \* fault: a file that is there already is not listed
    LET logFile == [dir |-> dir, day |-> today] IN
    /\ lpc = "write"
    /\ Len(logFiles) < MaxList
    /\ \/ logFile \in disk /\ KeepNewest(logFiles, disk)
       \/ logFile \notin disk /\ KeepNewest(logFiles, disk \cup {logFile})
    /\ batch' = batch - 1
    /\ lpc' = IF batch = 1 THEN "head" ELSE "write"
    /\ UNCHANGED <<today, dir, reaccLogTarget, listed>>

\* The list gets an entry for every message; only a new file has it weened.
addToLog ==
    LET logFile == [dir |-> dir, day |-> today]
        list == <<logFile>> \o logFiles
    IN
    /\ lpc = "write"
    /\ Len(logFiles) < MaxList
    /\ \/ /\ logFile \in disk
          /\ logFiles' = list
          /\ UNCHANGED disk
       \/ /\ logFile \notin disk
          /\ KeepNewest(list, disk \cup {logFile})
    /\ batch' = batch - 1
    /\ lpc' = IF batch = 1 THEN "head" ELSE "write"
    /\ UNCHANGED <<today, dir, reaccLogTarget, listed>>

LogThread == RenewList \/ ClearFlag \/ SkipRenewal \/ TakeQueue \/ addToLog

(***************************************************************************)
(* The rest of the program, and time.                                      *)
(***************************************************************************)
\* The form sets clientInfo.addr, at once what getLogDir() goes by.
updateConnInfo(d) ==
    /\ dir' = d
    /\ UNCHANGED <<disk, logFiles, today, reaccLogTarget, batch, lpc, listed>>

\* Called by the chat.
startLog ==
    /\ reaccLogTarget' = TRUE
    /\ UNCHANGED <<disk, logFiles, today, dir, batch, lpc, listed>>

\* The program ends, at any moment, and is started again.
Restart ==
    /\ logFiles' = <<>>
    /\ reaccLogTarget' = TRUE
    /\ batch' = 0
    /\ lpc' = "head"
    /\ UNCHANGED <<disk, today, dir, listed>>

Midnight ==
    /\ today < MaxDay
    /\ today' = today + 1
    /\ UNCHANGED <<disk, logFiles, dir, reaccLogTarget, batch, lpc, listed>>

Next ==
    \/ LogThread
    \/ (\E d \in Dir : updateConnInfo(d)) \/ startLog
    \/ Restart \/ Midnight

Spec == Init /\ [][Next]_vars

(***************************************************************************)
(* Properties.                                                             *)
(***************************************************************************)
\* Files go oldest first: no file is removed while an older one of the same
\* directory stays, in the directory the list was made for, although the
\* list grows by messages and is cut by length.
OldestFirst ==
    [][\A old, kept \in disk :
          /\ old \notin disk' /\ kept \in disk'
          /\ old.dir = listed' /\ kept.dir = listed'
          => old.day < kept.day]_vars

\* Today's file is only ever removed by a log thread that still has the list
\* of another server.
TodayIsKept ==
    [][\A f \in disk \ disk' :
          f.day = today => \E i \in 1..Len(logFiles) : logFiles[i].dir # dir]_vars

\* The list is the log thread's only knowledge of the disk.  It misses no
\* file of its directory, so more than LOG_DAY_MAX are kept only when the
\* list ends in a file that is gone, at which weenLogFiles() gives up.
Stuck == logFiles # <<>> /\ logFiles[Len(logFiles)] \notin disk
BoundedUnlessStuck ==
    lpc # "head" /\ Cardinality(In(listed)) > LOG_DAY_MAX => Stuck

\* Whatever became of the list before, renewing it leaves exactly the newest
\* LOG_DAY_MAX files of the directory.
RenewalKeepsNewest ==
    [][lpc = "head" /\ lpc' = "renewed" =>
         \A f \in In(dir) :
            f \in disk' <=>
            Cardinality({g \in In(dir) : g.day > f.day}) < LOG_DAY_MAX]_vars
=============================================================================
