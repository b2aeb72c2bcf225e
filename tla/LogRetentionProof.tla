-------------------------- MODULE LogRetentionProof --------------------------
(***************************************************************************)
(* The log thread's list is enough to keep the right files: for any number *)
(* of directories, days, messages and restarts, and any LOG_DAY_MAX.       *)
(***************************************************************************)
EXTENDS LogRetention, FiniteSetTheorems, FunctionTheorems, SequenceTheorems, TLAPS

\* The list speaks for its directory, unless it is to be renewed first.
InUse == lpc # "head" \/ ~reaccLogTarget

Lists(list, S) == \A f \in S : \E i \in 1..Len(list) : list[i] = f

Descending(list) == \A i, j \in 1..Len(list) : i < j => list[i].day >= list[j].day

BatchAgrees == lpc = "write" => batch > 0

\* Nothing is of a day to come.
DaysAgree ==
    /\ \A f \in disk : f.day <= today
    /\ \A i \in 1..Len(logFiles) : logFiles[i].day <= today

\* The list lists every file of its directory, newest first.
ListAgrees ==
    /\ Descending(logFiles)
    /\ InUse => Lists(logFiles, In(listed))

Bounded == InUse /\ Cardinality(In(listed)) > LOG_DAY_MAX => Stuck

IInv ==
    /\ TypeOK
    /\ IsFiniteSet(disk)
    /\ BatchAgrees
    /\ DaysAgree
    /\ ListAgrees
    /\ Bounded

-----------------------------------------------------------------------------
(***************************************************************************)
(* Lists of files.                                                         *)
(***************************************************************************)
\* What is in a list is no more than its length.
LEMMA Entries ==
    ASSUME NEW list \in Seq(File), NEW S, Lists(list, S)
    PROVE  IsFiniteSet(S) /\ Cardinality(S) <= Len(list)
  <1> DEFINE T == {list[i] : i \in 1..Len(list)}
  <1>1. Len(list) \in Nat /\ list \in [1..Len(list) -> T]
    BY LenProperties
  <1>2. list \in Surjection(1..Len(list), T)
    BY <1>1 DEF Surjection
  <1>3. ExistsSurjection(1..Len(list), T)
    BY <1>2 DEF ExistsSurjection
  <1>4. IsFiniteSet(T) /\ Cardinality(T) <= Len(list)
    BY <1>1, <1>3, FS_SurjCardinalityBound, FS_NatSurjection
  <1>5. S \subseteq T
    BY DEF Lists
  <1> QED
    BY <1>1, <1>4, <1>5, FS_Subset, FS_CardinalityType

\* The list that detectLogFiles() and sort() come to has each file of S once.
LEMMA NewestFirstLists ==
    ASSUME NEW S \in SUBSET File, IsFiniteSet(S),
           NEW list \in [1..Cardinality(S) -> S], NewestFirst(list)
    PROVE  /\ list \in Seq(File) /\ Len(list) = Cardinality(S)
           /\ Cardinality(S) \in Nat
           /\ \A i, j \in 1..Len(list) : list[i] = list[j] => i = j
           /\ Descending(list)
           /\ Lists(list, S)
  <1>1. Cardinality(S) \in Nat
    BY FS_CardinalityType
  <1>2. list \in Seq(File) /\ Len(list) = Cardinality(S)
    BY <1>1
  <1>3. \A i \in 1..Len(list) : list[i] \in S /\ list[i].day \in Nat
    BY <1>1, <1>2 DEF File
  <1>4. \A i, j \in 1..Len(list) : list[i] = list[j] => i = j
    BY <1>1, <1>2, <1>3 DEF NewestFirst
  <1>5. Descending(list)
    BY <1>1, <1>2, <1>3 DEF NewestFirst, Descending
  <1>6. list \in Injection(1..Cardinality(S), S)
    BY <1>1, <1>2, <1>4 DEF Injection, IsInjective
  <1>7. IsFiniteSet(1..Cardinality(S))
        /\ Cardinality(1..Cardinality(S)) = Cardinality(S)
    BY <1>1, FS_Interval
  <1>8. list \in Surjection(1..Cardinality(S), S)
    BY <1>6, <1>7, FS_Injection
  <1>9. Lists(list, S)
    BY <1>2, <1>8 DEF Surjection, Lists
  <1> QED
    BY <1>1, <1>2, <1>4, <1>5, <1>9

\* What weenLogFiles() leaves: the first n entries, of which the last is gone
\* from the disk if they are too many; every file that is left is among them.
LEMMA Weened ==
    ASSUME NEW list \in Seq(File), NEW files, NEW n, weenLogFiles(list, files, n)
    PROVE  LET left == files \ {list[i] : i \in n+1..Len(list)}
               kept == SubSeq(list, 1, n)
           IN
           /\ n \in Nat /\ n <= Len(list) /\ Len(list) \in Nat
           /\ kept \in Seq(File) /\ Len(kept) = n
           /\ \A i \in 1..n : kept[i] = list[i]
           /\ n > LOG_DAY_MAX => list[n] \notin left
           /\ \A f \in left : (\E i \in 1..Len(list) : list[i] = f)
                              => \E i \in 1..n : kept[i] = f
           /\ Descending(list) => Descending(kept)
  <1> DEFINE left == files \ {list[i] : i \in n+1..Len(list)}
             kept == SubSeq(list, 1, n)
  <1>1. Len(list) \in Nat /\ \A i \in 1..Len(list) : list[i] \in File
    BY LenProperties, ElementOfSeq
  <1>2. n \in Nat /\ n <= Len(list)
    BY <1>1 DEF weenLogFiles
  <1>3. kept \in Seq(File) /\ Len(kept) = n /\ \A i \in 1..n : kept[i] = list[i]
    BY <1>1, <1>2, SubSeqProperties
  <1>4. n > LOG_DAY_MAX => list[n] \notin left
    BY <1>1, <1>2, RetentionAssumption DEF weenLogFiles, Removable
  <1>5. ASSUME NEW f \in left, NEW i \in 1..Len(list), list[i] = f
        PROVE  \E j \in 1..n : kept[j] = f
    BY <1>1, <1>2, <1>3, <1>5
  <1>6. Descending(list) => Descending(kept)
    BY <1>1, <1>2, <1>3 DEF Descending
  <1> QED
    BY <1>1, <1>2, <1>3, <1>4, <1>5, <1>6

\* A day's message goes in front of a list that knows no later day.
LEMMA Pushed ==
    ASSUME NEW list \in Seq(File), NEW f \in File,
           \A i \in 1..Len(list) : list[i].day <= f.day
    PROVE  LET long == <<f>> \o list IN
           /\ long \in Seq(File) /\ Len(long) = Len(list) + 1
           /\ Len(list) \in Nat
           /\ long[1] = f
           /\ \A i \in 1..Len(list) : long[i + 1] = list[i]
           /\ \A i \in 2..Len(long) : long[i] = list[i - 1]
           /\ Descending(list) => Descending(long)
           /\ \A S : Lists(list, S) => Lists(long, S \cup {f})
  <1> DEFINE long == <<f>> \o list
  <1>1. Len(list) \in Nat /\ \A i \in 1..Len(list) : list[i] \in File
    BY LenProperties, ElementOfSeq
  <1>2. <<f>> \in Seq(File) /\ Len(<<f>>) = 1 /\ <<f>>[1] = f
    OBVIOUS
  <1>3. /\ long \in Seq(File) /\ Len(long) = Len(list) + 1
        /\ \A i \in 1..Len(list) + 1 :
              long[i] = IF i <= 1 THEN <<f>>[i] ELSE list[i - 1]
    BY <1>1, <1>2, ConcatProperties
  <1>4. long[1] = f /\ \A i \in 2..Len(long) : long[i] = list[i - 1]
    BY <1>1, <1>2, <1>3
  <1>5. \A i \in 1..Len(list) : i + 1 \in 1..Len(long) /\ long[i + 1] = list[i]
    BY <1>1, <1>3
  <1>6. ASSUME Descending(list) PROVE Descending(long)
    <2> SUFFICES ASSUME NEW i \in 1..Len(long), NEW j \in 1..Len(long), i < j
                 PROVE  long[i].day >= long[j].day
      BY DEF Descending
    <2>1. j \in 2..Len(long) /\ j - 1 \in 1..Len(list)
      BY <1>1, <1>3
    <2>2. f.day \in Nat /\ list[j - 1].day \in Nat
      BY <1>1, <2>1 DEF File
    <2>3. CASE i = 1
      BY <1>4, <2>1, <2>2, <2>3
    <2>4. CASE i # 1
      <3>1. i \in 2..Len(long) /\ i - 1 \in 1..Len(list) /\ i - 1 < j - 1
        BY <1>1, <1>3, <2>4
      <3> QED
        BY <1>4, <1>6, <2>1, <3>1 DEF Descending
    <2> QED
      BY <2>3, <2>4
  <1>7. ASSUME NEW S, Lists(list, S) PROVE Lists(long, S \cup {f})
    <2> SUFFICES ASSUME NEW g \in S \cup {f}
                 PROVE  \E i \in 1..Len(long) : long[i] = g
      BY DEF Lists
    <2>1. CASE g = f
      BY <1>1, <1>3, <1>4, <2>1
    <2>2. CASE g \in S
      <3>1. PICK i \in 1..Len(list) : list[i] = g
        BY <1>7, <2>2 DEF Lists
      <3> QED
        BY <1>5, <3>1
    <2> QED
      BY <2>1, <2>2
  <1> HIDE DEF long
  <1>8. /\ long \in Seq(File) /\ Len(long) = Len(list) + 1
        /\ Len(list) \in Nat
        /\ long[1] = f
        /\ \A i \in 1..Len(list) : long[i + 1] = list[i]
        /\ \A i \in 2..Len(long) : long[i] = list[i - 1]
        /\ Descending(list) => Descending(long)
        /\ \A S : Lists(list, S) => Lists(long, S \cup {f})
    BY <1>1, <1>3, <1>4, <1>5, <1>6, <1>7
  <1> QED
    BY <1>8 DEF long

\* A list that knows the files of directory d still does when it and they
\* are weened, and is at its limit unless it is stuck.
LEMMA KeepNewestKeeps ==
    ASSUME NEW list \in Seq(File), NEW files \in SUBSET File, IsFiniteSet(files),
           NEW d, Lists(list, {f \in files : f.dir = d}), Descending(list),
           NEW last \in Nat,
           \A f \in files : f.day <= last,
           \A i \in 1..Len(list) : list[i].day <= last,
           KeepNewest(list, files)
    PROVE  LET left == {f \in disk' : f.dir = d} IN
           /\ disk' \subseteq files /\ IsFiniteSet(disk')
           /\ logFiles' \in Seq(File)
           /\ Descending(logFiles')
           /\ Lists(logFiles', left)
           /\ Cardinality(left) > LOG_DAY_MAX =>
                 logFiles' # <<>> /\ logFiles'[Len(logFiles')] \notin disk'
           /\ \A i \in 1..Len(logFiles') : logFiles'[i].day <= last
  <1> DEFINE left == {f \in disk' : f.dir = d}
  <1>1. PICK n \in 0..Len(list) :
            /\ weenLogFiles(list, files, n)
            /\ logFiles' = SubSeq(list, 1, n)
            /\ disk' = files \ {list[i] : i \in n+1..Len(list)}
    BY DEF KeepNewest
  <1> DEFINE gone == {list[i] : i \in n+1..Len(list)}
  <1>0. /\ n \in Nat /\ n <= Len(list) /\ Len(list) \in Nat
        /\ SubSeq(list, 1, n) \in Seq(File) /\ Len(SubSeq(list, 1, n)) = n
        /\ \A i \in 1..n : SubSeq(list, 1, n)[i] = list[i]
        /\ n > LOG_DAY_MAX => list[n] \notin files \ gone
        /\ \A f \in files \ gone : (\E i \in 1..Len(list) : list[i] = f)
                            => \E i \in 1..n : SubSeq(list, 1, n)[i] = f
        /\ Descending(SubSeq(list, 1, n))
    BY <1>1, Weened
  <1>2. /\ n \in Nat /\ n <= Len(list) /\ Len(list) \in Nat
        /\ logFiles' \in Seq(File) /\ Len(logFiles') = n
        /\ \A i \in 1..n : logFiles'[i] = list[i]
        /\ n > LOG_DAY_MAX => list[n] \notin disk'
        /\ \A f \in disk' : (\E i \in 1..Len(list) : list[i] = f)
                            => \E i \in 1..n : logFiles'[i] = f
        /\ Descending(logFiles')
    BY <1>1, <1>0
  <1>3. disk' \subseteq files /\ IsFiniteSet(disk')
    BY <1>1, FS_Subset
  <1>4. Lists(logFiles', left)
    BY <1>2, <1>3 DEF Lists
  <1>5. Cardinality(left) \in Nat /\ Cardinality(left) <= n
    BY <1>2, <1>4, Entries, FS_CardinalityType
  <1>6. ASSUME Cardinality(left) > LOG_DAY_MAX
        PROVE  logFiles' # <<>> /\ logFiles'[Len(logFiles')] \notin disk'
    <2>1. n > LOG_DAY_MAX /\ n \in 1..n
      BY <1>2, <1>5, <1>6, RetentionAssumption
    <2>2. Len(<<>>) = 0
      OBVIOUS
    <2> QED
      BY <1>2, <2>1, <2>2
  <1>7. \A i \in 1..Len(logFiles') : logFiles'[i].day <= last
    BY <1>2
  <1> QED
    BY <1>2, <1>3, <1>4, <1>6, <1>7

-----------------------------------------------------------------------------
(***************************************************************************)
(* The inductive invariant.                                                *)
(***************************************************************************)
LEMMA InitIInv == Init => IInv
  <1> SUFFICES ASSUME Init PROVE IInv
    OBVIOUS
  <1>1. In(listed) = {} /\ Cardinality(In(listed)) = 0 /\ IsFiniteSet(disk)
    BY FS_EmptySet DEF Init, In
  <1>2. TypeOK
    BY DEF Init, TypeOK, LogSteps
  <1>3. BatchAgrees /\ DaysAgree
    BY DEF Init, BatchAgrees, DaysAgree
  <1>4. ListAgrees
    BY <1>1 DEF Init, ListAgrees, Descending, Lists
  <1>5. Bounded
    BY <1>1, RetentionAssumption DEF Bounded
  <1> QED
    BY <1>1, <1>2, <1>3, <1>4, <1>5 DEF IInv

\* Nothing but the list's use and the thread's place changes.
LEMMA SameFiles ==
    ASSUME IInv, UNCHANGED <<disk, logFiles, listed>>, TypeOK', BatchAgrees',
           today' >= today, InUse' => InUse
    PROVE  IInv'
  <1>1. In(listed)' = In(listed) /\ (Stuck' <=> Stuck)
    BY DEF In, Stuck
  <1>2. DaysAgree'
    <2>1. \A f \in File : f.day \in Nat
      BY DEF File
    <2>2. \A i \in 1..Len(logFiles) : logFiles[i] \in File
      BY ElementOfSeq DEF IInv, TypeOK
    <2> QED
      BY <2>1, <2>2 DEF IInv, TypeOK, DaysAgree
  <1>3. ListAgrees'
    BY <1>1 DEF IInv, ListAgrees
  <1>4. Bounded'
    BY <1>1 DEF IInv, Bounded
  <1> QED
    BY <1>2, <1>3, <1>4 DEF IInv

LEMMA RenewListIInv ==
    ASSUME IInv, RenewList
    PROVE  IInv'
  <1>1. PICK list \in [1..Cardinality(In(dir)) -> In(dir)] :
            NewestFirst(list) /\ KeepNewest(list, disk)
    BY DEF RenewList
  <1>2. In(dir) \in SUBSET File /\ IsFiniteSet(In(dir)) /\ disk \in SUBSET File
    BY FS_Subset DEF IInv, TypeOK, In
  <1>3. /\ list \in Seq(File) /\ Len(list) = Cardinality(In(dir))
        /\ Descending(list) /\ Lists(list, In(dir))
    BY <1>1, <1>2, NewestFirstLists
  <1>4. \A i \in 1..Len(list) : list[i].day <= today
    BY <1>1, <1>3 DEF In, IInv, DaysAgree
  <1>5. today \in Nat /\ IsFiniteSet(disk) /\ \A f \in disk : f.day <= today
    BY DEF IInv, TypeOK, DaysAgree
  <1>6. /\ disk' \subseteq disk /\ IsFiniteSet(disk')
        /\ logFiles' \in Seq(File)
        /\ Descending(logFiles')
        /\ Lists(logFiles', {f \in disk' : f.dir = dir})
        /\ Cardinality({f \in disk' : f.dir = dir}) > LOG_DAY_MAX =>
              logFiles' # <<>> /\ logFiles'[Len(logFiles')] \notin disk'
        /\ \A i \in 1..Len(logFiles') : logFiles'[i].day <= today
    BY <1>1, <1>2, <1>3, <1>4, <1>5, KeepNewestKeeps DEF In
  <1>7. In(listed)' = {f \in disk' : f.dir = dir}
    BY DEF RenewList, In
  <1>8. TypeOK' /\ BatchAgrees'
    BY <1>2, <1>6 DEF RenewList, IInv, TypeOK, LogSteps, BatchAgrees
  <1>9. DaysAgree'
    BY <1>5, <1>6 DEF RenewList, DaysAgree
  <1>10. ListAgrees'
    BY <1>6, <1>7 DEF ListAgrees
  <1>11. Bounded'
    BY <1>6, <1>7 DEF Bounded, Stuck
  <1> QED
    BY <1>6, <1>8, <1>9, <1>10, <1>11 DEF IInv

LEMMA AddToLogIInv ==
    ASSUME IInv, addToLog
    PROVE  IInv'
  <1> DEFINE logFile == [dir |-> dir, day |-> today]
             list == <<logFile>> \o logFiles
  <1>1. /\ logFile \in File /\ logFiles \in Seq(File) /\ disk \in SUBSET File
        /\ today \in Nat /\ IsFiniteSet(disk) /\ logFile.day = today
        /\ \A f \in disk : f.day <= today
        /\ \A i \in 1..Len(logFiles) : logFiles[i].day <= today
        /\ Descending(logFiles) /\ InUse
        /\ Lists(logFiles, In(listed))
    BY DEF IInv, TypeOK, DaysAgree, ListAgrees, File, addToLog, InUse
  <1>2. /\ list \in Seq(File) /\ Len(list) = Len(logFiles) + 1
        /\ Len(logFiles) \in Nat
        /\ list[1] = logFile
        /\ \A i \in 1..Len(logFiles) : list[i + 1] = logFiles[i]
        /\ \A i \in 2..Len(list) : list[i] = logFiles[i - 1]
        /\ Descending(list)
        /\ Lists(list, In(listed) \cup {logFile})
    BY <1>1, Pushed
  <1> HIDE DEF list
  <1>3. \A i \in 1..Len(list) : list[i].day <= today
    <2> TAKE i \in 1..Len(list)
    <2>1. CASE i = 1
      BY <1>1, <1>2, <2>1
    <2>2. CASE i # 1
      <3>1. i \in 2..Len(list) /\ i - 1 \in 1..Len(logFiles)
        BY <1>2, <2>2
      <3> QED
        BY <1>1, <1>2, <3>1
    <2> QED
      BY <2>1, <2>2
  <1>4. /\ lpc = "write" /\ batch' = batch - 1
        /\ lpc' = IF batch = 1 THEN "head" ELSE "write"
        /\ UNCHANGED <<today, dir, reaccLogTarget, listed>>
    BY DEF addToLog
  <1>5. BatchAgrees' /\ batch' \in Nat /\ lpc' \in LogSteps
    BY <1>4 DEF IInv, TypeOK, BatchAgrees, LogSteps
  <1>6. CASE logFile \in disk /\ logFiles' = list /\ UNCHANGED disk
    <2>1. In(listed)' = In(listed)
      BY <1>4, <1>6 DEF In
    <2>2. TypeOK'
      BY <1>2, <1>4, <1>5, <1>6 DEF IInv, TypeOK
    <2>3. DaysAgree'
      BY <1>1, <1>3, <1>4, <1>6 DEF DaysAgree
    <2>4. ListAgrees'
      BY <1>2, <1>6, <2>1 DEF ListAgrees, Lists
    <2>5. ASSUME Cardinality(In(listed)) > LOG_DAY_MAX PROVE Stuck'
      <3>1. Stuck
        BY <1>1, <2>5 DEF IInv, Bounded
      <3>2. Len(logFiles) \in 1..Len(logFiles)
        BY <1>1, <1>2, <3>1, EmptySeq DEF Stuck
      <3>3. list # <<>> /\ list[Len(list)] = logFiles[Len(logFiles)]
        BY <1>2, <3>2
      <3> QED
        BY <1>6, <3>1, <3>3 DEF Stuck
    <2> QED
      BY <1>1, <1>5, <1>6, <2>1, <2>2, <2>3, <2>4, <2>5 DEF IInv, Bounded
  <1>7. CASE logFile \notin disk /\ KeepNewest(list, disk \cup {logFile})
    <2> DEFINE files == disk \cup {logFile}
    <2>1. /\ files \in SUBSET File /\ IsFiniteSet(files)
          /\ \A f \in files : f.day <= today
      BY <1>1, FS_AddElement
    <2>2. Lists(list, {f \in files : f.dir = listed})
      BY <1>2 DEF Lists, In
    <2>8. KeepNewest(list, files)
      BY <1>7
    <2> HIDE DEF files
    <2>3. /\ disk' \subseteq files /\ IsFiniteSet(disk')
          /\ logFiles' \in Seq(File)
          /\ Descending(logFiles')
          /\ Lists(logFiles', {f \in disk' : f.dir = listed})
          /\ Cardinality({f \in disk' : f.dir = listed}) > LOG_DAY_MAX =>
                logFiles' # <<>> /\ logFiles'[Len(logFiles')] \notin disk'
          /\ \A i \in 1..Len(logFiles') : logFiles'[i].day <= today
      BY <1>1, <1>2, <1>3, <2>1, <2>2, <2>8, KeepNewestKeeps
    <2>4. In(listed)' = {f \in disk' : f.dir = listed}
      BY <1>4 DEF In
    <2>5. TypeOK'
      BY <1>4, <1>5, <2>1, <2>3 DEF IInv, TypeOK
    <2>6. DaysAgree'
      BY <1>4, <2>1, <2>3 DEF DaysAgree
    <2>7. ListAgrees' /\ Bounded'
      BY <2>3, <2>4 DEF ListAgrees, Bounded, Stuck
    <2> QED
      BY <1>5, <2>3, <2>5, <2>6, <2>7 DEF IInv
  <1> QED
    BY <1>6, <1>7 DEF addToLog, list

LEMMA StepIInv == IInv /\ [Next]_vars => IInv'
  <1> SUFFICES ASSUME IInv, [Next]_vars PROVE IInv'
    OBVIOUS
  <1> USE DEF TypeOK, LogSteps, BatchAgrees, InUse
  <1>0. TypeOK /\ BatchAgrees /\ today \in Nat
    BY DEF IInv
  <1>1. CASE RenewList
    BY <1>1, RenewListIInv
  <1>2. CASE ClearFlag
    <2>1. InUse /\ lpc' = "wait" /\ reaccLogTarget' = FALSE
      BY <1>2 DEF ClearFlag
    <2>2. reaccLogTarget' \in BOOLEAN /\ lpc' \in LogSteps
      BY <2>1
    <2>3. UNCHANGED <<disk, logFiles, today, dir, batch, listed>>
      BY <1>2 DEF ClearFlag
    <2>4. TypeOK' /\ BatchAgrees' /\ today' >= today
      BY <1>0, <2>1, <2>2, <2>3
    <2> QED
      BY <2>1, <2>3, <2>4, SameFiles
  <1>3. CASE SkipRenewal
    BY <1>0, <1>3, SameFiles DEF SkipRenewal
  <1>4. CASE TakeQueue
    <2>1. batch' \in Nat /\ batch' > 0
      BY <1>4, RetentionAssumption DEF TakeQueue
    <2> QED
      BY <1>0, <1>4, <2>1, SameFiles DEF TakeQueue
  <1>5. CASE addToLog
    BY <1>5, AddToLogIInv
  <1>6. ASSUME NEW d \in Dir, updateConnInfo(d) PROVE IInv'
    BY <1>0, <1>6, SameFiles DEF updateConnInfo
  <1>7. CASE startLog
    BY <1>0, <1>7, SameFiles DEF startLog
  <1>8. CASE Restart
    <2>1. logFiles' = <<>> /\ Len(<<>>) = 0 /\ <<>> \in Seq(File) /\ ~InUse'
      BY <1>8 DEF Restart
    <2>2. TypeOK' /\ BatchAgrees' /\ IsFiniteSet(disk)'
      BY <1>8, <2>1 DEF Restart, IInv
    <2>3. DaysAgree'
      BY <1>8, <2>1 DEF Restart, IInv, DaysAgree
    <2>4. ListAgrees'
      BY <2>1 DEF ListAgrees, Descending
    <2>5. Bounded'
      BY <2>1 DEF Bounded
    <2> QED
      BY <2>2, <2>3, <2>4, <2>5 DEF IInv
  <1>9. CASE Midnight
    BY <1>0, <1>9, SameFiles DEF Midnight
  <1>10. CASE UNCHANGED vars
    BY <1>0, <1>10, SameFiles DEF vars
  <1> QED
    BY <1>1, <1>2, <1>3, <1>4, <1>5, <1>6, <1>7, <1>8, <1>9, <1>10
    DEF Next, LogThread

\* In every state the program can be in the list agrees with the disk.
THEOREM Invariance == Spec => []IInv
  <1> QED
    BY InitIInv, StepIInv, PTL DEF Spec

-----------------------------------------------------------------------------
(***************************************************************************)
(* Invariants.                                                             *)
(***************************************************************************)
\* Every variable has its type, the list's entries above all.
THEOREM TypeCorrect == Spec => []TypeOK
  <1>1. IInv => TypeOK
    BY DEF IInv
  <1> QED
    BY <1>1, Invariance, PTL

\* However days, restarts and messages come, more than LOG_DAY_MAX files stay
\* only where weenLogFiles() gave up at a file that is gone.
THEOREM ExcessExplained == Spec => []BoundedUnlessStuck
  <1>1. IInv => BoundedUnlessStuck
    BY DEF IInv, Bounded, InUse, BoundedUnlessStuck
  <1> QED
    BY <1>1, Invariance, PTL

-----------------------------------------------------------------------------
(***************************************************************************)
(* Which files go.                                                         *)
(***************************************************************************)
\* A file that goes is the last entry of its name, behind LOG_DAY_MAX others;
\* one that is listed and stays comes before it, or has another name.
LEMMA GoneIsLast ==
    ASSUME NEW list \in Seq(File), NEW files, KeepNewest(list, files),
           NEW old \in files, old \notin disk'
    PROVE  \E i \in 1..Len(list) :
              /\ list[i] = old
              /\ i > LOG_DAY_MAX
              /\ \A kept \in disk' :
                    (\E j \in 1..Len(list) : list[j] = kept)
                    => \E j \in 1..Len(list) : list[j] = kept /\ j < i
  <1>1. PICK n \in 0..Len(list) :
            /\ weenLogFiles(list, files, n)
            /\ logFiles' = SubSeq(list, 1, n)
            /\ disk' = files \ {list[i] : i \in n+1..Len(list)}
    BY DEF KeepNewest
  <1>2. Len(list) \in Nat /\ n \in Nat
    BY LenProperties
  <1>3. PICK i \in n+1..Len(list) : list[i] = old
    BY <1>1
  <1>4. i \in 1..Len(list) /\ i > n /\ n # Len(list)
    BY <1>2, <1>3
  <1>5. i > LOG_DAY_MAX
    BY <1>1, <1>2, <1>4, RetentionAssumption DEF weenLogFiles
  <1>6. ASSUME NEW kept \in disk', NEW j \in 1..Len(list), list[j] = kept
        PROVE  list[j] = kept /\ j < i
    BY <1>1, <1>2, <1>4, <1>6
  <1> QED
    BY <1>3, <1>4, <1>5, <1>6

\* The disk changes in two places.
LEMMA DiskChanges ==
    ASSUME [Next]_vars, disk' # disk
    PROVE  RenewList \/ addToLog
  <1> QED
    BY DEF Next, LogThread, vars, ClearFlag, SkipRenewal, TakeQueue,
           updateConnInfo, startLog, Restart, Midnight

\* What RenewList knows of its list.
LEMMA Renewing ==
    ASSUME IInv, RenewList
    PROVE  \E list \in Seq(File) :
              /\ NewestFirst(list) /\ KeepNewest(list, disk)
              /\ Lists(list, In(dir))
              /\ Len(list) = Cardinality(In(dir)) /\ Len(list) \in Nat
              /\ \A i \in 1..Len(list) :
                    list[i] \in In(dir) /\ list[i].day \in Nat
              /\ \A i, j \in 1..Len(list) : list[i] = list[j] => i = j
              /\ listed' = dir
  <1>1. PICK list \in [1..Cardinality(In(dir)) -> In(dir)] :
            NewestFirst(list) /\ KeepNewest(list, disk)
    BY DEF RenewList
  <1>2. In(dir) \in SUBSET File /\ IsFiniteSet(In(dir))
    BY FS_Subset DEF IInv, TypeOK, In
  <1>3. /\ list \in Seq(File) /\ Len(list) = Cardinality(In(dir))
        /\ Cardinality(In(dir)) \in Nat
        /\ \A i, j \in 1..Len(list) : list[i] = list[j] => i = j
        /\ Lists(list, In(dir))
    BY <1>1, <1>2, NewestFirstLists
  <1>4. \A i \in 1..Len(list) : list[i] \in In(dir) /\ list[i].day \in Nat
    BY <1>1, <1>2, <1>3 DEF File
  <1>5. listed' = dir
    BY DEF RenewList
  <1> QED
    BY <1>1, <1>3, <1>4, <1>5

\* What addToLog knows of its list when the file is new.
LEMMA Adding ==
    ASSUME IInv, addToLog, disk' # disk
    PROVE  LET logFile == [dir |-> dir, day |-> today] IN
           \E list \in Seq(File) :
              /\ KeepNewest(list, disk \cup {logFile})
              /\ Lists(list, In(listed)) /\ Descending(list)
              /\ Len(list) \in Nat
              /\ \A i \in 2..Len(list) :
                    i - 1 \in 1..Len(logFiles) /\ list[i] = logFiles[i - 1]
              /\ logFile \notin disk
              /\ listed' = listed
  <1> DEFINE logFile == [dir |-> dir, day |-> today]
             list == <<logFile>> \o logFiles
  <1>1. /\ logFile \in File /\ logFiles \in Seq(File) /\ logFile.day = today
        /\ \A i \in 1..Len(logFiles) : logFiles[i].day <= today
        /\ Descending(logFiles) /\ Lists(logFiles, In(listed))
    BY DEF IInv, TypeOK, DaysAgree, ListAgrees, File, addToLog, InUse
  <1>2. /\ list \in Seq(File) /\ Len(list) = Len(logFiles) + 1
        /\ Len(logFiles) \in Nat
        /\ \A i \in 2..Len(list) : list[i] = logFiles[i - 1]
        /\ Descending(list)
        /\ Lists(list, In(listed) \cup {logFile})
    BY <1>1, Pushed
  <1>3. logFile \notin disk /\ KeepNewest(list, disk \cup {logFile})
        /\ listed' = listed
    BY DEF addToLog
  <1> HIDE DEF list, logFile
  <1>4. Lists(list, In(listed))
    BY <1>2 DEF Lists
  <1>5. \A i \in 2..Len(list) : i - 1 \in 1..Len(logFiles)
    BY <1>2
  <1>6. Len(list) \in Nat
    BY <1>2
  <1>7. \E l \in Seq(File) :
          /\ KeepNewest(l, disk \cup {logFile})
          /\ Lists(l, In(listed)) /\ Descending(l)
          /\ Len(l) \in Nat
          /\ \A i \in 2..Len(l) :
                i - 1 \in 1..Len(logFiles) /\ l[i] = logFiles[i - 1]
          /\ logFile \notin disk
          /\ listed' = listed
    BY <1>2, <1>3, <1>4, <1>5, <1>6
  <1> QED
    BY <1>7 DEF logFile

LEMMA OldestFirstStep ==
    ASSUME IInv, [Next]_vars,
           NEW old \in disk, NEW kept \in disk,
           old \notin disk', kept \in disk',
           old.dir = listed', kept.dir = listed'
    PROVE  old.day < kept.day
  <1>1. /\ old \in File /\ kept \in File
        /\ old.day \in Nat /\ kept.day \in Nat
    BY DEF IInv, TypeOK, File
  <1>2. CASE RenewList
    <2>1. PICK list \in Seq(File) :
            /\ NewestFirst(list) /\ KeepNewest(list, disk)
            /\ Lists(list, In(dir)) /\ listed' = dir
      BY <1>2, Renewing
    <2>2. PICK i \in 1..Len(list) :
            /\ list[i] = old
            /\ (\E j \in 1..Len(list) : list[j] = kept)
               => \E j \in 1..Len(list) : list[j] = kept /\ j < i
      BY <2>1, GoneIsLast
    <2>3. PICK j \in 1..Len(list) : list[j] = kept /\ j < i
      BY <2>1, <2>2 DEF Lists, In
    <2> QED
      BY <1>1, <2>1, <2>2, <2>3 DEF NewestFirst
  <1>3. CASE addToLog
    <2> DEFINE logFile == [dir |-> dir, day |-> today]
    <2>1. PICK list \in Seq(File) :
            /\ KeepNewest(list, disk \cup {logFile})
            /\ Lists(list, In(listed)) /\ Descending(list) /\ listed' = listed
      BY <1>3, Adding
    <2>2. PICK i \in 1..Len(list) :
            /\ list[i] = old
            /\ (\E j \in 1..Len(list) : list[j] = kept)
               => \E j \in 1..Len(list) : list[j] = kept /\ j < i
      BY <2>1, GoneIsLast
    <2>3. PICK j \in 1..Len(list) : list[j] = kept /\ j < i
      BY <2>1, <2>2 DEF Lists, In
    <2>4. kept.day >= old.day
      BY <2>1, <2>2, <2>3 DEF Descending
    <2>5. kept.day # old.day
      BY <1>1 DEF File
    <2> QED
      BY <1>1, <2>4, <2>5
  <1> QED
    BY <1>2, <1>3, DiskChanges

\* No file goes while an older one of the list's directory stays.
THEOREM OldestGoFirst == Spec => OldestFirst
  <1>1. IInv /\ [Next]_vars =>
          [\A old, kept \in disk :
              /\ old \notin disk' /\ kept \in disk'
              /\ old.dir = listed' /\ kept.dir = listed'
              => old.day < kept.day]_vars
    BY OldestFirstStep
  <1> QED
    BY <1>1, Invariance, PTL DEF Spec, OldestFirst

LEMMA TodayStep ==
    ASSUME IInv, [Next]_vars, NEW f \in disk \ disk', f.day = today
    PROVE  \E i \in 1..Len(logFiles) : logFiles[i].dir # dir
  <1>1. /\ f \in File /\ today \in Nat
        /\ \A g \in disk : g.day <= today
    BY DEF IInv, TypeOK, DaysAgree
  <1>2. CASE RenewList
    <2>1. PICK list \in Seq(File) :
            /\ NewestFirst(list) /\ KeepNewest(list, disk) /\ Len(list) \in Nat
            /\ \A i \in 1..Len(list) : list[i] \in In(dir) /\ list[i].day \in Nat
      BY <1>2, Renewing
    <2>2. PICK i \in 1..Len(list) : list[i] = f /\ i > LOG_DAY_MAX
      BY <2>1, GoneIsLast
    <2>3. 1 \in 1..Len(list) /\ 1 < i
      BY <2>1, <2>2, RetentionAssumption
    <2>4. list[1].day > today /\ list[1] \in disk
      BY <2>1, <2>2, <2>3 DEF NewestFirst, In
    <2> QED
      BY <1>1, <2>1, <2>3, <2>4
  <1>3. CASE addToLog
    <2> DEFINE logFile == [dir |-> dir, day |-> today]
    <2>1. PICK list \in Seq(File) :
            /\ KeepNewest(list, disk \cup {logFile}) /\ Len(list) \in Nat
            /\ \A i \in 2..Len(list) :
                  i - 1 \in 1..Len(logFiles) /\ list[i] = logFiles[i - 1]
            /\ logFile \notin disk
      BY <1>3, Adding
    <2>2. PICK i \in 1..Len(list) : list[i] = f /\ i > LOG_DAY_MAX
      BY <2>1, GoneIsLast
    <2>3. i \in 2..Len(list)
      BY <2>1, <2>2, RetentionAssumption
    <2>4. i - 1 \in 1..Len(logFiles) /\ logFiles[i - 1] = f
      BY <2>1, <2>2, <2>3
    <2>5. f.dir # dir
      BY <1>1, <2>1 DEF File
    <2> QED
      BY <2>4, <2>5
  <1> QED
    BY <1>2, <1>3, DiskChanges

\* Today's file goes only by a list that is still of another server.
THEOREM TodayStays == Spec => TodayIsKept
  <1>1. IInv /\ [Next]_vars =>
          [\A f \in disk \ disk' :
              f.day = today => \E i \in 1..Len(logFiles) : logFiles[i].dir # dir]_vars
    BY TodayStep
  <1> QED
    BY <1>1, Invariance, PTL DEF Spec, TodayIsKept

\* In a list without repetitions all of whose files are there, the first
\* LOG_DAY_MAX stay and no others.
LEMMA DistinctWeened ==
    ASSUME NEW list \in Seq(File), NEW files, KeepNewest(list, files),
           \A i \in 1..Len(list) : list[i] \in files,
           \A i, j \in 1..Len(list) : list[i] = list[j] => i = j,
           NEW k \in 1..Len(list)
    PROVE  list[k] \in disk' <=> k <= LOG_DAY_MAX
  <1>1. PICK n \in 0..Len(list) :
            /\ weenLogFiles(list, files, n)
            /\ disk' = files \ {list[i] : i \in n+1..Len(list)}
    BY DEF KeepNewest
  <1>2. Len(list) \in Nat /\ n \in Nat /\ LOG_DAY_MAX \in Nat \ {0}
    BY LenProperties, RetentionAssumption
  <1>3. n <= LOG_DAY_MAX
    <2> SUFFICES ASSUME n > LOG_DAY_MAX PROVE FALSE
      BY <1>2
    <2>1. n \in 1..Len(list)
      BY <1>2
    <2>2. \A j \in n+1..Len(list) : list[j] # list[n]
      BY <1>2, <2>1
    <2>3. Removable(list, files, n)
      BY <2>1, <2>2 DEF Removable
    <2> QED
      BY <1>1, <2>3 DEF weenLogFiles
  <1>4. n = Len(list) \/ n = LOG_DAY_MAX
    BY <1>1, <1>2, <1>3 DEF weenLogFiles
  <1>5. list[k] \in disk' <=> k <= n
    <2>1. CASE k <= n
      <3>1. \A i \in n+1..Len(list) : list[i] # list[k]
        BY <1>2, <2>1
      <3> QED
        BY <1>1, <2>1, <3>1
    <2>2. CASE k > n
      <3>1. k \in n+1..Len(list)
        BY <1>2, <2>2
      <3> QED
        BY <1>1, <1>2, <2>2, <3>1
    <2> QED
      BY <1>2, <2>1, <2>2
  <1> QED
    BY <1>2, <1>3, <1>4, <1>5

\* The k-th newest file of S has k - 1 newer ones.
LEMMA NewerThan ==
    ASSUME NEW S \in SUBSET File, NEW list \in Seq(File), NewestFirst(list),
           Lists(list, S), Len(list) \in Nat,
           \A i \in 1..Len(list) : list[i] \in S /\ list[i].day \in Nat,
           \A i, j \in 1..Len(list) : list[i] = list[j] => i = j,
           NEW k \in 1..Len(list)
    PROVE  Cardinality({g \in S : g.day > list[k].day}) = k - 1
  <1> DEFINE newer == {g \in S : g.day > list[k].day}
             front == [i \in 1..k-1 |-> list[i]]
  <1>1. \A i \in 1..k-1 : i \in 1..Len(list) /\ list[i] \in newer
    BY DEF NewestFirst
  <1>2. \A g \in newer : \E i \in 1..k-1 : list[i] = g
    <2> TAKE g \in newer
    <2>1. PICK i \in 1..Len(list) : list[i] = g
      BY DEF Lists
    <2>2. i < k
      <3>1. CASE i = k
        BY <2>1, <3>1
      <3>2. CASE i > k
        BY <2>1, <3>2 DEF NewestFirst
      <3> QED
        BY <3>1, <3>2
    <2> QED
      BY <2>1, <2>2
  <1> HIDE DEF newer
  <1>3. front \in [1..k-1 -> newer]
    BY <1>1
  <1>4. \A i, j \in 1..k-1 : front[i] = front[j] => i = j
    BY <1>1
  <1>5. \A g \in newer : \E i \in 1..k-1 : front[i] = g
    BY <1>2
  <1>6. front \in Bijection(1..k-1, newer)
    BY <1>3, <1>4, <1>5, Fun_IsBij
  <1>7. ExistsBijection(1..k-1, newer)
    BY <1>6 DEF ExistsBijection
  <1>8. IsFiniteSet(1..k-1) /\ Cardinality(1..k-1) = k - 1
    <2>1. k \in Nat /\ k - 1 >= 0
      OBVIOUS
    <2>2. 1 \in Int /\ k - 1 \in Int
      BY <2>1
    <2>3. /\ IsFiniteSet(1..k-1)
          /\ Cardinality(1..k-1) = IF 1 > k - 1 THEN 0 ELSE (k - 1) - 1 + 1
      BY <2>2, FS_Interval
    <2> QED
      BY <2>1, <2>3
  <1>9. Cardinality(newer) = k - 1
    BY <1>7, <1>8, FS_Bijection
  <1> QED
    BY <1>9 DEF newer

LEMMA RenewalStep ==
    ASSUME IInv, [Next]_vars, lpc = "head", lpc' = "renewed", NEW f \in In(dir)
    PROVE  f \in disk' <=>
              Cardinality({g \in In(dir) : g.day > f.day}) < LOG_DAY_MAX
  <1>1. RenewList
    BY DEF Next, LogThread, vars, ClearFlag, SkipRenewal, TakeQueue, addToLog,
           updateConnInfo, startLog, Restart, Midnight
  <1>2. PICK list \in Seq(File) :
            /\ NewestFirst(list) /\ KeepNewest(list, disk)
            /\ Lists(list, In(dir)) /\ Len(list) \in Nat
            /\ \A i \in 1..Len(list) : list[i] \in In(dir) /\ list[i].day \in Nat
            /\ \A i, j \in 1..Len(list) : list[i] = list[j] => i = j
    BY <1>1, Renewing
  <1>3. PICK k \in 1..Len(list) : list[k] = f
    BY <1>2 DEF Lists
  <1>4. In(dir) \in SUBSET File /\ In(dir) \subseteq disk
    BY DEF IInv, TypeOK, In
  <1>5. Cardinality({g \in In(dir) : g.day > f.day}) = k - 1
    BY <1>2, <1>3, <1>4, NewerThan
  <1>6. f \in disk' <=> k <= LOG_DAY_MAX
    BY <1>2, <1>3, <1>4, DistinctWeened
  <1> QED
    BY <1>2, <1>5, <1>6, RetentionAssumption

\* A renewed list leaves the newest LOG_DAY_MAX files of its directory.
THEOREM RenewalLeavesNewest == Spec => RenewalKeepsNewest
  <1>1. IInv /\ [Next]_vars =>
          [lpc = "head" /\ lpc' = "renewed" =>
             \A f \in In(dir) :
                f \in disk' <=>
                Cardinality({g \in In(dir) : g.day > f.day}) < LOG_DAY_MAX]_vars
    BY RenewalStep
  <1> QED
    BY <1>1, Invariance, PTL DEF Spec, RenewalKeepsNewest
=============================================================================
