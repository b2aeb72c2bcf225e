------------------------- MODULE ServerShutdownProof -------------------------
(***************************************************************************)
(* No message and no connection is mislaid when the server stops, for any  *)
(* number of connections and messages.                                     *)
(***************************************************************************)
EXTENDS ServerShutdown, SequenceTheorems, TLAPS

\* The log thread writes exactly while its batch is not empty.
BatchAgrees == lpc = "write" <=> localQueue # <<>>

\* The main thread's progress: what is true after a statement of main() stays.
StoppingAgrees ==
    /\ apc = "insert" <=> clientFd # NoConn
    /\ mpc \in {"joinAccept", "joinLog", "kill", "exited"} =>
           ~listening /\ backlog = {}
    /\ mpc \in {"joinLog", "kill", "exited"} => apc = "done"
    /\ mpc = "exited" => clientMap = {}

\* A connection that clients have opened is in one place only.
PlacesAreDisjoint ==
    /\ backlog \cup clientMap \cup closed \subseteq dialed
    /\ clientFd # NoConn => clientFd \in dialed
    /\ clientFd \notin backlog \cup clientMap \cup closed
    /\ backlog \cap (clientMap \cup closed) = {}
    /\ clientMap \cap closed = {}

IInv ==
    /\ TypeOK
    /\ BatchAgrees
    /\ StoppingAgrees
    /\ PlacesAreDisjoint
    /\ NoMessageMislaid
    /\ NobodyIsForgotten

-----------------------------------------------------------------------------
(***************************************************************************)
(* Facts about the log's queues.                                           *)
(***************************************************************************)
\* Queues may be put behind each other in any grouping; a name keeps the
\* provers from rewriting at will.
JoinsAt(s, t, u) == (s \o t) \o u = s \o (t \o u)
LEMMA JoinAssociative ==
    ASSUME NEW S, NEW s \in Seq(S), NEW t \in Seq(S), NEW u \in Seq(S)
    PROVE  JoinsAt(s, t, u)
  BY ConcatAssociative DEF JoinsAt

\* addToLog moves the first message of the batch behind the files.
LEMMA MoveHead ==
    ASSUME NEW s \in Seq(Nat), NEW t \in Seq(Nat), t # <<>>
    PROVE  /\ Append(s, Head(t)) \in Seq(Nat)
           /\ Tail(t) \in Seq(Nat)
           /\ Append(s, Head(t)) \o Tail(t) = s \o t
  <1>1. Head(t) \in Nat /\ Tail(t) \in Seq(Nat)
    BY HeadTailProperties
  <1>2. t = <<Head(t)>> \o Tail(t)
    BY <1>1
  <1>3. Append(s, Head(t)) = s \o <<Head(t)>>
    BY <1>1, AppendIsConcat
  <1>4. <<Head(t)>> \in Seq(Nat)
    BY <1>1
  <1>5. (s \o <<Head(t)>>) \o Tail(t) = s \o (<<Head(t)>> \o Tail(t))
    <2>1. JoinsAt(s, <<Head(t)>>, Tail(t))
      BY <1>1, <1>4, JoinAssociative
    <2> QED
      BY <2>1 DEF JoinsAt
  <1> QED
    BY <1>1, <1>2, <1>3, <1>4, <1>5, AppendProperties

\* A broadcast adds the next number to the numbers so far.
LEMMA NextNumber ==
    ASSUME NEW n \in Nat
    PROVE  Append([i \in 1..n |-> i], n + 1) = [i \in 1..(n + 1) |-> i]
  OBVIOUS

-----------------------------------------------------------------------------
(***************************************************************************)
(* The inductive invariant.                                                *)
(***************************************************************************)
LEMMA InitIInv == Init => IInv
  <1> SUFFICES ASSUME Init PROVE IInv
    OBVIOUS
  <1>1. TypeOK
    <2>1. <<>> \in Seq(Nat)
      BY EmptySeq
    <2> QED
      BY <2>1 DEF Init, TypeOK, MainSteps, AcceptSteps, LogSteps
  <1>2. NoMessageMislaid
    BY DEF Init, NoMessageMislaid, Unqueued
  <1> QED
    BY <1>1, <1>2, ConnAssumption
    DEF Init, IInv, BatchAgrees, StoppingAgrees, PlacesAreDisjoint,
        NobodyIsForgotten

\* Every step keeps the types.
LEMMA StepTypes ==
    ASSUME TypeOK, BatchAgrees, StoppingAgrees, [Next]_vars
    PROVE  TypeOK'
  <1> USE DEF TypeOK, MainSteps, AcceptSteps, LogSteps, connVars, queueVars
  <1>1. CASE Broadcast
    BY <1>1 DEF Broadcast
  <1>2. CASE AppendToLog
    BY <1>2 DEF AppendToLog, Wake
  <1>3. CASE Stopping
    BY <1>3 DEF Stopping, TakeSignal, NotifyAll, Wake, CloseListenFd,
                JoinAccept, JoinLog, killServer
  <1>4. CASE AcceptThread
    BY <1>4 DEF AcceptThread, AcceptHead, AcceptPoll, AcceptTimeout, Accept,
                InsertOrClose, StoppingAgrees
  <1>5. CASE LogThread
    <2>1. CASE addToLog
      BY <1>5, <2>1, MoveHead DEF addToLog, BatchAgrees
    <2>2. CASE TakeQueue
      <3>1. <<>> \in Seq(Nat)
        BY EmptySeq
      <3> QED
        BY <2>2, <3>1 DEF TakeQueue
    <2>3. CASE LogHead \/ PredicateFalse \/ Block \/ LogBreak
      BY <2>3 DEF LogHead, PredicateFalse, Block, LogBreak
    <2> QED
      BY <1>5, <2>1, <2>2, <2>3 DEF LogThread
  <1>6. CASE SpuriousWakeup
    BY <1>6 DEF SpuriousWakeup
  <1>7. CASE World
    BY <1>7 DEF World, Dial, Interrupt
  <1>8. CASE UNCHANGED vars
    BY <1>8 DEF vars
  <1> QED
    BY <1>1, <1>2, <1>3, <1>4, <1>5, <1>6, <1>7, <1>8 DEF Next

\* Every step keeps the log thread's place and its batch together.
LEMMA StepBatch ==
    ASSUME TypeOK, BatchAgrees, [Next]_vars
    PROVE  BatchAgrees'
  <1> USE DEF BatchAgrees, connVars, queueVars
  <1>1. CASE Broadcast \/ AppendToLog
    BY <1>1 DEF Broadcast, AppendToLog, Wake
  <1>2. CASE Stopping
    BY <1>2 DEF Stopping, TakeSignal, NotifyAll, Wake, CloseListenFd,
                JoinAccept, JoinLog, killServer
  <1>3. CASE AcceptThread
    BY <1>3 DEF AcceptThread, AcceptHead, AcceptPoll, AcceptTimeout, Accept,
                InsertOrClose
  <1>4. CASE LogThread
    BY <1>4 DEF LogThread, LogHead, PredicateFalse, Block, LogBreak, TakeQueue,
                addToLog
  <1>5. CASE SpuriousWakeup \/ World
    BY <1>5 DEF SpuriousWakeup, World, Dial, Interrupt
  <1>6. CASE UNCHANGED vars
    BY <1>6 DEF vars
  <1> QED
    BY <1>1, <1>2, <1>3, <1>4, <1>5, <1>6 DEF Next

\* What is read, added or moved by the log stays the broadcasts, in order.
LEMMA StepMessages ==
    ASSUME TypeOK, BatchAgrees, NoMessageMislaid, [Next]_vars
    PROVE  NoMessageMislaid'
  <1> USE DEF NoMessageMislaid
  <1>a. /\ files \in Seq(Nat) /\ localQueue \in Seq(Nat) /\ logQueue \in Seq(Nat)
        /\ files \o localQueue \in Seq(Nat)
        /\ sent \in Nat
    BY ConcatProperties DEF TypeOK
  <1>b. Unqueued \in Seq(Nat)
    BY <1>a DEF Unqueued
  <1>1. CASE Broadcast
    <2>1. Unqueued = <<>> /\ Unqueued' = <<sent + 1>> /\ sent' = sent + 1
      BY <1>1 DEF Broadcast, Unqueued
    <2>2. UNCHANGED <<files, localQueue, logQueue>>
      BY <1>1 DEF Broadcast
    <2>3. (files \o localQueue) \o logQueue = [i \in 1..sent |-> i]
      BY <1>a, <2>1, ConcatProperties, ConcatEmptySeq
    <2>4. ((files \o localQueue) \o logQueue) \o <<sent + 1>>
          = Append((files \o localQueue) \o logQueue, sent + 1)
      BY <1>a, ConcatProperties, AppendIsConcat
    <2> QED
      BY <1>a, <2>1, <2>2, <2>3, <2>4, NextNumber
  <1>2. CASE AppendToLog
    <2>1. Unqueued = <<sent>> /\ Unqueued' = <<>>
      BY <1>2 DEF AppendToLog, Unqueued
    <2>2. logQueue' = logQueue \o <<sent>> /\ logQueue' \in Seq(Nat)
      BY <1>2, <1>a, AppendIsConcat, AppendProperties DEF AppendToLog
    <2>3. UNCHANGED <<files, localQueue, sent>>
      BY <1>2 DEF AppendToLog
    <2>4. ((files \o localQueue) \o logQueue) \o <<sent>>
          = (files \o localQueue) \o (logQueue \o <<sent>>)
      <3>1. <<sent>> \in Seq(Nat)
        BY <1>b, <2>1
      <3>2. JoinsAt(files \o localQueue, logQueue, <<sent>>)
        BY <1>a, <3>1, JoinAssociative
      <3> QED
        BY <3>2 DEF JoinsAt
    <2>5. ((files \o localQueue) \o logQueue') \o <<>>
          = (files \o localQueue) \o logQueue'
      BY <1>a, <2>2, ConcatProperties, ConcatEmptySeq
    <2> QED
      BY <2>1, <2>2, <2>3, <2>4, <2>5
  <1>3. CASE TakeQueue
    <2>1. localQueue = <<>>
      BY <1>3 DEF TakeQueue, BatchAgrees
    <2>2. /\ localQueue' = logQueue /\ logQueue' = <<>>
          /\ UNCHANGED <<files, sent, mpc>>
      BY <1>3 DEF TakeQueue
    <2>3. Unqueued' = Unqueued
      BY <2>2 DEF Unqueued
    <2>4. /\ (files \o <<>>) \o logQueue = files \o logQueue
          /\ (files \o logQueue) \o <<>> = files \o logQueue
      BY <1>a, ConcatProperties, ConcatEmptySeq
    <2> QED
      BY <2>1, <2>2, <2>3, <2>4
  <1>4. CASE addToLog
    <2>1. localQueue # <<>>
      BY <1>4 DEF addToLog, BatchAgrees
    <2>2. files' \o localQueue' = files \o localQueue
      BY <1>4, <1>a, <2>1, MoveHead DEF addToLog
    <2>3. UNCHANGED <<logQueue, sent, mpc>>
      BY <1>4 DEF addToLog
    <2> QED
      BY <2>2, <2>3 DEF Unqueued
  <1>5. CASE Stopping
    BY <1>5 DEF Stopping, TakeSignal, NotifyAll, CloseListenFd, JoinAccept,
                JoinLog, killServer, Unqueued, queueVars
  <1>6. CASE AcceptThread
    BY <1>6 DEF AcceptThread, AcceptHead, AcceptPoll, AcceptTimeout, Accept,
                InsertOrClose, Unqueued, queueVars
  <1>7. CASE LogHead \/ PredicateFalse \/ Block \/ LogBreak \/ SpuriousWakeup
    BY <1>7 DEF LogHead, PredicateFalse, Block, LogBreak, SpuriousWakeup,
                Unqueued, queueVars
  <1>8. CASE World
    BY <1>8 DEF World, Dial, Interrupt, Unqueued, queueVars
  <1>9. CASE UNCHANGED vars
    BY <1>9 DEF vars, Unqueued, queueVars
  <1> QED
    BY <1>1, <1>2, <1>3, <1>4, <1>5, <1>6, <1>7, <1>8, <1>9
    DEF Next, LogThread

\* Every step keeps connections in one place each.
LEMMA StepConnections ==
    ASSUME TypeOK, StoppingAgrees, PlacesAreDisjoint, NobodyIsForgotten,
           [Next]_vars
    PROVE  StoppingAgrees' /\ PlacesAreDisjoint' /\ NobodyIsForgotten'
  <1> USE ConnAssumption DEF TypeOK, StoppingAgrees, PlacesAreDisjoint,
        NobodyIsForgotten
  <1>1. CASE Broadcast \/ AppendToLog
    BY <1>1 DEF Broadcast, AppendToLog, connVars
  <1>2. CASE TakeSignal \/ NotifyAll
    BY <1>2 DEF TakeSignal, NotifyAll, connVars
  <1>3. CASE CloseListenFd
    BY <1>3 DEF CloseListenFd
  <1>4. CASE JoinAccept \/ JoinLog
    BY <1>4 DEF JoinAccept, JoinLog, connVars
  <1>5. CASE killServer
    BY <1>5 DEF killServer
  <1>6. CASE AcceptHead \/ AcceptPoll \/ AcceptTimeout
    BY <1>6 DEF AcceptHead, AcceptPoll, AcceptTimeout, connVars
  <1>7. CASE Accept
    BY <1>7 DEF Accept
  <1>8. CASE InsertOrClose
    BY <1>8 DEF InsertOrClose
  <1>9. CASE LogThread \/ SpuriousWakeup
    BY <1>9 DEF LogThread, LogHead, PredicateFalse, Block, LogBreak, TakeQueue,
                addToLog, SpuriousWakeup, connVars
  <1>10. CASE Interrupt
    BY <1>10 DEF Interrupt, connVars
  <1>11. ASSUME NEW c \in Conn, Dial(c)
         PROVE  StoppingAgrees' /\ PlacesAreDisjoint' /\ NobodyIsForgotten'
    BY <1>11 DEF Dial
  <1>12. CASE UNCHANGED vars
    BY <1>12 DEF vars, connVars
  <1> QED
    BY <1>1, <1>2, <1>3, <1>4, <1>5, <1>6, <1>7, <1>8, <1>9, <1>10, <1>11,
       <1>12
    DEF Next, Stopping, AcceptThread, World

\* The invariant holds in every reachable state.
THEOREM Invariance == Spec => []IInv
  <1>1. Init => IInv
    BY InitIInv
  <1>2. IInv /\ [Next]_vars => IInv'
    BY StepTypes, StepBatch, StepMessages, StepConnections DEF IInv
  <1> QED
    BY <1>1, <1>2, PTL DEF Spec

\* Every variable keeps its type, whenever the server is told to stop.
THEOREM TypeCorrect == Spec => []TypeOK
  <1>1. IInv => TypeOK
    BY DEF IInv
  <1> QED
    BY <1>1, Invariance, PTL

\* Between the broadcast and the file no message is lost, doubled or overtaken,
\* for any number of messages and any moment of the shutdown.
THEOREM MessagesKept == Spec => []NoMessageMislaid
  <1>1. IInv => NoMessageMislaid
    BY DEF IInv
  <1> QED
    BY <1>1, Invariance, PTL

\* Of any number of connections none is left open when the server exits, and
\* none is in two hands.
THEOREM ConnectionsKept == Spec => []NobodyIsForgotten
  <1>1. IInv => NobodyIsForgotten
    BY DEF IInv
  <1> QED
    BY <1>1, Invariance, PTL
=============================================================================
