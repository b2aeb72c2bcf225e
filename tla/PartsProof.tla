------------------------------- MODULE PartsProof -------------------------------
(***************************************************************************)
(* Proofs about the modules of Parts: the framing of packets, the form and *)
(* its file, the message window, and the history of a client.  A behaviour *)
(* of Parts is a behaviour of each of its modules, so each is proved about *)
(* by its own.                                                             *)
(***************************************************************************)
EXTENDS Parts, LogRetentionProof, SubsequenceProof

LEMMA FramingRuns == PartsSpec => F!Spec
<1>1. PartsInit => F!Init
  BY DEF PartsInit
<1>2. [PartsNext]_parts_vars => [F!Next]_F!vars
  BY DEF PartsNext, parts_vars, framing_vars, F!vars
<1> QED
  BY <1>1, <1>2, PTL DEF PartsSpec, F!Spec

LEMMA FormRuns == PartsSpec => C!Spec
<1>1. PartsInit => C!Init
  BY DEF PartsInit
<1>2. [PartsNext]_parts_vars => [C!Next]_C!vars
  BY DEF PartsNext, parts_vars, form_vars, C!vars
<1> QED
  BY <1>1, <1>2, PTL DEF PartsSpec, C!Spec

LEMMA WindowRuns == PartsSpec => W!Spec
<1>1. PartsInit => W!Init
  BY DEF PartsInit
<1>2. [PartsNext]_parts_vars => [W!Next]_W!vars
  BY DEF PartsNext, parts_vars, window_vars, W!vars
<1> QED
  BY <1>1, <1>2, PTL DEF PartsSpec, W!Spec

LEMMA LogRuns == PartsSpec => Spec
<1>1. PartsInit => Init
  BY DEF PartsInit
<1>2. [PartsNext]_parts_vars => [Next]_vars
  BY DEF PartsNext, parts_vars, vars
<1> QED
  BY <1>1, <1>2, PTL DEF PartsSpec, Spec

LEMMA HistoryRuns == PartsSpec => H!Spec
<1>1. PartsInit => H!Init
  BY DEF PartsInit
<1>2. [PartsNext]_parts_vars => [H!Next]_H!vars
  BY DEF PartsNext, parts_vars, history_vars, H!vars, H!servVars, H!connVars,
         H!cliVars, H!histVars
<1> QED
  BY <1>1, <1>2, PTL DEF PartsSpec, H!Spec

-----------------------------------------------------------------------------
(***************************************************************************)
(* Framing.  The bytes the client has, has not read and has not got yet    *)
(* are the rest of the packets in order, without a gap or a repetition.    *)
(***************************************************************************)
Place(k, i) == [of |-> k, at |-> i]

\* The byte that comes after b.
After(b) == IF b.at < sent[b.of] THEN Place(b.of, b.at + 1)
            ELSE Place(b.of + 1, 1)

\* The bytes of s follow each other from the place p up to the place q.
Chain(s, p, q) ==
    /\ s = <<>> => p = q
    /\ s # <<>> => s[1] = p /\ After(s[Len(s)]) = q
    /\ \A i \in 1 .. Len(s) - 1 : s[i + 1] = After(s[i])

SentByte == {b \in F!Byte : b.of <= Len(sent) /\ b.at <= sent[b.of]}

Fits == sent # <<>> /\ sent[1] < LengthRange

FramingTypes ==
    /\ sent \in Seq(ValidateSize \cup Size) /\ Len(sent) <= MaxSent
    /\ \A k \in 2 .. Len(sent) : sent[k] \in Size
    /\ net \in Seq(SentByte) /\ socket \in Seq(SentByte)
    /\ readBuf \in Seq(SentByte)
    /\ link \in {"open", "closing", "closed"} /\ edge \in BOOLEAN
    /\ pc \in {"header", "rest", "sleep", "parse", "ended", "lost"}
    /\ dispatched \in Seq(1 .. MaxSent)

\* Where the client is: first is the place of the first byte it has not
\* handled.
Position(first) ==
    /\ pc \in {"header", "rest"} => first = Place(1, 1) /\ dispatched = <<>>
    /\ pc \in {"sleep", "parse", "lost"} =>
        /\ sent # <<>> /\ first # Place(1, 1)
        /\ Fits => first = Place(Len(dispatched) + 2, 1)
    /\ pc = "lost" => ~Fits
    /\ pc = "header" => Len(readBuf) < headerLen
    /\ pc = "rest" => /\ readBuf # <<>>
                      /\ \/ Len(readBuf) = headerLen
                         \/ Len(readBuf) < sent[1] % LengthRange
    /\ pc = "sleep" /\ readBuf # <<>> =>
        readBuf[1].at = 1 /\ Len(readBuf) < sent[readBuf[1].of]

FramingInv ==
    /\ FramingTypes
    /\ sent = <<>> => dispatched = <<>>
    /\ Fits => \A i \in 1 .. Len(dispatched) : dispatched[i] = i + 1
    /\ \E first, unread, late :
        /\ Chain(readBuf, first, unread)
        /\ Chain(socket, unread, late)
        /\ Chain(net, late, Place(Len(sent) + 1, 1))
        /\ Position(first)

LEMMA FramingInit == F!Init => FramingInv
<1> SUFFICES ASSUME F!Init PROVE FramingInv
  OBVIOUS
<1>1. FramingTypes
  <2>1. /\ <<>> \in Seq(ValidateSize \cup Size) /\ <<>> \in Seq(SentByte)
        /\ <<>> \in Seq(1 .. MaxSent) /\ Len(<<>>) = 0
    BY EmptySeq
  <2>2. \A k \in 2 .. Len(sent) : sent[k] \in Size
    BY <2>1 DEF F!Init
  <2>3. Len(sent) <= MaxSent
    BY <2>1, FramingAssumption DEF F!Init
  <2> QED
    BY <2>1, <2>2, <2>3, Zenon DEF F!Init, FramingTypes
<1>4. ~Fits /\ dispatched = <<>>
  BY DEF F!Init, Fits
<1>2. Position(Place(1, 1))
  BY FramingAssumption DEF F!Init, Position
<1>3. Chain(<<>>, Place(1, 1), Place(1, 1)) /\ Len(sent) + 1 = 1
  BY DEF Chain, F!Init
<1> QED
  BY <1>1, <1>2, <1>3, <1>4 DEF FramingInv, F!Init

\* Chains can be put together, and taken apart.
LEMMA ChainConcat ==
    ASSUME NEW S, NEW s \in Seq(S), NEW t \in Seq(S), NEW p, NEW q, NEW r,
           Chain(s, p, q), Chain(t, q, r)
    PROVE  s \o t \in Seq(S) /\ Chain(s \o t, p, r)
<1>1. /\ s \o t \in Seq(S) /\ Len(s \o t) = Len(s) + Len(t)
      /\ Len(s) \in Nat /\ Len(t) \in Nat
      /\ \A i \in 1 .. Len(s) + Len(t) :
            (s \o t)[i] = IF i <= Len(s) THEN s[i] ELSE t[i - Len(s)]
  BY ConcatProperties, LenProperties
<1>2. (s = <<>> <=> Len(s) = 0) /\ (t = <<>> <=> Len(t) = 0)
      /\ (s \o t = <<>> <=> Len(s \o t) = 0)
  BY <1>1, EmptySeq
<1>3. s \o t = <<>> => p = r
  BY <1>1, <1>2 DEF Chain
<1>4. s \o t # <<>> => (s \o t)[1] = p /\ After((s \o t)[Len(s \o t)]) = r
  <2>1. CASE s = <<>>
    <3>1. CASE t = <<>>
      BY <2>1, <3>1, <1>1, <1>2
    <3>2. CASE t # <<>>
      <4>1. (s \o t)[1] = t[1] /\ (s \o t)[Len(s \o t)] = t[Len(t)]
        BY <2>1, <3>2, <1>1, <1>2
      <4> QED
        BY <4>1, <2>1, <3>2 DEF Chain
    <3> QED
      BY <3>1, <3>2
  <2>2. CASE s # <<>>
    <3>1. (s \o t)[1] = s[1] /\ s[1] = p
      BY <2>2, <1>1, <1>2 DEF Chain
    <3>2. CASE t = <<>>
      <4>1. (s \o t)[Len(s \o t)] = s[Len(s)]
        BY <2>2, <3>2, <1>1, <1>2
      <4> QED
        BY <4>1, <3>1, <3>2, <2>2 DEF Chain
    <3>3. CASE t # <<>>
      <4>1. (s \o t)[Len(s \o t)] = t[Len(t)]
        BY <2>2, <3>3, <1>1, <1>2
      <4> QED
        BY <4>1, <3>1, <3>3, <2>2 DEF Chain
    <3> QED
      BY <3>2, <3>3
  <2> QED
    BY <2>1, <2>2
<1>5. ASSUME NEW i \in 1 .. Len(s \o t) - 1
      PROVE  (s \o t)[i + 1] = After((s \o t)[i])
  <2>1. CASE i < Len(s)
    <3>1. (s \o t)[i + 1] = s[i + 1] /\ (s \o t)[i] = s[i] /\ i \in 1 .. Len(s) - 1
      BY <2>1, <1>1
    <3> QED
      BY <3>1 DEF Chain
  <2>2. CASE i = Len(s)
    <3>1. (s \o t)[i + 1] = t[1] /\ (s \o t)[i] = s[Len(s)]
          /\ s # <<>> /\ t # <<>>
      BY <2>2, <1>1, <1>2
    <3> QED
      BY <3>1 DEF Chain
  <2>3. CASE i > Len(s)
    <3>1. (s \o t)[i + 1] = t[(i - Len(s)) + 1] /\ (s \o t)[i] = t[i - Len(s)]
          /\ i - Len(s) \in 1 .. Len(t) - 1
      BY <2>3, <1>1
    <3> QED
      BY <3>1 DEF Chain
  <2> QED
    BY <2>1, <2>2, <2>3, <1>1
<1> QED
  BY <1>1, <1>3, <1>4, <1>5 DEF Chain

LEMMA ChainSplit ==
    ASSUME NEW S, NEW s \in Seq(S), NEW n \in 0 .. Len(s), NEW p, NEW r,
           Chain(s, p, r)
    PROVE  /\ F!Take(s, n) \in Seq(S) /\ Len(F!Take(s, n)) = n
           /\ F!Drop(s, n) \in Seq(S) /\ Len(F!Drop(s, n)) = Len(s) - n
           /\ \E q : Chain(F!Take(s, n), p, q) /\ Chain(F!Drop(s, n), q, r)
<1> DEFINE t == F!Take(s, n)
           d == F!Drop(s, n)
           q == IF n = 0 THEN p ELSE After(s[n])
<1>1. Len(s) \in Nat /\ \A i \in 1 .. Len(s) : s[i] \in S
  BY LenProperties, ElementOfSeq
<1>2. /\ t \in Seq(S) /\ Len(t) = n
      /\ \A i \in 1 .. n : t[i] = s[i]
  BY <1>1, SubSeqProperties DEF F!Take
<1>3. /\ d \in Seq(S) /\ Len(d) = Len(s) - n
      /\ \A i \in 1 .. Len(s) - n : d[i] = s[n + i]
  <2>1. \A i \in n + 1 .. Len(s) : s[i] \in S
    BY <1>1
  <2>2. /\ SubSeq(s, n + 1, Len(s)) \in Seq(S)
        /\ Len(SubSeq(s, n + 1, Len(s)))
             = IF n + 1 <= Len(s) THEN Len(s) - (n + 1) + 1 ELSE 0
        /\ \A i \in 1 .. Len(s) - (n + 1) + 1 :
              SubSeq(s, n + 1, Len(s))[i] = s[(n + 1) + i - 1]
    BY <1>1, <2>1, SubSeqProperties, n + 1 \in Int, Len(s) \in Int
  <2>3. d = SubSeq(s, n + 1, Len(s))
    BY DEF F!Drop
  <2>4. d \in Seq(S) /\ Len(d) = Len(s) - n
    BY <1>1, <2>2, <2>3
  <2>5. ASSUME NEW i \in 1 .. Len(s) - n PROVE d[i] = s[n + i]
    <3>1. i \in 1 .. Len(s) - (n + 1) + 1 /\ (n + 1) + i - 1 = n + i
      BY <1>1
    <3> QED
      BY <3>1, <2>2, <2>3
  <2> QED
    BY <2>4, <2>5
<1>4. (t = <<>> <=> n = 0) /\ (d = <<>> <=> Len(s) = n) /\ (s = <<>> <=> Len(s) = 0)
  BY <1>1, <1>2, <1>3, EmptySeq
<1> HIDE DEF t, d
<1>5. Chain(t, p, q)
  <2>1. \A i \in 1 .. Len(t) - 1 : t[i + 1] = After(t[i])
    <3> TAKE i \in 1 .. Len(t) - 1
    <3>1. t[i + 1] = s[i + 1] /\ t[i] = s[i] /\ i \in 1 .. Len(s) - 1
      BY <1>1, <1>2
    <3> QED
      BY <3>1 DEF Chain
  <2>2. t # <<>> => t[1] = p /\ After(t[Len(t)]) = q
    <3> SUFFICES ASSUME t # <<>> PROVE t[1] = p /\ After(t[Len(t)]) = q
      OBVIOUS
    <3>1. n > 0 /\ s # <<>> /\ t[1] = s[1] /\ t[Len(t)] = s[n]
      BY <1>1, <1>2, <1>4
    <3> QED
      BY <3>1 DEF Chain
  <2> QED
    BY <2>1, <2>2, <1>4 DEF Chain
<1>6. Chain(d, q, r)
  <2>1. \A i \in 1 .. Len(d) - 1 : d[i + 1] = After(d[i])
    <3> TAKE i \in 1 .. Len(d) - 1
    <3>1. d[i + 1] = s[(n + i) + 1] /\ d[i] = s[n + i] /\ n + i \in 1 .. Len(s) - 1
      BY <1>1, <1>3
    <3> QED
      BY <3>1 DEF Chain
  <2>2. d # <<>> => d[1] = q /\ After(d[Len(d)]) = r
    <3> SUFFICES ASSUME d # <<>> PROVE d[1] = q /\ After(d[Len(d)]) = r
      OBVIOUS
    <3>1. n < Len(s) /\ s # <<>> /\ d[1] = s[n + 1] /\ d[Len(d)] = s[Len(s)]
      BY <1>1, <1>3, <1>4
    <3>2. n > 0 => n \in 1 .. Len(s) - 1
      BY <1>1, <3>1
    <3> QED
      BY <3>1, <3>2 DEF Chain
  <2>3. d = <<>> => q = r
    BY <1>1, <1>4 DEF Chain
  <2> QED
    BY <2>1, <2>2, <2>3 DEF Chain
<1> QED
  BY <1>2, <1>3, <1>5, <1>6 DEF t, d

\* A chain that starts where packet k does is that packet, as far as it goes.
LEMMA WithinPacket ==
    ASSUME NEW S, NEW s \in Seq(S), NEW k \in Nat, sent[k] \in Nat, NEW r,
           Len(s) <= sent[k], Chain(s, Place(k, 1), r)
    PROVE  /\ \A i \in 1 .. Len(s) : s[i] = Place(k, i)
           /\ s # <<>> /\ Len(s) = sent[k] => r = Place(k + 1, 1)
<1> DEFINE T == {n \in Nat : n \in 1 .. Len(s) => s[n] = Place(k, n)}
<1>1. Len(s) \in Nat /\ (s = <<>> <=> Len(s) = 0)
  BY LenProperties, EmptySeq
<1>2. 0 \in T
  OBVIOUS
<1>3. ASSUME NEW n \in Nat, n \in T PROVE n + 1 \in T
  <2> SUFFICES ASSUME n + 1 \in 1 .. Len(s) PROVE s[n + 1] = Place(k, n + 1)
    OBVIOUS
  <2>1. CASE n = 0
    BY <2>1, <1>1 DEF Chain
  <2>2. CASE n # 0
    <3>1. n \in 1 .. Len(s) - 1 /\ n \in 1 .. Len(s) /\ n < sent[k]
      BY <2>2, <1>1
    <3>2. s[n] = Place(k, n) /\ s[n + 1] = After(s[n])
      BY <3>1, <1>3 DEF Chain
    <3> QED
      BY <3>1, <3>2 DEF After, Place
  <2> QED
    BY <2>1, <2>2
<1>4. Nat \subseteq T
  <2> HIDE DEF T
  <2> QED
    BY <1>2, <1>3, SetInd
<1>5. \A i \in 1 .. Len(s) : s[i] = Place(k, i)
  BY <1>1, <1>4
<1>6. s # <<>> /\ Len(s) = sent[k] => r = Place(k + 1, 1)
  <2> SUFFICES ASSUME s # <<>>, Len(s) = sent[k] PROVE r = Place(k + 1, 1)
    OBVIOUS
  <2>1. s[Len(s)] = Place(k, sent[k]) /\ After(s[Len(s)]) = r
    BY <1>1, <1>5 DEF Chain
  <2> QED
    BY <2>1 DEF After, Place
<1> QED
  BY <1>5, <1>6

\* No byte is followed by the first one.
LEMMA NeverFirst ==
    ASSUME NEW s \in Seq(SentByte), s # <<>>, NEW p, NEW r, Chain(s, p, r)
    PROVE  r # Place(1, 1)
<1>1. s[Len(s)] \in SentByte /\ After(s[Len(s)]) = r
  <2>1. Len(s) \in 1 .. Len(s)
    BY LenProperties, EmptySeq
  <2> QED
    BY <2>1, ElementOfSeq DEF Chain
<1>2. s[Len(s)].of \in Nat /\ s[Len(s)].of >= 1 /\ s[Len(s)].at \in Nat /\ s[Len(s)].at >= 1
  BY <1>1, FramingAssumption DEF SentByte, F!Byte
<1> QED
  BY <1>1, <1>2 DEF After, Place

\* A step that sends nothing keeps the invariant if what it leaves in the
\* three places are still chains.
LEMMA FramingMoves ==
    ASSUME FramingInv, UNCHANGED sent,
           link' \in {"open", "closing", "closed"}, edge' \in BOOLEAN,
           pc' \in {"header", "rest", "sleep", "parse", "ended", "lost"},
           readBuf' \in Seq(SentByte), socket' \in Seq(SentByte),
           net' \in Seq(SentByte), dispatched' \in Seq(1 .. MaxSent),
           sent = <<>> => dispatched' = <<>>,
           Fits => \A i \in 1 .. Len(dispatched') : dispatched'[i] = i + 1,
           NEW first, NEW unread, NEW late,
           Chain(readBuf', first, unread), Chain(socket', unread, late),
           Chain(net', late, Place(Len(sent) + 1, 1)), Position(first)'
    PROVE  FramingInv'
<1>1. SentByte' = SentByte /\ (Fits' <=> Fits)
  BY DEF SentByte, Fits
<1>2. FramingTypes'
  BY <1>1 DEF FramingInv, FramingTypes
<1>3. /\ Chain(readBuf, first, unread)' /\ Chain(socket, unread, late)'
      /\ Chain(net, late, Place(Len(sent) + 1, 1))'
  BY DEF Chain, After, Place
<1>4. (sent = <<>> => dispatched = <<>>)'
  OBVIOUS
<1>5. (Fits => \A i \in 1 .. Len(dispatched) : dispatched[i] = i + 1)'
  BY <1>1
<1> QED
  BY <1>2, <1>3, <1>4, <1>5 DEF FramingInv

\* What the invariant says, for the proofs of the steps.
LEMMA FramingFacts ==
    ASSUME FramingTypes
    PROVE  /\ \A k \in 1 .. Len(sent) : sent[k] \in Nat /\ sent[k] >= headerLen
           /\ \A k \in 2 .. Len(sent) : sent[k] % LengthRange = sent[k]
           /\ Fits => sent[1] % LengthRange = sent[1]
           /\ Len(sent) \in Nat /\ (sent = <<>> <=> Len(sent) = 0)
           /\ \A b \in SentByte :
                /\ b.of \in 1 .. Len(sent) /\ b.at \in 1 .. sent[b.of]
                /\ b = Place(b.of, b.at)
<1>1. Len(sent) \in Nat /\ \A k \in 1 .. Len(sent) : sent[k] \in ValidateSize \cup Size
  BY LenProperties, ElementOfSeq DEF FramingTypes
<1>2. \A k \in 1 .. Len(sent) : sent[k] \in Nat /\ sent[k] >= headerLen
  BY <1>1, FramingAssumption
<1>3. \A n \in Nat : n < LengthRange => n % LengthRange = n
  BY FramingAssumption
<1>4. \A k \in 2 .. Len(sent) : sent[k] % LengthRange = sent[k]
  <2> TAKE k \in 2 .. Len(sent)
  <2>1. sent[k] \in Nat /\ sent[k] < LengthRange
    BY <1>1, <1>2, FramingAssumption DEF FramingTypes
  <2> QED
    BY <1>3, <2>1
<1>5. sent = <<>> <=> Len(sent) = 0
  BY EmptySeq DEF FramingTypes
<1>6. Fits => sent[1] % LengthRange = sent[1]
  <2>1. Fits => 1 \in 1 .. Len(sent) /\ sent[1] < LengthRange
    BY <1>1, <1>5 DEF Fits
  <2> QED
    BY <1>2, <1>3, <2>1
<1>7. ASSUME NEW b \in SentByte
      PROVE  /\ b.of \in 1 .. Len(sent) /\ b.at \in 1 .. sent[b.of]
             /\ b = Place(b.of, b.at)
  <2>1. b \in F!Byte /\ b.of <= Len(sent) /\ b.at <= sent[b.of]
    BY DEF SentByte
  <2>2. b.of \in 1 .. MaxSent /\ b.at \in Nat \ {0} /\ b = [of |-> b.of, at |-> b.at]
    BY <2>1 DEF F!Byte
  <2>3. b.of \in 1 .. Len(sent)
    BY <2>1, <2>2, <1>1, FramingAssumption
  <2> QED
    BY <2>1, <2>2, <2>3, <1>2 DEF Place
<1> QED
  BY <1>1, <1>2, <1>4, <1>5, <1>6, <1>7

LEMMA CloseFraming == FramingInv /\ (F!Close \/ F!Fin) => FramingInv'
<1> SUFFICES ASSUME FramingInv, F!Close \/ F!Fin PROVE FramingInv'
  OBVIOUS
<1>1. UNCHANGED <<sent, net, socket, readBuf, pc, dispatched>>
      /\ link' \in {"open", "closing", "closed"} /\ edge' \in BOOLEAN
  BY DEF F!Close, F!Fin, FramingInv, FramingTypes
<1>2. PICK first, unread, late :
        /\ Chain(readBuf, first, unread) /\ Chain(socket, unread, late)
        /\ Chain(net, late, Place(Len(sent) + 1, 1)) /\ Position(first)
  BY DEF FramingInv
<1>3. Position(first)'
  BY <1>1, <1>2 DEF Position, Fits, Place
<1> QED
  BY <1>1, <1>2, <1>3, FramingMoves DEF FramingInv, FramingTypes

LEMMA DeliverFraming == FramingInv /\ F!Deliver => FramingInv'
<1> SUFFICES ASSUME FramingInv, F!Deliver PROVE FramingInv'
  OBVIOUS
<1>1. UNCHANGED <<sent, link, readBuf, pc, dispatched>> /\ edge' = TRUE
  BY DEF F!Deliver
<1>2. PICK n \in 1 .. Len(net) : /\ socket' = socket \o F!Take(net, n)
                                 /\ net' = F!Drop(net, n)
  BY DEF F!Deliver
<1>3. PICK first, unread, late :
        /\ Chain(readBuf, first, unread) /\ Chain(socket, unread, late)
        /\ Chain(net, late, Place(Len(sent) + 1, 1)) /\ Position(first)
  BY DEF FramingInv
<1>4. net \in Seq(SentByte) /\ socket \in Seq(SentByte)
  BY DEF FramingInv, FramingTypes
<1>5. n \in 0 .. Len(net)
  OBVIOUS
<1>6. PICK q : /\ F!Take(net, n) \in Seq(SentByte) /\ F!Drop(net, n) \in Seq(SentByte)
               /\ Chain(F!Take(net, n), late, q)
               /\ Chain(F!Drop(net, n), q, Place(Len(sent) + 1, 1))
  BY <1>3, <1>4, <1>5, ChainSplit
<1>7. socket' \in Seq(SentByte) /\ Chain(socket', unread, q)
  BY <1>2, <1>3, <1>4, <1>6, ChainConcat
<1>8. Position(first)'
  BY <1>1, <1>3 DEF Position, Fits, Place
<1>9. Chain(net', q, Place(Len(sent) + 1, 1)) /\ net' \in Seq(SentByte)
  BY <1>2, <1>6
<1>10. Chain(readBuf', first, unread)
  BY <1>1, <1>3
<1> QED
  BY <1>1, <1>7, <1>8, <1>9, <1>10, FramingMoves DEF FramingInv, FramingTypes

LEMMA SendFraming ==
    ASSUME FramingInv, NEW size \in IF sent = <<>> THEN ValidateSize ELSE Size,
           F!Send(size)
    PROVE  FramingInv'
<1> DEFINE k == Len(sent) + 1
           packet == [i \in 1 .. size |-> Place(k, i)]
<1>0. FramingTypes
  BY DEF FramingInv
<1>1. /\ sent' = Append(sent, size) /\ net' = net \o packet
      /\ UNCHANGED <<link, socket, edge, readBuf, pc, dispatched>>
      /\ Len(sent) < MaxSent
  BY DEF F!Send, Place
<1>2. /\ Len(sent) \in Nat /\ (sent = <<>> <=> Len(sent) = 0)
      /\ \A b \in SentByte : b.of \in 1 .. Len(sent) /\ b.at \in 1 .. sent[b.of]
      /\ \A j \in 1 .. Len(sent) : sent[j] \in Nat
  BY <1>0, FramingFacts
<1>3. size \in Nat /\ size >= headerLen /\ size > 0 /\ size \in ValidateSize \cup Size
      /\ (sent # <<>> => size \in Size)
  BY FramingAssumption
<1>4. /\ sent' \in Seq(ValidateSize \cup Size) /\ Len(sent') = k
      /\ sent'[k] = size /\ \A j \in 1 .. Len(sent) : sent'[j] = sent[j]
  BY <1>0, <1>1, <1>3, AppendProperties DEF FramingTypes
<1>5. SentByte \subseteq SentByte'
  BY <1>2, <1>4 DEF SentByte
<1>6. \A i \in 1 .. size : Place(k, i) \in SentByte'
  <2> TAKE i \in 1 .. size
  <2>1. Place(k, i) \in F!Byte
    BY <1>1, <1>2, <1>3, FramingAssumption DEF Place, F!Byte
  <2> QED
    BY <2>1, <1>2, <1>3, <1>4 DEF SentByte, Place
<1>7. packet \in Seq(SentByte') /\ Len(packet) = size
      /\ \A i \in 1 .. size : packet[i] = Place(k, i)
  <2>1. packet \in [1 .. size -> SentByte']
    BY <1>6
  <2>2. packet \in Seq(SentByte')
    BY <2>1, <1>3, SeqDef
  <2>3. Len(packet) = size
    BY <2>1, <2>2, <1>3, LenProperties
  <2> QED
    BY <2>2, <2>3
<1> HIDE DEF packet
<1>8. /\ net \in Seq(SentByte) /\ socket \in Seq(SentByte) /\ readBuf \in Seq(SentByte)
      /\ net \in Seq(SentByte') /\ socket \in Seq(SentByte') /\ readBuf \in Seq(SentByte')
  BY <1>0, <1>5 DEF FramingTypes
<1>9. net' \in Seq(SentByte')
      /\ Len(net') = Len(net) + size
      /\ \A i \in 1 .. Len(net) + size :
            net'[i] = IF i <= Len(net) THEN net[i] ELSE Place(k, i - Len(net))
  <2>1. /\ net \o packet \in Seq(SentByte')
        /\ Len(net \o packet) = Len(net) + Len(packet)
        /\ \A i \in 1 .. Len(net) + Len(packet) :
            (net \o packet)[i] = IF i <= Len(net) THEN net[i] ELSE packet[i - Len(net)]
    BY <1>7, <1>8, ConcatProperties
  <2>2. \A i \in 1 .. Len(net) + size : i > Len(net) => i - Len(net) \in 1 .. size
    BY <1>3, <1>8, LenProperties
  <2> QED
    BY <2>1, <2>2, <1>1, <1>7, <1>8, LenProperties
<1>10. FramingTypes'
  <2>1. (\A j \in 2 .. Len(sent) : sent[j] \in Size)'
    <3>1. \A j \in 2 .. k : sent'[j] \in Size
      <4> TAKE j \in 2 .. k
      <4>1. CASE j = k
        BY <4>1, <1>2, <1>3, <1>4
      <4>2. CASE j # k
        <5>1. j \in 2 .. Len(sent)
          BY <4>2, <1>2
        <5> QED
          BY <5>1, <1>0, <1>4 DEF FramingTypes
      <4> QED
        BY <4>1, <4>2
    <3> QED
      BY <3>1, <1>4
  <2>2. Len(sent') <= MaxSent
    BY <1>1, <1>2, <1>4, FramingAssumption
  <2> QED
    BY <1>0, <1>1, <1>4, <1>8, <1>9, <2>1, <2>2 DEF FramingTypes
<1>11. PICK first, unread, late :
        /\ Chain(readBuf, first, unread) /\ Chain(socket, unread, late)
        /\ Chain(net, late, Place(k, 1)) /\ Position(first)
  BY DEF FramingInv
<1> DEFINE Then(b) == IF b.at < sent'[b.of] THEN Place(b.of, b.at + 1)
                      ELSE Place(b.of + 1, 1)
<1>12. \A b \in SentByte : Then(b) = After(b)
  BY <1>2, <1>4 DEF After
<1>13. ASSUME NEW s \in Seq(SentByte), NEW p, NEW q, Chain(s, p, q)
       PROVE  /\ s = <<>> => p = q
              /\ s # <<>> => s[1] = p /\ Then(s[Len(s)]) = q
              /\ \A i \in 1 .. Len(s) - 1 : s[i + 1] = Then(s[i])
  <2>1. Len(s) \in Nat /\ (s = <<>> <=> Len(s) = 0)
        /\ \A i \in 1 .. Len(s) : s[i] \in SentByte
    BY LenProperties, EmptySeq, ElementOfSeq
  <2>2. s # <<>> => s[Len(s)] \in SentByte
    BY <2>1
  <2>3. \A i \in 1 .. Len(s) - 1 : s[i] \in SentByte
    BY <2>1
  <2> HIDE DEF Then
  <2> QED
    BY <1>12, <1>13, <2>2, <2>3 DEF Chain
<1>14. Chain(readBuf, first, unread)' /\ Chain(socket, unread, late)'
  <2>1. /\ readBuf = <<>> => first = unread
        /\ readBuf # <<>> => readBuf[1] = first /\ Then(readBuf[Len(readBuf)]) = unread
        /\ \A i \in 1 .. Len(readBuf) - 1 : readBuf[i + 1] = Then(readBuf[i])
    <3> HIDE DEF Then
    <3> QED
      BY <1>8, <1>11, <1>13
  <2>2. /\ socket = <<>> => unread = late
        /\ socket # <<>> => socket[1] = unread /\ Then(socket[Len(socket)]) = late
        /\ \A i \in 1 .. Len(socket) - 1 : socket[i + 1] = Then(socket[i])
    <3> HIDE DEF Then
    <3> QED
      BY <1>8, <1>11, <1>13
  <2> QED
    BY <1>1, <2>1, <2>2 DEF Chain, After
<1>15. Chain(net, late, Place(Len(sent) + 1, 1))'
  <2>1. /\ net = <<>> => late = Place(k, 1)
        /\ net # <<>> => net[1] = late /\ Then(net[Len(net)]) = Place(k, 1)
        /\ \A i \in 1 .. Len(net) - 1 : net[i + 1] = Then(net[i])
    <3> HIDE DEF Then
    <3> QED
      BY <1>8, <1>11, <1>13
  <2>2. Len(net) \in Nat /\ (net = <<>> <=> Len(net) = 0)
        /\ (net' = <<>> <=> Len(net') = 0)
    BY <1>8, <1>9, LenProperties, EmptySeq
  <2>3. net' # <<>>
    BY <1>3, <1>9, <2>2
  <2>4. net'[1] = late
    BY <2>1, <2>2, <1>3, <1>9 DEF Place
  <2>5. net'[Len(net')] = Place(k, size)
    BY <2>2, <1>3, <1>9
  <2>6. Then(net'[Len(net')]) = Place(k + 1, 1)
    BY <2>5, <1>3, <1>4 DEF Place
  <2>7. ASSUME NEW i \in 1 .. Len(net') - 1 PROVE net'[i + 1] = Then(net'[i])
    <3>1. CASE i < Len(net)
      <4>1. net'[i + 1] = net[i + 1] /\ net'[i] = net[i] /\ i \in 1 .. Len(net) - 1
        BY <3>1, <2>2, <1>3, <1>9
      <4> HIDE DEF Then
      <4> QED
        BY <4>1, <2>1
    <3>2. CASE i = Len(net)
      <4>1. net'[i + 1] = Place(k, 1) /\ net'[i] = net[Len(net)] /\ net # <<>>
        BY <3>2, <2>2, <1>3, <1>9
      <4> HIDE DEF Then
      <4> QED
        BY <4>1, <2>1
    <3>3. CASE i > Len(net)
      <4>1. /\ net'[i + 1] = Place(k, (i - Len(net)) + 1)
            /\ net'[i] = Place(k, i - Len(net)) /\ i - Len(net) < size
        BY <3>3, <2>2, <1>3, <1>9
      <4> QED
        BY <4>1, <1>4 DEF Place
    <3> QED
      BY <3>1, <3>2, <3>3, <2>2, <1>9, <1>3
  <2>8. Then(net'[Len(net')]) = Place(Len(sent') + 1, 1)
    BY <2>6, <1>4
  <2> QED
    BY <2>3, <2>4, <2>7, <2>8 DEF Chain, After, Place
<1>16. sent # <<>> => (Fits' <=> Fits)
  <2>1. sent # <<>> => sent' # <<>> /\ sent'[1] = sent[1]
    BY <1>2, <1>4, EmptySeq
  <2> QED
    BY <2>1 DEF Fits
<1>17. Position(first)'
  <2>1. readBuf # <<>> => sent # <<>> /\ sent'[1] = sent[1]
    BY <1>2, <1>4, <1>8, LenProperties, EmptySeq, ElementOfSeq
  <2>2. readBuf # <<>> => sent'[readBuf[1].of] = sent[readBuf[1].of]
    <3>1. readBuf # <<>> => readBuf[1] \in SentByte
      BY <1>8, LenProperties, EmptySeq, ElementOfSeq
    <3> QED
      BY <3>1, <1>2, <1>4
  <2>3. sent' # <<>>
    BY <1>2, <1>4, EmptySeq
  <2> QED
    BY <1>1, <1>11, <1>16, <2>1, <2>2, <2>3 DEF Position, Place
<1>18. (sent = <<>> => dispatched = <<>>)'
  BY <1>1, <1>2, <1>4, EmptySeq
<1>19. (Fits => \A i \in 1 .. Len(dispatched) : dispatched[i] = i + 1)'
  BY <1>1, <1>16 DEF FramingInv
<1> QED
  BY <1>10, <1>14, <1>17, <1>15, <1>18, <1>19 DEF FramingInv

\* What recvOneVal() has got with a read of n bytes.
LEMMA Reading ==
    ASSUME FramingTypes, NEW n \in 1 .. Len(socket), NEW first, NEW unread, NEW late,
           Chain(readBuf, first, unread), Chain(socket, unread, late)
    PROVE  LET got == readBuf \o F!Take(socket, n) IN
           /\ got \in Seq(SentByte) /\ Len(got) = Len(readBuf) + n /\ got # <<>>
           /\ F!Drop(socket, n) \in Seq(SentByte)
           /\ \E q : Chain(got, first, q) /\ Chain(F!Drop(socket, n), q, late)
<1>1. socket \in Seq(SentByte) /\ readBuf \in Seq(SentByte)
  BY DEF FramingTypes
<1>2. n \in 0 .. Len(socket)
  OBVIOUS
<1>3. /\ F!Take(socket, n) \in Seq(SentByte) /\ Len(F!Take(socket, n)) = n
      /\ F!Drop(socket, n) \in Seq(SentByte)
      /\ \E q : Chain(F!Take(socket, n), unread, q) /\ Chain(F!Drop(socket, n), q, late)
  BY <1>1, <1>2, ChainSplit
<1>4. /\ readBuf \o F!Take(socket, n) \in Seq(SentByte)
      /\ Len(readBuf \o F!Take(socket, n)) = Len(readBuf) + n
      /\ Len(readBuf) \in Nat
  BY <1>1, <1>3, ConcatProperties, LenProperties
<1>5. readBuf \o F!Take(socket, n) # <<>>
  BY <1>4, EmptySeq
<1>6. PICK q : Chain(F!Take(socket, n), unread, q) /\ Chain(F!Drop(socket, n), q, late)
  BY <1>3
<1>7. Chain(readBuf \o F!Take(socket, n), first, q)
  BY <1>1, <1>3, <1>6, ChainConcat
<1> QED
  BY <1>3, <1>4, <1>5, <1>6, <1>7

LEMMA RecvHeaderFraming == FramingInv /\ F!RecvHeader => FramingInv'
<1> SUFFICES ASSUME FramingInv, F!RecvHeader PROVE FramingInv'
  OBVIOUS
<1>0. FramingTypes
  BY DEF FramingInv
<1>1. pc = "header" /\ UNCHANGED <<sent, net, link, edge, dispatched>>
  BY DEF F!RecvHeader
<1>2. PICK n \in 1 .. headerLen - Len(readBuf) :
        /\ n <= Len(socket)
        /\ socket' = F!Drop(socket, n)
        /\ LET got == readBuf \o F!Take(socket, n) IN
           IF Len(got) < headerLen THEN readBuf' = got /\ UNCHANGED pc
           ELSE readBuf' = got /\ pc' = "rest"
  BY DEF F!RecvHeader, F!ReadUpTo, F!Missing
<1>3. PICK first, unread, late :
        /\ Chain(readBuf, first, unread) /\ Chain(socket, unread, late)
        /\ Chain(net, late, Place(Len(sent) + 1, 1)) /\ Position(first)
  BY DEF FramingInv
<1>4. Len(socket) \in Nat /\ Len(readBuf) \in Nat /\ n \in 1 .. Len(socket)
  BY <1>0, <1>2, LenProperties, FramingAssumption DEF FramingTypes
<1>5. /\ readBuf' = readBuf \o F!Take(socket, n)
      /\ readBuf' \in Seq(SentByte) /\ Len(readBuf') = Len(readBuf) + n
      /\ readBuf' # <<>> /\ socket' \in Seq(SentByte)
      /\ \E q : Chain(readBuf', first, q) /\ Chain(socket', q, late)
  <2>1. readBuf' = readBuf \o F!Take(socket, n)
    BY <1>2
  <2> QED
    BY <2>1, <1>0, <1>2, <1>3, <1>4, Reading
<1>6. PICK q : Chain(readBuf', first, q) /\ Chain(socket', q, late)
  BY <1>5
<1>7. Len(readBuf') <= headerLen
  BY <1>2, <1>4, <1>5, FramingAssumption
<1>8. Position(first)'
  <2>1. CASE Len(readBuf') < headerLen
    <3>1. pc' = "header"
      BY <2>1, <1>1, <1>2, <1>5
    <3> QED
      BY <2>1, <3>1, <1>1, <1>3 DEF Position, Place
  <2>2. CASE ~(Len(readBuf') < headerLen)
    <3>1. pc' = "rest" /\ Len(readBuf') = headerLen
      <4>1. pc' = "rest"
        BY <2>2, <1>2, <1>5
      <4>2. Len(readBuf') \in Nat
        BY <1>4, <1>5
      <4> QED
        BY <4>1, <4>2, <2>2, <1>7, FramingAssumption
    <3> QED
      BY <3>1, <1>1, <1>3, <1>5 DEF Position, Place
  <2> QED
    BY <2>1, <2>2
<1>9. pc' \in {"header", "rest", "sleep", "parse", "ended", "lost"}
  BY <1>1, <1>2
<1>10. Chain(net', late, Place(Len(sent) + 1, 1))
  BY <1>1, <1>3
<1> QED
  BY <1>1, <1>5, <1>6, <1>8, <1>9, <1>10, FramingMoves DEF FramingInv, FramingTypes

LEMMA RecvRestFraming == FramingInv /\ F!RecvRest => FramingInv'
<1> SUFFICES ASSUME FramingInv, F!RecvRest PROVE FramingInv'
  OBVIOUS
<1> DEFINE fullLen == sent[1] % LengthRange
<1>0. FramingTypes
  BY DEF FramingInv
<1>1. pc = "rest" /\ UNCHANGED <<sent, net, link, dispatched>> /\ edge' \in BOOLEAN
  BY DEF F!RecvRest
<1>2. PICK first, unread, late :
        /\ Chain(readBuf, first, unread) /\ Chain(socket, unread, late)
        /\ Chain(net, late, Place(Len(sent) + 1, 1)) /\ Position(first)
  BY DEF FramingInv
<1>3. /\ first = Place(1, 1) /\ dispatched = <<>> /\ readBuf # <<>>
      /\ Len(readBuf) = headerLen \/ Len(readBuf) < fullLen
  BY <1>1, <1>2 DEF Position
<1>4. /\ Len(socket) \in Nat /\ Len(readBuf) \in Nat
      /\ readBuf \in Seq(SentByte) /\ socket \in Seq(SentByte)
      /\ Len(readBuf) > 0
  BY <1>0, <1>3, LenProperties, EmptySeq DEF FramingTypes
<1>5. /\ sent # <<>> /\ readBuf[1] = Place(1, 1)
      /\ sent[1] \in Nat /\ sent[1] >= headerLen
      /\ Fits => fullLen = sent[1]
  <2>1. readBuf[1] = Place(1, 1)
    BY <1>2, <1>3 DEF Chain
  <2>2. readBuf[1] \in SentByte
    BY <1>4, ElementOfSeq
  <2> QED
    BY <2>1, <2>2, <1>0, FramingFacts DEF Place
<1>6. F!parsePacketLen(readBuf) = fullLen /\ fullLen \in Nat
  BY <1>5, FramingAssumption DEF F!parsePacketLen, Place
<1> HIDE DEF fullLen
<1>7. Chain(net', late, Place(Len(sent) + 1, 1))
  BY <1>1, <1>2
\* Where the reading stops is behind the SMG_VALIDATE, if its length is right.
<1>8. ASSUME NEW s \in Seq(SentByte), s # <<>>, NEW q, Chain(s, Place(1, 1), q),
             Fits => Len(s) = sent[1]
      PROVE  q # Place(1, 1) /\ (Fits => q = Place(Len(dispatched) + 2, 1))
  <2>1. q # Place(1, 1)
    BY <1>8, NeverFirst
  <2>2. Fits => q = Place(2, 1)
    <3>1. Len(s) \in Nat
      BY LenProperties
    <3>2. 1 \in Nat /\ 1 + 1 = 2
      OBVIOUS
    <3>3. Fits => q = Place(1 + 1, 1)
      BY <3>1, <3>2, <1>5, <1>8, WithinPacket
    <3> QED
      BY <3>2, <3>3
  <2>3. Len(dispatched) + 2 = 2
    BY <1>3, EmptySeq
  <2> QED
    BY <2>1, <2>2, <2>3
<1>9. CASE Len(readBuf) < fullLen
  <2>1. PICK n \in 1 .. fullLen - Len(readBuf) :
          /\ n <= Len(socket)
          /\ socket' = F!Drop(socket, n)
          /\ LET got == readBuf \o F!Take(socket, n) IN
             IF Len(got) < fullLen THEN readBuf' = got /\ UNCHANGED pc
             ELSE readBuf' = <<>> /\ pc' = "sleep"
    BY <1>6, <1>9 DEF F!RecvRest, F!ReadUpTo, F!Missing
  <2> DEFINE got == readBuf \o F!Take(socket, n)
  <2>2. n \in 1 .. Len(socket)
    BY <2>1, <1>4
  <2>3. /\ got \in Seq(SentByte) /\ Len(got) = Len(readBuf) + n /\ got # <<>>
        /\ socket' \in Seq(SentByte)
        /\ \E q : Chain(got, first, q) /\ Chain(socket', q, late)
    BY <2>1, <2>2, <1>0, <1>2, Reading
  <2>4. PICK q : Chain(got, first, q) /\ Chain(socket', q, late)
    BY <2>3
  <2>5. IF Len(got) < fullLen THEN readBuf' = got /\ pc' = "rest"
        ELSE readBuf' = <<>> /\ pc' = "sleep"
    BY <2>1, <1>1
  <2>6. Len(got) <= fullLen
    BY <2>1, <2>3, <1>4, <1>6
  <2> HIDE DEF got
  <2>7. CASE Len(got) < fullLen
    <3>1. Position(first)'
      BY <2>5, <2>7, <2>3, <1>1, <1>3 DEF Position, Place, fullLen
    <3>2. Chain(readBuf', first, q) /\ readBuf' \in Seq(SentByte)
      BY <2>3, <2>4, <2>5, <2>7
    <3>3. pc' \in {"header", "rest", "sleep", "parse", "ended", "lost"}
      BY <2>5, <2>7
    <3> QED
      BY <1>1, <1>7, <2>3, <2>4, <3>1, <3>2, <3>3, FramingMoves DEF FramingInv, FramingTypes
  <2>8. CASE ~(Len(got) < fullLen)
    <3>1. Len(got) = fullLen
      BY <2>3, <2>6, <2>8, <1>4, <1>6
    <3>2. q # Place(1, 1) /\ (Fits => q = Place(Len(dispatched) + 2, 1))
      BY <3>1, <2>3, <2>4, <1>3, <1>5, <1>8
    <3>3. pc' = "sleep" /\ readBuf' = <<>>
      BY <2>5, <2>8
    <3>4. Position(q)'
      BY <3>2, <3>3, <1>1, <1>5 DEF Position, Place, Fits
    <3>5. Chain(readBuf', q, q) /\ readBuf' \in Seq(SentByte)
      BY <3>3, EmptySeq DEF Chain
    <3>6. pc' \in {"header", "rest", "sleep", "parse", "ended", "lost"}
      BY <3>3
    <3> QED
      BY <1>1, <1>7, <2>3, <2>4, <3>4, <3>5, <3>6, FramingMoves DEF FramingInv, FramingTypes
  <2> QED
    BY <2>7, <2>8
<1>10. CASE ~(Len(readBuf) < fullLen)
  <2>1. readBuf' = <<>> /\ pc' = "sleep" /\ UNCHANGED socket
    BY <1>6, <1>10 DEF F!RecvRest
  <2>2. Fits => Len(readBuf) = sent[1]
    BY <1>3, <1>4, <1>5, <1>6, <1>10, FramingAssumption
  <2>3. unread # Place(1, 1) /\ (Fits => unread = Place(Len(dispatched) + 2, 1))
    BY <2>2, <1>2, <1>3, <1>4, <1>8
  <2>4. Position(unread)'
    BY <2>1, <2>3, <1>1, <1>5 DEF Position, Place, Fits
  <2>5. Chain(readBuf', unread, unread) /\ readBuf' \in Seq(SentByte)
    BY <2>1, EmptySeq DEF Chain
  <2>6. pc' \in {"header", "rest", "sleep", "parse", "ended", "lost"}
    BY <2>1
  <2>7. Chain(socket', unread, late) /\ socket' \in Seq(SentByte)
    BY <2>1, <1>2, <1>4
  <2> QED
    BY <1>1, <1>7, <2>4, <2>5, <2>6, <2>7, FramingMoves DEF FramingInv, FramingTypes
<1> QED
  BY <1>9, <1>10

LEMMA RecvEofFraming == FramingInv /\ F!RecvEof => FramingInv'
<1> SUFFICES ASSUME FramingInv, F!RecvEof PROVE FramingInv'
  OBVIOUS
<1>1. pc' = "ended" /\ UNCHANGED <<sent, net, link, socket, edge, readBuf, dispatched>>
  BY DEF F!RecvEof
<1>2. PICK first, unread, late :
        /\ Chain(readBuf, first, unread) /\ Chain(socket, unread, late)
        /\ Chain(net, late, Place(Len(sent) + 1, 1))
  BY DEF FramingInv
<1>3. Position(first)'
  BY <1>1 DEF Position
<1> QED
  BY <1>1, <1>2, <1>3, FramingMoves DEF FramingInv, FramingTypes

LEMMA DrainFraming == FramingInv /\ F!Drain => FramingInv'
<1> SUFFICES ASSUME FramingInv, F!Drain PROVE FramingInv'
  OBVIOUS
<1>1. /\ pc = "sleep" /\ pc' \in {"ended", "parse"}
      /\ readBuf' = readBuf \o socket /\ socket' = <<>> /\ edge' = FALSE
      /\ UNCHANGED <<sent, net, link, dispatched>>
  BY DEF F!Drain
<1>2. PICK first, unread, late :
        /\ Chain(readBuf, first, unread) /\ Chain(socket, unread, late)
        /\ Chain(net, late, Place(Len(sent) + 1, 1)) /\ Position(first)
  BY DEF FramingInv
<1>3. readBuf' \in Seq(SentByte) /\ Chain(readBuf', first, late)
  BY <1>1, <1>2, ChainConcat DEF FramingInv, FramingTypes
<1>4. Chain(socket', late, late) /\ socket' \in Seq(SentByte)
  BY <1>1, EmptySeq DEF Chain
<1>5. Position(first)'
  BY <1>1, <1>2 DEF Position, Place, Fits
<1>6. Chain(net', late, Place(Len(sent) + 1, 1))
  BY <1>1, <1>2
<1>7. pc' \in {"header", "rest", "sleep", "parse", "ended", "lost"}
  BY <1>1
<1> QED
  BY <1>1, <1>3, <1>4, <1>5, <1>6, <1>7, FramingMoves DEF FramingInv, FramingTypes

LEMMA DispatchFraming == FramingInv /\ F!Dispatch => FramingInv'
<1> SUFFICES ASSUME FramingInv, F!Dispatch PROVE FramingInv'
  OBVIOUS
<1> DEFINE k == readBuf[1].of
<1>0. FramingTypes
  BY DEF FramingInv
<1>1. /\ pc = "parse" /\ F!HasPacket(readBuf)
      /\ dispatched' = Append(dispatched, k)
      /\ readBuf' = F!Drop(readBuf, F!parsePacketLen(readBuf))
      /\ UNCHANGED <<sent, net, link, socket, edge, pc>>
  BY DEF F!Dispatch
<1>2. PICK first, unread, late :
        /\ Chain(readBuf, first, unread) /\ Chain(socket, unread, late)
        /\ Chain(net, late, Place(Len(sent) + 1, 1)) /\ Position(first)
  BY DEF FramingInv
<1>3. /\ sent # <<>> /\ first # Place(1, 1)
      /\ Fits => first = Place(Len(dispatched) + 2, 1)
  BY <1>1, <1>2 DEF Position
<1>4. /\ readBuf \in Seq(SentByte) /\ Len(readBuf) \in Nat
      /\ Len(readBuf) >= headerLen /\ Len(readBuf) > 0 /\ readBuf # <<>>
  BY <1>0, <1>1, FramingAssumption, LenProperties, EmptySeq DEF F!HasPacket, FramingTypes
<1>5. readBuf[1] \in SentByte /\ readBuf[1] = first /\ readBuf[1].at = 1
  BY <1>1, <1>2, <1>4, ElementOfSeq DEF Chain, F!HasPacket, F!AtStart
<1>6. k \in 1 .. Len(sent) /\ first = Place(k, 1) /\ Len(sent) \in Nat
  BY <1>0, <1>5, FramingFacts
<1>7. k \in 2 .. Len(sent)
  BY <1>3, <1>6
<1>8. /\ F!parsePacketLen(readBuf) = sent[k] /\ sent[k] \in Nat
      /\ sent[k] > 0 /\ sent[k] <= Len(readBuf)
  <2>1. sent[k] % LengthRange = sent[k] /\ sent[k] \in Nat /\ sent[k] >= headerLen
    BY <1>0, <1>6, <1>7, FramingFacts
  <2> QED
    BY <2>1, <1>1, <1>4, FramingAssumption DEF F!parsePacketLen, F!HasPacket, F!IsWhole
<1> DEFINE packet == F!Take(readBuf, sent[k])
<1>9. sent[k] \in 0 .. Len(readBuf)
  BY <1>4, <1>8
<1>10. /\ packet \in Seq(SentByte) /\ Len(packet) = sent[k]
       /\ readBuf' \in Seq(SentByte)
       /\ \E q : Chain(packet, first, q) /\ Chain(readBuf', q, unread)
  BY <1>1, <1>2, <1>4, <1>8, <1>9, ChainSplit
<1>11. PICK q : Chain(packet, first, q) /\ Chain(readBuf', q, unread)
  BY <1>10
<1>12. packet # <<>>
  BY <1>8, <1>10, EmptySeq
<1> HIDE DEF packet
<1>13. q = Place(k + 1, 1)
  <2>1. k \in Nat /\ Chain(packet, Place(k, 1), q) /\ Len(packet) <= sent[k]
    BY <1>6, <1>8, <1>10, <1>11
  <2> HIDE DEF k
  <2> QED
    BY <2>1, <1>8, <1>10, <1>12, WithinPacket
<1>14. /\ dispatched \in Seq(1 .. MaxSent) /\ Len(dispatched) \in Nat
       /\ dispatched' \in Seq(1 .. MaxSent) /\ Len(dispatched') = Len(dispatched) + 1
       /\ \A i \in 1 .. Len(dispatched) : dispatched'[i] = dispatched[i]
       /\ dispatched'[Len(dispatched) + 1] = k
  <2>1. k \in 1 .. MaxSent
    BY <1>0, <1>6, FramingAssumption DEF FramingTypes
  <2>2. dispatched \in Seq(1 .. MaxSent)
    BY <1>0 DEF FramingTypes
  <2> HIDE DEF k
  <2> QED
    BY <2>1, <2>2, <1>1, AppendProperties, LenProperties
<1>15. Fits => k = Len(dispatched) + 2
  BY <1>3, <1>6 DEF Place
<1>16. Position(q)'
  <2>1. q # Place(1, 1)
    BY <1>7, <1>13 DEF Place
  <2>2. Fits => q = Place(Len(dispatched') + 2, 1)
    BY <1>13, <1>14, <1>15 DEF Place
  <2> QED
    BY <2>1, <2>2, <1>1, <1>3 DEF Position, Place, Fits
<1>17. Fits => \A i \in 1 .. Len(dispatched') : dispatched'[i] = i + 1
  <2> SUFFICES ASSUME Fits, NEW i \in 1 .. Len(dispatched')
               PROVE  dispatched'[i] = i + 1
    OBVIOUS
  <2>1. CASE i = Len(dispatched) + 1
    BY <2>1, <1>14, <1>15
  <2>2. CASE i # Len(dispatched) + 1
    <3>1. i \in 1 .. Len(dispatched)
      BY <2>2, <1>14
    <3> QED
      BY <3>1, <1>14 DEF FramingInv
  <2> QED
    BY <2>1, <2>2
<1>18. Chain(socket', unread, late) /\ Chain(net', late, Place(Len(sent) + 1, 1))
  BY <1>1, <1>2
<1>19. sent = <<>> => dispatched' = <<>>
  BY <1>3
<1> QED
  BY <1>1, <1>10, <1>11, <1>14, <1>16, <1>17, <1>18, <1>19, FramingMoves
  DEF FramingInv, FramingTypes

LEMMA LoseFraming == FramingInv /\ F!Lose => FramingInv'
<1> SUFFICES ASSUME FramingInv, F!Lose PROVE FramingInv'
  OBVIOUS
<1>1. /\ pc = "parse" /\ ~F!AtStart(readBuf) /\ pc' = "lost"
      /\ UNCHANGED <<sent, net, link, socket, edge, readBuf, dispatched>>
  BY DEF F!Lose
<1>2. PICK first, unread, late :
        /\ Chain(readBuf, first, unread) /\ Chain(socket, unread, late)
        /\ Chain(net, late, Place(Len(sent) + 1, 1)) /\ Position(first)
  BY DEF FramingInv
<1>3. readBuf[1] = first /\ readBuf[1].at # 1
  BY <1>1, <1>2 DEF F!AtStart, Chain
<1>4. ~Fits
  BY <1>1, <1>2, <1>3 DEF Position, Place
<1>5. Position(first)'
  BY <1>1, <1>2, <1>4 DEF Position, Place, Fits
<1> QED
  BY <1>1, <1>2, <1>5, FramingMoves DEF FramingInv, FramingTypes

LEMMA WaitForMoreFraming == FramingInv /\ F!WaitForMore => FramingInv'
<1> SUFFICES ASSUME FramingInv, F!WaitForMore PROVE FramingInv'
  OBVIOUS
<1>0. FramingTypes
  BY DEF FramingInv
<1>1. /\ pc = "parse" /\ F!AtStart(readBuf) /\ ~F!HasPacket(readBuf)
      /\ pc' = "sleep"
      /\ UNCHANGED <<sent, net, link, socket, edge, readBuf, dispatched>>
  BY DEF F!WaitForMore
<1>2. PICK first, unread, late :
        /\ Chain(readBuf, first, unread) /\ Chain(socket, unread, late)
        /\ Chain(net, late, Place(Len(sent) + 1, 1)) /\ Position(first)
  BY DEF FramingInv
<1>3. readBuf # <<>> => readBuf[1].at = 1 /\ Len(readBuf) < sent[readBuf[1].of]
  <2> SUFFICES ASSUME readBuf # <<>>
               PROVE  readBuf[1].at = 1 /\ Len(readBuf) < sent[readBuf[1].of]
    OBVIOUS
  <2> DEFINE k == readBuf[1].of
  <2>1. readBuf \in Seq(SentByte) /\ Len(readBuf) \in Nat /\ readBuf[1] \in SentByte
    BY <1>0, LenProperties, EmptySeq, ElementOfSeq DEF FramingTypes
  <2>2. readBuf[1].at = 1 /\ readBuf[1] = first
    BY <1>1, <1>2 DEF F!AtStart, Chain
  <2>3. k \in 1 .. Len(sent) /\ first = Place(k, 1) /\ Len(sent) \in Nat
    BY <2>1, <2>2, <1>0, FramingFacts
  <2>4. k \in 2 .. Len(sent)
    BY <2>3, <1>1, <1>2 DEF Position
  <2>5. sent[k] % LengthRange = sent[k] /\ sent[k] \in Nat /\ sent[k] >= headerLen
    BY <2>3, <2>4, <1>0, FramingFacts
  <2>6. Len(readBuf) < headerLen \/ Len(readBuf) < sent[k]
    BY <2>1, <2>2, <2>5, <1>1, FramingAssumption
    DEF F!HasPacket, F!AtStart, F!IsWhole, F!parsePacketLen
  <2> QED
    BY <2>1, <2>2, <2>5, <2>6, FramingAssumption
<1>4. Position(first)'
  BY <1>1, <1>2, <1>3 DEF Position, Place, Fits
<1>5. pc' \in {"header", "rest", "sleep", "parse", "ended", "lost"}
  BY <1>1
<1> QED
  BY <1>1, <1>2, <1>4, <1>5, FramingMoves DEF FramingInv, FramingTypes

\* How the bytes are cut does not matter: what the client has got so far is
\* the packets, whole and in order, and the beginning of the next.
THEOREM FramingInvariance == F!Spec => []FramingInv
<1>1. FramingInv /\ [F!Next]_F!vars => FramingInv'
  <2> SUFFICES ASSUME FramingInv, [F!Next]_F!vars PROVE FramingInv'
    OBVIOUS
  <2>1. CASE UNCHANGED F!vars
    <3>1. UNCHANGED <<sent, net, link, socket, edge, readBuf, pc, dispatched>>
      BY <2>1 DEF F!vars
    <3>2. PICK first, unread, late :
            /\ Chain(readBuf, first, unread) /\ Chain(socket, unread, late)
            /\ Chain(net, late, Place(Len(sent) + 1, 1)) /\ Position(first)
      BY DEF FramingInv
    <3>3. Position(first)'
      BY <3>1, <3>2 DEF Position, Fits, Place
    <3> QED
      BY <3>1, <3>2, <3>3, FramingMoves DEF FramingInv, FramingTypes
  <2>2. CASE F!Next
    BY <2>2, SendFraming, CloseFraming, DeliverFraming, RecvHeaderFraming,
       RecvRestFraming, RecvEofFraming, DrainFraming, DispatchFraming,
       LoseFraming, WaitForMoreFraming
    DEF F!Next
  <2> QED
    BY <2>1, <2>2
<1> QED
  BY <1>1, FramingInit, PTL DEF F!Spec

\* However the bytes are cut, the client dispatches every packet once and in
\* order (handleRead), for packets of any number and sizes that their length
\* can say.
THEOREM StaysInStep == PartsSpec => []InStep
<1>1. FramingInv => InStep
  <2> SUFFICES ASSUME FramingInv, sent # <<>> /\ sent[1] < LengthRange
               PROVE  pc # "lost" /\ \A i \in DOMAIN dispatched : dispatched[i] = i + 1
    BY DEF InStep, F!InStep
  <2>1. Fits
    BY DEF Fits
  <2>2. DOMAIN dispatched = 1 .. Len(dispatched)
    BY LenProperties DEF FramingInv, FramingTypes
  <2> QED
    BY <2>1, <2>2 DEF FramingInv, Position
<1> QED
  BY <1>1, FramingRuns, FramingInvariance, PTL

\* A client that sleeps in epoll_wait() has dispatched every packet it has
\* read whole (handleRead), whatever the sizes are.
THEOREM NoneWholeIsLeft == PartsSpec => []NothingWholeWaits
<1>1. FramingInv => NothingWholeWaits
  <2> SUFFICES ASSUME FramingInv, pc = "sleep", NEW i \in DOMAIN readBuf
               PROVE  readBuf[i].at < sent[readBuf[i].of]
    BY DEF NothingWholeWaits, F!NothingWholeWaits
  <2>1. FramingTypes
    BY DEF FramingInv
  <2>2. readBuf \in Seq(SentByte) /\ i \in 1 .. Len(readBuf) /\ readBuf # <<>>
        /\ Len(readBuf) \in Nat /\ readBuf[1] \in SentByte
    BY <2>1, LenProperties, EmptySeq, ElementOfSeq DEF FramingTypes
  <2> DEFINE k == readBuf[1].of
  <2>3. PICK first, unread : Chain(readBuf, first, unread) /\ Position(first)
    BY DEF FramingInv
  <2>4. k \in 1 .. Len(sent) /\ sent[k] \in Nat /\ readBuf[1] = Place(k, readBuf[1].at)
        /\ Len(sent) \in Nat
    BY <2>1, <2>2, FramingFacts
  <2>5. readBuf[1].at = 1 /\ Len(readBuf) < sent[k] /\ first = readBuf[1]
    BY <2>2, <2>3 DEF Position, Chain
  <2>6. k \in Nat /\ Chain(readBuf, Place(k, 1), unread) /\ Len(readBuf) <= sent[k]
    BY <2>2, <2>3, <2>4, <2>5
  <2>7. readBuf[i] = Place(k, i)
    <3> HIDE DEF k
    <3> QED
      BY <2>2, <2>4, <2>6, WithinPacket
  <2> QED
    BY <2>2, <2>4, <2>5, <2>7 DEF Place
<1> QED
  BY <1>1, FramingRuns, FramingInvariance, PTL

-----------------------------------------------------------------------------
(***************************************************************************)
(* The form and its file.  Nothing is used of the checks themselves: what  *)
(* they took when it was typed they take again when it is read.            *)
(***************************************************************************)
FormTypes ==
    /\ phase \in {"off", "file", "form", "chat", "reconnect"}
    /\ clientInfo \in C!Info /\ clientInfo.port <= 65535
    /\ config \in {NoFile} \cup C!Info \cup C!File

FormInv ==
    /\ FormTypes
    /\ phase \in {"file", "chat", "reconnect"} => C!checkCliInfo(clientInfo)
    /\ phase \in {"chat", "reconnect"} => config = clientInfo

\* A port of 16 bits is what it is when it is cut to 16 bits.
LEMMA Cut == \A n \in Int : /\ C!uint16(n) \in Nat /\ C!uint16(n) <= 65535
                            /\ n >= 0 /\ n <= 65535 => C!uint16(n) = n
  BY DEF C!uint16

LEMMA Created == \A info \in C!Info : C!fileCreate(info) = info
  BY DEF C!fileCreate, C!Info

\* Data is read back as it was written.
LEMMA ReadsWhatWasSaved ==
    ASSUME NEW info \in C!Info, info.port <= 65535, C!checkCliInfo(info),
           NEW old \in C!Info
    PROVE  C!fileVerify(old, info) = [ok |-> TRUE, info |-> info]
<1>1. /\ info.addr \in Addr \cup {<<>>} /\ info.port \in Nat
      /\ info.username \in Name \cup {0}
      /\ info = [addr |-> info.addr, port |-> info.port, username |-> info.username]
  BY DEF C!Info
<1>2. info # NoFile /\ info.port # NoLine /\ info.addr # NoLine
      /\ info.username # NoLine /\ info.port # NoNumber
  BY <1>1, FormAssumption
<1>3. ~C!BadPort(info.port)
  BY <1>1, <1>2 DEF C!BadPort
<1>4. C!uint16(info.port) = info.port
  BY <1>1, Cut
<1>5. C!Line(info.addr, old.addr) = info.addr
      /\ C!Line(info.username, old.username) = info.username
  BY <1>2 DEF C!Line
<1> DEFINE read == [addr |-> C!Line(info.addr, old.addr),
                    port |-> IF info.port = NoLine THEN old.port
                             ELSE C!uint16(info.port),
                    username |-> C!Line(info.username, old.username)]
<1>6. C!fileVerify(old, info) = IF C!checkCliInfo(read) THEN [ok |-> TRUE, info |-> read]
                                ELSE [ok |-> FALSE, info |-> C!NoInfo]
  BY <1>2, <1>3 DEF C!fileVerify
<1>7. read = info
  BY <1>1, <1>2, <1>4, <1>5
<1> HIDE DEF read
<1>8. C!checkCliInfo(read)
  BY <1>7
<1> QED
  BY <1>6, <1>7, <1>8

\* What the file gives is data, and checked if it is taken.
LEMMA VerifyTypes ==
    ASSUME FormTypes
    PROVE  LET verdict == C!fileVerify(clientInfo, config) IN
           /\ verdict.info \in C!Info /\ verdict.info.port <= 65535
           /\ verdict.ok => C!checkCliInfo(verdict.info)
<1>1. C!NoInfo \in C!Info /\ C!NoInfo.port <= 65535
  BY DEF C!NoInfo, C!Info
<1>2. CASE config = NoFile
  BY <1>1, <1>2 DEF C!fileVerify
<1>3. CASE config # NoFile
  <2>1. /\ config.addr \in Addr \cup {<<>>, NoLine}
        /\ config.port \in Int \cup {NoNumber, NoLine}
        /\ config.username \in Name \cup {0, NoLine}
    <3>1. config \in C!Info \/ config \in C!File
      BY <1>3 DEF FormTypes
    <3>2. CASE config \in C!Info
      BY <3>2 DEF C!Info
    <3>3. CASE config \in C!File
      <4>1. /\ config.addr \in Addr \cup {NoLine}
            /\ config.port \in Port \cup {NoNumber, NoLine}
            /\ config.username \in Name \cup {NoLine}
        BY <3>3 DEF C!File
      <4> QED
        BY <4>1, FormAssumption
    <3> QED
      BY <3>1, <3>2, <3>3
  <2>2. /\ clientInfo.addr \in Addr \cup {<<>>} /\ clientInfo.port \in Nat
        /\ clientInfo.username \in Name \cup {0}
    BY DEF FormTypes, C!Info
  <2>3. /\ C!Line(config.addr, clientInfo.addr) \in Addr \cup {<<>>}
        /\ C!Line(config.username, clientInfo.username) \in Name \cup {0}
    BY <2>1, <2>2 DEF C!Line
  <2>4. CASE config.port # NoLine /\ C!BadPort(config.port)
    <3> DEFINE info == [clientInfo EXCEPT !.addr = C!Line(config.addr, @)]
    <3>1. info \in C!Info /\ info.port = clientInfo.port
      BY <2>2, <2>3 DEF C!Info, FormTypes
    <3>2. C!fileVerify(clientInfo, config) = [ok |-> FALSE, info |-> info]
      BY <2>4, <1>3 DEF C!fileVerify
    <3> HIDE DEF info
    <3> QED
      BY <3>1, <3>2 DEF FormTypes
  <2>5. CASE ~(config.port # NoLine /\ C!BadPort(config.port))
    <3> DEFINE port == IF config.port = NoLine THEN clientInfo.port
                       ELSE C!uint16(config.port)
               read == [addr |-> C!Line(config.addr, clientInfo.addr),
                        port |-> port,
                        username |-> C!Line(config.username, clientInfo.username)]
    <3>1. port \in Nat /\ port <= 65535
      <4>1. CASE config.port = NoLine
        BY <4>1, <2>2 DEF FormTypes
      <4>2. CASE config.port # NoLine
        <5>1. config.port \in Int
          BY <4>2, <2>1, <2>5 DEF C!BadPort
        <5>2. C!uint16(config.port) \in Nat /\ C!uint16(config.port) <= 65535
          BY <5>1, Cut
        <5> QED
          BY <4>2, <5>2
      <4> QED
        BY <4>1, <4>2
    <3> HIDE DEF port
    <3>2. read \in C!Info /\ read.port <= 65535
      BY <2>3, <3>1 DEF C!Info
    <3>3. C!fileVerify(clientInfo, config) =
            IF C!checkCliInfo(read) THEN [ok |-> TRUE, info |-> read]
            ELSE [ok |-> FALSE, info |-> C!NoInfo]
      BY <1>3, <2>5 DEF C!fileVerify, port
    <3> HIDE DEF read
    <3>4. CASE C!checkCliInfo(read)
      <4>1. C!fileVerify(clientInfo, config) = [ok |-> TRUE, info |-> read]
        BY <3>3, <3>4
      <4> QED
        BY <4>1, <3>2, <3>4
    <3>5. CASE ~C!checkCliInfo(read)
      <4>1. C!fileVerify(clientInfo, config) = [ok |-> FALSE, info |-> C!NoInfo]
        BY <3>3, <3>5
      <4> QED
        BY <4>1, <1>1
    <3> QED
      BY <3>4, <3>5
  <2> QED
    BY <2>4, <2>5
<1> QED
  BY <1>2, <1>3

LEMMA FormInvariance == C!Spec => []FormInv
<1>1. C!Init => FormInv
  BY DEF C!Init, FormInv, FormTypes, C!NoInfo, C!Info
<1>2. FormInv /\ [C!Next]_C!vars => FormInv'
  <2> SUFFICES ASSUME FormInv, [C!Next]_C!vars PROVE FormInv'
    OBVIOUS
  <2>0. FormTypes /\ clientInfo \in C!Info
    BY DEF FormInv, FormTypes
  <2>1. CASE UNCHANGED C!vars
    BY <2>1 DEF C!vars, FormInv, FormTypes
  <2>2. CASE C!Start
    BY <2>0, <2>2, VerifyTypes DEF C!Start, FormInv, FormTypes
  <2>3. CASE C!UseExisting \/ C!Reconnect
    BY <2>0, <2>3, Created
       DEF C!UseExisting, C!Reconnect, C!switchIntoChat, FormInv, FormTypes
  <2>4. CASE C!Configure
    BY <2>0, <2>4 DEF C!Configure, FormInv, FormTypes
  <2>5. CASE C!Quit
    BY <2>0, <2>5 DEF C!Quit, FormInv, FormTypes, C!NoInfo, C!Info
  <2>6. CASE C!EditConfig
    BY <2>0, <2>6 DEF C!EditConfig, FormInv, FormTypes
  <2>8. CASE C!ServerGone
    BY <2>0, <2>8 DEF C!ServerGone, FormInv, FormTypes
  <2>7. ASSUME NEW f \in C!Fields, C!Enter(f) \/ C!Redraw(f)
        PROVE  FormInv'
    <3>1. clientInfo' = C!updateConnInfo(f)
      BY <2>7 DEF C!Enter, C!Redraw
    <3>2. clientInfo' \in C!Info /\ clientInfo'.port <= 65535
      <4>1. f.addr \in Addr /\ f.port \in Port \cup {NoNumber} /\ f.username \in Name
        BY DEF C!Fields
      <4>2. CASE f.port = NoNumber
        BY <3>1, <4>1, <4>2 DEF C!updateConnInfo, C!Info
      <4>3. CASE f.port # NoNumber
        <5>1. C!uint16(f.port) \in Nat /\ C!uint16(f.port) <= 65535
          <6>1. f.port \in Int
            BY <4>1, <4>3, FormAssumption
          <6> QED
            BY <6>1, Cut
        <5> QED
          BY <3>1, <4>1, <4>3, <5>1 DEF C!updateConnInfo, C!Info
      <4> QED
        BY <4>2, <4>3
    <3>3. phase = "form"
      BY <2>7 DEF C!Enter, C!Redraw
    <3>4. CASE C!Redraw(f)
      BY <3>2, <3>3, <3>4, <2>0 DEF C!Redraw, FormInv, FormTypes
    <3>5. CASE C!Enter(f)
      <4>1. CASE C!checkCliInfo(clientInfo')
        BY <3>2, <3>5, <4>1, Created DEF C!Enter, C!switchIntoChat, FormInv, FormTypes
      <4>2. CASE ~C!checkCliInfo(clientInfo')
        BY <3>2, <3>3, <3>5, <4>2, <2>0 DEF C!Enter, FormInv, FormTypes
      <4> QED
        BY <4>1, <4>2
    <3> QED
      BY <2>7, <3>4, <3>5
  <2> QED
    BY <2>1, <2>2, <2>3, <2>4, <2>5, <2>6, <2>7, <2>8 DEF C!Next
<1> QED
  BY <1>1, <1>2, PTL DEF C!Spec

\* What was dialled last is offered unchanged at the next start (fileCreate,
\* fileVerify), whether it connected or not, whatever was typed and whoever
\* edited the file between two starts.
THEOREM OffersWhatWasSaved == PartsSpec => [](part = "form" => C!SavedIsOffered)
<1>1. FormInv => C!SavedIsOffered
  <2> SUFFICES ASSUME FormInv, phase \in {"chat", "reconnect"}
               PROVE  C!fileVerify(C!NoInfo, config) = [ok |-> TRUE, info |-> clientInfo]
    BY DEF C!SavedIsOffered
  <2>1. /\ config = clientInfo /\ C!checkCliInfo(clientInfo)
        /\ clientInfo \in C!Info /\ clientInfo.port <= 65535
    BY DEF FormInv, FormTypes
  <2>2. C!NoInfo \in C!Info
    BY DEF C!NoInfo, C!Info
  <2> QED
    BY <2>1, <2>2, ReadsWhatWasSaved
<1> QED
  BY <1>1, FormRuns, FormInvariance, PTL

-----------------------------------------------------------------------------
(***************************************************************************)
(* The message window: the arithmetic of one message, the sums over runs   *)
(* of messages, the ring, and what is on the pad.                          *)
(***************************************************************************)
LEMMA Divided ==
    ASSUME NEW a \in Nat, NEW b \in Nat \ {0}
    PROVE  /\ a \div b \in Nat /\ a % b \in Nat /\ a % b < b
           /\ b * (a \div b) <= a /\ a < b * (a \div b) + b
  OBVIOUS

LEMMA Quotient ==
    ASSUME NEW a \in Nat, NEW b \in Nat \ {0}, NEW q \in Nat,
           b * q <= a, a < b * q + b
    PROVE  a \div b = q
  OBVIOUS

\* The lines of a message are as many as counted if its header leaves room in
\* the first of them.
LEMMA DrawnAsCounted ==
    ASSUME NEW h \in Nat, NEW t \in Nat, NEW cols \in Nat \ {0}
    PROVE  LET m == [header |-> h, text |-> t] IN
           /\ W!lineCount(m, cols) \in Nat
           /\ W!Drawn(m, cols) \in Nat
           /\ h < cols => W!Drawn(m, cols) = W!lineCount(m, cols)
<1> DEFINE m == [header |-> h, text |-> t]
           room == cols - (h % cols)
           L == (t + room - 1) \div room
           D == (h * L + t + cols - 1) \div cols
<1>1. room \in Nat \ {0} /\ h \div cols \in Nat
  BY Divided
<1>2. t + room - 1 \in Nat
  BY <1>1
<1> HIDE DEF room
<1>3. L \in Nat /\ room * L <= t + room - 1 /\ t + room - 1 < room * L + room
  BY <1>1, <1>2, Divided
<1> HIDE DEF L
<1>4. h * L \in Nat
  BY <1>3
<1>5. h * L + t + cols - 1 \in Nat
  BY <1>4
<1>6. D \in Nat
  BY <1>5, Divided
<1> HIDE DEF D
<1>7. W!lineCount(m, cols) = h \div cols + L
  BY DEF W!lineCount, W!CeilDiv, L, room
<1>8. W!Drawn(m, cols) = D
  BY DEF W!Drawn, W!CeilDiv, D, L, room
<1>9. ASSUME h < cols PROVE D = h \div cols + L
  <2>1. h \div cols = 0 /\ h % cols = h
    BY <1>9
  <2>2. room = cols - h
    BY <2>1 DEF room
  <2>3. room * L = cols * L - h * L /\ cols * L \in Nat
    BY <2>2, <1>3
  <2>4. cols * L <= h * L + t + cols - 1
    BY <2>2, <2>3, <1>3, <1>4, <1>9
  <2>5. h * L + t + cols - 1 < cols * L + cols
    BY <2>2, <2>3, <1>3, <1>4, <1>9
  <2>6. D = L
    BY <2>4, <2>5, <1>3, <1>5, Quotient DEF D
  <2> QED
    BY <2>1, <2>6, <1>3
<1> QED
  BY <1>1, <1>3, <1>6, <1>7, <1>8, <1>9

\* SumFunction(), by the function its definition chooses: the sums of f over
\* all sets of indices.
Some(s) == CHOOSE x \in s : TRUE

IsSums(g, f, D) ==
    g = [s \in SUBSET D |-> IF s = {} THEN 0 ELSE f[Some(s)] + g[s \ {Some(s)}]]

Sums(f, D) == CHOOSE g : IsSums(g, f, D)

LEMMA SumIsASum ==
    ASSUME NEW f PROVE W!SumFunction(f) = Sums(f, DOMAIN f)[DOMAIN f]
  BY DEF W!SumFunction, W!SumFunctionOnSet, W!FoldFunctionOnSet, W!MapThenFoldSet,
         Sums, IsSums, Some

LEMMA SomeOf == \A s : s # {} => Some(s) \in s
  BY DEF Some

\* Sizes of the sets of indices.
LEMMA SizeOfIndices ==
    ASSUME NEW D, IsFiniteSet(D), NEW s \in SUBSET D
    PROVE  /\ Cardinality(s) \in Nat /\ Cardinality(s) <= Cardinality(D)
           /\ Cardinality(s) = 0 <=> s = {}
           /\ \A x \in s : /\ s \ {x} \in SUBSET D
                           /\ Cardinality(s \ {x}) = Cardinality(s) - 1
<1>1. IsFiniteSet(s) /\ Cardinality(s) <= Cardinality(D)
  BY FS_Subset
<1>2. Cardinality(s) \in Nat /\ (Cardinality(s) = 0 <=> s = {})
  BY <1>1, FS_CardinalityType, FS_EmptySet
<1>3. \A x \in s : Cardinality(s \ {x}) = Cardinality(s) - 1
  BY <1>1, FS_RemoveElement
<1> QED
  BY <1>1, <1>2, <1>3

LEMMA SumsExist ==
    ASSUME NEW D, IsFiniteSet(D), NEW f, \A i \in D : f[i] \in Nat
    PROVE  IsSums(Sums(f, D), f, D)
<1> DEFINE Step(g, s) == IF s = {} THEN 0 ELSE f[Some(s)] + g[s \ {Some(s)}]
           T == {k \in Nat : \E g \in [SUBSET D -> Nat] :
                    \A s \in SUBSET D : Cardinality(s) <= k => g[s] = Step(g, s)}
<1>1. 0 \in T
  <2>1. [s \in SUBSET D |-> 0] \in [SUBSET D -> Nat]
    OBVIOUS
  <2>2. \A s \in SUBSET D : Cardinality(s) <= 0 => s = {}
    <3> TAKE s \in SUBSET D
    <3>1. Cardinality(s) \in Nat /\ (Cardinality(s) = 0 <=> s = {})
      BY SizeOfIndices
    <3> QED
      BY <3>1
  <2> QED
    BY <2>1, <2>2
<1>2. ASSUME NEW k \in Nat, k \in T PROVE k + 1 \in T
  <2>1. PICK g \in [SUBSET D -> Nat] :
          \A s \in SUBSET D : Cardinality(s) <= k => g[s] = Step(g, s)
    BY <1>2
  <2> DEFINE h == [s \in SUBSET D |-> Step(g, s)]
  <2>2. \A s \in SUBSET D : Step(g, s) \in Nat
    <3> TAKE s \in SUBSET D
    <3>1. s # {} => Some(s) \in D /\ s \ {Some(s)} \in SUBSET D
      BY SomeOf
    <3> QED
      BY <3>1
  <2>3. h \in [SUBSET D -> Nat]
    <3> HIDE DEF Step
    <3> QED
      BY <2>2
  <2>4. ASSUME NEW s \in SUBSET D, Cardinality(s) <= k + 1
        PROVE  h[s] = Step(h, s)
    <3>1. CASE s = {}
      BY <3>1
    <3>2. CASE s # {}
      <4> DEFINE r == s \ {Some(s)}
      <4>1. r \in SUBSET D /\ Cardinality(r) <= k
        <5>1. Some(s) \in s
          BY <3>2, SomeOf
        <5>2. /\ Cardinality(s) \in Nat /\ r \in SUBSET D
              /\ Cardinality(r) = Cardinality(s) - 1
          BY <5>1, SizeOfIndices
        <5> QED
          BY <2>4, <5>2
      <4>2. g[r] = Step(g, r)
        BY <2>1, <4>1
      <4>3. h[r] = g[r]
        BY <4>1, <4>2
      <4> QED
        BY <3>2, <4>3
    <3> QED
      BY <3>1, <3>2
  <2> HIDE DEF h, Step
  <2> QED
    BY <2>3, <2>4
<1>3. Cardinality(D) \in T
  <2> HIDE DEF T
  <2> QED
    BY <1>1, <1>2, SetInd, FS_CardinalityType
<1>4. PICK g \in [SUBSET D -> Nat] :
        \A s \in SUBSET D : Cardinality(s) <= Cardinality(D) => g[s] = Step(g, s)
  BY <1>3
<1>5. \A s \in SUBSET D : g[s] = Step(g, s)
  BY <1>4, SizeOfIndices
<1>6. g = [s \in SUBSET D |-> Step(g, s)]
  <2> HIDE DEF Step
  <2> QED
    BY <1>5
<1>7. IsSums(g, f, D)
  BY <1>6 DEF IsSums
<1> QED
  BY <1>7 DEF Sums

LEMMA SumsAreNat ==
    ASSUME NEW D, IsFiniteSet(D), NEW f, \A i \in D : f[i] \in Nat,
           NEW g, IsSums(g, f, D)
    PROVE  \A s \in SUBSET D : g[s] \in Nat
<1> DEFINE T == {k \in Nat : \A s \in SUBSET D : Cardinality(s) = k => g[s] \in Nat}
<1>0. \A s \in SUBSET D :
        g[s] = IF s = {} THEN 0 ELSE f[Some(s)] + g[s \ {Some(s)}]
  BY Zenon DEF IsSums
<1>1. 0 \in T
  <2>1. \A s \in SUBSET D : Cardinality(s) = 0 => s = {}
    BY SizeOfIndices
  <2>2. \A s \in SUBSET D : s = {} => g[s] = 0
    BY <1>0
  <2> QED
    BY <2>1, <2>2
<1>2. ASSUME NEW k \in Nat, k \in T PROVE k + 1 \in T
  <2> SUFFICES ASSUME NEW s \in SUBSET D, Cardinality(s) = k + 1
               PROVE  g[s] \in Nat
    OBVIOUS
  <2>0. s # {}
    <3>1. Cardinality(s) = 0 <=> s = {}
      BY SizeOfIndices
    <3> QED
      BY <3>1
  <2>1. Some(s) \in s /\ Some(s) \in D
    BY <2>0, SomeOf
  <2>2. s \ {Some(s)} \in SUBSET D /\ Cardinality(s \ {Some(s)}) = k
    <3>1. s \ {Some(s)} \in SUBSET D /\ Cardinality(s \ {Some(s)}) = Cardinality(s) - 1
      BY <2>1, SizeOfIndices
    <3> QED
      BY <3>1
  <2>3. g[s \ {Some(s)}] \in Nat
    BY <1>2, <2>2
  <2> QED
    BY <1>0, <2>0, <2>1, <2>3
<1>3. Nat \subseteq T
  <2> HIDE DEF T
  <2> QED
    BY <1>1, <1>2, SetInd
<1> QED
  BY <1>3, SizeOfIndices

\* It does not matter which index is taken off first.
LEMMA SumsTakeAny ==
    ASSUME NEW D, IsFiniteSet(D), NEW f, \A i \in D : f[i] \in Nat,
           NEW g, IsSums(g, f, D), NEW s \in SUBSET D, NEW x \in s
    PROVE  g[s] = f[x] + g[s \ {x}]
<1> DEFINE T == {k \in Nat : \A v \in SUBSET D :
                    Cardinality(v) = k => \A w \in v : g[v] = f[w] + g[v \ {w}]}
<1>0. \A v \in SUBSET D : v # {} => g[v] = f[Some(v)] + g[v \ {Some(v)}]
  BY Zenon DEF IsSums
<1>1. 0 \in T
  <2>1. \A v \in SUBSET D : Cardinality(v) = 0 => v = {}
    BY SizeOfIndices
  <2> QED
    BY <2>1
<1>2. ASSUME NEW k \in Nat, k \in T PROVE k + 1 \in T
  <2> SUFFICES ASSUME NEW v \in SUBSET D, Cardinality(v) = k + 1, NEW w \in v
               PROVE  g[v] = f[w] + g[v \ {w}]
    OBVIOUS
  <2> DEFINE y == Some(v)
  <2>1. y \in v
    BY SomeOf
  <2>2. g[v] = f[y] + g[v \ {y}]
    BY <1>0
  <2>3. CASE y = w
    BY <2>2, <2>3
  <2>4. CASE y # w
    <3> HIDE DEF y
    <3>1. \A z \in v : v \ {z} \in SUBSET D /\ Cardinality(v \ {z}) = k
      <4>1. \A z \in v : v \ {z} \in SUBSET D /\ Cardinality(v \ {z}) = Cardinality(v) - 1
        BY SizeOfIndices
      <4> QED
        BY <4>1
    <3>2. w \in v \ {y} /\ y \in v \ {w}
      BY <2>1, <2>4
    <3> DEFINE r == v \ {w, y}
    <3>3. /\ (v \ {y}) \ {w} = r /\ (v \ {w}) \ {y} = r /\ r \in SUBSET D
      OBVIOUS
    <3>4. g[v \ {y}] = f[w] + g[(v \ {y}) \ {w}]
      BY <1>2, <2>1, <3>1, <3>2
    <3>5. g[v \ {w}] = f[y] + g[(v \ {w}) \ {y}]
      BY <1>2, <2>1, <3>1, <3>2
    <3>6. g[r] \in Nat
      BY <3>3, SumsAreNat
    <3>7. f[w] \in Nat /\ f[y] \in Nat
      BY <2>1
    <3>8. g[v \ {y}] = f[w] + g[r] /\ g[v \ {w}] = f[y] + g[r]
      BY <3>3, <3>4, <3>5
    <3> HIDE DEF r
    <3> QED
      BY <2>2, <3>6, <3>7, <3>8
  <2> QED
    BY <2>3, <2>4
<1>3. Nat \subseteq T
  <2> HIDE DEF T
  <2> QED
    BY <1>1, <1>2, SetInd
<1>4. Cardinality(s) \in T
  BY <1>3, SizeOfIndices
<1> QED
  BY <1>4

\* Sums over the same indices of the same numbers are the same.
LEMMA SumsAgree ==
    ASSUME NEW D, IsFiniteSet(D), NEW E \in SUBSET D, NEW f, NEW h,
           \A i \in E : h[i] = f[i],
           NEW g, IsSums(g, f, D), NEW u, IsSums(u, h, E)
    PROVE  \A s \in SUBSET E : u[s] = g[s]
<1> DEFINE T == {k \in Nat : \A s \in SUBSET E : Cardinality(s) = k => u[s] = g[s]}
<1>0. /\ \A s \in SUBSET D :
            g[s] = IF s = {} THEN 0 ELSE f[Some(s)] + g[s \ {Some(s)}]
      /\ \A s \in SUBSET E :
            u[s] = IF s = {} THEN 0 ELSE h[Some(s)] + u[s \ {Some(s)}]
  BY Zenon DEF IsSums
<1>1. IsFiniteSet(E)
  BY FS_Subset
<1>2. 0 \in T
  <2>1. \A s \in SUBSET E : Cardinality(s) = 0 => s = {}
    BY <1>1, SizeOfIndices
  <2>2. \A s \in SUBSET E : s = {} => u[s] = 0 /\ g[s] = 0
    BY <1>0
  <2> QED
    BY <2>1, <2>2
<1>3. ASSUME NEW k \in Nat, k \in T PROVE k + 1 \in T
  <2> SUFFICES ASSUME NEW s \in SUBSET E, Cardinality(s) = k + 1
               PROVE  u[s] = g[s]
    OBVIOUS
  <2>1. s # {}
    <3>1. Cardinality(s) = 0 <=> s = {}
      BY <1>1, SizeOfIndices
    <3> QED
      BY <3>1
  <2>2. Some(s) \in s /\ Some(s) \in E
    BY <2>1, SomeOf
  <2>3. s \ {Some(s)} \in SUBSET E /\ Cardinality(s \ {Some(s)}) = k
    <3>1. s \ {Some(s)} \in SUBSET E /\ Cardinality(s \ {Some(s)}) = Cardinality(s) - 1
      BY <1>1, <2>2, SizeOfIndices
    <3> QED
      BY <3>1
  <2>4. u[s \ {Some(s)}] = g[s \ {Some(s)}]
    BY <1>3, <2>3
  <2>5. s \in SUBSET D
    OBVIOUS
  <2> QED
    BY <1>0, <2>1, <2>2, <2>4, <2>5
<1>4. Nat \subseteq T
  <2> HIDE DEF T
  <2> QED
    BY <1>2, <1>3, SetInd
<1>5. \A s \in SUBSET E : Cardinality(s) \in T
  BY <1>1, <1>4, SizeOfIndices
<1> QED
  BY <1>5

\* The sum of a sequence of numbers, by its last and by its first.
LEMMA SumOfNone == ASSUME NEW f, DOMAIN f = {} PROVE W!SumFunction(f) = 0
<1>1. IsSums(Sums(f, {}), f, {})
  BY FS_EmptySet, SumsExist
<1>2. {} \in SUBSET {}
  OBVIOUS
<1>3. Sums(f, {})[{}] = 0
  BY <1>1, <1>2 DEF IsSums
<1> QED
  BY <1>3, SumIsASum

LEMMA SumOfFewer ==
    ASSUME NEW D, IsFiniteSet(D), NEW f, \A i \in D : f[i] \in Nat,
           NEW E, E \subseteq D, NEW h, \A i \in E : h[i] = f[i]
    PROVE  Sums(h, E)[E] \in Nat /\ Sums(f, D)[E] = Sums(h, E)[E]
<1>1. E \in SUBSET D /\ IsFiniteSet(E) /\ E \in SUBSET E /\ \A i \in E : h[i] \in Nat
  BY FS_Subset
<1>2. IsSums(Sums(f, D), f, D) /\ IsSums(Sums(h, E), h, E)
  BY <1>1, SumsExist
<1>3. Sums(h, E)[E] = Sums(f, D)[E]
  BY <1>1, <1>2, SumsAgree
<1>4. Sums(h, E)[E] \in Nat
  BY <1>1, <1>2, SumsAreNat
<1> QED
  BY <1>3, <1>4

LEMMA SumWithout ==
    ASSUME NEW D, IsFiniteSet(D), NEW f, \A i \in D : f[i] \in Nat, NEW x \in D
    PROVE  Sums(f, D)[D] = f[x] + Sums(f, D)[D \ {x}]
<1>1. D \in SUBSET D
  OBVIOUS
<1>2. IsSums(Sums(f, D), f, D)
  BY SumsExist
<1> QED
  BY <1>1, <1>2, SumsTakeAny

LEMMA SumLast ==
    ASSUME NEW n \in Nat, NEW f \in [1 .. n + 1 -> Nat]
    PROVE  /\ W!SumFunction([i \in 1 .. n |-> f[i]]) \in Nat
           /\ W!SumFunction(f) = f[n + 1] + W!SumFunction([i \in 1 .. n |-> f[i]])
<1> DEFINE D == 1 .. n + 1
           E == 1 .. n
           h == [i \in 1 .. n |-> f[i]]
<1>1. IsFiniteSet(D)
  <2>1. 1 \in Int /\ n + 1 \in Int
    OBVIOUS
  <2> QED
    BY <2>1, FS_Interval
<1>2. E = D \ {n + 1}
  OBVIOUS
<1>3. n + 1 \in D /\ E \subseteq D
  OBVIOUS
<1>4. DOMAIN f = D /\ DOMAIN h = E
  OBVIOUS
<1>5. (\A i \in D : f[i] \in Nat) /\ (\A i \in E : h[i] = f[i])
  OBVIOUS
<1>6. h = [i \in 1 .. n |-> f[i]]
  OBVIOUS
<1> HIDE DEF D, E, h
<1>7. W!SumFunction(f) = Sums(f, D)[D] /\ W!SumFunction(h) = Sums(h, E)[E]
  BY <1>4, SumIsASum
<1>8. Sums(h, E)[E] \in Nat /\ Sums(f, D)[E] = Sums(h, E)[E]
  BY <1>1, <1>3, <1>5, SumOfFewer
<1>9. Sums(f, D)[D] = f[n + 1] + Sums(f, D)[D \ {n + 1}]
  BY <1>1, <1>3, <1>5, SumWithout
<1>10. Sums(f, D)[D] = f[n + 1] + Sums(h, E)[E]
  BY <1>2, <1>8, <1>9
<1> QED
  BY <1>6, <1>7, <1>8, <1>10

LEMMA SumIsNat ==
    ASSUME NEW n \in Nat, NEW f \in [1 .. n -> Nat]
    PROVE  W!SumFunction(f) \in Nat
<1>1. CASE n = 0
  BY <1>1, SumOfNone
<1>2. CASE n # 0
  <2>1. n - 1 \in Nat /\ (n - 1) + 1 = n
    BY <1>2
  <2>2. f \in [1 .. (n - 1) + 1 -> Nat] /\ f[n] \in Nat
    BY <2>1, <1>2
  <2>3. /\ W!SumFunction([i \in 1 .. n - 1 |-> f[i]]) \in Nat
        /\ W!SumFunction(f) = f[(n - 1) + 1] + W!SumFunction([i \in 1 .. n - 1 |-> f[i]])
    BY <2>1, <2>2, SumLast
  <2> QED
    BY <2>1, <2>2, <2>3
<1> QED
  BY <1>1, <1>2

LEMMA SumFirst ==
    ASSUME NEW n \in Nat, NEW f \in [1 .. n + 1 -> Nat]
    PROVE  W!SumFunction(f) = f[1] + W!SumFunction([i \in 1 .. n |-> f[i + 1]])
<1> DEFINE Rest(h, k) == W!SumFunction([i \in 1 .. k |-> h[i + 1]])
           T == {k \in Nat : \A h \in [1 .. k + 1 -> Nat] :
                    W!SumFunction(h) = h[1] + Rest(h, k)}
<1>1. 0 \in T
  <2> SUFFICES ASSUME NEW h \in [1 .. 0 + 1 -> Nat]
               PROVE  W!SumFunction(h) = h[1] + Rest(h, 0)
    OBVIOUS
  <2>1. W!SumFunction(h) = h[0 + 1] + W!SumFunction([i \in 1 .. 0 |-> h[i]])
    BY SumLast
  <2>2. W!SumFunction([i \in 1 .. 0 |-> h[i]]) = 0
        /\ W!SumFunction([i \in 1 .. 0 |-> h[i + 1]]) = 0
    BY SumOfNone
  <2> QED
    BY <2>1, <2>2
<1>2. ASSUME NEW k \in Nat, k \in T PROVE k + 1 \in T
  <2> SUFFICES ASSUME NEW h \in [1 .. (k + 1) + 1 -> Nat]
               PROVE  W!SumFunction(h) = h[1] + Rest(h, k + 1)
    OBVIOUS
  <2> DEFINE p == [i \in 1 .. k + 1 |-> h[i]]
             q == [i \in 1 .. k + 1 |-> h[i + 1]]
             r == [i \in 1 .. k |-> p[i + 1]]
  <2>1. p \in [1 .. k + 1 -> Nat] /\ q \in [1 .. k + 1 -> Nat] /\ r \in [1 .. k -> Nat]
    OBVIOUS
  <2>2. W!SumFunction(h) = h[(k + 1) + 1] + W!SumFunction(p)
    BY SumLast
  <2>3. W!SumFunction(p) = p[1] + W!SumFunction(r)
    BY <1>2, <2>1
  <2>4. W!SumFunction(q) = q[k + 1] + W!SumFunction([i \in 1 .. k |-> q[i]])
    <3> HIDE DEF q
    <3> QED
      BY <2>1, SumLast
  <2>5. [i \in 1 .. k |-> q[i]] = r
    OBVIOUS
  <2>6. p[1] = h[1] /\ q[k + 1] = h[(k + 1) + 1] /\ h[1] \in Nat /\ h[(k + 1) + 1] \in Nat
    OBVIOUS
  <2>7. W!SumFunction(r) \in Nat
    <3> HIDE DEF r
    <3> QED
      BY <2>1, SumIsNat
  <2>8. Rest(h, k + 1) = W!SumFunction(q)
    OBVIOUS
  <2>9. W!SumFunction(q) = q[k + 1] + W!SumFunction(r)
    BY <2>4, <2>5
  <2> HIDE DEF p, q, r, Rest
  <2> QED
    BY <2>2, <2>3, <2>6, <2>7, <2>8, <2>9
<1>3. n \in T
  <2> HIDE DEF T
  <2> QED
    BY <1>1, <1>2, SetInd
<1> QED
  BY <1>3

\* The numbers of the last n of N messages, and their lines and rows.
Run(N, n) == [i \in 1 .. n |-> N - n + i]
Counted(ms, n, cols) ==
    W!SumFunction([i \in 1 .. n |-> W!lineCount(ms[Len(ms) - n + i], cols)])
RowsFor(ms, n, cols) ==
    W!SumFunction([i \in 1 .. n |-> W!Drawn(ms[Len(ms) - n + i], cols)])
Narrow(ms, n, cols) == \A i \in 1 .. n : ms[Len(ms) - n + i].header < cols

LongestOf(cols) ==
    LET n == {W!lineCount(m, cols) : m \in Message}
    IN CHOOSE x \in n : \A y \in n : x >= y

WindowTypes ==
    /\ added \in Seq(Message)
    /\ msgBuf \in Seq(Nat) /\ printed \in Seq(Nat)
    /\ writeIdx \in Nat
    /\ occLines \in Nat /\ cursOffset \in Nat /\ rows \in Nat
    /\ width \in Width /\ maxRows \in Height

\* The ring holds the last messages, the newest of them before writeIdx.
RingInv ==
    /\ Len(msgBuf) = IF Len(added) < MAX_MSG_BUF THEN Len(added) ELSE MAX_MSG_BUF
    /\ writeIdx < MAX_MSG_BUF
    /\ Len(added) < MAX_MSG_BUF => writeIdx = Len(added)
    /\ \A i \in 1 .. Len(msgBuf) :
        msgBuf[i] = IF i <= writeIdx THEN Len(added) - writeIdx + i
                    ELSE Len(added) - writeIdx - MAX_MSG_BUF + i

PrintedInv ==
    /\ printed = Run(Len(added), Len(printed))
    /\ Len(msgBuf) <= Len(printed) /\ Len(printed) <= Len(added)

RowsInv ==
    /\ Narrow(added, Len(printed), width) => rows = W!OnPad(occLines)
    /\ Counted(added, Len(msgBuf), width) + LongestOf(width) <= W!padHeight =>
        occLines <= W!padHeight
    /\ occLines = Counted(added, Len(printed), width)

ViewInv ==
    /\ cursOffset <= occLines
    /\ cursOffset < occLines => cursOffset >= maxRows

WindowInv == WindowTypes /\ RingInv /\ PrintedInv /\ RowsInv /\ ViewInv

LEMMA OneMessage ==
    ASSUME NEW m \in Message, NEW cols \in Nat \ {0}
    PROVE  /\ W!lineCount(m, cols) \in Nat /\ W!Drawn(m, cols) \in Nat
           /\ m.header < cols => W!Drawn(m, cols) = W!lineCount(m, cols)
<1>1. m.header \in Nat /\ m.text \in Nat /\ m = [header |-> m.header, text |-> m.text]
  BY WindowAssumption
<1> QED
  BY <1>1, DrawnAsCounted

LEMMA RunSums ==
    ASSUME NEW ms \in Seq(Message), NEW n \in Nat, n <= Len(ms), NEW cols \in Nat \ {0}
    PROVE  /\ Counted(ms, n, cols) \in Nat /\ RowsFor(ms, n, cols) \in Nat
           /\ Narrow(ms, n, cols) => RowsFor(ms, n, cols) = Counted(ms, n, cols)
<1> DEFINE c == [i \in 1 .. n |-> W!lineCount(ms[Len(ms) - n + i], cols)]
           r == [i \in 1 .. n |-> W!Drawn(ms[Len(ms) - n + i], cols)]
<1>1. \A i \in 1 .. n : ms[Len(ms) - n + i] \in Message
  <2> TAKE i \in 1 .. n
  <2>1. Len(ms) - n + i \in 1 .. Len(ms)
    BY LenProperties
  <2> QED
    BY <2>1, ElementOfSeq
<1>2. c \in [1 .. n -> Nat] /\ r \in [1 .. n -> Nat]
  BY <1>1, OneMessage
<1>3. Narrow(ms, n, cols) => c = r
  BY <1>1, OneMessage DEF Narrow
<1>4. Counted(ms, n, cols) = W!SumFunction(c) /\ RowsFor(ms, n, cols) = W!SumFunction(r)
  BY DEF Counted, RowsFor
<1> HIDE DEF c, r
<1>5. W!SumFunction(c) \in Nat /\ W!SumFunction(r) \in Nat
  BY <1>2, SumIsNat
<1> QED
  BY <1>3, <1>4, <1>5

LEMMA RunOfAll ==
    ASSUME WindowTypes, RingInv
    PROVE  /\ Len(added) \in Nat /\ Len(msgBuf) \in Nat /\ Len(msgBuf) <= Len(added)
           /\ W!Ring = Run(Len(added), Len(msgBuf))
<1>1. /\ Len(added) \in Nat /\ Len(msgBuf) \in Nat /\ MAX_MSG_BUF \in Nat /\ MAX_MSG_BUF > 0
      /\ Len(msgBuf) <= Len(added) /\ writeIdx \in Nat
  BY LenProperties, WindowAssumption DEF WindowTypes, RingInv
<1> DEFINE n == Len(msgBuf)
           start == IF n = MAX_MSG_BUF THEN writeIdx ELSE 0
<1>2. ASSUME NEW i \in 1 .. n
      PROVE  msgBuf[((start + i - 1) % MAX_MSG_BUF) + 1] = Len(added) - n + i
  <2>1. CASE Len(added) < MAX_MSG_BUF
    <3>1. start = 0 /\ n = Len(added) /\ writeIdx = n /\ i - 1 < MAX_MSG_BUF
      BY <2>1, <1>1 DEF RingInv
    <3>2. (start + i - 1) % MAX_MSG_BUF = i - 1
      <4>1. start + i - 1 = i - 1 /\ i - 1 \in Nat
        BY <3>1
      <4>2. (i - 1) % MAX_MSG_BUF = i - 1
        BY <4>1, <3>1, <1>1
      <4> QED
        BY <4>1, <4>2
    <3>3. msgBuf[i] = Len(added) - writeIdx + i
      BY <3>1, <1>1 DEF RingInv
    <3>4. (i - 1) + 1 = i
      OBVIOUS
    <3> HIDE DEF start
    <3>5. msgBuf[((start + i - 1) % MAX_MSG_BUF) + 1] = msgBuf[i]
      BY <3>2, <3>4
    <3> QED
      BY <3>1, <3>3, <3>5
  <2>2. CASE ~(Len(added) < MAX_MSG_BUF)
    <3>1. start = writeIdx /\ n = MAX_MSG_BUF /\ writeIdx < MAX_MSG_BUF
      BY <2>2, <1>1 DEF RingInv
    <3>2. CASE writeIdx + i - 1 < MAX_MSG_BUF
      <4>1. (start + i - 1) % MAX_MSG_BUF = writeIdx + i - 1
        BY <3>1, <3>2, <1>1
      <4>2. msgBuf[writeIdx + i] = Len(added) - writeIdx - MAX_MSG_BUF + (writeIdx + i)
        BY <3>1, <3>2, <1>1 DEF RingInv
      <4> QED
        BY <3>1, <4>1, <4>2, <1>1
    <3>3. CASE ~(writeIdx + i - 1 < MAX_MSG_BUF)
      <4> DEFINE a == writeIdx + i - 1 - MAX_MSG_BUF
      <4>1. a \in Nat /\ a < MAX_MSG_BUF /\ start + i - 1 = a + MAX_MSG_BUF
        BY <3>1, <3>3, <1>1
      <4>2. (a + MAX_MSG_BUF) % MAX_MSG_BUF = a
        <5> HIDE DEF a
        <5> QED
          BY <4>1, <1>1
      <4>3. msgBuf[a + 1] = Len(added) - writeIdx + (a + 1)
        BY <3>1, <3>3, <4>1, <1>1 DEF RingInv
      <4> QED
        BY <3>1, <4>1, <4>2, <4>3, <1>1
    <3> QED
      BY <3>2, <3>3
  <2> QED
    BY <2>1, <2>2
<1>3. W!Ring = [i \in 1 .. n |-> msgBuf[((start + i - 1) % MAX_MSG_BUF) + 1]]
  BY DEF W!Ring
<1> QED
  BY <1>1, <1>2, <1>3 DEF Run

\* What replayMessages() draws, and counts.
LEMMA Replayed ==
    ASSUME WindowTypes, RingInv, NEW cols
    PROVE  /\ W!LinesOf(W!Ring, cols) = Counted(added, Len(msgBuf), cols)
           /\ W!RowsOf(W!Ring, cols) = RowsFor(added, Len(msgBuf), cols)
<1> DEFINE n == Len(msgBuf)
<1>1. W!Ring = Run(Len(added), n) /\ n \in Nat
  BY RunOfAll
<1> HIDE DEF n
<1>2. DOMAIN Run(Len(added), n) = 1 .. n
      /\ \A i \in 1 .. n : Run(Len(added), n)[i] = Len(added) - n + i
  BY DEF Run
<1>3. W!LinesOf(Run(Len(added), n), cols) = Counted(added, n, cols)
  BY <1>2 DEF W!LinesOf, Counted
<1>4. W!RowsOf(Run(Len(added), n), cols) = RowsFor(added, n, cols)
  BY <1>2 DEF W!RowsOf, RowsFor
<1> QED
  BY <1>1, <1>3, <1>4 DEF n

LEMMA FiniteSetsHaveMaxima ==
    ASSUME NEW S \in SUBSET Nat, IsFiniteSet(S), S # {}
    PROVE  \E x \in S : \A y \in S : x >= y
<1> DEFINE T == {k \in Nat : \A R \in SUBSET Nat :
                    IsFiniteSet(R) /\ Cardinality(R) = k /\ R # {} =>
                        \E x \in R : \A y \in R : x >= y}
<1>1. 0 \in T
  BY FS_EmptySet
<1>2. ASSUME NEW k \in Nat, k \in T PROVE k + 1 \in T
  <2> SUFFICES ASSUME NEW R \in SUBSET Nat, IsFiniteSet(R), Cardinality(R) = k + 1,
                      R # {}
               PROVE  \E x \in R : \A y \in R : x >= y
    OBVIOUS
  <2>1. PICK z \in R : TRUE
    OBVIOUS
  <2>2. R \ {z} \in SUBSET Nat /\ IsFiniteSet(R \ {z}) /\ Cardinality(R \ {z}) = k
    <3>1. IsFiniteSet(R \ {z}) /\ Cardinality(R \ {z}) = Cardinality(R) - 1
      BY FS_RemoveElement
    <3> QED
      BY <3>1
  <2>3. CASE R \ {z} = {}
    <3>1. \A y \in R : z >= y
      BY <2>3
    <3> QED
      BY <3>1
  <2>4. CASE R \ {z} # {}
    <3>1. PICK x \in R \ {z} : \A y \in R \ {z} : x >= y
      BY <1>2, <2>2, <2>4
    <3>2. x \in Nat /\ z \in Nat
      OBVIOUS
    <3>3. CASE x >= z
      BY <3>1, <3>3
    <3>4. CASE z >= x
      <4>1. \A y \in R : z >= y
        BY <3>1, <3>2, <3>4
      <4> QED
        BY <4>1
    <3> QED
      BY <3>2, <3>3, <3>4
  <2> QED
    BY <2>3, <2>4
<1>3. Cardinality(S) \in T
  <2> HIDE DEF T
  <2>1. Cardinality(S) \in Nat
    BY FS_CardinalityType
  <2> QED
    BY <1>1, <1>2, <2>1, SetInd
<1> QED
  BY <1>3

LEMMA LongestIsLongest ==
    ASSUME NEW cols \in Nat \ {0}
    PROVE  /\ LongestOf(cols) \in Nat
           /\ \A m \in Message : W!lineCount(m, cols) <= LongestOf(cols)
<1> DEFINE n == {W!lineCount(m, cols) : m \in Message}
<1>1. n \in SUBSET Nat /\ n # {}
  BY OneMessage, WindowAssumption
<1>2. IsFiniteSet(n)
  <2> DEFINE counts == [m \in Message |-> W!lineCount(m, cols)]
  <2>1. counts \in Surjection(Message, n)
    BY DEF Surjection
  <2> HIDE DEF counts, n
  <2> QED
    BY <2>1, WindowAssumption, FS_Surjection
<1> HIDE DEF n
<1>3. \E x \in n : \A y \in n : x >= y
  BY <1>1, <1>2, FiniteSetsHaveMaxima
<1>4. LongestOf(cols) = CHOOSE x \in n : \A y \in n : x >= y
  BY DEF LongestOf, n
<1>5. LongestOf(cols) \in n /\ \A y \in n : LongestOf(cols) >= y
  BY <1>3, <1>4
<1>6. \A m \in Message : W!lineCount(m, cols) \in n
  BY DEF n
<1>7. LongestOf(cols) \in Nat /\ n \in SUBSET Nat
  BY <1>1, <1>5
<1> QED
  BY <1>5, <1>6, <1>7

\* One message more: the run that ends with it, and the run of the same
\* length, which has lost its first.
LEMMA RunGrows ==
    ASSUME NEW ms \in Seq(Message), NEW m \in Message, NEW n \in Nat, n <= Len(ms),
           NEW cols \in Nat \ {0}
    PROVE  /\ Counted(Append(ms, m), n + 1, cols)
                = Counted(ms, n, cols) + W!lineCount(m, cols)
           /\ n > 0 => Counted(ms, n, cols) + W!lineCount(m, cols)
                        <= Counted(Append(ms, m), n, cols) + LongestOf(cols)
<1> DEFINE more == Append(ms, m)
           N == Len(ms)
           e == [i \in 1 .. n + 1 |-> W!lineCount(more[(N + 1) - (n + 1) + i], cols)]
<1>1. /\ N \in Nat /\ more \in Seq(Message) /\ Len(more) = N + 1
      /\ more[N + 1] = m /\ \A i \in 1 .. N : more[i] = ms[i]
  BY AppendProperties, LenProperties
<1> HIDE DEF more
<1>2. \A i \in 1 .. n + 1 : more[(N + 1) - (n + 1) + i] \in Message
  <2> TAKE i \in 1 .. n + 1
  <2>1. (N + 1) - (n + 1) + i \in 1 .. Len(more)
    BY <1>1
  <2> QED
    BY <2>1, <1>1, ElementOfSeq
<1>3. e \in [1 .. n + 1 -> Nat]
  BY <1>2, OneMessage
<1>4. e[n + 1] = W!lineCount(m, cols)
  <2>1. (N + 1) - (n + 1) + (n + 1) = N + 1
    BY <1>1
  <2> QED
    BY <2>1, <1>1
<1>5. [i \in 1 .. n |-> e[i]] = [i \in 1 .. n |-> W!lineCount(ms[N - n + i], cols)]
  <2>1. \A i \in 1 .. n : more[(N + 1) - (n + 1) + i] = ms[N - n + i]
    <3> TAKE i \in 1 .. n
    <3>1. (N + 1) - (n + 1) + i = N - n + i /\ N - n + i \in 1 .. N
      BY <1>1
    <3> QED
      BY <3>1, <1>1
  <2>2. \A i \in 1 .. n : e[i] = W!lineCount(more[(N + 1) - (n + 1) + i], cols)
    OBVIOUS
  <2> HIDE DEF e
  <2> QED
    BY <2>1, <2>2
<1>6. [i \in 1 .. n |-> e[i + 1]] = [i \in 1 .. n |-> W!lineCount(more[(N + 1) - n + i], cols)]
  <2>1. \A i \in 1 .. n : (N + 1) - (n + 1) + (i + 1) = (N + 1) - n + i
    BY <1>1
  <2>2. \A i \in 1 .. n : e[i + 1] = W!lineCount(more[(N + 1) - (n + 1) + (i + 1)], cols)
    OBVIOUS
  <2> HIDE DEF e
  <2> QED
    BY <2>1, <2>2
<1>7. Counted(more, n + 1, cols) = W!SumFunction(e)
  BY <1>1 DEF Counted
<1>8. Counted(ms, n, cols) = W!SumFunction([i \in 1 .. n |-> e[i]])
  BY <1>5 DEF Counted
<1>9. Counted(more, n, cols) = W!SumFunction([i \in 1 .. n |-> e[i + 1]])
  BY <1>1, <1>6 DEF Counted
<1>10. e[1] <= LongestOf(cols) /\ e[1] \in Nat /\ LongestOf(cols) \in Nat
  <2>1. more[(N + 1) - (n + 1) + 1] \in Message
    BY <1>2
  <2> QED
    BY <1>3, <2>1, LongestIsLongest
<1> HIDE DEF e
<1>11. /\ W!SumFunction([i \in 1 .. n |-> e[i]]) \in Nat
       /\ W!SumFunction(e) = e[n + 1] + W!SumFunction([i \in 1 .. n |-> e[i]])
       /\ W!SumFunction(e) = e[1] + W!SumFunction([i \in 1 .. n |-> e[i + 1]])
  BY <1>3, SumLast, SumFirst
<1>12. Counted(ms, n, cols) \in Nat /\ W!lineCount(m, cols) \in Nat
  BY <1>8, <1>11, OneMessage
<1>13. Counted(more, n, cols) \in Nat
  <2>1. n <= Len(more)
    BY <1>1
  <2> QED
    BY <2>1, <1>1, RunSums
<1>14. Counted(more, n + 1, cols) = Counted(ms, n, cols) + W!lineCount(m, cols)
  BY <1>4, <1>7, <1>8, <1>11, <1>12
<1>15. Counted(ms, n, cols) + W!lineCount(m, cols)
        <= Counted(more, n, cols) + LongestOf(cols)
  BY <1>7, <1>9, <1>10, <1>11, <1>13, <1>14
<1> QED
  BY <1>14, <1>15 DEF more

LEMMA WindowFacts ==
    ASSUME WindowTypes
    PROVE  /\ width \in Nat \ {0} /\ maxRows \in Nat
           /\ W!padHeight \in Nat /\ MAX_MSG_BUF \in Nat \ {0}
           /\ Len(added) \in Nat /\ Len(msgBuf) \in Nat /\ Len(printed) \in Nat
<1>1. PAD_BUF_MULTI * MAX_MSG_BUF \in Nat
  BY WindowAssumption
<1> QED
  BY <1>1, WindowAssumption, LenProperties DEF WindowTypes, W!padHeight

LEMMA OnPadTwice ==
    ASSUME NEW h \in Nat, h = W!padHeight, NEW a \in Nat, NEW b \in Nat
    PROVE  W!OnPad(a) \in Nat /\ W!OnPad(W!OnPad(a) + b) = W!OnPad(a + b)
BY DEF W!OnPad

LEMMA RunProperties ==
    ASSUME NEW N \in Nat, NEW n \in Nat, n <= N
    PROVE  /\ Run(N, n) \in Seq(Nat) /\ Len(Run(N, n)) = n
           /\ Append(Run(N, n), N + 1) = Run(N + 1, n + 1)
<1>1. Run(N, n) \in [1 .. n -> Nat] /\ Run(N + 1, n + 1) \in [1 .. n + 1 -> Nat]
  BY DEF Run
<1>2. Run(N, n) \in Seq(Nat) /\ Len(Run(N, n)) = n
      /\ Run(N + 1, n + 1) \in Seq(Nat) /\ Len(Run(N + 1, n + 1)) = n + 1
  BY <1>1, SeqDef, LenProperties
<1> DEFINE a == Append(Run(N, n), N + 1)
<1>3. a \in Seq(Nat) /\ Len(a) = n + 1 /\ a[n + 1] = N + 1
      /\ \A i \in 1 .. n : a[i] = Run(N, n)[i]
  BY <1>2, AppendProperties
<1> HIDE DEF a
<1>4. ASSUME NEW i \in 1 .. n + 1 PROVE a[i] = Run(N + 1, n + 1)[i]
  BY <1>3 DEF Run
<1>5. a = Run(N + 1, n + 1)
  BY <1>2, <1>3, <1>4, SeqEqual
<1> QED
  BY <1>2, <1>5 DEF a

LEMMA NextIndex ==
    ASSUME NEW w \in Nat, NEW M \in Nat \ {0}, w < M
    PROVE  (w + 1) % M = IF w + 1 = M THEN 0 ELSE w + 1
<1>1. CASE w + 1 = M
  <2>1. M % M = 0
    OBVIOUS
  <2> QED
    BY <1>1, <2>1
<1>2. CASE w + 1 # M
  <2> DEFINE v == w + 1
  <2>1. v \in Nat /\ v < M /\ v # M
    BY <1>2
  <2>2. v % M = v
    <3> HIDE DEF v
    <3> QED
      BY <2>1
  <2> QED
    BY <2>1, <2>2
<1> QED
  BY <1>1, <1>2

\* addMsg() keeps the ring: it grows until it is full, and then the newest
\* message takes the place of the oldest.
LEMMA RingGrows ==
    ASSUME WindowTypes, RingInv, NEW m \in Message, added' = Append(added, m),
           W!addMsg(Len(added) + 1)
    PROVE  RingInv' /\ msgBuf' \in Seq(Nat) /\ writeIdx' \in Nat
<1> DEFINE N == Len(added)
           w == writeIdx
           M == MAX_MSG_BUF
<1>1. /\ N \in Nat /\ w \in Nat /\ M \in Nat \ {0} /\ w < M
      /\ msgBuf \in Seq(Nat) /\ Len(msgBuf) = IF N < M THEN N ELSE M
      /\ (N < M => w = N)
  BY WindowFacts DEF WindowTypes, RingInv
<1>2. Len(added') = N + 1 /\ writeIdx' = IF w + 1 = M THEN 0 ELSE w + 1
  <2>1. Len(added') = N + 1
    BY AppendProperties DEF WindowTypes
  <2> QED
    BY <2>1, <1>1, NextIndex DEF W!addMsg
<1>3. \A i \in 1 .. Len(msgBuf) :
        msgBuf[i] = IF i <= w THEN N - w + i ELSE N - w - M + i
  BY DEF RingInv
<1>4. msgBuf' = IF w >= Len(msgBuf) THEN Append(msgBuf, N + 1)
                ELSE [msgBuf EXCEPT ![w + 1] = N + 1]
  BY DEF W!addMsg
<1>5. CASE N < M
  <2>1. /\ msgBuf' \in Seq(Nat) /\ Len(msgBuf') = N + 1
        /\ msgBuf'[N + 1] = N + 1 /\ \A i \in 1 .. N : msgBuf'[i] = msgBuf[i]
    BY <1>1, <1>4, <1>5, AppendProperties
  <2>2. \A i \in 1 .. N + 1 : msgBuf'[i] = i
    <3> TAKE i \in 1 .. N + 1
    <3>1. CASE i = N + 1
      BY <2>1, <3>1
    <3>2. CASE i # N + 1
      <4>1. i \in 1 .. N /\ i \in 1 .. Len(msgBuf) /\ i <= w /\ w = N
        BY <3>2, <1>1, <1>5
      <4>2. msgBuf[i] = N - w + i /\ msgBuf'[i] = msgBuf[i]
        BY <4>1, <2>1, <1>3
      <4> QED
        BY <4>1, <4>2, <1>1
    <3> QED
      BY <3>1, <3>2
  <2>3. \A i \in 1 .. Len(msgBuf') :
          msgBuf'[i] = IF i <= writeIdx' THEN Len(added') - writeIdx' + i
                       ELSE Len(added') - writeIdx' - M + i
    BY <2>1, <2>2, <1>1, <1>2, <1>5
  <2> QED
    BY <2>1, <2>3, <1>1, <1>2, <1>5 DEF RingInv
<1>6. CASE ~(N < M)
  <2>1. msgBuf' = [msgBuf EXCEPT ![w + 1] = N + 1] /\ w + 1 \in 1 .. Len(msgBuf)
        /\ N + 1 \in Nat
    BY <1>1, <1>4, <1>6
  <2>2. /\ msgBuf' \in Seq(Nat) /\ Len(msgBuf') = M
        /\ \A i \in 1 .. M : msgBuf'[i] = IF i = w + 1 THEN N + 1 ELSE msgBuf[i]
    BY <2>1, <1>1, <1>6, ExceptSeq
  <2>3. \A i \in 1 .. Len(msgBuf') :
          msgBuf'[i] = IF i <= writeIdx' THEN Len(added') - writeIdx' + i
                       ELSE Len(added') - writeIdx' - M + i
    <3> TAKE i \in 1 .. Len(msgBuf')
    <3>1. i \in 1 .. M /\ i \in 1 .. Len(msgBuf)
      BY <2>2, <1>1, <1>6
    <3>2. msgBuf[i] = (IF i <= w THEN N - w + i ELSE N - w - M + i)
          /\ msgBuf'[i] = (IF i = w + 1 THEN N + 1 ELSE msgBuf[i])
      BY <3>1, <2>2, <1>3
    <3> HIDE DEF N, w, M
    <3>3. CASE w + 1 = M
      BY <3>1, <3>2, <3>3, <1>1, <1>2
    <3>4. CASE w + 1 # M
      BY <3>1, <3>2, <3>4, <1>1, <1>2
    <3> QED
      BY <3>3, <3>4
  <2> QED
    BY <2>2, <2>3, <1>1, <1>2, <1>6 DEF RingInv
<1> QED
  BY <1>5, <1>6

LEMMA WindowInit == W!Init => WindowInv
<1> SUFFICES ASSUME W!Init PROVE WindowInv
  OBVIOUS
<1>1. WindowTypes /\ Len(msgBuf) = 0 /\ Len(added) = 0 /\ Len(printed) = 0
  BY DEF W!Init, WindowTypes
<1>2. RingInv
  BY <1>1, WindowAssumption DEF W!Init, RingInv
<1>3. PrintedInv
  BY <1>1 DEF W!Init, PrintedInv, Run
<1>4. W!padHeight \in Nat /\ rows = 0 /\ occLines = 0 /\ cursOffset = 0
  BY <1>1, WindowFacts DEF W!Init
<1>5. W!OnPad(occLines) = 0
  BY <1>4 DEF W!OnPad
<1>6. Counted(added, Len(printed), width) = 0
  <2> DEFINE f == [i \in 1 .. 0 |-> W!lineCount(added[Len(added) - 0 + i], width)]
  <2>1. DOMAIN f = {}
    OBVIOUS
  <2>2. Counted(added, 0, width) = W!SumFunction(f)
    BY DEF Counted
  <2> HIDE DEF f
  <2> QED
    BY <1>1, <2>1, <2>2, SumOfNone
<1>7. RowsInv /\ ViewInv
  BY <1>4, <1>5, <1>6 DEF RowsInv, ViewInv
<1> QED
  BY <1>1, <1>2, <1>3, <1>7 DEF WindowInv

\* The run that is on the pad grows by the message that is shown.
LEMMA NarrowRun ==
    ASSUME NEW ms \in Seq(Message), NEW m \in Message, NEW n \in Nat, n <= Len(ms),
           NEW cols \in Nat \ {0}, Narrow(Append(ms, m), n + 1, cols)
    PROVE  Narrow(ms, n, cols) /\ m.header < cols
<1> DEFINE more == Append(ms, m)
           N == Len(ms)
<1>1. /\ N \in Nat /\ Len(more) = N + 1
      /\ more[N + 1] = m /\ \A i \in 1 .. N : more[i] = ms[i]
  BY AppendProperties, LenProperties
<1> HIDE DEF more
<1>2. \A i \in 1 .. n + 1 : more[(N + 1) - (n + 1) + i].header < cols
  BY <1>1 DEF Narrow, more
<1>3. m.header < cols
  <2>1. (N + 1) - (n + 1) + (n + 1) = N + 1 /\ n + 1 \in 1 .. n + 1
    BY <1>1
  <2>2. more[(N + 1) - (n + 1) + (n + 1)].header < cols
    BY <2>1, <1>2
  <2> QED
    BY <2>1, <2>2, <1>1
<1>4. ASSUME NEW i \in 1 .. n PROVE ms[N - n + i].header < cols
  <2>1. (N + 1) - (n + 1) + i = N - n + i /\ N - n + i \in 1 .. N /\ i \in 1 .. n + 1
    <3>1. n <= N /\ N \in Nat
      BY <1>1
    <3> HIDE DEF N
    <3>2. (N + 1) - (n + 1) + i = N - n + i
      BY <3>1
    <3>3. N - n + i \in 1 .. N
      BY <3>1
    <3> QED
      BY <3>2, <3>3
  <2>2. more[(N + 1) - (n + 1) + i].header < cols
    BY <2>1, <1>2
  <2> QED
    BY <2>1, <2>2, <1>1
<1> QED
  BY <1>3, <1>4 DEF Narrow

LEMMA Shown ==
    ASSUME WindowInv, NEW m \in Message, NEW ownLine \in BOOLEAN,
           W!appendMsgWin(m, ownLine), UNCHANGED <<width, maxRows>>
    PROVE  WindowInv'
<1> DEFINE N == Len(added)
           n == Len(msgBuf)
           lines == W!lineCount(m, width)
           shift == W!PadIsFull(lines)
           b == IF shift THEN n ELSE Len(printed)
           occ == IF shift THEN Counted(added, n, width) ELSE occLines
           used == IF shift THEN W!OnPad(RowsFor(added, n, width)) ELSE rows
           offset == IF shift THEN occ ELSE cursOffset
<1>1. WindowTypes /\ RingInv /\ PrintedInv /\ RowsInv /\ ViewInv
  BY DEF WindowInv
<1>2. /\ width \in Nat \ {0} /\ maxRows \in Nat /\ W!padHeight \in Nat
      /\ MAX_MSG_BUF \in Nat \ {0} /\ N \in Nat /\ n \in Nat /\ Len(printed) \in Nat
      /\ added \in Seq(Message) /\ occLines \in Nat /\ cursOffset \in Nat /\ rows \in Nat
  BY <1>1, WindowFacts DEF WindowTypes
<1>3. n <= N /\ W!Ring = Run(N, n) /\ printed = Run(N, Len(printed)) /\ n <= Len(printed)
      /\ Len(printed) <= N
  BY <1>1, RunOfAll DEF PrintedInv
<1>4. /\ Counted(added, n, width) \in Nat /\ RowsFor(added, n, width) \in Nat
      /\ Narrow(added, n, width) => RowsFor(added, n, width) = Counted(added, n, width)
      /\ W!LinesOf(W!Ring, width) = Counted(added, n, width)
      /\ W!RowsOf(W!Ring, width) = RowsFor(added, n, width)
  BY <1>1, <1>2, <1>3, RunSums, Replayed
<1>5. lines \in Nat /\ W!Drawn(m, width) \in Nat
      /\ (m.header < width => W!Drawn(m, width) = lines)
  BY <1>2, OneMessage
<1>6. /\ added' = Append(added, m)
      /\ printed' = Append(Run(N, b), N + 1)
      /\ rows' = W!OnPad(used + W!Drawn(m, width))
      /\ occLines' = occ + lines
      /\ cursOffset' = IF ownLine \/ occ <= offset THEN occ + lines ELSE offset
      /\ W!addMsg(N + 1)
  <2>1. shift => Append(IF shift THEN W!Ring ELSE printed, N + 1) = Append(Run(N, b), N + 1)
    BY <1>3
  <2>2. ~shift => Append(IF shift THEN W!Ring ELSE printed, N + 1) = Append(Run(N, b), N + 1)
    BY <1>3
  <2> QED
    BY <1>4, <2>1, <2>2 DEF W!appendMsgWin
<1>7. b \in Nat /\ n <= b /\ b <= N
  BY <1>2, <1>3
<1>8. occ \in Nat /\ used \in Nat /\ (Narrow(added, b, width) => used = W!OnPad(occ))
  <2>1. W!OnPad(RowsFor(added, n, width)) \in Nat
    BY <1>2, <1>4 DEF W!OnPad
  <2>2. CASE shift
    BY <2>1, <2>2, <1>2, <1>4
  <2>3. CASE ~shift
    BY <2>3, <1>1, <1>2 DEF RowsInv
  <2> QED
    BY <2>2, <2>3
<1>9. offset \in Nat /\ offset <= occ /\ (offset < occ => offset >= maxRows)
  BY <1>1, <1>2, <1>8 DEF ViewInv
<1>10. occ + lines > W!padHeight =>
         Counted(added, n, width) + lines > W!padHeight
  BY <1>2, <1>4, <1>5 DEF W!PadIsFull
<1> HIDE DEF b, occ, used, offset, lines
<1>11. RingInv' /\ msgBuf' \in Seq(Nat) /\ writeIdx' \in Nat
  BY <1>1, <1>6, RingGrows
<1>12. added' \in Seq(Message) /\ Len(added') = N + 1
  BY <1>2, <1>6, AppendProperties
<1>13. printed' = Run(N + 1, b + 1) /\ printed' \in Seq(Nat) /\ Len(printed') = b + 1
  <2>1. b + 1 \in Nat /\ N + 1 \in Nat /\ b + 1 <= N + 1
    BY <1>2, <1>7
  <2>2. Append(Run(N, b), N + 1) = Run(N + 1, b + 1)
    BY <1>2, <1>7, RunProperties
  <2> QED
    BY <2>1, <2>2, <1>6, RunProperties
<1>14. Len(msgBuf') = IF N < MAX_MSG_BUF THEN n + 1 ELSE n
  <2>1. Len(msgBuf') = IF N + 1 < MAX_MSG_BUF THEN N + 1 ELSE MAX_MSG_BUF
    BY <1>11, <1>12 DEF RingInv
  <2>2. n = IF N < MAX_MSG_BUF THEN N ELSE MAX_MSG_BUF
    BY <1>1 DEF RingInv
  <2> QED
    BY <2>1, <2>2, <1>2
<1>15. PrintedInv'
  <2>1. Len(msgBuf') <= Len(printed') /\ Len(printed') <= Len(added')
    <3>1. Len(msgBuf') = n \/ Len(msgBuf') = n + 1
      BY <1>14
    <3>2. Len(printed') = b + 1 /\ Len(added') = N + 1
      BY <1>12, <1>13
    <3>3. n <= b + 1 /\ n + 1 <= b + 1 /\ b + 1 <= N + 1
      <4> HIDE DEF n, N
      <4> QED
        BY <1>2, <1>7
    <3> QED
      BY <3>1, <3>2, <3>3
  <2>2. printed' = Run(Len(added'), Len(printed'))
    BY <1>12, <1>13
  <2> QED
    BY <2>1, <2>2 DEF PrintedInv
<1>16. occLines' \in Nat /\ cursOffset' \in Nat /\ rows' \in Nat /\ ViewInv'
  <2>1. rows' \in Nat
    BY <1>2, <1>5, <1>6, <1>8 DEF W!OnPad
  <2>2. occLines' \in Nat /\ cursOffset' \in Nat
    BY <1>2, <1>5, <1>6, <1>8, <1>9
  <2>3. cursOffset' <= occLines' /\ (cursOffset' < occLines' => cursOffset' >= maxRows)
    <3>1. CASE ownLine \/ occ <= offset
      <4>1. cursOffset' = occLines'
        BY <3>1, <1>6
      <4> QED
        BY <2>2, <4>1
    <3>2. CASE ~(ownLine \/ occ <= offset)
      <4>1. cursOffset' = offset /\ offset < occ
        BY <3>2, <1>6, <1>8, <1>9
      <4>2. cursOffset' >= maxRows
        BY <4>1, <1>9
      <4>3. cursOffset' <= occLines'
        BY <4>1, <1>5, <1>6, <1>8, <1>9
      <4> QED
        BY <4>2, <4>3
    <3> QED
      BY <3>1, <3>2
  <2> QED
    BY <2>1, <2>2, <2>3 DEF ViewInv
<1>17. WindowTypes'
  BY <1>1, <1>11, <1>12, <1>13, <1>16 DEF WindowTypes
<1>18. ASSUME Narrow(added', Len(printed'), width')
       PROVE  rows' = W!OnPad(occLines')
  <2>1. Narrow(Append(added, m), b + 1, width)
    BY <1>18, <1>6, <1>13
  <2>2. Narrow(added, b, width) /\ m.header < width
    BY <2>1, <1>2, <1>7, NarrowRun
  <2>3. rows' = W!OnPad(W!OnPad(occ) + lines)
    BY <2>2, <1>5, <1>6, <1>8
  <2> QED
    BY <2>3, <1>2, <1>5, <1>6, <1>8, OnPadTwice
<1>19. ASSUME Counted(added', Len(msgBuf'), width') + LongestOf(width') <= W!padHeight
       PROVE  occLines' <= W!padHeight
  <2> DEFINE pad == W!padHeight
             longest == LongestOf(width)
             before == Counted(added, n, width)
             grown == Counted(Append(added, m), n + 1, width)
             kept == Counted(Append(added, m), n, width)
  <2>1. pad \in Nat /\ longest \in Nat /\ before \in Nat /\ lines \in Nat
        /\ occ \in Nat
    BY <1>2, <1>4, <1>5, <1>8, LongestIsLongest
  <2>2. grown = before + lines /\ (n > 0 => before + lines <= kept + longest)
    BY <1>2, <1>3, RunGrows DEF lines
  <2>3. /\ N < MAX_MSG_BUF => grown + longest <= pad
        /\ ~(N < MAX_MSG_BUF) => kept + longest <= pad
    BY <1>6, <1>14, <1>19
  <2>4. ~(N < MAX_MSG_BUF) => n > 0
    BY <1>1, <1>2 DEF RingInv
  <2>5. kept \in Nat
    <3>1. n <= Len(Append(added, m)) /\ Append(added, m) \in Seq(Message)
      BY <1>2, <1>3, <1>6, <1>12
    <3> QED
      BY <3>1, <1>2, RunSums
  <2>6. occLines' = occ + lines /\ (occ + lines > pad => before + lines > pad)
    BY <1>6, <1>10
  <2> HIDE DEF pad, longest, before, grown, kept, N, n
  <2>7. before + lines <= pad
    BY <2>1, <2>2, <2>3, <2>4, <2>5
  <2>8. occ + lines <= pad
    BY <2>1, <2>6, <2>7
  <2> QED
    BY <2>6, <2>8 DEF pad
<1>20. occLines' = Counted(added', Len(printed'), width')
  <2>1. occ = Counted(added, b, width)
    BY <1>1 DEF RowsInv, occ, b
  <2>2. Counted(Append(added, m), b + 1, width) = Counted(added, b, width) + lines
    BY <1>2, <1>7, RunGrows DEF lines
  <2> QED
    BY <2>1, <2>2, <1>6, <1>13
<1>21. RowsInv'
  BY <1>18, <1>19, <1>20 DEF RowsInv
<1> QED
  BY <1>11, <1>15, <1>16, <1>17, <1>21 DEF WindowInv

LEMMA Scrolled ==
    WindowInv /\ (W!scrollUp \/ W!scrollDown) => WindowInv'
<1> SUFFICES ASSUME WindowInv, W!scrollUp \/ W!scrollDown PROVE WindowInv'
  OBVIOUS
<1>1. WindowTypes /\ RingInv /\ PrintedInv /\ RowsInv /\ ViewInv
  BY DEF WindowInv
<1>2. maxRows \in Nat /\ cursOffset \in Nat /\ occLines \in Nat
  BY <1>1, WindowFacts DEF WindowTypes
<1>3. UNCHANGED <<msgBuf, writeIdx, occLines, rows, printed, added, width, maxRows>>
  BY DEF W!scrollUp, W!scrollDown
<1>4. cursOffset' \in Nat /\ cursOffset' <= occLines
      /\ (cursOffset' < occLines => cursOffset' >= maxRows)
  BY <1>1, <1>2 DEF W!scrollUp, W!scrollDown, ViewInv
<1>5. WindowTypes' /\ ViewInv'
  BY <1>1, <1>3, <1>4 DEF WindowTypes, ViewInv
<1>6. RingInv' /\ PrintedInv' /\ RowsInv'
  BY <1>1, <1>3 DEF RingInv, PrintedInv, RowsInv
<1> QED
  BY <1>5, <1>6 DEF WindowInv

LEMMA Redrawn == WindowInv /\ W!redrawMsgWin => WindowInv'
<1> SUFFICES ASSUME WindowInv, W!redrawMsgWin PROVE WindowInv'
  OBVIOUS
<1> DEFINE n == Len(msgBuf)
<1>1. WindowTypes /\ RingInv
  BY DEF WindowInv
<1>2. /\ n \in Nat /\ n <= Len(added) /\ W!Ring = Run(Len(added), n)
      /\ Len(added) \in Nat /\ added \in Seq(Message) /\ W!padHeight \in Nat
  BY <1>1, RunOfAll, WindowFacts DEF WindowTypes
<1>3. width' \in Width /\ maxRows' \in Height /\ UNCHANGED <<msgBuf, writeIdx, added>>
      /\ W!replayMessages(width')
  BY DEF W!redrawMsgWin
<1>4. width' \in Nat \ {0}
  BY <1>3, WindowAssumption
<1>5. /\ printed' = Run(Len(added), n)
      /\ rows' = W!OnPad(RowsFor(added, n, width'))
      /\ occLines' = Counted(added, n, width')
      /\ cursOffset' = Counted(added, n, width')
  BY <1>1, <1>2, <1>3, Replayed DEF W!replayMessages
<1>6. /\ Counted(added, n, width') \in Nat /\ RowsFor(added, n, width') \in Nat
      /\ Narrow(added, n, width') => RowsFor(added, n, width') = Counted(added, n, width')
  BY <1>2, <1>4, RunSums
<1>7. printed' \in Seq(Nat) /\ Len(printed') = n
  BY <1>2, <1>5, RunProperties
<1>8. rows' \in Nat
  BY <1>2, <1>5, <1>6 DEF W!OnPad
<1>9. WindowTypes'
  BY <1>1, <1>3, <1>5, <1>6, <1>7, <1>8 DEF WindowTypes
<1>10. RingInv' /\ PrintedInv'
  BY <1>1, <1>2, <1>3, <1>5, <1>7 DEF RingInv, PrintedInv
<1>11. LongestOf(width') \in Nat
  BY <1>4, LongestIsLongest
<1>12. RowsInv'
  BY <1>2, <1>3, <1>5, <1>6, <1>7, <1>11 DEF RowsInv
<1>13. ViewInv'
  BY <1>5, <1>6 DEF ViewInv
<1> QED
  BY <1>9, <1>10, <1>12, <1>13 DEF WindowInv

\* However messages come, scrolling and resizes interleave, the ring, the pad,
\* the count of its lines and the view fit together.
THEOREM WindowInvariance == W!Spec => []WindowInv
<1>1. WindowInv /\ [W!Next]_(W!vars) => WindowInv'
  <2> SUFFICES ASSUME WindowInv, [W!Next]_(W!vars) PROVE WindowInv'
    OBVIOUS
  <2>1. CASE W!Show
    BY <2>1, Shown DEF W!Show
  <2>2. CASE W!scrollUp \/ W!scrollDown
    BY <2>2, Scrolled
  <2>3. CASE W!redrawMsgWin
    BY <2>3, Redrawn
  <2>4. CASE UNCHANGED W!vars
    BY <2>4 DEF W!vars, WindowInv, WindowTypes, RingInv, PrintedInv, RowsInv, ViewInv
  <2> QED
    BY <2>1, <2>2, <2>3, <2>4 DEF W!Next
<1> QED
  BY <1>1, WindowInit, PTL DEF W!Spec

\* What a prefix of the printed messages comes to is no more than all of them.
LEMMA PrefixSum ==
    ASSUME NEW n \in Nat, NEW k \in Nat, k <= n, NEW f \in [1 .. n -> Nat]
    PROVE  W!SumFunction([i \in 1 .. k |-> f[i]]) <= W!SumFunction(f)
<1> DEFINE T == {x \in Nat : k + x <= n =>
                    W!SumFunction([i \in 1 .. k |-> f[i]])
                        <= W!SumFunction([i \in 1 .. k + x |-> f[i]])}
<1>1. \A x \in Nat : k + x <= n => [i \in 1 .. k + x |-> f[i]] \in [1 .. k + x -> Nat]
  OBVIOUS
<1>2. \A x \in Nat : k + x <= n => W!SumFunction([i \in 1 .. k + x |-> f[i]]) \in Nat
  <2> SUFFICES ASSUME NEW x \in Nat, k + x <= n
               PROVE  W!SumFunction([i \in 1 .. k + x |-> f[i]]) \in Nat
    OBVIOUS
  <2> DEFINE g == [i \in 1 .. k + x |-> f[i]]
  <2>1. g \in [1 .. k + x -> Nat] /\ k + x \in Nat
    BY <1>1
  <2> HIDE DEF g
  <2>2. W!SumFunction(g) \in Nat
    BY <2>1, SumIsNat
  <2> QED
    BY <2>2 DEF g
<1>3. 0 \in T
  <2>1. W!SumFunction([i \in 1 .. k |-> f[i]]) \in Nat
    <3>1. [i \in 1 .. k |-> f[i]] = [i \in 1 .. k + 0 |-> f[i]] /\ k + 0 <= n /\ 0 \in Nat
      OBVIOUS
    <3>2. W!SumFunction([i \in 1 .. k + 0 |-> f[i]]) \in Nat
      BY <1>2, <3>1
    <3> QED
      BY <3>1, <3>2
  <2>2. k + 0 = k
    OBVIOUS
  <2> QED
    BY <2>1, <2>2
<1>4. ASSUME NEW x \in T PROVE x + 1 \in T
  <2> SUFFICES ASSUME k + (x + 1) <= n
               PROVE  W!SumFunction([i \in 1 .. k |-> f[i]])
                        <= W!SumFunction([i \in 1 .. k + (x + 1) |-> f[i]])
    OBVIOUS
  <2> DEFINE N == k + x
             g == [i \in 1 .. N + 1 |-> f[i]]
             h == [i \in 1 .. N |-> f[i]]
             s == [i \in 1 .. k |-> f[i]]
  <2>1. N \in Nat /\ N + 1 = k + (x + 1) /\ N + 1 <= n /\ k + x <= n
    OBVIOUS
  <2>2. g \in [1 .. N + 1 -> Nat] /\ [i \in 1 .. N |-> g[i]] = h
    BY <2>1
  <2>3. W!SumFunction(s) <= W!SumFunction(h) /\ W!SumFunction(h) \in Nat
    BY <1>2, <2>1
  <2>4. W!SumFunction(s) \in Nat
    <3>1. s = [i \in 1 .. k + 0 |-> f[i]] /\ k + 0 <= n /\ 0 \in Nat
      OBVIOUS
    <3>2. W!SumFunction([i \in 1 .. k + 0 |-> f[i]]) \in Nat
      BY <1>2, <3>1
    <3> QED
      BY <3>1, <3>2
  <2>5. g[N + 1] \in Nat
    BY <2>1, <2>2
  <2> HIDE DEF g, h, s, T
  <2>6. W!SumFunction(g) = g[N + 1] + W!SumFunction(h)
    <3> HIDE DEF N
    <3> QED
      BY <2>1, <2>2, SumLast
  <2>7. W!SumFunction(s) <= W!SumFunction(g)
    BY <2>3, <2>4, <2>5, <2>6
  <2>8. [i \in 1 .. k + (x + 1) |-> f[i]] = g
    BY <2>1 DEF g
  <2> QED
    BY <2>7, <2>8 DEF s
<1>5. n - k \in T
  <2>1. n - k \in Nat
    OBVIOUS
  <2> HIDE DEF T
  <2> QED
    BY <1>3, <1>4, <2>1, SetInd DEF T
<1>6. [i \in 1 .. k + (n - k) |-> f[i]] = f /\ k + (n - k) <= n
  <2>1. k + (n - k) = n
    OBVIOUS
  <2> QED
    BY <2>1
<1> QED
  BY <1>5, <1>6

\* If nothing is cut, all that was printed since the pad was erased is there.
LEMMA AllIsDrawn ==
    ASSUME WindowInv, W!NothingIsCut
    PROVE  W!drawn = printed /\ rows = occLines
<1> DEFINE n == Len(printed)
           f == [i \in 1 .. n |-> W!Drawn(added[printed[i]], width)]
<1>1. WindowTypes /\ RingInv /\ PrintedInv /\ RowsInv
  BY DEF WindowInv
<1>2. /\ n \in Nat /\ Len(added) \in Nat /\ n <= Len(added) /\ width \in Nat \ {0}
      /\ W!padHeight \in Nat /\ added \in Seq(Message) /\ occLines \in Nat
      /\ printed \in Seq(Nat) /\ DOMAIN printed = 1 .. n
  BY <1>1, WindowFacts, LenProperties DEF PrintedInv, WindowTypes
<1>3. \A i \in 1 .. n : printed[i] = Len(added) - n + i
  BY <1>1 DEF PrintedInv, Run
<1>4. Narrow(added, n, width)
  BY <1>2, <1>3 DEF Narrow, W!NothingIsCut
<1>5. rows = occLines
  BY <1>1, <1>2, <1>4 DEF RowsInv, W!OnPad, W!NothingIsCut
<1>6. \A i \in 1 .. n : added[printed[i]] \in Message
  <2> TAKE i \in 1 .. n
  <2>1. Len(added) - n + i \in 1 .. Len(added)
    BY <1>2
  <2> QED
    BY <1>2, <1>3, <2>1, ElementOfSeq
<1>7. f \in [1 .. n -> Nat]
  BY <1>2, <1>6, OneMessage
<1>8. f = [i \in 1 .. n |-> W!Drawn(added[Len(added) - n + i], width)]
  BY <1>3
<1>9. W!SumFunction(f) = occLines /\ occLines <= W!padHeight
  <2>1. W!SumFunction(f) = RowsFor(added, n, width)
    BY <1>8 DEF RowsFor
  <2>2. RowsFor(added, n, width) = Counted(added, n, width)
    BY <1>2, <1>4, RunSums
  <2> QED
    BY <2>1, <2>2, <1>1 DEF RowsInv, W!NothingIsCut
<1>10. ASSUME NEW k \in 1 .. n
       PROVE  W!RowsOf(SubSeq(printed, 1, k), width) <= W!padHeight
  <2> DEFINE s == SubSeq(printed, 1, k)
             g == [i \in 1 .. k |-> f[i]]
  <2>1. Len(s) = k /\ DOMAIN s = 1 .. k /\ \A i \in 1 .. k : s[i] = printed[i]
    BY <1>2
  <2>2. [i \in DOMAIN s |-> W!Drawn(added[s[i]], width)] = g
    <3> HIDE DEF s
    <3> QED
      BY <2>1
  <2> HIDE DEF s, f
  <2>0. k \in Nat /\ k <= n /\ n \in Nat
    <3>1. n \in Nat
      BY <1>2
    <3> HIDE DEF n
    <3> QED
      BY <3>1
  <2>3. W!RowsOf(s, width) = W!SumFunction(g)
    BY <2>2 DEF W!RowsOf
  <2>4. W!SumFunction(g) <= W!SumFunction(f)
    <3> HIDE DEF n
    <3> QED
      BY <2>0, <1>7, PrefixSum
  <2>5. W!SumFunction(g) \in Nat
    <3>1. g \in [1 .. k -> Nat]
      <4> HIDE DEF n
      <4>1. \A i \in 1 .. k : f[i] \in Nat
        BY <1>7, <2>0
      <4> QED
        BY <4>1
    <3> HIDE DEF g
    <3> QED
      BY <2>0, <3>1, SumIsNat
  <2>6. W!SumFunction(g) <= W!padHeight
    <3> HIDE DEF g
    <3> QED
      BY <1>2, <1>9, <2>4, <2>5
  <2> QED
    BY <2>3, <2>6 DEF s
<1> DEFINE whole == {i \in DOMAIN printed :
                      W!RowsOf(SubSeq(printed, 1, i), width) <= W!padHeight}
<1>11. whole = 1 .. n
  BY <1>2, <1>10
<1>12. W!drawn = [i \in whole |-> printed[i]]
  BY DEF W!drawn, W!Restrict
<1> HIDE DEF whole
<1>13. [i \in whole |-> printed[i]] = printed
  <2> HIDE DEF n
  <2> QED
    BY <1>2, <1>11
<1> QED
  BY <1>5, <1>12, <1>13

\* Wherever the ring wraps, and however often the pad is erased, the latest
\* messages are printed on it, each once and in order, and while the program's
\* count is within the pad and no header fills a line all of them are there to
\* be seen (addMsg, appendMsgWin, shiftPad, replayMessages).
THEOREM PadIsTheLatest == PartsSpec => []PadShowsTheLatest
<1>1. WindowInv => PadShowsTheLatest
  <2> SUFFICES ASSUME WindowInv PROVE W!PadShowsTheLatest
    BY DEF PadShowsTheLatest
  <2>1. WindowTypes /\ RingInv /\ PrintedInv
    BY DEF WindowInv
  <2>2. W!Ring = Run(Len(added), Len(msgBuf)) /\ Len(added) \in Nat
        /\ Len(msgBuf) \in Nat /\ Len(msgBuf) <= Len(added) /\ Len(printed) \in Nat
    BY <2>1, RunOfAll, WindowFacts
  <2>3. Len(W!Ring) = Len(msgBuf) /\ Len(printed) >= Len(W!Ring)
    BY <2>1, <2>2, RunProperties DEF PrintedInv
  <2>4. W!Consecutive(printed)
    BY <2>1 DEF PrintedInv, Run, W!Consecutive
  <2>5. W!Consecutive(W!Ring)
    <3>1. W!Ring = Run(Len(added), Len(W!Ring))
      BY <2>2, <2>3
    <3>2. \A s : s = Run(Len(added), Len(s)) => W!Consecutive(s)
      BY DEF Run, W!Consecutive
    <3> QED
      BY <3>1, <3>2
  <2>6. W!NothingIsCut => W!Consecutive(W!drawn) /\ Len(W!drawn) >= Len(W!Ring)
    <3> SUFFICES ASSUME W!NothingIsCut
                 PROVE  W!Consecutive(W!drawn) /\ Len(W!drawn) >= Len(W!Ring)
      OBVIOUS
    <3>1. W!drawn = printed
      BY AllIsDrawn
    <3> QED
      BY <2>3, <2>4, <3>1
  <2>7. Len(W!Ring) = IF Len(added) < MAX_MSG_BUF THEN Len(added) ELSE MAX_MSG_BUF
    BY <2>1, <2>3 DEF RingInv
  <2> QED
    BY <2>3, <2>4, <2>5, <2>6, <2>7 DEF W!PadShowsTheLatest
<1> QED
  BY <1>1, WindowRuns, WindowInvariance, PTL

\* occLines, which the test for a full pad and all scrolling go by, is the
\* number of rows that are written, while no header fills a line; and it stays
\* within the pad if the ring and a message more fit on it (appendMsgWin,
\* replayMessages).
THEOREM OccLinesAreRows == PartsSpec => []RowsAgree
<1>1. WindowInv => RowsAgree
  <2> SUFFICES ASSUME WindowInv PROVE W!RowsAgree
    BY DEF RowsAgree
  <2>1. WindowTypes /\ RingInv /\ PrintedInv /\ RowsInv
    BY DEF WindowInv
  <2>2. W!LinesOf(W!Ring, width) = Counted(added, Len(msgBuf), width)
    BY <2>1, Replayed
  <2>3. W!Longest = LongestOf(width)
    BY DEF W!Longest, LongestOf
  <2>4. ASSUME \A i \in DOMAIN printed : added[printed[i]].header < width
        PROVE  Narrow(added, Len(printed), width)
    <3> SUFFICES ASSUME NEW i \in 1 .. Len(printed)
                 PROVE  added[Len(added) - Len(printed) + i].header < width
      BY DEF Narrow
    <3>1. DOMAIN printed = 1 .. Len(printed)
      BY <2>1, LenProperties DEF WindowTypes
    <3>2. printed[i] = Len(added) - Len(printed) + i
      BY <2>1 DEF PrintedInv, Run
    <3>3. added[printed[i]].header < width
      BY <2>4, <3>1
    <3> QED
      BY <3>2, <3>3
  <2> QED
    BY <2>1, <2>2, <2>3, <2>4 DEF RowsInv, W!RowsAgree
<1> QED
  BY <1>1, WindowRuns, WindowInvariance, PTL

\* The view stays within the lines the program counts, and shows no empty row
\* while lines are scrolled out of it; while nothing is cut it ends at a row of
\* the pad that is written on (scrollUp, scrollDown, scrollBottom, redrawMsgWin).
THEOREM ViewKeepsFull == PartsSpec => []ViewIsFull
<1>1. WindowInv => ViewIsFull
  <2> SUFFICES ASSUME WindowInv PROVE W!ViewIsFull
    BY DEF ViewIsFull
  <2>1. ViewInv
    BY DEF WindowInv
  <2>2. W!NothingIsCut => rows = occLines
    BY AllIsDrawn
  <2> QED
    BY <2>1, <2>2 DEF ViewInv, W!ViewIsFull
<1> QED
  BY <1>1, WindowRuns, WindowInvariance, PTL

-----------------------------------------------------------------------------
(***************************************************************************)
(* The form's check of an address, and what connect() needs.               *)
(***************************************************************************)
LEMMA FormNames ==
    /\ \A s, P : C!Only(s, P) = Only(s, P)
    /\ \A f : C!SumFunction(f) = W!SumFunction(f)
<1>1. \A s, P : C!Only(s, P) = Only(s, P)
  BY DEF C!Only, Only
<1>2. ASSUME NEW f
      PROVE  C!SumFunction(f) = W!SumFunction(f)
  <2>1. C!SumFunction(f) = Sums(f, DOMAIN f)[DOMAIN f]
    BY DEF C!SumFunction, C!SumFunctionOnSet, C!FoldFunctionOnSet, C!MapThenFoldSet,
           Sums, IsSums, Some
  <2> QED
    BY <2>1, SumIsASum
<1> QED
  BY <1>1, <1>2

\* An address without empty octets is what its tokens are.
LEMMA AllTokens ==
    ASSUME NEW addr \in Seq(C!Octet), \A i \in 1 .. Len(addr) : addr[i].len # 0
    PROVE  C!octetTokenize(addr) = addr
<1>1. PICK P : P = {octet \in C!Octet : octet.len > 0}
  OBVIOUS
<1>2. addr \in Seq(P)
  <2>1. ASSUME NEW i \in 1 .. Len(addr) PROVE addr[i] \in P
    <3>1. addr[i] \in C!Octet
      OBVIOUS
    <3>2. addr[i].len \in Nat /\ addr[i].len # 0
      BY <3>1 DEF C!Octet
    <3> QED
      BY <1>1, <3>1, <3>2
  <2>2. addr \in [1 .. Len(addr) -> P] /\ Len(addr) \in Nat
    BY <2>1
  <2> QED
    BY <2>2
<1>3. Only(addr, P) = addr
  BY <1>2, OnlyAll
<1> QED
  BY <1>1, <1>3, FormNames DEF C!octetTokenize

\* Four octets of one to three digits are an address of 7 to 15 characters.
LEMMA FourOctets ==
    ASSUME NEW addr \in Seq(C!Octet), Len(addr) = 4,
           \A i \in 1 .. 4 : addr[i].len \in 1 .. 3
    PROVE  C!length(addr) \in 7 .. 15
<1>1. PICK f : f = [i \in 1 .. 4 |-> addr[i].len]
  OBVIOUS
<1>2. /\ f \in [1 .. 4 -> Nat] /\ DOMAIN addr = 1 .. 4
      /\ \A i \in 1 .. 4 : f[i] \in 1 .. 3
  BY <1>1
<1> DEFINE Upto(n) == W!SumFunction([i \in 1 .. n |-> f[i]])
<1>3. ASSUME NEW n \in 0 .. 3
      PROVE  Upto(n) \in Nat /\ Upto(n + 1) = f[n + 1] + Upto(n)
  <2>1. PICK g : g = [i \in 1 .. n + 1 |-> f[i]]
    OBVIOUS
  <2>2. \A i \in 1 .. n + 1 : i \in 1 .. 4
    OBVIOUS
  <2>3. /\ n \in Nat /\ g \in [1 .. n + 1 -> Nat] /\ g[n + 1] = f[n + 1]
        /\ [i \in 1 .. n |-> g[i]] = [i \in 1 .. n |-> f[i]]
    BY <1>2, <2>1, <2>2
  <2>4. /\ W!SumFunction([i \in 1 .. n |-> g[i]]) \in Nat
        /\ W!SumFunction(g) = g[n + 1] + W!SumFunction([i \in 1 .. n |-> g[i]])
    BY <2>3, SumLast
  <2> QED
    BY <2>1, <2>3, <2>4
<1>4. Upto(0) = 0
  BY SumOfNone
<1> HIDE DEF Upto
<1>5. Upto(4) \in 4 .. 12
  <2>1. Upto(1) = f[1] + Upto(0)
    BY <1>3
  <2>2. Upto(2) = f[2] + Upto(1)
    BY <1>3
  <2>3. Upto(3) = f[3] + Upto(2)
    BY <1>3
  <2>4. Upto(4) = f[4] + Upto(3)
    BY <1>3
  <2>5. f[1] \in 1 .. 3 /\ f[2] \in 1 .. 3 /\ f[3] \in 1 .. 3 /\ f[4] \in 1 .. 3
    BY <1>2
  <2> QED
    BY <1>4, <2>1, <2>2, <2>3, <2>4, <2>5
<1>6. Upto(4) = W!SumFunction(f)
  <2>1. [i \in 1 .. 4 |-> f[i]] = f
    BY <1>2
  <2> QED
    BY <2>1 DEF Upto
<1>7. C!length(addr) = C!SumFunction(f) + 4 - 1
  BY <1>1, <1>2 DEF C!length
<1> QED
  BY <1>5, <1>6, <1>7, FormNames

\* What connect() can use is taken as it was typed.
LEMMA RightTaken == C!RightIsTaken
<1> SUFFICES ASSUME NEW f \in C!Fields, C!Right(f)
             PROVE  C!checkCliInfo(f) /\ C!updateConnInfo(f) = f
  BY DEF C!RightIsTaken
<1>1. /\ f.addr \in Addr /\ f.addr \in Seq(C!Octet)
      /\ f = [addr |-> f.addr, port |-> f.port, username |-> f.username]
  BY FormAssumption DEF C!Fields
<1>2. /\ C!inet_pton(f.addr)
      /\ f.port \in Int /\ f.port > 0 /\ f.port <= 65535
      /\ f.username \in 1 .. NAMELEN
  BY DEF C!Right
<1>3. /\ Len(f.addr) = 4
      /\ \A i \in 1 .. 4 : f.addr[i].len \in 1 .. 3 /\ f.addr[i].value <= 255
  BY <1>2 DEF C!inet_pton
<1>4. C!octetTokenize(f.addr) = f.addr
  <2>1. \A i \in 1 .. Len(f.addr) : f.addr[i].len # 0
    BY <1>3
  <2> QED
    BY <1>1, <2>1, AllTokens
<1>5. C!length(f.addr) \in 7 .. 15
  BY <1>1, <1>3, FourOctets
<1>6. C!validateIpv4(f.addr)
  <2>1. DOMAIN f.addr = 1 .. 4 /\ Len(f.addr) \in 4 .. 5
    BY <1>1, <1>3
  <2>2. \A i \in 1 .. 4 : f.addr[i].len <= 3
    BY <1>3
  <2> QED
    BY <1>3, <1>4, <1>5, <2>1, <2>2 DEF C!validateIpv4
<1>7. C!checkCliInfo(f)
  <2>1. f.addr # <<>>
    BY <1>3
  <2> QED
    BY <1>2, <1>6, <2>1 DEF C!checkCliInfo
<1>8. f.port # NoNumber /\ C!uint16(f.port) = f.port
  BY <1>2, Cut, FormAssumption
<1> QED
  BY <1>1, <1>7, <1>8 DEF C!updateConnInfo

\* What inet_pton() takes the form takes and leaves unchanged, and what is
\* dialled though inet_pton() does not take it has five octets, an empty octet
\* or a leading zero (validateIpv4, networkStart).
THEOREM OnlyMisreadAddresses == PartsSpec => []OnlyMisreadIsDialed
<1>1. FormInv => OnlyMisreadIsDialed
  <2> SUFFICES ASSUME FormInv, phase \in {"chat", "reconnect"},
                      ~C!Misread(clientInfo.addr)
               PROVE  C!inet_pton(clientInfo.addr)
    BY RightTaken DEF OnlyMisreadIsDialed, C!OnlyMisreadIsDialed
  <2>1. PICK addr : addr = clientInfo.addr
    OBVIOUS
  <2>2. /\ addr # <<>> /\ C!validateIpv4(addr)
    BY <2>1 DEF FormInv, C!checkCliInfo
  <2>3. addr \in Seq(C!Octet)
    BY <2>1, <2>2, FormAssumption DEF FormInv, FormTypes, C!Info
  <2>4. /\ Len(C!octetTokenize(addr)) # 5 /\ DOMAIN addr = 1 .. Len(addr)
        /\ \A i \in 1 .. Len(addr) : addr[i].len # 0 /\ ~C!LeadingZero(addr[i])
    BY <2>1, <2>3 DEF C!Misread
  <2>5. C!octetTokenize(addr) = addr
    BY <2>3, <2>4, AllTokens
  <2>6. Len(addr) = 4
    <3>1. Len(addr) \in 4 .. 5
      BY <2>2, <2>5 DEF C!validateIpv4
    <3> QED
      BY <2>4, <2>5, <3>1
  <2>7. \A i \in 1 .. 4 : addr[i].len <= 3 /\ addr[i].value <= 255
    BY <2>2, <2>4, <2>5, <2>6 DEF C!validateIpv4
  <2>8. \A i \in 1 .. 4 : addr[i].len \in 1 .. 3
    <3>1. \A i \in 1 .. 4 : addr[i] \in C!Octet
      <4>1. \A i \in 1 .. Len(addr) : addr[i] \in C!Octet
        BY <2>3
      <4> QED
        BY <2>6, <4>1
    <3>2. \A octet \in C!Octet : octet.len \in Nat
      BY DEF C!Octet
    <3> QED
      BY <2>4, <2>6, <2>7, <3>1, <3>2
  <2> QED
    BY <2>1, <2>4, <2>6, <2>7, <2>8 DEF C!inet_pton
<1> QED
  BY <1>1, FormRuns, FormInvariance, PTL

-----------------------------------------------------------------------------
(***************************************************************************)
(* History.  What the server has logged, and what the client has received, *)
(* are sequences of records; all there is to say of them is how two of a   *)
(* sequence are ordered, and what comes before a message of others.        *)
(***************************************************************************)
Recs(s) == {s[i] : i \in 1 .. Len(s)}

\* Of two records in this order, the second is no older, unless the first is
\* the client's own: that one may have the time of another clock.
Before(a, b) == ~a.own => a.ts <= b.ts /\ (~b.own => a.id < b.id)

InOrder(s) ==
    \A i, j \in 1 .. Len(s) : i < j => Before(s[i], s[j])

Logged == files \o servQueue
Seen == Recs(Logged) \cup Recs(H!Received)

Known(r) == ~r.own => r.id <= count /\ DayLength <= r.ts /\ r.ts <= now

\* Of two messages of others the later has the later time.
Monotone(R) == \A a, b \in R : ~a.own /\ ~b.own /\ a.id <= b.id => a.ts <= b.ts

\* The losses GapsAreExplained allows, and what the server has beyond them.
Explained(m, h) ==
    \E j \in 1 .. Len(h) : \/ h[j].own /\ h[j].ts >= m.ts
                           \/ h[j].id # m.id /\ h[j].ts = m.ts
Due(R, h, p) == {m \in R : ~m.own /\ m.id \notin p /\ ~Explained(m, h)}

\* Before a message of others, s has all of D that are older, but for X.
Gapless(s, X, D) ==
    \A k \in 1 .. Len(s), m \in D :
        ~s[k].own /\ m.id < s[k].id =>
            m.id \in X \/ \E i \in 1 .. k - 1 : s[i].id = m.id

IdsOf(R) == {r.id : r \in R}

HistoryTypes == H!TypeOK /\ DayLength <= now

\* A client that dials has said the time of a record it has, and all it has
\* are no newer, unless it raced or its clock is behind.
ConnInv ==
    /\ conn # "in" => down = <<>>
    /\ conn = "dialing" =>
        /\ since = 0 \/ \E j \in 1 .. Len(history) : history[j].ts = since
        /\ skew >= 0 /\ ~raced =>
            /\ cliQueue = <<>>
            /\ \A r \in Recs(history) : ~r.own => r.ts <= since

GapInv ==
    LET D == Due(Recs(Logged), history, passed) IN
        /\ Gapless(H!Received, {}, D)
        /\ conn = "in" => \A m \in D : m.id \in IdsOf(Recs(H!Received))

RecordsInv ==
    /\ InOrder(Logged)
    /\ \A r \in Seen : Known(r)
    /\ Monotone(Seen)
    /\ skew >= 0 /\ ~raced => InOrder(H!Received)
    /\ GapInv

HistoryInv == HistoryTypes /\ ConnInv /\ RecordsInv

\* The records of a join, and of a part.
LEMMA RecsJoin ==
    ASSUME NEW S, NEW s \in Seq(S), NEW t \in Seq(S)
    PROVE  /\ s \o t \in Seq(S)
           /\ Recs(s \o t) = Recs(s) \cup Recs(t)
<1>1. PICK u, m, n : u = s \o t /\ m = Len(s) /\ n = Len(t)
  OBVIOUS
<1>2. /\ u \in Seq(S) /\ m \in Nat /\ n \in Nat /\ Len(u) = m + n
      /\ \A i \in 1 .. m : u[i] = s[i]
      /\ \A i \in 1 .. n : u[m + i] = t[i]
  BY <1>1
<1>3. \A i \in 1 .. m + n : i \in 1 .. m \/ \E j \in 1 .. n : i = m + j
  <2>1. ASSUME NEW i \in 1 .. m + n, i \notin 1 .. m
        PROVE  i - m \in 1 .. n /\ i = m + (i - m)
    BY <2>1, <1>2
  <2> QED
    BY <2>1
<1>4. Recs(u) = Recs(s) \cup Recs(t)
  <2>1. ASSUME NEW i \in 1 .. m + n
        PROVE  u[i] \in Recs(s) \cup Recs(t)
    <3>1. CASE i \in 1 .. m
      BY <3>1, <1>1, <1>2 DEF Recs
    <3>2. CASE \E j \in 1 .. n : i = m + j
      BY <3>2, <1>1, <1>2 DEF Recs
    <3> QED
      BY <3>1, <3>2, <1>3
  <2>2. \A i \in 1 .. m : i \in 1 .. m + n
    BY <1>2
  <2>3. \A i \in 1 .. n : m + i \in 1 .. m + n
    BY <1>2
  <2>4. Recs(s) \subseteq Recs(u)
    BY <1>1, <1>2, <2>2 DEF Recs
  <2>5. Recs(t) \subseteq Recs(u)
    BY <1>1, <1>2, <2>3 DEF Recs
  <2> QED
    BY <1>2, <2>1, <2>4, <2>5 DEF Recs
<1> QED
  BY <1>1, <1>2, <1>4

LEMMA RecsEnds ==
    ASSUME NEW S, NEW s \in Seq(S)
    PROVE  /\ Recs(<<>>) = {}
           /\ Recs(s) \subseteq S
           /\ \A x \in S : Append(s, x) \in Seq(S) /\ Recs(Append(s, x)) = Recs(s) \cup {x}
           /\ s # <<>> => /\ Head(s) \in Recs(s) /\ Tail(s) \in Seq(S)
                          /\ Recs(Tail(s)) \subseteq Recs(s)
<1>1. Recs(<<>>) = {}
  BY DEF Recs
<1>2. Recs(s) \subseteq S
  BY DEF Recs
<1>3. ASSUME NEW x \in S
      PROVE  Append(s, x) \in Seq(S) /\ Recs(Append(s, x)) = Recs(s) \cup {x}
  <2>1. PICK u, n : u = Append(s, x) /\ n = Len(s)
    OBVIOUS
  <2>2. /\ u \in Seq(S) /\ n \in Nat /\ Len(u) = n + 1 /\ u[n + 1] = x
        /\ \A i \in 1 .. n : u[i] = s[i]
    BY <2>1
  <2>3. /\ \A i \in 1 .. n + 1 : i \in 1 .. n \/ i = n + 1
        /\ \A i \in 1 .. n : i \in 1 .. n + 1
        /\ n + 1 \in 1 .. n + 1
    BY <2>2
  <2> QED
    BY <2>1, <2>2, <2>3 DEF Recs
<1>4. ASSUME s # <<>>
      PROVE  /\ Head(s) \in Recs(s) /\ Tail(s) \in Seq(S)
             /\ Recs(Tail(s)) \subseteq Recs(s)
  <2>1. PICK u, n : u = Tail(s) /\ n = Len(s)
    OBVIOUS
  <2>2. /\ u \in Seq(S) /\ n \in Nat \ {0} /\ Len(u) = n - 1 /\ Head(s) = s[1]
        /\ \A i \in 1 .. n - 1 : u[i] = s[i + 1]
    BY <1>4, <2>1
  <2>3. 1 \in 1 .. n /\ \A i \in 1 .. n - 1 : i + 1 \in 1 .. n
    BY <2>2
  <2> QED
    BY <2>1, <2>2, <2>3 DEF Recs
<1> QED
  BY <1>1, <1>2, <1>3, <1>4

\* A record moves from the head of one sequence to the end of the other.
LEMMA ShiftJoin ==
    ASSUME NEW S, NEW s \in Seq(S), NEW t \in Seq(S), t # <<>>
    PROVE  Append(s, Head(t)) \o Tail(t) = s \o t
<1>1. PICK a, b, m, n : /\ a = Append(s, Head(t)) \o Tail(t) /\ b = s \o t
                        /\ m = Len(s) /\ n = Len(t)
  OBVIOUS
<1>2. /\ m \in Nat /\ n \in Nat \ {0} /\ Head(t) = t[1] /\ t[1] \in S
      /\ Tail(t) \in Seq(S) /\ Len(Tail(t)) = n - 1
      /\ \A i \in 1 .. n - 1 : Tail(t)[i] = t[i + 1]
  BY <1>1
<1>3. PICK u, v : u = Append(s, Head(t)) /\ v = Tail(t)
  OBVIOUS
<1>4. /\ u \in Seq(S) /\ Len(u) = m + 1 /\ u[m + 1] = t[1]
      /\ \A i \in 1 .. m : u[i] = s[i]
  BY <1>1, <1>2, <1>3
<1>5. a = u \o v /\ v \in Seq(S) /\ Len(v) = n - 1 /\ \A i \in 1 .. n - 1 : v[i] = t[i + 1]
  BY <1>1, <1>2, <1>3
<1>6. a \in Seq(S) /\ Len(a) = m + n /\ b \in Seq(S) /\ Len(b) = m + n
  BY <1>1, <1>2, <1>4, <1>5
<1>7. ASSUME NEW i \in 1 .. m + n PROVE a[i] = b[i]
  <2>1. CASE i <= m
    <3>1. i \in 1 .. m /\ i <= Len(u)
      BY <2>1, <1>2, <1>4
    <3>2. a[i] = u[i] /\ b[i] = s[i]
      BY <3>1, <1>1, <1>2, <1>4, <1>5
    <3> QED
      BY <3>1, <3>2, <1>4
  <2>2. CASE i = m + 1
    <3>1. a[i] = u[i] /\ b[i] = t[1]
      BY <2>2, <1>1, <1>2, <1>4, <1>5
    <3> QED
      BY <3>1, <2>2, <1>4
  <2>3. CASE i > m + 1
    <3>1. PICK j : j = i - (m + 1)
      OBVIOUS
    <3>2. j \in 1 .. n - 1 /\ i - m = j + 1 /\ i = (m + 1) + j
      BY <3>1, <2>3, <1>2
    <3>3. a[i] = v[j]
      BY <3>2, <1>2, <1>4, <1>5
    <3>4. b[i] = t[j + 1]
      BY <3>2, <1>1, <1>2
    <3> QED
      BY <3>2, <3>3, <3>4, <1>5
  <2> QED
    BY <2>1, <2>2, <2>3, <1>2
<1>8. a = b
  BY <1>6, <1>7, SeqEqual
<1> QED
  BY <1>1, <1>8

\* A join is in order when its parts are, and each record of the first is
\* before each of the second.
LEMMA OrderJoin ==
    ASSUME NEW S, NEW s \in Seq(S), NEW t \in Seq(S)
    PROVE  InOrder(s \o t) <=>
                /\ InOrder(s) /\ InOrder(t)
                /\ \A a \in Recs(s), b \in Recs(t) : Before(a, b)
<1>1. PICK u, m, n : u = s \o t /\ m = Len(s) /\ n = Len(t)
  OBVIOUS
<1>2. /\ u \in Seq(S) /\ m \in Nat /\ n \in Nat /\ Len(u) = m + n
      /\ \A i \in 1 .. m : u[i] = s[i]
      /\ \A i \in 1 .. n : u[m + i] = t[i]
  BY <1>1
<1>3. ASSUME InOrder(u)
      PROVE  /\ InOrder(s) /\ InOrder(t)
             /\ \A a \in Recs(s), b \in Recs(t) : Before(a, b)
  <2>1. \A i, j \in 1 .. m + n : i < j => Before(u[i], u[j])
    BY <1>2, <1>3 DEF InOrder
  <2>2. ASSUME NEW i \in 1 .. m, NEW j \in 1 .. m, i < j
        PROVE  Before(s[i], s[j])
    <3>1. i \in 1 .. m + n /\ j \in 1 .. m + n
      BY <1>2
    <3>2. Before(u[i], u[j])
      BY <2>1, <2>2, <3>1
    <3> QED
      BY <3>2, <1>2
  <2>3. ASSUME NEW i \in 1 .. n, NEW j \in 1 .. n, i < j
        PROVE  Before(t[i], t[j])
    <3>1. m + i \in 1 .. m + n /\ m + j \in 1 .. m + n /\ m + i < m + j
      BY <1>2, <2>3
    <3>2. Before(u[m + i], u[m + j])
      BY <2>1, <3>1
    <3> QED
      BY <3>2, <1>2
  <2>4. ASSUME NEW i \in 1 .. m, NEW j \in 1 .. n
        PROVE  Before(s[i], t[j])
    <3>1. i \in 1 .. m + n /\ m + j \in 1 .. m + n /\ i < m + j
      BY <1>2
    <3>2. Before(u[i], u[m + j])
      BY <2>1, <3>1
    <3> QED
      BY <3>2, <1>2
  <2>5. \A a \in Recs(s), b \in Recs(t) : Before(a, b)
    BY <1>1, <2>4 DEF Recs
  <2>6. InOrder(s) /\ InOrder(t)
    BY <1>1, <2>2, <2>3 DEF InOrder
  <2> QED
    BY <2>5, <2>6
<1>4. ASSUME InOrder(s), InOrder(t),
             \A a \in Recs(s), b \in Recs(t) : Before(a, b)
      PROVE  InOrder(u)
  <2>1. ASSUME NEW i \in 1 .. m + n, NEW j \in 1 .. m + n, i < j
        PROVE  Before(u[i], u[j])
    <3>1. CASE j <= m
      <4>1. i \in 1 .. m /\ j \in 1 .. m
        BY <3>1, <2>1, <1>2
      <4>2. Before(s[i], s[j])
        BY <4>1, <2>1, <1>1, <1>4 DEF InOrder
      <4> QED
        BY <4>1, <4>2, <1>2
    <3>2. CASE i > m
      <4>1. PICK k, l : k = i - m /\ l = j - m
        OBVIOUS
      <4>2. k \in 1 .. n /\ l \in 1 .. n /\ k < l /\ i = m + k /\ j = m + l
        BY <4>1, <3>2, <2>1, <1>2
      <4>3. Before(t[k], t[l])
        BY <4>2, <1>1, <1>4 DEF InOrder
      <4>4. u[i] = t[k] /\ u[j] = t[l]
        BY <4>2, <1>2
      <4> QED
        BY <4>3, <4>4
    <3>3. CASE i <= m /\ j > m
      <4>1. PICK l : l = j - m
        OBVIOUS
      <4>2. i \in 1 .. m /\ l \in 1 .. n /\ j = m + l
        BY <4>1, <3>3, <1>2
      <4>3. s[i] \in Recs(s) /\ t[l] \in Recs(t)
        BY <4>2, <1>1 DEF Recs
      <4>4. u[i] = s[i] /\ u[j] = t[l]
        BY <4>2, <1>2
      <4> QED
        BY <4>3, <4>4, <1>4
    <3> QED
      BY <3>1, <3>2, <3>3, <2>1, <1>2
  <2> QED
    BY <1>2, <2>1 DEF InOrder
<1> QED
  BY <1>1, <1>3, <1>4

LEMMA OrderEnds ==
    ASSUME NEW S, NEW s \in Seq(S)
    PROVE  /\ InOrder(<<>>)
           /\ \A x \in S : InOrder(Append(s, x)) <=>
                InOrder(s) /\ \A a \in Recs(s) : Before(a, x)
<1>1. InOrder(<<>>)
  BY DEF InOrder
<1>2. ASSUME NEW x \in S
      PROVE  InOrder(Append(s, x)) <=>
                InOrder(s) /\ \A a \in Recs(s) : Before(a, x)
  <2>1. <<x>> \in Seq(S) /\ Len(<<x>>) = 1 /\ <<x>>[1] = x
    OBVIOUS
  <2>2. InOrder(<<x>>)
    BY <2>1 DEF InOrder
  <2>3. Recs(<<x>>) = {x}
    BY <2>1 DEF Recs
  <2>4. Append(s, x) = s \o <<x>>
    OBVIOUS
  <2>5. InOrder(s \o <<x>>) <=>
            /\ InOrder(s) /\ InOrder(<<x>>)
            /\ \A a \in Recs(s), b \in Recs(<<x>>) : Before(a, b)
    BY <2>1, OrderJoin
  <2> QED
    BY <2>2, <2>3, <2>4, <2>5
<1> QED
  BY <1>1, <1>2

\* What Only picks is what is in the set, in the order it was in.
LEMMA OnlyRecs ==
    ASSUME NEW S, NEW s \in Seq(S), NEW P
    PROVE  /\ Only(s, P) \in Seq(S)
           /\ Recs(Only(s, P)) = Recs(s) \cap P
           /\ InOrder(s) => InOrder(Only(s, P))
<1> DEFINE T == {u \in Seq(S) : /\ Recs(Only(u, P)) = Recs(u) \cap P
                                /\ InOrder(u) => InOrder(Only(u, P))}
<1>1. <<>> \in T
  <2>1. <<>> \in Seq(S) /\ Only(<<>>, P) = <<>>
    BY OnlyEmpty
  <2>2. Recs(<<>>) = {}
    BY DEF Recs
  <2> QED
    BY <2>1, <2>2
<1>2. ASSUME NEW u \in Seq(S), NEW p \in S, u \in T
      PROVE  Append(u, p) \in T
  <2>1. PICK v, w : v = Only(u, P) /\ w = Append(u, p)
    OBVIOUS
  <2>2. /\ v \in Seq(S) /\ Recs(v) = Recs(u) \cap P
        /\ InOrder(u) => InOrder(v)
    BY <1>2, <2>1, OnlyType
  <2>3. /\ w \in Seq(S) /\ Recs(w) = Recs(u) \cup {p}
        /\ InOrder(w) <=> InOrder(u) /\ \A a \in Recs(u) : Before(a, p)
    BY <2>1, RecsEnds, OrderEnds
  <2>4. /\ Recs(Append(v, p)) = Recs(v) \cup {p}
        /\ InOrder(Append(v, p)) <=> InOrder(v) /\ \A a \in Recs(v) : Before(a, p)
    BY <2>2, RecsEnds, OrderEnds
  <2>5. Only(w, P) = IF p \in P THEN Append(v, p) ELSE v
    BY <2>1, OnlyAppend
  <2>6. CASE p \in P
    BY <2>2, <2>3, <2>4, <2>5, <2>6, <2>1
  <2>7. CASE p \notin P
    BY <2>2, <2>3, <2>5, <2>7, <2>1
  <2> QED
    BY <2>6, <2>7
<1>3. Only(s, P) \in Seq(S)
  BY OnlyType
<1> HIDE DEF T
<1>4. Seq(S) \subseteq T
  BY <1>1, <1>2, SeqInd
<1> QED
  BY <1>3, <1>4 DEF T

\* Gapless, part by part.
LEMMA GaplessJoin ==
    ASSUME NEW S, NEW s \in Seq(S), NEW t \in Seq(S), NEW X, NEW D
    PROVE  Gapless(s \o t, X, D) <=>
                Gapless(s, X, D) /\ Gapless(t, X \cup IdsOf(Recs(s)), D)
<1>1. PICK u, m, n : u = s \o t /\ m = Len(s) /\ n = Len(t)
  OBVIOUS
<1>2. /\ u \in Seq(S) /\ m \in Nat /\ n \in Nat /\ Len(u) = m + n
      /\ \A i \in 1 .. m : u[i] = s[i]
      /\ \A i \in 1 .. n : u[m + i] = t[i]
  BY <1>1
<1>n. m \in Nat /\ n \in Nat
  BY <1>2
<1>3. \A x : x \in IdsOf(Recs(s)) <=> \E i \in 1 .. m : s[i].id = x
  BY <1>1 DEF IdsOf, Recs
<1>4. ASSUME NEW k \in 1 .. m, NEW x
      PROVE  (\E i \in 1 .. k - 1 : u[i].id = x) <=> (\E i \in 1 .. k - 1 : s[i].id = x)
  <2>1. \A i \in 1 .. k - 1 : i \in 1 .. m
    BY <1>2
  <2> QED
    BY <2>1, <1>2
<1>5. ASSUME NEW k \in 1 .. n, NEW x
      PROVE  (\E i \in 1 .. (m + k) - 1 : u[i].id = x) <=>
                x \in IdsOf(Recs(s)) \/ \E i \in 1 .. k - 1 : t[i].id = x
  <2>1. ASSUME NEW i \in 1 .. (m + k) - 1, u[i].id = x
        PROVE  x \in IdsOf(Recs(s)) \/ \E j \in 1 .. k - 1 : t[j].id = x
    <3>1. CASE i <= m
      <4>1. i \in 1 .. m
        BY <3>1, <1>2
      <4> QED
        BY <4>1, <2>1, <1>2, <1>3
    <3>2. CASE i > m
      <4>1. PICK j : j = i - m
        OBVIOUS
      <4>2. j \in 1 .. k - 1 /\ j \in 1 .. n /\ i = m + j
        BY <4>1, <3>2, <1>n
      <4>3. u[i] = t[j]
        BY <4>2, <1>2
      <4> QED
        BY <4>2, <4>3, <2>1
    <3> QED
      BY <3>1, <3>2, <1>2
  <2>2. ASSUME x \in IdsOf(Recs(s))
        PROVE  \E i \in 1 .. (m + k) - 1 : u[i].id = x
    <3>1. PICK i \in 1 .. m : s[i].id = x
      BY <2>2, <1>3
    <3>2. i \in 1 .. (m + k) - 1
      BY <1>2
    <3> QED
      BY <3>1, <3>2, <1>2
  <2>3. ASSUME NEW j \in 1 .. k - 1, t[j].id = x
        PROVE  \E i \in 1 .. (m + k) - 1 : u[i].id = x
    <3>1. j \in 1 .. n /\ m + j \in 1 .. (m + k) - 1
      BY <1>2
    <3>2. u[m + j] = t[j]
      BY <3>1, <1>2
    <3> QED
      BY <3>1, <3>2, <2>3
  <2> QED
    BY <2>1, <2>2, <2>3
<1>6. ASSUME Gapless(u, X, D)
      PROVE  Gapless(s, X, D) /\ Gapless(t, X \cup IdsOf(Recs(s)), D)
  <2>1. ASSUME NEW k \in 1 .. m, NEW d \in D, ~s[k].own, d.id < s[k].id
        PROVE  d.id \in X \/ \E i \in 1 .. k - 1 : s[i].id = d.id
    <3>1. k \in 1 .. Len(u) /\ u[k] = s[k]
      BY <1>2
    <3>2. d.id \in X \/ \E i \in 1 .. k - 1 : u[i].id = d.id
      BY <3>1, <2>1, <1>6 DEF Gapless
    <3> QED
      BY <3>2, <1>4
  <2>2. ASSUME NEW k \in 1 .. n, NEW d \in D, ~t[k].own, d.id < t[k].id
        PROVE  d.id \in X \cup IdsOf(Recs(s)) \/ \E i \in 1 .. k - 1 : t[i].id = d.id
    <3>1. m + k \in 1 .. m + n /\ u[m + k] = t[k]
      BY <1>n, <1>2
    <3>2. d.id \in X \/ \E i \in 1 .. (m + k) - 1 : u[i].id = d.id
      BY <3>1, <2>2, <1>2, <1>6 DEF Gapless
    <3> QED
      BY <3>2, <1>5
  <2> QED
    BY <1>1, <2>1, <2>2 DEF Gapless
<1>7. ASSUME Gapless(s, X, D), Gapless(t, X \cup IdsOf(Recs(s)), D)
      PROVE  Gapless(u, X, D)
  <2>1. ASSUME NEW k \in 1 .. m + n, NEW d \in D, ~u[k].own, d.id < u[k].id
        PROVE  d.id \in X \/ \E i \in 1 .. k - 1 : u[i].id = d.id
    <3>1. CASE k <= m
      <4>1. k \in 1 .. m /\ u[k] = s[k]
        BY <3>1, <1>2
      <4>2. d.id \in X \/ \E i \in 1 .. k - 1 : s[i].id = d.id
        BY <4>1, <2>1, <1>1, <1>7 DEF Gapless
      <4> QED
        BY <4>1, <4>2, <1>4
    <3>2. CASE k > m
      <4>1. PICK j : j = k - m
        OBVIOUS
      <4>2. j \in 1 .. n /\ k = m + j
        BY <4>1, <3>2, <1>n
      <4>3. u[k] = t[j]
        BY <4>2, <1>2
      <4>4. d.id \in X \cup IdsOf(Recs(s)) \/ \E i \in 1 .. j - 1 : t[i].id = d.id
        BY <4>2, <4>3, <2>1, <1>1, <1>7 DEF Gapless
      <4> QED
        BY <4>2, <4>4, <1>5
    <3> QED
      BY <3>1, <3>2, <1>2
  <2> QED
    BY <1>2, <2>1 DEF Gapless
<1> QED
  BY <1>1, <1>6, <1>7

LEMMA GaplessLess ==
    ASSUME NEW s, NEW X, NEW D, NEW Y, NEW E, X \subseteq Y, E \subseteq D,
           Gapless(s, X, D)
    PROVE  Gapless(s, Y, E)
BY DEF Gapless

\* A new message of others leaves no gap where the older ones are there
\* already, and it is none before the older ones.
LEMMA GaplessNew ==
    ASSUME NEW S, NEW s \in Seq(S), NEW x \in S, NEW D,
           ~x.own => \A d \in D : d.id < x.id => d.id \in IdsOf(Recs(s)),
           Gapless(s, {}, D)
    PROVE  Gapless(Append(s, x), {}, D)
<1>1. <<x>> \in Seq(S) /\ Len(<<x>>) = 1 /\ <<x>>[1] = x
  OBVIOUS
<1>2. Gapless(<<x>>, {} \cup IdsOf(Recs(s)), D)
  BY <1>1 DEF Gapless
<1>3. Append(s, x) = s \o <<x>>
  OBVIOUS
<1>4. Gapless(s \o <<x>>, {}, D)
  BY <1>1, <1>2, GaplessJoin
<1> QED
  BY <1>3, <1>4

LEMMA DueLess ==
    ASSUME NEW S, NEW h \in Seq(S), NEW h2, NEW R, NEW R2, NEW p, NEW p2,
           R2 \subseteq R, p \subseteq p2,
           h2 = h \/ \E x \in S : h2 = Append(h, x)
    PROVE  Due(R2, h2, p2) \subseteq Due(R, h, p)
<1>1. \A j \in 1 .. Len(h) : j \in 1 .. Len(h2) /\ h2[j] = h[j]
  OBVIOUS
<1>2. \A m : Explained(m, h) => Explained(m, h2)
  BY <1>1 DEF Explained
<1> QED
  BY <1>2 DEF Due

\* The names of the module are those of this one.
LEMMA HistoryNames ==
    /\ \A s, P : H!Only(s, P) = Only(s, P)
    /\ \A s : s \in Seq(H!Record) => H!Ids(s) = IdsOf(Recs(s))
<1>1. \A s, P : H!Only(s, P) = Only(s, P)
  BY DEF H!Only, Only
<1>2. ASSUME NEW s, s \in Seq(H!Record)
      PROVE  H!Ids(s) = IdsOf(Recs(s))
  <2>1. DOMAIN s = 1 .. Len(s)
    BY <1>2
  <2> QED
    BY <2>1 DEF H!Ids, IdsOf, Recs
<1> QED
  BY <1>1, <1>2

LEMMA WeenedRecords ==
    ASSUME NEW s \in Seq(H!Record), NEW f \in H!WithoutOldest(s)
    PROVE  /\ f \in Seq(H!Record) /\ Recs(f) \subseteq Recs(s)
           /\ InOrder(s) => InOrder(f)
<1>1. PICK P : f = H!Only(s, P)
  BY DEF H!WithoutOldest
<1>2. f = Only(s, P)
  BY <1>1, HistoryNames
<1> QED
  BY <1>2, OnlyRecs

LEMMA SentBack ==
    ASSUME NEW s \in Seq(H!Record), NEW t
    PROVE  LET f == H!sendBackLogFiles(s, t) IN
           /\ f \in Seq(H!Record)
           /\ Recs(f) = {r \in Recs(s) : r.ts > t}
           /\ InOrder(s) => InOrder(f)
<1>1. PICK f, P : f = H!sendBackLogFiles(s, t) /\ P = {r \in H!Record : r.ts > t}
  OBVIOUS
<1>2. f = Only(s, P)
  BY <1>1, HistoryNames DEF H!sendBackLogFiles
<1>3. Recs(f) = Recs(s) \cap P
  BY <1>2, OnlyRecs
<1>4. Recs(s) \subseteq H!Record
  BY RecsEnds
<1>5. Recs(f) = {r \in Recs(s) : r.ts > t}
  BY <1>1, <1>3, <1>4
<1> QED
  BY <1>1, <1>2, <1>5, OnlyRecs

-----------------------------------------------------------------------------
LEMMA HistoryTypesNext ==
    ASSUME HistoryTypes, [H!Next]_H!vars
    PROVE  HistoryTypes'
<1> USE DEF HistoryTypes, H!TypeOK
<1>h. skew \in Int /\ DayLength \in Nat
  BY HistoryAssumption
<1>1. CASE H!OthersSay
  <2>1. count' \in Nat
    BY <1>1 DEF H!OthersSay
  <2>2. [id |-> count', own |-> FALSE, ts |-> now] \in H!Record
    BY <2>1 DEF H!Record
  <2> QED
    BY <1>1, <2>1, <2>2 DEF H!OthersSay, H!Broadcast, H!cliVars, H!histVars
<1>2. CASE H!Say
  <2>1. count' \in Nat
    BY <1>2 DEF H!Say
  <2>2. [id |-> count', own |-> TRUE, ts |-> now + skew] \in H!Record
    BY <1>h, <2>1 DEF H!Record
  <2> QED
    BY <1>2, <2>1, <2>2 DEF H!Say, H!servVars, H!histVars
<1>3. CASE H!clientBroadMsg
  <2>1. Head(up) \in Nat /\ Tail(up) \in Seq(Nat)
    BY <1>3 DEF H!clientBroadMsg
  <2>2. [id |-> Head(up), own |-> TRUE, ts |-> now] \in H!Record
    BY <2>1 DEF H!Record
  <2> QED
    BY <1>3, <2>1, <2>2 DEF H!clientBroadMsg, H!Broadcast, H!cliVars, H!histVars
<1>4. CASE H!serverBroadMsg
  BY <1>4 DEF H!serverBroadMsg, H!servVars, H!histVars
<1>5. CASE H!ServerLogs
  <2>1. /\ Append(files, Head(servQueue)) \in Seq(H!Record)
        /\ Tail(servQueue) \in Seq(H!Record)
    BY <1>5 DEF H!ServerLogs
  <2>2. files' \in Seq(H!Record)
    BY <1>5, <2>1, WeenedRecords DEF H!ServerLogs
  <2> QED
    BY <1>5, <2>1, <2>2 DEF H!ServerLogs, H!connVars, H!cliVars, H!histVars
<1>6. CASE H!ClientLogs
  BY <1>6 DEF H!ClientLogs, H!servVars, H!connVars, H!histVars
<1>7. CASE H!Dial
  <2>1. H!getLatestLoggedMsgTime \in Int
    <3>1. CASE history = <<>>
      BY <3>1 DEF H!getLatestLoggedMsgTime
    <3>2. CASE history # <<>>
      <4>1. Len(history) \in 1 .. Len(history)
        BY <3>2
      <4>2. history[Len(history)] \in H!Record
        BY <4>1
      <4> QED
        BY <3>2, <4>2 DEF H!getLatestLoggedMsgTime, H!Last, H!Record
    <3> QED
      BY <3>1, <3>2
  <2> QED
    BY <1>7, <2>1 DEF H!Dial, H!servVars, H!cliVars
<1>8. CASE H!Admit
  <2>1. H!sendBackLogFiles(files, since) \in Seq(H!Record)
    BY SentBack
  <2>2. H!Ids(servQueue) \subseteq Nat
    <3>1. Recs(servQueue) \subseteq H!Record
      BY RecsEnds
    <3>2. \A r \in H!Record : r.id \in Nat
      BY DEF H!Record
    <3>3. H!Ids(servQueue) = IdsOf(Recs(servQueue))
      BY HistoryNames
    <3> QED
      BY <3>1, <3>2, <3>3 DEF IdsOf
  <2>3. passed' \subseteq Nat
    BY <1>8, <2>2 DEF H!Admit
  <2>4. down' \in Seq(H!Record) /\ since' \in Int
    BY <1>8, <2>1 DEF H!Admit
  <2> QED
    BY <1>8, <2>3, <2>4 DEF H!Admit, H!servVars, H!cliVars
<1>9. CASE H!Disconnect
  BY <1>9 DEF H!Disconnect, H!Hangup, H!servVars, H!cliVars, H!histVars
<1>10. CASE H!ClientExits
  BY <1>10 DEF H!ClientExits, H!Hangup, H!servVars, H!histVars
<1>11. CASE H!ServerRestarts
  <2>1. files' \in Seq(H!Record)
    BY <1>11, WeenedRecords DEF H!ServerRestarts
  <2> QED
    BY <1>11, <2>1 DEF H!ServerRestarts, H!Hangup, H!cliVars, H!histVars
<1>12. CASE H!Tick
  BY <1>12, <1>h DEF H!Tick, H!servVars, H!connVars, H!cliVars, H!histVars
<1>13. CASE UNCHANGED H!vars
  BY <1>13 DEF H!vars, H!servVars, H!connVars, H!cliVars, H!histVars
<1> QED
  BY <1>1, <1>2, <1>3, <1>4, <1>5, <1>6, <1>7, <1>8, <1>9, <1>10, <1>11, <1>12,
     <1>13 DEF H!Next

LEMMA SeenType ==
    ASSUME HistoryTypes
    PROVE  /\ Logged \in Seq(H!Record) /\ H!Received \in Seq(H!Record)
           /\ history \o cliQueue \in Seq(H!Record)
           /\ Recs(Logged) = Recs(files) \cup Recs(servQueue)
           /\ Recs(H!Received) = Recs(history) \cup Recs(cliQueue) \cup Recs(down)
           /\ Seen \subseteq H!Record
<1> USE DEF HistoryTypes, H!TypeOK
<1>1. Logged \in Seq(H!Record) /\ Recs(Logged) = Recs(files) \cup Recs(servQueue)
  BY RecsJoin DEF Logged
<1>2. PICK p : p = history \o cliQueue
  OBVIOUS
<1>3. p \in Seq(H!Record) /\ Recs(p) = Recs(history) \cup Recs(cliQueue)
  BY <1>2, RecsJoin
<1>4. p \o down \in Seq(H!Record) /\ Recs(p \o down) = Recs(p) \cup Recs(down)
  BY <1>3, RecsJoin
<1>5. H!Received = p \o down
  BY <1>2 DEF H!Received
<1>6. Recs(Logged) \subseteq H!Record /\ Recs(H!Received) \subseteq H!Record
  BY <1>1, <1>4, <1>5, RecsEnds
<1> QED
  BY <1>1, <1>2, <1>3, <1>4, <1>5, <1>6 DEF Seen

\* The first three of the invariant's parts about what was seen, when there
\* is at most one new record, the newest of all or one of the client.
LEMMA SeenNext ==
    ASSUME HistoryTypes, HistoryTypes',
           \A r \in Seen : Known(r), Monotone(Seen),
           NEW x \in H!Record, Seen' \subseteq Seen \cup {x},
           x.own \/ (count < x.id /\ x.id <= count' /\ x.ts = now),
           count <= count', now <= now'
    PROVE  (\A r \in Seen : Known(r))' /\ Monotone(Seen)'
<1>t. /\ count \in Nat /\ count' \in Nat /\ now \in Nat /\ now' \in Nat
      /\ DayLength \in Nat /\ DayLength <= now
  BY HistoryAssumption DEF HistoryTypes, H!TypeOK
<1>r. \A r \in Seen \cup {x} : r.id \in Nat /\ r.ts \in Int
  BY SeenType DEF H!Record
<1>1. ASSUME NEW r \in Seen', ~r.own
      PROVE  r.id <= count' /\ DayLength <= r.ts /\ r.ts <= now'
  <2>1. CASE r \in Seen
    <3>1. r.id <= count /\ DayLength <= r.ts /\ r.ts <= now
      BY <1>1, <2>1 DEF Known
    <3> QED
      BY <3>1, <2>1, <1>r, <1>t
  <2>2. CASE r = x
    BY <2>2, <1>1, <1>r, <1>t
  <2> QED
    BY <2>1, <2>2
<1>2. ASSUME NEW a \in Seen', NEW b \in Seen', ~a.own, ~b.own, a.id <= b.id
      PROVE  a.ts <= b.ts
  <2>1. CASE a \in Seen /\ b \in Seen
    BY <1>2, <2>1 DEF Monotone
  <2>2. CASE a \in Seen /\ b = x
    BY <1>2, <2>2 DEF Known
  <2>3. CASE a = x /\ b \in Seen
    <3>1. b.id <= count /\ count < a.id
      BY <1>2, <2>3 DEF Known
    <3> QED
      BY <3>1, <2>3, <1>2, <1>r, <1>t
  <2>4. CASE a = x /\ b = x
    BY <2>4, <1>r
  <2> QED
    BY <2>1, <2>2, <2>3, <2>4
<1>3. (\A r \in Seen : Known(r))'
  BY <1>1 DEF Known
<1>4. Monotone(Seen)'
  BY <1>2 DEF Monotone
<1> QED
  BY <1>3, <1>4

\* The steps that bring no record: the server may lose some, and the client
\* the last of those it has.
LEMMA NothingNew ==
    ASSUME HistoryInv, HistoryTypes',
           Recs(Logged') \subseteq Recs(Logged), InOrder(Logged'),
           NEW t \in Seq(H!Record), H!Received = H!Received' \o t,
           conn' = "in" => conn = "in" /\ t = <<>>,
           history' = history \/ \E x \in H!Record : history' = Append(history, x),
           passed' = passed, count' = count, now <= now', skew' = skew,
           raced => raced'
    PROVE  RecordsInv'
<1>t. HistoryTypes /\ HistoryTypes'
  BY DEF HistoryInv, RecordsInv
<1>1. PICK R, Q : R = H!Received /\ Q = H!Received'
  OBVIOUS
<1>2. R \in Seq(H!Record) /\ Q \in Seq(H!Record) /\ R = Q \o t
  <2>1. Q \in Seq(H!Record)
    <3>1. /\ history' \in Seq(H!Record) /\ cliQueue' \in Seq(H!Record)
          /\ down' \in Seq(H!Record)
      BY <1>t DEF HistoryTypes, H!TypeOK
    <3> QED
      BY <1>1, <3>1 DEF H!Received
  <2> QED
    BY <1>1, <1>t, <2>1, SeenType
<1>3. Recs(R) = Recs(Q) \cup Recs(t)
  BY <1>2, RecsJoin
<1>4. Seen' \subseteq Seen
  BY <1>1, <1>3 DEF Seen
<1>5. (\A r \in Seen : Known(r))' /\ Monotone(Seen)'
  <2>1. PICK x : x = [id |-> 0, own |-> TRUE, ts |-> 0]
    OBVIOUS
  <2>2. x \in H!Record /\ x.own
    BY <2>1 DEF H!Record
  <2>3. count <= count'
    BY <1>t DEF HistoryTypes, H!TypeOK
  <2>4. /\ \A r \in Seen : Known(r)
        /\ Monotone(Seen)
    BY DEF HistoryInv, RecordsInv
  <2> QED
    BY <1>t, <1>4, <2>2, <2>3, <2>4, SeenNext
<1>6. skew' >= 0 /\ ~raced' => InOrder(H!Received')
  <2>1. skew' >= 0 /\ ~raced' => InOrder(R)
    BY <1>1 DEF HistoryInv, RecordsInv, ConnInv
  <2>2. InOrder(R) => InOrder(Q)
    BY <1>2, OrderJoin
  <2> QED
    BY <1>1, <2>1, <2>2
<1>7. GapInv'
  <2>1. PICK D, E : /\ D = Due(Recs(Logged), history, passed)
                    /\ E = Due(Recs(Logged'), history', passed')
    OBVIOUS
  <2>2. E \subseteq D
    <3>1. history \in Seq(H!Record)
      BY <1>t DEF HistoryTypes, H!TypeOK
    <3> QED
      BY <2>1, <3>1, DueLess
  <2>3. Gapless(R, {}, D) /\ (conn = "in" => \A m \in D : m.id \in IdsOf(Recs(R)))
    BY <1>1, <2>1 DEF HistoryInv, RecordsInv, GapInv
  <2>4. Gapless(Q, {}, D)
    BY <2>3, <1>2, GaplessJoin
  <2>5. Gapless(Q, {}, E)
    BY <2>2, <2>4, GaplessLess
  <2>6. conn' = "in" => \A m \in E : m.id \in IdsOf(Recs(Q))
    <3>1. conn' = "in" => Recs(R) = Recs(Q)
      BY <1>2, <1>3, RecsEnds
    <3> QED
      BY <2>2, <2>3, <3>1
  <2> QED
    BY <1>1, <2>1, <2>5, <2>6 DEF GapInv
<1> QED
  BY <1>5, <1>6, <1>7 DEF RecordsInv

\* A message for all: it is logged, and the client has it if it is in the
\* chat and it is another's.
LEMMA MessageStep ==
    ASSUME HistoryInv, HistoryTypes', NEW m \in H!Record, H!Broadcast(m),
           m.ts = now, m.own \/ (count < m.id /\ m.id = count'),
           count <= count', now' = now, skew' = skew, files' = files,
           cliQueue' = cliQueue, history' = history, conn' = conn,
           passed' = passed, raced' = raced
    PROVE  RecordsInv'
<1>t. HistoryTypes /\ HistoryTypes' /\ count \in Nat /\ now \in Nat
  BY DEF HistoryInv, HistoryTypes, H!TypeOK
<1>k. /\ \A r \in Seen : Known(r)
      /\ Monotone(Seen)
  BY DEF HistoryInv, RecordsInv
<1>1. PICK L, R, live : /\ L = Logged /\ R = H!Received
                        /\ live = (conn = "in" /\ ~m.own)
  OBVIOUS
<1>2. /\ L \in Seq(H!Record) /\ R \in Seq(H!Record)
      /\ Seen = Recs(L) \cup Recs(R) /\ Seen \subseteq H!Record
  BY <1>1, <1>t, SeenType DEF Seen
<1>3. Logged' = Append(L, m)
  <2>1. files \in Seq(H!Record) /\ servQueue \in Seq(H!Record)
    BY <1>t DEF HistoryTypes, H!TypeOK
  <2>2. servQueue' = Append(servQueue, m)
    BY DEF H!Broadcast
  <2> QED
    BY <1>1, <2>1, <2>2, AppendJoin DEF Logged
<1>4. H!Received' = IF live THEN Append(R, m) ELSE R
  <2>1. history \o cliQueue \in Seq(H!Record) /\ down \in Seq(H!Record)
    BY <1>t, SeenType DEF HistoryTypes, H!TypeOK
  <2>2. down' = IF live THEN Append(down, m) ELSE down
    BY <1>1 DEF H!Broadcast
  <2>3. (history \o cliQueue) \o Append(down, m) = Append((history \o cliQueue) \o down, m)
    BY <2>1, AppendJoin
  <2> QED
    BY <1>1, <2>2, <2>3 DEF H!Received
<1>5. /\ Recs(Logged') = Recs(L) \cup {m}
      /\ Recs(H!Received') = IF live THEN Recs(R) \cup {m} ELSE Recs(R)
  BY <1>2, <1>3, <1>4, RecsEnds
<1>6. (\A r \in Seen : Known(r))' /\ Monotone(Seen)'
  <2>1. Seen' \subseteq Seen \cup {m}
    BY <1>2, <1>5 DEF Seen
  <2>2. now <= now' /\ (m.own \/ (count < m.id /\ m.id <= count' /\ m.ts = now))
    BY <1>t DEF H!Record
  <2> QED
    BY <1>t, <1>k, <2>1, <2>2, SeenNext
<1>7. ASSUME NEW a \in Seen PROVE Before(a, m)
  <2>1. a.id \in Nat /\ m.id \in Nat
    BY <1>2 DEF H!Record
  <2>2. ~a.own => a.id <= count /\ a.ts <= now
    BY <1>k DEF Known
  <2> QED
    BY <2>1, <2>2, <1>t DEF Before
<1>8. InOrder(Logged')
  <2>1. InOrder(L)
    BY <1>1 DEF HistoryInv, RecordsInv
  <2> QED
    BY <2>1, <1>2, <1>3, <1>7, OrderEnds
<1>9. skew' >= 0 /\ ~raced' => InOrder(H!Received')
  <2>1. skew' >= 0 /\ ~raced' => InOrder(R)
    BY <1>1 DEF HistoryInv, RecordsInv, ConnInv
  <2>2. InOrder(R) => InOrder(Append(R, m))
    BY <1>2, <1>7, OrderEnds
  <2> QED
    BY <2>1, <2>2, <1>4
<1>10. GapInv'
  <2>1. PICK D, E : /\ D = Due(Recs(L), history, passed)
                    /\ E = Due(Recs(L) \cup {m}, history, passed)
    OBVIOUS
  <2>2. \A d \in E : d \in D \/ (d = m /\ ~m.own)
    BY <2>1 DEF Due
  <2>3. Gapless(R, {}, D) /\ (conn = "in" => \A d \in D : d.id \in IdsOf(Recs(R)))
    BY <1>1, <2>1 DEF HistoryInv, RecordsInv, GapInv
  <2>4. Gapless(R, {}, E)
    <3>1. ASSUME NEW k \in 1 .. Len(R), NEW d \in E, ~R[k].own, d.id < R[k].id
          PROVE  d \in D
      <4>1. R[k] \in Seen /\ R[k].id \in Nat
        <5>1. R[k] \in Recs(R)
          BY DEF Recs
        <5>2. R[k] \in Seen /\ R[k] \in H!Record
          BY <5>1, <1>2
        <5> QED
          BY <5>2 DEF H!Record
      <4>2. R[k].id <= count
        BY <3>1, <4>1, <1>k DEF Known
      <4>3. d # m \/ m.own
        BY <3>1, <4>1, <4>2, <1>t DEF H!Record
      <4> QED
        BY <2>2, <4>3
    <3> QED
      BY <2>3, <3>1 DEF Gapless
  <2>5. live => Gapless(Append(R, m), {}, E)
    <3>1. SUFFICES ASSUME live PROVE Gapless(Append(R, m), {}, E)
      OBVIOUS
    <3>2. ASSUME NEW d \in E, d.id < m.id PROVE d.id \in IdsOf(Recs(R))
      <4>1. d # m
        BY <3>2 DEF H!Record
      <4> QED
        BY <4>1, <3>1, <2>2, <2>3, <1>1
    <3> QED
      BY <3>2, <2>4, <1>2, GaplessNew
  <2>6. ASSUME conn = "in", NEW d \in E PROVE d.id \in IdsOf(Recs(H!Received'))
    <3>1. CASE d \in D
      <4>1. d.id \in IdsOf(Recs(R)) /\ Recs(R) \subseteq Recs(H!Received')
        BY <3>1, <2>3, <2>6, <1>5
      <4> QED
        BY <4>1 DEF IdsOf
    <3>2. CASE d = m /\ ~m.own
      <4>1. m \in Recs(H!Received')
        BY <3>2, <2>6, <1>1, <1>5
      <4> QED
        BY <4>1, <3>2 DEF IdsOf
    <3> QED
      BY <3>1, <3>2, <2>2
  <2>7. E = Due(Recs(Logged'), history', passed')
    BY <2>1, <1>5
  <2>8. Gapless(H!Received', {}, E)
    BY <2>4, <2>5, <1>4
  <2> QED
    BY <2>6, <2>7, <2>8 DEF GapInv
<1> QED
  BY <1>6, <1>8, <1>9, <1>10 DEF RecordsInv

\* What the client says goes before what is on its way to it.
LEMMA SayStep ==
    ASSUME HistoryInv, HistoryTypes', H!Say
    PROVE  RecordsInv'
<1>t. /\ HistoryTypes /\ HistoryTypes' /\ count \in Nat /\ now \in Nat
      /\ skew \in Int /\ count' = count + 1
  BY HistoryAssumption DEF HistoryInv, HistoryTypes, H!TypeOK, H!Say
<1>k. /\ \A r \in Seen : Known(r)
      /\ Monotone(Seen)
  BY DEF HistoryInv, RecordsInv
<1>0. PICK x : x = [id |-> count', own |-> TRUE, ts |-> now + skew]
  OBVIOUS
<1>x. x \in H!Record /\ x.own /\ x.ts = now + skew
  <2>1. count' \in Nat /\ now + skew \in Int
    BY <1>t
  <2> QED
    BY <1>0, <2>1 DEF H!Record
<1>u. /\ now' = now /\ skew' = skew /\ files' = files /\ servQueue' = servQueue
      /\ conn = "in" /\ conn' = conn /\ down' = down /\ history' = history
      /\ passed' = passed /\ raced' = raced
      /\ cliQueue' = Append(cliQueue, x)
  BY <1>0 DEF H!Say, H!servVars, H!histVars
<1>1. PICK P, Q, R : /\ P = history \o cliQueue /\ Q = Append(P, x)
                     /\ R = H!Received
  OBVIOUS
<1>2. /\ P \in Seq(H!Record) /\ Q \in Seq(H!Record) /\ down \in Seq(H!Record)
      /\ R = P \o down
  BY <1>1, <1>x, <1>t, SeenType DEF HistoryTypes, H!TypeOK, H!Received
<1>q. Recs(Q) = Recs(P) \cup {x}
  <2>1. \A y \in H!Record : Recs(Append(P, y)) = Recs(P) \cup {y}
    BY <1>2, RecsEnds
  <2> QED
    BY <1>1, <1>x, <2>1
<1>3. Logged' = Logged
  BY <1>u DEF Logged
<1>4. H!Received' = Q \o down
  <2>1. history \in Seq(H!Record) /\ cliQueue \in Seq(H!Record)
    BY <1>t DEF HistoryTypes, H!TypeOK
  <2>2. history \o Append(cliQueue, x) = Q
    BY <1>1, <1>x, <2>1, AppendJoin
  <2> QED
    BY <1>u, <2>2 DEF H!Received
<1>5. /\ Recs(R) = Recs(P) \cup Recs(down)
      /\ Recs(H!Received') = Recs(P) \cup {x} \cup Recs(down)
  <2>1. Recs(R) = Recs(P) \cup Recs(down)
    BY <1>2, RecsJoin
  <2>2. Recs(Q \o down) = Recs(Q) \cup Recs(down)
    BY <1>2, RecsJoin
  <2> QED
    BY <1>4, <1>q, <2>1, <2>2
<1>6. (\A r \in Seen : Known(r))' /\ Monotone(Seen)'
  <2>1. Seen' \subseteq Seen \cup {x}
    BY <1>1, <1>3, <1>5 DEF Seen
  <2>2. count <= count' /\ now <= now'
    BY <1>t, <1>u
  <2> QED
    BY <1>t, <1>k, <1>x, <2>1, <2>2, SeenNext
<1>8. InOrder(Logged')
  BY <1>3 DEF HistoryInv, RecordsInv
<1>9. ASSUME skew' >= 0, ~raced' PROVE InOrder(H!Received')
  <2>1. InOrder(R)
    BY <1>1, <1>u, <1>9 DEF HistoryInv, RecordsInv, ConnInv
  <2>2. /\ InOrder(P) /\ InOrder(down)
        /\ \A a \in Recs(P), b \in Recs(down) : Before(a, b)
    BY <1>2, <2>1, OrderJoin
  <2>3. ASSUME NEW a \in Recs(P) PROVE Before(a, x)
    <3>1. a \in Seen /\ a \in H!Record
      BY <1>1, <1>5, <1>t, SeenType DEF Seen
    <3>2. ~a.own => a.ts <= now
      BY <3>1, <1>k DEF Known
    <3>3. a.ts \in Int
      BY <3>1 DEF H!Record
    <3> QED
      BY <3>2, <3>3, <1>x, <1>t, <1>u, <1>9 DEF Before
  <2>4. \A b : Before(x, b)
    BY <1>x DEF Before
  <2>5. InOrder(Q)
    <3>1. \A y \in H!Record :
            InOrder(Append(P, y)) <=> InOrder(P) /\ \A a \in Recs(P) : Before(a, y)
      BY <1>2, OrderEnds
    <3> QED
      BY <1>1, <1>x, <2>2, <2>3, <3>1
  <2>6. InOrder(Q \o down)
    <3>1. \A a \in Recs(Q), b \in Recs(down) : Before(a, b)
      BY <1>q, <2>2, <2>4
    <3> QED
      BY <1>2, <2>2, <2>5, <3>1, OrderJoin
  <2> QED
    BY <1>4, <2>6
<1>10. GapInv'
  <2>1. PICK D : D = Due(Recs(Logged), history, passed)
    OBVIOUS
  <2>2. Gapless(R, {}, D) /\ \A d \in D : d.id \in IdsOf(Recs(R))
    BY <1>1, <1>u, <2>1 DEF HistoryInv, RecordsInv, GapInv
  <2>3. Gapless(P, {}, D) /\ Gapless(down, {} \cup IdsOf(Recs(P)), D)
    BY <1>2, <2>2, GaplessJoin
  <2>4. Gapless(Q, {}, D)
    BY <1>1, <1>2, <1>x, <2>3, GaplessNew
  <2>5. Gapless(down, {} \cup IdsOf(Recs(Q)), D)
    <3>1. {} \cup IdsOf(Recs(P)) \subseteq {} \cup IdsOf(Recs(Q))
      BY <1>q DEF IdsOf
    <3> QED
      BY <3>1, <2>3, GaplessLess
  <2>6. Gapless(H!Received', {}, D)
    BY <1>2, <1>4, <2>4, <2>5, GaplessJoin
  <2>7. \A d \in D : d.id \in IdsOf(Recs(H!Received'))
    BY <1>5, <2>2 DEF IdsOf
  <2>8. D = Due(Recs(Logged'), history', passed')
    BY <2>1, <1>3, <1>u
  <2> QED
    BY <2>6, <2>7, <2>8 DEF GapInv
<1> QED
  BY <1>6, <1>8, <1>9, <1>10 DEF RecordsInv

\* The client is let in: the server sends all it has on file of a time after
\* since, and since is the time of a record the client has.
LEMMA AdmitStep ==
    ASSUME HistoryInv, HistoryTypes', H!Admit
    PROVE  RecordsInv'
<1>t. /\ HistoryTypes /\ HistoryTypes' /\ count \in Nat /\ since \in Int
      /\ files \in Seq(H!Record) /\ servQueue \in Seq(H!Record)
      /\ DayLength \in Nat \ {0}
  BY HistoryAssumption DEF HistoryInv, HistoryTypes, H!TypeOK
<1>k. /\ \A r \in Seen : Known(r)
      /\ Monotone(Seen)
  BY DEF HistoryInv, RecordsInv
<1>1. PICK P, back : /\ P = history \o cliQueue
                     /\ back = H!sendBackLogFiles(files, since)
  OBVIOUS
<1>u. /\ now' = now /\ skew' = skew /\ files' = files /\ servQueue' = servQueue
      /\ conn = "dialing" /\ conn' = "in" /\ down' = back /\ history' = history
      /\ cliQueue' = cliQueue /\ raced' = raced /\ count' = count
      /\ passed' = passed \cup H!Ids(servQueue)
  BY <1>1 DEF H!Admit, H!servVars, H!cliVars
<1>2. /\ P \in Seq(H!Record) /\ back \in Seq(H!Record)
      /\ Recs(back) = {r \in Recs(files) : r.ts > since}
      /\ InOrder(files) => InOrder(back)
  BY <1>1, <1>t, SeenType, SentBack
<1>3. Logged' = Logged /\ Recs(Logged) = Recs(files) \cup Recs(servQueue)
  BY <1>u, <1>t, SeenType DEF Logged
<1>4. H!Received = P
  <2>1. down = <<>>
    BY <1>u DEF HistoryInv, ConnInv
  <2> QED
    BY <1>1, <1>2, <2>1 DEF H!Received
<1>5. H!Received' = P \o back /\ Recs(P \o back) = Recs(P) \cup Recs(back)
  <2>1. H!Received' = P \o back
    BY <1>1, <1>u DEF H!Received
  <2> QED
    BY <2>1, <1>2, RecsJoin
<1>s. /\ Seen = Recs(files) \cup Recs(servQueue) \cup Recs(P)
      /\ Recs(P) = Recs(history) \cup Recs(cliQueue)
      /\ Seen \subseteq H!Record
  <2>1. Recs(P) = Recs(history) \cup Recs(cliQueue)
    BY <1>1, <1>t, RecsJoin DEF HistoryTypes, H!TypeOK
  <2> QED
    BY <1>3, <1>4, <1>t, <2>1, SeenType DEF Seen
<1>n. \A r \in Seen : r.id \in Nat /\ r.ts \in Int
  BY <1>s DEF H!Record
<1>6. (\A r \in Seen : Known(r))' /\ Monotone(Seen)'
  <2>1. Seen' \subseteq Seen
    BY <1>2, <1>3, <1>4, <1>5 DEF Seen
  <2> QED
    BY <1>k, <1>u, <2>1 DEF Known, Monotone
<1>7. InOrder(files)
  <2>1. InOrder(files \o servQueue)
    BY DEF HistoryInv, RecordsInv, Logged
  <2> QED
    BY <1>t, <2>1, OrderJoin
<1>8. InOrder(Logged')
  BY <1>3 DEF HistoryInv, RecordsInv
<1>9. ASSUME skew' >= 0, ~raced' PROVE InOrder(H!Received')
  <2>1. /\ InOrder(P) /\ cliQueue = <<>>
        /\ \A r \in Recs(history) : ~r.own => r.ts <= since
    BY <1>4, <1>u, <1>9 DEF HistoryInv, RecordsInv, ConnInv
  <2>2. ASSUME NEW a \in Recs(P), NEW b \in Recs(back)
        PROVE  Before(a, b)
    <3>1. a \in Seen /\ b \in Seen /\ b.ts > since
      BY <1>2, <1>s
    <3>2. a \in Recs(history)
      BY <1>s, <2>1, RecsEnds DEF Recs
    <3>3. /\ ~a.own => a.ts <= since
          /\ a.ts \in Int /\ b.ts \in Int /\ a.id \in Nat /\ b.id \in Nat
      BY <2>1, <3>1, <3>2, <1>n
    <3>4. ~a.own => a.ts <= b.ts
      BY <3>1, <3>3, <1>t
    <3>5. ASSUME ~a.own, ~b.own PROVE a.id < b.id
      <4>1. CASE b.id <= a.id
        <5>1. b.ts <= a.ts
          BY <1>k, <3>1, <3>5, <4>1 DEF Monotone
        <5> QED
          BY <5>1, <3>1, <3>3, <3>5, <1>t
      <4> QED
        BY <4>1, <3>3
    <3> QED
      BY <3>4, <3>5 DEF Before
  <2>3. InOrder(back)
    BY <1>2, <1>7
  <2> QED
    BY <1>2, <1>5, <2>1, <2>2, <2>3, OrderJoin
<1>10. GapInv'
  <2>1. PICK D, E : /\ D = Due(Recs(Logged), history, passed)
                    /\ E = Due(Recs(Logged'), history', passed')
    OBVIOUS
  <2>2. E \subseteq D
    <3>1. /\ passed \subseteq passed' /\ Recs(Logged') \subseteq Recs(Logged)
          /\ history \in Seq(H!Record)
      BY <1>3, <1>u, <1>t DEF HistoryTypes, H!TypeOK
    <3> QED
      BY <2>1, <3>1, <1>u, DueLess
  <2>3. \A d \in E : /\ d \in Recs(files) /\ d \in Seen /\ ~d.own
                     /\ ~Explained(d, history)
    <3>1. ASSUME NEW d \in E
          PROVE  d \in Recs(Logged) /\ ~d.own /\ d.id \notin passed' /\ ~Explained(d, history)
      BY <2>1, <1>3, <1>u DEF Due
    <3>2. \A d \in Recs(servQueue) : d.id \in passed'
      BY <1>t, <1>u, HistoryNames DEF IdsOf
    <3> QED
      BY <3>1, <3>2, <1>3, <1>s
  <2>4. Gapless(P, {}, D)
    BY <1>4, <2>1 DEF HistoryInv, RecordsInv, GapInv
  <2>5. ASSUME NEW d \in E, d.ts <= since
        PROVE  d.id \in IdsOf(Recs(P))
    <3>1. DayLength <= d.ts /\ d.ts \in Int /\ d.id \in Nat
      BY <2>3, <1>k, <1>n DEF Known
    <3>2. since # 0
      BY <3>1, <2>5, <1>t
    <3>3. PICK j \in 1 .. Len(history) : history[j].ts = since
      BY <3>2, <1>u DEF HistoryInv, ConnInv
    <3>4. PICK r : r = history[j]
      OBVIOUS
    <3>5. r \in Seen /\ r \in Recs(P) /\ r.ts = since /\ r.id \in Nat
      <4>1. r \in Recs(history)
        BY <3>4 DEF Recs
      <4> QED
        BY <4>1, <3>3, <3>4, <1>s, <1>n
    <3>6. ~r.own /\ (r.ts = d.ts => r.id = d.id)
      <4>1. ~(r.own /\ r.ts >= d.ts) /\ ~(r.id # d.id /\ r.ts = d.ts)
        BY <2>3, <3>4 DEF Explained
      <4> QED
        BY <4>1, <3>5, <3>1, <2>5, <1>t
    <3>7. CASE r.id = d.id
      BY <3>7, <3>5 DEF IdsOf
    <3>8. CASE r.id # d.id
      <4>1. d.ts < r.ts
        BY <3>8, <3>6, <3>5, <3>1, <2>5, <1>t
      <4>2. ~(r.id <= d.id)
        <5>1. r.id <= d.id => r.ts <= d.ts
          BY <1>k, <2>3, <3>5, <3>6 DEF Monotone
        <5> QED
          BY <5>1, <4>1, <3>1, <3>5, <1>t
      <4>3. d.id < r.id
        BY <4>2, <3>1, <3>5
      <4>4. j \in 1 .. Len(P) /\ P[j] = r
        BY <1>1, <3>4, <1>t DEF HistoryTypes, H!TypeOK
      <4>5. PICK i \in 1 .. j - 1 : P[i].id = d.id
        BY <2>2, <2>4, <3>6, <4>3, <4>4 DEF Gapless
      <4>6. i \in 1 .. Len(P)
        BY <4>4
      <4> QED
        BY <4>5, <4>6 DEF IdsOf, Recs
    <3> QED
      BY <3>7, <3>8
  <2>6. ASSUME NEW d \in E, d.id \notin IdsOf(Recs(P))
        PROVE  d \in Recs(back)
    <3>1. d.ts \in Int /\ d \in Recs(files)
      BY <2>3, <1>n
    <3>2. d.ts > since
      BY <2>5, <2>6, <3>1, <1>t
    <3> QED
      BY <3>1, <3>2, <1>2
  <2>7. Gapless(back, {} \cup IdsOf(Recs(P)), E)
    <3>1. ASSUME NEW k \in 1 .. Len(back), NEW d \in E, ~back[k].own, d.id < back[k].id,
                 d.id \notin IdsOf(Recs(P))
          PROVE  \E i \in 1 .. k - 1 : back[i].id = d.id
      <4>1. PICK i \in 1 .. Len(back) : back[i] = d
        BY <3>1, <2>6 DEF Recs
      <4>2. d.id \in Nat /\ back[k].id \in Nat
        <5>1. back[k] \in H!Record
          BY <1>2
        <5> QED
          BY <5>1, <2>3, <1>n DEF H!Record
      <4>3. i # k
        BY <4>1, <4>2, <3>1
      <4>4. ~(k < i)
        <5>1. k < i => Before(back[k], d)
          BY <4>1, <1>2, <1>7 DEF InOrder
        <5>2. k < i => back[k].id < d.id
          BY <5>1, <3>1, <2>3 DEF Before
        <5> QED
          BY <5>2, <4>2, <3>1
      <4>5. i \in 1 .. k - 1
        BY <4>3, <4>4
      <4> QED
        BY <4>1, <4>5
    <3> QED
      BY <3>1 DEF Gapless
  <2>8. Gapless(P, {}, E)
    BY <2>2, <2>4, GaplessLess
  <2>9. Gapless(H!Received', {}, E)
    BY <1>2, <1>5, <2>7, <2>8, GaplessJoin
  <2>10. ASSUME NEW d \in E PROVE d.id \in IdsOf(Recs(H!Received'))
    <3>1. d.id \in IdsOf(Recs(P)) \/ d \in Recs(back)
      BY <2>6
    <3> QED
      BY <3>1, <1>5 DEF IdsOf
  <2> QED
    BY <2>1, <2>9, <2>10 DEF GapInv
<1> QED
  BY <1>6, <1>8, <1>9, <1>10 DEF RecordsInv

LEMMA HistoryInit == H!Init => HistoryInv
<1> SUFFICES ASSUME H!Init PROVE HistoryInv
  OBVIOUS
<1>1. HistoryTypes
  <2>1. /\ <<>> \in Seq(H!Record) /\ <<>> \in Seq(Nat)
        /\ DayLength \in Nat /\ 0 \in Int
    BY HistoryAssumption
  <2>2. /\ files \in Seq(H!Record) /\ servQueue \in Seq(H!Record)
        /\ down \in Seq(H!Record) /\ up \in Seq(Nat)
        /\ cliQueue \in Seq(H!Record) /\ history \in Seq(H!Record)
    BY <2>1 DEF H!Init
  <2>3. now \in Nat /\ DayLength <= now /\ since \in Int
    BY <2>1 DEF H!Init
  <2> QED
    BY <2>2, <2>3 DEF H!Init, HistoryTypes, H!TypeOK
<1>2. /\ Logged = <<>> /\ H!Received = <<>> /\ conn = "off" /\ down = <<>>
  BY DEF H!Init, Logged, H!Received
<1>3. Recs(<<>>) = {} /\ InOrder(<<>>) /\ \A X, D : Gapless(<<>>, X, D)
  BY DEF Recs, InOrder, Gapless
<1>4. RecordsInv
  BY <1>2, <1>3 DEF RecordsInv, Seen, Monotone, GapInv
<1> QED
  BY <1>1, <1>2, <1>4 DEF HistoryInv, ConnInv

LEMMA HistoryNext == HistoryInv /\ [H!Next]_H!vars => HistoryInv'
<1> SUFFICES ASSUME HistoryInv, [H!Next]_H!vars PROVE HistoryInv'
  OBVIOUS
<1>t. HistoryTypes /\ HistoryTypes'
  BY HistoryTypesNext DEF HistoryInv
<1>s. /\ count \in Nat /\ now \in Nat /\ up \in Seq(Nat) /\ since \in Int
      /\ files \in Seq(H!Record) /\ servQueue \in Seq(H!Record)
      /\ history \in Seq(H!Record) /\ cliQueue \in Seq(H!Record)
      /\ down \in Seq(H!Record)
  BY <1>t DEF HistoryTypes, H!TypeOK
<1>e. /\ <<>> \in Seq(H!Record)
      /\ \A s \in Seq(H!Record) : s \o <<>> = s
  OBVIOUS
<1>a. /\ cliQueue \o down \in Seq(H!Record)
      /\ H!Received = history \o (cliQueue \o down)
  <2>1. cliQueue \o down \in Seq(H!Record)
    BY <1>s
  <2>2. (history \o cliQueue) \o down = history \o (cliQueue \o down)
    <3> DEFINE R == H!Record
    <3>1. history \in Seq(R) /\ cliQueue \in Seq(R) /\ down \in Seq(R)
      BY <1>s
    <3> HIDE DEF R
    <3> QED
      BY <3>1, ConcatAssociative
  <2> QED
    BY <2>1, <2>2 DEF H!Received
<1>c. ConnInv /\ RecordsInv /\ InOrder(Logged)
  BY DEF HistoryInv, RecordsInv
<1>1. CASE H!OthersSay
  <2>u. /\ now' = now /\ skew' = skew /\ files' = files /\ conn' = conn
        /\ since' = since /\ cliQueue' = cliQueue /\ history' = history
        /\ passed' = passed /\ raced' = raced /\ count' = count + 1
    BY <1>1 DEF H!OthersSay, H!cliVars, H!histVars
  <2>1. PICK m : m = [id |-> count', own |-> FALSE, ts |-> now]
    OBVIOUS
  <2>2. m \in H!Record /\ H!Broadcast(m) /\ m.ts = now /\ m.id = count'
    <3>1. count' \in Nat
      BY <2>u, <1>s
    <3> QED
      BY <1>1, <1>s, <2>1, <3>1 DEF H!OthersSay, H!Record
  <2>3. count < m.id /\ count <= count'
    BY <2>u, <2>2, <1>s
  <2>4. RecordsInv'
    BY <1>t, <2>u, <2>2, <2>3, MessageStep
  <2>5. conn # "in" => down' = down
    BY <2>2 DEF H!Broadcast
  <2>6. ConnInv'
    BY <1>c, <2>u, <2>5 DEF ConnInv
  <2> QED
    BY <1>t, <2>4, <2>6 DEF HistoryInv
<1>2. CASE H!Say
  <2>1. RecordsInv'
    BY <1>2, <1>t, SayStep
  <2>2. ConnInv'
    BY <1>2 DEF ConnInv, H!Say
  <2> QED
    BY <1>t, <2>1, <2>2 DEF HistoryInv
<1>3. CASE H!clientBroadMsg
  <2>u. /\ now' = now /\ skew' = skew /\ files' = files /\ conn' = conn
        /\ since' = since /\ cliQueue' = cliQueue /\ history' = history
        /\ passed' = passed /\ raced' = raced /\ count' = count
    BY <1>3 DEF H!clientBroadMsg, H!cliVars, H!histVars
  <2>1. PICK m : m = [id |-> Head(up), own |-> TRUE, ts |-> now]
    OBVIOUS
  <2>2. m \in H!Record /\ H!Broadcast(m) /\ m.ts = now /\ m.own
    <3>1. Head(up) \in Nat
      <4>1. up # <<>> /\ up \in Seq(Nat)
        BY <1>3, <1>s DEF H!clientBroadMsg
      <4> QED
        BY <4>1
    <3> QED
      BY <1>3, <1>s, <2>1, <3>1 DEF H!clientBroadMsg, H!Record
  <2>3. count <= count'
    BY <2>u, <1>s
  <2>4. RecordsInv'
    BY <1>t, <2>u, <2>2, <2>3, MessageStep
  <2>5. down' = down
    BY <2>2 DEF H!Broadcast
  <2>6. ConnInv'
    BY <1>c, <2>u, <2>5 DEF ConnInv
  <2> QED
    BY <1>t, <2>4, <2>6 DEF HistoryInv
<1>4. CASE H!serverBroadMsg
  <2>u. /\ now' = now /\ skew' = skew /\ files' = files /\ servQueue' = servQueue
        /\ conn' = conn /\ history' = history /\ count' = count
        /\ passed' = passed /\ raced' = raced
        /\ down # <<>> /\ down' = Tail(down) /\ cliQueue' = Append(cliQueue, Head(down))
    BY <1>4 DEF H!serverBroadMsg, H!servVars, H!histVars
  <2>1. H!Received' = H!Received
    <3>1. PICK p : p = history \o cliQueue
      OBVIOUS
    <3>2. p \in Seq(H!Record) /\ Head(down) \in H!Record
      BY <3>1, <2>u, <1>s
    <3>3. history \o Append(cliQueue, Head(down)) = Append(p, Head(down))
      BY <3>1, <3>2, <1>s, AppendJoin
    <3>4. Append(p, Head(down)) \o Tail(down) = p \o down
      BY <3>2, <2>u, <1>s, ShiftJoin
    <3> QED
      BY <3>1, <3>3, <3>4, <2>u DEF H!Received
  <2>2. Logged' = Logged
    BY <2>u DEF Logged
  <2>3. H!Received = H!Received' \o <<>>
    BY <2>1, <1>t, <1>e, SeenType
  <2>4. now <= now'
    BY <2>u, <1>s
  <2>5. RecordsInv'
    BY <1>t, <1>c, <1>e, <2>u, <2>2, <2>3, <2>4, NothingNew
  <2>6. ConnInv'
    BY <1>c, <2>u DEF ConnInv
  <2> QED
    BY <1>t, <2>5, <2>6 DEF HistoryInv
<1>5. CASE H!ServerLogs
  <2>u. /\ now' = now /\ skew' = skew /\ conn' = conn /\ since' = since
        /\ down' = down /\ cliQueue' = cliQueue /\ history' = history
        /\ count' = count /\ passed' = passed /\ raced' = raced
        /\ servQueue # <<>> /\ servQueue' = Tail(servQueue)
    BY <1>5 DEF H!ServerLogs, H!connVars, H!cliVars, H!histVars
  <2>1. PICK f, q : f = Append(files, Head(servQueue)) /\ q = Tail(servQueue)
    OBVIOUS
  <2>2. f \in Seq(H!Record) /\ q \in Seq(H!Record) /\ f \o q = Logged
    <3>1. Head(servQueue) \in H!Record /\ Tail(servQueue) \in Seq(H!Record)
      BY <2>u, <1>s
    <3>2. Append(files, Head(servQueue)) \o Tail(servQueue) = files \o servQueue
      BY <2>u, <1>s, ShiftJoin
    <3>3. Append(files, Head(servQueue)) \in Seq(H!Record)
      BY <1>s, <3>1
    <3> QED
      BY <2>1, <3>1, <3>2, <3>3 DEF Logged
  <2>3. /\ files' \in Seq(H!Record) /\ Recs(files') \subseteq Recs(f)
        /\ InOrder(f) => InOrder(files')
    BY <1>5, <2>1, <2>2, WeenedRecords DEF H!ServerLogs
  <2>4. Logged' = files' \o q
    BY <2>1, <2>u DEF Logged
  <2>5. /\ Recs(Logged) = Recs(f) \cup Recs(q)
        /\ Recs(Logged') = Recs(files') \cup Recs(q)
    <3>1. Recs(f \o q) = Recs(f) \cup Recs(q)
      BY <2>2, RecsJoin
    <3>2. Recs(files' \o q) = Recs(files') \cup Recs(q)
      BY <2>2, <2>3, RecsJoin
    <3> QED
      BY <2>2, <2>4, <3>1, <3>2
  <2>6. InOrder(Logged')
    <3>1. /\ InOrder(f) /\ InOrder(q)
          /\ \A a \in Recs(f), b \in Recs(q) : Before(a, b)
      BY <2>2, <1>c, OrderJoin
    <3> QED
      BY <2>2, <2>3, <2>4, <3>1, OrderJoin
  <2>7. H!Received = H!Received' \o <<>>
    BY <2>u, <1>t, <1>e, SeenType DEF H!Received
  <2>8. now <= now' /\ Recs(Logged') \subseteq Recs(Logged)
    BY <2>u, <2>3, <2>5, <1>s
  <2>9. RecordsInv'
    BY <1>t, <1>c, <1>e, <2>u, <2>6, <2>7, <2>8, NothingNew
  <2>10. ConnInv'
    BY <1>c, <2>u DEF ConnInv
  <2> QED
    BY <1>t, <2>9, <2>10 DEF HistoryInv
<1>6. CASE H!ClientLogs
  <2>u. /\ now' = now /\ skew' = skew /\ files' = files /\ servQueue' = servQueue
        /\ conn' = conn /\ since' = since /\ down' = down /\ count' = count
        /\ passed' = passed /\ raced' = raced
        /\ cliQueue # <<>> /\ cliQueue' = Tail(cliQueue)
        /\ history' = Append(history, Head(cliQueue))
    BY <1>6 DEF H!ClientLogs, H!servVars, H!connVars, H!histVars
  <2>1. H!Received' = H!Received /\ Head(cliQueue) \in H!Record
    <3>1. Append(history, Head(cliQueue)) \o Tail(cliQueue) = history \o cliQueue
      BY <2>u, <1>s, ShiftJoin
    <3>2. Head(cliQueue) \in H!Record
      BY <2>u, <1>s
    <3> QED
      BY <3>1, <3>2, <2>u DEF H!Received
  <2>2. Logged' = Logged
    BY <2>u DEF Logged
  <2>3. H!Received = H!Received' \o <<>>
    BY <2>1, <1>t, <1>e, SeenType
  <2>4. now <= now'
    BY <2>u, <1>s
  <2>5. RecordsInv'
    BY <1>t, <1>c, <1>e, <2>u, <2>1, <2>2, <2>3, <2>4, NothingNew
  <2>6. ConnInv'
    <3>1. \A j \in 1 .. Len(history) : j \in 1 .. Len(history') /\ history'[j] = history[j]
      BY <2>u, <2>1, <1>s
    <3> QED
      BY <3>1, <1>c, <2>u DEF ConnInv
  <2> QED
    BY <1>t, <2>5, <2>6 DEF HistoryInv
<1>7. CASE H!Dial
  <2>u. /\ now' = now /\ skew' = skew /\ files' = files /\ servQueue' = servQueue
        /\ conn = "off" /\ conn' = "dialing" /\ down' = down /\ count' = count
        /\ cliQueue' = cliQueue /\ history' = history /\ passed' = passed
        /\ since' = H!getLatestLoggedMsgTime
        /\ raced' = (raced \/ cliQueue # <<>>)
    BY <1>7 DEF H!Dial, H!servVars, H!cliVars
  <2>2. Logged' = Logged
    BY <2>u DEF Logged
  <2>3. H!Received = H!Received' \o <<>>
    BY <2>u, <1>t, <1>e, SeenType DEF H!Received
  <2>4. now <= now'
    BY <2>u, <1>s
  <2>7. raced => raced'
    BY <2>u, Zenon
  <2>5. RecordsInv'
    BY <1>t, <1>c, <1>e, <2>u, <2>2, <2>3, <2>4, <2>7, NothingNew
  <2>6. ConnInv'
    <3>1. down' = <<>>
      BY <1>c, <2>u DEF ConnInv
    <3>2. CASE history = <<>>
      <4>1. since' = 0 /\ Recs(history') = {}
        BY <3>2, <2>u, RecsEnds DEF H!getLatestLoggedMsgTime, Recs
      <4> QED
        BY <4>1, <3>1, <2>u DEF ConnInv
    <3>3. CASE history # <<>>
      <4>1. PICK n : n = Len(history)
        OBVIOUS
      <4>2. n \in 1 .. n /\ history[n].ts = since'
        BY <3>3, <4>1, <2>u, <1>s DEF H!getLatestLoggedMsgTime, H!Last
      <4>3. ASSUME skew' >= 0, ~raced', NEW r \in Recs(history), ~r.own
            PROVE  r.ts <= since'
        <5>1. InOrder(H!Received)
          BY <4>3, <1>c, <2>u DEF RecordsInv
        <5>2. InOrder(history)
          BY <5>1, <1>a, <1>s, OrderJoin
        <5>3. PICK i \in 1 .. n : r = history[i]
          BY <4>1 DEF Recs
        <5>4. CASE i = n
          <6>1. r \in H!Record
            BY <5>3, <4>1, <1>s
          <6> QED
            BY <5>3, <5>4, <6>1, <4>2 DEF H!Record
        <5>5. CASE i # n
          <6>1. i < n
            BY <5>5, <4>2
          <6>2. Before(history[i], history[n])
            BY <6>1, <5>2, <4>1, <4>2 DEF InOrder
          <6> QED
            BY <6>2, <5>3, <4>2, <4>3 DEF Before
        <5> QED
          BY <5>4, <5>5
      <4>4. \E j \in 1 .. Len(history') : history'[j].ts = since'
        BY <4>1, <4>2, <2>u
      <4> QED
        BY <3>1, <4>3, <4>4, <2>u DEF ConnInv
    <3> QED
      BY <3>2, <3>3
  <2> QED
    BY <1>t, <2>5, <2>6 DEF HistoryInv
<1>8. CASE H!Admit
  <2>1. RecordsInv'
    BY <1>8, <1>t, AdmitStep
  <2>2. ConnInv'
    BY <1>8 DEF ConnInv, H!Admit
  <2> QED
    BY <1>t, <2>1, <2>2 DEF HistoryInv
<1>h. ASSUME conn' = "off", down' = <<>>, now' = now, skew' = skew,
             history' = history, cliQueue' = cliQueue \/ cliQueue' = <<>>,
             count' = count, passed' = passed, raced' = raced,
             Recs(Logged') \subseteq Recs(Logged), InOrder(Logged')
      PROVE  HistoryInv'
  <2>1. PICK t \in Seq(H!Record) : H!Received = H!Received' \o t
    <3>1. CASE cliQueue' = cliQueue
      <4>1. history \o cliQueue \in Seq(H!Record)
        BY <1>s
      <4>2. H!Received' = (history \o cliQueue) \o <<>>
        BY <3>1, <1>h DEF H!Received
      <4>3. H!Received' = history \o cliQueue
        BY <4>1, <4>2, <1>e
      <4> QED
        BY <4>3, <1>s DEF H!Received
    <3>2. CASE cliQueue' = <<>>
      <4>1. H!Received' = history
        BY <3>2, <1>h, <1>s, <1>e DEF H!Received
      <4> QED
        BY <4>1, <1>a
    <3> QED
      BY <1>h, <3>1, <3>2
  <2>2. now <= now' /\ conn' # "in"
    BY <1>h, <1>s
  <2>3. RecordsInv'
    BY <1>t, <1>h, <2>1, <2>2, NothingNew
  <2>4. ConnInv'
    BY <1>h DEF ConnInv
  <2> QED
    BY <1>t, <2>3, <2>4 DEF HistoryInv
<1>9. CASE H!Disconnect
  <2>1. Logged' = Logged
    BY <1>9 DEF H!Disconnect, H!servVars, Logged
  <2> QED
    BY <1>9, <1>c, <1>h, <2>1 DEF H!Disconnect, H!Hangup, H!cliVars, H!histVars
<1>10. CASE H!ClientExits
  <2>1. Logged' = Logged
    BY <1>10 DEF H!ClientExits, H!servVars, Logged
  <2> QED
    BY <1>10, <1>c, <1>h, <2>1 DEF H!ClientExits, H!Hangup, H!histVars
<1>11. CASE H!ServerRestarts
  <2>1. /\ files' \in Seq(H!Record) /\ Recs(files') \subseteq Recs(files)
        /\ InOrder(files) => InOrder(files')
    <3>1. CASE files = <<>>
      BY <1>11, <3>1, <1>s DEF H!ServerRestarts
    <3>2. CASE files # <<>>
      BY <1>11, <3>2, <1>s, WeenedRecords DEF H!ServerRestarts
    <3> QED
      BY <3>1, <3>2
  <2>2. Logged' = files'
    BY <1>11, <1>e, <2>1 DEF H!ServerRestarts, Logged
  <2>3. InOrder(files) /\ Recs(files) \subseteq Recs(Logged)
    BY <1>c, <1>s, OrderJoin, RecsJoin DEF Logged
  <2> QED
    BY <1>11, <1>h, <2>1, <2>2, <2>3
       DEF H!ServerRestarts, H!Hangup, H!cliVars, H!histVars
<1>12. CASE H!Tick \/ UNCHANGED H!vars
  <2>u. /\ now' = now + 1 \/ now' = now
        /\ skew' = skew /\ files' = files /\ servQueue' = servQueue
        /\ conn' = conn /\ since' = since /\ down' = down /\ count' = count
        /\ cliQueue' = cliQueue /\ history' = history /\ passed' = passed
        /\ raced' = raced
    BY <1>12 DEF H!Tick, H!vars, H!servVars, H!connVars, H!cliVars, H!histVars
  <2>2. Logged' = Logged
    BY <2>u DEF Logged
  <2>3. H!Received = H!Received' \o <<>>
    BY <2>u, <1>t, <1>e, SeenType DEF H!Received
  <2>4. now <= now'
    BY <2>u, <1>s
  <2>5. RecordsInv'
    BY <1>t, <1>c, <1>e, <2>u, <2>2, <2>3, <2>4, NothingNew
  <2>6. ConnInv'
    BY <1>c, <2>u DEF ConnInv
  <2> QED
    BY <1>t, <2>5, <2>6 DEF HistoryInv
<1> QED
  BY <1>1, <1>2, <1>3, <1>4, <1>5, <1>6, <1>7, <1>8, <1>9, <1>10, <1>11, <1>12
     DEF H!Next

\* How clients' histories and the server's files keep to each other, whatever
\* ends and in whatever order: what the two properties below rest on.
THEOREM HistoryInvariance == H!Spec => []HistoryInv
<1> QED
  BY HistoryInit, HistoryNext, PTL DEF H!Spec

\* sendBackLogFiles() and the live messages together: a client's history has
\* every message of others at most once and in the server's order, if its
\* clock is not behind and it dials only when its log thread is done.
THEOREM HistoryIsInOrder == PartsSpec => []OthersOnceInOrder
<1>1. HistoryInv => OthersOnceInOrder
  <2> SUFFICES ASSUME HistoryInv, skew >= 0, ~raced,
                      NEW i \in DOMAIN H!Received, NEW j \in DOMAIN H!Received,
                      i < j, ~H!Received[i].own, ~H!Received[j].own
               PROVE  H!Received[i].id < H!Received[j].id
    BY DEF OthersOnceInOrder, H!OthersOnceInOrder
  <2>1. DOMAIN H!Received = 1 .. Len(H!Received)
    BY SeenType DEF HistoryInv
  <2>2. InOrder(H!Received)
    BY DEF HistoryInv, RecordsInv
  <2> QED
    BY <2>1, <2>2 DEF InOrder, Before
<1> QED
  BY <1>1, HistoryRuns, HistoryInvariance, PTL

\* clientConnect() and addToLog(): what a client in the chat has not got of
\* the server's files is a message that was in the server's queue, of the
\* same second as another, or no newer than what the client said.
THEOREM HistoryGaps == PartsSpec => []GapsAreExplained
<1>1. HistoryInv => GapsAreExplained
  <2> SUFFICES ASSUME HistoryInv, conn = "in", NEW i \in DOMAIN files,
                      NEW m, m = files[i], ~m.own,
                      m.id \notin H!Ids(H!Received) \cup passed
               PROVE  \E j \in DOMAIN history :
                        \/ history[j].own /\ history[j].ts >= m.ts
                        \/ history[j].id # m.id /\ history[j].ts = m.ts
    BY DEF GapsAreExplained, H!GapsAreExplained
  <2>1. /\ files \in Seq(H!Record) /\ history \in Seq(H!Record)
        /\ H!Received \in Seq(H!Record)
        /\ Recs(Logged) = Recs(files) \cup Recs(servQueue)
    BY SeenType DEF HistoryInv, HistoryTypes, H!TypeOK
  <2>2. m \in Recs(Logged)
    <3>1. i \in 1 .. Len(files)
      BY <2>1
    <3>2. m \in Recs(files)
      BY <3>1 DEF Recs
    <3> QED
      BY <3>2, <2>1
  <2>3. m.id \notin IdsOf(Recs(H!Received)) /\ m.id \notin passed
    BY <2>1, HistoryNames
  <2>4. m \notin Due(Recs(Logged), history, passed)
    BY <2>3 DEF HistoryInv, RecordsInv, GapInv
  <2>5. Explained(m, history)
    BY <2>2, <2>3, <2>4 DEF Due
  <2>6. DOMAIN history = 1 .. Len(history)
    BY <2>1
  <2> QED
    BY <2>5, <2>6 DEF Explained
<1> QED
  BY <1>1, HistoryRuns, HistoryInvariance, PTL

-----------------------------------------------------------------------------
(***************************************************************************)
(* The types of all modules.                                               *)
(***************************************************************************)
\* The pad has no more rows than it was made with.
LEMMA RowsFit == W!Spec => [](rows <= W!padHeight)
<1>1. W!Init => rows <= W!padHeight
  BY WindowInit, WindowFacts DEF W!Init, WindowInv
<1>2. WindowInv /\ WindowInv' /\ rows <= W!padHeight /\ [W!Next]_W!vars =>
        (rows <= W!padHeight)'
  <2> SUFFICES ASSUME WindowInv, WindowInv', rows <= W!padHeight, [W!Next]_W!vars
               PROVE  rows' <= W!padHeight
    OBVIOUS
  <2>0. W!padHeight \in Nat /\ rows' \in Nat
    BY WindowFacts DEF WindowInv, WindowTypes
  <2>1. rows' = rows \/ \E n : rows' = W!OnPad(n)
    <3>1. CASE W!Show
      BY <3>1 DEF W!Show, W!appendMsgWin
    <3>2. CASE W!scrollUp \/ W!scrollDown
      BY <3>2 DEF W!scrollUp, W!scrollDown
    <3>3. CASE W!redrawMsgWin
      BY <3>3 DEF W!redrawMsgWin, W!replayMessages
    <3>4. CASE UNCHANGED W!vars
      BY <3>4 DEF W!vars
    <3> QED
      BY <3>1, <3>2, <3>3, <3>4 DEF W!Next
  <2>2. ASSUME NEW n, rows' = W!OnPad(n) PROVE rows' <= W!padHeight
    <3>1. CASE n > W!padHeight
      BY <2>0, <2>2, <3>1 DEF W!OnPad
    <3>2. CASE ~(n > W!padHeight)
      <4>1. rows' = n
        BY <2>2, <3>2 DEF W!OnPad
      <4> QED
        BY <2>0, <3>2, <4>1
    <3> QED
      BY <3>1, <3>2
  <2> QED
    BY <2>1, <2>2
<1> QED
  BY <1>1, <1>2, WindowInvariance, PTL DEF W!Spec

LEMMA RingIndices ==
    ASSUME WindowInv
    PROVE  msgBuf \in Seq(1 .. Len(added)) /\ printed \in Seq(1 .. Len(added))
<1>1. PICK N, M : N = Len(added) /\ M = Len(msgBuf)
  OBVIOUS
<1>2. /\ N \in Nat /\ M \in Nat /\ MAX_MSG_BUF \in Nat \ {0} /\ writeIdx \in Nat
      /\ Len(printed) \in Nat
  BY <1>1, WindowFacts DEF WindowInv, WindowTypes
<1>3. ASSUME NEW i \in 1 .. M PROVE msgBuf[i] \in 1 .. N
  <2>1. /\ M = IF N < MAX_MSG_BUF THEN N ELSE MAX_MSG_BUF
        /\ writeIdx < MAX_MSG_BUF
        /\ N < MAX_MSG_BUF => writeIdx = N
        /\ msgBuf[i] = IF i <= writeIdx THEN N - writeIdx + i
                       ELSE N - writeIdx - MAX_MSG_BUF + i
    BY <1>1 DEF WindowInv, RingInv
  <2> QED
    BY <1>2, <2>1
<1>4. ASSUME NEW i \in 1 .. Len(printed) PROVE printed[i] \in 1 .. N
  <2>1. printed = Run(N, Len(printed)) /\ Len(printed) <= N
    BY <1>1 DEF WindowInv, PrintedInv
  <2>2. printed[i] = N - Len(printed) + i
    BY <2>1 DEF Run
  <2> QED
    BY <1>2, <2>1, <2>2
<1>5. msgBuf \in [1 .. M -> 1 .. N] /\ printed \in [1 .. Len(printed) -> 1 .. N]
  BY <1>1, <1>3, <1>4 DEF WindowInv, WindowTypes
<1>6. \A S, s : \A n \in Nat : s \in [1 .. n -> S] => s \in Seq(S)
  OBVIOUS
<1> QED
  BY <1>1, <1>2, <1>5, <1>6

\* Whatever module runs, its variables are what they are declared to be.
THEOREM PartsTypes == PartsSpec => []PartsTypeOK
<1>1. PartsSpec => [](part \in {"log", "history", "window", "form", "framing"})
  <2>1. PartsInit => part \in {"log", "history", "window", "form", "framing"}
    BY DEF PartsInit
  <2>2. /\ part \in {"log", "history", "window", "form", "framing"}
        /\ [PartsNext]_parts_vars
        => (part \in {"log", "history", "window", "form", "framing"})'
    BY DEF PartsNext, parts_vars
  <2> QED
    BY <2>1, <2>2, PTL DEF PartsSpec
<1>2. HistoryInv => H!TypeOK
  BY DEF HistoryInv, HistoryTypes
<1>3. WindowInv /\ rows <= W!padHeight => W!TypeOK
  <2> SUFFICES ASSUME WindowInv, rows <= W!padHeight PROVE W!TypeOK
    OBVIOUS
  <2>1. WindowTypes /\ RingInv /\ W!padHeight \in Nat /\ MAX_MSG_BUF \in Nat \ {0}
    BY WindowFacts DEF WindowInv
  <2>2. rows \in 0 .. W!padHeight
    BY <2>1 DEF WindowTypes
  <2>3. Len(msgBuf) <= MAX_MSG_BUF /\ writeIdx \in 0 .. MAX_MSG_BUF - 1
    <3>1. writeIdx \in Nat /\ writeIdx < MAX_MSG_BUF
      BY <2>1 DEF WindowTypes, RingInv
    <3>2. Len(msgBuf) = IF Len(added) < MAX_MSG_BUF THEN Len(added) ELSE MAX_MSG_BUF
      BY <2>1 DEF RingInv
    <3>3. Len(added) \in Nat
      BY <2>1, WindowFacts
    <3> QED
      BY <2>1, <3>1, <3>2, <3>3
  <2> QED
    BY <2>1, <2>2, <2>3, RingIndices DEF W!TypeOK, WindowTypes
<1>4. FormInv => C!TypeOK
  <2> SUFFICES ASSUME FormInv
               PROVE  config \in {NoFile} \cup
                        [addr : Addr \cup {<<>>, NoLine},
                         port : Int \cup {NoNumber, NoLine},
                         username : Name \cup {0, NoLine}]
    BY DEF FormInv, FormTypes, C!TypeOK
  <2>1. config = NoFile \/ config \in C!Info \/ config \in C!File
    BY DEF FormInv, FormTypes
  <2>2. CASE config \in C!Info
    BY <2>2 DEF C!Info
  <2>3. CASE config \in C!File
    BY <2>3, FormAssumption DEF C!File
  <2> QED
    BY <2>1, <2>2, <2>3
<1>5. FramingInv => F!TypeOK
  <2> SUFFICES ASSUME FramingTypes PROVE F!TypeOK
    BY DEF FramingInv
  <2>1. SentByte \subseteq F!Byte
    BY DEF SentByte
  <2>2. \A s \in Seq(SentByte) : s \in Seq(F!Byte)
    BY <2>1
  <2> QED
    BY <2>2 DEF FramingTypes, F!TypeOK
<1>6. /\ part \in {"log", "history", "window", "form", "framing"}
      /\ TypeOK /\ H!TypeOK /\ W!TypeOK /\ C!TypeOK /\ F!TypeOK
      => PartsTypeOK
  <2> SUFFICES ASSUME part \in {"log", "history", "window", "form", "framing"},
                      TypeOK, H!TypeOK, W!TypeOK, C!TypeOK, F!TypeOK
               PROVE  PartsTypeOK
    OBVIOUS
  <2>1. CASE part = "log"
    BY <2>1 DEF PartsTypeOK
  <2>2. CASE part = "history"
    BY <2>2 DEF PartsTypeOK
  <2>3. CASE part = "window"
    BY <2>3 DEF PartsTypeOK
  <2>4. CASE part = "form"
    BY <2>4 DEF PartsTypeOK
  <2>5. CASE part = "framing"
    BY <2>5 DEF PartsTypeOK
  <2> QED
    BY <2>1, <2>2, <2>3, <2>4, <2>5
<1> QED
  BY <1>1, <1>2, <1>3, <1>4, <1>5, <1>6, LogRuns, HistoryRuns, WindowRuns, FormRuns,
     FramingRuns, TypeCorrect, HistoryInvariance, WindowInvariance, RowsFit,
     FormInvariance, FramingInvariance, PTL
=============================================================================
