---------------------------- MODULE FramingProofs ----------------------------
(***************************************************************************)
(* Proofs for any sizes and any number of messages that the parser hands   *)
(* on what the peer sent, keeps back less than a message, and leaves       *)
(* nothing in the socket.                                                  *)
(***************************************************************************)
EXTENDS Framing, SequenceTheorems, TLAPS

\* What is under way to the parser: what is kept back or not parsed yet, what
\* is in the socket, and the unit the peer sends next.
Ahead == part \o Tail0 \o kbuf
Trail == Append(Ahead, tosend)

\* A unit, or what is behind the last.
Pair == Nat \X Nat

\* y is d places behind x, if that is in the message of x or the next one's start.
Behind(x, y, d) ==
    /\ x[2] + d <= SizeOf(x[1]) => y = <<x[1], x[2] + d>>
    /\ x[2] + d = SizeOf(x[1]) + 1 => y = <<x[1] + 1, 1>>

\* Units in the order in which the peer sends them.
Chained(t) == \A j, m \in DOMAIN t : j < m => Behind(t[j], t[m], m - j)

FirstUnit(i) == <<i, 1>>

\* The parser is between two messages of the peer, or kept back the beginning
\* of one.
InStep ==
    /\ Chained(Trail) /\ Trail[1] = FirstUnit(Len(out) + 1)
    /\ part # <<>> => /\ Len(out) + 1 <= NMsgs
                      /\ Len(part) <= SizeOf(Len(out) + 1)

\* There is no buffer while none is parsed, and what is kept back is put in
\* front of the next buffer.
BufferInv ==
    /\ pc # "parse" => buf = <<>> /\ curpos = 0
    /\ part = <<>> \/ Rest = 0

\* What arrived since the socket was read to its end is told by the edge.
EdgeInv ==
    pc = "idle" \/ (pc = "parse" /\ nret = 1) => edge \/ kbuf = <<>>

\* The unit the peer sends next is one of its messages, or behind the last.
PeerInv ==
    IF tosend[1] <= NMsgs THEN tosend[2] <= SizeOf(tosend[1]) ELSE tosend[2] = 1

FramingInv ==
    /\ TypeOK /\ PartFits /\ BufferInv /\ EdgeInv /\ PeerInv
    /\ ~misread => OutIsSent /\ (pc # "closed" => InStep)

-----------------------------------------------------------------------------
(* Streams of units.                                                       *)

LEMMA SizeBounds ==
    ASSUME ConstantsAssumption, TypeOK, NEW i \in 1 .. NMsgs
    PROVE  SizeOf(i) \in HeadSize .. MaxSize /\ SizeOf(i) \in Nat \ {0} /\ SizeOf(i) <= MaxSize
BY DEF ConstantsAssumption, TypeOK, SizeOf, Lengths

LEMMA BehindBehind ==
    ASSUME NEW x \in Pair, NEW y, NEW z, SizeOf(x[1]) \in Nat,
           NEW d \in Nat, NEW e \in Nat \ {0}, Behind(x, y, d), Behind(y, z, e)
    PROVE  Behind(x, z, d + e)
<1>1. PICK i \in Nat, k \in Nat : x = <<i, k>>
  BY DEF Pair
<1>2. SizeOf(i) \in Nat /\ x[1] = i /\ x[2] = k
  BY <1>1
<1>3. ASSUME k + (d + e) <= SizeOf(i) + 1 PROVE y[1] = i /\ y[2] = k + d /\ y[2] + e = k + (d + e)
  <2>1. k + d <= SizeOf(i)
    BY <1>2, <1>3
  <2>2. y = <<i, k + d>>
    BY <1>2, <2>1 DEF Behind
  <2>. QED  BY <2>2
<1>4. CASE k + (d + e) <= SizeOf(i)
  <2>1. k + (d + e) <= SizeOf(i) + 1 /\ k + (d + e) # SizeOf(i) + 1
    BY <1>2, <1>4
  <2>. QED  BY <1>2, <1>3, <1>4, <2>1 DEF Behind
<1>5. CASE k + (d + e) = SizeOf(i) + 1
  <2>1. k + (d + e) <= SizeOf(i) + 1 /\ ~(k + (d + e) <= SizeOf(i))
    BY <1>2, <1>5
  <2>. QED  BY <1>2, <1>3, <1>5, <2>1 DEF Behind
<1>. QED  BY <1>2, <1>4, <1>5 DEF Behind

LEMMA AfterIsBehind ==
    ASSUME ConstantsAssumption, TypeOK, PeerInv, tosend[1] <= NMsgs
    PROVE  /\ tosend \in Unit /\ After(tosend) \in (1 .. NMsgs + 1) \X (1 .. MaxSize)
           /\ Behind(tosend, After(tosend), 1)
           /\ LET u == After(tosend)
              IN  IF u[1] <= NMsgs THEN u[2] <= SizeOf(u[1]) ELSE u[2] = 1
<1>1. PICK i \in 1 .. NMsgs, k \in 1 .. MaxSize : tosend = <<i, k>> /\ k <= SizeOf(i)
  BY DEF TypeOK, PeerInv
<1>2. NMsgs \in Nat /\ MaxSize \in Nat /\ SizeOf(i) \in Nat \ {0} /\ SizeOf(i) <= MaxSize
  BY SizeBounds DEF ConstantsAssumption
<1>3. i + 1 <= NMsgs => SizeOf(i + 1) \in Nat \ {0}
  BY <1>2, SizeBounds
<1>4. After(tosend) = IF k < SizeOf(i) THEN <<i, k + 1>> ELSE <<i + 1, 1>>
  BY <1>1 DEF After
<1>5. Behind(tosend, After(tosend), 1)
  BY <1>1, <1>2, <1>4 DEF Behind
<1>6. CASE k < SizeOf(i)
  BY <1>1, <1>2, <1>4, <1>5, <1>6 DEF Unit
<1>7. CASE ~(k < SizeOf(i))
  BY <1>1, <1>2, <1>3, <1>4, <1>5, <1>7 DEF Unit
<1>. QED  BY <1>6, <1>7

LEMMA LastOrBefore ==
    ASSUME NEW L \in Nat, NEW m \in 1 .. L + 1
    PROVE  m \in 1 .. L \/ m = L + 1
OBVIOUS

\* One more unit at the end.
LEMMA AppendChained ==
    ASSUME NEW t \in Seq(Pair), t # <<>>, Chained(t),
           \A j \in 1 .. Len(t) - 1 : SizeOf(t[j][1]) \in Nat,
           NEW u \in Pair, Behind(t[Len(t)], u, 1)
    PROVE  Chained(Append(t, u)) /\ Append(t, u)[1] = t[1]
<1>. DEFINE v == Append(t, u)
<1>1. PICK L \in Nat \ {0} : L = Len(t)
  OBVIOUS
<1>2. DOMAIN v = 1 .. L + 1 /\ DOMAIN t = 1 .. L /\ v[L + 1] = u
  BY <1>1
<1>3. \A j \in 1 .. L : v[j] = t[j]
  BY <1>1
<1>0. v[1] = t[1]
  BY <1>3
<1>. HIDE DEF v
<1>. SUFFICES ASSUME NEW j \in 1 .. L + 1, NEW m \in 1 .. L + 1, j < m
              PROVE  Behind(v[j], v[m], m - j)
  BY <1>0, <1>2 DEF v, Chained
<1>4. j \in 1 .. L /\ v[j] = t[j] /\ t[j] \in Pair
  BY <1>1, <1>3
<1>5. CASE m # L + 1
  <2>1. m \in 1 .. L
    BY <1>5, LastOrBefore
  <2>2. v[m] = t[m] /\ m \in DOMAIN t /\ j \in DOMAIN t
    BY <1>2, <1>3, <1>4, <2>1
  <2>. QED  BY <1>4, <2>2 DEF Chained
<1>6. CASE m = L + 1 /\ j = L
  BY <1>1, <1>2, <1>4, <1>6
<1>7. CASE m = L + 1 /\ j # L
  <2>0. j \in 1 .. Len(t) - 1 /\ j < L /\ j \in DOMAIN t /\ L \in DOMAIN t
    BY <1>1, <1>2, <1>4, <1>7
  <2>1. Behind(t[j], t[L], L - j) /\ SizeOf(t[j][1]) \in Nat
    BY <2>0 DEF Chained
  <2>2. L - j \in Nat /\ (L - j) + 1 = m - j
    BY <1>7
  <2>3. Behind(t[j], u, (L - j) + 1)
    <3>1. Behind(t[L], u, 1) /\ 1 \in Nat \ {0}
      BY <1>1
    <3>. QED  BY <1>4, <2>1, <2>2, <3>1, BehindBehind
  <2>. QED  BY <1>2, <1>4, <1>7, <2>2, <2>3
<1>. QED  BY <1>5, <1>6, <1>7

\* What is left of a stream when its beginning is taken.
LEMMA RestChained ==
    ASSUME NEW S, NEW p \in Seq(S), NEW q \in Seq(S), q # <<>>, Chained(p \o q)
    PROVE  Chained(q) /\ q[1] = (p \o q)[Len(p) + 1]
<1>. DEFINE t == p \o q
<1>1. PICK n \in Nat : n = Len(p)
  OBVIOUS
<1>2. \A j \in DOMAIN q : j \in Nat /\ n + j \in DOMAIN t /\ q[j] = t[n + j]
  BY <1>1
<1>3. q[1] = t[n + 1]
  BY <1>1
<1>. HIDE DEF t
<1>. SUFFICES ASSUME NEW j \in DOMAIN q, NEW m \in DOMAIN q, j < m
              PROVE  Behind(q[j], q[m], m - j)
  BY <1>1, <1>3 DEF Chained, t
<1>4. /\ n + j \in DOMAIN t /\ n + m \in DOMAIN t /\ n + j < n + m
      /\ (n + m) - (n + j) = m - j /\ q[j] = t[n + j] /\ q[m] = t[n + m]
  BY <1>1, <1>2
<1>5. Chained(t)
  BY DEF t
<1>. QED  BY <1>4, <1>5 DEF Chained

LEMMA Joined ==
    ASSUME NEW S, NEW a \in Seq(S), NEW b \in Seq(S), NEW c \in Seq(S)
    PROVE  /\ a \o b \in Seq(S) /\ Len(a \o b) = Len(a) + Len(b)
           /\ <<>> \o a = a /\ a \o <<>> = a
           /\ (a \o b) \o c = a \o (b \o c)
BY ConcatAssociative

\* Three sequences of pairs can be joined in either order.
LEMMA PairsRegroup == \A x, y, z \in Seq(Pair) : (x \o y) \o z = x \o (y \o z)
<1>. TAKE x, y, z \in Seq(Pair)
<1>. HIDE DEF Pair
<1>. QED  BY Joined

\* A sequence is its first n elements and the others.
LEMMA SplitSequence ==
    ASSUME NEW S, NEW t \in Seq(S), NEW n \in 0 .. Len(t)
    PROVE  /\ SubSeq(t, 1, n) \in Seq(S) /\ Len(SubSeq(t, 1, n)) = n
           /\ SubSeq(t, n + 1, Len(t)) \in Seq(S)
           /\ SubSeq(t, 1, n) \o SubSeq(t, n + 1, Len(t)) = t
           /\ n = Len(t) => SubSeq(t, n + 1, Len(t)) = <<>>
<1>1. SubSeq(t, 1, n) \in Seq(S) /\ Len(SubSeq(t, 1, n)) = n
  OBVIOUS
<1>2. SubSeq(t, n + 1, Len(t)) \in Seq(S) /\ Len(SubSeq(t, n + 1, Len(t))) = Len(t) - n
  OBVIOUS
<1>3. SubSeq(t, 1, n) \o SubSeq(t, n + 1, Len(t)) = t
  <2>1. Len(t) \in Nat /\ 1 \in 1 .. Len(t) + 1 /\ n \in 1 - 1 .. Len(t) /\ Len(t) \in n .. Len(t)
    OBVIOUS
  <2>2. SubSeq(t, 1, n) \o SubSeq(t, n + 1, Len(t)) = SubSeq(t, 1, Len(t))
    BY <2>1, ConcatAdjacentSubSeq
  <2>. QED  BY <2>2, SubSeqFull
<1>4. n = Len(t) => SubSeq(t, n + 1, Len(t)) = <<>>
  BY <1>2
<1>. QED  BY <1>1, <1>2, <1>3, <1>4

LEMMA RestOfSequence ==
    ASSUME NEW S, NEW t \in Seq(S), NEW n \in 0 .. Len(t)
    PROVE  /\ SubSeq(t, n + 1, Len(t)) \in Seq(S) /\ Len(SubSeq(t, n + 1, Len(t))) = Len(t) - n
           /\ \A k \in 1 .. Len(t) - n : SubSeq(t, n + 1, Len(t))[k] = t[n + k]
OBVIOUS

LEMMA AppendToRest ==
    \A a, d \in Seq(Pair), u \in Pair : /\ Append(a \o d, u) = a \o Append(d, u)
                                        /\ Append(d, u) \in Seq(Pair) /\ Append(d, u) # <<>>
<1>. SUFFICES ASSUME NEW a \in Seq(Pair), NEW d \in Seq(Pair), NEW u \in Pair
              PROVE  /\ Append(a \o d, u) = a \o Append(d, u)
                     /\ Append(d, u) \in Seq(Pair) /\ Append(d, u) # <<>>
  OBVIOUS
<1>1. Append(d, u) \in Seq(Pair) /\ Append(d, u) # <<>>
  BY AppendProperties
<1>2. a \o d \in Seq(Pair) /\ <<u>> \in Seq(Pair)
  OBVIOUS
<1>3. Append(a \o d, u) = (a \o d) \o <<u>> /\ Append(d, u) = d \o <<u>>
  BY <1>2, AppendIsConcat
<1>4. (a \o d) \o <<u>> = a \o (d \o <<u>>)
  BY <1>2, ConcatAssociative
<1>. QED  BY <1>1, <1>3, <1>4

-----------------------------------------------------------------------------
(* The stream in front of the parser.                                      *)

\* What the proofs need of the types, in terms of sequences of pairs.
LEMMA TrailTypes ==
    ASSUME ConstantsAssumption, TypeOK
    PROVE  /\ Tail0 \in Seq(Unit) /\ Len(Tail0) = Rest /\ Rest \in Nat
           /\ \A k \in 1 .. Rest : Tail0[k] = buf[curpos + k]
           /\ Ahead \in Seq(Unit) /\ Len(Ahead) = Len(part) + Rest + Len(kbuf)
           /\ tosend \in Pair
           /\ Trail \in Seq(Pair) /\ Len(Trail) = Len(Ahead) + 1
           /\ Trail[Len(Trail)] = tosend
           /\ \A k \in 1 .. Len(Ahead) : Trail[k] = Ahead[k] /\ Trail[k] \in Unit
<1>1. buf \in Seq(Unit) /\ part \in Seq(Unit) /\ kbuf \in Seq(Unit) /\ curpos \in 0 .. Len(buf)
  BY DEF TypeOK
<1>2. /\ Tail0 \in Seq(Unit) /\ Len(Tail0) = Rest /\ Rest \in Nat
      /\ \A k \in 1 .. Rest : Tail0[k] = buf[curpos + k]
  BY <1>1, SMTT(20) DEF Tail0, Rest
<1>3. Ahead \in Seq(Unit) /\ Len(Ahead) = Len(part) + Rest + Len(kbuf)
  BY <1>1, <1>2 DEF Ahead
<1>4. tosend \in Pair
  BY DEF TypeOK, Pair, ConstantsAssumption
<1>5. \A u \in Unit : u \in Pair
  BY DEF Unit, Pair, ConstantsAssumption
<1>6. Ahead \in Seq(Pair)
  BY <1>3, <1>5
<1>7. /\ Trail \in Seq(Pair) /\ Len(Trail) = Len(Ahead) + 1
      /\ Trail[Len(Trail)] = tosend
      /\ \A k \in 1 .. Len(Ahead) : Trail[k] = Ahead[k]
  BY <1>4, <1>6 DEF Trail
<1>. QED  BY <1>2, <1>3, <1>4, <1>7

LEMMA TrailLength ==
    ASSUME ConstantsAssumption, TypeOK
    PROVE  /\ Trail \in Seq(Pair) /\ Len(Trail) \in Nat /\ Rest \in Nat
           /\ Len(Ahead) = Len(part) + Rest + Len(kbuf) /\ Len(Trail) = Len(Ahead) + 1
<1>1. Len(part) \in Nat /\ Len(kbuf) \in Nat
  BY DEF TypeOK
<1>2. /\ Trail \in Seq(Pair) /\ Rest \in Nat
      /\ Len(Ahead) = Len(part) + Rest + Len(kbuf) /\ Len(Trail) = Len(Ahead) + 1
  BY TrailTypes
<1>. QED  BY <1>1, <1>2

\* The lengths of the messages do not change.
LEMMA ChainedFrame ==
    ASSUME length' = length, NEW t, Chained(t), Trail' = t
    PROVE  Chained(Trail)'
BY DEF Chained, Behind, SizeOf

\* The first unit in front of the parser is the first one of the next message.
LEMMA NextUnit ==
    ASSUME ConstantsAssumption, TypeOK, BufferInv, InStep, Rest > 0
    PROVE  /\ part = <<>> /\ Len(out) + 1 \in 1 .. NMsgs
           /\ Len(Trail) > Rest
           /\ \A k \in 1 .. Rest : buf[curpos + k] = Trail[k]
           /\ buf[curpos + 1] = FirstUnit(Len(out) + 1)
           /\ DeclaredLengths = {length[Len(out) + 1]}
<1>1. part = <<>>
  BY DEF BufferInv
<1>0. kbuf \in Seq(Unit)
  BY DEF TypeOK
<1>2. /\ Tail0 \in Seq(Unit) /\ Len(Tail0) = Rest /\ Rest \in Nat
      /\ \A k \in 1 .. Rest : Tail0[k] = buf[curpos + k]
  BY TrailTypes
<1>3. Ahead = Tail0 \o kbuf
  BY <1>1, <1>2 DEF Ahead
<1>4. Len(Ahead) >= Rest /\ \A k \in 1 .. Rest : Ahead[k] = Tail0[k]
  BY <1>0, <1>2, <1>3
<1>9. /\ Len(Ahead) \in Nat /\ Len(Trail) = Len(Ahead) + 1
      /\ \A k \in 1 .. Len(Ahead) : Trail[k] = Ahead[k] /\ Trail[k] \in Unit
  <2>1. Ahead \in Seq(Unit)
    BY TrailTypes
  <2>. QED  BY <2>1, TrailTypes
<1>5. Len(Trail) > Rest /\ \A k \in 1 .. Rest : Trail[k] = buf[curpos + k] /\ Trail[k] \in Unit
  BY <1>2, <1>4, <1>9
<1>6. buf[curpos + 1] = FirstUnit(Len(out) + 1) /\ buf[curpos + 1] \in Unit
  BY <1>2, <1>5 DEF InStep
<1>7. Len(out) + 1 \in 1 .. NMsgs
  BY <1>6 DEF FirstUnit, Unit
<1>8. DeclaredLengths = {length[Len(out) + 1]}
  BY <1>6 DEF DeclaredLengths, FirstUnit
<1>. QED  BY <1>1, <1>5, <1>6, <1>7, <1>8

\* What the stream holds of the next message.
LEMMA UnitsInStream ==
    ASSUME ConstantsAssumption, TypeOK, InStep, NEW k \in Nat \ {0}, k <= Len(Trail),
           Len(out) + 1 \in 1 .. NMsgs, k <= SizeOf(Len(out) + 1) + 1
    PROVE  Trail[k] = IF k <= SizeOf(Len(out) + 1) THEN <<Len(out) + 1, k>>
                      ELSE FirstUnit(Len(out) + 2)
<1>. DEFINE i == Len(out) + 1
<1>1. SizeOf(i) \in Nat \ {0} /\ i \in Nat /\ Len(out) + 2 = i + 1
  BY SizeBounds DEF ConstantsAssumption
<1>2. Trail[1] = <<i, 1>> /\ Trail \in Seq(Pair)
  BY TrailTypes DEF InStep, FirstUnit
<1>3. CASE k = 1
  BY <1>1, <1>2, <1>3
<1>4. CASE k # 1
  <2>1. Behind(Trail[1], Trail[k], k - 1)
    <3>1. 1 \in DOMAIN Trail /\ k \in DOMAIN Trail /\ 1 < k
      BY <1>2, <1>4
    <3>. QED  BY <3>1 DEF InStep, Chained
  <2>2. 1 + (k - 1) = k
    OBVIOUS
  <2>3. Trail[1][1] = i /\ Trail[1][2] = 1
    BY <1>2
  <2>4. /\ k <= SizeOf(i) => Trail[k] = <<i, k>>
        /\ k = SizeOf(i) + 1 => Trail[k] = <<i + 1, 1>>
    BY <2>1, <2>2, <2>3 DEF Behind
  <2>. QED  BY <1>1, <2>4 DEF FirstUnit
<1>. QED  BY <1>3, <1>4

\* The parts of the invariant the parser is not behind with.
Framed == OutIsSent /\ (pc # "closed" => InStep)

\* A step that leaves the stream and what was handed on alone.
LEMMA FrameStep ==
    ASSUME Framed, pc # "closed", length' = length, out' = out, Trail' = Trail,
           part' # <<>> => /\ Len(out) + 1 <= NMsgs
                           /\ Len(part') <= SizeOf(Len(out) + 1)
    PROVE  Framed'
<1>1. Chained(Trail)'
  BY ChainedFrame DEF Framed, InStep
<1>2. Trail'[1] = FirstUnit(Len(out') + 1)
  BY DEF Framed, InStep
<1>3. InStep'
  BY <1>1, <1>2 DEF InStep, SizeOf, FirstUnit
<1>4. OutIsSent'
  BY DEF Framed, OutIsSent, UnitsOf, SizeOf
<1>. QED  BY <1>3, <1>4 DEF Framed

\* A step after which the socket is closed.
LEMMA ClosingStep ==
    ASSUME OutIsSent, length' = length, out' = out, pc' = "closed"
    PROVE  Framed'
BY DEF Framed, OutIsSent, UnitsOf, SizeOf

\* An empty buffer is nothing in front of the socket.
LEMMA NoTail ==
    ASSUME buf = <<>> \/ Rest = 0, curpos \in 0 .. Len(buf), buf \in Seq(Unit)
    PROVE  Tail0 = <<>>
BY DEF Tail0, Rest

LEMMA FramingInvInit ==
    ASSUME ConstantsAssumption, Init
    PROVE  FramingInv
<1>1. /\ part = <<>> /\ buf = <<>> /\ kbuf = <<>> /\ out = <<>> /\ curpos = 0 /\ tosend = <<1, 1>>
      /\ pc = "idle" /\ NMsgs \in Nat /\ MaxSize \in Nat \ {0} /\ BufLen \in Nat
  BY DEF Init, ConstantsAssumption
<1>2. TypeOK
  <2>1. tosend \in (1 .. NMsgs + 1) \X (1 .. MaxSize)
    BY <1>1
  <2>2. <<>> \in Seq(Unit) /\ <<>> \in Seq(Seq(Unit)) /\ Len(<<>>) = 0
    OBVIOUS
  <2>3. Len(buf) <= BufLen /\ curpos \in 0 .. Len(buf)
    BY <1>1
  <2>4. /\ length \in [1 .. NMsgs -> Lengths \cup BadLengths]
        /\ ended = FALSE /\ edge = FALSE /\ nret = 1 /\ misread = FALSE
    BY DEF Init
  <2>5. kbuf \in Seq(Unit) /\ buf \in Seq(Unit) /\ part \in Seq(Unit) /\ out \in Seq(Seq(Unit))
    BY <1>1, <2>2
  <2>6. (ended \in BOOLEAN /\ edge \in BOOLEAN /\ misread \in BOOLEAN) /\ nret \in 0 .. 2
    <3>1. ended \in BOOLEAN /\ edge \in BOOLEAN /\ misread \in BOOLEAN
      BY <2>4
    <3>2. nret \in 0 .. 2
      BY <2>4
    <3>. QED  BY <3>1, <3>2
  <2>7. pc \in {"idle", "recv", "parse", "closed"}
    BY <1>1
  <2>. QED  BY <2>1, <2>3, <2>4, <2>5, <2>6, <2>7 DEF TypeOK
<1>3. PartFits /\ BufferInv /\ EdgeInv
  BY <1>1 DEF PartFits, BufferInv, EdgeInv, Rest
<1>4. PeerInv
  <2>1. CASE 1 <= NMsgs
    BY <1>1, <1>2, <2>1, SizeBounds DEF PeerInv
  <2>2. CASE ~(1 <= NMsgs)
    BY <1>1, <2>2 DEF PeerInv
  <2>. QED  BY <2>1, <2>2
<1>5. OutIsSent
  BY <1>1 DEF OutIsSent
<1>6. Trail = <<tosend>>
  <2>1. Tail0 = <<>>
    BY <1>1 DEF Tail0
  <2>2. Ahead = <<>>
    BY <1>1, <2>1 DEF Ahead
  <2>. QED  BY <2>2 DEF Trail
<1>7. Chained(Trail) /\ Trail[1] = tosend
  BY <1>6 DEF Chained
<1>8. InStep
  BY <1>1, <1>7 DEF InStep, FirstUnit
<1>. QED  BY <1>2, <1>3, <1>4, <1>5, <1>8 DEF FramingInv

LEMMA ArriveStep ==
    ASSUME ConstantsAssumption, FramingInv, Arrive
    PROVE  FramingInv'
<1>. USE DEF FramingInv
<1>1. /\ length' = length /\ buf' = buf /\ curpos' = curpos /\ part' = part /\ out' = out
      /\ pc' = pc /\ misread' = misread /\ kbuf' = Append(kbuf, tosend)
      /\ tosend' = After(tosend) /\ tosend[1] <= NMsgs /\ pc # "closed" /\ edge' = TRUE
      /\ ended' = ended /\ nret' = nret
  BY DEF Arrive
<1>2. /\ tosend \in Unit /\ After(tosend) \in (1 .. NMsgs + 1) \X (1 .. MaxSize)
      /\ Behind(tosend, After(tosend), 1)
      /\ LET u == After(tosend)
         IN  IF u[1] <= NMsgs THEN u[2] <= SizeOf(u[1]) ELSE u[2] = 1
  BY <1>1, AfterIsBehind
<1>3. TypeOK'
  BY <1>1, <1>2 DEF TypeOK
<1>4. PartFits' /\ BufferInv' /\ EdgeInv'
  BY <1>1 DEF PartFits, BufferInv, EdgeInv, Rest
<1>5. PeerInv'
  BY <1>1, <1>2 DEF PeerInv, SizeOf
<1>6. ASSUME ~misread' PROVE Framed'
  <2>1. Framed
    BY <1>1, <1>6 DEF Framed
  <2>2. Trail' = Append(Trail, After(tosend))
    <3>1. part \in Seq(Unit) /\ kbuf \in Seq(Unit) /\ Tail0 \in Seq(Unit)
      BY TrailTypes DEF TypeOK
    <3>2. Tail0' = Tail0
      BY <1>1 DEF Tail0
    <3>3. (part \o Tail0) \o Append(kbuf, tosend) = Append((part \o Tail0) \o kbuf, tosend)
      BY <1>2, <3>1, SMTT(20)
    <3>4. Ahead' = Append(Ahead, tosend)
      BY <1>1, <3>2, <3>3 DEF Ahead
    <3>. QED  BY <1>1, <3>4 DEF Trail
  <2>3. /\ Trail \in Seq(Pair) /\ Len(Trail) = Len(Ahead) + 1 /\ Len(Ahead) \in Nat
        /\ Trail[Len(Trail)] = tosend
        /\ \A k \in 1 .. Len(Ahead) : Trail[k] \in Unit
    BY TrailTypes DEF Ahead
  <2>4. \A j \in 1 .. Len(Trail) - 1 : SizeOf(Trail[j][1]) \in Nat
    <3>1. \A u \in Unit : SizeOf(u[1]) \in Nat
      BY SizeBounds DEF Unit
    <3>. QED  BY <2>3, <3>1
  <2>5. After(tosend) \in Pair
    BY <1>2 DEF Pair, ConstantsAssumption
  <2>6. Chained(Append(Trail, After(tosend))) /\ Append(Trail, After(tosend))[1] = Trail[1]
    <3>1. Trail # <<>>
      BY <2>3
    <3>2. Chained(Trail)
      BY <1>1, <2>1 DEF Framed, InStep
    <3>. QED  BY <1>2, <2>3, <2>4, <2>5, <3>1, <3>2, AppendChained
  <2>7. Chained(Trail)'
    BY <1>1, <2>2, <2>6, ChainedFrame
  <2>8. InStep'
    BY <1>1, <2>1, <2>2, <2>6, <2>7 DEF Framed, InStep, FirstUnit, SizeOf
  <2>9. OutIsSent'
    BY <1>1, <2>1 DEF Framed, OutIsSent, UnitsOf, SizeOf
  <2>. QED  BY <2>8, <2>9 DEF Framed
<1>. QED  BY <1>3, <1>4, <1>5, <1>6 DEF Framed

LEMMA WaitingStep ==
    ASSUME ConstantsAssumption, FramingInv, PeerEnds \/ EpollIn
    PROVE  FramingInv'
<1>. USE DEF FramingInv
<1>1. /\ UNCHANGED <<length, tosend, kbuf, buf, curpos, nret, part, out, misread>>
      /\ pc # "closed" /\ edge' \in BOOLEAN /\ ended' \in BOOLEAN
      /\ \/ pc' = pc /\ edge' = TRUE
         \/ pc = "idle" /\ pc' = "recv"
  BY DEF PeerEnds, EpollIn, TypeOK, peer
<1>2. TypeOK'
  BY <1>1 DEF TypeOK
<1>3. PartFits' /\ BufferInv' /\ EdgeInv' /\ PeerInv'
  BY <1>1 DEF PartFits, BufferInv, EdgeInv, PeerInv, Rest, SizeOf
<1>4. Trail' = Trail
  BY <1>1 DEF Trail, Ahead, Tail0
<1>5. ~misread' => Framed'
  BY <1>1, <1>4, FrameStep DEF Framed, InStep
<1>. QED  BY <1>2, <1>3, <1>5 DEF Framed

LEMMA ReadStep ==
    ASSUME ConstantsAssumption, FramingInv, RecvFull \/ RecvAll
    PROVE  FramingInv'
<1>. USE DEF FramingInv
<1>1. PICK n \in 0 .. Len(kbuf), ret \in 0 .. 2 :
          /\ pc = "recv" /\ Read(n, ret)
          /\ ret = 1 => n = Len(kbuf)
          /\ Len(part) + n <= BufLen
  <2>1. Len(part) \in Nat /\ Len(part) < BufLen /\ Len(kbuf) \in Nat
    BY DEF TypeOK, PartFits, ConstantsAssumption
  <2>2. CASE RecvFull
    <3>1. Space \in 0 .. Len(kbuf) /\ Len(part) + Space <= BufLen /\ Read(Space, 2) /\ pc = "recv"
      BY <2>1, <2>2 DEF RecvFull, Space, ConstantsAssumption
    <3>. QED  BY <3>1
  <2>3. CASE RecvAll
    <3>1. PICK r \in {0, 1} : Read(Len(kbuf), r) /\ pc = "recv" /\ Len(part) + Len(kbuf) <= BufLen
      BY <2>1, <2>3 DEF RecvAll, Space, ConstantsAssumption
    <3>. QED  BY <2>1, <3>1
  <2>. QED  BY <2>2, <2>3
<1>2. part \in Seq(Unit) /\ kbuf \in Seq(Unit) /\ buf = <<>> /\ curpos = 0 /\ Len(part) < MaxSize
  BY <1>1 DEF TypeOK, BufferInv, PartFits
<1>3. /\ UNCHANGED <<length, tosend, ended, edge, out, misread>>
      /\ kbuf' = SubSeq(kbuf, n + 1, Len(kbuf)) /\ nret' = ret /\ curpos' = 0 /\ pc' = "parse"
      /\ \/ n > 0 /\ buf' = part \o SubSeq(kbuf, 1, n) /\ part' = <<>>
         \/ n = 0 /\ buf' = <<>> /\ part' = part
  BY <1>1 DEF Read, peer
<1>4. /\ SubSeq(kbuf, 1, n) \in Seq(Unit) /\ Len(SubSeq(kbuf, 1, n)) = n
      /\ SubSeq(kbuf, n + 1, Len(kbuf)) \in Seq(Unit)
      /\ SubSeq(kbuf, 1, n) \o SubSeq(kbuf, n + 1, Len(kbuf)) = kbuf
      /\ n = Len(kbuf) => SubSeq(kbuf, n + 1, Len(kbuf)) = <<>>
  BY <1>2, SplitSequence
<1>5. buf' \in Seq(Unit) /\ Len(buf') <= BufLen /\ part' \in Seq(Unit) /\ Len(part') < MaxSize
  <2>1. <<>> \in Seq(Unit) /\ Len(<<>>) = 0 /\ 0 < MaxSize /\ 0 <= BufLen
    BY DEF ConstantsAssumption
  <2>2. CASE n > 0
    <3>1. buf' = part \o SubSeq(kbuf, 1, n) /\ part' = <<>>
      BY <1>3, <2>2
    <3>2. part \o SubSeq(kbuf, 1, n) \in Seq(Unit) /\ Len(part \o SubSeq(kbuf, 1, n)) = Len(part) + n
      <4>1. part \in Seq(Unit) /\ SubSeq(kbuf, 1, n) \in Seq(Unit) /\ Len(SubSeq(kbuf, 1, n)) = n
        BY <1>2, <1>4
      <4>. QED  BY <4>1, Joined
    <3>. QED  BY <1>1, <2>1, <3>1, <3>2
  <2>3. CASE n = 0
    BY <1>2, <1>3, <2>1, <2>3
  <2>. QED  BY <2>2, <2>3
<1>6. TypeOK'
  <2>1. /\ length' \in [1 .. NMsgs -> Lengths \cup BadLengths]
        /\ tosend' \in (1 .. NMsgs + 1) \X (1 .. MaxSize)
        /\ ended' \in BOOLEAN /\ edge' \in BOOLEAN /\ out' \in Seq(Seq(Unit)) /\ misread' \in BOOLEAN
    BY <1>3 DEF TypeOK
  <2>2. curpos' \in 0 .. Len(buf') /\ nret' \in 0 .. 2
    BY <1>3, <1>5
  <2>. QED  BY <1>3, <1>4, <1>5, <2>1, <2>2 DEF TypeOK
<1>7. PartFits' /\ BufferInv' /\ EdgeInv' /\ PeerInv'
  BY <1>1, <1>3, <1>4, <1>5 DEF PartFits, BufferInv, EdgeInv, PeerInv, Rest, SizeOf
<1>8. Trail' = Trail
  <2>1. Tail0 = <<>>
    BY <1>2 DEF Tail0
  <2>2. Tail0' = buf'
    BY <1>3, <1>5 DEF Tail0
  <2>3. part' \o Tail0' = part \o SubSeq(kbuf, 1, n)
    <3>1. CASE n > 0
      <4>1. part' = <<>> /\ Tail0' = part \o SubSeq(kbuf, 1, n) /\ Tail0' \in Seq(Unit)
        BY <1>3, <1>5, <2>2, <3>1
      <4>. QED  BY <4>1, Joined
    <3>2. CASE n = 0
      <4>1. SubSeq(kbuf, 1, n) = <<>>
        BY <1>4, <3>2
      <4>2. part' = part /\ Tail0' = <<>>
        BY <1>3, <2>2, <3>2
      <4>. QED  BY <4>1, <4>2
    <3>3. n > 0 \/ n = 0
      OBVIOUS
    <3>. QED  BY <3>1, <3>2, <3>3, Zenon
  <2>4. Ahead' = part \o kbuf
    <3>1. Ahead' = (part \o SubSeq(kbuf, 1, n)) \o SubSeq(kbuf, n + 1, Len(kbuf))
      BY <1>3, <2>3 DEF Ahead
    <3>2. @ = part \o (SubSeq(kbuf, 1, n) \o SubSeq(kbuf, n + 1, Len(kbuf)))
      <4>1. /\ part \in Seq(Unit) /\ SubSeq(kbuf, 1, n) \in Seq(Unit)
            /\ SubSeq(kbuf, n + 1, Len(kbuf)) \in Seq(Unit)
        BY <1>2, <1>4
      <4>2. \A a, b, c \in Seq(Unit) : (a \o b) \o c = a \o (b \o c)
        BY Joined
      <4>. QED  BY <4>1, <4>2
    <3>. QED  BY <1>4, <3>1, <3>2
  <2>5. Ahead = part \o kbuf
    BY <1>2, <2>1 DEF Ahead
  <2>. QED  BY <1>3, <2>4, <2>5 DEF Trail
<1>9. ~misread' => Framed'
  BY <1>1, <1>3, <1>8, FrameStep DEF Framed, InStep
<1>. QED  BY <1>6, <1>7, <1>9 DEF Framed

LEMMA CloseStep ==
    ASSUME ConstantsAssumption, FramingInv, Close,
           UNCHANGED <<length, tosend, ended, edge, nret, out, misread>>
    PROVE  FramingInv'
<1>. USE DEF FramingInv
<1>1. /\ UNCHANGED <<length, tosend, ended, edge, nret, out, misread>>
      /\ pc' = "closed" /\ buf' = <<>> /\ curpos' = 0 /\ part' = <<>> /\ kbuf' = <<>>
  BY DEF Close
<1>2. TypeOK'
  <2>1. <<>> \in Seq(Unit) /\ Len(<<>>) = 0
    OBVIOUS
  <2>2. Len(buf') <= BufLen /\ curpos' \in 0 .. Len(buf')
    BY <1>1, <2>1 DEF ConstantsAssumption
  <2>. QED  BY <1>1, <2>1, <2>2 DEF TypeOK
<1>3. PartFits' /\ BufferInv' /\ EdgeInv' /\ PeerInv'
  BY <1>1 DEF PartFits, BufferInv, EdgeInv, PeerInv, SizeOf, ConstantsAssumption
<1>4. ~misread' => Framed'
  BY <1>1, ClosingStep DEF Framed
<1>. QED  BY <1>2, <1>3, <1>4 DEF Framed

LEMMA KeepingStep ==
    ASSUME ConstantsAssumption, FramingInv, PartialHead \/ PartialBody
    PROVE  FramingInv'
<1>. USE DEF FramingInv
<1>1. /\ UNCHANGED <<length, tosend, ended, kbuf, edge, pc, buf, nret, out>>
      /\ pc = "parse" /\ Rest > 0 /\ curpos' = Len(buf)
  BY DEF PartialHead, PartialBody, Parsing, peer
<1>2. part = <<>> /\ buf \in Seq(Unit) /\ kbuf \in Seq(Unit) /\ curpos \in 0 .. Len(buf)
  BY <1>1 DEF BufferInv, TypeOK
<1>3. Tail0 \in Seq(Unit) /\ Len(Tail0) = Rest /\ Rest \in Nat
  BY TrailTypes
<1>4. SavedHead \in Seq(Unit) /\ Len(SavedHead) = Rest
  BY <1>2 DEF SavedHead, Rest
<1>5. /\ part' \in Seq(Unit) /\ Len(part') = Rest /\ misread' \in BOOLEAN
      /\ ~misread' => ~misread /\ part' = Tail0
  BY <1>3, <1>4 DEF PartialHead, PartialBody, SavedBody, TypeOK
<1>6. Rest < MaxSize
  <2>1. CASE PartialHead
    BY <2>1, <1>3 DEF PartialHead, ConstantsAssumption
  <2>2. CASE PartialBody
    BY <2>2, <1>3 DEF PartialBody, Lengths, ConstantsAssumption
  <2>. QED  BY <2>1, <2>2
<1>7. TypeOK'
  BY <1>1, <1>2, <1>5 DEF TypeOK
<1>8. PartFits' /\ BufferInv' /\ EdgeInv' /\ PeerInv'
  BY <1>1, <1>2, <1>5, <1>6 DEF PartFits, BufferInv, EdgeInv, PeerInv, Rest, SizeOf
<1>9. ASSUME ~misread' PROVE Framed'
  <2>1. Framed /\ InStep /\ part' = Tail0
    BY <1>1, <1>5, <1>9 DEF Framed
  <2>2. Trail' = Trail
    <3>1. Tail0' = <<>>
      BY <1>1, <1>2 DEF Tail0
    <3>2. Ahead' = Tail0 \o kbuf
      BY <1>1, <1>3, <2>1, <3>1 DEF Ahead
    <3>3. Ahead = Tail0 \o kbuf
      BY <1>2, <1>3 DEF Ahead
    <3>. QED  BY <1>1, <3>2, <3>3 DEF Trail
  <2>3. Len(out) + 1 \in 1 .. NMsgs /\ DeclaredLengths = {length[Len(out) + 1]}
    BY <1>1, <2>1, NextUnit
  <2>4. Rest <= SizeOf(Len(out) + 1)
    <3>1. CASE PartialHead
      <4>1. Rest < HeadSize
        BY <3>1 DEF PartialHead
      <4>2. SizeOf(Len(out) + 1) \in HeadSize .. MaxSize
        BY <2>3, SizeBounds
      <4>. QED  BY <1>3, <4>1, <4>2 DEF ConstantsAssumption
    <3>2. CASE PartialBody
      <4>1. PICK n \in Lengths : n = length[Len(out) + 1] /\ n > Rest
        BY <2>3, <3>2 DEF PartialBody
      <4>. QED  BY <1>3, <4>1 DEF SizeOf, Lengths, ConstantsAssumption
    <3>. QED  BY <3>1, <3>2
  <2>. QED  BY <1>1, <1>5, <2>1, <2>2, <2>3, <2>4, FrameStep
<1>. QED  BY <1>5, <1>7, <1>8, <1>9 DEF Framed

LEMMA WholeMessageStep ==
    ASSUME ConstantsAssumption, FramingInv, WholeMessage
    PROVE  FramingInv'
<1>. USE DEF FramingInv
<1>. DEFINE i == Len(out) + 1
<1>1. /\ UNCHANGED <<length, tosend, ended, kbuf, edge, pc, buf, nret, part, misread>>
      /\ pc = "parse" /\ Rest > 0
  BY DEF WholeMessage, Parsing, peer
<1>2. PICK n \in Lengths :
          /\ n \in DeclaredLengths /\ n <= Rest
          /\ out' = Append(out, SubSeq(buf, curpos + 1, curpos + n)) /\ curpos' = curpos + n
  BY DEF WholeMessage
<1>. DEFINE msg == SubSeq(buf, curpos + 1, curpos + n)
<1>3. /\ part = <<>> /\ buf \in Seq(Unit) /\ kbuf \in Seq(Unit) /\ curpos \in 0 .. Len(buf)
      /\ Rest \in Nat /\ Rest = Len(buf) - curpos /\ out \in Seq(Seq(Unit)) /\ n \in Nat \ {0}
  BY <1>1 DEF BufferInv, TypeOK, Rest, Lengths, ConstantsAssumption
<1>4. /\ msg \in Seq(Unit) /\ Len(msg) = n /\ \A k \in 1 .. n : msg[k] = buf[curpos + k]
      /\ curpos + n \in 0 .. Len(buf)
  BY <1>2, <1>3
<1>. HIDE DEF msg
<1>5. out' = Append(out, msg) /\ out' \in Seq(Seq(Unit)) /\ Len(out') = i
  BY <1>2, <1>3, <1>4 DEF msg
<1>6. TypeOK'
  BY <1>1, <1>2, <1>4, <1>5 DEF TypeOK
<1>7. PartFits' /\ BufferInv' /\ EdgeInv' /\ PeerInv'
  BY <1>1, <1>3 DEF PartFits, BufferInv, EdgeInv, PeerInv, SizeOf
<1>8. ASSUME ~misread' PROVE Framed'
  <2>1. OutIsSent /\ InStep
    BY <1>1, <1>8
  <2>2. /\ i \in 1 .. NMsgs /\ DeclaredLengths = {length[i]} /\ Len(Trail) > Rest
        /\ \A k \in 1 .. Rest : buf[curpos + k] = Trail[k]
    BY <1>1, <2>1, NextUnit
  <2>3. n = length[i] /\ SizeOf(i) = n
    BY <1>2, <2>2 DEF SizeOf
  <2>4. Trail \in Seq(Pair) /\ Len(Trail) \in Nat /\ n < Len(Trail)
    <3>1. Trail \in Seq(Pair) /\ Len(Trail) \in Nat
      BY TrailLength
    <3>2. Len(Trail) > Rest
      BY <2>2
    <3>. QED  BY <1>2, <1>3, <3>1, <3>2
  <2>5. \A k \in 1 .. n : msg[k] = <<i, k>>
    <3>1. ASSUME NEW k \in 1 .. n PROVE msg[k] = <<i, k>>
      <4>1. k \in Nat \ {0} /\ k <= Len(Trail) /\ k <= SizeOf(i) /\ k <= SizeOf(i) + 1 /\ k \in 1 .. Rest
        <5>1. k \in Nat \ {0} /\ k <= n /\ k <= n + 1
          BY <1>3
        <5>2. k <= Len(Trail)
          BY <1>3, <2>4, <5>1
        <5>3. k \in 1 .. Rest
          BY <1>2, <1>3, <5>1
        <5>. QED  BY <2>3, <5>1, <5>2, <5>3
      <4>2. Trail[k] = <<i, k>>
        BY <2>1, <2>2, <4>1, UnitsInStream
      <4>. QED  BY <1>4, <2>2, <4>1, <4>2
    <3>. QED  BY <3>1
  <2>6. Trail[n + 1] = FirstUnit(i + 1)
    <3>1. n + 1 \in Nat \ {0} /\ n + 1 <= Len(Trail) /\ n + 1 = SizeOf(i) + 1 /\ ~(n + 1 <= SizeOf(i))
      BY <1>3, <2>3, <2>4
    <3>2. Len(out) + 2 = i + 1
      BY <1>3
    <3>3. Trail[n + 1] = IF n + 1 <= SizeOf(i) THEN <<i, n + 1>> ELSE FirstUnit(Len(out) + 2)
      <4>1. \A k \in Nat \ {0} : k <= Len(Trail) /\ k <= SizeOf(i) + 1 =>
                Trail[k] = IF k <= SizeOf(i) THEN <<i, k>> ELSE FirstUnit(Len(out) + 2)
        BY <2>1, <2>2, UnitsInStream
      <4>2. n + 1 <= SizeOf(i) + 1
        BY <3>1
      <4>. QED  BY <3>1, <4>1, <4>2
    <3>. QED  BY <3>1, <3>2, <3>3
  <2>7. msg = UnitsOf(i)
    <3>1. msg = [k \in 1 .. n |-> msg[k]]
      BY <1>4
    <3>2. UnitsOf(i) = [k \in 1 .. n |-> <<i, k>>]
      BY <2>3 DEF UnitsOf
    <3>. QED  BY <2>5, <3>1, <3>2
  <2>8. OutIsSent'
    <3>1. ASSUME NEW k \in 1 .. i PROVE out'[k] = UnitsOf(k)'
      <4>1. UnitsOf(k)' = UnitsOf(k)
        BY <1>1 DEF UnitsOf, SizeOf
      <4>2. CASE k = i
        BY <1>3, <1>5, <2>7, <4>1, <4>2
      <4>3. CASE k # i
        <5>1. k \in 1 .. Len(out) /\ out'[k] = out[k]
          <6>1. k \in 1 .. Len(out)
            BY <1>3, <4>3, LastOrBefore
          <6>. QED  BY <1>3, <1>4, <1>5, <6>1
        <5>. QED  BY <2>1, <4>1, <5>1 DEF OutIsSent
      <4>. QED  BY <4>2, <4>3
    <3>. QED  BY <1>5, <3>1 DEF OutIsSent
  <2>9. PICK head \in Seq(Pair) :
            /\ Len(head) = n /\ Trail = head \o Trail'
            /\ Trail' \in Seq(Pair) /\ Trail' # <<>>
    <3>1. Tail0 \in Seq(Unit) /\ Len(Tail0) = Rest /\ tosend \in Pair
      BY TrailTypes
    <3>2. /\ SubSeq(Tail0, 1, n) \in Seq(Unit) /\ Len(SubSeq(Tail0, 1, n)) = n
          /\ SubSeq(Tail0, 1, n) \o SubSeq(Tail0, n + 1, Rest) = Tail0
      <4>1. n \in 0 .. Len(Tail0)
        BY <1>2, <1>3, <3>1
      <4>. QED  BY <3>1, <4>1, SplitSequence
    <3>3. Tail0' = SubSeq(Tail0, n + 1, Rest) /\ Tail0' \in Seq(Unit)
      <4>1. /\ Tail0' \in Seq(Unit) /\ Len(Tail0') = Rest - n
            /\ \A k \in 1 .. Rest - n : Tail0'[k] = buf[curpos + n + k]
        <5>. DEFINE c == curpos + n
        <5>1. Tail0' = SubSeq(buf, c + 1, Len(buf)) /\ c \in 0 .. Len(buf)
          BY <1>1, <1>2, <1>4 DEF Tail0
        <5>2. Len(buf) - c = Rest - n
          BY <1>3
        <5>. HIDE DEF c
        <5>3. /\ Tail0' \in Seq(Unit) /\ Len(Tail0') = Len(buf) - c
              /\ \A k \in 1 .. Len(buf) - c : Tail0'[k] = buf[c + k]
          BY <1>3, <5>1, RestOfSequence
        <5>. QED  BY <5>2, <5>3 DEF c
      <4>2. /\ SubSeq(Tail0, n + 1, Rest) \in Seq(Unit) /\ Len(SubSeq(Tail0, n + 1, Rest)) = Rest - n
            /\ \A k \in 1 .. Rest - n : SubSeq(Tail0, n + 1, Rest)[k] = Tail0[n + k]
        <5>1. n \in 0 .. Len(Tail0)
          BY <1>2, <1>3, <3>1
        <5>. QED  BY <3>1, <5>1, RestOfSequence
      <4>3. \A k \in 1 .. Rest - n : Tail0[n + k] = buf[curpos + n + k]
        BY <1>2, <1>3 DEF Tail0
      <4>. DEFINE w == SubSeq(Tail0, n + 1, Rest)
      <4>. HIDE DEF w
      <4>4. Tail0' = w
        <5>1. \A k \in 1 .. Len(w) : Tail0'[k] = w[k]
          BY <4>1, <4>2, <4>3 DEF w
        <5>. QED  BY <4>1, <4>2, <5>1, SeqEqual DEF w
      <4>. QED  BY <4>1, <4>4 DEF w
    <3>4. Ahead = Tail0 \o kbuf /\ Ahead' = Tail0' \o kbuf
      BY <1>1, <1>3, <3>1, <3>3, Joined DEF Ahead
    <3>5. /\ SubSeq(Tail0, 1, n) \in Seq(Pair) /\ Tail0' \in Seq(Pair)
          /\ kbuf \in Seq(Pair)
      <4>1. \A t \in Seq(Unit) : t \in Seq(Pair)
        <5>1. \A u \in Unit : u \in Pair
          BY DEF Unit, Pair, ConstantsAssumption
        <5>. QED  BY <5>1
      <4>. QED  BY <1>3, <3>2, <3>3, <4>1
    <3>6. PICK head \in Seq(Pair), rest \in Seq(Pair) :
              head = SubSeq(Tail0, 1, n) /\ rest = Tail0' /\ Tail0 = head \o rest
      BY <3>2, <3>3, <3>5
    <3>7. PICK d \in Seq(Pair) : d = rest \o kbuf /\ (head \o rest) \o kbuf = head \o d
      <4>1. rest \o kbuf \in Seq(Pair)
        BY <3>5
      <4>2. (head \o rest) \o kbuf = head \o (rest \o kbuf)
        <5>1. PICK k \in Seq(Pair) : k = kbuf
          BY <3>5
        <5>2. (head \o rest) \o k = head \o (rest \o k)
          BY PairsRegroup, Zenon
        <5>. QED  BY <5>1, <5>2, Zenon
      <4>. QED  BY <4>1, <4>2
    <3>8. Trail = head \o Trail' /\ Trail' \in Seq(Pair) /\ Trail' # <<>>
      <4>1. Trail = Append(head \o d, tosend) /\ Trail' = Append(d, tosend)
        BY <1>1, <3>4, <3>6, <3>7 DEF Trail
      <4>. QED  BY <3>1, <4>1, AppendToRest
    <3>. QED  BY <3>2, <3>6, <3>8
  <2>10. Chained(Trail') /\ Trail'[1] = Trail[n + 1]
    <3>1. Chained(head \o Trail')
      BY <2>1, <2>9 DEF InStep
    <3>. QED  BY <2>9, <3>1, RestChained
  <2>11. Chained(Trail)'
    BY <1>1, <2>10, ChainedFrame
  <2>12. InStep'
    BY <1>1, <1>3, <1>5, <2>6, <2>10, <2>11 DEF InStep, FirstUnit
  <2>. QED  BY <2>8, <2>12 DEF Framed
<1>. QED  BY <1>6, <1>7, <1>8 DEF Framed

LEMMA ParsedStep ==
    ASSUME ConstantsAssumption, FramingInv, Parsed
    PROVE  FramingInv'
<1>. USE DEF FramingInv
<1>1. UNCHANGED <<length, tosend, ended, edge, nret, out, misread>> /\ pc = "parse" /\ Rest = 0
  BY DEF Parsed, peer
<1>2. CASE nret = 0
  BY <1>1, <1>2, CloseStep DEF Parsed
<1>3. CASE nret # 0
  <2>1. /\ pc' = (IF nret = 1 THEN "idle" ELSE "recv")
        /\ buf' = <<>> /\ curpos' = 0 /\ part' = part /\ kbuf' = kbuf
    BY <1>3 DEF Parsed, AfterParse
  <2>2. TypeOK'
    <3>1. <<>> \in Seq(Unit) /\ Len(<<>>) = 0
      OBVIOUS
    <3>2. Len(buf') <= BufLen /\ curpos' \in 0 .. Len(buf')
      BY <2>1, <3>1 DEF ConstantsAssumption
    <3>. QED  BY <1>1, <2>1, <3>1, <3>2 DEF TypeOK
  <2>3. PartFits' /\ BufferInv' /\ EdgeInv' /\ PeerInv'
    BY <1>1, <1>3, <2>1 DEF PartFits, BufferInv, EdgeInv, PeerInv, Rest, SizeOf
  <2>4. Trail' = Trail
    <3>1. Tail0 = <<>> /\ Tail0' = <<>>
      BY <1>1, <2>1, NoTail DEF TypeOK, Tail0
    <3>. QED  BY <1>1, <2>1, <3>1 DEF Trail, Ahead
  <2>5. ~misread' => Framed'
    BY <1>1, <2>1, <2>4, FrameStep DEF Framed, InStep
  <2>. QED  BY <2>2, <2>3, <2>5 DEF Framed
<1>. QED  BY <1>2, <1>3

\* Every step of the loop and of the network.
LEMMA NextFramingInv ==
    ASSUME ConstantsAssumption, FramingInv, [Next]_vars
    PROVE  FramingInv'
<1>1. CASE Arrive
  BY <1>1, ArriveStep
<1>2. CASE PeerEnds \/ EpollIn
  BY <1>2, WaitingStep
<1>3. CASE RecvFull \/ RecvAll
  BY <1>3, ReadStep
<1>4. CASE RecvError \/ BadLength
  <2>1. Close /\ UNCHANGED <<length, tosend, ended, edge, nret, out, misread>>
    BY <1>4 DEF RecvError, BadLength, peer
  <2>. QED  BY <2>1, CloseStep
<1>5. CASE PartialHead \/ PartialBody
  BY <1>5, KeepingStep
<1>6. CASE WholeMessage
  BY <1>6, WholeMessageStep
<1>7. CASE Parsed
  BY <1>7, ParsedStep
<1>8. CASE UNCHANGED vars
  <2>1. UNCHANGED <<length, tosend, ended, kbuf, edge, pc, buf, curpos, nret, part, out, misread>>
    BY <1>8 DEF vars, peer
  <2>2. TypeOK' /\ PartFits' /\ BufferInv' /\ EdgeInv' /\ PeerInv'
    BY <2>1 DEF FramingInv, TypeOK, PartFits, BufferInv, EdgeInv, PeerInv, Rest, SizeOf
  <2>3. ASSUME ~misread' PROVE Framed'
    <3>1. Trail' = Trail
      BY <2>1 DEF Trail, Ahead, Tail0
    <3>2. CASE pc = "closed"
      BY <2>1, <2>3, <3>2, ClosingStep DEF FramingInv
    <3>3. CASE pc # "closed"
      BY <2>1, <2>3, <3>1, <3>3, FrameStep DEF FramingInv, Framed, InStep
    <3>. QED  BY <3>2, <3>3
  <2>. QED  BY <2>2, <2>3 DEF FramingInv, Framed
<1>. QED  BY <1>1, <1>2, <1>3, <1>4, <1>5, <1>6, <1>7, <1>8 DEF Next, Quiet

\* An edge to report or nothing in the socket, and what is kept back is the
\* beginning of the next message.
LEMMA FramingInvNothingStranded ==
    ASSUME ConstantsAssumption, FramingInv
    PROVE  NothingStranded
<1>. SUFFICES ASSUME pc = "idle", ~edge, ~misread, part # <<>>
              PROVE  part = SubSeq(UnitsOf(Len(out) + 1), 1, Len(part))
  BY DEF FramingInv, EdgeInv, NothingStranded
<1>. DEFINE i == Len(out) + 1
<1>1. TypeOK /\ InStep
  BY DEF FramingInv
<1>2. part \in Seq(Unit) /\ Len(part) \in Nat \ {0} /\ Len(part) <= SizeOf(i) /\ i <= NMsgs
  BY <1>1 DEF TypeOK, InStep
<1>3. i \in 1 .. NMsgs /\ SizeOf(i) \in Nat
  <2>1. i \in 1 .. NMsgs
    BY <1>1, <1>2 DEF TypeOK, ConstantsAssumption
  <2>. QED  BY <1>1, <2>1, SizeBounds
<1>4. ASSUME NEW k \in 1 .. Len(part) PROVE part[k] = <<i, k>>
  <2>1. Tail0 \in Seq(Unit) /\ kbuf \in Seq(Unit)
    BY <1>1, TrailTypes DEF TypeOK
  <2>0. Len(Ahead) >= Len(part) /\ Len(Ahead) \in Nat /\ Len(Trail) = Len(Ahead) + 1
    BY <1>1, <1>2, <2>1, TrailLength
  <2>2. Ahead[k] = part[k]
    <3>1. part \o Tail0 \in Seq(Unit) /\ Len(part \o Tail0) = Len(part) + Len(Tail0)
      BY <1>2, <2>1
    <3>2. (part \o Tail0)[k] = part[k]
      BY <1>2, <2>1
    <3>. QED  BY <1>2, <2>1, <3>1, <3>2 DEF Ahead
  <2>3. Trail[k] = part[k] /\ k <= Len(Trail)
    <3>1. \A m \in 1 .. Len(Ahead) : Trail[m] = Ahead[m]
      BY <1>1, TrailTypes
    <3>2. k \in 1 .. Len(Ahead)
      BY <1>2, <2>0
    <3>. QED  BY <2>0, <2>2, <3>1, <3>2
  <2>4. k \in Nat \ {0} /\ k <= SizeOf(i) /\ k <= SizeOf(i) + 1
    BY <1>2, <1>3
  <2>. QED  BY <1>1, <1>3, <2>3, <2>4, UnitsInStream
<1>5. /\ UnitsOf(i) \in Seq(Pair) /\ Len(UnitsOf(i)) = SizeOf(i)
      /\ \A k \in 1 .. SizeOf(i) : UnitsOf(i)[k] = <<i, k>>
  BY <1>3 DEF UnitsOf, Pair
<1>. DEFINE w == SubSeq(UnitsOf(i), 1, Len(part))
<1>6. /\ w \in Seq(Pair) /\ Len(w) = Len(part)
      /\ \A k \in 1 .. Len(part) : w[k] = UnitsOf(i)[k]
  <2>. HIDE DEF i
  <2>. QED  BY <1>2, <1>3, <1>5
<1>. HIDE DEF w
<1>7. \A k \in 1 .. Len(part) : part[k] = w[k]
  <2>1. \A k \in 1 .. Len(part) : k \in 1 .. SizeOf(i)
    BY <1>2, <1>3
  <2>. HIDE DEF i
  <2>. QED  BY <1>4, <1>5, <1>6, <2>1
<1>8. part = w
  <2>1. part = [k \in 1 .. Len(part) |-> part[k]] /\ w = [k \in 1 .. Len(part) |-> w[k]]
    BY <1>2, <1>6
  <2>. QED  BY <1>7, <2>1
<1>. QED  BY <1>8 DEF w

-----------------------------------------------------------------------------

\* The inductive invariant holds in every state.
THEOREM FramingInvCorrect ==
    ASSUME ConstantsAssumption
    PROVE  Spec => []FramingInv
<1>1. Init => FramingInv
  BY FramingInvInit
<1>2. FramingInv /\ [Next]_vars => FramingInv'
  BY NextFramingInv
<1>. QED  BY <1>1, <1>2, PTL DEF Spec

=============================================================================
