----------------------------- MODULE BytesProofs -----------------------------
(***************************************************************************)
(* Both buffers implement ByteFifo, for a block of any size.  Of           *)
(* CircularBuffer: where the two regions are, and what a call does to the  *)
(* bytes they hold.  Of RingBuffer: how far apart the indexes are, though  *)
(* they and their sums go round (SizeIs), and which cells lie between      *)
(* them.  Of the codec: at which place of a message each of its words      *)
(* stands (Has), which is the same for every host.                         *)
(***************************************************************************)
EXTENDS MCBytes, TLAPS, SequenceTheorems

-----------------------------------------------------------------------------
(* The inductive invariant.                                                *)

BlockOK == mem \in [Offset -> Byte] /\ end \in {0, Size}

\* A is inside the block; when it is empty, it is at the start.
AOK ==
    /\ a \in [at : 0 .. Size, size : 0 .. Size]
    /\ a.at + a.size <= end
    /\ a.size = 0 => a.at = 0

\* B, if allocated, is at the start of the block and ends before A, which
\* holds something.
BOK ==
    /\ b \in [at : {Null, 0}, size : 0 .. Size]
    /\ b.at = Null => b.size = 0
    /\ b.at # Null => a.size > 0 /\ b.size <= a.at

\* What GetSpace told is still true, and B is allocated if it was to be.
PromiseOK == promised # Null => promised = Room /\ b = WithB

BipInv == BlockOK /\ AOK /\ BOK /\ PromiseOK

-----------------------------------------------------------------------------
(* The bytes of two regions of a block, one behind the other.              *)

Piece(m, r) == [i \in 1 .. r.size |-> m[r.at + i - 1]]
Joined(m, x, y) == Piece(m, x) \o Piece(m, y)
Nth(m, x, y, i) == IF i <= x.size THEN m[x.at + i - 1] ELSE m[y.at + (i - x.size) - 1]

\* The region is inside the block, or it is empty.
Fits(r) == r.size \in Nat /\ (r.size > 0 => r.at \in Nat /\ r.at + r.size <= Size)

Holds(m, x, y) ==
    /\ Joined(m, x, y) \in Seq(Byte)
    /\ Len(Joined(m, x, y)) = x.size + y.size
    /\ \A i \in 1 .. x.size + y.size : Joined(m, x, y)[i] = Nth(m, x, y, i)

LEMMA StoredIs == Stored = Joined(mem, a, b) /\ Stored' = Joined(mem', a', b')
  BY DEF Stored, Bytes, Joined, Piece

LEMMA PieceFacts ==
    ASSUME NEW m \in [Offset -> Byte], NEW r, Fits(r)
    PROVE  /\ Piece(m, r) \in Seq(Byte) /\ Len(Piece(m, r)) = r.size
           /\ \A i \in 1 .. r.size : Piece(m, r)[i] = m[r.at + i - 1]
<1>1. Size \in Nat
  BY ConstantsAssumption
<1>2. ASSUME NEW i \in 1 .. r.size PROVE m[r.at + i - 1] \in Byte
  <2>1. r.at + i - 1 \in Offset
    BY <1>1 DEF Fits, Offset
  <2>. QED  BY <2>1
<1>3. Piece(m, r) \in [1 .. r.size -> Byte]
  BY <1>2 DEF Piece
<1>4. r.size \in Nat
  BY DEF Fits
<1>5. \A i \in 1 .. r.size : Piece(m, r)[i] = m[r.at + i - 1]
  BY DEF Piece
<1>. QED  BY <1>3, <1>4, <1>5

LEMMA JoinedFacts ==
    ASSUME NEW m \in [Offset -> Byte], NEW x, NEW y, Fits(x), Fits(y)
    PROVE  Holds(m, x, y)
<1>1. PICK s : s = Piece(m, x)
  OBVIOUS
<1>2. PICK t : t = Piece(m, y)
  OBVIOUS
<1>3. /\ s \in Seq(Byte) /\ Len(s) = x.size
      /\ \A i \in 1 .. x.size : s[i] = m[x.at + i - 1]
  BY <1>1, PieceFacts
<1>4. /\ t \in Seq(Byte) /\ Len(t) = y.size
      /\ \A i \in 1 .. y.size : t[i] = m[y.at + i - 1]
  BY <1>2, PieceFacts
<1>5. x.size \in Nat /\ y.size \in Nat
  BY DEF Fits
<1>6. /\ s \o t \in Seq(Byte) /\ Len(s \o t) = Len(s) + Len(t)
      /\ \A i \in 1 .. Len(s) + Len(t) :
            (s \o t)[i] = IF i <= Len(s) THEN s[i] ELSE t[i - Len(s)]
  BY <1>3, <1>4, ConcatProperties
<1>7. ASSUME NEW i \in 1 .. x.size + y.size PROVE (s \o t)[i] = Nth(m, x, y, i)
  <2>1. CASE i <= x.size
    BY <1>3, <1>5, <1>6, <1>4, <2>1 DEF Nth
  <2>2. CASE ~ (i <= x.size)
    <3>1. i - x.size \in 1 .. y.size
      BY <1>5, <2>2
    <3>. QED  BY <1>3, <1>4, <1>6, <2>2, <3>1 DEF Nth
  <2>. QED  BY <2>1, <2>2
<1>8. Joined(m, x, y) = s \o t
  BY <1>1, <1>2 DEF Joined
<1>. QED  BY <1>3, <1>4, <1>6, <1>7, <1>8 DEF Holds

\* Where the regions of a buffer that satisfies the invariant are.
LEMMA RegionFacts ==
    ASSUME BipInv
    PROVE  /\ Size \in Nat /\ Size > 0 /\ end \in {0, Size} /\ Null \notin Int
           /\ a.at \in Nat /\ a.size \in Nat /\ b.size \in Nat
           /\ a.at + a.size <= end /\ b.at \in {Null, 0}
           /\ Fits(a) /\ Fits(b)
           /\ a = Region(a.at, a.size) /\ b = Region(b.at, b.size)
  BY ConstantsAssumption DEF BipInv, BlockOK, AOK, BOK, Fits, Region

LEMMA StoredFacts ==
    ASSUME BipInv
    PROVE  /\ Holds(mem, a, b) /\ Stored = Joined(mem, a, b)
           /\ Stored \in Seq(Byte) /\ Len(Stored) = a.size + b.size
           /\ \A i \in 1 .. a.size + b.size : Stored[i] = Nth(mem, a, b, i)
<1>1. Holds(mem, a, b)
  BY RegionFacts, JoinedFacts DEF BipInv, BlockOK
<1>. QED  BY <1>1, StoredIs DEF Holds

LEMMA StoredNext ==
    ASSUME BipInv'
    PROVE  /\ a'.size \in Nat /\ b'.size \in Nat
           /\ Stored' \in Seq(Byte) /\ Len(Stored') = a'.size + b'.size
           /\ \A i \in 1 .. a'.size + b'.size : Stored'[i] = Nth(mem', a', b', i)
<1>1. mem' \in [Offset -> Byte] /\ Fits(a') /\ Fits(b')
  BY ConstantsAssumption DEF BipInv, BlockOK, AOK, BOK, Fits
<1>2. Holds(mem', a', b')
  BY <1>1, JoinedFacts
<1>. QED  BY <1>1, <1>2, StoredIs DEF Holds, Fits

-----------------------------------------------------------------------------
(* Bytes that are stored: Write and Receive.                               *)

\* Region B after the test whether to allocate it, and the room there is.
LEMMA WithBFacts ==
    ASSUME BipInv
    PROVE  /\ WithB \in [at : {Null, 0}, size : 0 .. Size] /\ WithB.size = b.size
           /\ WithB.at = Null => WithB = b /\ b.size = 0 /\ Room = end - a.at - a.size
           /\ WithB.at # Null => /\ WithB.at = 0 /\ a.size > 0 /\ b.size <= a.at
                                 /\ Room = a.at - b.size
           /\ Room \in 0 .. Size
<1>. DEFINE alloc == b.at = Null /\ end - a.at - a.size < a.at
<1>0. Null # 0
  BY ConstantsAssumption
<1>1. b \in [at : {Null, 0}, size : 0 .. Size]
  BY DEF BipInv, BOK
<1>2. WithB = IF alloc THEN [b EXCEPT !.at = 0] ELSE b
  BY DEF WithB, GetAFreeSpace, GetSpaceBeforeA
<1>3. alloc => a.size > 0 /\ b.size = 0 /\ 0 <= a.at
  <2>1. b.at = Null => b.size = 0
    BY DEF BipInv, BOK
  <2>2. a.at \in Nat /\ a.size \in Nat /\ end \in Nat /\ a.at + a.size <= end
    BY RegionFacts DEF BipInv, AOK
  <2>3. a.size = 0 => a.at = 0
    BY DEF BipInv, AOK
  <2>. QED  BY <2>1, <2>2, <2>3
<1>4. CASE alloc
  <2>1. WithB = [b EXCEPT !.at = 0]
    BY <1>2, <1>4
  <2>2. WithB \in [at : {Null, 0}, size : 0 .. Size] /\ WithB.at = 0 /\ WithB.size = b.size
    BY <1>1, <2>1
  <2>3. Room = a.at - 0 - b.size
    BY <1>0, <2>2 DEF Room, GetBFreeSpace
  <2>. QED  BY <1>0, <1>3, <1>4, <2>2, <2>3, RegionFacts
<1>5. CASE ~alloc
  <2>1. WithB = b
    BY <1>2, <1>5
  <2>2. CASE b.at = Null
    <3>1. Room = end - a.at - a.size
      BY <2>1, <2>2 DEF Room, GetAFreeSpace
    <3>. QED  BY <1>1, <2>1, <2>2, <3>1, RegionFacts DEF BipInv, BOK
  <2>3. CASE b.at # Null
    <3>1. b.at = 0
      BY <2>3, RegionFacts
    <3>2. Room = a.at - 0 - b.size
      BY <2>1, <2>3, <3>1 DEF Room, GetBFreeSpace
    <3>. QED  BY <1>1, <2>1, <2>3, <3>1, <3>2, RegionFacts DEF BipInv, BOK
  <2>. QED  BY <2>2, <2>3
<1>. QED  BY <1>4, <1>5

\* In block m2 the n cells from q on have the data, the others are as in m.
Placed(m, m2, q, n, data) ==
    /\ m2 \in [Offset -> Byte]
    /\ \A j \in Offset : ~ (j >= q /\ j < q + n) => m2[j] = m[j]
    /\ \A k \in 1 .. n : m2[q + k - 1] = data[k]

\* The regions x and y of block m followed by data are x2 and y2 of block m2.
Follows(m, x, y, data, m2, x2, y2) == Joined(m2, x2, y2) = Joined(m, x, y) \o data

\* Bytes behind region A, while B is empty.
LEMMA AppendToA ==
    ASSUME NEW m \in [Offset -> Byte], NEW m2 \in [Offset -> Byte],
           NEW p \in Nat, NEW s \in Nat, NEW n \in Nat, NEW y, y.size = 0,
           NEW q, q = p + s, q + n <= Size,
           NEW data \in [1 .. n -> Byte], Placed(m, m2, q, n, data),
           NEW x, x = Region(p, s), NEW x2, x2 = Region(p, s + n)
    PROVE  Follows(m, x, y, data, m2, x2, y)
<1>1. Size \in Nat /\ data \in Seq(Byte) /\ Len(data) = n
  BY ConstantsAssumption
<1>a. /\ \A j \in Offset : ~ (j >= p + s /\ j < p + s + n) => m2[j] = m[j]
      /\ \A k \in 1 .. n : m2[p + s + k - 1] = data[k]
  BY DEF Placed
<1>2. Fits(Region(p, s)) /\ Fits(Region(p, s + n)) /\ Fits(y)
  BY <1>1 DEF Fits, Region
<1>3. PICK u : u = Joined(m, Region(p, s), y)
  OBVIOUS
<1>4. PICK v : v = Joined(m2, Region(p, s + n), y)
  OBVIOUS
<1>5. /\ u \in Seq(Byte) /\ Len(u) = s
      /\ \A i \in 1 .. s : u[i] = m[p + i - 1]
  <2>1. Holds(m, Region(p, s), y)
    BY <1>2, JoinedFacts
  <2>. QED  BY <1>3, <2>1 DEF Holds, Region, Nth
<1>6. /\ v \in Seq(Byte) /\ Len(v) = s + n
      /\ \A i \in 1 .. s + n : v[i] = m2[p + i - 1]
  <2>1. Holds(m2, Region(p, s + n), y)
    BY <1>2, JoinedFacts
  <2>. QED  BY <1>4, <2>1 DEF Holds, Region, Nth
<1>7. /\ u \o data \in Seq(Byte) /\ Len(u \o data) = s + n
      /\ \A i \in 1 .. s + n : (u \o data)[i] = IF i <= s THEN u[i] ELSE data[i - s]
  <2>1. /\ u \o data \in Seq(Byte) /\ Len(u \o data) = Len(u) + Len(data)
        /\ \A i \in 1 .. Len(u) + Len(data) :
              (u \o data)[i] = IF i <= Len(u) THEN u[i] ELSE data[i - Len(u)]
    BY <1>1, <1>5, ConcatProperties
  <2>. QED  BY ONLY <1>1, <1>5, <2>1, s \in Nat, n \in Nat
<1>8. ASSUME NEW i \in 1 .. s + n PROVE v[i] = (u \o data)[i]
  <2>1. CASE i <= s
    <3>1. p + i - 1 \in Offset /\ p + i - 1 < p + s
      BY <1>1, <2>1 DEF Offset
    <3>2. m2[p + i - 1] = m[p + i - 1]
      BY <1>a, <3>1
    <3>. QED  BY <1>5, <1>6, <1>7, <2>1, <3>2
  <2>2. CASE ~ (i <= s)
    <3>1. i - s \in 1 .. n /\ p + s + (i - s) - 1 = p + i - 1
      BY <2>2
    <3>2. m2[p + i - 1] = data[i - s]
      BY <1>a, <3>1
    <3>. QED  BY <1>6, <1>7, <2>2, <3>2
  <2>. QED  BY <2>1, <2>2
<1>9. v = u \o data
  BY <1>6, <1>7, <1>8, SeqEqual
<1>. QED  BY <1>3, <1>4, <1>9 DEF Follows

\* Bytes behind region B, in front of A.
LEMMA AppendToB ==
    ASSUME NEW m \in [Offset -> Byte], NEW m2 \in [Offset -> Byte],
           NEW p \in Nat, NEW s \in Nat, NEW n \in Nat,
           NEW y, y.size \in Nat, y.size > 0 => y.at = 0,
           p + s <= Size, NEW q, q = y.size, q + n <= p,
           NEW data \in [1 .. n -> Byte], Placed(m, m2, q, n, data),
           NEW x, x = Region(p, s), NEW y2, y2 = Region(0, q + n)
    PROVE  Follows(m, x, y, data, m2, x, y2)
<1>1. Size \in Nat /\ data \in Seq(Byte) /\ Len(data) = n
  BY ConstantsAssumption
<1>2. PICK t \in Nat : t = y.size /\ t = q
  OBVIOUS
<1>a. /\ \A j \in Offset : (j < t \/ j >= t + n) => m2[j] = m[j]
      /\ \A k \in 1 .. n : m2[t + k - 1] = data[k]
  BY <1>1, <1>2 DEF Placed, Offset
<1>3. Fits(Region(p, s)) /\ Fits(Region(0, t + n)) /\ Fits(y)
  BY <1>1, <1>2 DEF Fits, Region
<1>4. PICK u : u = Joined(m, Region(p, s), y)
  OBVIOUS
<1>5. PICK v : v = Joined(m2, Region(p, s), Region(0, t + n))
  OBVIOUS
<1>6. /\ u \in Seq(Byte) /\ Len(u) = s + t
      /\ \A i \in 1 .. s + t : u[i] = IF i <= s THEN m[p + i - 1] ELSE m[0 + (i - s) - 1]
  <2>1. Holds(m, Region(p, s), y)
    BY <1>3, JoinedFacts
  <2>2. ASSUME NEW i \in 1 .. s + t
        PROVE  u[i] = IF i <= s THEN m[p + i - 1] ELSE m[0 + (i - s) - 1]
    <3>1. ~ (i <= s) => y.at = 0
      BY <1>2
    <3>2. u[i] = IF i <= s THEN m[p + i - 1] ELSE m[y.at + (i - s) - 1]
      BY <1>2, <1>4, <2>1 DEF Holds, Region, Nth
    <3>. QED  BY <3>1, <3>2
  <2>. QED  BY <1>2, <1>4, <2>1, <2>2 DEF Holds, Region
<1>7. /\ v \in Seq(Byte) /\ Len(v) = s + t + n
      /\ \A i \in 1 .. s + t + n :
            v[i] = IF i <= s THEN m2[p + i - 1] ELSE m2[0 + (i - s) - 1]
  <2>1. Holds(m2, Region(p, s), Region(0, t + n))
    BY <1>3, JoinedFacts
  <2>. QED  BY <1>5, <2>1 DEF Holds, Region, Nth
<1>8. /\ u \o data \in Seq(Byte) /\ Len(u \o data) = s + t + n
      /\ \A i \in 1 .. s + t + n :
            (u \o data)[i] = IF i <= s + t THEN u[i] ELSE data[i - (s + t)]
  <2>1. /\ u \o data \in Seq(Byte) /\ Len(u \o data) = Len(u) + Len(data)
        /\ \A i \in 1 .. Len(u) + Len(data) :
              (u \o data)[i] = IF i <= Len(u) THEN u[i] ELSE data[i - Len(u)]
    BY <1>1, <1>6, ConcatProperties
  <2>. QED  BY ONLY <1>1, <1>6, <2>1, s \in Nat, t \in Nat, n \in Nat
<1>9. ASSUME NEW i \in 1 .. s + t + n PROVE v[i] = (u \o data)[i]
  <2>1. CASE i <= s
    <3>1. p + i - 1 \in Offset /\ p + i - 1 >= t + n
      BY <1>1, <1>2, <2>1 DEF Offset
    <3>2. m2[p + i - 1] = m[p + i - 1]
      BY <1>a, <3>1
    <3>3. i \in 1 .. s + t /\ i <= s + t
      BY <2>1
    <3>. QED  BY <1>6, <1>7, <1>8, <2>1, <3>2, <3>3
  <2>2. CASE ~ (i <= s) /\ i <= s + t
    <3>1. 0 + (i - s) - 1 \in Offset /\ 0 + (i - s) - 1 < t
      BY <1>1, <1>2, <2>2 DEF Offset
    <3>2. m2[0 + (i - s) - 1] = m[0 + (i - s) - 1]
      BY <1>a, <3>1
    <3>3. i \in 1 .. s + t
      BY <2>2
    <3>. QED  BY <1>6, <1>7, <1>8, <2>2, <3>2, <3>3
  <2>3. CASE ~ (i <= s + t)
    <3>1. i - (s + t) \in 1 .. n /\ t + (i - (s + t)) - 1 = 0 + (i - s) - 1 /\ ~ (i <= s)
      BY <2>3
    <3>2. m2[0 + (i - s) - 1] = data[i - (s + t)]
      BY <1>a, <3>1
    <3>. QED  BY <1>7, <1>8, <2>3, <3>1, <3>2
  <2>. QED  BY <2>1, <2>2, <2>3
<1>10. v = u \o data
  BY <1>7, <1>8, <1>9, SeqEqual
<1>. QED  BY <1>2, <1>4, <1>5, <1>10 DEF Follows

\* What Filled does to the block: the cells behind the region get the data.
LEMMA FilledFacts ==
    ASSUME mem \in [Offset -> Byte], NEW r, r.at \in Nat, r.size \in Nat,
           NEW n \in Nat, NEW data \in [1 .. n -> Byte], r.at + r.size + n <= Size
    PROVE  Placed(mem, Filled(r, data), r.at + r.size, n, data)
<1>1. PICK at \in Nat, size \in Nat : at = r.at /\ size = r.size
  OBVIOUS
<1>2. Size \in Nat /\ Len(data) = n
  BY ConstantsAssumption
<1>3. PICK f : f = Filled(r, data)
  OBVIOUS
<1>4. f = [i \in Offset |-> IF i >= at + size /\ i < at + size + n
                            THEN data[i - at - size + 1] ELSE mem[i]]
  BY <1>1, <1>2, <1>3 DEF Filled
<1>5. ASSUME NEW i \in Offset, i >= at + size, i < at + size + n
      PROVE  data[i - at - size + 1] \in Byte
  <2>1. i - at - size + 1 \in 1 .. n
    BY <1>2, <1>5 DEF Offset
  <2>. QED  BY <2>1
<1>6. f \in [Offset -> Byte]
  BY <1>4, <1>5
<1>7. ASSUME NEW k \in 1 .. n PROVE f[at + size + k - 1] = data[k]
  <2>1. /\ at + size + k - 1 \in Offset /\ at + size + k - 1 >= at + size
        /\ at + size + k - 1 < at + size + n
    <3>1. at + size + n <= Size
      BY <1>1
    <3>. QED  BY <1>2, <3>1 DEF Offset
  <2>2. (at + size + k - 1) - at - size + 1 = k
    OBVIOUS
  <2>. QED  BY <1>4, <2>1, <2>2
<1>8. \A j \in Offset : ~ (j >= at + size /\ j < at + size + n) => f[j] = mem[j]
  BY <1>4
<1>9. Placed(mem, f, at + size, n, data)
  BY <1>6, <1>7, <1>8 DEF Placed
<1>. QED  BY <1>1, <1>3, <1>9

\* The step of a call that stores data, wherever there is room for it.
StoreStep(data) ==
    /\ mem' = Filled(IF WithB.at # Null THEN WithB ELSE a, data)
    /\ b' = IF WithB.at # Null THEN Grow(WithB, Len(data)) ELSE b
    /\ a' = IF WithB.at # Null THEN a ELSE Grow(a, Len(data))
    /\ end' = end /\ promised' = Null

\* Bytes that are stored are stored behind all others; no other stored byte
\* changes, and the regions stay apart.
LEMMA StoreAppends ==
    ASSUME BipInv, end = Size, NEW n \in Nat, NEW data \in [1 .. n -> Byte], n <= Room,
           StoreStep(data)
    PROVE  BipInv' /\ Stored' = Stored \o data
<1>1. data \in Seq(Byte) /\ Len(data) = n
  OBVIOUS
<1>2. mem \in [Offset -> Byte] /\ end' = Size
  BY DEF BipInv, BlockOK, StoreStep
<1>3. /\ a = Region(a.at, a.size) /\ a.at \in Nat /\ a.size \in Nat /\ b.size \in Nat
      /\ a.at + a.size <= Size
      /\ b.size > 0 => b.at = 0
      /\ Size \in Nat
  BY RegionFacts DEF BipInv, BOK
<1>4. CASE WithB.at = Null
  <2>1. /\ a' = [a EXCEPT !.size = @ + n] /\ b' = b /\ b.at = Null /\ b.size = 0
        /\ mem' = Filled(a, data) /\ promised' = Null
    BY <1>1, <1>4, WithBFacts DEF Grow, StoreStep
  <2>2. a.at + a.size + n <= Size /\ a' = Region(a.at, a.size + n)
    BY <1>3, <1>4, <2>1, WithBFacts DEF Region
  <2>3. Placed(mem, mem', a.at + a.size, n, data)
    BY <1>2, <1>3, <2>1, <2>2, FilledFacts
  <2>4. Follows(mem, a, b, data, mem', a', b)
    <3>1. PICK p \in Nat, s \in Nat, q \in Nat : p = a.at /\ s = a.size /\ q = p + s
      BY <1>3
    <3>2. /\ a = Region(p, s) /\ a' = Region(p, s + n) /\ q + n <= Size
          /\ Placed(mem, mem', q, n, data)
      BY <1>3, <2>2, <2>3, <3>1
    <3>3. mem' \in [Offset -> Byte]
      BY <3>2 DEF Placed
    <3>. QED  BY ONLY <1>2, <2>1, <3>1, <3>2, <3>3, AppendToA, n \in Nat,
                      data \in [1 .. n -> Byte]
  <2>5. AOK'
    BY <1>2, <1>3, <2>2, RegionFacts DEF AOK, Region, BipInv
  <2>6. BOK'
    BY <2>1, <2>2, RegionFacts DEF BipInv, BOK, Region
  <2>. QED  BY <1>2, <1>3, <2>1, <2>2, <2>3, <2>4, <2>5, <2>6, StoredIs
            DEF BipInv, BlockOK, PromiseOK, Placed, Follows
<1>5. CASE WithB.at # Null
  <2>1. /\ a' = a /\ b' = [WithB EXCEPT !.size = @ + n]
        /\ mem' = Filled(WithB, data) /\ promised' = Null
    BY <1>1, <1>5 DEF Grow, StoreStep
  <2>2. /\ b' = Region(0, b.size + n) /\ b.size + n <= a.at /\ a.size > 0
        /\ WithB.at = 0 /\ WithB.size = b.size
    <3>1. /\ WithB \in [at : {Null, 0}, size : 0 .. Size] /\ WithB.at = 0
          /\ WithB.size = b.size /\ a.size > 0 /\ Room = a.at - b.size
      BY <1>5, WithBFacts
    <3>2. b' = Region(0, b.size + n)
      BY <2>1, <3>1 DEF Region
    <3>3. b.size + n <= a.at
      BY <1>3, <3>1
    <3>. QED  BY <3>1, <3>2, <3>3
  <2>3. Placed(mem, mem', b.size, n, data)
    <3>1. PICK r : r = WithB
      OBVIOUS
    <3>2. /\ r.at \in Nat /\ r.size \in Nat /\ r.at + r.size + n <= Size
          /\ r.at + r.size = b.size /\ mem' = Filled(r, data)
      BY <1>3, <2>1, <2>2, <3>1
    <3>3. Placed(mem, Filled(r, data), r.at + r.size, n, data)
      BY ONLY <1>2, <3>2, FilledFacts, n \in Nat, data \in [1 .. n -> Byte]
    <3>. QED  BY <3>2, <3>3
  <2>5. Follows(mem, a, b, data, mem', a, b')
    <3>1. PICK p \in Nat, s \in Nat, q \in Nat : p = a.at /\ s = a.size /\ q = b.size
      BY <1>3
    <3>2. /\ a = Region(p, s) /\ b' = Region(0, q + n) /\ q + n <= p /\ p + s <= Size
          /\ Placed(mem, mem', q, n, data)
      BY <1>3, <2>2, <2>3, <3>1
    <3>3. mem' \in [Offset -> Byte]
      BY <3>2 DEF Placed
    <3>. QED  BY ONLY <1>2, <1>3, <3>1, <3>2, <3>3, AppendToB, n \in Nat,
                      data \in [1 .. n -> Byte]
  <2>6. AOK'
    BY <1>2, <2>1, RegionFacts DEF AOK, BipInv
  <2>7. BOK'
    <3>1. b'.at = 0 /\ b'.size = b.size + n /\ 0 # Null
      BY <2>2, RegionFacts DEF Region
    <3>2. b.size + n \in 0 .. Size
      BY <1>3, <2>2
    <3>. QED  BY <2>1, <2>2, <3>1, <3>2 DEF BOK, Region
  <2>. QED  BY <1>2, <1>3, <2>1, <2>2, <2>3, <2>5, <2>6, <2>7, StoredIs
            DEF BipInv, BlockOK, PromiseOK, Placed, Follows
<1>. QED  BY <1>4, <1>5

-----------------------------------------------------------------------------
(* Bytes that go: Read and Remove.                                         *)

LEMMA RestFacts ==
    ASSUME NEW u \in Seq(Byte), NEW n \in Nat, NEW len, len = Len(u)
    PROVE  /\ SubSeq(u, n + 1, len) \in Seq(Byte)
           /\ Len(SubSeq(u, n + 1, len)) = IF n < len THEN len - n ELSE 0
           /\ \A i \in 1 .. len - n : SubSeq(u, n + 1, len)[i] = u[n + i]
<1>1. len \in Nat
  OBVIOUS
<1>2. \A i \in n + 1 .. len : u[i] \in Byte
  BY <1>1
<1>3. /\ SubSeq(u, n + 1, len) \in Seq(Byte)
      /\ Len(SubSeq(u, n + 1, len)) = IF n + 1 <= len THEN len - (n + 1) + 1 ELSE 0
      /\ \A i \in 1 .. len - (n + 1) + 1 : SubSeq(u, n + 1, len)[i] = u[(n + 1) + i - 1]
  BY <1>1, <1>2, SubSeqProperties
<1>4. ASSUME NEW i \in 1 .. len - n PROVE SubSeq(u, n + 1, len)[i] = u[n + i]
  <2>1. i \in 1 .. len - (n + 1) + 1 /\ (n + 1) + i - 1 = n + i
    BY <1>1
  <2>. QED  BY <1>3, <2>1
<1>. QED  BY <1>1, <1>3, <1>4

\* What is left of the regions x and y of block m without the first n bytes is
\* what the regions x2 and y2 of block m2 hold.
LosesFirst(m, x, y, n, m2, x2, y2) ==
    Joined(m2, x2, y2) = SubSeq(Joined(m, x, y), n + 1, x.size + y.size)

\* Less than region A goes.
LEMMA CutInA ==
    ASSUME NEW m \in [Offset -> Byte], NEW p \in Nat, NEW s \in Nat, NEW t \in Nat,
           NEW n \in Nat, n < s, p + s <= Size, NEW y, Fits(y), y.size = t,
           NEW x, x = Region(p, s), NEW x2, x2 = Region(p + n, s - n)
    PROVE  LosesFirst(m, x, y, n, m, x2, y)
<1>1. Size \in Nat
  BY ConstantsAssumption
<1>2. Fits(Region(p, s)) /\ Fits(Region(p + n, s - n))
  BY <1>1 DEF Fits, Region
<1>3. PICK u : u = Joined(m, Region(p, s), y)
  OBVIOUS
<1>4. PICK v : v = Joined(m, Region(p + n, s - n), y)
  OBVIOUS
<1>5. /\ u \in Seq(Byte) /\ Len(u) = s + t
      /\ \A i \in 1 .. s + t :
            u[i] = IF i <= s THEN m[p + i - 1] ELSE m[y.at + (i - s) - 1]
  <2>1. Holds(m, Region(p, s), y)
    BY <1>2, JoinedFacts
  <2>. QED  BY <1>3, <2>1 DEF Holds, Region, Nth
<1>6. /\ v \in Seq(Byte) /\ Len(v) = (s - n) + t
      /\ \A i \in 1 .. (s - n) + t :
            v[i] = IF i <= s - n THEN m[p + n + i - 1] ELSE m[y.at + (i - (s - n)) - 1]
  <2>1. Holds(m, Region(p + n, s - n), y)
    BY <1>2, JoinedFacts
  <2>. QED  BY <1>4, <2>1 DEF Holds, Region, Nth
<1>7. PICK w : w = SubSeq(u, n + 1, s + t)
  OBVIOUS
<1>8. /\ w \in Seq(Byte) /\ Len(w) = (s - n) + t
      /\ \A i \in 1 .. (s + t) - n : w[i] = u[n + i]
  <2>1. /\ w \in Seq(Byte) /\ Len(w) = IF n < s + t THEN (s + t) - n ELSE 0
        /\ \A i \in 1 .. (s + t) - n : w[i] = u[n + i]
    BY <1>5, <1>7, RestFacts
  <2>2. n < s + t /\ (s + t) - n = (s - n) + t
    OBVIOUS
  <2>. QED  BY <2>1, <2>2
<1>9. ASSUME NEW i \in 1 .. (s - n) + t PROVE v[i] = w[i]
  <2>1. n + i \in 1 .. s + t /\ i \in 1 .. (s + t) - n
    OBVIOUS
  <2>2. w[i] = u[n + i]
    BY <1>8, <2>1
  <2>3. CASE i <= s - n
    <3>1. n + i <= s /\ p + n + i - 1 = p + (n + i) - 1
      BY <2>3
    <3>. QED  BY <1>5, <1>6, <2>1, <2>2, <2>3, <3>1
  <2>4. CASE ~ (i <= s - n)
    <3>1. ~ (n + i <= s) /\ i - (s - n) = (n + i) - s
      BY <2>4
    <3>. QED  BY <1>5, <1>6, <2>1, <2>2, <2>4, <3>1
  <2>. QED  BY <2>3, <2>4
<1>10. v = w
  BY <1>6, <1>8, <1>9, SeqEqual
<1>. QED  BY <1>3, <1>4, <1>7, <1>10 DEF LosesFirst, Region

\* The k cells from l on are moved to the start of the block.
MovedDown(m, m2, l, k) == \A i \in Offset : i < k => m2[i] = m[l + i]

\* Region A goes and the first bytes of B, l of its t; the rest is moved to
\* the start of the block.
LEMMA MoveB ==
    ASSUME NEW m \in [Offset -> Byte], NEW m2 \in [Offset -> Byte],
           NEW p \in Nat, NEW s \in Nat, NEW t \in Nat, NEW n \in Nat, NEW l \in Nat,
           p + s <= Size, t <= p, n >= s, l = IF n - s < t THEN n - s ELSE t,
           NEW y, y.size = t, t > 0 => y.at = 0,
           NEW k, k = t - l, MovedDown(m, m2, l, k),
           NEW x, x = Region(p, s), NEW x2, x2 = Region(0, k), NEW y2, y2.size = 0
    PROVE  LosesFirst(m, x, y, n, m2, x2, y2)
<1>1. Size \in Nat /\ l <= t /\ t <= Size
  BY ConstantsAssumption
<1>2. Fits(Region(p, s)) /\ Fits(Region(0, t - l)) /\ Fits(y) /\ Fits(y2)
  BY <1>1 DEF Fits, Region
<1>3. PICK u : u = Joined(m, Region(p, s), y)
  OBVIOUS
<1>4. PICK v : v = Joined(m2, Region(0, t - l), y2)
  OBVIOUS
<1>5. /\ u \in Seq(Byte) /\ Len(u) = s + t
      /\ \A i \in 1 .. s + t : ~ (i <= s) => u[i] = m[(i - s) - 1]
  <2>1. Holds(m, Region(p, s), y)
    BY <1>2, JoinedFacts
  <2>2. ASSUME NEW i \in 1 .. s + t, ~ (i <= s) PROVE u[i] = m[(i - s) - 1]
    <3>1. y.at = 0
      BY <2>2
    <3>2. u[i] = m[y.at + (i - s) - 1]
      BY <1>3, <2>1, <2>2 DEF Holds, Region, Nth
    <3>. QED  BY <3>1, <3>2
  <2>. QED  BY <1>3, <2>1, <2>2 DEF Holds, Region
<1>6. /\ v \in Seq(Byte) /\ Len(v) = t - l
      /\ \A i \in 1 .. t - l : v[i] = m2[i - 1]
  <2>1. Holds(m2, Region(0, t - l), y2)
    BY <1>2, JoinedFacts
  <2>2. /\ v \in Seq(Byte) /\ Len(v) = (t - l) + 0
        /\ \A i \in 1 .. (t - l) + 0 :
              v[i] = Nth(m2, Region(0, t - l), y2, i)
    BY <1>4, <2>1 DEF Holds, Region
  <2>3. ASSUME NEW i \in 1 .. t - l PROVE v[i] = m2[i - 1]
    <3>1. i \in 1 .. (t - l) + 0 /\ i <= t - l /\ 0 + i - 1 = i - 1
      BY <1>1
    <3>2. Nth(m2, Region(0, t - l), y2, i) = m2[0 + i - 1]
      BY <3>1 DEF Nth, Region
    <3>. QED  BY <2>2, <3>1, <3>2
  <2>. QED  BY <1>1, <2>2, <2>3
<1>7. PICK w : w = SubSeq(u, n + 1, s + t)
  OBVIOUS
<1>8. /\ w \in Seq(Byte) /\ Len(w) = t - l
      /\ \A i \in 1 .. (s + t) - n : w[i] = u[n + i]
  <2>1. /\ w \in Seq(Byte) /\ Len(w) = IF n < s + t THEN (s + t) - n ELSE 0
        /\ \A i \in 1 .. (s + t) - n : w[i] = u[n + i]
    BY <1>5, <1>7, RestFacts
  <2>2. (IF n < s + t THEN (s + t) - n ELSE 0) = t - l
    OBVIOUS
  <2>. QED  BY <2>1, <2>2
<1>9. ASSUME NEW i \in 1 .. t - l PROVE v[i] = w[i]
  <2>1. l = n - s /\ n + i \in 1 .. s + t /\ i \in 1 .. (s + t) - n /\ ~ (n + i <= s)
    OBVIOUS
  <2>2. i - 1 \in Offset /\ i - 1 < t - l /\ l + (i - 1) = ((n + i) - s) - 1
    BY <1>1, <2>1 DEF Offset
  <2>3. m2[i - 1] = m[((n + i) - s) - 1]
    BY <2>2 DEF MovedDown
  <2>4. u[n + i] = m[((n + i) - s) - 1]
    BY <1>5, <2>1
  <2>. QED  BY <1>6, <1>8, <2>1, <2>3, <2>4
<1>10. v = w
  BY <1>6, <1>8, <1>9, SeqEqual
<1>. QED  BY <1>3, <1>4, <1>7, <1>10 DEF LosesFirst, Region

\* The oldest n bytes go; the others stay in order.
LEMMA CutFrontFacts ==
    ASSUME BipInv, NEW n \in Nat, CutFront(n), end' = end, promised' = Null
    PROVE  BipInv' /\ Stored' = SubSeq(Stored, n + 1, Len(Stored))
<1>1. /\ mem \in [Offset -> Byte] /\ Size \in Nat /\ Size > 0 /\ Null \notin Int
      /\ end \in {0, Size} /\ a.at + a.size <= Size /\ a.at + a.size <= end
      /\ Fits(a) /\ Fits(b)
  BY RegionFacts DEF BipInv, BlockOK
<1>2. PICK p \in Nat, s \in Nat, t \in Nat :
         p = a.at /\ s = a.size /\ t = b.size /\ a = Region(p, s)
  BY RegionFacts
<1>3. /\ t > 0 => b.at = 0 /\ t <= p
      /\ t <= p
      /\ b \in [at : {Null, 0}, size : 0 .. Size]
  BY <1>1, <1>2 DEF BipInv, BOK
<1>4. Len(Stored) = s + t /\ Stored = Joined(mem, a, b)
  BY <1>2, StoredFacts
<1>5. CASE n < s
  <2>1. Least(n, a.size) = n /\ Least(n - n, b.size) = 0
    BY <1>2, <1>5 DEF Least
  <2>2. Settle(Cut(a, n), b)
    BY <2>1 DEF CutFront
  <2>3. Cut(a, n) = Region(p + n, s - n) /\ Cut(a, n).size > 0
    BY <1>2, <1>5 DEF Cut, Region
  <2>4. a' = Region(p + n, s - n) /\ b' = b /\ mem' = mem
    BY <2>2, <2>3 DEF Settle
  <2>5. LosesFirst(mem, a, b, n, mem, a', b)
    BY <1>1, <1>2, <1>5, <2>4, CutInA
  <2>6. a'.at = p + n /\ a'.size = s - n
    BY <2>4 DEF Region
  <2>7. AOK'
    BY <1>1, <1>2, <1>5, <2>4, <2>6 DEF AOK, Region
  <2>8. BOK'
    BY <1>1, <1>2, <1>3, <1>5, <2>4, <2>6 DEF BipInv, BOK
  <2>. QED  BY <1>1, <1>2, <1>4, <2>4, <2>5, <2>7, <2>8, StoredIs
            DEF BipInv, BlockOK, PromiseOK, LosesFirst
<1>6. CASE n >= s
  <2>. DEFINE l == IF n - s < t THEN n - s ELSE t
              rb == IF l = 0 THEN b ELSE Cut(b, l)
  <2>1. Least(n, a.size) = s /\ Least(n - s, b.size) = l
    BY <1>2, <1>6 DEF Least
  <2>2. l \in Nat /\ l <= t
    BY <1>6
  <2>. HIDE DEF l
  <2>3. Settle(Cut(a, s), rb)
    BY <2>1 DEF CutFront
  <2>4. Cut(a, s).size = 0
    BY <1>2 DEF Cut, Region
  <2>5. rb.size = t - l /\ (t - l > 0 => rb.at = l)
    <3>1. CASE l = 0
      BY <1>2, <1>3, <2>2, <3>1
    <3>2. CASE l # 0
      <4>1. b.at = 0
        BY <1>3, <2>2, <3>2
      <4>. QED  BY <1>2, <2>2, <3>2, <4>1 DEF Cut, Region
    <3>. QED  BY <3>1, <3>2
  <2>. HIDE DEF rb
  <2>6. /\ a' = Region(0, t - l) /\ b' = Region(Null, 0)
        /\ mem' = [i \in Offset |-> IF i < t - l THEN mem[rb.at + i] ELSE mem[i]]
    BY <2>3, <2>4, <2>5 DEF Settle
  <2>7. \A i \in Offset : i < t - l => mem'[i] = mem[l + i]
    BY <1>1, <2>2, <2>5, <2>6 DEF Offset
  <2>8. mem' \in [Offset -> Byte]
    <3>1. ASSUME NEW i \in Offset, i < t - l PROVE mem[l + i] \in Byte
      <4>1. l + i \in Offset
        BY <1>1, <1>2, <1>3, <2>2, <3>1 DEF Offset
      <4>. QED  BY <1>1, <4>1
    <3>2. ASSUME NEW i \in Offset PROVE mem'[i] \in Byte
      BY <1>1, <2>6, <2>7, <3>1, <3>2
    <3>. QED  BY <2>6, <3>2
  <2>9. b'.size = 0 /\ b'.at = Null /\ a'.at = 0 /\ a'.size = t - l
    BY <2>6 DEF Region
  <2>10. LosesFirst(mem, a, b, n, mem', a', b')
    <3>1. /\ p + s <= Size /\ l = (IF n - s < t THEN n - s ELSE t) /\ b.size = t
          /\ t > 0 => b.at = 0
      BY <1>1, <1>2, <1>3 DEF l
    <3>2. PICK k \in Nat : k = t - l
      BY <2>2
    <3>3. MovedDown(mem, mem', l, k) /\ a' = Region(0, k)
      BY <2>6, <2>7, <3>2 DEF MovedDown
    <3>. QED  BY ONLY <1>1, <1>2, <1>3, <1>6, <2>2, <2>8, <2>9, <3>1, <3>2, <3>3, n \in Nat,
                      MoveB
  <2>11. AOK'
    BY <1>1, <1>2, <1>3, <2>2, <2>6, <2>9 DEF AOK, Region
  <2>12. BOK'
    BY <1>1, <2>6, <2>9 DEF BOK, Region
  <2>. QED  BY <1>1, <1>2, <1>4, <2>8, <2>10, <2>11, <2>12, StoredIs
            DEF BipInv, BlockOK, PromiseOK, LosesFirst
<1>. QED  BY <1>2, <1>5, <1>6

-----------------------------------------------------------------------------
(* Every call keeps the invariant and is one of the queue.                 *)

LEMMA DataFacts ==
    ASSUME NEW data \in Data
    PROVE  \E n \in 0 .. MaxCall : data \in [1 .. n -> Byte] /\ Len(data) = n
<1>1. PICK n \in 0 .. MaxCall : data \in [1 .. n -> Byte]
  BY DEF Data
<1>2. Len(data) = n
  BY <1>1, ConstantsAssumption
<1>. QED  BY <1>1, <1>2

\* A step that leaves the two regions and their bytes alone.
LEMMA SameStored ==
    ASSUME mem' = mem, a' = a, b'.size = b.size, b'.at = b.at \/ b.size = 0, BipInv, BipInv'
    PROVE  Stored' = Stored
<1>1. b = Region(b.at, b.size) /\ b' = Region(b'.at, b'.size)
  BY DEF BipInv, BOK, Region
<1>2. CASE b'.at = b.at
  BY <1>1, <1>2, StoredIs
<1>3. CASE b.size = 0
  <2>1. Piece(mem, b) = Piece(mem, b')
    BY <1>3 DEF Piece
  <2>. QED  BY <2>1, StoredIs DEF Joined
<1>. QED  BY <1>2, <1>3

LEMMA InitMaps == Init => BipInv /\ Fifo!Init
<1>. SUFFICES ASSUME Init PROVE BipInv /\ Fifo!Init
  OBVIOUS
<1>1. mem \in [Offset -> Byte]
  BY ConstantsAssumption DEF Init
<1>2. BipInv
  BY <1>1, ConstantsAssumption
     DEF Init, BipInv, BlockOK, AOK, BOK, PromiseOK, Region
<1>3. a.size + b.size = 0
  BY DEF Init, Region
<1>4. Stored = <<>>
  BY <1>2, <1>3, StoredFacts
<1>. QED  BY <1>2, <1>4 DEF Init, Fifo!Init, Fifo!NoCall, Fifo!Call, Call

LEMMA AllocateMaps == ASSUME BipInv, Allocate PROVE BipInv' /\ Fifo!Next
<1>1. Size \in Nat /\ Size > 0 /\ a.at = 0 /\ a.size = 0 /\ b.at = Null /\ b.size = 0
  BY RegionFacts DEF BipInv, AOK, BOK, Allocate
<1>2. /\ mem' \in [Offset -> Byte] /\ end' = Size /\ promised' = Null
      /\ a' = [a EXCEPT !.at = 0] /\ b' = b
  BY DEF Allocate, Returns
<1>3. a'.at = 0 /\ a'.size = 0
  BY <1>1, <1>2 DEF BipInv, AOK
<1>4. BipInv'
  BY <1>1, <1>2, <1>3 DEF BipInv, BlockOK, AOK, BOK, PromiseOK
<1>5. Stored' = <<>>
  <2>1. a'.size + b'.size = 0
    BY <1>1, <1>2, <1>3
  <2>. QED  BY <1>4, <2>1, StoredNext
<1>6. Fifo!Allocate
  BY <1>1, <1>5 DEF Allocate, Returns, Fifo!Allocate, Fifo!Call, Call
<1>. QED  BY <1>4, <1>6 DEF Fifo!Next

\* The invariant survives what only allocates region B.
LEMMA WithBKeeps ==
    ASSUME BipInv, mem' = mem, end' = end, a' = a, b' \in {b, WithB},
           promised' = Null \/ (b' = WithB /\ promised' = Room)
    PROVE  BipInv' /\ Stored' = Stored
<1>1. b' \in [at : {Null, 0}, size : 0 .. Size] /\ b'.size = b.size
  BY WithBFacts DEF BipInv, BOK
<1>2. BOK'
  BY <1>1, WithBFacts DEF BipInv, BOK
<1>3. BlockOK' /\ AOK'
  BY DEF BipInv, BlockOK, AOK
<1>4. b' = WithB => WithB' = b' /\ Room' = Room
  <2>. SUFFICES ASSUME b' = WithB PROVE WithB' = b' /\ Room' = Room
    OBVIOUS
  <2>1. CASE WithB.at = Null
    <3>1. b' = b
      BY <2>1, WithBFacts
    <3>. QED  BY <3>1 DEF WithB, Room, GetAFreeSpace, GetBFreeSpace, GetSpaceBeforeA
  <2>2. CASE WithB.at # Null
    <3>1. WithB' = b'
      BY <2>2 DEF WithB
    <3>2. Room' = Room
      BY <3>1 DEF Room, GetAFreeSpace, GetBFreeSpace
    <3>. QED  BY <3>1, <3>2
  <2>. QED  BY <2>1, <2>2
<1>5. PromiseOK'
  BY <1>4 DEF PromiseOK
<1>6. b'.at = b.at \/ b.size = 0
  BY WithBFacts DEF WithB, BipInv, BOK
<1>7. BipInv'
  BY <1>2, <1>3, <1>5 DEF BipInv
<1>. QED  BY <1>1, <1>6, <1>7, SameStored

LEMMA StoreMaps ==
    ASSUME BipInv, end = Size, NEW n \in 0 .. MaxCall, NEW data \in [1 .. n -> Byte],
           n <= Room, StoreStep(data), last' = Call("store", n, TRUE), out' = <<>>
    PROVE  BipInv' /\ Fifo!Next
<1>1. n \in Nat /\ data \in Seq(Byte) /\ Len(data) = n
  BY ConstantsAssumption
<1>2. BipInv' /\ Stored' = Stored \o data
  BY <1>1, StoreAppends
<1>3. Len(Stored) + n <= end
  <2>1. Len(Stored) = a.size + b.size /\ end \in Nat
    BY RegionFacts, StoredFacts
  <2>2. Room \in Nat /\ a.size + b.size + Room <= end
    BY RegionFacts, WithBFacts
  <2>. QED  BY <1>1, <2>1, <2>2, RegionFacts
<1>4. end' = end
  BY DEF StoreStep
<1>5. Fifo!Store(n)
  BY <1>2, <1>3, <1>4 DEF Fifo!Store, Fifo!Call, Call
<1>. QED  BY <1>2, <1>5 DEF Fifo!Next

LEMMA WriteMaps == ASSUME BipInv, NEW data \in Data, Write(data) PROVE BipInv' /\ Fifo!Next
<1>1. PICK n \in 0 .. MaxCall : data \in [1 .. n -> Byte] /\ Len(data) = n
  BY DataFacts
<1>2. n \in Nat
  BY ConstantsAssumption
<1>3. CASE end = 0 \/ Room < n
  <2>1. /\ b' \in {b, WithB} /\ a' = a /\ mem' = mem /\ end' = end /\ promised' = Null
        /\ last' = Call("store", n, FALSE) /\ out' = <<>>
    BY <1>1, <1>3 DEF Write, Returns, block
  <2>2. BipInv' /\ Stored' = Stored
    BY <2>1, WithBKeeps
  <2>3. end = 0 \/ Len(Stored) + n > end \/ Stored # <<>>
    <3>1. CASE a.size = 0
      <4>1. a.at = 0 /\ b.size = 0 /\ b.at = Null /\ end \in Nat
        BY <3>1, RegionFacts DEF BipInv, AOK, BOK
      <4>2. WithB.at = Null
        BY <3>1, WithBFacts
      <4>3. Room = end
        BY <3>1, <4>1, <4>2, WithBFacts
      <4>4. Len(Stored) = 0
        BY <3>1, <4>1, StoredFacts
      <4>. QED  BY <1>2, <1>3, <4>1, <4>3, <4>4
    <3>2. CASE a.size # 0
      <4>1. Len(Stored) # 0 /\ Stored \in Seq(Byte)
        BY <3>2, RegionFacts, StoredFacts
      <4>. QED  BY <4>1, EmptySeq
    <3>. QED  BY <3>1, <3>2
  <2>4. Fifo!RefuseStore(n)
    BY <2>1, <2>2, <2>3 DEF Fifo!RefuseStore, Fifo!Call, Call
  <2>. QED  BY <2>2, <2>4 DEF Fifo!Next
<1>4. CASE ~ (end = 0 \/ Room < n)
  <2>1. /\ StoreStep(data) /\ last' = Call("store", n, TRUE) /\ out' = <<>>
        /\ end = Size /\ n <= Room
    BY <1>1, <1>2, <1>4, RegionFacts, WithBFacts DEF Write, Returns, StoreStep
  <2>. QED  BY <1>1, <1>2, <2>1, StoreMaps
<1>. QED  BY <1>3, <1>4

LEMMA ReceiveMaps ==
    ASSUME BipInv, NEW data \in Data, Receive(data) PROVE BipInv' /\ Fifo!Next
<1>1. PICK n \in 0 .. MaxCall : data \in [1 .. n -> Byte] /\ Len(data) = n
  BY DataFacts
<1>2. promised = Room /\ b = WithB
  BY DEF Receive, BipInv, PromiseOK
<1>3. /\ StoreStep(data) /\ last' = Call("store", n, TRUE) /\ out' = <<>>
      /\ end = Size /\ n <= Room
  BY <1>1, <1>2, RegionFacts DEF Receive, Returns, StoreStep
<1>. QED  BY <1>1, <1>3, StoreMaps

LEMMA ReadMaps == ASSUME BipInv, NEW n \in 0 .. MaxCall, Read(n) PROVE BipInv' /\ Fifo!Next
<1>1. n \in Nat /\ Len(Stored) = a.size + b.size /\ a.size \in Nat /\ b.size \in Nat
  BY ConstantsAssumption, RegionFacts, StoredFacts
<1>2. CASE end = 0 \/ a.size + b.size < n
  <2>1. /\ mem' = mem /\ a' = a /\ b' = b /\ end' = end /\ promised' = Null
        /\ last' = Call("take", n, FALSE) /\ out' = <<>>
    BY <1>2 DEF Read, Returns, regions
  <2>2. BipInv' /\ Stored' = Stored
    BY <2>1, WithBKeeps
  <2>3. n = 0 \/ n > Len(Stored)
    BY <1>1, <1>2, RegionFacts DEF BipInv, BOK
  <2>4. Fifo!RefuseTake(n)
    BY <2>1, <2>2, <2>3 DEF Fifo!RefuseTake, Fifo!Call, Call
  <2>. QED  BY <2>2, <2>4 DEF Fifo!Next
<1>3. CASE ~ (end = 0 \/ a.size + b.size < n)
  <2>1. /\ CutFront(n) /\ end' = end /\ promised' = Null
        /\ last' = Call("take", n, TRUE) /\ out' = SubSeq(Stored, 1, n)
    BY <1>3 DEF Read, Returns
  <2>2. BipInv' /\ Stored' = SubSeq(Stored, n + 1, Len(Stored))
    BY <1>1, <2>1, CutFrontFacts
  <2>3. Fifo!Take(n)
    BY <1>1, <1>3, <2>1, <2>2 DEF Fifo!Take, Fifo!First, Fifo!Rest, Fifo!Call, Call
  <2>. QED  BY <2>2, <2>3 DEF Fifo!Next
<1>. QED  BY <1>2, <1>3

LEMMA RemoveMaps ==
    ASSUME BipInv, NEW n \in 0 .. MaxCall, Remove(n) PROVE BipInv' /\ Fifo!Next
<1>1. n \in Nat
  BY ConstantsAssumption
<1>2. /\ CutFront(n) /\ end' = end /\ promised' = Null
      /\ last' = Call("drop", n, TRUE) /\ out' = <<>>
  BY DEF Remove, Returns
<1>3. BipInv' /\ Stored' = SubSeq(Stored, n + 1, Len(Stored))
  BY <1>1, <1>2, CutFrontFacts
<1>4. Fifo!Drop(n)
  BY <1>2, <1>3 DEF Fifo!Drop, Fifo!Rest, Fifo!Call, Call
<1>. QED  BY <1>3, <1>4 DEF Fifo!Next

\* What is shown is the beginning of what is stored: all of A, or of B when A
\* is empty, and then the whole buffer is.
LEMMA ShowMaps == ASSUME BipInv, Show PROVE BipInv' /\ Fifo!Next
<1>1. PICK n \in Nat : n = a.size /\ n <= Size
  BY RegionFacts
<1>2. Size \in Nat /\ MaxCall \in Nat /\ Size <= MaxCall /\ b.size \in Nat /\ a.at \in Nat
  BY ConstantsAssumption, RegionFacts
<1>3. a.size = 0 => b.size = 0
  BY RegionFacts DEF BipInv, BOK
<1>4. GetContiguiousBytes = n
  BY <1>1, <1>2, <1>3 DEF GetContiguiousBytes
<1>5. /\ mem' = mem /\ a' = a /\ b' = b /\ end' = end /\ promised' = Null
      /\ last' = Call("show", n, TRUE)
      /\ out' = Piece(mem, Region(GetBufferStart, n))
  BY <1>4 DEF Show, Returns, block, regions, Bytes, Piece
<1>6. BipInv' /\ Stored' = Stored
  BY <1>5, WithBKeeps
<1>7. Stored \in Seq(Byte) /\ Len(Stored) = n + b.size
  BY <1>1, StoredFacts
<1>8. PICK w : w = SubSeq(Stored, 1, n)
  OBVIOUS
<1>9. /\ w \in Seq(Byte) /\ Len(w) = n
      /\ \A i \in 1 .. n : w[i] = Stored[i]
  <2>1. \A i \in 1 .. n : Stored[i] \in Byte
    BY <1>2, <1>7
  <2>2. /\ w \in Seq(Byte) /\ Len(w) = IF 1 <= n THEN n - 1 + 1 ELSE 0
        /\ \A i \in 1 .. n - 1 + 1 : w[i] = Stored[1 + i - 1]
    BY <1>8, <2>1, SubSeqProperties
  <2>. QED  BY <2>2
<1>10. PICK v : v = out'
  OBVIOUS
<1>11. /\ v \in Seq(Byte) /\ Len(v) = n
       /\ \A i \in 1 .. n : v[i] = mem[GetBufferStart + i - 1]
  <2>1. mem \in [Offset -> Byte] /\ (n > 0 => GetBufferStart = a.at)
    BY <1>1 DEF BipInv, BlockOK, GetBufferStart
  <2>2. Fits(Region(GetBufferStart, n))
    BY <1>1, <2>1, RegionFacts DEF Fits, Region
  <2>3. PICK r : r = Region(GetBufferStart, n)
    OBVIOUS
  <2>4. r.size = n /\ r.at = GetBufferStart /\ Fits(r)
    BY <2>2, <2>3 DEF Region
  <2>. QED  BY <1>5, <1>10, <2>1, <2>3, <2>4, PieceFacts
<1>12. ASSUME NEW i \in 1 .. n PROVE v[i] = w[i]
  <2>1. i \in 1 .. a.size + b.size /\ i <= a.size /\ GetBufferStart = a.at
    BY <1>1, <1>2 DEF GetBufferStart
  <2>2. Stored[i] = mem[a.at + i - 1]
    BY <2>1, StoredFacts DEF Nth
  <2>. QED  BY <1>9, <1>11, <2>1, <2>2
<1>13. v = w
  BY <1>9, <1>11, <1>12, SeqEqual
<1>14. n = 0 => Stored = <<>>
  BY <1>1, <1>3, <1>7
<1>15. Fifo!Show(n)
  BY <1>2, <1>5, <1>6, <1>7, <1>8, <1>10, <1>13, <1>14
     DEF Fifo!Show, Fifo!First, Fifo!Call, Call
<1>16. n \in 0 .. MaxCall
  BY <1>1, <1>2
<1>. QED  BY <1>6, <1>15, <1>16 DEF Fifo!Next

LEMMA NextMaps ==
    ASSUME BipInv, [Next]_vars
    PROVE  BipInv' /\ (Fifo!Next \/ UNCHANGED Fifo!fifoVars)
<1>1. CASE Allocate
  BY <1>1, AllocateMaps
<1>2. CASE \E data \in Data : Write(data) \/ Receive(data)
  BY <1>2, WriteMaps, ReceiveMaps
<1>3. CASE \E n \in 0 .. MaxCall : Read(n) \/ Remove(n)
  BY <1>3, ReadMaps, RemoveMaps
<1>4. CASE GetSpace
  <2>1. /\ mem' = mem /\ a' = a /\ b' = WithB /\ end' = end /\ promised' = Room
        /\ out' = out /\ last' = last
    BY <1>4 DEF GetSpace, block
  <2>2. BipInv' /\ Stored' = Stored
    BY <2>1, WithBKeeps
  <2>. QED  BY <2>1, <2>2 DEF Fifo!fifoVars
<1>5. CASE Show
  BY <1>5, ShowMaps
<1>6. CASE UNCHANGED vars
  <2>1. /\ mem' = mem /\ a' = a /\ b' = b /\ end' = end /\ promised' = promised
        /\ out' = out /\ last' = last
    BY <1>6 DEF vars, block, regions
  <2>2. BipInv'
    BY <2>1 DEF BipInv, BlockOK, AOK, BOK, PromiseOK, Room, WithB, GetAFreeSpace,
                GetBFreeSpace, GetSpaceBeforeA
  <2>3. Stored' = Stored
    BY <2>1, StoredIs
  <2>. QED  BY <2>1, <2>2, <2>3 DEF Fifo!fifoVars
<1>. QED  BY <1>1, <1>2, <1>3, <1>4, <1>5, <1>6 DEF Next

-----------------------------------------------------------------------------
(* The indexes of the ring buffer.                                         *)

\* x taken modulo m, for x that are less than two times m.
LEMMA ModOnce ==
    ASSUME NEW m \in Nat \ {0}, NEW x \in Nat, x < 2 * m
    PROVE  x % m = IF x < m THEN x ELSE x - m
<1>1. CASE x < m
  BY <1>1
<1>2. CASE x >= m
  BY <1>2
<1>. QED  BY <1>1, <1>2

\* An index that is less than the length of the block.
LEMMA Below == \A s \in Nat : \A i \in 0 .. s : i < s => s # 0 /\ i \in 0 .. s - 1
  OBVIOUS

\* A block, its indexes and its length.
RingBlock ==
    /\ ringSize \in Nat /\ 2 * ringSize <= Modulus
    /\ ringR \in 0 .. ringSize /\ ringH \in 0 .. ringSize /\ (ringSize > 0 => ringH < ringSize)
    /\ ringBuf \in [0 .. ringSize - 1 -> Byte]

RingInv == RingBlock /\ ringSize \in {0} \cup {n + 1 : n \in Sizes}

\* How many bytes there are between two indexes of a block of s bytes.
Between(from, to, s) ==
    IF to - from = s THEN 0 ELSE IF to >= from THEN to - from ELSE to + s - from

\* The index n ahead of another one.
Ahead(from, n, s) == IF from + n < s THEN from + n ELSE from + n - s

LEMMA AheadBy ==
    ASSUME NEW s \in Nat \ {0}, NEW from \in 0 .. s - 1, NEW to \in 0 .. s,
           NEW n \in 1 .. Between(from, to, s)
    PROVE  /\ Ahead(from, n, s) \in 0 .. s - 1
           /\ Between(Ahead(from, n, s), to, s) = Between(from, to, s) - n
<1>. DEFINE next == Ahead(from, n, s)
<1>1. Between(from, to, s) \in 0 .. s - 1
  BY DEF Between
<1>2. CASE from + n < s
  <2>1. next = from + n /\ next \in 0 .. s - 1
    BY <1>1, <1>2 DEF Ahead
  <2>. HIDE DEF next
  <2>2. Between(next, to, s) = Between(from, to, s) - n
    BY <1>1, <1>2, <2>1 DEF Between
  <2>. QED  BY <2>1, <2>2 DEF next
<1>3. CASE from + n >= s
  <2>1. next = from + n - s /\ next \in 0 .. s - 1
    BY <1>1, <1>3 DEF Ahead
  <2>. HIDE DEF next
  <2>2. Between(next, to, s) = Between(from, to, s) - n
    BY <1>1, <1>3, <2>1 DEF Between
  <2>. QED  BY <2>1, <2>2 DEF next
<1>4. from + n < s \/ from + n >= s
  BY <1>1
<1>. QED  BY <1>2, <1>3, <1>4

\* The sum in getsize(), whatever it is taken modulo.
LEMMA SizeOf ==
    ASSUME Ring!ConstantsAssumption, NEW s \in Nat \ {0}, 2 * s <= Modulus,
           NEW to \in 0 .. s, NEW from \in 0 .. s - 1
    PROVE  /\ Ring!U32(to + s - from) % s = Between(from, to, s)
           /\ Between(from, to, s) \in 0 .. s - 1
<1>. DEFINE x == to + s - from
<1>1. x \in 1 .. 2 * s /\ Modulus \in Nat \ {0}
  BY DEF Ring!ConstantsAssumption
<1>2. CASE x = Modulus
  <2>1. x % Modulus = 0 /\ to = s /\ from = 0
    BY <1>1, <1>2
  <2>2. 0 % s = 0
    OBVIOUS
  <2>. QED  BY <2>1, <2>2 DEF Ring!U32, Between
<1>3. CASE x < Modulus
  <2>1. x % Modulus = x
    BY <1>1, <1>3
  <2>2. CASE x = 2 * s
    <3>1. x % s = 0 /\ to = s /\ from = 0
      BY <1>1, <2>2
    <3>. QED  BY <2>1, <3>1 DEF Ring!U32, Between
  <2>3. CASE x < 2 * s
    <3>1. x % s = IF x < s THEN x ELSE x - s
      <4>1. x \in Nat
        BY <1>1
      <4>. HIDE DEF x
      <4>. QED  BY <2>3, <4>1, ModOnce
    <3>. QED  BY <2>1, <2>3, <3>1 DEF Ring!U32, Between
  <2>. QED  BY <1>1, <2>2, <2>3
<1>. QED  BY <1>1, <1>2, <1>3

\* getsize() is the distance of the indexes, whatever the sums are taken modulo.
LEMMA SizeIs ==
    ASSUME Ring!ConstantsAssumption, ringSize \in Nat \ {0}, 2 * ringSize <= Modulus,
           ringR \in 0 .. ringSize, ringH \in 0 .. ringSize - 1
    PROVE  Ring!getsize = Between(ringH, ringR, ringSize) /\ Ring!getsize \in 0 .. ringSize - 1
BY SizeOf DEF Ring!getsize

\* The same in the next state.
LEMMA SizeIsNext ==
    ASSUME Ring!ConstantsAssumption, ringSize' \in Nat \ {0}, 2 * ringSize' <= Modulus,
           ringR' \in 0 .. ringSize', ringH' \in 0 .. ringSize' - 1
    PROVE  /\ Ring!getsize' = Between(ringH', ringR', ringSize')
           /\ Ring!getsize' \in 0 .. ringSize' - 1
BY SizeOf DEF Ring!getsize

-----------------------------------------------------------------------------
(* The bytes between two indexes.                                          *)

\* The cell that is p - 1 behind index i of a block of s bytes.
Place(s, i, p) == IF i + p - 1 < s THEN i + p - 1 ELSE i + p - 1 - s

\* n bytes of a block m of s bytes, from index i on.
Around(m, s, i, n) == [p \in 1 .. n |-> m[Place(s, i, p)]]

LEMMA RingStoredIs ==
    /\ ringSize # 0 => Ring!Stored = Around(ringBuf, ringSize, ringH, Ring!getsize)
    /\ ringSize' # 0 => Ring!Stored' = Around(ringBuf', ringSize', ringH', Ring!getsize')
BY DEF Ring!Stored, Ring!Held, Around, Ring!Cell, Place

LEMMA RingFacts ==
    ASSUME NEW s \in Nat \ {0}, NEW m \in [0 .. s - 1 -> Byte], NEW i \in 0 .. s,
           NEW n \in 0 .. s - 1
    PROVE  /\ Around(m, s, i, n) \in Seq(Byte) /\ Len(Around(m, s, i, n)) = n
           /\ \A p \in 1 .. n : Around(m, s, i, n)[p] = m[Place(s, i, p)]
<1>1. \A p \in 1 .. n : Place(s, i, p) \in 0 .. s - 1
  BY DEF Place
<1>2. Around(m, s, i, n) \in [1 .. n -> Byte]
  BY <1>1 DEF Around
<1>3. Around(m, s, i, n) \in Seq(Byte) /\ Len(Around(m, s, i, n)) = n
  BY <1>2
<1>. QED  BY <1>3 DEF Around

\* Two blocks that have the same bytes at the same places behind an index.
LEMMA ConcatIs ==
    ASSUME NEW S, NEW x \in Seq(S), NEW y \in Seq(S), NEW z \in Seq(S),
           Len(z) = Len(x) + Len(y),
           \A p \in 1 .. Len(x) : z[p] = x[p],
           \A p \in 1 .. Len(y) : z[Len(x) + p] = y[p]
    PROVE  z = x \o y
<1>1. /\ x \o y \in Seq(S) /\ Len(x \o y) = Len(x) + Len(y)
      /\ \A i \in 1 .. Len(x) + Len(y) :
            (x \o y)[i] = IF i <= Len(x) THEN x[i] ELSE y[i - Len(x)]
  BY ConcatProperties
<1>2. Len(x) \in Nat /\ Len(y) \in Nat
  OBVIOUS
<1>3. ASSUME NEW i \in 1 .. Len(x) + Len(y) PROVE z[i] = (x \o y)[i]
  <2>1. CASE i <= Len(x)
    BY <1>1, <1>2, <2>1
  <2>2. CASE i > Len(x)
    <3>1. i - Len(x) \in 1 .. Len(y) /\ Len(x) + (i - Len(x)) = i
      BY <1>2, <2>2
    <3>2. z[Len(x) + (i - Len(x))] = y[i - Len(x)]
      BY <3>1
    <3>. QED  BY <1>1, <1>2, <2>2, <3>1, <3>2
  <2>. QED  BY <1>2, <2>1, <2>2
<1>. QED  BY <1>1, <1>3, SeqEqual

\* What put() does to the bytes: they come behind those that are there.
LEMMA PutStores ==
    ASSUME Ring!ConstantsAssumption, RingInv, ringSize > 0, NEW data \in Ring!Data,
           Ring!getfree >= Len(data), ringBuf' = Ring!Copied(data),
           ringR' = Ring!Advanced(Len(data)),
           UNCHANGED <<ringSize, ringH>>
    PROVE  /\ RingInv' /\ Ring!Stored' = Ring!Stored \o data
           /\ Len(Ring!Stored) = Ring!getsize
<1>. DEFINE s == ringSize
            n == Len(data)
            k == Ring!getsize
<1>1. /\ s \in Nat \ {0} /\ 2 * s <= Modulus /\ ringR \in 0 .. s /\ ringH \in 0 .. s - 1
      /\ ringBuf \in [0 .. s - 1 -> Byte]
  BY DEF RingInv, RingBlock
<1>2. k = Between(ringH, ringR, s) /\ k \in 0 .. s - 1
  BY <1>1, SizeIs
<1>3. data \in Seq(Byte) /\ n \in Nat /\ DOMAIN data = 1 .. n
  BY DEF Ring!Data
<1>4. k + n <= s - 1
  BY <1>1, <1>2, <1>3 DEF Ring!getfree
<1>5. ringR' = IF s - ringR >= n THEN ringR + n ELSE n - (s - ringR)
  BY DEF Ring!Advanced
<1>6. ringR' \in 0 .. s /\ Between(ringH, ringR', s) = k + n
  <2>. HIDE DEF s, n, k
  <2>. QED  BY <1>1, <1>2, <1>3, <1>4, <1>5 DEF Between
<1>7. /\ ringBuf' \in [0 .. s - 1 -> Byte]
      /\ \A p \in 1 .. n : ringBuf'[Ring!Cell(ringR, p)] = data[p]
      /\ \A c \in 0 .. s - 1 :
            (\A p \in 1 .. n : Ring!Cell(ringR, p) # c) => ringBuf'[c] = ringBuf[c]
  <2>1. \A p \in 1 .. n : Ring!Cell(ringR, p) \in 0 .. s - 1
    <3>. HIDE DEF n
    <3>. QED  BY <1>1, <1>2, <1>3, <1>4 DEF Ring!Cell
  <2>2. \A p, q \in 1 .. n : Ring!Cell(ringR, p) = Ring!Cell(ringR, q) => p = q
    <3>. HIDE DEF n
    <3>. QED  BY <1>1, <1>2, <1>3, <1>4 DEF Ring!Cell
  <2>3. ASSUME NEW c \in 0 .. s - 1
        PROVE  /\ ringBuf'[c] \in Byte
               /\ \A p \in 1 .. n : Ring!Cell(ringR, p) = c => ringBuf'[c] = data[p]
               /\ (\A p \in 1 .. n : Ring!Cell(ringR, p) # c) => ringBuf'[c] = ringBuf[c]
    <3>1. DOMAIN ringBuf = 0 .. s - 1
      BY <1>1
    <3>2. ringBuf'[c] = IF \E p \in DOMAIN data : Ring!Cell(ringR, p) = c
                    THEN data[CHOOSE p \in DOMAIN data : Ring!Cell(ringR, p) = c] ELSE ringBuf[c]
      BY <3>1 DEF Ring!Copied
    <3>3. CASE \A p \in 1 .. n : Ring!Cell(ringR, p) # c
      BY <1>1, <1>3, <3>2, <3>3
    <3>4. ASSUME NEW p \in 1 .. n, Ring!Cell(ringR, p) = c
          PROVE  ringBuf'[c] = data[p] /\ data[p] \in Byte
      <4>1. (CHOOSE q \in DOMAIN data : Ring!Cell(ringR, q) = c) = p
        BY <1>3, <2>2, <3>4
      <4>2. data[p] \in Byte
        BY <1>3
      <4>. QED  BY <1>3, <3>2, <3>4, <4>1, <4>2
    <3>. QED  BY <3>3, <3>4
  <2>4. ringBuf' = [c \in 0 .. s - 1 |-> ringBuf'[c]]
    BY <1>1 DEF Ring!Copied
  <2>. QED  BY <2>1, <2>3, <2>4
<1>8. RingInv'
  BY <1>1, <1>6, <1>7 DEF RingInv, RingBlock
<1>9. Ring!getsize' = k + n
  <2>1. ringSize' = s /\ ringH' = ringH
    OBVIOUS
  <2>2. Ring!getsize' = Between(ringH', ringR', ringSize')
    <3>1. ringSize' \in Nat \ {0} /\ 2 * ringSize' <= Modulus /\ ringR' \in 0 .. ringSize'
          /\ ringH' \in 0 .. ringSize' - 1
      BY <1>1, <1>6
    <3>. QED  BY <3>1, SizeIsNext
  <2>. QED  BY <1>6, <2>1, <2>2
<1>10. /\ Ring!Stored = Around(ringBuf, s, ringH, k)
       /\ Ring!Stored' = Around(ringBuf', s, ringH, k + n)
  BY <1>1, <1>9, RingStoredIs
<1>11. /\ Ring!Stored \in Seq(Byte) /\ Len(Ring!Stored) = k
       /\ \A p \in 1 .. k : Ring!Stored[p] = ringBuf[Ring!Cell(ringH, p)]
  <2>1. /\ s \in Nat \ {0} /\ ringBuf \in [0 .. s - 1 -> Byte]
        /\ ringH \in 0 .. s /\ k \in 0 .. s - 1
    BY <1>1, <1>2
  <2>2. /\ Around(ringBuf, s, ringH, k) \in Seq(Byte)
        /\ Len(Around(ringBuf, s, ringH, k)) = k
        /\ \A p \in 1 .. k : Around(ringBuf, s, ringH, k)[p] = ringBuf[Place(s, ringH, p)]
    <3>. HIDE DEF s, k
    <3>. QED  BY <2>1, RingFacts
  <2>3. \A p \in 1 .. k : Ring!Cell(ringH, p) = Place(s, ringH, p)
    BY DEF Ring!Cell, Place
  <2>. HIDE DEF s, k
  <2>4. ASSUME NEW p \in 1 .. k PROVE Ring!Stored[p] = ringBuf[Ring!Cell(ringH, p)]
    <3>1. Ring!Stored[p] = ringBuf[Place(s, ringH, p)]
      BY <1>10, <2>2
    <3>. QED  BY <2>3, <3>1
  <2>. QED  BY <1>10, <2>2, <2>4
<1>12. /\ Ring!Stored' \in Seq(Byte) /\ Len(Ring!Stored') = k + n
       /\ \A p \in 1 .. k + n : Ring!Stored'[p] = ringBuf'[Ring!Cell(ringH, p)]
  <2>1. /\ s \in Nat \ {0} /\ ringBuf' \in [0 .. s - 1 -> Byte]
        /\ ringH \in 0 .. s /\ k + n \in 0 .. s - 1
    BY <1>1, <1>2, <1>3, <1>4, <1>7
  <2>2. /\ Around(ringBuf', s, ringH, k + n) \in Seq(Byte)
        /\ Len(Around(ringBuf', s, ringH, k + n)) = k + n
        /\ \A p \in 1 .. k + n : Around(ringBuf', s, ringH, k + n)[p] = ringBuf'[Place(s, ringH, p)]
    <3>. HIDE DEF s, k, n
    <3>. QED  BY <2>1, RingFacts
  <2>3. \A p \in 1 .. k + n : Ring!Cell(ringH, p) = Place(s, ringH, p)
    BY DEF Ring!Cell, Place
  <2>. HIDE DEF s, k, n
  <2>4. Ring!Stored' \in Seq(Byte) /\ Len(Ring!Stored') = k + n
    BY <1>10, <2>2
  <2>5. ASSUME NEW p \in 1 .. k + n PROVE Ring!Stored'[p] = ringBuf'[Ring!Cell(ringH, p)]
    <3>1. Ring!Stored'[p] = ringBuf'[Place(s, ringH, p)]
      BY <1>10, <2>2
    <3>. QED  BY <2>3, <3>1
  <2>. QED  BY <2>4, <2>5
<1>13. ASSUME NEW p \in 1 .. k PROVE Ring!Stored'[p] = Ring!Stored[p]
  <2>1. /\ Ring!Cell(ringH, p) \in 0 .. s - 1
        /\ \A q \in 1 .. n : Ring!Cell(ringR, q) # Ring!Cell(ringH, p)
    <3>. HIDE DEF n, k
    <3>. QED  BY <1>1, <1>2, <1>3, <1>4 DEF Ring!Cell, Between
  <2>2. ringBuf'[Ring!Cell(ringH, p)] = ringBuf[Ring!Cell(ringH, p)]
    BY <1>7, <2>1
  <2>3. p \in 1 .. k + n
    BY <1>2, <1>3
  <2>. HIDE DEF n, k
  <2>. QED  BY <1>11, <1>12, <2>2, <2>3
<1>14. ASSUME NEW q \in 1 .. n PROVE Ring!Stored'[k + q] = data[q]
  <2>1. Ring!Cell(ringH, k + q) = Ring!Cell(ringR, q)
    <3>. HIDE DEF n, k
    <3>. QED  BY <1>1, <1>2, <1>3, <1>4 DEF Ring!Cell, Between
  <2>2. k + q \in 1 .. k + n
    BY <1>2, <1>3
  <2>. QED  BY <1>7, <1>12, <2>1, <2>2
<1>15. Ring!Stored' = Ring!Stored \o data
  <2>. HIDE DEF n, k
  <2>1. Len(Ring!Stored') = Len(Ring!Stored) + Len(data)
    BY <1>11, <1>12 DEF n
  <2>. QED  BY <1>3, <1>11, <1>12, <1>13, <1>14, <2>1, ConcatIs DEF n
<1>. QED  BY <1>8, <1>11, <1>15


\* What is stored in a ring of bytes.
LEMMA RingStoredFacts ==
    ASSUME Ring!ConstantsAssumption, RingInv, ringSize > 0
    PROVE  /\ Ring!getsize = Between(ringH, ringR, ringSize)
           /\ Ring!getsize \in 0 .. ringSize - 1
           /\ Ring!Stored \in Seq(Byte) /\ Len(Ring!Stored) = Ring!getsize
           /\ \A p \in 1 .. Ring!getsize : Ring!Stored[p] = ringBuf[Ring!Cell(ringH, p)]
<1>1. /\ ringSize \in Nat \ {0} /\ 2 * ringSize <= Modulus
      /\ ringR \in 0 .. ringSize
      /\ ringH \in 0 .. ringSize - 1
      /\ ringH \in 0 .. ringSize
      /\ ringBuf \in [0 .. ringSize - 1 -> Byte]
  BY DEF RingInv, RingBlock
<1>2. Ring!getsize = Between(ringH, ringR, ringSize) /\ Ring!getsize \in 0 .. ringSize - 1
  BY <1>1, SizeIs
<1>3. LET z == Around(ringBuf, ringSize, ringH, Ring!getsize)
      IN  /\ z \in Seq(Byte) /\ Len(z) = Ring!getsize
          /\ \A p \in 1 .. Ring!getsize : z[p] = ringBuf[Place(ringSize, ringH, p)]
  BY <1>1, <1>2, RingFacts
<1>. QED  BY <1>1, <1>2, <1>3, RingStoredIs DEF Ring!Cell, Place

\* The same in the next state.
LEMMA RingStoredFactsNext ==
    ASSUME Ring!ConstantsAssumption, RingInv', ringSize' > 0
    PROVE  /\ Ring!getsize' = Between(ringH', ringR', ringSize')
           /\ Ring!getsize' \in 0 .. ringSize' - 1
           /\ Ring!Stored' \in Seq(Byte) /\ Len(Ring!Stored') = Ring!getsize'
           /\ \A p \in 1 .. Ring!getsize' : Ring!Stored'[p] = ringBuf'[Ring!Cell(ringH, p)']
<1>1. /\ ringSize' \in Nat \ {0} /\ 2 * ringSize' <= Modulus
      /\ ringR' \in 0 .. ringSize'
      /\ ringH' \in 0 .. ringSize' - 1
      /\ ringH' \in 0 .. ringSize'
      /\ ringBuf' \in [0 .. ringSize' - 1 -> Byte]
  <2>1. ringSize' \in Nat /\ ringH' \in 0 .. ringSize' /\ ringH' < ringSize'
    BY DEF RingInv, RingBlock
  <2>2. ringSize' # 0 /\ ringH' \in 0 .. ringSize' - 1
    BY <2>1, Below
  <2>3. /\ 2 * ringSize' <= Modulus /\ ringR' \in 0 .. ringSize'
        /\ ringBuf' \in [0 .. ringSize' - 1 -> Byte]
    BY DEF RingInv, RingBlock
  <2>. QED  BY <2>1, <2>2, <2>3
<1>2. Ring!getsize' = Between(ringH', ringR', ringSize') /\ Ring!getsize' \in 0 .. ringSize' - 1
  BY <1>1, SizeIsNext
<1>3. LET z == Around(ringBuf', ringSize', ringH', Ring!getsize')
      IN  /\ z \in Seq(Byte) /\ Len(z) = Ring!getsize'
          /\ \A p \in 1 .. Ring!getsize' : z[p] = ringBuf'[Place(ringSize', ringH', p)]
  BY <1>1, <1>2, RingFacts
<1>. QED  BY <1>1, <1>2, <1>3, RingStoredIs DEF Ring!Cell, Place

\* Without a block nothing is stored.
LEMMA StoredNothing ==
    ASSUME ringSize = 0
    PROVE  Ring!Stored = <<>>
BY DEF Ring!Stored

\* After h and r are set to 0 nothing is stored.
LEMMA EmptyAtStart ==
    ASSUME Ring!ConstantsAssumption, ringSize' \in Nat, 2 * ringSize' <= Modulus,
           ringH' = 0, ringR' = 0
    PROVE  Ring!Stored' = <<>>
<1>1. CASE ringSize' = 0
  BY <1>1 DEF Ring!Stored
<1>2. CASE ringSize' # 0
  <2>1. Ring!getsize' = 0
    <3>. DEFINE s == ringSize'
    <3>1. s \in Nat \ {0} /\ 0 \in 0 .. s /\ 0 \in 0 .. s - 1
      <4>1. s \in Nat \ {0}
        BY <1>2
      <4>. HIDE DEF s
      <4>. QED  BY <4>1
    <3>2. Ring!getsize' = Between(0, 0, ringSize')
      BY <3>1, SizeIsNext
    <3>. QED  BY <3>1, <3>2 DEF Between
  <2>. QED  BY <1>2, <2>1 DEF Ring!Stored, Ring!Held
<1>. QED  BY <1>1, <1>2

\* What get() does to the bytes: the oldest ones go.
LEMMA GetTakes ==
    ASSUME Ring!ConstantsAssumption, RingInv, ringSize > 0, NEW n \in 1 .. Ring!getsize,
           ringH' = IF ringSize - ringH >= n THEN Ring!U32(ringH + n) % ringSize
                                             ELSE n - (ringSize - ringH),
           UNCHANGED <<ringBuf, ringSize, ringR>>
    PROVE  /\ RingInv' /\ n \in 1 .. Len(Ring!Stored)
           /\ Ring!Stored' = SubSeq(Ring!Stored, n + 1, Len(Ring!Stored))
           /\ Ring!Held(n) = SubSeq(Ring!Stored, 1, n)
<1>. DEFINE s == ringSize
            k == Ring!getsize
<1>1. /\ s \in Nat \ {0} /\ 2 * s <= Modulus /\ ringR \in 0 .. s /\ ringH \in 0 .. s - 1
      /\ Modulus \in Nat \ {0}
  BY DEF RingInv, RingBlock, Ring!ConstantsAssumption
<1>2. /\ k = Between(ringH, ringR, s) /\ k \in 0 .. s - 1
      /\ Ring!Stored \in Seq(Byte) /\ Len(Ring!Stored) = k
      /\ \A p \in 1 .. k : Ring!Stored[p] = ringBuf[Ring!Cell(ringH, p)]
  BY RingStoredFacts
<1>3. n \in 1 .. k
  OBVIOUS
<1>4. ringH' = IF ringH + n < s THEN ringH + n ELSE ringH + n - s
  <2>1. CASE ringH + n > s
    BY <1>1, <1>2, <1>3, <2>1
  <2>2. CASE ringH + n <= s
    <3>. DEFINE y == ringH + n
    <3>1. y \in Nat /\ y < Modulus /\ y < 2 * s
      BY <1>1, <1>2, <1>3, <2>2
    <3>2. Ring!U32(y) = y
      BY <1>1, <3>1 DEF Ring!U32
    <3>3. y % s = IF y < s THEN y ELSE y - s
      <4>. HIDE DEF y, s
      <4>. QED  BY <1>1, <3>1, ModOnce
    <3>4. ringH' = y % s
      BY <1>1, <2>2, <3>2
    <3>5. ringH' = IF y < s THEN y ELSE y - s
      <4>. HIDE DEF y, s
      <4>. QED  BY <3>3, <3>4
    <3>. QED  BY <1>1, <3>1, <3>5
  <2>3. ringH + n > s \/ ringH + n <= s
    <3>. HIDE DEF s, k
    <3>. QED  BY <1>1, <1>2, <1>3
  <2>. QED  BY <2>1, <2>2, <2>3
<1>5. ringH' \in 0 .. s - 1 /\ Between(ringH', ringR, s) = k - n
  <2>. HIDE DEF s, k
  <2>1. n \in 1 .. Between(ringH, ringR, s)
    BY <1>2, <1>3
  <2>2. ringH' = Ahead(ringH, n, s)
    BY <1>4 DEF Ahead
  <2>3. ringH' \in 0 .. s - 1 /\ Between(ringH', ringR, s) = Between(ringH, ringR, s) - n
    BY <1>1, <2>1, <2>2, AheadBy
  <2>. QED  BY <1>2, <2>3
<1>6. RingInv'
  BY <1>1, <1>5 DEF RingInv, RingBlock
<1>7. /\ Ring!getsize' = k - n
      /\ Ring!Stored' \in Seq(Byte) /\ Len(Ring!Stored') = k - n
      /\ \A p \in 1 .. k - n : Ring!Stored'[p] = ringBuf[Ring!Cell(ringH', p)]
  <2>1. /\ Ring!getsize' = Between(ringH', ringR', ringSize')
        /\ Ring!Stored' \in Seq(Byte) /\ Len(Ring!Stored') = Ring!getsize'
        /\ \A p \in 1 .. Ring!getsize' : Ring!Stored'[p] = ringBuf'[Ring!Cell(ringH, p)']
    BY <1>6, RingStoredFactsNext
  <2>. QED  BY <1>5, <2>1 DEF Ring!Cell
<1>8. ASSUME NEW p \in 1 .. k - n PROVE Ring!Stored'[p] = Ring!Stored[p + n]
  <2>1. Ring!Cell(ringH', p) = Ring!Cell(ringH, p + n) /\ p + n \in 1 .. k
    <3>1. k \in Int /\ n \in Nat /\ p \in Nat /\ p + n \in 1 .. k /\ n <= s /\ p + n <= s
      <4>1. k \in 0 .. s - 1 /\ s \in Nat
        BY <1>1, <1>2
      <4>. HIDE DEF k, s
      <4>. QED  BY <1>3, <4>1
    <3>. HIDE DEF k, s
    <3>2. CASE ringH + n < s
      BY <1>1, <1>4, <3>1, <3>2 DEF Ring!Cell, s
    <3>3. CASE ringH + n >= s
      BY <1>1, <1>4, <3>1, <3>3 DEF Ring!Cell, s
    <3>. QED  BY <1>1, <3>1, <3>2, <3>3
  <2>. QED  BY <1>2, <1>7, <2>1
<1>9. Ring!Stored' = SubSeq(Ring!Stored, n + 1, Len(Ring!Stored))
  <2>. DEFINE t == SubSeq(Ring!Stored, n + 1, Len(Ring!Stored))
  <2>1. t \in Seq(Byte) /\ Len(t) = k - n /\ \A p \in 1 .. k - n : t[p] = Ring!Stored[n + p]
    <3>. HIDE DEF k
    <3>. QED  BY <1>2, <1>3, SubSeqProperties
  <2>2. ASSUME NEW p \in 1 .. k - n PROVE Ring!Stored'[p] = t[p]
    <3>1. p + n = n + p
      BY <1>1
    <3>. QED  BY <1>8, <2>1, <3>1
  <2>. HIDE DEF t, k
  <2>. QED  BY <1>7, <2>1, <2>2, SeqEqual DEF t
<1>10. Ring!Held(n) = SubSeq(Ring!Stored, 1, n)
  <2>1. \A p \in 1 .. n : Ring!Stored[p] = ringBuf[Ring!Cell(ringH, p)]
    BY <1>2, <1>3
  <2>. QED  BY <1>2, <1>3, <2>1 DEF Ring!Held
<1>. QED  BY <1>2, <1>3, <1>6, <1>9, <1>10

-----------------------------------------------------------------------------
(* The steps.                                                              *)

LEMMA RingInitMaps ==
    ASSUME Ring!ConstantsAssumption, Ring!Init
    PROVE  RingInv /\ Ring!Fifo!Init
<1>1. /\ ringSize = 0 /\ ringH = 0 /\ ringR = 0 /\ ringBuf = Ring!Zeros(0)
      /\ ringOut = <<>> /\ ringLast = Ring!Call("none", 0, FALSE)
  BY DEF Ring!Init
<1>2. RingBlock
  <2>1. Ring!Zeros(0) \in [0 .. 0 - 1 -> Byte]
    BY DEF Ring!Zeros
  <2>. QED  BY <1>1, <2>1 DEF RingBlock, Ring!ConstantsAssumption
<1>3. Ring!Stored = <<>> /\ Ring!Capacity = 0
  BY <1>1 DEF Ring!Stored, Ring!Capacity
<1>. QED  BY <1>1, <1>2, <1>3 DEF RingInv, Ring!Fifo!Init, Ring!Fifo!NoCall,
                                  Ring!Fifo!Call, Ring!Call

\* A new block, or none.
LEMMA RingAllocateMaps ==
    ASSUME Ring!ConstantsAssumption, Ring!Release \/ \E n \in Sizes : Ring!Allocate(n)
    PROVE  RingInv' /\ Ring!Fifo!Allocate
<1>. DEFINE NewBlock(s) ==
        /\ ringSize' = s /\ 2 * s <= Modulus /\ ringH' = 0 /\ ringR' = 0
        /\ ringBuf' = Ring!Zeros(s)
        /\ ringOut' = <<>>
        /\ ringLast' = Ring!Call("allocate", IF s = 0 THEN 0 ELSE s - 1, TRUE)
<1>1. PICK s \in {0} \cup {n + 1 : n \in Sizes} : NewBlock(s)
  <2>1. ASSUME Ring!Release PROVE NewBlock(0)
    BY <2>1 DEF Ring!Release, Ring!Returns, Ring!ConstantsAssumption
  <2>2. ASSUME NEW n \in Sizes, Ring!Allocate(n) PROVE NewBlock(n + 1)
    <3>1. n \in Nat /\ n + 1 # 0 /\ (n + 1) - 1 = n
      BY DEF Ring!ConstantsAssumption
    <3>. QED  BY <2>2, <3>1 DEF Ring!Allocate, Ring!Returns
  <2>. QED  BY <2>1, <2>2
<1>2. s \in Nat
  BY DEF Ring!ConstantsAssumption
<1>3. Ring!Zeros(s) \in [0 .. s - 1 -> Byte]
  BY DEF Ring!Zeros, Ring!ConstantsAssumption
<1>4. RingInv'
  BY <1>1, <1>2, <1>3 DEF RingInv, RingBlock
<1>5. Ring!Stored' = <<>>
  BY <1>1, <1>2, EmptyAtStart
<1>6. Ring!Capacity' = IF s = 0 THEN 0 ELSE s - 1
  BY <1>1 DEF Ring!Capacity
<1>7. Ring!Capacity' \in Nat
  BY <1>2, <1>6
<1>. QED  BY <1>1, <1>4, <1>5, <1>6, <1>7 DEF Ring!Fifo!Allocate, Ring!Fifo!Call,
                                              Ring!Call

\* reset(): all that is stored is dropped.
LEMMA ResetMaps ==
    ASSUME Ring!ConstantsAssumption, RingInv, Ring!Reset
    PROVE  RingInv' /\ \E n \in 0 .. MaxCall : Ring!Fifo!Drop(n)
<1>1. /\ ringSize' = ringSize
      /\ ringH' = 0
      /\ ringR' = 0
      /\ ringBuf' = Ring!Zeros(ringSize)
      /\ ringOut' = <<>> /\ ringLast' = Ring!Call("drop", Len(Ring!Stored), TRUE)
  BY DEF Ring!Reset, Ring!Returns
<1>2. ringSize \in Nat /\ 2 * ringSize <= Modulus
  BY DEF RingInv, RingBlock
<1>3. RingInv'
  <2>1. Ring!Zeros(ringSize) \in [0 .. ringSize - 1 -> Byte]
    BY DEF Ring!Zeros, Ring!ConstantsAssumption
  <2>. QED  BY <1>1, <1>2, <2>1 DEF RingInv, RingBlock
<1>4. Ring!Stored' = <<>> /\ Ring!Capacity' = Ring!Capacity
  BY <1>1, <1>2, EmptyAtStart DEF Ring!Capacity
<1>5. Ring!Stored \in Seq(Byte) /\ Len(Ring!Stored) \in 0 .. MaxCall
  <2>1. CASE ringSize = 0
    BY <2>1, StoredNothing DEF Ring!ConstantsAssumption
  <2>2. CASE ringSize > 0
    <3>1. ringSize - 1 \in 0 .. MaxCall
      BY <2>2 DEF RingInv, Ring!ConstantsAssumption
    <3>2. Ring!Stored \in Seq(Byte) /\ Len(Ring!Stored) \in 0 .. ringSize - 1
      BY <2>2, RingStoredFacts
    <3>. QED  BY <1>2, <3>1, <3>2 DEF Ring!ConstantsAssumption
  <2>. QED  BY <1>2, <2>1, <2>2
<1>6. SubSeq(Ring!Stored, Len(Ring!Stored) + 1, Len(Ring!Stored)) = <<>>
  BY <1>5
<1>7. Ring!Fifo!Drop(Len(Ring!Stored))
  BY <1>1, <1>4, <1>6 DEF Ring!Fifo!Drop, Ring!Fifo!Rest, Ring!Fifo!Call, Ring!Call
<1>. QED  BY <1>3, <1>5, <1>7

LEMMA PutMaps ==
    ASSUME Ring!ConstantsAssumption, RingInv, NEW data \in Ring!Data, Ring!Put(data)
    PROVE  RingInv' /\ \E n \in 0 .. MaxCall : Ring!Fifo!Store(n) \/ Ring!Fifo!RefuseStore(n)
<1>. DEFINE n == Len(data)
<1>1. n \in 0 .. MaxCall /\ data \in [1 .. n -> Byte]
  BY DEF Ring!Data, Ring!ConstantsAssumption
<1>2. ringSize > 0 /\ UNCHANGED <<ringSize, ringH>> /\ ringOut' = <<>>
  BY DEF Ring!Put, Ring!Returns
<1>3. ringSize \in Nat /\ Ring!getsize \in 0 .. ringSize - 1 /\ Len(Ring!Stored) = Ring!getsize
      /\ Ring!Capacity = ringSize - 1
  BY <1>2, RingStoredFacts DEF RingInv, RingBlock, Ring!Capacity
<1>4. Ring!Capacity' = Ring!Capacity
  BY <1>2 DEF Ring!Capacity
<1>5. CASE Ring!getfree >= n
  <2>1. /\ ringBuf' = Ring!Copied(data) /\ ringR' = Ring!Advanced(n)
        /\ ringLast' = Ring!Call("store", n, TRUE)
    BY <1>5 DEF Ring!Put, Ring!Returns
  <2>2. RingInv' /\ Ring!Stored' = Ring!Stored \o data
    BY <1>2, <1>5, <2>1, PutStores
  <2>3. Len(Ring!Stored) + n <= Ring!Capacity
    BY <1>1, <1>3, <1>5 DEF Ring!getfree
  <2>4. Ring!Fifo!Store(n)
    BY <1>1, <1>2, <1>4, <2>1, <2>2, <2>3 DEF Ring!Fifo!Store, Ring!Fifo!Call, Ring!Call
  <2>. QED  BY <1>1, <2>2, <2>4
<1>6. CASE ~(Ring!getfree >= n)
  <2>1. UNCHANGED <<ringBuf, ringR>> /\ ringLast' = Ring!Call("store", n, FALSE)
    BY <1>6 DEF Ring!Put, Ring!Returns
  <2>2. RingInv' /\ Ring!Stored' = Ring!Stored
    BY <1>2, <2>1 DEF RingInv, RingBlock, Ring!Stored, Ring!Held, Ring!getsize,
                      Ring!Cell
  <2>3. Len(Ring!Stored) + n > Ring!Capacity
    BY <1>1, <1>3, <1>6 DEF Ring!getfree
  <2>4. Ring!Fifo!RefuseStore(n)
    BY <1>2, <1>4, <2>1, <2>2, <2>3 DEF Ring!Fifo!RefuseStore, Ring!Fifo!Call, Ring!Call
  <2>. QED  BY <1>1, <2>2, <2>4
<1>. QED  BY <1>5, <1>6

LEMMA GetMaps ==
    ASSUME Ring!ConstantsAssumption, RingInv, NEW n \in 0 .. MaxCall, Ring!Get(n)
    PROVE  RingInv' /\ (Ring!Fifo!Take(n) \/ Ring!Fifo!RefuseTake(n))
<1>1. ringSize > 0 /\ UNCHANGED <<ringBuf, ringSize, ringR>>
  BY DEF Ring!Get
<1>2. ringSize \in Nat /\ Ring!getsize \in 0 .. ringSize - 1 /\ Len(Ring!Stored) = Ring!getsize
      /\ Ring!Stored \in Seq(Byte) /\ n \in Nat
  BY <1>1, RingStoredFacts DEF RingInv, RingBlock
<1>3. Ring!Capacity' = Ring!Capacity
  BY <1>1 DEF Ring!Capacity
<1>4. CASE n > 0 /\ n <= Ring!getsize
  <2>1. /\ ringH' = IF ringSize - ringH >= n THEN Ring!U32(ringH + n) % ringSize
                                             ELSE n - (ringSize - ringH)
        /\ ringLast' = Ring!Call("take", n, TRUE) /\ ringOut' = Ring!Held(n)
    BY <1>4 DEF Ring!Get, Ring!Returns
  <2>2. n \in 1 .. Ring!getsize
    BY <1>2, <1>4
  <2>3. /\ RingInv' /\ n <= Len(Ring!Stored)
        /\ Ring!Stored' = SubSeq(Ring!Stored, n + 1, Len(Ring!Stored))
        /\ Ring!Held(n) = SubSeq(Ring!Stored, 1, n)
    BY <1>1, <2>1, <2>2, GetTakes
  <2>4. Ring!Fifo!Take(n)
    BY <1>3, <2>1, <2>3 DEF Ring!Fifo!Take, Ring!Fifo!First, Ring!Fifo!Rest,
                            Ring!Fifo!Call, Ring!Call
  <2>. QED  BY <2>3, <2>4
<1>5. CASE ~(n > 0 /\ n <= Ring!getsize)
  <2>1. ringH' = ringH /\ ringLast' = Ring!Call("take", n, FALSE) /\ ringOut' = <<>>
    BY <1>5 DEF Ring!Get, Ring!Returns
  <2>2. RingInv' /\ Ring!Stored' = Ring!Stored
    BY <1>1, <2>1 DEF RingInv, RingBlock, Ring!Stored, Ring!Held, Ring!getsize,
                      Ring!Cell
  <2>3. n = 0 \/ n > Len(Ring!Stored)
    BY <1>2, <1>5
  <2>4. Ring!Fifo!RefuseTake(n)
    BY <1>3, <2>1, <2>2, <2>3 DEF Ring!Fifo!RefuseTake, Ring!Fifo!Call, Ring!Call
  <2>. QED  BY <2>2, <2>4
<1>. QED  BY <1>4, <1>5

LEMMA RingNextMaps ==
    ASSUME Ring!ConstantsAssumption, RingInv, [Ring!Next]_(Ring!vars)
    PROVE  RingInv' /\ (Ring!Fifo!Next \/ UNCHANGED Ring!Fifo!fifoVars)
<1>1. CASE Ring!Release \/ \E n \in Sizes : Ring!Allocate(n)
  BY <1>1, RingAllocateMaps DEF Ring!Fifo!Next
<1>2. CASE Ring!Reset
  BY <1>2, ResetMaps DEF Ring!Fifo!Next
<1>3. ASSUME NEW data \in Ring!Data, Ring!Put(data) PROVE RingInv' /\ Ring!Fifo!Next
  BY <1>3, PutMaps DEF Ring!Fifo!Next
<1>4. ASSUME NEW n \in 0 .. MaxCall, Ring!Get(n) PROVE RingInv' /\ Ring!Fifo!Next
  BY <1>4, GetMaps DEF Ring!Fifo!Next
<1>5. CASE UNCHANGED Ring!vars
  BY <1>5 DEF Ring!vars, RingInv, RingBlock, Ring!Stored, Ring!Held, Ring!getsize,
              Ring!Cell, Ring!Capacity, Ring!Fifo!fifoVars
<1>6. CASE Ring!Next
  BY <1>1, <1>2, <1>3, <1>4, <1>6 DEF Ring!Next
<1>. QED  BY <1>5, <1>6

\* isfull(), isempty() and getfree() against what is stored.
LEMMA InvTestsAgree ==
    ASSUME Ring!ConstantsAssumption, RingInv
    PROVE  Ring!TestsAgree
<1>. SUFFICES ASSUME ringSize > 0
              PROVE  /\ Ring!isfull <=> Ring!getfree = 0
                     /\ Ring!isempty => Ring!Stored = <<>>
                     /\ Ring!Stored = <<>> /\ ~Ring!isempty => ringR = ringSize /\ ringH = 0
  BY DEF Ring!TestsAgree
<1>. DEFINE s == ringSize
<1>1. /\ s \in Nat \ {0} /\ 2 * s <= Modulus /\ ringR \in 0 .. s /\ ringH \in 0 .. s - 1
      /\ Modulus \in Nat \ {0}
  BY DEF RingInv, RingBlock, Ring!ConstantsAssumption
<1>2. /\ Ring!getsize = Between(ringH, ringR, s) /\ Ring!getsize \in 0 .. s - 1
      /\ Ring!Stored \in Seq(Byte) /\ Len(Ring!Stored) = Ring!getsize
  BY RingStoredFacts
<1>3. Ring!Stored = <<>> <=> Between(ringH, ringR, s) = 0
  BY <1>2
<1>4. Ring!U32(ringR + 1) % s =
        IF ringR + 1 < s THEN ringR + 1 ELSE IF s = 1 THEN 0 ELSE ringR + 1 - s
  <2>1. CASE s = 1
    <3>1. Ring!U32(ringR + 1) \in Int
      BY <1>1 DEF Ring!U32
    <3>2. Ring!U32(ringR + 1) % 1 = 0
      BY <3>1
    <3>. QED  BY <1>1, <2>1, <3>2
  <2>2. CASE s > 1
    <3>. DEFINE y == ringR + 1
    <3>1. y \in Nat /\ y < Modulus /\ y < 2 * s
      BY <1>1, <2>2
    <3>2. Ring!U32(y) = y
      BY <1>1, <3>1 DEF Ring!U32
    <3>3. y % s = IF y < s THEN y ELSE y - s
      <4>. HIDE DEF y, s
      <4>. QED  BY <1>1, <3>1, ModOnce
    <3>4. Ring!U32(y) % s = IF y < s THEN y ELSE y - s
      <4>. HIDE DEF y, s
      <4>. QED  BY <3>2, <3>3
    <3>. QED  BY <1>1, <2>2, <3>4
  <2>. QED  BY <1>1, <2>1, <2>2
<1>5. Ring!isfull <=> Ring!getfree = 0
  <2>. HIDE DEF s
  <2>1. Ring!isfull <=> Ring!U32(ringR + 1) % s = ringH
    BY DEF Ring!isfull, s
  <2>2. Ring!getfree = s - Between(ringH, ringR, s) - 1
    BY <1>2 DEF Ring!getfree, s
  <2>. QED  BY <1>1, <1>4, <2>1, <2>2 DEF Between
<1>6. Ring!isempty => Ring!Stored = <<>>
  BY <1>1, <1>3 DEF Ring!isempty, Between
<1>7. Ring!Stored = <<>> /\ ~Ring!isempty => ringR = s /\ ringH = 0
  <2>. HIDE DEF s
  <2>. QED  BY <1>1, <1>3 DEF Ring!isempty, Between
<1>. QED  BY <1>5, <1>6, <1>7

LEMMA RingInvType == RingInv => Ring!TypeOK
  BY DEF RingInv, RingBlock, Ring!TypeOK

-----------------------------------------------------------------------------
(* Digits, and the order of bytes.                                         *)

LEMMA OctetFacts == Base \in Nat /\ 0 \in Wire!Octet /\ -1 \notin Wire!Octet
<1>1. Base \in Nat /\ MaxSize \in Nat /\ 12 <= MaxSize /\ MaxSize < Base * Base
  BY WireAssumption DEF Wire!ConstantsAssumption, Wire!HeadSize, Wire!IntSize
<1>2. Base # 0
  BY <1>1
<1>. QED  BY <1>1, <1>2 DEF Wire!Octet

LEMMA WordFacts ==
    ASSUME NEW n \in Nat, NEW w \in Wire!Word(n)
    PROVE  /\ w \in Seq(Wire!Octet) /\ Len(w) = n /\ DOMAIN w = 1 .. n
           /\ \A i \in 1 .. n : w[i] \in Wire!Octet
  BY DEF Wire!Word

LEMMA WordIs ==
    ASSUME NEW n \in Nat, NEW w \in Seq(Wire!Octet), Len(w) = n
    PROVE  w \in Wire!Word(n)
  BY LenProperties DEF Wire!Word

LEMMA ReverseWord ==
    ASSUME NEW n \in Nat, NEW w \in Wire!Word(n)
    PROVE  /\ Wire!Reverse(w) \in Wire!Word(n)
           /\ \A i \in 1 .. n : Wire!Reverse(w)[i] = w[n - i + 1]
           /\ Wire!Reverse(Wire!Reverse(w)) = w
<1>1. /\ Len(w) = n
      /\ \A i \in 1 .. n : w[i] \in Wire!Octet /\ w[n - i + 1] \in Wire!Octet
  BY WordFacts
<1>2. Wire!Reverse(w) = [i \in 1 .. n |-> w[n - i + 1]]
  BY <1>1 DEF Wire!Reverse
<1>3. Wire!Reverse(w) \in Wire!Word(n)
  BY <1>1, <1>2 DEF Wire!Word
<1>4. Len(Wire!Reverse(w)) = n
  BY <1>3, WordFacts
<1>5. Wire!Reverse(Wire!Reverse(w)) = [i \in 1 .. n |-> Wire!Reverse(w)[n - i + 1]]
  BY <1>4 DEF Wire!Reverse
<1>6. Wire!Reverse(Wire!Reverse(w)) \in Wire!Word(n)
  BY <1>5, <1>3 DEF Wire!Word
<1>7. \A i \in 1 .. n : Wire!Reverse(Wire!Reverse(w))[i] = w[i]
  <2>. TAKE i \in 1 .. n
  <2>1. n - i + 1 \in 1 .. n /\ n - (n - i + 1) + 1 = i
    OBVIOUS
  <2>2. Wire!Reverse(Wire!Reverse(w))[i] = Wire!Reverse(w)[n - i + 1]
    BY <1>5
  <2>3. Wire!Reverse(w)[n - i + 1] = w[n - (n - i + 1) + 1]
    BY <1>2, <2>1
  <2>. QED  BY <2>1, <2>2, <2>3
<1>8. Wire!Reverse(Wire!Reverse(w)) = w
  BY <1>6, <1>7 DEF Wire!Word
<1>. QED  BY <1>2, <1>3, <1>8

\* The network order of an integer is what the other kind of host stores.
LEMMA NetOrderWord ==
    ASSUME NEW n \in Nat, NEW w \in Wire!Word(n), NEW host \in Wire!Host
    PROVE  Wire!NetOrder(host, w) = IF host = "big" THEN w ELSE Wire!Reverse(w)
  BY DEF Wire!NetOrder, Wire!Load, Wire!Mem

LEMMA HalvesFacts ==
    ASSUME NEW w \in Wire!Word(8)
    PROVE  /\ Wire!High(w) \in Wire!Word(4) /\ Wire!Low(w) \in Wire!Word(4)
           /\ \A i \in 1 .. 4 : Wire!High(w)[i] = w[i] /\ Wire!Low(w)[i] = w[i + 4]
<1>1. w \in Seq(Wire!Octet) /\ \A i \in 1 .. 8 : w[i] \in Wire!Octet
  BY WordFacts
<1>2. /\ Wire!High(w) \in Seq(Wire!Octet) /\ Len(Wire!High(w)) = 4
      /\ \A i \in 1 .. 4 : Wire!High(w)[i] = w[i]
  BY <1>1, SubSeqProperties DEF Wire!High
<1>3. /\ Wire!Low(w) \in Seq(Wire!Octet) /\ Len(Wire!Low(w)) = 4
      /\ \A i \in 1 .. 4 : Wire!Low(w)[i] = w[i + 4]
  BY <1>1, SubSeqProperties DEF Wire!Low
<1>. QED  BY <1>2, <1>3, WordIs

LEMMA HalvesTurned ==
    ASSUME NEW w \in Wire!Word(8)
    PROVE  Wire!Reverse(Wire!Low(w)) \o Wire!Reverse(Wire!High(w)) = Wire!Reverse(w)
<1>. DEFINE l == Wire!Reverse(Wire!Low(w))
            h == Wire!Reverse(Wire!High(w))
<1>1. /\ l \in Seq(Wire!Octet) /\ Len(l) = 4 /\ h \in Seq(Wire!Octet) /\ Len(h) = 4
      /\ \A i \in 1 .. 4 : l[i] = w[9 - i] /\ h[i] = w[5 - i]
  <2>1. /\ Wire!High(w) \in Wire!Word(4) /\ Wire!Low(w) \in Wire!Word(4)
        /\ \A i \in 1 .. 4 : Wire!High(w)[i] = w[i] /\ Wire!Low(w)[i] = w[i + 4]
    BY HalvesFacts
  <2>2. /\ l \in Wire!Word(4) /\ h \in Wire!Word(4)
        /\ \A i \in 1 .. 4 :
               l[i] = Wire!Low(w)[4 - i + 1] /\ h[i] = Wire!High(w)[4 - i + 1]
    BY <2>1, ReverseWord
  <2>3. /\ l \in Seq(Wire!Octet) /\ Len(l) = 4 /\ h \in Seq(Wire!Octet) /\ Len(h) = 4
    BY <2>2, WordFacts
  <2>. HIDE DEF l, h
  <2>4. ASSUME NEW i \in 1 .. 4
        PROVE  l[i] = w[9 - i] /\ h[i] = w[5 - i]
    <3>1. 4 - i + 1 \in 1 .. 4 /\ (4 - i + 1) + 4 = 9 - i /\ 4 - i + 1 = 5 - i
      OBVIOUS
    <3>2. /\ Wire!Low(w)[4 - i + 1] = w[(4 - i + 1) + 4]
          /\ Wire!High(w)[4 - i + 1] = w[4 - i + 1]
      BY <2>1, <3>1
    <3>. QED  BY <2>2, <3>1, <3>2
  <2>. QED  BY <2>3, <2>4
<1>2. /\ Wire!Reverse(w) \in Seq(Wire!Octet) /\ Len(Wire!Reverse(w)) = 8
      /\ \A i \in 1 .. 8 : Wire!Reverse(w)[i] = w[9 - i]
  <2>1. /\ Wire!Reverse(w) \in Wire!Word(8)
        /\ \A i \in 1 .. 8 : Wire!Reverse(w)[i] = w[8 - i + 1]
    BY ReverseWord
  <2>2. \A i \in 1 .. 8 : 8 - i + 1 = 9 - i
    OBVIOUS
  <2>. QED  BY <2>1, <2>2, WordFacts
<1>. HIDE DEF l, h
<1>3. /\ \A i \in 1 .. 4 : Wire!Reverse(w)[i] = l[i]
      /\ \A i \in 1 .. 4 : Wire!Reverse(w)[4 + i] = h[i]
  <2>1. \A i \in 1 .. 4 : 4 + i \in 1 .. 8 /\ 9 - (4 + i) = 5 - i
    OBVIOUS
  <2>. QED  BY <1>1, <1>2, <2>1
<1>4. /\ l \in Seq(Wire!Octet)
      /\ h \in Seq(Wire!Octet)
      /\ Wire!Reverse(w) \in Seq(Wire!Octet)
      /\ Len(Wire!Reverse(w)) = Len(l) + Len(h)
      /\ \A i \in 1 .. Len(l) : Wire!Reverse(w)[i] = l[i]
      /\ \A i \in 1 .. Len(h) : Wire!Reverse(w)[Len(l) + i] = h[i]
  BY <1>1, <1>2, <1>3
<1>5. Wire!Reverse(w) = l \o h
  BY ONLY <1>4, ConcatIs
<1>. QED  BY <1>5 DEF l, h

\* What a value becomes in the buffer does not depend on the host that writes
\* it, and what is read from there does not depend on the host that reads it.
LEMMA SameOnEveryHost ==
    ASSUME NEW n \in Wire!Widths, NEW w \in Wire!Word(n), NEW host \in Wire!Host
    PROVE  /\ Wire!Mem(host, Wire!ToNet(host, w)) = w
           /\ Wire!FromNet(host, Wire!Load(host, w)) = w
<1>1. n \in Nat /\ Len(w) = n
  BY WordFacts DEF Wire!Widths
<1>2. Wire!Reverse(w) \in Wire!Word(n) /\ Wire!Reverse(Wire!Reverse(w)) = w
  BY <1>1, ReverseWord
<1>3. Len(Wire!Reverse(w)) = n
  BY <1>1, <1>2, WordFacts
<1>4. CASE host = "big"
  BY <1>1, <1>4, NetOrderWord DEF Wire!Mem, Wire!Load, Wire!ToNet, Wire!FromNet,
                                  Wire!Widths
<1>5. CASE host = "little"
  <2>1. CASE n = 1
    <3>1. Wire!Reverse(w) = w
      <4>1. \A i \in 1 .. 1 : 1 - i + 1 = i
        OBVIOUS
      <4>2. \A i \in 1 .. 1 : Wire!Reverse(w)[i] = w[i]
        BY <2>1, <4>1, ReverseWord
      <4>. QED  BY <1>2, <2>1, <4>2 DEF Wire!Word
    <3>. QED  BY <1>1, <1>5, <2>1, <3>1 DEF Wire!Mem, Wire!Load, Wire!ToNet,
                                            Wire!FromNet
  <2>2. CASE n \in {2, 4}
    <3>1. /\ Wire!NetOrder(host, w) = Wire!Reverse(w)
          /\ Wire!NetOrder(host, Wire!Reverse(w)) = w
      BY <1>1, <1>2, <1>5, NetOrderWord
    <3>2. Wire!ToNet(host, w) = Wire!Reverse(w) /\ Wire!FromNet(host, Wire!Reverse(w)) = w
      BY <1>1, <1>3, <2>2, <3>1 DEF Wire!ToNet, Wire!FromNet
    <3>. QED  BY <1>2, <1>5, <3>2 DEF Wire!Mem, Wire!Load
  <2>3. CASE n = 8
    <3>1. \A x \in Wire!Word(8) :
              /\ Wire!NetOrder(host, Wire!Low(x)) \o Wire!NetOrder(host, Wire!High(x)) =
                     Wire!Reverse(x)
      <4>. TAKE x \in Wire!Word(8)
      <4>1. /\ Wire!NetOrder(host, Wire!Low(x)) = Wire!Reverse(Wire!Low(x))
            /\ Wire!NetOrder(host, Wire!High(x)) = Wire!Reverse(Wire!High(x))
        BY <1>5, HalvesFacts, NetOrderWord
      <4>. QED  BY <4>1, HalvesTurned
    <3>2. Wire!ToNet(host, w) = Wire!Reverse(w)
      BY <1>1, <1>5, <2>3, <3>1 DEF Wire!ToNet, Wire!hl64ton
    <3>3. Wire!FromNet(host, Wire!Reverse(w)) = w
      BY <1>2, <1>3, <1>5, <2>3, <3>1 DEF Wire!FromNet, Wire!ntohl64
    <3>. QED  BY <1>2, <1>5, <3>2, <3>3 DEF Wire!Mem, Wire!Load
  <2>. QED  BY <2>1, <2>2, <2>3 DEF Wire!Widths
<1>. QED  BY <1>4, <1>5 DEF Wire!Host

-----------------------------------------------------------------------------
(* What stands in a buffer.                                                *)

\* These bytes stand behind the first at bytes of the buffer.
Has(s, at, w) ==
    /\ at + Len(w) <= Len(s)
    /\ \A i \in 1 .. Len(w) : s[at + i] = w[i]

\* What is written last stands at the end, and nothing else moves.
LEMMA JoinHas ==
    ASSUME NEW s \in Seq(Wire!Octet), NEW w \in Seq(Wire!Octet)
    PROVE  /\ s \o w \in Seq(Wire!Octet) /\ Len(s \o w) = Len(s) + Len(w)
           /\ Has(s \o w, Len(s), w)
           /\ \A at \in Nat, x \in Seq(Wire!Octet) : Has(s, at, x) => Has(s \o w, at, x)
<1>1. /\ s \o w \in Seq(Wire!Octet) /\ Len(s \o w) = Len(s) + Len(w)
      /\ \A i \in 1 .. Len(s) + Len(w) :
            (s \o w)[i] = IF i <= Len(s) THEN s[i] ELSE w[i - Len(s)]
  BY ConcatProperties
<1>2. Len(s) \in Nat /\ Len(w) \in Nat
  OBVIOUS
<1>3. ASSUME NEW i \in 1 .. Len(w) PROVE (s \o w)[Len(s) + i] = w[i]
  <2>1. /\ Len(s) + i \in 1 .. Len(s) + Len(w)
        /\ ~(Len(s) + i <= Len(s))
        /\ (Len(s) + i) - Len(s) = i
    BY <1>2
  <2>. QED  BY <1>1, <2>1
<1>4. ASSUME NEW at \in Nat, NEW x \in Seq(Wire!Octet),
             Has(s, at, x) PROVE Has(s \o w, at, x)
  <2>1. Len(x) \in Nat /\ at + Len(x) <= Len(s) /\ \A i \in 1 .. Len(x) : s[at + i] = x[i]
    BY <1>4 DEF Has
  <2>2. ASSUME NEW i \in 1 .. Len(x) PROVE (s \o w)[at + i] = x[i]
    <3>1. at + i \in 1 .. Len(s) + Len(w) /\ at + i <= Len(s)
      BY <1>2, <2>1
    <3>. QED  BY <1>1, <2>1, <3>1
  <2>3. at + Len(x) <= Len(s) + Len(w)
    BY <1>2, <2>1
  <2>. QED  BY <1>1, <2>2, <2>3 DEF Has
<1>. QED  BY <1>1, <1>3, <1>4 DEF Has

LEMMA HasRead ==
    ASSUME NEW n \in Nat, NEW s \in Seq(Wire!Octet), NEW at \in Nat,
           NEW w \in Seq(Wire!Octet),
           Len(w) = n, Has(s, at, w)
    PROVE  SubSeq(s, at + 1, at + n) = w
<1>. DEFINE t == SubSeq(s, at + 1, at + n)
<1>1. at + n <= Len(s) /\ \A i \in 1 .. n : s[at + i] = w[i]
  BY DEF Has
<1>2. \A i \in at + 1 .. at + n : s[i] \in Wire!Octet
  BY <1>1
<1>3. /\ t \in Seq(Wire!Octet)
      /\ Len(t) = IF at + 1 <= at + n THEN at + n - (at + 1) + 1 ELSE 0
      /\ \A i \in 1 .. at + n - (at + 1) + 1 : t[i] = s[at + 1 + i - 1]
  BY <1>2, SubSeqProperties
<1>4. at + n - (at + 1) + 1 = n /\ (at + 1 <= at + n <=> n # 0)
  OBVIOUS
<1>5. \A i \in 1 .. n : at + 1 + i - 1 = at + i
  OBVIOUS
<1>. HIDE DEF t
<1>6. Len(t) = n
  BY <1>3, <1>4
<1>7. \A i \in 1 .. n : t[i] = w[i]
  BY <1>1, <1>3, <1>4, <1>5
<1>8. t = w
  BY <1>3, <1>6, <1>7, SeqEqual
<1>. QED  BY <1>8 DEF t

LEMMA RefusedIsNone == Wire!Refused \notin Seq(Wire!Octet) /\ Wire!Refused # <<>>
  BY OctetFacts DEF Wire!Refused

\* OutputValue writes the digits of a value if they fit.
LEMMA OutputValueIs ==
    ASSUME NEW n \in Wire!Widths, NEW w \in Wire!Word(n), NEW host \in Wire!Host,
           NEW buflen \in Int
    PROVE  Wire!OutputValue(host, buflen, w) = IF n > buflen THEN Wire!Refused ELSE w
<1>1. Len(w) = n
  BY WordFacts DEF Wire!Widths
<1>. QED  BY <1>1, SameOnEveryHost DEF Wire!OutputValue

\* InputValue reads what stands there, if it is inside.
LEMMA InputValueIs ==
    ASSUME NEW n \in Wire!Widths, NEW w \in Wire!Word(n), NEW host \in Wire!Host,
           NEW buflen \in Int,
           NEW s \in Seq(Wire!Octet), NEW at \in Nat, Has(s, at, w)
    PROVE  Wire!InputValue(host, s, at, buflen, n) =
               IF n > buflen THEN Wire!Fails ELSE Wire!Reads(w)
<1>1. n \in Nat /\ Len(w) = n /\ w \in Seq(Wire!Octet)
  BY WordFacts DEF Wire!Widths
<1>2. SubSeq(s, at + 1, at + n) = w
  BY <1>1, HasRead
<1>. QED  BY <1>2, SameOnEveryHost DEF Wire!InputValue

LEMMA PutIs ==
    ASSUME NEW n \in Wire!Widths, NEW w \in Wire!Word(n), NEW host \in Wire!Host,
           NEW buflen \in Int,
           NEW s \in Seq(Wire!Octet), Len(s) + n <= buflen
    PROVE  Wire!Put(host, buflen, s, w) = s \o w
<1>1. n \in Nat /\ Len(w) = n /\ w \in Seq(Wire!Octet)
  BY WordFacts DEF Wire!Widths
<1>2. buflen - Len(s) \in Int /\ ~(n > buflen - Len(s))
  BY <1>1
<1>3. Wire!OutputValue(host, buflen - Len(s), w) = w
  BY <1>2, OutputValueIs
<1>. QED  BY <1>1, <1>3, RefusedIsNone DEF Wire!Put

-----------------------------------------------------------------------------
(* Numbers.                                                                *)

LEMMA ShortWord == ASSUME NEW n \in Nat PROVE Wire!Short(n) \in Wire!Word(2)
<1>1. Base \in Nat /\ Base # 0
  BY OctetFacts DEF Wire!Octet
<1>2. n \div Base \in Nat
  BY <1>1
<1>3. (n \div Base) % Base \in 0 .. Base - 1 /\ (n % Base) \in 0 .. Base - 1
  BY <1>1, <1>2
<1>. QED  BY <1>3 DEF Wire!Short, Wire!Word, Wire!Octet

\* A number that fits into 16 bits is read from its digits.
LEMMA ShortNumberIs ==
    ASSUME NEW n \in Nat, n < Base * Base
    PROVE  Wire!ShortNumber(Wire!Short(n)) = n
<1>1. Base \in Nat /\ Base # 0
  BY OctetFacts DEF Wire!Octet
<1>2. n = (n \div Base) * Base + (n % Base) /\ n \div Base \in Nat
  BY <1>1
<1>3. n \div Base < Base
  BY <1>1
<1>4. (n \div Base) % Base = n \div Base
  BY <1>1, <1>2, <1>3
<1>. QED  BY <1>2, <1>4 DEF Wire!Short, Wire!ShortNumber

LEMMA LongWord ==
    ASSUME NEW n \in Nat
    PROVE  /\ Wire!Long(n) \in Wire!Word(4)
           /\ SubSeq(Wire!Long(n), 1, 2) = Wire!Short(n \div (Base * Base))
           /\ SubSeq(Wire!Long(n), 3, 4) = Wire!Short(n % (Base * Base))
<1>. DEFINE h == Wire!Short(n \div (Base * Base))
            l == Wire!Short(n % (Base * Base))
<1>1. Base * Base \in Nat /\ Base * Base # 0
  BY OctetFacts DEF Wire!Octet
<1>2. n \div (Base * Base) \in Nat /\ (n % (Base * Base)) \in Nat
  BY <1>1
<1>3. h \in Wire!Word(2) /\ l \in Wire!Word(2)
  BY <1>2, ShortWord
<1>. HIDE DEF h, l
<1>4. h \in Seq(Wire!Octet) /\ Len(h) = 2 /\ l \in Seq(Wire!Octet) /\ Len(l) = 2
  BY <1>3, WordFacts
<1>5. /\ h \o l \in Seq(Wire!Octet) /\ Len(h \o l) = Len(h) + Len(l)
      /\ Has(h \o l, Len(h), l)
      /\ \A at \in Nat, x \in Seq(Wire!Octet) : Has(h, at, x) => Has(h \o l, at, x)
  BY <1>4, JoinHas
<1>6. Has(h, 0, h)
  BY <1>4 DEF Has
<1>7. Has(h \o l, 0, h) /\ Has(h \o l, 2, l)
  BY <1>4, <1>5, <1>6
<1>. DEFINE s == h \o l
<1>8. s \in Seq(Wire!Octet) /\ Len(s) = 4 /\ Has(s, 0, h) /\ Has(s, 2, l)
  BY <1>4, <1>5, <1>7
<1>9. Wire!Long(n) = s
  BY DEF Wire!Long, h, l, s
<1>. HIDE DEF s
<1>10. SubSeq(s, 0 + 1, 0 + 2) = h /\ SubSeq(s, 2 + 1, 2 + 2) = l
  BY <1>4, <1>8, HasRead
<1>11. SubSeq(s, 1, 2) = h /\ SubSeq(s, 3, 4) = l
  BY <1>10
<1>12. s \in Wire!Word(4)
  BY <1>8, WordIs
<1>. QED  BY <1>9, <1>11, <1>12 DEF h, l

\* The length of a string that fits into a message is one of 16 bits.
LEMMA LongNumberIs ==
    ASSUME NEW n \in Nat, n < Base * Base
    PROVE  Wire!LongNumber(Wire!Long(n)) = n
<1>1. Base \in Nat /\ Base # 0 /\ Base * Base \in Nat /\ Base * Base # 0
  BY OctetFacts DEF Wire!Octet
<1>2. n \div (Base * Base) = 0 /\ n % (Base * Base) = n
  BY <1>1
<1>3. Wire!ShortNumber(Wire!Short(0)) = 0 /\ Wire!ShortNumber(Wire!Short(n)) = n
  BY <1>1, ShortNumberIs
<1>4. /\ SubSeq(Wire!Long(n), 1, 2) = Wire!Short(n \div (Base * Base))
      /\ SubSeq(Wire!Long(n), 3, 4) = Wire!Short(n % (Base * Base))
  BY LongWord
<1>5. /\ Wire!ShortNumber(SubSeq(Wire!Long(n), 1, 2)) = 0
      /\ Wire!ShortNumber(SubSeq(Wire!Long(n), 3, 4)) = n
  BY <1>2, <1>3, <1>4
<1>6. Wire!LongNumber(Wire!Long(n)) = 0 * (Base * Base) + n
  BY <1>5 DEF Wire!LongNumber
<1>. QED  BY <1>1, <1>6

\* A number below half the range of an int32_t is the same as an int32_t.
LEMMA Int32Is ==
    ASSUME NEW n \in Nat, 2 * n < Wire!Range32
    PROVE  Wire!Int32(n) = n
<1>1. Wire!Range32 \in Nat
  <2>1. Base * Base \in Nat
    BY OctetFacts
  <2>. QED  BY <2>1 DEF Wire!Range32
<1>. DEFINE R == Wire!Range32
<1>2. R \in Nat /\ 2 * n < R
  BY <1>1
<1>3. Wire!Int32(n) = IF 2 * (n % R) >= R THEN (n % R) - R ELSE n % R
  BY DEF Wire!Int32
<1>. HIDE DEF R
<1>4. n % R = n
  BY <1>2
<1>. QED  BY <1>2, <1>3, <1>4

\* The length of a string and of what OutputString writes, as int32_t.
LEMMA StringFits ==
    ASSUME NEW n \in Nat, 2 * (n + Wire!IntSize) < Wire!Range32
    PROVE  /\ Wire!Int32(n + Wire!IntSize) = n + Wire!IntSize
           /\ Wire!Int32(Wire!IntSize + n) = Wire!IntSize + n
           /\ Wire!Int32(n + 1) = n + 1
<1>1. Wire!IntSize = 4
  BY DEF Wire!IntSize
<1>2. Wire!Range32 \in Nat
  <2>1. Base * Base \in Nat
    BY OctetFacts
  <2>. QED  BY <2>1 DEF Wire!Range32
<1>3. /\ n + 4 \in Nat /\ n + 1 \in Nat /\ n + 4 = 4 + n
      /\ 2 * (n + 4) < Wire!Range32 /\ 2 * (n + 1) < Wire!Range32
  BY <1>1, <1>2
<1>. QED  BY <1>1, <1>3, Int32Is

-----------------------------------------------------------------------------
(* The head.                                                               *)

\* The head h stands at the start of the buffer.
HeadAt(s, h) ==
    /\ Has(s, 0, h.uMessageSize)
    /\ Has(s, 2, h.uMainID)
    /\ Has(s, 4, h.bAssistantID)
    /\ Has(s, 6, h.bHandleCode)
    /\ Has(s, 7, h.bReserve)

Heads ==
    [uMessageSize : Wire!Word(2), uMainID : Wire!Word(2), bAssistantID : Wire!Word(2),
     bHandleCode : Wire!Word(1), bReserve : Wire!Word(1)]

\* t is s with w behind it, m bytes long.
Wrote(s, w, t, m) ==
    /\ t \in Seq(Wire!Octet) /\ Len(t) = m
    /\ Has(t, Len(s), w)
    /\ \A i \in Nat, x \in Seq(Wire!Octet) : Has(s, i, x) => Has(t, i, x)

LEMMA PutWrites ==
    ASSUME NEW n \in Wire!Widths, NEW w \in Wire!Word(n), NEW host \in Wire!Host,
           NEW buflen \in Int,
           NEW s \in Seq(Wire!Octet), NEW m \in Nat, m = Len(s) + n, m <= buflen
    PROVE  Wrote(s, w, Wire!Put(host, buflen, s, w), m)
<1>1. n \in Nat /\ Len(w) = n /\ w \in Seq(Wire!Octet)
  BY WordFacts DEF Wire!Widths
<1>2. Wire!Put(host, buflen, s, w) = s \o w
  BY PutIs
<1>3. /\ s \o w \in Seq(Wire!Octet) /\ Len(s \o w) = Len(s) + Len(w)
      /\ Has(s \o w, Len(s), w)
      /\ \A i \in Nat, x \in Seq(Wire!Octet) : Has(s, i, x) => Has(s \o w, i, x)
  BY <1>1, JoinHas
<1>4. Wrote(s, w, s \o w, m)
  BY <1>1, <1>3, Zenon DEF Wrote
<1>. QED  BY <1>2, <1>4

\* Each field of a head at its place.
LEMMA HeadOutIs ==
    ASSUME NEW h \in Heads, NEW host \in Wire!Host, NEW buflen \in Int,
           Wire!HeadSize <= buflen
    PROVE  /\ Wire!HeadOut(host, buflen, h) \in Seq(Wire!Octet)
           /\ Len(Wire!HeadOut(host, buflen, h)) = Wire!HeadSize
           /\ HeadAt(Wire!HeadOut(host, buflen, h), h)
<1>. DEFINE b0 == <<>>
            b1 == Wire!Put(host, buflen, b0, h.uMessageSize)
            b2 == Wire!Put(host, buflen, b1, h.uMainID)
            b3 == Wire!Put(host, buflen, b2, h.bAssistantID)
            b4 == Wire!Put(host, buflen, b3, h.bHandleCode)
            b5 == Wire!Put(host, buflen, b4, h.bReserve)
<1>1. Wire!HeadOut(host, buflen, h) = b5
  BY DEF Wire!HeadOut
<1>2. /\ 1 \in Wire!Widths /\ 2 \in Wire!Widths /\ 8 <= buflen
      /\ h.uMessageSize \in Wire!Word(2)
      /\ h.uMainID \in Wire!Word(2)
      /\ h.bAssistantID \in Wire!Word(2)
      /\ h.bHandleCode \in Wire!Word(1) /\ h.bReserve \in Wire!Word(1)
  BY DEF Wire!Widths, Heads, Wire!HeadSize
<1>3. /\ h.uMessageSize \in Seq(Wire!Octet) /\ h.uMainID \in Seq(Wire!Octet)
      /\ h.bAssistantID \in Seq(Wire!Octet) /\ h.bHandleCode \in Seq(Wire!Octet)
  BY <1>2, WordFacts
<1>. HIDE DEF b1, b2, b3, b4, b5
<1>4. b0 \in Seq(Wire!Octet) /\ Len(b0) = 0
  BY EmptySeq
<1>. HIDE DEF b0
<1>5. /\ b1 \in Seq(Wire!Octet) /\ Len(b1) = 2 /\ Has(b1, 0, h.uMessageSize)
  <2>1. 2 = Len(b0) + 2 /\ 2 <= buflen
    BY <1>2, <1>4
  <2>2. Wrote(b0, h.uMessageSize, b1, 2)
    BY <1>2, <1>4, <2>1, PutWrites DEF b1
  <2>. QED  BY <1>4, <2>2 DEF Wrote
<1>6. /\ b2 \in Seq(Wire!Octet) /\ Len(b2) = 4 /\ Has(b2, 2, h.uMainID)
      /\ \A i \in Nat, x \in Seq(Wire!Octet) : Has(b1, i, x) => Has(b2, i, x)
  <2>1. 4 = Len(b1) + 2 /\ 4 <= buflen
    BY <1>2, <1>5
  <2>2. Wrote(b1, h.uMainID, b2, 4)
    BY <1>2, <1>5, <2>1, PutWrites DEF b2
  <2>. QED  BY <1>5, <2>2 DEF Wrote
<1>7. /\ b3 \in Seq(Wire!Octet) /\ Len(b3) = 6 /\ Has(b3, 4, h.bAssistantID)
      /\ \A i \in Nat, x \in Seq(Wire!Octet) : Has(b2, i, x) => Has(b3, i, x)
  <2>1. 6 = Len(b2) + 2 /\ 6 <= buflen
    BY <1>2, <1>6
  <2>2. Wrote(b2, h.bAssistantID, b3, 6)
    BY <1>2, <1>6, <2>1, PutWrites DEF b3
  <2>. QED  BY <1>6, <2>2 DEF Wrote
<1>8. /\ b4 \in Seq(Wire!Octet) /\ Len(b4) = 7 /\ Has(b4, 6, h.bHandleCode)
      /\ \A i \in Nat, x \in Seq(Wire!Octet) : Has(b3, i, x) => Has(b4, i, x)
  <2>1. 7 = Len(b3) + 1 /\ 7 <= buflen
    BY <1>2, <1>7
  <2>2. Wrote(b3, h.bHandleCode, b4, 7)
    BY <1>2, <1>7, <2>1, PutWrites DEF b4
  <2>. QED  BY <1>7, <2>2 DEF Wrote
<1>9. /\ b5 \in Seq(Wire!Octet) /\ Len(b5) = 8 /\ Has(b5, 7, h.bReserve)
      /\ \A i \in Nat, x \in Seq(Wire!Octet) : Has(b4, i, x) => Has(b5, i, x)
  <2>1. 8 = Len(b4) + 1 /\ 8 <= buflen
    BY <1>2, <1>8
  <2>2. Wrote(b4, h.bReserve, b5, 8)
    BY <1>2, <1>8, <2>1, PutWrites DEF b5
  <2>. QED  BY <1>8, <2>2 DEF Wrote
<1>10. HeadAt(b5, h)
  BY <1>3, <1>5, <1>6, <1>7, <1>8, <1>9 DEF HeadAt
<1>. QED  BY <1>1, <1>9, <1>10 DEF Wire!HeadSize

LEMMA ReadsFacts == (\A v : Wire!Reads(v).ok /\ Wire!Reads(v).value = v) /\ ~Wire!Fails.ok
  BY DEF Wire!Reads, Wire!Fails

LEMMA HeadKept ==
    ASSUME NEW h \in Heads, NEW s \in Seq(Wire!Octet), NEW w \in Seq(Wire!Octet),
           HeadAt(s, h)
    PROVE  HeadAt(s \o w, h)
<1>1. /\ h.uMessageSize \in Seq(Wire!Octet) /\ h.uMainID \in Seq(Wire!Octet)
      /\ h.bAssistantID \in Seq(Wire!Octet) /\ h.bHandleCode \in Seq(Wire!Octet)
      /\ h.bReserve \in Seq(Wire!Octet)
  BY WordFacts DEF Heads
<1>2. \A at \in Nat, x \in Seq(Wire!Octet) : Has(s, at, x) => Has(s \o w, at, x)
  BY JoinHas
<1>. QED  BY <1>1, <1>2 DEF HeadAt

\* A head is read as a whole or, where it is cut off, not at all.
LEMMA HeadInIs ==
    ASSUME NEW h \in Heads, NEW host \in Wire!Host, NEW s \in Seq(Wire!Octet),
           HeadAt(s, h),
           NEW buflen \in Nat
    PROVE  Wire!HeadIn(host, s, buflen) =
               IF buflen >= Wire!HeadSize THEN Wire!Reads(h) ELSE Wire!Fails
<1>. DEFINE in(f) == Wire!InputValue(host, s, Wire!Before[f], buflen - Wire!Before[f],
                                     Wire!Width[f])
<1>1. DOMAIN Wire!Width = DOMAIN h
  BY DEF Wire!Width, Heads
<1>2. ASSUME NEW f \in DOMAIN Wire!Width
      PROVE  in(f) =
                 IF Wire!Width[f] > buflen - Wire!Before[f] THEN Wire!Fails
                 ELSE Wire!Reads(h[f])
  <2>1. /\ Wire!Width[f] \in Wire!Widths /\ Wire!Before[f] \in Nat
        /\ h[f] \in Wire!Word(Wire!Width[f]) /\ Has(s, Wire!Before[f], h[f])
    <3>1. CASE f = "uMessageSize"
      BY <3>1 DEF Wire!Width, Wire!Before, Wire!Widths, HeadAt, Heads
    <3>2. CASE f = "uMainID"
      BY <3>2 DEF Wire!Width, Wire!Before, Wire!Widths, HeadAt, Heads
    <3>3. CASE f = "bAssistantID"
      BY <3>3 DEF Wire!Width, Wire!Before, Wire!Widths, HeadAt, Heads
    <3>4. CASE f = "bHandleCode"
      BY <3>4 DEF Wire!Width, Wire!Before, Wire!Widths, HeadAt, Heads
    <3>5. CASE f = "bReserve"
      BY <3>5 DEF Wire!Width, Wire!Before, Wire!Widths, HeadAt, Heads
    <3>6. f \in {"uMessageSize", "uMainID", "bAssistantID", "bHandleCode", "bReserve"}
      BY DEF Wire!Width
    <3>. QED  BY <3>1, <3>2, <3>3, <3>4, <3>5, <3>6
  <2>2. buflen - Wire!Before[f] \in Int
    BY <2>1
  <2>. QED  BY <2>1, <2>2, InputValueIs
<1>3. CASE buflen >= Wire!HeadSize
  <2>1. \A f \in DOMAIN Wire!Width : ~(Wire!Width[f] > buflen - Wire!Before[f])
    BY <1>3 DEF Wire!Width, Wire!Before, Wire!HeadSize
  <2>2. \A f \in DOMAIN Wire!Width : in(f) = Wire!Reads(h[f])
    BY <1>2, <2>1
  <2>3. ASSUME NEW f \in DOMAIN Wire!Width PROVE in(f).ok /\ in(f).value = h[f]
    BY <2>2, ReadsFacts
  <2>4. [f \in DOMAIN Wire!Width |-> in(f).value] = h
    BY <1>1, <2>3 DEF Heads
  <2>5. Wire!HeadIn(host, s, buflen) =
            Wire!Reads([f \in DOMAIN Wire!Width |-> in(f).value])
    BY <2>3 DEF Wire!HeadIn
  <2>. QED  BY <1>3, <2>4, <2>5
<1>4. CASE ~(buflen >= Wire!HeadSize)
  <2>1. /\ "bReserve" \in DOMAIN Wire!Width
        /\ Wire!Width["bReserve"] > buflen - Wire!Before["bReserve"]
    BY <1>4 DEF Wire!Width, Wire!Before, Wire!HeadSize
  <2>2. in("bReserve") = Wire!Fails
    BY <1>2, <2>1
  <2>3. ~in("bReserve").ok
    BY <2>2, ReadsFacts
  <2>. QED  BY <1>4, <2>1, <2>3 DEF Wire!HeadIn
<1>. QED  BY <1>3, <1>4

-----------------------------------------------------------------------------
(* The messages.                                                           *)

\* What the stream of an application holds.
IsBody(body) ==
    /\ body.kind \in {"none", "value", "string"}
    /\ body.kind = "value" => \E n \in Wire!Widths : body.v \in Wire!Word(n)
    /\ body.kind = "string" => /\ body.v \in Seq(Wire!Octet)
                               /\ 2 * (Len(body.v) + Wire!IntSize) < Wire!Range32

\* It stands behind the head.
BodyAt(s, body) ==
    /\ body.kind = "value" => Has(s, Wire!HeadSize, body.v)
    /\ body.kind = "string" => /\ Has(s, Wire!HeadSize, Wire!Long(Len(body.v)))
                               /\ Has(s, Wire!HeadSize + Wire!IntSize, body.v)

LEMMA NeedsFacts ==
    ASSUME NEW body, IsBody(body)
    PROVE  /\ Wire!Needs(body) \in Nat
           /\ body.kind \in {"none", "value", "string"}
           /\ body.kind = "none" => Wire!Needs(body) = 0
           /\ body.kind = "value" => /\ Len(body.v) \in Wire!Widths
                                     /\ body.v \in Wire!Word(Len(body.v))
                                     /\ Wire!Needs(body) = Len(body.v)
           /\ body.kind = "string" => /\ body.v \in Seq(Wire!Octet)
                                      /\ 2 * (Len(body.v) + Wire!IntSize) < Wire!Range32
                                      /\ Wire!Needs(body) = Wire!IntSize + Len(body.v)
<1>1. CASE body.kind = "none"
  BY <1>1 DEF Wire!Needs
<1>2. CASE body.kind = "value"
  <2>1. PICK n \in Wire!Widths : body.v \in Wire!Word(n)
    BY <1>2 DEF IsBody
  <2>2. n \in Nat /\ Len(body.v) = n
    BY <2>1, WordFacts DEF Wire!Widths
  <2>. QED  BY <1>2, <2>1, <2>2 DEF Wire!Needs
<1>3. CASE body.kind = "string"
  BY <1>3 DEF Wire!Needs, Wire!IntSize, IsBody
<1>. QED  BY <1>1, <1>2, <1>3 DEF IsBody

\* OutputString writes the length and the bytes if they fit.
LEMMA OutputStringIs ==
    ASSUME NEW v \in Seq(Wire!Octet), NEW host \in Wire!Host, NEW buflen \in Nat,
           2 * (Len(v) + Wire!IntSize) < Wire!Range32
    PROVE  Wire!OutputString(host, buflen, v) =
               IF Wire!IntSize + Len(v) > buflen THEN Wire!Refused
               ELSE Wire!Long(Len(v)) \o v
<1>1. Len(v) \in Nat /\ Wire!IntSize = 4 /\ 4 \in Wire!Widths
  BY DEF Wire!Widths, Wire!IntSize
<1>2. Wire!Long(Len(v)) \in Wire!Word(4)
  BY <1>1, LongWord
<1>3. Len(Wire!Long(Len(v))) = 4
  BY <1>2, WordFacts
<1>4. Wire!ToNet(host, Wire!Long(Len(v))) = Wire!NetOrder(host, Wire!Long(Len(v)))
  BY <1>3 DEF Wire!ToNet
<1>5. Wire!Mem(host, Wire!NetOrder(host, Wire!Long(Len(v)))) = Wire!Long(Len(v))
  BY <1>1, <1>2, <1>4, SameOnEveryHost
<1>6. Wire!IntSize + Len(v) > buflen <=> Wire!Int32(Len(v) + Wire!IntSize) > buflen
  <2>1. Wire!Int32(Len(v) + Wire!IntSize) = Len(v) + Wire!IntSize
    BY <1>1, StringFits
  <2>. QED  BY <1>1, <2>1
<1>. QED  BY <1>5, <1>6 DEF Wire!OutputString

\* What a stream writes.
Written(body) ==
    CASE body.kind = "none" -> <<>>
      [] body.kind = "value" -> body.v
      [] body.kind = "string" -> Wire!Long(Len(body.v)) \o body.v

LEMMA LongFacts ==
    ASSUME NEW v \in Seq(Wire!Octet)
    PROVE  /\ Len(v) \in Nat
           /\ Wire!Long(Len(v)) \in Seq(Wire!Octet)
           /\ Len(Wire!Long(Len(v))) = Wire!IntSize
<1>1. Len(v) \in Nat /\ 4 \in Nat
  OBVIOUS
<1>2. Wire!Long(Len(v)) \in Wire!Word(4)
  BY <1>1, LongWord
<1>. QED  BY <1>1, <1>2, WordFacts DEF Wire!IntSize

LEMMA WrittenFacts ==
    ASSUME NEW body, IsBody(body)
    PROVE  Written(body) \in Seq(Wire!Octet) /\ Len(Written(body)) = Wire!Needs(body)
<1>1. CASE body.kind = "none"
  BY <1>1, NeedsFacts DEF Written
<1>2. CASE body.kind = "value"
  <2>1. /\ Len(body.v) \in Wire!Widths /\ body.v \in Wire!Word(Len(body.v))
        /\ Wire!Needs(body) = Len(body.v)
    BY <1>2, NeedsFacts
  <2>2. body.v \in Seq(Wire!Octet)
    BY <2>1, WordFacts DEF Wire!Widths
  <2>. QED  BY <1>2, <2>1, <2>2 DEF Written
<1>3. CASE body.kind = "string"
  <2>. DEFINE l == Wire!Long(Len(body.v))
  <2>1. body.v \in Seq(Wire!Octet) /\ Wire!Needs(body) = Wire!IntSize + Len(body.v)
    BY <1>3, NeedsFacts
  <2>2. l \in Seq(Wire!Octet) /\ Len(l) = Wire!IntSize
    BY <2>1, LongFacts
  <2>3. Written(body) = l \o body.v
    BY <1>3 DEF Written
  <2>. HIDE DEF l
  <2>4. l \o body.v \in Seq(Wire!Octet) /\ Len(l \o body.v) = Len(l) + Len(body.v)
    BY <2>1, <2>2, JoinHas
  <2>. QED  BY <2>1, <2>2, <2>3, <2>4
<1>. QED  BY <1>1, <1>2, <1>3, NeedsFacts

\* A stream is refused, or it is written as a whole.
LEMMA StreamOutIs ==
    ASSUME NEW body, IsBody(body), NEW host \in Wire!Host, NEW buflen \in Nat
    PROVE  Wire!StreamOut(host, buflen, body) =
               IF Wire!Needs(body) > buflen THEN Wire!Refused ELSE Written(body)
<1>1. CASE body.kind = "none"
  BY <1>1, NeedsFacts DEF Wire!StreamOut, Written
<1>2. CASE body.kind = "value"
  <2>1. /\ Len(body.v) \in Wire!Widths /\ body.v \in Wire!Word(Len(body.v))
        /\ Wire!Needs(body) = Len(body.v)
    BY <1>2, NeedsFacts
  <2>2. Wire!OutputValue(host, buflen, body.v) =
            IF Len(body.v) > buflen THEN Wire!Refused ELSE body.v
    BY <2>1, OutputValueIs
  <2>. QED  BY <1>2, <2>1, <2>2 DEF Wire!StreamOut, Written
<1>3. CASE body.kind = "string"
  <2>1. /\ body.v \in Seq(Wire!Octet) /\ Wire!Needs(body) = Wire!IntSize + Len(body.v)
        /\ 2 * (Len(body.v) + Wire!IntSize) < Wire!Range32
    BY <1>3, NeedsFacts
  <2>2. Wire!OutputString(host, buflen, body.v) =
            IF Wire!IntSize + Len(body.v) > buflen THEN Wire!Refused
            ELSE Wire!Long(Len(body.v)) \o body.v
    BY <2>1, OutputStringIs
  <2>3. Wire!StreamOut(host, buflen, body) = Wire!OutputString(host, buflen, body.v)
    BY <1>3 DEF Wire!StreamOut
  <2>4. Written(body) = Wire!Long(Len(body.v)) \o body.v
    BY <1>3 DEF Written
  <2>. QED  BY <2>1, <2>2, <2>3, <2>4
<1>. QED  BY <1>1, <1>2, <1>3, NeedsFacts

LEMMA Join3 ==
    \A x, y, z \in Seq(Wire!Octet) : (x \o y) \o z = x \o (y \o z)
  BY ConcatAssociative

\* Behind a head.
LEMMA WrittenStands ==
    ASSUME NEW body, IsBody(body), NEW s \in Seq(Wire!Octet), Len(s) = Wire!HeadSize
    PROVE  BodyAt(s \o Written(body), body)
<1>1. CASE body.kind = "none"
  BY <1>1 DEF BodyAt
<1>2. CASE body.kind = "value"
  <2>1. Written(body) \in Seq(Wire!Octet) /\ Written(body) = body.v
    BY <1>2, WrittenFacts DEF Written
  <2>2. Has(s \o body.v, Len(s), body.v)
    BY <2>1, JoinHas
  <2>. QED  BY <1>2, <2>1, <2>2 DEF BodyAt
<1>3. CASE body.kind = "string"
  <2>. DEFINE l == Wire!Long(Len(body.v))
              t == s \o l
  <2>1. body.v \in Seq(Wire!Octet)
    BY <1>3, NeedsFacts
  <2>2. l \in Seq(Wire!Octet) /\ Len(l) = Wire!IntSize
    BY <2>1, LongFacts
  <2>3. Written(body) = l \o body.v
    BY <1>3 DEF Written
  <2>. HIDE DEF l
  <2>4. s \o Written(body) = t \o body.v
    <3>1. (s \o l) \o body.v = s \o (l \o body.v)
      BY ONLY <2>1, <2>2, s \in Seq(Wire!Octet), Join3
    <3>. QED  BY <2>3, <3>1 DEF t
  <2>5. t \in Seq(Wire!Octet) /\ Len(t) = Len(s) + Len(l) /\ Has(t, Len(s), l)
    BY <2>2, JoinHas
  <2>. HIDE DEF t
  <2>6. /\ Has(t \o body.v, Len(t), body.v)
        /\ \A at \in Nat, x \in Seq(Wire!Octet) : Has(t, at, x) => Has(t \o body.v, at, x)
    BY <2>1, <2>5, JoinHas
  <2>7. Wire!HeadSize \in Nat /\ Len(t) = Wire!HeadSize + Wire!IntSize
    BY <2>2, <2>5 DEF Wire!HeadSize, Wire!IntSize
  <2>8. /\ Has(t \o body.v, Wire!HeadSize, l)
        /\ Has(t \o body.v, Wire!HeadSize + Wire!IntSize, body.v)
    BY <2>2, <2>5, <2>6, <2>7
  <2>. QED  BY <1>3, <2>4, <2>8 DEF BodyAt, l
<1>. QED  BY <1>1, <1>2, <1>3, NeedsFacts

\* A message, and the head that is to be in front of its body.
IsMessage(m) ==
    /\ m.main \in Wire!Word(2)
    /\ m.assistant \in Wire!Word(2)
    /\ m.code \in Wire!Word(1)
    /\ IsBody(m.body)

HeadOf(m) ==
    [uMessageSize |-> Wire!Short(Wire!HeadSize + Wire!Needs(m.body)), uMainID |-> m.main,
     bAssistantID |-> m.assistant, bHandleCode |-> m.code, bReserve |-> <<0>>]

\* These bytes are that message.
Bears(s, m) ==
    /\ s \in Seq(Wire!Octet)
    /\ Len(s) = Wire!HeadSize + Wire!Needs(m.body) /\ Len(s) <= MaxSize
    /\ HeadAt(s, HeadOf(m))
    /\ BodyAt(s, m.body)

TooLong(m) == Wire!Needs(m.body) > m.nlen \/ Wire!HeadSize + Wire!Needs(m.body) > MaxSize

LEMMA HeadOfIs == ASSUME NEW m, IsMessage(m) PROVE HeadOf(m) \in Heads
<1>1. Wire!Needs(m.body) \in Nat /\ Wire!HeadSize \in Nat
  BY NeedsFacts DEF IsMessage, Wire!HeadSize
<1>2. Wire!Short(Wire!HeadSize + Wire!Needs(m.body)) \in Wire!Word(2)
  BY <1>1, ShortWord
<1>3. <<0>> \in Wire!Word(1)
  BY OctetFacts DEF Wire!Word
<1>. QED  BY <1>2, <1>3 DEF IsMessage, HeadOf, Heads

\* A head, and behind it what the stream wrote.
LEMMA HeadAndBody ==
    ASSUME NEW m, IsMessage(m), NEW host \in Wire!Host, NEW buflen \in Int,
           Wire!HeadSize <= buflen,
           Wire!HeadSize + Wire!Needs(m.body) <= MaxSize
    PROVE  Bears(Wire!HeadOut(host, buflen, HeadOf(m)) \o Written(m.body), m)
<1>. DEFINE s == Wire!HeadOut(host, buflen, HeadOf(m))
            w == Written(m.body)
<1>1. HeadOf(m) \in Heads /\ IsBody(m.body)
  BY HeadOfIs DEF IsMessage
<1>2. s \in Seq(Wire!Octet) /\ Len(s) = Wire!HeadSize /\ HeadAt(s, HeadOf(m))
  BY <1>1, HeadOutIs
<1>3. w \in Seq(Wire!Octet) /\ Len(w) = Wire!Needs(m.body)
  BY <1>1, WrittenFacts
<1>4. BodyAt(s \o w, m.body)
  BY <1>1, <1>2, WrittenStands
<1>. HIDE DEF s, w
<1>5. s \o w \in Seq(Wire!Octet) /\ Len(s \o w) = Len(s) + Len(w)
  BY <1>2, <1>3, JoinHas
<1>6. HeadAt(s \o w, HeadOf(m))
  BY <1>1, <1>2, <1>3, HeadKept
<1>7. Len(s \o w) = Wire!HeadSize + Wire!Needs(m.body) /\ Len(s \o w) <= MaxSize
  BY <1>2, <1>3, <1>5
<1>8. Bears(s \o w, m)
  BY <1>4, <1>5, <1>6, <1>7, Zenon DEF Bears
<1>. QED  BY <1>8 DEF s, w

\* createMsgToSendList refuses what is too long, and nothing else.
LEMMA CreateMsgIs ==
    ASSUME NEW m, IsMessage(m), m.nlen \in Nat, NEW host \in Wire!Host, NEW s,
           s = Wire!CreateMsg(host, m.main, m.assistant, m.code, m.body, m.nlen)
    PROVE  \/ TooLong(m) /\ s = Wire!Refused
           \/ ~TooLong(m) /\ Bears(s, m)
<1>. DEFINE w == Written(m.body)
            t == Wire!StreamOut(host, m.nlen, m.body)
<1>1. IsBody(m.body) /\ Wire!Needs(m.body) \in Nat
  BY NeedsFacts DEF IsMessage
<1>2. w \in Seq(Wire!Octet) /\ Len(w) = Wire!Needs(m.body)
  BY <1>1, WrittenFacts
<1>3. t = IF Wire!Needs(m.body) > m.nlen THEN Wire!Refused ELSE w
  BY <1>1, StreamOutIs
<1>4. s = IF Wire!Sendable(t)
            THEN Wire!HeadOut(host, Wire!HeadSize,
                         [uMessageSize |-> Wire!Short(Wire!MessageSize(t)),
                          uMainID |-> m.main,
                          bAssistantID |-> m.assistant, bHandleCode |-> m.code,
                          bReserve |-> <<0>>])
                 \o t
            ELSE Wire!Refused
  BY DEF Wire!CreateMsg
<1>. HIDE DEF w, t
<1>5. MaxSize \in Nat /\ Wire!HeadSize \in Nat
  BY WireAssumption DEF Wire!ConstantsAssumption, Wire!HeadSize
<1>6. CASE Wire!Needs(m.body) > m.nlen
  BY <1>3, <1>4, <1>6 DEF Wire!Sendable, TooLong
<1>7. CASE ~(Wire!Needs(m.body) > m.nlen)
  <2>1. t = w /\ t # Wire!Refused
    BY <1>2, <1>3, <1>7, RefusedIsNone
  <2>2. CASE Wire!HeadSize + Wire!Needs(m.body) > MaxSize
    <3>1. ~Wire!Sendable(t)
      BY <1>1, <1>2, <1>5, <2>1, <2>2 DEF Wire!Sendable
    <3>. QED  BY <1>4, <2>2, <3>1 DEF TooLong
  <2>3. CASE ~(Wire!HeadSize + Wire!Needs(m.body) > MaxSize)
    <3>1. Wire!HeadSize + Wire!Needs(m.body) <= MaxSize
      BY <1>1, <1>5, <2>3
    <3>2. Wire!Sendable(t) /\ Wire!MessageSize(t) = Wire!HeadSize + Wire!Needs(m.body)
      BY <1>2, <2>1, <3>1 DEF Wire!Sendable, Wire!MessageSize
    <3>3. s = Wire!HeadOut(host, Wire!HeadSize, HeadOf(m)) \o w
      BY <1>4, <2>1, <3>2 DEF HeadOf
    <3>4. Bears(Wire!HeadOut(host, Wire!HeadSize, HeadOf(m)) \o w, m)
      BY <1>5, <3>1, HeadAndBody DEF w
    <3>. QED  BY <1>7, <2>3, <3>3, <3>4, Zenon DEF TooLong
  <2>. QED  BY <2>2, <2>3
<1>. QED  BY <1>6, <1>7

\* The message a notice is.
Notice(main, type) ==
    [main |-> Wire!Short(main), assistant |-> Wire!Short(0), code |-> <<0>>,
     body |-> [kind |-> "value", v |-> Wire!Long(type)], nlen |-> MaxSize]

\* A notice is never too long.
LEMMA NoticeOutIs ==
    ASSUME NEW host \in Wire!Host, NEW main \in Nat, NEW type \in Nat,
           NEW m, m = Notice(main, type)
    PROVE  IsMessage(m) /\ Bears(Wire!NoticeOut(host, MaxSize, main, type), m)
<1>1. /\ MaxSize \in Nat
      /\ Wire!HeadSize = 8
      /\ Wire!IntSize = 4
      /\ Wire!HeadSize + Wire!IntSize <= MaxSize
      /\ 4 \in Wire!Widths
  BY WireAssumption DEF Wire!ConstantsAssumption, Wire!HeadSize, Wire!IntSize,
                        Wire!Widths
<1>2. /\ Wire!Long(type) \in Wire!Word(4)
      /\ Wire!Short(main) \in Wire!Word(2)
      /\ Wire!Short(0) \in Wire!Word(2)
  BY LongWord, ShortWord
<1>3. <<0>> \in Wire!Word(1)
  BY OctetFacts DEF Wire!Word
<1>4. Wire!Long(type) \in Seq(Wire!Octet) /\ Len(Wire!Long(type)) = 4
  BY <1>2, WordFacts
<1>5. IsMessage(m)
  BY <1>1, <1>2, <1>3 DEF Notice, IsMessage, IsBody
<1>6. Wire!Needs(m.body) = Wire!IntSize /\ Written(m.body) = Wire!Long(type)
  BY <1>1, <1>4 DEF Notice, Wire!Needs, Written
<1>. DEFINE s == Wire!HeadOut(host, MaxSize, HeadOf(m))
<1>7. Wire!NoticeOut(host, MaxSize, main, type) =
          Wire!Put(host, MaxSize, s, Wire!Long(type))
  BY <1>6 DEF Notice, Wire!NoticeOut, HeadOf
<1>8. s \in Seq(Wire!Octet) /\ Len(s) = Wire!HeadSize
  BY <1>1, <1>5, HeadOfIs, HeadOutIs
<1>9. Bears(s \o Written(m.body), m)
  BY <1>1, <1>5, <1>6, HeadAndBody
<1>. HIDE DEF s
<1>10. Wire!Put(host, MaxSize, s, Wire!Long(type)) = s \o Wire!Long(type)
  <2>1. Len(s) + 4 <= MaxSize /\ MaxSize \in Int
    BY <1>1, <1>8
  <2>. QED  BY <1>1, <1>2, <1>8, <2>1, PutIs
<1>. QED  BY <1>5, <1>6, <1>7, <1>9, <1>10

-----------------------------------------------------------------------------
(* What is read of the message m in the buffer s.                          *)

Whole(m, s, buflen, room) ==
    /\ buflen = Len(s)
    /\ m.body.kind = "string" => Len(m.body.v) < room

\* The result x of StreamIn.
ReadsAll(x, m, s, buflen, room) ==
    /\ x.ok <=> Whole(m, s, buflen, room)
    /\ x.ok /\ m.body.kind # "none" => x.value = m.body.v

\* InputString reads a string that is whole and has room in szDst.
LEMMA InputStringIs ==
    ASSUME NEW v \in Seq(Wire!Octet), Len(v) < Base * Base, NEW host \in Wire!Host,
           NEW s \in Seq(Wire!Octet), NEW at \in Nat, NEW buflen \in Int,
           NEW room \in Nat, 2 * (Len(v) + Wire!IntSize) < Wire!Range32,
           Has(s, at, Wire!Long(Len(v))), Has(s, at + Wire!IntSize, v)
    PROVE  Wire!InputString(host, s, at, buflen, room) =
               IF Wire!IntSize + Len(v) > buflen \/ Len(v) + 1 > room
                 THEN Wire!Fails ELSE Wire!Reads(v)
<1>1. Len(v) \in Nat /\ Wire!IntSize \in Nat /\ Wire!IntSize = 4 /\ 4 \in Wire!Widths
  BY DEF Wire!IntSize, Wire!Widths
<1>2. Wire!Long(Len(v)) \in Wire!Word(4) /\ Wire!Long(Len(v)) \in Seq(Wire!Octet)
  BY <1>1, LongWord, LongFacts
<1>3. Len(Wire!Long(Len(v))) = 4
  BY <1>2, WordFacts
<1>4. SubSeq(s, at + 1, at + Wire!IntSize) = Wire!Long(Len(v))
  BY <1>1, <1>2, <1>3, HasRead
<1>5. Wire!FromNet(host, Wire!Load(host, Wire!Long(Len(v)))) = Wire!Long(Len(v))
  BY <1>1, <1>2, SameOnEveryHost
<1>6. Len(Wire!Load(host, Wire!Long(Len(v)))) = 4
  BY <1>2, <1>3, ReverseWord, WordFacts DEF Wire!Load
<1>7. Wire!NetOrder(host, Wire!Load(host, Wire!Long(Len(v)))) = Wire!Long(Len(v))
  BY <1>5, <1>6 DEF Wire!FromNet
<1>8. Wire!LongNumber(
          Wire!NetOrder(host, Wire!Load(host, SubSeq(s, at + 1, at + Wire!IntSize)))) =
          Len(v)
  BY <1>1, <1>4, <1>7, LongNumberIs
<1>9. SubSeq(s, at + Wire!IntSize + 1, at + Wire!IntSize + Len(v)) = v
  <2>1. at + Wire!IntSize \in Nat
    BY <1>1
  <2>. QED  BY <1>1, <2>1, HasRead
<1>10. Wire!IntSize > buflen => Wire!IntSize + Len(v) > buflen
  BY <1>1
<1>11. /\ Wire!Int32(Wire!IntSize + Len(v)) = Wire!IntSize + Len(v)
       /\ Wire!Int32(Len(v) + 1) = Len(v) + 1
  BY <1>1, StringFits
<1>. QED  BY <1>8, <1>9, <1>10, <1>11 DEF Wire!InputString

\* In reads a body exactly when all of it is there.
LEMMA StreamInIs ==
    ASSUME NEW m, IsMessage(m), NEW s, Bears(s, m), NEW host \in Wire!Host,
           NEW room \in Nat,
           NEW buflen \in Wire!HeadSize .. Len(s)
    PROVE  ReadsAll(Wire!StreamIn(host, s, buflen, m.body, room), m, s, buflen, room)
<1>. DEFINE x == Wire!StreamIn(host, s, buflen, m.body, room)
<1>1. /\ Wire!HeadSize \in Nat
      /\ MaxSize \in Nat
      /\ Base \in Nat
      /\ MaxSize < Base * Base
      /\ Wire!IntSize \in Nat
  BY WireAssumption DEF Wire!ConstantsAssumption, Wire!HeadSize, Wire!IntSize
<1>2. /\ s \in Seq(Wire!Octet)
      /\ Len(s) = Wire!HeadSize + Wire!Needs(m.body)
      /\ Len(s) <= MaxSize
      /\ BodyAt(s, m.body)
  BY DEF Bears
<1>3. IsBody(m.body) /\ Wire!Needs(m.body) \in Nat
  BY NeedsFacts DEF IsMessage
<1>4. /\ buflen \in Nat
      /\ buflen - Wire!HeadSize \in Int
      /\ Wire!HeadSize <= buflen
      /\ buflen <= Len(s)
  BY <1>1, <1>2
<1>5. buflen = Len(s) <=> ~(Wire!Needs(m.body) > buflen - Wire!HeadSize)
  BY <1>1, <1>2, <1>3, <1>4
<1>6. CASE m.body.kind = "none"
  <2>1. x = Wire!Reads(<<>>) /\ Wire!Needs(m.body) = 0
    BY <1>3, <1>6, NeedsFacts DEF Wire!StreamIn
  <2>2. buflen = Len(s)
    BY <1>1, <1>4, <1>5, <2>1
  <2>. QED  BY <1>6, <2>1, <2>2, ReadsFacts DEF ReadsAll, Whole
<1>7. CASE m.body.kind = "value"
  <2>1. /\ Len(m.body.v) \in Wire!Widths /\ m.body.v \in Wire!Word(Len(m.body.v))
        /\ Wire!Needs(m.body) = Len(m.body.v)
    BY <1>3, <1>7, NeedsFacts
  <2>2. Has(s, Wire!HeadSize, m.body.v)
    BY <1>2, <1>7 DEF BodyAt
  <2>3. x = Wire!InputValue(host, s, Wire!HeadSize, buflen - Wire!HeadSize, Len(m.body.v))
    BY <1>7 DEF Wire!StreamIn
  <2>4. x =
            IF Len(m.body.v) > buflen - Wire!HeadSize THEN Wire!Fails
            ELSE Wire!Reads(m.body.v)
    BY <1>1, <1>2, <1>4, <2>1, <2>2, <2>3, InputValueIs
  <2>. QED  BY <1>5, <1>7, <2>1, <2>4, ReadsFacts DEF ReadsAll, Whole
<1>8. CASE m.body.kind = "string"
  <2>. DEFINE v == m.body.v
  <2>1. /\ v \in Seq(Wire!Octet)
        /\ 2 * (Len(v) + Wire!IntSize) < Wire!Range32
        /\ Wire!Needs(m.body) = Wire!IntSize + Len(v)
        /\ Len(v) \in Nat
    BY <1>3, <1>8, NeedsFacts
  <2>2. /\ Has(s, Wire!HeadSize, Wire!Long(Len(v)))
        /\ Has(s, Wire!HeadSize + Wire!IntSize, v)
    BY <1>2, <1>8 DEF BodyAt
  <2>3. Len(v) < Base * Base
    <3>1. Base * Base \in Nat
      BY <1>1
    <3>. QED  BY <1>1, <1>2, <2>1, <3>1
  <2>4. x = Wire!InputString(host, s, Wire!HeadSize, buflen - Wire!HeadSize, room)
    BY <1>8 DEF Wire!StreamIn
  <2>. HIDE DEF x, v
  <2>5. x = IF Wire!IntSize + Len(v) > buflen - Wire!HeadSize \/ Len(v) + 1 > room
              THEN Wire!Fails ELSE Wire!Reads(v)
    BY <1>1, <1>2, <1>4, <2>1, <2>2, <2>3, <2>4, InputStringIs
  <2>6. Len(v) < room <=> ~(Len(v) + 1 > room)
    BY <2>1
  <2>7. x = IF buflen = Len(s) /\ Len(v) < room THEN Wire!Reads(v) ELSE Wire!Fails
    BY <1>5, <2>1, <2>5, <2>6
  <2>. QED  BY <1>8, <2>7, ReadsFacts DEF ReadsAll, Whole, x, v
<1>. QED  BY <1>3, <1>6, <1>7, <1>8, NeedsFacts

-----------------------------------------------------------------------------
(* The inductive invariant.                                                *)

\* What the reader made of wire.
IsReading ==
    /\ got.kind = "read"
    /\ got.buflen \in 0 .. Len(wire)
    /\ got.head =
           IF got.buflen >= Wire!HeadSize THEN Wire!Reads(HeadOf(sent)) ELSE Wire!Fails
    /\ ReadsAll(got.body, sent, wire, got.buflen, got.room)

\* A message is refused because it is too long; or its bytes are those of its
\* head and of its body, at their places and most significant digit first, and
\* they are read as that.
CodecInv ==
    \/ sent = Wire!None /\ wire = <<>> /\ got = Wire!None
    \/ /\ sent # Wire!None /\ IsMessage(sent)
       /\ \/ wire = Wire!Refused /\ TooLong(sent) /\ got = Wire!None
          \/ Bears(wire, sent) /\ (got = Wire!None \/ IsReading)

LEMMA NotNone ==
    ASSUME NEW x, DOMAIN x = {"main", "assistant", "code", "body", "nlen"}
    PROVE  x # Wire!None
<1>1. DOMAIN Wire!None = {"kind"}
  BY DEF Wire!None
<1>2. "main" \notin {"kind"}
  OBVIOUS
<1>. QED  BY <1>1, <1>2

LEMMA InitCodecInv == ASSUME Wire!Init PROVE CodecInv
  BY DEF Wire!Init, CodecInv

LEMMA SendKeeps == ASSUME CodecInv, Wire!Send PROVE CodecInv'
<1>1. sent = Wire!None /\ got = Wire!None /\ got' = got
  BY DEF CodecInv, Wire!Send, Wire!Unused
<1>2. PICK host \in Wire!Host,
           main \in (Values \cap Wire!Word(2)) \cup {Wire!Short(Wire!KEEP_ALIVE_PING)},
           assistant \in Values \cap Wire!Word(2), code \in Values \cap Wire!Word(1),
           body \in Wire!Bodies, nlen \in 0 .. MaxRoom :
              /\ sent' = [main |-> main, assistant |-> assistant, code |-> code,
                          body |-> body, nlen |-> nlen]
              /\ wire' = Wire!CreateMsg(host, main, assistant, code, body, nlen)
  BY DEF Wire!Send
<1>3. main \in Wire!Word(2) /\ assistant \in Wire!Word(2) /\ code \in Wire!Word(1)
  BY ShortWord DEF Wire!KEEP_ALIVE_PING
<1>4. IsBody(body)
  <2>1. CASE body = Wire!None
    BY <2>1 DEF Wire!None, IsBody
  <2>2. CASE body \in {[kind |-> "value", v |-> v] : v \in Values}
    <3>1. PICK v \in Values : body = [kind |-> "value", v |-> v]
      BY <2>2
    <3>2. \E n \in Wire!Widths : v \in Wire!Word(n)
      BY WireAssumption DEF Wire!ConstantsAssumption
    <3>. QED  BY <3>1, <3>2 DEF IsBody
  <2>3. CASE body \in {[kind |-> "string", v |-> v] : v \in Strings}
    <3>1. PICK v \in Strings : body = [kind |-> "string", v |-> v]
      BY <2>3
    <3>2. v \in Seq(Wire!Octet \ {0}) /\ 2 * (Len(v) + Wire!IntSize) < Wire!Range32
      BY WireAssumption DEF Wire!ConstantsAssumption
    <3>3. v \in Seq(Wire!Octet)
      BY <3>2, SeqMonotonic
    <3>. QED  BY <3>1, <3>2, <3>3 DEF IsBody
  <2>. QED  BY <2>1, <2>2, <2>3 DEF Wire!Bodies
<1>. DEFINE m == [main |-> main, assistant |-> assistant, code |-> code,
                  body |-> body, nlen |-> nlen]
<1>5. IsMessage(m)
  BY <1>3, <1>4 DEF IsMessage
<1>6. /\ wire' = Wire!CreateMsg(host, m.main, m.assistant, m.code, m.body, m.nlen)
      /\ sent' = m /\ m.nlen \in Nat /\ m # Wire!None
  <2>1. m # Wire!None
    BY NotNone
  <2>2. nlen \in Nat
    BY WireAssumption DEF Wire!ConstantsAssumption
  <2>. QED  BY <1>2, <2>1, <2>2
<1>. HIDE DEF m
<1>7. \/ TooLong(m) /\ wire' = Wire!Refused
      \/ ~TooLong(m) /\ Bears(wire', m)
  BY <1>5, <1>6, CreateMsgIs
<1>. QED  BY <1>1, <1>5, <1>6, <1>7 DEF CodecInv

LEMMA NotifyKeeps == ASSUME CodecInv, Wire!Notify PROVE CodecInv'
<1>1. sent = Wire!None /\ got = Wire!None /\ got' = got
  BY DEF CodecInv, Wire!Notify, Wire!Unused
<1>2. PICK host \in Wire!Host, main \in {Wire!RS_CONNECTED, Wire!RS_DISCONNECTED},
           type \in 1 .. 6 :
        /\ sent' =
               [main |-> Wire!Short(main), assistant |-> Wire!Short(0), code |-> <<0>>,
                    body |-> [kind |-> "value", v |-> Wire!Long(type)], nlen |-> MaxSize]
        /\ wire' = IF main = Wire!RS_CONNECTED THEN Wire!MP_Server_Connected(host, type)
                                          ELSE Wire!MP_Server_DisConnected(host, type)
  BY DEF Wire!Notify
<1>. DEFINE m == [main |-> Wire!Short(main), assistant |-> Wire!Short(0), code |-> <<0>>,
                  body |-> [kind |-> "value", v |-> Wire!Long(type)], nlen |-> MaxSize]
<1>3. wire' = Wire!NoticeOut(host, MaxSize, main, type)
  BY <1>2 DEF Wire!MP_Server_Connected, Wire!MP_Server_DisConnected
<1>4. sent' = m /\ m # Wire!None
  BY <1>2, NotNone
<1>5. main \in Nat /\ type \in Nat
  BY DEF Wire!RS_CONNECTED, Wire!RS_DISCONNECTED
<1>6. IsMessage(m) /\ Bears(wire', m)
  BY <1>3, <1>5, NoticeOutIs DEF Notice
<1>. HIDE DEF m
<1>. QED  BY <1>1, <1>4, <1>6 DEF CodecInv

LEMMA ReceiveKeeps == ASSUME CodecInv, Wire!Receive PROVE CodecInv'
<1>1. wire' = wire /\ sent' = sent /\ wire # <<>> /\ wire # Wire!Refused
  BY DEF Wire!Receive
<1>2. sent # Wire!None /\ IsMessage(sent) /\ Bears(wire, sent)
  BY <1>1 DEF CodecInv
<1>3. PICK host \in Wire!Host, buflen \in 0 .. Len(wire), room \in {Len(wire), 2} :
         got' = [kind |-> "read", buflen |-> buflen, room |-> room,
                 head |-> Wire!HeadIn(host, wire, buflen),
                 body |-> IF Wire!HeadIn(host, wire, buflen).ok
                            THEN Wire!StreamIn(host, wire, buflen, sent.body, room)
                            ELSE Wire!Fails]
  BY DEF Wire!Receive
<1>4. wire \in Seq(Wire!Octet) /\ HeadAt(wire, HeadOf(sent)) /\ HeadOf(sent) \in Heads
  BY <1>2, HeadOfIs DEF Bears
<1>5. buflen \in Nat /\ room \in Nat /\ Len(wire) \in Nat
  BY <1>4
<1>6. Wire!HeadIn(host, wire, buflen) =
          IF buflen >= Wire!HeadSize THEN Wire!Reads(HeadOf(sent)) ELSE Wire!Fails
  BY <1>4, <1>5, HeadInIs
<1>. DEFINE x == IF Wire!HeadIn(host, wire, buflen).ok
                   THEN Wire!StreamIn(host, wire, buflen, sent.body, room) ELSE Wire!Fails
<1>7. ReadsAll(x, sent, wire, buflen, room)
  <2>1. CASE buflen >= Wire!HeadSize
    <3>1. buflen \in Wire!HeadSize .. Len(wire)
      BY <1>5, <2>1 DEF Wire!HeadSize
    <3>2. x = Wire!StreamIn(host, wire, buflen, sent.body, room)
      BY <1>6, <2>1, ReadsFacts
    <3>. QED  BY <1>2, <1>5, <3>1, <3>2, StreamInIs
  <2>2. CASE ~(buflen >= Wire!HeadSize)
    <3>1. x = Wire!Fails
      BY <1>6, <2>2, ReadsFacts
    <3>2. /\ Len(wire) = Wire!HeadSize + Wire!Needs(sent.body)
          /\ Wire!Needs(sent.body) \in Nat
      BY <1>2, NeedsFacts DEF Bears, IsMessage
    <3>3. buflen # Len(wire)
      BY <1>5, <2>2, <3>2 DEF Wire!HeadSize
    <3>. QED  BY <3>1, <3>3, ReadsFacts DEF ReadsAll, Whole
  <2>. QED  BY <2>1, <2>2
<1>. HIDE DEF x
<1>8. /\ got'.kind = "read" /\ got'.buflen = buflen /\ got'.room = room
      /\ got'.head = Wire!HeadIn(host, wire, buflen) /\ got'.body = x
  BY <1>3 DEF x
<1>9. IsReading'
  BY <1>1, <1>6, <1>7, <1>8 DEF IsReading
<1>. QED  BY <1>1, <1>2, <1>9 DEF CodecInv

LEMMA CodecNextKeeps == ASSUME CodecInv, [Wire!Next]_(Wire!vars) PROVE CodecInv'
<1>1. CASE Wire!Send
  BY <1>1, SendKeeps
<1>2. CASE Wire!Notify
  BY <1>2, NotifyKeeps
<1>3. CASE Wire!Receive
  BY <1>3, ReceiveKeeps
<1>4. CASE Wire!Deleted
  BY <1>4 DEF Wire!Deleted, Wire!vars, CodecInv, IsReading
<1>5. CASE UNCHANGED Wire!vars
  BY <1>5 DEF Wire!vars, CodecInv, IsReading
<1>. QED  BY <1>1, <1>2, <1>3, <1>4, <1>5 DEF Wire!Next

-----------------------------------------------------------------------------
(* What follows from it.                                                   *)

LEMMA CodecInvType == ASSUME CodecInv PROVE Wire!TypeOK
<1>1. MaxSize \in Nat /\ 12 <= MaxSize
  BY WireAssumption DEF Wire!ConstantsAssumption, Wire!HeadSize, Wire!IntSize
<1>2. got.kind \in {"none", "read"}
  BY DEF CodecInv, IsReading, Wire!None
<1>3. CASE wire = <<>>
  BY <1>1, <1>2, <1>3 DEF Wire!TypeOK
<1>4. CASE wire = Wire!Refused
  BY <1>1, <1>2, <1>4 DEF Wire!TypeOK, Wire!Refused
<1>5. CASE Bears(wire, sent)
  BY <1>2, <1>5 DEF Wire!TypeOK, Bears
<1>. QED  BY <1>3, <1>4, <1>5 DEF CodecInv

LEMMA InvLetsThrough == ASSUME CodecInv PROVE Wire!LetsThroughWhatFits
<1>1. ASSUME wire = Wire!Refused
      PROVE  \/ Wire!Needs(sent.body) > sent.nlen
             \/ Wire!HeadSize + Wire!Needs(sent.body) > MaxSize
  <2>1. wire # <<>> /\ wire \notin Seq(Wire!Octet)
    BY <1>1, RefusedIsNone
  <2>. QED  BY <2>1 DEF CodecInv, TooLong, Bears
<1>2. ASSUME wire \notin {<<>>, Wire!Refused}, NEW host \in Wire!Host
      PROVE  /\ Wire!ShortNumber(Wire!HeadIn(host, wire, Wire!HeadSize).value.uMessageSize) =
                    Len(wire)
             /\ Len(wire) \in Wire!HeadSize .. MaxSize
  <2>1. IsMessage(sent) /\ Bears(wire, sent)
    BY <1>2 DEF CodecInv
  <2>2. /\ wire \in Seq(Wire!Octet)
        /\ HeadAt(wire, HeadOf(sent))
        /\ HeadOf(sent) \in Heads
        /\ Len(wire) = Wire!HeadSize + Wire!Needs(sent.body) /\ Len(wire) <= MaxSize
        /\ Wire!Needs(sent.body) \in Nat
    BY <2>1, HeadOfIs, NeedsFacts DEF Bears, IsMessage
  <2>3. /\ Base \in Nat
        /\ MaxSize \in Nat
        /\ MaxSize < Base * Base
        /\ Wire!HeadSize \in Nat
    BY WireAssumption DEF Wire!ConstantsAssumption, Wire!HeadSize
  <2>4. Wire!HeadIn(host, wire, Wire!HeadSize) = Wire!Reads(HeadOf(sent))
    BY <2>2, <2>3, HeadInIs
  <2>5. Wire!HeadIn(host, wire, Wire!HeadSize).value.uMessageSize = Wire!Short(Len(wire))
    BY <2>2, <2>4, ReadsFacts DEF HeadOf
  <2>6. Len(wire) < Base * Base /\ Len(wire) \in Nat
    <3>1. Base * Base \in Nat
      BY <2>3
    <3>. QED  BY <2>2, <2>3, <3>1
  <2>7. Wire!ShortNumber(Wire!Short(Len(wire))) = Len(wire)
    BY <2>6, ShortNumberIs
  <2>8. Len(wire) \in Wire!HeadSize .. MaxSize
    BY <2>2, <2>3
  <2>. QED  BY <2>5, <2>7, <2>8
<1>. QED  BY <1>1, <1>2 DEF Wire!LetsThroughWhatFits

LEMMA InvArrives == ASSUME CodecInv PROVE Wire!ArrivesAsSent
<1>. SUFFICES ASSUME got.kind = "read" PROVE Wire!ArrivesAsSent
  BY DEF Wire!ArrivesAsSent
<1>1. IsReading
  BY DEF CodecInv, Wire!None
<1>2. /\ got.head =
             IF got.buflen >= Wire!HeadSize THEN Wire!Reads(HeadOf(sent)) ELSE Wire!Fails
      /\ ReadsAll(got.body, sent, wire, got.buflen, got.room)
  BY <1>1 DEF IsReading
<1>3. got.head.ok <=> got.buflen >= Wire!HeadSize
  BY <1>2, ReadsFacts
<1>4. got.head.ok =>
         /\ got.head.value.uMainID = sent.main
         /\ got.head.value.bAssistantID = sent.assistant
         /\ got.head.value.bHandleCode = sent.code
         /\ got.head.value.bReserve = <<0>>
  BY <1>2, <1>3, ReadsFacts DEF HeadOf
<1>. QED  BY <1>2, <1>3, <1>4 DEF Wire!ArrivesAsSent, ReadsAll, Whole

-----------------------------------------------------------------------------
(* A behaviour of MCBytes uses one of the buffers, or the codec.           *)

BytesInv == BipInv /\ RingInv /\ CodecInv

LEMMA BipInvType == ASSUME BipInv PROVE TypeOK
<1>1. /\ mem \in [Offset -> Byte] /\ end \in {0, Size}
      /\ a \in [at : 0 .. Size, size : 0 .. Size]
      /\ b \in [at : {Null, 0}, size : 0 .. Size]
  BY DEF BipInv, BlockOK, AOK, BOK
<1>2. promised \in {Null} \cup 0 .. Size
  BY WithBFacts DEF BipInv, PromiseOK
<1>3. b.at # Null => 0 \in Offset
  <2>1. Size \in Nat
    BY ConstantsAssumption
  <2>. QED  BY <1>1, <2>1 DEF BipInv, AOK, BOK, Offset
<1>4. b \in [at : {Null} \cup Offset, size : 0 .. Size]
  BY <1>1, <1>3
<1>. QED  BY <1>1, <1>2, <1>4 DEF TypeOK

LEMMA InitBytesInv ==
    ASSUME BytesInit
    PROVE  BytesInv /\ Fifo!Init /\ Ring!Fifo!Init
BY RingAssumption, InitMaps, RingInitMaps, InitCodecInv DEF BytesInit, BytesInv

LEMMA NextBytesInv ==
    ASSUME BytesInv, [BytesNext]_<<vars, ringVars, codecVars>>
    PROVE  /\ BytesInv'
           /\ Fifo!Next \/ UNCHANGED Fifo!fifoVars
           /\ Ring!Fifo!Next \/ UNCHANGED Ring!Fifo!fifoVars
<1>1. [Next]_vars
  BY DEF BytesNext
<1>2. [Ring!Next]_(Ring!vars)
  BY DEF BytesNext, ringVars, Ring!vars
<1>3. [Wire!Next]_(Wire!vars)
  BY DEF BytesNext, codecVars, Wire!vars
<1>4. BipInv' /\ (Fifo!Next \/ UNCHANGED Fifo!fifoVars)
  BY <1>1, NextMaps DEF BytesInv
<1>5. RingInv' /\ (Ring!Fifo!Next \/ UNCHANGED Ring!Fifo!fifoVars)
  BY <1>2, RingAssumption, RingNextMaps DEF BytesInv
<1>6. CodecInv'
  BY <1>3, CodecNextKeeps DEF BytesInv
<1>. QED  BY <1>4, <1>5, <1>6 DEF BytesInv

\* The two regions of CircularBuffer never overlap and never leave the block,
\* and what GetSpace told its caller holds until the next call that changes the
\* buffer; the indexes of RingBuffer stay in its block; the bytes of a message
\* are those of its head and its body, at places that do not depend on the host.
THEOREM BytesInvCorrect == BytesSpec => []BytesInv
<1>1. BytesInit => BytesInv
  BY InitBytesInv
<1>2. BytesInv /\ [BytesNext]_<<vars, ringVars, codecVars>> => BytesInv'
  BY NextBytesInv
<1>. QED  BY <1>1, <1>2, PTL DEF BytesSpec

\* CircularBuffer gives back every byte it took, in order and once, whatever
\* the size of the block and the order of Write, GetSpace with
\* IncrementWritten, Read, GetContiguiousBytes and Remove; only a write may
\* be refused although there is room in two pieces.
THEOREM ImplementsByteFifoCorrect == BytesSpec => ImplementsByteFifo
<1>1. BytesInit => Fifo!Init
  BY InitBytesInv
<1>2. BytesInv /\ [BytesNext]_<<vars, ringVars, codecVars>> => [Fifo!Next]_(Fifo!fifoVars)
  BY NextBytesInv
<1>. QED
  BY <1>1, <1>2, BytesInvCorrect, PTL DEF BytesSpec, ImplementsByteFifo, Fifo!Spec

\* RingBuffer gives back every byte it took, in order and once, whatever the
\* size of its block: put() refuses exactly what does not fit, and get() what
\* is not there, also where a piece goes round the end of the block.
THEOREM RingImplementsByteFifoCorrect == BytesSpec => RingImplementsByteFifo
<1>1. BytesInit => Ring!Fifo!Init
  BY InitBytesInv
<1>2. BytesInv /\ [BytesNext]_<<vars, ringVars, codecVars>>
        => [Ring!Fifo!Next]_(Ring!Fifo!fifoVars)
  BY NextBytesInv
<1>. QED
  BY <1>1, <1>2, BytesInvCorrect, PTL
     DEF BytesSpec, RingImplementsByteFifo, Ring!ImplementsByteFifo, Ring!Fifo!Spec

\* isfull() and getfree() agree for every size of the block, and isempty()
\* misses one empty buffer only, that with r at bufsize and h at 0.
THEOREM RingTestsAgreeCorrect == BytesSpec => []RingTestsAgree
<1>1. BytesInv => RingTestsAgree
  BY RingAssumption, InvTestsAgree DEF BytesInv, RingTestsAgree
<1>. QED  BY <1>1, BytesInvCorrect, PTL

\* CircularBuffer's region A is never empty while B holds bytes, and every byte
\* of a message is one, on every host.
THEOREM BytesTypeCorrect == BytesSpec => []BytesTypeOK
<1>1. BytesInv => TypeOK
  BY BipInvType DEF BytesInv
<1>2. BytesInv => BytesTypeOK
  BY <1>1, RingInvType, CodecInvType DEF BytesInv, BytesTypeOK
<1>. QED  BY <1>2, BytesInvCorrect, PTL

\* createMsgToSendList writes into the 16 bits of the head the number of bytes
\* of the message, on every host and for every message, and refuses only one
\* whose stream has no room or that is longer than MAX_SEND_SIZE.
THEOREM LetsThroughWhatFitsCorrect == BytesSpec => []LetsThroughWhatFits
<1>1. BytesInv => LetsThroughWhatFits
  BY InvLetsThrough DEF BytesInv, LetsThroughWhatFits
<1>. QED  BY <1>1, BytesInvCorrect, PTL

\* What In reads is what Out wrote, for values of every width and for strings
\* whose length an int32_t holds, whatever the order of bytes of the two hosts,
\* and a message that was cut off is never read as a whole one.
THEOREM ArrivesAsSentCorrect == BytesSpec => []ArrivesAsSent
<1>1. BytesInv => ArrivesAsSent
  BY InvArrives DEF BytesInv, ArrivesAsSent
<1>. QED  BY <1>1, BytesInvCorrect, PTL
=============================================================================
