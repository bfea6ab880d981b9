----------------------------- MODULE BipBuffer ------------------------------
(***************************************************************************)
(* CircularBuffer, a bipartite buffer: one block of memory that holds at   *)
(* most two regions.  Region A has the older bytes; region B begins at the *)
(* start of the block and grows towards A.  Every write is in one piece,   *)
(* so that a caller can receive into the buffer and send from it directly. *)
(*                                                                         *)
(* A pointer is an offset from m_buffer, Null when it is NULL.  The object *)
(* has no lock and one caller, whose calls are the actions.  A caller that *)
(* receives into the buffer asks GetSpace, gets GetBuffer, stores no more  *)
(* than it was told and then calls IncrementWritten; promised is what it   *)
(* was told, as long as no other call came between.                        *)
(***************************************************************************)
EXTENDS Integers, Sequences

CONSTANTS
    Size,       \* the argument of Allocate
    Byte,       \* the values of a byte
    Null,       \* NULL
    MaxCall     \* bound on the bytes one call names

ASSUME ConstantsAssumption ==
    /\ Size \in Nat \ {0}
    /\ Byte # {}
    /\ MaxCall \in Nat /\ MaxCall >= Size      \* calls may name the whole block
    /\ Null \notin Int

VARIABLES
    mem,        \* the block of memory
    end,        \* m_bufferEnd - m_buffer; 0 while m_buffer is NULL
    a,          \* m_regionAPointer and m_regionASize
    b,          \* m_regionBPointer and m_regionBSize
    promised,   \* what GetSpace told the caller, or Null
    out,        \* history: the bytes the last call gave to the caller
    last        \* history: the last call and what it returned

block == <<mem, end>>
regions == <<a, b>>
vars == <<block, regions, promised, out, last>>

Region(at, size) == [at |-> at, size |-> size]
Offset == 0 .. Size - 1
Data == UNION {[1 .. n -> Byte] : n \in 0 .. MaxCall}
Least(m, n) == IF m < n THEN m ELSE n

Call(op, n, ok) == [op |-> op, n |-> n, ok |-> ok]
Returns(op, n, ok, bytes) ==
    /\ last' = Call(op, n, ok)
    /\ out' = bytes
    /\ promised' = Null

-----------------------------------------------------------------------------
(* The private helpers.                                                    *)

\* Mutant of GetAFreeSpace: what A holds is not taken off.
GetAFreeSpaceOfBlock == end - a.at
GetAFreeSpace == end - a.at - a.size
GetSpaceBeforeA == a.at

GetBFreeSpace(rb) == IF rb.at = Null THEN 0 ELSE a.at - rb.at - rb.size

\* Region B after the test of Write and GetSpace whether to allocate it:
\* AllocateB sets the pointer only.
WithB ==
    IF b.at = Null /\ GetAFreeSpace < GetSpaceBeforeA THEN [b EXCEPT !.at = 0] ELSE b

\* The room the next write has, in one piece.
Room == IF WithB.at = Null THEN GetAFreeSpace ELSE GetBFreeSpace(WithB)

\* Memory after data was copied to the end of a region.
Filled(r, data) ==
    [i \in Offset |-> IF i >= r.at + r.size /\ i < r.at + r.size + Len(data)
                      THEN data[i - r.at - r.size + 1]
                      ELSE mem[i]]

Bytes(r) == [i \in 1 .. r.size |-> mem[r.at + i - 1]]
Stored == Bytes(a) \o Bytes(b)

Grow(r, n) == [r EXCEPT !.size = @ + n]
Cut(r, n) == Region(r.at + n, r.size - n)

\* Mutant of Settle: region B becomes A but is not moved.
SettleUnmoved(ra, rb) ==
    /\ UNCHANGED mem
    /\ IF ra.size > 0
       THEN a' = ra /\ b' = rb
       ELSE a' = Region(0, rb.size) /\ b' = Region(Null, 0)

\* The end of Read and Remove, with what is left of the two regions: when A
\* is empty, B is moved to the start of the block and becomes A.
Settle(ra, rb) ==
    IF ra.size > 0
    THEN a' = ra /\ b' = rb /\ UNCHANGED mem
    ELSE /\ a' = Region(0, rb.size)
         /\ b' = Region(Null, 0)
         /\ mem' = [i \in Offset |-> IF i < rb.size THEN mem[rb.at + i] ELSE mem[i]]

\* The oldest n bytes go, those of A first.
CutFront(n) ==
    LET fromA == Least(n, a.size)
        fromB == Least(n - fromA, b.size)
    IN  Settle(Cut(a, fromA), IF fromB = 0 THEN b ELSE Cut(b, fromB))

-----------------------------------------------------------------------------

\* The constructor.  There is no block yet.
Init ==
    /\ mem = [i \in Offset |-> CHOOSE v \in Byte : TRUE]
    /\ end = 0
    /\ a = Region(0, 0) /\ b = Region(Null, 0)
    /\ promised = Null
    /\ out = <<>> /\ last = Call("none", 0, FALSE)

\* Allocate is called once.  malloc leaves any bytes in the block.
Allocate ==
    /\ end = 0
    /\ end' = Size
    /\ a' = [a EXCEPT !.at = 0]
    /\ mem' \in [Offset -> Byte]
    /\ Returns("allocate", Size, TRUE, <<>>)
    /\ UNCHANGED b

\* Region B is allocated even when the write then fails.
Write(data) ==
    LET n == Len(data)
        toB == WithB.at # Null
    IN  IF end = 0 \/ Room < n
        THEN /\ b' = IF end = 0 THEN b ELSE WithB
             /\ Returns("store", n, FALSE, <<>>)
             /\ UNCHANGED <<block, a>>
        ELSE /\ mem' = Filled(IF toB THEN WithB ELSE a, data)
             /\ b' = IF toB THEN Grow(WithB, n) ELSE b
             /\ a' = IF toB THEN a ELSE Grow(a, n)
             /\ Returns("store", n, TRUE, <<>>)
             /\ UNCHANGED end

Read(n) ==
    /\ UNCHANGED end
    /\ IF end = 0 \/ a.size + b.size < n
       THEN /\ Returns("take", n, FALSE, <<>>)
            /\ UNCHANGED <<mem, regions>>
       ELSE /\ CutFront(n)
            /\ Returns("take", n, TRUE, SubSeq(Stored, 1, n))

Remove(n) ==
    /\ CutFront(n)
    /\ Returns("drop", n, TRUE, <<>>)
    /\ UNCHANGED end

GetSpace ==
    /\ b' = WithB
    /\ promised' = Room
    /\ UNCHANGED <<block, a, out, last>>

\* GetBuffer, recv() into it, and IncrementWritten, after GetSpace.
Receive(data) ==
    LET n == Len(data)
        toB == b.at # Null
    IN  /\ promised # Null /\ end > 0
        /\ n <= promised
        /\ mem' = Filled(IF toB THEN b ELSE a, data)
        /\ b' = IF toB THEN Grow(b, n) ELSE b
        /\ a' = IF toB THEN a ELSE Grow(a, n)
        /\ Returns("store", n, TRUE, <<>>)
        /\ UNCHANGED end

GetContiguiousBytes == IF a.size > 0 THEN a.size ELSE b.size
GetBufferStart == IF a.size > 0 THEN a.at ELSE b.at

\* GetBufferStart and GetContiguiousBytes: what a caller hands to send().
\* It then calls Remove with what send() took.
Show ==
    /\ Returns("show", GetContiguiousBytes, TRUE,
               Bytes(Region(GetBufferStart, GetContiguiousBytes)))
    /\ UNCHANGED <<block, regions>>

Next ==
    \/ Allocate
    \/ \E data \in Data : Write(data) \/ Receive(data)
    \/ \E n \in 0 .. MaxCall : Read(n) \/ Remove(n)
    \/ GetSpace
    \/ Show

\* No call was made yet.
Unused == last = Call("none", 0, FALSE) /\ promised = Null

Spec == Init /\ [][Next]_vars

-----------------------------------------------------------------------------

TypeOK ==
    /\ mem \in [Offset -> Byte]
    /\ end \in {0, Size}
    /\ a \in [at : 0 .. Size, size : 0 .. Size]
    /\ b \in [at : {Null} \cup Offset, size : 0 .. Size]
    /\ promised \in {Null} \cup 0 .. Size

\* The circular buffer implements the queue of bytes that may refuse a write
\* when it is not empty; asking for room and a failed call change no byte.
Fifo == INSTANCE ByteFifo WITH content <- Stored, cap <- end, Exact <- FALSE
ImplementsByteFifo == Fifo!Spec
=============================================================================
