----------------------------- MODULE RingBuffer -----------------------------
(***************************************************************************)
(* RingBuffer: a block of bufsize bytes, one more than asked for, with a   *)
(* read index h and a write index r that go round.  put() may leave r at   *)
(* bufsize, one behind the last byte, where every other index is taken     *)
(* modulo bufsize.                                                         *)
(*                                                                         *)
(* The indexes are uint32_t: a sum is taken modulo Modulus, the small      *)
(* stand-in for 2^32.  getsize() is right only while bufsize is at most    *)
(* half of it; init() does not ask, the model allocates no more than that. *)
(* The object has no lock and one caller, whose calls are the actions.     *)
(***************************************************************************)
EXTENDS Integers, Sequences

CONSTANTS
    Sizes,      \* the arguments of init
    Byte,       \* the values of a byte
    Modulus,    \* the number of values of a uint32_t
    MaxCall     \* bound on the bytes one call names

\* A call may name every byte of the block; a new block is zeroed.
ConstantsAssumption ==
    /\ Sizes \subseteq 0 .. MaxCall
    /\ 0 \in Byte
    /\ Modulus \in Nat /\ MaxCall \in Nat

VARIABLES
    buf,        \* the block
    bufsize,    \* its length; 0 while buf is NULL
    h,          \* where the next byte is read
    r,          \* where the next byte is written
    out,        \* history: the bytes the last call gave to the caller
    last        \* history: the last call and what it returned

vars == <<buf, bufsize, h, r, out, last>>

Data == UNION {[1 .. n -> Byte] : n \in 0 .. MaxCall}
U32(x) == x % Modulus
Zeros(n) == [i \in 0 .. n - 1 |-> 0]

Call(op, n, ok) == [op |-> op, n |-> n, ok |-> ok]
Returns(op, n, ok, bytes) == last' = Call(op, n, ok) /\ out' = bytes

-----------------------------------------------------------------------------

getsize == U32(r + bufsize - h) % bufsize

\* Mutant of getfree: the byte that is never used is offered.
getfreeAll == bufsize - getsize
getfree == bufsize - getsize - 1

\* Mutant of isfull: the index behind r is not taken round.
isfullUnwrapped == r + 1 = h
isfull == U32(r + 1) % bufsize = h
isempty == r = h

\* The cell that is p - 1 behind index i, going round once.
Cell(i, p) == IF i + p - 1 < bufsize THEN i + p - 1 ELSE i + p - 1 - bufsize

Held(n) == [p \in 1 .. n |-> buf[Cell(h, p)]]
Stored == IF bufsize = 0 THEN <<>> ELSE Held(getsize)
Capacity == IF bufsize = 0 THEN 0 ELSE bufsize - 1

\* The block after put() copied data from r on, in one piece or two.
Copied(data) ==
    [c \in DOMAIN buf |->
        IF \E p \in DOMAIN data : Cell(r, p) = c
        THEN data[CHOOSE p \in DOMAIN data : Cell(r, p) = c]
        ELSE buf[c]]

\* Where r stands after n bytes: at bufsize when they end with the block.
Advanced(n) == IF bufsize - r >= n THEN r + n ELSE n - (bufsize - r)

-----------------------------------------------------------------------------

Init ==
    /\ buf = Zeros(0)
    /\ bufsize = 0 /\ h = 0 /\ r = 0
    /\ out = <<>> /\ last = Call("none", 0, FALSE)

\* init() releases the old block first; release() alone leaves none.
Allocate(n) ==
    /\ 2 * (n + 1) <= Modulus
    /\ bufsize' = n + 1 /\ buf' = Zeros(n + 1)
    /\ h' = 0 /\ r' = 0
    /\ Returns("allocate", n, TRUE, <<>>)

Release ==
    /\ bufsize' = 0 /\ buf' = Zeros(0)
    /\ h' = 0 /\ r' = 0
    /\ Returns("allocate", 0, TRUE, <<>>)

Reset ==
    /\ h' = 0 /\ r' = 0
    /\ buf' = Zeros(bufsize)
    /\ Returns("drop", Len(Stored), TRUE, <<>>)
    /\ UNCHANGED bufsize

\* put() and get() divide by bufsize: they are called after init().
Put(data) ==
    /\ bufsize > 0
    /\ IF getfree >= Len(data)
       THEN /\ buf' = Copied(data)
            /\ r' = Advanced(Len(data))
            /\ Returns("store", Len(data), TRUE, <<>>)
       ELSE /\ Returns("store", Len(data), FALSE, <<>>)
            /\ UNCHANGED <<buf, r>>
    /\ UNCHANGED <<bufsize, h>>

Get(n) ==
    /\ bufsize > 0
    /\ IF n > 0 /\ n <= getsize
       THEN /\ h' = IF bufsize - h >= n THEN U32(h + n) % bufsize
                                        ELSE n - (bufsize - h)
            /\ Returns("take", n, TRUE, Held(n))
       ELSE /\ Returns("take", n, FALSE, <<>>)
            /\ UNCHANGED h
    /\ UNCHANGED <<buf, bufsize, r>>

Next ==
    \/ \E n \in Sizes : Allocate(n)
    \/ Release \/ Reset
    \/ \E data \in Data : Put(data)
    \/ \E n \in 0 .. MaxCall : Get(n)

\* No call was made yet.
Unused == last = Call("none", 0, FALSE)

Spec == Init /\ [][Next]_vars

-----------------------------------------------------------------------------

TypeOK ==
    /\ bufsize \in {0} \cup {n + 1 : n \in Sizes}
    /\ buf \in [0 .. bufsize - 1 -> Byte]
    /\ r \in 0 .. bufsize
    /\ h \in 0 .. bufsize /\ (bufsize > 0 => h < bufsize)

\* isfull() and getfree() agree.  isempty() is true of an empty buffer only;
\* it misses one: with r left at bufsize by put() and h gone round to 0 by
\* get(), the buffer is empty and isempty() says it is not.
TestsAgree ==
    bufsize > 0 =>
        /\ isfull <=> getfree = 0
        /\ isempty => Stored = <<>>
        /\ Stored = <<>> /\ ~isempty => r = bufsize /\ h = 0

\* The ring buffer implements the queue of bytes that refuses exactly what
\* does not fit: put() and get() are all or nothing, in order, round the end.
Fifo == INSTANCE ByteFifo WITH content <- Stored, cap <- Capacity, Exact <- TRUE
ImplementsByteFifo == Fifo!Spec
=============================================================================
