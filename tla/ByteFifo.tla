------------------------------ MODULE ByteFifo ------------------------------
(***************************************************************************)
(* What both byte buffers of src/common promise their caller: a bounded    *)
(* first-in first-out queue of bytes.  A call either does all of what it   *)
(* was asked for or nothing; what is read is what was written, in order.   *)
(*                                                                         *)
(* CircularBuffer and RingBuffer differ in when they may refuse to store   *)
(* bytes: the first keeps every write in one piece and may refuse one that *)
(* would fit in two, the second refuses only what does not fit.            *)
(***************************************************************************)
EXTENDS Naturals, Sequences

CONSTANTS
    Byte,       \* the values of a byte
    Exact,      \* TRUE: only what does not fit is refused
    MaxCall     \* bound on the bytes one call names

VARIABLES
    content,    \* the bytes stored, the oldest first
    cap,        \* how many bytes there is room for; 0 before allocation
    out,        \* the bytes the last call gave to the caller
    last        \* the last call, its number of bytes and what it returned

fifoVars == <<content, cap, out, last>>

Call(op, n, ok) == [op |-> op, n |-> n, ok |-> ok]
NoCall == Call("none", 0, FALSE)
First(n) == SubSeq(content, 1, n)
Rest(n) == SubSeq(content, n + 1, Len(content))

Init == content = <<>> /\ cap = 0 /\ out = <<>> /\ last = NoCall

Allocate ==
    /\ cap' \in Nat
    /\ content' = <<>> /\ out' = <<>>
    /\ last' = Call("allocate", cap', TRUE)

Store(n) ==
    /\ Len(content) + n <= cap
    /\ \E data \in [1 .. n -> Byte] : content' = content \o data
    /\ last' = Call("store", n, TRUE)
    /\ out' = <<>>
    /\ UNCHANGED cap

\* An empty buffer stores whatever its capacity allows.
RefuseStore(n) ==
    /\ \/ cap = 0
       \/ Len(content) + n > cap
       \/ ~Exact /\ content # <<>>
    /\ last' = Call("store", n, FALSE)
    /\ out' = <<>>
    /\ UNCHANGED <<content, cap>>

Take(n) ==
    /\ n <= Len(content)
    /\ out' = First(n) /\ content' = Rest(n)
    /\ last' = Call("take", n, TRUE)
    /\ UNCHANGED cap

RefuseTake(n) ==
    /\ n = 0 \/ n > Len(content)
    /\ last' = Call("take", n, FALSE)
    /\ out' = <<>>
    /\ UNCHANGED <<content, cap>>

\* The oldest bytes are shown to the caller and stay.
Show(n) ==
    /\ n <= Len(content) /\ (n = 0 => content = <<>>)
    /\ out' = First(n)
    /\ last' = Call("show", n, TRUE)
    /\ UNCHANGED <<content, cap>>

Drop(n) ==
    /\ content' = Rest(n)
    /\ out' = <<>>
    /\ last' = Call("drop", n, TRUE)
    /\ UNCHANGED cap

Next ==
    \/ Allocate
    \/ \E n \in 0 .. MaxCall :
         Store(n) \/ RefuseStore(n) \/ Take(n) \/ RefuseTake(n) \/ Show(n) \/ Drop(n)

Spec == Init /\ [][Next]_fifoVars
=============================================================================
