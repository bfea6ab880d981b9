------------------------------ MODULE MCBytes ------------------------------
(* Small instances of the two byte buffers and of the codec for TLC.  They  *)
(* share nothing: a behaviour uses one of the three.                        *)
EXTENDS BipBuffer

CONSTANTS
    Sizes,      \* of RingBuffer: the arguments of init
    Modulus,    \* of RingBuffer: the number of values of a uint32_t
    Base,       \* of Codec: the number of values of a byte
    MaxSize,    \* of Codec: MAX_SEND_SIZE
    Values,     \* of Codec: the integers that are sent
    Strings,    \* of Codec: the strings that are sent
    MaxRoom     \* of Codec: bound on the room a caller asks for

VARIABLES
    ringBuf, ringSize, ringH, ringR, ringOut, ringLast,
    sent, wire, got

ringVars == <<ringBuf, ringSize, ringH, ringR, ringOut, ringLast>>
codecVars == <<sent, wire, got>>

Ring == INSTANCE RingBuffer
    WITH buf <- ringBuf, bufsize <- ringSize, h <- ringH, r <- ringR,
         out <- ringOut, last <- ringLast

Wire == INSTANCE Codec

\* What the proofs about RingBuffer and Codec assume holds here.
ASSUME RingAssumption == Ring!ConstantsAssumption
ASSUME WireAssumption == Wire!ConstantsAssumption

\* Values and Strings for TLC.  Of every width a word whose digits all differ,
\* the number one and the largest one; strings of every length up to 6.
SampleValues ==
    UNION {{[i \in 1 .. n |-> i], [i \in 1 .. n |-> IF i = n THEN 1 ELSE 0],
            [i \in 1 .. n |-> Base - 1]} : n \in {1, 2, 4, 8}}
SampleStrings == {[i \in 1 .. l |-> i] : l \in 0 .. 6}

BytesInit == Init /\ Ring!Init /\ Wire!Init

BytesNext ==
    \/ Ring!Unused /\ Wire!Unused /\ Next /\ UNCHANGED <<ringVars, codecVars>>
    \/ Unused /\ Wire!Unused /\ Ring!Next /\ UNCHANGED <<vars, codecVars>>
    \/ Unused /\ Ring!Unused /\ Wire!Next /\ UNCHANGED <<vars, ringVars>>

BytesSpec == BytesInit /\ [][BytesNext]_<<vars, ringVars, codecVars>>

BytesTypeOK == TypeOK /\ Ring!TypeOK /\ Wire!TypeOK

RingTestsAgree == Ring!TestsAgree
RingImplementsByteFifo == Ring!ImplementsByteFifo

LetsThroughWhatFits == Wire!LetsThroughWhatFits
ArrivesAsSent == Wire!ArrivesAsSent
=============================================================================
