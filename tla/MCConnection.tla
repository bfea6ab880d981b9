---------------------------- MODULE MCConnection ----------------------------
(* Small instances for TLC of what happens on one connection: how pings    *)
(* keep the link (Keepalive), how the stream is cut into messages          *)
(* (Framing), and how the two ends take turns in reading and writing       *)
(* (Duplex).  A behaviour is about one of the three.                       *)
EXTENDS Keepalive

CONSTANTS
    HeadSize, MaxSize, BufLen, NMsgs,   \* of Framing
    Cap, MaxAsked                       \* of Duplex

VARIABLES
    about,  \* which of the three
    length, tosend, kbuf, ended, edge, place, buf, curpos, nret, part, out, misread,
    asked, cur, bak, onWire, recvq, reg, ready, loop, idle, linked, stalled

parserVars == <<length, tosend, kbuf, ended, edge, place, buf, curpos, nret, part,
                out, misread>>
turnVars == <<asked, cur, bak, onWire, recvq, reg, ready, loop, idle, linked,
              stalled>>
allVars == <<about, vars, parserVars, turnVars>>

Parser == INSTANCE Framing WITH pc <- place
Turns == INSTANCE Duplex WITH pc <- loop, open <- linked

\* What the proofs about Framing and Duplex assume holds here.
ASSUME ParserAssumption == Parser!ConstantsAssumption
ASSUME TurnsAssumption == Turns!ConstantsAssumption

\* What a behaviour is not about starts in one way.
ConnectionInit ==
    /\ Init /\ Parser!Init /\ Turns!Init
    /\ about \in {"parser", "turns", "timers"}
    /\ about # "parser" => length = [i \in 1 .. NMsgs |-> HeadSize]
    /\ about # "timers" => pinged = 0 /\ checked = [e \in End |-> 0]

InTurns(A) == about = "turns" /\ A /\ UNCHANGED <<about, vars, parserVars>>

ConnectionNext ==
    \/ about = "parser" /\ Parser!Next /\ UNCHANGED <<about, vars, turnVars>>
    \/ InTurns(Turns!Next)
    \/ about = "timers" /\ Next /\ UNCHANGED <<about, parserVars, turnVars>>

\* The fairness of Duplex, in the behaviours that are about it.
ConnectionSpec ==
    /\ ConnectionInit /\ [][ConnectionNext]_allVars
    /\ \A e \in Turns!End : WF_allVars(InTurns(Turns!LoopStep(e)))
    /\ WF_allVars(InTurns(Turns!Answer))
    /\ WF_allVars(InTurns(Turns!Beat))

ConnectionTypeOK == TypeOK /\ Parser!TypeOK /\ Turns!TypeOK

PartFits == Parser!PartFits
ExactUnlessMisread == Parser!ExactUnlessMisread
NothingStranded == Parser!NothingStranded
RestIsDelivered == Turns!RestIsDelivered
ClosedOnlyWhenStalled == Turns!ClosedOnlyWhenStalled

\* OutputEnds of Duplex.
OutputEnds == about = "turns" => Turns!OutputEnds
=============================================================================
