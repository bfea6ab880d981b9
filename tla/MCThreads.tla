----------------------------- MODULE MCThreads ------------------------------
(* Small instances of the threads of a program for TLC: how they are       *)
(* started and ended (Lifecycle), how they take the locks of CGlobalMgr    *)
(* while they run (LockOrder), and what becomes of the link of p2ptrans    *)
(* (WsaLoop).  A behaviour is about one of the three.                      *)
EXTENDS LockOrder

CONSTANTS
    LoopEnds,   \* of Lifecycle
    Fds, None, MaxConns, MaxEvents, MaxRecv, MaxUnread      \* of WsaLoop

VARIABLES
    part,   \* which of the three
    conns, sock, peer, waiting, map, key, eventq, mainLoop, cur, bak, recvtmp,
    recvq, told, pc, todo, dropped,
    main, obj, operate, isExit, signalled, place, manager, held, made,
    undetached, stopped, dangling

lifeVars == <<main, obj, operate, isExit, signalled, place, manager, held, made,
              undetached, stopped, dangling>>
wsaVars == <<conns, sock, peer, waiting, map, key, eventq, mainLoop, cur, bak,
             recvtmp, recvq, told, pc, todo, dropped>>
allVars == <<part, vars, lifeVars, wsaVars>>

Life == INSTANCE Lifecycle WITH at <- place
Wsa == INSTANCE WsaLoop WITH main <- mainLoop

\* What the proofs about WsaLoop assume holds here.
ASSUME WsaAssumption == Wsa!ConstantsAssumption

ThreadsInit == Init /\ Life!Init /\ Wsa!Init /\ part \in {"life", "locks", "wsa"}

InLife(A) == part = "life" /\ A /\ UNCHANGED <<part, vars, wsaVars>>
InWsa(A) == part = "wsa" /\ A /\ UNCHANGED <<part, vars, lifeVars>>

ThreadsNext ==
    \/ InLife(Life!Next)
    \/ part = "locks" /\ Next /\ UNCHANGED <<part, lifeVars, wsaVars>>
    \/ InWsa(Wsa!Next)

\* The threads of Lifecycle and of WsaLoop run; a server that can be reached
\* again and again is reached in the end.
ThreadsSpec ==
    /\ ThreadsInit /\ [][ThreadsNext]_allVars
    /\ WF_allVars(InLife(Life!MainThread /\ ~Life!At("running")))
    /\ \A t \in Life!Thread : WF_allVars(InLife(Life!Run(t)))
    /\ WF_allVars(InWsa(Wsa!LoopStep))
    /\ WF_allVars(InWsa(Wsa!MainStep))
    /\ SF_allVars(InWsa(Wsa!Connected))

ThreadsTypeOK == Life!TypeOK /\ TypeOK /\ Wsa!TypeOK
EndsWhenStopped == Life!EndsWhenStopped
NetEndsFirst == Life!NetEndsFirst
ObjectsOutliveThreads == Life!ObjectsOutliveThreads

\* ExitEnds of Lifecycle.
ExitEnds == part = "life" => Life!ExitEnds

OneLinkUnderway == Wsa!OneLinkUnderway
StoryInOrder == Wsa!StoryInOrder
NothingDropped == Wsa!NothingDropped

\* LinkComesBack of WsaLoop.
LinkComesBack == part = "wsa" => Wsa!LinkComesBack
=============================================================================
