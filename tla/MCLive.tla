------------------------------- MODULE MCLive -------------------------------
(* Instances for TLC of the send path (SendMap) and of the life of the     *)
(* connections (ServerLink) that are small enough for liveness.  They      *)
(* share nothing: a behaviour is about one of the two.                     *)
EXTENDS SendMap

CONSTANTS MaxEvents, MaxRecv, MaxEpollSize

VARIABLES
    part,   \* which of the two
    sock, reg, map, registry, key, eventq, recvtmp, recvq, told, main, hand,
    step, events, misclosed, failed

linkVars == <<sock, reg, map, registry, key, eventq, recvtmp, recvq, told, main,
              hand, step, events, misclosed, failed>>
allVars == <<part, vars, linkVars>>

Link == INSTANCE ServerLink
    WITH conns <- registry, pc <- step, batch <- events

LiveInit == Init /\ Link!Init /\ part \in {"send", "link"}

LiveNext ==
    \/ part = "send" /\ Next /\ UNCHANGED <<part, linkVars>>
    \/ part = "link" /\ Link!Next /\ UNCHANGED <<part, vars>>

InSend(A) == part = "send" /\ A /\ UNCHANGED <<part, linkVars>>
InLink(A) == part = "link" /\ A /\ UNCHANGED <<part, vars>>

\* The fairness of either module, in the behaviours that are about it.
LiveSpec ==
    /\ LiveInit /\ [][LiveNext]_allVars
    /\ WF_allVars(InSend(Loop))
    /\ \A f \in Fds : WF_allVars(InSend(Drain(f)))
    /\ WF_allVars(InLink(Link!EpollStep))
    /\ WF_allVars(InLink(Link!MainThread))
    /\ SF_allVars(InLink(\E f \in Fds : Link!OpenSocket(f)))
    /\ SF_allVars(InLink(Link!Connected))

\* LinkComesBack of ServerLink.
LinkComesBack == part = "link" => Link!LinkComesBack
=============================================================================
