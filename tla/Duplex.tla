------------------------------- MODULE Duplex -------------------------------
(***************************************************************************)
(* Both ends of one link: an asking end (Client) and an answering one      *)
(* (Svr), whose worker makes an answer for every message.  Either end is   *)
(* an epoll thread that registers the descriptor for EPOLLOUT, and not for *)
(* EPOLLIN, while output of it is left over, so that it reads nothing      *)
(* then; the network between them holds Cap messages in each direction.    *)
(*                                                                         *)
(* Messages are counted, not told apart (SendMap has their order, Framing  *)
(* their bytes).  Half a keepalive period (Beat) is long: it passes when   *)
(* neither end has anything to do, and then the client pings.              *)
(***************************************************************************)
EXTENDS Naturals

CONSTANTS
    Cap,        \* messages the buffers of the kernels hold, each way
    MaxAsked    \* bound on the messages the client asks

ConstantsAssumption == Cap \in Nat \ {0} /\ MaxAsked \in Nat

Client == "client"
Svr == "server"
End == {Client, Svr}
Other(e) == IF e = Client THEN Svr ELSE Client

VARIABLES
    asked,      \* messages the application of the client has sent
    cur,        \* messages in the current send map
    bak,        \* messages in the backup send map
    onWire,     \* messages on their way to an end
    recvq,      \* messages the worker has not answered yet
    reg,        \* what the descriptor is registered for: "in" or "out"
    ready,      \* ends whose descriptor is on the ready list of epoll
    pc,         \* where the loop of doEpollEvent is
    idle,       \* half periods since refresh_time
    open,       \* ends whose m_socketmap has the connection
    stalled     \* history: both ends had stopped when one closed the link

maps == <<cur, bak>>
epoll == <<reg, ready>>
vars == <<asked, maps, onWire, recvq, epoll, pc, idle, open, stalled>>

Init ==
    /\ asked = 0
    /\ cur = [e \in End |-> 0] /\ bak = [e \in End |-> 0]
    /\ onWire = [e \in End |-> 0]
    /\ recvq = 0
    /\ reg = [e \in End |-> "in"]
    /\ ready = {}
    /\ pc = [e \in End |-> "wait"]
    /\ idle = [e \in End |-> 0]
    /\ open = End
    /\ stalled = FALSE

-----------------------------------------------------------------------------
(* The kernel: edge-triggered readiness.                                   *)

Readable(e) == onWire[e] > 0
Writable(e) == onWire[Other(e)] < Cap

\* The end is on the ready list, if it is registered for what has happened.
Woken(e, event) == IF reg[e] = event THEN ready \cup {e} ELSE ready

\* epoll_ctl(EPOLL_CTL_MOD): the descriptor is looked at anew.
Register(e, event) ==
    /\ reg' = [reg EXCEPT ![e] = event]
    /\ ready' = IF (event = "in" /\ Readable(e)) \/ (event = "out" /\ Writable(e))
                THEN ready \cup {e} ELSE ready \ {e}

-----------------------------------------------------------------------------
(* The epoll thread of an end.                                             *)

At(e, place) == e \in open /\ pc[e] = place
Goto(e, place) == pc' = [pc EXCEPT ![e] = place]

\* The loop goes round all the time; this is when a round changes something.
Busy(e) == e \in ready \/ cur[e] > 0 \/ (bak[e] > 0 /\ Writable(e))

\* epoll_wait reports an end that is ready for what it is registered for.
EpollWait(e) ==
    /\ At(e, "wait") /\ Busy(e)
    /\ Goto(e, IF e \in ready /\ reg[e] = "in" /\ Readable(e) THEN "recv"
               ELSE IF e \in ready /\ reg[e] = "out" /\ Writable(e) THEN "send"
               ELSE "switch")
    /\ ready' = ready \ {e}
    /\ UNCHANGED <<asked, maps, onWire, recvq, reg, idle, open, stalled>>

\* doRecvMessage reads until EAGAIN; the writing end gets room.
Recv(e) ==
    /\ At(e, "recv") /\ Readable(e)
    /\ onWire' = [onWire EXCEPT ![e] = @ - 1]
    /\ ready' = Woken(Other(e), "out")
    /\ recvq' = IF e = Svr THEN recvq + 1 ELSE recvq
    /\ idle' = [idle EXCEPT ![e] = 0]
    /\ UNCHANGED <<asked, maps, reg, pc, open, stalled>>

\* Mutant of RecvDone: one message is read for each event.
RecvDoneEarly(e) ==
    /\ At(e, "recv")
    /\ Goto(e, "switch")
    /\ UNCHANGED <<asked, maps, onWire, recvq, epoll, idle, open, stalled>>

RecvDone(e) ==
    /\ At(e, "recv") /\ ~Readable(e)
    /\ Goto(e, "switch")
    /\ UNCHANGED <<asked, maps, onWire, recvq, epoll, idle, open, stalled>>

\* doSendMessage writes until EAGAIN or until nothing is left.
Send(e) ==
    /\ At(e, "send") /\ Writable(e) /\ bak[e] > 0
    /\ bak' = [bak EXCEPT ![e] = @ - 1]
    /\ onWire' = [onWire EXCEPT ![Other(e)] = @ + 1]
    /\ ready' = Woken(Other(e), "in")
    /\ UNCHANGED <<asked, cur, recvq, reg, pc, idle, open, stalled>>

\* Back to EPOLLIN.
SendDone(e) ==
    /\ At(e, "send") /\ (~Writable(e) \/ bak[e] = 0)
    /\ Register(e, "in")
    /\ Goto(e, "switch")
    /\ UNCHANGED <<asked, maps, onWire, recvq, idle, open, stalled>>

\* switchSendMap: what is left over is put in front of what is new.
SwitchSendMap(e) ==
    /\ At(e, "switch")
    /\ IF cur[e] = 0 THEN UNCHANGED maps
       ELSE /\ bak' = [bak EXCEPT ![e] = @ + cur[e]]
            /\ cur' = [cur EXCEPT ![e] = 0]
    /\ Goto(e, "arm")
    /\ UNCHANGED <<asked, onWire, recvq, epoll, idle, open, stalled>>

\* Mutant of ArmOutput: EPOLLOUT is not asked for again for what is left over.
ArmOutputOnce(e) ==
    /\ At(e, "arm")
    /\ IF bak[e] = 1 THEN Register(e, "out") ELSE UNCHANGED epoll
    /\ Goto(e, "wait")
    /\ UNCHANGED <<asked, maps, onWire, recvq, idle, open, stalled>>

\* Every descriptor of the backup map is registered for EPOLLOUT only.
ArmOutput(e) ==
    /\ At(e, "arm")
    /\ IF bak[e] > 0 THEN Register(e, "out") ELSE UNCHANGED epoll
    /\ Goto(e, "wait")
    /\ UNCHANGED <<asked, maps, onWire, recvq, idle, open, stalled>>

-----------------------------------------------------------------------------
(* The applications.                                                       *)

Ask ==
    /\ Client \in open /\ asked < MaxAsked
    /\ asked' = asked + 1
    /\ cur' = [cur EXCEPT ![Client] = @ + 1]
    /\ UNCHANGED <<bak, onWire, recvq, epoll, pc, idle, open, stalled>>

\* Mutant of Answer: the worker takes the message, and nothing is sent.
AnswerNothing ==
    /\ Svr \in open /\ recvq > 0
    /\ recvq' = recvq - 1
    /\ UNCHANGED <<asked, maps, onWire, epoll, pc, idle, open, stalled>>

\* The worker of the server: ProcessKeepalive.
Answer ==
    /\ Svr \in open /\ recvq > 0
    /\ recvq' = recvq - 1
    /\ cur' = [cur EXCEPT ![Svr] = @ + 1]
    /\ UNCHANGED <<asked, bak, onWire, epoll, pc, idle, open, stalled>>

-----------------------------------------------------------------------------
(* Time.                                                                   *)

\* Nothing is left to do for the epoll thread of an end.
AtRest(e) == pc[e] = "wait" /\ ~Busy(e)
Quiet == recvq = 0 /\ \A e \in End : AtRest(e)

\* Either end has output for which the other's unread input leaves no room.
MutualBlock == \A e \in End : bak[e] > 0 /\ ~Writable(e)

\* doKeepaliveTimeout and doSendKeepaliveToServer, with the timeout two half
\* periods long.  The first end to close takes the other with it.
Beat ==
    /\ open = End /\ Quiet
    /\ idle' = [e \in End |-> idle[e] + 1]
    /\ IF \E e \in End : idle[e] = 2
       THEN open' = {} /\ stalled' = MutualBlock /\ UNCHANGED cur
       ELSE cur' = [cur EXCEPT ![Client] = @ + 1] /\ UNCHANGED <<open, stalled>>
    /\ UNCHANGED <<asked, bak, onWire, recvq, epoll, pc>>

LoopStep(e) ==
    \/ EpollWait(e) \/ Recv(e) \/ RecvDone(e) \/ Send(e) \/ SendDone(e)
    \/ SwitchSendMap(e) \/ ArmOutput(e)

Next == (\E e \in End : LoopStep(e)) \/ Ask \/ Answer \/ Beat

Spec == Init /\ [][Next]_vars

\* Both epoll threads and the worker run, and time goes on.  Nothing is
\* promised of the application.
Fairness ==
    /\ \A e \in End : WF_vars(LoopStep(e))
    /\ WF_vars(Answer)
    /\ WF_vars(Beat)

-----------------------------------------------------------------------------

Counts == 0 .. MaxAsked + 3

TypeOK ==
    /\ asked \in 0 .. MaxAsked
    /\ cur \in [End -> Counts] /\ bak \in [End -> Counts]
    /\ onWire \in [End -> 0 .. Cap] /\ recvq \in Counts
    /\ reg \in [End -> {"in", "out"}] /\ ready \subseteq End
    /\ pc \in [End -> {"wait", "recv", "send", "switch", "arm"}]
    /\ idle \in [End -> 0 .. 3] /\ open \subseteq End /\ stalled \in BOOLEAN

\* Two ends at rest have delivered everything, unless both wait for room in
\* each other's buffers: no edge of epoll is lost while the registration goes
\* back and forth between EPOLLIN and EPOLLOUT, and a link on which one end
\* reads never stops (doEpollEvent, doSendMessage, doRecvMessage).
RestIsDelivered ==
    open = End /\ Quiet => MutualBlock \/ \A e \in End : bak[e] = 0 /\ onWire[e] = 0

\* A link is closed for silence only when both ends had stopped reading; a
\* link that can still move is kept by its pings (doKeepaliveTimeout).
ClosedOnlyWhenStalled == open = {} => stalled

\* What waits to be written is written in the end, or the keepalive timeout
\* ends the link: two ends that block each other do not stay so.
OutputEnds == \A e \in End : bak[e] > 0 ~> bak[e] = 0 \/ open = {}
=============================================================================
