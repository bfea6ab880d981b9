----------------------------- MODULE Keepalive ------------------------------
(***************************************************************************)
(* The timers that keep one link alive: testproj (Client), which pings the *)
(* servers it is connected to, and usercentersvr (Svr), whose worker       *)
(* answers; both look for connections that have been silent for too long.  *)
(*                                                                         *)
(* Time goes in the seconds of time(NULL).  A time the code keeps is       *)
(* modelled by its age, the seconds since then, up to a limit above which  *)
(* nothing tells ages apart.  An epoll thread goes round its loop at least *)
(* once a second (epoll_wait waits ten milliseconds), and a message is     *)
(* read at most Delay seconds after it was queued: NetworkAssumption says  *)
(* which delays the periods of the code can bear.                          *)
(*                                                                         *)
(* An end can freeze (its host or its network is gone, no FIN is sent),    *)
(* and a full receive queue of the server can lose a ping.                 *)
(***************************************************************************)
EXTENDS Naturals, Sequences

CONSTANTS
    Timeout,    \* m_keepalivetimeout, the option sys_keepalive_timer
    Delay       \* seconds between queueing a message and reading it, at most

\* The times are whole seconds, and half the timeout is not none of them.
ASSUME PeriodsAssumption == Timeout \in Nat /\ Timeout >= 2 /\ Delay \in Nat

\* m_keepaliveinterval, of the ping and of the search for silent connections.
Interval == Timeout \div 2

NetworkAssumption == Interval + 2 * Delay <= Timeout

Client == "testproj"
Svr == "usercentersvr"
End == {Client, Svr}
Other(e) == IF e = Client THEN Svr ELSE Client

VARIABLES
    open,       \* ends whose m_socketmap has the connection
    frozen,     \* ends that do nothing any more
    lost,       \* history: a ping was lost in the receive queue
    silent,     \* age of refresh_time
    checked,    \* age of m_checkkeepalivetime
    pinged,     \* age of m_lastkeepalivetime of Client
    onWay,      \* ages of the messages on their way to an end
    pc,         \* where the loop of doEpollEvent is
    ran         \* ends whose loop went round in this second

vars == <<open, frozen, lost, silent, checked, pinged, onWay, pc, ran>>

MaxSilence == Timeout + Interval + 2

Live == open \ frozen

\* The link has just been added.  The first ping of the client may be due at
\* any time; the server's worker answers the notice of the connection.
Init ==
    /\ open = End /\ frozen = {} /\ lost = FALSE
    /\ silent = [e \in End |-> 0]
    /\ checked \in [End -> 0 .. Interval]
    /\ pinged \in 0 .. Interval
    /\ onWay = [e \in End |-> IF e = Client THEN <<0>> ELSE <<>>]
    /\ pc = [e \in End |-> "batch"]
    /\ ran = {}

-----------------------------------------------------------------------------

At(e, place) == e \in Live /\ pc[e] = place
Goto(e, place) == pc' = [pc EXCEPT ![e] = place]

\* n messages are queued for the end e.
Queued(e, n) == onWay[e] \o [i \in 1 .. (IF e \in frozen THEN 0 ELSE n) |-> 0]

\* doRecvMessage reads what has arrived; the server's worker answers each ping
\* that finds room in the receive queue.
Recv(e) ==
    /\ At(e, "batch") /\ onWay[e] # <<>>
    /\ \E n \in 1 .. Len(onWay[e]) :
        \E answers \in (IF e = Svr THEN 0 .. n ELSE {0}) :
            /\ onWay' = [onWay EXCEPT ![e] = SubSeq(@, n + 1, Len(@)),
                                      ![Other(e)] = Queued(Other(e), answers)]
            /\ lost' = (lost \/ (e = Svr /\ answers < n))
    /\ silent' = [silent EXCEPT ![e] = 0]
    /\ UNCHANGED <<open, frozen, checked, pinged, pc, ran>>

EndBatch(e) ==
    /\ At(e, "batch")
    /\ Goto(e, "timeout")
    /\ UNCHANGED <<open, frozen, lost, silent, checked, pinged, onWay, ran>>

\* Mutant of TimedOut: silent for the timeout or longer.
TimedOutEarly(e) == silent[e] >= Timeout

\* refresh_time + m_keepalivetimeout < curtime
TimedOut(e) == silent[e] > Timeout

\* closeClient.
Close(e) == open' = open \ {e}

\* Mutant of DoKeepaliveTimeout: the time is noted before the early return.
DoKeepaliveTimeoutAnew(e) ==
    /\ At(e, "timeout")
    /\ IF checked[e] >= Interval /\ TimedOut(e) THEN Close(e) ELSE UNCHANGED open
    /\ checked' = [checked EXCEPT ![e] = 0]
    /\ Goto(e, "ping")
    /\ UNCHANGED <<frozen, lost, silent, pinged, onWay, ran>>

DoKeepaliveTimeout(e) ==
    /\ At(e, "timeout")
    /\ IF checked[e] >= Interval
       THEN /\ IF TimedOut(e) THEN Close(e) ELSE UNCHANGED open
            /\ checked' = [checked EXCEPT ![e] = 0]
       ELSE UNCHANGED <<open, checked>>
    /\ Goto(e, "ping")
    /\ UNCHANGED <<frozen, lost, silent, pinged, onWay, ran>>

\* doSendKeepaliveToServer: only the client has the key of a server.
DoSendKeepalive(e) ==
    /\ At(e, "ping")
    /\ IF e = Client /\ pinged >= Interval
       THEN pinged' = 0 /\ onWay' = [onWay EXCEPT ![Svr] = Queued(Svr, 1)]
       ELSE UNCHANGED <<pinged, onWay>>
    /\ ran' = ran \cup {e}
    /\ Goto(e, "batch")
    /\ UNCHANGED <<open, frozen, lost, silent, checked>>

\* recv() returns 0: the other end has closed the link.
PeerClosed(e) ==
    /\ At(e, "batch") /\ Other(e) \notin open
    /\ Close(e)
    /\ UNCHANGED <<frozen, lost, silent, checked, pinged, onWay, pc, ran>>

Freeze(e) ==
    /\ e \in Live
    /\ frozen' = frozen \cup {e}
    /\ onWay' = [onWay EXCEPT ![e] = <<>>]
    /\ UNCHANGED <<open, lost, silent, checked, pinged, pc, ran>>

Older(age, limit) == IF age < limit THEN age + 1 ELSE age

\* The next second begins.
Tick ==
    /\ Live # {} /\ Live \subseteq ran
    /\ \A e \in Live : \A i \in DOMAIN onWay[e] : onWay[e][i] < Delay
    /\ ran' = {}
    /\ silent' = [e \in End |-> Older(silent[e], MaxSilence)]
    /\ checked' = [e \in End |-> Older(checked[e], Interval)]
    /\ pinged' = Older(pinged, Interval)
    /\ onWay' = [e \in End |-> [i \in DOMAIN onWay[e] |-> Older(onWay[e][i], Delay)]]
    /\ UNCHANGED <<open, frozen, lost, pc>>

Next ==
    \/ \E e \in End :
        \/ Recv(e) \/ EndBatch(e) \/ DoKeepaliveTimeout(e) \/ DoSendKeepalive(e)
        \/ PeerClosed(e) \/ Freeze(e)
    \/ Tick

Spec == Init /\ [][Next]_vars

-----------------------------------------------------------------------------

TypeOK ==
    /\ open \subseteq End /\ frozen \subseteq End /\ lost \in BOOLEAN
    /\ silent \in [End -> 0 .. MaxSilence]
    /\ checked \in [End -> 0 .. Interval] /\ pinged \in 0 .. Interval
    /\ onWay \in [End -> Seq(0 .. Delay)]
    /\ pc \in [End -> {"batch", "timeout", "ping"}] /\ ran \subseteq End

\* A link whose ends both work is not closed, although both look for silent
\* connections only every half period, and the client hears of the server only
\* when the server answers its pings; one ping lost in a full queue is enough
\* to lose the link (doKeepaliveTimeout against doSendKeepaliveToServer).
LiveLinkKept == NetworkAssumption /\ frozen = {} /\ ~lost => open = End

\* An end that works does not keep a connection to a peer that is gone for
\* longer than the timeout and half of it, and the second in which its loop gets
\* there (doKeepaliveTimeout).
SilenceEnds == \A e \in Live : silent[e] <= Timeout + Interval + 1
=============================================================================
