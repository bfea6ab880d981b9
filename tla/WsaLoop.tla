------------------------------- MODULE WsaLoop -------------------------------
(***************************************************************************)
(* p2ptrans on Windows: CWSAThread, the twin of the epoll thread that goes *)
(* over m_socketmap itself, the main thread, which keeps the link to       *)
(* usercentersvr up, and the worker.                                       *)
(*                                                                         *)
(* What sets the loop apart from CEpollThread: m_listenfd never enters     *)
(* m_socketmap, so that nothing is accepted; doSendMessage is called       *)
(* without a key and writes nothing; doKeepaliveTimeout is commented out;  *)
(* recv_msg looks at errno, which Winsock does not set, so that having     *)
(* read everything is an error like any other; closeClient takes the entry *)
(* out of the map whose iterator the loop goes on with.                    *)
(*                                                                         *)
(* A connection is numbered when it is made.  Which messages a list of the *)
(* send maps holds makes no difference here, only whether it has any.      *)
(***************************************************************************)
EXTENDS Naturals, Sequences

CONSTANTS
    Fds,        \* the numbers Winsock gives to sockets
    None,
    MaxConns,   \* bound on the connections that are made
    MaxEvents,  \* m_maxqueue of the event queue
    MaxRecv,    \* m_maxqueue of the receive queue
    MaxUnread   \* bound: the server sends no more when so many wait

Conn == 1 .. MaxConns

\* None is no socket and no connection, and the event queue has room for one.
ConstantsAssumption ==
    /\ None \notin Fds /\ None \notin Conn
    /\ MaxConns \in Nat /\ MaxEvents \in Nat \ {0} /\ MaxRecv \in Nat

VARIABLES
    conns,      \* connections made so far
    sock,       \* the connection of every socket, or None
    peer,       \* what the server did: "up", "ended" or "reset"
    waiting,    \* sockets with a message that was not read yet
    map,        \* the connection m_socketmap has for a socket, or None
    key,        \* fddat of m_usercenterkey, or None
    eventq,     \* the sockets of the ADD_CLIENT events
    main,       \* the main thread: [at, fd]
    cur, bak,   \* the descriptors with a list in the send maps
    recvtmp, recvq,  \* messages for the worker: [conn, kind]
    told,       \* history: the last kind the worker heard of a connection
    pc, todo,   \* where doWSAEvent is, and the sockets it has not come to
    dropped     \* history: connections a message of which was read and lost

kernel == <<conns, sock, peer, waiting>>
sendmaps == <<cur, bak>>
queues == <<recvtmp, recvq, told>>
vars == <<kernel, map, key, eventq, main, sendmaps, queues, pc, todo, dropped>>

Message(c, kind) == [conn |-> c, kind |-> kind]
Mapped == {f \in Fds : map[f] # None}

Init ==
    /\ conns = 0
    /\ sock = [f \in Fds |-> None] /\ peer = [f \in Fds |-> "up"] /\ waiting = {}
    /\ map = [f \in Fds |-> None]
    /\ key = None /\ eventq = <<>> /\ main = [at |-> "sleep", fd |-> None]
    /\ cur = {} /\ bak = {}
    /\ recvtmp = <<>> /\ recvq = <<>> /\ told = [c \in Conn |-> "nothing"]
    /\ pc = "sockets" /\ todo = {} /\ dropped = {}

-----------------------------------------------------------------------------
(* The server and the network.                                             *)

Arrive(f) ==
    /\ sock[f] # None /\ peer[f] = "up" /\ f \notin waiting
    /\ Len(recvtmp) + Len(recvq) < MaxUnread
    /\ waiting' = waiting \cup {f}
    /\ UNCHANGED <<conns, sock, peer, map, key, eventq, main, sendmaps, queues,
                   pc, todo, dropped>>

\* The server closes the connection, or it is reset with what was not read.
PeerLeaves(f) ==
    /\ sock[f] # None /\ peer[f] = "up"
    /\ \/ peer' = [peer EXCEPT ![f] = "ended"] /\ UNCHANGED waiting
       \/ peer' = [peer EXCEPT ![f] = "reset"] /\ waiting' = waiting \ {f}
    /\ UNCHANGED <<conns, sock, map, key, eventq, main, sendmaps, queues, pc,
                   todo, dropped>>

-----------------------------------------------------------------------------
(* The loop: doRecvMessage for every entry of the map.                     *)

Visits(f) == pc = "sockets" /\ f \in todo

CloseSocket(f) ==
    /\ sock' = [sock EXCEPT ![f] = None]
    /\ peer' = [peer EXCEPT ![f] = "up"]
    /\ waiting' = waiting \ {f}
    /\ UNCHANGED conns

\* closeClient of a socket in the map, before telling the worker of it the
\* messages of the last buffer.
CloseClient(f, before) ==
    /\ CloseSocket(f)
    /\ map' = [map EXCEPT ![f] = None]
    /\ key' = None
    /\ recvtmp' = recvtmp \o before \o <<Message(map[f], "disconnected")>>
    /\ UNCHANGED <<recvq, told>>

\* The iterator of the loop was erased: undefined, the loop goes on or ends.
EraseUnderLoop(f) ==
    /\ todo' = todo \ {f}
    /\ pc' \in {"sockets", "dead"}
    /\ UNCHANGED <<eventq, main, sendmaps, dropped>>

\* recv_msg returns 2, a full buffer: it is parsed, and the next one is read.
RecvFull(f) ==
    /\ Visits(f) /\ f \in waiting
    /\ recvtmp' = Append(recvtmp, Message(map[f], "data"))
    /\ waiting' = waiting \ {f}
    /\ UNCHANGED <<conns, sock, peer, map, key, eventq, main, sendmaps, recvq,
                   told, pc, todo, dropped>>

\* The parser refuses a length.
RecvBad(f) ==
    /\ Visits(f) /\ f \in waiting
    /\ CloseClient(f, <<>>)
    /\ EraseUnderLoop(f)

\* Mutant of RecvEnds: the end is taken for one more error.
RecvEndsIgnored(f) ==
    /\ Visits(f) /\ peer[f] = "ended"
    /\ todo' = todo \ {f}
    /\ UNCHANGED <<kernel, map, key, eventq, main, sendmaps, queues, pc, dropped>>

\* recv_msg returns 0: what came before the end is parsed.
RecvEnds(f) ==
    /\ Visits(f) /\ peer[f] = "ended"
    /\ CloseClient(f, IF f \in waiting THEN <<Message(map[f], "data")>> ELSE <<>>)
    /\ EraseUnderLoop(f)

\* recv_msg returns -1: everything is read, or the connection is reset.  What
\* it has read is not parsed, and the connection is not closed.
RecvError(f) ==
    /\ Visits(f) /\ peer[f] # "ended"
    /\ waiting' = waiting \ {f}
    /\ dropped' = IF f \in waiting THEN dropped \cup {map[f]} ELSE dropped
    /\ todo' = todo \ {f}
    /\ UNCHANGED <<conns, sock, peer, map, key, eventq, main, sendmaps, queues, pc>>

\* Mutant of Entered: the messages enter at the head of the queue.
EnteredAtHead(n) == SubSeq(recvtmp, 1, n) \o recvq

\* The receive queue with the first n of the messages collected.
Entered(n) == recvq \o SubSeq(recvtmp, 1, n)

\* All sockets were visited: what the receive queue has no room for is deleted.
FlushRecv ==
    /\ pc = "sockets" /\ todo = {}
    /\ LET room == MaxRecv - Len(recvq)
       IN  recvq' = Entered(IF Len(recvtmp) < room THEN Len(recvtmp) ELSE room)
    /\ recvtmp' = <<>>
    /\ pc' = "events"
    /\ UNCHANGED <<kernel, map, key, eventq, main, sendmaps, told, todo, dropped>>

-----------------------------------------------------------------------------
(* The loop: doSystemEvent, switchSendMap, pings.                          *)

\* The queue is looked at without the lock, and drained with it.
LookAtEvents ==
    /\ pc = "events"
    /\ pc' = IF eventq = <<>> THEN "switch" ELSE "drain"
    /\ UNCHANGED <<kernel, map, key, eventq, main, sendmaps, queues, todo, dropped>>

\* ADD_CLIENT; an older entry for the descriptor is replaced.
AddClient ==
    /\ pc = "drain" /\ eventq # <<>>
    /\ LET f == Head(eventq)
       IN  /\ map' = [map EXCEPT ![f] = sock[f]]
           /\ key' = f
           /\ recvtmp' = Append(recvtmp, Message(sock[f], "connected"))
    /\ eventq' = Tail(eventq)
    /\ UNCHANGED <<kernel, main, sendmaps, recvq, told, pc, todo, dropped>>

EndEvents ==
    /\ pc = "drain" /\ eventq = <<>>
    /\ pc' = "switch"
    /\ UNCHANGED <<kernel, map, key, eventq, main, sendmaps, queues, todo, dropped>>

\* Lists that nobody writes grow on in the backup map.
SwitchSendMap ==
    /\ pc = "switch"
    /\ bak' = bak \cup cur /\ cur' = {}
    /\ pc' = "delete"
    /\ UNCHANGED <<kernel, map, key, eventq, main, queues, todo, dropped>>

\* The lists of descriptors that are not in the map are deleted; before that
\* the log reads through m_socketmap.end(), which may end the process.
DeleteUnknown ==
    /\ pc = "delete"
    /\ \/ bak' = bak \cap Mapped /\ pc' = "ping"
       \/ bak \ Mapped # {} /\ pc' = "dead" /\ UNCHANGED bak
    /\ UNCHANGED <<kernel, map, key, eventq, main, cur, queues, todo, dropped>>

\* doSendKeepaliveToServer, when its time has come and when not; round again.
SendKeepalive ==
    /\ pc = "ping"
    /\ \/ UNCHANGED cur
       \/ key # None /\ cur' = cur \cup {key}
    /\ pc' = "sockets" /\ todo' = Mapped
    /\ UNCHANGED <<kernel, map, key, eventq, main, bak, queues, dropped>>

LoopStep ==
    \/ \E f \in Fds : RecvFull(f) \/ RecvBad(f) \/ RecvEnds(f) \/ RecvError(f)
    \/ FlushRecv \/ LookAtEvents \/ AddClient \/ EndEvents
    \/ SwitchSendMap \/ DeleteUnknown \/ SendKeepalive

-----------------------------------------------------------------------------
(* The main thread: createServerConnect every five seconds.                *)

Alive == pc # "dead"
MainAt(place) == Alive /\ main.at = place
MainGoes(place, f) == main' = [at |-> place, fd |-> f]

\* Mutant of KeyUnset: a key that waits for its connection counts as unset.
KeyUnsetConn == Mapped = {}

KeyUnset == key = None

CheckKey ==
    /\ MainAt("sleep") /\ KeyUnset
    /\ MainGoes("connect", None)
    /\ UNCHANGED <<kernel, map, key, eventq, sendmaps, queues, pc, todo, dropped>>

ConnectFails ==
    /\ MainAt("connect")
    /\ MainGoes("sleep", None)
    /\ UNCHANGED <<kernel, map, key, eventq, sendmaps, queues, pc, todo, dropped>>

\* doNonblockConnect has a socket, and the key is set to it.
Connected ==
    /\ MainAt("connect") /\ conns < MaxConns
    /\ \E f \in Fds :
        /\ sock[f] = None
        /\ sock' = [sock EXCEPT ![f] = conns + 1]
        /\ key' = f
        /\ MainGoes("queue", f)
    /\ conns' = conns + 1
    /\ UNCHANGED <<peer, waiting, map, eventq, sendmaps, queues, pc, todo, dropped>>

\* inQueue takes the lock the loop holds while it drains the queue.  With a
\* full queue the socket is closed, and the key stays: the type is wrong.
Enqueue ==
    /\ MainAt("queue") /\ pc # "drain"
    /\ IF Len(eventq) < MaxEvents
       THEN eventq' = Append(eventq, main.fd) /\ UNCHANGED kernel
       ELSE CloseSocket(main.fd) /\ UNCHANGED eventq
    /\ MainGoes("sleep", None)
    /\ UNCHANGED <<map, key, sendmaps, queues, pc, todo, dropped>>

MainStep == CheckKey \/ ConnectFails \/ Connected \/ Enqueue

\* The worker takes a message; its processMessage rejects none and sends none.
Take ==
    /\ Alive /\ recvq # <<>>
    /\ told' = [told EXCEPT ![Head(recvq).conn] = Head(recvq).kind]
    /\ recvq' = Tail(recvq)
    /\ UNCHANGED <<kernel, map, key, eventq, main, sendmaps, recvtmp, pc, todo, dropped>>

Next ==
    \/ LoopStep \/ MainStep \/ Take
    \/ \E f \in Fds : Arrive(f) \/ PeerLeaves(f)

Spec == Init /\ [][Next]_vars

-----------------------------------------------------------------------------

OrNone(S) == S \cup {None}
Messages == Seq([conn : Conn, kind : {"connected", "data", "disconnected"}])

TypeOK ==
    /\ conns \in 0 .. MaxConns
    /\ sock \in [Fds -> OrNone(Conn)] /\ map \in [Fds -> OrNone(Conn)]
    /\ peer \in [Fds -> {"up", "ended", "reset"}] /\ waiting \subseteq Fds
    /\ key \in OrNone(Fds) /\ eventq \in Seq(Fds)
    /\ main \in [at : {"sleep", "connect", "queue"}, fd : OrNone(Fds)]
    /\ cur \subseteq Fds /\ bak \subseteq Fds
    /\ recvtmp \in Messages /\ recvq \in Messages
    /\ told \in [Conn -> {"nothing", "connected", "data", "disconnected"}]
    /\ pc \in {"sockets", "events", "drain", "switch", "delete", "ping", "dead"}
    /\ todo \subseteq Fds /\ dropped \subseteq Conn

\* Wherever a link can be on its way: with the main thread, in the event queue
\* or in m_socketmap.
Underway ==
    {<<"main", main.fd>> : p \in {main.at} \cap {"queue"}}
      \cup {<<"event", i>> : i \in DOMAIN eventq}
      \cup {<<"map", f>> : f \in Mapped}

\* There is one link at a time, with the main thread, in the event queue or in
\* m_socketmap, and the key names it or is unset: the two threads never make a
\* second one, no socket is lost on the way, and inQueue never finds the queue
\* full, so that the key that cannot be taken back (the type in
\* createServerConnect) does no harm in this program.
OneLinkUnderway ==
    /\ \A f \in Fds :
        \/ key = f /\ sock[f] # None
              /\ Underway \in {{<<"main", f>>}, {<<"event", 1>>}, {<<"map", f>>}}
              /\ \A i \in DOMAIN eventq : eventq[i] = f
              /\ map[f] \in {None, sock[f]}
        \/ key # f /\ sock[f] = None
    /\ key = None => Underway = {}
    /\ Len(eventq) <= 1

\* The messages on their way to the worker, the oldest first.
OnTheWay == recvq \o recvtmp

\* "a" may come before "b" in what the worker hears of one connection.
InOrder(a, b) == a # "disconnected" /\ b # "connected"

\* Of what reaches the worker of a connection "connected" comes first and
\* "disconnected" last (the flush of the loop against createConnectServerMsg and
\* createClientCloseMsg).  What the receive queue has no room for is dropped, these
\* two included, and then the worker may hear of data first.
StoryInOrder ==
    \A i \in DOMAIN OnTheWay :
        LET m == OnTheWay[i]
        IN  /\ told[m.conn] = "nothing" \/ InOrder(told[m.conn], m.kind)
            /\ \A j \in 1 .. i - 1 :
                  OnTheWay[j].conn = m.conn => InOrder(OnTheWay[j].kind, m.kind)

\* A link that the server has closed comes back, unless the process ended; a
\* link that was reset does not, for no error of recv_msg closes it.
LinkComesBack ==
    \A c \in Conn :
        (\E f \in Fds : map[f] = c /\ peer[f] = "ended")
            ~> pc = "dead" \/ c = MaxConns \/ \E f \in Mapped : map[f] > c

\* What was read from a socket is parsed before doRecvMessage waits for more:
\* "break;  // EAGAIN" is meant to end the reading after the last buffer.
NothingDropped == dropped = {}
=============================================================================
