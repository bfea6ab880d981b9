----------------------------- MODULE ServerLink -----------------------------
(***************************************************************************)
(* The life of connections: how descriptors, epoll, m_socketmap, the key   *)
(* of the server link and the two queues between the threads change when a *)
(* client is accepted, when the main thread connects to the server, when a *)
(* connection ends and when a worker asks for it to be closed.             *)
(*                                                                         *)
(* Three threads take part.  The main thread calls createServerConnect     *)
(* again and again; the epoll thread runs doEpollEvent; the worker takes   *)
(* messages from the receive queue and, when processMessage rejects one,   *)
(* queues CLOSE_CLIENT for the connection it came from.  The queues are    *)
(* SysQueue objects with a limit and a lock of their own.                  *)
(*                                                                         *)
(* A connection is a number, the value getIndex() gave it (connect_time);  *)
(* conns remembers its descriptor and its type.  There is one server type: *)
(* every type has a key of its own that is handled alike.                  *)
(*                                                                         *)
(* What close(fd) really closes is the socket the descriptor names at that *)
(* moment.  sock keeps the owner of every descriptor, so that a close that *)
(* hits a socket it was not meant for is recorded (misclosed).             *)
(***************************************************************************)
EXTENDS Integers, Sequences, FiniteSets

CONSTANTS
    Fds,            \* descriptors the kernel can hand out
    None,           \* no descriptor (-1), no message (NULL)
    MaxEvents,      \* m_maxSize of the event queue
    MaxRecv,        \* m_maxSize of the receive queue, sys_recv_queue_size
    MaxEpollSize,   \* m_maxepollsize, sys_epoll_max_size
    MaxConns        \* bound on the connections ever opened

ASSUME ConstantsAssumption ==
    /\ None \notin Fds
    /\ MaxEvents \in Nat \ {0}
    /\ MaxRecv \in Nat \ {0}
    /\ MaxEpollSize \in Nat \ {0}
    /\ MaxConns \in Nat

VARIABLES
    sock,       \* owner of an open descriptor: a connection, Main, or Free
    reg,        \* epoll: connection whose SOCKET_KEY is registered, or Free
    map,        \* m_socketmap: connection of a descriptor, or Free
    conns,      \* history of connections; m_index is its length
    key,        \* m_usercenterkey
    eventq,     \* m_eventlist
    recvtmp,    \* m_recvtmplst
    recvq,      \* m_recvlist
    told,       \* history: the kinds of message collected for a connection
    main,       \* the main thread inside createServerConnect
    hand,       \* the message the worker is processing
    pc,         \* where the loop of doEpollEvent is
    batch,      \* what is left of the events epoll_wait returned
    misclosed,  \* history: some close() hit a socket of someone else
    failed      \* history: connections addClientToEpoll refused

kernel == <<sock, reg>>
loop == <<pc, batch>>
queues == <<recvtmp, recvq, told>>
vars == <<kernel, map, conns, key, eventq, queues, main, hand, loop,
          misclosed, failed>>

Free == 0
Main == -1
Conn == 1 .. MaxConns
NoKey == [fd |-> None, conn |-> 0]
Idle == [pc |-> "idle", fd |-> None]

Type == {"client", "server"}
Kind == {"connected", "data", "disconnected"}
Message == [kind : Kind, conn : Conn]
ASSUME NoneAssumption == None \notin Message
NetEvent == [ev : {"add", "close"}, fd : Fds, conn : 0 .. MaxConns]

Index == Len(conns)
Entries == {f \in Fds : map[f] # Free}
AddQueued(f) == \E p \in 1 .. Len(eventq) : eventq[p].ev = "add" /\ eventq[p].fd = f

\* Connections the main thread has begun and the loop has not counted yet.
Underway ==
    Cardinality({m \in {main} : m.pc \in {"connect", "enqueue"}})
    + Cardinality({p \in 1 .. Len(eventq) : eventq[p].ev = "add"})

Init ==
    /\ sock = [f \in Fds |-> Free] /\ reg = [f \in Fds |-> Free]
    /\ map = [f \in Fds |-> Free] /\ conns = <<>>
    /\ key = NoKey /\ eventq = <<>>
    /\ recvtmp = <<>> /\ recvq = <<>> /\ told = <<>>
    /\ main = Idle /\ hand = None
    /\ pc = "wait" /\ batch = {}
    /\ misclosed = FALSE /\ failed = {}

-----------------------------------------------------------------------------
(* What the operations are made of.                                        *)

\* Mutant of CloseFd: the descriptor is neither closed nor unregistered.
CloseFdForgotten(f, owner) == UNCHANGED <<sock, reg, misclosed>>

\* close(f), meant for the socket of owner: the descriptor is free again and
\* the kernel forgets its registration.
CloseFd(f, owner) ==
    /\ sock' = [sock EXCEPT ![f] = Free]
    /\ reg' = [reg EXCEPT ![f] = Free]
    /\ misclosed' = (misclosed \/ sock[f] \notin {Free, owner})

\* m_recvtmplst.push_back
Collect(kind, c) ==
    /\ recvtmp' = Append(recvtmp, [kind |-> kind, conn |-> c])
    /\ told' = [told EXCEPT ![c] = Append(@, kind)]

\* Mutant of CloseClient: the key is reset for a connection of any type.
CloseClientAnyType(f, c) ==
    /\ CloseFd(f, c)
    /\ IF map[f] = Free
         THEN UNCHANGED <<map, key, recvtmp, told>>
         ELSE /\ key' = NoKey
              /\ Collect("disconnected", map[f])
              /\ map' = [map EXCEPT ![f] = Free]

\* Mutant of CloseClient: the key is not reset.
CloseClientKeepsKey(f, c) ==
    /\ CloseFd(f, c)
    /\ key' = key
    /\ IF map[f] = Free
         THEN UNCHANGED <<map, recvtmp, told>>
         ELSE /\ Collect("disconnected", map[f])
              /\ map' = [map EXCEPT ![f] = Free]

\* Mutant of CloseClient: the workers are not told.
CloseClientSilent(f, c) ==
    /\ CloseFd(f, c)
    /\ key' = IF map[f] # Free /\ conns[map[f]].type = "server"
                THEN NoKey ELSE key
    /\ map' = [map EXCEPT ![f] = Free]
    /\ UNCHANGED <<recvtmp, told>>

\* closeClient(f, c): c is only logged.  The entry of the descriptor, if any,
\* is reported to the workers and erased, and the key of a server is reset.
CloseClient(f, c) ==
    /\ CloseFd(f, c)
    /\ IF map[f] = Free
         THEN UNCHANGED <<map, key, recvtmp, told>>
         ELSE /\ key' = IF conns[map[f]].type = "server" THEN NoKey ELSE key
              /\ Collect("disconnected", map[f])
              /\ map' = [map EXCEPT ![f] = Free]

\* getIndex, createConnectServerMsg: the next connection, reported connected
\* before it is added.
NewConn(f, type) ==
    /\ conns' = Append(conns, [fd |-> f, type |-> type])
    /\ recvtmp' = Append(recvtmp, [kind |-> "connected", conn |-> Index + 1])
    /\ told' = Append(told, <<"connected">>)

\* addSocketToMap has room for one more, whether or not it replaces an entry.
MapHasRoom == Cardinality(Entries) < MaxEpollSize

\* epoll_ctl(EPOLL_CTL_ADD) wants an open descriptor it does not know.
CanRegister(f) == sock[f] # Free /\ reg[f] = Free

\* addClientToEpoll succeeds: registered and in the map.
AddToEpoll(f) ==
    /\ reg' = [reg EXCEPT ![f] = Index + 1]
    /\ map' = [map EXCEPT ![f] = Index + 1]
    /\ sock' = [sock EXCEPT ![f] = Index + 1]

-----------------------------------------------------------------------------
(* The main thread: createServerConnect.                                   *)

\* Mutant of KeyUnset: a key that waits for its connection counts as unset.
KeyUnsetConn == key.conn = 0

\* Under m_serverlock: nothing to do while the key names a descriptor.
KeyUnset == key.fd = None

CheckKey ==
    /\ main.pc = "idle"
    /\ KeyUnset
    /\ main' = [pc |-> "socket", fd |-> None]
    /\ UNCHANGED <<kernel, map, conns, key, eventq, queues, hand, loop,
                   misclosed, failed>>

\* doNonblockConnect: socket(), bind(), connect() in progress.
OpenSocket(f) ==
    /\ main.pc = "socket"
    /\ sock[f] = Free
    /\ Index + Underway < MaxConns
    /\ sock' = [sock EXCEPT ![f] = Main]
    /\ main' = [pc |-> "connect", fd |-> f]
    /\ UNCHANGED <<reg, map, conns, key, eventq, queues, hand, loop, misclosed,
                   failed>>

\* doNonblockConnect: socket() fails, for want of a descriptor or for any other
\* reason.
NoSocket ==
    /\ main.pc = "socket"
    /\ main' = Idle
    /\ UNCHANGED <<kernel, map, conns, key, eventq, queues, hand, loop,
                   misclosed, failed>>

\* doNonblockConnect: refused, or three seconds are over.
ConnectFails ==
    /\ main.pc = "connect"
    /\ CloseFd(main.fd, Main)
    /\ main' = Idle
    /\ UNCHANGED <<map, conns, key, eventq, queues, hand, loop, failed>>

\* doNonblockConnect returns the descriptor; the key is set with a
\* connect_time of time(NULL), which is no connection.
Connected ==
    /\ main.pc = "connect"
    /\ sock[main.fd] # Free
    /\ key' = [fd |-> main.fd, conn |-> 0]
    /\ main' = [main EXCEPT !.pc = "enqueue"]
    /\ UNCHANGED <<kernel, map, conns, eventq, queues, hand, loop, misclosed,
                   failed>>

\* Mutant of HasRoomForEvent: the limit is checked one event too late.
HasRoomForOneMore == Len(eventq) <= MaxEvents

\* SysQueue::inQueue on the event queue waits while the epoll thread drains it.
EventQueueFree == pc # "events"
HasRoomForEvent == Len(eventq) < MaxEvents

EnqueueAdd ==
    /\ main.pc = "enqueue"
    /\ EventQueueFree /\ HasRoomForEvent
    /\ eventq' = Append(eventq, [ev |-> "add", fd |-> main.fd, conn |-> 0])
    /\ main' = Idle
    /\ UNCHANGED <<kernel, map, conns, key, queues, hand, loop, misclosed,
                   failed>>

\* The queue is full: the socket is closed again.  setServerSocket(-1, 0, "",
\* 0, 1) names the client type, for which it resets nothing.
EnqueueFails ==
    /\ main.pc = "enqueue"
    /\ EventQueueFree /\ ~HasRoomForEvent
    /\ CloseFd(main.fd, Main)
    /\ main' = Idle
    /\ UNCHANGED <<map, conns, key, eventq, queues, hand, loop, failed>>

-----------------------------------------------------------------------------
(* The worker: CWorkBaseThread::run.                                       *)

TakeMessage ==
    /\ hand = None
    /\ recvq # <<>>
    /\ hand' = Head(recvq)
    /\ recvq' = Tail(recvq)
    /\ UNCHANGED <<kernel, map, conns, key, eventq, recvtmp, told,
                   main, loop, misclosed, failed>>

\* processMessage accepts the message.
MessageDone ==
    /\ hand # None
    /\ hand' = None
    /\ UNCHANGED <<kernel, map, conns, key, eventq, queues, main, loop,
                   misclosed, failed>>

\* processMessage can return a negative value: for data that is no ping.  The
\* applications take every notice of a client or a server.
MayReject(m) == m.kind = "data"

\* createCloseConnectEvent.  A full queue loses the event.
MessageRejected ==
    /\ hand # None /\ MayReject(hand)
    /\ EventQueueFree
    /\ eventq' = IF HasRoomForEvent
                   THEN Append(eventq, [ev |-> "close", conn |-> hand.conn,
                                        fd |-> conns[hand.conn].fd])
                   ELSE eventq
    /\ hand' = None
    /\ UNCHANGED <<kernel, map, conns, key, queues, main, loop, misclosed,
                   failed>>

-----------------------------------------------------------------------------
(* The epoll thread: doEpollEvent.                                         *)

Goto(from, to) == pc = from /\ pc' = to

\* epoll_wait: any registered descriptor can have input, an end or an error.
EpollWait ==
    /\ Goto("wait", "batch")
    /\ \E ready \in SUBSET {f \in Fds : reg[f] # Free} :
          batch' = {[fd |-> f, conn |-> reg[f]] : f \in ready}
    /\ UNCHANGED <<kernel, map, conns, key, eventq, queues, main, hand,
                   misclosed, failed>>

\* doAccept: one client, added to epoll and the map.
Accept(f) ==
    /\ pc = "batch"
    /\ sock[f] = Free
    /\ Index + Underway < MaxConns
    /\ MapHasRoom
    /\ NewConn(f, "client")
    /\ AddToEpoll(f)
    /\ UNCHANGED <<key, eventq, recvq, main, hand, loop,
                   misclosed, failed>>

\* Mutant of AcceptFails: the descriptor is not closed.
AcceptFailsLeaks(f) ==
    /\ pc = "batch"
    /\ sock[f] = Free
    /\ Index + Underway < MaxConns
    /\ ~MapHasRoom
    /\ NewConn(f, "client")
    /\ sock' = [sock EXCEPT ![f] = Index + 1]
    /\ failed' = failed \cup {Index + 1}
    /\ UNCHANGED <<reg, map, key, eventq, recvq, main, hand, loop, misclosed>>

\* doAccept: the map is full.  The client was reported connected already; its
\* descriptor is closed again.
AcceptFails(f) ==
    /\ pc = "batch"
    /\ sock[f] = Free
    /\ Index + Underway < MaxConns
    /\ ~MapHasRoom
    /\ NewConn(f, "client")
    /\ failed' = failed \cup {Index + 1}
    /\ UNCHANGED <<kernel, map, key, eventq, recvq, main, hand,
                   loop, misclosed>>

\* The SOCKET_KEY of the event is the one of the map.
FoundKey(e) == map[e.fd] = e.conn /\ e.conn # Free

\* The peer of a connection sends at most one message in the model.
MaySendData(c) ==
    \A p \in 1 .. Len(told[c]) : told[c][p] # "data"

\* doRecvMessage: a message was read and the socket would block.
RecvData(e) ==
    /\ pc = "batch" /\ e \in batch
    /\ FoundKey(e)
    /\ sock[e.fd] # Free
    /\ MaySendData(e.conn)
    /\ batch' = batch \ {e}
    /\ Collect("data", e.conn)
    /\ UNCHANGED <<kernel, map, conns, key, eventq, recvq, main,
                   hand, pc, misclosed, failed>>

\* doRecvMessage met the end of the stream, an error or a bad length, or did
\* not find the key; or epoll reports something else than input and output.
RecvEnds(e) ==
    /\ pc = "batch" /\ e \in batch
    /\ batch' = batch \ {e}
    /\ CloseClient(e.fd, e.conn)
    /\ UNCHANGED <<conns, eventq, recvq, main, hand, pc, failed>>

EndBatch ==
    /\ Goto("batch", "flush")
    /\ batch = {}
    /\ UNCHANGED <<kernel, map, conns, key, eventq, queues, main, hand, batch,
                   misclosed, failed>>

\* How many of the collected messages the receive queue still takes.
Takes == IF Len(recvtmp) <= MaxRecv - Len(recvq)
           THEN Len(recvtmp) ELSE MaxRecv - Len(recvq)

\* Mutant of FlushRecv: the list of collected messages is not cleared.
FlushRecvKeeps ==
    /\ pc = "flush"
    /\ pc' = IF eventq = <<>> THEN "keepalive" ELSE "events"
    /\ recvq' = recvq \o SubSeq(recvtmp, 1, Takes)
    /\ UNCHANGED <<kernel, map, conns, key, eventq, recvtmp, told, main, hand,
                   batch, misclosed, failed>>

\* The collected messages enter the receive queue under its lock; those that
\* do not fit are deleted.  doSystemEvent returns when it sees no event.
FlushRecv ==
    /\ pc = "flush"
    /\ pc' = IF eventq = <<>> THEN "keepalive" ELSE "events"
    /\ recvq' = recvq \o SubSeq(recvtmp, 1, Takes)
    /\ recvtmp' = <<>>
    /\ UNCHANGED <<kernel, map, conns, key, eventq, told, main, hand, batch,
                   misclosed, failed>>

NextEvent(ev) == pc = "events" /\ eventq # <<>> /\ Head(eventq).ev = ev

\* doSystemEvent, CLOSE_CLIENT.
SysClose ==
    /\ NextEvent("close")
    /\ eventq' = Tail(eventq)
    /\ CloseClient(Head(eventq).fd, Head(eventq).conn)
    /\ UNCHANGED <<conns, recvq, main, hand, loop, failed>>

\* doSystemEvent, ADD_CLIENT: the key gets the connect_time of the connection.
SysAdd ==
    /\ NextEvent("add")
    /\ LET f == Head(eventq).fd
       IN  /\ MapHasRoom /\ CanRegister(f)
           /\ NewConn(f, "server")
           /\ key' = [fd |-> f, conn |-> Index + 1]
           /\ AddToEpoll(f)
    /\ eventq' = Tail(eventq)
    /\ UNCHANGED <<recvq, main, hand, loop, misclosed, failed>>

\* doSystemEvent, ADD_CLIENT, when addClientToEpoll fails: the descriptor is
\* closed.  The key stays set and the connected message stays queued.
SysAddFails ==
    /\ NextEvent("add")
    /\ LET f == Head(eventq).fd
       IN  /\ ~(MapHasRoom /\ CanRegister(f))
           /\ NewConn(f, "server")
           /\ key' = [fd |-> f, conn |-> Index + 1]
           /\ CloseFd(f, Main)
    /\ failed' = failed \cup {Index + 1}
    /\ eventq' = Tail(eventq)
    /\ UNCHANGED <<map, recvq, main, hand, loop>>

EndEvents ==
    /\ Goto("events", "keepalive")
    /\ eventq = <<>>
    /\ UNCHANGED <<kernel, map, conns, key, eventq, queues, main, hand, batch,
                   misclosed, failed>>

\* doKeepaliveTimeout closes a connection that was silent for too long.
KeepaliveClose(f) ==
    /\ pc = "keepalive"
    /\ map[f] # Free
    /\ CloseClient(f, map[f])
    /\ UNCHANGED <<conns, eventq, recvq, main, hand, loop, failed>>

EndLoop ==
    /\ Goto("keepalive", "wait")
    /\ UNCHANGED <<kernel, map, conns, key, eventq, queues, main, hand, batch,
                   misclosed, failed>>

-----------------------------------------------------------------------------

MainThread ==
    \/ CheckKey \/ NoSocket \/ ConnectFails \/ Connected
    \/ EnqueueAdd \/ EnqueueFails
    \/ \E f \in Fds : OpenSocket(f)

Worker == TakeMessage \/ MessageDone \/ MessageRejected

\* What the loop does without the help of a client or a timeout.
EpollStep ==
    \/ EpollWait \/ EndBatch \/ FlushRecv
    \/ \E e \in batch : RecvData(e) \/ RecvEnds(e)
    \/ SysClose \/ SysAdd \/ SysAddFails \/ EndEvents \/ EndLoop

EpollThread ==
    \/ EpollStep
    \/ \E f \in Fds : Accept(f) \/ AcceptFails(f) \/ KeepaliveClose(f)

Next == MainThread \/ Worker \/ EpollThread

Spec == Init /\ [][Next]_vars

\* The epoll thread runs; the main thread calls createServerConnect every few
\* seconds; a host that can give a socket again and again gives one, and a
\* server that can be reached again and again is reached.
Fairness ==
    /\ WF_vars(EpollStep)
    /\ WF_vars(MainThread)
    /\ SF_vars(\E f \in Fds : OpenSocket(f))
    /\ SF_vars(Connected)

FairSpec == Spec /\ Fairness

-----------------------------------------------------------------------------

TypeOK ==
    /\ sock \in [Fds -> {Free, Main} \cup Conn]
    /\ reg \in [Fds -> {Free} \cup Conn]
    /\ map \in [Fds -> 0 .. Index]
    /\ conns \in Seq([fd : Fds, type : Type]) /\ Index <= MaxConns
    /\ key \in [fd : Fds \cup {None}, conn : 0 .. Index]
    /\ eventq \in Seq(NetEvent) /\ Len(eventq) <= MaxEvents
    /\ recvtmp \in Seq(Message)
    /\ recvq \in Seq(Message) /\ Len(recvq) <= MaxRecv
    /\ told \in Seq(Seq(Kind)) /\ Len(told) = Index
    /\ main \in [pc : {"idle", "socket", "connect", "enqueue"},
                 fd : Fds \cup {None}]
    /\ hand \in Message \cup {None}
    /\ pc \in {"wait", "batch", "flush", "events", "keepalive"}
    /\ batch \in SUBSET [fd : Fds, conn : Conn]
    /\ misclosed \in BOOLEAN
    /\ failed \in SUBSET Conn

ServerEntries == {f \in Entries : conns[map[f]].type = "server"}

\* At most one connection to the server is in the map: createServerConnect
\* tests the key, connects without a lock and sets the key only later, while
\* the epoll thread resets it for every server connection that ends.
OneServerLink == Cardinality(ServerEntries) <= 1

\* A server connection in the map is the one the key names, so that
\* sendMsgToServer uses it and createServerConnect leaves it alone.
LinkHasKey == \A f \in ServerEntries : key = [fd |-> f, conn |-> map[f]]

\* A SOCKET_KEY that epoll can hand to the loop is the one in the map: the
\* loop never follows a pointer to a key that was deleted.
KeysAlive ==
    /\ \A f \in Fds : reg[f] # Free => map[f] = reg[f]
    /\ misclosed \/ \A e \in batch : map[e.fd] = e.conn

\* Every open descriptor is in the map, in an ADD_CLIENT event or in the hands
\* of the main thread: none is leaked on the way of a connection, whatever
\* fails.
NoLeak ==
    \A f \in Fds : sock[f] # Free =>
        \/ misclosed
        \/ map[f] = sock[f] /\ reg[f] = sock[f]
        \/ sock[f] = Main /\ (main.fd = f \/ AddQueued(f))

\* The messages on their way to the worker, the oldest first.
OnTheWay == (IF hand = None THEN <<>> ELSE <<hand>>) \o recvq \o recvtmp

\* "a" may come before "b" in what a worker hears of one connection.
InOrder(a, b) == a # "disconnected" /\ b # "connected"

\* Of what reaches a worker of a connection "connected" comes first and
\* "disconnected" last, and each of the two once; the queues keep that order.
\* FlushRecv drops what the receive queue has no room for, these two included: a
\* worker may hear of data first, or of no end.
SessionOrder ==
    /\ \A c \in 1 .. Index : \A p, q \in 1 .. Len(told[c]) :
          p < q => InOrder(told[c][p], told[c][q])
    /\ \A p, q \in 1 .. Len(OnTheWay) :
          (p < q /\ OnTheWay[p].conn = OnTheWay[q].conn) =>
              InOrder(OnTheWay[p].kind, OnTheWay[q].kind)

\* For every connection that left the map a "disconnected" was put behind what the
\* loop collects for the workers, unless it was never added.  This is no promise
\* that a worker hears it: FlushRecv may drop it.
EndIsTold ==
    \A c \in 1 .. Index :
        \/ map[conns[c].fd] = c
        \/ \E p \in 1 .. Len(told[c]) : told[c][p] = "disconnected"
        \/ misclosed \/ c \in failed

\* closeClient(fd, conntime), asked to close one connection, does not close the
\* socket of another one that got the same descriptor.
ClosesOnlyItsOwn == ~misclosed

\* The call after a failed inQueue takes the key back: a key that names a
\* descriptor without a connection has its ADD_CLIENT under way.
KeyTakenBack ==
    key.fd # None /\ key.conn = 0 =>
        main.pc = "enqueue" \/ AddQueued(key.fd)

LinkUp == key.conn # 0 /\ map[key.fd] = key.conn
Exhausted == Index = MaxConns

\* Whenever the link is not up, it comes up: a key that was reset or a link
\* that was lost makes createServerConnect connect again.  What may keep it
\* down is a close that hit a foreign socket, a connection addClientToEpoll
\* refused, a key that was not taken back, descriptors that all are in use,
\* and the bound on connections.
LinkComesBack ==
    ~LinkUp ~> (LinkUp \/ misclosed \/ failed # {} \/ ~KeyTakenBack
                \/ Exhausted \/ \A f \in Fds : sock[f] # Free)
=============================================================================
