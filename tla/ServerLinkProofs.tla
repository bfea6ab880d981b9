-------------------------- MODULE ServerLinkProofs --------------------------
(***************************************************************************)
(* Proofs about connections and the key of the server link, about sockets  *)
(* that are never lost and about what a worker hears of a connection, for  *)
(* any descriptors, any limits of the queues and of the map, and any       *)
(* number of connections.                                                  *)
(***************************************************************************)
EXTENDS ServerLink, TLAPS, SequenceTheorems, FiniteSetTheorems

USE ConstantsAssumption, NoneAssumption DEF ConstantsAssumption, Free, Main, Conn

-----------------------------------------------------------------------------
(* The parts of the type invariant.                                        *)

KernelOK ==
    /\ sock \in [Fds -> {Free, Main} \cup Conn]
    /\ reg \in [Fds -> {Free} \cup Conn]
    /\ misclosed \in BOOLEAN

ConnsOK ==
    /\ conns \in Seq([fd : Fds, type : Type]) /\ Index \in 0 .. MaxConns
    /\ map \in [Fds -> 0 .. Index]
    /\ told \in Seq(Seq(Kind)) /\ Len(told) = Index
    /\ failed \in SUBSET Conn

KeyOK == key \in [fd : Fds \cup {None}, conn : 0 .. Index]

EventsOK == eventq \in Seq(NetEvent) /\ Len(eventq) <= MaxEvents

\* The messages on their way to the worker.
WayOK ==
    /\ recvtmp \in Seq(Message)
    /\ recvq \in Seq(Message) /\ Len(recvq) <= MaxRecv
    /\ hand \in Message \cup {None}

\* They are about connections there have been.
WayKnown ==
    /\ \A p \in 1 .. Len(recvtmp) : recvtmp[p].conn <= Index
    /\ \A p \in 1 .. Len(recvq) : recvq[p].conn <= Index
    /\ hand # None => hand.conn <= Index

\* The main thread has a descriptor while it connects and hands it over.
MainOK ==
    /\ main \in [pc : {"idle", "socket", "connect", "enqueue"},
                 fd : Fds \cup {None}]
    /\ main.pc \in {"idle", "socket"} <=> main.fd = None

\* The events of a batch; there are none elsewhere.
LoopOK ==
    /\ pc \in {"wait", "batch", "flush", "events", "keepalive"}
    /\ batch \in SUBSET [fd : Fds, conn : Conn]
    /\ pc # "batch" => batch = {}

-----------------------------------------------------------------------------
(* Where the link to the server is.                                        *)

Adds == {p \in 1 .. Len(eventq) : eventq[p].ev = "add"}

\* There is no link: only then the main thread makes one.
Unset == key = NoKey /\ main.pc # "enqueue" /\ Adds = {} /\ ServerEntries = {}

\* The main thread has set the key and not queued ADD_CLIENT yet.
Announced ==
    /\ main.pc = "enqueue" /\ key = [fd |-> main.fd, conn |-> 0]
    /\ Adds = {} /\ ServerEntries = {}

\* One ADD_CLIENT is queued, for f.
OneAdd(f) == \E p \in Adds : Adds = {p} /\ eventq[p].fd = f

Queued ==
    /\ main.pc = "idle" /\ ServerEntries = {}
    /\ \E f \in Fds : OneAdd(f) /\ key = [fd |-> f, conn |-> 0]

\* The key names a connection that could not be added or queued.
Stranded ==
    main.pc = "idle" /\ key.fd # None /\ Adds = {} /\ ServerEntries = {}

\* The link is in the map, and its descriptor has not been closed.
Up(f) ==
    /\ main.pc = "idle" /\ Adds = {}
    /\ ServerEntries = {f} /\ sock[f] = map[f]
    /\ key = [fd |-> f, conn |-> map[f]]

LinkInv == Unset \/ Announced \/ Queued \/ Stranded \/ \E f \in Fds : Up(f)

\* A connection that is begun has a number left.
RoomInv == main.pc \in {"connect", "enqueue"} \/ Adds # {} => Index < MaxConns

\* The map knows a connection under its own descriptor, and epoll only those
\* the map knows.
MapInv ==
    /\ \A f \in Entries : conns[map[f]].fd = f
    /\ \A f \in Fds : reg[f] # Free => map[f] = reg[f]

Types == KernelOK /\ ConnsOK /\ KeyOK /\ EventsOK /\ WayOK /\ MainOK /\ LoopOK

LinkIInv == Types /\ WayKnown /\ LinkInv /\ RoomInv /\ MapInv

LEMMA InitLink == Init => LinkIInv
<1>. SUFFICES ASSUME Init PROVE LinkIInv
  OBVIOUS
<1>. USE DEF Init, Idle, NoKey
<1>1. KernelOK
  BY DEF KernelOK
<1>2. KeyOK /\ EventsOK
  BY DEF KeyOK, EventsOK, Index
<1>3. WayOK
  BY DEF WayOK
<1>4. LoopOK
  BY DEF LoopOK
<1>5. ConnsOK
  BY DEF ConnsOK, Index
<1>6. MainOK
  BY DEF MainOK
<1>7. Adds = {} /\ Entries = {} /\ ServerEntries = {}
  BY DEF Adds, Entries, ServerEntries
<1>8. WayKnown /\ Unset /\ RoomInv /\ MapInv
  BY <1>7 DEF WayKnown, Unset, RoomInv, MapInv
<1>. QED
  BY <1>1, <1>2, <1>3, <1>4, <1>5, <1>6, <1>8 DEF LinkIInv, Types, LinkInv

-----------------------------------------------------------------------------
(* The event queue and what is under way in it.                            *)

\* Connections under way are counted.
LEMMA UnderwayCounts ==
    ASSUME EventsOK, MainOK
    PROVE  /\ Underway \in Nat
           /\ main.pc \in {"connect", "enqueue"} \/ Adds # {} => Underway > 0
<1>. DEFINE M == {m \in {main} : m.pc \in {"connect", "enqueue"}}
<1>1. IsFiniteSet(M)
  BY FS_Singleton, FS_Subset
<1>2. IsFiniteSet(Adds)
  <2>1. Len(eventq) \in Nat
    BY DEF EventsOK
  <2>2. IsFiniteSet(1 .. Len(eventq))
    BY <2>1, FS_Interval
  <2>. QED  BY <2>2, FS_Subset DEF Adds
<1>3. Cardinality(M) \in Nat /\ Cardinality(Adds) \in Nat
  BY <1>1, <1>2, FS_CardinalityType
<1>4. main.pc \in {"connect", "enqueue"} => M # {}
  OBVIOUS
<1>5. M # {} => Cardinality(M) # 0
  BY <1>1, FS_EmptySet
<1>6. Adds # {} => Cardinality(Adds) # 0
  BY <1>2, FS_EmptySet
<1>7. Underway = Cardinality(M) + Cardinality(Adds)
  BY DEF Underway, Adds
<1>. HIDE DEF M
<1>. QED  BY <1>3, <1>4, <1>5, <1>6, <1>7

\* An event is added at the end.
LEMMA EventAdded ==
    ASSUME EventsOK, HasRoomForEvent, NEW e \in NetEvent, eventq' = Append(eventq, e)
    PROVE  /\ EventsOK'
           /\ e.ev = "close" =>
                 Adds' = Adds /\ \A f \in Fds : OneAdd(f) => OneAdd(f)'
           /\ e.ev = "add" /\ Adds = {} => OneAdd(e.fd)'
<1>1. /\ eventq' \in Seq(NetEvent) /\ Len(eventq') = Len(eventq) + 1
      /\ eventq'[Len(eventq) + 1] = e
      /\ \A p \in 1 .. Len(eventq) : eventq'[p] = eventq[p]
  BY AppendProperties DEF EventsOK
<1>2. Len(eventq) \in Nat
  BY DEF EventsOK
<1>3. EventsOK'
  BY <1>1, <1>2 DEF EventsOK, HasRoomForEvent
<1>4. ASSUME e.ev = "close" PROVE Adds' = Adds
  BY <1>1, <1>2, <1>4 DEF Adds
<1>5. ASSUME e.ev = "close", NEW f \in Fds, OneAdd(f) PROVE OneAdd(f)'
  BY <1>1, <1>4, <1>5 DEF OneAdd, Adds
<1>6. ASSUME e.ev = "add", Adds = {} PROVE OneAdd(e.fd)'
  <2>1. Adds' = {Len(eventq) + 1}
    BY <1>1, <1>2, <1>6 DEF Adds
  <2>. QED  BY <1>1, <2>1 DEF OneAdd
<1>. QED  BY <1>3, <1>4, <1>5, <1>6

\* The loop takes an event.
LEMMA EventTaken ==
    ASSUME EventsOK, eventq # <<>>, eventq' = Tail(eventq)
    PROVE  /\ EventsOK' /\ Head(eventq) \in NetEvent
           /\ Adds' = {p \in Nat \ {0} : p + 1 \in Adds}
           /\ Head(eventq).ev = "close" => \A f \in Fds : OneAdd(f) => OneAdd(f)'
           /\ Head(eventq).ev = "add" =>
                 \A f \in Fds : OneAdd(f) => f = Head(eventq).fd /\ Adds' = {}
           /\ Head(eventq).ev = "add" => Adds # {}
<1>1. /\ Head(eventq) \in NetEvent /\ eventq' \in Seq(NetEvent)
      /\ Len(eventq') = Len(eventq) - 1
      /\ \A p \in 1 .. Len(eventq') : eventq'[p] = eventq[p + 1]
  BY HeadTailProperties DEF EventsOK
<1>2. Len(eventq) \in Nat \ {0}
  BY EmptySeq DEF EventsOK
<1>3. Head(eventq) = eventq[1]
  OBVIOUS
<1>4. Adds' = {p \in Nat \ {0} : p + 1 \in Adds}
  BY <1>1, <1>2 DEF Adds
<1>5. Head(eventq).ev = "add" <=> 1 \in Adds
  BY <1>2, <1>3 DEF Adds
<1>6. ASSUME Head(eventq).ev = "close", NEW f \in Fds, OneAdd(f) PROVE OneAdd(f)'
  <2>1. PICK p \in Adds : Adds = {p} /\ eventq[p].fd = f
    BY <1>6 DEF OneAdd
  <2>2. p - 1 \in Nat \ {0} /\ p \in 1 .. Len(eventq)
    BY <1>5, <1>6, <2>1 DEF Adds
  <2>3. Adds' = {p - 1}
    BY <1>4, <2>1, <2>2
  <2>4. eventq'[p - 1] = eventq[p]
    BY <1>1, <1>2, <2>2
  <2>. QED  BY <2>1, <2>3, <2>4 DEF OneAdd
<1>7. ASSUME Head(eventq).ev = "add", NEW f \in Fds, OneAdd(f)
      PROVE  f = Head(eventq).fd /\ Adds' = {}
  BY <1>3, <1>4, <1>5, <1>7 DEF OneAdd
<1>. QED  BY <1>1, <1>2, <1>4, <1>5, <1>6, <1>7 DEF EventsOK

-----------------------------------------------------------------------------
(* What the operations do to connections, map and key.                     *)

\* A descriptor is closed.
LEMMA CloseFdType ==
    ASSUME KernelOK, NEW f \in Fds, NEW owner, CloseFd(f, owner)
    PROVE  /\ KernelOK'
           /\ sock'[f] = Free /\ reg'[f] = Free
           /\ \A g \in Fds \ {f} : sock'[g] = sock[g] /\ reg'[g] = reg[g]
  BY DEF KernelOK, CloseFd

\* A message is collected for a connection.
LEMMA CollectType ==
    ASSUME ConnsOK, WayOK, WayKnown, NEW kind \in Kind, NEW c \in 1 .. Index,
           Collect(kind, c), UNCHANGED <<conns, recvq, hand>>
    PROVE  /\ WayOK' /\ WayKnown'
           /\ told' \in Seq(Seq(Kind)) /\ Len(told') = Index
           /\ \A d \in 1 .. Index : told'[d] = IF d = c THEN Append(told[d], kind)
                                                      ELSE told[d]
<1>. DEFINE m == [kind |-> kind, conn |-> c]
<1>1. m \in Message /\ Index' = Index /\ Index \in Nat
  BY DEF ConnsOK, Message, Index
<1>2. /\ recvtmp' \in Seq(Message) /\ Len(recvtmp') = Len(recvtmp) + 1
      /\ recvtmp'[Len(recvtmp) + 1] = m
      /\ \A p \in 1 .. Len(recvtmp) : recvtmp'[p] = recvtmp[p]
  BY <1>1, AppendProperties DEF Collect, WayOK
<1>3. Len(recvtmp) \in Nat
  BY DEF WayOK
<1>4. WayOK'
  BY <1>2 DEF WayOK
<1>5. WayKnown'
  BY <1>1, <1>2, <1>3 DEF WayKnown
<1>6. Append(told[c], kind) \in Seq(Kind)
  <2>1. told[c] \in Seq(Kind)
    BY ElementOfSeq DEF ConnsOK
  <2>. QED  BY <2>1, AppendProperties
<1>7. /\ told' \in Seq(Seq(Kind)) /\ Len(told') = Len(told)
      /\ \A d \in 1 .. Len(told) : told'[d] = IF d = c THEN Append(told[c], kind)
                                                       ELSE told[d]
  BY <1>6, ExceptSeq DEF ConnsOK, Collect
<1>. QED  BY <1>4, <1>5, <1>7 DEF ConnsOK

\* A connection is begun.
LEMMA NewConnType ==
    ASSUME ConnsOK, WayOK, WayKnown, NEW f \in Fds, NEW type \in Type,
           Index < MaxConns, NewConn(f, type), UNCHANGED <<recvq, hand>>
    PROVE  /\ WayOK' /\ WayKnown'
           /\ Index' = Index + 1 /\ Index' \in Conn
           /\ conns' \in Seq([fd : Fds, type : Type])
           /\ conns'[Index + 1] = [fd |-> f, type |-> type]
           /\ \A c \in 1 .. Index : conns'[c] = conns[c]
           /\ told' \in Seq(Seq(Kind)) /\ Len(told') = Index'
           /\ told'[Index + 1] = <<"connected">>
           /\ \A c \in 1 .. Index : told'[c] = told[c]
<1>. DEFINE m == [kind |-> "connected", conn |-> Index + 1]
            e == [fd |-> f, type |-> type]
<1>1. m \in Message /\ e \in [fd : Fds, type : Type] /\ Index \in Nat
  BY DEF ConnsOK, Message, Kind
<1>2. /\ conns' \in Seq([fd : Fds, type : Type]) /\ Index' = Index + 1
      /\ conns'[Index + 1] = e
      /\ \A c \in 1 .. Index : conns'[c] = conns[c]
  BY <1>1, AppendProperties DEF NewConn, ConnsOK, Index
<1>3. /\ recvtmp' \in Seq(Message) /\ Len(recvtmp') = Len(recvtmp) + 1
      /\ recvtmp'[Len(recvtmp) + 1] = m
      /\ \A p \in 1 .. Len(recvtmp) : recvtmp'[p] = recvtmp[p]
  BY <1>1, AppendProperties DEF NewConn, WayOK
<1>4. Len(recvtmp) \in Nat
  BY DEF WayOK
<1>5. WayOK'
  BY <1>3 DEF WayOK
<1>6. WayKnown'
  <2>1. \A p \in 1 .. Len(recvq) : recvq[p] \in Message
    BY ElementOfSeq DEF WayOK
  <2>2. \A p \in 1 .. Len(recvtmp) : recvtmp[p] \in Message
    BY ElementOfSeq DEF WayOK
  <2>3. ASSUME NEW p \in 1 .. Len(recvtmp') PROVE recvtmp'[p].conn <= Index'
    <3>1. CASE p = Len(recvtmp) + 1
      BY <1>1, <1>2, <1>3, <3>1
    <3>2. CASE p \in 1 .. Len(recvtmp)
      <4>1. recvtmp'[p] = recvtmp[p] /\ recvtmp[p].conn <= Index
        BY <1>3, <3>2 DEF WayKnown
      <4>2. recvtmp[p].conn \in Int
        BY <2>2, <3>2 DEF Message
      <4>. QED  BY <1>1, <1>2, <4>1, <4>2
    <3>. QED  BY <1>3, <1>4, <3>1, <3>2
  <2>4. \A p \in 1 .. Len(recvq') : recvq'[p].conn <= Index'
    BY <1>1, <1>2, <2>1 DEF WayKnown, Message
  <2>5. hand' # None => hand'.conn <= Index'
    BY <1>1, <1>2 DEF WayKnown, WayOK, Message
  <2>. QED  BY <2>3, <2>4, <2>5 DEF WayKnown
<1>7. <<"connected">> \in Seq(Kind)
  BY DEF Kind
<1>8. /\ told' \in Seq(Seq(Kind)) /\ Len(told') = Len(told) + 1
      /\ told'[Len(told) + 1] = <<"connected">>
      /\ \A c \in 1 .. Len(told) : told'[c] = told[c]
  BY <1>7, AppendProperties DEF NewConn, ConnsOK
<1>. QED  BY <1>1, <1>2, <1>5, <1>6, <1>8 DEF ConnsOK

-----------------------------------------------------------------------------
(* What the operations do to the link.                                     *)

Shape == ConnsOK /\ KeyOK /\ MapInv /\ LinkInv

\* Where the server entries and the link are does not depend on the rest.
LEMMA LinkFrame ==
    ASSUME LinkInv, UNCHANGED <<sock, map, conns, key, main, eventq>>
    PROVE  LinkInv'
  BY DEF LinkInv, Unset, Announced, Queued, Stranded, Up, OneAdd, Adds,
         ServerEntries, Entries

\* closeClient, while no ADD_CLIENT enters or leaves the queue.
LEMMA CloseKeeps ==
    ASSUME KernelOK, Shape, WayOK, WayKnown, NEW f \in Fds, NEW before,
           CloseClient(f, before), UNCHANGED <<conns, failed, main, recvq, hand>>,
           Adds = {} => Adds' = {}, \A g \in Fds : OneAdd(g) => OneAdd(g)'
    PROVE  KernelOK' /\ Shape' /\ WayOK' /\ WayKnown'
<1>. USE DEF Shape
<1>1. /\ KernelOK'
      /\ sock'[f] = Free /\ reg'[f] = Free
      /\ \A g \in Fds \ {f} : sock'[g] = sock[g] /\ reg'[g] = reg[g]
  BY CloseFdType DEF CloseClient
<1>2. CASE map[f] = Free
  <2>1. UNCHANGED <<map, key, recvtmp, told, conns>>
    BY <1>2 DEF CloseClient
  <2>2. ConnsOK' /\ KeyOK' /\ WayOK' /\ WayKnown'
    BY <2>1 DEF ConnsOK, KeyOK, WayOK, WayKnown, Index
  <2>3. MapInv'
    BY <1>1, <2>1 DEF MapInv, Entries
  <2>4. ServerEntries' = ServerEntries /\ f \notin ServerEntries
    BY <1>2, <2>1 DEF ServerEntries, Entries
  <2>5. LinkInv'
    BY <1>1, <2>1, <2>4 DEF LinkInv, Unset, Announced, Queued, Stranded, Up
  <2>. QED  BY <1>1, <2>2, <2>3, <2>5
<1>3. CASE map[f] # Free
  <2>. DEFINE c == map[f]
  <2>1. c \in 1 .. Index /\ Index' = Index /\ Index \in Nat
    BY <1>3 DEF ConnsOK, Index
  <2>2. /\ Collect("disconnected", c) /\ map' = [map EXCEPT ![f] = Free]
        /\ key' = IF conns[c].type = "server" THEN NoKey ELSE key
    BY <1>3 DEF CloseClient
  <2>3. /\ WayOK' /\ WayKnown'
        /\ told' \in Seq(Seq(Kind)) /\ Len(told') = Index
    BY <2>1, <2>2, CollectType DEF Kind
  <2>4. ConnsOK'
    BY <2>1, <2>2, <2>3 DEF ConnsOK
  <2>5. KeyOK'
    BY <2>1, <2>2 DEF KeyOK, NoKey
  <2>6. MapInv'
    BY <1>1, <2>2 DEF MapInv, Entries, ConnsOK
  <2>7. ServerEntries' = ServerEntries \ {f}
    BY <2>2 DEF ServerEntries, Entries, ConnsOK
  <2>8. LinkInv'
    <3>1. CASE f \in ServerEntries
      <4>1. Up(f)
        BY <3>1 DEF LinkInv, Unset, Announced, Queued, Stranded, Up
      <4>2. key' = NoKey
        BY <2>2, <3>1 DEF ServerEntries
      <4>3. Unset'
        BY <2>7, <4>1, <4>2 DEF Unset, Up
      <4>. QED  BY <4>3 DEF LinkInv
    <3>2. CASE f \notin ServerEntries
      <4>1. key' = key /\ ServerEntries' = ServerEntries
        BY <1>3, <2>2, <2>7, <3>2 DEF ServerEntries, Entries
      <4>2. ASSUME NEW g \in Fds, Up(g) PROVE Up(g)'
        <5>1. g # f /\ map'[g] = map[g]
          BY <2>2, <3>2, <4>2 DEF Up, ConnsOK
        <5>. QED  BY <1>1, <4>1, <4>2, <5>1 DEF Up
      <4>. QED
        BY <4>1, <4>2 DEF LinkInv, Unset, Announced, Queued, Stranded
    <3>. QED  BY <3>1, <3>2
  <2>. QED  BY <1>1, <2>3, <2>4, <2>5, <2>6, <2>8
<1>. QED  BY <1>2, <1>3

\* A new connection changes nothing of the others.
LEMMA NewConnKeeps ==
    ASSUME Shape, WayOK, WayKnown, NEW f \in Fds, NEW type \in Type,
           Index < MaxConns, NewConn(f, type), UNCHANGED <<recvq, hand, map>>,
           failed' \in SUBSET Conn
    PROVE  /\ ConnsOK' /\ WayOK' /\ WayKnown'
           /\ Index' = Index + 1 /\ Index' \in Conn
           /\ ServerEntries' = ServerEntries
           /\ \A g \in Entries : conns'[map[g]] = conns[map[g]]
<1>1. /\ WayOK' /\ WayKnown' /\ Index' = Index + 1 /\ Index' \in Conn
      /\ conns' \in Seq([fd : Fds, type : Type])
      /\ \A c \in 1 .. Index : conns'[c] = conns[c]
      /\ told' \in Seq(Seq(Kind)) /\ Len(told') = Index'
  BY NewConnType DEF Shape
<1>2. ConnsOK'
  BY <1>1 DEF Shape, ConnsOK
<1>3. \A g \in Entries : map[g] \in 1 .. Index
  BY DEF Shape, ConnsOK, Entries
<1>4. \A g \in Entries : conns'[map[g]] = conns[map[g]]
  BY <1>1, <1>3
<1>5. ServerEntries' = ServerEntries
  BY <1>4 DEF ServerEntries, Entries
<1>. QED  BY <1>1, <1>2, <1>4, <1>5

\* A new connection is registered and enters the map.
LEMMA AddKeeps ==
    ASSUME KernelOK, ConnsOK, MapInv, WayOK, WayKnown,
           NEW f \in Fds, NEW type \in Type,
           Index < MaxConns, NewConn(f, type), AddToEpoll(f),
           UNCHANGED <<recvq, hand, failed, misclosed>>
    PROVE  /\ KernelOK' /\ ConnsOK' /\ WayOK' /\ WayKnown' /\ MapInv'
           /\ Index' = Index + 1 /\ Index \in Nat
           /\ sock' = [sock EXCEPT ![f] = Index + 1]
           /\ map' = [map EXCEPT ![f] = Index + 1]
           /\ ServerEntries' = IF type = "server" THEN ServerEntries \cup {f}
                                                  ELSE ServerEntries \ {f}
<1>1. /\ WayOK' /\ WayKnown' /\ Index' = Index + 1 /\ Index' \in Conn
      /\ conns' \in Seq([fd : Fds, type : Type])
      /\ conns'[Index + 1] = [fd |-> f, type |-> type]
      /\ \A c \in 1 .. Index : conns'[c] = conns[c]
      /\ told' \in Seq(Seq(Kind)) /\ Len(told') = Index'
  BY NewConnType
<1>2. /\ reg' = [reg EXCEPT ![f] = Index + 1]
      /\ map' = [map EXCEPT ![f] = Index + 1]
      /\ sock' = [sock EXCEPT ![f] = Index + 1]
  BY DEF AddToEpoll
<1>3. Index \in Nat
  BY DEF ConnsOK
<1>4. KernelOK'
  BY <1>1, <1>2 DEF KernelOK
<1>5. ConnsOK'
  BY <1>1, <1>2, <1>3 DEF ConnsOK
<1>6. \A g \in Entries : map[g] \in 1 .. Index
  BY DEF ConnsOK, Entries
<1>7. /\ map'[f] = Index + 1 /\ f \in Entries'
      /\ \A g \in Fds \ {f} : map'[g] = map[g] /\ (g \in Entries' <=> g \in Entries)
  BY <1>2, <1>3 DEF ConnsOK, Entries
<1>8. \A g \in Fds \ {f} : g \in Entries => conns'[map'[g]] = conns[map[g]]
  BY <1>1, <1>6, <1>7
<1>9. conns'[map'[f]] = [fd |-> f, type |-> type]
  BY <1>1, <1>7
<1>10. MapInv'
  <2>1. \A g \in Entries' : conns'[map'[g]].fd = g
    BY <1>7, <1>8, <1>9 DEF MapInv, Entries
  <2>2. \A g \in Fds : reg'[g] # Free => map'[g] = reg'[g]
    BY <1>2, <1>7 DEF MapInv, KernelOK
  <2>. QED  BY <2>1, <2>2 DEF MapInv
<1>11. ServerEntries' = IF type = "server" THEN ServerEntries \cup {f}
                                            ELSE ServerEntries \ {f}
  BY <1>7, <1>8, <1>9 DEF ServerEntries, Entries
<1>. QED  BY <1>1, <1>2, <1>3, <1>4, <1>5, <1>10, <1>11

-----------------------------------------------------------------------------
(* Every step keeps the invariant, thread by thread.                       *)

\* A step that leaves alone what is recorded about connections.
LEMMA LinkQuiet ==
    ASSUME LinkIInv,
           UNCHANGED <<kernel, map, conns, key, eventq, told, main, misclosed,
                       failed>>
    PROVE  /\ KernelOK' /\ ConnsOK' /\ KeyOK' /\ EventsOK' /\ MainOK'
           /\ LinkInv' /\ RoomInv' /\ MapInv'
<1>. USE DEF LinkIInv, Types, kernel
<1>1. LinkInv'
  BY LinkFrame
<1>2. ConnsOK' /\ KeyOK' /\ EventsOK'
  BY DEF ConnsOK, KeyOK, EventsOK, Index
<1>3. KernelOK' /\ MainOK'
  BY DEF KernelOK, MainOK
<1>4. RoomInv' /\ MapInv'
  BY DEF RoomInv, MapInv, Adds, Index, Entries
<1>. QED  BY <1>1, <1>2, <1>3, <1>4

\* The messages on their way, when none moves.
LEMMA WayFrame ==
    ASSUME WayOK, WayKnown, UNCHANGED <<queues, hand, conns>>
    PROVE  WayOK' /\ WayKnown'
  BY DEF WayOK, WayKnown, Index, queues

\* The main thread moves the link from unset to announced and queued.
LEMMA MainKeepsLink ==
    ASSUME LinkIInv, MainThread
    PROVE  LinkIInv'
<1>. USE DEF LinkIInv, Types
<1>1. /\ UNCHANGED <<map, conns, told, failed, queues, hand, loop>>
      /\ Index' = Index /\ Index \in Nat
  BY DEF MainThread, CheckKey, OpenSocket, NoSocket, ConnectFails, Connected,
         EnqueueAdd, EnqueueFails, queues, Index, ConnsOK
<1>2. ConnsOK' /\ WayOK' /\ WayKnown' /\ LoopOK'
  BY <1>1, WayFrame DEF ConnsOK, loop, LoopOK
<1>3. Entries' = Entries /\ ServerEntries' = ServerEntries
  BY <1>1 DEF Entries, ServerEntries
<1>4. eventq' = eventq => Adds' = Adds /\ EventsOK'
  BY DEF Adds, EventsOK
<1>5. key' = key => KeyOK'
  BY <1>1 DEF KeyOK
<1>6. UNCHANGED <<reg, sock>> => MapInv'
  BY <1>1, <1>3 DEF MapInv
<1>7. main.pc \in {"socket", "connect"} => Unset
  BY DEF LinkInv, Announced, Queued, Stranded, Up
<1>8. main.pc = "enqueue" => Announced
  BY DEF LinkInv, Unset, Queued, Stranded, Up
<1>9. CASE CheckKey
  <2>1. /\ UNCHANGED <<sock, reg, misclosed, key, eventq>>
        /\ main.pc = "idle" /\ key.fd = None /\ main' = [pc |-> "socket", fd |-> None]
    BY <1>9 DEF CheckKey, kernel, KeyUnset
  <2>2. Unset
    BY <2>1 DEF LinkInv, Announced, Queued, Stranded, Up
  <2>3. Unset' /\ RoomInv'
    BY <1>1, <1>3, <1>4, <2>1, <2>2 DEF Unset, RoomInv
  <2>4. KernelOK' /\ MainOK' /\ MapInv'
    BY <1>6, <2>1 DEF KernelOK, MainOK
  <2>. QED  BY <1>2, <1>4, <1>5, <2>1, <2>3, <2>4 DEF LinkInv
<1>10. ASSUME NEW f \in Fds, OpenSocket(f) PROVE LinkIInv'
  <2>1. /\ UNCHANGED <<reg, misclosed, key, eventq>>
        /\ main.pc = "socket" /\ main' = [pc |-> "connect", fd |-> f]
        /\ sock' = [sock EXCEPT ![f] = Main] /\ Index + Underway < MaxConns
    BY <1>10 DEF OpenSocket
  <2>2. Index < MaxConns
    BY <1>1, <2>1, UnderwayCounts
  <2>3. Unset' /\ RoomInv'
    BY <1>1, <1>3, <1>4, <1>7, <2>1, <2>2 DEF Unset, RoomInv
  <2>4. KernelOK' /\ MainOK' /\ MapInv'
    BY <1>1, <1>3, <2>1 DEF KernelOK, MainOK, MapInv
  <2>. QED  BY <1>2, <1>4, <1>5, <2>1, <2>3, <2>4 DEF LinkInv
<1>11. CASE NoSocket
  <2>1. /\ UNCHANGED <<sock, reg, misclosed, key, eventq>>
        /\ main.pc = "socket" /\ main' = [pc |-> "idle", fd |-> None]
    BY <1>11 DEF NoSocket, kernel, Idle
  <2>2. Unset' /\ RoomInv'
    BY <1>1, <1>3, <1>4, <1>7, <2>1 DEF Unset, RoomInv
  <2>3. KernelOK' /\ MainOK' /\ MapInv'
    BY <1>6, <2>1 DEF KernelOK, MainOK
  <2>. QED  BY <1>2, <1>4, <1>5, <2>1, <2>2, <2>3 DEF LinkInv
<1>12. CASE ConnectFails
  <2>1. /\ UNCHANGED <<key, eventq>> /\ CloseFd(main.fd, Main)
        /\ main.pc = "connect" /\ main' = [pc |-> "idle", fd |-> None]
    BY <1>12 DEF ConnectFails, Idle
  <2>2. main.fd \in Fds
    BY <2>1 DEF MainOK
  <2>3. Unset' /\ RoomInv'
    BY <1>1, <1>3, <1>4, <1>7, <2>1 DEF Unset, RoomInv
  <2>4. KernelOK' /\ MapInv'
    BY <1>1, <1>3, <2>1, <2>2, CloseFdType DEF MapInv
  <2>5. MainOK'
    BY <2>1 DEF MainOK
  <2>. QED  BY <1>2, <1>4, <1>5, <2>1, <2>3, <2>4, <2>5 DEF LinkInv
<1>13. CASE Connected
  <2>1. /\ UNCHANGED <<sock, reg, misclosed, eventq>>
        /\ main.pc = "connect" /\ main' = [main EXCEPT !.pc = "enqueue"]
        /\ key' = [fd |-> main.fd, conn |-> 0]
    BY <1>13 DEF Connected, kernel
  <2>2. main.fd \in Fds /\ main'.fd = main.fd /\ main'.pc = "enqueue"
    BY <2>1 DEF MainOK
  <2>3. Announced' /\ RoomInv'
    BY <1>1, <1>3, <1>4, <1>7, <2>1, <2>2 DEF Unset, Announced, RoomInv
  <2>4. KernelOK' /\ MainOK' /\ MapInv'
    BY <1>6, <2>1, <2>2 DEF KernelOK, MainOK
  <2>5. KeyOK'
    BY <1>1, <2>1, <2>2 DEF KeyOK
  <2>. QED  BY <1>2, <1>4, <2>1, <2>3, <2>4, <2>5 DEF LinkInv
<1>14. CASE EnqueueAdd
  <2>1. /\ UNCHANGED <<sock, reg, misclosed, key>> /\ HasRoomForEvent
        /\ main.pc = "enqueue" /\ main' = [pc |-> "idle", fd |-> None]
        /\ eventq' = Append(eventq, [ev |-> "add", fd |-> main.fd, conn |-> 0])
    BY <1>14 DEF EnqueueAdd, kernel, Idle
  <2>2. PICK f \in Fds : f = main.fd
    BY <2>1 DEF MainOK
  <2>3. PICK e : e = [ev |-> "add", fd |-> f, conn |-> 0]
    OBVIOUS
  <2>4. e \in NetEvent /\ e.ev = "add" /\ e.fd = f
    BY <2>3 DEF NetEvent
  <2>5. EventsOK' /\ OneAdd(f)'
    <3>1. Adds = {} /\ eventq' = Append(eventq, e)
      BY <1>8, <2>1, <2>2, <2>3 DEF Announced
    <3>2. EventsOK' /\ OneAdd(e.fd)'
      BY <2>1, <2>4, <3>1, EventAdded
    <3>. QED  BY <2>4, <3>2
  <2>6. Queued'
    <3>1. key' = [fd |-> f, conn |-> 0] /\ ServerEntries' = {}
      BY <1>3, <1>8, <2>1, <2>2 DEF Announced
    <3>. QED  BY <2>1, <2>5, <3>1 DEF Queued
  <2>7. KernelOK' /\ MainOK' /\ MapInv' /\ RoomInv'
    BY <1>1, <1>6, <2>1 DEF KernelOK, MainOK, RoomInv
  <2>. QED  BY <1>2, <1>5, <2>1, <2>5, <2>6, <2>7 DEF LinkInv
<1>15. CASE EnqueueFails
  <2>1. /\ UNCHANGED <<key, eventq>> /\ CloseFd(main.fd, Main)
        /\ main.pc = "enqueue" /\ main' = [pc |-> "idle", fd |-> None]
    BY <1>15 DEF EnqueueFails, Idle
  <2>2. main.fd \in Fds
    BY <2>1 DEF MainOK
  <2>3. Stranded' /\ RoomInv'
    BY <1>1, <1>3, <1>4, <1>8, <2>1, <2>2 DEF Announced, Stranded, RoomInv
  <2>4. KernelOK' /\ MapInv'
    BY <1>1, <1>3, <2>1, <2>2, CloseFdType DEF MapInv
  <2>5. MainOK'
    BY <2>1 DEF MainOK
  <2>. QED  BY <1>2, <1>4, <1>5, <2>1, <2>3, <2>4, <2>5 DEF LinkInv
<1>. QED
  BY <1>9, <1>10, <1>11, <1>12, <1>13, <1>14, <1>15 DEF MainThread

\* The worker asks for a connection to be closed, or only takes messages.
LEMMA WorkerKeepsLink ==
    ASSUME LinkIInv, Worker
    PROVE  LinkIInv'
<1>. USE DEF LinkIInv, Types
<1>1. CASE TakeMessage
  <2>1. UNCHANGED <<kernel, map, conns, key, eventq, recvtmp, told, main, loop,
                    misclosed, failed>>
    BY <1>1 DEF TakeMessage
  <2>2. /\ recvq # <<>> /\ hand' = Head(recvq) /\ recvq' = Tail(recvq)
    BY <1>1 DEF TakeMessage
  <2>3. /\ Head(recvq) \in Message /\ recvq' \in Seq(Message)
        /\ Len(recvq') = Len(recvq) - 1
        /\ \A p \in 1 .. Len(recvq') : recvq'[p] = recvq[p + 1]
    BY <2>2, HeadTailProperties DEF WayOK
  <2>4. Len(recvq) \in Nat \ {0} /\ Head(recvq) = recvq[1]
    BY <2>2, EmptySeq DEF WayOK
  <2>5. WayOK' /\ WayKnown'
    BY <2>1, <2>2, <2>3, <2>4 DEF WayOK, WayKnown, Index
  <2>. QED  BY <2>1, <2>5, LinkQuiet DEF loop, LoopOK
<1>2. CASE MessageDone
  <2>1. /\ UNCHANGED <<kernel, map, conns, key, eventq, queues, main, loop,
                       misclosed, failed>>
        /\ hand' = None
    BY <1>2 DEF MessageDone
  <2>2. WayOK' /\ WayKnown'
    BY <2>1 DEF WayOK, WayKnown, queues, Index
  <2>. QED  BY <2>1, <2>2, LinkQuiet DEF loop, LoopOK, queues
<1>3. CASE MessageRejected
  <2>1. /\ UNCHANGED <<kernel, map, conns, key, queues, main, loop, misclosed,
                       failed>>
        /\ hand # None /\ hand' = None
    BY <1>3 DEF MessageRejected
  <2>2. WayOK' /\ WayKnown'
    BY <2>1 DEF WayOK, WayKnown, queues, Index
  <2>3. /\ hand.conn \in 1 .. Index /\ hand.conn \in 0 .. MaxConns
        /\ conns[hand.conn].fd \in Fds
    <3>1. hand.conn \in 1 .. Index
      BY <2>1 DEF WayOK, WayKnown, Message, ConnsOK
    <3>2. conns[hand.conn] \in [fd : Fds, type : Type]
      BY <3>1, ElementOfSeq DEF ConnsOK, Index
    <3>. QED  BY <3>1, <3>2 DEF ConnsOK
  <2>4. EventsOK' /\ Adds' = Adds /\ \A f \in Fds : OneAdd(f) => OneAdd(f)'
    <3>1. CASE HasRoomForEvent
      <4>1. PICK e : e = [ev |-> "close", conn |-> hand.conn,
                          fd |-> conns[hand.conn].fd]
        OBVIOUS
      <4>2. e \in NetEvent /\ e.ev = "close"
        BY <2>3, <4>1 DEF NetEvent
      <4>3. eventq' = Append(eventq, e)
        BY <1>3, <3>1, <4>1 DEF MessageRejected
      <4>. QED  BY <3>1, <4>2, <4>3, EventAdded
    <3>2. CASE ~HasRoomForEvent
      BY <1>3, <3>2 DEF MessageRejected, EventsOK, Adds, OneAdd
    <3>. QED  BY <3>1, <3>2
  <2>5. KernelOK' /\ ConnsOK' /\ KeyOK' /\ MainOK' /\ LoopOK'
    BY <2>1 DEF kernel, queues, loop, KernelOK, ConnsOK, KeyOK, MainOK, LoopOK, Index
  <2>6. RoomInv' /\ MapInv'
    BY <2>1, <2>4 DEF RoomInv, MapInv, Index, Entries, kernel
  <2>7. ServerEntries' = ServerEntries
    BY <2>1 DEF ServerEntries, Entries
  <2>8. LinkInv'
    BY <2>1, <2>4, <2>7
       DEF LinkInv, Unset, Announced, Queued, Stranded, Up, kernel
  <2>. QED  BY <2>2, <2>4, <2>5, <2>6, <2>8
<1>. QED  BY <1>1, <1>2, <1>3 DEF Worker

\* closeClient, by an event of epoll, a worker or a timeout.
LEMMA ClosingKeepsLink ==
    ASSUME LinkIInv,
           (\E e \in batch : RecvEnds(e)) \/ SysClose
              \/ \E f \in Fds : KeepaliveClose(f)
    PROVE  LinkIInv'
<1>. USE DEF LinkIInv, Types
<1>1. Index' = Index /\ MainOK' /\ UNCHANGED <<conns, failed, main, recvq, hand>>
  BY DEF RecvEnds, SysClose, KeepaliveClose, MainOK, Index
<1>2. ASSUME NEW e \in batch, RecvEnds(e) PROVE LinkIInv'
  <2>1. e.fd \in Fds
    BY DEF LoopOK
  <2>2. CloseClient(e.fd, e.conn) /\ UNCHANGED <<eventq, pc>> /\ batch' \subseteq batch
    BY <1>2 DEF RecvEnds
  <2>3. EventsOK' /\ Adds' = Adds /\ \A g \in Fds : OneAdd(g) => OneAdd(g)'
    BY <2>2 DEF EventsOK, Adds, OneAdd
  <2>4. KernelOK' /\ Shape' /\ WayOK' /\ WayKnown'
    BY <1>1, <2>1, <2>2, <2>3, CloseKeeps DEF Shape
  <2>5. LoopOK' /\ RoomInv'
    BY <1>1, <2>2, <2>3 DEF LoopOK, RoomInv
  <2>. QED  BY <1>1, <2>3, <2>4, <2>5 DEF Shape
<1>3. CASE SysClose
  <2>1. /\ eventq # <<>> /\ Head(eventq).ev = "close" /\ eventq' = Tail(eventq)
        /\ CloseClient(Head(eventq).fd, Head(eventq).conn) /\ UNCHANGED loop
    BY <1>3 DEF SysClose, NextEvent
  <2>2. /\ EventsOK' /\ Head(eventq).fd \in Fds
        /\ Adds = {} => Adds' = {}
        /\ \A g \in Fds : OneAdd(g) => OneAdd(g)'
    BY <2>1, EventTaken DEF NetEvent
  <2>3. KernelOK' /\ Shape' /\ WayOK' /\ WayKnown'
    BY <1>1, <2>1, <2>2, CloseKeeps DEF Shape
  <2>4. LoopOK' /\ RoomInv'
    BY <1>1, <2>1, <2>2 DEF LoopOK, RoomInv, loop
  <2>. QED  BY <1>1, <2>2, <2>3, <2>4 DEF Shape
<1>4. ASSUME NEW f \in Fds, KeepaliveClose(f) PROVE LinkIInv'
  <2>1. CloseClient(f, map[f]) /\ UNCHANGED <<eventq, loop>>
    BY <1>4 DEF KeepaliveClose
  <2>2. EventsOK' /\ Adds' = Adds /\ \A g \in Fds : OneAdd(g) => OneAdd(g)'
    BY <2>1 DEF EventsOK, Adds, OneAdd
  <2>3. KernelOK' /\ Shape' /\ WayOK' /\ WayKnown'
    BY <1>1, <2>1, <2>2, CloseKeeps DEF Shape
  <2>4. LoopOK' /\ RoomInv'
    BY <1>1, <2>1, <2>2 DEF LoopOK, RoomInv, loop
  <2>. QED  BY <1>1, <2>2, <2>3, <2>4 DEF Shape
<1>. QED  BY <1>2, <1>3, <1>4

\* Connections that begin: clients are accepted, the server is added.
LEMMA BeginKeepsLink ==
    ASSUME LinkIInv,
           (\E f \in Fds : Accept(f) \/ AcceptFails(f)) \/ SysAdd \/ SysAddFails
    PROVE  LinkIInv'
<1>. USE DEF LinkIInv, Types
<1>1. Underway \in Nat /\ Index \in Nat
  BY UnderwayCounts DEF ConnsOK
<1>2. MainOK' /\ LoopOK' /\ UNCHANGED <<main, recvq, hand>>
  BY DEF Accept, AcceptFails, SysAdd, SysAddFails, MainOK, LoopOK, loop
<1>3. ASSUME NEW f \in Fds, Accept(f) PROVE LinkIInv'
  <2>1. /\ sock[f] = Free /\ Index + Underway < MaxConns
        /\ NewConn(f, "client") /\ AddToEpoll(f)
        /\ UNCHANGED <<key, eventq, recvq, main, hand, loop, misclosed, failed>>
    BY <1>3 DEF Accept
  <2>2. /\ KernelOK' /\ ConnsOK' /\ WayOK' /\ WayKnown' /\ MapInv'
        /\ Index' = Index + 1
        /\ sock' = [sock EXCEPT ![f] = Index + 1]
        /\ map' = [map EXCEPT ![f] = Index + 1]
        /\ ServerEntries' = ServerEntries \ {f}
    <3>1. "client" \in Type /\ "client" # "server" /\ Index < MaxConns
      BY <1>1, <2>1 DEF Type
    <3>. QED  BY <2>1, <3>1, AddKeeps
  <2>3. EventsOK' /\ Adds' = Adds /\ \A g \in Fds : OneAdd(g) => OneAdd(g)'
    BY <2>1 DEF EventsOK, Adds, OneAdd
  <2>4. KeyOK'
    BY <1>1, <2>1, <2>2 DEF KeyOK
  <2>5. RoomInv'
    BY <1>1, <1>2, <2>1, <2>2, <2>3, UnderwayCounts DEF RoomInv
  <2>6. f \notin ServerEntries
    BY <2>1 DEF LinkInv, Unset, Announced, Queued, Stranded, Up, ServerEntries, Entries
  <2>7. ASSUME NEW g \in Fds, Up(g) PROVE Up(g)'
    <3>1. g # f
      BY <2>6, <2>7 DEF Up
    <3>2. sock'[g] = sock[g] /\ map'[g] = map[g]
      BY <2>2, <3>1 DEF KernelOK, ConnsOK
    <3>. QED  BY <1>2, <2>1, <2>2, <2>3, <2>6, <2>7, <3>2 DEF Up
  <2>8. LinkInv'
    BY <1>2, <2>1, <2>2, <2>3, <2>6, <2>7 DEF LinkInv, Unset, Announced, Queued, Stranded
  <2>. QED  BY <1>2, <2>2, <2>3, <2>4, <2>5, <2>8
<1>4. ASSUME NEW f \in Fds, AcceptFails(f) PROVE LinkIInv'
  <2>1. /\ Index + Underway < MaxConns /\ NewConn(f, "client")
        /\ failed' = failed \cup {Index + 1}
        /\ UNCHANGED <<kernel, map, key, eventq, recvq, main, hand, loop, misclosed>>
    BY <1>4 DEF AcceptFails
  <2>2. "client" \in Type /\ Index < MaxConns /\ failed' \in SUBSET Conn
    BY <1>1, <2>1 DEF Type, ConnsOK
  <2>3. /\ ConnsOK' /\ WayOK' /\ WayKnown' /\ Index' = Index + 1
        /\ ServerEntries' = ServerEntries
        /\ \A g \in Entries : conns'[map[g]] = conns[map[g]]
    BY <2>1, <2>2, NewConnKeeps DEF Shape
  <2>4. EventsOK' /\ Adds' = Adds /\ \A g \in Fds : OneAdd(g) => OneAdd(g)'
    BY <2>1 DEF EventsOK, Adds, OneAdd
  <2>5. KeyOK' /\ KernelOK' /\ MapInv'
    BY <1>1, <2>1, <2>3 DEF KeyOK, KernelOK, MapInv, Entries, kernel
  <2>6. RoomInv'
    BY <1>1, <1>2, <2>1, <2>3, <2>4, UnderwayCounts DEF RoomInv
  <2>7. LinkInv'
    BY <2>1, <2>3, <2>4
       DEF LinkInv, Unset, Announced, Queued, Stranded, Up, kernel
  <2>. QED  BY <1>2, <2>3, <2>4, <2>5, <2>6, <2>7
<1>5. SysAdd \/ SysAddFails =>
        /\ Head(eventq).fd \in Fds /\ Adds # {} /\ Adds' = {} /\ EventsOK'
        /\ Queued /\ key.fd = Head(eventq).fd /\ Index < MaxConns /\ RoomInv'
  <2>. SUFFICES ASSUME SysAdd \/ SysAddFails
                PROVE  /\ Head(eventq).fd \in Fds /\ Adds # {} /\ Adds' = {} /\ EventsOK'
                       /\ Queued /\ key.fd = Head(eventq).fd /\ Index < MaxConns
                       /\ RoomInv'
    OBVIOUS
  <2>1. eventq # <<>> /\ Head(eventq).ev = "add" /\ eventq' = Tail(eventq)
    BY DEF SysAdd, SysAddFails, NextEvent
  <2>2. /\ EventsOK' /\ Head(eventq).fd \in Fds /\ Adds # {}
        /\ \A f \in Fds : OneAdd(f) => f = Head(eventq).fd /\ Adds' = {}
    BY <2>1, EventTaken DEF NetEvent
  <2>3. Queued
    BY <2>2 DEF LinkInv, Unset, Announced, Stranded, Up
  <2>4. PICK f \in Fds : OneAdd(f) /\ key = [fd |-> f, conn |-> 0]
    BY <2>3 DEF Queued
  <2>5. f = Head(eventq).fd /\ Adds' = {}
    BY <2>2, <2>4
  <2>6. Index < MaxConns /\ RoomInv'
    BY <1>2, <2>2, <2>3, <2>5 DEF RoomInv, Queued
  <2>. QED  BY <2>2, <2>3, <2>4, <2>5, <2>6
<1>6. CASE SysAdd
  <2>1. PICK f \in Fds : f = Head(eventq).fd
    BY <1>5, <1>6
  <2>2. /\ NewConn(f, "server") /\ AddToEpoll(f)
        /\ key' = [fd |-> f, conn |-> Index + 1]
        /\ UNCHANGED <<recvq, main, hand, loop, misclosed, failed>>
    BY <1>6, <2>1 DEF SysAdd
  <2>3. /\ KernelOK' /\ ConnsOK' /\ WayOK' /\ WayKnown' /\ MapInv'
        /\ Index' = Index + 1
        /\ sock' = [sock EXCEPT ![f] = Index + 1]
        /\ map' = [map EXCEPT ![f] = Index + 1]
        /\ ServerEntries' = ServerEntries \cup {f}
    <3>1. "server" \in Type /\ Index < MaxConns
      BY <1>5, <1>6 DEF Type
    <3>. QED  BY <2>2, <3>1, AddKeeps
  <2>4. KeyOK'
    BY <1>1, <2>2, <2>3 DEF KeyOK
  <2>5. sock'[f] = Index + 1 /\ map'[f] = Index + 1
    BY <2>3 DEF KernelOK, ConnsOK
  <2>6. Up(f)'
    BY <1>2, <1>5, <1>6, <2>2, <2>3, <2>5 DEF Up, Queued
  <2>. QED  BY <1>2, <1>5, <1>6, <2>3, <2>4, <2>6 DEF LinkInv
<1>7. CASE SysAddFails
  <2>1. PICK f \in Fds : f = Head(eventq).fd
    BY <1>5, <1>7
  <2>2. /\ NewConn(f, "server") /\ CloseFd(f, Main)
        /\ key' = [fd |-> f, conn |-> Index + 1]
        /\ failed' = failed \cup {Index + 1}
        /\ UNCHANGED <<map, recvq, main, hand, loop>>
    BY <1>7, <2>1 DEF SysAddFails
  <2>3. "server" \in Type /\ Index < MaxConns /\ failed' \in SUBSET Conn
    BY <1>1, <1>5, <1>7, <2>2 DEF Type, ConnsOK
  <2>4. /\ ConnsOK' /\ WayOK' /\ WayKnown' /\ Index' = Index + 1
        /\ ServerEntries' = ServerEntries
        /\ \A g \in Entries : conns'[map[g]] = conns[map[g]]
    BY <2>2, <2>3, NewConnKeeps DEF Shape
  <2>5. KernelOK' /\ MapInv'
    BY <2>2, <2>4, CloseFdType DEF MapInv, Entries
  <2>6. KeyOK'
    BY <1>1, <2>2, <2>4 DEF KeyOK
  <2>7. Stranded'
    BY <1>2, <1>5, <1>7, <2>2, <2>4 DEF Stranded, Queued
  <2>. QED  BY <1>2, <1>5, <1>7, <2>4, <2>5, <2>6, <2>7 DEF LinkInv
<1>. QED  BY <1>3, <1>4, <1>6, <1>7

\* The rest of the loop: it waits, reads, hands messages on and comes round.
LEMMA LoopKeepsLink ==
    ASSUME LinkIInv,
           \/ EpollWait \/ EndBatch \/ FlushRecv \/ EndEvents \/ EndLoop
           \/ \E e \in batch : RecvData(e)
    PROVE  LinkIInv'
<1>. USE DEF LinkIInv, Types
<1>1. CASE EpollWait
  <2>1. /\ UNCHANGED <<kernel, map, conns, key, eventq, queues, main, hand,
                       misclosed, failed>>
        /\ pc' = "batch"
    BY <1>1 DEF EpollWait, Goto
  <2>2. PICK ready \in SUBSET {f \in Fds : reg[f] # Free} :
           batch' = {[fd |-> f, conn |-> reg[f]] : f \in ready}
    BY <1>1 DEF EpollWait
  <2>3. LoopOK'
    BY <2>1, <2>2 DEF LoopOK, KernelOK
  <2>. QED  BY <2>1, <2>3, LinkQuiet, WayFrame DEF queues
<1>2. CASE EndBatch \/ EndEvents \/ EndLoop
  <2>1. UNCHANGED <<kernel, map, conns, key, eventq, queues, main, hand, batch,
                    misclosed, failed>>
    BY <1>2 DEF EndBatch, EndEvents, EndLoop
  <2>2. LoopOK'
    BY <1>2, <2>1 DEF EndBatch, EndEvents, EndLoop, Goto, LoopOK
  <2>. QED  BY <2>1, <2>2, LinkQuiet, WayFrame DEF queues
<1>3. CASE FlushRecv
  <2>1. /\ UNCHANGED <<kernel, map, conns, key, eventq, told, main, hand, batch,
                       misclosed, failed>>
        /\ pc = "flush" /\ pc' \in {"keepalive", "events"}
        /\ recvq' = recvq \o SubSeq(recvtmp, 1, Takes) /\ recvtmp' = <<>>
    BY <1>3 DEF FlushRecv
  <2>2. /\ Takes \in Nat /\ Takes <= Len(recvtmp) /\ Takes <= MaxRecv - Len(recvq)
        /\ Len(recvq) \in Nat
    BY DEF Takes, WayOK
  <2>. DEFINE new == SubSeq(recvtmp, 1, Takes)
  <2>3. /\ new \in Seq(Message) /\ Len(new) = Takes
        /\ \A p \in 1 .. Takes : new[p] = recvtmp[p]
    <3>1. \A i \in 1 .. Takes : recvtmp[i] \in Message
      BY <2>2, ElementOfSeq DEF WayOK
    <3>2. new \in Seq(Message) /\ Len(new) = (IF 1 <= Takes THEN Takes - 1 + 1 ELSE 0)
          /\ \A i \in 1 .. Takes - 1 + 1 : new[i] = recvtmp[1 + i - 1]
      BY <2>2, <3>1, SubSeqProperties
    <3>. QED  BY <2>2, <3>2
  <2>. HIDE DEF new
  <2>4. /\ recvq' \in Seq(Message) /\ Len(recvq') = Len(recvq) + Takes
        /\ \A p \in 1 .. Len(recvq) + Takes :
              recvq'[p] = IF p <= Len(recvq) THEN recvq[p] ELSE new[p - Len(recvq)]
    BY <2>1, <2>3, ConcatProperties DEF new, WayOK
  <2>5. WayOK'
    BY <2>1, <2>2, <2>4 DEF WayOK
  <2>6. WayKnown'
    <3>1. ASSUME NEW p \in 1 .. Len(recvq') PROVE recvq'[p].conn <= Index
      <4>1. CASE p <= Len(recvq)
        BY <2>2, <2>4, <4>1 DEF WayKnown
      <4>2. CASE p > Len(recvq)
        <5>1. p - Len(recvq) \in 1 .. Takes /\ p - Len(recvq) \in 1 .. Len(recvtmp)
          BY <2>2, <2>4, <4>2 DEF WayOK
        <5>2. recvq'[p] = recvtmp[p - Len(recvq)]
          BY <2>2, <2>3, <2>4, <4>2, <5>1
        <5>. QED  BY <5>1, <5>2 DEF WayKnown
      <4>. QED  BY <2>2, <4>1, <4>2
    <3>2. Index' = Index /\ Len(recvtmp') = 0
      BY <2>1 DEF Index
    <3>3. \A p \in 1 .. Len(recvtmp') : recvtmp'[p].conn <= Index'
      BY <3>2
    <3>4. hand' # None => hand'.conn <= Index'
      BY <2>1, <3>2 DEF WayKnown
    <3>. QED  BY <3>1, <3>2, <3>3, <3>4 DEF WayKnown
  <2>7. LoopOK'
    BY <2>1 DEF LoopOK
  <2>. QED  BY <2>1, <2>5, <2>6, <2>7, LinkQuiet
<1>4. ASSUME NEW e \in batch, RecvData(e) PROVE LinkIInv'
  <2>1. /\ UNCHANGED <<kernel, map, conns, key, eventq, recvq, main, hand, pc,
                       misclosed, failed>>
        /\ map[e.fd] = e.conn /\ e.conn # Free /\ Collect("data", e.conn)
        /\ batch' = batch \ {e} /\ pc = "batch"
    BY <1>4 DEF RecvData, FoundKey
  <2>2. e.conn \in 1 .. Index /\ Index' = Index
    BY <2>1 DEF LoopOK, ConnsOK, Index
  <2>3. /\ WayOK' /\ WayKnown'
        /\ told' \in Seq(Seq(Kind)) /\ Len(told') = Index
    BY <2>1, <2>2, CollectType DEF Kind
  <2>4. ConnsOK'
    BY <2>1, <2>2, <2>3 DEF ConnsOK
  <2>5. EventsOK' /\ KeyOK' /\ KernelOK' /\ MainOK' /\ LoopOK'
    BY <2>1, <2>2 DEF EventsOK, KeyOK, KernelOK, MainOK, LoopOK, kernel
  <2>6. RoomInv' /\ MapInv'
    BY <2>1, <2>2 DEF RoomInv, MapInv, Entries, Adds, kernel
  <2>7. LinkInv'
    BY <2>1, LinkFrame DEF kernel
  <2>. QED  BY <2>3, <2>4, <2>5, <2>6, <2>7
<1>. QED  BY <1>1, <1>2, <1>3, <1>4

LEMMA StepKeepsLink == LinkIInv /\ [Next]_vars => LinkIInv'
<1>. SUFFICES ASSUME LinkIInv, [Next]_vars PROVE LinkIInv'
  OBVIOUS
<1>1. CASE MainThread
  BY <1>1, MainKeepsLink
<1>2. CASE Worker
  BY <1>2, WorkerKeepsLink
<1>3. CASE EpollThread
  <2>1. \/ (\E e \in batch : RecvEnds(e)) \/ SysClose
           \/ \E f \in Fds : KeepaliveClose(f)
        \/ (\E f \in Fds : Accept(f) \/ AcceptFails(f)) \/ SysAdd \/ SysAddFails
        \/ EpollWait \/ EndBatch \/ FlushRecv \/ EndEvents \/ EndLoop
           \/ \E e \in batch : RecvData(e)
    BY <1>3 DEF EpollThread, EpollStep
  <2>. QED  BY <2>1, ClosingKeepsLink, BeginKeepsLink, LoopKeepsLink
<1>4. CASE UNCHANGED vars
  BY <1>4, LinkQuiet, WayFrame
     DEF vars, queues, loop, LoopOK, LinkIInv, Types
<1>. QED  BY <1>1, <1>2, <1>3, <1>4 DEF Next

-----------------------------------------------------------------------------
(* What follows from the invariant.                                        *)

\* The inductive invariant: types, where the link is, what the map knows.
THEOREM LinkIInvCorrect == Spec => []LinkIInv
  BY InitLink, StepKeepsLink, PTL DEF Spec

\* Every variable keeps its type: no queue exceeds its limit, and no event,
\* message or key is about a connection there has not been, for every value of
\* the constants.
THEOREM TypeCorrect == Spec => []TypeOK
<1>1. LinkIInv => TypeOK
  BY DEF LinkIInv, Types, TypeOK, KernelOK, ConnsOK, KeyOK, EventsOK, WayOK,
         MainOK, LoopOK
<1>. QED  BY <1>1, LinkIInvCorrect, PTL

\* At most one connection to the server is in the map, for every value of the
\* constants: createServerConnect and the epoll thread, which set and reset the
\* key each in its own time, never make a second one.
THEOREM OneServerLinkCorrect == Spec => []OneServerLink
<1>1. ASSUME LinkInv PROVE OneServerLink
  <2>1. ServerEntries = {} \/ \E f \in Fds : ServerEntries = {f}
    BY <1>1 DEF LinkInv, Unset, Announced, Queued, Stranded, Up
  <2>2. Cardinality({}) = 0 /\ \A f \in Fds : Cardinality({f}) = 1
    BY FS_EmptySet, FS_Singleton
  <2>. QED  BY <2>1, <2>2 DEF OneServerLink
<1>. QED  BY <1>1, LinkIInvCorrect, PTL DEF LinkIInv

\* A server connection in the map is the one the key names, for every value of
\* the constants, and even when a close() hit a foreign socket.
THEOREM LinkHasKeyCorrect == Spec => []LinkHasKey
<1>1. LinkInv => LinkHasKey
  BY DEF LinkInv, Unset, Announced, Queued, Stranded, Up, LinkHasKey
<1>. QED  BY <1>1, LinkIInvCorrect, PTL DEF LinkIInv

-----------------------------------------------------------------------------
(* Sockets.                                                                *)

\* The worker was told that c is at its end.
EndTold(c) == \E p \in 1 .. Len(told[c]) : told[c][p] = "disconnected"

\* An entry of the map is the socket its descriptor names.
MapSocks == \A f \in Fds : map[f] # Free => sock[f] = map[f]

\* What is left of a batch is about entries of the map.
BatchInv == \A e \in batch : map[e.fd] = e.conn

\* Who answers for an open descriptor: the map and epoll, or the main thread.
Owned(f) == map[f] = sock[f] /\ reg[f] = sock[f]
Coming(f) == sock[f] = Main /\ (main.fd = f \/ AddQueued(f))
OwnedInv == \A f \in Fds : sock[f] # Free => Owned(f) \/ Coming(f)

EndsInv == \A c \in 1 .. Index : map[conns[c].fd] = c \/ EndTold(c) \/ c \in failed

SockInv == ~misclosed => MapSocks /\ BatchInv /\ OwnedInv /\ EndsInv
SockIInv == LinkIInv /\ SockInv

\* An event that was queued stays queued when one is added.
LEMMA QueuedStays ==
    ASSUME EventsOK, NEW e \in NetEvent, eventq' = Append(eventq, e)
    PROVE  \A f \in Fds : AddQueued(f) \/ (e.ev = "add" /\ e.fd = f) => AddQueued(f)'
<1>1. /\ Len(eventq') = Len(eventq) + 1 /\ Len(eventq) \in Nat
      /\ eventq'[Len(eventq) + 1] = e
      /\ \A p \in 1 .. Len(eventq) : eventq'[p] = eventq[p]
  BY AppendProperties DEF EventsOK
<1>2. ASSUME NEW f \in Fds, AddQueued(f) PROVE AddQueued(f)'
  BY <1>1, <1>2 DEF AddQueued
<1>3. ASSUME NEW f \in Fds, e.ev = "add", e.fd = f PROVE AddQueued(f)'
  <2>1. Len(eventq) + 1 \in 1 .. Len(eventq')
    BY <1>1
  <2>. QED  BY <1>1, <1>3, <2>1 DEF AddQueued
<1>. QED  BY <1>2, <1>3

\* An event that was queued is taken or stays.
LEMMA QueuedTaken ==
    ASSUME EventsOK, eventq # <<>>, eventq' = Tail(eventq)
    PROVE  \A f \in Fds : AddQueued(f) =>
              AddQueued(f)' \/ (Head(eventq).ev = "add" /\ Head(eventq).fd = f)
<1>1. /\ Len(eventq') = Len(eventq) - 1 /\ Head(eventq) = eventq[1]
      /\ \A p \in 1 .. Len(eventq') : eventq'[p] = eventq[p + 1]
  BY HeadTailProperties DEF EventsOK
<1>2. Len(eventq) \in Nat \ {0}
  BY EmptySeq DEF EventsOK
<1>. SUFFICES ASSUME NEW f \in Fds, AddQueued(f)
              PROVE  AddQueued(f)' \/ (Head(eventq).ev = "add" /\ Head(eventq).fd = f)
  OBVIOUS
<1>3. PICK p \in 1 .. Len(eventq) : eventq[p].ev = "add" /\ eventq[p].fd = f
  BY DEF AddQueued
<1>4. CASE p = 1
  BY <1>1, <1>3, <1>4
<1>5. CASE p # 1
  <2>1. p - 1 \in 1 .. Len(eventq') /\ eventq'[p - 1] = eventq[p]
    BY <1>1, <1>2, <1>5
  <2>. QED  BY <1>3, <2>1 DEF AddQueued
<1>. QED  BY <1>4, <1>5

LEMMA InitSocks == Init => SockInv
  BY DEF Init, SockInv, MapSocks, BatchInv, OwnedInv, EndsInv, Index

\* closeClient, for a descriptor without another event in the batch.
LEMMA CloseKeepsSocks ==
    ASSUME SockIInv, NEW f \in Fds, NEW before, CloseClient(f, before),
           UNCHANGED <<conns, failed, main>>,
           batch' \subseteq batch, ~misclosed => \A e \in batch' : e.fd # f,
           \A g \in Fds : AddQueued(g) => AddQueued(g)'
    PROVE  SockInv'
<1>. USE DEF SockIInv, LinkIInv, Types
<1>. SUFFICES ASSUME ~misclosed' PROVE (MapSocks /\ BatchInv /\ OwnedInv /\ EndsInv)'
  BY DEF SockInv
<1>1. ~misclosed /\ MapSocks /\ BatchInv /\ OwnedInv /\ EndsInv
  BY DEF CloseClient, CloseFd, SockInv, KernelOK
<1>2. /\ sock' = [sock EXCEPT ![f] = Free] /\ reg' = [reg EXCEPT ![f] = Free]
      /\ map' = [map EXCEPT ![f] = Free]
  BY DEF CloseClient, CloseFd, ConnsOK
<1>3. MapSocks'
  BY <1>1, <1>2 DEF MapSocks, KernelOK, ConnsOK
<1>4. BatchInv'
  <2>1. ASSUME NEW e \in batch' PROVE map'[e.fd] = e.conn
    <3>1. e \in batch /\ e.fd # f /\ e.fd \in Fds
      BY <1>1, <2>1 DEF LoopOK
    <3>. QED  BY <1>1, <1>2, <3>1 DEF BatchInv, ConnsOK
  <2>. QED  BY <2>1 DEF BatchInv
<1>5. OwnedInv'
  <2>1. ASSUME NEW g \in Fds, sock'[g] # Free PROVE Owned(g)' \/ Coming(g)'
    <3>1. /\ g # f /\ sock'[g] = sock[g] /\ reg'[g] = reg[g] /\ map'[g] = map[g]
      BY <1>2, <2>1 DEF KernelOK, ConnsOK
    <3>. QED  BY <1>1, <2>1, <3>1 DEF OwnedInv, Owned, Coming
  <2>. QED  BY <2>1 DEF OwnedInv
<1>6. EndsInv'
  <2>1. Index' = Index
    BY DEF Index
  <2>2. CASE map[f] = Free
    <3>1. told' = told /\ map' = map
      BY <2>2 DEF CloseClient
    <3>. QED  BY <1>1, <2>1, <3>1 DEF EndsInv, EndTold
  <2>3. CASE map[f] # Free
    <3>1. map[f] \in 1 .. Index /\ Collect("disconnected", map[f])
      <4>1. Collect("disconnected", map[f])
        BY <2>3 DEF CloseClient
      <4>2. map[f] \in 1 .. Index
        BY <2>3 DEF ConnsOK
      <4>. QED  BY <4>1, <4>2
    <3>2. told' = [told EXCEPT ![map[f]] = Append(told[map[f]], "disconnected")]
      BY <3>1 DEF Collect
    <3>3. ASSUME NEW c \in 1 .. Index
          PROVE  map'[conns[c].fd] = c \/ EndTold(c)' \/ c \in failed
      <4>1. told[c] \in Seq(Kind)
        BY ElementOfSeq DEF ConnsOK
      <4>2. CASE c = map[f]
        <5>1. told'[c] = Append(told[c], "disconnected")
          BY <3>1, <3>2, <4>2 DEF ConnsOK
        <5>2. /\ Len(told'[c]) = Len(told[c]) + 1 /\ Len(told[c]) \in Nat
              /\ told'[c][Len(told[c]) + 1] = "disconnected"
          BY <4>1, <5>1, AppendProperties DEF Kind
        <5>3. Len(told[c]) + 1 \in 1 .. Len(told'[c])
          BY <5>2
        <5>. QED  BY <5>2, <5>3 DEF EndTold
      <4>3. CASE c # map[f]
        <5>1. told'[c] = told[c]
          BY <3>1, <3>2, <4>3 DEF ConnsOK
        <5>2. conns[c].fd \in Fds
          <6>1. conns[c] \in [fd : Fds, type : Type]
            BY ElementOfSeq DEF ConnsOK, Index
          <6>. QED  BY <6>1
        <5>3. map[conns[c].fd] = c => map'[conns[c].fd] = c
          BY <1>2, <4>3, <5>2 DEF ConnsOK
        <5>. QED  BY <1>1, <5>1, <5>3 DEF EndsInv, EndTold
      <4>. QED  BY <4>2, <4>3
    <3>. QED  BY <2>1, <3>3 DEF EndsInv
  <2>. QED  BY <2>2, <2>3
<1>. QED  BY <1>3, <1>4, <1>5, <1>6

\* The main thread, or a failed ADD_CLIENT, closes a descriptor that is in
\* nobody else's hands.
LEMMA DropKeepsSocks ==
    ASSUME SockIInv, NEW f \in Fds, CloseFd(f, Main), UNCHANGED <<map, batch>>,
           \A g \in Fds \ {f} : Coming(g) => Coming(g)',
           EndsInv => EndsInv'
    PROVE  SockInv'
<1>. USE DEF SockIInv, LinkIInv, Types
<1>. SUFFICES ASSUME ~misclosed' PROVE (MapSocks /\ BatchInv /\ OwnedInv /\ EndsInv)'
  BY DEF SockInv
<1>1. ~misclosed /\ sock[f] \in {Free, Main} /\ MapSocks /\ BatchInv /\ OwnedInv /\ EndsInv
  BY DEF CloseFd, SockInv, KernelOK
<1>2. sock' = [sock EXCEPT ![f] = Free] /\ reg' = [reg EXCEPT ![f] = Free]
  BY DEF CloseFd
<1>3. map[f] = Free
  <2>1. map[f] # Free => sock[f] = map[f] /\ map[f] \in 1 .. Index
    BY <1>1 DEF MapSocks, ConnsOK
  <2>. QED  BY <1>1, <2>1
<1>4. MapSocks' /\ BatchInv'
  BY <1>1, <1>2, <1>3 DEF MapSocks, BatchInv, KernelOK
<1>5. ASSUME NEW g \in Fds, sock'[g] # Free PROVE Owned(g)' \/ Coming(g)'
  <2>1. g # f /\ sock'[g] = sock[g] /\ reg'[g] = reg[g]
    BY <1>2, <1>5 DEF KernelOK
  <2>. QED  BY <1>1, <1>5, <2>1 DEF OwnedInv, Owned
<1>. QED  BY <1>1, <1>4, <1>5 DEF OwnedInv

\* A connection is registered and enters the map; before, its descriptor was
\* free or came from the main thread.
LEMMA AddKeepsSocks ==
    ASSUME SockIInv, NEW f \in Fds, NEW type \in Type, Index < MaxConns,
           NewConn(f, type), AddToEpoll(f), UNCHANGED <<failed, misclosed, batch, main>>,
           sock[f] = Free \/ reg[f] = Free,
           \A g \in Fds \ {f} : AddQueued(g) => AddQueued(g)',
           UNCHANGED <<recvq, hand>>
    PROVE  SockInv'
<1>. USE DEF SockIInv, LinkIInv, Types
<1>. SUFFICES ASSUME ~misclosed' PROVE (MapSocks /\ BatchInv /\ OwnedInv /\ EndsInv)'
  BY DEF SockInv
<1>1. ~misclosed /\ MapSocks /\ BatchInv /\ OwnedInv /\ EndsInv
  BY DEF SockInv
<1>2. /\ Index' = Index + 1
      /\ conns'[Index + 1] = [fd |-> f, type |-> type]
      /\ \A c \in 1 .. Index : conns'[c] = conns[c]
      /\ \A c \in 1 .. Index : told'[c] = told[c]
  BY NewConnType
<1>3. /\ sock' = [sock EXCEPT ![f] = Index + 1]
      /\ reg' = [reg EXCEPT ![f] = Index + 1]
      /\ map' = [map EXCEPT ![f] = Index + 1]
      /\ Index \in Nat
  BY DEF AddToEpoll, ConnsOK
<1>4. map[f] = Free
  <2>1. map[f] # Free => sock[f] = map[f] /\ map[f] \in 1 .. Index
    BY <1>1 DEF MapSocks, ConnsOK
  <2>2. sock[f] # Free => sock[f] = reg[f] \/ sock[f] = Main
    BY <1>1 DEF OwnedInv, Owned, Coming
  <2>. QED  BY <2>1, <2>2
<1>5. MapSocks'
  BY <1>1, <1>3 DEF MapSocks, KernelOK, ConnsOK
<1>6. BatchInv'
  <2>1. ASSUME NEW e \in batch PROVE map'[e.fd] = e.conn
    <3>1. e.fd \in Fds /\ e.conn \in Conn /\ map[e.fd] = e.conn
      BY <1>1 DEF LoopOK, BatchInv
    <3>2. e.fd # f
      BY <1>4, <3>1
    <3>. QED  BY <1>3, <3>1, <3>2 DEF ConnsOK
  <2>. QED  BY <2>1 DEF BatchInv
<1>7. OwnedInv'
  <2>1. ASSUME NEW g \in Fds, sock'[g] # Free PROVE Owned(g)' \/ Coming(g)'
    <3>1. CASE g = f
      <4>1. sock'[g] = Index + 1 /\ reg'[g] = Index + 1 /\ map'[g] = Index + 1
        BY <1>3, <3>1 DEF KernelOK, ConnsOK
      <4>. QED  BY <4>1 DEF Owned
    <3>2. CASE g # f
      <4>1. sock'[g] = sock[g] /\ reg'[g] = reg[g] /\ map'[g] = map[g]
        BY <1>3, <3>2 DEF KernelOK, ConnsOK
      <4>. QED  BY <1>1, <2>1, <3>2, <4>1 DEF OwnedInv, Owned, Coming
    <3>. QED  BY <3>1, <3>2
  <2>. QED  BY <2>1 DEF OwnedInv
<1>8. EndsInv'
  <2>1. ASSUME NEW c \in 1 .. Index' PROVE map'[conns'[c].fd] = c \/ EndTold(c)' \/ c \in failed
    <3>1. CASE c = Index + 1
      BY <1>2, <1>3, <3>1 DEF ConnsOK
    <3>2. CASE c \in 1 .. Index
      <4>1. conns'[c] = conns[c] /\ told'[c] = told[c]
        BY <1>2, <3>2
      <4>2. conns[c].fd \in Fds
        <5>1. conns[c] \in [fd : Fds, type : Type]
          BY <3>2, ElementOfSeq DEF ConnsOK, Index
        <5>. QED  BY <5>1
      <4>3. map[conns[c].fd] = c => map'[conns[c].fd] = c
        BY <1>3, <1>4, <3>2, <4>2 DEF ConnsOK
      <4>. QED  BY <1>1, <3>2, <4>1, <4>3 DEF EndsInv, EndTold
    <3>. QED  BY <1>2, <1>3, <3>1, <3>2
  <2>. QED  BY <2>1 DEF EndsInv
<1>. QED  BY <1>5, <1>6, <1>7, <1>8

\* A connection that begins and is refused is recorded as failed.
LEMMA RefusedKeepsEnds ==
    ASSUME LinkIInv, EndsInv, NEW f \in Fds, NEW type \in Type, Index < MaxConns,
           NewConn(f, type), failed' = failed \cup {Index + 1},
           UNCHANGED <<map, recvq, hand>>
    PROVE  EndsInv'
<1>. USE DEF LinkIInv, Types
<1>1. /\ Index' = Index + 1
      /\ \A c \in 1 .. Index : conns'[c] = conns[c]
      /\ \A c \in 1 .. Index : told'[c] = told[c]
  BY NewConnType
<1>2. Index \in Nat
  BY DEF ConnsOK
<1>3. ASSUME NEW c \in 1 .. Index'
      PROVE  map'[conns'[c].fd] = c \/ EndTold(c)' \/ c \in failed'
  <2>1. CASE c = Index + 1
    BY <2>1
  <2>2. CASE c \in 1 .. Index
    <3>1. conns'[c] = conns[c] /\ told'[c] = told[c]
      BY <1>1, <2>2
    <3>. QED  BY <2>2, <3>1 DEF EndsInv, EndTold
  <2>. QED  BY <1>1, <1>2, <2>1, <2>2
<1>. QED  BY <1>3 DEF EndsInv

\* Sockets, when the table, the map and the histories stay as they are.
LEMMA SocksFrame ==
    ASSUME SockInv, UNCHANGED <<kernel, map, misclosed>>, BatchInv => BatchInv',
           \A f \in Fds : Coming(f) => Coming(f)', EndsInv => EndsInv'
    PROVE  SockInv'
  BY DEF SockInv, MapSocks, OwnedInv, Owned, kernel

LEMMA MainKeepsSocks ==
    ASSUME SockIInv, MainThread
    PROVE  SockInv'
<1>. USE DEF SockIInv, LinkIInv, Types
<1>1. /\ UNCHANGED <<map, conns, told, failed, loop>>
      /\ (EndsInv => EndsInv') /\ (BatchInv => BatchInv')
  BY DEF MainThread, CheckKey, OpenSocket, NoSocket, ConnectFails, Connected,
         EnqueueAdd, EnqueueFails, queues, loop, EndsInv, EndTold, Index, BatchInv
<1>2. CASE CheckKey \/ NoSocket
  <2>1. main.fd = None /\ UNCHANGED <<kernel, misclosed, eventq>>
    BY <1>2 DEF CheckKey, NoSocket, MainOK
  <2>2. \A f \in Fds : Coming(f) => Coming(f)'
    BY <2>1 DEF Coming, AddQueued, kernel
  <2>. QED  BY <1>1, <2>1, <2>2, SocksFrame
<1>3. ASSUME NEW f \in Fds, OpenSocket(f) PROVE SockInv'
  <2>1. /\ sock[f] = Free /\ sock' = [sock EXCEPT ![f] = Main]
        /\ main.fd = None /\ main' = [pc |-> "connect", fd |-> f]
        /\ UNCHANGED <<reg, misclosed, eventq>>
    BY <1>3 DEF OpenSocket, MainOK
  <2>. SUFFICES ASSUME ~misclosed' PROVE (MapSocks /\ BatchInv /\ OwnedInv /\ EndsInv)'
    BY DEF SockInv
  <2>2. MapSocks /\ BatchInv /\ OwnedInv /\ EndsInv
    BY <2>1 DEF SockInv
  <2>3. MapSocks'
    BY <1>1, <2>1, <2>2 DEF MapSocks, KernelOK
  <2>4. ASSUME NEW g \in Fds, sock'[g] # Free PROVE Owned(g)' \/ Coming(g)'
    <3>1. CASE g = f
      BY <2>1, <3>1 DEF Coming, KernelOK
    <3>2. CASE g # f
      BY <1>1, <2>1, <2>2, <2>4, <3>2 DEF OwnedInv, Owned, Coming, AddQueued, KernelOK
    <3>. QED  BY <3>1, <3>2
  <2>. QED  BY <1>1, <2>2, <2>3, <2>4 DEF OwnedInv
<1>4. CASE ConnectFails \/ EnqueueFails
  <2>1. CloseFd(main.fd, Main) /\ main.fd \in Fds /\ UNCHANGED <<map, eventq>>
    BY <1>4 DEF ConnectFails, EnqueueFails, MainOK
  <2>2. \A g \in Fds \ {main.fd} : Coming(g) => Coming(g)'
    BY <2>1 DEF Coming, AddQueued, CloseFd, KernelOK
  <2>. QED  BY <1>1, <2>1, <2>2, DropKeepsSocks DEF loop
<1>5. CASE Connected
  <2>1. main'.fd = main.fd /\ UNCHANGED <<kernel, misclosed, eventq>>
    BY <1>5 DEF Connected, MainOK
  <2>2. \A f \in Fds : Coming(f) => Coming(f)'
    BY <2>1 DEF Coming, AddQueued, kernel
  <2>. QED  BY <1>1, <2>1, <2>2, SocksFrame
<1>6. CASE EnqueueAdd
  <2>1. PICK e : e = [ev |-> "add", fd |-> main.fd, conn |-> 0]
    OBVIOUS
  <2>2. /\ eventq' = Append(eventq, e) /\ main.fd \in Fds
        /\ UNCHANGED <<kernel, misclosed>>
    BY <1>6, <2>1 DEF EnqueueAdd, MainOK
  <2>3. e \in NetEvent /\ e.ev = "add" /\ e.fd = main.fd
    BY <2>1, <2>2 DEF NetEvent
  <2>4. \A f \in Fds : AddQueued(f) \/ f = main.fd => AddQueued(f)'
    BY <2>2, <2>3, QueuedStays
  <2>5. \A f \in Fds : Coming(f) => Coming(f)'
    BY <2>2, <2>4 DEF Coming, kernel
  <2>. QED  BY <1>1, <2>2, <2>5, SocksFrame
<1>. QED  BY <1>2, <1>3, <1>4, <1>5, <1>6 DEF MainThread

LEMMA WorkerKeepsSocks ==
    ASSUME SockIInv, Worker
    PROVE  SockInv'
<1>. USE DEF SockIInv, LinkIInv, Types
<1>1. /\ UNCHANGED <<kernel, map, conns, told, failed, misclosed, loop, main>>
      /\ (EndsInv => EndsInv') /\ (BatchInv => BatchInv')
  BY DEF Worker, TakeMessage, MessageDone, MessageRejected, queues, loop, EndsInv,
         EndTold, Index, BatchInv
<1>2. \A f \in Fds : AddQueued(f) => AddQueued(f)'
  <2>1. CASE eventq' = eventq
    BY <2>1 DEF AddQueued
  <2>2. CASE eventq' # eventq
    <3>1. PICK e : e = [ev |-> "close", conn |-> hand.conn, fd |-> conns[hand.conn].fd]
      OBVIOUS
    <3>2. eventq' = Append(eventq, e) /\ hand # None
      BY <2>2, <3>1 DEF Worker, TakeMessage, MessageDone, MessageRejected
    <3>3. hand.conn \in 1 .. Index
      BY <3>2 DEF WayOK, WayKnown, Message, ConnsOK
    <3>4. conns[hand.conn] \in [fd : Fds, type : Type]
      BY <3>3, ElementOfSeq DEF ConnsOK, Index
    <3>5. e \in NetEvent
      BY <3>1, <3>3, <3>4 DEF NetEvent, ConnsOK
    <3>. QED  BY <3>2, <3>5, QueuedStays
  <2>. QED  BY <2>1, <2>2
<1>3. \A f \in Fds : Coming(f) => Coming(f)'
  BY <1>1, <1>2 DEF Coming, kernel
<1>. QED  BY <1>1, <1>3, SocksFrame

LEMMA ClosingKeepsSocks ==
    ASSUME SockIInv,
           (\E e \in batch : RecvEnds(e)) \/ SysClose
              \/ \E f \in Fds : KeepaliveClose(f)
    PROVE  SockInv'
<1>. USE DEF SockIInv, LinkIInv, Types
<1>1. UNCHANGED <<conns, failed, main>>
  BY DEF RecvEnds, SysClose, KeepaliveClose
<1>2. ASSUME NEW e \in batch, RecvEnds(e) PROVE SockInv'
  <2>1. /\ CloseClient(e.fd, e.conn) /\ batch' = batch \ {e} /\ eventq' = eventq
    BY <1>2 DEF RecvEnds
  <2>2. e.fd \in Fds
    BY DEF LoopOK
  <2>3. ASSUME ~misclosed, NEW d \in batch' PROVE d.fd # e.fd
    <3>1. d \in batch /\ d # e /\ map[d.fd] = d.conn /\ map[e.fd] = e.conn
      BY <2>1, <2>3 DEF SockInv, BatchInv
    <3>2. d \in [fd : Fds, conn : Conn] /\ e \in [fd : Fds, conn : Conn]
      BY <3>1 DEF LoopOK
    <3>. QED  BY <3>1, <3>2
  <2>4. \A g \in Fds : AddQueued(g) => AddQueued(g)'
    BY <2>1 DEF AddQueued
  <2>. QED  BY <1>1, <2>1, <2>2, <2>3, <2>4, CloseKeepsSocks
<1>3. CASE SysClose
  <2>1. /\ eventq # <<>> /\ Head(eventq).ev = "close" /\ eventq' = Tail(eventq)
        /\ CloseClient(Head(eventq).fd, Head(eventq).conn)
        /\ batch' = batch /\ batch = {}
    BY <1>3 DEF SysClose, NextEvent, loop, LoopOK
  <2>2. \A g \in Fds : AddQueued(g) => AddQueued(g)'
    BY <2>1, QueuedTaken
  <2>3. Head(eventq).fd \in Fds
    BY <2>1, EventTaken DEF NetEvent
  <2>. QED  BY <1>1, <2>1, <2>2, <2>3, CloseKeepsSocks
<1>4. ASSUME NEW f \in Fds, KeepaliveClose(f) PROVE SockInv'
  <2>1. /\ CloseClient(f, map[f]) /\ eventq' = eventq /\ batch' = batch /\ batch = {}
    BY <1>4 DEF KeepaliveClose, loop, LoopOK
  <2>2. \A g \in Fds : AddQueued(g) => AddQueued(g)'
    BY <2>1 DEF AddQueued
  <2>. QED  BY <1>1, <2>1, <2>2, CloseKeepsSocks
<1>. QED  BY <1>2, <1>3, <1>4

LEMMA BeginKeepsSocks ==
    ASSUME SockIInv,
           (\E f \in Fds : Accept(f) \/ AcceptFails(f)) \/ SysAdd \/ SysAddFails
    PROVE  SockInv'
<1>. USE DEF SockIInv, LinkIInv, Types
<1>1. Underway \in Nat /\ Index \in Nat /\ {"client", "server"} = Type
  BY UnderwayCounts DEF ConnsOK, Type
<1>2. ASSUME NEW f \in Fds, Accept(f) PROVE SockInv'
  <2>1. /\ sock[f] = Free /\ Index + Underway < MaxConns
        /\ NewConn(f, "client") /\ AddToEpoll(f)
        /\ UNCHANGED <<eventq, recvq, main, hand, batch, misclosed, failed>>
    BY <1>2 DEF Accept, loop
  <2>2. Index < MaxConns /\ \A g \in Fds : AddQueued(g) => AddQueued(g)'
    BY <1>1, <2>1 DEF AddQueued
  <2>. QED  BY <1>1, <2>1, <2>2, AddKeepsSocks
<1>3. ASSUME NEW f \in Fds, AcceptFails(f) PROVE SockInv'
  <2>1. /\ Index + Underway < MaxConns /\ NewConn(f, "client")
        /\ failed' = failed \cup {Index + 1}
        /\ UNCHANGED <<kernel, map, eventq, recvq, main, hand, batch, misclosed>>
    BY <1>3 DEF AcceptFails, loop
  <2>2. EndsInv => EndsInv'
    BY <1>1, <2>1, RefusedKeepsEnds
  <2>3. (BatchInv => BatchInv') /\ \A g \in Fds : Coming(g) => Coming(g)'
    BY <2>1 DEF BatchInv, Coming, AddQueued, kernel
  <2>. QED  BY <2>1, <2>2, <2>3, SocksFrame
<1>4. SysAdd \/ SysAddFails => Head(eventq).fd \in Fds /\ Index < MaxConns
  <2>. SUFFICES ASSUME SysAdd \/ SysAddFails
                PROVE  Head(eventq).fd \in Fds /\ Index < MaxConns
    OBVIOUS
  <2>1. eventq # <<>> /\ Head(eventq).ev = "add" /\ eventq' = Tail(eventq)
    BY DEF SysAdd, SysAddFails, NextEvent
  <2>. QED  BY <2>1, EventTaken DEF NetEvent, RoomInv
<1>5. CASE SysAdd
  <2>1. PICK f \in Fds : f = Head(eventq).fd
    BY <1>4, <1>5
  <2>2. /\ NewConn(f, "server") /\ AddToEpoll(f) /\ reg[f] = Free
        /\ eventq # <<>> /\ eventq' = Tail(eventq)
        /\ UNCHANGED <<recvq, main, hand, batch, misclosed, failed>>
    BY <1>5, <2>1 DEF SysAdd, NextEvent, CanRegister, loop
  <2>3. \A g \in Fds \ {f} : AddQueued(g) => AddQueued(g)'
    BY <2>1, <2>2, QueuedTaken
  <2>. QED  BY <1>1, <1>4, <1>5, <2>2, <2>3, AddKeepsSocks
<1>6. CASE SysAddFails
  <2>1. PICK f \in Fds : f = Head(eventq).fd
    BY <1>4, <1>6
  <2>2. /\ NewConn(f, "server") /\ CloseFd(f, Main)
        /\ eventq # <<>> /\ eventq' = Tail(eventq)
        /\ failed' = failed \cup {Index + 1}
        /\ UNCHANGED <<map, recvq, main, hand, batch>>
    BY <1>6, <2>1 DEF SysAddFails, NextEvent, loop
  <2>3. \A g \in Fds \ {f} : AddQueued(g) => AddQueued(g)'
    BY <2>1, <2>2, QueuedTaken
  <2>4. \A g \in Fds \ {f} : Coming(g) => Coming(g)'
    BY <2>2, <2>3 DEF Coming, CloseFd, KernelOK
  <2>5. EndsInv => EndsInv'
    BY <1>1, <1>4, <1>6, <2>2, RefusedKeepsEnds
  <2>. QED  BY <2>2, <2>4, <2>5, DropKeepsSocks
<1>. QED  BY <1>2, <1>3, <1>5, <1>6

LEMMA LoopKeepsSocks ==
    ASSUME SockIInv,
           \/ EpollWait \/ EndBatch \/ FlushRecv \/ EndEvents \/ EndLoop
           \/ \E e \in batch : RecvData(e)
    PROVE  SockInv'
<1>. USE DEF SockIInv, LinkIInv, Types
<1>1. /\ UNCHANGED <<kernel, map, conns, failed, misclosed, main, eventq>>
      /\ \A f \in Fds : Coming(f) => Coming(f)'
  BY DEF EpollWait, EndBatch, FlushRecv, EndEvents, EndLoop, RecvData, kernel,
         Coming, AddQueued
<1>2. CASE EpollWait
  <2>1. PICK ready \in SUBSET {f \in Fds : reg[f] # Free} :
           batch' = {[fd |-> f, conn |-> reg[f]] : f \in ready}
    BY <1>2 DEF EpollWait
  <2>2. BatchInv'
    BY <1>1, <2>1 DEF BatchInv, MapInv
  <2>3. EndsInv => EndsInv'
    BY <1>1, <1>2 DEF EpollWait, queues, EndsInv, EndTold, Index
  <2>. QED  BY <1>1, <2>2, <2>3, SocksFrame
<1>3. CASE EndBatch \/ FlushRecv \/ EndEvents \/ EndLoop
  <2>1. told' = told /\ batch' = batch
    BY <1>3 DEF EndBatch, FlushRecv, EndEvents, EndLoop, queues
  <2>2. (BatchInv => BatchInv') /\ (EndsInv => EndsInv')
    BY <1>1, <2>1 DEF BatchInv, EndsInv, EndTold, Index
  <2>. QED  BY <1>1, <2>2, SocksFrame
<1>4. ASSUME NEW e \in batch, RecvData(e) PROVE SockInv'
  <2>1. /\ batch' = batch \ {e} /\ map[e.fd] = e.conn /\ e.conn # Free
        /\ Collect("data", e.conn) /\ UNCHANGED <<recvq, hand>>
    BY <1>4 DEF RecvData, FoundKey
  <2>2. e.conn \in 1 .. Index
    BY <2>1 DEF LoopOK, ConnsOK
  <2>3. \A d \in 1 .. Index : told'[d] = IF d = e.conn THEN Append(told[d], "data")
                                                        ELSE told[d]
    BY <1>1, <2>1, <2>2, CollectType DEF Kind
  <2>4. ASSUME NEW d \in 1 .. Index, EndTold(d) PROVE EndTold(d)'
    <3>1. told[d] \in Seq(Kind) /\ "data" \in Kind
      BY ElementOfSeq DEF ConnsOK, Kind
    <3>2. /\ Len(Append(told[d], "data")) = Len(told[d]) + 1 /\ Len(told[d]) \in Nat
          /\ \A p \in 1 .. Len(told[d]) : Append(told[d], "data")[p] = told[d][p]
      BY <3>1, AppendProperties
    <3>3. PICK p \in 1 .. Len(told[d]) : told[d][p] = "disconnected"
      BY <2>4 DEF EndTold
    <3>4. p \in 1 .. Len(told'[d]) /\ told'[d][p] = told[d][p]
      <4>1. CASE d = e.conn
        <5>1. told'[d] = Append(told[d], "data")
          BY <2>3, <4>1
        <5>. QED  BY <3>2, <3>3, <5>1
      <4>2. CASE d # e.conn
        BY <2>3, <3>3, <4>2
      <4>. QED  BY <4>1, <4>2
    <3>. QED  BY <3>3, <3>4 DEF EndTold
  <2>5. EndsInv => EndsInv'
    BY <1>1, <2>4 DEF EndsInv, Index
  <2>6. BatchInv => BatchInv'
    BY <1>1, <2>1 DEF BatchInv
  <2>. QED  BY <1>1, <2>5, <2>6, SocksFrame
<1>. QED  BY <1>2, <1>3, <1>4

\* The steps of the loop, sorted as the lemmas want them.
LEMMA EpollSteps ==
    EpollThread =>
        \/ (\E e \in batch : RecvEnds(e)) \/ SysClose
           \/ \E f \in Fds : KeepaliveClose(f)
        \/ (\E f \in Fds : Accept(f) \/ AcceptFails(f)) \/ SysAdd \/ SysAddFails
        \/ EpollWait \/ EndBatch \/ FlushRecv \/ EndEvents \/ EndLoop
           \/ \E e \in batch : RecvData(e)
  BY DEF EpollThread, EpollStep

LEMMA StepKeepsSocks == SockIInv /\ [Next]_vars => SockInv'
<1>. SUFFICES ASSUME SockIInv, [Next]_vars PROVE SockInv'
  OBVIOUS
<1>1. CASE MainThread
  BY <1>1, MainKeepsSocks
<1>2. CASE Worker
  BY <1>2, WorkerKeepsSocks
<1>3. CASE EpollThread
  BY <1>3, EpollSteps, ClosingKeepsSocks, BeginKeepsSocks, LoopKeepsSocks
<1>4. CASE UNCHANGED vars
  <2>1. (BatchInv => BatchInv') /\ (EndsInv => EndsInv')
        /\ \A f \in Fds : Coming(f) => Coming(f)'
    BY <1>4 DEF vars, loop, queues, kernel, BatchInv, EndsInv, EndTold, Index,
                Coming, AddQueued
  <2>. QED  BY <1>4, <2>1, SocksFrame DEF vars, SockIInv
<1>. QED  BY <1>1, <1>2, <1>3, <1>4 DEF Next

\* As long as no close() hit a foreign socket, the map, epoll and the kernel
\* agree about every descriptor.
THEOREM SockInvCorrect == Spec => []SockInv
<1>1. Init => SockIInv
  BY InitLink, InitSocks DEF SockIInv
<1>2. SockIInv /\ [Next]_vars => SockIInv'
  BY StepKeepsLink, StepKeepsSocks DEF SockIInv
<1>3. SockIInv => SockInv
  BY DEF SockIInv
<1>. QED  BY <1>1, <1>2, <1>3, PTL DEF Spec

\* The loop never follows a SOCKET_KEY that was deleted, for every value of the
\* constants: what epoll knows, and what is left of a batch, is in the map.
THEOREM KeysAliveCorrect == Spec => []KeysAlive
<1>1. LinkIInv /\ SockInv => KeysAlive
  BY DEF LinkIInv, MapInv, SockInv, BatchInv, KeysAlive
<1>. QED  BY <1>1, LinkIInvCorrect, SockInvCorrect, PTL

\* No open descriptor is leaked, whatever fails, for every value of the
\* constants.
THEOREM NoLeakCorrect == Spec => []NoLeak
<1>1. SockInv => NoLeak
  BY DEF SockInv, OwnedInv, Owned, Coming, NoLeak
<1>. QED  BY <1>1, SockInvCorrect, PTL

\* For every connection that left the map a "disconnected" was collected for the
\* workers unless it was refused, for every value of the constants.
THEOREM EndIsToldCorrect == Spec => []EndIsTold
<1>1. SockInv => EndIsTold
  BY DEF SockInv, EndsInv, EndTold, EndIsTold
<1>. QED  BY <1>1, SockInvCorrect, PTL

-----------------------------------------------------------------------------
(* What a worker hears of a connection.                                    *)

\* Of a connection the first message is connected, and only the first; the last
\* is disconnected, and then the connection has left the map.
ToldInv ==
    \A c \in 1 .. Index :
        /\ Len(told[c]) > 0
        /\ \A p \in 1 .. Len(told[c]) :
              /\ told[c][p] = "connected" => p = 1
              /\ told[c][p] = "disconnected" =>
                    p = Len(told[c]) /\ map[conns[c].fd] # c

\* What is on its way was told.
WayTold ==
    \A p \in 1 .. Len(OnTheWay) :
        OnTheWay[p].kind = "disconnected" => EndTold(OnTheWay[p].conn)

WayOrder ==
    \A p, q \in 1 .. Len(OnTheWay) :
        (p < q /\ OnTheWay[p].conn = OnTheWay[q].conn) =>
            InOrder(OnTheWay[p].kind, OnTheWay[q].kind)

TalkInv == ToldInv /\ WayTold /\ WayOrder
TalkIInv == LinkIInv /\ TalkInv

\* The message in the worker's hands is the first on the way.
Way(h, q, t) == (IF h = None THEN <<>> ELSE <<h>>) \o q \o t
InHand(h) == IF h = None THEN 0 ELSE 1

\* Where the messages of the way are; the place p of the way; a way one longer.
WayLaid(h, q, t) ==
    /\ Way(h, q, t) \in Seq(Message)
    /\ Len(Way(h, q, t)) = InHand(h) + Len(q) + Len(t)
    /\ h # None => Way(h, q, t)[1] = h
    /\ \A i \in 1 .. Len(q) : Way(h, q, t)[i + InHand(h)] = q[i]
    /\ \A i \in 1 .. Len(t) : Way(h, q, t)[i + InHand(h) + Len(q)] = t[i]

WayAt(h, q, t, p) ==
    \/ h # None /\ p = 1
    \/ \E i \in 1 .. Len(q) : p = i + InHand(h)
    \/ \E i \in 1 .. Len(t) : p = i + InHand(h) + Len(q)

WayAppends(h, q, t, m) ==
    /\ Len(Way(h, q, Append(t, m))) = Len(Way(h, q, t)) + 1
    /\ Way(h, q, Append(t, m))[Len(Way(h, q, t)) + 1] = m
    /\ \A p \in 1 .. Len(Way(h, q, t)) : Way(h, q, Append(t, m))[p] = Way(h, q, t)[p]

LEMMA WayIndex ==
    ASSUME NEW h \in Message \cup {None}, NEW q \in Seq(Message), NEW t \in Seq(Message)
    PROVE  WayLaid(h, q, t)
<1>. DEFINE s == IF h = None THEN <<>> ELSE <<h>>
<1>1. /\ s \in Seq(Message) /\ Len(s) = InHand(h) /\ InHand(h) \in Nat
      /\ h # None => InHand(h) = 1 /\ s[1] = h
  BY DEF InHand
<1>2. Len(q) \in Nat /\ Len(t) \in Nat
  OBVIOUS
<1>. HIDE DEF s
<1>3. /\ s \o q \in Seq(Message) /\ Len(s \o q) = InHand(h) + Len(q)
      /\ \A i \in 1 .. InHand(h) + Len(q) :
            (s \o q)[i] = IF i <= InHand(h) THEN s[i] ELSE q[i - InHand(h)]
  <2>1. /\ s \o q \in Seq(Message) /\ Len(s \o q) = Len(s) + Len(q)
        /\ \A i \in 1 .. Len(s) + Len(q) :
              (s \o q)[i] = IF i <= Len(s) THEN s[i] ELSE q[i - Len(s)]
    BY <1>1, ConcatProperties
  <2>. QED  BY <1>1, <2>1
<1>4. /\ (s \o q) \o t \in Seq(Message)
      /\ Len((s \o q) \o t) = InHand(h) + Len(q) + Len(t)
      /\ \A i \in 1 .. InHand(h) + Len(q) + Len(t) : ((s \o q) \o t)[i] =
            IF i <= InHand(h) + Len(q) THEN (s \o q)[i] ELSE t[i - (InHand(h) + Len(q))]
  BY <1>3, ConcatProperties
<1>5. Way(h, q, t) = (s \o q) \o t
  BY DEF Way, s
<1>6. h # None => Way(h, q, t)[1] = h
  BY <1>1, <1>2, <1>3, <1>4, <1>5
<1>7. \A i \in 1 .. Len(q) : Way(h, q, t)[i + InHand(h)] = q[i]
  <2>. SUFFICES ASSUME NEW i \in 1 .. Len(q) PROVE Way(h, q, t)[i + InHand(h)] = q[i]
    OBVIOUS
  <2>1. (s \o q)[i + InHand(h)] = q[i]
    BY <1>1, <1>2, <1>3
  <2>2. /\ i + InHand(h) \in 1 .. InHand(h) + Len(q) + Len(t)
        /\ i + InHand(h) <= InHand(h) + Len(q)
    BY <1>1, <1>2
  <2>3. ((s \o q) \o t)[i + InHand(h)] = (s \o q)[i + InHand(h)]
    BY <1>4, <2>2
  <2>. QED  BY <1>5, <2>1, <2>3
<1>8. ASSUME NEW i \in 1 .. Len(t) PROVE Way(h, q, t)[i + InHand(h) + Len(q)] = t[i]
  <2>1. /\ i + InHand(h) + Len(q) \in 1 .. InHand(h) + Len(q) + Len(t)
        /\ ~ (i + InHand(h) + Len(q) <= InHand(h) + Len(q))
        /\ (i + InHand(h) + Len(q)) - (InHand(h) + Len(q)) = i
    BY <1>1, <1>2
  <2>2. ((s \o q) \o t)[i + InHand(h) + Len(q)]
           = t[(i + InHand(h) + Len(q)) - (InHand(h) + Len(q))]
    BY <1>4, <2>1
  <2>. QED  BY <1>5, <2>1, <2>2
<1>. QED  BY <1>4, <1>5, <1>6, <1>7, <1>8 DEF WayLaid

\* A place on the way: the hand, the receive queue or what was collected.
LEMMA WayPlaces ==
    ASSUME NEW h \in Message \cup {None}, NEW q \in Seq(Message), NEW t \in Seq(Message),
           NEW p \in 1 .. Len(Way(h, q, t))
    PROVE  WayAt(h, q, t, p)
<1>1. Len(Way(h, q, t)) = InHand(h) + Len(q) + Len(t)
  <2>1. WayLaid(h, q, t)
    BY WayIndex
  <2>. QED  BY <2>1 DEF WayLaid
<1>2. Len(q) \in Nat /\ Len(t) \in Nat /\ InHand(h) \in {0, 1} /\ (InHand(h) = 1 => h # None)
  BY DEF InHand
<1>3. CASE p <= InHand(h)
  BY <1>2, <1>3 DEF WayAt
<1>4. CASE p > InHand(h) /\ p <= InHand(h) + Len(q)
  <2>1. p - InHand(h) \in 1 .. Len(q) /\ p = (p - InHand(h)) + InHand(h)
    BY <1>2, <1>4
  <2>. QED  BY <2>1 DEF WayAt
<1>5. CASE p > InHand(h) + Len(q)
  <2>1. /\ p - InHand(h) - Len(q) \in 1 .. Len(t)
        /\ p = (p - InHand(h) - Len(q)) + InHand(h) + Len(q)
    BY <1>1, <1>2, <1>5
  <2>. QED  BY <2>1 DEF WayAt
<1>. QED  BY <1>1, <1>2, <1>3, <1>4, <1>5

LEMMA WayIs ==
    OnTheWay = Way(hand, recvq, recvtmp) /\ OnTheWay' = Way(hand', recvq', recvtmp')
  BY DEF OnTheWay, Way

\* What is on the way is about connections there have been.
LEMMA WayConns ==
    ASSUME WayOK, WayKnown
    PROVE  /\ OnTheWay \in Seq(Message) /\ Len(OnTheWay) \in Nat
           /\ \A p \in 1 .. Len(OnTheWay) : OnTheWay[p].conn <= Index
<1>1. hand \in Message \cup {None} /\ recvq \in Seq(Message) /\ recvtmp \in Seq(Message)
  BY DEF WayOK
<1>2. /\ OnTheWay \in Seq(Message) /\ Len(OnTheWay) \in Nat
      /\ hand # None => OnTheWay[1] = hand
      /\ \A i \in 1 .. Len(recvq) : OnTheWay[i + InHand(hand)] = recvq[i]
      /\ \A i \in 1 .. Len(recvtmp) :
            OnTheWay[i + InHand(hand) + Len(recvq)] = recvtmp[i]
  <2>1. OnTheWay = Way(hand, recvq, recvtmp)
    BY WayIs
  <2>2. Way(hand, recvq, recvtmp) \in Seq(Message)
    <3>1. WayLaid(hand, recvq, recvtmp)
      BY <1>1, WayIndex
    <3>. QED  BY <3>1 DEF WayLaid
  <2>3. Len(Way(hand, recvq, recvtmp)) \in Nat
    BY <2>2
  <2>4. /\ hand # None => Way(hand, recvq, recvtmp)[1] = hand
        /\ \A i \in 1 .. Len(recvq) : Way(hand, recvq, recvtmp)[i + InHand(hand)] = recvq[i]
        /\ \A i \in 1 .. Len(recvtmp) :
              Way(hand, recvq, recvtmp)[i + InHand(hand) + Len(recvq)] = recvtmp[i]
    <3>1. WayLaid(hand, recvq, recvtmp)
      BY <1>1, WayIndex
    <3>. QED  BY <3>1 DEF WayLaid
  <2>. QED  BY <2>1, <2>2, <2>3, <2>4
<1>3. ASSUME NEW p \in 1 .. Len(OnTheWay) PROVE OnTheWay[p].conn <= Index
  <2>1. \/ hand # None /\ p = 1
        \/ \E i \in 1 .. Len(recvq) : p = i + InHand(hand)
        \/ \E i \in 1 .. Len(recvtmp) : p = i + InHand(hand) + Len(recvq)
    <3>1. WayAt(hand, recvq, recvtmp, p)
      BY <1>1, WayIs, WayPlaces
    <3>. QED  BY <3>1 DEF WayAt
  <2>2. CASE hand # None /\ p = 1
    BY <1>2, <2>2 DEF WayKnown
  <2>3. ASSUME NEW i \in 1 .. Len(recvq), p = i + InHand(hand)
        PROVE  OnTheWay[p].conn <= Index
    <3>1. OnTheWay[p] = recvq[i]
      BY <1>2, <2>3
    <3>. QED  BY <3>1 DEF WayKnown
  <2>4. ASSUME NEW i \in 1 .. Len(recvtmp), p = i + InHand(hand) + Len(recvq)
        PROVE  OnTheWay[p].conn <= Index
    <3>1. OnTheWay[p] = recvtmp[i]
      BY <1>2, <2>4
    <3>. QED  BY <3>1 DEF WayKnown
  <2>. QED  BY <2>1, <2>2, <2>3, <2>4
<1>. QED  BY <1>2, <1>3

-----------------------------------------------------------------------------
(* How the messages on the way change.                                     *)

\* A message is collected: it comes last.
LEMMA WayAppended ==
    ASSUME NEW h \in Message \cup {None}, NEW q \in Seq(Message), NEW t \in Seq(Message),
           NEW m \in Message
    PROVE  WayAppends(h, q, t, m)
<1>. DEFINE u == Append(t, m)
<1>1. /\ u \in Seq(Message) /\ Len(u) = Len(t) + 1 /\ u[Len(t) + 1] = m
      /\ \A i \in 1 .. Len(t) : u[i] = t[i]
  BY AppendProperties
<1>2. Len(q) \in Nat /\ Len(t) \in Nat /\ InHand(h) \in {0, 1}
  BY DEF InHand
<1>. HIDE DEF u
<1>3. /\ Len(Way(h, q, u)) = InHand(h) + Len(q) + Len(u)
      /\ h # None => Way(h, q, u)[1] = h
      /\ \A i \in 1 .. Len(q) : Way(h, q, u)[i + InHand(h)] = q[i]
      /\ \A i \in 1 .. Len(u) : Way(h, q, u)[i + InHand(h) + Len(q)] = u[i]
  <2>1. u \in Seq(Message)
    BY <1>1
  <2>2. WayLaid(h, q, u)
    BY <2>1, WayIndex
  <2>. QED  BY <2>2 DEF WayLaid
<1>4. /\ Len(Way(h, q, t)) = InHand(h) + Len(q) + Len(t)
      /\ h # None => Way(h, q, t)[1] = h
      /\ \A i \in 1 .. Len(q) : Way(h, q, t)[i + InHand(h)] = q[i]
      /\ \A i \in 1 .. Len(t) : Way(h, q, t)[i + InHand(h) + Len(q)] = t[i]
  <2>1. WayLaid(h, q, t)
    BY WayIndex
  <2>. QED  BY <2>1 DEF WayLaid
<1>5. ASSUME NEW p \in 1 .. Len(Way(h, q, t)) PROVE Way(h, q, u)[p] = Way(h, q, t)[p]
  <2>1. \/ h # None /\ p = 1
        \/ \E i \in 1 .. Len(q) : p = i + InHand(h)
        \/ \E i \in 1 .. Len(t) : p = i + InHand(h) + Len(q)
    <3>1. WayAt(h, q, t, p)
      BY WayPlaces
    <3>. QED  BY <3>1 DEF WayAt
  <2>2. ASSUME NEW i \in 1 .. Len(t), p = i + InHand(h) + Len(q)
        PROVE  Way(h, q, u)[p] = Way(h, q, t)[p]
    <3>1. i \in 1 .. Len(u) /\ u[i] = t[i]
      BY <1>1, <1>2
    <3>. QED  BY <1>3, <1>4, <2>2, <3>1
  <2>. QED  BY <1>3, <1>4, <2>1, <2>2
<1>6. Way(h, q, u)[Len(Way(h, q, t)) + 1] = m
  <2>1. Len(u) \in 1 .. Len(u)
    BY <1>1, <1>2
  <2>2. Len(Way(h, q, t)) + 1 = Len(u) + InHand(h) + Len(q)
    <3>1. Len(Way(h, q, t)) = InHand(h) + Len(q) + Len(t)
      BY <1>4
    <3>2. Len(u) = Len(t) + 1
      BY <1>1
    <3>3. InHand(h) \in Nat
      BY <1>2
    <3>. QED  BY <1>2, <3>1, <3>2, <3>3
  <2>. QED  BY <1>1, <1>3, <2>1, <2>2
<1>. QED  BY <1>1, <1>2, <1>3, <1>4, <1>5, <1>6 DEF u, WayAppends

\* new is what is left of old when its head is taken off, or nothing, and
\* some of its end is dropped.
PartOf(new, old) ==
    \E k \in {0, 1} :
        /\ Len(new) \in Nat /\ Len(new) + k <= Len(old)
        /\ \A p \in 1 .. Len(new) : new[p] = old[p + k]

\* The worker takes a message: none moves.
LEMMA WayTaken ==
    ASSUME NEW q \in Seq(Message), NEW t \in Seq(Message), q # <<>>
    PROVE  PartOf(Way(Head(q), Tail(q), t), Way(None, q, t))
<1>1. /\ Head(q) \in Message /\ Tail(q) \in Seq(Message)
      /\ Len(Tail(q)) = Len(q) - 1
      /\ \A i \in 1 .. Len(Tail(q)) : Tail(q)[i] = q[i + 1]
  BY HeadTailProperties
<1>2. Len(q) \in Nat \ {0} /\ Len(t) \in Nat /\ Head(q) = q[1]
  BY EmptySeq
<1>3. PICK h \in Message, r \in Seq(Message) : h = Head(q) /\ r = Tail(q)
  BY <1>1
<1>4. h # None /\ InHand(h) = 1 /\ InHand(None) = 0
  BY DEF InHand
<1>5. /\ Len(Way(h, r, t)) = 1 + Len(r) + Len(t)
      /\ Way(h, r, t)[1] = h
      /\ \A i \in 1 .. Len(r) : Way(h, r, t)[i + 1] = r[i]
      /\ \A i \in 1 .. Len(t) : Way(h, r, t)[i + 1 + Len(r)] = t[i]
  <2>1. h \in Message \cup {None}
    OBVIOUS
  <2>2. /\ Len(Way(h, r, t)) = InHand(h) + Len(r) + Len(t)
        /\ h # None => Way(h, r, t)[1] = h
        /\ \A i \in 1 .. Len(r) : Way(h, r, t)[i + InHand(h)] = r[i]
        /\ \A i \in 1 .. Len(t) : Way(h, r, t)[i + InHand(h) + Len(r)] = t[i]
    <3>1. WayLaid(h, r, t)
      BY <2>1, WayIndex
    <3>. QED  BY <3>1 DEF WayLaid
  <2>. QED  BY <1>4, <2>2
<1>6. /\ Len(Way(None, q, t)) = 0 + Len(q) + Len(t)
      /\ \A i \in 1 .. Len(q) : Way(None, q, t)[i + 0] = q[i]
      /\ \A i \in 1 .. Len(t) : Way(None, q, t)[i + 0 + Len(q)] = t[i]
  <2>1. None \in Message \cup {None}
    OBVIOUS
  <2>2. /\ Len(Way(None, q, t)) = InHand(None) + Len(q) + Len(t)
        /\ \A i \in 1 .. Len(q) : Way(None, q, t)[i + InHand(None)] = q[i]
        /\ \A i \in 1 .. Len(t) : Way(None, q, t)[i + InHand(None) + Len(q)] = t[i]
    <3>1. WayLaid(None, q, t)
      BY <2>1, WayIndex
    <3>. QED  BY <3>1 DEF WayLaid
  <2>. QED  BY <1>4, <2>2
<1>7. ASSUME NEW p \in 1 .. Len(Way(h, r, t)) PROVE Way(h, r, t)[p] = Way(None, q, t)[p]
  <2>1. \/ p = 1
        \/ \E i \in 1 .. Len(r) : p = i + 1
        \/ \E i \in 1 .. Len(t) : p = i + 1 + Len(r)
    <3>1. \/ h # None /\ p = 1
          \/ \E i \in 1 .. Len(r) : p = i + InHand(h)
          \/ \E i \in 1 .. Len(t) : p = i + InHand(h) + Len(r)
      <4>1. h \in Message \cup {None}
        OBVIOUS
      <4>2. WayAt(h, r, t, p)
        BY <4>1, WayPlaces
      <4>. QED  BY <4>2 DEF WayAt
    <3>. QED  BY <1>4, <3>1
  <2>2. CASE p = 1
    BY <1>2, <1>3, <1>5, <1>6, <2>2
  <2>3. ASSUME NEW i \in 1 .. Len(r), p = i + 1
        PROVE  Way(h, r, t)[p] = Way(None, q, t)[p]
    <3>1. i + 1 \in 1 .. Len(q) /\ r[i] = q[i + 1]
      BY <1>1, <1>2, <1>3
    <3>2. Way(None, q, t)[(i + 1) + 0] = q[i + 1]
      BY <1>6, <3>1
    <3>. QED  BY <1>5, <2>3, <3>1, <3>2
  <2>4. ASSUME NEW i \in 1 .. Len(t), p = i + 1 + Len(r)
        PROVE  Way(h, r, t)[p] = Way(None, q, t)[p]
    <3>1. p = i + 0 + Len(q)
      BY <1>1, <1>2, <1>3, <2>4
    <3>. QED  BY <1>5, <1>6, <2>4, <3>1
  <2>. QED  BY <2>1, <2>2, <2>3, <2>4
<1>8. Len(Way(h, r, t)) = Len(Way(None, q, t)) /\ Len(Way(h, r, t)) \in Nat
  BY <1>1, <1>2, <1>3, <1>5, <1>6
<1>9. \E k \in {0, 1} : /\ Len(Way(h, r, t)) + k <= Len(Way(None, q, t))
                        /\ \A p \in 1 .. Len(Way(h, r, t)) :
                              Way(h, r, t)[p] = Way(None, q, t)[p + k]
  <2>1. /\ Len(Way(h, r, t)) + 0 <= Len(Way(None, q, t))
        /\ \A p \in 1 .. Len(Way(h, r, t)) : Way(h, r, t)[p] = Way(None, q, t)[p + 0]
    BY <1>7, <1>8
  <2>. QED  BY <2>1
<1>. QED  BY <1>3, <1>8, <1>9 DEF PartOf

\* The worker is done with its message.
LEMMA WayDone ==
    ASSUME NEW h \in Message, NEW q \in Seq(Message), NEW t \in Seq(Message)
    PROVE  PartOf(Way(None, q, t), Way(h, q, t))
<1>1. Len(q) \in Nat /\ Len(t) \in Nat
  OBVIOUS
<1>2. h # None /\ InHand(h) = 1 /\ InHand(None) = 0
  BY DEF InHand
<1>3. /\ Len(Way(h, q, t)) = 1 + Len(q) + Len(t)
      /\ \A i \in 1 .. Len(q) : Way(h, q, t)[i + 1] = q[i]
      /\ \A i \in 1 .. Len(t) : Way(h, q, t)[i + 1 + Len(q)] = t[i]
  <2>1. h \in Message \cup {None}
    OBVIOUS
  <2>2. /\ Len(Way(h, q, t)) = InHand(h) + Len(q) + Len(t)
        /\ \A i \in 1 .. Len(q) : Way(h, q, t)[i + InHand(h)] = q[i]
        /\ \A i \in 1 .. Len(t) : Way(h, q, t)[i + InHand(h) + Len(q)] = t[i]
    <3>1. WayLaid(h, q, t)
      BY <2>1, WayIndex
    <3>. QED  BY <3>1 DEF WayLaid
  <2>. QED  BY <1>2, <2>2
<1>4. /\ Len(Way(None, q, t)) = 0 + Len(q) + Len(t)
      /\ \A i \in 1 .. Len(q) : Way(None, q, t)[i + 0] = q[i]
      /\ \A i \in 1 .. Len(t) : Way(None, q, t)[i + 0 + Len(q)] = t[i]
  <2>1. None \in Message \cup {None}
    OBVIOUS
  <2>2. /\ Len(Way(None, q, t)) = InHand(None) + Len(q) + Len(t)
        /\ \A i \in 1 .. Len(q) : Way(None, q, t)[i + InHand(None)] = q[i]
        /\ \A i \in 1 .. Len(t) : Way(None, q, t)[i + InHand(None) + Len(q)] = t[i]
    <3>1. WayLaid(None, q, t)
      BY <2>1, WayIndex
    <3>. QED  BY <3>1 DEF WayLaid
  <2>. QED  BY <1>2, <2>2
<1>5. ASSUME NEW p \in 1 .. Len(Way(None, q, t))
      PROVE  Way(None, q, t)[p] = Way(h, q, t)[p + 1]
  <2>1. \/ \E i \in 1 .. Len(q) : p = i + 0
        \/ \E i \in 1 .. Len(t) : p = i + 0 + Len(q)
    <3>1. None \in Message \cup {None}
      OBVIOUS
    <3>2. WayAt(None, q, t, p)
      BY <3>1, WayPlaces
    <3>. QED  BY <1>2, <3>2 DEF WayAt
  <2>2. ASSUME NEW i \in 1 .. Len(q), p = i + 0
        PROVE  Way(None, q, t)[p] = Way(h, q, t)[p + 1]
    BY <1>3, <1>4, <2>2
  <2>3. ASSUME NEW i \in 1 .. Len(t), p = i + 0 + Len(q)
        PROVE  Way(None, q, t)[p] = Way(h, q, t)[p + 1]
    <3>1. p + 1 = i + 1 + Len(q)
      BY <1>1, <2>3
    <3>. QED  BY <1>3, <1>4, <2>3, <3>1
  <2>. QED  BY <2>1, <2>2, <2>3
<1>6. Len(Way(None, q, t)) \in Nat /\ Len(Way(None, q, t)) + 1 <= Len(Way(h, q, t))
  BY <1>1, <1>3, <1>4
<1>. QED  BY <1>5, <1>6 DEF PartOf

\* The first n collected messages enter the queue; the others are dropped.
LEMMA WayFlushed ==
    ASSUME NEW h \in Message \cup {None}, NEW q \in Seq(Message), NEW t \in Seq(Message),
           NEW n \in 0 .. Len(t)
    PROVE  PartOf(Way(h, q \o SubSeq(t, 1, n), <<>>), Way(h, q, t))
<1>1. Len(q) \in Nat /\ Len(t) \in Nat /\ InHand(h) \in {0, 1}
  BY DEF InHand
<1>2. PICK s : s = SubSeq(t, 1, n)
  OBVIOUS
<1>3. s \in Seq(Message) /\ Len(s) = n /\ \A i \in 1 .. n : s[i] = t[i]
  <2>1. \A i \in 1 .. n : t[i] \in Message
    BY <1>1, ElementOfSeq
  <2>2. /\ s \in Seq(Message) /\ Len(s) = (IF 1 <= n THEN n - 1 + 1 ELSE 0)
        /\ \A i \in 1 .. n - 1 + 1 : s[i] = t[1 + i - 1]
    BY <1>1, <1>2, <2>1, SubSeqProperties
  <2>. QED  BY <1>1, <2>2
<1>4. PICK r : r = q \o s
  OBVIOUS
<1>5. /\ r \in Seq(Message) /\ Len(r) = Len(q) + n
      /\ \A i \in 1 .. Len(q) + n : r[i] = IF i <= Len(q) THEN q[i] ELSE s[i - Len(q)]
  <2>1. /\ q \o s \in Seq(Message) /\ Len(q \o s) = Len(q) + Len(s)
        /\ \A i \in 1 .. Len(q) + Len(s) :
              (q \o s)[i] = IF i <= Len(q) THEN q[i] ELSE s[i - Len(q)]
    BY <1>3, ConcatProperties
  <2>. QED  BY <1>3, <1>4, <2>1
<1>6. /\ Len(Way(h, r, <<>>)) = InHand(h) + Len(q) + n
      /\ h # None => Way(h, r, <<>>)[1] = h
      /\ \A i \in 1 .. Len(q) + n : Way(h, r, <<>>)[i + InHand(h)] = r[i]
  <2>1. <<>> \in Seq(Message) /\ Len(<<>>) = 0
    BY EmptySeq
  <2>2. /\ Len(Way(h, r, <<>>)) = InHand(h) + Len(r) + Len(<<>>)
        /\ h # None => Way(h, r, <<>>)[1] = h
        /\ \A i \in 1 .. Len(r) : Way(h, r, <<>>)[i + InHand(h)] = r[i]
    <3>1. PICK z \in Seq(Message) : z = <<>>
      BY <2>1
    <3>2. /\ Len(Way(h, r, z)) = InHand(h) + Len(r) + Len(z)
          /\ h # None => Way(h, r, z)[1] = h
          /\ \A i \in 1 .. Len(r) : Way(h, r, z)[i + InHand(h)] = r[i]
      <4>1. WayLaid(h, r, z)
        BY <1>5, <3>1, WayIndex
      <4>. QED  BY <4>1 DEF WayLaid
    <3>. QED  BY <3>1, <3>2
  <2>. QED  BY <1>1, <1>5, <2>1, <2>2
<1>7. /\ Len(Way(h, q, t)) = InHand(h) + Len(q) + Len(t)
      /\ h # None => Way(h, q, t)[1] = h
      /\ \A i \in 1 .. Len(q) : Way(h, q, t)[i + InHand(h)] = q[i]
      /\ \A i \in 1 .. Len(t) : Way(h, q, t)[i + InHand(h) + Len(q)] = t[i]
  <2>1. WayLaid(h, q, t)
    BY WayIndex
  <2>. QED  BY <2>1 DEF WayLaid
<1>8. ASSUME NEW p \in 1 .. Len(Way(h, r, <<>>)) PROVE Way(h, r, <<>>)[p] = Way(h, q, t)[p]
  <2>1. CASE p <= InHand(h)
    BY <1>1, <1>6, <1>7, <2>1 DEF InHand
  <2>2. CASE p > InHand(h) /\ p <= InHand(h) + Len(q)
    <3>1. PICK i \in 1 .. Len(q) : p = i + InHand(h)
      <4>1. p - InHand(h) \in 1 .. Len(q) /\ p = (p - InHand(h)) + InHand(h)
        BY <1>1, <2>2
      <4>. QED  BY <4>1
    <3>2. i \in 1 .. Len(q) + n /\ r[i] = q[i]
      BY <1>1, <1>5
    <3>. QED  BY <1>6, <1>7, <3>1, <3>2
  <2>3. CASE p > InHand(h) + Len(q)
    <3>1. PICK i \in 1 .. n : p = i + InHand(h) + Len(q)
      <4>1. /\ p - InHand(h) - Len(q) \in 1 .. n
            /\ p = (p - InHand(h) - Len(q)) + InHand(h) + Len(q)
        BY <1>1, <1>6, <2>3
      <4>. QED  BY <4>1
    <3>2. i + Len(q) \in 1 .. Len(q) + n /\ r[i + Len(q)] = s[i] /\ s[i] = t[i]
      <4>1. s[i] = t[i]
        BY <1>3
      <4>2. /\ i + Len(q) \in 1 .. Len(q) + n /\ ~ (i + Len(q) <= Len(q))
            /\ (i + Len(q)) - Len(q) = i
        BY <1>1
      <4>3. r[i + Len(q)] = s[(i + Len(q)) - Len(q)]
        BY <1>5, <4>2
      <4>. QED  BY <4>1, <4>2, <4>3
    <3>3. p = (i + Len(q)) + InHand(h) /\ i \in 1 .. Len(t)
      BY <1>1, <3>1
    <3>. QED  BY <1>6, <1>7, <3>1, <3>2, <3>3
  <2>. QED  BY <1>1, <2>1, <2>2, <2>3
<1>9. /\ Len(Way(h, r, <<>>)) \in Nat /\ Len(Way(h, r, <<>>)) + 0 <= Len(Way(h, q, t))
      /\ \A p \in 1 .. Len(Way(h, r, <<>>)) : Way(h, r, <<>>)[p] = Way(h, q, t)[p + 0]
  BY <1>1, <1>6, <1>7, <1>8
<1>. QED  BY <1>2, <1>4, <1>9 DEF PartOf

-----------------------------------------------------------------------------
(* Every step keeps the order of the messages.                             *)

\* Messages are taken, finished or dropped.
LEMMA PartKeepsTalk ==
    ASSUME TalkIInv, PartOf(OnTheWay', OnTheWay), UNCHANGED <<told, map, conns>>
    PROVE  TalkInv'
<1>. USE DEF TalkIInv, TalkInv
<1>1. OnTheWay \in Seq(Message) /\ Len(OnTheWay) \in Nat
  BY WayConns DEF LinkIInv, Types
<1>2. PICK k \in {0, 1} :
         /\ Len(OnTheWay') \in Nat /\ Len(OnTheWay') + k <= Len(OnTheWay)
         /\ \A p \in 1 .. Len(OnTheWay') : OnTheWay'[p] = OnTheWay[p + k]
  BY DEF PartOf
<1>3. \A p \in 1 .. Len(OnTheWay') : p + k \in 1 .. Len(OnTheWay)
  BY <1>1, <1>2
<1>4. ToldInv'
  BY DEF ToldInv, Index
<1>5. WayTold'
  <2>1. ASSUME NEW p \in 1 .. Len(OnTheWay'), OnTheWay'[p].kind = "disconnected"
        PROVE  EndTold(OnTheWay[p].conn)'
    <3>1. OnTheWay'[p] = OnTheWay[p + k] /\ p + k \in 1 .. Len(OnTheWay)
      BY <1>2, <1>3
    <3>2. PICK d : d = OnTheWay[p + k].conn
      OBVIOUS
    <3>3. EndTold(d)
      BY <2>1, <3>1, <3>2 DEF WayTold
    <3>4. EndTold(d)' /\ OnTheWay'[p].conn = d
      BY <3>1, <3>2, <3>3 DEF EndTold
    <3>. QED  BY <3>4 DEF EndTold
  <2>. QED  BY <2>1 DEF WayTold
<1>6. WayOrder'
  <2>1. ASSUME NEW p \in 1 .. Len(OnTheWay'), NEW q \in 1 .. Len(OnTheWay'), p < q,
               OnTheWay'[p].conn = OnTheWay'[q].conn
        PROVE  InOrder(OnTheWay'[p].kind, OnTheWay'[q].kind)
    <3>1. /\ OnTheWay'[p] = OnTheWay[p + k] /\ p + k \in 1 .. Len(OnTheWay)
          /\ OnTheWay'[q] = OnTheWay[q + k] /\ q + k \in 1 .. Len(OnTheWay)
          /\ p + k < q + k
      BY <1>2, <1>3, <2>1
    <3>. QED  BY <2>1, <3>1 DEF WayOrder
  <2>. QED  BY <2>1 DEF WayOrder, InOrder
<1>. QED  BY <1>4, <1>5, <1>6

\* What is on the way after a message was collected.
LEMMA WayGrows ==
    ASSUME WayOK, NEW m \in Message, recvtmp' = Append(recvtmp, m),
           UNCHANGED <<recvq, hand>>
    PROVE  /\ Len(OnTheWay') = Len(OnTheWay) + 1
           /\ OnTheWay'[Len(OnTheWay) + 1] = m
           /\ \A p \in 1 .. Len(OnTheWay) : OnTheWay'[p] = OnTheWay[p]
<1>1. PICK h \in Message \cup {None}, q \in Seq(Message), t \in Seq(Message) :
         h = hand /\ q = recvq /\ t = recvtmp
  BY DEF WayOK
<1>2. OnTheWay = Way(h, q, t)
  BY <1>1, WayIs
<1>3. OnTheWay' = Way(h, q, Append(t, m))
  BY <1>1, WayIs
<1>4. /\ Len(Way(h, q, Append(t, m))) = Len(Way(h, q, t)) + 1
      /\ Way(h, q, Append(t, m))[Len(Way(h, q, t)) + 1] = m
      /\ \A p \in 1 .. Len(Way(h, q, t)) : Way(h, q, Append(t, m))[p] = Way(h, q, t)[p]
  <2>1. WayAppends(h, q, t, m)
    BY WayAppended
  <2>. QED  BY <2>1 DEF WayAppends
<1>. QED  BY <1>2, <1>3, <1>4

\* A message of a connection follows those before it.
LEMMA GrowKeepsOrder ==
    ASSUME WayOK, WayKnown, WayOrder, NEW m \in Message,
           recvtmp' = Append(recvtmp, m), UNCHANGED <<recvq, hand>>,
           \A p \in 1 .. Len(OnTheWay) :
              OnTheWay[p].conn = m.conn => InOrder(OnTheWay[p].kind, m.kind)
    PROVE  WayOrder'
<1>1. Len(OnTheWay) \in Nat
  BY WayConns
<1>2. /\ Len(OnTheWay') = Len(OnTheWay) + 1
      /\ OnTheWay'[Len(OnTheWay) + 1] = m
      /\ \A p \in 1 .. Len(OnTheWay) : OnTheWay'[p] = OnTheWay[p]
  BY WayGrows
<1>3. ASSUME NEW p \in 1 .. Len(OnTheWay'), NEW q \in 1 .. Len(OnTheWay'), p < q,
             OnTheWay'[p].conn = OnTheWay'[q].conn
      PROVE  InOrder(OnTheWay'[p].kind, OnTheWay'[q].kind)
  <2>1. p \in 1 .. Len(OnTheWay) /\ OnTheWay'[p] = OnTheWay[p]
    BY <1>1, <1>2, <1>3
  <2>2. CASE q = Len(OnTheWay) + 1
    BY <1>2, <1>3, <2>1, <2>2
  <2>3. CASE q \in 1 .. Len(OnTheWay)
    BY <1>2, <1>3, <2>1, <2>3 DEF WayOrder
  <2>. QED  BY <1>1, <1>2, <2>2, <2>3
<1>. QED  BY <1>3 DEF WayOrder, InOrder

\* A connection in the map sends data or ends.
LEMMA CollectKeepsTalk ==
    ASSUME TalkIInv, NEW kind \in {"data", "disconnected"}, NEW c \in 1 .. Index,
           Collect(kind, c), UNCHANGED <<conns, recvq, hand>>,
           map[conns[c].fd] = c,
           kind = "disconnected" => map'[conns[c].fd] # c,
           \A d \in 1 .. Index : map[conns[d].fd] # d => map'[conns[d].fd] # d
    PROVE  TalkInv'
<1>. USE DEF TalkIInv, TalkInv, LinkIInv, Types
<1>1. kind \in Kind /\ Index' = Index /\ c \in Conn
  BY DEF Kind, Index, ConnsOK
<1>2. \A d \in 1 .. Index : told'[d] = IF d = c THEN Append(told[d], kind) ELSE told[d]
  BY <1>1, CollectType
<1>3. \A d \in 1 .. Index : told[d] \in Seq(Kind) /\ Len(told[d]) \in Nat
  BY ElementOfSeq DEF ConnsOK
<1>4. /\ Len(told'[c]) = Len(told[c]) + 1 /\ told'[c][Len(told[c]) + 1] = kind
      /\ \A p \in 1 .. Len(told[c]) : told'[c][p] = told[c][p]
  <2>1. /\ Len(Append(told[c], kind)) = Len(told[c]) + 1
        /\ Append(told[c], kind)[Len(told[c]) + 1] = kind
        /\ \A p \in 1 .. Len(told[c]) : Append(told[c], kind)[p] = told[c][p]
    BY <1>1, <1>3, AppendProperties
  <2>. QED  BY <1>2, <2>1
<1>5. ~EndTold(c)
  BY DEF EndTold, ToldInv
<1>6. ToldInv'
  <2>1. ASSUME NEW d \in 1 .. Index
        PROVE  /\ Len(told'[d]) > 0
               /\ \A p \in 1 .. Len(told'[d]) :
                     /\ told'[d][p] = "connected" => p = 1
                     /\ told'[d][p] = "disconnected" =>
                           p = Len(told'[d]) /\ map'[conns[d].fd] # d
    <3>1. CASE d # c
      BY <1>2, <2>1, <3>1 DEF ToldInv
    <3>2. CASE d = c
      <4>1. ASSUME NEW p \in 1 .. Len(told'[c])
            PROVE  /\ told'[c][p] = "connected" => p = 1
                   /\ told'[c][p] = "disconnected" =>
                         p = Len(told'[c]) /\ map'[conns[c].fd] # c
        <5>1. CASE p = Len(told[c]) + 1
          BY <1>4, <5>1
        <5>2. CASE p \in 1 .. Len(told[c])
          <6>1. told'[c][p] = told[c][p] /\ told[c][p] # "disconnected"
            BY <1>4, <1>5, <5>2 DEF EndTold
          <6>2. told[c][p] = "connected" => p = 1
            BY <5>2 DEF ToldInv
          <6>. QED  BY <6>1, <6>2
        <5>. QED  BY <1>3, <1>4, <5>1, <5>2
      <4>. QED  BY <1>3, <1>4, <3>2, <4>1
    <3>. QED  BY <3>1, <3>2
  <2>. QED  BY <1>1, <2>1 DEF ToldInv
<1>7. \A d \in 1 .. Index : EndTold(d) => EndTold(d)'
  BY <1>2, <1>5 DEF EndTold
<1>8. kind = "disconnected" => EndTold(c)'
  <2>1. Len(told[c]) + 1 \in 1 .. Len(told'[c])
    BY <1>3, <1>4
  <2>. QED  BY <1>4, <2>1 DEF EndTold
<1>9. PICK m \in Message : m = [kind |-> kind, conn |-> c]
  BY <1>1 DEF Message
<1>10. recvtmp' = Append(recvtmp, m)
  BY <1>9 DEF Collect
<1>11. /\ OnTheWay \in Seq(Message) /\ Len(OnTheWay) \in Nat
       /\ \A p \in 1 .. Len(OnTheWay) : OnTheWay[p].conn <= Index
  BY WayConns
<1>12. ASSUME NEW p \in 1 .. Len(OnTheWay) PROVE OnTheWay[p].conn \in 1 .. Index
  <2>1. OnTheWay[p] \in Message
    BY <1>11, ElementOfSeq
  <2>2. OnTheWay[p].conn \in Conn /\ OnTheWay[p].conn <= Index
    BY <1>11, <2>1 DEF Message
  <2>. QED  BY <2>2 DEF ConnsOK
<1>13. WayTold'
  <2>1. /\ Len(OnTheWay') = Len(OnTheWay) + 1
        /\ OnTheWay'[Len(OnTheWay) + 1] = m
        /\ \A p \in 1 .. Len(OnTheWay) : OnTheWay'[p] = OnTheWay[p]
    BY <1>10, WayGrows
  <2>2. ASSUME NEW p \in 1 .. Len(OnTheWay'), OnTheWay'[p].kind = "disconnected"
        PROVE  EndTold(OnTheWay[p].conn)'
    <3>1. CASE p = Len(OnTheWay) + 1
      <4>1. OnTheWay'[p].conn = c /\ EndTold(c)'
        BY <1>8, <1>9, <2>1, <2>2, <3>1
      <4>. QED  BY <4>1 DEF EndTold
    <3>2. CASE p \in 1 .. Len(OnTheWay)
      <4>1. PICK d \in 1 .. Index : d = OnTheWay[p].conn
        BY <1>12, <3>2
      <4>2. EndTold(d)'
        BY <1>7, <2>1, <2>2, <3>2, <4>1 DEF WayTold
      <4>3. OnTheWay'[p].conn = d
        BY <2>1, <3>2, <4>1
      <4>. QED  BY <4>2, <4>3 DEF EndTold
    <3>. QED  BY <1>11, <2>1, <3>1, <3>2
  <2>. QED  BY <2>2 DEF WayTold
<1>14. WayOrder'
  <2>1. ASSUME NEW p \in 1 .. Len(OnTheWay), OnTheWay[p].conn = m.conn
        PROVE  InOrder(OnTheWay[p].kind, m.kind)
    BY <1>5, <1>9, <2>1 DEF WayTold, InOrder
  <2>. QED  BY <1>10, <2>1, GrowKeepsOrder
<1>. QED  BY <1>6, <1>13, <1>14

\* A connection begins.
LEMMA NewConnKeepsTalk ==
    ASSUME TalkIInv, NEW f \in Fds, NEW type \in Type, Index < MaxConns,
           NewConn(f, type), UNCHANGED <<recvq, hand>>,
           \A d \in 1 .. Index : map[conns[d].fd] # d => map'[conns[d].fd] # d
    PROVE  TalkInv'
<1>. USE DEF TalkIInv, TalkInv, LinkIInv, Types
<1>1. /\ Index' = Index + 1 /\ Index' \in Conn
      /\ \A c \in 1 .. Index : conns'[c] = conns[c] /\ told'[c] = told[c]
      /\ told'[Index + 1] = <<"connected">>
  BY NewConnType
<1>2. Index \in Nat
  BY DEF ConnsOK
<1>3. ToldInv'
  <2>1. ASSUME NEW c \in 1 .. Index'
        PROVE  /\ Len(told'[c]) > 0
               /\ \A p \in 1 .. Len(told'[c]) :
                     /\ told'[c][p] = "connected" => p = 1
                     /\ told'[c][p] = "disconnected" =>
                           p = Len(told'[c]) /\ map'[conns'[c].fd] # c
    <3>1. CASE c = Index + 1
      <4>1. told'[c] = <<"connected">>
        BY <1>1, <3>1
      <4>. QED  BY <4>1
    <3>2. CASE c \in 1 .. Index
      BY <1>1, <3>2 DEF ToldInv
    <3>. QED  BY <1>1, <1>2, <3>1, <3>2
  <2>. QED  BY <2>1 DEF ToldInv
<1>4. PICK m \in Message : m = [kind |-> "connected", conn |-> Index + 1]
  BY <1>1, <1>2 DEF Message, Kind
<1>5. recvtmp' = Append(recvtmp, m)
  BY <1>4 DEF NewConn
<1>6. /\ OnTheWay \in Seq(Message) /\ Len(OnTheWay) \in Nat
      /\ \A p \in 1 .. Len(OnTheWay) : OnTheWay[p].conn <= Index
  BY WayConns
<1>7. ASSUME NEW p \in 1 .. Len(OnTheWay) PROVE OnTheWay[p].conn \in 1 .. Index
  <2>1. OnTheWay[p] \in Message
    BY <1>6, ElementOfSeq
  <2>2. OnTheWay[p].conn \in Conn /\ OnTheWay[p].conn <= Index
    BY <1>6, <2>1 DEF Message
  <2>. QED  BY <2>2 DEF ConnsOK
<1>8. WayTold'
  <2>1. /\ Len(OnTheWay') = Len(OnTheWay) + 1
        /\ OnTheWay'[Len(OnTheWay) + 1] = m
        /\ \A p \in 1 .. Len(OnTheWay) : OnTheWay'[p] = OnTheWay[p]
    BY <1>5, WayGrows
  <2>2. ASSUME NEW p \in 1 .. Len(OnTheWay'), OnTheWay'[p].kind = "disconnected"
        PROVE  EndTold(OnTheWay[p].conn)'
    <3>1. CASE p = Len(OnTheWay) + 1
      BY <1>4, <2>1, <2>2, <3>1
    <3>2. CASE p \in 1 .. Len(OnTheWay)
      <4>1. PICK d \in 1 .. Index : d = OnTheWay[p].conn
        BY <1>7, <3>2
      <4>2. EndTold(d)'
        BY <1>1, <2>1, <2>2, <3>2, <4>1 DEF WayTold, EndTold
      <4>3. OnTheWay'[p].conn = d
        BY <2>1, <3>2, <4>1
      <4>. QED  BY <4>2, <4>3 DEF EndTold
    <3>. QED  BY <1>6, <2>1, <3>1, <3>2
  <2>. QED  BY <2>2 DEF WayTold
<1>9. WayOrder'
  <2>1. \A p \in 1 .. Len(OnTheWay) : OnTheWay[p].conn # m.conn
    BY <1>2, <1>4, <1>7
  <2>. QED  BY <1>5, <2>1, GrowKeepsOrder
<1>. QED  BY <1>3, <1>8, <1>9

\* The messages on the way, the map and the histories stay as they are.
LEMMA TalkFrame ==
    ASSUME TalkIInv, UNCHANGED <<hand, recvq, recvtmp, told, map, conns>>
    PROVE  TalkInv'
<1>1. OnTheWay' = OnTheWay /\ Index' = Index
  BY DEF OnTheWay, Index
<1>2. ToldInv'
  BY <1>1 DEF TalkIInv, TalkInv, ToldInv
<1>3. WayTold'
  BY <1>1 DEF TalkIInv, TalkInv, WayTold, EndTold
<1>4. WayOrder'
  BY <1>1 DEF TalkIInv, TalkInv, WayOrder, InOrder
<1>. QED  BY <1>2, <1>3, <1>4 DEF TalkInv

LEMMA CloseKeepsTalk ==
    ASSUME TalkIInv, NEW f \in Fds, NEW before, CloseClient(f, before),
           UNCHANGED <<conns, recvq, hand>>
    PROVE  TalkInv'
<1>. USE DEF TalkIInv, LinkIInv, Types
<1>1. CASE map[f] = Free
  BY <1>1, TalkFrame DEF CloseClient
<1>2. CASE map[f] # Free
  <2>1. /\ Collect("disconnected", map[f]) /\ map' = [map EXCEPT ![f] = Free]
    BY <1>2 DEF CloseClient
  <2>2. PICK c \in 1 .. Index : c = map[f]
    BY <1>2 DEF ConnsOK
  <2>3. conns[c].fd = f
    BY <1>2, <2>2 DEF MapInv, Entries
  <2>4. map[conns[c].fd] = c /\ map'[conns[c].fd] # c
    BY <2>1, <2>2, <2>3 DEF ConnsOK
  <2>5. ASSUME NEW d \in 1 .. Index, map[conns[d].fd] # d PROVE map'[conns[d].fd] # d
    <3>1. conns[d] \in [fd : Fds, type : Type]
      BY ElementOfSeq DEF ConnsOK, Index
    <3>2. conns[d].fd \in Fds
      BY <3>1
    <3>. QED  BY <2>1, <2>5, <3>2 DEF ConnsOK
  <2>. QED  BY <2>1, <2>2, <2>4, <2>5, CollectKeepsTalk
<1>. QED  BY <1>1, <1>2

\* What enters the map is a new connection.
LEMMA AddedIsNew ==
    ASSUME LinkIInv, NEW f \in Fds, AddToEpoll(f) \/ map' = map
    PROVE  \A d \in 1 .. Index : map[conns[d].fd] # d => map'[conns[d].fd] # d
<1>. SUFFICES ASSUME NEW d \in 1 .. Index, map[conns[d].fd] # d
              PROVE  map'[conns[d].fd] # d
  OBVIOUS
<1>1. conns[d] \in [fd : Fds, type : Type]
  BY ElementOfSeq DEF LinkIInv, Types, ConnsOK, Index
<1>2. conns[d].fd \in Fds
  BY <1>1
<1>. QED  BY <1>2 DEF AddToEpoll, LinkIInv, Types, ConnsOK

LEMMA StepKeepsTalk == TalkIInv /\ [Next]_vars => TalkInv'
<1>. SUFFICES ASSUME TalkIInv, [Next]_vars PROVE TalkInv'
  OBVIOUS
<1>. USE DEF TalkIInv, LinkIInv, Types
<1>1. CASE MainThread
  <2>1. UNCHANGED <<hand, recvq, recvtmp, told, map, conns>>
    BY <1>1 DEF MainThread, CheckKey, OpenSocket, NoSocket, ConnectFails, Connected,
                EnqueueAdd, EnqueueFails, queues
  <2>. QED  BY <2>1, TalkFrame
<1>2. CASE Worker
  <2>1. UNCHANGED <<recvtmp, told, map, conns>>
    BY <1>2 DEF Worker, TakeMessage, MessageDone, MessageRejected, queues
  <2>2. CASE TakeMessage
    <3>1. /\ hand = None /\ recvq # <<>> /\ hand' = Head(recvq) /\ recvq' = Tail(recvq)
      BY <2>2 DEF TakeMessage
    <3>2. OnTheWay = Way(None, recvq, recvtmp) /\ recvq \in Seq(Message)
          /\ recvtmp \in Seq(Message)
      BY <3>1, WayIs DEF WayOK
    <3>3. OnTheWay' = Way(Head(recvq), Tail(recvq), recvtmp)
      BY <2>1, <3>1, WayIs
    <3>4. PartOf(OnTheWay', OnTheWay)
      BY <3>1, <3>2, <3>3, WayTaken
    <3>. QED  BY <2>1, <3>4, PartKeepsTalk
  <2>3. CASE MessageDone \/ MessageRejected
    <3>1. hand # None /\ hand' = None /\ recvq' = recvq
      BY <2>3 DEF MessageDone, MessageRejected, queues
    <3>2. /\ OnTheWay = Way(hand, recvq, recvtmp) /\ hand \in Message
          /\ recvq \in Seq(Message) /\ recvtmp \in Seq(Message)
      BY <3>1, WayIs DEF WayOK
    <3>3. OnTheWay' = Way(None, recvq, recvtmp)
      BY <2>1, <3>1, WayIs
    <3>4. PartOf(OnTheWay', OnTheWay)
      BY <3>2, <3>3, WayDone
    <3>. QED  BY <2>1, <3>4, PartKeepsTalk
  <2>. QED  BY <1>2, <2>2, <2>3 DEF Worker
<1>3. CASE (\E e \in batch : RecvEnds(e)) \/ SysClose \/ \E f \in Fds : KeepaliveClose(f)
  <2>1. ASSUME NEW e \in batch, RecvEnds(e) PROVE TalkInv'
    <3>1. e.fd \in Fds /\ CloseClient(e.fd, e.conn) /\ UNCHANGED <<conns, recvq, hand>>
      BY <2>1 DEF RecvEnds, LoopOK
    <3>. QED  BY <3>1, CloseKeepsTalk
  <2>2. CASE SysClose
    <3>1. /\ eventq # <<>> /\ eventq' = Tail(eventq)
          /\ CloseClient(Head(eventq).fd, Head(eventq).conn)
          /\ UNCHANGED <<conns, recvq, hand>>
      BY <2>2 DEF SysClose, NextEvent
    <3>2. Head(eventq).fd \in Fds
      BY <3>1, EventTaken DEF NetEvent
    <3>. QED  BY <3>1, <3>2, CloseKeepsTalk
  <2>3. ASSUME NEW f \in Fds, KeepaliveClose(f) PROVE TalkInv'
    BY <2>3, CloseKeepsTalk DEF KeepaliveClose
  <2>. QED  BY <1>3, <2>1, <2>2, <2>3
<1>4. CASE (\E f \in Fds : Accept(f) \/ AcceptFails(f)) \/ SysAdd \/ SysAddFails
  <2>1. Underway \in Nat /\ Index \in Nat /\ {"client", "server"} = Type
    BY UnderwayCounts DEF ConnsOK, Type
  <2>2. ASSUME NEW f \in Fds, Accept(f) \/ AcceptFails(f) PROVE TalkInv'
    <3>1. /\ Index + Underway < MaxConns /\ NewConn(f, "client")
          /\ (AddToEpoll(f) \/ map' = map) /\ UNCHANGED <<recvq, hand>>
      BY <2>2 DEF Accept, AcceptFails
    <3>2. Index < MaxConns
      BY <2>1, <3>1
    <3>. QED  BY <2>1, <3>1, <3>2, AddedIsNew, NewConnKeepsTalk
  <2>3. CASE SysAdd \/ SysAddFails
    <3>1. eventq # <<>> /\ Head(eventq).ev = "add" /\ eventq' = Tail(eventq)
      BY <2>3 DEF SysAdd, SysAddFails, NextEvent
    <3>2. Head(eventq).fd \in Fds /\ Index < MaxConns
      BY <3>1, EventTaken DEF NetEvent, RoomInv
    <3>3. PICK f \in Fds : f = Head(eventq).fd
      BY <3>2
    <3>4. NewConn(f, "server") /\ (AddToEpoll(f) \/ map' = map) /\ UNCHANGED <<recvq, hand>>
      BY <2>3, <3>3 DEF SysAdd, SysAddFails
    <3>. QED  BY <2>1, <3>2, <3>4, AddedIsNew, NewConnKeepsTalk
  <2>. QED  BY <1>4, <2>2, <2>3
<1>5. CASE EpollWait \/ EndBatch \/ EndEvents \/ EndLoop
  BY <1>5, TalkFrame DEF EpollWait, EndBatch, EndEvents, EndLoop, queues
<1>6. CASE FlushRecv
  <2>1. /\ recvq' = recvq \o SubSeq(recvtmp, 1, Takes) /\ recvtmp' = <<>>
        /\ UNCHANGED <<told, map, conns, hand>>
    BY <1>6 DEF FlushRecv
  <2>2. /\ hand \in Message \cup {None} /\ recvq \in Seq(Message)
        /\ recvtmp \in Seq(Message) /\ Takes \in 0 .. Len(recvtmp)
    BY DEF Takes, WayOK
  <2>3. /\ OnTheWay = Way(hand, recvq, recvtmp)
        /\ OnTheWay' = Way(hand, recvq \o SubSeq(recvtmp, 1, Takes), <<>>)
    BY <2>1, WayIs
  <2>4. PartOf(OnTheWay', OnTheWay)
    BY <2>2, <2>3, WayFlushed
  <2>. QED  BY <2>1, <2>4, PartKeepsTalk
<1>7. ASSUME NEW e \in batch, RecvData(e) PROVE TalkInv'
  <2>1. /\ map[e.fd] = e.conn /\ e.conn # Free /\ Collect("data", e.conn)
        /\ UNCHANGED <<map, conns, recvq, hand>>
    BY <1>7 DEF RecvData, FoundKey
  <2>2. PICK c \in 1 .. Index : c = e.conn
    BY <2>1 DEF LoopOK, ConnsOK
  <2>3. e.fd \in Entries /\ conns[c].fd = e.fd
    BY <2>1, <2>2 DEF MapInv, Entries, LoopOK
  <2>. QED  BY <2>1, <2>2, <2>3, CollectKeepsTalk
<1>8. CASE UNCHANGED vars
  BY <1>8, TalkFrame DEF vars, queues
<1>. QED
  BY <1>1, <1>2, <1>3, <1>4, <1>5, <1>6, <1>7, <1>8, EpollSteps DEF Next

\* Of what reaches a worker of a connection "connected" comes first and
\* "disconnected" last, and both queues keep this order, for every value of the
\* constants.
THEOREM SessionOrderCorrect == Spec => []SessionOrder
<1>1. Init => TalkInv
  BY DEF Init, TalkInv, ToldInv, WayTold, WayOrder, OnTheWay, Index
<1>2. Init => TalkIInv
  BY <1>1, InitLink DEF TalkIInv
<1>3. TalkIInv /\ [Next]_vars => TalkIInv'
  BY StepKeepsLink, StepKeepsTalk DEF TalkIInv
<1>4. ASSUME TalkIInv PROVE SessionOrder
  <2>1. ASSUME NEW c \in 1 .. Index, NEW p \in 1 .. Len(told[c]),
               NEW q \in 1 .. Len(told[c]), p < q
        PROVE  InOrder(told[c][p], told[c][q])
    <3>1. Len(told[c]) \in Nat
      BY ElementOfSeq DEF TalkIInv, LinkIInv, Types, ConnsOK
    <3>2. p # Len(told[c]) /\ q # 1
      BY <2>1, <3>1
    <3>. QED  BY <1>4, <3>2 DEF TalkIInv, TalkInv, ToldInv, InOrder
  <2>. QED  BY <1>4, <2>1 DEF SessionOrder, TalkIInv, TalkInv, WayOrder
<1>. QED  BY <1>2, <1>3, <1>4, PTL DEF Spec

=============================================================================
