---------------------------- MODULE WsaLoopProofs ----------------------------
(***************************************************************************)
(* Proofs for any sockets, any lengths of the queues and any number of     *)
(* connections: the Windows client has one link at a time, and its worker  *)
(* hears of a connection in the right order.                               *)
(***************************************************************************)
EXTENDS WsaLoop, Integers, SequenceTheorems, TLAPS

\* Where the link to the server is.
WithMain(f) == main.at = "queue" /\ main.fd = f /\ eventq = <<>> /\ map[f] = None
InQueue(f) == main.at # "queue" /\ eventq = <<f>> /\ map[f] = None
InMap(f) == main.at # "queue" /\ eventq = <<>> /\ map[f] = sock[f]

\* There is no link, and no socket.
NoLink ==
    /\ key = None /\ main.at # "queue" /\ eventq = <<>>
    /\ \A f \in Fds : sock[f] = None /\ map[f] = None

\* The key names the link, the only socket there is, and the main thread does
\* not connect.
LinkAt(f) ==
    /\ key = f /\ main.at # "connect"
    /\ sock[f] # None /\ (WithMain(f) \/ InQueue(f) \/ InMap(f))
    /\ \A g \in Fds \ {f} : sock[g] = None /\ map[g] = None

LinkType ==
    /\ sock \in [Fds -> Conn \cup {None}] /\ map \in [Fds -> Conn \cup {None}]
    /\ main \in [at : {"sleep", "connect", "queue"}, fd : Fds \cup {None}]
    /\ conns \in Nat

LinkInv ==
    /\ LinkType
    /\ todo \subseteq Mapped
    /\ NoLink \/ \E f \in Fds : LinkAt(f)

-----------------------------------------------------------------------------

\* A step that leaves alone what the invariant is about.
LEMMA OthersKeep ==
    ASSUME LinkInv, UNCHANGED <<conns, sock, map, key, eventq, main>>, todo' \subseteq todo
    PROVE  LinkInv'
<1>1. LinkType' /\ todo' \subseteq Mapped'
  BY DEF LinkInv, LinkType, Mapped
<1>2. NoLink => NoLink'
  BY DEF NoLink
<1>3. ASSUME NEW f \in Fds, LinkAt(f) PROVE LinkAt(f)'
  BY <1>3 DEF LinkAt, WithMain, InQueue, InMap
<1>. QED  BY <1>1, <1>2, <1>3 DEF LinkInv

\* The loop closes a socket of the map: that was the link.
LEMMA CloseKeeps ==
    ASSUME ConstantsAssumption, LinkInv, NEW f \in todo, NEW before,
           CloseClient(f, before), EraseUnderLoop(f)
    PROVE  LinkInv'
<1>1. f \in Fds /\ map[f] # None
  BY DEF LinkInv, Mapped
<1>2. /\ sock' = [sock EXCEPT ![f] = None] /\ map' = [map EXCEPT ![f] = None]
      /\ key' = None /\ todo' = todo \ {f} /\ UNCHANGED <<conns, eventq, main>>
  BY DEF CloseClient, CloseSocket, EraseUnderLoop
<1>3. LinkType'
  BY <1>2 DEF LinkInv, LinkType
<1>4. todo' \subseteq Mapped'
  BY <1>2 DEF LinkInv, LinkType, Mapped
<1>5. LinkAt(f) /\ InMap(f)
  BY <1>1 DEF LinkInv, NoLink, LinkAt, WithMain, InQueue
<1>6. NoLink'
  BY <1>2, <1>5 DEF LinkInv, LinkType, NoLink, LinkAt, InMap
<1>. QED  BY <1>3, <1>4, <1>6 DEF LinkInv

LEMMA LoopKeeps ==
    ASSUME ConstantsAssumption, LinkInv, LoopStep
    PROVE  LinkInv'
<1>1. ASSUME NEW f \in Fds, RecvFull(f) PROVE LinkInv'
  BY <1>1, OthersKeep DEF RecvFull
<1>2. ASSUME NEW f \in Fds, RecvBad(f) PROVE LinkInv'
  BY <1>2, CloseKeeps DEF RecvBad, Visits
<1>3. ASSUME NEW f \in Fds, RecvEnds(f) PROVE LinkInv'
  <2>1. f \in todo /\ EraseUnderLoop(f) /\ \E before : CloseClient(f, before)
    BY <1>3 DEF RecvEnds, Visits
  <2>. QED  BY <2>1, CloseKeeps
<1>4. ASSUME NEW f \in Fds, RecvError(f) PROVE LinkInv'
  BY <1>4, OthersKeep DEF RecvError
<1>5. CASE FlushRecv
  BY <1>5, OthersKeep DEF FlushRecv, kernel, sendmaps
<1>6. CASE LookAtEvents
  BY <1>6, OthersKeep DEF LookAtEvents, kernel
<1>7. CASE AddClient
  <2>1. PICK f \in Fds : LinkAt(f) /\ InQueue(f)
    BY <1>7 DEF AddClient, LinkInv, NoLink, LinkAt, WithMain, InMap
  <2>2. Head(eventq) = f /\ Tail(eventq) = <<>>
    BY <2>1 DEF InQueue
  <2>3. /\ map' = [map EXCEPT ![f] = sock[f]] /\ key' = f /\ eventq' = <<>>
        /\ UNCHANGED <<conns, sock, main, todo>>
    BY <1>7, <2>2 DEF AddClient, kernel
  <2>4. LinkType' /\ todo' \subseteq Mapped'
    BY <2>1, <2>3 DEF LinkInv, LinkType, Mapped, LinkAt
  <2>5. LinkAt(f)'
    BY <2>1, <2>3 DEF LinkInv, LinkType, LinkAt, InQueue, InMap
  <2>. QED  BY <2>4, <2>5 DEF LinkInv
<1>8. CASE EndEvents
  BY <1>8, OthersKeep DEF EndEvents, kernel
<1>9. CASE SwitchSendMap
  BY <1>9, OthersKeep DEF SwitchSendMap, kernel
<1>10. CASE DeleteUnknown
  BY <1>10, OthersKeep DEF DeleteUnknown, kernel
<1>11. CASE SendKeepalive
  <2>1. /\ todo' = Mapped /\ UNCHANGED <<conns, sock, map, key, eventq, main>>
    BY <1>11 DEF SendKeepalive, kernel
  <2>2. LinkType' /\ todo' \subseteq Mapped'
    BY <2>1 DEF LinkInv, LinkType, Mapped
  <2>3. NoLink => NoLink'
    BY <2>1 DEF NoLink
  <2>4. ASSUME NEW f \in Fds, LinkAt(f) PROVE LinkAt(f)'
    BY <2>1, <2>4 DEF LinkAt, WithMain, InQueue, InMap
  <2>. QED  BY <2>2, <2>3, <2>4 DEF LinkInv
<1>. QED  BY <1>1, <1>2, <1>3, <1>4, <1>5, <1>6, <1>7, <1>8, <1>9, <1>10, <1>11 DEF LoopStep

LEMMA MainKeeps ==
    ASSUME ConstantsAssumption, LinkInv, MainStep
    PROVE  LinkInv'
<1>1. CASE CheckKey
  <2>1. /\ main' = [at |-> "connect", fd |-> None] /\ key = None
        /\ UNCHANGED <<conns, sock, map, key, eventq, todo>>
    BY <1>1 DEF CheckKey, MainGoes, KeyUnset, kernel
  <2>2. NoLink
    BY <2>1 DEF LinkInv, LinkAt, ConstantsAssumption
  <2>3. LinkType' /\ todo' \subseteq Mapped' /\ NoLink'
    BY <2>1, <2>2 DEF LinkInv, LinkType, Mapped, NoLink
  <2>. QED  BY <2>3 DEF LinkInv
<1>2. CASE ConnectFails
  <2>1. /\ main' = [at |-> "sleep", fd |-> None] /\ main.at = "connect"
        /\ UNCHANGED <<conns, sock, map, key, eventq, todo>>
    BY <1>2 DEF ConnectFails, MainAt, MainGoes, kernel
  <2>2. NoLink
    BY <2>1 DEF LinkInv, LinkAt
  <2>3. LinkType' /\ todo' \subseteq Mapped' /\ NoLink'
    BY <2>1, <2>2 DEF LinkInv, LinkType, Mapped, NoLink
  <2>. QED  BY <2>3 DEF LinkInv
<1>3. CASE Connected
  <2>1. main.at = "connect" /\ conns < MaxConns
    BY <1>3 DEF Connected, MainAt
  <2>2. NoLink
    BY <2>1 DEF LinkInv, LinkAt
  <2>3. PICK f \in Fds :
            /\ sock' = [sock EXCEPT ![f] = conns + 1] /\ key' = f
            /\ main' = [at |-> "queue", fd |-> f] /\ conns' = conns + 1
            /\ UNCHANGED <<map, eventq, todo>>
    BY <1>3 DEF Connected, MainGoes
  <2>4. conns + 1 \in Conn /\ conns + 1 # None
    BY <2>1 DEF LinkInv, LinkType, Conn, ConstantsAssumption
  <2>5. LinkType' /\ todo' \subseteq Mapped'
    BY <2>3, <2>4 DEF LinkInv, LinkType, Mapped
  <2>6. WithMain(f)'
    BY <2>2, <2>3 DEF NoLink, WithMain
  <2>7. LinkAt(f)'
    BY <2>2, <2>3, <2>4, <2>6 DEF LinkInv, LinkType, NoLink, LinkAt
  <2>. QED  BY <2>5, <2>7 DEF LinkInv
<1>4. CASE Enqueue
  <2>1. main.at = "queue"
    BY <1>4 DEF Enqueue, MainAt
  <2>2. PICK f \in Fds : LinkAt(f) /\ WithMain(f)
    BY <2>1 DEF LinkInv, NoLink, LinkAt, InQueue, InMap
  <2>3. Len(eventq) < MaxEvents /\ Append(eventq, main.fd) = <<f>>
    BY <2>2 DEF WithMain, ConstantsAssumption
  <2>4. /\ eventq' = <<f>> /\ main' = [at |-> "sleep", fd |-> None]
        /\ UNCHANGED <<conns, sock, map, key, todo>>
    BY <1>4, <2>3 DEF Enqueue, MainGoes, kernel
  <2>5. LinkType' /\ todo' \subseteq Mapped'
    BY <2>4 DEF LinkInv, LinkType, Mapped
  <2>6. InQueue(f)'
    BY <2>2, <2>4 DEF WithMain, InQueue
  <2>7. LinkAt(f)'
    BY <2>2, <2>4, <2>6 DEF LinkAt
  <2>. QED  BY <2>5, <2>7 DEF LinkInv
<1>. QED  BY <1>1, <1>2, <1>3, <1>4 DEF MainStep

LEMMA NextLinkInv ==
    ASSUME ConstantsAssumption, LinkInv, [Next]_vars
    PROVE  LinkInv'
<1>1. CASE LoopStep
  BY <1>1, LoopKeeps
<1>2. CASE MainStep
  BY <1>2, MainKeeps
<1>3. CASE Take
  BY <1>3, OthersKeep DEF Take, kernel
<1>4. ASSUME NEW f \in Fds, Arrive(f) \/ PeerLeaves(f) PROVE LinkInv'
  BY <1>4, OthersKeep DEF Arrive, PeerLeaves
<1>5. CASE UNCHANGED vars
  BY <1>5, OthersKeep DEF vars, kernel
<1>. QED  BY <1>1, <1>2, <1>3, <1>4, <1>5 DEF Next

\* Where the link is, it is in one place.
LEMMA LinkUnderway ==
    ASSUME ConstantsAssumption, LinkInv, NEW f \in Fds, LinkAt(f)
    PROVE  Underway \in {{<<"main", f>>}, {<<"event", 1>>}, {<<"map", f>>}}
<1>1. f # None /\ \A g \in Fds : map[g] # None => g = f
  BY DEF LinkAt, ConstantsAssumption
<1>2. CASE WithMain(f)
  <2>1. Mapped = {} /\ DOMAIN eventq = {} /\ {main.at} \cap {"queue"} = {"queue"}
    BY <1>1, <1>2 DEF WithMain, Mapped
  <2>2. Underway = {<<"main", f>>}
    BY <1>2, <2>1 DEF Underway, WithMain
  <2>. QED  BY <2>2
<1>3. CASE InQueue(f)
  <2>1. Mapped = {} /\ DOMAIN eventq = {1} /\ {main.at} \cap {"queue"} = {}
    BY <1>1, <1>3 DEF InQueue, Mapped
  <2>2. Underway = {<<"event", 1>>}
    BY <2>1 DEF Underway
  <2>. QED  BY <2>2
<1>4. CASE InMap(f)
  <2>1. Mapped = {f} /\ DOMAIN eventq = {} /\ {main.at} \cap {"queue"} = {}
    BY <1>1, <1>4 DEF InMap, Mapped, LinkAt
  <2>2. Underway = {<<"map", f>>}
    BY <2>1 DEF Underway
  <2>. QED  BY <2>2
<1>. QED  BY <1>2, <1>3, <1>4 DEF LinkAt

LEMMA InitLinkInv ==
    ASSUME Init
    PROVE  LinkInv
BY DEF Init, LinkInv, LinkType, NoLink, Mapped

LEMMA LinkInvOneLink ==
    ASSUME ConstantsAssumption, LinkInv
    PROVE  OneLinkUnderway
<1>1. ASSUME LinkType, NoLink PROVE OneLinkUnderway
  <2>1. Mapped = {} /\ DOMAIN eventq = {} /\ {main.at} \cap {"queue"} = {} /\ Len(eventq) = 0
    BY <1>1 DEF NoLink, Mapped
  <2>2. Underway = {}
    BY <2>1 DEF Underway
  <2>. QED  BY <1>1, <2>1, <2>2 DEF OneLinkUnderway, NoLink, ConstantsAssumption
<1>2. ASSUME NEW f \in Fds, LinkAt(f) PROVE OneLinkUnderway
  <2>1. Underway \in {{<<"main", f>>}, {<<"event", 1>>}, {<<"map", f>>}}
    BY <1>2, LinkUnderway
  <2>2. key = f /\ f # None /\ sock[f] # None /\ map[f] \in {None, sock[f]}
    BY <1>2 DEF LinkAt, WithMain, InQueue, InMap, ConstantsAssumption
  <2>3. eventq = <<>> \/ eventq = <<f>>
    BY <1>2 DEF LinkAt, WithMain, InQueue, InMap
  <2>4. Len(eventq) <= 1 /\ \A i \in DOMAIN eventq : eventq[i] = f
    <3>1. CASE eventq = <<>>
      BY <3>1
    <3>2. CASE eventq = <<f>>
      <4>1. Len(<<f>>) = 1 /\ DOMAIN <<f>> = {1} /\ <<f>>[1] = f
        OBVIOUS
      <4>. QED  BY <3>2, <4>1
    <3>. QED  BY <2>3, <3>1, <3>2
  <2>5. \A g \in Fds : g # f => key # g /\ sock[g] = None
    BY <1>2 DEF LinkAt
  <2>. QED  BY <2>1, <2>2, <2>4, <2>5 DEF OneLinkUnderway
<1>. QED  BY <1>1, <1>2 DEF LinkInv

\* For any sockets and any limits: the main thread and the loop never make a
\* second link, and lose none.
THEOREM OneLinkUnderwayCorrect == ASSUME ConstantsAssumption PROVE Spec => []OneLinkUnderway
<1>1. Init => LinkInv
  BY InitLinkInv
<1>2. LinkInv => OneLinkUnderway
  BY LinkInvOneLink
<1>. QED  BY <1>1, <1>2, NextLinkInv, PTL DEF Spec

-----------------------------------------------------------------------------
(* What the worker hears: w is on its way to it, t is what it heard last.  *)

Kinds == {"connected", "data", "disconnected"}
Msg == [conn : Conn, kind : Kinds]
Told == [Conn -> {"nothing"} \cup Kinds]

StoryOf(w, t) ==
    \A i \in DOMAIN w :
        /\ t[w[i].conn] = "nothing" \/ InOrder(t[w[i].conn], w[i].kind)
        /\ \A j \in 1 .. i - 1 :
              w[j].conn = w[i].conn => InOrder(w[j].kind, w[i].kind)

\* The worker heard nothing of c, and will hear nothing from what is on its way.
Fresh(c, w, t) ==
    t[c] = "nothing" /\ \A i \in DOMAIN w : w[i].conn # c

\* The worker heard of no end of c, and will hear of none.
Open(c, w, t) ==
    /\ t[c] # "disconnected"
    /\ \A i \in DOMAIN w : w[i].conn = c => w[i].kind # "disconnected"

\* A connection that is not made is fresh, and one in the event queue or with
\* the main thread too; one in the map is open.
StoryInv ==
    /\ recvtmp \in Seq(Msg) /\ recvq \in Seq(Msg) /\ told \in Told
    /\ StoryOf(OnTheWay, told)
    /\ \A c \in Conn : c > conns => Fresh(c, OnTheWay, told)
    /\ \A f \in Fds :
        /\ sock[f] # None => sock[f] <= conns
        /\ sock[f] # None /\ map[f] = None => Fresh(sock[f], OnTheWay, told)
        /\ map[f] # None => Open(map[f], OnTheWay, told)

\* v is w, or w without its end.
Begins(v, w) ==
    /\ DOMAIN v \subseteq DOMAIN w
    /\ \A i \in DOMAIN v : v[i] = w[i]

LEMMA BeginningKeeps ==
    ASSUME NEW v, NEW w, NEW t, NEW c, Begins(v, w)
    PROVE  /\ Fresh(c, w, t) => Fresh(c, v, t)
           /\ Open(c, w, t) => Open(c, v, t)
BY DEF Begins, Fresh, Open

LEMMA BeginningInOrder ==
    ASSUME NEW v \in Seq(Msg), NEW w \in Seq(Msg), NEW t, Begins(v, w), StoryOf(w, t)
    PROVE  StoryOf(v, t)
<1>. SUFFICES ASSUME NEW i \in DOMAIN v
              PROVE  /\ t[v[i].conn] = "nothing" \/ InOrder(t[v[i].conn], v[i].kind)
                     /\ \A j \in 1 .. i - 1 :
                           v[j].conn = v[i].conn => InOrder(v[j].kind, v[i].kind)
  BY DEF StoryOf
<1>1. i \in DOMAIN w /\ v[i] = w[i]
  BY DEF Begins
<1>2. \A j \in 1 .. i - 1 : v[j] = w[j]
  <2>1. \A j \in 1 .. i - 1 : j \in DOMAIN v
    OBVIOUS
  <2>. QED  BY <2>1 DEF Begins
<1>. QED  BY <1>1, <1>2 DEF StoryOf

\* A message after the others: the first of a fresh connection, or no first of
\* an open one.
LEMMA AppendInOrder ==
    ASSUME NEW w \in Seq(Msg), NEW t, NEW m \in Msg, StoryOf(w, t),
           Fresh(m.conn, w, t) \/ (Open(m.conn, w, t) /\ m.kind # "connected")
    PROVE  StoryOf(Append(w, m), t)
<1>. DEFINE v == Append(w, m)
<1>. SUFFICES ASSUME NEW i \in DOMAIN v
              PROVE  /\ t[v[i].conn] = "nothing" \/ InOrder(t[v[i].conn], v[i].kind)
                     /\ \A j \in 1 .. i - 1 :
                           v[j].conn = v[i].conn => InOrder(v[j].kind, v[i].kind)
  BY DEF StoryOf
<1>1. \A k \in DOMAIN w : v[k] = w[k]
  OBVIOUS
<1>2. v[Len(w) + 1] = m /\ i \in 1 .. Len(w) + 1
  OBVIOUS
<1>3. \A j \in 1 .. i - 1 : j \in DOMAIN w /\ v[j] = w[j]
  BY <1>1, <1>2
<1>. HIDE DEF v
<1>4. CASE i \in DOMAIN w
  BY <1>1, <1>3, <1>4 DEF StoryOf
<1>5. CASE i = Len(w) + 1
  BY <1>2, <1>3, <1>5 DEF Fresh, Open, InOrder
<1>. QED  BY <1>2, <1>4, <1>5

\* Only the connection of the message hears of it.
LEMMA AppendKeeps ==
    ASSUME NEW w \in Seq(Msg), NEW t, NEW m \in Msg, NEW c
    PROVE  /\ Fresh(c, w, t) /\ m.conn # c => Fresh(c, Append(w, m), t)
           /\ Open(c, w, t) /\ (m.conn = c => m.kind # "disconnected")
                => Open(c, Append(w, m), t)
<1>. DEFINE v == Append(w, m)
<1>1. \A i \in DOMAIN v : i = Len(w) + 1 \/ (i \in DOMAIN w /\ v[i] = w[i])
  OBVIOUS
<1>2. v[Len(w) + 1] = m
  OBVIOUS
<1>. HIDE DEF v
<1>3. Fresh(c, w, t) /\ m.conn # c => Fresh(c, v, t)
  BY <1>1, <1>2 DEF Fresh
<1>4. Open(c, w, t) /\ (m.conn = c => m.kind # "disconnected") => Open(c, v, t)
  BY <1>1, <1>2 DEF Open
<1>. QED  BY <1>3, <1>4 DEF v

\* The worker hears the first message.
LEMMA HearingKeeps ==
    ASSUME NEW w \in Seq(Msg), w # <<>>, NEW t \in Told, StoryOf(w, t), NEW u,
           u = [t EXCEPT ![Head(w).conn] = Head(w).kind]
    PROVE  /\ u \in Told /\ StoryOf(Tail(w), u)
           /\ \A c \in Conn : Fresh(c, w, t) => Fresh(c, Tail(w), u)
           /\ \A c \in Conn : Open(c, w, t) => Open(c, Tail(w), u)
<1>. DEFINE v == Tail(w)
            h == Head(w)
<1>1. h \in Msg /\ h = w[1] /\ 1 \in DOMAIN w
  OBVIOUS
<1>2. v \in Seq(Msg) /\ \A i \in DOMAIN v : i + 1 \in DOMAIN w /\ v[i] = w[i + 1] /\ v[i] \in Msg
  OBVIOUS
<1>3. h.conn \in Conn /\ h.kind \in Kinds
  BY <1>1 DEF Msg
<1>4. u \in Told
  BY <1>3 DEF Told
<1>5. \A c \in Conn : u[c] = IF c = h.conn THEN h.kind ELSE t[c]
  BY <1>3 DEF Told
<1>6. StoryOf(v, u)
  <2>. SUFFICES ASSUME NEW i \in DOMAIN v
                PROVE  /\ u[v[i].conn] = "nothing" \/ InOrder(u[v[i].conn], v[i].kind)
                       /\ \A j \in 1 .. i - 1 :
                             v[j].conn = v[i].conn => InOrder(v[j].kind, v[i].kind)
    BY DEF StoryOf
  <2>1. i + 1 \in DOMAIN w /\ v[i] = w[i + 1] /\ v[i].conn \in Conn /\ i \in Nat \ {0}
    BY <1>2 DEF Msg
  <2>2. w[1].conn = w[i + 1].conn => InOrder(w[1].kind, w[i + 1].kind)
    <3>1. 1 \in 1 .. (i + 1) - 1
      BY <2>1
    <3>. QED  BY <2>1, <3>1 DEF StoryOf
  <2>3. t[w[i + 1].conn] = "nothing" \/ InOrder(t[w[i + 1].conn], w[i + 1].kind)
    BY <2>1 DEF StoryOf
  <2>4. ASSUME NEW j \in 1 .. i - 1 PROVE v[j].conn = v[i].conn => InOrder(v[j].kind, v[i].kind)
    <3>1. j \in DOMAIN v /\ j + 1 \in 1 .. (i + 1) - 1
      BY <2>1
    <3>. QED  BY <1>2, <2>1, <3>1 DEF StoryOf
  <2>5. u[v[i].conn] = "nothing" \/ InOrder(u[v[i].conn], v[i].kind)
    BY <1>1, <1>5, <2>1, <2>2, <2>3
  <2>. QED  BY <2>4, <2>5
<1>7. ASSUME NEW c \in Conn, Fresh(c, w, t) PROVE Fresh(c, v, u)
  BY <1>1, <1>2, <1>5, <1>7 DEF Fresh
<1>8. ASSUME NEW c \in Conn, Open(c, w, t) PROVE Open(c, v, u)
  BY <1>1, <1>2, <1>5, <1>8 DEF Open
<1>. QED  BY <1>4, <1>6, <1>7, <1>8

-----------------------------------------------------------------------------

\* A step that leaves alone what the worker hears, and the sockets.
LEMMA OthersStory ==
    ASSUME StoryInv, UNCHANGED <<conns, sock, map, recvtmp, recvq, told>>
    PROVE  StoryInv'
BY DEF StoryInv, OnTheWay

\* The loop collects one more message.
LEMMA Collected ==
    ASSUME StoryInv, NEW m \in Msg
    PROVE  /\ OnTheWay \in Seq(Msg) /\ Append(recvtmp, m) \in Seq(Msg)
           /\ recvq \o Append(recvtmp, m) = Append(OnTheWay, m)
BY DEF StoryInv, OnTheWay

\* A connection in the map has a socket, the only one.
LEMMA MappedIsLink ==
    ASSUME LinkInv, NEW f \in Fds, map[f] # None
    PROVE  /\ map[f] \in Conn /\ sock[f] = map[f]
           /\ \A g \in Fds \ {f} : sock[g] = None /\ map[g] = None
<1>1. LinkAt(f) /\ InMap(f)
  BY DEF LinkInv, NoLink, LinkAt, WithMain, InQueue
<1>. QED  BY <1>1 DEF LinkAt, InMap, LinkInv, LinkType

\* The messages of a connection in the map, before it is closed or not.
LEMMA DataStory ==
    ASSUME LinkInv, StoryInv, NEW f \in Fds, map[f] # None
    PROVE  LET w == Append(OnTheWay, Message(map[f], "data"))
           IN  /\ Message(map[f], "data") \in Msg
               /\ StoryOf(w, told) /\ Open(map[f], w, told)
               /\ \A c \in Conn : c > conns => Fresh(c, w, told)
<1>. DEFINE m == Message(map[f], "data")
<1>1. m \in Msg /\ m.conn = map[f] /\ m.kind = "data"
  BY MappedIsLink DEF Message, Msg, Kinds
<1>2. Open(map[f], OnTheWay, told) /\ map[f] <= conns
  BY MappedIsLink DEF StoryInv
<1>3. OnTheWay \in Seq(Msg)
  BY <1>1, Collected
<1>. HIDE DEF m
<1>4. StoryOf(Append(OnTheWay, m), told)
  BY <1>1, <1>2, <1>3, AppendInOrder DEF StoryInv
<1>5. Open(map[f], Append(OnTheWay, m), told)
  BY <1>1, <1>2, <1>3, AppendKeeps
<1>6. ASSUME NEW c \in Conn, c > conns PROVE Fresh(c, Append(OnTheWay, m), told)
  <2>1. m.conn # c
    BY <1>1, <1>2, <1>6 DEF LinkInv, LinkType, Conn
  <2>. QED  BY <1>1, <1>3, <1>6, <2>1, AppendKeeps DEF StoryInv
<1>. QED  BY <1>1, <1>4, <1>5, <1>6 DEF m

LEMMA FullStory ==
    ASSUME LinkInv, StoryInv, NEW f \in Fds, RecvFull(f)
    PROVE  StoryInv'
<1>. DEFINE m == Message(map[f], "data")
<1>1. map[f] # None
  BY DEF RecvFull, Visits, LinkInv, Mapped
<1>2. /\ m \in Msg /\ StoryOf(Append(OnTheWay, m), told)
      /\ Open(map[f], Append(OnTheWay, m), told)
      /\ \A c \in Conn : c > conns => Fresh(c, Append(OnTheWay, m), told)
  BY <1>1, DataStory
<1>3. recvtmp' = Append(recvtmp, m) /\ UNCHANGED <<conns, sock, map, recvq, told>>
  BY DEF RecvFull
<1>. HIDE DEF m
<1>4. recvtmp' \in Seq(Msg) /\ OnTheWay' = Append(OnTheWay, m)
  BY <1>2, <1>3, Collected DEF OnTheWay
<1>5. ASSUME NEW g \in Fds
      PROVE  /\ sock[g] # None => sock[g] <= conns
             /\ sock[g] # None /\ map[g] = None => Fresh(sock[g], OnTheWay', told)
             /\ map[g] # None => Open(map[g], OnTheWay', told)
  BY <1>1, <1>2, <1>4, MappedIsLink DEF StoryInv
<1>. QED  BY <1>2, <1>3, <1>4, <1>5 DEF StoryInv

LEMMA AppendedAfter ==
    ASSUME NEW q \in Seq(Msg), NEW r \in Seq(Msg), NEW b \in Seq(Msg), NEW m \in Msg
    PROVE  /\ (r \o b) \o <<m>> \in Seq(Msg)
           /\ q \o ((r \o b) \o <<m>>) = Append((q \o r) \o b, m)
<1>1. r \o b \in Seq(Msg) /\ (q \o r) \o b \in Seq(Msg) /\ <<m>> \in Seq(Msg)
  OBVIOUS
<1>2. (r \o b) \o <<m>> \in Seq(Msg)
  BY <1>1, ConcatProperties
<1>3. q \o ((r \o b) \o <<m>>) = (q \o (r \o b)) \o <<m>>
  BY <1>1, ConcatAssociative
<1>4. q \o (r \o b) = (q \o r) \o b
  BY ConcatAssociative
<1>5. ((q \o r) \o b) \o <<m>> = Append((q \o r) \o b, m)
  BY <1>1, AppendIsConcat, Zenon
<1>. QED  BY <1>2, <1>3, <1>4, <1>5, Zenon

\* A connection is closed, with the last data before it or without.
LEMMA CloseStory ==
    ASSUME ConstantsAssumption, LinkInv, StoryInv, NEW f \in todo, NEW before,
           before \in {<<>>, <<Message(map[f], "data")>>}, CloseClient(f, before)
    PROVE  StoryInv'
<1>. DEFINE d == Message(map[f], "data")
            e == Message(map[f], "disconnected")
            w == OnTheWay \o before
<1>1. f \in Fds /\ map[f] # None
  BY DEF LinkInv, Mapped
<1>2. /\ d \in Msg /\ StoryOf(Append(OnTheWay, d), told)
      /\ Open(map[f], Append(OnTheWay, d), told)
      /\ \A c \in Conn : c > conns => Fresh(c, Append(OnTheWay, d), told)
  BY <1>1, DataStory
<1>3. /\ sock' = [sock EXCEPT ![f] = None] /\ map' = [map EXCEPT ![f] = None]
      /\ recvtmp' = recvtmp \o before \o <<e>> /\ UNCHANGED <<conns, recvq, told>>
  BY DEF CloseClient, CloseSocket
<1>4. e \in Msg /\ e.conn = map[f] /\ e.kind = "disconnected"
  BY <1>1, MappedIsLink DEF Message, Msg, Kinds
<1>5. map[f] \in Conn /\ map[f] <= conns
  BY <1>1, MappedIsLink DEF StoryInv
<1>6. /\ recvtmp \in Seq(Msg) /\ recvq \in Seq(Msg) /\ OnTheWay \in Seq(Msg)
      /\ OnTheWay = recvq \o recvtmp
  BY DEF StoryInv, OnTheWay
<1>. HIDE DEF d, e
<1>7. (before = <<>> /\ w = OnTheWay) \/ (before = <<d>> /\ w = Append(OnTheWay, d))
  <2>1. before = <<>> => w = OnTheWay
    BY <1>6
  <2>2. before = <<d>> => w = Append(OnTheWay, d)
    BY <1>2, <1>6
  <2>3. before = <<>> \/ before = <<d>>
    BY DEF d
  <2>. QED  BY <2>1, <2>2, <2>3
<1>. HIDE DEF w
<1>8. /\ w \in Seq(Msg) /\ StoryOf(w, told) /\ Open(map[f], w, told)
      /\ \A c \in Conn : c > conns => Fresh(c, w, told)
  <2>1. Append(OnTheWay, d) \in Seq(Msg)
    BY <1>2, <1>6
  <2>2. /\ StoryOf(OnTheWay, told) /\ Open(map[f], OnTheWay, told)
        /\ \A c \in Conn : c > conns => Fresh(c, OnTheWay, told)
    BY <1>1 DEF StoryInv
  <2>. QED  BY <1>2, <1>6, <1>7, <2>1, <2>2
<1>9. recvtmp' \in Seq(Msg) /\ recvq \o (recvtmp \o before \o <<e>>) = Append(w, e)
  <2>1. <<d>> \in Seq(Msg) /\ <<>> \in Seq(Msg)
    BY <1>2
  <2>2. before \in Seq(Msg)
    BY <1>7, <2>1
  <2>3. /\ (recvtmp \o before) \o <<e>> \in Seq(Msg)
        /\ recvq \o ((recvtmp \o before) \o <<e>>) = Append((recvq \o recvtmp) \o before, e)
    <3>1. e \in Msg /\ recvtmp \in Seq(Msg) /\ recvq \in Seq(Msg)
      BY <1>4, <1>6
    <3>. QED  BY ONLY <2>2, <3>1, AppendedAfter
  <2>4. w = (recvq \o recvtmp) \o before
    BY <1>6, Zenon DEF w
  <2>. QED  BY <1>3, <2>3, <2>4, Zenon
<1>10. OnTheWay' = Append(w, e)
  BY <1>3, <1>9 DEF OnTheWay
<1>11. StoryOf(OnTheWay, told)'
  BY <1>3, <1>4, <1>8, <1>10, AppendInOrder DEF Open
<1>12. ASSUME NEW c \in Conn, c > conns PROVE Fresh(c, Append(w, e), told)
  <2>1. e.conn # c
    BY <1>4, <1>5, <1>12 DEF LinkInv, LinkType, Conn
  <2>. QED  BY <1>4, <1>8, <1>12, <2>1, AppendKeeps
<1>13. \A g \in Fds : sock'[g] = None /\ map'[g] = None
  BY <1>1, <1>3, MappedIsLink DEF LinkInv, LinkType
<1>. QED  BY <1>3, <1>9, <1>10, <1>11, <1>12, <1>13 DEF StoryInv

\* What the receive queue has no room for is lost, from the end.
LEMMA FlushStory ==
    ASSUME ConstantsAssumption, StoryInv, FlushRecv
    PROVE  StoryInv'
<1>1. /\ recvtmp \in Seq(Msg) /\ recvq \in Seq(Msg) /\ OnTheWay \in Seq(Msg)
      /\ OnTheWay = recvq \o recvtmp
  BY DEF StoryInv, OnTheWay
<1>2. PICK n \in Int : n <= Len(recvtmp) /\ recvq' = recvq \o SubSeq(recvtmp, 1, n)
  <2>1. MaxRecv - Len(recvq) \in Int /\ Len(recvtmp) \in Nat
    BY <1>1 DEF ConstantsAssumption
  <2>2. CASE Len(recvtmp) < MaxRecv - Len(recvq)
    BY <2>1, <2>2 DEF FlushRecv, Entered
  <2>3. CASE ~(Len(recvtmp) < MaxRecv - Len(recvq))
    <3>1. MaxRecv - Len(recvq) <= Len(recvtmp)
      BY <2>1, <2>3
    <3>2. recvq' = recvq \o SubSeq(recvtmp, 1, MaxRecv - Len(recvq))
      BY <2>3 DEF FlushRecv, Entered
    <3>. QED  BY <2>1, <3>1, <3>2
  <2>. QED  BY <2>2, <2>3
<1>3. recvtmp' = <<>> /\ UNCHANGED <<conns, sock, map, told>>
  BY DEF FlushRecv, kernel
<1>4. SubSeq(recvtmp, 1, n) \in Seq(Msg) /\ Begins(SubSeq(recvtmp, 1, n), recvtmp)
  BY <1>1, <1>2 DEF Begins
<1>5. recvq' \in Seq(Msg) /\ OnTheWay' = recvq'
  BY <1>1, <1>2, <1>3, <1>4 DEF OnTheWay
<1>6. Begins(recvq', OnTheWay)
  BY <1>1, <1>2, <1>4 DEF Begins
<1>7. StoryOf(OnTheWay, told)'
  BY <1>1, <1>3, <1>5, <1>6, BeginningInOrder DEF StoryInv
<1>8. \A c : Fresh(c, OnTheWay, told) => Fresh(c, OnTheWay', told)
  BY <1>5, <1>6, BeginningKeeps
<1>9. \A c : Open(c, OnTheWay, told) => Open(c, OnTheWay', told)
  BY <1>5, <1>6, BeginningKeeps
<1>10. recvtmp' \in Seq(Msg)
  BY <1>3
<1>. QED  BY <1>3, <1>5, <1>7, <1>8, <1>9, <1>10 DEF StoryInv

\* The connection was fresh until the loop tells of it.
LEMMA AddStory ==
    ASSUME ConstantsAssumption, LinkInv, StoryInv, AddClient
    PROVE  StoryInv'
<1>1. PICK f \in Fds : LinkAt(f) /\ InQueue(f)
  BY DEF AddClient, LinkInv, NoLink, LinkAt, WithMain, InMap
<1>. DEFINE m == Message(sock[f], "connected")
<1>2. /\ map' = [map EXCEPT ![f] = sock[f]] /\ recvtmp' = Append(recvtmp, m)
      /\ UNCHANGED <<conns, sock, recvq, told>>
  BY <1>1 DEF AddClient, kernel, InQueue
<1>3. sock[f] # None /\ sock[f] \in Conn /\ map[f] = None
  BY <1>1 DEF LinkAt, InQueue, LinkInv, LinkType
<1>4. Fresh(sock[f], OnTheWay, told) /\ sock[f] <= conns
  BY <1>3 DEF StoryInv
<1>5. m \in Msg /\ m.conn = sock[f] /\ m.kind = "connected"
  BY <1>3 DEF Message, Msg, Kinds
<1>. HIDE DEF m
<1>6. /\ OnTheWay \in Seq(Msg) /\ recvtmp' \in Seq(Msg) /\ OnTheWay' = Append(OnTheWay, m)
  BY <1>2, <1>5, Collected DEF OnTheWay
<1>7. StoryOf(OnTheWay, told)'
  BY <1>2, <1>4, <1>5, <1>6, AppendInOrder DEF StoryInv
<1>8. ASSUME NEW c \in Conn, c > conns PROVE Fresh(c, Append(OnTheWay, m), told)
  <2>1. m.conn # c
    BY <1>3, <1>4, <1>5, <1>8 DEF LinkInv, LinkType, Conn
  <2>. QED  BY <1>5, <1>6, <1>8, <2>1, AppendKeeps DEF StoryInv
<1>9. Open(sock[f], Append(OnTheWay, m), told)
  <2>1. Open(sock[f], OnTheWay, told)
    BY <1>4 DEF Fresh, Open
  <2>. QED  BY <1>5, <1>6, <2>1, AppendKeeps
<1>10. map'[f] = sock[f] /\ \A g \in Fds \ {f} : sock'[g] = None /\ map'[g] = None
  BY <1>1, <1>2 DEF LinkAt, LinkInv, LinkType
<1>. QED  BY <1>2, <1>3, <1>4, <1>6, <1>7, <1>8, <1>9, <1>10 DEF StoryInv

\* The connection that is made is a new one.
LEMMA MainStory ==
    ASSUME ConstantsAssumption, LinkInv, StoryInv, MainStep
    PROVE  StoryInv'
<1>1. CASE CheckKey \/ ConnectFails
  BY <1>1, OthersStory DEF CheckKey, ConnectFails, kernel, queues
<1>2. CASE Connected
  <2>1. NoLink
    BY <1>2 DEF Connected, MainAt, LinkInv, LinkAt
  <2>2. PICK f \in Fds : sock' = [sock EXCEPT ![f] = conns + 1]
    BY <1>2 DEF Connected
  <2>3. /\ conns' = conns + 1 /\ conns < MaxConns
        /\ UNCHANGED <<map, recvtmp, recvq, told>>
    BY <1>2 DEF Connected, queues
  <2>4. conns \in Nat /\ conns + 1 \in Conn /\ conns + 1 > conns
    BY <2>3 DEF LinkInv, LinkType, Conn, ConstantsAssumption
  <2>5. Fresh(conns + 1, OnTheWay, told)
    BY <2>4 DEF StoryInv
  <2>6. ASSUME NEW g \in Fds
        PROVE  map[g] = None /\ (sock'[g] = None \/ sock'[g] = conns + 1)
    BY <2>1, <2>2 DEF NoLink, LinkInv, LinkType
  <2>7. \A c \in Conn : c > conns + 1 => c > conns
    BY <2>4 DEF Conn
  <2>8. \A g \in Fds : sock'[g] # None => sock'[g] <= conns'
    BY <2>3, <2>4, <2>6
  <2>. QED  BY <2>3, <2>5, <2>6, <2>7, <2>8 DEF StoryInv, OnTheWay
<1>3. CASE Enqueue
  <2>1. eventq = <<>>
    BY <1>3 DEF Enqueue, MainAt, LinkInv, NoLink, LinkAt, WithMain, InQueue, InMap
  <2>2. Len(eventq) < MaxEvents
    BY <2>1 DEF ConstantsAssumption
  <2>3. UNCHANGED <<conns, sock, map, recvtmp, recvq, told>>
    BY <1>3, <2>2 DEF Enqueue, kernel, queues
  <2>. QED  BY <2>3, OthersStory
<1>. QED  BY <1>1, <1>2, <1>3 DEF MainStep

LEMMA TakeStory ==
    ASSUME LinkInv, StoryInv, Take
    PROVE  StoryInv'
<1>. DEFINE w == OnTheWay
<1>1. /\ recvtmp \in Seq(Msg) /\ recvq \in Seq(Msg) /\ recvq # <<>>
      /\ recvq' = Tail(recvq) /\ UNCHANGED <<conns, sock, map, recvtmp>>
      /\ told' = [told EXCEPT ![Head(recvq).conn] = Head(recvq).kind]
      /\ told \in Told /\ StoryOf(OnTheWay, told)
  BY DEF StoryInv, Take, kernel
<1>2. /\ w \in Seq(Msg) /\ w # <<>> /\ Head(w) = Head(recvq)
      /\ Tail(w) = Tail(recvq) \o recvtmp /\ Tail(recvq) \in Seq(Msg)
  BY <1>1 DEF OnTheWay
<1>3. OnTheWay' = Tail(w)
  BY <1>1, <1>2 DEF OnTheWay
<1>. HIDE DEF w
<1>4. /\ told' \in Told /\ StoryOf(Tail(w), told')
      /\ \A c \in Conn : Fresh(c, w, told) => Fresh(c, Tail(w), told')
      /\ \A c \in Conn : Open(c, w, told) => Open(c, Tail(w), told')
  BY <1>1, <1>2, HearingKeeps DEF w
<1>5. \A f \in Fds : sock[f] \in Conn \cup {None} /\ map[f] \in Conn \cup {None}
  BY DEF LinkInv, LinkType
<1>. QED  BY <1>1, <1>2, <1>3, <1>4, <1>5 DEF StoryInv, w

LEMMA NextStoryInv ==
    ASSUME ConstantsAssumption, LinkInv, StoryInv, [Next]_vars
    PROVE  StoryInv'
<1>1. ASSUME NEW f \in Fds, RecvFull(f) PROVE StoryInv'
  BY <1>1, FullStory
<1>2. ASSUME NEW f \in Fds, RecvBad(f) PROVE StoryInv'
  BY <1>2, CloseStory DEF RecvBad, Visits
<1>3. ASSUME NEW f \in Fds, RecvEnds(f) PROVE StoryInv'
  <2>1. f \in todo /\ \E before \in {<<>>, <<Message(map[f], "data")>>} : CloseClient(f, before)
    BY <1>3 DEF RecvEnds, Visits
  <2>. QED  BY <2>1, CloseStory
<1>4. ASSUME NEW f \in Fds, RecvError(f) PROVE StoryInv'
  BY <1>4, OthersStory DEF RecvError, queues
<1>5. CASE FlushRecv
  BY <1>5, FlushStory
<1>6. CASE AddClient
  BY <1>6, AddStory
<1>7. CASE LookAtEvents \/ EndEvents \/ SwitchSendMap \/ DeleteUnknown \/ SendKeepalive
  BY <1>7, OthersStory
     DEF LookAtEvents, EndEvents, SwitchSendMap, DeleteUnknown, SendKeepalive, kernel, queues
<1>8. CASE MainStep
  BY <1>8, MainStory
<1>9. CASE Take
  BY <1>9, TakeStory
<1>10. ASSUME NEW f \in Fds, Arrive(f) \/ PeerLeaves(f) PROVE StoryInv'
  BY <1>10, OthersStory DEF Arrive, PeerLeaves, queues
<1>11. CASE UNCHANGED vars
  BY <1>11, OthersStory DEF vars, kernel, queues
<1>. QED  BY <1>1, <1>2, <1>3, <1>4, <1>5, <1>6, <1>7, <1>8, <1>9, <1>10, <1>11 DEF Next, LoopStep

LEMMA InitStoryInv ==
    ASSUME Init
    PROVE  StoryInv
<1>1. recvtmp = <<>> /\ recvq = <<>> /\ told = [c \in Conn |-> "nothing"]
  BY DEF Init
<1>2. OnTheWay = <<>> /\ recvtmp \in Seq(Msg) /\ recvq \in Seq(Msg)
  BY <1>1 DEF OnTheWay
<1>3. told \in Told /\ \A c \in Conn : told[c] = "nothing"
  BY <1>1 DEF Told
<1>4. StoryOf(<<>>, told) /\ \A c \in Conn : Fresh(c, <<>>, told)
  BY <1>3 DEF StoryOf, Fresh
<1>5. \A f \in Fds : sock[f] = None /\ map[f] = None
  BY DEF Init
<1>. QED  BY <1>2, <1>3, <1>4, <1>5 DEF StoryInv

LEMMA StoryInvInOrder ==
    ASSUME StoryInv
    PROVE  StoryInOrder
BY DEF StoryInv, StoryOf, StoryInOrder

\* For any sockets and any limits: of what reaches the worker of a connection
\* "connected" comes first and "disconnected" last.
THEOREM StoryInOrderCorrect == ASSUME ConstantsAssumption PROVE Spec => []StoryInOrder
<1>1. Init => LinkInv /\ StoryInv
  BY InitLinkInv, InitStoryInv
<1>2. LinkInv /\ StoryInv /\ [Next]_vars => LinkInv' /\ StoryInv'
  BY NextLinkInv, NextStoryInv
<1>3. StoryInv => StoryInOrder
  BY StoryInvInOrder
<1>. QED  BY <1>1, <1>2, <1>3, PTL DEF Spec

-----------------------------------------------------------------------------
(* The types: of what LinkInv and StoryInv say nothing.                    *)

RestType ==
    /\ conns \in 0 .. MaxConns
    /\ peer \in [Fds -> {"up", "ended", "reset"}] /\ waiting \subseteq Fds
    /\ cur \subseteq Fds /\ bak \subseteq Fds
    /\ pc \in {"sockets", "events", "drain", "switch", "delete", "ping", "dead"}
    /\ dropped \subseteq Conn

LEMMA InitRestType ==
    ASSUME ConstantsAssumption, Init
    PROVE  RestType
BY DEF Init, RestType, ConstantsAssumption

LEMMA LoopRestType ==
    ASSUME ConstantsAssumption, LinkInv, RestType, LoopStep
    PROVE  RestType'
<1>. USE DEF RestType
<1>1. \A f \in todo : f \in Fds /\ map[f] \in Conn
  BY DEF LinkInv, LinkType, Mapped
<1>2. ASSUME NEW f \in Fds, RecvFull(f) \/ RecvError(f) PROVE RestType'
  BY <1>1, <1>2 DEF RecvFull, RecvError, Visits, kernel, sendmaps
<1>3. ASSUME NEW f \in Fds, NEW before, CloseClient(f, before), EraseUnderLoop(f)
      PROVE  RestType'
  BY <1>3 DEF CloseClient, CloseSocket, EraseUnderLoop, sendmaps
<1>4. ASSUME NEW f \in Fds, RecvBad(f) \/ RecvEnds(f) PROVE RestType'
  BY <1>3, <1>4 DEF RecvBad, RecvEnds
<1>5. CASE FlushRecv \/ LookAtEvents \/ AddClient \/ EndEvents
  BY <1>5 DEF FlushRecv, LookAtEvents, AddClient, EndEvents, kernel, sendmaps
<1>6. CASE SwitchSendMap \/ DeleteUnknown
  BY <1>6 DEF SwitchSendMap, DeleteUnknown, kernel
<1>7. CASE SendKeepalive
  <2>1. key # None => key \in Fds
    BY DEF LinkInv, NoLink, LinkAt
  <2>. QED  BY <1>7, <2>1 DEF SendKeepalive, kernel
<1>. QED  BY <1>2, <1>4, <1>5, <1>6, <1>7 DEF LoopStep

LEMMA NextRestType ==
    ASSUME ConstantsAssumption, LinkInv, RestType, [Next]_vars
    PROVE  RestType'
<1>. USE DEF RestType
<1>1. CASE LoopStep
  BY <1>1, LoopRestType
<1>2. CASE CheckKey \/ ConnectFails
  BY <1>2 DEF CheckKey, ConnectFails, kernel, sendmaps
<1>3. CASE Connected
  BY <1>3 DEF Connected, ConstantsAssumption, sendmaps
<1>4. CASE Enqueue
  BY <1>4 DEF Enqueue, CloseSocket, kernel, sendmaps
<1>5. CASE Take
  BY <1>5 DEF Take, kernel, sendmaps
<1>6. ASSUME NEW f \in Fds, Arrive(f) \/ PeerLeaves(f) PROVE RestType'
  BY <1>6 DEF Arrive, PeerLeaves, sendmaps
<1>7. CASE UNCHANGED vars
  BY <1>7 DEF vars, kernel, sendmaps
<1>. QED  BY <1>1, <1>2, <1>3, <1>4, <1>5, <1>6, <1>7 DEF Next, MainStep

LEMMA AllTypes ==
    ASSUME LinkInv, StoryInv, RestType
    PROVE  TypeOK
<1>1. key \in OrNone(Fds) /\ eventq \in Seq(Fds)
  <2>1. key \in OrNone(Fds)
    BY DEF LinkInv, NoLink, LinkAt, OrNone
  <2>2. eventq = <<>> \/ \E f \in Fds : eventq = <<f>>
    BY DEF LinkInv, NoLink, LinkAt, WithMain, InQueue, InMap
  <2>3. <<>> \in Seq(Fds) /\ \A f \in Fds : <<f>> \in Seq(Fds)
    OBVIOUS
  <2>. QED  BY <2>1, <2>2, <2>3
<1>2. /\ sock \in [Fds -> OrNone(Conn)] /\ map \in [Fds -> OrNone(Conn)]
      /\ main \in [at : {"sleep", "connect", "queue"}, fd : OrNone(Fds)]
  BY DEF LinkInv, LinkType, OrNone
<1>3. /\ recvtmp \in Messages /\ recvq \in Messages
      /\ told \in [Conn -> {"nothing", "connected", "data", "disconnected"}]
  BY DEF StoryInv, Messages, Msg, Kinds, Told
<1>4. todo \subseteq Fds
  BY DEF LinkInv, Mapped
<1>. QED  BY <1>1, <1>2, <1>3, <1>4 DEF RestType, TypeOK

\* The types of the loop, of the main thread and of the queues between them: a
\* socket the loop visits is always one it has a connection for.
THEOREM TypeCorrect == ASSUME ConstantsAssumption PROVE Spec => []TypeOK
<1>1. Init => LinkInv /\ StoryInv /\ RestType
  BY InitLinkInv, InitStoryInv, InitRestType
<1>2. LinkInv /\ StoryInv /\ RestType /\ [Next]_vars => LinkInv' /\ StoryInv' /\ RestType'
  BY NextLinkInv, NextStoryInv, NextRestType
<1>. QED  BY <1>1, <1>2, AllTypes, PTL DEF Spec
=============================================================================
