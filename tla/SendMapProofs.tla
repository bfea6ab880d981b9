--------------------------- MODULE SendMapProofs ---------------------------
(***************************************************************************)
(* Proofs about the send path, for every set of descriptors and every      *)
(* value of the limits: its counters and locks, the order and the loss of  *)
(* messages, and that it implements MessageStream.                         *)
(***************************************************************************)
EXTENDS SendMap, TLAPS, SequenceTheorems

USE ConstantsAssumption DEF ConstantsAssumption

-----------------------------------------------------------------------------
(* Facts about sequences.                                                  *)

\* Changing one element of a sequence leaves a sequence of the same length.
LEMMA ExceptKeepsSeq ==
    ASSUME NEW S, NEW s \in Seq(S), NEW i \in 1 .. Len(s), NEW e \in S
    PROVE  /\ [s EXCEPT ![i] = e] \in Seq(S)
           /\ Len([s EXCEPT ![i] = e]) = Len(s)
  BY ExceptSeq

\* What Merge makes of two lists holds nothing else.
LEMMA MergeType ==
    ASSUME NEW S, NEW old \in Seq(S), NEW new \in Seq(S)
    PROVE  Merge(old, new) \in Seq(S)
<1>1. old \o new \in Seq(S) /\ new \o old \in Seq(S)
  BY ConcatProperties
<1>. QED  BY <1>1 DEF Merge

\* Append, for one set of elements.
LEMMA AppendType ==
    ASSUME NEW S, NEW s \in Seq(S), NEW e \in S
    PROVE  /\ Append(s, e) \in Seq(S)
           /\ Len(Append(s, e)) = Len(s) + 1
           /\ Append(s, e)[Len(s) + 1] = e
           /\ \A i \in 1 .. Len(s) : Append(s, e)[i] = s[i]
  BY AppendProperties

\* The fields of an entry.
LEMMA EntryFields ==
    ASSUME NEW e \in Entry
    PROVE  /\ e.id \in 1 .. MaxMsgs /\ e.conn \in 0 .. MaxConns
           /\ e.len \in 1 .. MaxLen /\ e.rest \in 1 .. e.len
           /\ e.rest \in Nat \ {0}
  BY DEF Entry

-----------------------------------------------------------------------------
(* The event loop: which descriptors it works on.                          *)

\* An event is about a connection that is in the map, a descriptor has one
\* event at most, and outside of the batch there is none.
EventsInv ==
    \A f \in Fds : \A k \in {"out", "end"} :
        <<f, k>> \in batch =>
            /\ live[f] # 0
            /\ pc \in {"batch", "send"}
            /\ pc = "send" => f # sending
            /\ k = "out" => <<f, "end">> \notin batch

\* An armed descriptor is connected, a descriptor that waits for ADD_CLIENT
\* is not, and the map knows every connection under its own descriptor.
LiveInv ==
    /\ armed \subseteq Live
    /\ \A f \in pending : live[f] = 0
    /\ pc = "send" => live[sending] # 0
    /\ \A f \in Fds : live[f] # 0 => conns[live[f]] = f

LoopInv == EventsInv /\ LiveInv

TypeInv == TypeOK /\ LoopInv

LEMMA InitTypeInv == Init => TypeInv
<1>. SUFFICES ASSUME Init PROVE TypeInv
  OBVIOUS
<1>. USE DEF Init
<1>1. LoopOK
  BY DEF LoopOK, PC
<1>2. ConnsOK
  BY DEF ConnsOK
<1>3. TableOK
  BY DEF TableOK
<1>4. MapsOK
  BY DEF MapsOK
<1>5. MsgsOK
  BY DEF MsgsOK
<1>6. WireOK
  BY DEF WireOK
<1>7. FlagsOK
  BY DEF FlagsOK
<1>8. LoopInv
  BY DEF LoopInv, EventsInv, LiveInv, Live
<1>. QED
  BY <1>1, <1>2, <1>3, <1>4, <1>5, <1>6, <1>7, <1>8 DEF TypeInv, TypeOK

\* No state other than that of the loop and the table matters to LoopInv.
LEMMA LoopInvFrame ==
    ASSUME LoopInv, UNCHANGED <<loop, table>>
    PROVE  LoopInv'
  BY DEF LoopInv, EventsInv, LiveInv, Live, loop, table

LEMMA AddMsgType ==
    ASSUME TypeInv, NEW f \in Fds, NEW c \in 0 .. MaxConns,
           NEW len \in 1 .. MaxLen, AddMsgToSendList(f, c, len)
    PROVE  TypeInv'
<1>1. MapsOK'
  <2>. DEFINE e == [id |-> Len(msgs) + 1, conn |-> c, len |-> len, rest |-> len]
  <2>1. e \in Entry
    BY DEF Entry, TypeInv, TypeOK, MsgsOK, AddMsgToSendList
  <2>2. cur[f] \in Seq(Entry)
    BY DEF TypeInv, TypeOK, MapsOK
  <2>3. Append(cur[f], e) \in Seq(Entry)
    BY <2>1, <2>2, AppendType
  <2>. QED  BY <2>3 DEF TypeInv, TypeOK, MapsOK, AddMsgToSendList
<1>2. MsgsOK'
  <2>. DEFINE r == [fd |-> f, conn |-> c, len |-> len]
  <2>1. r \in [fd : Fds, conn : 0 .. MaxConns, len : 1 .. MaxLen]
    OBVIOUS
  <2>2. msgs' = Append(msgs, r)
    BY DEF AddMsgToSendList
  <2>3. Len(msgs) < MaxMsgs
    BY DEF AddMsgToSendList
  <2>. QED  BY <2>1, <2>2, <2>3, AppendType DEF TypeInv, TypeOK, MsgsOK
<1>3. LoopOK' /\ ConnsOK' /\ TableOK' /\ WireOK' /\ FlagsOK'
  BY DEF TypeInv, TypeOK, LoopOK, ConnsOK, TableOK, WireOK, FlagsOK,
         AddMsgToSendList, loop, table
<1>4. LoopInv'
  BY LoopInvFrame DEF TypeInv, AddMsgToSendList
<1>. QED  BY <1>1, <1>2, <1>3, <1>4 DEF TypeInv, TypeOK

\* Connections that end leave everything typed.
LEMMA CloseClientsType ==
    ASSUME TypeInv, NEW F \in SUBSET Fds, CloseClients(F),
           UNCHANGED <<conns, pending>>
    PROVE  /\ ConnsOK' /\ TableOK'
           /\ \A f \in Fds : live'[f] = IF f \in F THEN 0 ELSE live[f]
           /\ \A f \in Fds : f \in armed' <=> f \in armed /\ f \notin F
<1>1. live \in [Fds -> 0 .. Len(conns)] /\ Len(conns) \in Nat
  BY DEF TypeInv, TypeOK, ConnsOK
<1>2. live' \in [Fds -> 0 .. Len(conns)]
  BY <1>1 DEF CloseClients
<1>. QED  BY <1>1, <1>2 DEF TypeInv, TypeOK, ConnsOK, TableOK, CloseClients

\* The connections in F are closed while no event is left.
LEMMA CloseClientsLoop ==
    ASSUME TypeInv, NEW F \in SUBSET Fds, CloseClients(F),
           UNCHANGED <<conns, pending, batch>>,
           pc \notin {"batch", "send"}, pc' # "send"
    PROVE  LoopInv'
<1>1. EventsInv'
  BY DEF TypeInv, LoopInv, EventsInv
<1>2. \A f \in Fds : live'[f] # 0 => live'[f] = live[f]
  BY CloseClientsType
<1>3. armed' \subseteq Live'
  BY CloseClientsType DEF TypeInv, LoopInv, LiveInv, Live, TableOK
<1>4. \A f \in pending : live'[f] = 0
  BY CloseClientsType DEF TypeInv, LoopInv, LiveInv, TypeOK, TableOK
<1>. QED  BY <1>1, <1>2, <1>3, <1>4 DEF TypeInv, LoopInv, LiveInv

\* What a new connection changes, and that it is typed.
LEMMA OpenConnType ==
    ASSUME TypeInv, NEW f \in Fds, NEW added \in BOOLEAN, OpenConn(f, added)
    PROVE  /\ ConnsOK' /\ WireOK'
           /\ Len(conns') = Len(conns) + 1
           /\ \A i \in 1 .. Len(conns) : conns'[i] = conns[i]
           /\ conns'[Len(conns) + 1] = f
           /\ \A g \in Fds : g # f => live'[g] = live[g]
           /\ live'[f] \in {0, Len(conns) + 1}
<1>1. conns \in Seq(Fds) /\ Len(conns) \in Nat /\ live \in [Fds -> 0 .. Len(conns)]
  BY DEF TypeInv, TypeOK, ConnsOK
<1>2. conns' = Append(conns, f) /\ Len(conns) < MaxConns
  BY DEF OpenConn
<1>3. /\ conns' \in Seq(Fds) /\ Len(conns') = Len(conns) + 1
      /\ \A i \in 1 .. Len(conns) : conns'[i] = conns[i]
      /\ conns'[Len(conns) + 1] = f
  BY <1>1, <1>2, AppendType
<1>4. WireOK'
  <2>1. <<>> \in Seq(Chunk)
    OBVIOUS
  <2>2. wire \in Seq(Seq(Chunk)) /\ Len(wire) = Len(conns)
    BY DEF TypeInv, TypeOK, WireOK
  <2>3. Append(wire, <<>>) \in Seq(Seq(Chunk))
    BY <2>1, <2>2, AppendType
  <2>4. Len(Append(wire, <<>>)) = Len(wire) + 1
    BY <2>1, <2>2, AppendType
  <2>. QED  BY <2>2, <2>3, <2>4, <1>3 DEF WireOK, OpenConn
<1>5. live' = [live EXCEPT ![f] = IF added THEN Len(conns) + 1 ELSE 0]
  BY DEF OpenConn
<1>6. /\ \A g \in Fds : g # f => live'[g] = live[g]
      /\ live'[f] \in {0, Len(conns) + 1}
  BY <1>1, <1>5
<1>7. ConnsOK'
  BY <1>1, <1>2, <1>3, <1>5 DEF ConnsOK
<1>. QED  BY <1>3, <1>4, <1>6, <1>7

\* A new connection of a free descriptor keeps the loop consistent.
LEMMA OpenConnLoop ==
    ASSUME TypeInv, NEW f \in Fds, NEW added \in BOOLEAN, OpenConn(f, added),
           live[f] = 0, pending' \subseteq pending, f \notin pending',
           UNCHANGED <<loop, armed>>
    PROVE  LoopInv'
<1>1. \A g \in Fds : live[g] # 0 => live'[g] = live[g]
  BY OpenConnType
<1>2. \A g \in Fds : live'[g] # 0 => conns'[live'[g]] = g
  <2>. SUFFICES ASSUME NEW g \in Fds, live'[g] # 0 PROVE conns'[live'[g]] = g
    OBVIOUS
  <2>1. CASE g = f
    BY <2>1, OpenConnType
  <2>2. CASE g # f
    <3>1. live'[g] = live[g] /\ live[g] \in 1 .. Len(conns)
      BY <2>2, OpenConnType DEF TypeInv, TypeOK, ConnsOK
    <3>2. conns[live[g]] = g
      BY <3>1 DEF TypeInv, LoopInv, LiveInv
    <3>. QED  BY <3>1, <3>2, OpenConnType
  <2>. QED  BY <2>1, <2>2
<1>3. EventsInv'
  BY <1>1 DEF TypeInv, LoopInv, EventsInv, loop
<1>4. armed' \subseteq Live'
  BY <1>1 DEF TypeInv, LoopInv, LiveInv, Live
<1>5. \A g \in pending' : live'[g] = 0
  BY OpenConnType DEF TypeInv, LoopInv, LiveInv, TypeOK, TableOK
<1>6. pc' = "send" => live'[sending'] # 0
  BY <1>1 DEF TypeInv, LoopInv, LiveInv, TypeOK, LoopOK, loop
<1>. QED  BY <1>2, <1>3, <1>4, <1>5, <1>6 DEF LoopInv, LiveInv

LEMMA DoAcceptType ==
    ASSUME TypeInv, NEW f \in Fds, NEW added \in BOOLEAN, DoAccept(f, added)
    PROVE  TypeInv'
<1>1. LoopInv'
  BY OpenConnLoop DEF DoAccept
<1>2. ConnsOK' /\ WireOK'
  BY OpenConnType DEF DoAccept
<1>3. LoopOK' /\ TableOK' /\ MapsOK' /\ MsgsOK' /\ FlagsOK'
  BY DEF TypeInv, TypeOK, LoopOK, TableOK, MapsOK, MsgsOK, FlagsOK, DoAccept,
         loop, maps
<1>. QED  BY <1>1, <1>2, <1>3 DEF TypeInv, TypeOK

LEMMA AddClientType ==
    ASSUME TypeInv, NEW f \in Fds, NEW added \in BOOLEAN, AddClient(f, added)
    PROVE  TypeInv'
<1>1. LoopInv'
  BY OpenConnLoop DEF AddClient, TypeInv, LoopInv, LiveInv
<1>2. ConnsOK' /\ WireOK'
  BY OpenConnType DEF AddClient
<1>3. LoopOK' /\ TableOK' /\ MapsOK' /\ MsgsOK' /\ FlagsOK'
  BY DEF TypeInv, TypeOK, LoopOK, TableOK, MapsOK, MsgsOK, FlagsOK, AddClient,
         loop, maps
<1>. QED  BY <1>1, <1>2, <1>3 DEF TypeInv, TypeOK

LEMMA EpollWaitType == TypeInv /\ EpollWait => TypeInv'
<1>. SUFFICES ASSUME TypeInv, EpollWait PROVE TypeInv'
  OBVIOUS
<1>1. PICK ended \in SUBSET Live :
        batch' = {<<f, "end">> : f \in ended}
                 \cup {<<f, "out">> : f \in {g \in armed \ ended : room[g] > 0}}
  BY DEF EpollWait
<1>2. pc = "wait" /\ pc' = "batch" /\ sending' = sending
  BY DEF EpollWait, Goto
<1>3. Live \subseteq Fds /\ armed \subseteq Live
  BY DEF Live, TypeInv, LoopInv, LiveInv
<1>4. LoopOK'
  BY <1>1, <1>2, <1>3 DEF TypeInv, TypeOK, LoopOK, PC, Event
<1>5. EventsInv'
  <2>. SUFFICES ASSUME NEW f \in Fds, NEW k \in {"out", "end"}, <<f, k>> \in batch'
                PROVE  live'[f] # 0 /\ (k = "out" => <<f, "end">> \notin batch')
    BY <1>2 DEF EventsInv
  <2>1. f \in Live
    BY <1>1, <1>3
  <2>2. k = "out" => f \notin ended
    BY <1>1
  <2>3. f \notin ended => <<f, "end">> \notin batch'
    BY <1>1
  <2>. QED  BY <2>1, <2>2, <2>3 DEF Live, EpollWait, table
<1>6. LiveInv'
  BY <1>2 DEF TypeInv, LoopInv, LiveInv, Live, EpollWait, table
<1>7. ConnsOK' /\ TableOK' /\ MapsOK' /\ MsgsOK' /\ WireOK' /\ FlagsOK'
  BY DEF TypeInv, TypeOK, ConnsOK, TableOK, MapsOK, MsgsOK, WireOK, FlagsOK,
         EpollWait, table, maps
<1>. QED  BY <1>4, <1>5, <1>6, <1>7 DEF TypeInv, TypeOK, LoopInv

LEMMA PeerClosedType ==
    ASSUME TypeInv, NEW f \in Fds, PeerClosed(f)
    PROVE  TypeInv'
<1>1. /\ pc = "batch" /\ pc' = "batch" /\ sending' = sending
      /\ <<f, "end">> \in batch /\ batch' = batch \ {<<f, "end">>}
      /\ CloseClients({f}) /\ UNCHANGED <<conns, pending>>
  BY DEF PeerClosed
<1>2. /\ ConnsOK' /\ TableOK'
      /\ \A g \in Fds : live'[g] = IF g \in {f} THEN 0 ELSE live[g]
      /\ \A g \in Fds : g \in armed' <=> g \in armed /\ g \notin {f}
  BY <1>1, CloseClientsType
<1>3. LoopOK' /\ MapsOK' /\ MsgsOK' /\ WireOK' /\ FlagsOK'
  BY <1>1 DEF TypeInv, TypeOK, LoopOK, MapsOK, MsgsOK, WireOK, FlagsOK,
         PeerClosed, maps
<1>4. EventsInv'
  BY <1>1, <1>2 DEF TypeInv, LoopInv, EventsInv
<1>5. armed' \subseteq Live'
  BY <1>2 DEF TypeInv, LoopInv, LiveInv, Live, TableOK
<1>6. LiveInv'
  BY <1>1, <1>2, <1>5 DEF TypeInv, LoopInv, LiveInv, TypeOK, TableOK
<1>. QED  BY <1>2, <1>3, <1>4, <1>6 DEF TypeInv, TypeOK, LoopInv

LEMMA BeginSendType ==
    ASSUME TypeInv, NEW f \in Fds, BeginSend(f)
    PROVE  TypeInv'
<1>1. /\ pc = "batch" /\ pc' = "send" /\ sending' = f
      /\ <<f, "out">> \in batch /\ batch' = batch \ {<<f, "out">>}
  BY DEF BeginSend, Goto
<1>2. live[f] # 0 /\ <<f, "end">> \notin batch
  BY <1>1 DEF TypeInv, LoopInv, EventsInv
<1>3. LoopOK'
  BY <1>1 DEF TypeInv, TypeOK, LoopOK, PC
<1>4. ConnsOK' /\ TableOK' /\ MapsOK' /\ MsgsOK' /\ WireOK' /\ FlagsOK'
  BY DEF TypeInv, TypeOK, ConnsOK, TableOK, MapsOK, MsgsOK, WireOK, FlagsOK,
         BeginSend, table, maps
<1>5. EventsInv'
  BY <1>1, <1>2 DEF TypeInv, LoopInv, EventsInv, BeginSend, table
<1>6. LiveInv'
  BY <1>1, <1>2 DEF TypeInv, LoopInv, LiveInv, Live, BeginSend, table
<1>. QED  BY <1>3, <1>4, <1>5, <1>6 DEF TypeInv, TypeOK, LoopInv

\* While doSendMessage has a message in hand.
LEMMA SendingFacts ==
    ASSUME TypeInv, Sending
    PROVE  /\ sending \in Fds /\ pc = "send"
           /\ live[sending] \in 1 .. Len(conns)
           /\ bak[sending] \in Seq(Entry) /\ bak[sending] # <<>>
           /\ Front1 \in Entry /\ Front1 = bak[sending][1]
           /\ Tail(bak[sending]) \in Seq(Entry)
           /\ Len(Tail(bak[sending])) = Len(bak[sending]) - 1
           /\ \A p \in 1 .. Len(bak[sending]) - 1 :
                 Tail(bak[sending])[p] = bak[sending][p + 1]
<1>1. pc = "send" /\ bak[sending] # <<>>
  BY DEF Sending
<1>2. sending \in Fds
  BY <1>1 DEF TypeInv, TypeOK, LoopOK
<1>3. live[sending] \in 1 .. Len(conns)
  BY <1>1, <1>2 DEF TypeInv, TypeOK, ConnsOK, LoopInv, LiveInv
<1>4. bak[sending] \in Seq(Entry)
  BY <1>2 DEF TypeInv, TypeOK, MapsOK
<1>5. Front1 \in Entry /\ Front1 = bak[sending][1]
  BY <1>1, <1>4 DEF Front1
<1>6. /\ Tail(bak[sending]) \in Seq(Entry)
      /\ Len(Tail(bak[sending])) = Len(bak[sending]) - 1
      /\ \A p \in 1 .. Len(bak[sending]) - 1 :
            Tail(bak[sending])[p] = bak[sending][p + 1]
  BY <1>1, <1>4, HeadTailProperties
<1>. QED  BY <1>1, <1>2, <1>3, <1>4, <1>5, <1>6

LEMMA DropStaleType == TypeInv /\ DropStale => TypeInv'
<1>. SUFFICES ASSUME TypeInv, DropStale PROVE TypeInv'
  OBVIOUS
<1>1. MapsOK'
  BY SendingFacts DEF TypeInv, TypeOK, MapsOK, DropStale
<1>2. LoopOK' /\ ConnsOK' /\ TableOK' /\ MsgsOK' /\ WireOK' /\ FlagsOK'
  BY DEF TypeInv, TypeOK, LoopOK, ConnsOK, TableOK, MsgsOK, WireOK, FlagsOK,
         DropStale, loop, table
<1>3. LoopInv'
  BY LoopInvFrame DEF TypeInv, DropStale
<1>. QED  BY <1>1, <1>2, <1>3 DEF TypeInv, TypeOK

\* What Write puts on the wire and takes from the buffer is typed, and only
\* the connection of the descriptor sees it.
LEMMA WriteType ==
    ASSUME TypeInv, Sending, NEW n \in Nat, n <= Front1.rest,
           n <= room[sending],
           Write(Front1, n), UNCHANGED conns
    PROVE  /\ WireOK' /\ room' \in [Fds -> 0 .. SndBuf]
           /\ Len(wire'[live[sending]]) = Len(wire[live[sending]]) + 1
           /\ wire'[live[sending]][Len(wire[live[sending]]) + 1] =
                 [id |-> Front1.id, from |-> Front1.len - Front1.rest,
                  to |-> Front1.len - Front1.rest + n]
           /\ \A p \in 1 .. Len(wire[live[sending]]) :
                 wire'[live[sending]][p] = wire[live[sending]][p]
           /\ \A i \in 1 .. Len(wire) : i # live[sending] => wire'[i] = wire[i]
<1>. DEFINE i == live[sending]
            c == [id |-> Front1.id, from |-> Front1.len - Front1.rest,
                  to |-> Front1.len - Front1.rest + n]
<1>1. c \in Chunk
  <2>1. Front1 \in Entry
    BY SendingFacts
  <2>. HIDE DEF Front1
  <2>2. /\ Front1.id \in 1 .. MaxMsgs /\ Front1.len \in 1 .. MaxLen
        /\ Front1.rest \in 1 .. Front1.len
    BY <2>1 DEF Entry
  <2>3. /\ Front1.len - Front1.rest \in 0 .. MaxLen
        /\ Front1.len - Front1.rest + n \in 0 .. MaxLen
    BY <2>2
  <2>. QED  BY <2>2, <2>3 DEF Chunk
<1>2. wire \in Seq(Seq(Chunk)) /\ i \in 1 .. Len(wire) /\ Len(wire) = Len(conns)
  BY SendingFacts DEF TypeInv, TypeOK, WireOK
<1>3. wire[i] \in Seq(Chunk)
  BY <1>2
<1>4. /\ Append(wire[i], c) \in Seq(Chunk)
      /\ Len(Append(wire[i], c)) = Len(wire[i]) + 1
      /\ Append(wire[i], c)[Len(wire[i]) + 1] = c
      /\ \A p \in 1 .. Len(wire[i]) : Append(wire[i], c)[p] = wire[i][p]
  BY <1>1, <1>3, AppendType
<1>5. wire' = [wire EXCEPT ![i] = Append(wire[i], c)]
  BY DEF Write
<1>. HIDE DEF i, c
<1>6. wire' \in Seq(Seq(Chunk)) /\ Len(wire') = Len(wire)
  BY <1>2, <1>4, <1>5, ExceptKeepsSeq
<1>7. wire'[i] = Append(wire[i], c)
  BY <1>2, <1>5
<1>8. \A j \in 1 .. Len(wire) : j # i => wire'[j] = wire[j]
  BY <1>2, <1>5
<1>9. room' \in [Fds -> 0 .. SndBuf]
  BY SendingFacts DEF Write, TypeInv, TypeOK, TableOK
<1>. QED  BY <1>2, <1>4, <1>6, <1>7, <1>8, <1>9 DEF WireOK, i, c

LEMMA SendWholeType == TypeInv /\ SendWhole => TypeInv'
<1>. SUFFICES ASSUME TypeInv, SendWhole PROVE TypeInv'
  OBVIOUS
<1>1. /\ Sending /\ Write(Front1, Front1.rest) /\ Front1.rest <= room[sending]
      /\ bak' = [bak EXCEPT ![sending] = Tail(@)]
      /\ UNCHANGED <<loop, table, cur, msgs, spilled, crashed>>
  BY DEF SendWhole
<1>2. WireOK' /\ room' \in [Fds -> 0 .. SndBuf]
  <2>1. PICK n \in Nat : n = Front1.rest
    BY <1>1, SendingFacts DEF Entry
  <2>2. n <= Front1.rest /\ n <= room[sending] /\ Write(Front1, n) /\ UNCHANGED conns
    BY <1>1, <2>1 DEF Write, table
  <2>. QED  BY <1>1, <2>2, WriteType
<1>4. MapsOK'
  BY <1>1, SendingFacts DEF TypeInv, TypeOK, MapsOK
<1>5. LoopOK' /\ ConnsOK' /\ TableOK' /\ MsgsOK' /\ FlagsOK'
  BY <1>1, <1>2 DEF TypeInv, TypeOK, LoopOK, ConnsOK, TableOK, MsgsOK, FlagsOK,
         loop, table
<1>6. LoopInv'
  BY <1>1, LoopInvFrame DEF TypeInv
<1>. QED  BY <1>2, <1>4, <1>5, <1>6 DEF TypeInv, TypeOK

\* doSendMessage is done: an armed descriptor less, and no descriptor in hand.
LEMMA BackToInputLoop ==
    ASSUME TypeInv, pc = "send", BackToInput, UNCHANGED <<batch, conns, live, pending>>
    PROVE  LoopOK' /\ LoopInv' /\ armed' \in SUBSET Fds
<1>1. LoopOK'
  BY DEF TypeInv, TypeOK, LoopOK, PC, BackToInput
<1>2. EventsInv'
  BY DEF TypeInv, LoopInv, EventsInv, BackToInput
<1>3. LiveInv'
  BY DEF TypeInv, LoopInv, LiveInv, Live, BackToInput
<1>4. armed' \in SUBSET Fds
  BY DEF TypeInv, TypeOK, TableOK, BackToInput
<1>. QED  BY <1>1, <1>2, <1>3, <1>4 DEF LoopInv

\* What is left of a message after a part of it was written.
LEMMA RemainderType ==
    ASSUME NEW m \in Entry, NEW n \in Nat, n < m.rest
    PROVE  /\ Remainder(m, n) \in Entry
           /\ Remainder(m, n).id = m.id /\ Remainder(m, n).conn = m.conn
           /\ Remainder(m, n).len = m.len /\ Remainder(m, n).rest = m.rest - n
  BY DEF Entry, Remainder

LEMMA SendPartType == TypeInv /\ SendPart => TypeInv'
<1>. SUFFICES ASSUME TypeInv, SendPart PROVE TypeInv'
  OBVIOUS
<1>1. /\ Sending /\ room[sending] < Front1.rest /\ BackToInput
      /\ UNCHANGED <<batch, conns, live, pending, cur, msgs, spilled, crashed>>
  BY DEF SendPart
<1>2. LoopOK' /\ LoopInv' /\ armed' \in SUBSET Fds
  BY <1>1, BackToInputLoop, SendingFacts
<1>3. room[sending] \in Nat /\ room[sending] <= Front1.rest
  BY <1>1, SendingFacts DEF TypeInv, TypeOK, TableOK, Entry
<1>4. WireOK' /\ MapsOK' /\ room' \in [Fds -> 0 .. SndBuf]
  <2>1. CASE room[sending] > 0
    <3>1. /\ Write(Front1, room[sending])
          /\ bak' = [bak EXCEPT ![sending] =
                        <<Remainder(Front1, room[sending])>> \o Tail(@)]
      BY <2>1 DEF SendPart
    <3>2. WireOK' /\ room' \in [Fds -> 0 .. SndBuf]
      <4>1. PICK n \in Nat : n = room[sending]
        BY <1>3
      <4>2. n <= Front1.rest /\ n <= room[sending] /\ Write(Front1, n)
        BY <1>3, <3>1, <4>1 DEF Write
      <4>. QED  BY <1>1, <4>2, WriteType
    <3>3. Remainder(Front1, room[sending]) \in Entry
      BY <1>1, <1>3, SendingFacts, RemainderType
    <3>4. <<Remainder(Front1, room[sending])>> \in Seq(Entry)
      BY <3>3
    <3>5. <<Remainder(Front1, room[sending])>> \o Tail(bak[sending]) \in Seq(Entry)
      BY <1>1, <3>4, SendingFacts, ConcatProperties
    <3>6. MapsOK'
      BY <1>1, <3>1, <3>5, SendingFacts DEF TypeInv, TypeOK, MapsOK
    <3>. QED  BY <3>2, <3>6
  <2>2. CASE ~(room[sending] > 0)
    BY <1>1, <2>2 DEF SendPart, TypeInv, TypeOK, WireOK, MapsOK, TableOK
  <2>. QED  BY <2>1, <2>2
<1>5. ConnsOK' /\ TableOK' /\ MsgsOK' /\ FlagsOK'
  BY <1>1, <1>2, <1>4 DEF TypeInv, TypeOK, ConnsOK, TableOK, MsgsOK, FlagsOK
<1>. QED  BY <1>2, <1>4, <1>5 DEF TypeInv, TypeOK

LEMMA SendFailsType == TypeInv /\ SendFails => TypeInv'
<1>. SUFFICES ASSUME TypeInv, SendFails PROVE TypeInv'
  OBVIOUS
<1>1. /\ Sending /\ CloseClients({sending}) /\ pc' = "batch" /\ sending' = None
      /\ bak' = [bak EXCEPT ![sending] = <<>>]
      /\ UNCHANGED <<batch, conns, pending, cur, msgs, wire, spilled, crashed>>
  BY DEF SendFails
<1>2. sending \in Fds /\ pc = "send"
  BY <1>1, SendingFacts
<1>3. /\ ConnsOK' /\ TableOK'
      /\ \A g \in Fds : live'[g] = IF g \in {sending} THEN 0 ELSE live[g]
      /\ \A g \in Fds : g \in armed' <=> g \in armed /\ g \notin {sending}
  BY <1>1, <1>2, CloseClientsType
<1>4. LoopOK' /\ MapsOK' /\ MsgsOK' /\ WireOK' /\ FlagsOK'
  BY <1>1, <1>2 DEF TypeInv, TypeOK, LoopOK, PC, MapsOK, MsgsOK, WireOK, FlagsOK
<1>5. EventsInv'
  BY <1>1, <1>2, <1>3 DEF TypeInv, LoopInv, EventsInv
<1>6. armed' \subseteq Live'
  BY <1>3 DEF TypeInv, LoopInv, LiveInv, Live, TableOK
<1>7. LiveInv'
  BY <1>1, <1>2, <1>3, <1>6 DEF TypeInv, LoopInv, LiveInv, TypeOK, TableOK
<1>. QED  BY <1>3, <1>4, <1>5, <1>7 DEF TypeInv, TypeOK, LoopInv

LEMMA EndSendType == TypeInv /\ EndSend => TypeInv'
<1>. SUFFICES ASSUME TypeInv, EndSend PROVE TypeInv'
  OBVIOUS
<1>1. LoopOK' /\ LoopInv' /\ armed' \in SUBSET Fds
  BY BackToInputLoop DEF EndSend
<1>2. ConnsOK' /\ TableOK' /\ MapsOK' /\ MsgsOK' /\ WireOK' /\ FlagsOK'
  BY <1>1 DEF EndSend, TypeInv, TypeOK, ConnsOK, TableOK, MapsOK, MsgsOK, WireOK,
         FlagsOK, maps
<1>. QED  BY <1>1, <1>2 DEF TypeInv, TypeOK

\* The steps of the loop that only move it on.
LEMMA MoveOnType == TypeInv /\ (EndBatch \/ EndEvents) => TypeInv'
<1>. SUFFICES ASSUME TypeInv, EndBatch \/ EndEvents PROVE TypeInv'
  OBVIOUS
<1>1. /\ pc # "send" /\ pc' \in PC \ {"send"}
      /\ pc' \in {"batch", "send"} \/ batch = {} \/ pc \notin {"batch", "send"}
      /\ UNCHANGED <<batch, sending, table, room, maps, msgs, wire, spilled, crashed>>
  BY DEF EndBatch, EndEvents, Goto, PC
<1>2. LoopOK'
  BY <1>1 DEF TypeInv, TypeOK, LoopOK
<1>3. ConnsOK' /\ TableOK' /\ MapsOK' /\ MsgsOK' /\ WireOK' /\ FlagsOK'
  BY <1>1 DEF TypeInv, TypeOK, ConnsOK, TableOK, MapsOK, MsgsOK, WireOK,
         FlagsOK, maps, table
<1>4. EventsInv'
  BY <1>1 DEF TypeInv, LoopInv, EventsInv, table
<1>5. LiveInv'
  BY <1>1 DEF TypeInv, LoopInv, LiveInv, Live, table
<1>. QED  BY <1>2, <1>3, <1>4, <1>5 DEF TypeInv, TypeOK, LoopInv

LEMMA SwitchSendMapType == TypeInv /\ SwitchSendMap => TypeInv'
<1>. SUFFICES ASSUME TypeInv, SwitchSendMap PROVE TypeInv'
  OBVIOUS
<1>1. /\ pc = "switch" /\ pc' = "arm"
      /\ bak' = [f \in Fds |-> Merge(bak[f], cur[f])]
      /\ cur' = [f \in Fds |-> <<>>]
      /\ spilled' = spilled \cup {f \in Fds : Overflows(bak[f], cur[f])}
      /\ UNCHANGED <<batch, sending, table, room, msgs, wire, crashed>>
  BY DEF SwitchSendMap, Goto
<1>2. MapsOK'
  <2>1. \A f \in Fds : Merge(bak[f], cur[f]) \in Seq(Entry)
    BY MergeType DEF TypeInv, TypeOK, MapsOK
  <2>2. <<>> \in Seq(Entry)
    OBVIOUS
  <2>. QED  BY <1>1, <2>1, <2>2 DEF MapsOK
<1>3. LoopOK'
  BY <1>1 DEF TypeInv, TypeOK, LoopOK, PC
<1>4. ConnsOK' /\ TableOK' /\ MsgsOK' /\ WireOK' /\ FlagsOK'
  BY <1>1 DEF TypeInv, TypeOK, ConnsOK, TableOK, MsgsOK, WireOK, FlagsOK, table
<1>5. EventsInv'
  BY <1>1 DEF TypeInv, LoopInv, EventsInv, table
<1>6. LiveInv'
  BY <1>1 DEF TypeInv, LoopInv, LiveInv, Live, table
<1>. QED  BY <1>2, <1>3, <1>4, <1>5, <1>6 DEF TypeInv, TypeOK, LoopInv

LEMMA ArmOutputType == TypeInv /\ ArmOutput => TypeInv'
<1>. SUFFICES ASSUME TypeInv, ArmOutput PROVE TypeInv'
  OBVIOUS
<1>1. /\ pc = "arm" /\ pc' = "keepalive"
      /\ UNCHANGED <<batch, sending, conns, pending, cur, msgs, wire, spilled, crashed>>
  BY DEF ArmOutput, Goto
<1>2. PICK failed \in SUBSET (Waiting \cap Live) :
        /\ live' = [f \in Fds |-> IF f \in failed THEN 0 ELSE live[f]]
        /\ room' = [f \in Fds |-> IF f \in failed THEN SndBuf ELSE room[f]]
        /\ armed' = (armed \cup (Waiting \cap Live)) \ failed
        /\ bak' = [f \in Fds |-> IF f \in Missing \cup failed
                                   THEN <<>> ELSE bak[f]]
  BY DEF ArmOutput
<1>3. Waiting \subseteq Fds /\ Live \subseteq Fds /\ armed \subseteq Live
  BY DEF Waiting, Live, TypeInv, LoopInv, LiveInv
<1>4. MapsOK'
  BY <1>1, <1>2 DEF TypeInv, TypeOK, MapsOK
<1>5. ConnsOK'
  <2>1. live \in [Fds -> 0 .. Len(conns)] /\ Len(conns) \in Nat
    BY DEF TypeInv, TypeOK, ConnsOK
  <2>. QED  BY <1>1, <1>2, <2>1 DEF TypeInv, TypeOK, ConnsOK
<1>6. TableOK'
  BY <1>1, <1>2, <1>3 DEF TypeInv, TypeOK, TableOK
<1>7. LoopOK' /\ MsgsOK' /\ WireOK' /\ FlagsOK'
  BY <1>1 DEF TypeInv, TypeOK, LoopOK, PC, MsgsOK, WireOK, FlagsOK
<1>8. EventsInv'
  BY <1>1 DEF TypeInv, LoopInv, EventsInv
<1>9. armed' \subseteq Live'
  BY <1>2, <1>3 DEF Live
<1>10. LiveInv'
  BY <1>1, <1>2, <1>9 DEF TypeInv, LoopInv, LiveInv, TypeOK, TableOK
<1>. QED  BY <1>4, <1>5, <1>6, <1>7, <1>8, <1>10 DEF TypeInv, TypeOK, LoopInv

LEMMA KeepaliveTimeoutType == TypeInv /\ KeepaliveTimeout => TypeInv'
<1>. SUFFICES ASSUME TypeInv, KeepaliveTimeout PROVE TypeInv'
  OBVIOUS
<1>1. /\ pc = "keepalive" /\ pc' = "wait"
      /\ UNCHANGED <<batch, sending, conns, pending, maps, msgs, wire, spilled, crashed>>
  BY DEF KeepaliveTimeout, Goto
<1>2. PICK silent \in SUBSET Live : CloseClients(silent)
  BY DEF KeepaliveTimeout
<1>3. silent \in SUBSET Fds
  BY DEF Live
<1>4. ConnsOK' /\ TableOK' /\ LoopInv'
  BY <1>1, <1>2, <1>3, CloseClientsType, CloseClientsLoop
<1>5. LoopOK' /\ MapsOK' /\ MsgsOK' /\ WireOK' /\ FlagsOK'
  BY <1>1 DEF TypeInv, TypeOK, LoopOK, PC, MapsOK, MsgsOK, WireOK, FlagsOK, maps
<1>. QED  BY <1>4, <1>5 DEF TypeInv, TypeOK

LEMMA CloseClientType ==
    ASSUME TypeInv, NEW f \in Fds, CloseClient(f)
    PROVE  TypeInv'
<1>1. /\ pc = "events" /\ CloseClients({f})
      /\ UNCHANGED <<loop, conns, pending, maps, msgs, wire, spilled, crashed>>
  BY DEF CloseClient
<1>2. ConnsOK' /\ TableOK' /\ LoopInv'
  BY <1>1, CloseClientsType, CloseClientsLoop DEF loop
<1>3. LoopOK' /\ MapsOK' /\ MsgsOK' /\ WireOK' /\ FlagsOK'
  BY <1>1 DEF TypeInv, TypeOK, LoopOK, MapsOK, MsgsOK, WireOK, FlagsOK, maps, loop
<1>. QED  BY <1>2, <1>3 DEF TypeInv, TypeOK

\* The main thread and the network touch one set each.
LEMMA EnvironmentType ==
    ASSUME TypeInv, NEW f \in Fds, ConnectServer(f) \/ Drain(f)
    PROVE  TypeInv'
<1>1. TableOK'
  BY DEF TypeInv, TypeOK, TableOK, ConnectServer, Drain, table
<1>2. LoopOK' /\ ConnsOK' /\ MapsOK' /\ MsgsOK' /\ WireOK' /\ FlagsOK'
  BY DEF TypeInv, TypeOK, LoopOK, ConnsOK, MapsOK, MsgsOK, WireOK, FlagsOK,
         ConnectServer, Drain, loop, table, maps
<1>3. EventsInv'
  BY DEF TypeInv, LoopInv, EventsInv, ConnectServer, Drain, loop, table
<1>4. LiveInv'
  BY DEF TypeInv, LoopInv, LiveInv, Live, ConnectServer, Drain, loop, table
<1>. QED  BY <1>1, <1>2, <1>3, <1>4 DEF TypeInv, TypeOK, LoopInv

\* A crash, a dead process and a step of something else.
LEMMA StutterType ==
    ASSUME TypeInv, ArmCrash \/ Dead \/ UNCHANGED vars
    PROVE  TypeInv'
<1>1. UNCHANGED <<loop, table, room, maps, msgs, wire, spilled>> /\ crashed' \in BOOLEAN
  BY DEF ArmCrash, Dead, vars, TypeInv, TypeOK, FlagsOK
<1>2. TypeOK'
  BY <1>1 DEF TypeInv, TypeOK, LoopOK, ConnsOK, TableOK, MapsOK, MsgsOK, WireOK,
         FlagsOK, loop, table, maps
<1>3. LoopInv'
  BY <1>1, LoopInvFrame DEF TypeInv
<1>. QED  BY <1>2, <1>3 DEF TypeInv

LEMMA SendArguments ==
    ASSUME TypeInv, Send
    PROVE  \E f \in Fds, c \in 0 .. MaxConns, len \in 1 .. MaxLen :
              /\ AddMsgToSendList(f, c, len)
              /\ c = 0 \/ (c \in 1 .. Len(conns) /\ f = conns[c])
<1>1. CASE \E i \in 1 .. Len(conns), len \in 1 .. MaxLen : SendToConn(i, len)
  <2>1. PICK i \in 1 .. Len(conns), len \in 1 .. MaxLen : SendToConn(i, len)
    BY <1>1
  <2>2. conns[i] \in Fds /\ i \in 0 .. MaxConns
    BY DEF TypeInv, TypeOK, ConnsOK
  <2>. QED  BY <2>1, <2>2 DEF SendToConn
<1>2. CASE \E f \in Fds, len \in 1 .. MaxLen : SendToPending(f, len)
  BY <1>2 DEF SendToPending
<1>. QED  BY <1>1, <1>2 DEF Send

LEMMA NextType == TypeInv /\ [Next]_vars => TypeInv'
<1>. SUFFICES ASSUME TypeInv, [Next]_vars PROVE TypeInv'
  OBVIOUS
<1>1. CASE Send
  BY <1>1, SendArguments, AddMsgType
<1>2. ASSUME NEW f \in Fds, ConnectServer(f) \/ Drain(f) \/ CloseClient(f)
      PROVE  TypeInv'
  BY <1>2, EnvironmentType, CloseClientType
<1>3. ASSUME NEW f \in Fds, NEW added \in BOOLEAN, DoAccept(f, added) \/ AddClient(f, added)
      PROVE  TypeInv'
  BY <1>3, DoAcceptType, AddClientType
<1>4. CASE Loop
  <2>1. ASSUME NEW f \in Fds, PeerClosed(f) \/ BeginSend(f) PROVE TypeInv'
    BY <2>1, PeerClosedType, BeginSendType
  <2>2. CASE EpollWait \/ DropStale \/ SendWhole \/ SendPart \/ SendFails \/ EndSend
    BY <2>2, EpollWaitType, DropStaleType, SendWholeType, SendPartType,
       SendFailsType, EndSendType
  <2>3. CASE EndBatch \/ EndEvents \/ SwitchSendMap \/ ArmOutput \/ KeepaliveTimeout
    BY <2>3, MoveOnType, SwitchSendMapType, ArmOutputType, KeepaliveTimeoutType
  <2>4. CASE ArmCrash
    BY <2>4, StutterType
  <2>. QED  BY <1>4, <2>1, <2>2, <2>3, <2>4 DEF Loop
<1>5. CASE Dead \/ UNCHANGED vars
  BY <1>5, StutterType
<1>. QED  BY <1>1, <1>2, <1>3, <1>4, <1>5 DEF Next

THEOREM TypeInvariant == Spec => []TypeInv
<1>. QED  BY InitTypeInv, NextType, PTL DEF Spec

\* TypeOK for every set of descriptors, every limit and every history: above
\* all, doSendMessage only runs for a connection that is in m_socketmap.
THEOREM TypeCorrect == Spec => []TypeOK
<1>1. TypeInv => TypeOK
  BY DEF TypeInv
<1>. QED  BY <1>1, TypeInvariant, PTL

-----------------------------------------------------------------------------
(* The kinds of steps: what each can do to messages, lists and streams.    *)

\* A step that hands out connections, closes some, or deletes the backup list
\* of a descriptor it leaves without a connection.
Quiet ==
    /\ UNCHANGED <<cur, msgs, spilled>>
    /\ \A f \in Fds : bak'[f] = bak[f] \/ (bak'[f] = <<>> /\ live'[f] = 0)
    /\ Len(conns') >= Len(conns)
    /\ \A i \in 1 .. Len(conns) : conns'[i] = conns[i] /\ wire'[i] = wire[i]
    /\ \A i \in Len(conns) + 1 .. Len(conns') : wire'[i] = <<>>
    /\ \A f \in Fds : \/ live'[f] = 0 \/ live'[f] = live[f]
                      \/ live'[f] \in Len(conns) + 1 .. Len(conns')

\* SendWhole and SendPart: n units of the first message reach the socket.
SendSome(n) ==
    /\ Sending
    /\ IsCurrent(Front1, sending)
    /\ Write(Front1, n)
    /\ bak' = [bak EXCEPT ![sending] =
                  IF n = Front1.rest THEN Tail(@)
                  ELSE <<Remainder(Front1, n)>> \o Tail(@)]
    /\ n <= room[sending]
    /\ UNCHANGED <<conns, live, cur, msgs, spilled>>

\* A step that leaves connections, lists and streams alone is quiet.
LEMMA QuietFrame ==
    ASSUME TypeInv, UNCHANGED <<conns, live, cur, bak, msgs, wire, spilled>>
    PROVE  Quiet
<1>1. Len(conns) \in Nat
  BY DEF TypeInv, TypeOK, ConnsOK
<1>. QED  BY <1>1 DEF Quiet

LEMMA QuietClose ==
    ASSUME TypeInv, NEW F \in SUBSET Fds, CloseClients(F),
           UNCHANGED <<conns, pending, cur, msgs, wire, spilled>>,
           \A f \in Fds : bak'[f] = bak[f] \/ (bak'[f] = <<>> /\ f \in F)
    PROVE  Quiet
<1>1. Len(conns) \in Nat
  BY DEF TypeInv, TypeOK, ConnsOK
<1>. QED  BY <1>1, CloseClientsType DEF Quiet

LEMMA QuietOpen ==
    ASSUME TypeInv, NEW f \in Fds, NEW added \in BOOLEAN, OpenConn(f, added),
           UNCHANGED <<cur, bak, msgs, spilled>>
    PROVE  Quiet
<1>1. Len(conns) \in Nat /\ wire \in Seq(Seq(Chunk)) /\ Len(wire) = Len(conns)
  BY DEF TypeInv, TypeOK, ConnsOK, WireOK
<1>2. \A i \in 1 .. Len(conns) : wire'[i] = wire[i]
  BY <1>1 DEF OpenConn
<1>3. wire'[Len(conns) + 1] = <<>>
  BY <1>1 DEF OpenConn
<1>4. /\ Len(conns') = Len(conns) + 1
      /\ \A i \in 1 .. Len(conns) : conns'[i] = conns[i]
      /\ \A g \in Fds : g # f => live'[g] = live[g]
      /\ live'[f] \in {0, Len(conns) + 1}
  BY OpenConnType
<1>5. Len(conns) + 1 .. Len(conns') = {Len(conns) + 1}
  BY <1>1, <1>4
<1>. QED  BY <1>1, <1>2, <1>3, <1>4, <1>5 DEF Quiet

LEMMA QuietSteps ==
    ASSUME TypeInv
    PROVE  /\ EpollWait \/ EndSend \/ EndBatch \/ EndEvents \/ KeepaliveTimeout => Quiet
           /\ SendFails \/ ArmOutput \/ ArmCrash \/ Dead \/ UNCHANGED vars => Quiet
           /\ \A f \in Fds : PeerClosed(f) \/ BeginSend(f) => Quiet
           /\ \A f \in Fds : ConnectServer(f) \/ Drain(f) \/ CloseClient(f) => Quiet
           /\ \A f \in Fds, added \in BOOLEAN : DoAccept(f, added) \/ AddClient(f, added) => Quiet
<1>1. EpollWait \/ EndSend \/ EndBatch \/ EndEvents => Quiet
  BY QuietFrame DEF EpollWait, EndSend, EndBatch, EndEvents, table, maps
<1>2. KeepaliveTimeout => Quiet
  <2>. SUFFICES ASSUME KeepaliveTimeout PROVE Quiet
    OBVIOUS
  <2>1. PICK silent \in SUBSET Live : CloseClients(silent)
    BY DEF KeepaliveTimeout
  <2>2. silent \in SUBSET Fds
    BY DEF Live
  <2>. QED  BY <2>1, <2>2, QuietClose DEF KeepaliveTimeout, maps
<1>3. SendFails => Quiet
  <2>. SUFFICES ASSUME SendFails PROVE Quiet
    OBVIOUS
  <2>1. sending \in Fds
    BY SendingFacts DEF SendFails
  <2>2. \A f \in Fds : bak'[f] = bak[f] \/ (bak'[f] = <<>> /\ f \in {sending})
    BY <2>1 DEF SendFails, TypeInv, TypeOK, MapsOK
  <2>. QED  BY <2>1, <2>2, QuietClose DEF SendFails
<1>4. ArmOutput => Quiet
  <2>. SUFFICES ASSUME ArmOutput PROVE Quiet
    OBVIOUS
  <2>1. PICK failed \in SUBSET (Waiting \cap Live) :
          /\ live' = [f \in Fds |-> IF f \in failed THEN 0 ELSE live[f]]
          /\ bak' = [f \in Fds |-> IF f \in Missing \cup failed
                                     THEN <<>> ELSE bak[f]]
    BY DEF ArmOutput
  <2>2. \A f \in Missing : f \in Fds => live[f] = 0
    BY DEF Missing, Live
  <2>3. \A f \in Fds : live'[f] \in {0, live[f]} /\ (f \in Missing \cup failed => live'[f] = 0)
    BY <2>1, <2>2
  <2>4. \A f \in Fds : bak'[f] = bak[f] \/ (bak'[f] = <<>> /\ live'[f] = 0)
    BY <2>1, <2>3
  <2>5. Len(conns) \in Nat
    BY DEF TypeInv, TypeOK, ConnsOK
  <2>. QED  BY <2>3, <2>4, <2>5 DEF ArmOutput, Quiet
<1>5. ArmCrash \/ Dead \/ UNCHANGED vars => Quiet
  BY QuietFrame DEF ArmCrash, Dead, vars, table, maps
<1>6. \A f \in Fds : PeerClosed(f) \/ CloseClient(f) => Quiet
  BY QuietClose DEF PeerClosed, CloseClient, maps
<1>7. \A f \in Fds : BeginSend(f) \/ ConnectServer(f) \/ Drain(f) => Quiet
  BY QuietFrame DEF BeginSend, ConnectServer, Drain, table, maps
<1>8. \A f \in Fds, added \in BOOLEAN : DoAccept(f, added) \/ AddClient(f, added) => Quiet
  BY QuietOpen DEF DoAccept, AddClient, maps
<1>. QED  BY <1>1, <1>2, <1>3, <1>4, <1>5, <1>6, <1>7, <1>8

LEMMA SendSomeSteps ==
    ASSUME TypeInv, SendWhole \/ SendPart
    PROVE  \/ Quiet /\ UNCHANGED <<conns, live, msgs, wire, spilled>>
           \/ \E n \in 1 .. Front1.rest : SendSome(n)
<1>0. Sending
  BY DEF SendWhole, SendPart
<1>1. Sending /\ Front1.rest \in Nat \ {0} /\ room[sending] \in Nat
  <2>1. Front1 \in Entry /\ sending \in Fds
    BY <1>0, SendingFacts
  <2>2. Front1.rest \in Nat \ {0}
    BY <2>1, EntryFields
  <2>3. room[sending] \in Nat
    BY <2>1 DEF TypeInv, TypeOK, TableOK
  <2>. QED  BY <1>0, <2>2, <2>3
<1>2. CASE SendWhole
  <2>1. Front1.rest \in 1 .. Front1.rest
    BY <1>1
  <2>2. SendSome(Front1.rest)
    BY <1>2 DEF SendWhole, SendSome, table
  <2>. QED  BY <2>1, <2>2
<1>3. CASE SendPart /\ room[sending] > 0
  <2>1. room[sending] \in 1 .. Front1.rest /\ room[sending] # Front1.rest
    BY <1>1, <1>3 DEF SendPart
  <2>2. SendSome(room[sending])
    BY <1>1, <1>3, <2>1 DEF SendPart, SendSome
  <2>. QED  BY <2>1, <2>2
<1>4. CASE SendPart /\ ~(room[sending] > 0)
  BY <1>4, QuietFrame DEF SendPart
<1>. QED  BY <1>2, <1>3, <1>4

LEMMA StepKinds ==
    ASSUME TypeInv, [Next]_vars
    PROVE  \/ Send \/ DropStale \/ SwitchSendMap \/ Quiet
           \/ \E n \in 1 .. Front1.rest : SendSome(n)
<1>1. CASE Loop
  BY <1>1, QuietSteps, SendSomeSteps DEF Loop
<1>2. CASE ~Loop
  BY <1>2, QuietSteps DEF Next
<1>. QED  BY <1>1, <1>2

-----------------------------------------------------------------------------
(* Messages keep their identity: OwnTraffic.                               *)

\* What a list of descriptor f may hold: messages as they were accepted.
Accepted(f) ==
    {e \in Entry : /\ e.id \in 1 .. Len(msgs)
                   /\ msgs[e.id] = [fd |-> f, conn |-> e.conn, len |-> e.len]}

\* What connection i may have been sent.
Sent(i) == {c \in Chunk : /\ c.id \in 1 .. Len(msgs)
                          /\ msgs[c.id].conn = i /\ c.to <= msgs[c.id].len}

\* A message is for a connection that was handed out, the lists of a
\* descriptor hold its messages, and a connection was sent its own.
MsgInv ==
    /\ \A k \in 1 .. Len(msgs) :
          /\ msgs[k].conn \in 0 .. Len(conns)
          /\ msgs[k].conn # 0 => conns[msgs[k].conn] = msgs[k].fd
    /\ \A f \in Fds : cur[f] \in Seq(Accepted(f)) /\ bak[f] \in Seq(Accepted(f))
    /\ \A i \in 1 .. Len(wire) : wire[i] \in Seq(Sent(i))

LEMMA TailType ==
    ASSUME NEW S, NEW s \in Seq(S), s # <<>>
    PROVE  Head(s) \in S /\ Tail(s) \in Seq(S)
  BY HeadTailProperties

LEMMA SameMessages ==
    ASSUME UNCHANGED msgs
    PROVE  /\ \A f \in Fds : Accepted(f)' = Accepted(f)
           /\ \A i \in Nat : Sent(i)' = Sent(i)
  BY DEF Accepted, Sent

LEMMA QuietMsg == TypeInv /\ TypeInv' /\ MsgInv /\ Quiet => MsgInv'
<1>. SUFFICES ASSUME TypeInv, TypeInv', MsgInv, Quiet PROVE MsgInv'
  OBVIOUS
<1>1. Len(conns) \in Nat /\ Len(conns') \in Nat /\ Len(wire) = Len(conns) /\ Len(wire') = Len(conns')
  BY DEF TypeInv, TypeOK, ConnsOK, WireOK
<1>2. \A f \in Fds : Accepted(f)' = Accepted(f)
  BY SameMessages DEF Quiet
<1>3. \A i \in Nat : Sent(i)' = Sent(i)
  BY SameMessages DEF Quiet
<1>4. \A f \in Fds : cur'[f] \in Seq(Accepted(f)') /\ bak'[f] \in Seq(Accepted(f)')
  <2>. TAKE f \in Fds
  <2>1. cur[f] \in Seq(Accepted(f)) /\ bak[f] \in Seq(Accepted(f))
    BY DEF MsgInv
  <2>2. <<>> \in Seq(Accepted(f))
    OBVIOUS
  <2>3. bak'[f] \in {bak[f], <<>>} /\ cur' = cur
    BY DEF Quiet
  <2>. QED  BY <1>2, <2>1, <2>2, <2>3
<1>5. \A i \in 1 .. Len(wire') : wire'[i] \in Seq(Sent(i)')
  <2>. TAKE i \in 1 .. Len(wire')
  <2>1. CASE i \in 1 .. Len(conns)
    <3>1. wire'[i] = wire[i]
      BY <2>1 DEF Quiet
    <3>2. wire[i] \in Seq(Sent(i))
      BY <1>1, <2>1 DEF MsgInv
    <3>. QED  BY <1>1, <1>3, <3>1, <3>2
  <2>2. CASE i \in Len(conns) + 1 .. Len(conns')
    <3>1. wire'[i] = <<>>
      BY <2>2 DEF Quiet
    <3>. QED  BY <3>1
  <2>. QED  BY <1>1, <2>1, <2>2
<1>6. \A k \in 1 .. Len(msgs') :
         /\ msgs'[k].conn \in 0 .. Len(conns')
         /\ msgs'[k].conn # 0 => conns'[msgs'[k].conn] = msgs'[k].fd
  BY <1>1 DEF MsgInv, Quiet
<1>. QED  BY <1>4, <1>5, <1>6 DEF MsgInv

LEMMA DropStaleMsg == TypeInv /\ MsgInv /\ DropStale => MsgInv'
<1>. SUFFICES ASSUME TypeInv, MsgInv, DropStale PROVE MsgInv'
  OBVIOUS
<1>1. /\ sending \in Fds /\ bak[sending] # <<>>
      /\ bak' = [bak EXCEPT ![sending] = Tail(@)]
      /\ UNCHANGED <<conns, live, cur, msgs, wire, spilled>>
  BY SendingFacts DEF DropStale, table
<1>2. bak[sending] \in Seq(Accepted(sending))
  BY <1>1 DEF MsgInv
<1>3. Tail(bak[sending]) \in Seq(Accepted(sending))
  BY <1>1, <1>2, TailType
<1>4. \A f \in Fds : Accepted(f)' = Accepted(f)
  BY <1>1, SameMessages
<1>5. \A i \in Nat : Sent(i)' = Sent(i)
  BY <1>1, SameMessages
<1>6. \A f \in Fds : bak'[f] \in Seq(Accepted(f))
  BY <1>1, <1>3 DEF MsgInv, TypeInv, TypeOK, MapsOK
<1>7. \A i \in 1 .. Len(wire) : i \in Nat
  OBVIOUS
<1>. QED  BY <1>1, <1>4, <1>5, <1>6, <1>7 DEF MsgInv

\* The entry and the chunk a write leaves.
LEMMA SendSomeFacts ==
    ASSUME TypeInv, NEW n \in 1 .. Front1.rest, SendSome(n)
    PROVE  LET i == live[sending]
               c == [id |-> Front1.id, from |-> Front1.len - Front1.rest,
                     to |-> Front1.len - Front1.rest + n]
           IN  /\ sending \in Fds /\ bak[sending] # <<>> /\ i \in 1 .. Len(conns)
               /\ Front1 \in Entry /\ Front1.conn = i
               /\ wire[i] \in Seq(Chunk) /\ c \in Chunk
               /\ wire'[i] = Append(wire[i], c)
               /\ \A j \in 1 .. Len(wire) : j # i => wire'[j] = wire[j]
               /\ Len(wire') = Len(wire)
               /\ \A f \in Fds : f # sending => bak'[f] = bak[f]
               /\ n = Front1.rest => bak'[sending] = Tail(bak[sending])
               /\ n < Front1.rest => bak'[sending] = <<Remainder(Front1, n)>> \o Tail(bak[sending])
<1>. DEFINE i == live[sending]
            c == [id |-> Front1.id, from |-> Front1.len - Front1.rest,
                  to |-> Front1.len - Front1.rest + n]
<1>1. /\ sending \in Fds /\ bak[sending] # <<>> /\ i \in 1 .. Len(conns)
      /\ Front1 \in Entry /\ Front1.conn = i
  BY SendingFacts DEF SendSome, IsCurrent
<1>2. wire \in Seq(Seq(Chunk)) /\ Len(wire) = Len(conns)
  BY DEF TypeInv, TypeOK, WireOK
<1>3. wire[i] \in Seq(Chunk)
  BY <1>1, <1>2
<1>4. c \in Chunk
  <2>. HIDE DEF Front1
  <2>1. /\ Front1.id \in 1 .. MaxMsgs /\ Front1.len \in 1 .. MaxLen
        /\ Front1.rest \in 1 .. Front1.len
    BY <1>1 DEF Entry
  <2>2. /\ Front1.len - Front1.rest \in 0 .. MaxLen
        /\ Front1.len - Front1.rest + n \in 0 .. MaxLen
    BY <2>1
  <2>. QED  BY <2>1, <2>2 DEF Chunk
<1>5. wire' = [wire EXCEPT ![i] = Append(wire[i], c)]
  BY DEF SendSome, Write
<1>. HIDE DEF i, c
<1>6. /\ wire'[i] = Append(wire[i], c)
      /\ \A j \in 1 .. Len(wire) : j # i => wire'[j] = wire[j]
      /\ Len(wire') = Len(wire)
  BY <1>1, <1>2, <1>5
<1>7. Front1.rest \in Nat /\ bak \in [Fds -> Seq(Entry)]
  BY <1>1 DEF Entry, TypeInv, TypeOK, MapsOK
<1>8. /\ \A f \in Fds : f # sending => bak'[f] = bak[f]
      /\ n = Front1.rest => bak'[sending] = Tail(bak[sending])
      /\ n < Front1.rest => bak'[sending] = <<Remainder(Front1, n)>> \o Tail(bak[sending])
  BY <1>1, <1>7 DEF SendSome
<1>. QED  BY <1>1, <1>3, <1>4, <1>6, <1>8 DEF i, c

LEMMA SendSomeMsg ==
    ASSUME TypeInv, MsgInv, NEW n \in 1 .. Front1.rest, SendSome(n)
    PROVE  MsgInv'
<1>. DEFINE i == live[sending]
            c == [id |-> Front1.id, from |-> Front1.len - Front1.rest,
                  to |-> Front1.len - Front1.rest + n]
<1>1. UNCHANGED <<conns, cur, msgs>>
  BY DEF SendSome
<1>2. /\ \A f \in Fds : Accepted(f)' = Accepted(f)
      /\ \A j \in Nat : Sent(j)' = Sent(j)
  BY <1>1, SameMessages
<1>3. sending \in Fds /\ bak[sending] # <<>> /\ bak[sending] \in Seq(Accepted(sending))
  BY SendSomeFacts DEF MsgInv
<1>4. Front1 \in Accepted(sending) /\ Tail(bak[sending]) \in Seq(Accepted(sending))
  BY <1>3, TailType DEF Front1
<1>5. bak'[sending] \in Seq(Accepted(sending))
  <2>1. CASE n = Front1.rest
    BY <2>1, <1>4, SendSomeFacts
  <2>2. CASE n # Front1.rest
    <3>0. Front1 \in Entry
      BY SendSomeFacts
    <3>1. n < Front1.rest /\ n \in Nat /\ Front1 \in Entry
      BY <2>2, <3>0, EntryFields
    <3>2. Remainder(Front1, n) \in Accepted(sending)
      BY <1>4, <3>1, RemainderType DEF Accepted
    <3>3. <<Remainder(Front1, n)>> \in Seq(Accepted(sending))
      BY <3>2
    <3>4. <<Remainder(Front1, n)>> \o Tail(bak[sending]) \in Seq(Accepted(sending))
      BY <1>4, <3>3, ConcatProperties
    <3>. QED  BY <3>1, <3>4, SendSomeFacts
  <2>. QED  BY <2>1, <2>2
<1>6. \A f \in Fds : bak'[f] \in Seq(Accepted(f))
  BY <1>5, SendSomeFacts DEF MsgInv
<1>7. i \in 1 .. Len(wire) /\ Len(wire') = Len(wire) /\ wire[i] \in Seq(Sent(i))
  BY SendSomeFacts DEF MsgInv, TypeInv, TypeOK, WireOK
<1>8. c \in Sent(i)
  <2>1. c \in Chunk /\ Front1.conn = i /\ Front1 \in Entry
    BY SendSomeFacts
  <2>2. Front1.id \in 1 .. Len(msgs) /\ msgs[Front1.id].conn = Front1.conn /\ msgs[Front1.id].len = Front1.len
    BY <1>4 DEF Accepted
  <2>3. Front1.len - Front1.rest + n <= Front1.len
    BY <2>1 DEF Entry
  <2>. QED  BY <2>1, <2>2, <2>3 DEF Sent
<1>9. wire'[i] = Append(wire[i], c)
  BY SendSomeFacts
<1>10. \A j \in 1 .. Len(wire) : j # i => wire'[j] = wire[j]
  BY SendSomeFacts
<1>. HIDE DEF i, c
<1>11. Append(wire[i], c) \in Seq(Sent(i))
  BY <1>7, <1>8, AppendType
<1>12. \A j \in 1 .. Len(wire') : wire'[j] \in Seq(Sent(j)')
  <2>. TAKE j \in 1 .. Len(wire')
  <2>1. j \in 1 .. Len(wire) /\ j \in Nat
    BY <1>7
  <2>2. wire'[j] \in Seq(Sent(j))
    BY <1>7, <1>9, <1>10, <1>11, <2>1 DEF MsgInv
  <2>. QED  BY <1>2, <2>1, <2>2
<1>. QED  BY <1>1, <1>2, <1>6, <1>12 DEF MsgInv

LEMMA SwitchMsg == TypeInv /\ MsgInv /\ SwitchSendMap => MsgInv'
<1>. SUFFICES ASSUME TypeInv, MsgInv, SwitchSendMap PROVE MsgInv'
  OBVIOUS
<1>1. /\ UNCHANGED <<conns, live, msgs, wire>>
      /\ bak' = [f \in Fds |-> Merge(bak[f], cur[f])]
      /\ cur' = [f \in Fds |-> <<>>]
  BY DEF SwitchSendMap, table
<1>2. /\ \A f \in Fds : Accepted(f)' = Accepted(f)
      /\ \A j \in Nat : Sent(j)' = Sent(j)
  BY <1>1, SameMessages
<1>3. \A f \in Fds : Merge(bak[f], cur[f]) \in Seq(Accepted(f))
  BY MergeType DEF MsgInv
<1>4. \A f \in Fds : <<>> \in Seq(Accepted(f))
  OBVIOUS
<1>5. \A i \in 1 .. Len(wire) : i \in Nat
  OBVIOUS
<1>. QED  BY <1>1, <1>2, <1>3, <1>4, <1>5 DEF MsgInv

\* What a new message changes.
LEMMA AddFacts ==
    ASSUME TypeInv, NEW f \in Fds, NEW c \in 0 .. MaxConns,
           NEW len \in 1 .. MaxLen, AddMsgToSendList(f, c, len)
    PROVE  LET e == [id |-> Len(msgs) + 1, conn |-> c, len |-> len, rest |-> len]
           IN  /\ e \in Entry /\ Len(msgs) \in Nat
               /\ cur'[f] = Append(cur[f], e)
               /\ \A g \in Fds : g # f => cur'[g] = cur[g]
               /\ Len(msgs') = Len(msgs) + 1
               /\ msgs'[Len(msgs) + 1] = [fd |-> f, conn |-> c, len |-> len]
               /\ \A k \in 1 .. Len(msgs) : msgs'[k] = msgs[k]
               /\ UNCHANGED <<conns, live, bak, wire, spilled>>
<1>. DEFINE e == [id |-> Len(msgs) + 1, conn |-> c, len |-> len, rest |-> len]
            r == [fd |-> f, conn |-> c, len |-> len]
            R == [fd : Fds, conn : 0 .. MaxConns, len : 1 .. MaxLen]
<1>1. msgs \in Seq(R) /\ Len(msgs) \in Nat /\ Len(msgs) < MaxMsgs /\ cur \in [Fds -> Seq(Entry)]
  BY DEF TypeInv, TypeOK, MsgsOK, MapsOK, AddMsgToSendList
<1>2. e \in Entry
  BY <1>1 DEF Entry
<1>3. r \in R
  OBVIOUS
<1>4. msgs' = Append(msgs, r) /\ cur' = [cur EXCEPT ![f] = Append(cur[f], e)]
  BY DEF AddMsgToSendList
<1>. HIDE DEF e, r, R
<1>5. /\ Len(msgs') = Len(msgs) + 1 /\ msgs'[Len(msgs) + 1] = r
      /\ \A k \in 1 .. Len(msgs) : msgs'[k] = msgs[k]
  BY <1>1, <1>3, <1>4, AppendType
<1>6. cur'[f] = Append(cur[f], e) /\ \A g \in Fds : g # f => cur'[g] = cur[g]
  BY <1>1, <1>4
<1>7. UNCHANGED <<conns, live, bak, wire, spilled>>
  BY DEF AddMsgToSendList, table
<1>. QED  BY <1>1, <1>2, <1>5, <1>6, <1>7 DEF e, r

LEMMA AddMsg ==
    ASSUME TypeInv, MsgInv, NEW f \in Fds, NEW c \in 0 .. Len(conns),
           c \in 0 .. MaxConns, c # 0 => conns[c] = f,
           NEW len \in 1 .. MaxLen, AddMsgToSendList(f, c, len)
    PROVE  MsgInv'
<1>. DEFINE e == [id |-> Len(msgs) + 1, conn |-> c, len |-> len, rest |-> len]
<1>1. /\ e \in Entry /\ Len(msgs) \in Nat
      /\ cur'[f] = Append(cur[f], e)
      /\ \A g \in Fds : g # f => cur'[g] = cur[g]
      /\ Len(msgs') = Len(msgs) + 1
      /\ msgs'[Len(msgs) + 1] = [fd |-> f, conn |-> c, len |-> len]
      /\ \A k \in 1 .. Len(msgs) : msgs'[k] = msgs[k]
      /\ UNCHANGED <<conns, bak, wire>>
  BY AddFacts
<1>2. \A g \in Fds : Accepted(g) \subseteq Accepted(g)'
  BY <1>1 DEF Accepted
<1>3. \A i \in Nat : Sent(i) \subseteq Sent(i)'
  BY <1>1 DEF Sent
<1>4. e \in Accepted(f)'
  BY <1>1 DEF Accepted
<1>. HIDE DEF e
<1>5. \A g \in Fds : cur[g] \in Seq(Accepted(g)') /\ bak[g] \in Seq(Accepted(g)')
  BY <1>2, SeqMonotonic DEF MsgInv
<1>6. Append(cur[f], e) \in Seq(Accepted(f)')
  BY <1>4, <1>5, AppendType
<1>7. \A g \in Fds : cur'[g] \in Seq(Accepted(g)') /\ bak'[g] \in Seq(Accepted(g)')
  BY <1>1, <1>5, <1>6
<1>8. \A i \in 1 .. Len(wire') : wire'[i] \in Seq(Sent(i)')
  <2>. TAKE i \in 1 .. Len(wire')
  <2>1. i \in Nat /\ wire[i] \in Seq(Sent(i)) /\ Sent(i) \subseteq Sent(i)'
    BY <1>1, <1>3 DEF MsgInv
  <2>2. wire[i] \in Seq(Sent(i)')
    BY <2>1, SeqMonotonic
  <2>. QED  BY <1>1, <2>2
<1>9. \A k \in 1 .. Len(msgs') :
         /\ msgs'[k].conn \in 0 .. Len(conns')
         /\ msgs'[k].conn # 0 => conns'[msgs'[k].conn] = msgs'[k].fd
  <2>. TAKE k \in 1 .. Len(msgs')
  <2>1. CASE k \in 1 .. Len(msgs)
    BY <1>1, <2>1 DEF MsgInv
  <2>2. CASE k = Len(msgs) + 1
    BY <1>1, <2>2
  <2>. QED  BY <1>1, <2>1, <2>2
<1>. QED  BY <1>7, <1>8, <1>9 DEF MsgInv

LEMMA NextMsg == TypeInv /\ MsgInv /\ [Next]_vars => MsgInv'
<1>. SUFFICES ASSUME TypeInv, MsgInv, [Next]_vars PROVE MsgInv'
  OBVIOUS
<1>1. TypeInv'
  BY NextType
<1>2. CASE Send
  <2>1. PICK f \in Fds, c \in 0 .. MaxConns, len \in 1 .. MaxLen :
          /\ AddMsgToSendList(f, c, len)
          /\ c = 0 \/ (c \in 1 .. Len(conns) /\ f = conns[c])
    BY <1>2, SendArguments
  <2>2. c \in 0 .. Len(conns) /\ (c # 0 => conns[c] = f)
    BY <2>1 DEF TypeInv, TypeOK, ConnsOK
  <2>. QED  BY <2>1, <2>2, AddMsg
<1>3. CASE \E n \in 1 .. Front1.rest : SendSome(n)
  BY <1>3, SendSomeMsg
<1>4. CASE DropStale \/ SwitchSendMap \/ Quiet
  BY <1>1, <1>4, DropStaleMsg, SwitchMsg, QuietMsg
<1>. QED  BY <1>2, <1>3, <1>4, StepKinds

LEMMA InitMsgInv == Init => MsgInv
  BY DEF Init, MsgInv

THEOREM MsgInvariant == Spec => [](TypeInv /\ MsgInv)
<1>1. Init => TypeInv /\ MsgInv
  BY InitTypeInv, InitMsgInv
<1>2. TypeInv /\ MsgInv /\ [Next]_vars => (TypeInv /\ MsgInv)'
  BY NextType, NextMsg
<1>. QED  BY <1>1, <1>2, PTL DEF Spec

\* The connect_time test of doSendMessage does its work: however descriptors
\* are reused and messages wait, a connection is sent its own messages only.
THEOREM OwnTrafficCorrect == Spec => []OwnTraffic
<1>1. TypeInv /\ MsgInv => OwnTraffic
  <2>. SUFFICES ASSUME MsgInv, NEW i \in 1 .. Len(wire), NEW p \in 1 .. Len(wire[i])
                PROVE  msgs[wire[i][p].id].conn = i
    BY DEF OwnTraffic
  <2>1. wire[i] \in Seq(Sent(i))
    BY DEF MsgInv
  <2>2. wire[i][p] \in Sent(i)
    BY <2>1
  <2>. QED  BY <2>2 DEF Sent
<1>. QED  BY <1>1, MsgInvariant, PTL

-----------------------------------------------------------------------------
(* The bound of the lists: ListsBounded.                                   *)

LEMMA NextBounded == TypeInv /\ ListsBounded /\ [Next]_vars => ListsBounded'
<1>. SUFFICES ASSUME TypeInv, ListsBounded, [Next]_vars, NEW g \in Fds
              PROVE  /\ Len(cur'[g]) <= MaxSendList
                     /\ g \in spilled' \/ Len(bak'[g]) <= MaxSendList
  BY DEF ListsBounded
<1>1. /\ Len(cur[g]) <= MaxSendList
      /\ g \in spilled \/ Len(bak[g]) <= MaxSendList
  BY DEF ListsBounded
<1>2. cur[g] \in Seq(Entry) /\ bak[g] \in Seq(Entry)
  BY DEF TypeInv, TypeOK, MapsOK
<1>3. CASE Send
  <2>1. PICK f \in Fds, c \in 0 .. MaxConns, len \in 1 .. MaxLen :
          AddMsgToSendList(f, c, len)
    BY <1>3, SendArguments
  <2>2. g # f => cur'[g] = cur[g]
    BY <2>1, AddFacts
  <2>3. UNCHANGED <<bak, spilled>>
    BY <2>1, AddFacts
  <2>4. g = f => Len(cur'[g]) = Len(cur[g]) + 1 /\ Len(cur[g]) < MaxSendList
    <3>. SUFFICES ASSUME g = f PROVE Len(cur'[g]) = Len(cur[g]) + 1 /\ Len(cur[g]) < MaxSendList
      OBVIOUS
    <3>. DEFINE e == [id |-> Len(msgs) + 1, conn |-> c, len |-> len, rest |-> len]
    <3>1. e \in Entry /\ cur'[f] = Append(cur[f], e)
      <4>1. e \in Entry
        BY <2>1, AddFacts
      <4>2. cur'[f] = Append(cur[f], e)
        BY <2>1, AddFacts
      <4>. QED  BY <4>1, <4>2
    <3>2. Len(cur[f]) < MaxSendList
      BY <2>1 DEF AddMsgToSendList, HasRoomFor
    <3>. HIDE DEF e
    <3>. QED  BY <1>2, <3>1, <3>2, AppendType
  <2>. QED  BY <1>1, <1>2, <2>2, <2>3, <2>4
<1>4. CASE \E n \in 1 .. Front1.rest : SendSome(n)
  <2>1. PICK n \in 1 .. Front1.rest : SendSome(n)
    BY <1>4
  <2>2. cur' = cur /\ spilled' = spilled /\ Sending
    BY <2>1 DEF SendSome
  <2>3. g # sending => bak'[g] = bak[g]
    BY <2>1, SendSomeFacts
  <2>4. g = sending => Len(bak'[g]) <= Len(bak[g])
    <3>. SUFFICES ASSUME g = sending PROVE Len(bak'[g]) <= Len(bak[g])
      OBVIOUS
    <3>1. /\ Tail(bak[g]) \in Seq(Entry) /\ Len(Tail(bak[g])) = Len(bak[g]) - 1
          /\ Front1 \in Entry
      BY <2>2, SendingFacts
    <3>2. n <= Front1.rest /\ n \in Nat
      BY <3>1, EntryFields
    <3>3. CASE n = Front1.rest
      <4>1. bak'[g] = Tail(bak[g])
        BY <2>1, <3>3, SendSomeFacts
      <4>2. Len(bak[g]) \in Nat
        BY <1>2, LenProperties
      <4>. QED  BY <3>1, <4>1, <4>2
    <3>4. CASE n < Front1.rest
      <4>1. bak'[g] = <<Remainder(Front1, n)>> \o Tail(bak[g])
        BY <2>1, <3>4, SendSomeFacts
      <4>2. <<Remainder(Front1, n)>> \in Seq(Entry)
        BY <3>1, <3>2, <3>4, RemainderType
      <4>3. Len(bak'[g]) = 1 + Len(Tail(bak[g]))
        BY <3>1, <4>1, <4>2, ConcatProperties
      <4>. QED  BY <1>2, <3>1, <4>3
    <3>. QED  BY <3>1, <3>2, <3>3, <3>4, EntryFields
  <2>. QED  BY <1>1, <1>2, <2>2, <2>3, <2>4
<1>5. CASE DropStale
  <2>1. cur' = cur /\ spilled' = spilled /\ Sending
        /\ bak' = [bak EXCEPT ![sending] = Tail(@)]
    BY <1>5 DEF DropStale
  <2>2. Len(Tail(bak[sending])) = Len(bak[sending]) - 1 /\ sending \in Fds
    BY <2>1, SendingFacts
  <2>3. bak \in [Fds -> Seq(Entry)]
    BY DEF TypeInv, TypeOK, MapsOK
  <2>4. bak'[g] = IF g = sending THEN Tail(bak[g]) ELSE bak[g]
    BY <2>1, <2>3
  <2>. QED  BY <1>1, <1>2, <2>1, <2>2, <2>4
<1>6. CASE SwitchSendMap
  <2>1. /\ bak'[g] = Merge(bak[g], cur[g]) /\ cur'[g] = <<>>
        /\ spilled' = spilled \cup {f \in Fds : Overflows(bak[f], cur[f])}
    BY <1>6 DEF SwitchSendMap
  <2>2. CASE Overflows(bak[g], cur[g])
    BY <2>1, <2>2
  <2>3. CASE ~Overflows(bak[g], cur[g])
    <3>1. bak'[g] = bak[g] \o cur[g]
      BY <2>1, <2>3 DEF Merge
    <3>2. Len(bak[g] \o cur[g]) = Len(bak[g]) + Len(cur[g])
      BY <1>2, ConcatProperties
    <3>3. Len(bak[g]) \in Nat /\ Len(cur[g]) \in Nat
      BY <1>2, LenProperties
    <3>4. CASE bak[g] = <<>>
      BY <1>1, <2>1, <3>1, <3>2, <3>3, <3>4
    <3>5. CASE cur[g] = <<>>
      BY <1>1, <2>1, <3>1, <3>2, <3>3, <3>5
    <3>6. CASE bak[g] # <<>> /\ cur[g] # <<>>
      <4>1. ~(Len(cur[g]) + Len(bak[g]) > MaxSendList)
        BY <2>3, <3>6 DEF Overflows
      <4>2. Len(bak'[g]) <= MaxSendList
        <5>1. Len(bak'[g]) = Len(bak[g]) + Len(cur[g])
          BY <3>1, <3>2
        <5>2. ASSUME NEW a \in Nat, NEW b \in Nat, ~(a + b > MaxSendList)
              PROVE  b + a <= MaxSendList
          BY <5>2
        <5>3. Len(bak[g]) + Len(cur[g]) <= MaxSendList
          BY <3>3, <4>1, <5>2
        <5>. QED  BY <5>1, <5>3
      <4>3. Len(cur'[g]) = 0
        BY <2>1
      <4>. QED  BY <4>2, <4>3
    <3>. QED  BY <3>4, <3>5, <3>6
  <2>. QED  BY <2>2, <2>3
<1>7. CASE Quiet
  BY <1>1, <1>7 DEF Quiet
<1>. QED  BY <1>3, <1>4, <1>5, <1>6, <1>7, StepKinds

LEMMA InitBounded == Init => ListsBounded
  BY DEF Init, ListsBounded

\* Both lists of a descriptor respect sys_send_queue_size for every number of
\* messages, unless switchSendMap overflowed them.
THEOREM ListsBoundedCorrect == Spec => []ListsBounded
<1>1. Init => TypeInv /\ ListsBounded
  BY InitTypeInv, InitBounded
<1>2. TypeInv /\ ListsBounded /\ [Next]_vars => (TypeInv /\ ListsBounded)'
  BY NextType, NextBounded
<1>3. TypeInv /\ ListsBounded => ListsBounded
  OBVIOUS
<1>. QED  BY <1>1, <1>2, <1>3, PTL DEF Spec

-----------------------------------------------------------------------------
(* The order of the messages: StreamIntact.                                *)

\* The messages that wait for descriptor f, in the order they will be written.
Line(f) == bak[f] \o cur[f]

InOrder(list) ==
    \A p, q \in 1 .. Len(list) : p < q => list[p].id < list[q].id

\* Only the first message of a list can have been started.
TailWhole(list) == \A p \in 2 .. Len(list) : list[p].rest = list[p].len
AllWhole(list) == \A p \in 1 .. Len(list) : list[p].rest = list[p].len

LastOf(i) == wire[i][Len(wire[i])]

\* A started message continues what its connection was sent last.
HeadStarted(f) ==
    Line(f) # <<>> /\ Line(f)[1].rest < Line(f)[1].len =>
        LET h == Line(f)[1]
        IN  /\ h.conn \in 1 .. Len(conns)
            /\ wire[h.conn] # <<>>
            /\ LastOf(h.conn).id = h.id
            /\ LastOf(h.conn).to = h.len - h.rest

\* What waits is newer than what the connection was sent last, or is the rest
\* of it, and a message that was cut short is the first one that waits.
LinkContinues(f) ==
    live[f] # 0 /\ wire[live[f]] # <<>> =>
        LET z == LastOf(live[f])
        IN  /\ \A p \in 1 .. Len(Line(f)) :
                  /\ Line(f)[p].id >= z.id
                  /\ Line(f)[p].id = z.id => Line(f)[p].rest = Line(f)[p].len - z.to
            /\ z.to < msgs[z.id].len => Line(f) # <<>> /\ Line(f)[1].id = z.id

FdInv(f) ==
    /\ InOrder(Line(f))
    /\ TailWhole(Line(f))
    /\ AllWhole(cur[f])
    /\ HeadStarted(f)
    /\ LinkContinues(f)

OrderInv == \A f \in Fds : f \notin spilled => FdInv(f)

\* Two lists one after the other, when the first one loses its head, gets
\* another head, or the second one gets longer.
LEMMA LineTail ==
    ASSUME NEW S, NEW s \in Seq(S), NEW t \in Seq(S), s # <<>>
    PROVE  /\ Tail(s) \o t \in Seq(S) /\ s \o t \in Seq(S) /\ Len(s \o t) \in Nat \ {0}
           /\ Len(Tail(s) \o t) = Len(s \o t) - 1
           /\ \A p \in 1 .. Len(s \o t) - 1 : (Tail(s) \o t)[p] = (s \o t)[p + 1]
           /\ (s \o t)[1] = Head(s)
<1>1. /\ Tail(s) \in Seq(S) /\ Len(Tail(s)) = Len(s) - 1 /\ Len(s) \in Nat \ {0}
      /\ \A p \in 1 .. Len(s) - 1 : Tail(s)[p] = s[p + 1]
      /\ Head(s) = s[1] /\ Len(t) \in Nat
  BY HeadTailProperties, LenProperties
<1>2. /\ s \o t \in Seq(S) /\ Len(s \o t) = Len(s) + Len(t)
      /\ \A p \in 1 .. Len(s) + Len(t) :
            (s \o t)[p] = IF p <= Len(s) THEN s[p] ELSE t[p - Len(s)]
  BY ConcatProperties
<1>3. /\ Tail(s) \o t \in Seq(S) /\ Len(Tail(s) \o t) = Len(Tail(s)) + Len(t)
      /\ \A p \in 1 .. Len(Tail(s)) + Len(t) :
            (Tail(s) \o t)[p] = IF p <= Len(Tail(s)) THEN Tail(s)[p] ELSE t[p - Len(Tail(s))]
  BY <1>1, ConcatProperties
<1>4. ASSUME NEW p \in 1 .. Len(s \o t) - 1 PROVE (Tail(s) \o t)[p] = (s \o t)[p + 1]
  <2>1. p \in 1 .. Len(Tail(s)) + Len(t) /\ p + 1 \in 1 .. Len(s) + Len(t)
    BY <1>1, <1>2
  <2>2. CASE p <= Len(s) - 1
    <3>1. (Tail(s) \o t)[p] = Tail(s)[p]
      BY <1>1, <1>3, <2>1, <2>2
    <3>2. (s \o t)[p + 1] = s[p + 1]
      BY <1>1, <1>2, <2>1, <2>2
    <3>. QED  BY <1>1, <2>2, <3>1, <3>2
  <2>3. CASE p > Len(s) - 1
    <3>1. (Tail(s) \o t)[p] = t[p - (Len(s) - 1)]
      BY <1>1, <1>3, <2>1, <2>3
    <3>2. (s \o t)[p + 1] = t[p + 1 - Len(s)]
      BY <1>1, <1>2, <2>1, <2>3
    <3>3. p + 1 - Len(s) = p - (Len(s) - 1)
      BY <1>1
    <3>. QED  BY <3>1, <3>2, <3>3
  <2>. QED  BY <1>1, <2>2, <2>3
<1>5. (s \o t)[1] = Head(s)
  BY <1>1, <1>2
<1>. QED  BY <1>1, <1>2, <1>3, <1>4, <1>5

LEMMA LineSuffix ==
    ASSUME NEW S, NEW s \in Seq(S), NEW t \in Seq(S)
    PROVE  \A p \in 1 .. Len(t) : /\ Len(s) + p \in 1 .. Len(s \o t)
                                  /\ (s \o t)[Len(s) + p] = t[p]
<1>1. /\ Len(s \o t) = Len(s) + Len(t) /\ Len(s) \in Nat /\ Len(t) \in Nat
      /\ \A p \in 1 .. Len(s) + Len(t) :
            (s \o t)[p] = IF p <= Len(s) THEN s[p] ELSE t[p - Len(s)]
  BY ConcatProperties, LenProperties
<1>2. ASSUME NEW p \in 1 .. Len(t)
      PROVE  Len(s) + p \in 1 .. Len(s \o t) /\ (s \o t)[Len(s) + p] = t[p]
  <2>1. Len(s) + p \in 1 .. Len(s) + Len(t) /\ ~(Len(s) + p <= Len(s)) /\ Len(s) + p - Len(s) = p
    BY <1>1
  <2>. QED  BY <1>1, <2>1
<1>. QED  BY <1>2

LEMMA LineHead ==
    ASSUME NEW S, NEW s \in Seq(S), NEW t \in Seq(S), s # <<>>, NEW e \in S
    PROVE  LET new == (<<e>> \o Tail(s)) \o t
           IN  /\ new \in Seq(S) /\ Len(new) = Len(s \o t)
               /\ new[1] = e
               /\ \A p \in 2 .. Len(s \o t) : new[p] = (s \o t)[p]
<1>1. /\ Tail(s) \in Seq(S) /\ Len(Tail(s)) = Len(s) - 1 /\ Len(s) \in Nat \ {0}
      /\ \A p \in 1 .. Len(s) - 1 : Tail(s)[p] = s[p + 1]
      /\ Len(t) \in Nat
  BY HeadTailProperties, LenProperties
<1>2. <<e>> \in Seq(S) /\ Len(<<e>>) = 1 /\ <<e>>[1] = e
  OBVIOUS
<1>. DEFINE h == <<e>> \o Tail(s)
<1>3. /\ h \in Seq(S) /\ Len(h) = Len(s)
      /\ h[1] = e /\ \A p \in 2 .. Len(s) : h[p] = s[p]
  <2>1. /\ h \in Seq(S) /\ Len(h) = 1 + (Len(s) - 1)
        /\ \A p \in 1 .. 1 + (Len(s) - 1) :
              h[p] = IF p <= 1 THEN <<e>>[p] ELSE Tail(s)[p - 1]
    BY <1>1, <1>2, ConcatProperties
  <2>2. ASSUME NEW p \in 2 .. Len(s) PROVE h[p] = s[p]
    <3>1. h[p] = Tail(s)[p - 1]
      BY <1>1, <2>1
    <3>2. p - 1 \in 1 .. Len(s) - 1 /\ p - 1 + 1 = p
      BY <1>1
    <3>. QED  BY <1>1, <3>1, <3>2
  <2>. QED  BY <1>1, <1>2, <2>1, <2>2
<1>. HIDE DEF h
<1>4. /\ h \o t \in Seq(S) /\ Len(h \o t) = Len(s) + Len(t)
      /\ \A p \in 1 .. Len(s) + Len(t) :
            (h \o t)[p] = IF p <= Len(s) THEN h[p] ELSE t[p - Len(s)]
  <2>1. ASSUME NEW u \in Seq(S), Len(u) = Len(s)
        PROVE  /\ u \o t \in Seq(S) /\ Len(u \o t) = Len(s) + Len(t)
               /\ \A p \in 1 .. Len(s) + Len(t) :
                     (u \o t)[p] = IF p <= Len(s) THEN u[p] ELSE t[p - Len(s)]
    <3>1. /\ u \o t \in Seq(S) /\ Len(u \o t) = Len(u) + Len(t)
          /\ \A p \in 1 .. Len(u) + Len(t) :
                (u \o t)[p] = IF p <= Len(u) THEN u[p] ELSE t[p - Len(u)]
      BY ConcatProperties
    <3>. QED  BY <2>1, <3>1
  <2>. QED  BY <1>3, <2>1
<1>5. /\ Len(s \o t) = Len(s) + Len(t)
      /\ \A p \in 1 .. Len(s) + Len(t) :
            (s \o t)[p] = IF p <= Len(s) THEN s[p] ELSE t[p - Len(s)]
  BY ConcatProperties
<1>6. (h \o t)[1] = e
  BY <1>1, <1>3, <1>4
<1>7. \A p \in 2 .. Len(s \o t) : (h \o t)[p] = (s \o t)[p]
  BY <1>1, <1>3, <1>4, <1>5
<1>. QED  BY <1>4, <1>5, <1>6, <1>7 DEF h

LEMMA LineAppend ==
    ASSUME NEW S, NEW s \in Seq(S), NEW t \in Seq(S), NEW e \in S
    PROVE  s \o Append(t, e) = Append(s \o t, e)
<1>1. Append(t, e) = t \o <<e>> /\ Append(s \o t, e) = (s \o t) \o <<e>>
  BY AppendIsConcat, ConcatProperties
<1>2. <<e>> \in Seq(S)
  OBVIOUS
<1>. QED  BY <1>1, <1>2, ConcatAssociative

\* What waits for a descriptor are messages as they were accepted.
LEMMA LineFacts ==
    ASSUME TypeInv, MsgInv, NEW f \in Fds
    PROVE  /\ bak[f] \in Seq(Accepted(f)) /\ cur[f] \in Seq(Accepted(f))
           /\ Line(f) \in Seq(Accepted(f)) /\ Len(Line(f)) \in Nat
           /\ \A p \in 1 .. Len(Line(f)) :
                 LET e == Line(f)[p]
                 IN  /\ e \in Entry /\ e.id \in 1 .. Len(msgs)
                     /\ msgs[e.id].conn = e.conn /\ msgs[e.id].len = e.len
                     /\ e.conn \in 0 .. Len(conns)
                     /\ e.conn # 0 => conns[e.conn] = f
<1>1. bak[f] \in Seq(Accepted(f)) /\ cur[f] \in Seq(Accepted(f))
  BY DEF MsgInv
<1>2. Line(f) \in Seq(Accepted(f)) /\ Len(Line(f)) \in Nat
  BY <1>1, ConcatProperties, LenProperties DEF Line
<1>3. ASSUME NEW p \in 1 .. Len(Line(f))
      PROVE  LET e == Line(f)[p]
             IN  /\ e \in Entry /\ e.id \in 1 .. Len(msgs)
                 /\ msgs[e.id].conn = e.conn /\ msgs[e.id].len = e.len
                 /\ e.conn \in 0 .. Len(conns)
                 /\ e.conn # 0 => conns[e.conn] = f
  <2>1. PICK e \in Accepted(f) : e = Line(f)[p]
    BY <1>2
  <2>2. /\ e \in Entry /\ e.id \in 1 .. Len(msgs)
        /\ msgs[e.id] = [fd |-> f, conn |-> e.conn, len |-> e.len]
    BY DEF Accepted
  <2>. QED  BY <2>1, <2>2 DEF MsgInv
<1>. QED  BY <1>1, <1>2, <1>3

\* What a living connection was sent last.
LEMMA LastFacts ==
    ASSUME TypeInv, MsgInv, NEW i \in 1 .. Len(conns), wire[i] # <<>>
    PROVE  /\ LastOf(i) \in Chunk /\ LastOf(i).id \in 1 .. Len(msgs)
           /\ msgs[LastOf(i).id].conn = i /\ LastOf(i).to <= msgs[LastOf(i).id].len
           /\ wire[i] \in Seq(Chunk) /\ Len(wire[i]) \in Nat \ {0}
<1>1. wire[i] \in Seq(Sent(i)) /\ wire[i] \in Seq(Chunk)
  BY DEF MsgInv, TypeInv, TypeOK, WireOK
<1>2. Len(wire[i]) \in Nat \ {0}
  BY <1>1, LenProperties
<1>3. LastOf(i) \in Sent(i)
  BY <1>1, <1>2 DEF LastOf
<1>. QED  BY <1>1, <1>2, <1>3 DEF Sent

\* A step that leaves what waits for f, and what its connections were sent.
LEMMA KeepFd ==
    ASSUME TypeInv, MsgInv, NEW f \in Fds, FdInv(f),
           Line(f)' = Line(f), AllWhole(cur'[f]), Len(conns') >= Len(conns),
           Len(conns') \in Nat,
           \A i \in 1 .. Len(conns) : conns[i] = f => wire'[i] = wire[i],
           live'[f] # 0 /\ wire'[live'[f]] # <<>> => live'[f] = live[f],
           \A k \in 1 .. Len(msgs) : msgs'[k] = msgs[k]
    PROVE  FdInv(f)'
<1>1. Len(conns) \in Nat /\ live[f] \in 0 .. Len(conns) /\ (live[f] # 0 => conns[live[f]] = f)
  BY DEF TypeInv, TypeOK, ConnsOK, LoopInv, LiveInv
<1>2. InOrder(Line(f))' /\ TailWhole(Line(f))' /\ AllWhole(cur[f])'
  BY DEF FdInv, InOrder, TailWhole, AllWhole
<1>3. HeadStarted(f)'
  <2>. DEFINE h == Line(f)[1]
  <2>. SUFFICES ASSUME Line(f) # <<>>, h.rest < h.len
                PROVE  /\ h.conn \in 1 .. Len(conns') /\ wire'[h.conn] # <<>>
                       /\ wire'[h.conn][Len(wire'[h.conn])].id = h.id
                       /\ wire'[h.conn][Len(wire'[h.conn])].to = h.len - h.rest
    BY DEF HeadStarted, LastOf
  <2>1. /\ h.conn \in 1 .. Len(conns) /\ wire[h.conn] # <<>>
        /\ LastOf(h.conn).id = h.id /\ LastOf(h.conn).to = h.len - h.rest
    BY DEF FdInv, HeadStarted
  <2>2. 1 \in 1 .. Len(Line(f))
    BY LineFacts
  <2>3. conns[h.conn] = f
    BY <2>1, <2>2, LineFacts
  <2>4. wire'[h.conn] = wire[h.conn]
    BY <2>1, <2>3
  <2>. HIDE DEF h
  <2>. QED  BY <1>1, <2>1, <2>4 DEF LastOf
<1>4. LinkContinues(f)'
  <2>. SUFFICES ASSUME live'[f] # 0, wire'[live'[f]] # <<>>
                PROVE  LET z == wire'[live'[f]][Len(wire'[live'[f]])]
                       IN  /\ \A p \in 1 .. Len(Line(f)) :
                                /\ Line(f)[p].id >= z.id
                                /\ Line(f)[p].id = z.id => Line(f)[p].rest = Line(f)[p].len - z.to
                           /\ z.to < msgs'[z.id].len => Line(f) # <<>> /\ Line(f)[1].id = z.id
    BY DEF LinkContinues, LastOf
  <2>. DEFINE i == live[f]
  <2>1. live'[f] = i /\ i \in 1 .. Len(conns) /\ conns[i] = f
    BY <1>1
  <2>2. wire'[i] = wire[i] /\ wire[i] # <<>>
    BY <2>1
  <2>3. msgs'[LastOf(i).id] = msgs[LastOf(i).id]
    BY <2>1, <2>2, LastFacts
  <2>. QED  BY <2>1, <2>2, <2>3 DEF FdInv, LinkContinues, LastOf
<1>. QED  BY <1>2, <1>3, <1>4 DEF FdInv

\* The backup list of a descriptor without a connection is deleted.
LEMMA ClosedFd ==
    ASSUME TypeInv, MsgInv, NEW f \in Fds, FdInv(f),
           bak'[f] = <<>>, cur' = cur, live'[f] = 0
    PROVE  FdInv(f)'
<1>1. bak[f] \in Seq(Entry) /\ cur[f] \in Seq(Entry) /\ Len(bak[f]) \in Nat /\ Len(cur[f]) \in Nat
  BY LenProperties DEF TypeInv, TypeOK, MapsOK
<1>2. Line(f)' = cur[f]
  BY <1>1 DEF Line
<1>4. \A p \in 1 .. Len(cur[f]) :
         /\ Len(bak[f]) + p \in 1 .. Len(bak[f] \o cur[f])
         /\ (bak[f] \o cur[f])[Len(bak[f]) + p] = cur[f][p]
  <2>1. \A s, t \in Seq(Entry) : \A p \in 1 .. Len(t) :
           Len(s) + p \in 1 .. Len(s \o t) /\ (s \o t)[Len(s) + p] = t[p]
    BY LineSuffix
  <2>. QED  BY <1>1, <2>1
<1>5. InOrder(cur[f])
  <2>. SUFFICES ASSUME NEW p \in 1 .. Len(cur[f]), NEW q \in 1 .. Len(cur[f]), p < q
                PROVE  cur[f][p].id < cur[f][q].id
    BY DEF InOrder
  <2>1. Len(bak[f]) + p < Len(bak[f]) + q
    BY <1>1
  <2>. QED  BY <1>4, <2>1 DEF FdInv, InOrder, Line
<1>6. AllWhole(cur[f])
  BY DEF FdInv
<1>7. TailWhole(cur[f])
  BY <1>1, <1>6 DEF AllWhole, TailWhole
<1>8. HeadStarted(f)'
  <2>. SUFFICES ASSUME cur[f] # <<>> PROVE ~(cur[f][1].rest < cur[f][1].len)
    BY <1>2 DEF HeadStarted
  <2>1. cur[f][1] \in Entry /\ 1 \in 1 .. Len(cur[f])
    BY <1>1
  <2>2. cur[f][1].rest = cur[f][1].len /\ cur[f][1].len \in Nat
    BY <1>6, <2>1, EntryFields DEF AllWhole
  <2>. QED  BY <2>2
<1>9. LinkContinues(f)'
  BY DEF LinkContinues
<1>. QED  BY <1>2, <1>5, <1>6, <1>7, <1>8, <1>9 DEF FdInv

\* A new message waits behind all others.
LEMMA AddFd ==
    ASSUME TypeInv, MsgInv, NEW f \in Fds, FdInv(f),
           NEW c \in 0 .. MaxConns, NEW len \in 1 .. MaxLen, AddMsgToSendList(f, c, len)
    PROVE  FdInv(f)'
<1>. DEFINE L == Line(f)
            n == Len(L)
            e == [id |-> Len(msgs) + 1, conn |-> c, len |-> len, rest |-> len]
<1>1. /\ e \in Entry /\ Len(msgs) \in Nat
      /\ cur'[f] = Append(cur[f], e)
      /\ \A k \in 1 .. Len(msgs) : msgs'[k] = msgs[k]
      /\ UNCHANGED <<conns, live, bak, wire>>
  BY AddFacts
<1>2. e.id = Len(msgs) + 1 /\ e.rest = e.len /\ e.len \in Nat
  OBVIOUS
<1>3. bak[f] \in Seq(Entry) /\ cur[f] \in Seq(Entry)
  BY DEF TypeInv, TypeOK, MapsOK
<1>4. L \in Seq(Entry) /\ n \in Nat
  BY <1>3, ConcatProperties, LenProperties DEF Line
<1>. HIDE DEF e
<1>5. Line(f)' = Append(L, e)
  <2>1. \A s, t \in Seq(Entry) : s \o Append(t, e) = Append(s \o t, e)
    BY <1>1, LineAppend, SMTT(30)
  <2>. QED  BY <1>1, <1>3, <2>1 DEF Line
<1>6. \A p \in 1 .. n : L[p] \in Entry /\ L[p].id \in 1 .. Len(msgs)
  BY LineFacts
<1>. HIDE DEF L, n
<1>7. /\ Len(Append(L, e)) = n + 1 /\ Append(L, e)[n + 1] = e
      /\ \A p \in 1 .. n : Append(L, e)[p] = L[p]
      /\ Append(L, e) # <<>>
  BY <1>1, <1>4, AppendType DEF n
<1>8. n \in Nat
  BY <1>4
<1>9. /\ \A p \in 1 .. n + 1 : p \in 1 .. n \/ p = n + 1
     /\ \A p \in 2 .. n + 1 : p \in 2 .. n \/ p = n + 1
  BY <1>8
<1>10. InOrder(L) /\ TailWhole(L) /\ AllWhole(cur[f]) /\ HeadStarted(f) /\ LinkContinues(f)
  BY DEF FdInv, L
<1>11. InOrder(Append(L, e))
  <2>. SUFFICES ASSUME NEW p \in 1 .. n + 1, NEW q \in 1 .. n + 1, p < q
                PROVE  Append(L, e)[p].id < Append(L, e)[q].id
    BY <1>7 DEF InOrder
  <2>1. p \in 1 .. n /\ Append(L, e)[p] = L[p]
    BY <1>4, <1>7
  <2>2. CASE q \in 1 .. n
    BY <1>7, <1>10, <2>1, <2>2 DEF InOrder, n
  <2>3. CASE q = n + 1
    BY <1>1, <1>2, <1>6, <1>7, <2>1, <2>3
  <2>4. q \in 1 .. n \/ q = n + 1
    BY <1>9
  <2>. QED  BY <2>2, <2>3, <2>4
<1>12. TailWhole(Append(L, e))
  <2>. SUFFICES ASSUME NEW p \in 2 .. n + 1
                PROVE  Append(L, e)[p].rest = Append(L, e)[p].len
    BY <1>7 DEF TailWhole
  <2>1. CASE p \in 2 .. n
    BY <1>7, <1>10, <2>1 DEF TailWhole, n
  <2>2. CASE p = n + 1
    BY <1>2, <1>7, <2>2
  <2>3. p \in 2 .. n \/ p = n + 1
    BY <1>9
  <2>. QED  BY <2>1, <2>2, <2>3
<1>13. AllWhole(cur[f])'
  <2>1. /\ Len(Append(cur[f], e)) = Len(cur[f]) + 1 /\ Append(cur[f], e)[Len(cur[f]) + 1] = e
        /\ \A p \in 1 .. Len(cur[f]) : Append(cur[f], e)[p] = cur[f][p]
    BY <1>1, <1>3, AppendType
  <2>2. Len(cur[f]) \in Nat
    BY <1>3, LenProperties
  <2>. SUFFICES ASSUME NEW p \in 1 .. Len(cur[f]) + 1
                PROVE  Append(cur[f], e)[p].rest = Append(cur[f], e)[p].len
    BY <1>1, <2>1 DEF AllWhole
  <2>3. CASE p \in 1 .. Len(cur[f])
    BY <1>10, <2>1, <2>3 DEF AllWhole
  <2>4. CASE p = Len(cur[f]) + 1
    BY <1>2, <2>1, <2>4
  <2>. QED  BY <2>2, <2>3, <2>4
<1>14. HeadStarted(f)'
  <2>1. CASE L = <<>>
    <3>1. Append(L, e)[1] = e
      BY <1>4, <1>7, <2>1 DEF n
    <3>. QED  BY <1>2, <1>5, <3>1 DEF HeadStarted
  <2>2. CASE L # <<>>
    <3>1. 1 \in 1 .. n
      BY <1>4, <2>2 DEF n
    <3>2. Append(L, e)[1] = L[1]
      BY <1>7, <3>1
    <3>. QED  BY <1>1, <1>5, <1>10, <2>2, <3>2 DEF HeadStarted, LastOf, L
  <2>. QED  BY <2>1, <2>2
<1>15. LinkContinues(f)'
  <2>. DEFINE i == live[f]
              z == LastOf(i)
  <2>. SUFFICES ASSUME i # 0, wire[i] # <<>>
                PROVE  /\ \A p \in 1 .. n + 1 :
                            /\ Append(L, e)[p].id >= z.id
                            /\ Append(L, e)[p].id = z.id =>
                                  Append(L, e)[p].rest = Append(L, e)[p].len - z.to
                       /\ z.to < msgs'[z.id].len => Append(L, e)[1].id = z.id
    BY <1>1, <1>5, <1>7 DEF LinkContinues, LastOf
  <2>1. i \in 1 .. Len(conns)
    BY DEF TypeInv, TypeOK, ConnsOK
  <2>2. z.id \in 1 .. Len(msgs) /\ msgs'[z.id] = msgs[z.id]
    BY <1>1, <2>1, LastFacts
  <2>3. /\ \A p \in 1 .. n : L[p].id >= z.id /\ (L[p].id = z.id => L[p].rest = L[p].len - z.to)
        /\ z.to < msgs[z.id].len => L # <<>> /\ L[1].id = z.id
    BY <1>10 DEF LinkContinues, L, n
  <2>. HIDE DEF z, i
  <2>4. ASSUME NEW p \in 1 .. n + 1
        PROVE  /\ Append(L, e)[p].id >= z.id
               /\ Append(L, e)[p].id = z.id => Append(L, e)[p].rest = Append(L, e)[p].len - z.to
    <3>1. CASE p \in 1 .. n
      BY <1>7, <2>3, <3>1
    <3>2. CASE p = n + 1
      <4>1. e.id > z.id
        BY <1>1, <1>2, <2>2
      <4>. QED  BY <1>1, <1>2, <1>7, <2>2, <3>2, <4>1
    <3>3. p \in 1 .. n \/ p = n + 1
      BY <1>9
    <3>. QED  BY <3>1, <3>2, <3>3
  <2>5. z.to < msgs'[z.id].len => Append(L, e)[1].id = z.id
    BY <1>4, <1>7, <2>2, <2>3 DEF n
  <2>. QED  BY <2>4, <2>5
<1>. QED  BY <1>5, <1>11, <1>12, <1>13, <1>14, <1>15 DEF FdInv

\* What is left of a line without its first message is in order and whole.
LEMMA ShiftedLine ==
    ASSUME NEW S, NEW L \in Seq(S), NEW M \in Seq(S), Len(L) \in Nat \ {0},
           Len(M) = Len(L) - 1, \A p \in 1 .. Len(L) - 1 : M[p] = L[p + 1],
           InOrder(L), TailWhole(L)
    PROVE  /\ InOrder(M) /\ AllWhole(M) /\ TailWhole(M)
           /\ \A p \in 1 .. Len(M) : L[1].id < M[p].id
<1>1. \A p \in 1 .. Len(M) : /\ p + 1 \in 2 .. Len(L) /\ p + 1 \in 1 .. Len(L)
                             /\ M[p] = L[p + 1] /\ 1 < p + 1 /\ 1 \in 1 .. Len(L)
  OBVIOUS
<1>2. AllWhole(M)
  BY <1>1 DEF AllWhole, TailWhole
<1>3. \A p \in 1 .. Len(M) : L[1].id < M[p].id
  BY <1>1 DEF InOrder
<1>4. InOrder(M)
  <2>. SUFFICES ASSUME NEW p \in 1 .. Len(M), NEW q \in 1 .. Len(M), p < q
                PROVE  M[p].id < M[q].id
    BY DEF InOrder
  <2>1. p + 1 < q + 1
    OBVIOUS
  <2>. QED  BY <1>1, <2>1 DEF InOrder
<1>5. TailWhole(M)
  BY <1>2 DEF AllWhole, TailWhole
<1>. QED  BY <1>2, <1>3, <1>4, <1>5

\* The line of the descriptor doSendMessage works on.
LEMMA SendingLine ==
    ASSUME TypeInv, MsgInv, Sending
    PROVE  LET L == Line(sending)
               M == Tail(bak[sending]) \o cur[sending]
           IN  /\ L \in Seq(Entry) /\ M \in Seq(Entry) /\ L # <<>>
               /\ Len(L) \in Nat \ {0} /\ Len(M) = Len(L) - 1
               /\ \A p \in 1 .. Len(L) - 1 : M[p] = L[p + 1]
               /\ L[1] = Front1
<1>1. /\ bak[sending] \in Seq(Entry) /\ cur[sending] \in Seq(Entry) /\ bak[sending] # <<>>
  BY SendingFacts DEF TypeInv, TypeOK, MapsOK
<1>2. \A s, t \in Seq(Entry) : s # <<>> =>
         /\ Tail(s) \o t \in Seq(Entry) /\ s \o t \in Seq(Entry) /\ Len(s \o t) \in Nat \ {0}
         /\ Len(Tail(s) \o t) = Len(s \o t) - 1
         /\ \A p \in 1 .. Len(s \o t) - 1 : (Tail(s) \o t)[p] = (s \o t)[p + 1]
         /\ (s \o t)[1] = Head(s)
  BY LineTail
<1>3. bak[sending] \o cur[sending] # <<>>
  BY <1>1, <1>2
<1>. QED  BY <1>1, <1>2, <1>3 DEF Line, Front1

\* A message of an old connection is dropped: it was not one cut short.
LEMMA DropFd ==
    ASSUME TypeInv, MsgInv, NEW f \in Fds, f = sending, FdInv(f), DropStale
    PROVE  FdInv(f)'
<1>. DEFINE L == Line(f)
            M == Tail(bak[f]) \o cur[f]
            i == live[f]
            z == LastOf(i)
<1>1. /\ Sending /\ Front1.conn # i
      /\ bak' = [bak EXCEPT ![sending] = Tail(@)]
      /\ UNCHANGED <<conns, live, cur, msgs, wire>>
  BY DEF DropStale, IsCurrent, loop, table
<1>2. f \in Fds /\ i \in 1 .. Len(conns)
  BY <1>1, SendingFacts
<1>3. /\ L \in Seq(Entry) /\ M \in Seq(Entry) /\ Len(L) \in Nat \ {0} /\ Len(M) = Len(L) - 1
      /\ \A p \in 1 .. Len(L) - 1 : M[p] = L[p + 1]
      /\ L[1] = Front1
  BY <1>1, SendingLine
<1>4. Line(f)' = M
  BY <1>1, <1>2 DEF Line, TypeInv, TypeOK, MapsOK
<1>5. 1 \in 1 .. Len(L) /\ msgs[L[1].id].conn = L[1].conn
  <2>1. 1 \in 1 .. Len(L)
    BY <1>3
  <2>. QED  BY <2>1, LineFacts
<1>6. \A p \in 1 .. Len(M) : M[p] \in Entry /\ M[p].rest \in Nat
  <2>. HIDE DEF M
  <2>1. \A p \in 1 .. Len(M) : M[p] \in Entry
    BY <1>3
  <2>. QED  BY <2>1, EntryFields
<1>. HIDE DEF L, M
<1>7. /\ InOrder(L) /\ TailWhole(L) /\ AllWhole(cur[f]) /\ LinkContinues(f)
  BY DEF FdInv, L
<1>8. /\ InOrder(M) /\ AllWhole(M) /\ TailWhole(M)
      /\ \A p \in 1 .. Len(M) : L[1].id < M[p].id
  BY <1>3, <1>7, ShiftedLine
<1>9. HeadStarted(f)'
  <2>. SUFFICES ASSUME M # <<>> PROVE ~(M[1].rest < M[1].len)
    BY <1>4 DEF HeadStarted
  <2>1. 1 \in 1 .. Len(M)
    BY <1>3
  <2>. QED  BY <1>6, <1>8, <2>1 DEF AllWhole
<1>10. LinkContinues(f)'
  <2>. SUFFICES ASSUME wire[i] # <<>>
                PROVE  /\ \A p \in 1 .. Len(M) :
                            M[p].id >= z.id /\ (M[p].id = z.id => M[p].rest = M[p].len - z.to)
                       /\ z.to < msgs[z.id].len => M # <<>> /\ M[1].id = z.id
    BY <1>1, <1>4 DEF LinkContinues, LastOf
  <2>1. msgs[z.id].conn = i
    BY <1>2, LastFacts
  <2>2. /\ \A p \in 1 .. Len(L) : L[p].id >= z.id /\ (L[p].id = z.id => L[p].rest = L[p].len - z.to)
        /\ z.to < msgs[z.id].len => L[1].id = z.id
    BY <1>2, <1>7 DEF LinkContinues, L
  <2>3. ~(z.to < msgs[z.id].len)
    BY <1>1, <1>3, <1>5, <2>1, <2>2
  <2>4. \A p \in 1 .. Len(M) : p + 1 \in 1 .. Len(L) /\ M[p] = L[p + 1]
    BY <1>3
  <2>. QED  BY <2>2, <2>3, <2>4
<1>. QED  BY <1>1, <1>4, <1>7, <1>8, <1>9, <1>10 DEF FdInv

\* Writing n units of the first message.
LEMMA WriteFd ==
    ASSUME TypeInv, MsgInv, NEW f \in Fds, f = sending, FdInv(f),
           NEW n \in 1 .. Front1.rest, SendSome(n)
    PROVE  FdInv(f)'
<1>. DEFINE L == Line(f)
            M == Tail(bak[f]) \o cur[f]
            i == live[f]
            h == Front1
            c == [id |-> h.id, from |-> h.len - h.rest, to |-> h.len - h.rest + n]
<1>1. /\ Sending /\ UNCHANGED <<conns, live, cur, msgs>> /\ cur \in [Fds -> Seq(Entry)]
  BY DEF SendSome, TypeInv, TypeOK, MapsOK
<1>2. f \in Fds /\ i \in 1 .. Len(conns) /\ h \in Entry /\ h.conn = i
  BY SendSomeFacts
<1>3. /\ L \in Seq(Entry) /\ M \in Seq(Entry) /\ L # <<>>
      /\ Len(L) \in Nat \ {0} /\ Len(M) = Len(L) - 1
      /\ \A p \in 1 .. Len(L) - 1 : M[p] = L[p + 1]
      /\ L[1] = h
  BY <1>1, SendingLine
<1>4. 1 \in 1 .. Len(L) /\ msgs[h.id].len = h.len
  <2>1. 1 \in 1 .. Len(L)
    BY <1>3
  <2>2. msgs[L[1].id].len = L[1].len
    BY <2>1, LineFacts
  <2>. HIDE DEF L, h
  <2>. QED  BY <1>3, <2>1, <2>2
<1>5. h.len \in Nat /\ h.rest \in Nat /\ h.id \in Nat /\ h.rest <= h.len /\ n <= h.rest /\ n \in Nat
  <2>1. h.len \in 1 .. MaxLen /\ h.rest \in 1 .. h.len /\ h.id \in 1 .. MaxMsgs
    BY <1>2, EntryFields
  <2>. HIDE DEF h
  <2>. QED  BY <2>1 DEF h
<1>6. wire'[i] # <<>> /\ wire'[i][Len(wire'[i])] = c
  <2>1. c \in Chunk /\ wire[i] \in Seq(Chunk) /\ wire'[i] = Append(wire[i], c)
    BY SendSomeFacts
  <2>. HIDE DEF c, i
  <2>2. Len(wire'[i]) = Len(wire[i]) + 1 /\ wire'[i][Len(wire[i]) + 1] = c /\ Len(wire[i]) \in Nat
    BY <2>1, AppendType, LenProperties
  <2>. QED  BY <2>2
<1>. HIDE DEF L, M, h
<1>7. InOrder(L) /\ TailWhole(L) /\ AllWhole(cur[f])
  BY DEF FdInv, L
<1>8. /\ InOrder(M) /\ AllWhole(M) /\ TailWhole(M)
      /\ \A p \in 1 .. Len(M) : h.id < M[p].id
  BY <1>3, <1>7, ShiftedLine
<1>9. \A p \in 1 .. Len(L) : L[p] \in Entry /\ L[p].id \in Nat
  BY <1>3, EntryFields
<1>10. \A p \in 1 .. Len(M) : M[p] \in Entry /\ M[p].id \in Nat /\ M[p].rest \in Nat
  BY <1>3, EntryFields
<1>11. c.id = h.id /\ c.to = h.len - h.rest + n
  OBVIOUS
<1>. HIDE DEF c
<1>12. CASE n = h.rest
  <2>1. Line(f)' = M
    BY <1>1, <1>12, SendSomeFacts DEF Line, M, h
  <2>2. HeadStarted(f)'
    <3>. SUFFICES ASSUME M # <<>> PROVE ~(M[1].rest < M[1].len)
      BY <2>1 DEF HeadStarted
    <3>1. 1 \in 1 .. Len(M)
      BY <1>3
    <3>. QED  BY <1>8, <1>10, <3>1 DEF AllWhole
  <2>3. LinkContinues(f)'
    <3>1. c.to = h.len
      BY <1>5, <1>11, <1>12
    <3>2. ~(c.to < msgs[c.id].len)
      BY <1>4, <1>5, <1>11, <3>1
    <3>3. \A p \in 1 .. Len(M) : M[p].id >= c.id /\ M[p].id # c.id
      BY <1>5, <1>8, <1>10, <1>11
    <3>. QED  BY <1>1, <1>6, <2>1, <3>2, <3>3 DEF LinkContinues, LastOf
  <2>. QED  BY <1>1, <1>7, <1>8, <2>1, <2>2, <2>3 DEF FdInv
<1>13. CASE n < h.rest
  <2>. DEFINE r == Remainder(h, n)
              N == (<<r>> \o Tail(bak[f])) \o cur[f]
  <2>1. r \in Entry /\ r.id = h.id /\ r.conn = h.conn /\ r.len = h.len /\ r.rest = h.rest - n
    BY <1>2, <1>5, <1>13, RemainderType
  <2>2. Line(f)' = N
    BY <1>1, <1>13, SendSomeFacts DEF Line, h
  <2>3. Len(N) = Len(L) /\ N[1] = r /\ \A p \in 2 .. Len(L) : N[p] = L[p]
    <3>1. bak[f] \in Seq(Entry) /\ cur[f] \in Seq(Entry) /\ bak[f] # <<>>
      BY <1>1, <1>2, SendingFacts
    <3>2. PICK s \in Seq(Entry), t \in Seq(Entry) : s = bak[f] /\ t = cur[f]
      BY <3>1
    <3>3. N = (<<r>> \o Tail(s)) \o t /\ L = s \o t /\ s # <<>>
      BY <3>1, <3>2 DEF L, Line
    <3>. HIDE DEF r, N
    <3>4. /\ Len((<<r>> \o Tail(s)) \o t) = Len(s \o t)
          /\ ((<<r>> \o Tail(s)) \o t)[1] = r
          /\ \A p \in 2 .. Len(s \o t) : ((<<r>> \o Tail(s)) \o t)[p] = (s \o t)[p]
      BY <2>1, <3>3, LineHead
    <3>. QED  BY <3>3, <3>4
  <2>. HIDE DEF r, N
  <2>4. \A p \in 1 .. Len(L) : p = 1 \/ p \in 2 .. Len(L)
    BY <1>3
  <2>5. \A p \in 1 .. Len(L) : N[p].id = L[p].id
    BY <1>3, <2>1, <2>3, <2>4
  <2>6. InOrder(N)
    BY <1>7, <2>3, <2>5 DEF InOrder
  <2>7. TailWhole(N)
    BY <1>7, <2>3 DEF TailWhole
  <2>8. r.len - r.rest = c.to /\ r.rest = r.len - c.to /\ N # <<>>
    BY <1>3, <1>5, <1>11, <2>1, <2>3
  <2>9. HeadStarted(f)'
    BY <1>1, <1>2, <1>6, <1>11, <2>1, <2>2, <2>3, <2>8 DEF HeadStarted, LastOf
  <2>10. LinkContinues(f)'
    <3>1. \A p \in 2 .. Len(L) : L[p].id > h.id
      BY <1>3, <1>4, <1>7 DEF InOrder
    <3>2. \A p \in 1 .. Len(N) : /\ N[p].id >= c.id
                                 /\ N[p].id = c.id => N[p].rest = N[p].len - c.to
      <4>. SUFFICES ASSUME NEW p \in 1 .. Len(L)
                    PROVE  /\ N[p].id >= c.id
                           /\ N[p].id = c.id => N[p].rest = N[p].len - c.to
        BY <2>3
      <4>1. CASE p = 1
        BY <1>5, <1>11, <2>1, <2>3, <2>8, <4>1
      <4>2. CASE p \in 2 .. Len(L)
        <5>1. N[p].id = L[p].id /\ L[p].id \in Nat /\ L[p].id > h.id
          BY <1>9, <2>5, <3>1, <4>2
        <5>. QED  BY <1>5, <1>11, <5>1
      <4>. QED  BY <2>4, <4>1, <4>2
    <3>. QED  BY <1>1, <1>6, <1>11, <2>1, <2>2, <2>3, <2>8, <3>2 DEF LinkContinues, LastOf
  <2>. QED  BY <1>1, <1>7, <2>2, <2>6, <2>7, <2>9, <2>10 DEF FdInv
<1>. QED  BY <1>5, <1>12, <1>13

\* A descriptor never becomes unspilled.
LEMMA SpilledGrows == TypeInv /\ [Next]_vars => spilled \subseteq spilled'
<1>. SUFFICES ASSUME TypeInv, [Next]_vars PROVE spilled \subseteq spilled'
  OBVIOUS
<1>1. CASE Send
  BY <1>1, SendArguments, AddFacts
<1>2. CASE DropStale \/ SwitchSendMap \/ Quiet \/ \E n \in 1 .. Front1.rest : SendSome(n)
  BY <1>2 DEF DropStale, SwitchSendMap, Quiet, SendSome
<1>. QED  BY <1>1, <1>2, StepKinds

LEMMA NextOrder == TypeInv /\ MsgInv /\ OrderInv /\ [Next]_vars => OrderInv'
<1>. SUFFICES ASSUME TypeInv, MsgInv, OrderInv, [Next]_vars, NEW g \in Fds, g \notin spilled'
              PROVE  FdInv(g)'
  BY DEF OrderInv
<1>1. FdInv(g) /\ AllWhole(cur[g]) /\ Len(conns) \in Nat
  BY SpilledGrows DEF OrderInv, FdInv, TypeInv, TypeOK, ConnsOK
<1>2. CASE Send
  <2>1. PICK f \in Fds, c \in 0 .. MaxConns, len \in 1 .. MaxLen : AddMsgToSendList(f, c, len)
    BY <1>2, SendArguments
  <2>2. CASE g = f
    BY <1>1, <2>1, <2>2, AddFd
  <2>3. CASE g # f
    <3>1. /\ cur'[g] = cur[g] /\ UNCHANGED <<conns, live, bak, wire>>
          /\ \A k \in 1 .. Len(msgs) : msgs'[k] = msgs[k]
      BY <2>1, <2>3, AddFacts
    <3>2. Line(g)' = Line(g)
      BY <3>1 DEF Line
    <3>. QED  BY <1>1, <3>1, <3>2, KeepFd
  <2>. QED  BY <2>2, <2>3
<1>3. CASE \E n \in 1 .. Front1.rest : SendSome(n)
  <2>1. PICK n \in 1 .. Front1.rest : SendSome(n)
    BY <1>3
  <2>2. CASE g = sending
    BY <1>1, <2>1, <2>2, WriteFd
  <2>3. CASE g # sending
    <3>1. /\ bak'[g] = bak[g] /\ UNCHANGED <<conns, live, cur, msgs>>
      BY <2>1, <2>3, SendSomeFacts DEF SendSome
    <3>2. Line(g)' = Line(g)
      BY <3>1 DEF Line
    <3>3. \A i \in 1 .. Len(conns) : conns[i] = g => i # live[sending]
      <4>0. Sending
        BY <2>1 DEF SendSome
      <4>1. sending \in Fds /\ live[sending] # 0
        BY <4>0, SendingFacts
      <4>2. conns[live[sending]] = sending
        BY <4>1 DEF TypeInv, LoopInv, LiveInv
      <4>. QED  BY <2>3, <4>2
    <3>4. \A i \in 1 .. Len(conns) : conns[i] = g => wire'[i] = wire[i]
      BY <2>1, <3>3, SendSomeFacts DEF TypeInv, TypeOK, WireOK
    <3>. QED  BY <1>1, <3>1, <3>2, <3>4, KeepFd
  <2>. QED  BY <2>2, <2>3
<1>4. CASE DropStale
  <2>1. CASE g = sending
    BY <1>1, <1>4, <2>1, DropFd
  <2>2. CASE g # sending
    <3>1. UNCHANGED <<conns, live, cur, msgs, wire>> /\ bak'[g] = bak[g]
      BY <1>4, <2>2 DEF DropStale, table, TypeInv, TypeOK, MapsOK
    <3>2. Line(g)' = Line(g)
      BY <3>1 DEF Line
    <3>. QED  BY <1>1, <3>1, <3>2, KeepFd
  <2>. QED  BY <2>1, <2>2
<1>5. CASE SwitchSendMap
  <2>1. /\ bak'[g] = Merge(bak[g], cur[g]) /\ cur'[g] = <<>>
        /\ ~Overflows(bak[g], cur[g])
        /\ UNCHANGED <<conns, live, msgs, wire>>
    BY <1>5 DEF SwitchSendMap, table
  <2>2. Line(g)' = Line(g)
    <3>1. bak[g] \o cur[g] \in Seq(Entry)
      BY ConcatProperties DEF TypeInv, TypeOK, MapsOK
    <3>2. (bak[g] \o cur[g]) \o <<>> = bak[g] \o cur[g]
      BY <3>1, ConcatEmptySeq
    <3>. QED  BY <2>1, <3>2 DEF Line, Merge
  <2>3. AllWhole(cur'[g])
    BY <2>1 DEF AllWhole
  <2>. QED  BY <1>1, <2>1, <2>2, <2>3, KeepFd
<1>6. CASE Quiet
  <2>1. CASE bak'[g] = bak[g]
    <3>1. Line(g)' = Line(g) /\ cur' = cur /\ msgs' = msgs
      BY <1>6, <2>1 DEF Quiet, Line
    <3>2. live'[g] # 0 /\ wire'[live'[g]] # <<>> => live'[g] = live[g]
      BY <1>6 DEF Quiet
    <3>3. Len(conns') >= Len(conns) /\ \A i \in 1 .. Len(conns) : wire'[i] = wire[i]
      BY <1>6 DEF Quiet
    <3>4. Len(conns') \in Nat
      BY NextType DEF TypeInv, TypeOK, ConnsOK
    <3>. QED  BY <1>1, <3>1, <3>2, <3>3, <3>4, KeepFd
  <2>2. CASE bak'[g] = <<>> /\ live'[g] = 0
    BY <1>1, <1>6, <2>2, ClosedFd DEF Quiet
  <2>. QED  BY <1>6, <2>1, <2>2 DEF Quiet
<1>. QED  BY <1>2, <1>3, <1>4, <1>5, <1>6, StepKinds

LEMMA InitOrder == Init => OrderInv
<1>. SUFFICES ASSUME Init, NEW f \in Fds PROVE FdInv(f)
  BY DEF OrderInv
<1>1. bak[f] = <<>> /\ cur[f] = <<>> /\ live[f] = 0 /\ Line(f) = <<>>
  BY DEF Init, Line
<1>. QED
  BY <1>1 DEF FdInv, InOrder, TailWhole, AllWhole, HeadStarted, LinkContinues

\* The byte stream a connection was sent, one connection of StreamIntact.
StreamOf(i) ==
    (conns[i] \notin spilled /\ wire[i] # <<>>) =>
        /\ wire[i][1].from = 0
        /\ \A p \in 1 .. Len(wire[i]) - 1 : Follows(wire[i][p], wire[i][p + 1])

\* A step that does not write to connection i leaves its stream as it is.
LEMMA KeepStream ==
    ASSUME TypeInv, MsgInv, NEW i \in 1 .. Len(conns), StreamOf(i),
           wire'[i] = wire[i], conns'[i] = conns[i], spilled \subseteq spilled',
           \A k \in 1 .. Len(msgs) : msgs'[k] = msgs[k]
    PROVE  StreamOf(i)'
<1>1. wire[i] \in Seq(Sent(i)) /\ Len(wire[i]) \in Nat
  BY LenProperties DEF MsgInv, TypeInv, TypeOK, WireOK
<1>2. \A p \in 1 .. Len(wire[i]) - 1 : wire[i][p] \in Sent(i)
  BY <1>1
<1>3. \A p \in 1 .. Len(wire[i]) - 1 : msgs'[wire[i][p].id] = msgs[wire[i][p].id]
  BY <1>2 DEF Sent
<1>4. ASSUME conns[i] \notin spilled, wire[i] # <<>>
      PROVE  /\ wire[i][1].from = 0
             /\ \A p \in 1 .. Len(wire[i]) - 1 : Follows(wire[i][p], wire[i][p + 1])'
  <2>1. /\ wire[i][1].from = 0
        /\ \A p \in 1 .. Len(wire[i]) - 1 : Follows(wire[i][p], wire[i][p + 1])
    BY <1>4 DEF StreamOf
  <2>. QED  BY <1>3, <2>1 DEF Follows
<1>. QED  BY <1>4 DEF StreamOf

\* doSendMessage goes on where the stream of the connection ends.
LEMMA WriteStream ==
    ASSUME TypeInv, MsgInv, NEW n \in 1 .. Front1.rest, SendSome(n),
           NEW i \in 1 .. Len(conns), i = live[sending],
           StreamOf(i), FdInv(sending), sending \notin spilled
    PROVE  /\ wire'[i][1].from = 0
           /\ \A p \in 1 .. Len(wire'[i]) - 1 : Follows(wire'[i][p], wire'[i][p + 1])
<1>. DEFINE h == Front1
            c == [id |-> h.id, from |-> h.len - h.rest, to |-> h.len - h.rest + n]
            m == Len(wire[i])
            z == LastOf(i)
<1>1. /\ Sending /\ sending \in Fds /\ h \in Entry /\ h.conn = i
      /\ wire[i] \in Seq(Chunk) /\ c \in Chunk /\ wire'[i] = Append(wire[i], c)
  BY SendSomeFacts DEF SendSome
<1>2. conns[i] = sending
  BY <1>1 DEF TypeInv, LoopInv, LiveInv
<1>3. Line(sending) # <<>> /\ Line(sending)[1] = h /\ 1 \in 1 .. Len(Line(sending))
  <2>1. /\ Line(sending) \in Seq(Entry) /\ Line(sending) # <<>>
        /\ Len(Line(sending)) \in Nat \ {0}
        /\ Line(sending)[1] = Front1
    BY <1>1, SendingLine
  <2>2. 1 \in 1 .. Len(Line(sending))
    BY <2>1
  <2>. QED  BY <2>1, <2>2
<1>4. h.len \in Nat /\ h.rest \in Nat /\ h.rest <= h.len /\ h.id \in Nat
  <2>1. h.len \in 1 .. MaxLen /\ h.rest \in 1 .. h.len /\ h.id \in 1 .. MaxMsgs
    BY <1>1, EntryFields
  <2>. HIDE DEF h
  <2>. QED  BY <2>1
<1>5. h.rest < h.len => wire[i] # <<>> /\ z.id = h.id
  BY <1>1, <1>3 DEF FdInv, HeadStarted
<1>6. c.id = h.id /\ c.from = h.len - h.rest
  OBVIOUS
<1>. HIDE DEF c, h
<1>7. /\ Len(wire'[i]) = m + 1 /\ wire'[i][m + 1] = c /\ m \in Nat
      /\ \A p \in 1 .. m : wire'[i][p] = wire[i][p]
  BY <1>1, AppendType, LenProperties
<1>8. CASE wire[i] = <<>>
  <2>1. m = 0
    BY <1>8
  <2>2. ~(h.rest < h.len)
    BY <1>5, <1>8
  <2>3. c.from = 0
    BY <1>4, <1>6, <2>2
  <2>. QED  BY <1>7, <2>1, <2>3
<1>9. CASE wire[i] # <<>>
  <2>1. /\ wire[i][1].from = 0
        /\ \A p \in 1 .. m - 1 : Follows(wire[i][p], wire[i][p + 1])
    BY <1>2, <1>9 DEF StreamOf
  <2>2. m \in Nat \ {0} /\ z = wire[i][m] /\ z \in Chunk /\ z.to <= msgs[z.id].len
    BY <1>9, LastFacts DEF LastOf
  <2>3. /\ h.id >= z.id /\ (h.id = z.id => h.rest = h.len - z.to)
        /\ z.to < msgs[z.id].len => h.id = z.id
    BY <1>1, <1>3, <1>9 DEF FdInv, LinkContinues
  <2>4. z.to \in Nat /\ z.id \in Nat /\ msgs[z.id].len \in Nat
    <3>0. z.id \in 1 .. Len(msgs)
      BY <1>9, LastFacts
    <3>. DEFINE R == [fd : Fds, conn : 0 .. MaxConns, len : 1 .. MaxLen]
    <3>1. msgs \in Seq(R)
      BY DEF TypeInv, TypeOK, MsgsOK
    <3>. HIDE DEF z, R
    <3>2. msgs[z.id] \in R
      BY <3>0, <3>1
    <3>. QED  BY <2>2, <3>2, SMTT(20) DEF Chunk, R
  <2>. HIDE DEF z, m
  <2>5. Follows(z, c)
    <3>1. CASE h.id = z.id
      <4>1. c.from = z.to
        BY <1>4, <1>6, <2>3, <2>4, <3>1
      <4>. QED  BY <1>6, <3>1, <4>1 DEF Follows
    <3>2. CASE h.id # z.id
      <4>1. c.id > z.id
        BY <1>4, <1>6, <2>3, <2>4, <3>2
      <4>2. z.to = msgs[z.id].len
        BY <2>2, <2>3, <2>4, <3>2
      <4>3. c.from = 0
        BY <1>4, <1>5, <1>6, <3>2
      <4>. QED  BY <4>1, <4>2, <4>3 DEF Follows
    <3>. QED  BY <3>1, <3>2
  <2>6. ASSUME NEW p \in 1 .. m PROVE Follows(wire'[i][p], wire'[i][p + 1])
    <3>1. CASE p = m
      BY <1>7, <2>2, <2>5, <3>1
    <3>2. CASE p # m
      <4>1. p \in 1 .. m - 1 /\ p + 1 \in 1 .. m
        BY <2>2, <3>2
      <4>. QED  BY <1>7, <2>1, <4>1
    <3>. QED  BY <3>1, <3>2
  <2>7. wire'[i][1] = wire[i][1]
    BY <1>7, <2>2
  <2>8. Len(wire'[i]) - 1 = m
    BY <1>7
  <2>. QED  BY <2>1, <2>6, <2>7, <2>8
<1>. QED  BY <1>8, <1>9

LEMMA NextStream == TypeInv /\ MsgInv /\ OrderInv /\ StreamIntact /\ [Next]_vars => StreamIntact'
<1>. SUFFICES ASSUME TypeInv, MsgInv, OrderInv, StreamIntact, [Next]_vars,
                     NEW i \in 1 .. Len(wire')
              PROVE  StreamOf(i)'
  BY DEF StreamIntact, StreamOf
<1>1. /\ Len(conns) \in Nat /\ Len(wire) = Len(conns) /\ spilled \subseteq spilled'
      /\ \A j \in 1 .. Len(conns) : StreamOf(j)
  <2>1. Len(conns) \in Nat /\ Len(wire) = Len(conns)
    BY DEF TypeInv, TypeOK, ConnsOK, WireOK
  <2>2. spilled \subseteq spilled'
    BY SpilledGrows
  <2>3. \A j \in 1 .. Len(conns) : StreamOf(j)
    BY <2>1 DEF StreamIntact, StreamOf
  <2>. QED  BY <2>1, <2>2, <2>3
<1>2. CASE Send
  <2>1. PICK f \in Fds, c \in 0 .. MaxConns, len \in 1 .. MaxLen : AddMsgToSendList(f, c, len)
    BY <1>2, SendArguments
  <2>2. UNCHANGED <<conns, wire>> /\ \A k \in 1 .. Len(msgs) : msgs'[k] = msgs[k]
    BY <2>1, AddFacts
  <2>. QED  BY <1>1, <2>2, KeepStream
<1>3. CASE DropStale \/ SwitchSendMap
  <2>1. UNCHANGED <<conns, wire, msgs>>
    BY <1>3 DEF DropStale, SwitchSendMap, table
  <2>. QED  BY <1>1, <2>1, KeepStream
<1>4. CASE Quiet
  <2>1. CASE i \in 1 .. Len(conns)
    <3>1. wire'[i] = wire[i] /\ conns'[i] = conns[i] /\ msgs' = msgs
      BY <1>4, <2>1 DEF Quiet
    <3>. QED  BY <1>1, <2>1, <3>1, KeepStream
  <2>2. CASE i \notin 1 .. Len(conns)
    <3>1. Len(wire') = Len(conns') /\ Len(conns') \in Nat
      BY NextType DEF TypeInv, TypeOK, ConnsOK, WireOK
    <3>2. wire'[i] = <<>>
      BY <1>1, <1>4, <2>2, <3>1 DEF Quiet
    <3>. QED  BY <3>2 DEF StreamOf
  <2>. QED  BY <2>1, <2>2
<1>5. CASE \E n \in 1 .. Front1.rest : SendSome(n)
  <2>1. PICK n \in 1 .. Front1.rest : SendSome(n)
    BY <1>5
  <2>2. UNCHANGED <<conns, msgs, spilled>> /\ Sending
    BY <2>1 DEF SendSome
  <2>3. Len(wire') = Len(wire) /\ \A j \in 1 .. Len(wire) : j # live[sending] => wire'[j] = wire[j]
    BY <2>1, SendSomeFacts
  <2>4. i \in 1 .. Len(conns)
    BY <1>1, <2>3
  <2>5. CASE i # live[sending]
    <3>1. wire'[i] = wire[i]
      BY <1>1, <2>3, <2>4, <2>5
    <3>. QED  BY <1>1, <2>2, <2>4, <3>1, KeepStream
  <2>6. CASE i = live[sending] /\ conns[i] \notin spilled
    <3>1. sending \in Fds /\ conns[i] = sending
      BY <2>2, <2>4, <2>6, SendingFacts DEF TypeInv, LoopInv, LiveInv
    <3>2. FdInv(sending)
      BY <2>6, <3>1 DEF OrderInv
    <3>3. /\ wire'[i][1].from = 0
          /\ \A p \in 1 .. Len(wire'[i]) - 1 : Follows(wire'[i][p], wire'[i][p + 1])
      BY <1>1, <2>1, <2>4, <2>6, <3>1, <3>2, WriteStream
    <3>. QED  BY <2>2, <3>3 DEF StreamOf, Follows
  <2>7. CASE conns[i] \in spilled
    BY <2>2, <2>7 DEF StreamOf
  <2>. QED  BY <2>5, <2>6, <2>7
<1>. QED  BY <1>2, <1>3, <1>4, <1>5, StepKinds

LEMMA InitStream == Init => StreamIntact
  BY DEF Init, StreamIntact

THEOREM OrderInvariant == Spec => [](TypeInv /\ MsgInv /\ OrderInv)
<1>1. Init => TypeInv /\ MsgInv /\ OrderInv
  BY InitTypeInv, InitMsgInv, InitOrder
<1>2. TypeInv /\ MsgInv /\ OrderInv /\ [Next]_vars => (TypeInv /\ MsgInv /\ OrderInv)'
  BY NextType, NextMsg, NextOrder
<1>. QED  BY <1>1, <1>2, PTL DEF Spec

\* The byte stream of every connection is a sequence of whole messages, in the
\* order in which they were accepted: partial writes, switches of the maps and
\* reused descriptors never break it, unless the lists overflowed.
THEOREM StreamIntactCorrect == Spec => []StreamIntact
<1>1. Init => TypeInv /\ MsgInv /\ OrderInv /\ StreamIntact
  BY InitTypeInv, InitMsgInv, InitOrder, InitStream
<1>2. TypeInv /\ MsgInv /\ OrderInv /\ StreamIntact /\ [Next]_vars
      => (TypeInv /\ MsgInv /\ OrderInv /\ StreamIntact)'
  BY NextType, NextMsg, NextOrder, NextStream
<1>3. TypeInv /\ MsgInv /\ OrderInv /\ StreamIntact => StreamIntact
  OBVIOUS
<1>. QED  BY <1>1, <1>2, <1>3, PTL DEF Spec

-----------------------------------------------------------------------------
(* No message of a living connection is lost: NoneLost.                    *)

Has(list, k) == \E p \in 1 .. Len(list) : list[p].id = k

\* What the two halves, the rest and a new head of a list hold.
LEMMA HasConcat ==
    ASSUME NEW S, NEW s \in Seq(S), NEW t \in Seq(S), NEW k, Has(s, k) \/ Has(t, k)
    PROVE  Has(s \o t, k)
<1>1. /\ Len(s \o t) = Len(s) + Len(t) /\ Len(s) \in Nat /\ Len(t) \in Nat
      /\ \A p \in 1 .. Len(s) + Len(t) :
            (s \o t)[p] = IF p <= Len(s) THEN s[p] ELSE t[p - Len(s)]
  BY ConcatProperties, LenProperties
<1>2. CASE Has(s, k)
  <2>1. PICK p \in 1 .. Len(s) : s[p].id = k
    BY <1>2 DEF Has
  <2>2. p \in 1 .. Len(s) + Len(t) /\ (s \o t)[p] = s[p]
    BY <1>1
  <2>. QED  BY <1>1, <2>1, <2>2 DEF Has
<1>3. CASE Has(t, k)
  <2>1. PICK p \in 1 .. Len(t) : t[p].id = k
    BY <1>3 DEF Has
  <2>2. Len(s) + p \in 1 .. Len(s \o t) /\ (s \o t)[Len(s) + p] = t[p]
    BY LineSuffix
  <2>. QED  BY <2>1, <2>2 DEF Has
<1>. QED  BY <1>2, <1>3

LEMMA HasTail ==
    ASSUME NEW S, NEW s \in Seq(S), s # <<>>, NEW k, Has(s, k), Head(s).id # k
    PROVE  Has(Tail(s), k)
<1>1. /\ Len(Tail(s)) = Len(s) - 1 /\ Len(s) \in Nat \ {0} /\ Head(s) = s[1]
      /\ \A p \in 1 .. Len(s) - 1 : Tail(s)[p] = s[p + 1]
  BY HeadTailProperties, LenProperties
<1>2. PICK p \in 1 .. Len(s) : s[p].id = k
  BY DEF Has
<1>3. p # 1
  BY <1>1, <1>2
<1>4. p - 1 \in 1 .. Len(s) - 1 /\ p - 1 + 1 = p
  BY <1>1, <1>3
<1>5. Tail(s)[p - 1] = s[p]
  BY <1>1, <1>4
<1>. QED  BY <1>1, <1>2, <1>4, <1>5 DEF Has

\* Queued and Written, for a message that was accepted.
LEMMA QueuedHas ==
    ASSUME NEW k
    PROVE  Queued(k) <=> Has(bak[msgs[k].fd], k) \/ Has(cur[msgs[k].fd], k)
  BY DEF Queued, Has

\* A written message stays written.
LEMMA WrittenStays ==
    ASSUME TypeInv, MsgInv, [Next]_vars, NEW k \in 1 .. Len(msgs), Written(k)
    PROVE  Written(k)'
<1>. DEFINE c == msgs[k].conn
<1>1. /\ Len(msgs) \in Nat /\ Len(conns) \in Nat /\ Len(wire) = Len(conns)
      /\ c # 0 /\ c \in 1 .. Len(conns)
  <2>1. Len(msgs) \in Nat /\ Len(conns) \in Nat /\ Len(wire) = Len(conns)
    BY DEF TypeInv, TypeOK, MsgsOK, ConnsOK, WireOK
  <2>2. c # 0
    BY DEF Written
  <2>3. c \in 0 .. Len(conns)
    BY DEF MsgInv
  <2>. QED  BY <2>1, <2>2, <2>3
<1>2. PICK p \in 1 .. Len(wire[c]) : wire[c][p].id = k /\ wire[c][p].to = msgs[k].len
  BY DEF Written
<1>. HIDE DEF c
<1>3. SUFFICES /\ Len(msgs') \in Nat /\ k <= Len(msgs') /\ msgs'[k] = msgs[k]
               /\ p \in 1 .. Len(wire'[c]) /\ wire'[c][p] = wire[c][p]
  BY <1>1, <1>2 DEF Written, c
<1>4. CASE Send
  <2>1. PICK f \in Fds, d \in 0 .. MaxConns, len \in 1 .. MaxLen : AddMsgToSendList(f, d, len)
    BY <1>4, SendArguments
  <2>2. /\ UNCHANGED wire /\ Len(msgs') = Len(msgs) + 1
        /\ \A j \in 1 .. Len(msgs) : msgs'[j] = msgs[j]
    BY <2>1, AddFacts
  <2>. QED  BY <1>1, <2>2
<1>5. CASE DropStale \/ SwitchSendMap
  BY <1>1, <1>5 DEF DropStale, SwitchSendMap, table
<1>6. CASE Quiet
  BY <1>1, <1>6 DEF Quiet
<1>7. CASE \E n \in 1 .. Front1.rest : SendSome(n)
  <2>1. PICK n \in 1 .. Front1.rest : SendSome(n)
    BY <1>7
  <2>2. msgs' = msgs
    BY <2>1 DEF SendSome
  <2>3. CASE c = live[sending]
    <3>1. PICK e \in Chunk : wire'[c] = Append(wire[c], e) /\ wire[c] \in Seq(Chunk)
      BY <2>1, <2>3, SendSomeFacts
    <3>2. Len(wire'[c]) = Len(wire[c]) + 1 /\ wire'[c][p] = wire[c][p] /\ Len(wire[c]) \in Nat
      BY <3>1, AppendType, LenProperties
    <3>. QED  BY <1>1, <2>2, <3>2
  <2>4. CASE c # live[sending]
    <3>1. wire'[c] = wire[c]
      BY <1>1, <2>1, <2>4, SendSomeFacts
    <3>. QED  BY <1>1, <2>2, <3>1
  <2>. QED  BY <2>3, <2>4
<1>. QED  BY <1>4, <1>5, <1>6, <1>7, StepKinds

\* What waits for the connection of a message still waits, or is written.
LEMMA QueuedStays ==
    ASSUME TypeInv, MsgInv, [Next]_vars, NEW k \in 1 .. Len(msgs), Queued(k),
           NEW f \in Fds, f = msgs[k].fd, msgs[k].conn # 0, live[f] = msgs[k].conn,
           live'[f] = live[f], f \notin spilled'
    PROVE  msgs'[k] = msgs[k] /\ (Has(bak'[f], k) \/ Has(cur'[f], k) \/ Written(k)')
<1>1. /\ Has(bak[f], k) \/ Has(cur[f], k)
      /\ bak[f] \in Seq(Entry) /\ cur[f] \in Seq(Entry)
  BY QueuedHas DEF TypeInv, TypeOK, MapsOK
<1>2. CASE Send
  <2>1. PICK g \in Fds, c \in 0 .. MaxConns, len \in 1 .. MaxLen : AddMsgToSendList(g, c, len)
    BY <1>2, SendArguments
  <2>2. /\ bak' = bak /\ msgs'[k] = msgs[k]
        /\ cur'[f] = cur[f] \/ \E e \in Entry : cur'[f] = Append(cur[f], e)
    <3>1. /\ bak' = bak /\ \A j \in 1 .. Len(msgs) : msgs'[j] = msgs[j]
          /\ \A h \in Fds : h # g => cur'[h] = cur[h]
      BY <2>1, AddFacts
    <3>2. \E e \in Entry : cur'[g] = Append(cur[g], e)
      <4>. DEFINE e == [id |-> Len(msgs) + 1, conn |-> c, len |-> len, rest |-> len]
      <4>1. e \in Entry
        BY <2>1, AddFacts
      <4>2. cur'[g] = Append(cur[g], e)
        BY <2>1 DEF AddMsgToSendList, TypeInv, TypeOK, MapsOK
      <4>. HIDE DEF e
      <4>. QED  BY <4>1, <4>2
    <3>. QED  BY <3>1, <3>2
  <2>3. ASSUME NEW e \in Entry, Has(cur[f], k) PROVE Has(Append(cur[f], e), k)
    <3>1. /\ Len(Append(cur[f], e)) = Len(cur[f]) + 1 /\ Len(cur[f]) \in Nat
          /\ \A p \in 1 .. Len(cur[f]) : Append(cur[f], e)[p] = cur[f][p]
      BY <1>1, AppendType, LenProperties
    <3>. QED  BY <2>3, <3>1 DEF Has
  <2>. QED  BY <1>1, <2>2, <2>3
<1>3. CASE Quiet
  BY <1>1, <1>3 DEF Quiet
<1>4. CASE SwitchSendMap
  <2>1. bak'[f] = bak[f] \o cur[f] /\ msgs' = msgs
    BY <1>4 DEF SwitchSendMap, Merge
  <2>. QED  BY <1>1, <2>1, HasConcat
<1>5. CASE DropStale
  <2>1. /\ Sending /\ Front1.conn # live[sending] /\ cur' = cur /\ msgs' = msgs
        /\ bak'[f] = IF f = sending THEN Tail(bak[f]) ELSE bak[f]
    BY <1>5 DEF DropStale, IsCurrent, TypeInv, TypeOK, MapsOK
  <2>2. CASE f = sending /\ Has(bak[f], k)
    <3>1. bak[f] # <<>> /\ Front1 = Head(bak[f])
      BY <2>1, <2>2 DEF Sending, Front1
    <3>2. Front1 \in Accepted(f)
      BY <3>1, TailType DEF MsgInv
    <3>3. Front1.id # k
      BY <2>1, <2>2, <3>2 DEF Accepted
    <3>. QED  BY <1>1, <2>1, <2>2, <3>1, <3>3, HasTail
  <2>. QED  BY <1>1, <2>1, <2>2
<1>6. CASE \E n \in 1 .. Front1.rest : SendSome(n)
  <2>1. PICK n \in 1 .. Front1.rest : SendSome(n)
    BY <1>6
  <2>. DEFINE h == Front1
              c == [id |-> h.id, from |-> h.len - h.rest, to |-> h.len - h.rest + n]
              i == live[sending]
  <2>2. /\ sending \in Fds /\ bak[sending] # <<>> /\ i \in 1 .. Len(conns)
        /\ h \in Entry /\ h.conn = i /\ c \in Chunk /\ wire[i] \in Seq(Chunk)
        /\ wire'[i] = Append(wire[i], c)
        /\ f # sending => bak'[f] = bak[f]
        /\ n = h.rest => bak'[sending] = Tail(bak[sending])
        /\ n < h.rest => bak'[sending] = <<Remainder(h, n)>> \o Tail(bak[sending])
    BY <2>1, SendSomeFacts
  <2>3. cur' = cur /\ msgs' = msgs /\ Len(msgs) \in Nat
    BY <2>1 DEF SendSome, TypeInv, TypeOK, MsgsOK
  <2>4. h = Head(bak[sending])
    BY DEF Front1
  <2>5. h.rest \in Nat /\ n \in Nat /\ n <= h.rest /\ h.len \in Nat
    <3>1. h.rest \in 1 .. h.len /\ h.len \in 1 .. MaxLen
      BY <2>2, EntryFields
    <3>. HIDE DEF h
    <3>. QED  BY <3>1 DEF h
  <2>6. c.id = h.id /\ c.to = h.len - h.rest + n
    OBVIOUS
  <2>. HIDE DEF h, c, i
  <2>7. Tail(bak[sending]) \in Seq(Entry)
    BY <2>2, TailType DEF TypeInv, TypeOK, MapsOK
  <2>8. CASE f = sending /\ Has(bak[f], k) /\ h.id # k
    <3>1. Has(Tail(bak[f]), k)
      BY <1>1, <2>2, <2>4, <2>8, HasTail
    <3>2. CASE n = h.rest
      BY <2>2, <2>3, <2>8, <3>1, <3>2
    <3>3. CASE n < h.rest
      <4>1. Remainder(h, n) \in Entry
        BY <2>2, <2>5, <3>3, RemainderType
      <4>2. <<Remainder(h, n)>> \in Seq(Entry)
        BY <4>1
      <4>3. Has(<<Remainder(h, n)>> \o Tail(bak[sending]), k)
        BY <2>7, <2>8, <3>1, <4>2, HasConcat
      <4>. QED  BY <2>2, <2>3, <2>8, <3>3, <4>3
    <3>. QED  BY <2>5, <3>2, <3>3
  <2>9. CASE f = sending /\ Has(bak[f], k) /\ h.id = k
    <3>1. CASE n = h.rest
      <4>1. h \in Accepted(f)
        BY <2>2, <2>4, <2>9, TailType DEF MsgInv
      <4>2. h.len = msgs[k].len
        BY <2>9, <4>1 DEF Accepted
      <4>3. c.to = msgs[k].len
        BY <2>5, <2>6, <3>1, <4>2
      <4>4. /\ Len(wire'[i]) = Len(wire[i]) + 1 /\ wire'[i][Len(wire[i]) + 1] = c
            /\ Len(wire[i]) \in Nat
        BY <2>2, AppendType, LenProperties
      <4>5. i = msgs[k].conn
        BY <2>9 DEF i
      <4>6. Len(wire[i]) + 1 \in 1 .. Len(wire'[i])
        BY <4>4
      <4>7. msgs'[k].conn = i /\ msgs'[k].len = msgs[k].len /\ i # 0 /\ k <= Len(msgs')
        BY <2>2, <2>3, <4>5
      <4>8. wire'[i][Len(wire[i]) + 1].id = k /\ wire'[i][Len(wire[i]) + 1].to = msgs'[k].len
        BY <2>6, <2>9, <4>3, <4>4, <4>7
      <4>9. Written(k)'
        BY <4>6, <4>7, <4>8 DEF Written
      <4>. QED  BY <2>3, <4>9
    <3>2. CASE n < h.rest
      <4>1. Remainder(h, n) \in Entry /\ Remainder(h, n).id = h.id
        BY <2>2, <2>5, <3>2, RemainderType
      <4>2. <<Remainder(h, n)>> \in Seq(Entry) /\ Has(<<Remainder(h, n)>>, k)
        BY <2>9, <4>1 DEF Has
      <4>. QED  BY <2>2, <2>3, <2>7, <2>9, <3>2, <4>2, HasConcat
    <3>. QED  BY <2>5, <3>1, <3>2
  <2>. QED  BY <1>1, <2>2, <2>3, <2>8, <2>9
<1>. QED  BY <1>2, <1>3, <1>4, <1>5, <1>6, StepKinds

LEMMA NextNoneLost == TypeInv /\ MsgInv /\ NoneLost /\ [Next]_vars => NoneLost'
<1>. SUFFICES ASSUME TypeInv, MsgInv, NoneLost, [Next]_vars,
                     NEW k \in 1 .. Len(msgs'), OnOpenLink(k)'
              PROVE  Queued(k)' \/ Written(k)'
  BY DEF NoneLost
<1>. DEFINE f == msgs'[k].fd
<1>1. /\ msgs'[k].conn # 0 /\ live'[f] = msgs'[k].conn /\ f \notin spilled'
  BY DEF OnOpenLink
<1>2. f \in Fds
  <2>. DEFINE R == [fd : Fds, conn : 0 .. MaxConns, len : 1 .. MaxLen]
  <2>1. msgs' \in Seq(R)
    BY NextType DEF TypeInv, TypeOK, MsgsOK
  <2>. HIDE DEF R
  <2>2. msgs'[k] \in R
    BY <2>1
  <2>. QED  BY <2>2 DEF R
<1>3. /\ Len(msgs) \in Nat /\ Len(conns) \in Nat /\ live[f] \in 0 .. Len(conns)
      /\ spilled \subseteq spilled'
  BY <1>2, SpilledGrows DEF TypeInv, TypeOK, MsgsOK, ConnsOK
<1>4. CASE k \in 1 .. Len(msgs)
  <2>1. msgs'[k] = msgs[k] /\ (live'[f] = live[f] \/ live'[f] \notin 1 .. Len(conns))
    <3>1. CASE Send
      BY <1>4, <3>1, SendArguments, AddFacts
    <3>2. CASE DropStale \/ SwitchSendMap \/ \E n \in 1 .. Front1.rest : SendSome(n)
      BY <3>2 DEF DropStale, SwitchSendMap, SendSome, table
    <3>3. CASE Quiet
      BY <1>2, <1>3, <3>3 DEF Quiet
    <3>. QED  BY <3>1, <3>2, <3>3, StepKinds
  <2>2. msgs[k].conn \in 1 .. Len(conns)
    <3>1. msgs[k].conn \in 0 .. Len(conns)
      BY <1>4 DEF MsgInv
    <3>. QED  BY <1>1, <1>3, <2>1, <3>1
  <2>3. live'[f] = live[f] /\ live[f] = msgs[k].conn /\ f = msgs[k].fd
    BY <1>1, <2>1, <2>2
  <2>4. OnOpenLink(k)
    <3>1. k <= Len(msgs) /\ f \notin spilled
      BY <1>1, <1>3, <1>4
    <3>. QED  BY <1>1, <2>1, <2>3, <3>1 DEF OnOpenLink
  <2>5. Queued(k) \/ Written(k)
    BY <1>4, <2>4 DEF NoneLost
  <2>6. CASE Written(k)
    BY <1>4, <2>6, WrittenStays
  <2>7. CASE Queued(k)
    <3>1. Has(bak'[f], k) \/ Has(cur'[f], k) \/ Written(k)'
      <4>. HIDE DEF f
      <4>. QED  BY <1>1, <1>2, <1>4, <2>1, <2>3, <2>7, QueuedStays
    <3>. QED  BY <3>1 DEF Queued, Has
  <2>. QED  BY <2>5, <2>6, <2>7
<1>5. CASE k \notin 1 .. Len(msgs)
  <2>1. CASE Send
    <3>1. PICK g \in Fds, c \in 0 .. MaxConns, len \in 1 .. MaxLen : AddMsgToSendList(g, c, len)
      BY <2>1, SendArguments
    <3>. DEFINE e == [id |-> Len(msgs) + 1, conn |-> c, len |-> len, rest |-> len]
    <3>2. /\ e \in Entry /\ cur'[g] = Append(cur[g], e) /\ Len(msgs') = Len(msgs) + 1
          /\ msgs'[Len(msgs) + 1] = [fd |-> g, conn |-> c, len |-> len]
      BY <3>1, AddFacts
    <3>3. k = Len(msgs) + 1
      BY <1>3, <1>5, <3>2
    <3>4. f = g /\ e.id = k
      BY <3>2, <3>3
    <3>5. cur[g] \in Seq(Entry)
      BY DEF TypeInv, TypeOK, MapsOK
    <3>. HIDE DEF e, f
    <3>6. /\ Len(cur'[g]) = Len(cur[g]) + 1 /\ Len(cur[g]) \in Nat
          /\ cur'[g][Len(cur[g]) + 1] = e
      BY <3>2, <3>5, AppendType, LenProperties
    <3>7. Len(cur[g]) + 1 \in 1 .. Len(cur'[g]) /\ cur'[f][Len(cur[g]) + 1].id = k
      BY <3>4, <3>6
    <3>. QED  BY <3>4, <3>7 DEF Queued, f
  <2>2. CASE DropStale \/ SwitchSendMap \/ Quiet \/ \E n \in 1 .. Front1.rest : SendSome(n)
    BY <1>5, <2>2 DEF DropStale, SwitchSendMap, Quiet, SendSome
  <2>. QED  BY <2>1, <2>2, StepKinds
<1>. QED  BY <1>4, <1>5

LEMMA InitNoneLost == Init => NoneLost
  BY DEF Init, NoneLost

\* Whatever happens between addMsgToSendList and the socket, an accepted
\* message of a living connection is in one of the maps or written in full.
THEOREM NoneLostCorrect == Spec => []NoneLost
<1>1. Init => TypeInv /\ MsgInv /\ NoneLost
  BY InitTypeInv, InitMsgInv, InitNoneLost
<1>2. TypeInv /\ MsgInv /\ NoneLost /\ [Next]_vars => (TypeInv /\ MsgInv /\ NoneLost)'
  BY NextType, NextMsg, NextNoneLost
<1>3. TypeInv /\ MsgInv /\ NoneLost => NoneLost
  OBVIOUS
<1>. QED  BY <1>1, <1>2, <1>3, PTL DEF Spec

-----------------------------------------------------------------------------
(* MessageStream: what is written is what comes next.                      *)

\* No message a connection was sent is newer than the last one.
LastNewest ==
    \A i \in 1 .. Len(wire) : conns[i] \notin spilled =>
        \A p \in 1 .. Len(wire[i]) : wire[i][p].id <= LastOf(i).id

StreamInv == TypeInv /\ MsgInv /\ OrderInv /\ StreamIntact /\ NoneLost /\ LastNewest

\* The chunk send_msg adds to the stream of the connection it writes to.
Written1(n) == [id |-> Front1.id, from |-> Front1.len - Front1.rest,
                to |-> Front1.len - Front1.rest + n]

\* The chunk follows the last one, or it is the first.
LEMMA ChunkFollows ==
    ASSUME TypeInv, MsgInv, OrderInv, StreamIntact, sending \notin spilled,
           NEW n \in 1 .. Front1.rest, SendSome(n),
           NEW i \in 1 .. Len(conns), i = live[sending]
    PROVE  IF wire[i] = <<>> THEN Written1(n).from = 0
           ELSE Follows(LastOf(i), Written1(n))
<1>. DEFINE c == Written1(n)
            m == Len(wire[i])
<1>1. /\ sending \in Fds /\ c \in Chunk /\ wire[i] \in Seq(Chunk)
      /\ wire'[i] = Append(wire[i], c)
  BY SendSomeFacts DEF Written1
<1>2. StreamOf(i)
  BY DEF StreamIntact, StreamOf, TypeInv, TypeOK, WireOK
<1>3. FdInv(sending)
  BY <1>1 DEF OrderInv
<1>4. /\ wire'[i][1].from = 0
      /\ \A p \in 1 .. Len(wire'[i]) - 1 : Follows(wire'[i][p], wire'[i][p + 1])
  BY <1>2, <1>3, WriteStream
<1>. HIDE DEF c
<1>5. /\ Len(wire'[i]) = m + 1 /\ wire'[i][m + 1] = c /\ m \in Nat
      /\ \A p \in 1 .. m : wire'[i][p] = wire[i][p]
  BY <1>1, AppendType, LenProperties
<1>6. CASE wire[i] = <<>>
  <2>1. m = 0
    BY <1>6
  <2>. QED  BY <1>4, <1>5, <1>6, <2>1 DEF c
<1>7. CASE wire[i] # <<>>
  <2>1. m \in 1 .. Len(wire'[i]) - 1 /\ m \in 1 .. m
    BY <1>1, <1>5, <1>7
  <2>. QED  BY <1>4, <1>5, <1>7, <2>1 DEF c, LastOf
<1>. QED  BY <1>6, <1>7

\* A message that waits for the descriptor is not older than the first one.
LEMMA FrontOldest ==
    ASSUME TypeInv, MsgInv, OrderInv, Sending, sending \notin spilled,
           NEW k \in 1 .. Len(msgs), msgs[k].fd = sending, Queued(k)
    PROVE  Front1.id <= k
<1>. DEFINE L == Line(sending)
<1>1. sending \in Fds /\ bak[sending] \in Seq(Entry) /\ cur[sending] \in Seq(Entry)
  BY SendingFacts DEF TypeInv, TypeOK, MapsOK
<1>2. /\ L \in Seq(Entry) /\ Len(L) \in Nat \ {0} /\ L[1] = Front1
  BY SendingLine
<1>3. Has(bak[sending], k) \/ Has(cur[sending], k)
  BY QueuedHas
<1>4. Has(L, k)
  BY <1>1, <1>3, HasConcat DEF Line
<1>5. InOrder(L)
  BY <1>1 DEF OrderInv, FdInv
<1>. HIDE DEF L
<1>6. PICK p \in 1 .. Len(L) : L[p].id = k
  BY <1>4 DEF Has
<1>7. 1 \in 1 .. Len(L) /\ L[1].id \in Nat
  <2>1. 1 \in 1 .. Len(L)
    BY <1>2
  <2>2. L[1] \in Entry
    BY <1>2, <2>1
  <2>. QED  BY <2>1, <2>2, EntryFields
<1>8. CASE p = 1
  BY <1>2, <1>6, <1>7, <1>8
<1>9. CASE p # 1
  <2>1. L[1].id < L[p].id
    BY <1>5, <1>6, <1>7, <1>9 DEF InOrder
  <2>. QED  BY <1>2, <1>6, <1>7, <2>1
<1>. QED  BY <1>8, <1>9

\* Every older message for the connection was begun before.
LEMMA NothingSkipped ==
    ASSUME StreamInv, sending \notin spilled,
           NEW n \in 1 .. Front1.rest, SendSome(n),
           NEW i \in 1 .. Len(conns), i = live[sending],
           NEW k \in 1 .. Len(msgs), msgs[k].conn = i, k < Front1.id
    PROVE  wire[i] # <<>> /\ k <= LastOf(i).id
<1>1. Sending /\ sending \in Fds /\ conns[i] = sending /\ Front1.id \in Nat
  <2>1. Sending /\ sending \in Fds /\ Front1 \in Entry
    BY SendSomeFacts DEF SendSome, StreamInv
  <2>. QED  BY <2>1, EntryFields DEF StreamInv, TypeInv, LoopInv, LiveInv
<1>2. msgs[k].fd = sending
  BY <1>1, SMTT(30) DEF StreamInv, MsgInv
<1>3. OnOpenLink(k)
  BY <1>2 DEF OnOpenLink
<1>4. ~Queued(k)
  BY <1>1, <1>2, FrontOldest DEF StreamInv
<1>5. Written(k)
  BY <1>3, <1>4 DEF StreamInv, NoneLost
<1>6. PICK p \in 1 .. Len(wire[i]) : wire[i][p].id = k
  BY <1>5 DEF Written
<1>7. i \in 1 .. Len(wire) /\ wire[i] \in Seq(Chunk)
  BY DEF StreamInv, TypeInv, TypeOK, WireOK
<1>8. wire[i] # <<>>
  BY <1>6, <1>7
<1>. QED  BY <1>1, <1>6, <1>7, <1>8 DEF StreamInv, LastNewest

-----------------------------------------------------------------------------
(* No message is sent after a newer one: LastNewest.                       *)

LEMMA WriteNewest ==
    ASSUME TypeInv, MsgInv, OrderInv, StreamIntact, LastNewest,
           sending \notin spilled, NEW n \in 1 .. Front1.rest, SendSome(n),
           NEW i \in 1 .. Len(conns), i = live[sending]
    PROVE  \A p \in 1 .. Len(wire'[i]) : wire'[i][p].id <= LastOf(i)'.id
<1>. DEFINE c == Written1(n)
            m == Len(wire[i])
<1>1. /\ Sending /\ sending \in Fds /\ c \in Chunk /\ wire[i] \in Seq(Chunk)
      /\ wire'[i] = Append(wire[i], c)
  BY SendSomeFacts DEF Written1, SendSome
<1>2. conns[i] = sending /\ i \in 1 .. Len(wire)
  BY <1>1 DEF TypeInv, TypeOK, WireOK, LoopInv, LiveInv
<1>3. wire[i] # <<>> => Follows(LastOf(i), c)
  BY ChunkFollows
<1>4. \A p \in 1 .. m : wire[i][p].id <= LastOf(i).id
  BY <1>2 DEF LastNewest
<1>. HIDE DEF c
<1>5. /\ Len(wire'[i]) = m + 1 /\ wire'[i][m + 1] = c /\ m \in Nat
      /\ \A p \in 1 .. m : wire'[i][p] = wire[i][p]
  BY <1>1, AppendType, LenProperties
<1>6. LastOf(i)' = c /\ c.id \in Nat
  BY <1>1, <1>5 DEF LastOf, Chunk
<1>7. ASSUME NEW p \in 1 .. m PROVE wire'[i][p].id <= c.id
  <2>1. wire[i] # <<>> /\ wire[i][p] \in Chunk /\ LastOf(i) \in Chunk
    BY <1>1, <1>5 DEF LastOf
  <2>2. LastOf(i).id <= c.id
    BY <1>3, <1>6, <2>1 DEF Follows, Chunk
  <2>3. wire[i][p].id \in Nat /\ LastOf(i).id \in Nat
    <3>1. \A k \in Chunk : k.id \in Nat
      BY DEF Chunk
    <3>. QED  BY <2>1, <3>1
  <2>4. wire[i][p].id <= LastOf(i).id
    BY <1>4
  <2>5. wire'[i][p] = wire[i][p]
    BY <1>5
  <2>6. \A x, y, z \in Nat : x <= y /\ y <= z => x <= z
    OBVIOUS
  <2>. QED  BY <1>6, <2>2, <2>3, <2>4, <2>5, <2>6
<1>8. \A p \in 1 .. m + 1 : p \in 1 .. m \/ p = m + 1
  BY <1>5
<1>. QED  BY <1>5, <1>6, <1>7, <1>8

LEMMA NextNewest ==
    TypeInv /\ MsgInv /\ OrderInv /\ StreamIntact /\ LastNewest /\ [Next]_vars => LastNewest'
<1>. SUFFICES ASSUME TypeInv, MsgInv, OrderInv, StreamIntact, LastNewest, [Next]_vars,
                     NEW i \in 1 .. Len(wire'), conns'[i] \notin spilled'
              PROVE  \A p \in 1 .. Len(wire'[i]) : wire'[i][p].id <= LastOf(i)'.id
  BY DEF LastNewest
<1>1. Len(conns) \in Nat /\ Len(wire) = Len(conns) /\ spilled \subseteq spilled'
  BY SpilledGrows DEF TypeInv, TypeOK, ConnsOK, WireOK
<1>2. ASSUME i \in 1 .. Len(conns), wire'[i] = wire[i], conns'[i] = conns[i]
      PROVE  \A p \in 1 .. Len(wire'[i]) : wire'[i][p].id <= LastOf(i)'.id
  BY <1>1, <1>2 DEF LastNewest, LastOf
<1>3. CASE Send
  <2>1. UNCHANGED <<conns, wire>>
    BY <1>3, SendArguments, AddFacts
  <2>. QED  BY <1>1, <1>2, <2>1
<1>4. CASE DropStale \/ SwitchSendMap
  <2>1. UNCHANGED <<conns, wire>>
    BY <1>4 DEF DropStale, SwitchSendMap, table
  <2>. QED  BY <1>1, <1>2, <2>1
<1>5. CASE Quiet
  <2>1. CASE i \in 1 .. Len(conns)
    BY <1>2, <1>5, <2>1 DEF Quiet
  <2>2. CASE i \notin 1 .. Len(conns)
    <3>1. Len(wire') = Len(conns') /\ Len(conns') \in Nat
      BY NextType DEF TypeInv, TypeOK, ConnsOK, WireOK
    <3>2. wire'[i] = <<>>
      BY <1>1, <1>5, <2>2, <3>1 DEF Quiet
    <3>. QED  BY <3>2
  <2>. QED  BY <2>1, <2>2
<1>6. CASE \E n \in 1 .. Front1.rest : SendSome(n)
  <2>1. PICK n \in 1 .. Front1.rest : SendSome(n)
    BY <1>6
  <2>2. UNCHANGED <<conns, spilled>> /\ Sending
    BY <2>1 DEF SendSome
  <2>3. /\ live[sending] \in 1 .. Len(conns) /\ sending \in Fds /\ Len(wire') = Len(wire)
        /\ \A j \in 1 .. Len(wire) : j # live[sending] => wire'[j] = wire[j]
    BY <2>1, SendSomeFacts
  <2>4. i \in 1 .. Len(conns)
    BY <1>1, <2>3
  <2>5. CASE i # live[sending]
    BY <1>1, <1>2, <2>2, <2>3, <2>4, <2>5
  <2>6. CASE i = live[sending]
    <3>1. conns[i] = sending
      BY <2>3, <2>4, <2>6 DEF TypeInv, LoopInv, LiveInv
    <3>. QED  BY <2>1, <2>2, <2>4, <2>6, <3>1, WriteNewest
  <2>. QED  BY <2>5, <2>6
<1>. QED  BY <1>3, <1>4, <1>5, <1>6, StepKinds

LEMMA StreamInvariant == Spec => []StreamInv
<1>1. Init => StreamInv
  <2>1. Init => LastNewest
    BY DEF Init, LastNewest
  <2>. QED  BY <2>1, InitTypeInv, InitMsgInv, InitOrder, InitStream, InitNoneLost DEF StreamInv
<1>2. StreamInv /\ [Next]_vars => StreamInv'
  BY NextType, NextMsg, NextOrder, NextStream, NextNoneLost, NextNewest DEF StreamInv
<1>. QED  BY <1>1, <1>2, PTL DEF Spec

-----------------------------------------------------------------------------
(* Every step is a step of the stream.                                     *)

LEMMA SendAccepts ==
    ASSUME TypeInv, Send
    PROVE  Stream!Accept
<1>1. PICK f \in Fds, c \in 0 .. MaxConns, len \in 1 .. MaxLen : AddMsgToSendList(f, c, len)
  BY SendArguments
<1>2. /\ msgs' = Append(msgs, [fd |-> f, conn |-> c, len |-> len])
      /\ UNCHANGED <<conns, live, wire, spilled>>
  BY <1>1 DEF AddMsgToSendList, table
<1>3. Up' = Up /\ Loose' = Loose
  BY <1>2 DEF Up, Live, Loose
<1>. QED  BY <1>2, <1>3 DEF Stream!Accept

\* A step that at most closes connections.
LEMMA CloseStep ==
    ASSUME TypeInv, UNCHANGED <<conns, msgs, wire, spilled>>,
           \A f \in Fds : live'[f] \in {0, live[f]}
    PROVE  Stream!Close
<1>1. Up' \subseteq Up
  BY DEF Up, Live
<1>2. Loose' = Loose
  BY DEF Loose
<1>. QED  BY <1>1, <1>2 DEF Stream!Close

LEMMA OpenStep ==
    ASSUME TypeInv, NEW f \in Fds, NEW added \in BOOLEAN, OpenConn(f, added),
           live[f] = 0, UNCHANGED <<msgs, spilled>>
    PROVE  Stream!Open
<1>1. /\ Len(conns) \in Nat /\ Len(wire) = Len(conns) /\ live \in [Fds -> 0 .. Len(conns)]
      /\ conns \in Seq(Fds) /\ wire' = Append(wire, <<>>)
  BY DEF TypeInv, TypeOK, ConnsOK, WireOK, OpenConn
<1>2. /\ Len(conns') = Len(conns) + 1 /\ conns'[Len(conns) + 1] = f
      /\ \A j \in 1 .. Len(conns) : conns'[j] = conns[j]
  BY <1>1, AppendType DEF OpenConn
<1>3. Up' \in {Up, Up \cup {Len(wire) + 1}}
  <2>1. CASE added
    <3>1. live'[f] = Len(conns) + 1 /\ \A g \in Fds : g # f => live'[g] = live[g]
      BY <1>1, <2>1 DEF OpenConn
    <3>2. Up' = Up \cup {Len(wire) + 1}
      BY <1>1, <3>1, SMTT(20) DEF Up, Live
    <3>. QED  BY <3>2
  <2>2. CASE ~added
    <3>1. \A g \in Fds : live'[g] = live[g]
      BY <1>1, <2>2 DEF OpenConn
    <3>2. Up' = Up
      BY <3>1 DEF Up, Live
    <3>. QED  BY <3>2
  <2>. QED  BY <2>1, <2>2
<1>4. Loose' \in {Loose, Loose \cup {Len(wire) + 1}}
  <2>1. \A j \in 1 .. Len(conns') : j \in 1 .. Len(conns) \/ j = Len(conns) + 1
    BY <1>1, <1>2
  <2>2. Loose' = IF f \in spilled THEN Loose \cup {Len(wire) + 1} ELSE Loose
    BY <1>1, <1>2, <2>1 DEF Loose
  <2>. QED  BY <2>2
<1>. QED  BY <1>1, <1>3, <1>4 DEF Stream!Open

LEMMA SwitchLetsGo ==
    ASSUME TypeInv, SwitchSendMap
    PROVE  Stream!LetGo
<1>1. UNCHANGED <<conns, live, wire, msgs>> /\ spilled \subseteq spilled'
  BY DEF SwitchSendMap, table
<1>2. Up' = Up
  BY <1>1 DEF Up, Live
<1>3. Loose \subseteq Loose' /\ Loose' \subseteq 1 .. Len(wire)
  BY <1>1 DEF Loose, TypeInv, TypeOK, WireOK
<1>. QED  BY <1>1, <1>2, <1>3 DEF Stream!LetGo

LEMMA SendSomeWrites ==
    ASSUME StreamInv, NEW n \in 1 .. Front1.rest, SendSome(n)
    PROVE  Stream!Write
<1>. DEFINE i == live[sending]
            c == Written1(n)
<1>1. /\ Sending /\ sending \in Fds /\ bak[sending] # <<>> /\ i \in 1 .. Len(conns)
      /\ Front1 \in Entry /\ Front1.conn = i /\ c \in Chunk
  BY SendSomeFacts DEF SendSome, Written1, StreamInv
<1>2. Front1 \in Accepted(sending)
  <2>1. bak[sending] \in Seq(Accepted(sending))
    BY <1>1 DEF StreamInv, MsgInv
  <2>. QED  BY <1>1, <2>1, TailType DEF Front1
<1>3. /\ c.id \in 1 .. Len(msgs) /\ msgs[c.id].conn = i /\ msgs[c.id].len = Front1.len
      /\ c.id = Front1.id /\ c.from = Front1.len - Front1.rest /\ c.to = c.from + n
  <2>. HIDE DEF Front1
  <2>. QED  BY <1>1, <1>2 DEF Accepted, Written1
<1>4. Front1.len \in Nat /\ Front1.rest \in Nat /\ n \in Nat /\ 1 <= n /\ n <= Front1.rest
  <2>1. Front1.len \in 1 .. MaxLen /\ Front1.rest \in 1 .. Front1.len
    BY <1>1, EntryFields
  <2>. HIDE DEF Front1
  <2>. QED  BY <2>1
<1>5. c.from < c.to /\ c.to <= msgs[c.id].len
  <2>. HIDE DEF Front1, c
  <2>. QED  BY <1>3, <1>4
<1>6. wire' = [wire EXCEPT ![i] = Append(@, c)] /\ UNCHANGED <<msgs, conns, live, spilled>>
  BY DEF SendSome, Write, Written1
<1>7. Up' = Up /\ Loose' = Loose /\ i \in Up
  BY <1>1, <1>6 DEF Up, Loose, Live
<1>8. DOMAIN msgs = 1 .. Len(msgs)
  BY DEF StreamInv, TypeInv, TypeOK, MsgsOK
<1>9. i \in Loose \/ Stream!IsNext(i, c)
  <2>. SUFFICES ASSUME i \notin Loose PROVE Stream!IsNext(i, c)
    OBVIOUS
  <2>1. conns[i] = sending /\ sending \notin spilled
    BY <1>1 DEF Loose, StreamInv, TypeInv, LoopInv, LiveInv
  <2>2. IF wire[i] = <<>> THEN c.from = 0 ELSE Follows(LastOf(i), c)
    BY <1>1, <2>1, ChunkFollows DEF StreamInv
  <2>3. \A k \in 1 .. c.id - 1 : msgs[k].conn = i => wire[i] # <<>> /\ k <= LastOf(i).id
    <3>. SUFFICES ASSUME NEW k \in 1 .. c.id - 1, msgs[k].conn = i
                  PROVE  wire[i] # <<>> /\ k <= LastOf(i).id
      OBVIOUS
    <3>1. k \in 1 .. Len(msgs) /\ k < Front1.id
      <4>. HIDE DEF Front1, c
      <4>1. Len(msgs) \in Nat
        BY DEF StreamInv, TypeInv, TypeOK, MsgsOK
      <4>. QED  BY <1>3, <4>1
    <3>. QED  BY <1>1, <2>1, <3>1, NothingSkipped
  <2>. HIDE DEF c, i
  <2>. QED  BY <2>2, <2>3 DEF Stream!IsNext, Stream!NoneBetween, Stream!Last, Follows, LastOf
<1>. HIDE DEF c, i
<1>. QED  BY <1>1, <1>3, <1>5, <1>6, <1>7, <1>8, <1>9 DEF Stream!Write

LEMMA LoopStep ==
    ASSUME StreamInv, Loop
    PROVE  Stream!Next \/ UNCHANGED <<msgs, wire, Up, Loose>>
<1>0. TypeInv /\ live \in [Fds -> 0 .. Len(conns)]
  BY DEF StreamInv, TypeInv, TypeOK, ConnsOK
<1>1. CASE EpollWait \/ EndSend \/ EndBatch \/ EndEvents \/ ArmCrash \/ \E f \in Fds : BeginSend(f)
  <2>1. UNCHANGED <<conns, live, msgs, wire, spilled>>
    BY <1>1 DEF EpollWait, EndSend, EndBatch, EndEvents, ArmCrash, BeginSend, table, maps
  <2>. QED  BY <1>0, <2>1, CloseStep DEF Stream!Next
<1>2. CASE SendFails \/ KeepaliveTimeout \/ ArmOutput \/ \E f \in Fds : PeerClosed(f)
  <2>1. UNCHANGED <<conns, msgs, wire, spilled>>
    BY <1>2 DEF SendFails, KeepaliveTimeout, ArmOutput, PeerClosed, maps
  <2>2. \A f \in Fds : live'[f] \in {0, live[f]}
    BY <1>2 DEF SendFails, KeepaliveTimeout, ArmOutput, PeerClosed, CloseClients
  <2>. QED  BY <1>0, <2>1, <2>2, CloseStep DEF Stream!Next
<1>3. CASE DropStale
  <2>1. UNCHANGED <<conns, live, msgs, wire, spilled>>
    BY <1>3 DEF DropStale, table
  <2>. QED  BY <1>0, <2>1, CloseStep DEF Stream!Next
<1>4. CASE SendWhole \/ SendPart
  <2>1. CASE \E n \in 1 .. Front1.rest : SendSome(n)
    BY <2>1, SendSomeWrites DEF Stream!Next
  <2>2. CASE UNCHANGED <<conns, live, msgs, wire, spilled>>
    BY <1>0, <2>2, CloseStep DEF Stream!Next
  <2>. QED  BY <1>0, <1>4, <2>1, <2>2, SendSomeSteps
<1>5. CASE SwitchSendMap
  BY <1>0, <1>5, SwitchLetsGo DEF Stream!Next
<1>. QED  BY <1>1, <1>2, <1>3, <1>4, <1>5 DEF Loop

LEMMA NextMapped ==
    ASSUME StreamInv, [Next]_vars
    PROVE  Stream!Next \/ UNCHANGED <<msgs, wire, Up, Loose>>
<1>0. TypeInv
  BY DEF StreamInv
<1>1. CASE Send
  BY <1>0, <1>1, SendAccepts DEF Stream!Next
<1>2. CASE \E f \in Fds : ConnectServer(f) \/ Drain(f) \/ CloseClient(f)
  <2>1. UNCHANGED <<conns, msgs, wire, spilled>>
    BY <1>2 DEF ConnectServer, Drain, CloseClient, table, maps
  <2>2. \A f \in Fds : live'[f] \in {0, live[f]}
    BY <1>2 DEF ConnectServer, Drain, CloseClient, CloseClients, table
  <2>. QED  BY <1>0, <2>1, <2>2, CloseStep DEF Stream!Next
<1>3. CASE \E f \in Fds, added \in BOOLEAN : DoAccept(f, added) \/ AddClient(f, added)
  <2>1. PICK f \in Fds, added \in BOOLEAN : DoAccept(f, added) \/ AddClient(f, added)
    BY <1>3
  <2>2. OpenConn(f, added) /\ UNCHANGED <<msgs, spilled>>
    BY <2>1 DEF DoAccept, AddClient
  <2>3. live[f] = 0
    BY <1>0, <2>1 DEF DoAccept, AddClient, TypeInv, LoopInv, LiveInv
  <2>. QED  BY <1>0, <2>2, <2>3, OpenStep DEF Stream!Next
<1>4. CASE Loop
  BY <1>4, LoopStep
<1>5. CASE Dead \/ UNCHANGED vars
  <2>1. UNCHANGED <<conns, live, msgs, wire, spilled>>
    BY <1>5 DEF Dead, vars, table
  <2>. QED  BY <1>0, <2>1, CloseStep DEF Stream!Next
<1>. QED  BY <1>1, <1>2, <1>3, <1>4, <1>5 DEF Next

\* The send path implements the message stream: whatever the threads do, the
\* connections are sent what was accepted for them, in order and without a
\* gap, by the switches of the maps, doSendMessage and every failure of either.
THEOREM ImplementsStreamCorrect == Spec => ImplementsStream
<1>1. Init => Stream!Init
  <2>1. Init => Up = {} /\ Loose = {}
    BY DEF Init, Up, Loose, Live
  <2>. QED  BY <2>1 DEF Init, Stream!Init
<1>2. StreamInv /\ [Next]_vars => [Stream!Next]_(Stream!vars)
  BY NextMapped DEF Stream!vars
<1>. QED  BY <1>1, <1>2, StreamInvariant, PTL DEF Spec, ImplementsStream, Stream!Spec
=============================================================================
