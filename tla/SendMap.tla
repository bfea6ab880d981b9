------------------------------- MODULE SendMap -------------------------------
(***************************************************************************)
(* The send path of the server: the two send maps of CGlobalMgr and the    *)
(* half of the epoll thread that empties them.                             *)
(*                                                                         *)
(* Any thread appends a message for a connection to the current map        *)
(* (addMsgToSendList).  Once per loop the epoll thread swaps the current   *)
(* map with the backup map, putting what the backup map still held in      *)
(* front (switchSendMap), asks epoll for EPOLLOUT on every descriptor of   *)
(* the backup map, and when the event arrives writes the list of that      *)
(* descriptor to the socket (doSendMessage).                               *)
(*                                                                         *)
(* A connection is named by the value getIndex() gave it, an index into    *)
(* conns; the descriptor it uses can be reused by a later connection.  A   *)
(* message carries the descriptor (the key of the list it is in) and the   *)
(* connect_time of the connection it is meant for, so that doSendMessage   *)
(* can tell an old message from a new one.  The bytes of a message are     *)
(* counted in units; a list of the maps is never left empty by the code,   *)
(* so the empty sequence stands for a descriptor that has no entry.        *)
(*                                                                         *)
(* The server key and the messages to the workers that closeClient and     *)
(* ADD_CLIENT also write are the subject of module ServerLink.             *)
(***************************************************************************)
EXTENDS Integers, Sequences, FiniteSets

CONSTANTS
    Fds,            \* descriptors the kernel can hand out for connections
    None,           \* no descriptor
    MaxSendList,    \* m_nMaxSendList, the option sys_send_queue_size
    MaxLen,         \* units of the longest message
    SndBuf,         \* units the socket send buffer of the kernel holds
    MaxConns,       \* bound on the connections ever opened
    MaxMsgs         \* bound on the messages ever accepted

ASSUME ConstantsAssumption ==
    /\ None \notin Fds
    /\ MaxSendList \in Nat \ {0}
    /\ MaxLen \in Nat \ {0}
    /\ SndBuf \in Nat \ {0}
    /\ MaxConns \in Nat
    /\ MaxMsgs \in Nat

VARIABLES
    pc,        \* where the loop of doEpollEvent is
    batch,     \* what is left of the events epoll_wait returned
    sending,   \* descriptor doSendMessage is working on
    conns,     \* conns[i]: descriptor of connection i; m_index is Len(conns)
    live,      \* m_socketmap: connection of a descriptor, 0 for none
    pending,   \* descriptors connected by the main thread, not yet added
    armed,     \* descriptors registered for EPOLLOUT instead of EPOLLIN
    room,      \* free units in the socket send buffer
    cur,       \* *m_pcursendmap
    bak,       \* *m_pbaksendmap
    msgs,      \* history: every message addMsgToSendList accepted
    wire,      \* history: what was written to each connection
    spilled,   \* history: descriptors whose lists once overflowed in a switch
    crashed    \* the process died

loop == <<pc, batch, sending>>
table == <<conns, live, pending, armed>>
maps == <<cur, bak>>
vars == <<loop, table, room, maps, msgs, wire, spilled, crashed>>

Conn == 1 .. MaxConns
Live == {f \in Fds : live[f] # 0}

\* NET_DATA in a send list: id names the bytes, conn is connect_time (0: the
\* time(NULL) of createServerConnect, which no connection keeps), rest is
\* data_len, what is still to be written of the len units it had at first.
Entry == {e \in [id : 1 .. MaxMsgs, conn : 0 .. MaxConns,
                 len : 1 .. MaxLen, rest : 1 .. MaxLen] : e.rest <= e.len}

\* A run of units of one message that reached a socket.
Chunk == [id : 1 .. MaxMsgs, from : 0 .. MaxLen, to : 0 .. MaxLen]

Event == Fds \X {"out", "end"}
PC == {"wait", "batch", "send", "events", "switch", "arm", "keepalive"}

Init ==
    /\ pc = "wait" /\ batch = {} /\ sending = None
    /\ conns = <<>> /\ live = [f \in Fds |-> 0]
    /\ pending = {} /\ armed = {}
    /\ room = [f \in Fds |-> SndBuf]
    /\ cur = [f \in Fds |-> <<>>] /\ bak = [f \in Fds |-> <<>>]
    /\ msgs = <<>> /\ wire = <<>>
    /\ spilled = {} /\ crashed = FALSE

-----------------------------------------------------------------------------
(* Every thread: createMsgToSendList and addMsgToSendList.                 *)

\* Mutant of HasRoomFor: the limit is checked one message too late.
HasRoomForOneMore(list) == Len(list) <= MaxSendList

HasRoomFor(list) == Len(list) < MaxSendList

\* A message of len units for connection c of descriptor f is appended to the
\* current map.  A full list refuses it, and the caller drops it.
AddMsgToSendList(f, c, len) ==
    /\ ~crashed
    /\ Len(msgs) < MaxMsgs
    /\ HasRoomFor(cur[f])
    /\ LET id == Len(msgs) + 1
       IN  /\ cur' = [cur EXCEPT ![f] = Append(@,
                        [id |-> id, conn |-> c, len |-> len, rest |-> len])]
           /\ msgs' = Append(msgs, [fd |-> f, conn |-> c, len |-> len])
    /\ UNCHANGED <<loop, table, room, bak, wire, spilled, crashed>>

\* A worker answers on the connection a message came from, which may be
\* closed by now, or sendMsgToServer uses the key ADD_CLIENT published.
SendToConn(i, len) == AddMsgToSendList(conns[i], i, len)

\* sendMsgToServer between createServerConnect and ADD_CLIENT: the key holds
\* the descriptor with a connect_time the connection will not keep.
SendToPending(f, len) ==
    /\ f \in pending
    /\ AddMsgToSendList(f, 0, len)

-----------------------------------------------------------------------------
(* The main thread, the network.                                           *)

\* createServerConnect: a connected descriptor waits for its ADD_CLIENT.
ConnectServer(f) ==
    /\ ~crashed
    /\ live[f] = 0 /\ f \notin pending
    /\ Len(conns) + Cardinality(pending) < MaxConns
    /\ pending' = pending \cup {f}
    /\ UNCHANGED <<loop, conns, live, armed, room, maps, msgs, wire, spilled,
                   crashed>>

\* The peer reads: the socket buffer drains.
Drain(f) ==
    /\ ~crashed
    /\ live[f] # 0 /\ room[f] < SndBuf
    /\ room' = [room EXCEPT ![f] = SndBuf]
    /\ UNCHANGED <<loop, table, maps, msgs, wire, spilled, crashed>>

-----------------------------------------------------------------------------
(* The epoll thread: one iteration of doEpollEvent.                        *)

Goto(from, to) == ~crashed /\ pc = from /\ pc' = to

\* closeClient, for every descriptor of F.  The send maps are left alone.
CloseClients(F) ==
    /\ live' = [f \in Fds |-> IF f \in F THEN 0 ELSE live[f]]
    /\ room' = [f \in Fds |-> IF f \in F THEN SndBuf ELSE room[f]]
    /\ armed' = armed \ F

\* The connection index getIndex() hands to descriptor f, which becomes a
\* connection of the map unless addClientToEpoll fails.
OpenConn(f, added) ==
    /\ Len(conns) < MaxConns
    /\ conns' = Append(conns, f)
    /\ wire' = Append(wire, <<>>)
    /\ live' = [live EXCEPT ![f] = IF added THEN Len(conns) + 1 ELSE 0]

\* epoll_wait: an armed descriptor with room in its buffer is writable, any
\* connection can have reached its end or failed.
EpollWait ==
    /\ Goto("wait", "batch")
    /\ \E ended \in SUBSET Live :
          batch' = {<<f, "end">> : f \in ended}
                   \cup {<<f, "out">> : f \in {g \in armed \ ended : room[g] > 0}}
    /\ UNCHANGED <<sending, table, room, maps, msgs, wire, spilled, crashed>>

\* doAccept: the kernel hands out a descriptor that is not in use.
DoAccept(f, added) ==
    /\ ~crashed
    /\ pc = "batch"
    /\ live[f] = 0 /\ f \notin pending
    /\ Len(conns) + Cardinality(pending) < MaxConns
    /\ OpenConn(f, added)
    /\ UNCHANGED <<loop, pending, armed, room, maps, msgs, spilled, crashed>>

\* doRecvMessage reads the end of the stream or an error, or epoll reports
\* neither EPOLLIN nor EPOLLOUT.
PeerClosed(f) ==
    /\ ~crashed
    /\ pc = "batch" /\ <<f, "end">> \in batch
    /\ batch' = batch \ {<<f, "end">>}
    /\ CloseClients({f})
    /\ UNCHANGED <<pc, sending, conns, pending, maps, msgs, wire, spilled,
                   crashed>>

\* EPOLLOUT: doSendMessage starts on the list of the descriptor.
BeginSend(f) ==
    /\ Goto("batch", "send")
    /\ <<f, "out">> \in batch
    /\ batch' = batch \ {<<f, "out">>}
    /\ sending' = f
    /\ UNCHANGED <<table, room, maps, msgs, wire, spilled, crashed>>

Sending == ~crashed /\ pc = "send" /\ bak[sending] # <<>>
Front1 == Head(bak[sending])

\* Mutant of IsCurrent: only the descriptor is compared.
IsSameFd(m, f) == live[f] # 0

\* The first message of the list is meant for the connection in the map.
IsCurrent(m, f) == m.conn = live[f]

\* doSendMessage drops a message whose connect_time is not the one of the map.
DropStale ==
    /\ Sending
    /\ ~IsCurrent(Front1, sending)
    /\ bak' = [bak EXCEPT ![sending] = Tail(@)]
    /\ UNCHANGED <<loop, table, room, cur, msgs, wire, spilled, crashed>>

\* The units send_msg(n units) put on the connection of the descriptor.
Write(m, n) ==
    /\ wire' = [wire EXCEPT ![live[sending]] =
                   Append(@, [id |-> m.id, from |-> m.len - m.rest,
                              to |-> m.len - m.rest + n])]
    /\ room' = [room EXCEPT ![sending] = @ - n]

\* send_msg wrote all of the message: it leaves the list.
SendWhole ==
    /\ Sending
    /\ IsCurrent(Front1, sending)
    /\ Front1.rest <= room[sending]
    /\ Write(Front1, Front1.rest)
    /\ bak' = [bak EXCEPT ![sending] = Tail(@)]
    /\ UNCHANGED <<loop, table, cur, msgs, spilled, crashed>>

\* doSendMessage is done and the descriptor goes back to EPOLLIN.
BackToInput ==
    /\ pc' = "batch"
    /\ sending' = None
    /\ armed' = armed \ {sending}

\* Mutant of Remainder: one unit too many is taken off.
RemainderShort(m, n) == [m EXCEPT !.rest = @ - n - 1]

\* Mutant of Remainder: the whole message is written once more.
RemainderAgain(m, n) == m

\* What is left of a message after n of its units were written.
Remainder(m, n) == [m EXCEPT !.rest = @ - n]

\* send_msg met EAGAIN: what is left of the message stays at the front.
SendPart ==
    /\ Sending
    /\ IsCurrent(Front1, sending)
    /\ room[sending] < Front1.rest
    /\ IF room[sending] > 0
         THEN /\ Write(Front1, room[sending])
              /\ bak' = [bak EXCEPT ![sending] =
                            <<Remainder(Front1, room[sending])>> \o Tail(@)]
         ELSE UNCHANGED <<wire, room, bak>>
    /\ BackToInput
    /\ UNCHANGED <<batch, conns, live, pending, cur, msgs, spilled, crashed>>

\* send_msg fails: the list is deleted and the connection closed.
SendFails ==
    /\ Sending
    /\ IsCurrent(Front1, sending)
    /\ bak' = [bak EXCEPT ![sending] = <<>>]
    /\ CloseClients({sending})
    /\ pc' = "batch" /\ sending' = None
    /\ UNCHANGED <<batch, conns, pending, cur, msgs, wire, spilled, crashed>>

\* The list is empty.
EndSend ==
    /\ ~crashed
    /\ pc = "send" /\ bak[sending] = <<>>
    /\ BackToInput
    /\ UNCHANGED <<batch, conns, live, pending, room, maps, msgs, wire,
                   spilled, crashed>>

\* Every event of the batch was handled.
EndBatch ==
    /\ Goto("batch", "events")
    /\ batch = {}
    /\ UNCHANGED <<batch, sending, table, room, maps, msgs, wire, spilled,
                   crashed>>

\* doSystemEvent, ADD_CLIENT.
AddClient(f, added) ==
    /\ ~crashed
    /\ pc = "events"
    /\ f \in pending
    /\ pending' = pending \ {f}
    /\ OpenConn(f, added)
    /\ UNCHANGED <<loop, armed, room, maps, msgs, spilled, crashed>>

\* doSystemEvent, CLOSE_CLIENT.
CloseClient(f) ==
    /\ ~crashed
    /\ pc = "events"
    /\ live[f] # 0
    /\ CloseClients({f})
    /\ UNCHANGED <<loop, conns, pending, maps, msgs, wire, spilled, crashed>>

EndEvents ==
    /\ Goto("events", "switch")
    /\ UNCHANGED <<batch, sending, table, room, maps, msgs, wire, spilled,
                   crashed>>

\* The two lists of a descriptor do not fit in one.
Overflows(old, new) ==
    /\ old # <<>> /\ new # <<>>
    /\ Len(new) + Len(old) > MaxSendList

\* Mutant of Merge: old messages behind the new ones, overflow or not.
MergeBehind(old, new) == new \o old

\* Mutant of Merge: the new list replaces the old one.
MergeReplaced(old, new) == IF new # <<>> THEN new ELSE old

\* The list switchSendMap leaves in the new backup map: old messages go in
\* front of the new ones.  When both together exceed the limit, idx is never
\* counted, so every old message goes to the BACK of a list that has room for
\* one, and every old message is deleted when it has none.
Merge(old, new) ==
    IF Overflows(old, new)
      THEN IF MaxSendList - Len(new) > 0 THEN new \o old ELSE new
      ELSE old \o new

\* Mutant of SwitchSendMap: with an empty current map there is nothing to arm.
SwitchOnlyNew ==
    /\ ~crashed /\ pc = "switch"
    /\ pc' = IF \A f \in Fds : cur[f] = <<>> THEN "keepalive" ELSE "arm"
    /\ bak' = [f \in Fds |-> Merge(bak[f], cur[f])]
    /\ cur' = [f \in Fds |-> <<>>]
    /\ spilled' = spilled \cup {f \in Fds : Overflows(bak[f], cur[f])}
    /\ UNCHANGED <<batch, sending, table, room, msgs, wire, crashed>>

\* switchSendMap, under m_sendmaplock.  With an empty current map it returns
\* at once, which is what Merge says of empty lists.
SwitchSendMap ==
    /\ Goto("switch", "arm")
    /\ bak' = [f \in Fds |-> Merge(bak[f], cur[f])]
    /\ cur' = [f \in Fds |-> <<>>]
    /\ spilled' = spilled \cup {f \in Fds : Overflows(bak[f], cur[f])}
    /\ UNCHANGED <<batch, sending, table, room, msgs, wire, crashed>>

Waiting == {f \in Fds : bak[f] # <<>>}
Missing == Waiting \ Live

\* EPOLLOUT is asked for every descriptor of the backup map.  The lists of
\* descriptors that are not in m_socketmap are deleted, and so are those for
\* which epoll_ctl fails; these connections are closed.
ArmOutput ==
    /\ Goto("arm", "keepalive")
    /\ \E failed \in SUBSET (Waiting \cap Live) :
          /\ live' = [f \in Fds |-> IF f \in failed THEN 0 ELSE live[f]]
          /\ room' = [f \in Fds |-> IF f \in failed THEN SndBuf ELSE room[f]]
          /\ armed' = (armed \cup (Waiting \cap Live)) \ failed
          /\ bak' = [f \in Fds |-> IF f \in Missing \cup failed
                                     THEN <<>> ELSE bak[f]]
    /\ UNCHANGED <<batch, sending, conns, pending, cur, msgs, wire, spilled,
                   crashed>>

\* The log call for a missing descriptor reads itersockmap->second although
\* itersockmap is m_socketmap.end(): undefined behaviour.  ArmOutput is the
\* run that survives it, this one the run that does not.
ArmCrash ==
    /\ ~crashed
    /\ pc = "arm" /\ Missing # {}
    /\ crashed' = TRUE
    /\ UNCHANGED <<loop, table, room, maps, msgs, wire, spilled>>

\* doKeepaliveTimeout closes every connection that was silent for too long;
\* then doSendKeepaliveToServer, whose pings are SendToConn steps.
KeepaliveTimeout ==
    /\ Goto("keepalive", "wait")
    /\ \E silent \in SUBSET Live : CloseClients(silent)
    /\ UNCHANGED <<batch, sending, conns, pending, maps, msgs, wire, spilled,
                   crashed>>

\* A dead process does nothing.
Dead == crashed /\ UNCHANGED vars

-----------------------------------------------------------------------------

Send ==
    \/ \E i \in 1 .. Len(conns), len \in 1 .. MaxLen : SendToConn(i, len)
    \/ \E f \in Fds, len \in 1 .. MaxLen : SendToPending(f, len)

Loop ==
    \/ EpollWait
    \/ \E f \in Fds : PeerClosed(f) \/ BeginSend(f)
    \/ DropStale \/ SendWhole \/ SendPart \/ SendFails \/ EndSend
    \/ EndBatch \/ EndEvents
    \/ SwitchSendMap \/ ArmOutput \/ ArmCrash
    \/ KeepaliveTimeout

Next ==
    \/ Send
    \/ \E f \in Fds : ConnectServer(f) \/ Drain(f) \/ CloseClient(f)
    \/ \E f \in Fds, added \in BOOLEAN : DoAccept(f, added) \/ AddClient(f, added)
    \/ Loop
    \/ Dead

Spec == Init /\ [][Next]_vars

\* The epoll thread keeps running and every peer keeps reading.  New work
\* (accepts, messages, events) is never promised.
Fairness ==
    /\ WF_vars(Loop)
    /\ \A f \in Fds : WF_vars(Drain(f))

FairSpec == Spec /\ Fairness

-----------------------------------------------------------------------------

LoopOK ==
    /\ pc \in PC
    /\ batch \in SUBSET Event
    /\ sending \in Fds \cup {None}
    /\ pc = "send" <=> sending # None

ConnsOK ==
    /\ conns \in Seq(Fds) /\ Len(conns) <= MaxConns
    /\ live \in [Fds -> 0 .. Len(conns)]

TableOK ==
    /\ pending \in SUBSET Fds
    /\ armed \in SUBSET Fds
    /\ room \in [Fds -> 0 .. SndBuf]

MapsOK ==
    /\ cur \in [Fds -> Seq(Entry)]
    /\ bak \in [Fds -> Seq(Entry)]

MsgsOK ==
    /\ msgs \in Seq([fd : Fds, conn : 0 .. MaxConns, len : 1 .. MaxLen])
    /\ Len(msgs) <= MaxMsgs

WireOK ==
    /\ wire \in Seq(Seq(Chunk))
    /\ Len(wire) = Len(conns)

FlagsOK ==
    /\ spilled \in SUBSET Fds
    /\ crashed \in BOOLEAN

\* Every variable has its type; a descriptor is being written to exactly while
\* the loop is in doSendMessage.
TypeOK ==
    LoopOK /\ ConnsOK /\ TableOK /\ MapsOK /\ MsgsOK /\ WireOK /\ FlagsOK

\* What a connection was sent is meant for that connection: a message left in
\* the maps by a closed connection is never written to the connection that
\* reused its descriptor (the connect_time test of doSendMessage).
OwnTraffic ==
    \A i \in 1 .. Len(wire) : \A p \in 1 .. Len(wire[i]) :
        msgs[wire[i][p].id].conn = i

\* Chunk b continues the byte stream after chunk a.
Follows(a, b) ==
    \/ b.id = a.id /\ b.from = a.to
    \/ b.id > a.id /\ b.from = 0 /\ a.to = msgs[a.id].len

\* The byte stream of a connection consists of whole messages in the order in
\* which they were accepted; only the last one may be cut short.  Partial
\* writes, switches and reused descriptors do not break it, unless the lists
\* of the descriptor overflowed in switchSendMap.
StreamIntact ==
    \A i \in 1 .. Len(wire) :
        (conns[i] \notin spilled /\ wire[i] # <<>>) =>
            /\ wire[i][1].from = 0
            /\ \A p \in 1 .. Len(wire[i]) - 1 : Follows(wire[i][p], wire[i][p + 1])

Queued(k) ==
    LET f == msgs[k].fd
    IN  \/ \E p \in 1 .. Len(bak[f]) : bak[f][p].id = k
        \/ \E p \in 1 .. Len(cur[f]) : cur[f][p].id = k

Written(k) ==
    /\ k <= Len(msgs)
    /\ LET c == msgs[k].conn
       IN  /\ c # 0
           /\ \E p \in 1 .. Len(wire[c]) :
                 wire[c][p].id = k /\ wire[c][p].to = msgs[k].len

OnOpenLink(k) ==
    /\ k <= Len(msgs)
    /\ msgs[k].conn # 0
    /\ live[msgs[k].fd] = msgs[k].conn
    /\ msgs[k].fd \notin spilled

\* addMsgToSendList returned true: as long as the connection lives the message
\* is in one of the maps or written in full.  No switch, partial write or
\* failure of another connection loses it.
NoneLost ==
    \A k \in 1 .. Len(msgs) : OnOpenLink(k) => Queued(k) \/ Written(k)

\* The connections in m_socketmap, and those whose descriptor's lists overflowed.
Up == {live[f] : f \in Live}
Loose == {i \in 1 .. Len(conns) : conns[i] \in spilled}

Stream == INSTANCE MessageStream
    WITH Message <- [fd : Fds, conn : 0 .. MaxConns, len : 1 .. MaxLen],
         accepted <- msgs, sent <- wire, up <- Up, loose <- Loose

\* The send path as a whole implements the stream of MessageStream: what a
\* connection is sent, over all switches, partial writes, failures and reused
\* descriptors, is what was accepted for it, in order and without a gap.
ImplementsStream == Stream!Spec

\* A list of either map never holds more than sys_send_queue_size messages,
\* unless the lists of the descriptor overflowed in switchSendMap.
ListsBounded ==
    \A f \in Fds :
        /\ Len(cur[f]) <= MaxSendList
        /\ f \in spilled \/ Len(bak[f]) <= MaxSendList

\* sys_send_queue_size bounds the list of a connection, and switchSendMap logs
\* "send list full, delete %d message": a full list loses messages, it does
\* not grow.
ListFullDeletes == \A f \in Fds : Len(bak[f]) <= MaxSendList

\* The epoll thread logs "m_socketmap.find(fd) failed" for messages of a closed
\* connection, deletes them and goes on.
SurvivesClosedPeer == ~crashed

\* A message accepted for an open connection is written in the end, or the
\* connection is closed, or its lists overflow: EPOLLOUT is asked for again
\* after every partial write, although the current map may be empty.
EventuallyWritten ==
    \A k \in 1 .. MaxMsgs :
        OnOpenLink(k) ~> (Written(k) \/ ~OnOpenLink(k) \/ crashed)
=============================================================================
