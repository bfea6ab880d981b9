------------------------------- MODULE Framing -------------------------------
(***************************************************************************)
(* How the byte stream of one connection is cut into messages:             *)
(* doRecvMessage, recv_msg and parsePacketToRecvQueue.                     *)
(*                                                                         *)
(* The socket is registered edge triggered, so doRecvMessage reads until   *)
(* recv_msg meets EAGAIN; a buffer that was filled is parsed and the next  *)
(* one is read.  What is left of an incomplete message is kept in part_buf *)
(* and put in front of the next buffer.                                    *)
(*                                                                         *)
(* The stream is made of units, each named by its message and its place in *)
(* it, so that a unit that ends up in the wrong place is seen.  The length *)
(* field of a header is its first unit; a length read anywhere else is     *)
(* whatever the payload happens to be.                                     *)
(***************************************************************************)
EXTENDS Integers, Sequences

CONSTANTS
    HeadSize,   \* NET_HEAD_SIZE
    MaxSize,    \* MAX_SEND_SIZE
    BufLen,     \* m_recvbuflen
    NMsgs       \* bound on the messages the peer sends

\* A header is not empty, a message holds one, the buffer twice the largest.
ConstantsAssumption ==
    /\ HeadSize \in Nat \ {0}
    /\ MaxSize \in Nat /\ MaxSize >= HeadSize
    /\ BufLen \in Nat /\ BufLen >= 2 * MaxSize
    /\ NMsgs \in Nat

VARIABLES
    length,    \* uMessageSize of every message the peer sends
    tosend,    \* the unit the peer sends next, behind the last: <<NMsgs + 1, 1>>
    kbuf,      \* units in the receive buffer of the socket
    ended,     \* the peer closed its side
    edge,      \* epoll has an EPOLLIN edge to report
    pc,        \* "idle", "recv", "parse" or, after closeClient, "closed"
    buf,       \* m_recvbuffer, up to buflen
    curpos,    \* curpos of parsePacketToRecvQueue
    nret,      \* what recv_msg returned
    part,      \* part_buf, up to part_len
    out,       \* the messages put in m_recvtmplst
    misread    \* history: part_buf was filled from the wrong place

peer == <<length, tosend, ended>>
vars == <<peer, kbuf, edge, pc, buf, curpos, nret, part, out, misread>>

Lengths == HeadSize .. MaxSize
BadLengths == {0, HeadSize - 1, MaxSize + 1}

\* A message of a bad length is a header and nothing else.
SizeOf(i) == IF length[i] \in Lengths THEN length[i] ELSE HeadSize
UnitsOf(i) == [k \in 1 .. SizeOf(i) |-> <<i, k>>]

\* The unit behind u in the stream.
After(u) == IF u[2] < SizeOf(u[1]) THEN <<u[1], u[2] + 1>> ELSE <<u[1] + 1, 1>>

Init ==
    /\ length \in [1 .. NMsgs -> Lengths \cup BadLengths]
    /\ tosend = <<1, 1>>
    /\ kbuf = <<>> /\ ended = FALSE /\ edge = FALSE
    /\ pc = "idle" /\ buf = <<>> /\ curpos = 0 /\ nret = 1
    /\ part = <<>> /\ out = <<>> /\ misread = FALSE

-----------------------------------------------------------------------------
(* The network.                                                            *)

\* A unit arrives: a new edge.  More of them at once are several arrivals before
\* the next step of the loop.
Arrive ==
    /\ ~ended /\ pc # "closed"
    /\ tosend[1] <= NMsgs
    /\ kbuf' = Append(kbuf, tosend)
    /\ tosend' = After(tosend)
    /\ edge' = TRUE
    /\ UNCHANGED <<length, ended, pc, buf, curpos, nret, part, out, misread>>

\* The peer closes the connection, perhaps in the middle of a message.
PeerEnds ==
    /\ ~ended /\ pc # "closed"
    /\ ended' = TRUE
    /\ edge' = TRUE
    /\ UNCHANGED <<length, tosend, kbuf, pc, buf, curpos, nret, part, out,
                   misread>>

-----------------------------------------------------------------------------
(* doRecvMessage                                                           *)

\* epoll_wait reports the edge, once.
EpollIn ==
    /\ pc = "idle" /\ edge
    /\ edge' = FALSE
    /\ pc' = "recv"
    /\ UNCHANGED <<peer, kbuf, buf, curpos, nret, part, out, misread>>

\* The first n of the units in the receive buffer are read behind what is in
\* part_buf.  Without any new unit the parser is not called.
Read(n, ret) ==
    /\ kbuf' = SubSeq(kbuf, n + 1, Len(kbuf))
    /\ nret' = ret
    /\ curpos' = 0
    /\ pc' = "parse"
    /\ IF n > 0
         THEN buf' = part \o SubSeq(kbuf, 1, n) /\ part' = <<>>
         ELSE buf' = <<>> /\ part' = part
    /\ UNCHANGED <<peer, edge, out, misread>>

\* Mutant of Space: recv_msg is offered the whole buffer behind part_buf.
SpaceOfAll == BufLen

\* How many units recv_msg is asked for: the buffer without the part_len units
\* that were kept back.
Space == BufLen - Len(part)

\* recv_msg filled the buffer (2).
RecvFull ==
    /\ pc = "recv"
    /\ Len(kbuf) >= Space
    /\ Read(Space, 2)

\* recv_msg read all there is and met EAGAIN (1) or the end (0).
RecvAll ==
    /\ pc = "recv"
    /\ Len(kbuf) < Space
    /\ Read(Len(kbuf), IF ended THEN 0 ELSE 1)

\* closeClient: the SOCKET_SET with its part_buf is gone.
Close ==
    /\ pc' = "closed"
    /\ buf' = <<>> /\ curpos' = 0 /\ part' = <<>> /\ kbuf' = <<>>

\* recv_msg fails (-1): nothing of what it read is parsed.
RecvError ==
    /\ pc = "recv"
    /\ Close
    /\ UNCHANGED <<peer, edge, nret, out, misread>>

-----------------------------------------------------------------------------
(* parsePacketToRecvQueue, one iteration per step                          *)

Rest == Len(buf) - curpos
Parsing == pc = "parse" /\ Rest > 0

\* What ntohs makes of the two bytes at curpos.
DeclaredLengths ==
    LET u == buf[curpos + 1]
    IN  IF u[2] = 1 THEN {length[u[1]]} ELSE Lengths \cup BadLengths

Tail0 == SubSeq(buf, curpos + 1, Len(buf))

\* What the copy of line 814 puts in part_buf: as many units as are left, but
\* from the beginning of the buffer.
SavedHead == SubSeq(buf, 1, Rest)

\* Mutant of SavedBody: the mistake of line 814 in line 833.
SavedBodyFromStart == SubSeq(buf, 1, Rest)

\* What line 833 copies to part_buf.
SavedBody == Tail0

\* Not even a header is left.
PartialHead ==
    /\ Parsing
    /\ Rest < HeadSize
    /\ part' = SavedHead
    /\ misread' = (misread \/ SavedHead # Tail0)
    /\ curpos' = Len(buf)
    /\ UNCHANGED <<peer, kbuf, edge, pc, buf, nret, out>>

\* Mutant of PartialBody: completeness is tested before the limit.
PartialBodyUnchecked ==
    /\ Parsing
    /\ Rest >= HeadSize
    /\ \E n \in DeclaredLengths : n >= HeadSize /\ n > Rest
    /\ part' = SavedBody
    /\ curpos' = Len(buf)
    /\ UNCHANGED <<peer, kbuf, edge, pc, buf, nret, out, misread>>

\* The header is there, the message is not complete.
PartialBody ==
    /\ Parsing
    /\ Rest >= HeadSize
    /\ \E n \in DeclaredLengths : n \in Lengths /\ n > Rest
    /\ part' = SavedBody
    /\ curpos' = Len(buf)
    /\ UNCHANGED <<peer, kbuf, edge, pc, buf, nret, out, misread>>

\* One message for the receive queue.
WholeMessage ==
    /\ Parsing
    /\ Rest >= HeadSize
    /\ \E n \in DeclaredLengths :
          /\ n \in Lengths /\ n <= Rest
          /\ out' = Append(out, SubSeq(buf, curpos + 1, curpos + n))
          /\ curpos' = curpos + n
    /\ UNCHANGED <<peer, kbuf, edge, pc, buf, nret, part, misread>>

\* A length below the header or above the limit: the connection is closed.
BadLength ==
    /\ Parsing
    /\ Rest >= HeadSize
    /\ \E n \in DeclaredLengths : n \notin Lengths
    /\ Close
    /\ UNCHANGED <<peer, edge, nret, out, misread>>

\* Mutant of AfterParse: one buffer per edge.
AfterOneBuffer == "idle"

\* The buffer is parsed: closed at the end of the stream, done after EAGAIN,
\* and on to the next buffer after a full one.
AfterParse ==
    IF nret = 1 THEN "idle" ELSE "recv"

Parsed ==
    /\ pc = "parse" /\ Rest = 0
    /\ IF nret = 0
         THEN Close
         ELSE /\ pc' = AfterParse
              /\ buf' = <<>> /\ curpos' = 0
              /\ UNCHANGED <<part, kbuf>>
    /\ UNCHANGED <<peer, edge, nret, out, misread>>

\* Nothing more comes and nothing is left to do.
Quiet ==
    /\ pc = "closed" \/ (pc = "idle" /\ ~edge /\ ended)
    /\ UNCHANGED vars

Next ==
    \/ Arrive \/ PeerEnds
    \/ EpollIn \/ RecvFull \/ RecvAll \/ RecvError
    \/ PartialHead \/ PartialBody \/ WholeMessage \/ BadLength \/ Parsed
    \/ Quiet

Spec == Init /\ [][Next]_vars

-----------------------------------------------------------------------------

Unit == (1 .. NMsgs) \X (1 .. MaxSize)

TypeOK ==
    /\ length \in [1 .. NMsgs -> Lengths \cup BadLengths]
    /\ tosend \in (1 .. NMsgs + 1) \X (1 .. MaxSize) /\ kbuf \in Seq(Unit)
    /\ ended \in BOOLEAN /\ edge \in BOOLEAN
    /\ pc \in {"idle", "recv", "parse", "closed"}
    /\ buf \in Seq(Unit) /\ Len(buf) <= BufLen
    /\ curpos \in 0 .. Len(buf)
    /\ nret \in 0 .. 2
    /\ part \in Seq(Unit)
    /\ out \in Seq(Seq(Unit))
    /\ misread \in BOOLEAN

\* part_buf holds MAX_SEND_SIZE bytes and what is kept in it is less, so that
\* there is always room behind it in the receive buffer: a full buffer
\* (recv_msg returns 2) has read something, and the loop ends.
PartFits == Len(part) < MaxSize

\* The k-th message handed on is the k-th message of the peer, byte for byte,
\* however the network cut the stream: what is kept back is the tail of the
\* buffer ("check here, buf or buf + curpos ?" asks the comment on the copy of
\* an incomplete body; the copy of an incomplete header goes wrong).
OutIsSent == \A k \in 1 .. Len(out) : out[k] = UnitsOf(k)

\* The same, unless part_buf was filled from the wrong place before.
ExactUnlessMisread == misread \/ OutIsSent

\* Edge triggered: when the loop is not called for this socket, nothing that
\* arrived is waiting for it, and only an incomplete message is kept back.
NothingStranded ==
    pc = "idle" /\ ~edge =>
        /\ kbuf = <<>>
        /\ misread \/ part = <<>> \/ part = SubSeq(UnitsOf(Len(out) + 1), 1, Len(part))
=============================================================================
