-------------------------------- MODULE Codec --------------------------------
(***************************************************************************)
(* How a message becomes bytes and is read again on another machine:       *)
(* CEupuStream, NetMessageHead, the notices MP_Server_Connected and        *)
(* MP_Server_DisConnected, and createMsgToSendList, which puts a head in   *)
(* front of what a stream writes.                                          *)
(*                                                                         *)
(* A byte has Base values.  An integer of n bytes is the word of its n     *)
(* digits, the most significant first: a mask or a shift by bytes takes    *)
(* some of the digits, and hosts differ in the order in which they store   *)
(* them.  A buffer and the number of bytes of it that may be used are two  *)
(* arguments, as they are in the code.                                     *)
(***************************************************************************)
EXTENDS Integers, Sequences, SequencesExt

CONSTANTS
    Base,           \* the number of values of a byte
    MaxSize,        \* MAX_SEND_SIZE
    Values,         \* the integers an application sends
    Strings,        \* the strings it sends
    MaxRoom         \* bound on the room it asks for (nlen)

VARIABLES
    sent,       \* the message that was to be written, or None
    wire,       \* its bytes, or Refused
    got         \* what the last reader made of them, or None

vars == <<sent, wire, got>>

Host == {"big", "little"}       \* is_big_endian()
Octet == 0 .. Base - 1
Word(n) == [1 .. n -> Octet]
Widths == {1, 2, 4, 8}
IntSize == 4
HeadSize == 8                   \* NET_HEAD_SIZE

\* The values of an integer of 4 bytes.
Range32 == Base * Base * (Base * Base)

\* The longest message has a length of 16 bits (2048, and 256 values of a
\* byte), a notice is no longer, and a C string ends at its first zero.  The
\* int32_t the code keeps a length in holds that of every string that is sent,
\* with its length field: below 2^31 bytes.
ConstantsAssumption ==
    /\ Base \in Nat /\ MaxSize \in Nat
    /\ HeadSize + IntSize <= MaxSize /\ MaxSize < Base * Base
    /\ \A v \in Values : \E n \in Widths : v \in Word(n)
    /\ \A s \in Strings : s \in Seq(Octet \ {0}) /\ 2 * (Len(s) + IntSize) < Range32
    /\ MaxRoom \in Nat

\* What a call that returns -1 or false leaves behind: -1 is no byte.
Refused == <<-1>>
None == [kind |-> "none"]

\* Numbers as integers of 2 and of 4 bytes, and back.
Short(n) == <<(n \div Base) % Base, n % Base>>
Long(n) == Short(n \div (Base * Base)) \o Short(n % (Base * Base))
ShortNumber(w) == w[1] * Base + w[2]
LongNumber(w) == ShortNumber(SubSeq(w, 1, 2)) * (Base * Base) + ShortNumber(SubSeq(w, 3, 4))

\* The cast to int32_t of a number that is not negative.
Int32(n) == LET m == n % Range32 IN IF 2 * m >= Range32 THEN m - Range32 ELSE m

RS_CONNECTED == 11
RS_DISCONNECTED == 12
KEEP_ALIVE_PING == 20

-----------------------------------------------------------------------------
(* The memory of a host and the order of bytes.                            *)

\* The bytes an integer is stored as, and the integer that is stored as these.
Mem(host, w) == IF host = "big" THEN w ELSE Reverse(w)
Load(host, bytes) == IF host = "big" THEN bytes ELSE Reverse(bytes)

\* htons, htonl, ntohs and ntohl.
NetOrder(host, w) == Load(host, Mem("big", w))

High(w) == SubSeq(w, 1, 4)
Low(w) == SubSeq(w, 5, 8)

\* Mutant of hl64ton: the halves keep their places.
hl64tonInPlace(host, w) == NetOrder(host, High(w)) \o NetOrder(host, Low(w))

hl64ton(host, w) == NetOrder(host, Low(w)) \o NetOrder(host, High(w))
ntohl64(host, w) == NetOrder(host, Low(w)) \o NetOrder(host, High(w))

-----------------------------------------------------------------------------
(* CEupuStream                                                             *)

\* The integer OutputValue copies to the buffer.
ToNet(host, w) ==
    CASE Len(w) = 1 -> w
      [] Len(w) \in {2, 4} -> NetOrder(host, w)
      [] Len(w) = 8 -> IF host = "big" THEN w ELSE hl64ton(host, w)

OutputValue(host, buflen, w) ==
    IF Len(w) > buflen THEN Refused ELSE Mem(host, ToNet(host, w))

OutputString(host, buflen, s) ==
    IF Int32(Len(s) + IntSize) > buflen THEN Refused
    ELSE Mem(host, NetOrder(host, Long(Len(s)))) \o s

\* What InputValue makes of the integer in the buffer.
FromNet(host, w) ==
    CASE Len(w) = 1 -> w
      [] Len(w) \in {2, 4} -> NetOrder(host, w)
      [] Len(w) = 8 -> IF host = "big" THEN w ELSE ntohl64(host, w)

\* A result of InputValue, InputString or In.
Fails == [ok |-> FALSE]
Reads(v) == [ok |-> TRUE, value |-> v]

\* InputString has copied more than there is, or than there is room for: what
\* it read is undefined, and no string.
Overruns == Reads(Refused)

\* The n-byte value behind the first at bytes of buf.
InputValue(host, buf, at, buflen, n) ==
    IF n > buflen THEN Fails
    ELSE Reads(FromNet(host, Load(host, SubSeq(buf, at + 1, at + n))))

\* The string behind the first at bytes of buf; szDst holds a zero as well.  The
\* bounds are tested as int32_t: a length field of 2^31 - 1 or more, which
\* OutputString never writes, passes both tests.
InputString(host, buf, at, buflen, dstbuflen) ==
    IF IntSize > buflen THEN Fails
    ELSE LET n == LongNumber(NetOrder(host, Load(host, SubSeq(buf, at + 1, at + IntSize))))
         IN  IF Int32(IntSize + n) > buflen \/ Int32(n + 1) > dstbuflen THEN Fails
             ELSE IF IntSize + n > buflen \/ n + 1 > dstbuflen THEN Overruns
             ELSE Reads(SubSeq(buf, at + IntSize + 1, at + IntSize + n))

-----------------------------------------------------------------------------
(* The messages.                                                           *)

\* Each field has the room the earlier ones left, and the first that does not
\* fit ends the call.
Put(host, buflen, bytes, w) ==
    LET field == OutputValue(host, buflen - Len(bytes), w)
    IN  IF Refused \in {bytes, field} THEN Refused ELSE bytes \o field

HeadOut(host, buflen, head) ==
    LET put(bytes, w) == Put(host, buflen, bytes, w)
    IN  put(put(put(put(put(<<>>, head.uMessageSize), head.uMainID),
                    head.bAssistantID), head.bHandleCode), head.bReserve)

\* The fields of a head: how wide they are, and what is in front of them.
Width == [uMessageSize |-> 2, uMainID |-> 2, bAssistantID |-> 2, bHandleCode |-> 1,
          bReserve |-> 1]
Before == [uMessageSize |-> 0, uMainID |-> 2, bAssistantID |-> 4, bHandleCode |-> 6,
           bReserve |-> 7]

HeadIn(host, buf, buflen) ==
    LET read == [f \in DOMAIN Width |->
                    InputValue(host, buf, Before[f], buflen - Before[f], Width[f])]
    IN  IF \A f \in DOMAIN Width : read[f].ok
          THEN Reads([f \in DOMAIN Width |-> read[f].value])
          ELSE Fails

\* A notice holds its head and one int, m_nServer.
NoticeOut(host, buflen, main, type) ==
    Put(host, buflen,
        HeadOut(host, buflen,
                [uMessageSize |-> Short(HeadSize + IntSize), uMainID |-> Short(main),
                 bAssistantID |-> Short(0), bHandleCode |-> <<0>>, bReserve |-> <<0>>]),
        Long(type))

MP_Server_Connected(host, type) == NoticeOut(host, MaxSize, RS_CONNECTED, type)
MP_Server_DisConnected(host, type) ==
    NoticeOut(host, MaxSize, RS_DISCONNECTED, type)

\* What the Out of an application's stream writes, a value or a string.
StreamOut(host, buflen, body) ==
    CASE body.kind = "none" -> <<>>
      [] body.kind = "value" -> OutputValue(host, buflen, body.v)
      [] body.kind = "string" -> OutputString(host, buflen, body.v)

\* Mutant of MessageSize: the head is not counted.
MessageSizeOfPayload(payload) == Len(payload)
MessageSize(payload) == HeadSize + Len(payload)

Sendable(payload) == payload # Refused /\ HeadSize + Len(payload) <= MaxSize

\* createMsgToSendList(..., mainid, assistantid, code, 0, body, nlen).
CreateMsg(host, main, assistant, code, body, nlen) ==
    LET payload == StreamOut(host, nlen, body)
    IN  IF Sendable(payload)
          THEN HeadOut(host, HeadSize,
                       [uMessageSize |-> Short(MessageSize(payload)), uMainID |-> main,
                        bAssistantID |-> assistant, bHandleCode |-> code,
                        bReserve |-> <<0>>])
               \o payload
          ELSE Refused

\* The In of the same stream; room is that of a string.
StreamIn(host, buf, buflen, body, room) ==
    CASE body.kind = "none" -> Reads(<<>>)
      [] body.kind = "value" ->
            InputValue(host, buf, HeadSize, buflen - HeadSize, Len(body.v))
      [] body.kind = "string" ->
            InputString(host, buf, HeadSize, buflen - HeadSize, room)

-----------------------------------------------------------------------------

Bodies == {None} \cup {[kind |-> "value", v |-> v] : v \in Values}
                 \cup {[kind |-> "string", v |-> s] : s \in Strings}

Unused == sent = None
Init == sent = None /\ wire = <<>> /\ got = None

\* A worker sends a message.
Send ==
    /\ Unused
    /\ \E host \in Host, main \in (Values \cap Word(2)) \cup {Short(KEEP_ALIVE_PING)},
          assistant \in Values \cap Word(2), code \in Values \cap Word(1),
          body \in Bodies, nlen \in 0 .. MaxRoom :
          /\ sent' = [main |-> main, assistant |-> assistant, code |-> code,
                      body |-> body, nlen |-> nlen]
          /\ wire' = CreateMsg(host, main, assistant, code, body, nlen)
    /\ UNCHANGED got

\* The network thread tells the workers that a connection is up or has ended.
Notify ==
    /\ Unused
    /\ \E host \in Host, main \in {RS_CONNECTED, RS_DISCONNECTED}, type \in 1 .. 6 :
        /\ sent' = [main |-> Short(main), assistant |-> Short(0), code |-> <<0>>,
                    body |-> [kind |-> "value", v |-> Long(type)], nlen |-> MaxSize]
        /\ wire' = IF main = RS_CONNECTED THEN MP_Server_Connected(host, type)
                                          ELSE MP_Server_DisConnected(host, type)
    /\ UNCHANGED got

\* The head and the stream are read from the first buflen bytes.
Receive ==
    /\ wire # <<>> /\ wire # Refused /\ got = None
    /\ \E host \in Host, buflen \in 0 .. Len(wire), room \in {Len(wire), 2} :
         LET head == HeadIn(host, wire, buflen)
         IN  got' = [kind |-> "read", buflen |-> buflen, room |-> room, head |-> head,
                     body |-> IF head.ok THEN StreamIn(host, wire, buflen, sent.body, room)
                                         ELSE Fails]
    /\ UNCHANGED <<sent, wire>>

\* The message was refused, or read: it is deleted.
Deleted == (wire = Refused \/ got # None) /\ UNCHANGED vars

Next == Send \/ Notify \/ Receive \/ Deleted

Spec == Init /\ [][Next]_vars

-----------------------------------------------------------------------------

TypeOK ==
    /\ wire \in Seq(Octet) \cup {Refused}
    /\ Len(wire) <= MaxSize
    /\ got.kind \in {"none", "read"}

\* Bytes the body of a message needs.
Needs(body) == CASE body.kind = "none" -> 0
                 [] body.kind = "value" -> Len(body.v)
                 [] body.kind = "string" -> IntSize + Len(body.v)

\* createMsgToSendList lets through what the receiver's parser takes: the
\* length in the head (16 bits, where data_len has 32) is the number of bytes,
\* on every host, and lies between NET_HEAD_SIZE and MAX_SEND_SIZE.  It refuses
\* a message only when its stream does not fit in what the caller asked for, or
\* the whole does not fit in MAX_SEND_SIZE.
LetsThroughWhatFits ==
    /\ wire \notin {<<>>, Refused} =>
          \A host \in Host :
              /\ ShortNumber(HeadIn(host, wire, HeadSize).value.uMessageSize) = Len(wire)
              /\ Len(wire) \in HeadSize .. MaxSize
    /\ wire = Refused => \/ Needs(sent.body) > sent.nlen
                         \/ HeadSize + Needs(sent.body) > MaxSize

\* Whatever the order of bytes of the two hosts, what is read is what was sent
\* (In and Out of the head and of the streams), and a message that was cut off
\* is never taken for a whole one: the whole one alone is read, and its string
\* copied only to where it fits with its zero.  This is of the length fields
\* OutputString writes, for which the casts of InputString change nothing.
ArrivesAsSent ==
    got.kind = "read" =>
        /\ got.head.ok <=> got.buflen >= HeadSize
        /\ got.head.ok =>
              /\ got.head.value.uMainID = sent.main
              /\ got.head.value.bAssistantID = sent.assistant
              /\ got.head.value.bHandleCode = sent.code
              /\ got.head.value.bReserve = <<0>>
        /\ got.body.ok <=>
              /\ got.buflen = Len(wire)
              /\ sent.body.kind = "string" => Len(sent.body.v) < got.room
        /\ got.body.ok /\ sent.body.kind # "none" => got.body.value = sent.body.v
=============================================================================
