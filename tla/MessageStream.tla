--------------------------- MODULE MessageStream ----------------------------
(***************************************************************************)
(* What the send path promises: every connection is a stream.  The         *)
(* messages accepted for a connection are written to it one after the      *)
(* other, none is left out, none is written twice, and none of another     *)
(* connection gets in between.  When a connection is closed, its stream    *)
(* ends wherever it is.  A connection that was let go (its send list       *)
(* overflowed) is only promised that it is sent its own messages.          *)
(*                                                                         *)
(* The promise knows nothing of maps, descriptors, threads and events:     *)
(* module SendMap implements it.                                           *)
(***************************************************************************)
EXTENDS Naturals, Sequences

CONSTANTS
    Message,    \* a message: the connection it is for, conn, and its length, len
    Chunk       \* a run of the units of message id: the units from + 1 to to

VARIABLES
    accepted,   \* the messages accepted, in order
    sent,       \* sent[i]: what connection i was sent, chunk by chunk
    up,         \* the connections that are open
    loose       \* the connections that were let go

vars == <<accepted, sent, up, loose>>

Init == accepted = <<>> /\ sent = <<>> /\ up = {} /\ loose = {}

Accept ==
    /\ \E m \in Message : accepted' = Append(accepted, m)
    /\ UNCHANGED <<sent, up, loose>>

\* A connection gets the next number; it may be closed, or let go, at once.
Open ==
    /\ sent' = Append(sent, <<>>)
    /\ up' \in {up, up \cup {Len(sent) + 1}}
    /\ loose' \in {loose, loose \cup {Len(sent) + 1}}
    /\ UNCHANGED accepted

Last(i) == sent[i][Len(sent[i])]

\* Every message for connection i before message id was begun.
NoneBetween(i, id) ==
    \A k \in 1 .. id - 1 :
        accepted[k].conn = i => sent[i] # <<>> /\ k <= Last(i).id

\* Chunk c is what connection i has to be sent next.
IsNext(i, c) ==
    \/ /\ sent[i] # <<>> /\ c.id = Last(i).id
       /\ c.from = Last(i).to
    \/ /\ sent[i] # <<>> => c.id > Last(i).id /\ Last(i).to = accepted[Last(i).id].len
       /\ c.from = 0
       /\ NoneBetween(i, c.id)

Write ==
    /\ \E i \in up : \E c \in Chunk :
          /\ c.id \in DOMAIN accepted /\ accepted[c.id].conn = i
          /\ c.from < c.to /\ c.to <= accepted[c.id].len
          /\ i \in loose \/ IsNext(i, c)
          /\ sent' = [sent EXCEPT ![i] = Append(@, c)]
    /\ UNCHANGED <<accepted, up, loose>>

Close ==
    /\ up' \subseteq up
    /\ UNCHANGED <<accepted, sent, loose>>

LetGo ==
    /\ loose \subseteq loose' /\ loose' \subseteq 1 .. Len(sent)
    /\ UNCHANGED <<accepted, sent, up>>

Next == Accept \/ Open \/ Write \/ Close \/ LetGo

Spec == Init /\ [][Next]_vars
=============================================================================
