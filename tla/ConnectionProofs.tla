-------------------------- MODULE ConnectionProofs ---------------------------
(***************************************************************************)
(* Proofs of what MCConnection promises of one connection, for all values  *)
(* of its constants: the timers (Keepalive), the turns of the two ends     *)
(* (Duplex), and, from FramingProofs, the parser.  At the end the three    *)
(* are put together as MCConnection does.                                  *)
(***************************************************************************)
EXTENDS MCConnection, SequenceTheorems, TLAPS

-----------------------------------------------------------------------------
(* The timers.                                                             *)
(* A silent peer.  The time since the last input and the time since the    *)
(* last look at it grow together; when the look is due, the loop goes      *)
(* round once before a second of delay has passed.                         *)

Silence(e) ==
    /\ pc[e] = "ping" /\ e \in ran => checked[e] < Interval
    /\ \/ silent[e] <= Timeout + checked[e]
       \/ /\ silent[e] <= Timeout + Interval + 1
          /\ checked[e] = Interval
          /\ e \notin ran /\ pc[e] # "ping"

SilenceInv == \A e \in Live : Silence(e)

-----------------------------------------------------------------------------
(* A living peer.  A ping is sent Interval seconds after the last one, and *)
(* whatever is on its way is read, and answered, in time.                  *)

Empty(e) == Len(onWay[e]) = 0
Oldest(e) == onWay[e][1]

PingsInv ==
    /\ pinged = Interval => Client \notin ran
    /\ silent[Svr] <= IF Empty(Svr) THEN pinged ELSE Interval + Oldest(Svr)
    /\ silent[Client] <= IF ~Empty(Client) THEN Interval + Delay + Oldest(Client)
                         ELSE IF ~Empty(Svr) THEN Interval + Oldest(Svr) ELSE pinged

KeptInv == NetworkAssumption /\ frozen = {} /\ ~lost => open = End /\ PingsInv

-----------------------------------------------------------------------------
(* Periods, ends and queues.                                               *)

LEMMA PeriodFacts ==
    /\ Timeout \in Nat /\ Delay \in Nat
    /\ Interval \in Nat /\ Interval >= 1 /\ MaxSilence \in Nat
    /\ MaxSilence = Timeout + Interval + 2
<1>1. Timeout \in Nat /\ Timeout >= 2 /\ Delay \in Nat
  BY PeriodsAssumption
<1>2. Interval \in Nat /\ Interval >= 1
  BY <1>1 DEF Interval
<1>. QED  BY <1>1, <1>2 DEF MaxSilence

LEMMA EndFacts ==
    /\ End = {Client, Svr} /\ Client # Svr
    /\ Other(Client) = Svr /\ Other(Svr) = Client
    /\ \A e \in End : Other(e) \in End /\ Other(e) # e
BY DEF End, Client, Svr, Other

\* Queueing n messages adds n messages of age 0, or none at a frozen end.
LEMMA QueuedFacts ==
    ASSUME TypeOK, NEW e \in End, NEW n \in Nat
    PROVE  /\ Queued(e, n) \in Seq(0 .. Delay)
           /\ Len(Queued(e, n)) = Len(onWay[e]) + (IF e \in frozen THEN 0 ELSE n)
           /\ Len(onWay[e]) \in Nat
           /\ Len(onWay[e]) > 0 => Queued(e, n)[1] = onWay[e][1]
           /\ Len(onWay[e]) = 0 /\ n > 0 /\ e \notin frozen => Queued(e, n)[1] = 0
<1>. DEFINE k == IF e \in frozen THEN 0 ELSE n
            new == [i \in 1 .. k |-> 0]
<1>1. onWay[e] \in Seq(0 .. Delay) /\ Len(onWay[e]) \in Nat
  BY LenProperties DEF TypeOK
<1>2. k \in Nat /\ 0 \in 0 .. Delay
  BY PeriodFacts
<1>3. new \in Seq(0 .. Delay) /\ Len(new) = k /\ \A i \in 1 .. k : new[i] = 0
  BY <1>2
<1>. DEFINE old == onWay[e]
            both == old \o new
<1>4. Queued(e, n) = both
  BY DEF Queued
<1>. HIDE DEF new, old
<1>5. /\ both \in Seq(0 .. Delay) /\ Len(both) = Len(old) + Len(new)
      /\ \A i \in 1 .. Len(old) + Len(new) :
             both[i] = IF i <= Len(old) THEN old[i] ELSE new[i - Len(old)]
  <2>1. old \in Seq(0 .. Delay)
    BY <1>1 DEF old
  <2>. QED  BY ONLY <1>3, <2>1, ConcatProperties
<1>. HIDE DEF both, k
<1>6. Len(old) > 0 => both[1] = old[1]
  BY <1>1, <1>2, <1>3, <1>5 DEF old
<1>7. Len(old) = 0 /\ k > 0 => both[1] = 0
  BY <1>2, <1>3, <1>5
<1>. QED  BY <1>1, <1>3, <1>4, <1>5, <1>6, <1>7 DEF old, k

\* What the queue of an end that works begins with.
LEMMA QueuedOldest ==
    ASSUME TypeOK, NEW e \in End \ frozen, NEW n \in Nat \ {0},
           onWay'[e] = Queued(e, n)
    PROVE  ~Empty(e)' /\ Oldest(e)' = IF Empty(e) THEN 0 ELSE Oldest(e)
<1>1. e \in End /\ e \notin frozen /\ n \in Nat /\ n > 0
  OBVIOUS
<1>2. /\ Len(Queued(e, n)) = Len(onWay[e]) + (IF e \in frozen THEN 0 ELSE n)
      /\ Len(onWay[e]) \in Nat
      /\ Len(onWay[e]) > 0 => Queued(e, n)[1] = onWay[e][1]
      /\ Len(onWay[e]) = 0 /\ n > 0 /\ e \notin frozen => Queued(e, n)[1] = 0
  BY <1>1, QueuedFacts, Zenon
<1>. QED  BY <1>1, <1>2 DEF Empty, Oldest

\* Where nothing is queued, nothing changes.
LEMMA QueuedNothing ==
    ASSUME TypeOK, NEW e \in End
    PROVE  Queued(e, 0) = onWay[e]
<1>. DEFINE new == [i \in 1 .. (IF e \in frozen THEN 0 ELSE 0) |-> 0]
<1>1. onWay[e] \in Seq(0 .. Delay)
  BY DEF TypeOK
<1>2. new = <<>>
  OBVIOUS
<1>. HIDE DEF new
<1>3. onWay[e] \o <<>> = onWay[e]
  BY <1>1, ConcatEmptySeq
<1>. QED  BY <1>2, <1>3 DEF Queued, new

-----------------------------------------------------------------------------
(* Types.                                                                  *)

\* What a step of doRecvMessage does: the end reads, and perhaps answers.
LEMMA RecvFacts ==
    ASSUME TypeOK, NEW e \in End, Recv(e)
    PROVE  \E n \in 1 .. Len(onWay[e]), answers \in Nat :
              /\ e = Svr /\ ~lost' => answers = n
              /\ e = Client => answers = 0
              /\ onWay'[e] \in Seq(0 .. Delay)
              /\ onWay'[Other(e)] = Queued(Other(e), answers)
              /\ onWay' \in [End -> Seq(0 .. Delay)]
              /\ lost' \in BOOLEAN /\ (lost => lost')
<1>0. PICK n \in 1 .. Len(onWay[e]) :
        \E answers \in (IF e = Svr THEN 0 .. n ELSE {0}) :
            /\ onWay' = [onWay EXCEPT ![e] = SubSeq(@, n + 1, Len(@)),
                                      ![Other(e)] = Queued(Other(e), answers)]
            /\ lost' = (lost \/ (e = Svr /\ answers < n))
  BY Zenon DEF Recv
<1>1. PICK answers \in (IF e = Svr THEN 0 .. n ELSE {0}) :
            /\ onWay' = [onWay EXCEPT ![e] = SubSeq(@, n + 1, Len(@)),
                                      ![Other(e)] = Queued(Other(e), answers)]
            /\ lost' = (lost \/ (e = Svr /\ answers < n))
  BY <1>0, Zenon
<1>2. Len(onWay[e]) \in Nat /\ onWay[e] \in Seq(0 .. Delay) /\ onWay \in [End -> Seq(0 .. Delay)]
      /\ onWay[e] \in [1 .. Len(onWay[e]) -> 0 .. Delay]
  BY LenProperties DEF TypeOK
<1>3. n \in Nat /\ answers \in Nat
  BY <1>1, <1>2
<1>4. SubSeq(onWay[e], n + 1, Len(onWay[e])) \in Seq(0 .. Delay)
  <2>1. \A i \in n + 1 .. Len(onWay[e]) : onWay[e][i] \in 0 .. Delay
    BY <1>2, <1>3
  <2>. QED  BY <1>2, <1>3, <2>1, SubSeqProperties
<1>5. Other(e) \in End /\ Other(e) # e
  BY EndFacts
<1>6. Queued(Other(e), answers) \in Seq(0 .. Delay)
  BY <1>3, <1>5, QueuedFacts
<1>7. /\ onWay'[e] = SubSeq(onWay[e], n + 1, Len(onWay[e]))
      /\ onWay'[Other(e)] = Queued(Other(e), answers)
      /\ onWay' \in [End -> Seq(0 .. Delay)]
  BY <1>1, <1>2, <1>4, <1>5, <1>6
<1>8. (lost => lost') /\ lost' \in BOOLEAN /\ (e = Svr /\ ~lost' => ~(answers < n))
  BY <1>1 DEF TypeOK
<1>9. e = Svr /\ ~lost' => answers = n
  BY <1>1, <1>3, <1>8
<1>10. e = Client => answers = 0
  BY <1>1, EndFacts
<1>. QED  BY <1>1, <1>3, <1>4, <1>7, <1>8, <1>9, <1>10

\* Every age on its way grows by one second, for the next one begins only
\* when none has reached the delay of the network.
LEMMA TickFacts ==
    ASSUME TypeOK, Live = End, Tick, NEW e \in End
    PROVE  /\ Len(onWay[e]) \in Nat
           /\ Len(onWay'[e]) = Len(onWay[e])
           /\ Len(onWay[e]) > 0 => onWay'[e][1] = onWay[e][1] + 1
<1>1. onWay[e] \in Seq(0 .. Delay) /\ Len(onWay[e]) \in Nat
      /\ DOMAIN onWay[e] = 1 .. Len(onWay[e])
  BY LenProperties DEF TypeOK
<1>2. onWay'[e] = [i \in DOMAIN onWay[e] |-> Older(onWay[e][i], Delay)]
      /\ \A i \in DOMAIN onWay[e] : onWay[e][i] < Delay
  BY DEF Tick
<1>3. onWay'[e] = [i \in 1 .. Len(onWay[e]) |-> Older(onWay[e][i], Delay)]
  BY <1>1, <1>2
<1>4. Len(onWay'[e]) = Len(onWay[e])
  BY <1>1, <1>3
<1>5. Len(onWay[e]) > 0 => 1 \in 1 .. Len(onWay[e])
  BY <1>1
<1>. QED  BY <1>1, <1>2, <1>3, <1>4, <1>5 DEF Older

LEMMA NextType ==
    ASSUME TypeOK, [Next]_vars
    PROVE  TypeOK'
<1>0. /\ Interval \in Nat /\ Timeout \in Nat /\ Delay \in Nat
      /\ MaxSilence \in Nat
  BY PeriodFacts
<1>1. ASSUME NEW e \in End, Recv(e) PROVE TypeOK'
  <2>1. /\ onWay' \in [End -> Seq(0 .. Delay)] /\ lost' \in BOOLEAN
    BY <1>1, RecvFacts
  <2>2. silent' = [silent EXCEPT ![e] = 0] /\ UNCHANGED <<open, frozen, checked, pinged, pc, ran>>
    BY <1>1, Zenon DEF Recv
  <2>. QED  BY <1>0, <2>1, <2>2 DEF TypeOK
<1>2. ASSUME NEW e \in End, EndBatch(e) PROVE TypeOK'
  BY <1>2 DEF TypeOK, EndBatch, Goto
<1>3. ASSUME NEW e \in End, DoKeepaliveTimeout(e) PROVE TypeOK'
  <2>1. open' \subseteq open /\ checked' \in [End -> 0 .. Interval]
    BY <1>0, <1>3 DEF TypeOK, DoKeepaliveTimeout, Close
  <2>. QED  BY <1>3, <2>1 DEF TypeOK, DoKeepaliveTimeout, Goto
<1>4. ASSUME NEW e \in End, DoSendKeepalive(e) PROVE TypeOK'
  <2>1. Queued(Svr, 1) \in Seq(0 .. Delay)
    BY QueuedFacts, EndFacts
  <2>2. pinged' \in 0 .. Interval
    BY <1>0, <1>4 DEF TypeOK, DoSendKeepalive
  <2>3. onWay' = [onWay EXCEPT ![Svr] = Queued(Svr, 1)] \/ onWay' = onWay
    BY <1>4 DEF DoSendKeepalive
  <2>4. onWay' \in [End -> Seq(0 .. Delay)]
    BY <2>1, <2>3 DEF TypeOK
  <2>. QED  BY <1>4, <2>2, <2>4 DEF TypeOK, DoSendKeepalive, Goto
<1>5. ASSUME NEW e \in End, PeerClosed(e) PROVE TypeOK'
  BY <1>5 DEF TypeOK, PeerClosed, Close
<1>6. ASSUME NEW e \in End, Freeze(e) PROVE TypeOK'
  BY <1>6 DEF TypeOK, Freeze
<1>7. CASE Tick
  <2>1. /\ silent' \in [End -> 0 .. MaxSilence]
        /\ checked' \in [End -> 0 .. Interval] /\ pinged' \in 0 .. Interval
    BY <1>0, <1>7 DEF TypeOK, Tick, Older
  <2>2. ASSUME NEW e \in End
        PROVE  [i \in DOMAIN onWay[e] |-> Older(onWay[e][i], Delay)] \in Seq(0 .. Delay)
    <3>1. /\ onWay[e] \in [1 .. Len(onWay[e]) -> 0 .. Delay] /\ Len(onWay[e]) \in Nat
          /\ DOMAIN onWay[e] = 1 .. Len(onWay[e])
      BY LenProperties DEF TypeOK
    <3>2. \A i \in 1 .. Len(onWay[e]) : Older(onWay[e][i], Delay) \in 0 .. Delay
      BY <1>0, <3>1 DEF Older
    <3>. QED  BY <3>1, <3>2
  <2>3. onWay' \in [End -> Seq(0 .. Delay)]
    BY <1>7, <2>2 DEF Tick
  <2>4. ran' = {} /\ UNCHANGED <<open, frozen, lost, pc>>
    BY <1>7 DEF Tick
  <2>. QED  BY <2>1, <2>3, <2>4 DEF TypeOK
<1>8. CASE UNCHANGED vars
  BY <1>8 DEF TypeOK, vars
<1>. QED  BY <1>1, <1>2, <1>3, <1>4, <1>5, <1>6, <1>7, <1>8 DEF Next

LEMMA InitType == Init => TypeOK
<1>. SUFFICES ASSUME Init PROVE TypeOK
  OBVIOUS
<1>1. /\ Interval \in Nat /\ Delay \in Nat /\ MaxSilence \in Nat
  BY PeriodFacts
<1>2. <<0>> \in Seq(0 .. Delay) /\ <<>> \in Seq(0 .. Delay)
  BY <1>1
<1>3. onWay \in [End -> Seq(0 .. Delay)]
  BY <1>2 DEF Init
<1>4. silent \in [End -> 0 .. MaxSilence] /\ checked \in [End -> 0 .. Interval]
  BY <1>1 DEF Init
<1>. QED  BY <1>3, <1>4 DEF Init, TypeOK

-----------------------------------------------------------------------------
(* A silent peer is closed in time.                                        *)

LEMMA NextSilence ==
    ASSUME TypeOK, SilenceInv, [Next]_vars
    PROVE  SilenceInv'
<1>0. /\ Interval \in Nat /\ Interval >= 1 /\ Timeout \in Nat
      /\ MaxSilence = Timeout + Interval + 2
  BY PeriodFacts
<1>. SUFFICES ASSUME NEW f \in End, f \in Live' PROVE Silence(f)'
  BY NextType DEF SilenceInv, Live, TypeOK
<1>. USE DEF Silence
<1>a. ASSUME f \in Live PROVE Silence(f) /\ silent[f] \in Nat /\ checked[f] \in 0 .. Interval
  BY <1>a, <1>0 DEF SilenceInv, TypeOK
<1>1. ASSUME NEW e \in End, Recv(e) PROVE Silence(f)'
  <2>1. silent' = [silent EXCEPT ![e] = 0] /\ UNCHANGED <<open, frozen, checked, pc, ran>>
    BY <1>1, Zenon DEF Recv
  <2>. QED  BY <1>0, <1>a, <2>1 DEF TypeOK, Live
<1>2. ASSUME NEW e \in End, EndBatch(e) PROVE Silence(f)'
  BY <1>a, <1>2 DEF TypeOK, Live, EndBatch, Goto
<1>3. ASSUME NEW e \in End, DoKeepaliveTimeout(e) PROVE Silence(f)'
  <2>1. f \in Live /\ frozen' = frozen /\ silent' = silent /\ ran' = ran
    BY <1>3 DEF DoKeepaliveTimeout, Close, Live
  <2>2. CASE f # e
    BY <1>a, <1>3, <2>1, <2>2 DEF TypeOK, DoKeepaliveTimeout, Goto
  <2>3. CASE f = e /\ checked[e] >= Interval
    <3>1. ~TimedOut(e)
      BY <1>3, <2>3 DEF DoKeepaliveTimeout, Close, Live
    <3>2. silent[e] <= Timeout
      BY <1>0, <1>a, <2>1, <2>3, <3>1 DEF TimedOut
    <3>3. checked'[e] = 0
      BY <1>3, <2>3 DEF TypeOK, DoKeepaliveTimeout
    <3>. QED  BY <1>0, <2>1, <2>3, <3>2, <3>3
  <2>4. CASE f = e /\ ~(checked[e] >= Interval)
    <3>1. checked' = checked
      BY <1>3, <2>4 DEF DoKeepaliveTimeout
    <3>. QED  BY <1>0, <1>a, <2>1, <2>4, <3>1
  <2>. QED  BY <2>2, <2>3, <2>4
<1>4. ASSUME NEW e \in End, DoSendKeepalive(e) PROVE Silence(f)'
  BY <1>a, <1>4 DEF TypeOK, Live, DoSendKeepalive, Goto, At
<1>5. ASSUME NEW e \in End, PeerClosed(e) PROVE Silence(f)'
  BY <1>a, <1>5 DEF Live, PeerClosed, Close
<1>6. ASSUME NEW e \in End, Freeze(e) PROVE Silence(f)'
  BY <1>a, <1>6 DEF Live, Freeze
<1>7. CASE Tick
  <2>1. /\ f \in Live /\ f \in ran /\ ran' = {} /\ pc' = pc
        /\ silent'[f] = Older(silent[f], MaxSilence)
        /\ checked'[f] = Older(checked[f], Interval)
    BY <1>7 DEF Tick, Live
  <2>2. silent[f] <= Timeout + checked[f] /\ (pc[f] = "ping" => checked[f] < Interval)
    BY <1>a, <2>1
  <2>3. silent'[f] <= silent[f] + 1
    BY <1>0, <1>a, <2>1 DEF Older
  <2>4. CASE checked[f] < Interval
    BY <1>0, <1>a, <2>1, <2>2, <2>3, <2>4 DEF Older
  <2>5. CASE checked[f] = Interval
    <3>1. silent'[f] \in Nat
      BY <1>0, <1>a, <2>1 DEF Older
    <3>. QED  BY <1>0, <1>a, <2>1, <2>2, <2>3, <2>5, <3>1 DEF Older
  <2>. QED  BY <1>0, <1>a, <2>1, <2>4, <2>5
<1>8. CASE UNCHANGED vars
  BY <1>a, <1>8 DEF Live, vars
<1>. QED  BY <1>1, <1>2, <1>3, <1>4, <1>5, <1>6, <1>7, <1>8 DEF Next

LEMMA SilenceInvEnds == TypeOK /\ SilenceInv => SilenceEnds
<1>. SUFFICES ASSUME TypeOK, SilenceInv, NEW e \in Live
              PROVE  silent[e] <= Timeout + Interval + 1
  BY DEF SilenceEnds
<1>1. silent[e] \in Nat /\ checked[e] \in 0 .. Interval
  BY PeriodFacts DEF TypeOK, Live
<1>. QED  BY <1>1, PeriodFacts DEF SilenceInv, Silence

-----------------------------------------------------------------------------
(* A peer that answers is kept.                                            *)

\* Nothing that is heard of an end is older than the timeout.
LEMMA NotTimedOut ==
    ASSUME NetworkAssumption, TypeOK, PingsInv, NEW e \in End
    PROVE  ~TimedOut(e)
<1>1. /\ Interval \in Nat /\ Delay \in Nat /\ Timeout \in Nat
      /\ Interval + 2 * Delay <= Timeout
  BY PeriodFacts DEF NetworkAssumption
<1>2. ASSUME NEW f \in End PROVE ~Empty(f) => Oldest(f) \in 0 .. Delay
  <2>1. Len(onWay[f]) \in Nat /\ onWay[f] \in [1 .. Len(onWay[f]) -> 0 .. Delay]
    BY LenProperties DEF TypeOK
  <2>. QED  BY <2>1 DEF Empty, Oldest
<1>3. /\ Client \in End /\ Svr \in End /\ e \in {Client, Svr}
      /\ pinged \in 0 .. Interval /\ silent[Client] \in Nat /\ silent[Svr] \in Nat
  BY EndFacts, PeriodFacts DEF TypeOK
<1>4. silent[Svr] <= Interval + Delay
  BY <1>1, <1>2, <1>3 DEF PingsInv
<1>5. silent[Client] <= Interval + 2 * Delay
  BY <1>1, <1>2, <1>3 DEF PingsInv
<1>. QED  BY <1>1, <1>3, <1>4, <1>5 DEF TimedOut

LEMMA NextPings ==
    ASSUME NetworkAssumption, TypeOK, PingsInv, [Next]_vars,
           open = End, frozen' = {}, ~lost'
    PROVE  open' = End /\ PingsInv'
<1>0. /\ Interval \in Nat /\ Interval >= 1 /\ Delay \in Nat /\ MaxSilence \in Nat
      /\ Client \in End /\ Svr \in End /\ End = {Client, Svr} /\ Client # Svr
      /\ Other(Client) = Svr /\ Other(Svr) = Client
  BY PeriodFacts, EndFacts
<1>a. \A f \in End : Len(onWay[f]) \in Nat /\ onWay[f] \in [1 .. Len(onWay[f]) -> 0 .. Delay]
  BY LenProperties DEF TypeOK
<1>b. \A f \in End : silent[f] \in Nat /\ (~Empty(f) => Oldest(f) \in 0 .. Delay)
  BY <1>0, <1>a, SMTT(30) DEF TypeOK, Empty, Oldest
<1>c. pinged \in 0 .. Interval
  BY DEF TypeOK
<1>1. ASSUME NEW e \in End, Recv(e) PROVE open' = End /\ PingsInv'
  <2>1. silent' = [silent EXCEPT ![e] = 0] /\ UNCHANGED <<open, frozen, pinged, ran>>
    BY <1>1, Zenon DEF Recv
  <2>2. PICK n \in 1 .. Len(onWay[e]), answers \in Nat :
              /\ e = Svr /\ ~lost' => answers = n
              /\ e = Client => answers = 0
              /\ onWay'[e] \in Seq(0 .. Delay)
              /\ onWay'[Other(e)] = Queued(Other(e), answers)
    BY <1>1, RecvFacts
  <2>3. Len(onWay'[e]) \in Nat /\ onWay'[e] \in [1 .. Len(onWay'[e]) -> 0 .. Delay]
    BY <2>2, LenProperties
  <2>4. silent'[e] = 0 /\ silent'[Other(e)] = silent[Other(e)]
    BY <1>0, <2>1 DEF TypeOK
  <2>5. ~Empty(e)' => Oldest(e)' \in 0 .. Delay
    BY <2>3 DEF Empty, Oldest
  <2>6. CASE e = Client
    <3>1. onWay'[Svr] = onWay[Svr]
      BY <1>0, <2>2, <2>6, QueuedNothing
    <3>2. Empty(Svr)' = Empty(Svr) /\ Oldest(Svr)' = Oldest(Svr)
      BY <3>1 DEF Empty, Oldest
    <3>3. silent'[Client] = 0 /\ silent'[Svr] = silent[Svr]
      BY <1>0, <2>4, <2>6
    <3>. QED  BY <1>0, <1>b, <1>c, <2>1, <2>5, <2>6, <3>2, <3>3 DEF PingsInv
  <2>7. CASE e = Svr
    <3>1. answers > 0 /\ Client \notin frozen /\ onWay'[Client] = Queued(Client, answers)
      BY <1>0, <1>a, <2>1, <2>2, <2>7
    <3>2. Client \in End \ frozen /\ answers \in Nat \ {0}
      BY <1>0, <3>1
    <3>3. ~Empty(Client)' /\ Oldest(Client)' = IF Empty(Client) THEN 0 ELSE Oldest(Client)
      BY <3>1, <3>2, QueuedOldest
    <3>4. silent'[Svr] = 0 /\ silent'[Client] = silent[Client] /\ ~Empty(Svr)
      BY <1>0, <1>a, <2>2, <2>4, <2>7 DEF Empty
    <3>. QED  BY <1>0, <1>b, <1>c, <2>1, <2>5, <2>7, <3>3, <3>4 DEF PingsInv
  <2>. QED  BY <1>0, <2>6, <2>7
<1>2. ASSUME NEW e \in End, EndBatch(e) PROVE open' = End /\ PingsInv'
  BY <1>2 DEF EndBatch, PingsInv, Empty, Oldest
<1>3. ASSUME NEW e \in End, DoKeepaliveTimeout(e) PROVE open' = End /\ PingsInv'
  BY <1>3, NotTimedOut DEF DoKeepaliveTimeout, PingsInv, Empty, Oldest
<1>4. ASSUME NEW e \in End, DoSendKeepalive(e) PROVE open' = End /\ PingsInv'
  <2>1. UNCHANGED <<open, frozen, silent>> /\ ran' = ran \cup {e}
    BY <1>4 DEF DoSendKeepalive
  <2>2. CASE e = Client /\ pinged >= Interval
    <3>1. pinged' = 0 /\ onWay' = [onWay EXCEPT ![Svr] = Queued(Svr, 1)]
      BY <1>4, <2>2 DEF DoSendKeepalive
    <3>2. onWay'[Svr] = Queued(Svr, 1) /\ onWay'[Client] = onWay[Client]
      BY <1>0, <3>1 DEF TypeOK
    <3>3. Svr \in End \ frozen /\ 1 \in Nat \ {0}
      BY <1>0, <2>1
    <3>4. ~Empty(Svr)' /\ Oldest(Svr)' = IF Empty(Svr) THEN 0 ELSE Oldest(Svr)
      BY <3>2, <3>3, QueuedOldest
    <3>5. Empty(Client)' = Empty(Client) /\ Oldest(Client)' = Oldest(Client)
      BY <3>2 DEF Empty, Oldest
    <3>. QED  BY <1>0, <1>b, <1>c, <2>1, <3>1, <3>4, <3>5 DEF PingsInv
  <2>3. CASE ~(e = Client /\ pinged >= Interval)
    <3>1. UNCHANGED <<pinged, onWay>>
      BY <1>4, <2>3 DEF DoSendKeepalive
    <3>2. pinged = Interval => e # Client
      BY <1>0, <2>3
    <3>. QED  BY <2>1, <3>1, <3>2 DEF PingsInv, Empty, Oldest
  <2>. QED  BY <2>2, <2>3
<1>5. ASSUME NEW e \in End, PeerClosed(e) PROVE FALSE
  BY <1>5, EndFacts DEF PeerClosed
<1>6. ASSUME NEW e \in End, Freeze(e) PROVE FALSE
  BY <1>6 DEF Freeze
<1>7. CASE Tick
  <2>1. Live = End /\ Client \in ran /\ ran' = {} /\ open' = open
    BY <1>0, <1>7 DEF Tick, Live
  <2>2. pinged < Interval /\ pinged' = pinged + 1
    BY <1>0, <1>7, <1>c, <2>1 DEF Tick, Older, PingsInv
  <2>3. \A f \in End : silent'[f] <= silent[f] + 1
    BY <1>0, <1>7, <1>b DEF Tick, Older
  <2>4. \A f \in End : Empty(f)' = Empty(f) /\ (~Empty(f) => Oldest(f)' = Oldest(f) + 1)
    BY <1>7, <2>1, TickFacts DEF Empty, Oldest
  <2>5. \A f \in End : silent'[f] \in Nat
    BY <1>0, <1>7, <1>b DEF Tick, Older
  <2>. QED  BY <1>0, <1>b, <1>c, <2>1, <2>2, <2>3, <2>4, <2>5 DEF PingsInv
<1>8. CASE UNCHANGED vars
  BY <1>8 DEF vars, PingsInv, Empty, Oldest
<1>. QED  BY <1>1, <1>2, <1>3, <1>4, <1>5, <1>6, <1>7, <1>8 DEF Next

LEMMA NextKept ==
    ASSUME TypeOK, KeptInv, [Next]_vars
    PROVE  KeptInv'
<1>1. (frozen' = {} => frozen = {}) /\ (lost => lost')
  <2>1. ASSUME NEW e \in End, Recv(e) PROVE frozen' = frozen /\ (lost => lost')
    <3>1. frozen' = frozen
      BY <2>1, Zenon DEF Recv
    <3>. QED  BY <2>1, <3>1, RecvFacts
  <2>2. ASSUME NEW e \in End, Freeze(e) PROVE frozen' # {} /\ lost' = lost
    BY <2>2 DEF Freeze
  <2>3. ASSUME NEW e \in End,
               EndBatch(e) \/ DoKeepaliveTimeout(e) \/ DoSendKeepalive(e) \/ PeerClosed(e)
        PROVE  frozen' = frozen /\ lost' = lost
    BY <2>3 DEF EndBatch, DoKeepaliveTimeout, DoSendKeepalive, PeerClosed
  <2>4. ASSUME Tick \/ UNCHANGED vars PROVE frozen' = frozen /\ lost' = lost
    BY <2>4 DEF Tick, vars
  <2>. QED  BY <2>1, <2>2, <2>3, <2>4 DEF Next
<1>. QED  BY <1>1, NextPings DEF KeptInv, NetworkAssumption, Interval

-----------------------------------------------------------------------------
(* The turns of the two ends.                                              *)

\* What an end is registered for at each place of its loop, and why.
RegInv(e) ==
    /\ loop[e] = "recv" => reg[e] = "in"
    /\ loop[e] = "send" => reg[e] = "out"
    /\ loop[e] # "send" /\ reg[e] = "out" => bak[e] > 0
    /\ loop[e] = "wait" /\ bak[e] > 0 => reg[e] = "out"

\* An end that waits for what has happened is on the ready list.
EdgeKept(e) ==
    /\ loop[e] \in {"wait", "switch", "arm"}
    /\ (reg[e] = "in" /\ Turns!Readable(e)) \/ (reg[e] = "out" /\ Turns!Writable(e))
    => e \in ready

\* Messages on their way to the worker of the server, and all there are.
Asking == cur[Turns!Client] + bak[Turns!Client] + onWire[Turns!Svr]
Underway == Asking + recvq + cur[Turns!Svr] + bak[Turns!Svr] + onWire[Turns!Client]

\* An end that has read nothing for half a period has a ping to come, or its
\* answer.
PingInv ==
    linked = Turns!End => /\ idle[Turns!Svr] > 0 => Asking > 0
                          /\ idle[Turns!Client] > 0 => Underway > 0

\* Both ends wait for room, and neither will ever read again.
Blocked ==
    \A e \in Turns!End : /\ reg[e] = "out" /\ bak[e] > 0 /\ ~Turns!Writable(e)
                         /\ loop[e] \in {"wait", "switch", "arm"}

\* Beyond what was asked there is one ping, but for those sent since the ends
\* block each other.
CountInv ==
    \/ Underway <= asked + 1
    \/ Blocked /\ \A e \in Turns!End : Underway <= asked + 1 + idle[e]

Ends ==
    /\ linked = Turns!End \/ linked = {}
    /\ linked = {} => stalled /\ Underway <= asked + 3
    /\ linked = Turns!End => \A e \in Turns!End : idle[e] <= 2

TurnTypes ==
    /\ asked \in 0 .. MaxAsked
    /\ cur \in [Turns!End -> Nat] /\ bak \in [Turns!End -> Nat]
    /\ onWire \in [Turns!End -> 0 .. Cap] /\ recvq \in Nat
    /\ reg \in [Turns!End -> {"in", "out"}] /\ ready \subseteq Turns!End
    /\ loop \in [Turns!End -> {"wait", "recv", "send", "switch", "arm"}]
    /\ idle \in [Turns!End -> 0 .. 3] /\ linked \subseteq Turns!End /\ stalled \in BOOLEAN

TurnInv ==
    /\ TurnTypes /\ \A e \in Turns!End : RegInv(e) /\ EdgeKept(e)
    /\ PingInv /\ Ends /\ (linked = Turns!End => CountInv)

LEMMA TurnEndFacts ==
    /\ Turns!Client \in Turns!End /\ Turns!Svr \in Turns!End /\ Turns!Client # Turns!Svr
    /\ Turns!Other(Turns!Client) = Turns!Svr /\ Turns!Other(Turns!Svr) = Turns!Client
    /\ \A e \in Turns!End : e = Turns!Client \/ e = Turns!Svr
    /\ \A e \in Turns!End : Turns!Other(e) \in Turns!End /\ Turns!Other(e) # e /\ Turns!Other(Turns!Other(e)) = e
BY DEF Turns!End, Turns!Client, Turns!Svr, Turns!Other

\* Two ends at rest that do not block each other have nothing under way.
LEMMA RestFacts ==
    ASSUME Turns!ConstantsAssumption, TurnTypes, \A e \in Turns!End : RegInv(e) /\ EdgeKept(e), Turns!Quiet
    PROVE  Blocked \/ (~Turns!MutualBlock /\ Underway = 0 /\ \A e \in Turns!End : bak[e] = 0 /\ onWire[e] = 0)
<1>1. \A e \in Turns!End : /\ loop[e] = "wait" /\ e \notin ready /\ cur[e] \in Nat /\ cur[e] = 0
                           /\ bak[e] \in Nat /\ ~(bak[e] > 0 /\ Turns!Writable(e))
                           /\ onWire[e] \in 0 .. Cap /\ reg[e] \in {"in", "out"}
  BY DEF Turns!Quiet, Turns!AtRest, Turns!Busy, TurnTypes
<1>2. ASSUME NEW e \in Turns!End, bak[e] = 0
      PROVE  onWire[e] = 0
  BY <1>1, <1>2 DEF RegInv, EdgeKept, Turns!Readable
<1>3. ASSUME NEW e \in Turns!End, onWire[Turns!Other(e)] = 0
      PROVE  bak[e] = 0
  BY <1>1, <1>3 DEF Turns!Writable, Turns!ConstantsAssumption
<1>4. CASE \E e \in Turns!End : bak[e] = 0
  <2>1. \A e \in Turns!End : bak[e] = 0 /\ onWire[e] = 0
    BY <1>2, <1>3, <1>4, TurnEndFacts
  <2>2. Underway = 0
    BY <1>1, <2>1, TurnEndFacts DEF Underway, Asking, Turns!Quiet
  <2>. QED  BY <1>1, <2>1, <2>2, TurnEndFacts DEF Turns!MutualBlock
<1>5. CASE \A e \in Turns!End : bak[e] # 0
  BY <1>1, <1>5 DEF Blocked, RegInv
<1>. QED  BY <1>4, <1>5

\* What a step of the loop of an end does to the counts.
LEMMA LoopCounts ==
    ASSUME Turns!ConstantsAssumption, TurnTypes, NEW e \in Turns!End, Turns!LoopStep(e)
    PROVE  /\ UNCHANGED <<asked, linked, stalled>> /\ e \in linked
           /\ Underway' = Underway \/ (Turns!Recv(e) /\ e = Turns!Client /\ Underway' = Underway - 1)
           /\ Asking' = Asking \/ (Turns!Recv(e) /\ e = Turns!Svr /\ Asking' = Asking - 1)
           /\ idle' = idle \/ (Turns!Recv(e) /\ idle' = [idle EXCEPT ![e] = 0])
           /\ cur' \in [Turns!End -> Nat] /\ bak' \in [Turns!End -> Nat] /\ recvq' \in Nat
           /\ onWire' \in [Turns!End -> 0 .. Cap]
<1>. USE TurnEndFacts
<1>0. /\ cur \in [Turns!End -> Nat] /\ bak \in [Turns!End -> Nat] /\ recvq \in Nat
      /\ onWire \in [Turns!End -> 0 .. Cap] /\ Cap \in Nat
  BY DEF TurnTypes, Turns!ConstantsAssumption
<1>1. CASE Turns!EpollWait(e) \/ Turns!RecvDone(e) \/ Turns!SendDone(e) \/ Turns!ArmOutput(e)
  <2>1. UNCHANGED <<asked, Turns!maps, onWire, recvq, idle, linked, stalled>> /\ e \in linked
    BY <1>1 DEF Turns!EpollWait, Turns!RecvDone, Turns!SendDone, Turns!ArmOutput, Turns!At
  <2>. QED  BY <1>0, <2>1 DEF Underway, Asking, Turns!maps
<1>2. CASE Turns!Recv(e)
  <2>1. /\ UNCHANGED <<asked, cur, bak, linked, stalled>> /\ e \in linked /\ onWire[e] > 0
        /\ onWire' = [onWire EXCEPT ![e] = @ - 1] /\ idle' = [idle EXCEPT ![e] = 0]
        /\ recvq' = IF e = Turns!Svr THEN recvq + 1 ELSE recvq
    BY <1>2 DEF Turns!Recv, Turns!At, Turns!maps, Turns!Readable
  <2>2. onWire' \in [Turns!End -> 0 .. Cap] /\ recvq' \in Nat
    BY <1>0, <2>1
  <2>3. CASE e = Turns!Client
    BY <1>0, <1>2, <2>1, <2>2, <2>3 DEF Underway, Asking
  <2>4. CASE e = Turns!Svr
    BY <1>0, <1>2, <2>1, <2>2, <2>4 DEF Underway, Asking
  <2>. QED  BY <2>3, <2>4
<1>3. CASE Turns!Send(e)
  <2>1. /\ UNCHANGED <<asked, cur, recvq, idle, linked, stalled>> /\ e \in linked
        /\ onWire[Turns!Other(e)] < Cap /\ bak[e] > 0 /\ bak' = [bak EXCEPT ![e] = @ - 1]
        /\ onWire' = [onWire EXCEPT ![Turns!Other(e)] = @ + 1]
    BY <1>3 DEF Turns!Send, Turns!At, Turns!Writable
  <2>2. onWire' \in [Turns!End -> 0 .. Cap] /\ bak' \in [Turns!End -> Nat]
    BY <1>0, <2>1
  <2>3. CASE e = Turns!Client
    BY <1>0, <2>1, <2>2, <2>3 DEF Underway, Asking
  <2>4. CASE e = Turns!Svr
    BY <1>0, <2>1, <2>2, <2>4 DEF Underway, Asking
  <2>. QED  BY <2>3, <2>4
<1>4. CASE Turns!SwitchSendMap(e)
  <2>1. UNCHANGED <<asked, onWire, recvq, idle, linked, stalled>> /\ e \in linked
    BY <1>4 DEF Turns!SwitchSendMap, Turns!At
  <2>2. \/ cur' = cur /\ bak' = bak
        \/ bak' = [bak EXCEPT ![e] = @ + cur[e]] /\ cur' = [cur EXCEPT ![e] = 0]
    BY <1>4 DEF Turns!SwitchSendMap, Turns!maps
  <2>3. bak' \in [Turns!End -> Nat] /\ cur' \in [Turns!End -> Nat]
    BY <1>0, <2>2
  <2>4. CASE e = Turns!Client
    BY <1>0, <2>1, <2>2, <2>3, <2>4 DEF Underway, Asking
  <2>5. CASE e = Turns!Svr
    BY <1>0, <2>1, <2>2, <2>3, <2>5 DEF Underway, Asking
  <2>. QED  BY <2>4, <2>5
<1>. QED  BY <1>1, <1>2, <1>3, <1>4 DEF Turns!LoopStep

\* The loop never waits for an event that has been told, and asks for the next.
LEMMA LoopRegistered ==
    ASSUME Turns!ConstantsAssumption, TurnTypes, \A d \in Turns!End : RegInv(d) /\ EdgeKept(d),
           NEW e \in Turns!End, Turns!LoopStep(e)
    PROVE  /\ TurnTypes'
           /\ \A d \in Turns!End : RegInv(d)' /\ EdgeKept(d)'
           /\ Blocked => Blocked' /\ ~Turns!Recv(e)
<1>. USE TurnEndFacts
<1>0. /\ bak \in [Turns!End -> Nat] /\ cur \in [Turns!End -> Nat] /\ onWire \in [Turns!End -> 0 .. Cap] /\ Cap \in Nat \ {0}
      /\ reg \in [Turns!End -> {"in", "out"}] /\ ready \subseteq Turns!End
      /\ loop \in [Turns!End -> {"wait", "recv", "send", "switch", "arm"}]
      /\ idle \in [Turns!End -> 0 .. 3]
  BY DEF TurnTypes, Turns!ConstantsAssumption
<1>1. /\ bak' \in [Turns!End -> Nat] /\ onWire' \in [Turns!End -> 0 .. Cap] /\ idle' \in [Turns!End -> 0 .. 3]
      /\ UNCHANGED <<asked, linked, stalled>>
      /\ cur' \in [Turns!End -> Nat] /\ recvq' \in Nat
  BY <1>0, LoopCounts
<1>. DEFINE Goal == /\ reg' \in [Turns!End -> {"in", "out"}] /\ ready' \subseteq Turns!End
                    /\ loop' \in [Turns!End -> {"wait", "recv", "send", "switch", "arm"}]
                    /\ \A d \in Turns!End : RegInv(d)' /\ EdgeKept(d)'
                    /\ Blocked => Blocked' /\ ~Turns!Recv(e)
<1>. SUFFICES Goal
  BY <1>1 DEF TurnTypes
<1>2. CASE Turns!EpollWait(e)
  <2>1. PICK next \in {"recv", "send", "switch"} :
            /\ loop' = [loop EXCEPT ![e] = next] /\ loop[e] = "wait"
            /\ next = "recv" => reg[e] = "in"
            /\ next = "send" => reg[e] = "out" /\ Turns!Writable(e)
            /\ next = "switch" => ~(e \in ready /\ reg[e] = "in" /\ Turns!Readable(e))
                                  /\ ~(e \in ready /\ reg[e] = "out" /\ Turns!Writable(e))
    BY <1>2 DEF Turns!EpollWait, Turns!At, Turns!Goto
  <2>2. UNCHANGED <<bak, onWire, reg>> /\ ready' = ready \ {e}
    BY <1>2 DEF Turns!EpollWait, Turns!maps
  <2>3. ~Turns!Recv(e)
    BY <2>1 DEF Turns!Recv, Turns!At
  <2>4. reg' \in [Turns!End -> {"in", "out"}] /\ ready' \subseteq Turns!End
        /\ loop' \in [Turns!End -> {"wait", "recv", "send", "switch", "arm"}]
    BY <1>0, <2>1, <2>2
  <2>5. \A d \in Turns!End : RegInv(d)' /\ EdgeKept(d)'
    BY <1>0, <2>1, <2>2 DEF RegInv, EdgeKept, Turns!Readable, Turns!Writable
  <2>6. Blocked => Blocked'
    BY <1>0, <2>1, <2>2 DEF Blocked, Turns!Writable
  <2>. QED  BY <2>3, <2>4, <2>5, <2>6
<1>3. CASE Turns!Recv(e)
  <2>1. /\ loop[e] = "recv" /\ UNCHANGED <<bak, reg, loop>> /\ onWire' = [onWire EXCEPT ![e] = @ - 1]
        /\ ready' = IF reg[Turns!Other(e)] = "out" THEN ready \cup {Turns!Other(e)} ELSE ready
    BY <1>3 DEF Turns!Recv, Turns!At, Turns!maps, Turns!Woken
  <2>2. ~Blocked
    BY <2>1 DEF Blocked
  <2>3. \A d \in Turns!End : RegInv(d)'
    BY <1>0, <2>1 DEF RegInv
  <2>4. EdgeKept(e)'
    BY <1>0, <2>1 DEF EdgeKept
  <2>5. EdgeKept(Turns!Other(e))'
    BY <1>0, <2>1 DEF EdgeKept, Turns!Readable, Turns!Writable
  <2>. QED  BY <1>0, <2>1, <2>2, <2>3, <2>4, <2>5
<1>4. CASE Turns!RecvDone(e)
  <2>1. /\ loop[e] = "recv" /\ ~Turns!Readable(e) /\ loop' = [loop EXCEPT ![e] = "switch"]
        /\ UNCHANGED <<bak, onWire, reg, ready>>
    BY <1>4 DEF Turns!RecvDone, Turns!At, Turns!Goto, Turns!maps, Turns!epoll
  <2>2. ~Blocked
    BY <2>1 DEF Blocked
  <2>3. \A d \in Turns!End : RegInv(d)' /\ EdgeKept(d)'
    BY <1>0, <2>1 DEF RegInv, EdgeKept, Turns!Readable, Turns!Writable
  <2>. QED  BY <1>0, <2>1, <2>2, <2>3
<1>5. CASE Turns!Send(e)
  <2>1. /\ loop[e] = "send" /\ UNCHANGED <<reg, loop>> /\ bak' = [bak EXCEPT ![e] = @ - 1]
        /\ onWire' = [onWire EXCEPT ![Turns!Other(e)] = @ + 1]
        /\ ready' = IF reg[Turns!Other(e)] = "in" THEN ready \cup {Turns!Other(e)} ELSE ready
    BY <1>5 DEF Turns!Send, Turns!At, Turns!Woken
  <2>2. ~Blocked /\ ~Turns!Recv(e)
    BY <2>1 DEF Blocked, Turns!Recv, Turns!At
  <2>3. \A d \in Turns!End : RegInv(d)'
    BY <1>0, <2>1 DEF RegInv
  <2>4. EdgeKept(e)'
    BY <1>0, <2>1 DEF EdgeKept
  <2>5. EdgeKept(Turns!Other(e))'
    BY <1>0, <2>1 DEF EdgeKept, Turns!Readable, Turns!Writable
  <2>. QED  BY <1>0, <2>1, <2>2, <2>3, <2>4, <2>5
<1>6. CASE Turns!SendDone(e)
  <2>1. /\ loop[e] = "send" /\ UNCHANGED <<bak, onWire>> /\ loop' = [loop EXCEPT ![e] = "switch"]
        /\ reg' = [reg EXCEPT ![e] = "in"]
        /\ ready' = IF Turns!Readable(e) THEN ready \cup {e} ELSE ready \ {e}
    BY <1>6 DEF Turns!SendDone, Turns!At, Turns!Goto, Turns!maps, Turns!Register
  <2>2. ~Blocked /\ ~Turns!Recv(e)
    BY <2>1 DEF Blocked, Turns!Recv, Turns!At
  <2>3. \A d \in Turns!End : RegInv(d)' /\ EdgeKept(d)'
    BY <1>0, <2>1 DEF RegInv, EdgeKept, Turns!Readable, Turns!Writable
  <2>. QED  BY <1>0, <2>1, <2>2, <2>3
<1>7. CASE Turns!SwitchSendMap(e)
  <2>1. /\ loop[e] = "switch" /\ UNCHANGED <<onWire, reg, ready>> /\ loop' = [loop EXCEPT ![e] = "arm"]
        /\ \A d \in Turns!End : bak'[d] >= bak[d]
        /\ \A d \in Turns!End : d # e => bak'[d] = bak[d]
    BY <1>0, <1>7 DEF Turns!SwitchSendMap, Turns!At, Turns!Goto, Turns!maps, Turns!epoll
  <2>2. ~Turns!Recv(e)
    BY <2>1 DEF Turns!Recv, Turns!At
  <2>3. \A d \in Turns!End : RegInv(d)' /\ EdgeKept(d)'
    BY <1>0, <1>1, <2>1 DEF RegInv, EdgeKept, Turns!Readable, Turns!Writable
  <2>4. Blocked => Blocked'
    BY <1>0, <1>1, <2>1 DEF Blocked, Turns!Writable
  <2>. QED  BY <1>0, <2>1, <2>2, <2>3, <2>4
<1>8. CASE Turns!ArmOutput(e)
  <2>1. /\ loop[e] = "arm" /\ UNCHANGED <<bak, onWire>> /\ loop' = [loop EXCEPT ![e] = "wait"]
        /\ \/ /\ bak[e] > 0 /\ reg' = [reg EXCEPT ![e] = "out"]
              /\ ready' = IF Turns!Writable(e) THEN ready \cup {e} ELSE ready \ {e}
           \/ ~(bak[e] > 0) /\ UNCHANGED <<reg, ready>>
    BY <1>8 DEF Turns!ArmOutput, Turns!At, Turns!Goto, Turns!maps, Turns!epoll, Turns!Register
  <2>2. ~Turns!Recv(e)
    BY <2>1 DEF Turns!Recv, Turns!At
  <2>3. \A d \in Turns!End : RegInv(d)' /\ EdgeKept(d)'
    BY <1>0, <2>1 DEF RegInv, EdgeKept, Turns!Readable, Turns!Writable
  <2>4. Blocked => Blocked'
    BY <1>0, <2>1 DEF Blocked, Turns!Writable
  <2>. QED  BY <1>0, <2>1, <2>2, <2>3, <2>4
<1>. QED  BY <1>2, <1>3, <1>4, <1>5, <1>6, <1>7, <1>8 DEF Turns!LoopStep

\* A step of a loop: what was promised stays.
LEMMA LoopTurnInv ==
    ASSUME Turns!ConstantsAssumption, TurnInv, NEW e \in Turns!End, Turns!LoopStep(e)
    PROVE  TurnInv'
<1>. USE TurnEndFacts
<1>1. /\ TurnTypes' /\ \A d \in Turns!End : RegInv(d)' /\ EdgeKept(d)'
      /\ Blocked => Blocked' /\ ~Turns!Recv(e)
  BY LoopRegistered DEF TurnInv
<1>2. /\ UNCHANGED <<asked, linked, stalled>> /\ e \in linked
      /\ Underway' = Underway \/ (Turns!Recv(e) /\ e = Turns!Client /\ Underway' = Underway - 1)
      /\ Asking' = Asking \/ (Turns!Recv(e) /\ e = Turns!Svr /\ Asking' = Asking - 1)
      /\ idle' = idle \/ (Turns!Recv(e) /\ idle' = [idle EXCEPT ![e] = 0])
  BY LoopCounts DEF TurnInv
<1>3. /\ Underway \in Nat /\ Asking \in Nat /\ Underway' \in Nat /\ asked \in Nat
      /\ idle \in [Turns!End -> 0 .. 3]
  BY <1>1 DEF TurnInv, TurnTypes, Underway, Asking
<1>4. linked = Turns!End /\ (\A d \in Turns!End : idle[d] <= 2) /\ PingInv /\ CountInv
  BY <1>2 DEF TurnInv, Ends
<1>5. \A d \in Turns!End : idle'[d] <= idle[d]
  BY <1>2, <1>3
<1>6. Ends'
  BY <1>2, <1>3, <1>4, <1>5 DEF Ends
<1>7. PingInv'
  <2>1. CASE idle' = idle
    <3>1. CASE ~Turns!Recv(e)
      BY <1>2, <1>4, <2>1, <3>1 DEF PingInv
    <3>2. CASE Turns!Recv(e)
      <4>1. idle'[e] = 0
        BY <1>3, <3>2 DEF Turns!Recv
      <4>. QED  BY <1>2, <1>3, <1>4, <2>1, <3>2, <4>1 DEF PingInv
    <3>. QED  BY <3>1, <3>2
  <2>2. CASE Turns!Recv(e) /\ idle' = [idle EXCEPT ![e] = 0]
    BY <1>2, <1>3, <1>4, <2>2 DEF PingInv
  <2>. QED  BY <1>2, <2>1, <2>2
<1>8. CountInv'
  <2>1. CASE ~Turns!Recv(e)
    BY <1>1, <1>2, <1>3, <1>4, <2>1 DEF CountInv
  <2>2. CASE Turns!Recv(e)
    BY <1>1, <1>2, <1>3, <1>4, <2>2 DEF CountInv
  <2>. QED  BY <2>1, <2>2
<1>. QED  BY <1>1, <1>6, <1>7, <1>8 DEF TurnInv

LEMMA EquallyFar ==
    ASSUME NEW u \in Nat, NEW v \in Nat, NEW a \in Nat, NEW b \in Nat, NEW n \in Nat,
           v - b = u - a, u <= a + n
    PROVE  v <= b + n
OBVIOUS

\* The applications change the counts only.
LEMMA ApplicationTurnInv ==
    ASSUME Turns!ConstantsAssumption, TurnInv, Turns!Ask \/ Turns!Answer
    PROVE  TurnInv'
<1>. USE TurnEndFacts
<1>0. /\ cur \in [Turns!End -> Nat] /\ bak \in [Turns!End -> Nat] /\ onWire \in [Turns!End -> 0 .. Cap]
      /\ recvq \in Nat /\ asked \in Nat /\ idle \in [Turns!End -> 0 .. 3] /\ Cap \in Nat
      /\ asked <= MaxAsked /\ MaxAsked \in Nat
  BY DEF TurnInv, TurnTypes, Turns!ConstantsAssumption
<1>1. UNCHANGED <<bak, onWire, reg, ready, loop, idle, linked, stalled>>
  BY DEF Turns!Ask, Turns!Answer, Turns!epoll
<1>2. \/ /\ Turns!Client \in linked /\ asked' = asked + 1 /\ asked' <= MaxAsked /\ recvq' = recvq
         /\ cur' = [cur EXCEPT ![Turns!Client] = @ + 1]
      \/ /\ Turns!Svr \in linked /\ asked' = asked /\ recvq > 0 /\ recvq' = recvq - 1
         /\ cur' = [cur EXCEPT ![Turns!Svr] = @ + 1]
  BY <1>0 DEF Turns!Ask, Turns!Answer
<1>3. cur' \in [Turns!End -> Nat] /\ recvq' \in Nat /\ asked' \in 0 .. MaxAsked
  BY <1>0, <1>2
<1>4. TurnTypes'
  BY <1>1, <1>3 DEF TurnInv, TurnTypes
<1>5. \A d \in Turns!End : RegInv(d)' /\ EdgeKept(d)'
  BY <1>1 DEF TurnInv, RegInv, EdgeKept, Turns!Readable, Turns!Writable
<1>6. linked = Turns!End /\ (\A d \in Turns!End : idle[d] <= 2) /\ PingInv /\ CountInv
  BY <1>2 DEF TurnInv, Ends
<1>7. Asking' >= Asking /\ Underway' >= Underway /\ Underway' - asked' = Underway - asked
      /\ Asking \in Nat /\ Underway \in Nat /\ Asking' \in Nat /\ Underway' \in Nat
  BY <1>0, <1>1, <1>2, <1>3 DEF Asking, Underway
<1>8. Ends'
  BY <1>1, <1>6 DEF Ends
<1>9. PingInv'
  BY <1>1, <1>6, <1>7 DEF PingInv
<1>10. CountInv'
  <2>1. Blocked' <=> Blocked
    BY <1>1 DEF Blocked, Turns!Writable
  <2>0. asked' \in Nat
    BY <1>0, <1>3
  <2>2. ASSUME NEW n \in Nat, Underway <= asked + n PROVE Underway' <= asked' + n
    <3>1. Underway' - asked' = Underway - asked
      BY <1>7
    <3>2. Underway \in Nat /\ Underway' \in Nat /\ asked \in Nat
      BY <1>0, <1>7
    <3>. QED  BY <2>0, <2>2, <3>1, <3>2, EquallyFar
  <2>3. CASE Underway <= asked + 1
    BY <2>2, <2>3 DEF CountInv
  <2>4. CASE Blocked /\ \A d \in Turns!End : Underway <= asked + 1 + idle[d]
    <3>1. \A d \in Turns!End : 1 + idle[d] \in Nat /\ asked + 1 + idle[d] = asked + (1 + idle[d])
                         /\ asked' + 1 + idle[d] = asked' + (1 + idle[d])
      BY <1>0, <2>0
    <3>2. \A d \in Turns!End : Underway' <= asked' + 1 + idle'[d]
      BY <1>1, <2>2, <2>4, <3>1
    <3>. QED  BY <2>1, <2>4, <3>2 DEF CountInv
  <2>. QED  BY <1>6, <2>3, <2>4 DEF CountInv
<1>. QED  BY <1>4, <1>5, <1>8, <1>9, <1>10 DEF TurnInv

\* Half a period later there is one more ping, or the link is closed, and then
\* both ends had stopped.
LEMMA BeatTurnInv ==
    ASSUME Turns!ConstantsAssumption, TurnInv, Turns!Beat
    PROVE  TurnInv'
<1>. USE TurnEndFacts
<1>0. /\ cur \in [Turns!End -> Nat] /\ bak \in [Turns!End -> Nat] /\ onWire \in [Turns!End -> 0 .. Cap]
      /\ recvq \in Nat /\ asked \in Nat /\ idle \in [Turns!End -> 0 .. 3] /\ Cap \in Nat
  BY DEF TurnInv, TurnTypes, Turns!ConstantsAssumption
<1>1. /\ UNCHANGED <<asked, bak, onWire, recvq, reg, ready, loop>> /\ linked = Turns!End
      /\ idle' = [d \in Turns!End |-> idle[d] + 1]
  BY DEF Turns!Beat, Turns!epoll
<1>2. (\A d \in Turns!End : idle[d] <= 2) /\ PingInv /\ CountInv /\ TurnTypes
      /\ \A d \in Turns!End : RegInv(d) /\ EdgeKept(d)
  BY <1>1 DEF TurnInv, Ends
<1>3. Blocked \/ (~Turns!MutualBlock /\ Underway = 0)
  BY <1>2, RestFacts DEF Turns!Beat
<1>4. \A d \in Turns!End : RegInv(d)' /\ EdgeKept(d)'
  BY <1>1, <1>2 DEF RegInv, EdgeKept, Turns!Readable, Turns!Writable
<1>5. Blocked' <=> Blocked
  BY <1>1 DEF Blocked, Turns!Writable
<1>6. /\ Asking \in Nat /\ Underway \in Nat /\ Underway >= Asking
      /\ idle' \in [Turns!End -> 0 .. 3]
  BY <1>0, <1>1, <1>2 DEF Asking, Underway
<1>7. CASE \E d \in Turns!End : idle[d] = 2
  <2>1. linked' = {} /\ stalled' = Turns!MutualBlock /\ cur' = cur
    BY <1>7 DEF Turns!Beat
  <2>2. Underway > 0
    BY <1>1, <1>2, <1>6, <1>7 DEF PingInv
  <2>3. Blocked /\ Turns!MutualBlock
    BY <1>3, <1>6, <2>2 DEF Blocked, Turns!MutualBlock
  <2>4. Underway' = Underway /\ Underway <= asked + 3
    BY <1>0, <1>1, <1>2, <1>6, <1>7, <2>1 DEF CountInv, Underway, Asking
  <2>5. TurnTypes'
    BY <1>1, <1>2, <1>6, <2>1, <2>3 DEF TurnTypes
  <2>6. linked' # Turns!End
    BY <2>1
  <2>. QED  BY <1>1, <1>4, <2>1, <2>3, <2>4, <2>5, <2>6 DEF TurnInv, Ends, PingInv
<1>8. CASE ~\E d \in Turns!End : idle[d] = 2
  <2>1. linked' = Turns!End /\ stalled' = stalled /\ cur' = [cur EXCEPT ![Turns!Client] = @ + 1]
    BY <1>1, <1>8 DEF Turns!Beat
  <2>2. \A d \in Turns!End : idle[d] <= 1 /\ idle[d] \in Nat /\ idle'[d] = idle[d] + 1
    BY <1>0, <1>1, <1>2, <1>8
  <2>3. cur' \in [Turns!End -> Nat]
    BY <1>0, <2>1
  <2>4. Underway' = Underway + 1 /\ Asking' = Asking + 1
    BY <1>0, <1>1, <2>1, <2>3 DEF Underway, Asking
  <2>5. TurnTypes'
    BY <1>1, <1>2, <1>6, <2>1, <2>3 DEF TurnTypes
  <2>6. Ends' /\ PingInv'
    BY <1>6, <2>1, <2>2, <2>4 DEF Ends, PingInv
  <2>7. CountInv'
    BY <1>0, <1>1, <1>2, <1>3, <1>5, <1>6, <2>2, <2>4 DEF CountInv
  <2>. QED  BY <1>4, <2>5, <2>6, <2>7 DEF TurnInv
<1>. QED  BY <1>7, <1>8

LEMMA InitTurnInv ==
    ASSUME Turns!ConstantsAssumption, Turns!Init
    PROVE  TurnInv
<1>. USE TurnEndFacts
<1>1. TurnTypes
  <2>1. /\ asked \in 0 .. MaxAsked /\ recvq \in Nat
        /\ cur \in [Turns!End -> Nat] /\ bak \in [Turns!End -> Nat] /\ onWire \in [Turns!End -> 0 .. Cap]
        /\ idle \in [Turns!End -> 0 .. 3]
    BY DEF Turns!Init, Turns!ConstantsAssumption
  <2>2. /\ reg \in [Turns!End -> {"in", "out"}] /\ ready \subseteq Turns!End
        /\ loop \in [Turns!End -> {"wait", "recv", "send", "switch", "arm"}]
        /\ linked \subseteq Turns!End /\ stalled \in BOOLEAN
    BY DEF Turns!Init
  <2>. QED  BY <2>1, <2>2 DEF TurnTypes
<1>2. \A e \in Turns!End : RegInv(e) /\ EdgeKept(e)
  BY DEF Turns!Init, RegInv, EdgeKept, Turns!Readable
<1>3. Underway = 0 /\ Asking = 0 /\ asked = 0
  BY DEF Turns!Init, Underway, Asking
<1>4. PingInv /\ Ends /\ CountInv
  BY <1>3 DEF Turns!Init, PingInv, Ends, CountInv
<1>. QED  BY <1>1, <1>2, <1>4 DEF TurnInv

LEMMA NextTurnInv ==
    ASSUME Turns!ConstantsAssumption, TurnInv, [Turns!Next]_turnVars
    PROVE  TurnInv'
<1>1. ASSUME NEW e \in Turns!End, Turns!LoopStep(e) PROVE TurnInv'
  BY <1>1, LoopTurnInv
<1>2. CASE UNCHANGED turnVars
  <2>1. UNCHANGED <<asked, cur, bak, onWire, recvq, reg, ready, loop, idle, linked, stalled>>
    BY <1>2 DEF turnVars
  <2>2. TurnTypes' /\ Ends' /\ PingInv'
    BY <2>1 DEF TurnInv, TurnTypes, Ends, PingInv, Underway, Asking
  <2>3. \A e \in Turns!End : RegInv(e)' /\ EdgeKept(e)'
    BY <2>1 DEF TurnInv, RegInv, EdgeKept, Turns!Readable, Turns!Writable
  <2>4. linked' = Turns!End => CountInv'
    BY <2>1 DEF TurnInv, CountInv, Underway, Asking, Blocked, Turns!Writable
  <2>. QED  BY <2>2, <2>3, <2>4 DEF TurnInv
<1>3. CASE Turns!Ask \/ Turns!Answer
  BY <1>3, ApplicationTurnInv
<1>4. CASE Turns!Beat
  BY <1>4, BeatTurnInv
<1>5. CASE \E e \in Turns!End : Turns!LoopStep(e)
  BY <1>1, <1>5
<1>. QED  BY <1>2, <1>3, <1>4, <1>5 DEF Turns!Next

LEMMA TurnInvProperties ==
    ASSUME Turns!ConstantsAssumption, TurnInv
    PROVE  Turns!TypeOK /\ Turns!RestIsDelivered /\ Turns!ClosedOnlyWhenStalled
<1>. USE TurnEndFacts
<1>1. TurnTypes
  BY DEF TurnInv
<1>2. Underway <= asked + 3
  BY <1>1 DEF TurnInv, Ends, CountInv, TurnTypes, Underway, Asking
<1>3. \A e \in Turns!End : cur[e] \in Turns!Counts /\ bak[e] \in Turns!Counts
  <2>1. /\ \A e \in Turns!End : cur[e] \in Nat /\ bak[e] \in Nat /\ onWire[e] \in Nat
        /\ recvq \in Nat /\ asked \in Nat /\ asked <= MaxAsked /\ MaxAsked \in Nat
    BY <1>1 DEF TurnTypes, Turns!ConstantsAssumption
  <2>2. \A e \in Turns!End : cur[e] <= Underway /\ bak[e] <= Underway
    BY <2>1 DEF Underway, Asking
  <2>3. Underway \in Nat
    BY <2>1 DEF Underway, Asking
  <2>. QED  BY <1>2, <2>1, <2>2, <2>3 DEF Turns!Counts
<1>4. recvq \in Turns!Counts
  BY <1>1, <1>2 DEF TurnTypes, Underway, Asking, Turns!Counts, Turns!ConstantsAssumption
<1>5. Turns!TypeOK
  BY <1>1, <1>3, <1>4 DEF Turns!TypeOK, TurnTypes
<1>6. Turns!RestIsDelivered
  <2>1. Blocked => Turns!MutualBlock
    BY DEF Blocked, Turns!MutualBlock
  <2>. QED  BY <2>1, RestFacts DEF TurnInv, Turns!RestIsDelivered
<1>7. Turns!ClosedOnlyWhenStalled
  BY DEF TurnInv, Ends, Turns!ClosedOnlyWhenStalled
<1>. QED  BY <1>5, <1>6, <1>7

-----------------------------------------------------------------------------
(* The three together.                                                     *)

ParserP == INSTANCE FramingProofs WITH pc <- place

LEMMA ParserConstants == ParserP!ConstantsAssumption
BY ParserAssumption DEF Parser!ConstantsAssumption, ParserP!ConstantsAssumption

\* FramingProofs is about the same parser.
LEMMA SameParser ==
    (ParserP!Init <=> Parser!Init) /\ (ParserP!Next <=> Parser!Next)
<1>. USE DEF Parser!peer, ParserP!peer, Parser!Lengths, ParserP!Lengths,
             Parser!BadLengths, ParserP!BadLengths, Parser!SizeOf, ParserP!SizeOf,
             Parser!After, ParserP!After, Parser!Arrive, ParserP!Arrive,
             Parser!PeerEnds, ParserP!PeerEnds, Parser!EpollIn, ParserP!EpollIn,
             Parser!Read, ParserP!Read, Parser!Space, ParserP!Space, Parser!RecvFull,
             ParserP!RecvFull, Parser!RecvAll, ParserP!RecvAll, Parser!Close,
             ParserP!Close, Parser!RecvError, ParserP!RecvError, Parser!Rest,
             ParserP!Rest, Parser!Parsing, ParserP!Parsing, Parser!DeclaredLengths,
             ParserP!DeclaredLengths, Parser!Tail0, ParserP!Tail0, Parser!SavedHead,
             ParserP!SavedHead, Parser!SavedBody, ParserP!SavedBody, Parser!PartialHead,
             ParserP!PartialHead, Parser!PartialBody, ParserP!PartialBody,
             Parser!WholeMessage, ParserP!WholeMessage, Parser!BadLength,
             ParserP!BadLength, Parser!AfterParse, ParserP!AfterParse, Parser!Parsed,
             ParserP!Parsed, Parser!Quiet, ParserP!Quiet
<1>1. ParserP!Init <=> Parser!Init
  BY DEF Parser!Init, ParserP!Init
<1>2. ParserP!Next <=> Parser!Next
  BY DEF Parser!Next, ParserP!Next, Parser!vars, ParserP!vars
<1>. QED  BY <1>1, <1>2

\* A step of MCConnection is a step of one of the three and leaves the others alone.
LEMMA OneOfThree ==
    ASSUME [ConnectionNext]_allVars
    PROVE  [Next]_vars /\ [Parser!Next]_parserVars /\ [Turns!Next]_turnVars
BY DEF ConnectionNext, allVars, InTurns

\* The inductive invariant of the three.
ConnectionInv ==
    /\ TypeOK /\ SilenceInv /\ KeptInv
    /\ ParserP!FramingInv
    /\ TurnInv

LEMMA ConnectionInvInit == ConnectionInit => ConnectionInv
<1>. SUFFICES ASSUME Init, Parser!Init, Turns!Init PROVE ConnectionInv
  BY DEF ConnectionInit
<1>1. TypeOK
  BY InitType
<1>2. SilenceInv
  BY PeriodFacts DEF Init, SilenceInv, Silence, Live
<1>3. KeptInv
  BY PeriodFacts, EndFacts DEF Init, KeptInv, PingsInv, Empty, Oldest
<1>4. ParserP!FramingInv
  BY SameParser, ParserConstants, ParserP!FramingInvInit
<1>5. TurnInv
  BY TurnsAssumption, InitTurnInv
<1>. QED  BY <1>1, <1>2, <1>3, <1>4, <1>5 DEF ConnectionInv

LEMMA ConnectionInvNext == ConnectionInv /\ [ConnectionNext]_allVars => ConnectionInv'
<1>. SUFFICES ASSUME ConnectionInv, [ConnectionNext]_allVars PROVE ConnectionInv'
  OBVIOUS
<1>1. TypeOK /\ SilenceInv /\ KeptInv /\ ParserP!FramingInv /\ TurnInv
  BY DEF ConnectionInv
<1>2. [Next]_vars /\ [Parser!Next]_parserVars /\ [Turns!Next]_turnVars
  BY OneOfThree
<1>3. TypeOK' /\ SilenceInv' /\ KeptInv'
  BY <1>1, <1>2, NextType, NextSilence, NextKept
<1>4. ParserP!FramingInv'
  <2>1. [ParserP!Next]_(ParserP!vars)
    BY <1>2, SameParser DEF parserVars, ParserP!vars, ParserP!peer
  <2>. QED  BY <1>1, <2>1, ParserConstants, ParserP!NextFramingInv
<1>5. TurnInv'
  BY <1>1, <1>2, TurnsAssumption, NextTurnInv
<1>. QED  BY <1>3, <1>4, <1>5 DEF ConnectionInv

\* The inductive invariant holds in every state, for all constants.
THEOREM ConnectionInvCorrect == ConnectionSpec => []ConnectionInv
BY ConnectionInvInit, ConnectionInvNext, PTL DEF ConnectionSpec

\* What FramingInv says of the parser of MCConnection.
LEMMA ParserProperties ==
    ASSUME ParserP!FramingInv
    PROVE  Parser!TypeOK /\ PartFits /\ ExactUnlessMisread /\ NothingStranded
<1>1. ParserP!TypeOK <=> Parser!TypeOK
  BY DEF ParserP!TypeOK, Parser!TypeOK, ParserP!Lengths, Parser!Lengths, ParserP!BadLengths,
         Parser!BadLengths, ParserP!Unit, Parser!Unit
<1>2. ParserP!PartFits <=> PartFits
  BY DEF ParserP!PartFits, Parser!PartFits, PartFits
<1>3. ParserP!OutIsSent => Parser!OutIsSent
  BY DEF ParserP!OutIsSent, Parser!OutIsSent, ParserP!UnitsOf, Parser!UnitsOf,
         ParserP!SizeOf, Parser!SizeOf, ParserP!Lengths, Parser!Lengths
<1>4. ParserP!NothingStranded => NothingStranded
  BY DEF ParserP!NothingStranded, Parser!NothingStranded, NothingStranded,
         ParserP!UnitsOf, Parser!UnitsOf, ParserP!SizeOf, Parser!SizeOf, ParserP!Lengths, Parser!Lengths
<1>5. ParserP!NothingStranded
  BY ParserConstants, ParserP!FramingInvNothingStranded
<1>. QED  BY <1>1, <1>2, <1>3, <1>4, <1>5 DEF ParserP!FramingInv, ExactUnlessMisread,
                                              Parser!ExactUnlessMisread

LEMMA ConnectionInvProperties ==
    ConnectionInv => /\ ConnectionTypeOK
                     /\ PartFits /\ ExactUnlessMisread /\ NothingStranded
                     /\ RestIsDelivered /\ ClosedOnlyWhenStalled
                     /\ SilenceEnds /\ LiveLinkKept
<1>. SUFFICES ASSUME ConnectionInv
              PROVE  /\ ConnectionTypeOK
                     /\ PartFits /\ ExactUnlessMisread /\ NothingStranded
                     /\ RestIsDelivered /\ ClosedOnlyWhenStalled
                     /\ SilenceEnds /\ LiveLinkKept
  OBVIOUS
<1>1. TypeOK /\ SilenceInv /\ KeptInv /\ ParserP!FramingInv /\ TurnInv
  BY DEF ConnectionInv
<1>2. Turns!TypeOK /\ RestIsDelivered /\ ClosedOnlyWhenStalled
  BY <1>1, TurnsAssumption, TurnInvProperties DEF RestIsDelivered, ClosedOnlyWhenStalled
<1>3. SilenceEnds /\ LiveLinkKept
  BY <1>1, SilenceInvEnds DEF KeptInv, LiveLinkKept
<1>. QED  BY <1>1, <1>2, <1>3, ParserProperties DEF ConnectionTypeOK

\* The ages the timers keep, what the parser holds and what the ends have under
\* way stay within their bounds.
THEOREM ConnectionTypeCorrect == ConnectionSpec => []ConnectionTypeOK
BY ConnectionInvCorrect, ConnectionInvProperties, PTL

\* For every timeout: an end that works keeps a connection to a peer that is
\* gone for the timeout and half of it, and one second, at most.
THEOREM SilenceEndsCorrect == ConnectionSpec => []SilenceEnds
BY ConnectionInvCorrect, ConnectionInvProperties, PTL

\* For every timeout and every delay that fits into it: two ends that work
\* keep their link, as long as no ping is lost in a full receive queue.
THEOREM LiveLinkKeptCorrect == ConnectionSpec => []LiveLinkKept
BY ConnectionInvCorrect, ConnectionInvProperties, PTL

\* doRecvMessage always offers recv_msg some room behind what is in part_buf.
THEOREM PartFitsCorrect == ConnectionSpec => []PartFits
BY ConnectionInvCorrect, ConnectionInvProperties, PTL

\* parsePacketToRecvQueue hands on the peer's messages byte for byte however
\* the network cuts the stream, until an incomplete header is copied wrongly.
THEOREM ExactUnlessMisreadCorrect == ConnectionSpec => []ExactUnlessMisread
BY ConnectionInvCorrect, ConnectionInvProperties, PTL

\* doRecvMessage leaves nothing in an edge-triggered socket, and keeps back
\* nothing but the beginning of the next message.
THEOREM NothingStrandedCorrect == ConnectionSpec => []NothingStranded
BY ConnectionInvCorrect, ConnectionInvProperties, PTL

\* Two ends at rest have delivered everything or block each other: no edge is
\* lost between EPOLLIN and EPOLLOUT, whatever room the kernels have.
THEOREM RestIsDeliveredCorrect == ConnectionSpec => []RestIsDelivered
BY ConnectionInvCorrect, ConnectionInvProperties, PTL

\* The keepalive timeout closes a link only when both ends had stopped.
THEOREM ClosedOnlyWhenStalledCorrect == ConnectionSpec => []ClosedOnlyWhenStalled
BY ConnectionInvCorrect, ConnectionInvProperties, PTL

=============================================================================
