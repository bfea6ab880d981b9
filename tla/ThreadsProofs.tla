---------------------------- MODULE ThreadsProofs ----------------------------
(***************************************************************************)
(* Proofs of what MCThreads promises of the threads of a program, for any  *)
(* set of worker threads, any sockets and any lengths of the queues.       *)
(*                                                                         *)
(* First the locks: no threads of a server wait for each other in a        *)
(* circle, and the mutexes of CGlobalMgr keep the threads apart at the     *)
(* data they are for.  The place of a thread says which locks it holds     *)
(* (Inside), and a lock is only asked for at places where every lock that  *)
(* is held ranks below it (Entry, Rank): a circle would need a lock that   *)
(* ranks below itself.                                                     *)
(*                                                                         *)
(* Then the three parts together: LifecycleProofs and WsaLoopProofs are    *)
(* about the other two.                                                    *)
(***************************************************************************)
EXTENDS MCThreads, TLAPS

InEvent == {"pop", "key", "reject", "in"}
InServer == {"close in batch", "key", "close in arm", "close in timeout", "ping",
    "add ping", "relay", "test relayed", "add relayed", "relayed", "look", "set",
    "take back"}
InSend == {"size", "merge", "add ping", "add", "add relayed"}
InRecv == {"out", "flush"}

\* The places behind Lock() and before UnLock() of l.
Inside(l) ==
    IF l = Event THEN InEvent ELSE IF l = Server THEN InServer
    ELSE IF l = Send THEN InSend ELSE InRecv

\* The places a thread that asked for l waits at.
Entry(l) ==
    IF l = Event THEN {"pop", "reject", "in"}
    ELSE IF l = Server THEN InServer \ {"add ping", "test relayed", "add relayed", "relayed"}
    ELSE IF l = Send THEN InSend \ {"merge"} ELSE InRecv

\* The order in which the locks are nested.
Rank(l) == IF l = Event THEN 0 ELSE IF l = Server THEN 1 ELSE 2

Holds(t, l) == at[t] \in Inside(l) /\ want[t] # l

LockInv ==
    /\ TypeOK
    /\ \A t \in Thread, l \in Mutex : owner[l] = t <=> Holds(t, l)
    /\ \A t \in Thread, l \in Mutex : want[t] = l => at[t] \in Entry(l)

-----------------------------------------------------------------------------

\* A part of the code that neither takes nor returns a lock keeps LockInv.
LEMMA GotoKeeps ==
    ASSUME LockInv, NEW t \in Thread, NEW from, NEW to \in Places(t), Goto(t, from, to),
           \A k \in Mutex : from \in Inside(k) <=> to \in Inside(k)
    PROVE  LockInv'
  <1>1. /\ at \in [Thread -> NetPlaces \cup WorkerPlaces \cup MainPlaces]
        /\ at' = [at EXCEPT ![t] = to] /\ want' = want /\ owner' = owner
        /\ at[t] = from /\ want[t] = NoLock
    BY DEF LockInv, TypeOK, Goto, Runs
  <1>2. TypeOK'
    BY <1>1 DEF LockInv, TypeOK, Places
  <1>3. \A u \in Thread, l \in Mutex : (owner[l] = u <=> Holds(u, l))'
    BY <1>1, NothingAssumption DEF LockInv, Holds
  <1>4. \A u \in Thread, l \in Mutex : (want[u] = l => at[u] \in Entry(l))'
    BY <1>1, NothingAssumption DEF LockInv
  <1> QED
    BY <1>2, <1>3, <1>4 DEF LockInv

\* Asking for a lock at one of its entries keeps LockInv.
LEMMA LockKeeps ==
    ASSUME LockInv, NEW t \in Thread, NEW l \in Mutex, NEW from, NEW to \in Places(t),
           Lock(t, l, from, to), to \in Entry(l), from \notin Inside(l),
           \A k \in Mutex \ {l} : from \in Inside(k) <=> to \in Inside(k)
    PROVE  LockInv'
  <1>1. /\ at \in [Thread -> NetPlaces \cup WorkerPlaces \cup MainPlaces]
        /\ want \in [Thread -> Mutex \cup {NoLock}]
        /\ at' = [at EXCEPT ![t] = to] /\ want' = [want EXCEPT ![t] = l] /\ owner' = owner
        /\ at[t] = from /\ want[t] = NoLock
    BY DEF LockInv, TypeOK, Lock, Runs
  <1>2. TypeOK'
    BY <1>1 DEF LockInv, TypeOK, Places
  <1>3. \A u \in Thread, k \in Mutex : (owner[k] = u <=> Holds(u, k))'
    BY <1>1, NothingAssumption DEF LockInv, Holds
  <1>4. \A u \in Thread, k \in Mutex : (want[u] = k => at[u] \in Entry(k))'
    BY <1>1, NothingAssumption DEF LockInv
  <1> QED
    BY <1>2, <1>3, <1>4 DEF LockInv

\* Returning a lock on the way out of its section keeps LockInv.
LEMMA UnLockKeeps ==
    ASSUME LockInv, NEW t \in Thread, NEW l \in Mutex, NEW from, NEW to \in Places(t),
           UnLock(t, l, from, to), from \in Inside(l), to \notin Inside(l),
           \A k \in Mutex \ {l} : from \in Inside(k) <=> to \in Inside(k)
    PROVE  LockInv'
  <1>1. /\ at \in [Thread -> NetPlaces \cup WorkerPlaces \cup MainPlaces]
        /\ owner \in [Mutex -> Thread \cup {Nobody}]
        /\ at' = [at EXCEPT ![t] = to] /\ want' = want
        /\ owner' = [owner EXCEPT ![l] = Nobody]
        /\ at[t] = from /\ want[t] = NoLock
    BY DEF LockInv, TypeOK, UnLock, Runs
  <1>2. TypeOK'
    BY <1>1 DEF LockInv, TypeOK, Places
  <1>3. owner[l] = t
    BY <1>1, NothingAssumption DEF LockInv, Holds
  <1>4. \A u \in Thread, k \in Mutex : (owner[k] = u <=> Holds(u, k))'
    BY <1>1, <1>3, NothingAssumption DEF LockInv, Holds
  <1>5. \A u \in Thread, k \in Mutex : (want[u] = k => at[u] \in Entry(k))'
    BY <1>1, NothingAssumption DEF LockInv
  <1> QED
    BY <1>2, <1>4, <1>5 DEF LockInv

\* A thread that waits at an entry of a lock is inside it once it has got it.
LEMMA GrantedKeeps ==
    ASSUME LockInv, NEW t \in Thread, Granted(t)
    PROVE  LockInv'
  <1>1. PICK l \in Mutex :
            /\ want[t] = l /\ owner[l] = Nobody
            /\ owner' = [owner EXCEPT ![l] = t]
            /\ want' = [want EXCEPT ![t] = NoLock]
            /\ at' = at
    BY DEF Granted
  <1>2. /\ want \in [Thread -> Mutex \cup {NoLock}]
        /\ owner \in [Mutex -> Thread \cup {Nobody}]
    BY DEF LockInv, TypeOK
  <1>3. TypeOK'
    BY <1>1, <1>2 DEF LockInv, TypeOK, Places
  <1>4. at[t] \in Inside(l)
    BY <1>1 DEF LockInv, Entry, Inside, InEvent
  <1>5. \A u \in Thread, k \in Mutex : (owner[k] = u <=> Holds(u, k))'
    BY <1>1, <1>2, <1>4, NothingAssumption DEF LockInv, Holds
  <1>6. \A u \in Thread, k \in Mutex : (want[u] = k => at[u] \in Entry(k))'
    BY <1>1, <1>2, NothingAssumption DEF LockInv
  <1> QED
    BY <1>3, <1>5, <1>6 DEF LockInv

-----------------------------------------------------------------------------

\* The epoll thread keeps LockInv.
LEMMA NetKeeps ==
    ASSUME LockInv, NetStep
    PROVE  LockInv'
  <1>0. /\ Net \in Thread /\ Places(Net) = NetPlaces
        /\ {Server, Send, Recv, Event} = Mutex
    BY WorkersAssumption DEF Thread, Places, Net, Main, Mutex
  <1>1. CASE CloseInBatch
    <2>1. /\ "close in batch" \in NetPlaces
          /\ "close in batch" \in Entry(Server) /\ "batch" \notin Inside(Server)
          /\ \A k \in Mutex \ {Server} : "batch" \in Inside(k) <=> "close in batch" \in Inside(k)
      BY DEF NetPlaces, Inside, Entry, InEvent, InServer, InSend, InRecv, Mutex, Server, Send, Recv, Event
    <2> QED
      BY <1>0, <1>1, <2>1, LockKeeps DEF CloseInBatch
  <1>2. CASE ClosedInBatch
    <2>1. /\ "batch" \in NetPlaces
          /\ "close in batch" \in Inside(Server) /\ "batch" \notin Inside(Server)
          /\ \A k \in Mutex \ {Server} : "close in batch" \in Inside(k) <=> "batch" \in Inside(k)
      BY DEF NetPlaces, Inside, InEvent, InServer, InSend, InRecv, Mutex, Server, Send, Recv, Event
    <2> QED
      BY <1>0, <1>2, <2>1, UnLockKeeps DEF ClosedInBatch
  <1>3. CASE NothingReceived
    <2>1. /\ "events" \in NetPlaces
          /\ \A k \in Mutex : "batch" \in Inside(k) <=> "events" \in Inside(k)
      BY DEF NetPlaces, Inside, InEvent, InServer, InSend, InRecv, Mutex, Server, Send, Recv, Event
    <2> QED
      BY <1>0, <1>3, <2>1, GotoKeeps DEF NothingReceived
  <1>4. CASE FlushRecv
    <2>1. /\ "flush" \in NetPlaces
          /\ "flush" \in Entry(Recv) /\ "batch" \notin Inside(Recv)
          /\ \A k \in Mutex \ {Recv} : "batch" \in Inside(k) <=> "flush" \in Inside(k)
      BY DEF NetPlaces, Inside, Entry, InEvent, InServer, InSend, InRecv, Mutex, Server, Send, Recv, Event
    <2> QED
      BY <1>0, <1>4, <2>1, LockKeeps DEF FlushRecv
  <1>5. CASE Flushed
    <2>1. /\ "events" \in NetPlaces
          /\ "flush" \in Inside(Recv) /\ "events" \notin Inside(Recv)
          /\ \A k \in Mutex \ {Recv} : "flush" \in Inside(k) <=> "events" \in Inside(k)
      BY DEF NetPlaces, Inside, InEvent, InServer, InSend, InRecv, Mutex, Server, Send, Recv, Event
    <2> QED
      BY <1>0, <1>5, <2>1, UnLockKeeps DEF Flushed
  <1>6. CASE NoEvents
    <2>1. /\ "switch" \in NetPlaces
          /\ \A k \in Mutex : "events" \in Inside(k) <=> "switch" \in Inside(k)
      BY DEF NetPlaces, Inside, InEvent, InServer, InSend, InRecv, Mutex, Server, Send, Recv, Event
    <2> QED
      BY <1>0, <1>6, <2>1, GotoKeeps DEF NoEvents
  <1>7. CASE DoSystemEvent
    <2>1. /\ "pop" \in NetPlaces
          /\ "pop" \in Entry(Event) /\ "events" \notin Inside(Event)
          /\ \A k \in Mutex \ {Event} : "events" \in Inside(k) <=> "pop" \in Inside(k)
      BY DEF NetPlaces, Inside, Entry, InEvent, InServer, InSend, InRecv, Mutex, Server, Send, Recv, Event
    <2> QED
      BY <1>0, <1>7, <2>1, LockKeeps DEF DoSystemEvent
  <1>8. CASE SetKey
    <2>1. /\ "key" \in NetPlaces
          /\ "key" \in Entry(Server) /\ "pop" \notin Inside(Server)
          /\ \A k \in Mutex \ {Server} : "pop" \in Inside(k) <=> "key" \in Inside(k)
      BY DEF NetPlaces, Inside, Entry, InEvent, InServer, InSend, InRecv, Mutex, Server, Send, Recv, Event
    <2> QED
      BY <1>0, <1>8, <2>1, LockKeeps DEF SetKey
  <1>9. CASE KeySet
    <2>1. /\ "pop" \in NetPlaces
          /\ "key" \in Inside(Server) /\ "pop" \notin Inside(Server)
          /\ \A k \in Mutex \ {Server} : "key" \in Inside(k) <=> "pop" \in Inside(k)
      BY DEF NetPlaces, Inside, InEvent, InServer, InSend, InRecv, Mutex, Server, Send, Recv, Event
    <2> QED
      BY <1>0, <1>9, <2>1, UnLockKeeps DEF KeySet
  <1>10. CASE EventsDone
    <2>1. /\ "switch" \in NetPlaces
          /\ "pop" \in Inside(Event) /\ "switch" \notin Inside(Event)
          /\ \A k \in Mutex \ {Event} : "pop" \in Inside(k) <=> "switch" \in Inside(k)
      BY DEF NetPlaces, Inside, InEvent, InServer, InSend, InRecv, Mutex, Server, Send, Recv, Event
    <2> QED
      BY <1>0, <1>10, <2>1, UnLockKeeps DEF EventsDone
  <1>11. CASE SwitchSendMap
    <2>1. /\ "size" \in NetPlaces
          /\ "size" \in Entry(Send) /\ "switch" \notin Inside(Send)
          /\ \A k \in Mutex \ {Send} : "switch" \in Inside(k) <=> "size" \in Inside(k)
      BY DEF NetPlaces, Inside, Entry, InEvent, InServer, InSend, InRecv, Mutex, Server, Send, Recv, Event
    <2> QED
      BY <1>0, <1>11, <2>1, LockKeeps DEF SwitchSendMap
  <1>12. CASE NothingToSend
    <2>1. /\ "arm" \in NetPlaces
          /\ "size" \in Inside(Send) /\ "arm" \notin Inside(Send)
          /\ \A k \in Mutex \ {Send} : "size" \in Inside(k) <=> "arm" \in Inside(k)
      BY DEF NetPlaces, Inside, InEvent, InServer, InSend, InRecv, Mutex, Server, Send, Recv, Event
    <2> QED
      BY <1>0, <1>12, <2>1, UnLockKeeps DEF NothingToSend
  <1>13. CASE MergeMaps
    <2>1. /\ "merge" \in NetPlaces
          /\ \A k \in Mutex : "size" \in Inside(k) <=> "merge" \in Inside(k)
      BY DEF NetPlaces, Inside, InEvent, InServer, InSend, InRecv, Mutex, Server, Send, Recv, Event
    <2> QED
      BY <1>0, <1>13, <2>1, GotoKeeps DEF MergeMaps
  <1>14. CASE Switched
    <2>1. /\ "arm" \in NetPlaces
          /\ "merge" \in Inside(Send) /\ "arm" \notin Inside(Send)
          /\ \A k \in Mutex \ {Send} : "merge" \in Inside(k) <=> "arm" \in Inside(k)
      BY DEF NetPlaces, Inside, InEvent, InServer, InSend, InRecv, Mutex, Server, Send, Recv, Event
    <2> QED
      BY <1>0, <1>14, <2>1, UnLockKeeps DEF Switched
  <1>15. CASE CloseInArm
    <2>1. /\ "close in arm" \in NetPlaces
          /\ "close in arm" \in Entry(Server) /\ "arm" \notin Inside(Server)
          /\ \A k \in Mutex \ {Server} : "arm" \in Inside(k) <=> "close in arm" \in Inside(k)
      BY DEF NetPlaces, Inside, Entry, InEvent, InServer, InSend, InRecv, Mutex, Server, Send, Recv, Event
    <2> QED
      BY <1>0, <1>15, <2>1, LockKeeps DEF CloseInArm
  <1>16. CASE ClosedInArm
    <2>1. /\ "arm" \in NetPlaces
          /\ "close in arm" \in Inside(Server) /\ "arm" \notin Inside(Server)
          /\ \A k \in Mutex \ {Server} : "close in arm" \in Inside(k) <=> "arm" \in Inside(k)
      BY DEF NetPlaces, Inside, InEvent, InServer, InSend, InRecv, Mutex, Server, Send, Recv, Event
    <2> QED
      BY <1>0, <1>16, <2>1, UnLockKeeps DEF ClosedInArm
  <1>17. CASE Armed
    <2>1. /\ "timeout" \in NetPlaces
          /\ \A k \in Mutex : "arm" \in Inside(k) <=> "timeout" \in Inside(k)
      BY DEF NetPlaces, Inside, InEvent, InServer, InSend, InRecv, Mutex, Server, Send, Recv, Event
    <2> QED
      BY <1>0, <1>17, <2>1, GotoKeeps DEF Armed
  <1>18. CASE CloseInTimeout
    <2>1. /\ "close in timeout" \in NetPlaces
          /\ "close in timeout" \in Entry(Server) /\ "timeout" \notin Inside(Server)
          /\ \A k \in Mutex \ {Server} : "timeout" \in Inside(k) <=> "close in timeout" \in Inside(k)
      BY DEF NetPlaces, Inside, Entry, InEvent, InServer, InSend, InRecv, Mutex, Server, Send, Recv, Event
    <2> QED
      BY <1>0, <1>18, <2>1, LockKeeps DEF CloseInTimeout
  <1>19. CASE ClosedInTimeout
    <2>1. /\ "timeout" \in NetPlaces
          /\ "close in timeout" \in Inside(Server) /\ "timeout" \notin Inside(Server)
          /\ \A k \in Mutex \ {Server} : "close in timeout" \in Inside(k) <=> "timeout" \in Inside(k)
      BY DEF NetPlaces, Inside, InEvent, InServer, InSend, InRecv, Mutex, Server, Send, Recv, Event
    <2> QED
      BY <1>0, <1>19, <2>1, UnLockKeeps DEF ClosedInTimeout
  <1>20. CASE NotYetTime
    <2>1. /\ "batch" \in NetPlaces
          /\ \A k \in Mutex : "timeout" \in Inside(k) <=> "batch" \in Inside(k)
      BY DEF NetPlaces, Inside, InEvent, InServer, InSend, InRecv, Mutex, Server, Send, Recv, Event
    <2> QED
      BY <1>0, <1>20, <2>1, GotoKeeps DEF NotYetTime
  <1>21. CASE SendKeepalive
    <2>1. /\ "ping" \in NetPlaces
          /\ "ping" \in Entry(Server) /\ "timeout" \notin Inside(Server)
          /\ \A k \in Mutex \ {Server} : "timeout" \in Inside(k) <=> "ping" \in Inside(k)
      BY DEF NetPlaces, Inside, Entry, InEvent, InServer, InSend, InRecv, Mutex, Server, Send, Recv, Event
    <2> QED
      BY <1>0, <1>21, <2>1, LockKeeps DEF SendKeepalive
  <1>22. CASE PingServer
    <2>1. /\ "add ping" \in NetPlaces
          /\ "add ping" \in Entry(Send) /\ "ping" \notin Inside(Send)
          /\ \A k \in Mutex \ {Send} : "ping" \in Inside(k) <=> "add ping" \in Inside(k)
      BY DEF NetPlaces, Inside, Entry, InEvent, InServer, InSend, InRecv, Mutex, Server, Send, Recv, Event
    <2> QED
      BY <1>0, <1>22, <2>1, LockKeeps DEF PingServer
  <1>23. CASE PingAdded
    <2>1. /\ "ping" \in NetPlaces
          /\ "add ping" \in Inside(Send) /\ "ping" \notin Inside(Send)
          /\ \A k \in Mutex \ {Send} : "add ping" \in Inside(k) <=> "ping" \in Inside(k)
      BY DEF NetPlaces, Inside, InEvent, InServer, InSend, InRecv, Mutex, Server, Send, Recv, Event
    <2> QED
      BY <1>0, <1>23, <2>1, UnLockKeeps DEF PingAdded
  <1>24. CASE KeepaliveSent
    <2>1. /\ "batch" \in NetPlaces
          /\ "ping" \in Inside(Server) /\ "batch" \notin Inside(Server)
          /\ \A k \in Mutex \ {Server} : "ping" \in Inside(k) <=> "batch" \in Inside(k)
      BY DEF NetPlaces, Inside, InEvent, InServer, InSend, InRecv, Mutex, Server, Send, Recv, Event
    <2> QED
      BY <1>0, <1>24, <2>1, UnLockKeeps DEF KeepaliveSent
  <1> QED
    BY <1>1, <1>2, <1>3, <1>4, <1>5, <1>6, <1>7, <1>8, <1>9, <1>10, <1>11, <1>12, <1>13, <1>14, <1>15, <1>16, <1>17, <1>18, <1>19, <1>20, <1>21, <1>22, <1>23, <1>24 DEF NetStep

\* A worker keeps LockInv.
LEMMA WorkerKeeps ==
    ASSUME LockInv, NEW w \in Workers, WorkerStep(w)
    PROVE  LockInv'
  <1>0. /\ w \in Thread /\ Places(w) = WorkerPlaces
        /\ {Server, Send, Recv, Event} = Mutex
    BY WorkersAssumption DEF Thread, Places, Net, Main, Mutex
  <1>1. CASE OutQueue(w)
    <2>1. /\ "out" \in WorkerPlaces
          /\ "out" \in Entry(Recv) /\ "idle" \notin Inside(Recv)
          /\ \A k \in Mutex \ {Recv} : "idle" \in Inside(k) <=> "out" \in Inside(k)
      BY DEF WorkerPlaces, Inside, Entry, InEvent, InServer, InSend, InRecv, Mutex, Server, Send, Recv, Event
    <2> QED
      BY <1>0, <1>1, <2>1, LockKeeps DEF OutQueue
  <1>2. CASE GotNothing(w)
    <2>1. /\ "idle" \in WorkerPlaces
          /\ "out" \in Inside(Recv) /\ "idle" \notin Inside(Recv)
          /\ \A k \in Mutex \ {Recv} : "out" \in Inside(k) <=> "idle" \in Inside(k)
      BY DEF WorkerPlaces, Inside, InEvent, InServer, InSend, InRecv, Mutex, Server, Send, Recv, Event
    <2> QED
      BY <1>0, <1>2, <2>1, UnLockKeeps DEF GotNothing
  <1>3. CASE GotMessage(w)
    <2>1. /\ "message" \in WorkerPlaces
          /\ "out" \in Inside(Recv) /\ "message" \notin Inside(Recv)
          /\ \A k \in Mutex \ {Recv} : "out" \in Inside(k) <=> "message" \in Inside(k)
      BY DEF WorkerPlaces, Inside, InEvent, InServer, InSend, InRecv, Mutex, Server, Send, Recv, Event
    <2> QED
      BY <1>0, <1>3, <2>1, UnLockKeeps DEF GotMessage
  <1>4. CASE Processed(w)
    <2>1. /\ "next" \in WorkerPlaces
          /\ \A k \in Mutex : "message" \in Inside(k) <=> "next" \in Inside(k)
      BY DEF WorkerPlaces, Inside, InEvent, InServer, InSend, InRecv, Mutex, Server, Send, Recv, Event
    <2> QED
      BY <1>0, <1>4, <2>1, GotoKeeps DEF Processed
  <1>5. CASE AddMsg(w)
    <2>1. /\ "add" \in WorkerPlaces
          /\ "add" \in Entry(Send) /\ "test map" \notin Inside(Send)
          /\ \A k \in Mutex \ {Send} : "test map" \in Inside(k) <=> "add" \in Inside(k)
      BY DEF WorkerPlaces, Inside, Entry, InEvent, InServer, InSend, InRecv, Mutex, Server, Send, Recv, Event
    <2> QED
      BY <1>0, <1>5, <2>1, LockKeeps DEF AddMsg
  <1>6. CASE MsgAdded(w)
    <2>1. /\ "message" \in WorkerPlaces
          /\ "add" \in Inside(Send) /\ "message" \notin Inside(Send)
          /\ \A k \in Mutex \ {Send} : "add" \in Inside(k) <=> "message" \in Inside(k)
      BY DEF WorkerPlaces, Inside, InEvent, InServer, InSend, InRecv, Mutex, Server, Send, Recv, Event
    <2> QED
      BY <1>0, <1>6, <2>1, UnLockKeeps DEF MsgAdded
  <1>7. CASE SendToServer(w)
    <2>1. /\ "relay" \in WorkerPlaces
          /\ "relay" \in Entry(Server) /\ "message" \notin Inside(Server)
          /\ \A k \in Mutex \ {Server} : "message" \in Inside(k) <=> "relay" \in Inside(k)
      BY DEF WorkerPlaces, Inside, Entry, InEvent, InServer, InSend, InRecv, Mutex, Server, Send, Recv, Event
    <2> QED
      BY <1>0, <1>7, <2>1, LockKeeps DEF SendToServer
  <1>8. CASE KeyNotSet(w)
    <2>1. /\ "message" \in WorkerPlaces
          /\ "relay" \in Inside(Server) /\ "message" \notin Inside(Server)
          /\ \A k \in Mutex \ {Server} : "relay" \in Inside(k) <=> "message" \in Inside(k)
      BY DEF WorkerPlaces, Inside, InEvent, InServer, InSend, InRecv, Mutex, Server, Send, Recv, Event
    <2> QED
      BY <1>0, <1>8, <2>1, UnLockKeeps DEF KeyNotSet
  <1>9. CASE Relay(w)
    <2>1. /\ "add relayed" \in WorkerPlaces
          /\ "add relayed" \in Entry(Send) /\ "test relayed" \notin Inside(Send)
          /\ \A k \in Mutex \ {Send} : "test relayed" \in Inside(k) <=> "add relayed" \in Inside(k)
      BY DEF WorkerPlaces, Inside, Entry, InEvent, InServer, InSend, InRecv, Mutex, Server, Send, Recv, Event
    <2> QED
      BY <1>0, <1>9, <2>1, LockKeeps DEF Relay
  <1>10. CASE MsgRelayed(w)
    <2>1. /\ "relayed" \in WorkerPlaces
          /\ "add relayed" \in Inside(Send) /\ "relayed" \notin Inside(Send)
          /\ \A k \in Mutex \ {Send} : "add relayed" \in Inside(k) <=> "relayed" \in Inside(k)
      BY DEF WorkerPlaces, Inside, InEvent, InServer, InSend, InRecv, Mutex, Server, Send, Recv, Event
    <2> QED
      BY <1>0, <1>10, <2>1, UnLockKeeps DEF MsgRelayed
  <1>11. CASE SentToServer(w)
    <2>1. /\ "message" \in WorkerPlaces
          /\ "relayed" \in Inside(Server) /\ "message" \notin Inside(Server)
          /\ \A k \in Mutex \ {Server} : "relayed" \in Inside(k) <=> "message" \in Inside(k)
      BY DEF WorkerPlaces, Inside, InEvent, InServer, InSend, InRecv, Mutex, Server, Send, Recv, Event
    <2> QED
      BY <1>0, <1>11, <2>1, UnLockKeeps DEF SentToServer
  <1>12. CASE Reject(w)
    <2>1. /\ "reject" \in WorkerPlaces
          /\ "reject" \in Entry(Event) /\ "message" \notin Inside(Event)
          /\ \A k \in Mutex \ {Event} : "message" \in Inside(k) <=> "reject" \in Inside(k)
      BY DEF WorkerPlaces, Inside, Entry, InEvent, InServer, InSend, InRecv, Mutex, Server, Send, Recv, Event
    <2> QED
      BY <1>0, <1>12, <2>1, LockKeeps DEF Reject
  <1>13. CASE Rejected(w)
    <2>1. /\ "next" \in WorkerPlaces
          /\ "reject" \in Inside(Event) /\ "next" \notin Inside(Event)
          /\ \A k \in Mutex \ {Event} : "reject" \in Inside(k) <=> "next" \in Inside(k)
      BY DEF WorkerPlaces, Inside, InEvent, InServer, InSend, InRecv, Mutex, Server, Send, Recv, Event
    <2> QED
      BY <1>0, <1>13, <2>1, UnLockKeeps DEF Rejected
  <1>14. CASE OutQueueAgain(w)
    <2>1. /\ "out" \in WorkerPlaces
          /\ "out" \in Entry(Recv) /\ "next" \notin Inside(Recv)
          /\ \A k \in Mutex \ {Recv} : "next" \in Inside(k) <=> "out" \in Inside(k)
      BY DEF WorkerPlaces, Inside, Entry, InEvent, InServer, InSend, InRecv, Mutex, Server, Send, Recv, Event
    <2> QED
      BY <1>0, <1>14, <2>1, LockKeeps DEF OutQueueAgain
  <1>15. CASE TestMap(w)
    <2>1. /\ "test map" \in WorkerPlaces
          /\ \A k \in Mutex : "message" \in Inside(k) <=> "test map" \in Inside(k)
      BY DEF WorkerPlaces, Inside, InEvent, InServer, InSend, InRecv, Mutex, Server, Send, Recv, Event
    <2> QED
      BY <1>0, <1>15, <2>1, GotoKeeps DEF TestMap
  <1>16. CASE TestMapToRelay(w)
    <2>1. /\ "test relayed" \in WorkerPlaces
          /\ \A k \in Mutex : "relay" \in Inside(k) <=> "test relayed" \in Inside(k)
      BY DEF WorkerPlaces, Inside, InEvent, InServer, InSend, InRecv, Mutex, Server, Send, Recv, Event
    <2> QED
      BY <1>0, <1>16, <2>1, GotoKeeps DEF TestMapToRelay
  <1> QED
    BY <1>1, <1>2, <1>3, <1>4, <1>5, <1>6, <1>7, <1>8, <1>9, <1>10, <1>11, <1>12, <1>13, <1>14, <1>15, <1>16 DEF WorkerStep

\* The main thread keeps LockInv.
LEMMA MainKeeps ==
    ASSUME LockInv, MainStep
    PROVE  LockInv'
  <1>0. /\ Main \in Thread /\ Places(Main) = MainPlaces
        /\ {Server, Send, Recv, Event} = Mutex
    BY WorkersAssumption DEF Thread, Places, Net, Main, Mutex
  <1>1. CASE Look
    <2>1. /\ "look" \in MainPlaces
          /\ "look" \in Entry(Server) /\ "sleep" \notin Inside(Server)
          /\ \A k \in Mutex \ {Server} : "sleep" \in Inside(k) <=> "look" \in Inside(k)
      BY DEF MainPlaces, Inside, Entry, InEvent, InServer, InSend, InRecv, Mutex, Server, Send, Recv, Event
    <2> QED
      BY <1>0, <1>1, <2>1, LockKeeps DEF Look
  <1>2. CASE KeyIsSet
    <2>1. /\ "sleep" \in MainPlaces
          /\ "look" \in Inside(Server) /\ "sleep" \notin Inside(Server)
          /\ \A k \in Mutex \ {Server} : "look" \in Inside(k) <=> "sleep" \in Inside(k)
      BY DEF MainPlaces, Inside, InEvent, InServer, InSend, InRecv, Mutex, Server, Send, Recv, Event
    <2> QED
      BY <1>0, <1>2, <2>1, UnLockKeeps DEF KeyIsSet
  <1>3. CASE KeyIsUnset
    <2>1. /\ "connect" \in MainPlaces
          /\ "look" \in Inside(Server) /\ "connect" \notin Inside(Server)
          /\ \A k \in Mutex \ {Server} : "look" \in Inside(k) <=> "connect" \in Inside(k)
      BY DEF MainPlaces, Inside, InEvent, InServer, InSend, InRecv, Mutex, Server, Send, Recv, Event
    <2> QED
      BY <1>0, <1>3, <2>1, UnLockKeeps DEF KeyIsUnset
  <1>4. CASE NotConnected
    <2>1. /\ "sleep" \in MainPlaces
          /\ \A k \in Mutex : "connect" \in Inside(k) <=> "sleep" \in Inside(k)
      BY DEF MainPlaces, Inside, InEvent, InServer, InSend, InRecv, Mutex, Server, Send, Recv, Event
    <2> QED
      BY <1>0, <1>4, <2>1, GotoKeeps DEF NotConnected
  <1>5. CASE Connected
    <2>1. /\ "set" \in MainPlaces
          /\ "set" \in Entry(Server) /\ "connect" \notin Inside(Server)
          /\ \A k \in Mutex \ {Server} : "connect" \in Inside(k) <=> "set" \in Inside(k)
      BY DEF MainPlaces, Inside, Entry, InEvent, InServer, InSend, InRecv, Mutex, Server, Send, Recv, Event
    <2> QED
      BY <1>0, <1>5, <2>1, LockKeeps DEF Connected
  <1>6. CASE Published
    <2>1. /\ "queue" \in MainPlaces
          /\ "set" \in Inside(Server) /\ "queue" \notin Inside(Server)
          /\ \A k \in Mutex \ {Server} : "set" \in Inside(k) <=> "queue" \in Inside(k)
      BY DEF MainPlaces, Inside, InEvent, InServer, InSend, InRecv, Mutex, Server, Send, Recv, Event
    <2> QED
      BY <1>0, <1>6, <2>1, UnLockKeeps DEF Published
  <1>7. CASE InQueue
    <2>1. /\ "in" \in MainPlaces
          /\ "in" \in Entry(Event) /\ "queue" \notin Inside(Event)
          /\ \A k \in Mutex \ {Event} : "queue" \in Inside(k) <=> "in" \in Inside(k)
      BY DEF MainPlaces, Inside, Entry, InEvent, InServer, InSend, InRecv, Mutex, Server, Send, Recv, Event
    <2> QED
      BY <1>0, <1>7, <2>1, LockKeeps DEF InQueue
  <1>8. CASE Queued
    <2>1. /\ "log" \in MainPlaces
          /\ "in" \in Inside(Event) /\ "log" \notin Inside(Event)
          /\ \A k \in Mutex \ {Event} : "in" \in Inside(k) <=> "log" \in Inside(k)
      BY DEF MainPlaces, Inside, InEvent, InServer, InSend, InRecv, Mutex, Server, Send, Recv, Event
    <2> QED
      BY <1>0, <1>8, <2>1, UnLockKeeps DEF Queued
  <1>9. CASE QueueFull
    <2>1. /\ "full" \in MainPlaces
          /\ "in" \in Inside(Event) /\ "full" \notin Inside(Event)
          /\ \A k \in Mutex \ {Event} : "in" \in Inside(k) <=> "full" \in Inside(k)
      BY DEF MainPlaces, Inside, InEvent, InServer, InSend, InRecv, Mutex, Server, Send, Recv, Event
    <2> QED
      BY <1>0, <1>9, <2>1, UnLockKeeps DEF QueueFull
  <1>10. CASE TakeBack
    <2>1. /\ "take back" \in MainPlaces
          /\ "take back" \in Entry(Server) /\ "full" \notin Inside(Server)
          /\ \A k \in Mutex \ {Server} : "full" \in Inside(k) <=> "take back" \in Inside(k)
      BY DEF MainPlaces, Inside, Entry, InEvent, InServer, InSend, InRecv, Mutex, Server, Send, Recv, Event
    <2> QED
      BY <1>0, <1>10, <2>1, LockKeeps DEF TakeBack
  <1>11. CASE TakenBack
    <2>1. /\ "log" \in MainPlaces
          /\ "take back" \in Inside(Server) /\ "log" \notin Inside(Server)
          /\ \A k \in Mutex \ {Server} : "take back" \in Inside(k) <=> "log" \in Inside(k)
      BY DEF MainPlaces, Inside, InEvent, InServer, InSend, InRecv, Mutex, Server, Send, Recv, Event
    <2> QED
      BY <1>0, <1>11, <2>1, UnLockKeeps DEF TakenBack
  <1>12. CASE Logged
    <2>1. /\ "sleep" \in MainPlaces
          /\ \A k \in Mutex : "log" \in Inside(k) <=> "sleep" \in Inside(k)
      BY DEF MainPlaces, Inside, InEvent, InServer, InSend, InRecv, Mutex, Server, Send, Recv, Event
    <2> QED
      BY <1>0, <1>12, <2>1, GotoKeeps DEF Logged
  <1>13. CASE Report
    <2>1. /\ "report" \in MainPlaces
          /\ \A k \in Mutex : "sleep" \in Inside(k) <=> "report" \in Inside(k)
      BY DEF MainPlaces, Inside, InEvent, InServer, InSend, InRecv, Mutex, Server, Send, Recv, Event
    <2> QED
      BY <1>0, <1>13, <2>1, GotoKeeps DEF Report
  <1>14. CASE Reported
    <2>1. /\ "sleep" \in MainPlaces
          /\ \A k \in Mutex : "report" \in Inside(k) <=> "sleep" \in Inside(k)
      BY DEF MainPlaces, Inside, InEvent, InServer, InSend, InRecv, Mutex, Server, Send, Recv, Event
    <2> QED
      BY <1>0, <1>14, <2>1, GotoKeeps DEF Reported
  <1> QED
    BY <1>1, <1>2, <1>3, <1>4, <1>5, <1>6, <1>7, <1>8, <1>9, <1>10, <1>11, <1>12, <1>13, <1>14 DEF MainStep

\* LockInv holds at the start.
LEMMA InitLockInv == Init => LockInv
  <1> SUFFICES ASSUME Init PROVE LockInv
    OBVIOUS
  <1>1. TypeOK
    BY WorkersAssumption DEF Init, TypeOK, Places, NetPlaces, MainPlaces, WorkerPlaces,
        Thread, Net, Main
  <1>2. \A t \in Thread, l \in Mutex : owner[l] # t /\ ~Holds(t, l)
    BY NothingAssumption DEF Init, Holds, Inside, InEvent, InServer, InSend, InRecv
  <1>3. \A t \in Thread, l \in Mutex : want[t] # l
    BY NothingAssumption DEF Init
  <1> QED
    BY <1>1, <1>2, <1>3 DEF LockInv

\* Every step keeps LockInv.
LEMMA NextLockInv == LockInv /\ [Next]_vars => LockInv'
  <1> SUFFICES ASSUME LockInv, [Next]_vars PROVE LockInv'
    OBVIOUS
  <1>1. CASE NetStep
    BY <1>1, NetKeeps
  <1>2. CASE MainStep
    BY <1>2, MainKeeps
  <1>3. ASSUME NEW w \in Workers, WorkerStep(w) PROVE LockInv'
    BY <1>3, WorkerKeeps
  <1>4. ASSUME NEW t \in Thread, Granted(t) PROVE LockInv'
    BY <1>4, GrantedKeeps
  <1>5. CASE UNCHANGED vars
    BY <1>5 DEF vars, LockInv, TypeOK, Holds
  <1> QED
    BY <1>1, <1>2, <1>3, <1>4, <1>5 DEF Next

\* The invariant of the locks, for any set of workers.
THEOREM LockInvCorrect == Spec => []LockInv
  <1> QED
    BY InitLockInv, NextLockInv, PTL DEF Spec

-----------------------------------------------------------------------------

\* A thread that waits holds only locks that rank below the one it waits for.
LEMMA WaitsUpwards ==
    ASSUME LockInv, NEW t \in Thread, NEW k \in Mutex, NEW l \in Mutex,
           owner[k] = t, want[t] = l
    PROVE  Rank(k) < Rank(l)
  <1>1. at[t] \in Entry(l) /\ at[t] \in Inside(k) /\ k # l
    BY DEF LockInv, Holds
  <1>2. /\ Inside(Event) = InEvent /\ Inside(Server) = InServer
        /\ Inside(Send) = InSend /\ Inside(Recv) = InRecv
        /\ Rank(Event) = 0 /\ Rank(Server) = 1 /\ Rank(Send) = 2 /\ Rank(Recv) = 2
    BY DEF Inside, Rank, Server, Send, Recv, Event
  <1>3. /\ Entry(Event) = {"pop", "reject", "in"}
        /\ Entry(Server) = InServer \ {"add ping", "test relayed", "add relayed", "relayed"}
        /\ Entry(Send) = InSend \ {"merge"} /\ Entry(Recv) = InRecv
    BY DEF Entry, Server, Send, Recv, Event
  <1>4. /\ l \in {Server, Send, Recv, Event} /\ k \in {Server, Send, Recv, Event}
        /\ Rank(Server) < Rank(Send) /\ Rank(Event) < Rank(Server) /\ Rank(Event) < Rank(Send)
    BY <1>2 DEF Mutex
  <1>5. CASE l = Event
    <2>1. at[t] \notin InServer /\ at[t] \notin InSend /\ at[t] \notin InRecv
      BY <1>1, <1>3, <1>5 DEF InServer, InSend, InRecv
    <2> QED
      BY <1>1, <1>2, <1>4, <1>5, <2>1
  <1>6. CASE l = Server
    <2>1. at[t] \notin InSend /\ at[t] \notin InRecv
      BY <1>1, <1>3, <1>6 DEF InServer, InSend, InRecv
    <2> QED
      BY <1>1, <1>2, <1>4, <1>6, <2>1
  <1>7. CASE l = Send
    <2>1. at[t] \notin InEvent /\ at[t] \notin InRecv
      BY <1>1, <1>3, <1>7 DEF InEvent, InSend, InRecv
    <2> QED
      BY <1>1, <1>2, <1>4, <1>7, <2>1
  <1>8. CASE l = Recv
    <2>1. at[t] \notin InEvent /\ at[t] \notin InServer /\ at[t] \notin InSend
      BY <1>1, <1>3, <1>8 DEF InEvent, InServer, InSend, InRecv
    <2> QED
      BY <1>1, <1>2, <1>4, <1>8, <2>1
  <1> QED
    BY <1>4, <1>5, <1>6, <1>7, <1>8

\* There is no circle of waiting threads: in one, the owner of a lock that
\* ranks highest would wait for one that ranks higher.
LEMMA NoCycle == LockInv => NoWaitCycle
  <1> SUFFICES ASSUME LockInv, NEW S \in SUBSET Thread,
                      \A t \in S : want[t] # NoLock /\ owner[want[t]] \in S
               PROVE  S = {}
    BY DEF NoWaitCycle
  <1>1. \A t \in S : want[t] \in Mutex /\ Rank(want[t]) \in {0, 1, 2}
    BY DEF LockInv, TypeOK, Rank
  <1>2. \A t \in S : \E u \in S : Rank(want[t]) < Rank(want[u])
    BY <1>1, WaitsUpwards
  <1>3. \A t \in S : Rank(want[t]) # 2
    BY <1>1, <1>2
  <1>4. \A t \in S : Rank(want[t]) # 1
    BY <1>1, <1>2, <1>3
  <1> QED
    BY <1>1, <1>2, <1>3, <1>4

\* Two threads that hold the same lock are the same thread.
LEMMA OneOwner ==
    ASSUME LockInv, NEW t \in Thread, NEW u \in Thread, NEW l \in Mutex,
           at[t] \in Inside(l), want[t] = NoLock, at[u] \in Inside(l), want[u] = NoLock
    PROVE  t = u
  <1>1. owner[l] = t /\ owner[l] = u
    BY NothingAssumption DEF LockInv, Holds
  <1> QED
    BY <1>1

\* What a thread writes is under one lock together with every read of it that is
\* no peek, so that the mutexes keep writers and other users apart.
LEMMA Apart == LockInv => OnlyPeeksRace
  <1> SUFFICES ASSUME LockInv, NEW t \in Thread, NEW u \in Thread, NEW d \in Data,
                      Uses(t, d.writes), Uses(u, d.writes \cup d.reads \cup d.peeks),
                      at[u] \notin d.peeks
               PROVE  t = u
    BY DEF OnlyPeeksRace
  <1>1. PICK l \in Mutex : d.writes \cup d.reads \subseteq Inside(l)
    <2>1. CASE d = Key
      BY <2>1 DEF Key, Inside, InServer, Mutex, Server, Send, Recv, Event
    <2>2. CASE d = MapPointer
      BY <2>2 DEF MapPointer, Inside, InSend, Mutex, Server, Send, Recv, Event
    <2>3. CASE d = CurrentMap
      BY <2>3 DEF CurrentMap, Inside, InSend, Mutex, Server, Send, Recv, Event
    <2>4. CASE d = RecvList
      BY <2>4 DEF RecvList, Inside, InRecv, Mutex, Server, Send, Recv, Event
    <2>5. CASE d = EventList
      BY <2>5 DEF EventList, Inside, InEvent, Mutex, Server, Send, Recv, Event
    <2> QED
      BY <2>1, <2>2, <2>3, <2>4, <2>5 DEF Data
  <1>2. /\ at[t] \in Inside(l) /\ want[t] = NoLock
        /\ at[u] \in Inside(l) /\ want[u] = NoLock
    BY <1>1 DEF Uses
  <1> QED
    BY <1>2, OneOwner

-----------------------------------------------------------------------------
(* The three parts together.                                               *)

LifeP == INSTANCE LifecycleProofs WITH at <- place
WsaP == INSTANCE WsaLoopProofs WITH main <- mainLoop

\* Both instances of Lifecycle are about the same program.
LEMMA SameLife ==
    /\ Life!Init => LifeP!Init
    /\ Life!Next => LifeP!Next
    /\ UNCHANGED lifeVars => UNCHANGED LifeP!vars
    /\ LifeP!TypeOK => Life!TypeOK
    /\ LifeP!EndsWhenStopped => Life!EndsWhenStopped
    /\ LifeP!NetEndsFirst => Life!NetEndsFirst
    /\ LifeP!ObjectsOutliveThreads => Life!ObjectsOutliveThreads
<1>. USE DEF Life!Net, LifeP!Net, Life!Work, LifeP!Work, Life!Thread, LifeP!Thread,
             Life!flags, LifeP!flags, Life!managers, LifeP!managers, Life!history,
             LifeP!history, Life!threads, LifeP!threads, Life!At, LifeP!At, Life!Goto,
             LifeP!Goto, Life!Start, LifeP!Start, Life!GetInstance, LifeP!GetInstance,
             Life!Stop, LifeP!Stop, Life!Uses, LifeP!Uses
<1>1. Life!Init => LifeP!Init
  BY DEF Life!Init, LifeP!Init
<1>2. Life!MainThread => LifeP!MainThread
  BY DEF Life!MainThread, LifeP!MainThread, Life!ReadConfig, LifeP!ReadConfig,
         Life!InitManager, LifeP!InitManager, Life!NewObject, LifeP!NewObject,
         Life!Listen, LifeP!Listen, Life!StartupFails, LifeP!StartupFails,
         Life!Create, LifeP!Create, Life!CreateFails, LifeP!CreateFails,
         Life!Detach, LifeP!Detach, Life!SetOperate, LifeP!SetOperate,
         Life!ClearExit, LifeP!ClearExit, Life!Continue, LifeP!Continue,
         Life!EndLoop, LifeP!EndLoop, Life!StopWork, LifeP!StopWork,
         Life!StopNet, LifeP!StopNet, Life!WaitNet, LifeP!WaitNet,
         Life!ReleaseManager, LifeP!ReleaseManager, Life!EndProcess, LifeP!EndProcess
<1>3. ASSUME NEW t \in Life!Thread, Life!Run(t) PROVE LifeP!Run(t)
  BY <1>3 DEF Life!Run, LifeP!Run, Life!Resume, LifeP!Resume, Life!Enter, LifeP!Enter,
              Life!Turn, LifeP!Turn, Life!OutQueue, LifeP!OutQueue,
              Life!ProcessMessage, LifeP!ProcessMessage, Life!LeaveLoop, LifeP!LeaveLoop, Life!Ended,
              LifeP!Ended, Life!Dangles, LifeP!Dangles
<1>4. Life!Next => LifeP!Next
  BY <1>2, <1>3 DEF Life!Next, LifeP!Next
<1>5. UNCHANGED lifeVars => UNCHANGED LifeP!vars
  BY DEF lifeVars, LifeP!vars
<1>6. LifeP!TypeOK => Life!TypeOK
  BY DEF Life!TypeOK, LifeP!TypeOK
<1>7. /\ LifeP!EndsWhenStopped => Life!EndsWhenStopped
      /\ LifeP!NetEndsFirst => Life!NetEndsFirst
      /\ LifeP!ObjectsOutliveThreads => Life!ObjectsOutliveThreads
  BY DEF Life!EndsWhenStopped, LifeP!EndsWhenStopped, Life!NetEndsFirst,
         LifeP!NetEndsFirst, Life!ObjectsOutliveThreads, LifeP!ObjectsOutliveThreads
<1>. QED  BY <1>1, <1>4, <1>5, <1>6, <1>7

\* Both instances of WsaLoop are about the same program.
LEMMA SameWsa ==
    /\ WsaP!ConstantsAssumption
    /\ Wsa!Init => WsaP!Init
    /\ Wsa!Next => WsaP!Next
    /\ UNCHANGED wsaVars => UNCHANGED WsaP!vars
    /\ WsaP!TypeOK => Wsa!TypeOK
    /\ WsaP!OneLinkUnderway => Wsa!OneLinkUnderway
    /\ WsaP!StoryInOrder => Wsa!StoryInOrder
<1>. USE DEF Wsa!Conn, WsaP!Conn, Wsa!kernel, WsaP!kernel, Wsa!sendmaps,
             WsaP!sendmaps, Wsa!queues, WsaP!queues, Wsa!Message, WsaP!Message,
             Wsa!Mapped, WsaP!Mapped
<1>1. WsaP!ConstantsAssumption
  BY WsaAssumption DEF Wsa!ConstantsAssumption, WsaP!ConstantsAssumption
<1>2. Wsa!Init => WsaP!Init
  BY DEF Wsa!Init, WsaP!Init
<1>3. Wsa!LoopStep => WsaP!LoopStep
  BY DEF Wsa!LoopStep, WsaP!LoopStep, Wsa!Visits, WsaP!Visits, Wsa!CloseSocket,
         WsaP!CloseSocket, Wsa!CloseClient, WsaP!CloseClient, Wsa!EraseUnderLoop,
         WsaP!EraseUnderLoop, Wsa!RecvFull, WsaP!RecvFull, Wsa!RecvBad, WsaP!RecvBad,
         Wsa!RecvEnds, WsaP!RecvEnds, Wsa!RecvError, WsaP!RecvError, Wsa!FlushRecv,
         WsaP!FlushRecv, Wsa!Entered, WsaP!Entered, Wsa!LookAtEvents,
         WsaP!LookAtEvents, Wsa!AddClient, WsaP!AddClient, Wsa!EndEvents,
         WsaP!EndEvents, Wsa!SwitchSendMap, WsaP!SwitchSendMap, Wsa!DeleteUnknown,
         WsaP!DeleteUnknown, Wsa!SendKeepalive, WsaP!SendKeepalive
<1>4. Wsa!MainStep => WsaP!MainStep
  BY DEF Wsa!MainStep, WsaP!MainStep, Wsa!Alive, WsaP!Alive, Wsa!MainAt, WsaP!MainAt,
         Wsa!MainGoes, WsaP!MainGoes, Wsa!KeyUnset, WsaP!KeyUnset, Wsa!CheckKey,
         WsaP!CheckKey, Wsa!ConnectFails, WsaP!ConnectFails, Wsa!Connected,
         WsaP!Connected, Wsa!Enqueue, WsaP!Enqueue, Wsa!CloseSocket, WsaP!CloseSocket
<1>5. Wsa!Next => WsaP!Next
  <2>1. Wsa!Take => WsaP!Take
    BY DEF Wsa!Take, WsaP!Take, Wsa!Alive, WsaP!Alive
  <2>2. ASSUME NEW f \in Fds
        PROVE  Wsa!Arrive(f) \/ Wsa!PeerLeaves(f) => WsaP!Arrive(f) \/ WsaP!PeerLeaves(f)
    BY DEF Wsa!Arrive, WsaP!Arrive, Wsa!PeerLeaves, WsaP!PeerLeaves
  <2>. QED  BY <1>3, <1>4, <2>1, <2>2 DEF Wsa!Next, WsaP!Next
<1>6. UNCHANGED wsaVars => UNCHANGED WsaP!vars
  BY DEF wsaVars, WsaP!vars
<1>7. WsaP!TypeOK => Wsa!TypeOK
  BY DEF Wsa!TypeOK, WsaP!TypeOK, Wsa!OrNone, WsaP!OrNone, Wsa!Messages, WsaP!Messages
<1>8. WsaP!OneLinkUnderway => Wsa!OneLinkUnderway
  BY DEF Wsa!OneLinkUnderway, WsaP!OneLinkUnderway, Wsa!Underway, WsaP!Underway
<1>9. WsaP!StoryInOrder => Wsa!StoryInOrder
  BY DEF Wsa!StoryInOrder, WsaP!StoryInOrder, Wsa!OnTheWay, WsaP!OnTheWay,
         Wsa!InOrder, WsaP!InOrder
<1>. QED  BY <1>1, <1>2, <1>5, <1>6, <1>7, <1>8, <1>9

\* A behaviour is about one of the parts, and the others stay as they began.
ThreadsInv ==
    /\ LockInv
    /\ LifeP!LifeInv
    /\ WsaP!LinkInv /\ WsaP!StoryInv /\ WsaP!RestType

LEMMA InitThreadsInv ==
    ASSUME ThreadsInit
    PROVE  ThreadsInv
<1>1. LockInv
  BY InitLockInv DEF ThreadsInit
<1>2. LifeP!LifeInv
  BY SameLife, LifeP!InitLifeInv DEF ThreadsInit
<1>3. WsaP!LinkInv /\ WsaP!StoryInv /\ WsaP!RestType
  BY SameWsa, WsaP!InitLinkInv, WsaP!InitStoryInv, WsaP!InitRestType DEF ThreadsInit
<1>. QED  BY <1>1, <1>2, <1>3 DEF ThreadsInv

LEMMA NextThreadsInv ==
    ASSUME ThreadsInv, [ThreadsNext]_allVars
    PROVE  ThreadsInv'
<1>1. LockInv'
  <2>1. [Next]_vars
    BY DEF ThreadsNext, InLife, InWsa, allVars
  <2>. QED  BY <2>1, NextLockInv DEF ThreadsInv
<1>2. LifeP!LifeInv'
  <2>1. Life!Next \/ UNCHANGED lifeVars
    BY DEF ThreadsNext, InLife, InWsa, allVars
  <2>2. LifeP!Next \/ UNCHANGED LifeP!vars
    BY <2>1, SameLife
  <2>. QED  BY <2>2, LifeP!NextLifeInv DEF ThreadsInv
<1>3. WsaP!LinkInv' /\ WsaP!StoryInv' /\ WsaP!RestType'
  <2>1. Wsa!Next \/ UNCHANGED wsaVars
    BY DEF ThreadsNext, InLife, InWsa, allVars
  <2>2. (WsaP!Next \/ UNCHANGED WsaP!vars) /\ WsaP!ConstantsAssumption
    BY <2>1, SameWsa
  <2>. QED
    BY <2>2, WsaP!NextLinkInv, WsaP!NextStoryInv, WsaP!NextRestType DEF ThreadsInv
<1>. QED  BY <1>1, <1>2, <1>3 DEF ThreadsInv

\* The invariants of the three parts hold in every behaviour.
THEOREM ThreadsInvCorrect == ThreadsSpec => []ThreadsInv
<1>1. ThreadsInit => ThreadsInv
  BY InitThreadsInv
<1>2. ThreadsInv /\ [ThreadsNext]_allVars => ThreadsInv'
  BY NextThreadsInv
<1>. QED  BY <1>1, <1>2, PTL DEF ThreadsSpec

\* The types of the three parts.
THEOREM ThreadsTypeCorrect == ThreadsSpec => []ThreadsTypeOK
<1>1. ThreadsInv => ThreadsTypeOK
  <2>. SUFFICES ASSUME ThreadsInv PROVE ThreadsTypeOK
    OBVIOUS
  <2>1. TypeOK
    BY DEF ThreadsInv, LockInv
  <2>2. Life!TypeOK
    BY SameLife, LifeP!LifeInvProperties DEF ThreadsInv
  <2>3. Wsa!TypeOK
    BY SameWsa, WsaP!AllTypes DEF ThreadsInv
  <2>. QED  BY <2>1, <2>2, <2>3 DEF ThreadsTypeOK
<1>. QED  BY <1>1, ThreadsInvCorrect, PTL

\* A thread that was started ends after stop() only: it does not find
\* m_bOperate still false (start() against run()).
THEOREM EndsWhenStoppedCorrect == ThreadsSpec => []EndsWhenStopped
<1>1. ThreadsInv => EndsWhenStopped
  BY SameLife, LifeP!LifeInvProperties DEF ThreadsInv, EndsWhenStopped
<1>. QED  BY <1>1, ThreadsInvCorrect, PTL

\* exitSystem deletes the manager after the network thread has left its loop:
\* stop() does not take a thread that is about to run for one that has ended.
THEOREM NetEndsFirstCorrect == ThreadsSpec => []NetEndsFirst
<1>1. ThreadsInv => NetEndsFirst
  BY SameLife, LifeP!LifeInvProperties DEF ThreadsInv, NetEndsFirst
<1>. QED  BY <1>1, ThreadsInvCorrect, PTL

\* A thread uses its object after it was deleted in one case only, when
\* pthread_create failed for the worker; and a deleted manager is used by nobody
\* but a worker that was told to stop.
THEOREM ObjectsOutliveThreadsCorrect == ThreadsSpec => []ObjectsOutliveThreads
<1>1. ThreadsInv => ObjectsOutliveThreads
  BY SameLife, LifeP!LifeInvProperties DEF ThreadsInv, ObjectsOutliveThreads
<1>. QED  BY <1>1, ThreadsInvCorrect, PTL

\* No threads of a server ever wait for each other in a circle, however many
\* workers it has (the nesting in doSystemEvent, sendMsgToServer and
\* sendKeepaliveMsgToAllServer).
THEOREM NoWaitCycleCorrect == ThreadsSpec => []NoWaitCycle
<1>1. ThreadsInv => NoWaitCycle
  BY NoCycle DEF ThreadsInv
<1>. QED  BY <1>1, ThreadsInvCorrect, PTL

\* A thread that writes the keys, the current send map, the pointer to it or one
\* of the queues is alone with it, however many workers there are, but for the
\* reads that take no lock: the tests of m_pcursendmap, isEmptyWithoutLock,
\* sizeWithoutLock and the last LOG of createServerConnect.
THEOREM OnlyPeeksRaceCorrect == ThreadsSpec => []OnlyPeeksRace
<1>1. ThreadsInv => OnlyPeeksRace
  BY Apart DEF ThreadsInv
<1>. QED  BY <1>1, ThreadsInvCorrect, PTL

\* The Windows client has one link at a time, and loses no socket on the way.
THEOREM OneLinkUnderwayCorrect == ThreadsSpec => []OneLinkUnderway
<1>1. ThreadsInv => OneLinkUnderway
  BY SameWsa, WsaP!LinkInvOneLink DEF ThreadsInv, OneLinkUnderway
<1>. QED  BY <1>1, ThreadsInvCorrect, PTL

\* Of what reaches the worker of the Windows client of a connection "connected"
\* comes first and "disconnected" last.
THEOREM StoryInOrderCorrect == ThreadsSpec => []StoryInOrder
<1>1. ThreadsInv => StoryInOrder
  BY SameWsa, WsaP!StoryInvInOrder DEF ThreadsInv, StoryInOrder
<1>. QED  BY <1>1, ThreadsInvCorrect, PTL
=============================================================================
