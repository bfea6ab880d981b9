----------------------------- MODULE LockOrder ------------------------------
(***************************************************************************)
(* The four mutexes of CGlobalMgr and the threads that take them: the main *)
(* thread of testproj, which runs createServerConnect, the epoll thread    *)
(* and the worker threads.  CThreadLock is a plain pthread mutex: a thread *)
(* that takes it twice waits for itself.                                   *)
(*                                                                         *)
(* at[t] is the part of the code thread t is in; the data that chooses a   *)
(* branch is left out, so every branch can be taken.  A thread that asks   *)
(* for a lock is put at the part behind it and waits there, want[t] being  *)
(* the lock, until it gets it.  Shared state that is read without a lock   *)
(* is read at a part of its own: a test of a queue or of the pointer to    *)
(* the current map, a log line.                                            *)
(***************************************************************************)
EXTENDS Naturals

CONSTANTS
    Workers,    \* the worker threads
    NoLock,     \* want of a thread that runs
    Nobody      \* owner of a free lock

Main == "main"
Net == "net"
Thread == {Main, Net} \cup Workers

Server == "m_serverlock"
Send == "m_sendmaplock"
Recv == "m_recvlist"
Event == "m_eventlist"
Mutex == {Server, Send, Recv, Event}

ASSUME WorkersAssumption == Workers \cap {Main, Net} = {}
ASSUME NothingAssumption == NoLock \notin Mutex /\ Nobody \notin Thread

VARIABLES
    at,     \* where a thread is
    want,   \* the lock it waits for
    owner   \* the thread that holds a lock

vars == <<at, want, owner>>

Init ==
    /\ at = [t \in Thread |-> IF t = Main THEN "sleep"
                              ELSE IF t = Net THEN "batch" ELSE "idle"]
    /\ want = [t \in Thread |-> NoLock]
    /\ owner = [l \in Mutex |-> Nobody]

-----------------------------------------------------------------------------

Runs(t, from) == at[t] = from /\ want[t] = NoLock

Goto(t, from, to) ==
    /\ Runs(t, from)
    /\ at' = [at EXCEPT ![t] = to]
    /\ UNCHANGED <<want, owner>>

\* Lock() is called; the thread waits.
Lock(t, l, from, to) ==
    /\ Runs(t, from)
    /\ at' = [at EXCEPT ![t] = to]
    /\ want' = [want EXCEPT ![t] = l]
    /\ UNCHANGED owner

\* Lock() returns.
Granted(t) ==
    \E l \in Mutex :
        /\ want[t] = l /\ owner[l] = Nobody
        /\ owner' = [owner EXCEPT ![l] = t]
        /\ want' = [want EXCEPT ![t] = NoLock]
        /\ UNCHANGED at

UnLock(t, l, from, to) ==
    /\ Runs(t, from)
    /\ at' = [at EXCEPT ![t] = to]
    /\ owner' = [owner EXCEPT ![l] = Nobody]
    /\ UNCHANGED want

-----------------------------------------------------------------------------
(* The epoll thread, once around its loop.                                 *)

\* closeClient of the link to a server calls setServerSocket.
CloseInBatch == Lock(Net, Server, "batch", "close in batch")
ClosedInBatch == UnLock(Net, Server, "close in batch", "batch")

\* m_recvtmplst goes to the receive queue, if there is anything in it.
NothingReceived == Goto(Net, "batch", "events")
FlushRecv == Lock(Net, Recv, "batch", "flush")
Flushed == UnLock(Net, Recv, "flush", "events")

\* doSystemEvent keeps the queue locked over all of its events; ADD_CLIENT and
\* CLOSE_CLIENT of the link to a server call setServerSocket.  At "events" the
\* queue is tested for emptiness without its lock.
NoEvents == Goto(Net, "events", "switch")
DoSystemEvent == Lock(Net, Event, "events", "pop")
SetKey == Lock(Net, Server, "pop", "key")
KeySet == UnLock(Net, Server, "key", "pop")
EventsDone == UnLock(Net, Event, "pop", "switch")

\* Mutant of SwitchSendMap: the lock is not taken.
SwitchSendMapUnlocked == Goto(Net, "switch", "size")

SwitchSendMap == Lock(Net, Send, "switch", "size")

\* The current map is empty.
NothingToSend == UnLock(Net, Send, "size", "arm")

MergeMaps == Goto(Net, "size", "merge")
Switched == UnLock(Net, Send, "merge", "arm")

\* EPOLLOUT is asked for; closeClient when epoll_ctl fails.
CloseInArm == Lock(Net, Server, "arm", "close in arm")
ClosedInArm == UnLock(Net, Server, "close in arm", "arm")
Armed == Goto(Net, "arm", "timeout")

\* doKeepaliveTimeout.
CloseInTimeout == Lock(Net, Server, "timeout", "close in timeout")
ClosedInTimeout == UnLock(Net, Server, "close in timeout", "timeout")
NotYetTime == Goto(Net, "timeout", "batch")

\* Mutant of PingServer: sendMsgToServer is called with blocked.
PingServerBlocked == Lock(Net, Server, "ping", "ping")

\* sendKeepaliveMsgToAllServer holds m_serverlock over its four calls of
\* sendMsgToServer, which does not take it; a key that is set gets a message.
\* That addMsgToSendList and switchSendMap test m_pcursendmap before Lock()
\* is no part of its own here: only this thread assigns the pointer.
SendKeepalive == Lock(Net, Server, "timeout", "ping")
PingServer == Lock(Net, Send, "ping", "add ping")
PingAdded == UnLock(Net, Send, "add ping", "ping")
KeepaliveSent == UnLock(Net, Server, "ping", "batch")

NetStep ==
    \/ CloseInBatch \/ ClosedInBatch \/ NothingReceived \/ FlushRecv \/ Flushed
    \/ NoEvents \/ DoSystemEvent \/ SetKey \/ KeySet \/ EventsDone
    \/ SwitchSendMap \/ NothingToSend \/ MergeMaps \/ Switched
    \/ CloseInArm \/ ClosedInArm \/ Armed
    \/ CloseInTimeout \/ ClosedInTimeout \/ NotYetTime
    \/ SendKeepalive \/ PingServer \/ PingAdded \/ KeepaliveSent

-----------------------------------------------------------------------------
(* A worker: isEmptyWithoutLock at "idle", then outQueue and               *)
(* processMessage for as long as outQueue finds a message.                 *)

OutQueue(w) == Lock(w, Recv, "idle", "out")
GotNothing(w) == UnLock(w, Recv, "out", "idle")
GotMessage(w) == UnLock(w, Recv, "out", "message")
Processed(w) == Goto(w, "message", "next")
OutQueueAgain(w) == Lock(w, Recv, "next", "out")

\* createMsgToSendList: addMsgToSendList tests m_pcursendmap before Lock().
TestMap(w) == Goto(w, "message", "test map")
AddMsg(w) == Lock(w, Send, "test map", "add")
MsgAdded(w) == UnLock(w, Send, "add", "message")

\* sendMsgToServer, blocked: the message is made and added under m_serverlock.
SendToServer(w) == Lock(w, Server, "message", "relay")
KeyNotSet(w) == UnLock(w, Server, "relay", "message")
TestMapToRelay(w) == Goto(w, "relay", "test relayed")
Relay(w) == Lock(w, Send, "test relayed", "add relayed")
MsgRelayed(w) == UnLock(w, Send, "add relayed", "relayed")
SentToServer(w) == UnLock(w, Server, "relayed", "message")

\* createCloseConnectEvent for a message that was rejected.
Reject(w) == Lock(w, Event, "message", "reject")
Rejected(w) == UnLock(w, Event, "reject", "next")

WorkerStep(w) ==
    \/ OutQueue(w) \/ GotNothing(w) \/ GotMessage(w) \/ Processed(w) \/ OutQueueAgain(w)
    \/ TestMap(w) \/ AddMsg(w) \/ MsgAdded(w)
    \/ SendToServer(w) \/ KeyNotSet(w) \/ TestMapToRelay(w) \/ Relay(w)
    \/ MsgRelayed(w) \/ SentToServer(w)
    \/ Reject(w) \/ Rejected(w)

-----------------------------------------------------------------------------
(* The main thread: createServerConnect, and now and then the length of    *)
(* the receive queue, for the log.                                         *)

Look == Lock(Main, Server, "sleep", "look")
KeyIsSet == UnLock(Main, Server, "look", "sleep")
KeyIsUnset == UnLock(Main, Server, "look", "connect")
NotConnected == Goto(Main, "connect", "sleep")
Connected == Lock(Main, Server, "connect", "set")

Published == UnLock(Main, Server, "set", "queue")
InQueue == Lock(Main, Event, "queue", "in")
Queued == UnLock(Main, Event, "in", "log")

\* The queue is full: setServerSocket once more.
QueueFull == UnLock(Main, Event, "in", "full")
TakeBack == Lock(Main, Server, "full", "take back")
TakenBack == UnLock(Main, Server, "take back", "log")

\* The last LOG prints the key, and no lock is held.
Logged == Goto(Main, "log", "sleep")

\* sizeWithoutLock of the receive queue.
Report == Goto(Main, "sleep", "report")
Reported == Goto(Main, "report", "sleep")

MainStep ==
    \/ Look \/ KeyIsSet \/ KeyIsUnset \/ NotConnected \/ Connected
    \/ Published \/ InQueue \/ Queued \/ QueueFull \/ TakeBack \/ TakenBack \/ Logged
    \/ Report \/ Reported

-----------------------------------------------------------------------------

Next ==
    \/ NetStep
    \/ MainStep
    \/ \E w \in Workers : WorkerStep(w)
    \/ \E t \in Thread : Granted(t)

Spec == Init /\ [][Next]_vars

-----------------------------------------------------------------------------

NetPlaces == {"batch", "close in batch", "flush", "events", "pop", "key", "switch",
    "size", "merge", "arm", "close in arm", "timeout", "close in timeout", "ping", "add ping"}
WorkerPlaces == {"idle", "out", "message", "next", "test map", "add", "relay",
    "test relayed", "add relayed", "relayed", "reject"}
MainPlaces == {"sleep", "look", "connect", "set", "queue", "in", "full", "take back", "log",
    "report"}

Places(t) ==
    IF t = Net THEN NetPlaces ELSE IF t = Main THEN MainPlaces ELSE WorkerPlaces

TypeOK ==
    /\ at \in [Thread -> NetPlaces \cup WorkerPlaces \cup MainPlaces]
    /\ \A t \in Thread : at[t] \in Places(t)
    /\ want \in [Thread -> Mutex \cup {NoLock}]
    /\ owner \in [Mutex -> Thread \cup {Nobody}]

\* No threads wait in a circle, and none for itself: in every set of threads
\* one runs, or waits for a lock that none of them holds.  The locks are nested
\* in doSystemEvent, sendMsgToServer and sendKeepaliveMsgToAllServer.
NoWaitCycle ==
    \A S \in SUBSET Thread :
        (\A t \in S : want[t] # NoLock /\ owner[want[t]] \in S) => S = {}

-----------------------------------------------------------------------------
(* What the threads share: the places that write a datum, those that read  *)
(* it, and those that peek, that is read it without the lock it is under.  *)

\* The key of the server; log is the last LOG of createServerConnect.
Key == [
    writes |-> {"close in batch", "key", "close in arm", "close in timeout", "set"},
    reads |-> {"ping", "add ping", "relay", "test relayed", "add relayed", "relayed", "look"},
    peeks |-> {"log"}]

\* m_pcursendmap itself, and the map it points to.
MapPointer == [
    writes |-> {"merge"},
    reads |-> {"size", "add ping", "add", "add relayed"},
    peeks |-> {"test map", "test relayed"}]

CurrentMap == [
    writes |-> {"merge", "add ping", "add", "add relayed"},
    reads |-> {"size"},
    peeks |-> {}]

RecvList == [
    writes |-> {"flush", "out"},
    reads |-> {},
    peeks |-> {"idle", "report"}]

EventList == [
    writes |-> {"pop", "key", "reject", "in"},
    reads |-> {},
    peeks |-> {"events"}]

Data == {Key, MapPointer, CurrentMap, RecvList, EventList}

Uses(t, places) == want[t] = NoLock /\ at[t] \in places

\* A thread that writes shared state is alone with it, whatever the workers send
\* while switchSendMap swaps the maps and however the keys change, but for six
\* reads that take no lock: the tests of m_pcursendmap in addMsgToSendList
\* (directly and from sendMsgToServer), isEmptyWithoutLock of a worker and of
\* doSystemEvent, sizeWithoutLock in main() and the last LOG of
\* createServerConnect.  These six do race with the writers.
OnlyPeeksRace ==
    \A t, u \in Thread, d \in Data :
        Uses(t, d.writes) /\ Uses(u, d.writes \cup d.reads \cup d.peeks) =>
            t = u \/ at[u] \in d.peeks
=============================================================================
