# Verification of eupuserver

`eupuserver` is a small TCP server framework in C++: a library (`network`, `common`, `protocol`,
`logger`) with a network thread, worker threads and a main thread, and three programs built on it
(`usercentersvr`, `testproj`, the Windows client `p2ptrans`). This directory holds TLA+ modules that
model its core, the TLC configurations that check them on small instances, and proofs that TLAPS checks
for every value of the constants.

Running things, inside this directory: `tlc -workers 2 -config SendMap_safe.cfg MCSendMap`,
`tlapm SendMapProofs.tla` (likewise the other `...Proofs`).
`PROJECT.json` lists components, runs, mutants (a plausible bug for every
property of a passing run, which that property must reveal), the map from definitions to source lines,
findings, hazards and theorems.

## 1. The system

### Components

| Component | Source | State | Operations |
|---|---|---|---|
| Network thread `CEpollThread` | `network/src/epollthread.cpp` | `m_socketmap` (descriptor to `SOCKET_SET`), `m_recvtmplst`, `m_index`, epoll registrations, keepalive times | `startup`, `doListen`, `doEpollEvent` (the loop), `doAccept`, `doRecvMessage`, `parsePacketToRecvQueue`, `doSendMessage`, `doSystemEvent`, `doKeepaliveTimeout`, `closeClient` |
| Shared manager `CGlobalMgr` | `network/src/globalmgr.cpp` | two send maps (current and backup), one key per server type, receive queue, event queue | `createMsgToSendList`, `addMsgToSendList`, `switchSendMap`, `sendMsgToServer`, `createServerConnect`, `createCloseConnectEvent`, `setServerSocket` |
| Queue `SysQueue`, `CThreadLock` | `include/network/sysqueue.h` | a bounded list and a mutex | `inQueue`, `outQueue`, the same without the lock |
| Worker `CWorkBaseThread`, `CWorkThread` | `network/src/workbasethread.cpp`, `*/workthread.cpp` | the message in hand | `run`, `processMessage` |
| Thread base `CEupuThread` | `network/src/euputhread.cpp` | `m_bOperate`, `m_bIsExit`, a pending SIGUSR1 | `start`, `stop`, `pause`, `continues` |
| Programs | `usercentersvr/src/main.cpp`, `testproj/src/main.cpp` | the two thread objects | `initSystem`, `exitSystem`, the loop of `main` |
| Sockets | `network/src/netcommon.cpp` | none | `recv_msg`, `send_msg`, `doNonblockConnect` |
| Codec | `include/protocol/*.h` | the fields of a message | `OutputValue`, `InputValue`, `OutputString`, `InputString`, `In` and `Out` of the head and the notices |
| Byte buffers | `common/src/circularbuffer.cpp`, `include/common/ringbuffer.h` | a block with two regions, or with two indexes | `Read`, `Write`, `Remove`, `GetSpace`, ...; `put`, `get`, ... (used by no program of the repository) |
| Configuration | `common/src/globalconfig.cpp` | the options of `sysconf.json` | `initSysConfig`, getters |
| Windows client: `CWSAThread`, `p2ptrans` | `network/src/wsathread.cpp`, `p2ptrans/*.cpp` | as the epoll thread, without epoll: the loop goes over `m_socketmap` | `doWSAEvent`, `doRecvMessage`, `doSystemEvent`, `closeClient`, the connecting loop |
| Keepalive | `doKeepaliveTimeout`, `doSendKeepaliveToServer`, `ProcessKeepalive` | `refresh_time` of a connection, `m_checkkeepalivetime`, `m_lastkeepalivetime` | close what is silent, ping the servers, answer |
| Utilities, logging, receipts, build files | see section 8 | | not modelled |

### How they interact

* Workers and the main thread put messages into the **current send map** under `m_sendmaplock`. Once per
  loop the network thread swaps it with the **backup map** (`switchSendMap`), asks epoll for EPOLLOUT on
  every descriptor that has messages, and writes the list when the event comes.
* The network thread collects what it reads, and the notices "connected" and "disconnected", in
  `m_recvtmplst` and moves them to the **receive queue** once per loop; what does not fit is deleted.
  Workers take them from there.
* Workers (`CLOSE_CLIENT`) and the main thread (`ADD_CLIENT`) talk to the network thread through the
  **event queue**.
* The **server keys** (`m_serverlock`) are written by the main thread when it has connected, by the
  network thread when it adds or closes such a connection, and read by whoever sends to a server.
* A descriptor is only a number, and the kernel reuses it. What tells two connections with the same
  descriptor apart is `connect_time`, a counter (`getIndex`).

### What is hard here

Three threads share the maps, the queues and the keys and hold a lock for part of an operation only.
Descriptors are reused while messages and events that name them are under way. Epoll is edge triggered: a
readiness that is not used up, or not asked for again, is lost. Writes are partial, reads cut messages
anywhere, queues fill up, `epoll_ctl` and `inQueue` fail after half of an operation was done. Start and
stop touch plain flags from two threads. Four locks are nested in several ways. Two ends that write
do not read. Each of these places is a hazard in `PROJECT.json`, at its
line, with the properties that guard it.

What makes each part correct:

* *send path*: a connection is sent its own messages, whole, in order, none lost while it lives, and in
  the end; the lists respect their limit;
* *connections*: one server link, which the key names; no deleted `SOCKET_KEY` in the hands of epoll; no
  leaked descriptor; of what reaches the workers a connection's start comes first and its end last and once;
  the link comes back;
* *parser*: the messages of the peer, byte for byte, however the stream is cut; nothing left unread;
* *codec*: what one host writes every host reads; what is let through is what the peer's parser takes;
* *buffers*: a first-in first-out queue of bytes;
* *two ends*: nothing is left behind when they take turns at reading and writing; who answers pings is
  kept, who is silent is closed in time;
* *locks*: no circle of waiting threads; whoever writes shared state is alone with it, but for six reads the
  code makes without a lock;
* *start and end*: threads run until they are stopped, objects outlive their threads, the end is reached.

## 2. The modules

| Module | Models | Composition |
|---|---|---|
| `SendMap` | the two send maps and the writing half of the loop | |
| `MessageStream` | abstract: what the send path promises its callers | |
| `SendMapProofs` | theorems about `SendMap`, the last one that it implements `MessageStream` | extends it |
| `ServerLink` | connections, server key, both queues, three threads | |
| `ServerLinkProofs` | theorems about `ServerLink`: types and the link, then sockets and notices | extends it |
| `Framing` | `doRecvMessage`, `recv_msg`, `parsePacketToRecvQueue` for one connection | |
| `FramingProofs` | the inductive invariant of `Framing` | extends it |
| `Duplex` | both ends of a link that take turns at reading and writing | |
| `Keepalive` | the timers of both ends of a link | |
| `ConnectionProofs` | theorems about the three parts of a connection | extends `MCConnection`, instantiates `FramingProofs` |
| `ByteFifo` | abstract: what a byte buffer promises | |
| `BipBuffer` | `CircularBuffer` | implements `ByteFifo` |
| `RingBuffer` | `RingBuffer` | implements `ByteFifo` |
| `Codec` | `eupustream.h`, `protocol.h`, `sprotocol.h`, `createMsgToSendList` | |
| `BytesProofs` | theorems about both buffers, which implement `ByteFifo`, and about the codec | extends `MCBytes` |
| `Lifecycle` | `initSystem`, `exitSystem`, `CEupuThread` and both `run()` | |
| `LifecycleProofs` | the inductive invariant of `Lifecycle` | extends it |
| `LockOrder` | the four mutexes and every way the threads nest them | |
| `WsaLoop` | the Windows client: `CWSAThread`, main thread and worker of `p2ptrans` | |
| `WsaLoopProofs` | theorems about `WsaLoop` | extends it |
| `ThreadsProofs` | theorems about the locks, and about the three parts of the threads | extends `MCThreads`, instantiates `LifecycleProofs` and `WsaLoopProofs` |
| `MC*` | the instances for TLC | see below |

Modules that ask kindred questions share a run, in which a variable says which of them a behaviour is
about: `MCLive` (`SendMap`, `ServerLink`, both with fairness), `MCConnection` (extends `Keepalive`,
instantiates `Framing` and `Duplex`), `MCThreads` (extends `LockOrder`, instantiates `Lifecycle` and
`WsaLoop`), `MCBytes` (both buffers, the codec). The
state space of such a run is the sum of its parts, not their product. The proofs follow: the
properties of such a run are proved about the specification the run checks, from the invariants of its parts.

Definitions named `... Mutant of X` in the comments are deliberate mistakes in X; nothing uses them.

### SendMap

`cur` and `bak` are `*m_pcursendmap` and `*m_pbaksendmap` (the empty sequence: no entry), `live` is
`m_socketmap`, `armed` the descriptors registered for EPOLLOUT, `room` what the kernel still buffers,
`pending` the descriptors the main thread has connected and the loop has not added. `pc` walks through
`doEpollEvent`: `wait` (epoll_wait), `batch` (its events, `send` inside `doSendMessage`), `events`
(`doSystemEvent`), `switch` (`switchSendMap`), `arm` (EPOLLOUT), `keepalive`. One step of `doSendMessage`
is one message: dropped as stale (`DropStale`), written (`SendWhole`), written in part (`SendPart`) or
failed (`SendFails`), so that other threads add messages in between, as they can in the code, which holds
no lock there. `Send` is `createMsgToSendList` or `sendMsgToServer` by any thread. Bytes are counted in
units. `msgs` and `wire` are histories: what was accepted, and which units were written to which
connection. `ArmOutput` and `ArmCrash` are the two outcomes of the undefined read at line 258.

`spilled` marks descriptors whose list `switchSendMap` let grow above its limit (a finding); order and
limit are only promised for the others.

### MessageStream

The contract of `sendMsg` without maps, descriptors, threads or events: the messages accepted for a
connection are written to it one after the other, none left out, none twice, none of another connection in
between; a closed stream ends wherever it is. `SendMap` implements it with `accepted <- msgs`, `sent <-
wire`, `up` the connections in `m_socketmap` and `loose` those whose descriptor `spilled` holds.

### ServerLink

`sock` is the owner the kernel knows for a descriptor, `reg` what epoll holds, `map` is `m_socketmap`,
`key` the server key, `eventq`, `recvtmp` and `recvq` the queues, `hand` the message of the worker, `main`
the place of the main thread inside `createServerConnect`, `batch` the events of one `epoll_wait`. Every
critical section is one action; between two of them the other threads run. `EventQueueFree` is the lock of
the event queue, which the network thread holds while it drains it. `misclosed` and `failed` are
histories: `closeClient` hit a foreign socket (a finding), `addClientToEpoll` refused a connection. `told` is
a history of what was collected in `recvtmp`, before `FlushRecv` drops what the receive queue has no room
for. So `EndIsTold` says that the end of every connection was put on its way, and `SessionOrder` orders
what reaches a worker; that a worker hears it is promised by neither, and by no line of the code: with a full
queue it may hear data first, and no end.

### Framing

Units are pairs (message, place), so that a unit in the wrong place is seen. The peer sends one unit a
step (`tosend` is the next one); a larger piece is several such steps before the next one of the loop. `kbuf` is the socket's
buffer, `part` is `part_buf`, `buf` and `curpos` are those of the parser, one message per step. `edge` is
epoll's edge-triggered report. `misread` is a history: `part_buf` was filled from the wrong place (a
finding).

### Duplex

`Framing` and `SendMap` each see one direction; this module sees a client that asks and a server whose
worker answers each message, over a network that holds `Cap` messages each way. Messages are counted, not
told apart. `reg` and `ready` are what epoll knows: while a list is left over the descriptor is registered
for EPOLLOUT *instead of* EPOLLIN, so that an end with output does not read. `Beat` is half a keepalive
period; it passes when neither end has anything to do, which is how far apart the two time scales are.

What comes out: as long as one end can move, everything is delivered. A client that keeps asking without
waiting for answers can fill both directions, and then neither end reads any more (`MutualBlock`); no event
will ever come, and only the keepalive timeout ends the link, with what was queued on it. No document of the
repository promises otherwise, hence this is no finding, but it is a limit the users of the library have to
know.

### Keepalive

Times are kept as ages in seconds. Both ends look for silent connections every half period, starting
anywhere in it, `refresh_time` moves with input only, and only the client pings, also every half period.
`NetworkAssumption` (half a period and two delays fit into the timeout) is what the choice of periods
relies on; it is a premise of `LiveLinkKept` alone. `lost` records a ping the full receive queue of
the server swallowed: one such ping is enough to lose a link of two healthy ends. `Freeze` is a host or a
network that is gone without a FIN.

### BipBuffer, RingBuffer, ByteFifo

Every public call is an action. `out` and `last` show what the call returned, so that the refinement
compares results, not only contents. `CircularBuffer` keeps a write in one piece and may refuse one that
would fit in two (`Exact = FALSE`), `RingBuffer` refuses exactly what does not fit. A remark on
`isempty()`: `put()` that ends with the block leaves `r` at `bufsize`, and once `get()` has brought `h`
round to 0 the buffer is empty while `isempty()` says it is not. `RingTestsAgree` states that this is the
only such state.

### Codec

A host stores an integer in one of two orders; `htonl` and its relatives are modelled by what they do,
`hl64ton` and `ntohl64` by their two halves. An integer of n bytes is the word of its n digits (`Word(n)`),
the most significant first, so masks and shifts by whole bytes are `High` and `Low`; arithmetic is needed
for lengths alone (`Short`, `Long`). `Out` of the head puts five fields one behind the other, each into the room the
earlier ones left; `In` reads them at the places `Before` gives. `Receive` reads the head and the stream on
either kind of host from every prefix of the message.

The bounds of strings are tested as `int32_t` (`Int32`), as in the code. The length fields in the model are
those `OutputString` writes; one of 2^31 - 1 or more, which it never writes, would pass both tests of
`InputString` (the outcome `Overruns`), and no property is about such a field.

### Lifecycle

`start()` is five steps (create, detach, `m_bOperate`, `m_bIsExit`, signal), and the new thread may run
between any two of them. SIGUSR1 is blocked in every thread, so a signal that comes before `sigwait` stays
pending. `dangling` records the use of a deleted object; the thread that did it is followed no further. The
worker looks at `m_bOperate` only between two rounds: once it is at its queue (`drain`) it goes on for as long
as there are messages, so that after `stop()`, which does not wait for it, it can meet a manager that was
deleted. `ObjectsOutliveThreads` says that this happens to nobody else.
`main()` never leaves its loop as it is written, and reaches `exitSystem` only when a start failed;
`LoopEnds = TRUE` lets it end, which is what `exitSystem` was written for.

### LockOrder

`at[t]` is the part of the code a thread is in, `want[t]` the lock it waits for, `owner[l]` who holds a lock.
The data that chooses a branch is left out, every branch can be taken: what holds here holds whatever
the data is. `CThreadLock` is not recursive, a thread that takes a lock twice waits for itself.
`Key`, `MapPointer`, `CurrentMap`, `RecvList` and `EventList` say at which places a datum is written, read
under its lock, or read without it ("peeks"). Every read of these without a lock that another thread's write can meet is
a place of its own, six in all: the test of `m_pcursendmap` in `addMsgToSendList` (from a worker directly and
through `sendMsgToServer`), `isEmptyWithoutLock` of a worker and of `doSystemEvent`, `sizeWithoutLock` in
`main()` and the last log line of `createServerConnect`, which prints the key. `OnlyPeeksRace` says that
whoever writes is alone with the datum but for these six. They do race: in C++ that is undefined
behaviour, and what it does is not modelled. As far as the values go, the tests of emptiness only decide when to look
again, the pointer is never NULL, and a size and a key go to the log. The backup map and `m_recvtmplst`
belong to the network thread alone.

### WsaLoop

`doWSAEvent` is not the epoll loop on another system; what differs is in the head of the module.
`m_listenfd` never gets into `m_socketmap` and nothing is accepted, so that the one connection is the link
to `usercentersvr`; `doSendMessage` is called without a key and writes nothing; timeouts are commented
out; `closeClient` erases the map entry whose iterator the loop goes on with (`EraseUnderLoop`, both outcomes).
`recv_msg` looks at `errno`, which `recv()` of Winsock does not set: the model takes it that no other call of
the loop leaves EAGAIN or EINTR there. Then everything that was read is thrown away unless the buffer
was full (a finding), and a link that was *reset* is never noticed, which `LinkComesBack` therefore promises
for closed links only. On the other hand the key that cannot be taken back (finding 4) does no harm here:
`OneLinkUnderway` shows that the event queue is never full.

## 3. The runs

| Run | Question | Bounds | Distinct states |
|---|---|---|---|
| `SendMap_safe` | own traffic, order, loss, limits | 2 descriptors, 3 connections, 3 messages of up to 2 units, list limit 2, send buffer 1 | 2,712,150 |
| `SendMap_overflow` | does a list stay within its limit? (violated) | as `SendMap_safe` | |
| `SendMap_crash` | does the loop survive messages of a closed peer? (violated) | as `SendMap_safe` | |
| `ServerLink_safe` | one link, its key, dangling keys, leaks, order of notices | 3 descriptors, 3 connections, event queue 1, receive queue 1, map 2 | 2,118,342 |
| `ServerLink_misclose` | does a close hit its connection only? (violated) | 2 descriptors | |
| `ServerLink_keyback` | is the key taken back when the queue is full? (violated) | 2 descriptors | |
| `Live` | is every accepted message written, does the link come back, does `SendMap` implement `MessageStream`? | 2 descriptors, 2 connections, 2 messages of up to 2 units, list limit 1, queues 3, map 2 | 184,582 |
| `Connection` | parser: exact messages, limits of `part_buf`, nothing stranded; two ends: nothing left behind, blocked ends part; timers: live links kept, silent ones closed | parser: 3 messages of 2 to 4 units and bad lengths, buffer 8 = 2 * 4; ends: 1 message in the network each way, 4 asked; timers: timeout 4 s, delay 1 s | 275,255 |
| `Framing_misread` | are the messages exact without exception? (violated) | parser as in `Connection` | |
| `Bytes` | buffers implement the queue; codec round trip and limits | block of 4, calls of up to 5 bytes; ring of 1 and 4 cells, integers modulo 8; byte of 10 values, 17 bytes a message, three words of each width, strings of 0 to 6 bytes, a room of up to 10 | 86,346 |
| `Threads` | threads, flags, deletes, the end; waiting circles and races; the link of the Windows client | 2 threads that end; 2 workers and 4 locks; 2 descriptors, 2 connections, event queue 1, receive queue 2, 2 unread messages | 122,780 |
| `Wsa_recv` | is what was read always parsed on Windows? (violated) | as `Threads` | |

Why the bounds are enough. Everything interesting in the send path and with connections is about one
descriptor that is reused while a second one lives: two descriptors and three connections give a reuse
and an innocent bystander. Two messages in a list make an order, a third one overflows it; messages of
two units and a send buffer of one make every write of a long message partial. A map of two entries with
three descriptors makes `addClientToEpoll` fail while a socket is open. An event queue of one is full as
soon as two threads use it. A receive queue of one is full behind the message in the
worker's hands while the loop collects more, which is all the order of the notices depends on. In the parser, the buffer is twice the largest message, the least the code
allows; three messages give a message before and behind the one that is cut. The buffers are explored
over every order of calls, the bound is on the block alone. One message in the network and four asked
are enough for both directions to fill up and for a list to be left over twice (the pings of `Beat` come
on top). In the codec, of the three words of a width one has all digits different, so that no two bytes can
be exchanged unseen; the longest string makes a body that just fits, is refused for the room asked for, or would pass
`MAX_SEND_SIZE`. A timeout of 4 has half
periods of 2, so that every phase of the three timers against each other occurs, and with a delay of 1
`NetworkAssumption` holds with equality. Two workers are what a race or a circle between workers
takes; the theorems of section 5 are about any number. `MaxConns`, `MaxMsgs` and `NMsgs` bound
counters the code does not bound; `MaxAsked` and `MaxUnread` bound what an application or a server sends.
No run uses a state constraint.

Symmetry over descriptors is used in the safety runs only: no action orders them (the kernel hands out
the lowest free one; the model any free one, which includes that).

Deadlock is not checked in `Connection`, where a link ends, and in `Threads` and `Wsa_recv`, where a
process does; it is checked everywhere else. `SendMap` has the explicit step `Dead` of a crashed process,
the codec the step `Deleted`.

### Fairness

* `Live`, send path: weak fairness of the loop (the thread runs as long as the process does) and of every
  peer's reading. No fairness for accepts, messages, events.
* `Live`, connections: weak fairness of the loop's own steps and of the main thread, which calls
  `createServerConnect` every five seconds; strong fairness of `OpenSocket` and of `Connected`: `socket()`
  and `connect()`, which can each fail for reasons of their own, do not fail for ever. None for clients,
  timeouts or workers.
* `Connection`: weak fairness of the loops of both ends, of the server's worker and of time. None for the
  client's application. The parser and the timers are checked for safety only.
* `Threads`: weak fairness of both threads of `Lifecycle` and of the main thread outside of its endless
  loop; of the loop and the main thread of `WsaLoop`, with strong fairness of `Connected` as above. The
  operating system schedules them. The locks are checked for safety only.

The liveness properties name what may legitimately prevent them: `EventuallyWritten` excepts closed
connections, overflowed lists and the crash, `LinkComesBack` of `ServerLink` a closed foreign socket, a
refused connection, a key that was not taken back, exhausted descriptors and the bound on connections, that
of `WsaLoop` the end of the process and the bound, `OutputEnds` the end of the link.

## 4. Findings

Each one is a run that TLC ends with a counterexample, and quotes what the repository itself says.

1. `SendMap_overflow`: `switchSendMap` never increments `idx`, so its limit check passes always: the list
   exceeds `sys_send_queue_size`, and messages change places.
2. `SendMap_crash`: the log call for a connection that is not in `m_socketmap` reads through
   `m_socketmap.end()`.
3. `ServerLink_misclose`: `closeClient(fd, conntime)` never looks at `conntime`: a late `CLOSE_CLIENT`
   closes the connection that got the descriptor since.
4. `ServerLink_keyback`: with a full event queue `createServerConnect` means to take its key back but
   names type 1, the client type, for which `setServerSocket` resets nothing.
5. `Framing_misread`: an incomplete header behind a whole message is saved from the beginning of the
   buffer.
6. `Wsa_recv`: on Windows `recv_msg` cannot tell that everything was read, for `errno` is not set;
   `CWSAThread::doRecvMessage` expects "EAGAIN" there and leaves without parsing what is in the buffer.

The other properties of these modules hold as long as the finding they touch has not occurred, which the
histories `spilled`, `crashed`, `misclosed`, `misread` and `dropped` say; they show that nothing else goes wrong.

## 5. What is proved

Every theorem holds for all values of the constants that satisfy named assumptions, which are as weak as
the code allows:

* `SendMap`, `ServerLink`: any set of descriptors, any positive limits (`ConstantsAssumption`,
  `NoneAssumption`: None is no descriptor).
* `LockOrder`: any set of workers (`WorkersAssumption`, `NothingAssumption`: the workers are neither the main nor
  the network thread, the two values for "none" are neither locks nor threads).
* `Keepalive`: any delay and any timeout of at least two seconds (`PeriodsAssumption`; with a timeout of one
  the half period is zero seconds, and the bound would be missed by one).
* `Framing`: any length of header and message and any buffer of at least twice the largest message, which is what
  `startup` allocates. `Duplex`: any room in the network of at least one message.
* `WsaLoop`: any sockets, an event queue with room for one event.
* `BipBuffer`: a block of any size. `RingBuffer`: any sizes up to half the range of an index (the guard of
  `Allocate`), bytes with a zero. In both the bound on the bytes of one call is no less than the block.
* `Codec`: a byte of any number of values, any integers of 1, 2, 4 and 8 bytes, any strings without a zero
  that are shorter than 2^31 bytes with their length, any room, and a `MAX_SEND_SIZE` that the 16 bits of the length can hold (2048 in the code) and that is no less than a notice.

All of these are assumptions TLC evaluates for the constants of the runs. Where a module is instantiated by
an `MC` module (`Framing`, `Duplex`, `RingBuffer`, `Codec`, `WsaLoop`), the assumption is made there, and the theorems
about the module alone have it as a hypothesis.

| Theorem | States | Module |
|---|---|---|
| `TypeCorrect` | `Spec => []TypeOK` | `SendMapProofs` |
| `OwnTrafficCorrect` | `Spec => []OwnTraffic` | `SendMapProofs` |
| `ListsBoundedCorrect` | `Spec => []ListsBounded` | `SendMapProofs` |
| `StreamIntactCorrect` | `Spec => []StreamIntact` | `SendMapProofs` |
| `NoneLostCorrect` | `Spec => []NoneLost` | `SendMapProofs` |
| `ImplementsStreamCorrect` | `Spec => ImplementsStream` | `SendMapProofs` |
| `TypeCorrect` | `Spec => []TypeOK` | `ServerLinkProofs` |
| `OneServerLinkCorrect` | `Spec => []OneServerLink` | `ServerLinkProofs` |
| `LinkHasKeyCorrect` | `Spec => []LinkHasKey` | `ServerLinkProofs` |
| `KeysAliveCorrect` | `Spec => []KeysAlive` | `ServerLinkProofs` |
| `NoLeakCorrect` | `Spec => []NoLeak` | `ServerLinkProofs` |
| `EndIsToldCorrect` | `Spec => []EndIsTold` | `ServerLinkProofs` |
| `SessionOrderCorrect` | `Spec => []SessionOrder` | `ServerLinkProofs` |
| `FramingInvCorrect` | `Spec => []FramingInv` | `FramingProofs` |
| `ConnectionInvCorrect` | `ConnectionSpec => []ConnectionInv` | `ConnectionProofs` |
| `ConnectionTypeCorrect` | `ConnectionSpec => []ConnectionTypeOK` | `ConnectionProofs` |
| `PartFitsCorrect` | `ConnectionSpec => []PartFits` | `ConnectionProofs` |
| `ExactUnlessMisreadCorrect` | `ConnectionSpec => []ExactUnlessMisread` | `ConnectionProofs` |
| `NothingStrandedCorrect` | `ConnectionSpec => []NothingStranded` | `ConnectionProofs` |
| `RestIsDeliveredCorrect` | `ConnectionSpec => []RestIsDelivered` | `ConnectionProofs` |
| `ClosedOnlyWhenStalledCorrect` | `ConnectionSpec => []ClosedOnlyWhenStalled` | `ConnectionProofs` |
| `SilenceEndsCorrect` | `ConnectionSpec => []SilenceEnds` | `ConnectionProofs` |
| `LiveLinkKeptCorrect` | `ConnectionSpec => []LiveLinkKept` | `ConnectionProofs` |
| `LifeInvCorrect` | `Spec => []LifeInv` | `LifecycleProofs` |
| `TypeCorrect` | `Spec => []TypeOK` | `WsaLoopProofs` |
| `OneLinkUnderwayCorrect` | `Spec => []OneLinkUnderway` | `WsaLoopProofs` |
| `StoryInOrderCorrect` | `Spec => []StoryInOrder` | `WsaLoopProofs` |
| `LockInvCorrect` | `Spec => []LockInv` (of `LockOrder`) | `ThreadsProofs` |
| `ThreadsInvCorrect` | `ThreadsSpec => []ThreadsInv` | `ThreadsProofs` |
| `ThreadsTypeCorrect` | `ThreadsSpec => []ThreadsTypeOK` | `ThreadsProofs` |
| `EndsWhenStoppedCorrect` | `ThreadsSpec => []EndsWhenStopped` | `ThreadsProofs` |
| `NetEndsFirstCorrect` | `ThreadsSpec => []NetEndsFirst` | `ThreadsProofs` |
| `ObjectsOutliveThreadsCorrect` | `ThreadsSpec => []ObjectsOutliveThreads` | `ThreadsProofs` |
| `NoWaitCycleCorrect` | `ThreadsSpec => []NoWaitCycle` | `ThreadsProofs` |
| `OnlyPeeksRaceCorrect` | `ThreadsSpec => []OnlyPeeksRace` | `ThreadsProofs` |
| `OneLinkUnderwayCorrect` | `ThreadsSpec => []OneLinkUnderway` | `ThreadsProofs` |
| `StoryInOrderCorrect` | `ThreadsSpec => []StoryInOrder` | `ThreadsProofs` |
| `BytesInvCorrect` | `BytesSpec => []BytesInv` | `BytesProofs` |
| `ImplementsByteFifoCorrect` | `BytesSpec => ImplementsByteFifo` | `BytesProofs` |
| `RingImplementsByteFifoCorrect` | `BytesSpec => RingImplementsByteFifo` | `BytesProofs` |
| `RingTestsAgreeCorrect` | `BytesSpec => []RingTestsAgree` | `BytesProofs` |
| `BytesTypeCorrect` | `BytesSpec => []BytesTypeOK` | `BytesProofs` |
| `LetsThroughWhatFitsCorrect` | `BytesSpec => []LetsThroughWhatFits` | `BytesProofs` |
| `ArrivesAsSentCorrect` | `BytesSpec => []ArrivesAsSent` | `BytesProofs` |

The argument for `SendMap`:

* `TypeOK` is not inductive: `doSendMessage` writes to `wire[live[sending]]`, which needs `sending` to
  be connected. `TypeInv` adds `EventsInv` (an event of the batch is about a connection that is in the map,
  and no descriptor has two) and `LiveInv` (what is armed is connected, what waits for `ADD_CLIENT` is not,
  the map knows a connection under its own descriptor).
* For the messages, steps fall into few kinds: those that touch neither maps nor histories (`Quiet`), a
  write (`SendSome`), a dropped message, the switch and an accepted message. Each invariant is proved once
  per kind.
* `OwnTraffic` needs that what waits in a map still names the connection it was accepted for (`MsgInv`,
  with the sets of accepted and sent messages).
* `StreamIntact` and `NoneLost` need the order of what waits. `OrderInv` says for every descriptor that
  did not overflow, about `Line(f) == bak[f] \o cur[f]`: it is ordered by acceptance (`InOrder`), only its
  first message can have been started (`TailWhole`), nothing in the current map has (`AllWhole`), a
  started message continues the last chunk of its connection (`HeadStarted`), and what waits is newer
  than what the connection was sent last or is the rest of it (`LinkContinues`). `switchSendMap` without
  an overflow keeps `Line(f)`, a write shortens its head, an accept extends its end: so the invariant is
  about one sequence, however it is split between the two maps.
* `ImplementsStream` needs one more invariant, `LastNewest` (no message a connection was sent is newer than the
  last one). A chunk that is written continues or follows the last one by `OrderInv`. Had an accepted
  message been skipped, `NoneLost` says it would be queued, and then it is not older than the head of the
  line, or written, and then it is not newer than the last chunk. The other steps map to the abstract ones one
  by one: an accepted message to `Accept`, quiet steps to `Open` or `Close`, an overflowing switch to
  `LetGo`, the rest to stutters.

The argument for `ServerLink` has three inductive invariants, the last two on top of the first.

* `LinkIInv`: types, and where the link is (`LinkInv`). There is no link and the key is unset; or the main
  thread has set the key and not queued its event (`Announced`); or exactly one `ADD_CLIENT` is queued
  (`Queued`); or the connection came to nothing and the key stays behind (`Stranded`, finding 4); or one entry
  of the map is the link (`Up`). The main thread connects in the first case only, because the key is tested
  before, and nobody else sets it: that is why testing the key without holding the lock until it is set does
  no harm. `TypeOK` itself needs this: a number for the connection of an event that is queued is left because
  there is one such event at most (`RoomInv`).
* `SockInv`, as long as no `close()` hit a foreign socket: an entry of the map is the socket its descriptor
  names, an event of the batch is about an entry of the map, an open descriptor is in the map and with epoll
  or on its way, and what left the map was reported. The four need each other: `Accept` gets a
  free descriptor, which therefore is not in the map and in no event of the batch; `ADD_CLIENT` finds its
  descriptor unknown to epoll, which therefore still is the main thread's.
* `TalkInv`: of every connection the first notice is "connected", only the last is "disconnected", and then the
  connection has left the map (`ToldInv`); a "disconnected" on its way was told (`WayTold`). So a notice that
  is collected for an entry of the map follows no "disconnected" on its way. Taking, finishing and dropping
  messages leave a part of the way (`PartOf`), collecting one adds it at the end.

The argument for `Framing`: `Trail` is everything on its way to the parser, one behind the other: what was kept
back, what is left of the buffer, what is in the socket, and the unit the peer sends next. `Chained` says of any two
of its units how far the second is behind the first: as far as their distance in the trail, as long as that is
within one message or the start of the next. So, without a fold over the messages, a trail that begins with the
first unit of a message begins with all of it once it is long enough, and continues with the first unit of the next
one. Reading moves units from one part of the trail to the next (`Trail` stays as it is), parsing a message
takes it off the front, and an arrival extends the end. The rest of `FramingInv` says where bytes can
be: nothing in the buffer while none is parsed, nothing in the socket once it was read to its end but with a new edge
(`EdgeInv`, which is what `NothingStranded` needs), less than a message in `part_buf`.

The argument for `Duplex`: `RegInv` says what an end is registered for at each place of its loop, `EdgeKept` that an
end for which what it is registered for has happened is on the ready list; a change of the registration is an
edge of its own, and that is why none is lost. At rest nobody is on that list, so an end registered for
input has nothing to read, one registered for output no room, and `RestIsDelivered` follows. For
`ClosedOnlyWhenStalled`, `PingInv` says that an end that has read nothing for half a period has a ping or its
answer on the way; time passes at rest only, so that then both ends wait for room (`Blocked`). From there
the pings pile up, which is why the count of the messages under way has two cases (`CountInv`).

The argument for `Lifecycle`: `LifeInv` is a table of what there is at each step of `main()` (`Managers`, `Objects`),
and of the flags of each thread: while `start()` is at work on it, a thread waits for a signal that was not sent
(`Starts`), and when it runs `m_bOperate` was set, and `m_bIsExit` reset, before (`Flags`). So the order of
the three assignments in `start()` and the signal behind them are what `EndsWhenStopped` and `NetEndsFirst` rest on.
`Holding` says that a worker at its queue holds the manager there is, unless it was told to stop: the manager
is deleted behind `StopWork` only.

The argument for `LockOrder`: `LockInv` says that a thread holds a lock exactly in the places of the code
between `Lock()` and `UnLock()`, and that a thread that waits is at the place behind. Every step takes or
returns at most one lock, so that three lemmas (`GotoKeeps`, `LockKeeps`, `UnLockKeeps`) and one for
`Granted` cover all of them. Event queue, server key and send map are taken in this order (the receive
queue is never nested), hence a thread waits only for locks that rank above all it holds; in a set of
threads that wait for each other, follow the waiting to the highest rank. `OnlyPeeksRace` follows because
the places that write a datum, and those that read it but for the peeks, are all inside its lock (`Apart`).

The argument for `Keepalive`: `SilenceInv` compares two ages. After a look that finds a connection in time,
`silent` is at most the timeout plus `checked`, and both grow together until the next look is due; the loop gets
there within the second, which is the one second in the bound. `PingsInv` follows a ping: `pinged` never
stays at `Interval` for a whole second; what the server has heard is as old as the last ping, or older than the
oldest unread one by a period at most; what the client has heard likewise, with one more delay for the
answer. So neither age exceeds half the timeout and two delays, and `NotTimedOut` says that this is in time.

The argument for `WsaLoop`: `LinkInv` says that there is either no link and no socket at all (`NoLink`), or one
that the key names, with the main thread, in the event queue or in `m_socketmap` (`LinkAt`). Each step keeps
it where it is, moves it on, makes the first one while there is none, or ends it. `StoryInOrder` needs to know
what can still come: `StoryInv` says that the worker has heard nothing of a connection, and will hear nothing from
what is on its way, while the connection is not made, is with the main thread or is in the event queue
(`Fresh`), and that no end of it is on its way while it is in `m_socketmap` (`Open`; by `LinkInv` it is
the only connection then). So "connected" is appended to the story of a fresh connection, anything else to that
of an open one (`AppendInOrder`); the flush cuts the story at its end (`BeginningInOrder`) and the worker
takes it from its head (`HearingKeeps`).

The argument for `BipBuffer`: `BipInv` says that region A is inside the block and at its start when it is
empty, that region B, if there is one, is at the start of the block, ends before A and A, whose
bytes are older, is not empty, and that what `GetSpace` told is still the room there is. So a write into either region touches no
stored byte (`AppendToA`, `AppendToB`), and an empty buffer has room for all of the block. Taking bytes either
stays within A (`CutInA`) or uses A up, and then what is left of B is moved to the start (`MoveB`). `Stored`, the
bytes of A followed by those of B, is the content of the queue; each call is one of its steps, `GetSpace` none.

The argument for `RingBuffer`: the indexes are taken modulo the block and their sums modulo the integers of the machine,
and `r` alone may equal `bufsize`. `Between` is the distance of two indexes without either modulus. `SizeIs`
shows that `getsize()` computes it although its sum may wrap, because twice the block fits into an index. From
there on the proof is about distances: `put()` adds to the one between `h` and `r` and writes the cells ahead of
`r`, of which none is stored because fewer than `getfree()` are written; `get()` takes from it. A piece that goes
round the end of the block is no case of its own, because the cell `p` ahead of an index is (`Place`).

The argument for `Codec`: `LetsThroughWhatFits` and `ArrivesAsSent` speak of a host that reads without knowing which
kind of host wrote, so `CodecInv` says of the bytes themselves what they are. `Bears` says that they are as
many as head and body need, and where each field and the body stand in them (`Has`), the most significant digit
first whatever the host. What is written last stands at the end and moves nothing (`JoinHas`), which gives the head
field by field and the body behind it; a word that stands at a place is read there by either host
(`InputValueIs`), because each order of bytes, `hl64ton` included, undoes itself (`HalvesTurned`, `SameOnEveryHost`,
`OutputValueIs`). A
length is read back because it is less than the square of the values of a byte, which `MAX_SEND_SIZE`
is for (`ShortNumberIs`, `LongNumberIs`). `TooLong` is the only reason for a refusal (`CreateMsgIs`, `NoticeOutIs`).

The three `MC` modules that hold several parts need little more: a step belongs to one part, which keeps its
invariant, and leaves the variables of the others alone.

## 6. What is only model-checked

* Liveness everywhere (`EventuallyWritten`, both `LinkComesBack`, `OutputEnds`, `ExitEnds`): fairness and ENABLED are
  out of the prover's reach.

All invariants of the passing runs and all three refinements are proved. The findings of section 4 are
counterexamples TLC gives, and the invariants around them are proved for behaviours without one.

## 7. Plan

Done: all modules of section 2, and a proof of every safety property of a passing run.

Open:

1. the backlog of the listening socket, which would show a client that is not accepted until the next one comes
   (`doAccept` stops at the first error);
2. pure functions of `Utility` (`CheckDate`, `DiffTime`, `Base64Decode`).

A new module joins a run that asks a kindred question.

## 8. What is not modelled

* Wall-clock time outside of `Keepalive`: in `SendMap` and `ServerLink` timeouts and pings can happen at any
  moment, which over-approximates the timers; their periods are the subject of `Keepalive` alone.
* More than one server type: every type has a key of its own that is handled alike.
* More than one worker, but in `LockOrder`: `main()` starts one, whatever `work_threads` says.
* The backlog of the listening socket (`doAccept` stops at the first error of `accept()`): an accept is
  possible in any batch.
* Of the Windows thread: `startup` and `doListen`, and `doAccept`, `doSendMessage` and `doKeepaliveTimeout`,
  which its loop never reaches with anything to do; `exitSystem` of `p2ptrans`, whose main loop does not end.
* The wrap of `getIndex` after 2^32 - 2 connections, and sums of a `RingBuffer` beyond half the range of
  its indexes; a small model cannot reach the first, the guard of `Allocate` excludes the second.
* Failing allocations: the code ends the process.
* What a race does. The six reads without a lock are places of `LockOrder`, and `OnlyPeeksRace` names them; in the
  other modules such a read gives a value the datum has.
* Length fields of strings that `OutputString` does not write, and what `InputString` copies for them.
* Payloads, addresses, logging, the command line.
* `utility.cpp`, `common.cpp`: formatting and system calls without
  state. `inet_ntop.c`, `inet_pton.c`: third-party. `logger`, `exceptionhandle.h`: output only. `vrbase`:
  all of it in a library. `counter.h`: used nowhere. `appmsg`: generated. Makefiles: no behaviour.
