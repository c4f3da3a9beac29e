# magicnet in TLA+

magicnet is a single-threaded network core in C (epoll on Linux, completion
ports on Windows), with a gateway and a client library for the services behind
the gateway built on top of it. This directory holds TLA+ models of both cores,
of their lists and byte streams, of the gateway and the service side, and of the
C++ engine over the core; the TLC configurations that check them on small
instances; and TLAPS proofs about all of them for every value of their
parameters.

Paths such as `src/netbase/SeNetCoreLinux.c` are relative to the parent of this
directory. `PROJECT.json` maps each definition to the lines it models and lists
the runs, the hazards and the theorems.

    tlc -workers 2 -config NetCoreConns.cfg NetCore      # a run
    tlc -workers 2 -config Gateway.cfg MCGateway         # the gateway's use MCGateway
    tlapm WinCoreProofs.tla                              # a module of proofs


## 1. The system

### Components

| component | source | state | operations |
|---|---|---|---|
| socket manager | `netbase/SeNetSocket.c` | a table of `usMax` slots (descriptor, handle, status, type, event bits, last-heard time, two streams); lists `kMainList` (free), `kActiveMainList` (in use), `kSendList`, `kRecvList`; the pool of idle stream nodes | Init, Fin, Add, Get, Del, End, AddSendOrRecvInList, PopSendOrRecvOutList, TimeOut, UpdateNetStreamIdle |
| network core, Linux | `netbase/SeNetCoreLinux.c` | the manager, an epoll object, a timerfd, the batch of events being walked | TCPListen, TCPClient, Send, SendExtend, Disconnect, Read (Process, epoll_wait, accept, recv, send, sweep) |
| byte streams and frames | `netbase/SeNetStream.c` | lists of 4 KB nodes with read and write positions, a byte count | write, read, partial send, partial recv, headers, CanRead |
| gateway | `magicnet/SeMagicNet.c` (`SeMagicNetS...`) | registered services, and for each connection its listener and the service it is bound to | SeMagicNetSWork: every event of a client, every command of a service |
| service side | `magicnet/SeMagicNet.c` (`SeMagicNetC...`) | one connection `kHScoket` to the gateway | Reg, Read, SendClient, SendSvr, BindClient, CloseClient, SendActive |
| network core, Windows | `netbase/SeNetCoreWin.c` | as on Linux, with overlapped operations that complete later | the same interface |
| C++ engine | `cpp/SeNetEngine.cpp`, `SeServer.cpp`, `SeClient.cpp`, `SeTimer.cpp` | objects for servers, clients that reconnect, timers | Run, AddServer, AddClient, SendClient, timers |
| containers | `common/SeList.c`, `SeHash.c` | pointers of intrusive lists and of a hash of lists | insert, remove, head pop |
| sockets and handles | `netbase/SeNetBase.c` | none | handle encoding; one system call per function |
| buffers | `common/SeBuffWR.c` | two positions in a byte buffer | sequential read and write |
| logging | `common/SeLog.c`, `cpp/SeLogEngine.cpp` | a file, a list of lines | write, flush |
| time, threads, memory | `common/SeTime.c`, `SeThread.c`, `SeMutex.c`, `SeSMem.c`, `SeTool.c`, `cpp/SeLock.cpp` | none of interest | wrappers of system calls |
| codecs and hashes | `common/SeBase64.c`, `SeCrc32.c`, `SeCrypt.c`, `SeMD5.c`, `SeSha1.c`, `cpp/SeSort.cpp` | none | pure functions |
| database access | `mysql/SeMysql.c`, `cpp/SeSql.cpp`, `cpp/SeFastSql.cpp` | a MySQL handle | pass-through |
| bindings and examples | `magicnet/ccmodule*.c`, `cpp/SeCommon.cpp`, `cpp/SeCrashDump.cpp`, `src/example`, `src/test` | none | argument conversion; programs |

### How they interact

    program or service                 SeMagicNetS (gateway)      SeMagicNetC (service)
          |                                   |                          |
          +----------------- SeNetCoreRead, Send, Disconnect, TCPClient --+
                                              |
                     network core: one thread, one call at a time
                     |             |                        |
              socket manager   streams, node pool    epoll, timerfd, sockets
                                                            |
                                                   peers, at any moment

Everything above the kernel runs in one thread and is called, never calls back:
the program asks for the next event with `SeNetCoreRead` and acts on it with
the other functions. All concurrency is therefore between that thread and the
kernel, which the peers, the timer and the clock change at any moment, and
between what has happened to a connection and what has been reported of it.

### What is hard

- *Edges.* Connections are watched edge triggered. Input left in the kernel, or
  output left in a stream, is not reported again unless the code made sure of it.
- *Late registration.* An accepted or connecting socket gets its slot in one
  step and its epoll registration in a later call; what comes in between makes
  no edge.
- *Batches.* `epoll_wait` returns up to 512 events; handling one changes the
  connections that the others name.
- *Two-step close.* A descriptor is closed at once; the program hears of it in a
  later call; the slot is freed in the call after that. In between the kernel
  reuses the descriptor's number, and the program still uses the handle.
- *Four lists over two link fields.* Every slot must be on the lists its status
  asks for; a slot forgotten by one of them is never looked at again.
- *A pool topped up before it is used.* A write that runs out of nodes leaves
  half a frame in the stream.
- *Frames cut anywhere.* A header may arrive in parts and lie in two nodes, the
  first of them partly read.
- *Names and handles.* The gateway routes by service name while services come,
  go and return, and slots and handles are reused.
- *Completions of the dead.* On Windows an operation ends after its socket was
  closed and perhaps after its slot was taken again; its completion has nothing
  but the handle to tell, and within one tick (10 to 16 ms) the handle is the same.
- *One event per call.* The service side has a loop of its own inside
  `SeMagicNetCReg`, in which the same events mean something else.

### What makes each component correct

- manager: each slot is on exactly the lists its status asks for, a free slot
  holds nothing of its last use;
- core: descriptors are closed once, epoll watches what the slot says, no
  event is stale, nothing readable, writable, deliverable or reportable is
  forgotten, and the program sees CONNECT, RECV_DATA..., DISCONNECT in order
  (`ConnLifecycle`);
- streams: whole frames, in order, once (`FrameChannel`); counts are exact;
  the pool suffices;
- gateway: names and sockets are registered once, a service hears of a client
  in order and is told when it is gone, and routing agrees with what was told;
- service side: one connection at a time, data only over a registered one, and
  what the code asserts of the events it gets;
- Windows core: the same `ConnLifecycle`, as far as the code keeps it when the
  completion of a former use is taken for one of the present; the operations outstanding are those
  its slots and listeners count on, and a socket is closed once;
- C++ engine: a handle maps to one object, an object is called back in order, a
  client that lost its connection tries again, a timer goes off in its turn and
  not after its removal;
- containers: the pointers represent the sequences that the other modules use.

The hazards, each at its line with the properties that guard it, are in
`PROJECT.json`.


## 2. Modules

    FrameChannel <--implements-- FramePipe --EXTENDS--> NetStream

    ConnLifecycle <--implements-- NetCore --EXTENDS--+
        ^  ^  ^  ^                                   +--> SocketMgr
        |  |  |  +---implements-- WinCore --EXTENDS--+        ^
        |  |  |                                           implements
        |  |  +--INSTANCE-- MagicClient                       |
        |  +-----INSTANCE-- Gateway <--EXTENDS-- MCGateway    SlotLists --EXTENDS--> SeList
        +--------INSTANCE-- NetEngine
    SeTimer

    SocketMgrProofs <-- NetCoreProofs
                   ^--- WinCoreProofs
    GatewayProofs   MagicClientProofs   FramePipeProofs (with NetStream)
    SlotListsProofs (with SeList)       NetEngineProofs (with SeTimer)

`NetCore` and `WinCore` implement one abstract specification, `ConnLifecycle`;
`Gateway`, `MagicClient` and `NetEngine` are written over that specification, so
they do not depend on a back end. A module `XProofs` holds the theorems about `X`
and about the modules named with it. `SlotLists` is the same step one level down:
the lists that `SocketMgr` writes as sequences, with their pointers.

### SocketMgr: the slot table

`sock[i]` is the slot with index `i` (`SENETSOCKET`), and the four lists are
sequences of indices. Each `Mgr...` or list operator is one function of
`SeNetSocket.c`. A slot's streams are here only the number of bytes in them.
`Handle(i, t)` is `SeGetHSocket`: the index and the time in milliseconds.
`SlotPartition` says which lists a slot is on in each status. It includes what
is peculiar to the code: `kMainNode` links a slot into both `kMainList` and
`kActiveMainList`, so it must leave one before it enters the other.

### SeList, SlotLists: the lists with their pointers

`SeList` is `SeList.c`: a heap is the `head` and `tail` of every list and the
`prev` and `next` of every node, and each function is an operator from a heap to
the heap it leaves. `Represents(h, r, s)` says that list `r` of heap `h` is the
sequence `s`.

`SlotLists` builds on it what `SeHash.c` does: a hash list is an order and a
table of buckets, each with a node of its own in every `SEHASHNODE`, and a slot
has three of those. Its variables are the heap and, for each slot, what decides
the lists it is on. Its actions are the manager's functions, and its refinement
mapping reads the sequences back out of the heap: `Walk` follows `next` from the
head of a list, at most as many steps as there are nodes. `ListsSound` says that
every node is linked where the maps say and nowhere else. The nodes are
`SlotNodes`, two for each of a slot's three `SEHASHNODE`s.

### NetCore: one thread over epoll

`pc` says where the thread stands in `SeNetCoreRead`, and the module's header
says what each value means. One step is what happens between two moments at
which the kernel may be changed by others *and the code could notice*: one slot
popped from a list, one event of a batch, one accepted connection. A `recv` or
`send` loop runs until the kernel refuses, so it is one step: what arrives while
it runs is as if it had arrived before.

| code | TLA+ |
|---|---|
| `SeNetCoreTCPListen`, `SeNetCoreTCPClient` | `TCPListen`, `TCPClientConnected`, `TCPClientConnecting`, `OpenFails` |
| `SeNetCoreSend`, `SeNetCoreSendExtend` | `Send` |
| `SeNetCoreDisconnect` | `AppDisconnect`; `Disconnect` where the core calls it |
| `SeNetCoreProcess` | `Process...`, one action per status of the slot popped |
| `SeNetCoreRead` | `Call`, `EpollWait`, `EpollNothing`, `Dispatch...`, `DispatchTimer`, `DispatchDone` |
| `SeNetCoreListenSocket`, `SeNetCoreAcceptSocket` | `Accept`, `AcceptFull`, `AcceptEnds` |
| `SeNetCoreClientSocket` | `DispatchConnecting` |
| `SeNetCoreRecvBuf`, `SeNetCoreSendBuf` | `RecvBuf`, `SendBuf` |
| `SeNetCoreTimeOut` | `NetTimeOut` |

The kernel is `kern` (a socket per descriptor: its state, unread bytes, room
for output, backlog), `reg` (what epoll was asked to report, and with which
handle) and `ready` (epoll's ready list). It is external code, modelled from
how the core uses it: an edge puts a descriptor on `ready`, an `epoll_ctl`
looks at the socket as it is, a level-triggered descriptor stays on `ready`, a
one-shot one reports once, closing removes it everywhere. `epoll_wait` returns
all that is ready (the code takes up to 512 events at a time), and the batch is
walked in any order, which covers every order the kernel may choose. The actions of the peers
(`Environment`) are a connection, bytes, a FIN, a reset, reading, the outcome of
a pending connect, the timer and the clock; each is possible between any two
steps of the thread.

`SysFail` says whether `epoll_ctl` and `setsockopt` may fail. A failing
`epoll_ctl ADD` is ignored by the code, so with `SysFail` an announced
connection may be unwatched, and what depends on being watched is stated, and
proved, without it.

`ConnLifecycle` is what the caller may rely on: its stages and events are those
of `NetCore` under `StageOf`.

### WinCore: one thread over a completion port

Over the same `SocketMgr`. There is no readiness: `ops` is the bag of overlapped
operations (`IODATA`) outstanding, and `Complete` (`Accept`, `Connected`, `Sent`,
`SentPartly`, `Received`, `NoBytes`) or `Dropped` ends any one of them, in any
order and with any result, which is where the peers and the kernel are. What a
completion finds of its connection it finds by the handle in its `IODATA`: the
slot may be active, closing, or in another's hands. The event bits mean
"an operation of this kind is outstanding". `kListenList` is the queue of
listeners from which `SeSetAcceptSocket` posts one accept at a time, and an
accept has a socket of its own before there is a connection. `pc` is `app`,
`process` (the lists, before and after the wait) or `wait`.

A handle is the slot's index and the tick, ticks are 10 to 16 ms apart, and
nothing in the code keeps a slot from being taken twice within one while operations
of its first use are outstanding. `TCPListen`, `TCPClient` and `Accept` take it all
the same, and what ends later is applied to whatever slot its handle names: a receive
fills the stream of a connection that is still connecting, a connect announces
one whose own has not ended, and a listener takes anything for an accept
(`AcceptedBy`: with the `kSocket` that its recycled `IODATA` last held). `retaken` is a
history variable, read by no action: the slots whose present use began while an
operation outstanding had the handle it got. The properties say what holds of every
slot and what holds of the others only.

`Asserts` is whether the build keeps `assert()`. With it, a connect that ends on a
connection announced already ends the program (`AssertionFails`); without it
`Connected` goes on, as the code does.

### NetStream, FramePipe: bytes

The loops of `SeNetStream.c` are recursive functions here, one round of a loop
per step. `NetStream` has the nodes themselves: contents, read and write positions, the
count `llSize`, the idle pool, `WriteFrame`, `ReadFrame`, `Taken` (a partial
`send`), `Writable` and `Filled` (a partial `recv`), and a header of
`HeaderLen` digits in base `Base`, the abstraction of a 2-byte or 4-byte length.
A node holds `Cap` bytes, `Overhead` of which are its own links, as in the code.
`FramePipe` puts a sender's stream, a wire and a receiver's stream in a row and
lets `send` and `recv` move any number of bytes. `FrameChannel`, a queue of
whole frames, is what it implements: the queue is the frames parsed out of all
the bytes under way.

### Gateway

`work` separates the event that `SeNetCoreRead` returned from its handling; a
handler is one action. `told[s][c]` is a history variable: what the service on
slot `s` knows of the client on slot `c`. `sent` is the messages about clients
sent by the last handler. The messages of a service are the set `Frames`: every
command with every handle and name, and with a wrong length where the code
checks it. Two things the code does are kept as they are: `acBindSvrName` of a
slot starts with any name at all and survives the slot's reuse
(`SeNetSocketReset` does not touch it), and a DISCONNECT of a service is
followed by a look at whatever command the buffer still holds
(`ServiceDisconnect(s, left)`).

`MCGateway` adds the symmetry of slots for TLC.

### MagicClient

`inside` is the function the program is in. `SeMagicNetCReg` and
`SeMagicNetCRead` call the core in a loop; every event the core may return is
possible there at any moment. `RegFails` and a `Read` without a connection
change nothing.

### NetEngine, SeTimer: the C++ objects

`NetEngine` is `SeNetEngine::Run` with the objects it calls back. `m_kClient` and
`m_kListen` are its maps from handles to objects, `m_kClientList` the clients it
updates at each timer event; a client is `m_kHSocket`, `m_iReConnectNum` and
`wait`, what is left of its delay. `Client...`, `Server...` and `Update` are the
part of `Run` for each event and object. The program connects, listens and
disconnects between two calls of `Run`; what it does inside a callback is the
same, each callback being the last act of its handler. Accepted connections are found by their listener (`belong`), and `peers` is the
history of what each server was told.

`SeTimer` is the two maps of `SeTimer.cpp`, from due times to lists of ids and
from ids to due times. It shares nothing with the engine; its specification is
`TimerSpec`, with fairness `TimerFairSpec`.


## 3. What is checked

Each property is stated in words above its definition. Every one of them is
violated when one definition of the code is replaced by a plausible bug; those
mutants are the definitions marked `mutant` and are listed in `PROJECT.json`.

| run | instance | shows |
|---|---|---|
| NetCoreConns | 2 slots, 3 descriptors, a listener, 2 clients, system calls fail; 725 000 states | the table and its lists (`SlotPartition`, `FreeSlotsDrained`), nothing lost on the way to the program (`NoStrandedSlot`); several events in a batch and a full manager: no event is stale when it is handled (`EventsCurrent`), no descriptor has two owners or none (`FdOwnership`); and that `NetCore` implements `ConnLifecycle` |
| NetCoreBytes | 1 connection, frames of 2 bytes, 2 bytes of room | no edge lost (`NoStrandedInput`, `NoStrandedOutput`, `EpollConsistent`), no frame forgotten and none looked for in vain (`RecvListExact`), and what arrives is delivered (`InputIsRead`, `FrameIsDelivered`) |
| NetCoreSweep | 2 connections, system calls fail | `ClosedIsReleased`, `SilentIsClosed` |
| SlotLists | 3 slots, 2 buckets; 36 000 states | the pointers implement the sequences of `SocketMgr` (`ListsSound`, `ImplementsSocketMgr`) |
| WinCore | 2 slots, 3 sockets, 2 listeners, 1 client, assertions; 1.5 million states | `NothingStranded`, `SocketOwnership`, `BacklogExact`, `OperationsMatch`, and that `WinCore` implements `ConnLifecycle` |
| WinCoreAssert | 1 slot, 1 client, assertions | finding: `ConnectAsserted` is violated |
| FramePipe | nodes of 3 bytes, headers of 2 digits in base 2, lengths 0 to 4; 43 000 states | `StreamsSound`, `StaysUp`, that it implements `FrameChannel`, and `FramesArrive`; 4 is one more than a program may send |
| Gateway | 3 slots, three names; 304 000 states | `RegistrySound`, `BindingKnown`, `HeardInOrder`, `GoneIsTold` |
| MagicClient | 2 slots, 2 ticks | `OneConnection`, `ReadIsRegistered`, `ReadExpects` |
| MagicClientTimer | the same | finding: `RegExpects` is violated |
| NetEngine | 3 slots, 2 clients, 2 servers; 239 000 states | the maps agree with the core and the objects (`ObjectsAgree`), no connection has lost its object (`NobodyForgotten`), `CallbacksInOrder`, and a client that lost its connection tries again (`ConnectsAgain`) |
| SeTimer | delays 0 and 2, set up to 1 in the past, 4 timers | the maps agree (`MapsAgree`), timers go off in order of their times (`GoesOffInOrder`) and all do (`GoesOff`) |

### Bounds, and why they are enough

- *Slots and descriptors.* Slots affect each other through the shared lists,
  through reuse of a slot, of a handle and of a descriptor's number, and
  through the batch. Two suffice for each; the third descriptor is that of an
  accept that finds the manager full. Three slots, with two accepted connections in
  one batch beside their listener, are left to the proofs, which cover every number.
- *Clock.* With `MaxClock = 0` all handles of a slot are equal, the worst case
  for stale handles (in the code: a slot reused within a tick). With
  `MaxClock` 1 or 2 and time-outs of 0 or 1 a connection is seen before, at and
  after its time-out.
- *Bytes.* `MaxIn` and `MaxOut` bound what a peer and a program have under way.
  Two frames of two bytes with two bytes of room give: a part of a frame, a
  whole one, one and a half, two, a refused send, a partial one.
- *Operations.* A send of two bytes may end with one moved, which leaves one to go
  on with. `Backlog = 1` with two listeners makes the turn between them matter, and
  the third socket is the one an accept holds in advance. `MaxOps = 2` bounds the
  operations outstanding when a slot is taken or an accept ends: with one stale
  operation and the new use's own, and with two stale ones, of the same kind or
  not, both orders in which they may end occur. The receives and sends of
  connections in use come on top. `Asserts` is TRUE, so that a failing assertion is
  a step of the run; the proofs cover every bound, and builds without assertions.
- *Lists.* Three slots over two buckets: a bucket with two nodes and one with
  one, and a node at the head, in the middle and at the tail of each list.
- *Nodes.* With three bytes per node, a header of two bytes and frames of up to
  five, a header may lie in one node or in two and start anywhere in one, and a
  frame spans up to three. The proofs cover every size of a node, of a header
  and of a frame.
- *Gateway.* `MaxTick = 0` makes handles repeat, again the worst case. Three
  slots are a watchdog, a service and a client, in every combination of roles,
  and each may leave and be replaced. The slots are symmetric: handles are pairs
  of a slot and a tick and no slot is named. No liveness is checked under
  symmetry.
- *Engine.* With `ReConnectCount = 1` the delay grows once and then starts over. Two objects of each kind are needed to find the wrong one; the third
  slot is the accepted connection beside a listener and a client.
- *Timers.* Four timers with two delays give several with the same time, one
  due before those set earlier, and one due at once.

### Fairness

`NetCore!Fairness` asks for weak fairness of the thread's own steps (`Read`,
the call included: a program using the core calls `SeNetCoreRead` in a loop),
of the timer (a periodic timerfd), of the clock up to its bound, and of a
peer that reads (`PeerDrains`), without which output need not move. Nothing is
assumed of the peers' sending, of the program's other calls or of epoll's order.
The promises are made to executions with finitely many new connections: a
program that reconnects between any two calls keeps `kSendList` non-empty and
`SeNetCoreRead` returns before it reaches `epoll_wait`
(`src/netbase/SeNetCoreLinux.c:1033`), and peers can keep the accept loop going.

`FramePipe!FairSpec` has weak fairness of the sender's and receiver's loops and
of the program's reading.

`NetEngine!Fairness` has weak fairness of `Run` and of its parts (the program
calls it in a loop), of the core's returning, and of the time. A client's
`Connect` has strong fairness: it is enabled at a timer event and not between
two of them, and `Run` tries it at each one.

`TimerFairSpec` of `SeTimer` has weak fairness of the program's polling and of the clock.


## 4. What is proved

All theorems hold for every value of the constants, under the assumptions their
modules name: `SizeAssumption` (there is a slot and a descriptor), `CoreAssumption`
and `WinAssumption` (the other parameters are naturals, some of them positive),
the names and bounds of `GatewayAssumption`, `ClientAssumption` and
`EngineAssumption`, `StreamAssumption` (a header fits into a node and counts at
least `MaxFrame`: in the code 2 or 4 bytes, nodes of 4 KB) with
`PipeAssumption`, `HashAssumption` (the nodes are those of the slots, and the
null pointer is none) and `TimerAssumption` (no offset reaches back before time
0). `NetCore`'s hold with or without `SysFail`, and `WinCore`'s with or without
`Asserts`, unless the table says otherwise.

| theorem | module | statement |
|---|---|---|
| `Invariance` | `NetCoreProofs` | `Spec => []IInv` |
| `TypeCorrect` | `NetCoreProofs` | `Spec => []TypeOK` |
| `Partition` | `NetCoreProofs` | `Spec => []SlotPartition` |
| `Drained` | `NetCoreProofs` | `Spec => []FreeSlotsDrained` |
| `NoneStranded` | `NetCoreProofs` | `Spec => []NoStrandedSlot` |
| `ProcessStates` | `NetCoreProofs` | `Spec => []SendListStates` |
| `Ownership` | `NetCoreProofs` | `Spec => []FdOwnership` |
| `RecvListed` | `NetCoreProofs` | `Spec => []RecvListExact` |
| `EventsStayCurrent` | `NetCoreProofs` | `Spec => []EventsCurrent` |
| `EpollAgrees` | `NetCoreProofs` | `Spec => []EpollConsistent`, if `SysFail = FALSE` |
| `InputWakes` | `NetCoreProofs` | `Spec => []NoStrandedInput`, if `SysFail = FALSE` |
| `OutputWakes` | `NetCoreProofs` | `Spec => []NoStrandedOutput`, if `SysFail = FALSE` |
| `Implements` | `NetCoreProofs` | `Spec => ImplementsLifecycle` |
| `Invariance` | `WinCoreProofs` | `Spec => []IInv` |
| `NothingWaitsForEver` | `WinCoreProofs` | `Spec => []NothingStranded` |
| `SocketsOwned` | `WinCoreProofs` | `Spec => []SocketOwnership` |
| `BacklogCounts` | `WinCoreProofs` | `Spec => []BacklogExact` |
| `OperationsAgree` | `WinCoreProofs` | `Spec => []OperationsMatch` |
| `Implements` | `WinCoreProofs` | `Spec => ImplementsLifecycle`, if `Asserts` |
| `ImplementsKept` | `WinCoreProofs` | `Spec => LifecycleKept` |
| `Invariance` | `GatewayProofs` | `Spec => []IInv` |
| `RegistryIsSound` | `GatewayProofs` | `Spec => []RegistrySound` |
| `BindingIsKnown` | `GatewayProofs` | `Spec => []BindingKnown` |
| `HeardInOrderHolds` | `GatewayProofs` | `Spec => HeardInOrder` |
| `GoneIsToldHolds` | `GatewayProofs` | `Spec => GoneIsTold` |
| `Invariance` | `MagicClientProofs` | `Spec => []IInv` |
| `NeverTwo` | `MagicClientProofs` | `Spec => []OneConnection` |
| `ReadsRegistered` | `MagicClientProofs` | `Spec => []ReadIsRegistered` |
| `ReadAsserts` | `MagicClientProofs` | `Spec => []ReadExpects` |
| `Invariance` | `NetEngineProofs` | `Spec => []IInv` |
| `ObjectsAgreeHolds` | `NetEngineProofs` | `Spec => []ObjectsAgree` |
| `NobodyForgottenHolds` | `NetEngineProofs` | `Spec => []NobodyForgotten` |
| `CallbacksInOrderHolds` | `NetEngineProofs` | `Spec => CallbacksInOrder` |
| `TimerInvariance` | `NetEngineProofs` | `TimerSpec => []TimerInv` |
| `TimerMapsAgree` | `NetEngineProofs` | `TimerSpec => []MapsAgree` |
| `TimersGoOffInOrder` | `NetEngineProofs` | `TimerSpec => GoesOffInOrder` |
| `WriteLenAppends`, `ReadLenTakes` | `FramePipeProofs` | what the two loops over nodes do to the bytes of a stream |
| `HeaderRoundTrip` | `FramePipeProofs` | a length survives its header |
| `SendWritesFrame`, `SendExtendWritesFrame` | `FramePipeProofs` | the pool, once topped up for a length, suffices for the frame |
| `Invariance` | `FramePipeProofs` | `Spec => []IInv` |
| `TypesHold` | `FramePipeProofs` | `Spec => []TypeOK` |
| `StreamsStaySound` | `FramePipeProofs` | `Spec => []StreamsSound` |
| `PipeStaysUp` | `FramePipeProofs` | `Spec => []StaysUp` |
| `PipeImplementsChannel` | `FramePipeProofs` | `Spec => ImplementsChannel` |
| `TailAddAppends`, `HeadAddPrepends`, `RemoveTakesOut`, `RemoveEndCuts` | `SlotListsProofs` | what each operation of `SeList.c` makes of the list it is given |
| `OthersKept` | `SlotListsProofs` | an operation leaves the other lists as they were |
| `WalkIs` | `SlotListsProofs` | following the pointers gives the sequence a list represents |
| `Invariance` | `SlotListsProofs` | `Spec => []IInv` |
| `ListsStaySound` | `SlotListsProofs` | `Spec => []ListsSound` |
| `SlotListsImplementSocketMgr` | `SlotListsProofs` | `Spec => ImplementsSocketMgr` |

### The arguments

*Slots* (`NetCoreProofs`). None of the properties of the table is inductive alone. That a
slot is freed correctly needs to know which lists it is on; that its descriptor
may be closed needs to know that no other slot owns it; that it is still
reported needs the send list; and each of these needs the statuses that
`Process` may meet. The inductive invariant `IInv` is their conjunction,
`SlotInv`, with the types of the kernel, `KernTypeOK`, and of the control state,
`CtlTypeOK`, which holds that the batch names only handles and that `lsn` is a
slot. `SocketMgrProofs` has facts about the lists (appending, unlinking, moving
to the end keep a list free of repetitions and say what its members are) and
shows that `MgrAdd`, `MgrDel` and a step that changes one slot keep `TableOK`.
`NetCoreProofs` has the four ways in which an action touches a slot and its
descriptor (`NewSlotOK`, `SlotKeepsFd`, `DisconnectOK`, `MgrDelFdOK`), each
keeping `SlotInv`; then one lemma per action of `Next`; and the theorems.

*Frames received* (`NetCoreProofs`, second part). `RecvListExact` speaks of active slots;
one that becomes active must not bring a frame with it. `RecvInv` adds that a
connection still being opened has received nothing and that a listed slot is a
connection that holds a frame.

*Registration* (`NetCoreProofs`, third part). `RegInv` ties a slot to its entry in the
epoll set: with the slot's handle and the interest of its stage, or missing where
`epoll_ctl` may fail; a closed descriptor has neither an entry nor an event.
`BatchInv` adds that the events of a batch are of different slots, so that
handling one leaves what the others name as it was. That is why no event is
stale (`EventsCurrent`), although the branches for stale ones are in the code.

*Wake-ups* (`NetCoreProofs`, fourth part). With edges, that bytes are waiting must imply
that an event is under way: on `ready`, or in the batch. `WakeInv` says so for
input, and for output that a slot which is not writable has asked for
`EPOLLOUT` and that one which is writable and has something to send is on
`kSendList`. Two more facts carry it over the moments at which a connection is
registered: it starts with nothing to send, and `EPOLL_CTL_ADD` reports what is
there already. With `SysFail` the properties are false: `SeNetCoreProcess`
ignores the result of `epoll_ctl`.

*Refinement* (`NetCoreProofs`, last part). Each of the abstract actions has a lemma
that says under which change of the slots shown (`Conns`) and of `ev` a step is
that action; each concrete action has one that finds the change. Besides the
invariants above it needs that an event that was returned is forgotten when
`SeNetCoreRead` is called again (`Serving`). Data is delivered last: `ProcessRecv`
needs an empty `kSendList`, hence no other connection has a CONNECT, a
CONNECT_FAILED or a DISCONNECT still to report, which is what
`ConnLifecycle!RecvData` promises.

*Completions* (`WinCoreProofs`). An operation names its slot by nothing but a
handle, so every property here relates the table to the bag `ops`. What carries
the relation over a step is that the handle of a slot has the slot's index: an
operation started or ended for slot `i` says nothing of another (`MatchStep`). What it says
of its own slot depends on how the slot was taken. `Exact` holds where no operation had
its handle at that moment: the operations with the handle are those the record tells
of, and no operation of a kind is there twice. Where one had (`i \in retaken`) any
others may be outstanding too, and end as if they were the slot's own; all that is
left is `Backed`: a bit, or the status CONNECTING, stands for an operation that is there. This
survives a stale completion because the code clears a bit only when an operation of
that kind has ended, and sets it again only with a new one; a stale one that
ends first merely swaps roles with the slot's own. `NothingStranded` rests on it: a
connection with bytes to send and its WRITE bit set has a send that will end. The one
thing that breaks it is a second announcement, which clears the bits and takes the slot off
`kSendList` with bytes queued; `Sure` says that this needs a build without assertions and
a retaken slot. Operations of a closed socket stay in the bag and constrain
nothing until they are dropped or find a new use of their slot. Accepts belong to no
connection: they are tied to their listener by number (`ListenOK`, which counts
with `Cardinality`) and to their socket by ownership (`Ownership`, a socket is a
slot's or an accept's and never two's). The accept that ends hands its socket to
the slot it opens or closes it, and the next accept in turn is posted;
`TurnOver` says that the listener's place in the queue moves and the numbers do
not. All that is under `ListenersSure`: a listener in a retaken slot takes for an accept
what is none, and the numbers and owners are wrong from there on; the other parts
of the invariant do not rest on them. The refinement follows that of `NetCore`:
one lemma per abstract action,
then one per concrete action that names the change of the slots shown. The one
step outside it is a connect that ends on an announced connection; `Exact` shows
that the slot must be retaken, and where assertions are kept it is not taken.

*Gateway* (`GatewayProofs`). The properties speak of moments when the gateway has
handled everything; between a close and the handling of its DISCONNECT, and
between an accept and the handling of its CONNECT, registry, bindings and `told`
run behind the core. `Present` and `Live` say for how long a connection still
counts, and `ToldOK`, `Hears` and `Bound` are the agreement in those terms: a
service that was told is registered while it is present, every live client is
known to the services that serve it, and nobody else was told. Handlers that only send are covered by one lemma about what
was told of a single client (`TellsOfOneOK`). A handle is never somebody
else's, although handles repeat, because the core frees a slot only at a call made
after its DISCONNECT was handled.

*Engine* (`NetEngineProofs`). Handles are held in five places (the two maps, the
object, the list, `peers`), each changed by another line. The invariant says of
each that it holds a handle exactly as long as the end of its connection has not
been handled (`Lives`), and of accepted connections that their listener is still there.
What is difficult is CONNECT_FAILED: the core frees the slot before it returns
the event, so the object holds a handle that no slot has (`HeldOK`); it is safe
because `Run` handles the event before the core can give the slot away again.

*Lists* (`SlotListsProofs`). Every operation of `SeList.c` is described by what
the heap represents before and after; both directions rest on the node given
being on no list, or on the list named, which the assertions in `SeList.c` cannot
tell. That `Walk` meets the list a root stands for is an induction over its
steps. For `SlotLists` the invariant names contents `q[l]` of the four hash lists
that the heap `Holds`: no node is on two lists and every other one is detached
(`Linked`), and the order and the buckets of a hash list hold the same slots
(`Filed`). Each function of `SeHash.c` has a lemma that says which contents it
leaves (`HashAddHolds`, `HashRemoveHolds`, `HashPopHolds`,
`HashMoveToEndHolds`), and each function of `SeNetSocket.c` is a composition of
those; the same contents are the sequences of the refinement mapping. That
`kMainNode` serves two lists is visible in `Holds`: lists that share a node have
no slot in common, which is why `MgrDel` must take a slot out of one before it
enters the other.

*Streams* (`FramePipeProofs`). `Sound` is what a stream is between two calls: the
positions lie within the nodes, no node is empty, only the first is partly read
and only the last partly filled, and `llSize` is the number of bytes. From that
follows how many bytes a write may rely on (`Space`): the idle nodes, whole, and
the rest of the last one. The loops over nodes are recursive functions;
`Recursion` says that the equations of one have exactly one solution if every
round makes a number smaller, and an induction over the bytes left shows what
they do to the contents (`WriteLenAppends`, `ReadLenTakes`). That the pool
suffices is arithmetic over `NodesFor`, which takes twice the nodes that the
contents fill when each leaves room for a header. `Taken` and `Filled`, a partial
`send` and `recv`, take from the front and add at the end.

*Frames* (`FramePipeProofs`). All that is under way, the receive stream, the wire
and the send stream in a row, is a member of `Wholes`, the strings of bytes that
are frames one behind the other. Every step moves bytes within that string, adds a
frame at its end (`SendWritesFrame`) or removes the first
(`CanRead` sees its header and its length, `ReadLenTakes` takes it). The queue of the
channel is the frames parsed out of the string; that parsing undoes writing
is `HeaderRoundTrip` and an induction over `Wholes`.

*Timers* (`NetEngineProofs`, second part). `MapsAgree` alone is not inductive and says
nothing of the order: `TimerInv` adds that each list is in the order in which the
timers were set, so that its head is the earliest, and that no id is above the
count, so that a new one goes to the end. `DelTimer` erases the first occurrence
of an id; the order makes it the only one.

*Service side* (`MagicClientProofs`). The events the core may return depend on
where the program stands. `Waits` and `Events` say that while `SeMagicNetCReg`
waits there is one connection being opened, and afterwards one that is open
or closing until its end was returned.

### Induction over data

The provers cannot instantiate induction theorems that take a predicate, so
every induction here is stated of a set: a set of numbers that holds 0 and, with
each number, the next holds every number (`SetInduction` in `FramePipeProofs`,
`Numbers` in `SlotListsProofs`; both from the well-foundedness of `<` on the
naturals). What is proved by induction is defined as a set first, such as
the lengths for which every stream is written as it should be. That the equations
of a recursive function have a solution at all is proved the same way
(`Recursion`).

### Only model-checked

- All liveness (`ClosedIsReleased`, `SilentIsClosed`, `InputIsRead`,
  `FrameIsDelivered`, `FramesArrive`, `ConnectsAgain`, `GoesOff`), and with it
  everything about ENABLED: out of the prover's reach.

Every invariant, every action property and every refinement that a passing run
checks is also a theorem. `LifecycleKept` is a theorem (`ImplementsKept`) that no run
repeats: where assertions are kept it says no more than `ImplementsLifecycle`.


## 5. What the models show of the code

Two disagreements are recorded as findings. The first (`MagicClientTimer`):
`SeMagicNetCReg` asserts that every event but IDLE is of its own connection
(`src/magicnet/SeMagicNet.c:931`), and overlooks the timer's event, whose handle
is 0. It comes first whenever the connect takes longer than the timer's first
period. `SeMagicNetCRead` skips it. With `NDEBUG` the loop just goes on.

The second (`WinCoreAssert`): `SeNetCoreClientSocket` asserts that a connect ends on
a connection that is CONNECTING (`src/netbase/SeNetCoreWin.c:1054`). With one free
slot, a program that connects, disconnects, is told CONNECT_FAILED and connects again
within a tick gets the slot and the handle it had. The aborted connect of the first
socket is then taken for the second's: the connection is announced, or closed, by the outcome
of the other one, and when its own connect ends the assertion fails. With `NDEBUG` the
code logs it and announces the connection again (or closes it). What else late completions of
a retaken slot do, and do not do:

- the program may be told CONNECT twice for a connection, and bytes queued between the
  two may then stay in its stream until the next `SeNetCoreSend`; both only in builds
  without assertions (`LifecycleKept`, `Sure`);
- they may close the new connection, announce it early, and add what they moved to its
  stream's count; the order of events is kept (`ImplementsLifecycle`), and no bit is left
  standing for an operation that is gone, so that no connection is stuck (`OperationsMatch`);
- a listener opened in a retaken slot counts any of them as an accept: `iBacklog`
  falls below the number outstanding, and a socket that is another's, or none, is
  added as a connection or closed. `SocketOwnership` and `BacklogExact` hold up
  to there (`ListenersSure`). All that is the price of a table with few free slots; the
  free list is a queue, so the others must be taken within the same tick first.

Behaviours that the models keep and that a reader of the code should know of:

- Without a registered watchdog every event of a client, its disconnection
  included, only closes it: the service it was bound to is not told. `GoneIsTold`
  is stated for the other case.
- A client is bound once. When its service is gone, its data goes to the watchdog
  until a service of the same name registers, which then inherits it without
  having been told of it (`told` is `inherited`).
- `acBindSvrName` is not initialised and not reset with its slot; it is
  harmless because a client's CONNECT clears it, unless there is no watchdog,
  and then nothing is routed.
- A DISCONNECT of a service is followed by a look at the command the receive
  buffer still holds; a leftover CLOSE_CLIENT would be obeyed. The properties
  hold in spite of it.
- `SeNetCoreDisconnect` of a connection that is connected and not announced yet
  does nothing; one that is still connecting becomes a failed one.
- Handles repeat when a slot is reused within a tick. On Linux all
  properties hold nevertheless: the core and the gateway keep no handle beyond the
  call in which its slot is freed. A service that still names a client by such a
  handle names its successor. On Windows an operation outstanding keeps one, see above.
- When `epoll_ctl ADD` fails for a connection, the program is told CONNECT and
  nothing of what the peer does until the time-out; the descriptor is not lost.
- The assertions at the head of `SeListHeadAdd` and `SeListTailAdd` pass for a
  node that is alone on a list: they cannot tell it from a detached one. That no
  slot is added twice is shown of the callers (`ListsSound`).


## 6. What is not modelled

- Failing allocations and a failing `CreateIoCompletionPort` are left out of `WinCore`.
  Its streams are byte counts, so that whose bytes a stale receive adds is not told.
- `Gateway`, `MagicClient` and `NetEngine` are over `ConnLifecycle`: what they show
  holds over the Windows core as far as that implements it, which leaves out builds
  without assertions in which a connection is announced twice.
- The periodic messages and counters of the gateway (`SeMagicNetSSendActive`,
  `SeMagicNetSSendStat`) and the statistics of the service side: they are
  reported and nothing else reads them. In the same way the engine's statistics
  and pings.
- Raw streams (header length 0), which no program of the repository opens, and
  in the core the branch for a frame that `CanRead` saw and `SeNetSreamRead`
  cannot read: `StaysUp` shows that it is not taken when headers are used.
- The branches that the code has for a slot on `kRecvList` that is closed or has
  no whole frame: `RecvListExact` shows that no such slot is popped. In the same
  way `EventsCurrent` covers those that drop an event of `epoll_wait`.
- The boolean `SeNetCoreRead` returns beside its event: the programs call again
  whatever it is.
- Exhaustion of memory, `Fin`, options that only configure a socket. In
  `SeMagicNetCReg` only memory can make the send of REG_SVR fail, so that
  `RegConnected` has no such branch (`src/magicnet/SeMagicNet.c:943`).
- A service that registers with an empty name. `SeMagicNetCReg` asserts that there
  is one (`src/magicnet/SeMagicNet.c:903`) and the gateway does not look; an empty name
  is that of an unbound client there (`Unbound`), and `GatewayAssumption` keeps the two
  apart.
- Bytes inside `NetCore` (it counts them) and connections inside `FramePipe` (it
  has one direction of one). `NetCore`'s `CanRead` and `Send` are the abstraction
  of the operations of `NetStream` that `FramePipe` checks.
- Logging, codecs, hashes, the database and the bindings: wrappers and pure
  functions, with the reason for each in `PROJECT.json`. `src/example` and
  `src/mysql` are mostly third-party code (jemalloc, Lua, the headers of the MySQL
  client) and larger than everything else in the repository together.


## 7. Plan

Done: `SocketMgr`, `ConnLifecycle`, `NetCore`, `NetStream`, `FrameChannel`,
`FramePipe`, `Gateway`, `MagicClient`, `WinCore`, `SeList`, `SlotLists`,
`NetEngine`, `SeTimer`, and the proofs of section 4: the safety properties of both
cores and their refinement of `ConnLifecycle`; the safety of the gateway, the
service side, the engine and the timers; the operations of `SeList` and that the
hash lists implement the sequences of the manager; the loops over a stream's nodes
and that the pipe implements the channel of frames.

Left, most important first:

1. The gateway and services of `MagicClient` composed over channels of frames, so
   that what a service does with what it is told is checked end to end.
2. `NetCore`'s counts of bytes tied to the contents of `NetStream`: its `CanRead`,
   `Send` and `RecvBuf` as the image of the operations of which
   `FramePipeProofs` says what they do.
3. `BuffWR` and the line buffer of the log, if anything in them turns out to
   deserve a property.
