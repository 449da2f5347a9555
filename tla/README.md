# light_server in TLA+

light_server is a small C++ networking library for Linux. A `SocketManager` owns
an edge-triggered epoll set and one worker thread; `TcpServer`, `TcpClient` and
`UdpServer` derive from it and handle the I/O of their sockets; the programs under
`examples/` and `main.cpp` are their listeners. This directory holds TLA+ modules
translated from that source, the TLC configurations that check them on small
instances, and proofs that TLAPS checks. Paths below are relative to `src/src/`.

Contents: 1 the system, 2 the modules, 3 the runs, 4 what the runs leave open
(bounds, fairness, undefined behaviour), 5 the findings, 6 the proofs, 7 what is
not modelled, 8 the plan.

## 1. The system

### 1.1 Threads and shared state

- The **worker** (`SocketManager::WorkThread`) loops in `DoWork`: `epoll_pwait`,
  then one dispatch per reported event: the listening socket (`HandleAccept`), the
  command eventfd (`ProcessCommand`), the exit eventfd, the timer, or a socket object
  (`ProcessIo` -> `HandleReceive` / `HandleSend`). Listener callbacks (`OnConnect`,
  `DoRead`, `OnDisconnect`) run on it.
- **Application threads** call `Send`, `Disconnect`, `ConnectToRemote`, `SetXxx`,
  `Start` and `Stop` at any time. They touch the worker's data directly: the socket
  map, the objects, the command queue.
- The only lock on these is `out_packets_mutex_` around an object's output queue, and
  `HandleSend` reads that queue outside it.
- The **kernel and the peers** are the environment: descriptor numbers are reused as soon
  as they are closed, an epoll edge is reported once, a write takes a part of what it is
  given, a peer sends, closes or resets when it likes.

### 1.2 Components

| Component (source) | State | Operations | What makes it correct |
|---|---|---|---|
| Event loop and command queue (`socket_manager/socket_manager.cpp`, `.h`) | `sock_object_map_`, `cmd_queue_`, epoll set, eventfds, timer | `Start`, `Stop`, `DoWork`, `ProcessIo`, `ProcessCommand`, `TriggerCmdEvent`, `AddTcpSocket`, `AddUdpSocket`, `RemoveSocketObject`, `ConnectToRemote`, `AsynchConnectTo`, `Send`, `UdpSend`, `Disconnect`, `DisconnectSilenceConnections` | map, objects, registrations and descriptors agree; no command is left without a wakeup; each connection is announced, read and ended once and in that order; a removal hits the connection it was meant for |
| `TcpServer` (`tcp_server.cpp`) | listening socket | `HandleAccept`, `HandleReceive`, `HandleSend`, `Start`, `Stop` | every client is accepted; every close of a peer is noticed; everything sent is written; after `Stop` nothing runs and every listener was told |
| `SocketObject`, `MsgPacket` (`socket_object.h`) | descriptor, valid flag, output queue and its mutex, receive-limit counters, `active_time_` | `PushMsg`, `PushUdpMsg`, `PopOutPacket`, `OutPacketEmpty`, `Reduce`, receive-limit test | packets leave in order and each byte once; at most the limit is held |
| `TcpClient` (`tcp_client.cpp`) | the same, and the connecting state | `ConnectToRemote`, `AsynchConnectTo`, `OnBeforeProcessIo`, `OnTimer`, `HandleReceive`, `HandleSend` | no connection is lost, stranded or announced before it is made, but in cases that can be named; the sweep removes what is silent |
| `UdpServer` (`udp_server.cpp`) | bound sockets | `AddListenSocket`, `HandleReceive`, `HandleSend`, `Send` | datagrams leave whole and in order; one bad datagram does not stop the rest |
| DmPacket framing (`examples/dm_packet.cpp`) | position, header and data buffers | `DmPacketRead`, `IsDmPacketValid`, `Reset` | however the stream is cut into reads, the same packets come out; no buffer leaks; the loop ends |
| Examples and `main.cpp` | exit flag | callbacks, start and stop of both servers | they echo messages and greet clients, as their comments say; both servers stop |
| Utilities (`utilities/common_funcs.cpp`) | CRC table | hex formatting, `get_stm32_crc` | the CRC is polynomial division |
| Leak detector (`memory_leak_detector/debug_new.cpp`) | list of blocks, total | `alloc_mem`, `free_pointer`, `check_leaks` | the list holds the live blocks, the total their size |
| `server_base.h`, `socket_interface.h`, `byte_buffer.h`, `log/mt_log.h`, spdlog, uthash, makefile | - | interfaces, vendored code | no behaviour of their own |

### 1.3 Where it is hard

The worker and the application threads interleave inside `Send` (count, at, check, push)
and inside `std::queue::push`. An event of a batch may concern an object an earlier event
of the same batch removed. A command names a descriptor number, not a connection. Edges are
reported once, so every handler that returns early needs another event or command to go on.
`RemoveSocketObject` closes the descriptor before it erases the map entry, and a connecting
thread may be given its number in between. `Start` may fail at each of its steps, its callers
do not look at the result, and descriptor numbers are shared by both servers of the process.
`Stop` waits 100 ms for a queue and goes on. The leak detector's list is changed by every
thread, its total partly without the lock. `PROJECT.json` lists these hazards at their lines,
with the properties that cover them, or the reason why none does.

## 2. The modules

| Module | Models | Lines up with |
|---|---|---|
| `SocketManager` | event loop, accept, reading, command queue, removal, `Send` and `Disconnect` up to the object | `socket_manager.cpp`, `tcp_server.cpp`, `socket_object.h` |
| `SocketManagerProofs` | theorems about it | - |
| `SendPath` | one socket's output: `PushMsg`, SEND commands, `HandleSend`, EPOLLOUT edges, partial writes, receive limit | `socket_object.h`, the `HandleSend`/`HandleReceive` of the three handlers, `socket_manager.cpp` |
| `OutputStream` | the abstract specification of that output | what `PushMsg` and `HandleSend` promise together |
| `SendPathProofs`, `SendWakeProofs` | theorems about `SendPath`: types and its refinement of `OutputStream`; no packet is stranded | - |
| `TcpClient` | connects on application threads, `OnBeforeProcessIo`, the heartbeat and the sweep, removal at the same time | `tcp_client.cpp`, `socket_manager.cpp`, `socket_object.h` |
| `TcpClientSteps`, `TcpClientProofs` | theorems about it: the parts of the invariant and the effect of each step; the invariant and what follows | - |
| `Lifecycle` | main, `Start` and `Stop` of a `TcpServer` and a `UdpServer` with all failures, their workers, one descriptor table | `main.cpp`, `tcp_server.cpp`, `udp_server.cpp`, `socket_manager.cpp` |
| `LifecycleSteps`, `LifecycleProofs` | theorems about it: the invariant of descriptors, maps and threads; what Stop leaves and who is told | - |
| `DebugNew` | operators `new` and `delete` of debug builds | `memory_leak_detector/debug_new.cpp` |
| `BlockList` | the abstract specification of their list | what `alloc_mem`, `free_pointer` and `check_leaks` promise together |
| `Crc32` | `get_stm32_crc`, and the CRC as bitwise division | `utilities/common_funcs.cpp` |
| `DmPacket` | the packet reader; EXTENDS `DebugNew` (its buffer is a block) and `Crc32` | `examples/dm_packet.cpp`, `.h` |
| `DmPacketProofs` | theorems about it and the allocator: types, owners of blocks, the list and its refinement of `BlockList`, the total, the packets found | - |
| `MCSocketManager`, `MCSendPath`, `MCTcpClient`, `MCLifecycle`, `MCDmPacket` | the modules for TLC, with the symmetry of their names and the streams `DmPacket` is sent | - |

### 2.1 SocketManager

State of the program: `sockMap` is `sock_object_map_`, `obj` the heap of `SocketObject`s
(`Nil` is free memory, and an address may be used again), `cmdQ` is `cmd_queue_`, `left` the
`count` of `ProcessCommand`, `batch` the events `DoWork` has still to handle. `pc`, `ptr` and
`call` are the place and the locals of each thread. State of the kernel: `sock` (which
connection is open on a descriptor), `interest` (`epoll_ctl` registrations with the raw
`data.ptr`), `ready` (edges not yet reported), `rx` and `eof` per connection. `life` is a
ghost: what the listener has been told. `conn` in a command is a ghost as well.

| Action | Code |
|---|---|
| `EpollWait`, `BatchDone`, `ProcessIo` | `DoWork` 206-239, `ProcessIo` 308-330 |
| `HandleAccept` (none, leaked, refused, accepted) | `tcp_server.cpp` 97-140, `AddTcpSocket` |
| `EnterHandler`, `ReadData`, `ReadEof`, `ReadAgain` | `HandleReceive` 156-193 |
| `StartCommands`, `CommandSend`, `CommandNotFound`, `CommandsDone` | `ProcessCommand` 263-294 |
| `RemoveObject`, `RemoveClose`, `RemoveFree`, `RemoveErase` | the four steps of `RemoveSocketObject` 461-479 |
| `Push`, `Signal` | the two steps of `TriggerCmdEvent` 332-343 |
| `AppSend`, `SendAt`, `SendCheck`, `SendStore`, `AppDisconnect` | `Send` 613-622, `Disconnect` 445-448 |
| `PeerConnect`, `PeerSend`, `PeerClose` | the environment |

A callback returns or first calls `Send` or `Disconnect` for the socket it was told of
(`CallbackOps`), which is what the example servers do. Payload and the output queue are
abstract here; `SendPath` has them.

### 2.2 SendPath and OutputStream

`SendPath` follows one `SocketObject` from the moment it is registered to its removal. `outQ`
is `out_packets_queue_`, a packet a record of its size, the bytes `left`, and whether the
kernel refuses it (`bad`). `room` and `full` are the kernel's send buffer and the flag that
makes it report EPOLLOUT again, `event` the socket event being handled (`None` inside
`ProcessCommand`). `Lock`, `Push`, `Trigger`, `Signal` are the steps of `Send` on any thread.
`HandleSend` is `SendEmpty`, `Write`, `WriteBlocks`, `WriteFails`, `PopOutPacket`; it looks at
the queue without the mutex. A packet of size 0 has unset pointers, so its `Size()` is whatever
the memory held (0 or 1 here). `Datagram` chooses UDP (a packet is taken whole or not at all,
0 bytes read is an empty datagram) or TCP; `ReceiveLimit` allows `HandleReceive` to return
FALSE, which makes `DoProcessIo` skip EPOLLOUT.

`OutputStream` states what the caller of `Send` may expect: accepted packets wait in order, at
most `Limit` of them; bytes of the first one are put into the buffer, never more than it
has left; a packet whose bytes are all written is finished; removal drops the rest. The
refinement mapping in `SendPath` (`Stream`) shows the sizes of `outQ` as the pending packets
and `size - left` of the head as the bytes already written.

### 2.3 TcpClient

A server's sockets are made and removed by its worker; a client's are made by application
threads while the worker removes others. `dial` holds the locals of a connect (descriptor,
connection, object), `pc` its place: `Open` (`socket` and the start of `connect`), `Connected`
or `ConnectFails` for the blocking call, `Insert` (`count` and `insert` of
`AddSocketObject`), `Watch` (`AddFD`), `Announce` (`OnConnect` on the caller's thread).
`AddRefused` is the FALSE the callers ignore. `AsynchConnectTo` has its three outcomes: in
progress, connected at once, failed at once. On the worker, `Skips` and `Proceeds` are the two
results of `OnBeforeProcessIo`: the object is invalid, its `getsockopt(SO_ERROR)` finds (and
clears) an error, or it is or becomes connected. `ReadOver` is an exceeded receive limit.
`ProcessTimer` counts the expirations it has read and, when a keep-alive time of them has
passed, queues a disconnect for each silent entry. `up` is `connect_state_`, `age` the
heartbeats since `active_time_`, full for a new object, whose `active_time_` is 0.

`sock`, `interest`, `ready`, `net`, `rx` and `beats` are the kernel's; `Close` ends the
registration of a descriptor with it, and number and heap address are given out again as soon as
they are free. `told` (the listener's calls), `via` (who calls `OnConnect`) and `lost` (open and
unknown for good) are ghosts.

| Action | Code |
|---|---|
| `ConnectToRemote`, `Connected`, `ConnectFails`, `AsynchConnectTo` | `socket_manager.cpp` 345-400 |
| `Insert`, `AddRefused`, `Watch`, `Announce` | `AddSocketObject` 450-460, 367-368 |
| `ProcessIo` | `DoWork` 231, `OnBeforeProcessIo` (`tcp_client.cpp` 63-99) |
| `ReadData`, `ReadOver`, `ReadEof`, `ReadAgain` | `HandleReceive` 109-154 |
| `ProcessTimer`, `Tick` | `ProcessTimer` 297-307, `OnTimer` 51-61, `DisconnectSilenceConnections` 518-529 |
| `CommandSend`, `CommandNotFound`, `RemoveObject`, `RemoveClose`, `RemoveErase` | `ProcessCommand`, `RemoveSocketObject` |
| `AppSend`, `AppDisconnect` | `Send`, `Disconnect` |

Abstract here, and detailed in the first two modules: the steps of `TriggerCmdEvent` and of
`Send`, the output queue.

### 2.4 Lifecycle

`pc` and `srv` are main's place in the start and the stop of the two servers `main.cpp` makes.
`slot` holds the numbers each manager remembers (`listen_socket_`, `epoll_fd_`, the two eventfds,
the timer), `files` the process's descriptor table, which gives out the lowest free number.
`CloseAll` closes numbers, whatever they lead to: `stolen` records that one led to a file of
another owner or to none. Each step of `SocketManager::Start` succeeds (`Make`,
`StartWorkThread`) or fails (`NoEpoll`, `MakeFails`), after which `TeardownOfStart` is the `Stop`
it calls; `CreateListenSocket` fails before or after `socket`, and then `listen_socket_` keeps a
number that is closed. `main` ignores results, so `CloseListenSocket`, `CloseNext` (one entry of
`CloseAllSocket`), `StopWorkThread`, `Join` and `Teardown` run on whatever was built. Meanwhile
the worker of each server accepts (`Accept`, then `AddTcpSocket`, or `fcntl` fails and the socket
is left open and unknown), reads (`HandleReceive`, then `ReadNext` as long as there is data: the
loop has no other bound), queues a disconnect at end-of-file, executes those queued
(`RemoveClose`, `RemoveErase`), or ends: on the exit event (`WorkEnds`) or on any error of
`epoll_pwait` (`NoSuchEpoll`, `Interrupted`). The UdpServer's sockets are added by main
(`AddListenSocket`, one step here, its `fcntl` taken to succeed) while its worker already runs.

`unread` says of which sockets there is data, not how much; `client` is the state of a connection.
A port has one empty datagram at a time, after it was read the next may come. The timer has a
descriptor here and no expirations: `OnTimer` of both servers is empty. A batch is whatever is
ready: `max_events_` is 6, and the events the exit event could leave behind are none that main waits
for.

### 2.5 DmPacket, DebugNew, BlockList, Crc32

`DmPacketRead` is a loop over what one call is given; each iteration is an action that copies
bytes to the place `pos_` stands for: `ReadHeader`, `ReadLength`, `ReadDataPart`, the last of the
data (`ReturnPacket`, `DropPacket`), and `ReadNext`, which drops the packet of an earlier call.
`DmPacketRead` starts a call with the next piece of a byte stream, of any size in `ReadSize`;
`CallerResets` is the caller's own `Reset` of a packet returned, which it may or may not do. Nothing in the
repository calls `DmPacketRead`, so both are possible. The buffer is allocated with
`new char[]`, which in debug builds is `DebugNew`'s `New`; while the reader is inside it, it
does not go on.

`DebugNew` is the allocator, with one action per write to the list: `Link`, `LinkNext`,
`LinkPrev` in `alloc_mem`, `Unlink`, `UnlinkPrev` in `free_pointer`, all between taking and
giving back `new_ptr_lock`. `total_mem_alloc` is a read and a write (`ReadTotal`, `AddTotal`,
`SubtractTotal`), under the lock in `delete`, after it in `new`. Reader threads and other threads
share it. `BlockList` is what the list promises, a sequence of blocks to which one is appended,
from which any may be removed, and which a leak report counts; the refinement mapping reads the
sequence off the `next` links.

`Crc32` has the code's table, written out, and its loop over words of four bytes taken from the
last to the first; `BitwiseCrc` divides by the polynomial, a bit at a time. `DmPacket`'s
assumption `SentAssumption` says that the packets a sender makes carry the latter, so TLC
compares the two on these as well.

## 3. The runs

All runs are small enough for a laptop (a minute or two each).

| Run | Instance | Checks | Shows |
|---|---|---|---|
| `sm_safety` | 2 descriptors, objects and connections, 1 application thread, callbacks that disconnect; 2.1 million states | `TypeOK`, `TableConsistent`, `NoLostWakeup`, `CallbackOrder` | under racing sends and disconnects, reused numbers and stale events, the tables agree, no command is stranded (the count is more than the queue holds), callbacks come in order |
| `sm_single` | the same with no application thread, callbacks that send and disconnect, a count of 2 and up to 3 queued commands, fairness; 368,000 states | `RemovesItsOwn`, `PeerCloseNoticed` | as long as the queue fits the count: a disconnect issued by a callback or at end-of-file never closes a later connection with the same number; every close of a peer leads to removal |
| `sm_stale_event` | | `DispatchedObjectIsValid` violated | section 5 |
| `sm_budget` | budget 2 and 4 queued commands | `NoLostWakeup` violated | section 5 |
| `sm_accept` | | `ClientsServed` violated | section 5 |
| `sp_stream` | UDP, 1 application thread, `DoRead` that echoes, receive limit, empty packets, limit 2 and 3 packets; 1.7 million states | `TypeOK`, `OutputIsStream` | the stream refinement while two threads push and the worker writes, with removal in between |
| `sp_live` | TCP, 1 application thread, sizes 1 and 3 over a buffer of 2, fairness; 300,000 states | `NoStrandedPacket`, `OutputIsStream`, `Delivered` | partial writes are resumed: everything accepted is written, once, in order |
| `sp_refused` | UDP with one size the kernel refuses | `PassedBack` violated | section 5 |
| `sp_overflow` | UDP with a receive limit | `SendReachesRemote` violated | section 5 |
| `tc_client` | 1 application thread, 1 descriptor number, 1 address, 2 connections, a sweep every 2 heartbeats of what was silent for 3, fairness; 493,000 states | `TypeOK`, `TablesAgree`, `NoStrandedConnect`, `LostOnlyInRemoval`, `CallbackOrder`, `PrematureConnectCauses`, `KeepAliveWorks` | connects against removals: what holds of tables and callbacks, the two ways to lose a connection, the three ways to announce one too early, and that the sweep removes whatever is held |
| `lc_servers` | 1 client that sends, 2 UDP sockets of which one reads end-of-file, budget 2, every failure of every step, fairness; 341,000 states | `TypeOK`, `StoppedIsClean`, `ClosesItsOwn`, `EveryoneTold`, `NoCallbackAfterStop`, `StopReturns` | the two servers of `main.cpp` from start to stop |
| `dm_packets` | 1 reader, 1 other thread, 3 blocks, 7 streams, reads of 1 and of up to 21 bytes in any order; 801,000 states | `TypeOK`, `CutsDoNotMatter`, `SamePackets`, `CrcIsRemainder`, `BuffersOwned`, `LinksAgree`, `TotalTracks`, `ListIsBlocks`, `IterationsAdvance` | packets do not depend on how the stream is cut and are those sent intact, buffers are freed, the CRC of what was read is right, the list implements `BlockList` |

The properties, in words:

- `TableConsistent`: every map entry leads to its own valid object or is being removed; every
  object is in the map; every registration points to a live object; every entry is registered
  and open until `RemoveClose`; every open descriptor is in the map, but for one `HandleAccept`
  leaked. The fourth is the reason an accept never meets a stale entry, although the
  descriptor is closed before the entry is erased: removal and accept are both the worker's.
- `NoLostWakeup`: outside `ProcessCommand` a non-empty queue has an eventfd edge armed, reported
  or about to be made.
- `CallbackOrder` (action property): OnConnect, DoRead\*, OnDisconnect.
- `RemovesItsOwn`: a DISCONNECT, which carries a descriptor number only, closes the connection it
  was issued for, as long as the queue never holds more commands than one `ProcessCommand`
  executes (`QueueFits`): one left behind may meet the next connection of that number.
- `PeerCloseNoticed`: with edges only, every connection whose peer closed is removed, if peers pause
  and, again, the queue fits the count. The second premise is a limitation of the code, too: 20
  reads whose callbacks call `Send` and the end of the stream queue 21 commands under one edge of
  the eventfd, and the DISCONNECT stays behind until an unrelated call (`sm_budget`).
- `Delivered`, `NoStrandedPacket`: the same kind of progress for the output queue.

- `TablesAgree` (`TcpClient`): the same agreement when other threads make sockets, for one such
  thread; `DescriptorKnown` is its point, that every open descriptor has an entry of its own, a
  connect under way, or is one of `lost`.
- `LostOnlyInRemoval`: a connection is lost when connect fails at once (the descriptor is
  returned to the caller, and nothing tells it that nobody will close it) or when
  `AddSocketObject` meets the entry of a number the worker has closed and not yet erased.
- `CallbackOrder` (`TcpClient`): OnConnect and OnDisconnect once each, and in order for what the
  worker announces. A connect on an application thread announces after registering: there
  OnConnect may come after data, and after OnDisconnect.
- `PrematureConnectCauses`: the three causes of an OnConnect for a connection that is not made.
- `NoStrandedConnect`: an attempt that has ended has been announced or will be removed once the
  worker is idle, though the edge may have come before the registration.
- `KeepAliveWorks`: what the manager holds when peers pause is removed by the sweep, connections
  that never came about and those whose end a receive limit hid included.
- `StoppedIsClean`, `ClosesItsOwn`, `EveryoneTold`: after main's last `Stop`: nothing runs,
  nothing is queued or held, every descriptor is closed, by its owner (up to the timer that
  `CreateTimer` leaks when `timerfd_settime` fails, and the second close of `listen_socket_`
  after a failed Start); every listener was told of the end of every socket, and every socket closed, up to five named
  causes: `CloseAllSocket` did not see it, more commands than one wakeup executes, a failed
  Start, a worker that ended on an error, and `fcntl` that failed after `accept`, which leaves a
  socket open that no listener was ever told of.
- `NoCallbackAfterStop`, `StopReturns`: the join. `StopReturns` has the premise that peers pause: a
  peer that streams keeps the worker in its read loop, and `pthread_join` waits for it.
- `CrcIsRemainder`: the CRC of each packet collected is that of polynomial division; lengths with
  each remainder by four occur. The run meets a few dozen of the table's entries; that all 256 are
  remainders of the polynomial is an assumption of `MCDmPacket` which TLC evaluates
  (`TableAssumption`).
- `CutsDoNotMatter`: the packets returned are those one pass over the uncut stream finds valid. The
  reference `PacketsIn` skips four bytes at a wrong header as the code does: it is about cuts, not
  about finding a header that is out of step, which the code does not do.
- `SamePackets`: they are the packets the senders made and nothing damaged, which adds that the
  check by CRC and tail tells the two apart.
- `BuffersOwned`: each block belongs to one packet, thread or call; nothing leaks.
- `IterationsAdvance`: a measure each iteration lowers, one that consumes nothing included: the
  loop of `DmPacketRead` ends.
- `ListIsBlocks`, `LinksAgree`: the list forwards implements `BlockList` at every moment, and
  is the same backwards whenever the lock is free.
- `TotalTracks`: until an update is lost, the total is the size of the blocks counted, as far as
  `size_t` holds it.

Each property has a mutant, a plausible bug in a definition (a count that is not tested, one
command per wakeup, an object not deleted, an entry not erased, one read per edge, a partial
write taken for a whole one, EPOLLOUT dropped after EPOLLIN, a limit not tested, SO_ERROR not
looked at, bytes copied to the wrong place, earlier expirations forgotten, an exit event handled
before the rest of its batch, a worker not joined, a wrong header kept, a dropped packet's
buffer forgotten, a last word not swapped, one link not mended) which makes its run fail; the
mutants stand before the definitions they change.

## 4. Bounds, fairness, undefined behaviour

**Bounds.** `MaxRx` (unread segments) is 1 or 2: the handlers tell only "some" from "none",
and 2 is the smallest number with a read between two reads. `MaxQueue` bounds new calls, not
the queue: a callback and an application thread may each add one command beyond it. Two
connections and two descriptors are needed, and enough, for a number to be reused
while a command or an event still names it. `CmdBudget` is 20 in the code; `sm_safety` uses 5,
more than its queue can hold, `sp_live` and `sp_stream` 3 and 2, `sm_single` 2, which its queue
outgrows by one (its properties have the premise that it does not; without it TLC refutes both),
and `sm_budget` a queue longer than the budget. `SendPath` has the commands of its own socket
only: those of others, which share the count in the code, are taken to leave enough of it. `Limit` is 1000 in the code, 2 here with 3 packets, so that a refusal
happens. `Cap` of 2 with packets of 3 gives partial writes and EWOULDBLOCK at every place.
`MaxPackets` ends the runs of an application that never stops sending. The proofs of section 6
do not depend on the values of these constants; `MaxRx`, `MaxQueue` and `MaxPackets` are
parameters there.

`TcpClient`: one descriptor and one address for two connections make every reuse happen; a second
application thread is excluded, see below. The same properties but for liveness were checked once
with two descriptors, two addresses and two connections (6 million states, no error). `KeepAlive`
is the quotient of keep-alive time and heartbeat, which is what `OnTimer` counts to, and
`SilentAge` the heartbeats of silence a sweep asks for, the quotient or one more when it is
rounded: 2 and 3 here; 2 and 2, and 1 and 2, the smallest the code sweeps with, were checked once.
`MaxBeats` 1 merges with the rest of a batch, ages stop at `SilentAge`. `Lifecycle`: `Ending` are
the sockets whose end a worker may see before the stop, `Sending` those data arrives on, one each
(a run in which all of them do has too many states); `CmdBudget` 2 with two UDP sockets makes the
queue outgrow it; `NumFds` is one for each file that may be open at once. A client and two sockets
are what it takes for a number to be reused while its entry is being erased. `DmPacket`:
`MaxOfMsgSize` is 8 MiB in the code, 32 here; `TotalRange` is 2^64 in the code, 64 here, so the
total wraps. Sizes 1 and 21 in any order reach every cut into a prefix, single bytes and the rest.
Three blocks allow one to leave between two. A run is not followed beyond a lost update of the
total (with `BeyondTorn`, which the theorems allow, it takes 6.4 million states, checked once),
and the leak report comes when the reader is done. Each stream is a damaged, cut or intact packet,
followed by a good one.

**Obligation of the caller.** With two threads that connect at once, `TablesAgree` fails: `Watch`
of the first registers the pointer of an object the worker has deleted for a number that is
the second's by now. `TcpClient` is checked for one connecting thread; the repository has no
program that uses more, or says how many may.

**Deadlock** is not checked: with every call and connection used up and quiet peers the worker
waits in `epoll_pwait` for ever, as it should; main ends, and a stream is read.

**Fairness.** `FairSpec` assumes weak fairness of the worker and of the steps of a call an
application thread has begun: the operating system runs threads that can run, and no step of
theirs waits for anything but the output mutex, held for a few instructions. `TcpClient` adds that
time passes and that a connection attempt ends, `Lifecycle` that main runs and, separately, the
worker of each server. Nothing makes a peer act, an application call, a user type `:q` or a signal
come. `PeerCloseNoticed`, `StopReturns`, `KeepAliveWorks` and `Delivered` have premises on the
peers (`PeersPause`, `PeerPauses`: they stop sending at some time; for `Delivered` also
`PeerReads`: the send buffer is emptied again and again), because `HandleReceive` loops as long as
data arrives, without looking at commands or at the exit event, and a peer that does not read
stops the stream. The premise on sending is a real limitation of the code: `MAX_CONTINUE_READS`
(`socket_manager.h` 27) never bounds the loop, as the flag the handlers get is the event mask and
so never 0.

**Undefined behaviour** is a choice: a use of freed memory reads as an invalid object or ends
the program; two threads inside `cmd_queue_.push` both succeed, lose a command, or end the
program; `map::at` on an erased entry throws; a write to a reset connection may raise SIGPIPE.
`crashed` marks the ends, and nothing is said of what follows. Corruption of the heap beyond
that is not followed, so the safety results hold of the executions in which such a race does
no silent damage. Properties that a lost command would refute say so: `NoStrandedPacket` and
`Delivered` have `lost`; in `SocketManager` a lost command leaves the queue and the wakeup
consistent.

**Other weaknesses** the modules show, which no document of the repository speaks of:

- A connection that is up and has not read yet is as old as the machine (`active_time_` is 0):
  the first sweep removes it (`socket_manager.cpp` 525).
- A SEND command for a socket that is still connecting, or a stale event whose object's address
  was reused, makes the client believe it is connected (`tcp_client.cpp` 87).
- `AsynchConnectTo` that fails at once leaks the descriptor; an `AddSocketObject` that refuses is
  not noticed and leaks the object and the descriptor (388, 367).
- Any signal that reaches the worker in `epoll_pwait` ends it for good (215).
- A failed `TcpServer::Start` closes `listen_socket_` and keeps the number, and `Stop` closes it
  again: it may be the UdpServer's by then (`tcp_server.cpp` 88).
- A client accepted while `CloseAllSocket` walks the map is never told, and its socket is not
  closed.
- A damaged or foreign byte before a packet puts the reader out of step by up to three bytes,
  and packets are lost until a header comes at a multiple of four (`dm_packet.cpp` 75).
- An update of `total_mem_alloc` may be lost (`debug_new.cpp` 673).

## 5. Findings

Each is a run that TLC finds violated, by a behaviour of the code a comment or a
test of the repository contradicts.

- `sm_stale_event`: a command handled earlier in a batch deletes the object a later event of
  the batch points to; `DoWork` (231) dispatches to it. The assertion at `tcp_server.cpp` 157
  (commented out) is what it breaks.
- `sm_budget`: `ProcessCommand` stops after 20 commands; the eventfd is edge-triggered and
  never read, so the rest waits for an unrelated call (267, against the comment at 264).
- `sm_accept`: one `accept` per edge; of two clients that connect together the second is not
  served until another one connects (`tcp_server.cpp` 108, against
  `examples/tcp_server_tester2.cpp` 59).
- `sp_refused`: a datagram `sendto` refuses stays at the head of the queue for ever
  (`udp_server.cpp` 129, against `examples/udp_server_tester.cpp` 75).
- `sp_overflow`: when the receive limit is exceeded, `DoProcessIo` returns before it looks at
  EPOLLOUT: the edge is used up and packets are stranded (`socket_manager.cpp` 323, against the
  comment at 264).

## 6. Proofs

`tlapm` on `SocketManagerProofs`, `SendPathProofs`, `SendWakeProofs`, `TcpClientSteps`,
`TcpClientProofs`, `LifecycleSteps`, `LifecycleProofs` and `DmPacketProofs` checks every step. The
assumptions are those named in the modules: bounds are positive naturals, names of different kinds
are different, the worker is not an application thread, the client's descriptors are finitely
many, and so are the sockets of `Lifecycle` and the blocks of `DebugNew`; `kMaxOfMsgSize` is at
least the 16 bytes of the smallest packet.

**SocketManagerProofs**, for any sets of descriptors, objects, connections and threads:

- `TypeCorrect`: `Spec => []TypeOK`.
- `TablesAgree`: `Spec => []TableConsistent`.
- `CallbacksInOrder`: `Spec => CallbackOrder`.
- `WakeupsKept`: as long as the queue never exceeds the budget, `[]NoLostWakeup` (without that
  premise it is false, see `sm_budget`).
- `RemovalHitsItsOwn`: in runs in which no application thread calls `Disconnect`
  (`[][NoAppDisconnect]_vars`), `RemovesItsOwn`, which has the same premise.

`TableConsistent` is not inductive. `Shape` adds what each thread's locals hold at each
place (`CallHeld`, `PtrHeld`), that the object of a read loop stays valid while the loop runs,
its callbacks' calls included (`ReadsValid`: only the worker removes, and a removal is a
command), that a command being executed is still at the head (`HeadHeld`), and that only
registered descriptors are ready. `Tables` adds `RemovalPhase`, what the four tables say of the
descriptor being removed at each of the four steps, and `Ownership`, that a connection is open
on one descriptor and is the listener's exactly while its entry is not being removed. The
callback order then follows from `Ownership` step by step. For the wakeups, `Wake` adds that a
worker inside `ProcessCommand` has budget for the whole queue or has been signalled again, and
that it sleeps only with an empty batch.

`RemovesItsOwn` rests on `Own`: the worker issues a DISCONNECT only for the connection open on
its descriptor (`IssuedCurrent`), it stays so while the command is queued, because `ProcessCommand`
alone closes descriptors (`QueuedCurrent`), and every DISCONNECT in the queue is executed before
`ProcessCommand` returns and a number can be accepted again (`InBudget`). Both premises are
needed: a `Disconnect` call of an application may be queued after the number was reused, and a
DISCONNECT that outlasts the count meets whoever was accepted in between.

**SendPathProofs**, for any threads, limits, buffer and packet sizes, TCP and UDP:

- `TypeCorrect`: `Spec => []TypeOK`.
- `StreamImplemented`: `Spec => OutputIsStream`, the refinement of `OutputStream`.

The invariant adds `Positions` (a handler called from `ProcessCommand` has a command to pop and
budget left, one called for an event has the event; without it `left` could go below 0),
`QueueShape` (only the head packet is partly written; a removed object holds none) and `Holder`
(one thread at most between PushMsg's lock and unlock, and the room it found is still there).
Only five actions change what `OutputStream` sees (`StepKinds`): `Push` accepts, `Write` puts,
`PopOutPacket` finishes, `Remove` closes or stutters, `Drain` drains; each has its lemma, on top
of three lemmas about the sizes of a queue after append, tail and write.

**SendWakeProofs**, for the same constants:

- `NoneStranded`: `[]NoStrandedPacket` in runs with `[](Fits /\ Sendable)` and
  `[][~LimitHit]_vars`.

Each premise excludes one of the ways in which a packet is stranded: `Fits`, that a wakeup never
has more commands than `ProcessCommand` executes (`sm_budget`); `Sendable`, that the kernel
refuses no packet for good (`sp_refused`); `~LimitHit`, that the receive limit does not make a
handler return before it looks at EPOLLOUT (`sp_overflow`). The invariant `Wake` has four parts,
which need each other. `Awake`: queued commands are in reach of the loop that runs, or a wakeup
comes. `Resumed`: a packet of an open connection is looked after, by a thread that pushed it and
has its SEND still to issue, a command that has not had its turn, a handler that runs, an event
in the batch, or the edge the kernel owes to a full send buffer. `Ended`: the end of the peer's
stream will be read, or was and the DISCONNECT is on its way. `Issues`: the worker holds a
DISCONNECT only between `CloseSocket` and its signal.

**TcpClientSteps and TcpClientProofs**, for any sets of descriptors, connections, addresses and
connecting threads:

- `TypeCorrect`, `Invariant`: `Spec => []TypeOK`, `Spec => []Inv`.
- `MapAndDescriptors`: each map entry leads to its own object, and each open descriptor has an
  entry of its own, a connect under way, or is `lost`.
- `ConnectionsAreKept` (`LostOnlyInRemoval`), `ListenerIsToldInOrder` (`CallbackOrder`),
  `PrematureInThreeCases` (`PrematureConnectCauses`).
- `ConnectsAloneAgree` and `ConnectsAloneResolve`: `TablesAgree` and `NoStrandedConnect`, when
  the callers satisfy `[][ConnectsAlone]_vars`: no thread calls `socket` while a connect is
  under way. `OneThreadAgrees`: a single thread does. Without the obligation both are false
  (section 4).

`Inv` is what holds however many threads connect. `Shape` says what each thread's locals hold.
`Tables` says that map and heap are inverses and that the one invalid object is the one being
removed, whose command is still at the head of the queue. `Ownership` says that a connection is
open on one descriptor and dialled by one thread, and that an entry a dialling thread meets is
one whose descriptor the worker has closed: this is the step that needs the order of `close` and
`erase`. `Callbacks` relates `told` to the objects and to the dialling threads; `Errors` says
that an event is never of a connection still connecting, and that an error that was read has its
disconnect queued, which is what the stale events and the SEND commands of
`PrematureConnectCauses` come down to. `Single` adds, for connects that come alone, that at
most one thread is inside one (`OneConnect`), that a registration leads to the object the map
still has (`Registered`), and that an ended attempt has an edge, an event or a command to come
(`Pending`). `TcpClientSteps` has one lemma for each action, saying what it writes in terms of
the names of the invariant; the proofs of the parts use these and not the actions.

**LifecycleSteps and LifecycleProofs**, for any finite sets of clients and ports, any budget and
any table of descriptors with a number for each file:

- `TypeCorrect`, `Invariant`: `Spec => []TypeOK`, `Spec => []Inv`.
- `OwnDescriptorsClosed` (`ClosesItsOwn`), `StopLeavesNothing` (`StoppedIsClean`),
  `QuietAfterStop` (`NoCallbackAfterStop`), `AllAreTold` (`EveryoneTold`).

`Base` is the invariant of the first module. `Control` relates main's place to the descriptors
of each manager and to its thread: which slots are empty at each step of Start, that a manager
that has not failed has its epoll from Start to the end of Stop, that its worker has been joined
before its descriptors are closed. `Tables` is about numbers: each open file is a manager's or a
socket's and open once; a manager remembers what it made; until `TcpServer::Start` fails each
number a slot or a map holds leads to the file it was given for. That a free number exists
(`NumberIsFree`) is a counting argument: the files there may be are no more than `NumFds`, each is
open once, and the one being opened is not open. It needs that a Start runs once and that the
worker that erases entries is the one that accepts.

`AllAreTold` needs what becomes of a disconnect. `Kept` follows a socket somebody has to be told
of: it is being accepted, or in the map under a number, and once `CloseAllSocket` has passed that
number the number is in the queue. `Wake` says that the worker has been woken for all that is
queued, and executes it before it sees the exit event, unless the queue outgrew the count.
`CmdEvent` is why it can be: the number a manager has for its eventfd leads to it, because the one
close that may hit another's number, `CloseListenSocket` after `TcpServer::Start` failed, closes the
first number of the process (`FirstNumber`), which no eventfd gets (`CmdLeads`).
`ExitLast` says that the exit event exists only while main waits, when nobody but the worker
queues; `AllTold` concludes that all were told when the exit event is all a worker has left. It
allows one socket, the one being accepted then, which `AddTcpSocket` counts as `missed`.

**DmPacketProofs**, for any sets of readers, other threads, blocks and streams, any sizes of reads
and allocations, and any largest length from 16 on:

- `TypeCorrect`: `Spec => []TypeOK`: no byte is copied behind the end of a buffer.
- `EachBlockIsOwned` (`BuffersOwned`): no buffer leaks, none is freed twice, no `delete` aborts.
- `LinksStayPaired` (`LinksAgree`) and `ListImplemented` (`ListIsBlocks`): the list of
  `debug_new.cpp` implements `BlockList`, with any number of threads inside `new` and `delete`.
- `IterationsMove` (`IterationsAdvance`): the measure of the loop of `DmPacketRead` decreases.
- `TotalIsTracked` (`TotalTracks`): the total, modulo the range of `size_t`.
- `CutsAreIrrelevant` (`CutsDoNotMatter`): the packets returned are those of the uncut stream.
- `IntactPacketsReturned`: `[]SamePackets`, for streams on which the check of a packet is exact
  (`Detected`): wherever a stream holds a header and an allowed length, what follows passes the
  check if and only if a sender made it. No 32-bit CRC has this for all streams, so it is a
  premise of the theorem and not an assumption of the module. It holds of the streams of
  `dm_packets`, as that run shows for what the pass meets: there the valid packets and the sent
  ones are the same.

`Chain`, which `check_leaks` reads, is a recursive function; `ChainReads` says that it is the
sequence `s` whenever `s` has no block twice and `next` leads from each place of the ring of
head and `s` to the following one (`Once`, `Forward`). Its induction over the steps of the walk
is done with a least counterexample (`LeastExists`), which needs no operator as a parameter. The
rest is about sequences: `PlacesOfAppend` and `PlacesOfRemoveAt` say where the places are after
an append and a removal. `List` says that `Chain` is such a sequence, of the blocks linked and
not yet taken out (`Members`), and that `prev` is the same list backwards once the write the
lock's holder still has to make is made (`PrevToBe`); `LinkNextList` and `UnlinkList` are the
two steps of `BlockList`, the single writes to `next` that bring a block in or take it out.
`Calls` says who is inside the lock. `Owned` says that each block is one thread's, in a packet,
among its objects or in its call, and was allocated by the operator that goes with its `delete`;
`PacketOK` that a packet has a buffer from its ninth byte on, of the length announced, and that
the bytes read and to be read are this length. The proof needed two changes of form:
`BlockList`'s `Drop` removes a place of the sequence, not what `SelectSeq` filters, and
`IterationsAdvance` looks at each reader's own packet, as the old form, which looked at all, is
false for two readers.

`TotalTracks` sums over a set. `TotalOf` gives the fold a recursion over subsets that drops one
chosen element at a time, and `TotalByAny` says that any element may be the one dropped, both by
a smallest counterexample (`SmallestExists`); `AddedMod` and `SubtractedMod` are the arithmetic
of `size_t`. The inductive part, `Tracked`, also says which blocks are counted: those given out
but for the ones whose `new` has not added them or whose `delete` has subtracted them (`Added`).
Stating the property for the proof showed that it had left out that the sum may exceed `size_t`;
it now says "modulo".

For `CutsDoNotMatter`, `Scans` is the recursion of `PacketsIn`: `ScanExists` and `PassScans` say
that it has a solution, which is what makes the `CHOOSE` behind the definition one. The
invariant of a reader, `Reading`, says that the bytes collected are those of the stream from
`Start` on, that a header and a length that were accepted stand there, and `Found`: any pass
over the bytes read or more has found the packets returned when it comes to `ScanAt`, which is
the start of the packet being read, or the end of one returned and not yet dropped. Quantifying
over all longer passes is what makes it inductive: an iteration moves `ScanAt` over a wrong
header, a length not allowed, or a complete packet (`FoundNoHeader`, `FoundNoLength`,
`FoundPacket`), or leaves it (`FoundLater`). In any state the pass over what was read finds
nothing from there on (`NothingLeft`), which gives the property.

**Only model-checked**: `CrcIsRemainder`, whose proof would have to evaluate the 256 entries of the
table and do induction over the bits of a word; the liveness properties `PeerCloseNoticed`,
`Delivered`, `KeepAliveWorks` and `StopReturns`, which are out of the prover's reach.

## 7. Not modelled

- The counters and setters of the receive limit: an exceeded limit is a choice in `SendPath` and
  `TcpClient`, which allows whatever they hold.
- `TcpClient::Start` and `Stop`: those of `UdpServer` in `Lifecycle` but for `CloseAllSocket`. A
  restart after `Stop`, which no program of the repository does.
- In `Lifecycle`: the timer's expirations (its `OnTimer` is empty there), `DoRead`'s calls and SEND
  commands (`SocketManager`, `SendPath`), several empty datagrams at once, `fcntl` failing in
  `AddUdpSocket`. A second client or server process.
- In `DebugNew`: out of memory, verbose output, stack traces, the tail check (off by default),
  the recorder of file and line, `check_mem_corruption`. They change no state the list or the total
  depends on.
- Console input but for the exit flag, hex formatting, logging, `server_base.h` and the other
  interfaces, the makefile: no concurrent or stateful behaviour of their own.
- spdlog, fmt and uthash are vendored third-party code, which no module of the network library
  calls and which makes up most of the lines under `include/`.
- Inside `SocketManager`: the bytes and the output queue (see `SendPath`), failures of
  `epoll_ctl` and of memory allocation.

## 8. Plan

Modelled: `SocketManager`, `SendPath` refining `OutputStream`, `TcpClient`, `Lifecycle`,
`DmPacket` over `DebugNew` (refining `BlockList`) and `Crc32`.

Every safety property a run finds to hold is proved, but for `CrcIsRemainder` (section 6).
What is left is to weaken premises: `WakeupsKept` and `NoneStranded` assume that no wakeup has more
commands than it executes, where a bound on the producers between two wakeups would do.
