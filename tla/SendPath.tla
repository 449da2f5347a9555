------------------------------ MODULE SendPath ------------------------------
(***************************************************************************)
(* How the bytes of Send reach one socket: application threads and          *)
(* callbacks push packets on the object's output queue and a SEND command   *)
(* on the command queue; the worker's HandleSend writes the queue out, on a *)
(* SEND command or an EPOLLOUT edge, and stops where the kernel's buffer    *)
(* is full.                                                                 *)
(*                                                                          *)
(* The source is socket_object.h with HandleSend and HandleReceive of       *)
(* tcp_server.cpp, tcp_client.cpp and udp_server.cpp (one text, three       *)
(* copies) and the command queue of socket_manager.cpp.  The object exists  *)
(* from Init to Remove; SocketManager models how it comes and goes.         *)
(*                                                                          *)
(* crashed marks the outcomes of undefined behaviour, and SIGPIPE, that     *)
(* end the program.                                                         *)
(***************************************************************************)
EXTENDS Integers, Sequences

CONSTANTS
  App,           \* application threads that call Send
  Worker,        \* the worker thread
  Limit,         \* kMaxNumOfPackets, 1000 in the code
  CmdBudget,     \* count in ProcessCommand, 20 in the code
  Cap,           \* bytes the kernel's send buffer holds
  Sizes,         \* sizes of the packets sent
  Unsendable,    \* packets the kernel refuses every time, by their size
  Datagram,      \* is it a UdpServer socket
  ReceiveLimit,  \* is a receive limit set (UdpServer and TcpClient)
  Echo,          \* does DoRead call Send
  MaxRx,         \* bound: unread segments
  MaxPackets,    \* bound: packets accepted
  MaxQueue,      \* bound: no Send begins with this many queued commands
  None

ASSUME LimitsAssumption ==
  /\ Limit \in Nat \ {0}
  /\ CmdBudget \in Nat \ {0}
  /\ Cap \in Nat \ {0}
  /\ MaxRx \in Nat \ {0}
  /\ MaxPackets \in Nat
  /\ MaxQueue \in Nat

ASSUME SizesAssumption == Sizes \subseteq Nat /\ Unsendable \subseteq Sizes

ASSUME SwitchesAssumption ==
  /\ Datagram \in BOOLEAN
  /\ ReceiveLimit \in BOOLEAN
  /\ Echo \in BOOLEAN

ASSUME WorkerAssumption == Worker \notin App

\* What epoll_pwait reports: data.ptr, EPOLLIN and EPOLLOUT.
Event == [src : {"cmd", "sock"}, in : BOOLEAN, out : BOOLEAN]

ASSUME NoneAssumption == None \notin Event

Thread == App \cup {Worker}

\* MsgPacket: left is Size(), the bytes from begin to end.  bad: the kernel
\* refuses the packet each time it is written.
Packet == [size : Nat, left : Nat, bad : BOOLEAN]

VARIABLES
  outQ,        \* out_packets_queue_
  cmdQ,        \* cmd_queue_, the commands for this socket; those of others,
               \* which share the count, are taken to leave enough of it
  pc,          \* where each thread stands
  op,          \* the command each thread issues in TriggerCmdEvent
  left,        \* count in ProcessCommand
  batch,       \* reported events DoWork has not handled yet
  event,       \* the socket event being handled, None in ProcessCommand
  open,        \* is the SocketObject alive
  crashed,
  room,        \* kernel: free bytes of the send buffer
  full,        \* kernel: a write found no room (SOCK_NOSPACE)
  ready,       \* kernel: epoll ready list
  rx,          \* kernel: unread segments
  eof,         \* kernel: has the peer closed or reset
  popped,      \* ghost: packets that left outQ through PopOutPacket
  lost         \* ghost: has a command been lost in a racing push

queue  == <<outQ, popped>>
loop   == <<left, batch, event>>
kernel == <<room, full, ready, rx, eof>>
vars   == <<outQ, cmdQ, pc, op, left, batch, event, open, crashed, room,
            full, ready, rx, eof, popped, lost>>

WorkerAt == {"loop", "read", "send", "command", "popcmd", "lock", "push",
             "trigger", "signal"}
AppAt    == {"idle", "lock", "push", "trigger", "signal"}

----------------------------------------------------------------------------
(* Helpers.                                                                 *)

At(t, place)   == pc[t] = place
Goto(t, place) == pc' = [pc EXCEPT ![t] = place]

HasInput == rx > 0 \/ eof # "open"

\* Room in the model for one more Send.
MayCall == open /\ Len(cmdQ) < MaxQueue /\ popped + Len(outQ) < MaxPackets

\* out_packets_mutex_ is held from PushMsg's lock to its unlock.
LockFree == \A t \in Thread : ~At(t, "push")

\* The packets MsgPacket(n, data) may build.  With no data the constructor
\* leaves begin and end unset: Size() is what the memory held before.
Packets(n) ==
  LET made(size, bad) == [size |-> size, left |-> size, bad |-> bad]
  IN IF n = 0 THEN {made(size, bad) : size \in {0, 1}, bad \in BOOLEAN}
              ELSE {made(n, n \in Unsendable)}

\* The numbers of bytes a write of n bytes may take; none: EWOULDBLOCK.
Writable(n) == {k \in 1..n : k =< room /\ (Datagram => k = n)}

\* Mutants of Exhausted: the count is not tested; one command per wakeup.
CountIgnored == FALSE
OneCommandPerWakeup == left < CmdBudget

Exhausted == left = 0

Init ==
  /\ outQ = <<>>
  /\ cmdQ = <<>>
  /\ pc = [t \in Thread |-> IF t = Worker THEN "loop" ELSE "idle"]
  /\ op = [t \in Thread |-> "send"]
  /\ left = 0
  /\ batch = {}
  /\ event = None
  /\ open = TRUE
  /\ crashed = FALSE
  /\ room = Cap
  /\ full = FALSE
  /\ ready = {"sock"}
  /\ rx = 0
  /\ eof = "open"
  /\ popped = 0
  /\ lost = FALSE

----------------------------------------------------------------------------
(* The peer and the kernel.                                                 *)

PeerSend ==
  /\ open
  /\ eof = "open"
  /\ rx < MaxRx
  /\ rx' = rx + 1
  /\ ready' = ready \cup {"sock"}
  /\ UNCHANGED <<queue, cmdQ, pc, op, loop, open, crashed, room, full, eof,
                 lost>>

PeerClose ==
  /\ open
  /\ ~Datagram
  /\ \/ eof = "open" /\ eof' = "fin"
     \/ eof \in {"open", "fin"} /\ eof' = "rst"
  /\ ready' = ready \cup {"sock"}
  /\ UNCHANGED <<queue, cmdQ, pc, op, loop, open, crashed, room, full, rx,
                 lost>>

\* The peer takes bytes.  The EPOLLOUT edge is made only if a write, or the
\* report of an event, found no room before.
Drain ==
  /\ open
  /\ room < Cap
  /\ \E n \in room + 1..Cap : room' = n
  /\ full' = FALSE
  /\ ready' = IF full THEN ready \cup {"sock"} ELSE ready
  /\ UNCHANGED <<queue, cmdQ, pc, op, loop, open, crashed, rx, eof, lost>>

----------------------------------------------------------------------------
(* DoWork and DoProcessIo.                                                  *)

\* HandleReceive or HandleSend returns, to ProcessCommand or to DoWork.
HandlerReturns ==
  /\ Goto(Worker, IF event = None THEN "popcmd" ELSE "loop")
  /\ event' = None

\* The worker is in epoll_pwait.
Sleeping == At(Worker, "loop") /\ batch = {}

Report(s) ==
  [src |-> s, in |-> s = "cmd" \/ HasInput, out |-> s = "sock" /\ room > 0]

EpollWait ==
  /\ Sleeping
  /\ ready # {}
  /\ batch' = {Report(s) : s \in ready}
  /\ full' = (full \/ ("sock" \in ready /\ room = 0))
  /\ ready' = {}
  /\ UNCHANGED <<queue, cmdQ, pc, op, left, event, open, crashed, room, rx,
                 eof, lost>>

\* EPOLLIN is handled first.  An event of an object removed earlier in the
\* batch finds it invalid or touches freed memory.
ProcessIo(e) ==
  /\ At(Worker, "loop")
  /\ e.src = "sock"
  /\ batch' = batch \ {e}
  /\ \/ /\ open /\ (e.in \/ e.out)
        /\ event' = e
        /\ Goto(Worker, IF e.in THEN "read" ELSE "send")
        /\ UNCHANGED crashed
     \/ /\ open => ~e.in /\ ~e.out
        /\ crashed' \in {FALSE, ~open}
        /\ UNCHANGED <<event, pc>>
  /\ UNCHANGED <<queue, cmdQ, op, left, open, kernel, lost>>

----------------------------------------------------------------------------
(* HandleReceive, as far as it concerns the output queue.                   *)

\* Mutant of ReadOver: EPOLLOUT is dropped when EPOLLIN came with it.
ReadOverNoSend == HandlerReturns

\* HandleReceive returns TRUE: DoProcessIo goes on with EPOLLOUT.
ReadOver ==
  \/ event.out /\ Goto(Worker, "send") /\ UNCHANGED event
  \/ ~event.out /\ HandlerReturns

\* A segment is read and DoRead runs; it may pass the message back.  When
\* the receive limit is exceeded HandleReceive returns FALSE instead, with
\* the rest unread and EPOLLOUT not looked at.
ReadData ==
  /\ At(Worker, "read")
  /\ rx > 0
  /\ rx' = rx - 1
  /\ \/ UNCHANGED <<pc, event>>
     \/ Echo /\ MayCall /\ Goto(Worker, "lock") /\ UNCHANGED event
     \/ ReceiveLimit /\ HandlerReturns
  /\ UNCHANGED <<queue, cmdQ, op, left, batch, open, crashed, room, full,
                 ready, eof, lost>>

\* read returns 0, on end-of-file or an empty datagram, or an error:
\* CloseSocket, and FALSE.
ReadEof ==
  /\ At(Worker, "read")
  /\ \/ rx = 0 /\ eof # "open" /\ UNCHANGED rx
     \/ Datagram /\ rx > 0 /\ rx' = rx - 1
  /\ op' = [op EXCEPT ![Worker] = "disconnect"]
  /\ Goto(Worker, "trigger")
  /\ UNCHANGED <<queue, cmdQ, loop, open, crashed, room, full, ready, eof,
                 lost>>

ReadAgain ==
  /\ At(Worker, "read")
  /\ ~HasInput
  /\ ReadOver
  /\ UNCHANGED <<queue, cmdQ, op, left, batch, open, crashed, kernel, lost>>

----------------------------------------------------------------------------
(* HandleSend.  It looks at the queue without the mutex, so a producer may  *)
(* be inside queue::push: while the queue is empty what it sees is the      *)
(* state before or after, or a pointer not written yet.                     *)

RacesOnQueue == ~LockFree /\ outQ = <<>>

\* OutPacketEmpty.
SendEmpty ==
  /\ At(Worker, "send")
  /\ outQ = <<>>
  /\ \/ HandlerReturns /\ UNCHANGED crashed
     \/ RacesOnQueue /\ crashed' = TRUE /\ UNCHANGED <<pc, event>>
  /\ UNCHANGED <<queue, cmdQ, op, left, batch, open, kernel, lost>>

\* A packet to write, and no error that would refuse it.
MayWrite ==
  /\ At(Worker, "send")
  /\ outQ # <<>>
  /\ Head(outQ).left > 0
  /\ ~Head(outQ).bad
  /\ eof # "rst"

\* Mutant of Write: a partial write is taken for a whole one.
WriteForgetsRest ==
  /\ MayWrite
  /\ \E k \in Writable(Head(outQ).left) :
       /\ room' = room - k
       /\ outQ' = [outQ EXCEPT ![1].left = 0]
  /\ UNCHANGED <<cmdQ, pc, op, loop, open, crashed, full, ready, rx, eof,
                 popped, lost>>

\* write takes some bytes; Reduce.
Write ==
  /\ MayWrite
  /\ \E k \in Writable(Head(outQ).left) :
       /\ room' = room - k
       /\ outQ' = [outQ EXCEPT ![1].left = @ - k]
  /\ UNCHANGED <<cmdQ, pc, op, loop, open, crashed, full, ready, rx, eof,
                 popped, lost>>

\* EWOULDBLOCK: the packet stays at the head of the queue.
WriteBlocks ==
  /\ MayWrite
  /\ Writable(Head(outQ).left) = {}
  /\ full' = TRUE
  /\ HandlerReturns
  /\ UNCHANGED <<queue, cmdQ, op, left, batch, open, crashed, room, ready, rx,
                 eof, lost>>

\* Another error: the packet stays as well.  Nobody ignores SIGPIPE.
WriteFails ==
  /\ At(Worker, "send")
  /\ outQ # <<>>
  /\ Head(outQ).left > 0
  /\ Head(outQ).bad \/ eof = "rst"
  /\ \/ HandlerReturns /\ UNCHANGED crashed
     \/ eof = "rst" /\ crashed' = TRUE /\ UNCHANGED <<pc, event>>
  /\ UNCHANGED <<queue, cmdQ, op, left, batch, open, kernel, lost>>

\* Size() is 0: the packet is done, and popped under the mutex.
PopOutPacket ==
  /\ At(Worker, "send")
  /\ outQ # <<>>
  /\ Head(outQ).left = 0
  /\ LockFree
  /\ outQ' = Tail(outQ)
  /\ popped' = popped + 1
  /\ UNCHANGED <<cmdQ, pc, op, loop, open, crashed, kernel, lost>>

----------------------------------------------------------------------------
(* ProcessCommand.                                                          *)

StartCommands(e) ==
  /\ At(Worker, "loop")
  /\ e.src = "cmd"
  /\ batch' = batch \ {e}
  /\ left' = CmdBudget
  /\ Goto(Worker, "command")
  /\ UNCHANGED <<queue, cmdQ, op, event, open, crashed, kernel, lost>>

CommandsDone ==
  /\ At(Worker, "command")
  /\ cmdQ = <<>> \/ Exhausted
  /\ left' = 0
  /\ Goto(Worker, "loop")
  /\ UNCHANGED <<queue, cmdQ, op, batch, event, open, crashed, kernel, lost>>

Executing(cmd) ==
  /\ At(Worker, "command")
  /\ cmdQ # <<>>
  /\ ~Exhausted
  /\ Head(cmdQ) = cmd

CommandSend ==
  /\ Executing("send")
  /\ Goto(Worker, IF open THEN "send" ELSE "popcmd")
  /\ UNCHANGED <<queue, cmdQ, op, loop, open, crashed, kernel, lost>>

\* RemoveSocketObject: the packets go with the object.
Remove ==
  /\ Executing("disconnect")
  /\ open' = FALSE
  /\ outQ' = <<>>
  /\ ready' = ready \ {"sock"}
  /\ Goto(Worker, "popcmd")
  /\ UNCHANGED <<cmdQ, op, loop, crashed, room, full, rx, eof, popped, lost>>

PopCommand ==
  /\ At(Worker, "popcmd")
  /\ cmdQ' = Tail(cmdQ)
  /\ left' = left - 1
  /\ Goto(Worker, "command")
  /\ UNCHANGED <<queue, op, batch, event, open, crashed, kernel, lost>>

----------------------------------------------------------------------------
(* Send, on an application thread or in DoRead: PushMsg (PushUdpMsg) under  *)
(* the mutex, then TriggerCmdEvent.                                         *)

AppSend(t) ==
  /\ At(t, "idle")
  /\ MayCall
  /\ Goto(t, "lock")
  /\ UNCHANGED <<queue, cmdQ, op, loop, open, crashed, kernel, lost>>

AppDisconnect(t) ==
  /\ At(t, "idle")
  /\ MayCall
  /\ op' = [op EXCEPT ![t] = "disconnect"]
  /\ Goto(t, "trigger")
  /\ UNCHANGED <<queue, cmdQ, loop, open, crashed, kernel, lost>>

\* Mutant of QueueFull: the limit is not tested.
NeverFull == FALSE

QueueFull == Len(outQ) >= Limit

\* Send or Disconnect returns to its caller.  The worker issues commands
\* only in HandleReceive, which goes on reading after DoRead's Send and
\* returns after CloseSocket.
CallReturns(t) ==
  \/ t # Worker /\ Goto(t, "idle") /\ UNCHANGED event
  \/ t = Worker /\ op[t] = "send" /\ Goto(t, "read") /\ UNCHANGED event
  \/ t = Worker /\ op[t] = "disconnect" /\ HandlerReturns

\* The mutex is taken and the size tested; with the queue full Send returns
\* SOCKET_ERROR.
Lock(t) ==
  /\ At(t, "lock")
  /\ open
  /\ LockFree
  /\ \/ QueueFull /\ CallReturns(t)
     \/ ~QueueFull /\ Goto(t, "push") /\ UNCHANGED event
  /\ UNCHANGED <<queue, cmdQ, op, left, batch, open, crashed, kernel, lost>>

\* The object has been deleted since Send found it.
LockFreed(t) ==
  /\ At(t, "lock")
  /\ ~open
  /\ crashed' \in BOOLEAN
  /\ Goto(t, "trigger")
  /\ UNCHANGED <<queue, cmdQ, op, loop, open, kernel, lost>>

Push(t) ==
  /\ At(t, "push")
  /\ IF open
     THEN /\ \E n \in Sizes : \E p \in Packets(n) : outQ' = Append(outQ, p)
          /\ UNCHANGED crashed
     ELSE /\ crashed' \in BOOLEAN
          /\ UNCHANGED outQ
  /\ Goto(t, "trigger")
  /\ UNCHANGED <<cmdQ, op, loop, open, kernel, popped, lost>>

\* Another producer may be inside the unsynchronised cmd_queue_.push.
RacesOnCommand(t) == \E u \in Thread \ {t} : At(u, "trigger")

Trigger(t) ==
  /\ At(t, "trigger")
  /\ \/ /\ cmdQ' = Append(cmdQ, op[t])
        /\ UNCHANGED <<crashed, lost>>
     \/ /\ RacesOnCommand(t)
        /\ crashed' \in BOOLEAN
        /\ lost' = TRUE
        /\ UNCHANGED cmdQ
  /\ Goto(t, "signal")
  /\ UNCHANGED <<queue, op, loop, open, kernel>>

Signal(t) ==
  /\ At(t, "signal")
  /\ ready' = ready \cup {"cmd"}
  /\ op' = [op EXCEPT ![t] = "send"]
  /\ CallReturns(t)
  /\ UNCHANGED <<queue, cmdQ, left, batch, open, crashed, room, full, rx, eof,
                 lost>>

----------------------------------------------------------------------------
SendStep(t) == Lock(t) \/ LockFreed(t) \/ Push(t) \/ Trigger(t) \/ Signal(t)

WorkerStep ==
  \/ EpollWait
  \/ \E e \in batch : ProcessIo(e) \/ StartCommands(e)
  \/ ReadData \/ ReadEof \/ ReadAgain
  \/ SendEmpty \/ Write \/ WriteBlocks \/ WriteFails
  \/ PopOutPacket
  \/ CommandsDone \/ CommandSend \/ Remove \/ PopCommand
  \/ SendStep(Worker)

AppCall(t) == AppSend(t) \/ AppDisconnect(t)

PeerStep == PeerSend \/ PeerClose \/ Drain

Next ==
  /\ ~crashed
  /\ \/ PeerStep
     \/ WorkerStep
     \/ \E t \in App : AppCall(t) \/ SendStep(t)

Spec == Init /\ [][Next]_vars

\* The operating system keeps running a thread that can run.
FairSpec ==
  /\ Spec
  /\ WF_vars(~crashed /\ WorkerStep)
  /\ \A t \in App : WF_vars(~crashed /\ SendStep(t))

----------------------------------------------------------------------------
(* Properties.                                                              *)

\* Every variable keeps its type.
TypeOK ==
  /\ outQ \in Seq(Packet)
  /\ cmdQ \in Seq({"send", "disconnect"})
  /\ pc \in [Thread -> WorkerAt \cup AppAt]
  /\ pc[Worker] \in WorkerAt
  /\ \A t \in App : pc[t] \in AppAt
  /\ op \in [Thread -> {"send", "disconnect"}]
  /\ left \in 0..CmdBudget
  /\ batch \in SUBSET Event
  /\ event \in Event \cup {None}
  /\ open \in BOOLEAN
  /\ crashed \in BOOLEAN
  /\ room \in 0..Cap
  /\ full \in BOOLEAN
  /\ ready \in SUBSET {"cmd", "sock"}
  /\ rx \in 0..MaxRx
  /\ eof \in {"open", "fin", "rst"}
  /\ popped \in Nat
  /\ lost \in BOOLEAN

\* What the queue holds, seen as a stream of bytes.
Stream == INSTANCE OutputStream WITH
  Sizes   <- Sizes \cup {0, 1},
  pending <- [i \in 1..Len(outQ) |-> outQ[i].size],
  done    <- popped,
  off     <- IF outQ = <<>> THEN 0 ELSE Head(outQ).size - Head(outQ).left

\* PushMsg, HandleSend and PopOutPacket, called by any threads and stopped
\* by full buffers and errors, implement OutputStream: the packets leave in
\* the order they were accepted, each byte counted off a packet went to the
\* kernel, once, and no more than kMaxNumOfPackets are held.
OutputIsStream == Stream!Spec

\* The worker sleeps with packets queued and nothing will wake it to write
\* them: no event, no command being issued, no EPOLLOUT edge to come from a
\* buffer that was found full.
Stranded ==
  /\ open /\ Sleeping /\ outQ # <<>>
  /\ ready = {}
  /\ ~full
  /\ \A t \in App : pc[t] \notin {"trigger", "signal"}

\* No packet is stranded, as long as no command is lost in a racing push:
\* where HandleSend stops, the EPOLLOUT edge or a SEND command resumes it.
NoStrandedPacket == ~lost => ~Stranded

\* A SEND command sends the message, as ProcessCommand says of its event,
\* whatever other threads do.
SendReachesRemote == ~Stranded

\* The peer goes on taking bytes, and stops sending for good.
PeerReads  == []<>(room = Cap)
PeerPauses == <>[][rx' =< rx]_vars

\* A packet Send accepted is written in full, or the connection is removed,
\* as long as its peer reads and no command is lost: SEND commands and
\* EPOLLOUT edges together always resume a queue that stopped half-way.
Delivered ==
  PeerReads /\ PeerPauses =>
    \A n \in 1..MaxPackets :
      popped + Len(outQ) >= n ~> popped >= n \/ ~open \/ crashed \/ lost

\* A message a client sent is passed back, as the test servers' Demo says:
\* a packet the kernel would take is written in the end, even when another
\* one is refused for good.
PassedBack ==
  PeerReads /\ PeerPauses =>
    \A n \in 1..MaxPackets :
      n - popped \in DOMAIN outQ /\ ~outQ[n - popped].bad
        ~> popped >= n \/ ~open \/ crashed \/ lost
=============================================================================
