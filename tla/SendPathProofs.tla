--------------------------- MODULE SendPathProofs ---------------------------
(***************************************************************************)
(* Proofs about SendPath: type correctness, and that the output queue       *)
(* implements OutputStream, for every number of threads, limit, buffer and  *)
(* packet size, for TCP and UDP.                                            *)
(***************************************************************************)
EXTENDS SendPath, TLAPS

----------------------------------------------------------------------------
(* Inductive invariants.                                                    *)

\* A handler called from ProcessCommand has a command to pop and budget left
\* for it; HandleReceive and what it calls run for a socket event.
Positions ==
  /\ pc[Worker] = "popcmd" \/ (pc[Worker] = "send" /\ event = None)
       => left > 0 /\ cmdQ # <<>>
  /\ pc[Worker] \in {"read", "lock", "push", "trigger", "signal"}
       => event # None
  /\ pc[Worker] \in {"loop", "command", "popcmd"} => event = None

\* Only the first packet is partly written; a removed object holds none.
QueueShape ==
  /\ \A i \in 1..Len(outQ) :
       /\ outQ[i].size \in Sizes \cup {0, 1}
       /\ outQ[i].left =< outQ[i].size
       /\ i > 1 => outQ[i].left = outQ[i].size
  /\ ~open => outQ = <<>>

\* At most one thread is inside PushMsg's critical section, and it found
\* room for one more packet.
Holder ==
  /\ \A t, u \in Thread : At(t, "push") /\ At(u, "push") => t = u
  /\ open => \A t \in Thread : At(t, "push") => Len(outQ) < Limit

Inv == TypeOK /\ Positions /\ QueueShape /\ Holder

----------------------------------------------------------------------------
(* Type correctness and Positions, which it needs.                          *)

\* The initial state is typed.
LEMMA TypeInit == Init => TypeOK /\ Positions
<1> SUFFICES ASSUME Init PROVE TypeOK /\ Positions
  OBVIOUS
<1>1. /\ pc \in [Thread -> WorkerAt \cup AppAt]
      /\ pc[Worker] = "loop"
      /\ \A t \in App : pc[t] = "idle"
  BY WorkerAssumption DEF Init, Thread, WorkerAt, AppAt
<1>2. op \in [Thread -> {"send", "disconnect"}]
  BY DEF Init
<1>3. outQ \in Seq(Packet) /\ cmdQ \in Seq({"send", "disconnect"})
  BY DEF Init
<1>4. left \in 0..CmdBudget /\ room \in 0..Cap /\ rx \in 0..MaxRx /\ popped \in Nat
  BY LimitsAssumption DEF Init
<1>5. TypeOK
  BY <1>1, <1>2, <1>3, <1>4 DEF Init, TypeOK, WorkerAt, AppAt
<1>6. Positions
  BY <1>1 DEF Init, Positions
<1> QED
  BY <1>5, <1>6

\* A thread that moves to a place of its own kind keeps pc typed.
LEMMA Moves ==
  ASSUME TypeOK, NEW t \in Thread, NEW place,
         t = Worker => place \in WorkerAt,
         t # Worker => place \in AppAt,
         Goto(t, place)
  PROVE  /\ pc' \in [Thread -> WorkerAt \cup AppAt]
         /\ pc'[Worker] \in WorkerAt
         /\ \A u \in App : pc'[u] \in AppAt
         /\ pc'[t] = place
         /\ \A u \in Thread : u # t => pc'[u] = pc[u]
BY WorkerAssumption DEF TypeOK, Goto, Thread

\* The same for the worker returning from a handler.
LEMMA Returns ==
  ASSUME TypeOK, HandlerReturns
  PROVE  /\ pc' \in [Thread -> WorkerAt \cup AppAt]
         /\ pc'[Worker] \in WorkerAt
         /\ \A u \in App : pc'[u] \in AppAt
         /\ pc'[Worker] = IF event = None THEN "popcmd" ELSE "loop"
         /\ \A u \in Thread : u # Worker => pc'[u] = pc[u]
         /\ event' = None
<1>1. Worker \in Thread
  BY DEF Thread
<1>2. CASE event = None
  BY <1>1, <1>2, Moves DEF HandlerReturns, WorkerAt
<1>3. CASE event # None
  BY <1>1, <1>3, Moves DEF HandlerReturns, WorkerAt
<1> QED
  BY <1>2, <1>3

\* The steps of the peer and of the kernel.
LEMMA TypePeer == ASSUME TypeOK, Positions, PeerStep PROVE TypeOK' /\ Positions'
<1>1. /\ UNCHANGED <<queue, cmdQ, pc, op, loop, open, crashed, lost>>
      /\ full' \in BOOLEAN
      /\ ready' \in SUBSET {"cmd", "sock"}
      /\ eof' \in {"open", "fin", "rst"}
  BY DEF PeerStep, PeerSend, PeerClose, Drain, TypeOK
<1>2. rx' \in 0..MaxRx /\ room' \in 0..Cap
  BY LimitsAssumption DEF PeerStep, PeerSend, PeerClose, Drain, TypeOK
<1> QED
  BY <1>1, <1>2 DEF TypeOK, Positions, queue, loop

\* DoWork and DoProcessIo.
LEMMA TypeLoop ==
  ASSUME TypeOK, Positions,
         EpollWait \/ \E e \in batch : ProcessIo(e) \/ StartCommands(e)
  PROVE  TypeOK' /\ Positions'
<1>0. Worker \in Thread
  BY DEF Thread
<1>1. CASE EpollWait
  <2>1. \A s \in {"cmd", "sock"} : Report(s) \in Event
    BY DEF Report, Event
  <2>2. batch' \in SUBSET Event
    BY <1>1, <2>1 DEF EpollWait, TypeOK
  <2>3. full' \in BOOLEAN /\ ready' \in SUBSET {"cmd", "sock"}
    BY <1>1 DEF EpollWait, TypeOK
  <2> QED
    BY <1>1, <2>2, <2>3 DEF EpollWait, TypeOK, Positions, queue
<1>2. ASSUME NEW e \in batch, ProcessIo(e) PROVE TypeOK' /\ Positions'
  <2>1. e \in Event /\ e # None /\ batch' \in SUBSET Event
    BY <1>2, NoneAssumption DEF ProcessIo, TypeOK
  <2>2. CASE open /\ event' = e /\ Goto(Worker, IF e.in THEN "read" ELSE "send") /\ UNCHANGED crashed
    <3>1. /\ pc' \in [Thread -> WorkerAt \cup AppAt]
          /\ pc'[Worker] \in {"read", "send"}
          /\ \A u \in App : pc'[u] \in AppAt
      <4>1. CASE e.in
        BY <1>0, <2>2, <4>1, Moves DEF WorkerAt
      <4>2. CASE ~e.in
        BY <1>0, <2>2, <4>2, Moves DEF WorkerAt
      <4> QED
        BY <4>1, <4>2
    <3> QED
      BY <1>2, <2>1, <2>2, <3>1 DEF ProcessIo, TypeOK, Positions, WorkerAt, queue, kernel
  <2>3. CASE crashed' \in {FALSE, ~open} /\ UNCHANGED <<event, pc>>
    BY <1>2, <2>1, <2>3 DEF ProcessIo, TypeOK, Positions, queue, kernel
  <2> QED
    BY <1>2, <2>2, <2>3 DEF ProcessIo
<1>3. ASSUME NEW e \in batch, StartCommands(e) PROVE TypeOK' /\ Positions'
  <2>1. Goto(Worker, "command") /\ At(Worker, "loop")
    BY <1>3 DEF StartCommands
  <2>2. /\ pc' \in [Thread -> WorkerAt \cup AppAt]
        /\ pc'[Worker] = "command"
        /\ \A u \in App : pc'[u] \in AppAt
    BY <1>0, <2>1, Moves DEF WorkerAt
  <2>3. left' \in 0..CmdBudget
    BY <1>3, LimitsAssumption DEF StartCommands
  <2> QED
    BY <1>3, <2>1, <2>2, <2>3 DEF StartCommands, At, TypeOK, Positions, WorkerAt, queue, kernel
<1> QED
  BY <1>1, <1>2, <1>3

\* HandleReceive.
LEMMA TypeReceive ==
  ASSUME TypeOK, Positions, ReadData \/ ReadEof \/ ReadAgain
  PROVE  TypeOK' /\ Positions'
<1>0. Worker \in Thread /\ At(Worker, "read") /\ event # None
  BY DEF Thread, ReadData, ReadEof, ReadAgain, Positions, At
<1>1. CASE ReadData
  <2>1. rx' \in 0..MaxRx
    BY <1>1, LimitsAssumption DEF ReadData, TypeOK
  <2>2. CASE UNCHANGED <<pc, event>>
    BY <1>1, <2>1, <2>2 DEF ReadData, TypeOK, Positions, queue
  <2>3. CASE Goto(Worker, "lock") /\ UNCHANGED event
    <3>1. /\ pc' \in [Thread -> WorkerAt \cup AppAt]
          /\ pc'[Worker] = "lock"
          /\ \A u \in App : pc'[u] \in AppAt
      BY <1>0, <2>3, Moves DEF WorkerAt
    <3> QED
      BY <1>0, <1>1, <2>1, <2>3, <3>1 DEF ReadData, TypeOK, Positions, WorkerAt, queue
  <2>4. CASE HandlerReturns
    BY <1>0, <1>1, <2>1, <2>4, Returns DEF ReadData, TypeOK, Positions, queue
  <2> QED
    BY <1>1, <2>2, <2>3, <2>4 DEF ReadData
<1>2. CASE ReadEof
  <2>1. rx' \in 0..MaxRx
    BY <1>2, LimitsAssumption DEF ReadEof, TypeOK
  <2>2. Goto(Worker, "trigger") /\ op' = [op EXCEPT ![Worker] = "disconnect"]
    BY <1>2 DEF ReadEof
  <2>3. /\ pc' \in [Thread -> WorkerAt \cup AppAt]
        /\ pc'[Worker] = "trigger"
        /\ \A u \in App : pc'[u] \in AppAt
    BY <1>0, <2>2, Moves DEF WorkerAt
  <2>4. op' \in [Thread -> {"send", "disconnect"}]
    BY <2>2 DEF TypeOK
  <2> QED
    BY <1>0, <1>2, <2>1, <2>3, <2>4 DEF ReadEof, TypeOK, Positions, WorkerAt, queue, loop
<1>3. CASE ReadAgain
  <2>1. UNCHANGED <<queue, cmdQ, op, left, batch, open, crashed, kernel, lost>>
    BY <1>3 DEF ReadAgain
  <2>2. CASE Goto(Worker, "send") /\ UNCHANGED event
    <3>1. /\ pc' \in [Thread -> WorkerAt \cup AppAt]
          /\ pc'[Worker] = "send"
          /\ \A u \in App : pc'[u] \in AppAt
      BY <1>0, <2>2, Moves DEF WorkerAt
    <3> QED
      BY <1>0, <2>1, <2>2, <3>1 DEF TypeOK, Positions, WorkerAt, queue, kernel
  <2>3. CASE HandlerReturns
    BY <1>0, <2>1, <2>3, Returns DEF TypeOK, Positions, queue, kernel
  <2> QED
    BY <1>3, <2>2, <2>3 DEF ReadAgain, ReadOver
<1> QED
  BY <1>1, <1>2, <1>3

\* What the constructor of MsgPacket builds.
LEMMA PacketBuilt ==
  ASSUME NEW n \in Sizes, NEW p \in Packets(n)
  PROVE  p \in Packet /\ p.size \in Sizes \cup {0, 1} /\ p.left = p.size
<1>1. CASE n = 0
  <2>1. PICK size \in {0, 1}, bad \in BOOLEAN : p = [size |-> size, left |-> size, bad |-> bad]
    BY <1>1 DEF Packets
  <2> QED
    BY <2>1 DEF Packet
<1>2. CASE n # 0
  <2>1. p = [size |-> n, left |-> n, bad |-> (n \in Unsendable)]
    BY <1>2 DEF Packets
  <2>2. (n \in Unsendable) \in BOOLEAN
    OBVIOUS
  <2>3. n \in Nat
    BY SizesAssumption
  <2> QED
    BY <2>1, <2>2, <2>3 DEF Packet
<1> QED
  BY <1>1, <1>2

\* What PopOutPacket, PushMsg and Reduce leave is a queue of packets.
LEMMA QueueWrite ==
  ASSUME outQ \in Seq(Packet), outQ # <<>>,
         NEW k \in Nat, k =< Head(outQ).left,
         outQ' = [outQ EXCEPT ![1].left = @ - k]
  PROVE  /\ outQ' \in Seq(Packet)
         /\ Len(outQ') = Len(outQ)
         /\ outQ'[1] = [outQ[1] EXCEPT !.left = @ - k]
         /\ \A i \in 1..Len(outQ) : i # 1 => outQ'[i] = outQ[i]
<1>1. Len(outQ) \in Nat \ {0} /\ DOMAIN outQ = 1..Len(outQ) /\ 1 \in DOMAIN outQ
  OBVIOUS
<1>2. Head(outQ) = outQ[1] /\ outQ[1] \in Packet
  BY <1>1
<1>3. [outQ[1] EXCEPT !.left = @ - k] \in Packet
  <2>1. outQ[1].left - k \in Nat
    BY <1>2 DEF Packet
  <2> QED
    BY <1>2, <2>1 DEF Packet
<1>4. outQ' = [outQ EXCEPT ![1] = [outQ[1] EXCEPT !.left = @ - k]]
  BY <1>1
<1> DEFINE p == [outQ[1] EXCEPT !.left = @ - k]
<1>5. outQ' = [outQ EXCEPT ![1] = p] /\ p \in Packet
  BY <1>3, <1>4
<1> HIDE DEF p
<1>6. outQ' \in Seq(Packet) /\ Len(outQ') = Len(outQ)
  BY <1>1, <1>5
<1>7. outQ'[1] = p /\ \A i \in 1..Len(outQ) : i # 1 => outQ'[i] = outQ[i]
  BY <1>1, <1>5
<1> QED
  BY <1>6, <1>7 DEF p

\* HandleSend.
LEMMA TypeSend ==
  ASSUME TypeOK, Positions,
         SendEmpty \/ Write \/ WriteBlocks \/ WriteFails \/ PopOutPacket
  PROVE  TypeOK' /\ Positions'
<1>0. Worker \in Thread /\ pc[Worker] = "send" /\ (event = None => left > 0 /\ cmdQ # <<>>)
  BY DEF Thread, SendEmpty, Write, WriteBlocks, WriteFails, PopOutPacket, MayWrite, Positions, At
<1>1. ASSUME HandlerReturns, full' \in BOOLEAN, crashed' \in BOOLEAN,
             UNCHANGED <<queue, cmdQ, op, left, batch, open, room, ready, rx, eof, lost>>
      PROVE  TypeOK' /\ Positions'
  <2>1. /\ pc' \in [Thread -> WorkerAt \cup AppAt]
        /\ pc'[Worker] \in WorkerAt
        /\ \A u \in App : pc'[u] \in AppAt
        /\ pc'[Worker] = IF event = None THEN "popcmd" ELSE "loop"
        /\ event' = None
    BY <1>1, Returns
  <2>2. TypeOK'
    BY <1>1, <2>1 DEF TypeOK, queue
  <2>3. Positions'
    BY <1>0, <1>1, <2>1 DEF Positions
  <2> QED
    BY <2>2, <2>3
<1>2. ASSUME UNCHANGED <<pc, event, queue, cmdQ, op, left, batch, open, kernel, lost>>, crashed' = TRUE
      PROVE  TypeOK' /\ Positions'
  BY <1>2 DEF TypeOK, Positions, queue, kernel
<1>3. CASE SendEmpty
  BY <1>1, <1>2, <1>3 DEF SendEmpty, kernel, TypeOK
<1>4. CASE Write
  <2>1. PICK k \in Writable(Head(outQ).left) :
          room' = room - k /\ outQ' = [outQ EXCEPT ![1].left = @ - k]
    BY <1>4 DEF Write
  <2>2. outQ \in Seq(Packet) /\ outQ # <<>> /\ room \in 0..Cap /\ Cap \in Nat
    BY <1>4, LimitsAssumption DEF Write, MayWrite, TypeOK
  <2>3. Head(outQ) \in Packet
    BY <2>2
  <2>4. k \in Nat /\ k =< Head(outQ).left /\ k =< room
    BY <2>1, <2>3 DEF Writable, Packet
  <2>5. outQ' \in Seq(Packet)
    BY <2>1, <2>2, <2>4, QueueWrite
  <2>6. room' \in 0..Cap
    BY <2>1, <2>2, <2>4
  <2> QED
    BY <1>4, <2>5, <2>6 DEF Write, TypeOK, Positions, loop
<1>5. CASE WriteBlocks
  BY <1>1, <1>5 DEF WriteBlocks, TypeOK
<1>6. CASE WriteFails
  BY <1>1, <1>2, <1>6 DEF WriteFails, kernel, TypeOK
<1>7. CASE PopOutPacket
  <2>1. outQ' \in Seq(Packet) /\ popped' \in Nat
    BY <1>7 DEF PopOutPacket, TypeOK
  <2> QED
    BY <1>7, <2>1 DEF PopOutPacket, TypeOK, Positions, loop, kernel
<1> QED
  BY <1>3, <1>4, <1>5, <1>6, <1>7

\* ProcessCommand.
LEMMA TypeCommand ==
  ASSUME TypeOK, Positions, CommandsDone \/ CommandSend \/ Remove \/ PopCommand
  PROVE  TypeOK' /\ Positions'
<1>0. Worker \in Thread /\ event = None
  BY DEF Thread, CommandsDone, CommandSend, Remove, PopCommand, Executing, Positions, At
<1>1. CASE CommandsDone
  <2>1. /\ pc' \in [Thread -> WorkerAt \cup AppAt]
        /\ pc'[Worker] = "loop"
        /\ \A u \in App : pc'[u] \in AppAt
    BY <1>0, <1>1, Moves DEF CommandsDone, WorkerAt
  <2>2. left' \in 0..CmdBudget
    BY <1>1, LimitsAssumption DEF CommandsDone
  <2> QED
    BY <1>0, <1>1, <2>1, <2>2 DEF CommandsDone, TypeOK, Positions, WorkerAt, queue, kernel
<1>2. CASE CommandSend
  <2>1. left > 0 /\ cmdQ # <<>>
    BY <1>2, LimitsAssumption DEF CommandSend, Executing, Exhausted, TypeOK
  <2>2. /\ pc' \in [Thread -> WorkerAt \cup AppAt]
        /\ pc'[Worker] \in {"send", "popcmd"}
        /\ \A u \in App : pc'[u] \in AppAt
    <3>1. CASE open
      BY <1>0, <1>2, <3>1, Moves DEF CommandSend, WorkerAt
    <3>2. CASE ~open
      BY <1>0, <1>2, <3>2, Moves DEF CommandSend, WorkerAt
    <3> QED
      BY <3>1, <3>2
  <2> QED
    BY <1>0, <1>2, <2>1, <2>2 DEF CommandSend, TypeOK, Positions, WorkerAt, queue, loop, kernel
<1>3. CASE Remove
  <2>1. left > 0 /\ cmdQ # <<>>
    BY <1>3, LimitsAssumption DEF Remove, Executing, Exhausted, TypeOK
  <2>2. /\ pc' \in [Thread -> WorkerAt \cup AppAt]
        /\ pc'[Worker] = "popcmd"
        /\ \A u \in App : pc'[u] \in AppAt
    BY <1>0, <1>3, Moves DEF Remove, WorkerAt
  <2>3. outQ' \in Seq(Packet) /\ ready' \in SUBSET {"cmd", "sock"}
    BY <1>3 DEF Remove, TypeOK
  <2> QED
    BY <1>0, <1>3, <2>1, <2>2, <2>3 DEF Remove, TypeOK, Positions, WorkerAt, loop
<1>4. CASE PopCommand
  <2>1. left > 0 /\ cmdQ # <<>>
    BY <1>4 DEF PopCommand, Positions, At
  <2>2. /\ pc' \in [Thread -> WorkerAt \cup AppAt]
        /\ pc'[Worker] = "command"
        /\ \A u \in App : pc'[u] \in AppAt
    BY <1>0, <1>4, Moves DEF PopCommand, WorkerAt
  <2>3. left' \in 0..CmdBudget
    BY <1>4, <2>1, LimitsAssumption DEF PopCommand, TypeOK
  <2>4. cmdQ' \in Seq({"send", "disconnect"})
    BY <1>4, <2>1 DEF PopCommand, TypeOK
  <2> QED
    BY <1>0, <1>4, <2>2, <2>3, <2>4 DEF PopCommand, TypeOK, Positions, WorkerAt, queue, kernel
<1> QED
  BY <1>1, <1>2, <1>3, <1>4

\* Where a call returns to.
LEMMA ReturnsFromCall ==
  ASSUME TypeOK, Positions, NEW t \in Thread, CallReturns(t),
         pc[t] \in {"lock", "signal"}
  PROVE  /\ pc' \in [Thread -> WorkerAt \cup AppAt]
         /\ pc'[Worker] \in WorkerAt
         /\ \A u \in App : pc'[u] \in AppAt
         /\ event' \in Event \cup {None}
         /\ \/ t # Worker /\ pc'[t] = "idle" /\ event' = event
            \/ t = Worker /\ pc'[t] = "read" /\ event' = event
            \/ t = Worker /\ pc'[t] = "loop" /\ event' = None
         /\ \A u \in Thread : u # t => pc'[u] = pc[u]
<1>0. event \in Event \cup {None} /\ (t = Worker => event # None)
  BY DEF Positions, TypeOK
<1>1. CASE t # Worker /\ Goto(t, "idle") /\ UNCHANGED event
  BY <1>0, <1>1, Moves DEF AppAt
<1>2. CASE t = Worker /\ Goto(t, "read") /\ UNCHANGED event
  BY <1>0, <1>2, Moves DEF WorkerAt
<1>3. CASE t = Worker /\ HandlerReturns
  BY <1>0, <1>3, Returns
<1> QED
  BY <1>1, <1>2, <1>3 DEF CallReturns

\* Send on any thread.
LEMMA TypeCall ==
  ASSUME TypeOK, Positions, NEW t \in Thread, SendStep(t)
  PROVE  TypeOK' /\ Positions'
<1>0. Worker \in Thread
  BY DEF Thread
<1>1. CASE Lock(t)
  <2>1. UNCHANGED <<queue, cmdQ, op, left, batch, open, crashed, kernel, lost>> /\ pc[t] = "lock"
    BY <1>1 DEF Lock, At
  <2>2. CASE CallReturns(t)
    <3>1. TypeOK'
      BY <2>1, <2>2, ReturnsFromCall DEF TypeOK, queue, kernel
    <3>2. Positions'
      BY <1>0, <2>1, <2>2, ReturnsFromCall DEF Positions
    <3> QED
      BY <3>1, <3>2
  <2>3. CASE Goto(t, "push") /\ UNCHANGED event
    <3>1. /\ pc' \in [Thread -> WorkerAt \cup AppAt]
          /\ pc'[Worker] \in WorkerAt
          /\ \A u \in App : pc'[u] \in AppAt
          /\ pc'[t] = "push"
          /\ \A u \in Thread : u # t => pc'[u] = pc[u]
      BY <2>3, Moves DEF WorkerAt, AppAt
    <3>2. TypeOK'
      BY <2>1, <2>3, <3>1 DEF TypeOK, queue, kernel
    <3>3. Positions'
      BY <1>0, <2>1, <2>3, <3>1 DEF Positions
    <3> QED
      BY <3>2, <3>3
  <2> QED
    BY <1>1, <2>2, <2>3 DEF Lock
<1>2. CASE LockFreed(t) \/ Push(t)
  <2>1. /\ pc[t] \in {"lock", "push"} /\ Goto(t, "trigger")
        /\ UNCHANGED <<cmdQ, op, loop, open, kernel, popped, lost>>
    BY <1>2 DEF LockFreed, Push, At, queue
  <2>2. /\ pc' \in [Thread -> WorkerAt \cup AppAt]
        /\ pc'[Worker] \in WorkerAt
        /\ \A u \in App : pc'[u] \in AppAt
        /\ pc'[t] = "trigger"
        /\ \A u \in Thread : u # t => pc'[u] = pc[u]
    BY <2>1, Moves DEF WorkerAt, AppAt
  <2>3. crashed' \in BOOLEAN
    BY <1>2 DEF LockFreed, Push, TypeOK
  <2>4. outQ' \in Seq(Packet)
    BY <1>2, PacketBuilt, SMTT(30) DEF LockFreed, Push, TypeOK, queue
  <2>5. TypeOK'
    BY <2>1, <2>2, <2>3, <2>4 DEF TypeOK, loop, kernel
  <2>6. Positions'
    BY <1>0, <2>1, <2>2 DEF Positions, loop
  <2> QED
    BY <2>5, <2>6
<1>3. CASE Trigger(t)
  <2>1. /\ pc[t] = "trigger" /\ Goto(t, "signal")
        /\ UNCHANGED <<queue, op, loop, open, kernel>>
    BY <1>3 DEF Trigger, At
  <2>2. /\ pc' \in [Thread -> WorkerAt \cup AppAt]
        /\ pc'[Worker] \in WorkerAt
        /\ \A u \in App : pc'[u] \in AppAt
        /\ pc'[t] = "signal"
        /\ \A u \in Thread : u # t => pc'[u] = pc[u]
    BY <2>1, Moves DEF WorkerAt, AppAt
  <2>3. cmdQ' \in Seq({"send", "disconnect"}) /\ (cmdQ # <<>> => cmdQ' # <<>>)
    <3>1. cmdQ \in Seq({"send", "disconnect"}) /\ op[t] \in {"send", "disconnect"}
      BY DEF TypeOK
    <3>2. /\ Append(cmdQ, op[t]) \in Seq({"send", "disconnect"})
          /\ Append(cmdQ, op[t]) # <<>>
      BY <3>1
    <3> QED
      BY <1>3, <3>1, <3>2 DEF Trigger
  <2>4. crashed' \in BOOLEAN /\ lost' \in BOOLEAN
    BY <1>3 DEF Trigger, TypeOK
  <2>5. TypeOK'
    BY <2>1, <2>2, <2>3, <2>4 DEF TypeOK, loop, queue, kernel
  <2>6. Positions'
    BY <1>0, <2>1, <2>2, <2>3 DEF Positions, loop
  <2> QED
    BY <2>5, <2>6
<1>4. CASE Signal(t)
  <2>1. /\ pc[t] = "signal" /\ CallReturns(t)
        /\ UNCHANGED <<queue, cmdQ, left, batch, open, crashed, room, full, rx, eof, lost>>
    BY <1>4 DEF Signal, At
  <2>2. op' \in [Thread -> {"send", "disconnect"}] /\ ready' \in SUBSET {"cmd", "sock"}
    BY <1>4 DEF Signal, TypeOK
  <2>3. TypeOK'
    BY <2>1, <2>2, ReturnsFromCall DEF TypeOK, queue
  <2>4. Positions'
    BY <1>0, <2>1, ReturnsFromCall DEF Positions
  <2> QED
    BY <2>3, <2>4
<1> QED
  BY <1>1, <1>2, <1>3, <1>4 DEF SendStep

\* An application thread begins a call.
LEMMA TypeAppCall ==
  ASSUME TypeOK, Positions, NEW t \in App, AppCall(t)
  PROVE  TypeOK' /\ Positions'
<1>1. /\ t \in Thread /\ Worker \in Thread /\ t # Worker
      /\ UNCHANGED <<queue, cmdQ, loop, open, crashed, kernel, lost>>
  BY WorkerAssumption DEF Thread, AppCall, AppSend, AppDisconnect
<1>2. op' \in [Thread -> {"send", "disconnect"}]
  BY DEF AppCall, AppSend, AppDisconnect, TypeOK
<1>3. /\ pc' \in [Thread -> WorkerAt \cup AppAt]
      /\ pc'[Worker] = pc[Worker]
      /\ \A u \in App : pc'[u] \in AppAt
  <2>1. CASE Goto(t, "lock")
    BY <1>1, <2>1, Moves DEF AppAt
  <2>2. CASE Goto(t, "trigger")
    BY <1>1, <2>2, Moves DEF AppAt
  <2> QED
    BY <2>1, <2>2 DEF AppCall, AppSend, AppDisconnect
<1> QED
  BY <1>1, <1>2, <1>3 DEF TypeOK, Positions, queue, loop, kernel

\* Every step keeps the types and Positions.
LEMMA TypeNext == TypeOK /\ Positions /\ [Next]_vars => TypeOK' /\ Positions'
<1> SUFFICES ASSUME TypeOK, Positions, [Next]_vars PROVE TypeOK' /\ Positions'
  OBVIOUS
<1>1. CASE PeerStep
  BY <1>1, TypePeer
<1>2. CASE WorkerStep
  BY <1>2, TypeLoop, TypeReceive, TypeSend, TypeCommand, TypeCall DEF WorkerStep, Thread
<1>3. ASSUME NEW t \in App, AppCall(t) \/ SendStep(t) PROVE TypeOK' /\ Positions'
  BY <1>3, TypeAppCall, TypeCall DEF Thread
<1>4. CASE UNCHANGED vars
  BY <1>4 DEF vars, TypeOK, Positions
<1> QED
  BY <1>1, <1>2, <1>3, <1>4 DEF Next

\* Every variable keeps its type, whatever threads send on the socket and
\* whatever the worker does with it: the count of ProcessCommand stays in
\* 0..CmdBudget and a packet never has a negative number of bytes left.
THEOREM TypeCorrect == Spec => []TypeOK
<1>1. Init => TypeOK /\ Positions
  BY TypeInit
<1>2. (TypeOK /\ Positions) /\ [Next]_vars => (TypeOK /\ Positions)'
  BY TypeNext
<1> QED
  BY <1>1, <1>2, PTL DEF Spec
----------------------------------------------------------------------------
(* The shape of the queue and its lock.                                     *)

\* The steps that change what OutputStream sees.
LEMMA StepKinds ==
  ASSUME Next
  PROVE  \/ Drain \/ Write \/ PopOutPacket \/ Remove
         \/ \E t \in Thread : Push(t)
         \/ UNCHANGED <<outQ, popped, room, open>>
<1>1. CASE PeerStep
  BY <1>1 DEF PeerStep, PeerSend, PeerClose, queue
<1>2. ASSUME NEW t \in Thread, SendStep(t)
      PROVE  Push(t) \/ UNCHANGED <<outQ, popped, room, open>>
  BY <1>2 DEF SendStep, Lock, LockFreed, Trigger, Signal, queue, kernel
<1>3. ASSUME NEW t \in App, AppCall(t) PROVE UNCHANGED <<outQ, popped, room, open>>
  BY <1>3 DEF AppCall, AppSend, AppDisconnect, queue, kernel
<1>4. CASE EpollWait \/ \E e \in batch : ProcessIo(e) \/ StartCommands(e)
  BY <1>4 DEF EpollWait, ProcessIo, StartCommands, queue, kernel
<1>5. CASE ReadData \/ ReadEof \/ ReadAgain
  BY <1>5 DEF ReadData, ReadEof, ReadAgain, queue, kernel
<1>6. CASE SendEmpty \/ WriteBlocks \/ WriteFails
  BY <1>6 DEF SendEmpty, WriteBlocks, WriteFails, queue, kernel
<1>7. CASE CommandsDone \/ CommandSend \/ PopCommand
  BY <1>7 DEF CommandsDone, CommandSend, PopCommand, queue, kernel
<1> QED
  BY <1>1, <1>2, <1>3, <1>4, <1>5, <1>6, <1>7 DEF Next, WorkerStep, Thread

\* Only PushMsg's lock lets a thread into the critical section.
NoneEnters == \A u \in Thread : pc'[u] = "push" => pc[u] = "push"

Enters(t) ==
  LockFree /\ ~QueueFull /\ Goto(t, "push") /\ UNCHANGED <<outQ, open>>

LEMMA Entering ==
  ASSUME TypeOK, Next
  PROVE  NoneEnters \/ \E t \in Thread : Enters(t)
<1>0. Worker \in Thread /\ pc \in [Thread -> WorkerAt \cup AppAt]
  BY DEF Thread, TypeOK
<1>1. ASSUME NEW t \in Thread, NEW place, Goto(t, place), place # "push" PROVE NoneEnters
  BY <1>0, <1>1 DEF Goto, NoneEnters
<1>2. ASSUME HandlerReturns PROVE NoneEnters
  <2>1. CASE event = None
    BY <1>0, <1>1, <1>2, <2>1 DEF HandlerReturns
  <2>2. CASE event # None
    BY <1>0, <1>1, <1>2, <2>2 DEF HandlerReturns
  <2> QED
    BY <2>1, <2>2
<1>3. ASSUME UNCHANGED pc PROVE NoneEnters
  BY <1>3 DEF NoneEnters
<1>4. ASSUME NEW t \in Thread, CallReturns(t) PROVE NoneEnters
  <2>1. CASE t # Worker /\ Goto(t, "idle")
    BY <1>1, <2>1
  <2>2. CASE t = Worker /\ Goto(t, "read")
    BY <1>1, <2>2
  <2> QED
    BY <1>2, <1>4, <2>1, <2>2 DEF CallReturns
<1>5. CASE PeerStep
  BY <1>3, <1>5 DEF PeerStep, PeerSend, PeerClose, Drain
<1>6. ASSUME NEW t \in Thread, SendStep(t)
      PROVE  NoneEnters \/ Enters(t)
  <2>1. CASE Lock(t)
    BY <1>4, <2>1 DEF Lock, queue, Enters
  <2>2. CASE LockFreed(t) \/ Push(t)
    BY <1>1, <2>2 DEF LockFreed, Push
  <2>3. CASE Trigger(t)
    BY <1>1, <2>3 DEF Trigger
  <2>4. CASE Signal(t)
    BY <1>4, <2>4 DEF Signal
  <2> QED
    BY <1>6, <2>1, <2>2, <2>3, <2>4 DEF SendStep
<1>7. ASSUME NEW t \in App, AppCall(t) PROVE NoneEnters
  BY <1>1, <1>7 DEF AppCall, AppSend, AppDisconnect, Thread
<1>8. CASE EpollWait \/ \E e \in batch : ProcessIo(e) \/ StartCommands(e)
  <2>1. CASE EpollWait
    BY <1>3, <2>1 DEF EpollWait
  <2>2. ASSUME NEW e \in batch, ProcessIo(e) PROVE NoneEnters
    <3>1. CASE UNCHANGED pc
      BY <1>3, <3>1
    <3>2. CASE Goto(Worker, "read") \/ Goto(Worker, "send")
      BY <1>0, <1>1, <3>2
    <3> QED
      BY <2>2, <3>1, <3>2 DEF ProcessIo
  <2>3. ASSUME NEW e \in batch, StartCommands(e) PROVE NoneEnters
    BY <1>0, <1>1, <2>3 DEF StartCommands
  <2> QED
    BY <1>8, <2>1, <2>2, <2>3
<1>9. CASE ReadData \/ ReadEof \/ ReadAgain
  BY <1>0, <1>1, <1>2, <1>3, <1>9 DEF ReadData, ReadEof, ReadAgain, ReadOver
<1>10. CASE SendEmpty \/ Write \/ WriteBlocks \/ WriteFails \/ PopOutPacket
  BY <1>2, <1>3, <1>10 DEF SendEmpty, Write, WriteBlocks, WriteFails, PopOutPacket
<1>11. CASE CommandsDone \/ CommandSend \/ Remove \/ PopCommand
  <2>1. CASE CommandSend
    <3>1. CASE Goto(Worker, "send") \/ Goto(Worker, "popcmd")
      BY <1>0, <1>1, <3>1
    <3> QED
      BY <2>1, <3>1 DEF CommandSend
  <2>2. CASE CommandsDone \/ Remove \/ PopCommand
    BY <1>0, <1>1, <2>2 DEF CommandsDone, Remove, PopCommand
  <2> QED
    BY <1>11, <2>1, <2>2
<1> QED
  BY <1>0, <1>5, <1>6, <1>7, <1>8, <1>9, <1>10, <1>11 DEF Next, WorkerStep, Thread

\* How the five steps that touch the queue change it.
LEMMA QueueStep ==
  ASSUME TypeOK, QueueShape, Next
  PROVE  /\ QueueShape'
         /\ \/ Len(outQ') =< Len(outQ)
            \/ ~open'
            \/ \E t \in Thread : Push(t)
<1>0. outQ \in Seq(Packet)
  BY DEF TypeOK
<1>1. CASE Write
  <2>1. PICK k \in Writable(Head(outQ).left) : outQ' = [outQ EXCEPT ![1].left = @ - k]
    BY <1>1 DEF Write
  <2>2. outQ # <<>> /\ Head(outQ) = outQ[1] /\ outQ[1] \in Packet /\ UNCHANGED open
    BY <1>0, <1>1 DEF Write, MayWrite
  <2>3. k \in Nat /\ k =< Head(outQ).left
    BY <2>1, <2>2 DEF Writable, Packet
  <2>4. /\ Len(outQ') = Len(outQ)
        /\ outQ'[1] = [outQ[1] EXCEPT !.left = @ - k]
        /\ \A i \in 1..Len(outQ) : i # 1 => outQ'[i] = outQ[i]
    BY <1>0, <2>1, <2>2, <2>3, QueueWrite
  <2>5. outQ'[1].size = outQ[1].size /\ outQ'[1].left = outQ[1].left - k
    BY <2>2, <2>4 DEF Packet
  <2>6. outQ'[1].left =< outQ[1].left /\ Len(outQ) > 0
    BY <1>0, <2>2, <2>3, <2>5 DEF Packet
  <2>7. outQ[1].size \in Nat /\ outQ[1].left \in Nat /\ outQ'[1].left \in Int
    BY <2>2, <2>3, <2>5 DEF Packet
  <2>8. outQ[1].size \in Sizes \cup {0, 1} /\ outQ[1].left =< outQ[1].size
    BY <1>0, <2>6 DEF QueueShape
  <2>9. outQ'[1].left =< outQ[1].size
    BY <2>6, <2>7, <2>8
  <2>10. ASSUME NEW i \in 1..Len(outQ')
         PROVE  /\ outQ'[i].size \in Sizes \cup {0, 1}
                /\ outQ'[i].left =< outQ'[i].size
                /\ i > 1 => outQ'[i].left = outQ'[i].size
    <3>1. CASE i = 1
      BY <2>5, <2>8, <2>9, <3>1
    <3>2. CASE i # 1
      BY <2>4, <3>2 DEF QueueShape
    <3> QED
      BY <3>1, <3>2
  <2>11. ~open' => outQ' = <<>>
    BY <2>2 DEF QueueShape
  <2> QED
    BY <1>0, <2>4, <2>10, <2>11 DEF QueueShape
<1>2. CASE PopOutPacket
  <2>1. outQ # <<>> /\ outQ' = Tail(outQ) /\ UNCHANGED open
    BY <1>2 DEF PopOutPacket
  <2>2. Len(outQ') = Len(outQ) - 1 /\ Len(outQ) \in Nat \ {0}
    BY <1>0, <2>1
  <2>3. \A i \in 1..Len(outQ') : outQ'[i] = outQ[i + 1] /\ i + 1 \in 1..Len(outQ) /\ i + 1 > 1
    BY <1>0, <2>1, <2>2
  <2>4. ASSUME NEW i \in 1..Len(outQ')
        PROVE  outQ'[i].size \in Sizes \cup {0, 1} /\ outQ'[i].left = outQ'[i].size
    <3>1. outQ'[i] = outQ[i + 1] /\ i + 1 \in 1..Len(outQ) /\ i + 1 > 1
      BY <2>3
    <3> QED
      BY <3>1 DEF QueueShape
  <2>5. ASSUME NEW i \in 1..Len(outQ') PROVE outQ'[i].left =< outQ'[i].size
    <3>1. Sizes \cup {0, 1} \subseteq Nat
      BY SizesAssumption
    <3>2. outQ'[i].size \in Nat
      BY <2>4, <3>1
    <3> QED
      BY <2>4, <3>2
  <2>6. ~open' => outQ' = <<>>
    BY <2>1 DEF QueueShape
  <2> QED
    BY <2>2, <2>4, <2>5, <2>6 DEF QueueShape
<1>3. CASE Remove
  BY <1>3 DEF Remove, QueueShape
<1>4. ASSUME NEW t \in Thread, Push(t) PROVE QueueShape'
  <2>1. CASE ~open
    BY <1>4, <2>1 DEF Push, QueueShape
  <2>2. CASE open
    <3>1. PICK n \in Sizes : \E p \in Packets(n) : outQ' = Append(outQ, p)
      BY <1>4, <2>2 DEF Push
    <3>2. PICK p \in Packets(n) : outQ' = Append(outQ, p)
      BY <3>1
    <3>3. p \in Packet /\ p.size \in Sizes \cup {0, 1} /\ p.left = p.size /\ p.size \in Nat
      BY PacketBuilt DEF Packet
    <3>4. /\ Len(outQ') = Len(outQ) + 1
          /\ \A i \in 1..Len(outQ) : outQ'[i] = outQ[i]
          /\ outQ'[Len(outQ) + 1] = p
      BY <1>0, <3>2, <3>3
    <3>5. ASSUME NEW i \in 1..Len(outQ')
          PROVE  /\ outQ'[i].size \in Sizes \cup {0, 1}
                 /\ outQ'[i].left =< outQ'[i].size
                 /\ i > 1 => outQ'[i].left = outQ'[i].size
      <4>1. CASE i \in 1..Len(outQ)
        BY <3>4, <4>1 DEF QueueShape
      <4>2. CASE i = Len(outQ) + 1
        BY <3>3, <3>4, <4>2
      <4> QED
        BY <1>0, <3>4, <4>1, <4>2
    <3>6. open'
      BY <1>4, <2>2 DEF Push
    <3> QED
      BY <3>5, <3>6 DEF QueueShape
  <2> QED
    BY <2>1, <2>2
<1>5. CASE UNCHANGED <<outQ, open>>
  BY <1>0, <1>5 DEF QueueShape
<1>6. CASE Drain
  BY <1>5, <1>6 DEF Drain, queue
<1>7. Len(outQ) \in Nat
  BY <1>0
<1>8. CASE PopOutPacket
  <2>1. Len(outQ') = Len(outQ) - 1
    BY <1>0, <1>8 DEF PopOutPacket
  <2> QED
    BY <1>2, <1>7, <1>8, <2>1
<1>9. CASE Remove
  BY <1>3, <1>9 DEF Remove
<1> QED
  BY <1>1, <1>4, <1>5, <1>6, <1>8, <1>9, StepKinds

\* The critical section stays exclusive, and its thread keeps its room.
LEMMA HolderStep ==
  ASSUME TypeOK, Positions, QueueShape, Holder, Next PROVE Holder'
<1>0. /\ pc \in [Thread -> WorkerAt \cup AppAt]
      /\ Len(outQ) \in Nat /\ Limit \in Nat
  BY LimitsAssumption DEF TypeOK
<1>1. CASE NoneEnters
  <2>1. \A t, u \in Thread : At(t, "push")' /\ At(u, "push")' => t = u
    BY <1>1 DEF Holder, At, NoneEnters
  <2>2. CASE Len(outQ') =< Len(outQ) /\ (open' => open)
    BY <1>0, <1>1, <2>1, <2>2, QueueStep DEF Holder, At, NoneEnters
  <2>3. CASE ~open'
    BY <2>1, <2>3 DEF Holder
  <2>4. ASSUME NEW t \in Thread, Push(t) PROVE Holder'
    <3>1. pc'[t] = "trigger" /\ At(t, "push")
      BY <1>0, <2>4 DEF Push, Goto
    <3>2. \A u \in Thread : pc'[u] # "push"
      BY <1>1, <3>1 DEF Holder, At, NoneEnters
    <3> QED
      BY <3>2 DEF Holder, At
  <2>5. open' => open
    <3>1. UNCHANGED open \/ ~open'
      BY StepKinds DEF Drain, Write, PopOutPacket, Remove, Push
    <3> QED
      BY <3>1
  <2> QED
    BY <2>2, <2>3, <2>4, <2>5, QueueStep
<1>2. ASSUME NEW t \in Thread, Enters(t)
      PROVE  Holder'
  <2>1. \A u \in Thread : pc'[u] = "push" => u = t
    BY <1>0, <1>2 DEF Enters, LockFree, At, Goto
  <2>2. Len(outQ') < Limit
    BY <1>0, <1>2 DEF Enters, QueueFull
  <2> QED
    BY <2>1, <2>2 DEF Holder, At
<1> QED
  BY <1>1, <1>2, Entering

\* Inv is inductive.
LEMMA Inductive == Inv /\ [Next]_vars => Inv'
<1> SUFFICES ASSUME Inv, [Next]_vars PROVE Inv'
  OBVIOUS
<1>1. TypeOK' /\ Positions'
  BY TypeNext DEF Inv
<1>2. CASE Next
  BY <1>1, <1>2, QueueStep, HolderStep DEF Inv
<1>3. CASE UNCHANGED vars
  BY <1>1, <1>3 DEF Inv, QueueShape, Holder, At, vars
<1> QED
  BY <1>2, <1>3

\* Inv holds initially.
LEMMA InvInit == Init => Inv
<1> SUFFICES ASSUME Init PROVE Inv
  OBVIOUS
<1>1. \A t \in Thread : pc[t] # "push"
  BY DEF Init
<1>2. outQ = <<>>
  BY DEF Init
<1> QED
  BY <1>1, <1>2, TypeInit DEF Inv, QueueShape, Holder, At
----------------------------------------------------------------------------
(* The refinement of OutputStream.                                          *)

\* What OutputStream sees of a queue of packets: their sizes, and how much
\* of the first one has been written.
SizesOf(q) == [i \in 1..Len(q) |-> q[i].size]
Offset(q)  == IF q = <<>> THEN 0 ELSE Head(q).size - Head(q).left

\* The sizes of a queue of packets are a sequence of numbers, as long.
LEMMA SizesSeq ==
  ASSUME NEW q \in Seq(Packet)
  PROVE  SizesOf(q) \in Seq(Nat) /\ Len(SizesOf(q)) = Len(q)
<1>1. ASSUME NEW i \in 1..Len(q) PROVE q[i].size \in Nat
  <2>1. q[i] \in Packet
    OBVIOUS
  <2> QED
    BY <2>1 DEF Packet
<1>2. SizesOf(q) \in [1..Len(q) -> Nat] /\ Len(q) \in Nat
  BY <1>1 DEF SizesOf
<1> QED
  BY <1>2

\* Two sequences of one length with the same elements are equal.
LEMMA SameSeq ==
  ASSUME NEW s \in Seq(Nat), NEW t \in Seq(Nat), NEW n \in Nat,
         Len(s) = n, Len(t) = n, \A i \in 1..n : s[i] = t[i]
  PROVE  s = t
OBVIOUS

\* Accepting a packet appends its size.
LEMMA SizesOfAppend ==
  ASSUME NEW q \in Seq(Packet), NEW p \in Packet
  PROVE  SizesOf(Append(q, p)) = Append(SizesOf(q), p.size)
<1>1. Append(q, p) \in Seq(Packet) /\ Len(Append(q, p)) = Len(q) + 1 /\ Len(q) \in Nat
  OBVIOUS
<1>2. SizesOf(q) \in Seq(Nat) /\ Len(SizesOf(q)) = Len(q) /\ p.size \in Nat
  BY SizesSeq DEF Packet
<1>3. SizesOf(Append(q, p)) \in Seq(Nat) /\ Len(SizesOf(Append(q, p))) = Len(q) + 1
  BY <1>1, SizesSeq
<1>4. Append(SizesOf(q), p.size) \in Seq(Nat) /\ Len(Append(SizesOf(q), p.size)) = Len(q) + 1
  BY <1>2
<1>5. ASSUME NEW i \in 1..(Len(q) + 1)
      PROVE  SizesOf(Append(q, p))[i] = Append(SizesOf(q), p.size)[i]
  <2>1. SizesOf(Append(q, p))[i] = Append(q, p)[i].size
    BY <1>1 DEF SizesOf
  <2>2. CASE i \in 1..Len(q)
    <3>1. Append(q, p)[i] = q[i] /\ SizesOf(q)[i] = q[i].size
      BY <2>2 DEF SizesOf
    <3>2. Append(SizesOf(q), p.size)[i] = SizesOf(q)[i]
      BY <1>2, <2>2
    <3> QED
      BY <2>1, <3>1, <3>2
  <2>3. CASE i = Len(q) + 1
    <3>1. Append(q, p)[i] = p
      BY <2>3
    <3>2. Append(SizesOf(q), p.size)[i] = p.size
      BY <1>2, <2>3
    <3> QED
      BY <2>1, <3>1, <3>2
  <2>4. i \in 1..Len(q) \/ i = Len(q) + 1
    <3>1. Len(q) \in Nat
      OBVIOUS
    <3> QED
      BY <3>1
  <2> QED
    BY <2>2, <2>3, <2>4
<1>6. Len(q) + 1 \in Nat
  BY <1>1
<1> QED
  BY <1>3, <1>4, <1>5, <1>6, SameSeq

\* Finishing the first packet drops its size.
LEMMA SizesOfTail ==
  ASSUME NEW q \in Seq(Packet), q # <<>>
  PROVE  SizesOf(Tail(q)) = Tail(SizesOf(q)) /\ Head(SizesOf(q)) = Head(q).size
<1>1. Len(q) \in Nat \ {0} /\ Tail(q) \in Seq(Packet) /\ Len(Tail(q)) = Len(q) - 1
  OBVIOUS
<1>2. SizesOf(q) \in Seq(Nat) /\ Len(SizesOf(q)) = Len(q) /\ SizesOf(q) # <<>>
  BY <1>1, SizesSeq
<1>3. SizesOf(Tail(q)) \in Seq(Nat) /\ Len(SizesOf(Tail(q))) = Len(q) - 1
  BY <1>1, SizesSeq
<1>4. Tail(SizesOf(q)) \in Seq(Nat) /\ Len(Tail(SizesOf(q))) = Len(q) - 1
  BY <1>2
<1>5. ASSUME NEW i \in 1..(Len(q) - 1)
      PROVE  SizesOf(Tail(q))[i] = Tail(SizesOf(q))[i]
  <2>1. SizesOf(Tail(q))[i] = Tail(q)[i].size
    BY <1>1 DEF SizesOf
  <2>2. Tail(q)[i] = q[i + 1] /\ i + 1 \in 1..Len(q)
    BY <1>1
  <2>3. Tail(SizesOf(q))[i] = SizesOf(q)[i + 1]
    BY <1>1, <1>2
  <2>4. SizesOf(q)[i + 1] = q[i + 1].size
    BY <2>2 DEF SizesOf
  <2> QED
    BY <2>1, <2>2, <2>3, <2>4
<1>6. Head(SizesOf(q)) = Head(q).size
  <2>1. SizesOf(q)[1] = q[1].size
    BY <1>1 DEF SizesOf
  <2> QED
    BY <1>2, <2>1
<1>7. Len(q) - 1 \in Nat
  BY <1>1
<1>8. SizesOf(Tail(q)) = Tail(SizesOf(q))
  BY <1>3, <1>4, <1>5, <1>7, SameSeq
<1> QED
  BY <1>6, <1>8

\* Initially nothing is pending.
LEMMA RefineInit == Init => Stream!Init
BY DEF Init, Stream!Init

\* A write of k bytes puts them.
LEMMA RefineWrite == ASSUME Inv, Write PROVE Stream!Put
<1>0. outQ \in Seq(Packet)
  BY DEF Inv, TypeOK
<1>1. PICK k \in Writable(Head(outQ).left) :
        room' = room - k /\ outQ' = [outQ EXCEPT ![1].left = @ - k]
  BY DEF Write
<1>2. /\ outQ # <<>> /\ Head(outQ) = outQ[1] /\ outQ[1] \in Packet
      /\ Len(outQ) \in Nat \ {0}
      /\ UNCHANGED <<open, popped>>
  BY <1>0 DEF Write, MayWrite
<1>3. k \in 1..Head(outQ).left /\ k =< room
  BY <1>1, <1>2 DEF Writable, Packet
<1>4. k \in Nat /\ k =< Head(outQ).left
  BY <1>2, <1>3 DEF Packet
<1>5. /\ outQ' \in Seq(Packet) /\ Len(outQ') = Len(outQ)
      /\ outQ'[1] = [outQ[1] EXCEPT !.left = @ - k]
      /\ \A i \in 1..Len(outQ) : i # 1 => outQ'[i] = outQ[i]
  BY <1>0, <1>1, <1>2, <1>4, QueueWrite
<1>6. outQ'[1].size = outQ[1].size /\ outQ'[1].left = outQ[1].left - k
  BY <1>2, <1>5 DEF Packet
<1>7. SizesOf(outQ') = SizesOf(outQ)
  <2>1. ASSUME NEW i \in 1..Len(outQ) PROVE outQ'[i].size = outQ[i].size
    BY <1>5, <1>6
  <2> QED
    BY <1>5, <2>1 DEF SizesOf
<1>8. outQ' # <<>> /\ Head(outQ') = outQ'[1]
  BY <1>2, <1>5
<1>9. outQ[1].size \in Nat /\ outQ[1].left \in Nat
  BY <1>2 DEF Packet
<1>10. Offset(outQ') = Offset(outQ) + k
  BY <1>2, <1>4, <1>6, <1>8, <1>9 DEF Offset
<1>11. Head(SizesOf(outQ)) - Offset(outQ) = Head(outQ).left
  <2>1. Head(SizesOf(outQ)) = Head(outQ).size
    BY <1>0, <1>2, SizesOfTail
  <2> QED
    BY <1>2, <1>9, <2>1 DEF Offset
<1>12. SizesOf(outQ) # <<>>
  BY <1>0, <1>2, SizesSeq
<1>13. open
  BY <1>2 DEF Inv, QueueShape
<1>14. /\ k \in 1..(Head(SizesOf(outQ)) - Offset(outQ))
       /\ k =< room /\ room' = room - k
       /\ Offset(outQ') = Offset(outQ) + k
  BY <1>1, <1>3, <1>10, <1>11
<1> QED
  BY <1>2, <1>7, <1>12, <1>13, <1>14 DEF Stream!Put, SizesOf, Offset

\* Popping a written packet finishes it.
LEMMA RefinePop == ASSUME Inv, PopOutPacket PROVE Stream!Finish
<1>1. /\ outQ \in Seq(Packet) /\ outQ # <<>> /\ Head(outQ).left = 0
      /\ outQ' = Tail(outQ) /\ popped' = popped + 1
      /\ UNCHANGED <<room, open>>
  BY DEF PopOutPacket, Inv, TypeOK, kernel
<1>2. open
  BY <1>1 DEF Inv, QueueShape
<1>3. /\ SizesOf(outQ') = Tail(SizesOf(outQ))
      /\ Head(SizesOf(outQ)) = Head(outQ).size
      /\ SizesOf(outQ) # <<>>
  BY <1>1, SizesOfTail, SizesSeq
<1>4. Head(outQ).size \in Nat
  <2>1. Head(outQ) \in Packet
    BY <1>1
  <2> QED
    BY <2>1 DEF Packet
<1>5. Offset(outQ) = Head(outQ).size
  BY <1>1, <1>4 DEF Offset
<1>6. Offset(outQ') = 0
  <2>1. CASE outQ' = <<>>
    BY <2>1 DEF Offset
  <2>2. CASE outQ' # <<>>
    <3>1. Head(outQ') = outQ[2] /\ 2 \in 1..Len(outQ) /\ outQ[2] \in Packet
      BY <1>1, <2>2
    <3>2. outQ[2].left = outQ[2].size
      BY <3>1 DEF Inv, QueueShape
    <3>3. outQ[2].size \in Nat
      BY <3>1 DEF Packet
    <3> QED
      BY <2>2, <3>1, <3>2, <3>3 DEF Offset
  <2> QED
    BY <2>1, <2>2
<1> QED
  BY <1>1, <1>2, <1>3, <1>5, <1>6 DEF Stream!Finish, SizesOf, Offset

\* A push on a live object accepts the packet; Holder gives the room.
LEMMA RefinePush ==
  ASSUME Inv, NEW t \in Thread, Push(t), open
  PROVE  \E n \in Sizes \cup {0, 1} : Stream!Accept(n)
<1>1. PICK n \in Sizes : \E p \in Packets(n) : outQ' = Append(outQ, p)
  BY DEF Push
<1>2. PICK p \in Packets(n) : outQ' = Append(outQ, p)
  BY <1>1
<1>3. p \in Packet /\ p.size \in Sizes \cup {0, 1} /\ p.left = p.size /\ p.size \in Nat
  BY PacketBuilt DEF Packet
<1>4. outQ \in Seq(Packet) /\ UNCHANGED <<popped, room, open>>
  BY DEF Push, Inv, TypeOK, kernel
<1>5. SizesOf(outQ') = Append(SizesOf(outQ), p.size)
  BY <1>2, <1>3, <1>4, SizesOfAppend
<1>6. Len(SizesOf(outQ)) < Limit
  <2>1. Len(outQ) < Limit
    BY DEF Push, Inv, Holder
  <2> QED
    BY <1>4, <2>1, SizesSeq
<1>7. Offset(outQ') = Offset(outQ)
  <2>1. CASE outQ = <<>>
    <3>1. outQ' # <<>> /\ Head(outQ') = p
      BY <1>2, <1>3, <1>4, <2>1
    <3> QED
      BY <1>3, <2>1, <3>1 DEF Offset
  <2>2. CASE outQ # <<>>
    <3>1. outQ' # <<>> /\ Head(outQ') = Head(outQ)
      BY <1>2, <1>3, <1>4, <2>2
    <3> QED
      BY <2>2, <3>1 DEF Offset
  <2> QED
    BY <2>1, <2>2
<1> QED
  BY <1>3, <1>4, <1>5, <1>6, <1>7 DEF Stream!Accept, SizesOf, Offset

\* Removal closes the stream; a second disconnect changes nothing.
LEMMA RefineRemove == ASSUME Inv, Remove PROVE Stream!Close \/ UNCHANGED Stream!vars
<1>1. outQ' = <<>> /\ open' = FALSE /\ UNCHANGED <<popped, room>> /\ open \in BOOLEAN
  BY DEF Remove, Inv, TypeOK
<1>2. SizesOf(<<>>) = <<>> /\ Offset(<<>>) = 0
  BY DEF SizesOf, Offset
<1>3. CASE open
  BY <1>1, <1>2, <1>3 DEF Stream!Close, SizesOf, Offset
<1>4. CASE ~open
  BY <1>1, <1>4 DEF Inv, QueueShape, Stream!vars
<1> QED
  BY <1>1, <1>3, <1>4

\* Every step maps to a step of OutputStream or a stutter.
LEMMA RefineNext == Inv /\ [Next]_vars => [Stream!Next]_(Stream!vars)
<1> SUFFICES ASSUME Inv, [Next]_vars PROVE [Stream!Next]_(Stream!vars)
  OBVIOUS
<1>1. CASE Drain
  BY <1>1 DEF Drain, queue, Stream!Drain, Stream!Next
<1>2. CASE Write
  BY <1>2, RefineWrite DEF Stream!Next
<1>3. CASE PopOutPacket
  BY <1>3, RefinePop DEF Stream!Next
<1>4. CASE Remove
  BY <1>4, RefineRemove DEF Stream!Next
<1>5. ASSUME NEW t \in Thread, Push(t) PROVE [Stream!Next]_(Stream!vars)
  <2>1. CASE open
    BY <1>5, <2>1, RefinePush DEF Stream!Next
  <2>2. CASE ~open
    BY <1>5, <2>2 DEF Push, kernel, Stream!vars
  <2> QED
    BY <2>1, <2>2
<1>6. CASE UNCHANGED <<outQ, popped, room, open>>
  BY <1>6 DEF Stream!vars
<1>7. CASE UNCHANGED vars
  BY <1>6, <1>7 DEF vars
<1> QED
  BY <1>1, <1>2, <1>3, <1>4, <1>5, <1>6, <1>7, StepKinds

\* The output queue and HandleSend implement OutputStream for every number
\* of threads, queue limit, buffer and packet size, on TCP and UDP, whatever
\* the interleaving of PushMsg, partial writes, errors and removals: packets
\* leave in the order of acceptance and each byte once.
THEOREM StreamImplemented == Spec => OutputIsStream
<1>1. Init => Inv
  BY InvInit
<1>2. Inv /\ [Next]_vars => Inv'
  BY Inductive
<1>3. Init => Stream!Init
  BY RefineInit
<1>4. Inv /\ [Next]_vars => [Stream!Next]_(Stream!vars)
  BY RefineNext
<1> QED
  BY <1>1, <1>2, <1>3, <1>4, PTL DEF Spec, OutputIsStream, Stream!Spec
=============================================================================
