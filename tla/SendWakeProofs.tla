--------------------------- MODULE SendWakeProofs ---------------------------
(***************************************************************************)
(* Proofs about SendPath, second part: no packet is left in the output      *)
(* queue of a live connection with nobody to write it, in every run that    *)
(* stays clear of the three ways the code strands one.                      *)
(***************************************************************************)
EXTENDS SendPathProofs

\* What the model's environment must not do, each found to strand packets by
\* a run: queue more commands than one wakeup executes, ...
Fits == Len(cmdQ) =< CmdBudget

\* ... queue a packet the kernel refuses for good, ...
Sendable == \A i \in DOMAIN outQ : ~outQ[i].bad

\* ... and cut HandleReceive short at its receive limit.
LimitHit == ReadData /\ event' = None

\* ProcessCommand, or HandleSend called from it.
Commanding ==
  pc[Worker] \in {"command", "popcmd"} \/ (pc[Worker] = "send" /\ event = None)

\* The head of the queue has had its turn.
HeadDone == pc[Worker] = "popcmd" \/ (pc[Worker] = "send" /\ event = None)

\* Queued commands are in reach of the loop that runs, or a wakeup comes.
Awake ==
  cmdQ # <<>> =>
    \/ "cmd" \in ready
    \/ \E e \in batch : e.src = "cmd"
    \/ \E t \in Thread : At(t, "signal")
    \/ Commanding /\ Len(cmdQ) =< left

\* A command that has not had its turn.
Pending == IF HeadDone THEN Len(cmdQ) > 1 ELSE cmdQ # <<>>

\* HandleReceive runs for an event that came with EPOLLOUT, and has not
\* issued DISCONNECT.
Reading ==
  event # None /\ event.out /\ (At(Worker, "signal") => op[Worker] = "send")

\* Somebody will look at the packets: the edge to come or reported, HandleSend,
\* HandleReceive, a command issued or queued, or the end of the connection.
LookedAfter ==
  \/ full
  \/ "sock" \in ready
  \/ \E e \in batch : e.src = "sock" /\ e.out
  \/ At(Worker, "send")
  \/ Reading
  \/ \E t \in Thread : At(t, "trigger")
  \/ Pending
  \/ eof = "rst"

Resumed == open /\ outQ # <<>> /\ ~lost => LookedAfter

\* A DISCONNECT that has not had its turn.
Disconnecting == \E i \in DOMAIN cmdQ : cmdQ[i] = "disconnect" /\ (HeadDone => i > 1)

\* The end of the connection will be read, or has been and the object will
\* be removed.
EndSeen ==
  \/ "sock" \in ready
  \/ \E e \in batch : e.src = "sock" /\ e.in
  \/ pc[Worker] \in {"read", "lock", "push", "trigger"}
  \/ At(Worker, "signal") /\ op[Worker] = "send"
  \/ Disconnecting

Ended == open /\ eof # "open" /\ ~lost => EndSeen

\* Only between CloseSocket and its signal does the worker issue DISCONNECT.
Issues == op[Worker] = "disconnect" => pc[Worker] \in {"trigger", "signal"}

Wake == Awake /\ Resumed /\ Ended /\ Issues

----------------------------------------------------------------------------
(* Nobody sleeps on a command.                                              *)

\* A handler that returns moves the worker alone.
LEMMA HandlerMoves ==
  ASSUME TypeOK, HandlerReturns
  PROVE  /\ pc'[Worker] = IF event = None THEN "popcmd" ELSE "loop"
         /\ \A u \in Thread \ {Worker} : pc'[u] = pc[u]
         /\ event' = None
  BY Returns

\* So does a step from one place to another.
LEMMA OneMoves ==
  ASSUME TypeOK, NEW t \in Thread, NEW place, Goto(t, place)
  PROVE  pc'[t] = place /\ \A u \in Thread \ {t} : pc'[u] = pc[u]
  BY DEF TypeOK, Goto

\* A call that returns moves its thread alone, and the worker out of
\* HandleReceive or back into it.
LEMMA CallMoves ==
  ASSUME TypeOK, Positions, NEW t \in Thread, CallReturns(t), pc[t] \in {"lock", "signal"}
  PROVE  /\ pc'[t] \in {"idle", "read", "loop"}
         /\ t = Worker => pc'[t] = IF op[t] = "send" THEN "read" ELSE "loop"
         /\ t = Worker /\ op[t] = "disconnect" => event' = None
         /\ t # Worker \/ op[t] = "send" => event' = event
         /\ \A u \in Thread \ {t} : pc'[u] = pc[u]
<1>0. t = Worker => event # None
  BY DEF Positions
<1>1. CASE t # Worker /\ Goto(t, "idle") /\ UNCHANGED event
  BY <1>1, OneMoves
<1>2. CASE t = Worker /\ op[t] = "send" /\ Goto(t, "read") /\ UNCHANGED event
  BY <1>2, OneMoves
<1>3. CASE t = Worker /\ op[t] = "disconnect" /\ HandlerReturns
  BY <1>0, <1>3, HandlerMoves
<1> QED
  BY <1>1, <1>2, <1>3 DEF CallReturns

\* What a step of the worker in HandleReceive does.
LEMMA ReceiveMoves ==
  ASSUME TypeOK, Positions, ReadData \/ ReadEof \/ ReadAgain, ~LimitHit
  PROVE  /\ pc[Worker] = "read" /\ event # None
         /\ \A u \in Thread \ {Worker} : pc'[u] = pc[u]
         /\ \/ /\ pc'[Worker] \in {"read", "lock"} /\ event' = event
               /\ UNCHANGED <<op, eof>> /\ ReadData
            \/ pc'[Worker] = "trigger" /\ event' = event /\ ReadEof
            \/ pc'[Worker] = "send" /\ event' = event /\ event.out /\ ReadAgain
            \/ pc'[Worker] = "loop" /\ event' = None /\ ~event.out /\ ReadAgain
         /\ UNCHANGED <<queue, cmdQ, left, batch, open, room, full, ready, eof, lost>>
<1>0. pc[Worker] = "read" /\ event # None /\ Worker \in Thread
  BY DEF ReadData, ReadEof, ReadAgain, At, Positions, Thread
<1>1. CASE ReadData
  <2>1. ~HandlerReturns
    BY <1>1 DEF LimitHit, HandlerReturns
  <2>2. CASE UNCHANGED <<pc, event>>
    BY <1>0, <1>1, <2>2 DEF ReadData
  <2>3. CASE Goto(Worker, "lock") /\ UNCHANGED event
    BY <1>0, <1>1, <2>3, OneMoves DEF ReadData
  <2> QED
    BY <1>1, <2>1, <2>2, <2>3 DEF ReadData
<1>2. CASE ReadEof
  BY <1>0, <1>2, OneMoves DEF ReadEof, loop
<1>3. CASE ReadAgain
  <2>1. CASE event.out /\ Goto(Worker, "send") /\ UNCHANGED event
    BY <1>0, <1>3, <2>1, OneMoves DEF ReadAgain, kernel
  <2>2. CASE ~event.out /\ HandlerReturns
    BY <1>0, <1>3, <2>2, HandlerMoves DEF ReadAgain, kernel
  <2> QED
    BY <1>3, <2>1, <2>2 DEF ReadAgain, ReadOver
<1> QED
  BY <1>1, <1>2, <1>3

\* What a step of HandleSend does.
LEMMA SendMoves ==
  ASSUME TypeOK, Positions, SendEmpty \/ Write \/ WriteBlocks \/ WriteFails \/ PopOutPacket
  PROVE  /\ pc[Worker] = "send"
         /\ \A u \in Thread \ {Worker} : pc'[u] = pc[u]
         /\ \/ UNCHANGED <<pc, event>>
            \/ /\ pc'[Worker] = IF event = None THEN "popcmd" ELSE "loop"
               /\ event' = None
               /\ SendEmpty \/ WriteBlocks \/ WriteFails
         /\ UNCHANGED <<cmdQ, op, left, batch, open, ready, eof, lost>>
<1>1. CASE UNCHANGED <<pc, event>>
  BY <1>1
  DEF SendEmpty, Write, WriteBlocks, WriteFails, PopOutPacket, MayWrite, At, loop, kernel, queue
<1>2. CASE HandlerReturns /\ (SendEmpty \/ WriteBlocks \/ WriteFails)
  BY <1>2, HandlerMoves DEF SendEmpty, WriteBlocks, WriteFails, MayWrite, At, kernel, queue
<1> QED
  BY <1>1, <1>2 DEF SendEmpty, Write, WriteBlocks, WriteFails, PopOutPacket, loop

\* What a step of ProcessCommand does.
LEMMA CommandMoves ==
  ASSUME TypeOK, Positions, CommandsDone \/ CommandSend \/ Remove \/ PopCommand
  PROVE  /\ event = None /\ event' = None /\ Commanding
         /\ \A u \in Thread \ {Worker} : pc'[u] = pc[u]
         /\ \/ pc[Worker] = "command" /\ pc'[Worker] = "loop" /\ CommandsDone
            \/ pc[Worker] = "command" /\ pc'[Worker] = "send" /\ open /\ CommandSend
            \/ pc[Worker] = "command" /\ pc'[Worker] = "popcmd" /\ ~open' /\ UNCHANGED cmdQ
            \/ pc[Worker] = "popcmd" /\ pc'[Worker] = "command" /\ PopCommand
<1>0. /\ Worker \in Thread /\ event = None /\ Commanding
      /\ event' = event
  BY DEF Thread, CommandsDone, CommandSend, Remove, PopCommand, Executing, Positions, At,
         Commanding, loop
<1>1. CASE CommandsDone
  BY <1>0, <1>1, OneMoves DEF CommandsDone, At
<1>2. CASE CommandSend
  <2>1. CASE open
    BY <1>0, <1>2, <2>1, OneMoves DEF CommandSend, Executing, At
  <2>2. CASE ~open
    BY <1>0, <1>2, <2>2, OneMoves DEF CommandSend, Executing, At
  <2> QED
    BY <2>1, <2>2
<1>3. CASE Remove
  BY <1>0, <1>3, OneMoves DEF Remove, Executing, At
<1>4. CASE PopCommand
  BY <1>0, <1>4, OneMoves DEF PopCommand, At
<1> QED
  BY <1>1, <1>2, <1>3, <1>4

\* What a step of Send or Disconnect does.
LEMMA CallSteps ==
  ASSUME TypeOK, Positions, NEW t \in Thread, SendStep(t)
  PROVE  /\ pc[t] \in {"lock", "push", "trigger", "signal"}
         /\ \A u \in Thread \ {t} : pc'[u] = pc[u]
         /\ \/ pc[t] = "lock" /\ pc'[t] = "push" /\ Lock(t) /\ event' = event
            \/ Lock(t) /\ CallReturns(t)
            \/ /\ pc[t] \in {"lock", "push"} /\ pc'[t] = "trigger" /\ event' = event
               /\ UNCHANGED <<cmdQ, op, ready, lost>>
            \/ pc[t] = "trigger" /\ pc'[t] = "signal" /\ Trigger(t) /\ event' = event
            \/ pc[t] = "signal" /\ CallReturns(t) /\ Signal(t)
         /\ UNCHANGED <<left, batch, open, room, full, rx, eof>>
<1>1. CASE Lock(t)
  <2>1. pc[t] = "lock" /\ UNCHANGED <<left, batch, open, kernel>>
    BY <1>1 DEF Lock, At
  <2>2. CASE CallReturns(t)
    BY <1>1, <2>1, <2>2, CallMoves DEF kernel
  <2>3. CASE Goto(t, "push") /\ UNCHANGED event
    BY <1>1, <2>1, <2>3, OneMoves DEF kernel
  <2> QED
    BY <1>1, <2>2, <2>3 DEF Lock
<1>2. CASE LockFreed(t)
  BY <1>2, OneMoves DEF LockFreed, At, loop, kernel
<1>3. CASE Push(t)
  BY <1>3, OneMoves DEF Push, At, loop, kernel
<1>4. CASE Trigger(t)
  BY <1>4, OneMoves DEF Trigger, At, loop, kernel
<1>5. CASE Signal(t)
  BY <1>5, CallMoves DEF Signal, At
<1> QED
  BY <1>1, <1>2, <1>3, <1>4, <1>5 DEF SendStep

\* An application thread begins a call.
LEMMA AppMoves ==
  ASSUME TypeOK, NEW t \in App, AppCall(t)
  PROVE  /\ t \in Thread \ {Worker} /\ pc[t] = "idle" /\ pc'[t] \in {"lock", "trigger"}
         /\ \A u \in Thread \ {t} : pc'[u] = pc[u]
         /\ \A u \in Thread \ {t} : op'[u] = op[u]
         /\ UNCHANGED <<queue, cmdQ, loop, open, crashed, kernel, lost>>
<1>1. t \in Thread \ {Worker}
  BY WorkerAssumption DEF Thread
<1>2. CASE AppSend(t)
  BY <1>1, <1>2, OneMoves DEF AppSend, At
<1>3. CASE AppDisconnect(t)
  BY <1>1, <1>3, OneMoves DEF AppDisconnect, At, TypeOK
<1> QED
  BY <1>2, <1>3 DEF AppCall

\* What keeps a queue that does not change awake.
LEMMA AwakeFrame ==
  ASSUME Awake, UNCHANGED cmdQ,
         "cmd" \in ready => "cmd" \in ready' \/ \E e \in batch' : e.src = "cmd",
         \A e \in batch : e.src = "cmd" => e \in batch' \/ (Commanding' /\ Len(cmdQ) =< left'),
         \A t \in Thread : At(t, "signal") => At(t, "signal")' \/ "cmd" \in ready',
         Commanding /\ Len(cmdQ) =< left /\ cmdQ # <<>> => Commanding' /\ left' = left
  PROVE  Awake'
BY DEF Awake

\* As long as one wakeup executes all that is queued, every step keeps the
\* commands awake.
LEMMA AwakeStep ==
  ASSUME TypeOK, Positions, Awake, Fits, Next, ~LimitHit PROVE Awake'
<1>0. Worker \in Thread /\ Worker \notin App
  BY WorkerAssumption DEF Thread
<1>1. CASE PeerStep
  <2>1. /\ UNCHANGED <<cmdQ, pc, batch, event, left>> /\ ready \subseteq ready'
    BY <1>1 DEF PeerStep, PeerSend, PeerClose, Drain, loop
  <2> QED
    BY <2>1, AwakeFrame DEF At, Commanding
<1>2. CASE EpollWait
  <2>1. /\ UNCHANGED <<cmdQ, pc, event, left>> /\ batch = {} /\ pc[Worker] = "loop"
        /\ batch' = {Report(s) : s \in ready}
    BY <1>2 DEF EpollWait, Sleeping, At
  <2>2. Report("cmd").src = "cmd"
    BY DEF Report
  <2> QED
    BY <2>1, <2>2, AwakeFrame DEF At, Commanding
<1>3. ASSUME NEW e \in batch, ProcessIo(e) PROVE Awake'
  <2>1. /\ UNCHANGED <<cmdQ, ready, left>> /\ batch' = batch \ {e} /\ e.src = "sock"
        /\ pc[Worker] = "loop"
    BY <1>3 DEF ProcessIo, At, kernel
  <2>2. \A u \in Thread \ {Worker} : pc'[u] = pc[u]
    BY <1>0, <1>3, OneMoves DEF ProcessIo
  <2> QED
    BY <2>1, <2>2, AwakeFrame DEF At, Commanding
<1>4. ASSUME NEW e \in batch, StartCommands(e) PROVE Awake'
  <2>1. /\ UNCHANGED <<cmdQ, ready>> /\ left' = CmdBudget /\ batch' = batch \ {e}
        /\ pc[Worker] = "loop" /\ pc'[Worker] = "command"
        /\ \A u \in Thread \ {Worker} : pc'[u] = pc[u]
    BY <1>0, <1>4, OneMoves DEF StartCommands, At, kernel
  <2> QED
    BY <2>1, AwakeFrame DEF At, Commanding, Fits
<1>5. CASE ReadData \/ ReadEof \/ ReadAgain
  <2>1. /\ UNCHANGED <<cmdQ, ready, left, batch>> /\ pc[Worker] = "read"
        /\ \A u \in Thread \ {Worker} : pc'[u] = pc[u]
    BY <1>5, ReceiveMoves
  <2> QED
    BY <2>1, AwakeFrame DEF At, Commanding
<1>6. CASE SendEmpty \/ Write \/ WriteBlocks \/ WriteFails \/ PopOutPacket
  <2>1. /\ UNCHANGED <<cmdQ, ready, left, batch>> /\ pc[Worker] = "send"
        /\ \A u \in Thread \ {Worker} : pc'[u] = pc[u]
        /\ \/ UNCHANGED <<pc, event>>
           \/ pc'[Worker] = IF event = None THEN "popcmd" ELSE "loop"
    BY <1>6, SendMoves
  <2> QED
    BY <2>1, AwakeFrame DEF At, Commanding
<1>7. CASE CommandsDone \/ CommandSend \/ Remove \/ PopCommand
  <2>1. /\ event = None /\ event' = None /\ Commanding
        /\ \A u \in Thread \ {Worker} : pc'[u] = pc[u]
        /\ \/ pc[Worker] = "command" /\ pc'[Worker] = "loop" /\ CommandsDone
           \/ pc[Worker] = "command" /\ pc'[Worker] = "send" /\ open /\ CommandSend
           \/ pc[Worker] = "command" /\ pc'[Worker] = "popcmd" /\ ~open' /\ UNCHANGED cmdQ
           \/ pc[Worker] = "popcmd" /\ pc'[Worker] = "command" /\ PopCommand
    BY <1>7, CommandMoves
  <2>2. UNCHANGED batch /\ ("cmd" \in ready => "cmd" \in ready')
    BY <1>7 DEF CommandsDone, CommandSend, Remove, PopCommand, loop, kernel
  <2>3. \A t \in Thread : At(t, "signal") => At(t, "signal")'
    BY <2>1 DEF At
  <2>4. CASE CommandsDone
    <3>1. UNCHANGED cmdQ /\ (cmdQ = <<>> \/ left = 0)
      BY <2>4 DEF CommandsDone, Exhausted
    <3>2. cmdQ # <<>> => ~(Len(cmdQ) =< left)
      BY <3>1 DEF TypeOK
    <3> QED
      BY <2>2, <2>3, <3>1, <3>2, AwakeFrame
  <2>5. CASE CommandSend \/ Remove
    <3>1. UNCHANGED <<cmdQ, left>> /\ pc'[Worker] \in {"send", "popcmd"}
      BY <2>1, <2>5 DEF CommandSend, Remove, CommandsDone, PopCommand, Executing, At, loop
    <3>2. Commanding'
      BY <2>1, <3>1 DEF Commanding
    <3> QED
      BY <2>2, <2>3, <3>1, <3>2, AwakeFrame
  <2>6. CASE PopCommand
    <3>1. cmdQ' = Tail(cmdQ) /\ left' = left - 1 /\ cmdQ # <<>> /\ pc'[Worker] = "command"
      BY <1>0, <2>6, OneMoves DEF PopCommand, Positions, At
    <3>2. Len(cmdQ') = Len(cmdQ) - 1 /\ Len(cmdQ) \in Nat /\ left \in Nat
      BY <3>1, LimitsAssumption DEF TypeOK
    <3>3. Commanding'
      BY <3>1 DEF Commanding
    <3> QED
      BY <2>2, <2>3, <3>1, <3>2, <3>3 DEF Awake
  <2> QED
    BY <1>7, <2>4, <2>5, <2>6
<1>8. ASSUME NEW t \in Thread, SendStep(t) PROVE Awake'
  <2>1. /\ pc[t] \in {"lock", "push", "trigger", "signal"}
        /\ \A u \in Thread \ {t} : pc'[u] = pc[u]
        /\ \/ pc[t] = "lock" /\ pc'[t] = "push" /\ Lock(t) /\ event' = event
           \/ Lock(t) /\ CallReturns(t)
           \/ /\ pc[t] \in {"lock", "push"} /\ pc'[t] = "trigger" /\ event' = event
              /\ UNCHANGED <<cmdQ, op, ready, lost>>
           \/ pc[t] = "trigger" /\ pc'[t] = "signal" /\ Trigger(t) /\ event' = event
           \/ pc[t] = "signal" /\ CallReturns(t) /\ Signal(t)
        /\ UNCHANGED <<left, batch, open, room, full, rx, eof>>
    BY <1>8, CallSteps
  <2>2. CASE pc'[t] = "signal"
    BY <2>2 DEF Awake, At
  <2>3. CASE Signal(t)
    BY <2>3 DEF Awake, Signal
  <2>4. CASE UNCHANGED <<cmdQ, ready>> /\ pc[t] \in {"lock", "push"}
    <3>1. Commanding => t # Worker
      BY <2>4 DEF Commanding
    <3>2. Commanding => pc'[Worker] = pc[Worker]
      BY <1>0, <2>1, <3>1
    <3>3. Commanding /\ pc[Worker] = "send" => event' = None
      BY <2>1, <3>1 DEF Commanding, CallReturns
    <3>4. Commanding => Commanding'
      BY <3>2, <3>3 DEF Commanding
    <3> QED
      BY <2>1, <2>4, <3>4, AwakeFrame DEF At
  <2>5. Lock(t) => UNCHANGED <<cmdQ, ready>> /\ pc[t] = "lock"
    BY DEF Lock, At, kernel
  <2> QED
    BY <2>1, <2>2, <2>3, <2>4, <2>5
<1>9. ASSUME NEW t \in App, AppCall(t) PROVE Awake'
  <2>1. /\ pc[t] = "idle" /\ t # Worker
        /\ \A u \in Thread \ {t} : pc'[u] = pc[u]
        /\ UNCHANGED <<cmdQ, loop, ready>>
    BY <1>9, AppMoves DEF kernel
  <2> QED
    BY <1>0, <2>1, AwakeFrame DEF At, Commanding, loop
<1> QED
  BY <1>1, <1>2, <1>3, <1>4, <1>5, <1>6, <1>7, <1>8, <1>9 DEF Next, WorkerStep, Thread

----------------------------------------------------------------------------
(* Nobody sleeps on packets.                                                *)

\* HandleSend called by ProcessCommand is the only handler whose command has
\* had its turn.
LEMMA HeadStays ==
  ASSUME pc'[Worker] = pc[Worker], event' = event PROVE HeadDone' = HeadDone
  BY DEF HeadDone

\* A command issued waits, behind those that wait already.
LEMMA PendingGrows ==
  ASSUME TypeOK, Positions, NEW t \in Thread, cmdQ' = Append(cmdQ, op[t]), HeadDone' => HeadDone
  PROVE  Pending'
<1>1. cmdQ \in Seq({"send", "disconnect"}) /\ op[t] \in {"send", "disconnect"}
  BY DEF TypeOK
<1>2. Len(cmdQ') = Len(cmdQ) + 1 /\ cmdQ' # <<>> /\ Len(cmdQ) \in Nat
  BY <1>1
<1>3. HeadDone => Len(cmdQ) > 0
  BY <1>1 DEF Positions, HeadDone
<1> QED
  BY <1>2, <1>3 DEF Pending

\* A command that waits behind the head goes on waiting when that is popped.
LEMMA PendingPops ==
  ASSUME TypeOK, Pending, HeadDone, cmdQ' = Tail(cmdQ), ~HeadDone' PROVE Pending'
<1>1. cmdQ \in Seq({"send", "disconnect"}) /\ Len(cmdQ) > 1
  BY DEF TypeOK, Pending
<1>2. Len(Tail(cmdQ)) = Len(cmdQ) - 1 /\ Len(cmdQ) \in Nat
  BY <1>1
<1>3. Len(Tail(cmdQ)) # Len(<<>>)
  BY <1>1, <1>2
<1> QED
  BY <1>3 DEF Pending

\* While no command is lost, no packet is refused for good and no receive is
\* cut short, every step keeps the packets looked after.
LEMMA ResumedStep ==
  ASSUME TypeOK, Positions, Resumed, Issues, Sendable, Next, ~LimitHit PROVE Resumed'
<1> SUFFICES ASSUME open', outQ' # <<>>, ~lost' PROVE LookedAfter'
  BY DEF Resumed
<1>0. Worker \in Thread /\ Worker \notin App
  BY WorkerAssumption DEF Thread
<1>a. ASSUME UNCHANGED <<outQ, open, lost>> PROVE LookedAfter
  BY <1>a DEF Resumed
<1>1. CASE PeerStep
  <2>1. /\ UNCHANGED <<outQ, open, lost, cmdQ, pc, op, batch, event>> /\ ready \subseteq ready'
        /\ full => full' \/ "sock" \in ready'
        /\ eof = "rst" => eof' = "rst"
    BY <1>1 DEF PeerStep, PeerSend, PeerClose, Drain, loop, queue
  <2> QED
    BY <1>a, <2>1 DEF LookedAfter, Reading, Pending, HeadDone, At
<1>2. CASE EpollWait
  <2>1. /\ UNCHANGED <<outQ, open, lost, cmdQ, pc, op, event, eof>> /\ batch = {}
        /\ batch' = {Report(s) : s \in ready}
        /\ full' = (full \/ ("sock" \in ready /\ room = 0))
    BY <1>2 DEF EpollWait, Sleeping, queue
  <2>2. CASE "sock" \in ready
    <3>1. Report("sock").src = "sock" /\ Report("sock").out = (room > 0)
      BY DEF Report
    <3>2. room # 0 => room > 0
      BY LimitsAssumption DEF TypeOK
    <3> QED
      BY <2>1, <2>2, <3>1, <3>2 DEF LookedAfter
  <2>3. CASE "sock" \notin ready
    BY <1>a, <2>1, <2>3 DEF LookedAfter, Reading, Pending, HeadDone, At
  <2> QED
    BY <2>2, <2>3
<1>3. ASSUME NEW e \in batch, ProcessIo(e) PROVE LookedAfter'
  <2>1. /\ UNCHANGED <<outQ, open, lost, cmdQ, ready, op, full, eof>> /\ batch' = batch \ {e}
        /\ pc[Worker] = "loop" /\ event = None /\ LookedAfter
    BY <1>3, <1>a DEF ProcessIo, At, kernel, queue, Positions
  <2>2. CASE event' = e /\ Goto(Worker, IF e.in THEN "read" ELSE "send") /\ (e.in \/ e.out)
    <3>1. /\ pc'[Worker] = IF e.in THEN "read" ELSE "send"
          /\ \A u \in Thread \ {Worker} : pc'[u] = pc[u]
      BY <1>0, <2>2, OneMoves
    <3>2. e # None
      BY NoneAssumption DEF TypeOK
    <3>3. CASE e.out
      BY <2>2, <3>1, <3>2, <3>3 DEF LookedAfter, Reading, At
    <3>4. CASE ~e.out
      BY <2>1, <2>2, <3>1, <3>2, <3>4 DEF LookedAfter, Reading, Pending, HeadDone, At
    <3> QED
      BY <3>3, <3>4
  <2>3. CASE UNCHANGED <<event, pc>> /\ (open => ~e.in /\ ~e.out)
    BY <2>1, <2>3 DEF LookedAfter, Reading, Pending, HeadDone, At
  <2> QED
    BY <1>3, <2>2, <2>3 DEF ProcessIo
<1>4. ASSUME NEW e \in batch, StartCommands(e) PROVE LookedAfter'
  <2>1. /\ UNCHANGED <<outQ, open, lost, cmdQ, ready, op, full, eof, event>>
        /\ batch' = batch \ {e} /\ e.src = "cmd"
        /\ pc[Worker] = "loop" /\ pc'[Worker] = "command"
        /\ \A u \in Thread \ {Worker} : pc'[u] = pc[u]
        /\ LookedAfter
    BY <1>0, <1>4, <1>a, OneMoves DEF StartCommands, At, kernel, queue
  <2> QED
    BY <2>1 DEF LookedAfter, Reading, Pending, HeadDone, At
<1>5. CASE ReadData \/ ReadEof \/ ReadAgain
  <2>1. /\ pc[Worker] = "read" /\ event # None
        /\ \A u \in Thread \ {Worker} : pc'[u] = pc[u]
        /\ \/ /\ pc'[Worker] \in {"read", "lock"} /\ event' = event
              /\ UNCHANGED <<op, eof>> /\ ReadData
           \/ pc'[Worker] = "trigger" /\ event' = event /\ ReadEof
           \/ pc'[Worker] = "send" /\ event' = event /\ event.out /\ ReadAgain
           \/ pc'[Worker] = "loop" /\ event' = None /\ ~event.out /\ ReadAgain
        /\ UNCHANGED <<queue, cmdQ, left, batch, open, room, full, ready, eof, lost>>
    BY <1>5, ReceiveMoves
  <2>2. LookedAfter
    BY <1>a, <2>1 DEF queue
  <2>3. CASE pc'[Worker] \in {"read", "lock"} /\ event' = event
    BY <2>1, <2>2, <2>3 DEF LookedAfter, Reading, Pending, HeadDone, At
  <2>4. CASE pc'[Worker] \in {"trigger", "send"}
    BY <1>0, <2>4 DEF LookedAfter, At
  <2>5. CASE pc'[Worker] = "loop" /\ event' = None /\ ~event.out
    BY <2>1, <2>2, <2>5 DEF LookedAfter, Reading, Pending, HeadDone, At
  <2> QED
    BY <2>1, <2>3, <2>4, <2>5
<1>6. CASE SendEmpty \/ Write \/ WriteBlocks \/ WriteFails \/ PopOutPacket
  <2>1. /\ pc[Worker] = "send"
        /\ \/ UNCHANGED <<pc, event>>
           \/ SendEmpty \/ WriteBlocks \/ WriteFails
    BY <1>6, SendMoves
  <2>2. CASE UNCHANGED pc
    BY <2>1, <2>2 DEF LookedAfter, At
  <2>3. CASE SendEmpty
    BY <2>3 DEF SendEmpty, queue
  <2>4. CASE WriteBlocks
    BY <2>4 DEF WriteBlocks, LookedAfter
  <2>5. CASE WriteFails
    <3>1. ~Head(outQ).bad
      <4>1. outQ \in Seq(Packet) /\ outQ # <<>>
        BY <2>5 DEF WriteFails, TypeOK
      <4> QED
        BY <4>1 DEF Sendable
    <3>2. eof' = "rst"
      BY <2>5, <3>1 DEF WriteFails, kernel
    <3> QED
      BY <3>2 DEF LookedAfter
  <2> QED
    BY <2>1, <2>2, <2>3, <2>4, <2>5
<1>7. CASE CommandsDone \/ CommandSend \/ Remove \/ PopCommand
  <2>1. /\ event = None /\ event' = None /\ Commanding
        /\ \A u \in Thread \ {Worker} : pc'[u] = pc[u]
        /\ \/ pc[Worker] = "command" /\ pc'[Worker] = "loop" /\ CommandsDone
           \/ pc[Worker] = "command" /\ pc'[Worker] = "send" /\ open /\ CommandSend
           \/ pc[Worker] = "command" /\ pc'[Worker] = "popcmd" /\ ~open' /\ UNCHANGED cmdQ
           \/ pc[Worker] = "popcmd" /\ pc'[Worker] = "command" /\ PopCommand
    BY <1>7, CommandMoves
  <2>2. CASE CommandsDone /\ pc[Worker] = "command" /\ pc'[Worker] = "loop"
    <3>1. UNCHANGED <<outQ, open, lost, cmdQ, ready, op, full, eof, batch>>
      BY <2>2 DEF CommandsDone, kernel, queue
    <3> QED
      BY <1>a, <2>1, <2>2, <3>1 DEF LookedAfter, Reading, Pending, HeadDone, At
  <2>3. CASE pc'[Worker] = "send"
    BY <2>3 DEF LookedAfter, At
  <2>4. CASE PopCommand /\ pc[Worker] = "popcmd" /\ pc'[Worker] = "command"
    <3>1. /\ UNCHANGED <<outQ, open, lost, ready, op, full, eof, batch>>
          /\ cmdQ' = Tail(cmdQ)
      BY <2>4 DEF PopCommand, kernel, queue
    <3>2. HeadDone /\ ~HeadDone'
      BY <2>4 DEF HeadDone
    <3>3. Pending => Pending'
      BY <3>1, <3>2, PendingPops
    <3> QED
      BY <1>a, <2>1, <2>4, <3>1, <3>3 DEF LookedAfter, Reading, At
  <2> QED
    BY <2>1, <2>2, <2>3, <2>4
<1>8. ASSUME NEW t \in Thread, SendStep(t) PROVE LookedAfter'
  <2>1. /\ pc[t] \in {"lock", "push", "trigger", "signal"}
        /\ \A u \in Thread \ {t} : pc'[u] = pc[u]
        /\ \/ pc[t] = "lock" /\ pc'[t] = "push" /\ Lock(t) /\ event' = event
           \/ Lock(t) /\ CallReturns(t)
           \/ /\ pc[t] \in {"lock", "push"} /\ pc'[t] = "trigger" /\ event' = event
              /\ UNCHANGED <<cmdQ, op, ready, lost>>
           \/ pc[t] = "trigger" /\ pc'[t] = "signal" /\ Trigger(t) /\ event' = event
           \/ pc[t] = "signal" /\ CallReturns(t) /\ Signal(t)
        /\ UNCHANGED <<left, batch, open, room, full, rx, eof>>
    BY <1>8, CallSteps
  <2>2. CASE pc'[t] = "trigger"
    BY <2>2 DEF LookedAfter, At
  <2>3. CASE pc[t] = "trigger" /\ pc'[t] = "signal" /\ Trigger(t) /\ event' = event
    <3>1. cmdQ' = Append(cmdQ, op[t])
      BY <2>3 DEF Trigger
    <3>2. HeadDone' => HeadDone
      BY <1>0, <2>1, <2>3 DEF HeadDone
    <3>3. Pending'
      BY <3>1, <3>2, PendingGrows
    <3> QED
      BY <3>3 DEF LookedAfter
  <2>4. CASE pc[t] = "lock" /\ pc'[t] = "push" /\ Lock(t) /\ event' = event
    <3>1. UNCHANGED <<outQ, open, lost, cmdQ, ready, op>>
      BY <2>4 DEF Lock, queue, kernel
    <3>2. HeadDone' = HeadDone
      BY <1>0, <2>1, <2>4 DEF HeadDone
    <3>3. LookedAfter
      BY <1>a, <3>1
    <3>4. Reading => Reading'
      BY <1>0, <2>1, <2>4, <3>1 DEF Reading, At
    <3>5. \A u \in Thread : At(u, "trigger") => At(u, "trigger")'
      BY <2>1, <2>4 DEF At
    <3>6. At(Worker, "send") => At(Worker, "send")'
      BY <1>0, <2>1, <2>4 DEF At
    <3> QED
      BY <2>1, <3>1, <3>2, <3>3, <3>4, <3>5, <3>6 DEF LookedAfter, Pending
  <2>5. CASE pc[t] \in {"lock", "signal"} /\ CallReturns(t) /\ (Lock(t) \/ Signal(t))
    <3>1. /\ UNCHANGED <<outQ, open, lost, cmdQ>> /\ ready \subseteq ready'
          /\ op' \in {op, [op EXCEPT ![t] = "send"]}
      BY <2>5 DEF Lock, Signal, queue, kernel
    <3>2. /\ pc'[t] \in {"idle", "read", "loop"}
          /\ t = Worker => pc'[t] = IF op[t] = "send" THEN "read" ELSE "loop"
          /\ t = Worker /\ op[t] = "disconnect" => event' = None
          /\ t # Worker \/ op[t] = "send" => event' = event
          /\ \A u \in Thread \ {t} : pc'[u] = pc[u]
      BY <2>5, CallMoves
    <3>3. HeadDone' = HeadDone
      BY <1>0, <2>5, <3>2 DEF HeadDone
    <3>4. op[t] \in {"send", "disconnect"} /\ op'[Worker] \in {op[Worker], "send"}
      BY <1>0, <3>1 DEF TypeOK
    <3>5. Reading => Reading'
      BY <1>0, <2>5, <3>2, <3>4 DEF Reading, At, Issues
    <3>6. \A u \in Thread : At(u, "trigger") => At(u, "trigger")'
      BY <2>5, <3>2 DEF At
    <3>7. At(Worker, "send") => At(Worker, "send")'
      BY <1>0, <2>5, <3>2 DEF At
    <3> QED
      BY <1>a, <2>1, <3>1, <3>3, <3>5, <3>6, <3>7 DEF LookedAfter, Pending
  <2>6. Lock(t) => pc[t] = "lock"
    BY DEF Lock, At
  <2> QED
    BY <2>1, <2>2, <2>3, <2>4, <2>5, <2>6
<1>9. ASSUME NEW t \in App, AppCall(t) PROVE LookedAfter'
  <2>1. /\ t \in Thread \ {Worker} /\ pc[t] = "idle"
        /\ \A u \in Thread \ {t} : pc'[u] = pc[u]
        /\ \A u \in Thread \ {t} : op'[u] = op[u]
        /\ UNCHANGED <<queue, cmdQ, loop, open, crashed, kernel, lost>>
    BY <1>9, AppMoves
  <2>2. pc'[Worker] = pc[Worker] /\ op'[Worker] = op[Worker]
    BY <1>0, <2>1
  <2>3. LookedAfter /\ UNCHANGED <<full, ready, batch, event, cmdQ, eof>>
    BY <1>a, <2>1 DEF queue, loop, kernel
  <2>4. \A u \in Thread : At(u, "trigger") => At(u, "trigger")'
    BY <2>1 DEF At
  <2> QED
    BY <2>2, <2>3, <2>4 DEF LookedAfter, Reading, Pending, HeadDone, At
<1> QED
  BY <1>1, <1>2, <1>3, <1>4, <1>5, <1>6, <1>7, <1>8, <1>9 DEF Next, WorkerStep, Thread

\* Every step keeps the end of the connection seen.
LEMMA EndedStep ==
  ASSUME TypeOK, Positions, Ended, Issues, Next, ~LimitHit PROVE Ended'
<1> SUFFICES ASSUME open', eof' # "open", ~lost' PROVE EndSeen'
  BY DEF Ended
<1>0. Worker \in Thread /\ Worker \notin App
  BY WorkerAssumption DEF Thread
<1>a. ASSUME UNCHANGED <<eof, open, lost>> PROVE EndSeen
  BY <1>a DEF Ended
<1>1. CASE PeerStep
  <2>1. CASE PeerSend \/ PeerClose
    BY <2>1 DEF PeerSend, PeerClose, EndSeen
  <2>2. CASE Drain
    <3>1. UNCHANGED <<eof, open, lost, cmdQ, pc, op, batch, event>> /\ ready \subseteq ready'
      BY <2>2 DEF Drain, loop, queue
    <3> QED
      BY <1>a, <3>1 DEF EndSeen, Disconnecting, HeadDone, At
  <2> QED
    BY <1>1, <2>1, <2>2 DEF PeerStep
<1>2. CASE EpollWait
  <2>1. /\ UNCHANGED <<open, lost, cmdQ, pc, op, event, eof>> /\ batch = {}
        /\ batch' = {Report(s) : s \in ready}
    BY <1>2 DEF EpollWait, Sleeping
  <2>2. CASE "sock" \in ready
    <3>1. Report("sock").src = "sock" /\ Report("sock").in
      BY <2>1 DEF Report, HasInput
    <3> QED
      BY <2>1, <2>2, <3>1 DEF EndSeen
  <2>3. CASE "sock" \notin ready
    BY <1>a, <2>1, <2>3 DEF EndSeen, Disconnecting, HeadDone, At
  <2> QED
    BY <2>2, <2>3
<1>3. ASSUME NEW e \in batch, ProcessIo(e) PROVE EndSeen'
  <2>1. /\ UNCHANGED <<open, lost, cmdQ, ready, op, eof>> /\ batch' = batch \ {e}
        /\ pc[Worker] = "loop" /\ event = None /\ EndSeen
    BY <1>3, <1>a DEF ProcessIo, At, kernel, Positions
  <2>2. CASE event' = e /\ Goto(Worker, IF e.in THEN "read" ELSE "send")
    <3>1. pc'[Worker] = IF e.in THEN "read" ELSE "send"
      BY <1>0, <2>2, OneMoves
    <3>2. e # None
      BY NoneAssumption DEF TypeOK
    <3>3. CASE e.in
      BY <3>1, <3>3 DEF EndSeen
    <3>4. CASE ~e.in
      BY <2>1, <2>2, <3>1, <3>2, <3>4 DEF EndSeen, Disconnecting, HeadDone, At
    <3> QED
      BY <3>3, <3>4
  <2>3. CASE UNCHANGED <<event, pc>> /\ (open => ~e.in /\ ~e.out)
    BY <2>1, <2>3 DEF EndSeen, Disconnecting, HeadDone, At
  <2> QED
    BY <1>3, <2>2, <2>3 DEF ProcessIo
<1>4. ASSUME NEW e \in batch, StartCommands(e) PROVE EndSeen'
  <2>1. /\ UNCHANGED <<open, lost, cmdQ, ready, op, eof, event>>
        /\ batch' = batch \ {e} /\ e.src = "cmd"
        /\ pc[Worker] = "loop" /\ pc'[Worker] = "command"
        /\ EndSeen
    BY <1>0, <1>4, <1>a, OneMoves DEF StartCommands, At, kernel
  <2> QED
    BY <2>1 DEF EndSeen, Disconnecting, HeadDone, At
<1>5. CASE ReadData \/ ReadEof \/ ReadAgain
  <2>1. /\ \/ pc'[Worker] \in {"read", "lock"}
           \/ pc'[Worker] = "trigger"
           \/ ReadAgain
        /\ UNCHANGED eof
    BY <1>5, ReceiveMoves
  <2>2. ~ReadAgain
    BY <2>1 DEF ReadAgain, HasInput
  <2> QED
    BY <2>1, <2>2 DEF EndSeen
<1>6. CASE SendEmpty \/ Write \/ WriteBlocks \/ WriteFails \/ PopOutPacket
  <2>1. /\ pc[Worker] = "send"
        /\ \/ UNCHANGED <<pc, event>>
           \/ /\ pc'[Worker] = IF event = None THEN "popcmd" ELSE "loop"
              /\ event' = None
        /\ UNCHANGED <<cmdQ, op, left, batch, open, ready, eof, lost>>
    BY <1>6, SendMoves
  <2>2. HeadDone' = HeadDone
    BY <2>1 DEF HeadDone
  <2> QED
    BY <1>a, <2>1, <2>2 DEF EndSeen, Disconnecting, At
<1>7. CASE CommandsDone \/ CommandSend \/ Remove \/ PopCommand
  <2>1. /\ event = None /\ event' = None
        /\ \/ pc[Worker] = "command" /\ pc'[Worker] = "loop" /\ CommandsDone
           \/ pc[Worker] = "command" /\ pc'[Worker] = "send" /\ open /\ CommandSend
           \/ pc[Worker] = "command" /\ pc'[Worker] = "popcmd" /\ ~open' /\ UNCHANGED cmdQ
           \/ pc[Worker] = "popcmd" /\ pc'[Worker] = "command" /\ PopCommand
    BY <1>7, CommandMoves
  <2>2. CASE CommandsDone /\ pc[Worker] = "command" /\ pc'[Worker] = "loop"
    <3>1. UNCHANGED <<open, lost, cmdQ, ready, op, eof, batch>>
      BY <2>2 DEF CommandsDone, kernel
    <3> QED
      BY <1>a, <2>1, <2>2, <3>1 DEF EndSeen, Disconnecting, HeadDone, At
  <2>3. CASE CommandSend /\ pc[Worker] = "command" /\ pc'[Worker] = "send"
    <3>1. UNCHANGED <<open, lost, cmdQ, ready, op, eof, batch>> /\ Head(cmdQ) = "send"
      BY <2>3 DEF CommandSend, Executing, kernel, loop
    <3>2. ~HeadDone
      BY <2>3 DEF HeadDone
    <3>3. ASSUME Disconnecting PROVE Disconnecting'
      <4>1. PICK i \in DOMAIN cmdQ : cmdQ[i] = "disconnect"
        BY <3>3 DEF Disconnecting
      <4>2. cmdQ \in Seq({"send", "disconnect"})
        BY DEF TypeOK
      <4>3. i \in Nat \ {0} /\ i # 1
        BY <3>1, <4>1, <4>2
      <4> QED
        BY <3>1, <4>1, <4>3 DEF Disconnecting
    <3> QED
      BY <1>a, <2>3, <3>1, <3>3 DEF EndSeen, At
  <2>4. CASE PopCommand /\ pc[Worker] = "popcmd" /\ pc'[Worker] = "command"
    <3>1. /\ UNCHANGED <<open, lost, ready, op, eof, batch>>
          /\ cmdQ' = Tail(cmdQ)
      BY <2>4 DEF PopCommand, kernel
    <3>2. HeadDone /\ ~HeadDone'
      BY <2>4 DEF HeadDone
    <3>3. ASSUME Disconnecting PROVE Disconnecting'
      <4>1. PICK i \in DOMAIN cmdQ : cmdQ[i] = "disconnect" /\ i > 1
        BY <3>2, <3>3 DEF Disconnecting
      <4>2. cmdQ \in Seq({"send", "disconnect"})
        BY DEF TypeOK
      <4>3. i - 1 \in DOMAIN Tail(cmdQ) /\ Tail(cmdQ)[i - 1] = cmdQ[i]
        BY <4>1, <4>2
      <4> QED
        BY <3>1, <3>2, <4>1, <4>3 DEF Disconnecting
    <3> QED
      BY <1>a, <2>4, <3>1, <3>3 DEF EndSeen, At
  <2> QED
    BY <2>1, <2>2, <2>3, <2>4
<1>8. ASSUME NEW t \in Thread, SendStep(t) PROVE EndSeen'
  <2>1. /\ pc[t] \in {"lock", "push", "trigger", "signal"}
        /\ \A u \in Thread \ {t} : pc'[u] = pc[u]
        /\ \/ pc[t] = "lock" /\ pc'[t] = "push" /\ Lock(t) /\ event' = event
           \/ Lock(t) /\ CallReturns(t)
           \/ /\ pc[t] \in {"lock", "push"} /\ pc'[t] = "trigger" /\ event' = event
              /\ UNCHANGED <<cmdQ, op, ready, lost>>
           \/ pc[t] = "trigger" /\ pc'[t] = "signal" /\ Trigger(t) /\ event' = event
           \/ pc[t] = "signal" /\ CallReturns(t) /\ Signal(t)
        /\ UNCHANGED <<left, batch, open, room, full, rx, eof>>
    BY <1>8, CallSteps
  <2>2. CASE pc[t] \in {"lock", "push"} /\ pc'[t] \in {"push", "trigger"} /\ event' = event
    <3>1. UNCHANGED <<open, lost, cmdQ, ready, op, eof, batch>>
      BY <2>1, <2>2 DEF Lock, kernel
    <3>2. CASE t = Worker
      BY <2>2, <3>2 DEF EndSeen
    <3>3. CASE t # Worker
      BY <1>0, <1>a, <2>1, <2>2, <3>1, <3>3 DEF EndSeen, Disconnecting, HeadDone, At
    <3> QED
      BY <3>2, <3>3
  <2>3. CASE pc[t] = "trigger" /\ pc'[t] = "signal" /\ Trigger(t) /\ event' = event
    <3>1. /\ cmdQ' = Append(cmdQ, op[t]) /\ UNCHANGED <<open, lost, ready, op, eof, batch>>
      BY <2>1, <2>3 DEF Trigger, kernel
    <3>2. /\ cmdQ \in Seq({"send", "disconnect"}) /\ op[t] \in {"send", "disconnect"}
          /\ Len(cmdQ) \in Nat
      BY DEF TypeOK
    <3>3. CASE t = Worker
      <4>1. CASE op[t] = "send"
        BY <2>3, <3>1, <3>3, <4>1 DEF EndSeen, At
      <4>2. CASE op[t] = "disconnect"
        <5>1. ~HeadDone'
          BY <2>3, <3>3 DEF HeadDone
        <5>2. Len(cmdQ) + 1 \in DOMAIN cmdQ' /\ cmdQ'[Len(cmdQ) + 1] = "disconnect"
          BY <3>1, <3>2, <4>2
        <5> QED
          BY <5>1, <5>2 DEF EndSeen, Disconnecting
      <4> QED
        BY <3>2, <4>1, <4>2
    <3>4. CASE t # Worker
      <4>1. pc'[Worker] = pc[Worker] /\ HeadDone' = HeadDone
        BY <1>0, <2>1, <2>3, <3>4 DEF HeadDone
      <4>2. \A i \in DOMAIN cmdQ : i \in DOMAIN cmdQ' /\ cmdQ'[i] = cmdQ[i]
        BY <3>1, <3>2
      <4>3. Disconnecting => Disconnecting'
        BY <4>1, <4>2 DEF Disconnecting
      <4> QED
        BY <1>a, <3>1, <4>1, <4>3 DEF EndSeen, At
    <3> QED
      BY <3>3, <3>4
  <2>5. CASE pc[t] \in {"lock", "signal"} /\ CallReturns(t) /\ (Lock(t) \/ Signal(t))
    <3>1. /\ UNCHANGED <<open, lost, cmdQ, eof, batch>> /\ ready \subseteq ready'
          /\ op' \in {op, [op EXCEPT ![t] = "send"]}
      BY <2>5 DEF Lock, Signal, queue, kernel
    <3>2. /\ pc'[t] \in {"idle", "read", "loop"}
          /\ t = Worker => pc'[t] = IF op[t] = "send" THEN "read" ELSE "loop"
          /\ t = Worker /\ op[t] = "disconnect" => event' = None
          /\ t # Worker \/ op[t] = "send" => event' = event
          /\ \A u \in Thread \ {t} : pc'[u] = pc[u]
      BY <2>5, CallMoves
    <3>3. HeadDone' = HeadDone
      BY <1>0, <2>5, <3>2 DEF HeadDone
    <3>4. op[t] \in {"send", "disconnect"} /\ op'[Worker] \in {op[Worker], "send"}
      BY <1>0, <3>1 DEF TypeOK
    <3>5. EndSeen /\ (Disconnecting => Disconnecting')
      BY <1>a, <3>1, <3>3 DEF Disconnecting
    <3>6. CASE t = Worker /\ op[t] = "send"
      BY <3>2, <3>6 DEF EndSeen
    <3>7. CASE t = Worker /\ op[t] = "disconnect"
      BY <2>5, <3>1, <3>5, <3>7 DEF EndSeen, At, Issues
    <3>8. CASE t # Worker
      BY <1>0, <3>1, <3>2, <3>4, <3>5, <3>8 DEF EndSeen, At
    <3> QED
      BY <3>4, <3>6, <3>7, <3>8
  <2>6. Lock(t) => pc[t] = "lock"
    BY DEF Lock, At
  <2> QED
    BY <2>1, <2>2, <2>3, <2>5, <2>6
<1>9. ASSUME NEW t \in App, AppCall(t) PROVE EndSeen'
  <2>1. /\ t \in Thread \ {Worker} /\ pc[t] = "idle"
        /\ \A u \in Thread \ {t} : pc'[u] = pc[u]
        /\ \A u \in Thread \ {t} : op'[u] = op[u]
        /\ UNCHANGED <<queue, cmdQ, loop, open, crashed, kernel, lost>>
    BY <1>9, AppMoves
  <2>2. pc'[Worker] = pc[Worker] /\ op'[Worker] = op[Worker]
    BY <1>0, <2>1
  <2>3. EndSeen /\ UNCHANGED <<ready, batch, event, cmdQ>>
    BY <1>a, <2>1 DEF loop, kernel
  <2> QED
    BY <2>2, <2>3 DEF EndSeen, Disconnecting, HeadDone, At
<1> QED
  BY <1>1, <1>2, <1>3, <1>4, <1>5, <1>6, <1>7, <1>8, <1>9 DEF Next, WorkerStep, Thread

\* The worker issues DISCONNECT only in CloseSocket.
LEMMA IssuesStep == ASSUME TypeOK, Positions, Issues, Next, ~LimitHit PROVE Issues'
<1>0. Worker \in Thread /\ Worker \notin App
  BY WorkerAssumption DEF Thread
<1>1. CASE PeerStep \/ EpollWait \/ \E e \in batch : ProcessIo(e) \/ StartCommands(e)
  <2>1. UNCHANGED op /\ (pc' = pc \/ pc[Worker] = "loop")
    BY <1>1 DEF PeerStep, PeerSend, PeerClose, Drain, EpollWait, ProcessIo, StartCommands, At
  <2> QED
    BY <2>1 DEF Issues
<1>2. CASE ReadData \/ ReadEof \/ ReadAgain
  <2>1. pc[Worker] = "read" /\ (pc'[Worker] = "trigger" \/ UNCHANGED op)
    BY <1>2, ReceiveMoves DEF ReadAgain
  <2> QED
    BY <2>1 DEF Issues
<1>3. CASE SendEmpty \/ Write \/ WriteBlocks \/ WriteFails \/ PopOutPacket
  BY <1>3, SendMoves DEF Issues
<1>4. CASE CommandsDone \/ CommandSend \/ Remove \/ PopCommand
  <2>1. UNCHANGED op /\ Commanding
    BY <1>4, CommandMoves DEF CommandsDone, CommandSend, Remove, PopCommand
  <2> QED
    BY <2>1 DEF Issues, Commanding
<1>5. ASSUME NEW t \in Thread, SendStep(t) PROVE Issues'
  <2>1. CASE t # Worker
    <3>1. pc'[Worker] = pc[Worker]
      BY <1>0, <1>5, <2>1, CallSteps
    <3>2. op'[Worker] = op[Worker]
      BY <1>0, <1>5, <2>1 DEF SendStep, Lock, LockFreed, Push, Trigger, Signal, TypeOK
    <3> QED
      BY <3>1, <3>2 DEF Issues
  <2>2. CASE t = Worker
    <3>1. CASE Signal(t)
      <4>1. op'[Worker] = "send"
        BY <1>0, <2>2, <3>1 DEF Signal, TypeOK
      <4> QED
        BY <4>1 DEF Issues
    <3>2. CASE Trigger(t)
      <4>1. pc'[t] = "signal"
        BY <3>2, OneMoves DEF Trigger
      <4> QED
        BY <2>2, <4>1 DEF Issues
    <3>3. CASE Lock(t) \/ LockFreed(t) \/ Push(t)
      BY <2>2, <3>3 DEF Lock, LockFreed, Push, Issues, At
    <3> QED
      BY <1>5, <3>1, <3>2, <3>3 DEF SendStep
  <2> QED
    BY <2>1, <2>2
<1>6. ASSUME NEW t \in App, AppCall(t) PROVE Issues'
  BY <1>0, <1>6, AppMoves DEF Issues
<1> QED
  BY <1>1, <1>2, <1>3, <1>4, <1>5, <1>6 DEF Next, WorkerStep, Thread

----------------------------------------------------------------------------
(* The theorem.                                                             *)

\* The invariant holds initially ...
LEMMA WakeInit == Init => TypeOK /\ Positions /\ Wake
<1> SUFFICES ASSUME Init PROVE Wake
  BY TypeInit
<1>1. Awake /\ Resumed
  BY DEF Init, Awake, Resumed
<1>2. Ended /\ Issues
  BY DEF Init, Ended, Issues, Thread, EndSeen
<1> QED
  BY <1>1, <1>2 DEF Wake

\* ... and is kept by every step of a run that meets the premises.
LEMMA WakeStep ==
  TypeOK /\ Positions /\ Wake /\ Fits /\ Sendable /\ [Next]_vars /\ [~LimitHit]_vars
    => (TypeOK /\ Positions /\ Wake)'
<1> SUFFICES ASSUME TypeOK, Positions, Wake, Fits, Sendable, [Next]_vars, [~LimitHit]_vars
             PROVE  TypeOK' /\ Positions' /\ Wake'
  OBVIOUS
<1>1. TypeOK' /\ Positions'
  BY TypeNext
<1>2. CASE Next /\ ~LimitHit
  BY <1>1, <1>2, AwakeStep, ResumedStep, EndedStep, IssuesStep DEF Wake
<1>3. CASE UNCHANGED vars
  BY <1>1, <1>3 DEF vars, Wake, Awake, Resumed, Ended, Issues, LookedAfter, EndSeen, Reading, Pending,
              Disconnecting, HeadDone, Commanding, At
<1>4. LimitHit => ~UNCHANGED vars
  <2>1. LimitHit => event # None /\ event' = None
    BY DEF LimitHit, ReadData, At, Positions
  <2> QED
    BY <2>1 DEF vars
<1> QED
  BY <1>1, <1>2, <1>3, <1>4

\* Where the invariant holds no packet is stranded: a command would have
\* woken the worker, and so would the end of the connection.
LEMMA WakeEnough == TypeOK /\ Positions /\ Wake => NoStrandedPacket
<1> SUFFICES ASSUME TypeOK, Positions, Wake, ~lost, Stranded PROVE FALSE
  BY DEF NoStrandedPacket
<1>1. /\ open /\ outQ # <<>> /\ ready = {} /\ ~full /\ batch = {}
      /\ pc[Worker] = "loop" /\ event = None
      /\ \A t \in App : pc[t] \notin {"trigger", "signal"}
  BY DEF Stranded, Sleeping, At, Positions
<1>2. \A t \in Thread : ~At(t, "trigger") /\ ~At(t, "signal")
  BY <1>1 DEF Thread, At
<1>3. cmdQ = <<>>
  BY <1>1, <1>2 DEF Wake, Awake, Commanding
<1>4. ~Pending /\ ~Disconnecting
  BY <1>3 DEF Pending, HeadDone, Disconnecting
<1>5. eof = "rst"
  BY <1>1, <1>2, <1>4 DEF Wake, Resumed, LookedAfter, Reading, At
<1> QED
  BY <1>1, <1>2, <1>4, <1>5 DEF Wake, Ended, EndSeen, At

\* No packet is stranded in the output queue of a live connection, for every
\* number of threads, limit and buffer, on TCP and UDP: the edge HandleSend
\* left behind, a command or the end of the connection makes the worker look
\* at it.  The premises are what the code does not see to; without Fits,
\* Sendable or the last one a packet is stranded (runs sm_budget, sp_refused
\* and sp_overflow).
THEOREM NoneStranded ==
  Spec /\ [](Fits /\ Sendable) /\ [][~LimitHit]_vars => []NoStrandedPacket
<1> DEFINE I == TypeOK /\ Positions /\ Wake
<1>1. Init => I
  BY WakeInit
<1>2. I /\ (Fits /\ Sendable) /\ [Next]_vars /\ [~LimitHit]_vars => I'
  BY WakeStep
<1>3. I => NoStrandedPacket
  BY WakeEnough
<1> HIDE DEF I
<1> QED
  BY <1>1, <1>2, <1>3, PTL DEF Spec
=============================================================================
