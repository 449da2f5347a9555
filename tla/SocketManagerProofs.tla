------------------------ MODULE SocketManagerProofs ------------------------
(***************************************************************************)
(* Proofs about SocketManager, for every number of descriptors, objects,    *)
(* connections and threads.  The inductive invariant is Inv: the types, the *)
(* protocol of each thread's local variables, the phases of                 *)
(* RemoveSocketObject, and the agreement of the tables.                     *)
(***************************************************************************)
EXTENDS SocketManager, TLAPS

\* A thread that is inside a call holds its command.
CallHeld ==
  \A t \in Thread :
    pc[t] \in {"at", "check", "store", "push", "close", "free", "erase"}
      => call[t] \in Command

\* A thread that is about to use an object has its address.
PtrHeld ==
  /\ \A t \in App : pc[t] \in {"check", "store"} => ptr[t] \in Addr
  /\ pc[Worker] \in {"receive", "write", "read", "close", "free", "erase"}
       => ptr[Worker] \in Addr

\* The object a read loop runs on is valid until the loop ends, calls made
\* by DoRead included.
ReadsValid ==
  \/ At(Worker, "read")
  \/ pc[Worker] \in {"push", "signal"} /\ back = "read"
  => IsValid(ptr[Worker])

\* A command being executed is still at the head of the queue.
HeadHeld == Removing => cmdQ # <<>> /\ left # 0

\* Only a registered descriptor is on the ready list.
ReadyWatched == \A f \in Fd : f \in ready => interest[f] # Nil

Shape == TypeOK /\ CallHeld /\ PtrHeld /\ ReadsValid /\ HeadHeld /\ ReadyWatched

\* What the tables say of the descriptor being removed, phase by phase.
RemovalPhase ==
  /\ Removing => sockMap[call[Worker].fd] = ptr[Worker]
  /\ pc[Worker] \in {"close", "free"} =>
       obj[ptr[Worker]] = [fd |-> call[Worker].fd, valid |-> FALSE]
  /\ At(Worker, "close") =>
       /\ interest[call[Worker].fd] = ptr[Worker]
       /\ sock[call[Worker].fd] # Nil
  /\ pc[Worker] \in {"free", "erase"} =>
       /\ interest[call[Worker].fd] = Nil
       /\ sock[call[Worker].fd] = Nil
  /\ At(Worker, "erase") => Freed(ptr[Worker])

\* A connection is open on one descriptor, from accept on; it is the
\* listener's while its entry is not being removed.
Ownership ==
  /\ \A f, g \in Fd : sock[f] = sock[g] /\ sock[f] # Nil => f = g
  /\ \A f \in Fd : sock[f] # Nil => life[sock[f]] \in {"connected", "gone", "leaked"}
  /\ \A f \in Fd : sockMap[f] # Nil /\ ~RemovingFd(f) => life[sock[f]] = "connected"

Tables == TableConsistent /\ RemovalPhase /\ Ownership

Inv == Shape /\ Tables

\* A worker inside ProcessCommand still has the budget for the whole queue, or
\* will be woken again.
BudgetSuffices ==
  pc[Worker] \in {"command", "close", "free", "erase"} => Len(cmdQ) =< left \/ Woken

\* The worker waits only when it has handled every reported event.
BatchHandled == At(Worker, "wait") => batch = {}

Wake == NoLostWakeup /\ BudgetSuffices /\ BatchHandled

\* A step in which no application calls Disconnect.
NoAppDisconnect == ~\E t \in App, f \in Fd : AppDisconnect(t, f)

\* The worker is in ProcessCommand.
Processing == pc[Worker] \in {"command", "close", "free", "erase"}

\* What a command names: the connection open on its descriptor.
Current(cmd) == cmd.conn # Nil /\ cmd.conn = sock[cmd.fd]

\* Applications issue SEND, and the worker DISCONNECT for what is open.
IssuedCurrent ==
  /\ \A t \in App : call[t] # Nil => call[t].op = "send"
  /\ At(Worker, "push") /\ call[Worker].op = "disconnect" => Current(call[Worker])

\* So is each queued DISCONNECT, but where ProcessCommand has closed the
\* descriptor since.
QueuedCurrent ==
  \A i \in DOMAIN cmdQ : cmdQ[i].op = "disconnect" =>
    \/ Current(cmdQ[i])
    \/ Processing /\ sock[cmdQ[i].fd] = Nil /\ cmdQ[i].conn # Nil

\* ProcessCommand executes every DISCONNECT in the queue before it returns.
InBudget ==
  Processing => \A i \in DOMAIN cmdQ : cmdQ[i].op = "disconnect" => i =< left

Own == IssuedCurrent /\ QueuedCurrent /\ InBudget /\ RemovalMatches
----------------------------------------------------------------------------
(* Type correctness.                                                        *)

LEMMA ShapeInit == Init => Shape
<1> SUFFICES ASSUME Init PROVE Shape
  OBVIOUS
<1> USE NamesAssumption, NumbersAssumption
<1>1. /\ pc[Worker] = "wait"
      /\ \A t \in App : pc[t] = "idle"
  BY DEF Init, Thread
<1>2. pc \in [Thread -> WorkerAt \cup AppAt]
  BY DEF Init, WorkerAt, AppAt
<1>3. /\ cmdQ \in Seq(Command) /\ left \in 0..CmdBudget
      /\ rx \in [Conn -> 0..MaxRx]
  BY DEF Init
<1>4. TypeOK
  <2>1. /\ sockMap \in [Fd -> Addr \cup {Nil}] /\ obj \in [Addr -> SocketObject \cup {Nil}]
        /\ ptr \in [Thread -> Addr \cup {Nil}] /\ call \in [Thread -> Command \cup {Nil}]
        /\ sock \in [Fd -> Conn \cup {Nil}] /\ interest \in [Fd -> Addr \cup {Nil}]
    BY DEF Init
  <2>2. /\ eof \in [Conn -> {"open", "fin", "rst"}]
        /\ life \in [Conn -> {"new", "queued", "connected", "gone", "leaked", "refused"}]
    BY DEF Init
  <2>3. /\ back \in {"loop", "read"} /\ batch \in SUBSET Event
        /\ crashed \in BOOLEAN /\ ready \in SUBSET Source
    BY DEF Init
  <2>4. pc[Worker] \in WorkerAt /\ \A t \in App : pc[t] \in AppAt
    BY <1>1 DEF WorkerAt, AppAt
  <2> QED
    BY <1>2, <1>3, <2>1, <2>2, <2>3, <2>4 DEF TypeOK
<1>5. CallHeld /\ PtrHeld /\ ReadsValid /\ HeadHeld
  BY <1>1 DEF CallHeld, PtrHeld, ReadsValid, HeadHeld, Thread, Removing, At
<1>6. ReadyWatched
  BY DEF Init, ReadyWatched
<1> QED
  BY <1>4, <1>5, <1>6 DEF Shape

LEMMA PeerShape == Shape /\ PeerStep => Shape'
<1> SUFFICES ASSUME Shape, NEW c \in Conn,
                    PeerConnect(c) \/ PeerSend(c) \/ PeerClose(c)
             PROVE  Shape'
  BY DEF PeerStep
<1> USE NamesAssumption, NumbersAssumption
<1>1. UNCHANGED <<table, cmdQ, thread, loop, crashed, sock, interest>>
  BY DEF PeerConnect, PeerSend, PeerClose
<1>2. rx' \in [Conn -> 0..MaxRx]
  <2>1. CASE PeerSend(c)
    <3>1. rx \in [Conn -> 0..MaxRx] /\ rx[c] < MaxRx /\ rx' = [rx EXCEPT ![c] = @ + 1]
      BY <2>1 DEF Shape, TypeOK, PeerSend
    <3>2. rx[c] + 1 \in 0..MaxRx
      BY <3>1
    <3> QED
      BY <3>1, <3>2
  <2>2. CASE PeerConnect(c) \/ PeerClose(c)
    BY <2>2 DEF Shape, TypeOK, PeerConnect, PeerClose, peer
  <2> QED
    BY <2>1, <2>2
<1>2a. eof' \in [Conn -> {"open", "fin", "rst"}]
  BY DEF Shape, TypeOK, PeerConnect, PeerSend, PeerClose, peer
<1>3. life' \in [Conn -> {"new", "queued", "connected", "gone", "leaked", "refused"}]
  BY DEF Shape, TypeOK, PeerConnect, PeerSend, PeerClose
<1>4. ready' \in SUBSET Source /\ ReadyWatched'
  BY <1>1 DEF Shape, TypeOK, PeerConnect, PeerSend, PeerClose, Source, Watching, ReadyWatched
<1>5. TypeOK'
  BY <1>1, <1>2, <1>2a, <1>3, <1>4 DEF Shape, TypeOK, table, thread, loop
<1>6. (CallHeld /\ PtrHeld /\ ReadsValid /\ HeadHeld)'
  BY <1>1 DEF Shape, CallHeld, PtrHeld, ReadsValid, HeadHeld, Removing, At, IsValid,
              table, thread, loop
<1> QED
  BY <1>4, <1>5, <1>6 DEF Shape
LEMMA PushShape == ASSUME Shape, NEW t \in Thread, Push(t) PROVE Shape'
<1> USE NamesAssumption, NumbersAssumption
<1>1. /\ At(t, "push") /\ Goto(t, "signal")
      /\ UNCHANGED <<table, ptr, call, back, loop, kernel, life>>
  BY DEF Push
<1>2. call[t] \in Command
  BY <1>1 DEF Shape, CallHeld, At
<1>3. cmdQ' \in Seq(Command) /\ (cmdQ # <<>> => cmdQ' # <<>>) /\ crashed' \in BOOLEAN
  <2>1. CASE cmdQ' = Append(cmdQ, call[t]) /\ UNCHANGED crashed
    <3>1. cmdQ \in Seq(Command)
      BY DEF Shape, TypeOK
    <3>2. Append(cmdQ, call[t]) \in Seq(Command) /\ Len(Append(cmdQ, call[t])) = Len(cmdQ) + 1
      BY <1>2, <3>1
    <3>3. Append(cmdQ, call[t]) # <<>>
      BY <3>1, <3>2
    <3> QED
      BY <2>1, <3>2, <3>3 DEF Shape, TypeOK
  <2>2. CASE crashed' \in BOOLEAN /\ UNCHANGED cmdQ
    BY <2>2 DEF Shape, TypeOK
  <2> QED
    BY <2>1, <2>2 DEF Push
<1>4. TypeOK'
  BY <1>1, <1>3
  DEF Shape, TypeOK, Goto, At, Thread, WorkerAt, AppAt, table, thread, loop, kernel, peer
<1>5. (CallHeld /\ PtrHeld)'
  BY <1>1 DEF Shape, TypeOK, CallHeld, PtrHeld, Goto, At, Thread
<1>6. ReadsValid'
  BY <1>1 DEF Shape, TypeOK, ReadsValid, IsValid, Goto, At, Thread, table
<1>7. (HeadHeld /\ ReadyWatched)'
  BY <1>1, <1>3
  DEF Shape, TypeOK, HeadHeld, Removing, ReadyWatched, Goto, At, Thread, kernel, loop
<1> QED
  BY <1>4, <1>5, <1>6, <1>7 DEF Shape

LEMMA SignalShape == ASSUME Shape, NEW t \in Thread, Signal(t) PROVE Shape'
<1> USE NamesAssumption, NumbersAssumption
<1>1. /\ At(t, "signal") /\ ready' = ready \cup {CmdEvt}
      /\ call' = [call EXCEPT ![t] = Nil]
      /\ Goto(t, IF t = Worker THEN back ELSE "idle")
      /\ back' = IF t = Worker THEN "loop" ELSE back
      /\ UNCHANGED <<table, cmdQ, ptr, loop, crashed, sock, interest, peer, life>>
  BY DEF Signal
<1>2. ready' \in SUBSET Source /\ ReadyWatched'
  BY <1>1 DEF Shape, TypeOK, Source, ReadyWatched
<1>3. pc' \in [Thread -> WorkerAt \cup AppAt]
  BY <1>1 DEF Shape, TypeOK, Goto, WorkerAt, AppAt
<1>4. pc'[Worker] \in WorkerAt /\ \A u \in App : pc'[u] \in AppAt
  BY <1>1 DEF Shape, TypeOK, Goto, WorkerAt, AppAt, Thread
<1>5. TypeOK'
  BY <1>1, <1>2, <1>3, <1>4 DEF Shape, TypeOK, table, loop, peer
<1>5a. \A u \in Thread : pc'[u] = pc[u] \/ (u = t /\ pc'[u] \in {"loop", "read", "idle"})
  <2> DEFINE place == IF t = Worker THEN back ELSE "idle"
  <2>1. place \in {"loop", "read", "idle"}
    BY DEF Shape, TypeOK
  <2>2. pc' = [pc EXCEPT ![t] = place] /\ pc \in [Thread -> WorkerAt \cup AppAt]
    BY <1>1 DEF Shape, TypeOK, Goto
  <2> HIDE DEF place
  <2> QED
    BY <2>1, <2>2
<1>5b. pc'[Worker] = "read" => IsValid(ptr[Worker]) /\ ptr[Worker] \in Addr
  <2>1. CASE t = Worker
    <3>1. pc'[Worker] = back
      BY <1>1, <2>1 DEF Shape, TypeOK, Goto
    <3>2. pc'[Worker] = "read" => IsValid(ptr[Worker])
      BY <1>1, <2>1, <3>1 DEF Shape, ReadsValid, At
    <3> QED
      BY <3>2 DEF Shape, TypeOK, IsValid, Thread
  <2>2. CASE t # Worker
    BY <1>5a, <2>2 DEF Shape, ReadsValid, PtrHeld, At, Thread
  <2> QED
    BY <2>1, <2>2
<1>6a. CallHeld'
  <2>1. SUFFICES ASSUME NEW u \in Thread,
                        pc'[u] \in {"at", "check", "store", "push", "close", "free", "erase"}
                 PROVE  call'[u] \in Command
    BY DEF CallHeld
  <2>2. u # t /\ pc'[u] = pc[u]
    BY <1>1, <1>5a, <2>1 DEF At
  <2>3. call'[u] = call[u]
    BY <1>1, <2>2 DEF Shape, TypeOK
  <2> QED
    BY <2>1, <2>2, <2>3 DEF Shape, CallHeld
<1>6b. PtrHeld'
  BY <1>1, <1>5a, <1>5b DEF Shape, TypeOK, PtrHeld, Thread
<1>6. HeadHeld'
  BY <1>1, <1>5a DEF Shape, TypeOK, HeadHeld, Removing, Thread, loop
<1>7. ReadsValid'
  BY <1>1 DEF Shape, TypeOK, ReadsValid, IsValid, Goto, At, Thread, table
<1> QED
  BY <1>2, <1>5, <1>6a, <1>6b, <1>6, <1>7 DEF Shape

\* What accept leaves alone or sets, whatever its outcome.
LEMMA AcceptShape == ASSUME Shape, NEW e \in batch, HandleAccept(e) PROVE Shape'
<1> USE NamesAssumption, NumbersAssumption
<1>1. /\ At(Worker, "loop") /\ batch' = batch \ {e}
      /\ UNCHANGED <<cmdQ, ptr, left, crashed, rx, eof>>
  BY DEF HandleAccept, peer
<1>2. CASE AcceptNone
  BY <1>1, <1>2 DEF AcceptNone, Shape, TypeOK, CallHeld, PtrHeld, ReadsValid, HeadHeld, ReadyWatched,
           Removing, At, Goto, Thread, WorkerAt, AppAt, table, thread, loop, kernel, peer
<1>3. ASSUME NEW c \in Conn, NEW f \in Fd, AcceptLeaked(c, f) PROVE Shape'
  BY <1>1, <1>3 DEF AcceptLeaked, Shape, TypeOK, CallHeld, PtrHeld, ReadsValid, HeadHeld, ReadyWatched,
           Removing, At, Goto, Thread, WorkerAt, AppAt, table, thread, loop, kernel, peer
<1>4. ASSUME NEW c \in Conn, NEW f \in Fd, NEW a \in Addr, Accepted(c, f, a), sockMap[f] # Nil
      PROVE  Shape'
  <2>1. /\ obj' = [obj EXCEPT ![a] = [fd |-> f, valid |-> FALSE]]
        /\ life' = [life EXCEPT ![c] = "refused"]
        /\ Goto(Worker, "loop")
        /\ UNCHANGED <<sockMap, call, back, sock, interest, ready>>
    BY <1>4 DEF Accepted
  <2>2. [fd |-> f, valid |-> FALSE] \in SocketObject
    BY DEF SocketObject
  <2>3. TypeOK'
    BY <1>1, <2>1, <2>2 DEF Shape, TypeOK, Goto, Thread, WorkerAt, AppAt
  <2>4. (CallHeld /\ PtrHeld /\ ReadsValid /\ HeadHeld /\ ReadyWatched)'
    BY <1>1, <2>1
    DEF Shape, TypeOK, CallHeld, PtrHeld, ReadsValid, HeadHeld, ReadyWatched,
        Removing, At, Goto, Thread
  <2> QED
    BY <2>3, <2>4 DEF Shape
<1>5. ASSUME NEW c \in Conn, NEW f \in Fd, NEW a \in Addr, Accepted(c, f, a), sockMap[f] = Nil
      PROVE  Shape'
  <2>1. /\ obj' = [obj EXCEPT ![a] = [fd |-> f, valid |-> TRUE]]
        /\ sockMap' = [sockMap EXCEPT ![f] = a]
        /\ sock' = [sock EXCEPT ![f] = c]
        /\ interest' = [interest EXCEPT ![f] = a]
        /\ ready' = ready \cup {f}
        /\ life' = [life EXCEPT ![c] = "connected"]
        /\ Callback(f, "loop")
    BY <1>5 DEF Accepted
  <2>2. [fd |-> f, valid |-> TRUE] \in SocketObject
    BY DEF SocketObject
  <2>3. /\ obj' \in [Addr -> SocketObject \cup {Nil}]
        /\ sockMap' \in [Fd -> Addr \cup {Nil}] /\ interest' \in [Fd -> Addr \cup {Nil}]
        /\ sock' \in [Fd -> Conn \cup {Nil}]
    BY <2>1, <2>2 DEF Shape, TypeOK
  <2>4. ready' \in SUBSET Source /\ ReadyWatched'
    BY <2>1 DEF Shape, TypeOK, Source, ReadyWatched
  <2>5. life' \in [Conn -> {"new", "queued", "connected", "gone", "leaked", "refused"}]
    BY <2>1 DEF Shape, TypeOK
  <2>6. batch' \in SUBSET Event
    BY <1>1 DEF Shape, TypeOK
  <2>7. CASE Goto(Worker, "loop") /\ UNCHANGED <<call, back>>
    <3>1. TypeOK'
      BY <1>1, <2>3, <2>4, <2>5, <2>6, <2>7 DEF Shape, TypeOK, Goto, Thread, WorkerAt, AppAt
    <3>2. (CallHeld /\ PtrHeld /\ ReadsValid /\ HeadHeld)'
      BY <1>1, <2>7
      DEF Shape, TypeOK, CallHeld, PtrHeld, ReadsValid, HeadHeld, Removing, At, Goto, Thread
    <3> QED
      BY <2>4, <3>1, <3>2 DEF Shape
  <2>8. ASSUME NEW op \in CallbackOps,
               call' = [call EXCEPT ![Worker] = [op |-> op, fd |-> f, conn |-> sock'[f]]],
               Goto(Worker, "push"), back' = "loop"
        PROVE  Shape'
    <3>1. [op |-> op, fd |-> f, conn |-> sock'[f]] \in Command
      BY <2>3, CallbackAssumption DEF Command
    <3>2. call' \in [Thread -> Command \cup {Nil}]
      BY <2>8, <3>1 DEF Shape, TypeOK, Thread
    <3>3. TypeOK'
      BY <1>1, <2>3, <2>4, <2>5, <2>6, <2>8, <3>2
      DEF Shape, TypeOK, Goto, Thread, WorkerAt, AppAt
    <3>4. CallHeld'
      BY <2>8, <3>1 DEF Shape, TypeOK, CallHeld, Goto, Thread
    <3>5. (PtrHeld /\ ReadsValid /\ HeadHeld)'
      BY <1>1, <2>8
      DEF Shape, TypeOK, PtrHeld, ReadsValid, HeadHeld, Removing, At, Goto, Thread
    <3> QED
      BY <2>4, <3>3, <3>4, <3>5 DEF Shape
  <2> QED
    BY <2>1, <2>7, <2>8 DEF Callback
<1> QED
  BY <1>2, <1>3, <1>4, <1>5 DEF HandleAccept

LEMMA WorkerShape == Shape /\ WorkerStep => Shape'
<1> SUFFICES ASSUME Shape, WorkerStep PROVE Shape'
  OBVIOUS
<1> USE NamesAssumption, NumbersAssumption
<1>1. CASE EpollWait
  <2>1. PICK S \in SUBSET ready : batch' = {Report(s) : s \in S} /\ ready' = ready \ S
    BY <1>1 DEF EpollWait
  <2>2. ASSUME NEW s \in S PROVE Report(s) \in Event
    <3>1. CASE s \in Fd
      <4>1. interest[s] \in Addr
        BY <3>1, <2>2 DEF Shape, TypeOK, ReadyWatched
      <4>2. HasInput(sock[s]) \in BOOLEAN
        BY DEF HasInput
      <4> QED
        BY <3>1, <4>1, <4>2 DEF Report, Event
    <3>2. CASE s \in {CmdEvt, ListenEvt}
      BY <3>2 DEF Report, Event
    <3> QED
      BY <3>1, <3>2, <2>2 DEF Shape, TypeOK, Source
  <2>3. batch' \in SUBSET Event
    BY <2>1, <2>2
  <2> QED
    BY <1>1, <2>1, <2>3
    DEF EpollWait, Shape, TypeOK, CallHeld, PtrHeld, ReadsValid, HeadHeld, ReadyWatched,
           Removing, At, Goto, Thread, WorkerAt, AppAt, table, thread, loop, kernel, peer
<1>2. CASE BatchDone
  BY <1>2 DEF BatchDone, Shape, TypeOK, CallHeld, PtrHeld, ReadsValid, HeadHeld, ReadyWatched,
        Removing, At, Goto, Thread, WorkerAt, AppAt, table, thread, loop, kernel, peer
<1>3. ASSUME NEW e \in batch, ProcessIo(e) PROVE Shape'
  BY <1>3 DEF ProcessIo, Shape, TypeOK, CallHeld, PtrHeld, ReadsValid, HeadHeld, ReadyWatched,
        Removing, At, Goto, Thread, WorkerAt, AppAt, table, thread, loop, kernel, peer,
        Event
<1>4. ASSUME NEW e \in batch, HandleAccept(e) PROVE Shape'
  BY <1>4, AcceptShape
<1>5. ASSUME NEW e \in batch, StartCommands(e) PROVE Shape'
  BY <1>5 DEF StartCommands, Shape, TypeOK, CallHeld, PtrHeld, ReadsValid, HeadHeld, ReadyWatched,
        Removing, At, Goto, Thread, WorkerAt, AppAt, table, thread, loop, kernel, peer
<1>6. CASE EnterHandler
  <2>1. CASE At(Worker, "receive") /\ IsValid(ptr[Worker]) /\ Goto(Worker, "read")
             /\ UNCHANGED <<ptr, crashed>>
    BY <1>6, <2>1
    DEF EnterHandler, IsValid, Shape, TypeOK, CallHeld, PtrHeld, ReadsValid, HeadHeld, ReadyWatched,
           Removing, At, Goto, Thread, WorkerAt, AppAt, table, thread, loop, kernel, peer
  <2>2. CASE ptr' = [ptr EXCEPT ![Worker] = Nil] /\ Goto(Worker, "loop") /\ UNCHANGED crashed
    BY <1>6, <2>2
    DEF EnterHandler, Shape, TypeOK, CallHeld, PtrHeld, ReadsValid, HeadHeld, ReadyWatched,
           Removing, At, Goto, Thread, WorkerAt, AppAt, table, thread, loop, kernel, peer
  <2>3. CASE crashed' = TRUE /\ UNCHANGED <<pc, ptr>>
    BY <1>6, <2>3
    DEF EnterHandler, IsValid, Shape, TypeOK, CallHeld, PtrHeld, ReadsValid, HeadHeld, ReadyWatched,
           Removing, At, Goto, Thread, WorkerAt, AppAt, table, thread, loop, kernel, peer
  <2> QED
    BY <1>6, <2>1, <2>2, <2>3 DEF EnterHandler
<1>7. CASE ReadData
  <2> DEFINE f == obj[ptr[Worker]].fd
             c == sock[f]
  <2>1. /\ At(Worker, "read") /\ rx[c] > 0 /\ rx' = [rx EXCEPT ![c] = @ - 1]
        /\ Callback(f, "read")
        /\ UNCHANGED <<table, cmdQ, ptr, loop, crashed, sock, interest, ready, eof, life>>
    BY <1>7 DEF ReadData
  <2>2. ptr[Worker] \in Addr /\ IsValid(ptr[Worker]) /\ f \in Fd /\ c \in Conn \cup {Nil}
    BY <2>1 DEF Shape, TypeOK, PtrHeld, ReadsValid, IsValid, SocketObject, At
  <2>3. rx' \in [Conn -> 0..MaxRx]
    <3>1. rx \in [Conn -> 0..MaxRx]
      BY DEF Shape, TypeOK
    <3>2. c \in Conn => rx[c] - 1 \in 0..MaxRx
      BY <3>1, <2>1
    <3> HIDE DEF c
    <3> QED
      BY <3>1, <3>2, <2>1
  <2>4. IsValid(ptr[Worker])'
    BY <2>1, <2>2 DEF IsValid, table
  <2>5. CASE Goto(Worker, "read") /\ UNCHANGED <<call, back>>
    BY <2>1, <2>2, <2>3, <2>4, <2>5
    DEF Shape, TypeOK, CallHeld, PtrHeld, ReadsValid, HeadHeld, ReadyWatched,
           Removing, At, Goto, Thread, WorkerAt, AppAt, table, thread, loop, kernel, peer
  <2>6. ASSUME NEW op \in CallbackOps,
               call' = [call EXCEPT ![Worker] = [op |-> op, fd |-> f, conn |-> sock'[f]]],
               Goto(Worker, "push"), back' = "read"
        PROVE  Shape'
    <3>1. [op |-> op, fd |-> f, conn |-> sock'[f]] \in Command
      BY <2>1, <2>2, CallbackAssumption DEF Command
    <3> HIDE DEF f, c
    <3> QED
      BY <2>1, <2>2, <2>3, <2>4, <2>6, <3>1
      DEF Shape, TypeOK, CallHeld, PtrHeld, ReadsValid, HeadHeld, ReadyWatched,
           Removing, At, Goto, Thread, WorkerAt, AppAt, table, thread, loop, kernel, peer
  <2> QED
    BY <2>1, <2>5, <2>6 DEF Callback
<1>8. CASE ReadEof
  BY <1>8 DEF ReadEof, Shape, TypeOK, CallHeld, PtrHeld, ReadsValid, HeadHeld, ReadyWatched,
        Removing, At, Goto, Thread, WorkerAt, AppAt, table, thread, loop, kernel, peer,
        IsValid, SocketObject, Command, CommandFor
<1>9. CASE ReadAgain
  BY <1>9 DEF ReadAgain, Shape, TypeOK, CallHeld, PtrHeld, ReadsValid, HeadHeld, ReadyWatched,
        Removing, At, Goto, Thread, WorkerAt, AppAt, table, thread, loop, kernel, peer
<1>10. CASE CommandsDone
  BY <1>10 DEF CommandsDone, Shape, TypeOK, CallHeld, PtrHeld, ReadsValid, HeadHeld, ReadyWatched,
        Removing, At, Goto, Thread, WorkerAt, AppAt, table, thread, loop, kernel, peer
<1>11. CASE CommandSend
  BY <1>11 DEF CommandSend, Shape, TypeOK, CallHeld, PtrHeld, ReadsValid, HeadHeld, ReadyWatched,
        Removing, At, Goto, Thread, WorkerAt, AppAt, table, thread, loop, kernel, peer,
        Executing, PopCommand, Exhausted
<1>12. CASE CommandNotFound
  BY <1>12 DEF CommandNotFound, Shape, TypeOK, CallHeld, PtrHeld, ReadsValid, HeadHeld, ReadyWatched,
        Removing, At, Goto, Thread, WorkerAt, AppAt, table, thread, loop, kernel, peer,
        Executing, PopCommand, Exhausted
<1>13. CASE RemoveObject
  <2> DEFINE a == sockMap[Head(cmdQ).fd]
  <2>1. /\ At(Worker, "command") /\ cmdQ # <<>> /\ left # 0 /\ IsValid(a)
        /\ obj' = [obj EXCEPT ![a].valid = FALSE]
        /\ ptr' = [ptr EXCEPT ![Worker] = a]
        /\ call' = [call EXCEPT ![Worker] = [Head(cmdQ) EXCEPT !.fd = obj[a].fd]]
        /\ life' = [c \in Conn |-> IF c = sock[obj[a].fd] THEN "gone" ELSE life[c]]
        /\ Goto(Worker, "close")
        /\ UNCHANGED <<sockMap, cmdQ, back, loop, crashed, kernel>>
    BY <1>13 DEF RemoveObject, Executing, Exhausted, FindSocketObject
  <2>2. Head(cmdQ) \in Command
    BY <2>1 DEF Shape, TypeOK
  <2>3. a \in Addr /\ obj[a] \in SocketObject
    BY <2>1, <2>2 DEF Shape, TypeOK, IsValid, Command
  <2>4. obj' \in [Addr -> SocketObject \cup {Nil}]
    BY <2>1, <2>3 DEF Shape, TypeOK, SocketObject
  <2>5. [Head(cmdQ) EXCEPT !.fd = obj[a].fd] \in Command
    BY <2>2, <2>3 DEF Command, SocketObject
  <2>6. life' \in [Conn -> {"new", "queued", "connected", "gone", "leaked", "refused"}]
    BY <2>1 DEF Shape, TypeOK
  <2> HIDE DEF a
  <2> QED
    BY <2>1, <2>3, <2>4, <2>5, <2>6
    DEF Shape, TypeOK, CallHeld, PtrHeld, ReadsValid, HeadHeld, ReadyWatched,
           Removing, At, Goto, Thread, WorkerAt, AppAt, table, thread, loop, kernel, peer
<1>14. CASE RemoveClose
  BY <1>14 DEF RemoveClose, Shape, TypeOK, CallHeld, PtrHeld, ReadsValid, HeadHeld, ReadyWatched,
        Removing, At, Goto, Thread, WorkerAt, AppAt, table, thread, loop, kernel, peer,
        Command
<1>15. CASE RemoveFree
  BY <1>15 DEF RemoveFree, Shape, TypeOK, CallHeld, PtrHeld, ReadsValid, HeadHeld, ReadyWatched,
        Removing, At, Goto, Thread, WorkerAt, AppAt, table, thread, loop, kernel, peer,
        IsValid
<1>16. CASE RemoveErase
  BY <1>16 DEF RemoveErase, Shape, TypeOK, CallHeld, PtrHeld, ReadsValid, HeadHeld, ReadyWatched,
        Removing, At, Goto, Thread, WorkerAt, AppAt, table, thread, loop, kernel, peer,
        PopCommand, Command
<1>17. CASE Push(Worker)
  BY <1>17, PushShape DEF Thread
<1>18. CASE Signal(Worker)
  BY <1>18, SignalShape DEF Thread
<1> QED
  BY <1>1, <1>2, <1>3, <1>4, <1>5, <1>6, <1>7, <1>8, <1>9, <1>10, <1>11, <1>12, <1>13,
     <1>14, <1>15, <1>16, <1>17, <1>18 DEF WorkerStep
\* A step of an application thread that changes its own locals only.
LEMMA AppLocalShape ==
  ASSUME Shape, NEW t \in App,
         pc' \in [Thread -> WorkerAt \cup AppAt], pc'[t] \in AppAt,
         \A u \in Thread : u # t => pc'[u] = pc[u] /\ ptr'[u] = ptr[u] /\ call'[u] = call[u],
         ptr' \in [Thread -> Addr \cup {Nil}], call' \in [Thread -> Command \cup {Nil}],
         pc'[t] \in {"check", "store"} => ptr'[t] \in Addr,
         pc'[t] \in {"at", "check", "store", "push"} => call'[t] \in Command,
         crashed' \in BOOLEAN,
         UNCHANGED <<table, cmdQ, back, loop, kernel, life>>
  PROVE  Shape'
<1> USE NamesAssumption, NumbersAssumption
<1>1. Worker \in Thread /\ Worker # t /\ App \subseteq Thread
  BY DEF Thread
<1>2. pc'[Worker] = pc[Worker] /\ ptr'[Worker] = ptr[Worker] /\ call'[Worker] = call[Worker]
  BY <1>1
<1>3. TypeOK'
  BY <1>1, <1>2 DEF Shape, TypeOK, table, loop, kernel
<1>4. CallHeld'
  BY DEF Shape, CallHeld, AppAt
<1>5. PtrHeld'
  BY <1>1, <1>2 DEF Shape, PtrHeld
<1>6. (ReadsValid /\ HeadHeld /\ ReadyWatched)'
  BY <1>2 DEF Shape, ReadsValid, HeadHeld, ReadyWatched, Removing, At, IsValid,
              table, loop, kernel
<1> QED
  BY <1>3, <1>4, <1>5, <1>6 DEF Shape

LEMMA AppShape ==
  ASSUME Shape, NEW t \in App, AppCall(t) \/ AppStep(t)
  PROVE  Shape'
<1> USE NamesAssumption, NumbersAssumption
<1>0. /\ t \in Thread
      /\ pc \in [Thread -> WorkerAt \cup AppAt] /\ pc[t] \in AppAt
      /\ ptr \in [Thread -> Addr \cup {Nil}] /\ call \in [Thread -> Command \cup {Nil}]
      /\ sockMap \in [Fd -> Addr \cup {Nil}] /\ crashed \in BOOLEAN
      /\ pc[t] \in {"check", "store"} => ptr[t] \in Addr
      /\ pc[t] \in {"at", "check", "store", "push"} => call[t] \in Command
  BY DEF Shape, TypeOK, Thread, CallHeld, PtrHeld
<1>1. ASSUME NEW f \in Fd, AppDisconnect(t, f) \/ AppSend(t, f) PROVE Shape'
  <2>1. CommandFor("disconnect", f) \in Command /\ CommandFor("send", f) \in Command
    BY DEF CommandFor, Command, Shape, TypeOK
  <2>2. PICK p \in {"push", "at"}, cmd \in Command :
          /\ Goto(t, p) /\ call' = [call EXCEPT ![t] = cmd]
          /\ UNCHANGED <<table, cmdQ, ptr, back, loop, crashed, kernel, life>>
    BY <1>1, <2>1 DEF AppDisconnect, AppSend
  <2>3. pc' \in [Thread -> WorkerAt \cup AppAt] /\ pc'[t] = p /\ p \in AppAt
    BY <1>0, <2>2 DEF Goto, AppAt
  <2>4. call' \in [Thread -> Command \cup {Nil}] /\ call'[t] = cmd
    BY <1>0, <2>2
  <2> QED
    BY <1>0, <2>2, <2>3, <2>4, AppLocalShape DEF Goto
<1>2. CASE SendAt(t)
  <2>1. /\ pc' \in [Thread -> WorkerAt \cup AppAt] /\ pc'[t] \in {"at", "check"}
        /\ ptr' \in [Thread -> Addr \cup {Nil}] /\ (pc'[t] = "check" => ptr'[t] \in Addr)
        /\ crashed' \in BOOLEAN
        /\ \A u \in Thread : u # t => pc'[u] = pc[u] /\ ptr'[u] = ptr[u]
    BY <1>0, <1>2 DEF SendAt, At, Goto, AppAt, Command
  <2> QED
    BY <1>0, <1>2, <2>1, AppLocalShape DEF SendAt, At, AppAt
<1>3. CASE SendCheck(t)
  <2>1. /\ pc' \in [Thread -> WorkerAt \cup AppAt] /\ pc'[t] \in {"check", "store", "idle"}
        /\ ptr' \in [Thread -> Addr \cup {Nil}] /\ call' \in [Thread -> Command \cup {Nil}]
        /\ pc'[t] # "idle" => ptr'[t] = ptr[t] /\ call'[t] = call[t]
        /\ crashed' \in BOOLEAN
        /\ \A u \in Thread : u # t => pc'[u] = pc[u] /\ ptr'[u] = ptr[u] /\ call'[u] = call[u]
    BY <1>0, <1>3 DEF SendCheck, SendFails, At, Goto, AppAt
  <2> QED
    BY <1>0, <1>3, <2>1, AppLocalShape DEF SendCheck, At, AppAt
<1>4. CASE SendStore(t)
  <2>1. /\ pc' \in [Thread -> WorkerAt \cup AppAt] /\ pc'[t] \in {"store", "push", "idle"}
        /\ ptr' \in [Thread -> Addr \cup {Nil}] /\ call' \in [Thread -> Command \cup {Nil}]
        /\ pc'[t] = "store" => ptr'[t] = ptr[t]
        /\ pc'[t] # "idle" => call'[t] = call[t]
        /\ crashed' \in BOOLEAN
        /\ \A u \in Thread : u # t => pc'[u] = pc[u] /\ ptr'[u] = ptr[u] /\ call'[u] = call[u]
    BY <1>0, <1>4 DEF SendStore, SendFails, At, Goto, AppAt
  <2> QED
    BY <1>0, <1>4, <2>1, AppLocalShape DEF SendStore, At, AppAt
<1>5. CASE Push(t) \/ Signal(t)
  BY <1>0, <1>5, PushShape, SignalShape
<1> QED
  BY <1>1, <1>2, <1>3, <1>4, <1>5 DEF AppCall, AppStep

LEMMA ShapeStep == Shape /\ [Next]_vars => Shape'
<1>1. CASE UNCHANGED vars
  BY <1>1
  DEF Shape, TypeOK, CallHeld, PtrHeld, ReadsValid, HeadHeld, ReadyWatched, Removing,
      At, IsValid, vars
<1> QED
  BY <1>1, PeerShape, WorkerShape, AppShape DEF Next

\* Type correctness: every variable keeps its type, for any number of
\* threads, connections and descriptors.
THEOREM TypeCorrect == Spec => []TypeOK
<1>1. Shape => TypeOK
  BY DEF Shape
<1> QED
  BY <1>1, ShapeInit, ShapeStep, PTL DEF Spec
----------------------------------------------------------------------------
(* The tables agree.                                                        *)

LEMMA TablesInit == Init => Tables
  BY NamesAssumption
  DEF Init, Tables, TableConsistent, EntryHasObject, ObjectHasEntry, RegistrationSound,
      EntryIsWatched, DescriptorHasEntry, RemovalPhase, Ownership,
      Removing, RemovingFd, IsValid, Freed, At, Thread

\* A step that changes none of the tables, and either leaves the worker where
\* it is or happens outside RemoveSocketObject, keeps them consistent.
LEMMA TablesFrame ==
  ASSUME Tables,
         UNCHANGED <<sockMap, obj, sock, interest, life>>,
         \/ ~Removing /\ ~Removing'
         \/ UNCHANGED <<pc[Worker], ptr[Worker], call[Worker]>>
  PROVE  Tables'
<1>1. CASE ~Removing /\ ~Removing'
  BY <1>1
  DEF Tables, TableConsistent, EntryHasObject, ObjectHasEntry, RegistrationSound,
      EntryIsWatched, DescriptorHasEntry, RemovalPhase, Ownership,
      Removing, RemovingFd, IsValid, Freed, At
<1>2. CASE UNCHANGED <<pc[Worker], ptr[Worker], call[Worker]>>
  BY <1>2
  DEF Tables, TableConsistent, EntryHasObject, ObjectHasEntry, RegistrationSound,
      EntryIsWatched, DescriptorHasEntry, RemovalPhase, Ownership,
      Removing, RemovingFd, IsValid, Freed, At
<1> QED
  BY <1>1, <1>2

LEMMA PeerTables == Shape /\ Tables /\ PeerStep => Tables'
<1> SUFFICES ASSUME Shape, Tables, NEW c \in Conn,
                    PeerConnect(c) \/ PeerSend(c) \/ PeerClose(c)
             PROVE  Tables'
  BY DEF PeerStep
<1>1. UNCHANGED <<table, thread, sock, interest>>
  BY DEF PeerConnect, PeerSend, PeerClose
<1>2. CASE PeerConnect(c)
  <2>1. /\ life \in [Conn -> {"new", "queued", "connected", "gone", "leaked", "refused"}]
        /\ life[c] = "new" /\ life' = [life EXCEPT ![c] = "queued"]
    BY <1>2 DEF PeerConnect, Shape, TypeOK
  <2>2. \A f \in Fd : sock[f] # Nil => sock[f] # c /\ life'[sock[f]] = life[sock[f]]
    BY <2>1 DEF Tables, Ownership
  <2>3. \A f \in Fd : sockMap[f] # Nil /\ ~RemovingFd(f) => sock[f] # Nil
    BY DEF Tables, TableConsistent, EntryIsWatched
  <2> QED
    BY <1>1, <2>2, <2>3
    DEF Tables, TableConsistent, EntryHasObject, ObjectHasEntry, RegistrationSound,
      EntryIsWatched, DescriptorHasEntry, RemovalPhase, Ownership,
        Removing, RemovingFd, IsValid, Freed, At, table, thread
<1>3. CASE UNCHANGED life
  BY <1>1, <1>3, TablesFrame DEF table, thread
<1> QED
  BY <1>2, <1>3 DEF PeerSend, PeerClose

LEMMA ObjectNotNil == \A f \in Fd, v \in BOOLEAN : [fd |-> f, valid |-> v] # Nil
  BY NilAssumption DEF SocketObject

LEMMA AcceptTables ==
  ASSUME Shape, Tables, NEW e \in batch, HandleAccept(e)
  PROVE  Tables'
<1> USE NamesAssumption
<1>1. /\ ~Removing /\ ~Removing'
      /\ \A f \in Fd : sock[f] = Nil => sockMap[f] = Nil /\ interest[f] = Nil
  BY DEF HandleAccept, AcceptNone, AcceptLeaked, Accepted, Callback, Goto, Shape, TypeOK, Thread,
         Removing, RemovingFd, IsValid, Freed, At,
         Tables, TableConsistent, EntryIsWatched, RegistrationSound
<1>2. CASE AcceptNone
  BY <1>1, <1>2, TablesFrame DEF AcceptNone, table
<1>3. ASSUME NEW c \in Conn, NEW f \in Fd, life[c] = "queued", sock[f] = Nil,
             AcceptLeaked(c, f)
      PROVE  Tables'
  BY <1>1, <1>3
  DEF AcceptLeaked, Shape, TypeOK, table,
      Tables, TableConsistent, EntryHasObject, ObjectHasEntry, RegistrationSound,
      EntryIsWatched, DescriptorHasEntry, RemovalPhase, Ownership,
      Removing, RemovingFd, IsValid, Freed, At
<1>4. ASSUME NEW c \in Conn, NEW f \in Fd, NEW a \in Addr,
             life[c] = "queued", sock[f] = Nil, Freed(a), Accepted(c, f, a)
      PROVE  Tables'
  <2>1. /\ obj' = [obj EXCEPT ![a] = [fd |-> f, valid |-> TRUE]]
        /\ sockMap' = [sockMap EXCEPT ![f] = a]
        /\ sock' = [sock EXCEPT ![f] = c]
        /\ interest' = [interest EXCEPT ![f] = a]
        /\ life' = [life EXCEPT ![c] = "connected"]
    BY <1>1, <1>4 DEF Accepted
  <2>2. /\ sockMap[f] = Nil /\ obj[a] = Nil /\ c # Nil /\ a # Nil
        /\ \A g \in Fd : sock[g] # c
        /\ \A g \in Fd : sockMap[g] # a
    BY <1>1, <1>4
    DEF Tables, TableConsistent, EntryHasObject, ObjectHasEntry, RegistrationSound,
      EntryIsWatched, DescriptorHasEntry, RemovalPhase, Ownership,
        Removing, RemovingFd, IsValid, Freed, At
  <2>3. /\ obj'[a] = [fd |-> f, valid |-> TRUE]
        /\ \A b \in Addr : b # a => obj'[b] = obj[b]
        /\ sockMap'[f] = a /\ sock'[f] = c /\ interest'[f] = a /\ life'[c] = "connected"
        /\ \A g \in Fd : g # f =>
             sockMap'[g] = sockMap[g] /\ sock'[g] = sock[g] /\ interest'[g] = interest[g]
        /\ \A d \in Conn : d # c => life'[d] = life[d]
        /\ obj'[a] # Nil
    BY <2>1, ObjectNotNil DEF Shape, TypeOK
  <2>4. /\ \A g \in Fd : sockMap[g] \in Addr \cup {Nil} /\ sock[g] \in Conn \cup {Nil}
        /\ \A b \in Addr : obj[b] # Nil => obj[b].fd \in Fd
    BY DEF Shape, TypeOK, SocketObject
  <2>5. (EntryHasObject /\ RegistrationSound /\ EntryIsWatched)'
    BY <1>1, <2>2, <2>3, <2>4
    DEF Tables, TableConsistent, EntryHasObject, RegistrationSound, EntryIsWatched,
        IsValid, Freed, RemovingFd
  <2>6. ObjectHasEntry'
    BY <2>2, <2>3, <2>4 DEF Tables, TableConsistent, ObjectHasEntry
  <2>7. DescriptorHasEntry'
    BY <2>2, <2>3, <2>4 DEF Tables, TableConsistent, DescriptorHasEntry
  <2>8. RemovalPhase'
    BY <1>1 DEF RemovalPhase, Removing, At
  <2>9. Ownership'
    BY <1>1, <2>2, <2>3, <2>4 DEF Tables, TableConsistent, EntryIsWatched, Ownership, RemovingFd
  <2> QED
    BY <2>5, <2>6, <2>7, <2>8, <2>9 DEF Tables, TableConsistent
<1> QED
  BY <1>2, <1>3, <1>4 DEF HandleAccept
LEMMA RemoveObjectTables == ASSUME Shape, Tables, RemoveObject PROVE Tables'
<1> USE NamesAssumption
<1> DEFINE a == sockMap[Head(cmdQ).fd]
           f == obj[a].fd
<1>1. /\ At(Worker, "command") /\ cmdQ # <<>> /\ IsValid(a) /\ f = obj[a].fd
      /\ obj' = [obj EXCEPT ![a].valid = FALSE]
      /\ ptr' = [ptr EXCEPT ![Worker] = a]
      /\ call' = [call EXCEPT ![Worker] = [Head(cmdQ) EXCEPT !.fd = obj[a].fd]]
      /\ life' = [c \in Conn |-> IF c = sock[obj[a].fd] THEN "gone" ELSE life[c]]
      /\ Goto(Worker, "close")
      /\ UNCHANGED <<sockMap, sock, interest>>
  BY DEF RemoveObject, Executing, FindSocketObject, kernel
<1>2. Head(cmdQ) \in Command
  BY <1>1 DEF Shape, TypeOK
<1>3. a \in Addr /\ obj[a] \in SocketObject /\ f \in Fd /\ obj[a].valid
  BY <1>1, <1>2 DEF Shape, TypeOK, IsValid, Command, SocketObject
<1>4. /\ obj'[a] = [fd |-> f, valid |-> FALSE] /\ obj'[a] # Nil
      /\ \A b \in Addr : b # a => obj'[b] = obj[b]
      /\ ptr'[Worker] = a /\ call'[Worker].fd = f /\ pc'[Worker] = "close"
      /\ \A c \in Conn : life'[c] = IF c = sock[f] THEN "gone" ELSE life[c]
  <2>1. /\ obj \in [Addr -> SocketObject \cup {Nil}] /\ ptr \in [Thread -> Addr \cup {Nil}]
        /\ call \in [Thread -> Command \cup {Nil}] /\ Worker \in Thread
        /\ DOMAIN pc = Thread
    BY DEF Shape, TypeOK, Thread
  <2>2. /\ ptr'[Worker] = a /\ pc'[Worker] = "close"
        /\ \A b \in Addr : b # a => obj'[b] = obj[b]
        /\ \A c \in Conn : life'[c] = IF c = sock[f] THEN "gone" ELSE life[c]
    BY <1>1, <1>3, <2>1 DEF Goto
  <2>3. call'[Worker].fd = f
    BY <1>1, <1>2, <2>1 DEF Command
  <2>4. obj'[a] = [fd |-> f, valid |-> FALSE]
    BY <1>1, <1>3, <2>1 DEF SocketObject
  <2>5. obj'[a] # Nil
    BY <1>3, <2>4, ObjectNotNil DEF SocketObject
  <2> QED
    BY <2>2, <2>3, <2>4, <2>5
<1>5. /\ ~Removing
      /\ \A g \in Fd : RemovingFd(g)' <=> g = f
      /\ \A g \in Fd : sockMap[g] \in Addr \cup {Nil} /\ sock[g] \in Conn \cup {Nil}
      /\ \A b \in Addr : obj[b] # Nil => obj[b].fd \in Fd
  <2>1. /\ ~Removing
        /\ \A g \in Fd : RemovingFd(g)' <=> g = f
    BY <1>1, <1>4 DEF Removing, RemovingFd, At
  <2>2. /\ \A g \in Fd : sockMap[g] \in Addr \cup {Nil} /\ sock[g] \in Conn \cup {Nil}
        /\ \A b \in Addr : obj[b] # Nil => obj[b].fd \in Fd
    BY DEF Shape, TypeOK, SocketObject
  <2> QED
    BY <2>1, <2>2
<1>6. sockMap[f] = a /\ interest[f] = a /\ sock[f] # Nil /\ life[sock[f]] = "connected"
  BY <1>1, <1>3, <1>5
  DEF Tables, TableConsistent, ObjectHasEntry, EntryIsWatched, RegistrationSound, RemovingFd,
      Ownership, IsValid
<1> HIDE DEF a, f
<1>7. (EntryHasObject /\ RegistrationSound /\ EntryIsWatched)'
  BY <1>1, <1>3, <1>4, <1>5
  DEF Tables, TableConsistent, EntryHasObject, RegistrationSound, EntryIsWatched,
      IsValid, Freed, RemovingFd
<1>8. ObjectHasEntry'
  BY <1>1, <1>3, <1>4, <1>5, <1>6 DEF Tables, TableConsistent, ObjectHasEntry
<1>9. DescriptorHasEntry'
  BY <1>1, <1>3, <1>4, <1>5, <1>6
  DEF Tables, TableConsistent, DescriptorHasEntry, Ownership
<1>10. RemovalPhase'
  BY <1>1, <1>4, <1>6 DEF RemovalPhase, Removing, At
<1>11. Ownership'
  BY <1>1, <1>3, <1>4, <1>5, <1>6
  DEF Tables, TableConsistent, EntryIsWatched, Ownership, RemovingFd
<1> QED
  BY <1>7, <1>8, <1>9, <1>10, <1>11 DEF Tables, TableConsistent

\* The later steps of the removal, on the descriptor and object it holds.
LEMMA RemoveRestTables ==
  ASSUME Shape, Tables, RemoveClose \/ RemoveFree \/ RemoveErase
  PROVE  Tables'
<1> USE NamesAssumption
<1> DEFINE a == ptr[Worker]
           f == call[Worker].fd
<1>1. /\ Removing /\ a \in Addr /\ f \in Fd /\ sockMap[f] = a
      /\ \A g \in Fd : RemovingFd(g) <=> g = f
      /\ \A g \in Fd : sockMap[g] \in Addr \cup {Nil} /\ sock[g] \in Conn \cup {Nil}
      /\ \A b \in Addr : obj[b] # Nil => obj[b].fd \in Fd
  BY DEF RemoveClose, RemoveFree, RemoveErase, Removing, RemovingFd, At, Shape, TypeOK,
         CallHeld, PtrHeld, Command, SocketObject, Thread, Tables, RemovalPhase
<1>2. \A g \in Fd : sockMap[g] = a => g = f
  BY <1>1 DEF Tables, TableConsistent, EntryHasObject, RemovalPhase, IsValid, Freed, Removing, At
<1>3. CASE RemoveClose
  <2>1. /\ pc[Worker] = "close" /\ pc'[Worker] = "free"
        /\ UNCHANGED <<sockMap, obj, ptr, call, life>>
        /\ interest'[f] = Nil /\ sock'[f] = Nil
        /\ \A g \in Fd : g # f => interest'[g] = interest[g] /\ sock'[g] = sock[g]
    BY <1>1, <1>3 DEF RemoveClose, At, Goto, Shape, TypeOK, Thread, table
  <2>2. /\ \A g \in Fd : RemovingFd(g)' <=> g = f
        /\ obj[a] = [fd |-> f, valid |-> FALSE]
    BY <1>1, <2>1 DEF Removing, RemovingFd, Tables, RemovalPhase
  <2> HIDE DEF a, f
  <2>3. (EntryHasObject /\ ObjectHasEntry /\ RegistrationSound /\ EntryIsWatched /\ DescriptorHasEntry)'
    BY <1>1, <1>2, <2>1, <2>2
    DEF Tables, TableConsistent, EntryHasObject, ObjectHasEntry, RegistrationSound,
        EntryIsWatched, DescriptorHasEntry, IsValid, Freed
  <2>4. Ownership'
    BY <1>1, <2>1, <2>2 DEF Tables, Ownership
  <2>5. RemovalPhase'
    BY <1>1, <2>1, <2>2 DEF RemovalPhase, Removing, At, a, f
  <2> QED
    BY <2>3, <2>4, <2>5 DEF Tables, TableConsistent
<1>4. CASE RemoveFree
  <2>1. /\ pc[Worker] = "free" /\ pc'[Worker] = "erase"
        /\ UNCHANGED <<sockMap, ptr, call, life, interest, sock>>
        /\ obj'[a] = Nil /\ \A b \in Addr : b # a => obj'[b] = obj[b]
    BY <1>1, <1>4 DEF RemoveFree, At, Goto, Shape, TypeOK, Thread, kernel
  <2>2. /\ \A g \in Fd : RemovingFd(g)' <=> g = f
        /\ interest[f] = Nil /\ sock[f] = Nil
    BY <1>1, <2>1 DEF Removing, RemovingFd, Tables, RemovalPhase
  <2> HIDE DEF a, f
  <2>3. (EntryHasObject /\ ObjectHasEntry /\ RegistrationSound /\ EntryIsWatched /\ DescriptorHasEntry)'
    BY <1>1, <1>2, <2>1, <2>2
    DEF Tables, TableConsistent, EntryHasObject, ObjectHasEntry, RegistrationSound,
        EntryIsWatched, DescriptorHasEntry, IsValid, Freed
  <2>4. Ownership'
    BY <1>1, <2>1, <2>2 DEF Tables, Ownership
  <2>5. RemovalPhase'
    BY <1>1, <2>1, <2>2 DEF RemovalPhase, Removing, At, Freed, a, f
  <2> QED
    BY <2>3, <2>4, <2>5 DEF Tables, TableConsistent
<1>5. CASE RemoveErase
  <2>1. /\ pc[Worker] = "erase" /\ pc'[Worker] = "command"
        /\ UNCHANGED <<obj, life, interest, sock>>
        /\ sockMap'[f] = Nil /\ \A g \in Fd : g # f => sockMap'[g] = sockMap[g]
    BY <1>1, <1>5 DEF RemoveErase, At, Goto, Shape, TypeOK, Thread, kernel
  <2>2. /\ \A g \in Fd : ~RemovingFd(g)'
        /\ interest[f] = Nil /\ sock[f] = Nil /\ obj[a] = Nil
    BY <1>1, <2>1 DEF Removing, RemovingFd, Tables, RemovalPhase, At, Freed
  <2> HIDE DEF a, f
  <2>3. (EntryHasObject /\ RegistrationSound /\ EntryIsWatched /\ DescriptorHasEntry)'
    BY <1>1, <1>2, <2>1, <2>2
    DEF Tables, TableConsistent, EntryHasObject, RegistrationSound,
        EntryIsWatched, DescriptorHasEntry, IsValid, Freed
  <2>4. ObjectHasEntry'
    <3>1. SUFFICES ASSUME NEW b \in Addr, obj[b] # Nil PROVE sockMap'[obj[b].fd] = b
      BY <2>1 DEF ObjectHasEntry
    <3>2. sockMap[obj[b].fd] = b /\ b # a
      BY <3>1, <2>2 DEF Tables, TableConsistent, ObjectHasEntry
    <3> QED
      BY <1>1, <2>1, <3>1, <3>2
  <2>5. Ownership'
    BY <1>1, <2>1, <2>2 DEF Tables, Ownership
  <2>6. RemovalPhase'
    BY <2>1 DEF RemovalPhase, Removing, At
  <2> QED
    BY <2>3, <2>4, <2>5, <2>6 DEF Tables, TableConsistent
<1> QED
  BY <1>3, <1>4, <1>5

LEMMA TablesStep == Shape /\ Tables /\ [Next]_vars => Tables'
<1> SUFFICES ASSUME Shape, Tables, [Next]_vars PROVE Tables'
  OBVIOUS
<1> USE NamesAssumption
<1>1. CASE UNCHANGED vars
  BY <1>1, TablesFrame DEF vars
<1>2. CASE PeerStep
  BY <1>2, PeerTables
<1>3. ASSUME NEW e \in batch, HandleAccept(e) PROVE Tables'
  BY <1>3, AcceptTables
<1>4. CASE RemoveObject \/ RemoveClose \/ RemoveFree \/ RemoveErase
  BY <1>4, RemoveObjectTables, RemoveRestTables
<1>5. CASE \/ EpollWait \/ BatchDone \/ EnterHandler \/ ReadData \/ ReadEof \/ ReadAgain
           \/ CommandsDone \/ CommandSend \/ CommandNotFound \/ Push(Worker) \/ Signal(Worker)
           \/ \E e \in batch : ProcessIo(e) \/ StartCommands(e)
  <2>1. UNCHANGED <<sockMap, obj, sock, interest, life>>
    BY <1>5
    DEF EpollWait, BatchDone, EnterHandler, ReadData, ReadEof, ReadAgain, CommandsDone,
        CommandSend, CommandNotFound, Push, Signal, ProcessIo, StartCommands, table, kernel
  <2>2. ~Removing /\ ~Removing'
    BY <1>5
    DEF EpollWait, BatchDone, EnterHandler, ReadData, ReadEof, ReadAgain, CommandsDone,
        CommandSend, CommandNotFound, Executing, Push, Signal, ProcessIo, StartCommands,
        Callback, Goto, At, Removing, Shape, TypeOK, Thread, thread
  <2> QED
    BY <2>1, <2>2, TablesFrame
<1>6. ASSUME NEW t \in App, AppCall(t) \/ AppStep(t) PROVE Tables'
  <2>1. UNCHANGED <<sockMap, obj, sock, interest, life>>
    BY <1>6
    DEF AppCall, AppStep, AppDisconnect, AppSend, SendAt, SendCheck, SendStore, Push, Signal,
        table, kernel
  <2>2. UNCHANGED <<pc[Worker], ptr[Worker], call[Worker]>>
    BY <1>6
    DEF AppCall, AppStep, AppDisconnect, AppSend, SendAt, SendCheck, SendStore, SendFails,
        Push, Signal, Goto, Shape, TypeOK, Thread
  <2> QED
    BY <2>1, <2>2, TablesFrame
<1> QED
  BY <1>1, <1>2, <1>3, <1>4, <1>5, <1>6 DEF Next, WorkerStep

LEMMA Invariance == Spec => []Inv
<1>1. Init => Inv
  BY ShapeInit, TablesInit DEF Inv
<1>2. Inv /\ [Next]_vars => Inv'
  BY ShapeStep, TablesStep DEF Inv
<1> QED
  BY <1>1, <1>2, PTL DEF Spec

\* The map, the objects, the epoll registrations and the open descriptors
\* agree in every reachable state, whatever the threads and peers do.
THEOREM TablesAgree == Spec => []TableConsistent
<1>1. Inv => TableConsistent
  BY DEF Inv, Tables
<1> QED
  BY <1>1, Invariance, PTL
----------------------------------------------------------------------------
(* The listener's callbacks.                                                *)

LEMMA CallbackStepHolds == Inv /\ [Next]_vars => [CallbackStep]_vars
<1> SUFFICES ASSUME Inv, Next PROVE CallbackStep
  BY DEF CallbackStep
<1> USE DEF Inv
<1>1. rx \in [Conn -> 0..MaxRx] /\ \A c \in Conn : ~(rx[c] < rx[c])
  BY NumbersAssumption DEF Shape, TypeOK
<1>2. CASE UNCHANGED <<rx, life>>
  BY <1>1, <1>2 DEF CallbackStep
<1>3. CASE PeerStep
  <2>1. PICK c \in Conn : PeerConnect(c) \/ PeerSend(c) \/ PeerClose(c)
    BY <1>3 DEF PeerStep
  <2>2. \A d \in Conn : ~(rx'[d] < rx[d])
    <3>1. CASE PeerSend(c)
      <4>1. rx' = [rx EXCEPT ![c] = @ + 1]
        BY <3>1 DEF PeerSend
      <4>2. ~(rx[c] + 1 < rx[c])
        BY <1>1
      <4> QED
        BY <1>1, <4>1, <4>2
    <3>2. CASE PeerConnect(c) \/ PeerClose(c)
      BY <1>1, <3>2 DEF PeerConnect, PeerClose, peer
    <3> QED
      BY <2>1, <3>1, <3>2
  <2>3. \A d \in Conn : life'[d] # life[d] => life[d] = "new" /\ life'[d] = "queued"
    BY <2>1 DEF PeerConnect, PeerSend, PeerClose, Shape, TypeOK
  <2> QED
    BY <2>2, <2>3 DEF CallbackStep
<1>4. ASSUME NEW e \in batch, HandleAccept(e) PROVE CallbackStep
  <2>1. UNCHANGED rx
    BY <1>4 DEF HandleAccept, peer
  <2>2. ASSUME NEW c \in Conn, NEW f \in Fd, life[c] = "queued", sock[f] = Nil,
               AcceptLeaked(c, f) \/ \E a \in Addr : Accepted(c, f, a)
        PROVE  CallbackStep
    <3>1. sockMap[f] = Nil
      BY <1>4, <2>2
      DEF HandleAccept, Tables, TableConsistent, EntryIsWatched, RemovingFd, Removing, At
    <3>2. life' = [life EXCEPT ![c] = "leaked"] \/ life' = [life EXCEPT ![c] = "connected"]
      BY <2>2, <3>1 DEF AcceptLeaked, Accepted
    <3> QED
      BY <1>1, <2>1, <2>2, <3>2 DEF CallbackStep, Shape, TypeOK
  <2>3. CASE AcceptNone
    BY <1>2, <2>1, <2>3 DEF AcceptNone
  <2> QED
    BY <1>4, <2>2, <2>3 DEF HandleAccept
<1>5. CASE ReadData
  <2> DEFINE f == obj[ptr[Worker]].fd
  <2>1. /\ At(Worker, "read") /\ rx' = [rx EXCEPT ![sock[f]] = @ - 1] /\ UNCHANGED life
    BY <1>5 DEF ReadData
  <2>2. ptr[Worker] \in Addr /\ f \in Fd /\ sockMap[f] = ptr[Worker] /\ ptr[Worker] # Nil
    BY <2>1, NamesAssumption
    DEF Shape, TypeOK, PtrHeld, ReadsValid, IsValid, At, SocketObject,
        Tables, TableConsistent, ObjectHasEntry
  <2>3. life[sock[f]] = "connected"
    BY <2>1, <2>2 DEF Tables, Ownership, RemovingFd, Removing, At
  <2> HIDE DEF f
  <2>4. \A d \in Conn : d # sock[f] => rx'[d] = rx[d]
    BY <1>1, <2>1
  <2> QED
    BY <1>1, <2>1, <2>3, <2>4 DEF CallbackStep
<1>6. CASE RemoveObject
  <2> DEFINE a == sockMap[Head(cmdQ).fd]
             f == obj[a].fd
  <2>1. /\ At(Worker, "command") /\ cmdQ # <<>> /\ IsValid(a) /\ UNCHANGED rx
        /\ life' = [c \in Conn |-> IF c = sock[f] THEN "gone" ELSE life[c]]
    BY <1>6 DEF RemoveObject, Executing, FindSocketObject, kernel
  <2>2. a \in Addr /\ f \in Fd /\ sockMap[f] = a /\ a # Nil
    <3>1. Head(cmdQ) \in Command
      BY <2>1 DEF Shape, TypeOK
    <3>2. a \in Addr
      BY <2>1, <3>1 DEF Shape, TypeOK, IsValid, Command
    <3> QED
      BY <2>1, <3>2
      DEF Shape, TypeOK, IsValid, SocketObject, Tables, TableConsistent, ObjectHasEntry
  <2>3. life[sock[f]] = "connected"
    BY <2>1, <2>2 DEF Tables, Ownership, RemovingFd, Removing, At
  <2> HIDE DEF a, f
  <2> QED
    BY <1>1, <2>1, <2>3 DEF CallbackStep
<1>7. CASE \/ EpollWait \/ BatchDone \/ EnterHandler \/ ReadEof \/ ReadAgain
           \/ CommandsDone \/ CommandSend \/ CommandNotFound
           \/ RemoveClose \/ RemoveFree \/ RemoveErase
           \/ \E e \in batch : ProcessIo(e) \/ StartCommands(e)
  BY <1>2, <1>7
  DEF EpollWait, BatchDone, EnterHandler, ReadEof, ReadAgain, CommandsDone, CommandSend,
      CommandNotFound, RemoveClose, RemoveFree, RemoveErase, ProcessIo, StartCommands,
      kernel, peer
<1>8. ASSUME NEW t \in Thread,
             Push(t) \/ Signal(t) \/ AppCall(t) \/ SendAt(t) \/ SendCheck(t) \/ SendStore(t)
      PROVE  CallbackStep
  BY <1>2, <1>8
  DEF Push, Signal, AppCall, AppDisconnect, AppSend, SendAt, SendCheck, SendStore, kernel, peer
<1> QED
  BY <1>3, <1>4, <1>5, <1>6, <1>7, <1>8 DEF Next, WorkerStep, AppStep, Thread

\* A connection hears OnConnect, DoRead and OnDisconnect in that order, the
\* first and the last at most once, in every execution.
THEOREM CallbacksInOrder == Spec => CallbackOrder
  BY Invariance, CallbackStepHolds, PTL DEF Spec, CallbackOrder
----------------------------------------------------------------------------
(* No command is left without a wakeup, as long as the queue fits the       *)
(* budget of one ProcessCommand.                                            *)

LEMMA WakeInit == Init => Wake
  BY DEF Init, Wake, NoLostWakeup, BudgetSuffices, BatchHandled, Thread

\* A step of the worker moves no other thread.
LEMMA WorkerMovesItself ==
  ASSUME Shape, WorkerStep, NEW t \in Thread, t # Worker
  PROVE  pc'[t] = pc[t]
<1>0. pc \in [Thread -> WorkerAt \cup AppAt]
  BY DEF Shape, TypeOK
<1>1. CASE \E e \in batch : ProcessIo(e) \/ StartCommands(e)
  BY <1>0, <1>1 DEF ProcessIo, StartCommands, Goto
<1>2. ASSUME NEW e \in batch, HandleAccept(e) PROVE pc'[t] = pc[t]
  BY <1>0, <1>2 DEF HandleAccept, AcceptNone, AcceptLeaked, Accepted, Callback, Goto
<1>3. CASE EpollWait \/ BatchDone \/ EnterHandler \/ ReadEof \/ ReadAgain
  BY <1>0, <1>3 DEF EpollWait, BatchDone, EnterHandler, ReadEof, ReadAgain, Goto
<1>4. CASE ReadData
  BY <1>0, <1>4 DEF ReadData, Callback, Goto
<1>5. CASE \/ CommandsDone \/ CommandSend \/ CommandNotFound \/ RemoveObject
           \/ RemoveClose \/ RemoveFree \/ RemoveErase
  BY <1>0, <1>5
  DEF CommandsDone, CommandSend, CommandNotFound, RemoveObject, RemoveClose, RemoveFree,
      RemoveErase, Goto, thread
<1>6. CASE Push(Worker) \/ Signal(Worker)
  BY <1>0, <1>6 DEF Push, Signal, Goto
<1> QED
  BY <1>1, <1>2, <1>3, <1>4, <1>5, <1>6 DEF WorkerStep

\* A wakeup to come survives every step but the one that handles it.
LEMMA WokenStays ==
  ASSUME Shape, BatchHandled, Woken, Next, ~\E e \in batch : StartCommands(e)
  PROVE  Woken'
<1> USE NamesAssumption
<1>1. CASE \E t \in Thread : At(t, "signal")
  <2>1. PICK t \in Thread : pc[t] = "signal"
    BY <1>1 DEF At
  <2>2. CASE Signal(t)
    BY <2>2 DEF Signal, Woken
  <2>3. CASE pc'[t] = "signal"
    BY <2>3 DEF Woken, At
  <2>4. CASE ~Signal(t)
    <3>1. CASE PeerStep
      BY <2>1, <2>3, <3>1 DEF PeerStep, PeerConnect, PeerSend, PeerClose, thread
    <3>2. CASE WorkerStep
      <4>1. CASE t = Worker
        <5>1. ~(EpollWait \/ BatchDone \/ EnterHandler \/ ReadData \/ ReadEof \/ ReadAgain)
          BY <2>1, <4>1 DEF EpollWait, BatchDone, EnterHandler, ReadData, ReadEof, ReadAgain, At
        <5>2. ~\E e \in batch : ProcessIo(e) \/ HandleAccept(e) \/ StartCommands(e)
          BY <2>1, <4>1 DEF ProcessIo, HandleAccept, StartCommands, At
        <5>3. ~(\/ CommandsDone \/ CommandSend \/ CommandNotFound \/ RemoveObject
                \/ RemoveClose \/ RemoveFree \/ RemoveErase \/ Push(Worker))
          BY <2>1, <4>1
          DEF CommandsDone, CommandSend, CommandNotFound, Executing, RemoveObject, RemoveClose,
              RemoveFree, RemoveErase, Push, At
        <5> QED
          BY <2>4, <3>2, <4>1, <5>1, <5>2, <5>3 DEF WorkerStep
      <4>2. CASE t # Worker
        <5>1. pc'[t] = pc[t]
          BY <3>2, <4>2, WorkerMovesItself
        <5> QED
          BY <2>1, <2>3, <5>1
      <4> QED
        BY <4>1, <4>2
    <3>3. ASSUME NEW u \in App, AppCall(u) \/ AppStep(u) PROVE pc'[t] = "signal"
      BY <2>1, <2>4, <3>3
      DEF AppCall, AppStep, AppDisconnect, AppSend, SendAt, SendCheck, SendStore, SendFails,
          Push, Signal, At, Goto, Shape, TypeOK, Thread
    <3> QED
      BY <2>3, <3>1, <3>2, <3>3 DEF Next
  <2> QED
    BY <2>2, <2>4
<1>2. CASE CmdEvt \in ready
  <2>1. CASE EpollWait
    <3>1. PICK S \in SUBSET ready : batch' = {Report(s) : s \in S} /\ ready' = ready \ S
      BY <2>1 DEF EpollWait
    <3>2. CASE CmdEvt \in S
      <4>1. Report(CmdEvt) \in batch' /\ Report(CmdEvt).ptr = CmdEvt
        BY <3>1, <3>2 DEF Report
      <4> QED
        BY <4>1 DEF Woken
    <3>3. CASE CmdEvt \notin S
      BY <1>2, <3>1, <3>3 DEF Woken
    <3> QED
      BY <3>2, <3>3
  <2>2. CASE ~EpollWait
    <3>1. CmdEvt \in ready'
      <4>1. CASE RemoveClose
        <5>1. call[Worker].fd \in Fd
          BY <4>1 DEF RemoveClose, Shape, CallHeld, Command, At, Thread
        <5> QED
          BY <1>2, <4>1, <5>1 DEF RemoveClose
      <4>2. CASE ready \subseteq ready'
        BY <1>2, <4>2
      <4>3. CASE PeerStep
        BY <4>2, <4>3 DEF PeerStep, PeerConnect, PeerSend, PeerClose
      <4>4. ASSUME NEW e \in batch, HandleAccept(e) PROVE ready \subseteq ready'
        BY <4>4 DEF HandleAccept, AcceptNone, AcceptLeaked, Accepted
      <4>5. CASE WorkerStep
        BY <2>2, <4>1, <4>2, <4>4, <4>5
        DEF WorkerStep, BatchDone, ProcessIo, StartCommands, EnterHandler, ReadData,
            ReadEof, ReadAgain, CommandsDone, CommandSend, CommandNotFound, RemoveObject,
            RemoveFree, RemoveErase, Push, Signal, kernel
      <4>6. ASSUME NEW u \in App, AppCall(u) \/ AppStep(u) PROVE ready \subseteq ready'
        BY <4>6
        DEF AppCall, AppStep, AppDisconnect, AppSend, SendAt, SendCheck, SendStore,
            Push, Signal, kernel
      <4> QED
        BY <4>2, <4>3, <4>5, <4>6 DEF Next
    <3> QED
      BY <3>1 DEF Woken
  <2> QED
    BY <2>1, <2>2
<1>3. CASE \E e \in batch : e.ptr = CmdEvt
  <2>1. PICK e \in batch : e.ptr = CmdEvt
    BY <1>3
  <2>2. e \in batch'
    <3>1. CASE PeerStep
      BY <2>1, <3>1 DEF PeerStep, PeerConnect, PeerSend, PeerClose, loop
    <3>2. CASE WorkerStep
      <4>1. CASE \E d \in batch : ProcessIo(d) \/ HandleAccept(d)
        BY <2>1, <4>1 DEF ProcessIo, HandleAccept, Shape, TypeOK
      <4>2. ~EpollWait /\ ~BatchDone
        BY <2>1 DEF EpollWait, BatchDone, BatchHandled, At
      <4>3. CASE UNCHANGED batch
        BY <2>1, <4>3
      <4> QED
        BY <3>2, <4>1, <4>2, <4>3
        DEF WorkerStep, EnterHandler, ReadData, ReadEof, ReadAgain, CommandsDone, CommandSend,
            CommandNotFound, RemoveObject, RemoveClose, RemoveFree, RemoveErase, Push, Signal,
            PopCommand, loop
    <3>3. ASSUME NEW u \in App, AppCall(u) \/ AppStep(u) PROVE batch' = batch
      BY <3>3
      DEF AppCall, AppStep, AppDisconnect, AppSend, SendAt, SendCheck, SendStore,
          Push, Signal, loop
    <3> QED
      BY <3>1, <3>2, <3>3 DEF Next
  <2> QED
    BY <2>1, <2>2 DEF Woken
<1> QED
  BY <1>1, <1>2, <1>3 DEF Woken
LEMMA WakeStep == Shape /\ QueueFits /\ Wake /\ [Next]_vars => Wake'
<1> SUFFICES ASSUME Shape, QueueFits, Wake, [Next]_vars PROVE Wake'
  OBVIOUS
<1> USE NamesAssumption, NumbersAssumption
<1> DEFINE InCommands == pc[Worker] \in {"command", "close", "free", "erase"}
<1>0. /\ cmdQ \in Seq(Command) /\ Len(cmdQ) \in Nat /\ left \in Nat
      /\ pc \in [Thread -> WorkerAt \cup AppAt] /\ Worker \in Thread
  BY DEF Shape, TypeOK, Thread
<1>1. CASE UNCHANGED vars
  BY <1>1 DEF Wake, NoLostWakeup, BudgetSuffices, BatchHandled, Woken, At, vars
<1>2. BatchHandled'
  <2>1. SUFFICES ASSUME Next, At(Worker, "wait")' PROVE batch' = {}
    BY <1>1 DEF Wake, BatchHandled
  <2>2. CASE PeerStep
    BY <2>1, <2>2
    DEF PeerStep, PeerConnect, PeerSend, PeerClose, loop, thread, Wake, BatchHandled, At
  <2>3. CASE BatchDone
    BY <2>3 DEF BatchDone, loop
  <2>4. ASSUME NEW t \in App, AppCall(t) \/ AppStep(t) PROVE batch' = {}
    BY <2>1, <2>4
    DEF AppCall, AppStep, AppDisconnect, AppSend, SendAt, SendCheck, SendStore, SendFails,
        Push, Signal, At, Goto, Shape, TypeOK, Thread, loop, Wake, BatchHandled
  <2>5. CASE WorkerStep /\ ~BatchDone
    <3>1. ASSUME NEW e \in batch, ProcessIo(e) \/ HandleAccept(e) \/ StartCommands(e)
          PROVE  pc'[Worker] # "wait"
      BY <1>0, <3>1
      DEF ProcessIo, HandleAccept, AcceptNone, AcceptLeaked, Accepted, Callback,
          StartCommands, Goto
    <3>2. CASE EpollWait \/ EnterHandler \/ ReadData \/ ReadEof \/ ReadAgain
      BY <1>0, <2>1, <3>2
      DEF EpollWait, EnterHandler, ReadData, ReadEof, ReadAgain, Callback, Goto, At
    <3>3. CASE \/ CommandsDone \/ CommandSend \/ CommandNotFound \/ RemoveObject
               \/ RemoveClose \/ RemoveFree \/ RemoveErase
      BY <1>0, <2>1, <3>3
      DEF CommandsDone, CommandSend, CommandNotFound, Executing, RemoveObject, RemoveClose,
          RemoveFree, RemoveErase, Goto, At, thread
    <3>4. CASE Push(Worker) \/ Signal(Worker)
      BY <1>0, <2>1, <3>4 DEF Push, Signal, Goto, At, Shape, TypeOK
    <3> QED
      BY <2>1, <2>5, <3>1, <3>2, <3>3, <3>4 DEF WorkerStep, At
  <2> QED
    BY <2>1, <2>2, <2>3, <2>4, <2>5 DEF Next
<1>3. ASSUME NEW e \in batch, StartCommands(e) PROVE (NoLostWakeup /\ BudgetSuffices)'
  <2>1. pc'[Worker] = "command" /\ left' = CmdBudget /\ cmdQ' = cmdQ
    BY <1>0, <1>3 DEF StartCommands, Goto
  <2> QED
    BY <2>1 DEF NoLostWakeup, BudgetSuffices, QueueFits
<1>4. CASE Woken /\ Next /\ ~\E e \in batch : StartCommands(e)
  <2>1. Woken'
    BY <1>4, WokenStays DEF Wake
  <2> QED
    BY <1>2, <2>1 DEF Wake, NoLostWakeup, BudgetSuffices
<1>5. CASE ~Woken /\ Next /\ ~\E e \in batch : StartCommands(e)
  <2>1. (InCommands => Len(cmdQ) =< left) /\ (~InCommands => cmdQ = <<>>)
    BY <1>5 DEF Wake, NoLostWakeup, BudgetSuffices
  <2>2. ASSUME NEW t \in Thread, Push(t) PROVE Wake'
    <3>1. Woken'
      BY <1>0, <2>2 DEF Push, Goto, Woken, At
    <3> QED
      BY <1>2, <3>1 DEF Wake, NoLostWakeup, BudgetSuffices
  <2>3. ASSUME NEW t \in Thread PROVE ~Signal(t)
    BY <1>5 DEF Woken, Signal
  <2>4. CASE CommandsDone
    <3>1. cmdQ = <<>>
      BY <1>0, <2>1, <2>4 DEF CommandsDone, Exhausted, At
    <3> QED
      BY <1>0, <1>2, <2>4, <3>1 DEF CommandsDone, Goto, Wake, NoLostWakeup, BudgetSuffices
  <2>5. CASE CommandSend \/ CommandNotFound \/ RemoveErase
    <3>1. /\ InCommands /\ cmdQ # <<>> /\ left # 0 /\ pc'[Worker] = "command"
          /\ cmdQ' = Tail(cmdQ) /\ left' = left - 1
      BY <1>0, <2>5
      DEF CommandSend, CommandNotFound, RemoveErase, Executing, Exhausted, PopCommand, Goto,
          At, thread, Shape, HeadHeld, Removing
    <3>2. Len(cmdQ') = Len(cmdQ) - 1
      BY <1>0, <3>1
    <3>3. Len(cmdQ') =< left'
      BY <1>0, <2>1, <3>1, <3>2
    <3> QED
      BY <1>2, <3>1, <3>3 DEF Wake, NoLostWakeup, BudgetSuffices
  <2>6. CASE RemoveObject \/ RemoveClose \/ RemoveFree
    <3>1. InCommands /\ pc'[Worker] \in {"close", "free", "erase"} /\ UNCHANGED <<cmdQ, left>>
      BY <1>0, <2>6
      DEF RemoveObject, RemoveClose, RemoveFree, Executing, Goto, At, loop
    <3> QED
      BY <1>2, <2>1, <3>1 DEF Wake, NoLostWakeup, BudgetSuffices
  <2>7. CASE /\ UNCHANGED <<cmdQ, left>>
             /\ InCommands' = InCommands
    BY <1>2, <2>1, <2>7 DEF Wake, NoLostWakeup, BudgetSuffices
  <2>8. CASE PeerStep
    BY <2>7, <2>8 DEF PeerStep, PeerConnect, PeerSend, PeerClose, loop, thread
  <2>9. ASSUME NEW t \in App, AppCall(t) \/ SendAt(t) \/ SendCheck(t) \/ SendStore(t)
        PROVE  UNCHANGED <<cmdQ, left, pc[Worker]>>
    BY <1>0, <2>9
    DEF AppCall, AppDisconnect, AppSend, SendAt, SendCheck, SendStore, SendFails, Goto,
        Thread, loop
  <2>10. ASSUME NEW e \in batch, ProcessIo(e) \/ HandleAccept(e)
         PROVE  Wake'
    <3>1. UNCHANGED <<cmdQ, left>> /\ ~InCommands /\ ~InCommands'
      BY <1>0, <2>10
      DEF ProcessIo, HandleAccept, AcceptNone, AcceptLeaked, Accepted, Callback, Goto, At
    <3> QED
      BY <2>7, <3>1
  <2>11. CASE EpollWait \/ BatchDone \/ EnterHandler \/ ReadData \/ ReadEof \/ ReadAgain
    <3>1. UNCHANGED <<cmdQ, left>> /\ ~InCommands /\ ~InCommands'
      BY <1>0, <2>11
      DEF EpollWait, BatchDone, EnterHandler, ReadData, ReadEof, ReadAgain, Callback, Goto,
          At, loop
    <3> QED
      BY <2>7, <3>1
  <2>12. Worker \in Thread /\ App \subseteq Thread
    BY DEF Thread
  <2>13. CASE PeerStep \/ WorkerStep
    <3> HIDE DEF InCommands
    <3>1. ~\E e \in batch : StartCommands(e)
      BY <1>5
    <3> QED
      BY <2>2, <2>3, <2>4, <2>5, <2>6, <2>8, <2>10, <2>11, <2>12, <2>13, <3>1 DEF WorkerStep
  <2>14. ASSUME NEW t \in App, AppCall(t) \/ AppStep(t) PROVE Wake'
    BY <1>2, <2>2, <2>3, <2>7, <2>9, <2>12, <2>14
    DEF AppStep, Wake, NoLostWakeup, BudgetSuffices
  <2> QED
    BY <1>5, <2>13, <2>14 DEF Next
<1> QED
  BY <1>1, <1>2, <1>3, <1>4, <1>5 DEF Wake

\* While the queue never holds more than CmdBudget commands, every command
\* queued outside ProcessCommand has a wakeup to come.  Without the premise it
\* is false: run sm_budget.
THEOREM WakeupsKept == Spec /\ []QueueFits => []NoLostWakeup
<1>1. Shape /\ Wake => NoLostWakeup
  BY DEF Wake
<1>2. Init => Shape /\ Wake
  BY ShapeInit, WakeInit
<1>3. Shape /\ Wake /\ QueueFits /\ [Next]_vars => (Shape /\ Wake)'
  BY ShapeStep, WakeStep
<1> QED
  BY <1>1, <1>2, <1>3, PTL DEF Spec
----------------------------------------------------------------------------
(* ProcessCommand removes the connection a command was issued for, as long  *)
(* as only the worker's own calls issue DISCONNECT.                         *)

\* The variables Own speaks of, for an application thread's step.
LEMMA AppLeaves ==
  ASSUME Shape, NEW t \in App, AppCall(t) \/ AppStep(t)
  PROVE  /\ pc'[Worker] = pc[Worker] /\ call'[Worker] = call[Worker]
         /\ UNCHANGED <<sock, left, sockMap, obj>>
         /\ \A u \in App \ {t} : call'[u] = call[u]
<1>0. t \in Thread /\ Worker \in Thread /\ t # Worker /\ \A u \in App : u \in Thread
  BY NamesAssumption DEF Thread
<1>1. /\ pc \in [Thread -> WorkerAt \cup AppAt]
      /\ call \in [Thread -> Command \cup {Nil}]
  BY DEF Shape, TypeOK
<1>2. CASE AppCall(t)
  BY <1>0, <1>1, <1>2 DEF AppCall, AppDisconnect, AppSend, Goto, table, loop, kernel
<1>3. CASE Push(t) \/ Signal(t)
  BY <1>0, <1>1, <1>3 DEF Push, Signal, Goto, table, loop, kernel
<1>4. CASE SendAt(t)
  BY <1>0, <1>1, <1>4 DEF SendAt, Goto, table, loop, kernel
<1>5. CASE SendCheck(t) \/ SendStore(t)
  BY <1>0, <1>1, <1>5 DEF SendCheck, SendStore, SendFails, Goto, table, loop, kernel
<1> QED
  BY <1>2, <1>3, <1>4, <1>5 DEF AppStep

\* A descriptor whose object is being read is open.
LEMMA ReadIsOpen ==
  ASSUME Inv, At(Worker, "read")
  PROVE  obj[ptr[Worker]].fd \in Fd /\ sock[obj[ptr[Worker]].fd] # Nil
<1> DEFINE a == ptr[Worker]
<1>1. a \in Addr /\ IsValid(a) /\ ~Removing
  BY DEF Inv, Shape, PtrHeld, ReadsValid, At, Removing
<1>2. obj[a] # Nil /\ obj[a].fd \in Fd
  BY <1>1 DEF IsValid, Inv, Shape, TypeOK, SocketObject
<1>3. sockMap[obj[a].fd] = a /\ a # Nil
  BY <1>1, <1>2 DEF Inv, Tables, TableConsistent, ObjectHasEntry, IsValid
<1> QED
  BY <1>1, <1>2, <1>3 DEF Inv, Tables, TableConsistent, EntryIsWatched, RemovingFd

\* The queue holds commands, each for a descriptor number.
LEMMA QueueTyped ==
  ASSUME Shape
  PROVE  /\ cmdQ \in Seq(Command)
         /\ \A i \in DOMAIN cmdQ : cmdQ[i] \in Command /\ cmdQ[i].fd \in Fd
<1>1. cmdQ \in Seq(Command) /\ \A i \in DOMAIN cmdQ : cmdQ[i] \in Command
  BY DEF Shape, TypeOK
<1>2. \A c \in Command : c.fd \in Fd
  BY DEF Command
<1> QED
  BY <1>1, <1>2

\* A step that leaves queue, calls and descriptors alone keeps Own, if it
\* does not begin ProcessCommand or a push, nor leaves DISCONNECTs behind.
LEMMA OwnFrame ==
  ASSUME Own, UNCHANGED <<cmdQ, call, sock>>,
         Processing' => Processing /\ left' = left,
         Processing => Processing' \/ \A i \in DOMAIN cmdQ : cmdQ[i].op # "disconnect",
         At(Worker, "push")' => At(Worker, "push"),
         At(Worker, "close")' => At(Worker, "close")
  PROVE  Own'
<1>1. IssuedCurrent'
  BY DEF Own, IssuedCurrent, Current
<1>2. QueuedCurrent'
  BY DEF Own, QueuedCurrent, Current
<1>3. InBudget'
  BY DEF Own, InBudget
<1>4. RemovalMatches'
  BY DEF Own, RemovalMatches
<1> QED
  BY <1>1, <1>2, <1>3, <1>4 DEF Own

\* A step that issues a command on the worker, or opens a descriptor, or both.
LEMMA OwnIssues ==
  ASSUME Shape, Own, ~Processing, ~Processing', UNCHANGED cmdQ,
         \A f \in Fd : sock[f] # Nil => sock'[f] = sock[f],
         \A t \in App : call'[t] = call[t],
         At(Worker, "push")' => call'[Worker] \in Command /\ Current(call[Worker])'
  PROVE  Own'
<1>0. cmdQ \in Seq(Command) /\ \A i \in DOMAIN cmdQ : cmdQ[i].fd \in Fd
  BY QueueTyped
<1>1. IssuedCurrent'
  BY DEF Own, IssuedCurrent, Current
<1>2. QueuedCurrent'
  BY <1>0 DEF Own, QueuedCurrent, Current
<1>3. InBudget'
  BY DEF Own, InBudget
<1>4. RemovalMatches'
  BY DEF RemovalMatches, Processing, At
<1> QED
  BY <1>1, <1>2, <1>3, <1>4 DEF Own

\* A step that pops the head inside ProcessCommand.
LEMMA OwnPops ==
  ASSUME Shape, Own, PopCommand, cmdQ # <<>>, Processing, pc'[Worker] = "command",
         UNCHANGED sock, \A t \in App : call'[t] = call[t]
  PROVE  Own'
<1>0. cmdQ \in Seq(Command) /\ left \in Nat /\ cmdQ' = Tail(cmdQ) /\ left' = left - 1
  BY DEF Shape, TypeOK, PopCommand
<1>1. \A i \in DOMAIN cmdQ' : i \in Nat /\ i + 1 \in DOMAIN cmdQ /\ cmdQ'[i] = cmdQ[i + 1]
  BY <1>0
<1>2. Processing' /\ ~At(Worker, "push")' /\ ~At(Worker, "close")'
  BY DEF Processing, At
<1>3. IssuedCurrent'
  BY <1>2 DEF Own, IssuedCurrent
<1>4. QueuedCurrent'
  BY <1>1, <1>2 DEF Own, QueuedCurrent, Current
<1>5. InBudget'
  <2>1. ASSUME NEW i \in DOMAIN cmdQ', cmdQ'[i].op = "disconnect" PROVE i =< left'
    <3>1. i + 1 =< left /\ i \in Nat
      BY <1>1, <2>1 DEF Own, InBudget
    <3> QED
      BY <1>0, <3>1
  <2> QED
    BY <2>1 DEF InBudget
<1> QED
  BY <1>2, <1>3, <1>4, <1>5 DEF Own, RemovalMatches

\* A push: of an application's SEND at any time, of the worker's own command
\* outside ProcessCommand.
LEMMA OwnPush ==
  ASSUME Shape, Own, NEW t \in Thread, Push(t), pc'[Worker] = pc[Worker] \/ t = Worker
  PROVE  Own'
<1>0. /\ cmdQ \in Seq(Command) /\ Len(cmdQ) \in Nat
      /\ call[t] \in Command /\ call[t] # Nil
      /\ pc[t] = "push" /\ UNCHANGED <<call, sock, left>>
  BY NilAssumption DEF Shape, TypeOK, CallHeld, Push, At, loop, kernel
<1>1. Processing' = Processing /\ (t = Worker => ~Processing)
  <2>1. CASE t = Worker
    <3>1. pc'[Worker] = "signal"
      BY <2>1 DEF Push, Goto, Shape, TypeOK, Thread
    <3> QED
      BY <1>0, <2>1, <3>1 DEF Processing
  <2>2. CASE t # Worker
    BY <2>2 DEF Processing
  <2> QED
    BY <2>1, <2>2
<1>2. /\ At(Worker, "push")' => At(Worker, "push")
      /\ At(Worker, "close")' => At(Worker, "close")
  <2>1. pc'[Worker] \in {pc[Worker], "signal"}
    BY DEF Push, Goto, Shape, TypeOK, Thread
  <2> QED
    BY <2>1 DEF At
<1>3. CASE UNCHANGED cmdQ
  <2>1. Processing' => Processing /\ left' = left
    BY <1>0, <1>1
  <2> QED
    BY <1>0, <1>1, <1>2, <1>3, <2>1, OwnFrame
<1>4. CASE cmdQ' = Append(cmdQ, call[t])
  <2>1. \A i \in DOMAIN cmdQ' :
          \/ i \in DOMAIN cmdQ /\ cmdQ'[i] = cmdQ[i]
          \/ cmdQ'[i] = call[t]
    BY <1>0, <1>4
  <2>2. call[t].op = "disconnect" => t = Worker /\ Current(call[t])
    BY <1>0 DEF Own, IssuedCurrent, Thread, At
  <2>3. IssuedCurrent'
    BY <1>0, <1>2 DEF Own, IssuedCurrent, Current
  <2>4. QueuedCurrent'
    BY <1>0, <1>1, <2>1, <2>2 DEF Own, QueuedCurrent, Current
  <2>5. InBudget'
    BY <1>0, <1>1, <2>1, <2>2 DEF Own, InBudget
  <2>6. RemovalMatches'
    BY <1>0, <1>2 DEF Own, RemovalMatches
  <2> QED
    BY <2>3, <2>4, <2>5, <2>6 DEF Own
<1> QED
  BY <1>3, <1>4 DEF Push

\* The removal finds on the descriptor of a DISCONNECT the connection the
\* command names.
LEMMA OwnRemoved ==
  ASSUME Inv, Own, RemoveObject PROVE Own'
<1> DEFINE a == sockMap[Head(cmdQ).fd]
           h == Head(cmdQ)
<1>1. /\ pc[Worker] = "command" /\ cmdQ # <<>> /\ h.op = "disconnect" /\ IsValid(a)
      /\ call' = [call EXCEPT ![Worker] = [h EXCEPT !.fd = obj[a].fd]]
      /\ pc' = [pc EXCEPT ![Worker] = "close"]
      /\ UNCHANGED <<cmdQ, sock, left>>
  BY DEF RemoveObject, Executing, FindSocketObject, kernel, loop, At, Goto
<1>2. /\ h \in Command /\ 1 \in DOMAIN cmdQ /\ cmdQ[1] = h /\ h.fd \in Fd
      /\ Worker \in Thread /\ Worker \notin App /\ \A t \in App : t \in Thread
      /\ pc \in [Thread -> WorkerAt \cup AppAt] /\ call \in [Thread -> Command \cup {Nil}]
  <2>1. h = cmdQ[1] /\ 1 \in DOMAIN cmdQ
    BY <1>1, QueueTyped DEF Inv
  <2>2. h \in Command /\ h.fd \in Fd
    BY <2>1, QueueTyped DEF Inv
  <2> QED
    BY <2>1, <2>2, NamesAssumption DEF Inv, Shape, TypeOK, Thread
<1>3. /\ a # Nil /\ ~Removing
  BY <1>1 DEF IsValid, Removing
<1>4. obj[a].fd = h.fd /\ sock[h.fd] # Nil
  BY <1>2, <1>3
  DEF Inv, Tables, TableConsistent, EntryHasObject, EntryIsWatched, RemovingFd
<1>5. Current(h)
  BY <1>1, <1>2, <1>4 DEF Own, QueuedCurrent
<1>6. pc'[Worker] = "close" /\ call'[Worker] = h /\ \A t \in App : call'[t] = call[t]
  <2>1. [h EXCEPT !.fd = obj[a].fd] = h
    BY <1>2, <1>4 DEF Command
  <2> QED
    BY <1>1, <1>2, <2>1 DEF Thread
<1> HIDE DEF a, h
<1>7. Processing /\ Processing' /\ ~At(Worker, "push")'
  BY <1>1, <1>6 DEF Processing, At
<1>8. IssuedCurrent'
  BY <1>6, <1>7 DEF Own, IssuedCurrent
<1>9. QueuedCurrent' /\ InBudget'
  BY <1>1, <1>7 DEF Own, QueuedCurrent, InBudget, Current
<1>10. RemovalMatches'
  BY <1>1, <1>5, <1>6 DEF RemovalMatches, Current
<1> QED
  BY <1>8, <1>9, <1>10 DEF Own

\* The rest of ProcessCommand.
LEMMA OwnCommands ==
  ASSUME Inv, Own, QueueFits,
         \/ CommandsDone \/ CommandSend \/ CommandNotFound \/ RemoveClose \/ RemoveFree
         \/ RemoveErase \/ \E e \in batch : StartCommands(e)
  PROVE  Own'
<1>0. /\ Worker \in Thread /\ Worker \notin App /\ \A t \in App : t \in Thread
      /\ pc \in [Thread -> WorkerAt \cup AppAt] /\ call \in [Thread -> Command \cup {Nil}]
      /\ cmdQ \in Seq(Command) /\ left \in Nat /\ Shape
  BY NamesAssumption DEF Inv, Shape, TypeOK, Thread
<1>1. ASSUME NEW e \in batch, StartCommands(e) PROVE Own'
  <2>1. /\ pc[Worker] = "loop" /\ pc'[Worker] = "command" /\ left' = CmdBudget
        /\ UNCHANGED <<cmdQ, call, sock>>
    BY <1>0, <1>1 DEF StartCommands, At, Goto, kernel
  <2>2. Processing' /\ ~At(Worker, "push")' /\ ~At(Worker, "close")'
    BY <2>1 DEF Processing, At
  <2>3. InBudget'
    <3>1. \A i \in DOMAIN cmdQ : i =< CmdBudget
      BY <1>0, NumbersAssumption DEF QueueFits
    <3> QED
      BY <2>1, <3>1 DEF InBudget
  <2>4. IssuedCurrent' /\ QueuedCurrent'
    BY <2>1, <2>2 DEF Own, IssuedCurrent, QueuedCurrent, Current, Processing
  <2> QED
    BY <2>2, <2>3, <2>4 DEF Own, RemovalMatches
<1>2. CASE CommandsDone
  <2>1. /\ pc[Worker] = "command" /\ pc'[Worker] = "loop" /\ (cmdQ = <<>> \/ left = 0)
        /\ UNCHANGED <<cmdQ, call, sock>>
    BY <1>0, <1>2 DEF CommandsDone, Exhausted, At, Goto, kernel
  <2>2. \A i \in DOMAIN cmdQ : cmdQ[i].op # "disconnect"
    <3>1. ASSUME NEW i \in DOMAIN cmdQ, cmdQ[i].op = "disconnect" PROVE FALSE
      <4>1. i =< left /\ i \in Nat \ {0}
        BY <1>0, <2>1, <3>1 DEF Own, InBudget, Processing
      <4> QED
        BY <1>0, <2>1, <4>1
    <3> QED
      BY <3>1
  <2> QED
    BY <2>1, <2>2, OwnFrame DEF Processing, At
<1>3. CASE CommandSend \/ CommandNotFound
  <2>1. /\ PopCommand /\ cmdQ # <<>> /\ pc[Worker] = "command" /\ pc'[Worker] = "command"
        /\ UNCHANGED <<call, sock>>
    BY <1>3 DEF CommandSend, CommandNotFound, Executing, At, thread, kernel
  <2> QED
    BY <1>0, <2>1, OwnPops DEF Processing
<1>4. CASE RemoveErase
  <2>1. /\ PopCommand /\ pc[Worker] = "erase" /\ pc'[Worker] = "command" /\ UNCHANGED sock
        /\ \A t \in App : call'[t] = call[t]
    BY <1>0, <1>4 DEF RemoveErase, At, Goto, kernel
  <2>2. cmdQ # <<>>
    BY <1>0, <2>1 DEF Shape, HeadHeld, Removing
  <2> QED
    BY <1>0, <2>1, <2>2, OwnPops DEF Processing
<1>5. CASE RemoveFree
  <2>1. /\ pc[Worker] = "free" /\ pc'[Worker] = "erase" /\ UNCHANGED <<cmdQ, call, sock, left>>
    BY <1>0, <1>5 DEF RemoveFree, At, Goto, kernel, loop
  <2> QED
    BY <2>1, OwnFrame DEF Processing, At
<1>6. CASE RemoveClose
  <2>1. /\ pc[Worker] = "close" /\ pc'[Worker] = "free" /\ UNCHANGED <<cmdQ, call, left>>
        /\ \A f \in Fd : sock'[f] \in {sock[f], Nil}
    BY <1>0, <1>6 DEF RemoveClose, At, Goto, loop, Inv, Shape, TypeOK
  <2>2. Processing /\ Processing' /\ ~At(Worker, "push")' /\ ~At(Worker, "close")'
    BY <2>1 DEF Processing, At
  <2>3. IssuedCurrent' /\ InBudget'
    BY <2>1, <2>2 DEF Own, IssuedCurrent, InBudget
  <2>4. QueuedCurrent'
    <3>1. \A i \in DOMAIN cmdQ : cmdQ[i].fd \in Fd
      BY <1>0, QueueTyped
    <3> QED
      BY <2>1, <2>2, <3>1 DEF Own, QueuedCurrent, Current
  <2> QED
    BY <2>2, <2>3, <2>4 DEF Own, RemovalMatches
<1> QED
  BY <1>1, <1>2, <1>3, <1>4, <1>5, <1>6

\* The steps of the worker outside ProcessCommand.
LEMMA OwnLoop ==
  ASSUME Inv, Own,
         \/ EpollWait \/ BatchDone \/ \E e \in batch : ProcessIo(e) \/ HandleAccept(e)
         \/ EnterHandler \/ ReadData \/ ReadEof \/ ReadAgain \/ Signal(Worker)
  PROVE  Own'
<1>0. /\ Worker \in Thread /\ Worker \notin App /\ \A t \in App : t \in Thread
      /\ pc \in [Thread -> WorkerAt \cup AppAt] /\ call \in [Thread -> Command \cup {Nil}]
      /\ sock \in [Fd -> Conn \cup {Nil}] /\ back \in {"loop", "read"} /\ Shape
  BY NamesAssumption DEF Inv, Shape, TypeOK, Thread
<1>1. CASE EpollWait \/ BatchDone \/ \E e \in batch : ProcessIo(e)
  <2>1. /\ pc[Worker] \in {"wait", "loop"} /\ pc'[Worker] \in {"loop", "wait", "receive", "write"}
        /\ UNCHANGED <<cmdQ, call, sock>>
    BY <1>0, <1>1 DEF EpollWait, BatchDone, ProcessIo, At, Goto, kernel
  <2> QED
    BY <2>1, OwnFrame DEF Processing, At
<1>2. CASE EnterHandler
  <2>1. /\ pc[Worker] \in {"receive", "write"} /\ UNCHANGED <<cmdQ, call, sock>>
        /\ pc' = pc \/ pc'[Worker] \in {"read", "loop"}
    BY <1>0, <1>2 DEF EnterHandler, At, Goto, kernel
  <2> QED
    BY <2>1, OwnFrame DEF Processing, At
<1>3. CASE ReadAgain
  <2>1. pc[Worker] = "read" /\ pc'[Worker] = "loop" /\ UNCHANGED <<cmdQ, call, sock>>
    BY <1>0, <1>3 DEF ReadAgain, At, Goto, kernel
  <2> QED
    BY <2>1, OwnFrame DEF Processing, At
<1>4. CASE ReadEof
  <2> DEFINE f == obj[ptr[Worker]].fd
  <2>1. /\ pc[Worker] = "read" /\ pc'[Worker] = "push" /\ UNCHANGED <<cmdQ, sock>>
        /\ call' = [call EXCEPT ![Worker] = CommandFor("disconnect", f)]
    BY <1>0, <1>4 DEF ReadEof, At, Goto, kernel
  <2>2. f \in Fd /\ sock[f] # Nil
    BY <2>1, ReadIsOpen DEF At
  <2>3. CommandFor("disconnect", f) \in Command /\ Current(CommandFor("disconnect", f))
    BY <1>0, <2>2 DEF CommandFor, Command, Current
  <2>4. call'[Worker] \in Command /\ Current(call[Worker])'
    BY <1>0, <2>1, <2>3 DEF Current
  <2> QED
    BY <1>0, <2>1, <2>4, OwnIssues DEF Processing
<1>5. CASE ReadData
  <2> DEFINE f == obj[ptr[Worker]].fd
  <2>1. pc[Worker] = "read" /\ UNCHANGED <<cmdQ, sock>> /\ Callback(f, "read")
    BY <1>5 DEF ReadData, At
  <2>2. f \in Fd /\ sock[f] # Nil
    BY <2>1, ReadIsOpen DEF At
  <2> HIDE DEF f
  <2>3. CASE Goto(Worker, "read") /\ UNCHANGED call
    BY <1>0, <2>1, <2>3, OwnFrame DEF Goto, Processing, At
  <2>4. CASE /\ Goto(Worker, "push")
             /\ \E o \in CallbackOps :
                  call' = [call EXCEPT ![Worker] = [op |-> o, fd |-> f, conn |-> sock'[f]]]
    <3>1. PICK o \in CallbackOps :
            call' = [call EXCEPT ![Worker] = [op |-> o, fd |-> f, conn |-> sock'[f]]]
      BY <2>4
    <3>2. [op |-> o, fd |-> f, conn |-> sock'[f]] \in Command
      BY <1>0, <2>1, <2>2, CallbackAssumption DEF Command
    <3>3. call'[Worker] = [op |-> o, fd |-> f, conn |-> sock'[f]]
      BY <1>0, <3>1
    <3>4. call'[Worker] \in Command /\ Current(call[Worker])'
      BY <2>1, <2>2, <3>2, <3>3 DEF Current
    <3>5. pc'[Worker] = "push" /\ \A t \in App : call'[t] = call[t]
      BY <1>0, <2>4, <3>1 DEF Goto
    <3> QED
      BY <1>0, <2>1, <3>4, <3>5, OwnIssues DEF Processing
  <2> QED
    BY <2>1, <2>3, <2>4 DEF Callback
<1>6. ASSUME NEW e \in batch, HandleAccept(e) PROVE Own'
  <2>1. pc[Worker] = "loop" /\ UNCHANGED cmdQ
    BY <1>6 DEF HandleAccept, At
  <2>2. CASE pc'[Worker] = "loop" /\ UNCHANGED <<call, sock>>
    BY <2>1, <2>2, OwnFrame DEF Processing, At
  <2>3. ASSUME NEW c \in Conn, NEW f \in Fd, sock[f] = Nil, sock' = [sock EXCEPT ![f] = c],
               (Goto(Worker, "loop") /\ UNCHANGED call) \/ Callback(f, "loop")
        PROVE  Own'
    <3>1. /\ \A g \in Fd : sock[g] # Nil => sock'[g] = sock[g]
          /\ sock'[f] = c /\ c # Nil /\ c \in Conn
      BY <1>0, <2>3, NamesAssumption
    <3>2. CASE Goto(Worker, "loop") /\ UNCHANGED call
      <4>1. pc'[Worker] = "loop"
        BY <1>0, <3>2 DEF Goto
      <4> QED
        BY <1>0, <2>1, <3>1, <3>2, <4>1, OwnIssues DEF Processing, At
    <3>3. CASE /\ Goto(Worker, "push")
               /\ \E o \in CallbackOps :
                    call' = [call EXCEPT ![Worker] = [op |-> o, fd |-> f, conn |-> sock'[f]]]
      <4>1. PICK o \in CallbackOps :
              call' = [call EXCEPT ![Worker] = [op |-> o, fd |-> f, conn |-> sock'[f]]]
        BY <3>3
      <4>2. [op |-> o, fd |-> f, conn |-> sock'[f]] \in Command
        BY <3>1, CallbackAssumption DEF Command
      <4>3. call'[Worker] = [op |-> o, fd |-> f, conn |-> sock'[f]]
        BY <1>0, <4>1
      <4>4. call'[Worker] \in Command /\ Current(call[Worker])'
        BY <3>1, <4>2, <4>3 DEF Current
      <4>5. pc'[Worker] = "push" /\ \A t \in App : call'[t] = call[t]
        BY <1>0, <3>3, <4>1 DEF Goto
      <4> QED
        BY <1>0, <2>1, <3>1, <4>4, <4>5, OwnIssues DEF Processing
    <3> QED
      BY <2>3, <3>2, <3>3 DEF Callback
  <2>4. CASE AcceptNone
    BY <1>0, <2>2, <2>4 DEF AcceptNone, Goto
  <2>5. ASSUME NEW c \in Conn, NEW f \in Fd, sock[f] = Nil, AcceptLeaked(c, f) PROVE Own'
    BY <2>3, <2>5 DEF AcceptLeaked
  <2>6. ASSUME NEW c \in Conn, NEW f \in Fd, NEW a \in Addr, sock[f] = Nil, Accepted(c, f, a)
        PROVE  Own'
    <3>1. CASE sockMap[f] # Nil
      BY <1>0, <2>2, <2>6, <3>1 DEF Accepted, Goto
    <3>2. CASE sockMap[f] = Nil
      BY <2>3, <2>6, <3>2 DEF Accepted
    <3> QED
      BY <3>1, <3>2
  <2> QED
    BY <1>6, <2>4, <2>5, <2>6 DEF HandleAccept
<1>7. CASE Signal(Worker)
  <2>1. /\ pc[Worker] = "signal" /\ pc'[Worker] \in {"loop", "read"} /\ UNCHANGED <<cmdQ, sock>>
        /\ \A t \in App : call'[t] = call[t]
    BY <1>0, <1>7 DEF Signal, At, Goto
  <2> QED
    BY <1>0, <2>1, OwnIssues DEF Processing, At
<1> QED
  BY <1>1, <1>2, <1>3, <1>4, <1>5, <1>6, <1>7

\* Every step keeps Own, unless an application calls Disconnect.
LEMMA OwnStep ==
  Inv /\ Own /\ QueueFits /\ [Next]_vars /\ [NoAppDisconnect]_vars => Own'
<1> SUFFICES ASSUME Inv, Own, QueueFits, [Next]_vars, [NoAppDisconnect]_vars PROVE Own'
  OBVIOUS
<1>0. Worker \in Thread /\ \A t \in App : t \in Thread /\ t # Worker
  BY NamesAssumption DEF Thread
<1>1. CASE UNCHANGED vars
  BY <1>1, OwnFrame DEF vars, Processing, At
<1>2. CASE PeerStep
  <2>1. UNCHANGED <<cmdQ, call, sock, left, pc>>
    BY <1>2 DEF PeerStep, PeerConnect, PeerSend, PeerClose, loop, thread
  <2> QED
    BY <2>1, OwnFrame DEF Processing, At
<1>3. CASE WorkerStep
  BY <1>0, <1>3, OwnRemoved, OwnCommands, OwnLoop, OwnPush DEF WorkerStep, Inv
<1>4. ASSUME NEW t \in App, NoAppDisconnect, AppCall(t) \/ AppStep(t) PROVE Own'
  <2>1. /\ pc'[Worker] = pc[Worker] /\ call'[Worker] = call[Worker]
        /\ UNCHANGED <<sock, left, sockMap, obj>>
        /\ \A u \in App \ {t} : call'[u] = call[u]
    BY <1>4, AppLeaves DEF Inv
  <2>2. CASE Push(t)
    BY <1>0, <2>1, <2>2, OwnPush DEF Inv
  <2>3. CASE ~Push(t)
    <3>1. UNCHANGED cmdQ
      BY <1>4, <2>3
      DEF NoAppDisconnect, AppCall, AppStep, AppSend, SendAt, SendCheck, SendStore, Signal
    <3>2. call'[t] # Nil => call'[t].op = "send"
      <4>1. call \in [Thread -> Command \cup {Nil}] /\ t \in Thread
        BY <1>0 DEF Inv, Shape, TypeOK
      <4>2. CASE call'[t] \in {call[t], Nil}
        BY <4>2 DEF Own, IssuedCurrent
      <4>3. CASE \E f \in Fd : AppSend(t, f)
        BY <4>1, <4>3 DEF AppSend, CommandFor
      <4>4. CASE SendAt(t)
        BY <4>2, <4>4 DEF SendAt
      <4>5. CASE SendCheck(t) \/ SendStore(t) \/ Signal(t)
        BY <4>1, <4>2, <4>5 DEF SendCheck, SendStore, SendFails, Signal
      <4> QED
        BY <1>4, <2>3, <4>3, <4>4, <4>5 DEF NoAppDisconnect, AppCall, AppStep
    <3>3. IssuedCurrent'
      BY <2>1, <3>2 DEF Own, IssuedCurrent, Current, At
    <3>4. QueuedCurrent' /\ InBudget' /\ RemovalMatches'
      BY <2>1, <3>1
      DEF Own, QueuedCurrent, InBudget, RemovalMatches, Current, Processing, At
    <3> QED
      BY <3>3, <3>4 DEF Own
  <2> QED
    BY <2>2, <2>3
<1>5. NoAppDisconnect \/ UNCHANGED vars
  OBVIOUS
<1> QED
  BY <1>1, <1>2, <1>3, <1>4, <1>5 DEF Next

\* Although a command carries only a number and numbers are reused,
\* RemoveSocketObject closes the connection the command was issued for, with
\* any number of threads that send: HandleReceive and the callbacks issue
\* DISCONNECT for what is open, and ProcessCommand executes every one before
\* the number can be accepted again.  A Disconnect call of an application may
\* race with the removal, and a queue longer than CmdBudget outlasts the
\* loop: both premises are needed.
THEOREM RemovalHitsItsOwn ==
  Spec /\ [][NoAppDisconnect]_vars => RemovesItsOwn
<1>1. Init => Own
  <2>1. ASSUME Init PROVE pc[Worker] = "wait"
    BY <2>1 DEF Init, Thread
  <2> QED
    BY <2>1 DEF Init, Own, IssuedCurrent, QueuedCurrent, InBudget, RemovalMatches, Processing, At,
                Thread
<1>2. Inv /\ Own /\ QueueFits /\ [Next]_vars /\ [NoAppDisconnect]_vars => Own'
  BY OwnStep
<1>3. Own => RemovalMatches
  BY DEF Own
<1> QED
  BY <1>1, <1>2, <1>3, Invariance, PTL DEF Spec, RemovesItsOwn
=============================================================================
