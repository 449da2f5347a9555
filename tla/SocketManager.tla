--------------------------- MODULE SocketManager ---------------------------
(***************************************************************************)
(* The socket manager under a TcpServer: one worker thread runs an          *)
(* edge-triggered epoll loop (accept, read, command queue, removal of       *)
(* socket objects) while application threads call Send and Disconnect.      *)
(*                                                                          *)
(* The source is socket_manager.cpp with tcp_server.cpp and                 *)
(* socket_object.h.  Peers and the kernel (descriptors, accept queue,       *)
(* epoll ready list) are the environment.  Payload bytes and the output     *)
(* queue of an object are abstracted away here: a connection holds a        *)
(* number of unread segments.                                               *)
(*                                                                          *)
(* Undefined behaviour (a freed object used, two threads inside             *)
(* std::queue::push, a throw nobody catches) may leave the program as if    *)
(* nothing happened or end it: "crashed" marks the second outcome, and      *)
(* nothing is said of what follows it.                                      *)
(***************************************************************************)
EXTENDS Naturals, Sequences, FiniteSets

CONSTANTS
  Fd,          \* descriptor numbers the kernel hands out
  Addr,        \* heap addresses of SocketObjects
  Conn,        \* connections peers may open
  App,         \* application threads
  Worker,      \* the worker thread (SocketManager::WorkThread)
  CmdEvt,      \* cmd_evt_fd_
  ListenEvt,   \* listen_socket_
  Nil,
  MaxEvents,   \* max_events_, 6 in the code
  CmdBudget,   \* count in ProcessCommand, 20 in the code
  CallbackOps, \* the calls OnConnect and DoRead make: "send", "disconnect"
  MaxRx,       \* bound: unread segments of a connection
  MaxQueue     \* bound: no new call is made with this many queued commands

ASSUME NumbersAssumption ==
  /\ MaxEvents \in Nat \ {0}
  /\ CmdBudget \in Nat \ {0}
  /\ MaxRx \in Nat \ {0}
  /\ MaxQueue \in Nat \ {0}

ASSUME CallbackAssumption == CallbackOps \subseteq {"send", "disconnect"}

ASSUME NamesAssumption ==
  /\ Worker \notin App
  /\ CmdEvt # ListenEvt
  /\ {CmdEvt, ListenEvt} \cap (Fd \cup Addr) = {}
  /\ Nil \notin Fd \cup Addr \cup Conn \cup {CmdEvt, ListenEvt}

Thread == App \cup {Worker}
Source == Fd \cup {CmdEvt, ListenEvt}

\* What epoll_pwait reports: data.ptr and whether EPOLLIN is set.
Event == [ptr : Addr \cup {CmdEvt, ListenEvt}, in : BOOLEAN]

\* TSockMCommand.  The descriptor is all it carries; conn is a ghost, the
\* connection the descriptor named when the call was made.
Command == [op : {"send", "disconnect"}, fd : Fd, conn : Conn \cup {Nil}]

SocketObject == [fd : Fd, valid : BOOLEAN]

ASSUME NilAssumption == Nil \notin SocketObject \cup Command

VARIABLES
  sockMap,     \* sock_object_map_: descriptor -> object
  obj,         \* the heap: address -> SocketObject, Nil when free
  cmdQ,        \* cmd_queue_
  pc,          \* where each thread stands
  ptr,         \* the SocketObject* each thread holds
  call,        \* the command each thread is issuing or executing
  back,        \* where the worker goes on after a call it makes itself
  left,        \* count in ProcessCommand
  batch,       \* reported events DoWork has not handled yet
  crashed,
  sock,        \* kernel: the connection open on a descriptor
  interest,    \* kernel: epoll registrations, descriptor -> data.ptr
  ready,       \* kernel: epoll ready list (edges not yet reported)
  rx,          \* kernel: unread segments of a connection
  eof,         \* kernel: has the peer closed or reset it
  life         \* ghost: what the listener has been told of a connection

table  == <<sockMap, obj>>
thread == <<pc, ptr, call, back>>
loop   == <<left, batch>>
peer   == <<rx, eof>>
kernel == <<sock, interest, ready, rx, eof>>
vars   == <<sockMap, obj, cmdQ, pc, ptr, call, back, left, batch, crashed,
            sock, interest, ready, rx, eof, life>>

WorkerAt == {"wait", "loop", "receive", "read", "write", "push", "signal",
             "command", "close", "free", "erase"}
AppAt    == {"idle", "at", "check", "store", "push", "signal"}

----------------------------------------------------------------------------
(* Helpers.                                                                 *)

At(t, place)  == pc[t] = place
Goto(t, place) == pc' = [pc EXCEPT ![t] = place]

FindSocketObject(f) == sockMap[f]

IsValid(a) == a # Nil /\ obj[a] # Nil /\ obj[a].valid

Freed(a) == obj[a] = Nil

\* Room for one more call, a bound of the model.
Room == Len(cmdQ) < MaxQueue

\* The registered descriptors of a connection.
Watching(c) == {f \in Fd : sock[f] = c /\ interest[f] # Nil}

HasInput(c) == rx[c] > 0 \/ eof[c] # "open"

\* Mutants of Exhausted: the count is not tested; one command per wakeup.
CountIgnored == FALSE
OneCommandPerWakeup == left < CmdBudget

\* The budget of ProcessCommand is spent.
Exhausted == left = 0

CommandFor(op, f) == [op |-> op, fd |-> f, conn |-> sock[f]]

\* The events reported for a set of ready sources.
Report(s) ==
  IF s \in Fd THEN [ptr |-> interest[s], in |-> HasInput(sock[s])]
              ELSE [ptr |-> s, in |-> TRUE]

Init ==
  /\ sockMap = [f \in Fd |-> Nil]
  /\ obj = [a \in Addr |-> Nil]
  /\ cmdQ = <<>>
  /\ pc = [t \in Thread |-> IF t = Worker THEN "wait" ELSE "idle"]
  /\ ptr = [t \in Thread |-> Nil]
  /\ call = [t \in Thread |-> Nil]
  /\ back = "loop"
  /\ left = 0
  /\ batch = {}
  /\ crashed = FALSE
  /\ sock = [f \in Fd |-> Nil]
  /\ interest = [f \in Fd |-> Nil]
  /\ ready = {}
  /\ rx = [c \in Conn |-> 0]
  /\ eof = [c \in Conn |-> "open"]
  /\ life = [c \in Conn |-> "new"]

----------------------------------------------------------------------------
(* The peers.  Each action arms the edge of the descriptor it concerns.     *)

PeerConnect(c) ==
  /\ life[c] = "new"
  /\ life' = [life EXCEPT ![c] = "queued"]
  /\ ready' = ready \cup {ListenEvt}
  /\ UNCHANGED <<table, cmdQ, thread, loop, crashed, sock, interest, peer>>

PeerSend(c) ==
  /\ life[c] \in {"queued", "connected"}
  /\ eof[c] = "open"
  /\ rx[c] < MaxRx
  /\ rx' = [rx EXCEPT ![c] = @ + 1]
  /\ ready' = ready \cup Watching(c)
  /\ UNCHANGED <<table, cmdQ, thread, loop, crashed, sock, interest, eof, life>>

\* An orderly close, then perhaps a reset: two edges.
PeerClose(c) ==
  /\ life[c] \in {"queued", "connected"}
  /\ \/ eof[c] = "open" /\ eof' = [eof EXCEPT ![c] = "fin"]
     \/ eof[c] \in {"open", "fin"} /\ eof' = [eof EXCEPT ![c] = "rst"]
  /\ ready' = ready \cup Watching(c)
  /\ UNCHANGED <<table, cmdQ, thread, loop, crashed, sock, interest, rx, life>>

----------------------------------------------------------------------------
(* DoWork: epoll_pwait and the dispatch of what it reports.                 *)

Min(m, n) == IF m < n THEN m ELSE n

EpollWait ==
  /\ At(Worker, "wait")
  /\ \E S \in (SUBSET ready) \ {{}} :
       /\ Cardinality(S) = Min(Cardinality(ready), MaxEvents)
       /\ batch' = {Report(s) : s \in S}
       /\ ready' = ready \ S
  /\ Goto(Worker, "loop")
  /\ UNCHANGED <<table, cmdQ, ptr, call, back, left, crashed, sock, interest,
                 peer, life>>

BatchDone ==
  /\ At(Worker, "loop")
  /\ batch = {}
  /\ Goto(Worker, "wait")
  /\ UNCHANGED <<table, cmdQ, ptr, call, back, loop, crashed, kernel, life>>

\* ProcessIo: HandleReceive when EPOLLIN is set, else HandleSend.  The
\* pointer is the one registered, whatever has become of the object since.
ProcessIo(e) ==
  /\ At(Worker, "loop")
  /\ e.ptr \in Addr
  /\ batch' = batch \ {e}
  /\ ptr' = [ptr EXCEPT ![Worker] = e.ptr]
  /\ Goto(Worker, IF e.in THEN "receive" ELSE "write")
  /\ UNCHANGED <<table, cmdQ, call, back, left, crashed, kernel, life>>

----------------------------------------------------------------------------
(* A callback of the listener on the worker: it returns, or first calls     *)
(* Send or Disconnect for the socket it was told of.                        *)

Callback(f, place) ==
  \/ /\ Goto(Worker, place)
     /\ UNCHANGED <<call, back>>
  \/ /\ Room
     /\ Goto(Worker, "push")
     /\ \E op \in CallbackOps :
          call' = [call EXCEPT ![Worker] = [op |-> op, fd |-> f, conn |-> sock'[f]]]
     /\ back' = place

\* TcpServer::HandleAccept: one accept per event.
AcceptNone ==
  /\ \/ \A c \in Conn : life[c] # "queued"
     \/ \A f \in Fd : sock[f] # Nil
  /\ Goto(Worker, "loop")
  /\ UNCHANGED <<table, call, back, sock, interest, ready, life>>

\* fcntl fails: the handler returns and nobody closes the new socket.
AcceptLeaked(c, f) ==
  /\ sock' = [sock EXCEPT ![f] = c]
  /\ life' = [life EXCEPT ![c] = "leaked"]
  /\ Goto(Worker, "loop")
  /\ UNCHANGED <<table, call, back, interest, ready>>

\* AddTcpSocket and OnConnect.  Were the descriptor still in the map,
\* AddSocketObject would refuse it, the object would be lost and the handler
\* would close the socket.
Accepted(c, f, a) ==
  IF sockMap[f] # Nil
  THEN /\ obj' = [obj EXCEPT ![a] = [fd |-> f, valid |-> FALSE]]
       /\ life' = [life EXCEPT ![c] = "refused"]
       /\ Goto(Worker, "loop")
       /\ UNCHANGED <<sockMap, call, back, sock, interest, ready>>
  ELSE /\ obj' = [obj EXCEPT ![a] = [fd |-> f, valid |-> TRUE]]
       /\ sockMap' = [sockMap EXCEPT ![f] = a]
       /\ sock' = [sock EXCEPT ![f] = c]
       /\ interest' = [interest EXCEPT ![f] = a]
       /\ ready' = ready \cup {f}
       /\ life' = [life EXCEPT ![c] = "connected"]
       /\ Callback(f, "loop")

HandleAccept(e) ==
  /\ At(Worker, "loop")
  /\ e.ptr = ListenEvt
  /\ batch' = batch \ {e}
  /\ \/ AcceptNone
     \/ \E c \in Conn, f \in Fd :
          /\ life[c] = "queued"
          /\ sock[f] = Nil
          /\ \/ AcceptLeaked(c, f)
             \/ \E a \in Addr : Freed(a) /\ Accepted(c, f, a)
  /\ UNCHANGED <<cmdQ, ptr, left, crashed, peer>>

----------------------------------------------------------------------------
(* HandleReceive and HandleSend.                                            *)

\* The validity check at the head of both handlers.  In freed memory the
\* flag still reads as false, or the access ends the program.
EnterHandler ==
  /\ pc[Worker] \in {"receive", "write"}
  /\ LET a == ptr[Worker] IN
       \/ /\ IsValid(a) /\ At(Worker, "receive")
          /\ Goto(Worker, "read")
          /\ UNCHANGED <<ptr, crashed>>
       \/ /\ ~IsValid(a) \/ At(Worker, "write")
          /\ ptr' = [ptr EXCEPT ![Worker] = Nil]
          /\ Goto(Worker, "loop")
          /\ UNCHANGED crashed
       \/ /\ Freed(a)
          /\ crashed' = TRUE
          /\ UNCHANGED <<pc, ptr>>
  /\ UNCHANGED <<table, cmdQ, call, back, loop, kernel, life>>

\* Mutant of ReadData: the handler returns after one read, as if the
\* registration were level-triggered.
ReadOnce ==
  /\ At(Worker, "read")
  /\ LET f == obj[ptr[Worker]].fd
         c == sock[f] IN
       /\ rx[c] > 0
       /\ rx' = [rx EXCEPT ![c] = @ - 1]
       /\ UNCHANGED <<table, cmdQ, ptr, loop, crashed, sock, interest, ready,
                      eof, life>>
       /\ Callback(f, "loop")

\* read returns bytes and DoRead runs.
ReadData ==
  /\ At(Worker, "read")
  /\ LET f == obj[ptr[Worker]].fd
         c == sock[f] IN
       /\ rx[c] > 0
       /\ rx' = [rx EXCEPT ![c] = @ - 1]
       /\ UNCHANGED <<table, cmdQ, ptr, loop, crashed, sock, interest, ready,
                      eof, life>>
       /\ Callback(f, "read")

\* read returns 0 or an error: CloseSocket queues a disconnect.
ReadEof ==
  /\ At(Worker, "read")
  /\ LET f == obj[ptr[Worker]].fd
         c == sock[f] IN
       /\ rx[c] = 0
       /\ eof[c] # "open"
       /\ call' = [call EXCEPT ![Worker] = CommandFor("disconnect", f)]
  /\ ptr' = [ptr EXCEPT ![Worker] = Nil]
  /\ Goto(Worker, "push")
  /\ back' = "loop"
  /\ UNCHANGED <<table, cmdQ, loop, crashed, kernel, life>>

\* read returns EWOULDBLOCK: the edge is consumed.
ReadAgain ==
  /\ At(Worker, "read")
  /\ ~HasInput(sock[obj[ptr[Worker]].fd])
  /\ ptr' = [ptr EXCEPT ![Worker] = Nil]
  /\ Goto(Worker, "loop")
  /\ UNCHANGED <<table, cmdQ, call, back, loop, crashed, kernel, life>>

----------------------------------------------------------------------------
(* ProcessCommand and RemoveSocketObject.                                   *)

StartCommands(e) ==
  /\ At(Worker, "loop")
  /\ e.ptr = CmdEvt
  /\ batch' = batch \ {e}
  /\ left' = CmdBudget
  /\ Goto(Worker, "command")
  /\ UNCHANGED <<table, cmdQ, ptr, call, back, crashed, kernel, life>>

CommandsDone ==
  /\ At(Worker, "command")
  /\ cmdQ = <<>> \/ Exhausted
  /\ left' = 0
  /\ Goto(Worker, "loop")
  /\ UNCHANGED <<table, cmdQ, ptr, call, back, batch, crashed, kernel, life>>

\* The command at the head of the queue is about to be executed.
Executing(op) ==
  /\ At(Worker, "command")
  /\ cmdQ # <<>>
  /\ ~Exhausted
  /\ Head(cmdQ).op = op

PopCommand ==
  /\ cmdQ' = Tail(cmdQ)
  /\ left' = left - 1

\* HandleSend on the object found, if any: only the output queue changes.
CommandSend ==
  /\ Executing("send")
  /\ PopCommand
  /\ UNCHANGED <<table, thread, batch, crashed, kernel, life>>

CommandNotFound ==
  /\ Executing("disconnect")
  /\ ~IsValid(FindSocketObject(Head(cmdQ).fd))
  /\ PopCommand
  /\ UNCHANGED <<table, thread, batch, crashed, kernel, life>>

\* RemoveSocketObject up to OnDisconnect; call[Worker].fd is its local sock.
RemoveObject ==
  /\ Executing("disconnect")
  /\ LET a == FindSocketObject(Head(cmdQ).fd) IN
       /\ IsValid(a)
       /\ obj' = [obj EXCEPT ![a].valid = FALSE]
       /\ ptr' = [ptr EXCEPT ![Worker] = a]
       /\ call' = [call EXCEPT ![Worker] = [Head(cmdQ) EXCEPT !.fd = obj[a].fd]]
       /\ life' = [c \in Conn |-> IF c = sock[obj[a].fd] THEN "gone" ELSE life[c]]
  /\ Goto(Worker, "close")
  /\ UNCHANGED <<sockMap, cmdQ, back, loop, crashed, kernel>>

\* DeleteFD and close: the kernel may hand the number out again.
RemoveClose ==
  /\ At(Worker, "close")
  /\ LET f == call[Worker].fd IN
       /\ interest' = [interest EXCEPT ![f] = Nil]
       /\ ready' = ready \ {f}
       /\ sock' = [sock EXCEPT ![f] = Nil]
  /\ Goto(Worker, "free")
  /\ UNCHANGED <<table, cmdQ, ptr, call, back, loop, crashed, peer, life>>

\* Mutant of RemoveFree: the object is not deleted.
RemoveLeaks ==
  /\ At(Worker, "free")
  /\ Goto(Worker, "erase")
  /\ UNCHANGED <<table, cmdQ, ptr, call, back, loop, crashed, kernel, life>>

RemoveFree ==
  /\ At(Worker, "free")
  /\ obj' = [obj EXCEPT ![ptr[Worker]] = Nil]
  /\ Goto(Worker, "erase")
  /\ UNCHANGED <<sockMap, cmdQ, ptr, call, back, loop, crashed, kernel, life>>

\* Mutant of RemoveErase: the entry stays in the map.
RemoveKeepsEntry ==
  /\ At(Worker, "erase")
  /\ PopCommand
  /\ call' = [call EXCEPT ![Worker] = Nil]
  /\ ptr' = [ptr EXCEPT ![Worker] = Nil]
  /\ Goto(Worker, "command")
  /\ UNCHANGED <<sockMap, obj, back, batch, crashed, kernel, life>>

RemoveErase ==
  /\ At(Worker, "erase")
  /\ sockMap' = [sockMap EXCEPT ![call[Worker].fd] = Nil]
  /\ PopCommand
  /\ call' = [call EXCEPT ![Worker] = Nil]
  /\ ptr' = [ptr EXCEPT ![Worker] = Nil]
  /\ Goto(Worker, "command")
  /\ UNCHANGED <<obj, back, batch, crashed, kernel, life>>

----------------------------------------------------------------------------
(* TriggerCmdEvent, on any thread: push, then eventfd_write.                *)

\* Another producer may be inside the same unsynchronised std::queue::push.
RacesOnPush(t) == \E u \in Thread \ {t} : At(u, "push")

Push(t) ==
  /\ At(t, "push")
  /\ \/ /\ cmdQ' = Append(cmdQ, call[t])
        /\ UNCHANGED crashed
     \/ /\ RacesOnPush(t)
        /\ crashed' \in BOOLEAN
        /\ UNCHANGED cmdQ
  /\ Goto(t, "signal")
  /\ UNCHANGED <<table, ptr, call, back, loop, kernel, life>>

Signal(t) ==
  /\ At(t, "signal")
  /\ ready' = ready \cup {CmdEvt}
  /\ call' = [call EXCEPT ![t] = Nil]
  /\ Goto(t, IF t = Worker THEN back ELSE "idle")
  /\ back' = IF t = Worker THEN "loop" ELSE back
  /\ UNCHANGED <<table, cmdQ, ptr, loop, crashed, sock, interest, peer, life>>

----------------------------------------------------------------------------
(* Application threads: TcpServer::Disconnect and TcpServer::Send.          *)

AppDisconnect(t, f) ==
  /\ At(t, "idle")
  /\ Room
  /\ call' = [call EXCEPT ![t] = CommandFor("disconnect", f)]
  /\ Goto(t, "push")
  /\ UNCHANGED <<table, cmdQ, ptr, back, loop, crashed, kernel, life>>

\* Send finds the descriptor with map::count ...
AppSend(t, f) ==
  /\ At(t, "idle")
  /\ Room
  /\ sockMap[f] # Nil
  /\ call' = [call EXCEPT ![t] = CommandFor("send", f)]
  /\ Goto(t, "at")
  /\ UNCHANGED <<table, cmdQ, ptr, back, loop, crashed, kernel, life>>

\* ... fetches it with map::at, which throws once the worker has erased it ...
SendAt(t) ==
  /\ At(t, "at")
  /\ LET a == sockMap[call[t].fd] IN
       \/ /\ a = Nil
          /\ crashed' = TRUE
          /\ UNCHANGED <<pc, ptr>>
       \/ /\ a # Nil
          /\ ptr' = [ptr EXCEPT ![t] = a]
          /\ Goto(t, "check")
          /\ UNCHANGED crashed
  /\ UNCHANGED <<table, cmdQ, call, back, loop, kernel, life>>

\* Send returns SOCKET_ERROR.
SendFails(t) ==
  /\ ptr' = [ptr EXCEPT ![t] = Nil]
  /\ call' = [call EXCEPT ![t] = Nil]
  /\ Goto(t, "idle")

\* ... reads its valid flag ...
SendCheck(t) ==
  /\ At(t, "check")
  /\ \/ /\ IsValid(ptr[t])
        /\ Goto(t, "store")
        /\ UNCHANGED <<ptr, call, crashed>>
     \/ /\ ~IsValid(ptr[t])
        /\ SendFails(t)
        /\ UNCHANGED crashed
     \/ /\ Freed(ptr[t])
        /\ crashed' = TRUE
        /\ UNCHANGED <<pc, ptr, call>>
  /\ UNCHANGED <<table, cmdQ, back, loop, kernel, life>>

\* ... and pushes the packet, unless the object holds kMaxNumOfPackets.
SendStore(t) ==
  /\ At(t, "store")
  /\ \/ /\ ptr' = [ptr EXCEPT ![t] = Nil]
        /\ Goto(t, "push")
        /\ UNCHANGED <<call, crashed>>
     \/ /\ SendFails(t)
        /\ UNCHANGED crashed
     \/ /\ Freed(ptr[t])
        /\ crashed' = TRUE
        /\ UNCHANGED <<pc, ptr, call>>
  /\ UNCHANGED <<table, cmdQ, back, loop, kernel, life>>

----------------------------------------------------------------------------
PeerStep == \E c \in Conn : PeerConnect(c) \/ PeerSend(c) \/ PeerClose(c)

WorkerStep ==
  \/ EpollWait \/ BatchDone
  \/ \E e \in batch : ProcessIo(e) \/ HandleAccept(e) \/ StartCommands(e)
  \/ EnterHandler \/ ReadData \/ ReadEof \/ ReadAgain
  \/ CommandsDone \/ CommandSend \/ CommandNotFound
  \/ RemoveObject \/ RemoveClose \/ RemoveFree \/ RemoveErase
  \/ Push(Worker) \/ Signal(Worker)

\* A call an application thread has begun.
AppStep(t) ==
  SendAt(t) \/ SendCheck(t) \/ SendStore(t) \/ Push(t) \/ Signal(t)

AppCall(t) == \E f \in Fd : AppDisconnect(t, f) \/ AppSend(t, f)

Next ==
  /\ ~crashed
  /\ \/ PeerStep
     \/ WorkerStep
     \/ \E t \in App : AppCall(t) \/ AppStep(t)

Spec == Init /\ [][Next]_vars

\* The operating system keeps running a thread that can run; nothing makes
\* a peer act or an application call.
FairSpec ==
  /\ Spec
  /\ WF_vars(~crashed /\ WorkerStep)
  /\ \A t \in App : WF_vars(~crashed /\ AppStep(t))
----------------------------------------------------------------------------
(* Properties.                                                              *)

\* Every variable keeps its type; a thread that executes or issues a command
\* has one, and a thread that uses an object has an address.
TypeOK ==
  /\ sockMap \in [Fd -> Addr \cup {Nil}]
  /\ obj \in [Addr -> SocketObject \cup {Nil}]
  /\ cmdQ \in Seq(Command)
  /\ pc \in [Thread -> WorkerAt \cup AppAt]
  /\ pc[Worker] \in WorkerAt
  /\ \A t \in App : pc[t] \in AppAt
  /\ ptr \in [Thread -> Addr \cup {Nil}]
  /\ call \in [Thread -> Command \cup {Nil}]
  /\ back \in {"loop", "read"}
  /\ left \in 0..CmdBudget
  /\ batch \in SUBSET Event
  /\ crashed \in BOOLEAN
  /\ sock \in [Fd -> Conn \cup {Nil}]
  /\ interest \in [Fd -> Addr \cup {Nil}]
  /\ ready \in SUBSET Source
  /\ rx \in [Conn -> 0..MaxRx]
  /\ eof \in [Conn -> {"open", "fin", "rst"}]
  /\ life \in [Conn -> {"new", "queued", "connected", "gone", "leaked", "refused"}]

\* RemoveSocketObject is somewhere between SetInvalid and map::erase.
Removing == pc[Worker] \in {"close", "free", "erase"}
RemovingFd(f) == Removing /\ call[Worker].fd = f

\* A map entry leads to its own object, valid unless it is being removed.
EntryHasObject ==
  \A f \in Fd : sockMap[f] # Nil =>
    \/ IsValid(sockMap[f]) /\ obj[sockMap[f]].fd = f
    \/ RemovingFd(f)

\* No object is lost: each one allocated is reachable from the map.
ObjectHasEntry ==
  \A a \in Addr : obj[a] # Nil => sockMap[obj[a].fd] = a

\* The pointer registered with epoll is the map's, and not a freed one.
RegistrationSound ==
  \A f \in Fd : interest[f] # Nil =>
    interest[f] = sockMap[f] /\ ~Freed(interest[f])

\* An entry is registered and its descriptor open until RemoveClose.
EntryIsWatched ==
  \A f \in Fd : sockMap[f] # Nil =>
    \/ interest[f] # Nil /\ sock[f] # Nil
    \/ RemovingFd(f) /\ pc[Worker] # "close"

\* An open descriptor is in the map, but for those accept leaked.
DescriptorHasEntry ==
  \A f \in Fd : sock[f] # Nil => sockMap[f] # Nil \/ life[sock[f]] = "leaked"

\* The four tables that name a socket (sock_object_map_, the objects, the
\* epoll registrations, the kernel's descriptors) agree whatever the
\* interleaving of accepts, removals and application calls: no object or
\* descriptor is leaked by the removal, none is left registered after it is
\* freed, and an accept never collides with a stale entry.
TableConsistent ==
  /\ EntryHasObject
  /\ ObjectHasEntry
  /\ RegistrationSound
  /\ EntryIsWatched
  /\ DescriptorHasEntry

\* What one step may tell the listener of each connection.
CallbackStep ==
  \A c \in Conn :
    /\ life'[c] # life[c] =>
         <<life[c], life'[c]>> \in
           {<<"new", "queued">>, <<"queued", "connected">>,
            <<"queued", "leaked">>, <<"connected", "gone">>}
    /\ rx'[c] < rx[c] => life[c] = "connected"

\* A connection goes through OnConnect and OnDisconnect once and in that
\* order, and DoRead runs only between the two: a removal, a stale event or
\* a reused descriptor never makes the listener hear of a socket it does not
\* know, or twice.
CallbackOrder == [][CallbackStep]_vars

\* The worker will look at the queue again: the eventfd edge is armed, was
\* reported and not handled yet, or is about to be made.
Woken ==
  \/ CmdEvt \in ready
  \/ \E e \in batch : e.ptr = CmdEvt
  \/ \E t \in Thread : At(t, "signal")

\* Outside ProcessCommand, a queued command has a wakeup to come.  The edge
\* is never read nor re-armed, so a command left behind would wait for an
\* unrelated call.
NoLostWakeup ==
  cmdQ # <<>> /\ pc[Worker] \notin {"command", "close", "free", "erase"}
    => Woken

\* No wakeup finds more commands than one ProcessCommand executes: the
\* premise of what is said of commands below.  Callbacks alone may break it,
\* with more calls before the eventfd is handled than count.
QueueFits == Len(cmdQ) =< CmdBudget

\* The connection RemoveSocketObject is about to close is the one the
\* command was issued for.
RemovalMatches ==
  At(Worker, "close") => sock[call[Worker].fd] = call[Worker].conn

\* Although a command carries only a descriptor number and numbers are
\* reused, a DISCONNECT closes the connection it was issued for, unless it
\* outlasts the count: by then the number may be another connection's.
RemovesItsOwn == []QueueFits => []RemovalMatches

\* The assertion commented out at the head of HandleReceive and HandleSend:
\* the object an event is dispatched to is valid.
DispatchedObjectIsValid ==
  pc[Worker] \in {"receive", "write"} => IsValid(ptr[Worker])

\* From some time on no peer sends.
PeersPause == <>[][\A c \in Conn : rx'[c] =< rx[c]]_vars

\* Once the peers pause, a connection whose peer has closed is removed and
\* OnDisconnect called, although its edge may be merged with others, consumed
\* by a read that stops early or reported while commands are pending.  A
\* DISCONNECT behind more commands than count is left without a wakeup.
PeerCloseNoticed ==
  PeersPause /\ []QueueFits =>
    \A c \in Conn :
      life[c] = "connected" /\ eof[c] # "open" ~> life[c] = "gone" \/ crashed

\* A client that connects is accepted (or leaked), as long as a descriptor
\* is free for it.
ClientsServed ==
  \A c \in Conn : life[c] = "queued" ~> life[c] # "queued"
=============================================================================
