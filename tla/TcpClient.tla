----------------------------- MODULE TcpClient -----------------------------
(***************************************************************************)
(* The socket manager under a TcpClient.  Unlike a server, whose sockets    *)
(* are made and removed by the worker thread alone, a client's sockets are  *)
(* made by application threads (ConnectToRemote, AsynchConnectTo), which    *)
(* share sock_object_map_ with the worker that removes them.  A heartbeat   *)
(* timer sweeps the map for silent connections.                             *)
(*                                                                          *)
(* The source is tcp_client.cpp with socket_manager.cpp and socket_object.h *)
(* The steps of TriggerCmdEvent and the races of Send are SocketManager's,  *)
(* the output queue SendPath's: here a call queues its command in one step  *)
(* and HandleSend changes nothing.                                          *)
(*                                                                          *)
(* Time passes in heartbeats; ages stop at SilentAge, counts at KeepAlive.  *)
(* "crashed" marks undefined behaviour that ended the program: a freed      *)
(* object used, or two threads inside the map, one of them changing it.     *)
(***************************************************************************)
EXTENDS Naturals, Sequences, FiniteSets, SequencesExt

CONSTANTS
  Fd,          \* descriptor numbers the kernel hands out
  Addr,        \* heap addresses of SocketObjects
  Conn,        \* connections the application may ask for
  App,         \* application threads
  CmdEvt,      \* cmd_evt_fd_
  TimerEvt,    \* timer_evt_fd_
  Nil,
  KeepAlive,   \* keep_alive_time_in_seconds_ / heartbeat_interval_in_seconds_
  SilentAge,   \* heartbeats that make a keep-alive time, the quotient rounded up
  CmdBudget,   \* count in ProcessCommand, 20 in the code
  MaxBeats,    \* bound: expirations of the timer the worker has not read
  MaxRx,       \* bound: unread segments of a connection
  MaxQueue     \* bound: no new Send or Disconnect with this many commands queued

\* OnTimer sweeps only when the keep-alive time is longer than a heartbeat.
ASSUME NumbersAssumption ==
  /\ IsFiniteSet(Fd)
  /\ KeepAlive \in Nat \ {0}
  /\ SilentAge \in {KeepAlive, KeepAlive + 1} \ {1}
  /\ CmdBudget \in Nat \ {0}
  /\ MaxBeats \in Nat \ {0}
  /\ MaxRx \in Nat
  /\ MaxQueue \in Nat

ASSUME NamesAssumption ==
  /\ CmdEvt # TimerEvt
  /\ {CmdEvt, TimerEvt} \cap (Fd \cup Addr) = {}
  /\ Nil \notin Fd \cup Addr \cup Conn

\* up is connect_state_, age the heartbeats since active_time_.
SocketObject == [fd : Fd, valid : BOOLEAN, up : BOOLEAN, age : 0..SilentAge]

Command == [op : {"send", "disconnect"}, fd : Fd]

\* A reported event.  conn is a ghost, the connection it was reported for.
Event == [ptr : Addr \cup {CmdEvt, TimerEvt}, in : BOOLEAN, conn : Conn \cup {Nil}]

\* The locals of a connecting thread: descriptor, connection (a ghost) and
\* object once it is made.
Dial == [fd : Fd, conn : Conn, a : Addr \cup {Nil}]

ASSUME NilAssumption == Nil \notin SocketObject \cup Dial

VARIABLES
  sockMap,     \* sock_object_map_
  obj,         \* the heap: address -> SocketObject, Nil when free
  cmdQ,        \* cmd_queue_
  pc,          \* where each application thread stands
  dial,        \* the locals of its connect
  wpc,         \* where the worker stands
  wptr,        \* the object it handles
  batch,       \* reported events DoWork has not handled yet
  left,        \* count in ProcessCommand
  count,       \* timer_event_count_
  crashed,
  sock,        \* kernel: the connection open on a descriptor
  interest,    \* kernel: epoll registrations, descriptor -> data.ptr
  ready,       \* kernel: epoll ready list (edges not yet reported)
  beats,       \* kernel: expirations of the timer not yet read
  net,         \* kernel: the state of a connection
  rx,          \* kernel: its unread segments
  told,        \* ghost: calls of OnConnect and OnDisconnect for a connection
  via,         \* ghost: the thread that made its socket calls OnConnect itself
  lost         \* ghost: open, and unknown to the manager for good

table  == <<sockMap, obj>>
app    == <<pc, dial>>
worker == <<wpc, wptr, batch, left, count>>
kernel == <<sock, interest, ready, beats, net, rx>>
ghost  == <<told, via, lost>>
vars   == <<sockMap, obj, cmdQ, pc, dial, wpc, wptr, batch, left, count, crashed,
            sock, interest, ready, beats, net, rx, told, via, lost>>

----------------------------------------------------------------------------
(* Helpers.                                                                 *)

Min2(m, n) == IF m < n THEN m ELSE n

IsValid(a) == a # Nil /\ obj[a] # Nil /\ obj[a].valid
Freed(a)   == obj[a] = Nil

Room == Len(cmdQ) < MaxQueue

\* "syn": connecting; "refused": failed, the error still in SO_ERROR;
\* "dead": failed, the error read; "fin": closed or reset by the peer;
\* "closed": closed here.
NetState == {"new", "syn", "up", "fin", "refused", "dead", "closed"}

Established(c) == net[c] \in {"up", "fin"}

\* EPOLLIN: data, end of file or an error.
HasInput(c) == rx[c] > 0 \/ net[c] \in {"fin", "refused", "dead"}

Watching(c) == {f \in Fd : sock[f] = c /\ interest[f] # Nil}

Report(s) ==
  IF s \in Fd THEN [ptr |-> interest[s], in |-> HasInput(sock[s]), conn |-> sock[s]]
              ELSE [ptr |-> s, in |-> TRUE, conn |-> Nil]

\* Mutant of NewObject: SetConnected is forgotten.
NeverConnected(f, connected) ==
  [fd |-> f, valid |-> TRUE, up |-> FALSE, age |-> SilentAge]

\* A new SocketObject: active_time_ is 0, and the monotonic clock is further
\* from 0 than any keep-alive time.
NewObject(f, connected) ==
  [fd |-> f, valid |-> TRUE, up |-> connected, age |-> SilentAge]

\* A second thread may be inside sock_object_map_, the worker erasing an
\* entry or an application thread inserting one.
MapInUse(t) == wpc = "erase" \/ \E u \in App \ {t} : pc[u] = "insert"

Call(op, f) == [op |-> op, fd |-> f]

\* TriggerCmdEvent, for each of the calls, on a queue q.
Trigger(q, calls) ==
  /\ cmdQ' = q \o calls
  /\ ready' = ready \cup {CmdEvt}

\* close() ends the connection of a descriptor, unread data and the epoll
\* registration with it.
Close(f) ==
  /\ sock' = [sock EXCEPT ![f] = Nil]
  /\ interest' = [interest EXCEPT ![f] = Nil]
  /\ ready' = ready \ {f}
  /\ net' = [net EXCEPT ![sock[f]] = "closed"]
  /\ rx' = [rx EXCEPT ![sock[f]] = 0]

Hear(c, what) == told' = [told EXCEPT ![c][what] = Min2(@ + 1, 2)]

Init ==
  /\ sockMap = [f \in Fd |-> Nil]
  /\ obj = [a \in Addr |-> Nil]
  /\ cmdQ = <<>>
  /\ pc = [t \in App |-> "idle"]
  /\ dial = [t \in App |-> Nil]
  /\ wpc = "loop" /\ wptr = Nil /\ batch = {} /\ left = 0 /\ count = 0
  /\ crashed = FALSE
  /\ sock = [f \in Fd |-> Nil]
  /\ interest = [f \in Fd |-> Nil]
  /\ ready = {}
  /\ beats = 0
  /\ net = [c \in Conn |-> "new"]
  /\ rx = [c \in Conn |-> 0]
  /\ told = [c \in Conn |-> [hi |-> 0, bye |-> 0]]
  /\ via = [c \in Conn |-> "worker"]
  /\ lost = [c \in Conn |-> FALSE]

----------------------------------------------------------------------------
(* The network and the clock.  A change of a connection arms the edge of    *)
(* the descriptor watching it.                                              *)

Resolve(c) ==
  /\ net[c] = "syn"
  /\ net' = [net EXCEPT ![c] = "up"] \/ net' = [net EXCEPT ![c] = "refused"]
  /\ ready' = ready \cup Watching(c)
  /\ UNCHANGED <<table, cmdQ, app, worker, crashed, sock, interest, beats, rx, ghost>>

PeerSend(c) ==
  /\ net[c] = "up"
  /\ rx[c] < MaxRx
  /\ rx' = [rx EXCEPT ![c] = @ + 1]
  /\ ready' = ready \cup Watching(c)
  /\ UNCHANGED <<table, cmdQ, app, worker, crashed, sock, interest, beats, net, ghost>>

PeerClose(c) ==
  /\ net[c] = "up"
  /\ net' = [net EXCEPT ![c] = "fin"]
  /\ ready' = ready \cup Watching(c)
  /\ UNCHANGED <<table, cmdQ, app, worker, crashed, sock, interest, beats, rx, ghost>>

\* A heartbeat interval passes and the timer CreateTimer has armed expires.
Tick ==
  /\ beats < MaxBeats
  /\ beats' = beats + 1
  /\ obj' = [a \in Addr |->
       IF Freed(a) THEN Nil ELSE [obj[a] EXCEPT !.age = Min2(@ + 1, SilentAge)]]
  /\ ready' = ready \cup {TimerEvt}
  /\ UNCHANGED <<sockMap, cmdQ, app, worker, crashed, sock, interest, net, rx, ghost>>

----------------------------------------------------------------------------
(* Application threads: ConnectToRemote and AsynchConnectTo.                *)

\* socket() and the start of connect().
Open(t, f, c) ==
  /\ pc[t] = "idle"
  /\ sock[f] = Nil
  /\ net[c] = "new"
  /\ sock' = [sock EXCEPT ![f] = c]
  /\ dial' = [dial EXCEPT ![t] = [fd |-> f, conn |-> c, a |-> Nil]]

ConnectToRemote(t) ==
  /\ \E f \in Fd, c \in Conn :
       /\ Open(t, f, c)
       /\ net' = [net EXCEPT ![c] = "syn"]
  /\ pc' = [pc EXCEPT ![t] = "connect"]
  /\ UNCHANGED <<table, cmdQ, worker, crashed, interest, ready, beats, rx, ghost>>

\* The blocking connect returns.
Connected(t) ==
  /\ pc[t] = "connect"
  /\ Established(dial[t].conn)
  /\ via' = [via EXCEPT ![dial[t].conn] = "app"]
  /\ pc' = [pc EXCEPT ![t] = "insert"]
  /\ UNCHANGED <<table, cmdQ, dial, worker, crashed, kernel, told, lost>>

ConnectFails(t) ==
  /\ pc[t] = "connect"
  /\ net[dial[t].conn] = "refused"
  /\ Close(dial[t].fd)
  /\ dial' = [dial EXCEPT ![t] = Nil]
  /\ pc' = [pc EXCEPT ![t] = "idle"]
  /\ UNCHANGED <<table, cmdQ, worker, crashed, beats, ghost>>

\* connect() on a non-blocking socket is in progress, succeeds at once, or
\* fails at once: then the descriptor is returned to the caller, neither
\* closed nor given to the manager.
AsynchConnectTo(t) ==
  /\ \E f \in Fd, c \in Conn :
       \/ /\ Open(t, f, c)
          /\ net' = [net EXCEPT ![c] = "syn"]
          /\ pc' = [pc EXCEPT ![t] = "insert"]
          /\ UNCHANGED <<via, lost>>
       \/ /\ Open(t, f, c)
          /\ net' = [net EXCEPT ![c] = "up"]
          /\ via' = [via EXCEPT ![c] = "app"]
          /\ pc' = [pc EXCEPT ![t] = "insert"]
          /\ UNCHANGED lost
       \/ /\ pc[t] = "idle" /\ sock[f] = Nil /\ net[c] = "new"
          /\ sock' = [sock EXCEPT ![f] = c]
          /\ net' = [net EXCEPT ![c] = "dead"]
          /\ lost' = [lost EXCEPT ![c] = TRUE]
          /\ UNCHANGED <<pc, dial, via>>
  /\ UNCHANGED <<table, cmdQ, worker, crashed, interest, ready, beats, rx, told>>

\* After AddSocketObject the caller announces the connection, or returns.
AfterAdd(t) ==
  IF via[dial[t].conn] = "app"
  THEN pc' = [pc EXCEPT ![t] = "announce"] /\ UNCHANGED dial
  ELSE pc' = [pc EXCEPT ![t] = "idle"] /\ dial' = [dial EXCEPT ![t] = Nil]

\* AddSocketObject finds an entry: the callers ignore the FALSE it returns,
\* the object is lost and the descriptor stays open.
AddRefused(t) ==
  /\ pc[t] = "insert"
  /\ sockMap[dial[t].fd] # Nil
  /\ lost' = [lost EXCEPT ![dial[t].conn] = TRUE]
  /\ AfterAdd(t)
  /\ UNCHANGED <<table, cmdQ, worker, crashed, kernel, told, via>>

\* AddSocketObject makes the entry ...
Insert(t) ==
  /\ pc[t] = "insert"
  /\ LET f == dial[t].fd IN
       /\ sockMap[f] = Nil
       /\ \E a \in Addr :
            /\ Freed(a)
            /\ obj' = [obj EXCEPT ![a] = NewObject(f, via[dial[t].conn] = "app")]
            /\ sockMap' = [sockMap EXCEPT ![f] = a]
            /\ dial' = [dial EXCEPT ![t].a = a]
  /\ crashed' \in {FALSE, MapInUse(t)}
  /\ pc' = [pc EXCEPT ![t] = "watch"]
  /\ UNCHANGED <<cmdQ, worker, kernel, ghost>>

\* Mutant of Registers: the edge of what happened before is not reported.
RegistersLate(f, a) ==
  /\ interest' = [interest EXCEPT ![f] = a]
  /\ UNCHANGED ready

\* epoll_ctl(ADD): an edge is reported for whatever is already there.
Registers(f, a) ==
  /\ interest' = [interest EXCEPT ![f] = a]
  /\ ready' = IF net[sock[f]] = "syn" THEN ready ELSE ready \cup {f}

\* ... and registers it, with the descriptor number and the pointer it has,
\* whatever the worker has done with both since.
Watch(t) ==
  /\ pc[t] = "watch"
  /\ LET f == dial[t].fd IN
       IF sock[f] # Nil /\ interest[f] = Nil THEN Registers(f, dial[t].a)
                                             ELSE UNCHANGED <<interest, ready>>
  /\ AfterAdd(t)
  /\ UNCHANGED <<table, cmdQ, worker, crashed, sock, beats, net, rx, ghost>>

\* OnConnect on the thread of the caller.
Announce(t) ==
  /\ pc[t] = "announce"
  /\ Hear(dial[t].conn, "hi")
  /\ pc' = [pc EXCEPT ![t] = "idle"]
  /\ dial' = [dial EXCEPT ![t] = Nil]
  /\ UNCHANGED <<table, cmdQ, worker, crashed, kernel, via, lost>>

\* Send and Disconnect: an application may call both at any time.
AppSend(t, f) ==
  /\ pc[t] = "idle"
  /\ Room
  /\ IsValid(sockMap[f])
  /\ Trigger(cmdQ, <<Call("send", f)>>)
  /\ UNCHANGED <<table, app, worker, crashed, sock, interest, beats, net, rx, ghost>>

AppDisconnect(t, f) ==
  /\ pc[t] = "idle"
  /\ Room
  /\ Trigger(cmdQ, <<Call("disconnect", f)>>)
  /\ UNCHANGED <<table, app, worker, crashed, sock, interest, beats, net, rx, ghost>>

----------------------------------------------------------------------------
(* The worker: DoWork.                                                      *)

\* The batch is handled: epoll_pwait reports what is ready, up to max_events_
\* of 6, which the sources of a few descriptors do not exceed.
EpollWait ==
  /\ wpc = "loop"
  /\ batch = {}
  /\ ready # {}
  /\ batch' = {Report(s) : s \in ready}
  /\ ready' = {}
  /\ UNCHANGED <<table, cmdQ, app, wpc, wptr, left, count, crashed, sock, interest,
                 beats, net, rx, ghost>>

\* The connection of a valid object.
Of(a) == sock[obj[a].fd]

\* Mutant of Refused: the failed connection is not closed.
RefusedStays(a, q) ==
  /\ net[Of(a)] = "refused"
  /\ net' = [net EXCEPT ![Of(a)] = "dead"]
  /\ cmdQ' = q
  /\ UNCHANGED ready

\* getsockopt(SO_ERROR) returns an error, and clears it: CloseSocket.
Refused(a, q) ==
  /\ net[Of(a)] = "refused"
  /\ net' = [net EXCEPT ![Of(a)] = "dead"]
  /\ Trigger(q, <<Call("disconnect", obj[a].fd)>>)

\* Mutant of NoError: the result of getsockopt is not looked at.
ErrorIgnored(a) == TRUE

\* It returns none: no failure is known, or it has been read before.
NoError(a) == net[Of(a)] # "refused"

\* OnBeforeProcessIo returns FALSE: the object is invalid, or in freed memory
\* that reads so, or its connection is refused.  q is the command queue
\* without the command being executed, if any.
Skips(a, q) ==
  /\ UNCHANGED <<obj, told>>
  /\ \/ /\ ~IsValid(a)
        /\ cmdQ' = q
        /\ UNCHANGED <<ready, net>>
     \/ /\ IsValid(a) /\ ~obj[a].up
        /\ Refused(a, q)

\* HandleReceive starts with active_time_; HandleSend changes nothing here.
Receiving(o, in) == IF in THEN [o EXCEPT !.age = 0] ELSE o

\* OnBeforeProcessIo returns TRUE, after OnConnect if the object was not
\* connected, and the handler starts.
Proceeds(a, in, q) ==
  /\ IsValid(a)
  /\ \/ /\ obj[a].up
        /\ UNCHANGED told
     \/ /\ ~obj[a].up
        /\ NoError(a)
        /\ Hear(Of(a), "hi")
  /\ obj' = [obj EXCEPT ![a] = Receiving([@ EXCEPT !.up = TRUE], in)]
  /\ cmdQ' = q
  /\ UNCHANGED <<ready, net>>

\* A socket event: HandleReceive if EPOLLIN is set, else HandleSend.  The
\* pointer is the one registered, whatever has become of the object.
ProcessIo(e) ==
  /\ wpc = "loop"
  /\ e.ptr \in Addr
  /\ batch' = batch \ {e}
  /\ \/ /\ Skips(e.ptr, cmdQ)
        /\ UNCHANGED <<wpc, wptr, crashed>>
     \/ /\ Proceeds(e.ptr, e.in, cmdQ)
        /\ wpc' = IF e.in THEN "read" ELSE "loop"
        /\ wptr' = IF e.in THEN e.ptr ELSE Nil
        /\ UNCHANGED crashed
     \/ /\ Freed(e.ptr)
        /\ crashed' = TRUE
        /\ UNCHANGED <<cmdQ, obj, wpc, wptr, ready, net, told>>
  /\ UNCHANGED <<sockMap, app, left, count, sock, interest, beats, rx, via, lost>>

\* The connection HandleReceive reads.
Reading == Of(wptr)

\* HandleReceive reads bytes, for DoRead ...
ReadData ==
  /\ wpc = "read"
  /\ rx[Reading] > 0
  /\ rx' = [rx EXCEPT ![Reading] = @ - 1]
  /\ UNCHANGED <<table, cmdQ, app, worker, crashed, sock, interest, ready, beats, net, ghost>>

\* ... or more than a receive limit allows, which ends it with the edge
\* consumed.  An application may set a limit at any time, field by field while
\* the worker compares them: any read may be over it.
ReadOver ==
  /\ wpc = "read"
  /\ rx[Reading] > 0
  /\ rx' = [rx EXCEPT ![Reading] = @ - 1]
  /\ wpc' = "loop" /\ wptr' = Nil
  /\ UNCHANGED <<table, cmdQ, app, batch, left, count, crashed, sock, interest, ready,
                 beats, net, ghost>>

\* ... end of file or an error, for CloseSocket ...
ReadEof ==
  /\ wpc = "read"
  /\ rx[Reading] = 0
  /\ HasInput(Reading)
  /\ net' = [net EXCEPT ![Reading] = IF @ = "refused" THEN "dead" ELSE @]
  /\ Trigger(cmdQ, <<Call("disconnect", obj[wptr].fd)>>)
  /\ wpc' = "loop" /\ wptr' = Nil
  /\ UNCHANGED <<table, app, batch, left, count, crashed, sock, interest, beats, rx, ghost>>

\* ... or EWOULDBLOCK: the edge is consumed.
ReadAgain ==
  /\ wpc = "read"
  /\ ~HasInput(Reading)
  /\ wpc' = "loop" /\ wptr' = Nil
  /\ UNCHANGED <<table, cmdQ, app, batch, left, count, crashed, kernel, ghost>>

----------------------------------------------------------------------------
(* The heartbeat: ProcessTimer, OnTimer, DisconnectSilenceConnections.      *)

Silent == {f \in Fd : IsValid(sockMap[f]) /\ obj[sockMap[f]].age >= SilentAge}

\* Mutant of Counted: earlier expirations are forgotten.
LastRead == beats

\* timer_event_count_ after the read.
Counted == count + beats

\* Mutant of Due: the count must exceed the quotient, not reach it.
DueLate == Counted > KeepAlive

\* A keep-alive time of expirations has been counted.
Due == Counted >= KeepAlive

\* The read empties the timer; a sweep walks the map, in an order the model
\* leaves open, and queues a disconnect for each silent entry.
ProcessTimer(e) ==
  /\ wpc = "loop"
  /\ e.ptr = TimerEvt
  /\ batch' = batch \ {e}
  /\ beats' = 0
  /\ IF Due
     THEN /\ count' = 0
          /\ crashed' \in {FALSE, MapInUse(Nil)}
          /\ IF Silent = {} THEN UNCHANGED <<cmdQ, ready>>
             ELSE \E s \in SetToSeqs(Silent) :
                    Trigger(cmdQ, [i \in DOMAIN s |-> Call("disconnect", s[i])])
     ELSE /\ count' = Counted
          /\ UNCHANGED <<cmdQ, crashed, ready>>
  /\ UNCHANGED <<table, app, wpc, wptr, left, sock, interest, net, rx, ghost>>

----------------------------------------------------------------------------
(* ProcessCommand and RemoveSocketObject.                                   *)

StartCommands(e) ==
  /\ wpc = "loop"
  /\ e.ptr = CmdEvt
  /\ batch' = batch \ {e}
  /\ left' = CmdBudget
  /\ wpc' = "command"
  /\ UNCHANGED <<table, cmdQ, app, wptr, count, crashed, kernel, ghost>>

CommandsDone ==
  /\ wpc = "command"
  /\ cmdQ = <<>> \/ left = 0
  /\ left' = 0
  /\ wpc' = "loop"
  /\ UNCHANGED <<table, cmdQ, app, wptr, batch, count, crashed, kernel, ghost>>

Executing(op) ==
  /\ wpc = "command"
  /\ cmdQ # <<>>
  /\ left > 0
  /\ Head(cmdQ).op = op

\* SEND: OnBeforeProcessIo, then HandleSend, which changes nothing here.
CommandSend ==
  /\ Executing("send")
  /\ \/ Skips(sockMap[Head(cmdQ).fd], Tail(cmdQ))
     \/ Proceeds(sockMap[Head(cmdQ).fd], FALSE, Tail(cmdQ))
  /\ left' = left - 1
  /\ UNCHANGED <<sockMap, app, wpc, wptr, batch, count, crashed, sock, interest,
                 beats, rx, via, lost>>

CommandNotFound ==
  /\ Executing("disconnect")
  /\ ~IsValid(sockMap[Head(cmdQ).fd])
  /\ cmdQ' = Tail(cmdQ)
  /\ left' = left - 1
  /\ UNCHANGED <<table, app, wpc, wptr, batch, count, crashed, kernel, ghost>>

\* RemoveSocketObject: SetInvalid, shutdown and OnDisconnect ...
RemoveObject ==
  /\ Executing("disconnect")
  /\ LET a == sockMap[Head(cmdQ).fd] IN
       /\ IsValid(a)
       /\ obj' = [obj EXCEPT ![a].valid = FALSE]
       /\ wptr' = a
       /\ Hear(Of(a), "bye")
  /\ wpc' = "close"
  /\ UNCHANGED <<sockMap, cmdQ, app, batch, left, count, crashed, kernel, via, lost>>

\* ... DeleteFD and close: the kernel may hand the number out again ...
RemoveClose ==
  /\ wpc = "close"
  /\ Close(obj[wptr].fd)
  /\ wpc' = "erase"
  /\ UNCHANGED <<table, cmdQ, app, wptr, batch, left, count, crashed, beats, ghost>>

\* Mutant of RemoveErase: the entry stays in the map.
RemoveKeepsEntry ==
  /\ wpc = "erase"
  /\ obj' = [obj EXCEPT ![wptr] = Nil]
  /\ cmdQ' = Tail(cmdQ)
  /\ left' = left - 1
  /\ wpc' = "command" /\ wptr' = Nil
  /\ UNCHANGED <<sockMap, app, batch, count, crashed, kernel, ghost>>

\* ... delete and map::erase.
RemoveErase ==
  /\ wpc = "erase"
  /\ sockMap' = [sockMap EXCEPT ![obj[wptr].fd] = Nil]
  /\ obj' = [obj EXCEPT ![wptr] = Nil]
  /\ cmdQ' = Tail(cmdQ)
  /\ left' = left - 1
  /\ wpc' = "command" /\ wptr' = Nil
  /\ UNCHANGED <<app, batch, count, crashed, kernel, ghost>>

----------------------------------------------------------------------------
Environment ==
  Tick \/ \E c \in Conn : Resolve(c) \/ PeerSend(c) \/ PeerClose(c)

WorkerStep ==
  \/ EpollWait
  \/ \E e \in batch : ProcessIo(e) \/ ProcessTimer(e) \/ StartCommands(e)
  \/ ReadData \/ ReadOver \/ ReadEof \/ ReadAgain
  \/ CommandsDone \/ CommandSend \/ CommandNotFound
  \/ RemoveObject \/ RemoveClose \/ RemoveErase

AppCall(t) ==
  \/ ConnectToRemote(t) \/ AsynchConnectTo(t)
  \/ \E f \in Fd : AppSend(t, f) \/ AppDisconnect(t, f)

\* A connect that has begun.
AppStep(t) ==
  \/ Connected(t) \/ ConnectFails(t)
  \/ AddRefused(t) \/ Insert(t) \/ Watch(t) \/ Announce(t)

Next ==
  /\ ~crashed
  /\ \/ Environment
     \/ WorkerStep
     \/ \E t \in App : AppCall(t) \/ AppStep(t)

Spec == Init /\ [][Next]_vars

\* Threads that can run do, time passes, and a connection attempt ends.
\* Nothing makes a peer act or an application call.
FairSpec ==
  /\ Spec
  /\ WF_vars(~crashed /\ WorkerStep)
  /\ WF_vars(~crashed /\ Tick)
  /\ \A c \in Conn : WF_vars(~crashed /\ Resolve(c))
  /\ \A t \in App : WF_vars(~crashed /\ AppStep(t))
----------------------------------------------------------------------------
(* Properties.                                                              *)

\* Every variable keeps its type.
TypeOK ==
  /\ sockMap \in [Fd -> Addr \cup {Nil}]
  /\ obj \in [Addr -> SocketObject \cup {Nil}]
  /\ cmdQ \in Seq(Command)
  /\ pc \in [App -> {"idle", "connect", "insert", "watch", "announce"}]
  /\ dial \in [App -> Dial \cup {Nil}]
  /\ wpc \in {"loop", "read", "command", "close", "erase"}
  /\ wptr \in Addr \cup {Nil}
  /\ batch \in SUBSET Event
  /\ left \in 0..CmdBudget
  /\ count \in 0..(KeepAlive - 1)
  /\ crashed \in BOOLEAN
  /\ sock \in [Fd -> Conn \cup {Nil}]
  /\ interest \in [Fd -> Addr \cup {Nil}]
  /\ ready \in SUBSET (Fd \cup {CmdEvt, TimerEvt})
  /\ beats \in 0..MaxBeats
  /\ net \in [Conn -> NetState]
  /\ rx \in [Conn -> 0..MaxRx]
  /\ told \in [Conn -> [hi : 0..2, bye : 0..2]]
  /\ via \in [Conn -> {"app", "worker"}]
  /\ lost \in [Conn -> BOOLEAN]

\* RemoveSocketObject has closed the descriptor and not yet erased its entry.
Closed(f) == wpc = "erase" /\ obj[wptr].fd = f

\* A connect of some thread is between socket() and the map.
Dialing(f) == \E t \in App : pc[t] \in {"connect", "insert"} /\ dial[t].fd = f

\* A map entry leads to its own object.
EntryHasObject ==
  \A f \in Fd : sockMap[f] # Nil => ~Freed(sockMap[f]) /\ obj[sockMap[f]].fd = f

\* An open descriptor has an entry of its own, unless a connect is under way
\* or the manager will never know it.
DescriptorKnown ==
  \A f \in Fd : sock[f] # Nil =>
    \/ sockMap[f] # Nil /\ ~Closed(f)
    \/ Dialing(f)
    \/ lost[sock[f]]

\* A pointer registered with epoll is the map's.
RegistrationSound ==
  \A f \in Fd : interest[f] # Nil => interest[f] = sockMap[f]

\* The map, the heap, the epoll registrations and the kernel's descriptors
\* agree although application threads make sockets and the worker removes
\* them: the only descriptors nobody accounts for are those of "lost".
TablesAgree == EntryHasObject /\ DescriptorKnown /\ RegistrationSound

\* The manager loses a connection for good in two cases only: connect failed
\* at once, or AddSocketObject met the entry of a descriptor the worker had
\* closed and not yet erased.
LostOnlyInRemoval ==
  [][\A c \in Conn : lost'[c] # lost[c] =>
       \/ net'[c] = "dead"
       \/ \E f \in Fd : sock[f] = c /\ Closed(f)]_vars

\* What one step may tell the listener of a connection: OnConnect once,
\* OnDisconnect once, no data after OnDisconnect.  A connection the worker
\* announces is announced before its data and its end (an asynchronous
\* connect that fails has an OnDisconnect only).  One announced by the thread
\* that made it has no such order: it is registered before the call.
CallbackStep ==
  \A c \in Conn :
    /\ told'[c].hi =< 1 /\ told'[c].bye =< 1
    /\ wpc = "read" /\ rx'[c] < rx[c] =>
         told[c].bye = 0 /\ (told[c].hi = 1 \/ via[c] = "app")
    /\ told'[c].hi > told[c].hi => told[c].bye = 0 \/ via[c] = "app"

CallbackOrder == [][CallbackStep]_vars

\* A disconnect of the descriptor is queued.
Doomed(f) == \E i \in DOMAIN cmdQ : cmdQ[i] = Call("disconnect", f)

\* The worker takes a connection for established when it is not in three
\* cases only.  Still connecting: it executes a SEND command, or handles an
\* event reported for an earlier connection whose object had the same
\* address.  Failed: the error was read before, and its disconnect is queued.
\* The first event of its own that finds the error never does.
PrematureConnectCauses ==
  [][\A c \in Conn :
       told'[c].hi > told[c].hi /\ via[c] = "worker" /\ ~Established(c) =>
         \/ net[c] = "syn" /\ Executing("send")
         \/ net[c] = "syn" /\ \E e \in batch \ batch' : e.conn # c
         \/ net[c] = "dead" /\ \E f \in Fd : sock[f] = c /\ Doomed(f)]_vars

\* When the worker has nothing left to do, no connection attempt that has
\* ended is waiting to be announced or removed, although its edge may have
\* been merged with others, used up by a SEND command or come before the
\* registration.
NoStrandedConnect ==
  wpc = "loop" /\ batch = {} /\ ready = {} =>
    \A f \in Fd :
      interest[f] # Nil /\ net[sock[f]] \notin {"syn", "new"} =>
        obj[interest[f]].up \/ Doomed(f)

\* From some time on no peer sends.
PeersPause == <>[][\A c \in Conn : rx'[c] =< rx[c]]_vars

\* The manager holds a connection and may remove it.
Held(c) == \E f \in Fd : sock[f] = c /\ IsValid(sockMap[f])

\* Once the peers pause, the sweep removes every connection the manager
\* holds, those still connecting and those whose end was missed included,
\* whatever the number of commands one wakeup executes.
KeepAliveWorks ==
  PeersPause => \A c \in Conn : Held(c) ~> told[c].bye = 1 \/ crashed
=============================================================================
