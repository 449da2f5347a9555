----------------------------- MODULE Lifecycle -----------------------------
(***************************************************************************)
(* The life of the two servers of main.cpp in one process: the main thread  *)
(* starts a TcpServer and a UdpServer, runs until the exit flag is set, and *)
(* stops them in turn, while the worker thread of each accepts, reads and   *)
(* removes sockets.  Every step of SocketManager::Start may fail.  Results  *)
(* of Start are ignored by main, so Stop runs on whatever was built.        *)
(*                                                                          *)
(* All share one descriptor table, in which a number that was closed is     *)
(* given out again, the lowest free one first: closing a number twice may   *)
(* close another's descriptor.                                              *)
(*                                                                          *)
(* The source is main.cpp, tcp_server.cpp, udp_server.cpp and               *)
(* socket_manager.cpp.  Of data only its presence is kept: it holds a       *)
(* worker in its read loop.  SEND commands and stale events are in          *)
(* SocketManager and SendPath; the timer only has a descriptor here, as     *)
(* OnTimer of both servers is empty.  fcntl may fail on an accepted socket; *)
(* AddUdpSocket ignores that of a port, which is taken to succeed.          *)
(*                                                                          *)
(* "crashed" marks the program's end by CloseAllSocket walking the map of   *)
(* another thread while it changes.                                         *)
(***************************************************************************)
EXTENDS Naturals, Sequences, FiniteSets, FiniteSetsExt

CONSTANTS
  Client,      \* connections clients may open to the TcpServer
  Port,        \* sockets added to the UdpServer, two in the tester
  Nil,
  CmdBudget,   \* count in ProcessCommand, 20 in the code
  Ending,      \* bound: the sockets of which a read may return 0
  Sending,     \* bound: the sockets data comes to
  NumFds       \* bound: the size of the descriptor table

ASSUME NumbersAssumption ==
  /\ CmdBudget \in Nat \ {0}
  /\ NumFds \in Nat
  /\ IsFiniteSet(Client \cup Port)
  /\ NumFds >= 10 + Cardinality(Client) + Cardinality(Port)

ASSUME NamesAssumption ==
  /\ Client \cap Port = {} /\ Ending \cup Sending \subseteq Client \cup Port
  /\ {Nil, "cmd", "exit", "listen"} \cap (Client \cup Port) = {}

Server == {"tcp", "udp"}
Sock   == Client \cup Port
Fd     == 1..NumFds
INVALID_FD == 0
Slot   == {"listen", "epoll", "cmd", "exit", "timer"}

\* The server a socket belongs to.
Home(c) == IF c \in Client THEN "tcp" ELSE "udp"

\* What a descriptor may be: one of a manager's, or a socket of a server.
File(s, kind) == [srv |-> s, kind |-> kind, sock |-> Nil]
SockFile(c)   == [srv |-> Home(c), kind |-> "sock", sock |-> c]
Files == [srv : Server, kind : Slot \cup {"sock"}, sock : Sock \cup {Nil}]

ASSUME NilAssumption == Nil \notin Files

VARIABLES
  pc,          \* where main stands ...
  srv,         \* ... in a call on which server
  fail,        \* is it in the Stop that a failing Start calls
  cursor,      \* the descriptor CloseAllSocket has reached
  slot,        \* listen_socket_ and the four descriptors of each manager
  sockMap,     \* sock_object_map_ of each: descriptor -> socket
  cmdQ,        \* cmd_queue_ of each, disconnects only
  wpc,         \* where each worker stands
  hold,        \* the socket it is accepting, reading or removing
  batch,       \* events it has not handled yet
  left,        \* count in ProcessCommand
  crashed,
  files,       \* kernel: the descriptor table
  watched,     \* kernel: sockets registered with the epoll of their server
  ready,       \* kernel: ready list of the epoll of each server
  client,      \* kernel: what has become of a socket
  unread,      \* kernel: sockets with data to read
  told,        \* ghost: has the listener heard OnConnect, OnDisconnect
  failed,      \* ghost: servers whose Start failed
  died,        \* ghost: servers whose worker ended because epoll_pwait failed
  missed,      \* ghost: sockets CloseAllSocket did not see
  over,        \* ghost: servers whose queue outgrew the count
  stolen       \* ghost: has close() hit a descriptor of another owner, or none

main   == <<pc, srv, fail, cursor>>
mgr    == <<slot, sockMap, cmdQ>>
worker == <<wpc, hold, batch, left>>
kernel == <<files, watched, ready, client, unread>>
ghost  == <<told, failed, died, missed, over, stolen>>
vars   == <<pc, srv, fail, cursor, slot, sockMap, cmdQ, wpc, hold, batch, left,
            crashed, files, watched, ready, client, unread, told, failed, died, missed,
            over, stolen>>

----------------------------------------------------------------------------
(* Helpers.                                                                 *)

HasStart(s) == slot[s].epoll # INVALID_FD

\* HasWorkStart: the thread was made and not joined.
HasWorkStart(s) == wpc[s] # "none"

\* The lowest number free.
Free == Min({f \in Fd : files[f] = Nil})

\* Open(file) gives a descriptor to a new file.
Open(file) == files' = [files EXCEPT ![Free] = file]

\* The file a descriptor number leads to.
At(f) == IF f \in Fd THEN files[f] ELSE Nil

\* The sockets among the descriptors of numbers.
SocksAt(numbers) == {c \in Sock : \E f \in numbers : At(f) = SockFile(c)}

\* close() of the number of each of the files owned.
CloseAll(numbers, owned) ==
  /\ files' = [f \in Fd |-> IF f \in numbers THEN Nil ELSE files[f]]
  /\ watched' = watched \ SocksAt(numbers)
  /\ stolen' = (stolen \/ \E f \in numbers : At(f) \notin owned)

\* The map of s may be in use by another thread than the one changing it.
Walking(s) == pc = "walk" /\ srv = s
Erasing(s) == wpc[s] = "erase"

\* TriggerCmdEvent: the event reaches the worker if the number it is written
\* to is still that of its eventfd.
Trigger(s, f) ==
  IF HasStart(s)
  THEN /\ cmdQ' = [cmdQ EXCEPT ![s] = Append(@, f)]
       /\ over' = IF Len(cmdQ[s]) >= CmdBudget THEN over \cup {s} ELSE over
       /\ ready' = [ready EXCEPT ![s] =
            IF At(slot[s].cmd) = File(s, "cmd") THEN @ \cup {"cmd"} ELSE @]
  ELSE UNCHANGED <<cmdQ, over, ready>>

Init ==
  /\ pc = "listen" /\ srv = "tcp" /\ fail = FALSE /\ cursor = 0
  /\ slot = [s \in Server |-> [k \in Slot |-> INVALID_FD]]
  /\ sockMap = [s \in Server |-> [f \in Fd |-> Nil]]
  /\ cmdQ = [s \in Server |-> <<>>]
  /\ wpc = [s \in Server |-> "none"]
  /\ hold = [s \in Server |-> Nil]
  /\ batch = [s \in Server |-> {}]
  /\ left = [s \in Server |-> 0]
  /\ crashed = FALSE
  /\ files = [f \in Fd |-> Nil]
  /\ watched = {}
  /\ ready = [s \in Server |-> {}]
  /\ client = [c \in Sock |-> "new"]
  /\ unread = {}
  /\ told = [c \in Sock |-> "none"]
  /\ failed = {} /\ died = {} /\ missed = {} /\ over = {}
  /\ stolen = FALSE

----------------------------------------------------------------------------
(* Main: Start.                                                             *)

\* What main does when a Start has returned.
AfterStart(s) ==
  IF s = "tcp" THEN pc' = "epoll" /\ srv' = "udp" ELSE pc' = "add" /\ srv' = "udp"

StartFails(s) ==
  /\ failed' = failed \cup {s}
  /\ AfterStart(s)

\* CreateListenSocket.  When setsockopt, bind or listen fails the socket is
\* closed and listen_socket_ keeps its number; when socket() fails it has none.
CreateListenSocket ==
  /\ pc = "listen"
  /\ \/ /\ slot' = [slot EXCEPT !["tcp"].listen = Free]
        /\ Open(File("tcp", "listen"))
        /\ pc' = "epoll"
        /\ UNCHANGED <<srv, failed>>
     \/ /\ slot' = [slot EXCEPT !["tcp"].listen = Free]
        /\ StartFails("tcp")
        /\ UNCHANGED files
     \/ /\ StartFails("tcp")
        /\ UNCHANGED <<slot, files>>
  /\ UNCHANGED <<fail, cursor, sockMap, cmdQ, worker, crashed, watched, ready,
                 client, unread, told, died, missed, over, stolen>>

\* The step of SocketManager::Start that makes a descriptor, and the next.
NextStep == [epoll |-> "cmd", cmd |-> "exit", exit |-> "timer", timer |-> "thread"]

Make ==
  /\ pc \in DOMAIN NextStep
  /\ slot' = [slot EXCEPT ![srv][pc] = Free]
  /\ Open(File(srv, pc))
  /\ pc' = NextStep[pc]
  /\ UNCHANGED <<srv, fail, cursor, sockMap, cmdQ, worker, crashed, watched, ready,
                 client, unread, ghost>>

\* Mutant of MakeFails: the number of the closed timer is remembered.
TimerKept ==
  /\ pc = "timer"
  /\ slot' = [slot EXCEPT ![srv].timer = Free]
  /\ pc' = "teardown" /\ fail' = TRUE
  /\ UNCHANGED <<srv, cursor, sockMap, cmdQ, worker, crashed, files, watched, ready,
                 client, unread, ghost>>

\* It fails, and Start calls Stop: nothing is queued and no thread runs.  A
\* timer whose timerfd_settime fails is not closed.
MakeFails ==
  /\ pc \in DOMAIN NextStep \ {"epoll"}
  /\ pc' = "teardown" /\ fail' = TRUE
  /\ \/ UNCHANGED files
     \/ pc = "timer" /\ Open(File(srv, "timer"))
  /\ UNCHANGED <<srv, cursor, mgr, worker, crashed, watched, ready, client, unread, ghost>>

\* Start returns -1, and TcpServer::Start closes its listening socket.
ManagerFails(s) ==
  /\ StartFails(s)
  /\ IF s = "tcp"
     THEN CloseAll({slot[s].listen} \cap Fd, {File(s, "listen")})
     ELSE UNCHANGED <<files, watched, stolen>>

NoEpoll ==
  /\ pc = "epoll"
  /\ ManagerFails(srv)
  /\ UNCHANGED <<fail, cursor, mgr, worker, crashed, ready, client, unread, told, died,
                 missed, over>>

StartWorkThread ==
  /\ pc = "thread"
  /\ \/ /\ wpc' = [wpc EXCEPT ![srv] = "loop"]
        /\ IF srv = "tcp" THEN pc' = "accept" /\ UNCHANGED srv ELSE AfterStart("udp")
        /\ UNCHANGED fail
     \/ /\ pc' = "teardown" /\ fail' = TRUE
        /\ UNCHANGED <<srv, wpc>>
  /\ UNCHANGED <<cursor, mgr, hold, batch, left, crashed, kernel, ghost>>

\* StartAccept registers the listening socket.
StartAccept ==
  /\ pc = "accept"
  /\ ready' = [ready EXCEPT !["tcp"] =
       IF \E c \in Client : client[c] = "queued" THEN @ \cup {"listen"} ELSE @]
  /\ AfterStart("tcp")
  /\ UNCHANGED <<fail, cursor, mgr, worker, crashed, files, watched, client, unread, ghost>>

\* The ports are added in a fixed order.
NextPort == CHOOSE c \in Port : client[c] = "new"

\* AddUdpSocket, on main's thread: it fails, or the socket is given to the
\* manager, started or not.  AddSocketObject refuses a number the worker has
\* not erased yet; AddUdpSocket ignores that.  Insertion, registration and
\* OnConnect are one step: the worker may tell the listener of the port before
\* main does, and nothing is said here of the order of the two.
AddListenSocket(c) ==
  /\ pc = "add"
  /\ client[c] = "new" /\ c = NextPort
  /\ \/ /\ client' = [client EXCEPT ![c] = "closed"]
        /\ UNCHANGED <<sockMap, files, watched, missed, told, crashed>>
     \/ /\ client' = [client EXCEPT ![c] = "open"]
        /\ Open(SockFile(c))
        /\ told' = [told EXCEPT ![c] = "hi"]
        /\ IF sockMap["udp"][Free] = Nil
           THEN /\ sockMap' = [sockMap EXCEPT !["udp"][Free] = c]
                /\ watched' = IF HasStart("udp") THEN watched \cup {c} ELSE watched
                /\ crashed' \in {FALSE, Erasing("udp")}
                /\ UNCHANGED missed
           ELSE /\ missed' = missed \cup {c}
                /\ UNCHANGED <<sockMap, watched, crashed>>
  /\ UNCHANGED <<main, slot, cmdQ, worker, ready, unread, failed, died, over, stolen>>

\* Both servers are started: main loops until ":q" is typed.
Started ==
  /\ pc = "add"
  /\ \A c \in Port : client[c] # "new"
  /\ pc' = "run"
  /\ UNCHANGED <<srv, fail, cursor, mgr, worker, crashed, kernel, ghost>>

ExitFlagSet ==
  /\ pc = "run"
  /\ pc' = "close" /\ srv' = "tcp"
  /\ UNCHANGED <<fail, cursor, mgr, worker, crashed, kernel, ghost>>

----------------------------------------------------------------------------
(* Main: Stop.                                                              *)

\* CloseListenSocket closes the number listen_socket_ has, a second time if
\* Start closed it.
CloseListenSocket ==
  /\ pc = "close"
  /\ CloseAll({slot["tcp"].listen} \cap Fd, {File("tcp", "listen")})
  /\ ready' = [s \in Server |-> (ready[s] \ SocksAt({slot["tcp"].listen} \cap Fd))
                                 \ (IF s = "tcp" THEN {"listen"} ELSE {})]
  /\ pc' = "walk" /\ cursor' = 0
  /\ UNCHANGED <<srv, fail, mgr, worker, crashed, client, unread, told, failed, died, missed, over>>

\* The entries CloseAllSocket has still to visit.
Ahead == {f \in Fd : f > cursor /\ sockMap[srv][f] # Nil}

\* The socket whose removal the worker of s has begun, if any.
Removing(s) == IF Erasing(s) THEN hold[s] ELSE Nil

\* CloseAllSocket: an entry, skipped if its object is invalid ...
CloseNext ==
  /\ pc = "walk"
  /\ Ahead # {}
  /\ cursor' = Min(Ahead)
  /\ IF sockMap[srv][Min(Ahead)] = Removing(srv)
     THEN UNCHANGED <<cmdQ, over, ready>>
     ELSE Trigger(srv, Min(Ahead))
  /\ UNCHANGED <<pc, srv, fail, slot, sockMap, worker, crashed, files, watched, client, unread,
                 told, failed, died, missed, stolen>>

\* ... or the end of the map.
CloseAllDone ==
  /\ pc = "walk"
  /\ Ahead = {}
  /\ pc' = "stop"
  /\ UNCHANGED <<srv, fail, cursor, mgr, worker, crashed, kernel, ghost>>

\* Mutant of StopWorkThread: the exit event is not written.
NoExitSignal ==
  /\ pc = "stop"
  /\ pc' = IF HasWorkStart(srv) THEN "join" ELSE "teardown"
  /\ UNCHANGED <<srv, fail, cursor, mgr, worker, crashed, kernel, ghost>>

\* SocketManager::Stop: the 100 ms it waits for a queue guarantee nothing.
\* Then the exit event, if there is a thread to join.
StopWorkThread ==
  /\ pc = "stop"
  /\ IF HasWorkStart(srv)
     THEN /\ pc' = "join"
          /\ ready' = [ready EXCEPT ![srv] =
               IF At(slot[srv].exit) = File(srv, "exit") THEN @ \cup {"exit"} ELSE @]
     ELSE /\ pc' = "teardown"
          /\ UNCHANGED ready
  /\ UNCHANGED <<srv, fail, cursor, mgr, worker, crashed, files, watched, client, unread, ghost>>

\* Mutant of Join: the worker is not waited for.
JoinSkipped ==
  /\ pc = "join"
  /\ pc' = "teardown"
  /\ UNCHANGED <<srv, fail, cursor, mgr, worker, crashed, kernel, ghost>>

Join ==
  /\ pc = "join"
  /\ wpc[srv] = "ended"
  /\ wpc' = [wpc EXCEPT ![srv] = "joined"]
  /\ pc' = "teardown"
  /\ UNCHANGED <<srv, fail, cursor, mgr, hold, batch, left, crashed, kernel, ghost>>

\* What the manager of s closes: the numbers it has.
ManagerFds(s) == {slot[s][k] : k \in Slot \ {"listen"}} \cap Fd

\* Mutant of Emptied: Reset is not called.
EmptiedNoReset(s) ==
  /\ cmdQ' = [cmdQ EXCEPT ![s] = <<>>]
  /\ sockMap' = [sockMap EXCEPT ![s] = [f \in Fd |-> Nil]]
  /\ UNCHANGED slot

\* The queue and the objects are deleted, without closing the sockets, and
\* Reset forgets the descriptors.
Emptied(s) ==
  /\ cmdQ' = [cmdQ EXCEPT ![s] = <<>>]
  /\ sockMap' = [sockMap EXCEPT ![s] = [f \in Fd |-> Nil]]
  /\ slot' = [slot EXCEPT ![s] = [k \in Slot |->
                IF k = "listen" THEN @[k] ELSE INVALID_FD]]

OwnFiles(s) == {File(s, k) : k \in Slot}

\* The rest of Stop, for main ...
Teardown ==
  /\ pc = "teardown"
  /\ ~fail
  /\ IF HasStart(srv)
     THEN Emptied(srv) /\ CloseAll(ManagerFds(srv), OwnFiles(srv))
     ELSE UNCHANGED <<mgr, files, watched, stolen>>
  /\ IF srv = "tcp" THEN pc' = "walk" /\ srv' = "udp" /\ cursor' = 0
                    ELSE pc' = "done" /\ UNCHANGED <<srv, cursor>>
  /\ UNCHANGED <<fail, worker, crashed, ready, client, unread, told, failed, died, missed, over>>

\* ... and inside a Start that fails.
TeardownOfStart ==
  /\ pc = "teardown"
  /\ fail
  /\ Emptied(srv)
  /\ CloseAll(ManagerFds(srv) \cup (IF srv = "tcp" THEN {slot[srv].listen} ELSE {}),
              OwnFiles(srv))
  /\ StartFails(srv)
  /\ fail' = FALSE
  /\ UNCHANGED <<cursor, worker, crashed, ready, client, unread, told, died, missed, over>>

----------------------------------------------------------------------------
(* Clients and ports.                                                       *)

Listening == At(slot["tcp"].listen) = File("tcp", "listen")

\* The listening socket is registered with epoll.
Accepting ==
  /\ Listening
  /\ "tcp" \notin failed
  /\ srv = "tcp" => pc \notin {"epoll", "cmd", "exit", "timer", "thread", "accept", "teardown"}

ClientConnects(c) ==
  /\ client[c] = "new"
  /\ Listening
  /\ client' = [client EXCEPT ![c] = "queued"]
  /\ ready' = IF Accepting THEN [ready EXCEPT !["tcp"] = @ \cup {"listen"}] ELSE ready
  /\ UNCHANGED <<main, mgr, worker, crashed, files, watched, unread, ghost>>

\* Something for socket c arrives.  What came before the socket is registered
\* is reported when it is.
Arrives(c) ==
  ready' = IF c \in watched THEN [ready EXCEPT ![Home(c)] = @ \cup {c}] ELSE ready

\* A peer sends.
PeerSends(c) ==
  /\ c \in Sending
  /\ client[c] = "open" /\ c \notin unread
  /\ unread' = unread \cup {c}
  /\ Arrives(c)
  /\ UNCHANGED <<main, mgr, worker, crashed, files, watched, client, ghost>>

\* A client closes, or an empty datagram reaches a port: read returns 0.
PeerEnds(c) ==
  /\ c \in Ending
  /\ client[c] = "open"
  /\ client' = [client EXCEPT ![c] = "ended"]
  /\ Arrives(c)
  /\ UNCHANGED <<main, mgr, worker, crashed, files, watched, unread, ghost>>

----------------------------------------------------------------------------
(* The worker of a server.                                                  *)

\* The worker is in epoll_pwait, or about to call it.
Idle(s) == wpc[s] = "loop" /\ batch[s] = {}

\* Mutant of Reported: the events of a batch are dropped when the exit event
\* is among them.
ExitFirst(s) == IF "exit" \in ready[s] THEN {"exit"} ELSE ready[s]

\* What one call reports.  The code's calls report max_events_ at most, in the
\* order of arrival: a list that is longer comes in several batches, of which
\* those behind the exit event are lost.  Main's commands are never behind it.
Reported(s) == ready[s]

\* It returns events, though the number of the epoll may have been closed
\* while it was waiting.
EpollReturns(s) ==
  /\ Idle(s)
  /\ ready[s] # {}
  /\ batch' = [batch EXCEPT ![s] = Reported(s)]
  /\ ready' = [ready EXCEPT ![s] = {}]
  /\ UNCHANGED <<main, mgr, wpc, hold, left, crashed, files, watched, client, unread, ghost>>

\* Any error ends DoWork.
EpollFails(s) ==
  /\ Idle(s)
  /\ wpc' = [wpc EXCEPT ![s] = "ended"]
  /\ died' = died \cup {s}
  /\ UNCHANGED <<main, mgr, hold, batch, left, crashed, kernel, told, failed, missed,
                 over, stolen>>

\* It is called with a number that leads to something else ...
NoSuchEpoll(s) == At(slot[s].epoll) # File(s, "epoll") /\ EpollFails(s)

\* ... or a signal interrupts it: EINTR is an error like any other.
Interrupted(s) == EpollFails(s)

\* ProcessExit only clears bRun: wherever it stands in a batch, the rest of
\* the batch is handled before DoWork ends.
WorkEnds(s) ==
  /\ wpc[s] = "loop"
  /\ batch[s] = {"exit"}
  /\ batch' = [batch EXCEPT ![s] = {}]
  /\ wpc' = [wpc EXCEPT ![s] = "ended"]
  /\ UNCHANGED <<main, mgr, hold, left, crashed, kernel, ghost>>

\* HandleAccept: accept() on the number listen_socket_ has.  When fcntl fails
\* the handler returns and nobody closes the new socket ...
Accept ==
  /\ wpc["tcp"] = "loop"
  /\ "listen" \in batch["tcp"]
  /\ batch' = [batch EXCEPT !["tcp"] = @ \ {"listen"}]
  /\ IF Listening /\ \E c \in Client : client[c] = "queued"
     THEN \E c \in Client :
            /\ client[c] = "queued"
            /\ Open(SockFile(c))
            /\ \/ /\ client' = [client EXCEPT ![c] = "open"]
                  /\ hold' = [hold EXCEPT !["tcp"] = c]
                  /\ wpc' = [wpc EXCEPT !["tcp"] = "add"]
               \/ /\ client' = [client EXCEPT ![c] = "leaked"]
                  /\ UNCHANGED <<hold, wpc>>
     ELSE UNCHANGED <<client, files, hold, wpc>>
  /\ UNCHANGED <<main, mgr, left, crashed, watched, ready, unread, ghost>>

\* CloseAllSocket has passed the place of number f in the map of s.
Passed(s, f) ==
  srv = s /\ (pc \in {"stop", "join"} \/ (pc = "walk" /\ cursor >= f))

\* ... AddTcpSocket and OnConnect.  The number is never in the map: the
\* worker that removes entries is the one that accepts.
AddTcpSocket ==
  /\ wpc["tcp"] = "add"
  /\ LET c == hold["tcp"]
         f == CHOOSE n \in Fd : files[n] = SockFile(c) IN
       /\ sockMap' = [sockMap EXCEPT !["tcp"][f] = c]
       /\ watched' = watched \cup {c}
       /\ ready' = IF client[c] = "ended" \/ c \in unread
                   THEN [ready EXCEPT !["tcp"] = @ \cup {c}] ELSE ready
       /\ told' = [told EXCEPT ![c] = "hi"]
       /\ missed' = IF Passed("tcp", f) THEN missed \cup {c} ELSE missed
  /\ crashed' \in {FALSE, Walking("tcp")}
  /\ hold' = [hold EXCEPT !["tcp"] = Nil]
  /\ wpc' = [wpc EXCEPT !["tcp"] = "loop"]
  /\ UNCHANGED <<main, slot, cmdQ, batch, left, files, client, unread, failed, died, over, stolen>>

\* read() of socket c by number f.  It returns data, DoRead is called and the
\* loop goes on; or EWOULDBLOCK; or 0, or an error if the number leads
\* elsewhere by now: CloseSocket.  An empty datagram is read once, the end of a
\* connection as often as asked.
Read(s, c, f) ==
  \/ /\ files[f] = SockFile(c) /\ c \in unread
     /\ unread' = unread \ {c}
     /\ hold' = [hold EXCEPT ![s] = c]
     /\ wpc' = [wpc EXCEPT ![s] = "read"]
     /\ UNCHANGED <<cmdQ, over, ready, client>>
  \/ /\ files[f] = SockFile(c) => c \notin unread
     /\ hold' = [hold EXCEPT ![s] = Nil]
     /\ wpc' = [wpc EXCEPT ![s] = "loop"]
     /\ UNCHANGED unread
     /\ IF files[f] = SockFile(c) /\ client[c] # "ended"
        THEN UNCHANGED <<cmdQ, over, ready, client>>
        ELSE /\ Trigger(s, f)
             /\ client' = IF c \in Port /\ client[c] = "ended"
                          THEN [client EXCEPT ![c] = "open"] ELSE client

\* HandleReceive, of an object that is not gone ...
HandleReceive(s, c) ==
  /\ wpc[s] = "loop"
  /\ c \in batch[s]
  /\ batch' = [batch EXCEPT ![s] = @ \ {c}]
  /\ IF \E f \in Fd : sockMap[s][f] = c
     THEN \E f \in Fd : sockMap[s][f] = c /\ Read(s, c, f)
     ELSE UNCHANGED <<wpc, hold, cmdQ, over, ready, client, unread>>
  /\ UNCHANGED <<main, slot, sockMap, left, crashed, files, watched, told, failed, died,
                 missed, stolen>>

\* ... reads until there is no more: the loop has no other bound.
ReadNext(s, c) ==
  /\ wpc[s] = "read"
  /\ hold[s] = c
  /\ \E f \in Fd : sockMap[s][f] = c /\ Read(s, c, f)
  /\ UNCHANGED <<main, slot, sockMap, batch, left, crashed, files, watched, told, failed,
                 died, missed, stolen>>

StartCommands(s) ==
  /\ wpc[s] = "loop"
  /\ "cmd" \in batch[s]
  /\ batch' = [batch EXCEPT ![s] = @ \ {"cmd"}]
  /\ left' = [left EXCEPT ![s] = CmdBudget]
  /\ wpc' = [wpc EXCEPT ![s] = "command"]
  /\ UNCHANGED <<main, mgr, hold, crashed, kernel, ghost>>

CommandsDone(s) ==
  /\ wpc[s] = "command"
  /\ cmdQ[s] = <<>> \/ left[s] = 0
  /\ left' = [left EXCEPT ![s] = 0]
  /\ wpc' = [wpc EXCEPT ![s] = "loop"]
  /\ UNCHANGED <<main, mgr, hold, batch, crashed, kernel, ghost>>

\* Mutant of Executing: the count does not stop the loop.
CountIgnored(s) == wpc[s] = "command" /\ cmdQ[s] # <<>>

\* The command at the head, and the socket it names.
Executing(s) == wpc[s] = "command" /\ cmdQ[s] # <<>> /\ left[s] > 0
Named(s)     == sockMap[s][Head(cmdQ[s])]

PopCommand(s) ==
  /\ cmdQ' = [cmdQ EXCEPT ![s] = Tail(@)]
  /\ left' = [left EXCEPT ![s] = @ - 1]

CommandNotFound(s) ==
  /\ Executing(s)
  /\ Named(s) = Nil
  /\ PopCommand(s)
  /\ UNCHANGED <<main, slot, sockMap, wpc, hold, batch, crashed, kernel, ghost>>

\* RemoveSocketObject: OnDisconnect and close ...
RemoveClose(s) ==
  /\ Executing(s)
  /\ Named(s) # Nil
  /\ told' = [told EXCEPT ![Named(s)] = "bye"]
  /\ hold' = [hold EXCEPT ![s] = Named(s)]
  /\ CloseAll({Head(cmdQ[s])}, {SockFile(Named(s))})
  /\ ready' = [ready EXCEPT ![s] = @ \ {Named(s)}]
  /\ client' = [client EXCEPT ![Named(s)] = "closed"]
  /\ unread' = unread \ {Named(s)}
  /\ wpc' = [wpc EXCEPT ![s] = "erase"]
  /\ UNCHANGED <<main, mgr, batch, left, crashed, failed, died, missed, over>>

\* ... and map::erase, while main may be inside the same map.
RemoveErase(s) ==
  /\ Erasing(s)
  /\ sockMap' = [sockMap EXCEPT ![s][Head(cmdQ[s])] = Nil]
  /\ crashed' \in {FALSE, Walking(s)}
  /\ PopCommand(s)
  /\ hold' = [hold EXCEPT ![s] = Nil]
  /\ wpc' = [wpc EXCEPT ![s] = "command"]
  /\ UNCHANGED <<main, slot, batch, kernel, ghost>>

----------------------------------------------------------------------------
MainStep ==
  \/ CreateListenSocket \/ Make \/ MakeFails \/ NoEpoll \/ StartWorkThread
  \/ StartAccept \/ Started
  \/ \E c \in Port : AddListenSocket(c)
  \/ CloseListenSocket \/ CloseNext \/ CloseAllDone
  \/ StopWorkThread \/ Join \/ Teardown \/ TeardownOfStart

WorkerStep(s) ==
  \/ EpollReturns(s) \/ NoSuchEpoll(s) \/ WorkEnds(s)
  \/ s = "tcp" /\ (Accept \/ AddTcpSocket)
  \/ \E c \in Sock : HandleReceive(s, c) \/ ReadNext(s, c)
  \/ StartCommands(s) \/ CommandsDone(s) \/ CommandNotFound(s)
  \/ RemoveClose(s) \/ RemoveErase(s)

Environment ==
  \/ ExitFlagSet
  \/ \E c \in Client : ClientConnects(c)
  \/ \E c \in Sock : PeerSends(c) \/ PeerEnds(c)
  \/ \E s \in Server : Interrupted(s)

Next ==
  /\ ~crashed
  /\ MainStep \/ Environment \/ \E s \in Server : WorkerStep(s)

Spec == Init /\ [][Next]_vars

\* Main and the workers run when they can.  Nothing makes the user type ":q",
\* a client act or a signal come.
FairSpec ==
  /\ Spec
  /\ WF_vars(~crashed /\ MainStep)
  /\ \A s \in Server : WF_vars(~crashed /\ WorkerStep(s))
----------------------------------------------------------------------------
(* Properties.                                                              *)

\* Every variable keeps its type.
TypeOK ==
  /\ pc \in {"listen", "epoll", "cmd", "exit", "timer", "thread", "accept", "add", "run",
             "close", "walk", "stop", "join", "teardown", "done"}
  /\ srv \in Server
  /\ fail \in BOOLEAN
  /\ cursor \in 0..NumFds
  /\ slot \in [Server -> [Slot -> 0..NumFds]]
  /\ sockMap \in [Server -> [Fd -> Sock \cup {Nil}]]
  /\ cmdQ \in [Server -> Seq(Fd)]
  /\ wpc \in [Server -> {"none", "loop", "add", "read", "command", "erase",
                         "ended", "joined"}]
  /\ hold \in [Server -> Sock \cup {Nil}]
  /\ batch \in [Server -> SUBSET ({"cmd", "exit", "listen"} \cup Sock)]
  /\ left \in [Server -> 0..CmdBudget]
  /\ crashed \in BOOLEAN
  /\ files \in [Fd -> Files \cup {Nil}]
  /\ watched \in SUBSET Sock
  /\ ready \in [Server -> SUBSET ({"cmd", "exit", "listen"} \cup Sock)]
  /\ client \in [Sock -> {"new", "queued", "open", "ended", "closed", "leaked"}]
  /\ unread \in SUBSET Sock
  /\ told \in [Sock -> {"none", "hi", "bye"}]
  /\ failed \in SUBSET Server
  /\ died \in SUBSET Server
  /\ missed \in SUBSET Sock
  /\ over \in SUBSET Server
  /\ stolen \in BOOLEAN

\* After main has stopped both servers no worker runs, no command or object
\* is left in a server that started, and every descriptor a manager made is
\* closed, whichever step of Start failed and whatever was going on: but for
\* a timer timerfd_settime refused.
StoppedIsClean ==
  pc = "done" =>
    /\ \A s \in Server : wpc[s] \in {"none", "joined"} /\ ~HasStart(s) /\ cmdQ[s] = <<>>
    /\ \A s \in Server \ failed : sockMap[s] = [f \in Fd |-> Nil]
    /\ \A f \in Fd, s \in Server :
         files[f] \in OwnFiles(s) => files[f].kind = "timer" /\ s \in failed

\* As long as TcpServer::Start did not fail, no close() hits a descriptor that
\* is not its caller's: not in a failing Start of the other server, not when
\* the worker and main close at the same time.  After it has, Stop closes
\* listen_socket_ again, and the number may be the UdpServer's.
ClosesItsOwn == stolen => "tcp" \in failed

\* Before Stop returns, a socket the listener was told of is told of its end,
\* and every socket is closed, unless
\* CloseAllSocket did not see it (it was being accepted, or refused by
\* AddSocketObject), more commands were queued than one wakeup executes, the
\* manager had not started or its worker had ended early, or fcntl failed when
\* it was accepted.
EveryoneTold ==
  pc = "done" =>
    \A c \in Sock :
      told[c] = "hi" \/ (\E f \in Fd : files[f] = SockFile(c)) =>
        \/ c \in missed
        \/ Home(c) \in over \cup died \cup failed
        \/ client[c] = "leaked" /\ told[c] = "none"

\* Once Stop has torn a server down its listener is not called: only a
\* manager that is started calls it, or main itself in AddListenSocket.
NoCallbackAfterStop ==
  [][\A c \in Sock : told'[c] # told[c] => HasStart(Home(c)) \/ pc = "add"]_vars

\* From some time on no peer sends.
PeersPause == <>[][unread' \subseteq unread]_vars

\* Once the peers pause, Stop returns: the worker sees the exit event although
\* the number of its epoll descriptor may have been closed, or has ended
\* before.  A peer that goes on sending keeps the worker in its read loop, and
\* pthread_join waits for it.
StopReturns == PeersPause => (pc = "close" ~> pc = "done" \/ crashed)
=============================================================================
