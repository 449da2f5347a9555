-------------------------- MODULE LifecycleProofs --------------------------
(***************************************************************************)
(* Proofs about Lifecycle, second part: what holds of every run.  Types,    *)
(* whose descriptors are closed, what Stop leaves, and that every socket is *)
(* told its end, which needs what becomes of a command from its queueing    *)
(* to its execution.                                                        *)
(***************************************************************************)
EXTENDS LifecycleSteps

----------------------------------------------------------------------------
(* The rest of the inductive invariant.                                     *)

\* A manager finds its eventfd under the number it has for it: CloseListenSocket
\* may close the UdpServer's epoll, which takes the lowest number, but no other
\* descriptor.
Unready(s) == Unbegun(s) \/ (InStart /\ srv = s /\ pc # "accept")
FirstNumber ==
  /\ slot["tcp"].listen \in {0, 1}
  /\ "tcp" \notin failed /\ pc # "listen" => slot["tcp"].listen = 1
  /\ pc = "listen" => \A f \in Fd : files[f] = Nil
  /\ pc = "cmd" => files[1] # Nil
CmdLeads ==
  \A s \in Server :
    /\ slot[s].cmd # 1
    /\ slot[s].cmd # 0 => files[slot[s].cmd] = File(s, "cmd") /\ sockMap[s][slot[s].cmd] = Nil
    /\ HasStart(s) => slot[s].cmd # 0 \/ (srv = s /\ (pc = "cmd" \/ fail))
    /\ Unready(s) => \A f \in Fd : sockMap[s][f] = Nil
CmdEvent == FirstNumber /\ CmdLeads

\* The map of a server that was started and torn down is empty.
Swept == \A s \in Server \ failed : Torn(s) => sockMap[s] = [f \in Fd |-> Nil]

\* While a queue has never outgrown the count, its worker has been woken for
\* all of it, and finishes it before it sees the exit event.
Woken(s) ==
  /\ Len(cmdQ[s]) =< CmdBudget
  /\ cmdQ[s] # <<>> => "cmd" \in ready[s] \cup batch[s] \/ wpc[s] \in {"command", "erase"}
  /\ wpc[s] \in {"command", "erase"} => "cmd" \in ready[s] \/ left[s] >= Len(cmdQ[s])
  /\ wpc[s] \in {"command", "erase"} /\ "exit" \in batch[s] => left[s] >= Len(cmdQ[s])
Wake == \A s \in Server : Active(s) /\ s \notin over => Woken(s)

\* Main writes the exit event when it comes to wait for the worker, which
\* ends then or dies early.
ExitLast ==
  \A s \in Server :
    /\ Active(s) /\ "exit" \in ready[s] \cup batch[s] => pc = "join" /\ srv = s
    /\ wpc[s] = "ended" => s \in died \/ (pc = "join" /\ srv = s)

\* A worker finds no commands and no exit event when it begins.
Fresh ==
  \A s \in Server : Unbegun(s) \/ (InStart /\ srv = s /\ pc # "accept") =>
    cmdQ[s] = <<>> /\ "exit" \notin ready[s] \cup batch[s]

\* A socket somebody has to be told of, and who is excused.
Owed(c) == told[c] = "hi" \/ \E f \in Fd : files[f] = SockFile(c)
Excused(c) ==
  \/ c \in missed
  \/ Home(c) \in over \cup died \cup failed
  \/ client[c] = "leaked" /\ told[c] = "none"

\* It is being accepted, or in the map; once CloseAllSocket has passed it,
\* with a disconnect.
Held(c) == wpc["tcp"] = "add" /\ hold["tcp"] = c
Queued(s, f) == \E i \in 1..Len(cmdQ[s]) : cmdQ[s][i] = f
Placed(c) ==
  /\ told[c] = "hi"
  /\ \E f \in Fd : sockMap[Home(c)][f] = c /\ (Passed(Home(c), f) => Queued(Home(c), f))
Kept == \A c \in Sock : Owed(c) /\ ~Excused(c) => Held(c) \/ Placed(c)

\* When the exit event is all that is left, all were told but the socket that
\* is being accepted.
Quitting(s) ==
  \/ wpc[s] \in {"ended", "joined"}
  \/ (wpc[s] \in {"loop", "read", "add"} /\ "exit" \in batch[s] /\ "cmd" \notin batch[s])
AllTold == \A c \in Sock : Owed(c) /\ Quitting(Home(c)) => Excused(c) \/ Held(c)

Inv == Base /\ CmdEvent /\ Swept /\ Fresh /\ Wake /\ ExitLast /\ Kept /\ AllTold

----------------------------------------------------------------------------
(* The first invariant.                                                     *)

\* The table of descriptors, the maps and the threads of a process that has
\* just begun.
LEMMA BaseInit == Init => Base
<1> SUFFICES ASSUME Init PROVE Base
  OBVIOUS
<1> USE DEF Init
<1>1. Control
  BY ControlInit
<1>2. TypeOK
  <2>1. 0 \in 0..NumFds /\ 0 \in 0..CmdBudget /\ <<>> \in Seq(Fd)
    BY NumbersAssumption
  <2> QED
    BY <2>1 DEF TypeOK, Server, INVALID_FD
<1>3. \A s \in Server : wpc[s] = "none" /\ \A f \in Fd : sockMap[s][f] = Nil
  OBVIOUS
<1>4. WorkerHeld
  BY <1>3 DEF WorkerHeld, Server
<1>5. Table
  <2>1. OpenOnce
    BY DEF OpenOnce
  <2>2. Remembered /\ ListenClosed
    BY FileNames DEF Remembered, ListenClosed, Server, Slot
  <2>3. Untouched
    BY <1>3, FileNames DEF Untouched
  <2>4. Accepted /\ Erased
    BY <1>3 DEF Accepted, Erased, Server
  <2> QED
    BY <2>1, <2>2, <2>3, <2>4 DEF Table
<1>6. MapOnce
  BY <1>3 DEF MapOnce
<1>7. NumbersLead
  BY <1>3 DEF NumbersLead, Server, INVALID_FD
<1>8. ClosesItsOwn
  BY DEF ClosesItsOwn
<1> QED
  BY <1>1, <1>2, <1>4, <1>5, <1>6, <1>7, <1>8 DEF Base, Tables

\* Every step keeps all of it.
LEMMA BaseStep ==
  ASSUME Base, [Next]_vars PROVE Base'
BY ControlStep, TablesStep, TypeStep DEF Base, Tables

\* It holds as long as the program runs.
THEOREM BaseInvariant == Spec => []Base
<1>1. Init => Base
  BY BaseInit
<1>2. Base /\ [Next]_vars => Base'
  BY BaseStep
<1> QED
  BY <1>1, <1>2, PTL DEF Spec

\* Every variable of Lifecycle keeps its type; above all, main and the workers
\* always find a free number for what they open.
THEOREM TypeCorrect == Spec => []TypeOK
<1>1. Base => TypeOK
  BY DEF Base
<1> QED
  BY <1>1, BaseInvariant, PTL

\* Until TcpServer::Start fails no close() hits a descriptor of another owner.
THEOREM OwnDescriptorsClosed == Spec => []ClosesItsOwn
<1>1. Base => ClosesItsOwn
  BY DEF Base, Tables
<1> QED
  BY <1>1, BaseInvariant, PTL

----------------------------------------------------------------------------
(* The command event.                                                       *)

\* The first number is given out first.
LEMMA FirstFree ==
  ASSUME TypeOK PROVE 1 \in Fd /\ (files[1] = Nil => Free = 1)
<1>1. 1 \in Fd /\ Fd \subseteq Nat /\ \A f \in Fd : f >= 1
  <2>1. Cardinality(Client) \in Nat /\ Cardinality(Port) \in Nat
    BY NumbersAssumption, FS_Subset, FS_CardinalityType
  <2> QED
    BY <2>1, NumbersAssumption DEF Fd
<1>2. ASSUME files[1] = Nil PROVE Free = 1
  <2> DEFINE S == {f \in Fd : files[f] = Nil}
  <2>1. S \subseteq Nat /\ 1 \in S /\ \A f \in S : f >= 1
    BY <1>1, <1>2
  <2> HIDE DEF S
  <2>2. Min(S) \in S /\ Min(S) =< 1
    BY <2>1, MinIsLeast
  <2>3. Min(S) \in Nat /\ Min(S) >= 1
    BY <2>1, <2>2
  <2>4. Min(S) = 1
    <3> DEFINE m == Min(S)
    <3>1. m \in Nat /\ m >= 1 /\ m =< 1
      BY <2>2, <2>3
    <3> HIDE DEF m
    <3>2. m = 1
      BY <3>1
    <3> QED
      BY <3>2 DEF m
  <2> QED
    BY <2>4 DEF S, Free
<1> QED
  BY <1>1, <1>2

\* Main makes the eventfd in one step, after that of the epoll, and a server is
\* not started twice.
LEMMA CmdMade ==
  ASSUME Base, [Next]_vars
  PROVE  /\ pc = "cmd" => UNCHANGED <<pc, srv>> \/ Make \/ MakeFails
         /\ pc' = "cmd" => pc = "cmd" \/ Make
         /\ pc' = "listen" => pc = "listen"
         /\ pc = "listen" => UNCHANGED pc \/ CreateListenSocket
         /\ \A s \in Server : Unready(s)' => Unready(s)
<1> USE DEF Base
<1>0. srv \in Server /\ (fail => pc = "teardown") /\ (pc = "accept" => srv = "tcp")
  BY DEF TypeOK, Control, Places
<1>1. CASE OtherPart
  BY <1>1, ControlOther DEF Unready, Unbegun, InStart
<1>2. CASE UNCHANGED vars
  BY <1>2 DEF vars, Unready, Unbegun, InStart
<1>3. CASE MainPart
  <2> USE <1>0 DEF Unready, Unbegun, InStart, Server
  <2>1. CASE CreateListenSocket \/ Make \/ MakeFails
    BY <2>1 DEF CreateListenSocket, Make, MakeFails, StartFails, AfterStart, NextStep
  <2>2. CASE NoEpoll \/ StartWorkThread \/ StartAccept
    BY <2>2 DEF NoEpoll, ManagerFails, StartWorkThread, StartAccept, StartFails, AfterStart
  <2>3. CASE Started \/ ExitFlagSet \/ (\E c \in Port : AddListenSocket(c))
    <3>1. CASE Started
      BY <3>1 DEF Started
    <3>2. CASE ExitFlagSet
      BY <3>2 DEF ExitFlagSet
    <3>3. CASE \E c \in Port : AddListenSocket(c)
      <4>1. UNCHANGED <<pc, srv, fail>> /\ pc = "add"
        BY <3>3 DEF AddListenSocket, main
      <4> QED
        BY <4>1
    <3> QED
      BY <2>3, <3>1, <3>2, <3>3
  <2>4. CASE CloseListenSocket \/ CloseNext \/ CloseAllDone
    BY <2>4 DEF CloseListenSocket, CloseNext, CloseAllDone
  <2>5. CASE StopWorkThread \/ Join
    BY <2>5 DEF StopWorkThread, Join
  <2>6. CASE Teardown
    BY <2>6 DEF Teardown
  <2>7. CASE TeardownOfStart
    BY <2>7 DEF TeardownOfStart, StartFails, AfterStart
  <2> QED
    BY <1>3, <2>1, <2>2, <2>3, <2>4, <2>5, <2>6, <2>7 DEF MainPart
<1> QED
  BY <1>1, <1>2, <1>3, Parts

\* A step that closes only other numbers, and puts no socket under that of an
\* eventfd, leaves the eventfds where they are.
LEMMA CmdLeftAlone ==
  ASSUME Base, CmdEvent, [Next]_vars, UNCHANGED slot, ~Make, failed \subseteq failed',
         pc = "listen" => UNCHANGED <<pc, files>>,
         pc = "cmd" => \/ UNCHANGED <<pc, srv>> /\ files'[1] # Nil
                       \/ fail' /\ srv' = srv /\ pc' # "cmd",
         fail => fail' /\ srv' = srv,
         \A t \in Server : slot[t].cmd # 0 => files'[slot[t].cmd] = files[slot[t].cmd],
         \A t \in Server, f \in Fd : sockMap'[t][f] # sockMap[t][f] =>
           sockMap'[t][f] = Nil \/ (f # slot[t].cmd /\ ~Unready(t))
  PROVE  CmdEvent'
<1> USE DEF Base, CmdEvent
<1>1. FirstNumber'
  BY CmdMade DEF FirstNumber
<1>2. ASSUME NEW t \in Server
      PROVE  /\ slot[t].cmd # 1
             /\ slot[t].cmd # 0 =>
                  files'[slot[t].cmd] = File(t, "cmd") /\ sockMap'[t][slot[t].cmd] = Nil
             /\ HasStart(t) => slot[t].cmd # 0 \/ (srv' = t /\ (pc' = "cmd" \/ fail'))
             /\ Unready(t)' => \A f \in Fd : sockMap'[t][f] = Nil
  <2>1. slot[t].cmd \in 0..NumFds
    BY DEF TypeOK, Slot
  <2>2. slot[t].cmd # 0 => slot[t].cmd \in Fd
    BY <2>1 DEF Fd
  <2> QED
    BY <2>2, CmdMade DEF CmdLeads
<1>3. CmdLeads'
  BY <1>2 DEF CmdLeads, HasStart
<1> QED
  BY <1>1, <1>3

\* Before the first Start there is nothing.
LEMMA CmdInit == Init => CmdEvent
BY DEF Init, CmdEvent, FirstNumber, CmdLeads, HasStart, Server, Slot, INVALID_FD

\* What is opened is opened under a free number.
LEMMA OpenLeaves ==
  ASSUME TypeOK, CmdEvent, NEW x, x # Nil, Opens(x)
  PROVE  /\ files'[1] # Nil
         /\ \A s \in Server : slot[s].cmd # 0 => files'[slot[s].cmd] = files[slot[s].cmd]
<1>1. \A f \in Fd : files[f] # Nil => files'[f] = files[f]
  BY DEF Opens
<1>2. ASSUME NEW s \in Server, slot[s].cmd # 0
      PROVE  files'[slot[s].cmd] = files[slot[s].cmd]
  <2>1. slot[s].cmd \in Fd
    BY <1>2 DEF TypeOK, Slot, Fd
  <2>2. files[slot[s].cmd] # Nil
    BY <1>2, FileNames DEF CmdEvent, CmdLeads, Slot
  <2> QED
    BY <1>1, <2>1, <2>2
<1>3. files'[1] # Nil
  BY <1>1, FirstFree DEF Opens
<1> QED
  BY <1>2, <1>3

\* What is closed is not an eventfd.
LEMMA CloseLeaves ==
  ASSUME TypeOK, NEW numbers, Closes(numbers), \A s \in Server : slot[s].cmd \notin numbers
  PROVE  \A s \in Server : slot[s].cmd # 0 => files'[slot[s].cmd] = files[slot[s].cmd]
BY DEF Closes, TypeOK, Slot, Fd

\* Make writes the number of the eventfd, which is not the first.
LEMMA CmdMake ==
  ASSUME Base, CmdEvent, Make PROVE CmdEvent'
<1> USE DEF Base, CmdEvent
<1>0. /\ UNCHANGED <<srv, sockMap, fail, failed>> /\ srv \in Server /\ pc' = NextStep[pc]
      /\ pc \in {"epoll", "cmd", "exit", "timer"} /\ pc' \in {"cmd", "exit", "timer", "thread"}
      /\ pc' = "cmd" => pc = "epoll"
      /\ pc = "epoll" => pc' = "cmd"
      /\ Opens(File(srv, pc)) /\ File(srv, pc) # Nil /\ Free \in Fd /\ pc \in Slot
      /\ slot' = [slot EXCEPT ![srv][pc] = Free]
      /\ ~fail /\ Unready(srv)
  <2>1. /\ pc \in {"epoll", "cmd", "exit", "timer"} /\ srv \in Server /\ pc' = NextStep[pc]
        /\ pc' \in {"cmd", "exit", "timer", "thread"}
        /\ (pc' = "cmd" => pc = "epoll") /\ (pc = "epoll" => pc' = "cmd")
    BY DEF Make, NextStep, TypeOK
  <2>2. pc \in Slot
    BY <2>1 DEF Slot
  <2>3. Opens(File(srv, pc)) /\ Free \in Fd
    BY <2>1, OpensFree DEF Tables, Opens, Open, FreeIsFree, Make, TypeOK
  <2>4. File(srv, pc) # Nil
    BY <2>1, <2>2, FileNames
  <2>5. ~fail /\ Unready(srv)
    BY <2>1 DEF Control, Places, InStart, Unready
  <2>6. UNCHANGED <<srv, sockMap, fail, failed>> /\ slot' = [slot EXCEPT ![srv][pc] = Free]
    BY DEF Make, worker, ghost
  <2> QED
    BY <2>1, <2>2, <2>3, <2>4, <2>5, <2>6
<1>1. \A s \in Server, k \in Slot :
        slot'[s][k] = IF s = srv /\ k = pc THEN Free ELSE slot[s][k]
  BY <1>0 DEF TypeOK
<1>2. FirstNumber'
  BY <1>0, <1>1, OpenLeaves DEF FirstNumber, Server, Slot
<1>3. ASSUME NEW s \in Server
      PROVE  /\ slot'[s].cmd # 1
             /\ slot'[s].cmd # 0 =>
                  files'[slot'[s].cmd] = File(s, "cmd") /\ sockMap[s][slot'[s].cmd] = Nil
             /\ slot'[s].epoll # 0 => slot'[s].cmd # 0 \/ (srv = s /\ (pc' = "cmd" \/ fail))
             /\ Unready(s)' => \A f \in Fd : sockMap[s][f] = Nil
  <2>0. {"cmd", "epoll"} \subseteq Slot
    BY DEF Slot
  <2>1. Unready(s)' => Unready(s)
    BY <1>0 DEF Unready, Unbegun, InStart
  <2>2. CASE s = srv /\ pc = "cmd"
    <3>1. slot'[s].cmd = Free /\ Free # 0
      BY <1>0, <1>1, <2>0, <2>2 DEF Fd
    <3>2. Free # 1
      BY <1>0, <2>2 DEF FirstNumber, Opens
    <3> QED
      BY <1>0, <2>1, <2>2, <3>1, <3>2 DEF CmdLeads, Opens
  <2>3. CASE ~(s = srv /\ pc = "cmd")
    <3>1. slot'[s].cmd = slot[s].cmd
      BY <1>1, <2>0, <2>3
    <3>2. slot'[s].epoll # 0 => slot[s].epoll # 0 \/ (s = srv /\ pc' = "cmd")
      BY <1>0, <1>1, <2>0
    <3> QED
      BY <1>0, <2>1, <2>3, <3>1, <3>2, OpenLeaves DEF CmdLeads, HasStart, INVALID_FD
  <2> QED
    BY <2>2, <2>3
<1>4. CmdLeads'
  BY <1>0, <1>3 DEF CmdLeads, HasStart, INVALID_FD
<1> QED
  BY <1>2, <1>4

\* The numbers a manager closes are not another's eventfd.
LEMMA CmdTeardown ==
  ASSUME Base, CmdEvent, [Next]_vars, Teardown \/ TeardownOfStart PROVE CmdEvent'
<1> USE DEF Base, CmdEvent
<1>0. pc = "teardown" /\ srv \in Server /\ failed \subseteq failed'
  BY DEF Teardown, TeardownOfStart, StartFails, TypeOK
<1>1. CASE ~HasStart(srv) /\ Teardown
  BY <1>0, <1>1, CmdLeftAlone DEF Teardown, mgr, Make, NextStep
<1>2. CASE HasStart(srv) \/ TeardownOfStart
  <2>1. /\ Emptied(srv)
        /\ \E n \in {0, 1} : Closes(ManagerFds(srv) \cup {n})
        /\ fail' => FALSE
    <3>1. CASE Teardown
      <4>1. Emptied(srv) /\ Closes(ManagerFds(srv)) /\ ~fail'
        BY <1>2, <3>1 DEF Teardown, CloseAll, Closes, TeardownOfStart
      <4>2. Closes(ManagerFds(srv) \cup {0})
        BY <4>1 DEF Closes, Fd
      <4> QED
        BY <4>1, <4>2
    <3>2. CASE TeardownOfStart
      <4>1. Emptied(srv) /\ ~fail'
        BY <3>2 DEF TeardownOfStart
      <4>2. \E n \in {0, 1} : Closes(ManagerFds(srv) \cup {n})
        <5>1. CASE srv = "tcp"
          BY <3>2, <5>1 DEF TeardownOfStart, CloseAll, Closes, FirstNumber
        <5>2. CASE srv # "tcp"
          <6>1. Closes(ManagerFds(srv) \cup {0})
            BY <3>2, <5>2 DEF TeardownOfStart, CloseAll, Closes, Fd
          <6> QED
            BY <6>1
        <5> QED
          BY <5>1, <5>2
      <4> QED
        BY <4>1, <4>2
    <3> QED
      BY <3>1, <3>2
  <2>2. \A t \in Server, k \in Slot :
          slot'[t][k] = IF t = srv /\ k # "listen" THEN 0 ELSE slot[t][k]
    BY <1>0, <2>1, EmptiedSlots
  <2>3. \A t \in Server, f \in Fd : sockMap'[t][f] = IF t = srv THEN Nil ELSE sockMap[t][f]
    BY <1>0, <2>1, EmptiedSlots
  <2>4. ASSUME NEW t \in Server, t # srv, slot[t].cmd # 0
        PROVE  slot[t].cmd \notin ManagerFds(srv)
    <3>1. ~Off(t)
      BY <2>4 DEF Control, Slots, Slot, INVALID_FD
    <3>2. CASE "tcp" \in failed
      <4>1. t = "udp" /\ srv = "tcp"
        BY <1>0, <2>4, <3>1, <3>2 DEF Off, Server
      <4>2. ~fail /\ Teardown
        BY <3>2, <4>1 DEF Control, Places, InStart, Teardown, TeardownOfStart
      <4>3. \A k \in Slot \ {"listen"} : slot[srv][k] = 0
        BY <3>2, <4>1 DEF Control, Slots, Off, INVALID_FD, Server
      <4> QED
        BY <4>3 DEF ManagerFds, Fd
    <3>3. CASE "tcp" \notin failed
      <4>1. \A n \in ManagerFds(srv) : At(n) \in OwnFiles(srv) /\ n \in Fd
        BY <1>0, <3>3, ManagerOwns DEF ManagerFds
      <4>2. files[slot[t].cmd] = File(t, "cmd")
        BY <2>4 DEF CmdLeads
      <4> QED
        BY <1>0, <2>4, <4>1, <4>2, FileNames DEF At, OwnFiles, Slot
    <3> QED
      BY <3>2, <3>3
  <2>5. pc' # "cmd" /\ pc' # "listen" /\ \A s \in Server : Unready(s)' => Unready(s)
    BY <1>0, CmdMade DEF Make, NextStep
  <2>6. FirstNumber'
    BY <1>0, <2>2, <2>5 DEF FirstNumber, Server, Slot
  <2>7. ASSUME NEW t \in Server
        PROVE  /\ slot'[t].cmd # 1
               /\ slot'[t].cmd # 0 =>
                    files'[slot'[t].cmd] = File(t, "cmd") /\ sockMap'[t][slot'[t].cmd] = Nil
               /\ slot'[t].epoll # 0 => slot'[t].cmd # 0
               /\ Unready(t)' => \A f \in Fd : sockMap'[t][f] = Nil
    <3>0. {"cmd", "epoll"} \subseteq Slot \ {"listen"}
      BY DEF Slot
    <3>1. CASE t = srv
      BY <2>2, <2>3, <3>0, <3>1
    <3>2. CASE t # srv
      <4>1. slot'[t].cmd = slot[t].cmd /\ slot'[t].epoll = slot[t].epoll
        BY <2>2, <3>0, <3>2
      <4>2. slot[t].cmd # 0 => slot[t].cmd \in Fd
        BY <3>0 DEF TypeOK, Fd
      <4>3. slot[t].cmd # 0 => files'[slot[t].cmd] = files[slot[t].cmd]
        BY <2>1, <2>4, <3>2, <4>2 DEF Closes, CmdLeads
      <4> QED
        BY <1>0, <2>3, <2>5, <3>2, <4>1, <4>2, <4>3 DEF CmdLeads, HasStart, INVALID_FD
    <3> QED
      BY <3>1, <3>2
  <2>8. CmdLeads'
    BY <2>7 DEF CmdLeads, HasStart, INVALID_FD
  <2> QED
    BY <2>6, <2>8
<1> QED
  BY <1>1, <1>2

\* TcpServer::CreateListenSocket takes the first number, or fails.
LEMMA CmdListen ==
  ASSUME Base, CmdEvent, CreateListenSocket PROVE CmdEvent'
<1> USE DEF Base, CmdEvent
<1>0. /\ pc = "listen" /\ pc' = "epoll" /\ UNCHANGED sockMap
      /\ "cmd" \in Slot \ {"listen"} /\ "epoll" \in Slot \ {"listen"} /\ "listen" \in Slot
  BY DEF CreateListenSocket, StartFails, AfterStart, Slot
<1>1. \A s \in Server : slot[s].cmd = 0 /\ slot[s].epoll = 0
  BY <1>0 DEF Control, Slots, Off, Unbegun, INVALID_FD
<1>2. Free = 1 /\ 1 \in Fd
  BY <1>0, FirstFree DEF FirstNumber
<1>3. \/ slot' = [slot EXCEPT !["tcp"].listen = 1] /\ UNCHANGED failed
      \/ slot' = [slot EXCEPT !["tcp"].listen = 1] /\ failed' = failed \cup {"tcp"}
      \/ UNCHANGED slot /\ failed' = failed \cup {"tcp"}
  BY <1>2 DEF CreateListenSocket, StartFails
<1>4. /\ \A s \in Server : slot'[s].cmd = 0 /\ slot'[s].epoll = 0
      /\ slot'["tcp"].listen \in {1, slot["tcp"].listen}
      /\ "tcp" \notin failed' => slot'["tcp"].listen = 1
  BY <1>0, <1>1, <1>3 DEF TypeOK, Server
<1>5. FirstNumber'
  BY <1>0, <1>4 DEF FirstNumber
<1>6. CmdLeads'
  BY <1>0, <1>4 DEF CmdLeads, HasStart, INVALID_FD, Unready, Unbegun
<1> QED
  BY <1>5, <1>6

\* The number of a socket that is removed is not an eventfd's.
LEMMA CmdRemove ==
  ASSUME Base, CmdEvent, NEW s \in Server, RemoveClose(s)
  PROVE  /\ Closes({Head(cmdQ[s])}) /\ \A t \in Server : slot[t].cmd # Head(cmdQ[s])
         /\ pc = "cmd" => Head(cmdQ[s]) # 1
<1> USE DEF Base, CmdEvent
<1> DEFINE h == Head(cmdQ[s])
<1>1. /\ wpc[s] = "command" /\ h \in Fd /\ sockMap[s][h] # Nil /\ Closes({h})
  BY DEF RemoveClose, Executing, Named, CloseAll, Closes, TypeOK
<1> HIDE DEF h
<1>2. Active(s) /\ h # 0
  BY <1>1 DEF Active, Fd
<1>3. ~Unready(s) /\ s \notin failed
  BY <1>2 DEF Control, Threads, Unready, Active
<1>4. slot[s].cmd # h
  BY <1>1, <1>2 DEF CmdLeads
<1>5. CASE "tcp" \in failed
  <2>1. s = "udp"
    BY <1>3, <1>5 DEF Server
  <2>2. slot["tcp"].cmd = 0
    BY <1>5 DEF Control, Slots, Off, INVALID_FD, Server, Slot
  <2>3. pc # "cmd"
    BY <1>3, <2>1 DEF Unready, Unbegun, InStart, TypeOK, Server
  <2> QED
    BY <1>1, <1>2, <1>4, <2>1, <2>2, <2>3 DEF Server, h
<1>6. CASE "tcp" \notin failed
  <2>1. sockMap[s][h] \in Sock /\ files[h] = SockFile(sockMap[s][h])
    BY <1>1, <1>6 DEF Tables, NumbersLead, TypeOK
  <2>2. \A t \in Server : slot[t].cmd # h
    BY <1>2, <2>1, FileNames DEF CmdLeads, Slot
  <2>3. ASSUME pc = "cmd" PROVE h # 1
    <3>1. ~Unlistened /\ "listen" \in Slot /\ "tcp" \in Server
      BY <1>6, <2>3 DEF Unlistened, Slot, Server
    <3>2. slot["tcp"].listen = 1
      BY <1>6, <2>3 DEF FirstNumber
    <3>3. files[1] = File("tcp", "listen")
      BY <1>6, <3>1, <3>2 DEF Tables, NumbersLead, INVALID_FD
    <3> QED
      BY <2>1, <3>1, <3>3, FileNames
  <2> QED
    BY <1>1, <2>2, <2>3 DEF h
<1> QED
  BY <1>5, <1>6

\* Every step leaves the eventfds to be found.
LEMMA CmdStep ==
  ASSUME Base, CmdEvent, [Next]_vars PROVE CmdEvent'
<1> USE DEF Base, CmdEvent
<1>1. CASE CreateListenSocket
  BY <1>1, CmdListen
<1>2. CASE Make
  BY <1>2, CmdMake
<1>3. CASE Teardown \/ TeardownOfStart
  BY <1>3, CmdTeardown
<1>4. ASSUME UNCHANGED slot, ~CreateListenSocket, ~Make, failed \subseteq failed',
             pc = "listen" => UNCHANGED files,
             pc = "cmd" => MakeFails \/ files'[1] # Nil,
             fail => fail' /\ srv' = srv,
             \A t \in Server : slot[t].cmd # 0 => files'[slot[t].cmd] = files[slot[t].cmd],
             \A t \in Server, f \in Fd : sockMap'[t][f] # sockMap[t][f] =>
               sockMap'[t][f] = Nil \/ (f # slot[t].cmd /\ ~Unready(t))
      PROVE  CmdEvent'
  <2>1. pc = "listen" => UNCHANGED <<pc, files>>
    BY <1>4, CmdMade
  <2>2. MakeFails => fail' /\ srv' = srv /\ pc' # "cmd"
    BY DEF MakeFails
  <2>3. pc = "cmd" => \/ UNCHANGED <<pc, srv>> /\ files'[1] # Nil
                      \/ fail' /\ srv' = srv /\ pc' # "cmd"
    BY <1>4, <2>2, CmdMade
  <2> QED
    BY ONLY Base, CmdEvent, [Next]_vars, <1>4, <2>1, <2>3, CmdLeftAlone
<1>5. ASSUME UNCHANGED <<slot, files, sockMap>>, failed \subseteq failed',
             fail => fail' /\ srv' = srv, ~CreateListenSocket, ~Make
      PROVE  CmdEvent'
  BY <1>4, <1>5 DEF FirstNumber
<1>6. CASE Quiet
  BY <1>1, <1>2, <1>5, <1>6 DEF Quiet
<1>7. CASE MakeFails
  <2>1. /\ UNCHANGED <<slot, sockMap, failed>> /\ pc \in {"cmd", "exit", "timer"} /\ ~fail
        /\ srv \in Server /\ "timer" \in Slot
    BY <1>7 DEF MakeFails, mgr, ghost, NextStep, Control, Places, TypeOK, Slot
  <2>2. UNCHANGED files \/ Opens(File(srv, "timer"))
    BY <1>7, <2>1, OpensFree
    DEF MakeFails, Tables, Opens, Open, FreeIsFree, TypeOK, NextStep
  <2>3. \A t \in Server : slot[t].cmd # 0 => files'[slot[t].cmd] = files[slot[t].cmd]
    <3>1. File(srv, "timer") # Nil
      BY <2>1, FileNames
    <3> QED
      BY <2>2, <3>1, OpenLeaves
  <2> QED
    BY <1>1, <1>2, <1>4, <1>7, <2>1, <2>3
<1>8. CASE NoEpoll \/ CloseListenSocket
  <2>1. /\ UNCHANGED <<slot, sockMap>> /\ pc \in {"epoll", "close"} /\ failed \subseteq failed'
        /\ ~fail
    BY <1>8 DEF NoEpoll, CloseListenSocket, ManagerFails, StartFails, mgr, Control, Places
  <2>2. UNCHANGED files \/ Closes({slot["tcp"].listen} \cap Fd)
    BY <1>8 DEF NoEpoll, CloseListenSocket, ManagerFails, CloseAll, Closes
  <2>3. \A t \in Server : slot[t].cmd # 0 => slot[t].cmd \notin {slot["tcp"].listen} \cap Fd
    BY DEF FirstNumber, CmdLeads
  <2>4. \A t \in Server : slot[t].cmd \notin {slot["tcp"].listen} \cap Fd
    BY <2>3 DEF Fd
  <2>5. \A t \in Server : slot[t].cmd # 0 => files'[slot[t].cmd] = files[slot[t].cmd]
    BY <2>2, <2>4, CloseLeaves
  <2> QED
    BY <1>1, <1>2, <1>4, <2>1, <2>5
<1>9. ASSUME NEW c \in Port, AddListenSocket(c) PROVE CmdEvent'
  <2>1. /\ UNCHANGED <<slot, failed>> /\ pc = "add" /\ ~fail /\ client[c] = "new" /\ c \in Sock
        /\ "udp" \in Server
    BY <1>9 DEF AddListenSocket, Control, Places, Sock, Server
  <2>2. \/ UNCHANGED <<files, sockMap>>
        \/ /\ Open(SockFile(c))
           /\ UNCHANGED sockMap \/ sockMap' = [sockMap EXCEPT !["udp"][Free] = c]
    BY <1>9 DEF AddListenSocket
  <2>3. CASE UNCHANGED <<files, sockMap>>
    BY <1>1, <1>2, <1>5, <2>1, <2>3
  <2>4. CASE /\ Open(SockFile(c))
             /\ UNCHANGED sockMap \/ sockMap' = [sockMap EXCEPT !["udp"][Free] = c]
    <3>1. Opens(SockFile(c)) /\ SockFile(c) # Nil
      BY <2>1, <2>4, SocketOpens, FileNames
    <3>2. \A t \in Server : slot[t].cmd # 0 => files'[slot[t].cmd] = files[slot[t].cmd]
      BY <3>1, OpenLeaves
    <3>3. Free # slot["udp"].cmd /\ Free \in Fd
      BY <2>1, <3>1, FileNames DEF Opens, CmdLeads, Fd, Slot
    <3>4. ~Unready("udp")
      BY <2>1 DEF Unready, Unbegun, InStart
    <3>5. \A t \in Server, f \in Fd : sockMap'[t][f] # sockMap[t][f] => t = "udp" /\ f = Free
      BY <2>4, <3>3 DEF TypeOK
    <3> QED
      BY <1>1, <1>2, <1>4, <2>1, <3>2, <3>3, <3>4, <3>5
  <2> QED
    BY <2>2, <2>3, <2>4
<1>10. CASE Accept
  <2>1. UNCHANGED <<pc, srv, fail, slot, sockMap, failed>> /\ wpc["tcp"] = "loop"
    BY <1>10 DEF Accept, main, mgr, ghost
  <2>2. pc # "listen"
    BY <2>1 DEF Control, Threads, Unbegun, Server
  <2>3. CASE UNCHANGED files
    BY <1>1, <1>2, <1>5, <2>1, <2>3
  <2>4. ASSUME NEW c \in Client, client[c] = "queued", Open(SockFile(c)) PROVE CmdEvent'
    <3>1. Opens(SockFile(c)) /\ SockFile(c) # Nil
      BY <2>4, SocketOpens, FileNames DEF Sock
    <3> QED
      BY <1>1, <1>2, <1>4, <2>1, <2>2, <3>1, OpenLeaves
  <2> QED
    BY <1>10, <2>3, <2>4 DEF Accept
<1>11. CASE AddTcpSocket
  <2>1. UNCHANGED <<pc, srv, fail, slot, files, failed>> /\ wpc["tcp"] = "add" /\ "tcp" \in Server
    BY <1>11 DEF AddTcpSocket, main, Server
  <2>2. PICK f \in Fd : /\ files[f] = SockFile(hold["tcp"]) /\ hold["tcp"] \in Sock
                        /\ sockMap' = [sockMap EXCEPT !["tcp"][f] = hold["tcp"]]
    BY <1>11, AddsToMap DEF Sock
  <2>3. ~Unready("tcp")
    BY <2>1 DEF Control, Threads, Unready
  <2>4. f # slot["tcp"].cmd
    BY <2>1, <2>2, FileNames DEF CmdLeads, Slot, Fd
  <2>5. \A t \in Server, g \in Fd : sockMap'[t][g] # sockMap[t][g] => t = "tcp" /\ g = f
    BY <2>2 DEF TypeOK
  <2> QED
    BY <1>1, <1>2, <1>4, <2>1, <2>3, <2>4, <2>5 DEF FirstNumber
<1>12. ASSUME NEW s \in Server, RemoveClose(s) PROVE CmdEvent'
  <2>1. UNCHANGED <<pc, srv, fail, slot, sockMap, failed>> /\ wpc[s] = "command"
    BY <1>12 DEF RemoveClose, main, mgr, Executing
  <2>2. pc # "listen"
    BY <2>1 DEF Control, Threads, Unbegun
  <2>3. \A t \in Server : slot[t].cmd # 0 => files'[slot[t].cmd] = files[slot[t].cmd]
    BY <1>12, CmdRemove, CloseLeaves
  <2>4. pc = "cmd" => files'[1] # Nil
    BY <1>12, CmdRemove, FirstFree DEF Closes, FirstNumber
  <2> QED
    BY <1>1, <1>2, <1>4, <2>1, <2>2, <2>3, <2>4
<1>13. ASSUME NEW s \in Server, RemoveErase(s) PROVE CmdEvent'
  <2>1. UNCHANGED <<pc, srv, fail, slot, files, failed>>
    BY <1>13 DEF RemoveErase, main, kernel, ghost
  <2>2. \A t \in Server, f \in Fd : sockMap'[t][f] # sockMap[t][f] => sockMap'[t][f] = Nil
    BY <1>13 DEF RemoveErase, TypeOK
  <2> QED
    BY <1>1, <1>2, <1>4, <2>1, <2>2 DEF FirstNumber
<1> QED
  BY <1>1, <1>2, <1>3, <1>6, <1>7, <1>8, <1>9, <1>10, <1>11, <1>12, <1>13, QuietOrBusy
  DEF Busy, Tables

----------------------------------------------------------------------------
(* What Stop leaves.                                                        *)

\* What a worker changes in a map, it changes in that of a server that is not
\* torn down.
LEMMA SweptStep ==
  ASSUME Base, Swept, [Next]_vars PROVE Swept'
<1> USE DEF Base
<1>1. \A s \in Server : Torn(s) => wpc[s] \in {"none", "joined"}
  BY DEF Control, Threads
<1>2. CASE Teardown
  <2>1. /\ UNCHANGED <<fail, failed>> /\ srv \in Server /\ pc = "teardown" /\ ~fail
    BY <1>2 DEF Teardown, TypeOK
  <2>2. CASE srv \notin failed
    <3>1. ~Off(srv)
      BY <2>1, <2>2 DEF Off, Unbegun, Torn, InStart
    <3>2. Emptied(srv)
      BY <1>2, <3>1, <2>1 DEF Teardown, Control, Slots
    <3>3. /\ sockMap' = [sockMap EXCEPT ![srv] = [f \in Fd |-> Nil]]
          /\ \A s \in Server : Torn(s)' => Torn(s) \/ s = srv
      BY <1>2, <2>1, <3>2 DEF Teardown, Emptied, Torn, Server
    <3> QED
      BY <2>1, <3>3 DEF Swept, TypeOK
  <2>3. CASE srv \in failed
    <3>1. \A s \in Server \ failed : sockMap'[s] = sockMap[s]
      BY <1>2, <2>1, <2>3 DEF Teardown, Emptied, mgr, TypeOK
    <3>2. \A s \in Server \ failed : Torn(s)' => Torn(s)
      BY <1>2, <2>1, <2>3 DEF Teardown, Torn, Server
    <3> QED
      BY <2>1, <3>1, <3>2 DEF Swept
  <2> QED
    BY <2>2, <2>3
<1>3. CASE TeardownOfStart
  <2>1. \A s \in Server \ failed' : sockMap'[s] = sockMap[s] /\ s \notin failed
    BY <1>3 DEF TeardownOfStart, Emptied, StartFails, TypeOK
  <2>2. \A s \in Server \ failed' : Torn(s)' => Torn(s)
    BY <1>3 DEF TeardownOfStart, StartFails, AfterStart, Torn, Server
  <2> QED
    BY <2>1, <2>2 DEF Swept
<1>4. CASE \E c \in Port : AddListenSocket(c)
  BY <1>4 DEF AddListenSocket, main, Torn, Swept
<1>5. CASE AddTcpSocket
  <2>1. ~Torn("tcp") /\ UNCHANGED <<pc, srv, fail, failed>>
    BY <1>1, <1>5 DEF AddTcpSocket, main, Server
  <2>2. sockMap'["udp"] = sockMap["udp"]
    BY <1>5 DEF AddTcpSocket, TypeOK, Server
  <2> QED
    BY <2>1, <2>2 DEF Swept, Torn, Server
<1>6. ASSUME NEW t \in Server, RemoveErase(t) PROVE Swept'
  <2>1. ~Torn(t) /\ UNCHANGED <<pc, srv, fail, failed>>
    BY <1>1, <1>6 DEF RemoveErase, Erasing, main, ghost
  <2>2. \A s \in Server : s # t => sockMap'[s] = sockMap[s]
    BY <1>6 DEF RemoveErase, TypeOK
  <2> QED
    BY <2>1, <2>2 DEF Swept, Torn
<1>7. ASSUME UNCHANGED sockMap, failed \subseteq failed', \A s \in Server : Torn(s)' => Torn(s)
      PROVE  Swept'
  BY <1>7 DEF Swept
<1>8. ASSUME UNCHANGED <<sockMap, pc, srv, fail, failed>> PROVE Swept'
  BY <1>8, <1>7 DEF Torn
<1>9. CASE \/ CreateListenSocket \/ Make \/ MakeFails \/ NoEpoll \/ StartWorkThread
           \/ StartAccept \/ Started \/ ExitFlagSet
           \/ CloseListenSocket \/ CloseNext \/ CloseAllDone \/ StopWorkThread \/ Join
  <2>1. UNCHANGED sockMap /\ failed \subseteq failed'
    BY <1>9
    DEF CreateListenSocket, Make, MakeFails, NoEpoll, ManagerFails, StartWorkThread, StartAccept,
        Started, ExitFlagSet, CloseListenSocket, CloseNext, CloseAllDone, StopWorkThread, Join,
        mgr, ghost, StartFails
  <2>2. \A s \in Server : Torn(s)' => Torn(s)
    BY <1>9
    DEF CreateListenSocket, Make, MakeFails, NoEpoll, ManagerFails, StartWorkThread, StartAccept,
        Started, ExitFlagSet, CloseListenSocket, CloseNext, CloseAllDone, StopWorkThread, Join,
        StartFails, AfterStart, NextStep, Torn, Control, Places, TypeOK, Server, HasWorkStart
  <2> QED
    BY <1>7, <2>1, <2>2
<1>10. CASE UNCHANGED vars
  BY <1>8, <1>10 DEF vars
<1>11. CASE \/ \E c \in Client : ClientConnects(c)
            \/ \E c \in Sock : PeerSends(c) \/ PeerEnds(c)
            \/ Accept
  BY <1>8, <1>11 DEF ClientConnects, PeerSends, PeerEnds, Accept, main, mgr, ghost
<1>12. ASSUME NEW s \in Server,
              \/ EpollReturns(s) \/ EpollFails(s) \/ WorkEnds(s) \/ StartCommands(s)
              \/ CommandsDone(s) \/ CommandNotFound(s) \/ RemoveClose(s)
              \/ \E c \in Sock : Reading(s, c)
       PROVE  Swept'
  <2>1. (\E c \in Sock : Reading(s, c)) => UNCHANGED <<sockMap, pc, srv, fail, failed>>
    BY ReadEffect
  <2> QED
    BY <1>8, <1>12, <2>1
    DEF EpollReturns, EpollFails, WorkEnds, StartCommands, CommandsDone, CommandNotFound,
        RemoveClose, main, mgr, ghost
<1> QED
  BY <1>2, <1>3, <1>4, <1>5, <1>6, <1>9, <1>10, <1>11, <1>12, Parts
  DEF MainPart, OtherPart, WorkerStep, NoSuchEpoll, Interrupted, Reading

\* When main has stopped both servers no worker runs, no command or object is
\* left in a server that started, and no descriptor of a manager is open but
\* for a timer timerfd_settime refused.
THEOREM StopLeavesNothing == Spec => []StoppedIsClean
<1>1. Init => Base /\ Swept
  BY BaseInit DEF Init, Swept, Torn
<1>2. Base /\ Swept /\ [Next]_vars => (Base /\ Swept)'
  BY BaseStep, SweptStep
<1>3. Base /\ Swept => StoppedIsClean
  <2> SUFFICES ASSUME Base, Swept, pc = "done" PROVE StoppedIsClean
    BY DEF StoppedIsClean
  <2> USE DEF Base, Tables
  <2>1. /\ \A s \in Server : Torn(s) /\ Off(s) /\ "epoll" \in Slot \ {"listen"}
        /\ Unlistened /\ ~fail
    BY DEF Torn, Off, Unlistened, Slot, Control, Places
  <2>2. \A s \in Server : wpc[s] \in {"none", "joined"} /\ ~HasStart(s) /\ cmdQ[s] = <<>>
    BY <2>1 DEF Control, Threads, Slots, HasStart
  <2>3. \A s \in Server \ failed : sockMap[s] = [f \in Fd |-> Nil]
    BY <2>1 DEF Swept
  <2>4. ASSUME NEW f \in Fd, NEW s \in Server, files[f] \in OwnFiles(s)
        PROVE  files[f].kind = "timer" /\ s \in failed
    <3>1. PICK k \in Slot : files[f] = File(s, k)
      BY <2>4 DEF OwnFiles
    <3>2. ~(s = "tcp" /\ k = "listen")
      BY <2>1, <3>1 DEF Table, ListenClosed
    <3>3. slot[s][k] = INVALID_FD
      BY <2>1, <3>2 DEF Control, Slots, Server
    <3>4. slot[s][k] # f
      BY <3>3 DEF INVALID_FD, Fd
    <3> QED
      BY <2>1, <3>1, <3>4 DEF Table, Remembered, File
  <2> QED
    BY <2>2, <2>3, <2>4 DEF StoppedIsClean
<1> QED
  BY <1>1, <1>2, <1>3, PTL DEF Spec

\* Only a manager that has its descriptors calls the listener, or main while
\* it adds the ports: not a worker of a server that was torn down.
THEOREM QuietAfterStop == Spec => NoCallbackAfterStop
<1>1. ASSUME Base, [Next]_vars
      PROVE  [\A c \in Sock : told'[c] # told[c] => HasStart(Home(c)) \/ pc = "add"]_vars
  <2> USE <1>1 DEF Base, Tables
  <2>1. \A s \in Server : Active(s) => HasStart(s)
    BY DEF Control, Threads, Slots, Off, Begun, Active, Torn, InStart, Unbegun
  <2>2. CASE AddTcpSocket
    <3>1. hold["tcp"] \in Client /\ Active("tcp") /\ "tcp" \in Server
      BY <2>2 DEF AddTcpSocket, WorkerHeld, Active, Server
    <3>2. \A c \in Sock : told'[c] # told[c] => c = hold["tcp"]
      BY <2>2 DEF AddTcpSocket, TypeOK
    <3> QED
      BY <2>1, <3>1, <3>2 DEF Home
  <2>3. ASSUME NEW s \in Server, RemoveClose(s)
        PROVE  \A c \in Sock : told'[c] # told[c] => HasStart(Home(c))
    <3>1. Active(s) /\ Named(s) # Nil /\ Head(cmdQ[s]) \in Fd
      BY <2>3 DEF RemoveClose, Executing, Active, TypeOK
    <3>2. Home(Named(s)) = s
      BY <3>1 DEF MapOnce, Named
    <3>3. \A c \in Sock : told'[c] # told[c] => c = Named(s)
      BY <2>3 DEF RemoveClose, TypeOK
    <3> QED
      BY <2>1, <3>1, <3>2, <3>3
  <2>4. CASE \E c \in Port : AddListenSocket(c)
    BY <2>4 DEF AddListenSocket
  <2>5. \/ UNCHANGED told \/ AddTcpSocket \/ (\E s \in Server : RemoveClose(s))
        \/ \E c \in Port : AddListenSocket(c)
    <3>1. Quiet => UNCHANGED told
      BY DEF Quiet
    <3>2. ASSUME \/ CreateListenSocket \/ Make \/ MakeFails \/ NoEpoll
                 \/ CloseListenSocket \/ Teardown \/ TeardownOfStart
                 \/ Accept \/ (\E s \in Server : RemoveErase(s))
          PROVE  UNCHANGED told
      BY <3>2 DEF CreateListenSocket, Make, MakeFails, NoEpoll, CloseListenSocket, Teardown,
             TeardownOfStart, Accept, RemoveErase, ghost
    <3>3. Quiet \/ Busy
      BY QuietOrBusy
    <3> QED
      BY ONLY <3>1, <3>2, <3>3 DEF Busy
  <2> QED
    BY <2>2, <2>3, <2>4, <2>5
<1> QED
  BY <1>1, BaseInvariant, PTL DEF Spec, NoCallbackAfterStop

----------------------------------------------------------------------------
(* Commands, the count and the exit event.                                  *)

\* The names of events are not sockets'.
LEMMA EventNames == "cmd" \notin Sock /\ "exit" \notin Sock /\ "listen" \notin Sock
BY NamesAssumption DEF Sock

\* A command that is queued comes with its event, if the manager's number still
\* leads to the eventfd, or with one command more than the count.
LEMMA TriggerWakes ==
  ASSUME TypeOK, NEW s \in Server, NEW f \in Fd, Trigger(s, f)
  PROVE  /\ \A t \in Server : t # s => cmdQ'[t] = cmdQ[t] /\ ready'[t] = ready[t]
         /\ over \subseteq over'
         /\ \A t \in Server, k \in {"cmd", "exit"} : k \in ready[t] => k \in ready'[t]
         /\ \A t \in Server : "exit" \in ready'[t] => "exit" \in ready[t]
         /\ \/ UNCHANGED <<cmdQ, ready, over>>
            \/ /\ HasStart(s) /\ cmdQ'[s] = Append(cmdQ[s], f)
               /\ "cmd" \in ready'[s] \/ At(slot[s].cmd) # File(s, "cmd")
               /\ s \in over' \/ (s \notin over /\ Len(cmdQ[s]) < CmdBudget)
<1>1. CASE HasStart(s)
  <2>1. cmdQ' = [cmdQ EXCEPT ![s] = Append(cmdQ[s], f)]
    BY <1>1 DEF Trigger
  <2>2. ready' = [ready EXCEPT ![s] =
          IF At(slot[s].cmd) = File(s, "cmd") THEN ready[s] \cup {"cmd"} ELSE ready[s]]
    BY <1>1 DEF Trigger
  <2>3. over' = IF Len(cmdQ[s]) >= CmdBudget THEN over \cup {s} ELSE over
    BY <1>1 DEF Trigger
  <2>4. Len(cmdQ[s]) \in Nat /\ CmdBudget \in Nat
    BY NumbersAssumption DEF TypeOK
  <2>5. /\ \A t \in Server : ready'[t] = ready[t] \/ (t = s /\ ready'[t] = ready[t] \cup {"cmd"})
        /\ At(slot[s].cmd) = File(s, "cmd") => ready'[s] = ready[s] \cup {"cmd"}
    BY <2>2 DEF TypeOK
  <2>6. \A t \in Server : cmdQ'[t] = IF t = s THEN Append(cmdQ[s], f) ELSE cmdQ[t]
    BY <2>1 DEF TypeOK
  <2>7. s \in over' \/ (s \notin over /\ Len(cmdQ[s]) < CmdBudget)
    BY <2>3, <2>4
  <2>8. over \subseteq over'
    BY <2>3
  <2>9. \A t \in Server : t # s => cmdQ'[t] = cmdQ[t] /\ ready'[t] = ready[t]
    BY <2>5, <2>6
  <2>10. \A t \in Server, k \in {"cmd", "exit"} :
           (k \in ready[t] => k \in ready'[t]) /\ ("exit" \in ready'[t] => "exit" \in ready[t])
    BY <2>5
  <2>11. /\ cmdQ'[s] = Append(cmdQ[s], f)
         /\ "cmd" \in ready'[s] \/ At(slot[s].cmd) # File(s, "cmd")
    BY <2>5, <2>6
  <2> QED
    BY <1>1, <2>7, <2>8, <2>9, <2>10, <2>11
<1>2. CASE ~HasStart(s)
  BY <1>2 DEF Trigger
<1> QED
  BY <1>1, <1>2

\* A command that is taken costs one of the count.
LEMMA PopCounts ==
  ASSUME TypeOK, NEW s \in Server, cmdQ[s] # <<>>, left[s] > 0, PopCommand(s)
  PROVE  /\ \A t \in Server : t # s => cmdQ'[t] = cmdQ[t] /\ left'[t] = left[t]
         /\ cmdQ'[s] = Tail(cmdQ[s]) /\ Len(cmdQ'[s]) = Len(cmdQ[s]) - 1
         /\ left'[s] = left[s] - 1
<1>1. cmdQ[s] \in Seq(Fd)
  BY DEF TypeOK
<1>2. Len(Tail(cmdQ[s])) = Len(cmdQ[s]) - 1
  BY <1>1
<1>3. left[s] \in Nat
  BY NumbersAssumption DEF TypeOK
<1> QED
  BY <1>2, <1>3 DEF PopCommand, TypeOK

\* What arrives adds the socket to a ready list.
LEMMA ArrivesAdds ==
  ASSUME TypeOK, NEW c \in Sock, Arrives(c)
  PROVE  \A s \in Server : ready'[s] \in {ready[s], ready[s] \cup {c}}
<1>1. UNCHANGED ready \/ ready' = [ready EXCEPT ![Home(c)] = ready[Home(c)] \cup {c}]
  BY DEF Arrives
<1> QED
  BY <1>1 DEF TypeOK

\* A read takes its socket from the batch, if any.
LEMMA ReadFrees ==
  ASSUME TypeOK, NEW t \in Server, NEW c \in Sock, Reading(t, c)
  PROVE  \A s \in Server : batch'[s] = batch[s] \/ (s = t /\ batch'[s] = batch[s] \ {c})
<1>1. batch \in [Server -> SUBSET ({"cmd", "exit", "listen"} \cup Sock)]
  BY DEF TypeOK
<1>2. batch' = batch \/ batch' = [batch EXCEPT ![t] = batch[t] \ {c}]
  BY ReadEffect
<1> QED
  BY ONLY <1>1, <1>2

\* Only main writes the exit event, when it comes to wait for the worker.
LEMMA ExitWritten ==
  ASSUME Base, [Next]_vars
  PROVE  \A s \in Server : "exit" \in (ready[s] \cup batch[s])' =>
           \/ "exit" \in ready[s] \cup batch[s]
           \/ StopWorkThread /\ s = srv /\ pc' = "join"
<1> USE DEF Base
<1>1. ASSUME UNCHANGED batch, \A s \in Server : "exit" \in ready'[s] => "exit" \in ready[s]
      PROVE  \A s \in Server :
               "exit" \in (ready[s] \cup batch[s])' => "exit" \in ready[s] \cup batch[s]
  BY <1>1
<1>2. CASE \/ CreateListenSocket \/ Make \/ MakeFails \/ NoEpoll \/ StartWorkThread \/ Started
           \/ ExitFlagSet \/ (\E c \in Port : AddListenSocket(c)) \/ CloseAllDone \/ Join
           \/ Teardown \/ TeardownOfStart \/ UNCHANGED vars
  BY <1>2
  DEF CreateListenSocket, Make, MakeFails, NoEpoll, StartWorkThread, Started, ExitFlagSet,
      AddListenSocket, CloseAllDone, Join, Teardown, TeardownOfStart, worker, kernel, vars
<1>3. CASE StartAccept
  <2>1. UNCHANGED ready \/ ready' = [ready EXCEPT !["tcp"] = ready["tcp"] \cup {"listen"}]
    BY <1>3 DEF StartAccept, TypeOK
  <2>2. \A s \in Server : ready'[s] \in {ready[s], ready[s] \cup {"listen"}}
    BY <2>1 DEF TypeOK
  <2> QED
    BY <1>1, <1>3, <2>2 DEF StartAccept, worker
<1>4. CASE CloseListenSocket
  <2>1. \A s \in Server : ready'[s] \subseteq ready[s]
    BY <1>4 DEF CloseListenSocket
  <2> QED
    BY <1>1, <1>4, <2>1 DEF CloseListenSocket, worker
<1>5. CASE CloseNext
  <2>1. Min(Ahead) \in Fd /\ srv \in Server
    BY <1>5, NextInMap DEF CloseNext, TypeOK
  <2>2. \A s \in Server : "exit" \in ready'[s] => "exit" \in ready[s]
    BY <1>5, <2>1, TriggerWakes DEF CloseNext
  <2> QED
    BY <1>1, <1>5, <2>2 DEF CloseNext, worker
<1>6. CASE StopWorkThread
  BY <1>6 DEF StopWorkThread, worker, TypeOK
<1>7. CASE \E c \in Client : ClientConnects(c)
  BY <1>1, <1>7 DEF ClientConnects, worker, TypeOK
<1>8. CASE \E c \in Sock : PeerSends(c) \/ PeerEnds(c)
  <2>1. PICK c \in Sock : Arrives(c) /\ UNCHANGED batch
    BY <1>8 DEF PeerSends, PeerEnds, worker
  <2> QED
    BY <1>1, <2>1, ArrivesAdds, EventNames
<1>9. ASSUME NEW t \in Server, EpollReturns(t)
      PROVE  \A s \in Server :
               "exit" \in (ready[s] \cup batch[s])' => "exit" \in ready[s] \cup batch[s]
  BY <1>9 DEF EpollReturns, TypeOK, Reported
<1>10. ASSUME NEW t \in Server,
              \/ EpollFails(t) \/ WorkEnds(t) \/ StartCommands(t) \/ CommandsDone(t)
              \/ CommandNotFound(t) \/ RemoveErase(t)
       PROVE  \A s \in Server :
                "exit" \in (ready[s] \cup batch[s])' => "exit" \in ready[s] \cup batch[s]
  <2>1. UNCHANGED ready
    BY <1>10 DEF EpollFails, WorkEnds, StartCommands, CommandsDone, CommandNotFound,
                 RemoveErase, kernel
  <2>2. \/ UNCHANGED batch
        \/ batch' = [batch EXCEPT ![t] = batch[t] \ {"cmd"}]
        \/ batch' = [batch EXCEPT ![t] = {}]
    BY <1>10 DEF EpollFails, WorkEnds, StartCommands, CommandsDone, CommandNotFound, RemoveErase
  <2>3. \A s \in Server : batch'[s] \in {batch[s], batch[s] \ {"cmd"}, {}}
    BY <2>2 DEF TypeOK
  <2> QED
    BY <2>1, <2>3
<1>11. ASSUME NEW t \in Server, RemoveClose(t)
       PROVE  \A s \in Server :
                "exit" \in (ready[s] \cup batch[s])' => "exit" \in ready[s] \cup batch[s]
  BY <1>1, <1>11 DEF RemoveClose, TypeOK
<1>12. CASE Accept
  BY <1>12 DEF Accept, TypeOK
<1>13. CASE AddTcpSocket
  <2>1. hold["tcp"] \in Sock
    BY <1>13 DEF AddTcpSocket, Tables, WorkerHeld, Sock
  <2> QED
    BY <1>1, <1>13, <2>1, EventNames DEF AddTcpSocket, TypeOK
<1>14. ASSUME NEW t \in Server, NEW c \in Sock, Reading(t, c)
       PROVE  \A s \in Server :
                "exit" \in (ready[s] \cup batch[s])' => "exit" \in ready[s] \cup batch[s]
  <2>1. \A s \in Server : "exit" \in ready'[s] => "exit" \in ready[s]
    BY <1>14, ReadEffect, TriggerWakes
  <2>2. \A s \in Server : batch'[s] \subseteq batch[s]
    BY <1>14, ReadFrees
  <2> QED
    BY <2>1, <2>2
<1> QED
  BY <1>2, <1>3, <1>4, <1>5, <1>6, <1>7, <1>8, <1>9, <1>10, <1>11, <1>12, <1>13, <1>14, Parts
  DEF MainPart, OtherPart, WorkerStep, NoSuchEpoll, Interrupted, Reading

\* A worker that saw the exit event and ended is waited for.
LEMMA ExitLastStep ==
  ASSUME Base, Fresh, ExitLast, [Next]_vars PROVE ExitLast'
<1> USE DEF Base
<1>1. CASE OtherPart
  <2>1. UNCHANGED <<pc, srv>> /\ \A s \in Server : Active(s)' => Active(s)
    BY <1>1, ControlOther DEF Active
  <2>2. died \subseteq died' /\ ~StopWorkThread
    <3>1. died \subseteq died'
      BY <1>1 DEF OtherPart, WorkerStep, ClientConnects, PeerSends, PeerEnds, Interrupted,
                  NoSuchEpoll, EpollFails, EpollReturns, WorkEnds, Accept, AddTcpSocket,
                  HandleReceive, ReadNext, StartCommands, CommandsDone, CommandNotFound,
                  RemoveClose, RemoveErase, ghost
    <3> QED
      BY <2>1, <3>1 DEF StopWorkThread
  <2>3. ASSUME NEW s \in Server, wpc'[s] = "ended", wpc[s] # "ended"
        PROVE  s \in died' \/ (Active(s) /\ "exit" \in batch[s])
    <3>1. CASE \E t \in Server : EpollFails(t)
      BY <2>3, <3>1 DEF EpollFails, TypeOK
    <3>2. CASE \E t \in Server : WorkEnds(t)
      BY <2>3, <3>2 DEF WorkEnds, TypeOK, Active
    <3>3. CASE \E t \in Server : EpollReturns(t) \/ \E c \in Sock : Reading(t, c)
      BY <2>3, <3>3, ReadEffect DEF EpollReturns
    <3>4. CASE \E t \in Server : StartCommands(t) \/ CommandsDone(t) \/ CommandNotFound(t)
      BY <2>3, <3>4 DEF StartCommands, CommandsDone, CommandNotFound, TypeOK
    <3>5. CASE \E t \in Server : RemoveClose(t)
      BY <2>3, <3>5 DEF RemoveClose, TypeOK
    <3>6. CASE \E t \in Server : RemoveErase(t)
      BY <2>3, <3>6 DEF RemoveErase, TypeOK
    <3>8. CASE Accept
      BY <2>3, <3>8 DEF Accept, TypeOK
    <3>9. CASE AddTcpSocket
      BY <2>3, <3>9 DEF AddTcpSocket, TypeOK
    <3>7. CASE \/ \E c \in Client : ClientConnects(c)
               \/ \E c \in Sock : PeerSends(c) \/ PeerEnds(c)
      BY <2>3, <3>7 DEF ClientConnects, PeerSends, PeerEnds, worker
    <3> QED
      BY <1>1, <3>1, <3>2, <3>3, <3>4, <3>5, <3>6, <3>7, <3>8, <3>9
      DEF OtherPart, WorkerStep, Interrupted, NoSuchEpoll, Reading
  <2>4. \A s \in Server :
          "exit" \in (ready[s] \cup batch[s])' => "exit" \in ready[s] \cup batch[s]
    BY <2>2, ExitWritten
  <2> QED
    BY <2>1, <2>2, <2>3, <2>4 DEF ExitLast
<1>2. CASE MainPart
  <2>1. CASE StartWorkThread
    <3>1. UNCHANGED <<ready, batch, died>> /\ pc = "thread"
      BY <2>1 DEF StartWorkThread, kernel, ghost
    <3>2. \A s \in Server : wpc'[s] = wpc[s] \/ (s = srv /\ wpc'[s] = "loop")
      BY <2>1 DEF StartWorkThread, TypeOK
    <3>3. "exit" \notin ready[srv] \cup batch[srv]
      BY <3>1 DEF Fresh, InStart, TypeOK
    <3> QED
      BY <3>1, <3>2, <3>3 DEF ExitLast, Active
  <2>2. CASE StopWorkThread
    <3>1. UNCHANGED <<wpc, died, srv>> /\ pc = "stop"
      BY <2>2 DEF StopWorkThread, worker, ghost
    <3> QED
      BY <3>1, ExitWritten DEF ExitLast, Active
  <2>3. CASE Join
    <3>1. UNCHANGED <<ready, batch, died, srv>> /\ wpc[srv] = "ended"
      BY <2>3 DEF Join, kernel, ghost
    <3>2. \A s \in Server : wpc'[s] = IF s = srv THEN "joined" ELSE wpc[s]
      BY <2>3 DEF Join, TypeOK
    <3> QED
      BY <3>1, <3>2 DEF ExitLast, Active
  <2>4. ASSUME UNCHANGED <<wpc, died>>, pc # "join", ~StopWorkThread PROVE ExitLast'
    BY <2>4, ExitWritten DEF ExitLast, Active
  <2>5. CASE \/ CreateListenSocket \/ Make \/ MakeFails \/ NoEpoll \/ StartAccept \/ Started
             \/ ExitFlagSet \/ (\E c \in Port : AddListenSocket(c))
             \/ CloseListenSocket \/ CloseNext \/ CloseAllDone
             \/ Teardown \/ TeardownOfStart
    <3>1. UNCHANGED <<wpc, died>> /\ pc \notin {"join", "stop"}
      BY <2>5
      DEF CreateListenSocket, Make, MakeFails, NoEpoll, StartAccept, Started, ExitFlagSet,
          AddListenSocket, CloseListenSocket, CloseNext, CloseAllDone, Teardown, TeardownOfStart,
          worker, ghost, NextStep
    <3> QED
      BY <2>4, <3>1 DEF StopWorkThread
  <2> QED
    BY <1>2, <2>1, <2>2, <2>3, <2>5 DEF MainPart
<1>3. CASE UNCHANGED vars
  <2>1. UNCHANGED <<wpc, ready, batch, died, pc, srv>>
    BY <1>3 DEF vars
  <2> QED
    BY <2>1 DEF ExitLast, Active
<1> QED
  BY <1>1, <1>2, <1>3, Parts

\* A server has neither commands nor an exit event before its worker begins.
LEMMA FreshStep ==
  ASSUME Base, Fresh, [Next]_vars PROVE Fresh'
<1> USE DEF Base
<1> DEFINE Before(s) == Unbegun(s) \/ (InStart /\ srv = s /\ pc # "accept")
<1>1. \A s \in Server : Before(s) => ~Active(s)
  BY DEF Control, Threads, Active
<1>2. CASE OtherPart
  <2>1. UNCHANGED <<pc, srv, fail>>
    BY <1>2, ControlOther
  <2>2. \A s \in Server : Before(s) => cmdQ'[s] = cmdQ[s]
    BY <1>1, <1>2, ControlOther
  <2>3. ~StopWorkThread
    BY <2>1 DEF StopWorkThread
  <2> QED
    BY <2>1, <2>2, <2>3, ExitWritten DEF Fresh, Unbegun, InStart
<1>3. CASE MainPart
  <2>1. \A s \in Server : Before(s)' => Before(s)
    <3>0. srv \in Server /\ (fail => pc = "teardown") /\ (pc = "accept" => srv = "tcp")
      BY DEF TypeOK, Control, Places
    <3>1. CASE CreateListenSocket \/ Make \/ MakeFails
      BY <3>0, <3>1 DEF CreateListenSocket, Make, MakeFails, StartFails, AfterStart, NextStep,
                        Unbegun, InStart, Server
    <3>2. CASE NoEpoll \/ StartWorkThread \/ StartAccept
      BY <3>0, <3>2 DEF NoEpoll, ManagerFails, StartWorkThread, StartAccept, StartFails, AfterStart,
                        Unbegun, InStart, Server
    <3>3. CASE Started \/ ExitFlagSet \/ (\E c \in Port : AddListenSocket(c))
      BY <3>0, <3>3 DEF Started, ExitFlagSet, AddListenSocket, main, Unbegun, InStart, Server
    <3>4. CASE CloseListenSocket \/ CloseNext \/ CloseAllDone
      BY <3>0, <3>4 DEF CloseListenSocket, CloseNext, CloseAllDone, Unbegun, InStart, Server
    <3>5. CASE StopWorkThread \/ Join
      BY <3>0, <3>5 DEF StopWorkThread, Join, Unbegun, InStart, Server
    <3>6. CASE Teardown
      BY <3>0, <3>6 DEF Teardown, Unbegun, InStart, Server
    <3>7. CASE TeardownOfStart
      BY <3>0, <3>7 DEF TeardownOfStart, StartFails, AfterStart, Unbegun, InStart, Server
    <3> QED
      BY <1>3, <3>1, <3>2, <3>3, <3>4, <3>5, <3>6, <3>7 DEF MainPart
  <2>2. ASSUME NEW s \in Server, Before(s)' PROVE cmdQ'[s] = cmdQ[s] \/ cmdQ'[s] = <<>>
    <3>1. CASE TeardownOfStart
      BY <3>1 DEF TeardownOfStart, Emptied, TypeOK
    <3>2. CASE CloseNext \/ Teardown
      <4>1. ~Before(s)'
        BY <3>2 DEF CloseNext, Teardown, Control, Places, Unbegun, InStart, TypeOK
      <4> QED
        BY <2>2, <4>1
    <3> QED
      BY <1>3, <3>1, <3>2
      DEF MainPart, CreateListenSocket, Make, MakeFails, NoEpoll, StartWorkThread,
          StartAccept, Started, ExitFlagSet, AddListenSocket, CloseListenSocket,
          CloseAllDone, StopWorkThread, Join, mgr
  <2>3. ASSUME NEW s \in Server, Before(s)', StopWorkThread, s = srv, pc' = "join" PROVE FALSE
    BY <2>3 DEF StopWorkThread, Control, Places, Unbegun, InStart
  <2> HIDE DEF Before
  <2>4. \A s \in Server : Before(s)' => "exit" \notin (ready[s] \cup batch[s])' /\ cmdQ'[s] = <<>>
    <3>1. \A s \in Server : Before(s) => cmdQ[s] = <<>> /\ "exit" \notin ready[s] \cup batch[s]
      BY DEF Before, Fresh
    <3> QED
      BY <2>1, <2>2, <2>3, <3>1, ExitWritten
  <2> QED
    BY <2>4 DEF Fresh, Before
<1>4. CASE UNCHANGED vars
  <2>1. UNCHANGED <<cmdQ, ready, batch, fail, pc, srv>>
    BY <1>4 DEF vars
  <2> QED
    BY <2>1 DEF Fresh, Unbegun, InStart
<1> QED
  BY <1>2, <1>3, <1>4, Parts

\* What leaves a server's queue, count and events alone leaves it woken.
Calm(s) ==
  /\ cmdQ'[s] = cmdQ[s] /\ left'[s] = left[s]
  /\ wpc'[s] \in {"command", "erase"} <=> wpc[s] \in {"command", "erase"}
  /\ Active(s)' => Active(s)
  /\ s \in over => s \in over'
  /\ "cmd" \in ready[s] => "cmd" \in ready'[s]
  /\ "cmd" \in ready[s] \cup batch[s] => "cmd" \in (ready[s] \cup batch[s])'
  /\ "exit" \in batch'[s] => "exit" \in batch[s]

\* Such a server stays woken.
LEMMA CalmKeeps ==
  ASSUME Wake, NEW s \in Server, Calm(s), Active(s)', s \notin over'
  PROVE  Woken(s)'
BY DEF Wake, Calm, Woken

\* A command is queued with its event, by main before it writes the exit event
\* or by the worker before it turns to its commands.
LEMMA QueuedWakes ==
  ASSUME TypeOK, Wake, NEW s \in Server, NEW f \in Fd, Trigger(s, f), UNCHANGED left,
         HasStart(s) => At(slot[s].cmd) = File(s, "cmd"),
         \A t \in Server : wpc'[t] = wpc[t] \/ {wpc[t], wpc'[t]} \subseteq {"loop", "read"},
         \A t \in Server, k \in {"cmd", "exit"} : k \in batch'[t] <=> k \in batch[t],
         wpc[s] \in {"command", "erase"} => "exit" \notin batch[s]
  PROVE  Wake'
<1> SUFFICES ASSUME NEW t \in Server, Active(t)', t \notin over' PROVE Woken(t)'
  BY DEF Wake
<1>1. /\ Active(t) /\ t \notin over
      /\ wpc'[t] \in {"command", "erase"} <=> wpc[t] \in {"command", "erase"}
  BY TriggerWakes DEF Active
<1>2. Woken(t)
  BY <1>1 DEF Wake
<1>3. CASE cmdQ'[t] = cmdQ[t]
  BY <1>1, <1>2, <1>3, TriggerWakes DEF Woken
<1>4. CASE t = s /\ cmdQ'[s] = Append(cmdQ[s], f) /\ "cmd" \in ready'[s] /\ Len(cmdQ[s]) < CmdBudget
  <2>1. cmdQ[s] \in Seq(Fd) /\ CmdBudget \in Nat
    BY NumbersAssumption DEF TypeOK
  <2>2. Len(cmdQ'[s]) =< CmdBudget
    BY <1>4, <2>1
  <2> QED
    BY <1>1, <1>2, <1>4, <2>2 DEF Woken
<1> QED
  BY <1>1, <1>3, <1>4, TriggerWakes

\* A manager that is started finds its eventfd.
LEMMA CmdFound ==
  ASSUME TypeOK, CmdEvent, NEW s \in Server, ~(srv = s /\ (pc = "cmd" \/ fail)), HasStart(s)
  PROVE  At(slot[s].cmd) = File(s, "cmd")
BY DEF CmdEvent, CmdLeads, At, TypeOK, Fd, Slot

\* While no more is queued than one wakeup executes, none of it is left behind.
LEMMA WakeStep ==
  ASSUME Base, CmdEvent, Fresh, ExitLast, Wake, [Next]_vars PROVE Wake'
<1> USE DEF Base
<1>1. ASSUME \A s \in Server : Calm(s) \/ ~Active(s)' PROVE Wake'
  BY <1>1, CalmKeeps DEF Wake
<1>2. CASE \/ CreateListenSocket \/ Make \/ MakeFails \/ NoEpoll \/ Started
           \/ ExitFlagSet \/ (\E c \in Port : AddListenSocket(c)) \/ CloseAllDone \/ UNCHANGED vars
  <2>1. UNCHANGED <<cmdQ, left, wpc, over, ready, batch>>
    BY <1>2
    DEF CreateListenSocket, Make, MakeFails, NoEpoll, Started, ExitFlagSet, AddListenSocket,
        CloseAllDone, mgr, worker, kernel, ghost, vars
  <2> QED
    BY <1>1, <2>1 DEF Calm, Active
<1>3. CASE \/ StartAccept \/ CloseListenSocket \/ StopWorkThread
           \/ \E c \in Client : ClientConnects(c)
           \/ \E c \in Sock : PeerSends(c) \/ PeerEnds(c)
  <2>1. UNCHANGED <<cmdQ, left, wpc, over, batch>>
    BY <1>3 DEF StartAccept, CloseListenSocket, StopWorkThread, ClientConnects, PeerSends,
                PeerEnds, mgr, worker, ghost
  <2>2. \A s \in Server : "cmd" \in ready[s] => "cmd" \in ready'[s]
    <3>1. CASE StartAccept
      <4>1. ready' \in {ready, [ready EXCEPT !["tcp"] = ready["tcp"] \cup {"listen"}]}
        BY <3>1 DEF StartAccept, TypeOK
      <4>2. \A s \in Server : ready'[s] \in {ready[s], ready[s] \cup {"listen"}}
        BY <4>1 DEF TypeOK
      <4> QED
        BY <4>2
    <3>2. CASE CloseListenSocket
      <4>1. "cmd" \notin SocksAt({slot["tcp"].listen} \cap Fd)
        BY EventNames DEF SocksAt
      <4> QED
        BY <3>2, <4>1 DEF CloseListenSocket
    <3>3. CASE StopWorkThread
      <4>1. ready' \in {ready, [ready EXCEPT ![srv] = ready[srv] \cup {"exit"}]} /\ srv \in Server
        BY <3>3 DEF StopWorkThread, TypeOK
      <4>2. \A s \in Server : ready'[s] \in {ready[s], ready[s] \cup {"exit"}}
        BY <4>1 DEF TypeOK
      <4> QED
        BY <4>2
    <3>4. CASE \E c \in Client : ClientConnects(c)
      BY <3>4 DEF ClientConnects, TypeOK
    <3>5. CASE \E c \in Sock : PeerSends(c) \/ PeerEnds(c)
      <4>1. PICK c \in Sock : Arrives(c)
        BY <3>5 DEF PeerSends, PeerEnds
      <4> QED
        BY <4>1, ArrivesAdds
    <3> QED
      BY <1>3, <3>1, <3>2, <3>3, <3>4, <3>5
  <2> QED
    BY <1>1, <2>1, <2>2 DEF Calm, Active
<1>4. CASE StartWorkThread
  <2>1. UNCHANGED <<cmdQ, left, over, ready, batch>> /\ srv \in Server
    BY <1>4 DEF StartWorkThread, mgr, kernel, ghost, TypeOK
  <2>2. \A s \in Server : wpc'[s] = wpc[s] \/ (s = srv /\ wpc'[s] = "loop")
    BY <1>4 DEF StartWorkThread, TypeOK
  <2>3. cmdQ[srv] = <<>>
    BY <1>4, <2>1 DEF StartWorkThread, Fresh, InStart
  <2>4. ASSUME NEW s \in Server, Active(s)', s \notin over' PROVE Woken(s)'
    <3>1. CASE wpc'[s] = wpc[s]
      BY <2>1, <2>4, <3>1, CalmKeeps DEF Calm, Active
    <3>2. CASE s = srv /\ wpc'[s] = "loop"
      <4>1. Len(<<>>) =< CmdBudget
        BY NumbersAssumption
      <4> QED
        BY <2>1, <2>3, <3>2, <4>1 DEF Woken
    <3> QED
      BY <2>2, <3>1, <3>2
  <2> QED
    BY <2>4 DEF Wake
<1>5. CASE Join
  BY <1>1, <1>5 DEF Join, mgr, kernel, ghost, Calm, Active, TypeOK
<1>6. CASE Teardown \/ TeardownOfStart
  <2>1. /\ UNCHANGED <<wpc, left, over, ready, batch>> /\ ~Active(srv) /\ srv \in Server
    BY <1>6 DEF Teardown, TeardownOfStart, worker, ghost, Control, Threads, Active, TypeOK
  <2>2. \A s \in Server : s # srv => cmdQ'[s] = cmdQ[s]
    BY <1>6 DEF Teardown, TeardownOfStart, Emptied, mgr, TypeOK
  <2> QED
    BY <1>1, <2>1, <2>2 DEF Calm, Active
<1>7. CASE CloseNext
  <2>1. Min(Ahead) \in Fd /\ srv \in Server /\ pc = "walk"
    BY <1>7, NextInMap DEF CloseNext, TypeOK
  <2>2. UNCHANGED <<wpc, left, batch>>
    BY <1>7 DEF CloseNext, worker
  <2>3. "exit" \in batch[srv] => ~Active(srv)
    BY <2>1 DEF ExitLast
  <2>4. CASE Trigger(srv, Min(Ahead))
    <3>1. HasStart(srv) => At(slot[srv].cmd) = File(srv, "cmd")
      BY <2>1, CmdFound DEF Control, Places
    <3> QED
      BY <2>1, <2>2, <2>3, <2>4, <3>1, QueuedWakes DEF Active
  <2>5. CASE UNCHANGED <<cmdQ, over, ready>>
    BY <1>1, <2>2, <2>5 DEF Calm, Active
  <2> QED
    BY <1>7, <2>4, <2>5 DEF CloseNext
<1>8. ASSUME NEW t \in Server, EpollReturns(t) PROVE Wake'
  <2>1. UNCHANGED <<cmdQ, left, wpc, over>> /\ wpc[t] = "loop" /\ batch[t] = {}
    BY <1>8 DEF EpollReturns, mgr, ghost, Idle
  <2>2. \A s \in Server : /\ ready'[s] = IF s = t THEN {} ELSE ready[s]
                          /\ batch'[s] = IF s = t THEN ready[t] ELSE batch[s]
    BY <1>8 DEF EpollReturns, Reported, TypeOK
  <2>3. ASSUME NEW s \in Server, Active(s)', s \notin over' PROVE Woken(s)'
    <3>1. Woken(s)
      BY <2>1, <2>3 DEF Wake, Active
    <3> QED
      BY <2>1, <2>2, <3>1 DEF Woken
  <2> QED
    BY <2>3 DEF Wake
<1>9. ASSUME NEW t \in Server, EpollFails(t) \/ WorkEnds(t) PROVE Wake'
  <2>1. UNCHANGED <<cmdQ, left, ready>> /\ over \subseteq over'
    BY <1>9 DEF EpollFails, WorkEnds, mgr, kernel, ghost
  <2>2. \A s \in Server : wpc'[s] = IF s = t THEN "ended" ELSE wpc[s]
    BY <1>9 DEF EpollFails, WorkEnds, TypeOK
  <2>3. \A s \in Server : s # t => batch'[s] = batch[s]
    BY <1>9 DEF EpollFails, WorkEnds, TypeOK
  <2> QED
    BY <1>1, <2>1, <2>2, <2>3 DEF Calm, Active
<1>10. CASE Accept
  <2>1. UNCHANGED <<cmdQ, left, over, ready>> /\ "tcp" \in Server
    BY <1>10 DEF Accept, mgr, ghost, Server
  <2>2. \A s \in Server : wpc'[s] = wpc[s] \/ (s = "tcp" /\ wpc[s] = "loop" /\ wpc'[s] = "add")
    BY <1>10 DEF Accept, TypeOK
  <2>3. \A s \in Server : batch'[s] \in {batch[s], batch[s] \ {"listen"}}
    BY <1>10 DEF Accept, TypeOK
  <2> QED
    BY <1>1, <2>1, <2>2, <2>3 DEF Calm, Active
<1>11. CASE AddTcpSocket
  <2>1. UNCHANGED <<cmdQ, left, over, batch>> /\ wpc["tcp"] = "add"
    BY <1>11 DEF AddTcpSocket
  <2>2. \A s \in Server : wpc'[s] = IF s = "tcp" THEN "loop" ELSE wpc[s]
    BY <1>11 DEF AddTcpSocket, TypeOK
  <2>3. \A s \in Server : ready[s] \subseteq ready'[s]
    BY <1>11 DEF AddTcpSocket, TypeOK
  <2> QED
    BY <1>1, <2>1, <2>2, <2>3 DEF Calm, Active
<1>12. ASSUME NEW t \in Server, NEW c \in Sock, Reading(t, c) PROVE Wake'
  <2>1. /\ UNCHANGED left /\ wpc[t] \in {"loop", "read"}
        /\ \A s \in Server : wpc'[s] = wpc[s] \/ {wpc[s], wpc'[s]} \subseteq {"loop", "read"}
    BY <1>12, ReadEffect
  <2>2. \A s \in Server : batch'[s] = batch[s] \/ (s = t /\ batch'[s] = batch[s] \ {c})
    BY <1>12, ReadFrees
  <2>3. \A s \in Server, k \in {"cmd", "exit"} : k \in batch'[s] <=> k \in batch[s]
    BY <2>2, EventNames
  <2>4. CASE UNCHANGED <<cmdQ, over, ready>>
    BY <1>1, <2>1, <2>3, <2>4 DEF Calm, Active
  <2>5. ASSUME NEW f \in Fd, Trigger(t, f) PROVE Wake'
    <3>1. ~(srv = t /\ (pc = "cmd" \/ fail))
      BY <2>1 DEF Control, Places, Threads, InStart
    <3>2. HasStart(t) => At(slot[t].cmd) = File(t, "cmd")
      BY <3>1, CmdFound
    <3> QED
      BY <2>1, <2>3, <2>5, <3>2, QueuedWakes
  <2> QED
    BY <1>12, <2>4, <2>5, ReadEffect
<1>13. ASSUME NEW t \in Server, StartCommands(t) PROVE Wake'
  <2>1. UNCHANGED <<cmdQ, over, ready>> /\ wpc[t] = "loop"
    BY <1>13 DEF StartCommands, mgr, kernel, ghost
  <2>2. \A s \in Server : /\ wpc'[s] = IF s = t THEN "command" ELSE wpc[s]
                          /\ left'[s] = IF s = t THEN CmdBudget ELSE left[s]
                          /\ s # t => batch'[s] = batch[s]
    BY <1>13 DEF StartCommands, TypeOK
  <2>3. ASSUME NEW s \in Server, Active(s)', s \notin over' PROVE Woken(s)'
    <3>1. CASE s = t
      <4>1. Len(cmdQ[t]) =< CmdBudget /\ Len(cmdQ[t]) \in Nat /\ CmdBudget \in Nat
        BY <2>1, <2>3, <3>1, NumbersAssumption DEF Wake, Woken, Active, TypeOK
      <4> QED
        BY <2>1, <2>2, <3>1, <4>1 DEF Woken
    <3>2. CASE s # t
      BY <2>1, <2>2, <2>3, <3>2, CalmKeeps DEF Calm, Active
    <3> QED
      BY <3>1, <3>2
  <2> QED
    BY <2>3 DEF Wake
<1>14. ASSUME NEW t \in Server, CommandsDone(t) PROVE Wake'
  <2>1. /\ UNCHANGED <<cmdQ, over, ready, batch>> /\ wpc[t] = "command"
        /\ cmdQ[t] = <<>> \/ left[t] = 0
    BY <1>14 DEF CommandsDone, mgr, kernel, ghost
  <2>2. \A s \in Server : /\ wpc'[s] = IF s = t THEN "loop" ELSE wpc[s]
                          /\ s # t => left'[s] = left[s]
    BY <1>14 DEF CommandsDone, TypeOK
  <2>3. ASSUME NEW s \in Server, Active(s)', s \notin over' PROVE Woken(s)'
    <3>1. CASE s = t
      <4>1. Woken(t) /\ cmdQ[t] \in Seq(Fd)
        BY <2>1, <2>3, <3>1 DEF Wake, Active, TypeOK
      <4>2. "cmd" \in ready[t] \/ cmdQ[t] = <<>>
        BY <2>1, <4>1 DEF Woken
      <4> QED
        BY <2>1, <2>2, <3>1, <4>1, <4>2 DEF Woken
    <3>2. CASE s # t
      BY <2>1, <2>2, <2>3, <3>2, CalmKeeps DEF Calm, Active
    <3> QED
      BY <3>1, <3>2
  <2> QED
    BY <2>3 DEF Wake
<1>15. ASSUME NEW t \in Server, PopCommand(t), UNCHANGED <<over, ready, batch>>,
              cmdQ[t] # <<>>, left[t] > 0, wpc[t] \in {"command", "erase"}, wpc'[t] = "command",
              \A s \in Server : s # t => wpc'[s] = wpc[s]
       PROVE  Wake'
  <2>1. ASSUME NEW s \in Server, Active(s)', s \notin over' PROVE Woken(s)'
    <3>1. CASE s = t
      <4>1. Woken(t)
        BY <1>15, <2>1, <3>1 DEF Wake, Active
      <4>2. Len(cmdQ[t]) \in Nat /\ left[t] \in Nat /\ CmdBudget \in Nat
        BY NumbersAssumption DEF TypeOK
      <4>3. Len(cmdQ'[t]) = Len(cmdQ[t]) - 1 /\ left'[t] = left[t] - 1
        BY <1>15, PopCounts
      <4> QED
        BY <1>15, <3>1, <4>1, <4>2, <4>3 DEF Woken
    <3>2. CASE s # t
      BY <1>15, <2>1, <3>2, CalmKeeps, PopCounts DEF Calm, Active
    <3> QED
      BY <3>1, <3>2
  <2> QED
    BY <2>1 DEF Wake
<1>16. ASSUME NEW t \in Server, CommandNotFound(t) PROVE Wake'
  BY <1>15, <1>16 DEF CommandNotFound, Executing, kernel, ghost
<1>17. ASSUME NEW t \in Server, RemoveErase(t) PROVE Wake'
  <2>1. /\ cmdQ[t] # <<>> /\ left[t] > 0 /\ wpc[t] = "erase"
        /\ \A s \in Server : wpc'[s] = IF s = t THEN "command" ELSE wpc[s]
    BY <1>17 DEF RemoveErase, Erasing, Tables, WorkerHeld, TypeOK
  <2> QED
    BY <1>15, <1>17, <2>1 DEF RemoveErase, kernel, ghost
<1>18. ASSUME NEW t \in Server, RemoveClose(t) PROVE Wake'
  <2>1. UNCHANGED <<cmdQ, left, over, batch>> /\ wpc[t] = "command" /\ Named(t) \in Sock
    BY <1>18 DEF RemoveClose, mgr, Executing, Named, TypeOK
  <2>2. \A s \in Server : /\ wpc'[s] = IF s = t THEN "erase" ELSE wpc[s]
                          /\ ready'[s] \in {ready[s], ready[s] \ {Named(t)}}
    BY <1>18 DEF RemoveClose, TypeOK
  <2> QED
    BY <1>1, <2>1, <2>2, EventNames DEF Calm, Active
<1> QED
  BY <1>2, <1>3, <1>4, <1>5, <1>6, <1>7, <1>8, <1>9, <1>10, <1>11, <1>12, <1>13, <1>14, <1>16,
     <1>17, <1>18, Parts
  DEF MainPart, OtherPart, WorkerStep, NoSuchEpoll, Interrupted, Reading

----------------------------------------------------------------------------
(* Who has to be told, and who is excused.                                  *)

\* Nobody stops being excused.
LEMMA GhostsGrow ==
  ASSUME [Next]_vars
  PROVE  /\ failed \subseteq failed' /\ died \subseteq died'
         /\ missed \subseteq missed' /\ over \subseteq over'
<1>1. CASE UNCHANGED vars
  BY <1>1 DEF vars
<1>2. CASE MainPart
  <2>1. CASE \/ CreateListenSocket \/ Make \/ MakeFails \/ NoEpoll \/ StartWorkThread
             \/ StartAccept \/ Started \/ ExitFlagSet \/ \E c \in Port : AddListenSocket(c)
    BY <2>1 DEF CreateListenSocket, Make, MakeFails, NoEpoll, ManagerFails, StartWorkThread,
                StartAccept, Started, ExitFlagSet, AddListenSocket, StartFails, ghost
  <2>2. CASE \/ CloseListenSocket \/ CloseNext \/ CloseAllDone
             \/ StopWorkThread \/ Join \/ Teardown \/ TeardownOfStart
    BY <2>2 DEF CloseListenSocket, CloseNext, Trigger, CloseAllDone, StopWorkThread, Join,
                Teardown, TeardownOfStart, StartFails, ghost
  <2> QED
    BY <1>2, <2>1, <2>2 DEF MainPart
<1>3. CASE OtherPart
  <2>1. ASSUME NEW s \in Server, NEW c \in Sock, HandleReceive(s, c) \/ ReadNext(s, c)
        PROVE  /\ UNCHANGED <<failed, died, missed>> /\ over \subseteq over'
    BY <2>1 DEF HandleReceive, ReadNext, Read, Trigger
  <2>2. CASE \E c \in Sock : PeerSends(c) \/ PeerEnds(c)
    BY <2>2 DEF PeerSends, PeerEnds, ghost
  <2> QED
    BY <1>3, <2>1, <2>2
    DEF OtherPart, WorkerStep, ClientConnects, Interrupted, NoSuchEpoll,
        EpollFails, EpollReturns, WorkEnds, Accept, AddTcpSocket,
        StartCommands, CommandsDone, CommandNotFound, RemoveClose, RemoveErase, ghost
<1> QED
  BY <1>1, <1>2, <1>3, Parts

\* A socket that fcntl failed on is never heard of.
LEMMA LeakedStays ==
  ASSUME Base, [Next]_vars, NEW c \in Sock, client[c] = "leaked"
  PROVE  client'[c] = "leaked" /\ told[c] = "none" /\ told'[c] = "none"
<1> USE DEF Base
<1>1. told[c] = "none"
  BY DEF Tables, Table, Untouched
<1>2. client'[c] = "leaked"
  <2>1. CASE Quiet
    BY <2>1 DEF Quiet
  <2>2. CASE CreateListenSocket \/ Make \/ MakeFails \/ NoEpoll
    BY <2>2 DEF CreateListenSocket, Make, MakeFails, NoEpoll
  <2>3. CASE CloseListenSocket \/ Teardown \/ TeardownOfStart \/ AddTcpSocket
    BY <2>3 DEF CloseListenSocket, Teardown, TeardownOfStart, AddTcpSocket
  <2>4. ASSUME NEW d \in Port, AddListenSocket(d) PROVE client'[c] = "leaked"
    <3>1. client' \in {[client EXCEPT ![d] = "closed"], [client EXCEPT ![d] = "open"]} /\ c # d
      BY <2>4 DEF AddListenSocket
    <3> QED
      BY <3>1 DEF TypeOK
  <2>5. CASE Accept
    <3>1. \/ UNCHANGED client
          \/ \E d \in Client, k \in {"open", "leaked"} :
               client[d] = "queued" /\ client' = [client EXCEPT ![d] = k]
      BY <2>5 DEF Accept
    <3> QED
      BY <3>1 DEF TypeOK
  <2>6. ASSUME NEW s \in Server, RemoveClose(s) PROVE client'[c] = "leaked"
    <3>1. Named(s) # Nil /\ Head(cmdQ[s]) \in Fd /\ client' = [client EXCEPT ![Named(s)] = "closed"]
      BY <2>6 DEF RemoveClose, Executing, TypeOK
    <3>2. Named(s) # c
      BY <1>1, <3>1 DEF Tables, Table, Untouched, Named
    <3> QED
      BY <3>1, <3>2 DEF TypeOK
  <2>7. ASSUME NEW s \in Server, RemoveErase(s) PROVE client'[c] = "leaked"
    BY <2>7 DEF RemoveErase, kernel
  <2> QED
    BY <2>1, <2>2, <2>3, <2>4, <2>5, <2>6, <2>7, QuietOrBusy DEF Busy, Tables
<1>3. Base'
  BY BaseStep
<1> QED
  BY <1>1, <1>2, <1>3 DEF Tables, Table, Untouched

\* So nobody who is excused is blamed later.
LEMMA ExcusedStays ==
  ASSUME Base, [Next]_vars, NEW c \in Sock, Excused(c) PROVE Excused(c)'
<1>1. Home(c)' = Home(c)
  BY DEF Home
<1> QED
  BY <1>1, GhostsGrow, LeakedStays DEF Excused

\* What is queued stays when a command is appended, and when another is taken.
LEMMA QueuedStays ==
  ASSUME TypeOK, NEW s \in Server, NEW f \in Fd, Queued(s, f)
  PROVE  /\ \A g \in Fd : cmdQ'[s] = Append(cmdQ[s], g) => Queued(s, f)'
         /\ cmdQ'[s] = Tail(cmdQ[s]) /\ Head(cmdQ[s]) # f => Queued(s, f)'
         /\ cmdQ'[s] = cmdQ[s] => Queued(s, f)'
<1>1. cmdQ[s] \in Seq(Fd)
  BY DEF TypeOK
<1>2. PICK i \in 1..Len(cmdQ[s]) : cmdQ[s][i] = f
  BY DEF Queued
<1>3. ASSUME NEW g \in Fd, cmdQ'[s] = Append(cmdQ[s], g) PROVE Queued(s, f)'
  <2>1. i \in 1..Len(cmdQ'[s]) /\ cmdQ'[s][i] = f
    BY <1>1, <1>2, <1>3
  <2> QED
    BY <2>1 DEF Queued
<1>4. ASSUME cmdQ'[s] = Tail(cmdQ[s]), Head(cmdQ[s]) # f PROVE Queued(s, f)'
  <2>1. i # 1
    BY <1>1, <1>2, <1>4
  <2>2. i - 1 \in 1..Len(cmdQ'[s]) /\ cmdQ'[s][i - 1] = f
    BY <1>1, <1>2, <1>4, <2>1
  <2> QED
    BY <2>2 DEF Queued
<1> QED
  BY <1>3, <1>4 DEF Queued

\* CloseAllSocket passes no socket without queueing its disconnect, and only
\* its removal takes that away.
LEMMA PassedIsQueued ==
  ASSUME Base, [Next]_vars, NEW s \in Server, NEW f \in Fd, s \notin failed,
         sockMap[s][f] # Nil, told[sockMap[s][f]] = "hi", Passed(s, f) => Queued(s, f)
  PROVE  (Passed(s, f) => Queued(s, f))'
<1> USE DEF Base
<1>0. f \in Nat /\ f > 0 /\ cursor \in Nat
  BY NumbersAssumption DEF Fd, TypeOK
<1>1. ASSUME UNCHANGED cmdQ, Passed(s, f)' => Passed(s, f)
      PROVE  (Passed(s, f) => Queued(s, f))'
  BY <1>1, QueuedStays
<1>2. CASE OtherPart
  <2>1. Passed(s, f)' = Passed(s, f)
    BY <1>2, ControlOther DEF Passed
  <2>2. CASE UNCHANGED cmdQ
    BY <1>1, <2>1, <2>2
  <2>3. ASSUME NEW t \in Server, NEW c \in Sock, Reading(t, c)
        PROVE  (Passed(s, f) => Queued(s, f))'
    <3>1. ASSUME NEW g \in Fd, Trigger(t, g) PROVE (Passed(s, f) => Queued(s, f))'
      BY <2>1, <3>1, TriggerWakes, QueuedStays
    <3> QED
      BY <2>2, <2>3, <3>1, ReadEffect
  <2>4. ASSUME NEW t \in Server, PopCommand(t), t = s => Head(cmdQ[s]) # f
        PROVE  (Passed(s, f) => Queued(s, f))'
    <3>1. cmdQ'[s] = IF s = t THEN Tail(cmdQ[s]) ELSE cmdQ[s]
      BY <2>4 DEF PopCommand, TypeOK
    <3> QED
      BY <2>1, <2>4, <3>1, QueuedStays
  <2>5. ASSUME NEW t \in Server, CommandNotFound(t) PROVE (Passed(s, f) => Queued(s, f))'
    BY <2>4, <2>5 DEF CommandNotFound, Named
  <2>6. ASSUME NEW t \in Server, RemoveErase(t) PROVE (Passed(s, f) => Queued(s, f))'
    <3>1. wpc[t] = "erase" /\ PopCommand(t)
      BY <2>6 DEF RemoveErase, Erasing
    <3>2. sockMap[t][Head(cmdQ[t])] = hold[t] /\ told[hold[t]] = "bye"
      BY <3>1 DEF Tables, WorkerHeld, Table, Erased
    <3> QED
      BY <2>4, <3>1, <3>2
  <2>7. \/ UNCHANGED cmdQ
        \/ \E t \in Server : CommandNotFound(t) \/ RemoveErase(t)
        \/ \E t \in Server, c \in Sock : Reading(t, c)
    BY <1>2
    DEF OtherPart, WorkerStep, Reading, ClientConnects, PeerSends, PeerEnds, Interrupted,
        NoSuchEpoll, EpollFails, EpollReturns, WorkEnds, Accept, AddTcpSocket,
        StartCommands, CommandsDone, RemoveClose, mgr
  <2> QED
    BY <2>2, <2>3, <2>5, <2>6, <2>7
<1>3. CASE CloseNext
  <2> DEFINE m == Min(Ahead)
  <2>1. pc = "walk" /\ m \in Fd /\ (\A g \in Ahead : m =< g) /\ cursor' = m /\ srv \in Server
    BY <1>3, NextInMap DEF CloseNext, TypeOK
  <2>2. UNCHANGED <<pc, srv>>
    BY <1>3 DEF CloseNext
  <2> HIDE DEF m
  <2>3. ASSUME Passed(s, f)' PROVE Passed(s, f) \/ (f = m /\ s = srv)
    <3>1. srv = s /\ m >= f
      BY <2>1, <2>2, <2>3 DEF Passed
    <3>2. f =< cursor \/ f \in Ahead
      BY <1>0, <3>1 DEF Ahead
    <3>3. m \in Nat
      BY <2>1, NumbersAssumption DEF Fd
    <3> QED
      BY <1>0, <2>1, <3>1, <3>2, <3>3 DEF Passed
  <2>4. sockMap[srv][m] # Removing(srv) \/ ~(f = m /\ s = srv)
    BY DEF Removing, Erasing, Tables, Table, Erased
  <2>5. HasStart(srv) \/ s # srv
    BY <2>1 DEF Control, Slots, Off, Unbegun, Torn, InStart, Places
  <2>6. CASE UNCHANGED cmdQ /\ ~(f = m /\ s = srv)
    BY <1>1, <2>3, <2>6
  <2>7. CASE Trigger(srv, m)
    <3>1. CASE s # srv
      BY <2>1, <2>3, <2>7, <3>1, TriggerWakes, QueuedStays
    <3>2. CASE s = srv
      <4>1. cmdQ'[s] = Append(cmdQ[s], m) /\ cmdQ[s] \in Seq(Fd)
        BY <2>1, <2>5, <2>7, <3>2 DEF Trigger, TypeOK
      <4>2. CASE Passed(s, f)
        BY <2>1, <4>1, <4>2, QueuedStays
      <4>3. CASE f = m
        <5>1. Len(cmdQ[s]) + 1 \in 1..Len(cmdQ'[s]) /\ cmdQ'[s][Len(cmdQ[s]) + 1] = f
          BY <2>1, <4>1, <4>3
        <5> QED
          BY <5>1 DEF Queued
      <4> QED
        BY <2>3, <4>2, <4>3
    <3> QED
      BY <3>1, <3>2
  <2> QED
    BY <1>3, <2>4, <2>6, <2>7 DEF CloseNext, m
<1>4. CASE CloseAllDone
  <2>1. Passed(s, f)' => Passed(s, f)
    BY <1>0, <1>4 DEF CloseAllDone, Passed, Ahead
  <2> QED
    BY <1>1, <1>4, <2>1 DEF CloseAllDone, mgr
<1>5. CASE StopWorkThread
  BY <1>1, <1>5 DEF StopWorkThread, Passed, mgr
<1>6. CASE \/ CreateListenSocket \/ Make \/ MakeFails \/ NoEpoll \/ StartWorkThread
           \/ StartAccept \/ Started \/ ExitFlagSet
           \/ (\E c \in Port : AddListenSocket(c))
           \/ CloseListenSocket \/ Join \/ Teardown \/ TeardownOfStart
  <2>1. CASE CreateListenSocket \/ Make \/ MakeFails
    BY <2>1 DEF CreateListenSocket, Make, MakeFails, StartFails, AfterStart, NextStep, Passed
  <2>2. CASE NoEpoll \/ StartWorkThread \/ StartAccept
    BY <2>2 DEF NoEpoll, ManagerFails, StartWorkThread, StartAccept, StartFails, AfterStart, Passed
  <2>3. CASE Started \/ ExitFlagSet \/ (\E c \in Port : AddListenSocket(c))
    BY <2>3 DEF Started, ExitFlagSet, AddListenSocket, main, Passed
  <2>4. CASE CloseListenSocket \/ Join
    BY <1>0, <2>4 DEF CloseListenSocket, Join, Passed
  <2>5. CASE Teardown
    BY <1>0, <2>5 DEF Teardown, Passed
  <2>6. CASE TeardownOfStart
    BY <2>6 DEF TeardownOfStart, StartFails, AfterStart, Passed
  <2> QED
    BY <1>6, <2>1, <2>2, <2>3, <2>4, <2>5, <2>6
<1>7. CASE UNCHANGED vars
  BY <1>1, <1>7 DEF vars, Passed
<1> QED
  BY <1>2, <1>3, <1>4, <1>5, <1>6, <1>7, Parts DEF MainPart

\* A socket that a step leaves where it was is kept.
LEMMA LeftAlone ==
  ASSUME Base, Kept, [Next]_vars, NEW c \in Sock,
         Owed(c)' => Owed(c), Held(c) => Held(c)', told[c] = "hi" => told'[c] = "hi",
         \A f \in Fd : sockMap[Home(c)][f] = c /\ told[c] = "hi" => sockMap'[Home(c)][f] = c
  PROVE  Owed(c)' /\ ~Excused(c)' => Held(c)' \/ Placed(c)'
<1> SUFFICES ASSUME Owed(c)', ~Excused(c)', ~Held(c)' PROVE Placed(c)'
  OBVIOUS
<1>1. Owed(c) /\ ~Excused(c) /\ Placed(c)
  BY ExcusedStays DEF Kept
<1>2. PICK f \in Fd : sockMap[Home(c)][f] = c /\ (Passed(Home(c), f) => Queued(Home(c), f))
  BY <1>1 DEF Placed
<1>3. Home(c) \in Server \ failed /\ c # Nil /\ told[c] = "hi"
  BY <1>1, FileNames DEF Excused, Home, Server, Placed
<1>4. (Passed(Home(c), f) => Queued(Home(c), f))'
  BY <1>2, <1>3, PassedIsQueued DEF Home
<1> QED
  BY <1>2, <1>3, <1>4 DEF Placed, Home

\* A worker that is accepting holds a client's socket.
LEMMA HeldIsClient ==
  ASSUME Base, NEW c \in Sock, Held(c) PROVE c \in Client /\ Home(c) = "tcp"
BY DEF Base, Tables, WorkerHeld, Held, Home

\* All workers of a server that is being torn down have been joined: their
\* sockets were told, or are excused.
LEMMA TornIsTold ==
  ASSUME Base, AllTold, NEW c \in Sock, Owed(c),
         Torn(Home(c)) \/ (pc = "teardown" /\ srv = Home(c) /\ ~fail)
  PROVE  Excused(c)
<1> USE DEF Base
<1>1. Home(c) \in Server
  BY DEF Home, Server
<1>2. wpc[Home(c)] \in {"none", "joined"}
  BY <1>1 DEF Control, Threads
<1>3. Home(c) \in failed \/ wpc[Home(c)] = "joined"
  <2>1. Home(c) \notin failed => Begun(Home(c))
    BY <1>1 DEF Begun, Unbegun, InStart, Torn, Control, Places, Server
  <2> QED
    BY <1>1, <1>2, <2>1 DEF Control, Threads
<1>4. ~Held(c)
  BY <1>1, <1>2, HeldIsClient DEF Held
<1> QED
  BY <1>3, <1>4 DEF AllTold, Quitting, Excused

\* A socket somebody has to be told of is being accepted, or is in the map and
\* will be told when CloseAllSocket has passed it.
LEMMA KeptStep ==
  ASSUME Base, Kept, AllTold, [Next]_vars PROVE Kept'
<1> USE DEF Base
<1> SUFFICES ASSUME NEW c \in Sock PROVE Owed(c)' /\ ~Excused(c)' => Held(c)' \/ Placed(c)'
  BY DEF Kept
<1>0. Home(c) \in Server /\ c # Nil /\ "tcp" \in Server /\ "udp" \in Server
  BY FileNames DEF Home, Server
<1>1. ASSUME UNCHANGED <<told, sockMap>>,
             wpc["tcp"] = "add" => wpc'["tcp"] = "add" /\ hold'["tcp"] = hold["tcp"],
             \A f \in Fd : files'[f] = SockFile(c) => files[f] = SockFile(c)
      PROVE  Owed(c)' /\ ~Excused(c)' => Held(c)' \/ Placed(c)'
  <2>1. Owed(c)' => Owed(c)
    BY <1>1 DEF Owed, SockFile, Home
  <2> QED
    BY <1>1, <2>1, LeftAlone DEF Held
<1>2. CASE Quiet
  BY <1>0, <1>1, <1>2 DEF Quiet
<1>3. CASE CreateListenSocket \/ Make \/ MakeFails
  <2>1. UNCHANGED <<told, sockMap, hold, wpc>>
    BY <1>3 DEF CreateListenSocket, Make, MakeFails, mgr, worker, ghost
  <2>2. \A s \in Server, k \in Slot, f \in Fd :
          Open(File(s, k)) => (files'[f] = SockFile(c) => files[f] = SockFile(c))
    <3>1. ASSUME NEW s \in Server, NEW k \in Slot, NEW f \in Fd, Open(File(s, k)),
                 files'[f] = SockFile(c)
          PROVE  files[f] = SockFile(c)
      <4>1. files'[f] \in {files[f], File(s, k)}
        BY <3>1 DEF Open, TypeOK
      <4> QED
        BY <3>1, <4>1, FileNames
    <3> QED
      BY <3>1
  <2>3. UNCHANGED files \/ \E s \in Server, k \in Slot : Open(File(s, k))
    BY <1>3, <1>0 DEF CreateListenSocket, Make, MakeFails, NextStep, Slot, TypeOK
  <2> QED
    BY <1>1, <2>1, <2>2, <2>3
<1>4. CASE NoEpoll \/ CloseListenSocket
  <2>1. UNCHANGED <<told, sockMap, hold, wpc>>
    BY <1>4 DEF NoEpoll, CloseListenSocket, mgr, worker
  <2>2. \A f \in Fd : files'[f] = Nil \/ files'[f] = files[f]
    BY <1>4 DEF NoEpoll, ManagerFails, CloseListenSocket, CloseAll
  <2> QED
    BY <1>1, <2>1, <2>2, FileNames
<1>5. CASE Teardown \/ TeardownOfStart
  <2>1. UNCHANGED <<told, hold, wpc>>
    BY <1>5 DEF Teardown, TeardownOfStart, worker
  <2>2. \A f \in Fd : files'[f] = Nil \/ files'[f] = files[f]
    BY <1>5 DEF Teardown, TeardownOfStart, CloseAll
  <2>3. Owed(c)' => Owed(c)
    BY <2>1, <2>2, FileNames DEF Owed, SockFile, Home
  <2>4. CASE Home(c) # srv
    <3>1. sockMap'[Home(c)] = sockMap[Home(c)]
      BY <1>0, <1>5, <2>4 DEF Teardown, TeardownOfStart, Emptied, mgr, TypeOK
    <3> QED
      BY <2>1, <2>3, <3>1, LeftAlone DEF Held
  <2>5. CASE Home(c) = srv /\ Teardown
    BY <2>3, <2>5, TornIsTold, ExcusedStays DEF Teardown
  <2>6. CASE Home(c) = srv /\ TeardownOfStart
    BY <2>6 DEF TeardownOfStart, StartFails, Excused, Home
  <2> QED
    BY <1>5, <2>4, <2>5, <2>6
<1>6. CASE Accept
  <2>1. UNCHANGED <<told, sockMap>> /\ wpc["tcp"] = "loop" /\ ~Held(c)
    BY <1>6 DEF Accept, mgr, ghost, Held
  <2>2. CASE UNCHANGED <<files, hold, wpc>>
    BY <1>1, <2>1, <2>2
  <2>3. ASSUME NEW d \in Client, client[d] = "queued", Open(SockFile(d)),
               \/ hold' = [hold EXCEPT !["tcp"] = d] /\ wpc' = [wpc EXCEPT !["tcp"] = "add"]
               \/ client' = [client EXCEPT ![d] = "leaked"]
        PROVE  Owed(c)' /\ ~Excused(c)' => Held(c)' \/ Placed(c)'
    <3>1. CASE c = d
      <4>1. Held(c)' \/ client'[c] = "leaked"
        BY <1>0, <2>3, <3>1 DEF Held, TypeOK
      <4>2. told[c] = "none"
        BY <2>3, <3>1, SocketOpens
      <4> QED
        BY <2>1, <4>1, <4>2 DEF Excused
    <3>2. CASE c # d
      <4>1. \A f \in Fd : files'[f] = SockFile(c) => files[f] = SockFile(c)
        BY <2>3, <3>2, SocketOpens DEF Sock
      <4>2. Owed(c)' => Owed(c)
        BY <2>1, <4>1 DEF Owed, SockFile, Home
      <4> QED
        BY <2>1, <4>2, LeftAlone
    <3> QED
      BY <3>1, <3>2
  <2> QED
    BY <1>6, <2>2, <2>3 DEF Accept
<1>7. CASE AddTcpSocket
  <2>1. /\ UNCHANGED <<files, cmdQ, pc, srv, cursor>> /\ wpc["tcp"] = "add"
        /\ told' = [told EXCEPT ![hold["tcp"]] = "hi"]
    BY <1>7 DEF AddTcpSocket, main
  <2>2. PICK f \in Fd :
          /\ files[f] = SockFile(hold["tcp"]) /\ sockMap["tcp"][f] = Nil
          /\ sockMap' = [sockMap EXCEPT !["tcp"][f] = hold["tcp"]]
          /\ missed' = IF Passed("tcp", f) THEN missed \cup {hold["tcp"]} ELSE missed
          /\ "tcp" \notin failed /\ hold["tcp"] \in Client
          /\ \A s \in Server, g \in Fd : sockMap[s][g] # hold["tcp"]
    BY <1>7, AddsToMap
  <2>3. CASE c = hold["tcp"]
    <3>1. Home(c) = "tcp" /\ told'[c] = "hi" /\ sockMap'["tcp"][f] = c
      BY <1>0, <2>1, <2>2, <2>3 DEF Home, TypeOK
    <3>2. CASE Passed("tcp", f)
      BY <2>2, <2>3, <3>2 DEF Excused
    <3>3. CASE ~Passed("tcp", f)
      BY <2>1, <3>1, <3>3 DEF Placed, Passed, Home
    <3> QED
      BY <3>2, <3>3
  <2>4. CASE c # hold["tcp"]
    <3>1. told'[c] = told[c] /\ ~Held(c)
      BY <2>1, <2>4 DEF TypeOK, Held
    <3>2. \A g \in Fd : sockMap[Home(c)][g] = c => sockMap'[Home(c)][g] = c
      BY <1>0, <2>2 DEF TypeOK
    <3>3. Owed(c)' => Owed(c)
      BY <2>1, <3>1 DEF Owed, SockFile, Home
    <3> QED
      BY <3>1, <3>2, <3>3, LeftAlone
  <2> QED
    BY <2>3, <2>4
<1>8. ASSUME NEW d \in Port, AddListenSocket(d)
      PROVE  Owed(c)' /\ ~Excused(c)' => Held(c)' \/ Placed(c)'
  <2>1. UNCHANGED <<wpc, hold, pc, srv, cursor>> /\ pc = "add" /\ client[d] = "new" /\ d \in Sock
    BY <1>8 DEF AddListenSocket, main, worker, Sock
  <2>2. CASE UNCHANGED <<told, sockMap, files>>
    BY <1>1, <2>1, <2>2
  <2>3. CASE /\ Open(SockFile(d)) /\ told' = [told EXCEPT ![d] = "hi"]
             /\ \/ sockMap["udp"][Free] = Nil /\ sockMap' = [sockMap EXCEPT !["udp"][Free] = d]
                \/ missed' = missed \cup {d} /\ UNCHANGED sockMap
    <3>0. Free \in Fd
      BY <2>1, <2>3, SocketOpens
    <3>1. CASE c # d
      <4>1. told'[c] = told[c]
        BY <2>3, <3>1 DEF TypeOK
      <4>2. \A g \in Fd : sockMap[Home(c)][g] = c => sockMap'[Home(c)][g] = c
        <5>1. CASE UNCHANGED sockMap
          BY <5>1
        <5>2. CASE sockMap["udp"][Free] = Nil /\ sockMap' = [sockMap EXCEPT !["udp"][Free] = d]
          BY <1>0, <3>0, <5>2 DEF TypeOK
        <5> QED
          BY <2>3, <5>1, <5>2
      <4>3. \A f \in Fd : files'[f] = SockFile(c) => files[f] = SockFile(c)
        BY <2>1, <2>3, <3>1, SocketOpens
      <4>4. Owed(c)' => Owed(c)
        BY <4>1, <4>3 DEF Owed, SockFile, Home
      <4> QED
        BY <2>1, <4>1, <4>2, <4>4, LeftAlone DEF Held
    <3>2. CASE c = d /\ sockMap' = [sockMap EXCEPT !["udp"][Free] = d]
      <4>1. Home(c) = "udp"
        BY <1>8, <3>2, NamesAssumption DEF Home
      <4>2. sockMap'["udp"][Free] = c /\ told'[c] = "hi"
        BY <1>0, <2>3, <3>0, <3>2 DEF TypeOK
      <4>3. ~Passed("udp", Free)'
        BY <2>1 DEF Passed
      <4> QED
        BY <3>0, <4>1, <4>2, <2>1 DEF Placed, Passed, Home
    <3>3. CASE c = d /\ missed' = missed \cup {d}
      BY <3>3 DEF Excused
    <3> QED
      BY <2>3, <3>1, <3>2, <3>3
  <2> QED
    BY <1>8, <2>2, <2>3 DEF AddListenSocket
<1>9. ASSUME NEW s \in Server, RemoveClose(s)
      PROVE  Owed(c)' /\ ~Excused(c)' => Held(c)' \/ Placed(c)'
  <2>1. /\ UNCHANGED sockMap /\ wpc[s] = "command" /\ Named(s) \in Sock /\ Head(cmdQ[s]) \in Fd
        /\ told' = [told EXCEPT ![Named(s)] = "bye"]
        /\ \A t \in Server : t # s => wpc'[t] = wpc[t] /\ hold'[t] = hold[t]
    BY <1>9 DEF RemoveClose, Executing, Named, mgr, TypeOK
  <2>2. \A f \in Fd : files'[f] = IF f = Head(cmdQ[s]) THEN Nil ELSE files[f]
    BY <1>9 DEF RemoveClose, CloseAll
  <2>3. CASE c # Named(s)
    <3>1. told'[c] = told[c]
      BY <2>1, <2>3 DEF TypeOK
    <3>2. Owed(c)' => Owed(c)
      BY <2>2, <3>1, FileNames DEF Owed, SockFile, Home
    <3>3. Held(c) => Held(c)'
      BY <1>0, <2>1 DEF Held
    <3> QED
      BY <2>1, <3>1, <3>2, <3>3, LeftAlone
  <2>4. CASE c = Named(s)
    <3>1. told'[c] = "bye"
      BY <2>1, <2>4 DEF TypeOK
    <3>2. \A f \in Fd : files[f] = SockFile(c) => f = Head(cmdQ[s])
      BY <1>0, <2>1, <2>4 DEF Tables, MapOnce, Named
    <3>3. \A f \in Fd : files'[f] # SockFile(c)
      BY <2>2, <3>2, FileNames
    <3> QED
      BY <3>1, <3>3 DEF Owed, SockFile, Home
  <2> QED
    BY <2>3, <2>4
<1>10. ASSUME NEW s \in Server, RemoveErase(s)
       PROVE  Owed(c)' /\ ~Excused(c)' => Held(c)' \/ Placed(c)'
  <2>1. /\ UNCHANGED <<told, files>> /\ wpc[s] = "erase"
        /\ sockMap' = [sockMap EXCEPT ![s][Head(cmdQ[s])] = Nil]
        /\ \A t \in Server : t # s => wpc'[t] = wpc[t] /\ hold'[t] = hold[t]
    BY <1>10 DEF RemoveErase, Erasing, kernel, ghost, TypeOK
  <2>2. sockMap[s][Head(cmdQ[s])] = hold[s] /\ told[hold[s]] = "bye"
    BY <2>1 DEF Tables, WorkerHeld, Table, Erased
  <2>3. Held(c) => Held(c)'
    BY <1>0, <2>1 DEF Held
  <2>4. \A f \in Fd : sockMap[Home(c)][f] = c /\ told[c] = "hi" => sockMap'[Home(c)][f] = c
    BY <1>0, <2>1, <2>2 DEF TypeOK
  <2>5. Owed(c)' => Owed(c)
    BY <2>1 DEF Owed, SockFile, Home
  <2> QED
    BY <2>1, <2>3, <2>4, <2>5, LeftAlone
<1> QED
  BY <1>2, <1>3, <1>4, <1>5, <1>6, <1>7, <1>8, <1>9, <1>10, QuietOrBusy DEF Busy, Tables

\* Somebody new has to be told only when a socket is opened: by the worker,
\* which holds it unless fcntl fails, or by main while it adds the ports.
LEMMA NewlyOwed ==
  ASSUME Base, [Next]_vars, NEW c \in Sock, Owed(c)', ~Owed(c)
  PROVE  Held(c)' \/ Excused(c)' \/ \E d \in Port : AddListenSocket(d)
<1> USE DEF Base
<1>1. ASSUME told'[c] = told[c] \/ told'[c] # "hi",
             \A f \in Fd : files'[f] = SockFile(c) => files[f] = SockFile(c)
      PROVE  FALSE
  BY <1>1 DEF Owed, SockFile, Home
<1>2. CASE Quiet
  BY <1>1, <1>2 DEF Quiet
<1>3. CASE CreateListenSocket \/ Make \/ MakeFails
  <2>1. UNCHANGED told
    BY <1>3 DEF CreateListenSocket, Make, MakeFails, ghost
  <2>2. UNCHANGED files \/ \E s \in Server, k \in Slot : Open(File(s, k))
    BY <1>3 DEF CreateListenSocket, Make, MakeFails, NextStep, Slot, TypeOK, Server
  <2>3. ASSUME NEW s \in Server, NEW k \in Slot, NEW f \in Fd, Open(File(s, k)),
               files'[f] = SockFile(c)
        PROVE  files[f] = SockFile(c)
    <3>1. files'[f] \in {files[f], File(s, k)}
      BY <2>3 DEF Open, TypeOK
    <3> QED
      BY <2>3, <3>1, FileNames
  <2> QED
    BY <1>1, <2>1, <2>2, <2>3
<1>4. CASE NoEpoll \/ CloseListenSocket \/ Teardown \/ TeardownOfStart
  <2>1. UNCHANGED told
    BY <1>4 DEF NoEpoll, CloseListenSocket, Teardown, TeardownOfStart
  <2>2. \A f \in Fd : files'[f] = Nil \/ files'[f] = files[f]
    BY <1>4 DEF NoEpoll, ManagerFails, CloseListenSocket, Teardown, TeardownOfStart, CloseAll
  <2> QED
    BY <1>1, <2>1, <2>2, FileNames
<1>5. CASE Accept
  <2>1. UNCHANGED told
    BY <1>5 DEF Accept, ghost
  <2>2. CASE UNCHANGED files
    BY <1>1, <2>1, <2>2
  <2>3. ASSUME NEW d \in Client, client[d] = "queued", Open(SockFile(d)),
               \/ hold' = [hold EXCEPT !["tcp"] = d] /\ wpc' = [wpc EXCEPT !["tcp"] = "add"]
               \/ client' = [client EXCEPT ![d] = "leaked"]
        PROVE  Held(c)' \/ Excused(c)'
    <3>1. CASE c = d
      <4>1. Held(c)' \/ client'[c] = "leaked"
        BY <2>3, <3>1 DEF Held, TypeOK, Server
      <4>2. told[c] = "none"
        BY <2>3, <3>1, SocketOpens
      <4> QED
        BY <2>1, <4>1, <4>2 DEF Excused
    <3>2. CASE c # d
      <4>1. \A f \in Fd : files'[f] = SockFile(c) => files[f] = SockFile(c)
        BY <2>3, <3>2, SocketOpens DEF Sock
      <4> QED
        BY <1>1, <2>1, <4>1
    <3> QED
      BY <3>1, <3>2
  <2> QED
    BY <1>5, <2>2, <2>3 DEF Accept
<1>6. CASE AddTcpSocket
  <2>1. /\ UNCHANGED files /\ \E f \in Fd : files[f] = SockFile(hold["tcp"])
        /\ told' = [told EXCEPT ![hold["tcp"]] = "hi"]
    BY <1>6, AddsToMap DEF AddTcpSocket
  <2>2. c # hold["tcp"]
    BY <2>1 DEF Owed
  <2>3. told'[c] = told[c]
    BY <2>1, <2>2 DEF TypeOK
  <2> QED
    BY <1>1, <2>1, <2>3
<1>7. ASSUME NEW s \in Server, RemoveClose(s) PROVE FALSE
  <2>1. told'[c] = told[c] \/ told'[c] # "hi"
    BY <1>7 DEF RemoveClose, TypeOK
  <2>2. \A f \in Fd : files'[f] = Nil \/ files'[f] = files[f]
    BY <1>7 DEF RemoveClose, CloseAll
  <2> QED
    BY <1>1, <2>1, <2>2, FileNames
<1>8. ASSUME NEW s \in Server, RemoveErase(s) PROVE FALSE
  BY <1>1, <1>8 DEF RemoveErase, kernel, ghost
<1> QED
  BY <1>2, <1>3, <1>4, <1>5, <1>6, <1>7, <1>8, QuietOrBusy DEF Busy, Tables

\* A worker comes to its end by dying, or with the exit event and an empty
\* queue unless more was queued than it executes.
LEMMA NewlyQuitting ==
  ASSUME Base, Fresh, Wake, ExitLast, [Next]_vars,
         NEW s \in Server, Quitting(s)', ~Quitting(s), s \notin died'
  PROVE  /\ pc = "join" /\ srv = s /\ wpc[s] \in {"loop", "command"}
         /\ s \in over \/ cmdQ[s] = <<>>
<1> USE DEF Base
<1>1. ASSUME wpc'[s] = wpc[s] \/ {wpc[s], wpc'[s]} \subseteq {"loop", "read", "add"},
             "exit" \in batch'[s] => "exit" \in batch[s],
             "cmd" \notin batch'[s] => "cmd" \notin batch[s]
      PROVE  FALSE
  BY <1>1 DEF Quitting
<1>2. CASE MainPart
  <2>1. UNCHANGED batch
    BY <1>2
    DEF MainPart, CreateListenSocket, Make, MakeFails, NoEpoll, StartWorkThread,
        StartAccept, Started, ExitFlagSet, AddListenSocket, CloseListenSocket, CloseNext,
        CloseAllDone, StopWorkThread, Join, Teardown, TeardownOfStart, worker
  <2>2. CASE UNCHANGED wpc
    BY <1>1, <2>1, <2>2
  <2>3. CASE StartWorkThread
    <3>1. wpc'[s] = wpc[s] \/ (s = srv /\ wpc'[s] = "loop" /\ pc = "thread")
      BY <2>3 DEF StartWorkThread, TypeOK
    <3>2. s = srv /\ pc = "thread" => "exit" \notin batch[s]
      BY DEF Fresh, InStart
    <3> QED
      BY <1>1, <2>1, <3>1, <3>2 DEF Quitting
  <2>4. CASE Join
    BY <2>1, <2>4 DEF Join, Quitting, TypeOK
  <2> QED
    BY <1>2, <2>2, <2>3, <2>4
    DEF MainPart, CreateListenSocket, Make, MakeFails, NoEpoll,
        StartAccept, Started, ExitFlagSet, AddListenSocket, CloseListenSocket, CloseNext,
        CloseAllDone, StopWorkThread, Teardown, TeardownOfStart, worker
<1>3. CASE \/ \E c \in Client : ClientConnects(c)
           \/ \E c \in Sock : PeerSends(c) \/ PeerEnds(c)
           \/ UNCHANGED vars
  BY <1>1, <1>3 DEF ClientConnects, PeerSends, PeerEnds, worker, vars
<1>4. ASSUME NEW t \in Server, EpollFails(t) \/ WorkEnds(t) PROVE FALSE
  <2>1. CASE t = s
    BY <1>4, <2>1 DEF EpollFails, WorkEnds, Quitting
  <2>2. CASE t # s
    BY <1>1, <1>4, <2>2 DEF EpollFails, WorkEnds, TypeOK
  <2> QED
    BY <2>1, <2>2
<1>5. ASSUME NEW t \in Server, EpollReturns(t)
      PROVE  /\ pc = "join" /\ srv = s /\ wpc[s] \in {"loop", "command"}
             /\ s \in over \/ cmdQ[s] = <<>>
  <2>1. t = s
    BY <1>1, <1>5 DEF EpollReturns, TypeOK
  <2>2. wpc[s] = "loop" /\ batch[s] = {} /\ batch'[s] = ready[s] /\ wpc'[s] = "loop"
    BY <1>5, <2>1 DEF EpollReturns, Idle, Reported, TypeOK
  <2>3. "exit" \in ready[s] /\ "cmd" \notin ready[s]
    BY <2>2 DEF Quitting
  <2> QED
    BY <2>2, <2>3 DEF ExitLast, Wake, Woken, Active
<1>6. ASSUME NEW t \in Server, CommandsDone(t)
      PROVE  /\ pc = "join" /\ srv = s /\ wpc[s] \in {"loop", "command"}
             /\ s \in over \/ cmdQ[s] = <<>>
  <2>1. t = s
    BY <1>1, <1>6 DEF CommandsDone, TypeOK
  <2>2. wpc[s] = "command" /\ batch'[s] = batch[s] /\ wpc'[s] = "loop"
    BY <1>6, <2>1 DEF CommandsDone, TypeOK
  <2>3. "exit" \in batch[s] /\ (cmdQ[s] = <<>> \/ left[s] = 0) /\ cmdQ[s] \in Seq(Fd)
    BY <1>6, <2>1, <2>2 DEF Quitting, CommandsDone, TypeOK
  <2>4. s \notin over => left[s] >= Len(cmdQ[s])
    BY <2>2, <2>3 DEF Wake, Woken, Active
  <2> QED
    BY <2>2, <2>3, <2>4 DEF ExitLast, Active
<1>7. CASE Accept
  BY <1>1, <1>7 DEF Accept, TypeOK
<1>8. CASE AddTcpSocket
  BY <1>1, <1>8 DEF AddTcpSocket, TypeOK
<1>9. ASSUME NEW t \in Server, NEW c \in Sock, Reading(t, c) PROVE FALSE
  <2>1. batch'[s] \in {batch[s], batch[s] \ {c}}
    BY <1>9, ReadFrees
  <2>2. wpc'[s] = wpc[s] \/ {wpc[s], wpc'[s]} \subseteq {"loop", "read", "add"}
    BY <1>9, ReadEffect
  <2> QED
    BY <1>1, <2>1, <2>2, EventNames
<1>10. ASSUME NEW t \in Server,
              StartCommands(t) \/ CommandNotFound(t) \/ RemoveClose(t) \/ RemoveErase(t)
       PROVE  FALSE
  <2>1. CASE t = s
    <3>1. wpc'[s] \in {"command", "erase"}
      <4>1. CASE StartCommands(t)
        BY <2>1, <4>1 DEF StartCommands, TypeOK
      <4>2. CASE CommandNotFound(t)
        BY <2>1, <4>2 DEF CommandNotFound, Executing
      <4>3. CASE RemoveClose(t)
        BY <2>1, <4>3 DEF RemoveClose, TypeOK
      <4>4. CASE RemoveErase(t)
        BY <2>1, <4>4 DEF RemoveErase, TypeOK
      <4> QED
        BY <1>10, <4>1, <4>2, <4>3, <4>4
    <3> QED
      BY <3>1 DEF Quitting
  <2>2. CASE t # s
    <3>1. batch'[s] = batch[s] /\ wpc'[s] = wpc[s]
      BY <1>10, <2>2 DEF StartCommands, CommandNotFound, RemoveClose, RemoveErase, TypeOK
    <3> QED
      BY <1>1, <3>1
  <2> QED
    BY <2>1, <2>2
<1> QED
  BY <1>2, <1>3, <1>4, <1>5, <1>6, <1>7, <1>8, <1>9, <1>10, Parts
  DEF OtherPart, WorkerStep, NoSuchEpoll, Interrupted, Reading

\* The worker holds the socket it accepts until that is in the map.
LEMMA HeldUntilAdded ==
  ASSUME Base, [Next]_vars, NEW c \in Sock, Held(c) PROVE Held(c)' \/ AddTcpSocket
<1> USE DEF Base
<1>0. wpc["tcp"] = "add" /\ hold["tcp"] = c /\ "tcp" \in Server
  BY DEF Held, Server
<1>1. CASE Quiet
  BY <1>0, <1>1 DEF Quiet, Held
<1>2. CASE \/ CreateListenSocket \/ Make \/ MakeFails \/ NoEpoll
           \/ \E d \in Port : AddListenSocket(d)
           \/ CloseListenSocket \/ Teardown \/ TeardownOfStart
  BY <1>0, <1>2 DEF CreateListenSocket, Make, MakeFails, NoEpoll, AddListenSocket,
                    CloseListenSocket, Teardown, TeardownOfStart, worker, Held
<1>3. ~Accept
  BY <1>0 DEF Accept
<1>4. ASSUME NEW s \in Server, RemoveClose(s) PROVE Held(c)'
  BY <1>0, <1>4 DEF RemoveClose, Executing, Held, TypeOK
<1>5. ASSUME NEW s \in Server, RemoveErase(s) PROVE Held(c)'
  BY <1>0, <1>5 DEF RemoveErase, Erasing, Held, TypeOK
<1> QED
  BY <1>1, <1>2, <1>3, <1>4, <1>5, QuietOrBusy DEF Busy, Tables

\* When the exit event is all that is left for a worker, it has told all.
LEMMA AllToldStep ==
  ASSUME Base, Fresh, Wake, ExitLast, Kept, AllTold, [Next]_vars PROVE AllTold'
<1> USE DEF Base
<1> SUFFICES ASSUME NEW c \in Sock, Owed(c)', Quitting(Home(c))', ~Excused(c)', ~Held(c)'
             PROVE  FALSE
  BY DEF AllTold, Home
<1>0. /\ Home(c) \in Server /\ ~Excused(c)
      /\ Home(c) \notin died /\ Home(c) \notin died' /\ Home(c) \notin over
  BY ExcusedStays DEF Home, Server, Excused
<1>1. CASE ~Owed(c)
  <2>1. PICK d \in Port : AddListenSocket(d)
    BY <1>1, NewlyOwed
  <2>2. pc = "add" /\ UNCHANGED <<wpc, batch>>
    BY <2>1 DEF AddListenSocket, worker
  <2>3. Quitting(Home(c))
    BY <1>0, <2>2 DEF Quitting, Home
  <2>4. wpc[Home(c)] # "joined"
    BY <1>0, <2>2 DEF Control, Threads, Torn
  <2> QED
    BY <1>0, <2>2, <2>3, <2>4 DEF Quitting, ExitLast, Active
<1>2. CASE Owed(c) /\ Quitting(Home(c))
  <2>1. Held(c)
    BY <1>0, <1>2 DEF AllTold
  <2>2. AddTcpSocket /\ Home(c) = "tcp"
    BY <2>1, HeldUntilAdded, HeldIsClient
  <2>3. pc = "join" /\ srv = "tcp"
    BY <1>0, <1>2, <2>1, <2>2 DEF Quitting, Held, ExitLast, Active
  <2>4. Passed("tcp", CHOOSE n \in Fd : files[n] = SockFile(hold["tcp"]))
    BY <2>3 DEF Passed
  <2>5. c \in missed'
    BY <2>1, <2>2, <2>4 DEF AddTcpSocket, Held
  <2> QED
    BY <2>5 DEF Excused
<1>3. CASE Owed(c) /\ ~Quitting(Home(c))
  <2>1. /\ pc = "join" /\ srv = Home(c) /\ wpc[Home(c)] \in {"loop", "command"}
        /\ cmdQ[Home(c)] = <<>>
    BY <1>0, <1>3, NewlyQuitting DEF Home
  <2>2. ~Held(c)
    BY <2>1, HeldIsClient DEF Held
  <2>3. PICK f \in Fd : Passed(Home(c), f) => Queued(Home(c), f)
    BY <1>0, <1>3, <2>2 DEF Kept, Placed
  <2> QED
    BY <2>1, <2>3 DEF Passed, Queued
<1> QED
  BY <1>1, <1>2, <1>3

----------------------------------------------------------------------------
(* Everyone is told.                                                        *)

\* The invariant holds when the program begins ...
LEMMA InvInit == Init => Inv
<1> SUFFICES ASSUME Init PROVE Inv
  OBVIOUS
<1>1. Base
  BY BaseInit
<1>2. Swept
  BY DEF Init, Swept, Torn
<1>3. CmdEvent
  BY CmdInit
<1>4. Fresh /\ Wake /\ ExitLast
  BY DEF Init, Fresh, Wake, ExitLast, Active
<1>5. \A c \in Sock : ~Owed(c)
  BY FileNames DEF Init, Owed
<1> QED
  BY <1>1, <1>2, <1>3, <1>4, <1>5 DEF Inv, Kept, AllTold

\* ... and every step keeps it.
LEMMA InvStep ==
  ASSUME Inv, [Next]_vars PROVE Inv'
BY BaseStep, CmdStep, SweptStep, FreshStep, WakeStep, ExitLastStep, KeptStep, AllToldStep DEF Inv

\* The inductive invariant: descriptors, maps and threads, and what becomes of
\* a socket from its accept to its OnDisconnect.
THEOREM Invariant == Spec => []Inv
<1>1. Init => Inv
  BY InvInit
<1>2. Inv /\ [Next]_vars => Inv'
  BY InvStep
<1> QED
  BY <1>1, <1>2, PTL DEF Spec

\* When Stop has returned, every socket the listener heard of, and every one
\* that was open, has been told its end and closed, unless CloseAllSocket did
\* not see it, more was queued than one wakeup executes, its server failed to
\* start or its worker ended early, or fcntl failed when it was accepted.
THEOREM AllAreTold == Spec => []EveryoneTold
<1>1. Inv => EveryoneTold
  <2> SUFFICES ASSUME Inv, pc = "done", NEW c \in Sock, Owed(c) PROVE Excused(c)
    BY DEF EveryoneTold, Owed, Excused
  <2>1. Torn(Home(c))
    BY DEF Torn
  <2> QED
    BY <2>1, TornIsTold DEF Inv
<1> QED
  BY <1>1, Invariant, PTL
=============================================================================
