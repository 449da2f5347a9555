--------------------------- MODULE LifecycleSteps ---------------------------
(***************************************************************************)
(* Proofs about Lifecycle, first part: the inductive invariant of main's    *)
(* place, the descriptor table, the maps and the threads, and that every    *)
(* step keeps it, for any number of clients and ports.                      *)
(***************************************************************************)
EXTENDS Lifecycle, FiniteSetTheorems, WellFoundedInduction, TLAPS

----------------------------------------------------------------------------
(* The inductive invariant.                                                 *)

\* Where main is: inside a Start, before the Start of s, past the Stop of s,
\* and past CloseListenSocket.
InStart == pc \in {"epoll", "cmd", "exit", "timer", "thread", "accept"} \/ fail
Unbegun(s) == pc = "listen" \/ (s = "udp" /\ srv = "tcp" /\ InStart)
Torn(s) == \/ pc = "done"
           \/ /\ s = "tcp" /\ srv = "udp" /\ ~fail
              /\ pc \in {"walk", "stop", "join", "teardown"}
Unlistened ==
  "tcp" \in failed \/ pc \in {"walk", "stop", "join", "done"} \/ (pc = "teardown" /\ ~fail)

\* Main is in one place.
Places ==
  /\ fail => pc = "teardown"
  /\ pc \in {"listen", "accept", "close"} => srv = "tcp"
  /\ pc \in {"add", "run", "done"} => srv = "udp"
  /\ \A s \in failed : ~Unbegun(s) /\ ~(InStart /\ srv = s)

\* A manager has its descriptors from Start to Stop; before and after it has
\* none, nor commands.
Off(s) == Unbegun(s) \/ s \in failed \/ Torn(s) \/ (pc = "epoll" /\ srv = s)
Begun(s) == ~Unbegun(s) /\ s \notin failed /\ (InStart /\ srv = s => pc = "accept")
Later(k) == CASE k = "epoll" -> {"epoll", "cmd", "exit", "timer"}
              [] k = "cmd"   -> {"cmd", "exit", "timer"}
              [] k = "exit"  -> {"exit", "timer"}
              [] k = "timer" -> {"timer"}
              [] OTHER       -> {}
Slots ==
  /\ \A s \in Server : Off(s) => /\ \A k \in Slot \ {"listen"} : slot[s][k] = INVALID_FD
                                 /\ cmdQ[s] = <<>>
  /\ \A s \in Server : ~Off(s) => HasStart(s)
  /\ \A k \in Later(pc) : slot[srv][k] = INVALID_FD
  /\ pc = "listen" => slot["tcp"].listen = INVALID_FD
  /\ slot["udp"].listen = INVALID_FD

\* A worker lives as long as its manager has descriptors, and is joined
\* before they are closed.
Active(s) == wpc[s] \in {"loop", "add", "read", "command", "erase"}
Threads ==
  \A s \in Server :
    /\ Unbegun(s) \/ (InStart /\ srv = s /\ pc # "accept") \/ s \in failed => wpc[s] = "none"
    /\ Begun(s) => wpc[s] # "none"
    /\ Torn(s) \/ (pc = "teardown" /\ srv = s) => wpc[s] \in {"none", "joined"}
    /\ wpc[s] = "joined" => Torn(s) \/ (pc = "teardown" /\ srv = s)

\* What a worker holds between two of its steps.
WorkerHeld ==
  /\ wpc["udp"] # "add"
  /\ wpc["tcp"] = "add" => hold["tcp"] \in Client
  /\ \A s \in Server : wpc[s] = "erase" =>
       /\ cmdQ[s] # <<>> /\ left[s] > 0
       /\ hold[s] # Nil /\ sockMap[s][Head(cmdQ[s])] = hold[s]

Control == Places /\ Slots /\ Threads

\* What is open is a manager's or a socket, and is so once.
ManagerFiles == UNION {OwnFiles(s) : s \in Server}
SocketFiles  == {SockFile(c) : c \in Sock}
OpenOnce ==
  /\ \A f \in Fd : files[f] # Nil => files[f] \in ManagerFiles \cup SocketFiles
  /\ \A f, g \in Fd : files[f] = files[g] /\ files[f] # Nil => f = g

\* A manager remembers what it made, but for a timer that a failing Start
\* leaks.
Remembered ==
  \A s \in Server, k \in Slot, f \in Fd : files[f] = File(s, k) =>
    slot[s][k] = f \/ (k = "timer" /\ (s \in failed \/ (fail /\ srv = s)))
ListenClosed == Unlistened => \A f \in Fd : files[f] # File("tcp", "listen")

\* A socket that was never opened is not open, in no map, and the listener
\* has not heard of it; one it knows the end of is closed.  It never hears of
\* one that fcntl failed on.
Untouched ==
  \A c \in Sock :
    /\ client[c] \in {"new", "queued"} =>
         told[c] = "none" /\ \A f \in Fd : files[f] # SockFile(c)
    /\ told[c] = "none" => \A s \in Server, f \in Fd : sockMap[s][f] # c
    /\ told[c] = "bye" => \A f \in Fd : files[f] # SockFile(c)
    /\ client[c] = "leaked" => told[c] = "none"

\* The socket being accepted is open and nobody knows of it.
Accepted ==
  wpc["tcp"] = "add" =>
    /\ client[hold["tcp"]] \notin {"new", "queued", "leaked"}
    /\ told[hold["tcp"]] = "none"

\* The socket being removed has been told its end.
Erased == \A s \in Server : wpc[s] = "erase" => told[hold[s]] = "bye"

Table == OpenOnce /\ Remembered /\ ListenClosed /\ Untouched /\ Accepted /\ Erased

\* A map holds sockets of its server, each once, under the number it has if
\* it is open.
MapOnce ==
  \A s \in Server, f \in Fd : sockMap[s][f] # Nil =>
    /\ Home(sockMap[s][f]) = s
    /\ \A g \in Fd : sockMap[s][g] = sockMap[s][f] => g = f
    /\ \A g \in Fd : files[g] = SockFile(sockMap[s][f]) => g = f

\* Until TcpServer::Start fails every number leads to what it was given for.
NumbersLead ==
  "tcp" \notin failed =>
    /\ \A s \in Server, k \in Slot :
         slot[s][k] # INVALID_FD /\ ~(k = "listen" /\ Unlistened) =>
           files[slot[s][k]] = File(s, k)
    /\ \A s \in Server, f \in Fd :
         sockMap[s][f] # Nil /\ ~(wpc[s] = "erase" /\ f = Head(cmdQ[s])) =>
           files[f] = SockFile(sockMap[s][f])
    /\ wpc["tcp"] = "add" => \E f \in Fd : files[f] = SockFile(hold["tcp"])

Tables == WorkerHeld /\ Table /\ MapOnce /\ NumbersLead /\ ClosesItsOwn

Base == TypeOK /\ Control /\ Tables

----------------------------------------------------------------------------
(* The descriptor table.                                                    *)

\* A set of naturals with an element has a least one, which Min finds.
LEMMA MinIsLeast ==
  ASSUME NEW S, S \subseteq Nat, S # {}
  PROVE  /\ Min(S) \in S
         /\ \A x \in S : Min(S) =< x
<1> DEFINE R == OpToRel(<, Nat)
<1>1. \A x, y \in Nat : x < y => <<x, y>> \in R
  BY DEF OpToRel
<1>2. IsWellFoundedOn(R, Nat)
  BY NatLessThanWellFounded
<1> HIDE DEF R
<1>3. PICK m \in S : \A x \in S : ~(<<x, m>> \in R)
  BY <1>2, WFMin
<1>4. ASSUME NEW x \in S PROVE m =< x
  <2>1. x \in Nat /\ m \in Nat
    OBVIOUS
  <2>2. ~(x < m)
    BY <1>1, <1>3, <2>1
  <2> QED
    BY <2>1, <2>2
<1> QED
  BY <1>4 DEF Min

\* Two servers with five slots each have ten files of managers.
LEMMA ServersAndSlots ==
  /\ IsFiniteSet(Server \X Slot)
  /\ Cardinality(Server \X Slot) = 10
<1>1. IsFiniteSet({"tcp"}) /\ Cardinality({"tcp"}) = 1
  BY FS_Singleton
<1>2. IsFiniteSet(Server) /\ Cardinality(Server) = 2
  <2>1. Server = {"tcp"} \cup {"udp"} /\ "udp" \notin {"tcp"}
    BY DEF Server
  <2> QED
    BY <1>1, <2>1, FS_AddElement
<1>3. IsFiniteSet(Slot) /\ Cardinality(Slot) = 5
  <2>1. IsFiniteSet({"listen"}) /\ Cardinality({"listen"}) = 1
    BY FS_Singleton
  <2> DEFINE A == {"listen"} \cup {"epoll"}
             B == A \cup {"cmd"}
             C == B \cup {"exit"}
             D == C \cup {"timer"}
  <2>2. IsFiniteSet(A) /\ Cardinality(A) = 2
    BY <2>1, FS_AddElement, "epoll" \notin {"listen"}
  <2>3. IsFiniteSet(B) /\ Cardinality(B) = 3
    <3> "cmd" \notin A
      OBVIOUS
    <3> HIDE DEF A
    <3> QED
      BY <2>2, FS_AddElement
  <2>4. IsFiniteSet(C) /\ Cardinality(C) = 4
    <3> "exit" \notin B
      OBVIOUS
    <3> HIDE DEF B
    <3> QED
      BY <2>3, FS_AddElement
  <2>5. IsFiniteSet(D) /\ Cardinality(D) = 5
    <3> "timer" \notin C
      OBVIOUS
    <3> HIDE DEF C
    <3> QED
      BY <2>4, FS_AddElement
  <2>6. Slot = D
    BY DEF Slot
  <2> QED
    BY <2>5, <2>6
<1> QED
  BY <1>2, <1>3, FS_Product

\* The files there may be are fewer than the numbers.
LEMMA FewFiles ==
  /\ IsFiniteSet(ManagerFiles \cup SocketFiles)
  /\ Cardinality(ManagerFiles \cup SocketFiles) =< NumFds
<1>1. IsFiniteSet(ManagerFiles) /\ Cardinality(ManagerFiles) =< 10
  <2> DEFINE g == [p \in Server \X Slot |-> File(p[1], p[2])]
  <2>1. g \in Surjection(Server \X Slot, ManagerFiles)
    <3>1. \A p \in Server \X Slot : g[p] \in ManagerFiles
      BY DEF ManagerFiles, OwnFiles
    <3>2. ASSUME NEW x \in ManagerFiles PROVE \E p \in Server \X Slot : g[p] = x
      <4>1. PICK s \in Server, k \in Slot : x = File(s, k)
        BY <3>2 DEF ManagerFiles, OwnFiles
      <4>2. <<s, k>> \in Server \X Slot /\ g[<<s, k>>] = x
        BY <4>1
      <4> QED
        BY <4>2
    <3> QED
      BY <3>1, <3>2 DEF Surjection
  <2> QED
    BY <2>1, ServersAndSlots, FS_Surjection
<1>2. IsFiniteSet(SocketFiles) /\ Cardinality(SocketFiles) =< Cardinality(Sock)
  <2> DEFINE g == [c \in Sock |-> SockFile(c)]
  <2>1. g \in Surjection(Sock, SocketFiles)
    BY DEF Surjection, SocketFiles
  <2> QED
    BY <2>1, NumbersAssumption, FS_Surjection DEF Sock
<1>3. /\ IsFiniteSet(Client) /\ IsFiniteSet(Port)
      /\ Cardinality(Sock) =< Cardinality(Client) + Cardinality(Port)
      /\ Cardinality(Sock) \in Nat
  <2>1. IsFiniteSet(Client) /\ IsFiniteSet(Port)
    BY NumbersAssumption, FS_Subset
  <2>2. Client \cap Port = {}
    BY NamesAssumption
  <2>3. Cardinality(Client \cap Port) = 0
    BY <2>2, FS_EmptySet
  <2>4. /\ IsFiniteSet(Client \cup Port)
        /\ Cardinality(Client \cup Port) = Cardinality(Client) + Cardinality(Port) - 0
    BY <2>1, <2>3, FS_Union
  <2> QED
    BY <2>1, <2>4, FS_CardinalityType DEF Sock
<1>4. /\ IsFiniteSet(ManagerFiles \cup SocketFiles)
      /\ Cardinality(ManagerFiles \cup SocketFiles) =<
           Cardinality(ManagerFiles) + Cardinality(SocketFiles)
  <2>1. IsFiniteSet(ManagerFiles \cap SocketFiles)
    BY <1>1, FS_Subset
  <2>2. Cardinality(ManagerFiles \cap SocketFiles) \in Nat
    BY <2>1, FS_CardinalityType
  <2>3. /\ IsFiniteSet(ManagerFiles \cup SocketFiles)
        /\ Cardinality(ManagerFiles \cup SocketFiles) =
             Cardinality(ManagerFiles) + Cardinality(SocketFiles)
               - Cardinality(ManagerFiles \cap SocketFiles)
    BY <1>1, <1>2, FS_Union
  <2>4. Cardinality(ManagerFiles) \in Nat /\ Cardinality(SocketFiles) \in Nat
    BY <1>1, <1>2, FS_CardinalityType
  <2> QED
    BY ONLY <2>2, <2>3, <2>4, SMT
<1>5. /\ Cardinality(ManagerFiles) \in Nat /\ Cardinality(SocketFiles) \in Nat
      /\ Cardinality(Client) \in Nat /\ Cardinality(Port) \in Nat
      /\ Cardinality(ManagerFiles \cup SocketFiles) \in Nat
  BY <1>1, <1>2, <1>3, <1>4, FS_CardinalityType
<1> QED
  BY <1>1, <1>2, <1>3, <1>4, <1>5, NumbersAssumption

\* Whoever opens a file that is not open yet finds a number for it.
LEMMA NumberIsFree ==
  ASSUME TypeOK, OpenOnce, NEW x \in ManagerFiles \cup SocketFiles,
         \A f \in Fd : files[f] # x
  PROVE  Free \in Fd /\ files[Free] = Nil
<1> DEFINE U == {f \in Fd : files[f] # Nil}
           T == ManagerFiles \cup SocketFiles
           g == [f \in U |-> files[f]]
<1>1. IsFiniteSet(T \ {x}) /\ Cardinality(T \ {x}) < NumFds
  <2> HIDE DEF T
  <2>1. IsFiniteSet(T) /\ Cardinality(T) =< NumFds /\ Cardinality(T) \in Nat
    BY FewFiles, FS_CardinalityType DEF T
  <2>2. IsFiniteSet(T \ {x}) /\ Cardinality(T \ {x}) = Cardinality(T) - 1
    BY <2>1, FS_RemoveElement DEF T
  <2> QED
    BY <2>1, <2>2, NumbersAssumption
<1>2. g \in Injection(U, T \ {x})
  BY DEF Injection, IsInjective, OpenOnce
<1>3. Cardinality(U) < NumFds
  <2> HIDE DEF U, T, g
  <2>1. IsFiniteSet(U) /\ Cardinality(U) =< Cardinality(T \ {x})
    BY <1>1, <1>2, FS_Injection
  <2> QED
    BY <1>1, <2>1, FS_CardinalityType, NumbersAssumption
<1>4. U # Fd
  <2>1. NumFds \in Nat /\ Cardinality(1..NumFds) = NumFds
    BY FS_Interval, NumbersAssumption
  <2> HIDE DEF U
  <2> QED
    BY <1>3, <2>1 DEF Fd
<1>5. {f \in Fd : files[f] = Nil} # {}
  BY <1>4
<1>6. {f \in Fd : files[f] = Nil} \subseteq Nat
  BY NumbersAssumption DEF Fd
<1> QED
  BY <1>5, <1>6, MinIsLeast DEF Free

----------------------------------------------------------------------------
(* Main's place, the descriptors of the managers and their threads.         *)

\* A step of main.
MainPart ==
  \/ CreateListenSocket \/ Make \/ MakeFails \/ NoEpoll \/ StartWorkThread
  \/ StartAccept \/ Started \/ ExitFlagSet
  \/ \E c \in Port : AddListenSocket(c)
  \/ CloseListenSocket \/ CloseNext \/ CloseAllDone
  \/ StopWorkThread \/ Join \/ Teardown \/ TeardownOfStart

\* A step of a worker, a client or a signal.
OtherPart ==
  \/ \E c \in Client : ClientConnects(c)
  \/ \E c \in Sock : PeerSends(c) \/ PeerEnds(c)
  \/ \E s \in Server : Interrupted(s) \/ WorkerStep(s)

\* A step is main's, or a worker's, a client's or a signal's.
LEMMA Parts == Next => MainPart \/ OtherPart
BY DEF Next, MainStep, Environment, MainPart, OtherPart

\* Nothing opened is open already, so there is a number for it.
FreeIsFree == Free \in Fd /\ files[Free] = Nil

\* Main makes each descriptor once and a socket is opened once, so there is a
\* number free for it.
LEMMA OpensFree ==
  ASSUME TypeOK, Control, Table
  PROVE  /\ pc = "listen" => FreeIsFree /\ \A f \in Fd : files[f] # File("tcp", "listen")
         /\ pc \in DOMAIN NextStep =>
              FreeIsFree /\ \A f \in Fd : files[f] # File(srv, pc)
         /\ \A c \in Sock : client[c] \in {"new", "queued"} =>
              FreeIsFree /\ \A f \in Fd : files[f] # SockFile(c)
<1>1. \A s \in Server, k \in Slot : File(s, k) \in ManagerFiles
  BY DEF ManagerFiles, OwnFiles
<1>2. \A f \in Fd : f # 0
  BY DEF Fd
<1>3. ASSUME pc = "listen" PROVE FreeIsFree /\ \A f \in Fd : files[f] # File("tcp", "listen")
  <2>1. \A f \in Fd : files[f] # File("tcp", "listen")
    BY <1>2, <1>3 DEF Control, Slots, Table, Remembered, INVALID_FD, Server, Slot
  <2> QED
    BY <1>1, <2>1, NumberIsFree DEF FreeIsFree, Table, Server, Slot
<1>4. ASSUME pc \in DOMAIN NextStep
      PROVE  FreeIsFree /\ \A f \in Fd : files[f] # File(srv, pc)
  <2>1. pc \in {"epoll", "cmd", "exit", "timer"} /\ pc \in Slot /\ srv \in Server
    BY <1>4 DEF NextStep, TypeOK, Slot
  <2>2. slot[srv][pc] = 0
    BY <2>1 DEF Control, Slots, Later, INVALID_FD
  <2>3. ~fail /\ srv \notin failed
    BY <2>1 DEF Control, Places, InStart, TypeOK
  <2>4. \A f \in Fd : files[f] # File(srv, pc)
    BY <1>2, <2>1, <2>2, <2>3 DEF Table, Remembered
  <2> QED
    BY <1>1, <2>1, <2>4, NumberIsFree DEF FreeIsFree, Table
<1>5. ASSUME NEW c \in Sock, client[c] \in {"new", "queued"}
      PROVE  FreeIsFree /\ \A f \in Fd : files[f] # SockFile(c)
  <2>1. \A f \in Fd : files[f] # SockFile(c)
    BY <1>5 DEF Table, Untouched
  <2> QED
    BY <2>1, NumberIsFree DEF FreeIsFree, Table, SocketFiles
<1> QED
  BY <1>3, <1>4, <1>5

\* Main begins before the first Start.
LEMMA ControlInit == Init => Control
BY DEF Init, Control, Places, Slots, Threads, Unbegun, Off, Torn, Begun, InStart, Later, Server,
       Slot, INVALID_FD, HasStart

\* A read goes on, or ends the loop and may queue a command.
Reading(s, c) == HandleReceive(s, c) \/ ReadNext(s, c)

LEMMA ReadEffect ==
  ASSUME TypeOK, NEW s \in Server, NEW c \in Sock, Reading(s, c)
  PROVE  /\ UNCHANGED <<pc, srv, fail, cursor, slot, sockMap, left, crashed, files, watched,
                       told, failed, died, missed, stolen>>
         /\ batch' \in {batch, [batch EXCEPT ![s] = batch[s] \ {c}]}
         /\ wpc[s] \in {"loop", "read"} /\ wpc'[s] \in {"loop", "read"}
         /\ wpc' \in [Server -> {"none", "loop", "add", "read", "command", "erase",
                                "ended", "joined"}]
         /\ hold' \in [Server -> Sock \cup {Nil}]
         /\ \A t \in Server : t # s => wpc'[t] = wpc[t] /\ hold'[t] = hold[t]
         /\ unread' \subseteq unread
         /\ UNCHANGED <<cmdQ, over, ready>> \/ \E f \in Fd : Trigger(s, f)
         /\ client' \in [Sock -> {"new", "queued", "open", "ended", "closed", "leaked"}]
         /\ \A d \in Sock : client'[d] # client[d] => client[d] = "ended" /\ client'[d] = "open"
         /\ \A t \in Server : cmdQ'[t] # cmdQ[t] => t = s
<1>1. /\ UNCHANGED <<pc, srv, fail, cursor, slot, sockMap, left, crashed, files, watched,
                    told, failed, died, missed, stolen>>
      /\ batch' \in {batch, [batch EXCEPT ![s] = batch[s] \ {c}]}
      /\ wpc[s] \in {"loop", "read"}
  BY DEF Reading, HandleReceive, ReadNext, main
<1>2. CASE UNCHANGED <<wpc, hold, cmdQ, over, ready, client, unread>>
  BY <1>1, <1>2 DEF TypeOK
<1>3. ASSUME NEW f \in Fd, Read(s, c, f)
      PROVE  /\ \E w \in {"loop", "read"} : wpc' = [wpc EXCEPT ![s] = w]
             /\ \E h \in {c, Nil} : hold' = [hold EXCEPT ![s] = h]
             /\ unread' \subseteq unread
             /\ UNCHANGED <<cmdQ, over, ready>> \/ Trigger(s, f)
             /\ UNCHANGED client \/ (client[c] = "ended" /\ client' = [client EXCEPT ![c] = "open"])
  BY <1>3 DEF Read
<1>4. CASE \E f \in Fd : Read(s, c, f)
  <2>1. PICK f \in Fd : Read(s, c, f)
    BY <1>4
  <2>2. /\ \E w \in {"loop", "read"} : wpc' = [wpc EXCEPT ![s] = w]
        /\ \E h \in {c, Nil} : hold' = [hold EXCEPT ![s] = h]
    BY <1>3, <2>1
  <2>3. /\ wpc'[s] \in {"loop", "read"}
        /\ wpc' \in [Server -> {"none", "loop", "add", "read", "command", "erase",
                               "ended", "joined"}]
        /\ hold' \in [Server -> Sock \cup {Nil}]
        /\ \A t \in Server : t # s => wpc'[t] = wpc[t] /\ hold'[t] = hold[t]
    BY <2>2 DEF TypeOK
  <2>4. /\ client' \in [Sock -> {"new", "queued", "open", "ended", "closed", "leaked"}]
        /\ \A d \in Sock : client'[d] # client[d] => client[d] = "ended" /\ client'[d] = "open"
    <3>1. \/ UNCHANGED client
          \/ client[c] = "ended" /\ client' = [client EXCEPT ![c] = "open"]
      BY <1>3, <2>1
    <3>2. client \in [Sock -> {"new", "queued", "open", "ended", "closed", "leaked"}]
      BY DEF TypeOK
    <3>3. client' \in [Sock -> {"new", "queued", "open", "ended", "closed", "leaked"}]
      BY ONLY <3>1, <3>2
    <3>4. ASSUME NEW d \in Sock, client'[d] # client[d]
          PROVE  client[d] = "ended" /\ client'[d] = "open"
      <4>1. client' = [client EXCEPT ![c] = "open"] /\ client[c] = "ended"
        BY <3>1, <3>4
      <4>2. d = c
        BY ONLY <3>2, <3>4, <4>1
      <4> QED
        BY ONLY <3>2, <4>1, <4>2
    <3> QED
      BY <3>3, <3>4
  <2>5. \A t \in Server : cmdQ'[t] # cmdQ[t] => t = s
    <3>1. UNCHANGED cmdQ \/ Trigger(s, f)
      BY <1>3, <2>1
    <3> QED
      BY <3>1 DEF Trigger, TypeOK
  <2> QED
    BY <1>1, <1>3, <2>1, <2>3, <2>4, <2>5
<1> QED
  BY <1>2, <1>4 DEF Reading, HandleReceive, ReadNext

\* Nobody but main changes these, and workers only die.
LEMMA ControlOther ==
  ASSUME TypeOK, Control, OtherPart
  PROVE  /\ UNCHANGED <<pc, srv, fail, cursor, slot, failed>>
         /\ \A s \in Server : wpc'[s] # wpc[s] =>
              Active(s) /\ wpc'[s] \in {"loop", "add", "read", "command", "erase", "ended"}
         /\ \A s \in Server : cmdQ'[s] # cmdQ[s] => Active(s) /\ HasStart(s)
<1>1. ASSUME NEW s \in Server PROVE Active(s) => HasStart(s)
  BY DEF Control, Threads, Slots, Active, Off, InStart
<1>2. CASE \/ \E c \in Client : ClientConnects(c)
           \/ \E c \in Sock : PeerSends(c) \/ PeerEnds(c)
  BY <1>2 DEF ClientConnects, PeerSends, PeerEnds, main, mgr, worker, ghost
<1>3. ASSUME NEW s \in Server, Interrupted(s) \/ WorkerStep(s)
      PROVE  /\ UNCHANGED <<pc, srv, fail, cursor, slot, failed>>
             /\ \A t \in Server : wpc'[t] # wpc[t] =>
                  Active(t) /\ wpc'[t] \in {"loop", "add", "read", "command", "erase", "ended"}
             /\ \A t \in Server : cmdQ'[t] # cmdQ[t] => Active(t)
  <2>1. CASE EpollFails(s)
    BY <2>1 DEF EpollFails, Idle, Active, main, mgr, TypeOK
  <2>2. CASE EpollReturns(s) \/ WorkEnds(s) \/ StartCommands(s) \/ CommandsDone(s)
    BY <2>2 DEF EpollReturns, WorkEnds, StartCommands, CommandsDone, Active, main, mgr, ghost,
       TypeOK
  <2>3. CASE s = "tcp" /\ (Accept \/ AddTcpSocket)
    <3>1. CASE Accept
      BY <2>3, <3>1 DEF Accept, Active, main, mgr, ghost, TypeOK
    <3>2. CASE AddTcpSocket
      BY <2>3, <3>2 DEF AddTcpSocket, Active, main, TypeOK
    <3> QED
      BY <2>3, <3>1, <3>2
  <2>4. ASSUME NEW c \in Sock, Reading(s, c)
        PROVE  /\ UNCHANGED <<pc, srv, fail, cursor, slot, failed>>
               /\ wpc[s] \in {"loop", "read"} /\ wpc'[s] \in {"loop", "read"}
               /\ \A t \in Server : wpc'[t] # wpc[t] => t = s
               /\ \A t \in Server : cmdQ'[t] # cmdQ[t] => t = s
    BY <2>4, ReadEffect
  <2>5. CASE CommandNotFound(s)
    BY <2>5 DEF CommandNotFound, Executing, PopCommand, Active, main, ghost, TypeOK
  <2>6. CASE RemoveClose(s)
    BY <2>6 DEF RemoveClose, Executing, Active, main, mgr, TypeOK
  <2>7. CASE RemoveErase(s)
    BY <2>7 DEF RemoveErase, Erasing, PopCommand, Active, main, ghost, TypeOK
  <2> QED
    BY <1>3, <2>1, <2>2, <2>3, <2>4, <2>5, <2>6, <2>7
    DEF WorkerStep, Interrupted, NoSuchEpoll, Active, Reading
<1> QED
  BY <1>1, <1>2, <1>3 DEF OtherPart

\* Every step of main leaves it in a place, with the descriptors and the
\* threads that belong to it.
LEMMA ControlMain ==
  ASSUME TypeOK, Control, Table, MainPart PROVE Control'
<1> USE DEF Places, Slots, Threads, Unbegun, Off, Torn, Begun, InStart, Later,
            Slot, INVALID_FD, HasStart
<1>0. \A s \in Server : s = "tcp" \/ s = "udp"
  BY DEF Server
<1>1. CASE CreateListenSocket
  <2>1. Places'
    BY <1>0, <1>1, OpensFree, SMTT(30) DEF Control, TypeOK, CreateListenSocket, StartFails,
       AfterStart, Server
  <2>2. Slots'
    BY <1>0, <1>1, OpensFree, SMTT(30) DEF Control, TypeOK, CreateListenSocket, StartFails,
       AfterStart, Server
  <2>3. Threads'
    BY <1>0, <1>1, OpensFree
    DEF Control, TypeOK, CreateListenSocket, StartFails, AfterStart, Server, worker
  <2> QED
    BY <2>1, <2>2, <2>3 DEF Control
<1>2. CASE Make
  <2>1. /\ Free \in Fd /\ srv \in Server
        /\ pc' = NextStep[pc] /\ UNCHANGED <<srv, fail, cmdQ, wpc, failed>>
        /\ slot' = [slot EXCEPT ![srv][pc] = Free]
    BY <1>2, OpensFree DEF Make, FreeIsFree, TypeOK, worker, ghost
  <2>2. pc \in {"epoll", "cmd", "exit", "timer"} /\ pc' \in {"cmd", "exit", "timer", "thread"}
    BY <1>2, <2>1 DEF Make, NextStep
  <2>3. Free # 0
    BY <2>1 DEF Fd
  <2>4. Places'
    BY <2>1, <2>2 DEF Control
  <2>5. Threads'
    BY <1>0, <2>1, <2>2 DEF Control
  <2>6. Slots'
    <3>1. ASSUME NEW s \in Server, Off(s)' PROVE Off(s) /\ s # srv
      BY <2>1, <2>2, <3>1 DEF Control
    <3>2. ASSUME NEW s \in Server, ~Off(s)' PROVE ~Off(s) \/ (s = srv /\ pc = "epoll")
      BY <2>1, <2>2, <3>2 DEF Control
    <3>3. \A s \in Server, k \in Slot :
            slot'[s][k] = IF s = srv /\ k = pc THEN Free ELSE slot[s][k]
      BY <2>1, <2>2 DEF TypeOK
    <3>4. \A k \in Later(pc)' : k \in Later(pc) /\ k # pc
      BY <2>1, <2>2 DEF NextStep
    <3>5. "epoll" \in Slot /\ "listen" \in Slot /\ Later(pc) \subseteq Slot
      BY <2>2
    <3> QED
      BY <1>0, <2>1, <2>2, <2>3, <3>1, <3>2, <3>3, <3>4, <3>5 DEF Control, Server
  <2> QED
    BY <2>4, <2>5, <2>6 DEF Control
<1>3. CASE MakeFails
  <2> USE <1>0, <1>3 DEF Control, TypeOK, Server, worker, MakeFails, NextStep, mgr, ghost
  <2>1. Places'
    BY SMTT(30)
  <2>2. Slots'
    BY SMTT(30)
  <2>3. Threads'
    BY SMTT(30)
  <2> QED
    BY <2>1, <2>2, <2>3
<1>4. CASE NoEpoll
  <2> USE <1>0, <1>4 DEF Control, TypeOK, Server, worker, NoEpoll, ManagerFails, mgr, StartFails,
     AfterStart
  <2>1. Places'
    BY SMTT(30)
  <2>2. Slots'
    BY SMTT(30)
  <2>3. Threads'
    BY SMTT(30)
  <2> QED
    BY <2>1, <2>2, <2>3
<1>5. CASE StartWorkThread
  <2>0. pc = "thread" /\ UNCHANGED <<slot, cmdQ, failed>>
    BY <1>5 DEF StartWorkThread, mgr, ghost
  <2>1. CASE pc' = "teardown" /\ fail' = TRUE /\ UNCHANGED <<srv, wpc>>
    BY <1>0, <2>0, <2>1 DEF Control, Server
  <2>2. CASE srv = "tcp" /\ pc' = "accept" /\ wpc' = [wpc EXCEPT !["tcp"] = "loop"]
             /\ UNCHANGED <<srv, fail>>
    BY <1>0, <2>0, <2>2 DEF Control, Server, TypeOK
  <2>3. CASE srv = "udp" /\ pc' = "add" /\ wpc' = [wpc EXCEPT !["udp"] = "loop"]
             /\ UNCHANGED <<srv, fail>>
    BY <1>0, <2>0, <2>3 DEF Control, Server, TypeOK
  <2> QED
    BY <1>0, <1>5, <2>1, <2>2, <2>3 DEF StartWorkThread, AfterStart, TypeOK
<1>6. CASE StartAccept
  <2> USE <1>0, <1>6 DEF Control, TypeOK, Server, worker, StartAccept, AfterStart, mgr, ghost
  <2>1. Places'
    BY SMTT(30)
  <2>2. Slots'
    BY SMTT(30)
  <2>3. Threads'
    BY SMTT(30)
  <2> QED
    BY <2>1, <2>2, <2>3
<1>7. CASE Started
  <2> USE <1>0, <1>7 DEF Control, TypeOK, Server, worker, Started, ExitFlagSet, mgr, ghost
  <2>1. Places'
    BY SMTT(30)
  <2>2. Slots'
    BY SMTT(30)
  <2>3. Threads'
    BY SMTT(30)
  <2> QED
    BY <2>1, <2>2, <2>3
<1>15. CASE ExitFlagSet
  <2> USE <1>0, <1>15 DEF Control, TypeOK, Server, worker, Started, ExitFlagSet, mgr, ghost
  <2>1. Places'
    BY SMTT(30)
  <2>2. Slots'
    BY SMTT(30)
  <2>3. Threads'
    BY SMTT(30)
  <2> QED
    BY <2>1, <2>2, <2>3
<1>8. CASE \E c \in Port : AddListenSocket(c)
  <2> USE <1>0, <1>8 DEF Control, TypeOK, Server, worker, AddListenSocket, main
  <2>1. Places'
    BY SMTT(30)
  <2>2. Slots'
    BY SMTT(30)
  <2>3. Threads'
    BY SMTT(30)
  <2> QED
    BY <2>1, <2>2, <2>3
<1>9. CASE CloseListenSocket
  <2> USE <1>0, <1>9 DEF Control, TypeOK, Server, worker, CloseListenSocket, mgr
  <2>1. Places'
    BY SMTT(30)
  <2>2. Slots'
    BY SMTT(30)
  <2>3. Threads'
    BY SMTT(30)
  <2> QED
    BY <2>1, <2>2, <2>3
<1>10. CASE CloseNext
  <2> USE <1>0, <1>10 DEF Control, TypeOK, Server, worker, CloseNext, Trigger
  <2>1. Places'
    BY SMTT(30)
  <2>2. Slots'
    <3>1. UNCHANGED <<pc, srv, fail, slot, failed>>
      BY SMTT(30)
    <3>2. \A s \in Server : cmdQ'[s] = cmdQ[s] \/ HasStart(s)
      BY SMTT(30)
    <3> QED
      BY ONLY <3>1, <3>2, Control DEF Control
  <2>3. Threads'
    BY SMTT(30)
  <2> QED
    BY <2>1, <2>2, <2>3
<1>11. CASE CloseAllDone
  <2> USE <1>0, <1>11 DEF Control, TypeOK, Server, worker, CloseAllDone, StopWorkThread, mgr,
     ghost, HasWorkStart
  <2>1. Places'
    BY SMTT(30)
  <2>2. Slots'
    BY SMTT(30)
  <2>3. Threads'
    BY SMTT(30)
  <2> QED
    BY <2>1, <2>2, <2>3
<1>16. CASE StopWorkThread
  <2> USE <1>0, <1>16 DEF Control, TypeOK, Server, worker, CloseAllDone, StopWorkThread, mgr,
     ghost, HasWorkStart
  <2>1. Places'
    BY SMTT(30)
  <2>2. Slots'
    BY SMTT(30)
  <2>3. Threads'
    BY SMTT(30)
  <2> QED
    BY <2>1, <2>2, <2>3
<1>12. CASE Join
  <2> USE <1>0, <1>12 DEF Control, TypeOK, Server, worker, Join, mgr, ghost
  <2>1. Places'
    BY SMTT(30)
  <2>2. Slots'
    BY SMTT(30)
  <2>3. Threads'
    BY SMTT(30)
  <2> QED
    BY <2>1, <2>2, <2>3
<1>13. CASE Teardown
  <2> USE <1>0, <1>13 DEF Control, TypeOK, Server, worker, Teardown, Emptied, mgr
  <2>1. Places'
    BY SMTT(30)
  <2>2. Slots'
    <3>1. CASE HasStart(srv)
      BY <3>1, SMTT(30)
    <3>2. CASE ~HasStart(srv)
      <4>1. Off(srv) /\ UNCHANGED <<slot, cmdQ, failed, fail>>
        BY <3>2, SMTT(30)
      <4> QED
        BY <4>1, SMTT(30)
    <3> QED
      BY ONLY <3>1, <3>2
  <2>3. Threads'
    BY SMTT(30)
  <2> QED
    BY <2>1, <2>2, <2>3
<1>14. CASE TeardownOfStart
  <2> USE <1>0, <1>14 DEF Control, TypeOK, Server, worker, TeardownOfStart, Emptied, StartFails,
     AfterStart
  <2>1. Places'
    BY SMTT(30)
  <2>2. Slots'
    BY SMTT(30)
  <2>3. Threads'
    BY SMTT(30)
  <2> QED
    BY <2>1, <2>2, <2>3
<1> QED
  BY <1>1, <1>2, <1>3, <1>4, <1>5, <1>6, <1>7, <1>15, <1>8, <1>9, <1>10, <1>11, <1>16, <1>12,
     <1>13, <1>14
  DEF MainPart

\* So does every step: the others move no descriptor of a manager.
LEMMA ControlStep ==
  ASSUME TypeOK, Control, Table, [Next]_vars PROVE Control'
<1>1. CASE OtherPart
  <2> USE <1>1, ControlOther
      DEF Places, Unbegun, Off, Torn, Begun, InStart, INVALID_FD, HasStart
  <2>1. Places'
    BY DEF Control
  <2>2. Slots'
    <3>1. UNCHANGED <<pc, srv, fail, slot, failed>>
      OBVIOUS
    <3>2. \A s \in Server : cmdQ'[s] = cmdQ[s] \/ HasStart(s)
      OBVIOUS
    <3>3. \A s \in Server : Off(s)' = Off(s) /\ HasStart(s)' = HasStart(s)
      BY <3>1
    <3>4. \A s \in Server : Off(s) => ~HasStart(s)
      BY DEF Control, Slots, Slot
    <3> QED
      BY ONLY <3>1, <3>2, <3>3, <3>4, Control DEF Control, Slots, Later
  <2>3. Threads'
    BY DEF Control, Threads, Active
  <2> QED
    BY <2>1, <2>2, <2>3 DEF Control
<1>2. CASE UNCHANGED vars
  BY <1>2 DEF vars, Control, Places, Slots, Threads, Unbegun, Off, Torn, Begun, InStart, HasStart
<1> QED
  BY <1>1, <1>2, ControlMain, Parts

----------------------------------------------------------------------------
(* Files, maps and sockets.                                                 *)

\* Files differ when their names do.
LEMMA FileNames ==
  /\ \A s, t \in Server, k, l \in Slot : File(s, k) = File(t, l) => s = t /\ k = l
  /\ \A c, d \in Sock : SockFile(c) = SockFile(d) => c = d
  /\ \A s \in Server, k \in Slot, c \in Sock : File(s, k) # SockFile(c)
  /\ \A s \in Server, k \in Slot : File(s, k) \in Files /\ File(s, k) # Nil
  /\ \A c \in Sock : SockFile(c) \in Files /\ SockFile(c) # Nil
  /\ \A c \in Sock : c # Nil
<1>1. "sock" \notin Slot
  BY DEF Slot
<1>2. \A c \in Sock : c # Nil
  BY NamesAssumption DEF Sock
<1>3. \A s \in Server, k \in Slot : File(s, k) \in Files
  BY DEF File, Files
<1>4. \A c \in Sock : SockFile(c) \in Files
  BY DEF SockFile, Files, Home, Server
<1> QED
  BY <1>1, <1>2, <1>3, <1>4, NilAssumption DEF File, SockFile

\* What most steps leave alone.
Quiet ==
  /\ UNCHANGED <<files, slot, told, sockMap, stolen>>
  /\ Unlistened' = Unlistened /\ failed \subseteq failed' /\ failed' \subseteq failed \cup {"udp"}
  /\ fail => fail' /\ srv' = srv
  /\ \A c \in Sock : client'[c] \in {"new", "queued"} <=> client[c] \in {"new", "queued"}
  /\ \A c \in Sock : client'[c] = "leaked" <=> client[c] = "leaked"
  /\ \A s \in Server : hold'[s] # hold[s] => wpc[s] \in {"loop", "read"}
  /\ \A s \in Server : {wpc[s], wpc'[s]} \cap {"add", "erase"} # {} => wpc'[s] = wpc[s]
  /\ \A s \in Server : wpc[s] = "erase" =>
       Head(cmdQ'[s]) = Head(cmdQ[s]) /\ cmdQ'[s] # <<>> /\ left'[s] = left[s]

Busy ==
  \/ CreateListenSocket \/ Make \/ MakeFails \/ (NoEpoll /\ srv = "tcp")
  \/ \E c \in Port : AddListenSocket(c)
  \/ CloseListenSocket \/ Teardown \/ TeardownOfStart
  \/ Accept \/ AddTcpSocket
  \/ \E s \in Server : RemoveClose(s) \/ RemoveErase(s)

\* A command that is queued does not become the head before the one that is
\* being executed.
LEMMA TriggerKeeps ==
  ASSUME TypeOK, WorkerHeld, NEW s \in Server, NEW f \in Fd, Trigger(s, f)
  PROVE  \A t \in Server : wpc[t] = "erase" =>
           Head(cmdQ'[t]) = Head(cmdQ[t]) /\ cmdQ'[t] # <<>>
<1>1. ASSUME NEW t \in Server, wpc[t] = "erase"
      PROVE  Head(cmdQ'[t]) = Head(cmdQ[t]) /\ cmdQ'[t] # <<>>
  <2>1. cmdQ[t] # <<>> /\ cmdQ[t] \in Seq(Fd)
    BY <1>1 DEF WorkerHeld, TypeOK
  <2>2. cmdQ'[t] = cmdQ[t] \/ cmdQ'[t] = Append(cmdQ[t], f)
    BY DEF Trigger, TypeOK
  <2> QED
    BY <2>1, <2>2
<1> QED
  BY <1>1

\* The entry CloseAllSocket goes to is in the map, and there is none between.
LEMMA NextInMap ==
  ASSUME Ahead # {}
  PROVE  /\ Min(Ahead) \in Fd /\ Min(Ahead) > cursor /\ sockMap[srv][Min(Ahead)] # Nil
         /\ \A f \in Ahead : Min(Ahead) =< f
<1>1. Ahead \subseteq Fd /\ Fd \subseteq Nat
  BY NumbersAssumption DEF Ahead, Fd
<1>2. Min(Ahead) \in Ahead /\ \A f \in Ahead : Min(Ahead) =< f
  BY <1>1, MinIsLeast
<1> QED
  BY <1>2 DEF Ahead

\* Every other step than these leaves files, maps and sockets alone.
LEMMA QuietOrBusy ==
  ASSUME TypeOK, Control, WorkerHeld, [Next]_vars PROVE Quiet \/ Busy
<1> USE DEF Quiet
<1>1. CASE UNCHANGED vars
  BY <1>1 DEF vars, Unlistened, WorkerHeld
<1>2. CASE \/ StartAccept \/ Started \/ ExitFlagSet \/ CloseAllDone \/ StopWorkThread
  BY <1>2
  DEF StartAccept, AfterStart, Started, ExitFlagSet, CloseAllDone, StopWorkThread, mgr, worker,
      ghost, kernel, Unlistened, WorkerHeld, Control, Places, TypeOK
<1>3. CASE StartWorkThread
  BY <1>3 DEF StartWorkThread, AfterStart, mgr, ghost, kernel, Unlistened, WorkerHeld, TypeOK,
              Control, Places, Threads, InStart
<1>4. CASE Join
  BY <1>4 DEF Join, mgr, ghost, kernel, Unlistened, WorkerHeld, TypeOK, Control, Places
<1>5. CASE CloseNext
  <2>1. UNCHANGED <<files, slot, told, sockMap, hold, failed, stolen, client, wpc, left>>
    BY <1>5 DEF CloseNext, worker
  <2>2. Unlistened' = Unlistened /\ UNCHANGED <<fail, srv>>
    BY <1>5 DEF CloseNext, Unlistened
  <2>3. Min(Ahead) \in Fd /\ srv \in Server
    BY <1>5, NextInMap DEF CloseNext, TypeOK
  <2>4. CASE Trigger(srv, Min(Ahead))
    BY <2>1, <2>2, <2>3, <2>4, TriggerKeeps
  <2>5. CASE UNCHANGED cmdQ
    BY <2>1, <2>2, <2>5 DEF WorkerHeld
  <2> QED
    BY <1>5, <2>4, <2>5 DEF CloseNext
<1>6. CASE \/ \E c \in Client : ClientConnects(c)
           \/ \E c \in Sock : PeerSends(c) \/ PeerEnds(c)
  BY <1>6 DEF ClientConnects, PeerSends, PeerEnds, main, mgr, worker, ghost, Unlistened,
              WorkerHeld, TypeOK, Sock
<1>7. ASSUME NEW s \in Server,
             \/ EpollReturns(s) \/ EpollFails(s) \/ WorkEnds(s)
             \/ StartCommands(s) \/ CommandsDone(s)
      PROVE  Quiet
  BY <1>7
  DEF EpollReturns, EpollFails, Idle, WorkEnds, StartCommands, CommandsDone, main, mgr, ghost,
      kernel, Unlistened, WorkerHeld, TypeOK
<1>8. ASSUME NEW s \in Server, CommandNotFound(s) PROVE Quiet
  <2>1. UNCHANGED <<files, slot, told, sockMap, hold, failed, stolen, client, wpc, fail, srv>>
        /\ Unlistened' = Unlistened
    BY <1>8 DEF CommandNotFound, main, kernel, ghost, Unlistened
  <2>2. \A t \in Server : wpc[t] = "erase" => cmdQ'[t] = cmdQ[t] /\ left'[t] = left[t]
    BY <1>8 DEF CommandNotFound, Executing, PopCommand, TypeOK
  <2> QED
    BY <2>1, <2>2 DEF WorkerHeld
<1>9. ASSUME NEW s \in Server, NEW c \in Sock, Reading(s, c) PROVE Quiet
  <2>1. /\ UNCHANGED <<files, slot, told, sockMap, failed, stolen, fail, srv, left>>
        /\ Unlistened' = Unlistened
        /\ \A t \in Server : wpc'[t] # wpc[t] \/ hold'[t] # hold[t] =>
             wpc[t] \in {"loop", "read"} /\ wpc'[t] \in {"loop", "read"}
    BY <1>9, ReadEffect DEF Unlistened
  <2>2. \A d \in Sock : client'[d] # client[d] => client[d] = "ended" /\ client'[d] = "open"
    BY <1>9, ReadEffect
  <2>3. \A t \in Server : wpc[t] = "erase" => Head(cmdQ'[t]) = Head(cmdQ[t]) /\ cmdQ'[t] # <<>>
    <3>1. UNCHANGED cmdQ \/ \E f \in Fd : Trigger(s, f)
      BY <1>9, ReadEffect
    <3> QED
      BY <3>1, TriggerKeeps DEF WorkerHeld
  <2> QED
    BY <2>1, <2>2, <2>3
<1>10. CASE NoEpoll /\ srv = "udp"
  BY <1>10 DEF NoEpoll, ManagerFails, StartFails, AfterStart, mgr, worker, Unlistened, WorkerHeld,
               Control, Places
<1> QED
  BY <1>1, <1>2, <1>3, <1>4, <1>5, <1>6, <1>7, <1>8, <1>9, <1>10, Parts
  DEF NoEpoll, TypeOK, Server, Busy, MainPart, OtherPart, WorkerStep, NoSuchEpoll, Interrupted,
     Quiet, Reading

\* A quiet step keeps every part.
LEMMA QuietKeeps ==
  ASSUME Base, Quiet PROVE Tables'
<1> USE DEF Quiet, Base, Tables
<1>1. WorkerHeld'
  BY DEF WorkerHeld, Server
<1>2. OpenOnce'
  BY DEF Table, OpenOnce
<1>3. Remembered'
  BY DEF Table, Remembered
<1>4. ListenClosed'
  BY DEF Table, ListenClosed
<1>5. Untouched'
  BY DEF Table, Untouched
<1>6. Accepted' /\ Erased'
  <2>1. wpc'["tcp"] = "add" => hold["tcp"] \in Sock /\ wpc["tcp"] = "add"
    BY DEF WorkerHeld, Server, Sock
  <2>2. Accepted'
    <3>1. Accepted /\ UNCHANGED told /\ (wpc["tcp"] = "add" => hold'["tcp"] = hold["tcp"])
      BY DEF Table, Server
    <3>2. \A c \in Sock : client'[c] \in {"new", "queued", "leaked"} <=>
                         client[c] \in {"new", "queued", "leaked"}
      OBVIOUS
    <3> QED
      BY ONLY <2>1, <3>1, <3>2 DEF Accepted
  <2>3. Erased'
    <3>1. Erased /\ UNCHANGED told
      BY DEF Table
    <3>2. \A s \in Server : wpc'[s] = "erase" => wpc[s] = "erase" /\ hold'[s] = hold[s]
      OBVIOUS
    <3> QED
      BY ONLY <3>1, <3>2 DEF Erased
  <2> QED
    BY <2>2, <2>3
<1>7. MapOnce'
  BY DEF MapOnce
<1>8. NumbersLead'
  BY DEF NumbersLead, Server
<1>9. ClosesItsOwn'
  BY DEF ClosesItsOwn
<1> QED
  BY <1>1, <1>2, <1>3, <1>4, <1>5, <1>6, <1>7, <1>8, <1>9 DEF Table

\* What opening and closing do to the table.
Opens(x) ==
  /\ Free \in Fd /\ files[Free] = Nil
  /\ \A f \in Fd : files[f] # x
  /\ \A f \in Fd : files'[f] = IF f = Free THEN x ELSE files[f]
Closes(numbers) == \A f \in Fd : files'[f] = IF f \in numbers THEN Nil ELSE files[f]

\* Opening a file that is not open keeps each file open once ...
LEMMA OpenKeepsOnce ==
  ASSUME TypeOK, OpenOnce, NEW x \in ManagerFiles \cup SocketFiles, Opens(x) PROVE OpenOnce'
<1>1. \A f \in Fd : files'[f] # Nil => files'[f] \in ManagerFiles \cup SocketFiles
  BY DEF Opens, OpenOnce
<1>2. \A f, g \in Fd : files'[f] = files'[g] /\ files'[f] # Nil => f = g
  BY DEF Opens, OpenOnce
<1> QED
  BY <1>1, <1>2 DEF OpenOnce, ManagerFiles, SocketFiles

\* ... and so does closing.
LEMMA CloseKeepsOnce ==
  ASSUME OpenOnce, NEW numbers, Closes(numbers) PROVE OpenOnce'
BY DEF Closes, OpenOnce, ManagerFiles, SocketFiles

\* A step that leaves the maps and opens no socket keeps MapOnce.
LEMMA MapsKept ==
  ASSUME TypeOK, MapOnce, UNCHANGED sockMap,
         \A c \in Sock, f \in Fd : files'[f] = SockFile(c) => files[f] = SockFile(c)
  PROVE  MapOnce'
<1> SUFFICES ASSUME NEW s \in Server, NEW f \in Fd, sockMap[s][f] # Nil
             PROVE  /\ Home(sockMap[s][f]) = s
                    /\ \A g \in Fd : sockMap[s][g] = sockMap[s][f] => g = f
                    /\ \A g \in Fd : files'[g] = SockFile(sockMap[s][f]) => g = f
  BY DEF MapOnce
<1>1. sockMap[s][f] \in Sock
  BY DEF TypeOK
<1>2. \A g \in Fd : files'[g] = SockFile(sockMap[s][f]) => files[g] = SockFile(sockMap[s][f])
  BY ONLY <1>1, \A c \in Sock, h \in Fd : files'[h] = SockFile(c) => files[h] = SockFile(c)
<1> QED
  BY <1>2 DEF MapOnce

\* A step that opens a descriptor of a manager, or none, and writes its slot.
LEMMA CreateListenKeeps ==
  ASSUME Base, CreateListenSocket PROVE Tables'
<1> USE DEF Base, Tables
<1>0. /\ UNCHANGED <<told, sockMap, hold, stolen, client, wpc, fail, cmdQ, left>>
      /\ pc = "listen" /\ srv = "tcp" /\ FreeIsFree /\ failed' \in {failed, failed \cup {"tcp"}}
      /\ \A f \in Fd : files[f] # File("tcp", "listen")
      /\ pc' = "epoll" /\ ~fail /\ "tcp" \notin failed /\ slot["tcp"].listen = 0
  BY OpensFree DEF CreateListenSocket, worker, StartFails, AfterStart, Control, Places, Unbegun,
                   Slots, INVALID_FD
<1>1. \/ /\ Opens(File("tcp", "listen")) /\ UNCHANGED <<srv, failed>>
         /\ slot' = [slot EXCEPT !["tcp"].listen = Free]
      \/ /\ UNCHANGED files /\ failed' = failed \cup {"tcp"}
         /\ \E n \in Fd \cup {slot["tcp"].listen} : slot' = [slot EXCEPT !["tcp"].listen = n]
  <2>1. slot = [slot EXCEPT !["tcp"].listen = slot["tcp"].listen]
    BY DEF TypeOK, Server, Slot
  <2>2. CASE StartFails("tcp") /\ UNCHANGED <<slot, files>>
    <3>1. slot' = [slot EXCEPT !["tcp"].listen = slot["tcp"].listen]
      BY <2>1, <2>2
    <3> QED
      BY <2>2, <3>1 DEF StartFails
  <2> QED
    BY <1>0, <2>2 DEF CreateListenSocket, StartFails, Opens, Open, FreeIsFree, TypeOK
<1>2. \A s \in Server, k \in Slot :
        slot'[s][k] # slot[s][k] => s = "tcp" /\ k = "listen"
  BY <1>1 DEF TypeOK, Server, Slot
<1>3. "listen" \in Slot /\ "tcp" \in Server /\ File("tcp", "listen") \in ManagerFiles
  BY DEF Slot, Server, ManagerFiles, OwnFiles
<1>4. WorkerHeld'
  BY <1>0 DEF WorkerHeld, Server
<1>5. OpenOnce'
  <2>1. CASE UNCHANGED files
    BY <2>1 DEF Table, OpenOnce, ManagerFiles, SocketFiles
  <2> QED
    BY <1>1, <1>3, <2>1, OpenKeepsOnce DEF Table
<1>6. Remembered'
  BY <1>0, <1>1, <1>2, <1>3, FileNames DEF Table, Remembered, Opens, TypeOK
<1>7. ListenClosed'
  BY <1>0, <1>1 DEF Table, ListenClosed, Unlistened, Opens
<1>8. Untouched'
  <2>1. \A c \in Sock, f \in Fd : files'[f] = SockFile(c) => files[f] = SockFile(c)
    BY <1>1, <1>3, FileNames DEF Opens
  <2> QED
    BY <1>0, <2>1 DEF Table, Untouched
<1>9. Accepted' /\ Erased'
  BY <1>0 DEF Table, Accepted, Erased, WorkerHeld, Server, Sock
<1>10. MapOnce'
  <2>1. \A c \in Sock, f \in Fd : files'[f] = SockFile(c) => files[f] = SockFile(c)
    BY <1>1, <1>3, FileNames DEF Opens
  <2> QED
    BY <1>0, <2>1, MapsKept
<1>11. NumbersLead'
  <2>1. CASE "tcp" \in failed'
    BY <2>1 DEF NumbersLead
  <2>2. CASE /\ Opens(File("tcp", "listen")) /\ UNCHANGED <<srv, failed>>
             /\ slot' = [slot EXCEPT !["tcp"].listen = Free]
    <3>1. slot'["tcp"].listen = Free /\ files'[Free] = File("tcp", "listen")
      BY <2>2, <1>3 DEF Opens, TypeOK
    <3>2. \A f \in Fd : files[f] # Nil => files'[f] = files[f]
      BY <2>2 DEF Opens
    <3>3. \A s \in Server, k \in Slot : slot[s][k] \in Fd \cup {0}
      BY DEF TypeOK, Fd
    <3>4. \A s \in Server, k \in Slot :
            slot'[s][k] # 0 /\ ~(k = "listen" /\ Unlistened)' => files'[slot'[s][k]] = File(s, k)
      BY <1>0, <1>2, <3>1, <3>2, <3>3, FileNames DEF NumbersLead, INVALID_FD, Unlistened
    <3>5. \A s \in Server, f \in Fd :
            sockMap[s][f] # Nil /\ ~(wpc[s] = "erase" /\ f = Head(cmdQ[s])) =>
              files'[f] = SockFile(sockMap[s][f])
      BY <1>0, <3>2, FileNames DEF NumbersLead, TypeOK
    <3>6. wpc["tcp"] = "add" => \E f \in Fd : files'[f] = SockFile(hold["tcp"])
      BY <1>0, <3>2, FileNames DEF NumbersLead, WorkerHeld, Sock
    <3> QED
      BY <1>0, <3>4, <3>5, <3>6 DEF NumbersLead, INVALID_FD
  <2> QED
    BY <1>1, <2>1, <2>2
<1> QED
  BY <1>0, <1>1, <1>4, <1>5, <1>6, <1>7, <1>8, <1>9, <1>10, <1>11 DEF Table, ClosesItsOwn

\* The numbers of sockets lead to them as long as these stay open.
LEMMA SocketsLead ==
  ASSUME Base, "tcp" \notin failed, NEW fs,
         \A c \in Sock, f \in Fd : files[f] = SockFile(c) => fs[f] = SockFile(c)
  PROVE  /\ \A s \in Server, f \in Fd :
              sockMap[s][f] # Nil /\ ~(wpc[s] = "erase" /\ f = Head(cmdQ[s])) =>
                fs[f] = SockFile(sockMap[s][f])
         /\ wpc["tcp"] = "add" => \E f \in Fd : fs[f] = SockFile(hold["tcp"])
<1>1. \A s \in Server, f \in Fd : sockMap[s][f] # Nil => sockMap[s][f] \in Sock
  BY DEF Base, TypeOK
<1>2. wpc["tcp"] = "add" => hold["tcp"] \in Sock
  BY DEF Base, Tables, WorkerHeld, Sock
<1> QED
  BY <1>1, <1>2 DEF Base, Tables, NumbersLead

\* Make writes the number it opens to the slot of its step.
LEMMA MakeKeeps ==
  ASSUME Base, Make PROVE Tables'
<1> USE DEF Base, Tables
<1>0. /\ UNCHANGED <<srv, told, sockMap, hold, stolen, client, wpc, fail, failed, cmdQ, left>>
      /\ pc \in {"epoll", "cmd", "exit", "timer"} /\ srv \in Server /\ pc \in Slot /\ pc # "listen"
      /\ Opens(File(srv, pc)) /\ slot' = [slot EXCEPT ![srv][pc] = Free]
      /\ ~fail /\ srv \notin failed
      /\ Unlistened' = Unlistened
  <2>1. pc \in {"epoll", "cmd", "exit", "timer"}
        /\ pc' \in {"cmd", "exit", "timer", "thread"} /\ srv \in Server
    BY DEF Make, NextStep, TypeOK
  <2> QED
    BY <2>1, OpensFree
    DEF Make, worker, ghost, Opens, Open, FreeIsFree, TypeOK, Slot, Control, Places, InStart,
        Unlistened
<1>1. \A s \in Server, k \in Slot :
        slot'[s][k] = IF s = srv /\ k = pc THEN Free ELSE slot[s][k]
  BY <1>0 DEF TypeOK
<1>2. \A f \in Fd : files[f] # Nil => files'[f] = files[f]
  BY <1>0 DEF Opens
<1>3. \A c \in Sock, f \in Fd : files'[f] = SockFile(c) <=> files[f] = SockFile(c)
  BY <1>0, FileNames DEF Opens
<1>4. File(srv, pc) \in ManagerFiles
  BY <1>0 DEF ManagerFiles, OwnFiles
<1>5. OpenOnce'
  BY <1>0, <1>4, OpenKeepsOnce DEF Table
<1>6. Remembered'
  BY <1>0, <1>1, FileNames DEF Table, Remembered, Opens
<1>7. ListenClosed'
  BY <1>0, FileNames DEF Table, ListenClosed, Opens, Server, Slot
<1>8. Untouched' /\ Accepted' /\ Erased'
  BY <1>0, <1>3 DEF Table, Untouched, Accepted, Erased
<1>9. WorkerHeld' /\ ClosesItsOwn'
  BY <1>0 DEF WorkerHeld, ClosesItsOwn
<1>10. MapOnce'
  BY <1>0, <1>3, MapsKept
<1>11. NumbersLead'
  <2>1. \A s \in Server, k \in Slot : slot[s][k] \in Fd \cup {0}
    BY DEF TypeOK, Fd
  <2>2. files'[Free] = File(srv, pc)
    BY <1>0 DEF Opens
  <2>3. ASSUME "tcp" \notin failed
        PROVE  \A s \in Server, k \in Slot :
                 slot'[s][k] # 0 /\ ~(k = "listen" /\ Unlistened) =>
                   files'[slot'[s][k]] = File(s, k)
    BY <1>0, <1>1, <1>2, <2>1, <2>2, <2>3, FileNames DEF NumbersLead, INVALID_FD
  <2>4. ASSUME "tcp" \notin failed
        PROVE  /\ \A s \in Server, f \in Fd :
                    sockMap[s][f] # Nil /\ ~(wpc[s] = "erase" /\ f = Head(cmdQ[s])) =>
                      files'[f] = SockFile(sockMap[s][f])
               /\ wpc["tcp"] = "add" => \E f \in Fd : files'[f] = SockFile(hold["tcp"])
    BY <1>3, <2>4, SocketsLead
  <2> QED
    BY <1>0, <2>3, <2>4 DEF NumbersLead, INVALID_FD
<1> QED
  BY <1>5, <1>6, <1>7, <1>8, <1>9, <1>10, <1>11 DEF Table

\* A timer that is not closed is remembered by nobody.
LEMMA MakeFailsKeeps ==
  ASSUME Base, MakeFails PROVE Tables'
<1> USE DEF Base, Tables
<1>0. /\ UNCHANGED <<srv, told, sockMap, hold, stolen, client, wpc, failed, cmdQ, left, slot>>
      /\ ~fail /\ fail' /\ srv \in Server
      /\ Unlistened' = Unlistened
  BY DEF MakeFails, NextStep, mgr, worker, ghost, TypeOK, Control, Places, Unlistened
<1>1. CASE UNCHANGED files
  BY <1>0, <1>1, QuietKeeps DEF Quiet, WorkerHeld
<1>2. CASE pc = "timer" /\ Open(File(srv, "timer"))
  <2>0. Opens(File(srv, "timer")) /\ "timer" \in Slot /\ "timer" # "listen"
    BY <1>2, OpensFree DEF Opens, Open, FreeIsFree, TypeOK, Slot, NextStep
  <2>2. \A f \in Fd : files[f] # Nil => files'[f] = files[f]
    BY <2>0 DEF Opens
  <2>3. \A c \in Sock, f \in Fd : files'[f] = SockFile(c) <=> files[f] = SockFile(c)
    BY <1>0, <2>0, FileNames DEF Opens
  <2>4. File(srv, "timer") \in ManagerFiles
    BY <1>0, <2>0 DEF ManagerFiles, OwnFiles
  <2>5. OpenOnce'
    BY <2>0, <2>4, OpenKeepsOnce DEF Table
  <2>6. Remembered'
    BY <1>0, <2>0, FileNames DEF Table, Remembered, Opens
  <2>7. ListenClosed'
    BY <1>0, <2>0, FileNames DEF Table, ListenClosed, Opens, Server, Slot
  <2>8. Untouched' /\ Accepted' /\ Erased'
    BY <1>0, <2>3 DEF Table, Untouched, Accepted, Erased
  <2>9. WorkerHeld' /\ ClosesItsOwn'
    BY <1>0 DEF WorkerHeld, ClosesItsOwn
  <2>10. MapOnce'
    BY <1>0, <2>3, MapsKept
  <2>11. NumbersLead'
    <3>1. \A s \in Server, k \in Slot : slot[s][k] \in Fd \cup {0}
      BY DEF TypeOK, Fd
    <3>2. ASSUME "tcp" \notin failed
          PROVE  \A s \in Server, k \in Slot :
                   slot[s][k] # 0 /\ ~(k = "listen" /\ Unlistened) =>
                     files'[slot[s][k]] = File(s, k)
      BY <2>2, <3>1, <3>2, FileNames DEF NumbersLead, INVALID_FD
    <3>3. ASSUME "tcp" \notin failed
          PROVE  /\ \A s \in Server, f \in Fd :
                      sockMap[s][f] # Nil /\ ~(wpc[s] = "erase" /\ f = Head(cmdQ[s])) =>
                        files'[f] = SockFile(sockMap[s][f])
                 /\ wpc["tcp"] = "add" => \E f \in Fd : files'[f] = SockFile(hold["tcp"])
      BY <2>3, <3>3, SocketsLead
    <3> QED
      BY <1>0, <3>2, <3>3 DEF NumbersLead, INVALID_FD
  <2> QED
    BY <2>5, <2>6, <2>7, <2>8, <2>9, <2>10, <2>11 DEF Table
<1> QED
  BY <1>1, <1>2 DEF MakeFails

\* A step of main that closes numbers of a manager, and forgets them or, if it
\* is the listening socket's, never uses it again; what it does to maps and
\* queues is about threads that do not run.
ClosesNumbers(numbers) ==
  /\ Closes(numbers)
  /\ UNCHANGED <<told, client, hold, wpc, left>>
  /\ \A s \in Server, f \in Fd :
       sockMap'[s][f] # sockMap[s][f] => sockMap'[s][f] = Nil
  /\ \A s \in Server : (cmdQ'[s] = cmdQ[s] /\ sockMap'[s] = sockMap[s]) \/ ~Active(s)
  /\ \A s \in Server, k \in Slot :
       slot'[s][k] # slot[s][k] => slot'[s][k] = 0 /\ slot[s][k] \in numbers \cup {0}
  /\ failed \subseteq failed'
  /\ \A s \in Server : fail /\ srv = s => s \in failed' \/ (fail' /\ srv' = s)
  /\ Unlistened => Unlistened'
  /\ Unlistened' => Unlistened \/ slot["tcp"].listen \in numbers \cup {0}
  /\ "tcp" \notin failed' =>
       \A n \in numbers : \E s \in Server, k \in Slot :
         /\ slot[s][k] = n /\ ~(k = "listen" /\ Unlistened)
         /\ slot'[s][k] = 0 \/ (k = "listen" /\ Unlistened')

\* It keeps maps, table and numbers.
LEMMA ClosingKeeps ==
  ASSUME Base, NEW numbers \in SUBSET Fd, ClosesNumbers(numbers)
  PROVE  (WorkerHeld /\ Table /\ MapOnce /\ NumbersLead)'
<1> USE DEF Base, Tables, ClosesNumbers
<1>0. 0 \notin Fd /\ "listen" \in Slot /\ "tcp" \in Server
  BY DEF Fd, Slot, Server
<1>1. \A f \in Fd : files'[f] # Nil => files'[f] = files[f] /\ f \notin numbers
  BY DEF Closes
<1>2. OpenOnce'
  BY CloseKeepsOnce DEF Table
<1>3. Remembered'
  BY <1>0, <1>1, FileNames DEF Table, Remembered
<1>4. ListenClosed'
  <2>1. ASSUME Unlistened', NEW f \in Fd, files'[f] = File("tcp", "listen") PROVE FALSE
    <3>1. files[f] = File("tcp", "listen") /\ f \notin numbers
      BY <1>0, <1>1, <2>1, FileNames
    <3>2. slot["tcp"].listen = f
      BY <1>0, <3>1 DEF Table, Remembered
    <3> QED
      BY <1>0, <2>1, <3>1, <3>2 DEF Table, ListenClosed
  <2> QED
    BY <2>1 DEF ListenClosed
<1>5. Untouched' /\ Accepted' /\ Erased'
  <2>1. \A c \in Sock, f \in Fd : files'[f] = SockFile(c) => files[f] = SockFile(c)
    BY <1>1, FileNames
  <2>2. \A c \in Sock, s \in Server, f \in Fd : sockMap'[s][f] = c => sockMap[s][f] = c
    BY FileNames
  <2> QED
    BY <2>1, <2>2 DEF Table, Untouched, Accepted, Erased
<1>6. WorkerHeld'
  BY DEF WorkerHeld, Active
<1>7. MapOnce'
  <2>1. \A c \in Sock, f \in Fd : files'[f] = SockFile(c) => files[f] = SockFile(c)
    BY <1>1, FileNames
  <2> QED
    BY <2>1 DEF MapOnce, TypeOK
<1>8. NumbersLead'
  <2> SUFFICES ASSUME "tcp" \notin failed' PROVE NumbersLead'
    BY DEF NumbersLead
  <2>1. "tcp" \notin failed
    OBVIOUS
  <2>2. \A n \in numbers : \E s \in Server, k \in Slot :
          /\ slot[s][k] = n /\ ~(k = "listen" /\ Unlistened) /\ files[n] = File(s, k)
          /\ slot'[s][k] = 0 \/ (k = "listen" /\ Unlistened')
    BY <1>0, <2>1 DEF NumbersLead, INVALID_FD
  <2>3. ASSUME NEW s \in Server, NEW k \in Slot,
               slot'[s][k] # 0, ~(k = "listen" /\ Unlistened')
        PROVE  files'[slot'[s][k]] = File(s, k)
    <3>1. slot'[s][k] = slot[s][k] /\ ~(k = "listen" /\ Unlistened)
      BY <2>3
    <3>2. slot[s][k] \in Fd /\ files[slot[s][k]] = File(s, k)
      BY <2>1, <2>3, <3>1 DEF NumbersLead, INVALID_FD, TypeOK, Fd
    <3>3. slot[s][k] \notin numbers
      BY <2>2, <2>3, <3>1, <3>2, FileNames
    <3> QED
      BY <3>1, <3>2, <3>3 DEF Closes
  <2>4. \A c \in Sock, f \in Fd : files[f] = SockFile(c) => files'[f] = SockFile(c)
    BY <2>2, FileNames DEF Closes
  <2>5. /\ \A s \in Server, f \in Fd :
             sockMap[s][f] # Nil /\ ~(wpc[s] = "erase" /\ f = Head(cmdQ[s])) =>
               files'[f] = SockFile(sockMap[s][f])
        /\ wpc["tcp"] = "add" => \E f \in Fd : files'[f] = SockFile(hold["tcp"])
    BY <2>1, <2>4, SocketsLead
  <2>6. \A s \in Server : wpc[s] = "erase" => cmdQ'[s] = cmdQ[s] /\ sockMap'[s] = sockMap[s]
    BY DEF Active
  <2> QED
    BY <2>3, <2>5, <2>6 DEF NumbersLead, INVALID_FD
<1> QED
  BY <1>2, <1>3, <1>4, <1>5, <1>6, <1>7, <1>8 DEF Table

\* TcpServer::Start closes its listening socket when there is no epoll.
LEMMA NoEpollKeeps ==
  ASSUME Base, NoEpoll, srv = "tcp" PROVE Tables'
<1> DEFINE N == {slot["tcp"].listen} \cap Fd
<1>1. /\ Closes(N) /\ pc = "epoll" /\ pc' = "epoll" /\ srv' = "udp"
      /\ failed' = failed \cup {"tcp"}
      /\ UNCHANGED <<told, client, hold, wpc, left, sockMap, cmdQ, slot, fail>>
  BY DEF NoEpoll, ManagerFails, StartFails, AfterStart, CloseAll, Closes, worker, mgr
<1>2. ~fail /\ slot["tcp"].listen \in N \cup {0}
  BY <1>1 DEF Base, Control, Places, TypeOK, Slot, Server, Fd
<1>3. ClosesNumbers(N)
  BY <1>1, <1>2 DEF ClosesNumbers, Unlistened
<1> QED
  BY <1>1, <1>3, ClosingKeeps DEF Tables, ClosesItsOwn

\* CloseListenSocket closes the listening socket, or after a failed Start what
\* has its number.
LEMMA CloseListenKeeps ==
  ASSUME Base, CloseListenSocket PROVE Tables'
<1> DEFINE N == {slot["tcp"].listen} \cap Fd
<1>1. /\ Closes(N) /\ pc = "close" /\ pc' = "walk"
      /\ stolen' = (stolen \/ \E f \in N : At(f) \notin {File("tcp", "listen")})
      /\ UNCHANGED <<told, client, hold, wpc, left, sockMap, cmdQ, slot, fail, failed, srv>>
  BY DEF CloseListenSocket, CloseAll, Closes, worker, mgr
<1>2. ~fail /\ slot["tcp"].listen \in N \cup {0} /\ "listen" \in Slot /\ "tcp" \in Server
  BY <1>1 DEF Base, Control, Places, TypeOK, Slot, Server, Fd
<1>3. ClosesNumbers(N)
  BY <1>1, <1>2 DEF ClosesNumbers, Unlistened
<1>4. ClosesItsOwn'
  <2>1. ASSUME "tcp" \notin failed, NEW f \in N PROVE At(f) = File("tcp", "listen")
    <3>1. ~Unlistened /\ f = slot["tcp"].listen /\ f \in Fd /\ f # 0
      BY <1>1, <1>2, <2>1 DEF Unlistened, Fd
    <3> QED
      BY <1>2, <2>1, <3>1 DEF Base, Tables, NumbersLead, INVALID_FD, At
  <2> QED
    BY <1>1, <2>1 DEF ClosesItsOwn, Base, Tables
<1> QED
  BY <1>3, <1>4, ClosingKeeps DEF Tables

\* The manager's numbers are forgotten as they are closed.
LEMMA EmptiedSlots ==
  ASSUME TypeOK, NEW s \in Server, Emptied(s)
  PROVE  /\ \A t \in Server, k \in Slot :
              slot'[t][k] = IF t = s /\ k # "listen" THEN 0 ELSE slot[t][k]
         /\ \A k \in Slot \ {"listen"} : slot[s][k] \in ManagerFds(s) \cup {0}
         /\ \A n \in ManagerFds(s) : \E k \in Slot \ {"listen"} : slot[s][k] = n
         /\ \A t \in Server, f \in Fd :
              sockMap'[t][f] = IF t = s THEN Nil ELSE sockMap[t][f]
         /\ \A t \in Server \ {s} : cmdQ'[t] = cmdQ[t] /\ sockMap'[t] = sockMap[t]
         /\ cmdQ'[s] = <<>> /\ sockMap'[s] = [f \in Fd |-> Nil]
BY DEF TypeOK, Emptied, ManagerFds, INVALID_FD, Fd

\* They are its own, as long as TcpServer::Start has not failed.
LEMMA ManagerOwns ==
  ASSUME Base, "tcp" \notin failed, NEW s \in Server
  PROVE  \A n \in ManagerFds(s) : At(n) \in OwnFiles(s)
<1>1. ASSUME NEW k \in Slot \ {"listen"}, slot[s][k] \in Fd
      PROVE  files[slot[s][k]] = File(s, k)
  BY <1>1 DEF Base, Tables, NumbersLead, INVALID_FD, Fd
<1> QED
  BY <1>1 DEF ManagerFds, At, OwnFiles

\* The rest of Stop closes what the manager has and forgets it, for main ...
LEMMA TeardownKeeps ==
  ASSUME Base, Teardown PROVE Tables'
<1>1. /\ pc = "teardown" /\ ~fail /\ srv \in Server /\ ~Active(srv)
      /\ UNCHANGED <<told, client, hold, wpc, left, fail, failed>>
      /\ Unlistened /\ Unlistened'
  BY DEF Base, Control, Threads, Active, TypeOK, Teardown, worker, Unlistened
<1>2. CASE ~HasStart(srv)
  BY <1>1, <1>2, QuietKeeps DEF Teardown, Quiet, Base, Tables, WorkerHeld, mgr
<1>3. CASE HasStart(srv)
  <2> DEFINE N == ManagerFds(srv)
  <2>1. /\ Emptied(srv) /\ Closes(N)
        /\ stolen' = (stolen \/ \E f \in N : At(f) \notin OwnFiles(srv))
    BY <1>3 DEF Teardown, CloseAll, Closes
  <2>2. ClosesNumbers(N)
    BY <1>1, <2>1, EmptiedSlots DEF ClosesNumbers, Base
  <2>3. ClosesItsOwn'
    BY <1>1, <2>1, ManagerOwns DEF Base, Tables, ClosesItsOwn
  <2>4. N \in SUBSET Fd
    BY DEF ManagerFds
  <2> QED
    BY <2>2, <2>3, <2>4, ClosingKeeps DEF Tables
<1> QED
  BY <1>2, <1>3

\* ... and in a Start that fails.
LEMMA TeardownOfStartKeeps ==
  ASSUME Base, TeardownOfStart PROVE Tables'
<1> DEFINE M == ManagerFds(srv) \cup (IF srv = "tcp" THEN {slot[srv].listen} ELSE {})
           N == M \cap Fd
<1>1. /\ pc = "teardown" /\ fail /\ srv \in Server /\ ~Active(srv)
      /\ UNCHANGED <<told, client, hold, wpc, left>>
      /\ fail' = FALSE /\ failed' = failed \cup {srv} /\ pc' \in {"epoll", "add"}
  BY DEF Base, Control, Threads, Active, TypeOK, TeardownOfStart, StartFails, AfterStart, worker
<1>2. /\ Emptied(srv) /\ Closes(N)
      /\ stolen' = (stolen \/ \E f \in M : At(f) \notin OwnFiles(srv))
  BY DEF TeardownOfStart, CloseAll, Closes
<1>3. srv = "tcp" => slot["tcp"].listen \in N \cup {0}
  BY DEF Base, TypeOK, Slot, Server, Fd
<1>4. ManagerFds(srv) \subseteq N /\ srv \in {"tcp", "udp"}
  BY <1>1 DEF ManagerFds, Server
<1>5. Unlistened' <=> "tcp" \in failed'
  BY <1>1 DEF Unlistened
<1>6. Unlistened <=> "tcp" \in failed
  BY <1>1 DEF Unlistened
<1>7. ClosesNumbers(N)
  <2>1. /\ \A s \in Server : (cmdQ'[s] = cmdQ[s] /\ sockMap'[s] = sockMap[s]) \/ ~Active(s)
        /\ \A s \in Server, f \in Fd :
             sockMap'[s][f] # sockMap[s][f] => sockMap'[s][f] = Nil
    BY <1>1, <1>2, EmptiedSlots DEF Base
  <2>2. \A s \in Server, k \in Slot :
          slot'[s][k] # slot[s][k] => slot'[s][k] = 0 /\ slot[s][k] \in N \cup {0}
    BY <1>1, <1>2, <1>4, EmptiedSlots DEF Base
  <2>3. "tcp" \notin failed' =>
          \A n \in N : \E s \in Server, k \in Slot :
            /\ slot[s][k] = n /\ ~(k = "listen" /\ Unlistened)
            /\ slot'[s][k] = 0 \/ (k = "listen" /\ Unlistened')
    <3>1. ASSUME "tcp" \notin failed', NEW n \in N
          PROVE  \E k \in Slot \ {"listen"} : slot[srv][k] = n /\ slot'[srv][k] = 0
      BY <1>1, <1>2, <3>1, EmptiedSlots DEF Base
    <3> QED
      BY <1>1, <3>1
  <2> QED
    BY <1>1, <1>2, <1>3, <1>4, <1>5, <1>6, <2>1, <2>2, <2>3 DEF ClosesNumbers
<1>8. ClosesItsOwn'
  <2>1. "tcp" \notin failed' => "tcp" \notin failed /\ M = ManagerFds(srv)
    BY <1>1
  <2> QED
    BY <1>1, <1>2, <2>1, ManagerOwns DEF Base, Tables, ClosesItsOwn
<1> QED
  BY <1>7, <1>8, ClosingKeeps DEF Tables

\* A new socket takes a free number: the table, and what it says of the rest.
LEMMA SocketOpens ==
  ASSUME Base, NEW c \in Sock, client[c] \in {"new", "queued"}, Open(SockFile(c))
  PROVE  /\ Opens(SockFile(c)) /\ Free \in Fd /\ files'[Free] = SockFile(c)
         /\ OpenOnce'
         /\ \A s \in Server, k \in Slot, f \in Fd :
              files'[f] = File(s, k) <=> files[f] = File(s, k)
         /\ \A d \in Sock, f \in Fd :
              files'[f] = SockFile(d) <=> files[f] = SockFile(d) \/ (d = c /\ f = Free)
         /\ told[c] = "none" /\ \A s \in Server, f \in Fd : sockMap[s][f] # c
<1>1. Opens(SockFile(c))
  BY OpensFree DEF Base, Tables, Opens, Open, FreeIsFree, TypeOK
<1>2. OpenOnce'
  BY <1>1, OpenKeepsOnce DEF Base, Tables, Table, SocketFiles
<1>3. told[c] = "none" /\ \A s \in Server, f \in Fd : sockMap[s][f] # c
  BY DEF Base, Tables, Table, Untouched
<1> QED
  BY <1>1, <1>2, <1>3, FileNames DEF Opens

\* It disturbs no manager's descriptor and no other socket.
LEMMA SocketOpensKeeps ==
  ASSUME Base, NEW c \in Sock, client[c] \in {"new", "queued"}, Open(SockFile(c)),
         UNCHANGED <<slot, failed, fail, srv, stolen>>, Unlistened' = Unlistened
  PROVE  /\ Remembered' /\ ListenClosed' /\ ClosesItsOwn'
         /\ "tcp" \notin failed =>
              \A s \in Server, k \in Slot :
                slot[s][k] # 0 /\ ~(k = "listen" /\ Unlistened) => files'[slot[s][k]] = File(s, k)
<1> USE SocketOpens DEF Base, Tables
<1>1. Remembered'
  BY DEF Table, Remembered
<1>2. ListenClosed'
  BY DEF Table, ListenClosed, Server, Slot
<1>3. ClosesItsOwn'
  BY DEF ClosesItsOwn
<1>4. \A s \in Server, k \in Slot : slot[s][k] # 0 => slot[s][k] \in Fd
  BY DEF TypeOK, Fd
<1> QED
  BY <1>1, <1>2, <1>3, <1>4 DEF NumbersLead, INVALID_FD

\* accept() opens a socket nobody knows of.
LEMMA AcceptKeeps ==
  ASSUME Base, Accept PROVE Tables'
<1> USE DEF Base, Tables
<1>0. /\ UNCHANGED <<slot, failed, fail, srv, stolen, pc, told, sockMap, cmdQ, left>>
      /\ wpc["tcp"] = "loop" /\ Unlistened' = Unlistened /\ "tcp" \in Server
  BY DEF Accept, main, mgr, ghost, Unlistened, Server
<1>1. CASE UNCHANGED <<client, files, hold, wpc>>
  BY <1>0, <1>1, QuietKeeps DEF Quiet, WorkerHeld
<1>2. ASSUME NEW c \in Client, client[c] = "queued",
             client' = [client EXCEPT ![c] = "open"], Open(SockFile(c)),
             hold' = [hold EXCEPT !["tcp"] = c], wpc' = [wpc EXCEPT !["tcp"] = "add"]
      PROVE  Tables'
  <2> USE <1>0, <1>2
  <2>0. c \in Sock /\ client[c] \in {"new", "queued"}
    BY DEF Sock
  <2>1. /\ hold'["tcp"] = c /\ wpc'["tcp"] = "add" /\ client'[c] = "open"
        /\ \A s \in Server : s # "tcp" => hold'[s] = hold[s] /\ wpc'[s] = wpc[s]
        /\ \A d \in Sock : d # c => client'[d] = client[d]
    BY <2>0 DEF TypeOK
  <2>2. OpenOnce' /\ Remembered' /\ ListenClosed' /\ ClosesItsOwn'
    BY <2>0, SocketOpens, SocketOpensKeeps
  <2>3. Untouched'
    BY <2>0, <2>1, SocketOpens DEF Table, Untouched
  <2>4. Accepted'
    BY <2>0, <2>1, SocketOpens DEF Accepted
  <2>5. Erased' /\ WorkerHeld'
    BY <2>1 DEF Table, Erased, WorkerHeld, Server
  <2>6. MapOnce'
    <3>1. \A s \in Server, f \in Fd : sockMap[s][f] # Nil =>
            sockMap[s][f] \in Sock /\ sockMap[s][f] # c
      BY <2>0, SocketOpens DEF TypeOK
    <3> QED
      BY <2>0, <3>1, SocketOpens DEF MapOnce
  <2>7. NumbersLead'
    <3>1. ASSUME "tcp" \notin failed
          PROVE  \A s \in Server, f \in Fd :
                   sockMap[s][f] # Nil /\ ~(wpc[s] = "erase" /\ f = Head(cmdQ[s])) =>
                     files'[f] = SockFile(sockMap[s][f])
      BY <2>0, <3>1, SocketOpens, SocketsLead
    <3>2. \A s \in Server : wpc'[s] = "erase" => wpc[s] = "erase"
      BY <2>1
    <3>3. \E f \in Fd : files'[f] = SockFile(hold'["tcp"])
      BY <2>0, <2>1, SocketOpens
    <3>4. \A s \in Server : wpc[s] = "erase" => wpc'[s] = "erase"
      BY <2>1
    <3> QED
      BY <2>0, <3>1, <3>2, <3>3, <3>4, SocketOpensKeeps DEF NumbersLead, INVALID_FD
  <2> QED
    BY <2>2, <2>3, <2>4, <2>5, <2>6, <2>7 DEF Table
<1>3. ASSUME NEW c \in Client, client[c] = "queued",
             client' = [client EXCEPT ![c] = "leaked"], Open(SockFile(c)),
             UNCHANGED <<hold, wpc>>
      PROVE  Tables'
  <2> USE <1>0, <1>3
  <2>0. c \in Sock /\ client[c] \in {"new", "queued"}
    BY DEF Sock
  <2>1. client'[c] = "leaked" /\ \A d \in Sock : d # c => client'[d] = client[d]
    BY <2>0 DEF TypeOK
  <2>2. OpenOnce' /\ Remembered' /\ ListenClosed' /\ ClosesItsOwn'
    BY <2>0, SocketOpens, SocketOpensKeeps
  <2>3. Untouched'
    BY <2>0, <2>1, SocketOpens DEF Table, Untouched
  <2>4. Accepted' /\ Erased' /\ WorkerHeld'
    BY DEF Table, Accepted, Erased, WorkerHeld
  <2>5. MapOnce'
    <3>1. \A s \in Server, f \in Fd : sockMap[s][f] # Nil =>
            sockMap[s][f] \in Sock /\ sockMap[s][f] # c
      BY <2>0, SocketOpens DEF TypeOK
    <3> QED
      BY <2>0, <3>1, SocketOpens DEF MapOnce
  <2>6. NumbersLead'
    <3>1. ASSUME "tcp" \notin failed
          PROVE  \A s \in Server, f \in Fd :
                   sockMap[s][f] # Nil /\ ~(wpc[s] = "erase" /\ f = Head(cmdQ[s])) =>
                     files'[f] = SockFile(sockMap[s][f])
      BY <2>0, <3>1, SocketOpens, SocketsLead
    <3> QED
      BY <2>0, <3>1, SocketOpensKeeps DEF NumbersLead, INVALID_FD
  <2> QED
    BY <2>2, <2>3, <2>4, <2>5, <2>6 DEF Table
<1> QED
  BY <1>1, <1>2, <1>3 DEF Accept

\* A port goes into the map under its new number, or is refused.
LEMMA AddListenKeeps ==
  ASSUME Base, NEW c \in Port, AddListenSocket(c) PROVE Tables'
<1> USE DEF Base, Tables
<1>0. /\ UNCHANGED <<slot, failed, fail, srv, stolen, pc, cmdQ, left, wpc, hold>>
      /\ Unlistened' = Unlistened /\ "udp" \in Server /\ c \in Sock /\ client[c] = "new"
      /\ Home(c) = "udp"
  BY NamesAssumption DEF AddListenSocket, main, worker, Unlistened, Server, Sock, Home
<1>3. \/ client' = [client EXCEPT ![c] = "closed"] /\ UNCHANGED <<sockMap, files, told>>
      \/ /\ client' = [client EXCEPT ![c] = "open"] /\ Open(SockFile(c))
         /\ told' = [told EXCEPT ![c] = "hi"]
         /\ \/ UNCHANGED sockMap
            \/ sockMap["udp"][Free] = Nil /\ sockMap' = [sockMap EXCEPT !["udp"][Free] = c]
  BY DEF AddListenSocket
<1>4. \A d \in Sock : client'[d] = IF d # c THEN client[d] ELSE client'[c]
  BY <1>0, <1>3 DEF TypeOK
<1>6. /\ client' = [client EXCEPT ![c] = "closed"] => client'[c] = "closed"
      /\ client' = [client EXCEPT ![c] = "open"] => client'[c] = "open"
  BY <1>0 DEF TypeOK
<1>5. wpc["tcp"] = "add" => hold["tcp"] \in Sock /\ hold["tcp"] # c
  BY <1>0 DEF WorkerHeld, Table, Accepted, Sock
<1>1. CASE UNCHANGED <<sockMap, files, told>> /\ client'[c] = "closed"
  <2>1. Untouched' /\ Accepted' /\ Erased'
    BY <1>0, <1>1, <1>4, <1>5 DEF Table, Untouched, Accepted, Erased
  <2>2. WorkerHeld' /\ ClosesItsOwn' /\ MapOnce' /\ NumbersLead'
    BY <1>0, <1>1 DEF WorkerHeld, ClosesItsOwn, MapOnce, NumbersLead
  <2>3. OpenOnce' /\ Remembered' /\ ListenClosed'
    BY <1>0, <1>1 DEF Table, OpenOnce, Remembered, ListenClosed
  <2> QED
    BY <2>1, <2>2, <2>3 DEF Table
<1>2. CASE /\ client'[c] = "open" /\ Open(SockFile(c)) /\ told' = [told EXCEPT ![c] = "hi"]
           /\ \/ UNCHANGED sockMap
              \/ sockMap["udp"][Free] = Nil /\ sockMap' = [sockMap EXCEPT !["udp"][Free] = c]
  <2> USE <1>0, <1>2
  <2>1. OpenOnce' /\ Remembered' /\ ListenClosed' /\ ClosesItsOwn' /\ Free \in Fd
    BY SocketOpens, SocketOpensKeeps
  <2>2. \A s \in Server, f \in Fd :
          sockMap'[s][f] = sockMap[s][f] \/ (s = "udp" /\ f = Free /\ sockMap'[s][f] = c
                                             /\ sockMap[s][f] = Nil)
    BY <2>1 DEF TypeOK
  <2>3. told'[c] = "hi" /\ \A d \in Sock : d # c => told'[d] = told[d]
    BY DEF TypeOK
  <2>4. Untouched'
    BY <1>4, <2>2, <2>3, SocketOpens DEF Table, Untouched
  <2>5. Accepted'
    BY <1>4, <1>5, <2>3 DEF Table, Accepted
  <2>6. Erased' /\ WorkerHeld'
    <3>1. \A s \in Server : wpc[s] = "erase" =>
            /\ hold[s] # Nil /\ hold[s] \in Sock /\ Head(cmdQ[s]) \in Fd
            /\ sockMap[s][Head(cmdQ[s])] = hold[s]
      BY DEF WorkerHeld, TypeOK
    <3>2. \A s \in Server : wpc[s] = "erase" => hold[s] # c
      BY <3>1, SocketOpens
    <3> QED
      BY <2>2, <2>3, <3>1, <3>2 DEF Table, Erased, WorkerHeld
  <2>7. MapOnce'
    <3>1. \A s \in Server, f \in Fd : sockMap[s][f] # Nil =>
            sockMap[s][f] \in Sock /\ sockMap[s][f] # c
      BY SocketOpens DEF TypeOK
    <3>2. \A f \in Fd : files'[f] = SockFile(c) => f = Free
      BY SocketOpens DEF Opens
    <3> QED
      BY <2>1, <2>2, <3>1, <3>2, SocketOpens, FileNames DEF MapOnce
  <2>8. NumbersLead'
    <3>1. ASSUME "tcp" \notin failed
          PROVE  /\ \A s \in Server, f \in Fd :
                      sockMap[s][f] # Nil /\ ~(wpc[s] = "erase" /\ f = Head(cmdQ[s])) =>
                        files'[f] = SockFile(sockMap[s][f])
                 /\ wpc["tcp"] = "add" => \E f \in Fd : files'[f] = SockFile(hold["tcp"])
      BY <3>1, SocketOpens, SocketsLead
    <3> QED
      BY <2>2, <3>1, SocketOpens, SocketOpensKeeps DEF NumbersLead, INVALID_FD
  <2> QED
    BY <2>1, <2>4, <2>5, <2>6, <2>7, <2>8 DEF Table
<1> QED
  BY <1>3, <1>6, <1>1, <1>2

\* The socket goes into the map under its number, where there is nothing: the
\* worker that removes entries is the one that accepts.
LEMMA AddsToMap ==
  ASSUME Base, AddTcpSocket
  PROVE  \E f \in Fd :
           /\ files[f] = SockFile(hold["tcp"]) /\ sockMap["tcp"][f] = Nil
           /\ sockMap' = [sockMap EXCEPT !["tcp"][f] = hold["tcp"]]
           /\ missed' = IF Passed("tcp", f) THEN missed \cup {hold["tcp"]} ELSE missed
           /\ "tcp" \notin failed /\ hold["tcp"] \in Client
           /\ \A s \in Server, g \in Fd : sockMap[s][g] # hold["tcp"]
<1> USE DEF Base, Tables
<1> DEFINE c == hold["tcp"]
           f == CHOOSE n \in Fd : files[n] = SockFile(c)
<1>1. wpc["tcp"] = "add" /\ "tcp" \notin failed /\ "tcp" \in Server
  BY DEF AddTcpSocket, Control, Threads, Server
<1>2. c \in Client /\ c \in Sock
  BY <1>1 DEF WorkerHeld, Sock
<1>3. f \in Fd /\ files[f] = SockFile(c)
  BY <1>1 DEF NumbersLead
<1>4. \A s \in Server, g \in Fd : sockMap[s][g] # c
  BY <1>1, <1>2 DEF Table, Accepted, Untouched
<1>5. sockMap["tcp"][f] = Nil
  <2>1. sockMap["tcp"][f] # Nil =>
          sockMap["tcp"][f] \in Sock /\ files[f] = SockFile(sockMap["tcp"][f])
    BY <1>1, <1>3 DEF NumbersLead, TypeOK
  <2> QED
    BY <1>1, <1>2, <1>3, <1>4, <2>1, FileNames
<1>6. /\ sockMap' = [sockMap EXCEPT !["tcp"][f] = c]
      /\ missed' = IF Passed("tcp", f) THEN missed \cup {c} ELSE missed
  BY DEF AddTcpSocket
<1> HIDE DEF f
<1> QED
  BY <1>1, <1>2, <1>3, <1>4, <1>5, <1>6

\* The accepted socket goes into the map and the listener is told.
LEMMA AddTcpKeeps ==
  ASSUME Base, AddTcpSocket PROVE Tables'
<1> USE DEF Base, Tables
<1> DEFINE c == hold["tcp"]
<1>0. /\ UNCHANGED <<slot, failed, fail, srv, stolen, pc, cmdQ, left, files, client>>
      /\ Unlistened' = Unlistened /\ wpc["tcp"] = "add" /\ "tcp" \in Server
      /\ told' = [told EXCEPT ![c] = "hi"]
      /\ hold' = [hold EXCEPT !["tcp"] = Nil] /\ wpc' = [wpc EXCEPT !["tcp"] = "loop"]
  BY DEF AddTcpSocket, main, Unlistened, Server
<1>1. PICK f \in Fd :
        /\ files[f] = SockFile(hold["tcp"]) /\ sockMap["tcp"][f] = Nil
        /\ sockMap' = [sockMap EXCEPT !["tcp"][f] = hold["tcp"]]
        /\ missed' = IF Passed("tcp", f) THEN missed \cup {hold["tcp"]} ELSE missed
        /\ "tcp" \notin failed /\ hold["tcp"] \in Client
        /\ \A s \in Server, g \in Fd : sockMap[s][g] # hold["tcp"]
  BY AddsToMap
<1>2. c \in Sock /\ Home(c) = "tcp"
  BY <1>1 DEF Sock, Home
<1>3. /\ \A s \in Server, g \in Fd :
           sockMap'[s][g] = IF s = "tcp" /\ g = f THEN c ELSE sockMap[s][g]
      /\ \A d \in Sock : told'[d] = IF d = c THEN "hi" ELSE told[d]
      /\ wpc'["tcp"] = "loop" /\ wpc'["udp"] = wpc["udp"] /\ hold'["udp"] = hold["udp"]
  BY <1>0, <1>1 DEF TypeOK, Server
<1>4. told[c] = "none" /\ client[c] \notin {"new", "queued", "leaked"}
  BY <1>0 DEF Table, Accepted
<1>5. OpenOnce' /\ Remembered' /\ ListenClosed' /\ ClosesItsOwn'
  BY <1>0 DEF Table, OpenOnce, Remembered, ListenClosed, ClosesItsOwn, ManagerFiles, SocketFiles
<1>6. Untouched'
  BY <1>0, <1>2, <1>3, <1>4 DEF Table, Untouched
<1>7. Accepted' /\ Erased' /\ WorkerHeld'
  <2>1. wpc["udp"] = "erase" =>
          /\ hold["udp"] # Nil /\ hold["udp"] \in Sock /\ Head(cmdQ["udp"]) \in Fd
          /\ sockMap["udp"][Head(cmdQ["udp"])] = hold["udp"]
    BY DEF WorkerHeld, TypeOK, Server
  <2>2. wpc["udp"] = "erase" => hold["udp"] # c
    BY <1>1, <2>1 DEF Server
  <2> QED
    BY <1>0, <1>3, <2>1, <2>2 DEF Table, Erased, Accepted, WorkerHeld, Server
<1>8. MapOnce'
  <2>1. \A s \in Server, g \in Fd : sockMap[s][g] # Nil =>
          sockMap[s][g] \in Sock /\ sockMap[s][g] # c
    BY <1>1 DEF TypeOK
  <2>2. \A g \in Fd : files[g] = SockFile(c) => g = f
    BY <1>1, <1>2, FileNames DEF Table, OpenOnce
  <2>3. c # Nil
    BY <1>2, FileNames
  <2> QED
    BY <1>0, <1>1, <1>2, <1>3, <2>1, <2>2, <2>3 DEF MapOnce
<1>9. NumbersLead'
  BY <1>0, <1>1, <1>3 DEF NumbersLead, Server
<1> QED
  BY <1>5, <1>6, <1>7, <1>8, <1>9 DEF Table

\* RemoveSocketObject closes the number of the entry, which leads to the socket
\* of the entry until TcpServer::Start fails ...
LEMMA RemoveCloseKeeps ==
  ASSUME Base, NEW s \in Server, RemoveClose(s) PROVE Tables'
<1> USE DEF Base, Tables
<1> DEFINE h == Head(cmdQ[s])
           c == sockMap[s][h]
<1>0. /\ UNCHANGED <<slot, failed, fail, srv, pc, cmdQ, left, sockMap>>
      /\ Unlistened' = Unlistened /\ wpc[s] = "command" /\ cmdQ[s] # <<>> /\ left[s] > 0
      /\ h \in Fd /\ c \in Sock /\ c # Nil /\ "tcp" \in Server
  BY DEF RemoveClose, Executing, Named, main, mgr, Unlistened, TypeOK, Server
<1>1. /\ \A d \in Sock : told'[d] = IF d = c THEN "bye" ELSE told[d]
      /\ \A d \in Sock : client'[d] = IF d = c THEN "closed" ELSE client[d]
      /\ \A t \in Server : hold'[t] = IF t = s THEN c ELSE hold[t]
      /\ \A t \in Server : wpc'[t] = IF t = s THEN "erase" ELSE wpc[t]
      /\ \A g \in Fd : files'[g] = IF g = h THEN Nil ELSE files[g]
      /\ stolen' = (stolen \/ At(h) # SockFile(c))
  BY <1>0 DEF RemoveClose, Named, CloseAll, TypeOK
<1>2. "tcp" \notin failed => files[h] = SockFile(c)
  BY <1>0 DEF NumbersLead
<1>3. \A g \in Fd : files[g] = SockFile(c) => g = h
  BY <1>0 DEF MapOnce
<1>4. told[c] # "none" /\ client[c] \notin {"new", "queued"}
  BY <1>0 DEF Table, Untouched
<1>5. \A g \in Fd : files'[g] # Nil => files'[g] = files[g] /\ g # h
  BY <1>1
<1>6. OpenOnce'
  <2>1. Closes({h})
    BY <1>1 DEF Closes
  <2> QED
    BY <2>1, CloseKeepsOnce DEF Table
<1>7. Remembered' /\ ListenClosed'
  BY <1>0, <1>5, FileNames DEF Table, Remembered, ListenClosed, Server, Slot
<1>8. Untouched'
  BY <1>0, <1>1, <1>3, <1>4, <1>5, FileNames DEF Table, Untouched
<1>9. Accepted' /\ Erased' /\ WorkerHeld'
  <2>1. wpc["tcp"] = "add" => hold["tcp"] \in Sock /\ told[hold["tcp"]] = "none"
    BY DEF Table, Accepted, WorkerHeld, Sock
  <2>2. \A t \in Server : wpc[t] = "erase" => hold[t] \in Sock
    BY DEF WorkerHeld, TypeOK
  <2>3. Accepted'
    BY <1>0, <1>1, <1>4, <2>1 DEF Table, Accepted
  <2>4. Erased'
    BY <1>0, <1>1, <2>2 DEF Table, Erased
  <2>5. WorkerHeld'
    BY <1>0, <1>1 DEF WorkerHeld, Server
  <2> QED
    BY <2>3, <2>4, <2>5
<1>10. MapOnce'
  BY <1>0, <1>5, FileNames DEF MapOnce, TypeOK
<1>11. NumbersLead'
  <2>1. \A d \in Sock, g \in Fd : files[g] = SockFile(d) /\ d # c /\ "tcp" \notin failed =>
          files'[g] = SockFile(d)
    BY <1>0, <1>1, <1>2, FileNames
  <2>2. ASSUME "tcp" \notin failed, NEW t \in Server, NEW k \in Slot, slot[t][k] # 0,
               ~(k = "listen" /\ Unlistened)
        PROVE  files'[slot[t][k]] = File(t, k)
    <3>1. slot[t][k] \in Fd /\ files[slot[t][k]] = File(t, k)
      BY <2>2 DEF NumbersLead, INVALID_FD, TypeOK, Fd
    <3> QED
      BY <1>0, <1>1, <1>2, <2>2, <3>1, FileNames
  <2>3. ASSUME "tcp" \notin failed, NEW t \in Server, NEW g \in Fd, sockMap[t][g] # Nil,
               ~(wpc'[t] = "erase" /\ g = Head(cmdQ[t]))
        PROVE  files'[g] = SockFile(sockMap[t][g])
    <3>1. sockMap[t][g] \in Sock /\ ~(wpc[t] = "erase" /\ g = Head(cmdQ[t])) /\ ~(t = s /\ g = h)
      BY <1>1, <2>3 DEF TypeOK
    <3>2. files[g] = SockFile(sockMap[t][g])
      BY <2>3, <3>1 DEF NumbersLead
    <3>3. sockMap[t][g] # c
      BY <1>0, <3>1, <3>2, <2>3 DEF MapOnce
    <3> QED
      BY <2>1, <2>3, <3>1, <3>2, <3>3
  <2>4. ASSUME "tcp" \notin failed, wpc'["tcp"] = "add"
        PROVE  \E f \in Fd : files'[f] = SockFile(hold'["tcp"])
    <3>1. wpc["tcp"] = "add" /\ hold'["tcp"] = hold["tcp"] /\ hold["tcp"] \in Sock
      BY <1>0, <1>1, <2>4 DEF WorkerHeld, Sock
    <3>2. hold["tcp"] # c
      BY <1>0, <1>4, <3>1 DEF Table, Accepted
    <3> QED
      BY <2>1, <2>4, <3>1, <3>2 DEF NumbersLead
  <2> QED
    BY <1>0, <2>2, <2>3, <2>4 DEF NumbersLead, INVALID_FD
<1>12. ClosesItsOwn'
  BY <1>0, <1>1, <1>2 DEF ClosesItsOwn, At
<1> QED
  BY <1>6, <1>7, <1>8, <1>9, <1>10, <1>11, <1>12 DEF Table

\* ... and erases the entry it closed.
LEMMA RemoveEraseKeeps ==
  ASSUME Base, NEW s \in Server, RemoveErase(s) PROVE Tables'
<1> USE DEF Base, Tables
<1> DEFINE h == Head(cmdQ[s])
<1>0. /\ UNCHANGED <<slot, failed, fail, srv, pc, files, told, client, stolen>>
      /\ Unlistened' = Unlistened /\ wpc[s] = "erase" /\ cmdQ[s] # <<>> /\ h \in Fd
      /\ "tcp" \in Server
  BY DEF RemoveErase, Erasing, main, kernel, ghost, Unlistened, TypeOK, Server, WorkerHeld
<1>1. /\ \A t \in Server, g \in Fd :
           sockMap'[t][g] = IF t = s /\ g = h THEN Nil ELSE sockMap[t][g]
      /\ \A t \in Server : wpc'[t] = IF t = s THEN "command" ELSE wpc[t]
      /\ \A t \in Server : t # s => cmdQ'[t] = cmdQ[t] /\ left'[t] = left[t] /\ hold'[t] = hold[t]
  BY <1>0 DEF RemoveErase, PopCommand, TypeOK
<1>2. OpenOnce' /\ Remembered' /\ ListenClosed' /\ ClosesItsOwn'
  BY <1>0 DEF Table, OpenOnce, Remembered, ListenClosed, ClosesItsOwn, ManagerFiles, SocketFiles
<1>3. Untouched' /\ Accepted' /\ Erased'
  BY <1>0, <1>1, FileNames DEF Table, Untouched, Accepted, Erased
<1>4. WorkerHeld'
  <2>1. \A t \in Server : wpc[t] = "erase" => Head(cmdQ[t]) \in Fd
    BY DEF WorkerHeld, TypeOK
  <2> QED
    BY <1>0, <1>1, <2>1 DEF WorkerHeld, Server
<1>5. MapOnce'
  BY <1>0, <1>1 DEF MapOnce
<1>6. NumbersLead'
  BY <1>0, <1>1 DEF NumbersLead
<1> QED
  BY <1>2, <1>3, <1>4, <1>5, <1>6 DEF Table

\* Every step keeps the maps, the table and the numbers.
LEMMA TablesStep ==
  ASSUME Base, [Next]_vars PROVE Tables'
BY QuietOrBusy, QuietKeeps, CreateListenKeeps, MakeKeeps, MakeFailsKeeps, NoEpollKeeps,
   AddListenKeeps, CloseListenKeeps, TeardownKeeps, TeardownOfStartKeeps, AcceptKeeps,
   AddTcpKeeps, RemoveCloseKeeps, RemoveEraseKeeps
DEF Busy, Base, Tables

----------------------------------------------------------------------------
(* Types.                                                                   *)

\* A command of a number is a command, its event an event.
LEMMA TriggerType ==
  ASSUME TypeOK, NEW s \in Server, NEW f \in Fd, Trigger(s, f)
  PROVE  /\ cmdQ' \in [Server -> Seq(Fd)]
         /\ over' \in SUBSET Server
         /\ ready' \in [Server -> SUBSET ({"cmd", "exit", "listen"} \cup Sock)]
<1>1. Append(cmdQ[s], f) \in Seq(Fd)
  BY DEF TypeOK
<1>2. cmdQ' \in [Server -> Seq(Fd)]
  BY <1>1 DEF Trigger, TypeOK
<1>3. over' \in SUBSET Server
  BY DEF Trigger, TypeOK
<1>4. ready' \in [Server -> SUBSET ({"cmd", "exit", "listen"} \cup Sock)]
  <2>1. ready' \in {ready, [ready EXCEPT ![s] = @ \cup {"cmd"}]}
    BY DEF Trigger, TypeOK
  <2>2. /\ ready \in [Server -> SUBSET ({"cmd", "exit", "listen"} \cup Sock)]
        /\ ready[s] \cup {"cmd"} \in SUBSET ({"cmd", "exit", "listen"} \cup Sock)
    BY DEF TypeOK
  <2> QED
    BY ONLY <2>1, <2>2
<1> QED
  BY <1>2, <1>3, <1>4

\* The count does not pass below zero.
LEMMA PopType ==
  ASSUME TypeOK, NEW s \in Server, cmdQ[s] # <<>>, left[s] > 0, PopCommand(s)
  PROVE  cmdQ' \in [Server -> Seq(Fd)] /\ left' \in [Server -> 0..CmdBudget]
<1>1. Tail(cmdQ[s]) \in Seq(Fd)
  BY DEF TypeOK
<1>2. left[s] - 1 \in 0..CmdBudget
  BY NumbersAssumption DEF TypeOK
<1> QED
  BY <1>1, <1>2 DEF PopCommand, TypeOK

\* What Reset leaves has its type.
LEMMA EmptiedType ==
  ASSUME TypeOK, NEW s \in Server, Emptied(s)
  PROVE  /\ cmdQ' \in [Server -> Seq(Fd)]
         /\ sockMap' \in [Server -> [Fd -> Sock \cup {Nil}]]
         /\ slot' \in [Server -> [Slot -> 0..NumFds]]
<1>1. <<>> \in Seq(Fd) /\ [f \in Fd |-> Nil] \in [Fd -> Sock \cup {Nil}]
  OBVIOUS
<1>2. 0 \in 0..NumFds
  BY NumbersAssumption
<1> QED
  BY <1>1, <1>2 DEF Emptied, TypeOK, INVALID_FD

\* What is opened is a file, and its number one of the table.
LEMMA OpenType ==
  ASSUME Base
  PROVE  /\ pc = "listen" => Free \in 1..NumFds
         /\ pc \in DOMAIN NextStep => Free \in 1..NumFds
         /\ \A s \in Server, k \in Slot :
              Open(File(s, k)) => files' \in [Fd -> Files \cup {Nil}]
         /\ \A c \in Sock :
              Open(SockFile(c)) => files' \in [Fd -> Files \cup {Nil}]
         /\ "tcp" \in Server /\ "listen" \in Slot /\ "timer" \in Slot
<1>1. /\ pc = "listen" => Free \in 1..NumFds
      /\ pc \in DOMAIN NextStep => Free \in 1..NumFds
  BY OpensFree DEF Base, Tables, FreeIsFree, Fd
<1>2. \A x \in Files : Open(x) => files' \in [Fd -> Files \cup {Nil}]
  BY DEF Base, TypeOK, Open
<1> QED
  BY <1>1, <1>2, FileNames DEF Server, Slot

\* A table from which numbers are closed is a table.
LEMMA CloseType ==
  ASSUME TypeOK, NEW numbers, NEW owned, CloseAll(numbers, owned)
  PROVE  /\ files' \in [Fd -> Files \cup {Nil}]
         /\ watched' \in SUBSET Sock
         /\ stolen' \in BOOLEAN
BY DEF CloseAll, TypeOK

\* What there is to read is read or grows.
LEMMA UnreadType ==
  ASSUME TypeOK, [Next]_vars PROVE unread' \in SUBSET Sock
<1>1. MainPart => UNCHANGED unread
  BY DEF MainPart, CreateListenSocket, Make, MakeFails, NoEpoll, StartWorkThread, StartAccept,
         Started, ExitFlagSet, AddListenSocket, CloseListenSocket, CloseNext, CloseAllDone,
         StopWorkThread, Join, Teardown, TeardownOfStart, kernel
<1>2. ASSUME NEW s \in Server, Interrupted(s) \/ WorkerStep(s) PROVE unread' \subseteq unread
  <2>1. ASSUME NEW c \in Sock, Reading(s, c) PROVE unread' \subseteq unread
    BY <2>1, ReadEffect
  <2> QED
    BY <1>2, <2>1
    DEF Interrupted, WorkerStep, EpollReturns, NoSuchEpoll, EpollFails, WorkEnds, Accept,
        AddTcpSocket, Reading, StartCommands, CommandsDone, CommandNotFound, RemoveClose,
        RemoveErase, kernel
<1>3. ASSUME NEW c \in Sock, PeerSends(c) \/ PeerEnds(c)
      PROVE  unread' \subseteq unread \cup {c}
  BY <1>3 DEF PeerSends, PeerEnds
<1>4. (\E c \in Client : ClientConnects(c)) => UNCHANGED unread
  BY DEF ClientConnects
<1>5. UNCHANGED vars => UNCHANGED unread
  BY DEF vars
<1> QED
  BY <1>1, <1>2, <1>3, <1>4, <1>5, Parts DEF OtherPart, TypeOK

\* Every step keeps every variable's type.
LEMMA TypeStep ==
  ASSUME Base, [Next]_vars PROVE TypeOK'
<1> USE DEF Base, Tables
<1>0. unread' \in SUBSET Sock
  BY UnreadType
<1> USE <1>0
<1>1. CASE CreateListenSocket
    <2>1. UNCHANGED <<fail, cursor, sockMap, cmdQ, wpc, hold, batch, left, crashed, watched,
                    ready, client, told, died, missed, over, stolen>>
    BY <1>1 DEF CreateListenSocket, worker
  <2>2. /\ pc' \in {"epoll"}
        /\ srv' \in Server
        /\ failed' \in SUBSET Server
    BY <1>1 DEF TypeOK, CreateListenSocket, StartFails, AfterStart, Server
  <2>3. slot' \in [Server -> [Slot -> 0..NumFds]]
    <3>1. UNCHANGED slot \/ slot' = [slot EXCEPT !["tcp"].listen = Free]
      BY <1>1 DEF CreateListenSocket
    <3>2. Free \in 0..NumFds /\ "tcp" \in Server /\ "listen" \in Slot
      BY <1>1, OpenType, NumbersAssumption DEF CreateListenSocket
    <3>3. [slot["tcp"] EXCEPT !.listen = Free] \in [Slot -> 0..NumFds]
      BY <3>2 DEF TypeOK
    <3> QED
      BY <3>1, <3>3 DEF TypeOK
  <2>4. files' \in [Fd -> Files \cup {Nil}]
    BY <1>1, OpenType DEF TypeOK, CreateListenSocket
  <2> QED
    BY <2>1, <2>2, <2>3, <2>4 DEF TypeOK
<1>2. CASE Make
    <2>1. UNCHANGED <<srv, fail, cursor, sockMap, cmdQ, wpc, hold, batch, left, crashed,
                    watched, ready, client, told, failed, died, missed, over, stolen>>
    BY <1>2 DEF Make, worker, ghost
  <2>2. pc' \in {"cmd", "exit", "timer", "thread"}
    BY <1>2 DEF TypeOK, Make, NextStep
  <2>3. slot' \in [Server -> [Slot -> 0..NumFds]]
    <3>1. slot' = [slot EXCEPT ![srv][pc] = Free] /\ pc \in Slot /\ srv \in Server
      BY <1>2 DEF Make, NextStep, Slot, TypeOK
    <3>2. Free \in 0..NumFds
      BY <1>2, OpenType, NumbersAssumption DEF Make
    <3> QED
      BY <3>1, <3>2 DEF TypeOK
  <2>4. files' \in [Fd -> Files \cup {Nil}]
    BY <1>2, OpenType DEF TypeOK, Make, NextStep, Slot
  <2> QED
    BY <2>1, <2>2, <2>3, <2>4 DEF TypeOK
<1>3. CASE MakeFails
    <2>1. UNCHANGED <<srv, cursor, slot, sockMap, cmdQ, wpc, hold, batch, left, crashed,
                    watched, ready, client, told, failed, died, missed, over, stolen>>
    BY <1>3 DEF MakeFails, mgr, worker, ghost
  <2>2. /\ pc' \in {"teardown"}
        /\ fail' \in BOOLEAN
    BY <1>3 DEF TypeOK, MakeFails
  <2>3. files' \in [Fd -> Files \cup {Nil}]
    BY <1>3, OpenType DEF TypeOK, MakeFails, NextStep, Slot
  <2> QED
    BY <2>1, <2>2, <2>3 DEF TypeOK
<1>4. CASE NoEpoll
    <2>1. UNCHANGED <<fail, cursor, slot, sockMap, cmdQ, wpc, hold, batch, left, crashed, ready,
                    client, told, died, missed, over>>
    BY <1>4 DEF NoEpoll, ManagerFails, mgr, worker
  <2>2. /\ pc' \in {"epoll", "add"}
        /\ srv' \in Server
        /\ failed' \in SUBSET Server
    BY <1>4 DEF TypeOK, NoEpoll, ManagerFails, StartFails, AfterStart, Server
  <2>3. files' \in [Fd -> Files \cup {Nil}]
    BY <1>4, CloseType DEF TypeOK, NoEpoll, ManagerFails
  <2>4. /\ watched' \in SUBSET Sock
        /\ stolen' \in BOOLEAN
    BY <1>4, CloseType DEF TypeOK, NoEpoll, ManagerFails
  <2> QED
    BY <2>1, <2>2, <2>3, <2>4 DEF TypeOK
<1>5. CASE StartWorkThread
    <2>1. UNCHANGED <<cursor, slot, sockMap, cmdQ, hold, batch, left, crashed, files, watched,
                    ready, client, told, failed, died, missed, over, stolen>>
    BY <1>5 DEF StartWorkThread, mgr, kernel, ghost
  <2>2. /\ pc' \in {"accept", "add", "teardown"}
        /\ srv' \in Server
        /\ fail' \in BOOLEAN
    BY <1>5 DEF TypeOK, StartWorkThread, AfterStart, Server
  <2>3. wpc' \in [Server -> {"none", "loop", "add", "read", "command", "erase",
                             "ended", "joined"}]
    BY <1>5 DEF TypeOK, StartWorkThread
  <2> QED
    BY <2>1, <2>2, <2>3 DEF TypeOK
<1>6. CASE StartAccept
    <2>1. UNCHANGED <<fail, cursor, slot, sockMap, cmdQ, wpc, hold, batch, left, crashed, files,
                    watched, client, told, failed, died, missed, over, stolen>>
    BY <1>6 DEF StartAccept, mgr, worker, ghost
  <2>2. /\ pc' \in {"epoll"}
        /\ srv' \in Server
    BY <1>6 DEF TypeOK, StartAccept, AfterStart, Server
  <2>3. ready' \in [Server -> SUBSET ({"cmd", "exit", "listen"} \cup Sock)]
    BY <1>6 DEF TypeOK, StartAccept
  <2> QED
    BY <2>1, <2>2, <2>3 DEF TypeOK
<1>7. CASE Started \/ ExitFlagSet \/ CloseAllDone
    <2>1. UNCHANGED <<fail, cursor, slot, sockMap, cmdQ, wpc, hold, batch, left, crashed, files,
                    watched, ready, client, told, failed, died, missed, over, stolen>>
    BY <1>7 DEF Started, ExitFlagSet, CloseAllDone, mgr, worker, kernel, ghost
  <2>2. /\ pc' \in {"run", "close", "stop"}
        /\ srv' \in Server
    BY <1>7 DEF TypeOK, Started, ExitFlagSet, CloseAllDone, Server
  <2> QED
    BY <2>1, <2>2 DEF TypeOK
<1>8. CASE CloseListenSocket
    <2>1. UNCHANGED <<srv, fail, slot, sockMap, cmdQ, wpc, hold, batch, left, crashed, client,
                    told, failed, died, missed, over>>
    BY <1>8 DEF CloseListenSocket, mgr, worker
  <2>2. pc' \in {"walk"}
    BY <1>8 DEF TypeOK, CloseListenSocket
  <2>3. cursor' \in 0..NumFds
    BY <1>8, NumbersAssumption DEF TypeOK, CloseListenSocket
  <2>4. /\ files' \in [Fd -> Files \cup {Nil}]
        /\ watched' \in SUBSET Sock
        /\ stolen' \in BOOLEAN
    BY <1>8, CloseType DEF TypeOK, CloseListenSocket
  <2>5. ready' \in [Server -> SUBSET ({"cmd", "exit", "listen"} \cup Sock)]
    <3>1. \A s \in Server : ready'[s] \subseteq ready[s]
      BY <1>8 DEF CloseListenSocket
    <3>2. DOMAIN ready' = Server /\ ready' = [s \in Server |-> ready'[s]]
      BY <1>8 DEF CloseListenSocket
    <3> QED
      BY <3>1, <3>2 DEF TypeOK
  <2> QED
    BY <2>1, <2>2, <2>3, <2>4, <2>5 DEF TypeOK
<1>9. CASE CloseNext
    <2>1. UNCHANGED <<pc, srv, fail, slot, sockMap, wpc, hold, batch, left, crashed, files,
                    watched, client, told, failed, died, missed, stolen>>
    BY <1>9 DEF CloseNext, worker
  <2>2. cursor' \in 0..NumFds
    BY <1>9, NextInMap DEF TypeOK, CloseNext, Fd
  <2>3. /\ cmdQ' \in [Server -> Seq(Fd)]
        /\ over' \in SUBSET Server
        /\ ready' \in [Server -> SUBSET ({"cmd", "exit", "listen"} \cup Sock)]
    BY <1>9, NextInMap, TriggerType DEF TypeOK, CloseNext
  <2> QED
    BY <2>1, <2>2, <2>3 DEF TypeOK
<1>10. CASE StopWorkThread
    <2>1. UNCHANGED <<srv, fail, cursor, slot, sockMap, cmdQ, wpc, hold, batch, left, crashed,
                    files, watched, client, told, failed, died, missed, over, stolen>>
    BY <1>10 DEF StopWorkThread, mgr, worker, ghost
  <2>2. pc' \in {"join", "teardown"}
    BY <1>10 DEF TypeOK, StopWorkThread
  <2>3. ready' \in [Server -> SUBSET ({"cmd", "exit", "listen"} \cup Sock)]
    <3>1. UNCHANGED ready \/ ready' = [ready EXCEPT ![srv] = @ \cup {"exit"}]
      BY <1>10 DEF StopWorkThread, TypeOK
    <3>2. /\ ready \in [Server -> SUBSET ({"cmd", "exit", "listen"} \cup Sock)]
          /\ ready[srv] \cup {"exit"} \in SUBSET ({"cmd", "exit", "listen"} \cup Sock)
      BY DEF TypeOK
    <3> QED
      BY ONLY <3>1, <3>2
  <2> QED
    BY <2>1, <2>2, <2>3 DEF TypeOK
<1>11. CASE Join
    <2>1. UNCHANGED <<srv, fail, cursor, slot, sockMap, cmdQ, hold, batch, left, crashed, files,
                    watched, ready, client, told, failed, died, missed, over, stolen>>
    BY <1>11 DEF Join, mgr, kernel, ghost
  <2>2. pc' \in {"teardown"}
    BY <1>11 DEF TypeOK, Join
  <2>3. wpc' \in [Server -> {"none", "loop", "add", "read", "command", "erase",
                             "ended", "joined"}]
    BY <1>11 DEF TypeOK, Join
  <2> QED
    BY <2>1, <2>2, <2>3 DEF TypeOK
<1>12. CASE Teardown
    <2>1. UNCHANGED <<fail, wpc, hold, batch, left, crashed, ready, client, told, failed, died,
                    missed, over>>
    BY <1>12 DEF Teardown, worker
  <2>2. /\ pc' \in {"walk", "done"}
        /\ srv' \in Server
    BY <1>12 DEF TypeOK, Teardown, Server
  <2>3. cursor' \in 0..NumFds
    BY <1>12, NumbersAssumption DEF TypeOK, Teardown
  <2>4. /\ slot' \in [Server -> [Slot -> 0..NumFds]]
        /\ sockMap' \in [Server -> [Fd -> Sock \cup {Nil}]]
        /\ cmdQ' \in [Server -> Seq(Fd)]
    BY <1>12, EmptiedType DEF TypeOK, Teardown, mgr
  <2>5. /\ files' \in [Fd -> Files \cup {Nil}]
        /\ watched' \in SUBSET Sock
        /\ stolen' \in BOOLEAN
    BY <1>12, CloseType DEF TypeOK, Teardown
  <2> QED
    BY <2>1, <2>2, <2>3, <2>4, <2>5 DEF TypeOK
<1>13. CASE TeardownOfStart
    <2>1. UNCHANGED <<cursor, wpc, hold, batch, left, crashed, ready, client, told, died,
                    missed, over>>
    BY <1>13 DEF TeardownOfStart, worker
  <2>2. /\ pc' \in {"epoll", "add"}
        /\ srv' \in Server
        /\ fail' \in BOOLEAN
        /\ failed' \in SUBSET Server
    BY <1>13 DEF TypeOK, TeardownOfStart, StartFails, AfterStart, Server
  <2>3. /\ slot' \in [Server -> [Slot -> 0..NumFds]]
        /\ sockMap' \in [Server -> [Fd -> Sock \cup {Nil}]]
        /\ cmdQ' \in [Server -> Seq(Fd)]
    BY <1>13, EmptiedType DEF TypeOK, TeardownOfStart
  <2>4. /\ files' \in [Fd -> Files \cup {Nil}]
        /\ watched' \in SUBSET Sock
        /\ stolen' \in BOOLEAN
    BY <1>13, CloseType DEF TypeOK, TeardownOfStart
  <2> QED
    BY <2>1, <2>2, <2>3, <2>4 DEF TypeOK
<1>14. ASSUME NEW c \in Port, AddListenSocket(c) PROVE TypeOK'
    <2>1. UNCHANGED <<pc, srv, fail, cursor, slot, cmdQ, wpc, hold, batch, left, ready, failed,
                    died, over, stolen>>
    BY <1>14 DEF AddListenSocket, main, worker
  <2>2. client' \in [Sock -> {"new", "queued", "open", "ended", "closed", "leaked"}]
    BY <1>14 DEF TypeOK, AddListenSocket, Sock
  <2>3. told' \in [Sock -> {"none", "hi", "bye"}]
    BY <1>14 DEF TypeOK, AddListenSocket, Sock
  <2>4. files' \in [Fd -> Files \cup {Nil}]
    BY <1>14, OpenType DEF TypeOK, AddListenSocket, Sock
  <2>5. sockMap' \in [Server -> [Fd -> Sock \cup {Nil}]]
    <3>1. UNCHANGED sockMap \/ sockMap' = [sockMap EXCEPT !["udp"][Free] = c]
      BY <1>14 DEF AddListenSocket
    <3>2. "udp" \in Server /\ c \in Sock
      BY <1>14 DEF Sock, Server
    <3>3. [sockMap["udp"] EXCEPT ![Free] = c] \in [Fd -> Sock \cup {Nil}]
      BY <3>2 DEF TypeOK
    <3> QED
      BY <3>1, <3>3 DEF TypeOK
  <2>6. watched' \in SUBSET Sock
    <3>1. watched' \in {watched, watched \cup {c}}
      BY <1>14 DEF AddListenSocket
    <3> QED
      BY <1>14, <3>1 DEF TypeOK, Sock
  <2>7. missed' \in SUBSET Sock
    <3>1. missed' \in {missed, missed \cup {c}}
      BY <1>14 DEF AddListenSocket
    <3> QED
      BY <1>14, <3>1 DEF TypeOK, Sock
  <2>8. crashed' \in BOOLEAN
    <3>1. crashed' \in {crashed, FALSE, Erasing("udp")}
      BY <1>14 DEF AddListenSocket
    <3> QED
      BY <3>1 DEF TypeOK, Erasing
  <2> QED
    BY <2>1, <2>2, <2>3, <2>4, <2>5, <2>6, <2>7, <2>8 DEF TypeOK
<1>15. ASSUME NEW c \in Client, ClientConnects(c) PROVE TypeOK'
    <2>1. UNCHANGED <<pc, srv, fail, cursor, slot, sockMap, cmdQ, wpc, hold, batch, left,
                    crashed, files, watched, told, failed, died, missed, over, stolen>>
    BY <1>15 DEF ClientConnects, main, mgr, worker, ghost
  <2>2. /\ client' \in [Sock -> {"new", "queued", "open", "ended", "closed", "leaked"}]
        /\ ready' \in [Server -> SUBSET ({"cmd", "exit", "listen"} \cup Sock)]
    BY <1>15 DEF TypeOK, ClientConnects, Sock
  <2> QED
    BY <2>1, <2>2 DEF TypeOK
<1>16. ASSUME NEW c \in Sock, PeerSends(c) \/ PeerEnds(c) PROVE TypeOK'
    <2>1. UNCHANGED <<pc, srv, fail, cursor, slot, sockMap, cmdQ, wpc, hold, batch, left,
                    crashed, files, watched, told, failed, died, missed, over, stolen>>
    BY <1>16 DEF PeerSends, PeerEnds, main, mgr, worker, ghost
  <2>2. client' \in [Sock -> {"new", "queued", "open", "ended", "closed", "leaked"}]
    <3>1. client' \in {client, [client EXCEPT ![c] = "ended"]}
      BY <1>16 DEF PeerSends, PeerEnds
    <3> QED
      BY <3>1 DEF TypeOK
  <2>3. ready' \in [Server -> SUBSET ({"cmd", "exit", "listen"} \cup Sock)]
    <3>1. ready' \in {ready, [ready EXCEPT ![Home(c)] = @ \cup {c}]}
      BY <1>16 DEF PeerSends, PeerEnds, Arrives
    <3>2. Home(c) \in Server
      BY DEF Home, Server
    <3>3. /\ ready \in [Server -> SUBSET ({"cmd", "exit", "listen"} \cup Sock)]
          /\ ready[Home(c)] \cup {c} \in SUBSET ({"cmd", "exit", "listen"} \cup Sock)
      BY <3>2 DEF TypeOK
    <3> QED
      BY ONLY <3>1, <3>2, <3>3
  <2> QED
    BY <2>1, <2>2, <2>3 DEF TypeOK
<1>17. ASSUME NEW s \in Server, EpollReturns(s) PROVE TypeOK'
    <2>1. UNCHANGED <<pc, srv, fail, cursor, slot, sockMap, cmdQ, wpc, hold, left, crashed,
                    files, watched, client, told, failed, died, missed, over, stolen>>
    BY <1>17 DEF EpollReturns, main, mgr, ghost
  <2>2. /\ batch' \in [Server -> SUBSET ({"cmd", "exit", "listen"} \cup Sock)]
        /\ ready' \in [Server -> SUBSET ({"cmd", "exit", "listen"} \cup Sock)]
    BY <1>17 DEF TypeOK, EpollReturns, Reported
  <2> QED
    BY <2>1, <2>2 DEF TypeOK
<1>18. ASSUME NEW s \in Server, EpollFails(s) PROVE TypeOK'
    <2>1. UNCHANGED <<pc, srv, fail, cursor, slot, sockMap, cmdQ, hold, batch, left, crashed,
                    files, watched, ready, client, told, failed, missed, over, stolen>>
    BY <1>18 DEF EpollFails, main, mgr, kernel
  <2>2. /\ wpc' \in [Server -> {"none", "loop", "add", "read", "command", "erase",
                             "ended", "joined"}]
        /\ died' \in SUBSET Server
    BY <1>18 DEF TypeOK, EpollFails
  <2> QED
    BY <2>1, <2>2 DEF TypeOK
<1>19. ASSUME NEW s \in Server, WorkEnds(s) \/ StartCommands(s) \/ CommandsDone(s) PROVE TypeOK'
    <2>1. UNCHANGED <<pc, srv, fail, cursor, slot, sockMap, cmdQ, hold, crashed, files, watched,
                    ready, client, told, failed, died, missed, over, stolen>>
    BY <1>19 DEF WorkEnds, StartCommands, CommandsDone, main, mgr, kernel, ghost
  <2>2. wpc' \in [Server -> {"none", "loop", "add", "read", "command", "erase",
                             "ended", "joined"}]
    <3>1. \E w \in {"loop", "command", "ended"} : wpc' = [wpc EXCEPT ![s] = w]
      BY <1>19 DEF WorkEnds, StartCommands, CommandsDone
    <3> QED
      BY <3>1 DEF TypeOK
  <2>3. batch' \in [Server -> SUBSET ({"cmd", "exit", "listen"} \cup Sock)]
    <3>1. batch' \in {batch, [batch EXCEPT ![s] = {}], [batch EXCEPT ![s] = batch[s] \ {"cmd"}]}
      BY <1>19 DEF WorkEnds, StartCommands, CommandsDone
    <3>2. /\ batch \in [Server -> SUBSET ({"cmd", "exit", "listen"} \cup Sock)]
          /\ batch[s] \in SUBSET ({"cmd", "exit", "listen"} \cup Sock)
      BY DEF TypeOK
    <3> QED
      BY ONLY <3>1, <3>2
  <2>4. left' \in [Server -> 0..CmdBudget]
    <3>1. \E n \in {0, CmdBudget} : left' \in {left, [left EXCEPT ![s] = n]}
      BY <1>19 DEF WorkEnds, StartCommands, CommandsDone
    <3>2. {0, CmdBudget} \subseteq 0..CmdBudget
      BY NumbersAssumption
    <3> QED
      BY <3>1, <3>2 DEF TypeOK
  <2> QED
    BY <2>1, <2>2, <2>3, <2>4 DEF TypeOK
<1>20. CASE Accept
    <2>1. UNCHANGED <<pc, srv, fail, cursor, slot, sockMap, cmdQ, left, crashed, watched, ready,
                    told, failed, died, missed, over, stolen>>
    BY <1>20 DEF Accept, main, mgr, ghost
  <2>2. batch' \in [Server -> SUBSET ({"cmd", "exit", "listen"} \cup Sock)]
    BY <1>20 DEF TypeOK, Accept
  <2>3. client' \in [Sock -> {"new", "queued", "open", "ended", "closed", "leaked"}]
    <3>1. UNCHANGED client \/ \E c \in Client, r \in {"open", "leaked"} :
                               client' = [client EXCEPT ![c] = r]
      BY <1>20 DEF Accept
    <3> QED
      BY <3>1 DEF TypeOK
  <2>4. files' \in [Fd -> Files \cup {Nil}]
    BY <1>20, OpenType DEF TypeOK, Accept, Sock
  <2>5. /\ hold' \in [Server -> Sock \cup {Nil}]
        /\ wpc' \in [Server -> {"none", "loop", "add", "read", "command", "erase",
                             "ended", "joined"}]
    <3>1. \/ UNCHANGED <<hold, wpc>>
          \/ /\ wpc' = [wpc EXCEPT !["tcp"] = "add"]
             /\ \E c \in Client : hold' = [hold EXCEPT !["tcp"] = c]
      BY <1>20 DEF Accept
    <3> QED
      BY <3>1 DEF TypeOK, Sock, Server
  <2> QED
    BY <2>1, <2>2, <2>3, <2>4, <2>5 DEF TypeOK
<1>21. CASE AddTcpSocket
    <2>1. UNCHANGED <<pc, srv, fail, cursor, slot, cmdQ, batch, left, files, client, failed,
                    died, over, stolen>>
    BY <1>21 DEF AddTcpSocket, main
  <2>2. /\ sockMap' \in [Server -> [Fd -> Sock \cup {Nil}]]
        /\ missed' \in SUBSET Sock
    <3>1. \E f \in Fd : /\ sockMap' = [sockMap EXCEPT !["tcp"][f] = hold["tcp"]]
                     /\ missed' \in {missed, missed \cup {hold["tcp"]}}
                     /\ hold["tcp"] \in Sock
      <4>1. PICK f \in Fd :
              /\ files[f] = SockFile(hold["tcp"]) /\ sockMap["tcp"][f] = Nil
              /\ sockMap' = [sockMap EXCEPT !["tcp"][f] = hold["tcp"]]
              /\ missed' = IF Passed("tcp", f) THEN missed \cup {hold["tcp"]} ELSE missed
              /\ "tcp" \notin failed /\ hold["tcp"] \in Client
              /\ \A s \in Server, g \in Fd : sockMap[s][g] # hold["tcp"]
        BY <1>21, AddsToMap
      <4> QED
        BY <4>1 DEF Sock
    <3> QED
      BY <3>1 DEF TypeOK, Server
  <2>3. watched' \in SUBSET Sock
    BY <1>21, AddsToMap DEF TypeOK, AddTcpSocket, Sock
  <2>4. ready' \in [Server -> SUBSET ({"cmd", "exit", "listen"} \cup Sock)]
    <3>1. hold["tcp"] \in Sock
      BY <1>21, AddsToMap DEF Sock
    <3>2. ready' \in {ready, [ready EXCEPT !["tcp"] = ready["tcp"] \cup {hold["tcp"]}]}
      BY <1>21 DEF AddTcpSocket
    <3>3. /\ ready \in [Server -> SUBSET ({"cmd", "exit", "listen"} \cup Sock)]
          /\ "tcp" \in Server
      BY DEF TypeOK, Server
    <3>4. ready["tcp"] \cup {hold["tcp"]} \in SUBSET ({"cmd", "exit", "listen"} \cup Sock)
      BY <3>1, <3>3
    <3> QED
      BY ONLY <3>2, <3>3, <3>4
  <2>5. told' \in [Sock -> {"none", "hi", "bye"}]
    BY <1>21, AddsToMap DEF TypeOK, AddTcpSocket, Sock
  <2>6. /\ hold' \in [Server -> Sock \cup {Nil}]
        /\ wpc' \in [Server -> {"none", "loop", "add", "read", "command", "erase",
                             "ended", "joined"}]
    BY <1>21 DEF TypeOK, AddTcpSocket
  <2>7. crashed' \in BOOLEAN
    BY <1>21 DEF TypeOK, AddTcpSocket, Walking
  <2> QED
    BY <2>1, <2>2, <2>3, <2>4, <2>5, <2>6, <2>7 DEF TypeOK
<1>22. ASSUME NEW s \in Server, NEW c \in Sock, Reading(s, c) PROVE TypeOK'
    <2>1. UNCHANGED <<pc, srv, fail, cursor, slot, sockMap, left, crashed, files, watched, told,
                    failed, died, missed, stolen>>
    BY <1>22, ReadEffect
  <2>2. batch' \in [Server -> SUBSET ({"cmd", "exit", "listen"} \cup Sock)]
    <3>1. batch' \in {batch, [batch EXCEPT ![s] = batch[s] \ {c}]}
      BY <1>22, ReadEffect
    <3>2. /\ batch \in [Server -> SUBSET ({"cmd", "exit", "listen"} \cup Sock)]
          /\ batch[s] \in SUBSET ({"cmd", "exit", "listen"} \cup Sock)
      BY DEF TypeOK
    <3> QED
      BY ONLY <3>1, <3>2
  <2>3. /\ cmdQ' \in [Server -> Seq(Fd)]
        /\ over' \in SUBSET Server
        /\ ready' \in [Server -> SUBSET ({"cmd", "exit", "listen"} \cup Sock)]
    <3>1. CASE UNCHANGED <<cmdQ, over, ready>>
      BY <3>1 DEF TypeOK
    <3>2. CASE \E f \in Fd : Trigger(s, f)
      BY <3>2, TriggerType
    <3> QED
      BY <1>22, <3>1, <3>2, ReadEffect
  <2>4. client' \in [Sock -> {"new", "queued", "open", "ended", "closed", "leaked"}]
    BY <1>22, ReadEffect
  <2>5. /\ hold' \in [Server -> Sock \cup {Nil}]
        /\ wpc' \in [Server -> {"none", "loop", "add", "read", "command", "erase",
                               "ended", "joined"}]
    BY <1>22, ReadEffect
  <2> QED
    BY <2>1, <2>2, <2>3, <2>4, <2>5 DEF TypeOK
<1>23. ASSUME NEW s \in Server, CommandNotFound(s) PROVE TypeOK'
    <2>1. UNCHANGED <<pc, srv, fail, cursor, slot, sockMap, wpc, hold, batch, crashed, files,
                    watched, ready, client, told, failed, died, missed, over, stolen>>
    BY <1>23 DEF CommandNotFound, main, kernel, ghost
  <2>2. /\ cmdQ' \in [Server -> Seq(Fd)]
        /\ left' \in [Server -> 0..CmdBudget]
    BY <1>23, PopType DEF TypeOK, CommandNotFound, Executing
  <2> QED
    BY <2>1, <2>2 DEF TypeOK
<1>24. ASSUME NEW s \in Server, RemoveClose(s) PROVE TypeOK'
    <2>1. UNCHANGED <<pc, srv, fail, cursor, slot, sockMap, cmdQ, batch, left, crashed, failed,
                    died, missed, over>>
    BY <1>24 DEF RemoveClose, main, mgr
  <2>2. /\ told' \in [Sock -> {"none", "hi", "bye"}]
        /\ client' \in [Sock -> {"new", "queued", "open", "ended", "closed", "leaked"}]
    BY <1>24 DEF TypeOK, RemoveClose, Executing, Named
  <2>3. /\ hold' \in [Server -> Sock \cup {Nil}]
        /\ wpc' \in [Server -> {"none", "loop", "add", "read", "command", "erase",
                             "ended", "joined"}]
    BY <1>24 DEF TypeOK, RemoveClose, Executing, Named
  <2>4. /\ files' \in [Fd -> Files \cup {Nil}]
        /\ watched' \in SUBSET Sock
        /\ stolen' \in BOOLEAN
    BY <1>24, CloseType DEF TypeOK, RemoveClose
  <2>5. ready' \in [Server -> SUBSET ({"cmd", "exit", "listen"} \cup Sock)]
    BY <1>24 DEF TypeOK, RemoveClose
  <2> QED
    BY <2>1, <2>2, <2>3, <2>4, <2>5 DEF TypeOK
<1>25. ASSUME NEW s \in Server, RemoveErase(s) PROVE TypeOK'
    <2>1. UNCHANGED <<pc, srv, fail, cursor, slot, batch, files, watched, ready, client, told,
                    failed, died, missed, over, stolen>>
    BY <1>25 DEF RemoveErase, main, kernel, ghost
  <2>2. /\ cmdQ' \in [Server -> Seq(Fd)]
        /\ left' \in [Server -> 0..CmdBudget]
    BY <1>25, PopType DEF TypeOK, RemoveErase, Erasing, WorkerHeld
  <2>3. sockMap' \in [Server -> [Fd -> Sock \cup {Nil}]]
    BY <1>25 DEF TypeOK, RemoveErase
  <2>4. /\ hold' \in [Server -> Sock \cup {Nil}]
        /\ wpc' \in [Server -> {"none", "loop", "add", "read", "command", "erase",
                             "ended", "joined"}]
    BY <1>25 DEF TypeOK, RemoveErase
  <2>5. crashed' \in BOOLEAN
    BY <1>25 DEF TypeOK, RemoveErase, Walking
  <2> QED
    BY <2>1, <2>2, <2>3, <2>4, <2>5 DEF TypeOK
<1>26. CASE UNCHANGED vars
  BY <1>26 DEF vars, TypeOK
<1> QED
  BY <1>1, <1>2, <1>3, <1>4, <1>5, <1>6, <1>7, <1>8, <1>9, <1>10, <1>11, <1>12, <1>13, <1>14,
     <1>15, <1>16, <1>17, <1>18, <1>19, <1>20, <1>21, <1>22, <1>23, <1>24, <1>25, <1>26, Parts
  DEF MainPart, OtherPart, WorkerStep, NoSuchEpoll, Interrupted, Reading
=============================================================================
