-------------------------- MODULE TcpClientProofs --------------------------
(***************************************************************************)
(* Proofs about TcpClient, second part: the invariant is inductive, which   *)
(* gives what holds however many threads connect; and with ConnectsAlone,   *)
(* what holds when no connect begins while another is under way.            *)
(***************************************************************************)
EXTENDS TcpClientSteps

----------------------------------------------------------------------------
(* Map, heap and descriptors, and the connections being made.               *)

\* What most steps leave alone: the entries, their objects and the removal
\* that is under way,
SameObjects ==
  \A a \in Addr : /\ (obj'[a] = Nil) = (obj[a] = Nil)
                  /\ obj[a] # Nil => obj'[a].fd = obj[a].fd /\ obj'[a].valid = obj[a].valid
SameRemoval ==
  \/ {wpc, wpc'} \cap {"close", "erase"} = {}
  \/ /\ wpc' = wpc /\ wptr' = wptr
     /\ cmdQ # <<>> => Head(cmdQ') = Head(cmdQ)

\* the connections being made,
SameDials ==
  \A t \in App :
    /\ Dials(t)' => Dials(t) /\ dial'[t].fd = dial[t].fd
    /\ pc'[t] # "idle" => pc[t] # "idle" /\ dial'[t].conn = dial[t].conn

\* and the network, but for progress and for an error the worker reads.
NetMoves ==
  \A c \in Conn :
    \/ net'[c] = net[c]
    \/ net[c] \in {"syn", "up", "fin"} /\ net'[c] \in {"up", "fin", "refused"}
    \/ /\ net[c] = "refused" /\ net'[c] = "dead"
       /\ \E a \in Addr : IsValid(a) /\ c = Of(a)

Quiet == UNCHANGED <<sockMap, sock>> /\ SameObjects /\ SameRemoval /\ SameDials /\ NetMoves

\* Handlers are quiet: an error they read is that of a valid object.
LEMMA HandlerQuiet ==
  ASSUME Shape, CommandSend \/ \E e \in batch : ProcessIo(e) PROVE Quiet
<1>1. UNCHANGED <<sockMap, pc, dial, sock>> /\ wpc \in {"loop", "command"}
  BY HandlerStep DEF app
<1>2. PICK q \in {cmdQ, Tail(cmdQ)} :
        \/ cmdQ' = q /\ wpc' = wpc /\ UNCHANGED <<obj, told, ready, net>>
        \/ wpc' = wpc /\ \E a \in Addr : Refuses(a, q)
        \/ \E a \in Addr : /\ Starts(a, q)
                           /\ \/ wpc' = wpc
                              \/ wpc' = "read" /\ wptr' = a
  BY HandlerStep
<1>3. SameRemoval
  BY <1>1, <1>2 DEF SameRemoval
<1>4. SameDials
  BY <1>1 DEF SameDials, Dials
<1>5. SameObjects /\ NetMoves
  <2>1. CASE UNCHANGED <<obj, net>>
    BY <2>1 DEF SameObjects, NetMoves
  <2>2. ASSUME NEW a \in Addr, Refuses(a, q) PROVE SameObjects /\ NetMoves
    BY <2>2 DEF Refuses, SameObjects, NetMoves, Shape, TypeOK
  <2>3. ASSUME NEW a \in Addr, Starts(a, q) PROVE SameObjects /\ NetMoves
    <3>1. PICK o \in SocketObject :
            obj' = [obj EXCEPT ![a] = o] /\ o.fd = obj[a].fd /\ o.valid
      BY <2>3 DEF Starts
    <3>2. obj[a] # Nil /\ obj[a].valid /\ UNCHANGED net
      BY <2>3 DEF Starts, IsValid
    <3> QED
      BY <3>1, <3>2, NilAssumption DEF SameObjects, NetMoves, Shape, TypeOK
  <2> QED
    BY <1>2, <2>1, <2>2, <2>3
<1> QED
  BY <1>1, <1>3, <1>4, <1>5 DEF Quiet

\* The network and the clock are quiet.
LEMMA EnvironmentQuiet == ASSUME Shape, Environment PROVE Quiet
<1>1. ASSUME NEW c \in Conn, Resolve(c) \/ PeerSend(c) \/ PeerClose(c) PROVE Quiet
  BY <1>1
  DEF Resolve, PeerSend, PeerClose, Quiet, SameObjects, SameRemoval, SameDials, NetMoves,
      Dials, Shape, TypeOK, table, app, worker
<1>2. CASE Tick
  <2>1. SameObjects
    BY <1>2, TickEffect DEF SameObjects, Shape
  <2> QED
    BY <1>2, <2>1 DEF Tick, Quiet, SameRemoval, SameDials, NetMoves, Dials, app, worker
<1> QED
  BY <1>1, <1>2 DEF Environment

\* So are the steps of an application thread but for four,
LEMMA AppQuiet ==
  ASSUME Shape, NEW t \in App,
         \/ Connected(t) \/ AddRefused(t) \/ Watch(t) \/ Announce(t)
         \/ \E f \in Fd : AppSend(t, f) \/ AppDisconnect(t, f)
  PROVE  Quiet
<1>1. CASE Connected(t) \/ AddRefused(t) \/ Watch(t) \/ Announce(t)
  <2>1. /\ UNCHANGED <<sockMap, obj, sock, net, wpc, wptr, cmdQ>>
    BY <1>1 DEF Connected, AddRefused, Watch, Announce, table, worker, kernel
  <2>2. SameDials
    BY <1>1
    DEF Connected, AddRefused, Watch, Announce, AfterAdd, SameDials, Dials, Shape, TypeOK
  <2> QED
    BY <2>1, <2>2 DEF Quiet, SameObjects, SameRemoval, NetMoves
<1>2. ASSUME NEW f \in Fd, AppSend(t, f) \/ AppDisconnect(t, f) PROVE Quiet
  <2>1. PICK op \in {"send", "disconnect"} : Trigger(cmdQ, <<Call(op, f)>>)
    BY <1>2 DEF AppSend, AppDisconnect
  <2>2. UNCHANGED <<sockMap, obj, pc, dial, wpc, wptr, sock, net>>
    BY <1>2 DEF AppSend, AppDisconnect, table, app, worker
  <2>3. cmdQ # <<>> => Head(cmdQ') = Head(cmdQ)
    <3>1. cmdQ \in Seq(Command) /\ <<Call(op, f)>> \in Seq(Command)
      BY DEF Call, Command, Shape, TypeOK
    <3> QED
      BY <2>1, <3>1, QueueGrows DEF Trigger
  <2> QED
    BY <2>2, <2>3 DEF Quiet, SameObjects, SameRemoval, SameDials, NetMoves, Dials
<1> QED
  BY <1>1, <1>2

\* and those of the worker but for the three of a removal.
LEMMA WorkerQuiet ==
  ASSUME Shape, WorkerStep, ~RemoveObject, ~RemoveClose, ~RemoveErase PROVE Quiet
<1>1. CASE CommandSend \/ \E e \in batch : ProcessIo(e)
  BY <1>1, HandlerQuiet
<1>2. CASE ReadEof
  <2>1. wptr \in Addr /\ IsValid(wptr) /\ wpc = "read" /\ wpc' = "loop"
    BY <1>2 DEF ReadEof, Shape, TypeOK, WorkerHeld, Freed, IsValid
  <2>2. net' = [net EXCEPT ![Reading] = IF net[Reading] = "refused" THEN "dead" ELSE net[Reading]]
    BY <1>2 DEF ReadEof
  <2>3. NetMoves
    BY <2>1, <2>2 DEF NetMoves, Reading, Shape, TypeOK
  <2> QED
    BY <1>2, <2>1, <2>3
    DEF ReadEof, Quiet, SameObjects, SameRemoval, SameDials, Dials, table, app
<1>3. CASE \/ EpollWait \/ ReadData \/ ReadOver \/ ReadAgain \/ CommandsDone \/ CommandNotFound
           \/ \E e \in batch : ProcessTimer(e) \/ StartCommands(e)
  <2>1. /\ UNCHANGED <<sockMap, obj, pc, dial, sock, net>>
        /\ {wpc, wpc'} \cap {"close", "erase"} = {}
    BY <1>3
    DEF EpollWait, ReadData, ReadOver, ReadAgain, CommandsDone, CommandNotFound, Executing,
        ProcessTimer, StartCommands, table, app, worker, kernel
  <2> QED
    BY <2>1 DEF Quiet, SameObjects, SameRemoval, SameDials, NetMoves, Dials
<1> QED
  BY <1>1, <1>2, <1>3 DEF WorkerStep

\* A quiet step keeps map, heap and descriptors.  A connection being made is
\* never one whose error is read: it has no entry yet, or one being erased.
LEMMA TablesQuiet ==
  ASSUME Shape, Tables, Ownership, Quiet PROVE Tables' /\ Ownership'
<1>1. UNCHANGED <<sockMap, sock>> /\ SameObjects /\ SameRemoval /\ SameDials /\ NetMoves
  BY DEF Quiet
<1>2. \A a \in Addr : Freed(a)' = Freed(a)
  BY <1>1 DEF SameObjects, Freed
<1>3. \A f \in Fd : Closed(f)' = Closed(f)
  BY <1>1 DEF SameObjects, SameRemoval, Closed, Shape, TypeOK, WorkerHeld, Freed
<1>4. (EntryHasObject /\ ObjectInMap)'
  <2>1. EntryHasObject'
    BY <1>1 DEF SameObjects, Tables, EntryHasObject, Freed, Shape, TypeOK
  <2>2. ObjectInMap'
    BY <1>1 DEF SameObjects, Tables, ObjectInMap, Freed
  <2> QED
    BY <2>1, <2>2
<1>5. OneRemoved'
  BY <1>1, <1>2 DEF SameObjects, SameRemoval, Tables, OneRemoved, Freed
<1>6. EntryOpen'
  BY <1>1, <1>3 DEF Tables, EntryOpen
<1>7. RemovalQueued'
  BY <1>1
  DEF SameObjects, SameRemoval, Tables, RemovalQueued, Call, Shape, TypeOK, WorkerHeld, Freed
<1>8. (OneDescriptor /\ OpenIsMade /\ DialIsMade /\ DialApart)'
  <2>1. \A c \in Conn : /\ net'[c] = "new" => net[c] = "new"
                        /\ net'[c] = "closed" => net[c] = "closed"
    BY <1>1 DEF NetMoves
  <2>2. \A t \in App : pc[t] # "idle" => dial[t].conn \in Conn
    BY DEF Shape, TypeOK, DialHeld, Dial
  <2>3. (OneDescriptor /\ OpenIsMade)'
    BY <1>1, <2>1 DEF Ownership, OneDescriptor, OpenIsMade, Shape, TypeOK
  <2>4. (DialIsMade /\ DialApart)'
    BY <1>1, <2>1, <2>2 DEF SameDials, Ownership, DialIsMade, DialApart
  <2> QED
    BY <2>3, <2>4
<1>9. DialOpen'
  <2>1. SUFFICES ASSUME NEW t \in App, Dials(t)'
                 PROVE  /\ sock'[dial'[t].fd] = dial'[t].conn
                        /\ net'[dial'[t].conn] # "dead"
                        /\ (sockMap[dial[t].fd] # Nil => Closed(dial[t].fd))'
    BY DEF DialOpen
  <2>2. /\ Dials(t) /\ pc[t] # "idle" /\ dial'[t].fd = dial[t].fd /\ dial'[t].conn = dial[t].conn
        /\ dial[t].fd \in Fd /\ dial[t].conn \in Conn
    BY <1>1, <2>1 DEF SameDials, Dials, Shape, TypeOK, DialHeld, Dial
  <2>3. /\ sock[dial[t].fd] = dial[t].conn /\ net[dial[t].conn] # "dead"
        /\ sockMap[dial[t].fd] # Nil => Closed(dial[t].fd)
    BY <2>2 DEF Ownership, DialOpen
  <2>4. ASSUME NEW a \in Addr, IsValid(a), dial[t].conn = Of(a) PROVE FALSE
    <3>1. obj[a] \in SocketObject /\ obj[a].fd \in Fd /\ sockMap[obj[a].fd] = a /\ a # Nil
      BY <2>4 DEF IsValid, Shape, TypeOK, SocketObject, Tables, ObjectInMap, Freed
    <3>2. obj[a].fd = dial[t].fd
      BY <2>2, <2>3, <2>4, <3>1, NamesAssumption DEF Of, Ownership, OneDescriptor
    <3>3. Closed(dial[t].fd) /\ wptr \in Addr /\ ~Freed(wptr)
      BY <2>3, <3>1, <3>2 DEF Closed, Shape, TypeOK, WorkerHeld
    <3>4. wptr = a
      BY <3>1, <3>2, <3>3 DEF Closed, Tables, ObjectInMap
    <3> QED
      BY <2>4, <3>3, <3>4 DEF Closed, IsValid, Shape, WorkerHeld
  <2>5. net'[dial[t].conn] # "dead"
    BY <1>1, <2>2, <2>3, <2>4 DEF NetMoves
  <2> QED
    <3>1. (sockMap[dial[t].fd] # Nil => Closed(dial[t].fd))'
      <4>1. Closed(dial[t].fd)' = Closed(dial[t].fd)
        BY <1>3, <2>2 DEF Closed
      <4> QED
        BY <1>1, <2>2, <2>3, <4>1
    <3> QED
      BY <1>1, <2>2, <2>3, <2>5, <3>1
<1> QED
  BY <1>4, <1>5, <1>6, <1>7, <1>8, <1>9 DEF Tables, Ownership

\* Where Quiet fails: a connect begins or fails, an entry is made or removed.
LEMMA NextSteps ==
  ASSUME Shape, [Next]_vars
  PROVE  \/ Quiet
         \/ \E t \in App : \/ ConnectToRemote(t) \/ AsynchConnectTo(t)
                           \/ ConnectFails(t) \/ Insert(t)
         \/ RemoveObject \/ RemoveClose \/ RemoveErase
<1>1. CASE UNCHANGED vars
  BY <1>1 DEF vars, Quiet, SameObjects, SameRemoval, SameDials, NetMoves, Dials
<1>2. CASE Next
  BY <1>2, EnvironmentQuiet, AppQuiet, WorkerQuiet DEF Next, AppCall, AppStep
<1> QED
  BY <1>1, <1>2

\* socket() returns a number no open descriptor has, though an entry with
\* that number may still be there.
LEMMA TablesBegin ==
  ASSUME Shape, Tables, Ownership,
         NEW t \in App, ConnectToRemote(t) \/ AsynchConnectTo(t)
  PROVE  Tables' /\ Ownership'
<1>1. PICK f \in Fd, c \in Conn :
        \/ Begins(t, f, c, "syn") /\ UnderWay(t, f, c, "connect", "syn")
        \/ Begins(t, f, c, "syn") /\ UnderWay(t, f, c, "insert", "syn")
        \/ Begins(t, f, c, "up") /\ UnderWay(t, f, c, "insert", "up")
        \/ Begins(t, f, c, "dead") /\ FailedAtOnce(c)
  BY ConnectEffect
<1>2. UNCHANGED <<sockMap, obj, cmdQ, wpc, wptr>>
  BY ConnectEffect DEF table, worker
<1>3. /\ pc[t] = "idle" /\ sock[f] = Nil /\ net[c] = "new" /\ c # Nil
      /\ sock' = [sock EXCEPT ![f] = c]
  BY <1>1, NamesAssumption DEF Begins
<1>4. PICK state \in {"syn", "up", "dead"} : net' = [net EXCEPT ![c] = state]
  BY <1>1 DEF Begins
<1>5. \A u \in App \ {t} : pc'[u] = pc[u] /\ dial'[u] = dial[u]
  BY <1>1 DEF UnderWay, FailedAtOnce, Shape, TypeOK
<1>6. \/ pc' = pc /\ dial' = dial
      \/ /\ state # "dead" /\ dial'[t].fd = f /\ dial'[t].conn = c
  BY <1>1, <1>4 DEF Begins, UnderWay, FailedAtOnce, Shape, TypeOK
<1>7. \A u \in App : pc[u] # "idle" => dial[u].fd \in Fd /\ dial[u].conn \in Conn
  BY DEF Shape, TypeOK, DialHeld, Dial
<1>8. Tables'
  BY <1>2, <1>3
  DEF Tables, EntryHasObject, ObjectInMap, OneRemoved, EntryOpen, RemovalQueued, Closed,
      Freed, Call, Shape, TypeOK
<1>9. \A u \in App : pc[u] # "idle" => dial[u].conn # c
  BY <1>3 DEF Ownership, DialIsMade
<1>10. (OneDescriptor /\ OpenIsMade)'
  BY <1>3, <1>4 DEF Ownership, OneDescriptor, OpenIsMade, Shape, TypeOK
<1>11. (DialIsMade /\ DialApart)'
  <2>1. ASSUME NEW u \in App, pc'[u] # "idle" PROVE net'[dial'[u].conn] # "new"
    <3>1. CASE pc[u] # "idle" /\ dial'[u] = dial[u]
      BY <1>4, <1>7, <3>1 DEF Ownership, DialIsMade, Shape, TypeOK
    <3>2. CASE dial'[u].conn = c
      BY <1>4, <3>2 DEF Shape, TypeOK
    <3> QED
      BY <1>3, <1>5, <1>6, <2>1, <3>1, <3>2
  <2>2. DialIsMade'
    BY <2>1 DEF DialIsMade
  <2>3. DialApart'
    BY <1>3, <1>5, <1>6, <1>9 DEF Ownership, DialApart
  <2> QED
    BY <2>2, <2>3
<1>12. DialOpen'
  <2>1. ASSUME NEW u \in App, Dials(u)'
        PROVE  /\ sock'[dial'[u].fd] = dial'[u].conn /\ net'[dial'[u].conn] # "dead"
               /\ (sockMap[dial[u].fd] # Nil => Closed(dial[u].fd))'
    <3>1. CASE u # t \/ (pc' = pc /\ dial' = dial)
      <4>1. Dials(u) /\ dial'[u] = dial[u] /\ pc[u] # "idle"
        BY <1>5, <2>1, <3>1 DEF Dials
      <4>2. dial[u].conn # c /\ dial[u].fd # f
        BY <1>3, <1>7, <1>9, <4>1, NamesAssumption DEF Ownership, DialOpen
      <4> QED
        BY <1>2, <1>3, <1>4, <1>7, <4>1, <4>2
        DEF Ownership, DialOpen, Closed, Shape, TypeOK
    <3>2. CASE u = t /\ state # "dead" /\ dial'[t].fd = f /\ dial'[t].conn = c
      <4>1. sockMap[f] # Nil => Closed(f)
        BY <1>3 DEF Tables, EntryOpen
      <4> QED
        BY <1>2, <1>3, <1>4, <3>2, <4>1 DEF Closed, Shape, TypeOK
    <3> QED
      BY <1>6, <3>1, <3>2
  <2> QED
    BY <2>1 DEF DialOpen
<1> QED
  BY <1>8, <1>10, <1>11, <1>12 DEF Ownership

\* close() after a failed connect ends a connection nobody else has.
LEMMA TablesConnectFails ==
  ASSUME Shape, Tables, Ownership, NEW t \in App, ConnectFails(t) PROVE Tables' /\ Ownership'
<1> DEFINE f == dial[t].fd
           c == dial[t].conn
<1>1. /\ pc[t] = "connect" /\ dial[t] \in Dial /\ f \in Fd /\ c \in Conn /\ Dials(t)
  BY DEF ConnectFails, Shape, TypeOK, DialHeld, Dial, Dials
<1>2. sock[f] = c /\ (sockMap[f] # Nil => Closed(f)) /\ c # Nil
  BY <1>1, NamesAssumption DEF Ownership, DialOpen
<1>3. /\ sock' = [sock EXCEPT ![f] = Nil] /\ net' = [net EXCEPT ![c] = "closed"]
      /\ dial' = [dial EXCEPT ![t] = Nil] /\ pc' = [pc EXCEPT ![t] = "idle"]
      /\ UNCHANGED <<sockMap, obj, cmdQ, wpc, wptr>>
  BY <1>1, <1>2 DEF ConnectFails, Close, table, worker
<1>4. \A u \in App : pc[u] # "idle" => dial[u].fd \in Fd /\ dial[u].conn \in Conn
  BY DEF Shape, TypeOK, DialHeld, Dial
<1> HIDE DEF f, c
<1>5. Tables'
  BY <1>1, <1>2, <1>3
  DEF Tables, EntryHasObject, ObjectInMap, OneRemoved, EntryOpen, RemovalQueued, Closed,
      Freed, Call, Shape, TypeOK
<1>6. \A u \in App : pc'[u] # "idle" => /\ u # t /\ pc[u] = pc'[u] /\ dial'[u] = dial[u]
                                        /\ dial[u].conn # c
  BY <1>1, <1>3 DEF Ownership, DialApart, Shape, TypeOK, c
<1>7. (OneDescriptor /\ OpenIsMade)'
  BY <1>1, <1>2, <1>3 DEF Ownership, OneDescriptor, OpenIsMade, Shape, TypeOK
<1>8. (DialIsMade /\ DialApart)'
  <2>1. DialIsMade'
    BY <1>1, <1>3, <1>4, <1>6 DEF Ownership, DialIsMade, Shape, TypeOK
  <2>2. DialApart'
    BY <1>6 DEF Ownership, DialApart
  <2> QED
    BY <2>1, <2>2
<1>9. DialOpen'
  <2>1. ASSUME NEW u \in App, Dials(u)'
        PROVE  /\ sock'[dial'[u].fd] = dial'[u].conn /\ net'[dial'[u].conn] # "dead"
               /\ (sockMap[dial[u].fd] # Nil => Closed(dial[u].fd))'
    <3>1. Dials(u) /\ dial'[u] = dial[u] /\ pc[u] # "idle" /\ dial[u].conn # c
      BY <1>6, <2>1 DEF Dials
    <3>2. dial[u].fd # f
      BY <1>2, <3>1 DEF Ownership, DialOpen
    <3> QED
      BY <1>1, <1>3, <1>4, <3>1, <3>2 DEF Ownership, DialOpen, Closed, Shape, TypeOK
  <2> QED
    BY <2>1 DEF DialOpen
<1> QED
  BY <1>5, <1>7, <1>8, <1>9 DEF Ownership

\* AddSocketObject makes an entry and its object.
LEMMA TablesInsert ==
  ASSUME Shape, Tables, Ownership, NEW t \in App, Insert(t) PROVE Tables' /\ Ownership'
<1>1. dial[t] \in Dial /\ pc[t] = "insert" /\ dial[t].fd \in Fd /\ Dials(t)
  BY DEF Insert, Shape, TypeOK, DialHeld, Dial, Dials
<1> DEFINE f == dial[t].fd
<1>2. PICK a \in Addr, o \in SocketObject :
         /\ o.fd = dial[t].fd /\ o.valid /\ o.up = (via[dial[t].conn] = "app") /\ o # Nil
         /\ obj[a] = Nil /\ obj' = [obj EXCEPT ![a] = o]
         /\ sockMap[dial[t].fd] = Nil /\ sockMap' = [sockMap EXCEPT ![dial[t].fd] = a]
         /\ dial' = [dial EXCEPT ![t] = [dial[t] EXCEPT !.a = a]]
         /\ [dial[t] EXCEPT !.a = a] = [fd |-> dial[t].fd, conn |-> dial[t].conn, a |-> a]
  BY <1>1, InsertEffect DEF Shape
<1>3. pc' = [pc EXCEPT ![t] = "watch"] /\ UNCHANGED <<cmdQ, wpc, wptr, sock, net>>
  BY DEF Insert, worker, kernel
<1>4. sock[f] # Nil /\ a # Nil
  BY <1>1, NamesAssumption DEF Ownership, DialOpen, Dial
<1>5. ASSUME wpc \in {"close", "erase"}
      PROVE  wptr \in Addr /\ wptr # a /\ obj[wptr].fd # f /\ obj'[wptr] = obj[wptr]
  BY <1>1, <1>2, <1>5 DEF Shape, TypeOK, WorkerHeld, Freed, Tables, ObjectInMap
<1>6. \A g \in Fd : Closed(g)' = Closed(g)
  BY <1>3, <1>5 DEF Closed
<1>7. EntryHasObject'
  <2>1. ASSUME NEW g \in Fd, sockMap'[g] # Nil
        PROVE  obj'[sockMap'[g]] # Nil /\ obj'[sockMap'[g]].fd = g
    <3>1. CASE g = f
      BY <1>1, <1>2, <3>1 DEF Shape, TypeOK
    <3>2. CASE g # f
      BY <1>1, <1>2, <2>1, <3>2 DEF Tables, EntryHasObject, Freed, Shape, TypeOK
    <3> QED
      BY <3>1, <3>2
  <2> QED
    BY <2>1 DEF EntryHasObject, Freed
<1>8. ObjectInMap'
  <2>1. ASSUME NEW b \in Addr, obj'[b] # Nil PROVE sockMap'[obj'[b].fd] = b
    <3>1. CASE b = a
      BY <1>1, <1>2, <3>1 DEF Shape, TypeOK
    <3>2. CASE b # a
      <4>1. obj'[b] = obj[b] /\ sockMap[obj[b].fd] = b /\ b # Nil
        BY <1>2, <2>1, <3>2, NamesAssumption DEF Tables, ObjectInMap, Freed, Shape, TypeOK
      <4> QED
        BY <1>1, <1>2, <4>1
    <3> QED
      BY <3>1, <3>2
  <2> QED
    BY <2>1 DEF ObjectInMap, Freed
<1>9. OneRemoved'
  BY <1>1, <1>2, <1>3 DEF Tables, OneRemoved, Freed, Shape, TypeOK
<1>10. EntryOpen'
  BY <1>1, <1>2, <1>3, <1>4, <1>6 DEF Tables, EntryOpen, Shape, TypeOK
<1>11. RemovalQueued'
  BY <1>3, <1>5 DEF Tables, RemovalQueued, Call
<1>12. \A u \in App : /\ pc'[u] # "idle" => pc[u] # "idle"
                      /\ dial'[u].fd = dial[u].fd /\ dial'[u].conn = dial[u].conn
                      /\ Dials(u)' => Dials(u) /\ u # t
  BY <1>1, <1>2, <1>3 DEF Shape, TypeOK, Dials
<1>13. (OneDescriptor /\ OpenIsMade /\ DialIsMade /\ DialApart)'
  BY <1>3, <1>12
  DEF Ownership, OneDescriptor, OpenIsMade, DialIsMade, DialApart
<1>14. DialOpen'
  <2>1. ASSUME NEW u \in App, Dials(u)'
        PROVE  /\ sock'[dial'[u].fd] = dial'[u].conn /\ net'[dial'[u].conn] # "dead"
               /\ (sockMap[dial[u].fd] # Nil => Closed(dial[u].fd))'
    <3>1. Dials(u) /\ u # t /\ dial'[u].fd = dial[u].fd /\ dial'[u].conn = dial[u].conn
      BY <1>12, <2>1
    <3>2. dial[u].fd \in Fd /\ dial[u].conn \in Conn /\ pc[u] # "idle"
      BY <3>1 DEF Shape, TypeOK, DialHeld, Dial, Dials
    <3>3. dial[u].fd # f
      BY <1>1, <3>1, <3>2 DEF Ownership, DialOpen, DialApart
    <3>4. Closed(dial[u].fd)' = Closed(dial[u].fd)
      BY <1>6, <3>1, <3>2 DEF Closed
    <3> QED
      BY <1>1, <1>2, <1>3, <3>1, <3>2, <3>3, <3>4 DEF Ownership, DialOpen, Shape, TypeOK
  <2> QED
    BY <2>1 DEF DialOpen
<1> QED
  BY <1>7, <1>8, <1>9, <1>10, <1>11, <1>13, <1>14 DEF Tables, Ownership

\* RemoveSocketObject takes entry, object and descriptor away in three steps.
LEMMA TablesRemoval ==
  ASSUME Shape, Tables, Ownership, RemoveObject \/ RemoveClose \/ RemoveErase
  PROVE  Tables' /\ Ownership'
<1>0. \A u \in App : pc[u] # "idle" => dial[u].fd \in Fd /\ dial[u].conn \in Conn
  BY DEF Shape, TypeOK, DialHeld, Dial
<1>1. CASE RemoveObject
  <2>1. PICK a \in Addr, o \in SocketObject :
          /\ wpc = "command" /\ wpc' = "close" /\ wptr' = a
          /\ cmdQ # <<>> /\ Head(cmdQ).op = "disconnect" /\ sockMap[Head(cmdQ).fd] = a
          /\ IsValid(a) /\ obj' = [obj EXCEPT ![a] = o] /\ o.fd = obj[a].fd /\ ~o.valid
          /\ UNCHANGED <<sockMap, cmdQ, pc, dial, sock, net>>
    BY <1>1, RemoveEffect DEF Shape, app, kernel
  <2>2. /\ obj[a] # Nil /\ o # Nil /\ obj'[a] = o
        /\ \A b \in Addr \ {a} : obj'[b] = obj[b]
    BY <2>1, NilAssumption DEF IsValid, Shape, TypeOK
  <2>3. (EntryHasObject /\ ObjectInMap)'
    <3>1. EntryHasObject'
      BY <2>1, <2>2 DEF Tables, EntryHasObject, Freed, Shape, TypeOK
    <3>2. ObjectInMap'
      BY <2>1, <2>2 DEF Tables, ObjectInMap, Freed
    <3> QED
      BY <3>1, <3>2
  <2>4. OneRemoved'
    BY <2>1, <2>2 DEF Tables, OneRemoved, Freed
  <2>5. EntryOpen'
    BY <2>1 DEF Tables, EntryOpen, Closed
  <2>6. RemovalQueued'
    <3>1. Head(cmdQ) \in Command
      BY <2>1 DEF Shape, TypeOK
    <3>2. Head(cmdQ).fd \in Fd /\ Head(cmdQ) = Call("disconnect", Head(cmdQ).fd)
      BY <2>1, <3>1 DEF Command, Call
    <3>3. obj[a].fd = Head(cmdQ).fd
      BY <2>1, <3>2 DEF IsValid, Tables, EntryHasObject
    <3> QED
      BY <2>1, <2>2, <3>2, <3>3 DEF RemovalQueued
  <2>7. Ownership'
    BY <2>1
    DEF Ownership, OneDescriptor, OpenIsMade, DialIsMade, DialApart, DialOpen, Dials, Closed
  <2> QED
    BY <2>3, <2>4, <2>5, <2>6, <2>7 DEF Tables
<1>2. CASE RemoveClose
  <2> DEFINE f == obj[wptr].fd
  <2>1. /\ wpc = "close" /\ wptr \in Addr /\ obj[wptr] # Nil /\ f \in Fd
        /\ ~obj[wptr].valid
    BY <1>2 DEF RemoveClose, Shape, TypeOK, WorkerHeld, Freed, SocketObject
  <2>2. /\ sock' = [sock EXCEPT ![f] = Nil] /\ net' = [net EXCEPT ![sock[f]] = "closed"]
        /\ wpc' = "erase" /\ UNCHANGED <<sockMap, obj, cmdQ, pc, dial, wptr>>
    BY <1>2 DEF RemoveClose, Close, table, app
  <2>3. sockMap[f] = wptr /\ wptr # Nil /\ sock[f] # Nil /\ sock[f] \in Conn
    BY <2>1, NamesAssumption
    DEF Tables, ObjectInMap, EntryOpen, Freed, Closed, Shape, TypeOK
  <2> HIDE DEF f
  <2>4. \A g \in Fd : ~Closed(g) /\ Closed(g)' = (g = f)
    BY <2>1, <2>2 DEF Closed, f
  <2>5. (EntryHasObject /\ ObjectInMap /\ RemovalQueued)'
    BY <2>1, <2>2 DEF Tables, EntryHasObject, ObjectInMap, RemovalQueued, Freed, Call
  <2>6. OneRemoved'
    BY <2>1, <2>2 DEF Tables, OneRemoved, Freed
  <2>7. EntryOpen'
    BY <2>1, <2>2, <2>4 DEF Tables, EntryOpen, Shape, TypeOK
  <2>8. \A u \in App : Dials(u) => dial[u].fd # f /\ dial[u].conn # sock[f]
    BY <1>0, <2>1, <2>3, <2>4 DEF Dials, Ownership, DialOpen, OneDescriptor
  <2>9. (OneDescriptor /\ OpenIsMade /\ DialIsMade /\ DialApart)'
    BY <1>0, <2>1, <2>2, <2>3
    DEF Ownership, OneDescriptor, OpenIsMade, DialIsMade, DialApart, Shape, TypeOK
  <2>10. DialOpen'
    BY <1>0, <2>1, <2>2, <2>3, <2>4, <2>8 DEF Ownership, DialOpen, Dials, Shape, TypeOK
  <2> QED
    BY <2>5, <2>6, <2>7, <2>9, <2>10 DEF Tables, Ownership
<1>3. CASE RemoveErase
  <2> DEFINE f == obj[wptr].fd
  <2>1. /\ wpc = "erase" /\ wptr \in Addr /\ obj[wptr] # Nil /\ f \in Fd
        /\ sockMap[f] = wptr
    BY <1>3
    DEF RemoveErase, Shape, TypeOK, WorkerHeld, Freed, SocketObject, Tables, ObjectInMap
  <2>2. /\ sockMap' = [sockMap EXCEPT ![f] = Nil] /\ obj' = [obj EXCEPT ![wptr] = Nil]
        /\ wpc' = "command" /\ UNCHANGED <<pc, dial, sock, net>>
    BY <1>3 DEF RemoveErase, app, kernel
  <2>3. \A g \in Fd : Closed(g) = (g = f) /\ ~Closed(g)'
    BY <2>1, <2>2 DEF Closed
  <2> HIDE DEF f
  <2>4. EntryHasObject'
    BY <2>1, <2>2 DEF Tables, EntryHasObject, Freed, Shape, TypeOK, f
  <2>5. ObjectInMap'
    BY <2>1, <2>2 DEF Tables, ObjectInMap, Freed, Shape, TypeOK, f
  <2>6. OneRemoved'
    BY <2>1, <2>2 DEF Tables, OneRemoved, Freed, Shape, TypeOK
  <2>7. (EntryOpen /\ RemovalQueued)'
    BY <2>1, <2>2, <2>3 DEF Tables, EntryOpen, RemovalQueued, Shape, TypeOK
  <2>8. (OneDescriptor /\ OpenIsMade /\ DialIsMade /\ DialApart)'
    BY <2>2 DEF Ownership, OneDescriptor, OpenIsMade, DialIsMade, DialApart
  <2>9. DialOpen'
    BY <1>0, <2>1, <2>2, <2>3 DEF Ownership, DialOpen, Dials, Shape, TypeOK
  <2> QED
    BY <2>4, <2>5, <2>6, <2>7, <2>8, <2>9 DEF Tables, Ownership
<1> QED
  BY <1>1, <1>2, <1>3

\* Map, heap and descriptors agree after every step.
LEMMA TablesStep ==
  ASSUME Shape, Tables, Ownership, [Next]_vars PROVE Tables' /\ Ownership'
BY NextSteps, TablesQuiet, TablesBegin, TablesConnectFails, TablesInsert, TablesRemoval

----------------------------------------------------------------------------
(* Descriptors the manager knows.                                           *)

\* A valid object has its entry and an open connection, nobody else's.
LEMMA ObjectOpen ==
  ASSUME Shape, Tables, Ownership, NEW a \in Addr, IsValid(a)
  PROVE  /\ obj[a] \in SocketObject /\ obj[a].fd \in Fd /\ sockMap[obj[a].fd] = a
         /\ ~Closed(obj[a].fd) /\ (wpc \in {"close", "erase"} => a # wptr)
         /\ Of(a) \in Conn /\ net[Of(a)] \notin {"new", "closed"}
         /\ \A b \in Addr : IsValid(b) /\ Of(b) = Of(a) => b = a
         /\ \A t \in App : Dials(t) => dial[t].conn # Of(a) /\ dial[t].fd # obj[a].fd
<1>1. obj[a] \in SocketObject /\ obj[a].fd \in Fd /\ sockMap[obj[a].fd] = a /\ a # Nil
  BY DEF IsValid, Shape, TypeOK, SocketObject, Tables, ObjectInMap, Freed
<1>2. /\ ~Closed(obj[a].fd) /\ (wpc \in {"close", "erase"} => a # wptr)
  <2>1. wpc \in {"close", "erase"} => wptr \in Addr /\ ~Freed(wptr) /\ ~obj[wptr].valid
    BY DEF Shape, TypeOK, WorkerHeld
  <2>2. wpc \in {"close", "erase"} => a # wptr
    BY <2>1 DEF IsValid
  <2>3. wpc \in {"close", "erase"} => obj[wptr].fd # obj[a].fd
    BY <1>1, <2>1, <2>2 DEF Tables, ObjectInMap
  <2> QED
    BY <2>2, <2>3 DEF Closed
<1>3. Of(a) \in Conn /\ net[Of(a)] \notin {"new", "closed"}
  <2>1. sock[obj[a].fd] # Nil
    BY <1>1, <1>2 DEF Tables, EntryOpen
  <2> QED
    BY <1>1, <2>1 DEF Of, Ownership, OpenIsMade, Shape, TypeOK
<1>4. ASSUME NEW b \in Addr, IsValid(b), Of(b) = Of(a) PROVE b = a
  <2>1. obj[b].fd \in Fd /\ sockMap[obj[b].fd] = b
    BY <1>4 DEF IsValid, Shape, TypeOK, SocketObject, Tables, ObjectInMap, Freed
  <2>2. obj[b].fd = obj[a].fd
    BY <1>1, <1>3, <1>4, <2>1, NamesAssumption DEF Of, Ownership, OneDescriptor
  <2> QED
    BY <1>1, <2>1, <2>2
<1>5. ASSUME NEW t \in App, Dials(t)
      PROVE  dial[t].conn # Of(a) /\ dial[t].fd # obj[a].fd
  <2>1. dial[t].fd \in Fd
    BY <1>5 DEF Shape, TypeOK, DialHeld, Dial, Dials
  <2>2. /\ sock[dial[t].fd] = dial[t].conn
        /\ sockMap[dial[t].fd] # Nil => Closed(dial[t].fd)
    BY <1>5 DEF Ownership, DialOpen
  <2>3. dial[t].fd # obj[a].fd
    BY <1>1, <1>2, <2>2
  <2> QED
    BY <1>1, <1>3, <2>1, <2>2, <2>3, NamesAssumption DEF Of, Ownership, OneDescriptor
<1> QED
  BY <1>1, <1>2, <1>3, <1>4, <1>5

\* A quiet step leaves a removal where it is.
LEMMA ClosedQuiet ==
  ASSUME Shape, Quiet PROVE \A f \in Fd : Closed(f)' = Closed(f)
BY DEF Quiet, SameObjects, SameRemoval, Closed, Shape, TypeOK, WorkerHeld, Freed

\* A descriptor that stays open stays known: the step that ends a connect has
\* made the entry, or has met one and loses the connection.
LEMMA KnownStep ==
  ASSUME Shape, Tables, Ownership, DescriptorKnown, [Next]_vars PROVE DescriptorKnown'
<1>a. \A t \in App : Dials(t) => dial[t].fd \in Fd /\ dial[t].conn \in Conn
  BY DEF Shape, TypeOK, DialHeld, Dial, Dials
<1>b. \A f \in Fd : Dialing(f) = (\E t \in App : Dials(t) /\ dial[t].fd = f)
  BY DEF Dialing, Dials
<1>1. ASSUME UNCHANGED <<sockMap, sock, pc, dial, lost>>, Quiet PROVE DescriptorKnown'
  BY <1>1, ClosedQuiet DEF DescriptorKnown, Dialing
<1>2. ASSUME NEW t \in App, ConnectToRemote(t) \/ AsynchConnectTo(t) PROVE DescriptorKnown'
  <2>1. PICK f \in Fd, c \in Conn :
          \/ Begins(t, f, c, "syn") /\ UnderWay(t, f, c, "connect", "syn")
          \/ Begins(t, f, c, "syn") /\ UnderWay(t, f, c, "insert", "syn")
          \/ Begins(t, f, c, "up") /\ UnderWay(t, f, c, "insert", "up")
          \/ Begins(t, f, c, "dead") /\ FailedAtOnce(c)
    BY <1>2, ConnectEffect
  <2>2. UNCHANGED <<sockMap, obj, wpc, wptr>>
    BY <1>2, ConnectEffect DEF table, worker
  <2>3. pc[t] = "idle" /\ sock' = [sock EXCEPT ![f] = c]
    BY <2>1 DEF Begins
  <2>4. ASSUME NEW g \in Fd, sock'[g] # Nil
        PROVE  \/ sockMap'[g] # Nil /\ ~Closed(g)'
               \/ Dialing(g)'
               \/ lost'[sock'[g]]
    <3>1. CASE g = f
      <4>1. sock'[g] = c
        BY <2>3, <3>1 DEF Shape, TypeOK
      <4> QED
        BY <2>1, <3>1, <4>1 DEF UnderWay, FailedAtOnce, Dialing, Shape, TypeOK
    <3>2. CASE g # f
      <4>1. sock'[g] = sock[g] /\ sock[g] \in Conn /\ Closed(g)' = Closed(g)
        BY <2>2, <2>3, <2>4, <3>2 DEF Closed, Shape, TypeOK
      <4>2. Dialing(g) => Dialing(g)'
        BY <2>1, <2>3 DEF UnderWay, FailedAtOnce, Dialing, Shape, TypeOK
      <4>3. lost[sock[g]] => lost'[sock[g]]
        BY <2>1, <4>1 DEF UnderWay, FailedAtOnce, Shape, TypeOK
      <4> QED
        BY <2>2, <2>4, <4>1, <4>2, <4>3 DEF DescriptorKnown
    <3> QED
      BY <3>1, <3>2
  <2> QED
    BY <2>4 DEF DescriptorKnown
<1>3. ASSUME NEW t \in App, Connected(t) PROVE DescriptorKnown'
  <2>1. /\ UNCHANGED <<sockMap, obj, wpc, wptr, sock, dial, lost>>
        /\ pc[t] = "connect" /\ pc' = [pc EXCEPT ![t] = "insert"]
    BY <1>3 DEF Connected, table, worker, kernel
  <2> QED
    BY <2>1 DEF DescriptorKnown, Dialing, Closed, Shape, TypeOK
<1>4. ASSUME NEW t \in App, ConnectFails(t) PROVE DescriptorKnown'
  <2>1. /\ UNCHANGED <<sockMap, obj, wpc, wptr, lost>>
        /\ sock' = [sock EXCEPT ![dial[t].fd] = Nil]
        /\ dial' = [dial EXCEPT ![t] = Nil] /\ pc' = [pc EXCEPT ![t] = "idle"]
    BY <1>4 DEF ConnectFails, Close, table, worker, ghost
  <2> QED
    BY <2>1 DEF DescriptorKnown, Dialing, Closed, Shape, TypeOK
<1>5. ASSUME NEW t \in App, AddRefused(t) PROVE DescriptorKnown'
  <2>1. /\ UNCHANGED <<sockMap, obj, wpc, wptr, sock>>
        /\ lost' = [lost EXCEPT ![dial[t].conn] = TRUE] /\ Dials(t)
        /\ \A u \in App \ {t} : pc'[u] = pc[u] /\ dial'[u] = dial[u]
    BY <1>5 DEF AddRefused, AfterAdd, Dials, table, worker, kernel, Shape, TypeOK
  <2>2. sock[dial[t].fd] = dial[t].conn
    BY <2>1 DEF Ownership, DialOpen
  <2>3. ASSUME NEW g \in Fd, sock[g] # Nil, Dialing(g) PROVE Dialing(g)' \/ lost'[sock[g]]
    <3>1. PICK u \in App : pc[u] \in {"connect", "insert"} /\ dial[u].fd = g
      BY <2>3 DEF Dialing
    <3>2. CASE u = t
      BY <1>a, <2>1, <2>2, <3>1, <3>2 DEF Shape, TypeOK
    <3>3. CASE u # t
      BY <2>1, <3>1, <3>3 DEF Dialing
    <3> QED
      BY <3>2, <3>3
  <2>4. \A c \in Conn : lost[c] => lost'[c]
    BY <2>1 DEF Shape, TypeOK
  <2> QED
    BY <2>1, <2>3, <2>4 DEF DescriptorKnown, Closed, Shape, TypeOK
<1>6. ASSUME NEW t \in App, Insert(t) PROVE DescriptorKnown'
  <2>1. dial[t] \in Dial /\ pc[t] = "insert" /\ dial[t].fd \in Fd
    BY <1>6, <1>a DEF Insert, Dials, Shape, TypeOK, DialHeld
  <2> DEFINE f == dial[t].fd
  <2>2. PICK a \in Addr, o \in SocketObject :
           /\ o.fd = dial[t].fd /\ o.valid /\ o.up = (via[dial[t].conn] = "app") /\ o # Nil
           /\ obj[a] = Nil /\ obj' = [obj EXCEPT ![a] = o]
           /\ sockMap[dial[t].fd] = Nil /\ sockMap' = [sockMap EXCEPT ![dial[t].fd] = a]
           /\ dial' = [dial EXCEPT ![t] = [dial[t] EXCEPT !.a = a]]
           /\ [dial[t] EXCEPT !.a = a] = [fd |-> dial[t].fd, conn |-> dial[t].conn, a |-> a]
    BY <1>6, <2>1, InsertEffect DEF Shape
  <2>3. pc' = [pc EXCEPT ![t] = "watch"] /\ UNCHANGED <<wpc, wptr, sock, lost>>
    BY <1>6 DEF Insert, worker, kernel, ghost
  <2>4. a # Nil /\ \A g \in Fd : Closed(g)' = Closed(g)
    BY <2>2, <2>3, NamesAssumption DEF Closed, Shape, TypeOK, WorkerHeld, Freed
  <2>5. ~Closed(f)
    BY <2>1, <2>2 DEF Closed, Shape, TypeOK, WorkerHeld, Tables, ObjectInMap, Freed
  <2>6. ASSUME NEW g \in Fd, g # f, Dialing(g) PROVE Dialing(g)'
    <3>1. PICK u \in App : pc[u] \in {"connect", "insert"} /\ dial[u].fd = g
      BY <2>6 DEF Dialing
    <3>2. u # t /\ pc'[u] = pc[u] /\ dial'[u] = dial[u]
      BY <2>2, <2>3, <2>6, <3>1 DEF Shape, TypeOK
    <3> QED
      BY <3>1, <3>2 DEF Dialing
  <2>7. ASSUME NEW g \in Fd, sock[g] # Nil
        PROVE  \/ sockMap'[g] # Nil /\ ~Closed(g)'
               \/ Dialing(g)'
               \/ lost[sock[g]]
    <3>1. CASE g = f
      BY <2>1, <2>2, <2>4, <2>5, <3>1 DEF Shape, TypeOK
    <3>2. CASE g # f
      BY <2>1, <2>2, <2>4, <2>6, <2>7, <3>2 DEF DescriptorKnown, Shape, TypeOK
    <3> QED
      BY <3>1, <3>2
  <2> QED
    BY <2>3, <2>7 DEF DescriptorKnown
<1>7. ASSUME NEW t \in App, Watch(t) \/ Announce(t) PROVE DescriptorKnown'
  <2>1. /\ UNCHANGED <<sockMap, obj, wpc, wptr, sock, lost>>
        /\ pc[t] \in {"watch", "announce"}
        /\ \A u \in App \ {t} : pc'[u] = pc[u] /\ dial'[u] = dial[u]
    BY <1>7 DEF Watch, Announce, AfterAdd, table, worker, kernel, ghost, Shape, TypeOK
  <2>2. \A g \in Fd : Dialing(g) => Dialing(g)'
    BY <2>1 DEF Dialing
  <2> QED
    BY <2>1, <2>2 DEF DescriptorKnown, Closed
<1>8. CASE RemoveObject \/ RemoveErase
  <2>1. UNCHANGED <<pc, dial, sock, lost>> /\ wpc' \in {"close", "command"}
    BY <1>8 DEF RemoveObject, RemoveErase, app, kernel, ghost
  <2>2. \A g \in Fd : sockMap[g] # Nil /\ ~Closed(g) => sockMap'[g] # Nil
    BY <1>8 DEF RemoveObject, RemoveErase, Closed, Shape, TypeOK
  <2> QED
    BY <2>1, <2>2 DEF DescriptorKnown, Dialing, Closed
<1>9. CASE RemoveClose
  <2>1. /\ wpc = "close" /\ wptr \in Addr /\ obj[wptr].fd \in Fd
        /\ sock' = [sock EXCEPT ![obj[wptr].fd] = Nil]
        /\ wpc' = "erase" /\ UNCHANGED <<sockMap, obj, wptr, pc, dial, lost>>
    BY <1>9
    DEF RemoveClose, Close, Shape, TypeOK, WorkerHeld, Freed, SocketObject, table, app, ghost
  <2> QED
    BY <2>1 DEF DescriptorKnown, Dialing, Closed, Shape, TypeOK
<1>10. CASE Environment \/ UNCHANGED vars
  <2>1. UNCHANGED <<sockMap, sock, pc, dial, lost>>
    BY <1>10 DEF Environment, Resolve, PeerSend, PeerClose, Tick, table, app, ghost, vars
  <2>2. CASE UNCHANGED vars
    BY <2>2 DEF vars, DescriptorKnown, Dialing, Closed
  <2>3. CASE Environment
    BY <1>1, <2>1, <2>3, EnvironmentQuiet
  <2> QED
    BY <1>10, <2>2, <2>3
<1>11. CASE WorkerStep /\ ~RemoveObject /\ ~RemoveClose /\ ~RemoveErase
  <2>1. UNCHANGED <<sockMap, sock, pc, dial, lost>>
    BY <1>11
    DEF WorkerStep, EpollWait, ProcessIo, ProcessTimer, StartCommands, ReadData, ReadOver,
        ReadEof, ReadAgain, CommandsDone, CommandSend, CommandNotFound,
        table, app, kernel, ghost
  <2> QED
    BY <1>1, <1>11, <2>1, WorkerQuiet
<1>12. ASSUME NEW t \in App, NEW f \in Fd, AppSend(t, f) \/ AppDisconnect(t, f)
       PROVE  DescriptorKnown'
  <2>1. UNCHANGED <<sockMap, sock, pc, dial, lost>>
    BY <1>12 DEF AppSend, AppDisconnect, table, app, ghost
  <2> QED
    BY <1>1, <1>12, <2>1, AppQuiet
<1> QED
  BY <1>2, <1>3, <1>4, <1>5, <1>6, <1>7, <1>8, <1>9, <1>10, <1>11, <1>12
  DEF Next, AppCall, AppStep

----------------------------------------------------------------------------
(* What the listener has been told.                                         *)

\* A step that tells nothing and leaves what Callbacks reads alone.
LEMMA CallbacksKept ==
  ASSUME Shape, Callbacks, UNCHANGED <<sock, told, via>>,
         \A a \in Addr : IsValid(a)' =>
           IsValid(a) /\ obj'[a].fd = obj[a].fd /\ obj'[a].up = obj[a].up,
         SameDials,
         \A c \in Conn : /\ net'[c] = "new" => net[c] = "new"
                         /\ net'[c] \in {"new", "syn", "refused", "dead"} => rx'[c] = 0
  PROVE  Callbacks'
<1>1. ToldOfObject'
  BY DEF Callbacks, ToldOfObject, Of
<1>2. ToldOfDial'
  <2>1. \A t \in App : /\ Dials(t)' => Dials(t) /\ dial'[t].conn = dial[t].conn
                       /\ pc'[t] # "idle" => pc[t] # "idle" /\ dial'[t].conn = dial[t].conn
    BY DEF SameDials, Dials
  <2> QED
    BY <2>1 DEF Callbacks, ToldOfDial
<1>3. ToldOnce'
  BY DEF Callbacks, ToldOnce
<1> QED
  BY <1>1, <1>2, <1>3 DEF Callbacks

\* Nothing has been told of a connection that begins.
LEMMA CallbacksBegin ==
  ASSUME Shape, Tables, Ownership, Callbacks,
         NEW t \in App, ConnectToRemote(t) \/ AsynchConnectTo(t)
  PROVE  Callbacks'
<1>1. PICK f \in Fd, c \in Conn :
        \/ Begins(t, f, c, "syn") /\ UnderWay(t, f, c, "connect", "syn")
        \/ Begins(t, f, c, "syn") /\ UnderWay(t, f, c, "insert", "syn")
        \/ Begins(t, f, c, "up") /\ UnderWay(t, f, c, "insert", "up")
        \/ Begins(t, f, c, "dead") /\ FailedAtOnce(c)
  BY ConnectEffect
<1>2. UNCHANGED <<obj, told, rx>>
  BY ConnectEffect DEF table
<1>3. /\ pc[t] = "idle" /\ sock[f] = Nil /\ net[c] = "new"
      /\ sock' = [sock EXCEPT ![f] = c]
  BY <1>1 DEF Begins
<1>4. PICK state \in {"syn", "up", "dead"} : net' = [net EXCEPT ![c] = state]
  BY <1>1 DEF Begins
<1>5. told[c] = [hi |-> 0, bye |-> 0] /\ rx[c] = 0
  BY <1>3 DEF Callbacks, ToldOnce
<1>6. \A d \in Conn : d # c => via'[d] = via[d]
  BY <1>1 DEF UnderWay, FailedAtOnce, Shape, TypeOK
<1>7. \A u \in App : pc[u] # "idle" => dial[u].conn \in Conn /\ dial[u].conn # c
  BY <1>3 DEF Shape, TypeOK, DialHeld, Dial, Ownership, DialIsMade
<1>8. ToldOfObject'
  <2>1. ASSUME NEW a \in Addr, IsValid(a)
        PROVE  Of(a) \in Conn /\ Of(a) # c /\ sock'[obj[a].fd] = Of(a)
    <3>1. Of(a) \in Conn /\ net[Of(a)] \notin {"new", "closed"} /\ obj[a].fd \in Fd
      BY <2>1, ObjectOpen
    <3>2. obj[a].fd # f
      BY <1>3, <3>1, NamesAssumption DEF Of
    <3> QED
      BY <1>3, <3>1, <3>2 DEF Of, Shape, TypeOK
  <2> QED
    BY <1>2, <1>6, <2>1 DEF Callbacks, ToldOfObject, IsValid, Of
<1>9. ToldOfDial'
  <2>1. \A u \in App : \/ pc'[u] = pc[u] /\ dial'[u] = dial[u]
                       \/ dial'[u].conn = c
    BY <1>1 DEF UnderWay, FailedAtOnce, Shape, TypeOK
  <2>2. ASSUME NEW u \in App
        PROVE  /\ Dials(u)' => told'[dial'[u].conn] = [hi |-> 0, bye |-> 0]
               /\ pc'[u] # "idle" /\ via'[dial'[u].conn] = "app" => told'[dial'[u].conn].hi = 0
    BY <1>2, <1>5, <1>6, <1>7, <2>1 DEF Callbacks, ToldOfDial, Dials
  <2> QED
    BY <2>2 DEF ToldOfDial
<1>10. ToldOnce'
  BY <1>2, <1>4, <1>5 DEF Callbacks, ToldOnce, Shape, TypeOK
<1> QED
  BY <1>8, <1>9, <1>10 DEF Callbacks

\* Nothing has been told of a connection a thread is about to give to the
\* manager, or gives up.
LEMMA CallbacksDial ==
  ASSUME Shape, Tables, Ownership, Callbacks, NEW t \in App,
         Connected(t) \/ ConnectFails(t) \/ Insert(t)
  PROVE  Callbacks'
<1>1. /\ Dials(t) /\ pc[t] # "idle" /\ dial[t] \in Dial
      /\ dial[t].fd \in Fd /\ dial[t].conn \in Conn
  <2>1. Dials(t) /\ pc[t] # "idle"
    BY DEF Connected, ConnectFails, Insert, Dials
  <2>2. dial[t] \in Dial
    BY <2>1 DEF Shape, TypeOK, DialHeld
  <2> QED
    BY <2>1, <2>2 DEF Dial
<1> DEFINE f == dial[t].fd
           c == dial[t].conn
<1>2. sock[f] = c /\ c # Nil /\ told[c] = [hi |-> 0, bye |-> 0]
  BY <1>1, NamesAssumption DEF Ownership, DialOpen, Callbacks, ToldOfDial
<1>3. \A a \in Addr : IsValid(a) => Of(a) \in Conn /\ Of(a) # c /\ obj[a].fd # f
  BY <1>1, ObjectOpen
<1>4. \A u \in App : pc[u] # "idle" /\ u # t => dial[u].conn \in Conn /\ dial[u].conn # c
  BY <1>1 DEF Shape, TypeOK, DialHeld, Dial, Ownership, DialApart
<1> HIDE DEF f, c
<1>5. CASE Connected(t)
  <2>1. /\ via' = [via EXCEPT ![c] = "app"] /\ pc' = [pc EXCEPT ![t] = "insert"]
        /\ UNCHANGED <<obj, dial, sock, net, rx, told>>
    BY <1>5 DEF Connected, table, kernel, c
  <2>2. \A d \in Conn : d # c => via'[d] = via[d]
    BY <2>1 DEF Shape, TypeOK
  <2>3. ToldOfObject'
    BY <1>3, <2>1, <2>2 DEF Callbacks, ToldOfObject, IsValid, Of
  <2>4. ToldOfDial'
    <3>1. ASSUME NEW u \in App
          PROVE  /\ Dials(u)' => told[dial[u].conn] = [hi |-> 0, bye |-> 0]
                 /\ pc'[u] # "idle" /\ via'[dial[u].conn] = "app" => told[dial[u].conn].hi = 0
      <4>1. CASE u = t
        BY <1>2, <4>1 DEF c
      <4>2. CASE u # t
        BY <1>4, <2>1, <2>2, <4>2 DEF Callbacks, ToldOfDial, Dials, Shape, TypeOK
      <4> QED
        BY <4>1, <4>2
    <3> QED
      BY <2>1, <3>1 DEF ToldOfDial
  <2>5. ToldOnce'
    BY <2>1 DEF Callbacks, ToldOnce
  <2> QED
    BY <2>3, <2>4, <2>5 DEF Callbacks
<1>6. CASE ConnectFails(t)
  <2>1. /\ sock' = [sock EXCEPT ![f] = Nil]
        /\ net' = [net EXCEPT ![c] = "closed"] /\ rx' = [rx EXCEPT ![c] = 0]
        /\ dial' = [dial EXCEPT ![t] = Nil] /\ pc' = [pc EXCEPT ![t] = "idle"]
        /\ UNCHANGED <<obj, told, via>>
    BY <1>2, <1>6 DEF ConnectFails, Close, table, ghost, f, c
  <2>2. \A a \in Addr : IsValid(a) => sock'[obj[a].fd] = Of(a)
    BY <1>3, <2>1 DEF Of, Shape, TypeOK
  <2>3. ToldOfObject'
    BY <2>1, <2>2 DEF Callbacks, ToldOfObject, IsValid, Of
  <2>4. ToldOfDial'
    BY <2>1 DEF Callbacks, ToldOfDial, Dials, Shape, TypeOK
  <2>5. ToldOnce'
    BY <1>1, <2>1 DEF Callbacks, ToldOnce, Shape, TypeOK, c
  <2> QED
    BY <2>3, <2>4, <2>5 DEF Callbacks
<1>7. CASE Insert(t)
  <2>1. PICK a \in Addr, o \in SocketObject :
           /\ o.fd = dial[t].fd /\ o.valid /\ o.up = (via[dial[t].conn] = "app") /\ o # Nil
           /\ obj[a] = Nil /\ obj' = [obj EXCEPT ![a] = o]
           /\ sockMap[dial[t].fd] = Nil /\ sockMap' = [sockMap EXCEPT ![dial[t].fd] = a]
           /\ dial' = [dial EXCEPT ![t] = [dial[t] EXCEPT !.a = a]]
           /\ [dial[t] EXCEPT !.a = a] = [fd |-> dial[t].fd, conn |-> dial[t].conn, a |-> a]
    BY <1>1, <1>7, InsertEffect DEF Shape
  <2>2. pc' = [pc EXCEPT ![t] = "watch"] /\ UNCHANGED <<sock, net, rx, told, via>>
    BY <1>7 DEF Insert, kernel, ghost
  <2>3. ToldOfObject'
    <3>1. ASSUME NEW b \in Addr, IsValid(b)'
          PROVE  /\ told[sock[obj'[b].fd]].bye = 0
                 /\ via[sock[obj'[b].fd]] = "worker" =>
                      told[sock[obj'[b].fd]].hi = IF obj'[b].up THEN 1 ELSE 0
                 /\ via[sock[obj'[b].fd]] = "app" => obj'[b].up
      <4>1. CASE b = a
        <5>1. obj'[b] = o /\ sock[obj'[b].fd] = c
          BY <1>2, <2>1, <4>1 DEF Shape, TypeOK, f
        <5>2. o.up => via[c] = "app"
          BY <2>1 DEF c
        <5>3. via[c] = "app" => o.up
          BY <2>1 DEF c
        <5> QED
          BY <1>2, <5>1, <5>2, <5>3
      <4>2. CASE b # a
        BY <2>1, <3>1, <4>2 DEF Callbacks, ToldOfObject, IsValid, Of, Shape, TypeOK
      <4> QED
        BY <4>1, <4>2
    <3> QED
      BY <2>2, <3>1 DEF ToldOfObject, Of
  <2>4. ToldOfDial'
    <3>1. \A u \in App : /\ pc'[u] # "idle" => pc[u] # "idle"
                         /\ dial'[u].conn = dial[u].conn /\ (Dials(u)' => Dials(u))
      BY <1>1, <2>1, <2>2 DEF Dials, Shape, TypeOK
    <3> QED
      BY <2>2, <3>1 DEF Callbacks, ToldOfDial
  <2>5. ToldOnce'
    BY <2>2 DEF Callbacks, ToldOnce
  <2> QED
    BY <2>3, <2>4, <2>5 DEF Callbacks
<1> QED
  BY <1>5, <1>6, <1>7

\* The thread that made a connection announces it once.
LEMMA CallbacksAnnounce ==
  ASSUME Shape, Tables, Ownership, Callbacks, NEW t \in App, Announce(t) PROVE Callbacks'
<1> DEFINE c == dial[t].conn
<1>1. pc[t] = "announce" /\ c \in Conn /\ via[c] = "app"
  BY DEF Announce, Shape, TypeOK, DialHeld, Dial
<1>2. /\ Hear(c, "hi") /\ pc' = [pc EXCEPT ![t] = "idle"] /\ dial' = [dial EXCEPT ![t] = Nil]
      /\ UNCHANGED <<obj, sock, net, rx, via>>
  BY DEF Announce, table, kernel
<1>3. told[c].hi = 0 /\ net[c] # "new"
  BY <1>1 DEF Callbacks, ToldOfDial, Ownership, DialIsMade
<1>4. \A u \in App : pc[u] # "idle" /\ u # t => dial[u].conn \in Conn /\ dial[u].conn # c
  BY <1>1 DEF Shape, TypeOK, DialHeld, Dial, Ownership, DialApart
<1> HIDE DEF c
<1>5. /\ \A d \in Conn \ {c} : told'[d] = told[d]
      /\ told'[c].hi = 1 /\ told'[c].bye = told[c].bye
  <2>1. told'[c]["hi"] = Min2(told[c]["hi"] + 1, 2) /\ told'[c]["bye"] = told[c]["bye"]
    BY <1>1, <1>2, HearEffect DEF Shape
  <2>2. told'[c].hi = 1
    BY <1>3, <2>1 DEF Min2
  <2> QED
    BY <1>1, <1>2, <2>1, <2>2, HearEffect DEF Shape
<1>6. ToldOfObject'
  <2>1. \A a \in Addr : IsValid(a) => Of(a) \in Conn
    BY ObjectOpen
  <2> QED
    BY <1>1, <1>2, <1>5, <2>1 DEF Callbacks, ToldOfObject, IsValid, Of
<1>7. ToldOfDial'
  <2>1. ASSUME NEW u \in App, pc'[u] # "idle"
        PROVE  /\ Dials(u)' => told'[dial'[u].conn] = [hi |-> 0, bye |-> 0]
               /\ via[dial'[u].conn] = "app" => told'[dial'[u].conn].hi = 0
    <3>1. u # t /\ pc'[u] = pc[u] /\ dial'[u] = dial[u]
      BY <1>2, <2>1 DEF Shape, TypeOK
    <3>2. told'[dial[u].conn] = told[dial[u].conn]
      BY <1>4, <1>5, <2>1, <3>1
    <3> QED
      BY <2>1, <3>1, <3>2 DEF Callbacks, ToldOfDial, Dials
  <2> QED
    BY <1>2, <2>1 DEF ToldOfDial, Dials
<1>8. ToldOnce'
  BY <1>1, <1>2, <1>3, <1>5 DEF Callbacks, ToldOnce
<1> QED
  BY <1>6, <1>7, <1>8 DEF Callbacks

\* A handler announces the connection of an object that is not connected, once.
LEMMA CallbacksHandler ==
  ASSUME Shape, Tables, Ownership, Callbacks, CommandSend \/ \E e \in batch : ProcessIo(e)
  PROVE  Callbacks'
<1>1. UNCHANGED <<pc, dial, sock, rx, via>>
  BY HandlerStep DEF app
<1>2. PICK q \in {cmdQ, Tail(cmdQ)} :
        \/ UNCHANGED <<obj, told, ready, net>>
        \/ \E a \in Addr : Refuses(a, q)
        \/ \E a \in Addr : Starts(a, q)
  BY HandlerStep
<1>3. SameDials
  BY <1>1 DEF SameDials, Dials
<1>4. CASE UNCHANGED <<obj, told, net>>
  BY <1>1, <1>3, <1>4, CallbacksKept DEF IsValid, Callbacks, ToldOnce
<1>5. ASSUME NEW a \in Addr, Refuses(a, q) PROVE Callbacks'
  <2>1. /\ net[Of(a)] = "refused" /\ net' = [net EXCEPT ![Of(a)] = "dead"]
        /\ UNCHANGED <<obj, told>>
    BY <1>5 DEF Refuses
  <2>2. \A c \in Conn : /\ net'[c] = "new" => net[c] = "new"
                        /\ net'[c] \in {"new", "syn", "refused", "dead"} => rx'[c] = 0
    BY <1>1, <2>1 DEF Callbacks, ToldOnce, Shape, TypeOK
  <2> QED
    BY <1>1, <1>3, <2>1, <2>2, CallbacksKept DEF IsValid
<1>6. ASSUME NEW a \in Addr, Starts(a, q) PROVE Callbacks'
  <2>1. IsValid(a) /\ UNCHANGED net
    BY <1>6 DEF Starts
  <2> DEFINE c == Of(a)
  <2>2. /\ c \in Conn /\ net[c] # "new" /\ obj[a] \in SocketObject
        /\ \A b \in Addr : IsValid(b) => Of(b) \in Conn /\ (Of(b) = c => b = a)
        /\ \A t \in App : Dials(t) => dial[t].conn # c
    BY <2>1, ObjectOpen
  <2>3. PICK o \in SocketObject :
          obj' = [obj EXCEPT ![a] = o] /\ o.fd = obj[a].fd /\ o.valid /\ o.up
    BY <1>6 DEF Starts
  <2>4. /\ obj'[a].fd = obj[a].fd /\ obj'[a].up /\ IsValid(a)'
        /\ \A b \in Addr \ {a} : obj'[b] = obj[b]
    BY <2>1, <2>3, NilAssumption DEF IsValid, Shape, TypeOK
  <2> HIDE DEF c
  <2>5. CASE obj[a].up /\ UNCHANGED told
    <3>1. \A b \in Addr : IsValid(b)' =>
            IsValid(b) /\ obj'[b].fd = obj[b].fd /\ obj'[b].up = obj[b].up
      BY <2>1, <2>2, <2>4, <2>5 DEF IsValid, SocketObject
    <3> QED
      BY <1>1, <1>3, <2>1, <2>5, <3>1, CallbacksKept DEF Callbacks, ToldOnce
  <2>6. CASE ~obj[a].up /\ Hear(c, "hi")
    <3>1. told[c].bye = 0 /\ via[c] = "worker" /\ told[c].hi = 0
      BY <2>1, <2>2, <2>6 DEF Callbacks, ToldOfObject, Shape, TypeOK, c
    <3>2. /\ told'[c].hi = 1 /\ told'[c].bye = told[c].bye
          /\ \A d \in Conn \ {c} : told'[d] = told[d]
      <4>1. told'[c]["hi"] = Min2(told[c]["hi"] + 1, 2) /\ told'[c]["bye"] = told[c]["bye"]
        BY <2>2, <2>6, HearEffect DEF Shape
      <4>2. told'[c].hi = 1
        BY <3>1, <4>1 DEF Min2
      <4> QED
        BY <2>2, <2>6, <4>1, <4>2, HearEffect DEF Shape
    <3>3. ToldOfObject'
      <4>1. ASSUME NEW b \in Addr, IsValid(b)'
            PROVE  /\ told'[sock[obj'[b].fd]].bye = 0
                   /\ via[sock[obj'[b].fd]] = "worker" =>
                        told'[sock[obj'[b].fd]].hi = IF obj'[b].up THEN 1 ELSE 0
                   /\ via[sock[obj'[b].fd]] = "app" => obj'[b].up
        <5>1. CASE b = a
          BY <2>4, <3>1, <3>2, <5>1 DEF Of, c
        <5>2. CASE b # a
          <6>1. IsValid(b) /\ obj'[b] = obj[b]
            BY <2>4, <4>1, <5>2 DEF IsValid
          <6>2. told'[Of(b)] = told[Of(b)]
            BY <2>2, <3>2, <5>2, <6>1
          <6> QED
            BY <6>1, <6>2 DEF Callbacks, ToldOfObject, Of
        <5> QED
          BY <5>1, <5>2
      <4> QED
        BY <1>1, <4>1 DEF ToldOfObject, Of
    <3>4. ToldOfDial'
      <4>1. \A t \in App : pc[t] # "idle" => dial[t].conn \in Conn
        BY DEF Shape, TypeOK, DialHeld, Dial
      <4>2. ASSUME NEW t \in App, pc[t] # "idle"
            PROVE  /\ Dials(t) => told'[dial[t].conn] = [hi |-> 0, bye |-> 0]
                   /\ via[dial[t].conn] = "app" => told'[dial[t].conn].hi = 0
        BY <2>2, <3>1, <3>2, <4>1, <4>2 DEF Callbacks, ToldOfDial
      <4> QED
        BY <1>1, <4>2 DEF ToldOfDial, Dials
    <3>5. ToldOnce'
      BY <1>1, <2>1, <2>2, <3>1, <3>2 DEF Callbacks, ToldOnce
    <3> QED
      BY <3>3, <3>4, <3>5 DEF Callbacks
  <2> QED
    BY <1>6, <2>5, <2>6 DEF Starts, c
<1> QED
  BY <1>2, <1>4, <1>5, <1>6

\* RemoveSocketObject tells the end of a connection once, of a valid object.
LEMMA CallbacksRemoval ==
  ASSUME Shape, Tables, Ownership, Callbacks, RemoveObject \/ RemoveClose \/ RemoveErase
  PROVE  Callbacks'
<1>1. CASE RemoveObject
  <2>1. PICK a \in Addr, o \in SocketObject :
          /\ IsValid(a) /\ Hear(Of(a), "bye")
          /\ obj' = [obj EXCEPT ![a] = o] /\ ~o.valid
          /\ UNCHANGED <<pc, dial, sock, net, rx, via>>
    BY <1>1, RemoveEffect DEF Shape, app, kernel
  <2> DEFINE c == Of(a)
  <2>2. /\ c \in Conn /\ net[c] # "new"
        /\ \A b \in Addr : IsValid(b) => Of(b) \in Conn /\ (Of(b) = c => b = a)
        /\ \A t \in App : Dials(t) => dial[t].conn # c
    BY <2>1, ObjectOpen
  <2>3. told[c].bye = 0
    BY <2>1 DEF Callbacks, ToldOfObject
  <2>4. Hear(c, "bye")
    BY <2>1
  <2> HIDE DEF c
  <2>5. /\ told'[c].bye = 1 /\ told'[c].hi = told[c].hi
        /\ \A d \in Conn \ {c} : told'[d] = told[d]
    <3>1. told'[c]["bye"] = Min2(told[c]["bye"] + 1, 2) /\ told'[c]["hi"] = told[c]["hi"]
      BY <2>2, <2>4, HearEffect DEF Shape
    <3>2. told'[c].bye = 1
      BY <2>3, <3>1 DEF Min2
    <3> QED
      BY <2>2, <2>4, <3>1, <3>2, HearEffect DEF Shape
  <2>6. ToldOfObject'
    <3>1. ASSUME NEW b \in Addr, IsValid(b)' PROVE IsValid(b) /\ b # a /\ obj'[b] = obj[b]
      BY <2>1, <3>1 DEF IsValid, Shape, TypeOK
    <3>2. ASSUME NEW b \in Addr, IsValid(b)' PROVE told'[Of(b)] = told[Of(b)]
      BY <2>2, <2>5, <3>1, <3>2
    <3> QED
      BY <2>1, <3>1, <3>2 DEF Callbacks, ToldOfObject, Of
  <2>7. ToldOfDial'
    <3>1. \A t \in App : pc[t] # "idle" => dial[t].conn \in Conn
      BY DEF Shape, TypeOK, DialHeld, Dial
    <3>2. ASSUME NEW t \in App, pc[t] # "idle"
          PROVE  /\ Dials(t) => told'[dial[t].conn] = [hi |-> 0, bye |-> 0]
                 /\ via[dial[t].conn] = "app" => told'[dial[t].conn].hi = 0
      BY <2>2, <2>5, <3>1, <3>2 DEF Callbacks, ToldOfDial
    <3> QED
      BY <2>1, <3>2 DEF ToldOfDial, Dials
  <2>8. ToldOnce'
    BY <2>1, <2>2, <2>3, <2>5 DEF Callbacks, ToldOnce
  <2> QED
    BY <2>6, <2>7, <2>8 DEF Callbacks
<1>2. CASE RemoveClose
  <2> DEFINE f == obj[wptr].fd
  <2>1. wptr \in Addr /\ f \in Fd /\ wpc = "close"
    BY <1>2 DEF RemoveClose, Shape, TypeOK, WorkerHeld, Freed, SocketObject
  <2>2. /\ sock' = [sock EXCEPT ![f] = Nil] /\ net' = [net EXCEPT ![sock[f]] = "closed"]
        /\ rx' = [rx EXCEPT ![sock[f]] = 0] /\ UNCHANGED <<obj, pc, dial, told, via>>
    BY <1>2 DEF RemoveClose, Close, table, app, ghost
  <2>3. \A b \in Addr : IsValid(b) => sock'[obj[b].fd] = Of(b)
    <3>1. sockMap[f] = wptr
      BY <2>1 DEF Shape, WorkerHeld, Tables, ObjectInMap, Freed
    <3>2. \A b \in Addr : IsValid(b) =>
            b # wptr /\ obj[b].fd \in Fd /\ sockMap[obj[b].fd] = b
      BY <2>1, ObjectOpen
    <3> QED
      BY <2>1, <2>2, <3>1, <3>2 DEF Of, Shape, TypeOK
  <2> HIDE DEF f
  <2>4. ToldOfObject'
    BY <2>2, <2>3 DEF Callbacks, ToldOfObject, IsValid, Of
  <2>5. ToldOfDial'
    BY <2>2 DEF Callbacks, ToldOfDial, Dials
  <2>6. ToldOnce'
    BY <2>1, <2>2 DEF Callbacks, ToldOnce, Shape, TypeOK
  <2> QED
    BY <2>4, <2>5, <2>6 DEF Callbacks
<1>3. CASE RemoveErase
  <2>1. obj' = [obj EXCEPT ![wptr] = Nil] /\ UNCHANGED <<pc, dial, sock, net, rx, told, via>>
    BY <1>3 DEF RemoveErase, app, kernel, ghost
  <2>2. SameDials
    BY <2>1 DEF SameDials, Dials
  <2> QED
    BY <2>1, <2>2, CallbacksKept DEF IsValid, Callbacks, ToldOnce, Shape, TypeOK
<1> QED
  BY <1>1, <1>2, <1>3

\* What has been told of a connection agrees with its object after every step.
LEMMA CallbacksStep ==
  ASSUME Shape, Tables, Ownership, Callbacks, [Next]_vars PROVE Callbacks'
<1>1. ASSUME Quiet, UNCHANGED <<obj, told, via>>,
             \A c \in Conn : net'[c] \in {"new", "syn", "refused", "dead"} => rx'[c] = 0
      PROVE  Callbacks'
  <2>1. \A c \in Conn : net'[c] = "new" => net[c] = "new"
    BY <1>1 DEF Quiet, NetMoves
  <2> QED
    BY <1>1, <2>1, CallbacksKept DEF Quiet, IsValid
<1>2. \A c \in Conn : net[c] \in {"new", "syn", "refused", "dead"} => rx[c] = 0
  BY DEF Callbacks, ToldOnce
<1>3. CASE Environment
  <2>1. ASSUME NEW c \in Conn, Resolve(c) \/ PeerSend(c) \/ PeerClose(c) PROVE Callbacks'
    <3>1. Quiet
      BY <1>3, EnvironmentQuiet
    <3>2. UNCHANGED <<obj, told, via>>
      BY <2>1 DEF Resolve, PeerSend, PeerClose, table, ghost
    <3>3. \A d \in Conn : net'[d] \in {"new", "syn", "refused", "dead"} => rx'[d] = 0
      BY <1>2, <2>1 DEF Resolve, PeerSend, PeerClose, Shape, TypeOK
    <3> QED
      BY <1>1, <3>1, <3>2, <3>3
  <2>2. CASE Tick
    <3>1. \A a \in Addr : IsValid(a)' =>
            IsValid(a) /\ obj'[a].fd = obj[a].fd /\ obj'[a].up = obj[a].up
      BY <2>2, TickEffect DEF Shape, IsValid
    <3>2. UNCHANGED <<sock, told, via, net, rx>> /\ SameDials
      BY <2>2 DEF Tick, SameDials, Dials, app, ghost
    <3> QED
      BY <1>2, <3>1, <3>2, CallbacksKept
  <2> QED
    BY <1>3, <2>1, <2>2 DEF Environment
<1>4. ASSUME NEW t \in App,
             \/ AddRefused(t) \/ Watch(t)
             \/ \E f \in Fd : AppSend(t, f) \/ AppDisconnect(t, f)
      PROVE  Callbacks'
  <2>1. Quiet
    BY <1>4, AppQuiet
  <2>2. UNCHANGED <<obj, told, via, net, rx>>
    BY <1>4 DEF AddRefused, Watch, AppSend, AppDisconnect, table, kernel, ghost
  <2> QED
    BY <1>1, <1>2, <2>1, <2>2
<1>5. CASE \/ EpollWait \/ ReadData \/ ReadOver \/ ReadEof \/ ReadAgain
           \/ CommandsDone \/ CommandNotFound
           \/ \E e \in batch : ProcessTimer(e) \/ StartCommands(e)
  <2>1. Quiet
    BY <1>5, WorkerQuiet
    DEF WorkerStep, EpollWait, ReadData, ReadOver, ReadEof, ReadAgain, CommandsDone,
        CommandNotFound, Executing, ProcessTimer, StartCommands, RemoveObject, RemoveClose,
        RemoveErase
  <2>2. UNCHANGED <<obj, told, via>>
    BY <1>5
    DEF EpollWait, ReadData, ReadOver, ReadEof, ReadAgain, CommandsDone, CommandNotFound,
        ProcessTimer, StartCommands, table, ghost
  <2>3. \A c \in Conn : net'[c] \in {"new", "syn", "refused", "dead"} => rx'[c] = 0
    <3>1. CASE ReadData \/ ReadOver
      BY <1>2, <3>1 DEF ReadData, ReadOver, Shape, TypeOK
    <3>2. CASE ReadEof
      BY <1>2, <3>2 DEF ReadEof, Shape, TypeOK
    <3>3. CASE UNCHANGED <<net, rx>>
      BY <1>2, <3>3
    <3> QED
      BY <1>5, <3>1, <3>2, <3>3
      DEF EpollWait, ReadAgain, CommandsDone, CommandNotFound, ProcessTimer, StartCommands,
          kernel
  <2> QED
    BY <1>1, <2>1, <2>2, <2>3
<1>6. CASE UNCHANGED vars
  BY <1>6
  DEF vars, Callbacks, ToldOfObject, ToldOfDial, ToldOnce, IsValid, Of, Dials
<1> QED
  BY <1>3, <1>4, <1>5, <1>6, CallbacksBegin, CallbacksDial, CallbacksAnnounce,
     CallbacksHandler, CallbacksRemoval
  DEF Next, WorkerStep, AppCall, AppStep

----------------------------------------------------------------------------
(* Queued disconnects and errors.                                           *)

\* The queue grows, or loses its head and grows: a SEND that has been
\* executed, a disconnect that found nothing, or one that has been executed.
LEMMA QueueEffect ==
  ASSUME Shape, [Next]_vars
  PROVE  \E calls \in Seq(Command) :
           \/ cmdQ' = cmdQ \o calls
           \/ /\ cmdQ # <<>> /\ cmdQ' = Tail(cmdQ) \o calls
              /\ \/ Head(cmdQ).op = "send"
                 \/ CommandNotFound
                 \/ RemoveErase
<1> USE NamesAssumption, NumbersAssumption
<1>1. cmdQ \in Seq(Command) /\ <<>> \in Seq(Command)
  BY DEF Shape, TypeOK
<1>2. \A q \in Seq(Command) : q \o <<>> = q
  OBVIOUS
<1>3. \A op \in {"send", "disconnect"}, f \in Fd : <<Call(op, f)>> \in Seq(Command)
  BY DEF Call, Command
<1>4. CASE cmdQ' = cmdQ
  BY <1>1, <1>2, <1>4
<1>5. ASSUME NEW t \in App, NEW f \in Fd, AppSend(t, f) \/ AppDisconnect(t, f)
      PROVE  \E calls \in Seq(Command) : cmdQ' = cmdQ \o calls
  BY <1>3, <1>5 DEF AppSend, AppDisconnect, Trigger
<1>6. ASSUME NEW e \in batch, ProcessTimer(e)
      PROVE  \E calls \in Seq(Command) : cmdQ' = cmdQ \o calls
  <2>1. CASE UNCHANGED cmdQ
    BY <1>1, <1>2, <2>1
  <2>2. ASSUME NEW s \in SetToSeqs(Silent),
               Trigger(cmdQ, [i \in DOMAIN s |-> Call("disconnect", s[i])])
        PROVE  \E calls \in Seq(Command) : cmdQ' = cmdQ \o calls
    <3> DEFINE calls == [i \in DOMAIN s |-> Call("disconnect", s[i])]
    <3>1. calls \in Seq(Command)
      BY SweepCalls
    <3>2. cmdQ' = cmdQ \o calls
      BY <2>2 DEF Trigger
    <3> HIDE DEF calls
    <3> QED
      BY <3>1, <3>2
  <2> QED
    BY <1>6, <2>1, <2>2 DEF ProcessTimer
<1>7. CASE ReadEof
  <2>1. obj[wptr].fd \in Fd
    BY <1>7 DEF ReadEof, Shape, TypeOK, WorkerHeld, Freed, SocketObject
  <2> QED
    BY <1>3, <1>7, <2>1 DEF ReadEof, Trigger
<1>8. CASE CommandSend \/ \E e \in batch : ProcessIo(e)
  <2>1. PICK q \in {cmdQ, Tail(cmdQ)} :
          /\ q = cmdQ \/ (cmdQ # <<>> /\ Head(cmdQ).op = "send" /\ q = Tail(cmdQ))
          /\ cmdQ' = q \/ (\E a \in Addr : Refuses(a, q)) \/ (\E a \in Addr : Starts(a, q))
    BY <1>8, HandlerStep
  <2>2. q \in Seq(Command)
    BY <1>1, <2>1
  <2>3. \E calls \in Seq(Command) : cmdQ' = q \o calls
    <3>1. CASE cmdQ' = q
      BY <1>1, <1>2, <2>2, <3>1
    <3>2. ASSUME NEW a \in Addr, Refuses(a, q)
          PROVE  \E calls \in Seq(Command) : cmdQ' = q \o calls
      <4>1. obj[a].fd \in Fd
        BY <3>2 DEF Refuses, IsValid, Shape, TypeOK, SocketObject
      <4> QED
        BY <1>3, <3>2, <4>1 DEF Refuses
    <3> QED
      BY <2>1, <3>1, <3>2 DEF Starts
  <2> QED
    BY <2>1, <2>3
<1>9. CASE CommandNotFound \/ RemoveErase
  <2>1. cmdQ # <<>> /\ cmdQ' = Tail(cmdQ)
    BY <1>9 DEF CommandNotFound, RemoveErase, Executing, Shape, WorkerHeld
  <2>2. Tail(cmdQ) = Tail(cmdQ) \o <<>>
    BY <1>1, <1>2, <2>1
  <2> QED
    BY <1>1, <1>9, <2>1, <2>2
<1>10. CASE Environment \/ UNCHANGED vars
  BY <1>4, <1>10 DEF Environment, Resolve, PeerSend, PeerClose, Tick, vars
<1>11. CASE WorkerStep
  BY <1>4, <1>6, <1>7, <1>8, <1>9, <1>11
  DEF WorkerStep, EpollWait, StartCommands, ReadData, ReadOver, ReadAgain, CommandsDone,
      RemoveObject, RemoveClose
<1>12. ASSUME NEW t \in App, AppStep(t) \/ ConnectToRemote(t) \/ AsynchConnectTo(t)
       PROVE  cmdQ' = cmdQ
  BY <1>12
  DEF AppStep, ConnectToRemote, AsynchConnectTo, Connected, ConnectFails, AddRefused, Insert,
      Watch, Announce
<1> QED
  BY <1>4, <1>5, <1>10, <1>11, <1>12 DEF Next, AppCall

\* The disconnect of a descriptor stays queued while its entry is there.
LEMMA DoomedKept ==
  ASSUME Shape, Tables, [Next]_vars, NEW f \in Fd,
         Doomed(f), sockMap[f] # Nil, ~Closed(f)
  PROVE  Doomed(f)'
<1>1. PICK calls \in Seq(Command) :
        \/ cmdQ' = cmdQ \o calls
        \/ /\ cmdQ # <<>> /\ cmdQ' = Tail(cmdQ) \o calls
           /\ \/ Head(cmdQ).op = "send"
              \/ CommandNotFound
              \/ RemoveErase
  BY QueueEffect
<1>2. cmdQ \in Seq(Command)
  BY DEF Shape, TypeOK
<1>3. CASE cmdQ' = cmdQ \o calls
  BY <1>2, <1>3, DoomedGrows
<1>4. CASE cmdQ # <<>> /\ cmdQ' = Tail(cmdQ) \o calls
  <2>1. CASE Head(cmdQ).op = "send"
    <3>1. Head(cmdQ) # Call("disconnect", f)
      BY <2>1 DEF Call
    <3> QED
      BY <1>2, <1>4, <3>1, DoomedStays
  <2>2. CASE CommandNotFound
    <3>1. wpc = "command" /\ ~IsValid(sockMap[Head(cmdQ).fd])
      BY <2>2 DEF CommandNotFound, Executing
    <3>2. sockMap[f] \in Addr /\ IsValid(sockMap[f])
      BY <3>1 DEF Shape, TypeOK, Tables, EntryHasObject, OneRemoved, IsValid, Freed
    <3>3. Head(cmdQ) # Call("disconnect", f)
      BY <3>1, <3>2 DEF Call
    <3> QED
      BY <1>2, <1>4, <3>3, DoomedStays
  <2>3. CASE RemoveErase
    <3>1. wpc = "erase" /\ Head(cmdQ) = Call("disconnect", obj[wptr].fd)
      BY <2>3 DEF RemoveErase, Tables, RemovalQueued
    <3>2. Head(cmdQ) # Call("disconnect", f)
      BY <3>1 DEF Closed, Call
    <3> QED
      BY <1>2, <1>4, <3>2, DoomedStays
  <2> QED
    BY <1>1, <1>4, <2>1, <2>2, <2>3, <1>3
<1> QED
  BY <1>1, <1>3, <1>4

\* What epoll reports is not connecting.
LEMMA NotEarlyStep ==
  ASSUME Shape, Tables, Ownership, NotEarly, [Next]_vars PROVE NotEarly'
<1>a. \A f \in Fd : f \in ready => sock[f] \in Conn /\ net[sock[f]] # "new"
  BY DEF Shape, TypeOK, ReadyWatched, Ownership, OpenIsMade
<1>b. \A e \in batch : e.conn # Nil => e.conn \in Conn
  BY DEF Shape, TypeOK, Event
<1>1. ASSUME UNCHANGED sock,
             \A c \in Conn : net'[c] \in {"new", "syn"} => net[c] = net'[c],
             \A f \in Fd : f \in ready' => f \in ready \/ (sock[f] # Nil /\ net'[sock[f]] # "syn"),
             batch' \subseteq batch
      PROVE  NotEarly'
  BY <1>a, <1>b, <1>1 DEF NotEarly
<1>2. ASSUME NEW c \in Conn, Resolve(c) \/ PeerSend(c) \/ PeerClose(c) PROVE NotEarly'
  <2>1. UNCHANGED <<sock, batch>>
    BY <1>2 DEF Resolve, PeerSend, PeerClose, worker
  <2>2. \A d \in Conn : net'[d] \in {"new", "syn"} => net[d] = net'[d]
    BY <1>2 DEF Resolve, PeerSend, PeerClose, Shape, TypeOK
  <2>3. net'[c] # "syn" /\ ready' = ready \cup Watching(c)
    BY <1>2 DEF Resolve, PeerSend, PeerClose, Shape, TypeOK
  <2>4. \A f \in Fd : f \in ready' => f \in ready \/ (sock[f] # Nil /\ net'[sock[f]] # "syn")
    BY <2>3, NamesAssumption DEF Watching
  <2> QED
    BY <1>1, <2>1, <2>2, <2>4
<1>3. ASSUME UNCHANGED <<sock, net>>, batch' \subseteq batch,
             \A f \in Fd : f \in ready' => f \in ready
      PROVE  NotEarly'
  BY <1>1, <1>3
<1>4. ASSUME Tick \/ ReadData \/ ReadOver \/ ReadAgain \/ CommandsDone \/ CommandNotFound
             \/ RemoveObject \/ RemoveErase
             \/ (\E e \in batch : StartCommands(e) \/ ProcessTimer(e))
             \/ (\E t \in App : \/ Connected(t) \/ AddRefused(t) \/ Insert(t) \/ Announce(t)
                                \/ \E f \in Fd : AppSend(t, f) \/ AppDisconnect(t, f))
             \/ UNCHANGED vars
      PROVE  NotEarly'
  <2>1. UNCHANGED <<sock, net>> /\ batch' \subseteq batch
    BY <1>4
    DEF Tick, ReadData, ReadOver, ReadAgain, CommandsDone, CommandNotFound, RemoveObject,
        RemoveErase, StartCommands, ProcessTimer, Connected, AddRefused, Insert, Announce,
        AppSend, AppDisconnect, vars, worker, kernel
  <2>2. ready' \subseteq ready \cup {CmdEvt, TimerEvt}
    BY <1>4
    DEF Tick, ReadData, ReadOver, ReadAgain, CommandsDone, CommandNotFound, RemoveObject,
        RemoveErase, StartCommands, ProcessTimer, Connected, AddRefused, Insert, Announce,
        AppSend, AppDisconnect, Trigger, vars, kernel
  <2> QED
    BY <1>3, <2>1, <2>2, NamesAssumption
<1>5. ASSUME NEW t \in App, ConnectToRemote(t) \/ AsynchConnectTo(t) PROVE NotEarly'
  <2>1. PICK f \in Fd, c \in Conn :
          \/ Begins(t, f, c, "syn") /\ UnderWay(t, f, c, "connect", "syn")
          \/ Begins(t, f, c, "syn") /\ UnderWay(t, f, c, "insert", "syn")
          \/ Begins(t, f, c, "up") /\ UnderWay(t, f, c, "insert", "up")
          \/ Begins(t, f, c, "dead") /\ FailedAtOnce(c)
    BY <1>5, ConnectEffect
  <2>2. UNCHANGED <<ready, batch>>
    BY <1>5, ConnectEffect DEF worker
  <2>3. sock[f] = Nil /\ net[c] = "new" /\ sock' = [sock EXCEPT ![f] = c]
    BY <2>1 DEF Begins
  <2>4. \A d \in Conn : d # c => net'[d] = net[d]
    BY <2>1 DEF Begins, Shape, TypeOK
  <2>5. ASSUME NEW g \in Fd, g \in ready PROVE net'[sock'[g]] # "syn"
    <3>1. sock[g] \in Conn /\ sock[g] # c /\ g # f
      BY <1>a, <2>3, <2>5, NamesAssumption
    <3> QED
      BY <2>3, <2>4, <2>5, <3>1 DEF NotEarly, Shape, TypeOK
  <2>6. ASSUME NEW e \in batch, e.conn # Nil PROVE net'[e.conn] \notin {"new", "syn"}
    BY <1>b, <2>3, <2>4, <2>6 DEF NotEarly
  <2> QED
    BY <2>2, <2>5, <2>6 DEF NotEarly
<1>6. ASSUME Close(obj[wptr].fd) \/ \E t \in App : Close(dial[t].fd), UNCHANGED batch
      PROVE  NotEarly'
  <2>1. PICK f : Close(f)
    BY <1>6
  <2>2. /\ sock' = [sock EXCEPT ![f] = Nil] /\ ready' = ready \ {f}
        /\ net' = [net EXCEPT ![sock[f]] = "closed"]
    BY <2>1 DEF Close
  <2> QED
    BY <1>a, <1>b, <1>6, <2>2 DEF NotEarly, Shape, TypeOK
<1>7. ASSUME NEW t \in App, Watch(t) PROVE NotEarly'
  <2>1. UNCHANGED <<sock, net, batch>>
    BY <1>7 DEF Watch, worker
  <2>2. \A f \in Fd : f \in ready' => f \in ready \/ (sock[f] # Nil /\ net'[sock[f]] # "syn")
    BY <1>7, <2>1 DEF Watch, Registers
  <2> QED
    BY <1>1, <2>1, <2>2
<1>8. CASE EpollWait
  <2>1. batch' = {Report(s) : s \in ready} /\ ready' = {} /\ UNCHANGED <<sock, net>>
    BY <1>8 DEF EpollWait
  <2>2. ASSUME NEW s \in ready
        PROVE  Report(s).conn # Nil => net[Report(s).conn] \notin {"new", "syn"}
    BY <1>a, <2>2 DEF Report, NotEarly
  <2> QED
    BY <2>1, <2>2 DEF NotEarly
<1>9. CASE ReadEof
  <2>1. /\ UNCHANGED <<sock, batch>> /\ ready' = ready \cup {CmdEvt}
        /\ \A d \in Conn : net'[d] \in {"new", "syn"} => net[d] = net'[d]
    BY <1>9 DEF ReadEof, Trigger, Shape, TypeOK
  <2> QED
    BY <1>1, <2>1, NamesAssumption
<1>10. CASE CommandSend \/ \E e \in batch : ProcessIo(e)
  <2>1. UNCHANGED sock /\ batch' \subseteq batch
    BY <1>10, HandlerStep
  <2>2. PICK q \in {cmdQ, Tail(cmdQ)} :
          UNCHANGED <<ready, net>> \/ \E a \in Addr : Refuses(a, q)
    BY <1>10, HandlerStep DEF Starts
  <2>3. \A d \in Conn : net'[d] \in {"new", "syn"} => net[d] = net'[d]
    BY <2>2 DEF Refuses, Shape, TypeOK
  <2>4. ready' \subseteq ready \cup {CmdEvt}
    BY <2>2 DEF Refuses
  <2> QED
    BY <1>1, <2>1, <2>3, <2>4, NamesAssumption
<1>11. ASSUME NEW t \in App, ConnectFails(t) PROVE NotEarly'
  BY <1>6, <1>11 DEF ConnectFails, worker
<1>12. CASE RemoveClose
  BY <1>6, <1>12 DEF RemoveClose
<1> QED
  BY <1>2, <1>4, <1>5, <1>7, <1>8, <1>9, <1>10, <1>11, <1>12
  DEF Next, Environment, WorkerStep, AppCall, AppStep


\* An error the worker has read has its disconnect queued.
LEMMA ErrorsQueuedStep ==
  ASSUME Shape, Tables, Ownership, ErrorsQueued, [Next]_vars PROVE ErrorsQueued'
<1>1. ASSUME NEW a \in Addr, IsValid(a), ~obj[a].up, net[Of(a)] = "dead"
      PROVE  Doomed(obj[a].fd) /\ \A f \in Fd : f = obj[a].fd => Doomed(f)'
  <2>1. obj[a].fd \in Fd /\ sockMap[obj[a].fd] = a /\ a # Nil /\ ~Closed(obj[a].fd)
    BY <1>1, ObjectOpen DEF IsValid
  <2>2. Doomed(obj[a].fd)
    BY <1>1 DEF ErrorsQueued
  <2> QED
    BY <2>1, <2>2, DoomedKept
\* The objects stay the same, and no error is read without a disconnect.
<1>2. ASSUME \A a \in Addr : IsValid(a)' =>
               /\ IsValid(a) /\ obj'[a].fd = obj[a].fd /\ (obj[a].up => obj'[a].up)
               /\ sock'[obj[a].fd] = Of(a),
             \A a \in Addr :
               IsValid(a) /\ ~obj[a].up /\ net[Of(a)] # "dead" /\ net'[Of(a)] = "dead" =>
                 \A f \in Fd : f = obj[a].fd => Doomed(f)'
      PROVE  ErrorsQueued'
  <2>1. ASSUME NEW a \in Addr, IsValid(a)', ~obj'[a].up, net'[sock'[obj'[a].fd]] = "dead"
        PROVE  \A f \in Fd : f = obj'[a].fd => Doomed(f)'
    BY <1>1, <1>2, <2>1
  <2>2. ASSUME NEW a \in Addr, IsValid(a)' PROVE obj'[a].fd \in Fd
    BY <1>2, <2>2, ObjectOpen
  <2> QED
    BY <2>1, <2>2 DEF ErrorsQueued, Of, Doomed
<1>3. ASSUME Quiet, \A a \in Addr : obj[a] # Nil /\ obj[a].up => obj'[a].up,
             \A c \in Conn : net'[c] = "dead" => net[c] = "dead"
      PROVE  ErrorsQueued'
  <2>1. \A a \in Addr : IsValid(a)' =>
          /\ IsValid(a) /\ obj'[a].fd = obj[a].fd /\ (obj[a].up => obj'[a].up)
          /\ sock'[obj[a].fd] = Of(a)
    BY <1>3 DEF Quiet, SameObjects, IsValid, Of
  <2>2. \A a \in Addr : IsValid(a) /\ net'[Of(a)] = "dead" => net[Of(a)] = "dead"
    BY <1>3, ObjectOpen
  <2> QED
    BY <1>2, <2>1, <2>2
<1>4. ASSUME UNCHANGED sock, \A c \in Conn : net'[c] = "dead" => net[c] = "dead",
             \A a \in Addr : IsValid(a)' => IsValid(a) /\ obj'[a] = obj[a]
      PROVE  ErrorsQueued'
  <2>1. \A a \in Addr : IsValid(a) /\ net'[Of(a)] = "dead" => net[Of(a)] = "dead"
    BY <1>4, ObjectOpen
  <2> QED
    BY <1>2, <1>4, <2>1 DEF Of
<1>5. ASSUME NEW t \in App, ConnectToRemote(t) \/ AsynchConnectTo(t) PROVE ErrorsQueued'
  <2>1. PICK f \in Fd, c \in Conn :
          \/ Begins(t, f, c, "syn") /\ UnderWay(t, f, c, "connect", "syn")
          \/ Begins(t, f, c, "syn") /\ UnderWay(t, f, c, "insert", "syn")
          \/ Begins(t, f, c, "up") /\ UnderWay(t, f, c, "insert", "up")
          \/ Begins(t, f, c, "dead") /\ FailedAtOnce(c)
    BY <1>5, ConnectEffect
  <2>2. UNCHANGED obj
    BY <1>5, ConnectEffect DEF table
  <2>3. sock[f] = Nil /\ net[c] = "new" /\ sock' = [sock EXCEPT ![f] = c]
    BY <2>1 DEF Begins
  <2>4. \A d \in Conn : d # c => net'[d] = net[d]
    BY <2>1 DEF Begins, Shape, TypeOK
  <2>5. ASSUME NEW a \in Addr, IsValid(a)
        PROVE  sock'[obj[a].fd] = Of(a) /\ net'[Of(a)] = net[Of(a)]
    <3>1. Of(a) \in Conn /\ net[Of(a)] # "new" /\ obj[a].fd \in Fd
      BY <2>5, ObjectOpen
    <3>2. obj[a].fd # f /\ Of(a) # c
      BY <2>3, <3>1, NamesAssumption DEF Of
    <3> QED
      BY <2>3, <2>4, <3>1, <3>2 DEF Of, Shape, TypeOK
  <2> QED
    BY <1>2, <2>2, <2>5 DEF IsValid
\* A descriptor without a valid object is closed.
<1>6. ASSUME NEW f \in Fd, Close(f), UNCHANGED obj,
             \A a \in Addr : IsValid(a) => obj[a].fd # f
      PROVE  ErrorsQueued'
  <2>1. /\ sock' = [sock EXCEPT ![f] = Nil] /\ net' = [net EXCEPT ![sock[f]] = "closed"]
    BY <1>6 DEF Close
  <2>2. ASSUME NEW a \in Addr, IsValid(a)
        PROVE  sock'[obj[a].fd] = Of(a) /\ (net'[Of(a)] = "dead" => net[Of(a)] = "dead")
    <3>1. Of(a) \in Conn /\ obj[a].fd \in Fd
      BY <2>2, ObjectOpen
    <3> QED
      BY <1>6, <2>1, <2>2, <3>1 DEF Of, Shape, TypeOK
  <2> QED
    BY <1>2, <1>6, <2>2 DEF IsValid
<1>7. ASSUME NEW t \in App, ConnectFails(t) PROVE ErrorsQueued'
  <2>1. Dials(t) /\ dial[t].fd \in Fd /\ Close(dial[t].fd) /\ UNCHANGED obj
    BY <1>7 DEF ConnectFails, Dials, Shape, TypeOK, DialHeld, Dial, table
  <2>2. \A a \in Addr : IsValid(a) => obj[a].fd # dial[t].fd
    BY <2>1, ObjectOpen
  <2> QED
    BY <1>6, <2>1, <2>2
<1>8. CASE RemoveClose
  <2>1. /\ obj[wptr].fd \in Fd /\ Close(obj[wptr].fd) /\ UNCHANGED obj
        /\ wpc = "close" /\ wptr \in Addr /\ ~Freed(wptr)
    BY <1>8 DEF RemoveClose, Shape, TypeOK, WorkerHeld, Freed, SocketObject, table
  <2>2. \A a \in Addr : IsValid(a) => obj[a].fd # obj[wptr].fd
    BY <2>1, ObjectOpen DEF Tables, ObjectInMap
  <2> QED
    BY <1>6, <2>1, <2>2
<1>9. ASSUME NEW t \in App, Insert(t) PROVE ErrorsQueued'
  <2>1. dial[t] \in Dial /\ Dials(t) /\ dial[t].fd \in Fd
    BY <1>9 DEF Insert, Dials, Shape, TypeOK, DialHeld, Dial
  <2>2. PICK a \in Addr, o \in SocketObject :
           /\ o.fd = dial[t].fd /\ o.valid /\ o.up = (via[dial[t].conn] = "app") /\ o # Nil
           /\ obj[a] = Nil /\ obj' = [obj EXCEPT ![a] = o]
           /\ sockMap[dial[t].fd] = Nil /\ sockMap' = [sockMap EXCEPT ![dial[t].fd] = a]
           /\ dial' = [dial EXCEPT ![t] = [dial[t] EXCEPT !.a = a]]
           /\ [dial[t] EXCEPT !.a = a] = [fd |-> dial[t].fd, conn |-> dial[t].conn, a |-> a]
    BY <1>9, <2>1, InsertEffect DEF Shape
  <2>3. UNCHANGED <<sock, net, cmdQ>>
    BY <1>9 DEF Insert, kernel
  <2>4. net[sock[o.fd]] # "dead" /\ obj'[a] = o
    <3>1. sock[dial[t].fd] = dial[t].conn /\ net[dial[t].conn] # "dead"
      BY <2>1 DEF Ownership, DialOpen
    <3>2. obj'[a] = o
      BY <2>2 DEF Shape, TypeOK
    <3> QED
      BY <2>2, <3>1, <3>2
  <2>5. \A b \in Addr \ {a} : obj'[b] = obj[b]
    BY <2>2 DEF Shape, TypeOK
  <2> QED
    BY <2>3, <2>4, <2>5 DEF ErrorsQueued, IsValid, Of, Doomed
<1>10. CASE ReadEof
  <2>1. /\ wptr \in Addr /\ IsValid(wptr) /\ obj[wptr].up
        /\ UNCHANGED <<obj, sock>>
    BY <1>10 DEF ReadEof, Shape, TypeOK, WorkerHeld, Freed, IsValid, table
  <2>2. \A c \in Conn : net'[c] = "dead" => net[c] = "dead" \/ c = Of(wptr)
    BY <1>10 DEF ReadEof, Reading, Shape, TypeOK
  <2>3. \A a \in Addr : IsValid(a) /\ ~obj[a].up => Of(a) \in Conn /\ Of(a) # Of(wptr)
    BY <2>1, ObjectOpen
  <2>4. \A a \in Addr : IsValid(a) /\ ~obj[a].up /\ net'[Of(a)] = "dead" => net[Of(a)] = "dead"
    BY <2>2, <2>3
  <2> QED
    BY <1>2, <2>1, <2>4 DEF IsValid, Of
<1>11. CASE CommandSend \/ \E e \in batch : ProcessIo(e)
  <2>1. Quiet
    BY <1>11, HandlerQuiet
  <2>2. PICK q \in {cmdQ, Tail(cmdQ)} :
          /\ q = cmdQ \/ (cmdQ # <<>> /\ Head(cmdQ).op = "send" /\ q = Tail(cmdQ))
          /\ \/ UNCHANGED <<obj, net>>
             \/ \E a \in Addr : Refuses(a, q)
             \/ \E a \in Addr : Starts(a, q)
    BY <1>11, HandlerStep
  <2>3. CASE UNCHANGED <<obj, net>>
    BY <1>3, <2>1, <2>3
  <2>4. ASSUME NEW b \in Addr, Starts(b, q) PROVE ErrorsQueued'
    <3>1. \A a \in Addr : obj[a] # Nil /\ obj[a].up => obj'[a].up
      BY <2>4 DEF Starts, Shape, TypeOK
    <3> QED
      BY <1>3, <2>1, <2>4, <3>1 DEF Starts
  <2>5. ASSUME NEW b \in Addr, Refuses(b, q) PROVE ErrorsQueued'
    <3>1. /\ IsValid(b) /\ net' = [net EXCEPT ![Of(b)] = "dead"] /\ UNCHANGED obj
          /\ cmdQ' = q \o <<Call("disconnect", obj[b].fd)>>
      BY <2>5 DEF Refuses
    <3>2. q \in Seq(Command)
      <4>1. cmdQ \in Seq(Command)
        BY DEF Shape, TypeOK
      <4> QED
        BY <2>2, <4>1
    <3>3. \A f \in Fd : f = obj[b].fd => Doomed(f)'
      BY <3>1, <3>2, DoomedLast
    <3>4. ASSUME NEW a \in Addr, IsValid(a), net[Of(a)] # "dead", net'[Of(a)] = "dead"
          PROVE  a = b
      BY <3>1, <3>4, ObjectOpen DEF Shape, TypeOK
    <3>5. \A a \in Addr : IsValid(a)' => IsValid(a) /\ sock'[obj[a].fd] = Of(a)
      BY <2>1, <3>1 DEF Quiet, IsValid, Of
    <3> QED
      BY <1>2, <3>1, <3>3, <3>4, <3>5
  <2> QED
    BY <2>2, <2>3, <2>4, <2>5
<1>12. ASSUME NEW t \in App,
              \/ Connected(t) \/ AddRefused(t) \/ Watch(t) \/ Announce(t)
              \/ \E f \in Fd : AppSend(t, f) \/ AppDisconnect(t, f)
       PROVE  ErrorsQueued'
  <2>1. UNCHANGED <<obj, net>>
    BY <1>12
    DEF Connected, AddRefused, Watch, Announce, AppSend, AppDisconnect, table, kernel
  <2> QED
    BY <1>3, <1>12, <2>1, AppQuiet
<1>13. CASE Environment
  <2>1. \A a \in Addr : obj[a] # Nil /\ obj[a].up => obj'[a].up
    BY <1>13, TickEffect DEF Environment, Resolve, PeerSend, PeerClose, table, Shape
  <2>2. \A c \in Conn : net'[c] = "dead" => net[c] = "dead"
    BY <1>13 DEF Environment, Resolve, PeerSend, PeerClose, Tick, Shape, TypeOK
  <2> QED
    BY <1>3, <1>13, <2>1, <2>2, EnvironmentQuiet
<1>14. CASE \/ EpollWait \/ ReadData \/ ReadOver \/ ReadAgain \/ CommandsDone \/ CommandNotFound
            \/ (\E e \in batch : ProcessTimer(e) \/ StartCommands(e))
            \/ UNCHANGED vars
  <2>1. UNCHANGED <<obj, sock, net>>
    BY <1>14
    DEF EpollWait, ReadData, ReadOver, ReadAgain, CommandsDone, CommandNotFound, ProcessTimer,
        StartCommands, table, kernel, vars
  <2> QED
    BY <1>4, <2>1 DEF IsValid
<1>15. CASE RemoveObject \/ RemoveErase
  <2>1. UNCHANGED <<sock, net>>
    BY <1>15 DEF RemoveObject, RemoveErase, kernel
  <2>2. \A a \in Addr : IsValid(a)' => IsValid(a) /\ obj'[a] = obj[a]
    <3>1. CASE RemoveObject
      BY <3>1, RemoveEffect DEF IsValid, Shape, TypeOK
    <3>2. CASE RemoveErase
      BY <3>2 DEF RemoveErase, IsValid, Shape, TypeOK
    <3> QED
      BY <1>15, <3>1, <3>2
  <2> QED
    BY <1>4, <2>1, <2>2
<1> QED
  BY <1>5, <1>7, <1>8, <1>9, <1>10, <1>11, <1>12, <1>13, <1>14, <1>15
  DEF Next, WorkerStep, AppCall, AppStep

----------------------------------------------------------------------------
(* The invariant.                                                           *)

\* The invariant holds initially,
LEMMA InvInit == Init => Inv
<1> SUFFICES ASSUME Init PROVE Inv
  OBVIOUS
<1>1. Shape
  BY ShapeInit
<1>2. Tables /\ Ownership /\ DescriptorKnown
  BY DEF Init, Tables, EntryHasObject, ObjectInMap, OneRemoved, EntryOpen, RemovalQueued,
         Freed, Ownership, OneDescriptor, OpenIsMade, DialIsMade, DialApart, DialOpen, Dials,
         DescriptorKnown
<1>3. Callbacks
  BY DEF Init, Callbacks, ToldOfObject, ToldOfDial, ToldOnce, IsValid, Dials
<1>4. Errors
  BY DEF Init, Errors, NotEarly, ErrorsQueued, IsValid
<1> QED
  BY <1>1, <1>2, <1>3, <1>4 DEF Inv

\* is kept by every step,
LEMMA InvStep == Inv /\ [Next]_vars => Inv'
BY ShapeStep, TablesStep, KnownStep, CallbacksStep, NotEarlyStep, ErrorsQueuedStep
DEF Inv, Errors

\* and so holds in every reachable state, whatever the callers do.
THEOREM Invariant == Spec => []Inv
BY InvInit, InvStep, PTL DEF Spec

\* However many threads connect, a map entry leads to its own object, and the
\* only open descriptors without one are those of "lost".
THEOREM MapAndDescriptors == Spec => [](EntryHasObject /\ DescriptorKnown)
<1>1. Inv => EntryHasObject /\ DescriptorKnown
  BY DEF Inv, Tables
<1> QED
  BY <1>1, Invariant, PTL

\* However many threads connect, a connection is lost in two cases only.
THEOREM ConnectionsAreKept == Spec => LostOnlyInRemoval
<1>1. ASSUME Inv, [Next]_vars, NEW c \in Conn, lost'[c] # lost[c]
      PROVE  net'[c] = "dead" \/ \E f \in Fd : sock[f] = c /\ Closed(f)
  <2>1. ASSUME NEW t \in App, ConnectToRemote(t) \/ AsynchConnectTo(t) PROVE net'[c] = "dead"
    <3>1. PICK f \in Fd, d \in Conn :
            \/ Begins(t, f, d, "syn") /\ UnderWay(t, f, d, "connect", "syn")
            \/ Begins(t, f, d, "syn") /\ UnderWay(t, f, d, "insert", "syn")
            \/ Begins(t, f, d, "up") /\ UnderWay(t, f, d, "insert", "up")
            \/ Begins(t, f, d, "dead") /\ FailedAtOnce(d)
      BY <2>1, ConnectEffect
    <3>2. Begins(t, f, d, "dead") /\ FailedAtOnce(d)
      BY <1>1, <3>1 DEF UnderWay
    <3> QED
      BY <1>1, <3>2 DEF Begins, FailedAtOnce, Inv, Shape, TypeOK
  <2>2. ASSUME NEW t \in App, AddRefused(t) PROVE \E f \in Fd : sock[f] = c /\ Closed(f)
    <3>1. Dials(t) /\ dial[t] \in Dial /\ sockMap[dial[t].fd] # Nil
      BY <1>1, <2>2 DEF AddRefused, Dials, Inv, Shape, TypeOK, DialHeld
    <3>2. dial[t].fd \in Fd
      BY <3>1 DEF Dial
    <3>3. sock[dial[t].fd] = dial[t].conn /\ Closed(dial[t].fd)
      BY <1>1, <3>1 DEF Inv, Ownership, DialOpen
    <3>4. c = dial[t].conn
      BY <1>1, <2>2 DEF AddRefused, Inv, Shape, TypeOK
    <3> QED
      BY <3>2, <3>3, <3>4
  <2>3. CASE Environment \/ WorkerStep \/ UNCHANGED vars
    BY <1>1, <2>3
    DEF Environment, Resolve, PeerSend, PeerClose, Tick, WorkerStep, EpollWait, ProcessIo,
        ProcessTimer, StartCommands, ReadData, ReadOver, ReadEof, ReadAgain, CommandsDone,
        CommandSend, CommandNotFound, RemoveObject, RemoveClose, RemoveErase, ghost, vars
  <2>4. ASSUME NEW t \in App, NEW f \in Fd, AppSend(t, f) \/ AppDisconnect(t, f) PROVE FALSE
    BY <1>1, <2>4 DEF AppSend, AppDisconnect, ghost
  <2>5. ASSUME NEW t \in App,
               Connected(t) \/ ConnectFails(t) \/ Insert(t) \/ Watch(t) \/ Announce(t)
        PROVE  FALSE
    BY <1>1, <2>5 DEF Connected, ConnectFails, Insert, Watch, Announce, ghost
  <2> QED
    BY <1>1, <2>1, <2>2, <2>3, <2>4, <2>5 DEF Next, AppCall, AppStep
<1>2. Inv /\ [Next]_vars =>
        [\A c \in Conn : lost'[c] # lost[c] =>
           \/ net'[c] = "dead"
           \/ \E f \in Fd : sock[f] = c /\ Closed(f)]_vars
  BY <1>1
<1> QED
  BY <1>2, Invariant, PTL DEF Spec, LostOnlyInRemoval

\* Where a step may tell the beginning of a connection.
LEMMA HearSteps ==
  ASSUME Inv, [Next]_vars, NEW c \in Conn, told'[c].hi > told[c].hi
  PROVE  \/ via[c] = "app"
         \/ /\ CommandSend \/ \E e \in batch : ProcessIo(e)
            /\ \E a \in Addr : /\ IsValid(a) /\ c = Of(a) /\ ~obj[a].up
                               /\ net[c] # "refused" /\ told[c].bye = 0
<1>1. told[c].hi \in 0..2 /\ told'[c] # told[c]
  BY DEF Inv, Shape, TypeOK
<1>2. ASSUME NEW t \in App, Announce(t) PROVE via[c] = "app"
  <2>1. Hear(dial[t].conn, "hi") /\ dial[t].conn \in Conn /\ via[dial[t].conn] = "app"
    BY <1>2 DEF Announce, Inv, Shape, TypeOK, DialHeld, Dial
  <2> QED
    BY <1>1, <2>1, HearEffect DEF Inv, Shape
<1>3. CASE CommandSend \/ \E e \in batch : ProcessIo(e)
  <2>1. PICK q \in {cmdQ, Tail(cmdQ)} : UNCHANGED told \/ \E a \in Addr : Starts(a, q)
    BY <1>3, HandlerStep DEF Inv, Refuses
  <2>2. PICK a \in Addr : Starts(a, q)
    BY <1>1, <2>1
  <2>3. IsValid(a) /\ ~obj[a].up /\ net[Of(a)] # "refused" /\ Hear(Of(a), "hi")
    BY <1>1, <2>2 DEF Starts
  <2>4. Of(a) \in Conn
    BY <2>3, ObjectOpen DEF Inv
  <2>5. c = Of(a)
    BY <1>1, <2>3, <2>4, HearEffect DEF Inv, Shape
  <2>6. told[c].bye = 0
    BY <2>3, <2>5 DEF Inv, Callbacks, ToldOfObject
  <2> QED
    BY <1>3, <2>3, <2>5, <2>6
<1>4. CASE RemoveObject
  <2>1. PICK a \in Addr : IsValid(a) /\ Hear(Of(a), "bye")
    BY <1>4, RemoveEffect DEF Inv, Shape
  <2>2. Of(a) \in Conn
    BY <2>1, ObjectOpen DEF Inv
  <2>3. told'[c]["hi"] = told[c]["hi"]
    BY <2>1, <2>2, HearEffect DEF Inv, Shape
  <2> QED
    BY <1>1, <2>3
<1>5. CASE Environment \/ UNCHANGED vars
  BY <1>1, <1>5 DEF Environment, Resolve, PeerSend, PeerClose, Tick, ghost, vars
<1>6. CASE \/ EpollWait \/ ReadData \/ ReadOver \/ ReadEof \/ ReadAgain
           \/ CommandsDone \/ CommandNotFound \/ RemoveClose \/ RemoveErase
           \/ \E e \in batch : ProcessTimer(e) \/ StartCommands(e)
  BY <1>1, <1>6
  DEF EpollWait, ReadData, ReadOver, ReadEof, ReadAgain, CommandsDone, CommandNotFound,
      RemoveClose, RemoveErase, ProcessTimer, StartCommands, ghost
<1>7. ASSUME NEW t \in App,
             \/ ConnectToRemote(t) \/ AsynchConnectTo(t) \/ Connected(t) \/ ConnectFails(t)
             \/ AddRefused(t) \/ Insert(t) \/ Watch(t)
             \/ \E f \in Fd : AppSend(t, f) \/ AppDisconnect(t, f)
      PROVE  FALSE
  BY <1>1, <1>7
  DEF ConnectToRemote, AsynchConnectTo, Connected, ConnectFails, AddRefused, Insert, Watch,
      AppSend, AppDisconnect, ghost
<1> QED
  BY <1>2, <1>3, <1>4, <1>5, <1>6, <1>7 DEF Next, WorkerStep, AppCall, AppStep

\* Where a step may take data from a connection: a read, and close(), which
\* finds none on a connection that was refused.
LEMMA ReadSteps ==
  ASSUME Inv, [Next]_vars, wpc = "read", NEW c \in Conn, rx'[c] < rx[c]
  PROVE  wptr \in Addr /\ IsValid(wptr) /\ obj[wptr].up /\ c = Of(wptr)
<1>1. rx[c] \in 0..MaxRx /\ rx'[c] # rx[c] /\ ~(rx'[c] > rx[c]) /\ MaxRx \in Nat
  <2>1. rx \in [Conn -> 0..MaxRx] /\ rx' \in [Conn -> 0..MaxRx]
    BY ShapeStep DEF Inv, Shape, TypeOK
  <2> QED
    BY <2>1, NumbersAssumption
<1>2. CASE ReadData \/ ReadOver
  <2>1. c = Of(wptr)
    BY <1>1, <1>2 DEF ReadData, ReadOver, Reading, Inv, Shape, TypeOK
  <2> QED
    BY <2>1 DEF Inv, Shape, TypeOK, WorkerHeld, Freed, IsValid
<1>3. ASSUME NEW t \in App, ConnectFails(t) PROVE FALSE
  <2>1. Dials(t) /\ dial[t] \in Dial /\ net[dial[t].conn] = "refused" /\ Close(dial[t].fd)
    BY <1>3 DEF ConnectFails, Dials, Inv, Shape, TypeOK, DialHeld
  <2>2. sock[dial[t].fd] = dial[t].conn /\ dial[t].conn \in Conn
    BY <2>1 DEF Dial, Inv, Ownership, DialOpen
  <2>3. rx[dial[t].conn] = 0
    BY <2>1, <2>2 DEF Inv, Callbacks, ToldOnce
  <2> QED
    BY <1>1, <2>1, <2>2, <2>3 DEF Close, Inv, Shape, TypeOK
<1>4. ASSUME NEW d \in Conn, PeerSend(d) PROVE FALSE
  <2>1. rx \in [Conn -> 0..MaxRx] /\ rx' = [rx EXCEPT ![d] = rx[d] + 1]
    BY <1>4 DEF PeerSend, Inv, Shape, TypeOK
  <2> QED
    BY <1>1, <2>1
<1>5. CASE \/ EpollWait \/ ReadEof \/ ReadAgain \/ CommandsDone \/ CommandSend
           \/ CommandNotFound \/ RemoveObject \/ RemoveErase
           \/ \E e \in batch : ProcessIo(e) \/ ProcessTimer(e) \/ StartCommands(e)
  BY <1>1, <1>5
  DEF EpollWait, ReadEof, ReadAgain, CommandsDone, CommandSend, CommandNotFound, RemoveObject,
      RemoveErase, ProcessIo, ProcessTimer, StartCommands, kernel
<1>6. ASSUME NEW t \in App,
             \/ ConnectToRemote(t) \/ AsynchConnectTo(t) \/ Connected(t)
             \/ AddRefused(t) \/ Insert(t) \/ Watch(t) \/ Announce(t)
             \/ \E f \in Fd : AppSend(t, f) \/ AppDisconnect(t, f)
      PROVE  FALSE
  BY <1>1, <1>6
  DEF ConnectToRemote, AsynchConnectTo, Connected, AddRefused, Insert, Watch, Announce,
      AppSend, AppDisconnect, kernel
<1>7. CASE (\E d \in Conn : Resolve(d) \/ PeerClose(d)) \/ Tick \/ UNCHANGED vars
  BY <1>1, <1>7 DEF Resolve, PeerClose, Tick, vars
<1>8. ~RemoveClose
  BY DEF RemoveClose
<1> QED
  BY <1>2, <1>3, <1>4, <1>5, <1>6, <1>7, <1>8
  DEF Next, Environment, WorkerStep, AppCall, AppStep

\* However many threads connect, the listener is told the beginning and the
\* end of a connection once each, and no data after its end.
THEOREM ListenerIsToldInOrder == Spec => CallbackOrder
<1>1. ASSUME Inv, [Next]_vars PROVE CallbackStep
  <2>1. ASSUME NEW c \in Conn PROVE told'[c].hi =< 1 /\ told'[c].bye =< 1
    BY <1>1, InvStep DEF Inv, Callbacks, ToldOnce
  <2>2. ASSUME NEW c \in Conn, wpc = "read", rx'[c] < rx[c]
        PROVE  told[c].bye = 0 /\ (told[c].hi = 1 \/ via[c] = "app")
    <3>1. wptr \in Addr /\ IsValid(wptr) /\ obj[wptr].up /\ c = Of(wptr)
      BY <1>1, <2>2, ReadSteps
    <3> QED
      BY <1>1, <3>1 DEF Inv, Shape, TypeOK, Callbacks, ToldOfObject
  <2>3. ASSUME NEW c \in Conn, told'[c].hi > told[c].hi
        PROVE  told[c].bye = 0 \/ via[c] = "app"
    BY <1>1, <2>3, HearSteps
  <2> QED
    BY <2>1, <2>2, <2>3 DEF CallbackStep
<1>2. Inv /\ [Next]_vars => [CallbackStep]_vars
  BY <1>1
<1> QED
  BY <1>2, Invariant, PTL DEF Spec, CallbackOrder

\* However many threads connect, the worker takes a connection for
\* established when it is not in the three cases only.
THEOREM PrematureInThreeCases == Spec => PrematureConnectCauses
<1>1. ASSUME Inv, [Next]_vars, NEW c \in Conn,
             told'[c].hi > told[c].hi, via[c] = "worker", ~Established(c)
      PROVE  \/ net[c] = "syn" /\ Executing("send")
             \/ net[c] = "syn" /\ \E e \in batch \ batch' : e.conn # c
             \/ net[c] = "dead" /\ \E f \in Fd : sock[f] = c /\ Doomed(f)
  <2>1. CommandSend \/ \E e \in batch : ProcessIo(e)
    BY <1>1, HearSteps
  <2>2. PICK a \in Addr : /\ IsValid(a) /\ c = Of(a) /\ ~obj[a].up
                          /\ net[c] # "refused" /\ told[c].bye = 0
    BY <1>1, HearSteps
  <2>3. net[c] \in {"syn", "dead"}
    BY <1>1, <2>2, ObjectOpen DEF Inv, Shape, TypeOK, NetState, Established
  <2>4. CASE net[c] = "dead"
    BY <1>1, <2>2, <2>4, ObjectOpen DEF Inv, Errors, ErrorsQueued, Of
  <2>5. CASE net[c] = "syn"
    <3>1. CASE CommandSend
      BY <2>5, <3>1 DEF CommandSend
    <3>2. ASSUME NEW e \in batch, ProcessIo(e) PROVE \E d \in batch \ batch' : d.conn # c
      <4>1. e \in batch \ batch'
        BY <3>2 DEF ProcessIo
      <4>2. e.conn # c
        BY <1>1, <2>5, NamesAssumption DEF Inv, Errors, NotEarly
      <4> QED
        BY <4>1, <4>2
    <3> QED
      BY <2>1, <2>5, <3>1, <3>2
  <2> QED
    BY <2>3, <2>4, <2>5
<1>2. Inv /\ [Next]_vars =>
        [\A c \in Conn :
           told'[c].hi > told[c].hi /\ via[c] = "worker" /\ ~Established(c) =>
             \/ net[c] = "syn" /\ Executing("send")
             \/ net[c] = "syn" /\ \E e \in batch \ batch' : e.conn # c
             \/ net[c] = "dead" /\ \E f \in Fd : sock[f] = c /\ Doomed(f)]_vars
  BY <1>1
<1> QED
  BY <1>2, Invariant, PTL DEF Spec, PrematureConnectCauses

----------------------------------------------------------------------------
(* Connects one at a time.                                                  *)

\* A step of [Next /\ ConnectsAlone]_vars from a state of the invariants.
Alone == Inv /\ Single /\ [Next]_vars /\ ConnectsAlone

\* A thread that starts a connect finds every other one idle.
LEMMA OneConnectStep == ASSUME Alone PROVE OneConnect'
<1>1. Inv /\ Shape /\ OneConnect /\ [Next]_vars /\ ConnectsAlone
  BY DEF Alone, Inv, Single
<1>2. ASSUME \A t \in App : pc'[t] # "idle" => pc[t] # "idle" PROVE OneConnect'
  BY <1>1, <1>2 DEF OneConnect
<1>3. CASE Quiet
  BY <1>2, <1>3 DEF Quiet, SameDials
<1>4. ASSUME NEW t \in App, ConnectToRemote(t) \/ AsynchConnectTo(t) PROVE OneConnect'
  <2>1. PICK f \in Fd, c \in Conn :
          \/ Begins(t, f, c, "syn") /\ UnderWay(t, f, c, "connect", "syn")
          \/ Begins(t, f, c, "syn") /\ UnderWay(t, f, c, "insert", "syn")
          \/ Begins(t, f, c, "up") /\ UnderWay(t, f, c, "insert", "up")
          \/ Begins(t, f, c, "dead") /\ FailedAtOnce(c)
    BY <1>4, ConnectEffect
  <2>2. sock[f] = Nil /\ sock'[f] # Nil
    BY <1>1, <2>1, NamesAssumption DEF Begins, Shape, TypeOK
  <2>3. \A u \in App : pc[u] = "idle"
    BY <1>1, <2>2 DEF ConnectsAlone
  <2>4. \A u \in App : pc'[u] # "idle" => u = t
    BY <1>1, <2>1, <2>3 DEF UnderWay, FailedAtOnce, Shape, TypeOK
  <2> QED
    BY <2>4 DEF OneConnect
<1>5. ASSUME NEW t \in App, ConnectFails(t) \/ Insert(t) PROVE OneConnect'
  BY <1>1, <1>2, <1>5 DEF ConnectFails, Insert, Shape, TypeOK
<1>6. CASE RemoveObject \/ RemoveClose \/ RemoveErase
  BY <1>2, <1>6 DEF RemoveObject, RemoveClose, RemoveErase, app
<1> QED
  BY <1>1, <1>3, <1>4, <1>5, <1>6, NextSteps

\* The entry made before epoll_ctl is still there at epoll_ctl, or its
\* descriptor is closed: nobody else could have taken the number.
LEMMA RegisteredStep == ASSUME Alone PROVE Registered'
<1>0. /\ Inv /\ Shape /\ Tables /\ Ownership /\ OneConnect /\ Registered
      /\ [Next]_vars /\ ConnectsAlone
  BY DEF Alone, Inv, Single
<1>a. \A t \in App : pc[t] # "idle" => dial[t] \in Dial /\ dial[t].fd \in Fd
  BY <1>0 DEF Shape, TypeOK, DialHeld, Dial
\* No thread comes to register, and nothing is registered.
<1>1. ASSUME Quiet, UNCHANGED interest,
             \A t \in App : pc'[t] = "watch" => pc[t] = "watch" /\ dial'[t] = dial[t]
      PROVE  Registered'
  <2>1. UNCHANGED <<sockMap, sock>> /\ \A f \in Fd : Closed(f)' = Closed(f)
    BY <1>0, <1>1, ClosedQuiet DEF Quiet
  <2>2. RegistrationSound' /\ \A f \in Fd : (Closed(f) => interest[f] = Nil)'
    BY <1>0, <1>1, <2>1 DEF Registered, RegistrationSound
  <2>3. ASSUME NEW t \in App, pc'[t] = "watch", sock'[dial'[t].fd] # Nil
        PROVE  (sockMap[dial[t].fd] = dial[t].a /\ ~Closed(dial[t].fd))'
    <3>1. pc[t] = "watch" /\ dial'[t] = dial[t] /\ dial[t].fd \in Fd
      BY <1>1, <1>a, <2>3
    <3>2. Closed(dial[t].fd)' = Closed(dial[t].fd)
      BY <2>1, <3>1 DEF Closed
    <3> QED
      BY <1>0, <2>1, <2>3, <3>1, <3>2 DEF Registered
  <2> QED
    BY <2>2, <2>3 DEF Registered
<1>2. CASE Environment
  BY <1>0, <1>1, <1>2, EnvironmentQuiet
  DEF Environment, Resolve, PeerSend, PeerClose, Tick, app
<1>3. CASE WorkerStep /\ ~RemoveObject /\ ~RemoveClose /\ ~RemoveErase
  <2>1. UNCHANGED <<interest, pc, dial>>
    BY <1>3
    DEF WorkerStep, EpollWait, ProcessIo, ProcessTimer, StartCommands, ReadData, ReadOver,
        ReadEof, ReadAgain, CommandsDone, CommandSend, CommandNotFound, app, kernel
  <2> QED
    BY <1>0, <1>1, <1>3, <2>1, WorkerQuiet
<1>4. ASSUME NEW t \in App,
             \/ Connected(t) \/ AddRefused(t) \/ Announce(t)
             \/ \E f \in Fd : AppSend(t, f) \/ AppDisconnect(t, f)
      PROVE  Registered'
  <2>1. UNCHANGED interest
    BY <1>4 DEF Connected, AddRefused, Announce, AppSend, AppDisconnect, kernel
  <2>2. \A u \in App : pc'[u] = "watch" => pc[u] = "watch" /\ dial'[u] = dial[u]
    BY <1>0, <1>4
    DEF Connected, AddRefused, AfterAdd, Announce, AppSend, AppDisconnect, app, Shape, TypeOK
  <2> QED
    BY <1>0, <1>1, <1>4, <2>1, <2>2, AppQuiet
<1>5. ASSUME NEW t \in App, Watch(t) PROVE Registered'
  <2>1. /\ UNCHANGED <<sockMap, obj, wpc, wptr, sock>> /\ pc[t] = "watch"
        /\ \A u \in App : pc'[u] = "watch" => pc[u] = "watch" /\ dial'[u] = dial[u]
    BY <1>0, <1>5 DEF Watch, AfterAdd, table, worker, Shape, TypeOK
  <2>2. \A f \in Fd : interest'[f] # interest[f] =>
          f = dial[t].fd /\ sock[f] # Nil /\ interest'[f] = dial[t].a
    BY <1>0, <1>5 DEF Watch, Registers, Shape, TypeOK
  <2>3. \A f \in Fd : interest'[f] # interest[f] => interest'[f] = sockMap[f] /\ ~Closed(f)
    BY <1>0, <2>1, <2>2 DEF Registered
  <2>4. RegistrationSound' /\ \A f \in Fd : (Closed(f) => interest[f] = Nil)'
    BY <1>0, <2>1, <2>3 DEF Registered, RegistrationSound, Closed
  <2>5. ASSUME NEW u \in App, pc'[u] = "watch", sock'[dial'[u].fd] # Nil
        PROVE  (sockMap[dial[u].fd] = dial[u].a /\ ~Closed(dial[u].fd))'
    BY <1>0, <2>1, <2>5 DEF Registered, Closed
  <2> QED
    BY <2>4, <2>5 DEF Registered
<1>6. ASSUME NEW t \in App, ConnectToRemote(t) \/ AsynchConnectTo(t) PROVE Registered'
  <2>1. PICK f \in Fd, c \in Conn :
          \/ Begins(t, f, c, "syn") /\ UnderWay(t, f, c, "connect", "syn")
          \/ Begins(t, f, c, "syn") /\ UnderWay(t, f, c, "insert", "syn")
          \/ Begins(t, f, c, "up") /\ UnderWay(t, f, c, "insert", "up")
          \/ Begins(t, f, c, "dead") /\ FailedAtOnce(c)
    BY <1>6, ConnectEffect
  <2>2. UNCHANGED <<sockMap, obj, wpc, wptr, interest>>
    BY <1>6, ConnectEffect DEF table, worker
  <2>3. sock[f] = Nil /\ sock'[f] # Nil
    BY <1>0, <2>1, NamesAssumption DEF Begins, Shape, TypeOK
  <2>4. \A u \in App : pc[u] = "idle"
    BY <1>0, <2>3 DEF ConnectsAlone
  <2>5. \A u \in App : pc'[u] # "watch"
    BY <1>0, <2>1, <2>4 DEF UnderWay, FailedAtOnce, Shape, TypeOK
  <2> QED
    BY <1>0, <2>2, <2>5 DEF Registered, RegistrationSound, Closed
<1>7. ASSUME NEW t \in App, ConnectFails(t) PROVE Registered'
  <2>1. /\ interest' = [interest EXCEPT ![dial[t].fd] = Nil]
        /\ sock' = [sock EXCEPT ![dial[t].fd] = Nil]
        /\ pc' = [pc EXCEPT ![t] = "idle"] /\ dial' = [dial EXCEPT ![t] = Nil]
        /\ UNCHANGED <<sockMap, obj, wpc, wptr>>
    BY <1>7 DEF ConnectFails, Close, table, worker
  <2>2. RegistrationSound' /\ \A f \in Fd : (Closed(f) => interest[f] = Nil)'
    BY <1>0, <2>1 DEF Registered, RegistrationSound, Closed, Shape, TypeOK
  <2>3. ASSUME NEW u \in App, pc'[u] = "watch", sock'[dial'[u].fd] # Nil
        PROVE  (sockMap[dial[u].fd] = dial[u].a /\ ~Closed(dial[u].fd))'
    <3>1. pc[u] = "watch" /\ dial'[u] = dial[u] /\ dial[u].fd \in Fd
      BY <1>0, <1>a, <2>1, <2>3 DEF Shape, TypeOK
    <3>2. sock[dial[u].fd] # Nil
      BY <1>0, <2>1, <2>3, <3>1 DEF Shape, TypeOK
    <3> QED
      BY <1>0, <2>1, <3>1, <3>2 DEF Registered, Closed
  <2> QED
    BY <2>2, <2>3 DEF Registered
<1>8. ASSUME NEW t \in App, Insert(t) PROVE Registered'
  <2>1. dial[t] \in Dial /\ pc[t] = "insert" /\ dial[t].fd \in Fd
    BY <1>8, <1>a DEF Insert
  <2>2. PICK a \in Addr, o \in SocketObject :
           /\ o.fd = dial[t].fd /\ o.valid /\ o.up = (via[dial[t].conn] = "app") /\ o # Nil
           /\ obj[a] = Nil /\ obj' = [obj EXCEPT ![a] = o]
           /\ sockMap[dial[t].fd] = Nil /\ sockMap' = [sockMap EXCEPT ![dial[t].fd] = a]
           /\ dial' = [dial EXCEPT ![t] = [dial[t] EXCEPT !.a = a]]
           /\ [dial[t] EXCEPT !.a = a] = [fd |-> dial[t].fd, conn |-> dial[t].conn, a |-> a]
    BY <1>0, <1>8, <2>1, InsertEffect DEF Shape
  <2>3. pc' = [pc EXCEPT ![t] = "watch"] /\ UNCHANGED <<wpc, wptr, sock, interest>>
    BY <1>8 DEF Insert, worker, kernel
  <2>4. /\ \A f \in Fd : Closed(f)' = Closed(f)
        /\ ~Closed(dial[t].fd) /\ interest[dial[t].fd] = Nil
    <3>1. wpc = "erase" => wptr \in Addr /\ obj[wptr] # Nil /\ sockMap[obj[wptr].fd] = wptr
      BY <1>0 DEF Shape, TypeOK, WorkerHeld, Tables, ObjectInMap, Freed
    <3>2. wpc = "erase" => wptr # a /\ obj'[wptr] = obj[wptr] /\ wptr # Nil
      BY <1>0, <2>2, <3>1, NamesAssumption DEF Shape, TypeOK
    <3> QED
      BY <1>0, <2>1, <2>2, <2>3, <3>1, <3>2 DEF Closed, Registered, RegistrationSound
  <2>5. RegistrationSound'
    BY <1>0, <2>1, <2>2, <2>3, <2>4 DEF Registered, RegistrationSound, Shape, TypeOK
  <2>6. \A f \in Fd : (Closed(f) => interest[f] = Nil)'
    BY <1>0, <2>3, <2>4 DEF Registered
  <2>7. ASSUME NEW u \in App, pc'[u] = "watch"
        PROVE  u = t
    BY <1>0, <2>1, <2>3, <2>7 DEF OneConnect, Shape, TypeOK
  <2>8. dial'[t].fd = dial[t].fd /\ dial'[t].a = a
    <3>1. dial' = [dial EXCEPT ![t] = [fd |-> dial[t].fd, conn |-> dial[t].conn, a |-> a]]
      BY <2>2
    <3> QED
      BY <1>0, <3>1 DEF Shape, TypeOK
  <2>9. (sockMap[dial[t].fd] = dial[t].a /\ ~Closed(dial[t].fd))'
    <3>1. ~Closed(dial[t].fd)'
      BY <2>1, <2>4, <2>8 DEF Closed
    <3> QED
      BY <1>0, <2>1, <2>2, <2>8, <3>1 DEF Shape, TypeOK
  <2> QED
    BY <2>5, <2>6, <2>7, <2>9 DEF Registered
<1>9. CASE RemoveObject
  <2>1. wpc = "command" /\ wpc' = "close" /\ UNCHANGED <<sockMap, pc, dial, sock, interest>>
    BY <1>9 DEF RemoveObject, Executing, app, kernel
  <2> QED
    BY <1>0, <2>1 DEF Registered, RegistrationSound, Closed
<1>10. CASE RemoveClose
  <2>1. wpc = "close" /\ wptr \in Addr /\ obj[wptr].fd \in Fd
    BY <1>0, <1>10 DEF RemoveClose, Shape, TypeOK, WorkerHeld, Freed, SocketObject
  <2>2. /\ sock' = [sock EXCEPT ![obj[wptr].fd] = Nil]
        /\ interest' = [interest EXCEPT ![obj[wptr].fd] = Nil]
        /\ wpc' = "erase" /\ UNCHANGED <<sockMap, obj, wptr, pc, dial>>
    BY <1>10 DEF RemoveClose, Close, table, app
  <2>3. RegistrationSound' /\ \A f \in Fd : (Closed(f) => interest[f] = Nil)'
    BY <1>0, <2>1, <2>2 DEF Registered, RegistrationSound, Closed, Shape, TypeOK
  <2>4. ASSUME NEW u \in App, pc'[u] = "watch", sock'[dial'[u].fd] # Nil
        PROVE  (sockMap[dial[u].fd] = dial[u].a /\ ~Closed(dial[u].fd))'
    <3>1. dial[u].fd \in Fd /\ dial[u].fd # obj[wptr].fd /\ sock[dial[u].fd] # Nil
      BY <1>0, <1>a, <2>1, <2>2, <2>4 DEF Shape, TypeOK
    <3> QED
      BY <1>0, <2>2, <2>4, <3>1 DEF Registered, Closed
  <2> QED
    BY <2>3, <2>4 DEF Registered
<1>11. CASE RemoveErase
  <2>1. wpc = "erase" /\ wptr \in Addr /\ obj[wptr].fd \in Fd
    BY <1>0, <1>11 DEF RemoveErase, Shape, TypeOK, WorkerHeld, Freed, SocketObject
  <2>2. /\ sockMap' = [sockMap EXCEPT ![obj[wptr].fd] = Nil]
        /\ wpc' = "command" /\ UNCHANGED <<pc, dial, sock, interest>>
    BY <1>11 DEF RemoveErase, app, kernel
  <2>3. interest[obj[wptr].fd] = Nil
    BY <1>0, <2>1 DEF Registered, Closed
  <2>4. RegistrationSound' /\ \A f \in Fd : (Closed(f) => interest[f] = Nil)'
    BY <1>0, <2>1, <2>2, <2>3 DEF Registered, RegistrationSound, Closed, Shape, TypeOK
  <2>5. ASSUME NEW u \in App, pc'[u] = "watch", sock'[dial'[u].fd] # Nil
        PROVE  (sockMap[dial[u].fd] = dial[u].a /\ ~Closed(dial[u].fd))'
    <3>1. sockMap[dial[u].fd] = dial[u].a /\ dial[u].fd # obj[wptr].fd
      BY <1>0, <2>1, <2>2, <2>5 DEF Registered, Closed
    <3> QED
      BY <1>0, <2>2, <3>1 DEF Closed, Shape, TypeOK
  <2> QED
    BY <2>4, <2>5 DEF Registered
<1>12. CASE UNCHANGED vars
  BY <1>0, <1>12 DEF vars, Registered, RegistrationSound, Closed
<1> QED
  BY <1>0, <1>2, <1>3, <1>4, <1>5, <1>6, <1>7, <1>8, <1>9, <1>10, <1>11, <1>12
  DEF Next, AppCall, AppStep


\* An edge is reported at the latest when the descriptor is registered, and an
\* event is handled for the object it was reported for; so the end of an
\* attempt is not forgotten.
LEMMA PendingStep == ASSUME Alone PROVE Pending'
<1>0. /\ Inv /\ Shape /\ Tables /\ Ownership /\ OneConnect /\ Registered /\ Pending
      /\ [Next]_vars /\ ConnectsAlone
  BY DEF Alone, Inv, Single
\* A registered descriptor has its entry, its object and its connection.
<1>1. ASSUME NEW f \in Fd, interest[f] # Nil
      PROVE  /\ interest[f] \in Addr /\ sockMap[f] = interest[f] /\ ~Closed(f)
             /\ obj[interest[f]] # Nil /\ obj[interest[f]].fd = f
             /\ sock[f] \in Conn /\ net[sock[f]] \notin {"new", "closed"}
             /\ (wpc \notin {"close", "erase"} => IsValid(interest[f]))
  <2>1. interest[f] \in Addr /\ sockMap[f] = interest[f] /\ ~Closed(f)
    BY <1>0, <1>1 DEF Registered, RegistrationSound, Shape, TypeOK
  <2>2. obj[interest[f]] # Nil /\ obj[interest[f]].fd = f
    BY <1>1, <1>0, <2>1 DEF Tables, EntryHasObject, Freed
  <2>3. sock[f] \in Conn /\ net[sock[f]] \notin {"new", "closed"}
    BY <1>0, <1>1 DEF Shape, TypeOK, ReadyWatched, Ownership, OpenIsMade
  <2>4. wpc \notin {"close", "erase"} => IsValid(interest[f])
    BY <1>0, <1>1, <2>1, <2>2 DEF Tables, OneRemoved, IsValid, Freed
  <2> QED
    BY <2>1, <2>2, <2>3, <2>4
<1>2. ASSUME NEW f \in Fd, interest[f] # Nil, Doomed(f) PROVE Doomed(f)'
  <2>1. sockMap[f] # Nil /\ ~Closed(f)
    BY <1>1, <1>2
  <2> QED
    BY <1>0, <1>2, <2>1, DoomedKept
\* Nothing that is awaited is dropped, and what ends is reported.
<1>3. ASSUME \A f \in Fd : interest'[f] # Nil =>
               /\ interest'[f] = interest[f]
               /\ net'[sock'[f]] # "syn" => net[sock[f]] # "syn" \/ f \in ready'
               /\ obj[interest[f]].up => obj'[interest[f]].up
               /\ f \in ready => f \in ready' \/ \E e \in batch' : e.ptr = interest[f]
               /\ \A e \in batch : e.ptr = interest[f] => e \in batch' \/ Awaited(f)'
      PROVE  Pending'
  <2>1. SUFFICES ASSUME NEW f \in Fd, interest'[f] # Nil, net'[sock'[f]] # "syn"
                 PROVE  Awaited(f)'
    BY DEF Pending
  <2>2. interest'[f] = interest[f] /\ (net[sock[f]] # "syn" \/ f \in ready')
    BY <1>3, <2>1
  <2>3. CASE f \in ready'
    BY <2>3 DEF Awaited
  <2>4. CASE net[sock[f]] # "syn"
    <3>1. Awaited(f)
      BY <1>0, <2>1, <2>2, <2>4 DEF Pending
    <3>2. CASE obj[interest[f]].up
      BY <1>3, <2>1, <2>2, <3>2 DEF Awaited
    <3>3. CASE Doomed(f)
      BY <1>2, <2>1, <2>2, <3>3 DEF Awaited
    <3>4. CASE f \in ready
      BY <1>3, <2>1, <2>2, <3>4 DEF Awaited
    <3>5. CASE \E e \in batch : e.ptr = interest[f]
      BY <1>3, <2>1, <2>2, <3>5 DEF Awaited
    <3> QED
      BY <3>1, <3>2, <3>3, <3>4, <3>5 DEF Awaited
  <2> QED
    BY <2>2, <2>3, <2>4
\* Steps that leave descriptors and network alone.
<1>4. ASSUME UNCHANGED <<interest, sock, net>>, batch \subseteq batch', ready \subseteq ready',
             \A f \in Fd : interest[f] # Nil /\ obj[interest[f]].up => obj'[interest[f]].up
      PROVE  Pending'
  BY <1>3, <1>4
<1>5. ASSUME NEW c \in Conn, Resolve(c) \/ PeerSend(c) \/ PeerClose(c) PROVE Pending'
  <2>1. /\ UNCHANGED <<obj, interest, sock, batch>> /\ ready' = ready \cup Watching(c)
    BY <1>5 DEF Resolve, PeerSend, PeerClose, table, worker
  <2>2. \A d \in Conn : d # c => net'[d] = net[d]
    BY <1>0, <1>5 DEF Resolve, PeerSend, PeerClose, Shape, TypeOK
  <2>3. ASSUME NEW f \in Fd, interest[f] # Nil
        PROVE  net'[sock[f]] # "syn" => net[sock[f]] # "syn" \/ f \in ready'
    <3>1. CASE sock[f] = c
      BY <2>1, <2>3, <3>1 DEF Watching
    <3>2. CASE sock[f] # c
      BY <1>1, <2>2, <2>3, <3>2
    <3> QED
      BY <3>1, <3>2
  <2> QED
    BY <1>3, <2>1, <2>3
<1>6. CASE Tick
  <2>1. \A f \in Fd : interest[f] # Nil /\ obj[interest[f]].up => obj'[interest[f]].up
    BY <1>0, <1>1, <1>6, TickEffect DEF Shape
  <2> QED
    BY <1>4, <1>6, <2>1 DEF Tick, worker
<1>7. ASSUME NEW t \in App, ConnectToRemote(t) \/ AsynchConnectTo(t) PROVE Pending'
  <2>1. PICK f \in Fd, c \in Conn :
          \/ Begins(t, f, c, "syn") /\ UnderWay(t, f, c, "connect", "syn")
          \/ Begins(t, f, c, "syn") /\ UnderWay(t, f, c, "insert", "syn")
          \/ Begins(t, f, c, "up") /\ UnderWay(t, f, c, "insert", "up")
          \/ Begins(t, f, c, "dead") /\ FailedAtOnce(c)
    BY <1>7, ConnectEffect
  <2>2. UNCHANGED <<obj, interest, ready, batch>>
    BY <1>7, ConnectEffect DEF table, worker
  <2>3. sock[f] = Nil /\ net[c] = "new" /\ sock' = [sock EXCEPT ![f] = c]
    BY <2>1 DEF Begins
  <2>4. \A d \in Conn : d # c => net'[d] = net[d]
    BY <1>0, <2>1 DEF Begins, Shape, TypeOK
  <2>5. ASSUME NEW g \in Fd, interest[g] # Nil PROVE net'[sock'[g]] = net[sock[g]]
    <3>1. g # f /\ sock[g] # c /\ sock[g] \in Conn
      BY <1>1, <2>3, <2>5, NamesAssumption
    <3> QED
      BY <1>0, <2>3, <2>4, <3>1 DEF Shape, TypeOK
  <2> QED
    BY <1>3, <2>2, <2>5
\* A descriptor is closed.
<1>8. ASSUME NEW f \in Fd, Close(f), UNCHANGED <<obj, batch>> PROVE Pending'
  <2>1. /\ sock' = [sock EXCEPT ![f] = Nil] /\ interest' = [interest EXCEPT ![f] = Nil]
        /\ ready' = ready \ {f} /\ net' = [net EXCEPT ![sock[f]] = "closed"]
    BY <1>8 DEF Close
  <2>2. ASSUME NEW g \in Fd, interest'[g] # Nil
        PROVE  /\ g # f /\ interest'[g] = interest[g]
               /\ net'[sock'[g]] = net[sock[g]]
    <3>1. g # f /\ interest'[g] = interest[g] /\ sock'[g] = sock[g]
      BY <1>0, <2>1, <2>2 DEF Shape, TypeOK
    <3>2. sock[g] \in Conn /\ sock[g] # sock[f]
      BY <1>0, <1>1, <2>2, <3>1, NamesAssumption DEF Ownership, OneDescriptor
    <3> QED
      BY <1>0, <2>1, <3>1, <3>2 DEF Shape, TypeOK
  <2> QED
    BY <1>3, <1>8, <2>1, <2>2
<1>9. ASSUME NEW t \in App, ConnectFails(t) PROVE Pending'
  <2>1. dial[t].fd \in Fd /\ Close(dial[t].fd) /\ UNCHANGED <<obj, batch>>
    BY <1>0, <1>9 DEF ConnectFails, Shape, TypeOK, DialHeld, Dial, table, worker
  <2> QED
    BY <1>8, <2>1
<1>10. ASSUME NEW t \in App, Insert(t) PROVE Pending'
  <2>1. dial[t] \in Dial
    BY <1>0, <1>10 DEF Insert, Shape, TypeOK, DialHeld
  <2>2. \E a \in Addr, o \in SocketObject : obj[a] = Nil /\ obj' = [obj EXCEPT ![a] = o]
    <3>1. PICK a \in Addr, o \in SocketObject :
             /\ o.fd = dial[t].fd /\ o.valid /\ o.up = (via[dial[t].conn] = "app") /\ o # Nil
             /\ obj[a] = Nil /\ obj' = [obj EXCEPT ![a] = o]
             /\ sockMap[dial[t].fd] = Nil /\ sockMap' = [sockMap EXCEPT ![dial[t].fd] = a]
             /\ dial' = [dial EXCEPT ![t] = [dial[t] EXCEPT !.a = a]]
             /\ [dial[t] EXCEPT !.a = a] = [fd |-> dial[t].fd, conn |-> dial[t].conn, a |-> a]
      BY <1>0, <1>10, <2>1, InsertEffect DEF Shape
    <3> QED
      BY <3>1
  <2>3. \A f \in Fd : interest[f] # Nil /\ obj[interest[f]].up => obj'[interest[f]].up
    BY <1>0, <1>1, <2>2 DEF Shape, TypeOK
  <2> QED
    BY <1>4, <1>10, <2>3 DEF Insert, worker, kernel
<1>11. ASSUME NEW t \in App, Watch(t) PROVE Pending'
  <2>1. UNCHANGED <<obj, cmdQ, sock, net, batch>> /\ ready \subseteq ready'
    BY <1>11 DEF Watch, Registers, table, worker
  <2>2. ASSUME NEW f \in Fd, interest'[f] # interest[f], net[sock[f]] # "syn" PROVE f \in ready'
    BY <1>0, <1>11, <2>2 DEF Watch, Registers, Shape, TypeOK
  <2>3. ASSUME NEW f \in Fd, interest'[f] # Nil, net'[sock'[f]] # "syn" PROVE Awaited(f)'
    <3>1. CASE interest'[f] # interest[f]
      BY <2>1, <2>2, <2>3, <3>1 DEF Awaited
    <3>2. CASE interest'[f] = interest[f]
      BY <1>0, <2>1, <2>3, <3>2 DEF Pending, Awaited, Doomed
    <3> QED
      BY <3>1, <3>2
  <2> QED
    BY <2>3 DEF Pending
<1>12. ASSUME NEW t \in App,
              \/ Connected(t) \/ AddRefused(t) \/ Announce(t)
              \/ \E f \in Fd : AppSend(t, f) \/ AppDisconnect(t, f)
       PROVE  Pending'
  BY <1>4, <1>12
  DEF Connected, AddRefused, Announce, AppSend, AppDisconnect, Trigger, table, worker, kernel
<1>13. CASE EpollWait
  <2>1. /\ batch' = {Report(s) : s \in ready} /\ batch = {}
        /\ UNCHANGED <<obj, sock, interest, net>>
    BY <1>13 DEF EpollWait, table
  <2>2. ASSUME NEW f \in Fd, f \in ready PROVE \E e \in batch' : e.ptr = interest[f]
    <3>1. Report(f) \in batch' /\ Report(f).ptr = interest[f]
      BY <2>1, <2>2 DEF Report
    <3> QED
      BY <3>1
  <2> QED
    BY <1>3, <2>1, <2>2
<1>14. CASE ReadData \/ ReadOver \/ ReadAgain \/ CommandsDone \/ CommandNotFound
  BY <1>4, <1>14
  DEF ReadData, ReadOver, ReadAgain, CommandsDone, CommandNotFound, table, worker, kernel
<1>15. CASE ReadEof
  <2>1. /\ UNCHANGED <<obj, sock, interest, batch>> /\ ready \subseteq ready'
        /\ net' = [net EXCEPT ![Reading] =
                     IF net[Reading] = "refused" THEN "dead" ELSE net[Reading]]
    BY <1>15 DEF ReadEof, Trigger, table
  <2>2. \A f \in Fd : interest[f] # Nil =>
          (net'[sock[f]] # "syn" => net[sock[f]] # "syn")
    BY <1>0, <1>1, <2>1 DEF Shape, TypeOK
  <2> QED
    BY <1>3, <2>1, <2>2
<1>16. ASSUME NEW e \in batch, StartCommands(e) \/ ProcessTimer(e) PROVE Pending'
  <2>1. /\ UNCHANGED <<obj, sock, interest, net>> /\ batch' = batch \ {e}
        /\ ready \subseteq ready' /\ e.ptr \in {CmdEvt, TimerEvt}
    BY <1>16 DEF StartCommands, ProcessTimer, Trigger, table, kernel
  <2>2. \A f \in Fd : interest[f] # Nil => e.ptr # interest[f]
    BY <1>1, <2>1, NamesAssumption
  <2> QED
    BY <1>3, <2>1, <2>2
<1>17. CASE CommandSend \/ \E e \in batch : ProcessIo(e)
  <2>1. UNCHANGED <<sock, interest>>
    BY <1>0, <1>17, HandlerStep
  <2>2. PICK q \in {cmdQ, Tail(cmdQ)} :
          /\ q = cmdQ \/ (cmdQ # <<>> /\ Head(cmdQ).op = "send" /\ q = Tail(cmdQ))
          /\ \/ UNCHANGED <<obj, ready, net>>
             \/ \E a \in Addr : Refuses(a, q)
             \/ \E a \in Addr : Starts(a, q)
    BY <1>0, <1>17, HandlerStep
  <2>3. ready \subseteq ready'
    BY <2>2 DEF Refuses, Starts
  <2>4. ASSUME NEW f \in Fd, interest[f] # Nil
        PROVE  /\ net'[sock[f]] # "syn" => net[sock[f]] # "syn"
               /\ obj[interest[f]].up => obj'[interest[f]].up
    <3>1. CASE UNCHANGED <<obj, net>>
      BY <3>1
    <3>2. ASSUME NEW a \in Addr, Refuses(a, q) PROVE net'[sock[f]] # "syn" => net[sock[f]] # "syn"
      BY <1>0, <1>1, <2>4, <3>2 DEF Refuses, Shape, TypeOK
    <3>3. ASSUME NEW a \in Addr, Starts(a, q)
          PROVE  obj[interest[f]].up => obj'[interest[f]].up
      BY <1>0, <1>1, <2>4, <3>3 DEF Starts, Shape, TypeOK
    <3> QED
      BY <2>2, <3>1, <3>2, <3>3 DEF Refuses, Starts
  <2>5. CASE CommandSend
    <3>1. UNCHANGED batch
      BY <2>5 DEF CommandSend
    <3> QED
      BY <1>3, <2>1, <2>3, <2>4, <3>1
  <2>6. ASSUME NEW e \in batch, ProcessIo(e) PROVE Pending'
    <3>1. wpc = "loop" /\ e.ptr \in Addr /\ batch' = batch \ {e}
      BY <2>6 DEF ProcessIo
    \* The event is handled on behalf of the descriptor it is registered for.
    <3>2. ASSUME NEW f \in Fd, interest[f] # Nil, e.ptr = interest[f] PROVE Awaited(f)'
      <4>1. /\ IsValid(e.ptr) /\ obj[e.ptr].fd = f /\ obj[e.ptr] # Nil
            /\ e.ptr \in Addr /\ interest'[f] = e.ptr
        BY <1>1, <2>1, <3>1, <3>2
      <4>2. CASE Skips(e.ptr, cmdQ)
        <5>1. cmdQ' = cmdQ \o <<Call("disconnect", f)>> /\ cmdQ \in Seq(Command)
          BY <1>0, <4>1, <4>2 DEF Skips, Refused, Trigger, Shape, TypeOK
        <5> QED
          BY <5>1, DoomedLast DEF Awaited
      <4>3. CASE Proceeds(e.ptr, e.in, cmdQ)
        <5>1. Starts(e.ptr, cmdQ)
          BY <1>0, <3>1, <4>1, <4>3, HandleEffect
             DEF Shape, TypeOK, Event, Refuses, Proceeds, NoError
        <5>2. obj'[e.ptr].up
          BY <1>0, <4>1, <5>1 DEF Starts, Shape, TypeOK
        <5> QED
          BY <4>1, <5>2 DEF Awaited
      <4> QED
        BY <2>6, <4>1, <4>2, <4>3 DEF ProcessIo, Freed
    <3> QED
      BY <1>3, <2>1, <2>3, <2>4, <3>1, <3>2
  <2> QED
    BY <1>17, <2>5, <2>6
<1>18. CASE RemoveObject
  <2>1. UNCHANGED <<batch, sock, interest, ready, net>>
    BY <1>18 DEF RemoveObject, kernel
  <2>2. PICK a \in Addr, o \in SocketObject : obj' = [obj EXCEPT ![a] = o] /\ o.up = obj[a].up
    BY <1>0, <1>18, RemoveEffect DEF Shape
  <2>3. \A f \in Fd : interest[f] # Nil /\ obj[interest[f]].up => obj'[interest[f]].up
    BY <1>0, <1>1, <2>2 DEF Shape, TypeOK
  <2> QED
    BY <1>4, <2>1, <2>3
<1>19. CASE RemoveClose
  <2>1. obj[wptr].fd \in Fd /\ Close(obj[wptr].fd) /\ UNCHANGED <<obj, batch>>
    BY <1>0, <1>19 DEF RemoveClose, Shape, TypeOK, WorkerHeld, Freed, SocketObject, table
  <2> QED
    BY <1>8, <2>1
<1>20. CASE RemoveErase
  <2>1. wpc = "erase" /\ obj' = [obj EXCEPT ![wptr] = Nil]
        /\ UNCHANGED <<batch, sock, interest, ready, net>>
    BY <1>20 DEF RemoveErase, kernel
  <2>2. \A f \in Fd : interest[f] # Nil => interest[f] # wptr
    BY <1>1, <2>1 DEF Closed
  <2>3. \A f \in Fd : interest[f] # Nil /\ obj[interest[f]].up => obj'[interest[f]].up
    BY <1>0, <1>1, <2>1, <2>2 DEF Shape, TypeOK
  <2> QED
    BY <1>4, <2>1, <2>3
<1>21. CASE UNCHANGED vars
  BY <1>4, <1>21 DEF vars
<1> QED
  BY <1>0, <1>5, <1>6, <1>7, <1>9, <1>10, <1>11, <1>12, <1>13, <1>14, <1>15, <1>16, <1>17,
     <1>18, <1>19, <1>20, <1>21
  DEF Next, Environment, WorkerStep, AppCall, AppStep

\* Nothing is under way at the start.
LEMMA SingleInit == Init => Single
BY DEF Init, Single, OneConnect, Registered, RegistrationSound, Closed, Pending

\* The three parts are kept together.
LEMMA SingleStep == Inv /\ Single /\ [Next]_vars /\ [ConnectsAlone]_vars => Single'
<1>1. CASE Alone
  BY <1>1, OneConnectStep, RegisteredStep, PendingStep DEF Single
<1>2. CASE UNCHANGED vars
  BY <1>2
  DEF vars, Single, OneConnect, Registered, RegistrationSound, Closed, Pending, Awaited, Doomed
<1> QED
  BY <1>1, <1>2 DEF Alone

\* They hold while the callers keep to ConnectsAlone.
LEMMA SingleHolds == Spec /\ [][ConnectsAlone]_vars => []Single
BY Invariant, SingleInit, SingleStep, PTL DEF Spec

\* When no connect begins while another is under way, the map, the heap, the
\* epoll registrations and the descriptors agree.
THEOREM ConnectsAloneAgree == Spec /\ [][ConnectsAlone]_vars => []TablesAgree
<1>1. Inv /\ Single => TablesAgree
  BY DEF Inv, Tables, Single, Registered, TablesAgree
<1> QED
  BY <1>1, Invariant, SingleHolds, PTL

\* Then the end of no connection attempt is missed either: a worker with
\* nothing left to do has announced it or will remove it.
THEOREM ConnectsAloneResolve == Spec /\ [][ConnectsAlone]_vars => []NoStrandedConnect
<1>1. Inv /\ Single => NoStrandedConnect
  BY DEF Single, Pending, Awaited, NoStrandedConnect
<1> QED
  BY <1>1, Invariant, SingleHolds, PTL

\* A program with one thread that connects does so alone.
LEMMA OneThreadConnects ==
  ASSUME NEW t, App = {t} PROVE Inv /\ [Next]_vars => [ConnectsAlone]_vars
<1>1. SUFFICES ASSUME Inv, [Next]_vars, NEW f \in Fd, sock[f] = Nil, sock'[f] # Nil
               PROVE  \A u \in App : pc[u] = "idle"
  BY DEF ConnectsAlone
<1>2. ASSUME NEW u \in App, ConnectToRemote(u) \/ AsynchConnectTo(u)
      PROVE  \A w \in App : pc[w] = "idle"
  BY <1>2, ConnectEffect DEF Begins
<1>3. ASSUME \/ \E u \in App : ConnectFails(u) \/ Insert(u)
             \/ RemoveObject \/ RemoveClose \/ RemoveErase
      PROVE  FALSE
  <2>1. sock' = sock \/ \E g : sock' = [sock EXCEPT ![g] = Nil]
    BY <1>3
    DEF ConnectFails, Insert, RemoveObject, RemoveClose, RemoveErase, Close, kernel
  <2> QED
    BY <1>1, <2>1 DEF Inv, Shape, TypeOK
<1> QED
  BY <1>1, <1>2, <1>3, NextSteps DEF Inv, Quiet

\* In particular when one thread makes the connects.
THEOREM OneThreadAgrees ==
  ASSUME NEW t, App = {t} PROVE Spec => []TablesAgree /\ []NoStrandedConnect
BY Invariant, OneThreadConnects, ConnectsAloneAgree, ConnectsAloneResolve, PTL DEF Spec
=============================================================================
