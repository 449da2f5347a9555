-------------------------- MODULE TcpClientSteps --------------------------
(***************************************************************************)
(* Proofs about TcpClient, first part: the parts of its inductive           *)
(* invariant, what each step does, and type correctness, for any number of  *)
(* application threads, descriptors, connections and addresses.             *)
(***************************************************************************)
EXTENDS TcpClient, FiniteSetTheorems, TLAPS

----------------------------------------------------------------------------
(* The inductive invariant.                                                 *)

\* A thread past socket() has the descriptor and the connection it dials, and
\* past AddSocketObject the object too.
DialHeld ==
  \A t \in App :
    /\ pc[t] # "idle" => dial[t] # Nil
    /\ pc[t] = "watch" => dial[t].a \in Addr
    /\ pc[t] = "announce" => via[dial[t].conn] = "app"

\* The object the worker handles exists, and is valid while it is read.
WorkerHeld ==
  /\ wpc \in {"read", "close", "erase"} => wptr # Nil /\ ~Freed(wptr)
  /\ wpc = "read" => obj[wptr].valid /\ obj[wptr].up
  /\ wpc \in {"close", "erase"} =>
       ~obj[wptr].valid /\ cmdQ # <<>> /\ left > 0

\* epoll watches open descriptors only, and reports what it watches.
ReadyWatched ==
  \A f \in Fd : /\ interest[f] # Nil => sock[f] # Nil
                /\ f \in ready => interest[f] # Nil

Shape == TypeOK /\ DialHeld /\ WorkerHeld /\ ReadyWatched

\* A thread is between socket() and the map.
Dials(t) == pc[t] \in {"connect", "insert"}

\* Map and heap are inverses of each other (EntryHasObject is one half).
ObjectInMap == \A a \in Addr : ~Freed(a) => sockMap[obj[a].fd] = a

\* Only the object being removed is invalid, and only its descriptor may be
\* closed while its entry is there.
OneRemoved ==
  \A a \in Addr : ~Freed(a) /\ ~obj[a].valid => wpc \in {"close", "erase"} /\ a = wptr
EntryOpen == \A f \in Fd : sockMap[f] # Nil /\ ~Closed(f) => sock[f] # Nil

\* The command being executed stays at the head of the queue.
RemovalQueued ==
  wpc \in {"close", "erase"} => Head(cmdQ) = Call("disconnect", obj[wptr].fd)

Tables == EntryHasObject /\ ObjectInMap /\ OneRemoved /\ EntryOpen /\ RemovalQueued

\* A connection is open on one descriptor,
OneDescriptor == \A f, g \in Fd : sock[f] = sock[g] /\ sock[f] # Nil => f = g

\* from socket() to close(),
OpenIsMade == \A f \in Fd : sock[f] # Nil => net[sock[f]] \notin {"new", "closed"}

\* and in the hands of one thread,
DialIsMade == \A t \in App : pc[t] # "idle" => net[dial[t].conn] # "new"
DialApart ==
  \A t, u \in App : pc[t] # "idle" /\ pc[u] # "idle" /\ dial[t].conn = dial[u].conn => t = u

\* which owns the descriptor until it has given it to the map.  An entry it
\* meets there is one the worker is about to erase.
DialOpen ==
  \A t \in App : Dials(t) =>
    /\ sock[dial[t].fd] = dial[t].conn
    /\ net[dial[t].conn] # "dead"
    /\ sockMap[dial[t].fd] # Nil => Closed(dial[t].fd)

Ownership == OneDescriptor /\ OpenIsMade /\ DialIsMade /\ DialApart /\ DialOpen

\* A connection in the hands of the manager has not been told its end, and
\* has been told its beginning if and only if its object is connected, unless
\* the thread that made it announces it.
ToldOfObject ==
  \A a \in Addr : IsValid(a) =>
    /\ told[Of(a)].bye = 0
    /\ via[Of(a)] = "worker" => told[Of(a)].hi = IF obj[a].up THEN 1 ELSE 0
    /\ via[Of(a)] = "app" => obj[a].up

\* Nothing has been told of a connection that is being made, nor its
\* beginning before the thread that made it announces it.
ToldOfDial ==
  \A t \in App :
    /\ Dials(t) => told[dial[t].conn] = [hi |-> 0, bye |-> 0]
    /\ pc[t] # "idle" /\ via[dial[t].conn] = "app" => told[dial[t].conn].hi = 0

\* Nothing has been told of a connection nobody asked for, and nothing is told
\* twice.
ToldOnce ==
  \A c \in Conn :
    /\ net[c] = "new" => told[c] = [hi |-> 0, bye |-> 0]
    /\ told[c].hi =< 1 /\ told[c].bye =< 1
    /\ net[c] \in {"new", "syn", "refused", "dead"} => rx[c] = 0

Callbacks == ToldOfObject /\ ToldOfDial /\ ToldOnce

\* An event of a connection that is still connecting is never reported, and
\* an error that was read has its disconnect queued.
NotEarly ==
  /\ \A f \in Fd : f \in ready => net[sock[f]] # "syn"
  /\ \A e \in batch : e.conn # Nil => net[e.conn] \notin {"new", "syn"}
ErrorsQueued ==
  \A a \in Addr :
    IsValid(a) /\ ~obj[a].up /\ net[Of(a)] = "dead" => Doomed(obj[a].fd)

Errors == NotEarly /\ ErrorsQueued

Inv == Shape /\ Tables /\ Ownership /\ DescriptorKnown /\ Callbacks /\ Errors

\* What the callers owe: no thread makes a socket while a connect is under way.
ConnectsAlone ==
  (\E f \in Fd : sock[f] = Nil /\ sock'[f] # Nil) => \A t \in App : pc[t] = "idle"

\* Then one thread at most is inside a connect,
OneConnect == \A t, u \in App : pc[t] # "idle" /\ pc[u] # "idle" => t = u

\* and what it registers is what the map still has, or nothing.
Registered ==
  /\ RegistrationSound
  /\ \A f \in Fd : Closed(f) => interest[f] = Nil
  /\ \A t \in App : pc[t] = "watch" /\ sock[dial[t].fd] # Nil =>
       sockMap[dial[t].fd] = dial[t].a /\ ~Closed(dial[t].fd)

\* The end of an attempt is announced, queued for removal, or to be reported.
Awaited(f) ==
  \/ obj[interest[f]].up
  \/ Doomed(f)
  \/ f \in ready
  \/ \E e \in batch : e.ptr = interest[f]
Pending ==
  \A f \in Fd : interest[f] # Nil /\ net[sock[f]] # "syn" => Awaited(f)

Single == OneConnect /\ Registered /\ Pending

----------------------------------------------------------------------------
(* What the steps do, for the proofs below.                                 *)

\* A connect that begins: the descriptor f is free, the connection c new.
Begins(t, f, c, state) ==
  /\ pc[t] = "idle" /\ sock[f] = Nil /\ net[c] = "new"
  /\ sock' = [sock EXCEPT ![f] = c]
  /\ net' = [net EXCEPT ![c] = state]

\* It is under way, or (c is lost) has failed at once.
UnderWay(t, f, c, place, made) ==
  /\ dial' = [dial EXCEPT ![t] = [fd |-> f, conn |-> c, a |-> Nil]]
  /\ pc' = [pc EXCEPT ![t] = place]
  /\ via' = IF made = "up" THEN [via EXCEPT ![c] = "app"] ELSE via
  /\ UNCHANGED lost
FailedAtOnce(c) == lost' = [lost EXCEPT ![c] = TRUE] /\ UNCHANGED <<pc, dial, via>>

\* What a connect does in its first step.
LEMMA ConnectEffect ==
  ASSUME NEW t \in App, ConnectToRemote(t) \/ AsynchConnectTo(t)
  PROVE  /\ UNCHANGED <<table, cmdQ, worker, crashed, interest, ready, beats, rx, told>>
         /\ \E f \in Fd, c \in Conn :
              \/ Begins(t, f, c, "syn") /\ UnderWay(t, f, c, "connect", "syn")
              \/ Begins(t, f, c, "syn") /\ UnderWay(t, f, c, "insert", "syn")
              \/ Begins(t, f, c, "up") /\ UnderWay(t, f, c, "insert", "up")
              \/ Begins(t, f, c, "dead") /\ FailedAtOnce(c)
<1>1. CASE ConnectToRemote(t)
  BY <1>1 DEF ConnectToRemote, Open, Begins, UnderWay, ghost
<1>2. CASE AsynchConnectTo(t)
  BY <1>2 DEF AsynchConnectTo, Open, Begins, UnderWay, FailedAtOnce
<1> QED
  BY <1>1, <1>2

\* OnBeforeProcessIo finds that the connection of a is refused ...
Refuses(a, q) ==
  /\ IsValid(a) /\ ~obj[a].up /\ net[Of(a)] = "refused"
  /\ net' = [net EXCEPT ![Of(a)] = "dead"]
  /\ cmdQ' = q \o <<Call("disconnect", obj[a].fd)>>
  /\ ready' = ready \cup {CmdEvt}
  /\ UNCHANGED <<obj, told>>

\* ... or lets the handler start.
Starts(a, q) ==
  /\ IsValid(a)
  /\ \E o \in SocketObject :
       obj' = [obj EXCEPT ![a] = o] /\ o.fd = obj[a].fd /\ o.valid /\ o.up
  /\ \/ obj[a].up /\ UNCHANGED told
     \/ ~obj[a].up /\ net[Of(a)] # "refused" /\ Hear(Of(a), "hi")
  /\ cmdQ' = q
  /\ UNCHANGED <<ready, net>>

\* An object that is changed in one field keeps the others: SetConnected,
LEMMA ObjectUp ==
  ASSUME NEW o \in SocketObject
  PROVE  LET p == [o EXCEPT !.up = TRUE] IN
         p \in SocketObject /\ p.fd = o.fd /\ p.valid = o.valid /\ p.up
BY DEF SocketObject

\* SetInvalid,
LEMMA ObjectInvalid ==
  ASSUME NEW o \in SocketObject
  PROVE  LET p == [o EXCEPT !.valid = FALSE] IN
         p \in SocketObject /\ p.fd = o.fd /\ p.up = o.up /\ ~p.valid
BY DEF SocketObject

\* and the clock.
LEMMA ObjectAge ==
  ASSUME NEW o \in SocketObject, NEW g \in 0..SilentAge
  PROVE  LET p == [o EXCEPT !.age = g] IN
         p \in SocketObject /\ p.fd = o.fd /\ p.up = o.up /\ p.valid = o.valid
BY DEF SocketObject

\* OnBeforeProcessIo and the start of the handler, in one of three outcomes.
LEMMA HandleEffect ==
  ASSUME TypeOK, NEW a \in Addr \cup {Nil}, NEW in \in BOOLEAN, NEW q,
         Skips(a, q) \/ Proceeds(a, in, q)
  PROVE  \/ ~IsValid(a) /\ cmdQ' = q /\ UNCHANGED <<obj, told, ready, net>>
         \/ a \in Addr /\ Refuses(a, q)
         \/ a \in Addr /\ Starts(a, q)
<1>1. CASE Skips(a, q)
  BY <1>1 DEF Skips, Refused, Refuses, Trigger, IsValid
<1>2. CASE Proceeds(a, in, q)
  <2>1. IsValid(a) /\ a \in Addr /\ obj[a] \in SocketObject /\ obj[a].valid
    BY <1>2 DEF Proceeds, IsValid, TypeOK
  <2> DEFINE p == [obj[a] EXCEPT !.up = TRUE]
             o == Receiving(p, in)
  <2>2. p \in SocketObject /\ p.fd = obj[a].fd /\ p.valid /\ p.up
    BY <2>1, ObjectUp
  <2>3. o \in SocketObject /\ o.fd = obj[a].fd /\ o.valid /\ o.up
    <3> HIDE DEF p
    <3>1. CASE in
      <4>1. 0 \in 0..SilentAge
        BY NumbersAssumption
      <4>2. o = [p EXCEPT !.age = 0]
        BY <3>1 DEF Receiving
      <4> HIDE DEF o
      <4> QED
        BY <2>2, <4>1, <4>2, ObjectAge
    <3>2. CASE ~in
      BY <2>2, <3>2 DEF Receiving
    <3> QED
      BY <3>1, <3>2
  <2>4. obj' = [obj EXCEPT ![a] = o]
    BY <1>2 DEF Proceeds
  <2> HIDE DEF o
  <2>5. \E ob \in SocketObject :
          obj' = [obj EXCEPT ![a] = ob] /\ ob.fd = obj[a].fd /\ ob.valid /\ ob.up
    BY <2>3, <2>4
  <2> QED
    BY <1>2, <2>1, <2>5 DEF Proceeds, Starts, NoError
<1> QED
  BY <1>1, <1>2

\* The two callers of OnBeforeProcessIo.
LEMMA HandlerStep ==
  ASSUME Shape, CommandSend \/ \E e \in batch : ProcessIo(e)
  PROVE  /\ UNCHANGED <<sockMap, app, count, sock, interest, beats, rx, via, lost>>
         /\ batch' \subseteq batch /\ left' \in 0..left /\ crashed' \in BOOLEAN
         /\ wpc \in {"loop", "command"} /\ wptr' \in Addr \cup {wptr, Nil}
         /\ \E q \in {cmdQ, Tail(cmdQ)} :
              /\ \/ q = cmdQ
                 \/ cmdQ # <<>> /\ Head(cmdQ).op = "send" /\ q = Tail(cmdQ)
              /\ \/ cmdQ' = q /\ wpc' = wpc /\ UNCHANGED <<obj, told, ready, net>>
                 \/ wpc' = wpc /\ \E a \in Addr : Refuses(a, q)
                 \/ \E a \in Addr : /\ Starts(a, q)
                                    /\ \/ wpc' = wpc
                                       \/ wpc' = "read" /\ wptr' = a
<1>1. CASE CommandSend
  <2>1. /\ wpc = "command" /\ cmdQ # <<>> /\ Head(cmdQ).op = "send"
        /\ left > 0 /\ left' = left - 1
        /\ UNCHANGED <<sockMap, app, wpc, wptr, batch, count, crashed, sock, interest, beats,
                       rx, via, lost>>
        /\ LET a == sockMap[Head(cmdQ).fd] IN
             Skips(a, Tail(cmdQ)) \/ Proceeds(a, FALSE, Tail(cmdQ))
    BY <1>1 DEF CommandSend, Executing
  <2>2. sockMap[Head(cmdQ).fd] \in Addr \cup {Nil} /\ TypeOK
    <3>1. cmdQ \in Seq(Command) /\ cmdQ # <<>> /\ sockMap \in [Fd -> Addr \cup {Nil}]
      BY <2>1 DEF Shape, TypeOK
    <3>2. Head(cmdQ) \in Command
      BY <3>1
    <3>3. Head(cmdQ).fd \in Fd
      BY <3>2 DEF Command
    <3> QED
      BY <3>1, <3>3 DEF Shape
  <2>3. FALSE \in BOOLEAN
    OBVIOUS
  <2> DEFINE a == sockMap[Head(cmdQ).fd]
  <2>4. a \in Addr \cup {Nil} /\ (Skips(a, Tail(cmdQ)) \/ Proceeds(a, FALSE, Tail(cmdQ)))
    BY <2>1, <2>2
  <2> HIDE DEF a
  <2>5. \/ cmdQ' = Tail(cmdQ) /\ UNCHANGED <<obj, told, ready, net>>
        \/ a \in Addr /\ Refuses(a, Tail(cmdQ))
        \/ a \in Addr /\ Starts(a, Tail(cmdQ))
    BY <2>2, <2>3, <2>4, HandleEffect
  <2>6. left' \in 0..left /\ crashed' \in BOOLEAN
    BY <2>1 DEF Shape, TypeOK
  <2>7. \/ cmdQ' = Tail(cmdQ) /\ wpc' = wpc /\ UNCHANGED <<obj, told, ready, net>>
        \/ wpc' = wpc /\ \E b \in Addr : Refuses(b, Tail(cmdQ))
        \/ \E b \in Addr : /\ Starts(b, Tail(cmdQ))
                           /\ \/ wpc' = wpc
                              \/ wpc' = "read" /\ wptr' = b
    BY <2>1, <2>5
  <2> QED
    BY <2>1, <2>6, <2>7
<1>2. CASE \E e \in batch : ProcessIo(e)
  <2>0. PICK e \in batch : ProcessIo(e)
    BY <1>2
  <2>1. /\ UNCHANGED <<sockMap, app, left, count, sock, interest, beats, rx, via, lost>>
        /\ wpc = "loop" /\ e.ptr \in Addr /\ batch' = batch \ {e}
    BY <2>0 DEF ProcessIo
  <2>2. e.in \in BOOLEAN /\ TypeOK /\ left' \in 0..left
    BY <2>1 DEF Shape, TypeOK, Event
  <2>3. CASE Skips(e.ptr, cmdQ) /\ UNCHANGED <<wpc, wptr, crashed>>
    <3>1. \/ cmdQ' = cmdQ /\ UNCHANGED <<obj, told, ready, net>>
          \/ Refuses(e.ptr, cmdQ)
      BY <2>3 DEF Skips, Refused, Refuses, Trigger
    <3> QED
      BY <2>1, <2>2, <2>3, <3>1 DEF TypeOK
  <2>4. CASE /\ Proceeds(e.ptr, e.in, cmdQ) /\ UNCHANGED crashed
             /\ wpc' = IF e.in THEN "read" ELSE "loop"
             /\ wptr' = IF e.in THEN e.ptr ELSE Nil
    <3>1. IsValid(e.ptr)
      BY <2>4 DEF Proceeds
    <3>2. Starts(e.ptr, cmdQ)
      BY <2>1, <2>2, <2>4, <3>1, HandleEffect DEF Refuses, Proceeds, NoError
    <3>3. \E b \in Addr : /\ Starts(b, cmdQ)
                         /\ \/ wpc' = wpc
                            \/ wpc' = "read" /\ wptr' = b
      BY <2>1, <2>4, <3>2
    <3>4. crashed' \in BOOLEAN /\ wptr' \in Addr \cup {wptr, Nil} /\ batch' \subseteq batch
      BY <2>1, <2>2, <2>4 DEF TypeOK
    <3> QED
      BY <2>1, <2>2, <3>3, <3>4
  <2>5. CASE crashed' = TRUE /\ UNCHANGED <<cmdQ, obj, wpc, wptr, ready, net, told>>
    BY <2>1, <2>2, <2>5
  <2> QED
    BY <2>0, <2>3, <2>4, <2>5 DEF ProcessIo
<1> QED
  BY <1>1, <1>2

\* RemoveObject makes one valid object invalid.
LEMMA RemoveEffect ==
  ASSUME TypeOK, RemoveObject
  PROVE  \E a \in Addr :
           /\ wpc = "command" /\ wpc' = "close" /\ wptr' = a
           /\ cmdQ # <<>> /\ Head(cmdQ).op = "disconnect" /\ sockMap[Head(cmdQ).fd] = a
           /\ left > 0 /\ IsValid(a)
           /\ \E o \in SocketObject :
                /\ obj' = [obj EXCEPT ![a] = o]
                /\ o.fd = obj[a].fd /\ o.up = obj[a].up /\ ~o.valid
           /\ Hear(Of(a), "bye")
           /\ UNCHANGED <<sockMap, cmdQ, app, batch, left, count, crashed, kernel, via, lost>>
<1> DEFINE a == sockMap[Head(cmdQ).fd]
<1>1. /\ wpc = "command" /\ wpc' = "close" /\ wptr' = a
      /\ cmdQ # <<>> /\ Head(cmdQ).op = "disconnect" /\ left > 0 /\ IsValid(a)
      /\ obj' = [obj EXCEPT ![a].valid = FALSE]
      /\ Hear(Of(a), "bye")
      /\ UNCHANGED <<sockMap, cmdQ, app, batch, left, count, crashed, kernel, via, lost>>
  BY DEF RemoveObject, Executing
<1>2. a \in Addr
  <2>1. cmdQ \in Seq(Command) /\ sockMap \in [Fd -> Addr \cup {Nil}]
    BY DEF TypeOK
  <2>2. Head(cmdQ) \in Command
    BY <1>1, <2>1
  <2>3. Head(cmdQ).fd \in Fd
    BY <2>2 DEF Command
  <2> QED
    BY <1>1, <2>1, <2>3 DEF IsValid
<1>3. sockMap[Head(cmdQ).fd] = a
  OBVIOUS
<1> HIDE DEF a
<1>4. obj[a] \in SocketObject
  BY <1>1, <1>2 DEF TypeOK, IsValid
<1> DEFINE o == [obj[a] EXCEPT !.valid = FALSE]
<1>5. o \in SocketObject /\ o.fd = obj[a].fd /\ o.up = obj[a].up /\ ~o.valid
  BY <1>4, ObjectInvalid
<1>6. obj' = [obj EXCEPT ![a] = o]
  BY <1>1
<1> HIDE DEF o
<1> QED
  BY <1>1, <1>2, <1>3, <1>5, <1>6

\* A heartbeat changes the age of objects only.
LEMMA TickEffect ==
  ASSUME TypeOK, Tick
  PROVE  /\ obj' \in [Addr -> SocketObject \cup {Nil}]
         /\ \A a \in Addr : /\ (obj'[a] = Nil) = (obj[a] = Nil)
                            /\ obj[a] # Nil =>
                                 /\ obj'[a].fd = obj[a].fd
                                 /\ obj'[a].valid = obj[a].valid
                                 /\ obj'[a].up = obj[a].up
<1>1. obj \in [Addr -> SocketObject \cup {Nil}]
  BY DEF TypeOK
<1> DEFINE aged(a) == [obj[a] EXCEPT !.age = Min2(obj[a].age + 1, SilentAge)]
<1>2. obj' = [a \in Addr |-> IF obj[a] = Nil THEN Nil ELSE aged(a)]
  BY DEF Tick, Freed
<1>3. ASSUME NEW a \in Addr, obj[a] # Nil
      PROVE  /\ aged(a) \in SocketObject /\ aged(a) # Nil
             /\ aged(a).fd = obj[a].fd /\ aged(a).valid = obj[a].valid
             /\ aged(a).up = obj[a].up
  <2>1. obj[a] \in SocketObject
    BY <1>1, <1>3
  <2>2. Min2(obj[a].age + 1, SilentAge) \in 0..SilentAge
    BY <2>1, NumbersAssumption DEF SocketObject, Min2
  <2> QED
    BY <2>1, <2>2, NilAssumption DEF SocketObject
<1> HIDE DEF aged
<1> QED
  BY <1>2, <1>3

\* AddSocketObject makes one object.
LEMMA InsertEffect ==
  ASSUME TypeOK, NEW t \in App, Insert(t), dial[t] \in Dial
  PROVE  \E a \in Addr, o \in SocketObject :
           /\ o.fd = dial[t].fd /\ o.valid /\ o.up = (via[dial[t].conn] = "app") /\ o # Nil
           /\ obj[a] = Nil /\ obj' = [obj EXCEPT ![a] = o]
           /\ sockMap[dial[t].fd] = Nil /\ sockMap' = [sockMap EXCEPT ![dial[t].fd] = a]
           /\ dial' = [dial EXCEPT ![t] = [dial[t] EXCEPT !.a = a]]
           /\ [dial[t] EXCEPT !.a = a] = [fd |-> dial[t].fd, conn |-> dial[t].conn, a |-> a]
<1> DEFINE f == dial[t].fd
           o == NewObject(f, via[dial[t].conn] = "app")
<1>1. f \in Fd /\ dial[t].conn \in Conn
  BY DEF Dial
<1>2. PICK a \in Addr : /\ Freed(a) /\ obj' = [obj EXCEPT ![a] = o]
                        /\ sockMap[f] = Nil /\ sockMap' = [sockMap EXCEPT ![f] = a]
                        /\ dial' = [dial EXCEPT ![t].a = a]
  BY DEF Insert
<1>3. SilentAge \in 0..SilentAge /\ (via[dial[t].conn] = "app") \in BOOLEAN
  BY NumbersAssumption
<1>4. o \in SocketObject /\ o.fd = f /\ o.valid /\ o.up = (via[dial[t].conn] = "app")
  BY <1>1, <1>3 DEF NewObject, SocketObject
<1>5. [dial[t] EXCEPT !.a = a] = [fd |-> dial[t].fd, conn |-> dial[t].conn, a |-> a]
  BY DEF Dial
<1>6. o # Nil
  BY <1>4, NilAssumption
<1> HIDE DEF o
<1> QED
  BY <1>2, <1>4, <1>5, <1>6 DEF Freed

\* A queued disconnect stays in a queue that grows, and in one that loses
\* another command.
LEMMA DoomedGrows ==
  ASSUME NEW f \in Fd, cmdQ \in Seq(Command), NEW calls \in Seq(Command),
         Doomed(f), cmdQ' = cmdQ \o calls
  PROVE  Doomed(f)'
<1>1. PICK i \in 1..Len(cmdQ) : cmdQ[i] = Call("disconnect", f)
  BY DEF Doomed
<1>2. i \in 1..Len(cmdQ') /\ cmdQ'[i] = cmdQ[i]
  BY <1>1
<1>3. DOMAIN cmdQ' = 1..Len(cmdQ')
  OBVIOUS
<1> QED
  BY <1>1, <1>2, <1>3 DEF Doomed, Call

\* It stays too when a command other than it is executed.
LEMMA DoomedStays ==
  ASSUME NEW f \in Fd, cmdQ \in Seq(Command), cmdQ # <<>>,
         Head(cmdQ) # Call("disconnect", f), Doomed(f),
         NEW calls \in Seq(Command), cmdQ' = Tail(cmdQ) \o calls
  PROVE  Doomed(f)'
<1>1. PICK i \in 1..Len(cmdQ) : cmdQ[i] = Call("disconnect", f)
  BY DEF Doomed
<1>2. i # 1
  BY <1>1
<1>3. /\ Tail(cmdQ) \in Seq(Command) /\ Len(Tail(cmdQ)) = Len(cmdQ) - 1
      /\ i - 1 \in 1..Len(Tail(cmdQ)) /\ Tail(cmdQ)[i - 1] = cmdQ[i]
  BY <1>1, <1>2
<1>4. i - 1 \in 1..Len(cmdQ') /\ cmdQ'[i - 1] = Tail(cmdQ)[i - 1]
  BY <1>3
<1>5. DOMAIN cmdQ' = 1..Len(cmdQ')
  BY <1>3
<1> QED
  BY <1>1, <1>3, <1>4, <1>5 DEF Doomed, Call

\* A disconnect just queued is queued.
LEMMA DoomedLast ==
  ASSUME NEW f \in Fd, NEW q \in Seq(Command), cmdQ' = q \o <<Call("disconnect", f)>>
  PROVE  Doomed(f)'
<1>1. Call("disconnect", f) \in Command
  BY DEF Call, Command
<1> DEFINE d == Call("disconnect", f)
<1> HIDE DEF d
<1>2. d \in Command
  BY <1>1 DEF d
<1>3. q \o <<d>> \in Seq(Command) /\ Len(q \o <<d>>) = Len(q) + 1 /\ (q \o <<d>>)[Len(q) + 1] = d
  BY <1>2
<1>4. cmdQ' = q \o <<d>>
  BY DEF d
<1>5. Len(q) + 1 \in DOMAIN cmdQ' /\ cmdQ'[Len(q) + 1] = d
  BY <1>3, <1>4
<1> QED
  BY <1>5 DEF Doomed, d, Call

\* The commands of a sweep.
LEMMA SweepCalls ==
  ASSUME NEW s \in SetToSeqs(Silent)
  PROVE  [i \in DOMAIN s |-> Call("disconnect", s[i])] \in Seq(Command)
<1>1. Silent \subseteq Fd /\ IsFiniteSet(Silent)
  BY NumbersAssumption, FS_Subset DEF Silent
<1>2. Cardinality(Silent) \in Nat
  BY <1>1, FS_CardinalityType
<1>3. s \in [1..Cardinality(Silent) -> Silent]
  BY DEF SetToSeqs
<1>4. \A i \in DOMAIN s : Call("disconnect", s[i]) \in Command
  BY <1>1, <1>3 DEF Call, Command
<1> QED
  BY <1>2, <1>3, <1>4

\* A queue that grows keeps its head.
LEMMA QueueGrows ==
  ASSUME NEW q \in Seq(Command), NEW calls \in Seq(Command)
  PROVE  /\ q \o calls \in Seq(Command)
         /\ q # <<>> => q \o calls # <<>> /\ Head(q \o calls) = Head(q)
<1>1. q \o calls \in Seq(Command) /\ Len(q \o calls) = Len(q) + Len(calls)
  OBVIOUS
<1>2. ASSUME q # <<>> PROVE q \o calls # <<>> /\ Head(q \o calls) = Head(q)
  <2>1. Len(q) > 0 /\ Len(calls) >= 0
    BY <1>2
  <2>2. (q \o calls)[1] = q[1]
    BY <2>1
  <2> QED
    BY <1>1, <2>1, <2>2
<1> QED
  BY <1>1, <1>2

\* A callback counts once for its connection and for nobody else.
LEMMA HearEffect ==
  ASSUME TypeOK, NEW c \in Conn, NEW what \in {"hi", "bye"}, Hear(c, what)
  PROVE  /\ told' \in [Conn -> [hi : 0..2, bye : 0..2]]
         /\ \A d \in Conn \ {c} : told'[d] = told[d]
         /\ told'[c][what] = Min2(told[c][what] + 1, 2)
         /\ \A w \in {"hi", "bye"} \ {what} : told'[c][w] = told[c][w]
<1>1. told \in [Conn -> [hi : 0..2, bye : 0..2]]
  BY DEF TypeOK
<1>2. told[c] \in [hi : 0..2, bye : 0..2] /\ told[c][what] \in 0..2
  BY <1>1
<1> DEFINE n == Min2(told[c][what] + 1, 2)
           r == [told[c] EXCEPT ![what] = n]
<1>3. n \in 0..2
  BY <1>2 DEF Min2
<1>4. told' = [told EXCEPT ![c] = r]
  BY DEF Hear
<1> HIDE DEF n
<1>5. /\ r \in [hi : 0..2, bye : 0..2] /\ r[what] = n
      /\ \A w \in {"hi", "bye"} \ {what} : r[w] = told[c][w]
  BY <1>2, <1>3
<1> HIDE DEF r
<1> QED
  BY <1>1, <1>4, <1>5 DEF n

\* Callbacks keep the type of told.
LEMMA HearType ==
  ASSUME TypeOK, NEW c, Hear(c, "hi") \/ Hear(c, "bye")
  PROVE  told' \in [Conn -> [hi : 0..2, bye : 0..2]]
<1>1. CASE c \in Conn
  BY <1>1, HearEffect
<1>2. CASE c \notin Conn
  <2>1. told' = told
    BY <1>2 DEF Hear, TypeOK
  <2> QED
    BY <2>1 DEF TypeOK
<1> QED
  BY <1>1, <1>2

----------------------------------------------------------------------------
(* Type correctness.                                                        *)

\* The program starts with nothing open.
LEMMA ShapeInit == Init => Shape
<1> SUFFICES ASSUME Init PROVE Shape
  OBVIOUS
<1>1. /\ 0 \in 0..CmdBudget /\ 0 \in 0..(KeepAlive - 1) /\ 0 \in 0..MaxBeats /\ 0 \in 0..MaxRx
      /\ [hi |-> 0, bye |-> 0] \in [hi : 0..2, bye : 0..2]
  BY NumbersAssumption
<1>2. /\ cmdQ \in Seq(Command) /\ batch \in SUBSET Event
      /\ ready \in SUBSET (Fd \cup {CmdEvt, TimerEvt})
      /\ sockMap \in [Fd -> Addr \cup {Nil}] /\ obj \in [Addr -> SocketObject \cup {Nil}]
      /\ dial \in [App -> Dial \cup {Nil}]
      /\ pc \in [App -> {"idle", "connect", "insert", "watch", "announce"}]
  BY DEF Init
<1>3. /\ sock \in [Fd -> Conn \cup {Nil}] /\ interest \in [Fd -> Addr \cup {Nil}]
      /\ net \in [Conn -> NetState] /\ rx \in [Conn -> 0..MaxRx]
      /\ told \in [Conn -> [hi : 0..2, bye : 0..2]]
      /\ via \in [Conn -> {"app", "worker"}] /\ lost \in [Conn -> BOOLEAN]
  BY <1>1 DEF Init, NetState
<1>4. TypeOK
  BY <1>1, <1>2, <1>3 DEF Init, TypeOK
<1>5. DialHeld /\ WorkerHeld /\ ReadyWatched
  BY DEF Init, DialHeld, WorkerHeld, ReadyWatched
<1> QED
  BY <1>4, <1>5 DEF Shape

\* The network and the clock keep every variable's type.
LEMMA EnvironmentShape == ASSUME Shape, Environment PROVE Shape'
<1> USE NamesAssumption, NumbersAssumption
<1>1. ASSUME NEW c \in Conn, Resolve(c) \/ PeerSend(c) \/ PeerClose(c) PROVE Shape'
  <2>0. /\ UNCHANGED <<table, cmdQ, app, worker, crashed, sock, interest, beats, ghost>>
        /\ ready' \in SUBSET (Fd \cup {CmdEvt, TimerEvt})
    BY <1>1 DEF Resolve, PeerSend, PeerClose, Watching, Shape, TypeOK
  <2>0a. net' \in [Conn -> NetState]
    BY <1>1 DEF Resolve, PeerSend, PeerClose, Shape, TypeOK, NetState
  <2>0b. rx' \in [Conn -> 0..MaxRx]
    <3>1. CASE PeerSend(c)
      <4>1. rx[c] + 1 \in 0..MaxRx
        BY <3>1 DEF PeerSend, Shape, TypeOK
      <4> QED
        BY <3>1, <4>1 DEF PeerSend, Shape, TypeOK
    <3>2. CASE Resolve(c) \/ PeerClose(c)
      BY <3>2 DEF Resolve, PeerClose, Shape, TypeOK
    <3> QED
      BY <1>1, <3>1, <3>2
  <2>1. TypeOK'
    BY <2>0, <2>0a, <2>0b DEF Shape, TypeOK, table, app, worker, ghost
  <2>2. (DialHeld /\ WorkerHeld /\ ReadyWatched)'
    BY <1>1
    DEF Resolve, PeerSend, PeerClose, Watching, Shape, DialHeld, WorkerHeld, ReadyWatched,
        Freed, table, app, worker, ghost
  <2> QED
    BY <2>1, <2>2 DEF Shape
<1>2. CASE Tick
  <2>1. /\ obj' \in [Addr -> SocketObject \cup {Nil}]
        /\ \A a \in Addr : /\ (obj'[a] = Nil) = (obj[a] = Nil)
                           /\ obj[a] # Nil => /\ obj'[a].fd = obj[a].fd
                                              /\ obj'[a].valid = obj[a].valid
                                              /\ obj'[a].up = obj[a].up
    BY <1>2, TickEffect DEF Shape
  <2>2. beats' \in 0..MaxBeats /\ ready' \in SUBSET (Fd \cup {CmdEvt, TimerEvt})
    BY <1>2 DEF Tick, Shape, TypeOK
  <2>3. TypeOK'
    BY <1>2, <2>1, <2>2 DEF Tick, Shape, TypeOK, app, worker, ghost
  <2>4. (DialHeld /\ WorkerHeld /\ ReadyWatched)'
    BY <1>2, <2>1
    DEF Tick, Shape, TypeOK, DialHeld, WorkerHeld, ReadyWatched, Freed, Call, app, worker, ghost
  <2> QED
    BY <2>3, <2>4 DEF Shape
<1> QED
  BY <1>1, <1>2 DEF Environment

\* So does each step of an application thread,
LEMMA AppShape == ASSUME Shape, NEW t \in App, AppCall(t) \/ AppStep(t) PROVE Shape'
<1> USE NamesAssumption, NumbersAssumption, NilAssumption
<1>a. dial[t] # Nil => dial[t] \in Dial /\ dial[t].fd \in Fd /\ dial[t].conn \in Conn
  BY DEF Shape, TypeOK, Dial
<1>1. CASE ConnectToRemote(t) \/ AsynchConnectTo(t)
  <2>1. PICK f \in Fd, c \in Conn :
          \/ Begins(t, f, c, "syn") /\ UnderWay(t, f, c, "connect", "syn")
          \/ Begins(t, f, c, "syn") /\ UnderWay(t, f, c, "insert", "syn")
          \/ Begins(t, f, c, "up") /\ UnderWay(t, f, c, "insert", "up")
          \/ Begins(t, f, c, "dead") /\ FailedAtOnce(c)
    BY <1>1, ConnectEffect
  <2>2. UNCHANGED <<table, cmdQ, worker, crashed, interest, ready, beats, rx, told>>
    BY <1>1, ConnectEffect
  <2>3. [fd |-> f, conn |-> c, a |-> Nil] \in Dial
    BY DEF Dial
  <2>4. sock' \in [Fd -> Conn \cup {Nil}] /\ net' \in [Conn -> NetState]
    <3>1. PICK state \in NetState : net' = [net EXCEPT ![c] = state]
      BY <2>1 DEF Begins, NetState
    <3>2. sock' = [sock EXCEPT ![f] = c]
      BY <2>1 DEF Begins
    <3> QED
      BY <3>1, <3>2 DEF Shape, TypeOK
  <2>4a. via' \in [Conn -> {"app", "worker"}] /\ lost' \in [Conn -> BOOLEAN]
    <3>1. via' = via \/ via' = [via EXCEPT ![c] = "app"]
      BY <2>1 DEF UnderWay, FailedAtOnce
    <3>2. lost' = lost \/ lost' = [lost EXCEPT ![c] = TRUE]
      BY <2>1 DEF UnderWay, FailedAtOnce
    <3> QED
      BY <3>1, <3>2 DEF Shape, TypeOK
  <2>5. dial' \in [App -> Dial \cup {Nil}]
    <3>1. dial \in [App -> Dial \cup {Nil}]
      BY DEF Shape, TypeOK
    <3>2. \/ dial' = [dial EXCEPT ![t] = [fd |-> f, conn |-> c, a |-> Nil]]
          \/ dial' = dial
      BY <2>1 DEF UnderWay, FailedAtOnce
    <3> QED
      BY <2>3, <3>1, <3>2
  <2>5a. pc' \in [App -> {"idle", "connect", "insert", "watch", "announce"}]
    BY <2>1 DEF UnderWay, FailedAtOnce, Shape, TypeOK
  <2>6. TypeOK'
    BY <2>2, <2>4, <2>4a, <2>5, <2>5a DEF Shape, TypeOK, table, worker
  <2>7. DialHeld'
    <3>1. SUFFICES ASSUME NEW u \in App
                   PROVE  /\ pc'[u] # "idle" => dial'[u] # Nil
                          /\ pc'[u] = "watch" => dial'[u].a \in Addr
                          /\ pc'[u] = "announce" => via'[dial'[u].conn] = "app"
      BY DEF DialHeld
    <3>2. CASE u = t
      BY <2>1, <2>3, <3>2 DEF Begins, UnderWay, FailedAtOnce, Shape, TypeOK, DialHeld
    <3>3. CASE u # t
      <4>1. pc'[u] = pc[u] /\ dial'[u] = dial[u] /\ (pc[u] # "idle" => dial[u].conn \in Conn)
        BY <2>1, <3>3 DEF Begins, UnderWay, FailedAtOnce, Shape, TypeOK, DialHeld, Dial
      <4>2. \A d \in Conn : via[d] = "app" => via'[d] = "app"
        BY <2>1 DEF UnderWay, FailedAtOnce, Shape, TypeOK
      <4> QED
        BY <4>1, <4>2 DEF Shape, DialHeld
    <3> QED
      BY <3>2, <3>3
  <2>8. (WorkerHeld /\ ReadyWatched)'
    BY <2>1, <2>2
    DEF Begins, Shape, TypeOK, WorkerHeld, ReadyWatched, Freed, Call, table, worker
  <2> QED
    BY <2>6, <2>7, <2>8 DEF Shape
<1>2. CASE Connected(t)
  <2>1. TypeOK'
    BY <1>2 DEF Connected, Shape, TypeOK, table, worker, kernel
  <2>2. (DialHeld /\ WorkerHeld /\ ReadyWatched)'
    BY <1>2, <1>a
    DEF Connected, Shape, TypeOK, DialHeld, WorkerHeld, ReadyWatched, Freed, Call, Dial,
        table, worker, kernel
  <2> QED
    BY <2>1, <2>2 DEF Shape
<1>3. CASE ConnectFails(t)
  <2>1. /\ dial[t] # Nil /\ pc[t] = "connect"
        /\ sock' = [sock EXCEPT ![dial[t].fd] = Nil]
        /\ interest' = [interest EXCEPT ![dial[t].fd] = Nil]
        /\ ready' = ready \ {dial[t].fd}
        /\ net' = [net EXCEPT ![sock[dial[t].fd]] = "closed"]
        /\ rx' = [rx EXCEPT ![sock[dial[t].fd]] = 0]
        /\ dial' = [dial EXCEPT ![t] = Nil] /\ pc' = [pc EXCEPT ![t] = "idle"]
        /\ UNCHANGED <<table, cmdQ, worker, crashed, beats, ghost>>
    BY <1>3 DEF ConnectFails, Close, Shape, DialHeld
  <2>2. /\ sock' \in [Fd -> Conn \cup {Nil}] /\ interest' \in [Fd -> Addr \cup {Nil}]
        /\ ready' \in SUBSET (Fd \cup {CmdEvt, TimerEvt})
    BY <2>1 DEF Shape, TypeOK
  <2>3. net' \in [Conn -> NetState] /\ rx' \in [Conn -> 0..MaxRx]
    <3>1. 0 \in 0..MaxRx /\ "closed" \in NetState
      BY DEF NetState
    <3> QED
      BY <2>1, <3>1 DEF Shape, TypeOK
  <2>4. /\ dial' \in [App -> Dial \cup {Nil}]
        /\ pc' \in [App -> {"idle", "connect", "insert", "watch", "announce"}]
    BY <2>1 DEF Shape, TypeOK
  <2>5. TypeOK'
    BY <2>1, <2>2, <2>3, <2>4 DEF Shape, TypeOK, table, worker, ghost
  <2>6. (DialHeld /\ WorkerHeld /\ ReadyWatched)'
    BY <1>a, <2>1
    DEF Shape, TypeOK, DialHeld, WorkerHeld, ReadyWatched, Freed, Call, table, worker, ghost
  <2> QED
    BY <2>5, <2>6 DEF Shape
<1>4. ASSUME AfterAdd(t), pc[t] # "idle"
      PROVE  /\ dial' \in [App -> Dial \cup {Nil}]
             /\ pc' \in [App -> {"idle", "connect", "insert", "watch", "announce"}]
  <2>1. CASE via[dial[t].conn] = "app"
    BY <1>4, <2>1 DEF AfterAdd, Shape, TypeOK
  <2>2. CASE via[dial[t].conn] # "app"
    <3>1. pc' = [pc EXCEPT ![t] = "idle"] /\ dial' = [dial EXCEPT ![t] = Nil]
      BY <1>4, <2>2 DEF AfterAdd
    <3>2. dial' \in [App -> Dial \cup {Nil}]
      BY <3>1 DEF Shape, TypeOK
    <3> QED
      BY <3>1, <3>2 DEF Shape, TypeOK
  <2> QED
    BY <2>1, <2>2
<1>5. CASE AddRefused(t)
  <2>1. dial[t] # Nil /\ AfterAdd(t) /\ pc[t] # "idle"
    BY <1>5 DEF AddRefused, Shape, DialHeld
  <2>2. lost' \in [Conn -> BOOLEAN]
    BY <1>5 DEF AddRefused, Shape, TypeOK
  <2>3. TypeOK'
    BY <1>4, <1>5, <2>1, <2>2 DEF AddRefused, Shape, TypeOK, table, worker, kernel
  <2>4. DialHeld'
    BY <1>5, <1>a, <2>1 DEF AddRefused, AfterAdd, Shape, TypeOK, DialHeld, Dial
  <2>5. (WorkerHeld /\ ReadyWatched)'
    BY <1>5
    DEF AddRefused, Shape, WorkerHeld, ReadyWatched, Freed, Call, table, worker, kernel
  <2> QED
    BY <2>3, <2>4, <2>5 DEF Shape
<1>6. CASE Insert(t)
  <2>0. dial[t] \in Dial /\ pc[t] = "insert"
    BY <1>6, <1>a DEF Insert, Shape, DialHeld
  <2>1. PICK a \in Addr, o \in SocketObject :
           /\ o.fd = dial[t].fd /\ o.valid /\ o.up = (via[dial[t].conn] = "app") /\ o # Nil
           /\ obj[a] = Nil /\ obj' = [obj EXCEPT ![a] = o]
           /\ sockMap[dial[t].fd] = Nil /\ sockMap' = [sockMap EXCEPT ![dial[t].fd] = a]
           /\ dial' = [dial EXCEPT ![t] = [dial[t] EXCEPT !.a = a]]
           /\ [dial[t] EXCEPT !.a = a] = [fd |-> dial[t].fd, conn |-> dial[t].conn, a |-> a]
    BY <1>6, <2>0, InsertEffect DEF Shape
  <2>2. [fd |-> dial[t].fd, conn |-> dial[t].conn, a |-> a] \in Dial
    BY <2>0, <1>a DEF Dial
  <2>3. /\ obj' \in [Addr -> SocketObject \cup {Nil}] /\ sockMap' \in [Fd -> Addr \cup {Nil}]
        /\ dial' \in [App -> Dial \cup {Nil}]
    <3>1. /\ obj \in [Addr -> SocketObject \cup {Nil}] /\ sockMap \in [Fd -> Addr \cup {Nil}]
          /\ dial \in [App -> Dial \cup {Nil}]
      BY DEF Shape, TypeOK
    <3>2. obj' \in [Addr -> SocketObject \cup {Nil}]
      BY ONLY <2>1, <3>1
    <3>3. sockMap' \in [Fd -> Addr \cup {Nil}]
      BY ONLY <2>1, <3>1
    <3>4. dial' = [dial EXCEPT ![t] = [fd |-> dial[t].fd, conn |-> dial[t].conn, a |-> a]]
      BY <2>1
    <3>5. dial' \in [App -> Dial \cup {Nil}]
      BY ONLY <2>2, <3>1, <3>4
    <3> QED
      BY <3>2, <3>3, <3>5
  <2>4. pc' = [pc EXCEPT ![t] = "watch"] /\ UNCHANGED <<cmdQ, worker, kernel, ghost>>
    BY <1>6 DEF Insert
  <2>5. crashed' \in BOOLEAN
    BY <1>6 DEF Insert, MapInUse
  <2>6. TypeOK'
    BY <2>3, <2>4, <2>5 DEF Shape, TypeOK, worker, kernel, ghost
  <2>7. DialHeld'
    <3>1. dial'[t] = [fd |-> dial[t].fd, conn |-> dial[t].conn, a |-> a] /\ dial'[t] # Nil
      <4>1. dial' = [dial EXCEPT ![t] = [fd |-> dial[t].fd, conn |-> dial[t].conn, a |-> a]]
        BY <2>1
      <4>2. dial \in [App -> Dial \cup {Nil}]
        BY DEF Shape, TypeOK
      <4> QED
        BY <2>2, <4>1, <4>2
    <3>2. \A u \in App \ {t} : dial'[u] = dial[u] /\ pc'[u] = pc[u]
      BY <2>1, <2>4 DEF Shape, TypeOK
    <3> QED
      BY <2>4, <3>1, <3>2 DEF Shape, TypeOK, DialHeld, ghost
  <2>8. (WorkerHeld /\ ReadyWatched)'
    BY <2>1, <2>4
    DEF Shape, TypeOK, WorkerHeld, ReadyWatched, Freed, Call, worker, kernel
  <2> QED
    BY <2>6, <2>7, <2>8 DEF Shape
<1>7. CASE Watch(t)
  <2>1. dial[t] # Nil /\ AfterAdd(t) /\ pc[t] = "watch" /\ dial[t].a \in Addr
    BY <1>7 DEF Watch, Shape, DialHeld
  <2>2. /\ interest' \in [Fd -> Addr \cup {Nil}]
        /\ ready' \in SUBSET (Fd \cup {CmdEvt, TimerEvt})
        /\ ReadyWatched'
    <3>1. CASE UNCHANGED <<interest, ready>>
      BY <1>7, <3>1 DEF Watch, Shape, TypeOK, ReadyWatched
    <3>2. CASE sock[dial[t].fd] # Nil /\ Registers(dial[t].fd, dial[t].a)
      BY <1>7, <1>a, <2>1, <3>2 DEF Watch, Registers, Shape, TypeOK, ReadyWatched
    <3> QED
      BY <1>7, <3>1, <3>2 DEF Watch
  <2>3. TypeOK'
    BY <1>4, <1>7, <2>1, <2>2 DEF Watch, Shape, TypeOK, table, worker, ghost
  <2>4. DialHeld'
    BY <1>7, <1>a, <2>1 DEF Watch, AfterAdd, Shape, TypeOK, DialHeld, Dial, ghost
  <2>5. WorkerHeld'
    BY <1>7 DEF Watch, Shape, WorkerHeld, Freed, table, worker
  <2> QED
    BY <2>2, <2>3, <2>4, <2>5 DEF Shape
<1>8. CASE Announce(t)
  <2>0. /\ pc[t] = "announce" /\ Hear(dial[t].conn, "hi")
        /\ dial' = [dial EXCEPT ![t] = Nil] /\ pc' = [pc EXCEPT ![t] = "idle"]
        /\ UNCHANGED <<table, cmdQ, worker, crashed, kernel, via, lost>>
    BY <1>8 DEF Announce
  <2>1. told' \in [Conn -> [hi : 0..2, bye : 0..2]]
    BY <1>a, <2>0, HearEffect DEF Shape, DialHeld
  <2>2. /\ dial' \in [App -> Dial \cup {Nil}]
        /\ pc' \in [App -> {"idle", "connect", "insert", "watch", "announce"}]
    BY <2>0 DEF Shape, TypeOK
  <2>3. TypeOK'
    BY <2>0, <2>1, <2>2 DEF Shape, TypeOK, table, worker, kernel
  <2>4. (DialHeld /\ WorkerHeld /\ ReadyWatched)'
    BY <2>0
    DEF Shape, TypeOK, DialHeld, WorkerHeld, ReadyWatched, Freed, Call, table, worker, kernel
  <2> QED
    BY <2>3, <2>4 DEF Shape
<1>9. ASSUME NEW f \in Fd, AppSend(t, f) \/ AppDisconnect(t, f) PROVE Shape'
  <2>1. PICK op \in {"send", "disconnect"} : Trigger(cmdQ, <<Call(op, f)>>)
    BY <1>9 DEF AppSend, AppDisconnect
  <2>2. UNCHANGED <<table, app, worker, crashed, sock, interest, beats, net, rx, ghost>>
    BY <1>9 DEF AppSend, AppDisconnect
  <2>3. cmdQ' \in Seq(Command) /\ (cmdQ # <<>> => cmdQ' # <<>>)
    <3>1. Call(op, f) \in Command
      BY DEF Call, Command
    <3>2. cmdQ \in Seq(Command) /\ <<Call(op, f)>> \in Seq(Command)
      BY <3>1 DEF Shape, TypeOK
    <3> QED
      BY <2>1, <3>2, QueueGrows DEF Trigger
  <2>4. ready' \in SUBSET (Fd \cup {CmdEvt, TimerEvt}) /\ ReadyWatched'
    BY <2>1, <2>2 DEF Trigger, Shape, TypeOK, ReadyWatched
  <2>5. TypeOK'
    BY <2>2, <2>3, <2>4 DEF Shape, TypeOK, table, app, worker, ghost
  <2>6. (DialHeld /\ WorkerHeld)'
    BY <2>2, <2>3
    DEF Shape, TypeOK, DialHeld, WorkerHeld, Freed, Call, table, app, worker, ghost
  <2> QED
    BY <2>4, <2>5, <2>6 DEF Shape
<1> QED
  BY <1>1, <1>2, <1>3, <1>5, <1>6, <1>7, <1>8, <1>9 DEF AppCall, AppStep


\* each handler started for an event or a SEND,
LEMMA HandlerShape ==
  ASSUME Shape, CommandSend \/ \E e \in batch : ProcessIo(e) PROVE Shape'
<1> USE NamesAssumption, NumbersAssumption, NilAssumption
<1>1. /\ UNCHANGED <<sockMap, app, count, sock, interest, beats, rx, via, lost>>
      /\ batch' \subseteq batch /\ left' \in 0..left /\ crashed' \in BOOLEAN
      /\ wpc \in {"loop", "command"} /\ wptr' \in Addr \cup {wptr, Nil}
  BY HandlerStep
<1>2. PICK q \in {cmdQ, Tail(cmdQ)} :
        /\ \/ q = cmdQ
           \/ cmdQ # <<>> /\ Head(cmdQ).op = "send" /\ q = Tail(cmdQ)
        /\ \/ cmdQ' = q /\ wpc' = wpc /\ UNCHANGED <<obj, told, ready, net>>
           \/ wpc' = wpc /\ \E a \in Addr : Refuses(a, q)
           \/ \E a \in Addr : /\ Starts(a, q)
                              /\ \/ wpc' = wpc
                                 \/ wpc' = "read" /\ wptr' = a
  BY HandlerStep
<1>3. q \in Seq(Command)
  <2>1. cmdQ \in Seq(Command)
    BY DEF Shape, TypeOK
  <2> QED
    BY <1>2, <2>1
<1>4. ASSUME /\ cmdQ' \in Seq(Command) /\ obj' \in [Addr -> SocketObject \cup {Nil}]
             /\ told' \in [Conn -> [hi : 0..2, bye : 0..2]] /\ net' \in [Conn -> NetState]
             /\ ready' \in {ready, ready \cup {CmdEvt}} /\ wpc' \in {wpc, "read"}
             /\ wpc' = "read" => /\ wptr' # Nil /\ ~Freed(wptr)'
                                 /\ obj'[wptr'].valid /\ obj'[wptr'].up
      PROVE  Shape'
  <2>1. TypeOK'
    <3>1. left' \in 0..CmdBudget /\ batch' \in SUBSET Event
      BY <1>1 DEF Shape, TypeOK
    <3>2. wpc' \in {"loop", "read", "command", "close", "erase"} /\ wptr' \in Addr \cup {Nil}
      BY <1>1, <1>4 DEF Shape, TypeOK
    <3>3. ready' \in SUBSET (Fd \cup {CmdEvt, TimerEvt})
      BY <1>4 DEF Shape, TypeOK
    <3> QED
      BY <1>1, <1>4, <3>1, <3>2, <3>3 DEF Shape, TypeOK, app
  <2>2. WorkerHeld'
    BY <1>1, <1>4 DEF WorkerHeld
  <2>3. (DialHeld /\ ReadyWatched)'
    BY <1>1, <1>4 DEF Shape, TypeOK, DialHeld, ReadyWatched, app
  <2> QED
    BY <2>1, <2>2, <2>3 DEF Shape
<1>5. CASE cmdQ' = q /\ wpc' = wpc /\ UNCHANGED <<obj, told, ready, net>>
  BY <1>1, <1>3, <1>4, <1>5 DEF Shape, TypeOK
<1>6. ASSUME NEW a \in Addr, Refuses(a, q), wpc' = wpc PROVE Shape'
  <2>1. obj[a] \in SocketObject
    BY <1>6 DEF Refuses, IsValid, Shape, TypeOK
  <2>2. Call("disconnect", obj[a].fd) \in Command
    BY <2>1 DEF SocketObject, Call, Command
  <2>3. cmdQ' \in Seq(Command)
    BY <1>3, <1>6, <2>2 DEF Refuses
  <2>4. net' \in [Conn -> NetState]
    BY <1>6 DEF Refuses, Shape, TypeOK, NetState
  <2> QED
    BY <1>1, <1>4, <1>6, <2>3, <2>4 DEF Refuses, Shape, TypeOK
<1>7. ASSUME NEW a \in Addr, Starts(a, q), wpc' = wpc \/ (wpc' = "read" /\ wptr' = a)
      PROVE Shape'
  <2>1. PICK o \in SocketObject :
          obj' = [obj EXCEPT ![a] = o] /\ o.fd = obj[a].fd /\ o.valid /\ o.up
    BY <1>7 DEF Starts
  <2>2. obj' \in [Addr -> SocketObject \cup {Nil}] /\ obj'[a] = o
    BY <2>1 DEF Shape, TypeOK
  <2>3. told' \in [Conn -> [hi : 0..2, bye : 0..2]]
    <3>1. CASE UNCHANGED told
      BY <3>1 DEF Shape, TypeOK
    <3>2. CASE Hear(Of(a), "hi")
      BY <3>2, HearType DEF Shape
    <3> QED
      BY <1>7, <3>1, <3>2 DEF Starts
  <2> QED
    BY <1>1, <1>3, <1>4, <1>7, <2>1, <2>2, <2>3 DEF Starts, Shape, TypeOK, Freed
<1> QED
  BY <1>2, <1>5, <1>6, <1>7

\* and each step of the worker.
LEMMA WorkerShape == ASSUME Shape, WorkerStep PROVE Shape'
<1> USE NamesAssumption, NumbersAssumption, NilAssumption
<1>1. CASE CommandSend \/ \E e \in batch : ProcessIo(e)
  BY <1>1, HandlerShape
<1>2. CASE EpollWait
  <2>1. ASSUME NEW s \in ready PROVE Report(s) \in Event
    <3>1. CASE s \in Fd
      <4>1. interest[s] \in Addr /\ sock[s] \in Conn
        BY <3>1, <2>1 DEF Shape, TypeOK, ReadyWatched
      <4>2. HasInput(sock[s]) \in BOOLEAN
        BY DEF HasInput
      <4> QED
        BY <3>1, <4>1, <4>2 DEF Report, Event
    <3>2. CASE s \in {CmdEvt, TimerEvt}
      BY <3>2 DEF Report, Event
    <3> QED
      BY <3>1, <3>2, <2>1 DEF Shape, TypeOK
  <2>2. batch' \in SUBSET Event
    BY <1>2, <2>1 DEF EpollWait
  <2> QED
    BY <1>2, <2>2
    DEF EpollWait, Shape, TypeOK, DialHeld, WorkerHeld, ReadyWatched, Freed, table, app, ghost
<1>3. CASE ReadData \/ ReadOver
  <2> DEFINE c == Reading
  <2>1. rx \in [Conn -> 0..MaxRx] /\ rx[c] > 0 /\ rx' = [rx EXCEPT ![c] = rx[c] - 1]
    BY <1>3 DEF ReadData, ReadOver, Shape, TypeOK
  <2> HIDE DEF c
  <2>2. c \in Conn => rx[c] - 1 \in 0..MaxRx
    BY <2>1
  <2>3. rx' \in [Conn -> 0..MaxRx]
    BY <2>1, <2>2
  <2>4. CASE ReadData
    BY <2>3, <2>4
    DEF ReadData, Shape, TypeOK, DialHeld, WorkerHeld, ReadyWatched, Freed, Call,
        table, app, worker, ghost
  <2>5. CASE ReadOver
    BY <2>3, <2>5
    DEF ReadOver, Shape, TypeOK, DialHeld, WorkerHeld, ReadyWatched, Freed, table, app, ghost
  <2> QED
    BY <1>3, <2>4, <2>5
<1>4. CASE ReadEof
  <2>1. obj[wptr] \in SocketObject
    BY <1>4 DEF ReadEof, Shape, TypeOK, WorkerHeld, Freed
  <2>2. Call("disconnect", obj[wptr].fd) \in Command
    BY <2>1 DEF SocketObject, Call, Command
  <2>3. cmdQ' \in Seq(Command) /\ ready' = ready \cup {CmdEvt}
    BY <1>4, <2>2 DEF ReadEof, Trigger, Shape, TypeOK
  <2>4. net' \in [Conn -> NetState]
    BY <1>4 DEF ReadEof, Shape, TypeOK, NetState
  <2> QED
    BY <1>4, <2>3, <2>4
    DEF ReadEof, Shape, TypeOK, DialHeld, WorkerHeld, ReadyWatched, table, app, ghost
<1>5. CASE ReadAgain
  BY <1>5
  DEF ReadAgain, Shape, TypeOK, DialHeld, WorkerHeld, ReadyWatched, table, app, kernel, ghost
<1>6. ASSUME NEW e \in batch, ProcessTimer(e) PROVE Shape'
  <2>1. /\ batch' \in SUBSET Event /\ beats' \in 0..MaxBeats
        /\ UNCHANGED <<table, app, wpc, wptr, left, sock, interest, net, rx, ghost>>
        /\ wpc = "loop"
    BY <1>6 DEF ProcessTimer, Shape, TypeOK
  <2>2. count' \in 0..(KeepAlive - 1) /\ crashed' \in BOOLEAN
    <3>1. count \in Nat /\ beats \in Nat /\ KeepAlive \in Nat \ {0} /\ crashed \in BOOLEAN
      BY DEF Shape, TypeOK
    <3>2. CASE Due
      <4>1. count' = 0 /\ crashed' \in {FALSE, MapInUse(Nil)}
        BY <1>6, <3>2 DEF ProcessTimer
      <4>2. MapInUse(Nil) \in BOOLEAN /\ 0 \in 0..(KeepAlive - 1)
        BY <3>1 DEF MapInUse
      <4> QED
        BY <4>1, <4>2
    <3>3. CASE ~Due
      BY <1>6, <3>1, <3>3 DEF ProcessTimer, Due, Counted
    <3> QED
      BY <3>2, <3>3
  <2>3. cmdQ' \in Seq(Command) /\ ready' \in {ready, ready \cup {CmdEvt}}
    <3>1. CASE UNCHANGED <<cmdQ, ready>>
      BY <3>1 DEF Shape, TypeOK
    <3>2. ASSUME NEW s \in SetToSeqs(Silent),
                 Trigger(cmdQ, [i \in DOMAIN s |-> Call("disconnect", s[i])])
          PROVE  cmdQ' \in Seq(Command) /\ ready' = ready \cup {CmdEvt}
      <4> DEFINE calls == [i \in DOMAIN s |-> Call("disconnect", s[i])]
      <4>1. calls \in Seq(Command) /\ cmdQ \in Seq(Command)
        BY SweepCalls DEF Shape, TypeOK
      <4>2. Trigger(cmdQ, calls)
        BY <3>2
      <4> HIDE DEF calls
      <4> QED
        BY <4>1, <4>2 DEF Trigger
    <3> QED
      BY <1>6, <3>1, <3>2 DEF ProcessTimer
  <2>4. ready' \in SUBSET (Fd \cup {CmdEvt, TimerEvt}) /\ ReadyWatched'
    BY <2>1, <2>3 DEF Shape, TypeOK, ReadyWatched
  <2>5. TypeOK'
    BY <2>1, <2>2, <2>3, <2>4 DEF Shape, TypeOK, table, app, ghost
  <2>6. (DialHeld /\ WorkerHeld)'
    BY <2>1 DEF Shape, DialHeld, WorkerHeld, app, ghost
  <2> QED
    BY <2>4, <2>5, <2>6 DEF Shape
<1>7. ASSUME NEW e \in batch, StartCommands(e) PROVE Shape'
  BY <1>7
  DEF StartCommands, Shape, TypeOK, DialHeld, WorkerHeld, ReadyWatched, table, app, kernel, ghost
<1>8. CASE CommandsDone
  BY <1>8
  DEF CommandsDone, Shape, TypeOK, DialHeld, WorkerHeld, ReadyWatched, table, app, kernel, ghost
<1>9. CASE CommandNotFound
  <2>1. cmdQ' \in Seq(Command) /\ left' \in 0..CmdBudget
    BY <1>9 DEF CommandNotFound, Executing, Shape, TypeOK
  <2> QED
    BY <1>9, <2>1
    DEF CommandNotFound, Executing, Shape, TypeOK, DialHeld, WorkerHeld, ReadyWatched,
        table, app, kernel, ghost
<1>10. CASE RemoveObject
  <2>1. PICK a \in Addr :
           /\ wpc = "command" /\ wpc' = "close" /\ wptr' = a
           /\ cmdQ # <<>> /\ Head(cmdQ).op = "disconnect" /\ sockMap[Head(cmdQ).fd] = a
           /\ left > 0 /\ IsValid(a)
           /\ \E o \in SocketObject :
                /\ obj' = [obj EXCEPT ![a] = o]
                /\ o.fd = obj[a].fd /\ o.up = obj[a].up /\ ~o.valid
           /\ Hear(Of(a), "bye")
           /\ UNCHANGED <<sockMap, cmdQ, app, batch, left, count, crashed, kernel, via, lost>>
    BY <1>10, RemoveEffect DEF Shape
  <2>2. PICK o \in SocketObject :
          obj' = [obj EXCEPT ![a] = o] /\ o.fd = obj[a].fd /\ ~o.valid
    BY <2>1
  <2>3. obj' \in [Addr -> SocketObject \cup {Nil}] /\ obj'[a] = o
    BY <2>2 DEF Shape, TypeOK
  <2>4. told' \in [Conn -> [hi : 0..2, bye : 0..2]]
    BY <2>1, HearType DEF Shape
  <2>5. TypeOK'
    BY <2>1, <2>3, <2>4 DEF Shape, TypeOK, app, kernel
  <2>6. WorkerHeld'
    BY <2>1, <2>2, <2>3 DEF WorkerHeld, Freed
  <2>7. (DialHeld /\ ReadyWatched)'
    BY <2>1 DEF Shape, DialHeld, ReadyWatched, app, kernel
  <2> QED
    BY <2>5, <2>6, <2>7 DEF Shape
<1>11. CASE RemoveClose
  <2>1. obj[wptr] \in SocketObject /\ obj[wptr].fd \in Fd
    BY <1>11 DEF RemoveClose, Shape, TypeOK, WorkerHeld, Freed, SocketObject
  <2> DEFINE f == obj[wptr].fd
  <2>2. /\ sock' = [sock EXCEPT ![f] = Nil] /\ interest' = [interest EXCEPT ![f] = Nil]
        /\ ready' = ready \ {f}
        /\ net' = [net EXCEPT ![sock[f]] = "closed"] /\ rx' = [rx EXCEPT ![sock[f]] = 0]
        /\ wpc = "close" /\ wpc' = "erase"
        /\ UNCHANGED <<table, cmdQ, app, wptr, batch, left, count, crashed, beats, ghost>>
    BY <1>11 DEF RemoveClose, Close
  <2>3. 0 \in 0..MaxRx /\ "closed" \in NetState
    BY DEF NetState
  <2>4. TypeOK'
    BY <2>1, <2>2, <2>3 DEF Shape, TypeOK, table, app, ghost
  <2>5. (DialHeld /\ WorkerHeld /\ ReadyWatched)'
    BY <2>1, <2>2
    DEF Shape, TypeOK, DialHeld, WorkerHeld, ReadyWatched, Freed, table, app, ghost
  <2> QED
    BY <2>4, <2>5 DEF Shape
<1>12. CASE RemoveErase
  <2>1. wptr \in Addr /\ left - 1 \in 0..CmdBudget
    BY <1>12 DEF RemoveErase, Shape, TypeOK, WorkerHeld
  <2>2. cmdQ' \in Seq(Command)
    BY <1>12 DEF RemoveErase, Shape, TypeOK, WorkerHeld
  <2>3. /\ sockMap' \in [Fd -> Addr \cup {Nil}] /\ obj' \in [Addr -> SocketObject \cup {Nil}]
    BY <1>12, <2>1 DEF RemoveErase, Shape, TypeOK
  <2>4. TypeOK'
    BY <1>12, <2>1, <2>2, <2>3 DEF RemoveErase, Shape, TypeOK, app, kernel, ghost
  <2>5. (DialHeld /\ WorkerHeld /\ ReadyWatched)'
    BY <1>12
    DEF RemoveErase, Shape, DialHeld, WorkerHeld, ReadyWatched, app, kernel, ghost
  <2> QED
    BY <2>4, <2>5 DEF Shape
<1> QED
  BY <1>1, <1>2, <1>3, <1>4, <1>5, <1>6, <1>7, <1>8, <1>9, <1>10, <1>11, <1>12 DEF WorkerStep

\* Shape is inductive by itself.
LEMMA ShapeStep == Shape /\ [Next]_vars => Shape'
<1> SUFFICES ASSUME Shape, [Next]_vars PROVE Shape'
  OBVIOUS
<1>1. CASE UNCHANGED vars
  BY <1>1 DEF vars, Shape, TypeOK, DialHeld, WorkerHeld, ReadyWatched, Freed
<1>2. CASE Next
  BY <1>2, EnvironmentShape, AppShape, WorkerShape DEF Next
<1> QED
  BY <1>1, <1>2

\* Every variable keeps its type.
THEOREM TypeCorrect == Spec => []TypeOK
<1>1. Shape => TypeOK
  BY DEF Shape
<1> QED
  BY <1>1, ShapeInit, ShapeStep, PTL DEF Spec
=============================================================================
