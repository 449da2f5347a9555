---------------------------- MODULE OutputStream ----------------------------
(***************************************************************************)
(* What SocketObject's output queue and HandleSend promise together: the    *)
(* packets a connection accepts leave it in the order of acceptance, each   *)
(* byte once, into the kernel's buffer, and at most Limit of them are held  *)
(* at a time.  Removing the connection drops what it still holds.           *)
(***************************************************************************)
EXTENDS Naturals, Sequences

CONSTANTS
  Sizes,       \* sizes of packets
  Limit,       \* kMaxNumOfPackets
  Cap          \* bytes the kernel's send buffer holds

VARIABLES
  pending,     \* sizes of the packets accepted and not finished
  done,        \* number of packets finished
  off,         \* bytes of the first pending packet already written
  room,        \* free bytes of the kernel's send buffer
  open

vars == <<pending, done, off, room, open>>

Init ==
  /\ pending = <<>>
  /\ done = 0
  /\ off = 0
  /\ room = Cap
  /\ open = TRUE

Accept(n) ==
  /\ open
  /\ Len(pending) < Limit
  /\ pending' = Append(pending, n)
  /\ UNCHANGED <<done, off, room, open>>

Put ==
  /\ open
  /\ pending # <<>>
  /\ \E n \in 1..(Head(pending) - off) :
       /\ n =< room
       /\ room' = room - n
       /\ off' = off + n
  /\ UNCHANGED <<pending, done, open>>

Finish ==
  /\ open
  /\ pending # <<>>
  /\ off = Head(pending)
  /\ pending' = Tail(pending)
  /\ done' = done + 1
  /\ off' = 0
  /\ UNCHANGED <<room, open>>

Close ==
  /\ open
  /\ open' = FALSE
  /\ pending' = <<>>
  /\ off' = 0
  /\ UNCHANGED <<done, room>>

Drain ==
  /\ \E n \in room + 1..Cap : room' = n
  /\ UNCHANGED <<pending, done, off, open>>

Next == (\E n \in Sizes : Accept(n)) \/ Put \/ Finish \/ Close \/ Drain

Spec == Init /\ [][Next]_vars
=============================================================================
