------------------------------ MODULE DebugNew ------------------------------
(***************************************************************************)
(* The allocator of debug builds: the operators new and delete of           *)
(* debug_new.cpp, called by any number of threads.                          *)
(*                                                                          *)
(* Every block has a header linked into a doubly linked list under          *)
(* new_ptr_lock.  total_mem_alloc is changed under that lock by delete and  *)
(* without it by new.  new_verbose_flag is off and _DEBUG_NEW_TAILCHECK is  *)
(* 0, their defaults; out of memory is not modelled.                        *)
(*                                                                          *)
(* This module has no Next: a client starts a call of its thread t with     *)
(* New(t, b, size, array) or Delete(t, b, array), when InCall(t) is false,  *)
(* and CallStep(t) carries it on.                                           *)
(***************************************************************************)
EXTENDS Naturals, FiniteSets, Sequences, FiniteSetsExt

CONSTANTS
  Thread,
  Block,       \* addresses malloc may return
  new_ptr_list,  \* the head of the list
  Nil,
  TotalRange   \* size_t wraps at this

ASSUME BlocksAssumption ==
  /\ IsFiniteSet(Block)
  /\ new_ptr_list \notin Block /\ Nil \notin Block \cup {new_ptr_list} \cup Thread
  /\ TotalRange \in Nat \ {0}

Node == Block \cup {new_ptr_list}

VARIABLES
  dpc,         \* where each thread stands in new or delete
  dptr,        \* the block of its call
  reg,         \* total_mem_alloc as it has read it
  next, prev,  \* the links
  size, array, \* the rest of the headers
  magic,       \* is the magic number in place
  used,        \* blocks malloc has given out
  lock,        \* holder of new_ptr_lock
  total,       \* total_mem_alloc
  leaks,       \* what check_leaks last returned
  aborted,     \* abort() was called
  counted,     \* ghost: blocks whose size was added to total
  torn         \* ghost: has an update of total been lost

debugVars == <<dpc, dptr, reg, next, prev, size, array, magic, used, lock, total, leaks,
               aborted, counted, torn>>
links  == <<next, prev>>
header == <<size, array>>

DebugInit ==
  /\ dpc = [t \in Thread |-> "out"]
  /\ dptr = [t \in Thread |-> Nil]
  /\ reg = [t \in Thread |-> 0]
  /\ next = [n \in Node |-> new_ptr_list]
  /\ prev = [n \in Node |-> new_ptr_list]
  /\ size = [b \in Block |-> 0]
  /\ array = [b \in Block |-> FALSE]
  /\ magic = [b \in Block |-> FALSE]
  /\ used = {}
  /\ lock = Nil
  /\ total = 0
  /\ leaks = 0
  /\ aborted = FALSE
  /\ counted = {}
  /\ torn = FALSE

InCall(t) == dpc[t] # "out"

Goto(t, place) == dpc' = [dpc EXCEPT ![t] = place]

----------------------------------------------------------------------------
(* alloc_mem.                                                               *)

\* malloc, and the fields of the header.
New(t, b, bytes, isArray) ==
  /\ ~InCall(t)
  /\ b \in Block \ used
  /\ used' = used \cup {b}
  /\ size' = [size EXCEPT ![b] = bytes]
  /\ array' = [array EXCEPT ![b] = isArray]
  /\ magic' = [magic EXCEPT ![b] = TRUE]
  /\ dptr' = [dptr EXCEPT ![t] = b]
  /\ Goto(t, "new")
  /\ UNCHANGED <<reg, links, lock, total, leaks, aborted, counted, torn>>

\* Mutant of Lock: the lock does not exclude anyone.
LockIgnored(t) ==
  /\ dpc[t] \in {"new", "delete"}
  /\ lock' = t
  /\ Goto(t, IF dpc[t] = "new" THEN "link" ELSE "subtract")
  /\ UNCHANGED <<dptr, reg, links, header, magic, used, total, leaks, aborted, counted, torn>>

\* fast_mutex_autolock, of either operator.
Lock(t) ==
  /\ dpc[t] \in {"new", "delete"}
  /\ lock = Nil
  /\ lock' = t
  /\ Goto(t, IF dpc[t] = "new" THEN "link" ELSE "subtract")
  /\ UNCHANGED <<dptr, reg, links, header, magic, used, total, leaks, aborted, counted, torn>>

\* ptr->prev and ptr->next ...
Link(t) ==
  /\ dpc[t] = "link"
  /\ prev' = [prev EXCEPT ![dptr[t]] = prev[new_ptr_list]]
  /\ next' = [next EXCEPT ![dptr[t]] = new_ptr_list]
  /\ Goto(t, "link_next")
  /\ UNCHANGED <<dptr, reg, header, magic, used, lock, total, leaks, aborted, counted, torn>>

\* ... new_ptr_list.prev->next ...
LinkNext(t) ==
  /\ dpc[t] = "link_next"
  /\ next' = [next EXCEPT ![prev[new_ptr_list]] = dptr[t]]
  /\ Goto(t, "link_prev")
  /\ UNCHANGED <<dptr, reg, prev, header, magic, used, lock, total, leaks, aborted,
                 counted, torn>>

\* ... new_ptr_list.prev, and the lock is given back.
LinkPrev(t) ==
  /\ dpc[t] = "link_prev"
  /\ prev' = [prev EXCEPT ![new_ptr_list] = dptr[t]]
  /\ lock' = Nil
  /\ Goto(t, "add")
  /\ UNCHANGED <<dptr, reg, next, header, magic, used, total, leaks, aborted, counted, torn>>

\* total_mem_alloc is read, by new without the lock ...
ReadTotal(t) ==
  /\ dpc[t] \in {"add", "subtract"}
  /\ reg' = [reg EXCEPT ![t] = total]
  /\ Goto(t, IF dpc[t] = "add" THEN "added" ELSE "subtracted")
  /\ UNCHANGED <<dptr, links, header, magic, used, lock, total, leaks, aborted, counted, torn>>

\* ... and written: new returns.
AddTotal(t) ==
  /\ dpc[t] = "added"
  /\ total' = (reg[t] + size[dptr[t]]) % TotalRange
  /\ torn' = (torn \/ reg[t] # total)
  /\ counted' = counted \cup {dptr[t]}
  /\ Goto(t, "out")
  /\ reg' = [reg EXCEPT ![t] = 0]
  /\ dptr' = [dptr EXCEPT ![t] = Nil]
  /\ UNCHANGED <<links, header, magic, used, lock, leaks, aborted>>

----------------------------------------------------------------------------
(* free_pointer.                                                            *)

\* The checks: a pointer that new did not return, or not by the operator that
\* goes with this delete, ends the program.
Delete(t, b, isArray) ==
  /\ ~InCall(t)
  /\ IF magic[b] /\ array[b] = isArray
     THEN Goto(t, "delete") /\ dptr' = [dptr EXCEPT ![t] = b] /\ UNCHANGED aborted
     ELSE aborted' = TRUE /\ UNCHANGED <<dpc, dptr>>
  /\ UNCHANGED <<reg, links, header, magic, used, lock, total, leaks, counted, torn>>

\* Mutant of SubtractTotal: the size is not subtracted.
SubtractForgotten(t) ==
  /\ dpc[t] = "subtracted"
  /\ counted' = counted \ {dptr[t]}
  /\ reg' = [reg EXCEPT ![t] = 0]
  /\ Goto(t, "unlink")
  /\ UNCHANGED <<dptr, links, header, magic, used, lock, total, leaks, aborted, torn>>

\* Under the lock: the total ...
SubtractTotal(t) ==
  /\ dpc[t] = "subtracted"
  /\ total' = (reg[t] + TotalRange - size[dptr[t]]) % TotalRange
  /\ torn' = (torn \/ reg[t] # total)
  /\ counted' = counted \ {dptr[t]}
  /\ reg' = [reg EXCEPT ![t] = 0]
  /\ Goto(t, "unlink")
  /\ UNCHANGED <<dptr, links, header, magic, used, lock, leaks, aborted>>

\* ... the magic number and ptr->prev->next ...
Unlink(t) ==
  /\ dpc[t] = "unlink"
  /\ magic' = [magic EXCEPT ![dptr[t]] = FALSE]
  /\ next' = [next EXCEPT ![prev[dptr[t]]] = next[dptr[t]]]
  /\ Goto(t, "unlink_prev")
  /\ UNCHANGED <<dptr, reg, prev, header, used, lock, total, leaks, aborted, counted, torn>>

\* Mutant of UnlinkPrev: the next block still points back to the one freed.
UnlinkForgetsPrev(t) ==
  /\ dpc[t] = "unlink_prev"
  /\ lock' = Nil
  /\ used' = used \ {dptr[t]}
  /\ dptr' = [dptr EXCEPT ![t] = Nil]
  /\ Goto(t, "out")
  /\ UNCHANGED <<reg, links, header, magic, total, leaks, aborted, counted, torn>>

\* ... and ptr->next->prev; then free.
UnlinkPrev(t) ==
  /\ dpc[t] = "unlink_prev"
  /\ prev' = [prev EXCEPT ![next[dptr[t]]] = prev[dptr[t]]]
  /\ lock' = Nil
  /\ used' = used \ {dptr[t]}
  /\ dptr' = [dptr EXCEPT ![t] = Nil]
  /\ Goto(t, "out")
  /\ UNCHANGED <<reg, next, header, magic, total, leaks, aborted, counted, torn>>

----------------------------------------------------------------------------

\* check_leaks counts what it meets from the head, under the lock.
Chain ==
  LET walk[k \in 0..Cardinality(Block)] ==
        IF k = 0 THEN [n \in Node |-> <<>>]
        ELSE [n \in Node |-> IF n = new_ptr_list THEN <<>> ELSE <<n>> \o walk[k - 1][next[n]]]
  IN walk[Cardinality(Block)][next[new_ptr_list]]

CheckLeaks ==
  /\ lock = Nil
  /\ leaks' = Len(Chain)
  /\ UNCHANGED <<dpc, dptr, reg, links, header, magic, used, lock, total, aborted,
                 counted, torn>>

CallStep(t) ==
  \/ Lock(t) \/ Link(t) \/ LinkNext(t) \/ LinkPrev(t) \/ ReadTotal(t) \/ AddTotal(t)
  \/ SubtractTotal(t) \/ Unlink(t) \/ UnlinkPrev(t)
----------------------------------------------------------------------------
(* Properties.                                                              *)

DebugTypeOK ==
  /\ dpc \in [Thread -> {"out", "new", "delete", "link", "link_next", "link_prev", "add",
                         "added", "subtract", "subtracted", "unlink", "unlink_prev"}]
  /\ dptr \in [Thread -> Block \cup {Nil}]
  /\ reg \in [Thread -> 0..TotalRange - 1]
  /\ next \in [Node -> Node] /\ prev \in [Node -> Node]
  /\ size \in [Block -> Nat]
  /\ array \in [Block -> BOOLEAN] /\ magic \in [Block -> BOOLEAN]
  /\ used \in SUBSET Block
  /\ lock \in Thread \cup {Nil}
  /\ total \in 0..TotalRange - 1
  /\ leaks \in 0..Cardinality(Block)
  /\ aborted \in BOOLEAN
  /\ counted \in SUBSET Block
  /\ torn \in BOOLEAN

\* The list, read along next from its head, is at every moment the sequence
\* of blocks BlockList speaks of, although a link is made in three steps and
\* any block may leave: check_leaks counts the blocks allocated and not freed.
Blocks == INSTANCE BlockList WITH live <- Chain

ListIsBlocks == Blocks!Spec

\* Read along prev the list is the same, whenever the lock is free: the next
\* block to leave has the right neighbours.
LinksAgree ==
  lock = Nil =>
    \A n \in {new_ptr_list} \cup {b \in used : \A t \in Thread : ~(dpc[t] = "new" /\ dptr[t] = b)} :
      prev[next[n]] = n /\ next[prev[n]] = n

\* The total is the size of the blocks counted, as far as size_t holds it,
\* until an update made without the lock is lost: new adds to
\* total_mem_alloc after it has given the lock back.
TotalTracks ==
  ~torn => total = MapThenSumSet(LAMBDA b : size[b], counted) % TotalRange
=============================================================================
