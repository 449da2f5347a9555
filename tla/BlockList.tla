----------------------------- MODULE BlockList -----------------------------
(***************************************************************************)
(* What the list of debug_new.cpp promises: the blocks that were allocated  *)
(* and not freed, in the order of their allocation, and a leak report that  *)
(* counts them.                                                             *)
(***************************************************************************)
EXTENDS Naturals, Sequences, SequencesExt

CONSTANT Block   \* addresses malloc may return

VARIABLES
  live,          \* the blocks of the list
  leaks          \* what check_leaks last returned

vars == <<live, leaks>>

Init == live = <<>> /\ leaks = 0

\* alloc_mem adds a block.
Add(b) ==
  /\ b \notin ToSet(live)
  /\ live' = Append(live, b)
  /\ UNCHANGED leaks

\* free_pointer takes one out, wherever it is.
Drop(b) ==
  /\ \E i \in DOMAIN live : live[i] = b /\ live' = RemoveAt(live, i)
  /\ UNCHANGED leaks

\* check_leaks counts them.
Count ==
  /\ leaks' = Len(live)
  /\ UNCHANGED live

Next == Count \/ \E b \in Block : Add(b) \/ Drop(b)

Spec == Init /\ [][Next]_vars
=============================================================================
