--------------------------- MODULE MCSocketManager ---------------------------
(* SocketManager for TLC: the symmetry of its interchangeable names. *)
EXTENDS SocketManager, TLC

Symmetry ==
  Permutations(Fd) \cup Permutations(Addr) \cup Permutations(Conn) \cup Permutations(App)
=============================================================================
