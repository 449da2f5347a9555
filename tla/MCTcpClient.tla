---------------------------- MODULE MCTcpClient ----------------------------
(* TcpClient for TLC. *)
EXTENDS TcpClient, TLC

Symmetry == Permutations(Fd) \cup Permutations(Addr) \cup Permutations(Conn) \cup Permutations(App)
=============================================================================
