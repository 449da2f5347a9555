----------------------------- MODULE MCSendPath -----------------------------
(* SendPath for TLC: application threads are interchangeable.               *)
EXTENDS SendPath, TLC

Symmetry == Permutations(App)
=============================================================================
