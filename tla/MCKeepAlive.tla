---------------------------- MODULE MCKeepAlive -----------------------------
(* Instances of KeepAlive for TLC. *)
EXTENDS KeepAlive, TLC

Symmetry == Permutations(Clients) \cup Permutations(Timers)

=============================================================================
