---------------------------- MODULE MCListTimer -----------------------------
(* Instances of ListTimer for TLC. *)
EXTENDS ListTimer, TLC

Symmetry == Permutations(Timers)

=============================================================================
