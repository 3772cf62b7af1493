----------------------------- MODULE MCChatroom -----------------------------
(* Instances of Chatroom for TLC. *)
EXTENDS Chatroom, TLC

Symmetry == Permutations(Clients \ Slow)

=============================================================================
