----------------------------- MODULE MCChatCache -----------------------------
(* Instances of ChatCache for TLC. *)
EXTENDS ChatCache, TLC

\* Handler slots are only compared for equality.
TaskSymmetry == Permutations(Tasks)

=============================================================================
