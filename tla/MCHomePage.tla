----------------------------- MODULE MCHomePage -----------------------------
(* Instances of HomePage for TLC. *)
EXTENDS HomePage, TLC

\* Channels are only compared for equality.
HomeSymmetry == Permutations(Channels)

=============================================================================
