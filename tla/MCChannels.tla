----------------------------- MODULE MCChannels -----------------------------
(* Instances of Channels for TLC. *)
EXTENDS Channels, TLC

\* Slots and names are only compared for equality.
ChannelSymmetry == Permutations(Slots) \union Permutations(Names)

=============================================================================
