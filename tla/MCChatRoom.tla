----------------------------- MODULE MCChatRoom -----------------------------
(* Instances of ChatRoom for TLC. *)
EXTENDS ChatRoom, TLC

\* Handler slots and viewers are only compared for equality.
RoomSymmetry == Permutations(Tasks) \union Permutations(Viewers)

=============================================================================
