---------------------------- MODULE MCLiveSession ----------------------------
(* Instances of LiveSession for TLC. *)
EXTENDS LiveSession, TLC

=============================================================================
