--------------------------- MODULE ChatTranscript ---------------------------
(***************************************************************************)
(* What the chat store of a channel promises, whatever the cache does: the *)
(* abstract specification that ChatCache is shown to implement.            *)
(*                                                                         *)
(* The messages of a channel are numbered in the order they were accepted. *)
(* Visible is what a viewer who enters the room can still be shown (the    *)
(* Redis stream); saved is what the transcript keeps for good (MongoDB).   *)
(***************************************************************************)
EXTENDS Naturals

CONSTANT Channels

VARIABLES accepted, visible, saved

vars == <<accepted, visible, saved>>

Init ==
  /\ accepted = [c \in Channels |-> 0]
  /\ visible = [c \in Channels |-> {}]
  /\ saved = [c \in Channels |-> {}]

\* One more message, the newest of its channel, becomes visible.
Accept(c) ==
  /\ accepted' = [accepted EXCEPT ![c] = @ + 1]
  /\ visible' = [visible EXCEPT ![c] = @ \union {accepted[c] + 1}]
  /\ UNCHANGED saved

\* Accepted messages are saved, and saving leaves no gap: of two visible
\* messages the older one is never the unsaved one.
Save(c) ==
  \E S \in SUBSET (1 .. accepted[c]) :
    /\ \A m \in S \intersect visible[c], k \in visible[c] :
          k < m => k \in S \union saved[c]
    /\ saved' = [saved EXCEPT ![c] = @ \union S]
    /\ UNCHANGED <<accepted, visible>>

\* The oldest visible messages are dropped, every one of them saved before.
Trim(c) ==
  \E D \in SUBSET saved[c] :
    /\ \A m \in D, k \in visible[c] : k < m => k \in D
    /\ visible' = [visible EXCEPT ![c] = @ \ D]
    /\ UNCHANGED <<accepted, saved>>

\* The whole room is emptied: the one way an unsaved message can be lost.
Empty(c) ==
  /\ visible' = [visible EXCEPT ![c] = {}]
  /\ UNCHANGED <<accepted, saved>>

Next == \E c \in Channels : Accept(c) \/ Save(c) \/ Trim(c) \/ Empty(c)

Spec == Init /\ [][Next]_vars

=============================================================================
