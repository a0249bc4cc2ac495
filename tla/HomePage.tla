------------------------------ MODULE HomePage ------------------------------
(***************************************************************************)
(* GET /: the list of the live broadcasts with their numbers of viewers.   *)
(* AppController.main reads the live rows, roomUserCtn reads them again    *)
(* and then walks over the chat rooms, asking the database about each one  *)
(* before it takes the room's size.  Meanwhile broadcasts start and end    *)
(* and sockets come and go: the walk is over the adapter's own Map, which  *)
(* drops a room when its last socket leaves and appends it anew when one   *)
(* comes back.  An action of the page is what happens between two answers. *)
(*                                                                         *)
(* The broadcasts and the sockets are LiveSession's; here any of them may  *)
(* come and go at any time.                                                *)
(***************************************************************************)
EXTENDS Integers, FiniteSets

CONSTANTS
  Channels,   \* channel ids
  None,       \* no channel
  MaxViewers, \* viewers in one room: bounds the model
  MaxMoves    \* what happens around one request: bounds the model

ASSUME HomeSets == None \notin Channels /\ IsFiniteSet(Channels)
ASSUME HomeBounds == MaxViewers \in Nat /\ MaxMoves \in Nat

VARIABLES
  ready,    \* whether ChatService has been given the socket.io server
  live,     \* the channels with a live row
  streamer, \* the channels whose streamer's socket is in the room
  viewers,  \* per channel, the viewers' sockets in its room
  home,     \* the request
  seen,     \* what has been true while it ran: history
  moves     \* moves of the others while it ran

around == <<ready, live, streamer, viewers>>
vars == <<ready, live, streamer, viewers, home, seen, moves>>

Size(c) == viewers[c] + IF c \in streamer THEN 1 ELSE 0
Rooms == {c \in Channels : Size(c) > 0}

\* The request: the channels it lists, the room it has asked about and whether
\* that Set has been emptied, the rooms of the Map it has passed, the numbers.
Idle == [pc |-> "idle", listed |-> {}, at |-> None, emptied |-> FALSE,
         passed |-> {}, counts |-> <<>>]

\* The channels that were not live, and whose streamer was out, at some moment;
\* the fewest and the most viewers; whether its query was a strange one, whether
\* the server was missing, and whether a statement failed.
Seen == [ended : SUBSET Channels, out : SUBSET Channels, least : [Channels -> 0 .. MaxViewers],
         most : [Channels -> 0 .. MaxViewers],
         strange : BOOLEAN, early : BOOLEAN, failed : BOOLEAN]
Now == [ended |-> Channels \ live, out |-> Channels \ streamer, least |-> viewers,
        most |-> viewers, strange |-> FALSE, early |-> FALSE, failed |-> FALSE]

Init ==
  /\ ready = FALSE
  /\ live = {}
  /\ streamer = {}
  /\ viewers = [c \in Channels |-> 0]
  /\ home = Idle
  /\ seen = Now
  /\ moves = 0

-----------------------------------------------------------------------------
(* The others. *)

Under == home.pc \in {"listed", "walk", "ask"}
Least(m, n) == IF m < n THEN m ELSE n
Most(m, n) == IF m < n THEN n ELSE m

\* A room without sockets is gone from the Map; one that is made again is new.
Moves ==
  /\ IF Under THEN moves < MaxMoves /\ moves' = moves + 1 ELSE UNCHANGED moves
  /\ seen' = IF Under
             THEN [seen EXCEPT !.ended = @ \union (Channels \ live'),
                               !.out = @ \union (Channels \ streamer'),
                               !.least = [c \in Channels |-> Least(@[c], viewers'[c])],
                               !.most = [c \in Channels |-> Most(@[c], viewers'[c])]]
             ELSE IF home.pc = "idle" THEN Now' ELSE seen
  /\ home' = [home EXCEPT !.passed = @ \intersect Rooms',
                          !.emptied = @ \/ (home.at # None /\ home.at \notin Rooms')]

\* bootstrap: the server listens before ChatService is given the socket.io
\* server.
SetServer ==
  /\ ~ready /\ ready' = TRUE
  /\ UNCHANGED <<live, streamer, viewers, home, seen, moves>>

GoLive(c) ==
  /\ c \notin live /\ live' = live \union {c}
  /\ UNCHANGED <<ready, streamer, viewers>> /\ Moves
EndLive(c) ==
  /\ c \in live /\ live' = live \ {c}
  /\ UNCHANGED <<ready, streamer, viewers>> /\ Moves
StreamerEnters(c) ==
  /\ c \notin streamer /\ streamer' = streamer \union {c}
  /\ UNCHANGED <<ready, live, viewers>> /\ Moves
StreamerLeaves(c) ==
  /\ c \in streamer /\ streamer' = streamer \ {c}
  /\ UNCHANGED <<ready, live, viewers>> /\ Moves
ViewerEnters(c) ==
  /\ viewers[c] < MaxViewers /\ viewers' = [viewers EXCEPT ![c] = @ + 1]
  /\ UNCHANGED <<ready, live, streamer>> /\ Moves
ViewerLeaves(c) ==
  /\ viewers[c] > 0 /\ viewers' = [viewers EXCEPT ![c] = @ - 1]
  /\ UNCHANGED <<ready, live, streamer>> /\ Moves

-----------------------------------------------------------------------------
(* The request. *)

\* A query that is not empty has to have an "s", which the page of an ended
\* broadcast sends (/?s=true); any other is an error before anything is read.
StrangeQuery ==
  /\ home.pc = "idle"
  /\ home' = [home EXCEPT !.pc = "refused"]
  /\ seen' = [Now EXCEPT !.strange = TRUE]
  /\ UNCHANGED <<around, moves>>

\* The query is in order; LiveService.findAll.
Open ==
  /\ home.pc = "idle"
  /\ home' = [home EXCEPT !.pc = "listed", !.listed = live]
  /\ seen' = Now
  /\ UNCHANGED <<around, moves>>

\* roomUserCtn takes the rooms of the server, if it has one, and counts the
\* live rows.  Without any it returns nothing, which main cannot index.
\* (mutant: one broadcast counts as none.)
FewLive == Cardinality(live) <= 1
NoneLive == live = {}

FindLive ==
  /\ home.pc = "listed" /\ ready
  /\ home' = [home EXCEPT !.pc = IF ~NoneLive THEN "walk"
                                 ELSE IF home.listed = {} THEN "served" ELSE "refused"]
  /\ UNCHANGED <<around, seen, moves>>

\* The next room of the Map that has the length of a channel id.
AskRoom(c) ==
  /\ home.pc = "walk"
  /\ c \in Rooms \ home.passed
  /\ home' = [home EXCEPT !.pc = "ask", !.at = c, !.emptied = FALSE]
  /\ UNCHANGED <<around, seen, moves>>

\* +e.size - 1 (mutant: the streamer is counted).
CountAll(c) == IF home.emptied THEN 0 ELSE Size(c)
CountOf(c) == (IF home.emptied THEN 0 ELSE Size(c)) - 1

\* The answer of FindChannelIdByChannel; after an error there is none, and the
\* room is passed over.
CountRoom ==
  LET c == home.at
      Same == IF home.emptied THEN {} ELSE {c} IN
  /\ home.pc = "ask"
  /\ \/ /\ home' = [home EXCEPT !.pc = "walk", !.at = None,
                                !.passed = @ \union Same, !.emptied = FALSE,
                                !.counts = [d \in DOMAIN @ \union {c} |->
                                              IF d = c THEN CountOf(c) ELSE @[d]]]
        /\ UNCHANGED seen
     \/ /\ home' = [home EXCEPT !.pc = "walk", !.at = None,
                                !.passed = @ \union Same, !.emptied = FALSE]
        /\ seen' = [seen EXCEPT !.failed = TRUE]
  /\ UNCHANGED <<around, moves>>

\* The walk is over; main gives every listed channel its number, or undefined.
\* (mutant: the first room ends it, a return inside the loop.)
OnePassed == home.passed # {} \/ Rooms = {}
AllPassed == Rooms \subseteq home.passed

Serve ==
  /\ home.pc = "walk" /\ AllPassed
  /\ home' = [home EXCEPT !.pc = "served", !.passed = {}]
  /\ UNCHANGED <<around, seen, moves>>

\* Without the server roomUserCtn throws.
TooEarly ==
  /\ home.pc = "listed" /\ ~ready
  /\ home' = [home EXCEPT !.pc = "refused"]
  /\ seen' = [seen EXCEPT !.early = TRUE]
  /\ UNCHANGED <<around, moves>>

\* One of the first two statements fails: an answer 500.
Fail ==
  /\ home.pc = "idle" \/ (home.pc = "listed" /\ ready)
  /\ home' = [home EXCEPT !.pc = "refused"]
  /\ seen' = [(IF home.pc = "idle" THEN Now ELSE seen) EXCEPT !.failed = TRUE]
  /\ UNCHANGED <<around, moves>>

Leave ==
  /\ home.pc \in {"served", "refused"}
  /\ home' = Idle /\ seen' = Now /\ moves' = 0
  /\ UNCHANGED around

Next ==
  \/ SetServer \/ StrangeQuery \/ Open \/ FindLive \/ TooEarly
  \/ CountRoom \/ Serve \/ Fail \/ Leave
  \/ \E c \in Channels :
       \/ AskRoom(c)
       \/ GoLive(c) \/ EndLive(c) \/ StreamerEnters(c) \/ StreamerLeaves(c)
       \/ ViewerEnters(c) \/ ViewerLeaves(c)

Spec == Init /\ [][Next]_vars

-----------------------------------------------------------------------------
(* What holds. *)

\* The state has its types: a number is never less than -1 nor more than the
\* viewers a room can have.
TypeOK ==
  /\ ready \in BOOLEAN
  /\ live \subseteq Channels /\ streamer \subseteq Channels
  /\ viewers \in [Channels -> 0 .. MaxViewers]
  /\ home.pc \in {"idle", "listed", "walk", "ask", "served", "refused"}
  /\ home.listed \subseteq Channels /\ home.passed \subseteq Channels
  /\ home.at \in Channels \union {None} /\ home.emptied \in BOOLEAN
  /\ DOMAIN home.counts \subseteq Channels
  /\ \A c \in DOMAIN home.counts : home.counts[c] \in -1 .. MaxViewers
  /\ seen \in Seen
  /\ moves \in 0 .. MaxMoves

\* The home page is refused only for a query without "s", before the server is
\* set, after a failed statement, or when every broadcast it had listed, one at
\* least, ended before they were counted.
RefusedOnly ==
  home.pc = "refused" =>
    \/ seen.strange \/ seen.early \/ seen.failed
    \/ home.listed # {} /\ home.listed \subseteq seen.ended

\* The number shown for a room is one its viewers had while the request ran, as
\* long as the streamer's socket stayed in the room; otherwise it may be one
\* too low, which makes -1 of a room that empties under the request.
CountWithinRoom ==
  home.pc = "served" =>
    \A c \in DOMAIN home.counts :
      /\ home.counts[c] <= seen.most[c]
      /\ home.counts[c] >= seen.least[c] - 1
      /\ c \notin seen.out => home.counts[c] >= seen.least[c]

\* A listed broadcast whose room had somebody in it throughout is shown with a
\* number, unless a statement failed, however the Map changed during the walk.
EveryRoomCounted ==
  home.pc = "served" /\ ~seen.failed =>
    \A c \in home.listed :
      c \notin seen.out \/ seen.least[c] > 0 => c \in DOMAIN home.counts

=============================================================================
