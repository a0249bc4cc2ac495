----------------------------- MODULE LiveSession -----------------------------
(***************************************************************************)
(* A broadcast from its start to its end: the streamer's page, the row in  *)
(* the lives table, the chat room with its interval timer, and the viewers *)
(* in the room.                                                            *)
(*                                                                         *)
(* The start button does two unrelated things, a socket event that makes   *)
(* the room and a POST that inserts the row.  The end of the broadcast     *)
(* arrives up to three times, as stop_live, exit_room and the disconnect   *)
(* of the page's socket, each handled on its own; the last two look up a   *)
(* live row and then update it.  The chat moves these handlers make first  *)
(* are ChatCache's, here they are only time passing.                       *)
(***************************************************************************)
EXTENDS Naturals, FiniteSets

CONSTANTS
  Channels,    \* one per streamer
  Viewers,     \* browser pages of viewers
  Tasks,       \* slots for handlers that wait for the database: bounds the model
  MaxLives,    \* rows inserted per channel: bounds the model
  MaxTimers,   \* interval timers alive per channel: bounds the model
  MaxCrashes,  \* crashes of the node process: bounds the model
  None         \* no channel

ASSUME SessionSets ==
  IsFiniteSet(Channels) /\ IsFiniteSet(Viewers) /\ IsFiniteSet(Tasks) /\ None \notin Channels
ASSUME SessionBounds == MaxLives \in Nat /\ MaxTimers \in Nat /\ MaxCrashes \in Nat

VARIABLES
  lives,    \* per channel, its rows with status true; rows are numbered from 1
  created,  \* per channel, how many rows have been inserted
  page,     \* per channel, the streamer's page by the button it shows
  inRoom,   \* per channel, whether the socket of that page is in the room
  inbox,    \* per channel, the socket events of the streamer not yet handled
  timers,   \* per channel, its interval timers alive in the process
  handle,   \* setIntervalFunc: the channel of the live timer it holds, or None
  viewer,   \* per viewer, the channel page it has open and where its socket is
  task,     \* per slot, the handler that runs in it
  crashes   \* crashes so far

streamer == <<page, inRoom, inbox>>
room == <<timers, handle>>
vars == <<lives, created, page, inRoom, inbox, timers, handle, viewer, task, crashes>>

Rows == 1 .. MaxLives
Pages == {"none", "start", "posting", "end"}
Events == {"create_room", "late_room", "stop_live", "exit_room", "disconnect"}

Idle == [job |-> "none", pc |-> "idle", chan |-> None, row |-> 0]
Away == [chan |-> None, at |-> "away"]

Init ==
  /\ lives = [c \in Channels |-> {}]
  /\ created = [c \in Channels |-> 0]
  /\ page = [c \in Channels |-> "none"]
  /\ inRoom = [c \in Channels |-> FALSE]
  /\ inbox = [c \in Channels |-> {}]
  /\ timers = [c \in Channels |-> 0]
  /\ handle = None
  /\ viewer = [v \in Viewers |-> Away]
  /\ task = [t \in Tasks |-> Idle]
  /\ crashes = 0

-----------------------------------------------------------------------------
(* The streamer's page. *)

\* The page loads.  Whether or not a row is still live it ends up showing the
\* start button: liveIsGoing undoes what liveStatusValue did.
OpenPage(c) ==
  /\ page[c] = "none"
  /\ page' = [page EXCEPT ![c] = "start"]
  /\ UNCHANGED <<lives, created, inRoom, inbox, room, viewer, task, crashes>>

Inserting(c) == {t \in Tasks : task[t].pc = "save" /\ task[t].chan = c}

\* The start button: create_room on the socket and POST create.  The button
\* stays until the POST is answered, and can be pressed again.
PressStart(t, c) ==
  /\ page[c] \in {"start", "posting"}
  /\ created[c] + Cardinality(Inserting(c)) < MaxLives
  /\ task[t] = Idle
  /\ page' = [page EXCEPT ![c] = "posting"]
  /\ inbox' = [inbox EXCEPT ![c] = @ \union {"create_room"}]
  /\ task' = [task EXCEPT ![t] = [job |-> "create", pc |-> "save", chan |-> c, row |-> 0]]
  /\ UNCHANGED <<lives, created, inRoom, room, viewer, crashes>>

\* With an empty title or description the POST is not sent, create_room is.
PressStartUntitled(c) ==
  /\ page[c] \in {"start", "posting"}
  /\ inbox' = [inbox EXCEPT ![c] = @ \union {"create_room"}]
  /\ UNCHANGED <<lives, created, page, inRoom, room, viewer, task, crashes>>

\* The page's socket is gone: events it has sent are still handled, but a
\* create_room among them no longer joins anything.
Orphaned(S) ==
  (S \ {"create_room"}) \union (IF "create_room" \in S THEN {"late_room"} ELSE {})

\* The socket leaves its rooms.
SocketGone(c, sentLast) ==
  /\ inRoom' = [inRoom EXCEPT ![c] = FALSE]
  /\ inbox' = [inbox EXCEPT ![c] = Orphaned(@) \union sentLast \union {"disconnect"}]

\* endLive of chat.js: stop_live, exit_room, and off to the home page, with
\* whatever the socket had no time to send.
PressEnd(c) ==
  /\ page[c] = "end"
  /\ page' = [page EXCEPT ![c] = "none"]
  /\ \E sentLast \in {{}, {"stop_live"}, {"stop_live", "exit_room"}} : SocketGone(c, sentLast)
  /\ UNCHANGED <<lives, created, room, viewer, task, crashes>>

\* The page is closed, reloaded or left, or the computer is off.
ClosePage(c) ==
  /\ page[c] # "none"
  /\ page' = [page EXCEPT ![c] = "none"]
  /\ SocketGone(c, {})
  /\ UNCHANGED <<lives, created, room, viewer, task, crashes>>

\* The connection breaks and the page connects again with a new socket, which
\* is not in the room: only the start button sends create_room.
LoseConnection(c) ==
  /\ page[c] # "none"
  /\ SocketGone(c, {})
  /\ UNCHANGED <<lives, created, page, room, viewer, task, crashes>>

-----------------------------------------------------------------------------
(* The server handles the streamer's events. *)

Handled(c, e) == e \in inbox[c] /\ inbox' = [inbox EXCEPT ![c] = @ \ {e}]

\* WsGuard and handleDisconnect verify the token the page was loaded with; it
\* may have expired, and then the event is dropped.  exit_room has no guard.
Refuse(c) ==
  /\ \E e \in Events \ {"exit_room"} : Handled(c, e)
  /\ UNCHANGED <<lives, created, page, inRoom, room, viewer, task, crashes>>

\* createChatRoom.
CreateRoom(c) ==
  /\ timers[c] < MaxTimers
  /\ \/ Handled(c, "create_room") /\ inRoom' = [inRoom EXCEPT ![c] = TRUE]
     \/ Handled(c, "late_room") /\ UNCHANGED inRoom
  /\ timers' = [timers EXCEPT ![c] = @ + 1]
  /\ handle' = c
  /\ UNCHANGED <<lives, created, page, viewer, task, crashes>>

\* clearInterval(setIntervalFunc), whoever's timer that is.
ClearInterval ==
  IF handle = None
  THEN UNCHANGED room
  ELSE /\ timers' = [timers EXCEPT ![handle] = @ - 1]
       /\ handle' = None

StopLive(c) ==
  /\ Handled(c, "stop_live")
  /\ ClearInterval
  /\ UNCHANGED <<lives, created, page, inRoom, viewer, task, crashes>>

\* exit_room and disconnect: after the chat move, liveService.end.
EndAsked(t, c) ==
  /\ task[t] = Idle
  /\ \E e \in {"exit_room", "disconnect"} :
       /\ Handled(c, e)
       /\ task' = [task EXCEPT ![t] = [job |-> e, pc |-> "find", chan |-> c, row |-> 0]]
  /\ UNCHANGED <<lives, created, page, inRoom, room, viewer, crashes>>

-----------------------------------------------------------------------------
(* The lives table. *)

\* LiveService.create: no check that the channel has a live row already.  The
\* page that waits for the answer now shows the end button.
SaveLive(t) ==
  /\ task[t].pc = "save"
  /\ LET c == task[t].chan
     IN  /\ created[c] < MaxLives
         /\ created' = [created EXCEPT ![c] = @ + 1]
         /\ lives' = [lives EXCEPT ![c] = @ \union {created[c] + 1}]
         /\ page' = [page EXCEPT ![c] = IF @ = "posting" THEN "end" ELSE @]
  /\ task' = [task EXCEPT ![t] = Idle]
  /\ UNCHANGED <<inRoom, inbox, room, viewer, crashes>>

\* POST /api/live/end and DELETE /api/live/:id.
RestEnd(t, c) ==
  /\ task[t] = Idle
  /\ task' = [task EXCEPT ![t] = [job |-> "rest", pc |-> "find", chan |-> c, row |-> 0]]
  /\ UNCHANGED <<lives, created, streamer, room, viewer, crashes>>

RestRemove(t, c) ==
  /\ task[t] = Idle
  /\ \E r \in 1 .. created[c] :
       task' = [task EXCEPT ![t] = [job |-> "rest", pc |-> "update", chan |-> c, row |-> r]]
  /\ UNCHANGED <<lives, created, streamer, room, viewer, crashes>>

\* findOneByChannelId: one row of the channel with status true, which one is
\* the database's choice.  (Mutants: the first row, whatever its status; no row
\* is ended like one.)
FoundFirst(c) == IF created[c] = 0 THEN {} ELSE {1}
FoundOrUndefined(c) == IF lives[c] = {} THEN {0} ELSE lives[c]
Found(c) == lives[c]

\* Without a row, end returns undefined: no bye, and only the disconnect
\* handler has something left to do, deleteChatRoom.
AfterEnd(job) == IF job = "disconnect" THEN ClearInterval ELSE UNCHANGED room

FindLive(t) ==
  /\ task[t].pc = "find"
  /\ \/ \E r \in Found(task[t].chan) :
          /\ task' = [task EXCEPT ![t].pc = "update", ![t].row = r]
          /\ UNCHANGED room
     \/ /\ Found(task[t].chan) = {}
        /\ task' = [task EXCEPT ![t] = Idle]
        /\ AfterEnd(task[t].job)
  /\ UNCHANGED <<lives, created, streamer, viewer, crashes>>

\* bye takes every page in the room to the home page, the streamer's too.
\* (Mutant: only the streamer is told.)
ByeToStreamer(c) ==
  /\ viewer' = viewer
  /\ IF inRoom[c]
     THEN page' = [page EXCEPT ![c] = "none"] /\ SocketGone(c, {})
     ELSE UNCHANGED streamer
Bye(c) ==
  /\ viewer' = [v \in Viewers |-> IF viewer[v] = [chan |-> c, at |-> "in"] THEN Away ELSE viewer[v]]
  /\ IF inRoom[c]
     THEN page' = [page EXCEPT ![c] = "none"] /\ SocketGone(c, {})
     ELSE UNCHANGED streamer

\* update(live_id, status false), then bye, then deleteChatRoom.  The update
\* of a row that has been ended meanwhile succeeds all the same.
EndLive(t) ==
  /\ task[t].pc = "update"
  /\ lives' = [lives EXCEPT ![task[t].chan] = @ \ {task[t].row}]
  /\ IF task[t].job = "rest" THEN UNCHANGED <<streamer, viewer>> ELSE Bye(task[t].chan)
  /\ AfterEnd(task[t].job)
  /\ task' = [task EXCEPT ![t] = Idle]
  /\ UNCHANGED <<created, crashes>>

-----------------------------------------------------------------------------
(* The viewers. *)

\* The channel page is served; without a live row it sends the viewer home.
OpenChannel(v, c) ==
  /\ viewer[v] = Away
  /\ lives[c] # {}
  /\ viewer' = [viewer EXCEPT ![v] = [chan |-> c, at |-> "page"]]
  /\ UNCHANGED <<lives, created, streamer, room, task, crashes>>

\* The loaded page sends enter_room; with a token that cannot be verified the
\* handler throws, and the page stays outside.
EnterRoom(v) ==
  /\ viewer[v].at = "page"
  /\ viewer' = [viewer EXCEPT ![v].at = "in"]
  /\ UNCHANGED <<lives, created, streamer, room, task, crashes>>

\* A broken connection is made again, but enter_room is sent on load only.
ViewerLost(v) ==
  /\ viewer[v].at = "in"
  /\ viewer' = [viewer EXCEPT ![v].at = "lost"]
  /\ UNCHANGED <<lives, created, streamer, room, task, crashes>>

ViewerLeaves(v) ==
  /\ viewer[v] # Away
  /\ viewer' = [viewer EXCEPT ![v] = Away]
  /\ UNCHANGED <<lives, created, streamer, room, task, crashes>>

-----------------------------------------------------------------------------
\* The node process dies and restarts: rooms, timers, handlers and events are
\* gone, the rows stay, and the pages connect again outside the rooms.
Crash ==
  /\ crashes < MaxCrashes
  /\ crashes' = crashes + 1
  /\ inRoom' = [c \in Channels |-> FALSE]
  /\ inbox' = [c \in Channels |-> {}]
  /\ timers' = [c \in Channels |-> 0]
  /\ handle' = None
  /\ viewer' = [v \in Viewers |->
                  IF viewer[v].at = "in" THEN [viewer[v] EXCEPT !.at = "lost"] ELSE viewer[v]]
  /\ task' = [t \in Tasks |-> Idle]
  /\ UNCHANGED <<lives, created, page>>

-----------------------------------------------------------------------------
Streamer(c) ==
  OpenPage(c) \/ PressStartUntitled(c) \/ PressEnd(c) \/ ClosePage(c) \/ LoseConnection(c)

Watch(v) ==
  \/ \E c \in Channels : OpenChannel(v, c)
  \/ EnterRoom(v) \/ ViewerLost(v) \/ ViewerLeaves(v)

Request(t, c) == PressStart(t, c) \/ EndAsked(t, c) \/ RestEnd(t, c) \/ RestRemove(t, c)

Continue(t) == SaveLive(t) \/ FindLive(t) \/ EndLive(t)

Next ==
  \/ \E c \in Channels : Streamer(c) \/ Refuse(c) \/ CreateRoom(c) \/ StopLive(c)
  \/ \E t \in Tasks, c \in Channels : Request(t, c)
  \/ \E t \in Tasks : Continue(t)
  \/ \E v \in Viewers : Watch(v)
  \/ Crash

Spec == Init /\ [][Next]_vars

-----------------------------------------------------------------------------
(* Properties. *)

TaskTypes ==
  [job : {"none", "create", "exit_room", "disconnect", "rest"},
   pc : {"idle", "save", "find", "update"},
   chan : Channels \union {None},
   row : 0 .. MaxLives]

\* Type correctness, with what ties the fields to one another: a live row has
\* been inserted, a row about to be ended too, a socket in the room belongs to
\* an open page, and the kept handle is that of a timer alive.
TypeOK ==
  /\ created \in [Channels -> 0 .. MaxLives]
  /\ lives \in [Channels -> SUBSET Rows]
  /\ page \in [Channels -> Pages]
  /\ inRoom \in [Channels -> BOOLEAN]
  /\ inbox \in [Channels -> SUBSET Events]
  /\ timers \in [Channels -> 0 .. MaxTimers]
  /\ handle \in Channels \union {None}
  /\ viewer \in [Viewers -> [chan : Channels \union {None}, at : {"away", "page", "in", "lost"}]]
  /\ task \in [Tasks -> TaskTypes]
  /\ crashes \in 0 .. MaxCrashes
  /\ \A c \in Channels : \A r \in lives[c] : r <= created[c]
  /\ \A c \in Channels : inRoom[c] \/ "create_room" \in inbox[c] => page[c] # "none"
  /\ handle # None => timers[handle] > 0
  /\ \A t \in Tasks : task[t].pc # "idle" => task[t].chan \in Channels
  /\ \A t \in Tasks : task[t].pc = "update" => task[t].row \in 1 .. created[task[t].chan]

-----------------------------------------------------------------------------
(* What may leave a broadcast without anybody to end it. *)

\* The end of the channel's only live row is on its way: the disconnect of a
\* socket is still to be handled, or a handler looks for the row or has found it.
EndOnItsWay(c, r) ==
  \/ "disconnect" \in inbox[c]
  \/ \E t \in Tasks :
       /\ task[t].chan = c
       /\ task[t].pc = "find" \/ (task[t].pc = "update" /\ task[t].row = r)

LeftBehind(c, r) == page[c] = "none" /\ lives[c] = {r} /\ ~EndOnItsWay(c, r)

\* However starts, ends, reloads and broken connections interleave, a broadcast
\* whose page is gone is left on the home page, with nobody to end it, only by
\* a crash, by a refused disconnect, by a POST of the start button that is
\* carried out after its page has gone, or next to a second live row.
LeftBehindForAReason ==
  [][\A c \in Channels, r \in Rows :
       ~LeftBehind(c, r) /\ LeftBehind(c, r)' =>
         \/ crashes' # crashes
         \/ "disconnect" \in inbox[c] /\ "disconnect" \notin inbox'[c] /\ UNCHANGED task
         \/ page[c] = "none" /\ lives[c] = {}
         \/ Cardinality(lives[c]) > 1]_vars

-----------------------------------------------------------------------------
(* Liveness.  Handlers are run by node's event loop, and an event that has   *)
(* arrived is handled or refused.  A busy slot is a bound of the model,      *)
(* hence strong fairness.  People and browsers may stop at any time.         *)

Fairness ==
  /\ \A t \in Tasks : WF_vars(Continue(t))
  /\ \A c \in Channels : SF_vars((\E t \in Tasks : EndAsked(t, c)) \/ Refuse(c))

FairSpec == Spec /\ Fairness

\* A handler of the end of c that has not looked for its row yet.
Ending(c, jobs) ==
  \E t \in Tasks : task[t].chan = c /\ task[t].pc = "find" /\ task[t].job \in jobs

NoMoreCrashes == crashes = MaxCrashes

\* However many handlers race to end a broadcast, and whatever the streamer
\* does meanwhile, a channel's only live row is ended once one of them has
\* begun, unless a second broadcast is started beside it.
EndReachesLive ==
  \A c \in Channels, r \in Rows :
    (NoMoreCrashes /\ lives[c] = {r} /\ Ending(c, {"exit_room", "disconnect", "rest"}))
      ~> (r \notin lives[c] \/ Cardinality(lives[c]) > 1)

\* A viewer in the room when the end of a broadcast is being handled does not
\* stay behind, unless the row is taken away over REST, which sends no bye.
ViewersSentHome ==
  \A c \in Channels, v \in Viewers :
    (NoMoreCrashes /\ Cardinality(lives[c]) = 1 /\ viewer[v] = [chan |-> c, at |-> "in"]
       /\ Ending(c, {"exit_room", "disconnect"}))
      ~> \/ viewer[v] # [chan |-> c, at |-> "in"]
         \/ Cardinality(lives[c]) > 1
         \/ \E t \in Tasks : task[t].chan = c /\ task[t].job = "rest"

-----------------------------------------------------------------------------
(* What the repository says and the code does not do. *)

\* chat.service.ts:37 (every minute after the room was made, data is prepared
\* for MongoDB): a room with its streamer in it has a timer.
EveryMinute == \A c \in Channels : inRoom[c] => timers[c] > 0

\* chat.disconnect.ts:50 (when the streamer's laptop went off before he could
\* press end): a broadcast whose page is gone is ended.
EndsWithoutStreamer ==
  \A c \in Channels : (page[c] = "none" /\ lives[c] # {}) ~> (page[c] # "none" \/ lives[c] = {})

=============================================================================
