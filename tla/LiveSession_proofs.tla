------------------------- MODULE LiveSession_proofs -------------------------
(***************************************************************************)
(* Proofs about LiveSession, for every set of channels, viewers and        *)
(* handler slots and every value of the bounds.                            *)
(***************************************************************************)
EXTENDS LiveSession, FiniteSetTheorems, TLAPS

USE SessionSets, SessionBounds

-----------------------------------------------------------------------------
(* The type invariant in three parts, by what can disturb them. *)

\* The table of live rows and the handlers that are about to change it.
RowsOK ==
  /\ created \in [Channels -> 0 .. MaxLives]
  /\ lives \in [Channels -> SUBSET Rows]
  /\ task \in [Tasks -> TaskTypes]
  /\ \A c \in Channels : \A r \in lives[c] : r <= created[c]
  /\ \A t \in Tasks : task[t].pc # "idle" => task[t].chan \in Channels
  /\ \A t \in Tasks : task[t].pc = "update" => task[t].row \in 1 .. created[task[t].chan]

\* The streamer's page, its socket and the viewers.
PagesOK ==
  /\ page \in [Channels -> Pages]
  /\ inRoom \in [Channels -> BOOLEAN]
  /\ inbox \in [Channels -> SUBSET Events]
  /\ viewer \in [Viewers -> [chan : Channels \union {None}, at : {"away", "page", "in", "lost"}]]
  /\ crashes \in 0 .. MaxCrashes
  /\ \A c \in Channels : inRoom[c] \/ "create_room" \in inbox[c] => page[c] # "none"

\* The interval timers and the one handle.
TimersOK ==
  /\ timers \in [Channels -> 0 .. MaxTimers]
  /\ handle \in Channels \union {None}
  /\ handle # None => timers[handle] > 0

LEMMA TypeParts == TypeOK <=> RowsOK /\ PagesOK /\ TimersOK
BY DEF TypeOK, RowsOK, PagesOK, TimersOK

LEMMA TypeInit == Init => TypeOK
<1> SUFFICES ASSUME Init PROVE RowsOK /\ PagesOK /\ TimersOK
  BY TypeParts
<1>1. RowsOK
  BY DEF Init, RowsOK, TaskTypes, Idle, Rows
<1>2. PagesOK
  BY DEF Init, PagesOK, Pages, Events, Away
<1>3. TimersOK
  BY DEF Init, TimersOK
<1> QED
  BY <1>1, <1>2, <1>3

-----------------------------------------------------------------------------
(* What the helpers do to each part. *)

\* clearInterval stops a timer that is alive, and forgets its handle.
LEMMA ClearIntervalType == TimersOK /\ ClearInterval => TimersOK'
BY DEF TimersOK, ClearInterval, room

LEMMA AfterEndType ==
  ASSUME TimersOK, NEW job, AfterEnd(job) PROVE TimersOK'
BY ClearIntervalType DEF AfterEnd, TimersOK, room

\* A socket that is gone is in no room, and no create_room is left to put it
\* back into one.
LEMMA SocketGoneEffect ==
  ASSUME PagesOK, NEW c \in Channels, NEW S \in SUBSET {"stop_live", "exit_room"}, SocketGone(c, S)
  PROVE  /\ inRoom' \in [Channels -> BOOLEAN]
         /\ inbox' \in [Channels -> SUBSET Events]
         /\ ~inRoom'[c] /\ "create_room" \notin inbox'[c]
         /\ \A d \in Channels \ {c} : inRoom'[d] = inRoom[d] /\ inbox'[d] = inbox[d]
<1>1. Orphaned(inbox[c]) \subseteq Events /\ "create_room" \notin Orphaned(inbox[c])
  BY DEF PagesOK, Orphaned, Events
<1>2. inbox' = [inbox EXCEPT ![c] = Orphaned(inbox[c]) \union S \union {"disconnect"}]
  BY DEF SocketGone
<1>3. Orphaned(inbox[c]) \union S \union {"disconnect"} \subseteq Events
  BY <1>1 DEF Events
<1> QED
  BY <1>1, <1>2, <1>3 DEF SocketGone, PagesOK

\* The page goes, or stays, when its socket is gone.
LEMMA PageGone ==
  ASSUME PagesOK, NEW c \in Channels, NEW S \in SUBSET {"stop_live", "exit_room"}, SocketGone(c, S),
         page' = [page EXCEPT ![c] = "none"] \/ page' = page,
         viewer' \in [Viewers -> [chan : Channels \union {None}, at : {"away", "page", "in", "lost"}]],
         crashes' = crashes
  PROVE  PagesOK'
<1>1. page' \in [Channels -> Pages] /\ \A d \in Channels \ {c} : page'[d] = page[d]
  BY DEF PagesOK, Pages
<1> QED
  BY <1>1, SocketGoneEffect DEF PagesOK

\* The streamer's events keep their type when one is taken out.
LEMMA HandledType ==
  ASSUME PagesOK, NEW c \in Channels, NEW e, Handled(c, e)
  PROVE  /\ e \in inbox[c]
         /\ inbox' \in [Channels -> SUBSET Events]
         /\ \A d \in Channels : inbox'[d] \subseteq inbox[d]
BY DEF PagesOK, Handled

\* bye takes pages home; the rows are not its business.
LEMMA ByeType ==
  ASSUME PagesOK, NEW c \in Channels, Bye(c), crashes' = crashes PROVE PagesOK'
<1>1. viewer' \in [Viewers -> [chan : Channels \union {None}, at : {"away", "page", "in", "lost"}]]
  BY DEF PagesOK, Bye, Away
<1>2. CASE inRoom[c]
  BY <1>1, <1>2, PageGone DEF Bye
<1>3. CASE ~inRoom[c]
  BY <1>1, <1>3 DEF Bye, PagesOK, streamer
<1> QED
  BY <1>2, <1>3

-----------------------------------------------------------------------------
(* The rows: every step that touches the table or a handler keeps RowsOK. *)

\* A slot takes on a handler for c, or becomes idle.
LEMMA TaskChanged ==
  ASSUME RowsOK, UNCHANGED <<lives, created>>, NEW t \in Tasks, NEW k \in TaskTypes,
         task' = [task EXCEPT ![t] = k],
         k.pc # "idle" => k.chan \in Channels,
         k.pc = "update" => k.row \in 1 .. created[k.chan]
  PROVE  RowsOK'
<1>1. task' \in [Tasks -> TaskTypes]
  BY DEF RowsOK
<1>2. task'[t] = k /\ \A u \in Tasks \ {t} : task'[u] = task[u]
  BY DEF RowsOK
<1> QED
  BY <1>1, <1>2 DEF RowsOK

LEMMA IdleType == Idle \in TaskTypes
BY DEF Idle, TaskTypes

\* The insert of create: the new row has the next number.
LEMMA SaveLiveRows ==
  ASSUME RowsOK, NEW t \in Tasks, SaveLive(t) PROVE RowsOK'
<1> DEFINE c == task[t].chan
<1>1. c \in Channels /\ created[c] < MaxLives
  BY DEF RowsOK, SaveLive
<1>2. created' = [created EXCEPT ![c] = created[c] + 1]
  BY DEF SaveLive
<1>3. created' \in [Channels -> 0 .. MaxLives] /\ \A d \in Channels : created[d] <= created'[d]
  BY <1>1, <1>2 DEF RowsOK
<1>4. lives' = [lives EXCEPT ![c] = lives[c] \union {created[c] + 1}]
  BY DEF SaveLive
<1>5. created[c] + 1 \in Rows
  BY <1>1 DEF RowsOK, Rows
<1>6. lives' \in [Channels -> SUBSET Rows]
  BY <1>4, <1>5 DEF RowsOK
<1>7. ASSUME NEW d \in Channels, NEW r \in lives'[d] PROVE r <= created'[d]
  <2>1. r \in Rows
    BY <1>6, <1>7
  <2>2. CASE r \in lives[d]
    BY <1>3, <2>1, <2>2 DEF RowsOK, Rows
  <2>3. CASE r \notin lives[d]
    <3>1. d = c /\ r = created[c] + 1
      BY <1>4, <1>7, <2>3 DEF RowsOK
    <3> QED
      BY <1>1, <1>2, <3>1 DEF RowsOK
  <2> QED
    BY <2>2, <2>3
<1>8. task' \in [Tasks -> TaskTypes] /\ task'[t] = Idle /\ \A u \in Tasks \ {t} : task'[u] = task[u]
  BY IdleType DEF SaveLive, RowsOK
<1>9. ASSUME NEW u \in Tasks, task'[u].pc # "idle"
      PROVE  /\ task'[u].chan \in Channels
             /\ task'[u].pc = "update" => task'[u].row \in 1 .. created'[task'[u].chan]
  <2>1. u # t
    BY <1>8, <1>9 DEF Idle
  <2>2. task'[u] = task[u]
    BY <1>8, <2>1
  <2> QED
    BY <1>3, <1>9, <2>2 DEF RowsOK
<1> QED
  BY <1>3, <1>6, <1>7, <1>8, <1>9 DEF RowsOK

\* The lookup hands on a row that has been inserted.
LEMMA FindLiveRows ==
  ASSUME RowsOK, NEW t \in Tasks, FindLive(t) PROVE RowsOK'
<1>1. task[t] \in TaskTypes /\ task[t].chan \in Channels
  BY DEF RowsOK, FindLive
<1>2. UNCHANGED <<lives, created>>
  BY DEF FindLive
<1>3. ASSUME NEW r \in Found(task[t].chan),
             task' = [task EXCEPT ![t].pc = "update", ![t].row = r]
      PROVE  RowsOK'
  <2> DEFINE k == [task[t] EXCEPT !.pc = "update", !.row = r]
  <2>1. r \in Rows /\ r <= created[task[t].chan] /\ r \in 0 .. MaxLives
    BY <1>1, <1>3 DEF RowsOK, Found, Rows
  <2>2. k \in TaskTypes
    BY <1>1, <2>1 DEF TaskTypes
  <2>3. k.chan = task[t].chan /\ k.row = r
    BY <1>1 DEF TaskTypes
  <2>4. r \in 1 .. created[k.chan]
    BY <1>1, <2>1, <2>3 DEF Rows, RowsOK
  <2>5. task' = [task EXCEPT ![t] = k]
    BY <1>3
  <2> QED
    BY <1>1, <1>2, <2>2, <2>3, <2>4, <2>5, TaskChanged
<1>4. CASE task' = [task EXCEPT ![t] = Idle]
  BY <1>2, <1>4, IdleType, TaskChanged DEF Idle
<1> QED
  BY <1>3, <1>4 DEF FindLive

\* Ending a row takes it out of the live ones.
LEMMA EndLiveRows ==
  ASSUME RowsOK, NEW t \in Tasks, EndLive(t) PROVE RowsOK'
<1>1. task' = [task EXCEPT ![t] = Idle] /\ created' = created
  BY DEF EndLive
<1>2. lives' \in [Channels -> SUBSET Rows] /\ \A c \in Channels : lives'[c] \subseteq lives[c]
  BY DEF EndLive, RowsOK
<1>3. task' \in [Tasks -> TaskTypes] /\ task'[t] = Idle /\ \A u \in Tasks \ {t} : task'[u] = task[u]
  BY <1>1, IdleType DEF RowsOK
<1> QED
  BY <1>1, <1>2, <1>3 DEF RowsOK, Idle

\* A handler that starts is for one of the channels, and its row is one.
LEMMA RequestRows ==
  ASSUME RowsOK, NEW t \in Tasks, NEW c \in Channels, Request(t, c) PROVE RowsOK'
<1>1. ASSUME NEW k \in [job : {"create", "exit_room", "disconnect", "rest"},
                        pc : {"save", "find"}, chan : {c}, row : {0}],
             UNCHANGED <<lives, created>>, task' = [task EXCEPT ![t] = k]
      PROVE  RowsOK'
  <2>1. k \in TaskTypes
    BY DEF TaskTypes
  <2> QED
    BY <1>1, <2>1, TaskChanged
<1>2. CASE PressStart(t, c)
  BY <1>1, <1>2 DEF PressStart
<1>3. CASE EndAsked(t, c)
  BY <1>1, <1>3 DEF EndAsked
<1>4. CASE RestEnd(t, c)
  BY <1>1, <1>4 DEF RestEnd
<1>5. CASE RestRemove(t, c)
  <2>1. PICK r \in 1 .. created[c] :
          task' = [task EXCEPT ![t] = [job |-> "rest", pc |-> "update", chan |-> c, row |-> r]]
    BY <1>5 DEF RestRemove
  <2>2. [job |-> "rest", pc |-> "update", chan |-> c, row |-> r] \in TaskTypes
    BY DEF TaskTypes, RowsOK
  <2> QED
    BY <1>5, <2>1, <2>2, TaskChanged DEF RestRemove
<1> QED
  BY <1>2, <1>3, <1>4, <1>5 DEF Request

-----------------------------------------------------------------------------
(* The pages and the timers, action by action. *)

LEMMA StreamerPages ==
  ASSUME PagesOK, NEW c \in Channels, Streamer(c) PROVE PagesOK'
<1>1. CASE OpenPage(c)
  BY <1>1 DEF OpenPage, PagesOK, Pages
<1>2. CASE PressStartUntitled(c)
  BY <1>2 DEF PressStartUntitled, PagesOK, Events
<1>3. CASE PressEnd(c)
  BY <1>3, PageGone DEF PressEnd, PagesOK
<1>4. CASE ClosePage(c)
  BY <1>4, PageGone DEF ClosePage, PagesOK
<1>5. CASE LoseConnection(c)
  BY <1>5, PageGone DEF LoseConnection, PagesOK
<1> QED
  BY <1>1, <1>2, <1>3, <1>4, <1>5 DEF Streamer

\* A create_room that is handled belongs to an open page, or joins nothing.
LEMMA ServerPages ==
  ASSUME PagesOK, NEW c \in Channels, Refuse(c) \/ CreateRoom(c) \/ StopLive(c) PROVE PagesOK'
<1>1. PICK e : Handled(c, e)
  BY DEF Refuse, CreateRoom, StopLive
<1>2. inbox' \in [Channels -> SUBSET Events] /\ \A d \in Channels : inbox'[d] \subseteq inbox[d]
  BY <1>1, HandledType
<1>3. UNCHANGED <<page, viewer, crashes>>
  BY DEF Refuse, CreateRoom, StopLive
<1>4. CASE UNCHANGED inRoom
  BY <1>2, <1>3, <1>4 DEF PagesOK
<1>5. CASE inRoom' = [inRoom EXCEPT ![c] = TRUE] /\ "create_room" \in inbox[c]
  <2>1. inRoom' \in [Channels -> BOOLEAN] /\ \A d \in Channels \ {c} : inRoom'[d] = inRoom[d]
    BY <1>5 DEF PagesOK
  <2> QED
    BY <1>2, <1>3, <1>5, <2>1 DEF PagesOK
<1> QED
  BY <1>4, <1>5 DEF Refuse, CreateRoom, StopLive, Handled

LEMMA RequestPages ==
  ASSUME PagesOK, NEW t \in Tasks, NEW c \in Channels, Request(t, c) PROVE PagesOK'
<1>1. CASE PressStart(t, c)
  BY <1>1 DEF PressStart, PagesOK, Pages, Events
<1>2. CASE EndAsked(t, c)
  <2>1. PICK e : Handled(c, e)
    BY <1>2 DEF EndAsked
  <2>2. inbox' \in [Channels -> SUBSET Events] /\ \A d \in Channels : inbox'[d] \subseteq inbox[d]
    BY <2>1, HandledType
  <2> QED
    BY <1>2, <2>2 DEF EndAsked, PagesOK
<1>3. CASE RestEnd(t, c) \/ RestRemove(t, c)
  BY <1>3 DEF RestEnd, RestRemove, PagesOK, streamer
<1> QED
  BY <1>1, <1>2, <1>3 DEF Request

\* The answer of create changes a page that waits for it; an ender says bye.
LEMMA ContinuePages ==
  ASSUME RowsOK, PagesOK, NEW t \in Tasks, Continue(t) PROVE PagesOK'
<1>1. CASE SaveLive(t)
  <2>1. task[t].chan \in Channels
    BY <1>1 DEF SaveLive, RowsOK
  <2>2. page' \in [Channels -> Pages] /\ \A c \in Channels : page[c] # "none" => page'[c] # "none"
    BY <1>1, <2>1 DEF SaveLive, PagesOK, Pages
  <2> QED
    BY <1>1, <2>2 DEF SaveLive, PagesOK
<1>2. CASE FindLive(t)
  BY <1>2 DEF FindLive, PagesOK, streamer
<1>3. CASE EndLive(t)
  <2>1. task[t].chan \in Channels
    BY <1>3 DEF EndLive, RowsOK
  <2>2. CASE Bye(task[t].chan)
    BY <1>3, <2>1, <2>2, ByeType DEF EndLive
  <2>3. CASE UNCHANGED <<streamer, viewer>>
    BY <1>3, <2>3 DEF EndLive, PagesOK, streamer
  <2> QED
    BY <1>3, <2>2, <2>3 DEF EndLive
<1> QED
  BY <1>1, <1>2, <1>3 DEF Continue

LEMMA WatchPages ==
  ASSUME PagesOK, NEW v \in Viewers, Watch(v) PROVE PagesOK'
<1> DEFINE Places == [chan : Channels \union {None}, at : {"away", "page", "in", "lost"}]
<1>1. viewer \in [Viewers -> Places] /\ Away \in Places
  BY DEF PagesOK, Away
<1>2. viewer' \in [Viewers -> Places]
  <2>1. ASSUME NEW c \in Channels, OpenChannel(v, c) PROVE viewer' \in [Viewers -> Places]
    BY <1>1, <2>1 DEF OpenChannel
  <2>2. ASSUME NEW a \in {"in", "lost"}, viewer' = [viewer EXCEPT ![v].at = a]
        PROVE  viewer' \in [Viewers -> Places]
    BY <1>1, <2>2
  <2>3. CASE ViewerLeaves(v)
    BY <1>1, <2>3 DEF ViewerLeaves
  <2> QED
    BY <2>1, <2>2, <2>3 DEF Watch, EnterRoom, ViewerLost
<1>3. UNCHANGED <<page, inRoom, inbox, crashes>>
  BY DEF Watch, OpenChannel, EnterRoom, ViewerLost, ViewerLeaves, streamer
<1> QED
  BY <1>2, <1>3 DEF PagesOK

\* After a crash no row, page or viewer is out of place, and no timer is left.
LEMMA CrashType ==
  ASSUME TypeOK, Crash PROVE TypeOK'
<1>1. RowsOK'
  <2>1. task' \in [Tasks -> TaskTypes] /\ \A t \in Tasks : task'[t] = Idle
    BY IdleType DEF Crash
  <2> QED
    BY <2>1, TypeParts DEF Crash, RowsOK, Idle
<1>2. PagesOK'
  <2> DEFINE Places == [chan : Channels \union {None}, at : {"away", "page", "in", "lost"}]
  <2>1. \A v \in Viewers : [viewer[v] EXCEPT !.at = "lost"] \in Places
    BY TypeParts DEF PagesOK
  <2>2. viewer' \in [Viewers -> Places]
    BY <2>1, TypeParts DEF Crash, PagesOK
  <2> QED
    BY <2>2, TypeParts DEF Crash, PagesOK
<1>3. TimersOK'
  BY TypeParts DEF Crash, TimersOK
<1> QED
  BY <1>1, <1>2, <1>3 DEF TypeOK, RowsOK, PagesOK, TimersOK

\* Only create_room starts a timer, and what clears one clears the one kept.
LEMMA TimersStep ==
  ASSUME TimersOK, [Next]_vars, ~Crash PROVE TimersOK'
<1>1. ASSUME NEW c \in Channels, CreateRoom(c) PROVE TimersOK'
  BY <1>1 DEF CreateRoom, TimersOK
<1>2. ASSUME NEW c \in Channels, StopLive(c) PROVE TimersOK'
  BY <1>2, ClearIntervalType DEF StopLive
<1>3. ASSUME NEW t \in Tasks, Continue(t) PROVE TimersOK'
  BY <1>3, AfterEndType DEF Continue, SaveLive, FindLive, EndLive, TimersOK, room
<1>4. CASE UNCHANGED room
  BY <1>4 DEF TimersOK, room
<1>5. ASSUME NEW c \in Channels, Streamer(c) \/ Refuse(c) PROVE UNCHANGED room
  BY <1>5 DEF Streamer, OpenPage, PressStartUntitled, PressEnd, ClosePage, LoseConnection, Refuse, room
<1>6. ASSUME NEW t \in Tasks, NEW c \in Channels, Request(t, c) PROVE UNCHANGED room
  BY <1>6 DEF Request, PressStart, EndAsked, RestEnd, RestRemove, room
<1>7. ASSUME NEW v \in Viewers, Watch(v) PROVE UNCHANGED room
  BY <1>7 DEF Watch, OpenChannel, EnterRoom, ViewerLost, ViewerLeaves, room
<1> QED
  BY <1>1, <1>2, <1>3, <1>4, <1>5, <1>6, <1>7 DEF Next, vars, room

\* The rows and handlers are left alone by the page, the timers and the viewers.
LEMMA RowsStep ==
  ASSUME RowsOK, [Next]_vars, ~Crash PROVE RowsOK'
<1>1. ASSUME NEW t \in Tasks, Continue(t) PROVE RowsOK'
  BY <1>1, SaveLiveRows, FindLiveRows, EndLiveRows DEF Continue
<1>2. ASSUME NEW t \in Tasks, NEW c \in Channels, Request(t, c) PROVE RowsOK'
  BY <1>2, RequestRows
<1>3. CASE UNCHANGED <<lives, created, task>>
  BY <1>3 DEF RowsOK
<1>4. ASSUME NEW c \in Channels, Streamer(c) \/ Refuse(c) \/ CreateRoom(c) \/ StopLive(c)
      PROVE  UNCHANGED <<lives, created, task>>
  BY <1>4 DEF Streamer, OpenPage, PressStartUntitled, PressEnd, ClosePage, LoseConnection,
              Refuse, CreateRoom, StopLive
<1>5. ASSUME NEW v \in Viewers, Watch(v) PROVE UNCHANGED <<lives, created, task>>
  BY <1>5 DEF Watch, OpenChannel, EnterRoom, ViewerLost, ViewerLeaves
<1> QED
  BY <1>1, <1>2, <1>3, <1>4, <1>5 DEF Next, vars

LEMMA PagesStep ==
  ASSUME RowsOK, PagesOK, [Next]_vars, ~Crash PROVE PagesOK'
<1>1. CASE UNCHANGED vars
  BY <1>1 DEF vars, PagesOK
<1> QED
  BY <1>1, StreamerPages, ServerPages, RequestPages, ContinuePages, WatchPages DEF Next

LEMMA TypeStep == TypeOK /\ [Next]_vars => TypeOK'
<1> SUFFICES ASSUME TypeOK, [Next]_vars PROVE TypeOK'
  OBVIOUS
<1>1. CASE Crash
  BY <1>1, CrashType
<1>2. CASE ~Crash
  <2>1. RowsOK'
    BY <1>2, TypeParts, RowsStep
  <2>2. PagesOK'
    BY <1>2, TypeParts, PagesStep
  <2>3. TimersOK'
    BY <1>2, TypeParts, TimersStep
  <2> QED
    BY <2>1, <2>2, <2>3 DEF TypeOK, RowsOK, PagesOK, TimersOK
<1> QED
  BY <1>1, <1>2

\* However pages, enders and crashes interleave: a row that is ended has been
\* inserted, a socket in the room belongs to an open page, and setIntervalFunc,
\* when it is not stale, is a timer that runs.
THEOREM SessionTypeCorrect == Spec => []TypeOK
BY TypeInit, TypeStep, PTL DEF Spec

-----------------------------------------------------------------------------
(* What may leave a broadcast behind: every action, seen from one channel c *)
(* and its row r.                                                           *)

\* The handler t is one that will end the row r of c.
Ends(t, c, r) ==
  task[t].chan = c /\ (task[t].pc = "find" \/ (task[t].pc = "update" /\ task[t].row = r))

Reason(c) ==
  \/ crashes' # crashes
  \/ "disconnect" \in inbox[c] /\ "disconnect" \notin inbox'[c] /\ UNCHANGED task
  \/ page[c] = "none" /\ lives[c] = {}
  \/ Cardinality(lives[c]) > 1

\* A step that takes nothing away from what will end the row has left nothing
\* behind.
LEMMA LeftBefore ==
  ASSUME NEW c \in Channels, NEW r \in Rows, LeftBehind(c, r)',
         page'[c] = page[c], lives'[c] = lives[c],
         "disconnect" \in inbox[c] => "disconnect" \in inbox'[c],
         \A t \in Tasks : Ends(t, c, r) => Ends(t, c, r)'
  PROVE  LeftBehind(c, r)
BY DEF LeftBehind, EndOnItsWay, Ends

\* A slot is taken by, or given up by, a handler that will not end the row.
LEMMA EndersStay ==
  ASSUME task \in [Tasks -> TaskTypes], NEW c \in Channels, NEW r \in Rows, NEW t \in Tasks, NEW k,
         task' = [task EXCEPT ![t] = k], ~Ends(t, c, r)
  PROVE  \A u \in Tasks : Ends(u, c, r) => Ends(u, c, r)'
BY DEF Ends

\* The socket of another page is gone, or that of the channel, whose
\* disconnect is then to be handled.
LEMMA SocketGoneLeft ==
  ASSUME PagesOK, NEW c \in Channels, NEW r \in Rows, NEW d \in Channels, NEW S, SocketGone(d, S),
         LeftBehind(c, r)'
  PROVE  c # d /\ inbox'[c] = inbox[c]
BY DEF PagesOK, SocketGone, LeftBehind, EndOnItsWay

LEMMA StreamerLeft ==
  ASSUME PagesOK, NEW c \in Channels, NEW r \in Rows, LeftBehind(c, r)',
         NEW d \in Channels, Streamer(d)
  PROVE  LeftBehind(c, r)
<1>1. UNCHANGED <<lives, task>>
  BY DEF Streamer, OpenPage, PressStartUntitled, PressEnd, ClosePage, LoseConnection
<1>2. \A t \in Tasks : Ends(t, c, r) => Ends(t, c, r)'
  BY <1>1 DEF Ends
<1>3. page'[c] = page[c] /\ ("disconnect" \in inbox[c] => "disconnect" \in inbox'[c])
  <2>1. CASE OpenPage(d)
    BY <2>1 DEF OpenPage, PagesOK, LeftBehind
  <2>2. CASE PressStartUntitled(d)
    BY <2>2 DEF PressStartUntitled, PagesOK
  <2>3. CASE PressEnd(d)
    BY <2>3, SocketGoneLeft DEF PressEnd, PagesOK
  <2>4. CASE ClosePage(d)
    BY <2>4, SocketGoneLeft DEF ClosePage, PagesOK
  <2>5. CASE LoseConnection(d)
    BY <2>5, SocketGoneLeft DEF LoseConnection, PagesOK
  <2> QED
    BY <2>1, <2>2, <2>3, <2>4, <2>5 DEF Streamer
<1> QED
  BY <1>1, <1>2, <1>3, LeftBefore

\* Of the events that are not the end only a refused one can be the disconnect.
LEMMA ServerLeft ==
  ASSUME PagesOK, NEW c \in Channels, NEW r \in Rows, LeftBehind(c, r)',
         NEW d \in Channels, Refuse(d) \/ CreateRoom(d) \/ StopLive(d)
  PROVE  LeftBehind(c, r) \/ Reason(c)
<1>1. UNCHANGED <<lives, page, task>>
  BY DEF Refuse, CreateRoom, StopLive
<1>2. \A t \in Tasks : Ends(t, c, r) => Ends(t, c, r)'
  BY <1>1 DEF Ends
<1>3. CASE "disconnect" \in inbox[c] /\ "disconnect" \notin inbox'[c]
  BY <1>1, <1>3 DEF Reason
<1>4. CASE "disconnect" \in inbox[c] => "disconnect" \in inbox'[c]
  BY <1>1, <1>2, <1>4, LeftBefore
<1> QED
  BY <1>3, <1>4

LEMMA RequestLeft ==
  ASSUME RowsOK, PagesOK, NEW c \in Channels, NEW r \in Rows, LeftBehind(c, r)',
         NEW t \in Tasks, NEW d \in Channels, Request(t, d)
  PROVE  LeftBehind(c, r)
<1>1. task \in [Tasks -> TaskTypes] /\ lives' = lives
  BY DEF RowsOK, Request, PressStart, EndAsked, RestEnd, RestRemove
<1>2. task[t] = Idle /\ \E k : task' = [task EXCEPT ![t] = k]
  BY DEF Request, PressStart, EndAsked, RestEnd, RestRemove
<1>3. ~Ends(t, c, r)
  BY <1>2 DEF Ends, Idle
<1>4. \A u \in Tasks : Ends(u, c, r) => Ends(u, c, r)'
  BY <1>1, <1>2, <1>3, EndersStay
<1>5. page'[c] = page[c] /\ ("disconnect" \in inbox[c] => "disconnect" \in inbox'[c])
  <2>1. CASE PressStart(t, d)
    BY <2>1 DEF PressStart, PagesOK, LeftBehind
  <2>2. CASE EndAsked(t, d)
    <3>1. c # d
      BY <1>1, <2>2 DEF EndAsked, LeftBehind, EndOnItsWay
    <3> QED
      BY <2>2, <3>1 DEF EndAsked, Handled, PagesOK
  <2>3. CASE RestEnd(t, d) \/ RestRemove(t, d)
    BY <2>3 DEF RestEnd, RestRemove, streamer
  <2> QED
    BY <2>1, <2>2, <2>3 DEF Request
<1> QED
  BY <1>1, <1>4, <1>5, LeftBefore

\* A row inserted for a page that is gone: it is the first, or makes two.
LEMMA SaveLiveLeft ==
  ASSUME RowsOK, PagesOK, NEW c \in Channels, NEW r \in Rows, LeftBehind(c, r)',
         NEW t \in Tasks, SaveLive(t)
  PROVE  LeftBehind(c, r) \/ Reason(c)
<1> DEFINE d == task[t].chan
<1>1. /\ d \in Channels /\ task \in [Tasks -> TaskTypes] /\ task' = [task EXCEPT ![t] = Idle]
      /\ inbox' = inbox /\ ~Ends(t, c, r)
  BY DEF RowsOK, SaveLive, Ends
<1>2. /\ page' = [page EXCEPT ![d] = IF page[d] = "posting" THEN "end" ELSE page[d]]
      /\ lives' = [lives EXCEPT ![d] = lives[d] \union {created[d] + 1}]
  BY DEF SaveLive
<1>3. CASE d # c
  <2>1. page'[c] = page[c] /\ lives'[c] = lives[c]
    BY <1>2, <1>3 DEF PagesOK, RowsOK
  <2> QED
    BY <1>1, <2>1, EndersStay, LeftBefore
<1>4. CASE d = c
  <2>1. page'[c] = "none" /\ lives'[c] = {r}
    BY DEF LeftBehind
  <2>2. page[c] = "none"
    BY <1>2, <1>4, <2>1 DEF PagesOK
  <2>3. lives[c] \subseteq {r} /\ created[c] + 1 = r
    BY <1>2, <1>4, <2>1 DEF RowsOK
  <2>4. r \notin lives[c]
    BY <2>3 DEF RowsOK
  <2> QED
    BY <2>2, <2>3, <2>4 DEF Reason
<1> QED
  BY <1>3, <1>4

\* A lookup finds the only live row.
LEMMA FindLiveLeft ==
  ASSUME RowsOK, NEW c \in Channels, NEW r \in Rows, LeftBehind(c, r)', NEW t \in Tasks, FindLive(t)
  PROVE  LeftBehind(c, r)
<1> DEFINE d == task[t].chan
<1>1. /\ task \in [Tasks -> TaskTypes] /\ task[t] \in TaskTypes /\ task[t].pc = "find"
      /\ UNCHANGED <<lives, page, inbox>>
  BY DEF RowsOK, FindLive, streamer
<1>2. CASE d = c
  <2>1. lives[c] = {r} /\ ~EndOnItsWay(c, r)'
    BY <1>1 DEF LeftBehind
  <2>2. task' = [task EXCEPT ![t] = [task[t] EXCEPT !.pc = "update", !.row = r]]
    BY <1>2, <2>1 DEF FindLive, Found
  <2>3. task'[t] = [task[t] EXCEPT !.pc = "update", !.row = r]
    BY <1>1, <2>2
  <2>4. task'[t].pc = "update" /\ task'[t].row = r /\ task'[t].chan = c
    BY <1>1, <1>2, <2>3 DEF TaskTypes
  <2> QED
    BY <2>1, <2>4 DEF EndOnItsWay
<1>3. CASE d # c
  <2>1. ~Ends(t, c, r) /\ \E k : task' = [task EXCEPT ![t] = k]
    BY <1>3 DEF Ends, FindLive
  <2> QED
    BY <1>1, <2>1, EndersStay, LeftBefore
<1> QED
  BY <1>2, <1>3

\* An ender takes away another row, or one that was gone already.
LEMMA EndLiveLeft ==
  ASSUME RowsOK, PagesOK, NEW c \in Channels, NEW r \in Rows, LeftBehind(c, r)',
         NEW t \in Tasks, EndLive(t)
  PROVE  LeftBehind(c, r) \/ Reason(c)
<1> DEFINE d == task[t].chan
           k == task[t].row
<1>1. /\ d \in Channels /\ task \in [Tasks -> TaskTypes] /\ task' = [task EXCEPT ![t] = Idle]
      /\ lives' = [lives EXCEPT ![d] = lives[d] \ {k}]
      /\ task[t].pc = "update"
  BY DEF RowsOK, EndLive
<1>2. lives'[c] = {r} /\ page'[c] = "none" /\ "disconnect" \notin inbox'[c]
  BY DEF LeftBehind, EndOnItsWay
<1>3. page'[c] = page[c] /\ inbox'[c] = inbox[c]
  <2>1. CASE UNCHANGED streamer
    BY <2>1 DEF streamer
  <2>2. CASE page' = [page EXCEPT ![d] = "none"] /\ SocketGone(d, {})
    BY <1>1, <2>2, SocketGoneLeft DEF PagesOK
  <2> QED
    BY <2>1, <2>2 DEF EndLive, Bye
<1>4. CASE d # c \/ k \notin lives[c]
  <2>1. lives'[c] = lives[c]
    BY <1>1, <1>4 DEF RowsOK
  <2>2. ~Ends(t, c, r)
    BY <1>1, <1>2, <1>4, <2>1 DEF Ends
  <2> QED
    BY <1>1, <1>3, <2>1, <2>2, EndersStay, LeftBefore
<1>5. CASE d = c /\ k \in lives[c]
  <2>1. lives[c] = {r} \union {k} /\ k \notin {r}
    BY <1>1, <1>2, <1>5 DEF RowsOK
  <2>2. IsFiniteSet({r}) /\ Cardinality({r}) = 1
    BY FS_Singleton
  <2> HIDE DEF k
  <2>3. Cardinality({r} \union {k})
          = IF k \in {r} THEN Cardinality({r}) ELSE Cardinality({r}) + 1
    BY <2>2, FS_AddElement, Zenon
  <2>4. Cardinality(lives[c]) = 1 + 1
    BY <2>1, <2>2, <2>3
  <2> QED
    BY <2>4 DEF Reason
<1> QED
  BY <1>4, <1>5

\* A broadcast whose page is gone is left without anybody to end it only by a
\* crash, a refused disconnect, a late POST of the start button, or as one of
\* two live rows.
THEOREM LeftForAReason == Spec => LeftBehindForAReason
<1>1. ASSUME TypeOK, Next, NEW c \in Channels, NEW r \in Rows, LeftBehind(c, r)'
      PROVE  LeftBehind(c, r) \/ Reason(c)
  <2>1. RowsOK /\ PagesOK
    BY <1>1, TypeParts
  <2>2. ASSUME NEW d \in Channels, Streamer(d) \/ Refuse(d) \/ CreateRoom(d) \/ StopLive(d)
        PROVE  LeftBehind(c, r) \/ Reason(c)
    BY <1>1, <2>1, <2>2, StreamerLeft, ServerLeft
  <2>3. ASSUME NEW t \in Tasks, NEW d \in Channels, Request(t, d) PROVE LeftBehind(c, r)
    BY <1>1, <2>1, <2>3, RequestLeft
  <2>4. ASSUME NEW t \in Tasks, Continue(t) PROVE LeftBehind(c, r) \/ Reason(c)
    BY <1>1, <2>1, <2>4, SaveLiveLeft, FindLiveLeft, EndLiveLeft DEF Continue
  <2>5. ASSUME NEW v \in Viewers, Watch(v) PROVE LeftBehind(c, r)
    <3>1. UNCHANGED <<lives, page, inbox, task>>
      BY <2>5 DEF Watch, OpenChannel, EnterRoom, ViewerLost, ViewerLeaves, streamer
    <3> QED
      BY <1>1, <3>1, LeftBefore DEF Ends
  <2>6. CASE Crash
    BY <2>1, <2>6 DEF Crash, PagesOK, Reason
  <2> QED
    BY <1>1, <2>2, <2>3, <2>4, <2>5, <2>6 DEF Next
<1>2. TypeOK /\ [Next]_vars =>
        [\A c \in Channels, r \in Rows :
           ~LeftBehind(c, r) /\ LeftBehind(c, r)' =>
             \/ crashes' # crashes
             \/ "disconnect" \in inbox[c] /\ "disconnect" \notin inbox'[c] /\ UNCHANGED task
             \/ page[c] = "none" /\ lives[c] = {}
             \/ Cardinality(lives[c]) > 1]_vars
  BY <1>1 DEF Reason
<1> QED
  BY <1>2, SessionTypeCorrect, PTL DEF Spec, LeftBehindForAReason

=============================================================================
