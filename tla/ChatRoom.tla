------------------------------ MODULE ChatRoom ------------------------------
(***************************************************************************)
(* One chat room as its users see it: who may send, what the flood filter  *)
(* lets through, and what appears on the screens of the viewers, who get   *)
(* the cached history when they enter and every message sent from then on. *)
(*                                                                         *)
(* All handlers share one Redis connection, which answers in the order of  *)
(* the commands: "wire" is the queue of the tasks that wait for a reply.   *)
(* An action is the reply at its head, with the effect of that command and *)
(* the JavaScript up to the next one.  ChatCache is the cache's own story; *)
(* here a flush only shortens the history from its old end, which is what  *)
(* NoGaps of ChatCache allows it to do, and no command fails.              *)
(***************************************************************************)
EXTENDS Naturals, Sequences, FiniteSets

CONSTANTS
  Users,    \* user ids, positive numbers
  Texts,    \* contents without the white space around them
  Viewers,  \* channel pages of viewers
  Tasks,    \* slots for handlers that wait for Redis: bounds the model
  Recent,   \* how many messages the flood filter looks at (5 in the code)
  Shown,    \* how many messages enter_room shows (30 in the code)
  MaxSent,  \* messages of the room: bounds the model
  Nobody    \* no viewer

ASSUME RoomSets ==
  /\ Users \subseteq Nat \ {0} /\ IsFiniteSet(Users)
  /\ IsFiniteSet(Tasks) /\ IsFiniteSet(Viewers) /\ Nobody \notin Viewers
ASSUME RoomBounds == Recent \in Nat \ {0} /\ Shown \in Nat \ {0} /\ MaxSent \in Nat

VARIABLES
  sent,     \* messages accepted so far: the id of the newest one
  cache,    \* the contents in the Redis stream, the newest last
  blocked,  \* the ids in the room's field of blockUser
  banned,   \* whom the streamer has been told is blocked: history
  joined,   \* per viewer, whether its socket is in the room
  entered,  \* per viewer, whether enter_room has been answered
  screen,   \* per viewer, the chat lines of its page
  task,     \* per slot, the handler that runs in it
  wire      \* the tasks whose command has been sent, in order

pages == <<joined, entered, screen>>
bans == <<blocked, banned>>
vars == <<sent, cache, blocked, banned, joined, entered, screen, task, wire>>

Contents == [user : Users, text : Texts, padded : BOOLEAN]
Lines == [id : 1 .. MaxSent, live : BOOLEAN]

\* Tasks by what they wait for: the block list, the recent messages, XADD, the
\* length; the list and its replacement; HDEL; the history.
Idle == [pc |-> "idle"]
Sending(pc, m) == [pc |-> pc, msg |-> m]
Emitting(m, id) == [pc |-> "len", msg |-> m, id |-> id]
Banning(pc, u, list) == [pc |-> pc, user |-> u, list |-> list]
Entering(v) == [pc |-> "history", viewer |-> v]

Init ==
  /\ sent = 0
  /\ cache = <<>>
  /\ blocked = {}
  /\ banned = {}
  /\ joined = [v \in Viewers |-> FALSE]
  /\ entered = [v \in Viewers |-> FALSE]
  /\ screen = [v \in Viewers |-> <<>>]
  /\ task = [t \in Tasks |-> Idle]
  /\ wire = <<>>

-----------------------------------------------------------------------------
(* Helpers. *)

\* The task sends its first command; its reply arrives, and it sends the next
\* one or is done.
Start(t, k) ==
  /\ task[t] = Idle
  /\ task' = [task EXCEPT ![t] = k]
  /\ wire' = Append(wire, t)

Reply(t, pc) == wire # <<>> /\ t = Head(wire) /\ task[t].pc = pc

Then(t, k) ==
  /\ task' = [task EXCEPT ![t] = k]
  /\ wire' = Append(Tail(wire), t)

Done(t) ==
  /\ task' = [task EXCEPT ![t] = Idle]
  /\ wire' = Tail(wire)

\* slice(-n) of a sequence (mutant: slice(0, n)).
FirstOf(s, n) == SubSeq(s, 1, IF Len(s) < n THEN Len(s) ELSE n)
LastOf(s, n) == SubSeq(s, IF Len(s) < n THEN 1 ELSE Len(s) - n + 1, Len(s))

\* The ids of the cached messages, the oldest first.
CachedIds == [i \in 1 .. Len(cache) |-> sent - Len(cache) + i]

\* String.includes: the decimal digits of u occur in those of b.  The list
\* joins ids with a comma, which no id contains.
Within(u, b) ==
  \E cut \in 0 .. 9, width \in 1 .. 9 :
    /\ u >= 10 ^ (width - 1)
    /\ u = (b \div 10 ^ cut) % 10 ^ width

-----------------------------------------------------------------------------
(* new_message. *)

Unsent == {t \in Tasks : task[t].pc \in {"blocked", "recent", "add"}}

NewMessage(t, m) ==
  /\ sent + Cardinality(Unsent) < MaxSent
  /\ Start(t, Sending("blocked", m))
  /\ UNCHANGED <<sent, cache, bans, pages>>

\* hGet blockUser; a blocked user gets an alert.  So does anyone whose message
\* has a forbidden word: any message may, as the table of words is left out.
CheckBlocked(t) ==
  /\ Reply(t, "blocked")
  /\ \/ Done(t)
     \/ /\ ~ \E b \in blocked : Within(task[t].msg.user, b)
        /\ Then(t, Sending("recent", task[t].msg))
  /\ UNCHANGED <<sent, cache, bans, pages>>

\* The stored content is compared with the trimmed new one.
SameContent(old, m) == old.user = m.user /\ old.text = m.text /\ ~old.padded

\* How many of the last messages are like m: filter(...).length of slice(-5).
Same(m) == Cardinality({i \in DOMAIN cache : i + Recent > Len(cache) /\ SameContent(cache[i], m)})

\* (Mutant: an off-by-one.)
TooManySameByOne(n) == n > 2
TooManySame(n) == n >= 2

\* XRANGE: a message like a recent one is refused when the newest message, of
\* whoever, is less than a second old, or when two recent ones are like it.
CheckRecent(t) ==
  /\ Reply(t, "recent")
  /\ LET m == task[t].msg
     IN  \/ Same(m) > 0 /\ Done(t)
         \/ ~TooManySame(Same(m)) /\ Then(t, Sending("add", m))
  /\ UNCHANGED <<sent, cache, bans, pages>>

Add(t) ==
  /\ Reply(t, "add")
  /\ sent' = sent + 1
  /\ cache' = Append(cache, task[t].msg)
  /\ Then(t, Emitting(task[t].msg, sent + 1))
  /\ UNCHANGED <<bans, pages>>

\* Whether the sender waits for more than the length: no, a full cache is
\* pushed in the background.  (Mutant: the push is awaited.)
AwaitsPush(n) == n > 1
AwaitsMore(n) == FALSE

\* xLen: the message is emitted to the room.
Emit(t) ==
  /\ Reply(t, "len")
  /\ IF AwaitsMore(Len(cache))
     THEN Then(t, task[t]) /\ UNCHANGED screen
     ELSE /\ Done(t)
          /\ screen' = [v \in Viewers |->
               IF joined[v] THEN Append(screen[v], [id |-> task[t].id, live |-> TRUE]) ELSE screen[v]]
  /\ UNCHANGED <<sent, cache, bans, joined, entered>>

-----------------------------------------------------------------------------
(* block_user, and deleteBlockUser at the end of the broadcast. *)

BlockUser(t, u) ==
  /\ Start(t, Banning("get", u, {}))
  /\ UNCHANGED <<sent, cache, bans, pages>>

ReadBlocked(t) ==
  /\ Reply(t, "get")
  /\ Then(t, Banning("set", task[t].user, blocked))
  /\ UNCHANGED <<sent, cache, bans, pages>>

\* hSet of the list that was read with the user added; the room is told.
WriteBlocked(t) ==
  /\ Reply(t, "set")
  /\ blocked' = task[t].list \union {task[t].user}
  /\ banned' = banned \union {task[t].user}
  /\ Done(t)
  /\ UNCHANGED <<sent, cache, pages>>

DeleteBlockUser(t) ==
  /\ Start(t, [pc |-> "hdel"])
  /\ UNCHANGED <<sent, cache, bans, pages>>

BlockedDeleted(t) ==
  /\ Reply(t, "hdel")
  /\ blocked' = {}
  /\ banned' = {}
  /\ Done(t)
  /\ UNCHANGED <<sent, cache, pages>>

-----------------------------------------------------------------------------
(* The viewers. *)

\* (Mutant: the socket is never joined.)
WithJoinedForgotten(v) == joined
WithJoined(v) == [joined EXCEPT ![v] = TRUE]

\* enter_room joins first and then reads the history.  One with a token that
\* cannot be verified throws before it joins.
EnterRoom(t, v) ==
  /\ ~joined[v]
  /\ joined' = WithJoined(v)
  /\ Start(t, Entering(v))
  /\ UNCHANGED <<sent, cache, bans, entered, screen>>

\* Who is sent the history: the socket that has entered (mutant: its room).
WholeRoom(v) == {w \in Viewers : v # Nobody /\ joined[w]}
Recipients(v) == {v} \ {Nobody}

History(t) ==
  /\ Reply(t, "history")
  /\ LET old == LastOf(CachedIds, Shown)
         to == Recipients(task[t].viewer)
     IN  /\ screen' = [v \in Viewers |->
              IF v \in to
              THEN screen[v] \o [i \in 1 .. Len(old) |-> [id |-> old[i], live |-> FALSE]]
              ELSE screen[v]]
         /\ entered' = [v \in Viewers |-> entered[v] \/ v = task[t].viewer]
  /\ Done(t)
  /\ UNCHANGED <<sent, cache, bans, joined>>

\* The page is left: a reply under way finds no socket to go to.
WithoutClient(k, v) == IF k = Entering(v) THEN Entering(Nobody) ELSE k

LeaveRoom(v) ==
  /\ joined[v]
  /\ joined' = [joined EXCEPT ![v] = FALSE]
  /\ entered' = [entered EXCEPT ![v] = FALSE]
  /\ screen' = [screen EXCEPT ![v] = <<>>]
  /\ task' = [t \in Tasks |-> WithoutClient(task[t], v)]
  /\ UNCHANGED <<sent, cache, bans, wire>>

-----------------------------------------------------------------------------
\* A flush removes the oldest messages, or all of them.
Flush ==
  /\ \E n \in 1 .. Len(cache) : cache' = SubSeq(cache, n + 1, Len(cache))
  /\ UNCHANGED <<sent, bans, pages, task, wire>>

-----------------------------------------------------------------------------
Request(t) ==
  \/ \E m \in Contents : NewMessage(t, m)
  \/ \E u \in Users : BlockUser(t, u)
  \/ DeleteBlockUser(t)
  \/ \E v \in Viewers : EnterRoom(t, v)

Continue(t) ==
  \/ CheckBlocked(t) \/ CheckRecent(t) \/ Add(t) \/ Emit(t)
  \/ ReadBlocked(t) \/ WriteBlocked(t) \/ BlockedDeleted(t) \/ History(t)

Next ==
  \/ \E t \in Tasks : Request(t) \/ Continue(t)
  \/ \E v \in Viewers : LeaveRoom(v)
  \/ Flush

Spec == Init /\ [][Next]_vars

-----------------------------------------------------------------------------
(* Properties. *)

Waits(t, pc) == task[t].pc = pc

\* Type correctness, with the queue: every handler that runs waits for exactly
\* one reply, and a page whose history has come is in the room.
TypeOK ==
  /\ sent \in 0 .. MaxSent
  /\ cache \in Seq(Contents) /\ Len(cache) <= sent
  /\ blocked \subseteq Users /\ banned \subseteq Users
  /\ joined \in [Viewers -> BOOLEAN] /\ entered \in [Viewers -> BOOLEAN]
  /\ screen \in [Viewers -> Seq(Lines)]
  /\ wire \in Seq(Tasks)
  /\ \A t \in Tasks : Cardinality({i \in DOMAIN wire : wire[i] = t}) = (IF task[t] = Idle THEN 0 ELSE 1)
  /\ \A v \in Viewers : entered[v] => joined[v]

ShownIds(v) == {screen[v][i].id : i \in DOMAIN screen[v]}
Emitted == (1 .. sent) \ {task[t].id : t \in {u \in Tasks : Waits(u, "len")}}

\* A viewer whose history has come misses no message: after the first one on
\* the page, every message emitted to the room is on it, although it was sent
\* while the viewer entered or flushed while the history was read.
NoMissedMessage ==
  \A v \in Viewers : entered[v] =>
    \A m \in Emitted : (\E k \in ShownIds(v) : k < m) => m \in ShownIds(v)

\* The messages that arrive on a page are in the order of the transcript,
\* whichever handler sent them.
LiveInOrder ==
  \A v \in Viewers : \A i, j \in DOMAIN screen[v] :
    i < j /\ screen[v][i].live /\ screen[v][j].live => screen[v][i].id < screen[v][j].id

\* A message sent while a viewer enters is shown from the history and again
\* when it is emitted, but never a third time.
AtMostTwice ==
  \A v \in Viewers, m \in 1 .. MaxSent :
    Cardinality({i \in DOMAIN screen[v] : screen[v][i].id = m}) <= 2

\* Handlers that race through the flood filter let more than two like messages
\* through, but only one more for each of the others: of a cached message and as
\* many after it as the filter looks at, at most one more than there are handlers
\* are like it.
RepeatsBounded ==
  \A i \in DOMAIN cache :
    Cardinality({j \in DOMAIN cache : j \in i .. i + Recent /\ SameContent(cache[j], cache[i])})
      <= Cardinality(Tasks) + 1

-----------------------------------------------------------------------------
(* What the repository says and the code does not do. *)

\* chat.gateway.ts:152 (so-and-so is blocked): who has been announced as
\* blocked is on the block list until the broadcast ends.
BannedStayOut == banned \subseteq blocked

=============================================================================
