------------------------------ MODULE ChatCache ------------------------------
(***************************************************************************)
(* The chat write-behind cache of chat.service.ts: new messages go to a    *)
(* Redis stream per channel and are moved to MongoDB by the flush that a   *)
(* full stream, the room's interval timer, the end of a broadcast or the   *)
(* streamer's disconnect starts.                                           *)
(*                                                                         *)
(* One node process runs any number of handlers ("tasks").  An action is   *)
(* what happens between two awaits: the reply of the command the task      *)
(* waits for, its effect on the store, and the JavaScript up to the next   *)
(* command.  Redis takes the commands in one connection's order, and the   *)
(* JavaScript between two awaits reads only process-local state.           *)
(*                                                                         *)
(* The messages of a channel are the numbers 1, 2, ... in the order of     *)
(* their stream ids.  Numbers stand for contents, users and times; of the  *)
(* content itself only whether it is empty matters here.                   *)
(***************************************************************************)
EXTENDS Naturals, FiniteSets

CONSTANTS
  Channels,   \* channels with a chat room
  Tasks,      \* slots for handlers that wait for a store: bounds the model
  FlushAt,    \* stream length that starts a flush (200 in the code)
  MinBatch,   \* a partial flush of fewer messages gives up (100 in the code)
  MaxSent,    \* messages per channel: bounds the model
  MaxEmpty,   \* empty messages per channel: bounds the model
  MaxTimers,  \* interval timers alive per channel: bounds the model
  MaxFaults,  \* failed commands and crashes: bounds the model
  None        \* no channel

ASSUME SetsAssumption ==
  IsFiniteSet(Channels) /\ IsFiniteSet(Tasks) /\ None \notin Channels
ASSUME BoundsAssumption ==
  MaxSent \in Nat /\ MaxEmpty \in Nat /\ MaxTimers \in Nat /\ MaxFaults \in Nat
ASSUME FlushAssumption ==
  MinBatch \in Nat \ {0} /\ FlushAt \in Nat /\ 2 * MinBatch <= FlushAt

VARIABLES
  sent,       \* per channel, how many messages xAdd has stored so far
  empty,      \* per channel, the messages sent with an empty content
  stream,     \* per channel, the messages in its Redis stream
  archive,    \* per channel and message, its copies in MongoDB
  noChatYet,  \* createChatRoomNoChatData: one flag for all channels
  timers,     \* per channel, its interval timers alive in the process
  handle,     \* setIntervalFunc: the channel of the live timer it holds, or None
  task,       \* per slot, the handler that runs in it
  faults      \* failed commands and crashes so far

stores == <<sent, empty, stream, archive>>
process == <<noChatYet, timers, handle>>
vars == <<sent, empty, stream, archive, noChatYet, timers, handle, task, faults>>

Ids == 1 .. MaxSent
Jobs == {"none", "chat", "flush", "exit", "disconnect"}
Steps == {"idle", "add", "len", "half", "read", "insert", "delete", "end"}

Idle == [pc |-> "idle", job |-> "none", chan |-> None, count |-> 0, batch |-> {}]

\* A task as it starts: a partial move is asked for later, by "half".
Started(job, pc, c) == [pc |-> pc, job |-> job, chan |-> c, count |-> 0, batch |-> {}]

Init ==
  /\ sent = [c \in Channels |-> 0]
  /\ empty = [c \in Channels |-> {}]
  /\ stream = [c \in Channels |-> {}]
  /\ archive = [c \in Channels |-> [m \in Ids |-> 0]]
  /\ noChatYet = FALSE
  /\ timers = [c \in Channels |-> 0]
  /\ handle = None
  /\ task = [t \in Tasks |-> Idle]
  /\ faults = 0

-----------------------------------------------------------------------------
(* Helpers. *)

\* XRANGE - + COUNT n: the n oldest messages of S (mutant: XREVRANGE).
Newest(S, n) == {m \in S : Cardinality({k \in S : k > m}) < n}
Oldest(S, n) == {m \in S : Cardinality({k \in S : k < m}) < n}

\* What a handler does when its move is over, whether the move saved anything,
\* gave up or failed: liveChatDataMoveMongo catches its own errors, and only
\* the disconnect handler has something left to wait for (mutant: it has lost
\* its room).
AfterMoveOfNoRoom(k) == IF k.job = "disconnect" THEN Started("disconnect", "end", None) ELSE Idle
AfterMove(k) == IF k.job = "disconnect" THEN Started("disconnect", "end", k.chan) ELSE Idle

\* clearInterval(setIntervalFunc): stops the timer the handle holds, whoever's
\* timer that is; a handle that holds none, or a dead one, stops nothing.
ClearInterval ==
  IF handle = None
  THEN UNCHANGED <<timers, handle>>
  ELSE /\ timers' = [timers EXCEPT ![handle] = @ - 1]
       /\ handle' = None

\* insertMany of S: one more copy of each.
Saved(c, S) == [archive EXCEPT ![c] = [m \in Ids |-> IF m \in S THEN @[m] + 1 ELSE @[m]]]

-----------------------------------------------------------------------------
(* The streamer's events.  The server accepts them at any time, from any    *)
(* page of the streamer: a button is pressed twice, a page is reloaded, a   *)
(* second tab is closed.  One refused for its token changes nothing here.   *)

\* create_room: join, raise the flag, and start a timer whose handle replaces
\* the one kept before.
CreateRoom(c) ==
  /\ timers[c] < MaxTimers
  /\ noChatYet' = TRUE
  /\ timers' = [timers EXCEPT ![c] = @ + 1]
  /\ handle' = c
  /\ UNCHANGED <<stores, task, faults>>

\* stop_live of any channel.
StopLive ==
  /\ ClearInterval
  /\ UNCHANGED <<stores, noChatYet, task, faults>>

\* exit_room and the streamer's disconnect drop the block list and then move
\* the whole stream.
ExitRoom(t, c) ==
  /\ task[t] = Idle
  /\ task' = [task EXCEPT ![t] = Started("exit", "read", c)]
  /\ UNCHANGED <<stores, process, faults>>

Disconnect(t, c) ==
  /\ task[t] = Idle
  /\ task' = [task EXCEPT ![t] = Started("disconnect", "read", c)]
  /\ UNCHANGED <<stores, process, faults>>

\* The disconnect handler, once the live has been ended: deleteChatRoom.
ClearRoom(t) ==
  /\ task[t].pc = "end"
  /\ ClearInterval
  /\ task' = [task EXCEPT ![t] = Idle]
  /\ UNCHANGED <<stores, noChatYet, faults>>

-----------------------------------------------------------------------------
(* A chat message. *)

\* createChat starts: the flag falls before the first await.
NewMessage(t, c) ==
  /\ task[t] = Idle
  /\ sent[c] < MaxSent
  /\ noChatYet' = FALSE
  /\ task' = [task EXCEPT ![t] = Started("chat", "add", c)]
  /\ UNCHANGED <<stores, timers, handle, faults>>

\* The recent messages say this one is repeated or too fast.
Reject(t) ==
  /\ task[t].pc = "add"
  /\ task' = [task EXCEPT ![t] = Idle]
  /\ UNCHANGED <<stores, process, faults>>

\* The server does not look at the length of a content: only the page that
\* sends it does.
XAdd(c) ==
  /\ sent[c] < MaxSent
  /\ sent' = [sent EXCEPT ![c] = @ + 1]
  /\ \/ UNCHANGED empty
     \/ /\ Cardinality(empty[c]) < MaxEmpty
        /\ empty' = [empty EXCEPT ![c] = @ \union {sent[c] + 1}]
  /\ stream' = [stream EXCEPT ![c] = @ \union {sent[c] + 1}]

\* setStreamCache: xAdd, then ask for the length.
Add(t) ==
  /\ task[t].pc = "add"
  /\ XAdd(task[t].chan)
  /\ task' = [task EXCEPT ![t].pc = "len"]
  /\ UNCHANGED <<archive, process, faults>>

\* A stream at its limit starts a flush that nobody awaits, so the chat
\* handler is done and the slot goes on as the flush.
Len(t) ==
  /\ task[t].pc = "len"
  /\ LET c == task[t].chan
     IN  task' = [task EXCEPT ![t] =
           IF Cardinality(stream[c]) >= FlushAt /\ ~noChatYet
           THEN Started("flush", "half", c)
           ELSE Idle]
  /\ UNCHANGED <<stores, process, faults>>

-----------------------------------------------------------------------------
(* The flush: dataPushMongo and liveChatDataMoveMongo. *)

\* A timer of the room fires; while the flag is up the flush returns at once.
IntervalFires(t, c) ==
  /\ task[t] = Idle
  /\ timers[c] > 0
  /\ task' = [task EXCEPT ![t] = IF noChatYet THEN Idle ELSE Started("flush", "half", c)]
  /\ UNCHANGED <<stores, process, faults>>

\* xLen: ask for the older half.  Half of 0 or 1 is 0, which asks for all.
Half(t) ==
  /\ task[t].pc = "half"
  /\ LET n == Cardinality(stream[task[t].chan])
     IN  task' = [task EXCEPT ![t].pc = "read", ![t].count = n \div 2]
  /\ UNCHANGED <<stores, process, faults>>

\* xRange of the oldest "count" messages, or of all of them for count 0.
Snapshot(c, count) == IF count > 0 THEN Oldest(stream[c], count) ELSE stream[c]

\* A partial move of n messages gives up below MinBatch; a whole one never
\* does (mutants: an off-by-one, and this applied to every move).
GivesUpAtMinBatch(count, n) == count > 0 /\ n <= MinBatch
GivesUpAlways(count, n) == n <= MinBatch
GivesUp(count, n) == count > 0 /\ n < MinBatch

Read(t) ==
  /\ task[t].pc = "read"
  /\ LET got == Snapshot(task[t].chan, task[t].count)
     IN  task' = IF GivesUp(task[t].count, Cardinality(got))
                 THEN [task EXCEPT ![t] = AfterMove(task[t])]
                 ELSE [task EXCEPT ![t].pc = "insert", ![t].batch = got]
  /\ UNCHANGED <<stores, process, faults>>

\* The schema requires a content, and an empty string is none.  An ordered
\* insertMany validates all of its documents before it sends any.
Valid(k) == k.batch \intersect empty[k.chan] = {}

Insert(t) ==
  /\ task[t].pc = "insert"
  /\ Valid(task[t])
  /\ archive' = Saved(task[t].chan, task[t].batch)
  /\ task' = [task EXCEPT ![t].pc = "delete"]
  /\ UNCHANGED <<sent, empty, stream, process, faults>>

\* One invalid document refuses the batch: nothing is saved, the error is logged
\* and swallowed, nothing is deleted.
InsertRejected(t) ==
  /\ task[t].pc = "insert"
  /\ ~Valid(task[t])
  /\ task' = [task EXCEPT ![t] = AfterMove(task[t])]
  /\ UNCHANGED <<stores, process, faults>>

\* A partial move deletes the ids it read; a whole one deletes the key.
\* (Mutants: the last id is skipped, no id is deleted, the key is always deleted.)
RemainingLast(k) ==
  stream[k.chan] \ IF k.count > 0 THEN Oldest(k.batch, Cardinality(k.batch) - 1)
                   ELSE stream[k.chan]
RemainingBatch(k) == IF k.count > 0 THEN stream[k.chan] ELSE {}
RemainingNone(k) == {}
Remaining(k) == IF k.count > 0 THEN stream[k.chan] \ k.batch ELSE {}

Delete(t) ==
  /\ task[t].pc = "delete"
  /\ stream' = [stream EXCEPT ![task[t].chan] = Remaining(task[t])]
  /\ task' = [task EXCEPT ![t] = AfterMove(task[t])]
  /\ UNCHANGED <<sent, empty, archive, process, faults>>

-----------------------------------------------------------------------------
(* Faults. *)

Fault == faults < MaxFaults /\ faults' = faults + 1

\* A command fails without effect.  An error of the move or of the push is
\* logged and swallowed, one of the chat handler or of liveService.end ends
\* the handler.
CommandFails(t) ==
  /\ Fault
  /\ task[t].pc # "idle"
  /\ task' = [task EXCEPT ![t] =
                IF task[t].pc \in {"read", "insert", "delete"} THEN AfterMove(task[t]) ELSE Idle]
  /\ UNCHANGED <<stores, process>>

\* xAdd is done but its reply is lost: the sender gets an error.
AddUnconfirmed(t) ==
  /\ Fault
  /\ task[t].pc = "add"
  /\ XAdd(task[t].chan)
  /\ task' = [task EXCEPT ![t] = Idle]
  /\ UNCHANGED <<archive, process>>

\* insertMany is ordered: it fails with the oldest part of a valid batch saved.
\* (Mutants: unordered, some part is saved; the error is ignored, and the batch
\* is deleted all the same.)
InsertUnordered(t) ==
  /\ Fault
  /\ task[t].pc = "insert"
  /\ Valid(task[t])
  /\ \E S \in SUBSET task[t].batch : archive' = Saved(task[t].chan, S)
  /\ task' = [task EXCEPT ![t] = AfterMove(task[t])]
  /\ UNCHANGED <<sent, empty, stream, process>>

InsertErrorIgnored(t) ==
  /\ Fault
  /\ task[t].pc = "insert"
  /\ Valid(task[t])
  /\ \E n \in 1 .. Cardinality(task[t].batch) :
        archive' = Saved(task[t].chan, Oldest(task[t].batch, n))
  /\ task' = [task EXCEPT ![t].pc = "delete"]
  /\ UNCHANGED <<sent, empty, stream, process>>

InsertBreaks(t) ==
  /\ Fault
  /\ task[t].pc = "insert"
  /\ Valid(task[t])
  /\ \E n \in 1 .. Cardinality(task[t].batch) :
        archive' = Saved(task[t].chan, Oldest(task[t].batch, n))
  /\ task' = [task EXCEPT ![t] = AfterMove(task[t])]
  /\ UNCHANGED <<sent, empty, stream, process>>

\* The node process dies and restarts: its handlers, timers and fields are
\* gone, the stores stay.
Crash ==
  /\ Fault
  /\ task' = [t \in Tasks |-> Idle]
  /\ timers' = [c \in Channels |-> 0]
  /\ handle' = None
  /\ noChatYet' = FALSE
  /\ UNCHANGED stores

-----------------------------------------------------------------------------
Start(t, c) == ExitRoom(t, c) \/ Disconnect(t, c) \/ NewMessage(t, c) \/ IntervalFires(t, c)

Continue(t) ==
  \/ Reject(t) \/ Add(t) \/ Len(t) \/ Half(t) \/ Read(t)
  \/ Insert(t) \/ InsertRejected(t) \/ Delete(t) \/ ClearRoom(t)

Break(t) == CommandFails(t) \/ AddUnconfirmed(t) \/ InsertBreaks(t)

Next ==
  \/ \E c \in Channels : CreateRoom(c)
  \/ StopLive
  \/ \E t \in Tasks, c \in Channels : Start(t, c)
  \/ \E t \in Tasks : Continue(t) \/ Break(t)
  \/ Crash

Spec == Init /\ [][Next]_vars

-----------------------------------------------------------------------------
(* Properties. *)

Holds(t, c) == task[t].pc \in {"insert", "delete"} /\ task[t].chan = c

TaskTypes ==
  [pc : Steps, job : Jobs, chan : Channels \union {None}, count : Nat, batch : SUBSET Ids]

\* Type correctness, with what ties the fields to one another: the stores hold
\* accepted messages only, and a task that runs has a channel and a batch of it.
TypeOK ==
  /\ sent \in [Channels -> 0 .. MaxSent]
  /\ empty \in [Channels -> SUBSET Ids]
  /\ stream \in [Channels -> SUBSET Ids]
  /\ archive \in [Channels -> [Ids -> Nat]]
  /\ noChatYet \in BOOLEAN
  /\ timers \in [Channels -> Nat]
  /\ handle \in Channels \union {None}
  /\ task \in [Tasks -> TaskTypes]
  /\ faults \in Nat
  /\ \A c \in Channels, m \in Ids : m \in stream[c] \/ archive[c][m] > 0 => m <= sent[c]
  /\ handle # None => timers[handle] > 0
  /\ \A t \in Tasks : task[t].pc # "idle" =>
        task[t].chan \in Channels /\ \A m \in task[t].batch : m <= sent[task[t].chan]

\* What a batch in flight still relates to after other flushes have trimmed or
\* emptied the stream: nothing older than one of its messages is left cached
\* outside the batch.
BatchIsPrefix ==
  \A t \in Tasks, c \in Channels : Holds(t, c) =>
    \A m \in task[t].batch, k \in stream[c] : k < m => k \in task[t].batch

\* A batch about to be deleted has been saved.
BatchSaved ==
  \A t \in Tasks : task[t].pc = "delete" =>
    \A m \in task[t].batch : archive[task[t].chan][m] > 0

\* However many flushes of a room overlap, fail half way or are cut by a
\* restart, the cached history that enter_room shows has no hole: it is always
\* an unbroken run of messages up to the newest one.
NoGaps ==
  \A c \in Channels : \A m \in stream[c] : m .. sent[c] \subseteq stream[c]

\* The transcript is saved in order: of two cached messages the older one is
\* never the one missing from MongoDB, not even after a partial insertMany.
SavedInOrder ==
  \A c \in Channels : \A m, k \in stream[c] :
    k < m /\ archive[c][m] > 0 => archive[c][k] > 0

\* The inductive invariant: the last two hold because of what is known of the
\* batches in flight.
StoreInv == TypeOK /\ BatchIsPrefix /\ BatchSaved /\ NoGaps /\ SavedInOrder

\* A message leaves the cache without having been saved in one way only: a
\* whole-stream move deletes the key after newer messages than all it had read
\* were added.
SavedBeforeRemoved ==
  [][\A c \in Channels : \A m \in stream[c] \ stream'[c] :
       \/ archive[c][m] > 0
       \/ \E t \in Tasks : /\ task[t].pc = "delete" /\ task[t].chan = c
                           /\ task[t].count = 0
                           /\ \A k \in task[t].batch : k < m]_vars

\* Without faults, a message is both cached and saved only while a flush that
\* holds it stands between its insertMany and its delete.
NoStaleCopy ==
  faults = 0 =>
    \A c \in Channels : \A m \in stream[c] : archive[c][m] > 0 =>
      \E t \in Tasks : task[t].pc = "delete" /\ task[t].chan = c /\ m \in task[t].batch

\* The overlapping flushes save a message more than once, but a bounded number
\* of times: once per handler that can run at the same time, and again for each
\* fault that leaves the saved message in the cache.
CopiesBounded ==
  \A c \in Channels, m \in Ids : archive[c][m] <= Cardinality(Tasks) * (faults + 1)

\* Per channel, the messages MongoDB has, however often.
SavedIds == [c \in Channels |-> {m \in Ids : archive[c][m] > 0}]

\* The detailed cache implements the transcript of ChatTranscript.
Transcript == INSTANCE ChatTranscript WITH
  accepted <- sent,
  visible <- stream,
  saved <- SavedIds

ImplementsTranscript == Transcript!Spec

-----------------------------------------------------------------------------
(* Liveness, without faults. *)

\* Handlers are run by node's event loop: one whose command has been answered
\* goes on.  A live timer fires every minute and is not starved by other
\* handlers: a busy slot is a bound of the model, hence strong fairness.
Fairness ==
  /\ \A t \in Tasks : WF_vars(Continue(t))
  /\ \A c \in Channels : SF_vars(\E t \in Tasks : IntervalFires(t, c))

FairSpec == Spec /\ Fairness

\* A stream at its limit is brought below it, unless its timer is stopped, a
\* new room raises the flag that suppresses every flush, or the older half, which
\* a flush saves, holds an empty message: then every flush is refused.
Drains ==
  \A c \in Channels : Cardinality(stream[c]) >= FlushAt ~>
    \/ Cardinality(stream[c]) < FlushAt
    \/ timers[c] = 0
    \/ noChatYet
    \/ Oldest(stream[c], Cardinality(stream[c]) \div 2) \intersect empty[c] # {}

Exits(t, c) == task[t].job = "exit" /\ task[t].chan = c

\* Once the whole-stream move of an ended broadcast has begun, every message
\* cached at that moment leaves the cache, whatever flushes run beside it, unless
\* an empty message was among what such a move had read.
EndingDrains ==
  \A c \in Channels, m \in Ids :
    (m \in stream[c] /\ \E t \in Tasks : Exits(t, c)) ~>
      \/ m \notin stream[c]
      \/ \E t \in Tasks : Exits(t, c) /\ task[t].batch \intersect empty[c] # {}

=============================================================================
