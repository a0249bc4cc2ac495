# Verification of La-it

La-it is a live streaming site: a NestJS process with socket.io, a Redis chat
cache, MongoDB for the chat archive, MySQL (TypeORM) for users, channels and
broadcasts, and nginx-rtmp for the video. This directory holds TLA+ models of the
part that is hard to test - what its asynchronous handlers do to one another - with
the TLC configurations that check them and TLAPS proofs of every safety property.

Paths below are relative to the repository; `chat.service.ts` and its neighbours
are in `src/chat/`, `live.service.ts` in `src/live/`, `chat.js` in `public/script/`.

## 1. Inventory

| Component | State it keeps | Operations | Model |
|---|---|---|---|
| Chat cache and archive (`chat.service.ts`) | Redis stream per channel, MongoDB `chats`, fields `setIntervalFunc`, `createChatRoomNoChatData` | `createChatRoom`, `deleteChatRoom`, `createChat`, `setStreamCache`, `dataPushMongo`, `liveChatDataMoveMongo` | `ChatCache`, `ChatTranscript` |
| Chat room (`chat.gateway.ts`, `chat.js`) | socket.io room, Redis hash `blockUser`, chat lines of each page | `new_message`, `block_user`, `enter_room`, `deleteBlockUser` | `ChatRoom` |
| Live sessions (`live.service.ts`, `live.controller.ts`) | table `lives` | `create`, `end`, `remove`; `update` of a title is left out | `LiveSession` |
| Disconnect handler (`chat.disconnect.ts`) | none of its own | ends the broadcast of a streamer whose socket is gone | `ChatCache`, `LiveSession` |
| Streaming and channel pages (`views/streaming.ejs`, `chat.js`, `app.controller.ts`) | buttons, the page's socket | start, end, reload, enter, `bye` | `LiveSession` |
| WebSocket guard (`auth/guards/chat.guard.ts`) | none | accepts or refuses by token | `Refuse` of `LiveSession` |
| Forbidden words | a table of words | substring test | an outcome of `CheckBlocked` of `ChatRoom` |
| Watch counts and home page (`roomUserCtn`, `app.controller.ts`) | none stored | lists live rows, counts the sockets of rooms | `HomePage` |
| Accounts (`user.service.ts`, `auth.service.ts`, Kakao strategy) | tables `users`, `channels`; the cookie | `register`, `createUserAndChannel`, `login`, `updateUserInfo` | `Accounts` |
| Channels and stream keys (`user.service.ts`, `channelSetting.js`) | table `channels`, the key copied into `lives` | `changeStreamKey`, `resetStreamKey`, `updateChannelInfo`, `updateChannelImage`, the cascade of `create` | `Channels` |
| Images (`image.service.ts`) | one object per channel in S3 | upload | `Upload` of `Channels` |
| HTTP authentication (`auth/`) | the cookie's token, good for a day | who gets it, that it expires | `token` of `Accounts`, `Refuse` of `LiveSession`; the guards are not modelled |
| History and search queries, notices | none, or one insert | stateless | no |
| Hearts, payments | - | not listed in `AppModule`'s imports: unreachable | no |
| Bootstrap, Redis adapter, logging, Sentry, throttler, nginx-rtmp | configuration | - | no |

**How they interact.** The browser pages talk to the process by socket.io events and
REST. All handlers share one event loop, one Redis command connection and the
fields of singleton services. A broadcast starts twice, independently: the start
button sends `create_room` on the socket (the room, the interval timer) and POSTs
`/api/live/create` (the row). It ends up to three times: `stop_live` clears the
timer, `exit_room` and the disconnect of the page's socket each drop the block
list, move the whole chat to MongoDB, look the live row up, update it and send
`bye` to the room; the disconnect also clears the timer. There is one command
connection to Redis. No handler takes a lock, and none runs its statements in one
transaction: TypeORM wraps the write of each `save`, not the find before it. Users and
channels are rows of MySQL that every request reads, changes in memory and saves. A broadcast
copies its channel's key, and saves the channel with it. The home page reads `lives` twice and the
rooms of socket.io between queries.

**What is hard.** Every `await` lets other handlers run; errors of the chat move are
logged and swallowed; the timer handle and the flag are one for all channels;
events of a socket that is gone are handled late, next to those of the page's next
socket; the token is verified when the streamer leaves, up to a day after it was
made. `PROJECT.json` lists each hazard with its line. The repository has no
test of any of this (`test/app.e2e-spec.ts` is the generated scaffold).

**What makes each component correct.**

- Cache: no message disappears unsaved (as far as the code can promise it), the
  history shown on entering has no hole, the archive is in order with a bounded
  number of duplicates, a full stream drains, an ended room is emptied.
- Room: a page misses no message after its first one, live messages keep their
  order, blocked users stay out, the flood filter bounds repeats.
- Session: an end reaches the live row, viewers in the room are sent home, a
  running room has its timer. That `bye` is sent only for what is over is not among
  them: an ender sends it to the room for the row it found, over or not, and
  the room may be the next broadcast's by then.
- Accounts: whoever is welcomed has a channel, an account of origin belongs to one user, a form sent
  twice makes one user, an edit writes what was typed.
- Channel: the page shows the key that the channel has, a save writes its own
  columns, a broadcast is announced under the key the streamer uses, the settings form
  saves no URL of an image that is not there.
- Home page: it fails only when it must, its numbers were true, no room in use is missed.

## 2. Modules

| Module | What it is |
|---|---|
| `ChatTranscript` | abstract: what a chat store promises - accept, save in order, trim saved prefixes, or empty the room |
| `ChatCache` | the write-behind cache: chat, flushes, timers, ends of broadcasts, faults, crash |
| `MCChatCache` | instances of `ChatCache` for TLC |
| `ChatCache_proofs` | the theorems about `ChatCache`, and that it implements `ChatTranscript` |
| `LiveSession`, `MCLiveSession` | the broadcast: streamer's page, `lives` rows, enders, timers, viewers |
| `LiveSession_proofs` | its types, and what may leave a broadcast behind |
| `ChatRoom`, `MCChatRoom` | one room as its users see it: sending, blocking, entering, screens |
| `ChatRoom_proofs` | the queue, what the pages show, and the flood filter |
| `TypeOrm` | what `save` does to a row found earlier: the columns that differ, the row after the update |
| `Accounts`, `MCAccounts`, `Accounts_proofs` | sign-up, Kakao, login, edits of a profile |
| `Channels`, `MCChannels`, `Channels_proofs` | one channel's row, its settings page, its key, its broadcasts |
| `HomePage`, `MCHomePage`, `HomePage_proofs` | one request for `/` among broadcasts and sockets that come and go |

`Accounts` and `Channels` share `TypeOrm`. They meet the others at the rows they write:
`LiveSession` has the broadcasts without the key, `Channels` the key without the room. `HomePage` lets rows and rooms
change in any order, so that it holds whatever `LiveSession` does.

### One action is one step between two awaits

A handler is a record in a slot of `task`; its `pc` is the command it waits for. An
action is the reply of that command: the command's effect on the store, the
JavaScript that follows, and the sending of the next command. Putting the effect
and the reply in one step loses no interleaving: between a command's execution
and the continuation of its handler, other handlers may run JavaScript, but that
touches the process only (fields, `task`, rooms), never the store, and what they send
is executed after the command. The JavaScript up to the next `await` runs alone.

`ChatCache` and `LiveSession` let the waiting handlers go on in any order, as handlers
that wait for different stores or pooled connections may. In `ChatRoom` all wait for the one Redis
connection, which answers in the order of the commands: `wire` is that queue, and
only its head can be answered. The chat room needs this: with replies in any
order, two messages could be emitted in the wrong order.

A `save` is two waits: TypeORM reads the row again and compares the entity with it,
then writes the columns that differ. With the handler's own find that makes three, and
a column that another request has changed between the find and the comparison is
written back although nobody asked. Only an update that changes nothing ends early.

### `ChatCache`

| Model | Code |
|---|---|
| `sent`, `stream`, `archive` | messages stored by `xAdd` (numbers in stream-id order), the Redis stream, how many copies MongoDB has of each |
| `empty` | the messages without content: the gateway accepts them, the schema of MongoDB (`chat.schema.ts:20`) does not |
| `noChatYet`, `timers`, `handle` | `createChatRoomNoChatData`; the interval timers alive; the one `setIntervalFunc` |
| `NewMessage`, `Reject`, `Add`, `Len` | `createChat` and `setStreamCache`; `Len` goes on as the un-awaited push |
| `IntervalFires`, `Half`, `Read`, `Insert`, `Delete` | `dataPushMongo`, `liveChatDataMoveMongo` with its two branches |
| `InsertRejected` | `insertMany` of a batch with an empty message: validation refuses the whole batch, the error is swallowed |
| `ExitRoom`, `Disconnect`, `ClearRoom`, `CreateRoom`, `StopLive` | the streamer's events |
| `CommandFails`, `AddUnconfirmed`, `InsertBreaks`, `Crash` | a command fails, a reply is lost, an ordered `insertMany` stops half way, the process dies |

`count` is `countNum`: 0 asks for everything and selects the `DEL` branch, also when it is
the half of a stream of 0 or 1 messages.

### `LiveSession`

| Model | Code |
|---|---|
| `lives`, `created` | rows with `status` true; rows inserted |
| `page`, `inRoom`, `inbox` | which button the page shows; whether its socket is in the room; its events on the way. `inbox` is a set: events of the page's sockets are handled in any order, because `WsGuard` waits for a database query first |
| `timers`, `handle` | as in `ChatCache` |
| `PressStart`, `PressStartUntitled`, `SaveLive` | the two listeners of the start button (`chat.js:39`, `streaming.ejs:127`) and `LiveService.create` |
| `PressEnd`, `ClosePage`, `LoseConnection` | `endLive` of `chat.js`; the socket leaves its rooms and its disconnect is handled later; a `create_room` still on the way joins nothing (`late_room`) but starts its timer |
| `EndAsked`, `FindLive`, `EndLive`, `Bye`, `AfterEnd` | `exit_room` and `handleDisconnect` from `liveService.end` on; `bye` takes every page in the room home |
| `RestEnd`, `RestRemove` | `POST /api/live/end/:channelId`, `DELETE /api/live/:liveId` |
| `OpenChannel`, `EnterRoom`, `ViewerLost`, `ViewerLeaves` | the channel page; a reconnected socket does not enter again |

A reload shows the start button even while a row is live: `streaming.ejs:116` undoes
what line 89 did. `OpenPage` therefore does not depend on `lives`.

### `ChatRoom`

| Model | Code |
|---|---|
| `cache` | contents of the Redis stream, the newest last; `sent - Len(cache)` older messages have been flushed |
| `blocked`, `banned` | the room's field of `blockUser`; whom the room has been told is blocked (history) |
| `joined`, `entered`, `screen` | the viewer's socket is in the room; its `enter_room` was answered; the lines of its page |
| `NewMessage`, `CheckBlocked`, `CheckRecent`, `Add`, `Emit` | `new_message` through the block list and the forbidden words (`CheckBlocked`: any message may hold one), the flood filter, `xAdd`, `xLen` and the emit |
| `BlockUser`, `ReadBlocked`, `WriteBlocked`, `DeleteBlockUser`, `BlockedDeleted` | `blockUser`, and `deleteBlockUser` of `exit_room` |
| `EnterRoom`, `History`, `LeaveRoom` | join, `XRANGE`, the last 30 to the socket |
| `Flush` | any flush: a prefix of the cache goes. That this is all a flush does to the history is `NoGaps` of `ChatCache`, which is proved |

Contents are abstract: a user, a text, and whether white space surrounds it (the filter
compares the stored content with the trimmed new one). `Same` counts the last `Recent` positions of the
cache with the content, as a set, which is the length of the code's filtered slice. `Within` is `String.includes`
on the decimal digits of ids.

### `Accounts`

| Model | Code |
|---|---|
| `users`, `channels` | rows of `users` by `userId`: `who` is the column `kakaoId`, a Kakao id or the hash of the address typed at registration; the users who have a channel |
| `token` | per browser, the user of its cookie |
| `req` | per browser, its request and what it waits for |
| `asked`, `edited`, `mixed` | history: how many users existed when a sign-up first looked, and its nickname; columns edited since; whether another edit of the user was saved meanwhile |
| `Register`, `CheckAgain`, `InsertUser`, `InsertChannel` | the controller's look, the service's, then its two saves |
| `Kakao` | the strategy: a known user is signed in, a new one goes on with the same two saves |
| `Login`, `Expire` | a token for one of the rows with the address (`findOne` does not say which); a day goes by |
| `EditUser`, `CompareUser`, `WriteUser` | `updateUserInfo` and its `save`; a nickname in use is an error it swallows |
| `InsertUserFails`, `InsertChannelFails`, `Crash` | a statement fails or its answer is lost; node stops and starts |

### `Channels`

| Model | Code |
|---|---|
| `channel`, `lives`, `object` | the channel's row; `lives` with the key each row copies; the image in S3 under the streamer's one name for it |
| `brought` | history: a request to `updateChannelImage` has brought the image's URL, whether or not the image is there |
| `shown` | the key on the settings page |
| `req` | requests under way, as in `Accounts`; `others` (history) are columns written by other requests since this one's find |
| `sure` | history: no request for a key is under way, and none has overlapped another or been reverted by a save |
| `Upload`, `UpdateInfo` | the settings form: S3 first, then the row; no image chosen, a refusal or a lost answer sends no URL |
| `UpdateImage`, `ChangeKey`, `ResetKey`, `Create` | the finds of the other four requests that save the row; `UpdateImage` takes any URL of the body |
| `Compare`, `Write`, `SaveFails` | `save` (the comparison is TypeORM's own); errors are swallowed, and the page is sent nothing |
| `ShowKey`, `Reload` | the answer of `changeStreamKey` on the page, in the order of the answers; a reload drops those still due |
| `End`, `Remove` | what else becomes of rows of `lives` |

### `HomePage`

| Model | Code |
|---|---|
| `ready` | `ChatService` has its server: `main.ts` hands it over after `listen` |
| `live`, `streamer`, `viewers` | channels with a live row; who is in each room |
| `home` | the request: what `findAll` listed, the room it has asked the database about, the rooms passed, the numbers |
| `emptied` | the `Set` in the hand of the walk is no longer the room's: socket.io makes a new one |
| `seen` | history: what was true at some moment of the request |
| `StrangeQuery` | `main` throws at once for a query string without `s` |
| `Open`, `FindLive`, `AskRoom`, `CountRoom`, `Serve` | `main` and `roomUserCtn`, query by query |
| `TooEarly`, `Fail` | without a server, or when one of the first two queries fails, the page is an error; after a failed look-up the room is passed over |

The Map's order is left open and other steps may come between an answer and the next
room, which the code does not allow; the properties hold even so.

## 3. Runs

| Run | Shows | Bounds |
|---|---|---|
| `chat_races` | types, no hole in the history, copies only in the hands of a flush, bounded duplicates, nothing removed unsaved but behind a whole move | 3 handlers, 3 messages, `FlushAt` 2, `MinBatch` 1, no faults |
| `chat_faults` | saved in order, bounded duplicates, removal, and the refinement of `ChatTranscript`, under a fault | 2 handlers, 4 messages of which 1 may be empty, `FlushAt` 4, `MinBatch` 2, 1 fault |
| `chat_drains` | a full stream drains, an ended room is emptied, unless an empty message blocks it | 2 handlers, 3 messages of which 1 may be empty, `FlushAt` 2, `MinBatch` 1, fair |
| `session_ends` | an end under way reaches the only live row; what may leave a broadcast without anybody to end it | 1 channel, 2 handlers, 2 rows, 1 crash, fair |
| `session_viewers` | types; viewers in the room are sent home | 1 viewer, 2 handlers, 1 row, 1 crash, fair |
| `session_minute` | *violation:* a room in use has lost its interval timer | 2 channels, 2 handlers |
| `session_off` | *violation:* the page is gone and the broadcast stays live | 1 channel, 2 handlers, fair |
| `room` | types, no missed message, order, at most twice, bounded repeats | 2 handlers, 2 viewers, 4 messages, `Shown` 2, `Recent` 5 |
| `room_block` | *violation:* of two concurrent blocks one is lost | 2 users, 2 handlers |
| `accounts` | types; the welcomed have a channel; who is left without one; one user per account and per form; edits write what was typed | 2 browsers, 2 addresses, 1 Kakao id, 2 nicknames, 2 users, 2 edits, 1 fault |
| `channels` | types; the page's key; saves write their own columns; a broadcast starts with its channel's key; the form saves no URL without its image | 3 requests at once, 3 in all, 2 names, 1 fault |
| `home` | types; when the home page fails; numbers between the least and the most viewers; no room missed | 2 channels, 2 viewers in a room, 3 moves during a request |

**Why the bounds are enough.** What matters of 200 and 100 is that a full stream's half is a
batch that is not given up (`2 * MinBatch <= FlushAt`) and that shorter ones are:
the instances keep this relation. Three handlers give two overlapping flushes
and a sender between them; faults are few because one fault already separates `insertMany` from
the deletion, and a crash is one fault. Two rows are the broadcast that ends and the next
one; one viewer is enough, since viewers do not touch one another. In `room`,
`Shown` 2 with 4 messages makes the history cut its beginning; `MaxSent` 4 with two handlers lets
the racing senders pass the filter at its limit of two. `MaxTimers` bounds timers alive: 2 suffices for a
lost handle. In `accounts` two users are enough for an account that has two, and two browsers for every
overlap of two requests; a third request meets rows that a first and second have left. In
`channels` three requests are a save, one that overtakes it, and one that overtakes
either; with two at a time and four in all the properties hold as well. In `home` a room
that is passed, empties and is made again takes three moves, and with two
channels the walk may be at one room while the other comes or goes. `MaxMoves` counts moves
during a request only: before it any state of rows and rooms is reached. Every symmetry is among
values that are only compared: users, nicknames, addresses, slots, channels. In `room` the handlers and viewers are symmetric, in the `chat_*` safety
runs the handlers are; the runs with liveness use no symmetry.

**Deadlock** is checked everywhere: the streamer, a timer, a browser or a reload can always
do something.

**Fairness.** `WF(Continue(t))`: a handler whose command has been answered goes on - the
event loop runs it. The interval timer fires every minute, and an event that has
arrived is handled or refused; these two get strong fairness because a busy slot
is a bound of the model and not of the program, which starts any number of
handlers. Nothing is assumed of streamers, viewers or browsers, and liveness is checked after the
last crash only (`NoMoreCrashes`) or without faults. `Accounts`, `Channels` and `HomePage`
state no liveness: a request ends when its queries are answered, and nothing retries what failed.

### What the violations mean

- `EveryMinute` (`chat.service.ts:48`). The streamer's connection breaks, the page reconnects and makes
  its room again, then the disconnect of the earlier socket is handled and clears the new timer.
- `EndsWithoutStreamer` (`chat.disconnect.ts:44`). The token of the page expired during the
  broadcast: `verify` throws and the row stays live.
- `BannedStayOut` (`chat.gateway.ts:148`). Two `block_user` read the same list; the second write wins.

### What the properties have to except

Some properties name the cases in which the code keeps nothing; these are the
behaviours behind the exceptions, each reachable in the model.

- Cache (`SavedBeforeRemoved`): half of a stream of 0 or 1 messages is 0 (`chat.service.ts:118`), which selects the
  whole-stream branch; its `DEL` also removes what was added meanwhile.
  (`Drains`, `EndingDrains`): only the page trims what it sends, the gateway stores an empty message, and
  `insertMany` refuses every batch that holds it (`chat.schema.ts:20`); the error is swallowed
  (`chat.service.ts:109`), nothing is deleted, and the stream is not archived any more until something outside the code removes the key.
- Session (`EndReachesLive`): an ender pauses between its find and its update (`live.service.ts:36`), the
  streamer starts again, the update of the old row succeeds and `bye` goes to the new
  room. After a reload the start button makes a second live row, and an end ends one of the two.
  (`LeftBehindForAReason`): a page closed right after the start button is gone, with its disconnect
  handled, before its POST is carried out: the row is live and nobody is left to end it.
- Room: ids are matched as substrings of the list (`chat.gateway.ts:101`), so that blocking 12 keeps 1 and 2 out.
- Accounts (`StrandedByFault`): after a failure between the two saves the user has no channel; registering
  again is refused with 409, and a Kakao user is signed in to pages that fail. (`OneUserPerAccount`):
  two sign-ups that overlap make two users of one address unless the nickname stops the
  second; a sign-up without a nickname is not stopped. An address may be edited to
  another user's, and then `findOne` picks either at login. A new Kakao user whose nickname is taken gets 503.
- Channels (`KeyShown`, `OnlyAsked`, `StartsWithKey`): a form saved, or a broadcast started, while
  the key is replaced writes the old key back; the page goes on to show the new one. Of two
  presses of the button the page shows the answer that comes last, the row has the write that came
  last. A broadcast starts with an empty key after a reset. (`ImageStored`): `updateChannelImage` saves whatever
  URL the body of `PUT /api/channel/update/:id` holds; no page sends that request, and once one has come
  the row may point anywhere.
- Home page (`RefusedOnly`, `CountWithinRoom`): a query string that is not empty and has no `s` is an
  error (`app.controller.ts:31`); when the last broadcast ends between
  the two reads, `roomUserCtn` returns nothing and the page is a TypeError. A number is one too low while the
  streamer's socket is not in the room, and -1 for a room that empties under the look-up.

## 4. Proofs

Every invariant and every action property of the passing runs is also a theorem, for
every set of channels, users, browsers, pages and handlers and every value of the bounds. The only
hypotheses are the assumptions that the models state about their constants: the sets are finite
where they are counted, the bounds are natural, `0 < MinBatch` and `2 * MinBatch <= FlushAt`
(100 and 200 in the code).

| Module | Theorem | Property |
|---|---|---|
| `ChatCache_proofs` | `TypeCorrect` | `TypeOK` |
| | `HistoryUnbroken`, `TranscriptInOrder`, `RemovalIsSafe` | `NoGaps`, `SavedInOrder`, `SavedBeforeRemoved`, from `StoreInvariant` |
| | `Refinement` | `ImplementsTranscript` |
| | `CopiesInHand`, `CopiesAreBounded` | `NoStaleCopy`, `CopiesBounded` |
| `LiveSession_proofs` | `SessionTypeCorrect`, `LeftForAReason` | `TypeOK`, `LeftBehindForAReason` |
| `ChatRoom_proofs` | `RoomTypeCorrect`, `NoneMissed`, `LiveLinesInOrder`, `ShownAtMostTwice` | `TypeOK`, `NoMissedMessage`, `LiveInOrder`, `AtMostTwice`, from `RoomInvariant` |
| | `RepeatsAreBounded` | `RepeatsBounded` |
| `Accounts_proofs` | `TypeCorrect`, `OneUser`, `SameForm`, `EditsOnlyTyped` | `TypeOK`, `OneUserPerAccount`, `SameFormOnce`, `OnlyTyped`, from `AccountsInvariant` |
| | `ToldChannel`, `Stranded` | `ToldMeansChannel`, `StrandedByFault`, from `ChannelsInvariant` |
| `Channels_proofs` | `ChannelsTypeCorrect`, `PageShowsKey`, `WritesOnlyAsked`, `ImageThere`, `BroadcastKey` | `TypeOK`, `KeyShown`, `OnlyAsked`, `ImageStored`, `StartsWithKey`, from `ChannelsInvariant` |
| `HomePage_proofs` | `HomeTypeCorrect`, `RefusedForAReason`, `NumbersWithinRoom`, `NoRoomPassedOver` | `TypeOK`, `RefusedOnly`, `CountWithinRoom`, `EveryRoomCounted`, from `HomeInvariant` |

**The stores** (`StoreInv`). `NoGaps` is not inductive: a deletion keeps the history unbroken only if
what it deletes is a prefix of what is cached *now*, though it was read earlier and
other flushes have deleted since. `BatchIsPrefix` says just that: nothing older than
a message of a batch in flight is cached outside the batch. It survives because messages are
added at the young end only and deletions only take away. `BatchSaved` says a batch
about to be deleted is in MongoDB; with it a partial deletion removes saved messages
only (`RemovalIsSafe`, and `Trim` of the refinement), and `SavedInOrder` survives both a
complete and a broken `insertMany`, since what is saved is a prefix of a prefix.
`StoreInv` is the conjunction with the type invariant. `StepCases` reduces `Next` to
what a step does to the stores and batches (keep, accept, read, save, delete), so that
each conjunct is proved over a handful of cases and not over nineteen actions. `CopiesInHand` adds the
case of no faults: what is cached and saved is held by a flush that is about to delete it.

**The copies** (`CopiesCounted`). A bound on copies says nothing of copies still to come, so the
invariant counts handlers. While a message is cached, each of its copies has a
handler that is about to delete it, but for those that faults have made forget it. Once it has left the cache
nobody reads it any more: the copies it has and the handlers about to insert it are together at most
the handlers there are, plus the forgotten ones. A fault may cost every handler at once (a crash),
which is where the bound takes its `Tasks * faults`.

**The room** (`RoomInv`). All three properties of a page depend on the connection's queue.
`QueueOK`: the handlers at work are the queue, each once. `PendingInOrder`: the messages stored and
not yet emitted are the newest ones and wait in the order of their ids; hence the one emitted next is newer
than every line that is live anywhere. `LinesOK` says of a page that each kind of line is in order, that
live lines have been emitted, and that no emitted message after its first is missing. The history
keeps the last part, since it is a run of the newest messages up to the last one stored. `PagesOK` says
that a page whose history is due has one handler for it and live lines only: without it a second history
could follow the first.

**The flood filter** (`WindowsBounded`, `PassedBounded`). The filter reads, and the message is
stored one reply later, so that racing senders pass it together. What bounds them is the queue: a
handler that has passed waits for `xAdd` at some place `i`, only the `i - 1` before it can store
anything first, and `PassedBounded` keeps what it has seen plus `i` below the bound. `WindowsBounded`
says it of every window of the cache, also after flushes have moved the positions.

**The broadcast.** The type invariant of `LiveSession` is inductive because it says that a
`create_room` still to be handled belongs to an open page: that is what keeps a socket in the
room from outliving its page. The proof splits it into `RowsOK`, `PagesOK` and `TimersOK`;
a step disturbs few of them, and only `PagesOK` needs another part (`bye` goes to the room of
the channel a handler runs for). `LeftForAReason` is the safety half of an end that reaches its row: one
lemma per action shows that it leaves the disconnect, the lookup or the found row of the
ender in place, or is one of the four exceptions. The insert needs `RowsOK` (a new row is none of the live
ones), the ender the case of two rows.

**Accounts** (`AccountsInv`). `RoomKept` is the room that sign-ups under way have been promised,
without which the types are not inductive. `SigningSound`: no row older than a sign-up's look has its account,
unless that row has given up its address; this becomes `OneUserPerAccount` when the row is inserted.
`RowsSound` ties the nickname of a row that was never edited to the form it came from, so that the unique
nickname stops the second row of one form. `EditSound`: the entity of an edit that no other one overtook
differs from the row in what was typed only.

**Channels** (`ChannelInv`). `EntitySound`: what a save holds agrees with the row except in its own columns
and in those that other requests have written since, which the history `others` collects.
`OnlyAsked` and `StartsWithKey` follow at the comparison. `KeyShown` needs that no request for a key is
under way while `sure` holds. `ForKey` counts every request for a key under way, the
one whose turn it is included, so that this also holds when a single request can run.
`ImageSound` follows the URL from the upload, or from `updateChannelImage`, to the row.

**The home page** (`HomeInv`). `SeenNow` keeps the present between what the history has seen;
`AtRoom` says that a room that emptied under the look-up had nobody for a moment, which
is why its -1 is within bounds; `PassedCounted` says that the rooms passed by have their numbers.

**Only model-checked.** Liveness (`Drains`, `EndingDrains`, `EndReachesLive`, `ViewersSentHome`):
out of reach of the prover, which has neither fairness nor ENABLED. The refuted statements of the
violation runs are TLC's by nature.

## 5. Not modelled, and assumptions

- One node process. With several, the fields and timers would be one set per process.
- `ChatRoom` has no failing commands (they are `ChatCache`'s) and takes the replies of its
  connection one at a time. Replies that arrive together are resolved in order, and handlers that wait for the same
  command go on in that order; only follow-up commands of handlers at different places
  could change places, and no property depends on those.
- Redis evicting keys (`redis.conf:6`, `allkeys-lru`), clocks and the width of stream ids. The
  one-second rule of the flood filter is a choice the model leaves open.
- Requests that change nothing: `my-page` and the other pages, refused logins, searches (`main.service.ts`). A
  request whose first find fails is answered with an error or nothing at all and leaves no trace.
- In `Accounts`: passwords (a login is right or wrong), roles and profile images. In `Channels`: the
  description, which the form sends next to the name and always with it.
- Notices are one insert (`channel-notice`); hearts and payments are not reachable: neither
  module is imported by `AppModule`, and nothing else mounts their controllers.
- Words the code contradicts and no property is needed for: the comment at `auth.service.ts:22` gives the token
  two weeks, the code a day (`Expire`, `Refuse`); the generated `test/app.e2e-spec.ts` expects `Hello World!` at `/`.
- `LiveService.update`, which writes a title; deleted rows, which no code makes but `remove`.
- A second streamer page of one channel, open in another tab: `LiveSession` has one page for each channel, whose
  earlier sockets may still be on their way out.
- The database's own failures in `LiveSession`: an ender whose query fails ends nothing.
- Texts of titles, messages and alerts; the video path; what section 1 marks "no".

## 6. Plan

The safety of every component is proved. What is left, in order:

1. `ChatRoom`: an abstract room (one log of emitted messages, a page that joins it at some point and
   then follows it) and the room shown to implement it; `NoMissedMessage` and `LiveInOrder` would be its corollaries.
2. `LiveSession`: the safety half of `ViewersSentHome`, as `LeftForAReason` is of `EndReachesLive`: what
   may keep a viewer in the room of a broadcast that has ended.
3. `Accounts` and `Channels`: the common part of their proofs, `save` as find, compare and write, as lemmas about `TypeOrm`.
