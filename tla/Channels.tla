------------------------------ MODULE Channels ------------------------------
(***************************************************************************)
(* One channel: its row, the stream key in it, the settings page of its    *)
(* streamer with the upload of an image, and the broadcasts, whose row     *)
(* copies the key.  user.service.ts from line 188 on, live.service.ts,     *)
(* the image controller and channelSetting.js.                             *)
(*                                                                         *)
(* Every handler finds the row, sets a column or two and saves the whole   *)
(* of it (TypeOrm); starting a broadcast saves it too, by the cascade of   *)
(* Live.channel.  An action is what a handler or the page does from one    *)
(* answer to the next.  The key 0 is the empty one; the others are random  *)
(* and never made twice.                                                   *)
(***************************************************************************)
EXTENDS Naturals, Sequences, FiniteSets, TypeOrm

CONSTANTS
  Names,       \* what the settings form holds as name and description
  Slots,       \* requests under way at once: bounds the model
  None,        \* a field that was not sent
  MaxRequests, \* requests that change the row: bounds the model
  MaxFaults    \* failed statements: bounds the model

ASSUME ChannelSets == None \notin Names \union {"default", "stored"} /\ Names # {}
ASSUME ChannelBounds == MaxRequests \in Nat /\ MaxFaults \in Nat

VARIABLES
  channel,  \* the row of channels
  lives,    \* the rows of lives of the channel, the newest last
  object,   \* whether the image is in S3, under its one URL
  brought,  \* whether a request has brought that URL from elsewhere: history
  shown,    \* the stream key on the settings page
  req,      \* per slot, its request
  started,  \* requests started so far, which also numbers the keys
  faults,   \* failed statements so far
  sure      \* whether the page ought to show the channel's key: history

row == <<channel, lives>>
page == <<shown, sure>>
images == <<object, brought>>
vars == <<channel, lives, object, brought, shown, req, started, faults, sure>>

Columns == {"name", "image", "key"}
Keys == 0 .. MaxRequests + 1
Rows == [name : Names, image : {"default", "stored"}, key : Keys]
LiveRows == [key : Keys, on : BOOLEAN]
LiveRow(key) == [key |-> key, on |-> TRUE]
Kinds == {"info", "image", "change", "reset", "create"}

\* Requests: a form whose upload is over; an entity to compare with the row,
\* then to write; the answer to the page that asked for a new key.  "others"
\* are the columns other requests have written meanwhile: history.
Idle == [pc |-> "idle"]
Uploaded(name, image) == [pc |-> "find", name |-> name, image |-> image]
Saving(kind, entity) ==
  [pc |-> "compare", kind |-> kind, entity |-> entity, others |-> {}, told |-> TRUE]
Writing(r, columns) ==
  [pc |-> "write", kind |-> r.kind, entity |-> r.entity, others |-> r.others,
   told |-> r.told, columns |-> columns]
Telling(r, key) == [pc |-> "answer", key |-> key, others |-> r.others, told |-> r.told]

Init ==
  /\ \E name \in Names : channel = [name |-> name, image |-> "default", key |-> 1]
  /\ lives = <<>>
  /\ object = FALSE
  /\ brought = FALSE
  /\ shown = 1
  /\ req = [t \in Slots |-> Idle]
  /\ started = 0
  /\ faults = 0
  /\ sure = TRUE

-----------------------------------------------------------------------------
(* Helpers. *)

Goes(t, r) == req' = [req EXCEPT ![t] = r]
Begins(t, r) ==
  /\ req[t] = Idle /\ started < MaxRequests
  /\ started' = started + 1
  /\ Goes(t, r)

\* The requests for another key that are under way.
ForKey ==
  {o \in Slots :
     \/ req[o].pc = "answer"
     \/ req[o].pc \in {"compare", "write"} /\ req[o].kind \in {"change", "reset"}}

\* The key of the request that starts now: crypto.randomBytes.
FreshKey == started + 2

\* "x ? x : channel.x" (mutant: "x").
Sent(new, old) == new
OrElse(new, old) == IF new = None THEN old ELSE new

-----------------------------------------------------------------------------
(* The requests up to the row they find. *)

\* What the upload answers: the URL, or none when no file was chosen, S3
\* refused it, or its answer was lost.  (mutant: the URL in any case.)
UrlHoped(answered) == "stored"
Url(answered) == IF answered THEN "stored" ELSE None

\* PutObjectCommand, under a name made of the user's and the channel's id.
PutObject(answered) ==
  \E done \in BOOLEAN :
    /\ answered => done
    /\ object' = (object \/ done)

\* The settings form, with the name filled in, first uploads the image.
Upload(t) ==
  \E name \in Names, answered \in BOOLEAN :
    /\ Begins(t, Uploaded(name, Url(answered)))
    /\ PutObject(answered)
    /\ UNCHANGED <<row, page, brought, faults>>

\* Then PUT /api/channel/info/:id: updateChannelInfo finds the row.
UpdateInfo(t) ==
  LET r == req[t] IN
  /\ r.pc = "find"
  /\ Goes(t, Saving("info", [channel EXCEPT !.name = OrElse(r.name, @),
                                            !.image = OrElse(r.image, @)]))
  /\ UNCHANGED <<row, images, page, started, faults>>

\* PUT /api/channel/update/:id: with "reset" the URL of the body, whatever it
\* is, else a constant.  No page of the site sends it, and nothing is checked.
ImagesSent == {"default", "stored"}

UpdateImage(t) ==
  \E image \in ImagesSent :
    /\ Begins(t, Saving("image", [channel EXCEPT !.image = image]))
    /\ brought' = (brought \/ image = "stored")
    /\ UNCHANGED <<row, object, page, faults>>

\* PUT /api/channel/change-key/:id, from the button of the settings page.
ChangeKey(t) ==
  /\ Begins(t, Saving("change", [channel EXCEPT !.key = FreshKey]))
  /\ sure' = FALSE
  /\ UNCHANGED <<row, images, shown, faults>>

\* PUT /api/channel/stream/:id, from any user whom RolesGuard does not find
\* blocked, whoever's the channel is.
ResetKey(t) ==
  /\ Begins(t, Saving("reset", [channel EXCEPT !.key = 0]))
  /\ sure' = FALSE
  /\ UNCHANGED <<row, images, shown, faults>>

\* POST /api/live/create/:channelId.
Create(t) ==
  /\ Begins(t, Saving("create", channel))
  /\ UNCHANGED <<row, images, page, faults>>

-----------------------------------------------------------------------------
(* save, and the answer. *)

\* What the handler does once save is over: the page gets what save returned,
\* with the new key; the other answers change nothing.  (mutant: the page gets
\* the key that was made, saved or not.)
AfterHoping(t, key) ==
  IF req[t].kind = "change" THEN Telling(req[t], req[t].entity.key) ELSE Idle
After(t, key) ==
  IF req[t].kind = "change" THEN Telling(req[t], key) ELSE Idle

\* save reads the row and compares.  A create writes in any case.  (mutant:
\* update, which writes the whole entity.)
CompareNothing(t) ==
  /\ req[t].pc = "compare"
  /\ Goes(t, Writing(req[t], Columns))
  /\ UNCHANGED <<row, images, page, started, faults>>
Compare(t) ==
  LET columns == Differing(req[t].entity, channel) IN
  /\ req[t].pc = "compare"
  /\ Goes(t, IF columns = {} /\ req[t].kind # "create"
             THEN After(t, req[t].entity.key) ELSE Writing(req[t], columns))
  /\ UNCHANGED <<row, images, page, started, faults>>

\* The other requests, which have not seen these columns.
Overtaken(columns) ==
  [o \in Slots |-> IF req[o].pc \in {"compare", "write", "answer"}
                   THEN [req[o] EXCEPT !.others = @ \union columns] ELSE req[o]]

\* The tables after the write: one transaction inserts the row of a broadcast,
\* with the paths of its key, and updates the channel's.  (mutant: with the
\* paths sent by the page, parameters which the service overwrites.)
StoredAsSent(r) ==
  /\ channel' = Updated(channel, r.entity, r.columns)
  /\ lives' = IF r.kind = "create" THEN Append(lives, LiveRow(shown)) ELSE lives
Stored(r) ==
  /\ channel' = Updated(channel, r.entity, r.columns)
  /\ lives' = IF r.kind = "create" THEN Append(lives, LiveRow(r.entity.key)) ELSE lives

\* A request that writes the key as it was before another one is no surprise
\* to this model: see KeyShown.
StillSure(r) == sure /\ ~("key" \in r.columns /\ "key" \in r.others)

Write(t) ==
  /\ req[t].pc = "write"
  /\ Stored(req[t])
  /\ sure' = StillSure(req[t])
  /\ req' = [Overtaken(req[t].columns) EXCEPT ![t] = After(t, req[t].entity.key)]
  /\ UNCHANGED <<images, shown, started, faults>>

\* A statement of save fails, or the answer to the write is lost.  The error is
\* swallowed, and the page is sent an entity without a key.
SaveFails(t) ==
  /\ req[t].pc \in {"compare", "write"} /\ faults < MaxFaults
  /\ faults' = faults + 1
  /\ \/ UNCHANGED <<row, sure>> /\ Goes(t, After(t, 0))
     \/ /\ req[t].pc = "write"
        /\ Stored(req[t])
        /\ sure' = StillSure(req[t])
        /\ req' = [Overtaken(req[t].columns) EXCEPT ![t] = After(t, 0)]
  /\ UNCHANGED <<images, shown, started>>

\* The page shows the key it is sent.  It ought to be the channel's if nothing
\* else wrote the key since the request found the row, and nothing else will.
ShowKey(t) ==
  /\ req[t].pc = "answer"
  /\ IF req[t].told
     THEN /\ shown' = req[t].key
          /\ sure' = (req[t].key # 0 /\ "key" \notin req[t].others /\ ForKey = {t})
     ELSE UNCHANGED page
  /\ Goes(t, Idle)
  /\ UNCHANGED <<row, images, started, faults>>

\* The settings page, drawn from the row.
MyPage == shown' = channel.key

\* It is loaded again: answers still due are not shown.
Reload ==
  /\ MyPage
  /\ sure' = (ForKey = {})
  /\ req' = [t \in Slots |-> IF req[t].pc \in {"compare", "write", "answer"}
                             THEN [req[t] EXCEPT !.told = FALSE] ELSE req[t]]
  /\ UNCHANGED <<row, images, started, faults>>

-----------------------------------------------------------------------------
(* The other operations on the rows of lives. *)

\* LiveService.end sets the status of a live row.
End ==
  /\ \E i \in DOMAIN lives : lives[i].on /\ lives' = [lives EXCEPT ![i].on = FALSE]
  /\ UNCHANGED <<channel, images, page, req, started, faults>>

\* DELETE /api/live/:liveId.
Remove ==
  /\ \E i \in DOMAIN lives :
       lives' = SubSeq(lives, 1, i - 1) \o SubSeq(lives, i + 1, Len(lives))
  /\ UNCHANGED <<channel, images, page, req, started, faults>>

Next ==
  \/ \E t \in Slots :
       \/ Upload(t) \/ UpdateInfo(t) \/ UpdateImage(t)
       \/ ChangeKey(t) \/ ResetKey(t) \/ Create(t)
       \/ Compare(t) \/ Write(t) \/ SaveFails(t) \/ ShowKey(t)
  \/ Reload \/ End \/ Remove

Spec == Init /\ [][Next]_vars

-----------------------------------------------------------------------------
(* What holds. *)

Requests ==
  {Idle}
  \union [pc : {"find"}, name : Names, image : {"stored", None}]
  \union [pc : {"compare"}, kind : Kinds, entity : Rows, others : SUBSET Columns,
          told : BOOLEAN]
  \union [pc : {"write"}, kind : Kinds, entity : Rows, others : SUBSET Columns, told : BOOLEAN,
          columns : SUBSET Columns]
  \union [pc : {"answer"}, key : Keys, others : SUBSET Columns, told : BOOLEAN]

\* The rows, the page and every request have their types; a name or an image
\* is never replaced by a field that was not sent.
TypeOK ==
  /\ channel \in Rows
  /\ lives \in Seq(LiveRows)
  /\ object \in BOOLEAN /\ brought \in BOOLEAN
  /\ shown \in Keys
  /\ req \in [Slots -> Requests]
  /\ started \in 0 .. MaxRequests /\ faults \in 0 .. MaxFaults
  /\ sure \in BOOLEAN

\* The settings page shows the channel's stream key, the one to be typed into
\* the encoder, once its last request for a key is answered: unless two of them
\* overlapped, or some other save, which had found the row before the key was
\* replaced, wrote the old key back.
KeyShown == sure => shown = channel.key

\* The columns a request is about.
Asked(kind) ==
  CASE kind = "info" -> {"name", "image"} [] kind = "image" -> {"image"}
    [] kind \in {"change", "reset"} -> {"key"} [] kind = "create" -> {}

\* A save writes only columns its request is about, or columns that another
\* request has written since this one found the row.
OnlyAsked ==
  \A t \in Slots :
    req[t].pc = "write" => req[t].columns \subseteq Asked(req[t].kind) \union req[t].others

\* A broadcast starts with the key its channel has at that moment, which the
\* viewers will play, unless the key was replaced while the request ran: then
\* streamer and viewers may look at different streams.
StartsWithKey ==
  [][Len(lives') > Len(lives) =>
       \/ lives'[Len(lives')].key = channel'.key
       \/ \E t \in Slots : req[t].pc = "write" /\ "key" \in req[t].others]_vars

\* The row points to the image in S3 only if the image is there, unless a request
\* to updateChannelImage brought the URL.  Of the settings form either half may
\* fail, be repeated or be overtaken, and still no URL without an image is saved.
ImageStored == channel.image = "stored" => object \/ brought

=============================================================================
