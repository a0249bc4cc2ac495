-------------------------- MODULE Channels_proofs --------------------------
(***************************************************************************)
(* Proofs about Channels, for every set of names and request slots and     *)
(* every value of the bounds.                                              *)
(***************************************************************************)
EXTENDS Channels, SequenceTheorems, TLAPS

USE ChannelSets, ChannelBounds

-----------------------------------------------------------------------------
(* Rows and requests. *)

LEMMA RequestForms ==
  ASSUME NEW r \in Requests
  PROVE  /\ r.pc \in {"idle", "find", "compare", "write", "answer"}
         /\ r.pc = "idle" => r = Idle
         /\ r.pc = "find" => r.name \in Names /\ r.image \in {"stored", None}
         /\ r.pc \in {"compare", "write"} => r.kind \in Kinds /\ r.entity \in Rows
         /\ r.pc \in {"compare", "write", "answer"} =>
              r.others \in SUBSET Columns /\ r.told \in BOOLEAN
         /\ r.pc = "write" => r.columns \in SUBSET Columns
         /\ r.pc = "answer" => r.key \in Keys
BY DEF Requests, Idle

LEMMA IdleForm == Idle \in Requests /\ Idle.pc = "idle"
BY DEF Requests, Idle

LEMMA UploadedForm ==
  ASSUME NEW name \in Names, NEW image \in {"stored", None}
  PROVE  /\ Uploaded(name, image) \in Requests
         /\ Uploaded(name, image).pc = "find" /\ Uploaded(name, image).image = image
BY DEF Requests, Uploaded

LEMMA SavingForm ==
  ASSUME NEW kind \in Kinds, NEW entity \in Rows
  PROVE  /\ Saving(kind, entity) \in Requests
         /\ Saving(kind, entity).pc = "compare"
         /\ Saving(kind, entity).kind = kind
         /\ Saving(kind, entity).entity = entity
         /\ Saving(kind, entity).others = {}
BY DEF Requests, Saving

LEMMA WritingForm ==
  ASSUME NEW r \in Requests, r.pc = "compare", NEW columns \in SUBSET Columns
  PROVE  /\ Writing(r, columns) \in Requests
         /\ Writing(r, columns).pc = "write"
         /\ Writing(r, columns).kind = r.kind
         /\ Writing(r, columns).entity = r.entity
         /\ Writing(r, columns).others = r.others
         /\ Writing(r, columns).columns = columns
BY RequestForms DEF Requests, Writing

LEMMA TellingForm ==
  ASSUME NEW r \in Requests, r.pc \in {"compare", "write"}, NEW key \in Keys
  PROVE  /\ Telling(r, key) \in Requests
         /\ Telling(r, key).pc = "answer"
         /\ Telling(r, key).key = key
         /\ Telling(r, key).others = r.others
BY RequestForms DEF Requests, Telling

\* The request with the columns of another one, or without its page.
LEMMA OvertakenForm ==
  ASSUME NEW r \in Requests, r.pc \in {"compare", "write", "answer"}, NEW columns \in SUBSET Columns,
         NEW told \in BOOLEAN
  PROVE  /\ [r EXCEPT !.others = r.others \union columns] \in Requests
         /\ [r EXCEPT !.told = told] \in Requests
<1>1. CASE r.pc = "compare"
  <2> DEFINE S == [pc : {"compare"}, kind : Kinds, entity : Rows, others : SUBSET Columns, told : BOOLEAN]
  <2>1. r \in S
    BY <1>1 DEF Requests, Idle
  <2>2. [r EXCEPT !.others = r.others \union columns] \in S /\ [r EXCEPT !.told = told] \in S
    BY <2>1
  <2> QED
    BY <2>2 DEF Requests
<1>2. CASE r.pc = "write"
  <2> DEFINE S == [pc : {"write"}, kind : Kinds, entity : Rows, others : SUBSET Columns, told : BOOLEAN,
                   columns : SUBSET Columns]
  <2>1. r \in S
    BY <1>2 DEF Requests, Idle
  <2>2. [r EXCEPT !.others = r.others \union columns] \in S /\ [r EXCEPT !.told = told] \in S
    BY <2>1
  <2> QED
    BY <2>2 DEF Requests
<1>3. CASE r.pc = "answer"
  <2> DEFINE S == [pc : {"answer"}, key : Keys, others : SUBSET Columns, told : BOOLEAN]
  <2>1. r \in S
    BY <1>3 DEF Requests, Idle
  <2>2. [r EXCEPT !.others = r.others \union columns] \in S /\ [r EXCEPT !.told = told] \in S
    BY <2>1
  <2> QED
    BY <2>2 DEF Requests
<1> QED
  BY <1>1, <1>2, <1>3

\* A row is a function of the columns.
LEMMA RowFunction ==
  ASSUME NEW row_ \in Rows
  PROVE  /\ DOMAIN row_ = Columns
         /\ row_["name"] = row_.name /\ row_["image"] = row_.image /\ row_["key"] = row_.key
BY DEF Rows, Columns

LEMMA UpdatedRow ==
  ASSUME NEW stored \in Rows, NEW entity \in Rows, NEW columns \in SUBSET Columns
  PROVE  /\ Updated(stored, entity, columns) \in Rows
         /\ \A c \in Columns :
              Updated(stored, entity, columns)[c] = IF c \in columns THEN entity[c] ELSE stored[c]
<1> DEFINE u == Updated(stored, entity, columns)
<1>1. u = [c \in Columns |-> IF c \in columns THEN entity[c] ELSE stored[c]]
  BY RowFunction DEF Updated
<1>2. u = [name |-> u["name"], image |-> u["image"], key |-> u["key"]]
  BY <1>1 DEF Columns
<1>3. u["name"] \in Names /\ u["image"] \in {"default", "stored"} /\ u["key"] \in Keys
  BY <1>1 DEF Rows, Columns
<1> QED
  BY <1>1, <1>2, <1>3 DEF Rows

-----------------------------------------------------------------------------
(* The inductive invariant: what a request holds in its hands agrees with  *)
(* the row, but for the columns other requests have written meanwhile.     *)

\* What the entity says of the columns the request is not about.
EntitySound(r) ==
  /\ r.pc = "compare" =>
       \A c \in Columns \ (Asked(r.kind) \union r.others) : r.entity[c] = channel[c]
  /\ r.pc = "write" =>
       /\ r.columns \subseteq Asked(r.kind) \union r.others
       /\ "key" \notin r.columns \union r.others => r.entity.key = channel.key

\* The key an answer brings to the page.
AnswerSound(r) ==
  r.pc = "answer" /\ "key" \notin r.others /\ r.key # 0 => r.key = channel.key

\* The URL of the image is known: the image is there, or a request said it.
Known == object \/ brought

\* A request brings that URL to the row only then: the settings form has it from
\* its upload.
ImageSound(r) ==
  /\ r.pc = "find" /\ r.image = "stored" => Known
  /\ r.pc \in {"compare", "write"} /\ r.entity.image = "stored" => Known

Sound(r) == EntitySound(r) /\ AnswerSound(r) /\ ImageSound(r)

ChannelInv ==
  /\ TypeOK
  /\ \A t \in Slots : Sound(req[t])
  /\ sure => ForKey = {}
  /\ KeyShown
  /\ ImageStored


\* A request for another key.
KeyRequest(r) ==
  \/ r.pc = "answer"
  \/ r.pc \in {"compare", "write"} /\ r.kind \in {"change", "reset"}

LEMMA InvInit == Init => ChannelInv
<1> SUFFICES ASSUME Init PROVE ChannelInv
  OBVIOUS
<1>1. TypeOK
  <2>1. 1 \in Keys
    BY DEF Keys
  <2>2. channel \in Rows
    BY <2>1 DEF Init, Rows
  <2>3. req \in [Slots -> Requests]
    BY IdleForm DEF Init
  <2>4. object \in BOOLEAN /\ brought \in BOOLEAN /\ sure \in BOOLEAN
    BY Zenon DEF Init
  <2>5. /\ lives \in Seq(LiveRows) /\ shown \in Keys
        /\ started \in 0 .. MaxRequests /\ faults \in 0 .. MaxFaults
    BY <2>1, EmptySeq DEF Init
  <2> QED
    BY <2>2, <2>3, <2>4, <2>5 DEF TypeOK
<1>2. \A t \in Slots : Sound(req[t])
  BY IdleForm DEF Init, Sound, EntitySound, AnswerSound, ImageSound
<1>3. ForKey = {} /\ KeyShown /\ ImageStored
  BY IdleForm DEF Init, ForKey, KeyShown, ImageStored
<1> QED
  BY <1>1, <1>2, <1>3 DEF ChannelInv

\* What the invariant says to the request whose turn it is.
LEMMA AtTurn ==
  ASSUME ChannelInv, NEW t \in Slots
  PROVE  /\ req[t] \in Requests /\ req \in [Slots -> Requests] /\ Sound(req[t])
         /\ channel \in Rows /\ lives \in Seq(LiveRows)
         /\ object \in BOOLEAN /\ brought \in BOOLEAN /\ shown \in Keys /\ sure \in BOOLEAN
         /\ started \in 0 .. MaxRequests /\ faults \in 0 .. MaxFaults
         /\ channel.image = "stored" => Known
         /\ sure => shown = channel.key /\ ForKey = {}
BY DEF ChannelInv, TypeOK, ImageStored, KeyShown, Known

\* The steps of one request that leave the tables alone.
LEMMA Turn ==
  ASSUME ChannelInv, NEW t \in Slots, NEW r \in Requests, Goes(t, r),
         UNCHANGED row, object' \in BOOLEAN, brought' \in BOOLEAN, Known => Known',
         shown' \in Keys, sure' \in BOOLEAN, started' \in 0 .. MaxRequests, faults' \in 0 .. MaxFaults,
         EntitySound(r), AnswerSound(r),
         r.pc = "find" /\ r.image = "stored" => Known',
         r.pc \in {"compare", "write"} /\ r.entity.image = "stored" => Known',
         sure' => /\ \A o \in Slots \ {t} : ~KeyRequest(req[o])
                  /\ ~KeyRequest(r)
                  /\ shown' = channel.key
  PROVE  ChannelInv'
<1>1. /\ req' = [req EXCEPT ![t] = r] /\ channel' = channel /\ lives' = lives
      /\ req' \in [Slots -> Requests] /\ req'[t] = r /\ \A o \in Slots \ {t} : req'[o] = req[o]
  BY AtTurn DEF Goes, row
<1>2. TypeOK'
  BY <1>1, AtTurn DEF TypeOK, Requests
<1>3. \A o \in Slots : Sound(req[o])'
  <2>1. SUFFICES ASSUME NEW o \in Slots PROVE Sound(req[o])'
    OBVIOUS
  <2>2. CASE o = t
    BY <1>1, <2>2 DEF Sound, EntitySound, AnswerSound, ImageSound
  <2>3. CASE o # t
    <3>1. req'[o] = req[o] /\ Sound(req[o])
      BY <1>1, <2>3, AtTurn
    <3> QED
      BY <1>1, <3>1 DEF Sound, EntitySound, AnswerSound, ImageSound
  <2> QED
    BY <2>2, <2>3
<1>4. sure' => ForKey' = {}
  BY <1>1 DEF ForKey, KeyRequest
<1>5. KeyShown' /\ ImageStored'
  BY <1>1, AtTurn DEF KeyShown, ImageStored, Known
<1> QED
  BY <1>2, <1>3, <1>4, <1>5 DEF ChannelInv

\* ... and the page as well.
LEMMA TurnUnseen ==
  ASSUME ChannelInv, NEW t \in Slots, NEW r \in Requests, Goes(t, r),
         UNCHANGED <<row, page>>, object' \in BOOLEAN, brought' \in BOOLEAN, Known => Known',
         started' \in 0 .. MaxRequests, faults' \in 0 .. MaxFaults,
         EntitySound(r), AnswerSound(r),
         r.pc = "find" /\ r.image = "stored" => Known',
         r.pc \in {"compare", "write"} /\ r.entity.image = "stored" => Known',
         KeyRequest(r) => KeyRequest(req[t])
  PROVE  ChannelInv'
<1>1. shown' = shown /\ sure' = sure
  BY DEF page
<1>2. sure => (\A o \in Slots : ~KeyRequest(req[o])) /\ shown = channel.key
  BY AtTurn DEF ForKey, KeyRequest
<1> QED
  BY <1>1, <1>2, AtTurn, Turn

\* A request that starts, with what it found in the row.
LEMMA FoundSound ==
  ASSUME ChannelInv, NEW t \in Slots, NEW kind \in Kinds, NEW entity \in Rows,
         \A c \in Columns \ Asked(kind) : entity[c] = channel[c]
  PROVE  EntitySound(Saving(kind, entity)) /\ AnswerSound(Saving(kind, entity))
BY SavingForm DEF EntitySound, AnswerSound

\* The answer of save, or the end of the request.
LEMMA AfterForm ==
  ASSUME ChannelInv, NEW t \in Slots, req[t].pc \in {"compare", "write"}, NEW key \in Keys
  PROVE  /\ After(t, key) \in Requests
         /\ \/ After(t, key).pc = "idle"
            \/ /\ After(t, key).pc = "answer" /\ After(t, key).key = key
               /\ After(t, key).others = req[t].others /\ req[t].kind = "change"
BY AtTurn, IdleForm, TellingForm DEF After

-----------------------------------------------------------------------------
(* Step by step. *)

LEMMA UploadInv ==
  ASSUME ChannelInv, NEW t \in Slots, Upload(t) PROVE ChannelInv'
<1> PICK name \in Names, answered \in BOOLEAN :
      /\ Begins(t, Uploaded(name, Url(answered)))
      /\ PutObject(answered)
      /\ UNCHANGED <<row, page, brought, faults>>
  BY DEF Upload
<1> DEFINE r == Uploaded(name, Url(answered))
<1>1. Url(answered) \in {"stored", None} /\ (Url(answered) = "stored" => answered)
  BY ChannelSets DEF Url
<1>2. r \in Requests /\ r.pc = "find" /\ r.image = Url(answered)
  BY <1>1, UploadedForm
<1>3. /\ object' \in BOOLEAN /\ brought' \in BOOLEAN
      /\ (Known => Known') /\ (answered => Known')
  <2>1. object \in BOOLEAN /\ brought \in BOOLEAN
    BY AtTurn
  <2>2. PICK done \in BOOLEAN : (answered => done) /\ object' = (object \/ done)
    BY DEF PutObject
  <2> QED
    BY <2>1, <2>2 DEF Known
<1>4. Goes(t, r) /\ started' \in 0 .. MaxRequests /\ faults' = faults
  BY AtTurn DEF Begins
<1>5. EntitySound(r) /\ AnswerSound(r) /\ ~KeyRequest(r)
  BY <1>2 DEF EntitySound, AnswerSound, KeyRequest
<1> QED
  BY <1>1, <1>2, <1>3, <1>4, <1>5, AtTurn, TurnUnseen

\* The images are as they were.
LEMMA SameImages ==
  ASSUME ChannelInv, UNCHANGED images
  PROVE  object' \in BOOLEAN /\ brought' \in BOOLEAN /\ Known' = Known
BY DEF ChannelInv, TypeOK, images, Known

\* A handler has found the row and set the columns it is about.
LEMMA FoundInv ==
  ASSUME ChannelInv, NEW t \in Slots, NEW kind \in Kinds, NEW entity \in Rows,
         Goes(t, Saving(kind, entity)), UNCHANGED <<row, shown, faults>>,
         object' \in BOOLEAN, brought' \in BOOLEAN, Known => Known',
         started' \in 0 .. MaxRequests,
         \A c \in Columns \ Asked(kind) : entity[c] = channel[c],
         entity.image = "stored" => Known',
         \/ sure' = FALSE
         \/ sure' = sure /\ kind \in {"info", "image", "create"}
  PROVE  ChannelInv'
<1> DEFINE r == Saving(kind, entity)
<1>1. r \in Requests /\ r.pc = "compare" /\ r.kind = kind /\ r.entity = entity
  BY SavingForm
<1>2. EntitySound(r) /\ AnswerSound(r)
  BY FoundSound
<1>3. CASE sure' = FALSE
  BY <1>1, <1>2, <1>3, AtTurn, Turn
<1>4. CASE sure' = sure /\ kind \in {"info", "image", "create"}
  <2>1. ~KeyRequest(r)
    BY <1>1, <1>4 DEF KeyRequest
  <2>2. UNCHANGED <<row, page>>
    BY <1>4 DEF page
  <2> QED
    BY <1>1, <1>2, <2>1, <2>2, AtTurn, TurnUnseen
<1> QED
  BY <1>3, <1>4

LEMMA UpdateInfoInv ==
  ASSUME ChannelInv, NEW t \in Slots, UpdateInfo(t) PROVE ChannelInv'
<1> DEFINE r == req[t]
           entity == [channel EXCEPT !.name = OrElse(r.name, channel.name),
                                     !.image = OrElse(r.image, channel.image)]
<1>1. /\ r.pc = "find" /\ Goes(t, Saving("info", entity))
      /\ UNCHANGED <<row, images, shown, sure, started, faults>>
  BY DEF UpdateInfo, page
<1>2. /\ r.name \in Names /\ r.image \in {"stored", None} /\ channel \in Rows
      /\ r.image = "stored" => Known
      /\ channel.image = "stored" => Known
  BY <1>1, AtTurn, RequestForms DEF Sound, ImageSound
<1>3. OrElse(r.name, channel.name) \in Names
  BY <1>2 DEF OrElse, Rows
<1>4. /\ OrElse(r.image, channel.image) \in {"default", "stored"}
      /\ OrElse(r.image, channel.image) = "stored" => Known
  BY <1>2 DEF OrElse, Rows
<1>5. /\ entity \in Rows /\ entity.image = OrElse(r.image, channel.image)
      /\ \A c \in Columns \ {"name", "image"} : entity[c] = channel[c]
  <2> DEFINE name == OrElse(r.name, channel.name)
             image == OrElse(r.image, channel.image)
  <2>1. name \in Names /\ image \in {"default", "stored"}
    BY <1>3, <1>4
  <2>2. entity = [channel EXCEPT !.name = name, !.image = image]
    OBVIOUS
  <2> HIDE DEF name, image, entity
  <2>3. /\ entity \in Rows /\ entity.image = image
        /\ \A c \in Columns \ {"name", "image"} : entity[c] = channel[c]
    BY <1>2, <2>1, <2>2 DEF Rows, Columns
  <2> QED
    BY <2>3 DEF image
<1>6. Asked("info") = {"name", "image"} /\ "info" \in Kinds
  BY DEF Asked, Kinds
<1> HIDE DEF entity
<1> QED
  BY <1>1, <1>4, <1>5, <1>6, AtTurn, SameImages, FoundInv

LEMMA UpdateImageInv ==
  ASSUME ChannelInv, NEW t \in Slots, UpdateImage(t) PROVE ChannelInv'
<1> PICK image \in ImagesSent :
      /\ Begins(t, Saving("image", [channel EXCEPT !.image = image]))
      /\ brought' = (brought \/ image = "stored")
      /\ UNCHANGED <<row, object, page, faults>>
  BY DEF UpdateImage
<1> DEFINE entity == [channel EXCEPT !.image = image]
<1>1. image \in {"default", "stored"} /\ channel \in Rows
  BY AtTurn DEF ImagesSent
<1>2. /\ entity \in Rows /\ entity.image = image
      /\ \A c \in Columns \ Asked("image") : entity[c] = channel[c]
  BY <1>1 DEF Rows, Columns, Asked
<1>3. /\ Goes(t, Saving("image", entity)) /\ started' \in 0 .. MaxRequests
      /\ UNCHANGED <<row, shown, sure, faults>>
  BY AtTurn DEF Begins, page
<1>4. "image" \in Kinds
  BY DEF Kinds
<1>5. /\ object' \in BOOLEAN /\ brought' \in BOOLEAN
      /\ Known => Known'
      /\ image = "stored" => Known'
  <2>1. object \in BOOLEAN /\ brought \in BOOLEAN
    BY AtTurn
  <2> QED
    BY <2>1 DEF Known
<1> HIDE DEF entity
<1> QED
  BY <1>1, <1>2, <1>3, <1>4, <1>5, FoundInv

\* The two requests for another key.
LEMMA AnotherKeyInv ==
  ASSUME ChannelInv, NEW t \in Slots, NEW kind \in {"change", "reset"}, NEW key \in Keys,
         Begins(t, Saving(kind, [channel EXCEPT !.key = key])), sure' = FALSE,
         UNCHANGED <<row, images, shown, faults>>
  PROVE  ChannelInv'
<1> DEFINE entity == [channel EXCEPT !.key = key]
<1>1. channel \in Rows /\ (channel.image = "stored" => Known)
  BY AtTurn
<1>2. /\ entity \in Rows /\ entity.image = channel.image
      /\ \A c \in Columns \ {"key"} : entity[c] = channel[c]
  BY <1>1 DEF Rows, Columns
<1>3. Asked(kind) = {"key"} /\ kind \in Kinds
  BY DEF Asked, Kinds
<1>4. Goes(t, Saving(kind, entity)) /\ started' \in 0 .. MaxRequests
  BY AtTurn DEF Begins
<1> HIDE DEF entity
<1> QED
  BY <1>1, <1>2, <1>3, <1>4, SameImages, FoundInv

LEMMA ChangeKeyInv ==
  ASSUME ChannelInv, NEW t \in Slots, ChangeKey(t) PROVE ChannelInv'
<1>1. FreshKey \in Keys
  BY AtTurn DEF ChangeKey, Begins, FreshKey, Keys
<1> QED
  BY <1>1, AnotherKeyInv DEF ChangeKey

LEMMA ResetKeyInv ==
  ASSUME ChannelInv, NEW t \in Slots, ResetKey(t) PROVE ChannelInv'
<1>1. 0 \in Keys
  BY DEF Keys
<1> QED
  BY <1>1, AnotherKeyInv DEF ResetKey

LEMMA CreateInv ==
  ASSUME ChannelInv, NEW t \in Slots, Create(t) PROVE ChannelInv'
<1>1. /\ Goes(t, Saving("create", channel)) /\ started' \in 0 .. MaxRequests
      /\ UNCHANGED <<row, images, shown, sure, faults>>
  BY AtTurn DEF Create, Begins, page
<1>2. "create" \in Kinds
  BY DEF Kinds
<1>3. channel \in Rows /\ (channel.image = "stored" => Known)
  BY AtTurn
<1>4. object' \in BOOLEAN /\ brought' \in BOOLEAN /\ Known' = Known
  BY <1>1, SameImages
<1> QED
  BY <1>1, <1>2, <1>3, <1>4, FoundInv

LEMMA CompareInv ==
  ASSUME ChannelInv, NEW t \in Slots, Compare(t) PROVE ChannelInv'
<1> DEFINE me == req[t]
           columns == Differing(me.entity, channel)
           w == Writing(me, columns)
<1>1. /\ me.pc = "compare" /\ UNCHANGED <<row, images, page, started, faults>>
      /\ Goes(t, IF columns = {} /\ me.kind # "create" THEN After(t, me.entity.key) ELSE w)
  BY DEF Compare
<1>2. me \in Requests /\ me.kind \in Kinds /\ me.entity \in Rows /\ Sound(me) /\ channel \in Rows
  BY <1>1, AtTurn, RequestForms
<1>3. columns = {c \in Columns : me.entity[c] # channel[c]}
  BY <1>2, RowFunction DEF Differing
<1>4. CASE columns = {} /\ me.kind # "create"
  <2>1. me.entity.key = channel.key /\ me.entity.key \in Keys
    BY <1>2, <1>3, <1>4, RowFunction DEF Columns, Rows
  <2> DEFINE a == After(t, me.entity.key)
  <2>2. /\ a \in Requests
        /\ \/ a.pc = "idle"
           \/ a.pc = "answer" /\ a.key = me.entity.key /\ me.kind = "change"
    BY <1>1, <2>1, AfterForm
  <2>3. EntitySound(a) /\ AnswerSound(a) /\ (KeyRequest(a) => KeyRequest(me))
    BY <1>1, <2>1, <2>2 DEF EntitySound, AnswerSound, KeyRequest
  <2>4. Goes(t, a)
    BY <1>1, <1>4
  <2> HIDE DEF a
  <2> QED
    BY <1>1, <2>2, <2>3, <2>4, AtTurn, SameImages, TurnUnseen
<1>5. CASE ~(columns = {} /\ me.kind # "create")
  <2>1. /\ w \in Requests /\ w.pc = "write" /\ w.kind = me.kind /\ w.entity = me.entity
        /\ w.others = me.others /\ w.columns = columns
    BY <1>1, <1>2, <1>3, WritingForm
  <2>2. EntitySound(w)
    <3>1. columns \subseteq Asked(me.kind) \union me.others
      BY <1>1, <1>2, <1>3 DEF Sound, EntitySound
    <3>2. "key" \notin columns => me.entity.key = channel.key
      BY <1>2, <1>3, RowFunction DEF Columns
    <3> QED
      BY <2>1, <3>1, <3>2 DEF EntitySound
  <2>3. AnswerSound(w) /\ (KeyRequest(w) => KeyRequest(me))
    BY <1>1, <2>1 DEF AnswerSound, KeyRequest
  <2>4. w.entity.image = "stored" => Known
    BY <1>1, <1>2, <2>1 DEF Sound, ImageSound
  <2>5. Goes(t, w)
    BY <1>1, <1>5
  <2> HIDE DEF w
  <2> QED
    BY <1>1, <2>1, <2>2, <2>3, <2>4, <2>5, AtTurn, SameImages, TurnUnseen
<1> QED
  BY <1>4, <1>5

\* The tables after the write.
LEMMA StoredRows ==
  ASSUME ChannelInv, NEW t \in Slots, req[t].pc = "write", Stored(req[t])
  PROVE  /\ channel' \in Rows /\ lives' \in Seq(LiveRows)
         /\ \A c \in Columns : channel'[c] = IF c \in req[t].columns THEN req[t].entity[c] ELSE channel[c]
         /\ channel'.key = IF "key" \in req[t].columns THEN req[t].entity.key ELSE channel.key
         /\ channel'.image = IF "image" \in req[t].columns THEN req[t].entity.image ELSE channel.image
<1> DEFINE me == req[t]
<1>1. me.entity \in Rows /\ me.columns \in SUBSET Columns /\ channel \in Rows /\ lives \in Seq(LiveRows)
  BY AtTurn, RequestForms
<1>2. channel' = Updated(channel, me.entity, me.columns)
  BY DEF Stored
<1>3. /\ channel' \in Rows
      /\ \A c \in Columns : channel'[c] = IF c \in me.columns THEN me.entity[c] ELSE channel[c]
  BY <1>1, <1>2, UpdatedRow
<1>4. lives' \in Seq(LiveRows)
  <2>1. me.entity.key \in Keys
    BY <1>1 DEF Rows
  <2>2. LiveRow(me.entity.key) \in LiveRows
    BY <2>1 DEF LiveRow, LiveRows
  <2> QED
    BY <1>1, <2>2 DEF Stored
<1>5. "key" \in Columns /\ "image" \in Columns
  BY DEF Columns
<1> QED
  BY <1>1, <1>3, <1>4, <1>5, RowFunction

\* What the requests become when one of them has written these columns.
LEMMA OvertakenRequest ==
  ASSUME ChannelInv, NEW t \in Slots, NEW columns \in SUBSET Columns, NEW r,
         req' = [Overtaken(columns) EXCEPT ![t] = r], NEW o \in Slots \ {t}
  PROVE  /\ req'[o] \in Requests
         /\ req[o].pc \notin {"compare", "write", "answer"} => req'[o] = req[o]
         /\ req'[o].pc = req[o].pc
         /\ req[o].pc \in {"compare", "write", "answer"} => req'[o].others = req[o].others \union columns
         /\ req[o].pc \in {"compare", "write"} => req'[o].kind = req[o].kind /\ req'[o].entity = req[o].entity
         /\ req[o].pc = "write" => req'[o].columns = req[o].columns
         /\ req[o].pc = "answer" => req'[o].key = req[o].key
<1>1. req[o] \in Requests
  BY AtTurn
<1>2. req'[o] = IF req[o].pc \in {"compare", "write", "answer"}
                THEN [req[o] EXCEPT !.others = req[o].others \union columns] ELSE req[o]
  BY DEF Overtaken
<1>3. CASE req[o].pc \in {"compare", "write", "answer"}
  <2>1. req'[o] = [req[o] EXCEPT !.others = req[o].others \union columns]
    BY <1>2, <1>3
  <2>2. req'[o] \in Requests
    BY <1>1, <1>3, <2>1, OvertakenForm
  <2> QED
    BY <1>1, <1>3, <2>1, <2>2 DEF Requests, Idle
<1>4. CASE req[o].pc \notin {"compare", "write", "answer"}
  BY <1>1, <1>2, <1>4
<1> QED
  BY <1>3, <1>4

\* The UPDATE.  Whoever found the row before it has not seen these columns; the
\* page is sure of its key only while no request for another one is under way,
\* and then the key is written only by a save that another one has overtaken.
LEMMA WrittenInv ==
  ASSUME ChannelInv, NEW t \in Slots, req[t].pc = "write", Stored(req[t]), sure' = StillSure(req[t]),
         NEW key \in {0, req[t].entity.key},
         req' = [Overtaken(req[t].columns) EXCEPT ![t] = After(t, key)],
         UNCHANGED <<images, shown, started>>, faults' \in 0 .. MaxFaults
  PROVE  ChannelInv'
<1> DEFINE me == req[t]
           a == After(t, key)
<1>1. /\ me.kind \in Kinds /\ me.entity \in Rows /\ me.columns \in SUBSET Columns /\ me.others \in SUBSET Columns
      /\ Sound(me)
      /\ me.columns \subseteq Asked(me.kind) \union me.others
      /\ "key" \notin me.columns \union me.others => me.entity.key = channel.key
      /\ me.entity.image = "stored" => Known
  BY AtTurn, RequestForms DEF Sound, EntitySound, ImageSound
<1>2. /\ channel' \in Rows /\ lives' \in Seq(LiveRows)
      /\ \A c \in Columns : channel'[c] = IF c \in me.columns THEN me.entity[c] ELSE channel[c]
      /\ channel'.key = IF "key" \in me.columns THEN me.entity.key ELSE channel.key
      /\ channel'.image = IF "image" \in me.columns THEN me.entity.image ELSE channel.image
  BY StoredRows
<1>3. key \in Keys
  <2>1. me.entity.key \in Keys /\ 0 \in Keys
    BY <1>1 DEF Rows, Keys
  <2> QED
    BY <2>1
<1>4. /\ a \in Requests
      /\ \/ a.pc = "idle"
         \/ a.pc = "answer" /\ a.key = key /\ a.others = me.others /\ me.kind = "change"
  BY <1>3, AfterForm
<1>5. DOMAIN req' = Slots /\ req'[t] = a
  BY DEF Overtaken
<1> HIDE DEF a
<1>6. req' \in [Slots -> Requests]
  <2>1. \A o \in Slots : req'[o] \in Requests
    BY <1>1, <1>4, <1>5, OvertakenRequest
  <2>2. req' = [o \in Slots |-> req'[o]]
    BY DEF Overtaken
  <2> QED
    BY <2>1, <2>2
<1>7. sure' => /\ sure /\ ~("key" \in me.columns /\ "key" \in me.others)
               /\ \A o \in Slots : ~KeyRequest(req[o])
               /\ shown = channel.key
  BY AtTurn DEF StillSure, ForKey, KeyRequest
<1>8. sure' \in BOOLEAN
  <2>1. sure \in BOOLEAN
    BY AtTurn
  <2> QED
    BY <2>1, Zenon DEF StillSure
<1>9. TypeOK'
  <2>1. Requests' = Requests
    BY DEF Requests
  <2> QED
    BY <1>2, <1>6, <1>8, <2>1, AtTurn, SameImages DEF TypeOK
<1>10. \A o \in Slots : Sound(req[o])'
  <2>1. SUFFICES ASSUME NEW o \in Slots PROVE Sound(req[o])'
    OBVIOUS
  <2>2. CASE o = t
    <3>1. a.pc = "answer" /\ "key" \notin a.others /\ a.key # 0 => a.key = channel'.key
      BY <1>1, <1>2, <1>4
    <3> QED
      BY <1>4, <1>5, <2>2, <3>1 DEF Sound, EntitySound, AnswerSound, ImageSound
  <2>3. CASE o # t
    <3>1. /\ req'[o].pc = req[o].pc
          /\ req[o].pc \notin {"compare", "write", "answer"} => req'[o] = req[o]
          /\ req[o].pc \in {"compare", "write", "answer"} => req'[o].others = req[o].others \union me.columns
          /\ req[o].pc \in {"compare", "write"} => req'[o].kind = req[o].kind /\ req'[o].entity = req[o].entity
          /\ req[o].pc = "write" => req'[o].columns = req[o].columns
          /\ req[o].pc = "answer" => req'[o].key = req[o].key
      BY <1>1, <2>3, OvertakenRequest
    <3>2. Sound(req[o])
      BY AtTurn
    <3>3. EntitySound(req[o])'
      BY <1>2, <3>1, <3>2 DEF Sound, EntitySound
    <3>4. AnswerSound(req[o])'
      BY <1>2, <3>1, <3>2 DEF Sound, AnswerSound
    <3>5. ImageSound(req[o])'
      BY <3>1, <3>2, SameImages DEF Sound, ImageSound
    <3> QED
      BY <3>3, <3>4, <3>5 DEF Sound
  <2> QED
    BY <2>2, <2>3
<1>11. sure' => ForKey' = {}
  <2>1. SUFFICES ASSUME sure', NEW o \in Slots PROVE ~KeyRequest(req'[o])
    BY DEF ForKey, KeyRequest
  <2>2. CASE o = t
    BY <1>4, <1>5, <1>7, <2>1, <2>2 DEF KeyRequest
  <2>3. CASE o # t
    BY <1>1, <1>7, <2>1, <2>3, OvertakenRequest DEF KeyRequest
  <2> QED
    BY <2>2, <2>3
<1>12. KeyShown'
  <2>1. SUFFICES ASSUME sure' PROVE shown' = channel'.key
    BY DEF KeyShown
  <2>2. "key" \notin Asked(me.kind)
    BY <1>1, <1>7, <2>1 DEF KeyRequest, Asked, Kinds
  <2> QED
    BY <1>1, <1>2, <1>7, <2>1, <2>2
<1>13. ImageStored'
  BY <1>1, <1>2, AtTurn, SameImages DEF ImageStored, Known
<1> QED
  BY <1>9, <1>10, <1>11, <1>12, <1>13 DEF ChannelInv

LEMMA WriteInv ==
  ASSUME ChannelInv, NEW t \in Slots, Write(t) PROVE ChannelInv'
BY AtTurn, WrittenInv DEF Write

LEMMA SaveFailsInv ==
  ASSUME ChannelInv, NEW t \in Slots, SaveFails(t) PROVE ChannelInv'
<1>1. /\ req[t].pc \in {"compare", "write"} /\ faults' \in 0 .. MaxFaults
      /\ UNCHANGED <<images, shown, started>>
  BY AtTurn DEF SaveFails
<1>2. CASE UNCHANGED <<row, sure>> /\ Goes(t, After(t, 0))
  <2> DEFINE a == After(t, 0)
  <2>1. /\ a \in Requests
        /\ \/ a.pc = "idle"
           \/ a.pc = "answer" /\ a.key = 0 /\ req[t].kind = "change"
    <3>1. 0 \in Keys
      BY DEF Keys
    <3> QED
      BY <1>1, <3>1, AfterForm
  <2>2. EntitySound(a) /\ AnswerSound(a) /\ (KeyRequest(a) => KeyRequest(req[t]))
    BY <1>1, <2>1 DEF EntitySound, AnswerSound, KeyRequest
  <2>3. UNCHANGED <<row, page>>
    BY <1>1, <1>2 DEF page
  <2>4. Goes(t, a)
    BY <1>2
  <2> HIDE DEF a
  <2> QED
    BY <1>1, <2>1, <2>2, <2>3, <2>4, AtTurn, SameImages, TurnUnseen
<1>3. CASE /\ req[t].pc = "write"
           /\ Stored(req[t])
           /\ sure' = StillSure(req[t])
           /\ req' = [Overtaken(req[t].columns) EXCEPT ![t] = After(t, 0)]
  BY <1>1, <1>3, WrittenInv
<1> QED
  BY <1>2, <1>3 DEF SaveFails

LEMMA ShowKeyInv ==
  ASSUME ChannelInv, NEW t \in Slots, ShowKey(t) PROVE ChannelInv'
<1> DEFINE me == req[t]
<1>1. /\ me.pc = "answer" /\ Goes(t, Idle) /\ UNCHANGED <<row, images, started, faults>>
      /\ me.key \in Keys /\ Sound(me)
  BY AtTurn, RequestForms DEF ShowKey
<1>2. EntitySound(Idle) /\ AnswerSound(Idle) /\ ~KeyRequest(Idle)
  BY IdleForm DEF EntitySound, AnswerSound, KeyRequest
<1>3. CASE UNCHANGED page
  BY <1>1, <1>2, <1>3, AtTurn, IdleForm, SameImages, TurnUnseen
<1>4. CASE /\ shown' = me.key
           /\ sure' = (me.key # 0 /\ "key" \notin me.others /\ ForKey = {t})
  <2>1. sure' \in BOOLEAN
    BY <1>4, Zenon
  <2>2. sure' => shown' = channel.key /\ \A o \in Slots \ {t} : ~KeyRequest(req[o])
    BY <1>1, <1>4 DEF Sound, AnswerSound, ForKey, KeyRequest
  <2> QED
    BY <1>1, <1>2, <1>4, <2>1, <2>2, AtTurn, IdleForm, SameImages, Turn
<1> QED
  BY <1>3, <1>4 DEF ShowKey

\* The page is sure of the key it reads from the row, if none is on its way.
LEMMA ReloadInv ==
  ASSUME ChannelInv, Reload PROVE ChannelInv'
<1>1. /\ shown' = channel.key /\ sure' = (ForKey = {})
      /\ req' = [t \in Slots |-> IF req[t].pc \in {"compare", "write", "answer"}
                                 THEN [req[t] EXCEPT !.told = FALSE] ELSE req[t]]
      /\ channel' = channel /\ lives' = lives /\ UNCHANGED <<images, started, faults>>
  BY DEF Reload, MyPage, row
<1>2. \A t \in Slots :
        /\ req'[t] \in Requests /\ req'[t].pc = req[t].pc
        /\ req[t].pc = "find" => req'[t] = req[t]
        /\ req[t].pc \in {"compare", "write", "answer"} => req'[t].others = req[t].others
        /\ req[t].pc \in {"compare", "write"} => req'[t].kind = req[t].kind /\ req'[t].entity = req[t].entity
        /\ req[t].pc = "write" => req'[t].columns = req[t].columns
        /\ req[t].pc = "answer" => req'[t].key = req[t].key
  <2> SUFFICES ASSUME NEW t \in Slots
               PROVE  /\ req'[t] \in Requests /\ req'[t].pc = req[t].pc
                      /\ req[t].pc = "find" => req'[t] = req[t]
                      /\ req[t].pc \in {"compare", "write", "answer"} => req'[t].others = req[t].others
                      /\ req[t].pc \in {"compare", "write"} =>
                           req'[t].kind = req[t].kind /\ req'[t].entity = req[t].entity
                      /\ req[t].pc = "write" => req'[t].columns = req[t].columns
                      /\ req[t].pc = "answer" => req'[t].key = req[t].key
    OBVIOUS
  <2>1. req[t] \in Requests
    BY AtTurn
  <2>2. CASE req[t].pc \in {"compare", "write", "answer"}
    <3>1. req'[t] = [req[t] EXCEPT !.told = FALSE]
      BY <1>1, <2>2
    <3>2. req'[t] \in Requests
      BY <2>1, <2>2, <3>1, OvertakenForm
    <3> QED
      BY <2>1, <2>2, <3>1, <3>2 DEF Requests, Idle
  <2>3. CASE req[t].pc \notin {"compare", "write", "answer"}
    BY <1>1, <2>1, <2>3
  <2> QED
    BY <2>2, <2>3
<1>3. TypeOK'
  <2>1. sure' \in BOOLEAN
    BY <1>1, Zenon
  <2>2. req' \in [Slots -> Requests]
    BY <1>1, <1>2
  <2>3. Requests' = Requests
    BY DEF Requests
  <2>4. channel.key \in Keys
    BY DEF ChannelInv, TypeOK, Rows
  <2> QED
    BY <1>1, <2>1, <2>2, <2>3, <2>4, SameImages DEF ChannelInv, TypeOK
<1>4. \A t \in Slots : Sound(req[t])'
  BY <1>1, <1>2, SameImages DEF ChannelInv, Sound, EntitySound, AnswerSound, ImageSound
<1>5. sure' => ForKey' = {}
  BY <1>1, <1>2 DEF ForKey
<1>6. KeyShown' /\ ImageStored'
  BY <1>1, SameImages DEF ChannelInv, KeyShown, ImageStored, Known
<1> QED
  BY <1>3, <1>4, <1>5, <1>6 DEF ChannelInv

\* End and Remove change nothing but the rows of broadcasts.
LEMMA LivesChanged ==
  ASSUME ChannelInv, lives' \in Seq(LiveRows),
         UNCHANGED <<channel, images, shown, sure, req, started, faults>>
  PROVE  ChannelInv'
<1>1. TypeOK'
  BY SameImages DEF ChannelInv, TypeOK, Requests
<1>2. \A t \in Slots : Sound(req[t])'
  BY SameImages DEF ChannelInv, Sound, EntitySound, AnswerSound, ImageSound
<1>3. (sure' => ForKey' = {}) /\ KeyShown' /\ ImageStored'
  BY SameImages DEF ChannelInv, ForKey, KeyShown, ImageStored, Known
<1> QED
  BY <1>1, <1>2, <1>3 DEF ChannelInv

LEMMA EndRows ==
  ASSUME ChannelInv, End PROVE lives' \in Seq(LiveRows) /\ Len(lives') = Len(lives)
<1> PICK i \in DOMAIN lives : lives' = [lives EXCEPT ![i].on = FALSE]
  BY DEF End
<1>1. lives \in Seq(LiveRows) /\ lives[i] \in LiveRows
  BY DEF ChannelInv, TypeOK
<1>2. [lives[i] EXCEPT !.on = FALSE] \in LiveRows
  BY <1>1 DEF LiveRows
<1>3. lives' = [lives EXCEPT ![i] = [lives[i] EXCEPT !.on = FALSE]]
  OBVIOUS
<1> QED
  BY <1>1, <1>2, <1>3

LEMMA RemoveRows ==
  ASSUME ChannelInv, Remove PROVE lives' \in Seq(LiveRows) /\ Len(lives') = Len(lives) - 1
<1>0. PICK i \in DOMAIN lives : lives' = SubSeq(lives, 1, i - 1) \o SubSeq(lives, i + 1, Len(lives))
  BY DEF Remove
<1>1. lives \in Seq(LiveRows) /\ i \in 1 .. Len(lives) /\ Len(lives) \in Nat
  BY <1>0 DEF ChannelInv, TypeOK
<1>2. SubSeq(lives, 1, i - 1) \in Seq(LiveRows) /\ Len(SubSeq(lives, 1, i - 1)) = i - 1
  BY <1>1, SubSeqProperties
<1>3. /\ SubSeq(lives, i + 1, Len(lives)) \in Seq(LiveRows)
      /\ Len(SubSeq(lives, i + 1, Len(lives))) = Len(lives) - i
  BY <1>1, SubSeqProperties
<1>4. \A s1, s2 \in Seq(LiveRows) : s1 \o s2 \in Seq(LiveRows) /\ Len(s1 \o s2) = Len(s1) + Len(s2)
  BY ConcatProperties
<1>5. lives' \in Seq(LiveRows) /\
      Len(lives') = Len(SubSeq(lives, 1, i - 1)) + Len(SubSeq(lives, i + 1, Len(lives)))
  BY <1>0, <1>2, <1>3, <1>4
<1>6. Len(lives') = (i - 1) + (Len(lives) - i)
  BY <1>2, <1>3, <1>5
<1>7. \A m \in Nat : \A k \in 1 .. m : (k - 1) + (m - k) = m - 1
  OBVIOUS
<1>8. Len(lives') = Len(lives) - 1
  BY <1>1, <1>6, <1>7
<1> QED
  BY <1>5, <1>8

LEMMA InvNext == ChannelInv /\ [Next]_vars => ChannelInv'
<1> SUFFICES ASSUME ChannelInv, [Next]_vars PROVE ChannelInv'
  OBVIOUS
<1>1. ASSUME NEW t \in Slots,
             \/ Upload(t) \/ UpdateInfo(t) \/ UpdateImage(t)
             \/ ChangeKey(t) \/ ResetKey(t) \/ Create(t)
             \/ Compare(t) \/ Write(t) \/ SaveFails(t) \/ ShowKey(t)
      PROVE  ChannelInv'
  BY <1>1, UploadInv, UpdateInfoInv, UpdateImageInv, ChangeKeyInv, ResetKeyInv, CreateInv, CompareInv,
     WriteInv, SaveFailsInv, ShowKeyInv
<1>2. CASE End
  BY <1>2, EndRows, LivesChanged DEF End, page
<1>3. CASE Remove
  BY <1>3, RemoveRows, LivesChanged DEF Remove, page
<1>4. CASE UNCHANGED vars
  BY <1>4, LivesChanged DEF vars, images, ChannelInv, TypeOK
<1> QED
  BY <1>1, <1>2, <1>3, <1>4, ReloadInv DEF Next

\* A row of lives is inserted by the save of a create only, with the key of the
\* entity, which is the channel's or has been replaced meanwhile.
LEMMA StartedRow ==
  ASSUME ChannelInv, NEW t \in Slots, req[t].pc = "write", Stored(req[t]), Len(lives') > Len(lives)
  PROVE  \/ lives'[Len(lives')].key = channel'.key
         \/ \E o \in Slots : req[o].pc = "write" /\ "key" \in req[o].others
<1> DEFINE me == req[t]
<1>1. lives \in Seq(LiveRows) /\ me.entity \in Rows /\ Sound(me)
  BY AtTurn, RequestForms
<1>2. LiveRow(me.entity.key) \in LiveRows /\ LiveRow(me.entity.key).key = me.entity.key
  BY <1>1 DEF LiveRow, LiveRows, Rows
<1>3. lives' = Append(lives, LiveRow(me.entity.key))
  BY DEF Stored
<1>4. lives'[Len(lives')].key = me.entity.key
  BY <1>1, <1>2, <1>3
<1>5. channel'.key = IF "key" \in me.columns THEN me.entity.key ELSE channel.key
  BY StoredRows
<1>6. "key" \notin me.columns \union me.others => me.entity.key = channel.key
  BY <1>1 DEF Sound, EntitySound
<1> QED
  BY <1>4, <1>5, <1>6

LEMMA StartNext ==
  ASSUME ChannelInv, [Next]_vars, Len(lives') > Len(lives)
  PROVE  \/ lives'[Len(lives')].key = channel'.key
         \/ \E t \in Slots : req[t].pc = "write" /\ "key" \in req[t].others
<1>1. lives \in Seq(LiveRows) /\ Len(lives) \in Nat
  BY DEF ChannelInv, TypeOK
<1>2. lives' # lives
  BY <1>1
<1>3. ~End
  BY <1>1, EndRows
<1>4. ~Remove
  BY <1>1, RemoveRows
<1>5. \E t \in Slots : Write(t) \/ SaveFails(t)
  BY <1>2, <1>3, <1>4 DEF Next, vars, Upload, UpdateInfo, UpdateImage, ChangeKey, ResetKey, Create,
     Compare, ShowKey, Reload, row
<1>6. \E t \in Slots : req[t].pc = "write" /\ Stored(req[t])
  BY <1>2, <1>5 DEF Write, SaveFails, row
<1> QED
  BY <1>6, StartedRow

-----------------------------------------------------------------------------
(* The theorems. *)

\* Every reachable state satisfies the inductive invariant: what a save holds
\* agrees with the row, but for the columns other requests have written.
THEOREM ChannelsInvariant == Spec => []ChannelInv
BY InvInit, InvNext, PTL DEF Spec

\* The row, its broadcasts, the page and the requests have their types: no name
\* or image is ever replaced by a field that was not sent.
THEOREM ChannelsTypeCorrect == Spec => []TypeOK
<1>1. ChannelInv => TypeOK
  BY DEF ChannelInv
<1> QED
  BY <1>1, ChannelsInvariant, PTL

\* The settings page shows the channel's key once its last request for one is
\* answered, unless requests overlapped on the key.
THEOREM PageShowsKey == Spec => []KeyShown
<1>1. ChannelInv => KeyShown
  BY DEF ChannelInv
<1> QED
  BY <1>1, ChannelsInvariant, PTL

\* A save writes what it was asked to, and at worst columns that another
\* request has written since this one found the row.
THEOREM WritesOnlyAsked == Spec => []OnlyAsked
<1>1. ChannelInv => OnlyAsked
  BY DEF ChannelInv, Sound, EntitySound, OnlyAsked
<1> QED
  BY <1>1, ChannelsInvariant, PTL

\* The row points to the image in S3 only if it is there or updateChannelImage
\* was sent its URL: by the settings form, whatever fails of it, it never does.
THEOREM ImageThere == Spec => []ImageStored
<1>1. ChannelInv => ImageStored
  BY DEF ChannelInv
<1> QED
  BY <1>1, ChannelsInvariant, PTL

\* A broadcast starts with the key its channel has at that moment, unless the
\* key was replaced while the request ran.
THEOREM BroadcastKey == Spec => StartsWithKey
<1>1. ChannelInv /\ [Next]_vars =>
        [Len(lives') > Len(lives) =>
           \/ lives'[Len(lives')].key = channel'.key
           \/ \E t \in Slots : req[t].pc = "write" /\ "key" \in req[t].others]_vars
  BY StartNext
<1> QED
  BY <1>1, ChannelsInvariant, PTL DEF Spec, StartsWithKey

=============================================================================
