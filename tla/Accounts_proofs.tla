-------------------------- MODULE Accounts_proofs --------------------------
(***************************************************************************)
(* Proofs about Accounts, for every set of addresses, Kakao ids, nicknames *)
(* and browsers and every value of the bounds.                             *)
(***************************************************************************)
EXTENDS Accounts, FiniteSetTheorems, TLAPS

USE AccountSets, AccountBounds

-----------------------------------------------------------------------------
(* Rows and requests. *)

\* What a request of each kind is made of.
LEMMA RequestForms ==
  ASSUME NEW r \in Requests
  PROVE  /\ r.pc \in {"idle", "check", "user", "channel", "compare", "write", "welcome"}
         /\ r.pc = "idle" => r = Idle
         /\ r.pc \in {"check", "user"} => r.form \in Rows /\ r.since \in 0 .. MaxUsers
         /\ r.pc \in {"channel", "compare", "write", "welcome"} => r.user \in Ids
         /\ r.pc \in {"compare", "write"} =>
              r.entity \in Rows /\ r.typed \in SUBSET Columns /\ r.mixed \in BOOLEAN
         /\ r.pc = "write" => r.columns \in SUBSET Columns
BY DEF Requests, Idle

LEMMA IdleForm == Idle \in Requests /\ Idle.pc = "idle"
BY DEF Requests, Idle

LEMMA SigningForm ==
  ASSUME NEW pc \in {"check", "user"}, NEW form \in Rows, NEW since \in 0 .. MaxUsers
  PROVE  /\ Signing(pc, form, since) \in Requests
         /\ Signing(pc, form, since).pc = pc
         /\ Signing(pc, form, since).form = form
         /\ Signing(pc, form, since).since = since
BY DEF Requests, Signing

LEMMA UserForms ==
  ASSUME NEW i \in Ids
  PROVE  /\ Joining(i) \in Requests /\ Joining(i).pc = "channel" /\ Joining(i).user = i
         /\ Welcome(i) \in Requests /\ Welcome(i).pc = "welcome" /\ Welcome(i).user = i
BY DEF Requests, Joining, Welcome

LEMMA EditingForm ==
  ASSUME NEW i \in Ids, NEW entity \in Rows, NEW typed \in SUBSET Columns
  PROVE  /\ Editing(i, entity, typed) \in Requests
         /\ Editing(i, entity, typed).pc = "compare"
         /\ Editing(i, entity, typed).user = i
         /\ Editing(i, entity, typed).entity = entity
         /\ Editing(i, entity, typed).typed = typed
         /\ Editing(i, entity, typed).mixed = FALSE
BY DEF Requests, Editing

LEMMA MixedForm ==
  ASSUME NEW r \in Requests, r.pc \in {"compare", "write"}
  PROVE  /\ [r EXCEPT !.mixed = TRUE] \in Requests
         /\ [r EXCEPT !.mixed = TRUE].pc = r.pc
         /\ [r EXCEPT !.mixed = TRUE].mixed = TRUE
         /\ [r EXCEPT !.mixed = TRUE].user = r.user
         /\ [r EXCEPT !.mixed = TRUE].entity = r.entity
<1>1. CASE r.pc = "compare"
  <2>1. r \in [pc : {"compare"}, user : Ids, entity : Rows, typed : SUBSET Columns, mixed : BOOLEAN]
    BY <1>1 DEF Requests, Idle
  <2>2. [r EXCEPT !.mixed = TRUE] \in
          [pc : {"compare"}, user : Ids, entity : Rows, typed : SUBSET Columns, mixed : BOOLEAN]
    BY <2>1
  <2> QED
    BY <2>1, <2>2 DEF Requests
<1>2. CASE r.pc = "write"
  <2>1. r \in [pc : {"write"}, user : Ids, entity : Rows, typed : SUBSET Columns, mixed : BOOLEAN,
               columns : SUBSET Columns]
    BY <1>2 DEF Requests, Idle
  <2>2. [r EXCEPT !.mixed = TRUE] \in
          [pc : {"write"}, user : Ids, entity : Rows, typed : SUBSET Columns, mixed : BOOLEAN,
           columns : SUBSET Columns]
    BY <2>1
  <2> QED
    BY <2>1, <2>2 DEF Requests
<1> QED
  BY <1>1, <1>2

LEMMA WritingForm ==
  ASSUME NEW r \in Requests, r.pc = "compare", NEW columns \in SUBSET Columns
  PROVE  /\ Writing(r, columns) \in Requests
         /\ Writing(r, columns).pc = "write"
         /\ Writing(r, columns).user = r.user
         /\ Writing(r, columns).entity = r.entity
         /\ Writing(r, columns).typed = r.typed
         /\ Writing(r, columns).mixed = r.mixed
         /\ Writing(r, columns).columns = columns
BY RequestForms DEF Requests, Writing

\* Requests stay what they are when rows are added.
LEMMA RequestsGrow ==
  ASSUME users \in Seq(Rows), users' \in Seq(Rows), Len(users) <= Len(users')
  PROVE  Ids \subseteq Ids' /\ Requests \subseteq Requests'
<1>1. Ids \subseteq Ids'
  BY DEF Ids
<1> QED
  BY <1>1 DEF Requests

\* A row is a function of the columns.
LEMMA RowFunction ==
  ASSUME NEW row \in Rows
  PROVE  /\ DOMAIN row = Columns
         /\ row["who"] = row.who /\ row["mail"] = row.mail /\ row["nick"] = row.nick
BY DEF Rows, Columns

LEMMA UpdatedRow ==
  ASSUME NEW stored \in Rows, NEW entity \in Rows, NEW columns \in SUBSET Columns
  PROVE  /\ Updated(stored, entity, columns) \in Rows
         /\ \A c \in Columns :
              Updated(stored, entity, columns)[c] = IF c \in columns THEN entity[c] ELSE stored[c]
<1> DEFINE u == Updated(stored, entity, columns)
<1>1. u = [c \in Columns |-> IF c \in columns THEN entity[c] ELSE stored[c]]
  BY RowFunction DEF Updated
<1>2. u = [who |-> u["who"], mail |-> u["mail"], nick |-> u["nick"]]
  BY <1>1 DEF Columns
<1>3. /\ u["who"] \in Mails \union KakaoIds
      /\ u["mail"] \in Mails \union {None}
      /\ u["nick"] \in Nicks \union {None}
  BY <1>1 DEF Rows, Columns
<1> QED
  BY <1>1, <1>2, <1>3 DEF Rows

LEMMA EntityRow ==
  ASSUME NEW row \in Rows, NEW nick \in Nicks \union {None}, NEW mail \in Mails \union {None}
  PROVE  /\ EntityOf(row, nick, mail) \in Rows
         /\ Typed(nick, mail) \subseteq Columns
         /\ EntityOf(row, nick, mail).who = row.who
         /\ \A c \in Columns \ Typed(nick, mail) : EntityOf(row, nick, mail)[c] = row[c]
BY DEF EntityOf, Typed, Rows, Columns

-----------------------------------------------------------------------------
(* The types.  A sign-up starts only while there is room for its row, and *)
(* the room it was promised is still there when the row is inserted.      *)

RoomKept == Len(users) + Cardinality(SigningUp) <= MaxUsers

\* The four tables of a row and its history.
RowsOK ==
  /\ users \in Seq(Rows) /\ Len(users) <= MaxUsers
  /\ channels \subseteq Ids
  /\ asked \in Seq([since : 0 .. MaxUsers, nick : Nicks \union {None}])
  /\ Len(asked) = Len(users)
  /\ edited \subseteq Ids \X Columns

\* The browsers and the counters.
BrowsersOK ==
  /\ token \in [Browsers -> {0} \union Ids]
  /\ req \in [Browsers -> Requests]
  /\ edits \in 0 .. MaxEdits /\ faults \in 0 .. MaxFaults

LEMMA TypeParts == TypeOK <=> RowsOK /\ BrowsersOK
BY DEF TypeOK, RowsOK, BrowsersOK

LEMMA SigningUpFinite == IsFiniteSet(SigningUp) /\ Cardinality(SigningUp) \in Nat
BY FS_Subset, FS_CardinalityType DEF SigningUp

\* A request is over, or goes on without having become a sign-up.
LEMMA RoomStays ==
  ASSUME RoomKept, RowsOK, users' \in Seq(Rows), Len(users') = Len(users), SigningUp' \subseteq SigningUp
  PROVE  RoomKept'
<1>1. Cardinality(SigningUp') <= Cardinality(SigningUp)
  BY SigningUpFinite, FS_Subset
<1>2. IsFiniteSet(SigningUp') /\ Cardinality(SigningUp') \in Nat
  BY SigningUpFinite, FS_Subset, FS_CardinalityType
<1>3. Len(users) \in Nat /\ Cardinality(SigningUp)' = Cardinality(SigningUp')
  BY DEF RowsOK
<1> QED
  BY <1>1, <1>2, <1>3, SigningUpFinite DEF RoomKept

\* A sign-up starts.
LEMMA RoomPromised ==
  ASSUME RoomForUser, RowsOK, UNCHANGED users, NEW b \in Browsers,
         SigningUp' \subseteq SigningUp \union {b}
  PROVE  RoomKept'
<1>1. IsFiniteSet(SigningUp \union {b})
  BY SigningUpFinite, FS_AddElement
<1>2. Cardinality(SigningUp \union {b}) <= Cardinality(SigningUp) + 1
  <2>1. Cardinality(SigningUp \union {b})
          = IF b \in SigningUp THEN Cardinality(SigningUp) ELSE Cardinality(SigningUp) + 1
    BY SigningUpFinite, FS_AddElement, Zenon
  <2> QED
    BY <2>1, SigningUpFinite
<1>3. Cardinality(SigningUp \union {b}) \in Nat
  BY <1>1, FS_CardinalityType
<1>4. Cardinality(SigningUp') <= Cardinality(SigningUp \union {b}) /\ IsFiniteSet(SigningUp')
  BY <1>1, FS_Subset
<1>5. Cardinality(SigningUp') \in Nat
  BY <1>4, FS_CardinalityType
<1>6. Len(users) \in Nat /\ Cardinality(SigningUp)' = Cardinality(SigningUp')
  BY DEF RowsOK
<1> QED
  BY <1>2, <1>3, <1>4, <1>5, <1>6, SigningUpFinite DEF RoomKept, RoomForUser

\* A sign-up has inserted its row.
LEMMA RoomTaken ==
  ASSUME RoomKept, RowsOK, Len(users') = Len(users) + 1, NEW b \in SigningUp,
         SigningUp' \subseteq SigningUp \ {b}
  PROVE  RoomKept' /\ Len(users) < MaxUsers
<1>1. Cardinality(SigningUp \ {b}) = Cardinality(SigningUp) - 1 /\ IsFiniteSet(SigningUp \ {b})
  BY SigningUpFinite, FS_RemoveElement
<1>2. Cardinality(SigningUp') <= Cardinality(SigningUp \ {b}) /\ IsFiniteSet(SigningUp')
  BY <1>1, FS_Subset
<1>3. Cardinality(SigningUp') \in Nat
  BY <1>2, FS_CardinalityType
<1>4. Len(users) \in Nat /\ Cardinality(SigningUp)' = Cardinality(SigningUp')
  BY DEF RowsOK
<1> QED
  BY <1>1, <1>2, <1>3, <1>4, SigningUpFinite DEF RoomKept

\* The turn of one browser, as far as the sign-ups are concerned.
LEMMA SigningUpTurn ==
  ASSUME BrowsersOK, NEW b \in Browsers, NEW r, req' = [req EXCEPT ![b] = r]
  PROVE  /\ SigningUp' \subseteq SigningUp \union {b}
         /\ r.pc \notin {"check", "user"} => SigningUp' \subseteq SigningUp \ {b}
         /\ req[b].pc \in {"check", "user"} => b \in SigningUp /\ SigningUp' \subseteq SigningUp
BY DEF SigningUp, BrowsersOK

\* The row of a new user.
LEMMA InsertedRows ==
  ASSUME RowsOK, NEW r \in Requests, r.pc = "user", Inserted(r), UNCHANGED <<channels, edited>>,
         Len(users) < MaxUsers
  PROVE  /\ RowsOK'
         /\ Len(users') = Len(users) + 1 /\ Len(users) \in Nat
         /\ Ids' = 1 .. Len(users) + 1 /\ Ids = 1 .. Len(users)
         /\ users'[Len(users) + 1] = r.form
         /\ \A i \in Ids : users'[i] = users[i] /\ asked'[i] = asked[i]
         /\ asked'[Len(users) + 1] = [since |-> r.since, nick |-> r.form.nick]
<1> DEFINE a == [since |-> r.since, nick |-> r.form.nick]
<1>1. r.form \in Rows /\ r.since \in 0 .. MaxUsers
  BY RequestForms
<1>2. a \in [since : 0 .. MaxUsers, nick : Nicks \union {None}]
  BY <1>1 DEF Rows
<1>3. users' = Append(users, r.form) /\ asked' = Append(asked, a)
  BY DEF Inserted
<1>4. users' \in Seq(Rows) /\ Len(users') = Len(users) + 1 /\ Len(users) \in Nat
  BY <1>1, <1>3 DEF RowsOK
<1>5. asked' \in Seq([since : 0 .. MaxUsers, nick : Nicks \union {None}]) /\ Len(asked') = Len(asked) + 1
  BY <1>2, <1>3 DEF RowsOK
<1>6. Ids' = 1 .. Len(users) + 1 /\ Ids = 1 .. Len(users)
  BY <1>4 DEF Ids, RowsOK
<1>7. /\ users'[Len(users) + 1] = r.form /\ asked'[Len(users) + 1] = a
      /\ \A i \in Ids : users'[i] = users[i] /\ asked'[i] = asked[i]
  BY <1>1, <1>2, <1>3, <1>4, <1>6 DEF RowsOK
<1>8. RowsOK'
  <2>1. Ids \subseteq Ids'
    BY <1>4, <1>6
  <2> QED
    BY <1>4, <1>5, <2>1 DEF RowsOK
<1> QED
  BY <1>4, <1>6, <1>7, <1>8

\* The row of a changed profile.
LEMMA WrittenRows ==
  ASSUME RowsOK, NEW r \in Requests, r.pc = "write", UNCHANGED <<channels, asked>>,
         users' = [users EXCEPT ![r.user] = Updated(@, r.entity, r.columns)],
         edited' = edited \union ({r.user} \X r.columns)
  PROVE  /\ RowsOK'
         /\ Ids' = Ids /\ Len(users') = Len(users) /\ r.user \in Ids
         /\ users'[r.user] = Updated(users[r.user], r.entity, r.columns)
         /\ \A i \in Ids \ {r.user} : users'[i] = users[i]
<1>1. r.user \in Ids /\ r.entity \in Rows /\ r.columns \in SUBSET Columns
  BY RequestForms
<1>2. users[r.user] \in Rows
  BY <1>1 DEF RowsOK, Ids
<1>3. Updated(users[r.user], r.entity, r.columns) \in Rows
  BY <1>1, <1>2, UpdatedRow
<1>4. users' \in Seq(Rows) /\ Len(users') = Len(users) /\ Ids' = Ids
  BY <1>1, <1>3 DEF RowsOK, Ids
<1>5. /\ users'[r.user] = Updated(users[r.user], r.entity, r.columns)
      /\ \A i \in Ids \ {r.user} : users'[i] = users[i]
  BY <1>1 DEF Ids
<1> QED
  BY <1>1, <1>4, <1>5 DEF RowsOK

-----------------------------------------------------------------------------
(* The inductive invariant behind the properties about duplicate rows and  *)
(* about edits: what every request remembers is still true of the rows.    *)

\* The address of registration may be found under another address by now.
MailMoved(i) == users[i].who \in Mails /\ <<i, "mail">> \in edited

\* A sign-up saw no row of its account when it looked, so the rows of that
\* time have none, unless one has given up the address since.
SigningSound(r) ==
  r.pc \in {"check", "user"} =>
    /\ r.since <= Len(users)
    /\ r.form.who \in Mails => r.form.mail = r.form.who
    /\ \A i \in 1 .. r.since : users[i].who = r.form.who => MailMoved(i)
    /\ r.pc = "check" => r.form.who \in Mails

\* An edit never changes the account, and what it was not asked to change is
\* as in the row, unless another edit came in between.
EditSound(r) ==
  /\ r.pc \in {"compare", "write"} => r.entity.who = users[r.user].who
  /\ r.pc = "compare" /\ ~r.mixed =>
       \A c \in Columns \ r.typed : r.entity[c] = users[r.user][c]
  /\ r.pc = "write" /\ ~r.mixed => r.columns \subseteq r.typed

RequestsSound == \A b \in Browsers : SigningSound(req[b]) /\ EditSound(req[b])

\* A row that has not been edited is as its sign-up made it.
RowsSound ==
  \A i \in Ids :
    /\ users[i].who \in Mails /\ <<i, "mail">> \notin edited => users[i].mail = users[i].who
    /\ <<i, "nick">> \notin edited => users[i].nick = asked[i].nick

\* The inductive invariant: the types, the room promised to the sign-ups under
\* way, and what the requests remember.
AccountsInv ==
  /\ TypeOK
  /\ RoomKept
  /\ RequestsSound
  /\ RowsSound
  /\ OneUserPerAccount
  /\ SameFormOnce

LEMMA InvInit == Init => AccountsInv
<1> SUFFICES ASSUME Init PROVE AccountsInv
  OBVIOUS
<1>1. Ids = {} /\ Len(users) = 0 /\ users \in Seq(Rows)
  BY DEF Init, Ids
<1>2. \A b \in Browsers : req[b] = Idle
  BY DEF Init
<1>3. RowsOK
  BY <1>1 DEF Init, RowsOK
<1>4. BrowsersOK
  BY <1>1, IdleForm DEF Init, BrowsersOK
<1>5. RoomKept
  <2>1. SigningUp = {}
    BY <1>2, IdleForm DEF SigningUp
  <2> QED
    BY <1>1, <2>1, FS_EmptySet DEF RoomKept
<1>6. RequestsSound
  BY <1>2, IdleForm DEF RequestsSound, SigningSound, EditSound
<1>7. RowsSound /\ OneUserPerAccount /\ SameFormOnce
  BY <1>1 DEF RowsSound, OneUserPerAccount, SameFormOnce
<1> QED
  BY <1>3, <1>4, <1>5, <1>6, <1>7, TypeParts DEF AccountsInv

\* A request that has lost its way to a sign-up is sound as it stands.
LEMMA PlainSound ==
  ASSUME NEW r, r.pc \in {"idle", "channel", "welcome"} PROVE SigningSound(r) /\ EditSound(r)
BY DEF SigningSound, EditSound

\* What was sound stays sound while the rows are as they were.
LEMMA SoundStays ==
  ASSUME UNCHANGED <<users, asked, edited>>
  PROVE  /\ \A r : (SigningSound(r) <=> SigningSound(r)') /\ (EditSound(r) <=> EditSound(r)')
         /\ RowsSound => RowsSound'
         /\ OneUserPerAccount => OneUserPerAccount'
         /\ SameFormOnce => SameFormOnce'
BY DEF SigningSound, EditSound, MailMoved, RowsSound, OneUserPerAccount, SameFormOnce, Ids

\* The steps of one browser that leave the rows alone.
LEMMA Turn ==
  ASSUME AccountsInv, NEW b \in Browsers, NEW r \in Requests, Goes(b, r),
         UNCHANGED <<users, asked, edited>>,
         channels' \subseteq Ids, token' \in [Browsers -> {0} \union Ids],
         edits' \in 0 .. MaxEdits, faults' \in 0 .. MaxFaults,
         SigningSound(r), EditSound(r),
         r.pc \in {"check", "user"} => RoomForUser \/ req[b].pc \in {"check", "user"}
  PROVE  AccountsInv'
<1>1. RowsOK /\ BrowsersOK /\ RoomKept
  BY TypeParts DEF AccountsInv
<1>2. req' = [req EXCEPT ![b] = r]
  BY DEF Goes
<1>3. Ids' = Ids /\ Requests' = Requests
  BY DEF Ids, Requests
<1>4. RowsOK'
  BY <1>1, <1>3 DEF RowsOK
<1>5. BrowsersOK'
  BY <1>1, <1>2, <1>3 DEF BrowsersOK
<1>6. RoomKept'
  <2>1. CASE r.pc \notin {"check", "user"} \/ req[b].pc \in {"check", "user"}
    <3>1. SigningUp' \subseteq SigningUp
      BY <1>1, <1>2, <2>1, SigningUpTurn
    <3> QED
      BY <1>1, <3>1, RoomStays DEF RowsOK
  <2>2. CASE RoomForUser
    <3>1. SigningUp' \subseteq SigningUp \union {b}
      BY <1>1, <1>2, SigningUpTurn
    <3> QED
      BY <1>1, <2>2, <3>1, RoomPromised
  <2> QED
    BY <2>1, <2>2
<1>7. RequestsSound'
  <2>1. \A o \in Browsers : SigningSound(req'[o]) /\ EditSound(req'[o])
    BY <1>1, <1>2 DEF AccountsInv, RequestsSound, BrowsersOK
  <2>2. \A o \in Browsers : SigningSound(req[o])' /\ EditSound(req[o])'
    BY <2>1 DEF SigningSound, EditSound, MailMoved
  <2> QED
    BY <2>2 DEF RequestsSound
<1>8. TypeOK'
  BY <1>4, <1>5 DEF TypeOK, RowsOK, BrowsersOK
<1>9. RowsSound' /\ OneUserPerAccount' /\ SameFormOnce'
  BY SoundStays DEF AccountsInv
<1> QED
  BY <1>6, <1>7, <1>8, <1>9 DEF AccountsInv

\* A request ends, in success or in failure.
LEMMA Ended ==
  ASSUME AccountsInv, NEW b \in Browsers, Ends(b), UNCHANGED <<users, asked, edited>>,
         channels' \subseteq Ids, token' \in [Browsers -> {0} \union Ids],
         edits' \in 0 .. MaxEdits, faults' \in 0 .. MaxFaults
  PROVE  AccountsInv'
BY IdleForm, PlainSound, Turn DEF Ends

-----------------------------------------------------------------------------
(* Step by step. *)

\* What the invariant says of the browser whose turn it is.
LEMMA AtTurn ==
  ASSUME AccountsInv, NEW b \in Browsers
  PROVE  /\ req[b] \in Requests /\ SigningSound(req[b]) /\ EditSound(req[b])
         /\ token[b] \in {0} \union Ids
         /\ channels \subseteq Ids /\ token \in [Browsers -> {0} \union Ids]
         /\ users \in Seq(Rows) /\ Ids = 1 .. Len(users) /\ Len(users) \in 0 .. MaxUsers
         /\ edits \in 0 .. MaxEdits /\ faults \in 0 .. MaxFaults
BY DEF AccountsInv, TypeOK, RequestsSound, Ids

LEMMA TokenType ==
  ASSUME AccountsInv, NEW b \in Browsers, NEW i \in {0} \union Ids, Token(b, i)
  PROVE  token' \in [Browsers -> {0} \union Ids]
BY AtTurn DEF Token

\* Whoever looks for the rows of an account and finds none can go on to insert one.
LEMMA LookedSound ==
  ASSUME AccountsInv, NEW pc \in {"check", "user"}, NEW form \in Rows,
         form.who \in Mails => form.mail = form.who,
         pc = "check" => form.who \in Mails,
         \A i \in Ids : users[i].who = form.who => MailMoved(i)
  PROVE  SigningSound(Signing(pc, form, Len(users))) /\ EditSound(Signing(pc, form, Len(users)))
<1> DEFINE s == Signing(pc, form, Len(users))
<1>1. users \in Seq(Rows) /\ Ids = 1 .. Len(users) /\ Len(users) \in 0 .. MaxUsers
  BY DEF AccountsInv, TypeOK, Ids
<1>2. s.pc = pc /\ s.form = form /\ s.since = Len(users)
  BY <1>1, SigningForm
<1> QED
  BY <1>1, <1>2 DEF SigningSound, EditSound

LEMMA RegisterInv ==
  ASSUME AccountsInv, NEW b \in Browsers, Register(b) PROVE AccountsInv'
<1> PICK mail \in Mails, nick \in Nicks \union {None} :
      /\ req[b] = Idle /\ RoomForUser
      /\ IF WithMail(mail) # {}
         THEN Ends(b)
         ELSE Goes(b, Signing("check", Form(mail, mail, nick), Len(users)))
      /\ UNCHANGED <<tables, token, faults, history>>
  BY DEF Register
<1> DEFINE form == Form(mail, mail, nick)
<1>1. UNCHANGED <<users, channels, token, edits, faults, asked, edited>>
  BY DEF tables, history
<1>2. CASE WithMail(mail) # {}
  BY <1>1, <1>2, AtTurn, Ended
<1>3. CASE WithMail(mail) = {}
  <2>1. form \in Rows /\ form.who = mail /\ form.mail = mail
    BY DEF Form, Rows
  <2>2. \A i \in Ids : users[i].who = mail => MailMoved(i)
    BY <1>3 DEF WithMail, AccountsInv, RowsSound, MailMoved
  <2>3. SigningSound(Signing("check", form, Len(users))) /\ EditSound(Signing("check", form, Len(users)))
    BY <2>1, <2>2, LookedSound
  <2>4. Signing("check", form, Len(users)) \in Requests
    BY <2>1, AtTurn, SigningForm
  <2> QED
    BY <1>1, <1>3, <2>3, <2>4, AtTurn, Turn
<1> QED
  BY <1>2, <1>3

LEMMA CheckAgainInv ==
  ASSUME AccountsInv, NEW b \in Browsers, CheckAgain(b) PROVE AccountsInv'
<1> DEFINE s == Signing("user", req[b].form, req[b].since)
<1>1. UNCHANGED <<users, channels, token, edits, faults, asked, edited>> /\ req[b].pc = "check"
  BY DEF CheckAgain, tables, history
<1>2. CASE Ends(b)
  BY <1>1, <1>2, AtTurn, Ended
<1>3. CASE Goes(b, s)
  <2>1. /\ s \in Requests /\ s.pc = "user"
        /\ s.form = req[b].form /\ s.since = req[b].since
    BY <1>1, AtTurn, RequestForms, SigningForm
  <2>2. SigningSound(s) /\ EditSound(s)
    BY <1>1, <2>1, AtTurn DEF SigningSound, EditSound
  <2> QED
    BY <1>1, <1>3, <2>1, <2>2, AtTurn, Turn
<1> QED
  BY <1>2, <1>3 DEF CheckAgain

LEMMA KakaoInv ==
  ASSUME AccountsInv, NEW b \in Browsers, Kakao(b) PROVE AccountsInv'
<1> PICK who \in KakaoIds, nick \in Nicks \union {None} :
      /\ req[b] = Idle
      /\ \/ \E i \in Known(who) : Token(b, i) /\ UNCHANGED req
         \/ /\ Known(who) = {} /\ RoomForUser
            /\ Goes(b, Signing("user", KakaoForm(who, nick), Len(users)))
            /\ UNCHANGED token
      /\ UNCHANGED <<tables, faults, history>>
  BY DEF Kakao
<1> DEFINE form == KakaoForm(who, nick)
<1>1. UNCHANGED <<users, channels, edits, faults, asked, edited>>
  BY DEF tables, history
<1>2. ASSUME NEW i \in Known(who), Token(b, i), UNCHANGED req
      PROVE  AccountsInv'
  <2>1. token' \in [Browsers -> {0} \union Ids]
    BY <1>2, TokenType DEF Known, WithWho
  <2>2. Ends(b)
    BY <1>2, AtTurn DEF Ends, Goes, AccountsInv, TypeOK
  <2> QED
    BY <1>1, <2>1, <2>2, AtTurn, Ended
<1>3. ASSUME Known(who) = {}, RoomForUser, Goes(b, Signing("user", form, Len(users))), UNCHANGED token
      PROVE  AccountsInv'
  <2>1. form \in Rows /\ form.who = who /\ form.who \notin Mails
    BY DEF KakaoForm, Form, Rows
  <2>2. \A i \in Ids : users[i].who # who
    BY <1>3 DEF Known, WithWho
  <2>3. SigningSound(Signing("user", form, Len(users))) /\ EditSound(Signing("user", form, Len(users)))
    BY <2>1, <2>2, LookedSound
  <2>4. Signing("user", form, Len(users)) \in Requests
    BY <2>1, AtTurn, SigningForm
  <2> QED
    BY <1>1, <1>3, <2>3, <2>4, AtTurn, Turn
<1> QED
  BY <1>2, <1>3

\* A new row.  Whoever looked before it was there has not seen it, so the other
\* sign-ups stay sound; its own sign-up looked at every row up to its "since".
LEMMA InsertedInv ==
  ASSUME AccountsInv, NEW b \in Browsers, req[b].pc = "user", Inserted(req[b]),
         ~NickTaken(req[b].form.nick, 0),
         NEW r, r \in Requests', r.pc \in {"idle", "channel"}, Goes(b, r),
         UNCHANGED <<channels, token, edited, edits>>, faults' \in 0 .. MaxFaults
  PROVE  AccountsInv'
<1> DEFINE me == req[b]
           n == Len(users) + 1
<1>1. RowsOK /\ BrowsersOK /\ RoomKept
  BY TypeParts DEF AccountsInv
<1>2. me \in Requests /\ SigningSound(me) /\ me.since \in 0 .. MaxUsers
  BY AtTurn, RequestForms
<1>3. req' = [req EXCEPT ![b] = r]
  BY DEF Goes
<1>4. RoomKept' /\ Len(users) < MaxUsers
  <2>1. b \in SigningUp /\ SigningUp' \subseteq SigningUp \ {b}
    <3>1. r.pc \notin {"check", "user"} /\ req[b].pc \in {"check", "user"}
      OBVIOUS
    <3> QED
      BY <1>1, <1>3, <3>1, SigningUpTurn
  <2>2. Len(users') = Len(users) + 1
    BY <1>1, <1>2, RequestForms DEF Inserted, RowsOK
  <2> QED
    BY <1>1, <2>1, <2>2, RoomTaken
<1>5. /\ RowsOK'
      /\ Len(users') = n /\ Len(users) \in Nat
      /\ Ids' = 1 .. n /\ Ids = 1 .. Len(users)
      /\ users'[n] = me.form
      /\ \A i \in Ids : users'[i] = users[i] /\ asked'[i] = asked[i]
      /\ asked'[n] = [since |-> me.since, nick |-> me.form.nick]
  BY <1>1, <1>2, <1>4, InsertedRows
<1>6. Ids \subseteq Ids' /\ n \in Ids' /\ \A i \in Ids' : i \in Ids \/ i = n
  BY <1>5
<1>7. edited' = edited /\ \A c : <<n, c>> \notin edited
  BY <1>1, <1>5 DEF RowsOK
<1>8. BrowsersOK'
  <2>1. Requests \subseteq Requests'
    BY <1>1, <1>5, RequestsGrow DEF RowsOK
  <2>2. req' \in [Browsers -> Requests']
    BY <1>1, <1>3, <2>1 DEF BrowsersOK
  <2>3. token' \in [Browsers -> {0} \union Ids']
    BY <1>1, <1>6 DEF BrowsersOK
  <2> QED
    BY <1>1, <2>2, <2>3 DEF BrowsersOK
<1>9. RequestsSound'
  <2>1. SUFFICES ASSUME NEW o \in Browsers
                 PROVE  SigningSound(req[o])' /\ EditSound(req[o])'
    BY DEF RequestsSound
  <2>2. CASE o = b
    <3>1. req'[o] = r
      BY <1>1, <1>3, <2>2 DEF BrowsersOK
    <3> QED
      BY <3>1 DEF SigningSound, EditSound
  <2>3. CASE o # b
    <3>1. req'[o] = req[o] /\ req[o] \in Requests /\ SigningSound(req[o]) /\ EditSound(req[o])
      BY <1>1, <1>3, <2>3, AtTurn DEF BrowsersOK
    <3>2. SigningSound(req[o])'
      <4>1. SUFFICES ASSUME req[o].pc \in {"check", "user"}
                     PROVE  SigningSound(req[o])'
        BY <3>1 DEF SigningSound
      <4>2. /\ req[o].since <= Len(users) /\ req[o].since \in Nat
            /\ req[o].form.who \in Mails => req[o].form.mail = req[o].form.who
            /\ \A i \in 1 .. req[o].since : users[i].who = req[o].form.who => MailMoved(i)
            /\ req[o].pc = "check" => req[o].form.who \in Mails
        BY <3>1, <4>1, RequestForms DEF SigningSound
      <4>3. \A i \in 1 .. req[o].since : users'[i] = users[i]
        BY <1>5, <4>2
      <4> QED
        BY <1>5, <1>7, <3>1, <4>2, <4>3 DEF SigningSound, MailMoved
    <3>3. EditSound(req[o])'
      <4>1. req[o].pc \in {"compare", "write"} => users'[req[o].user] = users[req[o].user]
        BY <1>5, <3>1, RequestForms
      <4> QED
        BY <3>1, <4>1 DEF EditSound
    <3> QED
      BY <3>2, <3>3
  <2> QED
    BY <2>2, <2>3
<1>10. RowsSound'
  <2>1. SUFFICES ASSUME NEW i \in Ids'
                 PROVE  /\ users'[i].who \in Mails /\ <<i, "mail">> \notin edited' => users'[i].mail = users'[i].who
                        /\ <<i, "nick">> \notin edited' => users'[i].nick = asked'[i].nick
    BY DEF RowsSound
  <2>2. CASE i \in Ids
    BY <1>5, <1>7, <2>2 DEF AccountsInv, RowsSound
  <2>3. CASE i = n
    BY <1>2, <1>5, <2>3 DEF SigningSound
  <2> QED
    BY <1>6, <2>2, <2>3
<1>11. OneUserPerAccount'
  <2>1. SUFFICES ASSUME NEW i \in Ids', NEW j \in Ids', i < j, users'[i].who = users'[j].who
                 PROVE  asked'[j].since < i \/ (users'[i].who \in Mails /\ <<i, "mail">> \in edited')
    BY DEF OneUserPerAccount
  <2>2. i \in Ids
    BY <1>5, <2>1
  <2>3. CASE j \in Ids
    BY <1>5, <1>7, <2>1, <2>2, <2>3 DEF AccountsInv, OneUserPerAccount
  <2>4. CASE j = n
    <3>1. asked'[j].since = me.since /\ users[i].who = me.form.who
      BY <1>5, <2>1, <2>2, <2>4
    <3>2. me.since < i \/ i \in 1 .. me.since
      BY <1>2, <1>5, <2>2
    <3> QED
      BY <1>2, <1>5, <1>7, <2>2, <3>1, <3>2 DEF SigningSound, MailMoved
  <2> QED
    BY <1>6, <2>3, <2>4
<1>12. SameFormOnce'
  <2>1. SUFFICES ASSUME NEW i \in Ids', NEW j \in Ids', i < j, users'[i].who = users'[j].who,
                        asked'[i].nick = asked'[j].nick, asked'[i].nick # None
                 PROVE  <<i, "nick">> \in edited'
    BY DEF SameFormOnce
  <2>2. i \in Ids
    BY <1>5, <2>1
  <2>3. CASE j \in Ids
    BY <1>5, <1>7, <2>1, <2>2, <2>3 DEF AccountsInv, SameFormOnce
  <2>4. CASE j = n
    <3>1. asked[i].nick = me.form.nick /\ me.form.nick # None
      BY <1>5, <2>1, <2>2, <2>4
    <3>2. users[i].nick # me.form.nick
      BY <1>5, <2>2, <3>1 DEF NickTaken
    <3> QED
      BY <1>7, <2>2, <3>1, <3>2 DEF AccountsInv, RowsSound
  <2> QED
    BY <1>6, <2>3, <2>4
<1>13. TypeOK'
  BY <1>5, <1>8 DEF TypeOK, RowsOK, BrowsersOK
<1> QED
  BY <1>4, <1>9, <1>10, <1>11, <1>12, <1>13 DEF AccountsInv

LEMMA InsertUserInv ==
  ASSUME AccountsInv, NEW b \in Browsers, InsertUser(b) PROVE AccountsInv'
<1>1. req[b].pc = "user" /\ UNCHANGED <<channels, token, faults, edited, edits>>
  BY DEF InsertUser
<1>2. CASE NickTaken(req[b].form.nick, 0)
  <2>1. Ends(b) /\ UNCHANGED <<users, asked>>
    BY <1>2 DEF InsertUser
  <2> QED
    BY <1>1, <2>1, AtTurn, Ended
<1>3. CASE ~NickTaken(req[b].form.nick, 0)
  <2>1. Inserted(req[b]) /\ Goes(b, Joining(Len(users) + 1))
    BY <1>3 DEF InsertUser
  <2>2. Len(users) + 1 \in Ids'
    BY <1>1, <2>1, AtTurn, RequestForms DEF Inserted, Ids
  <2>3. Joining(Len(users) + 1) \in Requests' /\ Joining(Len(users) + 1).pc = "channel"
    BY <2>2 DEF Joining, Requests
  <2> QED
    BY <1>1, <1>3, <2>1, <2>3, AtTurn, InsertedInv
<1> QED
  BY <1>2, <1>3

LEMMA InsertUserFailsInv ==
  ASSUME AccountsInv, NEW b \in Browsers, InsertUserFails(b) PROVE AccountsInv'
<1>1. /\ req[b].pc = "user" /\ Ends(b)
      /\ UNCHANGED <<channels, token, edited, edits>>
      /\ faults' \in 0 .. MaxFaults
  BY AtTurn DEF InsertUserFails
<1>2. CASE UNCHANGED <<users, asked>>
  BY <1>1, <1>2, AtTurn, Ended
<1>3. CASE ~NickTaken(req[b].form.nick, 0) /\ Inserted(req[b])
  <2>1. Idle \in Requests' /\ Idle.pc = "idle" /\ Goes(b, Idle)
    BY <1>1 DEF Idle, Requests, Ends
  <2> QED
    BY <1>1, <1>3, <2>1, InsertedInv
<1> QED
  BY <1>2, <1>3 DEF InsertUserFails

LEMMA InsertChannelInv ==
  ASSUME AccountsInv, NEW b \in Browsers, InsertChannel(b) PROVE AccountsInv'
<1>1. /\ req[b].pc = "channel" /\ channels' = channels \union {req[b].user}
      /\ SignedIn(b, req[b].user) /\ Goes(b, Welcome(req[b].user))
      /\ UNCHANGED <<users, faults, asked, edited, edits>>
  BY DEF InsertChannel, history
<1>2. req[b].user \in Ids
  BY <1>1, AtTurn, RequestForms
<1>3. channels' \subseteq Ids
  BY <1>1, <1>2, AtTurn
<1>4. token' \in [Browsers -> {0} \union Ids]
  BY <1>1, <1>2, AtTurn, TokenType DEF SignedIn
<1> QED
  BY <1>1, <1>2, <1>3, <1>4, AtTurn, UserForms, PlainSound, Turn

LEMMA InsertChannelFailsInv ==
  ASSUME AccountsInv, NEW b \in Browsers, InsertChannelFails(b) PROVE AccountsInv'
<1>1. /\ req[b].pc = "channel" /\ Ends(b) /\ faults' \in 0 .. MaxFaults
      /\ channels' \in {channels, channels \union {req[b].user}}
      /\ UNCHANGED <<users, token, asked, edited, edits>>
  BY AtTurn DEF InsertChannelFails, history, FailureTold
<1>2. channels' \subseteq Ids
  BY <1>1, AtTurn, RequestForms
<1> QED
  BY <1>1, <1>2, AtTurn, Ended

LEMMA LoginInv ==
  ASSUME AccountsInv, NEW b \in Browsers, Login(b) PROVE AccountsInv'
<1>1. /\ \E i \in Ids : Token(b, i)
      /\ UNCHANGED <<users, channels, req, faults, asked, edited, edits>>
      /\ req[b] = Idle
  BY DEF Login, tables, history
<1>2. token' \in [Browsers -> {0} \union Ids]
  BY <1>1, TokenType
<1>3. Ends(b)
  BY <1>1 DEF Ends, Goes, AccountsInv, TypeOK
<1> QED
  BY <1>1, <1>2, <1>3, AtTurn, Ended

LEMMA ExpireInv ==
  ASSUME AccountsInv, NEW b \in Browsers, Expire(b) PROVE AccountsInv'
<1>1. UNCHANGED <<users, channels, req, faults, asked, edited, edits>> /\ Token(b, 0)
  BY DEF Expire, tables, history
<1>2. token' \in [Browsers -> {0} \union Ids]
  BY <1>1, TokenType
<1>3. Goes(b, req[b])
  BY <1>1 DEF Goes, AccountsInv, TypeOK
<1> QED
  BY <1>1, <1>2, <1>3, AtTurn, Turn

LEMMA LeaveInv ==
  ASSUME AccountsInv, NEW b \in Browsers, Leave(b) PROVE AccountsInv'
BY AtTurn, Ended DEF Leave, tables, history

LEMMA EditUserInv ==
  ASSUME AccountsInv, NEW b \in Browsers, EditUser(b) PROVE AccountsInv'
<1> PICK i \in Ids, nick \in Nicks \union {None}, mail \in Mails \union {None} :
      /\ req[b] = Idle /\ edits < MaxEdits /\ edits' = edits + 1
      /\ Goes(b, Editing(i, EntityOf(users[i], nick, mail), Typed(nick, mail)))
      /\ UNCHANGED <<tables, token, faults, asked, edited>>
  BY DEF EditUser
<1> DEFINE e == EntityOf(users[i], nick, mail)
           r == Editing(i, e, Typed(nick, mail))
<1>1. users[i] \in Rows
  BY AtTurn
<1>2. /\ e \in Rows /\ Typed(nick, mail) \in SUBSET Columns /\ e.who = users[i].who
      /\ \A c \in Columns \ Typed(nick, mail) : e[c] = users[i][c]
  BY <1>1, EntityRow
<1>3. /\ r \in Requests /\ r.pc = "compare" /\ r.user = i /\ r.entity = e
      /\ r.typed = Typed(nick, mail)
  <2> HIDE DEF e
  <2> QED
    BY <1>2 DEF Requests, Editing
<1>4. SigningSound(r) /\ EditSound(r)
  BY <1>2, <1>3 DEF SigningSound, EditSound
<1>5. edits' \in 0 .. MaxEdits /\ UNCHANGED <<users, channels, token, faults, asked, edited>>
  BY AtTurn DEF tables
<1> QED
  BY <1>3, <1>4, <1>5, AtTurn, Turn

LEMMA CompareUserInv ==
  ASSUME AccountsInv, NEW b \in Browsers, CompareUser(b) PROVE AccountsInv'
<1> DEFINE me == req[b]
           columns == Differing(me.entity, users[me.user])
           w == Writing(me, columns)
<1>1. /\ me.pc = "compare" /\ UNCHANGED <<users, channels, token, faults, asked, edited, edits>>
      /\ IF columns = {} THEN Ends(b) ELSE Goes(b, w)
  BY DEF CompareUser, tables, history
<1>2. me \in Requests /\ me.entity \in Rows /\ me.user \in Ids /\ EditSound(me)
  BY <1>1, AtTurn, RequestForms
<1>3. columns = {c \in Columns : me.entity[c] # users[me.user][c]}
  BY <1>2, RowFunction DEF Differing
<1>4. /\ w \in Requests /\ w.pc = "write" /\ w.user = me.user /\ w.entity = me.entity
      /\ w.typed = me.typed /\ w.mixed = me.mixed /\ w.columns = columns
  BY <1>1, <1>2, <1>3, WritingForm
<1>5. SigningSound(w) /\ EditSound(w)
  BY <1>1, <1>2, <1>3, <1>4 DEF SigningSound, EditSound
<1>6. CASE columns = {}
  BY <1>1, <1>6, AtTurn, Ended
<1>7. CASE columns # {}
  BY <1>1, <1>4, <1>5, <1>7, AtTurn, Turn
<1> QED
  BY <1>6, <1>7

\* The UPDATE.  It never changes the account, and every column it does change
\* is in "edited" from now on; the other edits of the user are mixed with it.
LEMMA WrittenInv ==
  ASSUME AccountsInv, NEW b \in Browsers, req[b].pc = "write",
         users' = [users EXCEPT ![req[b].user] = Updated(@, req[b].entity, req[b].columns)],
         edited' = edited \union ({req[b].user} \X req[b].columns),
         req' = [MixedWith(b, req[b].user) EXCEPT ![b] = Idle],
         UNCHANGED <<channels, token, faults, asked, edits>>
  PROVE  AccountsInv'
<1> DEFINE me == req[b]
           u == me.user
<1>1. RowsOK /\ BrowsersOK /\ RoomKept
  BY TypeParts DEF AccountsInv
<1>2. /\ me \in Requests /\ EditSound(me) /\ me.entity.who = users[u].who
      /\ me.entity \in Rows /\ me.columns \in SUBSET Columns /\ u \in Ids /\ users[u] \in Rows
  BY AtTurn, RequestForms DEF EditSound
<1>3. /\ RowsOK'
      /\ Ids' = Ids /\ Len(users') = Len(users)
      /\ users'[u] = Updated(users[u], me.entity, me.columns)
      /\ \A i \in Ids \ {u} : users'[i] = users[i]
  BY <1>1, <1>2, WrittenRows
<1>4. /\ users'[u] \in Rows
      /\ \A c \in Columns : users'[u][c] = IF c \in me.columns THEN me.entity[c] ELSE users[u][c]
  BY <1>2, <1>3, UpdatedRow
<1>5. /\ users'[u].who = users[u].who
      /\ "mail" \in me.columns \/ users'[u].mail = users[u].mail
      /\ "nick" \in me.columns \/ users'[u].nick = users[u].nick
  BY <1>2, <1>4, RowFunction DEF Columns
<1>6. /\ \A i \in Ids : users'[i].who = users[i].who
      /\ \A i \in Ids : MailMoved(i) => MailMoved(i)'
      /\ edited \subseteq edited' /\ asked' = asked
      /\ \A c \in me.columns : <<u, c>> \in edited'
  BY <1>3, <1>5 DEF MailMoved
<1>7. /\ req'[b] = Idle /\ DOMAIN req' = Browsers
      /\ \A o \in Browsers \ {b} :
           req'[o] = IF req[o].pc \in {"compare", "write"} /\ req[o].user = u
                     THEN [req[o] EXCEPT !.mixed = TRUE] ELSE req[o]
  BY DEF MixedWith
<1>8. \A o \in Browsers \ {b} :
        /\ req'[o] \in Requests
        /\ req'[o].pc = req[o].pc
        /\ req[o].pc \notin {"compare", "write"} => req'[o] = req[o]
        /\ req[o].pc \in {"compare", "write"} /\ req[o].user # u => req'[o] = req[o]
        /\ req[o].pc \in {"compare", "write"} /\ req[o].user = u =>
             req'[o].mixed = TRUE /\ req'[o].entity = req[o].entity /\ req'[o].user = u
  <2> SUFFICES ASSUME NEW o \in Browsers \ {b}
               PROVE  /\ req'[o] \in Requests
                      /\ req'[o].pc = req[o].pc
                      /\ req[o].pc \notin {"compare", "write"} => req'[o] = req[o]
                      /\ req[o].pc \in {"compare", "write"} /\ req[o].user # u => req'[o] = req[o]
                      /\ req[o].pc \in {"compare", "write"} /\ req[o].user = u =>
                           req'[o].mixed = TRUE /\ req'[o].entity = req[o].entity /\ req'[o].user = u
    OBVIOUS
  <2>1. req[o] \in Requests
    BY <1>1 DEF BrowsersOK
  <2>2. CASE req[o].pc \in {"compare", "write"} /\ req[o].user = u
    <3>1. req'[o] = [req[o] EXCEPT !.mixed = TRUE]
      BY <1>7, <2>2
    <3> QED
      BY <2>1, <2>2, <3>1, MixedForm
  <2>3. CASE ~(req[o].pc \in {"compare", "write"} /\ req[o].user = u)
    BY <1>7, <2>1, <2>3
  <2> QED
    BY <2>2, <2>3
<1>9. BrowsersOK'
  <2>1. Requests' = Requests
    BY <1>3 DEF Requests
  <2>2. \A o \in Browsers : req'[o] \in Requests'
    BY <1>7, <1>8, <2>1, IdleForm
  <2>3. req' = [o \in Browsers |-> req'[o]]
    BY DEF MixedWith
  <2>4. req' \in [Browsers -> Requests']
    BY <2>2, <2>3
  <2> QED
    BY <1>1, <1>3, <2>4 DEF BrowsersOK
<1>10. RoomKept'
  <2>1. SigningUp' \subseteq SigningUp
    BY <1>7, <1>8, IdleForm DEF SigningUp
  <2> QED
    BY <1>1, <1>3, <2>1, RoomStays DEF RowsOK
<1>11. RequestsSound'
  <2>1. SUFFICES ASSUME NEW o \in Browsers
                 PROVE  SigningSound(req[o])' /\ EditSound(req[o])'
    BY DEF RequestsSound
  <2>2. CASE o = b
    BY <1>7, <2>2, IdleForm DEF SigningSound, EditSound
  <2>3. CASE o # b
    <3>1. req[o] \in Requests /\ SigningSound(req[o]) /\ EditSound(req[o])
      BY AtTurn
    <3>2. SigningSound(req[o])'
      <4>1. SUFFICES ASSUME req[o].pc \in {"check", "user"}
                     PROVE  SigningSound(req[o])'
        BY <1>8, <2>3 DEF SigningSound
      <4>2. req'[o] = req[o] /\ req[o].since \in Nat
        BY <1>8, <2>3, <3>1, <4>1, RequestForms
      <4>3. 1 .. req[o].since \subseteq Ids
        BY <3>1, <4>1, <4>2, AtTurn DEF SigningSound
      <4> QED
        BY <1>3, <1>6, <3>1, <4>1, <4>2, <4>3 DEF SigningSound
    <3>3. EditSound(req[o])'
      <4>1. CASE req[o].pc \notin {"compare", "write"}
        BY <1>8, <2>3, <4>1 DEF EditSound
      <4>2. CASE req[o].pc \in {"compare", "write"} /\ req[o].user = u
        BY <1>5, <1>8, <2>3, <3>1, <4>2 DEF EditSound
      <4>3. CASE req[o].pc \in {"compare", "write"} /\ req[o].user # u
        <5>1. req'[o] = req[o] /\ users'[req[o].user] = users[req[o].user]
          BY <1>3, <1>8, <2>3, <3>1, <4>3, RequestForms
        <5> QED
          BY <3>1, <5>1 DEF EditSound
      <4> QED
        BY <4>1, <4>2, <4>3
    <3> QED
      BY <3>2, <3>3
  <2> QED
    BY <2>2, <2>3
<1>12. RowsSound'
  <2>1. SUFFICES ASSUME NEW i \in Ids
                 PROVE  /\ users'[i].who \in Mails /\ <<i, "mail">> \notin edited' => users'[i].mail = users'[i].who
                        /\ <<i, "nick">> \notin edited' => users'[i].nick = asked'[i].nick
    BY <1>3 DEF RowsSound
  <2>2. CASE i = u
    BY <1>5, <1>6, <2>2 DEF AccountsInv, RowsSound
  <2>3. CASE i # u
    BY <1>3, <1>6, <2>3 DEF AccountsInv, RowsSound
  <2> QED
    BY <2>2, <2>3
<1>13. OneUserPerAccount'
  BY <1>3, <1>6 DEF AccountsInv, OneUserPerAccount
<1>14. SameFormOnce'
  BY <1>3, <1>6 DEF AccountsInv, SameFormOnce
<1>15. TypeOK'
  BY <1>3, <1>9 DEF TypeOK, RowsOK, BrowsersOK
<1> QED
  BY <1>10, <1>11, <1>12, <1>13, <1>14, <1>15 DEF AccountsInv

LEMMA WriteUserInv ==
  ASSUME AccountsInv, NEW b \in Browsers, WriteUser(b) PROVE AccountsInv'
<1>1. req[b].pc = "write" /\ UNCHANGED <<channels, token, faults, asked, edits>>
  BY DEF WriteUser
<1>2. CASE "nick" \in req[b].columns /\ NickTaken(req[b].entity.nick, req[b].user)
  <2>1. Ends(b) /\ UNCHANGED <<users, edited>>
    BY <1>2 DEF WriteUser
  <2> QED
    BY <1>1, <2>1, AtTurn, Ended
<1>3. CASE ~("nick" \in req[b].columns /\ NickTaken(req[b].entity.nick, req[b].user))
  BY <1>1, <1>3, WrittenInv DEF WriteUser
<1> QED
  BY <1>2, <1>3

LEMMA CrashInv ==
  ASSUME AccountsInv, Crash PROVE AccountsInv'
<1>1. /\ UNCHANGED <<users, channels, token, asked, edited, edits>>
      /\ faults' \in 0 .. MaxFaults
      /\ req' = [b \in Browsers |-> Idle]
  BY DEF Crash, tables, history, AccountsInv, TypeOK
<1>2. RequestsSound'
  BY <1>1, IdleForm DEF RequestsSound, SigningSound, EditSound
<1>3. RoomKept'
  <2>1. SigningUp' \subseteq SigningUp
    BY <1>1, IdleForm DEF SigningUp
  <2> QED
    BY <1>1, <2>1, RoomStays, TypeParts DEF AccountsInv, RowsOK
<1>4. TypeOK'
  <2>1. Ids' = Ids /\ Idle \in Requests'
    BY <1>1, IdleForm DEF Ids, Requests
  <2> QED
    BY <1>1, <2>1 DEF AccountsInv, TypeOK
<1> QED
  BY <1>1, <1>2, <1>3, <1>4, SoundStays DEF AccountsInv

LEMMA InvNext == AccountsInv /\ [Next]_vars => AccountsInv'
<1> SUFFICES ASSUME AccountsInv, [Next]_vars PROVE AccountsInv'
  OBVIOUS
<1>1. ASSUME NEW b \in Browsers,
             \/ Register(b) \/ CheckAgain(b) \/ Kakao(b)
             \/ InsertUser(b) \/ InsertUserFails(b) \/ InsertChannel(b) \/ InsertChannelFails(b)
             \/ Login(b) \/ Expire(b) \/ Leave(b)
             \/ EditUser(b) \/ CompareUser(b) \/ WriteUser(b)
      PROVE  AccountsInv'
  BY <1>1, RegisterInv, CheckAgainInv, KakaoInv, InsertUserInv, InsertUserFailsInv, InsertChannelInv,
     InsertChannelFailsInv, LoginInv, ExpireInv, LeaveInv, EditUserInv, CompareUserInv, WriteUserInv
<1>2. CASE UNCHANGED vars
  BY <1>2 DEF vars, tables, history, AccountsInv, TypeOK, RoomKept, SigningUp, RequestsSound, SigningSound,
     EditSound, MailMoved, RowsSound, OneUserPerAccount, SameFormOnce, Ids, Requests
<1> QED
  BY <1>1, <1>2, CrashInv DEF Next

-----------------------------------------------------------------------------
(* Users and their channels.  Channels are never deleted, and a request    *)
(* that owes a channel inserts it, or is stopped by a fault.               *)

ChannelsInv == ToldMeansChannel /\ StrandedByFault

LEMMA ChannelsTurn ==
  ASSUME AccountsInv, ChannelsInv, NEW b \in Browsers, NEW r, Goes(b, r),
         UNCHANGED users, channels \subseteq channels', faults \in Nat, faults' \in Nat, faults <= faults',
         r.pc = "welcome" => r.user \in channels',
         req[b].pc = "channel" => req[b].user \in channels' \/ faults' > 0
  PROVE  ChannelsInv'
<1>1. /\ req'[b] = r
      /\ \A o \in Browsers \ {b} : req'[o] = req[o]
  BY DEF Goes, AccountsInv, TypeOK
<1>2. ToldMeansChannel'
  BY <1>1 DEF ToldMeansChannel, ChannelsInv
<1>3. StrandedByFault'
  <2>1. SUFFICES ASSUME NEW i \in Ids
                 PROVE  \/ i \in channels'
                        \/ faults' > 0
                        \/ \E o \in Browsers : req'[o].pc = "channel" /\ req'[o].user = i
    BY DEF StrandedByFault, Ids
  <2> QED
    BY <1>1 DEF ChannelsInv, StrandedByFault
<1> QED
  BY <1>2, <1>3 DEF ChannelsInv

LEMMA InsertUserChannels ==
  ASSUME AccountsInv, ChannelsInv, NEW b \in Browsers, InsertUser(b) PROVE ChannelsInv'
<1>1. req[b].pc = "user" /\ UNCHANGED <<channels, faults>> /\ faults \in Nat
  BY AtTurn DEF InsertUser
<1>2. CASE NickTaken(req[b].form.nick, 0)
  BY <1>1, <1>2, ChannelsTurn, IdleForm DEF InsertUser, Ends
<1>3. CASE ~NickTaken(req[b].form.nick, 0)
  <2>1. Inserted(req[b]) /\ Goes(b, Joining(Len(users) + 1))
    BY <1>3 DEF InsertUser
  <2>2. Ids' = Ids \union {Len(users) + 1}
    BY <1>1, <2>1, AtTurn, RequestForms DEF Inserted, Ids
  <2>3. /\ req'[b].pc = "channel" /\ req'[b].user = Len(users) + 1
        /\ \A o \in Browsers \ {b} : req'[o] = req[o]
    BY <2>1 DEF Goes, Joining, AccountsInv, TypeOK
  <2>4. ToldMeansChannel'
    BY <1>1, <2>3 DEF ToldMeansChannel, ChannelsInv
  <2>5. StrandedByFault'
    <3>1. SUFFICES ASSUME NEW i \in Ids'
                   PROVE  \/ i \in channels'
                          \/ faults' > 0
                          \/ \E o \in Browsers : req'[o].pc = "channel" /\ req'[o].user = i
      BY DEF StrandedByFault
    <3>2. CASE i \in Ids
      BY <1>1, <2>3, <3>2 DEF ChannelsInv, StrandedByFault
    <3>3. CASE i = Len(users) + 1
      BY <2>3, <3>3
    <3> QED
      BY <2>2, <3>2, <3>3
  <2> QED
    BY <2>4, <2>5 DEF ChannelsInv
<1> QED
  BY <1>2, <1>3

\* After a fault nobody is left stranded by anything else.
LEMMA FaultChannels ==
  ASSUME AccountsInv, ChannelsInv, faults' = faults + 1, channels \subseteq channels',
         \A b \in Browsers : req'[b] = req[b] \/ req'[b] = Idle
  PROVE  ChannelsInv'
<1>1. faults' > 0
  BY DEF AccountsInv, TypeOK
<1> QED
  BY <1>1, IdleForm DEF ChannelsInv, ToldMeansChannel, StrandedByFault

LEMMA WriteUserChannels ==
  ASSUME AccountsInv, ChannelsInv, NEW b \in Browsers, WriteUser(b) PROVE ChannelsInv'
<1>1. req[b].pc = "write" /\ UNCHANGED <<channels, faults>> /\ faults \in Nat
  BY AtTurn DEF WriteUser
<1>2. CASE Ends(b) /\ UNCHANGED users
  BY <1>1, <1>2, ChannelsTurn, IdleForm DEF Ends
<1>3. CASE /\ users' = [users EXCEPT ![req[b].user] = Updated(@, req[b].entity, req[b].columns)]
           /\ req' = [MixedWith(b, req[b].user) EXCEPT ![b] = Idle]
  <2>1. Ids' = Ids
    BY <1>3, AtTurn DEF Ids
  <2>2. \A o \in Browsers :
          /\ req[o].pc \in {"channel", "welcome"} => req'[o] = req[o]
          /\ req'[o].pc = "welcome" => req[o].pc = "welcome"
    <3>1. SUFFICES ASSUME NEW o \in Browsers
                   PROVE  /\ req[o].pc \in {"channel", "welcome"} => req'[o] = req[o]
                          /\ req'[o].pc = "welcome" => req[o].pc = "welcome"
      OBVIOUS
    <3>2. req[o] \in Requests
      BY AtTurn
    <3>3. CASE o = b
      BY <1>1, <1>3, <3>3, IdleForm DEF MixedWith
    <3>4. CASE o # b /\ req[o].pc \in {"compare", "write"} /\ req[o].user = req[b].user
      <4>1. req'[o] = [req[o] EXCEPT !.mixed = TRUE]
        BY <1>3, <3>4 DEF MixedWith
      <4> QED
        BY <3>2, <3>4, <4>1, MixedForm
    <3>5. CASE o # b /\ ~(req[o].pc \in {"compare", "write"} /\ req[o].user = req[b].user)
      BY <1>3, <3>5 DEF MixedWith
    <3> QED
      BY <3>3, <3>4, <3>5
  <2> QED
    BY <1>1, <2>1, <2>2 DEF ChannelsInv, ToldMeansChannel, StrandedByFault
<1> QED
  BY <1>2, <1>3 DEF WriteUser

LEMMA ChannelsNext == AccountsInv /\ ChannelsInv /\ [Next]_vars => ChannelsInv'
<1> SUFFICES ASSUME AccountsInv, ChannelsInv, [Next]_vars PROVE ChannelsInv'
  OBVIOUS
<1> USE IdleForm, ChannelsTurn, AtTurn DEF tables, history
<1>1. ASSUME NEW b \in Browsers, Register(b) PROVE ChannelsInv'
  BY <1>1 DEF Register, Ends, Signing
<1>2. ASSUME NEW b \in Browsers, CheckAgain(b) PROVE ChannelsInv'
  BY <1>2 DEF CheckAgain, Ends, Signing
<1>3. ASSUME NEW b \in Browsers, Kakao(b) PROVE ChannelsInv'
  <2>1. req[b] = Idle /\ UNCHANGED <<users, channels, faults>>
    BY <1>3 DEF Kakao
  <2>2. CASE UNCHANGED req
    BY <2>1, <2>2 DEF ChannelsInv, ToldMeansChannel, StrandedByFault, Ids
  <2>3. CASE \E r : Goes(b, r) /\ r.pc = "user"
    BY <2>1, <2>3
  <2> QED
    BY <1>3, <2>2, <2>3 DEF Kakao, Signing
<1>4. ASSUME NEW b \in Browsers, InsertUserFails(b) PROVE ChannelsInv'
  BY <1>4, FaultChannels DEF InsertUserFails, Ends, Goes, AccountsInv, TypeOK
<1>5. ASSUME NEW b \in Browsers, InsertChannel(b) PROVE ChannelsInv'
  BY <1>5 DEF InsertChannel, Welcome
<1>6. ASSUME NEW b \in Browsers, InsertChannelFails(b) PROVE ChannelsInv'
  BY <1>6, FaultChannels DEF InsertChannelFails, FailureTold, Ends, Goes, AccountsInv, TypeOK
<1>7. ASSUME NEW b \in Browsers, Login(b) \/ Expire(b) PROVE ChannelsInv'
  BY <1>7 DEF Login, Expire, ChannelsInv, ToldMeansChannel, StrandedByFault, Ids
<1>8. ASSUME NEW b \in Browsers, Leave(b) PROVE ChannelsInv'
  BY <1>8 DEF Leave, Ends
<1>9. ASSUME NEW b \in Browsers, EditUser(b) PROVE ChannelsInv'
  BY <1>9 DEF EditUser, Editing
<1>10. ASSUME NEW b \in Browsers, CompareUser(b) PROVE ChannelsInv'
  BY <1>10 DEF CompareUser, Ends, Writing
<1>11. CASE Crash
  BY <1>11, FaultChannels DEF Crash
<1>12. CASE UNCHANGED vars
  BY <1>12 DEF vars, ChannelsInv, ToldMeansChannel, StrandedByFault, Ids
<1> QED
  BY <1>1, <1>2, <1>3, <1>4, <1>5, <1>6, <1>7, <1>8, <1>9, <1>10, <1>11, <1>12,
     InsertUserChannels, WriteUserChannels DEF Next

-----------------------------------------------------------------------------
(* The theorems. *)

\* Every reachable state satisfies the inductive invariant: what the requests
\* remember of the rows is still true, across failed statements and crashes.
THEOREM AccountsInvariant == Spec => []AccountsInv
BY InvInit, InvNext, PTL DEF Spec

\* The state of sign-up, login and profile has its types: requests and tokens
\* name rows that exist, and no more sign-ups start than there is room for.
THEOREM TypeCorrect == Spec => []TypeOK
<1>1. AccountsInv => TypeOK
  BY DEF AccountsInv
<1> QED
  BY <1>1, AccountsInvariant, PTL

\* Two rows of one account mean that the sign-ups overlapped, or that the first
\* user has changed its address since.
THEOREM OneUser == Spec => []OneUserPerAccount
<1>1. AccountsInv => OneUserPerAccount
  BY DEF AccountsInv
<1> QED
  BY <1>1, AccountsInvariant, PTL

\* A form sent twice makes one user: the unique nickname stops the second row.
THEOREM SameForm == Spec => []SameFormOnce
<1>1. AccountsInv => SameFormOnce
  BY DEF AccountsInv
<1> QED
  BY <1>1, AccountsInvariant, PTL

\* The save of a profile writes only what was typed, unless another save of the
\* same profile came in between.
THEOREM EditsOnlyTyped == Spec => []OnlyTyped
<1>1. AccountsInv => OnlyTyped
  BY DEF AccountsInv, RequestsSound, EditSound, OnlyTyped
<1> QED
  BY <1>1, AccountsInvariant, PTL

LEMMA ChannelsInvariant == Spec => []ChannelsInv
<1>1. Init => ChannelsInv
  BY IdleForm DEF Init, ChannelsInv, ToldMeansChannel, StrandedByFault, Ids
<1> QED
  BY <1>1, AccountsInvariant, ChannelsNext, PTL DEF Spec

\* Whoever is told that the sign-up succeeded has a channel.
THEOREM ToldChannel == Spec => []ToldMeansChannel
<1>1. ChannelsInv => ToldMeansChannel
  BY DEF ChannelsInv
<1> QED
  BY <1>1, ChannelsInvariant, PTL

\* Only a failed statement or a crash leaves a user without a channel.
THEOREM Stranded == Spec => []StrandedByFault
<1>1. ChannelsInv => StrandedByFault
  BY DEF ChannelsInv
<1> QED
  BY <1>1, ChannelsInvariant, PTL

=============================================================================
