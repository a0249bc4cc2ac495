------------------------------ MODULE Accounts ------------------------------
(***************************************************************************)
(* Sign-up with an e-mail address or with Kakao, login, the pages behind   *)
(* the token, and the change of a profile: user.service.ts with the        *)
(* handlers and the strategies that call it.                               *)
(*                                                                         *)
(* A sign-up looks for the account, saves the user and then its channel,   *)
(* in separate statements with the event loop between them.  Nothing in    *)
(* the database forbids two users of one e-mail address or one Kakao id:   *)
(* only the nickname is unique.  An action is what a handler does from one *)
(* answer of the database to the next.                                     *)
(*                                                                         *)
(* The column kakaoId ("who") holds the Kakao id, or a hash of the e-mail  *)
(* address typed at registration, for which the address itself stands.     *)
(* Passwords are left out: a login is made with the right one or not, and  *)
(* users who came by Kakao have none.                                      *)
(***************************************************************************)
EXTENDS Naturals, Sequences, FiniteSets, TypeOrm

CONSTANTS
  Mails,     \* e-mail addresses
  KakaoIds,  \* ids at Kakao
  Nicks,     \* nicknames
  Browsers,  \* clients, with one request each at a time
  None,      \* NULL
  MaxUsers,  \* rows of users: bounds the model
  MaxEdits,  \* changes of a profile: bounds the model
  MaxFaults  \* failed statements and crashes: bounds the model

ASSUME AccountSets ==
  /\ IsFiniteSet(Browsers)
  /\ Mails \intersect KakaoIds = {}
  /\ None \notin Mails \union KakaoIds \union Nicks
ASSUME AccountBounds == MaxUsers \in Nat /\ MaxEdits \in Nat /\ MaxFaults \in Nat

VARIABLES
  users,     \* the table users: the row with userId i is users[i]
  channels,  \* the users who have a row in channels
  token,     \* per browser, the user in its Authorization cookie, 0 without
  req,       \* per browser, its request
  edits,     \* changes of a profile so far
  faults,    \* failed statements and crashes so far
  asked,     \* per row, what its sign-up found and asked for: history
  edited     \* pairs of a row and a column that has been updated: history

history == <<asked, edited, edits>>
tables == <<users, channels>>
vars == <<users, channels, token, req, edits, faults, asked, edited>>

Rows == [who : Mails \union KakaoIds, mail : Mails \union {None}, nick : Nicks \union {None}]
Columns == {"who", "mail", "nick"}

\* Requests: a sign-up that checks once more, saves the user, saves the
\* channel; the welcome it ends with; an edit that compares, and writes.
Idle == [pc |-> "idle"]
Signing(pc, form, since) == [pc |-> pc, form |-> form, since |-> since]
Joining(i) == [pc |-> "channel", user |-> i]
Editing(i, entity, typed) ==
  [pc |-> "compare", user |-> i, entity |-> entity, typed |-> typed, mixed |-> FALSE]
Writing(r, columns) ==
  [pc |-> "write", user |-> r.user, entity |-> r.entity, typed |-> r.typed,
   mixed |-> r.mixed, columns |-> columns]
Welcome(i) == [pc |-> "welcome", user |-> i]

Init ==
  /\ users = <<>>
  /\ channels = {}
  /\ token = [b \in Browsers |-> 0]
  /\ req = [b \in Browsers |-> Idle]
  /\ edits = 0
  /\ faults = 0
  /\ asked = <<>>
  /\ edited = {}

-----------------------------------------------------------------------------
(* Helpers. *)

Ids == DOMAIN users
WithMail(mail) == {i \in Ids : users[i].mail = mail}
WithWho(who) == {i \in Ids : users[i].who = who}

\* The unique index of nickname, which ignores NULL (mutant: without it).
NoIndex(nick, i) == FALSE
NickTaken(nick, i) == nick # None /\ \E j \in Ids \ {i} : users[j].nick = nick

Goes(b, r) == req' = [req EXCEPT ![b] = r]
Ends(b) == Goes(b, Idle)

\* The cookie with the token of this user, which the answer sets.
Token(b, i) == token' = [token EXCEPT ![b] = i]

\* A sign-up may still insert a row.
SigningUp == {b \in Browsers : req[b].pc \in {"check", "user"}}
RoomForUser == Len(users) + Cardinality(SigningUp) < MaxUsers

Form(who, mail, nick) == [who |-> who, mail |-> mail, nick |-> nick]

\* What Kakao says of a user: no address, and not always a nickname.
KakaoForm(who, nick) == Form(who, None, nick)

\* The fields of a profile that were sent.
Typed(nick, mail) ==
  {c \in Columns : \/ c = "nick" /\ nick # None
                   \/ c = "mail" /\ mail # None}

-----------------------------------------------------------------------------
(* Sign-up. *)

\* POST /api/user/register: the controller looks for the e-mail address.  The
\* nickname may be missing; without an address or a password nothing is saved.
Register(b) ==
  \E mail \in Mails, nick \in Nicks \union {None} :
    /\ req[b] = Idle /\ RoomForUser
    /\ IF WithMail(mail) # {}
       THEN Ends(b)  \* 409
       ELSE Goes(b, Signing("check", Form(mail, mail, nick), Len(users)))
    /\ UNCHANGED <<tables, token, faults, history>>

\* UserService.register looks again, then spends a while on the hash.
CheckAgain(b) ==
  /\ req[b].pc = "check"
  /\ IF WithMail(req[b].form.mail) # {}
     THEN Ends(b)  \* 409
     ELSE Goes(b, Signing("user", req[b].form, req[b].since))
  /\ UNCHANGED <<tables, token, faults, history>>

\* The callback of Kakao: a known user is signed in, a new one is made.  The
\* profile may have no nickname.  (mutant: looks at the users with a channel.)
KnownWithChannel(who) == WithWho(who) \intersect channels
Known(who) == WithWho(who)

Kakao(b) ==
  \E who \in KakaoIds, nick \in Nicks \union {None} :
    /\ req[b] = Idle
    /\ \/ \E i \in Known(who) :
            /\ Token(b, i)
            /\ UNCHANGED req
       \/ /\ Known(who) = {} /\ RoomForUser
          /\ Goes(b, Signing("user", KakaoForm(who, nick), Len(users)))
          /\ UNCHANGED token
    /\ UNCHANGED <<tables, faults, history>>

\* The rows of users after an insert, and what is remembered of it.
Inserted(r) ==
  /\ users' = Append(users, r.form)
  /\ asked' = Append(asked, [since |-> r.since, nick |-> r.form.nick])

\* userRepository.save of the new user; a nickname in use is answered 503.
InsertUser(b) ==
  /\ req[b].pc = "user"
  /\ IF NickTaken(req[b].form.nick, 0)
     THEN Ends(b) /\ UNCHANGED <<users, asked>>
     ELSE Inserted(req[b]) /\ Goes(b, Joining(Len(users) + 1))
  /\ UNCHANGED <<channels, token, faults, edited, edits>>

\* The statement fails, or its answer is lost after it was carried out.
InsertUserFails(b) ==
  /\ req[b].pc = "user" /\ faults < MaxFaults
  /\ faults' = faults + 1
  /\ \/ UNCHANGED <<users, asked>>
     \/ ~NickTaken(req[b].form.nick, 0) /\ Inserted(req[b])
  /\ Ends(b)
  /\ UNCHANGED <<channels, token, edited, edits>>

\* Who is signed in by the sign-up: a Kakao user gets a token, a registered
\* one is sent to the login form.  (mutant: the token is for the kakaoId.)
SignedInByWho(b, i) ==
  IF users[i].who \in KakaoIds THEN Token(b, users[i].who) ELSE UNCHANGED token
SignedIn(b, i) ==
  IF users[i].who \in KakaoIds THEN Token(b, i) ELSE UNCHANGED token

\* channelRepository.save of the new user's channel.  (mutant: the answer does
\* not wait for it.)
InsertChannelLater(b) ==
  /\ req[b].pc = "channel"
  /\ SignedIn(b, req[b].user)
  /\ Goes(b, Welcome(req[b].user))
  /\ UNCHANGED <<tables, faults, history>>
InsertChannel(b) ==
  /\ req[b].pc = "channel"
  /\ channels' = channels \union {req[b].user}
  /\ SignedIn(b, req[b].user)
  /\ Goes(b, Welcome(req[b].user))
  /\ UNCHANGED <<users, faults, history>>

\* It fails, or its answer is lost.  The user stays.  (mutant: the error is
\* swallowed, as everywhere else in user.service.ts.)
FailureSwallowed(b) == Goes(b, Welcome(req[b].user))
FailureTold(b) == Ends(b)
InsertChannelFails(b) ==
  /\ req[b].pc = "channel" /\ faults < MaxFaults
  /\ faults' = faults + 1
  /\ \E done \in {{}, {req[b].user}} : channels' = channels \union done
  /\ FailureTold(b)
  /\ UNCHANGED <<users, token, history>>

-----------------------------------------------------------------------------
(* Login and the profile. *)

\* POST /api/auth/login with the right password finds one of the rows with that
\* address and signs a token for it.  No row and a wrong password are answered
\* 401, a user without a password 500, and change nothing.
Login(b) ==
  \E i \in Ids :
    /\ req[b] = Idle
    /\ users[i].mail # None /\ users[i].who \in Mails
    /\ Token(b, i)
    /\ UNCHANGED <<tables, req, faults, history>>

\* The entity to save: what was typed, else what was found (mutant: what was
\* typed).
EntityTyped(row, nick, mail) == [row EXCEPT !.nick = nick, !.mail = mail]
EntityOf(row, nick, mail) ==
  [row EXCEPT !.nick = IF nick # None THEN nick ELSE row.nick,
              !.mail = IF mail # None THEN mail ELSE row.mail]

\* PUT /api/user/:id, without a token: finds the user and sets the columns that were sent.
EditUser(b) ==
  \E i \in Ids, nick \in Nicks \union {None}, mail \in Mails \union {None} :
    /\ req[b] = Idle /\ edits < MaxEdits
    /\ edits' = edits + 1
    /\ Goes(b, Editing(i, EntityOf(users[i], nick, mail), Typed(nick, mail)))
    /\ UNCHANGED <<tables, token, faults, asked, edited>>

\* save compares the entity with the row as it is now.
CompareUser(b) ==
  LET columns == Differing(req[b].entity, users[req[b].user]) IN
  /\ req[b].pc = "compare"
  /\ IF columns = {} THEN Ends(b)
     ELSE Goes(b, Writing(req[b], columns))
  /\ UNCHANGED <<tables, token, faults, history>>

\* The other edits of the user under way will mix with this one.
MixedWith(b, i) ==
  [o \in Browsers |-> IF o # b /\ req[o].pc \in {"compare", "write"} /\ req[o].user = i
                      THEN [req[o] EXCEPT !.mixed = TRUE] ELSE req[o]]

\* ... and updates the columns that differ; an error, such as a nickname in
\* use, is swallowed.
WriteUser(b) ==
  LET r == req[b] IN
  /\ r.pc = "write"
  /\ IF "nick" \in r.columns /\ NickTaken(r.entity.nick, r.user)
     THEN Ends(b) /\ UNCHANGED <<users, edited>>
     ELSE /\ users' = [users EXCEPT ![r.user] = Updated(@, r.entity, r.columns)]
          /\ edited' = edited \union ({r.user} \X r.columns)
          /\ req' = [MixedWith(b, r.user) EXCEPT ![b] = Idle]
  /\ UNCHANGED <<channels, token, faults, asked, edits>>

-----------------------------------------------------------------------------
(* Around the handlers. *)

\* The user reads the answer and goes on.
Leave(b) ==
  /\ req[b].pc = "welcome"
  /\ Ends(b)
  /\ UNCHANGED <<tables, token, faults, history>>

\* A token is good for a day.
Expire(b) ==
  /\ token[b] # 0
  /\ Token(b, 0)
  /\ UNCHANGED <<tables, req, faults, history>>

\* Node stops: the requests under way are lost, tables and cookies stay.
Crash ==
  /\ faults < MaxFaults
  /\ faults' = faults + 1
  /\ req' = [b \in Browsers |-> Idle]
  /\ UNCHANGED <<tables, token, history>>

Next ==
  \/ Crash
  \/ \E b \in Browsers :
       \/ Register(b) \/ CheckAgain(b) \/ Kakao(b)
       \/ InsertUser(b) \/ InsertUserFails(b) \/ InsertChannel(b) \/ InsertChannelFails(b)
       \/ Login(b) \/ Expire(b) \/ Leave(b)
       \/ EditUser(b) \/ CompareUser(b) \/ WriteUser(b)

Spec == Init /\ [][Next]_vars

-----------------------------------------------------------------------------
(* What holds. *)

Requests ==
  {Idle}
  \union [pc : {"check", "user"}, form : Rows, since : 0 .. MaxUsers]
  \union [pc : {"channel"}, user : Ids]
  \union [pc : {"compare"}, user : Ids, entity : Rows, typed : SUBSET Columns,
          mixed : BOOLEAN]
  \union [pc : {"write"}, user : Ids, entity : Rows, typed : SUBSET Columns,
          mixed : BOOLEAN, columns : SUBSET Columns]
  \union [pc : {"welcome"}, user : Ids]

\* The state has its types: every request and every token names a row that
\* exists, and the rows fit their columns.
TypeOK ==
  /\ users \in Seq(Rows) /\ Len(users) <= MaxUsers
  /\ channels \subseteq Ids
  /\ token \in [Browsers -> {0} \union Ids]
  /\ req \in [Browsers -> Requests]
  /\ edits \in 0 .. MaxEdits /\ faults \in 0 .. MaxFaults
  /\ asked \in Seq([since : 0 .. MaxUsers, nick : Nicks \union {None}])
  /\ Len(asked) = Len(users)
  /\ edited \subseteq Ids \X Columns

\* Whoever is told that the sign-up succeeded (201, or the token of a new
\* Kakao user) has a channel: the my-page of a welcomed user never fails.
ToldMeansChannel ==
  \A b \in Browsers :
    req[b].pc = "welcome" => req[b].user \in channels

\* A user is left without a channel, which no request ever repairs, only when
\* a statement failed or node stopped: the user and the channel are saved one
\* after the other without a transaction.
StrandedByFault ==
  \A i \in Ids :
    \/ i \in channels
    \/ faults > 0
    \/ \E b \in Browsers : req[b].pc = "channel" /\ req[b].user = i

\* Two users have one e-mail address of registration or one Kakao id only if
\* their sign-ups overlapped, the second having looked before the first was
\* saved, or if the first has changed its address meanwhile.
OneUserPerAccount ==
  \A i, j \in Ids :
    i < j /\ users[i].who = users[j].who =>
      asked[j].since < i \/ (users[i].who \in Mails /\ <<i, "mail">> \in edited)

\* A form sent twice makes one user, overlapping or not, unless the first has
\* changed its nickname in between: the unique nickname stops the second one.
\* A sign-up without a nickname has no such protection.
SameFormOnce ==
  \A i, j \in Ids :
    /\ i < j /\ users[i].who = users[j].who
    /\ asked[i].nick = asked[j].nick /\ asked[i].nick # None
    => <<i, "nick">> \in edited

\* The update of a profile writes nothing but what was typed, unless another
\* edit of the same user was saved while it was under way: then it may write
\* back an older nickname or address that it never showed or asked for.
OnlyTyped ==
  \A b \in Browsers :
    req[b].pc = "write" /\ ~req[b].mixed => req[b].columns \subseteq req[b].typed

=============================================================================
