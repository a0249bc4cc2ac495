-------------------------- MODULE HomePage_proofs --------------------------
(***************************************************************************)
(* Proofs about HomePage, for every finite set of channels and every value *)
(* of the bounds.                                                          *)
(***************************************************************************)
EXTENDS HomePage, TLAPS

USE HomeSets, HomeBounds

-----------------------------------------------------------------------------
(* The inductive invariant. *)

Pcs == {"idle", "listed", "walk", "ask", "served", "refused"}
Counts == UNION {[D -> -1 .. MaxViewers] : D \in SUBSET Channels}
Homes == [pc : Pcs, listed : SUBSET Channels, at : Channels \union {None}, emptied : BOOLEAN,
          passed : SUBSET Channels, counts : Counts]

\* The types, with the request as the record it is.
Types ==
  /\ ready \in BOOLEAN
  /\ live \subseteq Channels /\ streamer \subseteq Channels
  /\ viewers \in [Channels -> 0 .. MaxViewers]
  /\ home \in Homes
  /\ seen \in Seen
  /\ moves \in 0 .. MaxMoves

\* What the history has seen contains what is the case now.
SeenNow ==
  Under => /\ Channels \ live \subseteq seen.ended
           /\ Channels \ streamer \subseteq seen.out
           /\ \A c \in Channels : seen.least[c] <= viewers[c] /\ viewers[c] <= seen.most[c]

\* The room the walk has asked about; one that has emptied had no viewer and
\* no streamer at some moment.
AtRoom ==
  /\ home.at # None <=> home.pc = "ask"
  /\ home.emptied => /\ home.pc = "ask"
                     /\ seen.least[home.at] = 0 /\ home.at \in seen.out

\* The numbers taken so far.
NumberSound(c) ==
  /\ home.counts[c] <= seen.most[c]
  /\ home.counts[c] >= seen.least[c] - 1
  /\ c \notin seen.out => home.counts[c] >= seen.least[c]
NumbersSound ==
  /\ home.pc \in {"idle", "listed"} => DOMAIN home.counts = {} /\ home.passed = {}
  /\ Under \/ home.pc = "served" => \A c \in DOMAIN home.counts : NumberSound(c)

\* Every room passed by has its number, unless a statement failed.
PassedCounted == Under /\ ~seen.failed => home.passed \subseteq DOMAIN home.counts

HomeInv ==
  /\ Types
  /\ SeenNow
  /\ AtRoom
  /\ NumbersSound
  /\ PassedCounted
  /\ RefusedOnly
  /\ EveryRoomCounted

-----------------------------------------------------------------------------
(* Records and the functions in them. *)

LEMMA HomeFields ==
  ASSUME NEW h \in Homes
  PROVE  /\ h.pc \in Pcs /\ h.listed \subseteq Channels /\ h.at \in Channels \union {None}
         /\ h.emptied \in BOOLEAN /\ h.passed \subseteq Channels /\ h.counts \in Counts
BY DEF Homes

LEMMA IdleHome ==
  /\ Idle \in Homes
  /\ Idle.pc = "idle" /\ Idle.at = None /\ Idle.emptied = FALSE
  /\ Idle.passed = {} /\ DOMAIN Idle.counts = {}
<1>1. <<>> \in Counts /\ DOMAIN <<>> = {}
  <2>1. <<>> \in [{} -> -1 .. MaxViewers] /\ DOMAIN <<>> = {}
    OBVIOUS
  <2>2. \A D \in SUBSET Channels : \A f \in [D -> -1 .. MaxViewers] : f \in Counts
    BY DEF Counts
  <2> QED
    BY <2>1, <2>2
<1> QED
  BY <1>1 DEF Idle, Homes, Pcs

LEMMA SeenFields ==
  ASSUME NEW s \in Seen
  PROVE  /\ s.ended \subseteq Channels /\ s.out \subseteq Channels
         /\ s.least \in [Channels -> 0 .. MaxViewers] /\ s.most \in [Channels -> 0 .. MaxViewers]
         /\ s.strange \in BOOLEAN /\ s.early \in BOOLEAN /\ s.failed \in BOOLEAN
BY DEF Seen

LEMMA NowSeen ==
  ASSUME live \subseteq Channels, streamer \subseteq Channels, viewers \in [Channels -> 0 .. MaxViewers]
  PROVE  /\ Now \in Seen
         /\ Now.ended = Channels \ live /\ Now.out = Channels \ streamer
         /\ Now.least = viewers /\ Now.most = viewers
BY DEF Now, Seen

\* The numbers with one more.
LEMMA CountsGrow ==
  ASSUME NEW f \in Counts, NEW c \in Channels, NEW n \in -1 .. MaxViewers,
         NEW g, g = [d \in DOMAIN f \union {c} |-> IF d = c THEN n ELSE f[d]]
  PROVE  /\ g \in Counts /\ DOMAIN g = DOMAIN f \union {c}
         /\ g[c] = n /\ \A d \in DOMAIN f \ {c} : g[d] = f[d]
<1> PICK D \in SUBSET Channels : f \in [D -> -1 .. MaxViewers]
  BY DEF Counts
<1>1. g \in [D \union {c} -> -1 .. MaxViewers]
  OBVIOUS
<1> QED
  BY <1>1 DEF Counts

LEMMA CountsType ==
  ASSUME NEW f \in Counts
  PROVE  DOMAIN f \subseteq Channels /\ \A c \in DOMAIN f : f[c] \in -1 .. MaxViewers
BY DEF Counts

-----------------------------------------------------------------------------
(* Steps. *)

LEMMA InvInit == Init => HomeInv
<1> SUFFICES ASSUME Init PROVE HomeInv
  OBVIOUS
<1>1. viewers \in [Channels -> 0 .. MaxViewers] /\ live = {} /\ streamer = {} /\ home = Idle
  BY DEF Init
<1>2. Now \in Seen /\ seen = Now
  BY <1>1, NowSeen DEF Init
<1>3. Types
  <2>1. ready \in BOOLEAN
    BY Zenon DEF Init
  <2>2. moves \in 0 .. MaxMoves
    BY DEF Init
  <2> QED
    BY <1>1, <1>2, <2>1, <2>2, IdleHome DEF Types
<1>4. ~Under /\ home.pc = "idle"
  BY <1>1, IdleHome DEF Under
<1> QED
  BY <1>1, <1>3, <1>4, IdleHome DEF HomeInv, SeenNow, AtRoom, NumbersSound, PassedCounted, RefusedOnly,
     EveryRoomCounted

\* What is left to do for a step of the request, which moves nothing around it.
LEMMA RequestStep ==
  ASSUME HomeInv, UNCHANGED around, moves' \in 0 .. MaxMoves, home' \in Homes, seen' \in Seen,
         SeenNow', AtRoom', NumbersSound', PassedCounted', RefusedOnly', EveryRoomCounted'
  PROVE  HomeInv'
BY DEF HomeInv, Types, around

\* A room with nobody in it has no viewer and no streamer.
LEMMA RoomSize ==
  ASSUME HomeInv, NEW c \in Channels
  PROVE  /\ viewers[c] \in 0 .. MaxViewers
         /\ Size(c) = viewers[c] + (IF c \in streamer THEN 1 ELSE 0)
         /\ c \notin Rooms <=> viewers[c] = 0 /\ c \notin streamer
BY DEF HomeInv, Types, Size, Rooms

\* What the history becomes when something moves around a request under way.
LEMMA SeenMoves ==
  ASSUME HomeInv, Under, Moves, live' \subseteq Channels, streamer' \subseteq Channels,
         viewers' \in [Channels -> 0 .. MaxViewers]
  PROVE  /\ seen' \in Seen
         /\ seen'.ended = seen.ended \union (Channels \ live')
         /\ seen'.out = seen.out \union (Channels \ streamer')
         /\ seen'.early = seen.early /\ seen'.failed = seen.failed
         /\ \A c \in Channels :
              /\ seen'.least[c] \in Nat /\ seen'.most[c] \in Nat
              /\ seen'.least[c] <= seen.least[c] /\ seen.most[c] <= seen'.most[c]
              /\ seen'.least[c] <= viewers'[c] /\ viewers'[c] <= seen'.most[c]
<1> DEFINE ended == seen.ended \union (Channels \ live')
           out == seen.out \union (Channels \ streamer')
           least == [c \in Channels |-> Least(seen.least[c], viewers'[c])]
           most == [c \in Channels |-> Most(seen.most[c], viewers'[c])]
<1>1. seen \in Seen
  BY DEF HomeInv, Types
<1>2. /\ ended \in SUBSET Channels /\ out \in SUBSET Channels
      /\ seen.least \in [Channels -> 0 .. MaxViewers] /\ seen.most \in [Channels -> 0 .. MaxViewers]
  BY <1>1, SeenFields
<1>3. least \in [Channels -> 0 .. MaxViewers] /\ most \in [Channels -> 0 .. MaxViewers]
  BY <1>2 DEF Least, Most
<1>4. seen' = [seen EXCEPT !.ended = ended, !.out = out, !.least = least, !.most = most]
  BY DEF Moves
<1>5. \A c \in Channels :
        /\ least[c] <= seen.least[c] /\ seen.most[c] <= most[c]
        /\ least[c] <= viewers'[c] /\ viewers'[c] <= most[c]
  BY <1>2 DEF Least, Most
<1> HIDE DEF ended, out, least, most
<1>6. /\ seen' \in Seen
      /\ seen'.ended = ended /\ seen'.out = out /\ seen'.least = least /\ seen'.most = most
      /\ seen'.early = seen.early /\ seen'.failed = seen.failed
  BY <1>1, <1>2, <1>3, <1>4 DEF Seen
<1>7. \A c \in Channels : least[c] \in Nat /\ most[c] \in Nat
  BY <1>3
<1> QED
  BY <1>5, <1>6, <1>7 DEF ended, out

\* What the request becomes: it forgets the rooms that are gone.
LEMMA HomeMoves ==
  ASSUME HomeInv, Moves
  PROVE  /\ home' \in Homes
         /\ home'.pc = home.pc /\ home'.listed = home.listed /\ home'.at = home.at
         /\ home'.counts = home.counts /\ home'.passed \subseteq home.passed
         /\ home'.emptied => home.emptied \/ (home.at # None /\ home.at \notin Rooms')
<1> DEFINE p == home.passed \intersect Rooms'
           e == home.emptied \/ (home.at # None /\ home.at \notin Rooms')
<1>1. home \in Homes /\ home.passed \subseteq Channels /\ home.emptied \in BOOLEAN
  BY HomeFields DEF HomeInv, Types
<1>2. p \in SUBSET Channels /\ p \subseteq home.passed
  BY <1>1
<1>3. e \in BOOLEAN
  BY Zenon
<1>4. home' = [home EXCEPT !.passed = p, !.emptied = e]
  BY DEF Moves
<1> HIDE DEF p, e
<1>5. /\ home' \in Homes
      /\ home'.pc = home.pc /\ home'.listed = home.listed /\ home'.at = home.at
      /\ home'.counts = home.counts /\ home'.passed = p /\ home'.emptied = e
  BY <1>1, <1>2, <1>3, <1>4 DEF Homes
<1> QED
  BY <1>2, <1>5 DEF e

\* Broadcasts and sockets come and go.
LEMMA MovesInv ==
  ASSUME HomeInv, Moves, UNCHANGED ready, live' \subseteq Channels, streamer' \subseteq Channels,
         viewers' \in [Channels -> 0 .. MaxViewers]
  PROVE  HomeInv'
<1>1. /\ home' \in Homes
      /\ home'.pc = home.pc /\ home'.listed = home.listed /\ home'.at = home.at
      /\ home'.counts = home.counts /\ home'.passed \subseteq home.passed
      /\ home'.emptied => home.emptied \/ (home.at # None /\ home.at \notin Rooms')
  BY HomeMoves
<1>2. /\ Types /\ AtRoom /\ NumbersSound /\ home \in Homes /\ seen \in Seen /\ home.pc \in Pcs
      /\ home.counts \in Counts
  BY HomeFields DEF HomeInv, Types
<1>3. moves' \in 0 .. MaxMoves
  BY <1>2 DEF Moves, Types
<1>4. CASE Under
  <2>1. /\ seen' \in Seen
        /\ seen'.ended = seen.ended \union (Channels \ live')
        /\ seen'.out = seen.out \union (Channels \ streamer')
        /\ seen'.early = seen.early /\ seen'.failed = seen.failed
        /\ \A c \in Channels :
             /\ seen'.least[c] \in Nat /\ seen'.most[c] \in Nat
             /\ seen'.least[c] <= seen.least[c] /\ seen.most[c] <= seen'.most[c]
             /\ seen'.least[c] <= viewers'[c] /\ viewers'[c] <= seen'.most[c]
    BY <1>4, SeenMoves
  <2>2. /\ Under' /\ home.pc \in {"listed", "walk", "ask"}
        /\ \A c \in Channels : seen.least[c] \in Nat /\ seen.most[c] \in Nat
    BY <1>1, <1>2, <1>4, SeenFields DEF Under
  <2>3. Types'
    BY <1>1, <1>2, <1>3, <2>1 DEF Types
  <2>4. SeenNow'
    BY <2>1 DEF SeenNow
  <2>5. AtRoom'
    <3>1. (home'.at # None) <=> (home'.pc = "ask")
      BY <1>1, <1>2 DEF AtRoom
    <3>2. ASSUME home'.emptied
          PROVE  home'.pc = "ask" /\ seen'.least[home'.at] = 0 /\ home'.at \in seen'.out
      <4>1. CASE home.emptied
        <5>1. home.pc = "ask" /\ seen.least[home.at] = 0 /\ home.at \in seen.out /\ home.at \in Channels
          BY <1>2, <4>1, SeenFields DEF AtRoom
        <5> QED
          BY <1>1, <2>1, <5>1
      <4>2. CASE home.at # None /\ home.at \notin Rooms'
        <5>1. home.at \in Channels /\ home.pc = "ask"
          BY <1>2, <4>2, HomeFields DEF AtRoom
        <5>2. viewers'[home.at] = 0 /\ home.at \notin streamer'
          BY <4>2, <5>1 DEF Rooms, Size
        <5> QED
          BY <1>1, <2>1, <5>1, <5>2
      <4> QED
        BY <1>1, <3>2, <4>1, <4>2
    <3> QED
      BY <3>1, <3>2 DEF AtRoom
  <2>6. NumbersSound'
    <3>1. home'.pc \in {"idle", "listed"} => DOMAIN home'.counts = {} /\ home'.passed = {}
      BY <1>1, <1>2 DEF NumbersSound
    <3>2. ASSUME NEW c \in DOMAIN home.counts PROVE NumberSound(c)'
      <4>1. c \in Channels /\ home.counts[c] \in -1 .. MaxViewers /\ NumberSound(c)
        BY <1>2, <1>4, <3>2, CountsType DEF NumbersSound
      <4> QED
        BY <1>1, <2>1, <2>2, <4>1 DEF NumberSound
    <3> QED
      BY <1>1, <3>1, <3>2 DEF NumbersSound
  <2>7. PassedCounted'
    BY <1>1, <1>4, <2>1 DEF HomeInv, PassedCounted
  <2>8. RefusedOnly' /\ EveryRoomCounted'
    BY <1>1, <2>2 DEF RefusedOnly, EveryRoomCounted
  <2> QED
    BY <2>3, <2>4, <2>5, <2>6, <2>7, <2>8 DEF HomeInv
<1>5. CASE ~Under
  <2>1. home.pc \in {"idle", "served", "refused"} /\ ~Under' /\ home.at = None /\ ~home.emptied
    BY <1>1, <1>2, <1>5 DEF Under, Pcs, AtRoom
  <2>2. seen' \in Seen /\ (home.pc # "idle" => seen' = seen)
    <3>1. Now' \in Seen
      BY DEF Now, Seen
    <3> QED
      BY <1>2, <1>5, <2>1, <3>1 DEF Moves
  <2>3. Types'
    BY <1>1, <1>2, <1>3, <2>2 DEF Types
  <2>4. SeenNow' /\ PassedCounted'
    BY <2>1 DEF SeenNow, PassedCounted
  <2>5. AtRoom'
    BY <1>1, <1>2, <2>1 DEF AtRoom
  <2>6. NumbersSound'
    BY <1>1, <1>2, <2>1, <2>2 DEF NumbersSound, NumberSound
  <2>7. RefusedOnly' /\ EveryRoomCounted'
    BY <1>1, <2>1, <2>2 DEF HomeInv, RefusedOnly, EveryRoomCounted
  <2> QED
    BY <2>3, <2>4, <2>5, <2>6, <2>7 DEF HomeInv
<1> QED
  BY <1>4, <1>5

LEMMA AroundInv ==
  ASSUME HomeInv, NEW c \in Channels,
         \/ GoLive(c) \/ EndLive(c) \/ StreamerEnters(c) \/ StreamerLeaves(c)
         \/ ViewerEnters(c) \/ ViewerLeaves(c)
  PROVE  HomeInv'
<1> USE DEF HomeInv, Types
<1>1. CASE GoLive(c) \/ EndLive(c)
  BY <1>1, MovesInv DEF GoLive, EndLive
<1>2. CASE StreamerEnters(c) \/ StreamerLeaves(c)
  BY <1>2, MovesInv DEF StreamerEnters, StreamerLeaves
<1>3. CASE ViewerEnters(c) \/ ViewerLeaves(c)
  <2>1. viewers' \in [Channels -> 0 .. MaxViewers]
    BY <1>3 DEF ViewerEnters, ViewerLeaves
  <2> QED
    BY <1>3, <2>1, MovesInv DEF ViewerEnters, ViewerLeaves
<1> QED
  BY <1>1, <1>2, <1>3

LEMMA SetServerInv ==
  ASSUME HomeInv, SetServer PROVE HomeInv'
BY DEF HomeInv, SetServer, Types, SeenNow, AtRoom, NumbersSound, NumberSound, PassedCounted, RefusedOnly,
   EveryRoomCounted, Under

\* The history of a request that begins.
LEMMA FreshSeen ==
  ASSUME HomeInv, NEW s, s = Now
  PROVE  /\ s \in Seen
         /\ s.ended = Channels \ live /\ s.out = Channels \ streamer
         /\ s.least = viewers /\ s.most = viewers
BY NowSeen DEF HomeInv, Types

LEMMA StrangeQueryInv ==
  ASSUME HomeInv, StrangeQuery PROVE HomeInv'
<1> DEFINE s == Now
<1>1. /\ home.pc = "idle" /\ UNCHANGED around /\ UNCHANGED moves
      /\ home' = [home EXCEPT !.pc = "refused"]
      /\ seen' = [s EXCEPT !.strange = TRUE]
  BY DEF StrangeQuery
<1>2. Types /\ AtRoom /\ home \in Homes /\ s \in Seen
  BY FreshSeen DEF HomeInv, Types
<1>3. /\ home' \in Homes /\ home'.pc = "refused"
      /\ home'.at = home.at /\ home'.emptied = home.emptied
  BY <1>1, <1>2 DEF Homes, Pcs
<1> HIDE DEF s
<1>4. seen' \in Seen /\ seen'.strange = TRUE
  BY <1>1, <1>2 DEF Seen
<1>5. moves' \in 0 .. MaxMoves
  BY <1>1, <1>2 DEF Types
<1>6. AtRoom'
  BY <1>1, <1>2, <1>3 DEF AtRoom
<1> QED
  BY <1>1, <1>3, <1>4, <1>5, <1>6, RequestStep
     DEF SeenNow, Under, NumbersSound, PassedCounted, RefusedOnly, EveryRoomCounted

LEMMA OpenInv ==
  ASSUME HomeInv, Open PROVE HomeInv'
<1>1. /\ home.pc = "idle" /\ home' = [home EXCEPT !.pc = "listed", !.listed = live]
      /\ seen' = Now /\ UNCHANGED around /\ UNCHANGED moves
  BY DEF Open
<1>2. Types /\ AtRoom /\ NumbersSound
  BY DEF HomeInv
<1>3. /\ home' \in Homes /\ home'.pc = "listed"
      /\ home'.at = home.at /\ home'.emptied = home.emptied
      /\ home'.passed = home.passed /\ home'.counts = home.counts
  BY <1>1, <1>2 DEF Types, Homes, Pcs
<1>4. /\ seen' \in Seen
      /\ seen'.ended = Channels \ live /\ seen'.out = Channels \ streamer
      /\ seen'.least = viewers /\ seen'.most = viewers
  BY <1>1, FreshSeen
<1>5. viewers \in [Channels -> 0 .. MaxViewers] /\ UNCHANGED <<live, streamer, viewers>> /\ moves \in 0 .. MaxMoves
  BY <1>1, <1>2 DEF Types, around
<1>6. SeenNow'
  BY <1>4, <1>5 DEF SeenNow
<1>7. AtRoom'
  BY <1>1, <1>2, <1>3 DEF AtRoom
<1>8. NumbersSound'
  BY <1>1, <1>2, <1>3 DEF NumbersSound
<1>9. PassedCounted' /\ RefusedOnly' /\ EveryRoomCounted'
  BY <1>1, <1>2, <1>3 DEF NumbersSound, PassedCounted, RefusedOnly, EveryRoomCounted
<1> QED
  BY <1>1, <1>3, <1>4, <1>5, <1>6, <1>7, <1>8, <1>9, RequestStep

\* The second read of the live rows: if there are none, all that were listed
\* have ended since.
LEMMA FindLiveInv ==
  ASSUME HomeInv, FindLive PROVE HomeInv'
<1>1. /\ home.pc = "listed" /\ UNCHANGED <<around, seen, moves>>
      /\ home' = [home EXCEPT !.pc = IF ~NoneLive THEN "walk"
                                     ELSE IF home.listed = {} THEN "served" ELSE "refused"]
  BY DEF FindLive
<1>2. Types /\ SeenNow /\ AtRoom /\ NumbersSound /\ home \in Homes /\ seen \in Seen
  BY DEF HomeInv, Types
<1>3. /\ home' \in Homes
      /\ home'.pc = IF ~NoneLive THEN "walk" ELSE IF home.listed = {} THEN "served" ELSE "refused"
      /\ home'.at = home.at /\ home'.emptied = home.emptied /\ home'.listed = home.listed
      /\ home'.passed = home.passed /\ home'.counts = home.counts
  BY <1>1, <1>2 DEF Homes, Pcs
<1>4. Under /\ DOMAIN home.counts = {} /\ home.passed = {} /\ home.listed \subseteq Channels
  BY <1>1, <1>2, HomeFields DEF Under, NumbersSound
<1>5. UNCHANGED <<live, streamer, viewers>> /\ moves' \in 0 .. MaxMoves
  BY <1>1, <1>2 DEF around, Types
<1>6. SeenNow' /\ NumbersSound' /\ PassedCounted'
  BY <1>1, <1>2, <1>3, <1>4, <1>5 DEF SeenNow, NumbersSound, PassedCounted
<1>7. AtRoom'
  BY <1>1, <1>2, <1>3 DEF AtRoom
<1>8. RefusedOnly'
  BY <1>1, <1>2, <1>3, <1>4 DEF RefusedOnly, NoneLive, SeenNow
<1>9. EveryRoomCounted'
  BY <1>3 DEF EveryRoomCounted
<1> QED
  BY <1>1, <1>2, <1>3, <1>5, <1>6, <1>7, <1>8, <1>9, RequestStep

LEMMA TooEarlyInv ==
  ASSUME HomeInv, TooEarly PROVE HomeInv'
<1>1. /\ home.pc = "listed" /\ UNCHANGED around /\ UNCHANGED moves
      /\ home' = [home EXCEPT !.pc = "refused"]
      /\ seen' = [seen EXCEPT !.early = TRUE]
  BY DEF TooEarly
<1>2. Types /\ AtRoom /\ home \in Homes /\ seen \in Seen
  BY DEF HomeInv, Types
<1>3. /\ home' \in Homes /\ home'.pc = "refused"
      /\ home'.at = home.at /\ home'.emptied = home.emptied
  BY <1>1, <1>2 DEF Homes, Pcs
<1>4. seen' \in Seen /\ seen'.early = TRUE
  BY <1>1, <1>2 DEF Seen
<1>5. moves' \in 0 .. MaxMoves
  BY <1>1, <1>2 DEF Types
<1>6. AtRoom'
  BY <1>1, <1>2, <1>3 DEF AtRoom
<1> QED
  BY <1>1, <1>3, <1>4, <1>5, <1>6, RequestStep
     DEF SeenNow, Under, NumbersSound, PassedCounted, RefusedOnly, EveryRoomCounted

LEMMA FailInv ==
  ASSUME HomeInv, Fail PROVE HomeInv'
<1> DEFINE s == IF home.pc = "idle" THEN Now ELSE seen
<1>1. /\ home.pc \in {"idle", "listed"} /\ UNCHANGED around /\ UNCHANGED moves
      /\ home' = [home EXCEPT !.pc = "refused"]
      /\ seen' = [s EXCEPT !.failed = TRUE]
  BY DEF Fail
<1>2. Types /\ AtRoom /\ home \in Homes /\ s \in Seen
  BY FreshSeen DEF HomeInv, Types
<1>3. /\ home' \in Homes /\ home'.pc = "refused"
      /\ home'.at = home.at /\ home'.emptied = home.emptied
  BY <1>1, <1>2 DEF Homes, Pcs
<1> HIDE DEF s
<1>4. seen' \in Seen /\ seen'.failed = TRUE
  BY <1>1, <1>2 DEF Seen
<1>5. moves' \in 0 .. MaxMoves
  BY <1>1, <1>2 DEF Types
<1>6. AtRoom'
  BY <1>1, <1>2, <1>3 DEF AtRoom
<1> QED
  BY <1>1, <1>3, <1>4, <1>5, <1>6, RequestStep
     DEF SeenNow, Under, NumbersSound, PassedCounted, RefusedOnly, EveryRoomCounted

LEMMA LeaveInv ==
  ASSUME HomeInv, Leave PROVE HomeInv'
<1>1. /\ home' = Idle /\ seen' = Now /\ moves' = 0 /\ UNCHANGED around
  BY DEF Leave
<1>2. seen' \in Seen
  BY <1>1, FreshSeen
<1>3. moves' \in 0 .. MaxMoves
  BY <1>1
<1>4. home' \in Homes /\ AtRoom' /\ NumbersSound'
  BY <1>1, IdleHome DEF AtRoom, NumbersSound, Under
<1> QED
  BY <1>1, <1>2, <1>3, <1>4, IdleHome, RequestStep
     DEF SeenNow, Under, PassedCounted, RefusedOnly, EveryRoomCounted

LEMMA AskRoomInv ==
  ASSUME HomeInv, NEW c \in Channels, AskRoom(c) PROVE HomeInv'
<1>1. /\ home.pc = "walk" /\ UNCHANGED <<around, seen, moves>>
      /\ home' = [home EXCEPT !.pc = "ask", !.at = c, !.emptied = FALSE]
  BY DEF AskRoom
<1>2. Types /\ SeenNow /\ AtRoom /\ NumbersSound /\ PassedCounted /\ home \in Homes /\ seen \in Seen
  BY DEF HomeInv, Types
<1>3. /\ home' \in Homes /\ home'.pc = "ask" /\ home'.at = c /\ home'.emptied = FALSE
      /\ home'.passed = home.passed /\ home'.counts = home.counts
  BY <1>1, <1>2 DEF Homes, Pcs
<1>4. UNCHANGED <<live, streamer, viewers, seen>> /\ moves' \in 0 .. MaxMoves /\ Under /\ Under'
  BY <1>1, <1>2, <1>3 DEF around, Types, Under
<1>5. SeenNow' /\ PassedCounted'
  BY <1>2, <1>3, <1>4 DEF SeenNow, PassedCounted
<1>6. AtRoom'
  BY <1>3 DEF AtRoom
<1>7. NumbersSound'
  BY <1>2, <1>3, <1>4 DEF NumbersSound, NumberSound
<1>8. RefusedOnly' /\ EveryRoomCounted'
  BY <1>3 DEF RefusedOnly, EveryRoomCounted
<1> QED
  BY <1>1, <1>2, <1>3, <1>4, <1>5, <1>6, <1>7, <1>8, RequestStep

\* The number of the room that was asked about: one less than its sockets, or
\* -1 of a room that has emptied, which had no viewer and no streamer then.
LEMMA CountSound ==
  ASSUME HomeInv, home.pc = "ask"
  PROVE  /\ home.at \in Channels
         /\ CountOf(home.at) \in -1 .. MaxViewers
         /\ CountOf(home.at) <= seen.most[home.at]
         /\ CountOf(home.at) >= seen.least[home.at] - 1
         /\ home.at \notin seen.out => CountOf(home.at) >= seen.least[home.at]
<1> DEFINE c == home.at
<1>1. /\ Types /\ home \in Homes /\ seen \in Seen /\ c \in Channels
      /\ home.emptied => seen.least[c] = 0 /\ c \in seen.out
  BY HomeFields DEF HomeInv, Types, AtRoom
<1>2. /\ viewers[c] \in 0 .. MaxViewers
      /\ seen.least[c] \in 0 .. MaxViewers /\ seen.most[c] \in 0 .. MaxViewers
      /\ seen.least[c] <= viewers[c] /\ viewers[c] <= seen.most[c]
      /\ c \notin seen.out => c \in streamer
  BY <1>1, SeenFields DEF Types, HomeInv, SeenNow, Under
<1>3. CASE home.emptied
  BY <1>1, <1>2, <1>3 DEF CountOf
<1>4. CASE ~home.emptied
  <2>1. CountOf(c) = viewers[c] + (IF c \in streamer THEN 1 ELSE 0) - 1
    BY <1>2, <1>4 DEF CountOf, Size
  <2> QED
    BY <1>1, <1>2, <2>1
<1> QED
  BY <1>3, <1>4

LEMMA CountRoomInv ==
  ASSUME HomeInv, CountRoom PROVE HomeInv'
<1> DEFINE c == home.at
           p == home.passed \union (IF home.emptied THEN {} ELSE {c})
           k == [d \in DOMAIN home.counts \union {c} |-> IF d = c THEN CountOf(c) ELSE home.counts[d]]
<1>1. home.pc = "ask" /\ UNCHANGED around /\ UNCHANGED moves
  BY DEF CountRoom
<1>2. Types /\ SeenNow /\ AtRoom /\ NumbersSound /\ PassedCounted /\ home \in Homes /\ seen \in Seen
  BY DEF HomeInv, Types
<1>3. /\ c \in Channels /\ CountOf(c) \in -1 .. MaxViewers
      /\ CountOf(c) <= seen.most[c] /\ CountOf(c) >= seen.least[c] - 1
      /\ c \notin seen.out => CountOf(c) >= seen.least[c]
  BY <1>1, CountSound
<1>4. p \in SUBSET Channels /\ p \subseteq home.passed \union {c} /\ home.counts \in Counts
  BY <1>2, <1>3, HomeFields
<1>5. /\ k \in Counts /\ DOMAIN k = DOMAIN home.counts \union {c}
      /\ k[c] = CountOf(c) /\ \A d \in DOMAIN home.counts \ {c} : k[d] = home.counts[d]
  BY <1>3, <1>4, CountsGrow
<1>6. UNCHANGED <<live, streamer, viewers>> /\ moves' \in 0 .. MaxMoves /\ Under
  BY <1>1, <1>2 DEF around, Types, Under
<1>7. \A d \in DOMAIN home.counts : NumberSound(d)
  BY <1>2, <1>6 DEF NumbersSound
<1>8. CASE /\ home' = [home EXCEPT !.pc = "walk", !.at = None, !.passed = p, !.emptied = FALSE, !.counts = k]
           /\ UNCHANGED seen
  <2> HIDE DEF p, k, c
  <2>1. /\ home' \in Homes /\ home'.pc = "walk" /\ home'.at = None /\ home'.emptied = FALSE
        /\ home'.passed = p /\ home'.counts = k
    BY <1>2, <1>4, <1>5, <1>8 DEF Homes, Pcs
  <2>2. SeenNow' /\ Under'
    BY <1>2, <1>6, <1>8, <2>1 DEF SeenNow, Under
  <2>3. AtRoom'
    BY <2>1, HomeSets DEF AtRoom
  <2>4. NumbersSound'
    <3>1. ASSUME NEW d \in DOMAIN k PROVE NumberSound(d)'
      <4>1. CASE d = c
        BY <1>3, <1>5, <1>8, <2>1, <4>1 DEF NumberSound
      <4>2. CASE d # c
        BY <1>5, <1>7, <1>8, <2>1, <4>2 DEF NumberSound
      <4> QED
        BY <4>1, <4>2
    <3> QED
      BY <2>1, <3>1 DEF NumbersSound
  <2>5. PassedCounted'
    BY <1>2, <1>4, <1>5, <1>6, <1>8, <2>1 DEF PassedCounted
  <2>6. RefusedOnly' /\ EveryRoomCounted'
    BY <2>1 DEF RefusedOnly, EveryRoomCounted
  <2> QED
    BY <1>1, <1>2, <1>6, <1>8, <2>1, <2>2, <2>3, <2>4, <2>5, <2>6, RequestStep
<1>9. CASE /\ home' = [home EXCEPT !.pc = "walk", !.at = None, !.passed = p, !.emptied = FALSE]
           /\ seen' = [seen EXCEPT !.failed = TRUE]
  <2> HIDE DEF p, k, c
  <2>1. /\ home' \in Homes /\ home'.pc = "walk" /\ home'.at = None /\ home'.emptied = FALSE
        /\ home'.passed = p /\ home'.counts = home.counts
    BY <1>2, <1>4, <1>9 DEF Homes, Pcs
  <2>2. /\ seen' \in Seen /\ seen'.failed = TRUE
        /\ seen'.ended = seen.ended /\ seen'.out = seen.out
        /\ seen'.least = seen.least /\ seen'.most = seen.most
    BY <1>2, <1>9 DEF Seen
  <2>3. SeenNow'
    BY <1>2, <1>6, <2>1, <2>2 DEF SeenNow
  <2>4. AtRoom'
    BY <2>1, HomeSets DEF AtRoom
  <2>5. NumbersSound'
    BY <1>7, <2>1, <2>2 DEF NumbersSound, NumberSound
  <2>6. PassedCounted' /\ RefusedOnly' /\ EveryRoomCounted'
    BY <2>1, <2>2 DEF PassedCounted, RefusedOnly, EveryRoomCounted
  <2> QED
    BY <1>1, <1>6, <2>1, <2>2, <2>3, <2>4, <2>5, <2>6, RequestStep
<1> QED
  BY <1>8, <1>9 DEF CountRoom

\* The walk is over when no room of the Map is left: every room in use is in it.
LEMMA ServeInv ==
  ASSUME HomeInv, Serve PROVE HomeInv'
<1>1. /\ home.pc = "walk" /\ Rooms \subseteq home.passed /\ UNCHANGED <<around, seen, moves>>
      /\ home' = [home EXCEPT !.pc = "served", !.passed = {}]
  BY DEF Serve, AllPassed
<1>2. Types /\ SeenNow /\ AtRoom /\ NumbersSound /\ PassedCounted /\ home \in Homes /\ seen \in Seen
  BY DEF HomeInv, Types
<1>3. /\ home' \in Homes /\ home'.pc = "served" /\ home'.at = home.at /\ home'.emptied = home.emptied
      /\ home'.listed = home.listed /\ home'.passed = {} /\ home'.counts = home.counts
  BY <1>1, <1>2 DEF Homes, Pcs
<1>4. UNCHANGED <<live, streamer, viewers, seen>> /\ moves' \in 0 .. MaxMoves /\ Under /\ ~Under'
  BY <1>1, <1>2, <1>3 DEF around, Types, Under
<1>5. SeenNow' /\ PassedCounted' /\ RefusedOnly'
  BY <1>3, <1>4 DEF SeenNow, PassedCounted, RefusedOnly
<1>6. AtRoom'
  BY <1>1, <1>2, <1>3 DEF AtRoom
<1>7. NumbersSound'
  BY <1>2, <1>3, <1>4 DEF NumbersSound, NumberSound
<1>8. EveryRoomCounted'
  <2>1. SUFFICES ASSUME ~seen.failed, NEW c \in home.listed, c \notin seen.out \/ seen.least[c] > 0
                 PROVE  c \in DOMAIN home.counts
    BY <1>3, <1>4 DEF EveryRoomCounted
  <2>2. /\ c \in Channels /\ viewers[c] \in 0 .. MaxViewers /\ seen.least[c] \in Nat
        /\ c \in streamer \/ viewers[c] > 0
    BY <1>2, <1>4, <2>1, HomeFields, SeenFields DEF Types, SeenNow
  <2>3. c \in Rooms
    BY <2>2, RoomSize
  <2> QED
    BY <1>1, <1>2, <1>4, <2>1, <2>3 DEF PassedCounted
<1> QED
  BY <1>1, <1>2, <1>3, <1>4, <1>5, <1>6, <1>7, <1>8, RequestStep

LEMMA InvNext == HomeInv /\ [Next]_vars => HomeInv'
<1> SUFFICES ASSUME HomeInv, [Next]_vars PROVE HomeInv'
  OBVIOUS
<1>1. CASE UNCHANGED vars
  BY <1>1 DEF vars, around, HomeInv, Types, SeenNow, AtRoom, NumbersSound, NumberSound, PassedCounted,
     RefusedOnly, EveryRoomCounted, Under
<1> QED
  BY <1>1, SetServerInv, StrangeQueryInv, OpenInv, FindLiveInv, TooEarlyInv, CountRoomInv, ServeInv, FailInv, LeaveInv,
     AskRoomInv, AroundInv DEF Next

-----------------------------------------------------------------------------
(* The theorems. *)

\* Every reachable state satisfies the inductive invariant: what the history
\* saw covers the present, and every room passed by has its number.
THEOREM HomeInvariant == Spec => []HomeInv
BY InvInit, InvNext, PTL DEF Spec

\* The request, the rooms and the history have their types; a number is between
\* -1 and the viewers a room can have.
THEOREM HomeTypeCorrect == Spec => []TypeOK
<1>1. HomeInv => TypeOK
  <2>1. SUFFICES ASSUME HomeInv PROVE TypeOK
    OBVIOUS
  <2>2. /\ home.pc \in Pcs /\ home.listed \subseteq Channels /\ home.at \in Channels \union {None}
        /\ home.emptied \in BOOLEAN /\ home.passed \subseteq Channels
        /\ DOMAIN home.counts \subseteq Channels
        /\ \A c \in DOMAIN home.counts : home.counts[c] \in -1 .. MaxViewers
    BY <2>1, HomeFields, CountsType DEF HomeInv, Types
  <2> QED
    BY <2>1, <2>2 DEF HomeInv, Types, TypeOK, Pcs
<1> QED
  BY <1>1, HomeInvariant, PTL

\* The home page is refused for a query without "s", before the server is set,
\* after a failed statement, or when every broadcast it had listed, one at least,
\* ended before they were counted.
THEOREM RefusedForAReason == Spec => []RefusedOnly
<1>1. HomeInv => RefusedOnly
  BY DEF HomeInv
<1> QED
  BY <1>1, HomeInvariant, PTL

\* A number that is shown is one the viewers had while the request ran, but for
\* the one a streamer who was out takes away.
THEOREM NumbersWithinRoom == Spec => []CountWithinRoom
<1>1. HomeInv => CountWithinRoom
  BY DEF HomeInv, NumbersSound, NumberSound, CountWithinRoom
<1> QED
  BY <1>1, HomeInvariant, PTL

\* No listed room that was in use throughout is passed over by the walk.
THEOREM NoRoomPassedOver == Spec => []EveryRoomCounted
<1>1. HomeInv => EveryRoomCounted
  BY DEF HomeInv
<1> QED
  BY <1>1, HomeInvariant, PTL

=============================================================================
