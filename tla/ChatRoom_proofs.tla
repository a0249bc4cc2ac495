-------------------------- MODULE ChatRoom_proofs --------------------------
(***************************************************************************)
(* Proofs about ChatRoom, for every set of users, texts, viewers and       *)
(* handler slots and every value of the bounds.                            *)
(***************************************************************************)
EXTENDS ChatRoom, FiniteSetTheorems, SequenceTheorems, TLAPS

USE RoomSets, RoomBounds

-----------------------------------------------------------------------------
(* The inductive invariant, in parts. *)

TaskTypes ==
  {Idle}
  \union [pc : {"blocked", "recent", "add"}, msg : Contents]
  \union [pc : {"len"}, msg : Contents, id : 1 .. MaxSent]
  \union [pc : {"get", "set"}, user : Users, list : SUBSET Users]
  \union [pc : {"hdel"}]
  \union [pc : {"history"}, viewer : Viewers \union {Nobody}]

\* The messages, and the room promised to the handlers that may still add one.
MessagesOK ==
  /\ sent \in Nat /\ sent + Cardinality(Unsent) <= MaxSent
  /\ cache \in Seq(Contents) /\ Len(cache) <= sent
  /\ blocked \subseteq Users /\ banned \subseteq Users
  /\ task \in [Tasks -> TaskTypes]

\* The handlers at work are the queue, each of them once.
QueueOK ==
  /\ wire \in Seq(Tasks)
  /\ \A i, j \in DOMAIN wire : wire[i] = wire[j] => i = j
  /\ \A t \in Tasks : task[t] # Idle <=> \E i \in DOMAIN wire : wire[i] = t

\* The messages stored and not yet emitted are the newest ones, and they are in
\* the queue in their order.
Pending == {t \in Tasks : Waits(t, "len")}
PendingInOrder ==
  /\ \A t \in Pending : task[t].id <= sent
  /\ \A i, j \in DOMAIN wire :
       i < j /\ wire[i] \in Pending /\ wire[j] \in Pending => task[wire[i]].id < task[wire[j]].id
  /\ \A m \in Emitted, t \in Pending : m < task[t].id

\* The pages: one that is not in the room is empty, and one whose history is
\* still due has live lines only and one handler at work.
PagesOK ==
  /\ joined \in [Viewers -> BOOLEAN] /\ entered \in [Viewers -> BOOLEAN]
  /\ screen \in [Viewers -> Seq(Lines)]
  /\ \A v \in Viewers : entered[v] => joined[v]
  /\ \A v \in Viewers : ~joined[v] => screen[v] = <<>>
  /\ \A v \in Viewers : ~entered[v] => \A i \in DOMAIN screen[v] : screen[v][i].live
  /\ \A t \in Tasks, v \in Viewers : task[t] = Entering(v) => joined[v] /\ ~entered[v]
  /\ \A t, u \in Tasks, v \in Viewers : task[t] = Entering(v) /\ task[u] = Entering(v) => t = u

\* The lines: a live one has been emitted, both kinds are in order, and after
\* the first one no emitted message is missing.
LinesOK(v) ==
  /\ \A i \in DOMAIN screen[v] :
       screen[v][i].id <= sent /\ (screen[v][i].live => screen[v][i].id \in Emitted)
  /\ \A i, j \in DOMAIN screen[v] :
       i < j /\ screen[v][i].live = screen[v][j].live => screen[v][i].id < screen[v][j].id
  /\ \A m \in Emitted : (\E k \in ShownIds(v) : k < m) => m \in ShownIds(v)

RoomInv ==
  /\ MessagesOK
  /\ QueueOK
  /\ PendingInOrder
  /\ PagesOK
  /\ \A v \in Viewers : LinesOK(v)

-----------------------------------------------------------------------------
(* Handlers and the queue. *)

LEMMA TaskForms ==
  ASSUME NEW k \in TaskTypes
  PROVE  /\ k.pc \in {"idle", "blocked", "recent", "add", "len", "get", "set", "hdel", "history"}
         /\ k.pc = "idle" <=> k = Idle
         /\ k.pc \in {"blocked", "recent", "add", "len"} => k.msg \in Contents
         /\ k.pc = "len" => k.id \in 1 .. MaxSent
         /\ k.pc \in {"get", "set"} => k.user \in Users /\ k.list \in SUBSET Users
         /\ k.pc = "history" => k.viewer \in Viewers \union {Nobody} /\ k = Entering(k.viewer)
BY DEF TaskTypes, Idle, Entering

LEMMA NewTasks ==
  /\ Idle \in TaskTypes /\ Idle.pc = "idle"
  /\ \A pc \in {"blocked", "recent", "add"}, m \in Contents :
       Sending(pc, m) \in TaskTypes /\ Sending(pc, m).pc = pc
  /\ \A m \in Contents, id \in 1 .. MaxSent :
       Emitting(m, id) \in TaskTypes /\ Emitting(m, id).pc = "len" /\ Emitting(m, id).id = id
  /\ \A pc \in {"get", "set"}, u \in Users, list \in SUBSET Users :
       Banning(pc, u, list) \in TaskTypes /\ Banning(pc, u, list).pc = pc
  /\ [pc |-> "hdel"] \in TaskTypes
  /\ \A v \in Viewers \union {Nobody} :
       Entering(v) \in TaskTypes /\ Entering(v).pc = "history" /\ Entering(v).viewer = v
BY DEF TaskTypes, Idle, Sending, Emitting, Banning, Entering

\* A handler starts: it queues up behind the others.
LEMMA StartQueue ==
  ASSUME QueueOK, task \in [Tasks -> TaskTypes], NEW t \in Tasks, NEW k, k # Idle, Start(t, k)
  PROVE  /\ QueueOK'
         /\ task[t] = Idle /\ task' = [task EXCEPT ![t] = k]
         /\ Len(wire) \in Nat /\ DOMAIN wire = 1 .. Len(wire)
         /\ DOMAIN wire' = 1 .. Len(wire) + 1
         /\ \A i \in 1 .. Len(wire) : wire'[i] = wire[i]
         /\ wire'[Len(wire) + 1] = t
<1>1. task[t] = Idle /\ task' = [task EXCEPT ![t] = k] /\ wire' = Append(wire, t)
  BY DEF Start
<1>2. /\ wire \in Seq(Tasks) /\ Len(wire) \in Nat /\ DOMAIN wire = 1 .. Len(wire)
      /\ wire' \in Seq(Tasks) /\ DOMAIN wire' = 1 .. Len(wire) + 1
      /\ \A i \in 1 .. Len(wire) : wire'[i] = wire[i]
      /\ wire'[Len(wire) + 1] = t
  BY <1>1 DEF QueueOK
<1>3. \A i \in 1 .. Len(wire) : wire[i] # t
  BY <1>1, <1>2 DEF QueueOK
<1>4. \A i \in DOMAIN wire' : i \in DOMAIN wire \/ i = Len(wire) + 1
  BY <1>2
<1>5. QueueOK'
  <2>1. \A i, j \in DOMAIN wire' : wire'[i] = wire'[j] => i = j
    BY <1>2, <1>3, <1>4 DEF QueueOK
  <2>2. ASSUME NEW u \in Tasks
        PROVE  task'[u] # Idle <=> \E i \in DOMAIN wire' : wire'[i] = u
    <3>1. CASE u = t
      BY <1>1, <1>2, <3>1
    <3>2. CASE u # t
      <4>1. task'[u] = task[u]
        BY <1>1, <3>2
      <4>2. (\E i \in DOMAIN wire' : wire'[i] = u) <=> \E i \in DOMAIN wire : wire[i] = u
        BY <1>2, <1>4, <3>2
      <4> QED
        BY <4>1, <4>2 DEF QueueOK
    <3> QED
      BY <3>1, <3>2
  <2> QED
    BY <1>2, <2>1, <2>2 DEF QueueOK
<1> QED
  BY <1>1, <1>2, <1>5

\* The task whose reply arrives is the first of the queue, and at work.
LEMMA AtReply ==
  ASSUME QueueOK, NEW t \in Tasks, NEW pc, Reply(t, pc)
  PROVE  /\ wire \in Seq(Tasks) /\ Len(wire) \in Nat \ {0} /\ DOMAIN wire = 1 .. Len(wire)
         /\ wire[1] = t /\ task[t].pc = pc /\ task[t] # Idle
         /\ Tail(wire) \in Seq(Tasks) /\ Len(Tail(wire)) = Len(wire) - 1
         /\ \A i \in 1 .. Len(wire) - 1 : Tail(wire)[i] = wire[i + 1]
         /\ \A i \in 2 .. Len(wire) : wire[i] # t
BY DEF QueueOK, Reply

\* ... it sends its next command, behind the others
LEMMA ThenQueue ==
  ASSUME QueueOK, task \in [Tasks -> TaskTypes], NEW t \in Tasks, NEW pc, Reply(t, pc),
         NEW k, k # Idle, Then(t, k)
  PROVE  /\ QueueOK'
         /\ task' = [task EXCEPT ![t] = k]
         /\ DOMAIN wire' = 1 .. Len(wire) /\ DOMAIN wire = 1 .. Len(wire) /\ Len(wire) \in Nat \ {0}
         /\ \A i \in 1 .. Len(wire) - 1 : wire'[i] = wire[i + 1]
         /\ wire[1] = t /\ wire'[Len(wire)] = t
<1>1. task' = [task EXCEPT ![t] = k] /\ wire' = Append(Tail(wire), t)
  BY DEF Then
<1>2. /\ wire \in Seq(Tasks) /\ Len(wire) \in Nat \ {0} /\ DOMAIN wire = 1 .. Len(wire)
      /\ wire[1] = t /\ task[t] # Idle
      /\ Tail(wire) \in Seq(Tasks) /\ Len(Tail(wire)) = Len(wire) - 1
      /\ \A i \in 1 .. Len(wire) - 1 : Tail(wire)[i] = wire[i + 1]
      /\ \A i \in 2 .. Len(wire) : wire[i] # t
  BY AtReply
<1>3. /\ wire' \in Seq(Tasks) /\ DOMAIN wire' = 1 .. Len(wire)
      /\ \A i \in 1 .. Len(wire) - 1 : wire'[i] = Tail(wire)[i]
      /\ wire'[Len(wire)] = t
  <2>1. Len(wire') = Len(wire)
    BY <1>1, <1>2
  <2> QED
    BY <1>1, <1>2, <2>1
<1>4. \A i \in DOMAIN wire' : i = Len(wire) \/ (i + 1 \in 2 .. Len(wire) /\ wire'[i] = wire[i + 1])
  BY <1>2, <1>3
<1>5. QueueOK'
  <2>1. \A i, j \in DOMAIN wire' : wire'[i] = wire'[j] => i = j
    BY <1>2, <1>3, <1>4 DEF QueueOK
  <2>2. ASSUME NEW u \in Tasks
        PROVE  task'[u] # Idle <=> \E i \in DOMAIN wire' : wire'[i] = u
    <3>1. CASE u = t
      BY <1>1, <1>2, <1>3, <3>1
    <3>2. CASE u # t
      <4>1. task'[u] = task[u]
        BY <1>1, <3>2
      <4>2. ASSUME NEW i \in DOMAIN wire, wire[i] = u PROVE \E j \in DOMAIN wire' : wire'[j] = u
        <5>1. i # 1 /\ i - 1 \in 1 .. Len(wire) - 1 /\ wire[(i - 1) + 1] = u
          BY <1>2, <3>2, <4>2
        <5> QED
          BY <1>2, <1>3, <5>1
      <4>3. ASSUME NEW j \in DOMAIN wire', wire'[j] = u PROVE \E i \in DOMAIN wire : wire[i] = u
        BY <1>2, <1>3, <1>4, <3>2, <4>3
      <4> QED
        BY <4>1, <4>2, <4>3 DEF QueueOK
    <3> QED
      BY <3>1, <3>2
  <2> QED
    BY <1>3, <2>1, <2>2 DEF QueueOK
<1> QED
  BY <1>1, <1>2, <1>3, <1>5

\* ... or is done.
LEMMA DoneQueue ==
  ASSUME QueueOK, task \in [Tasks -> TaskTypes], NEW t \in Tasks, NEW pc, Reply(t, pc), Done(t)
  PROVE  /\ QueueOK'
         /\ task' = [task EXCEPT ![t] = Idle]
         /\ DOMAIN wire' = 1 .. Len(wire) - 1 /\ DOMAIN wire = 1 .. Len(wire) /\ Len(wire) \in Nat \ {0}
         /\ \A i \in 1 .. Len(wire) - 1 : wire'[i] = wire[i + 1]
         /\ wire[1] = t
<1>1. task' = [task EXCEPT ![t] = Idle] /\ wire' = Tail(wire)
  BY DEF Done
<1>2. /\ wire \in Seq(Tasks) /\ Len(wire) \in Nat \ {0} /\ DOMAIN wire = 1 .. Len(wire)
      /\ wire[1] = t /\ task[t] # Idle
      /\ Tail(wire) \in Seq(Tasks) /\ Len(Tail(wire)) = Len(wire) - 1
      /\ \A i \in 1 .. Len(wire) - 1 : Tail(wire)[i] = wire[i + 1]
      /\ \A i \in 2 .. Len(wire) : wire[i] # t
  BY AtReply
<1>3. /\ wire' \in Seq(Tasks) /\ DOMAIN wire' = 1 .. Len(wire) - 1
      /\ \A i \in 1 .. Len(wire) - 1 : wire'[i] = wire[i + 1]
  BY <1>1, <1>2
<1>4. \A i \in DOMAIN wire' : i + 1 \in 2 .. Len(wire) /\ wire'[i] = wire[i + 1]
  BY <1>2, <1>3
<1>5. QueueOK'
  <2>1. \A i, j \in DOMAIN wire' : wire'[i] = wire'[j] => i = j
    BY <1>2, <1>3, <1>4 DEF QueueOK
  <2>2. ASSUME NEW u \in Tasks
        PROVE  task'[u] # Idle <=> \E i \in DOMAIN wire' : wire'[i] = u
    <3>1. CASE u = t
      BY <1>1, <1>2, <1>4, <3>1
    <3>2. CASE u # t
      <4>1. task'[u] = task[u]
        BY <1>1, <3>2
      <4>2. ASSUME NEW i \in DOMAIN wire, wire[i] = u PROVE \E j \in DOMAIN wire' : wire'[j] = u
        <5>1. i # 1 /\ i - 1 \in 1 .. Len(wire) - 1 /\ wire[(i - 1) + 1] = u
          BY <1>2, <3>2, <4>2
        <5> QED
          BY <1>2, <1>3, <5>1
      <4>3. ASSUME NEW j \in DOMAIN wire', wire'[j] = u PROVE \E i \in DOMAIN wire : wire[i] = u
        BY <1>2, <1>3, <1>4, <4>3
      <4> QED
        BY <4>1, <4>2, <4>3 DEF QueueOK
    <3> QED
      BY <3>1, <3>2
  <2> QED
    BY <1>3, <2>1, <2>2 DEF QueueOK
<1> QED
  BY <1>1, <1>2, <1>3, <1>5

-----------------------------------------------------------------------------
(* The room promised to the handlers that may still add a message. *)

LEMMA UnsentFinite ==
  /\ IsFiniteSet(Unsent) /\ Cardinality(Unsent) \in Nat
  /\ IsFiniteSet(Unsent)' /\ Cardinality(Unsent)' \in Nat
<1>1. Unsent \subseteq Tasks /\ Unsent' \subseteq Tasks
  BY DEF Unsent
<1>2. IsFiniteSet(Unsent) /\ IsFiniteSet(Unsent')
  BY <1>1, FS_Subset
<1> QED
  BY <1>2, FS_CardinalityType

LEMMA UnsentStays ==
  ASSUME Unsent' \subseteq Unsent
  PROVE  Cardinality(Unsent)' <= Cardinality(Unsent)
BY UnsentFinite, FS_Subset

LEMMA UnsentPromised ==
  ASSUME NEW t, Unsent' \subseteq Unsent \union {t}
  PROVE  Cardinality(Unsent)' <= Cardinality(Unsent) + 1
<1>1. /\ IsFiniteSet(Unsent \union {t})
      /\ Cardinality(Unsent \union {t}) \in Nat
      /\ Cardinality(Unsent \union {t}) <= Cardinality(Unsent) + 1
  <2>1. CASE t \in Unsent
    <3>1. Unsent \union {t} = Unsent
      BY <2>1
    <3> QED
      BY <3>1, UnsentFinite
  <2>2. CASE t \notin Unsent
    BY <2>2, UnsentFinite, FS_AddElement
  <2> QED
    BY <2>1, <2>2
<1>2. Cardinality(Unsent)' <= Cardinality(Unsent \union {t})
  BY <1>1, FS_Subset
<1> QED
  BY <1>1, <1>2, UnsentFinite

LEMMA UnsentTaken ==
  ASSUME NEW t \in Unsent, Unsent' \subseteq Unsent \ {t}
  PROVE  Cardinality(Unsent)' + 1 <= Cardinality(Unsent)
<1>1. /\ IsFiniteSet(Unsent \ {t})
      /\ Cardinality(Unsent \ {t}) = Cardinality(Unsent) - 1
  BY UnsentFinite, FS_RemoveElement
<1>2. Cardinality(Unsent)' <= Cardinality(Unsent \ {t})
  BY <1>1, FS_Subset
<1> QED
  BY <1>1, <1>2, UnsentFinite

\* A task that is not about to add a message needs no room.
LEMMA NoNewUnsent ==
  ASSUME task \in [Tasks -> TaskTypes], NEW t \in Tasks, NEW k \in TaskTypes,
         task' = [task EXCEPT ![t] = k],
         k.pc \in {"blocked", "recent", "add"} => t \in Unsent
  PROVE  Cardinality(Unsent)' <= Cardinality(Unsent)
<1>1. Unsent' \subseteq Unsent
  BY DEF Unsent
<1> QED
  BY <1>1, UnsentStays

-----------------------------------------------------------------------------
(* Steps that leave the messages to be emitted as they are. *)

\* The handlers of the queue that were in it before are in the same order.
SameOrder ==
  \A i, j \in DOMAIN wire' :
    i < j /\ wire'[i] \in Pending /\ wire'[j] \in Pending =>
      \E a, b \in DOMAIN wire : a < b /\ wire[a] = wire'[i] /\ wire[b] = wire'[j]

LEMMA PendingSame ==
  ASSUME PendingInOrder, SameOrder, sent' = sent, Pending' = Pending,
         \A t \in Pending : task'[t].id = task[t].id
  PROVE  PendingInOrder' /\ Emitted' = Emitted
<1>1. Emitted' = Emitted
  BY DEF Emitted, Pending
<1>2. \A t \in Pending' : task'[t].id <= sent'
  BY DEF PendingInOrder
<1>3. ASSUME NEW i \in DOMAIN wire', NEW j \in DOMAIN wire',
             i < j, wire'[i] \in Pending', wire'[j] \in Pending'
      PROVE  task'[wire'[i]].id < task'[wire'[j]].id
  <2>1. PICK a \in DOMAIN wire, b \in DOMAIN wire : a < b /\ wire[a] = wire'[i] /\ wire[b] = wire'[j]
    BY <1>3 DEF SameOrder
  <2>2. task[wire[a]].id < task[wire[b]].id
    BY <1>3, <2>1 DEF PendingInOrder
  <2> QED
    BY <1>3, <2>1, <2>2
<1>4. \A m \in Emitted', t \in Pending' : m < task'[t].id
  BY <1>1 DEF PendingInOrder
<1> QED
  BY <1>1, <1>2, <1>3, <1>4 DEF PendingInOrder

LEMMA TaskChanged ==
  ASSUME task \in [Tasks -> TaskTypes], NEW t \in Tasks, NEW k \in TaskTypes,
         task' = [task EXCEPT ![t] = k], task[t].pc # "len", k.pc # "len"
  PROVE  /\ t \notin Pending /\ Pending' = Pending
         /\ \A u \in Pending : task'[u].id = task[u].id
BY DEF Pending, Waits

LEMMA StartOrder ==
  ASSUME QueueOK, task \in [Tasks -> TaskTypes], NEW t \in Tasks, NEW k \in TaskTypes,
         k # Idle, Start(t, k)
  PROVE  SameOrder
<1>1. t \notin Pending
  BY StartQueue DEF Pending, Waits, Idle
<1>2. ASSUME NEW i \in DOMAIN wire', wire'[i] \in Pending
      PROVE  i \in DOMAIN wire /\ wire[i] = wire'[i]
  BY <1>1, <1>2, StartQueue
<1> QED
  BY <1>2 DEF SameOrder

LEMMA ReplyOrder ==
  ASSUME QueueOK, task \in [Tasks -> TaskTypes], NEW t \in Tasks, NEW pc, Reply(t, pc), pc # "len",
         NEW k, k # Idle, Then(t, k) \/ Done(t)
  PROVE  SameOrder
<1>1. t \notin Pending
  BY AtReply DEF Pending, Waits
<1>2. ASSUME NEW i \in DOMAIN wire', wire'[i] \in Pending
      PROVE  i \in Nat /\ i + 1 \in DOMAIN wire /\ wire[i + 1] = wire'[i]
  <2>1. CASE Then(t, k)
    BY <1>1, <1>2, <2>1, ThenQueue
  <2>2. CASE Done(t)
    BY <1>1, <1>2, <2>2, DoneQueue
  <2> QED
    BY <2>1, <2>2
<1>3. ASSUME NEW i \in DOMAIN wire', NEW j \in DOMAIN wire',
             i < j, wire'[i] \in Pending, wire'[j] \in Pending
      PROVE  \E a, b \in DOMAIN wire : a < b /\ wire[a] = wire'[i] /\ wire[b] = wire'[j]
  <2>1. /\ i \in Nat /\ i + 1 \in DOMAIN wire /\ wire[i + 1] = wire'[i]
        /\ j \in Nat /\ j + 1 \in DOMAIN wire /\ wire[j + 1] = wire'[j]
    BY <1>2, <1>3
  <2>2. i + 1 < j + 1
    BY <1>3, <2>1
  <2> QED
    BY <2>1, <2>2
<1> QED
  BY <1>3 DEF SameOrder

\* A task that neither adds nor emits a message nor enters a viewer.
LEMMA QuietStep ==
  ASSUME RoomInv, NEW t \in Tasks, NEW k \in TaskTypes,
         task' = [task EXCEPT ![t] = k],
         task[t].pc \notin {"len", "history"}, k.pc \notin {"len", "history"},
         SameOrder, QueueOK', MessagesOK',
         UNCHANGED <<sent, pages>>
  PROVE  RoomInv'
<1>1. task \in [Tasks -> TaskTypes] /\ PendingInOrder /\ PagesOK
  BY DEF RoomInv, MessagesOK
<1>2. PendingInOrder' /\ Emitted' = Emitted
  BY <1>1, TaskChanged, PendingSame
<1>3. \A u \in Tasks, v \in Viewers : task'[u] = Entering(v) => task[u] = Entering(v)
  BY <1>1 DEF Entering
<1>4. PagesOK'
  BY <1>1, <1>3 DEF PagesOK, pages
<1>5. \A v \in Viewers : LinesOK(v)'
  BY <1>2 DEF RoomInv, LinesOK, ShownIds, pages
<1> QED
  BY <1>2, <1>4, <1>5 DEF RoomInv

-----------------------------------------------------------------------------
(* new_message, until the message is added. *)

LEMMA RoomInit == Init => RoomInv
<1> SUFFICES ASSUME Init PROVE RoomInv
  OBVIOUS
<1>1. \A t \in Tasks : task[t] = Idle /\ task[t].pc = "idle"
  BY DEF Init, Idle
<1>2. Unsent = {} /\ Pending = {}
  BY <1>1 DEF Unsent, Pending, Waits
<1>3. MessagesOK
  <2>1. Cardinality(Unsent) = 0
    BY <1>2, FS_EmptySet
  <2>2. task \in [Tasks -> TaskTypes]
    BY NewTasks DEF Init
  <2> QED
    BY <2>1, <2>2, EmptySeq DEF MessagesOK, Init
<1>4. QueueOK
  BY <1>1, EmptySeq DEF QueueOK, Init
<1>5. Emitted = {}
  BY DEF Emitted, Init
<1>6. PendingInOrder
  BY <1>2, <1>5 DEF PendingInOrder
<1>7. PagesOK
  BY <1>1 DEF PagesOK, Init, Entering
<1>8. \A v \in Viewers : LinesOK(v)
  BY <1>5 DEF LinesOK, Init
<1> QED
  BY <1>3, <1>4, <1>6, <1>7, <1>8 DEF RoomInv

LEMMA NewMessageStep ==
  ASSUME RoomInv, NEW t \in Tasks, NEW m \in Contents, NewMessage(t, m)
  PROVE  RoomInv'
<1> DEFINE k == Sending("blocked", m)
<1>1. MessagesOK /\ QueueOK /\ task \in [Tasks -> TaskTypes] /\ Start(t, k)
  BY DEF RoomInv, MessagesOK, NewMessage
<1>2. k \in TaskTypes /\ k.pc = "blocked" /\ k # Idle
  BY NewTasks
<1> HIDE DEF k
<1>3. QueueOK' /\ SameOrder /\ task[t] = Idle /\ task' = [task EXCEPT ![t] = k]
  BY <1>1, <1>2, StartQueue, StartOrder
<1>4. task[t].pc = "idle"
  BY <1>3 DEF Idle
<1>5. MessagesOK'
  <2>1. Unsent' \subseteq Unsent \union {t}
    BY <1>1, <1>3 DEF Unsent
  <2>2. Cardinality(Unsent)' <= Cardinality(Unsent) + 1
    BY <2>1, UnsentPromised
  <2>3. sent \in Nat /\ sent' = sent /\ sent' + Cardinality(Unsent)' <= MaxSent
    BY <1>1, <2>2, UnsentFinite DEF MessagesOK, NewMessage
  <2>4. task' \in [Tasks -> TaskTypes]
    BY <1>1, <1>2, <1>3
  <2> QED
    BY <1>1, <2>3, <2>4 DEF MessagesOK, NewMessage, bans
<1>6. UNCHANGED <<sent, pages>>
  BY DEF NewMessage
<1> QED
  BY <1>2, <1>3, <1>4, <1>5, <1>6, QuietStep

\* The parts of MessagesOK that a reply without a new message leaves alone.
LEMMA SameMessages ==
  ASSUME RoomInv, NEW t \in Tasks, NEW k \in TaskTypes, task' = [task EXCEPT ![t] = k],
         k.pc \in {"blocked", "recent", "add"} => t \in Unsent,
         UNCHANGED <<sent, cache>>, blocked' \subseteq Users, banned' \subseteq Users
  PROVE  MessagesOK'
<1>1. MessagesOK /\ task \in [Tasks -> TaskTypes]
  BY DEF RoomInv, MessagesOK
<1>2. Cardinality(Unsent)' <= Cardinality(Unsent)
  BY <1>1, NoNewUnsent
<1>3. sent' + Cardinality(Unsent)' <= MaxSent
  BY <1>1, <1>2, UnsentFinite DEF MessagesOK
<1> QED
  BY <1>1, <1>3 DEF MessagesOK

LEMMA CheckBlockedStep ==
  ASSUME RoomInv, NEW t \in Tasks, CheckBlocked(t)
  PROVE  RoomInv'
<1>1. QueueOK /\ task \in [Tasks -> TaskTypes] /\ Reply(t, "blocked")
      /\ blocked \subseteq Users /\ banned \subseteq Users
  BY DEF RoomInv, MessagesOK, CheckBlocked
<1>2. task[t].pc = "blocked" /\ t \in Unsent /\ task[t].msg \in Contents
  BY <1>1, TaskForms DEF Reply, Unsent
<1>3. UNCHANGED <<sent, cache, blocked, banned, pages>>
  BY DEF CheckBlocked, bans
<1>4. CASE Done(t)
  <2>1. QueueOK' /\ SameOrder /\ task' = [task EXCEPT ![t] = Idle]
    BY <1>1, <1>4, DoneQueue, ReplyOrder, NewTasks
  <2> QED
    BY <1>1, <1>2, <1>3, <2>1, NewTasks, SameMessages, QuietStep
<1>5. CASE Then(t, Sending("recent", task[t].msg))
  <2> DEFINE k == Sending("recent", task[t].msg)
  <2>1. k \in TaskTypes /\ k.pc = "recent" /\ k # Idle
    BY <1>2, NewTasks
  <2>2. Then(t, k)
    BY <1>5
  <2> HIDE DEF k
  <2>3. QueueOK' /\ SameOrder /\ task' = [task EXCEPT ![t] = k]
    BY <1>1, <2>1, <2>2, ThenQueue, ReplyOrder
  <2> QED
    BY <1>1, <1>2, <1>3, <2>1, <2>3, SameMessages, QuietStep
<1> QED
  BY <1>4, <1>5 DEF CheckBlocked

LEMMA CheckRecentStep ==
  ASSUME RoomInv, NEW t \in Tasks, CheckRecent(t)
  PROVE  RoomInv'
<1>1. QueueOK /\ task \in [Tasks -> TaskTypes] /\ Reply(t, "recent")
      /\ blocked \subseteq Users /\ banned \subseteq Users
  BY DEF RoomInv, MessagesOK, CheckRecent
<1>2. task[t].pc = "recent" /\ t \in Unsent /\ task[t].msg \in Contents
  BY <1>1, TaskForms DEF Reply, Unsent
<1>3. UNCHANGED <<sent, cache, blocked, banned, pages>>
  BY DEF CheckRecent, bans
<1>4. CASE Done(t)
  <2>1. QueueOK' /\ SameOrder /\ task' = [task EXCEPT ![t] = Idle]
    BY <1>1, <1>4, DoneQueue, ReplyOrder, NewTasks
  <2> QED
    BY <1>1, <1>2, <1>3, <2>1, NewTasks, SameMessages, QuietStep
<1>5. CASE Then(t, Sending("add", task[t].msg))
  <2> DEFINE k == Sending("add", task[t].msg)
  <2>1. k \in TaskTypes /\ k.pc = "add" /\ k # Idle
    BY <1>2, NewTasks
  <2>2. Then(t, k)
    BY <1>5
  <2> HIDE DEF k
  <2>3. QueueOK' /\ SameOrder /\ task' = [task EXCEPT ![t] = k]
    BY <1>1, <2>1, <2>2, ThenQueue, ReplyOrder
  <2> QED
    BY <1>1, <1>2, <1>3, <2>1, <2>3, SameMessages, QuietStep
<1> QED
  BY <1>4, <1>5 DEF CheckRecent

-----------------------------------------------------------------------------
(* The block list. *)

LEMMA BlockStep ==
  ASSUME RoomInv, NEW t \in Tasks,
         \/ \E u \in Users : BlockUser(t, u)
         \/ DeleteBlockUser(t) \/ ReadBlocked(t) \/ WriteBlocked(t) \/ BlockedDeleted(t)
  PROVE  RoomInv'
<1>1. QueueOK /\ task \in [Tasks -> TaskTypes] /\ blocked \subseteq Users /\ banned \subseteq Users
  BY DEF RoomInv, MessagesOK
<1>2. ASSUME NEW k \in TaskTypes, k # Idle, Start(t, k), k.pc \in {"get", "hdel"},
             UNCHANGED <<sent, cache, blocked, banned, pages>>
      PROVE  RoomInv'
  <2>1. QueueOK' /\ SameOrder /\ task[t] = Idle /\ task' = [task EXCEPT ![t] = k]
    BY <1>1, <1>2, StartQueue, StartOrder
  <2>2. task[t].pc = "idle"
    BY <2>1 DEF Idle
  <2> QED
    BY <1>1, <1>2, <2>1, <2>2, SameMessages, QuietStep
<1>3. ASSUME NEW u \in Users, BlockUser(t, u) PROVE RoomInv'
  <2> DEFINE k == Banning("get", u, {})
  <2>1. k \in TaskTypes /\ k.pc = "get" /\ k # Idle
    BY NewTasks
  <2>2. Start(t, k) /\ UNCHANGED <<sent, cache, blocked, banned, pages>>
    BY <1>3 DEF BlockUser, bans
  <2> HIDE DEF k
  <2> QED
    BY <1>2, <2>1, <2>2
<1>4. ASSUME DeleteBlockUser(t) PROVE RoomInv'
  <2> DEFINE k == [pc |-> "hdel"]
  <2>1. k \in TaskTypes /\ k.pc = "hdel" /\ k # Idle
    BY NewTasks DEF Idle
  <2>2. Start(t, k) /\ UNCHANGED <<sent, cache, blocked, banned, pages>>
    BY <1>4 DEF DeleteBlockUser, bans
  <2> HIDE DEF k
  <2> QED
    BY <1>2, <2>1, <2>2
<1>5. ASSUME ReadBlocked(t) PROVE RoomInv'
  <2> DEFINE k == Banning("set", task[t].user, blocked)
  <2>1. Reply(t, "get") /\ Then(t, k) /\ UNCHANGED <<sent, cache, blocked, banned, pages>>
    BY <1>5 DEF ReadBlocked, bans
  <2>2. task[t].pc = "get" /\ task[t].user \in Users
    BY <1>1, <2>1, TaskForms DEF Reply
  <2>3. k \in TaskTypes /\ k.pc = "set" /\ k # Idle
    BY <1>1, <2>2 DEF TaskTypes, Banning, Idle
  <2> HIDE DEF k
  <2>4. QueueOK' /\ SameOrder /\ task' = [task EXCEPT ![t] = k]
    BY <1>1, <2>1, <2>3, ThenQueue, ReplyOrder
  <2> QED
    BY <1>1, <2>1, <2>2, <2>3, <2>4, SameMessages, QuietStep
<1>6. ASSUME NEW pc \in {"set", "hdel"}, Reply(t, pc), Done(t), UNCHANGED <<sent, cache, pages>>,
             blocked' \subseteq Users, banned' \subseteq Users
      PROVE  RoomInv'
  <2>1. QueueOK' /\ SameOrder /\ task' = [task EXCEPT ![t] = Idle]
    BY <1>1, <1>6, DoneQueue, ReplyOrder, NewTasks
  <2>2. task[t].pc = pc
    BY <1>6 DEF Reply
  <2> QED
    BY <1>6, <2>1, <2>2, NewTasks, SameMessages, QuietStep
<1>7. ASSUME WriteBlocked(t) PROVE RoomInv'
  <2>1. Reply(t, "set") /\ Done(t) /\ UNCHANGED <<sent, cache, pages>>
    BY <1>7 DEF WriteBlocked
  <2>2. task[t].user \in Users /\ task[t].list \subseteq Users
    BY <1>1, <2>1, TaskForms DEF Reply
  <2> QED
    BY <1>1, <1>6, <1>7, <2>1, <2>2 DEF WriteBlocked
<1>8. ASSUME BlockedDeleted(t) PROVE RoomInv'
  BY <1>6, <1>8 DEF BlockedDeleted
<1> QED
  BY <1>3, <1>4, <1>5, <1>7, <1>8

-----------------------------------------------------------------------------
(* XADD and the emission. *)

LEMMA ScreenLines ==
  ASSUME PagesOK, NEW v \in Viewers
  PROVE  /\ screen[v] \in Seq(Lines) /\ Len(screen[v]) \in Nat
         /\ DOMAIN screen[v] = 1 .. Len(screen[v])
         /\ \A i \in DOMAIN screen[v] :
              screen[v][i] \in Lines /\ screen[v][i].id \in 1 .. MaxSent /\ screen[v][i].id \in Nat
<1>1. screen[v] \in Seq(Lines)
  BY DEF PagesOK
<1>2. DOMAIN screen[v] = 1 .. Len(screen[v]) /\ Len(screen[v]) \in Nat
  BY <1>1
<1>3. \A i \in DOMAIN screen[v] : screen[v][i] \in Lines
  BY <1>1, <1>2
<1> QED
  BY <1>1, <1>2, <1>3 DEF Lines

\* The new message takes the room that was promised to its handler, and is the
\* newest of those to be emitted.
LEMMA AddStep ==
  ASSUME RoomInv, NEW t \in Tasks, Add(t)
  PROVE  RoomInv'
<1> DEFINE k == Emitting(task[t].msg, sent + 1)
<1>1. /\ MessagesOK /\ QueueOK /\ PendingInOrder /\ PagesOK
      /\ task \in [Tasks -> TaskTypes] /\ sent \in Nat
      /\ Reply(t, "add") /\ Then(t, k)
      /\ sent' = sent + 1 /\ cache' = Append(cache, task[t].msg)
      /\ UNCHANGED <<blocked, banned, joined, entered, screen>>
  BY DEF RoomInv, MessagesOK, Add, bans, pages
<1>2. task[t].pc = "add" /\ task[t] \in TaskTypes /\ t \in Unsent /\ task[t].msg \in Contents
  BY <1>1, TaskForms DEF Reply, Unsent
<1>3. Cardinality(Unsent) \in Nat \ {0}
  BY <1>2, UnsentFinite, FS_EmptySet
<1>4. sent + 1 \in 1 .. MaxSent
  BY <1>1, <1>3 DEF MessagesOK
<1>5. k \in TaskTypes /\ k.pc = "len" /\ k.id = sent + 1 /\ k # Idle
  BY <1>2, <1>4, NewTasks
<1> HIDE DEF k
<1>6. /\ QueueOK' /\ task' = [task EXCEPT ![t] = k]
      /\ DOMAIN wire' = 1 .. Len(wire) /\ DOMAIN wire = 1 .. Len(wire) /\ Len(wire) \in Nat \ {0}
      /\ \A i \in 1 .. Len(wire) - 1 : wire'[i] = wire[i + 1]
      /\ wire[1] = t /\ wire'[Len(wire)] = t
  BY <1>1, <1>5, ThenQueue
<1>7. MessagesOK'
  <2>1. Unsent' \subseteq Unsent \ {t}
    BY <1>1, <1>5, <1>6 DEF Unsent
  <2>2. Cardinality(Unsent)' + 1 <= Cardinality(Unsent)
    BY <1>2, <2>1, UnsentTaken
  <2>3. sent' + Cardinality(Unsent)' <= MaxSent
    BY <1>1, <2>2, UnsentFinite DEF MessagesOK
  <2>4. cache' \in Seq(Contents) /\ Len(cache') <= sent'
    BY <1>1, <1>2 DEF MessagesOK
  <2> QED
    BY <1>1, <1>5, <1>6, <2>3, <2>4 DEF MessagesOK
<1>8. /\ t \notin Pending /\ Pending' = Pending \union {t}
      /\ task'[t].id = sent + 1
      /\ \A u \in Pending : task'[u] = task[u] /\ task'[u].id = task[u].id
  BY <1>1, <1>2, <1>5, <1>6 DEF Pending, Waits
<1>9. \A u \in Pending : task[u].id \in Nat /\ task[u].id <= sent
  BY <1>1, TaskForms DEF PendingInOrder, Pending, Waits
<1>10. Emitted' = Emitted
  <2>1. Emitted = (1 .. sent) \ {task[u].id : u \in Pending}
    BY DEF Emitted, Pending
  <2>2. Emitted' = (1 .. sent + 1) \ {task'[u].id : u \in Pending'}
    BY <1>1 DEF Emitted, Pending
  <2>3. {task'[u].id : u \in Pending'} = {task[u].id : u \in Pending} \union {sent + 1}
    BY <1>8
  <2> DEFINE ids == {task[u].id : u \in Pending}
  <2>4. Emitted = (1 .. sent) \ ids /\ Emitted' = (1 .. sent + 1) \ (ids \union {sent + 1})
    BY <2>1, <2>2, <2>3
  <2> HIDE DEF ids
  <2>5. \A m : m \in 1 .. sent <=> m \in 1 .. sent + 1 /\ m # sent + 1
    BY <1>1
  <2> QED
    BY <2>4, <2>5
<1>11. \A m \in Emitted : m \in Nat /\ m <= sent
  BY <1>1 DEF Emitted
<1>12. PendingInOrder'
  <2>1. \A u \in Pending' : task'[u].id <= sent'
    BY <1>1, <1>8, <1>9
  <2>2. ASSUME NEW i \in DOMAIN wire', NEW j \in DOMAIN wire',
               i < j, wire'[i] \in Pending', wire'[j] \in Pending'
        PROVE  task'[wire'[i]].id < task'[wire'[j]].id
    <3>1. /\ i \in 1 .. Len(wire) - 1 /\ i + 1 \in DOMAIN wire
          /\ wire'[i] = wire[i + 1] /\ wire[i + 1] # t
      <4>1. i \in 1 .. Len(wire) - 1 /\ i + 1 \in DOMAIN wire /\ wire'[i] = wire[i + 1]
        BY <1>6, <2>2
      <4>2. 1 \in DOMAIN wire /\ i + 1 # 1
        BY <1>6, <4>1
      <4>3. wire[i + 1] # wire[1]
        BY <1>1, <4>1, <4>2 DEF QueueOK
      <4> QED
        BY <1>6, <4>1, <4>3
    <3>2. wire[i + 1] \in Pending
      BY <1>8, <2>2, <3>1
    <3>3. CASE j = Len(wire)
      <4>3. wire'[j] = t
        BY <1>6, <3>3
      <4>1. task'[wire'[j]].id = sent + 1
        BY <1>8, <4>3
      <4>2. task'[wire'[i]].id = task[wire[i + 1]].id /\ task[wire[i + 1]].id <= sent
            /\ task[wire[i + 1]].id \in Nat
        BY <1>8, <1>9, <3>1, <3>2
      <4> QED
        BY <1>1, <4>1, <4>2
    <3>4. CASE j # Len(wire)
      <4>1. /\ j \in 1 .. Len(wire) - 1 /\ j + 1 \in DOMAIN wire
            /\ wire'[j] = wire[j + 1] /\ i + 1 < j + 1
        BY <1>6, <2>2, <3>4
      <4>2. 1 \in DOMAIN wire /\ j + 1 # 1
        BY <1>6, <4>1
      <4>5. wire[j + 1] # wire[1]
        BY <1>1, <4>1, <4>2 DEF QueueOK
      <4>3. wire[j + 1] \in Pending
        BY <1>6, <1>8, <2>2, <4>1, <4>5
      <4>4. task[wire[i + 1]].id < task[wire[j + 1]].id
        BY <1>1, <3>1, <3>2, <4>1, <4>3 DEF PendingInOrder
      <4> QED
        BY <1>8, <3>1, <3>2, <4>1, <4>3, <4>4
    <3> QED
      BY <3>3, <3>4
  <2>3. \A m \in Emitted', u \in Pending' : m < task'[u].id
    BY <1>1, <1>8, <1>10, <1>11 DEF PendingInOrder
  <2> QED
    BY <2>1, <2>2, <2>3 DEF PendingInOrder
<1>13. PagesOK'
  <2>1. \A u \in Tasks, v \in Viewers : task'[u] = Entering(v) => task[u] = Entering(v)
    BY <1>1, <1>5, <1>6 DEF Entering
  <2> QED
    BY <1>1, <2>1 DEF PagesOK
<1>14. ASSUME NEW v \in Viewers PROVE LinesOK(v)'
  <2>1. LinesOK(v)
    BY DEF RoomInv
  <2>2. \A i \in DOMAIN screen[v] : screen[v][i].id \in Nat
    BY <1>1, ScreenLines
  <2> QED
    BY <1>1, <1>10, <2>1, <2>2 DEF LinesOK, ShownIds
<1> QED
  BY <1>6, <1>7, <1>12, <1>13, <1>14 DEF RoomInv

\* The message at the head of the queue is the oldest of those to be emitted:
\* it joins the emitted ones, and the pages of the room.
LEMMA EmitStep ==
  ASSUME RoomInv, NEW t \in Tasks, Emit(t)
  PROVE  RoomInv'
<1> DEFINE id == task[t].id
<1>1. /\ MessagesOK /\ QueueOK /\ PendingInOrder /\ PagesOK
      /\ task \in [Tasks -> TaskTypes] /\ sent \in Nat
      /\ Reply(t, "len") /\ Done(t)
      /\ screen' = [v \in Viewers |->
           IF joined[v] THEN Append(screen[v], [id |-> id, live |-> TRUE]) ELSE screen[v]]
      /\ UNCHANGED <<sent, cache, blocked, banned, joined, entered>>
  BY DEF RoomInv, MessagesOK, Emit, AwaitsMore, bans
<1>2. /\ task[t].pc = "len" /\ t \in Pending
      /\ id \in 1 .. MaxSent /\ id \in Nat /\ id <= sent
  BY <1>1, TaskForms DEF Reply, Pending, Waits, PendingInOrder
<1> HIDE DEF id
<1>3. /\ QueueOK' /\ task' = [task EXCEPT ![t] = Idle]
      /\ DOMAIN wire' = 1 .. Len(wire) - 1 /\ DOMAIN wire = 1 .. Len(wire) /\ Len(wire) \in Nat \ {0}
      /\ \A i \in 1 .. Len(wire) - 1 : wire'[i] = wire[i + 1]
      /\ wire[1] = t
  BY <1>1, DoneQueue
<1>4. MessagesOK'
  <2>1. blocked' \subseteq Users /\ banned' \subseteq Users
    BY <1>1 DEF MessagesOK
  <2> QED
    BY <1>1, <1>3, <2>1, NewTasks, SameMessages
<1>5. /\ Pending' = Pending \ {t}
      /\ \A u \in Pending' : task'[u] = task[u] /\ task'[u].id = task[u].id
  BY <1>1, <1>3, NewTasks DEF Pending, Waits
<1>6. ASSUME NEW u \in Pending' PROVE id < task[u].id /\ task[u].id \in Nat
  <2>1. u \in Pending /\ u # t /\ u \in Tasks /\ task[u] # Idle
    BY <1>5 DEF Pending, Waits, Idle
  <2>2. PICK i \in DOMAIN wire : wire[i] = u
    BY <1>1, <2>1 DEF QueueOK
  <2>3. 1 \in DOMAIN wire /\ 1 < i
    BY <1>3, <2>1, <2>2
  <2>4. task[wire[1]].id < task[wire[i]].id
    BY <1>1, <1>2, <1>3, <2>1, <2>2, <2>3 DEF PendingInOrder
  <2>5. task[u].id \in Nat
    BY <1>1, <2>1, TaskForms DEF Pending, Waits
  <2> QED
    BY <1>3, <2>2, <2>4, <2>5 DEF id
<1>7. Emitted' = Emitted \union {id}
  <2> DEFINE ids == {task[u].id : u \in Pending'}
  <2>1. Emitted = (1 .. sent) \ (ids \union {id})
    <3>1. Emitted = (1 .. sent) \ {task[u].id : u \in Pending}
      BY DEF Emitted, Pending
    <3>2. {task[u].id : u \in Pending} = ids \union {id}
      BY <1>2, <1>5 DEF id
    <3> QED
      BY <3>1, <3>2
  <2>2. Emitted' = (1 .. sent) \ ids
    <3>1. Emitted' = (1 .. sent) \ {task'[u].id : u \in Pending'}
      BY <1>1 DEF Emitted, Pending
    <3>2. {task'[u].id : u \in Pending'} = ids
      BY <1>5
    <3> QED
      BY <3>1, <3>2
  <2>3. id \notin ids /\ id \in 1 .. sent
    BY <1>1, <1>2, <1>6
  <2> HIDE DEF ids
  <2> QED
    BY <2>1, <2>2, <2>3
<1>8. PendingInOrder'
  <2>1. \A u \in Pending' : task'[u].id <= sent'
    BY <1>1, <1>5 DEF PendingInOrder
  <2>2. ASSUME NEW i \in DOMAIN wire', NEW j \in DOMAIN wire',
               i < j, wire'[i] \in Pending', wire'[j] \in Pending'
        PROVE  task'[wire'[i]].id < task'[wire'[j]].id
    <3>1. /\ i + 1 \in DOMAIN wire /\ j + 1 \in DOMAIN wire /\ i + 1 < j + 1
          /\ wire'[i] = wire[i + 1] /\ wire'[j] = wire[j + 1]
      BY <1>3, <2>2
    <3>2. wire[i + 1] \in Pending /\ wire[j + 1] \in Pending
      BY <1>5, <2>2, <3>1
    <3>3. task[wire[i + 1]].id < task[wire[j + 1]].id
      BY <1>1, <3>1, <3>2 DEF PendingInOrder
    <3> QED
      BY <1>5, <2>2, <3>1, <3>3
  <2>3. \A m \in Emitted', u \in Pending' : m < task'[u].id
    BY <1>1, <1>5, <1>6, <1>7 DEF PendingInOrder
  <2> QED
    BY <2>1, <2>2, <2>3 DEF PendingInOrder
<1>9. ASSUME NEW v \in Viewers, joined[v]
      PROVE  /\ screen'[v] \in Seq(Lines)
             /\ DOMAIN screen'[v] = 1 .. Len(screen[v]) + 1
             /\ \A i \in 1 .. Len(screen[v]) : screen'[v][i] = screen[v][i]
             /\ screen'[v][Len(screen[v]) + 1] = [id |-> id, live |-> TRUE]
  <2>1. screen'[v] = Append(screen[v], [id |-> id, live |-> TRUE])
    BY <1>1, <1>9
  <2>2. [id |-> id, live |-> TRUE] \in Lines
    BY <1>2 DEF Lines
  <2> QED
    BY <1>1, <2>1, <2>2, ScreenLines, AppendProperties
<1>10. \A v \in Viewers : ~joined[v] => screen'[v] = screen[v]
  BY <1>1
<1>11. PagesOK'
  <2>1. \A u \in Tasks, v \in Viewers : task'[u] = Entering(v) => task[u] = Entering(v)
    BY <1>1, <1>3 DEF Entering, Idle
  <2>2. screen' \in [Viewers -> Seq(Lines)]
    <3>1. \A v \in Viewers : screen'[v] \in Seq(Lines)
      BY <1>1, <1>9, <1>10, ScreenLines
    <3> QED
      BY <1>1, <3>1
  <2>3. \A v \in Viewers : ~joined'[v] => screen'[v] = <<>>
    BY <1>1, <1>10 DEF PagesOK
  <2>4. ASSUME NEW v \in Viewers, ~entered'[v], NEW i \in DOMAIN screen'[v]
        PROVE  screen'[v][i].live
    <3>1. ~entered[v] /\ Len(screen[v]) \in Nat /\ DOMAIN screen[v] = 1 .. Len(screen[v])
      BY <1>1, <2>4, ScreenLines
    <3>2. CASE joined[v] /\ i = Len(screen[v]) + 1
      BY <1>9, <3>2
    <3>3. CASE ~(joined[v] /\ i = Len(screen[v]) + 1)
      <4>1. i \in DOMAIN screen[v] /\ screen'[v][i] = screen[v][i]
        BY <1>9, <1>10, <2>4, <3>1, <3>3
      <4> QED
        BY <1>1, <3>1, <4>1 DEF PagesOK
    <3> QED
      BY <3>2, <3>3
  <2>5. \A u \in Tasks, v \in Viewers : task'[u] = Entering(v) => joined'[v] /\ ~entered'[v]
    BY <1>1, <2>1 DEF PagesOK
  <2>6. \A s, u \in Tasks, v \in Viewers : task'[s] = Entering(v) /\ task'[u] = Entering(v) => s = u
    BY <1>1, <2>1 DEF PagesOK
  <2>7. /\ joined' \in [Viewers -> BOOLEAN] /\ entered' \in [Viewers -> BOOLEAN]
        /\ \A v \in Viewers : entered'[v] => joined'[v]
    BY <1>1 DEF PagesOK
  <2> QED
    BY <2>2, <2>3, <2>4, <2>5, <2>6, <2>7, Zenon DEF PagesOK
<1>12. ASSUME NEW v \in Viewers PROVE LinesOK(v)'
  <2>1. /\ LinesOK(v)
        /\ Len(screen[v]) \in Nat /\ DOMAIN screen[v] = 1 .. Len(screen[v])
        /\ \A i \in DOMAIN screen[v] : screen[v][i].id \in Nat
    BY <1>1, ScreenLines DEF RoomInv
  <2>2. \A m \in Emitted : m < id /\ m \in Nat
    BY <1>1, <1>2 DEF PendingInOrder, Emitted, id
  <2>3. CASE ~joined[v]
    <3>1. screen'[v] = <<>>
      BY <1>1, <1>10, <2>3 DEF PagesOK
    <3> QED
      BY <3>1 DEF LinesOK, ShownIds
  <2>4. CASE joined[v]
    <3> DEFINE n == Len(screen[v])
    <3>1. /\ DOMAIN screen'[v] = 1 .. n + 1 /\ DOMAIN screen[v] = 1 .. n /\ n \in Nat
          /\ \A i \in 1 .. n : screen'[v][i] = screen[v][i]
          /\ screen'[v][n + 1] = [id |-> id, live |-> TRUE]
      BY <1>9, <2>1, <2>4
    <3> HIDE DEF n
    <3>2. \A i \in DOMAIN screen'[v] : i \in DOMAIN screen[v] \/ i = n + 1
      BY <3>1
    <3>3. ASSUME NEW i \in DOMAIN screen'[v]
          PROVE  screen'[v][i].id <= sent' /\ (screen'[v][i].live => screen'[v][i].id \in Emitted')
      <4>1. CASE i \in DOMAIN screen[v]
        BY <1>1, <1>7, <2>1, <3>1, <4>1 DEF LinesOK
      <4>2. CASE i = n + 1
        BY <1>1, <1>2, <1>7, <3>1, <4>2
      <4> QED
        BY <3>2, <4>1, <4>2
    <3>4. ASSUME NEW i \in DOMAIN screen'[v], NEW j \in DOMAIN screen'[v],
                 i < j, screen'[v][i].live = screen'[v][j].live
          PROVE  screen'[v][i].id < screen'[v][j].id
      <4>1. i \in DOMAIN screen[v] /\ screen'[v][i] = screen[v][i]
        BY <3>1, <3>4
      <4>2. CASE j \in DOMAIN screen[v]
        BY <2>1, <3>1, <3>4, <4>1, <4>2 DEF LinesOK
      <4>3. CASE j = n + 1
        <5>1. screen[v][i].live
          BY <3>1, <3>4, <4>1, <4>3
        <5>2. screen[v][i].id \in Emitted
          BY <2>1, <4>1, <5>1 DEF LinesOK
        <5> QED
          BY <2>2, <3>1, <4>1, <4>3, <5>2
      <4> QED
        BY <3>2, <4>2, <4>3
    <3>5. ShownIds(v)' = ShownIds(v) \union {id}
      BY <3>1, <3>2 DEF ShownIds
    <3>6. ASSUME NEW m \in Emitted', NEW k \in ShownIds(v)', k < m
          PROVE  m \in ShownIds(v)'
      <4>1. CASE m = id
        BY <3>5, <4>1
      <4>2. CASE m # id
        <5>1. m \in Emitted /\ k # id
          BY <1>2, <1>7, <2>2, <3>6, <4>2
        <5> QED
          BY <2>1, <3>5, <3>6, <5>1 DEF LinesOK
      <4> QED
        BY <4>1, <4>2
    <3> QED
      BY <3>3, <3>4, <3>6 DEF LinesOK
  <2> QED
    BY <2>3, <2>4
<1> QED
  BY <1>3, <1>4, <1>8, <1>11, <1>12 DEF RoomInv

-----------------------------------------------------------------------------
(* The viewers, and a flush. *)

LEMMA EnterRoomStep ==
  ASSUME RoomInv, NEW t \in Tasks, NEW v \in Viewers, EnterRoom(t, v)
  PROVE  RoomInv'
<1> DEFINE k == Entering(v)
<1>1. /\ MessagesOK /\ QueueOK /\ PendingInOrder /\ PagesOK
      /\ task \in [Tasks -> TaskTypes]
      /\ Start(t, k) /\ ~joined[v]
      /\ joined' = [joined EXCEPT ![v] = TRUE]
      /\ UNCHANGED <<sent, cache, blocked, banned, entered, screen>>
  BY DEF RoomInv, MessagesOK, EnterRoom, WithJoined, bans
<1>2. k \in TaskTypes /\ k.pc = "history" /\ k # Idle
  BY NewTasks
<1>3. \A w \in Viewers : w # v => k # Entering(w)
  BY DEF Entering
<1> HIDE DEF k
<1>4. QueueOK' /\ SameOrder /\ task[t] = Idle /\ task' = [task EXCEPT ![t] = k]
  BY <1>1, <1>2, StartQueue, StartOrder
<1>5. task[t].pc = "idle"
  BY <1>4 DEF Idle
<1>6. MessagesOK'
  <2>1. blocked' \subseteq Users /\ banned' \subseteq Users
    BY <1>1 DEF MessagesOK
  <2> QED
    BY <1>1, <1>2, <1>4, <2>1, SameMessages
<1>7. PendingInOrder' /\ Emitted' = Emitted
  BY <1>1, <1>2, <1>4, <1>5, TaskChanged, PendingSame
<1>8. PagesOK'
  <2>1. ~entered[v] /\ \A u \in Tasks : task[u] # Entering(v)
    BY <1>1 DEF PagesOK
  <2>2. joined' \in [Viewers -> BOOLEAN] /\ entered' \in [Viewers -> BOOLEAN]
        /\ screen' \in [Viewers -> Seq(Lines)]
    BY <1>1 DEF PagesOK
  <2>3. joined'[v] /\ \A w \in Viewers : w # v => joined'[w] = joined[w]
    BY <1>1 DEF PagesOK
  <2>4. \A w \in Viewers : (joined[w] => joined'[w])
    BY <2>3
  <2>5. ASSUME NEW u \in Tasks, NEW w \in Viewers, task'[u] = Entering(w)
        PROVE  (w = v /\ u = t) \/ (w # v /\ task[u] = Entering(w))
    <3>1. CASE u = t
      BY <1>1, <1>3, <1>4, <2>5, <3>1
    <3>2. CASE u # t
      BY <1>1, <1>4, <2>1, <2>5, <3>2
    <3> QED
      BY <3>1, <3>2
  <2>6. \A u \in Tasks, w \in Viewers : task'[u] = Entering(w) => joined'[w] /\ ~entered'[w]
    BY <1>1, <2>1, <2>3, <2>5 DEF PagesOK
  <2>7. \A s, u \in Tasks, w \in Viewers : task'[s] = Entering(w) /\ task'[u] = Entering(w) => s = u
    BY <1>1, <2>5 DEF PagesOK
  <2>8. \A w \in Viewers : entered'[w] => joined'[w]
    BY <1>1, <2>4 DEF PagesOK
  <2>9. \A w \in Viewers : ~joined'[w] => screen'[w] = <<>>
    BY <1>1, <2>4 DEF PagesOK
  <2>10. \A w \in Viewers : ~entered'[w] => \A i \in DOMAIN screen'[w] : screen'[w][i].live
    BY <1>1 DEF PagesOK
  <2> QED
    BY <2>2, <2>6, <2>7, <2>8, <2>9, <2>10, Zenon DEF PagesOK
<1>9. \A w \in Viewers : LinesOK(w)'
  BY <1>1, <1>7 DEF RoomInv, LinesOK, ShownIds
<1> QED
  BY <1>4, <1>6, <1>7, <1>8, <1>9 DEF RoomInv

\* What enter_room shows: the ids of the newest messages, without a gap.
LEMMA HistoryIds ==
  ASSUME MessagesOK, NEW old, old = LastOf(CachedIds, Shown)
  PROVE  \E n \in Nat :
           /\ n <= sent /\ Len(old) = n
           /\ \A i \in 1 .. n : old[i] = sent - n + i
<1> DEFINE c == Len(cache)
           n == IF c < Shown THEN c ELSE Shown
           first == IF c < Shown THEN 1 ELSE c - Shown + 1
<1>1. c \in Nat /\ c <= sent /\ sent \in Nat
  BY DEF MessagesOK
<1> HIDE DEF c
<1>2. CachedIds = [i \in 1 .. c |-> sent - c + i]
  BY DEF CachedIds, c
<1>3. CachedIds \in Seq(Int) /\ Len(CachedIds) = c
  BY <1>1, <1>2
<1>4. old = SubSeq(CachedIds, first, c)
  BY <1>3 DEF LastOf
<1>5. n \in Nat /\ n <= sent /\ first \in 1 .. c + 1 /\ c - first + 1 = n /\ first = c - n + 1
  BY <1>1
<1> HIDE DEF n, first
<1>6. Len(old) = n /\ \A i \in 1 .. n : old[i] = CachedIds[first + i - 1]
  BY <1>1, <1>3, <1>4, <1>5, SubSeqProperties
<1>7. \A i \in 1 .. n : first + i - 1 \in 1 .. c /\ sent - c + (first + i - 1) = sent - n + i
  BY <1>1, <1>5
<1>8. \A i \in 1 .. n : old[i] = sent - n + i
  BY <1>2, <1>6, <1>7
<1> QED
  BY <1>5, <1>6, <1>8

\* The history follows the live lines that came while it was read.
LEMMA HistoryStep ==
  ASSUME RoomInv, NEW t \in Tasks, History(t)
  PROVE  RoomInv'
<1> DEFINE w == task[t].viewer
           old == LastOf(CachedIds, Shown)
           lines == [i \in 1 .. Len(old) |-> [id |-> old[i], live |-> FALSE]]
<1>1. /\ MessagesOK /\ QueueOK /\ PendingInOrder /\ PagesOK
      /\ task \in [Tasks -> TaskTypes] /\ sent \in Nat /\ MaxSent \in Nat
      /\ Reply(t, "history") /\ Done(t)
      /\ screen' = [v \in Viewers |-> IF v \in {w} \ {Nobody} THEN screen[v] \o lines ELSE screen[v]]
      /\ entered' = [v \in Viewers |-> entered[v] \/ v = w]
      /\ UNCHANGED <<sent, cache, blocked, banned, joined>>
  BY DEF RoomInv, MessagesOK, History, Recipients, bans
<1>2. task[t].pc = "history" /\ w \in Viewers \union {Nobody} /\ task[t] = Entering(w)
  BY <1>1, TaskForms DEF Reply
<1>3. PICK n \in Nat : n <= sent /\ Len(old) = n /\ \A i \in 1 .. n : old[i] = sent - n + i
  BY <1>1, HistoryIds
<1>4. lines = [i \in 1 .. n |-> [id |-> sent - n + i, live |-> FALSE]]
  BY <1>3
<1> HIDE DEF w, old, lines
<1>5. sent <= MaxSent
  BY <1>1, UnsentFinite DEF MessagesOK
<1>6. /\ lines \in Seq(Lines) /\ Len(lines) = n
      /\ \A i \in 1 .. n : lines[i].id = sent - n + i /\ lines[i].live = FALSE
  <2>1. \A i \in 1 .. n : [id |-> sent - n + i, live |-> FALSE] \in Lines
    BY <1>1, <1>3, <1>5 DEF Lines
  <2> QED
    BY <1>4, <2>1
<1>7. QueueOK' /\ SameOrder /\ task' = [task EXCEPT ![t] = Idle]
  BY <1>1, DoneQueue, ReplyOrder, NewTasks
<1>8. MessagesOK'
  <2>1. blocked' \subseteq Users /\ banned' \subseteq Users
    BY <1>1 DEF MessagesOK
  <2> QED
    BY <1>1, <1>7, <2>1, NewTasks, SameMessages
<1>9. PendingInOrder' /\ Emitted' = Emitted
  BY <1>1, <1>2, <1>7, NewTasks, TaskChanged, PendingSame
<1>10. \A v \in Viewers : v # w => screen'[v] = screen[v] /\ entered'[v] = entered[v]
  BY <1>1 DEF PagesOK
<1>11. \A m \in Emitted : m \in 1 .. sent
  BY DEF Emitted
<1>12. ASSUME w \in Viewers
       PROVE  /\ screen'[w] = screen[w] \o lines /\ screen'[w] \in Seq(Lines)
              /\ entered'[w] /\ ~entered[w] /\ joined[w]
              /\ Len(screen[w]) \in Nat /\ DOMAIN screen[w] = 1 .. Len(screen[w])
              /\ DOMAIN screen'[w] = 1 .. Len(screen[w]) + n
              /\ \A i \in 1 .. Len(screen[w]) :
                   screen'[w][i] = screen[w][i] /\ screen'[w][i].live /\ screen'[w][i].id \in Nat
              /\ \A i \in 1 .. n :
                   /\ screen'[w][Len(screen[w]) + i].id = sent - n + i
                   /\ screen'[w][Len(screen[w]) + i].live = FALSE
  <2>1. w # Nobody /\ screen'[w] = screen[w] \o lines /\ entered'[w]
    BY <1>1, <1>12
  <2>2. ~entered[w] /\ joined[w] /\ screen[w] \in Seq(Lines) /\ Len(screen[w]) \in Nat
        /\ DOMAIN screen[w] = 1 .. Len(screen[w])
    BY <1>1, <1>2, <1>12, ScreenLines DEF PagesOK
  <2>3. \A i \in 1 .. Len(screen[w]) : screen[w][i].live /\ screen[w][i].id \in Nat
    BY <1>1, <1>12, <2>2, ScreenLines DEF PagesOK
  <2>4. /\ screen'[w] \in Seq(Lines) /\ Len(screen'[w]) = Len(screen[w]) + n
        /\ \A i \in 1 .. Len(screen[w]) : screen'[w][i] = screen[w][i]
        /\ \A i \in 1 .. n : screen'[w][Len(screen[w]) + i] = lines[i]
    <3>1. /\ screen[w] \o lines \in Seq(Lines) /\ Len(screen[w] \o lines) = Len(screen[w]) + n
          /\ \A i \in 1 .. Len(screen[w]) + n :
               (screen[w] \o lines)[i] =
                 IF i <= Len(screen[w]) THEN screen[w][i] ELSE lines[i - Len(screen[w])]
      <4> DEFINE s == screen[w]
      <4>1. s \in Seq(Lines) /\ lines \in Seq(Lines) /\ Len(lines) = n
        BY <1>6, <2>2
      <4> HIDE DEF s
      <4>2. /\ s \o lines \in Seq(Lines) /\ Len(s \o lines) = Len(s) + Len(lines)
            /\ \A i \in 1 .. Len(s) + Len(lines) :
                 (s \o lines)[i] = IF i <= Len(s) THEN s[i] ELSE lines[i - Len(s)]
        BY <4>1, ConcatProperties, Zenon
      <4> QED
        BY <4>1, <4>2, Zenon DEF s
    <3>2. \A i \in 1 .. Len(screen[w]) : i \in 1 .. Len(screen[w]) + n /\ i <= Len(screen[w])
      BY <2>2
    <3>3. \A i \in 1 .. n :
            /\ Len(screen[w]) + i \in 1 .. Len(screen[w]) + n /\ ~(Len(screen[w]) + i <= Len(screen[w]))
            /\ Len(screen[w]) + i - Len(screen[w]) = i
      BY <2>2
    <3> QED
      BY <2>1, <3>1, <3>2, <3>3
  <2> QED
    BY <1>6, <2>1, <2>2, <2>3, <2>4
<1>13. PagesOK'
  <2>1. \A u \in Tasks, v \in Viewers :
          task'[u] = Entering(v) => u # t /\ task[u] = Entering(v)
    BY <1>1, <1>7 DEF Entering, Idle
  <2>2. \A u \in Tasks, v \in Viewers : task'[u] = Entering(v) => v # w
    BY <1>1, <1>2, <2>1 DEF PagesOK
  <2>3. joined' \in [Viewers -> BOOLEAN] /\ entered' \in [Viewers -> BOOLEAN]
    BY <1>1 DEF PagesOK
  <2>4. screen' \in [Viewers -> Seq(Lines)]
    <3>1. \A v \in Viewers : screen'[v] \in Seq(Lines)
      BY <1>1, <1>10, <1>12, ScreenLines
    <3> QED
      BY <1>1, <3>1
  <2>5. \A v \in Viewers : entered'[v] => joined'[v]
    BY <1>1, <1>10, <1>12 DEF PagesOK
  <2>6. \A v \in Viewers : ~joined'[v] => screen'[v] = <<>>
    BY <1>1, <1>10, <1>12 DEF PagesOK
  <2>7. \A v \in Viewers : ~entered'[v] => \A i \in DOMAIN screen'[v] : screen'[v][i].live
    BY <1>1, <1>10, <1>12 DEF PagesOK
  <2>8. \A u \in Tasks, v \in Viewers : task'[u] = Entering(v) => joined'[v] /\ ~entered'[v]
    BY <1>1, <1>10, <2>1, <2>2 DEF PagesOK
  <2>9. \A s, u \in Tasks, v \in Viewers : task'[s] = Entering(v) /\ task'[u] = Entering(v) => s = u
    BY <1>1, <2>1 DEF PagesOK
  <2> QED
    BY <2>3, <2>4, <2>5, <2>6, <2>7, <2>8, <2>9, Zenon DEF PagesOK
<1>14. ASSUME NEW v \in Viewers PROVE LinesOK(v)'
  <2>1. LinesOK(v)
    BY DEF RoomInv
  <2>2. CASE v # w
    BY <1>1, <1>9, <1>10, <2>1, <2>2 DEF LinesOK, ShownIds
  <2>3. CASE v = w
    <3> DEFINE l == Len(screen[v])
    <3>1. /\ l \in Nat /\ DOMAIN screen[v] = 1 .. l /\ DOMAIN screen'[v] = 1 .. l + n
          /\ \A i \in 1 .. l :
               screen'[v][i] = screen[v][i] /\ screen'[v][i].live /\ screen'[v][i].id \in Nat
          /\ \A i \in 1 .. n : screen'[v][l + i].id = sent - n + i /\ screen'[v][l + i].live = FALSE
      BY <1>12, <2>3
    <3> HIDE DEF l
    <3>2. ASSUME NEW i \in DOMAIN screen'[v],
                 i \notin 1 .. l
          PROVE  \E d \in 1 .. n : i = l + d /\ screen'[v][i].id = sent - n + d
                                  /\ screen'[v][i].live = FALSE
      <4>1. i - l \in 1 .. n /\ l + (i - l) = i
        BY <3>1, <3>2
      <4> QED
        BY <3>1, <4>1
    <3>3. ASSUME NEW i \in DOMAIN screen'[v]
          PROVE  screen'[v][i].id <= sent' /\ (screen'[v][i].live => screen'[v][i].id \in Emitted')
      <4>1. CASE i \in 1 .. l
        BY <1>1, <1>9, <2>1, <3>1, <4>1 DEF LinesOK
      <4>2. CASE i \notin 1 .. l
        <5>1. PICK d \in 1 .. n : screen'[v][i].id = sent - n + d /\ screen'[v][i].live = FALSE
          BY <3>2, <4>2
        <5> QED
          BY <1>1, <5>1
      <4> QED
        BY <4>1, <4>2
    <3>4. ASSUME NEW i \in DOMAIN screen'[v], NEW j \in DOMAIN screen'[v],
                 i < j, screen'[v][i].live = screen'[v][j].live
          PROVE  screen'[v][i].id < screen'[v][j].id
      <4>1. CASE i \in 1 .. l /\ j \in 1 .. l
        BY <2>1, <3>1, <3>4, <4>1 DEF LinesOK
      <4>2. CASE i \notin 1 .. l /\ j \notin 1 .. l
        <5>1. PICK d \in 1 .. n : i = l + d /\ screen'[v][i].id = sent - n + d
          BY <3>2, <4>2
        <5>2. PICK e \in 1 .. n : j = l + e /\ screen'[v][j].id = sent - n + e
          BY <3>2, <4>2
        <5>3. d < e
          BY <3>1, <3>4, <5>1, <5>2
        <5>4. sent - n + d < sent - n + e
          BY <1>1, <5>3
        <5> QED
          BY <5>1, <5>2, <5>4
      <4>3. CASE i \in 1 .. l /\ j \notin 1 .. l
        BY <3>1, <3>2, <3>4, <4>3
      <4>4. CASE i \notin 1 .. l /\ j \in 1 .. l
        BY <3>1, <3>2, <3>4, <4>4
      <4> QED
        BY <4>1, <4>2, <4>3, <4>4
    <3>5. ASSUME NEW m \in Emitted', NEW k \in ShownIds(v)', k < m
          PROVE  m \in ShownIds(v)'
      <4>1. m \in Emitted /\ m \in 1 .. sent
        BY <1>9, <1>11
      <4>2. PICK i \in DOMAIN screen'[v] : k = screen'[v][i].id
        BY DEF ShownIds
      <4>3. CASE i \in 1 .. l
        <5>1. k \in ShownIds(v)
          BY <3>1, <4>2, <4>3 DEF ShownIds
        <5>2. m \in ShownIds(v)
          BY <2>1, <3>5, <4>1, <5>1 DEF LinesOK
        <5>3. PICK j \in 1 .. l : m = screen[v][j].id
          BY <3>1, <5>2 DEF ShownIds
        <5>4. j \in DOMAIN screen'[v] /\ screen'[v][j].id = m
          BY <3>1, <5>3
        <5> QED
          BY <5>4 DEF ShownIds
      <4>4. CASE i \notin 1 .. l
        <5>0. PICK d \in 1 .. n : screen'[v][i].id = sent - n + d
          BY <3>2, <4>4
        <5>1. k \in Nat /\ k >= sent - n + 1
          BY <1>1, <1>3, <4>2, <5>0
        <5>2. m - (sent - n) \in 1 .. n /\ sent - n + (m - (sent - n)) = m
          BY <1>1, <3>5, <4>1, <5>1
        <5>3. /\ l + (m - (sent - n)) \in DOMAIN screen'[v]
              /\ screen'[v][l + (m - (sent - n))].id = m
          BY <3>1, <5>2
        <5> QED
          BY <5>3 DEF ShownIds
      <4> QED
        BY <4>3, <4>4
    <3> QED
      BY <3>3, <3>4, <3>5 DEF LinesOK
  <2> QED
    BY <2>2, <2>3
<1> QED
  BY <1>7, <1>8, <1>9, <1>13, <1>14 DEF RoomInv

LEMMA LeaveRoomStep ==
  ASSUME RoomInv, NEW v \in Viewers, LeaveRoom(v)
  PROVE  RoomInv'
<1>1. /\ MessagesOK /\ QueueOK /\ PendingInOrder /\ PagesOK
      /\ task \in [Tasks -> TaskTypes]
      /\ joined' = [joined EXCEPT ![v] = FALSE]
      /\ entered' = [entered EXCEPT ![v] = FALSE]
      /\ screen' = [screen EXCEPT ![v] = <<>>]
      /\ task' = [t \in Tasks |-> WithoutClient(task[t], v)]
      /\ UNCHANGED <<sent, cache, blocked, banned, wire>>
  BY DEF RoomInv, MessagesOK, LeaveRoom, bans
<1>2. ASSUME NEW t \in Tasks
      PROVE  \/ task'[t] = task[t] /\ task[t] # Entering(v)
             \/ task[t] = Entering(v) /\ task'[t] = Entering(Nobody)
  BY <1>1 DEF WithoutClient
<1>3. \A t \in Tasks : task'[t] \in TaskTypes /\ task'[t].pc = task[t].pc
  BY <1>1, <1>2, NewTasks
<1>4. MessagesOK'
  <2>1. Unsent' = Unsent
    BY <1>3 DEF Unsent
  <2> QED
    BY <1>1, <1>3, <2>1 DEF MessagesOK
<1>5. QueueOK'
  <2>1. \A t \in Tasks : task'[t] # Idle <=> task[t] # Idle
    BY <1>1, <1>3, TaskForms
  <2> QED
    BY <1>1, <2>1 DEF QueueOK
<1>6. PendingInOrder' /\ Emitted' = Emitted
  <2>1. Pending' = Pending /\ \A t \in Pending : task'[t].id = task[t].id
    BY <1>2, <1>3, NewTasks DEF Pending, Waits
  <2>2. SameOrder
    BY <1>1 DEF SameOrder
  <2> QED
    BY <1>1, <2>1, <2>2, PendingSame
<1>7. PagesOK'
  <2>1. \A t \in Tasks, w \in Viewers : task'[t] = Entering(w) => w # v /\ task[t] = Entering(w)
    BY <1>2 DEF Entering
  <2>2. \A w \in Viewers : w # v =>
          joined'[w] = joined[w] /\ entered'[w] = entered[w] /\ screen'[w] = screen[w]
    BY <1>1 DEF PagesOK
  <2>3. ~joined'[v] /\ ~entered'[v] /\ screen'[v] = <<>> /\ DOMAIN screen'[v] = {}
    BY <1>1 DEF PagesOK
  <2>4. joined' \in [Viewers -> BOOLEAN] /\ entered' \in [Viewers -> BOOLEAN]
    BY <1>1 DEF PagesOK
  <2>5. screen' \in [Viewers -> Seq(Lines)]
    <3>1. <<>> \in Seq(Lines)
      BY EmptySeq
    <3> QED
      BY <1>1, <3>1 DEF PagesOK
  <2>6. \A w \in Viewers : entered'[w] => joined'[w]
    BY <1>1, <2>2, <2>3 DEF PagesOK
  <2>7. \A w \in Viewers : ~joined'[w] => screen'[w] = <<>>
    BY <1>1, <2>2, <2>3 DEF PagesOK
  <2>8. \A w \in Viewers : ~entered'[w] => \A i \in DOMAIN screen'[w] : screen'[w][i].live
    BY <1>1, <2>2, <2>3 DEF PagesOK
  <2>9. \A t \in Tasks, w \in Viewers : task'[t] = Entering(w) => joined'[w] /\ ~entered'[w]
    BY <1>1, <2>1, <2>2 DEF PagesOK
  <2>10. \A t, u \in Tasks, w \in Viewers : task'[t] = Entering(w) /\ task'[u] = Entering(w) => t = u
    BY <1>1, <2>1 DEF PagesOK
  <2> QED
    BY <2>4, <2>5, <2>6, <2>7, <2>8, <2>9, <2>10, Zenon DEF PagesOK
<1>8. ASSUME NEW w \in Viewers PROVE LinesOK(w)'
  <2>1. CASE w = v
    <3>1. screen'[w] = <<>>
      BY <1>1, <2>1 DEF PagesOK
    <3> QED
      BY <3>1 DEF LinesOK, ShownIds
  <2>2. CASE w # v
    <3>1. screen'[w] = screen[w] /\ LinesOK(w)
      BY <1>1, <2>2 DEF RoomInv
    <3> QED
      BY <1>1, <1>6, <3>1 DEF LinesOK, ShownIds
  <2> QED
    BY <2>1, <2>2
<1> QED
  BY <1>4, <1>5, <1>6, <1>7, <1>8 DEF RoomInv

LEMMA FlushStep ==
  ASSUME RoomInv, Flush
  PROVE  RoomInv'
<1>1. /\ MessagesOK /\ QueueOK /\ PendingInOrder /\ PagesOK
      /\ UNCHANGED <<sent, blocked, banned, joined, entered, screen, task, wire>>
  BY DEF RoomInv, Flush, bans, pages
<1>2. PICK n \in 1 .. Len(cache) : cache' = SubSeq(cache, n + 1, Len(cache))
  BY DEF Flush
<1>3. cache \in Seq(Contents) /\ Len(cache) \in Nat /\ Len(cache) <= sent /\ sent \in Nat
  BY <1>1 DEF MessagesOK
<1>4. cache' \in Seq(Contents) /\ Len(cache') <= sent
  <2>1. \A i \in n + 1 .. Len(cache) : cache[i] \in Contents
    BY <1>2, <1>3
  <2> QED
    BY <1>2, <1>3, <2>1, SubSeqProperties
<1>5. MessagesOK'
  BY <1>1, <1>4 DEF MessagesOK, Unsent
<1>6. QueueOK' /\ PendingInOrder' /\ PagesOK'
  BY <1>1 DEF QueueOK, PendingInOrder, PagesOK, Pending, Waits, Emitted
<1>7. \A v \in Viewers : LinesOK(v)'
  BY <1>1 DEF RoomInv, LinesOK, ShownIds, Emitted, Waits
<1> QED
  BY <1>5, <1>6, <1>7 DEF RoomInv

-----------------------------------------------------------------------------
(* The theorems. *)

LEMMA RoomNext == RoomInv /\ [Next]_vars => RoomInv'
<1> SUFFICES ASSUME RoomInv, [Next]_vars PROVE RoomInv'
  OBVIOUS
<1>1. ASSUME NEW t \in Tasks, Request(t) PROVE RoomInv'
  <2>1. CASE \E m \in Contents : NewMessage(t, m)
    BY <2>1, NewMessageStep
  <2>2. CASE (\E u \in Users : BlockUser(t, u)) \/ DeleteBlockUser(t)
    BY <2>2, BlockStep
  <2>3. CASE \E v \in Viewers : EnterRoom(t, v)
    BY <2>3, EnterRoomStep
  <2> QED
    BY <1>1, <2>1, <2>2, <2>3 DEF Request
<1>2. ASSUME NEW t \in Tasks, Continue(t) PROVE RoomInv'
  BY <1>2, CheckBlockedStep, CheckRecentStep, AddStep, EmitStep, BlockStep, HistoryStep
     DEF Continue
<1>3. ASSUME NEW v \in Viewers, LeaveRoom(v) PROVE RoomInv'
  BY <1>3, LeaveRoomStep
<1>4. CASE Flush
  BY <1>4, FlushStep
<1>5. CASE UNCHANGED vars
  BY <1>5 DEF vars, RoomInv, MessagesOK, QueueOK, PendingInOrder, PagesOK, LinesOK,
              Unsent, Pending, Waits, Emitted, ShownIds
<1> QED
  BY <1>1, <1>2, <1>3, <1>4, <1>5 DEF Next

\* The invariant of the room: the handlers at work are the queue of the shared
\* connection, the messages stored and not yet emitted are the newest ones and
\* wait in their order, and every page shows each kind of line in order and,
\* once it shows a message, every later one that has been emitted.
THEOREM RoomInvariant == Spec => []RoomInv
BY RoomInit, RoomNext, PTL DEF Spec

\* Type correctness, with the queue: each handler at work waits for one reply.
THEOREM RoomTypeCorrect == Spec => []TypeOK
<1>1. RoomInv => TypeOK
  <2> SUFFICES ASSUME RoomInv PROVE TypeOK
    OBVIOUS
  <2>1. MessagesOK /\ QueueOK /\ PagesOK
    BY DEF RoomInv
  <2>2. sent \in 0 .. MaxSent
    BY <2>1, UnsentFinite DEF MessagesOK
  <2>3. ASSUME NEW t \in Tasks
        PROVE  Cardinality({i \in DOMAIN wire : wire[i] = t}) = (IF task[t] = Idle THEN 0 ELSE 1)
    <3>1. CASE task[t] = Idle
      <4>1. {i \in DOMAIN wire : wire[i] = t} = {}
        BY <2>1, <3>1 DEF QueueOK
      <4> QED
        BY <3>1, <4>1, FS_EmptySet
    <3>2. CASE task[t] # Idle
      <4>1. PICK i \in DOMAIN wire : wire[i] = t
        BY <2>1, <3>2 DEF QueueOK
      <4>2. {j \in DOMAIN wire : wire[j] = t} = {i}
        BY <2>1, <4>1 DEF QueueOK
      <4> QED
        BY <3>2, <4>2, FS_Singleton
    <3> QED
      BY <3>1, <3>2
  <2> QED
    BY <2>1, <2>2, <2>3 DEF TypeOK, MessagesOK, QueueOK, PagesOK
<1> QED
  BY <1>1, RoomInvariant, PTL

\* A viewer whose history has come misses no emitted message after the first
\* one on its page, whatever was sent while it entered.
THEOREM NoneMissed == Spec => []NoMissedMessage
<1>1. RoomInv => NoMissedMessage
  BY DEF RoomInv, LinesOK, NoMissedMessage
<1> QED
  BY <1>1, RoomInvariant, PTL

\* The live messages of a page are in the order in which they were stored,
\* whichever handler emitted them.
THEOREM LiveLinesInOrder == Spec => []LiveInOrder
<1>1. RoomInv => LiveInOrder
  BY DEF RoomInv, LinesOK, LiveInOrder
<1> QED
  BY <1>1, RoomInvariant, PTL

\* No message is on a page more than twice: once from the history and once
\* when it was emitted.
THEOREM ShownAtMostTwice == Spec => []AtMostTwice
<1>1. ASSUME RoomInv, NEW v \in Viewers, NEW m \in 1 .. MaxSent
      PROVE  Cardinality({i \in DOMAIN screen[v] : screen[v][i].id = m}) <= 2
  <2> DEFINE live == {i \in DOMAIN screen[v] : screen[v][i].id = m /\ screen[v][i].live}
             old == {i \in DOMAIN screen[v] : screen[v][i].id = m /\ ~screen[v][i].live}
  <2>1. PagesOK /\ LinesOK(v)
    BY <1>1 DEF RoomInv
  <2>2. /\ DOMAIN screen[v] = 1 .. Len(screen[v]) /\ Len(screen[v]) \in Nat
        /\ \A i \in DOMAIN screen[v] : screen[v][i].id \in Nat
    BY <2>1, ScreenLines
  <2>3. \A i \in DOMAIN screen[v] : screen[v][i].live \in BOOLEAN
    BY <2>1, ScreenLines, Zenon DEF Lines
  <2>4. \A i, j \in DOMAIN screen[v] :
          screen[v][i].id = screen[v][j].id /\ screen[v][i].live = screen[v][j].live => i = j
    <3>1. \A i, j \in DOMAIN screen[v] : i < j \/ j < i \/ i = j
      BY <2>2
    <3>2. \A i, j \in DOMAIN screen[v] :
            i < j /\ screen[v][i].live = screen[v][j].live => screen[v][i].id # screen[v][j].id
      BY <2>1, <2>2 DEF LinesOK
    <3> QED
      BY <3>1, <3>2
  <2>5. \A i, j \in live : i = j
    BY <2>3, <2>4
  <2>6. \A i, j \in old : i = j
    BY <2>3, <2>4
  <2>7. \A S : (\A i, j \in S : i = j) => IsFiniteSet(S) /\ Cardinality(S) \in {0, 1}
    <3> SUFFICES ASSUME NEW S, \A i, j \in S : i = j
                 PROVE  IsFiniteSet(S) /\ Cardinality(S) \in {0, 1}
      OBVIOUS
    <3>1. CASE S = {}
      BY <3>1, FS_EmptySet
    <3>2. CASE S # {}
      <4>1. PICK i : S = {i}
        BY <3>2
      <4> QED
        BY <4>1, FS_Singleton
    <3> QED
      BY <3>1, <3>2
  <2>8. {i \in DOMAIN screen[v] : screen[v][i].id = m} = live \union old
    OBVIOUS
  <2> HIDE DEF live, old
  <2>9. IsFiniteSet(live) /\ Cardinality(live) \in {0, 1}
    BY <2>5, <2>7
  <2>10. IsFiniteSet(old) /\ Cardinality(old) \in {0, 1}
    BY <2>6, <2>7
  <2>11. /\ Cardinality(live \union old) =
              Cardinality(live) + Cardinality(old) - Cardinality(live \cap old)
         /\ Cardinality(live \cap old) \in Nat
    BY <2>9, <2>10, FS_Union, FS_Intersection, FS_CardinalityType
  <2>12. Cardinality(live \union old) <= 2
    BY <2>9, <2>10, <2>11
  <2> QED
    BY <2>8, <2>12
<1>2. RoomInv => AtMostTwice
  BY <1>1 DEF AtMostTwice
<1> QED
  BY <1>2, RoomInvariant, PTL

-----------------------------------------------------------------------------
(* The flood filter.  A handler that has passed it waits with "add"; those    *)
(* before it in the queue may each add one like message more, and each of     *)
(* them has one turn before it.                                               *)

LikeAt(x, lo, hi) == {j \in DOMAIN cache : j \in lo .. hi /\ SameContent(cache[j], x)}
RecentLike(x) == {i \in DOMAIN cache : i + Recent > Len(cache) /\ SameContent(cache[i], x)}

WindowsBounded ==
  \A i \in DOMAIN cache, x \in Contents :
    Cardinality(LikeAt(x, i, i + Recent)) <= Cardinality(Tasks) + 1
PassedBounded ==
  \A i \in DOMAIN wire : task[wire[i]].pc = "add" =>
    Same(task[wire[i]].msg) + i <= Cardinality(Tasks) + 1

LEMMA LikeFinite ==
  ASSUME MessagesOK, NEW x, NEW lo \in Nat, NEW hi \in Nat
  PROVE  /\ IsFiniteSet(LikeAt(x, lo, hi)) /\ Cardinality(LikeAt(x, lo, hi)) \in Nat
         /\ IsFiniteSet(RecentLike(x)) /\ Cardinality(RecentLike(x)) \in Nat
         /\ Same(x) = Cardinality(RecentLike(x))
<1>1. DOMAIN cache = 1 .. Len(cache) /\ Len(cache) \in Nat
  BY DEF MessagesOK
<1>2. IsFiniteSet(DOMAIN cache)
  BY <1>1, FS_Interval
<1>3. LikeAt(x, lo, hi) \subseteq DOMAIN cache /\ RecentLike(x) \subseteq DOMAIN cache
  BY DEF LikeAt, RecentLike
<1>4. IsFiniteSet(LikeAt(x, lo, hi)) /\ IsFiniteSet(RecentLike(x))
  BY <1>2, <1>3, FS_Subset
<1> QED
  BY <1>4, FS_CardinalityType DEF Same, RecentLike

LEMMA SameCount ==
  ASSUME MessagesOK, NEW x
  PROVE  Same(x) = Cardinality(RecentLike(x)) /\ Same(x) \in Nat
BY LikeFinite, 0 \in Nat

LEMMA TasksCount == Cardinality(Tasks) \in Nat
BY FS_CardinalityType

\* The queue is no longer than there are handlers.
LEMMA QueueBounded ==
  ASSUME QueueOK
  PROVE  Len(wire) <= Cardinality(Tasks)
<1>1. wire \in Seq(Tasks) /\ DOMAIN wire = 1 .. Len(wire) /\ Len(wire) \in Nat
  BY DEF QueueOK
<1>2. wire \in Injection(1 .. Len(wire), Tasks)
  <2>1. wire \in [1 .. Len(wire) -> Tasks]
    BY <1>1
  <2> QED
    BY <1>1, <2>1 DEF QueueOK, Injection, IsInjective
<1>3. Cardinality(1 .. Len(wire)) <= Cardinality(Tasks)
  BY <1>2, FS_Injection
<1>4. Cardinality(1 .. Len(wire)) = Len(wire)
  BY <1>1, FS_Interval
<1> QED
  BY <1>3, <1>4

\* A handler that has passed the filter moves up in the queue while nothing is
\* added: it keeps its place or has one fewer before it.
LEMMA PassedStays ==
  ASSUME RoomInv, RoomInv', PassedBounded, cache' = cache,
         \A i \in DOMAIN wire' : task'[wire'[i]].pc = "add" =>
           \/ Same(task'[wire'[i]].msg) + i <= Cardinality(Tasks) + 1
           \/ \E j \in DOMAIN wire :
                i <= j /\ wire[j] = wire'[i] /\ task[wire[j]] = task'[wire'[i]]
  PROVE  PassedBounded'
<1>1. \A x : Same(x)' = Same(x)
  BY DEF Same
<1>2. MessagesOK /\ wire \in Seq(Tasks) /\ wire' \in Seq(Tasks)
  BY DEF RoomInv, QueueOK
<1> SUFFICES ASSUME NEW i \in DOMAIN wire', task'[wire'[i]].pc = "add"
             PROVE  Same(task'[wire'[i]].msg) + i <= Cardinality(Tasks) + 1
  BY <1>1 DEF PassedBounded
<1>3. CASE Same(task'[wire'[i]].msg) + i <= Cardinality(Tasks) + 1
  BY <1>3
<1>4. CASE \E j \in DOMAIN wire :
             i <= j /\ wire[j] = wire'[i] /\ task[wire[j]] = task'[wire'[i]]
  <2>1. PICK j \in DOMAIN wire : i <= j /\ wire[j] = wire'[i] /\ task[wire[j]] = task'[wire'[i]]
    BY <1>4
  <2>2. Same(task[wire[j]].msg) + j <= Cardinality(Tasks) + 1
    BY <2>1 DEF PassedBounded
  <2>3. i \in Nat /\ j \in Nat /\ Same(task[wire[j]].msg) \in Nat
    BY <1>2, SameCount
  <2> QED
    BY <2>1, <2>2, <2>3, TasksCount
<1> QED
  BY <1>3, <1>4

LEMMA WindowsStay ==
  ASSUME WindowsBounded, cache' = cache
  PROVE  WindowsBounded'
BY DEF WindowsBounded, LikeAt

\* A handler that starts is not past the filter.
LEMMA StartKeepsFilter ==
  ASSUME RoomInv, RoomInv', WindowsBounded, PassedBounded, cache' = cache,
         NEW t \in Tasks, NEW k, k # Idle, k.pc # "add", Start(t, k)
  PROVE  WindowsBounded' /\ PassedBounded'
<1>1. QueueOK /\ task \in [Tasks -> TaskTypes]
  BY DEF RoomInv, MessagesOK
<1>2. /\ task[t] = Idle /\ task' = [task EXCEPT ![t] = k]
      /\ Len(wire) \in Nat /\ DOMAIN wire = 1 .. Len(wire)
      /\ DOMAIN wire' = 1 .. Len(wire) + 1
      /\ wire'[Len(wire) + 1] = t
      /\ \A i \in 1 .. Len(wire) : wire'[i] = wire[i]
  BY <1>1, StartQueue
<1>3. task'[t] = k
  BY <1>1, <1>2
<1>4. ASSUME NEW i \in DOMAIN wire', task'[wire'[i]].pc = "add"
      PROVE  \E j \in DOMAIN wire :
               i <= j /\ wire[j] = wire'[i] /\ task[wire[j]] = task'[wire'[i]]
  <2>1. wire'[i] # t
    BY <1>3, <1>4
  <2>2. i \in DOMAIN wire /\ wire[i] = wire'[i] /\ wire[i] \in Tasks
    BY <1>1, <1>2, <2>1 DEF QueueOK
  <2>3. task[wire[i]] = task'[wire'[i]] /\ i <= i
    BY <1>1, <1>2, <2>1, <2>2
  <2> QED
    BY <2>2, <2>3
<1> QED
  BY <1>4, PassedStays, WindowsStay

\* The reply of one handler moves up all the others.
LEMMA MovedUp ==
  ASSUME RoomInv, NEW t \in Tasks, NEW pc, Reply(t, pc), NEW k,
         Done(t) \/ (k # Idle /\ Then(t, k)),
         NEW i \in DOMAIN wire', wire'[i] # t
  PROVE  /\ i \in Nat /\ i + 1 \in DOMAIN wire
         /\ wire[i + 1] = wire'[i] /\ task[wire[i + 1]] = task'[wire'[i]]
<1>1. QueueOK /\ task \in [Tasks -> TaskTypes] /\ wire \in Seq(Tasks)
  BY DEF RoomInv, MessagesOK, QueueOK
<1>2. CASE Done(t)
  <2>0. /\ task' = [task EXCEPT ![t] = Idle]
        /\ DOMAIN wire' = 1 .. Len(wire) - 1 /\ DOMAIN wire = 1 .. Len(wire) /\ Len(wire) \in Nat \ {0}
        /\ \A j \in 1 .. Len(wire) - 1 : wire'[j] = wire[j + 1]
    BY <1>1, <1>2, DoneQueue
  <2>1. i \in Nat /\ i + 1 \in DOMAIN wire /\ wire[i + 1] = wire'[i]
        /\ task' = [task EXCEPT ![t] = Idle]
    BY <2>0
  <2>2. wire[i + 1] \in Tasks
    BY <1>1, <2>1
  <2> QED
    BY <1>1, <2>1, <2>2
<1>3. CASE k # Idle /\ Then(t, k)
  <2>1. /\ task' = [task EXCEPT ![t] = k]
        /\ DOMAIN wire' = 1 .. Len(wire) /\ DOMAIN wire = 1 .. Len(wire) /\ Len(wire) \in Nat \ {0}
        /\ wire'[Len(wire)] = t
        /\ \A j \in 1 .. Len(wire) - 1 : wire'[j] = wire[j + 1]
    BY <1>1, <1>3, ThenQueue
  <2>2. i # Len(wire)
    BY <2>1
  <2>3. i \in Nat /\ i + 1 \in DOMAIN wire /\ wire[i + 1] = wire'[i]
    BY <2>1, <2>2
  <2>4. wire[i + 1] \in Tasks
    BY <1>1, <2>3
  <2> QED
    BY <1>1, <2>1, <2>3, <2>4
<1> QED
  BY <1>2, <1>3

LEMMA ReplyKeepsFilter ==
  ASSUME RoomInv, RoomInv', WindowsBounded, PassedBounded, cache' = cache,
         NEW t \in Tasks, NEW pc, Reply(t, pc), NEW k, k.pc # "add",
         Done(t) \/ (k # Idle /\ Then(t, k))
  PROVE  WindowsBounded' /\ PassedBounded'
<1>1. QueueOK /\ task \in [Tasks -> TaskTypes]
  BY DEF RoomInv, MessagesOK
<1>2. task'[t].pc # "add"
  BY <1>1, NewTasks DEF Done, Then
<1>3. ASSUME NEW i \in DOMAIN wire', task'[wire'[i]].pc = "add"
      PROVE  \E j \in DOMAIN wire :
               i <= j /\ wire[j] = wire'[i] /\ task[wire[j]] = task'[wire'[i]]
  <2>1. wire'[i] # t
    BY <1>2, <1>3
  <2>2. /\ i \in Nat /\ i + 1 \in DOMAIN wire
        /\ wire[i + 1] = wire'[i] /\ task[wire[i + 1]] = task'[wire'[i]]
    BY <2>1, MovedUp
  <2>3. i <= i + 1
    BY <2>2
  <2> QED
    BY <2>2, <2>3
<1> QED
  BY <1>3, PassedStays, WindowsStay

\* Whom the filter lets through has at most one like message before it, and
\* queues up behind all the others.
LEMMA CheckRecentFilter ==
  ASSUME RoomInv, RoomInv', WindowsBounded, PassedBounded, NEW t \in Tasks, CheckRecent(t)
  PROVE  WindowsBounded' /\ PassedBounded'
<1>1. /\ MessagesOK /\ QueueOK /\ task \in [Tasks -> TaskTypes]
      /\ Reply(t, "recent") /\ cache' = cache
  BY DEF RoomInv, MessagesOK, CheckRecent
<1>2. CASE Done(t)
  BY <1>1, <1>2, NewTasks, ReplyKeepsFilter
<1> DEFINE m == task[t].msg
           k == Sending("add", m)
<1>3. CASE ~TooManySame(Same(m)) /\ Then(t, k)
  <2>1. m \in Contents
    BY <1>1, TaskForms DEF Reply
  <2>2. k # Idle /\ k.pc = "add" /\ k.msg = m
    BY <2>1, NewTasks DEF Sending
  <2>3. Same(m) \in Nat /\ Same(m) <= 1
    BY <1>1, <1>3, SameCount DEF TooManySame
  <2> HIDE DEF m, k
  <2>4. /\ task' = [task EXCEPT ![t] = k]
        /\ DOMAIN wire' = 1 .. Len(wire) /\ Len(wire) \in Nat
    BY <1>1, <1>3, <2>2, ThenQueue
  <2>5. Len(wire) <= Cardinality(Tasks)
    BY <1>1, QueueBounded
  <2>6. ASSUME NEW i \in DOMAIN wire', task'[wire'[i]].pc = "add"
        PROVE  \/ Same(task'[wire'[i]].msg) + i <= Cardinality(Tasks) + 1
               \/ \E j \in DOMAIN wire :
                    i <= j /\ wire[j] = wire'[i] /\ task[wire[j]] = task'[wire'[i]]
    <3>1. CASE wire'[i] = t
      <4>1. task'[wire'[i]].msg = m
        BY <1>1, <2>2, <2>4, <3>1
      <4>2. Same(m) + i <= Cardinality(Tasks) + 1
        BY <2>3, <2>4, <2>5, TasksCount
      <4> QED
        BY <4>1, <4>2
    <3>2. CASE wire'[i] # t
      <4>1. /\ i \in Nat /\ i + 1 \in DOMAIN wire
            /\ wire[i + 1] = wire'[i] /\ task[wire[i + 1]] = task'[wire'[i]]
        BY <1>1, <1>3, <2>2, <3>2, MovedUp
      <4>2. i <= i + 1
        BY <4>1
      <4> QED
        BY <4>1, <4>2
    <3> QED
      BY <3>1, <3>2
  <2> QED
    BY <1>1, <2>6, PassedStays, WindowsStay
<1> QED
  BY <1>2, <1>3 DEF CheckRecent

LEMMA ContentsLike ==
  ASSUME NEW m, NEW x, SameContent(m, x), NEW old
  PROVE  SameContent(old, x) <=> SameContent(old, m)
BY DEF SameContent

LEMMA AddFilter ==
  ASSUME RoomInv, RoomInv', WindowsBounded, PassedBounded, NEW t \in Tasks, Add(t)
  PROVE  WindowsBounded' /\ PassedBounded'
<1> DEFINE m == task[t].msg
           k == Emitting(m, sent + 1)
           n == Len(cache)
<1>1. /\ MessagesOK /\ QueueOK /\ task \in [Tasks -> TaskTypes] /\ wire \in Seq(Tasks)
      /\ Reply(t, "add") /\ Then(t, k) /\ cache' = Append(cache, m)
  BY DEF RoomInv, MessagesOK, QueueOK, Add
<1>2. m \in Contents /\ task[t].pc = "add" /\ k # Idle /\ k.pc = "len"
  BY <1>1, TaskForms DEF Reply, Emitting, Idle
<1>3. MessagesOK'
  BY DEF RoomInv
<1>4. /\ n \in Nat /\ DOMAIN cache = 1 .. n /\ DOMAIN cache' = 1 .. n + 1 /\ Len(cache') = n + 1
      /\ cache'[n + 1] = m
      /\ \A i \in 1 .. n : cache'[i] = cache[i]
  BY <1>1, <1>2 DEF MessagesOK
\* The handler was the head of the queue.
<1>5. Same(m) <= Cardinality(Tasks)
  <2>1. 1 \in DOMAIN wire /\ wire[1] = t
    BY <1>1, AtReply
  <2>2. Same(m) + 1 <= Cardinality(Tasks) + 1
    BY <1>2, <2>1 DEF PassedBounded
  <2> QED
    BY <1>1, <2>2, SameCount, TasksCount
<1>6. \A x : Same(x)' <= Same(x) + 1 /\ Same(x)' \in Nat
  <2> SUFFICES ASSUME NEW x PROVE Same(x)' <= Same(x) + 1 /\ Same(x)' \in Nat
    OBVIOUS
  <2>1. RecentLike(x)' \subseteq RecentLike(x) \union {n + 1}
    BY <1>4 DEF RecentLike
  <2>2. IsFiniteSet(RecentLike(x)) /\ Same(x) = Cardinality(RecentLike(x)) /\ Same(x) \in Nat
    BY <1>1, LikeFinite, SameCount, 0 \in Nat
  <2>3. n + 1 \notin RecentLike(x)
    BY <1>4 DEF RecentLike
  <2>4. /\ IsFiniteSet(RecentLike(x) \union {n + 1})
        /\ Cardinality(RecentLike(x) \union {n + 1}) = Same(x) + 1
    BY <2>2, <2>3, FS_AddElement
  <2>5. Cardinality(RecentLike(x)') <= Same(x) + 1 /\ Cardinality(RecentLike(x)') \in Nat
    BY <2>1, <2>4, FS_Subset, FS_CardinalityType
  <2> QED
    BY <2>5 DEF Same, RecentLike
<1>7. PassedBounded'
  <2> SUFFICES ASSUME NEW i \in DOMAIN wire', task'[wire'[i]].pc = "add",
                      NEW x, x = task'[wire'[i]].msg
               PROVE  Same(x)' + i <= Cardinality(Tasks) + 1
    BY DEF PassedBounded, Same
  <2>1. task'[t] = k
    BY <1>1 DEF Then
  <2>2. wire'[i] # t
    BY <1>2, <2>1
  <2>3. /\ i \in Nat /\ i + 1 \in DOMAIN wire
        /\ wire[i + 1] = wire'[i] /\ task[wire[i + 1]] = task'[wire'[i]]
    BY <1>1, <1>2, <2>2, MovedUp
  <2>4. Same(x) + (i + 1) <= Cardinality(Tasks) + 1
    BY <2>3 DEF PassedBounded
  <2>5. Same(x)' <= Same(x) + 1
    BY <1>6
  <2>6. Same(x) \in Nat /\ Same(x)' \in Nat
    BY <1>1, <1>6, SameCount
  <2> QED
    BY <2>3, <2>4, <2>5, <2>6, TasksCount
<1>8. WindowsBounded'
  <2> SUFFICES ASSUME NEW i \in DOMAIN cache', NEW x \in Contents
               PROVE  Cardinality(LikeAt(x, i, i + Recent)') <= Cardinality(Tasks) + 1
    BY DEF WindowsBounded
  <2> DEFINE after == LikeAt(x, i, i + Recent)'
             before == LikeAt(x, i, i + Recent)
  <2>1. i \in Nat /\ i + Recent \in Nat /\ i \in 1 .. n + 1
    BY <1>4
  <2>2. /\ IsFiniteSet(before) /\ Cardinality(before) \in Nat
    BY <1>1, <2>1, LikeFinite
  <2>3. after \subseteq before \union {n + 1}
    BY <1>4, <2>1 DEF LikeAt
  <2>4. CASE n + 1 \notin after
    <3>1. after \subseteq before
      BY <2>3, <2>4
    <3>2. Cardinality(after) <= Cardinality(before)
      BY <2>2, <3>1, FS_Subset
    <3>3. Cardinality(before) <= Cardinality(Tasks) + 1
      <4>1. CASE i \in DOMAIN cache
        BY <4>1 DEF WindowsBounded
      <4>2. CASE i \notin DOMAIN cache
        <5>1. before = {}
          BY <1>4, <2>1, <4>2 DEF LikeAt
        <5> QED
          BY <5>1, FS_EmptySet, TasksCount
      <4> QED
        BY <4>1, <4>2
    <3>4. Cardinality(after) \in Nat
      BY <1>3, <2>2, <3>1, FS_Subset, FS_CardinalityType
    <3> QED
      BY <2>2, <3>2, <3>3, <3>4, TasksCount
  <2>5. CASE n + 1 \in after
    <3>1. SameContent(m, x) /\ n + 1 <= i + Recent
      BY <1>4, <2>1, <2>5 DEF LikeAt
    <3>2. after \subseteq RecentLike(m) \union {n + 1}
      <4>1. \A j : j \in before => j \in RecentLike(m)
        BY <1>4, <2>1, <3>1, ContentsLike DEF LikeAt, RecentLike
      <4> QED
        BY <2>3, <4>1
    <3>3. IsFiniteSet(RecentLike(m)) /\ Same(m) = Cardinality(RecentLike(m)) /\ Same(m) \in Nat
      BY <1>1, LikeFinite, SameCount, 0 \in Nat
    <3>4. n + 1 \notin RecentLike(m)
      BY <1>4 DEF RecentLike
    <3>5. /\ IsFiniteSet(RecentLike(m) \union {n + 1})
          /\ Cardinality(RecentLike(m) \union {n + 1}) = Same(m) + 1
      BY <3>3, <3>4, FS_AddElement
    <3>6. Cardinality(after) <= Same(m) + 1 /\ Cardinality(after) \in Nat
      BY <3>2, <3>5, FS_Subset, FS_CardinalityType
    <3> QED
      BY <1>5, <3>3, <3>6, TasksCount
  <2> QED
    BY <2>4, <2>5
<1> QED
  BY <1>7, <1>8

\* A flush takes like messages away.
LEMMA FlushFilter ==
  ASSUME RoomInv, RoomInv', WindowsBounded, PassedBounded, Flush
  PROVE  WindowsBounded' /\ PassedBounded'
<1> DEFINE l == Len(cache)
<1>1. MessagesOK /\ UNCHANGED <<task, wire>> /\ wire \in Seq(Tasks)
  BY DEF RoomInv, Flush, QueueOK
<1>2. PICK n \in 1 .. l : cache' = SubSeq(cache, n + 1, l)
  BY DEF Flush
<1>3. /\ l \in Nat /\ DOMAIN cache = 1 .. l
      /\ Len(cache') = l - n /\ DOMAIN cache' = 1 .. l - n
      /\ \A i \in 1 .. l - n : cache'[i] = cache[n + i]
  <2>1. cache \in Seq(Contents) /\ l \in Nat
    BY <1>1 DEF MessagesOK
  <2> QED
    BY <1>2, <2>1
<1>4. l \in Nat
  BY <1>3
<1>5. n \in Nat /\ 1 <= n /\ n <= l
  BY <1>4
\* Positions before the flush are n more than after it.
<1>6. ASSUME NEW S, NEW T, S \subseteq Nat, IsFiniteSet(T), \A j \in S : j + n \in T
      PROVE  Cardinality(S) <= Cardinality(T) /\ Cardinality(S) \in Nat
  <2> DEFINE f == [j \in S |-> j + n]
  <2>1. f \in Injection(S, T)
    <3>1. \A i, j \in S : f[i] = f[j] => i = j
      BY <1>2, <1>6
    <3>2. f \in [S -> T]
      BY <1>6
    <3> HIDE DEF f
    <3> QED
      BY <3>1, <3>2 DEF Injection, IsInjective
  <2> HIDE DEF f
  <2> QED
    BY <1>6, <2>1, FS_Injection, FS_CardinalityType
<1>7. ASSUME NEW x PROVE Same(x)' <= Same(x) /\ Same(x)' \in Nat /\ Same(x) \in Nat
  <2>1. RecentLike(x)' \subseteq Nat /\ \A j \in RecentLike(x)' : j + n \in RecentLike(x)
    BY <1>3, <1>5 DEF RecentLike
  <2>2. IsFiniteSet(RecentLike(x)) /\ Same(x) = Cardinality(RecentLike(x)) /\ Same(x) \in Nat
    BY <1>1, LikeFinite, SameCount, 0 \in Nat
  <2>3. Cardinality(RecentLike(x)') <= Same(x) /\ Cardinality(RecentLike(x)') \in Nat
    BY <1>6, <2>1, <2>2
  <2> QED
    BY <2>2, <2>3 DEF Same, RecentLike
<1>8. PassedBounded'
  <2> SUFFICES ASSUME NEW i \in DOMAIN wire', task'[wire'[i]].pc = "add",
                      NEW x, x = task'[wire'[i]].msg
               PROVE  Same(x)' + i <= Cardinality(Tasks) + 1
    BY DEF PassedBounded, Same
  <2>1. i \in Nat /\ Same(x) + i <= Cardinality(Tasks) + 1
    BY <1>1 DEF PassedBounded
  <2>2. Same(x)' <= Same(x) /\ Same(x)' \in Nat /\ Same(x) \in Nat
    BY <1>7
  <2> QED
    BY <2>1, <2>2, TasksCount
<1>9. WindowsBounded'
  <2> SUFFICES ASSUME NEW i \in DOMAIN cache', NEW x \in Contents
               PROVE  Cardinality(LikeAt(x, i, i + Recent)') <= Cardinality(Tasks) + 1
    BY DEF WindowsBounded
  <2> DEFINE after == LikeAt(x, i, i + Recent)'
             before == LikeAt(x, i + n, i + n + Recent)
  <2>1. i \in Nat /\ i + n \in DOMAIN cache
    BY <1>3, <1>5
  <2>2. i + n \in Nat /\ i + n + Recent \in Nat
    BY <1>5, <2>1, RoomBounds
  <2>3. IsFiniteSet(before) /\ Cardinality(before) \in Nat
    BY <1>1, <2>2, LikeFinite
  <2>4. after \subseteq Nat /\ \A j \in after : j + n \in before
    BY <1>3, <1>5, <2>1 DEF LikeAt
  <2>5. Cardinality(before) <= Cardinality(Tasks) + 1
    BY <2>1 DEF WindowsBounded
  <2> HIDE DEF after, before
  <2>6. Cardinality(after) <= Cardinality(before) /\ Cardinality(after) \in Nat
    BY <1>6, <2>3, <2>4
  <2>7. Cardinality(after) <= Cardinality(Tasks) + 1
    BY <2>3, <2>5, <2>6, TasksCount
  <2> QED
    BY <2>7 DEF after
<1> QED
  BY <1>8, <1>9

\* A viewer that leaves takes its history along; the handlers that send stay.
LEMMA LeaveRoomFilter ==
  ASSUME RoomInv, RoomInv', WindowsBounded, PassedBounded, NEW v \in Viewers, LeaveRoom(v)
  PROVE  WindowsBounded' /\ PassedBounded'
<1>1. /\ wire \in Seq(Tasks) /\ UNCHANGED <<cache, wire>>
      /\ task' = [t \in Tasks |-> WithoutClient(task[t], v)]
  BY DEF RoomInv, QueueOK, LeaveRoom
<1>2. ASSUME NEW i \in DOMAIN wire', task'[wire'[i]].pc = "add"
      PROVE  \E j \in DOMAIN wire :
               i <= j /\ wire[j] = wire'[i] /\ task[wire[j]] = task'[wire'[i]]
  <2>1. i \in DOMAIN wire /\ wire[i] \in Tasks /\ i <= i
    BY <1>1
  <2>2. task'[wire[i]] = task[wire[i]]
    BY <1>1, <1>2, <2>1 DEF WithoutClient, Entering
  <2> QED
    BY <1>1, <2>1, <2>2
<1> QED
  BY <1>1, <1>2, PassedStays, WindowsStay

LEMMA FilterNext ==
  RoomInv /\ WindowsBounded /\ PassedBounded /\ [Next]_vars => WindowsBounded' /\ PassedBounded'
<1> SUFFICES ASSUME RoomInv, WindowsBounded, PassedBounded, [Next]_vars
             PROVE  WindowsBounded' /\ PassedBounded'
  OBVIOUS
<1>0. RoomInv' /\ task \in [Tasks -> TaskTypes]
  BY RoomNext DEF RoomInv, MessagesOK
<1>1. ASSUME NEW t \in Tasks, NEW k, k # Idle, k.pc # "add", Start(t, k), cache' = cache
      PROVE  WindowsBounded' /\ PassedBounded'
  BY <1>0, <1>1, StartKeepsFilter
<1>2. ASSUME NEW t \in Tasks, Request(t) PROVE WindowsBounded' /\ PassedBounded'
  <2>1. ASSUME NEW m \in Contents, NewMessage(t, m) PROVE WindowsBounded' /\ PassedBounded'
    BY <1>1, <2>1 DEF NewMessage, Sending, Idle
  <2>2. ASSUME NEW u \in Users, BlockUser(t, u) PROVE WindowsBounded' /\ PassedBounded'
    BY <1>1, <2>2 DEF BlockUser, Banning, Idle
  <2>3. CASE DeleteBlockUser(t)
    BY <1>1, <2>3 DEF DeleteBlockUser, Idle
  <2>4. ASSUME NEW v \in Viewers, EnterRoom(t, v) PROVE WindowsBounded' /\ PassedBounded'
    BY <1>1, <2>4 DEF EnterRoom, Entering, Idle
  <2> QED
    BY <1>2, <2>1, <2>2, <2>3, <2>4 DEF Request
<1>3. ASSUME NEW t \in Tasks, NEW pc, Reply(t, pc), Done(t), cache' = cache
      PROVE  WindowsBounded' /\ PassedBounded'
  <2>1. Idle.pc # "add"
    BY DEF Idle
  <2> QED
    BY <1>0, <1>3, <2>1, ReplyKeepsFilter
<1>8. ASSUME NEW t \in Tasks, NEW pc, Reply(t, pc), NEW k, k.pc # "add", k # Idle, Then(t, k),
             cache' = cache
      PROVE  WindowsBounded' /\ PassedBounded'
  BY <1>0, <1>8, ReplyKeepsFilter
<1>4. ASSUME NEW t \in Tasks, Continue(t) PROVE WindowsBounded' /\ PassedBounded'
  <2>1. CASE CheckBlocked(t)
    <3>1. CASE Done(t)
      BY <1>3, <2>1, <3>1 DEF CheckBlocked
    <3>2. CASE Then(t, Sending("recent", task[t].msg))
      BY <1>8, <2>1, <3>2 DEF CheckBlocked, Sending, Idle
    <3> QED
      BY <2>1, <3>1, <3>2 DEF CheckBlocked
  <2>2. CASE CheckRecent(t)
    BY <1>0, <2>2, CheckRecentFilter
  <2>3. CASE Add(t)
    BY <1>0, <2>3, AddFilter
  <2>4. CASE Emit(t)
    BY <1>3, <2>4 DEF Emit, AwaitsMore
  <2>5. CASE ReadBlocked(t)
    BY <1>8, <2>5 DEF ReadBlocked, Banning, Idle
  <2>6. CASE WriteBlocked(t) \/ BlockedDeleted(t)
    BY <1>3, <2>6 DEF WriteBlocked, BlockedDeleted
  <2>7. CASE History(t)
    BY <1>3, <2>7 DEF History
  <2> QED
    BY <1>4, <2>1, <2>2, <2>3, <2>4, <2>5, <2>6, <2>7 DEF Continue
<1>5. ASSUME NEW v \in Viewers, LeaveRoom(v) PROVE WindowsBounded' /\ PassedBounded'
  BY <1>0, <1>5, LeaveRoomFilter
<1>6. CASE Flush
  BY <1>0, <1>6, FlushFilter
<1>7. CASE UNCHANGED vars
  BY <1>7 DEF vars, WindowsBounded, PassedBounded, LikeAt, Same
<1> QED
  BY <1>2, <1>4, <1>5, <1>6, <1>7 DEF Next

\* Handlers that race through the flood filter let at most one like message
\* more through than there are handlers.
THEOREM RepeatsAreBounded == Spec => []RepeatsBounded
<1>1. Init => WindowsBounded /\ PassedBounded
  BY DEF Init, WindowsBounded, PassedBounded
<1>2. RoomInv /\ WindowsBounded /\ PassedBounded /\ [Next]_vars => WindowsBounded' /\ PassedBounded'
  BY FilterNext
<1>3. RoomInv /\ WindowsBounded => RepeatsBounded
  <2> SUFFICES ASSUME RoomInv, WindowsBounded, NEW i \in DOMAIN cache
               PROVE  Cardinality({j \in DOMAIN cache : j \in i .. i + Recent
                                     /\ SameContent(cache[j], cache[i])})
                        <= Cardinality(Tasks) + 1
    BY DEF RepeatsBounded
  <2>1. cache[i] \in Contents
    BY DEF RoomInv, MessagesOK
  <2>2. Cardinality(LikeAt(cache[i], i, i + Recent)) <= Cardinality(Tasks) + 1
    BY <2>1 DEF WindowsBounded
  <2> QED
    BY <2>2 DEF LikeAt
<1> QED
  BY <1>1, <1>2, <1>3, RoomInvariant, PTL DEF Spec

=============================================================================
