--------------------------- MODULE ChatCache_proofs ---------------------------
(***************************************************************************)
(* Proofs about ChatCache, for every set of channels and handler slots and *)
(* every value of the bounds.                                              *)
(***************************************************************************)
EXTENDS ChatCache, FiniteSetTheorems, TLAPS

USE SetsAssumption, BoundsAssumption, FlushAssumption

-----------------------------------------------------------------------------
(* What the model's helpers return. *)

\* Any set of messages is finite, and its size is a number.
LEMMA SomeIdsFinite ==
  ASSUME NEW S \in SUBSET Ids
  PROVE  IsFiniteSet(S) /\ Cardinality(S) \in Nat
<1>1. IsFiniteSet(Ids)
  BY FS_Interval DEF Ids
<1>2. IsFiniteSet(S)
  BY <1>1, FS_Subset
<1> QED
  BY <1>2, FS_CardinalityType

\* XRANGE COUNT n returns a prefix: with a message it returns all older ones.
LEMMA OldestIsPrefix ==
  ASSUME NEW S \in SUBSET Ids, NEW n \in Nat,
         NEW m \in Oldest(S, n), NEW k \in S, k < m
  PROVE  k \in Oldest(S, n)
<1> DEFINE Below(j) == {i \in S : i < j}
<1>0. m \in S /\ S \subseteq Nat
  BY DEF Oldest, Ids
<1>1. ASSUME NEW i \in Below(k)
      PROVE  i \in Below(m)
  <2>1. i \in Nat /\ k \in Nat /\ m \in Nat /\ i < k
    BY <1>0, <1>1
  <2>2. i < m
    BY <2>1
  <2> QED
    BY <2>2, <1>1
<1>2. Below(m) \in SUBSET Ids /\ Below(k) \in SUBSET Ids
  OBVIOUS
<1>3. /\ IsFiniteSet(Below(m))
      /\ Cardinality(Below(m)) \in Nat
      /\ Cardinality(Below(k)) \in Nat
  BY <1>2, SomeIdsFinite
<1>4. Cardinality(Below(k)) <= Cardinality(Below(m))
  BY <1>1, <1>3, FS_Subset
<1>5. Cardinality(Below(m)) < n
  BY DEF Oldest
<1>6. Cardinality(Below(k)) < n
  BY <1>3, <1>4, <1>5
<1> QED
  BY <1>6 DEF Oldest

\* What a move reads is a prefix of the stream.
LEMMA SnapshotIsPrefix ==
  ASSUME TypeOK, NEW c \in Channels, NEW n \in Nat
  PROVE  /\ Snapshot(c, n) \subseteq stream[c]
         /\ \A m \in Snapshot(c, n), k \in stream[c] : k < m => k \in Snapshot(c, n)
<1>1. stream[c] \in SUBSET Ids
  BY DEF TypeOK
<1>2. CASE n = 0
  BY <1>1, <1>2 DEF Snapshot
<1>3. CASE n > 0
  <2>1. Snapshot(c, n) = Oldest(stream[c], n)
    BY <1>3 DEF Snapshot
  <2>2. Oldest(stream[c], n) \subseteq stream[c]
    BY DEF Oldest
  <2> QED
    BY <1>1, <2>1, <2>2, OldestIsPrefix
<1> QED
  BY <1>2, <1>3

\* A handler that starts, stops or ends its move is a well-formed task.
LEMMA TaskForms ==
  /\ Idle \in TaskTypes
  /\ \A job \in Jobs, pc \in Steps, c \in Channels : Started(job, pc, c) \in TaskTypes
  /\ \A k \in TaskTypes : k.chan \in Channels => AfterMove(k) \in TaskTypes
<1>1. Idle \in TaskTypes
  BY DEF Idle, TaskTypes, Steps, Jobs
<1>2. \A job \in Jobs, pc \in Steps, c \in Channels : Started(job, pc, c) \in TaskTypes
  BY DEF Started, TaskTypes
<1>3. \A k \in TaskTypes : k.chan \in Channels => AfterMove(k) \in TaskTypes
  BY <1>1, <1>2 DEF AfterMove, Jobs, Steps
<1> QED
  BY <1>1, <1>2, <1>3

\* insertMany adds copies of its messages and touches nothing else.
LEMMA SavedCounts ==
  ASSUME TypeOK, NEW c \in Channels, NEW S \in SUBSET Ids
  PROVE  /\ Saved(c, S) \in [Channels -> [Ids -> Nat]]
         /\ \A d \in Channels, m \in Ids :
              Saved(c, S)[d][m] = IF d = c /\ m \in S THEN archive[d][m] + 1 ELSE archive[d][m]
<1>1. archive \in [Channels -> [Ids -> Nat]]
  BY DEF TypeOK
<1> QED
  BY <1>1 DEF Saved

-----------------------------------------------------------------------------
(* Type correctness. *)

LEMMA TypeOKInit == Init => TypeOK
<1> SUFFICES ASSUME Init PROVE TypeOK
  OBVIOUS
<1>1. task \in [Tasks -> TaskTypes]
  BY TaskForms DEF Init
<1>2. archive \in [Channels -> [Ids -> Nat]] /\ \A c \in Channels, m \in Ids : archive[c][m] = 0
  BY DEF Init
<1>3. \A c \in Channels, m \in Ids : ~(m \in stream[c] \/ archive[c][m] > 0)
  BY <1>2 DEF Init
<1>4. \A t \in Tasks : task[t].pc = "idle"
  BY DEF Init, Idle
<1>5. /\ sent \in [Channels -> 0 .. MaxSent]
      /\ empty \in [Channels -> SUBSET Ids]
      /\ stream \in [Channels -> SUBSET Ids]
      /\ timers \in [Channels -> Nat]
      /\ handle = None
      /\ faults \in Nat
  BY DEF Init
<1>6. noChatYet \in BOOLEAN
  BY Zenon DEF Init
<1> QED
  BY <1>1, <1>2, <1>3, <1>4, <1>5, <1>6 DEF TypeOK

\* Ending or giving up a move leaves a well-formed task table.
LEMMA AfterMoveType ==
  ASSUME TypeOK, NEW t \in Tasks, task[t].pc # "idle",
         task' = [task EXCEPT ![t] = AfterMove(task[t])]
  PROVE  /\ task' \in [Tasks -> TaskTypes]
         /\ \A u \in Tasks : task'[u].pc # "idle" =>
              /\ task'[u].chan = task[u].chan
              /\ task'[u].chan \in Channels
              /\ task'[u].batch \subseteq task[u].batch
<1>1. /\ task \in [Tasks -> TaskTypes]
      /\ \A u \in Tasks : task[u].pc # "idle" => task[u].chan \in Channels
  BY DEF TypeOK
<1>2. AfterMove(task[t]) \in TaskTypes
  BY <1>1, TaskForms
<1>3. task' \in [Tasks -> TaskTypes] /\ task'[t] = AfterMove(task[t])
  BY <1>1, <1>2
<1>4. task'[t].pc # "idle" =>
         task'[t].chan = task[t].chan /\ task'[t].chan \in Channels /\ task'[t].batch = {}
  BY <1>1, <1>3 DEF AfterMove, Idle, Started
<1>5. \A u \in Tasks \ {t} : task'[u] = task[u]
  BY <1>1
<1> QED
  BY <1>1, <1>3, <1>4, <1>5

\* A new message may be empty: then it is one of the accepted empty ones.
LEMMA XAddTypes ==
  ASSUME TypeOK, NEW c \in Channels, XAdd(c)
  PROVE  empty' \in [Channels -> SUBSET Ids]
<1>1. sent[c] + 1 \in Ids
  BY DEF TypeOK, XAdd, Ids
<1>2. empty \in [Channels -> SUBSET Ids]
  BY DEF TypeOK
<1>3. CASE UNCHANGED empty
  BY <1>2, <1>3
<1>4. CASE empty' = [empty EXCEPT ![c] = @ \union {sent[c] + 1}]
  BY <1>1, <1>2, <1>4
<1> QED
  BY <1>3, <1>4 DEF XAdd

LEMMA TypeOKStep == TypeOK /\ [Next]_vars => TypeOK'
<1> SUFFICES ASSUME TypeOK, [Next]_vars PROVE TypeOK'
  OBVIOUS
<1> USE DEF TypeOK
<1>1. CASE UNCHANGED vars
  BY <1>1 DEF vars, TaskTypes
<1>2. ASSUME NEW c \in Channels, CreateRoom(c) PROVE TypeOK'
  BY <1>2 DEF CreateRoom, stores
<1>3. CASE StopLive
  BY <1>3 DEF StopLive, ClearInterval, stores
<1>4. ASSUME NEW t \in Tasks, NEW c \in Channels, ExitRoom(t, c) PROVE TypeOK'
  <2>1. Started("exit", "read", c) \in TaskTypes
    BY TaskForms DEF Jobs, Steps
  <2> QED
    BY <1>4, <2>1 DEF ExitRoom, Started, stores, process
<1>5. ASSUME NEW t \in Tasks, NEW c \in Channels, Disconnect(t, c) PROVE TypeOK'
  <2>1. Started("disconnect", "read", c) \in TaskTypes
    BY TaskForms DEF Jobs, Steps
  <2> QED
    BY <1>5, <2>1 DEF Disconnect, Started, stores, process
<1>6. ASSUME NEW t \in Tasks, NEW c \in Channels, NewMessage(t, c) PROVE TypeOK'
  <2>1. Started("chat", "add", c) \in TaskTypes
    BY TaskForms DEF Jobs, Steps
  <2> QED
    BY <1>6, <2>1 DEF NewMessage, Started, stores
<1>7. ASSUME NEW t \in Tasks, NEW c \in Channels, IntervalFires(t, c) PROVE TypeOK'
  <2>1. Started("flush", "half", c) \in TaskTypes /\ Idle \in TaskTypes
    BY TaskForms DEF Jobs, Steps
  <2> QED
    BY <1>7, <2>1 DEF IntervalFires, Started, Idle, stores, process
<1>8. ASSUME NEW t \in Tasks, Reject(t) PROVE TypeOK'
  BY <1>8, TaskForms DEF Reject, Idle, stores, process
<1>9. ASSUME NEW t \in Tasks, Add(t) PROVE TypeOK'
  <2>1. task' \in [Tasks -> TaskTypes]
    BY <1>9 DEF Add, TaskTypes, Steps
  <2>2. task[t].chan \in Channels
    BY <1>9 DEF Add
  <2>3. sent' \in [Channels -> 0 .. MaxSent] /\ \A d \in Channels : sent[d] <= sent'[d]
    BY <1>9, <2>2 DEF Add, XAdd
  <2>4. sent[task[t].chan] + 1 \in Ids
    BY <1>9, <2>2 DEF Add, XAdd, Ids
  <2>5. stream' \in [Channels -> SUBSET Ids]
    BY <1>9, <2>2, <2>4 DEF Add, XAdd
  <2>10. empty' \in [Channels -> SUBSET Ids]
    BY <1>9, <2>2, XAddTypes DEF Add
  <2>6. \A d \in Channels, m \in Ids : m \in stream'[d] => m <= sent'[d]
    BY <1>9, <2>2, <2>3, <2>4 DEF Add, XAdd, Ids
  <2>7. \A d \in Channels, m \in Ids : archive[d][m] > 0 => m <= sent'[d]
    BY <2>3 DEF Ids
  <2>8. \A u \in Tasks : task'[u].pc # "idle" =>
           /\ task[u].pc # "idle"
           /\ task'[u].chan = task[u].chan
           /\ task'[u].batch = task[u].batch
    BY <1>9 DEF Add, TaskTypes
  <2>9. \A u \in Tasks : task'[u].pc # "idle" =>
           task'[u].chan \in Channels /\ \A m \in task'[u].batch : m <= sent'[task'[u].chan]
    BY <2>3, <2>8 DEF TaskTypes, Ids
  <2> QED
    BY <1>9, <2>1, <2>3, <2>5, <2>6, <2>7, <2>9, <2>10 DEF Add, process
<1>10. ASSUME NEW t \in Tasks, Len(t) PROVE TypeOK'
  <2>1. task[t].chan \in Channels
    BY <1>10 DEF Len
  <2>2. Started("flush", "half", task[t].chan) \in TaskTypes /\ Idle \in TaskTypes
    BY <2>1, TaskForms DEF Jobs, Steps
  <2> QED
    BY <1>10, <2>1, <2>2 DEF Len, Started, Idle, stores, process
<1>11. ASSUME NEW t \in Tasks, Half(t) PROVE TypeOK'
  <2>1. Cardinality(stream[task[t].chan]) \in Nat
    BY <1>11, SomeIdsFinite DEF Half
  <2>2. Cardinality(stream[task[t].chan]) \div 2 \in Nat
    BY <2>1
  <2> DEFINE k == [task[t] EXCEPT !.pc = "read", !.count = Cardinality(stream[task[t].chan]) \div 2]
  <2>3. task' \in [Tasks -> TaskTypes]
    <3>1. k \in TaskTypes
      <4>1. task[t] \in TaskTypes
        OBVIOUS
      <4>2. \A h \in TaskTypes, n \in Nat : [h EXCEPT !.pc = "read", !.count = n] \in TaskTypes
        BY DEF TaskTypes, Steps
      <4> HIDE DEF TypeOK
      <4> QED
        BY <2>2, <4>1, <4>2
    <3>2. task' = [task EXCEPT ![t] = k]
      BY <1>11 DEF Half
    <3> QED
      BY <3>1, <3>2
  <2>4. \A u \in Tasks : task'[u].pc # "idle" =>
           /\ task[u].pc # "idle"
           /\ task'[u].chan = task[u].chan
           /\ task'[u].batch = task[u].batch
    BY <1>11 DEF Half, TaskTypes
  <2> QED
    BY <1>11, <2>3, <2>4 DEF Half, stores, process
<1>12. ASSUME NEW t \in Tasks, Read(t) PROVE TypeOK'
  <2> DEFINE got == Snapshot(task[t].chan, task[t].count)
  <2>1. task[t].chan \in Channels /\ task[t].count \in Nat /\ task[t].pc # "idle"
    BY <1>12 DEF Read, TaskTypes
  <2>2. got \subseteq stream[task[t].chan]
    BY <2>1, SnapshotIsPrefix
  <2>3. UNCHANGED <<sent, empty, stream, archive, noChatYet, timers, handle, faults>>
    BY <1>12 DEF Read, stores, process
  <2>4. CASE task' = [task EXCEPT ![t] = AfterMove(task[t])]
    BY <2>1, <2>3, <2>4, AfterMoveType
  <2>5. CASE task' = [task EXCEPT ![t].pc = "insert", ![t].batch = got]
    <3> DEFINE k == [task[t] EXCEPT !.pc = "insert", !.batch = got]
    <3>1. task' \in [Tasks -> TaskTypes]
      <4>1. got \in SUBSET Ids
        BY <2>1, <2>2
      <4>2. k \in TaskTypes
        <5>1. task[t] \in TaskTypes
          OBVIOUS
        <5>2. \A h \in TaskTypes, S \in SUBSET Ids :
                 [h EXCEPT !.pc = "insert", !.batch = S] \in TaskTypes
          BY DEF TaskTypes, Steps
        <5> HIDE DEF TypeOK
        <5> QED
          BY <4>1, <5>1, <5>2
      <4>3. task' = [task EXCEPT ![t] = k]
        BY <2>5
      <4> QED
        BY <4>2, <4>3
    <3>2. task'[t].chan = task[t].chan /\ task'[t].batch = got
      BY <2>5 DEF TaskTypes
    <3>3. \A u \in Tasks \ {t} : task'[u] = task[u]
      BY <2>5
    <3>4. \A m \in got : m <= sent[task[t].chan]
      BY <2>1, <2>2
    <3>5. \A u \in Tasks : task'[u].pc # "idle" =>
             task'[u].chan \in Channels /\ \A m \in task'[u].batch : m <= sent[task'[u].chan]
      BY <2>1, <3>2, <3>3, <3>4
    <3> QED
      BY <2>3, <3>1, <3>5
  <2> QED
    BY <1>12, <2>4, <2>5 DEF Read
<1>13. ASSUME NEW t \in Tasks, Insert(t) PROVE TypeOK'
  <2>1. task[t].chan \in Channels /\ task[t].batch \in SUBSET Ids
    BY <1>13 DEF Insert, TaskTypes
  <2>2. task' \in [Tasks -> TaskTypes]
    BY <1>13 DEF Insert, TaskTypes, Steps
  <2>3. \A u \in Tasks : task'[u].pc # "idle" =>
           /\ task[u].pc # "idle"
           /\ task'[u].chan = task[u].chan
           /\ task'[u].batch = task[u].batch
    BY <1>13 DEF Insert, TaskTypes
  <2>4. archive' \in [Channels -> [Ids -> Nat]]
    BY <1>13, <2>1, SavedCounts DEF Insert
  <2>5. \A c \in Channels, m \in Ids : archive'[c][m] > 0 => m <= sent[c]
    <3> SUFFICES ASSUME NEW c \in Channels, NEW m \in Ids, archive'[c][m] > 0
                 PROVE  m <= sent[c]
      OBVIOUS
    <3>1. archive[c][m] > 0 \/ (c = task[t].chan /\ m \in task[t].batch)
      BY <1>13, <2>1, SavedCounts DEF Insert
    <3> QED
      BY <1>13, <3>1 DEF Insert
  <2> QED
    BY <1>13, <2>2, <2>3, <2>4, <2>5 DEF Insert, process
<1>14. ASSUME NEW t \in Tasks, Delete(t) PROVE TypeOK'
  <2>1. task[t].chan \in Channels /\ task[t].pc # "idle"
    BY <1>14 DEF Delete
  <2>2. Remaining(task[t]) \subseteq stream[task[t].chan]
    BY DEF Remaining
  <2>3. /\ stream' \in [Channels -> SUBSET Ids]
        /\ \A c \in Channels : stream'[c] \subseteq stream[c]
    BY <1>14, <2>1, <2>2 DEF Delete
  <2>4. UNCHANGED <<sent, empty, archive, noChatYet, timers, handle, faults>>
    BY <1>14 DEF Delete, process
  <2>5. task' = [task EXCEPT ![t] = AfterMove(task[t])]
    BY <1>14 DEF Delete
  <2>6. /\ task' \in [Tasks -> TaskTypes]
        /\ \A u \in Tasks : task'[u].pc # "idle" =>
             /\ task'[u].chan \in Channels
             /\ \A m \in task'[u].batch : m <= sent[task'[u].chan]
    <3>1. \A u \in Tasks : task'[u].pc # "idle" => task[u].pc # "idle"
      BY <2>1, <2>5
    <3> QED
      BY <2>1, <2>5, <3>1, AfterMoveType
  <2> QED
    BY <2>3, <2>4, <2>6
<1>15. ASSUME NEW t \in Tasks, ClearRoom(t) PROVE TypeOK'
  BY <1>15, TaskForms DEF ClearRoom, ClearInterval, Idle, stores
<1>16. ASSUME NEW t \in Tasks, CommandFails(t) PROVE TypeOK'
  <2>1. UNCHANGED <<sent, empty, stream, archive, noChatYet, timers, handle>> /\ faults' \in Nat
    BY <1>16 DEF CommandFails, Fault, stores, process
  <2>2. CASE task' = [task EXCEPT ![t] = AfterMove(task[t])]
    <3>1. task[t].pc # "idle"
      BY <1>16 DEF CommandFails
    <3>2. \A u \in Tasks : task'[u].pc # "idle" => task[u].pc # "idle"
      BY <2>2, <3>1
    <3> QED
      BY <2>1, <2>2, <3>1, <3>2, AfterMoveType
  <2>3. CASE task' = [task EXCEPT ![t] = Idle]
    BY <2>1, <2>3, TaskForms DEF Idle
  <2> QED
    BY <1>16, <2>2, <2>3 DEF CommandFails
<1>17. ASSUME NEW t \in Tasks, AddUnconfirmed(t) PROVE TypeOK'
  <2>1. task' \in [Tasks -> TaskTypes]
    BY <1>17, TaskForms DEF AddUnconfirmed
  <2>2. task[t].chan \in Channels
    BY <1>17 DEF AddUnconfirmed
  <2>3. sent' \in [Channels -> 0 .. MaxSent] /\ \A d \in Channels : sent[d] <= sent'[d]
    BY <1>17, <2>2 DEF AddUnconfirmed, XAdd
  <2>4. sent[task[t].chan] + 1 \in Ids
    BY <1>17, <2>2 DEF AddUnconfirmed, XAdd, Ids
  <2>5. stream' \in [Channels -> SUBSET Ids]
    BY <1>17, <2>2, <2>4 DEF AddUnconfirmed, XAdd
  <2>10. empty' \in [Channels -> SUBSET Ids]
    BY <1>17, <2>2, XAddTypes DEF AddUnconfirmed
  <2>6. \A d \in Channels, m \in Ids : m \in stream'[d] => m <= sent'[d]
    BY <1>17, <2>2, <2>3, <2>4 DEF AddUnconfirmed, XAdd, Ids
  <2>7. \A d \in Channels, m \in Ids : archive[d][m] > 0 => m <= sent'[d]
    BY <2>3 DEF Ids
  <2>8. \A u \in Tasks : task'[u].pc # "idle" => u # t /\ task'[u] = task[u]
    BY <1>17 DEF AddUnconfirmed, Idle
  <2>9. \A u \in Tasks : task'[u].pc # "idle" =>
           task'[u].chan \in Channels /\ \A m \in task'[u].batch : m <= sent'[task'[u].chan]
    BY <2>3, <2>8 DEF TaskTypes, Ids
  <2> QED
    BY <1>17, <2>1, <2>3, <2>5, <2>6, <2>7, <2>9, <2>10 DEF AddUnconfirmed, Fault, process
<1>18. ASSUME NEW t \in Tasks, InsertBreaks(t) PROVE TypeOK'
  <2>1. task[t].chan \in Channels /\ task[t].batch \in SUBSET Ids /\ task[t].pc # "idle"
    BY <1>18 DEF InsertBreaks, TaskTypes
  <2>2. PICK n \in 1 .. Cardinality(task[t].batch) :
           archive' = Saved(task[t].chan, Oldest(task[t].batch, n))
    BY <1>18 DEF InsertBreaks
  <2>3. Oldest(task[t].batch, n) \subseteq task[t].batch
    BY DEF Oldest
  <2>4. archive' \in [Channels -> [Ids -> Nat]]
    BY <2>1, <2>2, <2>3, SavedCounts
  <2>5. \A c \in Channels, m \in Ids : archive'[c][m] > 0 => m <= sent[c]
    <3> SUFFICES ASSUME NEW c \in Channels, NEW m \in Ids, archive'[c][m] > 0
                 PROVE  m <= sent[c]
      OBVIOUS
    <3>1. archive[c][m] > 0 \/ (c = task[t].chan /\ m \in task[t].batch)
      BY <2>1, <2>2, <2>3, SavedCounts
    <3> QED
      BY <2>1, <3>1
  <2>6. task' = [task EXCEPT ![t] = AfterMove(task[t])]
    BY <1>18 DEF InsertBreaks
  <2>7. \A u \in Tasks : task'[u].pc # "idle" => task[u].pc # "idle"
    BY <2>1, <2>6
  <2>8. /\ task' \in [Tasks -> TaskTypes]
        /\ \A u \in Tasks : task'[u].pc # "idle" =>
             task'[u].chan \in Channels /\ \A m \in task'[u].batch : m <= sent[task'[u].chan]
    BY <2>1, <2>6, <2>7, AfterMoveType
  <2> QED
    BY <1>18, <2>4, <2>5, <2>8 DEF InsertBreaks, Fault, process
<1>19. CASE Crash
  <2>1. task' \in [Tasks -> TaskTypes] /\ \A t \in Tasks : task'[t].pc = "idle"
    BY <1>19, TaskForms DEF Crash, Idle
  <2>2. UNCHANGED <<sent, empty, stream, archive>>
    BY <1>19 DEF Crash, stores
  <2>3. /\ timers' \in [Channels -> Nat]
        /\ handle' = None
        /\ faults' \in Nat
    BY <1>19 DEF Crash, Fault
  <2>4. noChatYet' \in BOOLEAN
    BY <1>19, Zenon DEF Crash
  <2> QED
    BY <2>1, <2>2, <2>3, <2>4
<1>20. ASSUME NEW t \in Tasks, InsertRejected(t) PROVE TypeOK'
  <2>1. task[t].pc # "idle" /\ task' = [task EXCEPT ![t] = AfterMove(task[t])]
    BY <1>20 DEF InsertRejected
  <2>2. \A u \in Tasks : task'[u].pc # "idle" => task[u].pc # "idle"
    BY <2>1
  <2> QED
    BY <1>20, <2>1, <2>2, AfterMoveType DEF InsertRejected, stores, process
<1> QED
  BY <1>1, <1>2, <1>3, <1>4, <1>5, <1>6, <1>7, <1>8, <1>9, <1>10, <1>11, <1>12, <1>13,
     <1>14, <1>15, <1>16, <1>17, <1>18, <1>19, <1>20 DEF Next, Start, Continue, Break

\* Every store, field and handler keeps its type, and the stores never hold a
\* message that was not accepted.
THEOREM TypeCorrect == Spec => []TypeOK
<1>1. Init => TypeOK
  BY TypeOKInit
<1>2. TypeOK /\ [Next]_vars => TypeOK'
  BY TypeOKStep
<1> QED
  BY <1>1, <1>2, PTL DEF Spec

-----------------------------------------------------------------------------
(* What a step does to the stores and to the batches in flight. *)

Holding(u) == task[u].pc \in {"insert", "delete"}

\* No handler gets a batch, and one that keeps its batch is not moved.
KeepsBatches == \A u \in Tasks : Holding(u)' => task'[u] = task[u]

Quiet == UNCHANGED <<sent, stream, archive>> /\ KeepsBatches

Grows == \E c \in Channels : XAdd(c) /\ UNCHANGED archive /\ KeepsBatches

GetsBatch(t) ==
  /\ UNCHANGED <<sent, stream, archive>>
  /\ task[t].pc = "read"
  /\ task'[t].pc = "insert"
  /\ task'[t].chan = task[t].chan
  /\ task'[t].batch = Snapshot(task[t].chan, task[t].count)
  /\ \A u \in Tasks \ {t} : task'[u] = task[u]

LEMMA AfterMoveHoldsNothing ==
  \A k : AfterMove(k).pc \notin {"insert", "delete"}
BY DEF AfterMove, Started, Idle

LEMMA StepCases ==
  ASSUME TypeOK, [Next]_vars
  PROVE  \/ Quiet
         \/ Grows
         \/ \E t \in Tasks : GetsBatch(t) \/ Insert(t) \/ Delete(t) \/ InsertBreaks(t)
<1>0. task \in [Tasks -> TaskTypes]
  BY DEF TypeOK
<1>1. CASE UNCHANGED vars
  BY <1>1 DEF vars, Quiet, KeepsBatches
<1>2. ASSUME NEW c \in Channels, CreateRoom(c) PROVE Quiet
  BY <1>2 DEF CreateRoom, stores, Quiet, KeepsBatches
<1>3. CASE StopLive
  BY <1>3 DEF StopLive, stores, Quiet, KeepsBatches
<1>4. ASSUME NEW t \in Tasks, NEW c \in Channels, Start(t, c) PROVE Quiet
  <2>1. UNCHANGED <<sent, stream, archive>>
    BY <1>4 DEF Start, ExitRoom, Disconnect, NewMessage, IntervalFires, stores
  <2>2. \E k : task' = [task EXCEPT ![t] = k] /\ k.pc \notin {"insert", "delete"}
    BY <1>4 DEF Start, ExitRoom, Disconnect, NewMessage, IntervalFires, Started, Idle
  <2> QED
    BY <1>0, <2>1, <2>2 DEF Quiet, KeepsBatches, Holding
<1>5. ASSUME NEW t \in Tasks,
             Reject(t) \/ Len(t) \/ ClearRoom(t) \/ InsertRejected(t) \/ CommandFails(t)
      PROVE  Quiet
  <2>1. UNCHANGED <<sent, stream, archive>>
    BY <1>5 DEF Reject, Len, ClearRoom, InsertRejected, CommandFails, stores
  <2>2. \E k : task' = [task EXCEPT ![t] = k] /\ k.pc \notin {"insert", "delete"}
    BY <1>5, AfterMoveHoldsNothing
       DEF Reject, Len, ClearRoom, InsertRejected, CommandFails, Started, Idle
  <2> QED
    BY <1>0, <2>1, <2>2 DEF Quiet, KeepsBatches, Holding
<1>6. ASSUME NEW t \in Tasks, Half(t) PROVE Quiet
  BY <1>0, <1>6 DEF Half, stores, Quiet, KeepsBatches, Holding, TaskTypes
<1>7. ASSUME NEW t \in Tasks, Add(t) PROVE Grows
  <2>1. task[t].chan \in Channels
    BY <1>7 DEF Add, TypeOK
  <2>2. KeepsBatches
    BY <1>0, <1>7 DEF Add, KeepsBatches, Holding, TaskTypes
  <2> QED
    BY <1>7, <2>1, <2>2 DEF Add, Grows
<1>8. ASSUME NEW t \in Tasks, AddUnconfirmed(t) PROVE Grows
  <2>1. task[t].chan \in Channels
    BY <1>8 DEF AddUnconfirmed, TypeOK
  <2>2. KeepsBatches
    BY <1>0, <1>8 DEF AddUnconfirmed, KeepsBatches, Holding, Idle
  <2> QED
    BY <1>8, <2>1, <2>2 DEF AddUnconfirmed, Grows
<1>9. ASSUME NEW t \in Tasks, Read(t) PROVE Quiet \/ GetsBatch(t)
  <2>1. UNCHANGED <<sent, stream, archive>>
    BY <1>9 DEF Read, stores
  <2>2. CASE task' = [task EXCEPT ![t] = AfterMove(task[t])]
    BY <1>0, <2>1, <2>2, AfterMoveHoldsNothing DEF Quiet, KeepsBatches, Holding
  <2>3. CASE task' = [task EXCEPT ![t].pc = "insert",
                                  ![t].batch = Snapshot(task[t].chan, task[t].count)]
    <3>1. /\ task'[t].pc = "insert"
          /\ task'[t].chan = task[t].chan
          /\ task'[t].batch = Snapshot(task[t].chan, task[t].count)
      BY <1>0, <2>3 DEF TaskTypes
    <3>2. \A u \in Tasks \ {t} : task'[u] = task[u]
      BY <1>0, <2>3
    <3> QED
      BY <1>9, <2>1, <3>1, <3>2 DEF GetsBatch, Read
  <2> QED
    BY <1>9, <2>2, <2>3 DEF Read
<1>10. CASE Crash
  BY <1>10 DEF Crash, stores, Quiet, KeepsBatches, Holding, Idle
<1> QED
  BY <1>1, <1>2, <1>3, <1>4, <1>5, <1>6, <1>7, <1>8, <1>9, <1>10 DEF Next, Continue, Break

\* A task that inserts or deletes runs for a channel, on a batch of messages.
LEMMA HoldingTypes ==
  ASSUME TypeOK, NEW t \in Tasks, task[t].pc # "idle"
  PROVE  /\ task[t].chan \in Channels
         /\ task[t].batch \in SUBSET Ids
         /\ task[t].count \in Nat
         /\ \A m \in task[t].batch : m <= sent[task[t].chan]
         /\ sent[task[t].chan] \in Nat
         /\ \A m \in stream[task[t].chan] : m \in Ids /\ m <= sent[task[t].chan]
BY DEF TypeOK, TaskTypes

\* Insert and Delete, read as what happens to the tasks.
LEMMA InsertEffect ==
  ASSUME TypeOK, NEW t \in Tasks, Insert(t)
  PROVE  /\ task[t].pc = "insert"
         /\ archive' = Saved(task[t].chan, task[t].batch)
         /\ UNCHANGED <<sent, stream>>
         /\ task'[t].pc = "delete"
         /\ task'[t].chan = task[t].chan
         /\ task'[t].batch = task[t].batch
         /\ \A u \in Tasks \ {t} : task'[u] = task[u]
BY DEF Insert, TypeOK, TaskTypes

LEMMA DeleteEffect ==
  ASSUME TypeOK, NEW t \in Tasks, Delete(t)
  PROVE  /\ task[t].pc = "delete"
         /\ UNCHANGED <<sent, archive>>
         /\ stream' = [stream EXCEPT ![task[t].chan] = Remaining(task[t])]
         /\ \A c \in Channels :
              /\ stream'[c] = IF c = task[t].chan THEN Remaining(task[t]) ELSE stream[c]
              /\ stream'[c] \subseteq stream[c]
         /\ KeepsBatches
<1>1. task' = [task EXCEPT ![t] = AfterMove(task[t])]
  BY DEF Delete
<1>2. KeepsBatches
  BY <1>1, AfterMoveHoldsNothing DEF KeepsBatches, Holding, TypeOK
<1>3. stream' = [stream EXCEPT ![task[t].chan] = Remaining(task[t])]
  BY DEF Delete
<1>4. stream \in [Channels -> SUBSET Ids]
  BY DEF TypeOK
<1>5. \A c \in Channels :
         stream'[c] = IF c = task[t].chan THEN Remaining(task[t]) ELSE stream[c]
  BY <1>3, <1>4
<1>6. Remaining(task[t]) \subseteq stream[task[t].chan]
  BY DEF Remaining
<1> QED
  BY <1>2, <1>3, <1>5, <1>6 DEF Delete

LEMMA InsertBreaksEffect ==
  ASSUME TypeOK, NEW t \in Tasks, InsertBreaks(t)
  PROVE  /\ task[t].pc = "insert"
         /\ UNCHANGED <<sent, stream>>
         /\ \E n \in Nat : archive' = Saved(task[t].chan, Oldest(task[t].batch, n))
         /\ KeepsBatches
<1>1. task' = [task EXCEPT ![t] = AfterMove(task[t])]
  BY DEF InsertBreaks
<1>2. KeepsBatches
  BY <1>1, AfterMoveHoldsNothing DEF KeepsBatches, Holding, TypeOK
<1>3. \E n \in Nat : archive' = Saved(task[t].chan, Oldest(task[t].batch, n))
  BY DEF InsertBreaks
<1> QED
  BY <1>2, <1>3 DEF InsertBreaks

-----------------------------------------------------------------------------
(* The inductive invariant. *)

LEMMA BatchIsPrefixStep == TypeOK /\ BatchIsPrefix /\ [Next]_vars => BatchIsPrefix'
<1> SUFFICES ASSUME TypeOK, BatchIsPrefix, [Next]_vars,
                    NEW u \in Tasks, NEW c \in Channels, Holds(u, c)',
                    NEW m \in task'[u].batch, NEW k \in stream'[c], k < m
             PROVE  k \in task'[u].batch
  BY DEF BatchIsPrefix
<1>0. /\ TypeOK'
      /\ task'[u].pc \in {"insert", "delete"}
      /\ task'[u].chan = c
  BY TypeOKStep DEF Holds
<1>1. CASE /\ task'[u] = task[u]
           /\ stream'[c] \subseteq stream[c]
  BY <1>0, <1>1 DEF BatchIsPrefix, Holds
<1>2. CASE Quiet
  BY <1>0, <1>1, <1>2 DEF Quiet, KeepsBatches, Holding
<1>3. CASE Grows
  <2>1. task'[u] = task[u]
    BY <1>0, <1>3 DEF Grows, KeepsBatches, Holding
  <2>2. PICK d \in Channels : stream' = [stream EXCEPT ![d] = @ \union {sent[d] + 1}]
    BY <1>3 DEF Grows, XAdd
  <2>3. CASE k \in stream[c]
    BY <1>0, <2>1, <2>3 DEF BatchIsPrefix, Holds
  <2>4. CASE k \notin stream[c]
    <3>1. c = d /\ k = sent[c] + 1
      BY <2>2, <2>4 DEF TypeOK
    <3>2. m <= sent[c] /\ m \in Ids /\ sent[c] \in Nat
      BY <1>0, <2>1, HoldingTypes
    <3> QED
      BY <3>1, <3>2 DEF Ids
  <2> QED
    BY <2>3, <2>4
<1>4. ASSUME NEW t \in Tasks, GetsBatch(t) PROVE k \in task'[u].batch
  <2>1. CASE u = t
    <3>1. task'[u].batch = Snapshot(c, task[t].count)
      BY <1>0, <1>4, <2>1 DEF GetsBatch
    <3>2. k \in stream[c] /\ task[t].count \in Nat
      BY <1>4, HoldingTypes DEF GetsBatch
    <3> QED
      BY <3>1, <3>2, SnapshotIsPrefix
  <2>2. CASE u # t
    BY <1>1, <1>4, <2>2 DEF GetsBatch
  <2> QED
    BY <2>1, <2>2
<1>5. ASSUME NEW t \in Tasks, Insert(t) PROVE k \in task'[u].batch
  <2>1. stream' = stream
    BY <1>5, InsertEffect
  <2>2. CASE u = t
    <3>1. task[u].pc = "insert" /\ task[u].chan = c /\ task'[u].batch = task[u].batch
      BY <1>0, <1>5, <2>2, InsertEffect
    <3> QED
      BY <2>1, <3>1 DEF BatchIsPrefix, Holds
  <2>3. CASE u # t
    BY <1>1, <1>5, <2>1, <2>3, InsertEffect
  <2> QED
    BY <2>2, <2>3
<1>6. ASSUME NEW t \in Tasks, Delete(t) PROVE k \in task'[u].batch
  <2>1. task'[u] = task[u]
    BY <1>0, <1>6, DeleteEffect DEF KeepsBatches, Holding
  <2>2. stream'[c] \subseteq stream[c]
    BY <1>6, DeleteEffect
  <2> QED
    BY <1>1, <2>1, <2>2
<1>7. ASSUME NEW t \in Tasks, InsertBreaks(t) PROVE k \in task'[u].batch
  <2>1. task'[u] = task[u] /\ stream' = stream
    BY <1>0, <1>7, InsertBreaksEffect DEF KeepsBatches, Holding
  <2> QED
    BY <1>1, <2>1
<1> QED
  BY <1>2, <1>3, <1>4, <1>5, <1>6, <1>7, StepCases

\* A saved message stays saved, and what a task inserts is saved.
LEMMA ArchiveGrows ==
  ASSUME TypeOK, [Next]_vars, NEW c \in Channels, NEW m \in Ids
  PROVE  archive[c][m] > 0 => archive'[c][m] > 0
<1>0. archive[c][m] \in Nat
  BY DEF TypeOK
<1>1. CASE UNCHANGED archive
  BY <1>1
<1>2. ASSUME NEW t \in Tasks, Insert(t) PROVE archive[c][m] > 0 => archive'[c][m] > 0
  <2>1. archive' = Saved(task[t].chan, task[t].batch) /\ task[t].pc # "idle"
    BY <1>2, InsertEffect
  <2> QED
    BY <1>0, <2>1, HoldingTypes, SavedCounts
<1>3. ASSUME NEW t \in Tasks, InsertBreaks(t) PROVE archive[c][m] > 0 => archive'[c][m] > 0
  <2>1. PICK n \in Nat : archive' = Saved(task[t].chan, Oldest(task[t].batch, n))
    BY <1>3, InsertBreaksEffect
  <2>2. task[t].chan \in Channels /\ Oldest(task[t].batch, n) \in SUBSET Ids
    BY <1>3, InsertBreaksEffect, HoldingTypes DEF Oldest
  <2> QED
    BY <1>0, <2>1, <2>2, SavedCounts
<1>4. ASSUME NEW t \in Tasks, Delete(t) PROVE UNCHANGED archive
  BY <1>4, DeleteEffect
<1> QED
  BY <1>1, <1>2, <1>3, <1>4, StepCases DEF Quiet, Grows, GetsBatch

LEMMA BatchSavedStep == TypeOK /\ BatchSaved /\ [Next]_vars => BatchSaved'
<1> SUFFICES ASSUME TypeOK, BatchSaved, [Next]_vars,
                    NEW u \in Tasks, task'[u].pc = "delete",
                    NEW m \in task'[u].batch
             PROVE  archive'[task'[u].chan][m] > 0
  BY DEF BatchSaved
<1>0. TypeOK'
  BY TypeOKStep
<1>1. CASE task'[u] = task[u]
  <2>1. task[u].chan \in Channels /\ m \in Ids
    BY <1>1, HoldingTypes
  <2>2. archive[task[u].chan][m] > 0
    BY <1>1 DEF BatchSaved
  <2> QED
    BY <1>1, <2>1, <2>2, ArchiveGrows
<1>2. CASE KeepsBatches
  BY <1>1, <1>2 DEF KeepsBatches, Holding
<1>3. ASSUME NEW t \in Tasks, GetsBatch(t) PROVE archive'[task'[u].chan][m] > 0
  BY <1>1, <1>3 DEF GetsBatch
<1>4. ASSUME NEW t \in Tasks, Insert(t) PROVE archive'[task'[u].chan][m] > 0
  <2>1. CASE u = t
    <3>1. /\ archive' = Saved(task[t].chan, task[t].batch)
          /\ task'[u].chan = task[t].chan
          /\ task'[u].batch = task[t].batch
          /\ task[t].pc # "idle"
      BY <1>4, <2>1, InsertEffect
    <3>2. task[t].chan \in Channels /\ task[t].batch \in SUBSET Ids
      BY <3>1, HoldingTypes
    <3>3. archive'[task[t].chan][m] = archive[task[t].chan][m] + 1
      BY <3>1, <3>2, SavedCounts
    <3>4. archive[task[t].chan][m] \in Nat
      BY <3>1, <3>2 DEF TypeOK
    <3> QED
      BY <3>1, <3>3, <3>4
  <2>2. CASE u # t
    BY <1>1, <1>4, <2>2, InsertEffect
  <2> QED
    BY <2>1, <2>2
<1>5. ASSUME NEW t \in Tasks, Delete(t) \/ InsertBreaks(t) PROVE KeepsBatches
  BY <1>5, DeleteEffect, InsertBreaksEffect
<1> QED
  BY <1>2, <1>3, <1>4, <1>5, StepCases DEF Quiet, Grows

LEMMA NoGapsStep ==
  TypeOK /\ BatchIsPrefix /\ NoGaps /\ [Next]_vars => NoGaps'
<1> SUFFICES ASSUME TypeOK, BatchIsPrefix, NoGaps, [Next]_vars,
                    NEW c \in Channels, NEW m \in stream'[c], NEW j \in m .. sent'[c]
             PROVE  j \in stream'[c]
  BY DEF NoGaps
<1>1. CASE UNCHANGED <<sent, stream>>
  BY <1>1 DEF NoGaps
<1>2. CASE Grows
  <2>1. PICK d \in Channels :
          /\ sent' = [sent EXCEPT ![d] = @ + 1]
          /\ stream' = [stream EXCEPT ![d] = @ \union {sent[d] + 1}]
    BY <1>2 DEF Grows, XAdd
  <2>2. sent \in [Channels -> 0 .. MaxSent] /\ stream \in [Channels -> SUBSET Ids]
    BY DEF TypeOK
  <2>3. CASE c # d
    BY <2>1, <2>2, <2>3 DEF NoGaps
  <2>4. CASE c = d /\ j = sent[c] + 1
    BY <2>1, <2>2, <2>4
  <2>5. CASE c = d /\ j # sent[c] + 1
    <3>1. stream'[c] = stream[c] \union {sent[c] + 1} /\ sent'[c] = sent[c] + 1
      BY <2>1, <2>2, <2>5
    <3>2. sent[c] \in Nat /\ m \in Nat /\ j \in Nat
      BY <2>2, <3>1 DEF Ids
    <3>3. m # sent[c] + 1 /\ j \in m .. sent[c]
      BY <2>5, <3>1, <3>2
    <3> QED
      BY <3>1, <3>3 DEF NoGaps
  <2> QED
    BY <2>3, <2>4, <2>5
<1>3. ASSUME NEW t \in Tasks, Delete(t) PROVE j \in stream'[c]
  <2>1. m \in stream[c] /\ sent' = sent
    BY <1>3, DeleteEffect
  <2>2. j \in stream[c]
    BY <2>1 DEF NoGaps
  <2>3. CASE c # task[t].chan
    BY <1>3, <2>2, <2>3, DeleteEffect
  <2>4. CASE c = task[t].chan
    <3>1. stream'[c] = IF task[t].count > 0 THEN stream[c] \ task[t].batch ELSE {}
      BY <1>3, <2>4, DeleteEffect DEF Remaining
    <3>2. m \notin task[t].batch
      BY <3>1
    <3>3. j = m \/ m < j
      BY <2>1, HoldingTypes DEF TypeOK, Ids
    <3>4. j \notin task[t].batch
      BY <1>3, <2>1, <2>4, <3>2, <3>3, DeleteEffect DEF BatchIsPrefix, Holds
    <3> QED
      BY <2>2, <3>1, <3>4
  <2> QED
    BY <2>3, <2>4
<1> QED
  BY <1>1, <1>2, <1>3, StepCases, InsertEffect, InsertBreaksEffect DEF Quiet, GetsBatch

\* What saves a prefix of a batch in flight saves in order.
LEMMA SavingAPrefix ==
  ASSUME TypeOK, BatchIsPrefix, SavedInOrder,
         NEW t \in Tasks, task[t].pc = "insert", NEW S \in SUBSET task[t].batch,
         \A m \in S, k \in task[t].batch : k < m => k \in S,
         archive' = Saved(task[t].chan, S),
         NEW c \in Channels, NEW m \in stream[c], NEW k \in stream[c],
         k < m, archive'[c][m] > 0
  PROVE  archive'[c][k] > 0
<1>1. task[t].chan \in Channels /\ S \in SUBSET Ids
  BY HoldingTypes
<1>2. m \in Ids /\ k \in Ids /\ archive[c][m] \in Nat /\ archive[c][k] \in Nat
  BY DEF TypeOK
<1>3. /\ archive'[c][m] = IF c = task[t].chan /\ m \in S THEN archive[c][m] + 1 ELSE archive[c][m]
      /\ archive'[c][k] = IF c = task[t].chan /\ k \in S THEN archive[c][k] + 1 ELSE archive[c][k]
  BY <1>1, <1>2, SavedCounts
<1>4. CASE c = task[t].chan /\ m \in S
  <2>1. k \in task[t].batch
    BY <1>4 DEF BatchIsPrefix, Holds
  <2>2. k \in S
    BY <1>4, <2>1
  <2> QED
    BY <1>2, <1>3, <1>4, <2>2
<1>5. CASE ~(c = task[t].chan /\ m \in S)
  <2>1. archive[c][k] > 0
    BY <1>3, <1>5 DEF SavedInOrder
  <2> QED
    BY <1>2, <1>3, <2>1
<1> QED
  BY <1>4, <1>5

LEMMA SavedInOrderStep ==
  TypeOK /\ BatchIsPrefix /\ SavedInOrder /\ [Next]_vars => SavedInOrder'
<1> SUFFICES ASSUME TypeOK, BatchIsPrefix, SavedInOrder, [Next]_vars,
                    NEW c \in Channels, NEW m \in stream'[c], NEW k \in stream'[c],
                    k < m, archive'[c][m] > 0
             PROVE  archive'[c][k] > 0
  BY DEF SavedInOrder
<1>1. CASE stream'[c] \subseteq stream[c] /\ UNCHANGED archive
  BY <1>1 DEF SavedInOrder
<1>2. CASE Grows
  <2>1. PICK d \in Channels : stream' = [stream EXCEPT ![d] = @ \union {sent[d] + 1}]
    BY <1>2 DEF Grows, XAdd
  <2>2. archive' = archive
    BY <1>2 DEF Grows
  <2>3. CASE m \in stream[c] /\ k \in stream[c]
    BY <2>2, <2>3 DEF SavedInOrder
  <2>4. CASE m \notin stream[c]
    \* The newest message has just been accepted: no copy of it is saved yet.
    <3>1. c = d /\ m = sent[c] + 1
      BY <2>1, <2>4 DEF TypeOK
    <3>2. sent[c] \in Nat /\ m \in Ids
      BY <1>2, <3>1, TypeOKStep DEF TypeOK
    <3>3. m <= sent[c]
      BY <2>2, <3>2 DEF TypeOK
    <3> QED
      BY <3>1, <3>2, <3>3
  <2>5. CASE m \in stream[c] /\ k \notin stream[c]
    <3>1. c = d /\ k = sent[c] + 1
      BY <2>1, <2>5 DEF TypeOK
    <3>2. sent[c] \in Nat /\ m \in Ids /\ m <= sent[c]
      BY <2>5 DEF TypeOK
    <3> QED
      BY <3>1, <3>2 DEF Ids
  <2> QED
    BY <2>3, <2>4, <2>5
<1>3. ASSUME NEW t \in Tasks, Insert(t) PROVE archive'[c][k] > 0
  <2>1. /\ archive' = Saved(task[t].chan, task[t].batch)
        /\ task[t].pc = "insert"
        /\ stream' = stream
    BY <1>3, InsertEffect
  <2> QED
    BY <2>1, SavingAPrefix
<1>4. ASSUME NEW t \in Tasks, InsertBreaks(t) PROVE archive'[c][k] > 0
  <2>1. task[t].pc = "insert" /\ stream' = stream
    BY <1>4, InsertBreaksEffect
  <2>2. PICK n \in Nat : archive' = Saved(task[t].chan, Oldest(task[t].batch, n))
    BY <1>4, InsertBreaksEffect
  <2>3. task[t].batch \in SUBSET Ids
    BY <2>1, HoldingTypes
  <2>4. \A i \in Oldest(task[t].batch, n), j \in task[t].batch :
           j < i => j \in Oldest(task[t].batch, n)
    BY <2>3, OldestIsPrefix
  <2>5. Oldest(task[t].batch, n) \in SUBSET task[t].batch
    BY DEF Oldest
  <2> QED
    BY <2>1, <2>2, <2>4, <2>5, SavingAPrefix
<1>5. ASSUME NEW t \in Tasks, Delete(t) PROVE archive'[c][k] > 0
  BY <1>1, <1>5, DeleteEffect
<1> QED
  BY <1>1, <1>2, <1>3, <1>4, <1>5, StepCases DEF Quiet, GetsBatch

LEMMA StoreInvInit == Init => StoreInv
<1> SUFFICES ASSUME Init PROVE StoreInv
  OBVIOUS
<1>1. TypeOK
  BY TypeOKInit
<1>2. BatchIsPrefix /\ BatchSaved
  BY DEF Init, BatchIsPrefix, BatchSaved, Holds, Idle
<1>3. NoGaps /\ SavedInOrder
  BY DEF Init, NoGaps, SavedInOrder
<1> QED
  BY <1>1, <1>2, <1>3 DEF StoreInv

LEMMA StoreInvStep == StoreInv /\ [Next]_vars => StoreInv'
BY TypeOKStep, BatchIsPrefixStep, BatchSavedStep, NoGapsStep, SavedInOrderStep DEF StoreInv

\* The inductive invariant of the two stores and the batches between them.
THEOREM StoreInvariant == Spec => []StoreInv
BY StoreInvInit, StoreInvStep, PTL DEF Spec

\* The cached history has no hole, whatever flushes overlap or break.
THEOREM HistoryUnbroken == Spec => []NoGaps
<1>1. StoreInv => NoGaps
  BY DEF StoreInv
<1> QED
  BY <1>1, StoreInvariant, PTL

\* The transcript is saved in order.
THEOREM TranscriptInOrder == Spec => []SavedInOrder
<1>1. StoreInv => SavedInOrder
  BY DEF StoreInv
<1> QED
  BY <1>1, StoreInvariant, PTL

-----------------------------------------------------------------------------
(* What a step may never do. *)

\* The only step that removes a message from a stream is Delete.
LEMMA OnlyDeleteRemoves ==
  ASSUME TypeOK, [Next]_vars, NEW c \in Channels, NEW m \in stream[c] \ stream'[c]
  PROVE  \E t \in Tasks : Delete(t) /\ task[t].chan = c
<1>1. CASE Quiet \/ \E t \in Tasks : GetsBatch(t) \/ Insert(t) \/ InsertBreaks(t)
  BY <1>1, InsertEffect, InsertBreaksEffect DEF Quiet, GetsBatch
<1>2. CASE Grows
  BY <1>2 DEF Grows, XAdd, TypeOK
<1>3. ASSUME NEW t \in Tasks, Delete(t) PROVE task[t].chan = c
  BY <1>3, DeleteEffect
<1> QED
  BY <1>1, <1>2, <1>3, StepCases

\* A message leaves the cache unsaved only when a whole-stream move deletes the
\* key after newer messages than those it read were added.
THEOREM RemovalIsSafe == Spec => SavedBeforeRemoved
<1> DEFINE Safe(c, m) ==
       \/ archive[c][m] > 0
       \/ \E t \in Tasks : /\ task[t].pc = "delete" /\ task[t].chan = c
                           /\ task[t].count = 0
                           /\ \A k \in task[t].batch : k < m
<1>1. ASSUME StoreInv, [Next]_vars, NEW c \in Channels, NEW m \in stream[c] \ stream'[c]
      PROVE  Safe(c, m)
  <2> USE <1>1 DEF StoreInv
  <2>1. PICK t \in Tasks : Delete(t) /\ task[t].chan = c
    BY OnlyDeleteRemoves
  <2>2. task[t].pc = "delete" /\ stream'[c] = Remaining(task[t])
    BY <2>1, DeleteEffect
  <2>3. task[t].batch \in SUBSET Ids /\ task[t].count \in Nat /\ m \in Ids
    BY <2>1, <2>2, HoldingTypes
  <2>4. CASE m \in task[t].batch
    BY <2>1, <2>2, <2>4 DEF BatchSaved
  <2>5. CASE m \notin task[t].batch
    <3>1. task[t].count = 0
      BY <2>1, <2>2, <2>3, <2>5 DEF Remaining
    <3>2. \A k \in task[t].batch : ~(m < k)
      BY <2>1, <2>2, <2>5 DEF BatchIsPrefix, Holds
    <3>3. \A k \in task[t].batch : k < m
      BY <2>3, <2>5, <3>2 DEF Ids
    <3> QED
      BY <2>1, <2>2, <3>1, <3>3
  <2> QED
    BY <2>4, <2>5
<1>2. StoreInv /\ [Next]_vars =>
        [\A c \in Channels : \A m \in stream[c] \ stream'[c] : Safe(c, m)]_vars
  BY <1>1
<1>3. Spec => [][\A c \in Channels : \A m \in stream[c] \ stream'[c] : Safe(c, m)]_vars
  BY <1>2, StoreInvariant, PTL DEF Spec
<1> QED
  BY <1>3 DEF SavedBeforeRemoved

-----------------------------------------------------------------------------
(* Refinement. *)

LEMMA TranscriptInit == Init => Transcript!Init
<1> SUFFICES ASSUME Init PROVE Transcript!Init
  OBVIOUS
<1>1. SavedIds = [c \in Channels |-> {}]
  BY DEF Init, SavedIds
<1> QED
  BY <1>1 DEF Init, Transcript!Init, SavedIds

\* insertMany, whole or broken off, is a Save of the transcript.
LEMMA SavingIsSave ==
  ASSUME StoreInv,
         NEW t \in Tasks, task[t].pc = "insert", NEW S \in SUBSET task[t].batch,
         \A m \in S, k \in task[t].batch : k < m => k \in S,
         archive' = Saved(task[t].chan, S), UNCHANGED <<sent, stream>>
  PROVE  \E c \in Channels : Transcript!Save(c)
<1> USE DEF StoreInv
<1>0. PICK c \in Channels : c = task[t].chan
  BY HoldingTypes
<1> USE <1>0
<1>1. c \in Channels /\ S \in SUBSET Ids /\ sent[c] \in Nat /\ \A m \in S : m <= sent[c]
  BY HoldingTypes
<1>2. S \in SUBSET (1 .. sent[c])
  BY <1>1 DEF Ids
<1>3. \A m \in S \intersect stream[c], k \in stream[c] : k < m => k \in S
  BY <1>1 DEF BatchIsPrefix, Holds
<1>4. \A d \in Channels, m \in Ids :
         archive'[d][m] = IF d = c /\ m \in S THEN archive[d][m] + 1 ELSE archive[d][m]
  BY <1>1, SavedCounts
<1>5. \A d \in Channels, m \in Ids : archive[d][m] \in Nat
  BY DEF TypeOK
<1>6. SavedIds' = [SavedIds EXCEPT ![c] = @ \union S]
  <2>1. \A d \in Channels : SavedIds'[d] = IF d = c THEN SavedIds[d] \union S ELSE SavedIds[d]
    BY <1>1, <1>4, <1>5 DEF SavedIds
  <2>2. /\ SavedIds = [d \in Channels |-> SavedIds[d]]
        /\ SavedIds' = [d \in Channels |-> SavedIds'[d]]
    BY DEF SavedIds
  <2> QED
    BY <1>1, <2>1, <2>2
<1>7. \A m \in S \intersect stream[c], k \in stream[c] : k < m => k \in S \union SavedIds[c]
  BY <1>3
<1>8. Transcript!Save(c)
  BY <1>2, <1>6, <1>7 DEF Transcript!Save
<1> QED
  BY <1>8

LEMMA TranscriptStep ==
  StoreInv /\ [Next]_vars => [Transcript!Next]_(Transcript!vars)
<1> SUFFICES ASSUME StoreInv, [Next]_vars
             PROVE  Transcript!Next \/ UNCHANGED <<sent, stream, SavedIds>>
  BY DEF Transcript!vars
<1> USE DEF StoreInv
<1>1. ASSUME UNCHANGED <<sent, stream, archive>>
      PROVE  UNCHANGED <<sent, stream, SavedIds>>
  BY <1>1 DEF SavedIds
<1>2. CASE Grows
  <2>1. PICK c \in Channels : XAdd(c) /\ UNCHANGED archive
    BY <1>2 DEF Grows
  <2>2. Transcript!Accept(c)
    BY <2>1 DEF XAdd, Transcript!Accept, SavedIds
  <2> QED
    BY <2>2 DEF Transcript!Next
<1>3. ASSUME NEW t \in Tasks, Insert(t) PROVE Transcript!Next
  <2>1. /\ task[t].pc = "insert" /\ archive' = Saved(task[t].chan, task[t].batch)
        /\ UNCHANGED <<sent, stream>>
    BY <1>3, InsertEffect
  <2>2. \E c \in Channels : Transcript!Save(c)
    BY <2>1, SavingIsSave
  <2> QED
    BY <2>2 DEF Transcript!Next
<1>4. ASSUME NEW t \in Tasks, InsertBreaks(t) PROVE Transcript!Next
  <2>1. task[t].pc = "insert" /\ UNCHANGED <<sent, stream>>
    BY <1>4, InsertBreaksEffect
  <2>2. PICK n \in Nat : archive' = Saved(task[t].chan, Oldest(task[t].batch, n))
    BY <1>4, InsertBreaksEffect
  <2>3. \A i \in Oldest(task[t].batch, n), j \in task[t].batch :
           j < i => j \in Oldest(task[t].batch, n)
    BY <2>1, HoldingTypes, OldestIsPrefix
  <2>4. Oldest(task[t].batch, n) \in SUBSET task[t].batch
    BY DEF Oldest
  <2>5. \E c \in Channels : Transcript!Save(c)
    BY <2>1, <2>2, <2>3, <2>4, SavingIsSave
  <2> QED
    BY <2>5 DEF Transcript!Next
<1>5. ASSUME NEW t \in Tasks, Delete(t) PROVE Transcript!Next
  <2> DEFINE c == task[t].chan
             B == task[t].batch
  <2>1. /\ task[t].pc = "delete"
        /\ UNCHANGED <<sent, archive>>
        /\ stream' = [stream EXCEPT ![c] = Remaining(task[t])]
    BY <1>5, DeleteEffect
  <2>2. c \in Channels /\ B \in SUBSET Ids /\ task[t].count \in Nat
    BY <2>1, HoldingTypes
  <2>3. UNCHANGED SavedIds
    BY <2>1 DEF SavedIds
  <2>4. CASE task[t].count = 0
    <3>1. Transcript!Empty(c)
      BY <2>1, <2>3, <2>4 DEF Transcript!Empty, Remaining
    <3> QED
      BY <2>2, <3>1 DEF Transcript!Next
  <2>5. CASE task[t].count > 0
    <3>1. B \in SUBSET SavedIds[c]
      BY <2>1, <2>2 DEF BatchSaved, SavedIds
    <3>2. \A m \in B, k \in stream[c] : k < m => k \in B
      BY <2>1, <2>2 DEF BatchIsPrefix, Holds
    <3>3. stream' = [stream EXCEPT ![c] = @ \ B]
      BY <2>1, <2>5 DEF Remaining
    <3>4. Transcript!Trim(c)
      BY <2>1, <2>3, <3>1, <3>2, <3>3 DEF Transcript!Trim
    <3> QED
      BY <2>2, <3>4 DEF Transcript!Next
  <2> QED
    BY <2>2, <2>4, <2>5
<1> QED
  BY <1>1, <1>2, <1>3, <1>4, <1>5, StepCases DEF Quiet, GetsBatch

\* The cache with its overlapping, breaking flushes implements the transcript.
THEOREM Refinement == Spec => ImplementsTranscript
<1>1. Init => Transcript!Init
  BY TranscriptInit
<1>2. StoreInv /\ [Next]_vars => [Transcript!Next]_(Transcript!vars)
  BY TranscriptStep
<1>3. Spec => Transcript!Spec
  BY <1>1, <1>2, StoreInvariant, PTL DEF Spec, Transcript!Spec
<1> QED
  BY <1>3 DEF ImplementsTranscript

-----------------------------------------------------------------------------
(* Copies, without faults. *)

\* Only its own Delete moves a task that stands before a delete, unless a
\* command fails or the process dies.
LEMMA DeleterStays ==
  ASSUME TypeOK, [Next]_vars, faults' = faults, NEW u \in Tasks, task[u].pc = "delete"
  PROVE  task'[u] = task[u] \/ Delete(u)
<1>0. task \in [Tasks -> TaskTypes] /\ faults \in Nat
  BY DEF TypeOK
<1>1. CASE UNCHANGED task
  BY <1>1
<1>2. ASSUME NEW t \in Tasks, NEW c \in Channels, Start(t, c) PROVE task'[u] = task[u]
  <2>1. t # u
    BY <1>2 DEF Start, ExitRoom, Disconnect, NewMessage, IntervalFires, Idle
  <2> QED
    BY <1>0, <1>2, <2>1 DEF Start, ExitRoom, Disconnect, NewMessage, IntervalFires
<1>3. ASSUME NEW t \in Tasks, Continue(t), ~Delete(t) PROVE task'[u] = task[u]
  <2>1. t # u
    BY <1>3 DEF Continue, Reject, Add, Len, Half, Read, Insert, InsertRejected,
                              ClearRoom
  <2> QED
    BY <1>0, <1>3, <2>1 DEF Continue, Reject, Add, Len, Half, Read, Insert, InsertRejected,
                              ClearRoom
<1>4. ASSUME NEW t \in Tasks, Delete(t), t # u PROVE task'[u] = task[u]
  BY <1>0, <1>4 DEF Delete
<1>5. ASSUME Fault PROVE FALSE
  BY <1>0, <1>5 DEF Fault
<1>6. ASSUME NEW t \in Tasks, Break(t) PROVE FALSE
  BY <1>5, <1>6 DEF Break, CommandFails, AddUnconfirmed, InsertBreaks
<1> QED
  BY <1>1, <1>2, <1>3, <1>4, <1>5, <1>6
     DEF Next, CreateRoom, StopLive, Crash, vars

\* Faults are only ever added.
LEMMA FaultsCount == [Next]_vars => faults' = faults \/ faults' = faults + 1
<1>1. ASSUME NEW t \in Tasks, NEW c \in Channels, Start(t, c) PROVE faults' = faults
  BY <1>1 DEF Start, ExitRoom, Disconnect, NewMessage, IntervalFires
<1>2. ASSUME NEW t \in Tasks, Continue(t) PROVE faults' = faults
  BY <1>2 DEF Continue, Reject, Add, Len, Half, Read, Insert, InsertRejected, Delete, ClearRoom
<1>3. ASSUME NEW t \in Tasks, Break(t) PROVE faults' = faults + 1
  BY <1>3 DEF Break, CommandFails, AddUnconfirmed, InsertBreaks, Fault
<1>4. ASSUME NEW c \in Channels, CreateRoom(c) PROVE faults' = faults
  BY <1>4 DEF CreateRoom
<1>5. StopLive => faults' = faults
  BY DEF StopLive
<1>6. Crash => faults' = faults + 1
  BY DEF Crash, Fault
<1>7. UNCHANGED vars => faults' = faults
  BY DEF vars
<1> QED
  BY <1>1, <1>2, <1>3, <1>4, <1>5, <1>6, <1>7 DEF Next

LEMMA NoStaleCopyStep == StoreInv /\ NoStaleCopy /\ [Next]_vars => NoStaleCopy'
<1> DEFINE Deleter(u, c, m) ==
       task[u].pc = "delete" /\ task[u].chan = c /\ m \in task[u].batch
<1> SUFFICES ASSUME StoreInv, NoStaleCopy, [Next]_vars, faults' = 0,
                    NEW c \in Channels, NEW m \in stream'[c], archive'[c][m] > 0
             PROVE  \E u \in Tasks : Deleter(u, c, m)'
  BY DEF NoStaleCopy
<1> USE DEF StoreInv
<1>0. TypeOK /\ TypeOK' /\ m \in Ids /\ faults \in Nat
  BY TypeOKStep DEF TypeOK
<1>1. faults = 0
  BY <1>0, FaultsCount
<1>2. CASE m \in stream[c] /\ archive[c][m] > 0
  <2>1. PICK u \in Tasks : Deleter(u, c, m)
    BY <1>1, <1>2 DEF NoStaleCopy
  <2>2. CASE task'[u] = task[u]
    BY <2>1, <2>2
  <2>3. CASE Delete(u)
    <3>1. stream'[c] = Remaining(task[u])
      BY <2>1, <2>3, DeleteEffect
    <3>2. m \notin Remaining(task[u])
      BY <2>1 DEF Remaining
    <3> QED
      BY <3>1, <3>2
  <2> QED
    BY <1>0, <1>1, <2>1, <2>2, <2>3, DeleterStays
<1>3. CASE m \notin stream[c]
  <2>1. CASE Grows
    <3>1. PICK d \in Channels : stream' = [stream EXCEPT ![d] = @ \union {sent[d] + 1}]
      BY <2>1 DEF Grows, XAdd
    <3>2. m = sent[c] + 1 /\ sent[c] \in Nat
      BY <1>3, <3>1 DEF TypeOK
    <3>3. m <= sent[c]
      BY <1>0, <2>1 DEF Grows, TypeOK
    <3> QED
      BY <3>2, <3>3
  <2>2. CASE ~Grows
    <3>1. m \in stream[c]
      BY <2>2, StepCases, InsertEffect, InsertBreaksEffect, DeleteEffect DEF Quiet, GetsBatch
    <3> QED
      BY <1>3, <3>1
  <2> QED
    BY <2>1, <2>2
<1>4. CASE ~(archive[c][m] > 0)
  <2>1. archive'[c][m] # archive[c][m]
    BY <1>4
  <2>2. PICK t \in Tasks : Insert(t) \/ InsertBreaks(t)
    BY <2>1, StepCases, DeleteEffect DEF Quiet, Grows, GetsBatch
  <2>3. ~InsertBreaks(t)
    BY <1>0, <1>1 DEF InsertBreaks, Fault
  <2>4. /\ task[t].pc = "insert"
        /\ archive' = Saved(task[t].chan, task[t].batch)
        /\ task'[t].pc = "delete"
        /\ task'[t].chan = task[t].chan
        /\ task'[t].batch = task[t].batch
    BY <2>2, <2>3, InsertEffect
  <2>5. c = task[t].chan /\ m \in task[t].batch
    BY <1>0, <2>1, <2>4, HoldingTypes, SavedCounts
  <2> QED
    BY <2>4, <2>5
<1> QED
  BY <1>2, <1>3, <1>4

\* Without faults, what is both cached and saved is in the hands of a flush
\* about to delete it.
THEOREM CopiesInHand == Spec => []NoStaleCopy
<1>1. Init => NoStaleCopy
  BY DEF Init, NoStaleCopy
<1>2. StoreInv /\ NoStaleCopy /\ [Next]_vars => NoStaleCopy'
  BY NoStaleCopyStep
<1> QED
  BY <1>1, <1>2, StoreInvariant, PTL DEF Spec

-----------------------------------------------------------------------------
(* The number of copies.  A message that is still cached has a copy for each  *)
(* handler about to delete it; once it has left the cache no handler reads it *)
(* any more, and those about to insert it are the copies still to come.  Each *)
(* fault may forget the copies of every handler.                              *)

Inserters(c, m) == {t \in Tasks : task[t].pc = "insert" /\ task[t].chan = c /\ m \in task[t].batch}
Deleters(c, m) == {t \in Tasks : task[t].pc = "delete" /\ task[t].chan = c /\ m \in task[t].batch}

Forgotten == Cardinality(Tasks) * faults

CopiesCounted ==
  \A c \in Channels, m \in Ids :
    /\ m \in stream[c] => archive[c][m] <= Cardinality(Deleters(c, m)) + Forgotten
    /\ m \notin stream[c] =>
         archive[c][m] + Cardinality(Inserters(c, m)) <= Forgotten + Cardinality(Tasks)

\* Sets of handlers are finite; no handler both inserts and deletes.
LEMMA HandlersFinite ==
  ASSUME NEW S \in SUBSET Tasks
  PROVE  IsFiniteSet(S) /\ Cardinality(S) \in Nat /\ Cardinality(S) <= Cardinality(Tasks)
<1>1. IsFiniteSet(S) /\ Cardinality(S) <= Cardinality(Tasks)
  BY FS_Subset
<1> QED
  BY <1>1, FS_CardinalityType

LEMMA HandlersDisjoint ==
  ASSUME NEW c, NEW m
  PROVE  Cardinality(Deleters(c, m)) + Cardinality(Inserters(c, m)) <= Cardinality(Tasks)
<1> DEFINE D == Deleters(c, m)
           I == Inserters(c, m)
<1>1. D \in SUBSET Tasks /\ I \in SUBSET Tasks /\ D \union I \in SUBSET Tasks /\ D \cap I = {}
  BY DEF Deleters, Inserters
<1> HIDE DEF D, I
<1>2. /\ IsFiniteSet(D) /\ IsFiniteSet(I)
      /\ Cardinality(D) \in Nat /\ Cardinality(I) \in Nat
      /\ Cardinality(D \union I) <= Cardinality(Tasks)
  BY <1>1, HandlersFinite
<1>3. Cardinality(D \union I) = Cardinality(D) + Cardinality(I) - Cardinality(D \cap I)
  BY <1>2, FS_Union
<1>4. Cardinality(D \cap I) = 0
  BY <1>1, FS_EmptySet
<1>5. Cardinality(D) + Cardinality(I) <= Cardinality(Tasks)
  BY <1>2, <1>3, <1>4
<1> QED
  BY <1>5 DEF D, I

LEMMA ForgottenCount ==
  ASSUME TypeOK, TypeOK', [Next]_vars
  PROVE  /\ Cardinality(Tasks) \in Nat /\ Forgotten \in Nat
         /\ faults' = faults => Forgotten' = Forgotten
         /\ faults' = faults + 1 => Forgotten' = Forgotten + Cardinality(Tasks)
<1>1. Cardinality(Tasks) \in Nat /\ faults \in Nat
  BY HandlersFinite DEF TypeOK
<1>2. \A a, b \in Nat : a * b \in Nat /\ a * (b + 1) = a * b + a
  OBVIOUS
<1> QED
  BY <1>1, <1>2 DEF Forgotten

LEMMA CopiesCountedStep == StoreInv /\ CopiesCounted /\ [Next]_vars => CopiesCounted'
<1> SUFFICES ASSUME StoreInv, CopiesCounted, [Next]_vars, NEW c \in Channels, NEW m \in Ids
             PROVE  /\ m \in stream'[c] =>
                         archive'[c][m] <= Cardinality(Deleters(c, m))' + Forgotten'
                    /\ m \notin stream'[c] =>
                         archive'[c][m] + Cardinality(Inserters(c, m))'
                           <= Forgotten' + Cardinality(Tasks)
  BY DEF CopiesCounted
<1> DEFINE D == Deleters(c, m)
           I == Inserters(c, m)
           DP == Deleters(c, m)'
           IP == Inserters(c, m)'
<1> SUFFICES
      /\ m \in stream'[c] => archive'[c][m] <= Cardinality(DP) + Forgotten'
      /\ m \notin stream'[c] => archive'[c][m] + Cardinality(IP) <= Forgotten' + Cardinality(Tasks)
  OBVIOUS
<1>0. TypeOK /\ TypeOK' /\ archive[c][m] \in Nat /\ archive'[c][m] \in Nat /\ faults \in Nat
  BY TypeOKStep DEF StoreInv, TypeOK
<1>1. /\ D \in SUBSET Tasks /\ I \in SUBSET Tasks /\ DP \in SUBSET Tasks /\ IP \in SUBSET Tasks
  BY DEF Deleters, Inserters
<1>2. Cardinality(D) + Cardinality(I) <= Cardinality(Tasks)
  BY HandlersDisjoint
<1>3. /\ m \in stream[c] => archive[c][m] <= Cardinality(D) + Forgotten
      /\ m \notin stream[c] => archive[c][m] + Cardinality(I) <= Forgotten + Cardinality(Tasks)
  BY DEF CopiesCounted
<1>4. m \notin stream'[c] => IP \subseteq I
  <2> SUFFICES ASSUME m \notin stream'[c], NEW u \in IP PROVE u \in I
    OBVIOUS
  <2>1. u \in Tasks /\ task'[u].pc = "insert" /\ task'[u].chan = c /\ m \in task'[u].batch
    BY DEF Inserters
  <2>2. task'[u] = task[u] => u \in I
    BY <2>1 DEF Inserters
  <2>3. CASE KeepsBatches
    BY <2>1, <2>2, <2>3 DEF KeepsBatches, Holding
  <2>4. ASSUME NEW t \in Tasks, GetsBatch(t) PROVE u \in I
    <3>1. CASE u = t
      <4>1. task[t].chan = c /\ m \in Snapshot(c, task[t].count) /\ m \notin stream[c]
            /\ task[t].count \in Nat
        BY <1>0, <2>1, <2>4, <3>1, HoldingTypes DEF GetsBatch
      <4> QED
        BY <1>0, <4>1, SnapshotIsPrefix
    <3>2. CASE u # t
      BY <2>1, <2>2, <2>4, <3>2 DEF GetsBatch
    <3> QED
      BY <3>1, <3>2
  <2>5. ASSUME NEW t \in Tasks, Insert(t) PROVE u \in I
    BY <1>0, <2>1, <2>2, <2>5, InsertEffect
  <2> QED
    BY <1>0, <2>3, <2>4, <2>5, StepCases, DeleteEffect, InsertBreaksEffect DEF Quiet, Grows
<1>5. ASSUME faults' = faults, m \in stream[c], m \in stream'[c] PROVE D \subseteq DP
  <2> SUFFICES ASSUME NEW u \in D PROVE u \in DP
    OBVIOUS
  <2>1. u \in Tasks /\ task[u].pc = "delete" /\ task[u].chan = c /\ m \in task[u].batch
    BY DEF Deleters
  <2>2. CASE task'[u] = task[u]
    BY <2>1, <2>2 DEF Deleters
  <2>3. CASE Delete(u)
    <3>1. stream'[c] = Remaining(task[u])
      BY <1>0, <2>1, <2>3, DeleteEffect
    <3>2. m \notin Remaining(task[u])
      BY <2>1 DEF Remaining
    <3> QED
      BY <1>5, <3>1, <3>2
  <2> QED
    BY <1>0, <1>5, <2>1, <2>2, <2>3, DeleterStays
<1>6. ASSUME m \notin stream[c], m \in stream'[c]
      PROVE  archive'[c][m] = 0
  <2>1. CASE Grows
    <3>1. PICK d \in Channels : stream' = [stream EXCEPT ![d] = @ \union {sent[d] + 1}]
      BY <2>1 DEF Grows, XAdd
    <3>2. m = sent[c] + 1 /\ sent[c] \in Nat
      BY <1>0, <1>6, <3>1 DEF TypeOK
    <3>3. ~(archive[c][m] > 0)
      BY <1>0, <3>2 DEF TypeOK
    <3> QED
      BY <1>0, <2>1, <3>3 DEF Grows
  <2>2. CASE ~Grows
    BY <1>0, <1>6, <2>2, StepCases, InsertEffect, InsertBreaksEffect, DeleteEffect DEF Quiet, GetsBatch
  <2> QED
    BY <2>1, <2>2
<1>7. ASSUME archive'[c][m] # archive[c][m]
      PROVE  /\ archive'[c][m] = archive[c][m] + 1
             /\ stream'[c] = stream[c]
             /\ \E t \in I :
                  \/ Insert(t) /\ faults' = faults /\ D \union {t} \subseteq DP /\ IP \subseteq I \ {t}
                  \/ faults' = faults + 1 /\ IP \subseteq I
  <2>1. PICK t \in Tasks : Insert(t) \/ InsertBreaks(t)
    BY <1>0, <1>7, StepCases, DeleteEffect DEF Quiet, Grows, GetsBatch
  <2>2. /\ task[t].pc = "insert" /\ stream' = stream
        /\ \E S \in SUBSET task[t].batch : archive' = Saved(task[t].chan, S)
    BY <1>0, <2>1, InsertEffect, InsertBreaksEffect DEF Oldest
  <2>3. PICK S \in SUBSET task[t].batch : archive' = Saved(task[t].chan, S)
    BY <2>2
  <2>4. task[t].chan \in Channels /\ S \in SUBSET Ids
    BY <1>0, <2>2, <2>3, HoldingTypes
  <2>5. archive'[c][m] = archive[c][m] + 1 /\ c = task[t].chan /\ m \in S
    BY <1>0, <1>7, <2>3, <2>4, SavedCounts
  <2>6. t \in I
    BY <2>2, <2>3, <2>5 DEF Inserters
  <2>7. CASE Insert(t)
    <3>1. /\ task'[t].pc = "delete" /\ task'[t].chan = task[t].chan /\ task'[t].batch = task[t].batch
          /\ \A u \in Tasks \ {t} : task'[u] = task[u]
      BY <1>0, <2>7, InsertEffect
    <3>2. D \union {t} \subseteq DP
      BY <2>2, <2>3, <2>5, <3>1 DEF Deleters
    <3>3. IP \subseteq I \ {t}
      BY <3>1 DEF Inserters
    <3>4. faults' = faults
      BY <2>7 DEF Insert
    <3> QED
      BY <2>2, <2>5, <2>6, <2>7, <3>2, <3>3, <3>4
  <2>8. CASE InsertBreaks(t)
    <3>1. faults' = faults + 1
      BY <2>8 DEF InsertBreaks, Fault
    <3>2. IP \subseteq I
      BY <1>0, <2>8, InsertBreaksEffect DEF KeepsBatches, Holding, Inserters
    <3> QED
      BY <2>2, <2>5, <2>6, <3>1, <3>2
  <2> QED
    BY <2>1, <2>7, <2>8
<1> HIDE DEF D, I, DP, IP
<1>8. /\ Cardinality(D) \in Nat /\ Cardinality(I) \in Nat
      /\ Cardinality(DP) \in Nat /\ Cardinality(IP) \in Nat
      /\ IsFiniteSet(D) /\ IsFiniteSet(I) /\ IsFiniteSet(DP) /\ IsFiniteSet(IP)
      /\ Cardinality(IP) <= Cardinality(Tasks)
  BY <1>1, HandlersFinite
<1>9. /\ Cardinality(Tasks) \in Nat /\ Forgotten \in Nat /\ Forgotten' \in Nat
      /\ \/ faults' = faults /\ Forgotten' = Forgotten
         \/ faults' = faults + 1 /\ Forgotten' = Forgotten + Cardinality(Tasks)
  BY <1>0, ForgottenCount, FaultsCount
<1>10. /\ IP \subseteq I => Cardinality(IP) <= Cardinality(I)
       /\ D \subseteq DP => Cardinality(D) <= Cardinality(DP)
  BY <1>8, FS_Subset
<1>11. CASE archive'[c][m] = archive[c][m]
  <2>1. CASE m \in stream'[c] /\ m \in stream[c]
    <3>1. CASE faults' = faults
      BY <1>0, <1>3, <1>5, <1>8, <1>9, <1>10, <1>11, <2>1, <3>1
    <3>2. CASE faults' = faults + 1
      BY <1>0, <1>2, <1>3, <1>8, <1>9, <1>11, <2>1, <3>2
    <3> QED
      BY <1>9, <2>1, <3>1, <3>2
  <2>2. CASE m \in stream'[c] /\ m \notin stream[c]
    BY <1>6, <1>8, <1>9, <2>2
  <2>3. CASE m \notin stream'[c]
    BY <1>0, <1>2, <1>3, <1>4, <1>8, <1>9, <1>10, <1>11, <2>3
  <2> QED
    BY <2>1, <2>2, <2>3
<1>12. CASE archive'[c][m] # archive[c][m]
  <2>1. PICK t \in I :
          \/ Insert(t) /\ faults' = faults /\ D \union {t} \subseteq DP /\ IP \subseteq I \ {t}
          \/ faults' = faults + 1 /\ IP \subseteq I
    BY <1>7, <1>12
  <2>2. archive'[c][m] = archive[c][m] + 1 /\ stream'[c] = stream[c]
    BY <1>7, <1>12
  <2>3. IsFiniteSet(I \ {t}) /\ Cardinality(I \ {t}) = Cardinality(I) - 1 /\ Cardinality(I) >= 1
    <3>1. Cardinality(I) # 0
      BY <1>8, FS_EmptySet
    <3> QED
      BY <1>8, <3>1, FS_RemoveElement
  <2>4. CASE faults' = faults + 1
    BY <1>0, <1>2, <1>3, <1>4, <1>8, <1>9, <1>10, <2>2, <2>3, <2>4
  <2>5. CASE Insert(t) /\ faults' = faults /\ D \union {t} \subseteq DP /\ IP \subseteq I \ {t}
    <3>1. Cardinality(IP) <= Cardinality(I) - 1
      BY <2>3, <2>5, FS_Subset
    <3>2. Cardinality(DP) >= Cardinality(D) + 1
      <4>1. t \notin D
        BY <2>5 DEF D, Deleters, Insert
      <4>2. IsFiniteSet(D \union {t}) /\ Cardinality(D \union {t}) = Cardinality(D) + 1
        BY <1>8, <4>1, FS_AddElement
      <4>3. Cardinality(D \union {t}) <= Cardinality(DP)
        BY <1>8, <2>5, FS_Subset
      <4> QED
        BY <4>2, <4>3
    <3> QED
      BY <1>0, <1>3, <1>8, <1>9, <2>2, <2>5, <3>1, <3>2
  <2> QED
    BY <2>1, <2>4, <2>5
<1> QED
  BY <1>11, <1>12

\* The overlapping flushes save a message once per handler that can run at the
\* same time, and again for each fault, but never more often.
THEOREM CopiesAreBounded == Spec => []CopiesBounded
<1>1. Init => CopiesCounted
  <2> SUFFICES ASSUME Init PROVE CopiesCounted
    OBVIOUS
  <2>1. Cardinality(Tasks) \in Nat /\ Forgotten = 0
    BY HandlersFinite DEF Forgotten, Init
  <2>2. \A c \in Channels, m \in Ids : Inserters(c, m) = {} /\ archive[c][m] = 0 /\ stream[c] = {}
    BY DEF Init, Inserters, Idle
  <2>3. \A c \in Channels, m \in Ids : Cardinality(Inserters(c, m)) = 0
    BY <2>2, FS_EmptySet
  <2> QED
    BY <2>1, <2>2, <2>3 DEF CopiesCounted
<1>2. StoreInv /\ CopiesCounted /\ [Next]_vars => CopiesCounted'
  BY CopiesCountedStep
<1>3. StoreInv /\ CopiesCounted => CopiesBounded
  <2> SUFFICES ASSUME StoreInv, CopiesCounted, NEW c \in Channels, NEW m \in Ids
               PROVE  archive[c][m] <= Cardinality(Tasks) * (faults + 1)
    BY DEF CopiesBounded
  <2>1. archive[c][m] \in Nat /\ faults \in Nat /\ Cardinality(Tasks) \in Nat
    BY HandlersFinite DEF StoreInv, TypeOK
  <2>2. \A a, b \in Nat : a * b \in Nat /\ a * (b + 1) = a * b + a
    OBVIOUS
  <2>3. Cardinality(Tasks) * (faults + 1) = Forgotten + Cardinality(Tasks) /\ Forgotten \in Nat
    BY <2>1, <2>2 DEF Forgotten
  <2>4. /\ Cardinality(Deleters(c, m)) \in Nat /\ Cardinality(Deleters(c, m)) <= Cardinality(Tasks)
        /\ Cardinality(Inserters(c, m)) \in Nat
    BY HandlersFinite DEF Deleters, Inserters
  <2> QED
    BY <2>1, <2>3, <2>4 DEF CopiesCounted
<1> QED
  BY <1>1, <1>2, <1>3, StoreInvariant, PTL DEF Spec

=============================================================================
