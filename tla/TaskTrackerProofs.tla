-------------------------- MODULE TaskTrackerProofs --------------------------
(***************************************************************************)
(* Proofs about TaskTracker, for any chats, runs, subscribers and events:  *)
(* a chat never has two runs in progress, sentinels end streams, every     *)
(* subscriber gets every event once, and the tracker implements            *)
(* EventStream.                                                            *)
(***************************************************************************)
EXTENDS TaskTracker, FiniteSetTheorems, SequenceTheorems, TLAPS

\* asyncio.Queue.put_nowait on every queue of a run keeps the queues typed.
LEMMA BroadcastType ==
    ASSUME TypeOK, NEW r \in Runs, NEW item \in Items, Broadcast(r, item)
    PROVE  inbox' \in [Subscribers -> Seq(Items)]
BY DEF TypeOK, Broadcast

LEMMA PublishType ==
    ASSUME TypeOK, NEW r \in Runs, Publish(r)
    PROVE  /\ inbox' \in [Subscribers -> Seq(Items)]
           /\ buffer' \in [Runs -> Seq(Nat)]
<1>1. Len(buffer[r]) + 1 \in Items
  BY DEF TypeOK, Items
<1>2. inbox' \in [Subscribers -> Seq(Items)]
  BY <1>1, BroadcastType DEF Publish
<1>3. buffer' \in [Runs -> Seq(Nat)]
  BY DEF TypeOK, Publish
<1> QED BY <1>2, <1>3

LEMMA JoinType ==
    ASSUME TypeOK, NEW q \in Subscribers, NEW r \in Runs,
           NEW items \in Seq(Items), NEW pc \in ReaderPC, Join(q, r, items, pc)
    PROVE  /\ subRun' \in [Subscribers -> Runs \cup {None}]
           /\ inbox' \in [Subscribers -> Seq(Items)]
           /\ queues' \in [Runs -> SUBSET Subscribers]
           /\ reader' \in [Subscribers -> ReaderPC]
BY DEF TypeOK, Join

LEMMA DetachType ==
    ASSUME TypeOK, NEW q \in Subscribers, Detach(q)
    PROVE  queues' \in [Runs -> SUBSET Subscribers]
BY DEF TypeOK, Detach

\* A replayed buffer is a sequence of items.
LEMMA ReplayType ==
    ASSUME TypeOK, NEW k \in Keys, Active(k)
    PROVE  /\ runs[k] \in Runs
           /\ buffer[runs[k]] \in Seq(Items)
           /\ Append(buffer[runs[k]], ReplayEnd) \in Seq(Items)
<1>1. runs[k] \in Runs
  BY DEF TypeOK, Active
<1>2. buffer[runs[k]] \in Seq(Nat)
  BY <1>1 DEF TypeOK
<1>3. buffer[runs[k]] \in Seq(Items)
  BY <1>2 DEF Items
<1>4. ReplayEnd \in Items
  BY DEF Items
<1> QED BY <1>1, <1>3, <1>4

-----------------------------------------------------------------------------

\* Type correctness: whatever callers, producers and readers do, the tracker's
\* data keep their types.
THEOREM TypeCorrect == Spec => []TypeOK
<1>1. Init => TypeOK
  BY DEF Init, TypeOK, TaskPC, ReaderPC
<1>2. TypeOK /\ [Next]_vars => TypeOK'
  <2> SUFFICES ASSUME TypeOK, [Next]_vars PROVE TypeOK'
    OBVIOUS
  <2>1. ASSUME NEW k \in Keys, NEW q \in Subscribers, NEW r \in Runs,
               StartRun(k, q, r)
        PROVE  TypeOK'
    <3>1. <<>> \in Seq(Items) /\ "reading" \in ReaderPC
      BY DEF ReaderPC
    <3>2. Join(q, r, <<>>, "reading")
      BY <2>1 DEF StartRun
    <3> QED BY <2>1, <3>1, <3>2, JoinType DEF StartRun, TypeOK, TaskPC
  <2>2. ASSUME NEW k \in Keys, NEW q \in Subscribers, StartRefused(k, q)
        PROVE  TypeOK'
    <3>1. PICK pc \in {"left", "ignored"} : Join(q, runs[k], buffer[runs[k]], pc)
      BY <2>2 DEF StartRefused
    <3>2. pc \in ReaderPC
      BY DEF ReaderPC
    <3>3. runs[k] \in Runs /\ buffer[runs[k]] \in Seq(Items)
      BY <2>2, ReplayType DEF StartRefused
    <3> QED BY <2>2, <3>1, <3>2, <3>3, JoinType DEF StartRefused, TypeOK
  <2>3. ASSUME NEW k \in Keys, NEW q \in Subscribers, Attach(k, q)
        PROVE  TypeOK'
    <3>1. Join(q, runs[k], Append(buffer[runs[k]], ReplayEnd), "reading")
      BY <2>3 DEF Attach
    <3>2. runs[k] \in Runs /\ Append(buffer[runs[k]], ReplayEnd) \in Seq(Items)
      BY <2>3, ReplayType DEF Attach
    <3>3. "reading" \in ReaderPC
      BY DEF ReaderPC
    <3> QED BY <2>3, <3>1, <3>2, <3>3, JoinType DEF Attach, TypeOK
  <2>4. ASSUME NEW k \in Keys, RequestStop(k) PROVE TypeOK'
    BY <2>4 DEF RequestStop, TypeOK
  <2>5. ASSUME NEW r \in Runs, Producer(r) PROVE TypeOK'
    <3>1. CASE ProducerStarts(r)
      BY <3>1 DEF ProducerStarts, TypeOK, TaskPC
    <3>2. CASE ProducerNeverRuns(r)
      BY <3>2 DEF ProducerNeverRuns, TypeOK, TaskPC
    <3>3. CASE Emit(r)
      BY <3>3, PublishType DEF Emit, TypeOK
    <3>4. CASE StreamEnds(r)
      BY <3>4 DEF StreamEnds, TypeOK, TaskPC
    <3>5. CASE StreamRaises(r)
      BY <3>5, PublishType DEF StreamRaises, TypeOK, TaskPC
    <3>6. CASE StreamCancelled(r)
      BY <3>6 DEF StreamCancelled, TypeOK, TaskPC
    <3>7. CASE RunFinishes(r)
      <4>1. Sentinel \in Items
        BY DEF Items
      <4>2. inbox' \in [Subscribers -> Seq(Items)]
        BY <3>7, <4>1, BroadcastType DEF RunFinishes
      <4> QED BY <3>7, <4>2 DEF RunFinishes, TypeOK, TaskPC
    <3>8. CASE FinishCancelled(r)
      BY <3>8 DEF FinishCancelled, TypeOK, TaskPC
    <3> QED BY <2>5, <3>1, <3>2, <3>3, <3>4, <3>5, <3>6, <3>7, <3>8
            DEF Producer
  <2>6. ASSUME NEW q \in Subscribers, ReadItem(q) PROVE TypeOK'
    <3>1. Head(inbox[q]) \in Items /\ Tail(inbox[q]) \in Seq(Items)
      BY <2>6 DEF ReadItem, TypeOK
    <3> QED BY <2>6, <3>1 DEF ReadItem, TypeOK
  <2>7. ASSUME NEW q \in Subscribers, ReadSentinel(q) PROVE TypeOK'
    <3>1. Tail(inbox[q]) \in Seq(Items)
      BY <2>7 DEF ReadSentinel, TypeOK
    <3> QED BY <2>7, <3>1, DetachType DEF ReadSentinel, TypeOK, ReaderPC
  <2>8. ASSUME NEW q \in Subscribers, Leave(q) PROVE TypeOK'
    BY <2>8, DetachType DEF Leave, TypeOK, ReaderPC
  <2>9. CASE UNCHANGED vars
    BY <2>9 DEF vars, TypeOK
  <2> QED BY <2>1, <2>2, <2>3, <2>4, <2>5, <2>6, <2>7, <2>8, <2>9
          DEF Next, Reader
<1> QED BY <1>1, <1>2, PTL DEF Spec

-----------------------------------------------------------------------------

\* A step that starts no task and leaves _runs alone keeps the property.
LEMMA QuietStep ==
    ASSUME TypeOK, OneRunPerChat, UNCHANGED <<runs, runKey>>,
           \A r \in Runs : Live(r)' => Live(r)
    PROVE  OneRunPerChat'
BY DEF OneRunPerChat

\* "All mutations to _runs under _lock": a run in progress is the registered
\* run of its chat, and the only one in progress there.  A run can leave _runs
\* in two ways only: it is replaced by attach_or_start, which looks at
\* task.done() first, or popped by the finally clause of its own producer.
THEOREM OneRun == Spec => []OneRunPerChat
<1>1. Init => OneRunPerChat
  BY DEF Init, OneRunPerChat, Live, InStream
<1>2. TypeOK /\ OneRunPerChat /\ [Next]_vars => OneRunPerChat'
  <2> SUFFICES ASSUME TypeOK, OneRunPerChat, [Next]_vars PROVE OneRunPerChat'
    OBVIOUS
  <2>1. ASSUME NEW k \in Keys, NEW q \in Subscribers, NEW r \in Runs,
               StartRun(k, q, r)
        PROVE  OneRunPerChat'
    <3> SUFFICES ASSUME NEW t \in Runs, Live(t)'
                 PROVE  runKey'[t] \in Keys /\ runs'[runKey'[t]] = t
      BY DEF OneRunPerChat
    <3>1. CASE t = r
      BY <2>1, <3>1 DEF StartRun, TypeOK
    <3>2. CASE t # r
      <4>1. Live(t) /\ runKey'[t] = runKey[t]
        BY <2>1, <3>2 DEF StartRun, TypeOK, Live, InStream
      <4>2. runKey[t] \in Keys /\ runs[runKey[t]] = t
        BY <4>1 DEF OneRunPerChat
      <4>3. runKey[t] # k
        BY <2>1, <4>1, <4>2, ConstantsAssumption DEF StartRun, Active
      <4> QED BY <2>1, <4>1, <4>2, <4>3 DEF StartRun, TypeOK
    <3> QED BY <3>1, <3>2
  <2>2. ASSUME NEW k \in Keys, NEW q \in Subscribers,
               StartRefused(k, q) \/ Attach(k, q)
        PROVE  OneRunPerChat'
    BY <2>2, QuietStep DEF StartRefused, Attach, Live, InStream
  <2>3. ASSUME NEW k \in Keys, RequestStop(k) PROVE OneRunPerChat'
    BY <2>3, QuietStep DEF RequestStop, Live, InStream
  <2>4. ASSUME NEW r \in Runs, RunFinishes(r) PROVE OneRunPerChat'
    <3> SUFFICES ASSUME NEW t \in Runs, Live(t)'
                 PROVE  runKey'[t] \in Keys /\ runs'[runKey'[t]] = t
      BY DEF OneRunPerChat
    <3>1. t # r /\ Live(t) /\ Live(r)
      BY <2>4 DEF RunFinishes, TypeOK, Live, InStream
    <3>2. /\ runKey[t] \in Keys /\ runs[runKey[t]] = t
          /\ runKey[r] \in Keys /\ runs[runKey[r]] = r
      BY <3>1 DEF OneRunPerChat
    <3> QED BY <2>4, <3>1, <3>2 DEF RunFinishes, TypeOK
  <2>5. ASSUME NEW r \in Runs, Producer(r), ~RunFinishes(r)
        PROVE  OneRunPerChat'
    <3>1. UNCHANGED <<runs, runKey>>
      BY <2>5 DEF Producer, ProducerStarts, ProducerNeverRuns, Emit, StreamEnds,
                  StreamRaises, StreamCancelled, FinishCancelled
    <3>2. \A t \in Runs : Live(t)' => Live(t)
      BY <2>5 DEF Producer, ProducerStarts, ProducerNeverRuns, Emit, StreamEnds,
                  StreamRaises, StreamCancelled, FinishCancelled, Live, InStream, TypeOK
    <3> QED BY <3>1, <3>2, QuietStep
  <2>6. ASSUME NEW q \in Subscribers, Reader(q) \/ Leave(q)
        PROVE  OneRunPerChat'
    BY <2>6, QuietStep DEF Reader, ReadItem, ReadSentinel, Leave, Live, InStream
  <2>7. CASE UNCHANGED vars
    BY <2>7, QuietStep DEF vars, Live, InStream
  <2> QED BY <2>1, <2>2, <2>3, <2>4, <2>5, <2>6, <2>7 DEF Next
<1> QED BY <1>1, <1>2, TypeCorrect, PTL DEF Spec

-----------------------------------------------------------------------------
(* The end of a stream.                                                    *)

\* A run that has not been started has no subscriber, a subscriber's queue is
\* attached to the run it joined and to no other, and nobody joins twice;
AttachedInv ==
    /\ \A r \in Runs : task[r] = "absent" => queues[r] = {}
    /\ \A r \in Runs : \A q \in queues[r] : subRun[q] = r
    /\ \A q \in Subscribers : IF reader[q] = "new"
                                THEN inbox[q] = <<>> /\ subRun[q] = None
                                ELSE subRun[q] \in Runs

\* a sentinel is the last item of a queue, and its run is done;
SentinelInv ==
    \A q \in Subscribers : \A i \in DOMAIN inbox[q] :
        inbox[q][i] = Sentinel => i = Len(inbox[q]) /\ task[subRun[q]] = "done"

\* a reader that took a sentinel finds nothing after it.
EndedInv ==
    \A q \in Subscribers :
        reader[q] = "ended" => task[subRun[q]] = "done" /\ inbox[q] = <<>>

StreamInv == AttachedInv /\ SentinelInv /\ EndedInv

\* What the invariant says of one queue, before or after a step.
StreamOk(q) ==
    /\ \A i \in DOMAIN inbox[q] :
         inbox[q][i] = Sentinel => i = Len(inbox[q]) /\ task[subRun[q]] = "done"
    /\ reader[q] = "ended" => task[subRun[q]] = "done" /\ inbox[q] = <<>>

\* A run whose task is not done broadcasts to queues without a sentinel and
\* with a reader that goes on; other queues are left alone.
LEMMA BroadcastOk ==
    ASSUME TypeOK, StreamInv, NEW r \in Runs, NEW item \in Items,
           task[r] # "done", Broadcast(r, item), UNCHANGED <<subRun, reader>>,
           item = Sentinel => task'[r] = "done",
           \A t \in Runs : t # r => task'[t] = task[t]
    PROVE  \A q \in Subscribers : StreamOk(q)'
<1> SUFFICES ASSUME NEW q \in Subscribers
             PROVE  StreamOk(q)'
  OBVIOUS
<1>1. CASE q \in queues[r]
  <2>1. subRun[q] = r /\ subRun'[q] = r
    BY <1>1 DEF StreamInv, AttachedInv
  <2>2. \A i \in DOMAIN inbox[q] : inbox[q][i] # Sentinel
    BY <2>1 DEF StreamInv, SentinelInv
  <2>3. reader[q] # "ended"
    BY <2>1 DEF StreamInv, EndedInv
  <2>4. inbox'[q] = Append(inbox[q], item) /\ inbox[q] \in Seq(Items)
    BY <1>1 DEF Broadcast, TypeOK
  <2>5. \A i \in DOMAIN inbox'[q] :
          inbox'[q][i] = Sentinel => i = Len(inbox'[q]) /\ item = Sentinel
    BY <2>2, <2>4
  <2> QED BY <2>1, <2>3, <2>5 DEF StreamOk
<1>2. CASE q \notin queues[r]
  <2>1. inbox'[q] = inbox[q]
    BY <1>2 DEF Broadcast
  <2>2. \A t : task[t] = "done" /\ t \in Runs => task'[t] = "done"
    OBVIOUS
  <2>3. inbox[q] # <<>> \/ reader[q] = "ended" => subRun[q] \in Runs
    BY DEF StreamInv, AttachedInv
  <2> QED BY <2>1, <2>2, <2>3 DEF StreamOk, StreamInv, SentinelInv, EndedInv, TypeOK
<1> QED BY <1>1, <1>2

\* A step that leaves the queues alone and does not undo the end of a run keeps
\* every stream in order.
LEMMA StreamStays ==
    ASSUME TypeOK, StreamInv, NEW q \in Subscribers,
           inbox'[q] = inbox[q], reader'[q] = reader[q] \/ reader'[q] # "ended",
           subRun'[q] = subRun[q],
           \A t \in Runs : task[t] = "done" => task'[t] = "done"
    PROVE  StreamOk(q)'
<1>1. inbox[q] # <<>> \/ reader[q] = "ended" => subRun[q] \in Runs
  BY DEF StreamInv, AttachedInv
<1> QED BY <1>1 DEF StreamOk, StreamInv, SentinelInv, EndedInv, TypeOK

\* A subscriber that joins a run finds no sentinel in its queue.
LEMMA JoinOk ==
    ASSUME TypeOK, StreamInv, NEW q \in Subscribers, NEW r \in Runs,
           NEW items \in Seq(Items), NEW pc \in {"reading", "left", "ignored"},
           Join(q, r, items, pc), reader[q] = "new",
           \A i \in DOMAIN items : items[i] # Sentinel,
           \A t \in Runs : task[t] = "done" => task'[t] = "done",
           \A t \in Runs : task'[t] = "absent" => task[t] = "absent" /\ t # r
    PROVE  AttachedInv' /\ \A p \in Subscribers : StreamOk(p)'
<1>1. StreamOk(q)'
  BY DEF Join, StreamOk, TypeOK
<1>2. ASSUME NEW p \in Subscribers, p # q
      PROVE  StreamOk(p)'
  BY <1>2, StreamStays DEF Join, TypeOK
<1>3. \A t \in Runs : \A p \in queues[t] : p # q
  BY ConstantsAssumption DEF StreamInv, AttachedInv, TypeOK
<1>4. AttachedInv'
  BY <1>3 DEF Join, StreamInv, AttachedInv, TypeOK
<1> QED BY <1>1, <1>2, <1>4

\* Detaching a subscriber leaves the others attached.
LEMMA DetachOk ==
    ASSUME TypeOK, AttachedInv, NEW q \in Subscribers, Detach(q)
    PROVE  \A t \in Runs : queues'[t] \subseteq queues[t]
BY DEF TypeOK, Detach

\* What the readers and the tracker's callers see of a stream is in order after
\* every step.
LEMMA StreamStep == TypeOK /\ TypeOK' /\ StreamInv /\ [Next]_vars => StreamInv'
<1> SUFFICES ASSUME TypeOK, TypeOK', StreamInv, [Next]_vars
             PROVE  AttachedInv' /\ \A q \in Subscribers : StreamOk(q)'
  BY DEF StreamInv, SentinelInv, EndedInv, StreamOk
<1>1. ASSUME NEW k \in Keys, NEW q \in Subscribers, NEW r \in Runs, StartRun(k, q, r)
      PROVE  AttachedInv' /\ \A p \in Subscribers : StreamOk(p)'
  <2>1. <<>> \in Seq(Items) /\ \A i \in DOMAIN <<>> : <<>>[i] # Sentinel
    OBVIOUS
  <2>2. /\ \A t \in Runs : task[t] = "done" => task'[t] = "done"
        /\ \A t \in Runs : task'[t] = "absent" => task[t] = "absent" /\ t # r
    BY <1>1 DEF StartRun, TypeOK
  <2>3. reader[q] = "new" /\ Join(q, r, <<>>, "reading")
    BY <1>1 DEF StartRun
  <2> QED BY <2>1, <2>2, <2>3, JoinOk
<1>2. ASSUME NEW k \in Keys, NEW q \in Subscribers, StartRefused(k, q) \/ Attach(k, q)
      PROVE  AttachedInv' /\ \A p \in Subscribers : StreamOk(p)'
  <2>1. /\ UNCHANGED task /\ reader[q] = "new" /\ Active(k)
        /\ \/ Join(q, runs[k], Append(buffer[runs[k]], ReplayEnd), "reading")
           \/ \E pc \in {"left", "ignored"} : Join(q, runs[k], buffer[runs[k]], pc)
    BY <1>2 DEF StartRefused, Attach
  <2>2. /\ runs[k] \in Runs /\ buffer[runs[k]] \in Seq(Nat)
        /\ buffer[runs[k]] \in Seq(Items)
        /\ Append(buffer[runs[k]], ReplayEnd) \in Seq(Items)
    BY <2>1, ReplayType DEF TypeOK
  <2>3. /\ \A i \in DOMAIN buffer[runs[k]] : buffer[runs[k]][i] # Sentinel
        /\ LET items == Append(buffer[runs[k]], ReplayEnd)
           IN  \A i \in DOMAIN items : items[i] # Sentinel
    <3>1. \A e \in Nat \cup {ReplayEnd} : e # Sentinel
      BY ConstantsAssumption
    <3> DEFINE items == Append(buffer[runs[k]], ReplayEnd)
    <3>2. \A i \in DOMAIN buffer[runs[k]] : buffer[runs[k]][i] \in Nat
      BY <2>2
    <3>3. \A i \in DOMAIN items :
            (i \in DOMAIN buffer[runs[k]] /\ items[i] = buffer[runs[k]][i])
              \/ items[i] = ReplayEnd
      BY <2>2
    <3>4. \A i \in DOMAIN items : items[i] # Sentinel
      <4> HIDE DEF items
      <4> QED BY <3>1, <3>2, <3>3
    <3> QED BY <3>1, <3>2, <3>4
  <2>4. \A t \in Runs : task'[t] = "absent" => task[t] = "absent" /\ t # runs[k]
    BY <2>1 DEF Active, Live, InStream
  <2> QED BY <2>1, <2>2, <2>3, <2>4, JoinOk
<1>3. ASSUME NEW k \in Keys, RequestStop(k)
      PROVE  AttachedInv' /\ \A p \in Subscribers : StreamOk(p)'
  <2>1. UNCHANGED <<task, queues, subRun, inbox, reader>>
    BY <1>3 DEF RequestStop
  <2> QED BY <2>1, StreamStays DEF StreamInv, AttachedInv
<1>4. ASSUME NEW r \in Runs, Producer(r)
      PROVE  AttachedInv' /\ \A p \in Subscribers : StreamOk(p)'
  <2>1. /\ UNCHANGED <<queues, subRun, reader>>
        /\ \A t \in Runs : t # r => task'[t] = task[t]
        /\ task[r] \notin {"done", "absent"} /\ task'[r] # "absent"
    BY <1>4 DEF Producer, ProducerStarts, ProducerNeverRuns, Emit, StreamEnds, StreamRaises,
       StreamCancelled, RunFinishes, FinishCancelled, InStream, TypeOK, TaskPC
  <2>5. ASSUME NEW item, Broadcast(r, item)
        PROVE  AttachedInv'
    <3>1. \A q \in Subscribers : reader[q] = "new" => q \notin queues[r]
      BY ConstantsAssumption DEF StreamInv, AttachedInv
    <3>2. \A q \in Subscribers : q \notin queues[r] => inbox'[q] = inbox[q]
      BY <2>5 DEF Broadcast
    <3>3. \A q \in Subscribers :
            IF reader'[q] = "new" THEN inbox'[q] = <<>> /\ subRun'[q] = None
                                  ELSE subRun'[q] \in Runs
      BY <2>1, <3>1, <3>2 DEF StreamInv, AttachedInv
    <3>4. \A t \in Runs : task'[t] = "absent" => queues'[t] = {}
      BY <2>1 DEF StreamInv, AttachedInv
    <3>5. \A t \in Runs : \A q \in queues'[t] : subRun'[q] = t
      BY <2>1 DEF StreamInv, AttachedInv
    <3> QED BY <3>3, <3>4, <3>5 DEF AttachedInv
  <2>2. CASE Emit(r) \/ StreamRaises(r)
    <3>1. Len(buffer[r]) + 1 \in Items /\ Len(buffer[r]) + 1 # Sentinel
      BY ConstantsAssumption DEF TypeOK, Items
    <3>2. Broadcast(r, Len(buffer[r]) + 1)
      BY <2>2 DEF Emit, StreamRaises, Publish
    <3>3. \A p \in Subscribers : StreamOk(p)'
      BY <2>1, <3>1, <3>2, BroadcastOk
    <3>4. AttachedInv'
      BY <2>5, <3>2
    <3> QED BY <3>3, <3>4
  <2>3. CASE RunFinishes(r)
    <3>1. Sentinel \in Items /\ Broadcast(r, Sentinel) /\ task'[r] = "done"
      BY <2>3 DEF RunFinishes, Items, TypeOK
    <3>2. \A p \in Subscribers : StreamOk(p)'
      BY <2>1, <3>1, BroadcastOk
    <3>3. AttachedInv'
      BY <2>5, <3>1
    <3> QED BY <3>2, <3>3
  <2>4. CASE ~Emit(r) /\ ~StreamRaises(r) /\ ~RunFinishes(r)
    <3>1. UNCHANGED inbox
      BY <1>4, <2>4 DEF Producer, ProducerStarts, ProducerNeverRuns, StreamEnds,
         StreamCancelled, FinishCancelled
    <3>2. \A p \in Subscribers : StreamOk(p)'
      BY <2>1, <3>1, StreamStays
    <3>3. AttachedInv'
      BY <2>1, <3>1 DEF AttachedInv, StreamInv
    <3> QED BY <3>2, <3>3
  <2> QED BY <2>2, <2>3, <2>4
<1>5. ASSUME NEW q \in Subscribers, ReadItem(q) \/ ReadSentinel(q) \/ Leave(q)
      PROVE  AttachedInv' /\ \A p \in Subscribers : StreamOk(p)'
  <2>1. /\ UNCHANGED <<task, subRun>> /\ reader[q] = "reading" /\ reader'[q] # "new"
        /\ \A p \in Subscribers : p # q => inbox'[p] = inbox[p] /\ reader'[p] = reader[p]
        /\ UNCHANGED queues \/ Detach(q)
    BY <1>5 DEF ReadItem, ReadSentinel, Leave, TypeOK
  <2>2. AttachedInv'
    BY <2>1, DetachOk DEF StreamInv, AttachedInv, TypeOK
  <2>3. ASSUME NEW p \in Subscribers, p # q
        PROVE  StreamOk(p)'
    BY <2>1, <2>3, StreamStays
  <2>4. StreamOk(q)'
    <3>1. \A i \in DOMAIN inbox[q] :
            inbox[q][i] = Sentinel => i = Len(inbox[q]) /\ task[subRun[q]] = "done"
      BY DEF StreamInv, SentinelInv
    <3>2. inbox[q] \in Seq(Items)
      BY DEF TypeOK
    <3>3. CASE ReadItem(q)
      <4>1. inbox[q] # <<>> /\ inbox'[q] = Tail(inbox[q]) /\ reader'[q] # "ended"
        BY <2>1, <3>3 DEF ReadItem, TypeOK
      <4>2. \A i \in DOMAIN inbox'[q] : /\ inbox'[q][i] = inbox[q][i + 1]
                                        /\ i + 1 \in DOMAIN inbox[q]
                                        /\ i + 1 = Len(inbox[q]) => i = Len(inbox'[q])
        BY <3>2, <4>1
      <4> QED BY <2>1, <3>1, <4>1, <4>2 DEF StreamOk
    <3>4. CASE ReadSentinel(q)
      <4>1. inbox[q] # <<>> /\ inbox[q][1] = Sentinel /\ inbox'[q] = Tail(inbox[q])
        BY <3>2, <3>4 DEF ReadSentinel, TypeOK
      <4>2. 1 \in DOMAIN inbox[q]
        BY <3>2, <4>1
      <4>3. Len(inbox[q]) = 1 /\ task[subRun[q]] = "done"
        BY <3>1, <4>1, <4>2
      <4>4. Len(inbox'[q]) = 0 /\ inbox'[q] \in Seq(Items)
        BY <3>2, <4>1, <4>3
      <4>5. inbox'[q] = <<>>
        BY <4>4
      <4> QED BY <2>1, <4>3, <4>5 DEF StreamOk
    <3>5. CASE Leave(q)
      BY <2>1, <3>5, StreamStays DEF Leave, TypeOK
    <3> QED BY <1>5, <3>3, <3>4, <3>5
  <2> QED BY <2>2, <2>3, <2>4
<1>6. CASE UNCHANGED vars
  <2>1. UNCHANGED <<task, queues, subRun, inbox, reader>>
    BY <1>6 DEF vars
  <2> QED BY <2>1, StreamStays DEF StreamInv, AttachedInv
<1> QED BY <1>1, <1>2, <1>3, <1>4, <1>5, <1>6 DEF Next, Reader

\* A reader that still reads is attached to its run, and has a sentinel waiting
\* for it once that is done.
SentTo(q) == \E i \in DOMAIN inbox[q] : inbox[q][i] = Sentinel

ReadingInv ==
    \A q \in Subscribers : reader[q] = "reading" =>
        /\ q \in queues[subRun[q]]
        /\ task[subRun[q]] = "done" => SentTo(q)

\* What a run puts into a queue goes behind what is there.
LEMMA SentToGrows ==
    ASSUME TypeOK, NEW q \in Subscribers, NEW e, inbox'[q] = Append(inbox[q], e)
    PROVE  SentTo(q)' <=> SentTo(q) \/ e = Sentinel
<1>1. inbox[q] \in Seq(Items)
  BY DEF TypeOK
<1> DEFINE z == Len(inbox[q])
<1>2. /\ DOMAIN inbox[q] = 1..z /\ DOMAIN inbox'[q] = 1..(z + 1) /\ z \in Nat
      /\ inbox'[q][z + 1] = e /\ \A i \in 1..z : inbox'[q][i] = inbox[q][i]
  BY <1>1
<1> HIDE DEF z
<1>3. \A i \in 1..(z + 1) : i = z + 1 \/ i \in 1..z
  BY <1>2
<1>4. z + 1 \in 1..(z + 1) /\ \A i \in 1..z : i \in 1..(z + 1)
  BY <1>2
<1> QED BY <1>2, <1>3, <1>4 DEF SentTo

\* A reader that a step passes by keeps its place.
LEMMA ReadingStays ==
    ASSUME TypeOK, ReadingInv, NEW q \in Subscribers,
           reader'[q] = "reading" => reader[q] = "reading",
           subRun'[q] = subRun[q],
           q \in queues[subRun[q]] => q \in queues'[subRun[q]],
           task'[subRun[q]] = "done" => task[subRun[q]] = "done",
           SentTo(q) => SentTo(q)'
    PROVE  reader'[q] = "reading" =>
             /\ q \in queues'[subRun'[q]]
             /\ task'[subRun'[q]] = "done" => SentTo(q)'
BY DEF ReadingInv

LEMMA ReadingStep == TypeOK /\ StreamInv /\ ReadingInv /\ [Next]_vars => ReadingInv'
<1> SUFFICES ASSUME TypeOK, StreamInv, ReadingInv, [Next]_vars, NEW q \in Subscribers
             PROVE  reader'[q] = "reading" =>
                      /\ q \in queues'[subRun'[q]]
                      /\ task'[subRun'[q]] = "done" => SentTo(q)'
  BY DEF ReadingInv
<1>1. ASSUME NEW p \in Subscribers, NEW r \in Runs, NEW items,
             NEW pc \in {"reading", "left", "ignored"}, Join(p, r, items, pc),
             reader[p] = "new", task'[r] # "done",
             \A t \in Runs \cup {None} : t # r => task'[t] = task[t]
      PROVE  reader'[q] = "reading" =>
               /\ q \in queues'[subRun'[q]]
               /\ task'[subRun'[q]] = "done" => SentTo(q)'
  <2>1. CASE q = p
    BY <1>1, <2>1 DEF Join, TypeOK
  <2>2. CASE q # p
    <3>1. /\ reader'[q] = reader[q] /\ subRun'[q] = subRun[q] /\ inbox'[q] = inbox[q]
          /\ subRun[q] \in Runs \cup {None}
          /\ \A t \in Runs : queues[t] \subseteq queues'[t]
      BY <1>1, <2>2 DEF Join, TypeOK
    <3>2. reader[q] = "reading" => subRun[q] \in Runs
      BY DEF StreamInv, AttachedInv
    <3> QED BY <1>1, <3>1, <3>2, ReadingStays DEF SentTo
  <2> QED BY <2>1, <2>2
<1>2. ASSUME NEW k \in Keys, NEW p \in Subscribers, NEW r \in Runs, StartRun(k, p, r)
      PROVE  reader'[q] = "reading" =>
               /\ q \in queues'[subRun'[q]]
               /\ task'[subRun'[q]] = "done" => SentTo(q)'
  <2>1. task'[r] # "done" /\ \A t \in Runs \cup {None} : t # r => task'[t] = task[t]
    BY <1>2, ConstantsAssumption DEF StartRun, TypeOK
  <2> QED BY <1>1, <1>2, <2>1 DEF StartRun
<1>3. ASSUME NEW k \in Keys, NEW p \in Subscribers, StartRefused(k, p) \/ Attach(k, p)
      PROVE  reader'[q] = "reading" =>
               /\ q \in queues'[subRun'[q]]
               /\ task'[subRun'[q]] = "done" => SentTo(q)'
  <2>1. runs[k] \in Runs /\ task'[runs[k]] # "done" /\ task' = task
    BY <1>3 DEF StartRefused, Attach, Active, Live, InStream, TypeOK
  <2> QED BY <1>1, <1>3, <2>1 DEF StartRefused, Attach
<1>4. ASSUME NEW r \in Runs, Producer(r)
      PROVE  reader'[q] = "reading" =>
               /\ q \in queues'[subRun'[q]]
               /\ task'[subRun'[q]] = "done" => SentTo(q)'
  <2>1. UNCHANGED <<queues, subRun, reader>>
    BY <1>4 DEF Producer, ProducerStarts, ProducerNeverRuns, Emit, StreamEnds, StreamRaises,
       StreamCancelled, RunFinishes, FinishCancelled
  <2>2. reader[q] = "reading" => subRun[q] \in Runs
    BY DEF StreamInv, AttachedInv
  <2>3. CASE RunFinishes(r)
    <3>1. Broadcast(r, Sentinel) /\ \A t \in Runs : t # r => task'[t] = task[t]
      BY <2>3 DEF RunFinishes, TypeOK
    <3>2. CASE q \in queues[r]
      <4>1. SentTo(q)'
        BY <3>1, <3>2, SentToGrows DEF Broadcast
      <4> QED BY <2>1, <4>1 DEF ReadingInv
    <3>3. CASE q \notin queues[r]
      <4>1. inbox'[q] = inbox[q]
        BY <3>1, <3>3 DEF Broadcast
      <4>2. reader[q] = "reading" => subRun[q] # r
        BY <3>3 DEF ReadingInv
      <4> QED BY <2>1, <2>2, <3>1, <4>1, <4>2 DEF ReadingInv, SentTo
    <3> QED BY <3>2, <3>3
  <2>4. CASE ~RunFinishes(r)
    <3>1. \A t \in Runs : task'[t] = "done" => task[t] = "done"
      BY <1>4, <2>4 DEF Producer, ProducerStarts, ProducerNeverRuns, Emit, StreamEnds,
         StreamRaises, StreamCancelled, FinishCancelled, TypeOK
    <3>2. inbox'[q] = inbox[q] \/ \E e \in Nat : inbox'[q] = Append(inbox[q], e)
      <4>1. UNCHANGED inbox \/ Broadcast(r, Len(buffer[r]) + 1)
        BY <1>4, <2>4 DEF Producer, ProducerStarts, ProducerNeverRuns, Emit, StreamEnds,
           StreamRaises, StreamCancelled, FinishCancelled, Publish
      <4>2. Len(buffer[r]) + 1 \in Nat
        BY DEF TypeOK
      <4> QED BY <4>1, <4>2 DEF Broadcast
    <3>3. SentTo(q) => SentTo(q)'
      BY <3>2, SentToGrows DEF SentTo
    <3> QED BY <2>1, <2>2, <3>1, <3>3 DEF ReadingInv
  <2> QED BY <2>3, <2>4
<1>5. ASSUME NEW p \in Subscribers, ReadItem(p) \/ ReadSentinel(p) \/ Leave(p)
      PROVE  reader'[q] = "reading" =>
               /\ q \in queues'[subRun'[q]]
               /\ task'[subRun'[q]] = "done" => SentTo(q)'
  <2>1. UNCHANGED <<task, subRun>> /\ (UNCHANGED queues \/ Detach(p))
    BY <1>5 DEF ReadItem, ReadSentinel, Leave
  <2>2. reader[q] = "reading" => subRun[q] \in Runs
    BY DEF StreamInv, AttachedInv
  <2>3. CASE q # p
    <3>1. reader'[q] = reader[q] /\ inbox'[q] = inbox[q]
      BY <1>5, <2>3 DEF ReadItem, ReadSentinel, Leave, TypeOK
    <3>2. \A t \in Runs : q \in queues[t] => q \in queues'[t]
      <4>1. CASE UNCHANGED queues
        BY <4>1
      <4>2. CASE Detach(p)
        <5>1. \E r : queues' = queues \/ queues' = [queues EXCEPT ![r] = @ \ {p}]
          BY <4>2 DEF Detach
        <5> QED BY <2>3, <5>1 DEF TypeOK
      <4> QED BY <2>1, <4>1, <4>2
    <3>3. SentTo(q)' <=> SentTo(q)
      BY <3>1 DEF SentTo
    <3> QED BY <2>1, <2>2, <3>1, <3>2, <3>3 DEF ReadingInv
  <2>4. CASE q = p /\ ReadItem(p)
    <3>1. /\ inbox[q] \in Seq(Items) /\ inbox[q] # <<>> /\ inbox[q][1] # Sentinel
          /\ inbox'[q] = Tail(inbox[q]) /\ UNCHANGED queues /\ reader'[q] = reader[q]
      BY <2>4 DEF ReadItem, TypeOK
    <3>2. \A i \in DOMAIN inbox[q] :
            i # 1 => i - 1 \in DOMAIN inbox'[q] /\ inbox'[q][i - 1] = inbox[q][i]
      BY <3>1
    <3>3. SentTo(q) => SentTo(q)'
      BY <3>1, <3>2 DEF SentTo
    <3> QED BY <2>1, <2>2, <3>1, <3>3 DEF ReadingInv
  <2>5. CASE q = p /\ (ReadSentinel(p) \/ Leave(p))
    BY <2>5 DEF ReadSentinel, Leave, TypeOK
  <2> QED BY <1>5, <2>3, <2>4, <2>5
<1>6. CASE UNCHANGED vars \/ \E k \in Keys : RequestStop(k)
  BY <1>6 DEF vars, RequestStop, ReadingInv, SentTo
<1> QED BY <1>2, <1>3, <1>4, <1>5, <1>6 DEF Next, Reader

\* What SentinelEndsStream rests on, throughout.
LEMMA StreamOrder == Spec => []StreamInv
<1>1. Init => StreamInv
  BY DEF Init, StreamInv, AttachedInv, SentinelInv, EndedInv
<1> QED BY <1>1, StreamStep, TypeCorrect, PTL DEF Spec

LEMMA ReadingHolds == Spec => []ReadingInv
<1>1. Init => ReadingInv
  BY DEF Init, ReadingInv
<1> QED BY <1>1, ReadingStep, StreamOrder, TypeCorrect, PTL DEF Spec

\* No reader is told that a stream is over while its run goes on, nothing
\* follows the sentinel, and every reader of a finished run has got one or will
\* find one: only the finally clause of the producer sends it, to all, when the
\* task is at its end.
THEOREM StreamsEndInOrder == Spec => []SentinelEndsStream
<1>1. TypeOK /\ StreamInv /\ ReadingInv => SentinelEndsStream
  <2> SUFFICES ASSUME TypeOK, StreamInv, ReadingInv, NEW q \in Subscribers
               PROVE  /\ Sentinel \in ToSet(inbox[q]) =>
                           /\ task[subRun[q]] = "done"
                           /\ inbox[q][Len(inbox[q])] = Sentinel
                      /\ reader[q] = "reading" /\ task[subRun[q]] = "done" =>
                           Sentinel \in ToSet(inbox[q])
    BY DEF StreamInv, EndedInv, SentinelEndsStream
  <2>1. Sentinel \in ToSet(inbox[q]) <=> SentTo(q)
    BY DEF ToSet, SentTo
  <2> QED BY <2>1 DEF SentTo, StreamInv, SentinelInv, ReadingInv
<1> QED BY <1>1, StreamOrder, ReadingHolds, TypeCorrect, PTL

\* A reader waits for a run that is registered and will publish to it, or it has
\* the sentinel to come, or a cancellation cut the run's end short.
NoReaderForgotten ==
    \A q \in Subscribers : reader[q] = "reading" =>
        LET r == subRun[q] IN
        \/ Live(r) /\ runs[runKey[r]] = r /\ q \in queues[r]
        \/ Sentinel \in ToSet(inbox[q])
        \/ task[r] = "aborted"

\* No detach, reconnect, stop or end of another run takes a reader off its run:
\* the safety that ReadersReleased rests on.
THEOREM ReadersAreKept == Spec => []NoReaderForgotten
<1>1. TypeOK /\ OneRunPerChat /\ StreamInv /\ ReadingInv => NoReaderForgotten
  <2> SUFFICES ASSUME TypeOK, OneRunPerChat, StreamInv, ReadingInv,
                      NEW q \in Subscribers, reader[q] = "reading"
               PROVE  LET r == subRun[q] IN
                      \/ Live(r) /\ runs[runKey[r]] = r /\ q \in queues[r]
                      \/ Sentinel \in ToSet(inbox[q])
                      \/ task[r] = "aborted"
    BY DEF NoReaderForgotten
  <2>1. subRun[q] \in Runs /\ q \in queues[subRun[q]]
    BY DEF StreamInv, AttachedInv, ReadingInv
  <2>2. task[subRun[q]] # "absent"
    BY <2>1 DEF StreamInv, AttachedInv
  <2>3. task[subRun[q]] = "done" => Sentinel \in ToSet(inbox[q])
    BY DEF ReadingInv, SentTo, ToSet
  <2> QED BY <2>1, <2>2, <2>3 DEF OneRunPerChat, Live, InStream, TypeOK, TaskPC
<1> QED BY <1>1, TypeCorrect, OneRun, StreamOrder, ReadingHolds, PTL

-----------------------------------------------------------------------------
(* What is delivered.                                                      *)

\* Events are counted like any finite set.
LEMMA CountType ==
    ASSUME NEW items, NEW i \in Nat, NEW j \in Nat, j <= i
    PROVE  /\ IsFiniteSet(EventsUpTo(items, i))
           /\ Cardinality(EventsUpTo(items, i)) \in Nat
           /\ Cardinality(EventsUpTo(items, j)) <= Cardinality(EventsUpTo(items, i))
<1>1. IsFiniteSet(1..i)
  BY FS_Interval
<1>2. EventsUpTo(items, i) \subseteq 1..i
  BY DEF EventsUpTo
<1>3. IsFiniteSet(EventsUpTo(items, i))
  BY <1>1, <1>2, FS_Subset
<1>4. EventsUpTo(items, j) \subseteq EventsUpTo(items, i)
  BY DEF EventsUpTo
<1> QED BY <1>3, <1>4, FS_Subset, FS_CardinalityType

\* One item more is one event more, or it is a mark.
LEMMA CountAppend ==
    ASSUME NEW items \in Seq(Items), NEW e
    PROVE  /\ \A i \in 0..Len(items) :
                EventsUpTo(Append(items, e), i) = EventsUpTo(items, i)
           /\ EventCount(Append(items, e))
                = IF e \in {Sentinel, ReplayEnd} THEN EventCount(items)
                                                 ELSE EventCount(items) + 1
<1> DEFINE longer == Append(items, e)
           n == Len(items)
<1>1. /\ n \in Nat /\ Len(longer) = n + 1 /\ longer[n + 1] = e
      /\ \A i \in 1..n : longer[i] = items[i]
  OBVIOUS
<1> HIDE DEF longer, n
<1>2. \A i \in 0..n : EventsUpTo(longer, i) = EventsUpTo(items, i)
  BY <1>1 DEF EventsUpTo
<1>3. EventsUpTo(longer, n + 1) = EventsUpTo(longer, n)
          \cup (IF e \in {Sentinel, ReplayEnd} THEN {} ELSE {n + 1})
  BY <1>1 DEF EventsUpTo
<1>4. n + 1 \notin EventsUpTo(items, n) /\ n \in 0..n
  BY <1>1 DEF EventsUpTo
<1>5. IsFiniteSet(EventsUpTo(items, n))
  BY <1>1, CountType
<1>6. EventCount(longer) = Cardinality(EventsUpTo(longer, n + 1))
  BY <1>1 DEF EventCount
<1>7. EventsUpTo(longer, n) = EventsUpTo(items, n)
  BY <1>2, <1>4
<1>8. Cardinality(EventsUpTo(items, n) \cup {n + 1}) = Cardinality(EventsUpTo(items, n)) + 1
  BY <1>4, <1>5, FS_AddElement
<1>9. CASE e \in {Sentinel, ReplayEnd}
  <2>1. EventCount(longer) = Cardinality(EventsUpTo(items, n))
    BY <1>3, <1>6, <1>7, <1>9
  <2> QED BY <1>2, <1>9, <2>1 DEF EventCount, longer, n
<1>10. CASE e \notin {Sentinel, ReplayEnd}
  <2>1. EventCount(longer) = Cardinality(EventsUpTo(items, n)) + 1
    BY <1>3, <1>6, <1>7, <1>8, <1>10
  <2> QED BY <1>2, <1>10, <2>1 DEF EventCount, longer, n
<1> QED BY <1>9, <1>10

\* The n-th event among items is the n-th of log.
Carries(items, log) ==
    /\ \A i \in DOMAIN items :
         i \in EventsUpTo(items, i)
           => items[i] = log[Cardinality(EventsUpTo(items, i))]
    /\ EventCount(items) <= Len(log)

\* A run that publishes leaves the events delivered before in place;
LEMMA CarriesLonger ==
    ASSUME NEW items \in Seq(Items), NEW log \in Seq(Nat), NEW n \in Nat,
           Carries(items, log)
    PROVE  Carries(items, Append(log, n))
<1>1. /\ DOMAIN items = 1..Len(items) /\ Len(items) \in Nat /\ Len(log) \in Nat
      /\ Len(Append(log, n)) = Len(log) + 1
      /\ \A c \in 1..Len(log) : Append(log, n)[c] = log[c]
  OBVIOUS
<1>2. EventCount(items) \in Nat
  BY <1>1, CountType DEF EventCount
<1>3. ASSUME NEW i \in DOMAIN items, i \in EventsUpTo(items, i)
      PROVE  Cardinality(EventsUpTo(items, i)) \in 1..Len(log)
  <2>1. /\ Cardinality(EventsUpTo(items, i)) \in Nat
        /\ Cardinality(EventsUpTo(items, i)) <= EventCount(items)
        /\ IsFiniteSet(EventsUpTo(items, i))
    BY <1>1, CountType DEF EventCount
  <2>2. Cardinality(EventsUpTo(items, i)) # 0
    BY <1>3, <2>1, FS_EmptySet
  <2> QED BY <1>1, <1>2, <2>1, <2>2 DEF Carries
<1> QED BY <1>1, <1>2, <1>3 DEF Carries

\* a subscriber that has them all and gets the new event has them all again;
LEMMA CarriesNext ==
    ASSUME NEW items \in Seq(Items), NEW log \in Seq(Nat), NEW n \in Nat,
           Carries(items, log), EventCount(items) = Len(log)
    PROVE  /\ Carries(Append(items, n), Append(log, n))
           /\ EventCount(Append(items, n)) = Len(Append(log, n))
<1> DEFINE more == Append(items, n)
           log2 == Append(log, n)
           z == Len(items)
<1>1. /\ DOMAIN items = 1..z /\ z \in Nat /\ Len(log) \in Nat
      /\ DOMAIN more = 1..(z + 1) /\ Len(more) = z + 1 /\ more[z + 1] = n
      /\ Len(log2) = Len(log) + 1 /\ log2[Len(log) + 1] = n
      /\ \A i \in 1..z : more[i] = items[i]
  OBVIOUS
<1>2. EventCount(more) = Len(log2)
  BY <1>1, CountAppend, ConstantsAssumption
<1>3. /\ Carries(items, log2)
      /\ \A i \in 0..z : EventsUpTo(more, i) = EventsUpTo(items, i)
  BY CarriesLonger, CountAppend
<1> HIDE DEF more, log2, z
<1>4. ASSUME NEW i \in 1..(z + 1), i \in EventsUpTo(more, i)
      PROVE  more[i] = log2[Cardinality(EventsUpTo(more, i))]
  <2>1. CASE i = z + 1
    BY <1>1, <1>2, <2>1 DEF EventCount
  <2>2. CASE i \in 1..z
    <3>1. EventsUpTo(more, i) = EventsUpTo(items, i)
      BY <1>3, <2>2
    <3> QED BY <1>1, <1>3, <1>4, <2>2, <3>1 DEF Carries
  <2> QED BY <1>1, <2>1, <2>2
<1>5. EventCount(more) <= Len(log2)
  BY <1>1, <1>2
<1>6. Carries(more, log2)
  BY <1>1, <1>4, <1>5 DEF Carries
<1> QED BY <1>2, <1>6 DEF more, log2

\* marks between the events count for nothing;
LEMMA CarriesMark ==
    ASSUME NEW items \in Seq(Items), NEW log, NEW e \in {Sentinel, ReplayEnd},
           Carries(items, log)
    PROVE  /\ Carries(Append(items, e), log)
           /\ EventCount(Append(items, e)) = EventCount(items)
<1> DEFINE more == Append(items, e)
           z == Len(items)
<1>1. /\ DOMAIN items = 1..z /\ z \in Nat
      /\ DOMAIN more = 1..(z + 1) /\ more[z + 1] = e
      /\ \A i \in 1..z : more[i] = items[i]
  OBVIOUS
<1>2. /\ EventCount(more) = EventCount(items)
      /\ \A i \in 0..z : EventsUpTo(more, i) = EventsUpTo(items, i)
  BY CountAppend
<1> HIDE DEF more, z
<1>3. ASSUME NEW i \in 1..(z + 1), i \in EventsUpTo(more, i)
      PROVE  more[i] = log[Cardinality(EventsUpTo(more, i))]
  <2>1. i # z + 1
    BY <1>1, <1>3 DEF EventsUpTo
  <2>2. i \in 1..z
    BY <1>1, <2>1
  <2>3. EventsUpTo(more, i) = EventsUpTo(items, i)
    BY <1>2, <2>2
  <2> QED BY <1>1, <1>3, <2>2, <2>3 DEF Carries
<1>4. Carries(more, log)
  BY <1>1, <1>2, <1>3 DEF Carries
<1> QED BY <1>2, <1>4 DEF more

\* and a replayed buffer is all there is.
LEMMA CarriesReplay ==
    ASSUME NEW log \in Seq(Nat)
    PROVE  Carries(log, log) /\ EventCount(log) = Len(log)
<1>1. DOMAIN log = 1..Len(log) /\ Len(log) \in Nat /\ \A i \in 1..Len(log) : log[i] \in Nat
  OBVIOUS
<1>2. ASSUME NEW i \in 0..Len(log)
      PROVE  EventsUpTo(log, i) = 1..i /\ Cardinality(EventsUpTo(log, i)) = i
  <2>1. EventsUpTo(log, i) = 1..i
    BY <1>1, ConstantsAssumption DEF EventsUpTo
  <2>2. Cardinality(1..i) = i
    BY <1>1, FS_Interval
  <2> QED BY <2>1, <2>2
<1> QED BY <1>1, <1>2 DEF Carries, EventCount

LEMMA CarriesUnmark ==
    ASSUME NEW items \in Seq(Items), NEW log, NEW e \in {Sentinel, ReplayEnd},
           Carries(Append(items, e), log)
    PROVE  /\ Carries(items, log)
           /\ EventCount(items) = EventCount(Append(items, e))
<1> DEFINE more == Append(items, e)
           z == Len(items)
<1>1. /\ DOMAIN items = 1..z /\ z \in Nat
      /\ DOMAIN more = 1..(z + 1)
      /\ \A i \in 1..z : more[i] = items[i]
  OBVIOUS
<1>2. /\ EventCount(more) = EventCount(items)
      /\ \A i \in 0..z : EventsUpTo(more, i) = EventsUpTo(items, i)
  BY CountAppend
<1> HIDE DEF more, z
<1>3. ASSUME NEW i \in 1..z, i \in EventsUpTo(items, i)
      PROVE  items[i] = log[Cardinality(EventsUpTo(items, i))]
  <2>1. EventsUpTo(more, i) = EventsUpTo(items, i) /\ i \in 1..(z + 1)
    BY <1>1, <1>2
  <2> QED BY <1>1, <1>3, <2>1 DEF Carries, more
<1>4. Carries(items, log)
  BY <1>1, <1>2, <1>3 DEF Carries, more
<1> QED BY <1>2, <1>4 DEF more

\* What a subscriber has received or has waiting.
Delivered(q) == seen[q] \o inbox[q]

LEMMA DeliveredType ==
    ASSUME TypeOK, NEW q \in Subscribers
    PROVE  /\ Delivered(q) \in Seq(Items)
           /\ seen[q] \in Seq(Items) /\ inbox[q] \in Seq(Items)
           /\ inbox[q] = <<>> => Delivered(q) = seen[q]
           /\ seen[q] = <<>> => Delivered(q) = inbox[q]
<1>1. seen[q] \in Seq(Items) /\ inbox[q] \in Seq(Items)
  BY DEF TypeOK
<1> QED BY <1>1, ConcatProperties, ConcatEmptySeq DEF Delivered

\* Items may be joined in any grouping.
LEMMA JoinItems ==
    ASSUME NEW s \in Seq(Items), NEW t \in Seq(Items), NEW u \in Seq(Items)
    PROVE  s \o (t \o u) = (s \o t) \o u
<1> HIDE DEF Items
<1> QED BY ConcatAssociative

\* A put adds to it, and the step of a reader moves it on.
LEMMA DeliveredGrows ==
    ASSUME TypeOK, NEW q \in Subscribers, NEW e \in Items,
           inbox'[q] = Append(inbox[q], e), seen'[q] = seen[q]
    PROVE  Delivered(q)' = Append(Delivered(q), e)
<1>1. seen[q] \in Seq(Items) /\ inbox[q] \in Seq(Items) /\ <<e>> \in Seq(Items)
  BY DEF TypeOK
<1>2. seen[q] \o Append(inbox[q], e) = seen[q] \o (inbox[q] \o <<e>>)
  BY <1>1, AppendIsConcat
<1>3. seen[q] \o (inbox[q] \o <<e>>) = (seen[q] \o inbox[q]) \o <<e>>
  BY <1>1, JoinItems, Zenon
<1>4. (seen[q] \o inbox[q]) \o <<e>> = Append(seen[q] \o inbox[q], e)
  BY <1>1, AppendIsConcat, ConcatProperties
<1>5. Delivered(q)' = seen[q] \o Append(inbox[q], e)
  BY Zenon DEF Delivered
<1>6. Delivered(q)' = (seen[q] \o inbox[q]) \o <<e>>
  BY <1>2, <1>3, <1>5, Zenon
<1>7. Delivered(q)' = Append(seen[q] \o inbox[q], e)
  BY <1>4, <1>6, Zenon
<1>8. seen[q] \o inbox[q] = Delivered(q)
  BY Zenon DEF Delivered
<1> QED BY <1>7, <1>8, Zenon

LEMMA DeliveredMoves ==
    ASSUME TypeOK, NEW q \in Subscribers, ReadItem(q)
    PROVE  Delivered(q)' = Delivered(q)
<1> DEFINE h == Head(inbox[q])
           t == Tail(inbox[q])
<1>1. seen[q] \in Seq(Items) /\ inbox[q] \in Seq(Items) /\ inbox[q] # <<>>
  BY DEF TypeOK, ReadItem
<1>2. h \in Items /\ <<h>> \in Seq(Items) /\ t \in Seq(Items)
  BY <1>1, HeadTailProperties
<1>3. seen'[q] = Append(seen[q], h) /\ inbox'[q] = t
  BY DEF ReadItem, TypeOK
<1>4. inbox[q] = <<h>> \o t
  <2>1. /\ Len(inbox[q]) \in Nat /\ Len(inbox[q]) # 0 /\ Len(t) = Len(inbox[q]) - 1
        /\ \A i \in 1..Len(t) : t[i] = inbox[q][i + 1]
        /\ h = inbox[q][1]
    BY <1>1, HeadTailProperties
  <2> DEFINE u == <<h>> \o t
  <2>2. /\ u \in Seq(Items) /\ Len(u) = 1 + Len(t)
        /\ \A i \in 1..(1 + Len(t)) : u[i] = IF i <= 1 THEN h ELSE t[i - 1]
    <3>1. Len(<<h>>) = 1 /\ \A i \in 1..1 : <<h>>[i] = h
      OBVIOUS
    <3>2. /\ u \in Seq(Items) /\ Len(u) = Len(<<h>>) + Len(t)
          /\ \A i \in 1..(Len(<<h>>) + Len(t)) :
               u[i] = IF i <= Len(<<h>>) THEN <<h>>[i] ELSE t[i - Len(<<h>>)]
      BY <1>2, ConcatProperties
    <3> HIDE DEF h, t, u
    <3> QED BY <1>2, <3>1, <3>2
  <2> HIDE DEF h, t, u
  <2>3. Len(u) = Len(inbox[q])
    BY <2>1, <2>2
  <2>4. \A i \in 1..Len(inbox[q]) : inbox[q][i] = u[i]
    BY <2>1, <2>2
  <2>5. inbox[q] = u
    BY <1>1, <2>2, <2>3, <2>4, SeqEqual
  <2> QED BY <2>5 DEF u
<1> HIDE DEF h, t
<1>5. Append(seen[q], h) \o t = (seen[q] \o <<h>>) \o t
  BY <1>1, <1>2, AppendIsConcat
<1>6. (seen[q] \o <<h>>) \o t = seen[q] \o (<<h>> \o t)
  BY <1>1, <1>2, JoinItems, Zenon
<1>7. Delivered(q)' = Append(seen[q], h) \o t
  BY <1>3, Zenon DEF Delivered
<1>8. Delivered(q)' = seen[q] \o (<<h>> \o t)
  BY <1>5, <1>6, <1>7, Zenon
<1>9. Delivered(q)' = seen[q] \o inbox[q]
  BY <1>4, <1>8, Zenon
<1> QED BY <1>9, Zenon DEF Delivered

\* A subscriber has got, or will find, the events of its run in order, and all
\* of them if it is attached or its stream has ended.
DeliveredOk(q) ==
    /\ Carries(Delivered(q), buffer[subRun[q]])
    /\ q \in queues[subRun[q]] \/ SentTo(q) \/ reader[q] = "ended" =>
         EventCount(Delivered(q)) = Len(buffer[subRun[q]])

DeliveryInv ==
    /\ \A r \in Runs : task[r] = "absent" => buffer[r] = <<>>
    /\ \A q \in Subscribers : reader[q] = "new" => seen[q] = <<>>
    /\ \A q \in Subscribers : subRun[q] # None => DeliveredOk(q)

\* A step that passes a subscriber and its run by.
LEMMA DeliveredStays ==
    ASSUME TypeOK, DeliveryInv, NEW q \in Subscribers, subRun'[q] = subRun[q],
           seen'[q] = seen[q], inbox'[q] = inbox[q],
           buffer'[subRun[q]] = buffer[subRun[q]],
           q \in queues'[subRun[q]] => q \in queues[subRun[q]],
           reader'[q] = "ended" => reader[q] = "ended"
    PROVE  subRun'[q] # None => DeliveredOk(q)'
<1>1. Delivered(q)' = Delivered(q) /\ (SentTo(q)' <=> SentTo(q))
  BY DEF Delivered, SentTo
<1> QED BY <1>1 DEF DeliveryInv, DeliveredOk

\* The run of a subscriber puts an item into its queues.
LEMMA DeliverEvent ==
    ASSUME TypeOK, StreamInv, DeliveryInv, NEW r \in Runs, Publish(r),
           InStream(r), UNCHANGED <<queues, subRun, seen, reader>>,
           NEW q \in Subscribers
    PROVE  subRun'[q] # None => DeliveredOk(q)'
<1> DEFINE n == Len(buffer[r]) + 1
<1>1. /\ buffer' = [buffer EXCEPT ![r] = Append(buffer[r], n)]
      /\ Broadcast(r, n) /\ n \in Nat /\ n \in Items
      /\ buffer[r] \in Seq(Nat)
  BY DEF Publish, TypeOK, Items
<1> HIDE DEF n
<1>2. subRun[q] \in Runs \cup {None}
  BY DEF TypeOK
<1>3. CASE q \in queues[r]
  <2>1. subRun[q] = r /\ r # None
    BY <1>3, ConstantsAssumption DEF StreamInv, AttachedInv
  <2>2. Carries(Delivered(q), buffer[r]) /\ EventCount(Delivered(q)) = Len(buffer[r])
    BY <1>3, <2>1 DEF DeliveryInv, DeliveredOk
  <2>3. Delivered(q)' = Append(Delivered(q), n)
    BY <1>1, <1>3, DeliveredGrows DEF Broadcast
  <2>4. buffer'[r] = Append(buffer[r], n)
    BY <1>1 DEF TypeOK
  <2>5. Carries(Delivered(q)', buffer'[r]) /\ EventCount(Delivered(q)') = Len(buffer'[r])
    BY <1>1, <2>2, <2>3, <2>4, CarriesNext, DeliveredType
  <2>6. EventCount(Delivered(q))' = EventCount(Delivered(q)')
    BY DEF EventCount, EventsUpTo
  <2>7. Carries(Delivered(q), buffer[r])' = Carries(Delivered(q)', buffer'[r])
    BY DEF Carries, EventCount, EventsUpTo
  <2> QED BY <2>1, <2>5, <2>6, <2>7 DEF DeliveredOk
<1>4. CASE q \notin queues[r] /\ subRun[q] # r
  <2>1. inbox'[q] = inbox[q] /\ buffer'[subRun[q]] = buffer[subRun[q]]
    BY <1>1, <1>4 DEF Broadcast, TypeOK
  <2> QED BY <2>1, DeliveredStays
<1>5. CASE q \notin queues[r] /\ subRun[q] = r
  <2>1. inbox'[q] = inbox[q] /\ buffer'[r] = Append(buffer[r], n)
    BY <1>1, <1>5 DEF Broadcast, TypeOK
  <2>2. ~SentTo(q) /\ reader[q] # "ended"
    BY <1>5 DEF StreamInv, SentinelInv, EndedInv, SentTo, InStream
  <2>3. Delivered(q)' = Delivered(q) /\ ~SentTo(q)'
    BY <2>1, <2>2 DEF Delivered, SentTo
  <2>4. Carries(Delivered(q), buffer[r])
    BY <1>5, ConstantsAssumption DEF DeliveryInv, DeliveredOk
  <2>5. Carries(Delivered(q), buffer'[r])
    BY <1>1, <2>1, <2>4, CarriesLonger, DeliveredType
  <2> QED BY <1>5, <2>2, <2>3, <2>5 DEF DeliveredOk
<1> QED BY <1>3, <1>4, <1>5

LEMMA DeliverSentinel ==
    ASSUME TypeOK, StreamInv, DeliveryInv, NEW r \in Runs, Broadcast(r, Sentinel),
           UNCHANGED <<buffer, queues, subRun, seen, reader>>, NEW q \in Subscribers
    PROVE  subRun'[q] # None => DeliveredOk(q)'
<1>1. CASE q \in queues[r]
  <2>1. subRun[q] = r /\ r # None
    BY <1>1, ConstantsAssumption DEF StreamInv, AttachedInv
  <2>2. Carries(Delivered(q), buffer[r]) /\ EventCount(Delivered(q)) = Len(buffer[r])
    BY <1>1, <2>1 DEF DeliveryInv, DeliveredOk
  <2>3. Delivered(q)' = Append(Delivered(q), Sentinel)
    BY <1>1, DeliveredGrows DEF Broadcast, Items
  <2>4. /\ Carries(Append(Delivered(q), Sentinel), buffer[r])
        /\ EventCount(Append(Delivered(q), Sentinel)) = Len(buffer[r])
    BY <2>2, CarriesMark, DeliveredType
  <2> QED BY <2>1, <2>3, <2>4 DEF DeliveredOk
<1>2. CASE q \notin queues[r]
  <2>1. inbox'[q] = inbox[q]
    BY <1>2 DEF Broadcast
  <2> QED BY <2>1, DeliveredStays
<1> QED BY <1>1, <1>2

\* A subscriber joins with the run's buffer, or a part of the stream that says
\* as much.
LEMMA DeliverJoin ==
    ASSUME TypeOK, StreamInv, DeliveryInv, NEW p \in Subscribers, NEW r \in Runs,
           NEW items \in Seq(Items), NEW pc, Join(p, r, items, pc),
           reader[p] = "new", UNCHANGED <<buffer, seen>>, pc # "ended",
           Carries(items, buffer[r]), EventCount(items) = Len(buffer[r]),
           NEW q \in Subscribers
    PROVE  subRun'[q] # None => DeliveredOk(q)'
<1>1. CASE q = p
  <2>1. /\ subRun'[q] = r /\ inbox'[q] = items /\ seen'[q] = <<>>
    BY <1>1 DEF Join, TypeOK, DeliveryInv
  <2>2. Delivered(q)' = items
    BY <2>1, ConcatEmptySeq DEF Delivered
  <2> QED BY <2>1, <2>2 DEF DeliveredOk
<1>2. CASE q # p
  <2>1. /\ subRun'[q] = subRun[q] /\ inbox'[q] = inbox[q] /\ reader'[q] = reader[q]
        /\ subRun[q] \in Runs => (q \in queues'[subRun[q]] => q \in queues[subRun[q]])
    BY <1>2 DEF Join, TypeOK
  <2>2. subRun[q] \in Runs \cup {None}
    BY DEF TypeOK
  <2> QED BY <2>1, <2>2, DeliveredStays
<1> QED BY <1>1, <1>2

\* What has been delivered of a stream is right after every step.
LEMMA DeliveryStep == TypeOK /\ StreamInv /\ DeliveryInv /\ [Next]_vars => DeliveryInv'
<1> SUFFICES ASSUME TypeOK, StreamInv, DeliveryInv, [Next]_vars
             PROVE  DeliveryInv'
  OBVIOUS
<1>1. ASSUME NEW k \in Keys, NEW p \in Subscribers, NEW r \in Runs, StartRun(k, p, r)
      PROVE  DeliveryInv'
  <2>1. /\ buffer[r] = <<>> /\ <<>> \in Seq(Nat) /\ <<>> \in Seq(Items) /\ Len(<<>>) = 0
        /\ Join(p, r, <<>>, "reading") /\ reader[p] = "new"
        /\ UNCHANGED <<buffer, seen>>
    BY <1>1 DEF StartRun, DeliveryInv
  <2>2. Carries(<<>>, buffer[r]) /\ EventCount(<<>>) = Len(buffer[r])
    BY <2>1, CarriesReplay
  <2>3. \A q \in Subscribers : subRun'[q] # None => DeliveredOk(q)'
    BY <2>1, <2>2, DeliverJoin
  <2>4. \A t \in Runs : task'[t] = "absent" => task[t] = "absent"
    BY <1>1 DEF StartRun, TypeOK
  <2>5. \A q \in Subscribers : reader'[q] = "new" => reader[q] = "new"
    BY <2>1 DEF Join, TypeOK
  <2> QED BY <2>1, <2>3, <2>4, <2>5 DEF DeliveryInv
<1>2. ASSUME NEW k \in Keys, NEW p \in Subscribers, StartRefused(k, p) \/ Attach(k, p)
      PROVE  DeliveryInv'
  <2> DEFINE r == runs[k]
  <2>1. Active(k) /\ reader[p] = "new" /\ UNCHANGED <<task, buffer, seen>>
    BY <1>2 DEF StartRefused, Attach
  <2>2. /\ r \in Runs /\ buffer[r] \in Seq(Nat) /\ buffer[r] \in Seq(Items)
        /\ Append(buffer[r], ReplayEnd) \in Seq(Items)
    BY <2>1, ReplayType DEF TypeOK
  <2>3. PICK items \in {buffer[r], Append(buffer[r], ReplayEnd)},
             pc \in {"left", "ignored", "reading"} : Join(p, r, items, pc)
    BY <1>2 DEF StartRefused, Attach
  <2>4. Carries(buffer[r], buffer[r]) /\ EventCount(buffer[r]) = Len(buffer[r])
    BY <2>2, CarriesReplay
  <2> HIDE DEF r
  <2>5. Carries(items, buffer[r]) /\ EventCount(items) = Len(buffer[r])
    BY <2>2, <2>4, CarriesMark
  <2>6. \A q \in Subscribers : subRun'[q] # None => DeliveredOk(q)'
    BY <2>1, <2>2, <2>3, <2>5, DeliverJoin
  <2>7. \A q \in Subscribers : reader'[q] = "new" => reader[q] = "new"
    BY <2>3 DEF Join, TypeOK
  <2> QED BY <2>1, <2>6, <2>7 DEF DeliveryInv
<1>3. ASSUME NEW r \in Runs, Producer(r)
      PROVE  DeliveryInv'
  <2>1. UNCHANGED <<queues, subRun, seen, reader>>
    BY <1>3 DEF Producer, ProducerStarts, ProducerNeverRuns, Emit, StreamEnds,
                StreamRaises, StreamCancelled, RunFinishes, FinishCancelled
  <2>2. /\ task[r] # "absent"
        /\ \A t \in Runs : task'[t] = "absent" => task[t] = "absent" /\ t # r
    BY <1>3 DEF Producer, ProducerStarts, ProducerNeverRuns, Emit, StreamEnds,
                StreamRaises, StreamCancelled, RunFinishes, FinishCancelled, InStream, TypeOK
  <2>3. \A t \in Runs : t # r => buffer'[t] = buffer[t]
    BY <1>3 DEF Producer, ProducerStarts, ProducerNeverRuns, Emit, StreamEnds,
                StreamRaises, StreamCancelled, RunFinishes, FinishCancelled, Publish, TypeOK
  <2>4. ASSUME NEW q \in Subscribers
        PROVE  subRun'[q] # None => DeliveredOk(q)'
    <3>1. CASE Emit(r) \/ StreamRaises(r)
      <4>1. InStream(r) /\ Publish(r)
        BY <3>1 DEF Emit, StreamRaises
      <4> QED BY <2>1, <4>1, DeliverEvent
    <3>2. CASE RunFinishes(r)
      <4>1. Broadcast(r, Sentinel) /\ UNCHANGED buffer
        BY <3>2 DEF RunFinishes
      <4> QED BY <2>1, <4>1, DeliverSentinel
    <3>3. CASE ~(Emit(r) \/ StreamRaises(r) \/ RunFinishes(r))
      <4>1. UNCHANGED <<inbox, buffer>>
        BY <1>3, <3>3 DEF Producer, ProducerStarts, ProducerNeverRuns, StreamEnds,
                          StreamCancelled, FinishCancelled
      <4> QED BY <2>1, <4>1, DeliveredStays
    <3> QED BY <3>1, <3>2, <3>3
  <2> QED BY <2>1, <2>2, <2>3, <2>4 DEF DeliveryInv
<1>4. ASSUME NEW p \in Subscribers, ReadItem(p) \/ ReadSentinel(p) \/ Leave(p)
      PROVE  DeliveryInv'
  <2>1. /\ UNCHANGED <<task, buffer, subRun>> /\ reader[p] = "reading"
        /\ \A q \in Subscribers : q # p =>
             seen'[q] = seen[q] /\ inbox'[q] = inbox[q] /\ reader'[q] = reader[q]
        /\ reader'[p] # "new"
    BY <1>4 DEF ReadItem, ReadSentinel, Leave, TypeOK
  <2>2. \A t \in Runs : queues'[t] \subseteq queues[t]
    BY <1>4, DetachOk DEF ReadItem, ReadSentinel, Leave, StreamInv
  <2>3. \A q \in Subscribers : subRun[q] \in Runs \cup {None}
    BY DEF TypeOK
  <2>4. ASSUME NEW q \in Subscribers, q # p
        PROVE  subRun'[q] # None => DeliveredOk(q)'
    BY <2>1, <2>2, <2>3, <2>4, DeliveredStays
  <2>5. ASSUME ReadItem(p)
        PROVE  subRun'[p] # None => DeliveredOk(p)'
    <3>1. Delivered(p)' = Delivered(p) /\ UNCHANGED <<queues, reader>>
      BY <2>5, DeliveredMoves DEF ReadItem
    <3>2. SentTo(p)' => SentTo(p)
      <4>1. inbox[p] \in Seq(Items) /\ inbox[p] # <<>> /\ inbox'[p] = Tail(inbox[p])
        BY <2>5 DEF ReadItem, TypeOK
      <4>2. \A i \in DOMAIN inbox'[p] :
              i + 1 \in DOMAIN inbox[p] /\ inbox[p][i + 1] = inbox'[p][i]
        BY <4>1
      <4> QED BY <4>2 DEF SentTo
    <3>3. subRun[p] # None => DeliveredOk(p)
      BY DEF DeliveryInv
    <3> QED BY <2>1, <3>1, <3>2, <3>3 DEF DeliveredOk
  <2>6. ASSUME ReadSentinel(p)
        PROVE  subRun'[p] # None => DeliveredOk(p)'
    <3>1. inbox[p] = <<Sentinel>>
      <4>1. /\ inbox[p] \in Seq(Items) /\ inbox[p] # <<>> /\ inbox[p][1] = Sentinel
            /\ 1 \in DOMAIN inbox[p]
        BY <2>6 DEF ReadSentinel, TypeOK
      <4>2. Len(inbox[p]) = 1
        BY <4>1 DEF StreamInv, SentinelInv
      <4> QED BY <4>1, <4>2
    <3>2. inbox'[p] = <<>> /\ seen'[p] = seen[p] /\ seen[p] \in Seq(Items)
      BY <2>6, <3>1 DEF ReadSentinel, TypeOK
    <3>3. Delivered(p)' = seen[p]
      <4>1. Delivered(p)' = seen[p] \o <<>>
        BY <3>2, Zenon DEF Delivered
      <4> QED BY <3>2, <4>1, ConcatEmptySeq
    <3>4. Delivered(p) = Append(seen[p], Sentinel)
      <4>1. Delivered(p) = seen[p] \o <<Sentinel>>
        BY <3>1, Zenon DEF Delivered
      <4>2. Sentinel \in Items
        BY DEF Items
      <4> QED BY <3>2, <4>1, <4>2, AppendIsConcat
    <3>5. SentTo(p)
      BY <3>1 DEF SentTo
    <3>6. subRun[p] # None =>
            /\ Carries(Append(seen[p], Sentinel), buffer[subRun[p]])
            /\ EventCount(Append(seen[p], Sentinel)) = Len(buffer[subRun[p]])
      BY <3>4, <3>5 DEF DeliveryInv, DeliveredOk
    <3>7. subRun[p] # None =>
            /\ Carries(seen[p], buffer[subRun[p]])
            /\ EventCount(seen[p]) = Len(buffer[subRun[p]])
      <4> SUFFICES ASSUME subRun[p] # None
                   PROVE  /\ Carries(seen[p], buffer[subRun[p]])
                          /\ EventCount(seen[p]) = Len(buffer[subRun[p]])
        OBVIOUS
      <4>1. Sentinel \in {Sentinel, ReplayEnd}
        OBVIOUS
      <4> QED BY <3>2, <3>6, <4>1, CarriesUnmark
    <3> QED BY <2>1, <3>3, <3>7 DEF DeliveredOk
  <2>7. ASSUME Leave(p)
        PROVE  subRun'[p] # None => DeliveredOk(p)'
    <3>1. seen'[p] = seen[p] /\ inbox'[p] = inbox[p] /\ reader'[p] # "ended"
      BY <2>7 DEF Leave, TypeOK
    <3> QED BY <2>1, <2>2, <2>3, <3>1, DeliveredStays
  <2> QED BY <1>4, <2>1, <2>4, <2>5, <2>6, <2>7 DEF DeliveryInv
<1>5. CASE UNCHANGED vars \/ \E k \in Keys : RequestStop(k)
  <2>1. UNCHANGED <<task, buffer, queues, subRun, inbox, seen, reader>>
    BY <1>5 DEF vars, RequestStop
  <2>2. \A q \in Subscribers : subRun'[q] # None => DeliveredOk(q)'
    BY <2>1, DeliveredStays
  <2> QED BY <2>1, <2>2 DEF DeliveryInv
<1> QED BY <1>1, <1>2, <1>3, <1>4, <1>5 DEF Next, Reader

\* "Reconnects get buffer replay + new events": no event is delivered twice, out
\* of order or in place of another, whether it was replayed or broadcast, and
\* none is missing for a subscriber that is attached or has read to the end.
THEOREM EventsOnce == Spec => []EveryEventOnce
<1>1. Init => StreamInv /\ DeliveryInv
  BY DEF Init, StreamInv, AttachedInv, SentinelInv, EndedInv, DeliveryInv
<1>2. TypeOK /\ StreamInv /\ DeliveryInv => EveryEventOnce
  <2> SUFFICES ASSUME TypeOK, StreamInv, DeliveryInv, NEW q \in Subscribers,
                      subRun[q] # None
               PROVE  /\ Carries(Delivered(q), buffer[subRun[q]])
                      /\ q \in queues[subRun[q]] =>
                           EventCount(Delivered(q)) = Len(buffer[subRun[q]])
                      /\ reader[q] = "ended" =>
                           EventCount(seen[q]) = Len(buffer[subRun[q]])
    BY DEF EveryEventOnce, Carries, Delivered
  <2>1. DeliveredOk(q)
    BY DEF DeliveryInv
  <2>2. reader[q] = "ended" => Delivered(q) = seen[q]
    BY DeliveredType DEF StreamInv, EndedInv
  <2> QED BY <2>1, <2>2 DEF DeliveredOk
<1> QED BY <1>1, <1>2, StreamStep, DeliveryStep, TypeCorrect, PTL DEF Spec

-----------------------------------------------------------------------------
(* The tracker implements EventStream.                                     *)

Current == [k \in Keys |-> IF Active(k) THEN runs[k] ELSE None]
Phases == [r \in Runs |-> Phase(r)]
Made == [r \in Runs |-> Len(buffer[r])]
Got == [q \in Subscribers |-> EventCount(seen[q])]
Told == {q \in Subscribers : reader[q] = "ended"}

\* What is registered for a chat was started for it.
RegisteredInv ==
    \A k \in Keys : runs[k] # None => task[runs[k]] # "absent" /\ runKey[runs[k]] = k

LEMMA RegisteredStep == TypeOK /\ RegisteredInv /\ [Next]_vars => RegisteredInv'
<1> SUFFICES ASSUME TypeOK, RegisteredInv, [Next]_vars
             PROVE  RegisteredInv'
  OBVIOUS
<1>0. \A k \in Keys : runs[k] # None => runs[k] \in Runs
  BY DEF TypeOK
<1>1. ASSUME NEW k \in Keys, NEW q \in Subscribers, NEW r \in Runs, StartRun(k, q, r)
      PROVE  RegisteredInv'
  <2>1. /\ task[r] = "absent" /\ runs' = [runs EXCEPT ![k] = r]
        /\ runKey' = [runKey EXCEPT ![r] = k] /\ task' = [task EXCEPT ![r] = "created"]
    BY <1>1 DEF StartRun
  <2> QED BY <1>0, <2>1 DEF RegisteredInv, TypeOK
<1>2. ASSUME NEW r \in Runs, Producer(r)
      PROVE  RegisteredInv'
  <2>1. /\ UNCHANGED runKey
        /\ \A t \in Runs : task[t] # "absent" => task'[t] # "absent"
        /\ \A k \in Keys : runs'[k] # None => runs'[k] = runs[k]
    BY <1>2 DEF Producer, ProducerStarts, ProducerNeverRuns, Emit, StreamEnds,
                StreamRaises, StreamCancelled, RunFinishes, FinishCancelled, TypeOK
  <2> QED BY <1>0, <2>1 DEF RegisteredInv
<1>3. CASE UNCHANGED <<runs, runKey, task>>
  BY <1>3 DEF RegisteredInv
<1> QED BY <1>1, <1>2, <1>3 DEF Next, StartRefused, Attach, RequestStop, Reader,
           ReadItem, ReadSentinel, Leave, vars

\* A part of a stream has no more events than the whole.
LEMMA CountPrefix ==
    ASSUME NEW p \in Seq(Items), NEW s \in Seq(Items)
    PROVE  EventCount(p) <= EventCount(p \o s)
<1> DEFINE c == p \o s
           n == Len(p)
           z == Len(c)
<1>1. n \in Nat /\ z \in Nat /\ n <= z /\ \A i \in 1..n : c[i] = p[i]
  BY ConcatProperties
<1> HIDE DEF c, n, z
<1>2. EventsUpTo(c, n) = EventsUpTo(p, n)
  BY <1>1 DEF EventsUpTo
<1>3. Cardinality(EventsUpTo(c, n)) <= Cardinality(EventsUpTo(c, z))
  BY <1>1, CountType
<1> QED BY <1>2, <1>3 DEF EventCount, n, z, c

\* Nothing has been started, made or given at first.
LEMMA ImplementsInit == Init => Stream!Init
<1> SUFFICES ASSUME Init
             PROVE  Stream!Init
  OBVIOUS
<1>1. EventCount(<<>>) = 0
  <2>1. EventsUpTo(<<>>, 0) = {}
    BY DEF EventsUpTo
  <2> QED BY <2>1, FS_EmptySet DEF EventCount
<1>2. \A k \in Keys : ~Active(k)
  BY DEF Init, Active
<1>3. \A r \in Runs : Phase(r) = "new"
  BY DEF Init, Phase, Live, InStream
<1> QED BY <1>1, <1>2, <1>3 DEF Init, Stream!Init

\* Steps within a run, and within a queue, are no step of the stream.
LEMMA ImplementsNothing ==
    ASSUME TypeOK, UNCHANGED <<runs, buffer, subRun>>,
           \A r \in Runs : Phase(r)' = Phase(r) /\ (Live(r)' <=> Live(r)),
           \A q \in Subscribers : /\ EventCount(seen[q])' = EventCount(seen[q])
                                  /\ reader'[q] = "ended" <=> reader[q] = "ended"
    PROVE  UNCHANGED Stream!vars
<1>1. \A k \in Keys : Active(k)' <=> Active(k)
  BY DEF Active, TypeOK
<1> QED BY <1>1 DEF Stream!vars

\* The end of a run's task, whether it was reached or cut short.
LEMMA ImplementsEnd ==
    ASSUME TypeOK, OneRunPerChat, RegisteredInv, NEW r \in Runs, Live(r),
           NEW k \in Keys, runKey[r] = k, NEW pc \in {"done", "aborted"}, task' = [task EXCEPT ![r] = pc],
           UNCHANGED runs \/ runs' = [runs EXCEPT ![runKey[r]] = None],
           UNCHANGED <<buffer, subRun, seen, reader>>
    PROVE  Stream!End(k)
<1>1. runs[k] = r /\ r # None /\ Active(k)
  BY ConstantsAssumption DEF OneRunPerChat, Active
<1>2. \A j \in Keys : j # k => runs[j] # r /\ runs'[j] = runs[j]
  BY ConstantsAssumption DEF RegisteredInv, TypeOK
<1>3. ~Active(k)'
  <2>1. runs'[k] \in {r, None}
    BY <1>1 DEF TypeOK
  <2>2. ~Live(r)'
    BY DEF Live, InStream, TypeOK
  <2> QED BY <2>1, <2>2 DEF Active, Live, InStream
<1>4. ASSUME NEW j \in Keys, j # k
      PROVE  Active(j)' <=> Active(j)
  BY <1>2, <1>4 DEF Active, Live, InStream, TypeOK
<1>5. Current' = [Current EXCEPT ![k] = None]
  BY <1>1, <1>2, <1>3, <1>4 DEF Current
<1>6. \A t \in Runs : t # r => Phase(t)' = Phase(t)
  BY DEF Phase, Live, InStream, TypeOK
<1>7. Phase(r)' = IF pc = "done" THEN "over" ELSE "cut"
  BY DEF Phase, Live, InStream, TypeOK
<1>8. Phases' = [Phases EXCEPT ![r] = Phase(r)']
  BY <1>6 DEF Phases
<1>9. Current[k] = r /\ UNCHANGED <<Made, Got, Told>>
  BY <1>1 DEF Current, Made, Got, Told
<1> QED BY <1>1, <1>5, <1>7, <1>8, <1>9
        DEF Stream!End, Current, Phases, Made, Got, Told

\* Every step of the tracker is a step of the stream, or none.
LEMMA ImplementsStep ==
    ASSUME TypeOK, OneRunPerChat, RegisteredInv, StreamInv, TypeOK',
           EveryEventOnce', [Next]_vars
    PROVE  [Stream!Next]_Stream!vars
<1>1. ASSUME NEW k \in Keys, NEW q \in Subscribers, NEW r \in Runs, StartRun(k, q, r)
      PROVE  Stream!Open(k, q, r)
  <2>1. /\ reader[q] = "new" /\ ~Active(k) /\ task[r] = "absent"
        /\ runs' = [runs EXCEPT ![k] = r] /\ task' = [task EXCEPT ![r] = "created"]
        /\ subRun' = [subRun EXCEPT ![q] = r]
        /\ reader' = [reader EXCEPT ![q] = "reading"]
        /\ UNCHANGED <<buffer, seen>>
    BY <1>1 DEF StartRun, Join
  <2>2. r # None /\ subRun[q] = None
    BY <2>1, ConstantsAssumption DEF StreamInv, AttachedInv
  <2>3. \A j \in Keys : j # k => runs[j] # r /\ runs'[j] = runs[j]
    BY <2>1, <2>2 DEF RegisteredInv, TypeOK
  <2>4. Active(k)' /\ runs'[k] = r
    BY <2>1, <2>2 DEF Active, Live, InStream, TypeOK
  <2>5. ASSUME NEW j \in Keys, j # k
        PROVE  Active(j)' <=> Active(j)
    BY <2>1, <2>3, <2>5 DEF Active, Live, InStream, TypeOK
  <2>6. Current[k] = None /\ Current' = [Current EXCEPT ![k] = r]
    BY <2>1, <2>3, <2>4, <2>5 DEF Current
  <2>7. Phases[r] = "new" /\ Phases' = [Phases EXCEPT ![r] = "open"]
    <3>1. \A t \in Runs : t # r => Phase(t)' = Phase(t)
      BY <2>1 DEF Phase, Live, InStream, TypeOK
    <3>2. Phase(r) = "new" /\ Phase(r)' = "open"
      BY <2>1 DEF Phase, Live, InStream, TypeOK
    <3> QED BY <3>1, <3>2 DEF Phases
  <2>8. UNCHANGED <<Made, Got, Told>>
    BY <2>1 DEF Made, Got, Told, TypeOK
  <2> QED BY <2>1, <2>2, <2>6, <2>7, <2>8
          DEF Stream!Open, Stream!Follow, Current, Phases, Made, Got, Told
<1>2. ASSUME NEW k \in Keys, NEW q \in Subscribers, StartRefused(k, q) \/ Attach(k, q)
      PROVE  Stream!Join(k, q)
  <2>1. /\ reader[q] = "new" /\ Active(k) /\ subRun' = [subRun EXCEPT ![q] = runs[k]]
        /\ UNCHANGED <<runs, task, buffer, seen>>
        /\ reader'[q] # "ended" /\ \A p \in Subscribers : p # q => reader'[p] = reader[p]
    BY <1>2 DEF StartRefused, Attach, Join, TypeOK
  <2>2. subRun[q] = None
    BY <2>1 DEF StreamInv, AttachedInv
  <2>3. \A j \in Keys : Active(j)' <=> Active(j)
    BY <2>1 DEF Active, Live, InStream
  <2>4. Current[k] = runs[k] /\ runs[k] # None /\ UNCHANGED Current
    BY <2>1, <2>3 DEF Current, Active
  <2>5. UNCHANGED <<Phases, Made, Got, Told>>
    BY <2>1 DEF Phases, Phase, Live, InStream, Made, Got, Told
  <2> QED BY <2>1, <2>2, <2>4, <2>5
          DEF Stream!Join, Stream!Follow, Current, Phases, Made, Got, Told
<1>3. ASSUME NEW r \in Runs, Producer(r)
      PROVE  \/ UNCHANGED Stream!vars \/ Stream!Publish(r)
             \/ \E k \in Keys : Stream!End(k)
  <2>1. CASE ProducerStarts(r) \/ StreamEnds(r) \/ StreamCancelled(r)
    <3>1. \A t \in Runs : Phase(t)' = Phase(t) /\ (Live(t)' <=> Live(t))
      BY <2>1 DEF ProducerStarts, StreamEnds, StreamCancelled, Phase, Live, InStream, TypeOK
    <3>2. UNCHANGED <<runs, buffer, subRun, seen, reader>>
      BY <2>1 DEF ProducerStarts, StreamEnds, StreamCancelled
    <3>3. \A q \in Subscribers : EventCount(seen[q])' = EventCount(seen[q])
      BY <3>2 DEF EventCount, EventsUpTo
    <3> QED BY <3>1, <3>2, <3>3, ImplementsNothing
  <2>2. CASE Emit(r) \/ StreamRaises(r)
    <3>1. /\ InStream(r) /\ buffer[r] \in Seq(Nat)
          /\ buffer' = [buffer EXCEPT ![r] = Append(buffer[r], Len(buffer[r]) + 1)]
          /\ UNCHANGED <<runs, subRun, seen, reader>>
          /\ task' = task \/ task' = [task EXCEPT ![r] = "finishing"]
      BY <2>2 DEF Emit, StreamRaises, Publish, TypeOK
    <3>2. \A t \in Runs : Phase(t)' = Phase(t) /\ (Live(t)' <=> Live(t))
      BY <3>1 DEF Phase, Live, InStream, TypeOK
    <3>3. \A j \in Keys : Active(j)' <=> Active(j)
      BY <3>1, <3>2 DEF Active, TypeOK
    <3>4. Len(buffer'[r]) = Len(buffer[r]) + 1 /\ Phase(r) = "open"
      BY <3>1 DEF TypeOK, Phase, Live, InStream
    <3>5. \A t \in Runs : t # r => buffer'[t] = buffer[t]
      BY <3>1 DEF TypeOK
    <3>6. Made' = [Made EXCEPT ![r] = Made[r] + 1] /\ Phases[r] = "open"
      BY <3>4, <3>5 DEF Made, Phases
    <3>7. UNCHANGED <<Current, Phases, Got, Told>>
      BY <3>1, <3>2, <3>3 DEF Current, Phases, Got, Told
    <3>8. Stream!Publish(r)
      BY <3>1, <3>6, <3>7 DEF Stream!Publish, Current, Phases, Made, Got, Told
    <3> QED BY <3>8
  <2>3. CASE ProducerNeverRuns(r) \/ FinishCancelled(r) \/ RunFinishes(r)
    <3>1. /\ Live(r) /\ UNCHANGED <<buffer, subRun, seen, reader>>
          /\ UNCHANGED runs \/ runs' = [runs EXCEPT ![runKey[r]] = None]
          /\ \E pc \in {"done", "aborted"} : task' = [task EXCEPT ![r] = pc]
      BY <2>3 DEF ProducerNeverRuns, FinishCancelled, RunFinishes, Live, InStream
    <3>2. PICK k \in Keys : runKey[r] = k
      BY <3>1 DEF OneRunPerChat
    <3> QED BY <3>1, <3>2, ImplementsEnd
  <2> QED BY <1>3, <2>1, <2>2, <2>3 DEF Producer
<1>4. ASSUME NEW q \in Subscribers, ReadItem(q)
      PROVE  UNCHANGED Stream!vars \/ Stream!Receive(q)
  <2> DEFINE h == Head(inbox[q])
  <2>1. /\ UNCHANGED <<runs, runKey, task, buffer, subRun, reader>>
        /\ reader[q] = "reading" /\ h # Sentinel /\ seen'[q] = Append(seen[q], h)
        /\ seen[q] \in Seq(Items)
        /\ \A p \in Subscribers : p # q => seen'[p] = seen[p]
    BY <1>4 DEF ReadItem, TypeOK
  <2> HIDE DEF h
  <2>2. subRun[q] \in Runs /\ subRun[q] # None
    BY <2>1, ConstantsAssumption DEF StreamInv, AttachedInv
  <2>3. \A p \in Subscribers : p # q => EventCount(seen[p])' = EventCount(seen[p])
    BY <2>1 DEF EventCount, EventsUpTo
  <2>4. EventCount(seen[q])' = EventCount(Append(seen[q], h))
    BY <2>1 DEF EventCount, EventsUpTo
  <2>5. UNCHANGED <<Current, Phases, Made, Told>>
    BY <2>1 DEF Current, Active, Phases, Phase, Live, InStream, Made, Told
  <2>6. CASE h = ReplayEnd
    <3>1. EventCount(seen[q])' = EventCount(seen[q])
      BY <2>1, <2>4, <2>6, CountAppend
    <3>2. Got' = Got
      BY <2>3, <3>1 DEF Got
    <3> QED BY <2>1, <2>5, <3>2 DEF Stream!vars, Current, Phases, Made, Got, Told
  <2>7. CASE h # ReplayEnd
    <3>1. EventCount(seen[q])' = EventCount(seen[q]) + 1
      BY <2>1, <2>4, <2>7, CountAppend
    <3>2. EventCount(seen[q]) \in Nat
      BY <2>1, CountType DEF EventCount
    <3>3. EventCount(seen[q])' <= Len(buffer[subRun[q]])
      <4>1. EventCount(seen'[q] \o inbox'[q]) <= Len(buffer'[subRun'[q]])
        BY <2>1, <2>2 DEF EveryEventOnce, EventCount, EventsUpTo
      <4>2. EventCount(seen'[q]) <= EventCount(seen'[q] \o inbox'[q])
        BY CountPrefix DEF TypeOK
      <4>3. /\ EventCount(seen'[q]) \in Nat
            /\ EventCount(seen'[q] \o inbox'[q]) \in Nat
            /\ Len(buffer[subRun[q]]) \in Nat
        BY <2>2, CountType, ConcatProperties DEF TypeOK, EventCount
      <4>4. EventCount(seen[q])' = EventCount(seen'[q])
        BY DEF EventCount, EventsUpTo
      <4> QED BY <2>1, <4>1, <4>2, <4>3, <4>4
    <3>4. Len(buffer[subRun[q]]) \in Nat
      BY <2>2 DEF TypeOK
    <3>5. Got[q] < Made[subRun[q]] /\ Got' = [Got EXCEPT ![q] = Got[q] + 1]
      <4>1. EventCount(seen[q]) < Len(buffer[subRun[q]])
        BY <3>1, <3>2, <3>3, <3>4
      <4>2. Got[q] = EventCount(seen[q]) /\ Made[subRun[q]] = Len(buffer[subRun[q]])
        BY <2>2 DEF Got, Made
      <4>3. Got' = [Got EXCEPT ![q] = EventCount(seen[q])']
        BY <2>3 DEF Got
      <4> QED BY <3>1, <4>1, <4>2, <4>3
    <3>6. q \notin Told
      BY <2>1 DEF Told
    <3>7. Stream!Receive(q)
      BY <2>1, <2>2, <2>5, <3>5, <3>6
      DEF Stream!Receive, Current, Phases, Made, Got, Told
    <3> QED BY <3>7
  <2> QED BY <2>6, <2>7
<1>5. ASSUME NEW q \in Subscribers, ReadSentinel(q)
      PROVE  Stream!Hear(q)
  <2>1. /\ UNCHANGED <<runs, runKey, task, buffer, subRun, seen>>
        /\ reader[q] = "reading" /\ inbox[q] # <<>> /\ Head(inbox[q]) = Sentinel
        /\ reader' = [reader EXCEPT ![q] = "ended"]
    BY <1>5 DEF ReadSentinel
  <2>2. subRun[q] \in Runs /\ subRun[q] # None
    BY <2>1, ConstantsAssumption DEF StreamInv, AttachedInv
  <2>3. task[subRun[q]] = "done"
    <3>1. inbox[q] \in Seq(Items) /\ 1 \in DOMAIN inbox[q] /\ inbox[q][1] = Sentinel
      BY <2>1 DEF TypeOK
    <3> QED BY <3>1 DEF StreamInv, SentinelInv
  <2>4. EventCount(seen[q]) = Len(buffer[subRun[q]])
    <3>1. reader'[q] = "ended"
      BY <2>1 DEF TypeOK
    <3>2. EventCount(seen[q])' = Len(buffer'[subRun'[q]])
      BY <2>1, <2>2, <3>1 DEF EveryEventOnce
    <3>3. EventCount(seen[q])' = EventCount(seen[q])
      BY <2>1 DEF EventCount, EventsUpTo
    <3> QED BY <2>1, <3>2, <3>3
  <2>5. UNCHANGED <<Current, Phases, Made, Got>>
    BY <2>1 DEF Current, Active, Phases, Phase, Live, InStream, Made, Got
  <2>6. q \notin Told /\ Told' = Told \cup {q}
    BY <2>1 DEF Told, TypeOK
  <2>7. Phases[subRun[q]] = "over" /\ Got[q] = Made[subRun[q]]
    BY <2>2, <2>3, <2>4 DEF Phases, Phase, Live, InStream, Got, Made
  <2> QED BY <2>1, <2>2, <2>5, <2>6, <2>7
          DEF Stream!Hear, Current, Phases, Made, Got, Told
<1>6. CASE UNCHANGED vars \/ (\E k \in Keys : RequestStop(k))
             \/ \E q \in Subscribers : Leave(q)
  <2>1. /\ UNCHANGED <<runs, task, buffer, subRun, seen>>
        /\ \A q \in Subscribers : reader'[q] = "ended" <=> reader[q] = "ended"
    BY <1>6 DEF vars, RequestStop, Leave, TypeOK
  <2>2. \A t \in Runs : Phase(t)' = Phase(t) /\ (Live(t)' <=> Live(t))
    BY <2>1 DEF Phase, Live, InStream
  <2>3. \A q \in Subscribers : EventCount(seen[q])' = EventCount(seen[q])
    BY <2>1 DEF EventCount, EventsUpTo
  <2> QED BY <2>1, <2>2, <2>3, ImplementsNothing
<1>7. ASSUME NEW k \in Keys, NEW q \in Subscribers,
             \/ \E r \in Runs : StartRun(k, q, r)
             \/ StartRefused(k, q) \/ Attach(k, q)
      PROVE  Stream!Next
  BY <1>1, <1>2, <1>7 DEF Stream!Next
<1>8. ASSUME NEW r \in Runs, Producer(r)
      PROVE  [Stream!Next]_Stream!vars
  BY <1>3, <1>8 DEF Stream!Next
<1>9. ASSUME NEW q \in Subscribers, Reader(q)
      PROVE  [Stream!Next]_Stream!vars
  BY <1>4, <1>5, <1>9 DEF Reader, Stream!Next
<1> QED BY <1>6, <1>7, <1>8, <1>9 DEF Next

\* The tracker implements EventStream: in a chat, runs follow each other, and a
\* subscriber follows one of them from its first event to the word that it is
\* over, in spite of stops, reconnects and other readers.
THEOREM TrackerStreams == Spec => KeepsStream
<1>1. Init => RegisteredInv
  BY DEF Init, RegisteredInv
<1> QED BY <1>1, RegisteredStep, ImplementsInit, ImplementsStep, TypeCorrect, OneRun,
           EventsOnce, StreamOrder, PTL DEF Spec, KeepsStream, Stream!Spec

=============================================================================
