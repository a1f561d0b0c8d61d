----------------------------- MODULE TaskTracker -----------------------------
(***************************************************************************)
(* TaskTracker (app/task_tracker.py): background agent runs, one at a time *)
(* per chat, whose events are buffered and broadcast to any number of      *)
(* subscribers; a client that reconnects gets the buffer replayed.         *)
(*                                                                         *)
(* No critical section of the tracker's lock contains an await, so the     *)
(* lock never makes a task wait.  A step is what one task runs between two *)
(* suspension points.  Events of a run are numbered in the order the       *)
(* stream yields them; an error event counts as one.                       *)
(***************************************************************************)
EXTENDS Naturals, SequencesExt

CONSTANTS
    Keys,          \* run_key: the chat ids
    Runs,          \* _RunState objects (with their producer tasks)
    Subscribers,   \* queues handed out by attach and attach_or_start
    None,          \* no run
    Sentinel,      \* _SENTINEL: end of stream
    ReplayEnd,     \* REPLAY_END_SSE
    MaxEvents      \* bound: events a stream yields

ASSUME ConstantsAssumption ==
    /\ None \notin Runs \cup Keys
    /\ Sentinel \notin Nat
    /\ ReplayEnd \notin Nat \cup {Sentinel}
    /\ MaxEvents \in Nat

VARIABLES
    runs,        \* _runs: the run registered for each chat
    runKey,      \* the chat a run was started for
    task,        \* where the run's producer task stands
    interrupt,   \* task.cancel() was called and not yet delivered
    buffer,      \* _RunState.buffer
    queues,      \* _RunState.queues
    subRun,      \* the run a subscriber was attached to
    inbox,       \* items waiting in a subscriber's queue
    seen,        \* history: items its reader took out
    reader       \* where the reader of a subscriber's queue stands

vars == <<runs, runKey, task, interrupt, buffer, queues, subRun, inbox, seen,
          reader>>

\* "unwinding": the stream deals with a cancellation.  "done" and "aborted" are
\* both task.done(); "aborted" tells that the finally clause of the producer was
\* not run to its end.
TaskPC == {"absent", "created", "streaming", "unwinding", "finishing", "done", "aborted"}
ReaderPC == {"new", "reading", "ended", "left", "ignored"}
Items == Nat \cup {Sentinel, ReplayEnd}

TypeOK ==
    /\ runs \in [Keys -> Runs \cup {None}]
    /\ runKey \in [Runs -> Keys \cup {None}]
    /\ task \in [Runs -> TaskPC]
    /\ interrupt \in [Runs -> BOOLEAN]
    /\ buffer \in [Runs -> Seq(Nat)]
    /\ queues \in [Runs -> SUBSET Subscribers]
    /\ subRun \in [Subscribers -> Runs \cup {None}]
    /\ inbox \in [Subscribers -> Seq(Items)]
    /\ seen \in [Subscribers -> Seq(Items)]
    /\ reader \in [Subscribers -> ReaderPC]

Init ==
    /\ runs = [k \in Keys |-> None]
    /\ runKey = [r \in Runs |-> None]
    /\ task = [r \in Runs |-> "absent"]
    /\ interrupt = [r \in Runs |-> FALSE]
    /\ buffer = [r \in Runs |-> <<>>]
    /\ queues = [r \in Runs |-> {}]
    /\ subRun = [q \in Subscribers |-> None]
    /\ inbox = [q \in Subscribers |-> <<>>]
    /\ seen = [q \in Subscribers |-> <<>>]
    /\ reader = [q \in Subscribers |-> "new"]

InStream(r) == task[r] \in {"streaming", "unwinding"}
Live(r) == task[r] \in {"created", "finishing"} \/ InStream(r)

\* The test "state is not None and not state.task.done()".
Active(k) == runs[k] # None /\ Live(runs[k])

-----------------------------------------------------------------------------
(* Callers of the tracker.                                                 *)

\* Subscriber q joins run r, its queue holding items; its reader becomes pc.
Join(q, r, items, pc) ==
    /\ subRun' = [subRun EXCEPT ![q] = r]
    /\ inbox' = [inbox EXCEPT ![q] = items]
    /\ queues' = [queues EXCEPT ![r] = IF pc = "left" THEN @ ELSE @ \cup {q}]
    /\ reader' = [reader EXCEPT ![q] = pc]

\* attach_or_start starts a run: nothing is registered for the chat, or what
\* is registered has ended.
StartRun(k, q, r) ==
    /\ reader[q] = "new"
    /\ ~Active(k)
    /\ task[r] = "absent"
    /\ runs' = [runs EXCEPT ![k] = r]
    /\ runKey' = [runKey EXCEPT ![r] = k]
    /\ task' = [task EXCEPT ![r] = "created"]
    /\ Join(q, r, <<>>, "reading")
    /\ UNCHANGED <<interrupt, buffer, seen>>

\* attach_or_start finds a run in progress: the chat API detaches the queue at
\* once and answers 409, a channel logs "Message ignored" and leaves the queue
\* attached with nobody reading it.
StartRefused(k, q) ==
    /\ reader[q] = "new"
    /\ Active(k)
    /\ \E pc \in {"left", "ignored"} : Join(q, runs[k], buffer[runs[k]], pc)
    /\ UNCHANGED <<runs, runKey, task, interrupt, buffer, seen>>

\* Mutant of Attach: the buffer is not replayed.
AttachWithoutReplay(k, q) ==
    /\ reader[q] = "new"
    /\ Active(k)
    /\ Join(q, runs[k], <<ReplayEnd>>, "reading")
    /\ UNCHANGED <<runs, runKey, task, interrupt, buffer, seen>>

\* Mutant of Attach: task.done() is not looked at.
AttachToEnded(k, q) ==
    /\ reader[q] = "new"
    /\ runs[k] # None
    /\ Join(q, runs[k], Append(buffer[runs[k]], ReplayEnd), "reading")
    /\ UNCHANGED <<runs, runKey, task, interrupt, buffer, seen>>

\* attach: a client reconnects to a run in progress.
Attach(k, q) ==
    /\ reader[q] = "new"
    /\ Active(k)
    /\ Join(q, runs[k], Append(buffer[runs[k]], ReplayEnd), "reading")
    /\ UNCHANGED <<runs, runKey, task, interrupt, buffer, seen>>

\* request_stop: the run is cancelled whatever its producer is doing.
RequestStop(k) ==
    /\ Active(k)
    /\ ~interrupt[runs[k]]
    /\ interrupt' = [interrupt EXCEPT ![runs[k]] = TRUE]
    /\ UNCHANGED <<runs, runKey, task, buffer, queues, subRun, inbox, seen,
                   reader>>

-----------------------------------------------------------------------------
(* Producers: _producer.                                                   *)

\* Mutant of Broadcast: the other queues are dropped.
BroadcastRebuilds(r, item) ==
    inbox' = [q \in queues[r] |-> Append(inbox[q], item)]

Broadcast(r, item) ==
    inbox' = [q \in Subscribers |-> IF q \in queues[r] THEN Append(inbox[q], item)
                                                       ELSE inbox[q]]

\* One more event, to the buffer and to every queue of the run.
Publish(r) ==
    /\ buffer' = [buffer EXCEPT ![r] = Append(@, Len(@) + 1)]
    /\ Broadcast(r, Len(buffer[r]) + 1)

\* The task takes its first step and enters the try block.
ProducerStarts(r) ==
    /\ task[r] = "created"
    /\ ~interrupt[r]
    /\ task' = [task EXCEPT ![r] = "streaming"]
    /\ UNCHANGED <<runs, runKey, interrupt, buffer, queues, subRun, inbox, seen,
                   reader>>

\* A task cancelled before its first step never enters the coroutine, so
\* neither its except nor its finally clause runs.
ProducerNeverRuns(r) ==
    /\ task[r] = "created"
    /\ interrupt[r]
    /\ task' = [task EXCEPT ![r] = "aborted"]
    /\ interrupt' = [interrupt EXCEPT ![r] = FALSE]
    /\ UNCHANGED <<runs, runKey, buffer, queues, subRun, inbox, seen, reader>>

Emit(r) ==
    /\ InStream(r)
    /\ ~interrupt[r]
    /\ Len(buffer[r]) < MaxEvents
    /\ Publish(r)
    /\ UNCHANGED <<runs, runKey, task, interrupt, queues, subRun, seen, reader>>

\* Mutants of StreamEnds: the entry is popped, the sentinel is sent, before
\* on_finished is awaited.
PopBeforeFinish(r) ==
    /\ InStream(r)
    /\ ~interrupt[r]
    /\ task' = [task EXCEPT ![r] = "finishing"]
    /\ runs' = [runs EXCEPT ![runKey[r]] = None]
    /\ UNCHANGED <<runKey, interrupt, buffer, queues, subRun, inbox, seen,
                   reader>>

SentinelBeforeFinish(r) ==
    /\ InStream(r)
    /\ ~interrupt[r]
    /\ task' = [task EXCEPT ![r] = "finishing"]
    /\ Broadcast(r, Sentinel)
    /\ UNCHANGED <<runs, runKey, interrupt, buffer, queues, subRun, seen,
                   reader>>

\* The stream ends, and the finally clause awaits on_finished.
StreamEnds(r) ==
    /\ InStream(r)
    /\ ~interrupt[r]
    /\ task' = [task EXCEPT ![r] = "finishing"]
    /\ UNCHANGED <<runs, runKey, interrupt, buffer, queues, subRun, inbox, seen,
                   reader>>

\* The stream raises: an error event is published first.
StreamRaises(r) ==
    /\ InStream(r)
    /\ ~interrupt[r]
    /\ task' = [task EXCEPT ![r] = "finishing"]
    /\ Publish(r)
    /\ UNCHANGED <<runs, runKey, interrupt, queues, subRun, seen, reader>>

\* CancelledError inside the stream: the runtime's handler (run in runtime.py) may
\* still save the session, which may fail, and yield the last events of the
\* response; one that comes meanwhile ends that, or is ignored with the hooks it
\* interrupts.  Out of the stream the producer swallows it, then as StreamEnds.
StreamCancelled(r) ==
    /\ InStream(r)
    /\ interrupt[r]
    /\ \E pc \in {"unwinding", "finishing"} : task' = [task EXCEPT ![r] = pc]
    /\ interrupt' = [interrupt EXCEPT ![r] = FALSE]
    /\ UNCHANGED <<runs, runKey, buffer, queues, subRun, inbox, seen, reader>>

\* Mutant of RunFinishes: no sentinel is sent.
RunFinishesSilently(r) ==
    /\ task[r] = "finishing"
    /\ ~interrupt[r]
    /\ task' = [task EXCEPT ![r] = "done"]
    /\ runs' = [runs EXCEPT ![runKey[r]] = None]
    /\ UNCHANGED <<runKey, interrupt, buffer, queues, subRun, inbox, seen, reader>>

\* on_finished has returned or raised: every queue gets the sentinel and the
\* chat's entry is popped.
RunFinishes(r) ==
    /\ task[r] = "finishing"
    /\ ~interrupt[r]
    /\ task' = [task EXCEPT ![r] = "done"]
    /\ Broadcast(r, Sentinel)
    /\ runs' = [runs EXCEPT ![runKey[r]] = None]
    /\ UNCHANGED <<runKey, interrupt, buffer, queues, subRun, seen, reader>>

\* CancelledError while on_finished is awaited is no Exception: it leaves the
\* finally clause before the sentinel and the pop.
FinishCancelled(r) ==
    /\ task[r] = "finishing"
    /\ interrupt[r]
    /\ task' = [task EXCEPT ![r] = "aborted"]
    /\ interrupt' = [interrupt EXCEPT ![r] = FALSE]
    /\ UNCHANGED <<runs, runKey, buffer, queues, subRun, inbox, seen, reader>>

-----------------------------------------------------------------------------
(* Readers: stream_from_queue.                                             *)

\* detach_subscriber looks the run up by chat, not by the run joined.
Detach(q) == LET r == runs[runKey[subRun[q]]] IN
    queues' = IF r = None THEN queues ELSE [queues EXCEPT ![r] = @ \ {q}]

ReadItem(q) ==
    /\ reader[q] = "reading"
    /\ inbox[q] # <<>>
    /\ Head(inbox[q]) # Sentinel
    /\ seen' = [seen EXCEPT ![q] = Append(@, Head(inbox[q]))]
    /\ inbox' = [inbox EXCEPT ![q] = Tail(@)]
    /\ UNCHANGED <<runs, runKey, task, interrupt, buffer, queues, subRun, reader>>

ReadSentinel(q) ==
    /\ reader[q] = "reading"
    /\ inbox[q] # <<>>
    /\ Head(inbox[q]) = Sentinel
    /\ inbox' = [inbox EXCEPT ![q] = Tail(@)]
    /\ reader' = [reader EXCEPT ![q] = "ended"]
    /\ Detach(q)
    /\ UNCHANGED <<runs, runKey, task, interrupt, buffer, subRun, seen>>

\* The client disconnects, or the reading task is cancelled.
Leave(q) ==
    /\ reader[q] = "reading"
    /\ reader' = [reader EXCEPT ![q] = "left"]
    /\ Detach(q)
    /\ UNCHANGED <<runs, runKey, task, interrupt, buffer, subRun, inbox, seen>>

-----------------------------------------------------------------------------

Producer(r) ==
    \/ ProducerStarts(r)
    \/ ProducerNeverRuns(r)
    \/ Emit(r)
    \/ StreamEnds(r)
    \/ StreamRaises(r)
    \/ StreamCancelled(r)
    \/ RunFinishes(r)
    \/ FinishCancelled(r)

Reader(q) == ReadItem(q) \/ ReadSentinel(q)

Next ==
    \/ \E k \in Keys, q \in Subscribers :
        \/ \E r \in Runs : StartRun(k, q, r)
        \/ StartRefused(k, q)
        \/ Attach(k, q)
    \/ \E k \in Keys : RequestStop(k)
    \/ \E r \in Runs : Producer(r)
    \/ \E q \in Subscribers : Reader(q) \/ Leave(q)

Spec == Init /\ [][Next]_vars

StreamOver(r) ==
    /\ StreamEnds(r) \/ StreamRaises(r) \/ StreamCancelled(r)
    /\ task'[r] = "finishing"

\* The event loop runs every ready task, an agent's stream ends, however often it
\* is cancelled, and on_finished returns.  Nobody is bound to start, stop or leave
\* a run.
Fairness ==
    /\ \A r \in Runs : WF_vars(Producer(r)) /\ SF_vars(StreamOver(r))
    /\ \A q \in Subscribers : WF_vars(Reader(q))

FairSpec == Spec /\ Fairness

-----------------------------------------------------------------------------
(* Properties                                                              *)

\* A run whose task is not done is the registered run of its chat: there is
\* never a second one, /stop and reconnects always reach it, and the pop in
\* the finally clause never removes the entry of another run.
OneRunPerChat ==
    \A r \in Runs : Live(r) => runKey[r] \in Keys /\ runs[runKey[r]] = r

\* The events among the first i items: positions of what is neither a sentinel
\* nor a replay mark.
EventsUpTo(items, i) == {j \in 1..i : items[j] \notin {Sentinel, ReplayEnd}}

EventCount(items) == Cardinality(EventsUpTo(items, Len(items)))

\* "Reconnects get buffer replay + new events": whenever it joined, the n-th
\* event a subscriber has received, or has waiting, is the n-th event of its run;
\* an attached one has them all, and so has one that read to the end.
EveryEventOnce ==
    \A q \in Subscribers :
        LET r == subRun[q]
            items == seen[q] \o inbox[q]
        IN  r # None =>
              /\ \A i \in DOMAIN items :
                   i \in EventsUpTo(items, i)
                     => items[i] = buffer[r][Cardinality(EventsUpTo(items, i))]
              /\ EventCount(items) <= Len(buffer[r])
              /\ q \in queues[r] => EventCount(items) = Len(buffer[r])
              /\ reader[q] = "ended" => EventCount(seen[q]) = Len(buffer[r])

\* The sentinel is the last item of a queue, only a finished run sends it, and
\* it sends it to every reader that is still there: none is told the stream is
\* over while events can come, and none waits for a word that will not come.
SentinelEndsStream ==
    \A q \in Subscribers :
        /\ Sentinel \in ToSet(inbox[q]) =>
             /\ task[subRun[q]] = "done"
             /\ inbox[q][Len(inbox[q])] = Sentinel
        /\ reader[q] = "ended" => task[subRun[q]] = "done" /\ inbox[q] = <<>>
        /\ reader[q] = "reading" /\ task[subRun[q]] = "done" =>
             Sentinel \in ToSet(inbox[q])

Phase(r) ==
    CASE task[r] = "absent" -> "new"
      [] Live(r) -> "open"
      [] task[r] = "done" -> "over"
      [] task[r] = "aborted" -> "cut"

Stream == INSTANCE EventStream WITH
    current <- [k \in Keys |-> IF Active(k) THEN runs[k] ELSE None],
    phase <- [r \in Runs |-> Phase(r)],
    made <- [r \in Runs |-> Len(buffer[r])],
    follows <- subRun,
    got <- [q \in Subscribers |-> EventCount(seen[q])],
    told <- {q \in Subscribers : reader[q] = "ended"}

\* The tracker implements EventStream: whatever producers, stops, reconnects and
\* readers do between each other's steps, runs succeed each other in a chat and
\* every subscriber follows one of them from its first event on, and hears of its
\* end after the last.
KeepsStream == Stream!Spec

\* "Cleanup when task completes" (module docstring): a run whose task is done
\* is not left in _runs.
CleanupWhenDone == \A k \in Keys : runs[k] # None => Live(runs[k])

\* A reader is not left waiting for ever, unless a cancellation cut the
\* producer's finally clause short.
ReadersReleased ==
    \A q \in Subscribers :
        reader[q] = "reading"
            ~> (reader[q] # "reading" \/ task[subRun[q]] = "aborted")

=============================================================================
