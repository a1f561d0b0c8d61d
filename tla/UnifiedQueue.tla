---------------------------- MODULE UnifiedQueue ----------------------------
(***************************************************************************)
(* The message queues between the chat channels and the agent:             *)
(* UnifiedQueueManager (app/channels/unified_queue_manager.py) and the     *)
(* part of ChannelManager (app/channels/manager.py) that feeds and drains  *)
(* it.                                                                     *)
(*                                                                         *)
(* Everything runs on one asyncio event loop.  No critical section of      *)
(* UnifiedQueueManager._lock contains an await, so that lock never makes a *)
(* task wait, and a step of this module is the code a task runs between    *)
(* two real suspension points.  A QueueState object and the task that      *)
(* consumes its queue are created together; both are named by the same     *)
(* element of States.                                                      *)
(***************************************************************************)
EXTENDS Naturals, SequencesExt

CONSTANTS
    Keys,        \* QueueKey: (channel_id, session_id, priority_level)
    Messages,    \* payloads handed to ChannelManager.enqueue
    KeyOf,       \* the QueueKey of each payload
    States,      \* QueueState objects (with their consumer tasks) ever created
    None,        \* no QueueState
    Capacity,    \* queue_maxsize
    MaxLulls     \* how often a queue may pass idle_timeout without activity

ASSUME ConstantsAssumption ==
    /\ KeyOf \in [Messages -> Keys]
    /\ None \notin States \cup Keys
    /\ Capacity \in Nat \ {0}
    /\ MaxLulls \in Nat

VARIABLES
    inline,      \* the Python the process runs on.  TRUE: asyncio.wait_for awaits
                 \* put in the caller (3.12, 3.13); FALSE: in a task of its own
                 \* (3.11)
    queues,      \* _queues: the registered QueueState of each key
    stateKey,    \* the key a QueueState was created for
    buffer,      \* QueueState.queue: the waiting payloads
    idle,        \* now - last_activity > idle_timeout
    consumer,    \* where the consumer task stands
    cancel,      \* of the consumer task: "none" was ever requested, one is
                 \* "pending", or the batch it hit "swallowed" it
    batch,       \* payloads the consumer took and has not finished
    status,      \* what became of each payload
    target,      \* the QueueState each enqueue call resolved to
    accepted,    \* history: payloads in the order their put completed
    started,     \* history: payloads in the order consumers took them
    cleaner,     \* the cleanup task: [pc, todo, at]
    phase,       \* progress of stop_all
    lulls        \* number of Lull steps so far

vars == <<inline, queues, stateKey, buffer, idle, consumer, cancel, batch, status,
          target, accepted, started, cleaner, phase, lulls>>

ConsumerPC == {"absent", "created", "waiting", "lookup", "processing", "done"}
Status == {"new", "pending", "queued", "taken", "handled", "failed",
           "detached", "aborted", "cleared", "rejected"}
CancelState == {"none", "pending", "swallowed"}
CleanerPC == {"sleeping", "awaiting", "done"}
Phases == {"running", "senders", "cleanup", "draining", "stopped"}

TypeOK ==
    /\ inline \in BOOLEAN
    /\ queues \in [Keys -> States \cup {None}]
    /\ stateKey \in [States -> Keys \cup {None}]
    /\ buffer \in [States -> Seq(Messages)]
    /\ idle \in [States -> BOOLEAN]
    /\ consumer \in [States -> ConsumerPC]
    /\ cancel \in [States -> CancelState]
    /\ batch \in [States -> Seq(Messages)]
    /\ status \in [Messages -> Status]
    /\ target \in [Messages -> States \cup {None}]
    /\ accepted \in [Keys -> Seq(Messages)]
    /\ started \in [Keys -> Seq(Messages)]
    /\ cleaner \in [pc: CleanerPC, todo: SUBSET Keys, at: States \cup {None}]
    /\ phase \in Phases
    /\ lulls \in 0..MaxLulls

Init ==
    /\ inline \in BOOLEAN
    /\ queues = [k \in Keys |-> None]
    /\ stateKey = [s \in States |-> None]
    /\ buffer = [s \in States |-> <<>>]
    /\ idle = [s \in States |-> FALSE]
    /\ consumer = [s \in States |-> "absent"]
    /\ cancel = [s \in States |-> "none"]
    /\ batch = [s \in States |-> <<>>]
    /\ status = [m \in Messages |-> "new"]
    /\ target = [m \in Messages |-> None]
    /\ accepted = [k \in Keys |-> <<>>]
    /\ started = [k \in Keys |-> <<>>]
    /\ cleaner = [pc |-> "sleeping", todo |-> {}, at |-> None]
    /\ phase = "running"
    /\ lulls = 0

-----------------------------------------------------------------------------
(* Senders: ChannelManager.enqueue and UnifiedQueueManager.enqueue.        *)

Registered(s) == \E k \in Keys : queues[k] = s

Alive(s) == consumer[s] \notin {"absent", "done"}

WasCancelled(s) == cancel[s] # "none"

Full(s) == Len(buffer[s]) >= Capacity

\* Payloads of a set move to a new status; the others keep theirs.
Mark(set, st) == [m \in Messages |-> IF m \in set THEN st ELSE status[m]]

\* Mutant of Resolve: the lookup in _queues is forgotten.
ResolveAlwaysCreates(k, s) ==
    /\ consumer[s] = "absent"
    /\ queues' = [queues EXCEPT ![k] = s]
    /\ stateKey' = [stateKey EXCEPT ![s] = k]
    /\ consumer' = [consumer EXCEPT ![s] = "created"]

\* _get_or_create_queue: the registered QueueState of k, or a new one whose
\* consumer task has been created but has not run.
Resolve(k, s) ==
    \/ /\ queues[k] = s
       /\ s # None
       /\ UNCHANGED <<queues, stateKey, consumer>>
    \/ /\ queues[k] = None
       /\ consumer[s] = "absent"
       /\ queues' = [queues EXCEPT ![k] = s]
       /\ stateKey' = [stateKey EXCEPT ![s] = k]
       /\ consumer' = [consumer EXCEPT ![s] = "created"]

Put(m, s) ==
    /\ buffer' = [buffer EXCEPT ![s] = Append(@, m)]
    /\ status' = [status EXCEPT ![m] = "queued"]
    /\ accepted' = [accepted EXCEPT ![KeyOf[m]] = Append(@, m)]

\* The enqueue call of m up to its first suspension.  The put completes at
\* once when wait_for awaits it in line and the queue has room; otherwise the
\* call is left waiting in put with the QueueState it resolved.
EnqueueTo(m, s) ==
    /\ status[m] = "new"
    /\ phase # "stopped"
    /\ Resolve(KeyOf[m], s)
    /\ idle' = [idle EXCEPT ![s] = FALSE]
    /\ target' = [target EXCEPT ![m] = s]
    /\ \/ /\ inline
          /\ ~Full(s)
          /\ Put(m, s)
       \/ /\ ~inline \/ Full(s)
          /\ status' = [status EXCEPT ![m] = "pending"]
          /\ UNCHANGED <<buffer, accepted>>
    /\ UNCHANGED <<inline, cancel, batch, started, cleaner, phase, lulls>>

Enqueue(m) == \E s \in States : EnqueueTo(m, s)

\* A waiting put finds room, in the QueueState resolved earlier, whether or
\* not that QueueState is still registered.
PutResumes(m) ==
    /\ status[m] = "pending"
    /\ ~Full(target[m])
    /\ Put(m, target[m])
    /\ UNCHANGED <<inline, queues, stateKey, idle, consumer, cancel, batch,
                   target, started, cleaner, phase, lulls>>

\* Mutant of PutTimesOut: put is awaited without a time limit.
PutNeverTimesOut(m) == FALSE

\* The 30 second limit of either wait_for: the payload is dropped.
PutTimesOut(m) ==
    /\ status[m] = "pending"
    /\ status' = [status EXCEPT ![m] = "rejected"]
    /\ UNCHANGED <<inline, queues, stateKey, buffer, idle, consumer, cancel,
                   batch, target, accepted, started, cleaner, phase, lulls>>

\* clear_queue, which the /stop command calls.
ClearQueue(k) == LET s == queues[k] IN
    /\ s # None
    /\ buffer[s] # <<>>
    /\ status' = Mark(ToSet(buffer[s]), "cleared")
    /\ buffer' = [buffer EXCEPT ![s] = <<>>]
    /\ UNCHANGED <<inline, queues, stateKey, idle, consumer, cancel, batch,
                   target, accepted, started, cleaner, phase, lulls>>

-----------------------------------------------------------------------------
(* Consumers: _run_consumer around ChannelManager._consume_queue.          *)

\* The new task runs up to queue.get() on an empty queue.
ConsumerStarts(s) ==
    /\ consumer[s] = "created"
    /\ cancel[s] # "pending"
    /\ buffer[s] = <<>>
    /\ consumer' = [consumer EXCEPT ![s] = "waiting"]
    /\ UNCHANGED <<inline, queues, stateKey, buffer, idle, cancel, batch,
                   status, target, accepted, started, cleaner, phase, lulls>>

\* queue.get() returns the first payload.  get_channel, next, waits while
\* replace_channel holds ChannelManager._lock.  Channels are replaced in place
\* and never removed, so "channel not found" does not come up here.
Take(s) == LET m == Head(buffer[s]) IN
    /\ consumer[s] \in {"created", "waiting"}
    /\ cancel[s] # "pending"
    /\ buffer[s] # <<>>
    /\ batch' = [batch EXCEPT ![s] = <<m>>]
    /\ buffer' = [buffer EXCEPT ![s] = Tail(@)]
    /\ status' = [status EXCEPT ![m] = "taken"]
    /\ started' = [started EXCEPT ![stateKey[s]] = Append(@, m)]
    /\ consumer' = [consumer EXCEPT ![s] = "lookup"]
    /\ UNCHANGED <<inline, queues, stateKey, idle, cancel, target, accepted,
                   cleaner, phase, lulls>>

\* Mutants of Drain: the drained payloads are appended as one list; they go
\* ahead of the first one; they are copied and stay in the queue.
DrainedBatch(s, newBatch, rest, order) ==
    /\ consumer[s] = "lookup"
    /\ cancel[s] # "pending"
    /\ batch' = [batch EXCEPT ![s] = newBatch]
    /\ buffer' = [buffer EXCEPT ![s] = rest]
    /\ status' = Mark(ToSet(buffer[s]), "taken")
    /\ started' = [started EXCEPT ![stateKey[s]] = order]
    /\ consumer' = [consumer EXCEPT ![s] = "processing"]
    /\ UNCHANGED <<inline, queues, stateKey, idle, cancel, target, accepted,
                   cleaner, phase, lulls>>

DrainAppendsList(s) ==
    DrainedBatch(s, Append(batch[s], buffer[s]), <<>>,
                 started[stateKey[s]] \o buffer[s])

DrainAhead(s) ==
    DrainedBatch(s, buffer[s] \o batch[s], <<>>,
                 buffer[s] \o started[stateKey[s]])

DrainCopies(s) ==
    DrainedBatch(s, batch[s] \o buffer[s], buffer[s],
                 started[stateKey[s]] \o buffer[s])

\* With the channel in hand, get_nowait drains the queue into the batch and
\* _process_batch starts on all of it.
Drain(s) ==
    /\ consumer[s] = "lookup"
    /\ cancel[s] # "pending"
    /\ batch' = [batch EXCEPT ![s] = @ \o buffer[s]]
    /\ buffer' = [buffer EXCEPT ![s] = <<>>]
    /\ status' = Mark(ToSet(buffer[s]), "taken")
    /\ started' = [started EXCEPT ![stateKey[s]] = @ \o buffer[s]]
    /\ consumer' = [consumer EXCEPT ![s] = "processing"]
    /\ UNCHANGED <<inline, queues, stateKey, idle, cancel, target, accepted,
                   cleaner, phase, lulls>>

\* The consumer's batch ends with status st and the loop returns to get().
EndBatch(s, st) ==
    /\ consumer[s] = "processing"
    /\ cancel[s] # "pending"
    /\ status' = Mark(ToSet(batch[s]), st)
    /\ batch' = [batch EXCEPT ![s] = <<>>]
    /\ consumer' = [consumer EXCEPT ![s] = "waiting"]
    /\ UNCHANGED <<inline, queues, stateKey, buffer, cancel, target, accepted,
                   started, cleaner, phase, lulls>>

\* Success: increment_processed refreshes last_activity of whatever QueueState
\* the key is registered to now.
FinishBatch(s) ==
    /\ EndBatch(s, "handled")
    /\ idle' = [t \in States |-> idle[t] /\ t # queues[stateKey[s]]]

\* Mutant of FailBatch: the exception escapes the loop of _consume_queue.
FailBatchEndsConsumer(s) ==
    /\ consumer[s] = "processing"
    /\ cancel[s] # "pending"
    /\ queues' = [queues EXCEPT ![stateKey[s]] = None]
    /\ status' = Mark(ToSet(batch[s]), "failed")
    /\ batch' = [batch EXCEPT ![s] = <<>>]
    /\ consumer' = [consumer EXCEPT ![s] = "done"]
    /\ UNCHANGED <<inline, stateKey, buffer, idle, cancel, target, accepted,
                   started, cleaner, phase, lulls>>

\* An exception is logged; the batch is gone and last_activity stays.
FailBatch(s) ==
    /\ EndBatch(s, "failed")
    /\ UNCHANGED idle

\* CancelledError reaches the consumer: _consume_queue breaks out of its loop
\* and the finally clause of _run_consumer pops the key, whichever QueueState
\* the key is registered to.
ConsumerExits(s) ==
    /\ cancel[s] = "pending"
    /\ consumer[s] \in {"waiting", "lookup", "processing"}
    /\ queues' = [queues EXCEPT ![stateKey[s]] = None]
    /\ status' = Mark(ToSet(batch[s]), "aborted")
    /\ batch' = [batch EXCEPT ![s] = <<>>]
    /\ consumer' = [consumer EXCEPT ![s] = "done"]
    /\ UNCHANGED <<inline, stateKey, buffer, idle, cancel, target, accepted,
                   started, cleaner, phase, lulls>>

\* A batch that waits for an agent run in TaskTracker.stream_from_queue does
\* not pass the cancellation on: the generator breaks, the batch returns as if
\* it had finished while the run goes on, and the consumer loop continues.
BatchSwallowsCancel(s) ==
    /\ cancel[s] = "pending"
    /\ consumer[s] = "processing"
    /\ cancel' = [cancel EXCEPT ![s] = "swallowed"]
    /\ idle' = [t \in States |-> idle[t] /\ t # queues[stateKey[s]]]
    /\ status' = Mark(ToSet(batch[s]), "detached")
    /\ batch' = [batch EXCEPT ![s] = <<>>]
    /\ consumer' = [consumer EXCEPT ![s] = "waiting"]
    /\ UNCHANGED <<inline, queues, stateKey, buffer, target, accepted, started,
                   cleaner, phase, lulls>>

\* A task cancelled before its first step never enters the coroutine: no
\* finally clause runs.
ConsumerNeverRuns(s) ==
    /\ cancel[s] = "pending"
    /\ consumer[s] = "created"
    /\ consumer' = [consumer EXCEPT ![s] = "done"]
    /\ UNCHANGED <<inline, queues, stateKey, buffer, idle, cancel, batch,
                   status, target, accepted, started, cleaner, phase, lulls>>

-----------------------------------------------------------------------------
(* Time, the cleanup task (_cleanup_idle_queues) and stop_all.             *)

\* A registered queue passes idle_timeout (600 s) with no enqueue and no
\* finished batch.  No put waits that long, stop_all takes seconds and a task
\* that only has to be scheduled has run; a batch may well take longer.
Lull(s) ==
    /\ lulls < MaxLulls
    /\ phase = "running"
    /\ Registered(s)
    /\ ~idle[s]
    /\ \/ consumer[s] = "waiting" /\ buffer[s] = <<>>
       \/ consumer[s] = "processing"
    /\ \A m \in Messages : status[m] = "pending" => target[m] # s
    /\ \A t \in States :
         cancel[t] = "pending" => consumer[t] \in {"processing", "done"}
    /\ idle' = [idle EXCEPT ![s] = TRUE]
    /\ lulls' = lulls + 1
    /\ UNCHANGED <<inline, queues, stateKey, buffer, consumer, cancel, batch,
                   status, target, accepted, started, cleaner, phase>>

\* Mutant of PopAndCancel: the key is left in _queues until its consumer ends.
CancelOnly(k, todo) ==
    /\ cancel' = [cancel EXCEPT ![queues[k]] = "pending"]
    /\ cleaner' = [pc |-> "awaiting", todo |-> todo, at |-> queues[k]]
    /\ UNCHANGED queues

\* Pop k, cancel its consumer and await it; todo keeps the keys after k.
PopAndCancel(k, todo) ==
    /\ queues' = [queues EXCEPT ![k] = None]
    /\ cancel' = [cancel EXCEPT ![queues[k]] = "pending"]
    /\ cleaner' = [pc |-> "awaiting", todo |-> todo, at |-> queues[k]]

IdleKeys == {k \in Keys : /\ queues[k] # None
                          /\ buffer[queues[k]] = <<>>
                          /\ idle[queues[k]]}

\* One round of the loop up to the first await: the scan and the pop of the
\* first idle key happen in one step.  The order of to_cleanup is left open.
CleanupScan ==
    /\ cleaner.pc = "sleeping"
    /\ \E k \in IdleKeys : PopAndCancel(k, IdleKeys \ {k})
    /\ UNCHANGED <<inline, stateKey, buffer, idle, consumer, batch, status,
                   target, accepted, started, phase, lulls>>

\* The awaited consumer has ended.  The next collected key that is still
\* registered is popped without looking at its queue again.
CleanupNext ==
    /\ cleaner.pc = "awaiting"
    /\ consumer[cleaner.at] = "done"
    /\ \E k \in cleaner.todo :
        /\ queues[k] # None
        /\ PopAndCancel(k, cleaner.todo \ {k})
    /\ UNCHANGED <<inline, stateKey, buffer, idle, consumer, batch, status,
                   target, accepted, started, phase, lulls>>

\* No collected key is left: back to sleep, or out of the loop once stop_all
\* has cleared _running (a cancellation received during the await is swallowed).
CleanupRoundEnds ==
    /\ cleaner.pc = "awaiting"
    /\ consumer[cleaner.at] = "done"
    /\ \A k \in cleaner.todo : queues[k] = None
    /\ cleaner' = [pc   |-> IF phase \in {"running", "senders"} THEN "sleeping"
                                                                ELSE "done",
                   todo |-> {}, at |-> None]
    /\ UNCHANGED <<inline, queues, stateKey, buffer, idle, consumer, cancel,
                   batch, status, target, accepted, started, phase, lulls>>

\* ChannelManager.stop_all cancels the enqueue calls that are waiting ...
StopSenders ==
    /\ phase = "running"
    /\ phase' = "senders"
    /\ status' = Mark({m \in Messages : status[m] = "pending"}, "rejected")
    /\ UNCHANGED <<inline, queues, stateKey, buffer, idle, consumer, cancel,
                   batch, target, accepted, started, cleaner, lulls>>

\* ... then UnifiedQueueManager.stop_all clears _running and cancels the
\* cleanup task, which ends at once if it sleeps; if it awaits a consumer, the
\* cancellation goes to that consumer instead ...
StopCleanup ==
    /\ phase = "senders"
    /\ phase' = "cleanup"
    /\ \/ /\ cleaner.pc = "sleeping"
          /\ cleaner' = [cleaner EXCEPT !.pc = "done"]
          /\ UNCHANGED cancel
       \/ /\ cleaner.pc = "awaiting"
          /\ cancel' = [cancel EXCEPT ![cleaner.at] = "pending"]
          /\ UNCHANGED cleaner
    /\ UNCHANGED <<inline, queues, stateKey, buffer, idle, consumer, batch,
                   status, target, accepted, started, lulls>>

\* ... waits for it, then cancels the consumers registered at this moment ...
StopConsumers ==
    /\ phase = "cleanup"
    /\ cleaner.pc = "done"
    /\ phase' = "draining"
    /\ cancel' = [s \in States |-> IF Registered(s) THEN "pending" ELSE cancel[s]]
    /\ UNCHANGED <<inline, queues, stateKey, buffer, idle, consumer, batch,
                   status, target, accepted, started, cleaner, lulls>>

\* Mutant of StopClears: the wait for the consumers has no 5 s limit.
StopClearsWhenAllEnded ==
    /\ phase = "draining"
    /\ \A s \in States : ~Alive(s)
    /\ phase' = "stopped"
    /\ queues' = [k \in Keys |-> None]
    /\ UNCHANGED <<inline, stateKey, buffer, idle, consumer, cancel, batch,
                   status, target, accepted, started, cleaner, lulls>>

\* ... and, when they have ended or after 5 s, clears the dict.  The manager
\* then drops its reference, and later payloads are refused.
StopClears ==
    /\ phase = "draining"
    /\ phase' = "stopped"
    /\ queues' = [k \in Keys |-> None]
    /\ UNCHANGED <<inline, stateKey, buffer, idle, consumer, cancel, batch,
                   status, target, accepted, started, cleaner, lulls>>

-----------------------------------------------------------------------------

Sender(m) == Enqueue(m) \/ PutResumes(m) \/ PutTimesOut(m)

Consumer(s) ==
    \/ ConsumerStarts(s)
    \/ Take(s)
    \/ Drain(s)
    \/ FinishBatch(s)
    \/ FailBatch(s)
    \/ ConsumerExits(s)
    \/ BatchSwallowsCancel(s)
    \/ ConsumerNeverRuns(s)

Cleaner == CleanupScan \/ CleanupNext \/ CleanupRoundEnds

Stop == StopSenders \/ StopCleanup \/ StopConsumers \/ StopClears

Next ==
    \/ \E m \in Messages : Sender(m)
    \/ \E k \in Keys : ClearQueue(k)
    \/ \E s \in States : Consumer(s) \/ Lull(s)
    \/ Cleaner
    \/ Stop

Spec == Init /\ [][Next]_vars

\* The event loop runs every ready task, timers fire, every batch ends (the
\* agent run it waits for ends) and a stop that was begun is carried through.
\* Nothing forces a payload to arrive, a queue to be cleared or left idle, or
\* the manager to be stopped.
Fairness ==
    /\ \A m \in Messages : WF_vars(PutResumes(m) \/ PutTimesOut(m))
    /\ \A s \in States : WF_vars(Consumer(s))
    /\ WF_vars(Cleaner)
    /\ WF_vars(StopCleanup \/ StopConsumers \/ StopClears)

FairSpec == Spec /\ Fairness

-----------------------------------------------------------------------------
(* Properties                                                              *)

\* Enqueue never resolves to a queue nobody will serve: outside the last part
\* of stop_all, the QueueState registered under a key was made for that key
\* and its consumer is alive and has not been told to stop.
RegisteredIsServed ==
    \A k \in Keys : queues[k] # None =>
        /\ stateKey[queues[k]] = k
        /\ Alive(queues[k]) \/ phase = "draining"
        /\ WasCancelled(queues[k]) => phase = "draining"

NeverCancelled(k) == \A s \in States : stateKey[s] = k => ~WasCancelled(s)

AliveFor(k) == {s \in States : stateKey[s] = k /\ Alive(s)}

\* What is left of "strict serialization for messages with the same QueueKey":
\* a key can have two consumers only after one of its consumers was cancelled,
\* that is after the idle cleanup or stop_all reached it.
SerialUnlessCancelled ==
    \A k \in Keys : NeverCancelled(k) => \A s, t \in AliveFor(k) : s = t

\* The inductive form of the two properties above, in three parts.  A
\* QueueState has a key exactly when its task exists, only cancelled consumers
\* end, and the cleanup task waits only for a consumer it cancelled;
LifecycleInv ==
    /\ \A s \in States : stateKey[s] = None <=> consumer[s] = "absent"
    /\ \A s \in States : consumer[s] = "absent" => ~WasCancelled(s)
    /\ \A s \in States : consumer[s] = "done" => WasCancelled(s)
    /\ cleaner.pc = "awaiting" => cleaner.at # None /\ WasCancelled(cleaner.at)

\* what is registered under a key was made for it and is not cancelled, until
\* stop_all cancels what is registered;
RegistrationInv ==
    \A k \in Keys : queues[k] # None =>
        /\ stateKey[queues[k]] = k
        /\ WasCancelled(queues[k]) => phase = "draining"

\* the consumers of a key none of whose consumers was cancelled are the
\* registered one, until stop_all clears the dict.
OnlyRegisteredAlive(k) ==
    /\ \A s, t \in AliveFor(k) : s = t
    /\ phase # "stopped" => \A s \in AliveFor(k) : queues[k] = s

SerialInv ==
    /\ LifecycleInv
    /\ RegistrationInv
    /\ \A k \in Keys : NeverCancelled(k) => OnlyRegisteredAlive(k)

\* Every payload is where its status says, exactly once: in the queue or in
\* the batch of the QueueState its enqueue call resolved to, and nowhere else.
EachPayloadInOnePlace ==
    \A m \in Messages : \A s \in States :
        /\ Cardinality({i \in DOMAIN buffer[s] : buffer[s][i] = m})
             = IF status[m] = "queued" /\ target[m] = s THEN 1 ELSE 0
        /\ Cardinality({i \in DOMAIN batch[s] : batch[s][i] = m})
             = IF status[m] = "taken" /\ target[m] = s THEN 1 ELSE 0

\* The elements of part are elements of whole, in the order they have there, and
\* whole has each of them once.
InOrder(part, whole) ==
    /\ \A i \in DOMAIN part : \E a \in DOMAIN whole : whole[a] = part[i]
    /\ \A i, j \in DOMAIN part : \A a, b \in DOMAIN whole :
         whole[a] = part[i] /\ whole[b] = part[j] => (i < j <=> a < b)

\* As long as no consumer of a key was cancelled, its payloads are taken in the
\* order their puts completed, leaving out only the ones not taken yet and the
\* ones /stop cleared, and none twice.
InOrderUnlessCancelled ==
    \A k \in Keys : NeverCancelled(k) => InOrder(started[k], accepted[k])

\* "Strict serialization for messages with the same QueueKey" (module
\* docstring): two consumers never process payloads of one key at once, not
\* counting a consumer that a cancellation is about to reach.
StrictSerialization ==
    \A s, t \in States :
        /\ s # t
        /\ stateKey[s] = stateKey[t]
        /\ consumer[s] = "processing"
        /\ consumer[t] = "processing"
        => cancel[s] = "pending" \/ cancel[t] = "pending"

\* "removes queues that have been empty and idle for longer than idle_timeout"
\* (_cleanup_idle_queues): a queue the cleanup task pops is empty and idle.
CleanupRemovesOnlyIdle ==
    [][\A k \in Keys :
         queues[k] # None /\ cleaner'.at = queues[k] /\ cleaner.at # queues[k]
            => buffer[queues[k]] = <<>> /\ idle[queues[k]]]_vars

\* A payload that reached a queue is taken or cleared, unless the consumer of
\* that queue is cancelled: the consumer loop survives failed batches.
QueuedIsTaken ==
    \A m \in Messages :
        status[m] = "queued"
            ~> (status[m] # "queued" \/ WasCancelled(target[m]))

\* Every enqueue call returns: nobody waits on a full queue for ever.
EnqueueReturns ==
    \A m \in Messages : status[m] = "pending" ~> status[m] # "pending"

\* stop_all, once begun, comes to its end unless the cleanup task is waiting
\* for a consumer: nothing else can hold it up.
StopCompletes ==
    phase = "senders" ~> (phase = "stopped" \/ cleaner.pc = "awaiting")

\* "Stop all consumers and cleanup task gracefully" (stop_all): it returns.
StopReturns == phase = "senders" ~> phase = "stopped"

=============================================================================
