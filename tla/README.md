# HiveCraft: formal model of the concurrent core

HiveCraft is a platform for agents: **QwenPaw** (Python, asyncio) runs them,
**AgentHub** (Java, and a Python recommender) is their market, **QaSystem** is a
retrieval pipeline. This directory holds TLA+ modules for the part of QwenPaw
that decides *which message is processed when, by whom, on which instance of an
agent, whether a tool may run, and what becomes of it*; configurations that TLC
checks; and proofs that TLAPS checks.

Paths below are relative to `src/QwenPaw/src/qwenpaw/` unless they start with
another project's name.

## 1. Inventory

### The path of a message

    chat platform -> BaseChannel -> ChannelManager.enqueue
                         (app/channels/base.py, manager.py)
        -> UnifiedQueueManager: one queue and one consumer task per
           (channel, session, priority)      (unified_queue_manager.py)
        -> ChannelManager._consume_queue -> channel.consume_one
        -> TaskTracker.attach_or_start: one run per chat, events broadcast to
           subscribers                       (app/task_tracker.py)
        -> Runtime -> agent -> tool guard / driver gate
        -> ApprovalService: the agent waits for a user's decision
                                             (app/approvals/service.py)
        -> ToolCoordinator: the tool runs under deadlines, in the turn or in
           the background                    (tool_calls/_coordinator.py)
    MultiAgentManager: which workspace (agent, trackers, services) all of this
           runs on; starts, reloads and stops it  (app/multi_agent_manager.py)
    web console -> the same TaskTracker (start, reconnect, stop)
    /stop -> UnifiedQueueManager.clear_queue and TaskTracker.request_stop
    /approve, /deny, HTTP endpoints -> ApprovalService.resolve_request

All of it runs on one event loop. A task can only be overtaken where it really
suspends. The locks of UnifiedQueueManager, TaskTracker, ApprovalService and
ToolCoordinator never contain an `await`, so they never make a task wait:
atomicity is broken by `await`s outside the locks, by cancellation, and by the
wakeups of `asyncio.wait_for`. The lock of MultiAgentManager is different:
`stop_agent` awaits the end of a workspace with it held.

### Components

| component | state | operations | hard behaviour | what makes it correct |
|---|---|---|---|---|
| UnifiedQueueManager | `_queues`: key to QueueState (queue, consumer task, last_activity); cleanup task | enqueue, consumer wrapper, clear_queue, idle cleanup, stop_all, increment_processed | cleanup races puts and consumers; cancellation that is swallowed; waits without limit | one consumer per key, no payload lost, repeated or reordered, every queue served, stop and cleanup end |
| ChannelManager | channels, enqueue tasks, the queue manager | enqueue with a time limit, drain and batch, replace_channel, stop_all | suspended between get and drain; stop in phases | a batch never overtakes or copies payloads; a failure does not end the consumer |
| Channel base pipeline | debounce buffers and timers | debounce, consume, run | a flush task outside the consumer | as UnifiedQueueManager, per chat |
| TaskTracker | `_runs`: chat to run (task, buffer, subscriber queues) | attach, attach_or_start, detach, request_stop, producer, stream_from_queue | reconnect in the middle, stop at any await, an ending run and a starting one | one run per chat, every subscriber sees every event once, readers released |
| ApprovalService | `_pending`: id to record (status, Future) | create, resolve, wait, supersede, cancel by root session, garbage collection | six ways to remove a record race a timer and a user | no tool runs unapproved, nobody waits on a record that is gone |
| MultiAgentManager | agents, pending starts, config generations, cleanup tasks; of each workspace its services | lazy start, reload, delayed cleanup, stop, stop_all | an instance is built outside the lock and swapped in while others start, stop, reload or write the configuration; services pass from instance to instance; cancellation at any await | one start at a time, no instance leaked, no old configuration installed or left serving, no run or borrowed service stopped by a reload |
| ToolCoordinator | `_entries`: id to call (status, deadlines, signals, task of the tool, supervisor), pending hints | execute, offload, supervise, extend, cancel, force, finalize, policy, shutdown | deadlines race completion, cancellation and their own extension; the hand-over from turn to supervisor; tools that ignore cancellation | one owner per call, bounded background work, one answer per call and not before its end, every timed or cancelled call ends |
| CronManager | jobs, semaphores, states, history | add, update, delete, run | update or delete while executing | the concurrency limit, no state for a deleted job |
| AgentHub data service | likes, favourites, counters in a database | like, unlike, folders | check, insert and count in separate statements | the counter equals the rows |

Also present and left out: runtime, the other services of a workspace, chats, slash
commands, governance, drivers, mail, MCP configuration, checkpoints, loop gates
and modes, token usage, hub, backup, plugins, providers, sandbox, harnesses,
local models, browser, security helpers, command line, configuration, agents,
web interfaces, the AgentHub recommender, QaSystem. `PROJECT.json` gives the
reason for each: mostly pure I/O, text, or sequential CRUD.

`PROJECT.json` lists the hazards, each at its line with the properties aimed at
it; the ones nothing covers yet say why.

## 2. Plan

The plan followed the path of a message: `UnifiedQueue`, `TaskTracker`,
`ApprovalService`, then `AgentManager`, the instance it runs on, and
`ToolCoordinator`, the tools it calls. Two abstract specifications say what the
rest of the system relies on: `EventStream`, which `TaskTracker` implements, and
`ToolCall`, which `ToolCoordinator` implements. Each component has an MC module
and a module of proofs; all are done.

What a continuation would take next, and why it is not here:

- `CronManager` (app/crons/manager.py): semaphores per job, updates and
  deletions that race executions. Its two hazards are listed without a property.
- The debounce of `BaseChannel`, composed with a queue consumer and the
  tracker, to settle when "Message ignored (task already running) ... should not
  happen" (app/channels/base.py:592) does happen.
- An abstract mailbox per key (accept, take in order, drop) that
  `UnifiedQueue` implements as long as no consumer is cancelled. What it would
  say is stated now by `EachPayloadInOnePlace`, `InOrderUnlessCancelled` and
  `SerialUnlessCancelled`.
- The like and favourite counters of AgentHub: whether a check and an insert can
  interleave is up to the isolation of a database outside the repository.

## 3. Modules

An action is the code one task runs between two suspension points. Histories
(`accepted`, `started`, `seen`, `verdict`) record what happened, and no guard
reads them.
Operators whose comment says "Mutant of X" are wrong versions of X; they take
part in no specification and show what the properties would catch.

### UnifiedQueue

`queues` is `_queues`. A QueueState and the task that consumes it are made
together in `_get_or_create_queue`, so one element of `States` names both;
`stateKey`, `buffer`, `idle`, `consumer` and `cancel` are the fields of the pair.
`consumer[s]` is the program counter of `_run_consumer` around `_consume_queue`:

    absent -> created -> waiting -> lookup -> processing -> waiting ...
                 |          |          |          |
                 v          v          v          v       (cancelled)
                done       done       done       done

- `EnqueueTo` is the part of `enqueue` up to its first suspension. On
  Python 3.12 and later `wait_for` awaits `put` in the caller, so a put into a
  queue with room completes at once; on 3.11 it runs in a task of its own and the
  caller always suspends. pyproject allows both: the variable `inline` is either
  at the start and never changes.
- `PutResumes` puts into the QueueState resolved earlier, registered or not.
- `Take` and `Drain` are separate because `get_channel` may wait for
  `ChannelManager._lock` between them. `enqueue` refuses payloads for unknown
  channels and `replace_channel` replaces in place, so the branch "channel not
  found after retries" is not reached and is left out.
- `ConsumerExits` pops the key in the finally clause, whichever QueueState it
  is registered to. `ConsumerNeverRuns` is asyncio's rule that a task cancelled
  before its first step never enters its coroutine. `BatchSwallowsCancel` is a
  batch that waits in `TaskTracker.stream_from_queue`, which turns
  `CancelledError` into the end of the stream.
- `CleanupScan`, `CleanupNext`, `CleanupRoundEnds` split the cleanup loop at its
  only awaits: the consumers it cancelled.
- `StopSenders`, `StopCleanup`, `StopConsumers`, `StopClears` are the phases of
  the two `stop_all`s, `StopClears` standing for both the end of the consumers
  and the 5 s limit.

Time is abstract. `Lull` says a registered queue passed `idle_timeout` (600 s);
its guard excludes what cannot last that long (a put limited to 30 s, a task
that only needs to be scheduled). `MaxLulls` bounds these steps. Payloads are
distinct names; the content of messages and merging are left out.

### TaskTracker

`runs` is `_runs`; `task` is the program counter of `_producer`, where `done`
and `aborted` are both `task.done()` and `aborted` records that the finally
clause was cut short; `interrupt` is a cancellation not yet delivered.
"unwinding" is an agent's stream that was cancelled and still yields the events of
its cancel envelope (runtime/runtime.py:144-167) before it raises; a stream that
is cancelled while nothing is left to yield goes straight to "finishing". `queues`
and `buffer` are the fields of `_RunState`; a subscriber names a queue handed
out together with whoever reads it. Events are numbers in the order the stream
yields them, since the properties only tell order and identity. `MaxEvents`
bounds them. `StartRefused` covers the two ways the callers handle a run in
progress: the API answers 409 and detaches, a channel ignores the message and
leaves the queue attached. The tracker is held through a weak reference by the
producer; the model assumes that the workspace keeps it alive.

`EventStream` says what the callers rely on, with no tasks, queues or buffers: a
chat has one open run at a time, the events of a run are counted as they are
made, a subscriber follows one run, is given its events one after the other, and
hears that the run is over when it is and all were given. `Stream == INSTANCE
EventStream WITH current <- ..., got <- ...` reads these off the tracker: the
open run of a chat is the registered one whose task is not done (`Active`), what
was made is the length of the buffer, what was given are the events the reader
took (`EventCount`). It counts events; that the n-th is the right one is
`EveryEventOnce`.

### ApprovalService

`pending` is the key set of `_pending`; `status`, `future`, `created` are fields
of the record, which outlives its removal because the waiting task holds it.
`Ask` is `_ask_user_approval` up to the await: supersede, create, collect, look
up. `Create` puts the record last into the dict (`place`) and dates it with the
wall clock (`created`), which may read anything in `Times` at any time, so that it
may be set back. Both are reset when a record has left the dict, since nothing
looks at them again. The collector evicts the records older than `MaxAge`
(`Expired`), then those that a stable sort of the dict by creation time puts
beyond `MaxPending` (`Overflow`); the record it runs for is a record like any
other, and if it is evicted, the look-up raises and the caller takes the tool for
denied. That the newest record is spared is a theorem (`Listed`), for a clock
that is not set back. `Decide` is every caller of `resolve_request` on the
user's side. `wait_for` is again modelled for both families of Python versions
(`inline`): in line, the timer cancels the Future at once and wins over a
result that arrives before the task runs; on 3.11 the task first notices the
timer (`GiveUp`), lets the loop run once, and then times out. `CancelAll` may
follow a cancelled run or not, since the hook that calls it can be skipped by a
second cancellation.

### AgentManager

One agent; each caller is a task with a program counter: clients call
`get_agent` and may start a run on what they get, reloads write the
configuration, announce it and call `reload_agent`, stops call `stop_agent`. A
workspace is named by the task that creates it.

    client:  idle -> starting -> release -> got -> run -> done      (starter)
             idle -> waiting  -> got ...                            (others)
    reload:  idle -> saved -> called -> check -> attach -> load -> building
               building -> retire -> done     (swapped, no run to wait for)
               building -> done               (swapped; a delayed cleanup)
               load, building -> discard -> done

- The lock serves all agents and `stop_agent` keeps it across an await, so every
  acquisition may wait: what precedes it is one step, what follows is the next,
  and `lock` is the `stop_agent` call that holds it.
- `agents`, `pending`, `generation`, `cleanup` are the entries of the manager's
  dicts for the agent. `cleanup[i]` is the snapshot of runs a delayed cleanup
  waits for; `RunOverstays` is the end of its 24 hours.
- `written` is the version on disk. Writers save first and bump the generation
  later (`WriteConfig`, `ScheduleReload`): the gap is theirs, whether they are
  endpoints or the configuration watcher. `BackendOf` gives the memory backend
  each version selects, which decides whether a reload can take over its
  predecessor's service (`ReloadLoads`).
- `memory`, `offered`, `borrowed`, `transferable` follow the one reusable
  service from instance to instance; `Closes` is `ServiceManager._stop_service`
  with its `final` and `preserve_reused` cases.
- `StopWorkspace` ends in either of two ways: the workspace is "stopped", or a
  service failed to stop, `stop` raises after it has tried every service, and the
  workspace still counts as started ("broken"). A reload, a discard and a delayed
  cleanup log that and go on (`TryStop`); `stop_agent` leaves the workspace
  registered (`StopFails`); shutdown clears the dict regardless.
- `stop_all` has three steps: it cancels the delayed cleanups
  (`ShutdownBegins`), looks up what is registered when these have ended
  (`ShutdownStops`), and stops that (`ShutdownClears`).
- Cancellation is an action at each await where it makes a difference
  (`InstallCancelled`, `ReleaseCancelled`, `RetireCancelled`, `GiveUp`); what is
  then left running with nobody to stop it is "orphaned".
- `announced` and `missed` are histories: the version on disk at the last bump
  of the generation, and whether a reload of that generation gave up.

### ToolCoordinator and ToolCall

`turn`, `supervisor` and `tool` are the three tasks of a call:

    turn:        idle -> waiting -> fired -> waiting | offloaded | grace -> joining
                 waiting -> ready -> yielding -> waiting (a chunk, for the agent)
                 joining -> answered         waiting, fired, ... -> reaping
                 reaping -> gathering -> raised          (cancelled: a /stop)
    supervisor:  none -> waiting -> fired -> grace -> joining -> reporting -> over
    tool:        none -> running -> closing -> done      (or aborted)

- Both loops wait in `_await_next_event`. Its time-out and its return are two
  steps (`TurnTimesOut` to "fired", then what the deadlines say), because it
  gathers its helper tasks in between. `armed` says whether the wait has a
  time-out, which is settled when it begins (`Rearm`); a deadline set later
  counts once `changed` is noticed. A turn that finds a deadline due when it is
  about to wait, after a change or after a chunk, acts on it without suspending;
  `Reached` gathers these cases with "fired". The supervisor looks in a task of
  its own, so for it they are two steps (`Again`).
- A chunk that is ready counts before a cancellation, and a cancellation before a
  change or the time-out (`TurnCancelled`, `NoticesChange`, `TimesOut`).
  `ToolStreams` gives a chunk to a turn that waits ("ready"), and `TakesChunk` gives
  it to the agent. Chunks that come while the turn is busy count as yielded when it
  waits again, which nothing can tell from the code's order: what the turn does
  before that does not depend on them. A turn that has lost interest drops them.
- A shell command that needs a sandbox (`setup`) moves the deadlines it finds three
  minutes away while the sandbox is set up (`SetupBegins`) and writes them
  back (`Restore`) when the setup ends, and again if the command raises. It writes
  back what it found, whatever users, `_begin_offload` or the policy have made of
  the deadlines meanwhile, and whatever the status of the call.
- A deadline is "none", ahead or "due"; a kill deadline ahead is "ample" or
  "short" of the 30 s the code demands before it hands a call to the
  background (`CanOffload`, `TopUp`). `OffloadPasses` and `KillPasses` are time.
- `GraceEnds`, `GraceExpires` and `GraceAborted` are the ends of
  `_await_grace_or_force_cancel`: the tool stopped, did not, or was cancelled by
  somebody else while it closed its stream, in which case the shielded wait is
  cancelled with it.
- `TurnEnds` is a cancelled turn or a closed generator; `TurnEndsAgain` a second
  cancellation, after which nobody is in charge of the call ("lost").
- Interventions (`RequestOffload`, `Cancel`, `ForceCancel`, `ExtendOffload`,
  `ExtendKill`, `Reconfigure`) come from the API at any time; `MaxRequests`
  bounds them per call. `Shutdown` signals all calls and then deals with each.

`ToolCall` says what an agent may rely on, with neither tasks nor deadlines: a
call is in the foreground, or moves to the background for good; it is answered
once, or given up, and in either case its tool has ended; or it is abandoned.
`Contract == INSTANCE ToolCall WITH phase <- ..., ended <- ...` maps the program
counters to these phases (`Phase`), and `KeepsContract` is its specification.

## 4. What the runs check

| run | shows | bounds |
|---|---|---|
| queue_safe | types; registered queues are served, by one live consumer until one is cancelled; no payload lost or copied; order | 2 keys, 4 payloads, 3 QueueStates, capacity 1, 2 lulls |
| queue_live | queued payloads are taken, enqueues return, stop_all ends unless it meets a cleanup that waits | 1 key, 3 payloads, 2 QueueStates, 1 lull |
| tracker | one run per chat; every subscriber gets every event once; sentinel last, and sent to every reader; the stream of EventStream; readers released unless the finally clause was cut short | 1 chat, 2 runs, 2 subscribers, 2 events |
| agents | starts exclude each other; no workspace is left behind; reloads install and replace what they must, spare runs and borrowed services | 2 clients, 2 reloads, 1 write that switches the memory backend, shutdown |
| agents_live | waiting clients are released and replaced workspaces stopped, cleanly or not, with a `stop_agent` that holds the lock | 2 clients, 1 reload, 1 stop, no write, shutdown |
| tools | one owner per call; bounded background work; no deadline slept through; one answer, after the end; the contract of ToolCall; offloaded, timed and cancelled calls end | 1 call, with or without a sandbox, any initial policy, time-out and cap, 2 interventions, of which the setup of a sandbox counts as one |
| approval | the outcome of approvals; what agents are told is what became of their records; agents whose record is gone are answered without a timer | 3 requests, 2 of them of one tool call, 2 sessions under one root, a store of 1, a clock that reads 1 or 3, an age limit of 1 |

Why these bounds suffice for the interesting cases: the races need two
generations of a queue, and three QueueStates give two to one key and one to the
other, or three to one; three payloads of one key can be in the batch, in the
queue and waiting in put (capacity 1); two keys are needed for an await in the
middle of a cleanup round. Two runs let a late reader of one meet the next; two
subscribers are one that started and one that joined or was refused, or the
starters of both runs. Three requests with a limit of one make supersession and
eviction happen together; two readings of the clock further apart than the age
limit make records expire, tie, or be newer than what comes after them. Two
reloads are one that is overtaken and one that overtakes, or a draining
predecessor and a discarded candidate; two clients are a starter and a waiter,
or runs on the old and on the new workspace; a write by either reload can fall
into any gap of the other. Tool calls share nothing but the policy and shutdown,
so one call meets everything that can happen to it; two interventions are one
that prepares a race and one that decides it, and with a sandbox the setup is
the one that prepares it. In agents_live no configuration is written: its single
reload replaces the instance all the same. Symmetry is used in queue_safe
(QueueStates, the payloads of one key) and agents (clients, reloads), runs
without liveness, for values nothing tells apart.

Deadlock checking is off in every run: when all payloads, runs or requests of
the instance are used up, the system rests.

**Fairness.** `FairSpec` assumes weak fairness of the tasks the event loop
schedules: waiting puts with their timers, consumers, the cleanup task, the rest
of a stop that has begun, producers, readers, and answers to agents whose Future
or timer is done. A processing batch is assumed to end. So is an agent's stream,
however often it is cancelled while it yields its last events: this is strong
fairness of `StreamOver`, since each event it yields instead interrupts the
chance to end. For agents: starts, builds and stops of workspaces end, and so do
runs, or their 24 hours pass; for tool calls: time passes, an agent takes the
chunks it is given, a stream that is closing is closed, and a tool whose task
was cancelled ends. A tool need not end by itself, nor when its cancel event is
set, nor need it ever stop to yield chunks: `CancelledCallEnds` leaves out
exactly the calls that have no deadline and whose chunks keep their turn busy
(`Floods`). Nothing assumes that messages arrive, users decide, clients stay or
leave, `/stop` or shutdown are called, or that the approval timer (5 minutes)
fires.

### Where the code departs from what it says

Five runs are expected to end in a counterexample; each checks one sentence of
the code's documentation or answers.

| run | sentence | what happens |
|---|---|---|
| queue_serial | "Strict serialization for messages with the same QueueKey" | a cancelled idle consumer's finally clause runs late and pops the newer queue of its key; the next payload starts a third consumer, which processes beside the second |
| queue_cleanup | "removes queues that have been empty and idle" | a queue collected earlier in the round has received a payload meanwhile |
| queue_return | "Stop all consumers and cleanup task gracefully" | stop_all waits for the cleanup task, which waits for a consumer that swallowed its cancellation |
| tracker_done | "Cleanup when task completes" | a cancellation before the first step, or during on_finished, skips the cleanup |
| approval_told | "approved, executing..." | the approval sets the Future and is confirmed to the user; the timer goes off before the waiting task has run, and wins |

Each has consequences of the same cause that have no run of their own. The
consumer behind `queue_return` also ends the idle cleanup for good, since the
cleanup loop awaits it without a limit; a consumer no longer registered when
`stop_all` collects them is never told to stop; the readers of a run behind
`tracker_done` wait for a sentinel nobody sends.

Five more were met in the modules that followed; all but the third are written
into the properties as exceptions:

- A workspace started by a client that is cancelled before it registers it, or
  replaced by a reload that is cancelled while it stops it, or whose delayed
  cleanup `stop_all` cancels, is never stopped ("orphaned" in
  `NothingLeftBehind`). A starter cancelled in its finally clause leaves its
  waiters waiting ("wedged" in `WaitersReleased`).
- A second cancellation of a turn in its grace period, or a forced cancellation
  of a tool that is just closing its stream, leaves a call in `_entries` with
  nobody in charge (`Abandoned` in `OneOwner` and in the liveness properties).
- "The old workspace must retain it for any in-flight requests"
  (multi_agent_manager.py:664) holds for the workspace a reload replaces, but not
  for an earlier one that still drains: if it lent its service to its successor,
  and the next reload switches the memory backend, the successor is stopped and
  closes the service under the runs of the first.
- "Foreground Cancel must grace then force_cancel non-cooperative tools"
  (tests/unit/tool_calls/test_coordinator_completion.py:826) does not hold for a
  tool that goes on yielding chunks: `_await_next_event` returns a chunk (line 650)
  before it looks at the cancel event, and with no deadline nothing else interrupts
  the turn (`Floods` in `CancelledCallEnds`).
- "Background Cancel must not busy-continue" (the same file, line 870) does not hold
  for a command that is moved to the background while its sandbox is set up: the end
  of the setup writes the old offload deadline back (agents/tools/shell.py:999),
  whatever the status of the call. When it passes, `_await_next_event` returns
  "deadline_reached" at once and the supervisor goes round for it, cancelled or not,
  until the kill deadline. The call still ends, by that deadline
  (`OffloadedIsReported`, `CancelledCallEnds`).

The positive counterparts (`SerialUnlessCancelled`, `InOrderUnlessCancelled`,
`StopCompletes`, `ReadersReleased`, `ApprovedByUser`, `ReloadSparesRuns`,
`CancelledCallEnds`) state how much of each promise holds.

## 5. What is proved

For every value of the constants that satisfies `ConstantsAssumption` (payloads
have keys, the capacity and the store's limit are positive, the distinguished
values are distinct, approval requests and reloads are finite in number):

| module | theorem | argument |
|---|---|---|
| UnifiedQueueProofs | `TypeCorrect` | one step per action |
| | `SerialInvariant` | `SerialInv` is inductive given types, see below |
| | `Serialization`, `RegisteredServed` | corollaries of `SerialInv` |
| | `PlaceOfPayloads` | `PlacesInv` is inductive given types, see below |
| | `PayloadsMoveForward` | action property, from `PlacesInv`: what a step marks is what the queue or batch lists, and that has the status it leaves |
| | `TakenInOrder` | `HistoryInv` and `FlowInv`, see below |
| | `WaitersAreServed` | corollary of `SerialInv` and `HistoryInv` |
| TaskTrackerProofs | `TypeCorrect`, `OneRun` | `OneRunPerChat` is inductive by itself: a run is registered in the step that creates its task, and only the finally clause of a task that is still the registered one pops it |
| | `StreamsEndInOrder` | `StreamInv` and `ReadingInv`, see below |
| | `ReadersAreKept` | corollary of these two and `OneRunPerChat`: the safety half of `ReadersReleased` |
| | `EventsOnce` | `DeliveryInv`, see below |
| | `TrackerStreams` | refinement of `EventStream`, see below |
| ApprovalProofs | `TypeCorrect` | one step per action |
| | `ApprovalInvariant`, with corollaries `Approval`, `Release` | `ApprovalInv` is inductive |
| | `Outcome` | action property, from `ApprovalInv`: a record with a final status is not pending, and every writer tests that it is |
| | `Listed` | action property, for a clock that is not set back: the new record is dated no earlier than the others (`InOrder`) and put last, so everything else precedes it in the sort, and it is not expired |
| | `AnswersMatch` | inductive with `FuturesAreTrue`, from `ApprovalInv` and `InOrder`: what a Future says is the outcome of its record, or a time-out |
| | `RetriesSupersede` | `OneOpenPerCall` is inductive by itself |
| AgentManagerProofs | `TypeCorrect`, `StartIsExclusive`, `NothingIsLeftBehind`, `StaleGetsReplaced` | `SafetyInv` is inductive, see below |
| | `ReloadsAreCurrent`, `DiscardSparesService`, `RunsAreSpared` | action properties, from `SafetyInv` |
| ToolCoordinatorProofs | `TypeCorrect`, `EveryCallHasOneOwner`, `BackgroundCallsAreBounded` | `SafetyInv` is inductive, see below |
| | `CompletedCallsHaveEnded`, `AgentsAreToldOnce` | corollaries of `SafetyInv` |
| | `DeadlinesWake` | `WakeupInv`, see below |
| | `ContractIsKept` | refinement: the initial states map to those of `ToolCall`, and under `SafetyInv` every action maps to an action of `ToolCall` or a stutter |

`SerialUnlessCancelled` is not inductive: that two live consumers of a key are
the same needs that the live one is the registered one, which needs that nothing
but a cancelled consumer removes a registration, which needs that consumers end
only when cancelled and that the cleanup task waits only for one it cancelled.
`SerialInv` is that chain, in three parts (`LifecycleInv`, `RegistrationInv`,
`OnlyRegisteredAlive`). `ApprovalInv` adds to its three headline properties that
an "approved" Future and a recorded verdict go together, that a request not yet
asked has no record, and that a verdict is what the status says. The runs check
what follows from them.

`EachPayloadInOnePlace` speaks of the payloads; `PlacesInv` adds the converse, that
a queue or a batch lists only payloads whose status and target name it, each
once (`ListedInv`), that a consumer has a batch only between taking and ending
it (`BatchInv`), and that a payload still on its way has been given a queue
(`PendingInv`). Appending, taking the head and concatenating two lists preserve
"listed once" by lemmas of their own.

`InOrderUnlessCancelled` compares two histories, what was put and what was taken
of a key. It becomes inductive with the queue in between: `FlowInv` says that
what was taken, followed by what any QueueState of the key still holds, is in the
order of what was put. A put appends to both sides, which is sound because a
payload is put once (`HistoryInv`: whatever is recorded is no longer new or
pending) and because the key has one QueueState; taking the head and draining
move the bar between the two parts (`MoveHead`, `AppendConcat`); a clearing keeps
a prefix (`InOrderPrefix`). A waiting put is the dangerous case, since it resumes
on a QueueState it resolved long before: `SerialInv` is what makes that one the
only one of its key, until a consumer is cancelled.

`SentinelEndsStream` needs to know which queues a broadcast reaches: `StreamInv`
adds that a queue is attached to the run it joined and to no other, and that a
run nobody started has none. From there a sentinel cannot be followed by
anything, because the step that sends it also ends the task that could.
`ReadingInv` is the other direction, that a reader which still reads is attached
to its run, and that a run that is done has sent it a sentinel; it rests on
`detach_subscriber`, which looks up the wrong run when it comes late, touching
nobody else's queue.

`EveryEventOnce` numbers the events among what a subscriber took and what waits
for it. `DeliveryInv` adds who has all of them: whoever is attached, has a
sentinel waiting, or read one, so that the end of a reader, who finds nothing
after the sentinel (`EndedInv`), is the end of the buffer. Joining hands over the
buffer as it is (`CarriesReplay`), a broadcast appends to both sides
(`CarriesNext`) or, for a subscriber that was detached, to the buffer alone
(`CarriesLonger`), and marks and sentinels count for nothing (`CarriesMark`).

For `TrackerStreams`, the initial states map to initial states, and every action
of the tracker to one action of `EventStream` or to none: `StartRun` opens a
run, both ways of joining one in progress are `Join`, `Emit` and an exception in
the stream publish, the three ways a producer's task ends are `End`, and taking
an item or the sentinel are `Receive` and `Hear`. That the end of a task closes
the run of its own chat, and of no other, needs `OneRunPerChat` and
`RegisteredInv` (what is registered for a chat was started for it); that a
reader is never given more than was made, and hears of the end only after the
last event, needs `EveryEventOnce`.

`AgentManager`'s `SafetyInv` ties each program counter to what it may rely on:
what is registered has been built (`RegisteredIsBuilt`), a candidate's service is
its own or one it was offered (`OwnService`), a reload of the current generation
has read, or will read, a version no older than the announced one (`LoadedInv`),
what `stop_all` is stopping exists (`TargetKnown`), and a workspace that is still serving runs
from before its replacement waits in `cleanup` for them (`SparesInv`).
`ToolCoordinator`'s adds `StagesInv` to its headline properties: for each call,
which positions of turn, supervisor, tool and status go together. It is what
makes the refinement mapping total and keeps the phases in order. `WakeupInv`
adds to `NoLostWakeup` that a call has no deadline before it begins; the rest is
that `armed` is settled from the deadlines there are when a wait begins, and that
whatever the API does to one afterwards leaves `changed` set until the waiter
notices it and begins to wait anew.

Every invariant and action property of the runs is the statement of a theorem.
Checked by TLC only is what depends on fairness (`QueuedIsTaken`,
`EnqueueReturns`, `StopCompletes`, `ReadersReleased`, `ReleasedReturns`,
`WaitersReleased`, `ReplacedIsStopped`, `OffloadedIsReported`, `TimedCallEnds`,
`CancelledCallEnds`) and everything about ENABLED, which the prover does not
handle; and the five sentences of section 4 that do not hold. `WaitersAreServed`
and `ReadersAreKept` are proved, and are no properties of a run: they are what is
left of `QueuedIsTaken` and `ReadersReleased` without fairness. Neither are
`PayloadsMoveForward`, `Listed` and `RetriesSupersede`, nor the invariants
the proofs rest on (`SerialInv` and `ApprovalInv` among them). `AnswersAreTrue`
is the true half of the sentence behind `approval_told`: an agent may be told
"timeout" whatever was decided, but never "approved" or "denied" unless its
record ended so; only a record that evicted itself, under a clock that was set
back, is taken for denied by a user who was never asked.

## 6. Limits

Not modelled: threads other than the event loop's (`enqueue` hands over with
`call_soon_threadsafe`, after which everything is on the loop); failures of the
event loop itself; restarts (none of the modelled components persists anything);
the contents of messages, events and tool calls; replace_channel and restart;
the debounce. `AgentManager` is about one agent: agents share only the lock, and
any acquisition may wait for a `stop_agent`; its scheduled startups, profiles
that disappear and plugin hooks are left out. `ToolCoordinator` leaves out the
cache of completed calls and the delivery of queued hints. The components are
checked one by one: where one depends on another, the effect is an action of its
own (`BatchSwallowsCancel` for the tracker inside the queue's consumer,
`StartRun` and `RunEnds` for the tracker in `AgentManager`, `TurnEnds` for a
cancelled run in `ToolCoordinator`).
