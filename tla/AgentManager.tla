---------------------------- MODULE AgentManager ----------------------------
(***************************************************************************)
(* MultiAgentManager (app/multi_agent_manager.py) for one agent: lazy      *)
(* start, zero-downtime reload, stop and shutdown, with the parts of       *)
(* Workspace and ServiceManager (app/workspace/) these rely on: when a     *)
(* workspace reads its configuration, and which of its services a stop     *)
(* closes.                                                                 *)
(*                                                                         *)
(* Each caller is an asyncio task.  stop_agent awaits the end of the       *)
(* workspace while it holds MultiAgentManager._lock, and the lock serves   *)
(* all agents, so every acquisition may wait: what follows an acquisition  *)
(* is a step of its own, and the program counter of a task that waits for  *)
(* the lock is that of what it did before.  A workspace is named by the    *)
(* client or reload task that creates it.                                  *)
(***************************************************************************)
EXTENDS Naturals, FiniteSets

CONSTANTS
    Clients,     \* tasks that call get_agent and may start a run on the result
    Reloads,     \* tasks that call reload_agent, after a config write or without
    Stops,       \* tasks that call stop_agent
    None,
    BackendOf    \* the memory backend each version of the configuration selects

Instances == Clients \cup Reloads
Tasks == Instances \cup Stops
Versions == DOMAIN BackendOf    \* versions of the agent's configuration on disk

ASSUME ConstantsAssumption ==
    /\ None \notin Tasks
    /\ Clients \cap Reloads = {}
    /\ Instances \cap Stops = {}
    /\ IsFiniteSet(Reloads)
    /\ Versions \subseteq Nat
    /\ 0 \in Versions

VARIABLES
    agents,        \* self.agents.get(agent_id)
    pending,       \* _pending_starts: the client that claimed the start
    lock,          \* the stop_agent call that holds _lock across its await
    generation,    \* _config_generations
    written,       \* version of the configuration on disk
    pc,            \* where each task stands
    holds,         \* client: the workspace get_agent returned; reload: old_instance
    joined,        \* client: the starter whose event it waits for
    captured,      \* reload: the generation it captured
    life,          \* of each workspace
    loaded,        \* version of the configuration each workspace read
    memory,        \* its reusable service, named by the workspace that created it
    offered,       \* a reusable service was offered to it by its predecessor
    borrowed,      \* the service is in its reused_services
    transferable,  \* descriptor.reusable
    closed,        \* services that were closed
    cleanup,       \* delayed cleanup: the runs it waits for, {} when there is none
    phase,         \* progress of stop_all
    target,        \* the workspace stop_all is stopping
    announced,     \* history: version on disk at the last generation bump
    missed         \* history: a reload that captured this generation gave up

registry == <<agents, pending, lock>>
config == <<generation, written, announced, missed>>
locals == <<holds, joined, captured>>
services == <<memory, offered, borrowed, transferable, closed>>
tidying == <<cleanup, phase, target>>
vars == <<registry, config, pc, locals, life, loaded, services, tidying>>

PC == {"idle", "done",
       "waiting", "starting", "release", "wedged", "got", "run", "late",
       "saved", "called", "check", "attach", "load", "building", "discard",
       "retire", "stopping"}
Life == {"unused", "running", "broken", "orphaned", "stopped"}

TypeOK ==
    /\ agents \in Instances \cup {None}
    /\ pending \in Clients \cup {None}
    /\ lock \in Stops \cup {None}
    /\ generation \in Nat
    /\ written \in Versions
    /\ pc \in [Tasks -> PC]
    /\ holds \in [Instances -> Instances \cup {None}]
    /\ joined \in [Clients -> Clients \cup {None}]
    /\ captured \in [Reloads -> Nat]
    /\ life \in [Instances -> Life]
    /\ loaded \in [Instances -> Versions]
    /\ memory \in [Instances -> Instances]
    /\ offered \in [Instances -> BOOLEAN]
    /\ borrowed \in [Instances -> BOOLEAN]
    /\ transferable \in [Instances -> BOOLEAN]
    /\ closed \in SUBSET Instances
    /\ cleanup \in [Instances -> SUBSET Clients]
    /\ phase \in {"running", "cancelling", "stopping", "stopped"}
    /\ target \in Instances \cup {None}
    /\ announced \in Versions
    /\ missed \in BOOLEAN

Init ==
    /\ agents = None
    /\ pending = None
    /\ lock = None
    /\ generation = 0
    /\ written = 0
    /\ pc = [t \in Tasks |-> "idle"]
    /\ holds = [i \in Instances |-> None]
    /\ joined = [c \in Clients |-> None]
    /\ captured = [r \in Reloads |-> 0]
    /\ life = [i \in Instances |-> "unused"]
    /\ loaded = [i \in Instances |-> 0]
    /\ memory = [i \in Instances |-> i]
    /\ offered = [i \in Instances |-> FALSE]
    /\ borrowed = [i \in Instances |-> FALSE]
    /\ transferable = [i \in Instances |-> TRUE]
    /\ closed = {}
    /\ cleanup = [i \in Instances |-> {}]
    /\ phase = "running"
    /\ target = None
    /\ announced = 0
    /\ missed = FALSE

Move(t, from, to) == pc[t] = from /\ pc' = [pc EXCEPT ![t] = to]

-----------------------------------------------------------------------------
(* Workspace.stop.                                                         *)

\* Mutant of Closes: a borrowed service is not preserved.
ClosesBorrowed(i, final, preserve) ==
    IF life[i] \in {"unused", "stopped"} \/ (~final /\ (transferable[i] \/ borrowed[i]))
    THEN {}
    ELSE {memory[i]}

\* The service it closes: none if it may preserve a borrowed one, nor, unless
\* final, if the service may be transferred or was borrowed.
Closes(i, final, preserve) ==
    IF \/ life[i] \in {"unused", "stopped"}
       \/ preserve /\ borrowed[i]
       \/ ~final /\ (transferable[i] \/ borrowed[i])
    THEN {}
    ELSE {memory[i]}

\* It ends "stopped", or raises because a service did not stop cleanly: every
\* service was attempted, and the workspace still counts as started ("broken").
StopWorkspace(i, final, preserve, end) ==
    /\ end = "broken" => life[i] \notin {"unused", "stopped"}
    /\ life' = [life EXCEPT ![i] = end]
    /\ closed' = closed \cup Closes(i, final, preserve)
    /\ UNCHANGED <<memory, offered, borrowed, transferable>>

\* If it raises, the caller logs that, or raises as well, having no more to do.
TryStop(i, final, preserve) ==
    \E end \in {"stopped", "broken"} : StopWorkspace(i, final, preserve, end)

-----------------------------------------------------------------------------
(* get_agent                                                               *)

\* Fast path, without the lock: whatever is registered, even if a stop_agent
\* is at work on it.
GetCached(c) ==
    /\ Move(c, "idle", "got")
    /\ agents # None
    /\ holds' = [holds EXCEPT ![c] = agents]
    /\ UNCHANGED <<registry, config, joined, captured, life, loaded, services,
                   tidying>>

\* Nobody is starting the agent: claim the start, create the workspace and
\* start it.  Workspace.start reads the configuration before its first await.
Claim(c) ==
    /\ Move(c, "idle", "starting")
    /\ lock = None
    /\ agents = None
    /\ pending = None
    /\ pending' = c
    /\ loaded' = [loaded EXCEPT ![c] = written]
    /\ UNCHANGED <<agents, lock, config, locals, life, services, tidying>>

\* Mutant of Join: the check for a start in progress is forgotten.
JoinNever(c) ==
    /\ Move(c, "idle", "starting")
    /\ lock = None
    /\ agents = None
    /\ pending' = c
    /\ loaded' = [loaded EXCEPT ![c] = written]
    /\ UNCHANGED <<agents, lock, config, locals, life, services, tidying>>

\* A start is in progress: wait for its event.
Join(c) ==
    /\ Move(c, "idle", "waiting")
    /\ lock = None
    /\ agents = None
    /\ pending # None
    /\ joined' = [joined EXCEPT ![c] = pending]
    /\ UNCHANGED <<registry, config, holds, captured, life, loaded, services,
                   tidying>>

\* The event is set: return what is registered now, or fail.
WaiterWakes(c) ==
    /\ Move(c, "waiting", IF agents = None THEN "done" ELSE "got")
    /\ pc[joined[c]] \notin {"starting", "release", "wedged"}
    /\ holds' = [holds EXCEPT ![c] = agents]
    /\ UNCHANGED <<registry, config, joined, captured, life, loaded, services,
                   tidying>>

\* Workspace.start failed or was cancelled, and has stopped what it started.
StartFails(c) ==
    /\ Move(c, "starting", "release")
    /\ life' = [life EXCEPT ![c] = "stopped"]
    /\ closed' = closed \cup {memory[c]}
    /\ UNCHANGED <<registry, config, locals, loaded, memory, offered, borrowed,
                   transferable, tidying>>

\* The workspace is started: register it.  The workspace_created hooks follow.
Install(c) ==
    /\ Move(c, "starting", "release")
    /\ lock = None
    /\ agents' = c
    /\ life' = [life EXCEPT ![c] = "running"]
    /\ holds' = [holds EXCEPT ![c] = c]
    /\ UNCHANGED <<pending, lock, config, joined, captured, loaded, services,
                   tidying>>

\* A cancellation during that wait for the lock: the workspace is started and
\* nobody refers to it any more.
InstallCancelled(c) ==
    /\ Move(c, "starting", "release")
    /\ life' = [life EXCEPT ![c] = "orphaned"]
    /\ UNCHANGED <<registry, config, locals, loaded, services, tidying>>

\* Mutant of Release: only after a successful start, not in a finally clause.
ReleaseOnSuccess(c) ==
    /\ holds[c] # None
    /\ Move(c, "release", "got")
    /\ lock = None
    /\ pending' = None
    /\ UNCHANGED <<agents, lock, config, locals, life, loaded, services, tidying>>

\* The finally clause: _pending_starts.pop and event.set.  The call returns the
\* workspace, or raises if the start failed or the hooks were cancelled.
Release(c) ==
    /\ \/ holds[c] # None /\ Move(c, "release", "got")
       \/ Move(c, "release", "done")
    /\ lock = None
    /\ pending' = None
    /\ UNCHANGED <<agents, lock, config, locals, life, loaded, services, tidying>>

\* A cancellation during the finally clause's own wait for the lock: neither
\* happens.
ReleaseCancelled(c) ==
    /\ Move(c, "release", "wedged")
    /\ UNCHANGED <<registry, config, locals, life, loaded, services, tidying>>

-----------------------------------------------------------------------------
(* Runs: TaskTracker.attach_or_start(owner=workspace).                     *)

\* The client starts a run on the workspace it was given: "run", or "late" if
\* that workspace is not the registered one any more.
StartRun(c) ==
    /\ Move(c, "got", IF agents = holds[c] THEN "run" ELSE "late")
    /\ UNCHANGED <<registry, config, locals, life, loaded, services, tidying>>

\* Mutant of RunsOn: it counts every task that refers to the workspace.
HoldersOf(i) == {t \in Instances : holds[t] = i}

\* The runs TaskTracker has for workspace i.
RunsOn(i) == {c \in Clients : holds[c] = i /\ pc[c] \in {"run", "late"}}

RunEnds(c) ==
    /\ Move(c, "run", "done") \/ Move(c, "late", "done")
    /\ UNCHANGED <<registry, config, locals, life, loaded, services, tidying>>

\* The run outlasts the 24 hours a delayed cleanup waits for it.
RunOverstays(c) ==
    /\ Move(c, "run", "late")
    /\ UNCHANGED <<registry, config, locals, life, loaded, services, tidying>>

-----------------------------------------------------------------------------
(* Configuration writes and reload_agent.                                  *)

\* A writer (an API endpoint, or an editor of agent.json) saves a version ...
WriteConfig(r) ==
    /\ Move(r, "idle", "saved")
    /\ written + 1 \in Versions
    /\ written' = written + 1
    /\ UNCHANGED <<registry, generation, announced, missed, locals, life, loaded,
                   services, tidying>>

\* Mutant of ScheduleReload: the generation is not bumped.
ScheduleWithoutBump(r) ==
    /\ Move(r, "saved", "called")
    /\ announced' = written
    /\ missed' = FALSE
    /\ UNCHANGED <<registry, generation, written, locals, life, loaded, services,
                   tidying>>

\* ... and, one or more awaits later, schedule_agent_reload or the config
\* watcher bumps the generation and a task will call reload_agent.
ScheduleReload(r) ==
    /\ Move(r, "saved", "called")
    /\ generation' = generation + 1
    /\ announced' = written
    /\ missed' = FALSE
    /\ UNCHANGED <<registry, written, locals, life, loaded, services, tidying>>

\* reload_agent starts, for a writer or for /daemon restart: capture the
\* generation, then wait for the lock.
ReloadCalled(r) ==
    /\ Move(r, "idle", "check") \/ Move(r, "called", "check")
    /\ captured' = [captured EXCEPT ![r] = generation]
    /\ UNCHANGED <<registry, config, holds, joined, life, loaded, services,
                   tidying>>

\* The agent runs.  Next, its config watcher is stopped and the profile looked
\* up.
ReloadCheck(r) ==
    /\ Move(r, "check", "attach")
    /\ lock = None
    /\ agents # None
    /\ holds' = [holds EXCEPT ![r] = agents]
    /\ UNCHANGED <<registry, config, joined, captured, life, loaded, services,
                   tidying>>

\* _prepare_reload_candidate: the reusable service of the instance registered
\* now is offered to the candidate, if there is one and it may be transferred.
ReloadAttach(r) ==
    /\ Move(r, "attach", "load")
    /\ lock = None
    /\ LET offer == agents # None /\ transferable[agents] IN
        /\ offered' = [offered EXCEPT ![r] = offer]
        /\ borrowed' = [borrowed EXCEPT ![r] = offer]
        /\ memory' = [memory EXCEPT ![r] = IF offer THEN memory[agents] ELSE r]
    /\ UNCHANGED <<registry, config, locals, life, loaded, transferable, closed,
                   tidying>>

\* The candidate reads its configuration and keeps the offered service only if
\* it is of the backend now configured; otherwise it creates its own.
ReloadLoads(r) ==
    /\ Move(r, "load", "building")
    /\ life' = [life EXCEPT ![r] = "running"]
    /\ loaded' = [loaded EXCEPT ![r] = written]
    /\ LET keep == borrowed[r] /\ BackendOf[loaded[memory[r]]] = BackendOf[written] IN
        /\ borrowed' = [borrowed EXCEPT ![r] = keep]
        /\ memory' = [memory EXCEPT ![r] = IF keep THEN @ ELSE r]
    /\ UNCHANGED <<registry, config, locals, offered, transferable, closed,
                   tidying>>

\* The reload of r ends without a swap; a candidate will be discarded.
GiveUp(r, from, to) ==
    /\ Move(r, from, to)
    /\ missed' = (missed \/ captured[r] = generation)
    /\ UNCHANGED <<registry, generation, written, announced, locals, life, loaded,
                   services, tidying>>

\* The agent is not running, has no profile, or the caller is cancelled.
ReloadReturns(r) == GiveUp(r, "check", "done") \/ GiveUp(r, "attach", "done")

\* The candidate fails to start, or the caller is cancelled.
ReloadFails(r) == GiveUp(r, "load", "discard") \/ GiveUp(r, "building", "discard")

\* Mutant of SwapRefused: it forgets to stop the candidate.
SwapRefusedForgets(r) ==
    /\ lock = None
    /\ agents = None \/ captured[r] # generation
    /\ GiveUp(r, "building", "done")

\* Under the lock: the agent was removed, or its configuration changed.
SwapRefused(r) ==
    /\ lock = None
    /\ agents = None \/ captured[r] # generation
    /\ GiveUp(r, "building", "discard")

Rejected(r) == offered[r] /\ ~borrowed[r]

\* The candidate takes the place of the registered instance.  A service it was
\* offered and did not take is left to old, to be closed; old is stopped at
\* once, or by a task that waits for the runs given.
SwapFor(r, old, runs) ==
    /\ Move(r, "building", IF runs = {} THEN "retire" ELSE "done")
    /\ lock = None
    /\ agents # None
    /\ agents' = r
    /\ holds' = [holds EXCEPT ![r] = old]
    /\ transferable' = [transferable EXCEPT ![old] = @ /\ ~Rejected(r)]
    /\ borrowed' = [borrowed EXCEPT ![old] = @ /\ ~Rejected(r)]
    /\ cleanup' = [cleanup EXCEPT ![old] = runs]
    /\ UNCHANGED <<pending, lock, config, joined, captured, life, loaded, memory,
                   offered, closed, phase, target>>

\* Mutants of Swap: no generation check; no snapshot of the active runs; the
\* instance seen when the reload began is the one retired.
SwapAnyGeneration(r) == SwapFor(r, agents, RunsOn(agents))
SwapWithoutSnapshot(r) == captured[r] = generation /\ SwapFor(r, agents, {})
SwapRetiresFirstSeen(r) ==
    captured[r] = generation /\ SwapFor(r, holds[r], RunsOn(holds[r]))

\* The swap and the snapshot of the runs the replaced instance owns.
Swap(r) == captured[r] = generation /\ SwapFor(r, agents, RunsOn(agents))

\* _discard_reload_candidate and _cleanup_failed_reload_candidate.
Discard(r) ==
    /\ Move(r, "discard", "done")
    /\ TryStop(r, TRUE, TRUE)
    /\ UNCHANGED <<registry, config, locals, loaded, tidying>>

\* _graceful_stop_old_instance with no active run.
Retire(r) ==
    /\ Move(r, "retire", "done")
    /\ TryStop(holds[r], FALSE, FALSE)
    /\ UNCHANGED <<registry, config, locals, loaded, tidying>>

\* The reloading task is cancelled while it stops the old instance.
RetireCancelled(r) ==
    /\ Move(r, "retire", "done")
    /\ life' = [life EXCEPT ![holds[r]] = "orphaned"]
    /\ UNCHANGED <<registry, config, locals, loaded, services, tidying>>

\* delayed_cleanup: the runs of the snapshot ended, or 24 hours have passed.
CleanupStops(i) ==
    /\ cleanup[i] # {}
    /\ \A c \in cleanup[i] : pc[c] # "run"
    /\ TryStop(i, FALSE, FALSE)
    /\ cleanup' = [cleanup EXCEPT ![i] = {}]
    /\ UNCHANGED <<registry, config, pc, locals, loaded, phase, target>>

-----------------------------------------------------------------------------
(* stop_agent and stop_all                                                 *)

StopNotRunning(s) ==
    /\ Move(s, "idle", "done")
    /\ lock = None
    /\ agents = None
    /\ UNCHANGED <<registry, config, locals, life, loaded, services, tidying>>

\* stop_agent takes the lock and keeps it while the workspace stops.
StopBegins(s) ==
    /\ Move(s, "idle", "stopping")
    /\ lock = None
    /\ agents # None
    /\ lock' = s
    /\ UNCHANGED <<agents, pending, config, locals, life, loaded, services,
                   tidying>>

\* The workspace is stopped, perhaps by stop_all, and is removed.
StopEnds(s) ==
    /\ Move(s, "stopping", "done")
    /\ lock' = None
    /\ agents' = None
    /\ \/ agents = None /\ UNCHANGED <<life, services>>
       \/ agents # None /\ StopWorkspace(agents, TRUE, FALSE, "stopped")
    /\ UNCHANGED <<pending, config, locals, loaded, tidying>>

\* A service did not stop cleanly, or the caller was cancelled: the workspace
\* stays registered, with services closed.
StopFails(s) ==
    /\ Move(s, "stopping", "done")
    /\ agents # None
    /\ lock' = None
    /\ StopWorkspace(agents, TRUE, FALSE, "broken")
    /\ UNCHANGED <<agents, pending, config, locals, loaded, tidying>>

\* stop_all: cancel the delayed cleanups, whose workspaces nobody stops then, ...
ShutdownBegins ==
    /\ phase = "running"
    /\ phase' = "cancelling"
    /\ life' = [i \in Instances |-> IF cleanup[i] # {} THEN "orphaned" ELSE life[i]]
    /\ cleanup' = [i \in Instances |-> {}]
    /\ UNCHANGED <<registry, config, pc, locals, loaded, services, target>>

\* ... when they have ended, start to stop what is registered, without the lock ...
ShutdownStops ==
    /\ phase = "cancelling"
    /\ phase' = "stopping"
    /\ target' = agents
    /\ UNCHANGED <<registry, config, pc, locals, life, loaded, services, cleanup>>

\* ... and, when that has ended or failed, clear the dict: what was registered
\* meanwhile is dropped.
ShutdownClears ==
    /\ phase = "stopping"
    /\ phase' = "stopped"
    /\ agents' = None
    /\ \E end \in {"stopped", "broken"} :
         life' = [i \in Instances |-> IF i = target THEN end
                                     ELSE IF i = agents THEN "orphaned" ELSE life[i]]
    /\ closed' = closed \cup UNION {Closes(i, TRUE, FALSE) : i \in Instances \cap {target}}
    /\ UNCHANGED <<pending, lock, config, pc, locals, loaded, memory, offered,
                   borrowed, transferable, cleanup, target>>

-----------------------------------------------------------------------------

Starting(c) == Install(c) \/ StartFails(c) \/ Release(c) \/ WaiterWakes(c)

Client(c) ==
    \/ GetCached(c) \/ Claim(c) \/ Join(c) \/ Starting(c)
    \/ InstallCancelled(c) \/ ReleaseCancelled(c)
    \/ StartRun(c) \/ RunEnds(c) \/ RunOverstays(c)

Reloading(r) ==
    \/ ReloadCheck(r) \/ ReloadReturns(r) \/ ReloadAttach(r) \/ ReloadLoads(r)
    \/ ReloadFails(r) \/ SwapRefused(r) \/ Swap(r) \/ Discard(r) \/ Retire(r)

Reload(r) ==
    \/ WriteConfig(r) \/ ScheduleReload(r) \/ ReloadCalled(r) \/ Reloading(r)
    \/ RetireCancelled(r)

Stop(s) == StopNotRunning(s) \/ StopBegins(s) \/ StopEnds(s) \/ StopFails(s)

Next ==
    \/ \E c \in Clients : Client(c)
    \/ \E r \in Reloads : Reload(r)
    \/ \E s \in Stops : Stop(s)
    \/ \E i \in Instances : CleanupStops(i)
    \/ ShutdownBegins
    \/ ShutdownStops
    \/ ShutdownClears

Spec == Init /\ [][Next]_vars

\* Tasks that are ready run; starts, builds and stops of workspaces end, and so
\* do runs, or their 24 hours pass.  Nobody has to call anything, and nothing
\* has to be cancelled.
Fairness ==
    /\ \A c \in Clients : WF_vars(Starting(c))
    /\ \A c \in Clients : WF_vars(RunEnds(c) \/ RunOverstays(c))
    /\ \A r \in Reloads : WF_vars(Reloading(r))
    /\ \A s \in Stops : WF_vars(StopEnds(s))
    /\ \A i \in Instances : WF_vars(CleanupStops(i))

FairSpec == Spec /\ Fairness

-----------------------------------------------------------------------------
(* Properties                                                              *)

\* get_agent registers its workspace without looking: there is nothing to
\* overwrite, because at most one client is between claim and release, and
\* reloads only replace.
StartInv ==
    /\ \A c \in Clients : pc[c] \in {"starting", "release"} => pending = c
    /\ \A c \in Clients : pc[c] = "starting" => agents = None

\* No workspace is left running behind: each one is registered, or its reload
\* has not decided yet or is about to discard it, or a reload is about to stop
\* it, or it waits for its runs, or stop_all is stopping it.  What cancellation
\* and shutdown leave running is "orphaned".
NothingLeftBehind ==
    \A i \in Instances : life[i] = "running" =>
        \/ i \in {agents, target}
        \/ pc[i] \in {"building", "discard"}
        \/ cleanup[i] # {}
        \/ \E r \in Reloads : pc[r] = "retire" /\ holds[r] = i

\* "the swap below aborts in favour of the newer writer's own scheduled
\* reload" (reload_agent): a reload never installs a configuration older than
\* the last one announced.
ReloadsInstallAnnounced ==
    [][\A r \in Reloads : agents' = r /\ agents # r => loaded[r] >= announced]_vars

UnderWay(r) ==
    \/ pc[r] = "called"
    \/ pc[r] \in {"check", "attach", "load", "building"} /\ captured[r] = generation

\* A workspace older than the last announced configuration serves only while a
\* reload that will not be refused for its generation is under way, or after
\* one gave up.
StaleIsBeingReplaced ==
    agents # None /\ loaded[agents] < announced
        => missed \/ \E r \in Reloads : UnderWay(r)

Replaced(i) == agents # i /\ target # i

\* "Ongoing SSE/streaming tasks continue uninterrupted" (reload_agent): apart
\* from stop_agent and stop_all, no workspace is stopped, or half stopped, under a
\* run that was started on it while it was registered and that keeps to the 24
\* hours.
ReloadSparesRuns ==
    [][\A c \in Clients :
         pc[c] = "run" /\ Replaced(holds[c])
            => life'[holds[c]] \in {life[holds[c]], "orphaned"}]_vars

\* A candidate that is given up closes no service but its own: the one it
\* borrowed stays open for the workspace that serves (Workspace.stop,
\* preserve_reused).
DiscardKeepsBorrowed ==
    [][\A r \in Reloads :
         pc[r] = "discard" /\ pc'[r] = "done" => closed' \subseteq closed \cup {r}]_vars

\* A client that waits for somebody else's start is released, unless the
\* starter was cancelled in its finally clause.
WaitersReleased ==
    \A c \in Clients :
        pc[c] = "waiting" ~> (pc[c] # "waiting" \/ pc[joined[c]] = "wedged")

\* "Old instance is automatically cleaned up after tasks complete"
\* (reload_agent): a running workspace that is not registered is stopped in the
\* end, cleanly or not, or registered if it is a candidate, unless a cancellation
\* or stop_all got in between.
ReplacedIsStopped ==
    \A i \in Instances :
        (life[i] = "running" /\ Replaced(i)) ~> (life[i] # "running" \/ agents = i)

=============================================================================
