-------------------------- MODULE ToolCoordinator ---------------------------
(***************************************************************************)
(* ToolCoordinator (tool_calls/_coordinator.py): the deadlines, the        *)
(* offloading to the background and the cancellation of tool calls.        *)
(*                                                                         *)
(* Up to three asyncio tasks work on a call: the agent's turn, inside the  *)
(* generator execute(); the tool itself, in entry.background_task; and,    *)
(* once the call is in the background, _supervise.  The API, the policy    *)
(* setting, a cancelled turn and shutdown interfere between any two awaits *)
(* of these.  No hooks and no on_offloaded handlers are registered         *)
(* anywhere, and results, what chunks say and cancel reasons are left out. *)
(***************************************************************************)
EXTENDS Naturals

CONSTANTS
    Calls,         \* tool calls, each with an id of its own
    MaxRequests    \* bound on the interventions of users, settings and the setup
                   \* of a sandbox per call

ASSUME ConstantsAssumption == MaxRequests \in Nat \ {0}

VARIABLES
    entries,       \* the calls in _entries
    status,        \* ToolCallEntry.status
    turn,          \* where execute() stands
    supervisor,    \* where _supervise stands
    tool,          \* entry.background_task; "closing": in the final stream.close()
    setup,         \* the tool sets up a sandbox: "before", "under way", "over";
                   \* "none": it is not execute_shell_command, or needs none
    savedOffload,  \* original_offload in _execute_in_sandbox
    savedKill,     \* original_kill
    offload,       \* ctx.offload_deadline
    kill,          \* ctx.kill_deadline; "short": under MIN_BACKGROUND_WINDOW_SECS left
    armed,         \* the wait in _await_next_event has a timeout
    changed,       \* ctx.deadline_changed_event
    cancelled,     \* ctx.cancel_event
    byUser,        \* ctx.offload_reason is USER
    forced,        \* background_task.cancel() was called
    timeout,       \* _resolve_timeout finds a timeout for the tool
    capped,        \* the tool has max_internal_timeout_secs
    policy,        \* _offload_on_deadline
    hints,         \* _pending_hints: notifications about the call, ever queued
    stopping,      \* shutdown was called
    shutting,      \* the calls it has not dealt with yet
    requests,      \* interventions so far, with the setup of a sandbox to come
    unlimited      \* history: the user removed a deadline of the call

sandbox == <<setup, savedOffload, savedKill>>
work == <<tool, sandbox>>
deadlines == <<offload, kill, armed, changed>>
signals == <<cancelled, byUser, forced>>
settings == <<timeout, capped, policy>>
owners == <<turn, supervisor>>
bookkeeping == <<entries, status, hints>>
shutdown == <<stopping, shutting>>
history == <<requests, unlimited>>
vars == <<owners, work, deadlines, signals, settings, bookkeeping, shutdown, history>>

Turn == {"idle", "waiting", "ready", "yielding", "fired", "grace", "joining",
         "reaping", "gathering", "answered", "offloaded", "raised", "lost"}
Supervisor == {"none", "waiting", "fired", "grace", "joining", "reporting", "over",
               "dead"}
Tool == {"none", "running", "closing", "done", "aborted"}
Offload == {"none", "set", "due"}
Kill == {"none", "ample", "short", "due"}

SandboxOK ==
    /\ setup \in [Calls -> {"none", "before", "under way", "over"}]
    /\ savedOffload \in [Calls -> Offload]
    /\ savedKill \in [Calls -> Kill]

TypeOK ==
    /\ entries \subseteq Calls
    /\ status \in [Calls -> {"running", "offloaded", "completed"}]
    /\ turn \in [Calls -> Turn]
    /\ supervisor \in [Calls -> Supervisor]
    /\ tool \in [Calls -> Tool]
    /\ SandboxOK
    /\ offload \in [Calls -> Offload]
    /\ kill \in [Calls -> Kill]
    /\ armed \in [Calls -> BOOLEAN]
    /\ changed \in [Calls -> BOOLEAN]
    /\ cancelled \in [Calls -> BOOLEAN]
    /\ byUser \in [Calls -> BOOLEAN]
    /\ forced \in [Calls -> BOOLEAN]
    /\ timeout \in [Calls -> BOOLEAN]
    /\ capped \in [Calls -> BOOLEAN]
    /\ policy \in BOOLEAN
    /\ hints \in [Calls -> Nat]
    /\ stopping \in BOOLEAN
    /\ shutting \subseteq Calls
    /\ requests \in [Calls -> 0..MaxRequests]
    /\ unlimited \in [Calls -> BOOLEAN]

Init ==
    /\ entries = {}
    /\ status = [c \in Calls |-> "running"]
    /\ turn = [c \in Calls |-> "idle"]
    /\ supervisor = [c \in Calls |-> "none"]
    /\ tool = [c \in Calls |-> "none"]
    /\ setup \in [Calls -> {"none", "before"}]
    /\ savedOffload = [c \in Calls |-> "none"]
    /\ savedKill = [c \in Calls |-> "none"]
    /\ offload = [c \in Calls |-> "none"]
    /\ kill = [c \in Calls |-> "none"]
    /\ armed = [c \in Calls |-> FALSE]
    /\ changed = [c \in Calls |-> FALSE]
    /\ cancelled = [c \in Calls |-> FALSE]
    /\ byUser = [c \in Calls |-> FALSE]
    /\ forced = [c \in Calls |-> FALSE]
    /\ timeout \in [Calls -> BOOLEAN]
    /\ capped \in [Calls -> BOOLEAN]
    /\ \A c \in Calls : setup[c] = "before" => capped[c]
    /\ policy \in BOOLEAN
    /\ hints = [c \in Calls |-> 0]
    /\ stopping = FALSE
    /\ shutting = {}
    /\ requests = [c \in Calls |-> IF setup[c] = "none" THEN 0 ELSE 1]
    /\ unlimited = [c \in Calls |-> FALSE]

Stopped(c) == tool[c] \in {"done", "aborted"}
Due(c) == offload[c] = "due" \/ kill[c] = "due"

Move(c, from, to) ==
    turn[c] = from /\ turn' = [turn EXCEPT ![c] = to] /\ UNCHANGED supervisor
Supervise(c, from, to) ==
    supervisor[c] = from /\ supervisor' = [supervisor EXCEPT ![c] = to] /\ UNCHANGED turn

-----------------------------------------------------------------------------
(* Helpers.                                                                *)

\* _ensure_kill_deadline_for_offload: enough time is left, or can be granted.
CanOffload(c) == kill[c] = "ample" \/ timeout[c]
TopUp(c) == kill' = [kill EXCEPT ![c] = "ample"]

SetCancel(c) == cancelled' = [cancelled EXCEPT ![c] = TRUE] /\ UNCHANGED <<byUser, forced>>

\* _await_grace_or_force_cancel returns at once if the tool has ended.
Grace(c) == IF Stopped(c) THEN "joining" ELSE "grace"

\* background_task.cancel(): a tool that is just closing its stream may be
\* caught where the cancellation is not turned into a result.
ForceTool(c) ==
    /\ forced' = [forced EXCEPT ![c] = @ \/ ~Stopped(c)]
    /\ \/ UNCHANGED tool
       \/ tool[c] = "closing" /\ tool' = [tool EXCEPT ![c] = "aborted"]
    /\ UNCHANGED sandbox

\* Mutant of Finalize: the status takes the value of end_state.
FinalizeEndState(c) ==
    /\ status' = [status EXCEPT ![c] = IF cancelled[c] THEN "interrupted" ELSE "success"]
    /\ entries' = entries \ {c}
    /\ UNCHANGED hints

\* _finalize_completed.
Finalize(c) ==
    /\ status' = [status EXCEPT ![c] = "completed"]
    /\ entries' = entries \ {c}
    /\ UNCHANGED hints

-----------------------------------------------------------------------------
(* The tool: _run_tool_with_hooks and _drain.                              *)

\* cancellable_wait(as_kill_deadline) and arm_kill_deadline, if nobody else has
\* set a kill deadline: it is now, soon or later, and the call's offload deadline
\* no later than that.
ArmKill(c) ==
    /\ tool[c] = "running"
    /\ setup[c] # "under way"
    /\ kill[c] = "none"
    /\ \E k \in {"ample", "short", "due"} :
         /\ kill' = [kill EXCEPT ![c] = k]
         /\ offload' = [offload EXCEPT ![c] = IF @ = "set" /\ k = "due" THEN k ELSE @]
    /\ changed' = [changed EXCEPT ![c] = TRUE]
    /\ UNCHANGED <<owners, work, armed, signals, settings, bookkeeping, shutdown,
                   history>>

\* The tool yields a chunk to the turn that waits.  What it yields while the turn is
\* busy counts as yielded after that or, once the tool has ended, with the chunk
\* before.  The output of a sandbox comes in one piece.
ToolStreams(c) ==
    /\ setup[c] = "none"
    /\ tool[c] = "running"
    /\ Move(c, "waiting", "ready")
    /\ UNCHANGED <<work, deadlines, signals, settings, bookkeeping, shutdown, history>>

\* _execute_in_sandbox: while it sets up the sandbox, the deadlines there are
\* move three minutes away ...
SetupBegins(c) ==
    /\ tool[c] = "running"
    /\ setup[c] = "before"
    /\ setup' = [setup EXCEPT ![c] = "under way"]
    /\ savedOffload' = [savedOffload EXCEPT ![c] = offload[c]]
    /\ savedKill' = [savedKill EXCEPT ![c] = kill[c]]
    /\ offload' = [offload EXCEPT ![c] = IF @ = "none" THEN @ ELSE "set"]
    /\ kill' = [kill EXCEPT ![c] = IF @ = "none" THEN @ ELSE "ample"]
    /\ changed' = [changed EXCEPT ![c] = @ \/ offload[c] # "none" \/ kill[c] # "none"]
    /\ UNCHANGED <<owners, tool, armed, signals, settings, bookkeeping, shutdown,
                   history>>

\* Mutants of Restore: nobody is woken; a deadline there was not is restored too.
RestoreQuietly(c) ==
    /\ offload' = [offload EXCEPT ![c] =
                     IF savedOffload[c] = "none" THEN @ ELSE savedOffload[c]]
    /\ kill' = [kill EXCEPT ![c] = IF savedKill[c] = "none" THEN @ ELSE savedKill[c]]
    /\ UNCHANGED changed

RestoreAll(c) ==
    /\ offload' = [offload EXCEPT ![c] = savedOffload[c]]
    /\ kill' = [kill EXCEPT ![c] = savedKill[c]]
    /\ changed' = [changed EXCEPT ![c] = TRUE]

\* ... and _restore_setup_deadlines writes what was left of them over those there
\* are by then, whatever the call's status.
Restore(c) ==
    /\ offload' = [offload EXCEPT ![c] =
                     IF savedOffload[c] = "none" THEN @ ELSE savedOffload[c]]
    /\ kill' = [kill EXCEPT ![c] = IF savedKill[c] = "none" THEN @ ELSE savedKill[c]]
    /\ changed' = [changed EXCEPT
                     ![c] = @ \/ savedOffload[c] # "none" \/ savedKill[c] # "none"]

SetupEnds(c) ==
    /\ tool[c] = "running"
    /\ setup[c] = "under way"
    /\ setup' = [setup EXCEPT ![c] = "over"]
    /\ Restore(c)
    /\ UNCHANGED <<owners, tool, savedOffload, savedKill, armed, signals, settings,
                   bookkeeping, shutdown, history>>

\* The tool returns, fails, or gives in to a cancellation.  If it does not return
\* from its sandbox, the deadlines are restored, perhaps once more.
ToolEnds(c) ==
    /\ tool[c] = "running"
    /\ tool' = [tool EXCEPT ![c] = "closing"]
    /\ \/ setup[c] # "under way" /\ UNCHANGED <<offload, kill, changed>>
       \/ setup[c] \in {"under way", "over"} /\ Restore(c)
    /\ setup' = [setup EXCEPT ![c] = "none"]
    /\ savedOffload' = [savedOffload EXCEPT ![c] = "none"]
    /\ savedKill' = [savedKill EXCEPT ![c] = "none"]
    /\ UNCHANGED <<owners, armed, signals, settings, bookkeeping, shutdown, history>>

StreamCloses(c) ==
    /\ tool[c] = "closing"
    /\ tool' = [tool EXCEPT ![c] = "done"]
    /\ UNCHANGED <<owners, sandbox, deadlines, signals, settings, bookkeeping, shutdown,
                   history>>

-----------------------------------------------------------------------------
(* The turn: execute().                                                    *)

\* _create_entry, the entry in _entries and the background task.
Execute(c) ==
    /\ Move(c, "idle", "waiting")
    /\ entries' = entries \cup {c}
    /\ tool' = [tool EXCEPT ![c] = "running"]
    /\ offload' = [offload EXCEPT ![c] = IF timeout[c] THEN "set" ELSE "none"]
    /\ armed' = [armed EXCEPT ![c] = timeout[c]]
    /\ UNCHANGED <<sandbox, kill, changed, signals, settings, status, hints, shutdown,
                   history>>

\* _await_next_event computes its timeout from the deadlines there are.
Rearm(c) == armed' = [armed EXCEPT ![c] = offload'[c] # "none" \/ kill'[c] # "none"]

\* What has happened when the wait is over counts in this order: a chunk, a
\* cancellation, a changed deadline, the timeout.
NoticesChange(c) ==
    /\ changed[c] /\ ~cancelled[c]
    /\ changed' = [changed EXCEPT ![c] = FALSE]
    /\ UNCHANGED <<offload, kill>>
    /\ Rearm(c)
    /\ UNCHANGED <<work, signals, settings, bookkeeping, shutdown, history>>

TurnNoticesChange(c) ==
    /\ Move(c, "waiting", "waiting")
    /\ ~Due(c)
    /\ NoticesChange(c)

\* The agent is given a chunk.
TakesChunk(c) ==
    /\ Move(c, "ready", "yielding")
    /\ UNCHANGED <<work, deadlines, signals, settings, bookkeeping, shutdown, history>>

\* It asks for the next one.
Resumes(c) ==
    /\ Move(c, "yielding", "waiting")
    /\ ~Due(c)
    /\ UNCHANGED <<offload, kill, changed>>
    /\ Rearm(c)
    /\ UNCHANGED <<work, signals, settings, bookkeeping, shutdown, history>>

\* The timeout passes.  Before the wait returns, it cancels and gathers its
\* helper tasks, and deadlines may change again.
TimesOut(c) ==
    /\ armed[c] /\ Due(c) /\ ~cancelled[c] /\ ~changed[c]
    /\ UNCHANGED <<work, deadlines, signals, settings, bookkeeping, shutdown, history>>

TurnTimesOut(c) == Move(c, "waiting", "fired") /\ TimesOut(c)

\* The end of the stream is in the queue of chunks.
TurnCancelled(c) ==
    /\ Move(c, "waiting", Grace(c))
    /\ cancelled[c] /\ tool[c] # "done"
    /\ UNCHANGED <<work, deadlines, signals, settings, bookkeeping, shutdown, history>>

StreamClosed(c) ==
    /\ Move(c, "waiting", "joining")
    /\ tool[c] \in {"closing", "done"}
    /\ UNCHANGED <<work, deadlines, signals, settings, bookkeeping, shutdown, history>>

\* A deadline is reached: the timeout has passed, or one is due when the turn
\* looks at them before it waits, again after a change or for the next chunk.
Reached(c) ==
    \/ turn[c] = "fired"
    \/ turn[c] = "yielding" /\ Due(c)
    \/ turn[c] = "waiting" /\ Due(c) /\ changed[c] /\ ~cancelled[c]

\* In the last case, the change counts as noticed.
Noticed(c) == [changed EXCEPT ![c] = @ /\ turn[c] # "waiting"]

\* kill_deadline_reached.
KillReached(c) ==
    /\ Reached(c) /\ kill[c] = "due"
    /\ Move(c, turn[c], Grace(c))
    /\ SetCancel(c)
    /\ changed' = Noticed(c)
    /\ UNCHANGED <<work, offload, kill, armed, settings, bookkeeping, shutdown, history>>

WantsOffload(c) == policy \/ byUser[c]

\* Mutant of HandOver: the turn does not leave its loop.
HandOverContinues(c) ==
    /\ Reached(c) /\ kill[c] # "due" /\ WantsOffload(c)
    /\ turn' = [turn EXCEPT ![c] = "waiting"]
    /\ supervisor' = [supervisor EXCEPT ![c] = "waiting"]
    /\ status' = [status EXCEPT ![c] = "offloaded"]
    /\ offload' = [offload EXCEPT ![c] = "none"]
    /\ changed' = [Noticed(c) EXCEPT ![c] = @ \/ kill'[c] # kill[c]]
    /\ Rearm(c)
    /\ UNCHANGED <<entries, hints, work, signals, settings, shutdown, history>>

\* _begin_offload: the call changes hands.
HandOver(c) ==
    /\ Reached(c) /\ kill[c] # "due" /\ WantsOffload(c)
    /\ turn' = [turn EXCEPT ![c] = "offloaded"]
    /\ supervisor' = [supervisor EXCEPT ![c] = "waiting"]
    /\ status' = [status EXCEPT ![c] = "offloaded"]
    /\ offload' = [offload EXCEPT ![c] = "none"]
    /\ changed' = [Noticed(c) EXCEPT ![c] = @ \/ kill'[c] # kill[c]]
    /\ Rearm(c)
    /\ UNCHANGED <<entries, hints, work, signals, settings, shutdown, history>>

\* Mutant of BeginOffload: it trusts the check made by request_offload.
BeginOffloadUnchecked(c) == UNCHANGED kill /\ HandOver(c)

\* deadline_reached, to be offloaded: make sure first that the background work
\* is bounded.
BeginOffload(c) == CanOffload(c) /\ TopUp(c) /\ HandOver(c)

\* Mutant of KeepForeground: even if there is no kill deadline (#6245).
KeepForegroundAlways(c) ==
    /\ Reached(c)
    /\ Move(c, turn[c], "waiting")
    /\ kill[c] # "due" /\ ~WantsOffload(c)
    /\ offload' = [offload EXCEPT ![c] = "none"]
    /\ changed' = [changed EXCEPT ![c] = TRUE]
    /\ UNCHANGED kill
    /\ Rearm(c)
    /\ UNCHANGED <<work, signals, settings, bookkeeping, shutdown, history>>

\* deadline_reached, to stay in the foreground: only the kill deadline counts.
KeepForeground(c) ==
    /\ Reached(c)
    /\ Move(c, turn[c], "waiting")
    /\ kill[c] \notin {"none", "due"} /\ ~WantsOffload(c)
    /\ offload' = [offload EXCEPT ![c] = "none"]
    /\ changed' = [changed EXCEPT ![c] = TRUE]
    /\ UNCHANGED kill
    /\ Rearm(c)
    /\ UNCHANGED <<work, signals, settings, bookkeeping, shutdown, history>>

\* deadline_reached, but the call could go on without bound: cancel it.
DeadlineCancels(c) ==
    /\ Reached(c) /\ kill[c] # "due"
    /\ IF WantsOffload(c) THEN ~CanOffload(c) ELSE kill[c] = "none"
    /\ Move(c, turn[c], Grace(c))
    /\ SetCancel(c)
    /\ changed' = Noticed(c)
    /\ UNCHANGED <<work, offload, kill, armed, settings, bookkeeping, shutdown, history>>

\* _await_grace_or_force_cancel: the tool stops in time ...
GraceEnds(c) ==
    /\ Move(c, "grace", "joining") \/ Move(c, "reaping", "gathering")
    /\ tool[c] = "done"
    /\ UNCHANGED <<work, deadlines, signals, settings, bookkeeping, shutdown, history>>

\* Mutant of GraceExpires: the tool's task is not cancelled.
GraceExpiresQuietly(c) ==
    /\ Move(c, "grace", "joining") \/ Move(c, "reaping", "gathering")
    /\ ~Stopped(c)
    /\ UNCHANGED <<work, deadlines, signals, settings, bookkeeping, shutdown, history>>

\* ... or not, and is cancelled ...
GraceExpires(c) ==
    /\ Move(c, "grace", "joining") \/ Move(c, "reaping", "gathering")
    /\ ~Stopped(c)
    /\ ForceTool(c)
    /\ UNCHANGED <<deadlines, cancelled, byUser, settings, bookkeeping, shutdown, history>>

\* ... or somebody else's cancellation ends its task, which cancels this wait:
\* execute takes that for a cancelled turn, and a cancelled turn gives up.
GraceAborted(c) ==
    /\ Move(c, "grace", "gathering") \/ Move(c, "reaping", "lost")
    /\ tool[c] = "aborted"
    /\ UNCHANGED <<work, deadlines, signals, settings, bookkeeping, shutdown, history>>

\* Mutant of Answer: the result is taken without waiting for the task to end.
AnswerEarly(c) ==
    /\ Move(c, "joining", "answered")
    /\ Finalize(c)
    /\ UNCHANGED <<work, deadlines, signals, settings, shutdown, history>>

\* The tool's task has ended: _finalize_completed, and the result is yielded.
Answer(c) ==
    /\ Move(c, "joining", "answered")
    /\ Stopped(c)
    /\ Finalize(c)
    /\ UNCHANGED <<work, deadlines, signals, settings, shutdown, history>>

\* Mutant of TurnEnds: the status is not looked at.
TurnEndsAnyway(c) ==
    /\ \E from \in {"waiting", "ready", "yielding", "fired", "grace", "joining",
                  "offloaded"} :
         Move(c, from, IF Stopped(c) THEN "gathering" ELSE "reaping")
    /\ SetCancel(c)
    /\ UNCHANGED <<work, deadlines, settings, bookkeeping, shutdown, history>>

\* The turn is cancelled or the generator closed: _handle_parent_cancel, unless
\* the call is in the background by now.
TurnEnds(c) ==
    /\ \/ /\ \E from \in {"waiting", "ready", "yielding", "fired", "grace", "joining"} :
               Move(c, from, IF Stopped(c) THEN "gathering" ELSE "reaping")
          /\ SetCancel(c)
       \/ Move(c, "offloaded", "raised") /\ UNCHANGED signals
    /\ UNCHANGED <<work, deadlines, settings, bookkeeping, shutdown, history>>

\* The turn is cancelled again in _handle_parent_cancel: the entry stays.  gather
\* passes the cancellation on to the tool, the shielded grace period does not.
TurnEndsAgain(c) ==
    /\ \/ Move(c, "reaping", "lost") /\ UNCHANGED <<work, forced>>
       \/ Move(c, "gathering", "lost") /\ ForceTool(c)
    /\ UNCHANGED <<deadlines, cancelled, byUser, settings, bookkeeping, shutdown, history>>

\* Mutant of Reaped: the turn ends without gathering the tool's task.
ReapedEarly(c) ==
    /\ Move(c, "gathering", "raised")
    /\ Finalize(c)
    /\ UNCHANGED <<work, deadlines, signals, settings, shutdown, history>>

\* _handle_parent_cancel has gathered the tool's task.
Reaped(c) ==
    /\ Move(c, "gathering", "raised")
    /\ Stopped(c)
    /\ Finalize(c)
    /\ UNCHANGED <<work, deadlines, signals, settings, shutdown, history>>

-----------------------------------------------------------------------------
(* _supervise and _supervise_loop.                                         *)

\* It looks at the deadlines before it waits again.
Again(c) == IF Due(c) THEN "fired" ELSE "waiting"

SupervisorNoticesChange(c) == Supervise(c, "waiting", Again(c)) /\ NoticesChange(c)

SupervisorTimesOut(c) == Supervise(c, "waiting", "fired") /\ TimesOut(c)

\* The kill deadline was extended before the wait returned, or this is an offload
\* deadline: wait again.
SupervisorContinues(c) ==
    /\ Supervise(c, "fired", Again(c))
    /\ kill[c] # "due" /\ ~Stopped(c)
    /\ UNCHANGED <<offload, kill, changed>>
    /\ Rearm(c)
    /\ UNCHANGED <<work, signals, settings, bookkeeping, shutdown, history>>

SupervisorKills(c) ==
    /\ Supervise(c, "fired", Grace(c))
    /\ kill[c] = "due"
    /\ SetCancel(c)
    /\ UNCHANGED <<work, deadlines, settings, bookkeeping, shutdown, history>>

SupervisorCancelled(c) ==
    /\ Supervise(c, "waiting", Grace(c))
    /\ cancelled[c]
    /\ UNCHANGED <<work, deadlines, signals, settings, bookkeeping, shutdown, history>>

\* The tool's task has ended, before or within the grace period.
SupervisorJoins(c) ==
    /\ \/ Supervise(c, "waiting", "joining") /\ Stopped(c)
       \/ Supervise(c, "fired", "joining") /\ Stopped(c)
       \/ Supervise(c, "grace", "joining") /\ tool[c] = "done"
    /\ UNCHANGED <<work, deadlines, signals, settings, bookkeeping, shutdown, history>>

SupervisorForces(c) ==
    /\ Supervise(c, "grace", "joining")
    /\ ~Stopped(c)
    /\ ForceTool(c)
    /\ UNCHANGED <<deadlines, cancelled, byUser, settings, bookkeeping, shutdown, history>>

\* As GraceAborted; here nobody catches it.
SupervisorAborted(c) ==
    /\ Supervise(c, "grace", "dead")
    /\ tool[c] = "aborted"
    /\ UNCHANGED <<work, deadlines, signals, settings, bookkeeping, shutdown, history>>

SupervisorFinalizes(c) ==
    /\ Supervise(c, "joining", "reporting")
    /\ Stopped(c)
    /\ Finalize(c)
    /\ UNCHANGED <<work, deadlines, signals, settings, shutdown, history>>

\* The hint is queued, for the session's next reasoning step.
Report(c) ==
    /\ Supervise(c, "reporting", "over")
    /\ hints' = [hints EXCEPT ![c] = @ + 1]
    /\ UNCHANGED <<entries, status, work, deadlines, signals, settings, shutdown, history>>

-----------------------------------------------------------------------------
(* Interventions.                                                          *)

Requested(c) ==
    /\ c \in entries
    /\ requests[c] < MaxRequests
    /\ requests' = [requests EXCEPT ![c] = @ + 1]

RequestOffload(c) ==
    /\ Requested(c)
    /\ status[c] = "running" /\ CanOffload(c)
    /\ TopUp(c)
    /\ offload' = [offload EXCEPT ![c] = "due"]
    /\ byUser' = [byUser EXCEPT ![c] = TRUE]
    /\ changed' = [changed EXCEPT ![c] = TRUE]
    /\ UNCHANGED <<owners, work, armed, cancelled, forced, settings, bookkeeping,
                   shutdown, unlimited>>

\* cancel, by a user, an agent (TaskStop) or, with force, through the API.
Cancel(c) ==
    /\ Requested(c)
    /\ SetCancel(c)
    /\ UNCHANGED <<owners, work, deadlines, settings, bookkeeping, shutdown, unlimited>>

ForceCancel(c) ==
    /\ Requested(c)
    /\ cancelled' = [cancelled EXCEPT ![c] = TRUE]
    /\ ForceTool(c)
    /\ UNCHANGED <<owners, deadlines, byUser, settings, bookkeeping, shutdown, unlimited>>

ExtendOffload(c) ==
    /\ Requested(c)
    /\ status[c] = "running"
    /\ \E d \in {"none", "set"} :
         /\ offload' = [offload EXCEPT ![c] = d]
         /\ unlimited' = [unlimited EXCEPT ![c] = @ \/ d = "none"]
    /\ changed' = [changed EXCEPT ![c] = TRUE]
    /\ UNCHANGED <<owners, work, kill, armed, signals, settings, bookkeeping, shutdown>>

\* extend_kill_deadline: the last bound of a capped or offloaded call stays.
ExtendKill(c) ==
    /\ Requested(c)
    /\ \E k \in {"none", "short", "ample"} :
         /\ k = "none" => ~capped[c] /\ status[c] # "offloaded"
         /\ kill' = [kill EXCEPT ![c] = k]
         /\ unlimited' = [unlimited EXCEPT ![c] = @ \/ k = "none"]
    /\ changed' = [changed EXCEPT ![c] = TRUE]
    /\ UNCHANGED <<owners, work, offload, armed, signals, settings, bookkeeping, shutdown>>

\* set_agent_tool_timeout and clear_agent_tool_timeouts, on behalf of another
\* request of the same agent, and PUT /offload-policy.
Reconfigure(c) ==
    /\ Requested(c)
    /\ \/ timeout' = [timeout EXCEPT ![c] = ~@] /\ UNCHANGED policy
       \/ policy' = ~policy /\ UNCHANGED timeout
    /\ UNCHANGED <<owners, work, deadlines, signals, capped, bookkeeping, shutdown,
                   unlimited>>

\* shutdown: signal all calls, and cancel each that outlasts its grace period.
Shutdown ==
    /\ ~stopping
    /\ stopping' = TRUE
    /\ shutting' = entries
    /\ cancelled' = [c \in Calls |-> cancelled[c] \/ c \in entries]
    /\ UNCHANGED <<owners, work, deadlines, byUser, forced, settings, bookkeeping, history>>

ShutdownNext(c) ==
    /\ c \in shutting
    /\ shutting' = shutting \ {c}
    /\ ForceTool(c)
    /\ UNCHANGED <<owners, deadlines, cancelled, byUser, settings, bookkeeping, stopping,
                   history>>

\* Time passes, which counts as long as the call has not ended.
OffloadPasses(c) ==
    /\ c \in entries
    /\ offload[c] = "set"
    /\ offload' = [offload EXCEPT ![c] = "due"]
    /\ UNCHANGED <<owners, work, kill, armed, changed, signals, settings, bookkeeping,
                   shutdown, history>>

KillPasses(c) ==
    /\ c \in entries
    /\ \/ kill[c] = "ample" /\ kill' = [kill EXCEPT ![c] = "short"]
       \/ kill[c] = "short" /\ kill' = [kill EXCEPT ![c] = "due"]
    /\ UNCHANGED <<owners, work, offload, armed, changed, signals, settings, bookkeeping,
                   shutdown, history>>

-----------------------------------------------------------------------------

ToolStep(c) ==
    \/ ArmKill(c) \/ ToolStreams(c) \/ SetupBegins(c) \/ SetupEnds(c) \/ ToolEnds(c)
    \/ StreamCloses(c)

TurnStep(c) ==
    \/ TakesChunk(c) \/ Resumes(c) \/ StreamClosed(c)
    \/ TurnNoticesChange(c) \/ TurnTimesOut(c) \/ TurnCancelled(c)
    \/ KillReached(c) \/ BeginOffload(c) \/ KeepForeground(c) \/ DeadlineCancels(c)
    \/ GraceEnds(c) \/ GraceExpires(c) \/ GraceAborted(c) \/ Answer(c) \/ Reaped(c)

SupervisorStep(c) ==
    \/ SupervisorNoticesChange(c) \/ SupervisorTimesOut(c) \/ SupervisorContinues(c)
    \/ SupervisorKills(c) \/ SupervisorCancelled(c) \/ SupervisorJoins(c)
    \/ SupervisorForces(c) \/ SupervisorAborted(c) \/ SupervisorFinalizes(c) \/ Report(c)

Intervention(c) ==
    \/ RequestOffload(c) \/ Cancel(c) \/ ForceCancel(c) \/ ExtendOffload(c)
    \/ ExtendKill(c) \/ Reconfigure(c) \/ ShutdownNext(c)

Step(c) ==
    \/ Execute(c)
    \/ ToolStep(c)
    \/ TurnStep(c) \/ TurnEnds(c) \/ TurnEndsAgain(c)
    \/ SupervisorStep(c)
    \/ Intervention(c)
    \/ OffloadPasses(c) \/ KillPasses(c)

Next == Shutdown \/ \E c \in Calls : Step(c)

Spec == Init /\ [][Next]_vars

\* Tasks that are ready run, an agent takes what it is given, time passes, a stream
\* that closes is closed, and a tool whose task was cancelled ends.  Nobody has to
\* intervene, and a tool need not end by itself, nor when it is asked to, nor yield
\* anything.
Fairness ==
    \A c \in Calls :
        /\ WF_vars(TurnStep(c))
        /\ WF_vars(SupervisorStep(c))
        /\ WF_vars(StreamCloses(c))
        /\ WF_vars(forced[c] /\ ToolEnds(c))
        /\ WF_vars(OffloadPasses(c))
        /\ WF_vars(KillPasses(c))

FairSpec == Spec /\ Fairness

-----------------------------------------------------------------------------
(* Properties                                                              *)

InTurn(c) ==
    turn[c] \in {"waiting", "ready", "yielding", "fired", "grace", "joining", "reaping",
                 "gathering"}
InBackground(c) == supervisor[c] \in {"waiting", "fired", "grace", "joining"}

\* A second cancellation of the turn, or one of the tool's task at the wrong
\* moment, ended the task that was in charge.
Abandoned(c) == turn[c] = "lost" \/ supervisor[c] = "dead"

\* "single owner of all in-flight tool calls": a call in _entries is in the
\* hands of its turn or of its supervisor, never of both, and of nobody only
\* when it was abandoned.
OneOwner ==
    \A c \in Calls :
        /\ ~(InTurn(c) /\ InBackground(c))
        /\ c \in entries <=> InTurn(c) \/ InBackground(c) \/ Abandoned(c)

\* "Offload must not create unbounded background work" (execute): a call in the
\* background always has a kill deadline, whatever users extend or remove and
\* however the timeouts are reconfigured meanwhile.
BackgroundIsBounded ==
    \A c \in Calls : status[c] = "offloaded" => kill[c] # "none"

\* No deadline is slept through: whoever waits for the next event of a call that
\* has a deadline, set or moved by anybody at any time, wakes up for it or for the
\* change.
NoLostWakeup ==
    \A c \in Calls :
        /\ turn[c] = "waiting" \/ supervisor[c] = "waiting"
        /\ offload[c] # "none" \/ kill[c] # "none"
        => armed[c] \/ changed[c]

\* A call is completed, and gone from _entries, only when its tool has ended.
CompletedHasEnded ==
    \A c \in Calls : status[c] = "completed" => Stopped(c) /\ c \notin entries

\* The agent learns of the result of a call once: a call that was moved to the
\* background by one notification, any other by its result.
ToldOnce ==
    \A c \in Calls :
        /\ hints[c] <= 1
        /\ hints[c] = 1 => turn[c] \in {"offloaded", "raised"} /\ status[c] = "completed"

\* "You will be notified when it finishes" (_begin_offload): a call in the
\* background ends and is reported, unless its supervisor was killed.
OffloadedIsReported ==
    \A c \in Calls :
        status[c] = "offloaded" ~> (hints[c] = 1 \/ supervisor[c] = "dead")

\* No call "waits forever" for a tool that has a timeout (#6245, in execute): it
\* ends, unless a user removed a deadline or it was abandoned.
TimedCallEnds ==
    \A c \in Calls :
        (c \in entries /\ offload[c] # "none")
            ~> (c \notin entries \/ unlimited[c] \/ Abandoned(c))

\* A tool whose chunks keep its turn busy, with no deadline to interrupt it.
Floods(c) == turn[c] = "ready" /\ offload[c] = "none" /\ kill[c] = "none"

\* A call that was cancelled ends, even if its tool ignores that, unless it was
\* abandoned or has no deadline and its tool never stops to yield chunks.
CancelledCallEnds ==
    \A c \in Calls :
        \/ (c \in entries /\ cancelled[c]) ~> (c \notin entries \/ Abandoned(c))
        \/ []<>Floods(c)

\* What the phases of a call are for its agent: a call with a supervisor is the
\* supervisor's, whatever became of the turn that started it.
Phase(c) ==
    CASE turn[c] = "idle" -> "new"
      [] InBackground(c) -> "background"
      [] supervisor[c] = "reporting" -> "ended"
      [] supervisor[c] = "over" \/ turn[c] = "answered" -> "told"
      [] Abandoned(c) -> "abandoned"
      [] supervisor[c] = "none" /\ InTurn(c) -> "foreground"
      [] supervisor[c] = "none" /\ turn[c] = "raised" -> "given up"

Contract == INSTANCE ToolCall WITH
    phase <- [c \in Calls |-> Phase(c)],
    ended <- {c \in Calls : Stopped(c)}

\* The coordinator implements the contract of ToolCall: however deadlines,
\* cancellations and interventions fall, a call passes through the phases of the
\* contract in its order, and its agent hears of a tool only when that has ended.
KeepsContract == Contract!Spec

=============================================================================
