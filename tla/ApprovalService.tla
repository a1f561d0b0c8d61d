--------------------------- MODULE ApprovalService ---------------------------
(***************************************************************************)
(* ApprovalService (app/approvals/service.py): the store of tool calls     *)
(* that wait for a user's approval, and the agents, users, timers and      *)
(* cancellations that race for each record.                                *)
(*                                                                         *)
(* No critical section of the service's lock contains an await, so a       *)
(* method runs in one step up to the await of the record's Future, and     *)
(* check-then-resolve in the approval endpoints is one step too.           *)
(***************************************************************************)
EXTENDS Naturals, FiniteSets

CONSTANTS
    Requests,    \* request_id of each approval ever asked for
    Sessions,    \* session ids
    Calls,       \* tool call ids
    NoCall,      \* an approval asked for without a tool call id
    SessionOf,   \* the session of each request
    RootOf,      \* the root session of each request
    CallOf,      \* the tool call of each request
    MaxPending,  \* _GC_MAX_PENDING
    MaxAge,      \* _GC_PENDING_MAX_AGE_SECONDS
    Times        \* the readings of the wall clock

ASSUME ConstantsAssumption ==
    /\ IsFiniteSet(Requests)
    /\ SessionOf \in [Requests -> Sessions]
    /\ RootOf \in [Requests -> Sessions]
    /\ CallOf \in [Requests -> Calls \cup {NoCall}]
    /\ MaxPending \in Nat \ {0}
    /\ MaxAge \in Nat
    /\ Times \subseteq Nat

VARIABLES
    inline,     \* the Python the process runs on.  TRUE: asyncio.wait_for awaits
                \* the Future itself (3.12, 3.13); FALSE: the Future or a timer
                \* (3.11)
    pending,    \* _pending
    place,      \* the order in which the records in the dict were put into it
    created,    \* PendingApproval.created_at
    status,     \* PendingApproval.status
    future,     \* PendingApproval.future
    waiter,     \* where wait_for_approval stands
    fired,      \* its timer went off
    decision,   \* what it returned
    verdict,    \* history: the decision a user made and was told took effect
    clock,      \* history: what time.time() has read last
    stepped     \* history: it has once read less than before

vars == <<inline, pending, place, created, status, future, waiter, fired,
          decision, verdict, clock, stepped>>

\* What only Create changes.
made == <<place, created, clock, stepped>>

Decisions == {"approved", "denied", "timeout"}
Statuses == Decisions \cup {"none", "pending", "superseded", "cancelled"}
Futures == Decisions \cup {"unset", "cancelled"}
WaiterPC == {"idle", "waiting", "expiring", "returned", "cancelled"}

TypeOK ==
    /\ inline \in BOOLEAN
    /\ pending \subseteq Requests
    /\ place \in [Requests -> Nat]
    /\ created \in [Requests -> Nat]
    /\ status \in [Requests -> Statuses]
    /\ future \in [Requests -> Futures]
    /\ waiter \in [Requests -> WaiterPC]
    /\ fired \in [Requests -> BOOLEAN]
    /\ decision \in [Requests -> Decisions \cup {"none"}]
    /\ verdict \in [Requests -> {"approved", "denied", "none"}]
    /\ clock \in Nat
    /\ stepped \in BOOLEAN

Init ==
    /\ inline \in BOOLEAN
    /\ pending = {}
    /\ place = [r \in Requests |-> 0]
    /\ created = [r \in Requests |-> 0]
    /\ status = [r \in Requests |-> "none"]
    /\ future = [r \in Requests |-> "unset"]
    /\ waiter = [r \in Requests |-> "idle"]
    /\ fired = [r \in Requests |-> FALSE]
    /\ decision = [r \in Requests |-> "none"]
    /\ verdict = [r \in Requests |-> "none"]
    /\ clock = 0
    /\ stepped = FALSE

-----------------------------------------------------------------------------
(* The store.                                                              *)

\* "if not pending.future.done(): pending.future.set_result(value)"
Settle(set, value) ==
    [p \in Requests |-> IF p \in set /\ future[p] = "unset" THEN value
                                                            ELSE future[p]]

\* cancel_stale_pending_for_tool_call: what an earlier attempt at the tool call
\* of r has left.
Stale(r) == {p \in pending : /\ CallOf[r] # NoCall
                             /\ CallOf[p] = CallOf[r]
                             /\ SessionOf[p] = SessionOf[r]}

\* _gc_pending_locked, reading now: the records of kept that are too old ...
Expired(kept, now) == {p \in kept : created'[p] + MaxAge < now}

\* ... and, of the rest, the first ones beyond MaxPending in a stable sort of
\* the dict by creation time.
Precedes(p, q) == \/ created'[p] < created'[q]
                  \/ created'[p] = created'[q] /\ place'[p] < place'[q]

Overflow(rest) ==
    {p \in rest : Cardinality({q \in rest : Precedes(p, q)}) >= MaxPending}

Evicted(kept, now) ==
    Expired(kept, now) \cup Overflow(kept \ Expired(kept, now))

\* The record is created and put last into the dict, as the clock reads now.
\* When records that have left the dict were created no longer matters.
Create(r, now) ==
    /\ place' = [p \in Requests |->
                   CASE p = r -> 1 + Cardinality({q \in Requests : waiter[q] # "idle"})
                     [] p \in pending \ {r} -> place[p]
                     [] OTHER -> 0]
    /\ created' = [p \in Requests |->
                     CASE p = r -> now
                       [] p \in pending \ {r} -> created[p]
                       [] OTHER -> 0]
    /\ clock' = now
    /\ stepped' = (stepped \/ now < clock)

\* Mutants of Ask: evicted records keep an unset Future; the newest records are
\* evicted.
AskWith(r, now, evicted(_), settled(_, _)) ==
    /\ waiter[r] = "idle"
    /\ Create(r, now)
    /\ LET stale == Stale(r)
           kept  == (pending \ stale) \cup {r}
           old   == evicted(kept)
       IN  /\ pending' = kept \ old
           /\ future' = Settle(settled(stale, old), "timeout")
           /\ status' = [p \in Requests |->
                           CASE p \in old -> "timeout"
                             [] p \in stale -> "superseded"
                             [] p \in {r} \ old -> "pending"
                             [] OTHER -> status[p]]
           /\ IF r \in old
              THEN /\ waiter' = [waiter EXCEPT ![r] = "returned"]
                   /\ decision' = [decision EXCEPT ![r] = "denied"]
              ELSE /\ waiter' = [waiter EXCEPT ![r] = "waiting"]
                   /\ UNCHANGED decision
    /\ UNCHANGED <<inline, fired, verdict>>

AskEvictsSilently(r, now) ==
    AskWith(r, now, LAMBDA kept : Evicted(kept, now), LAMBDA stale, old : stale)

AskEvictsNewest(r, now) ==
    AskWith(r, now,
            LAMBDA kept :
                {p \in kept :
                    Cardinality({q \in kept : Precedes(q, p)}) >= MaxPending},
            LAMBDA stale, old : stale \cup old)

\* _ask_user_approval up to the await: the stale records of the tool call are
\* superseded, the record is created, the garbage collector runs and
\* wait_for_approval looks the record up.  If it is gone, that raises, and the
\* caller takes the tool call for denied.  The readings of the clock within the
\* call are taken as one.
Ask(r, now) ==
    /\ waiter[r] = "idle"
    /\ Create(r, now)
    /\ LET stale == Stale(r)
           kept  == (pending \ stale) \cup {r}
           old   == Evicted(kept, now)
       IN  /\ pending' = kept \ old
           /\ future' = Settle(stale \cup old, "timeout")
           /\ status' = [p \in Requests |->
                           CASE p \in old -> "timeout"
                             [] p \in stale -> "superseded"
                             [] p \in {r} \ old -> "pending"
                             [] OTHER -> status[p]]
           /\ IF r \in old
              THEN /\ waiter' = [waiter EXCEPT ![r] = "returned"]
                   /\ decision' = [decision EXCEPT ![r] = "denied"]
              ELSE /\ waiter' = [waiter EXCEPT ![r] = "waiting"]
                   /\ UNCHANGED decision
    /\ UNCHANGED <<inline, fired, verdict>>

\* resolve_request, called by the user's side: the approval endpoints, the
\* /approval command (with a request id, or for the oldest request of its
\* session) and the ACP bridge.  A request no longer pending is "not found".
Decide(r, d) ==
    /\ r \in pending
    /\ pending' = pending \ {r}
    /\ status' = [status EXCEPT ![r] = d]
    /\ future' = Settle({r}, d)
    /\ verdict' = [verdict EXCEPT ![r] = d]
    /\ UNCHANGED <<inline, waiter, fired, decision, made>>

\* Mutant of CancelAll: the futures are settled with the wrong decision.
CancelAllApproves(s) == LET tree == {p \in pending : RootOf[p] = s} IN
    /\ tree # {}
    /\ pending' = pending \ tree
    /\ status' = [p \in Requests |-> IF p \in tree THEN "cancelled" ELSE status[p]]
    /\ future' = Settle(tree, "approved")
    /\ UNCHANGED <<inline, waiter, fired, decision, verdict, made>>

\* cancel_all_pending_by_root_session: CancelCleanupHook, after the run was
\* cancelled and unless a second cancellation skips the hook, or an ACP client
\* that cancels its session.
CancelAll(s) == LET tree == {p \in pending : RootOf[p] = s} IN
    /\ tree # {}
    /\ pending' = pending \ tree
    /\ status' = [p \in Requests |-> IF p \in tree THEN "cancelled" ELSE status[p]]
    /\ future' = Settle(tree, "denied")
    /\ UNCHANGED <<inline, waiter, fired, decision, verdict, made>>

-----------------------------------------------------------------------------
(* wait_for_approval.                                                      *)

\* The timer of wait_for goes off.  Awaiting in line, it cancels the task and
\* through it the Future the task waits for.
TimerFires(r) ==
    /\ waiter[r] = "waiting"
    /\ ~fired[r]
    /\ fired' = [fired EXCEPT ![r] = TRUE]
    /\ future' = IF inline THEN Settle({r}, "cancelled") ELSE future
    /\ UNCHANGED <<inline, pending, status, waiter, decision, verdict, made>>

\* wait_for returns the Future's result.  Awaiting in line, a timer that went
\* off before the task ran wins over a result.
Return(r) ==
    /\ waiter[r] = "waiting"
    /\ future[r] \in Decisions
    /\ inline => ~fired[r]
    /\ waiter' = [waiter EXCEPT ![r] = "returned"]
    /\ decision' = [decision EXCEPT ![r] = future[r]]
    /\ UNCHANGED <<inline, pending, status, future, fired, verdict, made>>

\* Not in line: the task sees the timer with the Future unset, cancels the
\* Future and lets the event loop run once.
GiveUp(r) ==
    /\ ~inline
    /\ waiter[r] = "waiting"
    /\ fired[r]
    /\ future[r] = "unset"
    /\ waiter' = [waiter EXCEPT ![r] = "expiring"]
    /\ future' = Settle({r}, "cancelled")
    /\ UNCHANGED <<inline, pending, status, fired, decision, verdict, made>>

\* Mutants of TimeOut: what the Future holds is returned; the record's status is
\* set although somebody else has removed it.
TimeOutReturnsFuture(r) ==
    /\ \/ inline /\ waiter[r] = "waiting" /\ fired[r]
       \/ waiter[r] = "expiring"
    /\ waiter' = [waiter EXCEPT ![r] = "returned"]
    /\ decision' = [decision EXCEPT ![r] = future[r]]
    /\ pending' = pending \ {r}
    /\ status' = [status EXCEPT ![r] = IF r \in pending THEN "timeout" ELSE @]
    /\ UNCHANGED <<inline, future, fired, verdict, made>>

TimeOutOverwrites(r) ==
    /\ \/ inline /\ waiter[r] = "waiting" /\ fired[r]
       \/ waiter[r] = "expiring"
    /\ waiter' = [waiter EXCEPT ![r] = "returned"]
    /\ decision' = [decision EXCEPT ![r] = "timeout"]
    /\ pending' = pending \ {r}
    /\ status' = [status EXCEPT ![r] = "timeout"]
    /\ UNCHANGED <<inline, future, fired, verdict, made>>

\* TimeoutError: the answer is TIMEOUT, and resolve_request removes the record
\* if nobody has.
TimeOut(r) ==
    /\ \/ inline /\ waiter[r] = "waiting" /\ fired[r]
       \/ waiter[r] = "expiring"
    /\ waiter' = [waiter EXCEPT ![r] = "returned"]
    /\ decision' = [decision EXCEPT ![r] = "timeout"]
    /\ pending' = pending \ {r}
    /\ status' = [status EXCEPT ![r] = IF r \in pending THEN "timeout" ELSE @]
    /\ UNCHANGED <<inline, future, fired, verdict, made>>

\* The task that waits is cancelled (/stop, shutdown): the Future is cancelled
\* and the record stays in _pending.  Not in line, wait_for returns a result
\* that is there and swallows the cancellation.
WaiterCancelled(r) ==
    /\ \/ waiter[r] = "waiting" /\ (inline \/ future[r] = "unset")
       \/ waiter[r] = "expiring"
    /\ waiter' = [waiter EXCEPT ![r] = "cancelled"]
    /\ future' = Settle({r}, "cancelled")
    /\ UNCHANGED <<inline, pending, status, fired, decision, verdict, made>>

-----------------------------------------------------------------------------

Waiting(r) == Return(r) \/ GiveUp(r) \/ TimeOut(r)

Next ==
    \/ \E r \in Requests :
        \/ \E now \in Times : Ask(r, now)
        \/ \E d \in {"approved", "denied"} : Decide(r, d)
        \/ TimerFires(r)
        \/ Waiting(r)
        \/ WaiterCancelled(r)
    \/ \E s \in Sessions : CancelAll(s)

Spec == Init /\ [][Next]_vars

\* The event loop runs a task whose Future or timer is done.  Timers are left
\* out: a property must not lean on the 5 minutes running out.
Fairness == \A r \in Requests : WF_vars(Waiting(r))

FairSpec == Spec /\ Fairness

-----------------------------------------------------------------------------
(* Properties                                                              *)

\* Six paths remove a record, each on its own terms (resolve, time-out,
\* supersede, two kinds of eviction, cancel): whichever comes first, a record
\* is in _pending exactly as long as its status is "pending".
StoreInv == \A r \in Requests : r \in pending <=> status[r] = "pending"

\* Whoever removes a record has settled its Future, so no agent is left waiting
\* for a record nobody can find any more.
NobodyStranded ==
    \A r \in Requests :
        waiter[r] = "waiting" /\ r \notin pending => future[r] # "unset"

\* A tool runs only if a user approved this very request: no time-out,
\* eviction, superseding or cancellation is ever taken for an approval, and a
\* denial never turns into one.
ApprovedByUser ==
    \A r \in Requests :
        decision[r] = "approved" => verdict[r] = "approved"

\* The inductive form of the three properties above.
ApprovalInv ==
    /\ StoreInv
    /\ NobodyStranded
    /\ ApprovedByUser
    /\ \A r \in Requests : future[r] = "approved" => verdict[r] = "approved"
    /\ \A r \in Requests : waiter[r] = "idle" => status[r] = "none"
    /\ \A r \in Requests : verdict[r] # "none" => status[r] = verdict[r]

\* A user is told at most once that a decision took effect, and nothing
\* rewrites the outcome of a record afterwards.
OutcomeIsFinal ==
    [][\A r \in Requests :
         /\ status[r] \notin {"none", "pending"} => status'[r] = status[r]
         /\ verdict[r] # "none" => verdict'[r] = verdict[r]]_vars

\* What an agent is told is what became of its record ("denied" also when its
\* run was cancelled): one that was superseded, evicted or is still open is told
\* "timeout" and nothing else.  A record that evicted itself is taken for denied
\* by the user, but only a clock set back makes it the oldest.
AnswersAreTrue ==
    \A r \in Requests :
        /\ decision[r] = "approved" => status[r] = "approved"
        /\ decision[r] = "denied" => status[r] \in {"denied", "cancelled"} \/ stepped

\* An agent whose record is gone gets an answer, without any timer.
ReleasedReturns ==
    \A r \in Requests :
        (waiter[r] = "waiting" /\ r \notin pending) ~> waiter[r] # "waiting"

\* "Tool ... approved, executing..." (the answer of /approve): an approval the
\* user was told took effect is what the waiting agent gets.
ApprovedIsExecuted ==
    \A r \in Requests :
        verdict[r] = "approved" /\ waiter[r] = "returned"
            => decision[r] = "approved"

=============================================================================
