------------------------------ MODULE ToolCall ------------------------------
(***************************************************************************)
(* What the coordinator of tool calls promises the agent that makes them,  *)
(* without its tasks, deadlines and signals: a call is in the foreground,  *)
(* or moves to the background once and for all; the agent is told of it    *)
(* once, and not before its tool has ended; an agent that is cancelled     *)
(* waits for the tool to end.  A call can be abandoned, which tells nobody *)
(* anything.                                                               *)
(***************************************************************************)
CONSTANT Calls

VARIABLES
    phase,   \* of each call, for its agent
    ended    \* the calls whose tools have ended

Init == phase = [c \in Calls |-> "new"] /\ ended = {}

Become(c, from, to) == phase[c] = from /\ phase' = [phase EXCEPT ![c] = to]

Start(c) == Become(c, "new", "foreground") /\ UNCHANGED ended

ToolEnds(c) ==
    /\ phase[c] # "new" /\ c \notin ended
    /\ ended' = ended \cup {c}
    /\ UNCHANGED phase

\* In the foreground, the agent waits for the result ...
Answer(c) == c \in ended /\ Become(c, "foreground", "told") /\ UNCHANGED ended

\* ... or is cancelled, and waits for the tool to end ...
GiveUp(c) == c \in ended /\ Become(c, "foreground", "given up") /\ UNCHANGED ended

\* ... or goes on, and is told of the result when there is one.
Offload(c) == Become(c, "foreground", "background") /\ UNCHANGED ended
Finish(c) == c \in ended /\ Become(c, "background", "ended") /\ UNCHANGED ended
Notify(c) == Become(c, "ended", "told") /\ UNCHANGED ended

\* A cancellation at the wrong moment ends the task in charge, perhaps together
\* with the tool.
Abandon(c) ==
    /\ Become(c, "foreground", "abandoned") \/ Become(c, "background", "abandoned")
    /\ ended' \in {ended, ended \cup {c}}

Next ==
    \E c \in Calls :
        \/ Start(c) \/ ToolEnds(c) \/ Answer(c) \/ GiveUp(c)
        \/ Offload(c) \/ Finish(c) \/ Notify(c) \/ Abandon(c)

Spec == Init /\ [][Next]_<<phase, ended>>

=============================================================================
