----------------------------- MODULE EventStream -----------------------------
(***************************************************************************)
(* What the task tracker promises those who start, follow and stop agent   *)
(* runs, without its tasks, queues and buffers: a chat has one open run at *)
(* a time; the events of a run are a log that grows while the run is open; *)
(* whoever follows the run, from whenever on, is given the log from its    *)
(* first event to the next, and hears that it is over when the run is and  *)
(* all of it was given.  A run can also be cut, which tells nobody         *)
(* anything.                                                               *)
(***************************************************************************)
EXTENDS Naturals

CONSTANTS Keys, Runs, Subscribers, None

VARIABLES
    current,   \* the open run of each chat
    phase,     \* of each run
    made,      \* how many events each run has
    follows,   \* the run each subscriber follows
    got,       \* how many of its events the subscriber was given
    told       \* the subscribers that heard it is over

vars == <<current, phase, made, follows, got, told>>

Init ==
    /\ current = [k \in Keys |-> None]
    /\ phase = [r \in Runs |-> "new"]
    /\ made = [r \in Runs |-> 0]
    /\ follows = [q \in Subscribers |-> None]
    /\ got = [q \in Subscribers |-> 0]
    /\ told = {}

Follow(q, r) == follows[q] = None /\ follows' = [follows EXCEPT ![q] = r]

Open(k, q, r) ==
    /\ current[k] = None /\ current' = [current EXCEPT ![k] = r]
    /\ phase[r] = "new" /\ phase' = [phase EXCEPT ![r] = "open"]
    /\ Follow(q, r)
    /\ UNCHANGED <<made, got, told>>

Join(k, q) ==
    /\ current[k] # None
    /\ Follow(q, current[k])
    /\ UNCHANGED <<current, phase, made, got, told>>

Publish(r) ==
    /\ phase[r] = "open"
    /\ made' = [made EXCEPT ![r] = @ + 1]
    /\ UNCHANGED <<current, phase, follows, got, told>>

End(k) == LET r == current[k] IN
    /\ r # None
    /\ current' = [current EXCEPT ![k] = None]
    /\ \E p \in {"over", "cut"} : phase' = [phase EXCEPT ![r] = p]
    /\ UNCHANGED <<made, follows, got, told>>

Receive(q) ==
    /\ q \notin told
    /\ follows[q] # None
    /\ got[q] < made[follows[q]]
    /\ got' = [got EXCEPT ![q] = @ + 1]
    /\ UNCHANGED <<current, phase, made, follows, told>>

Hear(q) ==
    /\ q \notin told
    /\ follows[q] # None
    /\ phase[follows[q]] = "over" /\ got[q] = made[follows[q]]
    /\ told' = told \cup {q}
    /\ UNCHANGED <<current, phase, made, follows, got>>

Next ==
    \/ \E k \in Keys, q \in Subscribers : Join(k, q) \/ \E r \in Runs : Open(k, q, r)
    \/ \E k \in Keys : End(k)
    \/ \E r \in Runs : Publish(r)
    \/ \E q \in Subscribers : Receive(q) \/ Hear(q)

Spec == Init /\ [][Next]_vars

=============================================================================
