--------------------------- MODULE ApprovalProofs ---------------------------
(***************************************************************************)
(* Theorems about ApprovalService, for every set of requests, sessions and *)
(* tool calls and every bound on the store.                                *)
(***************************************************************************)
EXTENDS ApprovalService, FiniteSetTheorems, TLAPS

\* Settling futures never changes one that is done.
LEMMA SettleType ==
    ASSUME TypeOK, NEW set, NEW v \in Futures
    PROVE  Settle(set, v) \in [Requests -> Futures]
BY DEF Settle, TypeOK

\* A new record has a place and a creation time.
LEMMA CreateType ==
    ASSUME TypeOK, NEW r \in Requests, NEW now \in Times, Create(r, now)
    PROVE  /\ place' \in [Requests -> Nat] /\ created' \in [Requests -> Nat]
           /\ clock' \in Nat /\ stepped' \in BOOLEAN
<1> DEFINE n == Cardinality({q \in Requests : waiter[q] # "idle"})
<1>1. n \in Nat
  BY FS_Subset, FS_CardinalityType, ConstantsAssumption
<1>2. place' = [p \in Requests |->
                  CASE p = r -> 1 + n
                    [] p \in pending \ {r} -> place[p]
                    [] OTHER -> 0]
  BY DEF Create
<1> HIDE DEF n
<1>3. place' \in [Requests -> Nat]
  BY <1>1, <1>2 DEF TypeOK
<1>4. now \in Nat
  BY ConstantsAssumption
<1> QED BY <1>3, <1>4 DEF Create, TypeOK

\* The garbage collector evicts records of the store only.
LEMMA EvictedAreKept ==
    ASSUME NEW kept, NEW now PROVE Evicted(kept, now) \subseteq kept
BY DEF Evicted, Expired, Overflow

\* Type correctness.
THEOREM TypeCorrect == Spec => []TypeOK
<1>1. Init => TypeOK
  <2> SUFFICES ASSUME Init PROVE TypeOK
    OBVIOUS
  <2>1. /\ place \in [Requests -> Nat] /\ created \in [Requests -> Nat]
        /\ clock \in Nat
    BY DEF Init
  <2>2. stepped \in BOOLEAN /\ inline \in BOOLEAN /\ fired \in [Requests -> BOOLEAN]
    BY DEF Init
  <2> QED BY <2>1, <2>2 DEF Init, TypeOK, Statuses, Futures, Decisions, WaiterPC
<1>2. TypeOK /\ [Next]_vars => TypeOK'
  <2> SUFFICES ASSUME TypeOK, [Next]_vars PROVE TypeOK'
    OBVIOUS
  <2> USE DEF made
  <2>1. ASSUME NEW r \in Requests, NEW now \in Times, Ask(r, now) PROVE TypeOK'
    <3>1. /\ place' \in [Requests -> Nat] /\ created' \in [Requests -> Nat]
          /\ clock' \in Nat /\ stepped' \in BOOLEAN
      BY <2>1, CreateType DEF Ask
    <3> DEFINE kept == (pending \ Stale(r)) \cup {r}
               old  == Evicted(kept, now)
    <3>2. /\ pending' = kept \ old
          /\ future' = Settle(Stale(r) \cup old, "timeout")
          /\ status' = [p \in Requests |->
                          CASE p \in old -> "timeout"
                            [] p \in Stale(r) -> "superseded"
                            [] p \in {r} \ old -> "pending"
                            [] OTHER -> status[p]]
      BY <2>1 DEF Ask
    <3> HIDE DEF old
    <3>3. pending' \subseteq Requests
      BY <3>2 DEF TypeOK
    <3>4. future' \in [Requests -> Futures]
      BY <3>2, SettleType DEF Futures, Decisions
    <3>5. status' \in [Requests -> Statuses]
      BY <3>2 DEF TypeOK, Statuses, Decisions
    <3>6. /\ waiter' \in [Requests -> WaiterPC]
          /\ decision' \in [Requests -> Decisions \cup {"none"}]
          /\ UNCHANGED <<inline, fired, verdict>>
      BY <2>1 DEF Ask, TypeOK, WaiterPC, Decisions
    <3> QED BY <3>1, <3>3, <3>4, <3>5, <3>6 DEF TypeOK
  <2>2. ASSUME NEW r \in Requests, NEW d \in {"approved", "denied"}, Decide(r, d)
        PROVE  TypeOK'
    <3>1. future' \in [Requests -> Futures]
      BY <2>2, SettleType DEF Decide, Futures, Decisions
    <3> QED BY <2>2, <3>1 DEF Decide, TypeOK, Statuses, Decisions
  <2>3. ASSUME NEW r \in Requests, TimerFires(r) PROVE TypeOK'
    <3>1. future' \in [Requests -> Futures]
      BY <2>3, SettleType DEF TimerFires, TypeOK, Futures
    <3> QED BY <2>3, <3>1 DEF TimerFires, TypeOK
  <2>4. ASSUME NEW r \in Requests, Return(r) PROVE TypeOK'
    BY <2>4 DEF Return, TypeOK, WaiterPC
  <2>5. ASSUME NEW r \in Requests, GiveUp(r) PROVE TypeOK'
    <3>1. future' \in [Requests -> Futures]
      BY <2>5, SettleType DEF GiveUp, Futures
    <3> QED BY <2>5, <3>1 DEF GiveUp, TypeOK, WaiterPC
  <2>6. ASSUME NEW r \in Requests, TimeOut(r) PROVE TypeOK'
    BY <2>6 DEF TimeOut, TypeOK, WaiterPC, Decisions, Statuses
  <2>7. ASSUME NEW r \in Requests, WaiterCancelled(r) PROVE TypeOK'
    <3>1. future' \in [Requests -> Futures]
      BY <2>7, SettleType DEF WaiterCancelled, Futures
    <3> QED BY <2>7, <3>1 DEF WaiterCancelled, TypeOK, WaiterPC
  <2>8. ASSUME NEW s \in Sessions, CancelAll(s) PROVE TypeOK'
    <3>1. future' \in [Requests -> Futures]
      BY <2>8, SettleType DEF CancelAll, Futures, Decisions
    <3> QED BY <2>8, <3>1 DEF CancelAll, TypeOK, Statuses
  <2>9. CASE UNCHANGED vars
    BY <2>9 DEF vars, TypeOK
  <2> QED BY <2>1, <2>2, <2>3, <2>4, <2>5, <2>6, <2>7, <2>8, <2>9
          DEF Next, Waiting
<1> QED BY <1>1, <1>2, PTL DEF Spec

-----------------------------------------------------------------------------

\* The inductive invariant: a record is listed exactly while its status is
\* "pending", a waiting agent whose record is gone has a settled Future, and an
\* approval in a Future or in an answer is one a user made.
THEOREM ApprovalInvariant == Spec => []ApprovalInv
<1>1. Init => ApprovalInv
  BY DEF Init, ApprovalInv, StoreInv, NobodyStranded, ApprovedByUser
<1>2. TypeOK /\ ApprovalInv /\ [Next]_vars => ApprovalInv'
  <2> SUFFICES ASSUME TypeOK, ApprovalInv, [Next]_vars PROVE ApprovalInv'
    OBVIOUS
  <2> USE DEF ApprovalInv, StoreInv, NobodyStranded, ApprovedByUser
  <2>1. ASSUME NEW r \in Requests, NEW now \in Times, Ask(r, now)
        PROVE  ApprovalInv'
    <3> DEFINE kept == (pending \ Stale(r)) \cup {r}
               old  == Evicted(kept, now)
    <3>1. /\ pending' = kept \ old
          /\ future' = Settle(Stale(r) \cup old, "timeout")
          /\ status' = [p \in Requests |->
                          CASE p \in old -> "timeout"
                            [] p \in Stale(r) -> "superseded"
                            [] p \in {r} \ old -> "pending"
                            [] OTHER -> status[p]]
      BY <2>1 DEF Ask
    <3>2. /\ waiter[r] = "idle" /\ UNCHANGED verdict
          /\ waiter' = [waiter EXCEPT ![r] = IF r \in old THEN "returned" ELSE "waiting"]
          /\ decision' = IF r \in old THEN [decision EXCEPT ![r] = "denied"]
                                       ELSE decision
      BY <2>1 DEF Ask
    <3>3. Stale(r) \subseteq pending /\ old \subseteq kept
      BY EvictedAreKept DEF Stale
    <3> HIDE DEF old
    <3>4. status[r] = "none" /\ r \notin pending /\ verdict[r] = "none"
      BY <3>2 DEF TypeOK
    <3>5. \A p \in Requests : p \in pending' <=> status'[p] = "pending"
      <4> SUFFICES ASSUME NEW p \in Requests
                   PROVE  p \in pending' <=> status'[p] = "pending"
        OBVIOUS
      <4>1. CASE p \in old \cup Stale(r)
        <5>1. p \notin pending'
          BY <4>1, <3>1, <3>3, <3>4
        <5>2. status'[p] \in {"timeout", "superseded"}
          BY <4>1, <3>1, <3>3, <3>4
        <5> QED BY <5>1, <5>2
      <4>2. CASE p \notin old \cup Stale(r)
        BY <4>2, <3>1, <3>4
      <4> QED BY <4>1, <4>2
    <3>6. \A p \in Requests :
            waiter'[p] = "waiting" /\ p \notin pending' => future'[p] # "unset"
      <4> SUFFICES ASSUME NEW p \in Requests, waiter'[p] = "waiting",
                          p \notin pending'
                   PROVE  future'[p] # "unset"
        OBVIOUS
      <4>1. p # r
        BY <3>1, <3>2 DEF TypeOK
      <4>2. waiter[p] = "waiting"
        BY <4>1, <3>2 DEF TypeOK
      <4>3. CASE p \in pending
        <5>1. p \in Stale(r) \cup old
          BY <4>3, <3>1
        <5> QED BY <5>1, <3>1 DEF Settle
      <4>4. CASE p \notin pending
        BY <4>2, <4>4, <3>1 DEF Settle
      <4> QED BY <4>3, <4>4
    <3>7. \A p \in Requests : future'[p] = "approved" => verdict'[p] = "approved"
      BY <3>1, <3>2 DEF Settle
    <3>8. \A p \in Requests : waiter'[p] = "idle" => status'[p] = "none"
      <4> SUFFICES ASSUME NEW p \in Requests, waiter'[p] = "idle"
                   PROVE  status'[p] = "none"
        OBVIOUS
      <4>1. p # r /\ waiter[p] = "idle"
        BY <3>2 DEF TypeOK
      <4>2. p \notin Stale(r) \cup old
        BY <4>1, <3>3 DEF TypeOK
      <4> QED BY <4>1, <4>2, <3>1
    <3>9. \A p \in Requests : verdict'[p] # "none" => status'[p] = verdict'[p]
      <4> SUFFICES ASSUME NEW p \in Requests, verdict[p] # "none"
                   PROVE  status'[p] = verdict[p]
        BY <3>2
      <4>1. status[p] = verdict[p] /\ status[p] \notin {"none", "pending"}
        BY DEF TypeOK
      <4>2. p # r /\ p \notin Stale(r) \cup old
        BY <4>1, <3>3, <3>4
      <4> QED BY <4>1, <4>2, <3>1
    <3>10. ApprovedByUser'
      BY <3>2 DEF TypeOK
    <3> QED BY <3>5, <3>6, <3>7, <3>8, <3>9, <3>10
  <2>2. ASSUME NEW r \in Requests, NEW d \in {"approved", "denied"}, Decide(r, d)
        PROVE  ApprovalInv'
    <3>1. /\ r \in pending /\ pending' = pending \ {r}
          /\ status' = [status EXCEPT ![r] = d]
          /\ future' = Settle({r}, d)
          /\ verdict' = [verdict EXCEPT ![r] = d]
          /\ UNCHANGED <<waiter, decision>>
      BY <2>2 DEF Decide
    <3>2. verdict[r] = "none" /\ waiter[r] # "idle"
      BY <3>1 DEF TypeOK
    <3>3. future[r] # "approved" /\ decision[r] # "approved"
      BY <3>2
    <3>4. \A p \in Requests : p # r =>
            /\ status'[p] = status[p] /\ verdict'[p] = verdict[p]
            /\ future'[p] = future[p]
      BY <3>1 DEF Settle, TypeOK
    <3>5. /\ status'[r] = d /\ verdict'[r] = d
          /\ future'[r] \in {d, future[r]} /\ future'[r] # "unset"
      BY <3>1 DEF Settle, TypeOK
    <3> QED BY <3>1, <3>2, <3>3, <3>4, <3>5
  <2>3. ASSUME NEW r \in Requests,
               TimerFires(r) \/ GiveUp(r) \/ WaiterCancelled(r)
        PROVE  ApprovalInv'
    <3>1. UNCHANGED <<pending, status, decision, verdict>>
      BY <2>3 DEF TimerFires, GiveUp, WaiterCancelled
    <3>2. \A p \in Requests : future'[p] \in {future[p], "cancelled"}
      BY <2>3 DEF TimerFires, GiveUp, WaiterCancelled, Settle, TypeOK
    <3>3. \A p \in Requests : /\ waiter'[p] = "waiting" => waiter[p] = "waiting"
                              /\ waiter'[p] = "idle" => waiter[p] = "idle"
      BY <2>3 DEF TimerFires, GiveUp, WaiterCancelled, TypeOK
    <3>4. StoreInv' /\ ApprovedByUser'
      BY <3>1
    <3>5. NobodyStranded'
      BY <3>1, <3>2, <3>3
    <3>6. \A p \in Requests : future'[p] = "approved" => verdict'[p] = "approved"
      BY <3>1, <3>2
    <3> QED BY <3>1, <3>3, <3>4, <3>5, <3>6
  <2>4. ASSUME NEW r \in Requests, Return(r) PROVE ApprovalInv'
    <3>1. /\ UNCHANGED <<pending, status, future, verdict>>
          /\ waiter' = [waiter EXCEPT ![r] = "returned"]
          /\ decision' = [decision EXCEPT ![r] = future[r]]
      BY <2>4 DEF Return
    <3>2. \A p \in Requests : decision'[p] = "approved" => verdict[p] = "approved"
      BY <3>1 DEF TypeOK
    <3>3. \A p \in Requests : waiter'[p] \in {waiter[p], "returned"}
      BY <3>1 DEF TypeOK
    <3> QED BY <3>1, <3>2, <3>3
  <2>5. ASSUME NEW r \in Requests, TimeOut(r) PROVE ApprovalInv'
    <3>1. /\ UNCHANGED <<future, verdict>>
          /\ waiter' = [waiter EXCEPT ![r] = "returned"]
          /\ decision' = [decision EXCEPT ![r] = "timeout"]
          /\ pending' = pending \ {r}
          /\ status' = [status EXCEPT ![r] = IF r \in pending THEN "timeout" ELSE @]
          /\ waiter[r] # "idle"
      BY <2>5 DEF TimeOut
    <3>2. StoreInv'
      BY <3>1 DEF TypeOK
    <3>3. NobodyStranded'
      BY <3>1 DEF TypeOK
    <3>4. ApprovedByUser'
      BY <3>1 DEF TypeOK
    <3>5. \A p \in Requests : waiter'[p] = "idle" => status'[p] = "none"
      BY <3>1 DEF TypeOK
    <3>6. \A p \in Requests : verdict[p] # "none" => status'[p] = verdict[p]
      BY <3>1 DEF TypeOK
    <3> QED BY <3>1, <3>2, <3>3, <3>4, <3>5, <3>6
  <2>6. ASSUME NEW s \in Sessions, CancelAll(s) PROVE ApprovalInv'
    <3> DEFINE tree == {p \in pending : RootOf[p] = s}
    <3>1. /\ pending' = pending \ tree
          /\ status' = [p \in Requests |->
                          IF p \in tree THEN "cancelled" ELSE status[p]]
          /\ future' = Settle(tree, "denied")
          /\ UNCHANGED <<waiter, decision, verdict>>
      BY <2>6 DEF CancelAll
    <3>2. tree \subseteq pending
      OBVIOUS
    <3> HIDE DEF tree
    <3>3. StoreInv'
      BY <3>1, <3>2
    <3>4. NobodyStranded'
      BY <3>1, <3>2 DEF Settle
    <3>5. \A p \in Requests : future'[p] = "approved" => verdict[p] = "approved"
      BY <3>1 DEF Settle
    <3>6. \A p \in Requests : waiter[p] = "idle" => p \notin tree
      BY <3>2
    <3>7. \A p \in Requests : verdict[p] # "none" => p \notin tree
      BY <3>2 DEF TypeOK
    <3> QED BY <3>1, <3>3, <3>4, <3>5, <3>6, <3>7
  <2>7. CASE UNCHANGED vars
    BY <2>7 DEF vars
  <2> QED BY <2>1, <2>2, <2>3, <2>4, <2>5, <2>6, <2>7 DEF Next, Waiting
<1> QED BY <1>1, <1>2, TypeCorrect, PTL DEF Spec

\* No tool runs on anything but a user's approval of this request.
THEOREM Approval == Spec => []ApprovedByUser
<1>1. ApprovalInv => ApprovedByUser
  BY DEF ApprovalInv
<1> QED BY <1>1, ApprovalInvariant, PTL

\* No agent waits for a record that was removed without settling its Future.
THEOREM Release == Spec => []NobodyStranded
<1>1. ApprovalInv => NobodyStranded
  BY DEF ApprovalInv
<1> QED BY <1>1, ApprovalInvariant, PTL

-----------------------------------------------------------------------------

\* The outcome of a record, once reached, is never rewritten, and a user's
\* decision is accepted at most once.
THEOREM Outcome == Spec => OutcomeIsFinal
<1> DEFINE Final == \A r \in Requests :
                      /\ status[r] \notin {"none", "pending"} => status'[r] = status[r]
                      /\ verdict[r] # "none" => verdict'[r] = verdict[r]
<1>1. TypeOK /\ ApprovalInv /\ [Next]_vars => Final
  <2> SUFFICES ASSUME TypeOK, ApprovalInv, [Next]_vars, NEW p \in Requests
               PROVE  /\ status[p] \notin {"none", "pending"} => status'[p] = status[p]
                      /\ verdict[p] # "none" => verdict'[p] = verdict[p]
    OBVIOUS
  <2>1. status[p] \notin {"none", "pending"} => p \notin pending
    BY DEF ApprovalInv, StoreInv
  <2>2. verdict[p] # "none" => p \notin pending
    BY DEF ApprovalInv, StoreInv, TypeOK
  <2>3. ASSUME NEW r \in Requests, NEW now \in Times, Ask(r, now) PROVE Final
    <3> DEFINE kept == (pending \ Stale(r)) \cup {r}
               old  == Evicted(kept, now)
    <3>1. status[r] = "none" /\ verdict' = verdict
      BY <2>3 DEF Ask, ApprovalInv
    <3>2. status' = [q \in Requests |->
                       CASE q \in old -> "timeout"
                         [] q \in Stale(r) -> "superseded"
                         [] q \in {r} \ old -> "pending"
                         [] OTHER -> status[q]]
      BY <2>3 DEF Ask
    <3>3. Stale(r) \cup old \subseteq pending \cup {r}
      BY EvictedAreKept DEF Stale
    <3> HIDE DEF old
    <3>4. \A q \in Requests : status[q] \notin {"none", "pending"}
                                => q \notin pending
      BY DEF ApprovalInv, StoreInv
    <3> QED BY <3>1, <3>2, <3>3, <3>4
  <2>4. ASSUME NEW r \in Requests, NEW d \in {"approved", "denied"}, Decide(r, d)
        PROVE  /\ status[p] \notin {"none", "pending"} => status'[p] = status[p]
               /\ verdict[p] # "none" => verdict'[p] = verdict[p]
    BY <2>1, <2>2, <2>4 DEF Decide, TypeOK
  <2>5. ASSUME NEW r \in Requests, TimerFires(r) \/ Waiting(r) \/ WaiterCancelled(r)
        PROVE  /\ status[p] \notin {"none", "pending"} => status'[p] = status[p]
               /\ verdict' = verdict
    BY <2>1, <2>5
       DEF TimerFires, Waiting, Return, GiveUp, TimeOut, WaiterCancelled, TypeOK
  <2>6. ASSUME NEW s \in Sessions, CancelAll(s)
        PROVE  /\ status[p] \notin {"none", "pending"} => status'[p] = status[p]
               /\ verdict' = verdict
    BY <2>1, <2>6 DEF CancelAll
  <2>7. CASE UNCHANGED vars
    BY <2>7 DEF vars
  <2> QED BY <2>3, <2>4, <2>5, <2>6, <2>7 DEF Next
<1>2. ApprovalInv /\ TypeOK /\ [Next]_vars => [Final]_vars
  BY <1>1
<1> QED BY <1>2, TypeCorrect, ApprovalInvariant, PTL DEF Spec, OutcomeIsFinal

-----------------------------------------------------------------------------
(* The garbage collector and the clock.                                    *)

\* The requests for which a record was made.
Asked == {p \in Requests : waiter[p] # "idle"}

\* Places are given out in order, and as long as the clock is not set back no
\* record comes from the future.
InOrder ==
    /\ \A r \in Requests : place[r] <= Cardinality(Asked)
    /\ ~stepped => \A r \in Requests : created[r] <= clock

\* A new record comes after all others, which keep their places or lose them.
LEMMA CreateIsLast ==
    ASSUME TypeOK, InOrder, NEW r \in Requests, NEW now \in Times, Ask(r, now)
    PROVE  /\ Cardinality(Asked) \in Nat
           /\ place'[r] = Cardinality(Asked) + 1 /\ created'[r] = now
           /\ \A p \in Requests \ {r} :
                 /\ place'[p] \in {0, place[p]}
                 /\ created'[p] \in {0, created[p]}
<1> DEFINE n == Cardinality(Asked)
<1>1. n \in Nat
  BY FS_Subset, FS_CardinalityType, ConstantsAssumption DEF Asked
<1>2. /\ place' = [p \in Requests |->
                     CASE p = r -> 1 + n
                       [] p \in pending \ {r} -> place[p]
                       [] OTHER -> 0]
      /\ created' = [p \in Requests |->
                       CASE p = r -> now
                         [] p \in pending \ {r} -> created[p]
                         [] OTHER -> 0]
  BY DEF Ask, Create, Asked
<1> HIDE DEF n
<1>3. place'[r] = n + 1 /\ created'[r] = now
  BY <1>1, <1>2
<1>4. \A p \in Requests \ {r} : place'[p] \in {0, place[p]} /\ created'[p] \in {0, created[p]}
  BY <1>2
<1> QED BY <1>1, <1>3, <1>4 DEF n

\* Asking keeps the order.
LEMMA CreateInOrder ==
    ASSUME TypeOK, InOrder, NEW r \in Requests, NEW now \in Times, Ask(r, now)
    PROVE  InOrder'
<1> DEFINE n == Cardinality(Asked)
<1>1. Asked' = Asked \cup {r} /\ r \notin Asked /\ IsFiniteSet(Asked)
  BY FS_Subset, ConstantsAssumption DEF Asked, Ask, TypeOK
<1>2. Cardinality(Asked') = n + 1
  BY <1>1, FS_AddElement
<1>3. /\ n \in Nat /\ place'[r] = n + 1 /\ created'[r] = now
      /\ \A p \in Requests \ {r} :
            place'[p] \in {0, place[p]} /\ created'[p] \in {0, created[p]}
  BY CreateIsLast
<1>4. \A p \in Requests : place[p] <= n /\ place[p] \in Nat
  BY DEF InOrder, TypeOK
<1> HIDE DEF n
<1>5. \A p \in Requests : place'[p] <= n + 1
  BY <1>3, <1>4
<1>6. ASSUME ~stepped', NEW p \in Requests PROVE created'[p] <= clock'
  <2>1. ~stepped /\ ~ (now < clock)
    BY <1>6, Zenon DEF Ask, Create
  <2>2. created[p] <= clock
    BY <2>1 DEF InOrder
  <2>3. clock' = now /\ now \in Nat /\ clock \in Nat /\ created[p] \in Nat
    BY ConstantsAssumption DEF Ask, Create, TypeOK
  <2> QED BY <1>3, <2>1, <2>2, <2>3
<1> QED BY <1>2, <1>5, <1>6 DEF InOrder

\* The order holds in every reachable state.
LEMMA OrderInvariant == Spec => []InOrder
<1>1. Init => InOrder
  <2> SUFFICES ASSUME Init PROVE InOrder
    OBVIOUS
  <2>1. Asked = {}
    BY DEF Init, Asked
  <2> QED BY <2>1, FS_EmptySet DEF Init, InOrder
<1>2. TypeOK /\ InOrder /\ [Next]_vars => InOrder'
  <2> SUFFICES ASSUME TypeOK, InOrder, [Next]_vars PROVE InOrder'
    OBVIOUS
  <2>1. ASSUME NEW r \in Requests, NEW now \in Times, Ask(r, now) PROVE InOrder'
    BY <2>1, CreateInOrder
  <2>2. ASSUME UNCHANGED made,
               \A p \in Requests : waiter'[p] = "idle" <=> waiter[p] = "idle"
        PROVE  InOrder'
    <3>1. Asked' = Asked
      BY <2>2 DEF Asked
    <3> QED BY <2>2, <3>1 DEF InOrder, made
  <2>3. ASSUME NEW r \in Requests,
               \/ Waiting(r) \/ WaiterCancelled(r) \/ TimerFires(r)
               \/ \E d \in {"approved", "denied"} : Decide(r, d)
        PROVE  InOrder'
    BY <2>2, <2>3 DEF Waiting, Return, GiveUp, TimeOut, WaiterCancelled,
                      TimerFires, Decide, TypeOK
  <2>4. ASSUME NEW s \in Sessions, CancelAll(s) PROVE InOrder'
    BY <2>2, <2>4 DEF CancelAll
  <2>5. CASE UNCHANGED vars
    BY <2>2, <2>5 DEF vars, made
  <2> QED BY <2>1, <2>3, <2>4, <2>5 DEF Next
<1> QED BY <1>1, <1>2, TypeCorrect, PTL DEF Spec

\* As long as the clock is not set back, the new record is the last in the order
\* of eviction, and no record that is not younger pushes it out.
LEMMA NewestStays ==
    ASSUME TypeOK, InOrder, NEW r \in Requests, NEW now \in Times, Ask(r, now),
           ~stepped'
    PROVE  r \notin Evicted((pending \ Stale(r)) \cup {r}, now)
<1> DEFINE kept == (pending \ Stale(r)) \cup {r}
           n    == Cardinality(Asked)
           rest == kept \ Expired(kept, now)
<1>1. now \in Nat /\ clock \in Nat /\ clock <= now /\ ~stepped
  <2>1. ~stepped /\ ~ (now < clock)
    BY Zenon DEF Ask, Create
  <2>2. now \in Nat /\ clock \in Nat
    BY ConstantsAssumption DEF TypeOK
  <2> QED BY <2>1, <2>2
<1>2. /\ n \in Nat /\ place'[r] = n + 1 /\ created'[r] = now
      /\ \A p \in Requests \ {r} :
            place'[p] \in {0, place[p]} /\ created'[p] \in {0, created[p]}
  BY CreateIsLast
<1>3. \A p \in Requests : /\ place[p] <= n /\ place[p] \in Nat
                          /\ created[p] <= clock /\ created[p] \in Nat
  BY <1>1 DEF InOrder, TypeOK
<1> HIDE DEF n
<1>4. \A p \in Requests : ~ Precedes(r, p)
  BY <1>1, <1>2, <1>3 DEF Precedes
<1>5. r \notin Expired(kept, now)
  BY <1>1, <1>2, ConstantsAssumption DEF Expired
<1>6. {q \in rest : Precedes(r, q)} = {}
  BY <1>4 DEF TypeOK
<1>7. r \notin Overflow(rest)
  <2>1. Cardinality({q \in rest : Precedes(r, q)}) = 0
    BY <1>6, FS_EmptySet
  <2>2. ~ (0 >= MaxPending)
    BY ConstantsAssumption
  <2> HIDE DEF rest
  <2> QED BY <2>1, <2>2 DEF Overflow
<1> QED BY <1>5, <1>7 DEF Evicted

\* The collector that runs when an approval is asked for does not evict the new
\* record, so that wait_for_approval finds it, unless the clock was set back.
AskedIsListed ==
    [][\A r \in Requests :
         waiter[r] = "idle" /\ waiter'[r] # "idle" /\ ~stepped' => r \in pending']_vars

\* The choice by age, with ties broken by the order of the dict, spares the
\* newest record for every limit, every age and every clock that never runs
\* backwards.
THEOREM Listed == Spec => AskedIsListed
<1> DEFINE Found == \A r \in Requests :
                      waiter[r] = "idle" /\ waiter'[r] # "idle" /\ ~stepped'
                        => r \in pending'
<1>1. TypeOK /\ InOrder /\ [Next]_vars => Found
  <2> SUFFICES ASSUME TypeOK, InOrder, [Next]_vars, NEW p \in Requests,
                      waiter[p] = "idle", waiter'[p] # "idle", ~stepped'
               PROVE  p \in pending'
    OBVIOUS
  <2>1. ASSUME NEW r \in Requests, NEW now \in Times, Ask(r, now)
        PROVE  p \in pending'
    <3>1. p = r
      BY <2>1 DEF Ask, TypeOK
    <3> QED BY <3>1, <2>1, NewestStays DEF Ask
  <2>2. ASSUME NEW r \in Requests, Waiting(r) \/ WaiterCancelled(r) PROVE FALSE
    BY <2>2 DEF Waiting, Return, GiveUp, TimeOut, WaiterCancelled, TypeOK
  <2>3. CASE waiter' = waiter
    BY <2>3
  <2>4. \/ waiter' = waiter
        \/ \E r \in Requests : Waiting(r) \/ WaiterCancelled(r)
        \/ \E r \in Requests, now \in Times : Ask(r, now)
    BY DEF Next, Decide, TimerFires, CancelAll, vars
  <2> QED BY <2>1, <2>2, <2>3, <2>4
<1>2. TypeOK /\ InOrder /\ [Next]_vars => [Found]_vars
  BY <1>1
<1> QED BY <1>2, TypeCorrect, OrderInvariant, PTL DEF Spec, AskedIsListed

-----------------------------------------------------------------------------
(* What agents are told.                                                   *)

\* The Futures the answers are read from say so first.
FuturesAreTrue ==
    \A r \in Requests :
        /\ future[r] = "approved" => status[r] = "approved"
        /\ future[r] = "denied" => status[r] \in {"denied", "cancelled"}

\* An agent is told what became of its record, unless the clock was set back:
\* whoever settles a Future is the one that ends its record, in one step, and
\* nobody settles it again.
THEOREM AnswersMatch == Spec => []AnswersAreTrue
<1> DEFINE Inv == AnswersAreTrue /\ FuturesAreTrue
<1>1. Init => Inv
  BY DEF Init, AnswersAreTrue, FuturesAreTrue
<1>2. TypeOK /\ ApprovalInv /\ InOrder /\ Inv /\ [Next]_vars => Inv'
  <2> SUFFICES ASSUME TypeOK, ApprovalInv, InOrder, Inv, [Next]_vars PROVE Inv'
    OBVIOUS
  <2> USE DEF AnswersAreTrue, FuturesAreTrue, Settle
  <2>0. \A p \in pending : status[p] = "pending" /\ p \in Requests
    BY DEF ApprovalInv, StoreInv, TypeOK
  <2>1. ASSUME NEW r \in Requests, NEW now \in Times, Ask(r, now) PROVE Inv'
    <3> DEFINE kept == (pending \ Stale(r)) \cup {r}
               old  == Evicted(kept, now)
    <3>1. /\ future' = Settle(Stale(r) \cup old, "timeout")
          /\ status' = [p \in Requests |->
                          CASE p \in old -> "timeout"
                            [] p \in Stale(r) -> "superseded"
                            [] p \in {r} \ old -> "pending"
                            [] OTHER -> status[p]]
          /\ decision' = IF r \in old THEN [decision EXCEPT ![r] = "denied"]
                                       ELSE decision
          /\ stepped => stepped'
      BY <2>1 DEF Ask, Create
    <3>2. Stale(r) \subseteq pending /\ old \subseteq pending \cup {r}
      BY EvictedAreKept DEF Stale
    <3>3. status[r] = "none" /\ (r \in old => stepped')
      BY <2>1, NewestStays DEF Ask, ApprovalInv
    <3> HIDE DEF old
    <3>4. \A p \in Requests : status[p] \in {"approved", "denied", "cancelled"}
                                => status'[p] = status[p]
      BY <2>0, <3>1, <3>2, <3>3
    <3>5. \A p \in Requests : future'[p] \in {future[p], "timeout"}
      BY <3>1
    <3>6. \A p \in Requests : \/ decision'[p] = decision[p]
                              \/ decision'[p] = "denied" /\ stepped'
      BY <3>1, <3>3 DEF TypeOK
    <3> QED BY <3>1, <3>4, <3>5, <3>6
  <2>2. ASSUME NEW r \in Requests, NEW d \in {"approved", "denied"}, Decide(r, d)
        PROVE  Inv'
    BY <2>0, <2>2 DEF Decide, TypeOK, made
  <2>3. ASSUME NEW s \in Sessions, CancelAll(s) PROVE Inv'
    BY <2>0, <2>3 DEF CancelAll, TypeOK, made
  <2>4. ASSUME NEW r \in Requests, TimeOut(r) PROVE Inv'
    BY <2>0, <2>4 DEF TimeOut, TypeOK, made
  <2>5. ASSUME NEW r \in Requests,
               Return(r) \/ TimerFires(r) \/ GiveUp(r) \/ WaiterCancelled(r)
        PROVE  Inv'
    BY <2>5 DEF Return, TimerFires, GiveUp, WaiterCancelled, TypeOK, made
  <2>6. CASE UNCHANGED vars
    BY <2>6 DEF vars
  <2> QED BY <2>1, <2>2, <2>3, <2>4, <2>5, <2>6 DEF Next, Waiting
<1> QED BY <1>1, <1>2, TypeCorrect, ApprovalInvariant, OrderInvariant, PTL DEF Spec

\* A tool call has at most one open record: whatever a retry leaves behind is
\* superseded in the step that asks again.
OneOpenPerCall ==
    \A p, q \in pending :
        CallOf[p] # NoCall /\ CallOf[p] = CallOf[q] /\ SessionOf[p] = SessionOf[q]
            => p = q

\* However often a tool call is retried, a user is asked about it once at a time.
THEOREM RetriesSupersede == Spec => []OneOpenPerCall
<1>1. Init => OneOpenPerCall
  BY DEF Init, OneOpenPerCall
<1>2. OneOpenPerCall /\ [Next]_vars => OneOpenPerCall'
  <2> SUFFICES ASSUME OneOpenPerCall, [Next]_vars PROVE OneOpenPerCall'
    OBVIOUS
  <2>1. ASSUME NEW r \in Requests, NEW now \in Times, Ask(r, now)
        PROVE  OneOpenPerCall'
    <3>1. pending' \subseteq (pending \ Stale(r)) \cup {r}
      BY <2>1 DEF Ask
    <3> QED BY <3>1 DEF OneOpenPerCall, Stale
  <2>2. CASE pending' \subseteq pending
    BY <2>2 DEF OneOpenPerCall
  <2>3. (\E r \in Requests, now \in Times : Ask(r, now)) \/ pending' \subseteq pending
    BY DEF Next, Decide, CancelAll, TimerFires, Waiting, Return, GiveUp, TimeOut,
           WaiterCancelled, vars
  <2> QED BY <2>1, <2>2, <2>3
<1> QED BY <1>1, <1>2, PTL DEF Spec

=============================================================================
