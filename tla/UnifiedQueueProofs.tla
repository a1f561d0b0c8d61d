-------------------------- MODULE UnifiedQueueProofs --------------------------
(***************************************************************************)
(* Theorems about UnifiedQueue, for every set of keys, payloads and        *)
(* QueueState objects and every capacity.                                  *)
(***************************************************************************)
EXTENDS UnifiedQueue, FiniteSetTheorems, SequenceTheorems, TLAPS

LEMMA MarkType ==
    ASSUME TypeOK, NEW set, NEW st \in Status
    PROVE  Mark(set, st) \in [Messages -> Status]
  BY DEF Mark, TypeOK

LEMMA ExceptType ==
    ASSUME NEW D, NEW R, NEW f \in [D -> R], NEW x, NEW v \in R
    PROVE  [f EXCEPT ![x] = v] \in [D -> R]
  OBVIOUS

LEMMA AppendType ==
    ASSUME NEW D, NEW S, NEW f \in [D -> Seq(S)], NEW x, NEW e \in S
    PROVE  [f EXCEPT ![x] = Append(@, e)] \in [D -> Seq(S)]
<1>1. CASE x \in D
  <2>1. Append(f[x], e) \in Seq(S)
    BY <1>1
  <2> QED BY <2>1, ExceptType
<1>2. CASE x \notin D
  BY <1>2
<1> QED BY <1>1, <1>2

LEMMA ConcatType ==
    ASSUME NEW D, NEW S, NEW f \in [D -> Seq(S)], NEW x, NEW q \in Seq(S)
    PROVE  [f EXCEPT ![x] = @ \o q] \in [D -> Seq(S)]
<1>1. CASE x \in D
  <2>1. f[x] \o q \in Seq(S)
    BY <1>1
  <2> QED BY <2>1, ExceptType
<1>2. CASE x \notin D
  BY <1>2
<1> QED BY <1>1, <1>2

\* Every variable keeps to its type, whatever the constants.
THEOREM TypeCorrect == Spec => []TypeOK
<1>1. Init => TypeOK
  BY ConstantsAssumption
     DEF Init, TypeOK, ConsumerPC, CancelState, Status, CleanerPC, Phases
<1>2. TypeOK /\ [Next]_vars => TypeOK'
  <2> SUFFICES ASSUME TypeOK, [Next]_vars PROVE TypeOK'
    OBVIOUS
  <2> USE ConstantsAssumption
  <2>1. ASSUME NEW m \in Messages, Enqueue(m) PROVE TypeOK'
    <3>1. PICK s \in States : EnqueueTo(m, s)
      BY <2>1 DEF Enqueue
    <3>2. KeyOf[m] \in Keys
      OBVIOUS
    <3>3. /\ queues' \in [Keys -> States \cup {None}]
          /\ stateKey' \in [States -> Keys \cup {None}]
          /\ consumer' \in [States -> ConsumerPC]
      BY <3>1, <3>2, ExceptType DEF TypeOK, EnqueueTo, Resolve, ConsumerPC
    <3>4. /\ buffer' \in [States -> Seq(Messages)]
          /\ accepted' \in [Keys -> Seq(Messages)]
          /\ status' \in [Messages -> Status]
      BY <3>1, <3>2, ExceptType, AppendType DEF TypeOK, EnqueueTo, Put, Status
    <3> QED BY <3>1, <3>3, <3>4 DEF EnqueueTo, TypeOK
  <2>2. ASSUME NEW m \in Messages, PutResumes(m) PROVE TypeOK'
    <3>1. KeyOf[m] \in Keys
      OBVIOUS
    <3>2. buffer' \in [States -> Seq(Messages)]
      BY <2>2, AppendType DEF PutResumes, Put, TypeOK
    <3>3. /\ accepted' \in [Keys -> Seq(Messages)]
          /\ status' \in [Messages -> Status]
      BY <2>2, <3>1, AppendType, ExceptType DEF PutResumes, Put, TypeOK, Status
    <3> QED BY <2>2, <3>2, <3>3 DEF PutResumes, TypeOK
  <2>3. ASSUME NEW m \in Messages, PutTimesOut(m) PROVE TypeOK'
    BY <2>3 DEF PutTimesOut, TypeOK, Status
  <2>4. ASSUME NEW k \in Keys, ClearQueue(k) PROVE TypeOK'
    <3>1. status' \in [Messages -> Status]
      BY <2>4, MarkType DEF ClearQueue, Status
    <3> QED BY <2>4, <3>1 DEF ClearQueue, TypeOK
  <2>5. ASSUME NEW s \in States, ConsumerStarts(s) PROVE TypeOK'
    BY <2>5 DEF ConsumerStarts, TypeOK, ConsumerPC
  <2>6. ASSUME NEW s \in States, Take(s) PROVE TypeOK'
    <3> DEFINE m == Head(buffer[s])
    <3>1. buffer[s] \in Seq(Messages) /\ buffer[s] # <<>>
      BY <2>6 DEF Take, TypeOK
    <3>2. m \in Messages /\ Tail(buffer[s]) \in Seq(Messages)
      BY <3>1
    <3>3. <<m>> \in Seq(Messages)
      BY <3>2
    <3>4. started' \in [Keys -> Seq(Messages)]
      <4>1. started' = [started EXCEPT ![stateKey[s]] = Append(@, m)]
        BY <2>6 DEF Take
      <4> HIDE DEF m
      <4> QED BY <3>2, <4>1, AppendType DEF TypeOK
    <3>5. buffer' \in [States -> Seq(Messages)]
      BY <2>6, <3>2 DEF Take, TypeOK
    <3>6. batch' \in [States -> Seq(Messages)]
      <4>1. batch' = [batch EXCEPT ![s] = <<m>>]
        BY <2>6 DEF Take
      <4> HIDE DEF m
      <4> QED BY <3>3, <4>1 DEF TypeOK
    <3>7. status' \in [Messages -> Status] /\ consumer' \in [States -> ConsumerPC]
      BY <2>6 DEF Take, TypeOK, Status, ConsumerPC
    <3> QED BY <2>6, <3>4, <3>5, <3>6, <3>7 DEF Take, TypeOK
  <2>7. ASSUME NEW s \in States, Drain(s) PROVE TypeOK'
    <3>1. batch[s] \o buffer[s] \in Seq(Messages)
      BY DEF TypeOK
    <3>2. batch' \in [States -> Seq(Messages)] /\ buffer' \in [States -> Seq(Messages)]
      BY <2>7, <3>1 DEF Drain, TypeOK
    <3>3. started' \in [Keys -> Seq(Messages)]
      BY <2>7, ConcatType DEF Drain, TypeOK
    <3>4. status' \in [Messages -> Status]
      BY <2>7, MarkType DEF Drain, Status
    <3>5. consumer' \in [States -> ConsumerPC]
      BY <2>7 DEF Drain, TypeOK, ConsumerPC
    <3> QED BY <2>7, <3>2, <3>3, <3>4, <3>5 DEF Drain, TypeOK
  <2>8. ASSUME NEW s \in States, FinishBatch(s) \/ FailBatch(s) PROVE TypeOK'
    <3>1. status' \in [Messages -> Status]
      BY <2>8, MarkType DEF FinishBatch, FailBatch, EndBatch, Status
    <3>2. idle' \in [States -> BOOLEAN]
      BY <2>8 DEF FinishBatch, FailBatch, TypeOK
    <3>3. EndBatch(s, "handled") \/ EndBatch(s, "failed")
      BY <2>8 DEF FinishBatch, FailBatch
    <3>4. batch' \in [States -> Seq(Messages)]
      BY <3>3, ExceptType DEF EndBatch, TypeOK
    <3>5. consumer' \in [States -> ConsumerPC]
      BY <3>3, ExceptType DEF EndBatch, TypeOK, ConsumerPC
    <3> QED BY <3>1, <3>2, <3>3, <3>4, <3>5 DEF EndBatch, TypeOK
  <2>9. ASSUME NEW s \in States, ConsumerExits(s) PROVE TypeOK'
    <3>1. status' \in [Messages -> Status]
      BY <2>9, MarkType DEF ConsumerExits, Status
    <3>2. queues' \in [Keys -> States \cup {None}]
      BY <2>9, ExceptType DEF ConsumerExits, TypeOK
    <3>3. batch' \in [States -> Seq(Messages)]
      BY <2>9, ExceptType DEF ConsumerExits, TypeOK
    <3>4. consumer' \in [States -> ConsumerPC]
      BY <2>9, ExceptType DEF ConsumerExits, TypeOK, ConsumerPC
    <3> QED BY <2>9, <3>1, <3>2, <3>3, <3>4 DEF ConsumerExits, TypeOK
  <2>15. ASSUME NEW s \in States, BatchSwallowsCancel(s) PROVE TypeOK'
    <3>1. status' \in [Messages -> Status]
      BY <2>15, MarkType DEF BatchSwallowsCancel, Status
    <3>2. /\ batch' \in [States -> Seq(Messages)]
          /\ consumer' \in [States -> ConsumerPC]
          /\ cancel' \in [States -> CancelState]
      BY <2>15, ExceptType DEF BatchSwallowsCancel, TypeOK, ConsumerPC, CancelState
    <3>3. idle' \in [States -> BOOLEAN]
      BY <2>15 DEF BatchSwallowsCancel, TypeOK
    <3> QED BY <2>15, <3>1, <3>2, <3>3 DEF BatchSwallowsCancel, TypeOK
  <2>10. ASSUME NEW s \in States, ConsumerNeverRuns(s) PROVE TypeOK'
    BY <2>10 DEF ConsumerNeverRuns, TypeOK, ConsumerPC
  <2>11. ASSUME NEW s \in States, Lull(s) PROVE TypeOK'
    BY <2>11 DEF Lull, TypeOK
  <2>12. ASSUME Cleaner PROVE TypeOK'
    <3>1. CASE CleanupScan
      BY <3>1 DEF CleanupScan, PopAndCancel, IdleKeys, TypeOK, CleanerPC, CancelState
    <3>2. CASE CleanupNext
      BY <3>2 DEF CleanupNext, PopAndCancel, TypeOK, CleanerPC, CancelState
    <3>3. CASE CleanupRoundEnds
      BY <3>3 DEF CleanupRoundEnds, TypeOK, CleanerPC
    <3> QED BY <2>12, <3>1, <3>2, <3>3 DEF Cleaner
  <2>13. ASSUME Stop PROVE TypeOK'
    <3>1. CASE StopSenders
      <4>1. status' \in [Messages -> Status]
        BY <3>1, MarkType DEF StopSenders, Status
      <4> QED BY <3>1, <4>1 DEF StopSenders, TypeOK, Phases
    <3>2. CASE StopCleanup
      <4>1. cancel' \in [States -> CancelState]
        BY <3>2, ExceptType DEF StopCleanup, TypeOK, CancelState
      <4>2. cleaner' \in [pc: CleanerPC, todo: SUBSET Keys, at: States \cup {None}]
        BY <3>2 DEF StopCleanup, TypeOK, CleanerPC
      <4> QED BY <3>2, <4>1, <4>2 DEF StopCleanup, TypeOK, Phases
    <3>3. CASE StopConsumers
      BY <3>3 DEF StopConsumers, TypeOK, Phases, CancelState
    <3>4. CASE StopClears
      BY <3>4 DEF StopClears, TypeOK, Phases
    <3> QED BY <2>13, <3>1, <3>2, <3>3, <3>4 DEF Stop
  <2>14. CASE UNCHANGED vars
    BY <2>14 DEF vars, TypeOK
  <2> QED
    BY <2>1, <2>2, <2>3, <2>4, <2>5, <2>6, <2>7, <2>8, <2>9, <2>10, <2>11,
       <2>12, <2>13, <2>14, <2>15 DEF Next, Sender, Consumer
<1> QED BY <1>1, <1>2, PTL DEF Spec

-----------------------------------------------------------------------------
(* Serialization.  Each lemma lists what a kind of step does to the dict,  *)
(* the tasks and the cancellations, and derives the three parts of the     *)
(* invariant from that list.                                               *)

\* A step that leaves the dict and the cancellations alone, and ends no
\* consumer that was not cancelled, preserves the invariant.
LEMMA QuietStep ==
    ASSUME TypeOK, SerialInv,
           UNCHANGED <<queues, stateKey, phase>>,
           UNCHANGED cleaner \/ cleaner'.pc # "awaiting",
           \A s \in States \cup {None} : WasCancelled(s)' = WasCancelled(s),
           \A s \in States :
               \/ consumer'[s] = consumer[s]
               \/ /\ consumer[s] \notin {"absent", "done"}
                  /\ consumer'[s] # "absent"
                  /\ consumer'[s] = "done" => WasCancelled(s)
    PROVE  SerialInv'
<1>1. LifecycleInv'
  <2>1. /\ \A s \in States : stateKey'[s] = None <=> consumer'[s] = "absent"
        /\ \A s \in States : consumer'[s] = "absent" => ~WasCancelled(s)'
        /\ \A s \in States : consumer'[s] = "done" => WasCancelled(s)'
    BY DEF SerialInv, LifecycleInv
  <2>2. cleaner'.pc = "awaiting" => cleaner'.at # None /\ WasCancelled(cleaner.at)'
    <3>1. cleaner.at \in States \cup {None}
      BY DEF TypeOK
    <3> QED BY <3>1 DEF SerialInv, LifecycleInv
  <2> QED BY <2>1, <2>2 DEF LifecycleInv
<1>2. RegistrationInv'
  <2>1. \A k \in Keys : queues[k] \in States \cup {None}
    BY DEF TypeOK
  <2> QED BY <2>1 DEF SerialInv, RegistrationInv
<1>3. \A k \in Keys : NeverCancelled(k)' => OnlyRegisteredAlive(k)'
  <2>1. \A k \in Keys : AliveFor(k)' \subseteq AliveFor(k)
    BY DEF AliveFor, Alive
  <2>2. \A k \in Keys : NeverCancelled(k)' => NeverCancelled(k)
    BY DEF NeverCancelled
  <2> QED BY <2>1, <2>2 DEF SerialInv, OnlyRegisteredAlive
<1> QED BY <1>1, <1>2, <1>3 DEF SerialInv

LEMMA EnqueueKeepsSerial ==
    ASSUME TypeOK, SerialInv, NEW m \in Messages, Enqueue(m)
    PROVE  SerialInv'
<1> USE ConstantsAssumption
<1>1. PICK s \in States : EnqueueTo(m, s)
  BY DEF Enqueue
<1> DEFINE k == KeyOf[m]
<1>2. k \in Keys /\ s # None /\ k # None
  OBVIOUS
<1>3. /\ UNCHANGED <<phase, cleaner>>
      /\ phase # "stopped"
      /\ \A t \in States \cup {None} : WasCancelled(t)' = WasCancelled(t)
  BY <1>1 DEF EnqueueTo, WasCancelled
<1>4. CASE UNCHANGED <<queues, stateKey, consumer>>
  BY <1>3, <1>4, QuietStep
<1>5. CASE /\ queues[k] = None
           /\ consumer[s] = "absent"
           /\ queues' = [queues EXCEPT ![k] = s]
           /\ stateKey' = [stateKey EXCEPT ![s] = k]
           /\ consumer' = [consumer EXCEPT ![s] = "created"]
  <2> HIDE DEF k
  <2>1. /\ queues'[k] = s
        /\ stateKey'[s] = k
        /\ consumer'[s] = "created"
        /\ stateKey[s] = None
        /\ ~WasCancelled(s)
    BY <1>2, <1>5 DEF TypeOK, SerialInv, LifecycleInv
  <2>2. \A t \in States : t # s => /\ stateKey'[t] = stateKey[t]
                                   /\ consumer'[t] = consumer[t]
    BY <1>5 DEF TypeOK
  <2>3. \A j \in Keys : j # k => queues'[j] = queues[j] /\ queues[j] # s
    BY <1>2, <1>5, <2>1 DEF TypeOK, SerialInv, RegistrationInv
  <2>4. LifecycleInv'
    <3>1. /\ \A t \in States : stateKey'[t] = None <=> consumer'[t] = "absent"
          /\ \A t \in States : consumer'[t] = "absent" => ~WasCancelled(t)'
          /\ \A t \in States : consumer'[t] = "done" => WasCancelled(t)'
      BY <1>2, <1>3, <2>1, <2>2 DEF SerialInv, LifecycleInv
    <3>2. cleaner'.pc = "awaiting" => cleaner'.at # None /\ WasCancelled(cleaner.at)'
      <4>1. cleaner.at \in States \cup {None}
        BY DEF TypeOK
      <4> QED BY <1>3, <4>1 DEF SerialInv, LifecycleInv
    <3> QED BY <3>1, <3>2 DEF LifecycleInv
  <2>5. RegistrationInv'
    <3> SUFFICES ASSUME NEW j \in Keys, queues'[j] # None
                 PROVE  /\ stateKey'[queues'[j]] = j
                        /\ WasCancelled(queues[j])' => phase' = "draining"
      BY DEF RegistrationInv
    <3>1. CASE j = k
      BY <1>3, <2>1, <3>1
    <3>2. CASE j # k
      <4>1. queues'[j] = queues[j] /\ queues[j] # s /\ queues[j] \in States
        BY <2>3, <3>2 DEF TypeOK
      <4> QED BY <1>3, <2>2, <4>1 DEF SerialInv, RegistrationInv
    <3> QED BY <3>1, <3>2
  <2>6. ASSUME NEW j \in Keys, NeverCancelled(j)'
        PROVE  OnlyRegisteredAlive(j)'
    <3>1. NeverCancelled(j)
      BY <1>2, <1>3, <2>1, <2>2, <2>6 DEF NeverCancelled
    <3>2. \A t \in AliveFor(j) : queues[j] = t
      BY <3>1, <1>3 DEF SerialInv, OnlyRegisteredAlive
    <3>3. \A t \in AliveFor(j)' : queues'[j] = t
      <4>1. CASE j = k
        BY <1>2, <1>5, <2>1, <2>2, <3>2, <4>1 DEF AliveFor, Alive
      <4>2. CASE j # k
        BY <2>1, <2>2, <2>3, <3>2, <4>2 DEF AliveFor, Alive
      <4> QED BY <4>1, <4>2
    <3> QED BY <3>3 DEF OnlyRegisteredAlive
  <2> QED BY <2>4, <2>5, <2>6 DEF SerialInv
<1> QED BY <1>1, <1>4, <1>5 DEF EnqueueTo, Resolve

\* Popping a key, and cancelling what it named, leaves that key with a
\* cancelled consumer and the others as they were.
LEMMA PopKeepsSerial ==
    ASSUME TypeOK, SerialInv, NEW k \in Keys, NEW todo, queues[k] # None,
           PopAndCancel(k, todo), UNCHANGED <<stateKey, consumer, phase>>
    PROVE  SerialInv'
<1>0. PICK s \in States : queues[k] = s
  BY DEF TypeOK
<1>1. s # None /\ stateKey[s] = k
  BY <1>0 DEF SerialInv, RegistrationInv
<1>2. consumer[s] # "absent"
  BY <1>1, ConstantsAssumption DEF SerialInv, LifecycleInv
<1>3. WasCancelled(s)' /\ queues'[k] = None /\ cleaner'.at = s
  BY <1>0 DEF PopAndCancel, TypeOK, WasCancelled
<1>4. \A t \in States : t # s => WasCancelled(t)' = WasCancelled(t)
  BY <1>0 DEF PopAndCancel, TypeOK, WasCancelled
<1>5. \A j \in Keys : j # k => queues'[j] = queues[j]
  BY DEF PopAndCancel, TypeOK
<1>6. \A j \in Keys : j # k /\ queues[j] # None => queues[j] \in States /\ queues[j] # s
  BY <1>1 DEF TypeOK, SerialInv, RegistrationInv
<1>7. \A j \in Keys : AliveFor(j)' = AliveFor(j)
  BY DEF AliveFor, Alive
<1>8. LifecycleInv'
  <2>1. /\ \A t \in States : stateKey'[t] = None <=> consumer'[t] = "absent"
        /\ \A t \in States : consumer'[t] = "absent" => ~WasCancelled(t)'
        /\ \A t \in States : consumer'[t] = "done" => WasCancelled(t)'
    BY <1>2, <1>3, <1>4 DEF SerialInv, LifecycleInv
  <2>2. cleaner'.at # None /\ WasCancelled(cleaner.at)'
    <3>1. WasCancelled(cleaner.at)' <=> cancel'[cleaner'.at] # "none"
      BY DEF WasCancelled
    <3>2. WasCancelled(s)' <=> cancel'[s] # "none"
      BY DEF WasCancelled
    <3> QED BY <1>1, <1>3, <3>1, <3>2
  <2> QED BY <2>1, <2>2 DEF LifecycleInv
<1>9. RegistrationInv'
  <2> SUFFICES ASSUME NEW j \in Keys, queues'[j] # None
               PROVE  /\ stateKey'[queues'[j]] = j
                      /\ WasCancelled(queues[j])' => phase' = "draining"
    BY DEF RegistrationInv
  <2>1. j # k /\ queues'[j] = queues[j] /\ queues[j] \in States /\ queues[j] # s
    BY <1>3, <1>5, <1>6
  <2>2. WasCancelled(queues[j])' <=> cancel'[queues[j]] # "none"
    BY <2>1 DEF WasCancelled
  <2>3. cancel'[queues[j]] = cancel[queues[j]]
    BY <1>0, <2>1 DEF PopAndCancel, TypeOK
  <2> QED BY <2>1, <2>2, <2>3 DEF SerialInv, RegistrationInv, WasCancelled
<1>10. ASSUME NEW j \in Keys, NeverCancelled(j)'
       PROVE  OnlyRegisteredAlive(j)'
  <2>1. j # k
    BY <1>1, <1>3, <1>10 DEF NeverCancelled
  <2>2. NeverCancelled(j)
    BY <1>1, <1>4, <1>10, <2>1 DEF NeverCancelled
  <2> QED BY <1>5, <1>7, <2>1, <2>2 DEF SerialInv, OnlyRegisteredAlive
<1> QED BY <1>8, <1>9, <1>10 DEF SerialInv

LEMMA ExitKeepsSerial ==
    ASSUME TypeOK, SerialInv, NEW s \in States, ConsumerExits(s)
    PROVE  SerialInv'
<1>1. /\ WasCancelled(s)
      /\ consumer[s] \notin {"absent", "done"}
      /\ UNCHANGED <<stateKey, cancel, phase, cleaner>>
  BY DEF ConsumerExits, WasCancelled
<1>2. \A t : WasCancelled(t)' = WasCancelled(t)
  BY <1>1 DEF WasCancelled
<1>3. consumer'[s] = "done" /\ \A t \in States : t # s => consumer'[t] = consumer[t]
  BY DEF ConsumerExits, TypeOK
<1>4. /\ \A j \in Keys : queues'[j] # None => queues'[j] = queues[j]
      /\ \A j \in Keys : j # stateKey[s] => queues'[j] = queues[j]
  BY DEF ConsumerExits, TypeOK
<1>5. LifecycleInv'
  BY <1>1, <1>2, <1>3 DEF SerialInv, LifecycleInv
<1>6. RegistrationInv'
  BY <1>1, <1>2, <1>4 DEF SerialInv, RegistrationInv
<1>7. ASSUME NEW j \in Keys, NeverCancelled(j)'
      PROVE  OnlyRegisteredAlive(j)'
  <2>1. NeverCancelled(j)
    BY <1>1, <1>2, <1>7 DEF NeverCancelled
  <2>2. j # stateKey[s]
    BY <1>1, <2>1 DEF NeverCancelled
  <2>3. AliveFor(j)' = AliveFor(j)
    BY <1>1, <1>3, <2>2 DEF AliveFor, Alive
  <2> QED BY <1>1, <1>4, <2>1, <2>2, <2>3 DEF SerialInv, OnlyRegisteredAlive
<1> QED BY <1>5, <1>6, <1>7 DEF SerialInv

LEMMA StopKeepsSerial ==
    ASSUME TypeOK, SerialInv, Stop
    PROVE  SerialInv'
<1>1. CASE StopSenders
  <2>1. /\ UNCHANGED <<queues, stateKey, consumer, cancel, cleaner>>
        /\ phase = "running" /\ phase' = "senders"
    BY <1>1 DEF StopSenders
  <2> QED
    BY <2>1 DEF SerialInv, LifecycleInv, RegistrationInv, NeverCancelled,
                OnlyRegisteredAlive, AliveFor, Alive, WasCancelled
<1>2. CASE StopCleanup
  <2>1. /\ UNCHANGED <<queues, stateKey, consumer>>
        /\ phase = "senders" /\ phase' = "cleanup"
        /\ UNCHANGED cleaner \/ cleaner'.pc = "done"
    BY <1>2 DEF StopCleanup, TypeOK
  <2>2. \A t \in States \cup {None} : WasCancelled(t)' = WasCancelled(t)
    <3>1. CASE UNCHANGED cancel
      BY <3>1 DEF WasCancelled
    <3>2. CASE /\ cleaner.pc = "awaiting"
               /\ cancel' = [cancel EXCEPT ![cleaner.at] = "pending"]
      <4>1. cleaner.at \in States /\ WasCancelled(cleaner.at)
        BY <3>2 DEF SerialInv, LifecycleInv, TypeOK
      <4>2. \A t : t # cleaner.at => cancel'[t] = cancel[t]
        BY <3>2 DEF TypeOK
      <4>3. cancel'[cleaner.at] = "pending"
        BY <3>2, <4>1 DEF TypeOK
      <4> QED BY <4>1, <4>2, <4>3 DEF WasCancelled
    <3> QED BY <1>2, <3>1, <3>2 DEF StopCleanup
  <2>3. LifecycleInv'
    <3>1. cleaner'.pc = "awaiting" => cleaner'.at # None /\ WasCancelled(cleaner.at)'
      <4>1. cleaner.at \in States \cup {None}
        BY DEF TypeOK
      <4> QED BY <2>1, <2>2, <4>1 DEF SerialInv, LifecycleInv
    <3> QED BY <2>1, <2>2, <3>1 DEF SerialInv, LifecycleInv
  <2>4. RegistrationInv'
    <3>1. \A k \in Keys : queues[k] \in States \cup {None}
      BY DEF TypeOK
    <3> QED BY <2>1, <2>2, <3>1 DEF SerialInv, RegistrationInv
  <2>5. \A k \in Keys : NeverCancelled(k)' => OnlyRegisteredAlive(k)'
    <3>1. \A k \in Keys : NeverCancelled(k)' => NeverCancelled(k)
      BY <2>1, <2>2 DEF NeverCancelled
    <3>2. \A k \in Keys : AliveFor(k)' = AliveFor(k)
      BY <2>1 DEF AliveFor, Alive
    <3> QED BY <2>1, <3>1, <3>2 DEF SerialInv, OnlyRegisteredAlive
  <2> QED BY <2>3, <2>4, <2>5 DEF SerialInv
<1>3. CASE StopConsumers
  <2>1. /\ phase' = "draining" /\ phase # "stopped"
        /\ UNCHANGED <<queues, stateKey, consumer, cleaner>>
        /\ cleaner.pc = "done"
    BY <1>3 DEF StopConsumers
  <2>2. \A s \in States : WasCancelled(s)' <=> WasCancelled(s) \/ Registered(s)
    BY <1>3 DEF StopConsumers, WasCancelled
  <2>3. \A s \in States : Registered(s) => consumer[s] # "absent"
    <3> SUFFICES ASSUME NEW s \in States, Registered(s)
                 PROVE  consumer[s] # "absent"
      OBVIOUS
    <3>1. PICK k \in Keys : queues[k] = s
      BY DEF Registered
    <3>2. stateKey[s] = k /\ k # None /\ s # None
      BY <3>1, ConstantsAssumption DEF SerialInv, RegistrationInv
    <3> QED BY <3>2 DEF SerialInv, LifecycleInv
  <2>4. LifecycleInv'
    BY <2>1, <2>2, <2>3 DEF SerialInv, LifecycleInv
  <2>5. RegistrationInv'
    BY <2>1 DEF SerialInv, RegistrationInv
  <2>6. \A k \in Keys : NeverCancelled(k)' => OnlyRegisteredAlive(k)'
    <3>1. \A k \in Keys : NeverCancelled(k)' => NeverCancelled(k)
      BY <2>1, <2>2 DEF NeverCancelled
    <3>2. \A k \in Keys : AliveFor(k)' = AliveFor(k)
      BY <2>1 DEF AliveFor, Alive
    <3> QED BY <2>1, <3>1, <3>2 DEF SerialInv, OnlyRegisteredAlive
  <2> QED BY <2>4, <2>5, <2>6 DEF SerialInv
<1>4. CASE StopClears
  <2>1. /\ phase = "draining" /\ phase' = "stopped"
        /\ \A j \in Keys : queues'[j] = None
        /\ UNCHANGED <<stateKey, consumer, cancel, cleaner>>
    BY <1>4 DEF StopClears
  <2>2. \A t : WasCancelled(t)' = WasCancelled(t)
    BY <2>1 DEF WasCancelled
  <2>3. LifecycleInv' /\ RegistrationInv'
    BY <2>1, <2>2 DEF SerialInv, LifecycleInv, RegistrationInv
  <2>4. \A k \in Keys : NeverCancelled(k)' => OnlyRegisteredAlive(k)'
    <3>1. \A k \in Keys : NeverCancelled(k)' => NeverCancelled(k)
      BY <2>1, <2>2 DEF NeverCancelled
    <3>2. \A k \in Keys : AliveFor(k)' = AliveFor(k)
      BY <2>1 DEF AliveFor, Alive
    <3> QED BY <2>1, <3>1, <3>2 DEF SerialInv, OnlyRegisteredAlive
  <2> QED BY <2>3, <2>4 DEF SerialInv
<1> QED BY <1>1, <1>2, <1>3, <1>4 DEF Stop

\* The strengthening of the two theorems that follow.
THEOREM SerialInvariant == Spec => []SerialInv
<1> USE ConstantsAssumption
<1>1. Init => SerialInv
  <2> SUFFICES ASSUME Init PROVE SerialInv
    OBVIOUS
  <2>1. /\ \A s \in States : ~WasCancelled(s) /\ ~Alive(s)
        /\ LifecycleInv
    BY DEF Init, WasCancelled, Alive, LifecycleInv
  <2>2. RegistrationInv
    BY DEF Init, RegistrationInv
  <2> QED BY <2>1, <2>2 DEF SerialInv, OnlyRegisteredAlive, AliveFor
<1>2. TypeOK /\ SerialInv /\ [Next]_vars => SerialInv'
  <2> SUFFICES ASSUME TypeOK, SerialInv, [Next]_vars PROVE SerialInv'
    OBVIOUS
  <2>1. ASSUME NEW m \in Messages, Sender(m) PROVE SerialInv'
    <3>1. CASE Enqueue(m)
      BY <3>1, EnqueueKeepsSerial
    <3>2. CASE PutResumes(m) \/ PutTimesOut(m)
      BY <3>2, QuietStep DEF PutResumes, PutTimesOut, WasCancelled
    <3> QED BY <2>1, <3>1, <3>2 DEF Sender
  <2>2. ASSUME NEW k \in Keys, ClearQueue(k) PROVE SerialInv'
    BY <2>2, QuietStep DEF ClearQueue, WasCancelled
  <2>3. ASSUME NEW s \in States, Consumer(s) PROVE SerialInv'
    <3>1. CASE ConsumerStarts(s)
      BY <3>1, QuietStep DEF ConsumerStarts, TypeOK, WasCancelled
    <3>2. CASE Take(s)
      BY <3>2, QuietStep DEF Take, TypeOK, WasCancelled
    <3>3. CASE Drain(s)
      BY <3>3, QuietStep DEF Drain, TypeOK, WasCancelled
    <3>4. CASE FinishBatch(s) \/ FailBatch(s)
      BY <3>4, QuietStep DEF FinishBatch, FailBatch, EndBatch, TypeOK, WasCancelled
    <3>5. CASE ConsumerExits(s)
      BY <3>5, ExitKeepsSerial
    <3>6. CASE BatchSwallowsCancel(s)
      <4>1. \A t \in States \cup {None} : WasCancelled(t)' = WasCancelled(t)
        BY <3>6 DEF BatchSwallowsCancel, TypeOK, WasCancelled
      <4> QED BY <3>6, <4>1, QuietStep DEF BatchSwallowsCancel, TypeOK
    <3>7. CASE ConsumerNeverRuns(s)
      <4>1. WasCancelled(s) /\ \A t : WasCancelled(t)' = WasCancelled(t)
        BY <3>7 DEF ConsumerNeverRuns, WasCancelled
      <4> QED BY <3>7, <4>1, QuietStep DEF ConsumerNeverRuns, TypeOK
    <3> QED
      BY <2>3, <3>1, <3>2, <3>3, <3>4, <3>5, <3>6, <3>7 DEF Consumer
  <2>4. ASSUME NEW s \in States, Lull(s) PROVE SerialInv'
    BY <2>4, QuietStep DEF Lull, WasCancelled
  <2>5. ASSUME Cleaner PROVE SerialInv'
    <3>1. CASE CleanupScan
      BY <3>1, PopKeepsSerial DEF CleanupScan, IdleKeys
    <3>2. CASE CleanupNext
      <4>1. cleaner.todo \subseteq Keys
        BY DEF TypeOK
      <4> QED BY <3>2, <4>1, PopKeepsSerial DEF CleanupNext
    <3>3. CASE CleanupRoundEnds
      BY <3>3, QuietStep DEF CleanupRoundEnds, WasCancelled
    <3> QED BY <2>5, <3>1, <3>2, <3>3 DEF Cleaner
  <2>6. CASE Stop
    BY <2>6, StopKeepsSerial
  <2>7. CASE UNCHANGED vars
    BY <2>7, QuietStep DEF vars, WasCancelled
  <2> QED BY <2>1, <2>2, <2>3, <2>4, <2>5, <2>6, <2>7 DEF Next
<1> QED BY <1>1, <1>2, TypeCorrect, PTL DEF Spec

\* A key has two live consumers only after one of its consumers was cancelled:
\* what holds of "strict serialization for messages with the same QueueKey".
THEOREM Serialization == Spec => []SerialUnlessCancelled
<1>1. SerialInv => SerialUnlessCancelled
  BY DEF SerialInv, SerialUnlessCancelled, OnlyRegisteredAlive
<1> QED BY <1>1, SerialInvariant, PTL

\* Whatever enqueue finds in the dict has a consumer that will serve it, until
\* stop_all has cancelled the consumers.
THEOREM RegisteredServed == Spec => []RegisteredIsServed
<1>1. TypeOK /\ SerialInv => RegisteredIsServed
  <2> SUFFICES ASSUME TypeOK, SerialInv, NEW k \in Keys, queues[k] # None
               PROVE  /\ stateKey[queues[k]] = k
                      /\ Alive(queues[k]) \/ phase = "draining"
                      /\ WasCancelled(queues[k]) => phase = "draining"
    BY DEF RegisteredIsServed
  <2>1. queues[k] \in States /\ stateKey[queues[k]] = k /\ k # None
    BY ConstantsAssumption DEF TypeOK, SerialInv, RegistrationInv
  <2>2. WasCancelled(queues[k]) => phase = "draining"
    BY DEF SerialInv, RegistrationInv
  <2> QED BY <2>1, <2>2 DEF SerialInv, LifecycleInv, Alive
<1> QED BY <1>1, TypeCorrect, SerialInvariant, PTL

-----------------------------------------------------------------------------
(* Where the payloads are.                                                 *)

\* A sequence lists a set: it holds every element once and nothing else.
Lists(seq, S) ==
    /\ \A i \in DOMAIN seq : seq[i] \in S
    /\ \A e \in S : \E i \in DOMAIN seq : seq[i] = e
    /\ \A i, j \in DOMAIN seq : seq[i] = seq[j] => i = j

LEMMA ListsEmpty == Lists(<<>>, {})
BY DEF Lists

LEMMA ListsOnlyEmpty ==
    ASSUME NEW S, Lists(<<>>, S)
    PROVE  S = {}
BY DEF Lists

LEMMA ListsOne ==
    ASSUME NEW e
    PROVE  Lists(<<e>>, {e})
BY DEF Lists

LEMMA ListsAppend ==
    ASSUME NEW T, NEW q \in Seq(T), NEW S, Lists(q, S), NEW e \in T, e \notin S
    PROVE  Lists(Append(q, e), S \cup {e})
<1> DEFINE r == Append(q, e)
<1>1. /\ DOMAIN r = 1..(Len(q) + 1) /\ DOMAIN q = 1..Len(q) /\ Len(q) \in Nat
      /\ \A i \in DOMAIN q : r[i] = q[i]
      /\ r[Len(q) + 1] = e
  OBVIOUS
<1> HIDE DEF r
<1>2. \A i \in DOMAIN r : i \in DOMAIN q \/ i = Len(q) + 1
  BY <1>1
<1>3. \A i \in DOMAIN r : r[i] \in S \cup {e}
  BY <1>1, <1>2 DEF Lists
<1>4. \A x \in S \cup {e} : \E i \in DOMAIN r : r[i] = x
  BY <1>1 DEF Lists
<1>5. \A i, j \in DOMAIN r : r[i] = r[j] => i = j
  BY <1>1, <1>2 DEF Lists
<1> QED BY <1>3, <1>4, <1>5 DEF Lists, r

LEMMA ListsTail ==
    ASSUME NEW T, NEW q \in Seq(T), q # <<>>, NEW S, Lists(q, S)
    PROVE  Head(q) \in S /\ Lists(Tail(q), S \ {Head(q)})
<1> DEFINE r == Tail(q)
<1>1. /\ DOMAIN r = 1..(Len(q) - 1) /\ DOMAIN q = 1..Len(q) /\ Len(q) \in Nat \ {0}
      /\ \A i \in DOMAIN r : r[i] = q[i + 1]
      /\ Head(q) = q[1]
  OBVIOUS
<1> HIDE DEF r
<1>2. Head(q) \in S
  BY <1>1 DEF Lists
<1>3. \A i \in DOMAIN r : i + 1 \in DOMAIN q /\ i + 1 # 1
  BY <1>1
<1>4. \A i \in DOMAIN r : r[i] \in S \ {Head(q)}
  BY <1>1, <1>3 DEF Lists
<1>5. ASSUME NEW x \in S \ {Head(q)}
      PROVE  \E i \in DOMAIN r : r[i] = x
  <2>1. PICK j \in DOMAIN q : q[j] = x
    BY DEF Lists
  <2>2. j - 1 \in DOMAIN r /\ (j - 1) + 1 = j
    BY <1>1, <2>1
  <2> QED BY <1>1, <2>1, <2>2
<1>6. \A i, j \in DOMAIN r : r[i] = r[j] => i = j
  <2> SUFFICES ASSUME NEW i \in DOMAIN r, NEW j \in DOMAIN r, r[i] = r[j]
               PROVE  i = j
    OBVIOUS
  <2>1. i + 1 = j + 1
    BY <1>1, <1>3 DEF Lists
  <2> QED BY <1>1, <2>1
<1> QED BY <1>2, <1>4, <1>5, <1>6 DEF Lists, r

LEMMA ListsConcat ==
    ASSUME NEW T, NEW p \in Seq(T), NEW q \in Seq(T), NEW R, NEW S,
           Lists(p, R), Lists(q, S), R \cap S = {}
    PROVE  Lists(p \o q, R \cup S)
<1> DEFINE c == p \o q
<1>1. /\ DOMAIN c = 1..(Len(p) + Len(q)) /\ Len(p) \in Nat /\ Len(q) \in Nat
      /\ DOMAIN p = 1..Len(p) /\ DOMAIN q = 1..Len(q)
      /\ \A i \in DOMAIN p : c[i] = p[i]
      /\ \A i \in DOMAIN q : c[i + Len(p)] = q[i]
  OBVIOUS
<1> HIDE DEF c
<1>2. \A i \in DOMAIN c : i \in DOMAIN p \/ (i - Len(p) \in DOMAIN q
                                               /\ c[i] = q[i - Len(p)])
  BY <1>1
<1>3. \A i \in DOMAIN c : c[i] \in R \cup S
  BY <1>1, <1>2 DEF Lists
<1>4. ASSUME NEW x \in R \cup S
      PROVE  \E i \in DOMAIN c : c[i] = x
  <2>1. CASE x \in R
    BY <1>1, <2>1 DEF Lists
  <2>2. CASE x \in S
    <3>1. PICK j \in DOMAIN q : q[j] = x
      BY <2>2 DEF Lists
    <3>2. j + Len(p) \in DOMAIN c
      BY <1>1, <3>1
    <3> QED BY <1>1, <3>1, <3>2
  <2> QED BY <2>1, <2>2
<1>5. ASSUME NEW i \in DOMAIN c, NEW j \in DOMAIN c, c[i] = c[j]
      PROVE  i = j
  <2>1. CASE i \in DOMAIN p /\ j \in DOMAIN p
    BY <1>1, <1>5, <2>1 DEF Lists
  <2>2. CASE i \notin DOMAIN p /\ j \notin DOMAIN p
    <3>1. i - Len(p) = j - Len(p)
      BY <1>2, <1>5, <2>2 DEF Lists
    <3> QED BY <1>1, <3>1
  <2>3. CASE i \in DOMAIN p /\ j \notin DOMAIN p
    BY <1>1, <1>2, <1>5, <2>3 DEF Lists
  <2>4. CASE i \notin DOMAIN p /\ j \in DOMAIN p
    BY <1>1, <1>2, <1>5, <2>4 DEF Lists
  <2> QED BY <2>1, <2>2, <2>3, <2>4
<1> QED BY <1>3, <1>4, <1>5 DEF Lists, c

LEMMA ListsToSet ==
    ASSUME NEW q, NEW S, Lists(q, S)
    PROVE  ToSet(q) = S
BY DEF Lists, ToSet

LEMMA ListsCount ==
    ASSUME NEW q, NEW S, Lists(q, S), NEW e
    PROVE  Cardinality({i \in DOMAIN q : q[i] = e}) = IF e \in S THEN 1 ELSE 0
<1>1. CASE e \in S
  <2>1. PICK j \in DOMAIN q : q[j] = e
    BY <1>1 DEF Lists
  <2>2. {i \in DOMAIN q : q[i] = e} = {j}
    BY <2>1 DEF Lists
  <2> QED BY <1>1, <2>2, FS_Singleton
<1>2. CASE e \notin S
  <2>1. {i \in DOMAIN q : q[i] = e} = {}
    BY <1>2 DEF Lists
  <2> QED BY <1>2, <2>1, FS_EmptySet
<1> QED BY <1>1, <1>2

\* The payloads that should be in a queue, and in its consumer's batch.
Queued(s) == {m \in Messages : status[m] = "queued" /\ target[m] = s}
Taken(s) == {m \in Messages : status[m] = "taken" /\ target[m] = s}

\* Queues and batches list them; a consumer has a batch only from Take to the
\* end of that batch; and a waiting put has resolved to a QueueState.
ListedInv ==
    \A s \in States : Lists(buffer[s], Queued(s)) /\ Lists(batch[s], Taken(s))

BatchInv ==
    \A s \in States : consumer[s] \notin {"lookup", "processing"} => batch[s] = <<>>

PendingInv ==
    \A m \in Messages : status[m] = "pending" => target[m] \in States

PlacesInv == ListedInv /\ BatchInv /\ PendingInv

\* Steps that move no payload into or out of a queue or a batch.
LEMMA PlacesStay ==
    ASSUME TypeOK, PlacesInv,
           UNCHANGED <<buffer, batch, target>>,
           \A m \in Messages : \/ status'[m] = status[m]
                               \/ status[m] = "pending" /\ status'[m] = "rejected",
           \A s \in States : consumer'[s] = consumer[s]
                               \/ consumer[s] \notin {"lookup", "processing"}
    PROVE  PlacesInv'
<1>1. ASSUME NEW s \in States
      PROVE  Queued(s)' = Queued(s) /\ Taken(s)' = Taken(s)
  <2>1. Queued(s)' = {m \in Messages : status'[m] = "queued" /\ target'[m] = s}
    BY DEF Queued
  <2>2. Taken(s)' = {m \in Messages : status'[m] = "taken" /\ target'[m] = s}
    BY DEF Taken
  <2> QED BY <2>1, <2>2 DEF Queued, Taken
<1>2. ListedInv'
  BY <1>1 DEF PlacesInv, ListedInv
<1>3. BatchInv' /\ PendingInv'
  BY DEF PlacesInv, BatchInv, PendingInv, TypeOK
<1> QED BY <1>2, <1>3 DEF PlacesInv

\* A put adds its payload at the end of the queue it resolved to.
LEMMA PutKeepsPlaces ==
    ASSUME TypeOK, PlacesInv, NEW m \in Messages, NEW s \in States,
           status[m] \in {"new", "pending"}, Put(m, s), UNCHANGED batch,
           target' = [target EXCEPT ![m] = s],
           \A t \in States : consumer'[t] = consumer[t]
                               \/ consumer[t] \notin {"lookup", "processing"}
    PROVE  PlacesInv'
<1>1. Queued(s)' = Queued(s) \cup {m} /\ m \notin Queued(s)
  BY DEF Put, Queued, TypeOK
<1>2. \A t \in States : /\ t # s => Queued(t)' = Queued(t)
                        /\ Taken(t)' = Taken(t)
  BY DEF Put, Queued, Taken, TypeOK
<1>3. buffer[s] \in Seq(Messages) /\ Lists(buffer[s], Queued(s))
  BY DEF TypeOK, PlacesInv, ListedInv
<1>4. Lists(Append(buffer[s], m), Queued(s) \cup {m})
  BY <1>1, <1>3, ListsAppend
<1>5. buffer' = [buffer EXCEPT ![s] = Append(buffer[s], m)]
  BY DEF Put
<1>6. ASSUME NEW t \in States
      PROVE  Lists(buffer'[t], Queued(t)') /\ Lists(batch'[t], Taken(t)')
  <2>1. Lists(buffer[t], Queued(t)) /\ Lists(batch[t], Taken(t))
    BY DEF PlacesInv, ListedInv
  <2>2. buffer'[t] = IF t = s THEN Append(buffer[s], m) ELSE buffer[t]
    BY <1>5 DEF TypeOK
  <2> QED BY <1>1, <1>2, <1>4, <2>1, <2>2
<1>7. BatchInv' /\ PendingInv'
  BY DEF PlacesInv, BatchInv, PendingInv, Put, TypeOK
<1>8. ListedInv'
  BY <1>6 DEF ListedInv
<1> QED BY <1>7, <1>8 DEF PlacesInv

\* Senders put their payloads once.
LEMMA SenderKeepsPlaces ==
    ASSUME TypeOK, PlacesInv, NEW m \in Messages, Sender(m)
    PROVE  PlacesInv'
<1>1. ASSUME NEW s \in States, EnqueueTo(m, s)
      PROVE  PlacesInv'
  <2>1. /\ status[m] = "new" /\ target' = [target EXCEPT ![m] = s] /\ UNCHANGED batch
        /\ \A t \in States : consumer'[t] = consumer[t]
                               \/ consumer[t] \notin {"lookup", "processing"}
    BY <1>1 DEF EnqueueTo, Resolve, TypeOK
  <2>2. CASE Put(m, s)
    BY <2>1, <2>2, PutKeepsPlaces
  <2>3. CASE status' = [status EXCEPT ![m] = "pending"] /\ UNCHANGED <<buffer, accepted>>
    <3>1. \A t \in States : Queued(t)' = Queued(t) /\ Taken(t)' = Taken(t)
      BY <2>1, <2>3 DEF Queued, Taken, TypeOK
    <3>2. ListedInv'
      BY <2>1, <2>3, <3>1 DEF PlacesInv, ListedInv
    <3>3. BatchInv' /\ PendingInv'
      BY <2>1, <2>3 DEF PlacesInv, BatchInv, PendingInv, TypeOK
    <3> QED BY <3>2, <3>3 DEF PlacesInv
  <2> QED BY <1>1, <2>2, <2>3 DEF EnqueueTo
<1>2. CASE PutResumes(m)
  <2>1. target[m] \in States /\ target' = [target EXCEPT ![m] = target[m]]
    BY <1>2 DEF PutResumes, PlacesInv, PendingInv, TypeOK
  <2>2. status[m] = "pending" /\ Put(m, target[m]) /\ UNCHANGED <<batch, consumer>>
    BY <1>2 DEF PutResumes
  <2> QED BY <2>1, <2>2, PutKeepsPlaces
<1>3. CASE PutTimesOut(m)
  BY <1>3, PlacesStay DEF PutTimesOut, TypeOK
<1> QED BY <1>1, <1>2, <1>3 DEF Sender, Enqueue

\* Steps that touch one QueueState's queue and batch, and leave every target.
LEMMA PlacesOf ==
    ASSUME TypeOK, PlacesInv, NEW s \in States, UNCHANGED target,
           \A t \in States : t # s => /\ buffer'[t] = buffer[t]
                                      /\ batch'[t] = batch[t]
                                      /\ consumer'[t] = consumer[t],
           \A m \in Messages : status'[m] = status[m]
                                 \/ (target[m] = s /\ status'[m] # "pending"),
           Lists(buffer'[s], Queued(s)'), Lists(batch'[s], Taken(s)'),
           consumer'[s] \notin {"lookup", "processing"} => batch'[s] = <<>>
    PROVE  PlacesInv'
<1>1. \A t \in States : t # s => Queued(t)' = Queued(t) /\ Taken(t)' = Taken(t)
  BY DEF Queued, Taken
<1>2. ListedInv'
  BY <1>1 DEF PlacesInv, ListedInv
<1>3. BatchInv' /\ PendingInv'
  BY DEF PlacesInv, BatchInv, PendingInv, TypeOK
<1> QED BY <1>2, <1>3 DEF PlacesInv

\* Take moves the head of the queue to an empty batch.
LEMMA TakeKeepsPlaces ==
    ASSUME TypeOK, PlacesInv, NEW s \in States, Take(s)
    PROVE  PlacesInv'
<1> DEFINE m == Head(buffer[s])
<1>1. /\ buffer[s] \in Seq(Messages) /\ buffer[s] # <<>>
      /\ Lists(buffer[s], Queued(s)) /\ batch[s] = <<>> /\ Lists(batch[s], Taken(s))
  BY DEF Take, TypeOK, PlacesInv, ListedInv, BatchInv
<1>2. m \in Queued(s) /\ Lists(Tail(buffer[s]), Queued(s) \ {m})
  BY <1>1, ListsTail
<1>3. Taken(s) = {}
  BY <1>1, ListsOnlyEmpty
<1>4. Lists(<<m>>, {m})
  BY ListsOne
<1>5. /\ buffer' = [buffer EXCEPT ![s] = Tail(buffer[s])]
      /\ batch' = [batch EXCEPT ![s] = <<m>>]
      /\ status' = [status EXCEPT ![m] = "taken"]
      /\ consumer' = [consumer EXCEPT ![s] = "lookup"]
      /\ UNCHANGED target
  BY DEF Take
<1> HIDE DEF m
<1>6. Queued(s)' = Queued(s) \ {m} /\ Taken(s)' = {m}
  BY <1>2, <1>3, <1>5 DEF Queued, Taken, TypeOK
<1>7. \A x \in Messages : status'[x] = status[x]
                            \/ (target[x] = s /\ status'[x] # "pending")
  BY <1>2, <1>5 DEF Queued, TypeOK
<1>8. Lists(buffer'[s], Queued(s)') /\ Lists(batch'[s], Taken(s)')
  BY <1>2, <1>4, <1>5, <1>6 DEF TypeOK
<1> QED BY <1>5, <1>7, <1>8, PlacesOf DEF TypeOK

\* Drain moves the rest of the queue behind it.
LEMMA DrainKeepsPlaces ==
    ASSUME TypeOK, PlacesInv, NEW s \in States, Drain(s)
    PROVE  PlacesInv'
<1>1. /\ buffer[s] \in Seq(Messages) /\ batch[s] \in Seq(Messages)
      /\ Lists(buffer[s], Queued(s)) /\ Lists(batch[s], Taken(s))
  BY DEF TypeOK, PlacesInv, ListedInv
<1>2. Taken(s) \cap Queued(s) = {}
  BY DEF Taken, Queued
<1>3. Lists(batch[s] \o buffer[s], Taken(s) \cup Queued(s))
  BY <1>1, <1>2, ListsConcat
<1>4. /\ buffer' = [buffer EXCEPT ![s] = <<>>]
      /\ batch' = [batch EXCEPT ![s] = batch[s] \o buffer[s]]
      /\ status' = Mark(Queued(s), "taken")
      /\ consumer' = [consumer EXCEPT ![s] = "processing"]
      /\ UNCHANGED target
  BY <1>1, ListsToSet DEF Drain
<1>5. Queued(s)' = {} /\ Taken(s)' = Taken(s) \cup Queued(s)
  BY <1>4 DEF Queued, Taken, Mark
<1>6. \A x \in Messages : status'[x] = status[x]
                            \/ (target[x] = s /\ status'[x] # "pending")
  BY <1>4 DEF Queued, Mark
<1>7. Lists(buffer'[s], Queued(s)') /\ Lists(batch'[s], Taken(s)')
  BY <1>3, <1>4, <1>5, ListsEmpty DEF TypeOK
<1> QED BY <1>4, <1>6, <1>7, PlacesOf DEF TypeOK

\* A batch ends, one way or another: its payloads are in no queue and no batch.
LEMMA EndKeepsPlaces ==
    ASSUME TypeOK, PlacesInv, NEW s \in States,
           NEW st \in {"handled", "failed", "aborted", "detached"}, NEW pc,
           status' = Mark(ToSet(batch[s]), st), batch' = [batch EXCEPT ![s] = <<>>],
           consumer' = [consumer EXCEPT ![s] = pc], UNCHANGED <<buffer, target>>
    PROVE  PlacesInv'
<1>1. Lists(buffer[s], Queued(s)) /\ Lists(batch[s], Taken(s))
  BY DEF PlacesInv, ListedInv
<1>2. status' = Mark(Taken(s), st)
  BY <1>1, ListsToSet
<1>3. Queued(s)' = Queued(s) /\ Taken(s)' = {}
  BY <1>2 DEF Queued, Taken, Mark
<1>4. \A x \in Messages : status'[x] = status[x]
                            \/ (target[x] = s /\ status'[x] # "pending")
  BY <1>2 DEF Taken, Mark
<1>5. Lists(buffer'[s], Queued(s)') /\ Lists(batch'[s], Taken(s)') /\ batch'[s] = <<>>
  BY <1>1, <1>3, ListsEmpty DEF TypeOK
<1> QED BY <1>4, <1>5, PlacesOf DEF TypeOK

\* /stop empties a queue.
LEMMA ClearKeepsPlaces ==
    ASSUME TypeOK, PlacesInv, NEW k \in Keys, NEW s \in States, s = queues[k],
           ClearQueue(k)
    PROVE  PlacesInv'
<1>2. Lists(buffer[s], Queued(s)) /\ Lists(batch[s], Taken(s))
  BY DEF PlacesInv, ListedInv
<1>3. /\ status' = Mark(Queued(s), "cleared")
      /\ buffer' = [buffer EXCEPT ![s] = <<>>]
      /\ UNCHANGED <<batch, consumer, target>>
  BY <1>2, ListsToSet DEF ClearQueue
<1>4. Queued(s)' = {} /\ Taken(s)' = Taken(s)
  BY <1>3 DEF Queued, Taken, Mark
<1>5. \A x \in Messages : status'[x] = status[x]
                            \/ (target[x] = s /\ status'[x] # "pending")
  BY <1>3 DEF Queued, Mark
<1>6. Lists(buffer'[s], Queued(s)') /\ Lists(batch'[s], Taken(s)')
  BY <1>2, <1>3, <1>4, ListsEmpty DEF TypeOK
<1>7. consumer'[s] \notin {"lookup", "processing"} => batch'[s] = <<>>
  BY <1>3 DEF PlacesInv, BatchInv
<1> QED BY <1>3, <1>5, <1>6, <1>7, PlacesOf DEF TypeOK

LEMMA PlacesStep == TypeOK /\ PlacesInv /\ [Next]_vars => PlacesInv'
<1> SUFFICES ASSUME TypeOK, PlacesInv, [Next]_vars
             PROVE  PlacesInv'
  OBVIOUS
<1>1. ASSUME NEW m \in Messages, Sender(m) PROVE PlacesInv'
  BY <1>1, SenderKeepsPlaces
<1>2. ASSUME NEW k \in Keys, ClearQueue(k) PROVE PlacesInv'
  <2>1. queues[k] \in States
    BY <1>2 DEF ClearQueue, TypeOK
  <2> QED BY <1>2, <2>1, ClearKeepsPlaces
<1>3. ASSUME NEW s \in States, Consumer(s) PROVE PlacesInv'
  <2>1. CASE Take(s)
    BY <2>1, TakeKeepsPlaces
  <2>2. CASE Drain(s)
    BY <2>2, DrainKeepsPlaces
  <2>3. CASE FinishBatch(s) \/ FailBatch(s)
    BY <2>3, EndKeepsPlaces DEF FinishBatch, FailBatch, EndBatch
  <2>4. CASE ConsumerExits(s)
    BY <2>4, EndKeepsPlaces DEF ConsumerExits
  <2>5. CASE BatchSwallowsCancel(s)
    BY <2>5, EndKeepsPlaces DEF BatchSwallowsCancel
  <2>6. CASE ConsumerStarts(s) \/ ConsumerNeverRuns(s)
    BY <2>6, PlacesStay DEF ConsumerStarts, ConsumerNeverRuns, TypeOK
  <2> QED BY <1>3, <2>1, <2>2, <2>3, <2>4, <2>5, <2>6 DEF Consumer
<1>4. ASSUME NEW s \in States, Lull(s) PROVE PlacesInv'
  BY <1>4, PlacesStay DEF Lull
<1>5. CASE Cleaner
  BY <1>5, PlacesStay DEF Cleaner, CleanupScan, CleanupNext, CleanupRoundEnds
<1>6. CASE StopSenders
  <2>1. \A m \in Messages : \/ status'[m] = status[m]
                            \/ status[m] = "pending" /\ status'[m] = "rejected"
    BY <1>6 DEF StopSenders, Mark
  <2> QED BY <1>6, <2>1, PlacesStay DEF StopSenders
<1>7. CASE StopCleanup \/ StopConsumers \/ StopClears
  BY <1>7, PlacesStay DEF StopCleanup, StopConsumers, StopClears
<1>8. CASE UNCHANGED vars
  BY <1>8, PlacesStay DEF vars
<1> QED BY <1>1, <1>2, <1>3, <1>4, <1>5, <1>6, <1>7, <1>8 DEF Next, Stop

\* Queues and batches list their payloads throughout.
LEMMA PlacesHold == Spec => []PlacesInv
<1>1. Init => PlacesInv
  <2> SUFFICES ASSUME Init
               PROVE  PlacesInv
    OBVIOUS
  <2>1. \A s \in States : Queued(s) = {} /\ Taken(s) = {}
    BY DEF Init, Queued, Taken
  <2>2. ListedInv
    BY <2>1, ListsEmpty DEF Init, ListedInv
  <2> QED BY <2>2 DEF Init, PlacesInv, BatchInv, PendingInv
<1> QED BY <1>1, PlacesStep, TypeCorrect, PTL DEF Spec

\* No payload is lost, copied or in two places: each one is in the queue or the
\* batch its status names, once, and in no other.
THEOREM PlaceOfPayloads == Spec => []EachPayloadInOnePlace
<1>1. PlacesInv => EachPayloadInOnePlace
  <2> SUFFICES ASSUME PlacesInv, NEW m \in Messages, NEW s \in States
               PROVE  /\ Cardinality({i \in DOMAIN buffer[s] : buffer[s][i] = m})
                           = IF m \in Queued(s) THEN 1 ELSE 0
                      /\ Cardinality({i \in DOMAIN batch[s] : batch[s][i] = m})
                           = IF m \in Taken(s) THEN 1 ELSE 0
    BY DEF EachPayloadInOnePlace, Queued, Taken
  <2> QED BY ListsCount DEF PlacesInv, ListedInv
<1> QED BY <1>1, PlacesHold, PTL

-----------------------------------------------------------------------------
(* What becomes of a payload.                                              *)

\* How the status of a payload may change: forward, and never out of an end.
Moves == {<<"new", "pending">>, <<"new", "queued">>,
          <<"pending", "queued">>, <<"pending", "rejected">>,
          <<"queued", "taken">>, <<"queued", "cleared">>,
          <<"taken", "handled">>, <<"taken", "failed">>,
          <<"taken", "detached">>, <<"taken", "aborted">>}

\* No batch that fails, is cancelled or outlives its queue's cleanup puts a
\* payload back, and none that was cleared, dropped or handled is taken again.
MovesForward ==
    [][\A m \in Messages :
         status'[m] # status[m] => <<status[m], status'[m]>> \in Moves]_vars

\* Payloads only move forward, for any number of them.
THEOREM PayloadsMoveForward == Spec => MovesForward
<1>1. TypeOK /\ PlacesInv /\ [Next]_vars =>
        [\A m \in Messages :
           status'[m] # status[m] => <<status[m], status'[m]>> \in Moves]_vars
  <2> SUFFICES ASSUME TypeOK, PlacesInv, Next, NEW m \in Messages,
                      status'[m] # status[m]
               PROVE  <<status[m], status'[m]>> \in Moves
    OBVIOUS
  <2>1. ASSUME NEW s \in States
        PROVE  /\ ToSet(buffer[s]) = Queued(s)
               /\ ToSet(batch[s]) = Taken(s)
    BY ListsToSet DEF PlacesInv, ListedInv
  <2>2. ASSUME NEW n \in Messages, Sender(n)
        PROVE  <<status[m], status'[m]>> \in Moves
    BY <2>2 DEF Sender, Enqueue, EnqueueTo, PutResumes, PutTimesOut, Put, Moves, TypeOK
  <2>3. ASSUME NEW k \in Keys, ClearQueue(k)
        PROVE  <<status[m], status'[m]>> \in Moves
    <3>1. PICK s \in States : status' = Mark(Queued(s), "cleared")
      BY <2>1, <2>3 DEF ClearQueue, TypeOK
    <3> QED BY <3>1 DEF Mark, Moves, Queued
  <2>4. ASSUME NEW s \in States, Consumer(s)
        PROVE  <<status[m], status'[m]>> \in Moves
    <3>1. CASE Take(s)
      <4>1. /\ buffer[s] \in Seq(Messages) /\ buffer[s] # <<>>
            /\ status' = [status EXCEPT ![Head(buffer[s])] = "taken"]
        BY <3>1 DEF Take, TypeOK
      <4>2. Head(buffer[s]) \in Queued(s)
        BY <4>1, ListsTail DEF PlacesInv, ListedInv
      <4> QED BY <4>1, <4>2 DEF Moves, Queued, TypeOK
    <3>2. CASE Drain(s)
      <4>1. status' = Mark(Queued(s), "taken")
        BY <2>1, <3>2 DEF Drain
      <4> QED BY <4>1 DEF Mark, Moves, Queued
    <3>3. CASE FinishBatch(s) \/ FailBatch(s) \/ ConsumerExits(s)
                 \/ BatchSwallowsCancel(s)
      <4>1. \E st \in {"handled", "failed", "aborted", "detached"} :
              status' = Mark(Taken(s), st)
        BY <2>1, <3>3 DEF FinishBatch, FailBatch, EndBatch, ConsumerExits,
                          BatchSwallowsCancel
      <4> QED BY <4>1 DEF Mark, Moves, Taken
    <3>4. CASE ConsumerStarts(s) \/ ConsumerNeverRuns(s)
      BY <3>4 DEF ConsumerStarts, ConsumerNeverRuns
    <3> QED BY <2>4, <3>1, <3>2, <3>3, <3>4 DEF Consumer
  <2>5. CASE StopSenders
    BY <2>5 DEF StopSenders, Mark, Moves
  <2>6. CASE \/ (\E s \in States : Lull(s)) \/ Cleaner
             \/ StopCleanup \/ StopConsumers \/ StopClears
    BY <2>6 DEF Lull, Cleaner, CleanupScan, CleanupNext, CleanupRoundEnds,
                StopCleanup, StopConsumers, StopClears
  <2> QED BY <2>2, <2>3, <2>4, <2>5, <2>6 DEF Next, Stop
<1> QED BY <1>1, TypeCorrect, PlacesHold, PTL DEF Spec, MovesForward

-----------------------------------------------------------------------------
(* The order in which payloads are taken.                                  *)

\* A prefix of what is in order is in order,
LEMMA InOrderPrefix ==
    ASSUME NEW T, NEW p \in Seq(T), NEW q \in Seq(T), NEW whole, InOrder(p \o q, whole)
    PROVE  InOrder(p, whole)
<1> DEFINE c == p \o q
<1>1. DOMAIN p \subseteq DOMAIN c /\ \A i \in DOMAIN p : c[i] = p[i]
  OBVIOUS
<1>2. InOrder(c, whole)
  OBVIOUS
<1> HIDE DEF c
<1> QED BY <1>1, <1>2 DEF InOrder

\* and a new element may follow both sequences, or the second only.
LEMMA InOrderAppend ==
    ASSUME NEW T, NEW part \in Seq(T), NEW whole \in Seq(T), NEW e \in T,
           InOrder(part, whole), \A a \in DOMAIN whole : whole[a] # e
    PROVE  InOrder(part, Append(whole, e)) /\ InOrder(Append(part, e), Append(whole, e))
<1> DEFINE w == Append(whole, e)
           p == Append(part, e)
           n == Len(whole) + 1
           z == Len(part) + 1
<1>1. /\ n \in Nat \ {0} /\ DOMAIN whole = 1..(n - 1) /\ DOMAIN w = 1..n /\ w[n] = e
      /\ \A a \in 1..(n - 1) : w[a] = whole[a]
      /\ z \in Nat /\ DOMAIN part = 1..(z - 1) /\ DOMAIN p = 1..z /\ p[z] = e
      /\ \A i \in 1..(z - 1) : p[i] = part[i]
  OBVIOUS
<1> HIDE DEF w, p, n, z
<1>2. \A i \in 1..(z - 1) : part[i] # e
  BY <1>1 DEF InOrder
<1>3. \A i \in 1..(z - 1) : \A a \in 1..n : w[a] = part[i] => a \in 1..(n - 1) /\ whole[a] = part[i]
  BY <1>1, <1>2
<1>4. \A i \in 1..(z - 1) : \E a \in 1..n : w[a] = part[i]
  BY <1>1 DEF InOrder
<1>5. InOrder(part, w)
  BY <1>1, <1>3, <1>4 DEF InOrder
<1>6. \A a \in 1..n : w[a] = e => a = n
  BY <1>1
<1>7. ASSUME NEW i \in 1..z
      PROVE  \E a \in 1..n : w[a] = p[i]
  <2>1. CASE i = z
    <3>1. n \in 1..n
      BY <1>1
    <3> QED BY <1>1, <2>1, <3>1
  <2>2. CASE i # z
    <3>1. i \in 1..(z - 1)
      BY <1>1, <2>2
    <3> QED BY <1>1, <1>4, <3>1
  <2> QED BY <2>1, <2>2
<1>8. ASSUME NEW i \in 1..z, NEW j \in 1..z, NEW a \in 1..n, NEW b \in 1..n,
             w[a] = p[i], w[b] = p[j]
      PROVE  i < j <=> a < b
  <2>1. CASE i = z
    <3>1. a = n
      BY <1>1, <1>6, <1>8, <2>1
    <3> QED BY <1>1, <2>1, <3>1
  <2>2. CASE i # z /\ j = z
    <3>1. b = n /\ i \in 1..(z - 1) /\ a \in 1..(n - 1)
      BY <1>1, <1>3, <1>6, <1>8, <2>2
    <3> QED BY <1>1, <2>2, <3>1
  <2>3. CASE i # z /\ j # z
    <3>1. i \in 1..(z - 1) /\ j \in 1..(z - 1)
      BY <1>1, <2>3
    <3>2. /\ a \in 1..(n - 1) /\ whole[a] = part[i]
          /\ b \in 1..(n - 1) /\ whole[b] = part[j]
      BY <1>1, <1>3, <1>8, <3>1
    <3> QED BY <1>1, <3>1, <3>2 DEF InOrder
  <2> QED BY <2>1, <2>2, <2>3
<1>9. InOrder(p, w)
  BY <1>1, <1>7, <1>8 DEF InOrder
<1> QED BY <1>5, <1>9 DEF w, p

\* An element moves from the head of a sequence to the end of the one before it,
\* and the two together are what they were.
LEMMA MoveHead ==
    ASSUME NEW T, NEW p \in Seq(T), NEW q \in Seq(T), q # <<>>
    PROVE  Append(p, Head(q)) \o Tail(q) = p \o q
<1> DEFINE h == Head(q)
           t == Tail(q)
           a == Append(p, h)
           l == a \o t
           r == p \o q
<1>1. /\ h \in T /\ t \in Seq(T) /\ Len(q) \in Nat /\ Len(q) # 0 /\ Len(t) = Len(q) - 1
      /\ h = q[1] /\ \A i \in 1..(Len(q) - 1) : t[i] = q[i + 1]
  BY HeadTailProperties
<1>2. a \in Seq(T) /\ Len(a) = Len(p) + 1 /\ a[Len(p) + 1] = h /\ Len(p) \in Nat
      /\ \A i \in 1..Len(p) : a[i] = p[i]
  BY <1>1, AppendProperties
<1> HIDE DEF h, t, a
<1>3. /\ l \in Seq(T) /\ Len(l) = Len(a) + Len(t)
      /\ \A i \in 1..(Len(a) + Len(t)) :
           l[i] = IF i <= Len(a) THEN a[i] ELSE t[i - Len(a)]
  BY <1>1, <1>2, ConcatProperties
<1>4. /\ r \in Seq(T) /\ Len(r) = Len(p) + Len(q)
      /\ \A i \in 1..(Len(p) + Len(q)) :
           r[i] = IF i <= Len(p) THEN p[i] ELSE q[i - Len(p)]
  BY ConcatProperties
<1> HIDE DEF l, r
<1>5. Len(l) = Len(r)
  BY <1>1, <1>2, <1>3, <1>4
<1>6. ASSUME NEW i \in 1..Len(l)
      PROVE  l[i] = r[i]
  <2>1. /\ i \in Nat /\ i >= 1 /\ i <= Len(p) + Len(q)
        /\ Len(a) = Len(p) + 1 /\ Len(p) \in Nat /\ Len(q) \in Nat
    BY <1>1, <1>2, <1>3
  <2>2. /\ l[i] = IF i <= Len(a) THEN a[i] ELSE t[i - Len(a)]
        /\ r[i] = IF i <= Len(p) THEN p[i] ELSE q[i - Len(p)]
    BY <1>3, <1>4, <1>5
  <2>3. CASE i <= Len(p)
    <3>1. a[i] = p[i]
      BY <1>2, <2>1, <2>3
    <3> QED BY <2>1, <2>2, <2>3, <3>1
  <2>4. CASE i = Len(p) + 1
    <3>1. l[i] = h /\ r[i] = q[i - Len(p)] /\ i - Len(p) = 1
      BY <1>2, <2>1, <2>2, <2>4
    <3> QED BY <1>1, <3>1
  <2>5. CASE i > Len(p) + 1
    <3>1. /\ i - Len(a) \in 1..(Len(q) - 1)
          /\ (i - Len(a)) + 1 = i - Len(p)
      BY <2>1, <2>5
    <3>2. l[i] = t[i - Len(a)] /\ r[i] = q[i - Len(p)]
      BY <2>1, <2>2, <2>5
    <3>3. t[i - Len(a)] = q[(i - Len(a)) + 1]
      BY <1>1, <3>1
    <3> QED BY <3>1, <3>2, <3>3
  <2> QED BY <2>1, <2>3, <2>4, <2>5
<1>7. l = r
  BY <1>3, <1>4, <1>5, <1>6, SeqEqual
<1> QED BY <1>7 DEF l, r, a, t, h

LEMMA AppendConcat ==
    ASSUME NEW T, NEW p \in Seq(T), NEW q \in Seq(T), NEW e \in T
    PROVE  p \o Append(q, e) = Append(p \o q, e)
<1>1. <<e>> \in Seq(T) /\ p \o q \in Seq(T)
  OBVIOUS
<1>2. (p \o q) \o <<e>> = p \o (q \o <<e>>)
  BY <1>1, ConcatAssociative
<1>3. q \o <<e>> = Append(q, e) /\ (p \o q) \o <<e>> = Append(p \o q, e)
  BY <1>1, AppendIsConcat
<1> QED BY <1>2, <1>3, Zenon

\* Only payloads whose put completed are recorded, a waiting put has resolved to
\* a QueueState of its key, and a QueueState starts with an empty queue.
HistoryInv ==
    /\ \A k \in Keys : \A i \in DOMAIN accepted[k] :
         status[accepted[k][i]] \notin {"new", "pending"}
    /\ \A m \in Messages : status[m] = "pending" =>
         target[m] \in States /\ stateKey[target[m]] = KeyOf[m]
    /\ \A s \in States : consumer[s] = "absent" => buffer[s] = <<>>

\* Of a key none of whose consumers was cancelled, what was taken and what waits
\* in its queue is, together, what was put, in order.
FlowOk(k) ==
    /\ InOrder(started[k], accepted[k])
    /\ \A s \in States :
         stateKey[s] = k => InOrder(started[k] \o buffer[s], accepted[k])

FlowInv == \A k \in Keys : NeverCancelled(k) => FlowOk(k)

\* What the tasks of the other keys, and most steps, do to a key.
LEMMA FlowStays ==
    ASSUME TypeOK, NEW k \in Keys, FlowOk(k),
           started'[k] = started[k], accepted'[k] = accepted[k],
           \A s \in States : stateKey'[s] = k =>
             \/ stateKey[s] = k /\ buffer'[s] = buffer[s]
             \/ buffer'[s] = <<>>
    PROVE  FlowOk(k)'
<1>1. started[k] \o <<>> = started[k]
  BY ConcatEmptySeq DEF TypeOK
<1> QED BY <1>1 DEF FlowOk

\* The QueueState an enqueue call resolves to is its key's and has a consumer.
LEMMA ResolveOk ==
    ASSUME TypeOK, SerialInv, NEW m \in Messages, NEW s \in States,
           Resolve(KeyOf[m], s)
    PROVE  /\ KeyOf[m] \in Keys /\ KeyOf[m] # None
           /\ stateKey'[s] = KeyOf[m] /\ consumer'[s] # "absent"
           /\ stateKey[s] = KeyOf[m] \/ consumer[s] = "absent"
           /\ \A t \in States : t # s => /\ stateKey'[t] = stateKey[t]
                                         /\ consumer'[t] = consumer[t]
           /\ \A t \in States : stateKey[t] # None => stateKey'[t] = stateKey[t]
<1>1. KeyOf[m] \in Keys /\ KeyOf[m] # None /\ s # None
  BY ConstantsAssumption
<1>2. consumer[s] = "absent" => stateKey[s] = None
  BY DEF SerialInv, LifecycleInv
<1>3. CASE queues[KeyOf[m]] = s /\ UNCHANGED <<queues, stateKey, consumer>>
  <2>1. stateKey[s] = KeyOf[m]
    BY <1>1, <1>3 DEF SerialInv, RegistrationInv
  <2> QED BY <1>1, <1>3, <2>1 DEF SerialInv, LifecycleInv
<1>4. CASE /\ consumer[s] = "absent"
           /\ stateKey' = [stateKey EXCEPT ![s] = KeyOf[m]]
           /\ consumer' = [consumer EXCEPT ![s] = "created"]
  BY <1>1, <1>2, <1>4 DEF TypeOK
<1> QED BY <1>3, <1>4 DEF Resolve

\* A waiting put has resolved likewise.
LEMMA PendingOk ==
    ASSUME TypeOK, SerialInv, HistoryInv, NEW m \in Messages, status[m] = "pending"
    PROVE  /\ KeyOf[m] \in Keys /\ KeyOf[m] # None /\ target[m] \in States
           /\ stateKey[target[m]] = KeyOf[m] /\ consumer[target[m]] # "absent"
BY ConstantsAssumption DEF HistoryInv, SerialInv, LifecycleInv

\* Steps other than the puts.
LEMMA HistoryStays ==
    ASSUME TypeOK, HistoryInv, UNCHANGED <<stateKey, target, accepted>>,
           \A m \in Messages :
             status'[m] \in {"new", "pending"} => status'[m] = status[m],
           \A s \in States : buffer[s] = <<>> => buffer'[s] = <<>>,
           \A s \in States : consumer'[s] = "absent" => consumer[s] = "absent"
    PROVE  HistoryInv'
<1>1. \A k \in Keys : \A i \in DOMAIN accepted[k] : accepted[k][i] \in Messages
  BY DEF TypeOK
<1> QED BY <1>1 DEF HistoryInv

LEMMA HistoryPut ==
    ASSUME TypeOK, HistoryInv, NEW m \in Messages, NEW s \in States, Put(m, s),
           KeyOf[m] \in Keys, target'[m] = s, stateKey'[s] = KeyOf[m],
           consumer'[s] # "absent",
           \A n \in Messages : n # m => target'[n] = target[n],
           \A t \in States : t # s => /\ stateKey'[t] = stateKey[t]
                                      /\ consumer'[t] = consumer[t],
           \A t \in States : stateKey[t] # None => stateKey'[t] = stateKey[t]
    PROVE  HistoryInv'
<1>1. \A k \in Keys : /\ accepted[k] \in Seq(Messages)
                      /\ \A i \in DOMAIN accepted[k] : accepted[k][i] \in Messages
  BY DEF TypeOK
<1>2. /\ status' = [status EXCEPT ![m] = "queued"]
      /\ accepted' = [accepted EXCEPT ![KeyOf[m]] = Append(accepted[KeyOf[m]], m)]
      /\ buffer' = [buffer EXCEPT ![s] = Append(buffer[s], m)]
  BY DEF Put
<1>3. ASSUME NEW k \in Keys, NEW i \in DOMAIN accepted'[k]
      PROVE  status'[accepted'[k][i]] \notin {"new", "pending"}
  <2>1. accepted'[k][i] = m \/ (i \in DOMAIN accepted[k] /\ accepted'[k][i] = accepted[k][i])
    <3>1. CASE k = KeyOf[m]
      <4>1. accepted'[k] = Append(accepted[k], m)
        BY <1>2, <3>1 DEF TypeOK
      <4> QED BY <1>1, <1>3, <4>1
    <3>2. CASE k # KeyOf[m]
      <4>1. accepted'[k] = accepted[k]
        BY <1>2, <3>2 DEF TypeOK
      <4> QED BY <1>3, <4>1
    <3> QED BY <3>1, <3>2
  <2> QED BY <1>1, <1>2, <2>1 DEF HistoryInv, TypeOK
<1>4. ASSUME NEW n \in Messages, status'[n] = "pending"
      PROVE  target'[n] \in States /\ stateKey'[target'[n]] = KeyOf[n]
  <2>1. n # m /\ status[n] = "pending"
    BY <1>2, <1>4 DEF TypeOK
  <2>2. KeyOf[n] # None
    BY ConstantsAssumption
  <2> QED BY <2>1, <2>2 DEF HistoryInv
<1>5. \A t \in States : consumer'[t] = "absent" => buffer'[t] = <<>>
  BY <1>2 DEF HistoryInv, TypeOK
<1> QED BY <1>3, <1>4, <1>5 DEF HistoryInv

LEMMA HistoryStep == TypeOK /\ SerialInv /\ HistoryInv /\ [Next]_vars => HistoryInv'
<1> SUFFICES ASSUME TypeOK, SerialInv, HistoryInv, [Next]_vars
             PROVE  HistoryInv'
  OBVIOUS
<1>1. ASSUME NEW m \in Messages, NEW s \in States, EnqueueTo(m, s) PROVE HistoryInv'
  <2>1. /\ status[m] = "new" /\ Resolve(KeyOf[m], s)
        /\ target' = [target EXCEPT ![m] = s]
    BY <1>1 DEF EnqueueTo
  <2>2. /\ KeyOf[m] \in Keys /\ KeyOf[m] # None
        /\ stateKey'[s] = KeyOf[m] /\ consumer'[s] # "absent"
        /\ \A t \in States : t # s => /\ stateKey'[t] = stateKey[t]
                                      /\ consumer'[t] = consumer[t]
        /\ \A t \in States : stateKey[t] # None => stateKey'[t] = stateKey[t]
    BY <2>1, ResolveOk
  <2>3. CASE Put(m, s)
    BY <2>1, <2>2, <2>3, HistoryPut DEF TypeOK
  <2>4. CASE status' = [status EXCEPT ![m] = "pending"] /\ UNCHANGED <<buffer, accepted>>
    <3>1. \A k \in Keys : \A i \in DOMAIN accepted[k] :
            accepted[k][i] \in Messages /\ accepted[k][i] # m
      BY <2>1 DEF HistoryInv, TypeOK
    <3>2. \A n \in Messages : status'[n] = "pending" =>
            target'[n] \in States /\ stateKey'[target'[n]] = KeyOf[n]
      <4> SUFFICES ASSUME NEW n \in Messages, status'[n] = "pending"
                   PROVE  target'[n] \in States /\ stateKey'[target'[n]] = KeyOf[n]
        OBVIOUS
      <4>1. CASE n = m
        BY <2>1, <2>2, <4>1 DEF TypeOK
      <4>2. CASE n # m
        <5>1. status[n] = "pending" /\ target'[n] = target[n]
          BY <2>1, <2>4, <4>2 DEF TypeOK
        <5>2. KeyOf[n] # None
          BY ConstantsAssumption
        <5> QED BY <2>2, <5>1, <5>2 DEF HistoryInv
      <4> QED BY <4>1, <4>2
    <3>3. \A k \in Keys : \A i \in DOMAIN accepted'[k] :
            status'[accepted'[k][i]] \notin {"new", "pending"}
      BY <2>4, <3>1 DEF HistoryInv, TypeOK
    <3>4. \A t \in States : consumer'[t] = "absent" => buffer'[t] = <<>>
      BY <2>2, <2>4 DEF HistoryInv
    <3> QED BY <3>2, <3>3, <3>4 DEF HistoryInv
  <2> QED BY <1>1, <2>3, <2>4 DEF EnqueueTo
<1>2. ASSUME NEW m \in Messages, PutResumes(m) PROVE HistoryInv'
  <2>1. /\ status[m] = "pending" /\ Put(m, target[m])
        /\ UNCHANGED <<target, stateKey, consumer>>
    BY <1>2 DEF PutResumes
  <2> QED BY <2>1, PendingOk, HistoryPut
<1>3. ASSUME NEW m \in Messages, PutTimesOut(m) PROVE HistoryInv'
  BY <1>3, HistoryStays DEF PutTimesOut, TypeOK
<1>4. ASSUME NEW k \in Keys, ClearQueue(k) PROVE HistoryInv'
  BY <1>4, HistoryStays DEF ClearQueue, Mark, TypeOK
<1>5. ASSUME NEW s \in States, Consumer(s) PROVE HistoryInv'
  <2>1. CASE Take(s)
    BY <2>1, HistoryStays DEF Take, TypeOK
  <2>2. CASE Drain(s)
    BY <2>2, HistoryStays DEF Drain, Mark, TypeOK
  <2>3. CASE FinishBatch(s) \/ FailBatch(s)
    BY <2>3, HistoryStays DEF FinishBatch, FailBatch, EndBatch, Mark, TypeOK
  <2>4. CASE ConsumerExits(s)
    BY <2>4, HistoryStays DEF ConsumerExits, Mark, TypeOK
  <2>5. CASE BatchSwallowsCancel(s)
    BY <2>5, HistoryStays DEF BatchSwallowsCancel, Mark, TypeOK
  <2>6. CASE ConsumerStarts(s) \/ ConsumerNeverRuns(s)
    BY <2>6, HistoryStays DEF ConsumerStarts, ConsumerNeverRuns, TypeOK
  <2> QED BY <1>5, <2>1, <2>2, <2>3, <2>4, <2>5, <2>6 DEF Consumer
<1>6. CASE Cleaner \/ \E s \in States : Lull(s)
  BY <1>6, HistoryStays DEF Cleaner, CleanupScan, CleanupNext, CleanupRoundEnds, Lull
<1>7. CASE StopSenders
  BY <1>7, HistoryStays DEF StopSenders, Mark
<1>8. CASE StopCleanup \/ StopConsumers \/ StopClears \/ UNCHANGED vars
  BY <1>8, HistoryStays DEF StopCleanup, StopConsumers, StopClears, vars
<1> QED BY <1>1, <1>2, <1>3, <1>4, <1>5, <1>6, <1>7, <1>8
        DEF Next, Stop, Sender, Enqueue

\* A put to a key none of whose consumers was cancelled: the payload comes last
\* in its queue and in the record.
LEMMA FlowPut ==
    ASSUME TypeOK, HistoryInv, NEW m \in Messages, NEW s \in States, Put(m, s),
           UNCHANGED started, status[m] \in {"new", "pending"},
           NEW k \in Keys, KeyOf[m] = k, FlowOk(k),
           stateKey[s] = k \/ consumer[s] = "absent",
           \A t \in States : stateKey'[t] = k => t = s
    PROVE  FlowOk(k)'
<1> DEFINE flow == started[k] \o buffer[s]
<1>1. /\ started[k] \in Seq(Messages) /\ buffer[s] \in Seq(Messages)
      /\ accepted[k] \in Seq(Messages)
      /\ accepted' = [accepted EXCEPT ![k] = Append(accepted[k], m)]
      /\ buffer' = [buffer EXCEPT ![s] = Append(buffer[s], m)]
  BY DEF TypeOK, Put
<1>2. accepted'[k] = Append(accepted[k], m) /\ buffer'[s] = Append(buffer[s], m)
  BY <1>1 DEF TypeOK
<1>3. \A a \in DOMAIN accepted[k] : accepted[k][a] # m
  BY DEF HistoryInv
<1>4. InOrder(flow, accepted[k])
  <2>1. CASE stateKey[s] = k
    BY <2>1 DEF FlowOk
  <2>2. CASE consumer[s] = "absent"
    <3>1. buffer[s] = <<>>
      BY <2>2 DEF HistoryInv
    <3>2. started[k] \o <<>> = started[k]
      BY <1>1, ConcatEmptySeq
    <3> QED BY <3>1, <3>2 DEF FlowOk
  <2> QED BY <2>1, <2>2
<1>5. flow \in Seq(Messages)
  BY <1>1, ConcatProperties
<1>6. started[k] \o Append(buffer[s], m) = Append(flow, m)
  <2>1. \A p, q \in Seq(Messages) : p \o Append(q, m) = Append(p \o q, m)
    BY AppendConcat
  <2> QED BY <1>1, <2>1, Zenon
<1> HIDE DEF flow
<1>7. InOrder(Append(flow, m), Append(accepted[k], m))
  BY <1>1, <1>3, <1>4, <1>5, InOrderAppend
<1>8. InOrder(started[k], Append(accepted[k], m))
  BY <1>1, <1>3, InOrderAppend DEF FlowOk
<1> QED BY <1>2, <1>6, <1>7, <1>8 DEF FlowOk

\* Payloads that are taken come after what was taken, in the order of the queue.
LEMMA FlowMoves ==
    ASSUME TypeOK, NEW k \in Keys, FlowOk(k), NEW s \in States, stateKey[s] = k,
           UNCHANGED <<stateKey, accepted>>,
           started'[k] \in Seq(Messages), buffer'[s] \in Seq(Messages),
           started'[k] \o buffer'[s] = started[k] \o buffer[s],
           \A t \in States : stateKey[t] = k => t = s
    PROVE  FlowOk(k)'
<1>1. InOrder(started'[k] \o buffer'[s], accepted[k])
  BY DEF FlowOk
<1>2. InOrder(started'[k], accepted[k])
  BY <1>1, InOrderPrefix
<1> QED BY <1>1, <1>2 DEF FlowOk

\* Cancellations are not taken back.
LEMMA CancelStays ==
    ASSUME TypeOK, SerialInv, [Next]_vars, NEW k \in Keys, NeverCancelled(k)'
    PROVE  NeverCancelled(k)
<1>1. k # None
  BY ConstantsAssumption
<1>2. ASSUME NEW t \in States, stateKey[t] # None
      PROVE  stateKey'[t] = stateKey[t]
  <2>1. CASE \E m \in Messages, s \in States : EnqueueTo(m, s)
    BY <1>2, <2>1, ResolveOk DEF EnqueueTo
  <2>2. CASE UNCHANGED stateKey
    BY <2>2
  <2> QED
    BY <2>1, <2>2 DEF Next, Sender, Enqueue, PutResumes, PutTimesOut, ClearQueue,
       Consumer, ConsumerStarts, Take, Drain, FinishBatch, FailBatch, EndBatch,
       ConsumerExits, BatchSwallowsCancel, ConsumerNeverRuns, Lull, Cleaner,
       CleanupScan, CleanupNext, CleanupRoundEnds, Stop, StopSenders, StopCleanup,
       StopConsumers, StopClears, vars
<1>3. ASSUME NEW t \in States, cancel[t] # "none"
      PROVE  cancel'[t] # "none"
  <2>1. CASE Cleaner \/ Stop
    BY <1>3, <2>1 DEF Cleaner, CleanupScan, CleanupNext, CleanupRoundEnds, PopAndCancel,
       Stop, StopSenders, StopCleanup, StopConsumers, StopClears, TypeOK
  <2>2. CASE \E s \in States : BatchSwallowsCancel(s)
    BY <1>3, <2>2 DEF BatchSwallowsCancel, TypeOK
  <2>3. CASE UNCHANGED cancel
    BY <1>3, <2>3
  <2> QED
    BY <2>1, <2>2, <2>3 DEF Next, Sender, Enqueue, EnqueueTo, PutResumes, PutTimesOut,
       ClearQueue, Consumer, ConsumerStarts, Take, Drain, FinishBatch, FailBatch,
       EndBatch, ConsumerExits, ConsumerNeverRuns, Lull, vars
<1> QED BY <1>1, <1>2, <1>3 DEF NeverCancelled, WasCancelled

LEMMA FlowStep ==
    TypeOK /\ TypeOK' /\ SerialInv /\ SerialInv' /\ HistoryInv /\ FlowInv /\ [Next]_vars
      => FlowInv'
<1> SUFFICES ASSUME TypeOK, TypeOK', SerialInv, SerialInv', HistoryInv, FlowInv,
                    [Next]_vars, NEW k \in Keys, NeverCancelled(k)'
             PROVE  FlowOk(k)'
  BY DEF FlowInv
<1>1. FlowOk(k)
  BY CancelStays DEF FlowInv
<1>2. k # None
  BY ConstantsAssumption
<1>3. \A s, t \in States : stateKey'[s] = k /\ stateKey'[t] = k => s = t
  <2>1. \A s, t \in AliveFor(k)' : s = t
    BY DEF SerialInv, OnlyRegisteredAlive
  <2>2. \A s \in States : stateKey'[s] = k => s \in AliveFor(k)'
    BY <1>2 DEF SerialInv, LifecycleInv, NeverCancelled, AliveFor, Alive
  <2> QED BY <2>1, <2>2
<1>4. ASSUME NEW m \in Messages, NEW s \in States, Put(m, s), UNCHANGED started,
             status[m] \in {"new", "pending"}, KeyOf[m] \in Keys,
             stateKey'[s] = KeyOf[m], stateKey[s] = KeyOf[m] \/ consumer[s] = "absent",
             \A t \in States : t # s => stateKey'[t] = stateKey[t]
      PROVE  FlowOk(k)'
  <2>1. CASE KeyOf[m] = k
    BY <1>1, <1>3, <1>4, <2>1, FlowPut
  <2>2. CASE KeyOf[m] # k
    <3>1. accepted'[k] = accepted[k]
      BY <1>4, <2>2 DEF Put, TypeOK
    <3>2. \A t \in States : stateKey'[t] = k => stateKey[t] = k /\ buffer'[t] = buffer[t]
      BY <1>4, <2>2 DEF Put, TypeOK
    <3> QED BY <1>1, <1>4, <3>1, <3>2, FlowStays
  <2> QED BY <2>1, <2>2
<1>5. ASSUME NEW m \in Messages, NEW s \in States, EnqueueTo(m, s)
      PROVE  FlowOk(k)'
  <2>1. status[m] = "new" /\ Resolve(KeyOf[m], s) /\ UNCHANGED started
    BY <1>5 DEF EnqueueTo
  <2>2. /\ KeyOf[m] \in Keys /\ stateKey'[s] = KeyOf[m]
        /\ stateKey[s] = KeyOf[m] \/ consumer[s] = "absent"
        /\ \A t \in States : t # s => stateKey'[t] = stateKey[t]
    BY <2>1, ResolveOk
  <2>3. CASE Put(m, s)
    BY <1>4, <2>1, <2>2, <2>3
  <2>4. CASE UNCHANGED <<buffer, accepted>>
    <3>1. stateKey[s] = stateKey'[s] \/ buffer[s] = <<>>
      BY <2>2 DEF HistoryInv
    <3> QED BY <1>1, <2>1, <2>2, <2>4, <3>1, FlowStays
  <2> QED BY <1>5, <2>3, <2>4 DEF EnqueueTo
<1>6. ASSUME NEW m \in Messages, PutResumes(m)
      PROVE  FlowOk(k)'
  <2>1. /\ status[m] = "pending" /\ Put(m, target[m]) /\ UNCHANGED <<started, stateKey>>
    BY <1>6 DEF PutResumes
  <2> QED BY <1>4, <2>1, PendingOk
<1>7. ASSUME NEW s \in States, Take(s)
      PROVE  FlowOk(k)'
  <2>1. /\ UNCHANGED <<stateKey, accepted>> /\ buffer[s] # <<>>
        /\ buffer' = [buffer EXCEPT ![s] = Tail(buffer[s])]
        /\ started' = [started EXCEPT
             ![stateKey[s]] = Append(started[stateKey[s]], Head(buffer[s]))]
    BY <1>7 DEF Take
  <2>2. CASE stateKey[s] = k
    <3>1. started[k] \in Seq(Messages) /\ buffer[s] \in Seq(Messages)
      BY DEF TypeOK
    <3>2. started'[k] = Append(started[k], Head(buffer[s])) /\ buffer'[s] = Tail(buffer[s])
      BY <2>1, <2>2 DEF TypeOK
    <3>3. started'[k] \in Seq(Messages) /\ buffer'[s] \in Seq(Messages)
      BY DEF TypeOK
    <3>4. started'[k] \o buffer'[s] = started[k] \o buffer[s]
      BY <2>1, <3>1, <3>2, MoveHead
    <3> QED BY <1>1, <1>3, <2>1, <2>2, <3>3, <3>4, FlowMoves
  <2>3. CASE stateKey[s] # k
    BY <1>1, <2>1, <2>3, FlowStays DEF TypeOK
  <2> QED BY <2>2, <2>3
<1>8. ASSUME NEW s \in States, Drain(s)
      PROVE  FlowOk(k)'
  <2>1. /\ UNCHANGED <<stateKey, accepted>>
        /\ buffer' = [buffer EXCEPT ![s] = <<>>]
        /\ started' = [started EXCEPT ![stateKey[s]] = started[stateKey[s]] \o buffer[s]]
    BY <1>8 DEF Drain
  <2>2. CASE stateKey[s] = k
    <3>1. started'[k] = started[k] \o buffer[s] /\ buffer'[s] = <<>>
      BY <2>1, <2>2 DEF TypeOK
    <3>2. started'[k] \in Seq(Messages) /\ buffer'[s] \in Seq(Messages)
      BY DEF TypeOK
    <3>3. started'[k] \o <<>> = started'[k]
      BY <3>2, ConcatEmptySeq
    <3> QED BY <1>1, <1>3, <2>1, <2>2, <3>1, <3>2, <3>3, FlowMoves
  <2>3. CASE stateKey[s] # k
    BY <1>1, <2>1, <2>3, FlowStays DEF TypeOK
  <2> QED BY <2>2, <2>3
<1>9. ASSUME NEW j \in Keys, ClearQueue(j)
      PROVE  FlowOk(k)'
  BY <1>1, <1>9, FlowStays DEF ClearQueue, TypeOK
<1>10. CASE UNCHANGED <<stateKey, buffer, started, accepted>>
  BY <1>1, <1>10, FlowStays
<1> QED
  BY <1>5, <1>6, <1>7, <1>8, <1>9, <1>10 DEF Next, Sender, Enqueue, PutTimesOut,
     Consumer, ConsumerStarts, FinishBatch, FailBatch, EndBatch, ConsumerExits,
     BatchSwallowsCancel, ConsumerNeverRuns, Lull, Cleaner, CleanupScan, CleanupNext,
     CleanupRoundEnds, Stop, StopSenders, StopCleanup, StopConsumers, StopClears, vars

\* What is recorded of the payloads, throughout.
LEMMA HistoryHolds == Spec => []HistoryInv
<1>1. Init => HistoryInv
  BY DEF Init, HistoryInv
<1> QED BY <1>1, HistoryStep, TypeCorrect, SerialInvariant, PTL DEF Spec

\* Payloads of a key are taken in the order their puts completed and none twice,
\* until a consumer of the key is cancelled: they pass through one queue, whose
\* consumer records the one it gets before it drains the others.
THEOREM TakenInOrder == Spec => []InOrderUnlessCancelled
<1>1. Init => FlowInv
  <2> SUFFICES ASSUME Init
               PROVE  FlowInv
    OBVIOUS
  <2>1. /\ \A k \in Keys : started[k] = <<>> /\ accepted[k] = <<>>
        /\ \A k \in Keys : \A s \in States : stateKey[s] # k
    BY ConstantsAssumption DEF Init
  <2>2. InOrder(<<>>, <<>>)
    BY DEF InOrder
  <2> QED BY <2>1, <2>2 DEF FlowInv, FlowOk
<1>2. FlowInv => InOrderUnlessCancelled
  BY DEF FlowInv, FlowOk, InOrderUnlessCancelled
<1> QED BY <1>1, <1>2, HistoryHolds, FlowStep, TypeCorrect, SerialInvariant, PTL
        DEF Spec

\* Whoever holds a payload, or room it waits for, has a consumer, registered or
\* not, unless that consumer was cancelled: /stop, failed batches, full queues
\* and timeouts leave no queue without one.
WaitersHaveConsumer ==
    \A s \in States :
        \/ buffer[s] # <<>>
        \/ \E m \in Messages : status[m] = "pending" /\ target[m] = s
        => Alive(s) \/ WasCancelled(s)

\* No payload waits, in a queue or for room in one, that nobody serves, unless
\* the consumer was cancelled: the safety that QueuedIsTaken rests on.
THEOREM WaitersAreServed == Spec => []WaitersHaveConsumer
<1>1. SerialInv /\ HistoryInv => WaitersHaveConsumer
  <2> SUFFICES ASSUME SerialInv, HistoryInv, NEW s \in States, ~WasCancelled(s),
                      \/ buffer[s] # <<>>
                      \/ \E m \in Messages : status[m] = "pending" /\ target[m] = s
               PROVE  Alive(s)
    BY DEF WaitersHaveConsumer
  <2>1. consumer[s] # "absent"
    BY ConstantsAssumption DEF HistoryInv, SerialInv, LifecycleInv
  <2> QED BY <2>1 DEF Alive, SerialInv, LifecycleInv
<1> QED BY <1>1, SerialInvariant, HistoryHolds, PTL

=============
