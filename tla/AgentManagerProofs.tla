------------------------ MODULE AgentManagerProofs --------------------------
(***************************************************************************)
(* Proofs about AgentManager, for any number of clients, reloads and       *)
(* stops and any set of configuration versions.                            *)
(***************************************************************************)
EXTENDS AgentManager, TLAPS

USE ConstantsAssumption DEF Instances, Tasks, Versions

\* The initial state is of the right type.
LEMMA TypeInit == Init => TypeOK
<1> SUFFICES ASSUME Init
             PROVE  TypeOK
  OBVIOUS
<1>1. 0 \in Nat /\ 0 \in Versions
  OBVIOUS
<1>2. loaded \in [Instances -> Versions] /\ captured \in [Reloads -> Nat]
  BY <1>1 DEF Init
<1>3. /\ pc \in [Tasks -> PC]
      /\ holds \in [Instances -> Instances \cup {None}]
      /\ joined \in [Clients -> Clients \cup {None}]
      /\ life \in [Instances -> Life]
      /\ memory \in [Instances -> Instances]
      /\ cleanup \in [Instances -> SUBSET Clients]
  BY DEF Init, PC, Life
<1>4. /\ offered \in [Instances -> BOOLEAN]
      /\ borrowed \in [Instances -> BOOLEAN]
      /\ transferable \in [Instances -> BOOLEAN]
  BY DEF Init
<1> QED BY <1>1, <1>2, <1>3, <1>4 DEF Init, TypeOK

\* A reload that is about to stop the replaced workspace knows which one, and
\* so does a client with a run.
HoldsKnown ==
    /\ \A r \in Reloads : pc[r] = "retire" => holds[r] # None
    /\ \A c \in Clients : pc[c] \in {"got", "run", "late"} => holds[c] # None

TypeInv == TypeOK /\ HoldsKnown

\* Every operation keeps every variable in its type.
LEMMA TypeStep == TypeInv /\ [Next]_vars => TypeOK'
<1> SUFFICES ASSUME TypeOK, HoldsKnown, [Next]_vars
             PROVE  TypeOK'
  BY DEF TypeInv
<1> USE DEF TypeOK, Move, PC, Life, registry, config, locals, services, tidying
<1>1. ASSUME NEW c \in Clients, Client(c)
      PROVE  TypeOK'
  <2>1. CASE GetCached(c)        BY <2>1 DEF GetCached
  <2>2. CASE Claim(c)            BY <2>2 DEF Claim
  <2>3. CASE Join(c)             BY <2>3 DEF Join
  <2>4. CASE Install(c)          BY <2>4 DEF Install
  <2>5. CASE StartFails(c)       BY <2>5 DEF StartFails
  <2>6. CASE Release(c)          BY <2>6 DEF Release
  <2>7. CASE WaiterWakes(c)      BY <2>7 DEF WaiterWakes
  <2>8. CASE InstallCancelled(c) BY <2>8 DEF InstallCancelled
  <2>9. CASE ReleaseCancelled(c) BY <2>9 DEF ReleaseCancelled
  <2>10. CASE StartRun(c)        BY <2>10 DEF StartRun
  <2>11. CASE RunEnds(c)         BY <2>11 DEF RunEnds
  <2>12. CASE RunOverstays(c)    BY <2>12 DEF RunOverstays
  <2> QED BY <1>1, <2>1, <2>2, <2>3, <2>4, <2>5, <2>6, <2>7, <2>8, <2>9, <2>10,
             <2>11, <2>12 DEF Client, Starting
<1>2. ASSUME NEW r \in Reloads, Reload(r)
      PROVE  TypeOK'
  <2>1. CASE WriteConfig(r)     BY <2>1 DEF WriteConfig
  <2>2. CASE ScheduleReload(r)
    <3>1. generation' \in Nat
      BY <2>2 DEF ScheduleReload
    <3>2. announced' = written /\ missed' = FALSE
      BY <2>2 DEF ScheduleReload
    <3>3. pc' \in [Tasks -> PC]
      BY <2>2 DEF ScheduleReload
    <3> QED BY <2>2, <3>1, <3>2, <3>3 DEF ScheduleReload
  <2>3. CASE ReloadCalled(r)    BY <2>3 DEF ReloadCalled
  <2>4. CASE ReloadCheck(r)     BY <2>4 DEF ReloadCheck
  <2>5. CASE ReloadReturns(r)   BY <2>5 DEF ReloadReturns, GiveUp
  <2>6. CASE ReloadAttach(r)    BY <2>6 DEF ReloadAttach
  <2>7. CASE ReloadLoads(r)     BY <2>7 DEF ReloadLoads
  <2>8. CASE ReloadFails(r)     BY <2>8 DEF ReloadFails, GiveUp
  <2>9. CASE SwapRefused(r)     BY <2>9 DEF SwapRefused, GiveUp
  <2>10. CASE Swap(r)
    <3>1. RunsOn(agents) \in SUBSET Clients
      BY DEF RunsOn
    <3> QED BY <2>10, <3>1 DEF Swap, SwapFor
  <2>11. CASE Discard(r)         BY <2>11 DEF Discard, TryStop, StopWorkspace, Closes
  <2>12. CASE Retire(r)
    <3>1. holds[r] \in Instances
      BY <2>12 DEF Retire, HoldsKnown
    <3> QED BY <2>12, <3>1 DEF Retire, TryStop, StopWorkspace, Closes
  <2>13. CASE RetireCancelled(r) BY <2>13 DEF RetireCancelled
  <2> QED BY <1>2, <2>1, <2>2, <2>3, <2>4, <2>5, <2>6, <2>7, <2>8, <2>9, <2>10,
             <2>11, <2>12, <2>13 DEF Reload, Reloading
<1>3. ASSUME NEW s \in Stops, Stop(s)
      PROVE  TypeOK'
  <2>1. CASE StopNotRunning(s) BY <2>1 DEF StopNotRunning
  <2>2. CASE StopBegins(s)     BY <2>2 DEF StopBegins
  <2>3. CASE StopEnds(s)       BY <2>3 DEF StopEnds, StopWorkspace, Closes
  <2>4. CASE StopFails(s)      BY <2>4 DEF StopFails, StopWorkspace, Closes
  <2> QED BY <1>3, <2>1, <2>2, <2>3, <2>4 DEF Stop
<1>4. ASSUME NEW i \in Instances, CleanupStops(i)
      PROVE  TypeOK'
  BY <1>4 DEF CleanupStops, TryStop, StopWorkspace, Closes
<1>5. CASE ShutdownBegins \/ ShutdownStops
  BY <1>5 DEF ShutdownBegins, ShutdownStops
<1>6. CASE ShutdownClears
  BY <1>6 DEF ShutdownClears, Closes
<1>7. CASE UNCHANGED vars
  BY <1>7 DEF vars
<1> QED BY <1>1, <1>2, <1>3, <1>4, <1>5, <1>6, <1>7 DEF Next

\* What a task holds is known before it retires it or runs on it.
LEMMA HoldsStep == TypeInv /\ [Next]_vars => HoldsKnown'
<1> SUFFICES ASSUME TypeOK, HoldsKnown, [Next]_vars
             PROVE  HoldsKnown'
  BY DEF TypeInv
<1> USE DEF TypeOK, HoldsKnown, Move, PC, registry, config, locals, services, tidying
<1>1. ASSUME NEW c \in Clients, Client(c)
      PROVE  HoldsKnown'
  <2>1. CASE GetCached(c)
    BY <2>1 DEF GetCached
  <2>2. CASE Claim(c) \/ Join(c)
    BY <2>2 DEF Claim, Join
  <2>3. CASE Install(c) \/ StartFails(c) \/ InstallCancelled(c)
    BY <2>3 DEF Install, StartFails, InstallCancelled
  <2>4. CASE Release(c) \/ ReleaseCancelled(c)
    BY <2>4 DEF Release, ReleaseCancelled
  <2>5. CASE WaiterWakes(c)
    BY <2>5 DEF WaiterWakes
  <2>6. CASE StartRun(c) \/ RunEnds(c) \/ RunOverstays(c)
    BY <2>6 DEF StartRun, RunEnds, RunOverstays
  <2> QED BY <1>1, <2>1, <2>2, <2>3, <2>4, <2>5, <2>6 DEF Client, Starting
<1>2. ASSUME NEW r \in Reloads, Reload(r)
      PROVE  HoldsKnown'
  <2>1. CASE Swap(r)
    BY <2>1 DEF Swap, SwapFor
  <2>2. CASE WriteConfig(r) \/ ScheduleReload(r) \/ ReloadCalled(r)
    BY <2>2 DEF WriteConfig, ScheduleReload, ReloadCalled
  <2>3. CASE ReloadCheck(r)
    BY <2>3 DEF ReloadCheck
  <2>4. CASE ReloadAttach(r) \/ ReloadLoads(r)
    BY <2>4 DEF ReloadAttach, ReloadLoads
  <2>5. CASE ReloadReturns(r) \/ ReloadFails(r) \/ SwapRefused(r)
    BY <2>5 DEF ReloadReturns, ReloadFails, SwapRefused, GiveUp
  <2>6. CASE Discard(r) \/ Retire(r) \/ RetireCancelled(r)
    BY <2>6 DEF Discard, Retire, RetireCancelled, TryStop, StopWorkspace
  <2> QED BY <1>2, <2>1, <2>2, <2>3, <2>4, <2>5, <2>6 DEF Reload, Reloading
<1>3. ASSUME NEW s \in Stops, Stop(s)
      PROVE  HoldsKnown'
  BY <1>3 DEF Stop, StopNotRunning, StopBegins, StopEnds, StopFails
<1>4. ASSUME NEW i \in Instances, CleanupStops(i)
      PROVE  HoldsKnown'
  BY <1>4 DEF CleanupStops
<1>5. CASE ShutdownBegins \/ ShutdownStops
  BY <1>5 DEF ShutdownBegins, ShutdownStops
<1>6. CASE ShutdownClears
  BY <1>6 DEF ShutdownClears
<1>7. CASE UNCHANGED vars
  BY <1>7 DEF vars
<1> QED BY <1>1, <1>2, <1>3, <1>4, <1>5, <1>6, <1>7 DEF Next

\* The two together hold in every reachable state.
LEMMA TypeInvariant == Spec => []TypeInv
<1>1. Init => TypeInv
  BY TypeInit DEF Init, TypeInv, HoldsKnown
<1>2. TypeInv /\ [Next]_vars => TypeInv'
  BY TypeStep, HoldsStep DEF TypeInv
<1> QED BY <1>1, <1>2, PTL DEF Spec

\* TypeOK: every variable keeps its type.
THEOREM TypeCorrect == Spec => []TypeOK
  BY TypeInvariant, PTL DEF TypeInv

-----------------------------------------------------------------------------
(* The inductive invariant, one conjunct at a time.                        *)

\* A start is installed and released by the client that claimed it.
LEMMA StartStep == TypeInv /\ StartInv /\ [Next]_vars => StartInv'
<1> SUFFICES ASSUME TypeInv, StartInv, [Next]_vars
             PROVE  StartInv'
  OBVIOUS
<1> USE DEF TypeInv, TypeOK, StartInv, Move, registry, config, locals, services, tidying
<1>1. ASSUME NEW c \in Clients, Client(c)
      PROVE  StartInv'
  <2>1. CASE GetCached(c)
    BY <2>1 DEF GetCached
  <2>2. CASE Claim(c)
    BY <2>2 DEF Claim
  <2>3. CASE Join(c)
    BY <2>3 DEF Join
  <2>4. CASE Install(c)
    BY <2>4 DEF Install
  <2>5. CASE StartFails(c)
    BY <2>5 DEF StartFails
  <2>6. CASE Release(c)
    BY <2>6 DEF Release
  <2>7. CASE WaiterWakes(c)
    BY <2>7 DEF WaiterWakes
  <2>8. CASE InstallCancelled(c)
    BY <2>8 DEF InstallCancelled
  <2>9. CASE ReleaseCancelled(c)
    BY <2>9 DEF ReleaseCancelled
  <2>10. CASE StartRun(c)
    BY <2>10 DEF StartRun
  <2>11. CASE RunEnds(c)
    BY <2>11 DEF RunEnds
  <2>12. CASE RunOverstays(c)
    BY <2>12 DEF RunOverstays
  <2> QED BY <1>1, <2>1, <2>2, <2>3, <2>4, <2>5, <2>6, <2>7, <2>8, <2>9, <2>10,
         <2>11, <2>12 DEF Client, Starting
<1>2. ASSUME NEW r \in Reloads, Reload(r)
      PROVE  StartInv'
  <2>1. CASE WriteConfig(r)
    BY <2>1 DEF WriteConfig
  <2>2. CASE ScheduleReload(r)
    BY <2>2 DEF ScheduleReload
  <2>3. CASE ReloadCalled(r)
    BY <2>3 DEF ReloadCalled
  <2>4. CASE ReloadCheck(r)
    BY <2>4 DEF ReloadCheck
  <2>5. CASE ReloadReturns(r)
    BY <2>5 DEF ReloadReturns, GiveUp
  <2>6. CASE ReloadAttach(r)
    BY <2>6 DEF ReloadAttach
  <2>7. CASE ReloadLoads(r)
    BY <2>7 DEF ReloadLoads
  <2>8. CASE ReloadFails(r)
    BY <2>8 DEF ReloadFails, GiveUp
  <2>9. CASE SwapRefused(r)
    BY <2>9 DEF SwapRefused, GiveUp
  <2>10. CASE Swap(r)
    BY <2>10 DEF Swap, SwapFor
  <2>11. CASE Discard(r)
    BY <2>11 DEF Discard, TryStop, StopWorkspace
  <2>12. CASE Retire(r)
    BY <2>12 DEF Retire, TryStop, StopWorkspace
  <2>13. CASE RetireCancelled(r)
    BY <2>13 DEF RetireCancelled
  <2> QED BY <1>2, <2>1, <2>2, <2>3, <2>4, <2>5, <2>6, <2>7, <2>8, <2>9, <2>10,
         <2>11, <2>12, <2>13 DEF Reload, Reloading
<1>3. ASSUME NEW s \in Stops, Stop(s)
      PROVE  StartInv'
  <2>1. CASE StopNotRunning(s)
    BY <2>1 DEF StopNotRunning
  <2>2. CASE StopBegins(s)
    BY <2>2 DEF StopBegins
  <2>3. CASE StopEnds(s)
    BY <2>3 DEF StopEnds, StopWorkspace
  <2>4. CASE StopFails(s)
    BY <2>4 DEF StopFails, StopWorkspace
  <2> QED BY <1>3, <2>1, <2>2, <2>3, <2>4 DEF Stop
<1>4. ASSUME NEW i \in Instances, CleanupStops(i)
      PROVE  StartInv'
  BY <1>4 DEF CleanupStops, TryStop, StopWorkspace
<1>5. CASE ShutdownBegins \/ ShutdownStops
  BY <1>5 DEF ShutdownBegins, ShutdownStops
<1>6. CASE ShutdownClears
  BY <1>6 DEF ShutdownClears
<1>7. CASE UNCHANGED vars
  BY <1>7 DEF vars
<1> QED BY <1>1, <1>2, <1>3, <1>4, <1>5, <1>6, <1>7 DEF Next

\* A workspace that is or was registered is one whose start or build is over.
Over == {"release", "wedged", "got", "run", "late", "retire", "done"}

RegisteredIsBuilt ==
    \A i \in Instances :
        \/ agents = i
        \/ \E t \in Instances : holds[t] = i
        \/ cleanup[i] # {}
        => pc[i] \in Over

\* A start or build is over before its workspace is registered, and stays so.
LEMMA BuiltStep == TypeInv /\ RegisteredIsBuilt /\ [Next]_vars => RegisteredIsBuilt'
<1> SUFFICES ASSUME TypeInv, RegisteredIsBuilt, [Next]_vars
             PROVE  RegisteredIsBuilt'
  OBVIOUS
<1> USE DEF TypeInv, TypeOK, RegisteredIsBuilt, Over, Move, registry, config, locals,
            services, tidying
<1>1. ASSUME NEW c \in Clients, Client(c)
      PROVE  RegisteredIsBuilt'
  <2>1. CASE GetCached(c)
    BY <2>1 DEF GetCached
  <2>2. CASE Claim(c)
    BY <2>2 DEF Claim
  <2>3. CASE Join(c)
    BY <2>3 DEF Join
  <2>4. CASE Install(c)
    BY <2>4 DEF Install
  <2>5. CASE StartFails(c)
    BY <2>5 DEF StartFails
  <2>6. CASE Release(c)
    BY <2>6 DEF Release
  <2>7. CASE WaiterWakes(c)
    BY <2>7 DEF WaiterWakes
  <2>8. CASE InstallCancelled(c)
    BY <2>8 DEF InstallCancelled
  <2>9. CASE ReleaseCancelled(c)
    BY <2>9 DEF ReleaseCancelled
  <2>10. CASE StartRun(c)
    BY <2>10 DEF StartRun
  <2>11. CASE RunEnds(c)
    BY <2>11 DEF RunEnds
  <2>12. CASE RunOverstays(c)
    BY <2>12 DEF RunOverstays
  <2> QED BY <1>1, <2>1, <2>2, <2>3, <2>4, <2>5, <2>6, <2>7, <2>8, <2>9, <2>10,
         <2>11, <2>12 DEF Client, Starting
<1>2. ASSUME NEW r \in Reloads, Reload(r)
      PROVE  RegisteredIsBuilt'
  <2>1. CASE WriteConfig(r)
    BY <2>1 DEF WriteConfig
  <2>2. CASE ScheduleReload(r)
    BY <2>2 DEF ScheduleReload
  <2>3. CASE ReloadCalled(r)
    BY <2>3 DEF ReloadCalled
  <2>4. CASE ReloadCheck(r)
    BY <2>4 DEF ReloadCheck
  <2>5. CASE ReloadReturns(r)
    BY <2>5 DEF ReloadReturns, GiveUp
  <2>6. CASE ReloadAttach(r)
    BY <2>6 DEF ReloadAttach
  <2>7. CASE ReloadLoads(r)
    BY <2>7 DEF ReloadLoads
  <2>8. CASE ReloadFails(r)
    BY <2>8 DEF ReloadFails, GiveUp
  <2>9. CASE SwapRefused(r)
    BY <2>9 DEF SwapRefused, GiveUp
  <2>10. CASE Swap(r)
    BY <2>10 DEF Swap, SwapFor
  <2>11. CASE Discard(r)
    BY <2>11 DEF Discard, TryStop, StopWorkspace
  <2>12. CASE Retire(r)
    BY <2>12 DEF Retire, TryStop, StopWorkspace
  <2>13. CASE RetireCancelled(r)
    BY <2>13 DEF RetireCancelled
  <2> QED BY <1>2, <2>1, <2>2, <2>3, <2>4, <2>5, <2>6, <2>7, <2>8, <2>9, <2>10,
         <2>11, <2>12, <2>13 DEF Reload, Reloading
<1>3. ASSUME NEW s \in Stops, Stop(s)
      PROVE  RegisteredIsBuilt'
  <2>1. CASE StopNotRunning(s)
    BY <2>1 DEF StopNotRunning
  <2>2. CASE StopBegins(s)
    BY <2>2 DEF StopBegins
  <2>3. CASE StopEnds(s)
    BY <2>3 DEF StopEnds, StopWorkspace
  <2>4. CASE StopFails(s)
    BY <2>4 DEF StopFails, StopWorkspace
  <2> QED BY <1>3, <2>1, <2>2, <2>3, <2>4 DEF Stop
<1>4. ASSUME NEW i \in Instances, CleanupStops(i)
      PROVE  RegisteredIsBuilt'
  BY <1>4 DEF CleanupStops, TryStop, StopWorkspace
<1>5. CASE ShutdownBegins \/ ShutdownStops
  BY <1>5 DEF ShutdownBegins, ShutdownStops
<1>6. CASE ShutdownClears
  BY <1>6 DEF ShutdownClears
<1>7. CASE UNCHANGED vars
  BY <1>7 DEF vars
<1> QED BY <1>1, <1>2, <1>3, <1>4, <1>5, <1>6, <1>7 DEF Next

\* A candidate that borrows no service has its own.
OwnService ==
    \A r \in Reloads :
        pc[r] \in {"load", "building", "discard"} /\ ~borrowed[r] => memory[r] = r

\* A candidate loses what it borrows only by getting a service of its own.
LEMMA OwnStep == TypeInv /\ RegisteredIsBuilt /\ OwnService /\ [Next]_vars => OwnService'
<1> SUFFICES ASSUME TypeInv, RegisteredIsBuilt, OwnService, [Next]_vars
             PROVE  OwnService'
  OBVIOUS
<1> USE DEF TypeInv, TypeOK, RegisteredIsBuilt, Over, OwnService, Move, registry,
            config, locals, services, tidying
<1>1. ASSUME NEW c \in Clients, Client(c)
      PROVE  OwnService'
  <2>1. CASE GetCached(c)
    BY <2>1 DEF GetCached
  <2>2. CASE Claim(c) \/ Join(c)
    BY <2>2 DEF Claim, Join
  <2>3. CASE Install(c) \/ StartFails(c) \/ InstallCancelled(c)
    BY <2>3 DEF Install, StartFails, InstallCancelled
  <2>4. CASE Release(c) \/ ReleaseCancelled(c)
    BY <2>4 DEF Release, ReleaseCancelled
  <2>5. CASE WaiterWakes(c)
    BY <2>5 DEF WaiterWakes
  <2>6. CASE StartRun(c) \/ RunEnds(c) \/ RunOverstays(c)
    BY <2>6 DEF StartRun, RunEnds, RunOverstays
  <2> QED BY <1>1, <2>1, <2>2, <2>3, <2>4, <2>5, <2>6 DEF Client, Starting
<1>2. ASSUME NEW r \in Reloads, Reload(r)
      PROVE  OwnService'
  <2>1. CASE WriteConfig(r)
    BY <2>1 DEF WriteConfig
  <2>2. CASE ScheduleReload(r)
    BY <2>2 DEF ScheduleReload
  <2>3. CASE ReloadCalled(r)
    BY <2>3 DEF ReloadCalled
  <2>4. CASE ReloadCheck(r)
    BY <2>4 DEF ReloadCheck
  <2>5. CASE ReloadReturns(r)
    BY <2>5 DEF ReloadReturns, GiveUp
  <2>6. CASE ReloadAttach(r)
    BY <2>6 DEF ReloadAttach
  <2>7. CASE ReloadLoads(r)
    BY <2>7 DEF ReloadLoads
  <2>8. CASE ReloadFails(r)
    BY <2>8 DEF ReloadFails, GiveUp
  <2>9. CASE SwapRefused(r)
    BY <2>9 DEF SwapRefused, GiveUp
  <2>10. CASE Swap(r)
    BY <2>10 DEF Swap, SwapFor
  <2>11. CASE Discard(r)
    BY <2>11 DEF Discard, TryStop, StopWorkspace
  <2>12. CASE Retire(r)
    BY <2>12 DEF Retire, TryStop, StopWorkspace
  <2>13. CASE RetireCancelled(r)
    BY <2>13 DEF RetireCancelled
  <2> QED BY <1>2, <2>1, <2>2, <2>3, <2>4, <2>5, <2>6, <2>7, <2>8, <2>9, <2>10,
         <2>11, <2>12, <2>13 DEF Reload, Reloading
<1>3. ASSUME NEW s \in Stops, Stop(s)
      PROVE  OwnService'
  BY <1>3 DEF Stop, StopNotRunning, StopBegins, StopEnds, StopFails, StopWorkspace
<1>4. ASSUME NEW i \in Instances, CleanupStops(i)
      PROVE  OwnService'
  BY <1>4 DEF CleanupStops, TryStop, StopWorkspace
<1>5. CASE ShutdownBegins \/ ShutdownStops
  BY <1>5 DEF ShutdownBegins, ShutdownStops
<1>6. CASE ShutdownClears
  BY <1>6 DEF ShutdownClears
<1>7. CASE UNCHANGED vars
  BY <1>7 DEF vars
<1> QED BY <1>1, <1>2, <1>3, <1>4, <1>5, <1>6, <1>7 DEF Next

\* What a candidate read is as new as what was announced when its generation
\* was captured.
LoadedInv ==
    /\ announced <= written
    /\ \A r \in Reloads :
        /\ captured[r] <= generation
        /\ pc[r] = "building" /\ captured[r] = generation => loaded[r] >= announced

\* A write announced after a candidate loaded changes the generation.
LEMMA LoadedStep == TypeInv /\ LoadedInv /\ [Next]_vars => LoadedInv'
<1> SUFFICES ASSUME TypeInv, LoadedInv, [Next]_vars
             PROVE  LoadedInv'
  OBVIOUS
<1> USE DEF TypeInv, TypeOK, LoadedInv, Move, registry, config, locals, services, tidying
<1>1. ASSUME NEW c \in Clients, Client(c)
      PROVE  LoadedInv'
  <2>1. CASE GetCached(c)
    BY <2>1 DEF GetCached
  <2>2. CASE Claim(c)
    BY <2>2 DEF Claim
  <2>3. CASE Join(c)
    BY <2>3 DEF Join
  <2>4. CASE Install(c)
    BY <2>4 DEF Install
  <2>5. CASE StartFails(c)
    BY <2>5 DEF StartFails
  <2>6. CASE Release(c)
    BY <2>6 DEF Release
  <2>7. CASE WaiterWakes(c)
    BY <2>7 DEF WaiterWakes
  <2>8. CASE InstallCancelled(c)
    BY <2>8 DEF InstallCancelled
  <2>9. CASE ReleaseCancelled(c)
    BY <2>9 DEF ReleaseCancelled
  <2>10. CASE StartRun(c)
    BY <2>10 DEF StartRun
  <2>11. CASE RunEnds(c)
    BY <2>11 DEF RunEnds
  <2>12. CASE RunOverstays(c)
    BY <2>12 DEF RunOverstays
  <2> QED BY <1>1, <2>1, <2>2, <2>3, <2>4, <2>5, <2>6, <2>7, <2>8, <2>9, <2>10,
         <2>11, <2>12 DEF Client, Starting
<1>2. ASSUME NEW r \in Reloads, Reload(r)
      PROVE  LoadedInv'
  <2>1. CASE WriteConfig(r)
    BY <2>1 DEF WriteConfig
  <2>2. CASE ScheduleReload(r)
    BY <2>2 DEF ScheduleReload
  <2>3. CASE ReloadCalled(r)
    BY <2>3 DEF ReloadCalled
  <2>4. CASE ReloadCheck(r)
    BY <2>4 DEF ReloadCheck
  <2>5. CASE ReloadReturns(r)
    BY <2>5 DEF ReloadReturns, GiveUp
  <2>6. CASE ReloadAttach(r)
    BY <2>6 DEF ReloadAttach
  <2>7. CASE ReloadLoads(r)
    BY <2>7 DEF ReloadLoads
  <2>8. CASE ReloadFails(r)
    BY <2>8 DEF ReloadFails, GiveUp
  <2>9. CASE SwapRefused(r)
    BY <2>9 DEF SwapRefused, GiveUp
  <2>10. CASE Swap(r)
    BY <2>10 DEF Swap, SwapFor
  <2>11. CASE Discard(r)
    BY <2>11 DEF Discard, TryStop, StopWorkspace
  <2>12. CASE Retire(r)
    BY <2>12 DEF Retire, TryStop, StopWorkspace
  <2>13. CASE RetireCancelled(r)
    BY <2>13 DEF RetireCancelled
  <2> QED BY <1>2, <2>1, <2>2, <2>3, <2>4, <2>5, <2>6, <2>7, <2>8, <2>9, <2>10,
         <2>11, <2>12, <2>13 DEF Reload, Reloading
<1>3. ASSUME NEW s \in Stops, Stop(s)
      PROVE  LoadedInv'
  <2>1. CASE StopNotRunning(s)
    BY <2>1 DEF StopNotRunning
  <2>2. CASE StopBegins(s)
    BY <2>2 DEF StopBegins
  <2>3. CASE StopEnds(s)
    BY <2>3 DEF StopEnds, StopWorkspace
  <2>4. CASE StopFails(s)
    BY <2>4 DEF StopFails, StopWorkspace
  <2> QED BY <1>3, <2>1, <2>2, <2>3, <2>4 DEF Stop
<1>4. ASSUME NEW i \in Instances, CleanupStops(i)
      PROVE  LoadedInv'
  BY <1>4 DEF CleanupStops, TryStop, StopWorkspace
<1>5. CASE ShutdownBegins \/ ShutdownStops
  BY <1>5 DEF ShutdownBegins, ShutdownStops
<1>6. CASE ShutdownClears
  BY <1>6 DEF ShutdownClears
<1>7. CASE UNCHANGED vars
  BY <1>7 DEF vars
<1> QED BY <1>1, <1>2, <1>3, <1>4, <1>5, <1>6, <1>7 DEF Next

\* stop_all picks its target when the delayed cleanups have been cancelled.
TargetKnown == phase \in {"running", "cancelling"} => target = None

\* StaleIsBeingReplaced also holds of the workspace a client is starting.
StaleInv ==
    \A i \in Instances :
        /\ agents = i \/ (i \in Clients /\ pc[i] = "starting")
        /\ loaded[i] < announced
        => missed \/ \E r \in Reloads : UnderWay(r)

\* Nothing else in stop_all sets its target.
LEMMA TargetStep == TypeInv /\ TargetKnown /\ [Next]_vars => TargetKnown'
<1> SUFFICES ASSUME TypeInv, TargetKnown, [Next]_vars
             PROVE  TargetKnown'
  OBVIOUS
<1> USE DEF TypeInv, TypeOK, TargetKnown, Move, registry, config, locals, services,
            tidying
<1>1. ASSUME NEW c \in Clients, Client(c)
      PROVE  TargetKnown'
  <2>1. CASE GetCached(c)
    BY <2>1 DEF GetCached
  <2>2. CASE Claim(c) \/ Join(c)
    BY <2>2 DEF Claim, Join
  <2>3. CASE Install(c) \/ StartFails(c) \/ InstallCancelled(c)
    BY <2>3 DEF Install, StartFails, InstallCancelled
  <2>4. CASE Release(c) \/ ReleaseCancelled(c)
    BY <2>4 DEF Release, ReleaseCancelled
  <2>5. CASE WaiterWakes(c)
    BY <2>5 DEF WaiterWakes
  <2>6. CASE StartRun(c) \/ RunEnds(c) \/ RunOverstays(c)
    BY <2>6 DEF StartRun, RunEnds, RunOverstays
  <2> QED BY <1>1, <2>1, <2>2, <2>3, <2>4, <2>5, <2>6 DEF Client, Starting
<1>2. ASSUME NEW r \in Reloads, Reload(r)
      PROVE  TargetKnown'
  BY <1>2 DEF Reload, Reloading, WriteConfig, ScheduleReload, ReloadCalled, ReloadCheck,
              ReloadReturns, GiveUp, ReloadAttach, ReloadLoads, ReloadFails,
              SwapRefused, Swap, SwapFor, Discard, Retire, TryStop, StopWorkspace,
              RetireCancelled
<1>3. ASSUME NEW s \in Stops, Stop(s)
      PROVE  TargetKnown'
  BY <1>3 DEF Stop, StopNotRunning, StopBegins, StopEnds, StopFails, StopWorkspace
<1>4. ASSUME NEW i \in Instances, CleanupStops(i)
      PROVE  TargetKnown'
  BY <1>4 DEF CleanupStops, TryStop, StopWorkspace
<1>5. CASE ShutdownBegins \/ ShutdownStops
  BY <1>5 DEF ShutdownBegins, ShutdownStops
<1>6. CASE ShutdownClears
  BY <1>6 DEF ShutdownClears
<1>7. CASE UNCHANGED vars
  BY <1>7 DEF vars
<1> QED BY <1>1, <1>2, <1>3, <1>4, <1>5, <1>6, <1>7 DEF Next

\* Whoever unregisters a workspace has it stopped or leaves that to somebody.
LEMMA NothingStep ==
    TypeInv /\ StartInv /\ TargetKnown /\ NothingLeftBehind /\ [Next]_vars => NothingLeftBehind'
<1> SUFFICES ASSUME TypeInv, StartInv, TargetKnown, NothingLeftBehind, [Next]_vars
             PROVE  NothingLeftBehind'
  OBVIOUS
<1> USE DEF TypeInv, TypeOK, StartInv, TargetKnown, NothingLeftBehind, Move, registry,
            config, locals, services, tidying
<1>1. ASSUME NEW c \in Clients, Client(c)
      PROVE  NothingLeftBehind'
  <2>1. CASE GetCached(c)
    BY <2>1 DEF GetCached
  <2>2. CASE Claim(c)
    BY <2>2 DEF Claim
  <2>3. CASE Join(c)
    BY <2>3 DEF Join
  <2>4. CASE Install(c)
    BY <2>4 DEF Install
  <2>5. CASE StartFails(c)
    BY <2>5 DEF StartFails
  <2>6. CASE Release(c)
    BY <2>6 DEF Release
  <2>7. CASE WaiterWakes(c)
    BY <2>7 DEF WaiterWakes
  <2>8. CASE InstallCancelled(c)
    BY <2>8 DEF InstallCancelled
  <2>9. CASE ReleaseCancelled(c)
    BY <2>9 DEF ReleaseCancelled
  <2>10. CASE StartRun(c)
    BY <2>10 DEF StartRun
  <2>11. CASE RunEnds(c)
    BY <2>11 DEF RunEnds
  <2>12. CASE RunOverstays(c)
    BY <2>12 DEF RunOverstays
  <2> QED BY <1>1, <2>1, <2>2, <2>3, <2>4, <2>5, <2>6, <2>7, <2>8, <2>9, <2>10,
         <2>11, <2>12 DEF Client, Starting
<1>2. ASSUME NEW r \in Reloads, Reload(r)
      PROVE  NothingLeftBehind'
  <2>1. CASE WriteConfig(r)
    BY <2>1 DEF WriteConfig
  <2>2. CASE ScheduleReload(r)
    BY <2>2 DEF ScheduleReload
  <2>3. CASE ReloadCalled(r)
    BY <2>3 DEF ReloadCalled
  <2>4. CASE ReloadCheck(r)
    BY <2>4 DEF ReloadCheck
  <2>5. CASE ReloadReturns(r)
    BY <2>5 DEF ReloadReturns, GiveUp
  <2>6. CASE ReloadAttach(r)
    BY <2>6 DEF ReloadAttach
  <2>7. CASE ReloadLoads(r)
    BY <2>7 DEF ReloadLoads
  <2>8. CASE ReloadFails(r)
    BY <2>8 DEF ReloadFails, GiveUp
  <2>9. CASE SwapRefused(r)
    BY <2>9 DEF SwapRefused, GiveUp
  <2>10. CASE Swap(r)
    BY <2>10 DEF Swap, SwapFor
  <2>11. CASE Discard(r)
    BY <2>11 DEF Discard, TryStop, StopWorkspace
  <2>12. CASE Retire(r)
    BY <2>12 DEF Retire, TryStop, StopWorkspace
  <2>13. CASE RetireCancelled(r)
    BY <2>13 DEF RetireCancelled
  <2> QED BY <1>2, <2>1, <2>2, <2>3, <2>4, <2>5, <2>6, <2>7, <2>8, <2>9, <2>10,
         <2>11, <2>12, <2>13 DEF Reload, Reloading
<1>3. ASSUME NEW s \in Stops, Stop(s)
      PROVE  NothingLeftBehind'
  <2>1. CASE StopNotRunning(s)
    BY <2>1 DEF StopNotRunning
  <2>2. CASE StopBegins(s)
    BY <2>2 DEF StopBegins
  <2>3. CASE StopEnds(s)
    <3>1. CASE agents = None
      BY <2>3, <3>1 DEF StopEnds, TryStop, StopWorkspace
    <3>2. CASE agents # None
      <4>1. life' = [life EXCEPT ![agents] = "stopped"]
        BY <2>3, <3>2 DEF StopEnds, TryStop, StopWorkspace
      <4>2. \A i \in Instances : life'[i] = "running" => life[i] = "running" /\ i # agents
        BY <3>2, <4>1
      <4>3. \A i \in Instances : pc'[i] = pc[i]
        BY <2>3 DEF StopEnds
      <4> QED BY <2>3, <3>2, <4>2, <4>3 DEF StopEnds
    <3> QED BY <3>1, <3>2
  <2>4. CASE StopFails(s)
    BY <2>4 DEF StopFails, StopWorkspace
  <2> QED BY <1>3, <2>1, <2>2, <2>3, <2>4 DEF Stop
<1>4. ASSUME NEW i \in Instances, CleanupStops(i)
      PROVE  NothingLeftBehind'
  BY <1>4 DEF CleanupStops, TryStop, StopWorkspace
<1>5. CASE ShutdownBegins \/ ShutdownStops
  BY <1>5 DEF ShutdownBegins, ShutdownStops
<1>6. CASE ShutdownClears
  BY <1>6 DEF ShutdownClears
<1>7. CASE UNCHANGED vars
  BY <1>7 DEF vars
<1> QED BY <1>1, <1>2, <1>3, <1>4, <1>5, <1>6, <1>7 DEF Next

\* Every announcement has a reload under way, which swaps or gives up.
LEMMA StaleStep ==
    TypeInv /\ StartInv /\ RegisteredIsBuilt /\ LoadedInv /\ StaleInv /\ [Next]_vars => StaleInv'
<1> SUFFICES ASSUME TypeInv, StartInv, RegisteredIsBuilt, LoadedInv, StaleInv, [Next]_vars
             PROVE  StaleInv'
  OBVIOUS
<1> USE DEF TypeInv, TypeOK, StartInv, RegisteredIsBuilt, Over, LoadedInv, StaleInv,
            UnderWay, Move, registry, config, locals, services, tidying
<1>1. ASSUME NEW c \in Clients, Client(c)
      PROVE  StaleInv'
  <2>1. CASE GetCached(c)
    BY <2>1 DEF GetCached
  <2>2. CASE Claim(c)
    BY <2>2 DEF Claim
  <2>3. CASE Join(c)
    BY <2>3 DEF Join
  <2>4. CASE Install(c)
    BY <2>4 DEF Install
  <2>5. CASE StartFails(c)
    BY <2>5 DEF StartFails
  <2>6. CASE Release(c)
    BY <2>6 DEF Release
  <2>7. CASE WaiterWakes(c)
    BY <2>7 DEF WaiterWakes
  <2>8. CASE InstallCancelled(c)
    BY <2>8 DEF InstallCancelled
  <2>9. CASE ReleaseCancelled(c)
    BY <2>9 DEF ReleaseCancelled
  <2>10. CASE StartRun(c)
    BY <2>10 DEF StartRun
  <2>11. CASE RunEnds(c)
    BY <2>11 DEF RunEnds
  <2>12. CASE RunOverstays(c)
    BY <2>12 DEF RunOverstays
  <2> QED BY <1>1, <2>1, <2>2, <2>3, <2>4, <2>5, <2>6, <2>7, <2>8, <2>9, <2>10,
         <2>11, <2>12 DEF Client, Starting
<1>2. ASSUME NEW r \in Reloads, Reload(r)
      PROVE  StaleInv'
  <2>1. CASE WriteConfig(r)
    BY <2>1 DEF WriteConfig
  <2>2. CASE ScheduleReload(r)
    BY <2>2 DEF ScheduleReload
  <2>3. CASE ReloadCalled(r)
    BY <2>3 DEF ReloadCalled
  <2>4. CASE ReloadCheck(r)
    BY <2>4 DEF ReloadCheck
  <2>5. CASE ReloadReturns(r)
    <3>1. CASE captured[r] = generation
      BY <2>5, <3>1 DEF ReloadReturns, GiveUp
    <3>2. CASE captured[r] # generation
      BY <2>5, <3>2 DEF ReloadReturns, GiveUp
    <3> QED BY <3>1, <3>2
  <2>6. CASE ReloadAttach(r)
    BY <2>6 DEF ReloadAttach
  <2>7. CASE ReloadLoads(r)
    BY <2>7 DEF ReloadLoads
  <2>8. CASE ReloadFails(r)
    <3>1. CASE captured[r] = generation
      BY <2>8, <3>1 DEF ReloadFails, GiveUp
    <3>2. CASE captured[r] # generation
      BY <2>8, <3>2 DEF ReloadFails, GiveUp
    <3> QED BY <3>1, <3>2
  <2>9. CASE SwapRefused(r)
    BY <2>9 DEF SwapRefused, GiveUp
  <2>10. CASE Swap(r)
    <3>1. loaded[r] >= announced
      BY <2>10 DEF Swap, SwapFor
    <3>2. \A c \in Clients : pc[c] # "starting"
      BY <2>10 DEF Swap, SwapFor
    <3> QED BY <2>10, <3>1, <3>2 DEF Swap, SwapFor
  <2>11. CASE Discard(r)
    BY <2>11 DEF Discard, TryStop, StopWorkspace
  <2>12. CASE Retire(r)
    BY <2>12 DEF Retire, TryStop, StopWorkspace
  <2>13. CASE RetireCancelled(r)
    BY <2>13 DEF RetireCancelled
  <2> QED BY <1>2, <2>1, <2>2, <2>3, <2>4, <2>5, <2>6, <2>7, <2>8, <2>9, <2>10,
         <2>11, <2>12, <2>13 DEF Reload, Reloading
<1>3. ASSUME NEW s \in Stops, Stop(s)
      PROVE  StaleInv'
  <2>1. CASE StopNotRunning(s)
    BY <2>1 DEF StopNotRunning
  <2>2. CASE StopBegins(s)
    BY <2>2 DEF StopBegins
  <2>3. CASE StopEnds(s)
    BY <2>3 DEF StopEnds, StopWorkspace
  <2>4. CASE StopFails(s)
    BY <2>4 DEF StopFails, StopWorkspace
  <2> QED BY <1>3, <2>1, <2>2, <2>3, <2>4 DEF Stop
<1>4. ASSUME NEW i \in Instances, CleanupStops(i)
      PROVE  StaleInv'
  BY <1>4 DEF CleanupStops, TryStop, StopWorkspace
<1>5. CASE ShutdownBegins \/ ShutdownStops
  BY <1>5 DEF ShutdownBegins, ShutdownStops
<1>6. CASE ShutdownClears
  BY <1>6 DEF ShutdownClears
<1>7. CASE UNCHANGED vars
  BY <1>7 DEF vars
<1> QED BY <1>1, <1>2, <1>3, <1>4, <1>5, <1>6, <1>7 DEF Next

\* A workspace that a reload will stop is not registered, and the runs on it are
\* those its delayed cleanup waits for, or there are none.
SparesInv ==
    /\ \A r \in Reloads : pc[r] = "retire" =>
         /\ agents # holds[r]
         /\ \A c \in Clients : holds[c] = holds[r] => pc[c] # "run"
    /\ \A i \in Instances : cleanup[i] # {} =>
         /\ agents # i
         /\ \A c \in Clients : holds[c] = i /\ pc[c] = "run" => c \in cleanup[i]

\* The snapshot at the swap has every run the replaced workspace will have.
LEMMA SparesStep == TypeInv /\ RegisteredIsBuilt /\ SparesInv /\ [Next]_vars => SparesInv'
<1> SUFFICES ASSUME TypeInv, RegisteredIsBuilt, SparesInv, [Next]_vars
             PROVE  SparesInv'
  OBVIOUS
<1> USE DEF TypeInv, TypeOK, HoldsKnown, RunsOn, RegisteredIsBuilt, Over, SparesInv,
            Move, registry, config, locals, services, tidying
<1>1. ASSUME NEW c \in Clients, Client(c)
      PROVE  SparesInv'
  <2>1. CASE GetCached(c)
    BY <2>1 DEF GetCached
  <2>2. CASE Claim(c)
    BY <2>2 DEF Claim
  <2>3. CASE Join(c)
    BY <2>3 DEF Join
  <2>4. CASE Install(c)
    BY <2>4 DEF Install
  <2>5. CASE StartFails(c)
    BY <2>5 DEF StartFails
  <2>6. CASE Release(c)
    BY <2>6 DEF Release
  <2>7. CASE WaiterWakes(c)
    BY <2>7 DEF WaiterWakes
  <2>8. CASE InstallCancelled(c)
    BY <2>8 DEF InstallCancelled
  <2>9. CASE ReleaseCancelled(c)
    BY <2>9 DEF ReleaseCancelled
  <2>10. CASE StartRun(c)
    BY <2>10 DEF StartRun
  <2>11. CASE RunEnds(c)
    BY <2>11 DEF RunEnds
  <2>12. CASE RunOverstays(c)
    BY <2>12 DEF RunOverstays
  <2> QED BY <1>1, <2>1, <2>2, <2>3, <2>4, <2>5, <2>6, <2>7, <2>8, <2>9, <2>10,
         <2>11, <2>12 DEF Client, Starting
<1>2. ASSUME NEW r \in Reloads, Reload(r)
      PROVE  SparesInv'
  <2>1. CASE WriteConfig(r)
    BY <2>1 DEF WriteConfig
  <2>2. CASE ScheduleReload(r)
    BY <2>2 DEF ScheduleReload
  <2>3. CASE ReloadCalled(r)
    BY <2>3 DEF ReloadCalled
  <2>4. CASE ReloadCheck(r)
    BY <2>4 DEF ReloadCheck
  <2>5. CASE ReloadReturns(r)
    BY <2>5 DEF ReloadReturns, GiveUp
  <2>6. CASE ReloadAttach(r)
    BY <2>6 DEF ReloadAttach
  <2>7. CASE ReloadLoads(r)
    BY <2>7 DEF ReloadLoads
  <2>8. CASE ReloadFails(r)
    BY <2>8 DEF ReloadFails, GiveUp
  <2>9. CASE SwapRefused(r)
    BY <2>9 DEF SwapRefused, GiveUp
  <2>10. CASE Swap(r)
    BY <2>10 DEF Swap, SwapFor
  <2>11. CASE Discard(r)
    BY <2>11 DEF Discard, TryStop, StopWorkspace
  <2>12. CASE Retire(r)
    BY <2>12 DEF Retire, TryStop, StopWorkspace
  <2>13. CASE RetireCancelled(r)
    BY <2>13 DEF RetireCancelled
  <2> QED BY <1>2, <2>1, <2>2, <2>3, <2>4, <2>5, <2>6, <2>7, <2>8, <2>9, <2>10,
         <2>11, <2>12, <2>13 DEF Reload, Reloading
<1>3. ASSUME NEW s \in Stops, Stop(s)
      PROVE  SparesInv'
  <2>1. CASE StopNotRunning(s)
    BY <2>1 DEF StopNotRunning
  <2>2. CASE StopBegins(s)
    BY <2>2 DEF StopBegins
  <2>3. CASE StopEnds(s)
    BY <2>3 DEF StopEnds, StopWorkspace
  <2>4. CASE StopFails(s)
    BY <2>4 DEF StopFails, StopWorkspace
  <2> QED BY <1>3, <2>1, <2>2, <2>3, <2>4 DEF Stop
<1>4. ASSUME NEW i \in Instances, CleanupStops(i)
      PROVE  SparesInv'
  BY <1>4 DEF CleanupStops, TryStop, StopWorkspace
<1>5. CASE ShutdownBegins \/ ShutdownStops
  BY <1>5 DEF ShutdownBegins, ShutdownStops
<1>6. CASE ShutdownClears
  BY <1>6 DEF ShutdownClears
<1>7. CASE UNCHANGED vars
  BY <1>7 DEF vars
<1> QED BY <1>1, <1>2, <1>3, <1>4, <1>5, <1>6, <1>7 DEF Next

-----------------------------------------------------------------------------
(* The theorems.                                                           *)

SafetyInv ==
    /\ TypeInv
    /\ StartInv
    /\ RegisteredIsBuilt
    /\ OwnService
    /\ LoadedInv
    /\ TargetKnown
    /\ NothingLeftBehind
    /\ StaleInv
    /\ SparesInv

\* All conjuncts together hold in every reachable state.
LEMMA Invariance == Spec => []SafetyInv
<1>1. Init => SafetyInv
  <2> SUFFICES ASSUME Init
               PROVE  SafetyInv
    OBVIOUS
  <2>1. TypeInv
    BY TypeInit DEF Init, TypeInv, HoldsKnown
  <2>2. StartInv /\ RegisteredIsBuilt /\ OwnService /\ TargetKnown
    BY DEF Init, StartInv, RegisteredIsBuilt, OwnService, TargetKnown
  <2>3. LoadedInv /\ NothingLeftBehind /\ StaleInv /\ SparesInv
    BY DEF Init, LoadedInv, NothingLeftBehind, StaleInv, SparesInv
  <2> QED BY <2>1, <2>2, <2>3 DEF SafetyInv
<1>2. SafetyInv /\ [Next]_vars => SafetyInv'
  BY TypeStep, HoldsStep, StartStep, BuiltStep, OwnStep, LoadedStep, TargetStep,
     NothingStep, StaleStep, SparesStep
  DEF SafetyInv, TypeInv
<1> QED BY <1>1, <1>2, PTL DEF Spec

\* StartInv: at most one client is between the claim of a start and its
\* release, and nothing is registered while it starts.
THEOREM StartIsExclusive == Spec => []StartInv
  BY Invariance, PTL DEF SafetyInv

\* NothingLeftBehind: every running workspace is registered or about to be
\* stopped by somebody.
THEOREM NothingIsLeftBehind == Spec => []NothingLeftBehind
  BY Invariance, PTL DEF SafetyInv

\* StaleIsBeingReplaced: a registered workspace older than the configuration
\* last announced has a reload under way, unless one gave up.
THEOREM StaleGetsReplaced == Spec => []StaleIsBeingReplaced
<1>1. SafetyInv => StaleIsBeingReplaced
  <2> SUFFICES ASSUME SafetyInv, agents # None, loaded[agents] < announced
               PROVE  missed \/ \E r \in Reloads : UnderWay(r)
    BY DEF StaleIsBeingReplaced
  <2>1. agents \in Instances
    BY DEF SafetyInv, TypeInv, TypeOK
  <2>2. StaleInv
    BY DEF SafetyInv
  <2> QED BY <2>1, <2>2 DEF StaleInv
<1> QED BY <1>1, Invariance, PTL

\* ReloadsInstallAnnounced: no reload installs a configuration older than the
\* one last announced.
THEOREM ReloadsAreCurrent == Spec => ReloadsInstallAnnounced
<1> DEFINE Current ==
      \A r \in Reloads : agents' = r /\ agents # r => loaded[r] >= announced
<1>1. SafetyInv /\ [Next]_vars => [Current]_vars
  <2> SUFFICES ASSUME SafetyInv, Next, NEW r \in Reloads, agents' = r, agents # r
               PROVE  loaded[r] >= announced
    BY DEF vars
  <2> USE DEF registry, config, locals, services, tidying
  <2>1. \A c \in Clients : ~Client(c)
    BY DEF Client, Starting, GetCached, Claim, Join, Install, StartFails, Release,
           WaiterWakes, InstallCancelled, ReleaseCancelled, StartRun, RunEnds,
           RunOverstays
  <2>2. \A s \in Stops : ~Stop(s)
    BY DEF Stop, StopNotRunning, StopBegins, StopEnds, StopFails
  <2>3. /\ \A i \in Instances : ~CleanupStops(i)
        /\ ~ShutdownBegins /\ ~ShutdownStops
        /\ ~ShutdownClears
    BY DEF CleanupStops, ShutdownBegins, ShutdownStops, ShutdownClears
  <2>4. PICK q \in Reloads : Reload(q)
    BY <2>1, <2>2, <2>3 DEF Next
  <2>5. Swap(q)
    BY <2>4 DEF Reload, Reloading, WriteConfig, ScheduleReload, ReloadCalled,
                ReloadCheck, ReloadReturns, GiveUp, ReloadAttach, ReloadLoads,
                ReloadFails, SwapRefused, Discard, Retire, RetireCancelled
  <2>6. q = r /\ pc[r] = "building" /\ captured[r] = generation
    BY <2>5 DEF Swap, SwapFor, Move
  <2> QED BY <2>6 DEF SafetyInv, LoadedInv
<1> QED BY <1>1, Invariance, PTL DEF Spec, ReloadsInstallAnnounced

\* DiscardKeepsBorrowed: a candidate that is given up closes no service but its
\* own.
THEOREM DiscardSparesService == Spec => DiscardKeepsBorrowed
<1> DEFINE Spared ==
      \A r \in Reloads :
         pc[r] = "discard" /\ pc'[r] = "done" => closed' \subseteq closed \cup {r}
<1>1. SafetyInv /\ [Next]_vars => [Spared]_vars
  <2> SUFFICES ASSUME SafetyInv, Next, NEW r \in Reloads,
                      pc[r] = "discard", pc'[r] = "done"
               PROVE  closed' \subseteq closed \cup {r}
    BY DEF vars
  <2> USE DEF SafetyInv, TypeInv, TypeOK, Move, registry, config, locals, services, tidying
  <2>1. \A c \in Clients : ~Client(c)
    BY DEF Client, Starting, GetCached, Claim, Join, Install, StartFails, Release,
           WaiterWakes, InstallCancelled, ReleaseCancelled, StartRun, RunEnds,
           RunOverstays
  <2>2. \A s \in Stops : ~Stop(s)
    BY DEF Stop, StopNotRunning, StopBegins, StopEnds, StopFails
  <2>3. /\ \A i \in Instances : ~CleanupStops(i)
        /\ ~ShutdownBegins /\ ~ShutdownStops
        /\ ~ShutdownClears
    BY DEF CleanupStops, ShutdownBegins, ShutdownStops, ShutdownClears
  <2>4. PICK q \in Reloads : Reload(q)
    BY <2>1, <2>2, <2>3 DEF Next
  <2>5. Discard(r)
    BY <2>4 DEF Reload, Reloading, WriteConfig, ScheduleReload, ReloadCalled,
                ReloadCheck, ReloadReturns, GiveUp, ReloadAttach, ReloadLoads,
                ReloadFails, SwapRefused, Swap, SwapFor, Discard, Retire,
                RetireCancelled
  <2>6. Closes(r, TRUE, TRUE) \subseteq {r}
    BY <2>5 DEF Closes, OwnService
  <2> QED BY <2>5, <2>6 DEF Discard, TryStop, StopWorkspace
<1> QED BY <1>1, Invariance, PTL DEF Spec, DiscardKeepsBorrowed

\* ReloadSparesRuns: apart from stop_agent and stop_all, nothing stops a
\* workspace under a run that was started while it was registered.
THEOREM RunsAreSpared == Spec => ReloadSparesRuns
<1> DEFINE Running(c) == pc[c] = "run" /\ Replaced(holds[c])
           Spared == \A c \in Clients :
                       Running(c) => life'[holds[c]] \in {life[holds[c]], "orphaned"}
<1>1. SafetyInv /\ [Next]_vars => [Spared]_vars
  <2> SUFFICES ASSUME SafetyInv, Next, NEW d \in Clients, Running(d)
               PROVE  life'[holds[d]] \in {life[holds[d]], "orphaned"}
    BY DEF vars
  <2> USE DEF SafetyInv, TypeInv, TypeOK, Replaced, Move, registry, config, locals,
              services, tidying
  <2>1. holds[d] \in Instances
    BY DEF HoldsKnown
  <2>2. ASSUME NEW c \in Clients, Client(c)
        PROVE  life'[holds[d]] \in {life[holds[d]], "orphaned"}
    <3>1. CASE StartFails(c) \/ Install(c)
      BY <2>1, <3>1 DEF StartFails, Install, RegisteredIsBuilt, Over
    <3>2. CASE ~StartFails(c) /\ ~Install(c)
      BY <2>1, <2>2, <3>2 DEF Client, Starting, GetCached, Claim, Join, Release,
         WaiterWakes, InstallCancelled, ReleaseCancelled, StartRun,
         RunEnds, RunOverstays
    <3> QED BY <3>1, <3>2
  <2>3. ASSUME NEW r \in Reloads, Reload(r)
        PROVE  life'[holds[d]] \in {life[holds[d]], "orphaned"}
    <3>1. CASE Discard(r) \/ ReloadLoads(r)
      BY <2>1, <3>1 DEF Discard, TryStop, StopWorkspace, ReloadLoads, RegisteredIsBuilt,
         Over
    <3>2. CASE Retire(r)
      BY <2>1, <3>2 DEF Retire, TryStop, StopWorkspace, SparesInv
    <3>3. CASE ~Discard(r) /\ ~ReloadLoads(r) /\ ~Retire(r)
      BY <2>1, <2>3, <3>3 DEF Reload, Reloading, WriteConfig, ScheduleReload,
         ReloadCalled, ReloadCheck, ReloadReturns, GiveUp, ReloadAttach,
         ReloadFails, SwapRefused, Swap, SwapFor, RetireCancelled
    <3> QED BY <3>1, <3>2, <3>3
  <2>4. ASSUME NEW s \in Stops, Stop(s)
        PROVE  life'[holds[d]] \in {life[holds[d]], "orphaned"}
    BY <2>1, <2>4 DEF Stop, StopNotRunning, StopBegins, StopEnds, StopFails,
                      StopWorkspace
  <2>5. ASSUME NEW i \in Instances, CleanupStops(i)
        PROVE  life'[holds[d]] \in {life[holds[d]], "orphaned"}
    BY <2>1, <2>5 DEF CleanupStops, TryStop, StopWorkspace, SparesInv
  <2>6. CASE ShutdownBegins \/ ShutdownStops
    BY <2>1, <2>6 DEF ShutdownBegins, ShutdownStops
  <2>7. CASE ShutdownClears
    BY <2>1, <2>7 DEF ShutdownClears
  <2> QED BY <2>2, <2>3, <2>4, <2>5, <2>6, <2>7 DEF Next
<1> QED BY <1>1, Invariance, PTL DEF Spec, ReloadSparesRuns

=============================================================================
