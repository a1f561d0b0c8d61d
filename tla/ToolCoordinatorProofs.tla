----------------------- MODULE ToolCoordinatorProofs -----------------------
(***************************************************************************)
(* Proofs about ToolCoordinator, for any set of calls and any number of    *)
(* interventions.                                                          *)
(***************************************************************************)
EXTENDS ToolCoordinator, TLAPS

USE ConstantsAssumption

\* The initial state is of the right type.
LEMMA TypeInit == Init => TypeOK
<1> SUFFICES ASSUME Init
             PROVE  TypeOK
  OBVIOUS
<1>1. /\ turn \in [Calls -> Turn]
      /\ supervisor \in [Calls -> Supervisor]
      /\ tool \in [Calls -> Tool]
  BY DEF Init, Turn, Supervisor, Tool
<1>2. /\ armed \in [Calls -> BOOLEAN]
      /\ changed \in [Calls -> BOOLEAN]
      /\ cancelled \in [Calls -> BOOLEAN]
      /\ byUser \in [Calls -> BOOLEAN]
      /\ forced \in [Calls -> BOOLEAN]
      /\ unlimited \in [Calls -> BOOLEAN]
      /\ timeout \in [Calls -> BOOLEAN]
      /\ capped \in [Calls -> BOOLEAN]
  BY DEF Init
<1>3. /\ offload \in [Calls -> Offload]
      /\ kill \in [Calls -> Kill]
      /\ setup \in [Calls -> {"none", "before", "under way", "over"}]
      /\ savedOffload \in [Calls -> Offload]
      /\ savedKill \in [Calls -> Kill]
  BY DEF Init, Offload, Kill
<1>4. hints \in [Calls -> Nat] /\ requests \in [Calls -> 0..MaxRequests]
  BY DEF Init
<1> QED BY <1>1, <1>2, <1>3, <1>4 DEF Init, TypeOK, SandboxOK

\* The sandbox is set up by its tool, and by nobody else.
LEMMA SandboxStep == TypeOK /\ [Next]_vars => SandboxOK'
<1> SUFFICES ASSUME TypeOK, [Next]_vars
             PROVE  SandboxOK'
  OBVIOUS
<1>1. CASE UNCHANGED sandbox
  BY <1>1 DEF TypeOK, SandboxOK, sandbox
<1>2. ASSUME NEW c \in Calls, ToolStep(c)
      PROVE  SandboxOK'
  <2>1. CASE SetupBegins(c)
    BY <2>1 DEF SetupBegins, TypeOK, SandboxOK
  <2>2. CASE SetupEnds(c)
    BY <2>2 DEF SetupEnds, TypeOK, SandboxOK
  <2>3. CASE ToolEnds(c)
    BY <2>3 DEF ToolEnds, TypeOK, SandboxOK, Offload, Kill
  <2>4. CASE ArmKill(c) \/ ToolStreams(c) \/ StreamCloses(c)
    BY <1>1, <2>4 DEF ArmKill, ToolStreams, StreamCloses, work
  <2> QED BY <1>2, <2>1, <2>2, <2>3, <2>4 DEF ToolStep
<1>3. ASSUME NEW c \in Calls, Execute(c) \/ OffloadPasses(c) \/ KillPasses(c)
      PROVE  UNCHANGED sandbox
  BY <1>3 DEF Execute, OffloadPasses, KillPasses, work
<1>4. ASSUME NEW c \in Calls, TurnStep(c) \/ TurnEnds(c) \/ TurnEndsAgain(c)
      PROVE  UNCHANGED sandbox
  BY <1>4 DEF TurnStep, TakesChunk, Resumes, TurnNoticesChange, NoticesChange,
     TurnTimesOut, TimesOut, TurnCancelled, StreamClosed, KillReached, BeginOffload,
     HandOver, KeepForeground, DeadlineCancels, GraceEnds, GraceExpires, ForceTool,
     GraceAborted, Answer, Reaped, TurnEnds, TurnEndsAgain, work
<1>5. ASSUME NEW c \in Calls, SupervisorStep(c)
      PROVE  UNCHANGED sandbox
  BY <1>5 DEF SupervisorStep, SupervisorNoticesChange, NoticesChange, SupervisorTimesOut,
     TimesOut, SupervisorContinues, SupervisorKills, SupervisorCancelled, SupervisorJoins,
     SupervisorForces, ForceTool, SupervisorAborted, SupervisorFinalizes, Report, work
<1>6. ASSUME NEW c \in Calls, Intervention(c)
      PROVE  UNCHANGED sandbox
  BY <1>6 DEF Intervention, RequestOffload, Cancel, ForceCancel, ForceTool, ExtendOffload,
     ExtendKill, Reconfigure, ShutdownNext, work
<1>7. CASE Shutdown \/ UNCHANGED vars
  BY <1>1, <1>7 DEF Shutdown, vars, work
<1> QED BY <1>1, <1>2, <1>3, <1>4, <1>5, <1>6, <1>7 DEF Next, Step

\* Every operation keeps every variable in its type.
LEMMA TypeStep == TypeOK /\ [Next]_vars => TypeOK'
<1> SUFFICES ASSUME TypeOK, [Next]_vars
             PROVE  TypeOK'
  OBVIOUS
<1>0. SandboxOK'
  BY SandboxStep
<1> USE <1>0 DEF TypeOK, Move, Supervise, Turn, Supervisor, Tool, Offload, Kill, owners,
            work, deadlines, signals, settings, bookkeeping, shutdown, history
<1>1. ASSUME NEW c \in Calls, Execute(c) \/ ToolStep(c)
      PROVE  TypeOK'
  <2>0. /\ savedOffload[c] \in Offload /\ savedKill[c] \in Kill
    BY DEF SandboxOK
  <2>1. CASE Execute(c)      BY <2>1 DEF Execute
  <2>2. CASE ArmKill(c)
    <3>1. PICK k \in {"ample", "short", "due"} :
            /\ kill' = [kill EXCEPT ![c] = k]
            /\ offload' = [offload EXCEPT ![c] = IF @ = "set" /\ k = "due" THEN k ELSE @]
      BY <2>2 DEF ArmKill
    <3>2. offload' \in [Calls -> Offload] /\ kill' \in [Calls -> Kill]
      BY <3>1
    <3> QED BY <2>2, <3>2 DEF ArmKill
  <2>3. CASE ToolStreams(c)  BY <2>3 DEF ToolStreams
  <2>4. CASE SetupBegins(c)  BY <2>0, <2>4 DEF SetupBegins
  <2>5. CASE SetupEnds(c)    BY <2>0, <2>5 DEF SetupEnds, Restore
  <2>6. CASE ToolEnds(c)     BY <2>0, <2>6 DEF ToolEnds, Restore
  <2>7. CASE StreamCloses(c) BY <2>7 DEF StreamCloses
  <2> QED BY <1>1, <2>1, <2>2, <2>3, <2>4, <2>5, <2>6, <2>7 DEF ToolStep
<1>2. ASSUME NEW c \in Calls, TurnStep(c)
      PROVE  TypeOK'
  <2>0. CASE TakesChunk(c)        BY <2>0 DEF TakesChunk
  <2>1. CASE TurnNoticesChange(c)
    BY <2>1 DEF TurnNoticesChange, NoticesChange, Rearm
  <2>2. CASE TurnTimesOut(c)      BY <2>2 DEF TurnTimesOut, TimesOut
  <2>3. CASE TurnCancelled(c)     BY <2>3 DEF TurnCancelled, Grace
  <2>4. CASE StreamClosed(c)      BY <2>4 DEF StreamClosed
  <2>5. CASE KillReached(c)       BY <2>5 DEF KillReached, Noticed, Grace, SetCancel
  <2>6. CASE BeginOffload(c)      BY <2>6 DEF BeginOffload, TopUp, HandOver, Noticed, Rearm
  <2>7. CASE KeepForeground(c)    BY <2>7 DEF KeepForeground, Rearm
  <2>8. CASE DeadlineCancels(c)   BY <2>8 DEF DeadlineCancels, Noticed, Grace, SetCancel
  <2>9. CASE GraceEnds(c)         BY <2>9 DEF GraceEnds
  <2>10. CASE GraceExpires(c)     BY <2>10 DEF GraceExpires, ForceTool
  <2>11. CASE GraceAborted(c)     BY <2>11 DEF GraceAborted
  <2>12. CASE Answer(c)           BY <2>12 DEF Answer, Finalize
  <2>13. CASE Reaped(c)           BY <2>13 DEF Reaped, Finalize
  <2>14. CASE Resumes(c)          BY <2>14 DEF Resumes, Rearm
  <2> QED BY <1>2, <2>0, <2>1, <2>2, <2>3, <2>4, <2>5, <2>6, <2>7, <2>8, <2>9, <2>10,
             <2>11, <2>12, <2>13, <2>14 DEF TurnStep
<1>3. ASSUME NEW c \in Calls, TurnEnds(c) \/ TurnEndsAgain(c)
      PROVE  TypeOK'
  <2>1. CASE TurnEnds(c)      BY <2>1 DEF TurnEnds, SetCancel
  <2>2. CASE TurnEndsAgain(c) BY <2>2 DEF TurnEndsAgain, ForceTool
  <2> QED BY <1>3, <2>1, <2>2
<1>4. ASSUME NEW c \in Calls, SupervisorStep(c)
      PROVE  TypeOK'
  <2>1. CASE SupervisorNoticesChange(c)
    BY <2>1 DEF SupervisorNoticesChange, NoticesChange, Again, Rearm
  <2>2. CASE SupervisorTimesOut(c)  BY <2>2 DEF SupervisorTimesOut, TimesOut
  <2>3. CASE SupervisorContinues(c) BY <2>3 DEF SupervisorContinues, Again, Rearm
  <2>4. CASE SupervisorKills(c)     BY <2>4 DEF SupervisorKills, Grace, SetCancel
  <2>5. CASE SupervisorCancelled(c) BY <2>5 DEF SupervisorCancelled, Grace
  <2>6. CASE SupervisorJoins(c)     BY <2>6 DEF SupervisorJoins
  <2>7. CASE SupervisorForces(c)    BY <2>7 DEF SupervisorForces, ForceTool
  <2>8. CASE SupervisorAborted(c)   BY <2>8 DEF SupervisorAborted
  <2>9. CASE SupervisorFinalizes(c) BY <2>9 DEF SupervisorFinalizes, Finalize
  <2>10. CASE Report(c)             BY <2>10 DEF Report
  <2> QED BY <1>4, <2>1, <2>2, <2>3, <2>4, <2>5, <2>6, <2>7, <2>8, <2>9, <2>10
          DEF SupervisorStep
<1>5. ASSUME NEW c \in Calls, Intervention(c)
      PROVE  TypeOK'
  <2>0. Requested(c) => requests' \in [Calls -> 0..MaxRequests]
    BY DEF Requested
  <2>1. CASE RequestOffload(c) BY <2>0, <2>1 DEF RequestOffload, TopUp
  <2>2. CASE Cancel(c)         BY <2>0, <2>2 DEF Cancel, SetCancel
  <2>3. CASE ForceCancel(c)    BY <2>0, <2>3 DEF ForceCancel, ForceTool
  <2>4. CASE ExtendOffload(c)  BY <2>0, <2>4 DEF ExtendOffload
  <2>5. CASE ExtendKill(c)     BY <2>0, <2>5 DEF ExtendKill
  <2>6. CASE Reconfigure(c)    BY <2>0, <2>6 DEF Reconfigure
  <2>7. CASE ShutdownNext(c)   BY <2>7 DEF ShutdownNext, ForceTool
  <2> QED BY <1>5, <2>1, <2>2, <2>3, <2>4, <2>5, <2>6, <2>7 DEF Intervention
<1>6. ASSUME NEW c \in Calls, OffloadPasses(c) \/ KillPasses(c)
      PROVE  TypeOK'
  BY <1>6 DEF OffloadPasses, KillPasses
<1>7. CASE Shutdown
  BY <1>7 DEF Shutdown
<1>8. CASE UNCHANGED vars
  BY <1>8 DEF vars
<1> QED BY <1>1, <1>2, <1>3, <1>4, <1>5, <1>6, <1>7, <1>8 DEF Next, Step

\* Every variable keeps its type, in every reachable state.
THEOREM TypeCorrect == Spec => []TypeOK
BY TypeInit, TypeStep, PTL DEF Spec

-----------------------------------------------------------------------------
(* The inductive invariant.                                                *)

\* Where the turn, the supervisor and the tool of a call stand determines its
\* status and the notifications about it.
Coherent(c) ==
    /\ supervisor[c] = "none" => turn[c] # "offloaded"
    /\ supervisor[c] # "none" => turn[c] \in {"offloaded", "raised"}
    /\ turn[c] = "idle" <=> tool[c] = "none"
    /\ status[c] = "completed" <=>
         \/ turn[c] = "answered"
         \/ supervisor[c] \in {"reporting", "over"}
         \/ turn[c] = "raised" /\ supervisor[c] = "none"
    /\ status[c] = "offloaded" <=> InBackground(c) \/ supervisor[c] = "dead"
    /\ status[c] = "completed" => Stopped(c)
    /\ hints[c] = IF supervisor[c] = "over" THEN 1 ELSE 0

StagesInv == \A c \in Calls : Coherent(c)

\* The types of the variables that matter for it.
StageTypes ==
    /\ entries \subseteq Calls
    /\ status \in [Calls -> {"running", "offloaded", "completed"}]
    /\ turn \in [Calls -> Turn]
    /\ supervisor \in [Calls -> Supervisor]
    /\ tool \in [Calls -> Tool]
    /\ hints \in [Calls -> Nat]

SafetyInv == TypeOK /\ StagesInv /\ OneOwner /\ BackgroundIsBounded

\* The inductive invariant holds before the first call.
LEMMA SafetyInit == Init => SafetyInv
<1> SUFFICES ASSUME Init
             PROVE  SafetyInv
  OBVIOUS
<1>1. TypeOK
  BY TypeInit
<1>2. StagesInv
  BY DEF Init, StagesInv, Coherent, InBackground, Stopped
<1>3. OneOwner
  BY DEF Init, OneOwner, InTurn, InBackground, Abandoned
<1>4. BackgroundIsBounded
  BY DEF Init, BackgroundIsBounded
<1> QED BY <1>1, <1>2, <1>3, <1>4 DEF SafetyInv

\* Every operation keeps the stages of every call together.
LEMMA StagesStep == TypeOK /\ StagesInv /\ [Next]_vars => StagesInv'
<1> SUFFICES ASSUME TypeOK, StagesInv, [Next]_vars
             PROVE  StagesInv'
  OBVIOUS
<1>0. StageTypes
  BY DEF TypeOK, StageTypes
<1> USE <1>0 DEF StageTypes, StagesInv, Coherent, InBackground, Stopped, Move, Supervise,
            owners, work, deadlines, signals, settings, bookkeeping, shutdown, history
<1>1. ASSUME NEW c \in Calls, Execute(c) \/ ToolStep(c)
      PROVE  StagesInv'
  <2>1. CASE Execute(c)
    BY <2>1 DEF Execute
  <2>2. ASSUME UNCHANGED <<turn, supervisor, status, hints>>,
               \A d \in Calls : /\ tool'[d] = "none" <=> tool[d] = "none"
                                /\ Stopped(d) => Stopped(d)'
        PROVE  StagesInv'
    BY <2>2
  <2>3. CASE ArmKill(c) \/ SetupBegins(c) \/ SetupEnds(c)
    <3>1. UNCHANGED <<owners, tool, bookkeeping>>
      BY <2>3 DEF ArmKill, SetupBegins, SetupEnds
    <3> QED BY <2>2, <3>1
  <2>4. CASE ToolEnds(c) \/ StreamCloses(c)
    <3>1. /\ UNCHANGED <<owners, bookkeeping>>
          /\ tool[c] \in {"running", "closing"}
          /\ \E t \in {"closing", "done"} : tool' = [tool EXCEPT ![c] = t]
      BY <2>4 DEF ToolEnds, StreamCloses
    <3> QED BY <2>2, <3>1
  <2>5. CASE ToolStreams(c)
    BY <2>5 DEF ToolStreams
  <2> QED BY <1>1, <2>1, <2>3, <2>4, <2>5 DEF ToolStep
<1>2. ASSUME NEW c \in Calls, TurnStep(c)
      PROVE  StagesInv'
  <2>1. CASE \/ TakesChunk(c) \/ Resumes(c) \/ TurnNoticesChange(c)
             \/ TurnTimesOut(c) \/ TurnCancelled(c) \/ StreamClosed(c)
    BY <2>1 DEF TakesChunk, Resumes, TurnNoticesChange, NoticesChange, TurnTimesOut,
                TimesOut, TurnCancelled, Grace, StreamClosed
  <2>2. CASE KillReached(c) \/ KeepForeground(c) \/ DeadlineCancels(c)
    BY <2>2 DEF KillReached, KeepForeground, DeadlineCancels, Reached, Grace
  <2>3. CASE BeginOffload(c)
    BY <2>3 DEF BeginOffload, HandOver, Reached
  <2>4. CASE GraceEnds(c) \/ GraceExpires(c) \/ GraceAborted(c)
    BY <2>4 DEF GraceEnds, GraceExpires, GraceAborted, ForceTool
  <2>5. CASE Answer(c) \/ Reaped(c)
    BY <2>5 DEF Answer, Reaped, Finalize
  <2> QED BY <1>2, <2>1, <2>2, <2>3, <2>4, <2>5 DEF TurnStep
<1>3. ASSUME NEW c \in Calls, TurnEnds(c) \/ TurnEndsAgain(c)
      PROVE  StagesInv'
  BY <1>3 DEF TurnEnds, TurnEndsAgain, ForceTool
<1>4. ASSUME NEW c \in Calls, SupervisorStep(c)
      PROVE  StagesInv'
  <2>1. CASE \/ SupervisorNoticesChange(c) \/ SupervisorTimesOut(c)
             \/ SupervisorContinues(c) \/ SupervisorKills(c) \/ SupervisorCancelled(c)
    BY <2>1 DEF SupervisorNoticesChange, NoticesChange, Again, SupervisorTimesOut,
       TimesOut, SupervisorContinues, SupervisorKills, SupervisorCancelled, Grace
  <2>2. CASE SupervisorJoins(c) \/ SupervisorForces(c) \/ SupervisorAborted(c)
    BY <2>2 DEF SupervisorJoins, SupervisorForces, SupervisorAborted, ForceTool
  <2>3. CASE SupervisorFinalizes(c) \/ Report(c)
    BY <2>3 DEF SupervisorFinalizes, Finalize, Report
  <2> QED BY <1>4, <2>1, <2>2, <2>3 DEF SupervisorStep
<1>5. ASSUME NEW c \in Calls, Intervention(c)
      PROVE  StagesInv'
  BY <1>5 DEF Intervention, RequestOffload, Cancel, ForceCancel, ForceTool, ExtendOffload,
     ExtendKill, Reconfigure, ShutdownNext
<1>6. ASSUME NEW c \in Calls, OffloadPasses(c) \/ KillPasses(c)
      PROVE  StagesInv'
  BY <1>6 DEF OffloadPasses, KillPasses
<1>7. CASE Shutdown
  BY <1>7 DEF Shutdown
<1>8. CASE UNCHANGED vars
  BY <1>8 DEF vars
<1> QED BY <1>1, <1>2, <1>3, <1>4, <1>5, <1>6, <1>7, <1>8 DEF Next, Step

\* Every operation leaves every call in _entries in one pair of hands.
LEMMA OwnerStep == TypeOK /\ StagesInv /\ OneOwner /\ [Next]_vars => OneOwner'
<1> SUFFICES ASSUME TypeOK, StagesInv, OneOwner, [Next]_vars
             PROVE  OneOwner'
  OBVIOUS
<1>0. StageTypes
  BY DEF TypeOK, StageTypes
<1> USE <1>0 DEF StageTypes, StagesInv, Coherent, OneOwner, InTurn, InBackground, Abandoned,
            Stopped, Move, Supervise, owners, work, deadlines, signals, settings,
            bookkeeping, shutdown, history
<1>1. ASSUME NEW c \in Calls, Execute(c) \/ ToolStep(c)
      PROVE  OneOwner'
  <2>1. CASE Execute(c)
    BY <2>1 DEF Execute
  <2>2. CASE ToolStreams(c)
    BY <2>2 DEF ToolStreams
  <2>3. CASE \/ ArmKill(c) \/ SetupBegins(c) \/ SetupEnds(c) \/ ToolEnds(c)
             \/ StreamCloses(c)
    <3>1. UNCHANGED <<turn, supervisor, entries>>
      BY <2>3 DEF ArmKill, SetupBegins, SetupEnds, ToolEnds, StreamCloses
    <3> QED BY <3>1
  <2> QED BY <1>1, <2>1, <2>2, <2>3 DEF ToolStep
<1>2. ASSUME NEW c \in Calls, TurnStep(c)
      PROVE  OneOwner'
  <2>1. CASE \/ TakesChunk(c) \/ Resumes(c) \/ TurnNoticesChange(c)
             \/ TurnTimesOut(c) \/ TurnCancelled(c) \/ StreamClosed(c)
    BY <2>1 DEF TakesChunk, Resumes, TurnNoticesChange, NoticesChange, TurnTimesOut,
                TimesOut, TurnCancelled, Grace, StreamClosed
  <2>2. CASE KillReached(c) \/ KeepForeground(c) \/ DeadlineCancels(c)
    BY <2>2 DEF KillReached, KeepForeground, DeadlineCancels, Reached, Grace
  <2>3. CASE BeginOffload(c)
    BY <2>3 DEF BeginOffload, HandOver, Reached
  <2>4. CASE GraceEnds(c) \/ GraceExpires(c) \/ GraceAborted(c)
    BY <2>4 DEF GraceEnds, GraceExpires, GraceAborted
  <2>5. CASE Answer(c) \/ Reaped(c)
    BY <2>5 DEF Answer, Reaped, Finalize
  <2> QED BY <1>2, <2>1, <2>2, <2>3, <2>4, <2>5 DEF TurnStep
<1>3. ASSUME NEW c \in Calls, TurnEnds(c) \/ TurnEndsAgain(c)
      PROVE  OneOwner'
  BY <1>3 DEF TurnEnds, TurnEndsAgain
<1>4. ASSUME NEW c \in Calls, SupervisorStep(c)
      PROVE  OneOwner'
  <2>1. CASE \/ SupervisorNoticesChange(c) \/ SupervisorTimesOut(c)
             \/ SupervisorContinues(c) \/ SupervisorKills(c) \/ SupervisorCancelled(c)
    BY <2>1 DEF SupervisorNoticesChange, NoticesChange, Again, SupervisorTimesOut,
       TimesOut, SupervisorContinues, SupervisorKills, SupervisorCancelled, Grace
  <2>2. CASE SupervisorJoins(c) \/ SupervisorForces(c) \/ SupervisorAborted(c)
    BY <2>2 DEF SupervisorJoins, SupervisorForces, SupervisorAborted
  <2>3. CASE SupervisorFinalizes(c) \/ Report(c)
    BY <2>3 DEF SupervisorFinalizes, Finalize, Report
  <2> QED BY <1>4, <2>1, <2>2, <2>3 DEF SupervisorStep
<1>5. ASSUME NEW c \in Calls, Intervention(c)
      PROVE  OneOwner'
  BY <1>5 DEF Intervention, RequestOffload, Cancel, ForceCancel, ExtendOffload,
     ExtendKill, Reconfigure, ShutdownNext
<1>6. ASSUME NEW c \in Calls, OffloadPasses(c) \/ KillPasses(c)
      PROVE  OneOwner'
  BY <1>6 DEF OffloadPasses, KillPasses
<1>7. CASE Shutdown
  BY <1>7 DEF Shutdown
<1>8. CASE UNCHANGED vars
  BY <1>8 DEF vars
<1> QED BY <1>1, <1>2, <1>3, <1>4, <1>5, <1>6, <1>7, <1>8 DEF Next, Step

\* No operation takes the kill deadline away from a call in the background: the
\* two that could are the move there, which sets one, and extend_kill_deadline.
LEMMA BoundedStep == TypeOK /\ BackgroundIsBounded /\ [Next]_vars => BackgroundIsBounded'
<1> SUFFICES ASSUME TypeOK, BackgroundIsBounded, [Next]_vars
             PROVE  BackgroundIsBounded'
  OBVIOUS
<1> USE DEF TypeOK, BackgroundIsBounded, Kill, Offload, owners, deadlines, settings,
            bookkeeping
<1>1. ASSUME NEW c \in Calls, Execute(c) \/ ToolStep(c)
      PROVE  BackgroundIsBounded'
  BY <1>1 DEF Execute, ToolStep, ArmKill, ToolStreams, SetupBegins, SetupEnds, ToolEnds,
     Restore, StreamCloses
<1>2. ASSUME NEW c \in Calls, TurnStep(c)
      PROVE  BackgroundIsBounded'
  <2>1. CASE BeginOffload(c)
    BY <2>1 DEF BeginOffload, TopUp, HandOver
  <2>2. CASE Answer(c) \/ Reaped(c)
    BY <2>2 DEF Answer, Reaped, Finalize
  <2>3. CASE /\ TurnStep(c)
             /\ ~BeginOffload(c) /\ ~Answer(c) /\ ~Reaped(c)
    BY <2>3 DEF TurnStep, TakesChunk, Resumes, TurnNoticesChange, NoticesChange,
       TurnTimesOut, TimesOut, TurnCancelled, StreamClosed, KillReached, KeepForeground,
       DeadlineCancels, GraceEnds, GraceExpires, GraceAborted
  <2> QED BY <1>2, <2>1, <2>2, <2>3
<1>3. ASSUME NEW c \in Calls, TurnEnds(c) \/ TurnEndsAgain(c)
      PROVE  BackgroundIsBounded'
  BY <1>3 DEF TurnEnds, TurnEndsAgain
<1>4. ASSUME NEW c \in Calls, SupervisorStep(c)
      PROVE  BackgroundIsBounded'
  BY <1>4 DEF SupervisorStep, SupervisorNoticesChange, NoticesChange, SupervisorTimesOut,
     TimesOut, SupervisorContinues, SupervisorKills, SupervisorCancelled, SupervisorJoins,
     SupervisorForces, SupervisorAborted, SupervisorFinalizes, Finalize, Report
<1>5. ASSUME NEW c \in Calls, Intervention(c)
      PROVE  BackgroundIsBounded'
  <2>1. CASE RequestOffload(c)
    BY <2>1 DEF RequestOffload, TopUp
  <2>2. CASE ExtendKill(c)
    BY <2>2 DEF ExtendKill
  <2>3. CASE Intervention(c) /\ ~RequestOffload(c) /\ ~ExtendKill(c)
    BY <2>3 DEF Intervention, Cancel, ForceCancel, ExtendOffload, Reconfigure, ShutdownNext
  <2> QED BY <1>5, <2>1, <2>2, <2>3
<1>6. ASSUME NEW c \in Calls, OffloadPasses(c) \/ KillPasses(c)
      PROVE  BackgroundIsBounded'
  BY <1>6 DEF OffloadPasses, KillPasses
<1>7. CASE Shutdown
  BY <1>7 DEF Shutdown
<1>8. CASE UNCHANGED vars
  BY <1>8 DEF vars
<1> QED BY <1>1, <1>2, <1>3, <1>4, <1>5, <1>6, <1>7, <1>8 DEF Next, Step

\* The inductive invariant holds in every reachable state.
THEOREM Safe == Spec => []SafetyInv
<1>1. SafetyInv /\ [Next]_vars => SafetyInv'
  BY TypeStep, StagesStep, OwnerStep, BoundedStep DEF SafetyInv
<1> QED BY SafetyInit, <1>1, PTL DEF Spec

\* "single owner of all in-flight tool calls": a call in _entries is in the
\* hands of its turn or of its supervisor, never of both.
THEOREM EveryCallHasOneOwner == Spec => []OneOwner
<1>1. SafetyInv => OneOwner
  BY DEF SafetyInv
<1> QED BY Safe, <1>1, PTL

\* "Offload must not create unbounded background work": whatever is extended or
\* reconfigured, a call in the background has a kill deadline.
THEOREM BackgroundCallsAreBounded == Spec => []BackgroundIsBounded
<1>1. SafetyInv => BackgroundIsBounded
  BY DEF SafetyInv
<1> QED BY Safe, <1>1, PTL

\* _finalize_completed is never reached before the tool has ended.
THEOREM CompletedCallsHaveEnded == Spec => []CompletedHasEnded
<1>1. SafetyInv => CompletedHasEnded
  BY DEF SafetyInv, TypeOK, StagesInv, Coherent, OneOwner, CompletedHasEnded, InTurn,
         InBackground, Abandoned
<1> QED BY Safe, <1>1, PTL

\* No call is reported twice, nor both answered and reported.
THEOREM AgentsAreToldOnce == Spec => []ToldOnce
<1>1. SafetyInv => ToldOnce
  <2> SUFFICES ASSUME StagesInv, NEW c \in Calls
               PROVE  /\ hints[c] <= 1
                      /\ hints[c] = 1 => /\ turn[c] \in {"offloaded", "raised"}
                                        /\ status[c] = "completed"
    BY DEF SafetyInv, ToldOnce
  <2>1. Coherent(c)
    BY DEF StagesInv
  <2>2. CASE supervisor[c] = "over"
    <3>1. hints[c] = 1 /\ turn[c] \in {"offloaded", "raised"} /\ status[c] = "completed"
      BY <2>1, <2>2 DEF Coherent
    <3> QED BY <3>1
  <2>3. CASE supervisor[c] # "over"
    <3>1. hints[c] = 0
      BY <2>1, <2>3 DEF Coherent
    <3> QED BY <3>1
  <2> QED BY <2>2, <2>3
<1> QED BY Safe, <1>1, PTL

-----------------------------------------------------------------------------
(* Deadlines wake the task that waits.                                     *)

\* A call has no deadline before it begins.
WakeupInv ==
    /\ \A c \in Calls : turn[c] = "idle" => offload[c] = "none" /\ kill[c] = "none"
    /\ NoLostWakeup

\* Whoever sets a deadline sets the event of the change, whoever begins to wait
\* takes account of the deadlines there are, and time creates none.
LEMMA WakeupStep ==
    TypeOK /\ StagesInv /\ OneOwner /\ WakeupInv /\ [Next]_vars => WakeupInv'
<1> SUFFICES ASSUME TypeOK, StagesInv, OneOwner, WakeupInv, [Next]_vars
             PROVE  WakeupInv'
  OBVIOUS
<1> DEFINE Types == /\ turn \in [Calls -> Turn]
                    /\ supervisor \in [Calls -> Supervisor]
                    /\ offload \in [Calls -> Offload]
                    /\ kill \in [Calls -> Kill]
                    /\ armed \in [Calls -> BOOLEAN]
                    /\ changed \in [Calls -> BOOLEAN]
<1>8. Types
  BY DEF TypeOK
<1>0. /\ \A c \in Calls : turn[c] = "idle" => c \notin entries /\ tool[c] = "none"
      /\ \A c \in Calls : ~(turn[c] = "waiting" /\ supervisor[c] # "none")
  BY DEF StagesInv, Coherent, OneOwner, InTurn, InBackground, Abandoned
<1> USE <1>8 DEF WakeupInv, NoLostWakeup, Move, Supervise, owners, work, deadlines,
            signals, settings, bookkeeping, shutdown, history
<1>1. ASSUME NEW c \in Calls, Execute(c) \/ ToolStep(c)
      PROVE  WakeupInv'
  <2>1. CASE Execute(c)
    BY <1>0, <2>1 DEF Execute
  <2>2. CASE SetupBegins(c)
    BY <1>0, <2>2 DEF SetupBegins
  <2>3. CASE SetupEnds(c)
    BY <1>0, <2>3 DEF SetupEnds, Restore
  <2>4. CASE ToolEnds(c)
    BY <1>0, <2>4 DEF ToolEnds, Restore
  <2>5. CASE ArmKill(c) \/ ToolStreams(c) \/ StreamCloses(c)
    BY <1>0, <2>5 DEF ArmKill, ToolStreams, StreamCloses
  <2> QED BY <1>1, <2>1, <2>2, <2>3, <2>4, <2>5 DEF ToolStep
<1>2. ASSUME NEW c \in Calls, TurnStep(c)
      PROVE  WakeupInv'
  <2>0. CASE TakesChunk(c)
    BY <1>0, <2>0 DEF TakesChunk
  <2>1. CASE TurnNoticesChange(c)
    BY <1>0, <2>1 DEF TurnNoticesChange, NoticesChange, Rearm
  <2>2. CASE BeginOffload(c)
    BY <1>0, <2>2 DEF BeginOffload, HandOver, Reached, Noticed, TopUp, Rearm
  <2>3. CASE KeepForeground(c)
    BY <1>0, <2>3 DEF KeepForeground, Reached, Rearm
  <2>4. CASE Resumes(c)
    BY <1>0, <2>4 DEF Resumes, Rearm
  <2>5. CASE KillReached(c) \/ DeadlineCancels(c)
    BY <1>0, <2>5 DEF KillReached, DeadlineCancels, Reached, Noticed, Grace
  <2>6. CASE \/ TurnTimesOut(c) \/ TurnCancelled(c) \/ StreamClosed(c) \/ GraceEnds(c)
             \/ GraceExpires(c) \/ GraceAborted(c) \/ Answer(c) \/ Reaped(c)
    BY <2>6 DEF TurnTimesOut, TimesOut, TurnCancelled, StreamClosed, Grace, GraceEnds,
       GraceExpires, GraceAborted, Answer, Reaped
  <2> QED BY <1>2, <2>0, <2>1, <2>2, <2>3, <2>4, <2>5, <2>6 DEF TurnStep
<1>3. ASSUME NEW c \in Calls, TurnEnds(c) \/ TurnEndsAgain(c)
      PROVE  WakeupInv'
  BY <1>3 DEF TurnEnds, TurnEndsAgain
<1>4. ASSUME NEW c \in Calls, SupervisorStep(c)
      PROVE  WakeupInv'
  <2>1. CASE SupervisorNoticesChange(c)
    BY <1>0, <2>1 DEF SupervisorNoticesChange, NoticesChange, Rearm
  <2>2. CASE SupervisorContinues(c)
    BY <1>0, <2>2 DEF SupervisorContinues, Rearm
  <2>3. CASE SupervisorStep(c) /\ ~SupervisorNoticesChange(c) /\ ~SupervisorContinues(c)
    BY <2>3 DEF SupervisorStep, SupervisorTimesOut, TimesOut, SupervisorKills,
       SupervisorCancelled, SupervisorJoins, SupervisorForces, SupervisorAborted,
       SupervisorFinalizes, Report, Grace
  <2> QED BY <1>4, <2>1, <2>2, <2>3
<1>5. ASSUME NEW c \in Calls, Intervention(c)
      PROVE  WakeupInv'
  <2>1. CASE RequestOffload(c) \/ ExtendOffload(c) \/ ExtendKill(c)
    BY <1>0, <2>1 DEF RequestOffload, TopUp, ExtendOffload, ExtendKill, Requested
  <2>2. CASE Cancel(c) \/ ForceCancel(c) \/ Reconfigure(c) \/ ShutdownNext(c)
    BY <2>2 DEF Cancel, ForceCancel, Reconfigure, ShutdownNext
  <2> QED BY <1>5, <2>1, <2>2 DEF Intervention
<1>6. ASSUME NEW c \in Calls, OffloadPasses(c) \/ KillPasses(c)
      PROVE  WakeupInv'
  BY <1>6 DEF OffloadPasses, KillPasses
<1>7. CASE Shutdown \/ UNCHANGED vars
  BY <1>7 DEF Shutdown, vars
<1> QED BY <1>1, <1>2, <1>3, <1>4, <1>5, <1>6, <1>7 DEF Next, Step

\* Neither the turn nor the supervisor of a call sleeps through a deadline, when
\* a request, the tool or the other one of them moves it while it falls asleep.
THEOREM DeadlinesWake == Spec => []NoLostWakeup
<1>1. Init => WakeupInv
  BY DEF Init, WakeupInv, NoLostWakeup
<1>2. SafetyInv /\ WakeupInv /\ [Next]_vars => WakeupInv'
  BY WakeupStep DEF SafetyInv
<1>3. WakeupInv => NoLostWakeup
  BY DEF WakeupInv
<1> QED BY Safe, <1>1, <1>2, <1>3, PTL DEF Spec

-----------------------------------------------------------------------------
(* The coordinator implements the contract of ToolCall.                    *)

Phases == [c \in Calls |-> Phase(c)]
Ended == {c \in Calls : Stopped(c)}

\* Before its first call, the coordinator is where the contract begins.
LEMMA ContractInit == Init => Contract!Init
BY DEF Init, Contract!Init, Phase, Stopped, InTurn, InBackground, Abandoned

\* Where a call stands for its turn and its supervisor determines its phase.
PhaseIs(c) ==
    /\ turn[c] = "idle" => Phase(c) = "new"
    /\ InTurn(c) => Phase(c) = "foreground"
    /\ turn[c] = "answered" => Phase(c) = "told"
    /\ turn[c] = "lost" => Phase(c) = "abandoned"
    /\ supervisor[c] = "none" /\ turn[c] = "raised" => Phase(c) = "given up"
    /\ InBackground(c) => Phase(c) = "background"
    /\ supervisor[c] = "reporting" => Phase(c) = "ended"
    /\ supervisor[c] = "over" => Phase(c) = "told"
    /\ supervisor[c] = "dead" => Phase(c) = "abandoned"

\* That holds before and after a step.
LEMMA PhasesAre ==
    ASSUME NEW c \in Calls
    PROVE  (Coherent(c) => PhaseIs(c)) /\ (Coherent(c)' => PhaseIs(c)')
<1>1. Coherent(c) => PhaseIs(c)
  BY DEF PhaseIs, Coherent, Phase, InTurn, InBackground, Abandoned
<1>2. Coherent(c)' => PhaseIs(c)'
  BY DEF PhaseIs, Coherent, Phase, InTurn, InBackground, Abandoned
<1> QED BY <1>1, <1>2

\* The step moves c, for its turn or for its supervisor.
Moves(c) ==
    \/ UNCHANGED supervisor /\ turn' = [turn EXCEPT ![c] = turn'[c]]
    \/ UNCHANGED turn /\ supervisor' = [supervisor EXCEPT ![c] = supervisor'[c]]
    \/ /\ turn' = [turn EXCEPT ![c] = turn'[c]]
       /\ supervisor' = [supervisor EXCEPT ![c] = supervisor'[c]]

\* A step that moves one call changes the phase of that call only.
LEMMA PhaseChanges ==
    ASSUME NEW c \in Calls, TypeOK, Moves(c)
    PROVE  Phases' = [Phases EXCEPT ![c] = Phase(c)']
<1>1. ASSUME NEW d \in Calls, d # c
      PROVE  turn'[d] = turn[d] /\ supervisor'[d] = supervisor[d]
  BY <1>1 DEF TypeOK, Moves
<1>2. ASSUME NEW d \in Calls, d # c
      PROVE  Phase(d)' = Phase(d)
  BY <1>1, <1>2 DEF Phase, InTurn, InBackground, Abandoned
<1> QED BY <1>2 DEF Phases

\* A step that moves one call, but not to another phase, changes no phase.
LEMMA PhaseStays ==
    ASSUME NEW c \in Calls, TypeOK, Moves(c), Phase(c)' = Phase(c)
    PROVE  Phases' = Phases
BY PhaseChanges DEF Phases

\* A step that moves no call changes no phase.
LEMMA NoMove ==
    ASSUME UNCHANGED owners
    PROVE  Phases' = Phases
BY DEF Phases, Phase, InTurn, InBackground, Abandoned, owners

\* Cancelling the task of a tool ends the tool, or does not yet.
LEMMA ForceEnds ==
    ASSUME NEW c \in Calls, TypeOK, Coherent(c), ForceTool(c)
    PROVE  \/ Ended' = Ended
           \/ c \notin Ended /\ Ended' = Ended \cup {c} /\ turn[c] # "idle"
BY DEF TypeOK, Coherent, ForceTool, Ended, Stopped, Tool

\* The phase of c becomes another one.
Becomes(c, from, to) == Phases[c] = from /\ Phases' = [Phases EXCEPT ![c] = to]

\* Every step of the coordinator is one of the contract, or none of its business.
LEMMA ContractStep ==
    TypeOK /\ StagesInv /\ StagesInv' /\ [Next]_vars => [Contract!Next]_<<Phases, Ended>>
<1> SUFFICES ASSUME TypeOK, StagesInv, StagesInv', [Next]_vars
             PROVE  [Contract!Next]_<<Phases, Ended>>
  OBVIOUS
<1> USE DEF Move, Supervise, work
<1>0. ASSUME NEW c \in Calls
      PROVE  /\ Coherent(c) /\ PhaseIs(c) /\ Coherent(c)' /\ PhaseIs(c)'
             /\ Phases[c] = Phase(c)
             /\ turn[c] \in Turn /\ supervisor[c] \in Supervisor
  BY <1>0, PhasesAre DEF StagesInv, Phases, TypeOK
<1>1. ASSUME UNCHANGED tool
      PROVE  Ended' = Ended
  BY <1>1 DEF Ended, Stopped
<1>2. ASSUME NEW c \in Calls, ForceTool(c), Phases' = Phases
      PROVE  [Contract!Next]_<<Phases, Ended>>
  <2>1. CASE Ended' = Ended
    BY <1>2, <2>1
  <2>2. CASE c \notin Ended /\ Ended' = Ended \cup {c} /\ turn[c] # "idle"
    <3>1. Phase(c) # "new"
      BY <2>2, <1>0 DEF Phase, InTurn, InBackground, Abandoned, Turn, Supervisor, Coherent
    <3>2. Contract!ToolEnds(c)
      BY <1>0, <1>2, <2>2, <3>1 DEF Contract!ToolEnds, Phases, Ended
    <3> QED BY <3>2 DEF Contract!Next
  <2> QED BY <1>0, <1>2, <2>1, <2>2, ForceEnds
<1>3. ASSUME NEW c \in Calls, UNCHANGED owners, UNCHANGED tool
      PROVE  [Contract!Next]_<<Phases, Ended>>
  BY <1>1, <1>3, NoMove
<1>4. ASSUME NEW c \in Calls, Moves(c),
             \/ InTurn(c) /\ InTurn(c)'
             \/ InBackground(c) /\ InBackground(c)'
      PROVE  Phases' = Phases
  BY <1>0, <1>4, PhaseStays DEF PhaseIs
<1>5. ASSUME NEW c \in Calls, Execute(c)
      PROVE  [Contract!Next]_<<Phases, Ended>>
  <2>1. Moves(c) /\ turn[c] = "idle" /\ InTurn(c)'
    BY <1>5 DEF Execute, Moves, InTurn, TypeOK
  <2>2. Phase(c) = "new" /\ Phase(c)' = "foreground"
    BY <1>0, <2>1 DEF PhaseIs
  <2>3. Ended' = Ended
    BY <1>0, <1>5, <2>1 DEF Execute, Ended, Stopped, Coherent, TypeOK
  <2>4. Contract!Start(c)
    BY <1>0, <2>1, <2>2, <2>3, PhaseChanges DEF Contract!Start, Contract!Become, Phases, Ended
  <2> QED BY <2>4 DEF Contract!Next
<1>6. ASSUME NEW c \in Calls, StreamCloses(c)
      PROVE  [Contract!Next]_<<Phases, Ended>>
  <2>1. Phases' = Phases
    BY <1>6, NoMove DEF StreamCloses
  <2>2. c \notin Ended /\ Ended' = Ended \cup {c} /\ turn[c] # "idle"
    BY <1>0, <1>6 DEF StreamCloses, Ended, Stopped, TypeOK, Tool, Coherent
  <2>3. Phase(c) # "new"
    BY <2>2, <1>0 DEF Phase, InTurn, InBackground, Abandoned, Turn, Supervisor, Coherent
  <2>4. Contract!ToolEnds(c)
    BY <1>0, <2>1, <2>2, <2>3 DEF Contract!ToolEnds, Phases, Ended
  <2> QED BY <2>4 DEF Contract!Next
<1>7. ASSUME NEW c \in Calls, ToolEnds(c)
      PROVE  [Contract!Next]_<<Phases, Ended>>
  <2>1. Phases' = Phases
    BY <1>7, NoMove DEF ToolEnds
  <2>2. Ended' = Ended
    BY <1>7 DEF ToolEnds, Ended, Stopped, TypeOK
  <2> QED BY <2>1, <2>2
<1>8. ASSUME NEW c \in Calls, TurnStep(c) \/ TurnEnds(c) \/ TurnEndsAgain(c)
      PROVE  [Contract!Next]_<<Phases, Ended>>
  <2>1. CASE \/ TakesChunk(c) \/ Resumes(c) \/ TurnNoticesChange(c) \/ TurnTimesOut(c)
             \/ TurnCancelled(c) \/ StreamClosed(c) \/ KillReached(c) \/ KeepForeground(c)
             \/ DeadlineCancels(c) \/ GraceEnds(c)
    <3>1. UNCHANGED tool /\ Moves(c) /\ InTurn(c) /\ InTurn(c)'
      BY <2>1 DEF TakesChunk, Resumes, TurnNoticesChange, NoticesChange, TurnTimesOut,
         TimesOut, TurnCancelled, Grace, StreamClosed, KillReached, KeepForeground,
         DeadlineCancels, Reached, GraceEnds, TypeOK, Moves, InTurn
    <3> QED BY <1>1, <1>4, <3>1
  <2>2. CASE BeginOffload(c)
    <3>1. UNCHANGED tool /\ Moves(c) /\ InTurn(c) /\ InBackground(c)'
      BY <2>2 DEF BeginOffload, HandOver, Reached, Moves, InTurn, InBackground, TypeOK
    <3>2. Contract!Offload(c)
      BY <1>0, <1>1, <3>1, PhaseChanges
      DEF PhaseIs, Contract!Offload, Contract!Become, Phases, Ended
    <3> QED BY <3>2 DEF Contract!Next
  <2>3. CASE GraceExpires(c)
    <3>1. Moves(c) /\ InTurn(c) /\ InTurn(c)' /\ ForceTool(c)
      BY <2>3 DEF GraceExpires, Moves, InTurn, TypeOK
    <3> QED BY <1>2, <1>4, <3>1
  <2>4. CASE GraceAborted(c) \/ TurnEndsAgain(c)
    <3>1. CASE InTurn(c)'
      <4>1. UNCHANGED tool /\ Moves(c) /\ InTurn(c)
        BY <2>4, <3>1 DEF GraceAborted, TurnEndsAgain, Moves, InTurn, TypeOK
      <4> QED BY <1>1, <1>4, <3>1, <4>1
    <3>2. CASE ~InTurn(c)'
      <4>1. Moves(c) /\ InTurn(c) /\ turn'[c] = "lost" /\ (UNCHANGED tool \/ ForceTool(c))
        BY <2>4, <3>2 DEF GraceAborted, TurnEndsAgain, Moves, InTurn, TypeOK
      <4>2. Ended' \in {Ended, Ended \cup {c}}
        BY <1>0, <1>1, <4>1, ForceEnds
      <4>3. Contract!Abandon(c)
        BY <1>0, <4>1, <4>2, PhaseChanges
        DEF PhaseIs, Contract!Abandon, Contract!Become, Phases, Ended
      <4> QED BY <4>3 DEF Contract!Next
    <3> QED BY <3>1, <3>2
  <2>5. CASE Answer(c)
    <3>1. UNCHANGED tool /\ Moves(c) /\ InTurn(c) /\ turn'[c] = "answered" /\ c \in Ended
      BY <2>5 DEF Answer, Moves, InTurn, TypeOK, Ended
    <3>2. Contract!Answer(c)
      BY <1>0, <1>1, <3>1, PhaseChanges
      DEF PhaseIs, Contract!Answer, Contract!Become, Phases, Ended
    <3> QED BY <3>2 DEF Contract!Next
  <2>6. CASE Reaped(c)
    <3>1. /\ UNCHANGED tool /\ Moves(c) /\ InTurn(c) /\ turn'[c] = "raised"
          /\ supervisor'[c] = "none" /\ c \in Ended
      BY <1>0, <2>6 DEF Reaped, Moves, InTurn, TypeOK, Ended, Coherent
    <3>2. Contract!GiveUp(c)
      BY <1>0, <1>1, <3>1, PhaseChanges
      DEF PhaseIs, Contract!GiveUp, Contract!Become, Phases, Ended
    <3> QED BY <3>2 DEF Contract!Next
  <2>7. CASE TurnEnds(c)
    <3>1. UNCHANGED tool /\ Moves(c)
      BY <2>7 DEF TurnEnds, Moves, TypeOK
    <3>2. CASE InTurn(c)
      <4>1. InTurn(c)'
        BY <2>7, <3>2 DEF TurnEnds, InTurn, TypeOK
      <4> QED BY <1>1, <1>4, <3>1, <3>2, <4>1
    <3>3. CASE ~InTurn(c)
      <4>1. turn[c] = "offloaded" /\ turn'[c] = "raised" /\ UNCHANGED supervisor
        BY <2>7, <3>3 DEF TurnEnds, InTurn, TypeOK
      <4>2. Phase(c)' = Phase(c)
        BY <1>0, <4>1 DEF PhaseIs, Coherent, InBackground, Supervisor
      <4> QED BY <1>1, <3>1, <4>2, PhaseStays
    <3> QED BY <3>2, <3>3
  <2> QED BY <1>8, <2>1, <2>2, <2>3, <2>4, <2>5, <2>6, <2>7 DEF TurnStep
<1>9. ASSUME NEW c \in Calls, SupervisorStep(c)
      PROVE  [Contract!Next]_<<Phases, Ended>>
  <2>1. CASE \/ SupervisorNoticesChange(c) \/ SupervisorTimesOut(c)
             \/ SupervisorContinues(c) \/ SupervisorKills(c) \/ SupervisorCancelled(c)
             \/ SupervisorJoins(c)
    <3>1. UNCHANGED tool /\ Moves(c) /\ InBackground(c) /\ InBackground(c)'
      BY <2>1 DEF SupervisorNoticesChange, NoticesChange, Again, SupervisorTimesOut,
         TimesOut, SupervisorContinues, SupervisorKills, SupervisorCancelled, SupervisorJoins,
         Grace, Moves, InBackground, TypeOK
    <3> QED BY <1>1, <1>4, <3>1
  <2>2. CASE SupervisorForces(c)
    <3>1. Moves(c) /\ InBackground(c) /\ InBackground(c)' /\ ForceTool(c)
      BY <2>2 DEF SupervisorForces, Moves, InBackground, TypeOK
    <3> QED BY <1>2, <1>4, <3>1
  <2>3. CASE SupervisorAborted(c)
    <3>1. UNCHANGED tool /\ Moves(c) /\ InBackground(c) /\ supervisor'[c] = "dead"
      BY <2>3 DEF SupervisorAborted, Moves, InBackground, TypeOK
    <3>2. Contract!Abandon(c)
      BY <1>0, <1>1, <3>1, PhaseChanges
      DEF PhaseIs, Contract!Abandon, Contract!Become, Phases, Ended
    <3> QED BY <3>2 DEF Contract!Next
  <2>4. CASE SupervisorFinalizes(c)
    <3>1. /\ UNCHANGED tool /\ Moves(c) /\ InBackground(c)
          /\ supervisor'[c] = "reporting" /\ c \in Ended
      BY <2>4 DEF SupervisorFinalizes, Moves, InBackground, TypeOK, Ended
    <3>2. Contract!Finish(c)
      BY <1>0, <1>1, <3>1, PhaseChanges
      DEF PhaseIs, Contract!Finish, Contract!Become, Phases, Ended
    <3> QED BY <3>2 DEF Contract!Next
  <2>5. CASE Report(c)
    <3>1. /\ UNCHANGED tool /\ Moves(c) /\ supervisor[c] = "reporting"
          /\ supervisor'[c] = "over"
      BY <2>5 DEF Report, Moves, TypeOK
    <3>2. Contract!Notify(c)
      BY <1>0, <1>1, <3>1, PhaseChanges
      DEF PhaseIs, Contract!Notify, Contract!Become, Phases, Ended
    <3> QED BY <3>2 DEF Contract!Next
  <2> QED BY <1>9, <2>1, <2>2, <2>3, <2>4, <2>5 DEF SupervisorStep
<1>10. ASSUME NEW c \in Calls, Intervention(c)
       PROVE  [Contract!Next]_<<Phases, Ended>>
  <2>1. CASE ForceCancel(c) \/ ShutdownNext(c)
    BY <1>2, <2>1, NoMove DEF ForceCancel, ShutdownNext
  <2>2. CASE \/ RequestOffload(c) \/ Cancel(c) \/ ExtendOffload(c) \/ ExtendKill(c)
             \/ Reconfigure(c)
    BY <1>3, <2>2 DEF RequestOffload, Cancel, ExtendOffload, ExtendKill, Reconfigure
  <2> QED BY <1>10, <2>1, <2>2 DEF Intervention
<1>11. ASSUME NEW c \in Calls,
              \/ ArmKill(c) \/ SetupBegins(c) \/ SetupEnds(c)
              \/ OffloadPasses(c) \/ KillPasses(c)
       PROVE  [Contract!Next]_<<Phases, Ended>>
  BY <1>3, <1>11 DEF ArmKill, SetupBegins, SetupEnds, OffloadPasses, KillPasses
<1>12. ASSUME NEW c \in Calls, ToolStreams(c)
       PROVE  [Contract!Next]_<<Phases, Ended>>
  <2>1. UNCHANGED tool /\ Moves(c) /\ InTurn(c) /\ InTurn(c)'
    BY <1>12 DEF ToolStreams, Moves, InTurn, TypeOK
  <2> QED BY <1>1, <1>4, <2>1
<1>13. CASE Shutdown \/ UNCHANGED vars
  <2>1. UNCHANGED owners /\ UNCHANGED tool
    BY <1>13 DEF Shutdown, vars, owners
  <2> QED BY <1>1, <2>1, NoMove
<1> QED BY <1>5, <1>6, <1>7, <1>8, <1>9, <1>10, <1>11, <1>12, <1>13
        DEF Next, Step, ToolStep

\* The coordinator implements the contract of ToolCall.
THEOREM ContractIsKept == Spec => KeepsContract
<1>1. SafetyInv /\ SafetyInv' /\ [Next]_vars => [Contract!Next]_<<Phases, Ended>>
  BY ContractStep DEF SafetyInv
<1> QED BY Safe, ContractInit, <1>1, PTL
        DEF Spec, KeepsContract, Contract!Spec, Phases, Ended

=============================================================================
