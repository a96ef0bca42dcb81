----------------------------- MODULE RunnerProofs -----------------------------
(***************************************************************************)
(* Proofs about Runner, for every number of integrations and hooks and     *)
(* every place of the server among them.                                   *)
(***************************************************************************)
EXTENDS Runner, TLAPS

BeforeStart  == {"loading", "preparing", "composing"}
BeforeUnwind == StartupPhases \cup {"serving", "closing"}

\* Where Run stands, and which context the OnStop hooks got, if any.
PhaseInv ==
  /\ phase = "loading" => prepared = 0
  /\ phase \in BeforeStart => started = 0
  /\ phase \in {"initializing", "opening", "serving", "closing"} => started = Hooks
  /\ phase \in BeforeUnwind => unwinding = "none" /\ stopCtx = "none"
  /\ phase = "rollback" => unwinding = "rollback"
  /\ phase = "stopping" => unwinding = "stop"
  /\ unwinding = "none" /\ phase \in {"cleaning", "returned"} => started = 0
  /\ unwinding = "none" => stopCtx = "none"
  /\ unwinding = "rollback" => stopCtx # "expired"
  /\ phase \in {"loading", "returned"} => holds = {}

\* A hook is stopped after all those started after it.
HookInv ==
  /\ unwinding = "none" => \A h \in 1..Hooks : hook[h] = IF h <= started THEN "up" ELSE "down"
  /\ \A h \in 1..Hooks : hook[h] # "down" => \A k \in 1..(h - 1) : hook[k] = "up"

\* The server's loop, its result and its Stop, against the state of its hook.
ServerInv ==
  /\ unwinding = "none" /\ hook[ServerHook] = "down" => loop = "unborn"
  /\ loop = "unborn" => conn = "none"
  /\ listening => loop = "serving" /\ hook[ServerHook] = "up"
  /\ serverStop # "idle" <=> hook[ServerHook] = "stopping"
  /\ done = "empty" <=> loop \in {"unborn", "serving"}
  /\ loop \in {"failed", "closed"} => done = "error"
  /\ hook[ServerHook] = "down" /\ done = "error" => err

\* What the server's Stop has achieved, unless its context was done.
DrainInv ==
  InBudget =>
    /\ serverStop = "join" \/ hook[ServerHook] = "down" => conn = "none"
    /\ hook[ServerHook] = "down" => loop # "serving"
    /\ phase \in {"cleaning", "returned"} => AllDown

\* Who may admit requests and who may still handle one.
AdmissionInv ==
  /\ admission => phase \in {"serving", "closing"}
  /\ conn = "handling" \/ loose =>
       phase \notin StartupPhases \cup {"rollback"} /\ reason # "startup_failure"

\* What the result owes to what happened.
ResultInv ==
  /\ phase \in StartupPhases \cup {"serving"} => reason = "none"
  /\ phase = "closing" => reason # "startup_failure"
  /\ phase = "rollback" => reason = "startup_failure"
  /\ phase \in {"closing", "stopping", "cleaning", "returned"} => reason # "none"
  /\ reason = "startup_failure" => err
  /\ phase \in {"cleaning", "returned"} => err \/ AllDown
  /\ reason = "context_cancelled" => cancelled
  /\ reason \in {"requested", "runtime_failure"} =>
       /\ request # "none"
       /\ reason = IF request = "failure" THEN "runtime_failure" ELSE "requested"
       /\ restart = (request = "restart")

\* The inductive invariant: who unwinds and in which order, the server's two halves,
\* and what the result owes to what happened.
Inductive ==
  TypeOK /\ PhaseInv /\ HookInv /\ ServerInv /\ DrainInv /\ AdmissionInv /\ ResultInv

\* Every step keeps the types.
LEMMA TypeStep ==
  ASSUME TypeOK
  PROVE  [Next]_vars => TypeOK'
<1>. USE RunnerAssumption
<1>. USE DEF TypeOK, RunTypes, FxTypes, ContextTypes, ServerTypes, runVars, fxVars, ctxVars,
     sharedVars, serverVars, resultVars, StartupPhases, LivePhases
<1>1. ASSUME LoadConfig PROVE TypeOK'
  <2>1. RunTypes'
    BY <1>1 DEF LoadConfig, StartupFailure
  <2>2. FxTypes'
    BY <1>1 DEF LoadConfig, StartupFailure
  <2>3. ContextTypes'
    BY <1>1 DEF LoadConfig, StartupFailure
  <2>4. ServerTypes'
    BY <1>1 DEF LoadConfig, StartupFailure
  <2>. QED
    BY <2>1, <2>2, <2>3, <2>4
<1>2. ASSUME Prepare PROVE TypeOK'
  <2>1. RunTypes'
    <3>1. CASE PrepareNext
      <4>1. prepared' \in 0..Integrations /\ prepared' = prepared + 1
        BY <3>1 DEF PrepareNext
      <4>2. holds' \subseteq 1..prepared'
        BY <3>1, <4>1 DEF PrepareNext
      <4>. QED
        BY <3>1, <4>1, <4>2 DEF PrepareNext
    <3>2. CASE PrepareFails
      BY <3>2 DEF PrepareFails, CleanUp, StartupFailure
    <3>3. CASE PrepareEnds
      BY <3>3 DEF PrepareEnds
    <3>. QED
      BY <1>2, <3>1, <3>2, <3>3 DEF Prepare
  <2>2. FxTypes'
    BY <1>2 DEF Prepare, PrepareNext, PrepareFails, CleanUp, StartupFailure, PrepareEnds
  <2>3. ContextTypes'
    BY <1>2 DEF Prepare, PrepareNext, PrepareFails, CleanUp, StartupFailure, PrepareEnds
  <2>4. ServerTypes'
    BY <1>2 DEF Prepare, PrepareNext, PrepareFails, CleanUp, StartupFailure, PrepareEnds
  <2>. QED
    BY <2>1, <2>2, <2>3, <2>4
<1>3. ASSUME ComposeAny PROVE TypeOK'
  <2>1. RunTypes'
    BY <1>3 DEF ComposeAny, Compose, ComposeFails, CleanUp, StartupFailure
  <2>2. FxTypes'
    BY <1>3 DEF ComposeAny, Compose, ComposeFails, CleanUp, StartupFailure
  <2>3. ContextTypes'
    BY <1>3 DEF ComposeAny, Compose, ComposeFails, CleanUp, StartupFailure
  <2>4. ServerTypes'
    BY <1>3 DEF ComposeAny, Compose, ComposeFails, CleanUp, StartupFailure
  <2>. QED
    BY <2>1, <2>2, <2>3, <2>4
<1>4. ASSUME Start PROVE TypeOK'
  <2>1. RunTypes'
    BY <1>4 DEF Start, StartHook, ServerStart, StartFails, StartupFailure, StartTooLate,
         StopApplication, StartEnds
  <2>2. FxTypes'
    BY <1>4 DEF Start, StartHook, ServerStart, StartFails, StartupFailure, StartTooLate,
         StopApplication, StartEnds
  <2>3. ContextTypes'
    BY <1>4 DEF Start, StartHook, ServerStart, StartFails, StartupFailure, StartTooLate,
         StopApplication, StartEnds
  <2>4. ServerTypes'
    BY <1>4 DEF Start, StartHook, ServerStart, StartFails, StartupFailure, StartTooLate,
         StopApplication, StartEnds
  <2>. QED
    BY <2>1, <2>2, <2>3, <2>4
<1>5. ASSUME Initialize PROVE TypeOK'
  <2>1. RunTypes'
    BY <1>5 DEF Initialize, InitializePasses, InitializeFails, StopApplication, StartupFailure
  <2>2. FxTypes'
    BY <1>5 DEF Initialize, InitializePasses, InitializeFails, StopApplication, StartupFailure
  <2>3. ContextTypes'
    BY <1>5 DEF Initialize, InitializePasses, InitializeFails, StopApplication, StartupFailure
  <2>4. ServerTypes'
    BY <1>5 DEF Initialize, InitializePasses, InitializeFails, StopApplication, StartupFailure
  <2>. QED
    BY <2>1, <2>2, <2>3, <2>4
<1>6. ASSUME OpenAdmission PROVE TypeOK'
  BY <1>6 DEF OpenAdmission
<1>7. ASSUME Supervise PROVE TypeOK'
  <2>1. RunTypes'
    BY <1>7 DEF Supervise, SelectCancelled, SelectRequest
  <2>2. FxTypes'
    BY <1>7 DEF Supervise, SelectCancelled, SelectRequest
  <2>3. ContextTypes'
    BY <1>7 DEF Supervise, SelectCancelled, SelectRequest
  <2>4. ServerTypes'
    BY <1>7 DEF Supervise, SelectCancelled, SelectRequest
  <2>. QED
    BY <2>1, <2>2, <2>3, <2>4
<1>8. ASSUME CloseAdmission PROVE TypeOK'
  <2>1. RunTypes'
    BY <1>8 DEF CloseAdmission, StopApplication
  <2>2. FxTypes'
    BY <1>8 DEF CloseAdmission, StopApplication
  <2>3. ContextTypes'
    BY <1>8 DEF CloseAdmission, StopApplication
  <2>4. ServerTypes'
    BY <1>8 DEF CloseAdmission, StopApplication
  <2>. QED
    BY <2>1, <2>2, <2>3, <2>4
<1>9. ASSUME NEW h \in 1..Hooks, StopHook(h) PROVE TypeOK'
  <2>1. RunTypes'
    BY <1>9 DEF StopHook, NextToStop, HookCtxDone
  <2>2. FxTypes'
    BY <1>9 DEF StopHook, NextToStop, HookCtxDone
  <2>3. ContextTypes'
    BY <1>9 DEF StopHook, NextToStop, HookCtxDone
  <2>4. ServerTypes'
    BY <1>9 DEF StopHook, NextToStop, HookCtxDone
  <2>. QED
    BY <2>1, <2>2, <2>3, <2>4
<1>10. ASSUME NEW h \in 1..Hooks, HookStops(h) PROVE TypeOK'
  <2>1. RunTypes'
    BY <1>10 DEF HookStops
  <2>2. FxTypes'
    BY <1>10 DEF HookStops
  <2>3. ContextTypes'
    BY <1>10 DEF HookStops
  <2>4. ServerTypes'
    BY <1>10 DEF HookStops
  <2>. QED
    BY <2>1, <2>2, <2>3, <2>4
<1>11. ASSUME ServerStop PROVE TypeOK'
  <2>1. RunTypes'
    BY <1>11 DEF ServerStop, ServerStopBegin, NextToStop, HookCtxDone, ServerDrains,
         ServerDrainExpires, ServerJoins
  <2>2. FxTypes'
    BY <1>11 DEF ServerStop, ServerStopBegin, NextToStop, HookCtxDone, ServerDrains,
         ServerDrainExpires, ServerJoins
  <2>3. ContextTypes'
    BY <1>11 DEF ServerStop, ServerStopBegin, NextToStop, HookCtxDone, ServerDrains,
         ServerDrainExpires, ServerJoins
  <2>4. ServerTypes'
    BY <1>11 DEF ServerStop, ServerStopBegin, NextToStop, HookCtxDone, ServerDrains,
         ServerDrainExpires, ServerJoins
  <2>. QED
    BY <2>1, <2>2, <2>3, <2>4
<1>12. ASSUME Finish PROVE TypeOK'
  <2>1. RunTypes'
    BY <1>12 DEF Finish, RollbackEnds, CleanUp, HookCtxDone, StopEnds, Cleanup, Return
  <2>2. FxTypes'
    BY <1>12 DEF Finish, RollbackEnds, CleanUp, HookCtxDone, StopEnds, Cleanup, Return
  <2>3. ContextTypes'
    BY <1>12 DEF Finish, RollbackEnds, CleanUp, HookCtxDone, StopEnds, Cleanup, Return
  <2>4. ServerTypes'
    BY <1>12 DEF Finish, RollbackEnds, CleanUp, HookCtxDone, StopEnds, Cleanup, Return
  <2>. QED
    BY <2>1, <2>2, <2>3, <2>4
<1>13. ASSUME CallerCancels PROVE TypeOK'
  BY <1>13 DEF CallerCancels
<1>14. ASSUME StartupExpires PROVE TypeOK'
  BY <1>14 DEF StartupExpires
<1>15. ASSUME StopExpires PROVE TypeOK'
  BY <1>15 DEF StopExpires
<1>16. ASSUME NEW r \in {"requested", "restart", "failure"}, ComponentRequests(r) PROVE TypeOK'
  <2>1. RunTypes'
    BY <1>16 DEF ComponentRequests, RequestStop
  <2>2. FxTypes'
    BY <1>16 DEF ComponentRequests, RequestStop
  <2>3. ContextTypes'
    BY <1>16 DEF ComponentRequests, RequestStop
  <2>4. ServerTypes'
    BY <1>16 DEF ComponentRequests, RequestStop
  <2>. QED
    BY <2>1, <2>2, <2>3, <2>4
<1>17. ASSUME ServeFails PROVE TypeOK'
  <2>1. RunTypes'
    BY <1>17 DEF ServeFails
  <2>2. FxTypes'
    BY <1>17 DEF ServeFails
  <2>3. ContextTypes'
    BY <1>17 DEF ServeFails
  <2>4. ServerTypes'
    BY <1>17 DEF ServeFails
  <2>. QED
    BY <2>1, <2>2, <2>3, <2>4
<1>18. ASSUME ServeLoop PROVE TypeOK'
  <2>1. RunTypes'
    BY <1>18 DEF ServeLoop, ServeStops, LoopClosesAdmission, LoopRequestsStop, RequestStop
  <2>2. FxTypes'
    BY <1>18 DEF ServeLoop, ServeStops, LoopClosesAdmission, LoopRequestsStop, RequestStop
  <2>3. ContextTypes'
    BY <1>18 DEF ServeLoop, ServeStops, LoopClosesAdmission, LoopRequestsStop, RequestStop
  <2>4. ServerTypes'
    BY <1>18 DEF ServeLoop, ServeStops, LoopClosesAdmission, LoopRequestsStop, RequestStop
  <2>. QED
    BY <2>1, <2>2, <2>3, <2>4
<1>19. ASSUME Client PROVE TypeOK'
  <2>1. RunTypes'
    BY <1>19 DEF Client, Connect, Admit, Health, Respond, Hijack, LooseReturns, ClientStep, Moves
  <2>2. FxTypes'
    BY <1>19 DEF Client, Connect, Admit, Health, Respond, Hijack, LooseReturns, ClientStep, Moves
  <2>3. ContextTypes'
    BY <1>19 DEF Client, Connect, Admit, Health, Respond, Hijack, LooseReturns, ClientStep, Moves
  <2>4. ServerTypes'
    <3>1. UNCHANGED <<admission, request, listening, loop, done, serverStop>>
      BY <1>19 DEF Client, Connect, Admit, Health, Respond, Hijack, LooseReturns, ClientStep, Moves
    <3>2. conn' \in {"none", "reading", "handling", "health"}
      BY <1>19 DEF Client, Connect, Admit, Health, Respond, Hijack, LooseReturns, ClientStep, Moves
    <3>3. loose' \in BOOLEAN
      BY <1>19 DEF Client, Connect, Admit, Health, Respond, Hijack, LooseReturns, ClientStep, Moves
    <3>. QED
      BY <3>1, <3>2, <3>3
  <2>. QED
    BY <2>1, <2>2, <2>3, <2>4
<1>20. CASE UNCHANGED vars
  BY <1>20 DEF vars
<1>. QED
  BY <1>1, <1>2, <1>3, <1>4, <1>5, <1>6, <1>7, <1>8, <1>9, <1>10, <1>11, <1>12, <1>13, <1>14,
       <1>15, <1>16, <1>17, <1>18, <1>19, <1>20 DEF Next, StopHooks

\* Every step keeps the bookkeeping of phases and contexts.
LEMMA PhaseStep ==
  ASSUME TypeOK, PhaseInv
  PROVE  [Next]_vars => PhaseInv'
<1>. USE DEF TypeOK, RunTypes, FxTypes, ContextTypes, ServerTypes, PhaseInv, BeforeStart,
     BeforeUnwind, StartupPhases, runVars, fxVars, ctxVars, sharedVars, serverVars, resultVars
<1>1. ASSUME LoadConfig PROVE PhaseInv'
  BY <1>1 DEF LoadConfig, StartupFailure
<1>2. ASSUME Prepare PROVE PhaseInv'
  BY <1>2 DEF Prepare, PrepareNext, PrepareFails, CleanUp, StartupFailure, PrepareEnds
<1>3. ASSUME ComposeAny PROVE PhaseInv'
  BY <1>3 DEF ComposeAny, Compose, ComposeFails, CleanUp, StartupFailure
<1>4. ASSUME Start PROVE PhaseInv'
  BY <1>4 DEF Start, StartHook, ServerStart, StartFails, StartupFailure, StartTooLate,
       StopApplication, StartEnds
<1>5. ASSUME Initialize PROVE PhaseInv'
  BY <1>5 DEF Initialize, InitializePasses, InitializeFails, StopApplication, StartupFailure
<1>6. ASSUME OpenAdmission PROVE PhaseInv'
  BY <1>6 DEF OpenAdmission
<1>7. ASSUME Supervise PROVE PhaseInv'
  BY <1>7 DEF Supervise, SelectCancelled, SelectRequest
<1>8. ASSUME CloseAdmission PROVE PhaseInv'
  BY <1>8 DEF CloseAdmission, StopApplication
<1>9. ASSUME NEW h \in 1..Hooks, StopHook(h) PROVE PhaseInv'
  BY <1>9 DEF StopHook, NextToStop, HookCtxDone
<1>10. ASSUME NEW h \in 1..Hooks, HookStops(h) PROVE PhaseInv'
  BY <1>10 DEF HookStops
<1>11. ASSUME ServerStop PROVE PhaseInv'
  BY <1>11 DEF ServerStop, ServerStopBegin, NextToStop, HookCtxDone, ServerDrains,
       ServerDrainExpires, ServerJoins
<1>12. ASSUME Finish PROVE PhaseInv'
  BY <1>12 DEF Finish, RollbackEnds, CleanUp, HookCtxDone, StopEnds, Cleanup, Return
<1>13. ASSUME CallerCancels PROVE PhaseInv'
  BY <1>13 DEF CallerCancels
<1>14. ASSUME StartupExpires PROVE PhaseInv'
  BY <1>14 DEF StartupExpires
<1>15. ASSUME StopExpires PROVE PhaseInv'
  BY <1>15 DEF StopExpires
<1>16. ASSUME NEW r \in {"requested", "restart", "failure"}, ComponentRequests(r) PROVE PhaseInv'
  BY <1>16 DEF ComponentRequests, RequestStop
<1>17. ASSUME ServeFails PROVE PhaseInv'
  BY <1>17 DEF ServeFails
<1>18. ASSUME ServeLoop PROVE PhaseInv'
  BY <1>18 DEF ServeLoop, ServeStops, LoopClosesAdmission, LoopRequestsStop, RequestStop
<1>19. ASSUME Client PROVE PhaseInv'
  BY <1>19 DEF Client, Connect, Admit, Health, Respond, Hijack, LooseReturns, ClientStep, Moves
<1>20. CASE UNCHANGED vars
  BY <1>20 DEF vars
<1>. QED
  BY <1>1, <1>2, <1>3, <1>4, <1>5, <1>6, <1>7, <1>8, <1>9, <1>10, <1>11, <1>12, <1>13, <1>14,
       <1>15, <1>16, <1>17, <1>18, <1>19, <1>20 DEF Next, StopHooks

\* The hooks stay a row of running ones, at most one stopping and stopped ones.
LEMMA HookStep ==
  ASSUME TypeOK, PhaseInv, HookInv, ServerInv
  PROVE  [Next]_vars => HookInv'
<1>. USE RunnerAssumption
<1>. USE DEF TypeOK, RunTypes, FxTypes, ContextTypes, ServerTypes, HookInv, ServerInv, PhaseInv,
     BeforeStart, BeforeUnwind, StartupPhases, runVars, fxVars, ctxVars, sharedVars, serverVars,
     resultVars
<1>1. ASSUME LoadConfig PROVE HookInv'
  BY <1>1 DEF LoadConfig, StartupFailure
<1>2. ASSUME Prepare PROVE HookInv'
  BY <1>2 DEF Prepare, PrepareNext, PrepareFails, CleanUp, StartupFailure, PrepareEnds
<1>3. ASSUME ComposeAny PROVE HookInv'
  BY <1>3 DEF ComposeAny, Compose, ComposeFails, CleanUp, StartupFailure
<1>4. ASSUME Start PROVE HookInv'
  BY <1>4 DEF Start, StartHook, ServerStart, StartFails, StartupFailure, StartTooLate,
       StopApplication, StartEnds
<1>5. ASSUME Initialize PROVE HookInv'
  BY <1>5 DEF Initialize, InitializePasses, InitializeFails, StopApplication, StartupFailure
<1>6. ASSUME OpenAdmission PROVE HookInv'
  BY <1>6 DEF OpenAdmission
<1>7. ASSUME Supervise PROVE HookInv'
  BY <1>7 DEF Supervise, SelectCancelled, SelectRequest
<1>8. ASSUME CloseAdmission PROVE HookInv'
  BY <1>8 DEF CloseAdmission, StopApplication
<1>9. ASSUME NEW h \in 1..Hooks, StopHook(h) PROVE HookInv'
  BY <1>9 DEF StopHook, NextToStop, HookCtxDone
<1>10. ASSUME NEW h \in 1..Hooks, HookStops(h) PROVE HookInv'
  BY <1>10 DEF HookStops
<1>11. ASSUME ServerStop PROVE HookInv'
  <2>1. CASE ServerStopBegin
    BY <2>1 DEF ServerStopBegin, NextToStop, HookCtxDone
  <2>2. CASE ServerDrains
    BY <2>2 DEF ServerDrains
  <2>3. CASE ServerDrainExpires
    BY <2>3 DEF ServerDrainExpires, HookCtxDone
  <2>4. CASE ServerJoins
    BY <2>4 DEF ServerJoins, HookCtxDone
  <2>. QED
    BY <1>11, <2>1, <2>2, <2>3, <2>4 DEF ServerStop
<1>12. ASSUME Finish PROVE HookInv'
  BY <1>12 DEF Finish, RollbackEnds, CleanUp, HookCtxDone, StopEnds, Cleanup, Return
<1>13. ASSUME CallerCancels PROVE HookInv'
  BY <1>13 DEF CallerCancels
<1>14. ASSUME StartupExpires PROVE HookInv'
  BY <1>14 DEF StartupExpires
<1>15. ASSUME StopExpires PROVE HookInv'
  BY <1>15 DEF StopExpires
<1>16. ASSUME NEW r \in {"requested", "restart", "failure"}, ComponentRequests(r) PROVE HookInv'
  BY <1>16 DEF ComponentRequests, RequestStop
<1>17. ASSUME ServeFails PROVE HookInv'
  BY <1>17 DEF ServeFails
<1>18. ASSUME ServeLoop PROVE HookInv'
  BY <1>18 DEF ServeLoop, ServeStops, LoopClosesAdmission, LoopRequestsStop, RequestStop
<1>19. ASSUME Client PROVE HookInv'
  BY <1>19 DEF Client, Connect, Admit, Health, Respond, Hijack, LooseReturns, ClientStep, Moves
<1>20. CASE UNCHANGED vars
  BY <1>20 DEF vars
<1>. QED
  BY <1>1, <1>2, <1>3, <1>4, <1>5, <1>6, <1>7, <1>8, <1>9, <1>10, <1>11, <1>12, <1>13, <1>14,
       <1>15, <1>16, <1>17, <1>18, <1>19, <1>20 DEF Next, StopHooks

\* Every step keeps the server's loop, its Stop and its hook in agreement.
LEMMA ServerStep ==
  ASSUME TypeOK, PhaseInv, HookInv, ServerInv
  PROVE  [Next]_vars => ServerInv'
<1>. USE RunnerAssumption
<1>. USE DEF TypeOK, RunTypes, FxTypes, ContextTypes, ServerTypes, HookInv, ServerInv, PhaseInv,
     BeforeStart, BeforeUnwind, StartupPhases, runVars, fxVars, ctxVars, sharedVars, serverVars,
     resultVars
<1>1. ASSUME LoadConfig PROVE ServerInv'
  BY <1>1 DEF LoadConfig, StartupFailure
<1>2. ASSUME Prepare PROVE ServerInv'
  BY <1>2 DEF Prepare, PrepareNext, PrepareFails, CleanUp, StartupFailure, PrepareEnds
<1>3. ASSUME ComposeAny PROVE ServerInv'
  BY <1>3 DEF ComposeAny, Compose, ComposeFails, CleanUp, StartupFailure
<1>4. ASSUME Start PROVE ServerInv'
  BY <1>4 DEF Start, StartHook, ServerStart, StartFails, StartupFailure, StartTooLate,
       StopApplication, StartEnds
<1>5. ASSUME Initialize PROVE ServerInv'
  BY <1>5 DEF Initialize, InitializePasses, InitializeFails, StopApplication, StartupFailure
<1>6. ASSUME OpenAdmission PROVE ServerInv'
  BY <1>6 DEF OpenAdmission
<1>7. ASSUME Supervise PROVE ServerInv'
  BY <1>7 DEF Supervise, SelectCancelled, SelectRequest
<1>8. ASSUME CloseAdmission PROVE ServerInv'
  BY <1>8 DEF CloseAdmission, StopApplication
<1>9. ASSUME NEW h \in 1..Hooks, StopHook(h) PROVE ServerInv'
  BY <1>9 DEF StopHook, NextToStop, HookCtxDone
<1>10. ASSUME NEW h \in 1..Hooks, HookStops(h) PROVE ServerInv'
  <2>1. err => err'
    BY <1>10 DEF HookStops
  <2>2. hook'[ServerHook] = hook[ServerHook]
    BY <1>10 DEF HookStops
  <2>. QED
    BY <1>10, <2>1, <2>2 DEF HookStops
<1>11. ASSUME ServerStop PROVE ServerInv'
  <2>1. CASE ServerStopBegin
    BY <2>1 DEF ServerStopBegin, NextToStop, HookCtxDone
  <2>2. CASE ServerDrains
    BY <2>2 DEF ServerDrains
  <2>3. CASE ServerDrainExpires
    BY <2>3 DEF ServerDrainExpires, HookCtxDone
  <2>4. CASE ServerJoins
    BY <2>4 DEF ServerJoins, HookCtxDone
  <2>. QED
    BY <1>11, <2>1, <2>2, <2>3, <2>4 DEF ServerStop
<1>12. ASSUME Finish PROVE ServerInv'
  <2>1. CASE RollbackEnds
    BY <2>1 DEF RollbackEnds, CleanUp, HookCtxDone
  <2>2. CASE StopEnds
    BY <2>2 DEF StopEnds, HookCtxDone
  <2>3. CASE Cleanup
    <3>1. err => err'
      BY <2>3 DEF Cleanup
    <3>. QED
      BY <2>3, <3>1 DEF Cleanup
  <2>4. CASE Return
    BY <2>4 DEF Return
  <2>. QED
    BY <1>12, <2>1, <2>2, <2>3, <2>4 DEF Finish
<1>13. ASSUME CallerCancels PROVE ServerInv'
  BY <1>13 DEF CallerCancels
<1>14. ASSUME StartupExpires PROVE ServerInv'
  BY <1>14 DEF StartupExpires
<1>15. ASSUME StopExpires PROVE ServerInv'
  BY <1>15 DEF StopExpires
<1>16. ASSUME NEW r \in {"requested", "restart", "failure"}, ComponentRequests(r) PROVE ServerInv'
  BY <1>16 DEF ComponentRequests, RequestStop
<1>17. ASSUME ServeFails PROVE ServerInv'
  BY <1>17 DEF ServeFails
<1>18. ASSUME ServeLoop PROVE ServerInv'
  BY <1>18 DEF ServeLoop, ServeStops, LoopClosesAdmission, LoopRequestsStop, RequestStop
<1>19. ASSUME Client PROVE ServerInv'
  BY <1>19 DEF Client, Connect, Admit, Health, Respond, Hijack, LooseReturns, ClientStep, Moves
<1>20. CASE UNCHANGED vars
  BY <1>20 DEF vars
<1>. QED
  BY <1>1, <1>2, <1>3, <1>4, <1>5, <1>6, <1>7, <1>8, <1>9, <1>10, <1>11, <1>12, <1>13, <1>14,
       <1>15, <1>16, <1>17, <1>18, <1>19, <1>20 DEF Next, StopHooks

\* What the server's Stop has achieved lasts.
LEMMA DrainStep ==
  ASSUME TypeOK, PhaseInv, HookInv, ServerInv, DrainInv
  PROVE  [Next]_vars => DrainInv'
<1>. USE RunnerAssumption
<1>. USE DEF TypeOK, RunTypes, FxTypes, ContextTypes, ServerTypes, HookInv, ServerInv, DrainInv,
     InBudget, AllDown, PhaseInv, BeforeStart, BeforeUnwind, StartupPhases, runVars, fxVars,
     ctxVars, sharedVars, serverVars, resultVars
<1>1. ASSUME LoadConfig PROVE DrainInv'
  BY <1>1 DEF LoadConfig, StartupFailure
<1>2. ASSUME Prepare PROVE DrainInv'
  BY <1>2 DEF Prepare, PrepareNext, PrepareFails, CleanUp, StartupFailure, PrepareEnds
<1>3. ASSUME ComposeAny PROVE DrainInv'
  BY <1>3 DEF ComposeAny, Compose, ComposeFails, CleanUp, StartupFailure
<1>4. ASSUME Start PROVE DrainInv'
  BY <1>4 DEF Start, StartHook, ServerStart, StartFails, StartupFailure, StartTooLate,
       StopApplication, StartEnds
<1>5. ASSUME Initialize PROVE DrainInv'
  BY <1>5 DEF Initialize, InitializePasses, InitializeFails, StopApplication, StartupFailure
<1>6. ASSUME OpenAdmission PROVE DrainInv'
  BY <1>6 DEF OpenAdmission
<1>7. ASSUME Supervise PROVE DrainInv'
  BY <1>7 DEF Supervise, SelectCancelled, SelectRequest
<1>8. ASSUME CloseAdmission PROVE DrainInv'
  BY <1>8 DEF CloseAdmission, StopApplication
<1>9. ASSUME NEW h \in 1..Hooks, StopHook(h) PROVE DrainInv'
  BY <1>9 DEF StopHook, NextToStop, HookCtxDone
<1>10. ASSUME NEW h \in 1..Hooks, HookStops(h) PROVE DrainInv'
  BY <1>10 DEF HookStops
<1>11. ASSUME ServerStop PROVE DrainInv'
  BY <1>11 DEF ServerStop, ServerStopBegin, NextToStop, HookCtxDone, ServerDrains,
       ServerDrainExpires, ServerJoins
<1>12. ASSUME Finish PROVE DrainInv'
  BY <1>12 DEF Finish, RollbackEnds, CleanUp, HookCtxDone, StopEnds, Cleanup, Return
<1>13. ASSUME CallerCancels PROVE DrainInv'
  BY <1>13 DEF CallerCancels
<1>14. ASSUME StartupExpires PROVE DrainInv'
  BY <1>14 DEF StartupExpires
<1>15. ASSUME StopExpires PROVE DrainInv'
  BY <1>15 DEF StopExpires
<1>16. ASSUME NEW r \in {"requested", "restart", "failure"}, ComponentRequests(r) PROVE DrainInv'
  BY <1>16 DEF ComponentRequests, RequestStop
<1>17. ASSUME ServeFails PROVE DrainInv'
  BY <1>17 DEF ServeFails
<1>18. ASSUME ServeLoop PROVE DrainInv'
  BY <1>18 DEF ServeLoop, ServeStops, LoopClosesAdmission, LoopRequestsStop, RequestStop
<1>19. ASSUME Client PROVE DrainInv'
  BY <1>19 DEF Client, Connect, Admit, Health, Respond, Hijack, LooseReturns, ClientStep, Moves
<1>20. CASE UNCHANGED vars
  BY <1>20 DEF vars
<1>. QED
  BY <1>1, <1>2, <1>3, <1>4, <1>5, <1>6, <1>7, <1>8, <1>9, <1>10, <1>11, <1>12, <1>13, <1>14,
       <1>15, <1>16, <1>17, <1>18, <1>19, <1>20 DEF Next, StopHooks

\* Nobody opens the admission before or after its time.
LEMMA AdmissionStep ==
  ASSUME TypeOK, PhaseInv, ResultInv, AdmissionInv
  PROVE  [Next]_vars => AdmissionInv'
<1>. USE DEF TypeOK, RunTypes, FxTypes, ContextTypes, ServerTypes, AdmissionInv, ResultInv,
     PhaseInv, BeforeStart, BeforeUnwind, StartupPhases, runVars, fxVars, ctxVars, sharedVars,
     serverVars, resultVars
<1>1. ASSUME LoadConfig PROVE AdmissionInv'
  BY <1>1 DEF LoadConfig, StartupFailure
<1>2. ASSUME Prepare PROVE AdmissionInv'
  BY <1>2 DEF Prepare, PrepareNext, PrepareFails, CleanUp, StartupFailure, PrepareEnds
<1>3. ASSUME ComposeAny PROVE AdmissionInv'
  BY <1>3 DEF ComposeAny, Compose, ComposeFails, CleanUp, StartupFailure
<1>4. ASSUME Start PROVE AdmissionInv'
  BY <1>4 DEF Start, StartHook, ServerStart, StartFails, StartupFailure, StartTooLate,
       StopApplication, StartEnds
<1>5. ASSUME Initialize PROVE AdmissionInv'
  BY <1>5 DEF Initialize, InitializePasses, InitializeFails, StopApplication, StartupFailure
<1>6. ASSUME OpenAdmission PROVE AdmissionInv'
  BY <1>6 DEF OpenAdmission
<1>7. ASSUME Supervise PROVE AdmissionInv'
  BY <1>7 DEF Supervise, SelectCancelled, SelectRequest
<1>8. ASSUME CloseAdmission PROVE AdmissionInv'
  BY <1>8 DEF CloseAdmission, StopApplication
<1>9. ASSUME NEW h \in 1..Hooks, StopHook(h) PROVE AdmissionInv'
  BY <1>9 DEF StopHook, NextToStop, HookCtxDone
<1>10. ASSUME NEW h \in 1..Hooks, HookStops(h) PROVE AdmissionInv'
  BY <1>10 DEF HookStops
<1>11. ASSUME ServerStop PROVE AdmissionInv'
  BY <1>11 DEF ServerStop, ServerStopBegin, NextToStop, HookCtxDone, ServerDrains,
       ServerDrainExpires, ServerJoins
<1>12. ASSUME Finish PROVE AdmissionInv'
  <2>1. CASE RollbackEnds
    BY <2>1 DEF RollbackEnds, CleanUp, HookCtxDone
  <2>2. CASE StopEnds
    BY <2>2 DEF StopEnds, HookCtxDone
  <2>3. CASE Cleanup
    BY <2>3 DEF Cleanup
  <2>4. CASE Return
    BY <2>4 DEF Return
  <2>. QED
    BY <1>12, <2>1, <2>2, <2>3, <2>4 DEF Finish
<1>13. ASSUME CallerCancels PROVE AdmissionInv'
  BY <1>13 DEF CallerCancels
<1>14. ASSUME StartupExpires PROVE AdmissionInv'
  BY <1>14 DEF StartupExpires
<1>15. ASSUME StopExpires PROVE AdmissionInv'
  BY <1>15 DEF StopExpires
<1>16. ASSUME NEW r \in {"requested", "restart", "failure"}, ComponentRequests(r) PROVE
     AdmissionInv'
  BY <1>16 DEF ComponentRequests, RequestStop
<1>17. ASSUME ServeFails PROVE AdmissionInv'
  BY <1>17 DEF ServeFails
<1>18. ASSUME ServeLoop PROVE AdmissionInv'
  BY <1>18 DEF ServeLoop, ServeStops, LoopClosesAdmission, LoopRequestsStop, RequestStop
<1>19. ASSUME Client PROVE AdmissionInv'
  BY <1>19 DEF Client, Connect, Admit, Health, Respond, Hijack, LooseReturns, ClientStep, Moves
<1>20. CASE UNCHANGED vars
  BY <1>20 DEF vars
<1>. QED
  BY <1>1, <1>2, <1>3, <1>4, <1>5, <1>6, <1>7, <1>8, <1>9, <1>10, <1>11, <1>12, <1>13, <1>14,
       <1>15, <1>16, <1>17, <1>18, <1>19, <1>20 DEF Next, StopHooks

\* The result stays what it owes to the requests, the cancellation and the errors.
LEMMA ResultStep ==
  ASSUME TypeOK, PhaseInv, HookInv, ServerInv, ResultInv
  PROVE  [Next]_vars => ResultInv'
<1>. USE RunnerAssumption
<1>. USE DEF TypeOK, RunTypes, FxTypes, ContextTypes, ServerTypes, ResultInv, HookInv, ServerInv,
     AllDown, PhaseInv, BeforeStart, BeforeUnwind, StartupPhases, runVars, fxVars, ctxVars,
     sharedVars, serverVars, resultVars
<1>1. ASSUME LoadConfig PROVE ResultInv'
  BY <1>1 DEF LoadConfig, StartupFailure
<1>2. ASSUME Prepare PROVE ResultInv'
  BY <1>2 DEF Prepare, PrepareNext, PrepareFails, CleanUp, StartupFailure, PrepareEnds
<1>3. ASSUME ComposeAny PROVE ResultInv'
  BY <1>3 DEF ComposeAny, Compose, ComposeFails, CleanUp, StartupFailure
<1>4. ASSUME Start PROVE ResultInv'
  BY <1>4 DEF Start, StartHook, ServerStart, StartFails, StartupFailure, StartTooLate,
       StopApplication, StartEnds
<1>5. ASSUME Initialize PROVE ResultInv'
  BY <1>5 DEF Initialize, InitializePasses, InitializeFails, StopApplication, StartupFailure
<1>6. ASSUME OpenAdmission PROVE ResultInv'
  BY <1>6 DEF OpenAdmission
<1>7. ASSUME Supervise PROVE ResultInv'
  BY <1>7 DEF Supervise, SelectCancelled, SelectRequest
<1>8. ASSUME CloseAdmission PROVE ResultInv'
  BY <1>8 DEF CloseAdmission, StopApplication
<1>9. ASSUME NEW h \in 1..Hooks, StopHook(h) PROVE ResultInv'
  BY <1>9 DEF StopHook, NextToStop, HookCtxDone
<1>10. ASSUME NEW h \in 1..Hooks, HookStops(h) PROVE ResultInv'
  <2>1. err => err'
    BY <1>10 DEF HookStops
  <2>2. hook'[ServerHook] = hook[ServerHook]
    BY <1>10 DEF HookStops
  <2>. QED
    BY <1>10, <2>1, <2>2 DEF HookStops
<1>11. ASSUME ServerStop PROVE ResultInv'
  BY <1>11 DEF ServerStop, ServerStopBegin, NextToStop, HookCtxDone, ServerDrains,
       ServerDrainExpires, ServerJoins
<1>12. ASSUME Finish PROVE ResultInv'
  BY <1>12 DEF Finish, RollbackEnds, CleanUp, HookCtxDone, StopEnds, Cleanup, Return
<1>13. ASSUME CallerCancels PROVE ResultInv'
  BY <1>13 DEF CallerCancels
<1>14. ASSUME StartupExpires PROVE ResultInv'
  BY <1>14 DEF StartupExpires
<1>15. ASSUME StopExpires PROVE ResultInv'
  BY <1>15 DEF StopExpires
<1>16. ASSUME NEW r \in {"requested", "restart", "failure"}, ComponentRequests(r) PROVE ResultInv'
  BY <1>16 DEF ComponentRequests, RequestStop
<1>17. ASSUME ServeFails PROVE ResultInv'
  BY <1>17 DEF ServeFails
<1>18. ASSUME ServeLoop PROVE ResultInv'
  BY <1>18 DEF ServeLoop, ServeStops, LoopClosesAdmission, LoopRequestsStop, RequestStop
<1>19. ASSUME Client PROVE ResultInv'
  BY <1>19 DEF Client, Connect, Admit, Health, Respond, Hijack, LooseReturns, ClientStep, Moves
<1>20. CASE UNCHANGED vars
  BY <1>20 DEF vars
<1>. QED
  BY <1>1, <1>2, <1>3, <1>4, <1>5, <1>6, <1>7, <1>8, <1>9, <1>10, <1>11, <1>12, <1>13, <1>14,
       <1>15, <1>16, <1>17, <1>18, <1>19, <1>20 DEF Next, StopHooks

\* A run begins with nothing prepared, started, admitted or decided.
LEMMA InitInductive == Init => Inductive
<1>. SUFFICES ASSUME Init PROVE Inductive
  OBVIOUS
<1>. USE RunnerAssumption DEF Init
<1>1. TypeOK
  <2>1. RunTypes
    <3>1. prepared \in 0..Integrations /\ holds \subseteq 1..prepared
      OBVIOUS
    <3>2. phase \in StartupPhases
      BY DEF StartupPhases
    <3>. QED
      BY <3>1, <3>2 DEF RunTypes
  <2>2. FxTypes /\ ContextTypes
    <3>1. started \in 0..Hooks
      OBVIOUS
    <3>2. hook \in [1..Hooks -> {"down", "up", "stopping"}]
      OBVIOUS
    <3>. QED
      BY <3>1, <3>2 DEF FxTypes, ContextTypes
  <2>3. ServerTypes
    BY DEF ServerTypes
  <2>. QED
    BY <2>1, <2>2, <2>3 DEF TypeOK
<1>2. PhaseInv /\ AdmissionInv
  BY DEF PhaseInv, BeforeStart, BeforeUnwind, StartupPhases, AdmissionInv
<1>3. HookInv
  BY DEF HookInv
<1>4. ServerInv /\ DrainInv /\ ResultInv
  BY DEF ServerInv, DrainInv, AllDown, ResultInv, StartupPhases
<1>. QED
  BY <1>1, <1>2, <1>3, <1>4 DEF Inductive

\* The inductive invariant holds for every application and every place of its server.
THEOREM InductiveCorrect == Spec => []Inductive
<1>1. Init => Inductive
  BY InitInductive
<1>2. Inductive /\ [Next]_vars => Inductive'
  BY TypeStep, PhaseStep, HookStep, ServerStep, DrainStep, AdmissionStep, ResultStep DEF Inductive
<1>. QED
  BY <1>1, <1>2, PTL DEF Spec

\* Type correctness of Run, its hooks and its server.
THEOREM TypeCorrect == Spec => []TypeOK
<1>1. Inductive => TypeOK
  BY DEF Inductive
<1>. QED
  BY <1>1, InductiveCorrect, PTL

\* On every path out of Run the pre-composition resources are released, and last,
\* unless the unwinding ran out of time.
THEOREM ReleaseCorrect == Spec => []ReleasedLast
<1>1. Inductive => ReleasedLast
  <2>. SUFFICES ASSUME Inductive PROVE ReleasedLast
    OBVIOUS
  <2>1. phase = "returned" => holds = {}
    BY DEF Inductive, PhaseInv
  <2>2. ASSUME phase \in {"cleaning", "returned"}, InBudget
        PROVE  AllDown /\ ~listening /\ loop # "serving" /\ conn = "none"
    <3>1. AllDown
      BY <2>2 DEF Inductive, DrainInv
    <3>2. hook[ServerHook] = "down"
      BY <3>1, RunnerAssumption DEF AllDown
    <3>. QED
      BY <2>2, <3>1, <3>2 DEF Inductive, DrainInv, ServerInv
  <2>. QED
    BY <2>1, <2>2 DEF ReleasedLast
<1>. QED
  BY <1>1, InductiveCorrect, PTL

\* Requests are admitted and handled only after every hook and startup condition, and
\* never in a run whose startup fails.
THEOREM EarlyWorkCorrect == Spec => []NoEarlyWork
<1>1. Inductive => NoEarlyWork
  BY DEF Inductive, NoEarlyWork, AdmissionInv, ResultInv, StartupPhases
<1>. QED
  BY <1>1, InductiveCorrect, PTL

\* Whatever a handler may use is still up, within the budget of the unwinding.
THEOREM DependenciesCorrect == Spec => []DependenciesOutliveWork
<1>1. Inductive => DependenciesOutliveWork
  <2>. SUFFICES ASSUME Inductive, conn \in {"handling", "health"}, InBudget
                PROVE  \A h \in 1..(ServerHook - 1) : hook[h] = "up"
    BY DEF DependenciesOutliveWork
  <2>1. hook[ServerHook] # "down"
    BY DEF Inductive, DrainInv
  <2>. QED
    BY <2>1, RunnerAssumption DEF Inductive, HookInv
<1>. QED
  BY <1>1, InductiveCorrect, PTL

\* A serve loop that ended unexpectedly makes the process exit nonzero.
THEOREM ServeFailureCorrect == Spec => []ServeFailureFails
<1>1. Inductive => ServeFailureFails
  <2>. SUFFICES ASSUME Inductive, phase = "returned", done = "error"
                PROVE  ExitCode # 0
    BY DEF ServeFailureFails
  <2>1. err
    <3>1. CASE AllDown
      <4>1. hook[ServerHook] = "down"
        BY <3>1, RunnerAssumption DEF AllDown
      <4>. QED
        BY <4>1 DEF Inductive, ServerInv
    <3>2. CASE ~AllDown
      BY <3>2 DEF Inductive, ResultInv
    <3>. QED
      BY <3>1, <3>2
  <2>2. CASE reason = "startup_failure"
    BY <2>1, <2>2 DEF ExitCode
  <2>3. CASE reason # "startup_failure"
    BY <2>1, <2>3 DEF ExitCode
  <2>. QED
    BY <2>2, <2>3
<1>. QED
  BY <1>1, InductiveCorrect, PTL

\* Unless the caller cancels, the result carries the request that was accepted first.
THEOREM RequestCorrect == Spec => []FirstRequestDecides
<1>1. Inductive => FirstRequestDecides
  BY DEF Inductive, FirstRequestDecides, TypeOK, RunTypes, ResultInv
<1>. QED
  BY <1>1, InductiveCorrect, PTL

-----------------------------------------------------------------------------
(* Run implements the abstract Service.                                    *)

\* The work under way, as Service sees it.
Handling == {at \in {"request"} : conn = "handling"}
Loosened == {at \in {"request"} : loose}

\* Service's view of every phase.
StageView ==
  /\ phase \in StartupPhases => Stage = "starting"
  /\ phase \in {"cleaning", "returned"} =>
       Stage = IF stopCtx = "expired" THEN "abandoned" ELSE "released"
  /\ phase \in {"rollback", "serving", "closing", "stopping"} =>
       Stage = IF admission THEN "admitting" ELSE "refusing"

\* Stage is what StageView says.
LEMMA StageSeen == StageView
BY DEF StageView, Stage, StartupPhases

\* A step that touches neither phase, admission nor a handler is invisible to Service.
LEMMA Invisible ==
  ASSUME UNCHANGED <<phase, stopCtx, admission, loose>>, conn = "handling" <=> conn' = "handling"
  PROVE  UNCHANGED Promise!vars
BY DEF Stage, Promise!vars

\* Every step of Run is one of Service's or is invisible to it.
LEMMA ServiceStep ==
  ASSUME Inductive, Inductive', Next
  PROVE  [Promise!Next]_(Promise!vars)
<1>. USE DEF runVars, fxVars, ctxVars, sharedVars, serverVars, resultVars, StageView
<1>a. StageView /\ StageView'
  <2>1. StageView'
    BY DEF StageView, Stage, StartupPhases
  <2>. QED
    BY <2>1, StageSeen
<1>b. AdmissionInv /\ AdmissionInv' /\ PhaseInv /\ DrainInv /\ TypeOK
  BY DEF Inductive
<1>c. (conn # "handling" => Handling = {}) /\ (conn' # "handling" => Handling' = {})
  BY DEF Handling
<1>d. UNCHANGED <<conn, loose>> => UNCHANGED <<Handling, Loosened>>
  BY DEF Handling, Loosened
\* Startup goes on, or is over before anything was admitted.
<1>1. ASSUME phase \in StartupPhases, phase' \in StartupPhases, UNCHANGED <<admission, conn, loose>>
      PROVE  UNCHANGED Promise!vars
  BY <1>1, <1>a, <1>d DEF Promise!vars, Handling, Loosened
<1>2. ASSUME phase \in StartupPhases, phase' \in {"rollback", "stopping"}, admission' = FALSE, UNCHANGED <<conn, loose>>
      PROVE  Promise!Refuse
  BY <1>2, <1>a, <1>d DEF Promise!Refuse, Handling, Loosened
<1>3. ASSUME phase \in StartupPhases, phase' \in {"cleaning", "returned"},
             UNCHANGED <<admission, conn, loose, stopCtx>>
      PROVE  Promise!Release
  <2>1. conn # "handling" /\ stopCtx' # "expired"
    BY <1>3, <1>b DEF AdmissionInv, PhaseInv, BeforeUnwind
  <2>. QED
    BY <1>3, <1>a, <1>c, <1>d, <2>1 DEF Promise!Release, Handling, Loosened
<1>4. CASE LoadConfig
  BY <1>4, <1>1, <1>3 DEF LoadConfig, StartupPhases, Promise!Next
<1>5. CASE Prepare
  BY <1>5, <1>1, <1>3
     DEF Prepare, PrepareNext, PrepareFails, PrepareEnds, CleanUp, StartupPhases, Promise!Next
<1>6. CASE ComposeAny
  BY <1>6, <1>1, <1>3 DEF ComposeAny, Compose, ComposeFails, CleanUp, StartupPhases, Promise!Next
<1>7. CASE Start
  <2>1. phase = "starting" /\ UNCHANGED <<admission, conn, loose>>
    BY <1>7 DEF Start, StartHook, ServerStart, StartFails, StartTooLate, StartEnds
  <2>2. phase' \in {"starting", "initializing", "rollback", "stopping"}
    BY <1>7 DEF Start, StartHook, StartFails, StartTooLate, StopApplication, StartEnds
  <2>3. admission' = FALSE
    BY <2>1, <1>b DEF AdmissionInv, TypeOK, ServerTypes
  <2>. QED
    BY <1>1, <1>2, <2>1, <2>2, <2>3 DEF StartupPhases, Promise!Next
<1>8. CASE Initialize
  BY <1>8, <1>1, <1>2
     DEF Initialize, InitializePasses, InitializeFails, StopApplication, StartupPhases, Promise!Next
<1>9. CASE OpenAdmission
  <2>1. Promise!Admit
    BY <1>9, <1>a, <1>d DEF OpenAdmission, StartupPhases, Promise!Admit, Handling, Loosened
  <2>. QED
    BY <2>1 DEF Promise!Next
<1>10. CASE Supervise
  <2>1. /\ phase = "serving" /\ phase' = "closing"
        /\ UNCHANGED <<admission, conn, loose>>
    BY <1>10 DEF Supervise, SelectCancelled, SelectRequest
  <2>. QED
    BY <2>1, <1>a, <1>d DEF Promise!vars, Handling, Loosened
<1>11. CASE CloseAdmission
  <2>1. phase = "closing" /\ phase' = "stopping" /\ admission' = FALSE /\ UNCHANGED <<conn, loose>>
    BY <1>11 DEF CloseAdmission, StopApplication
  <2>2. CASE admission
    BY <2>1, <2>2, <1>a, <1>d DEF Promise!Next, Promise!Refuse, Handling, Loosened
  <2>3. CASE ~admission
    <3>1. UNCHANGED admission
      BY <2>1, <2>3, <1>b DEF TypeOK, ServerTypes
    <3>. QED
      BY <2>1, <2>3, <3>1, <1>a, <1>d DEF Promise!vars, Handling, Loosened
  <2>. QED
    BY <2>2, <2>3
<1>12. CASE StopHooks
  BY <1>12, Invisible DEF StopHooks, StopHook, HookStops
<1>13. CASE ServerStop
  <2>1. CASE ServerStopBegin
    <3>1. phase \in {"rollback", "stopping"} /\ admission' = FALSE
      BY <2>1 DEF ServerStopBegin, NextToStop
    <3>2. UNCHANGED admission
      BY <3>1, <1>b DEF TypeOK, ServerTypes, AdmissionInv
    <3>. QED
      BY <2>1, <3>2, Invisible DEF ServerStopBegin
  <2>2. CASE ServerDrains
    BY <2>2, Invisible DEF ServerDrains
  <2>3. CASE ServerDrainExpires
    <3>1. /\ UNCHANGED <<phase, stopCtx, admission>> /\ conn' = "none"
          /\ loose' = (loose \/ conn = "handling")
      BY <2>3 DEF ServerDrainExpires
    <3>2. CASE conn = "handling"
      <4>1. Handling = {"request"} /\ Handling' = {} /\ Loosened' = {"request"}
        BY <3>1, <3>2 DEF Handling, Loosened
      <4>2. Loosened \subseteq {"request"} /\ UNCHANGED Stage
        BY <3>1 DEF Loosened, Stage
      <4>3. Promise!ComesLoose("request")
        BY <3>1, <4>1, <4>2 DEF Promise!ComesLoose, Handling, Loosened
      <4>. QED
        BY <4>3 DEF Promise!Next
    <3>3. CASE conn # "handling"
      <4>1. UNCHANGED loose
        BY <3>1, <3>3, <1>b DEF TypeOK, ServerTypes
      <4>. QED
        BY <3>1, <3>3, <4>1, Invisible
    <3>. QED
      BY <3>2, <3>3
  <2>4. CASE ServerJoins
    BY <2>4, Invisible DEF ServerJoins
  <2>. QED
    BY <1>13, <2>1, <2>2, <2>3, <2>4 DEF ServerStop
<1>14. CASE Finish
  <2>1. CASE RollbackEnds
    <3>1. /\ phase = "rollback" /\ phase' = "cleaning" /\ stopCtx' # "expired"
          /\ UNCHANGED <<admission, conn, loose>>
      BY <2>1 DEF RollbackEnds, CleanUp
    <3>2. ~admission /\ conn # "handling"
      BY <3>1, <1>b DEF AdmissionInv
    <3>. QED
      BY <3>1, <3>2, <1>a, <1>c, <1>d DEF Promise!Next, Promise!Release, Handling, Loosened
  <2>2. CASE StopEnds
    <3>1. /\ phase = "stopping" /\ phase' = "cleaning"
          /\ UNCHANGED <<admission, conn, loose, stopCtx>>
      BY <2>2 DEF StopEnds
    <3>2. ~admission
      BY <3>1, <1>b DEF AdmissionInv
    <3>3. CASE stopCtx = "expired"
      BY <3>1, <3>2, <3>3, <1>a, <1>d DEF Promise!Next, Promise!GiveUp, Handling, Loosened
    <3>4. CASE stopCtx # "expired"
      <4>1. InBudget /\ AllDown
        BY <2>2, <3>1, <3>4, <1>b DEF StopEnds, HookCtxDone, PhaseInv, InBudget
      <4>2. conn = "none"
        BY <4>1, <1>b, RunnerAssumption DEF DrainInv, AllDown
      <4>. QED
        BY <3>1, <3>2, <3>4, <4>2, <1>a, <1>c, <1>d DEF Promise!Next, Promise!Release, Handling,
             Loosened
    <3>. QED
      BY <3>3, <3>4
  <2>3. CASE Cleanup
    BY <2>3, Invisible DEF Cleanup
  <2>4. CASE Return
    <3>1. /\ phase = "cleaning" /\ phase' = "returned"
          /\ UNCHANGED <<admission, conn, loose, stopCtx>>
      BY <2>4 DEF Return
    <3>. QED
      BY <3>1, <1>a, <1>d DEF Promise!vars, Handling, Loosened
  <2>. QED
    BY <1>14, <2>1, <2>2, <2>3, <2>4 DEF Finish
<1>15. CASE CallerCancels \/ StartupExpires
  BY <1>15, Invisible DEF CallerCancels, StartupExpires
<1>16. CASE StopExpires
  <2>1. phase = "stopping" /\ phase' = "stopping" /\ UNCHANGED <<admission, conn, loose>>
    BY <1>16 DEF StopExpires
  <2>. QED
    BY <2>1, <1>a, <1>d DEF Promise!vars, Handling, Loosened
<1>17. ASSUME NEW r \in {"requested", "restart", "failure"}, ComponentRequests(r)
       PROVE  UNCHANGED Promise!vars
  BY <1>17, Invisible DEF ComponentRequests
<1>18. CASE ServeFails
  BY <1>18, Invisible DEF ServeFails
\* The server's loop may close the admission, before, during or after its time.
<1>19. CASE ServeLoop
  <2>1. CASE ServeStops \/ LoopRequestsStop
    BY <2>1, Invisible DEF ServeStops, LoopRequestsStop
  <2>2. CASE LoopClosesAdmission
    <3>1. UNCHANGED <<phase, stopCtx, conn, loose>> /\ admission' = FALSE
      BY <2>2 DEF LoopClosesAdmission
    <3>2. CASE admission
      <4>1. phase \in {"serving", "closing"}
        BY <3>2, <1>b DEF AdmissionInv
      <4>. QED
        BY <3>1, <3>2, <4>1, <1>a, <1>d DEF Promise!Next, Promise!Refuse, Handling, Loosened
    <3>3. CASE ~admission
      <4>1. UNCHANGED admission
        BY <3>1, <3>3, <1>b DEF TypeOK, ServerTypes
      <4>. QED
        BY <3>1, <4>1, Invisible
    <3>. QED
      BY <3>2, <3>3
  <2>. QED
    BY <1>19, <2>1, <2>2 DEF ServeLoop
<1>20. CASE Client
  <2>1. UNCHANGED <<phase, stopCtx, admission, Stage>>
    BY <1>20 DEF Client, Connect, Admit, Health, Respond, Hijack, LooseReturns, ClientStep, Moves,
         Stage
  <2>2. CASE Connect \/ Health
    BY <2>1, <2>2, Invisible DEF Connect, Health, ClientStep, Moves
  <2>3. CASE Admit
    <3>1. conn = "reading" /\ UNCHANGED loose /\ conn' = IF admission THEN "handling" ELSE "none"
      BY <2>3 DEF Admit, ClientStep, Moves
    <3>2. CASE admission
      <4>1. Promise!Begin("request")
        BY <2>1, <3>1, <3>2 DEF Promise!Begin
      <4>. QED
        BY <4>1 DEF Promise!Next
    <3>3. CASE ~admission
      BY <2>1, <3>1, <3>3, Invisible
    <3>. QED
      BY <3>2, <3>3
  <2>4. CASE Respond
    <3>1. conn \in {"handling", "health"} /\ conn' = "none" /\ UNCHANGED loose
      BY <2>4 DEF Respond, ClientStep, Moves
    <3>2. CASE conn = "handling"
      <4>1. Promise!End("request")
        BY <2>1, <3>1, <3>2 DEF Promise!End
      <4>. QED
        BY <4>1 DEF Promise!Next
    <3>3. CASE conn = "health"
      BY <2>1, <3>1, <3>3, Invisible
    <3>. QED
      BY <3>1, <3>2, <3>3
  <2>5. CASE Hijack
    <3>1. conn = "handling" /\ conn' = "none" /\ loose' = TRUE
      BY <2>5 DEF Hijack, Moves
    <3>2. Handling = {"request"} /\ Handling' = {} /\ Loosened' = {"request"}
      BY <3>1 DEF Handling, Loosened
    <3>3. Loosened \subseteq {"request"}
      BY DEF Loosened
    <3>4. Promise!ComesLoose("request")
      BY <2>1, <3>1, <3>2, <3>3 DEF Promise!ComesLoose, Handling, Loosened
    <3>. QED
      BY <3>4 DEF Promise!Next
  <2>6. CASE LooseReturns
    <3>1. loose = TRUE /\ loose' = FALSE /\ UNCHANGED conn
      BY <2>6, <1>b DEF LooseReturns, TypeOK, ServerTypes
    <3>2. Promise!End("request")
      BY <2>1, <3>1 DEF Promise!End
    <3>. QED
      BY <3>2 DEF Promise!Next
  <2>. QED
    BY <1>20, <2>2, <2>3, <2>4, <2>5, <2>6 DEF Client
<1>. QED
  BY <1>4, <1>5, <1>6, <1>7, <1>8, <1>9, <1>10, <1>11, <1>12, <1>13, <1>14, <1>15, <1>16, <1>17,
     <1>18, <1>19, <1>20 DEF Next

\* Whatever fails, is cancelled or runs out of time, a run is one startup, at most one
\* period of admission and one release, when the server answers for no request any more or
\* the time is over; a handler that lost or took over its connection may go on, and began
\* in that one period of admission (hanami.go:146-171, server.go:140-155).
THEOREM ServiceCorrect == Spec => ImplementsService
<1>1. Init => Promise!Init
  BY DEF Init, Promise!Init, Stage, StartupPhases
<1>2. Inductive /\ Inductive' /\ [Next]_vars => [Promise!Next]_(Promise!vars)
  <2>1. UNCHANGED vars => UNCHANGED Promise!vars
    BY Invisible DEF vars, runVars, ctxVars, sharedVars, serverVars
  <2>. QED
    BY <2>1, ServiceStep
<1>. QED
  BY <1>1, <1>2, InductiveCorrect, PTL DEF Spec, ImplementsService, Promise!Spec
=============================================================================
