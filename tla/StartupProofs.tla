---------------------------- MODULE StartupProofs ----------------------------
(***************************************************************************)
(* Proofs about Startup, for every set of conditions, jobs and policies:   *)
(* what the stage of the scheduler's condition says about the scheduler,   *)
(* and what a stop of the scheduler leaves behind in the monitor.          *)
(***************************************************************************)
EXTENDS Startup, TLAPS

\* Where the scheduler's condition stands, and what it has made by then.
SchedulerInv ==
  /\ init = "idle" => native = "none"
  /\ init \in {"idle", "registering"} => ~ref /\ ~schedStarted
  /\ init = "registering" => native = "built"
  /\ init \in {"registering", "set", "cleared", "launched"} => run["scheduler"] = "running"
  /\ init \in {"set", "cleared", "launched"} => ref /\ registered = Jobs /\ ~schedStarted
  /\ init = "done" =>
       \/ run["scheduler"] = "ok" /\ ref /\ schedStarted /\ registered = Jobs
       \/ run["scheduler"] = "error" /\ ~ref /\ ~schedStarted /\ native = "down"
  /\ run["scheduler"] = "ok" => init = "done"
  /\ call # "none" => ref
  /\ native = "running" => ref
  /\ required = registered /\ running \subseteq registered

AllPassed == \A c \in Conditions : outcome[c] = "ok"

\* The application does not get to admission: nothing was initialized, or that failed.
GivenUp ==
  \/ \A c \in Conditions : run[c] = "none"
  \/ \E c \in Conditions : outcome[c] = "error"

\* What the Coordinator received, and where Run goes with it.
OutcomeInv ==
  /\ \A c \in Conditions : run[c] = "none" => outcome[c] = "none"
  /\ \A c \in Conditions : outcome[c] = "ok" => run[c] = "ok"
  /\ run["migrations"] = "ok" => policy = "disabled" \/ ~pending
  /\ runner = "starting" => \A c \in Conditions : run[c] = "none"
  /\ runner = "failed" => \E c \in Conditions : outcome[c] = "error"
  /\ runner \in {"initialized", "open"} => AllPassed
  /\ runner \in {"stopping", "hookMarked", "hookStopping", "stopped"} =>
       stopping /\ (GivenUp \/ AllPassed)

\* A stop hook that found a started scheduler shuts gocron down, for good.
StopInv ==
  /\ runner \in {"hookMarked", "hookStopping"} => schedStarted
  /\ runner = "hookStopping" => native = "down"
  /\ runner = "stopped" /\ ~GivenUp =>
       schedStarted /\ native = "down" /\ (stopExpired \/ asked = "stop" \/ running = {})

\* While gocron is not known to have failed, it runs, is about to be started, or was stopped by a call of
\* the application; and the intentional flag is a trace of such a call or of the stop hook.
MonitorInv ==
  /\ ~stopping /\ intentional => asked = "stop"
  /\ ref /\ ~failure /\ ~stopping =>
       \/ native = "running" \/ asked = "stop"
       \/ init \in {"set", "cleared"} /\ native # "down" /\ call \notin {"StopJobs", "Shutdown"}
  /\ runner = "hookMarked" /\ native = "running" => intentional \/ asked = "restart"

\* gocron reports the failure of a job under the name it is registered by.
NamesAgree == \A j \in Jobs : NativeName[j] = j

\* A failed job is a failure.
FailureInv == NamesAgree => (failedJobs # {} => failure)

Inductive ==
  TypeOK /\ SchedulerInv /\ OutcomeInv /\ StopInv /\ MonitorInv /\ FailureInv

-----------------------------------------------------------------------------
\* Every step keeps the types.
LEMMA TypeStep ==
  ASSUME TypeOK, [Next]_vars
  PROVE  TypeOK'
<1>. USE DEF TypeOK, RunnerTypes, ConditionTypes, SchedulerTypes, JobTypes, Conditions,
     runnerVars, conditionVars, schemaVars, monitorVars, schedulerVars, jobVars, appVars
<1>1. CASE InitializeBegins
  BY <1>1 DEF InitializeBegins
<1>2. CASE InitializeReturns
  BY <1>2 DEF InitializeReturns
<1>3. CASE OpenAdmission
  BY <1>3 DEF OpenAdmission
<1>4. CASE StopBegins
  BY <1>4 DEF StopBegins
<1>5. ASSUME NEW c \in Conditions, Collect(c) PROVE TypeOK'
  BY <1>5 DEF Collect, ConditionReturns, ConditionExpires, Receive
<1>6. ASSUME NEW c \in Others, OtherEnds(c) PROVE TypeOK'
  BY <1>6 DEF OtherEnds, Ends
<1>7. CASE MigrationsPass
  <2>1. RunnerTypes'
    BY <1>7 DEF MigrationsPass, Ends
  <2>2. ConditionTypes'
    BY <1>7 DEF MigrationsPass, Ends
  <2>3. SchedulerTypes'
    BY <1>7 DEF MigrationsPass, Ends
  <2>4. JobTypes'
    BY <1>7 DEF MigrationsPass, Ends
  <2>. QED
    BY <2>1, <2>2, <2>3, <2>4
<1>8. CASE MigrationsFail
  BY <1>8 DEF MigrationsFail, Ends
<1>9. CASE SchedulerRefuses
  BY <1>9 DEF SchedulerRefuses, Ends
<1>10. CASE SchedulerBuilds
  BY <1>10 DEF SchedulerBuilds
<1>11. CASE SchedulerFails
  BY <1>11 DEF SchedulerFails, Ends, Fail
<1>12. CASE SchedulerSets
  BY <1>12 DEF SchedulerSets
<1>13. CASE SchedulerClears
  <2>1. RunnerTypes'
    BY <1>13 DEF SchedulerClears
  <2>2. ConditionTypes'
    BY <1>13 DEF SchedulerClears
  <2>3. SchedulerTypes'
    BY <1>13 DEF SchedulerClears
  <2>4. JobTypes'
    BY <1>13 DEF SchedulerClears
  <2>. QED
    BY <2>1, <2>2, <2>3, <2>4
<1>14. CASE SchedulerLaunches
  <2>1. RunnerTypes'
    BY <1>14 DEF SchedulerLaunches, NativeStarts
  <2>2. ConditionTypes'
    BY <1>14 DEF SchedulerLaunches, NativeStarts
  <2>3. SchedulerTypes'
    BY <1>14 DEF SchedulerLaunches, NativeStarts
  <2>4. JobTypes'
    BY <1>14 DEF SchedulerLaunches, NativeStarts
  <2>. QED
    BY <2>1, <2>2, <2>3, <2>4
<1>15. CASE SchedulerPasses
  BY <1>15 DEF SchedulerPasses, Ends
<1>16. ASSUME NEW j \in Jobs, JobRegisters(j) PROVE TypeOK'
  BY <1>16 DEF JobRegisters
<1>17. CASE StopFindsNothing
  BY <1>17 DEF StopFindsNothing
<1>18. CASE StopMarks
  BY <1>18 DEF StopMarks
<1>19. CASE StopShutsDown
  <2>1. RunnerTypes'
    BY <1>19 DEF StopShutsDown, Stopped
  <2>2. ConditionTypes'
    BY <1>19 DEF StopShutsDown, Stopped
  <2>3. SchedulerTypes'
    BY <1>19 DEF StopShutsDown, Stopped
  <2>4. JobTypes'
    BY <1>19 DEF StopShutsDown, Stopped
  <2>. QED
    BY <2>1, <2>2, <2>3, <2>4
<1>20. CASE StopReturns
  BY <1>20 DEF StopReturns
<1>21. ASSUME NEW j \in Jobs, JobRuns(j) PROVE TypeOK'
  BY <1>21 DEF JobRuns
<1>22. ASSUME NEW j \in Jobs, JobCompletes(j) PROVE TypeOK'
  BY <1>22 DEF JobCompletes
<1>23. ASSUME NEW j \in Jobs, JobFails(j) PROVE TypeOK'
  BY <1>23 DEF JobFails
<1>24. ASSUME NEW method \in {"Start", "StopJobs", "Shutdown"}, RefCalls(method) PROVE TypeOK'
  BY <1>24 DEF RefCalls
<1>25. CASE RefStarts
  <2>1. RunnerTypes'
    BY <1>25 DEF RefStarts, NativeStarts
  <2>2. ConditionTypes'
    BY <1>25 DEF RefStarts, NativeStarts
  <2>3. SchedulerTypes'
    BY <1>25 DEF RefStarts, NativeStarts
  <2>4. JobTypes'
    BY <1>25 DEF RefStarts, NativeStarts
  <2>. QED
    BY <2>1, <2>2, <2>3, <2>4
<1>26. CASE RefStops
  <2>1. RunnerTypes'
    BY <1>26 DEF RefStops, Stopped
  <2>2. ConditionTypes'
    BY <1>26 DEF RefStops, Stopped
  <2>3. SchedulerTypes'
    BY <1>26 DEF RefStops, Stopped
  <2>4. JobTypes'
    BY <1>26 DEF RefStops, Stopped
  <2>. QED
    BY <2>1, <2>2, <2>3, <2>4
<1>27. CASE NativeStops
  <2>1. RunnerTypes'
    BY <1>27 DEF NativeStops, Stopped
  <2>2. ConditionTypes'
    BY <1>27 DEF NativeStops, Stopped
  <2>3. SchedulerTypes'
    BY <1>27 DEF NativeStops, Stopped
  <2>4. JobTypes'
    BY <1>27 DEF NativeStops, Stopped
  <2>. QED
    BY <2>1, <2>2, <2>3, <2>4
<1>28. CASE StartupExpires
  BY <1>28 DEF StartupExpires
<1>29. CASE StopExpires
  BY <1>29 DEF StopExpires
<1>30. CASE UNCHANGED vars
  BY <1>30 DEF vars
<1>. QED
  BY <1>1, <1>2, <1>3, <1>4, <1>5, <1>6, <1>7, <1>8, <1>9, <1>10, <1>11, <1>12, <1>13, <1>14,
       <1>15, <1>16, <1>17, <1>18, <1>19, <1>20, <1>21, <1>22, <1>23, <1>24, <1>25, <1>26, <1>27,
       <1>28, <1>29, <1>30 DEF Next, SchedulerStep, StopStep

\* Every step keeps the scheduler's condition and what it has made in agreement.
LEMMA SchedulerStepInv ==
  ASSUME TypeOK, OutcomeInv, StopInv, SchedulerInv, [Next]_vars
  PROVE  SchedulerInv'
<1>. USE StartupAssumption
<1>. USE DEF TypeOK, RunnerTypes, ConditionTypes, SchedulerTypes, JobTypes, SchedulerInv,
     OutcomeInv, StopInv, Conditions, runnerVars, conditionVars, schemaVars, monitorVars,
     schedulerVars, jobVars, appVars
<1>1. CASE InitializeBegins
  BY <1>1 DEF InitializeBegins
<1>2. CASE InitializeReturns
  BY <1>2 DEF InitializeReturns
<1>3. CASE OpenAdmission
  BY <1>3 DEF OpenAdmission
<1>4. CASE StopBegins
  BY <1>4 DEF StopBegins
<1>5. ASSUME NEW c \in Conditions, Collect(c) PROVE SchedulerInv'
  BY <1>5 DEF Collect, ConditionReturns, ConditionExpires, Receive
<1>6. ASSUME NEW c \in Others, OtherEnds(c) PROVE SchedulerInv'
  BY <1>6 DEF OtherEnds, Ends
<1>7. CASE MigrationsPass
  BY <1>7 DEF MigrationsPass, Ends
<1>8. CASE MigrationsFail
  BY <1>8 DEF MigrationsFail, Ends
<1>9. CASE SchedulerRefuses
  BY <1>9 DEF SchedulerRefuses, Ends
<1>10. CASE SchedulerBuilds
  BY <1>10 DEF SchedulerBuilds
<1>11. CASE SchedulerFails
  BY <1>11 DEF SchedulerFails, Ends, Fail
<1>12. CASE SchedulerSets
  BY <1>12 DEF SchedulerSets
<1>13. CASE SchedulerClears
  BY <1>13 DEF SchedulerClears
<1>14. CASE SchedulerLaunches
  BY <1>14 DEF SchedulerLaunches, NativeStarts
<1>15. CASE SchedulerPasses
  BY <1>15 DEF SchedulerPasses, Ends
<1>16. ASSUME NEW j \in Jobs, JobRegisters(j) PROVE SchedulerInv'
  BY <1>16 DEF JobRegisters
<1>17. CASE StopFindsNothing
  BY <1>17 DEF StopFindsNothing
<1>18. CASE StopMarks
  BY <1>18 DEF StopMarks
<1>19. CASE StopShutsDown
  BY <1>19 DEF StopShutsDown, Stopped
<1>20. CASE StopReturns
  BY <1>20 DEF StopReturns
<1>21. ASSUME NEW j \in Jobs, JobRuns(j) PROVE SchedulerInv'
  BY <1>21 DEF JobRuns
<1>22. ASSUME NEW j \in Jobs, JobCompletes(j) PROVE SchedulerInv'
  BY <1>22 DEF JobCompletes
<1>23. ASSUME NEW j \in Jobs, JobFails(j) PROVE SchedulerInv'
  BY <1>23 DEF JobFails
<1>24. ASSUME NEW method \in {"Start", "StopJobs", "Shutdown"}, RefCalls(method) PROVE SchedulerInv'
  BY <1>24 DEF RefCalls
<1>25. CASE RefStarts
  BY <1>25 DEF RefStarts, NativeStarts
<1>26. CASE RefStops
  BY <1>26 DEF RefStops, Stopped
<1>27. CASE NativeStops
  BY <1>27 DEF NativeStops, Stopped
<1>28. CASE StartupExpires
  BY <1>28 DEF StartupExpires
<1>29. CASE StopExpires
  BY <1>29 DEF StopExpires
<1>30. CASE UNCHANGED vars
  BY <1>30 DEF vars
<1>. QED
  BY <1>1, <1>2, <1>3, <1>4, <1>5, <1>6, <1>7, <1>8, <1>9, <1>10, <1>11, <1>12, <1>13, <1>14,
       <1>15, <1>16, <1>17, <1>18, <1>19, <1>20, <1>21, <1>22, <1>23, <1>24, <1>25, <1>26, <1>27,
       <1>28, <1>29, <1>30 DEF Next, SchedulerStep, StopStep

\* Every step keeps what the Coordinator received true.
LEMMA OutcomeStep ==
  ASSUME TypeOK, OutcomeInv, [Next]_vars
  PROVE  OutcomeInv'
<1>. USE StartupAssumption
<1>. USE DEF TypeOK, RunnerTypes, ConditionTypes, SchedulerTypes, JobTypes, OutcomeInv, GivenUp,
     AllPassed, Conditions, runnerVars, conditionVars, schemaVars, monitorVars, schedulerVars,
     jobVars, appVars
<1>1. CASE InitializeBegins
  BY <1>1 DEF InitializeBegins
<1>2. CASE InitializeReturns
  BY <1>2 DEF InitializeReturns
<1>3. CASE OpenAdmission
  BY <1>3 DEF OpenAdmission
<1>4. CASE StopBegins
  BY <1>4 DEF StopBegins
<1>5. ASSUME NEW c \in Conditions, Collect(c) PROVE OutcomeInv'
  BY <1>5 DEF Collect, ConditionReturns, ConditionExpires, Receive
<1>6. ASSUME NEW c \in Others, OtherEnds(c) PROVE OutcomeInv'
  BY <1>6 DEF OtherEnds, Ends
<1>7. CASE MigrationsPass
  BY <1>7 DEF MigrationsPass, Ends
<1>8. CASE MigrationsFail
  BY <1>8 DEF MigrationsFail, Ends
<1>9. CASE SchedulerRefuses
  BY <1>9 DEF SchedulerRefuses, Ends
<1>10. CASE SchedulerBuilds
  BY <1>10 DEF SchedulerBuilds
<1>11. CASE SchedulerFails
  BY <1>11 DEF SchedulerFails, Ends, Fail
<1>12. CASE SchedulerSets
  BY <1>12 DEF SchedulerSets
<1>13. CASE SchedulerClears
  BY <1>13 DEF SchedulerClears
<1>14. CASE SchedulerLaunches
  BY <1>14 DEF SchedulerLaunches, NativeStarts
<1>15. CASE SchedulerPasses
  BY <1>15 DEF SchedulerPasses, Ends
<1>16. ASSUME NEW j \in Jobs, JobRegisters(j) PROVE OutcomeInv'
  BY <1>16 DEF JobRegisters
<1>17. CASE StopFindsNothing
  BY <1>17 DEF StopFindsNothing
<1>18. CASE StopMarks
  BY <1>18 DEF StopMarks
<1>19. CASE StopShutsDown
  BY <1>19 DEF StopShutsDown, Stopped
<1>20. CASE StopReturns
  BY <1>20 DEF StopReturns
<1>21. ASSUME NEW j \in Jobs, JobRuns(j) PROVE OutcomeInv'
  BY <1>21 DEF JobRuns
<1>22. ASSUME NEW j \in Jobs, JobCompletes(j) PROVE OutcomeInv'
  BY <1>22 DEF JobCompletes
<1>23. ASSUME NEW j \in Jobs, JobFails(j) PROVE OutcomeInv'
  BY <1>23 DEF JobFails
<1>24. ASSUME NEW method \in {"Start", "StopJobs", "Shutdown"}, RefCalls(method) PROVE OutcomeInv'
  BY <1>24 DEF RefCalls
<1>25. CASE RefStarts
  BY <1>25 DEF RefStarts, NativeStarts
<1>26. CASE RefStops
  BY <1>26 DEF RefStops, Stopped
<1>27. CASE NativeStops
  BY <1>27 DEF NativeStops, Stopped
<1>28. CASE StartupExpires
  BY <1>28 DEF StartupExpires
<1>29. CASE StopExpires
  BY <1>29 DEF StopExpires
<1>30. CASE UNCHANGED vars
  BY <1>30 DEF vars
<1>. QED
  BY <1>1, <1>2, <1>3, <1>4, <1>5, <1>6, <1>7, <1>8, <1>9, <1>10, <1>11, <1>12, <1>13, <1>14,
       <1>15, <1>16, <1>17, <1>18, <1>19, <1>20, <1>21, <1>22, <1>23, <1>24, <1>25, <1>26, <1>27,
       <1>28, <1>29, <1>30 DEF Next, SchedulerStep, StopStep

\* A gocron that the stop hook has shut down stays down.
LEMMA StopStepInv ==
  ASSUME TypeOK, SchedulerInv, OutcomeInv, StopInv, [Next]_vars
  PROVE  StopInv'
<1>. USE DEF TypeOK, RunnerTypes, ConditionTypes, SchedulerTypes, JobTypes, SchedulerInv,
     OutcomeInv, StopInv, GivenUp, AllPassed, Conditions, runnerVars, conditionVars, schemaVars,
     monitorVars, schedulerVars, jobVars, appVars
<1>1. CASE InitializeBegins
  BY <1>1 DEF InitializeBegins
<1>2. CASE InitializeReturns
  BY <1>2 DEF InitializeReturns
<1>3. CASE OpenAdmission
  BY <1>3 DEF OpenAdmission
<1>4. CASE StopBegins
  BY <1>4 DEF StopBegins
<1>5. ASSUME NEW c \in Conditions, Collect(c) PROVE StopInv'
  BY <1>5 DEF Collect, ConditionReturns, ConditionExpires, Receive
<1>6. ASSUME NEW c \in Others, OtherEnds(c) PROVE StopInv'
  BY <1>6 DEF OtherEnds, Ends
<1>7. CASE MigrationsPass
  BY <1>7 DEF MigrationsPass, Ends
<1>8. CASE MigrationsFail
  BY <1>8 DEF MigrationsFail, Ends
<1>9. CASE SchedulerRefuses
  BY <1>9 DEF SchedulerRefuses, Ends
<1>10. CASE SchedulerBuilds
  BY <1>10 DEF SchedulerBuilds
<1>11. CASE SchedulerFails
  BY <1>11 DEF SchedulerFails, Ends, Fail
<1>12. CASE SchedulerSets
  BY <1>12 DEF SchedulerSets
<1>13. CASE SchedulerClears
  BY <1>13 DEF SchedulerClears
<1>14. CASE SchedulerLaunches
  BY <1>14 DEF SchedulerLaunches, NativeStarts
<1>15. CASE SchedulerPasses
  BY <1>15 DEF SchedulerPasses, Ends
<1>16. ASSUME NEW j \in Jobs, JobRegisters(j) PROVE StopInv'
  BY <1>16 DEF JobRegisters
<1>17. CASE StopFindsNothing
  BY <1>17 DEF StopFindsNothing
<1>18. CASE StopMarks
  BY <1>18 DEF StopMarks
<1>19. CASE StopShutsDown
  BY <1>19 DEF StopShutsDown, Stopped
<1>20. CASE StopReturns
  BY <1>20 DEF StopReturns
<1>21. ASSUME NEW j \in Jobs, JobRuns(j) PROVE StopInv'
  BY <1>21 DEF JobRuns
<1>22. ASSUME NEW j \in Jobs, JobCompletes(j) PROVE StopInv'
  BY <1>22 DEF JobCompletes
<1>23. ASSUME NEW j \in Jobs, JobFails(j) PROVE StopInv'
  BY <1>23 DEF JobFails
<1>24. ASSUME NEW method \in {"Start", "StopJobs", "Shutdown"}, RefCalls(method) PROVE StopInv'
  BY <1>24 DEF RefCalls
<1>25. CASE RefStarts
  BY <1>25 DEF RefStarts, NativeStarts
<1>26. CASE RefStops
  BY <1>26 DEF RefStops, Stopped
<1>27. CASE NativeStops
  BY <1>27 DEF NativeStops, Stopped
<1>28. CASE StartupExpires
  BY <1>28 DEF StartupExpires
<1>29. CASE StopExpires
  BY <1>29 DEF StopExpires
<1>30. CASE UNCHANGED vars
  BY <1>30 DEF vars
<1>. QED
  BY <1>1, <1>2, <1>3, <1>4, <1>5, <1>6, <1>7, <1>8, <1>9, <1>10, <1>11, <1>12, <1>13, <1>14,
       <1>15, <1>16, <1>17, <1>18, <1>19, <1>20, <1>21, <1>22, <1>23, <1>24, <1>25, <1>26, <1>27,
       <1>28, <1>29, <1>30 DEF Next, SchedulerStep, StopStep

\* Every stop of gocron leaves a trace.
LEMMA MonitorStep ==
  ASSUME TypeOK, SchedulerInv, OutcomeInv, StopInv, MonitorInv, [Next]_vars
  PROVE  MonitorInv'
<1>. USE DEF TypeOK, RunnerTypes, ConditionTypes, SchedulerTypes, JobTypes, SchedulerInv,
     OutcomeInv, StopInv, MonitorInv, runnerVars, conditionVars, schemaVars, monitorVars,
     schedulerVars, jobVars, appVars
<1>1. CASE InitializeBegins
  BY <1>1 DEF InitializeBegins
<1>2. CASE InitializeReturns
  BY <1>2 DEF InitializeReturns
<1>3. CASE OpenAdmission
  BY <1>3 DEF OpenAdmission
<1>4. CASE StopBegins
  BY <1>4 DEF StopBegins
<1>5. ASSUME NEW c \in Conditions, Collect(c) PROVE MonitorInv'
  BY <1>5 DEF Collect, ConditionReturns, ConditionExpires, Receive
<1>6. ASSUME NEW c \in Others, OtherEnds(c) PROVE MonitorInv'
  BY <1>6 DEF OtherEnds, Ends
<1>7. CASE MigrationsPass
  BY <1>7 DEF MigrationsPass, Ends
<1>8. CASE MigrationsFail
  BY <1>8 DEF MigrationsFail, Ends
<1>9. CASE SchedulerRefuses
  BY <1>9 DEF SchedulerRefuses, Ends
<1>10. CASE SchedulerBuilds
  BY <1>10 DEF SchedulerBuilds
<1>11. CASE SchedulerFails
  BY <1>11 DEF SchedulerFails, Ends, Fail
<1>12. CASE SchedulerSets
  BY <1>12 DEF SchedulerSets
<1>13. CASE SchedulerClears
  BY <1>13 DEF SchedulerClears
<1>14. CASE SchedulerLaunches
  BY <1>14 DEF SchedulerLaunches, NativeStarts
<1>15. CASE SchedulerPasses
  BY <1>15 DEF SchedulerPasses, Ends
<1>16. ASSUME NEW j \in Jobs, JobRegisters(j) PROVE MonitorInv'
  BY <1>16 DEF JobRegisters
<1>17. CASE StopFindsNothing
  BY <1>17 DEF StopFindsNothing
<1>18. CASE StopMarks
  BY <1>18 DEF StopMarks
<1>19. CASE StopShutsDown
  BY <1>19 DEF StopShutsDown, Stopped
<1>20. CASE StopReturns
  BY <1>20 DEF StopReturns
<1>21. ASSUME NEW j \in Jobs, JobRuns(j) PROVE MonitorInv'
  BY <1>21 DEF JobRuns
<1>22. ASSUME NEW j \in Jobs, JobCompletes(j) PROVE MonitorInv'
  BY <1>22 DEF JobCompletes
<1>23. ASSUME NEW j \in Jobs, JobFails(j) PROVE MonitorInv'
  BY <1>23 DEF JobFails
<1>24. ASSUME NEW method \in {"Start", "StopJobs", "Shutdown"}, RefCalls(method) PROVE MonitorInv'
  BY <1>24 DEF RefCalls
<1>25. CASE RefStarts
  BY <1>25 DEF RefStarts, NativeStarts
<1>26. CASE RefStops
  BY <1>26 DEF RefStops, Stopped
<1>27. CASE NativeStops
  BY <1>27 DEF NativeStops, Stopped
<1>28. CASE StartupExpires
  BY <1>28 DEF StartupExpires
<1>29. CASE StopExpires
  BY <1>29 DEF StopExpires
<1>30. CASE UNCHANGED vars
  BY <1>30 DEF vars
<1>. QED
  BY <1>1, <1>2, <1>3, <1>4, <1>5, <1>6, <1>7, <1>8, <1>9, <1>10, <1>11, <1>12, <1>13, <1>14,
       <1>15, <1>16, <1>17, <1>18, <1>19, <1>20, <1>21, <1>22, <1>23, <1>24, <1>25, <1>26, <1>27,
       <1>28, <1>29, <1>30 DEF Next, SchedulerStep, StopStep

\* Every failed job leaves a trace.
LEMMA FailureStep ==
  ASSUME TypeOK, SchedulerInv, FailureInv, [Next]_vars
  PROVE  FailureInv'
<1>. USE DEF TypeOK, RunnerTypes, ConditionTypes, SchedulerTypes, JobTypes, SchedulerInv,
     FailureInv, NamesAgree, runnerVars, conditionVars, schemaVars, monitorVars, schedulerVars,
     jobVars, appVars
<1>1. CASE InitializeBegins
  BY <1>1 DEF InitializeBegins
<1>2. CASE InitializeReturns
  BY <1>2 DEF InitializeReturns
<1>3. CASE OpenAdmission
  BY <1>3 DEF OpenAdmission
<1>4. CASE StopBegins
  BY <1>4 DEF StopBegins
<1>5. ASSUME NEW c \in Conditions, Collect(c) PROVE FailureInv'
  BY <1>5 DEF Collect, ConditionReturns, ConditionExpires, Receive
<1>6. ASSUME NEW c \in Others, OtherEnds(c) PROVE FailureInv'
  BY <1>6 DEF OtherEnds, Ends
<1>7. CASE MigrationsPass
  BY <1>7 DEF MigrationsPass, Ends
<1>8. CASE MigrationsFail
  BY <1>8 DEF MigrationsFail, Ends
<1>9. CASE SchedulerRefuses
  BY <1>9 DEF SchedulerRefuses, Ends
<1>10. CASE SchedulerBuilds
  BY <1>10 DEF SchedulerBuilds
<1>11. CASE SchedulerFails
  BY <1>11 DEF SchedulerFails, Ends, Fail
<1>12. CASE SchedulerSets
  BY <1>12 DEF SchedulerSets
<1>13. CASE SchedulerClears
  BY <1>13 DEF SchedulerClears
<1>14. CASE SchedulerLaunches
  BY <1>14 DEF SchedulerLaunches, NativeStarts
<1>15. CASE SchedulerPasses
  BY <1>15 DEF SchedulerPasses, Ends
<1>16. ASSUME NEW j \in Jobs, JobRegisters(j) PROVE FailureInv'
  BY <1>16 DEF JobRegisters
<1>17. CASE StopFindsNothing
  BY <1>17 DEF StopFindsNothing
<1>18. CASE StopMarks
  BY <1>18 DEF StopMarks
<1>19. CASE StopShutsDown
  BY <1>19 DEF StopShutsDown, Stopped
<1>20. CASE StopReturns
  BY <1>20 DEF StopReturns
<1>21. ASSUME NEW j \in Jobs, JobRuns(j) PROVE FailureInv'
  BY <1>21 DEF JobRuns
<1>22. ASSUME NEW j \in Jobs, JobCompletes(j) PROVE FailureInv'
  BY <1>22 DEF JobCompletes
<1>23. ASSUME NEW j \in Jobs, JobFails(j) PROVE FailureInv'
  BY <1>23 DEF JobFails
<1>24. ASSUME NEW method \in {"Start", "StopJobs", "Shutdown"}, RefCalls(method) PROVE FailureInv'
  BY <1>24 DEF RefCalls
<1>25. CASE RefStarts
  BY <1>25 DEF RefStarts, NativeStarts
<1>26. CASE RefStops
  BY <1>26 DEF RefStops, Stopped
<1>27. CASE NativeStops
  BY <1>27 DEF NativeStops, Stopped
<1>28. CASE StartupExpires
  BY <1>28 DEF StartupExpires
<1>29. CASE StopExpires
  BY <1>29 DEF StopExpires
<1>30. CASE UNCHANGED vars
  BY <1>30 DEF vars
<1>. QED
  BY <1>1, <1>2, <1>3, <1>4, <1>5, <1>6, <1>7, <1>8, <1>9, <1>10, <1>11, <1>12, <1>13, <1>14,
       <1>15, <1>16, <1>17, <1>18, <1>19, <1>20, <1>21, <1>22, <1>23, <1>24, <1>25, <1>26, <1>27,
       <1>28, <1>29, <1>30 DEF Next, SchedulerStep, StopStep

-----------------------------------------------------------------------------
(* Theorems.                                                               *)

\* The scheduler's condition, the Coordinator, the stop hook, the monitor and the calls of
\* the application keep their bookkeeping in agreement through every interleaving.
THEOREM InductiveCorrect == Spec => []Inductive
<1>1. Init => Inductive
  <2>. SUFFICES ASSUME Init PROVE Inductive
    OBVIOUS
  <2>1. TypeOK
    BY DEF Init, TypeOK, RunnerTypes, ConditionTypes, SchedulerTypes, JobTypes
  <2>2. SchedulerInv
    BY DEF Init, SchedulerInv, Conditions
  <2>3. OutcomeInv
    BY DEF Init, OutcomeInv, Conditions
  <2>4. StopInv /\ MonitorInv /\ FailureInv
    BY DEF Init, StopInv, MonitorInv, FailureInv
  <2>. QED
    BY <2>1, <2>2, <2>3, <2>4 DEF Inductive
<1>2. Inductive /\ [Next]_vars => Inductive'
  BY TypeStep, SchedulerStepInv, OutcomeStep, StopStepInv, MonitorStep, FailureStep DEF Inductive
<1>. QED
  BY <1>1, <1>2, PTL DEF Spec

\* The values of the variables.
THEOREM TypeCorrect == Spec => []TypeOK
<1>1. Inductive => TypeOK
  BY DEF Inductive
<1>. QED
  BY <1>1, InductiveCorrect, PTL

\* Admission opens only after every condition itself has passed, whatever their number and
\* whichever of them have a timeout of their own (condition.go:71-114).
THEOREM AdmissionCorrect == Spec => []AdmissionNeedsConditions
<1>1. Inductive => AdmissionNeedsConditions
  BY DEF Inductive, OutcomeInv, SchedulerInv, AllPassed, Conditions, AdmissionNeedsConditions
<1>. QED
  BY <1>1, InductiveCorrect, PTL

\* An application that got to admission leaves no gocron behind when it has stopped, and no
\* job unless the hook ran out of time or the application shut gocron down itself
\* (scheduler.go:179-195).
THEOREM StopCorrect == Spec => []StopAfterAdmission
<1>1. Inductive => StopAfterAdmission
  <2>. SUFFICES ASSUME Inductive, runner = "stopped", \A c \in Conditions : outcome[c] = "ok"
                PROVE  native = "down" /\ (stopExpired \/ asked = "stop" \/ running = {})
    BY DEF StopAfterAdmission
  <2>1. "scheduler" \in Conditions
    BY DEF Conditions
  <2>2. ~GivenUp
    BY <2>1 DEF Inductive, OutcomeInv, GivenUp
  <2>. QED
    BY <2>2 DEF Inductive, StopInv
<1>. QED
  BY <1>1, InductiveCorrect, PTL

\* A readiness check that passes is right, if gocron reports each job by the name it was
\* registered by, as it does for a job that Register creates under Job.Name
\* (scheduler.go:196-207, 345-378).
THEOREM HealthCorrect ==
  ASSUME NamesAgree
  PROVE  Spec => []HealthTellsTruth
<1>1. Inductive => HealthTellsTruth
  BY DEF Inductive, TypeOK, SchedulerTypes, SchedulerInv, MonitorInv, FailureInv,
         HealthTellsTruth, HealthPasses
<1>. QED
  BY <1>1, InductiveCorrect, PTL

\* The stop hook's own shutdown of gocron is not counted as a failure, unless a Start of the
\* application crosses it (scheduler.go:179-195, 234-299).
THEOREM OrderlyStopCorrect == Spec => OrderlyStopIsClean
<1>1. Inductive /\ [Next]_vars =>
        [native = "running" /\ native' = "down" /\ runner' # runner /\ asked # "restart" =>
           failure' = failure]_vars
  <2>. SUFFICES ASSUME Inductive, Next, native = "running", native' = "down", runner' # runner,
                       asked # "restart"
                PROVE  failure' = failure
    OBVIOUS
  <2>1. StopShutsDown
    BY DEF Next, SchedulerStep, StopStep, InitializeBegins, InitializeReturns, OpenAdmission,
           StopBegins, Collect, ConditionReturns, ConditionExpires, Receive, OtherEnds,
           MigrationsPass, MigrationsFail, SchedulerRefuses, SchedulerBuilds, SchedulerFails,
           SchedulerSets, SchedulerClears, SchedulerLaunches, SchedulerPasses, JobRegisters,
           StopFindsNothing, StopMarks, StopReturns, JobRuns, JobCompletes, JobFails, RefCalls,
           RefStarts, RefStops, NativeStops, StartupExpires, StopExpires, runnerVars,
           schedulerVars
  <2>2. intentional
    BY <2>1 DEF StopShutsDown, Inductive, MonitorInv
  <2>3. failure \in BOOLEAN
    BY DEF Inductive, TypeOK, SchedulerTypes
  <2>4. failure' = (failure \/ ~intentional)
    BY <2>1 DEF StopShutsDown, Stopped
  <2>. QED
    BY <2>2, <2>3, <2>4
<1>. QED
  BY <1>1, InductiveCorrect, PTL DEF Spec, OrderlyStopIsClean
=============================================================================
