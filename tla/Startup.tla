------------------------------- MODULE Startup -------------------------------
(***************************************************************************)
(* The startup conditions of an application and the scheduler's life:      *)
(* bootstrap.Coordinator, the conditions of migration.Manager and of the   *)
(* scheduler runtime, and the scheduler's shutdown hook.                   *)
(*                                                                         *)
(* Every condition runs in a goroutine of its own, beside a goroutine that *)
(* waits for it or for its context; the scheduler's condition and its stop *)
(* hook share atomics only.  Run (hanami.go) is the runner: it starts the  *)
(* hooks, initializes, opens admission and stops.  Goose and gocron are    *)
(* external.                                                               *)
(***************************************************************************)
EXTENDS Naturals, FiniteSets

CONSTANTS
  Others,     \* further startup conditions of the application
  Bounded,    \* the conditions that have a Timeout of their own
  Policies,   \* migration policies considered
  Jobs,       \* scheduler.Job.Name of the registered jobs
  NativeName  \* the name gocron reports for each job

Conditions == Others \cup {"migrations", "scheduler"}

ASSUME StartupAssumption ==
  /\ Others \cap {"migrations", "scheduler"} = {}
  /\ Bounded \subseteq Others
  /\ Policies \subseteq {"disabled", "validate_only", "migrate_before_start"}
  /\ Jobs # {}

VARIABLES
  runner,      \* where Run stands with these components
  expired,     \* startupContext is done
  stopExpired, \* the context of the stop hook is done
  run,         \* the goroutine inside every condition
  outcome,     \* what the Coordinator received for every condition
  policy,      \* migration.Config.Policy
  pending,     \* the database has unapplied migrations
  init,        \* where runtime.initialize stands
  registered,  \* jobs native knows
  required,    \* monitor.required
  native,      \* the gocron scheduler
  ref,         \* schedulerRef.native is set
  schedStarted, \* runtime.started
  stopping,    \* runtime.stopping
  intentional, \* monitor.intentionalStop
  failure,     \* monitor.failure
  running,     \* jobs that are executing
  failedJobs,  \* jobs that have failed
  call,        \* the call of the application on schedulerRef that is under way
  asked        \* what such calls have made of gocron since it was last started

runnerVars    == <<runner, expired, stopExpired>>
conditionVars == <<run, outcome>>
schemaVars    == <<policy, pending>>
monitorVars   == <<required, intentional, failure>>
schedulerVars == <<init, registered, native, ref, schedStarted, stopping>>
jobVars       == <<running, failedJobs>>
appVars       == <<call, asked>>
vars == <<runnerVars, conditionVars, schemaVars, monitorVars, schedulerVars, jobVars, appVars>>

RunnerTypes ==
  /\ runner \in {"starting", "initializing", "initialized", "failed", "open",
                 "stopping", "hookStopping", "hookMarked", "stopped"}
  /\ expired \in BOOLEAN /\ stopExpired \in BOOLEAN

ConditionTypes ==
  /\ run \in [Conditions -> {"none", "running", "ok", "error"}]
  /\ outcome \in [Conditions -> {"none", "ok", "error"}]
  /\ policy \in Policies /\ pending \in BOOLEAN

SchedulerTypes ==
  /\ init \in {"idle", "registering", "set", "cleared", "launched", "done"}
  /\ native \in {"none", "built", "running", "halted", "down"}
  /\ ref \in BOOLEAN /\ schedStarted \in BOOLEAN /\ stopping \in BOOLEAN
  /\ intentional \in BOOLEAN /\ failure \in BOOLEAN

JobTypes ==
  /\ registered \subseteq Jobs /\ required \subseteq Jobs
  /\ running \subseteq Jobs /\ failedJobs \subseteq Jobs
  /\ call \in {"none", "Start", "StopJobs", "Shutdown"}
  /\ asked \in {"nothing", "stop", "restart"}

TypeOK == RunnerTypes /\ ConditionTypes /\ SchedulerTypes /\ JobTypes

Init ==
  /\ runner = "starting" /\ expired = FALSE /\ stopExpired = FALSE
  /\ run = [c \in Conditions |-> "none"] /\ outcome = [c \in Conditions |-> "none"]
  /\ policy \in Policies /\ pending \in BOOLEAN
  /\ init = "idle" /\ registered = {} /\ required = {}
  /\ native = "none" /\ ref = FALSE
  /\ schedStarted = FALSE /\ stopping = FALSE
  /\ intentional = FALSE /\ failure = FALSE
  /\ running = {} /\ failedJobs = {}
  /\ call = "none" /\ asked = "nothing"

-----------------------------------------------------------------------------
(* Coordinator.Initialize, called once by Run.                             *)

InitializeBegins ==
  /\ runner = "starting"
  /\ runner' = "initializing"
  /\ run' = [c \in Conditions |-> "running"]
  /\ UNCHANGED <<expired, stopExpired, outcome, schemaVars, monitorVars, schedulerVars, jobVars,
                 appVars>>

Receive(c, o) ==
  /\ outcome[c] = "none" /\ run[c] # "none"
  /\ outcome' = [outcome EXCEPT ![c] = o]
  /\ UNCHANGED <<runnerVars, run, schemaVars, monitorVars, schedulerVars, jobVars, appVars>>

ConditionReturns(c) == run[c] \in {"ok", "error"} /\ Receive(c, run[c])

\* Mutant: the context's error is not put in the place of the missing result.
ConditionExpiresUnset(c) == (expired \/ c \in Bounded) /\ Receive(c, run[c])
\* Mutant: the wait has no way out but the condition itself.
ConditionNeverExpires(c) == FALSE /\ Receive(c, "error")
\* The condition's context is done; its goroutine is left running.
ConditionExpires(c) == (expired \/ c \in Bounded) /\ Receive(c, "error")

InitializeReturns ==
  /\ runner = "initializing"
  /\ \A c \in Conditions : outcome[c] # "none"
  /\ runner' = IF \E c \in Conditions : outcome[c] = "error" THEN "failed" ELSE "initialized"
  /\ UNCHANGED <<expired, stopExpired, conditionVars, schemaVars, monitorVars, schedulerVars,
                 jobVars, appVars>>

Ends(c, o) == run[c] = "running" /\ run' = [run EXCEPT ![c] = o]

\* A condition of the application.
OtherEnds(c) ==
  /\ \E o \in {"ok", "error"} : Ends(c, o)
  /\ UNCHANGED <<runnerVars, outcome, schemaVars, monitorVars, schedulerVars, jobVars, appVars>>

\* Mutant: Validate reports the pending migrations of no policy.
MigrationsUnchecked ==
  /\ Ends("migrations", "ok")
  /\ UNCHANGED <<runnerVars, outcome, schemaVars, monitorVars, schedulerVars, jobVars, appVars>>
\* Condition of the migration manager: nothing, Validate, or Migrate.
MigrationsPass ==
  /\ \/ policy = "disabled" /\ UNCHANGED pending
     \/ policy = "validate_only" /\ ~pending /\ UNCHANGED pending
     \/ policy = "migrate_before_start" /\ pending' = FALSE
  /\ Ends("migrations", "ok")
  /\ UNCHANGED <<runnerVars, outcome, policy, monitorVars, schedulerVars, jobVars, appVars>>

\* The database refuses, or migrations are pending under ValidateOnly.
MigrationsFail ==
  /\ policy # "disabled"
  /\ Ends("migrations", "error")
  /\ UNCHANGED <<runnerVars, outcome, schemaVars, monitorVars, schedulerVars, jobVars, appVars>>

-----------------------------------------------------------------------------
(* runtime.initialize, the scheduler's condition.                          *)

Fail == failure' = TRUE /\ UNCHANGED <<required, intentional>>

\* The stopping flag is read once, at the beginning.
SchedulerRefuses ==
  /\ init = "idle" /\ stopping
  /\ Ends("scheduler", "error")
  /\ UNCHANGED <<runnerVars, outcome, schemaVars, monitorVars, schedulerVars, jobVars, appVars>>

SchedulerBuilds ==
  /\ init = "idle" /\ ~stopping /\ run["scheduler"] = "running"
  /\ init' = "registering" /\ native' = "built"
  /\ UNCHANGED <<runnerVars, conditionVars, schemaVars, monitorVars, registered, ref,
                 schedStarted, stopping, jobVars, appVars>>

JobRegisters(j) ==
  /\ init = "registering" /\ j \notin registered
  /\ registered' = registered \cup {j} /\ required' = required \cup {j}
  /\ UNCHANGED <<runnerVars, conditionVars, schemaVars, intentional, failure, init, native, ref,
                 schedStarted, stopping, jobVars, appVars>>

\* NewScheduler fails, or one of the jobs has no name or no Register, comes
\* twice, or is refused by gocron: native is shut down again.
SchedulerFails ==
  /\ init = "registering" /\ registered # Jobs
  /\ native' = "down" /\ init' = "done"
  /\ Ends("scheduler", "error") /\ Fail
  /\ UNCHANGED <<runnerVars, outcome, schemaVars, registered, ref, schedStarted, stopping,
                 jobVars, appVars>>

\* ref.set(native).
SchedulerSets ==
  /\ init = "registering" /\ registered = Jobs
  /\ ref' = TRUE /\ init' = "set"
  /\ UNCHANGED <<runnerVars, conditionVars, schemaVars, monitorVars, registered, native,
                 schedStarted, stopping, jobVars, appVars>>

\* ref.start: the flag is cleared, then native is started.
SchedulerClears ==
  /\ init = "set"
  /\ intentional' = FALSE /\ init' = "cleared"
  /\ UNCHANGED <<runnerVars, conditionVars, schemaVars, required, failure, registered, native,
                 ref, schedStarted, stopping, jobVars, appVars>>

\* Mutant: SchedulerStarted is logged only.
NativeStartsQuietly ==
  IF native = "down"
  THEN UNCHANGED <<native, intentional, asked>>
  ELSE /\ native' = "running" /\ UNCHANGED intentional
       /\ asked' = IF runner = "hookMarked" THEN "restart" ELSE "nothing"
\* native.Start reports SchedulerStarted: the flag is cleared again.  A gocron that
\* was shut down does not start.
NativeStarts ==
  IF native = "down"
  THEN UNCHANGED <<native, intentional, asked>>
  ELSE /\ native' = "running" /\ intentional' = FALSE
       /\ asked' = IF runner = "hookMarked" THEN "restart" ELSE "nothing"

SchedulerLaunches ==
  /\ init = "cleared"
  /\ init' = "launched" /\ NativeStarts
  /\ UNCHANGED <<runnerVars, conditionVars, schemaVars, required, failure, registered, ref,
                 schedStarted, stopping, jobVars, call>>

SchedulerPasses ==
  /\ init = "launched"
  /\ schedStarted' = TRUE /\ init' = "done"
  /\ Ends("scheduler", "ok")
  /\ UNCHANGED <<runnerVars, outcome, schemaVars, monitorVars, registered, native, ref, stopping,
                 jobVars, appVars>>

-----------------------------------------------------------------------------
(* Jobs, and what the monitor makes of them.                               *)

JobRuns(j) ==
  /\ native = "running" /\ j \in registered \ running
  /\ running' = running \cup {j}
  /\ UNCHANGED <<runnerVars, conditionVars, schemaVars, monitorVars, schedulerVars, failedJobs,
                 appVars>>

JobCompletes(j) ==
  /\ j \in running
  /\ running' = running \ {j}
  /\ UNCHANGED <<runnerVars, conditionVars, schemaVars, monitorVars, schedulerVars, failedJobs,
                 appVars>>

\* JobFailed looks the job up under the name gocron knows.
JobFails(j) ==
  /\ j \in running
  /\ running' = running \ {j} /\ failedJobs' = failedJobs \cup {j}
  /\ failure' = (failure \/ NativeName[j] \in required)
  /\ UNCHANGED <<runnerVars, conditionVars, schemaVars, required, intentional, schedulerVars,
                 appVars>>

\* SchedulerStopped.
Stopped ==
  /\ failure' = (failure \/ ~intentional)
  /\ intentional' = FALSE
  /\ UNCHANGED required

\* gocron stops by itself.
NativeStops ==
  /\ native = "running"
  /\ native' = "halted"
  /\ Stopped
  /\ UNCHANGED <<runnerVars, conditionVars, schemaVars, init, registered, ref, schedStarted,
                 stopping, jobVars, appVars>>

-----------------------------------------------------------------------------
(* Calls of the application, from a job say, on the gocron.Scheduler it    *)
(* was given: one at a time, refused until initialize has set native.      *)

\* The flag is written first: cleared by Start, marked by the others.
RefCalls(method) ==
  /\ ref /\ call = "none"
  /\ call' = method /\ intentional' = (method # "Start")
  /\ asked' = IF method # "Start" THEN "stop"
              ELSE IF runner = "hookMarked" THEN "restart"
              ELSE asked
  /\ UNCHANGED <<runnerVars, conditionVars, schemaVars, required, failure, schedulerVars, jobVars>>

RefStarts ==
  /\ call = "Start" /\ call' = "none"
  /\ NativeStarts
  /\ UNCHANGED <<runnerVars, conditionVars, schemaVars, required, failure, init, registered, ref,
                 schedStarted, stopping, jobVars>>

\* StopJobs or Shutdown, with a context or without.
RefStops ==
  /\ call \in {"StopJobs", "Shutdown"} /\ call' = "none"
  /\ native' = IF call = "Shutdown" THEN "down"
               ELSE IF native = "running" THEN "halted"
               ELSE native
  /\ IF native = "running" THEN Stopped ELSE UNCHANGED monitorVars
  /\ UNCHANGED <<runnerVars, conditionVars, schemaVars, init, registered, ref, schedStarted,
                 stopping, jobVars, asked>>

-----------------------------------------------------------------------------
(* Run, and the scheduler's stop hook.                                     *)

OpenAdmission ==
  /\ runner = "initialized"
  /\ runner' = "open"
  /\ UNCHANGED <<expired, stopExpired, conditionVars, schemaVars, monitorVars, schedulerVars,
                 jobVars, appVars>>

\* Initialize failed, the application is asked to stop, or a hook started after
\* this one fails and fx rolls back.
StopBegins ==
  /\ runner \in {"starting", "failed", "open"}
  /\ runner' = "stopping" /\ stopping' = TRUE
  /\ UNCHANGED <<expired, stopExpired, conditionVars, schemaVars, monitorVars, init, registered,
                 native, ref, schedStarted, jobVars, appVars>>

\* stop returns at once when the scheduler has not been started.
StopFindsNothing ==
  /\ runner = "stopping" /\ ~schedStarted
  /\ runner' = "stopped"
  /\ UNCHANGED <<expired, stopExpired, conditionVars, schemaVars, monitorVars, schedulerVars,
                 jobVars, appVars>>

\* Mutant: the stop is not marked as intended.
StopUnmarked ==
  /\ runner = "stopping" /\ schedStarted
  /\ runner' = "hookMarked"
  /\ UNCHANGED <<expired, stopExpired, conditionVars, schemaVars, monitorVars, schedulerVars,
                 jobVars, appVars>>
StopMarks ==
  /\ runner = "stopping" /\ schedStarted
  /\ runner' = "hookMarked" /\ intentional' = TRUE
  /\ UNCHANGED <<expired, stopExpired, conditionVars, schemaVars, required, failure,
                 schedulerVars, jobVars, appVars>>

\* ShutdownWithContext: no job starts any more.
StopShutsDown ==
  /\ runner = "hookMarked"
  /\ runner' = "hookStopping"
  /\ native' = "down"
  /\ IF native = "running" THEN Stopped ELSE UNCHANGED monitorVars
  /\ UNCHANGED <<expired, stopExpired, conditionVars, schemaVars, init, registered, ref,
                 schedStarted, stopping, jobVars, appVars>>

\* Mutant: the running jobs are not waited for.
StopUnawaited ==
  /\ runner = "hookStopping"
  /\ runner' = "stopped"
  /\ UNCHANGED <<expired, stopExpired, conditionVars, schemaVars, monitorVars, schedulerVars,
                 jobVars, appVars>>
\* It returns when the running jobs have, or its context is done; for a gocron that
\* the application had shut down, perhaps at once.
StopReturns ==
  /\ runner = "hookStopping" /\ (running = {} \/ stopExpired \/ asked = "stop")
  /\ runner' = "stopped"
  /\ UNCHANGED <<expired, stopExpired, conditionVars, schemaVars, monitorVars, schedulerVars,
                 jobVars, appVars>>

StartupExpires ==
  /\ runner \in {"starting", "initializing"} /\ ~expired
  /\ expired' = TRUE
  /\ UNCHANGED <<runner, stopExpired, conditionVars, schemaVars, monitorVars, schedulerVars,
                 jobVars, appVars>>

StopExpires ==
  /\ runner = "hookStopping" /\ ~stopExpired
  /\ stopExpired' = TRUE
  /\ UNCHANGED <<runner, expired, conditionVars, schemaVars, monitorVars, schedulerVars, jobVars,
                 appVars>>

-----------------------------------------------------------------------------
Collect(c) == ConditionReturns(c) \/ ConditionExpires(c)

SchedulerStep ==
  \/ SchedulerRefuses \/ SchedulerBuilds \/ SchedulerFails \/ SchedulerSets
  \/ SchedulerClears \/ SchedulerLaunches \/ SchedulerPasses
  \/ \E j \in Jobs : JobRegisters(j)

StopStep == StopFindsNothing \/ StopMarks \/ StopShutsDown \/ StopReturns

Next ==
  \/ InitializeBegins \/ InitializeReturns \/ OpenAdmission \/ StopBegins
  \/ \E c \in Conditions : Collect(c)
  \/ \E c \in Others : OtherEnds(c)
  \/ MigrationsPass \/ MigrationsFail
  \/ SchedulerStep \/ StopStep
  \/ \E j \in Jobs : JobRuns(j) \/ JobCompletes(j) \/ JobFails(j)
  \/ \E method \in {"Start", "StopJobs", "Shutdown"} : RefCalls(method)
  \/ RefStarts \/ RefStops
  \/ NativeStops \/ StartupExpires \/ StopExpires

Spec == Init /\ [][Next]_vars

(***************************************************************************)
(* Fairness: Run and the Coordinator's waiting goroutines run, and the     *)
(* timers fire.  The conditions themselves, gocron and the jobs may hang.  *)
(***************************************************************************)
FairSpec ==
  /\ Spec
  /\ \A c \in Conditions : WF_vars(Collect(c))
  /\ WF_vars(InitializeReturns) /\ WF_vars(StopStep)
  /\ WF_vars(StartupExpires) /\ WF_vars(StopExpires)

-----------------------------------------------------------------------------
(* Safety.                                                                 *)

\* Admission opens only when every condition itself has passed, none having been
\* given up on: the schema is what the policy asks for and every job is known to
\* a scheduler that was started (condition.go:71-114, migration.go:158-175).
AdmissionNeedsConditions ==
  runner = "open" =>
    /\ \A c \in Conditions : run[c] = "ok"
    /\ registered = Jobs /\ ref /\ schedStarted
    /\ policy = "disabled" \/ ~pending

\* runtime.check.
HealthPasses == ~failure /\ schedStarted /\ ~stopping

\* The readiness check passes only while gocron runs and none of the registered
\* jobs has failed: a gocron that stops by itself at any point from its start on is
\* noticed, also before started is stored, and while other goroutines write the flag
\* for stops and starts of their own; only the application's own stop goes unnoticed
\* (scheduler.go:196-207, 234-299, 345-378).
HealthTellsTruth ==
  HealthPasses => failedJobs = {} /\ (native = "running" \/ asked = "stop")

\* The stop hook's own shutdown of a running gocron is not taken for an unexpected
\* stop, whatever of started, stopping and the intentional flag starts and stops have
\* written in between, unless a Start of the application crosses it
\* (scheduler.go:179-195, 234-299).
OrderlyStopIsClean ==
  [][native = "running" /\ native' = "down" /\ runner' # runner /\ asked # "restart" =>
       failure' = failure]_vars

\* After an application that got to admission has stopped, gocron is down, also when
\* the application starts it again meanwhile, and no job is left running unless the
\* stop hook ran out of time or the application had shut gocron down itself.
StopAfterAdmission ==
  runner = "stopped" /\ (\A c \in Conditions : outcome[c] = "ok") =>
    native = "down" /\ (stopExpired \/ asked = "stop" \/ running = {})

(* Liveness.                                                               *)

\* Initialize and the stop hook return, even if a condition, or a job, never does
\* (condition.go:106, scheduler.go:190).
CallsReturn ==
  /\ runner = "initializing" ~> runner \in {"initialized", "failed"}
  /\ runner = "stopping" ~> runner = "stopped"

-----------------------------------------------------------------------------
(* What a document of the repository says, and the code does not keep.     *)

\* "Stop already-started producers on failure"
StopLeavesNoScheduler == runner = "stopped" => native # "running"
=============================================================================
