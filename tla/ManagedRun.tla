------------------------------ MODULE ManagedRun ------------------------------
(***************************************************************************)
(* A run of an application whose HTTP server is a Manager, as the          *)
(* reconfigurable starter composes it: hanami.Run starts the manager from  *)
(* the OnStart hook of ManagedModule, opens the admission every generation *)
(* reads, supervises the controller every generation reports to, and stops *)
(* the manager from the OnStop hook, while updaters of the application     *)
(* replace generations.                                                    *)
(*                                                                         *)
(* Everything of the manager is HttpManager's; Run is abstracted to what   *)
(* touches it, and fx is external as in Runner.                            *)
(***************************************************************************)
EXTENDS HttpManager

CONSTANTS
  Starter, \* the goroutine of fx in Manager.Start
  Stopper, \* the goroutine of fx in Manager.Stop
  Initial  \* the configuration given to ManagedModule

Updaters == Replacers \ {Starter}

ASSUME ManagedRunAssumption ==
  /\ Starter \in Replacers
  /\ Stoppers = {Stopper} /\ Deadlined = {Stopper}
  /\ Initial \in Configs

VARIABLES
  run,         \* where Run stands
  hookStarted, \* fx counts the manager's hook as started
  cancelled,   \* the caller's context is done
  startupDone, \* the startup context is done
  stopDone,    \* the context of application.Stop is done
  awake,       \* updaters that have seen the admission open
  asked        \* the controller accepted a request of an updater

runVars == <<run, hookStarted, cancelled, startupDone, stopDone, awake, asked>>
allVars == <<vars, runVars>>

StartInit ==
  /\ NewManager /\ admission = FALSE
  /\ run = "starting" /\ hookStarted = FALSE
  /\ cancelled = FALSE /\ startupDone = FALSE /\ stopDone = FALSE
  /\ awake = {} /\ asked = FALSE

-----------------------------------------------------------------------------
(* application.Start.                                                      *)

Uncalled(p) == pc[p] = "idle" /\ result[p] = "none"

\* Manager.Start calls Replace, which reads the context before it prepares.
StartCalls ==
  /\ run = "starting" /\ Uncalled(Starter)
  /\ \/ ReplaceRefused(Starter)
     \/ ~startupDone /\ (ReplaceUnprepared(Starter, Initial) \/ ReplacePrepare(Starter, Initial))
  /\ UNCHANGED runVars

Goes(from, to) == run = from /\ run' = to

\* The hook and those after it have started.
StartEnds ==
  /\ Goes("starting", "initializing")
  /\ pc[Starter] = "idle" /\ result[Starter] = "applied" /\ ~startupDone
  /\ hookStarted' = TRUE
  /\ UNCHANGED <<vars, cancelled, startupDone, stopDone, awake, asked>>

\* A later hook fails: fx rolls back under the startup context.
LaterHookFails ==
  /\ Goes("starting", "rollback")
  /\ pc[Starter] = "idle" /\ result[Starter] = "applied"
  /\ hookStarted' = TRUE
  /\ UNCHANGED <<vars, cancelled, startupDone, stopDone, awake, asked>>

\* The last hook succeeded too late: Run stops the application.
StartTooLate ==
  /\ Goes("starting", "stopping")
  /\ pc[Starter] = "idle" /\ result[Starter] = "applied" /\ startupDone
  /\ hookStarted' = TRUE
  /\ UNCHANGED <<vars, cancelled, startupDone, stopDone, awake, asked>>

\* The hook fails, an earlier one does, or fx gives up on it; no OnStop follows.
StartFails ==
  /\ Goes("starting", "returned")
  /\ result[Starter] = "rejected" \/ Uncalled(Starter) \/ startupDone
  /\ UNCHANGED <<vars, hookStarted, cancelled, startupDone, stopDone, awake, asked>>

-----------------------------------------------------------------------------
(* Startup conditions, admission, supervision and application.Stop.        *)

InitializePasses ==
  /\ Goes("initializing", "opening")
  /\ UNCHANGED <<vars, hookStarted, cancelled, startupDone, stopDone, awake, asked>>

SetAdmission(value) ==
  /\ admission' = value
  /\ UNCHANGED <<managerVars, stopRequest, genVars, connVars, callVars, hookStarted,
                 cancelled, startupDone, stopDone, awake, asked>>

InitializeFails == Goes("initializing", "stopping") /\ SetAdmission(FALSE)

OpenAdmission == Goes("opening", "serving") /\ SetAdmission(TRUE)

\* The select, and the Close that follows it.
Supervises ==
  /\ Goes("serving", "stopping")
  /\ cancelled \/ stopRequest # None \/ asked
  /\ SetAdmission(FALSE)

UnwindingDone == IF run = "rollback" THEN startupDone ELSE stopDone

\* fx reaches the hook while its context is live.
StopCalls ==
  /\ run \in {"rollback", "stopping"} /\ hookStarted /\ ~UnwindingDone
  /\ ShutdownBegin(Stopper)
  /\ UNCHANGED runVars

\* The hook has returned, there is none to call, or fx gives up.
UnwindingEnds ==
  /\ run \in {"rollback", "stopping"}
  /\ pc[Stopper] = "returned" \/ UnwindingDone
  /\ run' = "returned"
  /\ UNCHANGED <<vars, hookStarted, cancelled, startupDone, stopDone, awake, asked>>

-----------------------------------------------------------------------------
(* Contexts.                                                               *)

CallerCancel ==
  /\ ~cancelled
  /\ cancelled' = TRUE /\ startupDone' = TRUE
  /\ UNCHANGED <<vars, run, hookStarted, stopDone, awake, asked>>

StartupExpires ==
  /\ run \in {"starting", "initializing", "opening", "rollback"} /\ ~startupDone
  /\ startupDone' = TRUE
  /\ UNCHANGED <<vars, run, hookStarted, cancelled, stopDone, awake, asked>>

StopExpires ==
  /\ run = "stopping" /\ ~stopDone
  /\ stopDone' = TRUE
  /\ UNCHANGED <<vars, run, hookStarted, cancelled, startupDone, awake, asked>>

\* A call of the manager sees that the context it was given is done.
CallExpires ==
  /\ \/ startupDone /\ CallerCancels(Starter)
     \/ (run # "stopping" /\ startupDone) /\ StopDeadline(Stopper)
     \/ stopDone /\ StopDeadline(Stopper)
     \/ \E u \in Updaters : CallerCancels(u)
  /\ UNCHANGED runVars

-----------------------------------------------------------------------------
(* Updaters: registerReplacementExample of the starter.                    *)

\* A poll of the admission; the call may come much later.  The starter makes one
\* call, another application may make more.
Wakes(u) ==
  /\ u \notin awake /\ admission
  /\ awake' = awake \cup {u}
  /\ UNCHANGED <<vars, run, hookStarted, cancelled, startupDone, stopDone, asked>>

UpdaterCalls(u) ==
  /\ u \in awake /\ pc[u] = "idle"
  /\ \/ ReplaceRefused(u)
     \/ \E c \in Configs : ReplaceNoop(u, c) \/ ReplaceUnprepared(u, c) \/ ReplacePrepare(u, c)
  /\ UNCHANGED runVars

\* Replace returned an error, a drain's included.
Asks(u) ==
  /\ u \in awake /\ pc[u] = "idle"
  /\ result[u] \in {"rejected", "applied_with_drain_failure"}
  /\ ~asked /\ asked' = TRUE
  /\ UNCHANGED <<vars, run, hookStarted, cancelled, startupDone, stopDone, awake>>

\* A call under way.
Proceeds(p) ==
  /\ \/ ProbePasses(p) \/ ProbeFails(p) \/ RecheckFails(p) \/ CloseOldGate(p)
     \/ PromoteFirst(p) \/ Promote(p)
     \/ DrainBegin(p) \/ DrainShutdown(p) \/ DrainJoin(p) \/ ReplaceReturns(p)
     \/ DrainTimeout(p)
  /\ UNCHANGED runVars

-----------------------------------------------------------------------------
RunStep ==
  \/ StartCalls \/ StartEnds \/ LaterHookFails \/ StartTooLate \/ StartFails
  \/ InitializePasses \/ InitializeFails \/ OpenAdmission \/ Supervises
  \/ StopCalls \/ UnwindingEnds

ManagedNext ==
  \/ RunStep
  \/ CallerCancel \/ StartupExpires \/ StopExpires \/ CallExpires
  \/ \E u \in Updaters : Wakes(u) \/ UpdaterCalls(u) \/ Asks(u)
  \/ \E p \in Replacers : Proceeds(p)
  \/ \E p \in Procs : CloseStep(p) /\ UNCHANGED runVars
  \/ \E g \in Gens : (LoopStep(g) \/ ClientActs(g)) /\ UNCHANGED runVars

(***************************************************************************)
(* Fairness: Run's goroutine runs, startup conditions return, timers fire, *)
(* and a serve goroutine that failed reports.  No call of the manager, no  *)
(* client and no handler is assumed to make progress.                      *)
(***************************************************************************)
ManagedSpec ==
  /\ StartInit /\ [][ManagedNext]_allVars
  /\ WF_allVars(RunStep)
  /\ WF_allVars(StartupExpires) /\ WF_allVars(StopExpires)
  /\ \A g \in Gens : WF_allVars((ReportFailure(g) \/ SwallowFailure(g)) /\ UNCHANGED runVars)

-----------------------------------------------------------------------------
\* From the end of the OnStart hook to the stop there is a generation that the
\* application's admission can reach: the active one listens, unless its loop
\* failed, and lets requests in, but for the moment in which the lock is held to
\* promote its successor.  No updater leaves the service behind a closed gate, and
\* no generation is shut down but by Run (manager.go:387-399, hanami.go:142-171).
EndpointStays ==
  run \in {"initializing", "opening", "serving"} =>
    /\ active # None
    /\ listening[active] \/ loop[active] \in {"failed", "exited"}
    /\ mu = NoProc => admitted[active]

\* A caller's cancellation, and the failure of any promoted generation, end in the
\* return of Run, whatever updaters, drains and clients do at the time
\* (manager.go:515-529, hanami.go:156-171).
FailureEndsRun ==
  \A g \in Gens :
    cancelled \/ (loop[g] = "failed" /\ promoted[g] /\ run = "serving") ~> run = "returned"

Stage ==
  IF run \in {"starting", "initializing", "opening"} THEN "starting"
  ELSE IF run = "returned" THEN IF stopDone THEN "abandoned" ELSE "released"
  ELSE IF admission THEN "admitting" ELSE "refusing"

\* The handlers the servers of the generations still answer for, and the others: their
\* connection was dropped by a drain or stop that timed out, or they took it over.
Served     == {g \in Gens : conn[g] = "handling" /\ ~cut[g]}
Unattended == {g \in Gens : conn[g] = "detached" \/ (conn[g] = "handling" /\ cut[g])}

Promise == INSTANCE Service
  WITH Work <- Gens, stage <- Stage, open <- admission,
       active <- Served, loose <- Unattended

\* The composition keeps the promise of Run with generations that come and go: work
\* begins in one period of admission, on generations that calls replace, drain and
\* stop meanwhile, and the run is released when no server answers for any of it, or
\* the shutdown timeout is over.  A handler may outlive the release, within the
\* shutdown budget too, if the drain of its generation timed out before or if it took
\* its connection over; none begins after the refusal (manager.go:411, 583-587,
\* 703-724, hanami.go:152-171).
ImplementsService == Promise!Spec
=============================================================================
