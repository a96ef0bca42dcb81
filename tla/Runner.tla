-------------------------------- MODULE Runner --------------------------------
(***************************************************************************)
(* hanami.Run: one application from configuration loading to the release   *)
(* of its pre-composition resources, with bootstrap.Admission,             *)
(* process.Controller and the FixedServer of src/http/server.go as one of  *)
(* the lifecycle hooks.                                                    *)
(*                                                                         *)
(* Fx is external.  Its Start runs the hooks in order and, when one fails, *)
(* stops the started ones in reverse under the same context; its Stop runs *)
(* the OnStop hooks in reverse and returns once its context is done, also  *)
(* when a hook is still running or was never reached.                      *)
(***************************************************************************)
EXTENDS Naturals, FiniteSetsExt

CONSTANTS
  Integrations, \* number of selected pre-composition integrations
  Hooks,        \* number of lifecycle hooks of the graph
  ServerHook    \* the one FixedServer registers

ASSUME RunnerAssumption ==
  /\ Integrations \in Nat
  /\ Hooks \in Nat /\ ServerHook \in 1..Hooks

VARIABLES
  phase,       \* where Run stands
  prepared,    \* integrations whose Prepare returned
  holds,       \* integrations whose Cleanup is still owed
  started,     \* hooks whose OnStart returned
  hook,        \* state of every hook
  unwinding,   \* whose context the OnStop hooks got: fx's rollback or Run's Stop
  cancelled,   \* the caller's context is done
  startupDone, \* startupContext is done
  stopCtx,     \* the context of application.Stop
  cleanCtx,    \* the context of the cleanups
  admission,   \* bootstrap.Admission is open
  request,     \* the request process.Controller accepted
  listening,   \* FixedServer: the listener is open
  loop,        \* FixedServer: the serve goroutine
  done,        \* FixedServer: the message in server.done
  serverStop,  \* FixedServer: where Stop stands
  conn,        \* FixedServer: one client connection that net/http tracks
  loose,       \* FixedServer: a handler goes on without a tracked connection
  reason,      \* Result.Reason
  restart,     \* Result.ExternalRestartRequired
  err          \* the error Run returns is not nil

runVars    == <<phase, prepared, holds>>
fxVars     == <<started, hook, unwinding>>
ctxVars    == <<cancelled, startupDone, stopCtx, cleanCtx>>
sharedVars == <<admission, request>>
serverVars == <<listening, loop, done, serverStop, conn, loose>>
resultVars == <<reason, restart, err>>
vars       == <<runVars, fxVars, ctxVars, sharedVars, serverVars, resultVars>>

StartupPhases == {"loading", "preparing", "composing", "starting", "initializing", "opening"}
LivePhases    == {"starting", "rollback", "initializing", "opening", "serving", "closing",
                  "stopping", "cleaning"}

RunTypes ==
  /\ phase \in StartupPhases \cup LivePhases \cup {"returned"}
  /\ prepared \in 0..Integrations /\ holds \subseteq 1..prepared
  /\ reason \in {"none", "startup_failure", "context_cancelled", "requested", "runtime_failure"}
  /\ restart \in BOOLEAN /\ err \in BOOLEAN

FxTypes ==
  /\ started \in 0..Hooks
  /\ hook \in [1..Hooks -> {"down", "up", "stopping"}]
  /\ unwinding \in {"none", "rollback", "stop"}

ContextTypes ==
  /\ cancelled \in BOOLEAN /\ startupDone \in BOOLEAN
  /\ stopCtx \in {"none", "live", "expired"} /\ cleanCtx \in {"none", "live", "expired"}

ServerTypes ==
  /\ admission \in BOOLEAN
  /\ request \in {"none", "requested", "restart", "failure"}
  /\ listening \in BOOLEAN
  /\ loop \in {"unborn", "serving", "failed", "closed", "exited"}
  /\ done \in {"empty", "nil", "error"}
  /\ serverStop \in {"idle", "shutdown", "join"}
  /\ conn \in {"none", "reading", "handling", "health"} /\ loose \in BOOLEAN

TypeOK == RunTypes /\ FxTypes /\ ContextTypes /\ ServerTypes

Init ==
  /\ phase = "loading" /\ prepared = 0 /\ holds = {}
  /\ started = 0 /\ hook = [h \in 1..Hooks |-> "down"] /\ unwinding = "none"
  /\ cancelled = FALSE /\ startupDone = FALSE /\ stopCtx = "none" /\ cleanCtx = "none"
  /\ admission = FALSE /\ request = "none"
  /\ listening = FALSE /\ loop = "unborn" /\ done = "empty"
  /\ serverStop = "idle" /\ conn = "none" /\ loose = FALSE
  /\ reason = "none" /\ restart = FALSE /\ err = FALSE

-----------------------------------------------------------------------------
(* Run, up to the lifecycle.                                               *)

\* Every startup error path returns StopReasonStartupFailure and an error.
StartupFailure ==
  /\ reason' = "startup_failure" /\ err' = TRUE
  /\ UNCHANGED restart

LoadConfig ==
  /\ phase = "loading"
  /\ \/ phase' = "preparing" /\ UNCHANGED resultVars
     \/ phase' = "returned" /\ StartupFailure
  /\ UNCHANGED <<prepared, holds, fxVars, ctxVars, sharedVars, serverVars>>

\* Mutant: the loop runs once too often.
PrepareBeyond ==
  /\ phase = "preparing" /\ prepared <= Integrations
  /\ prepared' = prepared + 1
  /\ holds' \in {holds, holds \cup {prepared'}}
  /\ UNCHANGED <<phase, fxVars, ctxVars, sharedVars, serverVars, resultVars>>
\* Prepare succeeds; the cleanup is optional.
PrepareNext ==
  /\ phase = "preparing" /\ prepared < Integrations
  /\ prepared' = prepared + 1
  /\ holds' \in {holds, holds \cup {prepared'}}
  /\ UNCHANGED <<phase, fxVars, ctxVars, sharedVars, serverVars, resultVars>>

\* runCleanups, with a context of its own.
CleanUp ==
  /\ phase' = "cleaning" /\ cleanCtx' = "live"
  /\ UNCHANGED <<prepared, holds, cancelled, startupDone>>

PrepareFails ==
  /\ phase = "preparing" /\ prepared < Integrations
  /\ CleanUp /\ StartupFailure
  /\ UNCHANGED <<fxVars, stopCtx, sharedVars, serverVars>>

PrepareEnds ==
  /\ phase = "preparing" /\ prepared = Integrations
  /\ phase' = "composing"
  /\ UNCHANGED <<prepared, holds, fxVars, ctxVars, sharedVars, serverVars, resultVars>>

Compose ==
  /\ phase = "composing"
  /\ phase' = "starting"
  /\ UNCHANGED <<prepared, holds, fxVars, ctxVars, sharedVars, serverVars, resultVars>>

\* The module factory panics or returns nil, or fx.New reports an error.
ComposeFails ==
  /\ phase = "composing"
  /\ CleanUp /\ StartupFailure
  /\ UNCHANGED <<fxVars, stopCtx, sharedVars, serverVars>>

-----------------------------------------------------------------------------
(* application.Start.                                                      *)

\* FixedServer.Start: the listener is open before the hook returns.
ServerStart ==
  /\ listening' = TRUE /\ loop' = "serving"
  /\ UNCHANGED <<done, serverStop, conn, loose>>

StartHook ==
  /\ phase = "starting" /\ started < Hooks /\ ~startupDone
  /\ started' = started + 1
  /\ hook' = [hook EXCEPT ![started + 1] = "up"]
  /\ \/ started + 1 = ServerHook /\ ServerStart
     \/ started + 1 # ServerHook /\ UNCHANGED serverVars
  /\ UNCHANGED <<runVars, unwinding, ctxVars, sharedVars, resultVars>>

\* An OnStart hook fails, or the startup context is done: fx rolls back.
StartFails ==
  /\ phase = "starting" /\ started < Hooks
  /\ phase' = "rollback" /\ unwinding' = "rollback"
  /\ StartupFailure
  /\ UNCHANGED <<prepared, holds, started, hook, ctxVars, sharedVars, serverVars>>

\* application.Stop, with a context of its own.
StopApplication ==
  /\ phase' = "stopping" /\ unwinding' = "stop" /\ stopCtx' = "live"
  /\ UNCHANGED <<prepared, holds, started, hook, cancelled, startupDone, cleanCtx>>

\* Every hook has started, but the context's error is preferred.
StartTooLate ==
  /\ phase = "starting" /\ started = Hooks /\ startupDone
  /\ StopApplication /\ StartupFailure
  /\ UNCHANGED <<sharedVars, serverVars>>

StartEnds ==
  /\ phase = "starting" /\ started = Hooks /\ ~startupDone
  /\ phase' = "initializing"
  /\ UNCHANGED <<prepared, holds, fxVars, ctxVars, sharedVars, serverVars, resultVars>>

-----------------------------------------------------------------------------
(* Startup conditions, admission, and supervision.                         *)

InitializePasses ==
  /\ phase = "initializing"
  /\ phase' = "opening"
  /\ UNCHANGED <<prepared, holds, fxVars, ctxVars, sharedVars, serverVars, resultVars>>

\* Mutant: the cleanups run, but the application is not stopped.
InitializeFailsUnstopped ==
  /\ phase = "initializing"
  /\ admission' = FALSE
  /\ CleanUp /\ StartupFailure
  /\ UNCHANGED <<fxVars, stopCtx, request, serverVars>>
InitializeFails ==
  /\ phase = "initializing"
  /\ admission' = FALSE
  /\ StopApplication /\ StartupFailure
  /\ UNCHANGED <<request, serverVars>>

\* Mutant: admission is opened before the startup conditions have run.
OpenAdmissionEarly ==
  /\ phase \in {"initializing", "opening"}
  /\ admission' = TRUE
  /\ phase' = IF phase = "opening" THEN "serving" ELSE phase
  /\ UNCHANGED <<prepared, holds, fxVars, ctxVars, request, serverVars, resultVars>>
\* admission.Open, whatever was reported meanwhile.
OpenAdmission ==
  /\ phase = "opening"
  /\ admission' = TRUE
  /\ phase' = "serving"
  /\ UNCHANGED <<prepared, holds, fxVars, ctxVars, request, serverVars, resultVars>>

\* The select picks either case when both are ready.
SelectCancelled ==
  /\ phase = "serving" /\ cancelled
  /\ phase' = "closing" /\ reason' = "context_cancelled"
  /\ UNCHANGED <<prepared, holds, fxVars, ctxVars, sharedVars, serverVars, restart, err>>

SelectRequest ==
  /\ phase = "serving" /\ request # "none"
  /\ phase' = "closing"
  /\ reason' = IF request = "failure" THEN "runtime_failure" ELSE "requested"
  /\ restart' = (request = "restart")
  /\ err' = (request # "requested")
  /\ UNCHANGED <<prepared, holds, fxVars, ctxVars, sharedVars, serverVars>>

CloseAdmission ==
  /\ phase = "closing"
  /\ admission' = FALSE
  /\ StopApplication
  /\ UNCHANGED <<request, serverVars, resultVars>>

-----------------------------------------------------------------------------
(* Unwinding: fx's rollback under the startup context, or application.Stop *)
(* under its own.                                                          *)

HookCtxDone == IF unwinding = "rollback" THEN startupDone ELSE stopCtx = "expired"
AllDown     == \A h \in 1..Hooks : hook[h] = "down"

\* The last hook still up, once the one before it has returned.
NextToStop(h) ==
  /\ phase \in {"rollback", "stopping"} /\ ~HookCtxDone
  /\ \A k \in 1..Hooks : hook[k] # "stopping" /\ (k > h => hook[k] = "down")
  /\ hook[h] = "up"
  /\ hook' = [hook EXCEPT ![h] = "stopping"]

StopHook(h) ==
  /\ h # ServerHook /\ NextToStop(h)
  /\ UNCHANGED <<runVars, started, unwinding, ctxVars, sharedVars, serverVars, resultVars>>

\* OnStop returns, possibly with an error.
HookStops(h) ==
  /\ h # ServerHook /\ hook[h] = "stopping"
  /\ hook' = [hook EXCEPT ![h] = "down"]
  /\ err' \in {err, TRUE}
  /\ UNCHANGED <<runVars, started, unwinding, ctxVars, sharedVars, serverVars, reason, restart>>

\* FixedServer.Stop, up to the closed listener of server.Shutdown.
ServerStopBegin ==
  /\ NextToStop(ServerHook)
  /\ admission' = FALSE
  /\ listening' = FALSE /\ serverStop' = "shutdown"
  /\ UNCHANGED <<runVars, started, unwinding, ctxVars, request, loop, done, conn, loose,
                 resultVars>>

\* Mutant: the drain is not awaited.
ServerDrainsUnawaited ==
  /\ serverStop = "shutdown"
  /\ serverStop' = "join"
  /\ UNCHANGED <<runVars, fxVars, ctxVars, sharedVars, listening, loop, done, conn, loose,
                 resultVars>>
\* server.Shutdown returns: no connection is left.
ServerDrains ==
  /\ serverStop = "shutdown" /\ conn = "none"
  /\ serverStop' = "join"
  /\ UNCHANGED <<runVars, fxVars, ctxVars, sharedVars, listening, loop, done, conn, loose,
                 resultVars>>

\* server.Shutdown gives up; server.Close drops the connections, and ends no handler.
ServerDrainExpires ==
  /\ serverStop = "shutdown" /\ HookCtxDone
  /\ conn' = "none" /\ err' = TRUE
  /\ loose' = (loose \/ conn = "handling")
  /\ serverStop' = "join"
  /\ UNCHANGED <<runVars, fxVars, ctxVars, sharedVars, listening, loop, done, reason, restart>>

\* Mutant: the serve loop's own error is dropped.
ServerJoinsQuietly ==
  /\ serverStop = "join" /\ (done # "empty" \/ HookCtxDone)
  /\ err' = (err \/ done = "empty")
  /\ hook' = [hook EXCEPT ![ServerHook] = "down"] /\ serverStop' = "idle"
  /\ UNCHANGED <<runVars, started, unwinding, ctxVars, sharedVars, listening, loop, done, conn,
                 loose, reason, restart>>
\* The select on server.done and ctx.Done.
ServerJoins ==
  /\ serverStop = "join"
  /\ \/ done # "empty" /\ err' = (err \/ done = "error")
     \/ HookCtxDone /\ err' = TRUE
  /\ hook' = [hook EXCEPT ![ServerHook] = "down"] /\ serverStop' = "idle"
  /\ UNCHANGED <<runVars, started, unwinding, ctxVars, sharedVars, listening, loop, done, conn,
                 loose, reason, restart>>

\* The rollback has ended, so that the Stop that follows finds nothing to do.
RollbackEnds ==
  /\ phase = "rollback" /\ (AllDown \/ HookCtxDone)
  /\ stopCtx' = "live"
  /\ CleanUp
  /\ UNCHANGED <<fxVars, sharedVars, serverVars, resultVars>>

\* Mutant: Stop does not give up when its context is done.
StopNeverGivesUp ==
  /\ phase = "stopping" /\ AllDown
  /\ err' = (err \/ HookCtxDone)
  /\ phase' = "cleaning"
  /\ cleanCtx' = IF reason = "startup_failure" THEN "live" ELSE stopCtx
  /\ UNCHANGED <<prepared, holds, fxVars, cancelled, startupDone, stopCtx, sharedVars,
                 serverVars, reason, restart>>
\* A startup failure gives the cleanups a fresh timeout; otherwise they share the
\* shutdown context.
StopEnds ==
  /\ phase = "stopping" /\ (AllDown \/ HookCtxDone)
  /\ err' = (err \/ HookCtxDone)
  /\ phase' = "cleaning"
  /\ cleanCtx' = IF reason = "startup_failure" THEN "live" ELSE stopCtx
  /\ UNCHANGED <<prepared, holds, fxVars, cancelled, startupDone, stopCtx, sharedVars,
                 serverVars, reason, restart>>

\* The cleanups run in reverse, whatever errors they return.
Cleanup ==
  /\ phase = "cleaning" /\ holds # {}
  /\ holds' = holds \ {Max(holds)}
  /\ err' \in {err, TRUE}
  /\ UNCHANGED <<phase, prepared, fxVars, ctxVars, sharedVars, serverVars, reason, restart>>

Return ==
  /\ phase = "cleaning" /\ holds = {}
  /\ phase' = "returned"
  /\ UNCHANGED <<prepared, holds, fxVars, ctxVars, sharedVars, serverVars, resultVars>>

-----------------------------------------------------------------------------
(* Contexts.                                                               *)

\* The caller's context is the parent of the startup context only.
CallerCancels ==
  /\ ~cancelled
  /\ cancelled' = TRUE /\ startupDone' = TRUE
  /\ UNCHANGED <<runVars, fxVars, stopCtx, cleanCtx, sharedVars, serverVars, resultVars>>

StartupExpires ==
  /\ phase \in StartupPhases \cup {"rollback"} /\ ~startupDone
  /\ startupDone' = TRUE
  /\ UNCHANGED <<runVars, fxVars, cancelled, stopCtx, cleanCtx, sharedVars, serverVars, resultVars>>

StopExpires ==
  /\ phase = "stopping" /\ stopCtx = "live"
  /\ stopCtx' = "expired"
  /\ UNCHANGED <<runVars, fxVars, cancelled, startupDone, cleanCtx, sharedVars, serverVars, resultVars>>

-----------------------------------------------------------------------------
(* process.Controller, FixedServer's goroutine and its client.             *)

\* Mutant: the last request is kept.
RequestStopLast(r) == request' = r
RequestStop(r) == request' = IF request = "none" THEN r ELSE request

\* Any component of the graph, once a hook has started it.
ComponentRequests(r) ==
  /\ phase \in LivePhases /\ started > 0 /\ request = "none"
  /\ RequestStop(r)
  /\ UNCHANGED <<runVars, fxVars, ctxVars, admission, serverVars, resultVars>>

ServeFails ==
  /\ loop = "serving" /\ listening
  /\ loop' = "failed" /\ done' = "error" /\ listening' = FALSE
  /\ UNCHANGED <<runVars, fxVars, ctxVars, sharedVars, serverStop, conn, loose, resultVars>>

ServeStops ==
  /\ loop = "serving" /\ ~listening
  /\ loop' = "exited" /\ done' = "nil"
  /\ UNCHANGED <<runVars, fxVars, ctxVars, sharedVars, listening, serverStop, conn, loose,
                 resultVars>>

LoopClosesAdmission ==
  /\ loop = "failed"
  /\ loop' = "closed" /\ admission' = FALSE
  /\ UNCHANGED <<runVars, fxVars, ctxVars, request, listening, done, serverStop, conn,
                 loose, resultVars>>

LoopRequestsStop ==
  /\ loop = "closed"
  /\ loop' = "exited" /\ RequestStop("failure")
  /\ UNCHANGED <<runVars, fxVars, ctxVars, admission, listening, done, serverStop, conn,
                 loose, resultVars>>

Moves(from, to) ==
  /\ conn = from /\ conn' = to
  /\ UNCHANGED <<runVars, fxVars, ctxVars, sharedVars, listening, loop, done, serverStop, resultVars>>

ClientStep(from, to) == Moves(from, to) /\ UNCHANGED loose

Connect == loop = "serving" /\ listening /\ ClientStep("none", "reading")

\* admissionHandler: the two health paths pass it always.
Admit  == ClientStep("reading", IF admission THEN "handling" ELSE "none")
Health == ClientStep("reading", "health")
Respond == \E at \in {"handling", "health"} : ClientStep(at, "none")

\* An application handler takes its connection over and goes on: neither net/http nor
\* FixedServer knows of the connection any more.
Hijack == Moves("handling", "none") /\ loose' = TRUE

LooseReturns ==
  /\ loose /\ loose' = FALSE
  /\ UNCHANGED <<runVars, fxVars, ctxVars, sharedVars, listening, loop, done, serverStop, conn,
                 resultVars>>

-----------------------------------------------------------------------------
Prepare    == PrepareNext \/ PrepareFails \/ PrepareEnds
ComposeAny == Compose \/ ComposeFails
Start      == StartHook \/ StartFails \/ StartTooLate \/ StartEnds
Initialize == InitializePasses \/ InitializeFails
Supervise  == SelectCancelled \/ SelectRequest
StopHooks  == \E h \in 1..Hooks : StopHook(h) \/ HookStops(h)
ServerStop == ServerStopBegin \/ ServerDrains \/ ServerDrainExpires \/ ServerJoins
Finish     == RollbackEnds \/ StopEnds \/ Cleanup \/ Return
ServeLoop  == ServeStops \/ LoopClosesAdmission \/ LoopRequestsStop
Client     == Connect \/ Admit \/ Health \/ Respond \/ Hijack \/ LooseReturns

Next ==
  \/ LoadConfig \/ Prepare \/ ComposeAny \/ Start \/ Initialize
  \/ OpenAdmission \/ Supervise \/ CloseAdmission
  \/ StopHooks \/ ServerStop \/ Finish
  \/ CallerCancels \/ StartupExpires \/ StopExpires
  \/ \E r \in {"requested", "restart", "failure"} : ComponentRequests(r)
  \/ ServeFails \/ ServeLoop \/ Client

Spec == Init /\ [][Next]_vars

(***************************************************************************)
(* Fairness: Run's own goroutine runs; Load, Prepare, OnStart hooks and    *)
(* startup conditions return (they are given the startup context);         *)
(* cleanups return; timers fire.  OnStop hooks, clients, handlers and the  *)
(* serve loop are not assumed to make progress.                            *)
(***************************************************************************)
FairSpec ==
  /\ Spec
  /\ WF_vars(LoadConfig \/ Prepare \/ ComposeAny \/ Start \/ Initialize \/ OpenAdmission)
  /\ WF_vars(Supervise) /\ WF_vars(CloseAdmission)
  /\ WF_vars(Finish)
  /\ WF_vars(StartupExpires) /\ WF_vars(StopExpires)

-----------------------------------------------------------------------------
(* Safety.                                                                 *)

\* The unwinding was not cut short by its context.
InBudget == ~(unwinding = "rollback" /\ startupDone) /\ stopCtx # "expired"

\* On every path out of Run the pre-composition resources, an ownership lock say, are
\* released, and only when no hook is up any more, the server's loop has ended and no
\* request is left on its connections, unless the unwinding ran out of time
\* (hanami.go:112-149, 166-170).
ReleasedLast ==
  /\ phase = "returned" => holds = {}
  /\ phase \in {"cleaning", "returned"} /\ InBudget =>
       AllDown /\ ~listening /\ loop # "serving" /\ conn = "none"

\* Application requests are admitted, and handled, only once every hook and
\* every startup condition has succeeded, and never in a run whose startup fails,
\* although the server listens from its own hook on (hanami.go:146-152).
NoEarlyWork ==
  admission \/ conn = "handling" \/ loose =>
    phase \notin StartupPhases \cup {"rollback"} /\ reason # "startup_failure"

\* A request in a handler, a health check included, finds the components the
\* server was started after still up, while the unwinding is within its budget and
\* the handler has not taken its connection over (server.go:140-155, hanami.go:142, 169).
DependenciesOutliveWork ==
  conn \in {"handling", "health"} /\ InBudget =>
    \A h \in 1..(ServerHook - 1) : hook[h] = "up"

\* exitCode of Main.
ExitCode ==
  CASE ~err /\ ~restart -> 0
    [] (err \/ restart) /\ reason = "startup_failure" -> 2
    [] OTHER -> 1

\* An unexpected end of the serve loop makes the process exit nonzero, also when
\* the select of Run takes the caller's cancellation instead of the controller's
\* request, or a hook stops at the same time (hanami.go:156-171, server.go:161).
ServeFailureFails ==
  phase = "returned" /\ done = "error" => ExitCode # 0

\* Unless the caller cancels too, the result carries the request that was accepted
\* first, with its need for an external restart, although the serve loop and other
\* components report while Run reads it and stops (process.go:35-52, hanami.go:159).
FirstRequestDecides ==
  phase = "returned" /\ reason # "startup_failure" /\ ~cancelled =>
    /\ reason = IF request = "failure" THEN "runtime_failure" ELSE "requested"
    /\ restart = (request = "restart")

\* Once the caller cancels or a component asks for it, Run returns: no client,
\* handler or OnStop hook can keep it.
StopReturns == cancelled \/ request # "none" ~> phase = "returned"

-----------------------------------------------------------------------------
(* Run implements the abstract promise of a service.                       *)

Stage ==
  CASE phase \in StartupPhases          -> "starting"
    [] phase \in {"cleaning", "returned"} -> IF stopCtx = "expired" THEN "abandoned" ELSE "released"
    [] OTHER                            -> IF admission THEN "admitting" ELSE "refusing"

Promise == INSTANCE Service
  WITH Work <- {"request"}, stage <- Stage, open <- admission,
       active <- {at \in {"request"} : conn = "handling"},
       loose <- {at \in {"request"} : loose}

\* Whatever fails, is cancelled or runs out of time, the run amounts to one
\* startup, at most one period of admission and one release: admission is never
\* opened again, though the server's goroutine, its hook and Run all write it, and
\* resources go only after the last request the server answers for
\* (hanami.go:146-171, server.go:140-155).
ImplementsService == Promise!Spec
=============================================================================
