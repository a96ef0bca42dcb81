# A specification of Hanami

Hanami is a Go framework of application infrastructure: a runner over Uber Fx,
admission and stop control, fixed and reconfigurable HTTP servers, startup
conditions, migrations, a scheduler, health checks, database pools and Linux
confinement. This directory holds TLA+ modules of its concurrent core, TLC
configurations that check them on small instances, and TLAPS proofs about each
of them for every value of its constants. Line numbers refer to the files in
`src/`; `PROJECT.json` maps every definition to the lines it stands for.

    tlc -workers 2 -config HttpManagerSafety.cfg MCHttpManager.tla
    tlapm HttpManagerProofs.tla

## 1. The system

### Components

| Component | Source | State | Operations | Modelled in |
|---|---|---|---|---|
| Application runner | `hanami.go` | prepared integrations, cleanups owed, result | `Run`, `Main`, `prepareIntegrations`, `stopApplication`, `runCleanups` | `Runner`, `ManagedRun`, abstract: `Service` |
| Admission | `bootstrap/admission.go` | one atomic flag | `Open`, `Close`, `IsOpen` | inside `Runner`, `HttpManager`, `ManagedRun`, `Health`, `Startup` |
| Process controller | `process/process.go` | first accepted request, done channel | `RequestStop`, `RequestExternalRestart`, `Done`, `Request` | inside `Runner`, `HttpManager` |
| Fixed HTTP server | `http/server.go` | listener, serve goroutine, `done` channel | `Start`, `Stop`, admission handler | inside `Runner` |
| Managed HTTP generations | `http/manager.go` | lock, active, candidates, draining, per-generation gate/flags/channel | `Replace`, `Start`, `Shutdown`, `Stop`, drain, close, serve goroutine, gate, hijack | `HttpManager`, `ManagedRun`, abstract: `GenerationTransition` |
| HTTP settings, certificates | `http/manager.go`, `http/server.go` | manager's and generation's settings, certificate pointer, handler | `configFor`, `normalized`, `equivalentConfig`, `RotateCertificate`, `Current` | `ManagerConfig` |
| Startup coordinator | `bootstrap/condition.go` | one outcome per condition | `Initialize` | `Startup` |
| Migration manager | `migration/migration.go` | policy, pending migrations | `Condition`, `Validate`, `Migrate` | `Startup` |
| Scheduler | `scheduler/scheduler.go` | started, stopping, intentional, failure, required jobs, gocron | construct, register, start, monitor, `check`, stop hook, the application's `Start`, `StopJobs`, `Shutdown` | `Startup` |
| Health registry | `health/health.go` | checks, admission | `New`, `Check`, `Handler` | `Health` |
| Database pools | `database/**` | pool, ownership between constructor and hook | open, ping, close | `Resources` |
| Ownership lock | `ownership/ownership.go` | a lock file | acquire, release | `Resources` |
| Linux confinement | `security/linux/**` | handoff in the environment, Landlock domain, seccomp filter, status | build ruleset and filter, restrict, re-exec, verify the handoff, filter, finish, `MaybeReexec` | `Confinement`, `Resources` |
| Starters | `starters/**` | | `registerReplacementExample` of the reconfigurable one | `ManagedRun` |
| Observability, configuration, logging, CLI, Gin, API, testkit | | | | not modelled, see section 8 |

### How they interact

`Run` is the one sequence everything hangs on: load configuration, prepare the
pre-composition integrations (an ownership lock, a security policy), compose
the Fx graph, run its `OnStart` hooks, run the startup conditions, open
admission, wait for the caller's cancellation or the controller's request,
close admission, run the `OnStop` hooks in reverse, run the cleanups in
reverse. The HTTP servers are hooks that *listen from their own hook on* but
answer application requests only while admission is open. A serve goroutine
that fails closes admission and asks the controller to stop; the controller
keeps the first request. With the managed server the first generation is the
manager's `OnStart` hook and `Shutdown` its `OnStop` hook, every generation
reads the admission `Run` opens and reports to the controller `Run` waits on,
and goroutines of the application call `Replace` in between. The coordinator runs every condition at once, among
them the migrations and the construction and start of gocron. The
application has the scheduler too, behind a reference that refuses calls until
gocron is built, and may start and stop it. Health checks of
the database and the scheduler run inside a request handler, concurrently. The
security integration replaces the process image once to put every thread into
its Landlock domain, so `Run` starts again from the top, without the
descriptors, among them the ownership lock's, that the first image held.

### What is hard

* **Interleavings**: `Replace` releases its lock before it drains the old
  generation, so several drains, another `Replace`, and `Shutdown` work on the
  same generations; every generation's serve goroutine decides by `promoted`
  and its one-slot `serveDone` channel what its end means.
* **Late results**: a condition or a health check that was given up on keeps
  running and may still succeed.
* **Timeouts**: probe, drain, shutdown, startup, stop and every check have
  timers of their own that race the answer.
* **Partial failure**: `Run` has an early return for each phase and each owes
  the release of what has happened so far.
* **Stale state**: the handler and the certificates exist in several copies.
* **Crashes and re-execs**: a lock file, a Landlock domain and an environment
  variable outlive different things, and the configuration read by the second
  image need not be the one the first image restricted itself for.

What makes each component correct:

* *Runner*: whatever fails, every prepared resource is released, last, once;
  no application work before all conditions pass; a failure shows in the exit
  code; `Run` returns.
* *HTTP manager*: one generation admits at a time; the old one stays in service
  until the candidate has been verified and is retired after; the number of
  draining ones is bounded; shutdown releases all of them; calls return.
* *Settings*: what is reported is what is served; a request that names nothing
  changes nothing.
* *Startup*: admission implies that conditions passed; readiness tells whether
  gocron runs; stopping stops it.
* *Health*: a pass was earned by every check; a probe always ends.
* *Run with a server*, fixed or managed: work is admitted in one period, and
  what it uses is released after the last of it the server answers for.
* *Resources*: two processes never use the database at once; what is composed
  as confined may do exactly what its own policy says; preparation ends.

`PROJECT.json` lists under `hazards` each place where one of these could break,
with its line and the properties that watch it.

## 2. The modules

* `GenerationTransition` - the abstract specification: serialized proposals,
  rejections, promotions, retirements, one stop.
* `HttpManager` - the manager, and `ImplementsTransition`, its refinement of
  the abstract one. `MCHttpManager` instantiates it.
* `ManagerConfig` - resolution of settings, handler and certificates; the
  concurrency is left to `HttpManager`, whose lock makes each step here atomic.
  `MCManagerConfig` instantiates it.
* `Service` - the abstract specification of a run, whichever server it has:
  one startup, one period of admission, work that begins only in it, a release
  when the server answers for no work any more or the shutdown timeout is over.
  Work may come *loose* from the server, because its connection is dropped or
  taken over; `Service` does not promise that loose work ends before the
  release, since the code does not know of it.
* `Runner` - `Run` with admission, controller and the fixed server, and
  `ImplementsService`. It needs numbers only and is checked directly.
* `ManagedRun` - `Run` around a manager, as `ManagedModule` and the
  reconfigurable starter compose it. It extends `HttpManager`, takes its actions
  as they are, and adds where `Run` stands; `ImplementsService` again.
  `MCManagedRun`.
* `Startup` - coordinator, migrations and scheduler together, because the
  conditions of the last two are what the first one runs. `MCStartup`.
* `Health` - one probe. `MCHealth`.
* `Confinement` - what a policy means: the ruleset and the BPF program the code
  builds from it, what the kernel makes of the two, the probe a handoff names.
  Definitions only.
* `Resources` - several processes of one application on one host: ownership
  lock, confinement and database pool, in the order of `Run`. It extends
  `Confinement`. It is what
  `Runner` abstracts into numbered integrations and hooks, with crashes and the
  re-exec that `Runner` has no notion of. `MCResources`.

* `<module>Proofs` - the theorems about a module, section 5: `HttpManagerProofs`,
  `ManagedRunProofs` (which extends it), `RunnerProofs`, `StartupProofs`,
  `ManagerConfigProofs`, `HealthProofs`, `ConfinementProofs` and
  `ResourcesProofs` (which extends it).

An operator commented `Mutant:` is a faulty variant of the operator that
follows it, of the kind a small edit of the code could introduce; each checked
property is broken by one of them (`mutants` in `PROJECT.json`).

### HttpManager and the code

A step ends where the code blocks, takes or drops `m.mu`, or writes an atomic
another goroutine reads.

| Code | Actions |
|---|---|
| `Replace`, early returns (342-373) | `ReplaceRefused`, `ReplaceNoop`, `ReplaceUnprepared` |
| prepare, start the loop, probe under the lock (369-386) | `ReplacePrepare`, `ProbePasses`, `ProbeFails`, `Reject` |
| look at the context, close the old gate, open the new, publish (387-408) | `RecheckFails`, `CloseOldGate`, `PromoteFirst`, `Promote` |
| `drainGeneration` outside the lock (576-600) | `DrainBegin`, `DrainShutdown`, `DrainJoin` |
| take the lock again, forget the old one (410-418) | `ReplaceReturns` |
| `Shutdown` (697-735) | `ShutdownBegin`, `ShutdownAgain`, `CloseSkip` ... `CloseEnd` |
| `generation.close` (602-620), also of a rejected candidate | `CloseBegin`, `CloseShutdown`, `CloseJoin` |
| serve goroutine (516-531) | `ServeFails`, `ServeStops`, `ReportFailure`, `SwallowFailure` |
| gate and handler (84-130) | `Connect`, `ReadFails`, `EnterGate`, `PassGate`, `Respond` |
| hijack: `net/http`'s half, the `ConnState` hook (464-470), after it | `Hijack`, `StoreHijacked`, `HangUp`, `DetachedReturns` |
| timers and contexts | `CallerCancels`, `DrainTimeout`, `StopDeadline` |

`net/http` is modelled by how the code relies on it: `Shutdown` closes the
listener at once, lets `Serve` return, and succeeds once the server's own list
has no connection that is not idle (`Tracked`). `Close` drops what is on that
list and ends no goroutine: `cut[g]` says that it has run, while `conn[g]`
follows the goroutine of one request, whose connection may be gone. Such a
request still passes the gate and runs its handler. Gate passing takes two steps
(`EnterGate` reads the flag, `PassGate` enters the handler), so a request may be
between them when the gate closes.

A hijack takes two steps as well. `Hijack` is `net/http`'s: the connection
leaves the server's list, and the handler goes on `detached`. `StoreHijacked` is
the `ConnState` hook, which puts the connection into `g.hijacked` under another
lock. `Shutdown` may return nil and `closeHijacked` find nothing in between.
`hijacked[g]` is `leaving` there and `stored` after it. `sweep[g]` is a history
variable of `ShutdownClosesUpgraded` and no field of the code: whether the last
`closeHijacked` of the generation missed a connection that was `leaving`.

### Runner and the code

`phase` is the position in `Run`; `holds` the cleanups owed; `hook` the hooks
that are up. Fx (v1.24 by `go.mod`) is external: its `Start` rolls back the
started hooks under the startup context when one fails, its `Stop` runs
`OnStop` hooks in reverse and returns when its context is done, also if a hook
is still running. `ServerHook` is the position of the fixed server among the
hooks: those before it are what its handlers depend on. One client connection
makes an application or a health request. `SelectCancelled` and
`SelectRequest` are both enabled when both channels are ready, as in the
`select`. `conn` is the connection while the server answers for it; `loose`
says that some handler goes on without one, because `server.Close` dropped it
or the handler took it over.

### ManagedRun and the code

| Code | Actions |
|---|---|
| `ManagedModule` (`manager.go:765`): admission closed, no generation | `StartInit` |
| `OnStart`: `Manager.Start`, that is `Replace` under the startup context | `StartCalls`, then `Proceeds` |
| `application.Start` returns, in time or not, or fails (`hanami.go:141`) | `StartEnds`, `LaterHookFails`, `StartTooLate`, `StartFails` |
| conditions, `Open`, the select with the `Close` after it (146-166) | `InitializePasses`, `InitializeFails`, `OpenAdmission`, `Supervises` |
| `OnStop`: `Manager.Stop` under the stop or the startup context (142, 148, 169) | `StopCalls`, then `CloseStep`; `UnwindingEnds` |
| contexts | `CallerCancel`, `StartupExpires`, `StopExpires`, `CallExpires` |
| `registerReplacementExample` (`starters/reconfigurable`) | `Wakes`, `UpdaterCalls`, `Asks` |

The two goroutines of fx that call `Start` and `Stop` are the callers `Starter`
and `Stopper` of `HttpManager`; the others are updaters. `stopRequest` holds the
generation whose failure was reported first, `asked` whether an updater asked.
An updater may call again, which the starter's does not but another's can.
A call goes on after fx has given up on it, and after `Run` has returned.

The work of `Service` is the handlers, by goroutine: `Served` are those whose
connection a server still has, `Unattended` those whose connection a drain or
stop that timed out has dropped, or that took it over. The first are `active`
there, the second `loose`.

### Startup and the code

`run[c]` is the goroutine inside `condition.Run`, `outcome[c]` what its waiter
sent: `Collect` takes the result or the context's end, either when both are
ready. `init` is the position in `runtime.initialize`, which ignores its
context and therefore goes on after the coordinator has given up. `StopBegins`
is `stopping.Store(true)`; the stop hook looks at `started` next and either
returns or shuts gocron down under its context. gocron's calls of the monitor,
`JobFailed`, `SchedulerStarted` and `SchedulerStopped`, are parts of `JobFails`,
`NativeStarts` and `Stopped`; gocron may stop by itself (`NativeStops`). The
application's calls on its `schedulerRef` take two steps, as in the code: the
intentional flag is written (`RefCalls`), gocron is called (`RefStarts`,
`RefStops`). `asked` records what such calls have asked of gocron since it was
last started; the code has no such variable, the properties need it. Migrations apply to one
bit: whether the database has any pending.

### ManagerConfig and the code

A configuration is a record of the six fields that decide what is served and
whether two are equivalent. `ReplaceBegins` resolves the request (`ConfigFor`),
compares, refuses an address in use, and builds the candidate as
`prepareGeneration` does; `Promotes` and `Rejects` end it. `Served` is the
certificate a handshake gets, `Reported` what `Current` says.

### Health and the code

One call of `Check`: a runner and a waiter per selected check, the buffered
channels between them, and the loop that receives. Calls share only the
admission, so a single one stands for all. A check in `Unreliable` may never
return; the others return some member of `Answers`, also after they were given
up on. `Registry` is the list that `New` leaves, sorted by name and then by
kind, and `New` here is the condition that list satisfies: no check twice, and
each before those it precedes. `Slots` are the places of the selected kind in
it; an outcome carries its place, as `index` does in the code, which counts
within the selection.

### Resources and the code

`inst[i]` is one process: its `phase` in `Run`, the `next` integration to
prepare, the `policy` that `Load` found, and what the kernel keeps for it.
`holder` is the instance whose descriptor has the file locked, `order` the order
in which the program passes the two options.

| Code | Actions |
|---|---|
| `MaybeReexec` in `main`, before `Run` | `EarlyPasses`, `EarlyFails`, `EarlyRestricts` |
| load and prepare (`hanami.go:97-114`) | `Load`, `PrepareFails`, `PrepareEnds` |
| `TryLockContext` (`ownership.go`) | `Acquire` |
| `applyPlatform`: invalid policy, policy off, no Landlock wanted, valid handoff, kernel without it | `PolicyInvalid`, `SecurityOff`, `LandlockUnwanted`, `HandoffAccepted`, `LandlockMissing` |
| `ReexecForPolicy`: restrict the thread, seal descriptors, exec | `RestrictThread`, `Reexec`, `ReexecFails` |
| seccomp and `finishPlatform` | `Seccomp` |
| pool opened by the constructor, pinged and closed by the hooks | `Compose` ... `StopExpires` |
| cleanup, end, death of the process | `Cleanup`, `Exit`, `Crash` |

After `Reexec` the process is at `loading` again, with the domain, the filter
and the handoff of the image before it and without the lock. A pool is
`abandoned` when its graph, or its hook, was never started; it is `overdue`
when `Stop` gave up while `Close` waited for queries. `early` says whether the
program calls `MaybeReexec`, with a policy of its own choice.

### Confinement and the code

A policy is a record of the fields of `securitylinux.Policy`. `Rules` and
`Buildable` are `buildLandlock`, `Program` is `buildSeccompFilter` with its
jump offsets, `SelectProbe` and `PathGranted` choose the file whose denial
proves the domain. `Permits` and `Verdict` are the kernel's side: a right is
permitted when it is not handled or a rule above the path grants it, and a BPF
program is run instruction by instruction. In `Resources`, a handoff is valid
when the digests agree and the domain in force denies the probe
(`HandoffValid`), and a restricted thread can execute only if its domain lets
it list `/proc/self/fd` and run the executable (`Reexecutable`). What the
property compares all this with is written without them: `Entitled` says which
rights the policy's fields give at a path, `FilterOf` which answer each syscall
is to have.

## 3. The runs

Passing runs:

| Run | What it shows | Instance, time with 2 workers |
|---|---|---|
| `HttpManagerSafety` | no second admitter, tracking, bounded draining, final shutdown, what `applied` and a returned `Shutdown` mean, which upgraded connections it may leave, refinement of `GenerationTransition` and with it the order of promotions | 2 Replace callers (symmetric), 1 Shutdown, 3 generations, 2 configurations, limit 1; 2 280 000 states, 65 s |
| `HttpManagerLiveness` | the lock is given up, drains end, `Shutdown` returns | the same with 2 generations, a loop that may fail and no hijack; 225 000 states, 150 s |
| `ManagedRun` | while the application runs there is an active generation behind an open gate; the whole is a `Service`; a cancellation or a failed generation ends the run | the hook's two callers, 1 updater, 2 generations, 2 configurations, limit 1; 532 000 states, 65 s |
| `ManagerConfig` | reported = served, inheritance keeps the certificate | 2 addresses (one with port 0), 3 certificates, 2 handlers; 837 states |
| `Runner` | release, order of release, admission, exit code, whose request decides, termination, refinement of `Service` | 2 integrations, 3 hooks, the server in the middle; 54 500 states |
| `Startup` | admission implies conditions and schema, readiness tells the truth, orderly stop, `Initialize` and the stop hook end | all 3 policies, 1 job, 1 further condition with its own timeout, calls of the application; 624 000 states, 65 s |
| `Health` | a good reply was earned and holds each check's own result, liveness outlives draining, no probe or goroutine hangs | 2 liveness and 3 readiness checks, one unreliable; 103 000 states, 35 s |
| `Resources` | exclusive use of the database, confinement of what is composed, preparation ends | 2 processes, 6 policies, 6 files, both orders of the options, with and without `MaybeReexec`; 752 000 states, 100 s |

Runs that end in a counterexample, each the subject of an entry of `findings`
that quotes the sentence the code departs from:

| Run | What happens |
|---|---|
| `HttpManagerLostFailure` | the candidate's loop fails after the probe and before `promoted.Store`: its error is read by nobody, the dead generation becomes active, admission stays open |
| `HttpManagerShutdownHangs` | a drain and `Shutdown` close the same generation; the drain takes the only message of `serveDone`, and `Shutdown` without a deadline waits for ever, although every client finishes |
| `ManagerConfigHandler` | the candidate is built with the manager's handler, which is replaced only at promotion: a generation serves the handler of the settings before it |
| `StartupLateScheduler` | a scheduler condition that was given up on starts gocron after the stop hook found nothing started |

### Bounds, and why they are enough

* `MaxGenerations` bounds `m.generation`. Three generations are the least with
  a generation that is active, one that is draining and one that is verified,
  which the draining limit of 1 and the order of promotions need. For liveness two
  suffice: one is replaced while it is in use.
* `Visited`, `Faulty` and `Upgrading` name the generations clients connect to,
  whose loop may fail and whose handlers hijack. In the safety run generation 2
  is visited and upgrades: it is first a candidate beside an active generation,
  then active, then drained while another is promoted, and so meets every
  situation. No loop fails there (the theorems cover both at once); loops fail in
  the liveness run and in `ManagedRun`. In the liveness run generation 1, the one being replaced, is
  visited and may fail, and no handler hijacks: a hijack only lets `Shutdown`
  return earlier.
* In the safety run one of the two configurations has `ForceCloseHijacked`, so
  that upgraded connections are swept or spared. The liveness run has none: a
  sweep is one step of the call and holds nothing up. `ManagedRun` has it in
  both.
* Two Replace callers suffice for a promotion during a drain; a third would
  wait for the lock as the second does. `MaxDraining = 1` makes the limit bite
  with three generations.
* `Integrations = 2` and `Hooks = 3` give an order of cleanups and hooks on both
  sides of the server.
* `ManagedRun`: generation 1 is the hook's; it is visited, its handlers may
  hijack and its loop may fail. Generation 2 replaces it while it is in use, so
  that it is drained, in time or not, while `Run` serves and stops; a third would
  add another drain of the kind. If it
  does not, `Run` stops with 1 still the active one. One updater is enough beside
  `Start` and `Stop`: `HttpManagerSafety` has two at a time.
* One job: it runs, fails, or is awaited while the scheduler starts and stops;
  jobs share nothing but the monitor's first failure.
* Two processes contend for the lock as any number does: at most one holds it.
  The policies cover the three modes: two required ones that the kernel can
  enforce, with different probes, so that a handoff may meet another policy; an
  invalid one; a preferred one without Landlock, and a preferred one whose
  re-exec cannot list its descriptors. Paths are spelled with a trailing slash
  and with `..`, rights are given by every field, syscalls by two names. The
  host has each probe that is not per-process, a directory above each file, and
  a kernel of ABI 3 (no `ioctl_device`).
* Three readiness checks give every order of arrival around one that hangs.

`CHECK_DEADLOCK FALSE` stands where the program ends: `Run` has returned, the
stop hook has returned, a manager was shut down, a probe was answered. In
`Resources` a process can always be launched again, and deadlock is checked.

## 4. Fairness

Weak fairness is given to what the Go runtime and timers provide: a goroutine
that can go on does, a timer fires. It is *not* given to clients, handlers,
jobs, `OnStop` hooks, caller-supplied conditions or an unreliable check; those
are exactly the ones the properties say cannot hold the program.

* `HttpManager`: strong fairness for `ReplaceReturns` alone, the re-acquisition
  of `m.mu` after a drain: `sync.Mutex` hands the lock to a waiter that has
  waited for over a millisecond, so one that asks for ever gets it. Stoppers in
  `Deadlined` have a context that expires. `ServedSpec` adds that clients and
  handlers finish, hijacking ones too, and is used for the counterexample
  of `HttpManagerShutdownHangs` only,
  to show that it is not a client's fault.
* `ManagedRun`: `Run`'s own steps, its two timers, and the report of a serve
  goroutine that failed. No call of the manager, no client, handler or updater
  is assumed to go on: the end of the run may not depend on them.
* `Runner`: load, prepare, `OnStart` hooks and conditions are given the startup
  context and are assumed to return, failing if need be; cleanups too.
* `Startup`: the coordinator, the waiters, the stop hook and both timers.
* `Health`: timers, waiters, the receive loop, and the reliable runners.
* `Resources`: the steps up to composition (`Boot`), because `Load` and
  `Prepare` are given the startup context. Nothing says that a process is
  launched, stops or finishes closing its pool.

## 5. What is proved

TLC checks one instance; the theorems hold for every value of the constants that
satisfies the named assumptions, which TLC evaluates on each instance. Each
module with a behaviour has an `InductiveCorrect` (`Spec => []Inductive`;
`ManagedInductiveCorrect` in `ManagedRunProofs`, under `CertificatesNamed` in
`ManagerConfigProofs`), most have a `TypeCorrect` (`Spec => []TypeOK`), and the
others follow from the first:

| Theorem | States |
|---|---|
| **`HttpManagerProofs`** | |
| `AdmissionCorrect` | while open, only the active generation admits |
| `DrainingCorrect` | never more than `MaxDraining` generations drain |
| `ClosedCorrect` | after `Shutdown` nothing is active, candidate or draining |
| `TrackingCorrect` | a replaced generation is tracked until its drain ended |
| `WorkCorrect` | handlers, detached ones too, and upgraded connections only on promoted generations |
| `AdvanceCorrect` | the active number only grows, until `Shutdown` |
| `TransitionCorrect` | every behaviour refines `GenerationTransition` |
| `AppliedCorrect` | `applied` without a failed drain: the old loop has ended, port and connections are free |
| `ReleaseCorrect` | when the stopping `Shutdown` returns, no promoted generation listens or has an ordinary connection |
| `UpgradedCorrect` | with `ForceCloseHijacked`, nor has any an upgraded connection, but one the sweep ran past or one on a generation that was replaced and never swept |
| **`ManagedRunProofs`** | |
| `ManagerCorrect` | the manager keeps every invariant above inside `Run` |
| `ManagedTransitionCorrect` | and so does the refinement of `GenerationTransition` |
| `EndpointCorrect` | while the application runs there is an active generation its admission can reach |
| `ManagedServiceCorrect` | the whole refines `Service`: work begins in one period of admission, and the release waits for the handlers the servers answer for |
| **`RunnerProofs`** | |
| `ReleaseCorrect` | resources are released last, and all of them |
| `EarlyWorkCorrect` | no request before the conditions passed |
| `DependenciesCorrect` | a request in its handler has its dependencies, within the shutdown timeout |
| `ServeFailureCorrect` | a serve failure that stopped the run shows in the result |
| `RequestCorrect` | the first stop request decides the result |
| `ServiceCorrect` | the run refines `Service`, in the same sense |
| **`StartupProofs`** | |
| `AdmissionCorrect` | admission implies conditions and schema |
| `StopCorrect` | a stop after admission leaves no gocron and no job within its time |
| `HealthCorrect` | readiness tells the truth, if `NamesAgree` |
| `OrderlyStopCorrect` | an orderly stop is not a failure |
| **`ManagerConfigProofs`** | |
| `ReportCorrect` | reported = served, if `CertificatesNamed` |
| `InheritCorrect` | inheritance keeps the certificate, if `CertificatesNamed` and `NoPEM` |
| **`HealthProofs`** | |
| `ReplyCorrect` | a good reply was earned by every selected check and holds its own result |
| `LivenessCorrect` | a failing liveness probe has a check to blame |
| **`ConfinementProofs`** | |
| `PermitsWhatIsEntitled` | the ruleset permits what the policy entitles to, and no more |
| `DigestDecides` | policies with one digest permit the same |
| `FilterAnswers` | the BPF program answers every call as the policy says |
| **`ResourcesProofs`** | |
| `ExclusiveUseCorrect` | no two processes use the database at once |
| `ConfinementCorrect` | what is composed as confined may do what its own policy says |

### The inductive invariants, and why they are needed

*HttpManager.* The properties are not inductive alone. `OnlyActiveAdmits`, for
instance, is kept by `Promote` only because no gate is open between
`CloseOldGate` and it, and that because whoever is between them holds the lock.
`Inductive` adds:

* `LockInv`: a call holds `m.mu` exactly in its three locked positions, and
  while it does, its candidate is the only one, has the highest number, the
  manager is open and the limit check still holds. This is the heart: it
  carries a check made at line 361 to the insertion at line 407, over a probe.
* `NumberInv`: the active generation is at most the last number and above the
  draining ones, so the insertion adds one element and the new active one is
  never among them.
* `TargetInv`: calls work on existing generations, and a drain that is over
  has marked its generation closed, which is what lets `ReplaceReturns` drop it.
* `GateInv`: only promoted generations admit, and none during the handover.

There is a lemma per conjunct (`TypeStep`, `LockStep`, `AdmitStep`, ...) with a
step for every action; `DrainingBounded` uses the library's facts on the
cardinality of finite sets. `TransitionStep` maps each action to an abstract
one or a stutter, with `LockInv` telling that the candidate set is a singleton
or empty.

What `Shutdown` releases needs a second invariant, `Releases`, because a drain
and `Shutdown` may work on one generation and `close` skips one that the other
has marked. `DrainInv` says what each step of a drain has freed so far,
`RejectedInv` that a `Replace` closes nothing promoted, `LatestInv` that nobody
but `Shutdown` retires the last promoted generation, and `ReleaseInv` who still
owes what: a promoted generation is on the list of the stopping call or retired, and a retired one is silent or about to be (`ClosedSoon`). `UpgradedInv`
adds the sweeps: after a clean one nothing is left that could hijack, since the
listener is closed and the server's list is empty; and a promoted, retired
generation with `ForceCloseHijacked` has been swept, is about to be, or has a
promoted successor.

*ManagedRun.* Nothing in `Inductive` or `Releases` says how the admission came
about, so the steps of `Run` that open and close it keep both
(`ManagedInductiveCorrect`), and the theorems above carry over from the states
to the run. `EndpointInv` adds that whoever listens as active or candidate goes
on to, `ServiceInv` what `Run` knows of the manager in each position: it is not
closed and, from `initializing` on, has an active generation, since `Start`
returned `applied`. For the refinement of `Service`, `WorkMoves` says that a
step moves at most one request goroutine, or cuts the connections of one generation, and
that none enters a handler past a closed admission: so it begins, loosens or ends
one piece of work, or none. `ReturnedIsQuiet` says that `Served` is empty when
`Run` has returned within its budget.

*Runner.* `PhaseInv` says which phase has what started and which context the
`OnStop` hooks got; `HookInv` that hooks go down in reverse; `ServerInv` ties
the loop, the `done` channel and `Stop` to the state of the server's hook;
`DrainInv` what `Stop` has achieved unless its time is over, `AdmissionInv` who
may still handle a request, `ResultInv` what the result owes to what happened.
`ReleasedLast` needs the first four: cleanups start when the unwinding has
ended, which means that hooks are down only if no context expired.

*Startup.* `SchedulerInv` follows the condition of the scheduler through its
stages after the Coordinator has given up on it, `OutcomeInv` tells what was
received from what is going on, `StopInv` what the stop hook relied on when it
looked at `started`, and `MonitorInv` explains every state in which gocron does
not run although no failure is known. `OrderlyStopIsClean` is a step property
that follows from `MonitorInv`: at the hook's shutdown the intentional flag is
up, or the application has asked for a restart.

*ManagerConfig.* `Inductive` says that the three copies of the settings and the
certificate agree; `Inheritance` that a candidate which inherits has the
manager's certificate, which no rotation can change before its promotion.

*Health.* Every result on its way (`OutcomesInv`) and every entry
(`EntriesInv`) is earned, `OverallInv` that `overall` is the worst of the entries
and nothing else. The registry's order is not used, only that places are
distinct.

*Confinement.* The rights of the rules are traced to what asks for them
(`RuleOrigins`) for `PermitsWhatIsEntitled`. The program is proved correct by
the outcome each instruction must lead to (`Outcome`): the outcomes satisfy the
recursion of the kernel's interpreter (`RunExists`), and of all runs that
satisfy it the first instruction gives the policy's answer (`RunOutcome`), by
the least place at which one could differ. No jump is cut to eight bits because
no valid policy denies more than the 18 names of the table (`FewDenied`).

*Resources.* `Fits` says of each process what its phase implies: its
bookkeeping, that a handoff in the environment names the policy of the domain
in force (`HandedOff`), and what an applied policy has in force (`Confined`);
`OwnsLock` from which end of `Prepare` to which end of `Stop` it is the holder.
`ExclusiveUse` and `ComposedIsConfined` follow, the second with the theorems of
`ConfinementProofs`: a handoff is accepted by the digest, and the digest decides
what is permitted.

### Assumptions and hypotheses

The assumptions on constants are `ProcsAssumption`, `ConfigsAssumption` and
`BoundsAssumption` (callers are of one kind each, limits are positive, as
`normalized` makes them), `ManagedRunAssumption` (the hook's two callers, a stop
with a deadline), `RunnerAssumption` (the server is one of the hooks),
`StartupAssumption` (names of conditions are distinct, which `newCoordinator`
enforces; there is a job, because `SchedulerFails` with no job registered yet
stands for a failure of gocron's constructor), `ManagerConfigAssumption` (a configuration is HTTPS
exactly when it has something to serve), `RegistryAssumption` (the list is
`New`'s), `AnswersAssumption` and `ResourcesAssumption` (types), and
`HostAssumption` (a file is known by its clean path and has nothing below it).

Three theorems have a further hypothesis, since without it the property is false
of the code, as section 7 says; the instances of the passing runs satisfy them:

* `NamesAgree`: gocron reports a job by the name it is registered by. A job
  that `Register` creates has its name, one created with options of its own
  may not (`scheduler.go:373`).
* `CertificatesNamed`: an HTTPS configuration names its certificate or PEM
  material; a `TLSConfig` alone is served whatever is rotated
  (`manager.go:483`).
* `NoPEM`: no PEM material, which `normalized` loads again over a rotated
  certificate (`manager.go:302`).

### What is only model-checked

Liveness (`ReplaceFinishes`, `ShutdownFinishes`, `FailureEndsRun`,
`StopReturns`, `CallsReturn`, `CheckReturns`, `PreparationEnds`) is out of the
prover's reach, as is `ENABLED`, and with it the absence of deadlock.
The four runs with a counterexample refute a property, which is TLC's part.
Every safety and step property of a passing run, and every refinement, is
proved. `AdvanceCorrect` and the theorems of `ConfinementProofs` have no run of
their own: the refinement implies the first, and TLC evaluates rulesets and
programs for the policies of `Resources` (`DomainOf`, `FilterOf`).

## 6. Simplifications

* `HttpManager` models the built-in runtime. A `RuntimeFactory`'s `Serve`,
  `Shutdown` and `Close`, and the HTTP exchange of a probe, are single outcomes.
  By itself (`Init`) the manager has an Admission of its own, opened in
  `NewManager`; in `ManagedRun` it is given one that is closed. One
  `MaxDraining` serves all configurations; every configuration binds one fixed
  address. One request goroutine and one upgraded connection per generation at a
  time.
* `Runner`: option parsing is one of the failures of `LoadConfig`. Contents of
  errors are a Boolean.
* `ManagedRun`: integrations, other hooks and startup conditions are outcomes,
  which `Runner` and `Startup` model; the reason in the result is left out.
* `Startup`: `Initialize` is called once, as `Run` does. The application makes
  one call at a time on its scheduler; two at once could swap the writes of the
  flag and the calls of gocron in further ways. gocron reports a stop only of
  what runs, and its own stop timeout, which `SchedulerOptions` can set, is not
  modelled: its shutdown ends with its jobs or with the hook's context.
* `ManagerConfig`: limits, timeouts and metadata take no part; drains neither.
* `Health`: names are ranks, details are left out.
* `Resources`: one pool, one lock file, the Linux build for amd64 and arm64.
  Paths name files and directories without links, a right is a name, and a
  policy's lists of paths and grants are sets. A handoff names the policy it
  was computed from; its digest is that policy with the syscalls as a set, and
  its token, which anyone can compute, is left out. A kernel may refuse any
  system call. Servers, conditions and the scheduler are `Runner`'s and
  `Startup`'s; here an instance is serving, or stopping for whatever reason.

## 7. Where the code and its documents part, beyond the runs

Met while modelling, and noted here, most of them at a hazard too, rather than
given a run:

* a rejected candidate is deleted from `m.candidates` before it is closed
  (`manager.go:382`), so a concurrent `Shutdown` may return while it listens;
* a second `Shutdown` returns nil while the first is closing (`manager.go:703`);
* upgraded connections of a generation whose drain succeeded are never closed
  and out of `Shutdown`'s reach (`manager.go:583`, `600`), against lines 342 and
  441 of the specification; `ShutdownClosesUpgraded` excepts a generation that
  was replaced and never swept, and no other;
* a connection that has left `net/http`'s list and is not in `g.hijacked` yet is
  missed by `closeHijacked` (`manager.go:464-470`, `606-612`), on the last
  generation too, and `close` runs once only; the property excepts a connection
  that was there when the last sweep ran;
* a drain that times out drops the connections of its generation and leaves
  their handlers running (`manager.go:584`); `Run` may later stop within its
  budget and release what they use (`hanami.go:169`). So may handlers that took
  their connection over, with either server. `ImplementsService` calls such work
  loose and does not say that it ends before the release, and
  `DependenciesOutliveWork` speaks of connections the server answers for;
* `normalized` loads `CertificatePEM` over a rotated certificate
  (`manager.go:302`); the passing run uses settings without PEM;
* rotation on a generation with a `TLSConfig` alone changes no handshake
  (`manager.go:483`);
* `Run` opens admission after a serve loop has failed and closed it
  (`hanami.go:152`);
* a failed startup gives the cleanups a fresh budget (`hanami.go:143`);
* the select may take the caller's cancellation and drop an accepted request,
  its error and `ExternalRestartRequired` (`hanami.go:156`, the specification's
  line 98); `FirstRequestDecides` excepts a run that was cancelled;
* a rejected candidate is closed under `context.Background()`
  (`manager.go:384`): a client that keeps a request open on it keeps the
  `Replace`, and `Start` with it, past its context;
* a `Start` of the application between the mark of the stop hook and its
  shutdown makes an orderly stop count as a failure (`scheduler.go:245`);
  `OrderlyStopIsClean` excepts the crossing;
* the restricted thread lists `/proc/self/fd` under the new policy
  (`platform_linux.go:188`): a policy that does not grant it, as the examples of
  `src/README.md:300` and of `starters/secured`, can never re-execute. A required
  one then refuses to start; a preferred one goes on with one OS thread confined
  and given back to the scheduler, against the specification's line 187;
* `pathGranted` compares uncleaned paths while rules are cleaned
  (`platform_linux.go:217`, `302`): a policy spelled `/etc/../proc` picks a probe
  that it grants, and its handoff is refused;
* a regular file in `ReadOnlyPaths` asks for a right only directories have, and
  the kernel refuses the ruleset (`platform_linux.go:252`);
* `CompareEffectivePolicy` (`security.go:395`) calls the removal of a denied
  syscall, or of Landlock or seccomp altogether, more restrictive, and asks for
  no restart, nor for a change of `ExceptExec`, where `src/README.md:321` says
  that expansions require one;
* gocron starts beside migrations, not after them (`condition.go:84`);
* a required job registered without `gocron.WithName` is not recognised when it
  fails (`scheduler.go:373`, `starters/platform/app/app.go:115`); the passing
  run's `NativeName` is the identity for that reason;
* a pool is left open when a later constructor or an earlier hook fails, its
  own hook never having started (`database/database.go:120`);
* the ownership lock is released while a pool's `Close` still waits for
  queries, when it outlasts `Stop` (`hanami.go:136`); `ExclusiveUse` therefore
  excepts both.

## 8. What is not modelled

* *Observability*: builds OpenTelemetry providers in order and shuts them down
  in reverse; sequential, one hook of `Runner`. What it shares with other
  goroutines is behind OpenTelemetry's own interfaces.
* *Configuration*: a sequential decoder; its one observable result is success
  or failure of `LoadConfig`.
* *Logging, Gin, API, CLI, testkit*: no state that outlives a call.
* *Starters*, but for the updater in `ManagedRun`: they compose modules and keep
  no state. The job of `starters/platform` motivated the parameter `NativeName`.
* *`CompareEffectivePolicy`*: a report that nothing in `Run` reads.
* *Pass-throughs of `schedulerRef`* (`NewJob`, `Update`, `Remove...`, `Jobs`): one
  call of gocron behind the nil check that `RefCalls` has.
* *Migration status, goose providers, dialect configurations, pool tuning*: no
  state of the repository's own.
* *System calls of the Linux confinement, database drivers, goose, gocron, Fx,
  net/http*: outside the repository's logic; the last four appear as external
  actions.

## 9. Plan

The models above and the proofs about them are complete in the sense of
sections 3 and 5. What would add most next:

1. The second half of three divergences of section 7 that no property covers: a
   rejected candidate that `Shutdown` does not know (`manager.go:382`), the early
   return of a second `Shutdown` (`manager.go:703`), and a pool whose hook never
   starts (`database.go:120`).
2. `CompareEffectivePolicy` as operators of `Confinement`, against `Permits`:
   whether what it calls more restrictive permits less.
3. Observability's partial construction and reverse shutdown, and the providers
   as hooks of `Runner`.
4. Several probes at once in `Health`, to drop the argument that one stands for
   all.
