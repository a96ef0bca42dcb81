----------------------------- MODULE HttpManager -----------------------------
(***************************************************************************)
(* The managed HTTP generations of src/http/manager.go.                    *)
(*                                                                         *)
(* A Manager owns one active generation (listener, serve goroutine,        *)
(* admission gate), at most one candidate that is being verified, and a    *)
(* bounded set of generations that are draining.  Replacers are goroutines *)
(* inside Manager.Replace, Stoppers are goroutines inside Manager.Shutdown *)
(* and every generation runs a serve goroutine of its own.  A step ends    *)
(* where the code blocks, takes or drops m.mu, or writes an atomic another *)
(* goroutine reads.                                                        *)
(***************************************************************************)
EXTENDS Naturals, FiniteSets

CONSTANTS
  Replacers,      \* goroutines that call Replace (or Start)
  Stoppers,       \* goroutines that call Shutdown (or Stop)
  Deadlined,      \* the Stoppers whose context can expire
  NoProc,         \* m.mu is free
  Configs,        \* effective server configurations
  Address,        \* Configs -> the address each one binds
  ForceClose,     \* Configs -> ForceCloseHijacked
  MaxDraining,    \* MaxDrainingGenerations after normalized()
  MaxGenerations, \* bound of the model on m.generation
  Visited,        \* bound of the model: the generations clients connect to
  Faulty,         \* bound of the model: the generations whose serve loop may fail
  Upgrading       \* bound of the model: the generations whose handlers hijack

Procs == Replacers \cup Stoppers
Gens  == 1..MaxGenerations
None  == 0

ASSUME ProcsAssumption ==
  /\ Replacers \cap Stoppers = {}
  /\ Deadlined \subseteq Stoppers
  /\ NoProc \notin Replacers \cup Stoppers
ASSUME ConfigsAssumption ==
  /\ Configs # {}
  /\ ForceClose \in [Configs -> BOOLEAN]
ASSUME BoundsAssumption ==
  /\ MaxDraining \in Nat \ {0}
  /\ MaxGenerations \in Nat \ {0}
  /\ Visited \subseteq Gens /\ Faulty \subseteq Gens /\ Upgrading \subseteq Gens

VARIABLES
  mu,          \* holder of m.mu
  closed,      \* m.closed
  generation,  \* m.generation
  active,      \* m.active, None for nil
  candidates,  \* m.candidates
  draining,    \* m.draining
  admission,   \* the application-wide bootstrap.Admission is open
  stopRequest, \* generation whose failure process.Controller accepted
  genConfig,   \* generation.config
  listening,   \* the generation's listener is open
  loop,        \* the serve goroutine of startGeneration
  serveDone,   \* content of the one-element channel generation.serveDone
  promoted,    \* generation.promoted
  admitted,    \* generation.gate.admitted
  retired,     \* generation.closed
  conn,        \* the goroutine of one request of the generation
  cut,         \* runtime.Close has dropped the ordinary connections
  hijacked,    \* one open upgraded connection of the generation, see Hijack
  sweep,       \* history, no field of the code: the last closeHijacked
  pc,          \* where a Replace or Shutdown call stands
  target,      \* the generation the call verifies, drains or closes
  todo,        \* generations the call still has to close
  force,       \* forceHijacked argument of the close or drain in progress
  expired,     \* the context the call waits on is done
  failed,      \* an error was joined into the call's error
  result       \* what the last call of the goroutine returned

managerVars == <<mu, closed, generation, active, candidates, draining>>
hostVars    == <<admission, stopRequest>>
genVars     == <<genConfig, listening, loop, serveDone, promoted, admitted, retired>>
connVars    == <<conn, cut, hijacked, sweep>>
callVars    == <<pc, target, todo, force, expired, failed, result>>
vars        == <<managerVars, hostVars, genVars, connVars, callVars>>

ManagerTypes ==
  /\ mu \in Procs \cup {NoProc}
  /\ closed \in BOOLEAN
  /\ generation \in 0..MaxGenerations
  /\ active \in 0..MaxGenerations
  /\ candidates \subseteq Gens
  /\ draining \subseteq Gens
  /\ admission \in BOOLEAN
  /\ stopRequest \in 0..MaxGenerations

GenerationTypes ==
  /\ genConfig \in [Gens -> Configs]
  /\ listening \in [Gens -> BOOLEAN]
  /\ loop \in [Gens -> {"unborn", "serving", "failed", "exited"}]
  /\ serveDone \in [Gens -> {"empty", "nil", "error"}]
  /\ promoted \in [Gens -> BOOLEAN]
  /\ admitted \in [Gens -> BOOLEAN]
  /\ retired \in [Gens -> BOOLEAN]
  /\ conn \in [Gens -> {"none", "reading", "gated", "handling", "detached"}]
  /\ cut \in [Gens -> BOOLEAN]
  /\ hijacked \in [Gens -> {"none", "leaving", "stored"}]
  /\ sweep \in [Gens -> {"never", "clean", "missed"}]

CallTypes ==
  /\ pc \in [Procs -> {"idle", "probing", "probed", "promoting", "draining",
                       "drainShutdown", "drainJoin", "drained", "closing",
                       "closeShutdown", "closeJoin", "returned"}]
  /\ target \in [Procs -> 0..MaxGenerations]
  /\ todo \in [Procs -> SUBSET Gens]
  /\ force \in [Procs -> BOOLEAN]
  /\ expired \in [Procs -> BOOLEAN]
  /\ failed \in [Procs -> BOOLEAN]
  /\ result \in [Procs -> {"none", "rejected", "applied",
                           "applied_with_drain_failure", "stopped", "already_stopped"}]

TypeOK == ManagerTypes /\ GenerationTypes /\ CallTypes

\* NewManager, but for the admission.
NewManager ==
  /\ mu = NoProc /\ closed = FALSE /\ generation = 0 /\ active = None
  /\ candidates = {} /\ draining = {}
  /\ stopRequest = None
  /\ genConfig = [g \in Gens |-> CHOOSE c \in Configs : TRUE]
  /\ listening = [g \in Gens |-> FALSE]
  /\ loop = [g \in Gens |-> "unborn"]
  /\ serveDone = [g \in Gens |-> "empty"]
  /\ promoted = [g \in Gens |-> FALSE]
  /\ admitted = [g \in Gens |-> FALSE]
  /\ retired = [g \in Gens |-> FALSE]
  /\ conn = [g \in Gens |-> "none"]
  /\ cut = [g \in Gens |-> FALSE]
  /\ hijacked = [g \in Gens |-> "none"]
  /\ sweep = [g \in Gens |-> "never"]
  /\ pc = [p \in Procs |-> "idle"]
  /\ target = [p \in Procs |-> None]
  /\ todo = [p \in Procs |-> {}]
  /\ force = [p \in Procs |-> FALSE]
  /\ expired = [p \in Procs |-> FALSE]
  /\ failed = [p \in Procs |-> FALSE]
  /\ result = [p \in Procs |-> "none"]

\* Without an Admission or a Controller in its configuration it opens its own.
Init == NewManager /\ admission = TRUE
-----------------------------------------------------------------------------
(* Replace, up to the promotion.  The lock is held from the first step to  *)
(* the last, so the early returns are single steps.                        *)

Return(p, r) ==
  /\ pc' = [pc EXCEPT ![p] = "idle"]
  /\ result' = [result EXCEPT ![p] = r]

\* The locals of a call are gone when it has returned.
Leave(p) ==
  /\ force' = [force EXCEPT ![p] = FALSE]
  /\ expired' = [expired EXCEPT ![p] = FALSE]

Equivalent(c) == active # None /\ genConfig[active] = c

\* Mutant: one generation too many is let through.
LooseDrainingLimit == active # None /\ Cardinality(draining) > MaxDraining
AtDrainingLimit == active # None /\ Cardinality(draining) >= MaxDraining

\* Another generation of this manager, in whatever state, occupies the address.
AddressInUse(c) == \E g \in Gens : listening[g] /\ Address[genConfig[g]] = Address[c]

\* Mutant: the identity is formatted before the counter is incremented.
StaleNumber == generation
\* The number prepareGeneration gives the next generation.
NextNumber == generation + 1

\* A call that leaves the manager as it was: it is closed, configFor fails, the
\* context is done, or the listener cannot be opened.
ReplaceRefused(p) ==
  /\ pc[p] = "idle" /\ mu = NoProc
  /\ Return(p, "rejected")
  /\ target' = [target EXCEPT ![p] = None]
  /\ UNCHANGED <<managerVars, hostVars, genVars, connVars, todo, force, expired, failed>>

\* The effective configuration is the active one.
ReplaceNoop(p, c) ==
  /\ pc[p] = "idle" /\ mu = NoProc /\ ~closed
  /\ Equivalent(c)
  /\ Return(p, "applied")
  /\ target' = [target EXCEPT ![p] = None]
  /\ UNCHANGED <<managerVars, hostVars, genVars, connVars, todo, force, expired, failed>>

\* Mutant: m.closed is not checked.
MayPrepareOpen(p, c) ==
  /\ pc[p] = "idle" /\ mu = NoProc
  /\ ~Equivalent(c) /\ ~AtDrainingLimit /\ ~AddressInUse(c)
  /\ generation < MaxGenerations
\* Mutant: the candidate is prepared without m.mu.
MayPrepareUnlocked(p, c) ==
  /\ pc[p] = "idle" /\ ~closed
  /\ ~Equivalent(c) /\ ~AtDrainingLimit /\ ~AddressInUse(c)
  /\ generation < MaxGenerations
\* Replace gets past its early returns and the listener opens.
MayPrepare(p, c) ==
  /\ pc[p] = "idle" /\ mu = NoProc /\ ~closed
  /\ ~Equivalent(c) /\ ~AtDrainingLimit /\ ~AddressInUse(c)
  /\ generation < MaxGenerations

\* The listener opened, but the TLS settings or the runtime factory failed: the
\* listener is closed again and only the generation number stays consumed.
ReplaceUnprepared(p, c) ==
  /\ MayPrepare(p, c)
  /\ generation' = generation + 1
  /\ Return(p, "rejected")
  /\ target' = [target EXCEPT ![p] = None]
  /\ UNCHANGED <<mu, closed, active, candidates, draining, hostVars, genVars,
                 connVars, todo, force, expired, failed>>

\* prepareGeneration and startGeneration: the candidate listens and serves
\* behind its closed gate while the caller keeps the lock.
ReplacePrepare(p, c) ==
  LET g == NextNumber IN
  /\ MayPrepare(p, c)
  /\ generation' = generation + 1
  /\ mu' = p
  /\ candidates' = candidates \cup {g}
  /\ genConfig' = [genConfig EXCEPT ![g] = c]
  /\ listening' = [listening EXCEPT ![g] = TRUE]
  /\ loop' = [loop EXCEPT ![g] = "serving"]
  /\ pc' = [pc EXCEPT ![p] = "probing"]
  /\ target' = [target EXCEPT ![p] = g]
  /\ expired' = [expired EXCEPT ![p] = FALSE]
  /\ failed' = [failed EXCEPT ![p] = FALSE]
  /\ result' = [result EXCEPT ![p] = "none"]
  /\ UNCHANGED <<closed, active, draining, hostVars, serveDone, promoted, admitted,
                 retired, connVars, todo, force>>

\* The candidate leaves m.candidates and the lock is dropped; the call still has
\* to close the candidate, with context.Background().
Reject(p) ==
  LET g == target[p] IN
  /\ candidates' = candidates \ {g}
  /\ mu' = NoProc
  /\ pc' = [pc EXCEPT ![p] = "closing"]
  /\ todo' = [todo EXCEPT ![p] = {g}]
  /\ expired' = [expired EXCEPT ![p] = FALSE]
  /\ result' = [result EXCEPT ![p] = "rejected"]
  /\ UNCHANGED <<closed, generation, active, draining, hostVars, genVars, connVars,
                 target, force, failed>>

\* The candidate's own serve loop answers the private probe.
ProbePasses(p) ==
  /\ pc[p] = "probing"
  /\ loop[target[p]] = "serving" /\ ~expired[p]
  /\ pc' = [pc EXCEPT ![p] = "probed"]
  /\ UNCHANGED <<managerVars, hostVars, genVars, connVars, target, todo, force,
                 expired, failed, result>>

\* No answer within ProbeTimeout, a cancelled caller, a wrong status or identity.
ProbeFails(p) == pc[p] = "probing" /\ Reject(p)

\* Mutant: the context is read again only when the old gate is closed.
RecheckAfterGate(p) == pc[p] = "promoting" /\ Reject(p)
\* The caller's context is read once more after the probe.
RecheckFails(p) == pc[p] = "probed" /\ expired[p] /\ Reject(p)

\* Mutant: the old generation keeps admitting.
GatesKept == admitted
\* old.gate.setAdmitted(false).
OldGateClosed == [g \in Gens |-> admitted[g] /\ g # active]

\* The context is live: the old gate is closed before the candidate's opens.
CloseOldGate(p) ==
  /\ pc[p] = "probed" /\ ~expired[p]
  /\ admitted' = OldGateClosed
  /\ pc' = [pc EXCEPT ![p] = "promoting"]
  /\ UNCHANGED <<managerVars, hostVars, genConfig, listening, loop, serveDone, promoted,
                 retired, connVars, target, todo, force, expired, failed, result>>

\* The linearization point, up to the unlock.
Install(p) ==
  LET g == target[p] IN
  /\ pc[p] = "promoting"
  /\ promoted' = [promoted EXCEPT ![g] = TRUE]
  /\ admitted' = [admitted EXCEPT ![g] = TRUE]
  /\ active' = g
  /\ candidates' = candidates \ {g}
  /\ mu' = NoProc
  /\ target' = [target EXCEPT ![p] = active]
  /\ UNCHANGED <<closed, generation, hostVars, genConfig, listening, loop, serveDone,
                 retired, connVars, todo, failed>>

\* The first activation has nothing to drain.
PromoteFirst(p) ==
  /\ active = None
  /\ Install(p)
  /\ Return(p, "applied") /\ Leave(p)
  /\ UNCHANGED draining

\* The drain of the old generation does not depend on the caller's context.
Promote(p) ==
  /\ active # None
  /\ Install(p)
  /\ draining' = draining \cup {active}
  /\ pc' = [pc EXCEPT ![p] = "draining"]
  /\ force' = [force EXCEPT ![p] = ForceClose[genConfig[target[p]]]]
  /\ expired' = [expired EXCEPT ![p] = FALSE]
  /\ UNCHANGED result

-----------------------------------------------------------------------------
(* runtime.Shutdown and runtime.Close of the built-in runtime are those of *)
(* net/http: Shutdown closes the listener at once and returns when the     *)
(* server tracks no connection any more or its context is done; Close      *)
(* drops every connection it still tracks.  Neither ends a handler, and    *)
(* neither touches upgraded connections.                                   *)

\* The server's own list has a connection.
Tracked(g) == conn[g] \in {"reading", "gated", "handling"} /\ ~cut[g]

ShutdownReturns(p) ==
  /\ ~Tracked(target[p])
  /\ UNCHANGED <<cut, failed>>

\* ctx.Err() is joined and Close is called: the connections go, the goroutines of
\* their requests go on.
ShutdownExpires(p) ==
  /\ expired[p]
  /\ cut' = [cut EXCEPT ![target[p]] = TRUE]
  /\ failed' = [failed EXCEPT ![p] = TRUE]

\* closeHijacked, if forceHijacked asks for it: it closes what g.hijacked holds, and
\* misses a connection that is still on its way into the map.
CloseUpgraded(p) ==
  LET g == target[p] IN
  \/ /\ force[p]
     /\ hijacked' = [hijacked EXCEPT ![g] = IF @ = "stored" THEN "none" ELSE @]
     /\ sweep' = [sweep EXCEPT ![g] = IF hijacked[g] = "leaving" THEN "missed" ELSE "clean"]
  \/ ~force[p] /\ UNCHANGED <<hijacked, sweep>>

\* The select on serveDone and ctx.Done; a message is taken by one receiver.
TakeServeDone(p) ==
  LET g == target[p] IN
  /\ serveDone[g] # "empty"
  /\ failed' = [failed EXCEPT ![p] = (failed[p] \/ serveDone[g] = "error")]
  /\ serveDone' = [serveDone EXCEPT ![g] = "empty"]

\* Mutant: the context's error is not joined.
JoinGivesUpSilently(p) == expired[p] /\ UNCHANGED <<failed, serveDone>>
\* Mutant: the join ignores the context.
JoinNeverGivesUp(p) == FALSE /\ UNCHANGED <<failed, serveDone>>
JoinGivesUp(p) ==
  /\ expired[p]
  /\ failed' = [failed EXCEPT ![p] = TRUE]
  /\ UNCHANGED serveDone

-----------------------------------------------------------------------------
(* drainGeneration of the old generation, and the end of Replace.          *)

\* Mutant: the generation leaves m.draining when its drain begins.
DrainBeginUntracked(p) ==
  /\ pc[p] = "draining"
  /\ draining' = draining \ {target[p]}
  /\ listening' = [listening EXCEPT ![target[p]] = FALSE]
  /\ pc' = [pc EXCEPT ![p] = "drainShutdown"]
  /\ UNCHANGED <<mu, closed, generation, active, candidates, hostVars, genConfig, loop,
                 serveDone, promoted, admitted, retired, connVars, target, todo, force,
                 expired, failed, result>>
DrainBegin(p) ==
  /\ pc[p] = "draining"
  /\ listening' = [listening EXCEPT ![target[p]] = FALSE]
  /\ pc' = [pc EXCEPT ![p] = "drainShutdown"]
  /\ UNCHANGED <<managerVars, hostVars, genConfig, loop, serveDone, promoted, admitted,
                 retired, connVars, target, todo, force, expired, failed, result>>

DrainShutdown(p) ==
  /\ pc[p] = "drainShutdown"
  /\ \/ ShutdownReturns(p) /\ UNCHANGED <<hijacked, sweep>>
     \/ ShutdownExpires(p) /\ CloseUpgraded(p)
  /\ pc' = [pc EXCEPT ![p] = "drainJoin"]
  /\ UNCHANGED <<managerVars, hostVars, genVars, conn, target, todo, force, expired, result>>

DrainJoin(p) ==
  /\ pc[p] = "drainJoin"
  /\ \/ TakeServeDone(p) /\ UNCHANGED <<hijacked, sweep>>
     \/ JoinGivesUp(p) /\ CloseUpgraded(p)
  /\ retired' = [retired EXCEPT ![target[p]] = TRUE]
  /\ pc' = [pc EXCEPT ![p] = "drained"]
  /\ UNCHANGED <<managerVars, hostVars, genConfig, listening, loop, promoted, admitted,
                 conn, cut, target, todo, force, expired, result>>

ReplaceReturns(p) ==
  /\ pc[p] = "drained" /\ mu = NoProc
  /\ draining' = draining \ {target[p]}
  /\ Return(p, IF failed[p] THEN "applied_with_drain_failure" ELSE "applied")
  /\ Leave(p)
  /\ failed' = [failed EXCEPT ![p] = FALSE]
  /\ UNCHANGED <<mu, closed, generation, active, candidates, hostVars, genVars, connVars,
                 target, todo>>

-----------------------------------------------------------------------------
(* Shutdown, and generation.close for it and for a rejected candidate.     *)

\* Mutant: the draining generations are left out of the snapshot.
OwnedUndrained == candidates \cup ({active} \ {None})
\* Every generation the manager still tracks.
Owned == candidates \cup draining \cup ({active} \ {None})

ShutdownBegin(p) ==
  /\ pc[p] = "idle" /\ mu = NoProc /\ ~closed
  /\ closed' = TRUE
  /\ admission' = FALSE
  /\ todo' = [todo EXCEPT ![p] = Owned]
  /\ active' = None
  /\ candidates' = {}
  /\ draining' = {}
  /\ pc' = [pc EXCEPT ![p] = "closing"]
  /\ result' = [result EXCEPT ![p] = "stopped"]
  /\ UNCHANGED <<mu, generation, stopRequest, genVars, connVars, target, force, expired, failed>>

\* A second Shutdown returns nil at once.
ShutdownAgain(p) ==
  /\ pc[p] \in {"idle", "returned"} /\ mu = NoProc /\ closed
  /\ pc' = [pc EXCEPT ![p] = "returned"]
  /\ result' = [result EXCEPT ![p] = "already_stopped"]
  /\ UNCHANGED <<managerVars, hostVars, genVars, connVars, target, todo, force, expired, failed>>

\* The snapshot lists the draining generations, in map order, before the active
\* one, which has the highest number.
NextToClose(p, g) ==
  /\ pc[p] = "closing" /\ g \in todo[p]
  /\ todo[p] = {g} \/ \E h \in todo[p] : h > g
  /\ todo' = [todo EXCEPT ![p] = @ \ {g}]

\* generation.closed was set already: close returns nil without waiting.
CloseSkip(p, g) ==
  /\ NextToClose(p, g) /\ retired[g]
  /\ UNCHANGED <<managerVars, hostVars, genVars, connVars, pc, target, force, expired,
                 failed, result>>

CloseBegin(p, g) ==
  /\ NextToClose(p, g) /\ ~retired[g]
  /\ retired' = [retired EXCEPT ![g] = TRUE]
  /\ listening' = [listening EXCEPT ![g] = FALSE]
  /\ target' = [target EXCEPT ![p] = g]
  /\ force' = [force EXCEPT ![p] = ForceClose[genConfig[g]]]
  /\ pc' = [pc EXCEPT ![p] = "closeShutdown"]
  /\ UNCHANGED <<managerVars, hostVars, genConfig, loop, serveDone, promoted, admitted,
                 connVars, expired, failed, result>>

\* Mutant: upgraded connections are closed after a timeout only, as in a drain.
CloseShutdownLikeDrain(p) ==
  /\ pc[p] = "closeShutdown"
  /\ \/ ShutdownReturns(p) /\ UNCHANGED <<hijacked, sweep>>
     \/ ShutdownExpires(p) /\ CloseUpgraded(p)
  /\ pc' = [pc EXCEPT ![p] = "closeJoin"]
  /\ UNCHANGED <<managerVars, hostVars, genVars, conn, target, todo, force, expired, result>>
CloseShutdown(p) ==
  /\ pc[p] = "closeShutdown"
  /\ ShutdownReturns(p) \/ ShutdownExpires(p)
  /\ CloseUpgraded(p)
  /\ pc' = [pc EXCEPT ![p] = "closeJoin"]
  /\ UNCHANGED <<managerVars, hostVars, genVars, conn, target, todo, force, expired, result>>

CloseJoin(p) ==
  /\ pc[p] = "closeJoin"
  /\ TakeServeDone(p) \/ JoinGivesUp(p)
  /\ pc' = [pc EXCEPT ![p] = "closing"]
  /\ UNCHANGED <<managerVars, hostVars, genConfig, listening, loop, promoted, admitted,
                 retired, connVars, target, todo, force, expired, result>>

\* Every generation of the list has been visited; Replace drops the error, Shutdown
\* returns it.
CloseEnd(p) ==
  /\ pc[p] = "closing" /\ todo[p] = {}
  /\ pc' = [pc EXCEPT ![p] = IF p \in Stoppers THEN "returned" ELSE "idle"]
  /\ Leave(p)
  /\ failed' = [failed EXCEPT ![p] = @ /\ p \in Stoppers]
  /\ UNCHANGED <<managerVars, hostVars, genVars, connVars, target, todo, result>>

-----------------------------------------------------------------------------
(* The contexts the calls wait on.                                         *)

Expire(p) ==
  /\ ~expired[p]
  /\ expired' = [expired EXCEPT ![p] = TRUE]
  /\ UNCHANGED <<managerVars, hostVars, genVars, connVars, pc, target, todo, force,
                 failed, result>>

\* Mutant: the drain waits on context.Background().
DrainNeverTimesOut(p) == FALSE /\ Expire(p)

CallerCancels(p)  == pc[p] \in {"probing", "probed"} /\ Expire(p)
DrainTimeout(p)   == pc[p] \in {"drainShutdown", "drainJoin"} /\ Expire(p)
StopDeadline(p)   == p \in Deadlined /\ pc[p] \in {"closing", "closeShutdown", "closeJoin"}
                     /\ Expire(p)

-----------------------------------------------------------------------------
(* The serve goroutine of a generation.                                    *)

\* Serve returns an error that is not ErrServerClosed, and closes its listener.
ServeFails(g) ==
  /\ g \in Faulty
  /\ loop[g] = "serving" /\ listening[g]
  /\ loop' = [loop EXCEPT ![g] = "failed"]
  /\ serveDone' = [serveDone EXCEPT ![g] = "error"]
  /\ listening' = [listening EXCEPT ![g] = FALSE]
  /\ UNCHANGED <<managerVars, hostVars, genConfig, promoted, admitted, retired,
                 connVars, callVars>>

\* Shutdown has closed the listener: Serve returns ErrServerClosed.
ServeStops(g) ==
  /\ loop[g] = "serving" /\ ~listening[g]
  /\ loop' = [loop EXCEPT ![g] = "exited"]
  /\ serveDone' = [serveDone EXCEPT ![g] = "nil"]
  /\ UNCHANGED <<managerVars, hostVars, genConfig, listening, promoted, admitted, retired,
                 connVars, callVars>>

\* The goroutine, with its error sent, has read promoted.
LoopExits(g) ==
  /\ loop[g] = "failed"
  /\ loop' = [loop EXCEPT ![g] = "exited"]
  /\ UNCHANGED <<managerVars, genConfig, listening, serveDone, promoted, admitted, retired,
                 connVars, callVars>>

StopProcess(g) ==
  /\ admission' = FALSE
  /\ stopRequest' = IF stopRequest = None THEN g ELSE stopRequest

\* Mutant: only the generation that is still active reports.
ReportIfActive(g) ==
  /\ LoopExits(g)
  /\ IF active = g THEN StopProcess(g) ELSE UNCHANGED hostVars
\* A promoted generation reports; the controller keeps the first request.
ReportFailure(g) == promoted[g] /\ LoopExits(g) /\ StopProcess(g)

\* A generation that does not read promoted as set stays silent.
SwallowFailure(g) == ~promoted[g] /\ LoopExits(g) /\ UNCHANGED hostVars

-----------------------------------------------------------------------------
(* Clients, and GenerationGate.Wrap in front of the application handler.   *)

\* The goroutine of a request goes from one stage to the next.
Moves(g, from, to) ==
  /\ conn[g] = from
  /\ conn' = [conn EXCEPT ![g] = to]
  /\ UNCHANGED <<managerVars, hostVars, genVars, cut, sweep, callVars>>

ClientStep(g, from, to) == Moves(g, from, to) /\ UNCHANGED hijacked

Connect(g) ==
  /\ g \in Visited
  /\ loop[g] = "serving" /\ listening[g]
  /\ ClientStep(g, "none", "reading")

\* The client goes away, or Close has dropped the connection, before the request
\* has been read.
ReadFails(g) == ClientStep(g, "reading", "none")

\* Mutant: the generation's own gate is not read.
EnterUngated(g) == ClientStep(g, "reading", "gated")
\* Admitted() reads the generation's own gate, then the application's admission; a
\* request read before its connection was dropped comes here too.
EnterGate(g) == ClientStep(g, "reading", IF admitted[g] THEN "gated" ELSE "none")

PassGate(g) == ClientStep(g, "gated", IF admission THEN "handling" ELSE "none")

Respond(g) == ClientStep(g, "handling", "none")

\* A handler takes its connection over, the first half: the server takes it off its
\* own list, under a lock of its own.  On a dropped connection nothing open results.
Hijack(g) ==
  /\ g \in Upgrading
  /\ hijacked[g] = "none" /\ ~cut[g]
  /\ Moves(g, "handling", "detached")
  /\ hijacked' = [hijacked EXCEPT ![g] = "leaving"]

Upgraded(g, to) ==
  /\ hijacked' = [hijacked EXCEPT ![g] = to]
  /\ UNCHANGED <<managerVars, hostVars, genVars, conn, cut, sweep, callVars>>

\* The second half, still inside the handler's call: ConnState(StateHijacked) puts
\* the connection into g.hijacked, under hijackedMu.
StoreHijacked(g) == hijacked[g] = "leaving" /\ Upgraded(g, "stored")

\* Either end closes the upgraded connection.
HangUp(g) == hijacked[g] # "none" /\ Upgraded(g, "none")

\* The handler that took its connection over goes on as long as it likes.
DetachedReturns(g) == hijacked[g] # "leaving" /\ ClientStep(g, "detached", "none")

-----------------------------------------------------------------------------
ReplaceStep(p) ==
  \/ ReplaceRefused(p)
  \/ \E c \in Configs : ReplaceNoop(p, c)
  \/ \E c \in Configs : ReplaceUnprepared(p, c)
  \/ \E c \in Configs : ReplacePrepare(p, c)
  \/ ProbePasses(p) \/ ProbeFails(p) \/ RecheckFails(p) \/ CloseOldGate(p)
  \/ PromoteFirst(p) \/ Promote(p)
  \/ DrainBegin(p) \/ DrainShutdown(p) \/ DrainJoin(p) \/ ReplaceReturns(p)
  \/ CallerCancels(p) \/ DrainTimeout(p)

CloseStep(p) ==
  \/ \E g \in Gens : CloseBegin(p, g) \/ CloseSkip(p, g)
  \/ CloseShutdown(p) \/ CloseJoin(p) \/ CloseEnd(p)

LoopStep(g) == ServeFails(g) \/ ServeStops(g) \/ ReportFailure(g) \/ SwallowFailure(g)

ClientActs(g) ==
  \/ Connect(g) \/ ReadFails(g) \/ EnterGate(g) \/ PassGate(g) \/ Respond(g)
  \/ Hijack(g) \/ StoreHijacked(g) \/ HangUp(g) \/ DetachedReturns(g)

Next ==
  \/ \E p \in Replacers : ReplaceStep(p)
  \/ \E p \in Stoppers : ShutdownBegin(p) \/ ShutdownAgain(p) \/ StopDeadline(p)
  \/ \E p \in Procs : CloseStep(p)
  \/ \E g \in Gens : LoopStep(g) \/ ClientActs(g)

Spec == Init /\ [][Next]_vars

(***************************************************************************)
(* Fairness: goroutines run, timers fire, and sync.Mutex hands the lock to *)
(* a waiter that keeps asking.  Nothing is assumed of callers, clients or  *)
(* of a serve loop's health.                                               *)
(***************************************************************************)
Fairness ==
  /\ \A p \in Replacers :
       /\ WF_vars(ProbePasses(p) \/ ProbeFails(p))
       /\ WF_vars(RecheckFails(p) \/ CloseOldGate(p))
       /\ WF_vars(PromoteFirst(p) \/ Promote(p))
       /\ WF_vars(DrainBegin(p))
       /\ WF_vars(DrainShutdown(p))
       /\ WF_vars(DrainJoin(p))
       /\ SF_vars(ReplaceReturns(p))
       /\ WF_vars(DrainTimeout(p))
  /\ \A p \in Stoppers : WF_vars(StopDeadline(p))
  /\ \A p \in Procs : WF_vars(CloseStep(p))
  /\ \A g \in Gens : WF_vars(ServeStops(g)) /\ WF_vars(ReportFailure(g) \/ SwallowFailure(g))

FairSpec == Spec /\ Fairness

\* In addition every client finishes its request and every handler returns.
ServedSpec ==
  /\ FairSpec
  /\ \A g \in Gens :
       /\ WF_vars(EnterGate(g) \/ PassGate(g) \/ Respond(g))
       /\ WF_vars(StoreHijacked(g)) /\ WF_vars(DetachedReturns(g))

-----------------------------------------------------------------------------
(* Safety.                                                                 *)

\* Replace's transition lock: while the manager is open, no generation but the
\* active one admits application requests, also between closing the old gate
\* and opening the new one (manager.go:393-399).
OnlyActiveAdmits == ~closed => \A g \in Gens : admitted[g] => g = active

\* The limit check of Replace (manager.go:361) holds at the later insertion into
\* m.draining, whatever other calls do in between.
DrainingBounded == Cardinality(draining) <= MaxDraining

\* Shutdown is final: a Replace that waited for the lock activates nothing, and
\* one that returns late puts nothing back (manager.go:347, 411).
ClosedIsFinal == closed => active = None /\ candidates = {} /\ draining = {}

\* A generation that was replaced is tracked until its drain is over.
ReplacedIsTracked ==
  \A g \in Gens :
    ~closed /\ promoted[g] /\ g # active /\ ~retired[g] => g \in draining

\* When the Shutdown call that stopped the manager returns, no generation that
\* ever served the public listens or holds an ordinary connection, although
\* Replace calls may have been draining some of them at the same time.
ShutdownReleases ==
  \A p \in Procs : pc[p] = "returned" /\ result[p] = "stopped" =>
    \A g \in Gens : promoted[g] => ~listening[g] /\ ~Tracked(g)

\* "applied" after a replacement, without the drain failure, means that the old
\* generation is gone: its loop has ended, its port is free and the server answers
\* for no connection of it.
AppliedMeansRetired ==
  \A p \in Procs : pc[p] = "idle" /\ result[p] = "applied" /\ target[p] # None =>
    /\ loop[target[p]] = "exited"
    /\ ~listening[target[p]] /\ ~Tracked(target[p]) /\ retired[target[p]]

\* With ForceCloseHijacked, an upgraded connection outlives the Shutdown that stopped
\* the manager in two cases only, on whatever generation it is: it was on its way from
\* net/http into g.hijacked when closeHijacked last ran; or its generation had been
\* replaced, and no drain ran out of time that would have swept it (manager.go:464-470,
\* 582-600, 606-612).
ShutdownClosesUpgraded ==
  \A p \in Procs : pc[p] = "returned" /\ result[p] = "stopped" =>
    \A g \in Gens : ForceClose[genConfig[g]] /\ hijacked[g] # "none" =>
      \/ sweep[g] = "missed"
      \/ sweep[g] = "never" /\ \E h \in Gens : h > g /\ promoted[h]

\* Application handlers run, and connections are upgraded, on promoted
\* generations only: a candidate answers nothing but its probe.
WorkOnlyOnPromoted ==
  \A g \in Gens :
    conn[g] \in {"gated", "handling", "detached"} \/ hijacked[g] # "none" => promoted[g]

\* Concurrent replacements take effect in the order of their numbers: an older
\* candidate never displaces a newer active generation.
ActiveAdvances == [][active' # active => active' = None \/ active' > active]_vars

(* Liveness.                                                               *)

\* Replace gives up m.mu, for which Current, RotateCertificate and Shutdown wait, whether
\* the candidate answers its probe or not; and one that promoted its candidate returns,
\* whatever the clients of the old generation do (manager.go:377-425).
ReplaceFinishes ==
  /\ \A p \in Procs : mu = p ~> mu # p
  /\ \A p \in Replacers : pc[p] = "draining" ~> pc[p] = "idle"

\* Shutdown returns.
ShutdownFinishes == \A p \in Stoppers : pc[p] = "closing" ~> pc[p] = "returned"

-----------------------------------------------------------------------------
(* The manager implements the abstract transition of generations.          *)

Transition == INSTANCE GenerationTransition
  WITH MaxRetiring <- MaxDraining, MaxIssued <- MaxGenerations,
       issued <- generation, current <- active, pending <- candidates,
       retiring <- draining, stopped <- closed

\* Whatever Replace and Shutdown calls interleave, their locked sections amount
\* to serialized proposals, rejections, promotions and one stop.
ImplementsTransition == Transition!Spec

-----------------------------------------------------------------------------
(* The inductive invariant of the proofs in HttpManagerProofs.             *)

HoldsLock == {"probing", "probed", "promoting"}

\* m.mu is held exactly from the preparation of a candidate to its promotion or
\* rejection; meanwhile that candidate is the only one, carries the highest
\* number, and what Replace checked before still holds.
LockInv ==
  /\ \A p \in Procs : pc[p] \in HoldsLock <=> mu = p
  /\ mu = NoProc => candidates = {}
  /\ \A p \in Procs : mu = p =>
       /\ target[p] = generation /\ active < generation
       /\ candidates = {target[p]}
       /\ ~closed /\ ~AtDrainingLimit

NumberInv ==
  /\ active <= generation
  /\ \A g \in draining : g < active
  /\ closed => active = None

\* The generation a call works on exists; when its drain is over it is retired.
TargetInv ==
  \A p \in Procs :
    /\ pc[p] \notin {"idle", "closing", "returned"} => target[p] \in Gens
    /\ pc[p] = "drained" => retired[target[p]]

GateInv ==
  /\ \A g \in Gens : admitted[g] => promoted[g]
  /\ \A p \in Procs : pc[p] = "promoting" => \A g \in Gens : ~admitted[g]

\* What makes the safety properties inductive: who holds the lock, and what is
\* known while it is held.
Inductive ==
  /\ TypeOK /\ LockInv /\ NumberInv /\ TargetInv /\ GateInv
  /\ OnlyActiveAdmits /\ DrainingBounded /\ ReplacedIsTracked /\ WorkOnlyOnPromoted

-----------------------------------------------------------------------------
(* What a document of the repository says, and the code does not keep.     *)

\* "A serving error observed before promotion rejects the candidate. An error
\* after promotion is a runtime failure handled by the manager and runner."
DeadActiveIsReported ==
  active # None /\ loop[active] = "exited" => stopRequest # None
=============================================================================
