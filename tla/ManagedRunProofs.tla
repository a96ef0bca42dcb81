-------------------------- MODULE ManagedRunProofs --------------------------
(***************************************************************************)
(* Proofs about ManagedRun, for every set of updaters, configurations and  *)
(* limits: the invariants of HttpManager hold although Run opens and       *)
(* closes the admission from outside, an active generation is there while  *)
(* the application runs, and the whole keeps the promise of Service.       *)
(***************************************************************************)
EXTENDS ManagedRun, HttpManagerProofs

\* Whoever listens as the active generation or as the candidate under m.mu goes on to,
\* unless its loop ended by itself; the active one admits, but in the handover; what was
\* applied is there until a Shutdown.
EndpointInv ==
  /\ active # None => listening[active] \/ loop[active] \in {"failed", "exited"}
  /\ \A p \in Procs : mu = p => listening[generation] \/ loop[generation] \in {"failed", "exited"}
  /\ active # None /\ (\A p \in Procs : pc[p] # "promoting") => admitted[active]
  /\ ~closed => \A p \in Procs : result[p] = "applied" => active # None
  /\ \A p \in Procs : pc[p] = "returned" => closed

\* Where Run stands, and what that says of the manager and of the admission.
ServiceInv ==
  /\ run \in {"starting", "initializing", "opening", "serving", "rollback", "stopping", "returned"}
  /\ run \in {"starting", "initializing", "opening", "serving"} => ~closed
  /\ run \in {"initializing", "opening", "serving"} => active # None
  /\ run # "serving" => admission = FALSE
  /\ run \in {"starting", "initializing", "opening", "rollback"} => Served = {}
  /\ run \notin {"stopping", "returned"} => stopDone = FALSE
  /\ stopDone \in BOOLEAN

ManagedInductive == Inductive /\ Releases /\ EndpointInv /\ ServiceInv

\* The steps of the manager that ManagedRun takes, but for the call of Shutdown.
Working ==
  \/ \E p \in Replacers : ReplaceStep(p)
  \/ \E p \in Stoppers : StopDeadline(p)
  \/ \E p \in Procs : CloseStep(p)
  \/ \E g \in Gens : LoopStep(g) \/ ClientActs(g)

\* What a step does to the manager, as Run sees it.
StaysOpen == closed' = closed /\ (active # None => active' # None)

\* What a step does to the requests: one at most changes or loses its connection, none
\* enters a handler past a closed admission, and a handler takes over an open connection.
WorkMoves ==
  \/ UNCHANGED <<conn, cut>> /\ (admission' = admission \/ admission' = FALSE)
  \/ /\ admission' = admission
     /\ \E g \in Gens :
          \/ UNCHANGED conn /\ cut' = [cut EXCEPT ![g] = TRUE]
          \/ /\ UNCHANGED cut /\ conn' = [conn EXCEPT ![g] = conn'[g]]
             /\ conn'[g] = "handling" => admission /\ conn[g] = "gated"
             /\ conn'[g] = "detached" => conn[g] = "handling" /\ ~cut[g]

\* What such a step is to Service.
Begins(g) ==
  \/ g \notin Served /\ Served' = Served \cup {g} /\ UNCHANGED Unattended
  \/ g \notin Unattended /\ Unattended' = Unattended \cup {g} /\ UNCHANGED Served
Loosens(g) == g \in Served /\ Served' = Served \ {g} /\ Unattended' = Unattended \cup {g}
Ends(g) ==
  \/ g \in Served /\ Served' = Served \ {g} /\ UNCHANGED Unattended
  \/ g \in Unattended /\ Unattended' = Unattended \ {g} /\ UNCHANGED Served

-----------------------------------------------------------------------------
\* Every step of the manager keeps the active generation reachable.
LEMMA EndpointStep ==
  ASSUME Inductive, Releases, EndpointInv
  PROVE  [Next]_vars => EndpointInv'
<1>a. TypeOK /\ IsMap(admitted, Gens)
  BY DEF Inductive, TypeOK, GenerationTypes, IsMap
<1>. USE <1>a, Shape DEF Shaped, IsMap
<1>. USE DEF EndpointInv, Inductive, Releases, LockInv, NumberInv, TargetInv, HoldsLock,
     CandidateInv, RoleInv, RejectedInv, LatestInv, Draining, Closing, managerVars, hostVars,
     genVars, connVars, callVars
<1>1. ASSUME NEW p \in Replacers, ReplaceRefused(p) PROVE EndpointInv'
  BY <1>1 DEF ReplaceRefused, Return
<1>2. ASSUME NEW p \in Replacers, NEW c \in Configs, ReplaceNoop(p, c) PROVE EndpointInv'
  BY <1>2 DEF ReplaceNoop, Equivalent, Return
<1>3. ASSUME NEW p \in Replacers, NEW c \in Configs, ReplaceUnprepared(p, c) PROVE EndpointInv'
  BY <1>3 DEF ReplaceUnprepared, MayPrepare, Return
<1>4. ASSUME NEW p \in Replacers, NEW c \in Configs, ReplacePrepare(p, c) PROVE EndpointInv'
  <2>1. generation' = generation + 1 /\ generation + 1 \in Gens
    BY <1>4, BoundsAssumption DEF ReplacePrepare, MayPrepare, Gens
  <2>2. /\ listening'[generation + 1] /\ \A g \in Gens : listening[g] => listening'[g]
        /\ loop'[generation + 1] = "serving"
        /\ \A g \in Gens : g # generation + 1 => loop'[g] = loop[g]
    BY <1>4, <2>1 DEF ReplacePrepare, NextNumber
  <2>3. mu' = p /\ UNCHANGED <<closed, active, admitted>>
    BY <1>4 DEF ReplacePrepare
  <2>4. pc' = [pc EXCEPT ![p] = "probing"] /\ result' = [result EXCEPT ![p] = "none"] /\ pc[p] =
       "idle"
    BY <1>4 DEF ReplacePrepare, MayPrepare
  <2>. QED
    BY <2>1, <2>2, <2>3, <2>4
<1>5. ASSUME NEW p \in Replacers, ProbePasses(p) PROVE EndpointInv'
  BY <1>5 DEF ProbePasses
<1>6. ASSUME NEW p \in Replacers, ProbeFails(p) PROVE EndpointInv'
  BY <1>6 DEF ProbeFails, Reject
<1>7. ASSUME NEW p \in Replacers, RecheckFails(p) PROVE EndpointInv'
  BY <1>7 DEF RecheckFails, Reject
<1>8. ASSUME NEW p \in Replacers, CloseOldGate(p) PROVE EndpointInv'
  BY <1>8 DEF CloseOldGate, OldGateClosed
<1>9. ASSUME NEW p \in Replacers, PromoteFirst(p) PROVE EndpointInv'
  <2>1. target[p] \in Gens /\ target[p] = generation /\ mu = p /\ ~closed
    BY <1>9 DEF PromoteFirst, Install
  <2>2. active' = generation /\ mu' = NoProc /\ UNCHANGED <<closed, generation, listening, loop>>
    BY <1>9, <2>1 DEF PromoteFirst, Install
  <2>3. admitted'[generation] /\ pc' = [pc EXCEPT ![p] = "idle"]
    BY <1>9, <2>1 DEF PromoteFirst, Install, Return, Leave
  <2>. QED
    BY <2>1, <2>2, <2>3
<1>10. ASSUME NEW p \in Replacers, Promote(p) PROVE EndpointInv'
  <2>1. target[p] \in Gens /\ target[p] = generation /\ mu = p /\ ~closed
    BY <1>10 DEF Promote, Install
  <2>2. active' = generation /\ mu' = NoProc /\ UNCHANGED <<closed, generation, listening, loop,
       result>>
    BY <1>10, <2>1 DEF Promote, Install
  <2>3. admitted'[generation] /\ pc' = [pc EXCEPT ![p] = "draining"]
    BY <1>10, <2>1 DEF Promote, Install
  <2>. QED
    BY <2>1, <2>2, <2>3
<1>11. ASSUME NEW p \in Replacers, DrainBegin(p) PROVE EndpointInv'
  BY <1>11 DEF DrainBegin
<1>12. ASSUME NEW p \in Replacers, DrainShutdown(p) PROVE EndpointInv'
  BY <1>12 DEF DrainShutdown, ShutdownReturns, ShutdownExpires, CloseUpgraded
<1>13. ASSUME NEW p \in Replacers, DrainJoin(p) PROVE EndpointInv'
  BY <1>13 DEF DrainJoin, TakeServeDone, JoinGivesUp, CloseUpgraded
<1>14. ASSUME NEW p \in Replacers, ReplaceReturns(p) PROVE EndpointInv'
  BY <1>14 DEF ReplaceReturns, Return, Leave
<1>15. ASSUME NEW p \in Replacers, CallerCancels(p) PROVE EndpointInv'
  BY <1>15 DEF CallerCancels, Expire
<1>16. ASSUME NEW p \in Replacers, DrainTimeout(p) PROVE EndpointInv'
  BY <1>16 DEF DrainTimeout, Expire
<1>17. ASSUME NEW p \in Stoppers, ShutdownBegin(p) PROVE EndpointInv'
  BY <1>17 DEF ShutdownBegin, Owned
<1>18. ASSUME NEW p \in Stoppers, ShutdownAgain(p) PROVE EndpointInv'
  BY <1>18 DEF ShutdownAgain
<1>19. ASSUME NEW p \in Stoppers, StopDeadline(p) PROVE EndpointInv'
  BY <1>19 DEF StopDeadline, Expire
<1>20. ASSUME NEW p \in Procs, NEW g \in Gens, CloseSkip(p, g) PROVE EndpointInv'
  BY <1>20 DEF CloseSkip, NextToClose
<1>21. ASSUME NEW p \in Procs, NEW g \in Gens, CloseBegin(p, g) PROVE EndpointInv'
  BY <1>21 DEF CloseBegin, NextToClose
<1>22. ASSUME NEW p \in Procs, CloseShutdown(p) PROVE EndpointInv'
  BY <1>22 DEF CloseShutdown, ShutdownReturns, ShutdownExpires, CloseUpgraded
<1>23. ASSUME NEW p \in Procs, CloseJoin(p) PROVE EndpointInv'
  BY <1>23 DEF CloseJoin, TakeServeDone, JoinGivesUp
<1>24. ASSUME NEW p \in Procs, CloseEnd(p) PROVE EndpointInv'
  BY <1>24 DEF CloseEnd, Leave
<1>25. ASSUME NEW g \in Gens, ServeFails(g) PROVE EndpointInv'
  BY <1>25 DEF ServeFails
<1>26. ASSUME NEW g \in Gens, ServeStops(g) PROVE EndpointInv'
  BY <1>26 DEF ServeStops
<1>27. ASSUME NEW g \in Gens, ReportFailure(g) PROVE EndpointInv'
  BY <1>27 DEF ReportFailure, LoopExits
<1>28. ASSUME NEW g \in Gens, SwallowFailure(g) PROVE EndpointInv'
  BY <1>28 DEF SwallowFailure, LoopExits
<1>29. ASSUME NEW g \in Gens, Connect(g) PROVE EndpointInv'
  BY <1>29 DEF Connect, ClientStep, Moves
<1>30. ASSUME NEW g \in Gens, EnterGate(g) PROVE EndpointInv'
  BY <1>30 DEF EnterGate, ClientStep, Moves
<1>31. ASSUME NEW g \in Gens, PassGate(g) PROVE EndpointInv'
  BY <1>31 DEF PassGate, ClientStep, Moves
<1>32. ASSUME NEW g \in Gens, Respond(g) PROVE EndpointInv'
  BY <1>32 DEF Respond, ClientStep, Moves
<1>33. ASSUME NEW g \in Gens, Hijack(g) PROVE EndpointInv'
  BY <1>33 DEF Hijack, Moves
<1>34. ASSUME NEW g \in Gens, HangUp(g) PROVE EndpointInv'
  BY <1>34 DEF HangUp, Upgraded
<1>35. ASSUME NEW g \in Gens, ReadFails(g) PROVE EndpointInv'
  BY <1>35 DEF ReadFails, ClientStep, Moves
<1>36. ASSUME NEW g \in Gens, StoreHijacked(g) PROVE EndpointInv'
  BY <1>36 DEF StoreHijacked, Upgraded
<1>37. ASSUME NEW g \in Gens, DetachedReturns(g) PROVE EndpointInv'
  BY <1>37 DEF DetachedReturns, ClientStep, Moves
<1>38. CASE UNCHANGED vars
  BY <1>38 DEF vars
<1>. QED
  BY <1>1, <1>2, <1>3, <1>4, <1>5, <1>6, <1>7, <1>8, <1>9, <1>10, <1>11, <1>12, <1>13, <1>14,
       <1>15, <1>16, <1>17, <1>18, <1>19, <1>20, <1>21, <1>22, <1>23, <1>24, <1>25, <1>26, <1>27,
       <1>28, <1>29, <1>30, <1>31, <1>32, <1>33, <1>34, <1>35, <1>36, <1>37, <1>38
     DEF Next, ReplaceStep, CloseStep, LoopStep, ClientActs

\* No step of the manager lets a request past a closed admission, and each touches one
\* connection at most.
LEMMA ManagerWork ==
  ASSUME TypeOK, TargetInv
  PROVE  [Next]_vars => WorkMoves
<1>. USE Shape DEF Shaped, IsMap
<1>. USE DEF WorkMoves, TargetInv, managerVars, hostVars, genVars, connVars, callVars
<1>1. ASSUME NEW p \in Replacers, ReplaceRefused(p) PROVE WorkMoves
  BY <1>1 DEF ReplaceRefused, Return
<1>2. ASSUME NEW p \in Replacers, NEW c \in Configs, ReplaceNoop(p, c) PROVE WorkMoves
  BY <1>2 DEF ReplaceNoop, Return
<1>3. ASSUME NEW p \in Replacers, NEW c \in Configs, ReplaceUnprepared(p, c) PROVE WorkMoves
  BY <1>3 DEF ReplaceUnprepared, MayPrepare, Return
<1>4. ASSUME NEW p \in Replacers, NEW c \in Configs, ReplacePrepare(p, c) PROVE WorkMoves
  BY <1>4 DEF ReplacePrepare, MayPrepare, NextNumber
<1>5. ASSUME NEW p \in Replacers, ProbePasses(p) PROVE WorkMoves
  BY <1>5 DEF ProbePasses
<1>6. ASSUME NEW p \in Replacers, ProbeFails(p) PROVE WorkMoves
  BY <1>6 DEF ProbeFails, Reject
<1>7. ASSUME NEW p \in Replacers, RecheckFails(p) PROVE WorkMoves
  BY <1>7 DEF RecheckFails, Reject
<1>8. ASSUME NEW p \in Replacers, CloseOldGate(p) PROVE WorkMoves
  BY <1>8 DEF CloseOldGate, OldGateClosed
<1>9. ASSUME NEW p \in Replacers, PromoteFirst(p) PROVE WorkMoves
  BY <1>9 DEF PromoteFirst, Install, Return, Leave
<1>10. ASSUME NEW p \in Replacers, Promote(p) PROVE WorkMoves
  BY <1>10 DEF Promote, Install
<1>11. ASSUME NEW p \in Replacers, DrainBegin(p) PROVE WorkMoves
  BY <1>11 DEF DrainBegin
<1>12. ASSUME NEW p \in Replacers, DrainShutdown(p) PROVE WorkMoves
  BY <1>12 DEF DrainShutdown, ShutdownReturns, ShutdownExpires, CloseUpgraded
<1>13. ASSUME NEW p \in Replacers, DrainJoin(p) PROVE WorkMoves
  BY <1>13 DEF DrainJoin, TakeServeDone, JoinGivesUp, CloseUpgraded
<1>14. ASSUME NEW p \in Replacers, ReplaceReturns(p) PROVE WorkMoves
  BY <1>14 DEF ReplaceReturns, Return, Leave
<1>15. ASSUME NEW p \in Replacers, CallerCancels(p) PROVE WorkMoves
  BY <1>15 DEF CallerCancels, Expire
<1>16. ASSUME NEW p \in Replacers, DrainTimeout(p) PROVE WorkMoves
  BY <1>16 DEF DrainTimeout, Expire
<1>17. ASSUME NEW p \in Stoppers, ShutdownBegin(p) PROVE WorkMoves
  BY <1>17 DEF ShutdownBegin, Owned
<1>18. ASSUME NEW p \in Stoppers, ShutdownAgain(p) PROVE WorkMoves
  BY <1>18 DEF ShutdownAgain
<1>19. ASSUME NEW p \in Stoppers, StopDeadline(p) PROVE WorkMoves
  BY <1>19 DEF StopDeadline, Expire
<1>20. ASSUME NEW p \in Procs, NEW g \in Gens, CloseSkip(p, g) PROVE WorkMoves
  BY <1>20 DEF CloseSkip, NextToClose
<1>21. ASSUME NEW p \in Procs, NEW g \in Gens, CloseBegin(p, g) PROVE WorkMoves
  BY <1>21 DEF CloseBegin, NextToClose
<1>22. ASSUME NEW p \in Procs, CloseShutdown(p) PROVE WorkMoves
  BY <1>22 DEF CloseShutdown, ShutdownReturns, ShutdownExpires, CloseUpgraded
<1>23. ASSUME NEW p \in Procs, CloseJoin(p) PROVE WorkMoves
  BY <1>23 DEF CloseJoin, TakeServeDone, JoinGivesUp
<1>24. ASSUME NEW p \in Procs, CloseEnd(p) PROVE WorkMoves
  BY <1>24 DEF CloseEnd, Leave
<1>25. ASSUME NEW g \in Gens, ServeFails(g) PROVE WorkMoves
  BY <1>25 DEF ServeFails
<1>26. ASSUME NEW g \in Gens, ServeStops(g) PROVE WorkMoves
  BY <1>26 DEF ServeStops
<1>27. ASSUME NEW g \in Gens, ReportFailure(g) PROVE WorkMoves
  BY <1>27 DEF ReportFailure, LoopExits, StopProcess
<1>28. ASSUME NEW g \in Gens, SwallowFailure(g) PROVE WorkMoves
  BY <1>28 DEF SwallowFailure, LoopExits
<1>29. ASSUME NEW g \in Gens, Connect(g) PROVE WorkMoves
  BY <1>29 DEF Connect, ClientStep, Moves
<1>30. ASSUME NEW g \in Gens, EnterGate(g) PROVE WorkMoves
  BY <1>30 DEF EnterGate, ClientStep, Moves
<1>31. ASSUME NEW g \in Gens, PassGate(g) PROVE WorkMoves
  BY <1>31 DEF PassGate, ClientStep, Moves
<1>32. ASSUME NEW g \in Gens, Respond(g) PROVE WorkMoves
  BY <1>32 DEF Respond, ClientStep, Moves
<1>33. ASSUME NEW g \in Gens, Hijack(g) PROVE WorkMoves
  BY <1>33 DEF Hijack, Moves
<1>34. ASSUME NEW g \in Gens, HangUp(g) PROVE WorkMoves
  BY <1>34 DEF HangUp, Upgraded
<1>35. ASSUME NEW g \in Gens, ReadFails(g) PROVE WorkMoves
  BY <1>35 DEF ReadFails, ClientStep, Moves
<1>36. ASSUME NEW g \in Gens, StoreHijacked(g) PROVE WorkMoves
  BY <1>36 DEF StoreHijacked, Upgraded
<1>37. ASSUME NEW g \in Gens, DetachedReturns(g) PROVE WorkMoves
  BY <1>37 DEF DetachedReturns, ClientStep, Moves
<1>38. CASE UNCHANGED vars
  BY <1>38 DEF vars
<1>. QED
  BY <1>1, <1>2, <1>3, <1>4, <1>5, <1>6, <1>7, <1>8, <1>9, <1>10, <1>11, <1>12, <1>13, <1>14,
       <1>15, <1>16, <1>17, <1>18, <1>19, <1>20, <1>21, <1>22, <1>23, <1>24, <1>25, <1>26, <1>27,
       <1>28, <1>29, <1>30, <1>31, <1>32, <1>33, <1>34, <1>35, <1>36, <1>37, <1>38
     DEF Next, ReplaceStep, CloseStep, LoopStep, ClientActs

\* Without a call of Shutdown the manager stays as open as it is, and has a generation when it
\* had one.
LEMMA OpenStep ==
  ASSUME TypeOK, TargetInv
  PROVE  Working => StaysOpen
<1>. USE Shape DEF Shaped, IsMap
<1>. USE DEF StaysOpen, TargetInv, managerVars, hostVars, genVars, connVars, callVars
<1>1. ASSUME NEW p \in Replacers, ReplaceRefused(p) PROVE StaysOpen
  BY <1>1 DEF ReplaceRefused, Return
<1>2. ASSUME NEW p \in Replacers, NEW c \in Configs, ReplaceNoop(p, c) PROVE StaysOpen
  BY <1>2 DEF ReplaceNoop, Return
<1>3. ASSUME NEW p \in Replacers, NEW c \in Configs, ReplaceUnprepared(p, c) PROVE StaysOpen
  BY <1>3 DEF ReplaceUnprepared, MayPrepare, Return
<1>4. ASSUME NEW p \in Replacers, NEW c \in Configs, ReplacePrepare(p, c) PROVE StaysOpen
  BY <1>4 DEF ReplacePrepare, MayPrepare, NextNumber
<1>5. ASSUME NEW p \in Replacers, ProbePasses(p) PROVE StaysOpen
  BY <1>5 DEF ProbePasses
<1>6. ASSUME NEW p \in Replacers, ProbeFails(p) PROVE StaysOpen
  BY <1>6 DEF ProbeFails, Reject
<1>7. ASSUME NEW p \in Replacers, RecheckFails(p) PROVE StaysOpen
  BY <1>7 DEF RecheckFails, Reject
<1>8. ASSUME NEW p \in Replacers, CloseOldGate(p) PROVE StaysOpen
  BY <1>8 DEF CloseOldGate, OldGateClosed
<1>9. ASSUME NEW p \in Replacers, PromoteFirst(p) PROVE StaysOpen
  BY <1>9 DEF PromoteFirst, Install, Return, Leave
<1>10. ASSUME NEW p \in Replacers, Promote(p) PROVE StaysOpen
  BY <1>10 DEF Promote, Install
<1>11. ASSUME NEW p \in Replacers, DrainBegin(p) PROVE StaysOpen
  BY <1>11 DEF DrainBegin
<1>12. ASSUME NEW p \in Replacers, DrainShutdown(p) PROVE StaysOpen
  BY <1>12 DEF DrainShutdown, ShutdownReturns, ShutdownExpires, CloseUpgraded
<1>13. ASSUME NEW p \in Replacers, DrainJoin(p) PROVE StaysOpen
  BY <1>13 DEF DrainJoin, TakeServeDone, JoinGivesUp, CloseUpgraded
<1>14. ASSUME NEW p \in Replacers, ReplaceReturns(p) PROVE StaysOpen
  BY <1>14 DEF ReplaceReturns, Return, Leave
<1>15. ASSUME NEW p \in Replacers, CallerCancels(p) PROVE StaysOpen
  BY <1>15 DEF CallerCancels, Expire
<1>16. ASSUME NEW p \in Replacers, DrainTimeout(p) PROVE StaysOpen
  BY <1>16 DEF DrainTimeout, Expire
<1>17. ASSUME NEW p \in Stoppers, StopDeadline(p) PROVE StaysOpen
  BY <1>17 DEF StopDeadline, Expire
<1>18. ASSUME NEW p \in Procs, NEW g \in Gens, CloseSkip(p, g) PROVE StaysOpen
  BY <1>18 DEF CloseSkip, NextToClose
<1>19. ASSUME NEW p \in Procs, NEW g \in Gens, CloseBegin(p, g) PROVE StaysOpen
  BY <1>19 DEF CloseBegin, NextToClose
<1>20. ASSUME NEW p \in Procs, CloseShutdown(p) PROVE StaysOpen
  BY <1>20 DEF CloseShutdown, ShutdownReturns, ShutdownExpires, CloseUpgraded
<1>21. ASSUME NEW p \in Procs, CloseJoin(p) PROVE StaysOpen
  BY <1>21 DEF CloseJoin, TakeServeDone, JoinGivesUp
<1>22. ASSUME NEW p \in Procs, CloseEnd(p) PROVE StaysOpen
  BY <1>22 DEF CloseEnd, Leave
<1>23. ASSUME NEW g \in Gens, LoopStep(g) \/ ClientActs(g) PROVE StaysOpen
  BY <1>23, Background
<1>. QED
  BY <1>1, <1>2, <1>3, <1>4, <1>5, <1>6, <1>7, <1>8, <1>9, <1>10, <1>11, <1>12, <1>13, <1>14,
       <1>15, <1>16, <1>17, <1>18, <1>19, <1>20, <1>21, <1>22, <1>23 DEF Working, ReplaceStep,
       CloseStep

\* The work under way changes by one request at most.
LEMMA HandlingMoves ==
  ASSUME TypeOK, WorkMoves
  PROVE  \/ UNCHANGED <<Served, Unattended>> /\ (admission' = admission \/ admission' = FALSE)
         \/ /\ admission' = admission
            /\ \E g \in Gens : (admission /\ Begins(g)) \/ Loosens(g) \/ Ends(g)
<1>. USE DEF Served, Unattended
<1>1. CASE UNCHANGED <<conn, cut>> /\ (admission' = admission \/ admission' = FALSE)
  BY <1>1
<1>2. ASSUME NEW g \in Gens, UNCHANGED conn, cut' = [cut EXCEPT ![g] = TRUE]
      PROVE  UNCHANGED <<Served, Unattended>> \/ Loosens(g)
  <2>1. cut'[g] /\ \A h \in Gens : h # g => cut'[h] = cut[h]
    BY <1>2 DEF TypeOK, GenerationTypes
  <2>2. CASE conn[g] = "handling" /\ ~cut[g]
    BY <1>2, <2>1, <2>2 DEF Loosens
  <2>3. CASE ~(conn[g] = "handling" /\ ~cut[g])
    BY <1>2, <2>1, <2>3
  <2>. QED
    BY <2>2, <2>3
<1>3. ASSUME NEW g \in Gens, UNCHANGED cut, conn' = [conn EXCEPT ![g] = conn'[g]],
             conn'[g] = "handling" => admission /\ conn[g] = "gated",
             conn'[g] = "detached" => conn[g] = "handling" /\ ~cut[g]
      PROVE  UNCHANGED <<Served, Unattended>> \/ (admission /\ Begins(g)) \/ Loosens(g) \/ Ends(g)
  <2>1. \A h \in Gens : h # g => conn'[h] = conn[h]
    BY <1>3 DEF TypeOK, GenerationTypes
  <2>2. CASE conn'[g] = "handling"
    BY <1>3, <2>1, <2>2 DEF Begins
  <2>3. CASE conn'[g] = "detached"
    BY <1>3, <2>1, <2>3 DEF Loosens
  <2>4. CASE conn'[g] \notin {"handling", "detached"} /\ conn[g] \in {"handling", "detached"}
    BY <1>3, <2>1, <2>4 DEF Ends
  <2>5. CASE conn'[g] \notin {"handling", "detached"} /\ conn[g] \notin {"handling", "detached"}
    BY <1>3, <2>1, <2>5
  <2>. QED
    BY <2>2, <2>3, <2>4, <2>5
<1>. QED
  BY <1>1, <1>2, <1>3 DEF WorkMoves

-----------------------------------------------------------------------------
(* The steps of the composition.                                           *)

\* A step of Run that leaves the manager alone.
RunAlone ==
  \/ StartEnds \/ LaterHookFails \/ StartTooLate \/ StartFails
  \/ InitializePasses \/ UnwindingEnds
  \/ CallerCancel \/ StartupExpires \/ StopExpires
  \/ \E u \in Updaters : Wakes(u) \/ Asks(u)

\* A step of Run that sets the admission.
RunAdmission == InitializeFails \/ OpenAdmission \/ Supervises

\* The composition steps in the manager, in Run, or in both where Run sets the admission
\* or calls Shutdown.
LEMMA StepKinds ==
  ASSUME ManagedNext
  PROVE  \/ Working /\ UNCHANGED runVars
         \/ StopCalls
         \/ RunAlone /\ UNCHANGED vars
         \/ RunAdmission
<1>1. Starter \in Replacers /\ Stopper \in Stoppers /\ \A u \in Updaters : u \in Replacers
  BY ManagedRunAssumption DEF Updaters
<1>2. CASE StartCalls
  BY <1>1, <1>2, ManagedRunAssumption DEF StartCalls, Working, ReplaceStep
<1>3. CASE StartEnds \/ LaterHookFails \/ StartTooLate \/ StartFails \/ InitializePasses \/ UnwindingEnds
  BY <1>3 DEF RunAlone, StartEnds, LaterHookFails, StartTooLate, StartFails, InitializePasses,
              UnwindingEnds
<1>4. CASE CallerCancel \/ StartupExpires \/ StopExpires
  BY <1>4 DEF RunAlone, CallerCancel, StartupExpires, StopExpires
<1>5. ASSUME NEW u \in Updaters, Wakes(u) \/ Asks(u)
      PROVE  RunAlone /\ UNCHANGED vars
  BY <1>5 DEF RunAlone, Wakes, Asks
<1>6. CASE CallExpires
  BY <1>1, <1>6 DEF CallExpires, Working, ReplaceStep
<1>7. ASSUME NEW u \in Updaters, UpdaterCalls(u)
      PROVE  Working /\ UNCHANGED runVars
  BY <1>1, <1>7 DEF UpdaterCalls, Working, ReplaceStep
<1>8. ASSUME NEW p \in Replacers, Proceeds(p)
      PROVE  Working /\ UNCHANGED runVars
  BY <1>8 DEF Proceeds, Working, ReplaceStep
<1>. QED
  BY <1>2, <1>3, <1>4, <1>5, <1>6, <1>7, <1>8 DEF ManagedNext, RunStep, RunAdmission, Working

\* What the manager's own steps are in HttpManager.
LEMMA ManagerSteps ==
  ASSUME Working \/ StopCalls \/ UNCHANGED vars
  PROVE  [Next]_vars
<1>1. Stopper \in Stoppers
  BY ManagedRunAssumption
<1>. QED
  BY <1>1 DEF Working, StopCalls, Next

\* The admission is of no concern to the manager's invariants.
LEMMA AdmissionApart ==
  ASSUME Inductive, Releases, EndpointInv, RunAdmission
  PROVE  Inductive' /\ Releases' /\ EndpointInv'
<1>1. admission' \in BOOLEAN
  BY DEF RunAdmission, InitializeFails, OpenAdmission, Supervises, SetAdmission
<1>2. UNCHANGED <<managerVars, stopRequest, genVars, connVars, callVars>>
  BY DEF RunAdmission, InitializeFails, OpenAdmission, Supervises, SetAdmission
<1>. USE <1>1, <1>2 DEF managerVars, genVars, connVars, callVars
<1>3. TypeOK'
  BY DEF Inductive, TypeOK, ManagerTypes, GenerationTypes, CallTypes
<1>4. LockInv' /\ NumberInv'
  BY DEF Inductive, LockInv, NumberInv, AtDrainingLimit
<1>5. TargetInv' /\ GateInv'
  BY DEF Inductive, TargetInv, GateInv
<1>6. OnlyActiveAdmits' /\ DrainingBounded' /\ ReplacedIsTracked' /\ WorkOnlyOnPromoted'
  BY DEF Inductive, OnlyActiveAdmits, DrainingBounded, ReplacedIsTracked, WorkOnlyOnPromoted
<1>7. UntouchedInv' /\ PreparedInv' /\ CandidateInv' /\ RoleInv' /\ RejectedInv'
  BY DEF Releases, UntouchedInv, PreparedInv, CandidateInv, RoleInv, RejectedInv
<1>8. LatestInv' /\ DrainInv'
  BY DEF Releases, LatestInv, DrainInv, AppliedMeansRetired, Tracked
<1>9. ReleaseInv' /\ UpgradedInv'
  BY DEF Releases, ReleaseInv, UpgradedInv, ClosedSoon, Tracked
<1>10. EndpointInv'
  BY DEF EndpointInv
<1>. QED
  BY <1>3, <1>4, <1>5, <1>6, <1>7, <1>8, <1>9, <1>10 DEF Inductive, Releases

\* The manager's invariants hold in the composition.
LEMMA ManagerPreserved ==
  ASSUME Inductive, Releases, EndpointInv, [ManagedNext]_allVars
  PROVE  Inductive' /\ Releases' /\ EndpointInv'
<1>1. [Next]_vars \/ RunAdmission
  <2>1. UNCHANGED allVars => UNCHANGED vars
    BY DEF allVars
  <2>. QED
    BY <2>1, StepKinds, ManagerSteps
<1>2. CASE [Next]_vars
  BY <1>2, InductiveStep, ReleasesStep, EndpointStep
<1>. QED
  BY <1>1, <1>2, AdmissionApart

\* Where Run stands keeps saying what it says of manager and admission.
LEMMA ServicePreserved ==
  ASSUME ManagedInductive, [ManagedNext]_allVars
  PROVE  ServiceInv'
<1>. USE DEF ManagedInductive
<1>1. TypeOK /\ TargetInv
  BY DEF Inductive
<1>2. CASE Working /\ UNCHANGED runVars
  <2>1. StaysOpen
    BY <1>1, <1>2, OpenStep
  <2>2. WorkMoves
    BY <1>1, <1>2, ManagerSteps, ManagerWork
  <2>3. admission = FALSE => admission' = FALSE /\ Served' \subseteq Served
    BY <1>1, <2>2, HandlingMoves DEF Loosens, Ends
  <2>. QED
    BY <1>2, <2>1, <2>3 DEF ServiceInv, StaysOpen, runVars
<1>3. CASE StopCalls
  <2>1. admission' = FALSE /\ UNCHANGED <<conn, cut, run, stopDone>> /\ run \in {"rollback", "stopping"}
    BY <1>3 DEF StopCalls, ShutdownBegin, connVars, runVars
  <2>2. Served' = Served
    BY <2>1 DEF Served
  <2>. QED
    BY <2>1, <2>2 DEF ServiceInv
<1>4. CASE RunAlone /\ UNCHANGED vars
  <2>1. UNCHANGED <<closed, active, admission, conn, cut>>
    BY <1>4 DEF vars, managerVars, hostVars, connVars
  <2>2. Served' = Served
    BY <2>1 DEF Served
  <2>3. Starter \in Procs
    BY ManagedRunAssumption DEF Procs
  <2>4. CASE StartEnds \/ LaterHookFails \/ StartTooLate
    <3>1. run = "starting" /\ result[Starter] = "applied" /\ UNCHANGED stopDone
      BY <2>4 DEF StartEnds, LaterHookFails, StartTooLate, Goes
    <3>2. run' \in {"initializing", "rollback", "stopping"}
      BY <2>4 DEF StartEnds, LaterHookFails, StartTooLate, Goes
    <3>3. active # None
      BY <2>3, <3>1 DEF ServiceInv, EndpointInv
    <3>. QED
      BY <2>1, <2>2, <3>1, <3>2, <3>3 DEF ServiceInv
  <2>5. CASE StartFails \/ InitializePasses \/ UnwindingEnds
    BY <2>1, <2>2, <2>5 DEF StartFails, InitializePasses, UnwindingEnds, Goes, ServiceInv
  <2>6. CASE CallerCancel \/ StartupExpires \/ StopExpires
    BY <2>1, <2>2, <2>6 DEF CallerCancel, StartupExpires, StopExpires, ServiceInv
  <2>7. ASSUME NEW u \in Updaters, Wakes(u) \/ Asks(u)
        PROVE  ServiceInv'
    BY <2>1, <2>2, <2>7 DEF Wakes, Asks, ServiceInv
  <2>. QED
    BY <1>4, <2>4, <2>5, <2>6, <2>7 DEF RunAlone
<1>5. CASE RunAdmission
  <2>1. UNCHANGED <<closed, active, conn, cut, stopDone>>
    BY <1>5 DEF RunAdmission, InitializeFails, OpenAdmission, Supervises, SetAdmission, managerVars,
                connVars
  <2>2. Served' = Served
    BY <2>1 DEF Served
  <2>. QED
    BY <1>5, <2>1, <2>2
       DEF RunAdmission, InitializeFails, OpenAdmission, Supervises, SetAdmission, Goes, ServiceInv
<1>6. CASE UNCHANGED allVars
  <2>1. UNCHANGED <<closed, active, admission, conn, cut, run, stopDone>>
    BY <1>6 DEF allVars, runVars, vars, managerVars, hostVars, connVars
  <2>. QED
    BY <2>1 DEF ServiceInv, Served
<1>. QED
  BY <1>2, <1>3, <1>4, <1>5, <1>6, StepKinds

-----------------------------------------------------------------------------
(* Theorems.                                                               *)

\* The manager's invariants hold in a run of the application, which opens and closes the
\* admission around it, and Run's own knowledge of the manager is right (hanami.go:141-171,
\* manager.go:765-777).
THEOREM ManagedInductiveCorrect == ManagedSpec => []ManagedInductive
<1>1. StartInit => ManagedInductive
  <2>. SUFFICES ASSUME StartInit PROVE ManagedInductive
    OBVIOUS
  <2>1. NewManager /\ admission = FALSE
    BY DEF StartInit
  <2>2. Inductive /\ Releases
    BY <2>1, InductiveInit, ReleasesInit
  <2>3. EndpointInv
    BY <2>1, ProcsAssumption DEF NewManager, EndpointInv, Procs, None
  <2>4. Served = {}
    BY <2>1 DEF NewManager, Served
  <2>5. ServiceInv
    BY <2>1, <2>4 DEF NewManager, StartInit, ServiceInv
  <2>. QED
    BY <2>2, <2>3, <2>5 DEF ManagedInductive
<1>2. ManagedInductive /\ [ManagedNext]_allVars => ManagedInductive'
  BY ManagerPreserved, ServicePreserved DEF ManagedInductive
<1>. QED
  BY <1>1, <1>2, PTL DEF ManagedSpec

\* What HttpManager promises by itself it keeps in the run: one admitting generation,
\* bounded and tracked drains, a final Shutdown that releases every generation, and a
\* truthful result of Replace (manager.go:342-425, 697-735, hanami.go:141-171).
THEOREM ManagerCorrect ==
  ManagedSpec => [](/\ OnlyActiveAdmits /\ DrainingBounded /\ ReplacedIsTracked /\ WorkOnlyOnPromoted
                    /\ ClosedIsFinal /\ AppliedMeansRetired
                    /\ ShutdownReleases /\ ShutdownClosesUpgraded)
<1>1. ManagedInductive =>
        /\ OnlyActiveAdmits /\ DrainingBounded /\ ReplacedIsTracked /\ WorkOnlyOnPromoted
        /\ ClosedIsFinal /\ AppliedMeansRetired
        /\ ShutdownReleases /\ ShutdownClosesUpgraded
  BY FinalWhenClosed, ReleasedAtReturn, UpgradedAtReturn
     DEF ManagedInductive, Inductive, Releases, DrainInv
<1>. QED
  BY <1>1, ManagedInductiveCorrect, PTL

\* The generations of a run follow the abstract transition, which knows no admission
\* (manager.go:346-425, 697-735).
THEOREM ManagedTransitionCorrect == ManagedSpec => ImplementsTransition
<1>1. StartInit => Transition!Init
  BY DEF StartInit, NewManager, Transition!Init, None
<1>2. RunAdmission => UNCHANGED Transition!vars
  BY DEF RunAdmission, InitializeFails, OpenAdmission, Supervises, SetAdmission, managerVars,
         Transition!vars
<1>3. ManagedInductive /\ [ManagedNext]_allVars => [Transition!Next]_(Transition!vars)
  <2>1. UNCHANGED allVars => UNCHANGED vars
    BY DEF allVars
  <2>2. ManagedInductive /\ [Next]_vars => [Transition!Next]_(Transition!vars)
    BY TransitionStep DEF ManagedInductive, Inductive
  <2>. QED
    BY <1>2, <2>1, <2>2, StepKinds, ManagerSteps
<1>. QED
  BY <1>1, <1>3, ManagedInductiveCorrect, PTL DEF ManagedSpec, ImplementsTransition, Transition!Spec

\* While the application runs there is a generation its admission can reach, whatever
\* updaters, drains and failures do (manager.go:387-399, hanami.go:142-171).
THEOREM EndpointCorrect == ManagedSpec => []EndpointStays
<1>1. ManagedInductive => EndpointStays
  <2>. SUFFICES ASSUME ManagedInductive, run \in {"initializing", "opening", "serving"}
                PROVE  /\ active # None
                       /\ listening[active] \/ loop[active] \in {"failed", "exited"}
                       /\ mu = NoProc => admitted[active]
    BY DEF EndpointStays
  <2>1. active # None
    BY DEF ManagedInductive, ServiceInv
  <2>2. mu = NoProc => \A p \in Procs : pc[p] # "promoting"
    BY Shape DEF ManagedInductive, Inductive, LockInv, HoldsLock, Shaped
  <2>. QED
    BY <2>1, <2>2 DEF ManagedInductive, EndpointInv
<1>. QED
  BY <1>1, ManagedInductiveCorrect, PTL

\* When the hook's Shutdown has returned, no server answers for a request any more.
LEMMA ReturnedIsQuiet ==
  ASSUME ManagedInductive, pc[Stopper] = "returned"
  PROVE  Served = {}
<1>. SUFFICES ASSUME NEW g \in Gens, conn[g] = "handling", ~cut[g] PROVE FALSE
  BY DEF Served
<1>. USE DEF ManagedInductive
<1>1. Stopper \in Procs /\ \A s \in Stoppers : s = Stopper
  BY ManagedRunAssumption DEF Procs
<1>2. closed
  BY <1>1 DEF EndpointInv
<1>3. \A s \in Stoppers : pc[s] \notin Closing
  BY <1>1 DEF Closing
<1>4. promoted[g]
  BY DEF Inductive, WorkOnlyOnPromoted
<1>5. retired[g]
  BY <1>2, <1>3, <1>4 DEF Releases, ReleaseInv
<1>6. ~ClosedSoon(g)
  BY <1>3 DEF ClosedSoon, Closing
<1>. QED
  BY <1>4, <1>5, <1>6 DEF Releases, ReleaseInv, Tracked

\* Service's view of where Run stands.
StageView ==
  /\ run \in {"starting", "initializing", "opening"} => Stage = "starting"
  /\ run = "returned" => Stage = IF stopDone THEN "abandoned" ELSE "released"
  /\ run \in {"serving", "rollback", "stopping"} => Stage = IF admission THEN "admitting" ELSE "refusing"

\* Stage is what StageView says.
LEMMA StageSeen == StageView
BY DEF StageView, Stage

\* Every step of the composition is one of Service's or is invisible to it.
LEMMA ServiceStep ==
  ASSUME ManagedInductive, ManagedInductive', ManagedNext
  PROVE  [Promise!Next]_(Promise!vars)
<1>. USE DEF StageView
<1>1. StageView /\ StageView'
  <2>1. StageView'
    BY DEF StageView, Stage
  <2>. QED
    BY <2>1, StageSeen
<1>2. TypeOK /\ TargetInv /\ ServiceInv /\ ServiceInv' /\ admission \in BOOLEAN
  BY DEF ManagedInductive, Inductive, TypeOK, ManagerTypes
<1>3. CASE Working /\ UNCHANGED runVars
  <2>1. UNCHANGED <<run, stopDone>>
    BY <1>3 DEF runVars
  <2>2. WorkMoves
    BY <1>2, <1>3, ManagerSteps, ManagerWork
  <2>3. CASE UNCHANGED <<admission, Served, Unattended>>
    BY <2>1, <2>3 DEF Promise!vars, Stage
  <2>4. CASE UNCHANGED <<Served, Unattended>> /\ admission /\ ~admission'
    <3>1. run = "serving"
      BY <1>2, <2>4 DEF ServiceInv
    <3>. QED
      BY <1>1, <2>1, <2>4, <3>1 DEF Promise!Next, Promise!Refuse
  <2>5. ASSUME UNCHANGED admission, NEW g \in Gens, admission, Begins(g)
        PROVE  Promise!Next
    <3>1. Promise!Begin(g)
      BY <2>1, <2>5 DEF Promise!Begin, Begins, Stage
    <3>. QED
      BY <3>1 DEF Promise!Next
  <2>6. ASSUME UNCHANGED admission, NEW g \in Gens, Loosens(g)
        PROVE  Promise!Next
    <3>1. Promise!ComesLoose(g)
      BY <2>1, <2>6 DEF Promise!ComesLoose, Loosens, Stage
    <3>. QED
      BY <3>1 DEF Promise!Next
  <2>7. ASSUME UNCHANGED admission, NEW g \in Gens, Ends(g)
        PROVE  Promise!Next
    <3>1. Promise!End(g)
      BY <2>1, <2>7 DEF Promise!End, Ends, Stage
    <3>. QED
      BY <3>1 DEF Promise!Next
  <2>. QED
    BY <1>2, <2>2, <2>3, <2>4, <2>5, <2>6, <2>7, HandlingMoves
<1>4. CASE StopCalls
  <2>1. /\ admission' = FALSE /\ UNCHANGED <<Served, Unattended, run, stopDone>>
        /\ run \in {"rollback", "stopping"}
    BY <1>4 DEF StopCalls, ShutdownBegin, connVars, runVars, Served, Unattended
  <2>. QED
    BY <1>2, <2>1 DEF Promise!vars, Stage, ServiceInv
<1>5. CASE RunAlone /\ UNCHANGED vars
  <2>1. UNCHANGED <<admission, Served, Unattended>>
    BY <1>5 DEF vars, hostVars, connVars, Served, Unattended
  <2>2. CASE StartEnds \/ InitializePasses
    BY <1>1, <2>1, <2>2 DEF StartEnds, InitializePasses, Goes, Promise!vars
  <2>3. CASE LaterHookFails \/ StartTooLate
    <3>1. run = "starting" /\ run' \in {"rollback", "stopping"} /\ admission' = FALSE
      BY <1>2, <2>1, <2>3 DEF LaterHookFails, StartTooLate, Goes, ServiceInv
    <3>. QED
      BY <1>1, <2>1, <3>1 DEF Promise!Next, Promise!Refuse
  <2>4. CASE StartFails
    <3>1. run = "starting" /\ run' = "returned" /\ stopDone' = FALSE /\ Served = {}
      BY <1>2, <2>4 DEF StartFails, Goes, ServiceInv
    <3>. QED
      BY <1>1, <2>1, <3>1 DEF Promise!Next, Promise!Release
  <2>5. CASE UnwindingEnds
    <3>1. /\ run \in {"rollback", "stopping"} /\ run' = "returned" /\ UNCHANGED stopDone
          /\ admission = FALSE
      BY <1>2, <2>5 DEF UnwindingEnds, ServiceInv
    <3>2. CASE stopDone
      BY <1>1, <2>1, <3>1, <3>2 DEF Promise!Next, Promise!GiveUp
    <3>3. CASE ~stopDone
      <4>1. Served = {}
        BY <1>2, <2>5, <3>1, <3>3, ReturnedIsQuiet DEF UnwindingEnds, UnwindingDone, ServiceInv
      <4>. QED
        BY <1>1, <2>1, <3>1, <3>3, <4>1 DEF Promise!Next, Promise!Release
    <3>. QED
      BY <3>2, <3>3
  <2>6. CASE CallerCancel \/ StartupExpires
    BY <2>1, <2>6 DEF CallerCancel, StartupExpires, Promise!vars, Stage
  <2>7. CASE StopExpires
    <3>1. run = "stopping" /\ run' = "stopping"
      BY <2>7 DEF StopExpires
    <3>. QED
      BY <1>1, <2>1, <3>1 DEF Promise!vars
  <2>8. ASSUME NEW u \in Updaters, Wakes(u) \/ Asks(u)
        PROVE  UNCHANGED Promise!vars
    BY <2>1, <2>8 DEF Wakes, Asks, Promise!vars, Stage
  <2>. QED
    BY <1>5, <2>2, <2>3, <2>4, <2>5, <2>6, <2>7, <2>8 DEF RunAlone
<1>6. CASE InitializeFails
  <2>1. /\ run = "initializing" /\ run' = "stopping" /\ admission' = FALSE
        /\ UNCHANGED <<Served, Unattended>>
    BY <1>6 DEF InitializeFails, SetAdmission, Goes, connVars, Served, Unattended
  <2>. QED
    BY <1>1, <2>1 DEF Promise!Next, Promise!Refuse
<1>7. CASE OpenAdmission
  <2>1. /\ run = "opening" /\ run' = "serving" /\ admission' = TRUE
        /\ UNCHANGED <<Served, Unattended>>
    BY <1>7 DEF OpenAdmission, SetAdmission, Goes, connVars, Served, Unattended
  <2>. QED
    BY <1>1, <2>1 DEF Promise!Next, Promise!Admit
<1>8. CASE Supervises
  <2>1. /\ run = "serving" /\ run' = "stopping" /\ admission' = FALSE
        /\ UNCHANGED <<Served, Unattended>>
    BY <1>8 DEF Supervises, SetAdmission, Goes, connVars, Served, Unattended
  <2>2. CASE admission
    BY <1>1, <2>1, <2>2 DEF Promise!Next, Promise!Refuse
  <2>3. CASE ~admission
    <3>1. admission = FALSE /\ Stage = "refusing" /\ Stage' = "refusing"
      BY <1>1, <1>2, <2>1, <2>3
    <3>. QED
      BY <2>1, <3>1 DEF Promise!vars
  <2>. QED
    BY <2>2, <2>3
<1>. QED
  BY <1>3, <1>4, <1>5, <1>6, <1>7, <1>8, StepKinds DEF RunAdmission

\* With generations that come and go, a run is one startup, at most one period of
\* admission and one release, when no server answers for a request any more or the
\* shutdown timeout is over.  Handlers whose connection a drain or stop dropped, and
\* those that took it over, may outlive the release; they began in the one period of
\* admission like all others (manager.go:411, 583-587, 703-724, hanami.go:152-171).
THEOREM ManagedServiceCorrect == ManagedSpec => ImplementsService
<1>1. StartInit => Promise!Init
  BY DEF StartInit, NewManager, Promise!Init, Stage, Served, Unattended
<1>2. ManagedInductive /\ ManagedInductive' /\ [ManagedNext]_allVars => [Promise!Next]_(Promise!vars)
  <2>1. UNCHANGED allVars => UNCHANGED Promise!vars
    BY DEF allVars, runVars, vars, hostVars, connVars, Promise!vars, Stage, Served, Unattended
  <2>. QED
    BY <2>1, ServiceStep
<1>. QED
  BY <1>1, <1>2, ManagedInductiveCorrect, PTL DEF ManagedSpec, ImplementsService, Promise!Spec
=============================================================================
