-------------------------- MODULE HttpManagerProofs --------------------------
(***************************************************************************)
(* Proofs about HttpManager, for every set of callers, every set of        *)
(* configurations and every value of the limits.                           *)
(***************************************************************************)
EXTENDS HttpManager, FiniteSetTheorems, TLAPS

USE DEF Procs, Gens, None

\* Serve goroutines and clients touch neither the manager's fields nor the calls.
LEMMA Background ==
  ASSUME NEW g \in Gens, LoopStep(g) \/ ClientActs(g)
  PROVE  UNCHANGED <<managerVars, callVars, genConfig, promoted, admitted, retired>>
<1>1. CASE LoopStep(g)
  BY <1>1 DEF LoopStep, ServeFails, ServeStops, ReportFailure, SwallowFailure, LoopExits, genVars
<1>2. CASE ClientActs(g)
  BY <1>2 DEF ClientActs, Connect, EnterGate, PassGate, Respond, Hijack, HangUp, ReadFails,
     StoreHijacked, DetachedReturns, Upgraded, ClientStep, Moves, genVars
<1>. QED
  BY <1>1, <1>2

\* A sweep, or none, keeps the types.
LEMMA SweepTypes ==
  ASSUME NEW p \in Procs, hijacked \in [Gens -> {"none", "leaving", "stored"}],
         sweep \in [Gens -> {"never", "clean", "missed"}],
         CloseUpgraded(p) \/ UNCHANGED <<hijacked, sweep>>
  PROVE  /\ hijacked' \in [Gens -> {"none", "leaving", "stored"}]
         /\ sweep' \in [Gens -> {"never", "clean", "missed"}]
<1>1. CASE UNCHANGED <<hijacked, sweep>>
  BY <1>1
<1>2. CASE hijacked' # hijacked \/ sweep' # sweep
  <2>1. hijacked' = [hijacked EXCEPT ![target[p]] = IF @ = "stored" THEN "none" ELSE @]
    BY <1>2 DEF CloseUpgraded
  <2>2. sweep' = [sweep EXCEPT ![target[p]] =
                    IF hijacked[target[p]] = "leaving" THEN "missed" ELSE "clean"]
    BY <1>2 DEF CloseUpgraded
  <2>3. hijacked' \in [Gens -> {"none", "leaving", "stored"}]
    BY <2>1
  <2>4. sweep' \in [Gens -> {"never", "clean", "missed"}]
    <3>. DEFINE v == IF hijacked[target[p]] = "leaving" THEN "missed" ELSE "clean"
    <3>1. v \in {"never", "clean", "missed"}
      OBVIOUS
    <3>2. sweep' = [sweep EXCEPT ![target[p]] = v]
      BY <2>2
    <3>. HIDE DEF v
    <3>. QED
      BY <3>1, <3>2
  <2>. QED
    BY <2>3, <2>4
<1>. QED
  BY <1>1, <1>2

\* Every step keeps the types.
LEMMA TypeStep ==
  ASSUME TypeOK, TargetInv
  PROVE  [Next]_vars => TypeOK'
<1>. USE ProcsAssumption, ConfigsAssumption, BoundsAssumption
<1>. USE DEF TypeOK, ManagerTypes, GenerationTypes, CallTypes, TargetInv, managerVars, hostVars,
     genVars, connVars, callVars
<1>1. ASSUME NEW p \in Replacers, ReplaceRefused(p) PROVE TypeOK'
  BY <1>1 DEF ReplaceRefused, Return
<1>2. ASSUME NEW p \in Replacers, NEW c \in Configs, ReplaceNoop(p, c) PROVE TypeOK'
  BY <1>2 DEF ReplaceNoop, Return
<1>3. ASSUME NEW p \in Replacers, NEW c \in Configs, ReplaceUnprepared(p, c) PROVE TypeOK'
  BY <1>3 DEF ReplaceUnprepared, Return, MayPrepare
<1>4. ASSUME NEW p \in Replacers, NEW c \in Configs, ReplacePrepare(p, c) PROVE TypeOK'
  BY <1>4 DEF ReplacePrepare, MayPrepare, NextNumber
<1>5. ASSUME NEW p \in Replacers, ProbePasses(p) PROVE TypeOK'
  BY <1>5 DEF ProbePasses
<1>6. ASSUME NEW p \in Replacers, ProbeFails(p) PROVE TypeOK'
  <2>1. ManagerTypes'
    BY <1>6 DEF ProbeFails, Reject
  <2>2. GenerationTypes'
    BY <1>6 DEF ProbeFails, Reject
  <2>3. CallTypes'
    <3>1. target[p] \in Gens
      BY <1>6 DEF ProbeFails
    <3>2. /\ todo' = [todo EXCEPT ![p] = {target[p]}]
          /\ pc' = [pc EXCEPT ![p] = "closing"]
          /\ expired' = [expired EXCEPT ![p] = FALSE]
          /\ result' = [result EXCEPT ![p] = "rejected"]
          /\ UNCHANGED <<target, force, failed>>
      BY <1>6 DEF ProbeFails, Reject
    <3>3. todo' \in [Procs -> SUBSET Gens]
      BY <3>1, <3>2
    <3>. QED
      BY <3>2, <3>3
  <2>. QED
    BY <2>1, <2>2, <2>3
<1>7. ASSUME NEW p \in Replacers, RecheckFails(p) PROVE TypeOK'
  <2>1. ManagerTypes'
    BY <1>7 DEF RecheckFails, Reject
  <2>2. GenerationTypes'
    BY <1>7 DEF RecheckFails, Reject
  <2>3. CallTypes'
    <3>1. target[p] \in Gens
      BY <1>7 DEF RecheckFails
    <3>2. /\ todo' = [todo EXCEPT ![p] = {target[p]}]
          /\ pc' = [pc EXCEPT ![p] = "closing"]
          /\ expired' = [expired EXCEPT ![p] = FALSE]
          /\ result' = [result EXCEPT ![p] = "rejected"]
          /\ UNCHANGED <<target, force, failed>>
      BY <1>7 DEF RecheckFails, Reject
    <3>3. todo' \in [Procs -> SUBSET Gens]
      BY <3>1, <3>2
    <3>. QED
      BY <3>2, <3>3
  <2>. QED
    BY <2>1, <2>2, <2>3
<1>8. ASSUME NEW p \in Replacers, CloseOldGate(p) PROVE TypeOK'
  BY <1>8 DEF CloseOldGate, OldGateClosed
<1>9. ASSUME NEW p \in Replacers, PromoteFirst(p) PROVE TypeOK'
  <2>1. ManagerTypes'
    BY <1>9 DEF PromoteFirst, Install, Return, Leave
  <2>2. GenerationTypes'
    BY <1>9 DEF PromoteFirst, Install, Return, Leave
  <2>3. CallTypes'
    BY <1>9 DEF PromoteFirst, Install, Return, Leave
  <2>. QED
    BY <2>1, <2>2, <2>3
<1>10. ASSUME NEW p \in Replacers, Promote(p) PROVE TypeOK'
  <2>1. active # None /\ pc[p] = "promoting"
    BY <1>10 DEF Promote, Install
  <2>2. active \in Gens
    BY <2>1
  <2>3. target[p] \in Gens
    BY <2>1
  <2>4. ManagerTypes'
    <3>1. active' \in Gens /\ draining' \subseteq Gens /\ candidates' \subseteq Gens
      BY <1>10, <2>2, <2>3 DEF Promote, Install
    <3>. QED
      BY <1>10, <3>1 DEF Promote, Install
  <2>5. GenerationTypes'
    BY <1>10, <2>3 DEF Promote, Install
  <2>6. CallTypes'
    BY <1>10, <2>3 DEF Promote, Install
  <2>. QED
    BY <2>4, <2>5, <2>6
<1>11. ASSUME NEW p \in Replacers, DrainBegin(p) PROVE TypeOK'
  BY <1>11 DEF DrainBegin
<1>12. ASSUME NEW p \in Replacers, DrainShutdown(p) PROVE TypeOK'
  <2>1. ManagerTypes'
    BY <1>12 DEF DrainShutdown, ShutdownReturns, Tracked, ShutdownExpires, CloseUpgraded
  <2>2. GenerationTypes'
    <3>1. /\ hijacked' \in [Gens -> {"none", "leaving", "stored"}]
          /\ sweep' \in [Gens -> {"never", "clean", "missed"}]
      BY <1>12, SweepTypes DEF DrainShutdown
    <3>2. cut' \in [Gens -> BOOLEAN]
      BY <1>12 DEF DrainShutdown, ShutdownReturns, ShutdownExpires
    <3>. QED
      BY <1>12, <3>1, <3>2 DEF DrainShutdown
  <2>3. CallTypes'
    BY <1>12 DEF DrainShutdown, ShutdownReturns, Tracked, ShutdownExpires, CloseUpgraded
  <2>. QED
    BY <2>1, <2>2, <2>3
<1>13. ASSUME NEW p \in Replacers, DrainJoin(p) PROVE TypeOK'
  <2>1. ManagerTypes'
    BY <1>13 DEF DrainJoin, TakeServeDone, JoinGivesUp, CloseUpgraded
  <2>2. GenerationTypes'
    <3>1. /\ hijacked' \in [Gens -> {"none", "leaving", "stored"}]
          /\ sweep' \in [Gens -> {"never", "clean", "missed"}]
      BY <1>13, SweepTypes DEF DrainJoin
    <3>2. serveDone' \in [Gens -> {"empty", "nil", "error"}]
      BY <1>13 DEF DrainJoin, TakeServeDone, JoinGivesUp
    <3>. QED
      BY <1>13, <3>1, <3>2 DEF DrainJoin
  <2>3. CallTypes'
    BY <1>13 DEF DrainJoin, TakeServeDone, JoinGivesUp, CloseUpgraded
  <2>. QED
    BY <2>1, <2>2, <2>3
<1>14. ASSUME NEW p \in Replacers, ReplaceReturns(p) PROVE TypeOK'
  BY <1>14 DEF ReplaceReturns, Return, Leave
<1>15. ASSUME NEW p \in Replacers, CallerCancels(p) PROVE TypeOK'
  BY <1>15 DEF CallerCancels, Expire
<1>16. ASSUME NEW p \in Replacers, DrainTimeout(p) PROVE TypeOK'
  BY <1>16 DEF DrainTimeout, Expire
<1>17. ASSUME NEW p \in Stoppers, ShutdownBegin(p) PROVE TypeOK'
  <2>1. Owned \subseteq Gens
    BY DEF Owned
  <2>2. ManagerTypes'
    <3>1. mu' = mu /\ generation' = generation /\ stopRequest' = stopRequest
      BY <1>17 DEF ShutdownBegin
    <3>2. active' = None /\ candidates' = {} /\ draining' = {}
      BY <1>17 DEF ShutdownBegin
    <3>3. closed' \in BOOLEAN
      BY <1>17 DEF ShutdownBegin
    <3>4. admission' \in BOOLEAN
      BY <1>17 DEF ShutdownBegin
    <3>. QED
      BY <3>1, <3>2, <3>3, <3>4
  <2>3. GenerationTypes'
    BY <1>17 DEF ShutdownBegin
  <2>4. CallTypes'
    BY <1>17, <2>1 DEF ShutdownBegin
  <2>. QED
    BY <2>2, <2>3, <2>4
<1>18. ASSUME NEW p \in Stoppers, ShutdownAgain(p) PROVE TypeOK'
  BY <1>18 DEF ShutdownAgain
<1>19. ASSUME NEW p \in Stoppers, StopDeadline(p) PROVE TypeOK'
  BY <1>19 DEF StopDeadline, Expire
<1>20. ASSUME NEW p \in Procs, NEW g \in Gens, CloseSkip(p, g) PROVE TypeOK'
  BY <1>20 DEF CloseSkip, NextToClose
<1>21. ASSUME NEW p \in Procs, NEW g \in Gens, CloseBegin(p, g) PROVE TypeOK'
  BY <1>21 DEF CloseBegin, NextToClose
<1>22. ASSUME NEW p \in Procs, CloseShutdown(p) PROVE TypeOK'
  <2>1. ManagerTypes'
    BY <1>22 DEF CloseShutdown, ShutdownReturns, Tracked, ShutdownExpires, CloseUpgraded
  <2>2. GenerationTypes'
    <3>1. /\ hijacked' \in [Gens -> {"none", "leaving", "stored"}]
          /\ sweep' \in [Gens -> {"never", "clean", "missed"}]
      BY <1>22, SweepTypes DEF CloseShutdown
    <3>2. cut' \in [Gens -> BOOLEAN]
      BY <1>22 DEF CloseShutdown, ShutdownReturns, ShutdownExpires
    <3>. QED
      BY <1>22, <3>1, <3>2 DEF CloseShutdown
  <2>3. CallTypes'
    BY <1>22 DEF CloseShutdown, ShutdownReturns, Tracked, ShutdownExpires, CloseUpgraded
  <2>. QED
    BY <2>1, <2>2, <2>3
<1>23. ASSUME NEW p \in Procs, CloseJoin(p) PROVE TypeOK'
  <2>1. ManagerTypes'
    BY <1>23 DEF CloseJoin, TakeServeDone, JoinGivesUp
  <2>2. GenerationTypes'
    BY <1>23 DEF CloseJoin, TakeServeDone, JoinGivesUp
  <2>3. CallTypes'
    BY <1>23 DEF CloseJoin, TakeServeDone, JoinGivesUp
  <2>. QED
    BY <2>1, <2>2, <2>3
<1>24. ASSUME NEW p \in Procs, CloseEnd(p) PROVE TypeOK'
  BY <1>24 DEF CloseEnd, Leave
<1>25. ASSUME NEW g \in Gens, ServeFails(g) PROVE TypeOK'
  BY <1>25 DEF ServeFails
<1>26. ASSUME NEW g \in Gens, ServeStops(g) PROVE TypeOK'
  BY <1>26 DEF ServeStops
<1>27. ASSUME NEW g \in Gens, ReportFailure(g) PROVE TypeOK'
  <2>1. admission' \in BOOLEAN
    BY <1>27 DEF ReportFailure, StopProcess
  <2>2. stopRequest' \in 0..MaxGenerations
    BY <1>27 DEF ReportFailure, StopProcess
  <2>3. ManagerTypes'
    BY <1>27, <2>1, <2>2 DEF ReportFailure, LoopExits
  <2>4. GenerationTypes'
    BY <1>27 DEF ReportFailure, LoopExits
  <2>5. CallTypes'
    BY <1>27 DEF ReportFailure, LoopExits
  <2>. QED
    BY <2>3, <2>4, <2>5
<1>28. ASSUME NEW g \in Gens, SwallowFailure(g) PROVE TypeOK'
  BY <1>28 DEF SwallowFailure, LoopExits
<1>29. ASSUME NEW g \in Gens, Connect(g) PROVE TypeOK'
  BY <1>29 DEF Connect, ClientStep, Moves
<1>30. ASSUME NEW g \in Gens, EnterGate(g) PROVE TypeOK'
  BY <1>30 DEF EnterGate, ClientStep, Moves
<1>31. ASSUME NEW g \in Gens, PassGate(g) PROVE TypeOK'
  BY <1>31 DEF PassGate, ClientStep, Moves
<1>32. ASSUME NEW g \in Gens, Respond(g) PROVE TypeOK'
  BY <1>32 DEF Respond, ClientStep, Moves
<1>33. ASSUME NEW g \in Gens, Hijack(g) PROVE TypeOK'
  BY <1>33 DEF Hijack, Moves
<1>34. ASSUME NEW g \in Gens, HangUp(g) PROVE TypeOK'
  BY <1>34 DEF HangUp, Upgraded
<1>35. ASSUME NEW g \in Gens, ReadFails(g) PROVE TypeOK'
  BY <1>35 DEF ReadFails, ClientStep, Moves
<1>36. ASSUME NEW g \in Gens, StoreHijacked(g) PROVE TypeOK'
  BY <1>36 DEF StoreHijacked, Upgraded
<1>37. ASSUME NEW g \in Gens, DetachedReturns(g) PROVE TypeOK'
  BY <1>37 DEF DetachedReturns, ClientStep, Moves
<1>38. CASE UNCHANGED vars
  BY <1>38 DEF vars, managerVars, hostVars, genVars, connVars, callVars
<1>. QED
  BY <1>1, <1>2, <1>3, <1>4, <1>5, <1>6, <1>7, <1>8, <1>9, <1>10, <1>11, <1>12, <1>13, <1>14,
       <1>15, <1>16, <1>17, <1>18, <1>19, <1>20, <1>21, <1>22, <1>23, <1>24, <1>25, <1>26, <1>27,
       <1>28, <1>29, <1>30, <1>31, <1>32, <1>33, <1>34, <1>35, <1>36, <1>37, <1>38 DEF Next,
       ReplaceStep, CloseStep, LoopStep, ClientActs

\* Every step keeps track of the generation a call works on.
LEMMA TargetStep ==
  ASSUME TypeOK, TargetInv
  PROVE  [Next]_vars => TargetInv'
<1>. USE ProcsAssumption, ConfigsAssumption, BoundsAssumption
<1>. USE DEF TargetInv, TypeOK, ManagerTypes, GenerationTypes, CallTypes, managerVars, hostVars,
     genVars, connVars, callVars
<1>1. ASSUME NEW p \in Replacers, ReplaceRefused(p) PROVE TargetInv'
  BY <1>1 DEF ReplaceRefused, Return
<1>2. ASSUME NEW p \in Replacers, NEW c \in Configs, ReplaceNoop(p, c) PROVE TargetInv'
  BY <1>2 DEF ReplaceNoop, Return
<1>3. ASSUME NEW p \in Replacers, NEW c \in Configs, ReplaceUnprepared(p, c) PROVE TargetInv'
  BY <1>3 DEF ReplaceUnprepared, Return, MayPrepare
<1>4. ASSUME NEW p \in Replacers, NEW c \in Configs, ReplacePrepare(p, c) PROVE TargetInv'
  BY <1>4 DEF ReplacePrepare, MayPrepare, NextNumber
<1>5. ASSUME NEW p \in Replacers, ProbePasses(p) PROVE TargetInv'
  BY <1>5 DEF ProbePasses
<1>6. ASSUME NEW p \in Replacers, ProbeFails(p) PROVE TargetInv'
  BY <1>6 DEF ProbeFails, Reject
<1>7. ASSUME NEW p \in Replacers, RecheckFails(p) PROVE TargetInv'
  BY <1>7 DEF RecheckFails, Reject
<1>8. ASSUME NEW p \in Replacers, CloseOldGate(p) PROVE TargetInv'
  BY <1>8 DEF CloseOldGate, OldGateClosed
<1>9. ASSUME NEW p \in Replacers, PromoteFirst(p) PROVE TargetInv'
  BY <1>9 DEF PromoteFirst, Install, Return, Leave
<1>10. ASSUME NEW p \in Replacers, Promote(p) PROVE TargetInv'
  BY <1>10 DEF Promote, Install
<1>11. ASSUME NEW p \in Replacers, DrainBegin(p) PROVE TargetInv'
  BY <1>11 DEF DrainBegin
<1>12. ASSUME NEW p \in Replacers, DrainShutdown(p) PROVE TargetInv'
  BY <1>12 DEF DrainShutdown, ShutdownReturns, Tracked, ShutdownExpires, CloseUpgraded
<1>13. ASSUME NEW p \in Replacers, DrainJoin(p) PROVE TargetInv'
  BY <1>13 DEF DrainJoin, TakeServeDone, JoinGivesUp, CloseUpgraded
<1>14. ASSUME NEW p \in Replacers, ReplaceReturns(p) PROVE TargetInv'
  BY <1>14 DEF ReplaceReturns, Return, Leave
<1>15. ASSUME NEW p \in Replacers, CallerCancels(p) PROVE TargetInv'
  BY <1>15 DEF CallerCancels, Expire
<1>16. ASSUME NEW p \in Replacers, DrainTimeout(p) PROVE TargetInv'
  BY <1>16 DEF DrainTimeout, Expire
<1>17. ASSUME NEW p \in Stoppers, ShutdownBegin(p) PROVE TargetInv'
  BY <1>17 DEF ShutdownBegin, Owned
<1>18. ASSUME NEW p \in Stoppers, ShutdownAgain(p) PROVE TargetInv'
  BY <1>18 DEF ShutdownAgain
<1>19. ASSUME NEW p \in Stoppers, StopDeadline(p) PROVE TargetInv'
  BY <1>19 DEF StopDeadline, Expire
<1>20. ASSUME NEW p \in Procs, NEW g \in Gens, CloseSkip(p, g) PROVE TargetInv'
  BY <1>20 DEF CloseSkip, NextToClose
<1>21. ASSUME NEW p \in Procs, NEW g \in Gens, CloseBegin(p, g) PROVE TargetInv'
  BY <1>21 DEF CloseBegin, NextToClose
<1>22. ASSUME NEW p \in Procs, CloseShutdown(p) PROVE TargetInv'
  BY <1>22 DEF CloseShutdown, ShutdownReturns, Tracked, ShutdownExpires, CloseUpgraded
<1>23. ASSUME NEW p \in Procs, CloseJoin(p) PROVE TargetInv'
  BY <1>23 DEF CloseJoin, TakeServeDone, JoinGivesUp
<1>24. ASSUME NEW p \in Procs, CloseEnd(p) PROVE TargetInv'
  BY <1>24 DEF CloseEnd, Leave
<1>25. ASSUME NEW g \in Gens, LoopStep(g) \/ ClientActs(g) PROVE TargetInv'
  BY <1>25, Background
<1>26. CASE UNCHANGED vars
  BY <1>26 DEF vars, connVars
<1>. QED
  BY <1>1, <1>2, <1>3, <1>4, <1>5, <1>6, <1>7, <1>8, <1>9, <1>10, <1>11, <1>12, <1>13, <1>14,
       <1>15, <1>16, <1>17, <1>18, <1>19, <1>20, <1>21, <1>22, <1>23, <1>24, <1>25, <1>26
     DEF Next, ReplaceStep, CloseStep

\* Every step keeps the lock discipline: what Replace checked under m.mu stays
\* true until the promotion.
LEMMA LockStep ==
  ASSUME TypeOK, TargetInv, NumberInv, LockInv
  PROVE  [Next]_vars => LockInv'
<1>. USE ProcsAssumption, ConfigsAssumption, BoundsAssumption
<1>. USE DEF LockInv, NumberInv, HoldsLock, AtDrainingLimit, TypeOK, ManagerTypes,
     GenerationTypes, CallTypes, managerVars, hostVars, genVars, connVars, callVars
<1>1. ASSUME NEW p \in Replacers, ReplaceRefused(p) PROVE LockInv'
  BY <1>1 DEF ReplaceRefused, Return
<1>2. ASSUME NEW p \in Replacers, NEW c \in Configs, ReplaceNoop(p, c) PROVE LockInv'
  BY <1>2 DEF ReplaceNoop, Return
<1>3. ASSUME NEW p \in Replacers, NEW c \in Configs, ReplaceUnprepared(p, c) PROVE LockInv'
  BY <1>3 DEF ReplaceUnprepared, Return, MayPrepare
<1>4. ASSUME NEW p \in Replacers, NEW c \in Configs, ReplacePrepare(p, c) PROVE LockInv'
  <2>1. \A q \in Procs : pc'[q] \in HoldsLock <=> mu' = q
    BY <1>4 DEF ReplacePrepare, MayPrepare, NextNumber
  <2>2. mu' # NoProc
    BY <1>4 DEF ReplacePrepare, MayPrepare, NextNumber
  <2>3. mu' = p /\ target'[p] = generation' /\ generation' = generation + 1
    BY <1>4 DEF ReplacePrepare, MayPrepare, NextNumber
  <2>4. active' = active /\ active' < generation'
    BY <1>4 DEF ReplacePrepare, MayPrepare, NextNumber
  <2>5. candidates' = {target'[p]} /\ ~closed'
    BY <1>4 DEF ReplacePrepare, MayPrepare, NextNumber
  <2>6. ~AtDrainingLimit'
    BY <1>4 DEF ReplacePrepare, MayPrepare, NextNumber
  <2>. QED
    BY <2>1, <2>2, <2>3, <2>4, <2>5, <2>6
<1>5. ASSUME NEW p \in Replacers, ProbePasses(p) PROVE LockInv'
  BY <1>5 DEF ProbePasses
<1>6. ASSUME NEW p \in Replacers, ProbeFails(p) PROVE LockInv'
  BY <1>6 DEF ProbeFails, Reject
<1>7. ASSUME NEW p \in Replacers, RecheckFails(p) PROVE LockInv'
  BY <1>7 DEF RecheckFails, Reject
<1>8. ASSUME NEW p \in Replacers, CloseOldGate(p) PROVE LockInv'
  BY <1>8 DEF CloseOldGate, OldGateClosed
<1>9. ASSUME NEW p \in Replacers, PromoteFirst(p) PROVE LockInv'
  BY <1>9 DEF PromoteFirst, Install, Return, Leave
<1>10. ASSUME NEW p \in Replacers, Promote(p) PROVE LockInv'
  BY <1>10 DEF Promote, Install
<1>11. ASSUME NEW p \in Replacers, DrainBegin(p) PROVE LockInv'
  BY <1>11 DEF DrainBegin
<1>12. ASSUME NEW p \in Replacers, DrainShutdown(p) PROVE LockInv'
  BY <1>12 DEF DrainShutdown, ShutdownReturns, Tracked, ShutdownExpires, CloseUpgraded
<1>13. ASSUME NEW p \in Replacers, DrainJoin(p) PROVE LockInv'
  BY <1>13 DEF DrainJoin, TakeServeDone, JoinGivesUp, CloseUpgraded
<1>14. ASSUME NEW p \in Replacers, ReplaceReturns(p) PROVE LockInv'
  BY <1>14 DEF ReplaceReturns, Return, Leave
<1>15. ASSUME NEW p \in Replacers, CallerCancels(p) PROVE LockInv'
  BY <1>15 DEF CallerCancels, Expire
<1>16. ASSUME NEW p \in Replacers, DrainTimeout(p) PROVE LockInv'
  BY <1>16 DEF DrainTimeout, Expire
<1>17. ASSUME NEW p \in Stoppers, ShutdownBegin(p) PROVE LockInv'
  BY <1>17 DEF ShutdownBegin, Owned
<1>18. ASSUME NEW p \in Stoppers, ShutdownAgain(p) PROVE LockInv'
  BY <1>18 DEF ShutdownAgain
<1>19. ASSUME NEW p \in Stoppers, StopDeadline(p) PROVE LockInv'
  BY <1>19 DEF StopDeadline, Expire
<1>20. ASSUME NEW p \in Procs, NEW g \in Gens, CloseSkip(p, g) PROVE LockInv'
  BY <1>20 DEF CloseSkip, NextToClose
<1>21. ASSUME NEW p \in Procs, NEW g \in Gens, CloseBegin(p, g) PROVE LockInv'
  BY <1>21 DEF CloseBegin, NextToClose
<1>22. ASSUME NEW p \in Procs, CloseShutdown(p) PROVE LockInv'
  BY <1>22 DEF CloseShutdown, ShutdownReturns, Tracked, ShutdownExpires, CloseUpgraded
<1>23. ASSUME NEW p \in Procs, CloseJoin(p) PROVE LockInv'
  BY <1>23 DEF CloseJoin, TakeServeDone, JoinGivesUp
<1>24. ASSUME NEW p \in Procs, CloseEnd(p) PROVE LockInv'
  BY <1>24 DEF CloseEnd, Leave
<1>25. ASSUME NEW g \in Gens, LoopStep(g) \/ ClientActs(g) PROVE LockInv'
  <2>1. UNCHANGED <<mu, closed, generation, active, candidates, draining, pc, target>>
    BY <1>25, Background
  <2>. QED
    BY <2>1
<1>26. CASE UNCHANGED vars
  BY <1>26 DEF vars, connVars
<1>. QED
  BY <1>1, <1>2, <1>3, <1>4, <1>5, <1>6, <1>7, <1>8, <1>9, <1>10, <1>11, <1>12, <1>13, <1>14,
       <1>15, <1>16, <1>17, <1>18, <1>19, <1>20, <1>21, <1>22, <1>23, <1>24, <1>25, <1>26
     DEF Next, ReplaceStep, CloseStep

\* Every step keeps the draining generations below the active one.
LEMMA NumberStep ==
  ASSUME TypeOK, LockInv, NumberInv
  PROVE  [Next]_vars => NumberInv'
<1>. USE ProcsAssumption, ConfigsAssumption, BoundsAssumption
<1>. USE DEF LockInv, NumberInv, HoldsLock, TypeOK, ManagerTypes, GenerationTypes, CallTypes,
     managerVars, hostVars, genVars, connVars, callVars
<1>1. ASSUME NEW p \in Replacers, ReplaceRefused(p) PROVE NumberInv'
  BY <1>1 DEF ReplaceRefused, Return
<1>2. ASSUME NEW p \in Replacers, NEW c \in Configs, ReplaceNoop(p, c) PROVE NumberInv'
  BY <1>2 DEF ReplaceNoop, Return
<1>3. ASSUME NEW p \in Replacers, NEW c \in Configs, ReplaceUnprepared(p, c) PROVE NumberInv'
  BY <1>3 DEF ReplaceUnprepared, Return, MayPrepare
<1>4. ASSUME NEW p \in Replacers, NEW c \in Configs, ReplacePrepare(p, c) PROVE NumberInv'
  BY <1>4 DEF ReplacePrepare, MayPrepare, NextNumber
<1>5. ASSUME NEW p \in Replacers, ProbePasses(p) PROVE NumberInv'
  BY <1>5 DEF ProbePasses
<1>6. ASSUME NEW p \in Replacers, ProbeFails(p) PROVE NumberInv'
  BY <1>6 DEF ProbeFails, Reject
<1>7. ASSUME NEW p \in Replacers, RecheckFails(p) PROVE NumberInv'
  BY <1>7 DEF RecheckFails, Reject
<1>8. ASSUME NEW p \in Replacers, CloseOldGate(p) PROVE NumberInv'
  BY <1>8 DEF CloseOldGate, OldGateClosed
<1>9. ASSUME NEW p \in Replacers, PromoteFirst(p) PROVE NumberInv'
  BY <1>9 DEF PromoteFirst, Install, Return, Leave
<1>10. ASSUME NEW p \in Replacers, Promote(p) PROVE NumberInv'
  BY <1>10 DEF Promote, Install
<1>11. ASSUME NEW p \in Replacers, DrainBegin(p) PROVE NumberInv'
  BY <1>11 DEF DrainBegin
<1>12. ASSUME NEW p \in Replacers, DrainShutdown(p) PROVE NumberInv'
  BY <1>12 DEF DrainShutdown, ShutdownReturns, Tracked, ShutdownExpires, CloseUpgraded
<1>13. ASSUME NEW p \in Replacers, DrainJoin(p) PROVE NumberInv'
  BY <1>13 DEF DrainJoin, TakeServeDone, JoinGivesUp, CloseUpgraded
<1>14. ASSUME NEW p \in Replacers, ReplaceReturns(p) PROVE NumberInv'
  BY <1>14 DEF ReplaceReturns, Return, Leave
<1>15. ASSUME NEW p \in Replacers, CallerCancels(p) PROVE NumberInv'
  BY <1>15 DEF CallerCancels, Expire
<1>16. ASSUME NEW p \in Replacers, DrainTimeout(p) PROVE NumberInv'
  BY <1>16 DEF DrainTimeout, Expire
<1>17. ASSUME NEW p \in Stoppers, ShutdownBegin(p) PROVE NumberInv'
  BY <1>17 DEF ShutdownBegin, Owned
<1>18. ASSUME NEW p \in Stoppers, ShutdownAgain(p) PROVE NumberInv'
  BY <1>18 DEF ShutdownAgain
<1>19. ASSUME NEW p \in Stoppers, StopDeadline(p) PROVE NumberInv'
  BY <1>19 DEF StopDeadline, Expire
<1>20. ASSUME NEW p \in Procs, NEW g \in Gens, CloseSkip(p, g) PROVE NumberInv'
  BY <1>20 DEF CloseSkip, NextToClose
<1>21. ASSUME NEW p \in Procs, NEW g \in Gens, CloseBegin(p, g) PROVE NumberInv'
  BY <1>21 DEF CloseBegin, NextToClose
<1>22. ASSUME NEW p \in Procs, CloseShutdown(p) PROVE NumberInv'
  BY <1>22 DEF CloseShutdown, ShutdownReturns, Tracked, ShutdownExpires, CloseUpgraded
<1>23. ASSUME NEW p \in Procs, CloseJoin(p) PROVE NumberInv'
  BY <1>23 DEF CloseJoin, TakeServeDone, JoinGivesUp
<1>24. ASSUME NEW p \in Procs, CloseEnd(p) PROVE NumberInv'
  BY <1>24 DEF CloseEnd, Leave
<1>25. ASSUME NEW g \in Gens, LoopStep(g) \/ ClientActs(g) PROVE NumberInv'
  <2>1. UNCHANGED <<closed, generation, active, draining>>
    BY <1>25, Background DEF LoopStep, ClientActs
  <2>. QED
    BY <2>1
<1>26. CASE UNCHANGED vars
  BY <1>26 DEF vars, connVars
<1>. QED
  BY <1>1, <1>2, <1>3, <1>4, <1>5, <1>6, <1>7, <1>8, <1>9, <1>10, <1>11, <1>12, <1>13, <1>14,
       <1>15, <1>16, <1>17, <1>18, <1>19, <1>20, <1>21, <1>22, <1>23, <1>24, <1>25, <1>26
     DEF Next, ReplaceStep, CloseStep

\* Only promoted gates open, and none is open between the two writes of Replace.
LEMMA GateStep ==
  ASSUME TypeOK, LockInv, NumberInv, GateInv, OnlyActiveAdmits
  PROVE  [Next]_vars => GateInv'
<1>. USE ProcsAssumption, ConfigsAssumption, BoundsAssumption
<1>. USE DEF LockInv, GateInv, HoldsLock, TypeOK, ManagerTypes, GenerationTypes, CallTypes,
     managerVars, hostVars, genVars, connVars, callVars
<1>1. ASSUME NEW p \in Replacers, ReplaceRefused(p) PROVE GateInv'
  BY <1>1 DEF ReplaceRefused, Return
<1>2. ASSUME NEW p \in Replacers, NEW c \in Configs, ReplaceNoop(p, c) PROVE GateInv'
  BY <1>2 DEF ReplaceNoop, Return
<1>3. ASSUME NEW p \in Replacers, NEW c \in Configs, ReplaceUnprepared(p, c) PROVE GateInv'
  BY <1>3 DEF ReplaceUnprepared, Return, MayPrepare
<1>4. ASSUME NEW p \in Replacers, NEW c \in Configs, ReplacePrepare(p, c) PROVE GateInv'
  BY <1>4 DEF ReplacePrepare, MayPrepare, NextNumber
<1>5. ASSUME NEW p \in Replacers, ProbePasses(p) PROVE GateInv'
  BY <1>5 DEF ProbePasses
<1>6. ASSUME NEW p \in Replacers, ProbeFails(p) PROVE GateInv'
  BY <1>6 DEF ProbeFails, Reject
<1>7. ASSUME NEW p \in Replacers, RecheckFails(p) PROVE GateInv'
  BY <1>7 DEF RecheckFails, Reject
<1>8. ASSUME NEW p \in Replacers, CloseOldGate(p) PROVE GateInv'
  <2>1. ~closed /\ mu = p
    BY <1>8 DEF CloseOldGate, OldGateClosed
  <2>2. \A g \in Gens : ~admitted'[g]
    BY <1>8, <2>1 DEF CloseOldGate, OldGateClosed, OnlyActiveAdmits
  <2>3. \A g \in Gens : admitted'[g] => promoted'[g]
    BY <2>2
  <2>. QED
    BY <2>2, <2>3
<1>9. ASSUME NEW p \in Replacers, PromoteFirst(p) PROVE GateInv'
  BY <1>9 DEF PromoteFirst, Install, Return, Leave
<1>10. ASSUME NEW p \in Replacers, Promote(p) PROVE GateInv'
  BY <1>10 DEF Promote, Install
<1>11. ASSUME NEW p \in Replacers, DrainBegin(p) PROVE GateInv'
  BY <1>11 DEF DrainBegin
<1>12. ASSUME NEW p \in Replacers, DrainShutdown(p) PROVE GateInv'
  BY <1>12 DEF DrainShutdown, ShutdownReturns, Tracked, ShutdownExpires, CloseUpgraded
<1>13. ASSUME NEW p \in Replacers, DrainJoin(p) PROVE GateInv'
  BY <1>13 DEF DrainJoin, TakeServeDone, JoinGivesUp, CloseUpgraded
<1>14. ASSUME NEW p \in Replacers, ReplaceReturns(p) PROVE GateInv'
  BY <1>14 DEF ReplaceReturns, Return, Leave
<1>15. ASSUME NEW p \in Replacers, CallerCancels(p) PROVE GateInv'
  BY <1>15 DEF CallerCancels, Expire
<1>16. ASSUME NEW p \in Replacers, DrainTimeout(p) PROVE GateInv'
  BY <1>16 DEF DrainTimeout, Expire
<1>17. ASSUME NEW p \in Stoppers, ShutdownBegin(p) PROVE GateInv'
  BY <1>17 DEF ShutdownBegin, Owned
<1>18. ASSUME NEW p \in Stoppers, ShutdownAgain(p) PROVE GateInv'
  BY <1>18 DEF ShutdownAgain
<1>19. ASSUME NEW p \in Stoppers, StopDeadline(p) PROVE GateInv'
  BY <1>19 DEF StopDeadline, Expire
<1>20. ASSUME NEW p \in Procs, NEW g \in Gens, CloseSkip(p, g) PROVE GateInv'
  BY <1>20 DEF CloseSkip, NextToClose
<1>21. ASSUME NEW p \in Procs, NEW g \in Gens, CloseBegin(p, g) PROVE GateInv'
  BY <1>21 DEF CloseBegin, NextToClose
<1>22. ASSUME NEW p \in Procs, CloseShutdown(p) PROVE GateInv'
  BY <1>22 DEF CloseShutdown, ShutdownReturns, Tracked, ShutdownExpires, CloseUpgraded
<1>23. ASSUME NEW p \in Procs, CloseJoin(p) PROVE GateInv'
  BY <1>23 DEF CloseJoin, TakeServeDone, JoinGivesUp
<1>24. ASSUME NEW p \in Procs, CloseEnd(p) PROVE GateInv'
  BY <1>24 DEF CloseEnd, Leave
<1>25. ASSUME NEW g \in Gens, LoopStep(g) \/ ClientActs(g) PROVE GateInv'
  BY <1>25, Background
<1>26. CASE UNCHANGED vars
  BY <1>26 DEF vars, connVars
<1>. QED
  BY <1>1, <1>2, <1>3, <1>4, <1>5, <1>6, <1>7, <1>8, <1>9, <1>10, <1>11, <1>12, <1>13, <1>14,
       <1>15, <1>16, <1>17, <1>18, <1>19, <1>20, <1>21, <1>22, <1>23, <1>24, <1>25, <1>26
     DEF Next, ReplaceStep, CloseStep

\* A gate opens only for the new active generation, after the old one closed.
LEMMA AdmitStep ==
  ASSUME TypeOK, LockInv, NumberInv, GateInv, OnlyActiveAdmits
  PROVE  [Next]_vars => OnlyActiveAdmits'
<1>. USE ProcsAssumption, ConfigsAssumption, BoundsAssumption
<1>. USE DEF LockInv, NumberInv, GateInv, OnlyActiveAdmits, HoldsLock, TypeOK, ManagerTypes,
     GenerationTypes, CallTypes, managerVars, hostVars, genVars, connVars, callVars
<1>1. ASSUME NEW p \in Replacers, ReplaceRefused(p) PROVE OnlyActiveAdmits'
  BY <1>1 DEF ReplaceRefused, Return
<1>2. ASSUME NEW p \in Replacers, NEW c \in Configs, ReplaceNoop(p, c) PROVE OnlyActiveAdmits'
  BY <1>2 DEF ReplaceNoop, Return
<1>3. ASSUME NEW p \in Replacers, NEW c \in Configs, ReplaceUnprepared(p, c) PROVE OnlyActiveAdmits'
  BY <1>3 DEF ReplaceUnprepared, Return, MayPrepare
<1>4. ASSUME NEW p \in Replacers, NEW c \in Configs, ReplacePrepare(p, c) PROVE OnlyActiveAdmits'
  BY <1>4 DEF ReplacePrepare, MayPrepare, NextNumber
<1>5. ASSUME NEW p \in Replacers, ProbePasses(p) PROVE OnlyActiveAdmits'
  BY <1>5 DEF ProbePasses
<1>6. ASSUME NEW p \in Replacers, ProbeFails(p) PROVE OnlyActiveAdmits'
  BY <1>6 DEF ProbeFails, Reject
<1>7. ASSUME NEW p \in Replacers, RecheckFails(p) PROVE OnlyActiveAdmits'
  BY <1>7 DEF RecheckFails, Reject
<1>8. ASSUME NEW p \in Replacers, CloseOldGate(p) PROVE OnlyActiveAdmits'
  BY <1>8 DEF CloseOldGate, OldGateClosed
<1>9. ASSUME NEW p \in Replacers, PromoteFirst(p) PROVE OnlyActiveAdmits'
  BY <1>9 DEF PromoteFirst, Install, Return, Leave
<1>10. ASSUME NEW p \in Replacers, Promote(p) PROVE OnlyActiveAdmits'
  BY <1>10 DEF Promote, Install
<1>11. ASSUME NEW p \in Replacers, DrainBegin(p) PROVE OnlyActiveAdmits'
  BY <1>11 DEF DrainBegin
<1>12. ASSUME NEW p \in Replacers, DrainShutdown(p) PROVE OnlyActiveAdmits'
  BY <1>12 DEF DrainShutdown, ShutdownReturns, Tracked, ShutdownExpires, CloseUpgraded
<1>13. ASSUME NEW p \in Replacers, DrainJoin(p) PROVE OnlyActiveAdmits'
  BY <1>13 DEF DrainJoin, TakeServeDone, JoinGivesUp, CloseUpgraded
<1>14. ASSUME NEW p \in Replacers, ReplaceReturns(p) PROVE OnlyActiveAdmits'
  BY <1>14 DEF ReplaceReturns, Return, Leave
<1>15. ASSUME NEW p \in Replacers, CallerCancels(p) PROVE OnlyActiveAdmits'
  BY <1>15 DEF CallerCancels, Expire
<1>16. ASSUME NEW p \in Replacers, DrainTimeout(p) PROVE OnlyActiveAdmits'
  BY <1>16 DEF DrainTimeout, Expire
<1>17. ASSUME NEW p \in Stoppers, ShutdownBegin(p) PROVE OnlyActiveAdmits'
  BY <1>17 DEF ShutdownBegin, Owned
<1>18. ASSUME NEW p \in Stoppers, ShutdownAgain(p) PROVE OnlyActiveAdmits'
  BY <1>18 DEF ShutdownAgain
<1>19. ASSUME NEW p \in Stoppers, StopDeadline(p) PROVE OnlyActiveAdmits'
  BY <1>19 DEF StopDeadline, Expire
<1>20. ASSUME NEW p \in Procs, NEW g \in Gens, CloseSkip(p, g) PROVE OnlyActiveAdmits'
  BY <1>20 DEF CloseSkip, NextToClose
<1>21. ASSUME NEW p \in Procs, NEW g \in Gens, CloseBegin(p, g) PROVE OnlyActiveAdmits'
  BY <1>21 DEF CloseBegin, NextToClose
<1>22. ASSUME NEW p \in Procs, CloseShutdown(p) PROVE OnlyActiveAdmits'
  BY <1>22 DEF CloseShutdown, ShutdownReturns, Tracked, ShutdownExpires, CloseUpgraded
<1>23. ASSUME NEW p \in Procs, CloseJoin(p) PROVE OnlyActiveAdmits'
  BY <1>23 DEF CloseJoin, TakeServeDone, JoinGivesUp
<1>24. ASSUME NEW p \in Procs, CloseEnd(p) PROVE OnlyActiveAdmits'
  BY <1>24 DEF CloseEnd, Leave
<1>25. ASSUME NEW g \in Gens, LoopStep(g) \/ ClientActs(g) PROVE OnlyActiveAdmits'
  BY <1>25, Background
<1>26. CASE UNCHANGED vars
  BY <1>26 DEF vars, connVars
<1>. QED
  BY <1>1, <1>2, <1>3, <1>4, <1>5, <1>6, <1>7, <1>8, <1>9, <1>10, <1>11, <1>12, <1>13, <1>14,
       <1>15, <1>16, <1>17, <1>18, <1>19, <1>20, <1>21, <1>22, <1>23, <1>24, <1>25, <1>26
     DEF Next, ReplaceStep, CloseStep

\* A replaced generation enters the draining set with the promotion that replaces
\* it, and its own Replace call alone takes it out, after the drain.
LEMMA TrackStep ==
  ASSUME TypeOK, LockInv, TargetInv, ReplacedIsTracked
  PROVE  [Next]_vars => ReplacedIsTracked'
<1>. USE ProcsAssumption, ConfigsAssumption, BoundsAssumption
<1>. USE DEF LockInv, TargetInv, ReplacedIsTracked, HoldsLock, TypeOK, ManagerTypes,
     GenerationTypes, CallTypes, managerVars, hostVars, genVars, connVars, callVars
<1>1. ASSUME NEW p \in Replacers, ReplaceRefused(p) PROVE ReplacedIsTracked'
  BY <1>1 DEF ReplaceRefused, Return
<1>2. ASSUME NEW p \in Replacers, NEW c \in Configs, ReplaceNoop(p, c) PROVE ReplacedIsTracked'
  BY <1>2 DEF ReplaceNoop, Return
<1>3. ASSUME NEW p \in Replacers, NEW c \in Configs, ReplaceUnprepared(p, c)
      PROVE  ReplacedIsTracked'
  BY <1>3 DEF ReplaceUnprepared, Return, MayPrepare
<1>4. ASSUME NEW p \in Replacers, NEW c \in Configs, ReplacePrepare(p, c) PROVE ReplacedIsTracked'
  BY <1>4 DEF ReplacePrepare, MayPrepare, NextNumber
<1>5. ASSUME NEW p \in Replacers, ProbePasses(p) PROVE ReplacedIsTracked'
  BY <1>5 DEF ProbePasses
<1>6. ASSUME NEW p \in Replacers, ProbeFails(p) PROVE ReplacedIsTracked'
  BY <1>6 DEF ProbeFails, Reject
<1>7. ASSUME NEW p \in Replacers, RecheckFails(p) PROVE ReplacedIsTracked'
  BY <1>7 DEF RecheckFails, Reject
<1>8. ASSUME NEW p \in Replacers, CloseOldGate(p) PROVE ReplacedIsTracked'
  BY <1>8 DEF CloseOldGate, OldGateClosed
<1>9. ASSUME NEW p \in Replacers, PromoteFirst(p) PROVE ReplacedIsTracked'
  BY <1>9 DEF PromoteFirst, Install, Return, Leave
<1>10. ASSUME NEW p \in Replacers, Promote(p) PROVE ReplacedIsTracked'
  BY <1>10 DEF Promote, Install
<1>11. ASSUME NEW p \in Replacers, DrainBegin(p) PROVE ReplacedIsTracked'
  BY <1>11 DEF DrainBegin
<1>12. ASSUME NEW p \in Replacers, DrainShutdown(p) PROVE ReplacedIsTracked'
  BY <1>12 DEF DrainShutdown, ShutdownReturns, Tracked, ShutdownExpires, CloseUpgraded
<1>13. ASSUME NEW p \in Replacers, DrainJoin(p) PROVE ReplacedIsTracked'
  BY <1>13 DEF DrainJoin, TakeServeDone, JoinGivesUp, CloseUpgraded
<1>14. ASSUME NEW p \in Replacers, ReplaceReturns(p) PROVE ReplacedIsTracked'
  BY <1>14 DEF ReplaceReturns, Return, Leave
<1>15. ASSUME NEW p \in Replacers, CallerCancels(p) PROVE ReplacedIsTracked'
  BY <1>15 DEF CallerCancels, Expire
<1>16. ASSUME NEW p \in Replacers, DrainTimeout(p) PROVE ReplacedIsTracked'
  BY <1>16 DEF DrainTimeout, Expire
<1>17. ASSUME NEW p \in Stoppers, ShutdownBegin(p) PROVE ReplacedIsTracked'
  BY <1>17 DEF ShutdownBegin, Owned
<1>18. ASSUME NEW p \in Stoppers, ShutdownAgain(p) PROVE ReplacedIsTracked'
  BY <1>18 DEF ShutdownAgain
<1>19. ASSUME NEW p \in Stoppers, StopDeadline(p) PROVE ReplacedIsTracked'
  BY <1>19 DEF StopDeadline, Expire
<1>20. ASSUME NEW p \in Procs, NEW g \in Gens, CloseSkip(p, g) PROVE ReplacedIsTracked'
  BY <1>20 DEF CloseSkip, NextToClose
<1>21. ASSUME NEW p \in Procs, NEW g \in Gens, CloseBegin(p, g) PROVE ReplacedIsTracked'
  BY <1>21 DEF CloseBegin, NextToClose
<1>22. ASSUME NEW p \in Procs, CloseShutdown(p) PROVE ReplacedIsTracked'
  BY <1>22 DEF CloseShutdown, ShutdownReturns, Tracked, ShutdownExpires, CloseUpgraded
<1>23. ASSUME NEW p \in Procs, CloseJoin(p) PROVE ReplacedIsTracked'
  BY <1>23 DEF CloseJoin, TakeServeDone, JoinGivesUp
<1>24. ASSUME NEW p \in Procs, CloseEnd(p) PROVE ReplacedIsTracked'
  BY <1>24 DEF CloseEnd, Leave
<1>25. ASSUME NEW g \in Gens, LoopStep(g) \/ ClientActs(g) PROVE ReplacedIsTracked'
  BY <1>25, Background
<1>26. CASE UNCHANGED vars
  BY <1>26 DEF vars, connVars
<1>. QED
  BY <1>1, <1>2, <1>3, <1>4, <1>5, <1>6, <1>7, <1>8, <1>9, <1>10, <1>11, <1>12, <1>13, <1>14,
       <1>15, <1>16, <1>17, <1>18, <1>19, <1>20, <1>21, <1>22, <1>23, <1>24, <1>25, <1>26
     DEF Next, ReplaceStep, CloseStep

\* The draining set is finite, so that its cardinality is a number.
LEMMA FiniteDraining ==
  ASSUME TypeOK
  PROVE  IsFiniteSet(draining) /\ Cardinality(draining) \in Nat
<1>1. IsFiniteSet(Gens)
  BY BoundsAssumption, FS_Interval
<1>2. draining \subseteq Gens
  BY DEF TypeOK, ManagerTypes
<1>. QED
  BY <1>1, <1>2, FS_Subset, FS_CardinalityType

\* One insertion or one removal moves the cardinality by at most one.
LEMMA OneElement ==
  ASSUME NEW S, IsFiniteSet(S), NEW x
  PROVE  /\ Cardinality(S \cup {x}) \in Nat /\ Cardinality(S \cup {x}) <= Cardinality(S) + 1
         /\ Cardinality(S \ {x}) \in Nat /\ Cardinality(S \ {x}) <= Cardinality(S)
<1>1. Cardinality(S) \in Nat
  BY FS_CardinalityType
<1>2. Cardinality(S \cup {x}) = IF x \in S THEN Cardinality(S) ELSE Cardinality(S) + 1
  BY FS_AddElement
<1>3. IsFiniteSet(S \ {x}) /\ Cardinality(S \ {x}) = IF x \in S THEN Cardinality(S) - 1 ELSE Cardinality(S)
  BY FS_RemoveElement
<1>4. Cardinality(S \ {x}) \in Nat
  BY <1>3, FS_CardinalityType
<1>. QED
  BY <1>1, <1>2, <1>3, <1>4

\* The limit checked under the lock still holds when the old generation is inserted.
LEMMA BoundStep ==
  ASSUME TypeOK, LockInv, DrainingBounded
  PROVE  [Next]_vars => DrainingBounded'
<1>. USE ProcsAssumption, ConfigsAssumption, BoundsAssumption
<1>. USE DEF LockInv, DrainingBounded, HoldsLock, AtDrainingLimit, TypeOK, ManagerTypes,
     GenerationTypes, CallTypes, managerVars, hostVars, genVars, connVars, callVars
<1>1. ASSUME NEW p \in Replacers, ReplaceRefused(p) PROVE DrainingBounded'
  BY <1>1 DEF ReplaceRefused, Return
<1>2. ASSUME NEW p \in Replacers, NEW c \in Configs, ReplaceNoop(p, c) PROVE DrainingBounded'
  BY <1>2 DEF ReplaceNoop, Return
<1>3. ASSUME NEW p \in Replacers, NEW c \in Configs, ReplaceUnprepared(p, c) PROVE DrainingBounded'
  BY <1>3 DEF ReplaceUnprepared, Return, MayPrepare
<1>4. ASSUME NEW p \in Replacers, NEW c \in Configs, ReplacePrepare(p, c) PROVE DrainingBounded'
  BY <1>4 DEF ReplacePrepare, MayPrepare, NextNumber
<1>5. ASSUME NEW p \in Replacers, ProbePasses(p) PROVE DrainingBounded'
  BY <1>5 DEF ProbePasses
<1>6. ASSUME NEW p \in Replacers, ProbeFails(p) PROVE DrainingBounded'
  BY <1>6 DEF ProbeFails, Reject
<1>7. ASSUME NEW p \in Replacers, RecheckFails(p) PROVE DrainingBounded'
  BY <1>7 DEF RecheckFails, Reject
<1>8. ASSUME NEW p \in Replacers, CloseOldGate(p) PROVE DrainingBounded'
  BY <1>8 DEF CloseOldGate, OldGateClosed
<1>9. ASSUME NEW p \in Replacers, PromoteFirst(p) PROVE DrainingBounded'
  BY <1>9 DEF PromoteFirst, Install, Return, Leave
<1>10. ASSUME NEW p \in Replacers, Promote(p) PROVE DrainingBounded'
  <2>1. mu = p /\ active # None /\ draining' = draining \cup {active}
    BY <1>10 DEF Promote, Install
  <2>2. IsFiniteSet(draining) /\ Cardinality(draining) \in Nat
    BY FiniteDraining
  <2>3. Cardinality(draining) < MaxDraining
    BY <2>1, <2>2
  <2>4. Cardinality(draining') \in Nat /\ Cardinality(draining') <= Cardinality(draining) + 1
    BY <2>1, <2>2, OneElement, Zenon
  <2>. QED
    BY <2>2, <2>3, <2>4
<1>11. ASSUME NEW p \in Replacers, DrainBegin(p) PROVE DrainingBounded'
  BY <1>11 DEF DrainBegin
<1>12. ASSUME NEW p \in Replacers, DrainShutdown(p) PROVE DrainingBounded'
  BY <1>12 DEF DrainShutdown, ShutdownReturns, Tracked, ShutdownExpires, CloseUpgraded
<1>13. ASSUME NEW p \in Replacers, DrainJoin(p) PROVE DrainingBounded'
  BY <1>13 DEF DrainJoin, TakeServeDone, JoinGivesUp, CloseUpgraded
<1>14. ASSUME NEW p \in Replacers, ReplaceReturns(p) PROVE DrainingBounded'
  <2>1. draining' = draining \ {target[p]}
    BY <1>14 DEF ReplaceReturns, Leave
  <2>2. IsFiniteSet(draining) /\ Cardinality(draining) \in Nat
    BY FiniteDraining
  <2>3. Cardinality(draining') \in Nat /\ Cardinality(draining') <= Cardinality(draining)
    BY <2>1, <2>2, OneElement, Zenon
  <2>. QED
    BY <2>2, <2>3
<1>15. ASSUME NEW p \in Replacers, CallerCancels(p) PROVE DrainingBounded'
  BY <1>15 DEF CallerCancels, Expire
<1>16. ASSUME NEW p \in Replacers, DrainTimeout(p) PROVE DrainingBounded'
  BY <1>16 DEF DrainTimeout, Expire
<1>17. ASSUME NEW p \in Stoppers, ShutdownBegin(p) PROVE DrainingBounded'
  <2>1. draining' = {}
    BY <1>17 DEF ShutdownBegin
  <2>. QED
    BY <2>1, FS_EmptySet
<1>18. ASSUME NEW p \in Stoppers, ShutdownAgain(p) PROVE DrainingBounded'
  BY <1>18 DEF ShutdownAgain
<1>19. ASSUME NEW p \in Stoppers, StopDeadline(p) PROVE DrainingBounded'
  BY <1>19 DEF StopDeadline, Expire
<1>20. ASSUME NEW p \in Procs, NEW g \in Gens, CloseSkip(p, g) PROVE DrainingBounded'
  BY <1>20 DEF CloseSkip, NextToClose
<1>21. ASSUME NEW p \in Procs, NEW g \in Gens, CloseBegin(p, g) PROVE DrainingBounded'
  BY <1>21 DEF CloseBegin, NextToClose
<1>22. ASSUME NEW p \in Procs, CloseShutdown(p) PROVE DrainingBounded'
  BY <1>22 DEF CloseShutdown, ShutdownReturns, Tracked, ShutdownExpires, CloseUpgraded
<1>23. ASSUME NEW p \in Procs, CloseJoin(p) PROVE DrainingBounded'
  BY <1>23 DEF CloseJoin, TakeServeDone, JoinGivesUp
<1>24. ASSUME NEW p \in Procs, CloseEnd(p) PROVE DrainingBounded'
  BY <1>24 DEF CloseEnd, Leave
<1>25. ASSUME NEW g \in Gens, LoopStep(g) \/ ClientActs(g) PROVE DrainingBounded'
  BY <1>25, Background
<1>26. CASE UNCHANGED vars
  BY <1>26 DEF vars, connVars
<1>. QED
  BY <1>1, <1>2, <1>3, <1>4, <1>5, <1>6, <1>7, <1>8, <1>9, <1>10, <1>11, <1>12, <1>13, <1>14,
       <1>15, <1>16, <1>17, <1>18, <1>19, <1>20, <1>21, <1>22, <1>23, <1>24, <1>25, <1>26
     DEF Next, ReplaceStep, CloseStep

\* A handler starts behind an open gate, which a promoted generation has.
LEMMA WorkStep ==
  ASSUME TypeOK, TargetInv, GateInv, WorkOnlyOnPromoted
  PROVE  [Next]_vars => WorkOnlyOnPromoted'
<1>. USE ProcsAssumption, ConfigsAssumption, BoundsAssumption
<1>. USE DEF TargetInv, GateInv, WorkOnlyOnPromoted, TypeOK, ManagerTypes, GenerationTypes,
     CallTypes, managerVars, hostVars, genVars, connVars, callVars
<1>1. ASSUME NEW p \in Replacers, ReplaceRefused(p) PROVE WorkOnlyOnPromoted'
  BY <1>1 DEF ReplaceRefused, Return
<1>2. ASSUME NEW p \in Replacers, NEW c \in Configs, ReplaceNoop(p, c) PROVE WorkOnlyOnPromoted'
  BY <1>2 DEF ReplaceNoop, Return
<1>3. ASSUME NEW p \in Replacers, NEW c \in Configs, ReplaceUnprepared(p, c)
      PROVE  WorkOnlyOnPromoted'
  BY <1>3 DEF ReplaceUnprepared, Return, MayPrepare
<1>4. ASSUME NEW p \in Replacers, NEW c \in Configs, ReplacePrepare(p, c) PROVE WorkOnlyOnPromoted'
  BY <1>4 DEF ReplacePrepare, MayPrepare, NextNumber
<1>5. ASSUME NEW p \in Replacers, ProbePasses(p) PROVE WorkOnlyOnPromoted'
  BY <1>5 DEF ProbePasses
<1>6. ASSUME NEW p \in Replacers, ProbeFails(p) PROVE WorkOnlyOnPromoted'
  BY <1>6 DEF ProbeFails, Reject
<1>7. ASSUME NEW p \in Replacers, RecheckFails(p) PROVE WorkOnlyOnPromoted'
  BY <1>7 DEF RecheckFails, Reject
<1>8. ASSUME NEW p \in Replacers, CloseOldGate(p) PROVE WorkOnlyOnPromoted'
  BY <1>8 DEF CloseOldGate, OldGateClosed
<1>9. ASSUME NEW p \in Replacers, PromoteFirst(p) PROVE WorkOnlyOnPromoted'
  BY <1>9 DEF PromoteFirst, Install, Return, Leave
<1>10. ASSUME NEW p \in Replacers, Promote(p) PROVE WorkOnlyOnPromoted'
  BY <1>10 DEF Promote, Install
<1>11. ASSUME NEW p \in Replacers, DrainBegin(p) PROVE WorkOnlyOnPromoted'
  BY <1>11 DEF DrainBegin
<1>12. ASSUME NEW p \in Replacers, DrainShutdown(p) PROVE WorkOnlyOnPromoted'
  BY <1>12 DEF DrainShutdown, ShutdownReturns, Tracked, ShutdownExpires, CloseUpgraded
<1>13. ASSUME NEW p \in Replacers, DrainJoin(p) PROVE WorkOnlyOnPromoted'
  BY <1>13 DEF DrainJoin, TakeServeDone, JoinGivesUp, CloseUpgraded
<1>14. ASSUME NEW p \in Replacers, ReplaceReturns(p) PROVE WorkOnlyOnPromoted'
  BY <1>14 DEF ReplaceReturns, Return, Leave
<1>15. ASSUME NEW p \in Replacers, CallerCancels(p) PROVE WorkOnlyOnPromoted'
  BY <1>15 DEF CallerCancels, Expire
<1>16. ASSUME NEW p \in Replacers, DrainTimeout(p) PROVE WorkOnlyOnPromoted'
  BY <1>16 DEF DrainTimeout, Expire
<1>17. ASSUME NEW p \in Stoppers, ShutdownBegin(p) PROVE WorkOnlyOnPromoted'
  BY <1>17 DEF ShutdownBegin, Owned
<1>18. ASSUME NEW p \in Stoppers, ShutdownAgain(p) PROVE WorkOnlyOnPromoted'
  BY <1>18 DEF ShutdownAgain
<1>19. ASSUME NEW p \in Stoppers, StopDeadline(p) PROVE WorkOnlyOnPromoted'
  BY <1>19 DEF StopDeadline, Expire
<1>20. ASSUME NEW p \in Procs, NEW g \in Gens, CloseSkip(p, g) PROVE WorkOnlyOnPromoted'
  BY <1>20 DEF CloseSkip, NextToClose
<1>21. ASSUME NEW p \in Procs, NEW g \in Gens, CloseBegin(p, g) PROVE WorkOnlyOnPromoted'
  BY <1>21 DEF CloseBegin, NextToClose
<1>22. ASSUME NEW p \in Procs, CloseShutdown(p) PROVE WorkOnlyOnPromoted'
  BY <1>22 DEF CloseShutdown, ShutdownReturns, Tracked, ShutdownExpires, CloseUpgraded
<1>23. ASSUME NEW p \in Procs, CloseJoin(p) PROVE WorkOnlyOnPromoted'
  BY <1>23 DEF CloseJoin, TakeServeDone, JoinGivesUp
<1>24. ASSUME NEW p \in Procs, CloseEnd(p) PROVE WorkOnlyOnPromoted'
  BY <1>24 DEF CloseEnd, Leave
<1>25. ASSUME NEW g \in Gens, LoopStep(g) \/ ClientActs(g) PROVE WorkOnlyOnPromoted'
  <2>1. UNCHANGED promoted
    BY <1>25, Background
  <2>2. CASE LoopStep(g)
    BY <2>1, <2>2 DEF LoopStep, ServeFails, ServeStops, ReportFailure, SwallowFailure, LoopExits
  <2>3. CASE EnterGate(g)
    BY <2>1, <2>3 DEF EnterGate, ClientStep, Moves
  <2>4. CASE \/ Connect(g) \/ PassGate(g) \/ Respond(g) \/ Hijack(g) \/ HangUp(g)
             \/ ReadFails(g) \/ StoreHijacked(g) \/ DetachedReturns(g)
    BY <2>1, <2>4 DEF Connect, PassGate, Respond, Hijack, HangUp, ReadFails,
     StoreHijacked, DetachedReturns, Upgraded, ClientStep, Moves
  <2>. QED
    BY <1>25, <2>2, <2>3, <2>4 DEF ClientActs
<1>26. CASE UNCHANGED vars
  BY <1>26 DEF vars, connVars
<1>. QED
  BY <1>1, <1>2, <1>3, <1>4, <1>5, <1>6, <1>7, <1>8, <1>9, <1>10, <1>11, <1>12, <1>13, <1>14,
       <1>15, <1>16, <1>17, <1>18, <1>19, <1>20, <1>21, <1>22, <1>23, <1>24, <1>25, <1>26
     DEF Next, ReplaceStep, CloseStep

\* The active generation changes to none or to a candidate with a higher number.
LEMMA AdvanceStep ==
  ASSUME TypeOK, LockInv, NumberInv
  PROVE  [Next]_vars => (active' # active => active' = None \/ active' > active)
<1>. USE ProcsAssumption, ConfigsAssumption, BoundsAssumption
<1>. USE DEF HoldsLock, LockInv, NumberInv, TypeOK, ManagerTypes, GenerationTypes, CallTypes,
     managerVars, hostVars, genVars, connVars, callVars
<1>1. ASSUME NEW p \in Replacers, ReplaceRefused(p)
      PROVE  (active' # active => active' = None \/ active' > active)
  BY <1>1 DEF ReplaceRefused, Return
<1>2. ASSUME NEW p \in Replacers, NEW c \in Configs, ReplaceNoop(p, c)
      PROVE  (active' # active => active' = None \/ active' > active)
  BY <1>2 DEF ReplaceNoop, Return
<1>3. ASSUME NEW p \in Replacers, NEW c \in Configs, ReplaceUnprepared(p, c)
      PROVE  (active' # active => active' = None \/ active' > active)
  BY <1>3 DEF ReplaceUnprepared, Return, MayPrepare
<1>4. ASSUME NEW p \in Replacers, NEW c \in Configs, ReplacePrepare(p, c)
      PROVE  (active' # active => active' = None \/ active' > active)
  BY <1>4 DEF ReplacePrepare, MayPrepare, NextNumber
<1>5. ASSUME NEW p \in Replacers, ProbePasses(p)
      PROVE  (active' # active => active' = None \/ active' > active)
  BY <1>5 DEF ProbePasses
<1>6. ASSUME NEW p \in Replacers, ProbeFails(p)
      PROVE  (active' # active => active' = None \/ active' > active)
  BY <1>6 DEF ProbeFails, Reject
<1>7. ASSUME NEW p \in Replacers, RecheckFails(p)
      PROVE  (active' # active => active' = None \/ active' > active)
  BY <1>7 DEF RecheckFails, Reject
<1>8. ASSUME NEW p \in Replacers, CloseOldGate(p)
      PROVE  (active' # active => active' = None \/ active' > active)
  BY <1>8 DEF CloseOldGate, OldGateClosed
<1>9. ASSUME NEW p \in Replacers, PromoteFirst(p)
      PROVE  (active' # active => active' = None \/ active' > active)
  BY <1>9 DEF PromoteFirst, Install, Return, Leave
<1>10. ASSUME NEW p \in Replacers, Promote(p)
       PROVE  (active' # active => active' = None \/ active' > active)
  BY <1>10 DEF Promote, Install
<1>11. ASSUME NEW p \in Replacers, DrainBegin(p)
       PROVE  (active' # active => active' = None \/ active' > active)
  BY <1>11 DEF DrainBegin
<1>12. ASSUME NEW p \in Replacers, DrainShutdown(p)
       PROVE  (active' # active => active' = None \/ active' > active)
  BY <1>12 DEF DrainShutdown, ShutdownReturns, Tracked, ShutdownExpires, CloseUpgraded
<1>13. ASSUME NEW p \in Replacers, DrainJoin(p)
       PROVE  (active' # active => active' = None \/ active' > active)
  BY <1>13 DEF DrainJoin, TakeServeDone, JoinGivesUp, CloseUpgraded
<1>14. ASSUME NEW p \in Replacers, ReplaceReturns(p)
       PROVE  (active' # active => active' = None \/ active' > active)
  BY <1>14 DEF ReplaceReturns, Return, Leave
<1>15. ASSUME NEW p \in Replacers, CallerCancels(p)
       PROVE  (active' # active => active' = None \/ active' > active)
  BY <1>15 DEF CallerCancels, Expire
<1>16. ASSUME NEW p \in Replacers, DrainTimeout(p)
       PROVE  (active' # active => active' = None \/ active' > active)
  BY <1>16 DEF DrainTimeout, Expire
<1>17. ASSUME NEW p \in Stoppers, ShutdownBegin(p)
       PROVE  (active' # active => active' = None \/ active' > active)
  BY <1>17 DEF ShutdownBegin, Owned
<1>18. ASSUME NEW p \in Stoppers, ShutdownAgain(p)
       PROVE  (active' # active => active' = None \/ active' > active)
  BY <1>18 DEF ShutdownAgain
<1>19. ASSUME NEW p \in Stoppers, StopDeadline(p)
       PROVE  (active' # active => active' = None \/ active' > active)
  BY <1>19 DEF StopDeadline, Expire
<1>20. ASSUME NEW p \in Procs, NEW g \in Gens, CloseSkip(p, g)
       PROVE  (active' # active => active' = None \/ active' > active)
  BY <1>20 DEF CloseSkip, NextToClose
<1>21. ASSUME NEW p \in Procs, NEW g \in Gens, CloseBegin(p, g)
       PROVE  (active' # active => active' = None \/ active' > active)
  BY <1>21 DEF CloseBegin, NextToClose
<1>22. ASSUME NEW p \in Procs, CloseShutdown(p)
       PROVE  (active' # active => active' = None \/ active' > active)
  BY <1>22 DEF CloseShutdown, ShutdownReturns, Tracked, ShutdownExpires, CloseUpgraded
<1>23. ASSUME NEW p \in Procs, CloseJoin(p)
       PROVE  (active' # active => active' = None \/ active' > active)
  BY <1>23 DEF CloseJoin, TakeServeDone, JoinGivesUp
<1>24. ASSUME NEW p \in Procs, CloseEnd(p)
       PROVE  (active' # active => active' = None \/ active' > active)
  BY <1>24 DEF CloseEnd, Leave
<1>25. ASSUME NEW g \in Gens, LoopStep(g) \/ ClientActs(g)
       PROVE  (active' # active => active' = None \/ active' > active)
  BY <1>25, Background
<1>26. CASE UNCHANGED vars
  BY <1>26 DEF vars, connVars
<1>. QED
  BY <1>1, <1>2, <1>3, <1>4, <1>5, <1>6, <1>7, <1>8, <1>9, <1>10, <1>11, <1>12, <1>13, <1>14,
       <1>15, <1>16, <1>17, <1>18, <1>19, <1>20, <1>21, <1>22, <1>23, <1>24, <1>25, <1>26
     DEF Next, ReplaceStep, CloseStep

\* What Replace establishes when it registers a candidate is a proposal.
LEMMA Proposal ==
  ASSUME ~closed, candidates = {}, generation < MaxGenerations,
         active # None => Cardinality(draining) < MaxDraining,
         generation' = generation + 1, candidates' = {generation + 1},
         UNCHANGED <<active, draining, closed>>
  PROVE  Transition!Propose
<1>1. ~closed /\ candidates = {} /\ generation < MaxGenerations
  OBVIOUS
<1>2. active # 0 => Cardinality(draining) < MaxDraining
  OBVIOUS
<1>3. generation' = generation + 1 /\ candidates' = {generation + 1}
  OBVIOUS
<1>4. active' = active /\ draining' = draining /\ closed' = closed
  OBVIOUS
<1>. QED
  BY <1>1, <1>2, <1>3, <1>4 DEF Transition!Propose, Transition!Cardinality, Cardinality

\* Every step is a step of the abstract transition, or leaves it unchanged.
LEMMA TransitionStep ==
  ASSUME TypeOK, TargetInv, LockInv, NumberInv
  PROVE  [Next]_vars => [Transition!Next]_Transition!vars
<1>. USE ProcsAssumption, ConfigsAssumption, BoundsAssumption
<1>. USE DEF Transition!Next, Transition!vars, HoldsLock, LockInv, NumberInv, TypeOK,
     ManagerTypes, GenerationTypes, CallTypes, managerVars, hostVars, genVars, connVars, callVars
<1>1. ASSUME NEW p \in Replacers, ReplaceRefused(p) PROVE [Transition!Next]_Transition!vars
  BY <1>1 DEF ReplaceRefused, Return
<1>2. ASSUME NEW p \in Replacers, NEW c \in Configs, ReplaceNoop(p, c)
      PROVE  [Transition!Next]_Transition!vars
  BY <1>2 DEF ReplaceNoop, Return
<1>3. ASSUME NEW p \in Replacers, NEW c \in Configs, ReplaceUnprepared(p, c)
      PROVE  [Transition!Next]_Transition!vars
  <2>1. Transition!Waste
    BY <1>3 DEF ReplaceUnprepared, Return, MayPrepare, Transition!Waste
  <2>. QED
    BY <2>1
<1>4. ASSUME NEW p \in Replacers, NEW c \in Configs, ReplacePrepare(p, c)
      PROVE  [Transition!Next]_Transition!vars
  <2>1. active # None => Cardinality(draining) < MaxDraining
    BY <1>4, FiniteDraining DEF ReplacePrepare, MayPrepare, AtDrainingLimit
  <2>2. ~closed /\ candidates = {} /\ generation < MaxGenerations
    BY <1>4 DEF ReplacePrepare, MayPrepare
  <2>3. generation' = generation + 1 /\ candidates' = {generation + 1}
    BY <1>4, <2>2 DEF ReplacePrepare, NextNumber
  <2>4. UNCHANGED <<active, draining, closed>>
    BY <1>4 DEF ReplacePrepare
  <2>5. Transition!Propose
    BY <2>1, <2>2, <2>3, <2>4, Proposal
  <2>. QED
    BY <2>5
<1>5. ASSUME NEW p \in Replacers, ProbePasses(p) PROVE [Transition!Next]_Transition!vars
  BY <1>5 DEF ProbePasses
<1>6. ASSUME NEW p \in Replacers, ProbeFails(p) PROVE [Transition!Next]_Transition!vars
  <2>1. candidates = {target[p]}
    BY <1>6 DEF ProbeFails
  <2>2. candidates' = {} /\ UNCHANGED <<generation, active, draining, closed>>
    BY <1>6, <2>1 DEF ProbeFails, Reject
  <2>3. Transition!Reject
    BY <2>1, <2>2 DEF Transition!Reject
  <2>. QED
    BY <2>3
<1>7. ASSUME NEW p \in Replacers, RecheckFails(p) PROVE [Transition!Next]_Transition!vars
  <2>1. candidates = {target[p]}
    BY <1>7 DEF RecheckFails
  <2>2. candidates' = {} /\ UNCHANGED <<generation, active, draining, closed>>
    BY <1>7, <2>1 DEF RecheckFails, Reject
  <2>3. Transition!Reject
    BY <2>1, <2>2 DEF Transition!Reject
  <2>. QED
    BY <2>3
<1>8. ASSUME NEW p \in Replacers, CloseOldGate(p) PROVE [Transition!Next]_Transition!vars
  BY <1>8 DEF CloseOldGate, OldGateClosed
<1>9. ASSUME NEW p \in Replacers, PromoteFirst(p) PROVE [Transition!Next]_Transition!vars
  <2>1. Transition!Promote
    BY <1>9 DEF PromoteFirst, Install, Return, Leave, Transition!Promote
  <2>. QED
    BY <2>1
<1>10. ASSUME NEW p \in Replacers, Promote(p) PROVE [Transition!Next]_Transition!vars
  <2>1. Transition!Promote
    BY <1>10 DEF Promote, Install, Transition!Promote
  <2>. QED
    BY <2>1
<1>11. ASSUME NEW p \in Replacers, DrainBegin(p) PROVE [Transition!Next]_Transition!vars
  BY <1>11 DEF DrainBegin
<1>12. ASSUME NEW p \in Replacers, DrainShutdown(p) PROVE [Transition!Next]_Transition!vars
  BY <1>12 DEF DrainShutdown, ShutdownReturns, Tracked, ShutdownExpires, CloseUpgraded
<1>13. ASSUME NEW p \in Replacers, DrainJoin(p) PROVE [Transition!Next]_Transition!vars
  BY <1>13 DEF DrainJoin, TakeServeDone, JoinGivesUp, CloseUpgraded
<1>14. ASSUME NEW p \in Replacers, ReplaceReturns(p) PROVE [Transition!Next]_Transition!vars
  <2>1. CASE target[p] \in draining
    <3>1. Transition!Retire(target[p])
      BY <1>14, <2>1 DEF ReplaceReturns, Return, Leave, Transition!Retire
    <3>. QED
      BY <2>1, <3>1
  <2>2. CASE target[p] \notin draining
    BY <1>14, <2>2 DEF ReplaceReturns, Return, Leave
  <2>. QED
    BY <2>1, <2>2
<1>15. ASSUME NEW p \in Replacers, CallerCancels(p) PROVE [Transition!Next]_Transition!vars
  BY <1>15 DEF CallerCancels, Expire
<1>16. ASSUME NEW p \in Replacers, DrainTimeout(p) PROVE [Transition!Next]_Transition!vars
  BY <1>16 DEF DrainTimeout, Expire
<1>17. ASSUME NEW p \in Stoppers, ShutdownBegin(p) PROVE [Transition!Next]_Transition!vars
  <2>1. Transition!Stop
    BY <1>17 DEF ShutdownBegin, Owned, Transition!Stop
  <2>. QED
    BY <2>1
<1>18. ASSUME NEW p \in Stoppers, ShutdownAgain(p) PROVE [Transition!Next]_Transition!vars
  BY <1>18 DEF ShutdownAgain
<1>19. ASSUME NEW p \in Stoppers, StopDeadline(p) PROVE [Transition!Next]_Transition!vars
  BY <1>19 DEF StopDeadline, Expire
<1>20. ASSUME NEW p \in Procs, NEW g \in Gens, CloseSkip(p, g)
       PROVE  [Transition!Next]_Transition!vars
  BY <1>20 DEF CloseSkip, NextToClose
<1>21. ASSUME NEW p \in Procs, NEW g \in Gens, CloseBegin(p, g)
       PROVE  [Transition!Next]_Transition!vars
  BY <1>21 DEF CloseBegin, NextToClose
<1>22. ASSUME NEW p \in Procs, CloseShutdown(p) PROVE [Transition!Next]_Transition!vars
  BY <1>22 DEF CloseShutdown, ShutdownReturns, Tracked, ShutdownExpires, CloseUpgraded
<1>23. ASSUME NEW p \in Procs, CloseJoin(p) PROVE [Transition!Next]_Transition!vars
  BY <1>23 DEF CloseJoin, TakeServeDone, JoinGivesUp
<1>24. ASSUME NEW p \in Procs, CloseEnd(p) PROVE [Transition!Next]_Transition!vars
  BY <1>24 DEF CloseEnd, Leave
<1>25. ASSUME NEW g \in Gens, LoopStep(g) \/ ClientActs(g) PROVE [Transition!Next]_Transition!vars
  BY <1>25, Background
<1>26. CASE UNCHANGED vars
  BY <1>26 DEF vars, connVars
<1>. QED
  BY <1>1, <1>2, <1>3, <1>4, <1>5, <1>6, <1>7, <1>8, <1>9, <1>10, <1>11, <1>12, <1>13, <1>14,
       <1>15, <1>16, <1>17, <1>18, <1>19, <1>20, <1>21, <1>22, <1>23, <1>24, <1>25, <1>26
     DEF Next, ReplaceStep, CloseStep

-----------------------------------------------------------------------------
(* What Replace and Shutdown release.                                      *)

\* f is a function on S.
IsMap(f, S) == f = [x \in S |-> f[x]]

\* What the proofs below need of the types.
Shaped ==
  /\ generation \in Nat /\ active \in Nat /\ None <= generation
  /\ \A g \in Gens : g \in Nat /\ g # None
  /\ \A p \in Replacers : p \in Procs /\ p \notin Stoppers
  /\ \A p \in Stoppers : p \in Procs /\ p \notin Replacers
  /\ \A p \in Procs : (p \in Replacers \/ p \in Stoppers) /\ p # NoProc
  /\ None \in Nat /\ \A p \in Procs : target[p] \in Gens \/ target[p] = None
  /\ \A p \in Procs : todo[p] \subseteq Gens
  /\ candidates \subseteq Gens /\ draining \subseteq Gens
  /\ active \in Gens \/ active = None
  /\ IsMap(pc, Procs) /\ IsMap(target, Procs) /\ IsMap(todo, Procs) /\ IsMap(result, Procs)
  /\ IsMap(force, Procs) /\ IsMap(failed, Procs)
  /\ IsMap(genConfig, Gens) /\ IsMap(promoted, Gens) /\ IsMap(retired, Gens)
  /\ IsMap(listening, Gens) /\ IsMap(hijacked, Gens) /\ IsMap(sweep, Gens)
  /\ IsMap(loop, Gens) /\ IsMap(serveDone, Gens) /\ IsMap(conn, Gens) /\ IsMap(cut, Gens)

Draining == {"draining", "drainShutdown", "drainJoin", "drained"}
Closing  == {"closing", "closeShutdown", "closeJoin"}

\* A generation that was not prepared yet is untouched.
UntouchedInv ==
  \A g \in Gens : g > generation =>
    /\ ~promoted[g] /\ ~retired[g] /\ loop[g] = "unborn" /\ serveDone[g] = "empty"
    /\ sweep[g] = "never"

\* Calls work on generations that were prepared.
PreparedInv == \A p \in Procs : target[p] <= generation /\ \A g \in todo[p] : g <= generation

\* The candidate is its caller's alone.
CandidateInv ==
  \A p \in Procs : mu = p =>
    /\ ~promoted[generation] /\ ~retired[generation]
    /\ \A q \in Procs : (q # p => target[q] < generation) /\ \A g \in todo[q] : g < generation

\* One Shutdown call stops the manager, and it alone closes on behalf of Shutdown.
RoleInv ==
  /\ \A p \in Procs : pc[p] = "returned" \/ result[p] = "stopped" => p \in Stoppers
  /\ \A p \in Procs : result[p] = "stopped" => closed /\ pc[p] \in Closing \cup {"returned"}
  /\ \A p, q \in Procs : result[p] = "stopped" /\ result[q] = "stopped" => p = q
  /\ \A p \in Stoppers : pc[p] \in Closing => result[p] = "stopped"
  /\ \A p \in Replacers : pc[p] \in Closing => result[p] = "rejected"

\* A Replace closes nothing but its rejected candidate.
RejectedInv ==
  \A p \in Replacers : pc[p] \in Closing =>
    /\ \A g \in todo[p] : ~promoted[g]
    /\ pc[p] = "closeShutdown" => ~promoted[target[p]]

\* The active generation is the last one promoted, and nobody closes it; a drain works
\* on one that was replaced.
LatestInv ==
  /\ ~closed => \A g \in Gens : promoted[g] => active # None /\ g <= active
  /\ active # None => promoted[active] /\ ~retired[active]
  /\ \A p \in Procs : pc[p] \in Draining => \E h \in Gens : h > target[p] /\ promoted[h]

\* What each step of a drain has released, and keeps released.
DrainInv ==
  /\ \A g \in Gens : serveDone[g] = "nil" => loop[g] = "exited"
  /\ \A p \in Procs :
       /\ pc[p] \in Draining \ {"draining"} => ~listening[target[p]]
       /\ pc[p] \in {"drainJoin", "drained"} => ~Tracked(target[p])
       /\ pc[p] = "drained" /\ ~failed[p] => loop[target[p]] = "exited"
  /\ AppliedMeansRetired

\* The Shutdown call that is about to close the connections of g.
ClosedSoon(g) == \E s \in Stoppers : pc[s] = "closeShutdown" /\ target[s] = g

\* A promoted generation is on the list of the Shutdown call, or retired: then it does
\* not listen, and its server tracks no connection or is about to drop them.
ReleaseInv ==
  /\ closed => \A g \in Gens : promoted[g] /\ ~retired[g] =>
                 \E s \in Stoppers : pc[s] \in Closing /\ g \in todo[s]
  /\ \A g \in Gens : promoted[g] /\ retired[g] =>
       ~listening[g] /\ (~Tracked(g) \/ ClosedSoon(g))

\* A generation is swept when nothing can be upgraded on it any more, so that a sweep
\* that missed nothing left nothing; and a retired one that was never swept was replaced.
UpgradedInv ==
  /\ \A p \in Procs : pc[p] = "closeShutdown" =>
       /\ target[p] \in Gens /\ ~listening[target[p]]
       /\ ForceClose[genConfig[target[p]]] => force[p]
  /\ \A g \in Gens : sweep[g] = "clean" =>
       hijacked[g] = "none" /\ ~listening[g] /\ ~Tracked(g)
  /\ \A g \in Gens : promoted[g] /\ retired[g] /\ ForceClose[genConfig[g]] =>
       sweep[g] # "never" \/ ClosedSoon(g) \/ \E h \in Gens : h > g /\ promoted[h]

Releases ==
  /\ UntouchedInv /\ PreparedInv /\ CandidateInv /\ RoleInv /\ RejectedInv
  /\ LatestInv /\ DrainInv /\ ReleaseInv /\ UpgradedInv

\* The types give it.
LEMMA Shape ==
  ASSUME TypeOK
  PROVE  Shaped
<1>1. /\ generation \in Nat /\ active \in Nat /\ None <= generation
      /\ \A g \in Gens : g \in Nat /\ g # None
  BY BoundsAssumption DEF TypeOK, ManagerTypes
<1>2. active \in Gens \/ active = None
  BY BoundsAssumption DEF TypeOK, ManagerTypes
<1>3. None \in Nat /\ \A p \in Procs : target[p] \in Gens \/ target[p] = None
  BY BoundsAssumption DEF TypeOK, CallTypes
<1>4. /\ candidates \subseteq Gens /\ draining \subseteq Gens /\ \A p \in Procs : todo[p] \subseteq Gens
  BY DEF TypeOK, ManagerTypes, CallTypes
<1>5. \A p \in Replacers : p \in Procs /\ p \notin Stoppers
  BY ProcsAssumption
<1>6. \A p \in Stoppers : p \in Procs /\ p \notin Replacers
  BY ProcsAssumption
<1>7. \A p \in Procs : (p \in Replacers \/ p \in Stoppers) /\ p # NoProc
  BY ProcsAssumption
<1>8. /\ IsMap(pc, Procs) /\ IsMap(target, Procs) /\ IsMap(todo, Procs) /\ IsMap(result, Procs)
      /\ IsMap(force, Procs) /\ IsMap(failed, Procs)
  BY DEF TypeOK, CallTypes, IsMap
<1>9. /\ IsMap(genConfig, Gens) /\ IsMap(promoted, Gens) /\ IsMap(retired, Gens)
      /\ IsMap(listening, Gens) /\ IsMap(hijacked, Gens) /\ IsMap(sweep, Gens)
      /\ IsMap(loop, Gens) /\ IsMap(serveDone, Gens) /\ IsMap(conn, Gens) /\ IsMap(cut, Gens)
  BY DEF TypeOK, GenerationTypes, IsMap
<1>. HIDE DEF Gens, Procs
<1>. QED
  BY <1>1, <1>2, <1>3, <1>4, <1>5, <1>6, <1>7, <1>8, <1>9 DEF Shaped

\* Every step leaves the generations to come untouched.
LEMMA UntouchedStep ==
  ASSUME TypeOK, TargetInv, LockInv, PreparedInv, UntouchedInv
  PROVE  [Next]_vars => UntouchedInv'
<1>. USE Shape DEF Shaped, IsMap
<1>. HIDE DEF Gens, Procs, None
<1>. USE DEF UntouchedInv, PreparedInv, LockInv, TargetInv, HoldsLock, managerVars, hostVars,
     genVars, connVars, callVars
<1>1. ASSUME NEW p \in Replacers, ReplaceRefused(p) PROVE UntouchedInv'
  BY <1>1 DEF ReplaceRefused, Return
<1>2. ASSUME NEW p \in Replacers, NEW c \in Configs, ReplaceNoop(p, c) PROVE UntouchedInv'
  BY <1>2 DEF ReplaceNoop, Return
<1>3. ASSUME NEW p \in Replacers, NEW c \in Configs, ReplaceUnprepared(p, c) PROVE UntouchedInv'
  BY <1>3 DEF ReplaceUnprepared, MayPrepare, Return
<1>4. ASSUME NEW p \in Replacers, NEW c \in Configs, ReplacePrepare(p, c) PROVE UntouchedInv'
  BY <1>4 DEF ReplacePrepare, MayPrepare, NextNumber
<1>5. ASSUME NEW p \in Replacers, ProbePasses(p) PROVE UntouchedInv'
  BY <1>5 DEF ProbePasses
<1>6. ASSUME NEW p \in Replacers, ProbeFails(p) PROVE UntouchedInv'
  BY <1>6 DEF ProbeFails, Reject
<1>7. ASSUME NEW p \in Replacers, RecheckFails(p) PROVE UntouchedInv'
  BY <1>7 DEF RecheckFails, Reject
<1>8. ASSUME NEW p \in Replacers, CloseOldGate(p) PROVE UntouchedInv'
  BY <1>8 DEF CloseOldGate, OldGateClosed
<1>9. ASSUME NEW p \in Replacers, PromoteFirst(p) PROVE UntouchedInv'
  BY <1>9 DEF PromoteFirst, Install, Return, Leave
<1>10. ASSUME NEW p \in Replacers, Promote(p) PROVE UntouchedInv'
  BY <1>10 DEF Promote, Install
<1>11. ASSUME NEW p \in Replacers, DrainBegin(p) PROVE UntouchedInv'
  BY <1>11 DEF DrainBegin
<1>12. ASSUME NEW p \in Replacers, DrainShutdown(p) PROVE UntouchedInv'
  BY <1>12 DEF DrainShutdown, ShutdownReturns, Tracked, ShutdownExpires, CloseUpgraded
<1>13. ASSUME NEW p \in Replacers, DrainJoin(p) PROVE UntouchedInv'
  BY <1>13 DEF DrainJoin, TakeServeDone, JoinGivesUp, CloseUpgraded
<1>14. ASSUME NEW p \in Replacers, ReplaceReturns(p) PROVE UntouchedInv'
  BY <1>14 DEF ReplaceReturns, Return, Leave
<1>15. ASSUME NEW p \in Replacers, CallerCancels(p) PROVE UntouchedInv'
  BY <1>15 DEF CallerCancels, Expire
<1>16. ASSUME NEW p \in Replacers, DrainTimeout(p) PROVE UntouchedInv'
  BY <1>16 DEF DrainTimeout, Expire
<1>17. ASSUME NEW p \in Stoppers, ShutdownBegin(p) PROVE UntouchedInv'
  BY <1>17 DEF ShutdownBegin, Owned
<1>18. ASSUME NEW p \in Stoppers, ShutdownAgain(p) PROVE UntouchedInv'
  BY <1>18 DEF ShutdownAgain
<1>19. ASSUME NEW p \in Stoppers, StopDeadline(p) PROVE UntouchedInv'
  BY <1>19 DEF StopDeadline, Expire
<1>20. ASSUME NEW p \in Procs, NEW g \in Gens, CloseSkip(p, g) PROVE UntouchedInv'
  BY <1>20 DEF CloseSkip, NextToClose
<1>21. ASSUME NEW p \in Procs, NEW g \in Gens, CloseBegin(p, g) PROVE UntouchedInv'
  BY <1>21 DEF CloseBegin, NextToClose
<1>22. ASSUME NEW p \in Procs, CloseShutdown(p) PROVE UntouchedInv'
  BY <1>22 DEF CloseShutdown, ShutdownReturns, Tracked, ShutdownExpires, CloseUpgraded
<1>23. ASSUME NEW p \in Procs, CloseJoin(p) PROVE UntouchedInv'
  BY <1>23 DEF CloseJoin, TakeServeDone, JoinGivesUp
<1>24. ASSUME NEW p \in Procs, CloseEnd(p) PROVE UntouchedInv'
  BY <1>24 DEF CloseEnd, Leave
<1>25. ASSUME NEW g \in Gens, ServeFails(g) PROVE UntouchedInv'
  BY <1>25 DEF ServeFails
<1>26. ASSUME NEW g \in Gens, ServeStops(g) PROVE UntouchedInv'
  BY <1>26 DEF ServeStops
<1>27. ASSUME NEW g \in Gens, ReportFailure(g) PROVE UntouchedInv'
  BY <1>27 DEF ReportFailure, LoopExits
<1>28. ASSUME NEW g \in Gens, SwallowFailure(g) PROVE UntouchedInv'
  BY <1>28 DEF SwallowFailure, LoopExits
<1>29. ASSUME NEW g \in Gens, Connect(g) PROVE UntouchedInv'
  BY <1>29 DEF Connect, ClientStep, Moves
<1>30. ASSUME NEW g \in Gens, EnterGate(g) PROVE UntouchedInv'
  BY <1>30 DEF EnterGate, ClientStep, Moves
<1>31. ASSUME NEW g \in Gens, PassGate(g) PROVE UntouchedInv'
  BY <1>31 DEF PassGate, ClientStep, Moves
<1>32. ASSUME NEW g \in Gens, Respond(g) PROVE UntouchedInv'
  BY <1>32 DEF Respond, ClientStep, Moves
<1>33. ASSUME NEW g \in Gens, Hijack(g) PROVE UntouchedInv'
  BY <1>33 DEF Hijack, Moves
<1>34. ASSUME NEW g \in Gens, HangUp(g) PROVE UntouchedInv'
  BY <1>34 DEF HangUp, Upgraded
<1>35. ASSUME NEW g \in Gens, ReadFails(g) PROVE UntouchedInv'
  BY <1>35 DEF ReadFails, ClientStep, Moves
<1>36. ASSUME NEW g \in Gens, StoreHijacked(g) PROVE UntouchedInv'
  BY <1>36 DEF StoreHijacked, Upgraded
<1>37. ASSUME NEW g \in Gens, DetachedReturns(g) PROVE UntouchedInv'
  BY <1>37 DEF DetachedReturns, ClientStep, Moves
<1>38. CASE UNCHANGED vars
  BY <1>38 DEF vars
<1>. QED
  BY <1>1, <1>2, <1>3, <1>4, <1>5, <1>6, <1>7, <1>8, <1>9, <1>10, <1>11, <1>12, <1>13, <1>14,
       <1>15, <1>16, <1>17, <1>18, <1>19, <1>20, <1>21, <1>22, <1>23, <1>24, <1>25, <1>26, <1>27,
       <1>28, <1>29, <1>30, <1>31, <1>32, <1>33, <1>34, <1>35, <1>36, <1>37, <1>38
     DEF Next, ReplaceStep, CloseStep,
       LoopStep, ClientActs

\* Every step works on prepared generations.
LEMMA PreparedStep ==
  ASSUME TypeOK, TargetInv, LockInv, NumberInv, PreparedInv
  PROVE  [Next]_vars => PreparedInv'
<1>. USE Shape DEF Shaped, IsMap
<1>. HIDE DEF Gens, Procs, None
<1>. USE DEF PreparedInv, LockInv, TargetInv, NumberInv, HoldsLock, managerVars, hostVars,
     genVars, connVars, callVars
<1>1. ASSUME NEW p \in Replacers, ReplaceRefused(p) PROVE PreparedInv'
  BY <1>1 DEF ReplaceRefused, Return
<1>2. ASSUME NEW p \in Replacers, NEW c \in Configs, ReplaceNoop(p, c) PROVE PreparedInv'
  BY <1>2 DEF ReplaceNoop, Return
<1>3. ASSUME NEW p \in Replacers, NEW c \in Configs, ReplaceUnprepared(p, c) PROVE PreparedInv'
  BY <1>3 DEF ReplaceUnprepared, MayPrepare, Return
<1>4. ASSUME NEW p \in Replacers, NEW c \in Configs, ReplacePrepare(p, c) PROVE PreparedInv'
  BY <1>4 DEF ReplacePrepare, MayPrepare, NextNumber
<1>5. ASSUME NEW p \in Replacers, ProbePasses(p) PROVE PreparedInv'
  BY <1>5 DEF ProbePasses
<1>6. ASSUME NEW p \in Replacers, ProbeFails(p) PROVE PreparedInv'
  BY <1>6 DEF ProbeFails, Reject
<1>7. ASSUME NEW p \in Replacers, RecheckFails(p) PROVE PreparedInv'
  BY <1>7 DEF RecheckFails, Reject
<1>8. ASSUME NEW p \in Replacers, CloseOldGate(p) PROVE PreparedInv'
  BY <1>8 DEF CloseOldGate, OldGateClosed
<1>9. ASSUME NEW p \in Replacers, PromoteFirst(p) PROVE PreparedInv'
  BY <1>9 DEF PromoteFirst, Install, Return, Leave
<1>10. ASSUME NEW p \in Replacers, Promote(p) PROVE PreparedInv'
  BY <1>10 DEF Promote, Install
<1>11. ASSUME NEW p \in Replacers, DrainBegin(p) PROVE PreparedInv'
  BY <1>11 DEF DrainBegin
<1>12. ASSUME NEW p \in Replacers, DrainShutdown(p) PROVE PreparedInv'
  BY <1>12 DEF DrainShutdown, ShutdownReturns, Tracked, ShutdownExpires, CloseUpgraded
<1>13. ASSUME NEW p \in Replacers, DrainJoin(p) PROVE PreparedInv'
  BY <1>13 DEF DrainJoin, TakeServeDone, JoinGivesUp, CloseUpgraded
<1>14. ASSUME NEW p \in Replacers, ReplaceReturns(p) PROVE PreparedInv'
  BY <1>14 DEF ReplaceReturns, Return, Leave
<1>15. ASSUME NEW p \in Replacers, CallerCancels(p) PROVE PreparedInv'
  BY <1>15 DEF CallerCancels, Expire
<1>16. ASSUME NEW p \in Replacers, DrainTimeout(p) PROVE PreparedInv'
  BY <1>16 DEF DrainTimeout, Expire
<1>17. ASSUME NEW p \in Stoppers, ShutdownBegin(p) PROVE PreparedInv'
  <2>1. \A g \in Owned : g <= generation
    BY <1>17 DEF ShutdownBegin, Owned
  <2>. QED
    BY <1>17, <2>1 DEF ShutdownBegin
<1>18. ASSUME NEW p \in Stoppers, ShutdownAgain(p) PROVE PreparedInv'
  BY <1>18 DEF ShutdownAgain
<1>19. ASSUME NEW p \in Stoppers, StopDeadline(p) PROVE PreparedInv'
  BY <1>19 DEF StopDeadline, Expire
<1>20. ASSUME NEW p \in Procs, NEW g \in Gens, CloseSkip(p, g) PROVE PreparedInv'
  BY <1>20 DEF CloseSkip, NextToClose
<1>21. ASSUME NEW p \in Procs, NEW g \in Gens, CloseBegin(p, g) PROVE PreparedInv'
  BY <1>21 DEF CloseBegin, NextToClose
<1>22. ASSUME NEW p \in Procs, CloseShutdown(p) PROVE PreparedInv'
  BY <1>22 DEF CloseShutdown, ShutdownReturns, Tracked, ShutdownExpires, CloseUpgraded
<1>23. ASSUME NEW p \in Procs, CloseJoin(p) PROVE PreparedInv'
  BY <1>23 DEF CloseJoin, TakeServeDone, JoinGivesUp
<1>24. ASSUME NEW p \in Procs, CloseEnd(p) PROVE PreparedInv'
  BY <1>24 DEF CloseEnd, Leave
<1>25. ASSUME NEW g \in Gens, LoopStep(g) \/ ClientActs(g) PROVE PreparedInv'
  BY <1>25, Background
<1>26. CASE UNCHANGED vars
  BY <1>26 DEF vars
<1>. QED
  BY <1>1, <1>2, <1>3, <1>4, <1>5, <1>6, <1>7, <1>8, <1>9, <1>10, <1>11, <1>12, <1>13, <1>14,
       <1>15, <1>16, <1>17, <1>18, <1>19, <1>20, <1>21, <1>22, <1>23, <1>24, <1>25, <1>26 DEF
       Next, ReplaceStep, CloseStep

\* Every step leaves the candidate to its caller.
LEMMA CandidateStep ==
  ASSUME TypeOK, TargetInv, LockInv, UntouchedInv, PreparedInv, CandidateInv
  PROVE  [Next]_vars => CandidateInv'
<1>. USE Shape DEF Shaped, IsMap
<1>. HIDE DEF Gens, Procs, None
<1>. USE DEF CandidateInv, UntouchedInv, PreparedInv, LockInv, TargetInv, HoldsLock, managerVars,
     hostVars, genVars, connVars, callVars
<1>1. ASSUME NEW p \in Replacers, ReplaceRefused(p) PROVE CandidateInv'
  BY <1>1 DEF ReplaceRefused, Return
<1>2. ASSUME NEW p \in Replacers, NEW c \in Configs, ReplaceNoop(p, c) PROVE CandidateInv'
  BY <1>2 DEF ReplaceNoop, Return
<1>3. ASSUME NEW p \in Replacers, NEW c \in Configs, ReplaceUnprepared(p, c) PROVE CandidateInv'
  BY <1>3 DEF ReplaceUnprepared, MayPrepare, Return
<1>4. ASSUME NEW p \in Replacers, NEW c \in Configs, ReplacePrepare(p, c) PROVE CandidateInv'
  <2>1. mu' = p /\ generation' = generation + 1 /\ target' = [target EXCEPT ![p] = generation + 1]
    BY <1>4 DEF ReplacePrepare, NextNumber
  <2>2. UNCHANGED <<promoted, retired, todo>>
    BY <1>4 DEF ReplacePrepare
  <2>3. generation + 1 \in Gens
    BY <1>4, BoundsAssumption DEF ReplacePrepare, MayPrepare, Gens
  <2>4. ~promoted[generation'] /\ ~retired[generation']
    BY <2>1, <2>3
  <2>. QED
    BY <2>1, <2>2, <2>4
<1>5. ASSUME NEW p \in Replacers, ProbePasses(p) PROVE CandidateInv'
  BY <1>5 DEF ProbePasses
<1>6. ASSUME NEW p \in Replacers, ProbeFails(p) PROVE CandidateInv'
  BY <1>6 DEF ProbeFails, Reject
<1>7. ASSUME NEW p \in Replacers, RecheckFails(p) PROVE CandidateInv'
  BY <1>7 DEF RecheckFails, Reject
<1>8. ASSUME NEW p \in Replacers, CloseOldGate(p) PROVE CandidateInv'
  BY <1>8 DEF CloseOldGate, OldGateClosed
<1>9. ASSUME NEW p \in Replacers, PromoteFirst(p) PROVE CandidateInv'
  BY <1>9 DEF PromoteFirst, Install, Return, Leave
<1>10. ASSUME NEW p \in Replacers, Promote(p) PROVE CandidateInv'
  BY <1>10 DEF Promote, Install
<1>11. ASSUME NEW p \in Replacers, DrainBegin(p) PROVE CandidateInv'
  BY <1>11 DEF DrainBegin
<1>12. ASSUME NEW p \in Replacers, DrainShutdown(p) PROVE CandidateInv'
  BY <1>12 DEF DrainShutdown, ShutdownReturns, Tracked, ShutdownExpires, CloseUpgraded
<1>13. ASSUME NEW p \in Replacers, DrainJoin(p) PROVE CandidateInv'
  BY <1>13 DEF DrainJoin, TakeServeDone, JoinGivesUp, CloseUpgraded
<1>14. ASSUME NEW p \in Replacers, ReplaceReturns(p) PROVE CandidateInv'
  BY <1>14 DEF ReplaceReturns, Return, Leave
<1>15. ASSUME NEW p \in Replacers, CallerCancels(p) PROVE CandidateInv'
  BY <1>15 DEF CallerCancels, Expire
<1>16. ASSUME NEW p \in Replacers, DrainTimeout(p) PROVE CandidateInv'
  BY <1>16 DEF DrainTimeout, Expire
<1>17. ASSUME NEW p \in Stoppers, ShutdownBegin(p) PROVE CandidateInv'
  BY <1>17 DEF ShutdownBegin, Owned
<1>18. ASSUME NEW p \in Stoppers, ShutdownAgain(p) PROVE CandidateInv'
  BY <1>18 DEF ShutdownAgain
<1>19. ASSUME NEW p \in Stoppers, StopDeadline(p) PROVE CandidateInv'
  BY <1>19 DEF StopDeadline, Expire
<1>20. ASSUME NEW p \in Procs, NEW g \in Gens, CloseSkip(p, g) PROVE CandidateInv'
  BY <1>20 DEF CloseSkip, NextToClose
<1>21. ASSUME NEW p \in Procs, NEW g \in Gens, CloseBegin(p, g) PROVE CandidateInv'
  BY <1>21 DEF CloseBegin, NextToClose
<1>22. ASSUME NEW p \in Procs, CloseShutdown(p) PROVE CandidateInv'
  BY <1>22 DEF CloseShutdown, ShutdownReturns, Tracked, ShutdownExpires, CloseUpgraded
<1>23. ASSUME NEW p \in Procs, CloseJoin(p) PROVE CandidateInv'
  BY <1>23 DEF CloseJoin, TakeServeDone, JoinGivesUp
<1>24. ASSUME NEW p \in Procs, CloseEnd(p) PROVE CandidateInv'
  BY <1>24 DEF CloseEnd, Leave
<1>25. ASSUME NEW g \in Gens, LoopStep(g) \/ ClientActs(g) PROVE CandidateInv'
  BY <1>25, Background
<1>26. CASE UNCHANGED vars
  BY <1>26 DEF vars
<1>. QED
  BY <1>1, <1>2, <1>3, <1>4, <1>5, <1>6, <1>7, <1>8, <1>9, <1>10, <1>11, <1>12, <1>13, <1>14,
       <1>15, <1>16, <1>17, <1>18, <1>19, <1>20, <1>21, <1>22, <1>23, <1>24, <1>25, <1>26 DEF
       Next, ReplaceStep, CloseStep

\* Every step keeps one Shutdown call in charge.
LEMMA RoleStep ==
  ASSUME TypeOK, TargetInv, LockInv, RoleInv
  PROVE  [Next]_vars => RoleInv'
<1>. USE Shape DEF Shaped, IsMap
<1>. HIDE DEF Gens, Procs, None
<1>. USE DEF RoleInv, LockInv, HoldsLock, Closing, TargetInv, managerVars, hostVars, genVars,
     connVars, callVars
<1>1. ASSUME NEW p \in Replacers, ReplaceRefused(p) PROVE RoleInv'
  BY <1>1 DEF ReplaceRefused, Return
<1>2. ASSUME NEW p \in Replacers, NEW c \in Configs, ReplaceNoop(p, c) PROVE RoleInv'
  BY <1>2 DEF ReplaceNoop, Return
<1>3. ASSUME NEW p \in Replacers, NEW c \in Configs, ReplaceUnprepared(p, c) PROVE RoleInv'
  BY <1>3 DEF ReplaceUnprepared, MayPrepare, Return
<1>4. ASSUME NEW p \in Replacers, NEW c \in Configs, ReplacePrepare(p, c) PROVE RoleInv'
  BY <1>4 DEF ReplacePrepare, MayPrepare, NextNumber
<1>5. ASSUME NEW p \in Replacers, ProbePasses(p) PROVE RoleInv'
  BY <1>5 DEF ProbePasses
<1>6. ASSUME NEW p \in Replacers, ProbeFails(p) PROVE RoleInv'
  BY <1>6 DEF ProbeFails, Reject
<1>7. ASSUME NEW p \in Replacers, RecheckFails(p) PROVE RoleInv'
  BY <1>7 DEF RecheckFails, Reject
<1>8. ASSUME NEW p \in Replacers, CloseOldGate(p) PROVE RoleInv'
  BY <1>8 DEF CloseOldGate, OldGateClosed
<1>9. ASSUME NEW p \in Replacers, PromoteFirst(p) PROVE RoleInv'
  BY <1>9 DEF PromoteFirst, Install, Return, Leave
<1>10. ASSUME NEW p \in Replacers, Promote(p) PROVE RoleInv'
  BY <1>10 DEF Promote, Install
<1>11. ASSUME NEW p \in Replacers, DrainBegin(p) PROVE RoleInv'
  BY <1>11 DEF DrainBegin
<1>12. ASSUME NEW p \in Replacers, DrainShutdown(p) PROVE RoleInv'
  BY <1>12 DEF DrainShutdown, ShutdownReturns, Tracked, ShutdownExpires, CloseUpgraded
<1>13. ASSUME NEW p \in Replacers, DrainJoin(p) PROVE RoleInv'
  BY <1>13 DEF DrainJoin, TakeServeDone, JoinGivesUp, CloseUpgraded
<1>14. ASSUME NEW p \in Replacers, ReplaceReturns(p) PROVE RoleInv'
  BY <1>14 DEF ReplaceReturns, Return, Leave
<1>15. ASSUME NEW p \in Replacers, CallerCancels(p) PROVE RoleInv'
  BY <1>15 DEF CallerCancels, Expire
<1>16. ASSUME NEW p \in Replacers, DrainTimeout(p) PROVE RoleInv'
  BY <1>16 DEF DrainTimeout, Expire
<1>17. ASSUME NEW p \in Stoppers, ShutdownBegin(p) PROVE RoleInv'
  BY <1>17 DEF ShutdownBegin, Owned
<1>18. ASSUME NEW p \in Stoppers, ShutdownAgain(p) PROVE RoleInv'
  BY <1>18 DEF ShutdownAgain
<1>19. ASSUME NEW p \in Stoppers, StopDeadline(p) PROVE RoleInv'
  BY <1>19 DEF StopDeadline, Expire
<1>20. ASSUME NEW p \in Procs, NEW g \in Gens, CloseSkip(p, g) PROVE RoleInv'
  BY <1>20 DEF CloseSkip, NextToClose
<1>21. ASSUME NEW p \in Procs, NEW g \in Gens, CloseBegin(p, g) PROVE RoleInv'
  BY <1>21 DEF CloseBegin, NextToClose
<1>22. ASSUME NEW p \in Procs, CloseShutdown(p) PROVE RoleInv'
  BY <1>22 DEF CloseShutdown, ShutdownReturns, Tracked, ShutdownExpires, CloseUpgraded
<1>23. ASSUME NEW p \in Procs, CloseJoin(p) PROVE RoleInv'
  BY <1>23 DEF CloseJoin, TakeServeDone, JoinGivesUp
<1>24. ASSUME NEW p \in Procs, CloseEnd(p) PROVE RoleInv'
  BY <1>24 DEF CloseEnd, Leave
<1>25. ASSUME NEW g \in Gens, LoopStep(g) \/ ClientActs(g) PROVE RoleInv'
  BY <1>25, Background
<1>26. CASE UNCHANGED vars
  BY <1>26 DEF vars
<1>. QED
  BY <1>1, <1>2, <1>3, <1>4, <1>5, <1>6, <1>7, <1>8, <1>9, <1>10, <1>11, <1>12, <1>13, <1>14,
       <1>15, <1>16, <1>17, <1>18, <1>19, <1>20, <1>21, <1>22, <1>23, <1>24, <1>25, <1>26 DEF
       Next, ReplaceStep, CloseStep

\* Every step keeps Replace away from promoted generations.
LEMMA RejectedStep ==
  ASSUME TypeOK, TargetInv, LockInv, CandidateInv, RejectedInv
  PROVE  [Next]_vars => RejectedInv'
<1>. USE Shape DEF Shaped, IsMap
<1>. HIDE DEF Gens, Procs, None
<1>. USE DEF RejectedInv, CandidateInv, LockInv, HoldsLock, Closing, TargetInv, managerVars,
     hostVars, genVars, connVars, callVars
<1>1. ASSUME NEW p \in Replacers, ReplaceRefused(p) PROVE RejectedInv'
  BY <1>1 DEF ReplaceRefused, Return
<1>2. ASSUME NEW p \in Replacers, NEW c \in Configs, ReplaceNoop(p, c) PROVE RejectedInv'
  BY <1>2 DEF ReplaceNoop, Return
<1>3. ASSUME NEW p \in Replacers, NEW c \in Configs, ReplaceUnprepared(p, c) PROVE RejectedInv'
  BY <1>3 DEF ReplaceUnprepared, MayPrepare, Return
<1>4. ASSUME NEW p \in Replacers, NEW c \in Configs, ReplacePrepare(p, c) PROVE RejectedInv'
  BY <1>4 DEF ReplacePrepare, MayPrepare, NextNumber
<1>5. ASSUME NEW p \in Replacers, ProbePasses(p) PROVE RejectedInv'
  BY <1>5 DEF ProbePasses
<1>6. ASSUME NEW p \in Replacers, ProbeFails(p) PROVE RejectedInv'
  BY <1>6 DEF ProbeFails, Reject
<1>7. ASSUME NEW p \in Replacers, RecheckFails(p) PROVE RejectedInv'
  BY <1>7 DEF RecheckFails, Reject
<1>8. ASSUME NEW p \in Replacers, CloseOldGate(p) PROVE RejectedInv'
  BY <1>8 DEF CloseOldGate, OldGateClosed
<1>9. ASSUME NEW p \in Replacers, PromoteFirst(p) PROVE RejectedInv'
  BY <1>9 DEF PromoteFirst, Install, Return, Leave
<1>10. ASSUME NEW p \in Replacers, Promote(p) PROVE RejectedInv'
  BY <1>10 DEF Promote, Install
<1>11. ASSUME NEW p \in Replacers, DrainBegin(p) PROVE RejectedInv'
  BY <1>11 DEF DrainBegin
<1>12. ASSUME NEW p \in Replacers, DrainShutdown(p) PROVE RejectedInv'
  BY <1>12 DEF DrainShutdown, ShutdownReturns, Tracked, ShutdownExpires, CloseUpgraded
<1>13. ASSUME NEW p \in Replacers, DrainJoin(p) PROVE RejectedInv'
  BY <1>13 DEF DrainJoin, TakeServeDone, JoinGivesUp, CloseUpgraded
<1>14. ASSUME NEW p \in Replacers, ReplaceReturns(p) PROVE RejectedInv'
  BY <1>14 DEF ReplaceReturns, Return, Leave
<1>15. ASSUME NEW p \in Replacers, CallerCancels(p) PROVE RejectedInv'
  BY <1>15 DEF CallerCancels, Expire
<1>16. ASSUME NEW p \in Replacers, DrainTimeout(p) PROVE RejectedInv'
  BY <1>16 DEF DrainTimeout, Expire
<1>17. ASSUME NEW p \in Stoppers, ShutdownBegin(p) PROVE RejectedInv'
  BY <1>17 DEF ShutdownBegin, Owned
<1>18. ASSUME NEW p \in Stoppers, ShutdownAgain(p) PROVE RejectedInv'
  BY <1>18 DEF ShutdownAgain
<1>19. ASSUME NEW p \in Stoppers, StopDeadline(p) PROVE RejectedInv'
  BY <1>19 DEF StopDeadline, Expire
<1>20. ASSUME NEW p \in Procs, NEW g \in Gens, CloseSkip(p, g) PROVE RejectedInv'
  BY <1>20 DEF CloseSkip, NextToClose
<1>21. ASSUME NEW p \in Procs, NEW g \in Gens, CloseBegin(p, g) PROVE RejectedInv'
  BY <1>21 DEF CloseBegin, NextToClose
<1>22. ASSUME NEW p \in Procs, CloseShutdown(p) PROVE RejectedInv'
  BY <1>22 DEF CloseShutdown, ShutdownReturns, Tracked, ShutdownExpires, CloseUpgraded
<1>23. ASSUME NEW p \in Procs, CloseJoin(p) PROVE RejectedInv'
  BY <1>23 DEF CloseJoin, TakeServeDone, JoinGivesUp
<1>24. ASSUME NEW p \in Procs, CloseEnd(p) PROVE RejectedInv'
  BY <1>24 DEF CloseEnd, Leave
<1>25. ASSUME NEW g \in Gens, LoopStep(g) \/ ClientActs(g) PROVE RejectedInv'
  BY <1>25, Background
<1>26. CASE UNCHANGED vars
  BY <1>26 DEF vars
<1>. QED
  BY <1>1, <1>2, <1>3, <1>4, <1>5, <1>6, <1>7, <1>8, <1>9, <1>10, <1>11, <1>12, <1>13, <1>14,
       <1>15, <1>16, <1>17, <1>18, <1>19, <1>20, <1>21, <1>22, <1>23, <1>24, <1>25, <1>26 DEF
       Next, ReplaceStep, CloseStep

\* Every step keeps the active generation the last promoted one.
LEMMA LatestStep ==
  ASSUME TypeOK, TargetInv, LockInv, NumberInv, UntouchedInv, PreparedInv, CandidateInv, RoleInv,
       RejectedInv, LatestInv
  PROVE  [Next]_vars => LatestInv'
<1>. USE Shape DEF Shaped, IsMap
<1>. HIDE DEF Gens, Procs, None
<1>. USE DEF LatestInv, UntouchedInv, PreparedInv, CandidateInv, LockInv, RoleInv, RejectedInv,
     NumberInv, HoldsLock, Draining, Closing, TargetInv, managerVars, hostVars, genVars,
     connVars, callVars
<1>1. ASSUME NEW p \in Replacers, ReplaceRefused(p) PROVE LatestInv'
  BY <1>1 DEF ReplaceRefused, Return
<1>2. ASSUME NEW p \in Replacers, NEW c \in Configs, ReplaceNoop(p, c) PROVE LatestInv'
  BY <1>2 DEF ReplaceNoop, Return
<1>3. ASSUME NEW p \in Replacers, NEW c \in Configs, ReplaceUnprepared(p, c) PROVE LatestInv'
  BY <1>3 DEF ReplaceUnprepared, MayPrepare, Return
<1>4. ASSUME NEW p \in Replacers, NEW c \in Configs, ReplacePrepare(p, c) PROVE LatestInv'
  BY <1>4 DEF ReplacePrepare, MayPrepare, NextNumber
<1>5. ASSUME NEW p \in Replacers, ProbePasses(p) PROVE LatestInv'
  BY <1>5 DEF ProbePasses
<1>6. ASSUME NEW p \in Replacers, ProbeFails(p) PROVE LatestInv'
  BY <1>6 DEF ProbeFails, Reject
<1>7. ASSUME NEW p \in Replacers, RecheckFails(p) PROVE LatestInv'
  BY <1>7 DEF RecheckFails, Reject
<1>8. ASSUME NEW p \in Replacers, CloseOldGate(p) PROVE LatestInv'
  BY <1>8 DEF CloseOldGate, OldGateClosed
<1>9. ASSUME NEW p \in Replacers, PromoteFirst(p) PROVE LatestInv'
  BY <1>9 DEF PromoteFirst, Install, Return, Leave
<1>10. ASSUME NEW p \in Replacers, Promote(p) PROVE LatestInv'
  BY <1>10 DEF Promote, Install
<1>11. ASSUME NEW p \in Replacers, DrainBegin(p) PROVE LatestInv'
  BY <1>11 DEF DrainBegin
<1>12. ASSUME NEW p \in Replacers, DrainShutdown(p) PROVE LatestInv'
  BY <1>12 DEF DrainShutdown, ShutdownReturns, Tracked, ShutdownExpires, CloseUpgraded
<1>13. ASSUME NEW p \in Replacers, DrainJoin(p) PROVE LatestInv'
  BY <1>13 DEF DrainJoin, TakeServeDone, JoinGivesUp, CloseUpgraded
<1>14. ASSUME NEW p \in Replacers, ReplaceReturns(p) PROVE LatestInv'
  BY <1>14 DEF ReplaceReturns, Return, Leave
<1>15. ASSUME NEW p \in Replacers, CallerCancels(p) PROVE LatestInv'
  BY <1>15 DEF CallerCancels, Expire
<1>16. ASSUME NEW p \in Replacers, DrainTimeout(p) PROVE LatestInv'
  BY <1>16 DEF DrainTimeout, Expire
<1>17. ASSUME NEW p \in Stoppers, ShutdownBegin(p) PROVE LatestInv'
  BY <1>17 DEF ShutdownBegin, Owned
<1>18. ASSUME NEW p \in Stoppers, ShutdownAgain(p) PROVE LatestInv'
  BY <1>18 DEF ShutdownAgain
<1>19. ASSUME NEW p \in Stoppers, StopDeadline(p) PROVE LatestInv'
  BY <1>19 DEF StopDeadline, Expire
<1>20. ASSUME NEW p \in Procs, NEW g \in Gens, CloseSkip(p, g) PROVE LatestInv'
  BY <1>20 DEF CloseSkip, NextToClose
<1>21. ASSUME NEW p \in Procs, NEW g \in Gens, CloseBegin(p, g) PROVE LatestInv'
  BY <1>21 DEF CloseBegin, NextToClose
<1>22. ASSUME NEW p \in Procs, CloseShutdown(p) PROVE LatestInv'
  BY <1>22 DEF CloseShutdown, ShutdownReturns, Tracked, ShutdownExpires, CloseUpgraded
<1>23. ASSUME NEW p \in Procs, CloseJoin(p) PROVE LatestInv'
  BY <1>23 DEF CloseJoin, TakeServeDone, JoinGivesUp
<1>24. ASSUME NEW p \in Procs, CloseEnd(p) PROVE LatestInv'
  BY <1>24 DEF CloseEnd, Leave
<1>25. ASSUME NEW g \in Gens, LoopStep(g) \/ ClientActs(g) PROVE LatestInv'
  BY <1>25, Background
<1>26. CASE UNCHANGED vars
  BY <1>26 DEF vars
<1>. QED
  BY <1>1, <1>2, <1>3, <1>4, <1>5, <1>6, <1>7, <1>8, <1>9, <1>10, <1>11, <1>12, <1>13, <1>14,
       <1>15, <1>16, <1>17, <1>18, <1>19, <1>20, <1>21, <1>22, <1>23, <1>24, <1>25, <1>26 DEF
       Next, ReplaceStep, CloseStep

\* Every step keeps what a drain has released.
LEMMA DrainStep ==
  ASSUME TypeOK, TargetInv, LockInv, UntouchedInv, PreparedInv, CandidateInv, RoleInv, DrainInv
  PROVE  [Next]_vars => DrainInv'
<1>. USE Shape DEF Shaped, IsMap
<1>. HIDE DEF Gens, Procs, None
<1>. USE DEF DrainInv, Tracked, UntouchedInv, PreparedInv, CandidateInv, LockInv, RoleInv,
     HoldsLock,
     AppliedMeansRetired, Draining, Closing, TargetInv, managerVars, hostVars, genVars, connVars,
     callVars
<1>1. ASSUME NEW p \in Replacers, ReplaceRefused(p) PROVE DrainInv'
  BY <1>1 DEF ReplaceRefused, Return
<1>2. ASSUME NEW p \in Replacers, NEW c \in Configs, ReplaceNoop(p, c) PROVE DrainInv'
  BY <1>2 DEF ReplaceNoop, Return
<1>3. ASSUME NEW p \in Replacers, NEW c \in Configs, ReplaceUnprepared(p, c) PROVE DrainInv'
  BY <1>3 DEF ReplaceUnprepared, MayPrepare, Return
<1>4. ASSUME NEW p \in Replacers, NEW c \in Configs, ReplacePrepare(p, c) PROVE DrainInv'
  BY <1>4 DEF ReplacePrepare, MayPrepare, NextNumber
<1>5. ASSUME NEW p \in Replacers, ProbePasses(p) PROVE DrainInv'
  BY <1>5 DEF ProbePasses
<1>6. ASSUME NEW p \in Replacers, ProbeFails(p) PROVE DrainInv'
  BY <1>6 DEF ProbeFails, Reject
<1>7. ASSUME NEW p \in Replacers, RecheckFails(p) PROVE DrainInv'
  BY <1>7 DEF RecheckFails, Reject
<1>8. ASSUME NEW p \in Replacers, CloseOldGate(p) PROVE DrainInv'
  BY <1>8 DEF CloseOldGate, OldGateClosed
<1>9. ASSUME NEW p \in Replacers, PromoteFirst(p) PROVE DrainInv'
  BY <1>9 DEF PromoteFirst, Install, Return, Leave
<1>10. ASSUME NEW p \in Replacers, Promote(p) PROVE DrainInv'
  BY <1>10 DEF Promote, Install
<1>11. ASSUME NEW p \in Replacers, DrainBegin(p) PROVE DrainInv'
  BY <1>11 DEF DrainBegin
<1>12. ASSUME NEW p \in Replacers, DrainShutdown(p) PROVE DrainInv'
  <2>1. target[p] \in Gens
    BY <1>12 DEF DrainShutdown
  <2>2. ~Tracked(target[p])' /\ \A g \in Gens : Tracked(g)' => Tracked(g)
    BY <1>12, <2>1 DEF DrainShutdown, ShutdownReturns, ShutdownExpires
  <2>3. pc[p] = "drainShutdown"
    BY <1>12 DEF DrainShutdown
  <2>4. pc' = [pc EXCEPT ![p] = "drainJoin"] /\ \A q \in Procs : q # p => failed'[q] = failed[q]
    BY <1>12 DEF DrainShutdown, ShutdownReturns, Tracked, ShutdownExpires
  <2>5. UNCHANGED <<target, result, listening, loop, serveDone, retired>>
    BY <1>12 DEF DrainShutdown
  <2>. QED
    BY <2>1, <2>2, <2>4, <2>5, <2>3
<1>13. ASSUME NEW p \in Replacers, DrainJoin(p) PROVE DrainInv'
  <2>1. target[p] \in Gens
    BY <1>13 DEF DrainJoin
  <2>2. CASE TakeServeDone(p)
    <3>1. serveDone[target[p]] \in {"nil", "error"}
      BY <2>1, <2>2 DEF TakeServeDone, TypeOK, GenerationTypes
    <3>2. failed'[p] = FALSE => serveDone[target[p]] = "nil"
      BY <1>13, <2>2, <3>1 DEF TakeServeDone
    <3>3. /\ pc[p] = "drainJoin" /\ pc' = [pc EXCEPT ![p] = "drained"]
          /\ retired' = [retired EXCEPT ![target[p]] = TRUE]
          /\ UNCHANGED <<target, result, listening, loop, conn, cut>>
      BY <1>13 DEF DrainJoin
    <3>4. /\ \A q \in Procs : q # p => failed'[q] = failed[q]
          /\ serveDone' = [serveDone EXCEPT ![target[p]] = "empty"]
      BY <1>13, <2>2 DEF TakeServeDone
    <3>. QED
      BY <2>1, <3>2, <3>3, <3>4
  <2>3. CASE JoinGivesUp(p)
    BY <1>13, <2>1, <2>3 DEF DrainJoin, JoinGivesUp
  <2>. QED
    BY <1>13, <2>2, <2>3 DEF DrainJoin
<1>14. ASSUME NEW p \in Replacers, ReplaceReturns(p) PROVE DrainInv'
  BY <1>14 DEF ReplaceReturns, Return, Leave
<1>15. ASSUME NEW p \in Replacers, CallerCancels(p) PROVE DrainInv'
  BY <1>15 DEF CallerCancels, Expire
<1>16. ASSUME NEW p \in Replacers, DrainTimeout(p) PROVE DrainInv'
  BY <1>16 DEF DrainTimeout, Expire
<1>17. ASSUME NEW p \in Stoppers, ShutdownBegin(p) PROVE DrainInv'
  BY <1>17 DEF ShutdownBegin, Owned
<1>18. ASSUME NEW p \in Stoppers, ShutdownAgain(p) PROVE DrainInv'
  BY <1>18 DEF ShutdownAgain
<1>19. ASSUME NEW p \in Stoppers, StopDeadline(p) PROVE DrainInv'
  BY <1>19 DEF StopDeadline, Expire
<1>20. ASSUME NEW p \in Procs, NEW g \in Gens, CloseSkip(p, g) PROVE DrainInv'
  BY <1>20 DEF CloseSkip, NextToClose
<1>21. ASSUME NEW p \in Procs, NEW g \in Gens, CloseBegin(p, g) PROVE DrainInv'
  BY <1>21 DEF CloseBegin, NextToClose
<1>22. ASSUME NEW p \in Procs, CloseShutdown(p) PROVE DrainInv'
  <2>1. target[p] \in Gens
    BY <1>22 DEF CloseShutdown
  <2>2. ~Tracked(target[p])' /\ \A g \in Gens : Tracked(g)' => Tracked(g)
    BY <1>22, <2>1 DEF CloseShutdown, ShutdownReturns, ShutdownExpires
  <2>3. pc' = [pc EXCEPT ![p] = "closeJoin"] /\ \A q \in Procs : q # p => failed'[q] = failed[q]
    BY <1>22 DEF CloseShutdown, ShutdownReturns, Tracked, ShutdownExpires
  <2>4. UNCHANGED <<target, result, listening, loop, serveDone, retired>>
    BY <1>22 DEF CloseShutdown
  <2>. QED
    BY <1>22, <2>1, <2>2, <2>3, <2>4
<1>23. ASSUME NEW p \in Procs, CloseJoin(p) PROVE DrainInv'
  BY <1>23 DEF CloseJoin, TakeServeDone, JoinGivesUp
<1>24. ASSUME NEW p \in Procs, CloseEnd(p) PROVE DrainInv'
  BY <1>24 DEF CloseEnd, Leave
<1>25. ASSUME NEW g \in Gens, ServeFails(g) PROVE DrainInv'
  BY <1>25 DEF ServeFails
<1>26. ASSUME NEW g \in Gens, ServeStops(g) PROVE DrainInv'
  BY <1>26 DEF ServeStops
<1>27. ASSUME NEW g \in Gens, ReportFailure(g) PROVE DrainInv'
  BY <1>27 DEF ReportFailure, LoopExits
<1>28. ASSUME NEW g \in Gens, SwallowFailure(g) PROVE DrainInv'
  BY <1>28 DEF SwallowFailure, LoopExits
<1>29. ASSUME NEW g \in Gens, Connect(g) PROVE DrainInv'
  BY <1>29 DEF Connect, ClientStep, Moves
<1>30. ASSUME NEW g \in Gens, EnterGate(g) PROVE DrainInv'
  BY <1>30 DEF EnterGate, ClientStep, Moves
<1>31. ASSUME NEW g \in Gens, PassGate(g) PROVE DrainInv'
  BY <1>31 DEF PassGate, ClientStep, Moves
<1>32. ASSUME NEW g \in Gens, Respond(g) PROVE DrainInv'
  BY <1>32 DEF Respond, ClientStep, Moves
<1>33. ASSUME NEW g \in Gens, Hijack(g) PROVE DrainInv'
  BY <1>33 DEF Hijack, Moves
<1>34. ASSUME NEW g \in Gens, HangUp(g) PROVE DrainInv'
  BY <1>34 DEF HangUp, Upgraded
<1>35. ASSUME NEW g \in Gens, ReadFails(g) PROVE DrainInv'
  BY <1>35 DEF ReadFails, ClientStep, Moves
<1>36. ASSUME NEW g \in Gens, StoreHijacked(g) PROVE DrainInv'
  BY <1>36 DEF StoreHijacked, Upgraded
<1>37. ASSUME NEW g \in Gens, DetachedReturns(g) PROVE DrainInv'
  BY <1>37 DEF DetachedReturns, ClientStep, Moves
<1>38. CASE UNCHANGED vars
  BY <1>38 DEF vars
<1>. QED
  BY <1>1, <1>2, <1>3, <1>4, <1>5, <1>6, <1>7, <1>8, <1>9, <1>10, <1>11, <1>12, <1>13, <1>14,
       <1>15, <1>16, <1>17, <1>18, <1>19, <1>20, <1>21, <1>22, <1>23, <1>24, <1>25, <1>26, <1>27,
       <1>28, <1>29, <1>30, <1>31, <1>32, <1>33, <1>34, <1>35, <1>36, <1>37, <1>38
     DEF Next, ReplaceStep, CloseStep,
       LoopStep, ClientActs

\* Every step keeps the promoted generations on the list of the Shutdown call, or released.
LEMMA ReleaseStep ==
  ASSUME TypeOK, TargetInv, LockInv, NumberInv, ReplacedIsTracked, UntouchedInv, PreparedInv,
       CandidateInv, RoleInv, RejectedInv, LatestInv, DrainInv, ReleaseInv
  PROVE  [Next]_vars => ReleaseInv'
<1>. USE Shape DEF Shaped, IsMap
<1>. HIDE DEF Gens, Procs, None
<1>. USE DEF ReleaseInv, Tracked, ClosedSoon, UntouchedInv, PreparedInv, CandidateInv, LockInv,
     RoleInv,
     RejectedInv, LatestInv, DrainInv, ReplacedIsTracked, HoldsLock, Draining, Closing,
     TargetInv, managerVars, hostVars, genVars, connVars, callVars
<1>1. ASSUME NEW p \in Replacers, ReplaceRefused(p) PROVE ReleaseInv'
  BY <1>1 DEF ReplaceRefused, Return
<1>2. ASSUME NEW p \in Replacers, NEW c \in Configs, ReplaceNoop(p, c) PROVE ReleaseInv'
  BY <1>2 DEF ReplaceNoop, Return
<1>3. ASSUME NEW p \in Replacers, NEW c \in Configs, ReplaceUnprepared(p, c) PROVE ReleaseInv'
  BY <1>3 DEF ReplaceUnprepared, MayPrepare, Return
<1>4. ASSUME NEW p \in Replacers, NEW c \in Configs, ReplacePrepare(p, c) PROVE ReleaseInv'
  BY <1>4 DEF ReplacePrepare, MayPrepare, NextNumber
<1>5. ASSUME NEW p \in Replacers, ProbePasses(p) PROVE ReleaseInv'
  BY <1>5 DEF ProbePasses
<1>6. ASSUME NEW p \in Replacers, ProbeFails(p) PROVE ReleaseInv'
  BY <1>6 DEF ProbeFails, Reject
<1>7. ASSUME NEW p \in Replacers, RecheckFails(p) PROVE ReleaseInv'
  BY <1>7 DEF RecheckFails, Reject
<1>8. ASSUME NEW p \in Replacers, CloseOldGate(p) PROVE ReleaseInv'
  BY <1>8 DEF CloseOldGate, OldGateClosed
<1>9. ASSUME NEW p \in Replacers, PromoteFirst(p) PROVE ReleaseInv'
  BY <1>9 DEF PromoteFirst, Install, Return, Leave
<1>10. ASSUME NEW p \in Replacers, Promote(p) PROVE ReleaseInv'
  BY <1>10 DEF Promote, Install
<1>11. ASSUME NEW p \in Replacers, DrainBegin(p) PROVE ReleaseInv'
  BY <1>11 DEF DrainBegin
<1>12. ASSUME NEW p \in Replacers, DrainShutdown(p) PROVE ReleaseInv'
  BY <1>12 DEF DrainShutdown, ShutdownReturns, Tracked, ShutdownExpires, CloseUpgraded
<1>13. ASSUME NEW p \in Replacers, DrainJoin(p) PROVE ReleaseInv'
  BY <1>13 DEF DrainJoin, TakeServeDone, JoinGivesUp, CloseUpgraded
<1>14. ASSUME NEW p \in Replacers, ReplaceReturns(p) PROVE ReleaseInv'
  BY <1>14 DEF ReplaceReturns, Return, Leave
<1>15. ASSUME NEW p \in Replacers, CallerCancels(p) PROVE ReleaseInv'
  BY <1>15 DEF CallerCancels, Expire
<1>16. ASSUME NEW p \in Replacers, DrainTimeout(p) PROVE ReleaseInv'
  BY <1>16 DEF DrainTimeout, Expire
<1>17. ASSUME NEW p \in Stoppers, ShutdownBegin(p) PROVE ReleaseInv'
  BY <1>17 DEF ShutdownBegin, Owned
<1>18. ASSUME NEW p \in Stoppers, ShutdownAgain(p) PROVE ReleaseInv'
  BY <1>18 DEF ShutdownAgain
<1>19. ASSUME NEW p \in Stoppers, StopDeadline(p) PROVE ReleaseInv'
  BY <1>19 DEF StopDeadline, Expire
<1>20. ASSUME NEW p \in Procs, NEW g \in Gens, CloseSkip(p, g) PROVE ReleaseInv'
  BY <1>20 DEF CloseSkip, NextToClose
<1>21. ASSUME NEW p \in Procs, NEW g \in Gens, CloseBegin(p, g) PROVE ReleaseInv'
  BY <1>21 DEF CloseBegin, NextToClose
<1>22. ASSUME NEW p \in Procs, CloseShutdown(p) PROVE ReleaseInv'
  BY <1>22 DEF CloseShutdown, ShutdownReturns, Tracked, ShutdownExpires, CloseUpgraded
<1>23. ASSUME NEW p \in Procs, CloseJoin(p) PROVE ReleaseInv'
  BY <1>23 DEF CloseJoin, TakeServeDone, JoinGivesUp
<1>24. ASSUME NEW p \in Procs, CloseEnd(p) PROVE ReleaseInv'
  BY <1>24 DEF CloseEnd, Leave
<1>25. ASSUME NEW g \in Gens, ServeFails(g) PROVE ReleaseInv'
  BY <1>25 DEF ServeFails
<1>26. ASSUME NEW g \in Gens, ServeStops(g) PROVE ReleaseInv'
  BY <1>26 DEF ServeStops
<1>27. ASSUME NEW g \in Gens, ReportFailure(g) PROVE ReleaseInv'
  BY <1>27 DEF ReportFailure, LoopExits
<1>28. ASSUME NEW g \in Gens, SwallowFailure(g) PROVE ReleaseInv'
  BY <1>28 DEF SwallowFailure, LoopExits
<1>29. ASSUME NEW g \in Gens, Connect(g) PROVE ReleaseInv'
  BY <1>29 DEF Connect, ClientStep, Moves
<1>30. ASSUME NEW g \in Gens, EnterGate(g) PROVE ReleaseInv'
  BY <1>30 DEF EnterGate, ClientStep, Moves
<1>31. ASSUME NEW g \in Gens, PassGate(g) PROVE ReleaseInv'
  BY <1>31 DEF PassGate, ClientStep, Moves
<1>32. ASSUME NEW g \in Gens, Respond(g) PROVE ReleaseInv'
  BY <1>32 DEF Respond, ClientStep, Moves
<1>33. ASSUME NEW g \in Gens, Hijack(g) PROVE ReleaseInv'
  BY <1>33 DEF Hijack, Moves
<1>34. ASSUME NEW g \in Gens, HangUp(g) PROVE ReleaseInv'
  BY <1>34 DEF HangUp, Upgraded
<1>35. ASSUME NEW g \in Gens, ReadFails(g) PROVE ReleaseInv'
  BY <1>35 DEF ReadFails, ClientStep, Moves
<1>36. ASSUME NEW g \in Gens, StoreHijacked(g) PROVE ReleaseInv'
  BY <1>36 DEF StoreHijacked, Upgraded
<1>37. ASSUME NEW g \in Gens, DetachedReturns(g) PROVE ReleaseInv'
  BY <1>37 DEF DetachedReturns, ClientStep, Moves
<1>38. CASE UNCHANGED vars
  BY <1>38 DEF vars
<1>. QED
  BY <1>1, <1>2, <1>3, <1>4, <1>5, <1>6, <1>7, <1>8, <1>9, <1>10, <1>11, <1>12, <1>13, <1>14,
       <1>15, <1>16, <1>17, <1>18, <1>19, <1>20, <1>21, <1>22, <1>23, <1>24, <1>25, <1>26, <1>27,
       <1>28, <1>29, <1>30, <1>31, <1>32, <1>33, <1>34, <1>35, <1>36, <1>37, <1>38
     DEF Next, ReplaceStep, CloseStep,
       LoopStep, ClientActs

\* What a sweep leaves of the generation it is for, and of the others.
LEMMA Sweeps ==
  ASSUME TypeOK, NEW p \in Procs, target[p] \in Gens, CloseUpgraded(p) \/ UNCHANGED <<hijacked, sweep>>
  PROVE  /\ \A g \in Gens : sweep'[g] = "never" => sweep[g] = "never"
         /\ \A g \in Gens : sweep'[g] = "clean" /\ hijacked'[g] # "none" =>
              sweep[g] = "clean" /\ hijacked[g] # "none"
         /\ \A g \in Gens : g # target[p] => sweep'[g] = sweep[g]
         /\ CloseUpgraded(p) /\ force[p] => sweep'[target[p]] # "never"
<1>. USE DEF TypeOK, GenerationTypes
<1>1. ASSUME UNCHANGED <<hijacked, sweep>>, ~(CloseUpgraded(p) /\ force[p])
      PROVE  \A g \in Gens : sweep'[g] = "clean" /\ hijacked'[g] # "none" =>
               sweep[g] = "clean" /\ hijacked[g] # "none"
  BY <1>1
<1>2. CASE CloseUpgraded(p) /\ force[p]
  <2>1. /\ hijacked' = [hijacked EXCEPT ![target[p]] = IF @ = "stored" THEN "none" ELSE @]
        /\ sweep' = [sweep EXCEPT ![target[p]] =
                       IF hijacked[target[p]] = "leaving" THEN "missed" ELSE "clean"]
    BY <1>2 DEF CloseUpgraded
  <2>2. \A g \in Gens : g # target[p] => sweep'[g] = sweep[g] /\ hijacked'[g] = hijacked[g]
    BY <2>1
  <2>3. sweep'[target[p]] = IF hijacked[target[p]] = "leaving" THEN "missed" ELSE "clean"
    BY <2>1
  <2>4. hijacked'[target[p]] =
          IF hijacked[target[p]] = "stored" THEN "none" ELSE hijacked[target[p]]
    BY <2>1
  <2>5. hijacked[target[p]] \in {"none", "leaving", "stored"}
    OBVIOUS
  <2>6. sweep'[target[p]] = "clean" => hijacked'[target[p]] = "none"
    BY <2>3, <2>4, <2>5
  <2>7. sweep'[target[p]] # "never"
    BY <2>3
  <2>. QED
    BY <2>2, <2>6, <2>7
<1>. QED
  BY <1>1, <1>2 DEF CloseUpgraded

\* Every step leaves an upgraded connection only where no sweep has been or one missed it.
LEMMA UpgradedStep ==
  ASSUME TypeOK, TargetInv, LockInv, UntouchedInv, PreparedInv, CandidateInv, RoleInv,
       RejectedInv, LatestInv, DrainInv, ReleaseInv, UpgradedInv
  PROVE  [Next]_vars => UpgradedInv'
<1>. USE Shape DEF Shaped, IsMap
<1>. HIDE DEF Gens, Procs, None
<1>. USE DEF UpgradedInv, Tracked, ClosedSoon, ReleaseInv, UntouchedInv, PreparedInv, CandidateInv,
     LockInv, RoleInv, RejectedInv, LatestInv, DrainInv, HoldsLock, Draining, Closing,
     TargetInv, managerVars, hostVars, genVars, connVars, callVars
<1>1. ASSUME NEW p \in Replacers, ReplaceRefused(p) PROVE UpgradedInv'
  BY <1>1 DEF ReplaceRefused, Return
<1>2. ASSUME NEW p \in Replacers, NEW c \in Configs, ReplaceNoop(p, c) PROVE UpgradedInv'
  BY <1>2 DEF ReplaceNoop, Return
<1>3. ASSUME NEW p \in Replacers, NEW c \in Configs, ReplaceUnprepared(p, c) PROVE UpgradedInv'
  BY <1>3 DEF ReplaceUnprepared, MayPrepare, Return
<1>4. ASSUME NEW p \in Replacers, NEW c \in Configs, ReplacePrepare(p, c) PROVE UpgradedInv'
  BY <1>4 DEF ReplacePrepare, MayPrepare, NextNumber
<1>5. ASSUME NEW p \in Replacers, ProbePasses(p) PROVE UpgradedInv'
  BY <1>5 DEF ProbePasses
<1>6. ASSUME NEW p \in Replacers, ProbeFails(p) PROVE UpgradedInv'
  BY <1>6 DEF ProbeFails, Reject
<1>7. ASSUME NEW p \in Replacers, RecheckFails(p) PROVE UpgradedInv'
  BY <1>7 DEF RecheckFails, Reject
<1>8. ASSUME NEW p \in Replacers, CloseOldGate(p) PROVE UpgradedInv'
  BY <1>8 DEF CloseOldGate, OldGateClosed
<1>9. ASSUME NEW p \in Replacers, PromoteFirst(p) PROVE UpgradedInv'
  BY <1>9 DEF PromoteFirst, Install, Return, Leave
<1>10. ASSUME NEW p \in Replacers, Promote(p) PROVE UpgradedInv'
  BY <1>10 DEF Promote, Install
<1>11. ASSUME NEW p \in Replacers, DrainBegin(p) PROVE UpgradedInv'
  BY <1>11 DEF DrainBegin
<1>12. ASSUME NEW p \in Replacers, DrainShutdown(p) PROVE UpgradedInv'
  <2>1. /\ target[p] \in Gens /\ pc[p] = "drainShutdown"
        /\ UNCHANGED <<target, listening, promoted, retired, genConfig, force>>
    BY <1>12 DEF DrainShutdown
  <2>2. pc' = [pc EXCEPT ![p] = "drainJoin"]
    BY <1>12 DEF DrainShutdown
  <2>3. ~Tracked(target[p])' /\ \A g \in Gens : Tracked(g)' => Tracked(g)
    BY <1>12, <2>1 DEF DrainShutdown, ShutdownReturns, ShutdownExpires
  <2>4. CloseUpgraded(p) \/ UNCHANGED <<hijacked, sweep>>
    BY <1>12 DEF DrainShutdown
  <2>5. /\ \A g \in Gens : sweep'[g] = "never" => sweep[g] = "never"
        /\ \A g \in Gens : sweep'[g] = "clean" /\ hijacked'[g] # "none" =>
             sweep[g] = "clean" /\ hijacked[g] # "none"
        /\ \A g \in Gens : g # target[p] => sweep'[g] = sweep[g]
    BY <2>1, <2>4, Sweeps
  <2>6. ~listening[target[p]]
    BY <2>1
  <2>. HIDE DEF Tracked
  <2>. QED
    BY <2>1, <2>2, <2>3, <2>5, <2>6
<1>13. ASSUME NEW p \in Replacers, DrainJoin(p) PROVE UpgradedInv'
  <2>1. /\ target[p] \in Gens /\ pc[p] = "drainJoin"
        /\ UNCHANGED <<target, listening, promoted, genConfig, force, conn, cut>>
    BY <1>13 DEF DrainJoin
  <2>2. pc' = [pc EXCEPT ![p] = "drained"] /\ retired' = [retired EXCEPT ![target[p]] = TRUE]
    BY <1>13 DEF DrainJoin
  <2>3. \A g \in Gens : Tracked(g)' <=> Tracked(g)
    BY <2>1
  <2>4. CloseUpgraded(p) \/ UNCHANGED <<hijacked, sweep>>
    BY <1>13 DEF DrainJoin
  <2>5. /\ \A g \in Gens : sweep'[g] = "never" => sweep[g] = "never"
        /\ \A g \in Gens : sweep'[g] = "clean" /\ hijacked'[g] # "none" =>
             sweep[g] = "clean" /\ hijacked[g] # "none"
        /\ \A g \in Gens : g # target[p] => sweep'[g] = sweep[g]
    BY <2>1, <2>4, Sweeps
  <2>6. ~listening[target[p]] /\ ~Tracked(target[p])
    BY <2>1
  <2>7. PICK h \in Gens : h > target[p] /\ promoted[h]
    BY <2>1
  <2>. HIDE DEF Tracked
  <2>. QED
    BY <2>1, <2>2, <2>3, <2>5, <2>6, <2>7
<1>14. ASSUME NEW p \in Replacers, ReplaceReturns(p) PROVE UpgradedInv'
  BY <1>14 DEF ReplaceReturns, Return, Leave
<1>15. ASSUME NEW p \in Replacers, CallerCancels(p) PROVE UpgradedInv'
  BY <1>15 DEF CallerCancels, Expire
<1>16. ASSUME NEW p \in Replacers, DrainTimeout(p) PROVE UpgradedInv'
  BY <1>16 DEF DrainTimeout, Expire
<1>17. ASSUME NEW p \in Stoppers, ShutdownBegin(p) PROVE UpgradedInv'
  BY <1>17 DEF ShutdownBegin, Owned
<1>18. ASSUME NEW p \in Stoppers, ShutdownAgain(p) PROVE UpgradedInv'
  BY <1>18 DEF ShutdownAgain
<1>19. ASSUME NEW p \in Stoppers, StopDeadline(p) PROVE UpgradedInv'
  BY <1>19 DEF StopDeadline, Expire
<1>20. ASSUME NEW p \in Procs, NEW g \in Gens, CloseSkip(p, g) PROVE UpgradedInv'
  BY <1>20 DEF CloseSkip, NextToClose
<1>21. ASSUME NEW p \in Procs, NEW g \in Gens, CloseBegin(p, g) PROVE UpgradedInv'
  BY <1>21 DEF CloseBegin, NextToClose
<1>22. ASSUME NEW p \in Procs, CloseShutdown(p) PROVE UpgradedInv'
  <2>1. /\ target[p] \in Gens /\ pc[p] = "closeShutdown" /\ CloseUpgraded(p)
        /\ UNCHANGED <<target, listening, promoted, retired, genConfig, force>>
    BY <1>22 DEF CloseShutdown
  <2>2. pc' = [pc EXCEPT ![p] = "closeJoin"]
    BY <1>22 DEF CloseShutdown
  <2>3. ~Tracked(target[p])' /\ \A g \in Gens : Tracked(g)' => Tracked(g)
    BY <1>22, <2>1 DEF CloseShutdown, ShutdownReturns, ShutdownExpires
  <2>4. /\ \A g \in Gens : sweep'[g] = "never" => sweep[g] = "never"
        /\ \A g \in Gens : sweep'[g] = "clean" /\ hijacked'[g] # "none" =>
             sweep[g] = "clean" /\ hijacked[g] # "none"
        /\ \A g \in Gens : g # target[p] => sweep'[g] = sweep[g]
        /\ force[p] => sweep'[target[p]] # "never"
    BY <2>1, Sweeps
  <2>. HIDE DEF Tracked
  <2>. QED
    BY <2>1, <2>2, <2>3, <2>4
<1>23. ASSUME NEW p \in Procs, CloseJoin(p) PROVE UpgradedInv'
  BY <1>23 DEF CloseJoin, TakeServeDone, JoinGivesUp
<1>24. ASSUME NEW p \in Procs, CloseEnd(p) PROVE UpgradedInv'
  BY <1>24 DEF CloseEnd, Leave
<1>25. ASSUME NEW g \in Gens, ServeFails(g) PROVE UpgradedInv'
  BY <1>25 DEF ServeFails
<1>26. ASSUME NEW g \in Gens, ServeStops(g) PROVE UpgradedInv'
  BY <1>26 DEF ServeStops
<1>27. ASSUME NEW g \in Gens, ReportFailure(g) PROVE UpgradedInv'
  BY <1>27 DEF ReportFailure, LoopExits
<1>28. ASSUME NEW g \in Gens, SwallowFailure(g) PROVE UpgradedInv'
  BY <1>28 DEF SwallowFailure, LoopExits
<1>29. ASSUME NEW g \in Gens, Connect(g) PROVE UpgradedInv'
  BY <1>29 DEF Connect, ClientStep, Moves
<1>30. ASSUME NEW g \in Gens, EnterGate(g) PROVE UpgradedInv'
  BY <1>30 DEF EnterGate, ClientStep, Moves
<1>31. ASSUME NEW g \in Gens, PassGate(g) PROVE UpgradedInv'
  BY <1>31 DEF PassGate, ClientStep, Moves
<1>32. ASSUME NEW g \in Gens, Respond(g) PROVE UpgradedInv'
  BY <1>32 DEF Respond, ClientStep, Moves
<1>33. ASSUME NEW g \in Gens, Hijack(g) PROVE UpgradedInv'
  BY <1>33 DEF Hijack, Moves
<1>34. ASSUME NEW g \in Gens, HangUp(g) PROVE UpgradedInv'
  BY <1>34 DEF HangUp, Upgraded
<1>35. ASSUME NEW g \in Gens, ReadFails(g) PROVE UpgradedInv'
  BY <1>35 DEF ReadFails, ClientStep, Moves
<1>36. ASSUME NEW g \in Gens, StoreHijacked(g) PROVE UpgradedInv'
  BY <1>36 DEF StoreHijacked, Upgraded
<1>37. ASSUME NEW g \in Gens, DetachedReturns(g) PROVE UpgradedInv'
  BY <1>37 DEF DetachedReturns, ClientStep, Moves
<1>38. CASE UNCHANGED vars
  BY <1>38 DEF vars
<1>. QED
  BY <1>1, <1>2, <1>3, <1>4, <1>5, <1>6, <1>7, <1>8, <1>9, <1>10, <1>11, <1>12, <1>13, <1>14,
       <1>15, <1>16, <1>17, <1>18, <1>19, <1>20, <1>21, <1>22, <1>23, <1>24, <1>25, <1>26, <1>27,
       <1>28, <1>29, <1>30, <1>31, <1>32, <1>33, <1>34, <1>35, <1>36, <1>37, <1>38
     DEF Next, ReplaceStep, CloseStep,
       LoopStep, ClientActs

\* Nothing is prepared yet.
LEMMA ReleasesInit == NewManager => Releases
<1>. SUFFICES ASSUME NewManager PROVE Releases
  OBVIOUS
<1>. USE ProcsAssumption, BoundsAssumption DEF NewManager
<1>1. UntouchedInv /\ PreparedInv /\ CandidateInv
  BY DEF UntouchedInv, PreparedInv, CandidateInv
<1>2. RoleInv /\ RejectedInv
  BY DEF RoleInv, RejectedInv, Closing
<1>3. LatestInv /\ DrainInv
  BY DEF LatestInv, Draining, DrainInv, AppliedMeansRetired, Tracked
<1>4. ReleaseInv /\ UpgradedInv
  BY DEF ReleaseInv, UpgradedInv, Tracked
<1>. QED
  BY <1>1, <1>2, <1>3, <1>4 DEF Releases

\* Every step keeps what was released.
LEMMA ReleasesStep == Inductive /\ Releases /\ [Next]_vars => Releases'
<1>. SUFFICES ASSUME Inductive, Releases, [Next]_vars PROVE Releases'
  OBVIOUS
<1>. USE DEF Inductive, Releases
<1>1. UntouchedInv' /\ PreparedInv' /\ CandidateInv'
  BY UntouchedStep, PreparedStep, CandidateStep
<1>2. RoleInv' /\ RejectedInv'
  BY RoleStep, RejectedStep
<1>3. LatestInv' /\ DrainInv'
  BY LatestStep, DrainStep
<1>4. ReleaseInv' /\ UpgradedInv'
  BY ReleaseStep, UpgradedStep
<1>. QED
  BY <1>1, <1>2, <1>3, <1>4

-----------------------------------------------------------------------------
\* The inductive invariant holds of a new manager, whether the admission it reads is
\* open already or not.
LEMMA InductiveInit == NewManager /\ admission \in BOOLEAN => Inductive
<1>. SUFFICES ASSUME NewManager, admission \in BOOLEAN PROVE Inductive
  OBVIOUS
<1>. USE ProcsAssumption, ConfigsAssumption, BoundsAssumption DEF NewManager
<1>1. TypeOK
  <2>1. ManagerTypes
    <3>1. closed \in BOOLEAN
      OBVIOUS
    <3>2. admission \in BOOLEAN
      OBVIOUS
    <3>. QED
      BY <3>1, <3>2 DEF ManagerTypes
  <2>2. GenerationTypes
    BY DEF GenerationTypes
  <2>3. CallTypes
    BY DEF CallTypes
  <2>. QED
    BY <2>1, <2>2, <2>3 DEF TypeOK
<1>2. LockInv /\ NumberInv
  BY DEF LockInv, HoldsLock, NumberInv
<1>3. TargetInv /\ GateInv
  BY DEF TargetInv, GateInv
<1>4. OnlyActiveAdmits /\ ReplacedIsTracked /\ WorkOnlyOnPromoted
  BY DEF OnlyActiveAdmits, ReplacedIsTracked, WorkOnlyOnPromoted
<1>5. DrainingBounded
  BY FS_EmptySet DEF DrainingBounded
<1>. QED
  BY <1>1, <1>2, <1>3, <1>4, <1>5 DEF Inductive

\* Every step keeps the inductive invariant.
LEMMA InductiveStep == Inductive /\ [Next]_vars => Inductive'
<1>. SUFFICES ASSUME Inductive, [Next]_vars PROVE Inductive'
  OBVIOUS
<1>. USE DEF Inductive
<1>1. TypeOK' /\ TargetInv'
  BY TypeStep, TargetStep
<1>2. LockInv' /\ NumberInv'
  BY LockStep, NumberStep
<1>3. GateInv' /\ OnlyActiveAdmits'
  BY GateStep, AdmitStep
<1>4. ReplacedIsTracked' /\ DrainingBounded' /\ WorkOnlyOnPromoted'
  BY TrackStep, BoundStep, WorkStep
<1>. QED
  BY <1>1, <1>2, <1>3, <1>4

\* The manager's fields, the lock and the calls stay related as Replace and
\* Shutdown rely on: the inductive invariant holds in every behaviour.
THEOREM InductiveCorrect == Spec => []Inductive
<1>1. Init => Inductive
  BY InductiveInit DEF Init
<1>. QED
  BY <1>1, InductiveStep, PTL DEF Spec

\* The types hold for every number of callers and generations.
THEOREM TypeCorrect == Spec => []TypeOK
<1>1. Inductive => TypeOK
  BY DEF Inductive
<1>. QED
  BY <1>1, InductiveCorrect, PTL

\* However Replace, Shutdown, serve failures and timeouts interleave, no
\* generation but the active one admits requests while the manager is open.
THEOREM AdmissionCorrect == Spec => []OnlyActiveAdmits
<1>1. Inductive => OnlyActiveAdmits
  BY DEF Inductive
<1>. QED
  BY <1>1, InductiveCorrect, PTL

\* MaxDrainingGenerations bounds the draining set for every value of the limit
\* and every number of concurrent Replace calls.
THEOREM DrainingCorrect == Spec => []DrainingBounded
<1>1. Inductive => DrainingBounded
  BY DEF Inductive
<1>. QED
  BY <1>1, InductiveCorrect, PTL

\* A closed manager has no generation to lock, drain or serve with.
LEMMA FinalWhenClosed == Inductive => ClosedIsFinal
<1>. SUFFICES ASSUME Inductive, closed PROVE active = None /\ candidates = {} /\ draining = {}
  BY DEF ClosedIsFinal
<1>. USE DEF Inductive, TypeOK, ManagerTypes
<1>1. active = None
  BY DEF NumberInv
<1>2. draining = {}
  BY <1>1 DEF NumberInv
<1>3. mu = NoProc
  BY DEF LockInv
<1>4. candidates = {}
  BY <1>3 DEF LockInv
<1>. QED
  BY <1>1, <1>2, <1>4

\* A closed manager has no active, candidate or draining generation ever again.
THEOREM ClosedCorrect == Spec => []ClosedIsFinal
<1>. QED
  BY FinalWhenClosed, InductiveCorrect, PTL

\* No replaced generation is forgotten before its drain is over.
THEOREM TrackingCorrect == Spec => []ReplacedIsTracked
<1>1. Inductive => ReplacedIsTracked
  BY DEF Inductive
<1>. QED
  BY <1>1, InductiveCorrect, PTL

\* No application handler runs on a generation that was not promoted.
THEOREM WorkCorrect == Spec => []WorkOnlyOnPromoted
<1>1. Inductive => WorkOnlyOnPromoted
  BY DEF Inductive
<1>. QED
  BY <1>1, InductiveCorrect, PTL

\* Concurrent replacements take effect in the order of their numbers.
THEOREM AdvanceCorrect == Spec => ActiveAdvances
<1>1. Inductive /\ [Next]_vars => [active' # active => active' = None \/ active' > active]_vars
  BY AdvanceStep DEF Inductive
<1>. QED
  BY <1>1, InductiveCorrect, PTL DEF Spec, ActiveAdvances

\* The manager, with its locks, goroutines and timeouts, implements the abstract
\* transition of generations.
THEOREM TransitionCorrect == Spec => ImplementsTransition
<1>1. Init => Transition!Init
  BY DEF Init, NewManager, Transition!Init
<1>2. Inductive /\ [Next]_vars => [Transition!Next]_Transition!vars
  BY TransitionStep DEF Inductive
<1>. QED
  BY <1>1, <1>2, InductiveCorrect, PTL DEF Spec, ImplementsTransition, Transition!Spec

\* Who closes which generation, and what each step of a drain or a close has
\* released, hold in every behaviour (manager.go:576-630, 697-735).
THEOREM ReleasesCorrect == Spec => []Releases
<1>1. Init => Releases
  BY ReleasesInit DEF Init
<1>. QED
  BY <1>1, ReleasesStep, InductiveCorrect, PTL DEF Spec

\* A Replace that answers without a drain failure has released the old generation,
\* whatever Shutdown closes at the same time (manager.go:403-417, 576-600).
THEOREM AppliedCorrect == Spec => []AppliedMeansRetired
<1>1. Releases => AppliedMeansRetired
  BY DEF Releases, DrainInv
<1>. QED
  BY <1>1, ReleasesCorrect, PTL

\* When the Shutdown call that stopped the manager has returned, no other is closing.
LEMMA NobodyCloses ==
  ASSUME Releases, NEW p \in Procs, pc[p] = "returned", result[p] = "stopped"
  PROVE  \A s \in Stoppers : pc[s] \notin Closing
<1>. SUFFICES ASSUME NEW s \in Stoppers, pc[s] \in Closing PROVE FALSE
  OBVIOUS
<1>1. closed /\ p \in Stoppers /\ s \in Procs
  BY ProcsAssumption DEF Releases, RoleInv
<1>2. result[s] = "stopped"
  BY DEF Releases, RoleInv
<1>3. s = p
  BY <1>1, <1>2 DEF Releases, RoleInv
<1>. QED
  BY <1>3 DEF Closing

\* Once the Shutdown call has returned, nobody is left that still has to close.
LEMMA ReleasedAtReturn == Releases => ShutdownReleases
<1>. SUFFICES ASSUME Releases, NEW p \in Procs, pc[p] = "returned", result[p] = "stopped",
                     NEW g \in Gens, promoted[g]
              PROVE  ~listening[g] /\ ~Tracked(g)
  BY DEF ShutdownReleases
<1>1. closed
  BY DEF Releases, RoleInv
<1>2. \A s \in Stoppers : pc[s] \notin Closing
  BY NobodyCloses
<1>3. retired[g]
  BY <1>1, <1>2 DEF Releases, ReleaseInv
<1>4. ~ClosedSoon(g)
  BY <1>2 DEF ClosedSoon, Closing
<1>. QED
  BY <1>3, <1>4 DEF Releases, ReleaseInv

\* The Shutdown call that stopped the manager returns when no generation that ever
\* served the public listens or holds an ordinary connection (manager.go:697-735).
THEOREM ReleaseCorrect == Spec => []ShutdownReleases
<1>. QED
  BY ReleasedAtReturn, ReleasesCorrect, PTL

\* The same of upgraded connections: a sweep that missed nothing left none, and only a
\* generation that was replaced can have gone without one.
LEMMA UpgradedAtReturn == Inductive /\ Releases => ShutdownClosesUpgraded
<1>. SUFFICES ASSUME Inductive, Releases,
                     NEW p \in Procs, pc[p] = "returned", result[p] = "stopped",
                     NEW g \in Gens, ForceClose[genConfig[g]], hijacked[g] # "none",
                     sweep[g] # "missed"
              PROVE  sweep[g] = "never" /\ \E h \in Gens : h > g /\ promoted[h]
  BY DEF ShutdownClosesUpgraded
<1>1. closed
  BY DEF Releases, RoleInv
<1>2. \A s \in Stoppers : pc[s] \notin Closing
  BY NobodyCloses
<1>3. promoted[g]
  BY DEF Inductive, WorkOnlyOnPromoted
<1>4. retired[g]
  BY <1>1, <1>2, <1>3 DEF Releases, ReleaseInv
<1>5. ~ClosedSoon(g)
  BY <1>2 DEF ClosedSoon, Closing
<1>6. sweep[g] # "clean"
  BY DEF Releases, UpgradedInv
<1>7. sweep[g] = "never"
  BY <1>6 DEF Inductive, TypeOK, GenerationTypes
<1>. QED
  BY <1>3, <1>4, <1>5, <1>7 DEF Releases, UpgradedInv

\* With ForceCloseHijacked, whatever generation it is on, an upgraded connection is left by
\* the Shutdown that stopped the manager only if closeHijacked ran while it was on its way
\* into g.hijacked, or if its generation was replaced and no drain swept it
\* (manager.go:464-470, 576-630, 697-735).
THEOREM UpgradedCorrect == Spec => []ShutdownClosesUpgraded
<1>. QED
  BY UpgradedAtReturn, InductiveCorrect, ReleasesCorrect, PTL
=============================================================================
