--------------------------- MODULE ResourcesProofs ---------------------------
(***************************************************************************)
(* Proofs about Resources, for every host, set of policies and number of   *)
(* instances: what an instance holds in which phase, from which exclusive  *)
(* use of the database and the confinement of what is composed follow.     *)
(***************************************************************************)
EXTENDS Resources, ConfinementProofs

\* The integrations that an instance with the state s has prepared.
Prepared(s) == {order[k] : k \in 1 .. s.next - 1}

\* The instance is between the ends of its Prepare and of its database.
OwnsLock(s) ==
  \/ s.phase \in Running
  \/ s.phase \in {"preparing", "restricted", "layering"} /\ "ownership" \in Prepared(s)

\* Its policy is applied.
IsApplied(s) ==
  \/ s.phase \in Running
  \/ s.phase = "preparing" /\ "security" \in Prepared(s)

\* applyPlatform runs for this instance.
Applying(s) ==
  \/ s.phase = "layering"
  \/ s.phase = "restricted" /\ s.caller = "Prepare"

\* The bookkeeping of one instance.
Booked(s) ==
  /\ s.phase \in {"off", "launched", "loading"} => s.next = 1
  /\ s.phase = "restricted" /\ s.caller = "main" => s.next = 1
  /\ s.phase \in {"preparing", "restricted", "layering"} \cup Running => s.policy # Nothing
  /\ Applying(s) => s.next <= 2 /\ order[s.next] = "security" /\ Valid(s.policy)
  /\ s.phase \in Booting \cup {"off", "composing"} => s.pool = "none"
  /\ s.pool = "open" /\ ~s.overdue => s.phase \in {"starting", "serving", "stopping"}

\* A restricted thread is in the domain of the policy, and so is the whole process that the
\* environment says was handed that policy.
HandedOff(s) ==
  /\ s.phase = "restricted" => s.domain = s.policy /\ s.scope = "thread"
  /\ s.handoff # Nothing /\ s.scope = "process" => s.domain = s.handoff

\* The whole process is in a domain with the digest of its policy.
InDomain(s) ==
  WantsLandlock(s.policy) =>
    s.scope = "process" /\ s.domain # Nothing /\ Digest(s.domain) = Digest(s.policy)

Filtered(s) ==
  WantsSeccomp(s.policy) => s.filter = s.policy /\ Known(s.policy) /\ Valid(s.policy)

\* Landlock is in force, or was asked for in vain.
Landlocked(s) == s.phase = "layering" /\ s.landlock # "missing" => InDomain(s)

Confined(s) ==
  IsApplied(s) /\ s.policy.mode # "off" /\ (s.policy.mode = "required" \/ s.enforced) =>
    InDomain(s) /\ Filtered(s)

Fits(s) == Booked(s) /\ HandedOff(s) /\ Landlocked(s) /\ Confined(s)

Inductive ==
  /\ TypeOK
  /\ \A i \in Instances : Fits(inst[i])
  /\ \A i \in Instances : OwnsLock(inst[i]) => holder = i

-----------------------------------------------------------------------------
(* The steps of one instance.                                              *)

Moves(i) == Launch(i) \/ Boot(i) \/ Database(i) \/ Cleanup(i) \/ Exit(i) \/ Crash(i)

Phases == Booting \cup Running \cup {"off", "cleaning", "exiting"}

\* The phases by their names.
LEMMA PhaseNames ==
  /\ \A phase \in {"launched", "loading", "preparing", "restricted", "layering"} :
       phase \in Phases /\ phase \in Booting /\ phase \notin Running
  /\ \A phase \in {"composing", "starting", "serving", "stopping"} :
       phase \in Phases /\ phase \notin Booting /\ phase \in Running
  /\ \A phase \in {"off", "cleaning", "exiting"} :
       phase \in Phases /\ phase \notin Booting /\ phase \notin Running
BY DEF Phases, Booting, Running

\* Two integrations, in either order.
LEMMA OrderForm ==
  ASSUME TypeOK
  PROVE  /\ Len(order) = 2
         /\ order[1] \in {"ownership", "security"} /\ order[2] \in {"ownership", "security"}
         /\ order[1] # order[2]
BY ResourcesAssumption DEF TypeOK

\* A step of one instance leaves the others, and a lock that one of them holds, alone.
LEMMA Elsewhere ==
  ASSUME TypeOK, NEW i \in Instances, Moves(i)
  PROVE  /\ order' = order /\ early' = early
         /\ inst' = [inst EXCEPT ![i] = inst'[i]]
         /\ \A j \in Instances \ {i} : inst'[j] = inst[j] /\ (holder = j => holder' = j)
         /\ holder' \in {holder, i, Nothing}
<1>. DEFINE Goal == /\ order' = order /\ early' = early
                    /\ inst' = [inst EXCEPT ![i] = inst'[i]]
                    /\ \A j \in Instances \ {i} : inst'[j] = inst[j] /\ (holder = j => holder' = j)
                    /\ holder' \in {holder, i, Nothing}
<1>. SUFFICES Goal
  OBVIOUS
<1>1. CASE Launch(i)
  BY <1>1, ResourcesAssumption DEF Launch, Entry, At, program, TypeOK
<1>2. CASE EarlyPasses(i)
  BY <1>2, ResourcesAssumption DEF EarlyPasses, At, program, TypeOK
<1>3. CASE EarlyFails(i)
  BY <1>3, ResourcesAssumption DEF EarlyFails, At, program, TypeOK
<1>4. CASE EarlyRestricts(i)
  BY <1>4, ResourcesAssumption DEF EarlyRestricts, Restricts, At, program, TypeOK
<1>5. CASE Load(i)
  BY <1>5, ResourcesAssumption DEF Load, At, program, TypeOK
<1>6. CASE PrepareFails(i)
  BY <1>6, ResourcesAssumption DEF PrepareFails, At, program, TypeOK
<1>7. CASE Acquire(i)
  BY <1>7, ResourcesAssumption DEF Acquire, Due, At, program, TypeOK
<1>8. CASE PolicyInvalid(i)
  BY <1>8, ResourcesAssumption DEF PolicyInvalid, Due, At, program, TypeOK
<1>9. CASE SecurityOff(i)
  BY <1>9, ResourcesAssumption DEF SecurityOff, Due, At, program, TypeOK
<1>10. CASE LandlockUnwanted(i)
  BY <1>10, ResourcesAssumption DEF LandlockUnwanted, Selected, Due, At, program, TypeOK
<1>11. CASE HandoffAccepted(i)
  BY <1>11, ResourcesAssumption DEF HandoffAccepted, Selected, Due, HandoffValid, At, program,
       TypeOK
<1>12. CASE LandlockMissing(i)
  BY <1>12, ResourcesAssumption DEF LandlockMissing, Selected, Due, At, program, TypeOK
<1>13. CASE RestrictThread(i)
  BY <1>13, ResourcesAssumption DEF RestrictThread, Selected, Due, Restricts, At, program, TypeOK
<1>14. CASE Seccomp(i)
  BY <1>14, ResourcesAssumption DEF Seccomp, FinishPlatform, At, program, TypeOK
<1>15. CASE Reexec(i)
  BY <1>15, ResourcesAssumption DEF Reexec, Image, Entry, Unlock, Down, At, program, TypeOK
<1>16. CASE ReexecFails(i)
  BY <1>16, ResourcesAssumption DEF ReexecFails, At, program, TypeOK
<1>17. CASE PrepareEnds(i)
  BY <1>17, ResourcesAssumption DEF PrepareEnds, At, program, TypeOK
<1>18. CASE Compose(i)
  BY <1>18, ResourcesAssumption DEF Compose, At, program, TypeOK
<1>19. CASE ComposeFails(i)
  BY <1>19, ResourcesAssumption DEF ComposeFails, At, program, TypeOK
<1>20. CASE EarlierHookFails(i)
  BY <1>20, ResourcesAssumption DEF EarlierHookFails, At, program, TypeOK
<1>21. CASE PingPasses(i)
  BY <1>21, ResourcesAssumption DEF PingPasses, At, program, TypeOK
<1>22. CASE PingFails(i)
  BY <1>22, ResourcesAssumption DEF PingFails, At, program, TypeOK
<1>23. CASE StopBegins(i)
  BY <1>23, ResourcesAssumption DEF StopBegins, At, program, TypeOK
<1>24. CASE PoolCloses(i)
  BY <1>24, ResourcesAssumption DEF PoolCloses, At, program, TypeOK
<1>25. CASE StopExpires(i)
  BY <1>25, ResourcesAssumption DEF StopExpires, At, program, TypeOK
<1>26. CASE Cleanup(i)
  BY <1>26, ResourcesAssumption DEF Cleanup, Unlock, At, program, TypeOK
<1>27. CASE Exit(i)
  BY <1>27, ResourcesAssumption DEF Exit, Dies, Unlock, Down, At, program, TypeOK
<1>28. CASE Crash(i)
  BY <1>28, ResourcesAssumption DEF Crash, Dies, Unlock, Down, At, program, TypeOK
<1>. HIDE DEF Goal
<1>. QED
  BY <1>1, <1>2, <1>3, <1>4, <1>5, <1>6, <1>7, <1>8, <1>9, <1>10, <1>11, <1>12, <1>13, <1>14,
       <1>15, <1>16, <1>17, <1>18, <1>19, <1>20, <1>21, <1>22, <1>23, <1>24, <1>25, <1>26, <1>27,
       <1>28 DEF Moves, Boot, Security, Database


\* The state of the instance after a step is one of its values, and fits.
LEMMA StateStep ==
  ASSUME TypeOK, NEW i \in Instances, Moves(i), Fits(inst[i]), OwnsLock(inst[i]) => holder = i
  PROVE  inst'[i] \in Instance /\ Fits(inst'[i]) /\ (OwnsLock(inst'[i]) => holder' = i)
<1>. DEFINE s == inst[i]
            t == inst'[i]
            Good == t \in Instance /\ Fits(t) /\ (OwnsLock(t) => holder' = i)
<1>s. /\ s \in Instance /\ s.next \in 1 .. 3 /\ s.caller \in {"main", "Prepare"}
      /\ Fits(s) /\ (OwnsLock(s) => holder = i)
  BY DEF TypeOK, Instance
<1>c. /\ Len(order) = 2 /\ Nothing \notin Policies
      /\ {order[1], order[2]} = {"ownership", "security"}
  BY OrderForm, ResourcesAssumption
<1>. SUFFICES Good
  OBVIOUS
<1>1. CASE Launch(i)
  <2>1. t = [s EXCEPT !.phase = Entry]
    BY <1>1, <1>c DEF TypeOK, Policy, Launch, Entry
  <2>2. /\ s.phase = "off" /\ holder' = holder
    BY <1>1, <1>c DEF At, Policy, Launch, Entry
  <2>. HIDE DEF s, t
  <2>3. t \in Instance
    BY <1>s, <1>c, <2>1, <2>2, PhaseNames DEF Instance, Phases, Entry
  <2>4. /\ t.phase = Entry /\ t.next = s.next /\ t.policy = s.policy /\ t.handoff = s.handoff
        /\ t.caller = s.caller /\ t.domain = s.domain /\ t.scope = s.scope
        /\ t.filter = s.filter /\ t.landlock = s.landlock /\ t.enforced = s.enforced
        /\ t.pool = s.pool /\ t.overdue = s.overdue
    BY <1>s, <2>1 DEF Instance
  <2>5. Booked(t) /\ HandedOff(t) /\ Landlocked(t)
    BY <1>s, <1>c, <2>2, <2>4 DEF Fits, Booked, HandedOff, Landlocked, Applying, InDomain,
         Booting, Running, Entry
  <2>6. Confined(t)
    BY <1>s, <1>c, <2>2, <2>4 DEF Fits, Booked, Landlocked, Confined, IsApplied, Prepared,
         InDomain, Filtered, Running, Entry
  <2>7. OwnsLock(t) => holder' = i
    BY <1>s, <1>c, <2>2, <2>4 DEF Fits, Booked, OwnsLock, Prepared, Running, Entry
  <2>. QED
    BY <2>3, <2>5, <2>6, <2>7 DEF Fits
<1>2. CASE EarlyPasses(i)
  <2>1. t = [s EXCEPT !.phase = "loading"]
    BY <1>2, <1>c DEF TypeOK, Policy, EarlyPasses
  <2>2. /\ s.phase = "launched" /\ holder' = holder
    BY <1>2, <1>c DEF At, Policy, EarlyPasses
  <2>. HIDE DEF s, t
  <2>3. t \in Instance
    BY <1>s, <1>c, <2>1, <2>2, PhaseNames DEF Instance, Phases
  <2>4. /\ t.phase = "loading" /\ t.next = s.next /\ t.policy = s.policy
        /\ t.handoff = s.handoff /\ t.caller = s.caller /\ t.domain = s.domain
        /\ t.scope = s.scope /\ t.filter = s.filter /\ t.landlock = s.landlock
        /\ t.enforced = s.enforced /\ t.pool = s.pool /\ t.overdue = s.overdue
    BY <1>s, <2>1 DEF Instance
  <2>5. Booked(t) /\ HandedOff(t) /\ Landlocked(t)
    BY <1>s, <1>c, <2>2, <2>4 DEF Fits, Booked, HandedOff, Landlocked, Applying, InDomain,
         Booting, Running
  <2>6. Confined(t)
    BY <1>s, <1>c, <2>2, <2>4 DEF Fits, Booked, Landlocked, Confined, IsApplied, Prepared,
         InDomain, Filtered, Running
  <2>7. OwnsLock(t) => holder' = i
    BY <1>s, <1>c, <2>2, <2>4 DEF Fits, Booked, OwnsLock, Prepared, Running
  <2>. QED
    BY <2>3, <2>5, <2>6, <2>7 DEF Fits
<1>3. CASE EarlyFails(i)
  <2>1. t = [s EXCEPT !.phase = "exiting"]
    BY <1>3, <1>c DEF TypeOK, Policy, EarlyFails
  <2>2. /\ s.phase = "launched" /\ holder' = holder
    BY <1>3, <1>c DEF At, Policy, EarlyFails
  <2>. HIDE DEF s, t
  <2>3. t \in Instance
    BY <1>s, <1>c, <2>1, <2>2, PhaseNames DEF Instance, Phases
  <2>4. /\ t.phase = "exiting" /\ t.next = s.next /\ t.policy = s.policy
        /\ t.handoff = s.handoff /\ t.caller = s.caller /\ t.domain = s.domain
        /\ t.scope = s.scope /\ t.filter = s.filter /\ t.landlock = s.landlock
        /\ t.enforced = s.enforced /\ t.pool = s.pool /\ t.overdue = s.overdue
    BY <1>s, <2>1 DEF Instance
  <2>5. Booked(t) /\ HandedOff(t) /\ Landlocked(t)
    BY <1>s, <1>c, <2>2, <2>4 DEF Fits, Booked, HandedOff, Landlocked, Applying, InDomain,
         Booting, Running
  <2>6. Confined(t)
    BY <1>s, <1>c, <2>2, <2>4 DEF Fits, Booked, Landlocked, Confined, IsApplied, Prepared,
         InDomain, Filtered, Running
  <2>7. OwnsLock(t) => holder' = i
    BY <1>s, <1>c, <2>2, <2>4 DEF Fits, Booked, OwnsLock, Prepared, Running
  <2>. QED
    BY <2>3, <2>5, <2>6, <2>7 DEF Fits
<1>4. CASE EarlyRestricts(i)
  <2>1. PICK p \in Policies : t = [s EXCEPT !.phase = "restricted", !.policy = p, !.caller =
       "main", !.domain = p, !.scope = "thread"]
    BY <1>4, <1>c DEF TypeOK, Policy, EarlyRestricts, Restricts
  <2>2. /\ s.phase = "launched" /\ holder' = holder
    BY <1>4, <1>c DEF At, Policy, EarlyRestricts, Restricts
  <2>. HIDE DEF s, t
  <2>3. t \in Instance
    BY <1>s, <1>c, <2>1, <2>2, PhaseNames DEF Instance, Phases
  <2>4. /\ t.phase = "restricted" /\ t.next = s.next /\ t.policy = p /\ t.handoff = s.handoff
        /\ t.caller = "main" /\ t.domain = p /\ t.scope = "thread" /\ t.filter = s.filter
        /\ t.landlock = s.landlock /\ t.enforced = s.enforced /\ t.pool = s.pool
        /\ t.overdue = s.overdue
    BY <1>s, <2>1 DEF Instance
  <2>5. Booked(t) /\ HandedOff(t) /\ Landlocked(t)
    BY <1>s, <1>c, <2>2, <2>4 DEF Fits, Booked, HandedOff, Landlocked, Applying, InDomain,
         Booting, Running
  <2>6. Confined(t)
    BY <1>s, <1>c, <2>2, <2>4 DEF Fits, Booked, Landlocked, Confined, IsApplied, Prepared,
         InDomain, Filtered, Running
  <2>7. OwnsLock(t) => holder' = i
    BY <1>s, <1>c, <2>2, <2>4 DEF Fits, Booked, OwnsLock, Prepared, Running
  <2>. QED
    BY <2>3, <2>5, <2>6, <2>7 DEF Fits
<1>5. CASE Load(i)
  <2>1. PICK p \in Policies : t = [s EXCEPT !.phase = "preparing", !.policy = p]
    BY <1>5, <1>c DEF TypeOK, Policy, Load
  <2>2. /\ s.phase = "loading" /\ holder' = holder
    BY <1>5, <1>c DEF At, Policy, Load
  <2>. HIDE DEF s, t
  <2>3. t \in Instance
    BY <1>s, <1>c, <2>1, <2>2, PhaseNames DEF Instance, Phases
  <2>4. /\ t.phase = "preparing" /\ t.next = s.next /\ t.policy = p /\ t.handoff = s.handoff
        /\ t.caller = s.caller /\ t.domain = s.domain /\ t.scope = s.scope
        /\ t.filter = s.filter /\ t.landlock = s.landlock /\ t.enforced = s.enforced
        /\ t.pool = s.pool /\ t.overdue = s.overdue
    BY <1>s, <2>1 DEF Instance
  <2>5. Booked(t) /\ HandedOff(t) /\ Landlocked(t)
    BY <1>s, <1>c, <2>2, <2>4 DEF Fits, Booked, HandedOff, Landlocked, Applying, InDomain,
         Booting, Running
  <2>6. Confined(t)
    BY <1>s, <1>c, <2>2, <2>4 DEF Fits, Booked, Landlocked, Confined, IsApplied, Prepared,
         InDomain, Filtered, Running
  <2>7. OwnsLock(t) => holder' = i
    BY <1>s, <1>c, <2>2, <2>4 DEF Fits, Booked, OwnsLock, Prepared, Running
  <2>. QED
    BY <2>3, <2>5, <2>6, <2>7 DEF Fits
<1>6. CASE PrepareFails(i)
  <2>1. t = [s EXCEPT !.phase = "cleaning"]
    BY <1>6, <1>c DEF TypeOK, Policy, PrepareFails
  <2>2. /\ s.phase = "preparing" /\ holder' = holder
    BY <1>6, <1>c DEF At, Policy, PrepareFails
  <2>. HIDE DEF s, t
  <2>3. t \in Instance
    BY <1>s, <1>c, <2>1, <2>2, PhaseNames DEF Instance, Phases
  <2>4. /\ t.phase = "cleaning" /\ t.next = s.next /\ t.policy = s.policy
        /\ t.handoff = s.handoff /\ t.caller = s.caller /\ t.domain = s.domain
        /\ t.scope = s.scope /\ t.filter = s.filter /\ t.landlock = s.landlock
        /\ t.enforced = s.enforced /\ t.pool = s.pool /\ t.overdue = s.overdue
    BY <1>s, <2>1 DEF Instance
  <2>5. Booked(t) /\ HandedOff(t) /\ Landlocked(t)
    BY <1>s, <1>c, <2>2, <2>4 DEF Fits, Booked, HandedOff, Landlocked, Applying, InDomain,
         Booting, Running
  <2>6. Confined(t)
    BY <1>s, <1>c, <2>2, <2>4 DEF Fits, Booked, Landlocked, Confined, IsApplied, Prepared,
         InDomain, Filtered, Running
  <2>7. OwnsLock(t) => holder' = i
    BY <1>s, <1>c, <2>2, <2>4 DEF Fits, Booked, OwnsLock, Prepared, Running
  <2>. QED
    BY <2>3, <2>5, <2>6, <2>7 DEF Fits
<1>7. CASE Acquire(i)
  <2>1. t = [s EXCEPT !.next = @ + 1]
    BY <1>7, <1>c DEF TypeOK, Policy, Acquire, Due
  <2>2. /\ s.phase = "preparing" /\ s.next <= 2 /\ order[s.next] = "ownership" /\ holder' = i
    BY <1>7, <1>c DEF At, Policy, Acquire, Due
  <2>. HIDE DEF s, t
  <2>3. t \in Instance
    BY <1>s, <1>c, <2>1, <2>2, PhaseNames DEF Instance, Phases
  <2>4. /\ t.phase = s.phase /\ t.next = s.next + 1 /\ t.policy = s.policy
        /\ t.handoff = s.handoff /\ t.caller = s.caller /\ t.domain = s.domain
        /\ t.scope = s.scope /\ t.filter = s.filter /\ t.landlock = s.landlock
        /\ t.enforced = s.enforced /\ t.pool = s.pool /\ t.overdue = s.overdue
    BY <1>s, <2>1 DEF Instance
  <2>5. Booked(t) /\ HandedOff(t) /\ Landlocked(t)
    BY <1>s, <1>c, <2>2, <2>4 DEF Fits, Booked, HandedOff, Landlocked, Applying, InDomain,
         Booting, Running
  <2>6. Confined(t)
    BY <1>s, <1>c, <2>2, <2>4 DEF Fits, Booked, Landlocked, Confined, IsApplied, Prepared,
         InDomain, Filtered, Running
  <2>7. OwnsLock(t) => holder' = i
    BY <1>s, <1>c, <2>2, <2>4 DEF Fits, Booked, OwnsLock, Prepared, Running
  <2>. QED
    BY <2>3, <2>5, <2>6, <2>7 DEF Fits
<1>8. CASE PolicyInvalid(i)
  <2>1. t = [s EXCEPT !.phase = "cleaning"]
    BY <1>8, <1>c DEF TypeOK, Policy, PolicyInvalid, Due
  <2>2. /\ s.phase = "preparing" /\ holder' = holder
    BY <1>8, <1>c DEF At, Policy, PolicyInvalid, Due
  <2>. HIDE DEF s, t
  <2>3. t \in Instance
    BY <1>s, <1>c, <2>1, <2>2, PhaseNames DEF Instance, Phases
  <2>4. /\ t.phase = "cleaning" /\ t.next = s.next /\ t.policy = s.policy
        /\ t.handoff = s.handoff /\ t.caller = s.caller /\ t.domain = s.domain
        /\ t.scope = s.scope /\ t.filter = s.filter /\ t.landlock = s.landlock
        /\ t.enforced = s.enforced /\ t.pool = s.pool /\ t.overdue = s.overdue
    BY <1>s, <2>1 DEF Instance
  <2>5. Booked(t) /\ HandedOff(t) /\ Landlocked(t)
    BY <1>s, <1>c, <2>2, <2>4 DEF Fits, Booked, HandedOff, Landlocked, Applying, InDomain,
         Booting, Running
  <2>6. Confined(t)
    BY <1>s, <1>c, <2>2, <2>4 DEF Fits, Booked, Landlocked, Confined, IsApplied, Prepared,
         InDomain, Filtered, Running
  <2>7. OwnsLock(t) => holder' = i
    BY <1>s, <1>c, <2>2, <2>4 DEF Fits, Booked, OwnsLock, Prepared, Running
  <2>. QED
    BY <2>3, <2>5, <2>6, <2>7 DEF Fits
<1>9. CASE SecurityOff(i)
  <2>1. t = [s EXCEPT !.next = @ + 1]
    BY <1>9, <1>c DEF TypeOK, Policy, SecurityOff, Due
  <2>2. /\ s.phase = "preparing" /\ s.next <= 2 /\ order[s.next] = "security"
        /\ s.policy.mode = "off" /\ holder' = holder
    BY <1>9, <1>c DEF At, Policy, SecurityOff, Due
  <2>. HIDE DEF s, t
  <2>3. t \in Instance
    BY <1>s, <1>c, <2>1, <2>2, PhaseNames DEF Instance, Phases
  <2>4. /\ t.phase = s.phase /\ t.next = s.next + 1 /\ t.policy = s.policy
        /\ t.handoff = s.handoff /\ t.caller = s.caller /\ t.domain = s.domain
        /\ t.scope = s.scope /\ t.filter = s.filter /\ t.landlock = s.landlock
        /\ t.enforced = s.enforced /\ t.pool = s.pool /\ t.overdue = s.overdue
    BY <1>s, <2>1 DEF Instance
  <2>5. Booked(t) /\ HandedOff(t) /\ Landlocked(t)
    BY <1>s, <1>c, <2>2, <2>4 DEF Fits, Booked, HandedOff, Landlocked, Applying, InDomain,
         Booting, Running
  <2>6. Confined(t)
    BY <1>s, <1>c, <2>2, <2>4 DEF Fits, Booked, Landlocked, Confined, IsApplied, Prepared,
         InDomain, Filtered, Running
  <2>7. OwnsLock(t) => holder' = i
    BY <1>s, <1>c, <2>2, <2>4 DEF Fits, Booked, OwnsLock, Prepared, Running
  <2>. QED
    BY <2>3, <2>5, <2>6, <2>7 DEF Fits
<1>10. CASE LandlockUnwanted(i)
  <2>1. t = [s EXCEPT !.phase = "layering"]
    BY <1>10, <1>c DEF TypeOK, Policy, LandlockUnwanted, Selected, Due
  <2>2. /\ s.phase = "preparing" /\ s.next <= 2 /\ order[s.next] = "security" /\ Valid(s.policy)
        /\ s.policy.mode # "off" /\ ~WantsLandlock(s.policy) /\ holder' = holder
    BY <1>10, <1>c DEF At, Policy, LandlockUnwanted, Selected, Due
  <2>. HIDE DEF s, t
  <2>3. t \in Instance
    BY <1>s, <1>c, <2>1, <2>2, PhaseNames DEF Instance, Phases
  <2>4. /\ t.phase = "layering" /\ t.next = s.next /\ t.policy = s.policy
        /\ t.handoff = s.handoff /\ t.caller = s.caller /\ t.domain = s.domain
        /\ t.scope = s.scope /\ t.filter = s.filter /\ t.landlock = s.landlock
        /\ t.enforced = s.enforced /\ t.pool = s.pool /\ t.overdue = s.overdue
    BY <1>s, <2>1 DEF Instance
  <2>5. Booked(t) /\ HandedOff(t) /\ Landlocked(t)
    BY <1>s, <1>c, <2>2, <2>4 DEF Fits, Booked, HandedOff, Landlocked, Applying, InDomain,
         Booting, Running
  <2>6. Confined(t)
    BY <1>s, <1>c, <2>2, <2>4 DEF Fits, Booked, Landlocked, Confined, IsApplied, Prepared,
         InDomain, Filtered, Running
  <2>7. OwnsLock(t) => holder' = i
    BY <1>s, <1>c, <2>2, <2>4 DEF Fits, Booked, OwnsLock, Prepared, Running
  <2>. QED
    BY <2>3, <2>5, <2>6, <2>7 DEF Fits
<1>11. CASE HandoffAccepted(i)
  <2>1. t = [s EXCEPT !.phase = "layering", !.landlock = "verified", !.handoff = Nothing]
    BY <1>11, <1>c DEF TypeOK, Policy, HandoffAccepted, Selected, Due, HandoffValid
  <2>2. /\ s.phase = "preparing" /\ s.next <= 2 /\ order[s.next] = "security"
        /\ Valid(s.policy) /\ s.policy.mode # "off" /\ s.handoff # Nothing
        /\ Digest(s.handoff) = Digest(s.policy) /\ s.scope = "process" /\ holder' = holder
    <3>1. /\ s.phase = "preparing" /\ s.next <= 2 /\ order[s.next] = "security"
          /\ Valid(s.policy) /\ s.policy.mode # "off" /\ holder' = holder
      BY <1>11, <1>c DEF At, Policy, HandoffAccepted, Selected, Due
    <3>2. s.handoff # Nothing /\ Matches[s.handoff][s.policy] /\ s.scope = "process"
      BY <1>11 DEF Policy, HandoffAccepted, HandoffValid
    <3>3. s.policy \in Policies /\ s.handoff \in Policies
      BY <1>s, <3>1, <3>2 DEF Instance, Fits, Booked
    <3>. QED
      BY <3>1, <3>2, <3>3 DEF Matches
  <2>. HIDE DEF s, t
  <2>3. t \in Instance
    BY <1>s, <1>c, <2>1, <2>2, PhaseNames DEF Instance, Phases
  <2>4. /\ t.phase = "layering" /\ t.next = s.next /\ t.policy = s.policy /\ t.handoff = Nothing
        /\ t.caller = s.caller /\ t.domain = s.domain /\ t.scope = s.scope
        /\ t.filter = s.filter /\ t.landlock = "verified" /\ t.enforced = s.enforced
        /\ t.pool = s.pool /\ t.overdue = s.overdue
    BY <1>s, <2>1 DEF Instance
  <2>5. Booked(t) /\ HandedOff(t) /\ Landlocked(t)
    BY <1>s, <1>c, <2>2, <2>4 DEF Fits, Booked, HandedOff, Landlocked, Applying, InDomain,
         Booting, Running
  <2>6. Confined(t)
    BY <1>s, <1>c, <2>2, <2>4 DEF Fits, Booked, Landlocked, Confined, IsApplied, Prepared,
         InDomain, Filtered, Running
  <2>7. OwnsLock(t) => holder' = i
    BY <1>s, <1>c, <2>2, <2>4 DEF Fits, Booked, OwnsLock, Prepared, Running
  <2>. QED
    BY <2>3, <2>5, <2>6, <2>7 DEF Fits
<1>12. CASE LandlockMissing(i)
  <2>1. t = [s EXCEPT !.phase = "layering", !.landlock = "missing"]
    BY <1>12, <1>c DEF TypeOK, Policy, LandlockMissing, Selected, Due
  <2>2. /\ s.phase = "preparing" /\ s.next <= 2 /\ order[s.next] = "security" /\ Valid(s.policy)
        /\ s.policy.mode # "off" /\ holder' = holder
    BY <1>12, <1>c DEF At, Policy, LandlockMissing, Selected, Due
  <2>. HIDE DEF s, t
  <2>3. t \in Instance
    BY <1>s, <1>c, <2>1, <2>2, PhaseNames DEF Instance, Phases
  <2>4. /\ t.phase = "layering" /\ t.next = s.next /\ t.policy = s.policy
        /\ t.handoff = s.handoff /\ t.caller = s.caller /\ t.domain = s.domain
        /\ t.scope = s.scope /\ t.filter = s.filter /\ t.landlock = "missing"
        /\ t.enforced = s.enforced /\ t.pool = s.pool /\ t.overdue = s.overdue
    BY <1>s, <2>1 DEF Instance
  <2>5. Booked(t) /\ HandedOff(t) /\ Landlocked(t)
    BY <1>s, <1>c, <2>2, <2>4 DEF Fits, Booked, HandedOff, Landlocked, Applying, InDomain,
         Booting, Running
  <2>6. Confined(t)
    BY <1>s, <1>c, <2>2, <2>4 DEF Fits, Booked, Landlocked, Confined, IsApplied, Prepared,
         InDomain, Filtered, Running
  <2>7. OwnsLock(t) => holder' = i
    BY <1>s, <1>c, <2>2, <2>4 DEF Fits, Booked, OwnsLock, Prepared, Running
  <2>. QED
    BY <2>3, <2>5, <2>6, <2>7 DEF Fits
<1>13. CASE RestrictThread(i)
  <2>1. t = [s EXCEPT !.phase = "restricted", !.policy = s.policy, !.caller = "Prepare", !.domain
       = s.policy, !.scope = "thread"]
    BY <1>13, <1>c DEF TypeOK, Policy, RestrictThread, Selected, Due, Restricts
  <2>2. /\ s.phase = "preparing" /\ s.next <= 2 /\ order[s.next] = "security" /\ Valid(s.policy)
        /\ s.policy.mode # "off" /\ holder' = holder
    BY <1>13, <1>c DEF At, Policy, RestrictThread, Selected, Due, Restricts
  <2>. HIDE DEF s, t
  <2>3. t \in Instance
    BY <1>s, <1>c, <2>1, <2>2, PhaseNames DEF Instance, Phases
  <2>4. /\ t.phase = "restricted" /\ t.next = s.next /\ t.policy = s.policy
        /\ t.handoff = s.handoff /\ t.caller = "Prepare" /\ t.domain = s.policy
        /\ t.scope = "thread" /\ t.filter = s.filter /\ t.landlock = s.landlock
        /\ t.enforced = s.enforced /\ t.pool = s.pool /\ t.overdue = s.overdue
    BY <1>s, <2>1 DEF Instance
  <2>5. Booked(t) /\ HandedOff(t) /\ Landlocked(t)
    BY <1>s, <1>c, <2>2, <2>4 DEF Fits, Booked, HandedOff, Landlocked, Applying, InDomain,
         Booting, Running
  <2>6. Confined(t)
    BY <1>s, <1>c, <2>2, <2>4 DEF Fits, Booked, Landlocked, Confined, IsApplied, Prepared,
         InDomain, Filtered, Running
  <2>7. OwnsLock(t) => holder' = i
    BY <1>s, <1>c, <2>2, <2>4 DEF Fits, Booked, OwnsLock, Prepared, Running
  <2>. QED
    BY <2>3, <2>5, <2>6, <2>7 DEF Fits
<1>14. CASE Seccomp(i)
  <2>. DEFINE After(filter, enforced, phase, next) ==
                [s EXCEPT !.phase = phase, !.next = next, !.filter = filter, !.enforced = enforced]
              Ends(enforced, phase, next) ==
                IF s.policy.mode = "required" /\ ~enforced THEN phase = "cleaning" /\ next = s.next
                ELSE phase = "preparing" /\ next = s.next + 1
              Meant(filter, enforced) ==
                enforced => /\ s.landlock # "missing"
                            /\ WantsSeccomp(s.policy) => filter = s.policy /\ Known(s.policy)
  <2>1. PICK filter \in Policies \cup {Nothing}, enforced \in BOOLEAN,
            phase \in {"cleaning", "preparing"}, next \in {s.next, s.next + 1} :
          /\ Meant(filter, enforced) /\ Ends(enforced, phase, next)
          /\ t = After(filter, enforced, phase, next)
    <3>1. ASSUME NEW filter, NEW seccomp, FinishPlatform(i, filter, seccomp)
          PROVE  \E enforced \in BOOLEAN, phase \in {"cleaning", "preparing"}, next \in {s.next, s.next + 1} :
                   /\ enforced => s.landlock # "missing" /\ seccomp # "missing"
                   /\ Ends(enforced, phase, next) /\ t = After(filter, enforced, phase, next)
      <4>. DEFINE enforced == s.landlock # "missing" /\ seccomp # "missing"
                  refused == s.policy.mode = "required" /\ ~enforced
                  phase == IF refused THEN "cleaning" ELSE "preparing"
                  next == IF refused THEN s.next ELSE s.next + 1
      <4>1. inst' = [inst EXCEPT ![i].phase = phase, ![i].next = next, ![i].filter = filter,
                                 ![i].enforced = enforced]
        BY <3>1 DEF FinishPlatform, TypeOK, Policy
      <4>2. /\ Ends(enforced, phase, next) /\ enforced \in BOOLEAN
            /\ enforced => s.landlock # "missing" /\ seccomp # "missing"
            /\ phase \in {"cleaning", "preparing"} /\ next \in {s.next, s.next + 1}
        OBVIOUS
      <4>. HIDE DEF enforced, phase, next
      <4>3. t = After(filter, enforced, phase, next)
        BY <4>1 DEF TypeOK
      <4>. QED
        BY <4>2, <4>3
    <3>. HIDE DEF After, Ends, Meant, s, t
    <3>2. s.policy \in Policies \cup {Nothing} /\ s.filter \in Policies \cup {Nothing}
      BY <1>s DEF Instance
    <3>3. CASE ~WantsSeccomp(s.policy)
      <4>1. FinishPlatform(i, s.filter, "unwanted")
        BY <1>14, <3>3 DEF Seccomp, Policy, s
      <4>. QED
        BY <3>1, <3>2, <3>3, <4>1 DEF Meant
    <3>4. CASE WantsSeccomp(s.policy)
      <4>1. CASE Known(s.policy) /\ FinishPlatform(i, s.policy, "verified")
        BY <3>1, <3>2, <4>1 DEF Meant
      <4>2. CASE \E filter \in Policies \cup {Nothing} : FinishPlatform(i, filter, "missing")
        BY <3>1, <4>2 DEF Meant
      <4>3. \/ Known(s.policy) /\ FinishPlatform(i, s.policy, "verified")
            \/ \E filter \in {s.filter, s.policy} : FinishPlatform(i, filter, "missing")
        BY <1>14, <3>4 DEF Seccomp, Policy, s
      <4>. QED
        BY <3>2, <4>1, <4>2, <4>3
    <3>. QED
      BY <3>3, <3>4
  <2>2. s.phase = "layering" /\ holder' = holder
    BY <1>14 DEF Seccomp, At
  <2>3. s.next \in 1 .. 2 /\ order[s.next] = "security" /\ Valid(s.policy) /\ s.policy # Nothing
    BY <1>s, <2>2 DEF Fits, Booked, Applying, Instance
  <2>. HIDE DEF s, t, Meant
  <2>4. phase \in Phases /\ next \in 1 .. 3
    BY <2>1, <2>3, PhaseNames
  <2>5. t \in Instance
    BY <1>s, <2>1, <2>4 DEF Instance, Phases
  <2>6. /\ t.phase = phase /\ t.next = next /\ t.filter = filter /\ t.enforced = enforced
        /\ t.policy = s.policy /\ t.handoff = s.handoff /\ t.domain = s.domain
        /\ t.scope = s.scope /\ t.landlock = s.landlock /\ t.pool = s.pool
        /\ t.overdue = s.overdue
    BY <1>s, <2>1 DEF Instance
  <2>7. Booked(t) /\ HandedOff(t) /\ Landlocked(t)
    BY <1>s, <2>1, <2>2, <2>3, <2>6
       DEF Fits, Booked, HandedOff, Landlocked, Applying, Running, Booting
  <2>8. Confined(t)
    BY <1>s, <2>1, <2>2, <2>3, <2>6
       DEF Fits, Landlocked, Confined, InDomain, Filtered, IsApplied, Running, Meant
  <2>9. OwnsLock(t) => holder' = i
    <3>1. CASE phase = "preparing" /\ next = s.next + 1
      <4>1. 1 .. t.next - 1 = (1 .. s.next - 1) \cup {s.next}
        BY <2>3, <2>6, <3>1
      <4>2. "ownership" \in Prepared(t) => "ownership" \in Prepared(s)
        BY <2>3, <4>1 DEF Prepared
      <4>. QED
        BY <1>s, <2>2, <2>6, <3>1, <4>2 DEF OwnsLock, Running
    <3>2. CASE phase = "cleaning"
      BY <2>6, <3>2 DEF OwnsLock, Running
    <3>. QED
      BY <2>1, <3>1, <3>2
  <2>. QED
    BY <2>5, <2>7, <2>8, <2>9 DEF Fits
<1>15. CASE Reexec(i)
  <2>1. t = [phase |-> Entry, next |-> 1, policy |-> Nothing, handoff |-> s.policy,
          caller |-> "Prepare", domain |-> s.domain, scope |-> "process", filter |-> s.filter,
          landlock |-> "unwanted", enforced |-> FALSE, pool |-> "none", overdue |-> FALSE]
    BY <1>15, <1>c DEF TypeOK, Policy, Reexec, Image, Entry, Unlock, Down
  <2>2. /\ s.phase = "restricted" /\ holder' = (IF holder = i THEN Nothing ELSE holder)
    BY <1>15, <1>c DEF At, Policy, Reexec, Image, Entry, Unlock, Down
  <2>. HIDE DEF s, t
  <2>3. t \in Instance
    BY <1>s, <1>c, <2>1, <2>2, PhaseNames DEF Instance, Phases, Entry
  <2>4. /\ t.phase = Entry /\ t.next = 1 /\ t.policy = Nothing /\ t.handoff = s.policy
        /\ t.caller = "Prepare" /\ t.domain = s.domain /\ t.scope = "process"
        /\ t.filter = s.filter /\ t.landlock = "unwanted" /\ t.enforced = FALSE
        /\ t.pool = "none" /\ t.overdue = FALSE
    BY <1>s, <2>1 DEF Instance, Down
  <2>5. Booked(t) /\ HandedOff(t) /\ Landlocked(t)
    BY <1>s, <1>c, <2>2, <2>4 DEF Fits, Booked, HandedOff, Landlocked, Applying, InDomain,
         Booting, Running, Entry
  <2>6. Confined(t)
    BY <1>s, <1>c, <2>2, <2>4 DEF Fits, Booked, Landlocked, Confined, IsApplied, Prepared,
         InDomain, Filtered, Running, Entry
  <2>7. OwnsLock(t) => holder' = i
    BY <1>s, <1>c, <2>2, <2>4 DEF Fits, Booked, OwnsLock, Prepared, Running, Entry
  <2>. QED
    BY <2>3, <2>5, <2>6, <2>7 DEF Fits
<1>16. CASE ReexecFails(i)
  <2>1. PICK digest \in {Nothing, s.policy} : t = [s EXCEPT !.phase = IF s.caller = "main" THEN
       "exiting" ELSE "layering", !.landlock = "missing", !.handoff = digest]
    BY <1>16, <1>c DEF TypeOK, Policy, ReexecFails
  <2>2. /\ s.phase = "restricted" /\ holder' = holder
    BY <1>16, <1>c DEF At, Policy, ReexecFails
  <2>. HIDE DEF s, t
  <2>3. t \in Instance
    BY <1>s, <1>c, <2>1, <2>2, PhaseNames DEF Instance, Phases
  <2>4. /\ t.phase = (IF s.caller = "main" THEN "exiting" ELSE "layering") /\ t.next = s.next
        /\ t.policy = s.policy /\ t.handoff = digest /\ t.caller = s.caller
        /\ t.domain = s.domain /\ t.scope = s.scope /\ t.filter = s.filter
        /\ t.landlock = "missing" /\ t.enforced = s.enforced /\ t.pool = s.pool
        /\ t.overdue = s.overdue
    BY <1>s, <2>1 DEF Instance
  <2>5. Booked(t) /\ HandedOff(t) /\ Landlocked(t)
    BY <1>s, <1>c, <2>2, <2>4 DEF Fits, Booked, HandedOff, Landlocked, Applying, InDomain,
         Booting, Running
  <2>6. Confined(t)
    BY <1>s, <1>c, <2>2, <2>4 DEF Fits, Booked, Landlocked, Confined, IsApplied, Prepared,
         InDomain, Filtered, Running
  <2>7. OwnsLock(t) => holder' = i
    BY <1>s, <1>c, <2>2, <2>4 DEF Fits, Booked, OwnsLock, Prepared, Running
  <2>. QED
    BY <2>3, <2>5, <2>6, <2>7 DEF Fits
<1>17. CASE PrepareEnds(i)
  <2>1. t = [s EXCEPT !.phase = "composing"]
    BY <1>17, <1>c DEF TypeOK, Policy, PrepareEnds
  <2>2. /\ s.phase = "preparing" /\ s.next > 2 /\ holder' = holder
    BY <1>17, <1>c DEF At, Policy, PrepareEnds
  <2>. HIDE DEF s, t
  <2>3. t \in Instance
    BY <1>s, <1>c, <2>1, <2>2, PhaseNames DEF Instance, Phases
  <2>4. /\ t.phase = "composing" /\ t.next = s.next /\ t.policy = s.policy
        /\ t.handoff = s.handoff /\ t.caller = s.caller /\ t.domain = s.domain
        /\ t.scope = s.scope /\ t.filter = s.filter /\ t.landlock = s.landlock
        /\ t.enforced = s.enforced /\ t.pool = s.pool /\ t.overdue = s.overdue
    BY <1>s, <2>1 DEF Instance
  <2>5. Booked(t) /\ HandedOff(t) /\ Landlocked(t)
    BY <1>s, <1>c, <2>2, <2>4 DEF Fits, Booked, HandedOff, Landlocked, Applying, InDomain,
         Booting, Running
  <2>6. Confined(t)
    BY <1>s, <1>c, <2>2, <2>4 DEF Fits, Booked, Landlocked, Confined, IsApplied, Prepared,
         InDomain, Filtered, Running
  <2>7. OwnsLock(t) => holder' = i
    BY <1>s, <1>c, <2>2, <2>4 DEF Fits, Booked, OwnsLock, Prepared, Running
  <2>. QED
    BY <2>3, <2>5, <2>6, <2>7 DEF Fits
<1>18. CASE Compose(i)
  <2>1. t = [s EXCEPT !.phase = "starting", !.pool = "open"]
    BY <1>18, <1>c DEF TypeOK, Policy, Compose
  <2>2. /\ s.phase = "composing" /\ holder' = holder
    BY <1>18, <1>c DEF At, Policy, Compose
  <2>. HIDE DEF s, t
  <2>3. t \in Instance
    BY <1>s, <1>c, <2>1, <2>2, PhaseNames DEF Instance, Phases
  <2>4. /\ t.phase = "starting" /\ t.next = s.next /\ t.policy = s.policy
        /\ t.handoff = s.handoff /\ t.caller = s.caller /\ t.domain = s.domain
        /\ t.scope = s.scope /\ t.filter = s.filter /\ t.landlock = s.landlock
        /\ t.enforced = s.enforced /\ t.pool = "open" /\ t.overdue = s.overdue
    BY <1>s, <2>1 DEF Instance
  <2>5. Booked(t) /\ HandedOff(t) /\ Landlocked(t)
    BY <1>s, <1>c, <2>2, <2>4 DEF Fits, Booked, HandedOff, Landlocked, Applying, InDomain,
         Booting, Running
  <2>6. Confined(t)
    BY <1>s, <1>c, <2>2, <2>4 DEF Fits, Booked, Landlocked, Confined, IsApplied, Prepared,
         InDomain, Filtered, Running
  <2>7. OwnsLock(t) => holder' = i
    BY <1>s, <1>c, <2>2, <2>4 DEF Fits, Booked, OwnsLock, Prepared, Running
  <2>. QED
    BY <2>3, <2>5, <2>6, <2>7 DEF Fits
<1>19. CASE ComposeFails(i)
  <2>1. PICK pool \in {"none", "abandoned"} : t = [s EXCEPT !.phase = "cleaning", !.pool = pool]
    BY <1>19, <1>c DEF TypeOK, Policy, ComposeFails
  <2>2. /\ s.phase = "composing" /\ holder' = holder
    BY <1>19, <1>c DEF At, Policy, ComposeFails
  <2>. HIDE DEF s, t
  <2>3. t \in Instance
    BY <1>s, <1>c, <2>1, <2>2, PhaseNames DEF Instance, Phases
  <2>4. /\ t.phase = "cleaning" /\ t.next = s.next /\ t.policy = s.policy
        /\ t.handoff = s.handoff /\ t.caller = s.caller /\ t.domain = s.domain
        /\ t.scope = s.scope /\ t.filter = s.filter /\ t.landlock = s.landlock
        /\ t.enforced = s.enforced /\ t.pool = pool /\ t.overdue = s.overdue
    BY <1>s, <2>1 DEF Instance
  <2>5. Booked(t) /\ HandedOff(t) /\ Landlocked(t)
    BY <1>s, <1>c, <2>2, <2>4 DEF Fits, Booked, HandedOff, Landlocked, Applying, InDomain,
         Booting, Running
  <2>6. Confined(t)
    BY <1>s, <1>c, <2>2, <2>4 DEF Fits, Booked, Landlocked, Confined, IsApplied, Prepared,
         InDomain, Filtered, Running
  <2>7. OwnsLock(t) => holder' = i
    BY <1>s, <1>c, <2>2, <2>4 DEF Fits, Booked, OwnsLock, Prepared, Running
  <2>. QED
    BY <2>3, <2>5, <2>6, <2>7 DEF Fits
<1>20. CASE EarlierHookFails(i)
  <2>1. t = [s EXCEPT !.phase = "cleaning", !.pool = "abandoned"]
    BY <1>20, <1>c DEF TypeOK, Policy, EarlierHookFails
  <2>2. /\ s.phase = "starting" /\ holder' = holder
    BY <1>20, <1>c DEF At, Policy, EarlierHookFails
  <2>. HIDE DEF s, t
  <2>3. t \in Instance
    BY <1>s, <1>c, <2>1, <2>2, PhaseNames DEF Instance, Phases
  <2>4. /\ t.phase = "cleaning" /\ t.next = s.next /\ t.policy = s.policy
        /\ t.handoff = s.handoff /\ t.caller = s.caller /\ t.domain = s.domain
        /\ t.scope = s.scope /\ t.filter = s.filter /\ t.landlock = s.landlock
        /\ t.enforced = s.enforced /\ t.pool = "abandoned" /\ t.overdue = s.overdue
    BY <1>s, <2>1 DEF Instance
  <2>5. Booked(t) /\ HandedOff(t) /\ Landlocked(t)
    BY <1>s, <1>c, <2>2, <2>4 DEF Fits, Booked, HandedOff, Landlocked, Applying, InDomain,
         Booting, Running
  <2>6. Confined(t)
    BY <1>s, <1>c, <2>2, <2>4 DEF Fits, Booked, Landlocked, Confined, IsApplied, Prepared,
         InDomain, Filtered, Running
  <2>7. OwnsLock(t) => holder' = i
    BY <1>s, <1>c, <2>2, <2>4 DEF Fits, Booked, OwnsLock, Prepared, Running
  <2>. QED
    BY <2>3, <2>5, <2>6, <2>7 DEF Fits
<1>21. CASE PingPasses(i)
  <2>1. t = [s EXCEPT !.phase = "serving"]
    BY <1>21, <1>c DEF TypeOK, Policy, PingPasses
  <2>2. /\ s.phase = "starting" /\ holder' = holder
    BY <1>21, <1>c DEF At, Policy, PingPasses
  <2>. HIDE DEF s, t
  <2>3. t \in Instance
    BY <1>s, <1>c, <2>1, <2>2, PhaseNames DEF Instance, Phases
  <2>4. /\ t.phase = "serving" /\ t.next = s.next /\ t.policy = s.policy
        /\ t.handoff = s.handoff /\ t.caller = s.caller /\ t.domain = s.domain
        /\ t.scope = s.scope /\ t.filter = s.filter /\ t.landlock = s.landlock
        /\ t.enforced = s.enforced /\ t.pool = s.pool /\ t.overdue = s.overdue
    BY <1>s, <2>1 DEF Instance
  <2>5. Booked(t) /\ HandedOff(t) /\ Landlocked(t)
    BY <1>s, <1>c, <2>2, <2>4 DEF Fits, Booked, HandedOff, Landlocked, Applying, InDomain,
         Booting, Running
  <2>6. Confined(t)
    BY <1>s, <1>c, <2>2, <2>4 DEF Fits, Booked, Landlocked, Confined, IsApplied, Prepared,
         InDomain, Filtered, Running
  <2>7. OwnsLock(t) => holder' = i
    BY <1>s, <1>c, <2>2, <2>4 DEF Fits, Booked, OwnsLock, Prepared, Running
  <2>. QED
    BY <2>3, <2>5, <2>6, <2>7 DEF Fits
<1>22. CASE PingFails(i)
  <2>1. t = [s EXCEPT !.phase = "cleaning", !.pool = "closed"]
    BY <1>22, <1>c DEF TypeOK, Policy, PingFails
  <2>2. /\ s.phase = "starting" /\ holder' = holder
    BY <1>22, <1>c DEF At, Policy, PingFails
  <2>. HIDE DEF s, t
  <2>3. t \in Instance
    BY <1>s, <1>c, <2>1, <2>2, PhaseNames DEF Instance, Phases
  <2>4. /\ t.phase = "cleaning" /\ t.next = s.next /\ t.policy = s.policy
        /\ t.handoff = s.handoff /\ t.caller = s.caller /\ t.domain = s.domain
        /\ t.scope = s.scope /\ t.filter = s.filter /\ t.landlock = s.landlock
        /\ t.enforced = s.enforced /\ t.pool = "closed" /\ t.overdue = s.overdue
    BY <1>s, <2>1 DEF Instance
  <2>5. Booked(t) /\ HandedOff(t) /\ Landlocked(t)
    BY <1>s, <1>c, <2>2, <2>4 DEF Fits, Booked, HandedOff, Landlocked, Applying, InDomain,
         Booting, Running
  <2>6. Confined(t)
    BY <1>s, <1>c, <2>2, <2>4 DEF Fits, Booked, Landlocked, Confined, IsApplied, Prepared,
         InDomain, Filtered, Running
  <2>7. OwnsLock(t) => holder' = i
    BY <1>s, <1>c, <2>2, <2>4 DEF Fits, Booked, OwnsLock, Prepared, Running
  <2>. QED
    BY <2>3, <2>5, <2>6, <2>7 DEF Fits
<1>23. CASE StopBegins(i)
  <2>1. t = [s EXCEPT !.phase = "stopping"]
    BY <1>23, <1>c DEF TypeOK, Policy, StopBegins
  <2>2. /\ s.phase = "serving" /\ holder' = holder
    BY <1>23, <1>c DEF At, Policy, StopBegins
  <2>. HIDE DEF s, t
  <2>3. t \in Instance
    BY <1>s, <1>c, <2>1, <2>2, PhaseNames DEF Instance, Phases
  <2>4. /\ t.phase = "stopping" /\ t.next = s.next /\ t.policy = s.policy
        /\ t.handoff = s.handoff /\ t.caller = s.caller /\ t.domain = s.domain
        /\ t.scope = s.scope /\ t.filter = s.filter /\ t.landlock = s.landlock
        /\ t.enforced = s.enforced /\ t.pool = s.pool /\ t.overdue = s.overdue
    BY <1>s, <2>1 DEF Instance
  <2>5. Booked(t) /\ HandedOff(t) /\ Landlocked(t)
    BY <1>s, <1>c, <2>2, <2>4 DEF Fits, Booked, HandedOff, Landlocked, Applying, InDomain,
         Booting, Running
  <2>6. Confined(t)
    BY <1>s, <1>c, <2>2, <2>4 DEF Fits, Booked, Landlocked, Confined, IsApplied, Prepared,
         InDomain, Filtered, Running
  <2>7. OwnsLock(t) => holder' = i
    BY <1>s, <1>c, <2>2, <2>4 DEF Fits, Booked, OwnsLock, Prepared, Running
  <2>. QED
    BY <2>3, <2>5, <2>6, <2>7 DEF Fits
<1>24. CASE PoolCloses(i)
  <2>1. t = [s EXCEPT !.phase = "cleaning", !.pool = "closed"]
    BY <1>24, <1>c DEF TypeOK, Policy, PoolCloses
  <2>2. /\ s.phase = "stopping" /\ holder' = holder
    BY <1>24, <1>c DEF At, Policy, PoolCloses
  <2>. HIDE DEF s, t
  <2>3. t \in Instance
    BY <1>s, <1>c, <2>1, <2>2, PhaseNames DEF Instance, Phases
  <2>4. /\ t.phase = "cleaning" /\ t.next = s.next /\ t.policy = s.policy
        /\ t.handoff = s.handoff /\ t.caller = s.caller /\ t.domain = s.domain
        /\ t.scope = s.scope /\ t.filter = s.filter /\ t.landlock = s.landlock
        /\ t.enforced = s.enforced /\ t.pool = "closed" /\ t.overdue = s.overdue
    BY <1>s, <2>1 DEF Instance
  <2>5. Booked(t) /\ HandedOff(t) /\ Landlocked(t)
    BY <1>s, <1>c, <2>2, <2>4 DEF Fits, Booked, HandedOff, Landlocked, Applying, InDomain,
         Booting, Running
  <2>6. Confined(t)
    BY <1>s, <1>c, <2>2, <2>4 DEF Fits, Booked, Landlocked, Confined, IsApplied, Prepared,
         InDomain, Filtered, Running
  <2>7. OwnsLock(t) => holder' = i
    BY <1>s, <1>c, <2>2, <2>4 DEF Fits, Booked, OwnsLock, Prepared, Running
  <2>. QED
    BY <2>3, <2>5, <2>6, <2>7 DEF Fits
<1>25. CASE StopExpires(i)
  <2>1. t = [s EXCEPT !.phase = "cleaning", !.overdue = TRUE]
    BY <1>25, <1>c DEF TypeOK, Policy, StopExpires
  <2>2. /\ s.phase = "stopping" /\ holder' = holder
    BY <1>25, <1>c DEF At, Policy, StopExpires
  <2>. HIDE DEF s, t
  <2>3. t \in Instance
    BY <1>s, <1>c, <2>1, <2>2, PhaseNames DEF Instance, Phases
  <2>4. /\ t.phase = "cleaning" /\ t.next = s.next /\ t.policy = s.policy
        /\ t.handoff = s.handoff /\ t.caller = s.caller /\ t.domain = s.domain
        /\ t.scope = s.scope /\ t.filter = s.filter /\ t.landlock = s.landlock
        /\ t.enforced = s.enforced /\ t.pool = s.pool /\ t.overdue = TRUE
    BY <1>s, <2>1 DEF Instance
  <2>5. Booked(t) /\ HandedOff(t) /\ Landlocked(t)
    BY <1>s, <1>c, <2>2, <2>4 DEF Fits, Booked, HandedOff, Landlocked, Applying, InDomain,
         Booting, Running
  <2>6. Confined(t)
    BY <1>s, <1>c, <2>2, <2>4 DEF Fits, Booked, Landlocked, Confined, IsApplied, Prepared,
         InDomain, Filtered, Running
  <2>7. OwnsLock(t) => holder' = i
    BY <1>s, <1>c, <2>2, <2>4 DEF Fits, Booked, OwnsLock, Prepared, Running
  <2>. QED
    BY <2>3, <2>5, <2>6, <2>7 DEF Fits
<1>26. CASE Cleanup(i)
  <2>1. t = [s EXCEPT !.phase = "exiting"]
    BY <1>26, <1>c DEF TypeOK, Policy, Cleanup, Unlock
  <2>2. /\ s.phase = "cleaning"
    BY <1>26, <1>c DEF At, Policy, Cleanup, Unlock
  <2>. HIDE DEF s, t
  <2>3. t \in Instance
    BY <1>s, <1>c, <2>1, <2>2, PhaseNames DEF Instance, Phases
  <2>4. /\ t.phase = "exiting" /\ t.next = s.next /\ t.policy = s.policy
        /\ t.handoff = s.handoff /\ t.caller = s.caller /\ t.domain = s.domain
        /\ t.scope = s.scope /\ t.filter = s.filter /\ t.landlock = s.landlock
        /\ t.enforced = s.enforced /\ t.pool = s.pool /\ t.overdue = s.overdue
    BY <1>s, <2>1 DEF Instance
  <2>5. Booked(t) /\ HandedOff(t) /\ Landlocked(t)
    BY <1>s, <1>c, <2>2, <2>4 DEF Fits, Booked, HandedOff, Landlocked, Applying, InDomain,
         Booting, Running
  <2>6. Confined(t)
    BY <1>s, <1>c, <2>2, <2>4 DEF Fits, Booked, Landlocked, Confined, IsApplied, Prepared,
         InDomain, Filtered, Running
  <2>7. OwnsLock(t) => holder' = i
    BY <1>s, <1>c, <2>2, <2>4 DEF Fits, Booked, OwnsLock, Prepared, Running
  <2>. QED
    BY <2>3, <2>5, <2>6, <2>7 DEF Fits
<1>27. CASE Exit(i)
  <2>1. t = Down
    BY <1>27, <1>c DEF TypeOK, Policy, Exit, Dies, Unlock, Down
  <2>. HIDE DEF s, t
  <2>3. t \in Instance
    BY <1>s, <1>c, <2>1, PhaseNames DEF Instance, Phases, Down
  <2>4. /\ t.phase = "off" /\ t.next = 1 /\ t.policy = Nothing /\ t.handoff = Nothing
        /\ t.caller = "Prepare" /\ t.domain = Nothing /\ t.scope = "none" /\ t.filter = Nothing
        /\ t.landlock = "unwanted" /\ t.enforced = FALSE /\ t.pool = "none" /\ t.overdue = FALSE
    BY <1>s, <2>1 DEF Instance, Down
  <2>5. Booked(t) /\ HandedOff(t) /\ Landlocked(t)
    BY <1>s, <1>c, <2>4 DEF Fits, Booked, HandedOff, Landlocked, Applying, InDomain, Booting,
         Running
  <2>6. Confined(t)
    BY <1>s, <1>c, <2>4 DEF Fits, Booked, Landlocked, Confined, IsApplied, Prepared, InDomain,
         Filtered, Running
  <2>7. OwnsLock(t) => holder' = i
    BY <1>s, <1>c, <2>4 DEF Fits, Booked, OwnsLock, Prepared, Running
  <2>. QED
    BY <2>3, <2>5, <2>6, <2>7 DEF Fits
<1>28. CASE Crash(i)
  <2>1. t = Down
    BY <1>28, <1>c DEF TypeOK, Policy, Crash, Dies, Unlock, Down
  <2>. HIDE DEF s, t
  <2>3. t \in Instance
    BY <1>s, <1>c, <2>1, PhaseNames DEF Instance, Phases, Down
  <2>4. /\ t.phase = "off" /\ t.next = 1 /\ t.policy = Nothing /\ t.handoff = Nothing
        /\ t.caller = "Prepare" /\ t.domain = Nothing /\ t.scope = "none" /\ t.filter = Nothing
        /\ t.landlock = "unwanted" /\ t.enforced = FALSE /\ t.pool = "none" /\ t.overdue = FALSE
    BY <1>s, <2>1 DEF Instance, Down
  <2>5. Booked(t) /\ HandedOff(t) /\ Landlocked(t)
    BY <1>s, <1>c, <2>4 DEF Fits, Booked, HandedOff, Landlocked, Applying, InDomain, Booting,
         Running
  <2>6. Confined(t)
    BY <1>s, <1>c, <2>4 DEF Fits, Booked, Landlocked, Confined, IsApplied, Prepared, InDomain,
         Filtered, Running
  <2>7. OwnsLock(t) => holder' = i
    BY <1>s, <1>c, <2>4 DEF Fits, Booked, OwnsLock, Prepared, Running
  <2>. QED
    BY <2>3, <2>5, <2>6, <2>7 DEF Fits
<1>. HIDE DEF Good, s, t
<1>. QED
  BY <1>1, <1>2, <1>3, <1>4, <1>5, <1>6, <1>7, <1>8, <1>9, <1>10, <1>11, <1>12, <1>13, <1>14,
       <1>15, <1>16, <1>17, <1>18, <1>19, <1>20, <1>21, <1>22, <1>23, <1>24, <1>25, <1>26, <1>27,
       <1>28 DEF Moves, Boot, Security, Database

\* What an instance holds in which phase is an invariant: no step of it, of another
\* instance or of the kernel breaks the bookkeeping, the domains and the ownership that the
\* properties rest on.
THEOREM InductiveCorrect == Spec => []Inductive
<1>1. Init => Inductive
  <2>. SUFFICES ASSUME Init PROVE Inductive
    OBVIOUS
  <2>1. Down \in Instance
    BY PhaseNames DEF Down, Instance, Phases
  <2>2. TypeOK
    BY <2>1 DEF Init, TypeOK
  <2>3. Fits(Down) /\ ~OwnsLock(Down)
    BY DEF Down, Fits, Booked, HandedOff, Landlocked, Confined, IsApplied, Applying, OwnsLock,
           Booting, Running
  <2>4. \A i \in Instances : inst[i] = Down
    BY DEF Init
  <2>. QED
    BY <2>2, <2>3, <2>4 DEF Inductive
<1>2. Inductive /\ [Next]_vars => Inductive'
  <2>. SUFFICES ASSUME Inductive, [Next]_vars PROVE Inductive'
    OBVIOUS
  <2>1. CASE UNCHANGED vars
    BY <2>1 DEF vars, program, Inductive, TypeOK, Fits, Booked, HandedOff, Landlocked, Confined,
                IsApplied, Applying, OwnsLock, Prepared
  <2>2. ASSUME NEW i \in Instances, Moves(i) PROVE Inductive'
    <3>1. /\ inst'[i] \in Instance /\ Fits(inst'[i])
          /\ OwnsLock(inst'[i]) => holder' = i
      BY <2>2, StateStep DEF Inductive
    <3>2. /\ order' = order /\ early' = early /\ inst' = [inst EXCEPT ![i] = inst'[i]]
          /\ \A j \in Instances \ {i} : inst'[j] = inst[j] /\ (holder = j => holder' = j)
          /\ holder' \in {holder, i, Nothing}
      BY <2>2, Elsewhere DEF Inductive
    <3>3. TypeOK'
      BY <3>1, <3>2 DEF Inductive, TypeOK
    <3>4. \A j \in Instances : Fits(inst'[j]) /\ (OwnsLock(inst'[j]) => holder' = j)
      BY <3>1, <3>2 DEF Inductive
    <3>5. ASSUME NEW j \in Instances
          PROVE  Fits(inst[j])' /\ (OwnsLock(inst[j]) => holder = j)'
      BY <3>2, <3>4
         DEF Fits, Booked, HandedOff, Landlocked, Confined, IsApplied, Applying, OwnsLock, Prepared
    <3>. QED
      BY <3>3, <3>5 DEF Inductive
  <2>. QED
    BY <2>1, <2>2 DEF Next, Moves
<1>. QED
  BY <1>1, <1>2, PTL DEF Spec

\* The values of the variables, whatever the instances do.
THEOREM TypeCorrect == Spec => []TypeOK
<1>1. Inductive => TypeOK
  BY DEF Inductive
<1>. QED
  BY <1>1, InductiveCorrect, PTL

\* An instance whose pool is open, and was not left behind by Stop, holds the lock: no two
\* instances, however many there are, use the database at once (ownership.go:58,
\* database.go:75).
THEOREM ExclusiveUseCorrect == Spec => []ExclusiveUse
<1>1. Inductive => ExclusiveUse
  BY DEF Inductive, Fits, Booked, OwnsLock, Running, ExclusiveUse
<1>. QED
  BY <1>1, InductiveCorrect, PTL

\* The calls that are looked at have an architecture and a number.
LEMMA CallsAreCalls == Calls \subseteq Calling
<1>1. \A arch \in DOMAIN Machine : Machine[arch] \in Nat
  BY DEF Machine
<1>2. \A name \in DOMAIN SyscallNumber : SyscallNumber[name] \in Nat
  BY HostAssumption DEF SyscallNumber, SyscallNumbers
<1>3. X32Bit \in Nat
  BY DEF X32Bit
<1>. QED
  BY <1>1, <1>2, <1>3 DEF Calls, Calling

\* A domain with the digest of a policy gives what that policy entitles to.
LEMMA DomainCorrect ==
  ASSUME NEW d \in Policies, NEW p \in Policies, Digest(d) = Digest(p)
  PROVE  DomainOf[d][p]
<1>1. d \in PolicyValues /\ p \in PolicyValues
  BY ResourcesAssumption
<1>2. \A path \in Host.files \cup Host.directories, right \in SupportedFilesystemRights :
        Permits(d, path, right) <=> Entitled(p, path, right)
  BY <1>1, DigestDecides, PermitsWhatIsEntitled
<1>. QED
  BY <1>2 DEF DomainOf

\* The filter of a policy answers as the policy says.
LEMMA FilterCorrect ==
  ASSUME NEW p \in Policies, Valid(p), Known(p)
  PROVE  FilterOf[p][p]
<1>1. p \in PolicyValues
  BY ResourcesAssumption
<1>2. \A call \in Calls : Verdict(Program(p), call) = Answer(p, call)
  BY <1>1, CallsAreCalls, FilterAnswers
<1>. QED
  BY <1>2 DEF FilterOf

\* What is composed is confined: under a required policy, or a status that says enforced,
\* every thread of the application may do with every file and every syscall what its own
\* policy says, on any host and for any policies, although the configuration may change
\* between the two images of the re-exec (platform_linux.go:67-107, 236-302, 363-385).
THEOREM ConfinementCorrect == Spec => []ComposedIsConfined
<1>1. Inductive => ComposedIsConfined
  <2>. SUFFICES ASSUME Inductive, NEW i \in Instances, inst[i].phase \in Running,
                       inst[i].policy.mode # "off",
                       inst[i].policy.mode = "required" \/ inst[i].enforced
                PROVE  /\ WantsLandlock(inst[i].policy) =>
                            /\ inst[i].scope = "process" /\ inst[i].domain # Nothing
                            /\ DomainOf[inst[i].domain][inst[i].policy]
                       /\ WantsSeccomp(inst[i].policy) =>
                            inst[i].filter # Nothing /\ FilterOf[inst[i].filter][inst[i].policy]
    BY DEF ComposedIsConfined
  <2>. DEFINE s == inst[i]
  <2>1. s \in Instance /\ Booked(s) /\ Confined(s)
    BY DEF Inductive, TypeOK, Fits
  <2>2. InDomain(s) /\ Filtered(s)
    BY <2>1 DEF Confined, IsApplied
  <2>3. s.policy \in Policies
    BY <2>1 DEF Booked, Instance
  <2>4. ASSUME WantsLandlock(s.policy)
        PROVE  s.scope = "process" /\ s.domain # Nothing /\ DomainOf[s.domain][s.policy]
    <3>1. s.domain \in Policies /\ Digest(s.domain) = Digest(s.policy)
      BY <2>1, <2>2, <2>4 DEF InDomain, Instance
    <3>. QED
      BY <2>2, <2>3, <2>4, <3>1, DomainCorrect DEF InDomain
  <2>5. ASSUME WantsSeccomp(s.policy)
        PROVE  s.filter # Nothing /\ FilterOf[s.filter][s.policy]
    BY <2>2, <2>3, <2>5, FilterCorrect, ResourcesAssumption DEF Filtered
  <2>. QED
    BY <2>4, <2>5
<1>. QED
  BY <1>1, InductiveCorrect, PTL
=============================================================================
