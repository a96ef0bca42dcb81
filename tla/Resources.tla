------------------------------ MODULE Resources ------------------------------
(***************************************************************************)
(* What instances of one application hold on one host, from launch to      *)
(* exit: the ownership lock, the Linux confinement with its re-exec, and   *)
(* the database pool, in the order hanami.Run acquires and releases them.  *)
(* What a policy makes of Landlock and seccomp is defined in Confinement.  *)
(*                                                                         *)
(* The kernel is external: a file lock falls when its descriptor is closed *)
(* (by Close, by exec, by death), a Landlock domain and a seccomp filter   *)
(* are never taken back in a process, and exec keeps them.  So is          *)
(* database/sql, whose Close waits for the queries under way.              *)
(***************************************************************************)
EXTENDS Confinement

CONSTANTS
  Instances, \* processes of the application that may be launched
  Policies,  \* securitylinux.Policy values Load may lead to
  Orders,    \* orders in which the two options are passed to Run
  Nothing    \* no instance, no policy

ASSUME ResourcesAssumption ==
  /\ Orders \subseteq {<<"ownership", "security">>, <<"security", "ownership">>}
  /\ Nothing \notin Instances \cup Policies
  /\ Policies \subseteq PolicyValues

VARIABLES
  order,  \* the order of the options, part of the program
  early,  \* whether main calls MaybeReexec before Run
  holder, \* the instance whose open file holds the lock
  inst    \* the state of every instance

program == <<order, early>>

vars == <<program, holder, inst>>

Booting == {"launched", "loading", "preparing", "restricted", "layering"}
Running == {"composing", "starting", "serving", "stopping"}

Instance ==
  [phase    : Booting \cup Running \cup {"off", "cleaning", "exiting"},
   next     : 1 .. 3,                             \* the integration to prepare
   policy   : Policies \cup {Nothing},
   handoff  : Policies \cup {Nothing},            \* whose handoff the environment has
   caller   : {"main", "Prepare"},                \* of the code that restricts
   domain   : Policies \cup {Nothing},            \* the Landlock domain
   scope    : {"none", "thread", "process"},      \* the threads it covers
   filter   : Policies \cup {Nothing},            \* the seccomp filter
   landlock : {"unwanted", "verified", "missing"}, \* Status.Landlock
   enforced : BOOLEAN,                            \* Status.Enforced
   pool     : {"none", "open", "abandoned", "closed"},
   overdue  : BOOLEAN]                            \* Stop gave up on the pool

TypeOK ==
  /\ order \in Orders /\ early \in BOOLEAN
  /\ holder \in Instances \cup {Nothing}
  /\ inst \in [Instances -> Instance]

Down ==
  [phase |-> "off", next |-> 1, policy |-> Nothing, handoff |-> Nothing,
   caller |-> "Prepare", domain |-> Nothing, scope |-> "none", filter |-> Nothing, landlock |-> "unwanted",
   enforced |-> FALSE, pool |-> "none", overdue |-> FALSE]

Init ==
  /\ order \in Orders /\ early \in BOOLEAN
  /\ holder = Nothing
  /\ inst = [i \in Instances |-> Down]

At(i, phase) == inst[i].phase = phase

Policy(i) == inst[i].policy

\* The descriptor of the lock is closed.
Unlock(i) == holder' = IF holder = i THEN Nothing ELSE holder

\* Mutant: the digest in the handoff is not compared.
Unmatched == [h \in Policies |-> [p \in Policies |-> ~PathGranted(p, SelectProbe(h))]]
\* What VerifyHandoff compares of a handoff for h with p.
Matches ==
  [h \in Policies |->
     [p \in Policies |-> Digest(h) = Digest(p) /\ ~PathGranted(p, SelectProbe(h))]]

\* The domain of d keeps a process from opening the probe of h.
Denies ==
  [d \in Policies |-> [h \in Policies |-> ~Permits(d, SelectProbe(h), "read_file")]]

\* VerifyHandoff: the digest is p's, and opening the probe is denied.
HandoffValid(i, p) ==
  LET s == inst[i] IN
  /\ s.handoff # Nothing
  /\ Matches[s.handoff][p]
  /\ s.scope = "process" /\ Denies[s.domain][s.handoff]

\* ReexecForPolicy gets as far as the restriction.
Restrictable == [p \in Policies |-> SelectProbe(p) # NoProbe /\ Buildable(p)]

\* The restricted thread may list its descriptors, which SealDescriptors does, and
\* execute its own file.
Reexecutable ==
  [d \in Policies |->
     /\ Permits(d, <<"proc", "self", "fd">>, "read_directory")
     /\ \A right \in {"read_file", "execute"} : Permits(d, Host.executable, right)]

-----------------------------------------------------------------------------
(* Launch.  A program may call MaybeReexec before Run, with a policy that  *)
(* is a value of its own; on an error it exits.                            *)

Entry == IF early THEN "launched" ELSE "loading"

Launch(i) ==
  /\ At(i, "off")
  /\ inst' = [inst EXCEPT ![i].phase = Entry]
  /\ UNCHANGED <<program, holder>>

\* MaybeReexec has nothing to do, or finds the handoff of this policy, which it
\* leaves to Apply.
EarlyPasses(i) ==
  /\ At(i, "launched")
  /\ \E p \in Policies :
       /\ Valid(p)
       /\ p.mode # "off" /\ WantsLandlock(p) => HandoffValid(i, p)
  /\ inst' = [inst EXCEPT ![i].phase = "loading"]
  /\ UNCHANGED <<program, holder>>

\* The policy or the handoff is not valid, or the re-exec fails early.
EarlyFails(i) ==
  /\ At(i, "launched")
  /\ \E p \in Policies : Valid(p) => p.mode # "off" /\ WantsLandlock(p) /\ ~HandoffValid(i, p)
  /\ inst' = [inst EXCEPT ![i].phase = "exiting"]
  /\ UNCHANGED <<program, holder>>

\* ReexecForPolicy restricts the locked thread first.
Restricts(i, p, caller) ==
  /\ Valid(p) /\ p.mode # "off" /\ WantsLandlock(p)
  /\ inst[i].handoff = Nothing
  /\ Restrictable[p]
  /\ inst' = [inst EXCEPT ![i].phase = "restricted", ![i].policy = p, ![i].caller = caller,
                          ![i].domain = p, ![i].scope = "thread"]
  /\ UNCHANGED <<program, holder>>

EarlyRestricts(i) == At(i, "launched") /\ \E p \in Policies : Restricts(i, p, "main")

-----------------------------------------------------------------------------
(* Run up to the integrations.  Load runs again in the image a re-exec     *)
(* starts, and may find another configuration.                             *)

Load(i) ==
  /\ At(i, "loading")
  /\ \E p \in Policies : inst' = [inst EXCEPT ![i].phase = "preparing", ![i].policy = p]
  /\ UNCHANGED <<program, holder>>

Due(i, integration) ==
  At(i, "preparing") /\ inst[i].next <= Len(order) /\ order[inst[i].next] = integration

\* Prepare returns an error: Run cleans up what was prepared.
PrepareFails(i) ==
  /\ At(i, "preparing") /\ inst[i].next <= Len(order)
  /\ inst' = [inst EXCEPT ![i].phase = "cleaning"]
  /\ UNCHANGED <<program, holder>>

\* TryLockContext retries until the lock is free; PrepareFails ends it when the
\* startup context does.
Acquire(i) ==
  /\ Due(i, "ownership")
  /\ holder = Nothing
  /\ holder' = i
  /\ inst' = [inst EXCEPT ![i].next = @ + 1]
  /\ UNCHANGED program

-----------------------------------------------------------------------------
(* applyPlatform.                                                          *)

\* Validate refuses the policy.
PolicyInvalid(i) ==
  /\ Due(i, "security") /\ ~Valid(Policy(i))
  /\ inst' = [inst EXCEPT ![i].phase = "cleaning"]
  /\ UNCHANGED <<program, holder>>

\* Mutant: the loop over the integrations loses count.
SecuritySkips(i) ==
  /\ Due(i, "security") /\ Valid(Policy(i)) /\ Policy(i).mode = "off"
  /\ inst' = [inst EXCEPT ![i].next = @ + 2]
  /\ UNCHANGED <<program, holder>>

SecurityOff(i) ==
  /\ Due(i, "security") /\ Valid(Policy(i)) /\ Policy(i).mode = "off"
  /\ inst' = [inst EXCEPT ![i].next = @ + 1]
  /\ UNCHANGED <<program, holder>>

Selected(i) == Due(i, "security") /\ Valid(Policy(i)) /\ Policy(i).mode # "off"

LandlockUnwanted(i) ==
  /\ Selected(i) /\ ~WantsLandlock(Policy(i))
  /\ inst' = [inst EXCEPT ![i].phase = "layering"]
  /\ UNCHANGED <<program, holder>>

HandoffAccepted(i) ==
  /\ Selected(i) /\ WantsLandlock(Policy(i))
  /\ HandoffValid(i, Policy(i))
  /\ inst' = [inst EXCEPT ![i].phase = "layering", ![i].landlock = "verified",
                          ![i].handoff = Nothing]
  /\ UNCHANGED <<program, holder>>

\* The kernel lacks Landlock, the handoff is not valid, or the re-exec fails
\* before anything is restricted.
LandlockMissing(i) ==
  /\ Selected(i) /\ WantsLandlock(Policy(i))
  /\ inst' = [inst EXCEPT ![i].phase = "layering", ![i].landlock = "missing"]
  /\ UNCHANGED <<program, holder>>

RestrictThread(i) == Selected(i) /\ Restricts(i, Policy(i), "Prepare")

\* What exec leaves of the process: domain, filter and environment.
Image(i, digest) ==
  [Down EXCEPT !.phase = Entry, !.handoff = digest, !.domain = inst[i].domain,
               !.scope = "process", !.filter = inst[i].filter]

\* Mutant: the handoff does not reach the environment of the new image.
ReexecBare(i) ==
  /\ At(i, "restricted") /\ Reexecutable[inst[i].domain]
  /\ inst' = [inst EXCEPT ![i] = Image(i, Nothing)]
  /\ Unlock(i)
  /\ UNCHANGED program
\* All descriptors but 0, 1 and 2 are closed, an acquired lock's among them.
Reexec(i) ==
  /\ At(i, "restricted") /\ Reexecutable[inst[i].domain]
  /\ inst' = [inst EXCEPT ![i] = Image(i, Policy(i))]
  /\ Unlock(i)
  /\ UNCHANGED program

\* SealDescriptors, Setenv or exec fails; the last one after Setenv.  The thread stays
\* restricted and goes back to the others.
ReexecFails(i) ==
  /\ At(i, "restricted")
  /\ \E digest \in {Nothing, Policy(i)} :
       inst' = [inst EXCEPT ![i].phase = IF inst[i].caller = "main" THEN "exiting" ELSE "layering",
                            ![i].landlock = "missing", ![i].handoff = digest]
  /\ UNCHANGED <<program, holder>>

\* finishPlatform: a required policy that is not enforced fails Prepare.
FinishPlatform(i, filter, seccomp) ==
  LET enforced == inst[i].landlock # "missing" /\ seccomp # "missing"
      refused  == Policy(i).mode = "required" /\ ~enforced
  IN  inst' = [inst EXCEPT ![i].phase = IF refused THEN "cleaning" ELSE "preparing",
                           ![i].next = IF refused THEN @ ELSE @ + 1,
                           ![i].filter = filter, ![i].enforced = enforced]

\* The filter covers all threads at once.  A policy that names a syscall the table
\* lacks gets none; the kernel may refuse it, or not report it.
Seccomp(i) ==
  /\ At(i, "layering")
  /\ IF WantsSeccomp(Policy(i))
     THEN \/ Known(Policy(i)) /\ FinishPlatform(i, Policy(i), "verified")
          \/ \E filter \in {inst[i].filter} \cup (IF Known(Policy(i)) THEN {Policy(i)} ELSE {}) :
               FinishPlatform(i, filter, "missing")
     ELSE FinishPlatform(i, inst[i].filter, "unwanted")
  /\ UNCHANGED <<program, holder>>

PrepareEnds(i) ==
  /\ At(i, "preparing") /\ inst[i].next > Len(order)
  /\ inst' = [inst EXCEPT ![i].phase = "composing"]
  /\ UNCHANGED <<program, holder>>

-----------------------------------------------------------------------------
(* The database of the Fx graph.                                           *)

\* newRuntime opens the pool and registers its hook.
Compose(i) ==
  /\ At(i, "composing")
  /\ inst' = [inst EXCEPT ![i].phase = "starting", ![i].pool = "open"]
  /\ UNCHANGED <<program, holder>>

\* A constructor fails, before or after newRuntime: hooks of a graph that was
\* never started do not run.
ComposeFails(i) ==
  /\ At(i, "composing")
  /\ \E pool \in {"none", "abandoned"} :
       inst' = [inst EXCEPT ![i].phase = "cleaning", ![i].pool = pool]
  /\ UNCHANGED <<program, holder>>

\* A hook before the database's fails to start.
EarlierHookFails(i) ==
  /\ At(i, "starting")
  /\ inst' = [inst EXCEPT ![i].phase = "cleaning", ![i].pool = "abandoned"]
  /\ UNCHANGED <<program, holder>>

PingPasses(i) ==
  /\ At(i, "starting")
  /\ inst' = [inst EXCEPT ![i].phase = "serving"]
  /\ UNCHANGED <<program, holder>>

\* Mutant: the failing hook leaves its own pool open.
PingFailsOpen(i) ==
  /\ At(i, "starting")
  /\ inst' = [inst EXCEPT ![i].phase = "cleaning"]
  /\ UNCHANGED <<program, holder>>
PingFails(i) ==
  /\ At(i, "starting")
  /\ inst' = [inst EXCEPT ![i].phase = "cleaning", ![i].pool = "closed"]
  /\ UNCHANGED <<program, holder>>

\* A stop request, or a failure after the database's hook has started.
StopBegins(i) ==
  /\ At(i, "serving")
  /\ inst' = [inst EXCEPT ![i].phase = "stopping"]
  /\ UNCHANGED <<program, holder>>

PoolCloses(i) ==
  /\ At(i, "stopping")
  /\ inst' = [inst EXCEPT ![i].phase = "cleaning", ![i].pool = "closed"]
  /\ UNCHANGED <<program, holder>>

\* The hook ignores its context; Stop does not, and goes on without it.
StopExpires(i) ==
  /\ At(i, "stopping")
  /\ inst' = [inst EXCEPT ![i].phase = "cleaning", ![i].overdue = TRUE]
  /\ UNCHANGED <<program, holder>>

\* The cleanup closes the lock file, or fails to.
Cleanup(i) ==
  /\ At(i, "cleaning")
  /\ inst' = [inst EXCEPT ![i].phase = "exiting"]
  /\ Unlock(i) \/ UNCHANGED holder
  /\ UNCHANGED program

Dies(i) ==
  /\ inst' = [inst EXCEPT ![i] = Down]
  /\ Unlock(i)
  /\ UNCHANGED program

Exit(i) == At(i, "exiting") /\ Dies(i)

Crash(i) == inst[i].phase \notin {"off", "exiting"} /\ Dies(i)

-----------------------------------------------------------------------------
Security(i) ==
  \/ PolicyInvalid(i) \/ SecurityOff(i) \/ LandlockUnwanted(i) \/ HandoffAccepted(i)
  \/ LandlockMissing(i) \/ RestrictThread(i) \/ Seccomp(i)

Boot(i) ==
  \/ EarlyPasses(i) \/ EarlyFails(i) \/ EarlyRestricts(i) \/ Load(i) \/ PrepareFails(i)
  \/ Acquire(i) \/ Security(i) \/ Reexec(i) \/ ReexecFails(i) \/ PrepareEnds(i)

Database(i) ==
  \/ Compose(i) \/ ComposeFails(i) \/ EarlierHookFails(i) \/ PingPasses(i) \/ PingFails(i)
  \/ StopBegins(i) \/ PoolCloses(i) \/ StopExpires(i)

Next ==
  \E i \in Instances :
    Launch(i) \/ Boot(i) \/ Database(i) \/ Cleanup(i) \/ Exit(i) \/ Crash(i)

Spec == Init /\ [][Next]_vars

\* Load and Prepare are given the startup context and return.
FairSpec == Spec /\ \A i \in Instances : WF_vars(Boot(i))

-----------------------------------------------------------------------------
\* An instance that uses the database holds the ownership lock, through crashes,
\* failures and the re-exec that drops the lock, so no two ever use it at once;
\* but for a pool whose Close outlasted Stop, and one whose hook never started
\* (ownership.go:58, database.go:75, hanami.go:136, platform_linux.go:214).
ExclusiveUse ==
  \A i \in Instances : inst[i].pool = "open" /\ ~inst[i].overdue => holder = i

\* The domain of d gives what p entitles to.
DomainOf ==
  [d \in Policies |->
     [p \in Policies |->
        \A path \in Host.files \cup Host.directories, right \in SupportedFilesystemRights :
          Permits(d, path, right) <=> Entitled(p, path, right)]]

\* Every syscall of the table, one it lacks, and the x32 variants, from each ABI.
Calls ==
  LET nrs == {SyscallNumber[name] : name \in DOMAIN SyscallNumber} \cup {1000} IN
  [arch : {Machine[arch] : arch \in DOMAIN Machine}, nr : nrs \cup {X32Bit + nr : nr \in nrs}]

\* The filter of f answers as p says.
FilterOf ==
  [f \in Policies |->
     [p \in Policies |->
        Known(f) /\ \A call \in Calls : Verdict(Program(f), call) = Answer(p, call)]]

\* The application is composed only when what it was promised is in force: under
\* a required policy, or a status that says enforced, every thread may do with
\* every file what this very policy entitles it to and no more, and every syscall
\* has the answer the policy gives it, although the configuration may have changed
\* between the two images of the re-exec (security.go:81, platform_linux.go:67-107,
\* 236-302, 363-385).
ComposedIsConfined ==
  \A i \in Instances :
    LET s == inst[i] IN
    s.phase \in Running /\ s.policy.mode # "off" /\ (s.policy.mode = "required" \/ s.enforced) =>
      /\ WantsLandlock(s.policy) =>
           s.scope = "process" /\ s.domain # Nothing /\ DomainOf[s.domain][s.policy]
      /\ WantsSeccomp(s.policy) => s.filter # Nothing /\ FilterOf[s.filter][s.policy]

\* Preparation ends: waiting for the lock is bounded, and a process does not
\* re-execute itself for ever (platform_linux.go:69, 215).
PreparationEnds ==
  \A i \in Instances : inst[i].phase \in Booting ~> inst[i].phase \notin Booting
=============================================================================
