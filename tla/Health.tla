-------------------------------- MODULE Health --------------------------------
(***************************************************************************)
(* One call of health.Registry.Check on behalf of a health endpoint.       *)
(*                                                                         *)
(* Every selected check has two goroutines: a runner inside check.Run,     *)
(* which puts its result on a channel of one slot, and a waiter, which     *)
(* takes that result or gives up when the check's context is done and      *)
(* sends one outcome.  The call receives as many outcomes as it selected   *)
(* checks, in the order they arrive, and then looks at the admission.      *)
(* Calls share nothing but the admission, so one is enough.                *)
(***************************************************************************)
EXTENDS Naturals, Sequences

CONSTANTS
  Registry,   \* registry.checks: records of a name's rank and a kind
  Unreliable, \* the checks whose Run may never return
  Answers     \* what Run may return: records of a status and whether Err is set

\* Kind and Status of the source; a status of 0 is one the runner left unset.
Liveness  == 1
Readiness == 2

Pass == 1
Warn == 2
Fail == 3

Precedes(c, d) == c.name < d.name \/ (c.name = d.name /\ c.kind < d.kind)

\* What New makes of a group: it refuses a kind it does not know and a second
\* check of one name and kind, and sorts the others.
New(checks) ==
  /\ checks \in Seq([name : Nat, kind : {Liveness, Readiness}])
  /\ \A i, j \in DOMAIN checks : i < j => Precedes(checks[i], checks[j])

ASSUME RegistryAssumption == New(Registry)

ASSUME AnswersAssumption ==
  \A a \in Answers : a.status \in 0 .. Fail /\ a.err \in BOOLEAN

VARIABLES
  admission, \* "starting" and "draining" are closed
  call,      \* where the call of Check stands
  kind,      \* the kind asked for, 0 before
  runner,    \* "running" or "ended", of every selected check
  result,    \* the channel between runner and waiter
  expired,   \* checkContext is done
  waiter,    \* "waiting", "answered" or "gaveUp"
  outcomes,  \* the channel of outcomes
  results,   \* the status of the report's entries, 0 before
  overall,   \* the worst status received
  reply      \* the status of the report, 0 before it is written

checkVars == <<runner, result, expired, waiter>>
callVars  == <<call, kind, results, overall, reply>>
vars      == <<admission, callVars, checkVars, outcomes>>

\* The checks of a kind, numbered as in the registry: the order of the report.
OfKind == [k \in {0, Liveness, Readiness} |-> {i \in DOMAIN Registry : Registry[i].kind = k}]

Slots == OfKind[kind]

Nothing == [status |-> 0, err |-> FALSE, present |-> FALSE]

TypeOK ==
  /\ admission \in {"starting", "open", "draining"}
  /\ call \in {"idle", "collecting", "replied"}
  /\ kind \in {0, Liveness, Readiness}
  /\ runner \in [Slots -> {"running", "ended"}]
  /\ result \in [Slots -> [status : 0 .. Fail, err : BOOLEAN, present : BOOLEAN]]
  /\ expired \in [Slots -> BOOLEAN]
  /\ waiter \in [Slots -> {"waiting", "answered", "gaveUp"}]
  /\ outcomes \in Seq([index : Slots, status : 0 .. Fail, err : BOOLEAN])
  /\ results \in [Slots -> 0 .. Fail]
  /\ overall \in Pass .. Fail
  /\ reply \in 0 .. Fail

Blank ==
  /\ admission = "starting"
  /\ call = "idle"
  /\ kind = 0
  /\ results = [i \in Slots |-> 0]
  /\ runner = [i \in Slots |-> "running"]
  /\ result = [i \in Slots |-> Nothing]
  /\ expired = [i \in Slots |-> FALSE]
  /\ waiter = [i \in Slots |-> "waiting"]
  /\ outcomes = << >>
  /\ reply = 0

\* Mutant: overall is declared but not set.
InitUnset == Blank /\ overall = 0

Init == Blank /\ overall = Pass

(***************************************************************************)
(* The call.                                                               *)
(***************************************************************************)
CheckBegins ==
  /\ call = "idle"
  /\ call' = "collecting"
  /\ kind' \in {Liveness, Readiness}
  /\ results' = [i \in Slots' |-> 0]
  /\ runner' = [i \in Slots' |-> "running"]
  /\ result' = [i \in Slots' |-> Nothing]
  /\ expired' = [i \in Slots' |-> FALSE]
  /\ waiter' = [i \in Slots' |-> "waiting"]
  /\ UNCHANGED <<admission, outcomes, overall, reply>>

\* A status the runner left unset follows from its error.
Normal(outcome) ==
  IF outcome.status # 0 THEN outcome.status
  ELSE IF outcome.err THEN Fail ELSE Pass

Worse(left, right) == IF left > right THEN left ELSE right

Received == {i \in Slots : results[i] # 0}

\* Mutant: entries are filled in the order of arrival.
PlaceInOrder(outcome) ==
  LET next == CHOOSE i \in Slots \ Received : \A j \in Slots \ Received : i <= j
  IN  [results EXCEPT ![next] = Normal(outcome)]

\* The entry an outcome fills is that of its index, whenever it arrives.
Place(outcome) == [results EXCEPT ![outcome.index] = Normal(outcome)]

Receive ==
  /\ call = "collecting"
  /\ outcomes # << >>
  /\ results' = Place(Head(outcomes))
  /\ overall' = Worse(Normal(Head(outcomes)), overall)
  /\ outcomes' = Tail(outcomes)
  /\ UNCHANGED <<admission, call, kind, checkVars, reply>>

\* Mutant: every kind depends on the admission.
VerdictOfAnyKind == IF admission # "open" THEN Fail ELSE overall

\* Only readiness depends on the admission, read after the last outcome.
Verdict == IF kind = Readiness /\ admission # "open" THEN Fail ELSE overall

Reply ==
  /\ call = "collecting"
  /\ Received = Slots
  /\ call' = "replied"
  /\ reply' = Verdict
  /\ UNCHANGED <<admission, kind, results, overall, checkVars, outcomes>>

(***************************************************************************)
(* The goroutines of a check.                                              *)
(***************************************************************************)
\* Mutant: the channel has no slot, so the runner needs its waiter.
RunReturnsToWaiter(i) ==
  /\ i \in Slots /\ runner[i] = "running"
  /\ waiter[i] = "waiting"
  /\ \E answer \in Answers :
       result' = [result EXCEPT ![i] = [status |-> answer.status, err |-> answer.err,
                                        present |-> TRUE]]
  /\ runner' = [runner EXCEPT ![i] = "ended"]
  /\ UNCHANGED <<admission, callVars, expired, waiter, outcomes>>

RunReturns(i) ==
  /\ i \in Slots /\ runner[i] = "running"
  /\ \E answer \in Answers :
       result' = [result EXCEPT ![i] = [status |-> answer.status, err |-> answer.err,
                                        present |-> TRUE]]
  /\ runner' = [runner EXCEPT ![i] = "ended"]
  /\ UNCHANGED <<admission, callVars, expired, waiter, outcomes>>

Send(i, value) ==
  outcomes' = Append(outcomes, [index |-> i, status |-> value.status, err |-> value.err])

WaiterAnswers(i) ==
  /\ i \in Slots /\ waiter[i] = "waiting"
  /\ result[i].present
  /\ waiter' = [waiter EXCEPT ![i] = "answered"]
  /\ Send(i, result[i])
  /\ UNCHANGED <<admission, callVars, runner, result, expired>>

\* The select may take either branch when both are ready.
WaiterGivesUp(i) ==
  /\ i \in Slots /\ waiter[i] = "waiting"
  /\ expired[i]
  /\ waiter' = [waiter EXCEPT ![i] = "gaveUp"]
  /\ Send(i, [status |-> Fail, err |-> TRUE])
  /\ UNCHANGED <<admission, callVars, runner, result, expired>>

(***************************************************************************)
(* Timers, the client, and the application.                                *)
(***************************************************************************)
\* The timeout of the check, DefaultTimeout when it names none.
TimeoutFires(i) ==
  /\ i \in Slots /\ ~expired[i]
  /\ waiter[i] = "waiting"
  /\ expired' = [expired EXCEPT ![i] = TRUE]
  /\ UNCHANGED <<admission, callVars, runner, result, waiter, outcomes>>

\* The client of the endpoint goes away: the request's context is done.
ClientLeaves ==
  /\ call = "collecting"
  /\ \E i \in Slots : ~expired[i]
  /\ expired' = [i \in Slots |-> TRUE]
  /\ UNCHANGED <<admission, callVars, runner, result, waiter, outcomes>>

\* Run opens admission once and closes it when the application stops.
Admit ==
  /\ admission = "starting"
  /\ admission' = "open"
  /\ UNCHANGED <<callVars, checkVars, outcomes>>

Drain ==
  /\ admission = "open"
  /\ admission' = "draining"
  /\ UNCHANGED <<callVars, checkVars, outcomes>>

Check(i) == RunReturns(i) \/ WaiterAnswers(i) \/ WaiterGivesUp(i) \/ TimeoutFires(i)

Next ==
  \/ CheckBegins \/ Receive \/ Reply
  \/ \E i \in Slots : Check(i)
  \/ ClientLeaves \/ Admit \/ Drain

Spec == Init /\ [][Next]_vars

\* Timers fire and goroutines run; a check that is not Unreliable returns.
MaxSlots == Len(Registry)

FairSpec ==
  /\ Spec
  /\ WF_vars(Receive) /\ WF_vars(Reply)
  /\ \A i \in 1 .. MaxSlots :
       /\ WF_vars(TimeoutFires(i))
       /\ WF_vars(WaiterAnswers(i) \/ WaiterGivesUp(i))
       /\ WF_vars(i \in Slots /\ Registry[i] \notin Unreliable /\ RunReturns(i))

(***************************************************************************)
(* Properties.                                                             *)
(***************************************************************************)
\* A probe is answered with pass or warn only when every check it selected
\* has itself returned, in time, and none of them failed: a check that hangs,
\* is given up on, or answers after that is never counted as healthy; and no
\* readiness probe passes before the application has been admitted.  Whatever
\* the order in which the outcomes arrive, an entry of the report that says pass
\* or warn belongs to a check that said so (health.go:130-163).
GoodReplyIsEarned ==
  /\ reply \in {Pass, Warn} =>
       /\ \A i \in Slots : waiter[i] = "answered" /\ Normal(result[i]) <= reply
       /\ kind = Readiness => admission # "starting"
  /\ \A i \in Received : results[i] # Fail =>
       waiter[i] = "answered" /\ results[i] = Normal(result[i])

\* Liveness stays as the checks say while the application drains: a failing
\* liveness probe has a check to blame, never the admission (health.go:163).
LivenessOutlivesDrain ==
  reply = Fail /\ kind = Liveness =>
    \E i \in Slots : waiter[i] = "gaveUp" \/ Normal(result[i]) = Fail

\* Check returns although a check never does, and a runner that was given up on still
\* ends once its check.Run returns: it finds room in its channel although nobody waits
\* any more (health.go:118-142).
CheckReturns ==
  /\ (call = "collecting") ~> (call = "replied")
  /\ \A i \in 1 .. MaxSlots :
       (i \in Slots /\ Registry[i] \notin Unreliable) ~> (i \in Slots /\ runner[i] = "ended")
===============================================================================
