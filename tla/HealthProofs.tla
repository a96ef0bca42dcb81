----------------------------- MODULE HealthProofs -----------------------------
(***************************************************************************)
(* What a probe may answer, for any registry and any answers of its        *)
(* checks: the type invariant, that a good reply was earned, and that      *)
(* a failing liveness probe has a check to blame.                          *)
(***************************************************************************)
EXTENDS Health, TLAPS

\* The status s stands for what became of check i: its own result, or the failure
\* of the waiter that gave up on it.
Earned(i, s) ==
  \/ waiter[i] = "answered" /\ s = Normal(result[i])
  \/ waiter[i] = "gaveUp" /\ s = Fail

\* A waiter answers with what the runner has put in the channel, which is there to stay.
RunnerInv ==
  \A i \in Slots :
    /\ result[i].present => runner[i] = "ended"
    /\ waiter[i] = "answered" => result[i].present

\* Outcomes on their way, and the entries they have filled, are earned.
OutcomesInv == \A n \in 1 .. Len(outcomes) : Earned(outcomes[n].index, Normal(outcomes[n]))
EntriesInv == \A i \in Slots : results[i] # 0 => Earned(i, results[i])

\* overall is the worst of the entries, and nothing else.
OverallInv ==
  /\ \A i \in Slots : results[i] <= overall
  /\ overall = Pass \/ \E i \in Slots : results[i] = overall

\* Nothing is selected before the call.
IdleInv == call = "idle" => kind = 0 /\ outcomes = << >> /\ overall = Pass

\* A reply stands on every entry; only readiness fails on account of the admission.
ReplyInv ==
  reply # 0 =>
    /\ call = "replied"
    /\ \A i \in Slots : results[i] # 0
    /\ reply = overall \/ (kind = Readiness /\ reply = Fail)
    /\ kind = Readiness /\ reply # Fail => admission # "starting"

Inductive ==
  /\ TypeOK /\ IdleInv /\ RunnerInv
  /\ OutcomesInv /\ EntriesInv /\ OverallInv /\ ReplyInv

-----------------------------------------------------------------------------
\* A status the runner left unset never stays unset.
LEMMA NormalRange ==
  ASSUME NEW o, o.status \in 0 .. Fail
  PROVE  Normal(o) \in Pass .. Fail
BY DEF Normal, Pass, Fail

\* A channel keeps the order in which values were sent, and their type.
LEMMA Channel ==
  ASSUME NEW S, NEW q \in Seq(S)
  PROVE  /\ \A n \in 1 .. Len(q) : q[n] \in S
         /\ q # << >> => /\ Head(q) = q[1] /\ Head(q) \in S /\ 1 \in 1 .. Len(q)
                        /\ Tail(q) \in Seq(S) /\ Len(Tail(q)) = Len(q) - 1
                        /\ \A n \in 1 .. Len(Tail(q)) : n + 1 \in 1 .. Len(q) /\ Tail(q)[n] = q[n + 1]
         /\ \A v \in S : /\ Append(q, v) \in Seq(S) /\ Len(Append(q, v)) = Len(q) + 1
                        /\ Append(q, v)[Len(q) + 1] = v
                        /\ \A n \in 1 .. Len(q) : Append(q, v)[n] = q[n]
OBVIOUS

\* No check is selected before the kind is known.
LEMMA NothingSelected == kind = 0 => Slots = {}
<1> DEFINE Checks == [name : Nat, kind : {Liveness, Readiness}]
<1>1. Registry \in Seq(Checks)
  BY RegistryAssumption DEF New
<1>2. \A c \in Checks : c.kind # 0
  BY DEF Liveness, Readiness
<1>. HIDE DEF Checks
<1>3. \A i \in DOMAIN Registry : Registry[i] \in Checks
  BY <1>1
<1>4. \A i \in DOMAIN Registry : Registry[i].kind # 0
  BY <1>2, <1>3
<1>. QED
  BY <1>4 DEF Slots, OfKind

\* What a waiter may send.
Outcomes == [index : Slots, status : 0 .. Fail, err : BOOLEAN]

\* The variables of a call are functions on the selected checks.
LEMMA InitHolds == Init => Inductive
<1>. SUFFICES ASSUME Init PROVE Inductive
  OBVIOUS
<1>1. Slots = {}
  BY NothingSelected DEF Init, Blank
<1>2. TypeOK
  BY <1>1 DEF Init, Blank, TypeOK, Pass, Fail, Nothing
<1>3. IdleInv /\ RunnerInv /\ EntriesInv
  BY <1>1 DEF Init, Blank, IdleInv, RunnerInv, EntriesInv
<1>4. OutcomesInv /\ OverallInv /\ ReplyInv
  BY <1>1 DEF Init, Blank, OutcomesInv, OverallInv, ReplyInv
<1>. QED
  BY <1>2, <1>3, <1>4 DEF Inductive

\* Every step keeps the types.
LEMMA TypePreserved ==
  ASSUME TypeOK, IdleInv, [Next]_vars
  PROVE  TypeOK'
<1>. USE DEF TypeOK, callVars, checkVars, Pass, Fail
<1>1. CASE CheckBegins
  <2>1. outcomes' = << >> /\ kind' \in {Liveness, Readiness}
    BY <1>1 DEF CheckBegins, IdleInv
  <2>2. /\ results' \in [Slots' -> 0 .. Fail]
        /\ runner' \in [Slots' -> {"running", "ended"}]
        /\ result' \in [Slots' -> [status : 0 .. Fail, err : BOOLEAN, present : BOOLEAN]]
        /\ expired' \in [Slots' -> BOOLEAN]
        /\ waiter' \in [Slots' -> {"waiting", "answered", "gaveUp"}]
    BY <1>1 DEF CheckBegins, Nothing
  <2>. QED
    BY <1>1, <2>1, <2>2 DEF CheckBegins
<1>2. CASE Receive
  <2> DEFINE o == Head(outcomes)
  <2>6. outcomes \in Seq(Outcomes) /\ outcomes # << >>
    BY <1>2 DEF Receive, Outcomes
  <2>7. o \in Outcomes /\ Tail(outcomes) \in Seq(Outcomes)
    BY <2>6, Channel
  <2>1. o \in [index : Slots, status : 0 .. Fail, err : BOOLEAN]
    BY <2>7 DEF Outcomes
  <2>2. Normal(o) \in Pass .. Fail
    BY <2>1, NormalRange
  <2>3. results' = [results EXCEPT ![o.index] = Normal(o)] /\ overall' = Worse(Normal(o), overall)
    BY <1>2 DEF Receive, Place
  <2>4. outcomes' \in Seq([index : Slots, status : 0 .. Fail, err : BOOLEAN]) /\ Slots' = Slots
    BY <1>2, <2>7 DEF Receive, Slots, Outcomes
  <2>. HIDE DEF o
  <2>5. results' \in [Slots -> 0 .. Fail] /\ overall' \in Pass .. Fail
    BY <2>1, <2>2, <2>3 DEF Worse
  <2>. QED
    BY <1>2, <2>4, <2>5 DEF Receive
<1>3. CASE Reply
  BY <1>3 DEF Reply, Verdict, Slots
<1>4. ASSUME NEW i \in Slots, RunReturns(i) PROVE TypeOK'
  <2>1. PICK answer \in Answers :
          result' = [result EXCEPT ![i] = [status |-> answer.status, err |-> answer.err,
                                           present |-> TRUE]]
    BY <1>4 DEF RunReturns
  <2>2. result' \in [Slots -> [status : 0 .. Fail, err : BOOLEAN, present : BOOLEAN]]
    BY <2>1, AnswersAssumption
  <2>3. runner' \in [Slots -> {"running", "ended"}] /\ Slots' = Slots
    BY <1>4 DEF RunReturns, Slots
  <2>. QED
    BY <1>4, <2>2, <2>3 DEF RunReturns
<1>5. ASSUME NEW i \in Slots, WaiterAnswers(i) \/ WaiterGivesUp(i) PROVE TypeOK'
  <2>3. outcomes \in Seq(Outcomes)
    BY DEF Outcomes
  <2>4. PICK o \in Outcomes : outcomes' = Append(outcomes, o)
    <3>1. CASE WaiterAnswers(i)
      <4>1. [index |-> i, status |-> result[i].status, err |-> result[i].err] \in Outcomes
        BY DEF Outcomes
      <4>. QED
        BY <3>1, <4>1 DEF WaiterAnswers, Send
    <3>2. CASE WaiterGivesUp(i)
      <4>1. [index |-> i, status |-> Fail, err |-> TRUE] \in Outcomes
        BY DEF Outcomes
      <4>. QED
        BY <3>2, <4>1 DEF WaiterGivesUp, Send
    <3>. QED
      BY <1>5, <3>1, <3>2
  <2>1. outcomes' \in Seq(Outcomes)
    BY <2>3, <2>4, Channel
  <2>2. waiter' \in [Slots -> {"waiting", "answered", "gaveUp"}] /\ Slots' = Slots
    BY <1>5 DEF WaiterAnswers, WaiterGivesUp, Slots
  <2>. QED
    BY <1>5, <2>1, <2>2 DEF WaiterAnswers, WaiterGivesUp, Outcomes
<1>6. ASSUME NEW i \in Slots, TimeoutFires(i) PROVE TypeOK'
  BY <1>6 DEF TimeoutFires, Slots
<1>7. CASE ClientLeaves
  BY <1>7 DEF ClientLeaves, Slots
<1>8. CASE Admit \/ Drain
  BY <1>8 DEF Admit, Drain, Slots
<1>9. CASE UNCHANGED vars
  BY <1>9 DEF vars, Slots
<1>. QED
  BY <1>1, <1>2, <1>3, <1>4, <1>5, <1>6, <1>7, <1>8, <1>9 DEF Next, Check

\* Every step keeps outcomes and entries earned, and overall their worst.
LEMMA EarnedPreserved ==
  ASSUME Inductive, TypeOK', [Next]_vars
  PROVE  IdleInv' /\ RunnerInv' /\ OutcomesInv' /\ EntriesInv' /\ OverallInv'
<1> DEFINE Goal == IdleInv' /\ RunnerInv' /\ OutcomesInv' /\ EntriesInv' /\ OverallInv'
<1>. SUFFICES Goal
  OBVIOUS
<1>. USE DEF Inductive, TypeOK, callVars, checkVars
<1>1. CASE CheckBegins
  <2>1. outcomes' = << >> /\ call' = "collecting" /\ overall' = Pass
    BY <1>1 DEF CheckBegins, IdleInv
  <2>2. \A i \in Slots' : /\ results'[i] = 0 /\ waiter'[i] = "waiting"
                          /\ result'[i] = Nothing
    BY <1>1 DEF CheckBegins
  <2>3. IdleInv' /\ OutcomesInv' /\ OverallInv' /\ EntriesInv'
    BY <2>1, <2>2 DEF IdleInv, OutcomesInv, OverallInv, EntriesInv, Pass
  <2>4. RunnerInv'
    BY <2>2 DEF RunnerInv, Nothing
  <2>. QED
    BY <2>3, <2>4
<1>2. CASE Receive
  <2> DEFINE o == Head(outcomes)
  <2>11. outcomes \in Seq(Outcomes) /\ outcomes # << >>
    BY <1>2 DEF Receive, Outcomes
  <2>12. o \in Outcomes /\ o = outcomes[1] /\ 1 \in 1 .. Len(outcomes)
    BY <2>11, Channel
  <2>1. o.index \in Slots /\ o.status \in 0 .. Fail
    BY <2>12 DEF Outcomes
  <2>2. Normal(o) \in Pass .. Fail
    BY <2>1, NormalRange
  <2>3. Earned(o.index, Normal(o))
    BY <2>12 DEF OutcomesInv
  <2>4. results' = [results EXCEPT ![o.index] = Normal(o)] /\ overall' = Worse(Normal(o), overall)
    BY <1>2 DEF Receive, Place
  <2>5. /\ Len(outcomes') = Len(outcomes) - 1
        /\ \A n \in 1 .. Len(outcomes') :
             n + 1 \in 1 .. Len(outcomes) /\ outcomes'[n] = outcomes[n + 1]
    BY <1>2, <2>11, Channel DEF Receive
  <2>6. UNCHANGED <<kind, waiter, result, runner, call, Slots>> /\ call' # "idle"
    BY <1>2 DEF Receive, Slots
  <2>. HIDE DEF o
  <2>7. IdleInv' /\ RunnerInv'
    BY <2>6 DEF IdleInv, RunnerInv
  <2>13. \A j, t : Earned(j, t) => Earned(j, t)'
    BY <2>6 DEF Earned
  <2>8. OutcomesInv'
    BY <2>5, <2>13 DEF OutcomesInv
  <2>9. EntriesInv'
    BY <2>1, <2>3, <2>4, <2>6 DEF EntriesInv, Earned
  <2>14. /\ overall' \in Pass .. Fail /\ overall' >= overall /\ overall' >= Normal(o)
         /\ overall' = overall \/ overall' = Normal(o)
    BY <2>2, <2>4 DEF Worse, Pass, Fail
  <2>15. /\ results'[o.index] = Normal(o)
         /\ \A j \in Slots : j # o.index => results'[j] = results[j]
    BY <2>1, <2>4
  <2>16. \A j \in Slots' : results'[j] <= overall'
    <3>1. ASSUME NEW j \in Slots PROVE results'[j] <= overall'
      <4>1. results[j] \in Nat /\ overall \in Nat /\ overall' \in Nat /\ Normal(o) \in Nat
        <5>1. results[j] \in 0 .. Fail /\ overall \in Pass .. Fail
          OBVIOUS
        <5>. HIDE DEF TypeOK
        <5>2. overall' \in Pass .. Fail /\ Normal(o) \in Pass .. Fail
          BY <2>2, <2>14
        <5>. QED
          BY <5>1, <5>2 DEF Pass, Fail
      <4>2. results[j] <= overall
        BY DEF OverallInv
      <4>3. CASE j = o.index
        BY <2>14, <2>15, <4>1, <4>3
      <4>4. CASE j # o.index
        BY <2>14, <2>15, <4>1, <4>2, <4>4
      <4>. QED
        BY <4>3, <4>4
    <3>. QED
      BY <2>6, <3>1
  <2>10. OverallInv'
    <3>1. CASE overall' = Normal(o)
      BY <2>1, <2>6, <2>15, <2>16, <3>1 DEF OverallInv
    <3>2. CASE overall' = overall /\ overall # Normal(o)
      <4>1. ASSUME NEW j \in Slots, results[j] = overall, j = o.index
            PROVE  overall' = Pass \/ \E i \in Slots' : results'[i] = overall'
        BY <2>2, <2>3, <3>2, <4>1 DEF EntriesInv, Earned, Pass, Fail
      <4>. QED
        BY <2>6, <2>15, <2>16, <3>2, <4>1 DEF OverallInv
    <3>. QED
      BY <2>14, <3>1, <3>2
  <2>. QED
    BY <2>7, <2>8, <2>9, <2>10
<1>3. CASE Reply
  BY <1>3 DEF Reply, IdleInv, RunnerInv, OutcomesInv, EntriesInv, OverallInv, Earned, Slots
<1>4. ASSUME NEW i \in Slots, RunReturns(i) PROVE Goal
  <2>1. PICK answer \in Answers :
          result' = [result EXCEPT ![i] = [status |-> answer.status, err |-> answer.err,
                                           present |-> TRUE]]
    BY <1>4 DEF RunReturns
  <2>2. /\ runner[i] = "running" /\ runner' = [runner EXCEPT ![i] = "ended"]
        /\ UNCHANGED <<call, kind, results, overall, outcomes, waiter, Slots>>
    BY <1>4 DEF RunReturns, Slots
  <2>3. waiter[i] # "answered"
    BY <2>2 DEF RunnerInv
  <2>4. \A j \in Slots : j # i => result'[j] = result[j]
    BY <2>1
  <2>5. \A j \in Slots : \A s : Earned(j, s) => Earned(j, s)'
    BY <2>2, <2>3, <2>4 DEF Earned
  <2>6. \A n \in 1 .. Len(outcomes) : outcomes[n].index \in Slots
    <3>1. outcomes \in Seq(Outcomes)
      BY DEF Outcomes
    <3>2. \A n \in 1 .. Len(outcomes) : outcomes[n] \in Outcomes
      BY <3>1, Channel
    <3>. QED
      BY <3>2 DEF Outcomes
  <2>7. OutcomesInv' /\ EntriesInv' /\ OverallInv' /\ IdleInv'
    BY <2>2, <2>5, <2>6 DEF OutcomesInv, EntriesInv, OverallInv, IdleInv
  <2>8. RunnerInv'
    BY <2>1, <2>2, <2>3, <2>4 DEF RunnerInv
  <2>. QED
    BY <2>7, <2>8
<1>5. ASSUME NEW i \in Slots, WaiterAnswers(i) \/ WaiterGivesUp(i) PROVE Goal
  <2>1. PICK o \in [index : {i}, status : 0 .. Fail, err : BOOLEAN] :
          outcomes' = Append(outcomes, o) /\ Earned(i, Normal(o))'
    <3>1. CASE WaiterAnswers(i)
      <4> DEFINE o == [index |-> i, status |-> result[i].status, err |-> result[i].err]
      <4>1. outcomes' = Append(outcomes, o) /\ waiter'[i] = "answered" /\ result' = result
        BY <3>1 DEF WaiterAnswers, Send
      <4>2. Normal(o) = Normal(result[i])
        BY DEF Normal
      <4>. QED
        BY <4>1, <4>2 DEF Earned
    <3>2. CASE WaiterGivesUp(i)
      <4> DEFINE o == [index |-> i, status |-> Fail, err |-> TRUE]
      <4>1. outcomes' = Append(outcomes, o) /\ waiter'[i] = "gaveUp"
        BY <3>2 DEF WaiterGivesUp, Send
      <4>2. Normal(o) = Fail /\ o \in [index : {i}, status : 0 .. Fail, err : BOOLEAN]
        BY DEF Normal, Fail
      <4>. HIDE DEF o
      <4>. QED
        BY <4>1, <4>2 DEF Earned
    <3>. QED
      BY <1>5, <3>1, <3>2
  <2>2. /\ waiter[i] = "waiting" /\ \A j \in Slots : j # i => waiter'[j] = waiter[j]
        /\ waiter'[i] = "answered" => result[i].present
        /\ UNCHANGED <<call, kind, results, overall, result, runner, Slots>>
    BY <1>5 DEF WaiterAnswers, WaiterGivesUp, Slots
  <2>3. \A j \in Slots : \A s : Earned(j, s) => Earned(j, s)'
    BY <2>2 DEF Earned
  <2>4. \A n \in 1 .. Len(outcomes) : outcomes[n].index \in Slots
    <3>1. outcomes \in Seq(Outcomes)
      BY DEF Outcomes
    <3>2. \A n \in 1 .. Len(outcomes) : outcomes[n] \in Outcomes
      BY <3>1, Channel
    <3>. QED
      BY <3>2 DEF Outcomes
  <2>5. /\ Len(outcomes') = Len(outcomes) + 1 /\ outcomes'[Len(outcomes) + 1] = o
        /\ \A n \in 1 .. Len(outcomes) : outcomes'[n] = outcomes[n]
    BY <2>1
  <2>9. ASSUME NEW n \in 1 .. Len(outcomes')
        PROVE  Earned(outcomes[n].index, Normal(outcomes[n]))'
    <3>1. CASE n \in 1 .. Len(outcomes)
      BY <2>3, <2>4, <2>5, <3>1 DEF OutcomesInv
    <3>2. CASE n = Len(outcomes) + 1
      BY <2>1, <2>5, <3>2
    <3>3. Len(outcomes) \in Nat
      OBVIOUS
    <3>. QED
      BY <2>5, <3>1, <3>2, <3>3
  <2>6. OutcomesInv'
    BY <2>9 DEF OutcomesInv
  <2>7. EntriesInv' /\ OverallInv' /\ RunnerInv'
    BY <2>2, <2>3 DEF EntriesInv, OverallInv, RunnerInv
  <2>8. IdleInv'
    BY <2>2, NothingSelected DEF IdleInv
  <2>. QED
    BY <2>6, <2>7, <2>8
<1>6. ASSUME NEW i \in Slots, TimeoutFires(i) PROVE Goal
  BY <1>6 DEF TimeoutFires, IdleInv, RunnerInv, OutcomesInv, EntriesInv, OverallInv, Earned, Slots
<1>7. CASE ClientLeaves
  BY <1>7 DEF ClientLeaves, IdleInv, RunnerInv, OutcomesInv, EntriesInv, OverallInv, Earned, Slots
<1>8. CASE Admit \/ Drain
  <2>1. UNCHANGED <<callVars, checkVars, outcomes, Slots>>
    BY <1>8 DEF Admit, Drain, Slots
  <2>. QED
    BY <2>1 DEF IdleInv, RunnerInv, OutcomesInv, EntriesInv, OverallInv, Earned
<1>9. CASE UNCHANGED vars
  BY <1>9 DEF vars, IdleInv, RunnerInv, OutcomesInv, EntriesInv, OverallInv, Earned, Slots
<1>. QED
  BY <1>1, <1>2, <1>3, <1>4, <1>5, <1>6, <1>7, <1>8, <1>9 DEF Next, Check

\* A reply is given once, when every entry is there.
LEMMA ReplyPreserved ==
  ASSUME TypeOK, ReplyInv, [Next]_vars
  PROVE  ReplyInv'
<1>. USE DEF ReplyInv, TypeOK, callVars, checkVars
<1>1. CASE CheckBegins
  BY <1>1 DEF CheckBegins
<1>2. CASE Receive
  BY <1>2 DEF Receive
<1>3. CASE Reply
  <2>1. /\ call' = "replied" /\ \A i \in Slots : results[i] # 0
        /\ UNCHANGED <<kind, results, overall, admission, Slots>>
    BY <1>3 DEF Reply, Received, Slots
  <2>4. reply' = Verdict
    BY <1>3 DEF Reply
  <2>2. reply' = overall \/ (kind = Readiness /\ reply' = Fail)
    BY <2>4 DEF Verdict
  <2>3. kind = Readiness /\ reply' # Fail => admission # "starting"
    BY <1>3 DEF Reply, Verdict
  <2>. QED
    BY <2>1, <2>2, <2>3
<1>4. ASSUME NEW i \in Slots, Check(i) PROVE ReplyInv'
  BY <1>4 DEF Check, RunReturns, WaiterAnswers, WaiterGivesUp, TimeoutFires, Slots
<1>5. CASE ClientLeaves
  BY <1>5 DEF ClientLeaves
<1>6. CASE Admit \/ Drain
  BY <1>6 DEF Admit, Drain, Slots
<1>7. CASE UNCHANGED vars
  BY <1>7 DEF vars, Slots
<1>. QED
  BY <1>1, <1>2, <1>3, <1>4, <1>5, <1>6, <1>7 DEF Next

-----------------------------------------------------------------------------
\* Every outcome, entry and reply stands for what became of its check, in every order of
\* arrival (health.go:118-166).
THEOREM InductiveCorrect == Spec => []Inductive
<1>1. Inductive /\ [Next]_vars => Inductive'
  BY TypePreserved, EarnedPreserved, ReplyPreserved DEF Inductive
<1>. QED
  BY <1>1, InitHolds, PTL DEF Spec

\* Channels, entries and the report keep their types: no entry is filled but those of
\* selected checks, and no report has a status of another kind (health.go:118-166).
THEOREM TypeCorrect == Spec => []TypeOK
<1>1. Inductive => TypeOK
  BY DEF Inductive
<1>. QED
  BY <1>1, InductiveCorrect, PTL

\* A probe that passes was passed by every check it selected, in time, and by the
\* admission if it asks for readiness; each entry is its own check's
\* (health.go:130-166).
THEOREM ReplyCorrect == Spec => []GoodReplyIsEarned
<1>1. Inductive => GoodReplyIsEarned
  <2>. SUFFICES ASSUME Inductive PROVE GoodReplyIsEarned
    OBVIOUS
  <2>. USE DEF Inductive, TypeOK
  <2>1. ASSUME reply \in {Pass, Warn}, NEW i \in Slots
        PROVE  waiter[i] = "answered" /\ Normal(result[i]) <= reply
    <3>1. results[i] # 0 /\ reply = overall
      BY <2>1 DEF ReplyInv, Pass, Warn, Fail
    <3>2. results[i] <= reply /\ results[i] # Fail
      BY <2>1, <3>1 DEF OverallInv, Pass, Warn, Fail
    <3>. QED
      BY <3>1, <3>2 DEF EntriesInv, Earned
  <2>2. reply \in {Pass, Warn} /\ kind = Readiness => admission # "starting"
    BY DEF ReplyInv, Pass, Warn, Fail
  <2>3. ASSUME NEW i \in Received, results[i] # Fail
        PROVE  waiter[i] = "answered" /\ results[i] = Normal(result[i])
    BY <2>3 DEF Received, EntriesInv, Earned
  <2>. QED
    BY <2>1, <2>2, <2>3 DEF GoodReplyIsEarned
<1>. QED
  BY <1>1, InductiveCorrect, PTL

\* A failing liveness probe has a check to blame: the admission has no part in it
\* (health.go:151-166).
THEOREM LivenessCorrect == Spec => []LivenessOutlivesDrain
<1>1. Inductive => LivenessOutlivesDrain
  <2>. SUFFICES ASSUME Inductive, reply = Fail, kind = Liveness
                PROVE  \E i \in Slots : waiter[i] = "gaveUp" \/ Normal(result[i]) = Fail
    BY DEF LivenessOutlivesDrain
  <2>1. overall = Fail
    BY DEF Inductive, ReplyInv, Liveness, Readiness, Fail
  <2>2. PICK i \in Slots : results[i] = Fail
    BY <2>1 DEF Inductive, OverallInv, Pass, Fail
  <2>3. Earned(i, Fail)
    BY <2>2 DEF Inductive, EntriesInv, Fail
  <2>. QED
    BY <2>3 DEF Earned
<1>. QED
  BY <1>1, InductiveCorrect, PTL
=============================================================================
