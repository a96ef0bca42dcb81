-------------------------- MODULE ConfinementProofs --------------------------
(***************************************************************************)
(* Proofs about Confinement, for every host and every policy: the ruleset  *)
(* built from a policy permits exactly what the policy entitles to, and    *)
(* the seccomp program built from it answers every call as the policy      *)
(* says.                                                                   *)
(***************************************************************************)
EXTENDS Confinement, FunctionTheorems, SequenceTheorems, WellFoundedInduction, TLAPS

-----------------------------------------------------------------------------
(* Landlock.                                                               *)

\* A path is at or below itself.
LEMMA PrefixOfItself ==
  ASSUME NEW path \in Paths
  PROVE  IsPrefix(path, path)
BY DEF IsPrefix, Paths

\* A path is reached by a rule exactly when one of the rule's origins reaches it.
LEMMA RuleOrigins ==
  ASSUME NEW p, NEW path, NEW right \in Handled(p)
  PROVE  (\E rule \in Rules(p) : right \in rule.rights /\ IsPrefix(Clean(rule.at), path)) <=>
           \/ /\ right \in {"read_file", "read_directory", "execute"}
              /\ \E t \in p.readOnly \cup p.executable : IsPrefix(Clean(t), path)
           \/ \E t \in p.writable : IsPrefix(Clean(t), path)
           \/ \E g \in p.grants : right \in g.access /\ IsPrefix(Clean(g.path), path)
           \/ /\ right \in {"read_file", "execute"}
              /\ IsPrefix(Clean(Host.executable), path)
           \/ /\ right \in {"read_file", "write_file"} /\ DevNull \in Host.files
              /\ IsPrefix(Clean(DevNull), path)
<1>. DEFINE Reached == \E rule \in Rules(p) : right \in rule.rights /\ IsPrefix(Clean(rule.at), path)
            Granting(paths) == \E t \in paths : IsPrefix(Clean(t), path)
            Origin == \/ /\ right \in {"read_file", "read_directory", "execute"}
                         /\ Granting(p.readOnly \cup p.executable)
                      \/ Granting(p.writable)
                      \/ \E g \in p.grants : right \in g.access /\ IsPrefix(Clean(g.path), path)
                      \/ right \in {"read_file", "execute"} /\ Granting({Host.executable})
                      \/ right \in {"read_file", "write_file"} /\ Granting({DevNull} \cap Host.files)
<1>1. ASSUME NEW at, NEW rights, [at |-> at, rights |-> rights] \in RequestedRules(p),
             right \in rights, IsPrefix(Clean(at), path)
      PROVE  Reached
  <2>. DEFINE rule == [[at |-> at, rights |-> rights] EXCEPT !.rights = @ \cap Handled(p)]
  <2>1. rule \in Rules(p)
    BY <1>1 DEF Rules
  <2>2. rule.at = at /\ rule.rights = rights \cap Handled(p)
    OBVIOUS
  <2>. QED
    BY <1>1, <2>1, <2>2
<1>2. Origin => Reached
  <2>1. ASSUME NEW t \in p.readOnly \cup p.executable, IsPrefix(Clean(t), path),
               right \in {"read_file", "read_directory", "execute"}
        PROVE  Reached
    <3>1. \/ [at |-> t, rights |-> {"read_file", "read_directory", "execute"}] \in RequestedRules(p)
          \/ [at |-> t, rights |-> {"execute", "read_file", "read_directory"}] \in RequestedRules(p)
      BY DEF RequestedRules, RulesAt
    <3>. QED
      BY <1>1, <2>1, <3>1
  <2>2. ASSUME NEW t \in p.writable, IsPrefix(Clean(t), path) PROVE Reached
    <3>1. [at |-> t, rights |-> Handled(p)] \in RequestedRules(p)
      BY DEF RequestedRules, RulesAt
    <3>. QED
      BY <1>1, <2>2, <3>1
  <2>3. ASSUME NEW g \in p.grants, right \in g.access, IsPrefix(Clean(g.path), path) PROVE Reached
    <3>1. [at |-> g.path, rights |-> g.access] \in RequestedRules(p)
      BY DEF RequestedRules
    <3>. QED
      BY <1>1, <2>3, <3>1
  <2>4. ASSUME right \in {"read_file", "execute"}, IsPrefix(Clean(Host.executable), path)
        PROVE  Reached
    <3>1. [at |-> Host.executable, rights |-> {"read_file", "execute"}] \in RequestedRules(p)
      BY DEF RequestedRules, RulesAt
    <3>. QED
      BY <1>1, <2>4, <3>1
  <2>5. ASSUME right \in {"read_file", "write_file"}, DevNull \in Host.files,
               IsPrefix(Clean(DevNull), path)
        PROVE  Reached
    <3>1. [at |-> DevNull, rights |-> {"read_file", "write_file"}] \in RequestedRules(p)
      BY <2>5 DEF RequestedRules, RulesAt
    <3>. QED
      BY <1>1, <2>5, <3>1
  <2>. QED
    BY <2>1, <2>2, <2>3, <2>4, <2>5
<1>3. Reached => Origin
  <2>. SUFFICES ASSUME NEW rule \in Rules(p), right \in rule.rights, IsPrefix(Clean(rule.at), path)
                PROVE  Origin
    OBVIOUS
  <2>1. PICK asked \in RequestedRules(p) : rule = [asked EXCEPT !.rights = @ \cap Handled(p)]
    BY DEF Rules
  <2>2. \E at, rights : asked = [at |-> at, rights |-> rights]
    BY DEF RequestedRules, RulesAt
  <2>3. right \in asked.rights /\ IsPrefix(Clean(asked.at), path)
    BY <2>1, <2>2
  <2>4. ASSUME NEW paths, NEW rights, asked \in RulesAt(paths, rights)
        PROVE  right \in rights /\ Granting(paths)
    BY <2>3, <2>4 DEF RulesAt
  <2>5. CASE asked \in RulesAt(p.readOnly, {"read_file", "read_directory", "execute"})
    BY <2>4, <2>5
  <2>6. CASE asked \in RulesAt(p.writable, Handled(p))
    BY <2>4, <2>6
  <2>7. CASE asked \in RulesAt(p.executable, {"execute", "read_file", "read_directory"})
    BY <2>4, <2>7
  <2>8. CASE asked \in {[at |-> g.path, rights |-> g.access] : g \in p.grants}
    BY <2>3, <2>8
  <2>9. CASE asked \in RulesAt({Host.executable}, {"read_file", "execute"})
    BY <2>4, <2>9
  <2>10. CASE asked \in RulesAt({DevNull} \cap Host.files, {"read_file", "write_file"})
    BY <2>4, <2>10
  <2>. QED
    BY <2>5, <2>6, <2>7, <2>8, <2>9, <2>10 DEF RequestedRules
<1>. QED
  BY <1>2, <1>3

\* A thread restricted to a policy may do with a file what the policy entitles to, and no
\* more: neither the clean paths, ExceptExec nor the two rules of its own that
\* buildLandlock adds open or close anything else (platform_linux.go:231-305).
THEOREM PermitsWhatIsEntitled ==
  ASSUME NEW p \in PolicyValues, NEW path \in Host.files \cup Host.directories,
         NEW right \in SupportedFilesystemRights
  PROVE  Permits(p, path, right) <=> Entitled(p, path, right)
<1>1. right \notin Handled(p) <=> right = "execute" /\ p.exceptExec
  BY DEF Handled, SupportedFilesystemRights, BaseRights
<1>2. IsPrefix(Clean(Host.executable), path) <=> path = Host.executable
  BY HostAssumption, PrefixOfItself
<1>3. DevNull \in Host.files /\ IsPrefix(Clean(DevNull), path) <=> path = DevNull
  BY HostAssumption, PrefixOfItself
<1>4. CASE right \notin Handled(p)
  BY <1>1, <1>4 DEF Permits, Entitled
<1>5. CASE right \in Handled(p)
  BY <1>1, <1>2, <1>3, <1>5, RuleOrigins DEF Permits, Entitled
<1>. QED
  BY <1>4, <1>5

\* What the digest covers decides what a policy permits.
THEOREM DigestDecides ==
  ASSUME NEW h \in PolicyValues, NEW p \in PolicyValues, Digest(h) = Digest(p),
         NEW path, NEW right
  PROVE  Permits(h, path, right) <=> Permits(p, path, right)
<1>1. \A q \in PolicyValues :
        /\ Digest(q).readOnly = q.readOnly /\ Digest(q).writable = q.writable
        /\ Digest(q).executable = q.executable /\ Digest(q).grants = q.grants
        /\ Digest(q).exceptExec = q.exceptExec
  BY DEF Digest, PolicyValues
<1>2. /\ h.readOnly = p.readOnly /\ h.writable = p.writable
      /\ h.executable = p.executable /\ h.grants = p.grants /\ h.exceptExec = p.exceptExec
  BY <1>1
<1>3. Handled(h) = Handled(p)
  BY <1>2 DEF Handled
<1>4. Rules(h) = Rules(p)
  BY <1>2, <1>3 DEF Rules, RequestedRules
<1>. QED
  BY <1>3, <1>4 DEF Permits

-----------------------------------------------------------------------------
(* Seccomp.                                                                *)

\* A place for every syscall some architecture has a number for.
Place ==
  [read |-> 1, write |-> 2, open |-> 3, close |-> 4, getpid |-> 5, connect |-> 6, bind |-> 7,
   execve |-> 8, ptrace |-> 9, mount |-> 10, kexec_load |-> 11, openat |-> 12,
   process_vm_readv |-> 13, process_vm_writev |-> 14, kexec_file_load |-> 15, bpf |-> 16,
   execveat |-> 17, userfaultfd |-> 18]

\* No two syscalls share a place.
LEMMA PlacesDiffer ==
  /\ DOMAIN SyscallNumber \subseteq DOMAIN Place
  /\ \A name \in DOMAIN Place : Place[name] \in 1 .. 18
  /\ \A a, b \in DOMAIN Place : Place[a] = Place[b] => a = b
<1>1. DOMAIN SyscallNumber \subseteq DOMAIN Place
  BY HostAssumption DEF SyscallNumber, SyscallNumbers, Place
<1>2. \A name \in DOMAIN Place : Place[name] \in 1 .. 18
  BY DEF Place
<1>3. \A a, b \in DOMAIN Place : Place[a] = Place[b] => a = b
  BY DEF Place
<1>. QED
  BY <1>1, <1>2, <1>3

\* An injection into 18 places has at most 18 arguments.
LEMMA NoLongInjection ==
  ASSUME NEW n \in Nat, NEW f \in [1 .. n -> 1 .. 18], \A a, b \in 1 .. n : f[a] = f[b] => a = b
  PROVE  n <= 18
<1>1. f \in Injection(1 .. n, 1 .. 18)
  BY DEF Injection, IsInjective
<1>2. ExistsInjection(1 .. n, 1 .. 18)
  BY <1>1 DEF ExistsInjection
<1>3. 18 \in Nat
  OBVIOUS
<1>. QED
  BY <1>2, <1>3, Fun_NatInjLeq

\* A valid policy denies no more syscalls than the table has, so that no jump of its
\* program is cut to its eight bits (security.go:242-247, platform_linux.go:363-387).
LEMMA FewDenied ==
  ASSUME NEW p \in PolicyValues, Valid(p), Known(p)
  PROVE  Len(p.deny) \in Nat /\ Len(p.deny) <= 18
<1>1. p.deny \in Seq(STRING)
  BY DEF PolicyValues
<1>2. Len(p.deny) \in Nat /\ DOMAIN p.deny = 1 .. Len(p.deny)
  BY <1>1, LenProperties
<1>. DEFINE n == Len(p.deny)
            f == [k \in 1 .. n |-> Place[p.deny[k]]]
<1>3. \A k \in 1 .. n : p.deny[k] \in DOMAIN Place
  BY <1>2, PlacesDiffer DEF Known, ToSet
<1>4. f \in [1 .. n -> 1 .. 18]
  BY <1>3, PlacesDiffer
<1>5. ASSUME NEW a \in 1 .. n, NEW b \in 1 .. n, f[a] = f[b] PROVE a = b
  <2>1. p.deny[a] = p.deny[b]
    BY <1>3, <1>5, PlacesDiffer
  <2>. QED
    BY <1>2, <2>1 DEF Valid, IsInjective
<1>6. n <= 18
  <2>. HIDE DEF n, f
  <2>1. n \in Nat
    BY <1>2 DEF n
  <2>. QED
    BY <2>1, <1>4, <1>5, NoLongInjection
<1>. QED
  BY <1>2, <1>6

\* The program of a policy, instruction by instruction.
LEMMA ProgramForm ==
  ASSUME NEW p \in PolicyValues, Valid(p), Known(p), NEW n, n = Len(p.deny)
  PROVE  /\ Len(Program(p)) = n + 8
         /\ Program(p)[1] = LoadWord("arch")
         /\ Program(p)[2] = Jump("equal", Machine[Host.arch], 1)
         /\ Program(p)[3] = Return("kill")
         /\ Program(p)[4] = LoadWord("nr")
         /\ Program(p)[5] = Jump("at_least", X32Bit, n + 2)
         /\ \A k \in 1 .. n :
              Program(p)[5 + k] = Jump("equal", SyscallNumber[p.deny[k]], n - (k - 1))
         /\ Program(p)[n + 6] = Return("allow")
         /\ Program(p)[n + 7] = Return("errno")
         /\ Program(p)[n + 8] = Return("kill")
<1>. DEFINE Prologue == <<LoadWord("arch"), Jump("equal", Machine[Host.arch], 1), Return("kill"),
                          LoadWord("nr"), Jump("at_least", X32Bit, n + 2)>>
            Denial(k) == Jump("equal", SyscallNumber[p.deny[k]], n - (k - 1))
            Denials == [k \in 1 .. n |-> Denial(k)]
            Verdicts == <<Return("allow"), Return("errno"), Return("kill")>>
            Code == {Prologue[i] : i \in 1 .. 5} \cup {Denial(k) : k \in 1 .. n}
                      \cup {Verdicts[i] : i \in 1 .. 3}
<1>1. n \in Nat /\ n <= 18
  BY FewDenied, Zenon
<1>2. Program(p) = (Prologue \o Denials) \o Verdicts
  BY DEF Program
<1>3. Prologue \in Seq(Code) /\ Len(Prologue) = 5
  <2>. HIDE DEF Denial
  <2>. QED
    OBVIOUS
<1>4. Verdicts \in Seq(Code) /\ Len(Verdicts) = 3
  <2>. HIDE DEF Denial
  <2>. QED
    OBVIOUS
<1>5. Denials \in Seq(Code) /\ Len(Denials) = n
  <2>1. \A k \in 1 .. n : Denial(k) \in Code
    OBVIOUS
  <2>. HIDE DEF Denial, Code
  <2>2. Denials \in [1 .. n -> Code]
    BY <2>1
  <2>3. Denials \in Seq(Code)
    BY <1>1, <2>2, SeqDef
  <2>4. Len(Denials) = n
    BY <1>1, <2>2, <2>3, LenProperties
  <2>. QED
    BY <2>3, <2>4
<1>. HIDE DEF Code, Prologue, Denials, Verdicts, Denial
<1>6. /\ Prologue \o Denials \in Seq(Code)
      /\ Len(Prologue \o Denials) = Len(Prologue) + Len(Denials)
      /\ \A i \in 1 .. Len(Prologue) + Len(Denials) :
           (Prologue \o Denials)[i] = IF i <= Len(Prologue) THEN Prologue[i] ELSE Denials[i - Len(Prologue)]
  BY <1>3, <1>5, ConcatProperties
<1>7. /\ Len(Program(p)) = Len(Prologue \o Denials) + Len(Verdicts)
      /\ \A i \in 1 .. Len(Prologue \o Denials) + Len(Verdicts) :
           Program(p)[i] = IF i <= Len(Prologue \o Denials) THEN (Prologue \o Denials)[i]
                           ELSE Verdicts[i - Len(Prologue \o Denials)]
  <2>. DEFINE start == Prologue \o Denials
  <2>1. start \in Seq(Code) /\ Program(p) = start \o Verdicts
    BY <1>2, <1>6
  <2>. HIDE DEF start
  <2>2. /\ Len(start \o Verdicts) = Len(start) + Len(Verdicts)
        /\ \A i \in 1 .. Len(start) + Len(Verdicts) :
             (start \o Verdicts)[i] = IF i <= Len(start) THEN start[i] ELSE Verdicts[i - Len(start)]
    BY <1>4, <2>1, ConcatProperties
  <2>. QED
    BY <2>1, <2>2 DEF start
<1>8. Len(Prologue \o Denials) = n + 5 /\ Len(Program(p)) = n + 8
  BY <1>1, <1>3, <1>4, <1>5, <1>6, <1>7
<1>9. \A i \in 1 .. n + 5 : Program(p)[i] = IF i <= 5 THEN Prologue[i] ELSE Denials[i - 5]
  <2>. TAKE i \in 1 .. n + 5
  <2>1. Program(p)[i] = (Prologue \o Denials)[i]
    BY <1>1, <1>4, <1>7, <1>8
  <2>2. (Prologue \o Denials)[i] = IF i <= 5 THEN Prologue[i] ELSE Denials[i - 5]
    <3>1. Len(Prologue) + Len(Denials) = n + 5
      BY <1>1, <1>3, <1>5
    <3>. QED
      BY <3>1, <1>3, <1>6
  <2>. QED
    BY <2>1, <2>2
<1>10. \A i \in n + 6 .. n + 8 : Program(p)[i] = Verdicts[i - (n + 5)]
  BY <1>1, <1>4, <1>7, <1>8
<1>11. /\ Program(p)[1] = Prologue[1] /\ Program(p)[2] = Prologue[2] /\ Program(p)[3] = Prologue[3]
       /\ Program(p)[4] = Prologue[4] /\ Program(p)[5] = Prologue[5]
  BY <1>1, <1>9
<1>12. \A k \in 1 .. n : Program(p)[5 + k] = Denials[k]
  <2>. TAKE k \in 1 .. n
  <2>1. 5 + k \in 1 .. n + 5 /\ ~(5 + k <= 5) /\ (5 + k) - 5 = k
    BY <1>1
  <2>. QED
    BY <2>1, <1>9
<1>13. /\ Program(p)[n + 6] = Verdicts[1] /\ Program(p)[n + 7] = Verdicts[2]
       /\ Program(p)[n + 8] = Verdicts[3]
  <2>1. /\ n + 6 \in n + 6 .. n + 8 /\ n + 6 - (n + 5) = 1
        /\ n + 7 \in n + 6 .. n + 8 /\ n + 7 - (n + 5) = 2
        /\ n + 8 \in n + 6 .. n + 8 /\ n + 8 - (n + 5) = 3
    BY <1>1
  <2>. QED
    BY <2>1, <1>10
<1>14. \A k \in 1 .. n : Denials[k] = Jump("equal", SyscallNumber[p.deny[k]], n - (k - 1))
  BY DEF Denials, Denial
<1>15. /\ Prologue[1] = LoadWord("arch") /\ Prologue[2] = Jump("equal", Machine[Host.arch], 1)
       /\ Prologue[3] = Return("kill") /\ Prologue[4] = LoadWord("nr")
       /\ Prologue[5] = Jump("at_least", X32Bit, n + 2)
  BY DEF Prologue
<1>16. Verdicts[1] = Return("allow") /\ Verdicts[2] = Return("errno") /\ Verdicts[3] = Return("kill")
  BY DEF Verdicts
<1>. QED
  BY <1>8, <1>11, <1>12, <1>13, <1>14, <1>15, <1>16

\* One instruction of a run.
Step(program, call, R, pc, acc) ==
  LET op    == program[pc]
      taken == \/ op.code = "equal" /\ acc = op.k
               \/ op.code = "at_least" /\ acc >= op.k
  IN  IF op.code = "return" THEN op.k
      ELSE IF op.code = "load" THEN R[pc + 1][call[op.k]]
      ELSE R[pc + 1 + (IF taken THEN op.jt ELSE 0)][acc]

\* R is the outcome of a program on a call from every instruction and accumulator.
IsRun(program, call, R) ==
  R = [pc \in 1 .. Len(program) |-> [acc \in Nat |-> Step(program, call, R, pc, acc)]]

\* Verdict takes the outcome from the first instruction, if there is a run.
LEMMA VerdictOfRun ==
  ASSUME NEW program, NEW call, NEW R, IsRun(program, call, R)
  PROVE  \E S : IsRun(program, call, S) /\ Verdict(program, call) = S[1][0]
<1>. DEFINE S == CHOOSE S : IsRun(program, call, S)
<1>1. IsRun(program, call, S)
  OBVIOUS
<1>2. Verdict(program, call) = S[1][0]
  BY DEF Verdict, IsRun, Step
<1>. QED
  BY <1>1, <1>2

Calling == [arch : Nat, nr : Nat]

\* One of the denials from the kth on is the syscall with number acc.
DeniedFrom(p, k, acc) == \E j \in k .. Len(p.deny) : acc = SyscallNumber[p.deny[j]]

Listed(p, k, acc) == IF DeniedFrom(p, k, acc) THEN "errno" ELSE "allow"

Numbered(p, nr) == IF nr >= X32Bit THEN "kill" ELSE Listed(p, 1, nr)

Expected(p, call) == IF call.arch = Machine[Host.arch] THEN Numbered(p, call.nr) ELSE "kill"

\* The jumps of a program fit in eight bits and land on its verdicts.
LEMMA JumpTargets ==
  ASSUME NEW n \in Nat, n <= 18
  PROVE  /\ (n + 2) % 256 = n + 2 /\ 5 + 1 + (n + 2) = n + 8 /\ 5 + 1 + 0 = 6
         /\ \A k \in 1 .. n : /\ (n - (k - 1)) % 256 = n - (k - 1)
                            /\ 5 + k + 1 + (n - (k - 1)) = n + 7 /\ 5 + k + 1 + 0 = 6 + k
OBVIOUS

\* The steps of the program of a policy with n denials, from every instruction.
Steps(p, n, call, R, acc) ==
  /\ Step(Program(p), call, R, 1, acc) = R[2][call.arch]
  /\ Step(Program(p), call, R, 2, acc) =
       IF acc = Machine[Host.arch] THEN R[4][acc] ELSE R[3][acc]
  /\ Step(Program(p), call, R, 3, acc) = "kill"
  /\ Step(Program(p), call, R, 4, acc) = R[5][call.nr]
  /\ Step(Program(p), call, R, 5, acc) = IF acc >= X32Bit THEN R[n + 8][acc] ELSE R[6][acc]
  /\ \A k \in 1 .. n :
       Step(Program(p), call, R, 5 + k, acc) =
         IF acc = SyscallNumber[p.deny[k]] THEN R[n + 7][acc] ELSE R[6 + k][acc]
  /\ Step(Program(p), call, R, n + 6, acc) = "allow"
  /\ Step(Program(p), call, R, n + 7, acc) = "errno"
  /\ Step(Program(p), call, R, n + 8, acc) = "kill"

\* The program takes these steps, whatever the outcomes R they look up.
LEMMA ProgramSteps ==
  ASSUME NEW p \in PolicyValues, Valid(p), Known(p), NEW n, n = Len(p.deny),
         NEW call, NEW R, NEW acc
  PROVE  Steps(p, n, call, R, acc)
<1>1. n \in Nat /\ n <= 18
  BY FewDenied
<1>2. Step(Program(p), call, R, 1, acc) = R[2][call.arch]
  BY ProgramForm DEF Step, LoadWord
<1>3. Step(Program(p), call, R, 2, acc) = IF acc = Machine[Host.arch] THEN R[4][acc] ELSE R[3][acc]
  <2>1. Program(p)[2] = Jump("equal", Machine[Host.arch], 1)
    BY ProgramForm
  <2>2. /\ Program(p)[2].code = "equal" /\ Program(p)[2].k = Machine[Host.arch]
        /\ Program(p)[2].jt = 1
    BY <2>1 DEF Jump
  <2>3. 2 + 1 + 1 = 4 /\ 2 + 1 + 0 = 3
    OBVIOUS
  <2>. QED
    BY <2>2, <2>3 DEF Step
<1>4. Step(Program(p), call, R, 3, acc) = "kill"
  BY ProgramForm DEF Step, Return
<1>5. Step(Program(p), call, R, 4, acc) = R[5][call.nr]
  <2>1. Program(p)[4] = LoadWord("nr")
    BY ProgramForm
  <2>2. Program(p)[4].code = "load" /\ Program(p)[4].k = "nr"
    BY <2>1 DEF LoadWord
  <2>. QED
    BY <2>2 DEF Step
<1>6. Step(Program(p), call, R, 5, acc) = IF acc >= X32Bit THEN R[n + 8][acc] ELSE R[6][acc]
  <2>1. Program(p)[5] = Jump("at_least", X32Bit, n + 2)
    BY ProgramForm
  <2>2. (n + 2) % 256 = n + 2 /\ 5 + 1 + (n + 2) = n + 8 /\ 5 + 1 + 0 = 6
    BY <1>1, JumpTargets
  <2>3. /\ Program(p)[5].code = "at_least" /\ Program(p)[5].k = X32Bit
        /\ Program(p)[5].jt = n + 2
    <3>. DEFINE jump == Jump("at_least", X32Bit, n + 2)
    <3>1. jump.code = "at_least" /\ jump.k = X32Bit
      BY DEF Jump
    <3>2. jump.jt = (n + 2) % 256
      BY DEF Jump
    <3>3. Program(p)[5] = jump
      BY <2>1
    <3>. HIDE DEF jump
    <3>. QED
      BY <2>2, <3>1, <3>2, <3>3
  <2>4. CASE acc >= X32Bit
    BY <2>2, <2>3, <2>4 DEF Step
  <2>5. CASE ~(acc >= X32Bit)
    BY <2>2, <2>3, <2>5 DEF Step
  <2>. QED
    BY <2>4, <2>5
<1>7. ASSUME NEW k \in 1 .. n
      PROVE  Step(Program(p), call, R, 5 + k, acc) =
               IF acc = SyscallNumber[p.deny[k]] THEN R[n + 7][acc] ELSE R[6 + k][acc]
  <2>1. Program(p)[5 + k] = Jump("equal", SyscallNumber[p.deny[k]], n - (k - 1))
    BY ProgramForm
  <2>2. /\ (n - (k - 1)) % 256 = n - (k - 1)
        /\ 5 + k + 1 + (n - (k - 1)) = n + 7 /\ 5 + k + 1 + 0 = 6 + k
    BY <1>1, JumpTargets
  <2>3. /\ Program(p)[5 + k].code = "equal"
        /\ Program(p)[5 + k].k = SyscallNumber[p.deny[k]]
        /\ Program(p)[5 + k].jt = n - (k - 1)
    <3>. DEFINE jump == Jump("equal", SyscallNumber[p.deny[k]], n - (k - 1))
    <3>1. jump.code = "equal" /\ jump.k = SyscallNumber[p.deny[k]]
      BY DEF Jump
    <3>2. jump.jt = (n - (k - 1)) % 256
      BY DEF Jump
    <3>3. Program(p)[5 + k] = jump
      BY <2>1
    <3>. HIDE DEF jump
    <3>. QED
      BY <2>2, <3>1, <3>2, <3>3
  <2>4. CASE acc = SyscallNumber[p.deny[k]]
    BY <2>2, <2>3, <2>4 DEF Step
  <2>5. CASE acc # SyscallNumber[p.deny[k]]
    BY <2>2, <2>3, <2>5 DEF Step
  <2>. QED
    BY <2>4, <2>5
<1>8. /\ Step(Program(p), call, R, n + 6, acc) = "allow"
      /\ Step(Program(p), call, R, n + 7, acc) = "errno"
      /\ Step(Program(p), call, R, n + 8, acc) = "kill"
  <2>1. /\ Program(p)[n + 6] = Return("allow") /\ Program(p)[n + 7] = Return("errno")
        /\ Program(p)[n + 8] = Return("kill")
    BY ProgramForm
  <2>. QED
    BY <2>1 DEF Step, Return
<1>. QED
  BY <1>2, <1>3, <1>4, <1>5, <1>6, <1>7, <1>8 DEF Steps

\* The outcome a run must have, from every instruction.
Outcome(p, call, pc, acc) ==
  LET n == Len(p.deny) IN
  IF pc = 1 THEN Expected(p, call)
  ELSE IF pc = 2 THEN (IF acc = Machine[Host.arch] THEN Numbered(p, call.nr) ELSE "kill")
  ELSE IF pc = 3 THEN "kill"
  ELSE IF pc = 4 THEN Numbered(p, call.nr)
  ELSE IF pc = 5 THEN Numbered(p, acc)
  ELSE IF pc <= n + 6 THEN Listed(p, pc - 5, acc)
  ELSE IF pc = n + 7 THEN "errno"
  ELSE "kill"

\* The denials of a policy with n of them, one after the other.
InTurn(p, n, acc) ==
  /\ \A k \in 1 .. n : Listed(p, k, acc) =
       IF acc = SyscallNumber[p.deny[k]] THEN "errno" ELSE Listed(p, k + 1, acc)
  /\ Listed(p, n + 1, acc) = "allow"

\* The kth denial is looked at before the ones after it.
LEMMA ListedNext ==
  ASSUME NEW p, NEW n \in Nat, n = Len(p.deny), NEW acc
  PROVE  InTurn(p, n, acc)
<1>1. ASSUME NEW k \in 1 .. n
      PROVE  DeniedFrom(p, k, acc) <=> acc = SyscallNumber[p.deny[k]] \/ DeniedFrom(p, k + 1, acc)
  <2>1. k .. n = {k} \cup (k + 1) .. n
    OBVIOUS
  <2>. QED
    BY <2>1 DEF DeniedFrom
<1>2. ~DeniedFrom(p, n + 1, acc)
  BY DEF DeniedFrom
<1>. QED
  BY <1>1, <1>2 DEF Listed, InTurn

\* The outcome a run must have, instruction by instruction.
OutcomeForm(p, n, call, acc) ==
  /\ Outcome(p, call, 1, acc) = Expected(p, call)
  /\ Outcome(p, call, 2, acc) = IF acc = Machine[Host.arch] THEN Numbered(p, call.nr) ELSE "kill"
  /\ Outcome(p, call, 3, acc) = "kill"
  /\ Outcome(p, call, 4, acc) = Numbered(p, call.nr)
  /\ Outcome(p, call, 5, acc) = Numbered(p, acc)
  /\ \A k \in 1 .. n + 1 : Outcome(p, call, 5 + k, acc) = Listed(p, k, acc)
  /\ Outcome(p, call, n + 7, acc) = "errno"
  /\ Outcome(p, call, n + 8, acc) = "kill"

\* The outcome of an instruction depends on its place in the program only.
LEMMA OutcomeForms ==
  ASSUME NEW p, NEW n \in Nat, n = Len(p.deny), NEW call, NEW acc
  PROVE  OutcomeForm(p, n, call, acc)
<1>1. Outcome(p, call, 1, acc) = Expected(p, call)
  BY DEF Outcome
<1>2. Outcome(p, call, 2, acc) = IF acc = Machine[Host.arch] THEN Numbered(p, call.nr) ELSE "kill"
  BY DEF Outcome
<1>3. Outcome(p, call, 3, acc) = "kill"
  BY DEF Outcome
<1>4. Outcome(p, call, 4, acc) = Numbered(p, call.nr)
  BY DEF Outcome
<1>5. Outcome(p, call, 5, acc) = Numbered(p, acc)
  BY DEF Outcome
<1>6. ASSUME NEW k \in 1 .. n + 1
      PROVE  Outcome(p, call, 5 + k, acc) = Listed(p, k, acc)
  <2>1. 5 + k > 5 /\ 5 + k <= n + 6 /\ (5 + k) - 5 = k
    OBVIOUS
  <2>. QED
    BY <2>1 DEF Outcome
<1>7. Outcome(p, call, n + 7, acc) = "errno"
  <2>1. n + 7 > 5 /\ ~(n + 7 <= n + 6)
    OBVIOUS
  <2>. QED
    BY <2>1 DEF Outcome
<1>8. Outcome(p, call, n + 8, acc) = "kill"
  <2>1. n + 8 > 5 /\ ~(n + 8 <= n + 6) /\ n + 8 # n + 7
    OBVIOUS
  <2>. QED
    BY <2>1 DEF Outcome
<1>. QED
  BY <1>1, <1>2, <1>3, <1>4, <1>5, <1>6, <1>7, <1>8 DEF OutcomeForm

\* The program of a policy has a run on every call.
LEMMA RunExists ==
  ASSUME NEW p \in PolicyValues, Valid(p), Known(p), NEW call \in Calling
  PROVE  \E R : IsRun(Program(p), call, R)
<1>. DEFINE n == Len(p.deny)
            R == [pc \in 1 .. n + 8 |-> [acc \in Nat |-> Outcome(p, call, pc, acc)]]
<1>1. n \in Nat /\ n <= 18
  BY FewDenied
<1>2. Len(Program(p)) = n + 8
  BY ProgramForm
<1>3. call.arch \in Nat /\ call.nr \in Nat
  BY DEF Calling
<1>4. \A pc \in 1 .. n + 8, acc \in Nat : R[pc][acc] = Outcome(p, call, pc, acc)
  OBVIOUS
<1>a. \A acc \in Nat : Steps(p, n, call, R, acc)
  <2>. HIDE DEF R
  <2>. QED
    BY ProgramSteps
<1>b. \A acc \in Nat : InTurn(p, n, acc)
  <2>1. n = Len(p.deny)
    OBVIOUS
  <2>. HIDE DEF R, n
  <2>. QED
    BY <1>1, <2>1, ListedNext
<1>. HIDE DEF R, n
<1>c. n = Len(p.deny)
  BY DEF n
<1>d. \A acc \in Nat : OutcomeForm(p, n, call, acc)
  BY <1>1, <1>c, OutcomeForms
<1>e. \A k \in 1 .. n + 1, acc \in Nat : R[5 + k][acc] = Listed(p, k, acc)
  <2>. TAKE k \in 1 .. n + 1
  <2>. TAKE acc \in Nat
  <2>1. 5 + k \in 1 .. n + 8
    BY <1>1
  <2>2. R[5 + k][acc] = Outcome(p, call, 5 + k, acc)
    BY <1>4, <2>1
  <2>3. Outcome(p, call, 5 + k, acc) = Listed(p, k, acc)
    BY <1>d DEF OutcomeForm
  <2>. QED
    BY <2>2, <2>3
<1>f. \A acc \in Nat :
        /\ R[1][acc] = Expected(p, call)
        /\ R[2][acc] = IF acc = Machine[Host.arch] THEN Numbered(p, call.nr) ELSE "kill"
        /\ R[3][acc] = "kill"
        /\ R[4][acc] = Numbered(p, call.nr)
        /\ R[5][acc] = Numbered(p, acc)
        /\ R[n + 7][acc] = "errno"
        /\ R[n + 8][acc] = "kill"
  <2>. TAKE acc \in Nat
  <2>1. {1, 2, 3, 4, 5, n + 7, n + 8} \subseteq 1 .. n + 8
    BY <1>1
  <2>2. \A pc \in {1, 2, 3, 4, 5, n + 7, n + 8} : R[pc][acc] = Outcome(p, call, pc, acc)
    BY <1>4, <2>1
  <2>3. OutcomeForm(p, n, call, acc)
    BY <1>d
  <2>. QED
    BY <2>2, <2>3 DEF OutcomeForm
<1>5. ASSUME NEW pc \in 1 .. n + 8, NEW acc \in Nat
      PROVE  R[pc][acc] = Step(Program(p), call, R, pc, acc)
  <2>a. Steps(p, n, call, R, acc)
    BY <1>a
  <2>b. InTurn(p, n, acc)
    BY <1>b
  <2>1. CASE pc = 1
    <3>1. R[2][call.arch] = IF call.arch = Machine[Host.arch] THEN Numbered(p, call.nr) ELSE "kill"
      BY <1>3, <1>f
    <3>2. Step(Program(p), call, R, 1, acc) = R[2][call.arch]
      BY <2>a DEF Steps
    <3>3. R[1][acc] = Expected(p, call)
      BY <1>f
    <3>. QED
      BY <2>1, <3>1, <3>2, <3>3 DEF Expected
  <2>2. CASE pc = 2
    <3>1. Step(Program(p), call, R, 2, acc) =
            IF acc = Machine[Host.arch] THEN R[4][acc] ELSE R[3][acc]
      BY <2>a DEF Steps
    <3>. QED
      BY <1>f, <2>2, <3>1
  <2>3. CASE pc = 3
    <3>1. Step(Program(p), call, R, 3, acc) = "kill"
      BY <2>a DEF Steps
    <3>. QED
      BY <1>f, <2>3, <3>1
  <2>4. CASE pc = 4
    <3>1. Step(Program(p), call, R, 4, acc) = R[5][call.nr]
      BY <2>a DEF Steps
    <3>. QED
      BY <1>3, <1>f, <2>4, <3>1
  <2>5. CASE pc = 5
    <3>1. Step(Program(p), call, R, 5, acc) = IF acc >= X32Bit THEN R[n + 8][acc] ELSE R[6][acc]
      BY <2>a DEF Steps
    <3>2. R[6][acc] = Listed(p, 1, acc)
      <4>1. 1 \in 1 .. n + 1 /\ 5 + 1 = 6
        BY <1>1
      <4>. QED
        BY <1>e, <4>1
    <3>3. R[5][acc] = Numbered(p, acc) /\ R[n + 8][acc] = "kill"
      BY <1>f
    <3>. QED
      BY <2>5, <3>1, <3>2, <3>3 DEF Numbered
  <2>6. CASE pc \in 6 .. n + 5
    <3>. DEFINE k == pc - 5
    <3>1. /\ k \in 1 .. n /\ k \in 1 .. n + 1 /\ k + 1 \in 1 .. n + 1
          /\ 5 + k = pc /\ 5 + (k + 1) = 6 + k
      BY <1>1, <2>6
    <3>. HIDE DEF k
    <3>2. R[pc][acc] = Listed(p, k, acc)
      BY <1>e, <3>1
    <3>3. R[6 + k][acc] = Listed(p, k + 1, acc)
      BY <1>e, <3>1
    <3>4. R[n + 7][acc] = "errno"
      BY <1>f
    <3>5. Step(Program(p), call, R, 5 + k, acc) =
            IF acc = SyscallNumber[p.deny[k]] THEN R[n + 7][acc] ELSE R[6 + k][acc]
      BY <2>a, <3>1 DEF Steps
    <3>6. Listed(p, k, acc) = IF acc = SyscallNumber[p.deny[k]] THEN "errno" ELSE Listed(p, k + 1, acc)
      BY <2>b, <3>1 DEF InTurn
    <3>. QED
      BY <3>1, <3>2, <3>3, <3>4, <3>5, <3>6
  <2>7. CASE pc = n + 6
    <3>1. R[n + 6][acc] = Listed(p, n + 1, acc)
      <4>1. n + 1 \in 1 .. n + 1 /\ 5 + (n + 1) = n + 6
        BY <1>1
      <4>. QED
        BY <1>e, <4>1
    <3>2. Listed(p, n + 1, acc) = "allow"
      BY <2>b DEF InTurn
    <3>3. Step(Program(p), call, R, n + 6, acc) = "allow"
      BY <2>a DEF Steps
    <3>. QED
      BY <2>7, <3>1, <3>2, <3>3
  <2>8. CASE pc = n + 7
    <3>1. Step(Program(p), call, R, n + 7, acc) = "errno"
      BY <2>a DEF Steps
    <3>. QED
      BY <1>f, <2>8, <3>1
  <2>9. CASE pc = n + 8
    <3>1. Step(Program(p), call, R, n + 8, acc) = "kill"
      BY <2>a DEF Steps
    <3>. QED
      BY <1>f, <2>9, <3>1
  <2>10. pc \in 1 .. 5 \/ pc \in 6 .. n + 5 \/ pc \in {n + 6, n + 7, n + 8}
    BY <1>1
  <2>. QED
    BY <2>1, <2>2, <2>3, <2>4, <2>5, <2>6, <2>7, <2>8, <2>9, <2>10
<1>6. R = [pc \in 1 .. n + 8 |-> [acc \in Nat |-> Step(Program(p), call, R, pc, acc)]]
  <2>. DEFINE S == [pc \in 1 .. n + 8 |-> [acc \in Nat |-> Step(Program(p), call, R, pc, acc)]]
  <2>1. \A pc \in 1 .. n + 8 : R[pc] = [acc \in Nat |-> Outcome(p, call, pc, acc)]
    BY DEF R
  <2>2. ASSUME NEW pc \in 1 .. n + 8 PROVE R[pc] = [acc \in Nat |-> Step(Program(p), call, R, pc, acc)]
    <3>1. \A acc \in Nat : Outcome(p, call, pc, acc) = Step(Program(p), call, R, pc, acc)
      BY <1>4, <1>5
    <3>. QED
      BY <2>1, <3>1
  <2>3. R = [pc \in 1 .. n + 8 |-> R[pc]]
    BY DEF R
  <2>. QED
    BY <2>2, <2>3
<1>. QED
  BY <1>2, <1>6 DEF IsRun

\* A set of numbers has a least one.
LEMMA LeastNumber ==
  ASSUME NEW T, T \subseteq Nat, T # {}
  PROVE  \E x \in T : \A y \in T : ~(y < x)
<1>. DEFINE Less == OpToRel(<, Nat)
<1>1. \A x, y \in Nat : x < y => <<x, y>> \in Less
  BY DEF OpToRel
<1>2. IsWellFoundedOn(Less, Nat)
  BY NatLessThanWellFounded
<1>. HIDE DEF Less
<1>3. \E x \in T : \A y \in T : ~(<<y, x>> \in Less)
  BY <1>2, WFMin
<1>. QED
  BY <1>1, <1>3

\* A run that takes the steps of the program has the outcome the policy asks for.
LEMMA RunOutcome ==
  ASSUME NEW p, NEW n \in Nat, n = Len(p.deny), NEW call \in Calling, NEW R,
         \A acc \in Nat : Steps(p, n, call, R, acc),
         \A pc \in 1 .. n + 8, acc \in Nat : R[pc][acc] = Step(Program(p), call, R, pc, acc)
  PROVE  R[1][0] = Expected(p, call)
<1>. DEFINE Differs(d) == \E acc \in Nat : R[n + 6 - d][acc] # Listed(p, n + 1 - d, acc)
            Bad == {d \in 0 .. n : Differs(d)}
<1>1. \A acc \in Nat : InTurn(p, n, acc)
  BY ListedNext
<1>2. \A acc \in Nat : R[n + 6][acc] = "allow" /\ R[n + 7][acc] = "errno" /\ R[n + 8][acc] = "kill"
  <2>1. n + 6 \in 1 .. n + 8 /\ n + 7 \in 1 .. n + 8 /\ n + 8 \in 1 .. n + 8
    OBVIOUS
  <2>. TAKE acc \in Nat
  <2>2. /\ R[n + 6][acc] = Step(Program(p), call, R, n + 6, acc)
        /\ R[n + 7][acc] = Step(Program(p), call, R, n + 7, acc)
        /\ R[n + 8][acc] = Step(Program(p), call, R, n + 8, acc)
    BY <2>1
  <2>. QED
    BY <2>2 DEF Steps
<1>3. \A k \in 1 .. n : \A acc \in Nat :
        R[5 + k][acc] = IF acc = SyscallNumber[p.deny[k]] THEN "errno" ELSE R[6 + k][acc]
  <2>. TAKE k \in 1 .. n
  <2>. TAKE acc \in Nat
  <2>1. 5 + k \in 1 .. n + 8
    OBVIOUS
  <2>2. R[5 + k][acc] = Step(Program(p), call, R, 5 + k, acc)
    BY <2>1
  <2>3. Steps(p, n, call, R, acc)
    OBVIOUS
  <2>4. Step(Program(p), call, R, 5 + k, acc) =
          IF acc = SyscallNumber[p.deny[k]] THEN R[n + 7][acc] ELSE R[6 + k][acc]
    BY <2>3 DEF Steps
  <2>. QED
    BY <1>2, <2>2, <2>4
<1>4. Bad = {}
  <2>1. SUFFICES ASSUME Bad # {} PROVE FALSE
    OBVIOUS
  <2>0. Bad \subseteq Nat
    OBVIOUS
  <2>2. PICK d \in Bad : \A e \in Bad : ~(e < d)
    <3>. HIDE DEF Bad
    <3>. QED
      BY <2>0, <2>1, LeastNumber
  <2>3. PICK acc \in Nat : R[n + 6 - d][acc] # Listed(p, n + 1 - d, acc)
    BY <2>2
  <2>4. CASE d = 0
    <3>1. n + 6 - d = n + 6 /\ n + 1 - d = n + 1
      BY <2>4
    <3>. QED
      BY <1>1, <1>2, <2>3, <3>1 DEF InTurn
  <2>5. CASE d # 0
    <3>. DEFINE k == n + 1 - d
    <3>1. /\ k \in 1 .. n /\ n + 6 - d = 5 + k /\ n + 6 - (d - 1) = 6 + k
          /\ n + 1 - (d - 1) = k + 1 /\ d - 1 \in 0 .. n /\ d - 1 < d
      BY <2>5
    <3>2. ~Differs(d - 1)
      BY <2>2, <3>1
    <3>3. R[6 + k][acc] = Listed(p, k + 1, acc)
      BY <3>1, <3>2
    <3>4. R[5 + k][acc] # Listed(p, k, acc)
      BY <2>3, <3>1
    <3>. HIDE DEF k
    <3>5. R[5 + k][acc] = IF acc = SyscallNumber[p.deny[k]] THEN "errno" ELSE R[6 + k][acc]
      BY <1>3, <3>1
    <3>6. Listed(p, k, acc) = IF acc = SyscallNumber[p.deny[k]] THEN "errno" ELSE Listed(p, k + 1, acc)
      BY <1>1, <3>1 DEF InTurn
    <3>. QED
      BY <3>3, <3>4, <3>5, <3>6
  <2>. QED
    BY <2>4, <2>5
<1>5. \A acc \in Nat : R[6][acc] = Listed(p, 1, acc)
  <2>1. n \in 0 .. n /\ n + 6 - n = 6 /\ n + 1 - n = 1
    OBVIOUS
  <2>2. ~Differs(n)
    BY <1>4, <2>1
  <2>. QED
    BY <2>1, <2>2
<1>6. \A acc \in Nat :
        /\ R[1][acc] = Step(Program(p), call, R, 1, acc)
        /\ R[2][acc] = Step(Program(p), call, R, 2, acc)
        /\ R[3][acc] = Step(Program(p), call, R, 3, acc)
        /\ R[4][acc] = Step(Program(p), call, R, 4, acc)
        /\ R[5][acc] = Step(Program(p), call, R, 5, acc)
  OBVIOUS
<1>7. \A acc \in Nat : R[5][acc] = Numbered(p, acc)
  BY <1>2, <1>5, <1>6 DEF Steps, Numbered
<1>8. call.arch \in Nat /\ call.nr \in Nat
  BY DEF Calling
<1>9. \A acc \in Nat : R[4][acc] = Numbered(p, call.nr)
  BY <1>6, <1>7, <1>8 DEF Steps
<1>10. \A acc \in Nat : R[3][acc] = "kill"
  BY <1>6 DEF Steps
<1>11. R[2][call.arch] = Expected(p, call)
  BY <1>6, <1>8, <1>9, <1>10 DEF Steps, Expected
<1>. QED
  BY <1>6, <1>11 DEF Steps

\* The program built from a policy answers every call, of any architecture and number, as
\* the policy says: no jump lands in the wrong place or is cut to its eight bits, and a call
\* of the other machine or of the x32 ABI is never let through (platform_linux.go:363-387).
THEOREM FilterAnswers ==
  ASSUME NEW p \in PolicyValues, Valid(p), Known(p), NEW call \in Calling
  PROVE  Verdict(Program(p), call) = Answer(p, call)
<1>1. Len(p.deny) \in Nat /\ Len(Program(p)) = Len(p.deny) + 8
  BY FewDenied, ProgramForm
<1>2. PICK R : IsRun(Program(p), call, R) /\ Verdict(Program(p), call) = R[1][0]
  BY RunExists, VerdictOfRun
<1>3. R[1][0] = Expected(p, call)
  <2>1. \A acc \in Nat : Steps(p, Len(p.deny), call, R, acc)
    BY ProgramSteps
  <2>2. \A pc \in 1 .. Len(p.deny) + 8, acc \in Nat :
          R[pc][acc] = Step(Program(p), call, R, pc, acc)
    <3>1. R = [pc \in 1 .. Len(p.deny) + 8 |-> [acc \in Nat |-> Step(Program(p), call, R, pc, acc)]]
      BY <1>1, <1>2 DEF IsRun
    <3>. DEFINE Stepped(pc) == [acc \in Nat |-> Step(Program(p), call, R, pc, acc)]
    <3>2. \A pc : \A acc \in Nat : Stepped(pc)[acc] = Step(Program(p), call, R, pc, acc)
      OBVIOUS
    <3>3. R = [pc \in 1 .. Len(p.deny) + 8 |-> Stepped(pc)]
      BY <3>1
    <3>. HIDE DEF Stepped
    <3>4. \A pc \in 1 .. Len(p.deny) + 8 : R[pc] = Stepped(pc)
      BY <3>3
    <3>. QED
      BY <3>2, <3>4
  <2>. QED
    BY <1>1, <2>1, <2>2, RunOutcome
<1>4. Expected(p, call) = Answer(p, call)
  <2>1. p.deny \in Seq(STRING)
    BY DEF PolicyValues
  <2>2. ToSet(p.deny) = {p.deny[k] : k \in 1 .. Len(p.deny)}
    BY <2>1, LenProperties DEF ToSet
  <2>3. DeniedFrom(p, 1, call.nr) <=> \E name \in ToSet(p.deny) : SyscallNumber[name] = call.nr
    BY <2>2 DEF DeniedFrom
  <2>. QED
    BY <2>3 DEF Expected, Numbered, Listed, Answer
<1>. QED
  BY <1>2, <1>3, <1>4
=============================================================================
