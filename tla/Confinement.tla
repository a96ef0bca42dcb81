----------------------------- MODULE Confinement -----------------------------
(***************************************************************************)
(* What a securitylinux.Policy means: the Landlock ruleset and the seccomp *)
(* program built from it, and the probe its handoff names.  Definitions    *)
(* only; Resources gives them a process.                                   *)
(*                                                                         *)
(* A path is the sequence of what stands between its slashes, as the       *)
(* policy spells it: "/etc/" is <<"etc", "">>, "/" is <<"">>.  Read-only,  *)
(* writable and executable paths and grants are sets: Validate refuses a   *)
(* path twice, and neither a ruleset nor a digest depends on their order.  *)
(***************************************************************************)
EXTENDS Naturals, Sequences, SequencesExt

CONSTANT Host \* the kernel and the files: abi, arch, files, directories, executable

Paths == Seq(STRING)

-----------------------------------------------------------------------------
(* Policies.                                                               *)

PolicyValues ==
  [mode       : STRING,
   readOnly   : SUBSET Paths,
   writable   : SUBSET Paths,
   executable : SUBSET Paths,
   grants     : SUBSET [path : Paths, access : SUBSET STRING],
   exceptExec : BOOLEAN,
   deny       : Seq(STRING),
   landlock   : BOOLEAN,
   seccomp    : BOOLEAN]

WantsLandlock(p) ==
  p.landlock \/ (p.readOnly \cup p.writable \cup p.executable) # {} \/ p.grants # {}

WantsSeccomp(p) == p.seccomp \/ p.deny # <<>>

\* Paths are absolute here by their form.
Valid(p) ==
  /\ p.mode \in {"off", "preferred", "required"}
  /\ \A g \in p.grants : g.access # {}
  /\ IsInjective(p.deny)

\* normalized sorts what Digest hashes.
Digest(p) == [p EXCEPT !.deny = ToSet(@)]

-----------------------------------------------------------------------------
(* Landlock.  A rule grants rights at a path and below it; a right that is *)
(* handled and granted by no rule is denied.                               *)

BaseRights ==
  {"execute", "write_file", "read_file", "read_directory", "remove_directory",
   "remove_file", "make_character", "make_directory", "make_regular", "make_socket",
   "make_fifo", "make_block", "make_symlink"}

SupportedFilesystemRights ==
  BaseRights \cup (IF Host.abi >= 2 THEN {"refer"} ELSE {})
             \cup (IF Host.abi >= 3 THEN {"truncate"} ELSE {})
             \cup (IF Host.abi >= 5 THEN {"ioctl_device"} ELSE {})

Handled(p) == SupportedFilesystemRights \ (IF p.exceptExec THEN {"execute"} ELSE {})

\* filepath.Clean.
Clean(path) ==
  FoldLeft(LAMBDA clean, name :
             CASE name \in {"", "."} -> clean
               [] name = ".."        -> IF clean = <<>> THEN clean ELSE Front(clean)
               [] OTHER              -> Append(clean, name),
           <<>>, path)

DevNull == <<"dev", "null">>

\* The kernel knows its files by their clean paths, and has nothing below a file.
ASSUME HostAssumption ==
  /\ Host.abi \in Nat
  /\ Host.arch \in {"amd64", "arm64"}
  /\ Host.executable \in Host.files
  /\ Host.files \cup Host.directories \subseteq Paths
  /\ DevNull \notin Host.directories
  /\ \A file \in Host.files :
       /\ Clean(file) = file
       /\ \A path \in Host.files \cup Host.directories : IsPrefix(file, path) => path = file

RulesAt(paths, rights) == {[at |-> path, rights |-> rights] : path \in paths}

\* What the policy spells out, the binary and /dev/null.
RequestedRules(p) ==
  RulesAt(p.readOnly, {"read_file", "read_directory", "execute"})
    \cup RulesAt(p.writable, Handled(p))
    \cup RulesAt(p.executable, {"execute", "read_file", "read_directory"})
    \cup {[at |-> g.path, rights |-> g.access] : g \in p.grants}
    \cup RulesAt({Host.executable}, {"read_file", "execute"})
    \cup RulesAt({DevNull} \cap Host.files, {"read_file", "write_file"})

\* ExceptExec is taken off by Handled.
Rules(p) == {[rule EXCEPT !.rights = @ \cap Handled(p)] : rule \in RequestedRules(p)}

\* The kernel refuses a rule for a file that grants what only a directory has.
Addable(rule) ==
  \/ Clean(rule.at) \in Host.directories
  \/ /\ Clean(rule.at) \in Host.files
     /\ rule.rights \subseteq {"execute", "write_file", "read_file", "truncate", "ioctl_device"}

\* buildLandlock succeeds.
Buildable(p) ==
  /\ Host.abi > 0
  /\ p.exceptExec => p.executable = {}
  /\ \A g \in p.grants : g.access \subseteq Handled(p)
  /\ \A rule \in Rules(p) : Addable(rule)

\* What a thread restricted to p may still do.
Permits(p, path, right) ==
  \/ right \notin Handled(p)
  \/ \E rule \in Rules(p) : right \in rule.rights /\ IsPrefix(Clean(rule.at), path)

\* What a policy entitles to, of the rights the kernel can restrict.
Entitled(p, path, right) ==
  LET Below(paths) == \E t \in paths : IsPrefix(Clean(t), path) IN
  \/ right = "execute" /\ p.exceptExec
  \/ right \in {"read_file", "read_directory", "execute"} /\ Below(p.readOnly \cup p.executable)
  \/ Below(p.writable)
  \/ \E g \in p.grants : right \in g.access /\ Below({g.path})
  \/ path = Host.executable /\ right \in {"read_file", "execute"}
  \/ path = DevNull /\ right \in {"read_file", "write_file"}

-----------------------------------------------------------------------------
(* The probe: a file that the policy does not grant and the host has.      *)

TrimSlash(path) == IF path # <<>> /\ Last(path) = "" THEN Front(path) ELSE path

\* Textual: the policy's path is not cleaned.
PathGranted(p, target) ==
  \E path \in p.readOnly \cup p.writable \cup p.executable \cup {g.path : g \in p.grants} :
    IsPrefix(TrimSlash(path), target)

Probes == <<<<"proc", "1", "status">>, <<"proc", "self", "status">>, <<"etc", "hosts">>>>

NoProbe == <<>>

SelectProbe(p) ==
  LET usable == SelectSeq(Probes, LAMBDA t : ~PathGranted(p, t) /\ t \in Host.files)
  IN  IF usable = <<>> THEN NoProbe ELSE Head(usable)

-----------------------------------------------------------------------------
(* Seccomp.                                                                *)

\* ABIForArchitecture, with the machine's number for the kernel's constant.
Machine == [amd64 |-> 62, arm64 |-> 183]

SyscallNumbers ==
  [amd64 |-> [read |-> 0, write |-> 1, open |-> 2, close |-> 3, getpid |-> 39, connect |-> 42,
              bind |-> 49, execve |-> 59, ptrace |-> 101, mount |-> 165, kexec_load |-> 246,
              openat |-> 257, process_vm_readv |-> 310, process_vm_writev |-> 311,
              kexec_file_load |-> 320, bpf |-> 321, execveat |-> 322, userfaultfd |-> 323],
   arm64 |-> [mount |-> 40, openat |-> 56, close |-> 57, read |-> 63, write |-> 64,
              kexec_load |-> 104, ptrace |-> 117, getpid |-> 172, bind |-> 200,
              connect |-> 203, execve |-> 221, process_vm_readv |-> 270,
              process_vm_writev |-> 271, bpf |-> 280, execveat |-> 281, userfaultfd |-> 282,
              kexec_file_load |-> 294]]

SyscallNumber == SyscallNumbers[Host.arch]

Known(p) == ToSet(p.deny) \subseteq DOMAIN SyscallNumber

LoadWord(field)  == [code |-> "load", k |-> field, jt |-> 0]
Jump(code, k, n) == [code |-> code, k |-> k, jt |-> n % 256] \* a uint8
Return(verdict)  == [code |-> "return", k |-> verdict, jt |-> 0]

X32Bit == 2 ^ 30

\* buildSeccompFilter.
Program(p) ==
  LET n == Len(p.deny) IN
  <<LoadWord("arch"), Jump("equal", Machine[Host.arch], 1), Return("kill"), LoadWord("nr"),
    Jump("at_least", X32Bit, n + 2)>>
  \o [k \in 1 .. n |-> Jump("equal", SyscallNumber[p.deny[k]], n - (k - 1))]
  \o <<Return("allow"), Return("errno"), Return("kill")>>

\* The kernel runs a program on a call: a jump not taken goes to the next
\* instruction, one taken skips jt more.
Verdict(program, call) ==
  LET Run[pc \in 1 .. Len(program)] ==
        [acc \in Nat |->
           LET op    == program[pc]
               taken == \/ op.code = "equal" /\ acc = op.k
                        \/ op.code = "at_least" /\ acc >= op.k
           IN  IF op.code = "return" THEN op.k
               ELSE IF op.code = "load" THEN Run[pc + 1][call[op.k]]
               ELSE Run[pc + 1 + (IF taken THEN op.jt ELSE 0)][acc]]
  IN  Run[1][0]

\* What a policy says of a call.
Answer(p, call) ==
  IF call.arch # Machine[Host.arch] \/ call.nr >= X32Bit THEN "kill"
  ELSE IF \E name \in ToSet(p.deny) : SyscallNumber[name] = call.nr THEN "errno"
  ELSE "allow"
=============================================================================
