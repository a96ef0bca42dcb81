----------------------------- MODULE MCResources -----------------------------
(* Two instances, a host of a few files and six policies, for TLC.          *)
EXTENDS Resources

CONSTANTS i1, i2

TwoInstances == {i1, i2}

SmallHost ==
  [abi |-> 3, arch |-> "amd64", executable |-> <<"srv", "app">>,
   files |-> {<<"proc", "1", "status">>, <<"etc", "hosts">>, <<"dev", "null">>,
              <<"srv", "app">>, <<"usr", "sh">>, <<"data", "db">>},
   directories |-> {<<>>, <<"proc">>, <<"etc">>, <<"usr">>, <<"srv">>, <<"data">>}]

None ==
  [mode |-> "off", readOnly |-> {}, writable |-> {}, executable |-> {}, grants |-> {},
   exceptExec |-> FALSE, deny |-> <<>>, landlock |-> FALSE, seccomp |-> FALSE]

\* Grants /proc, for the sealing of descriptors, so that the probe is /etc/hosts.
Narrow ==
  [None EXCEPT !.mode = "required", !.readOnly = {<<"proc", "">>}, !.exceptExec = TRUE,
               !.deny = <<"ptrace", "mount">>]

SomePolicies ==
  {Narrow,
   \* Grants /proc for listing only, in a spelling that leaves /proc/1/status the probe.
   [Narrow EXCEPT !.readOnly = {<<"etc">>}, !.writable = {<<"data">>}, !.executable = {<<"usr">>},
                  !.grants = {[path |-> <<"etc", "..", "proc">>, access |-> {"read_directory"}]},
                  !.exceptExec = FALSE, !.deny = <<>>, !.seccomp = TRUE],
   \* Not valid: a syscall twice.
   [Narrow EXCEPT !.deny = <<"mount", "mount">>],
   \* No Landlock.
   [Narrow EXCEPT !.mode = "preferred", !.readOnly = {}],
   \* A re-exec that cannot seal its descriptors.
   [None EXCEPT !.mode = "preferred", !.landlock = TRUE, !.writable = {<<"data">>}],
   None}

BothOrders == {<<"ownership", "security">>, <<"security", "ownership">>}
=============================================================================
