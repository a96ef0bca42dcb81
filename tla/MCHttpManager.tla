--------------------------- MODULE MCHttpManager ---------------------------
(* A small manager for TLC: two replacers, configurations on two addresses. *)
EXTENDS HttpManager, TLC

CONSTANTS r1, r2, s1, a, b, noProc

TwoReplacers == {r1, r2}
OneStopper   == {s1}
Nobody       == {}
TwoConfigs   == {a, b}
OwnAddress   == [c \in TwoConfigs |-> c]
ForcedOnA    == [c \in TwoConfigs |-> c = a]
Unforced     == [c \in TwoConfigs |-> FALSE]

ReplacerSymmetry == Permutations(TwoReplacers)
=============================================================================
