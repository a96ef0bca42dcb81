----------------------------- MODULE MCManagedRun -----------------------------
(* A run with one updater and three generations, for TLC.                    *)
EXTENDS ManagedRun

CONSTANTS start, stop, updater, a, b, noProc

Calls      == {start, updater}
OneStopper == {stop}
TwoConfigs == {a, b}
OwnAddress == [c \in TwoConfigs |-> c]
Forced     == [c \in TwoConfigs |-> TRUE]
=============================================================================
