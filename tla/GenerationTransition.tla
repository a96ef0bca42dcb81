------------------------ MODULE GenerationTransition ------------------------
(***************************************************************************)
(* What http.Manager promises of its generations, without locks, listeners *)
(* or goroutines: replacements are serialized, one candidate at a time is  *)
(* either rejected, which changes nothing else, or promoted, which is the  *)
(* linearization point; a bounded number of replaced generations retire    *)
(* behind the current one; stopping ends it for good.                      *)
(***************************************************************************)
EXTENDS Naturals, FiniteSets

CONSTANTS
  MaxRetiring,  \* replaced generations that may retire at the same time
  MaxIssued     \* bound on the generation numbers

VARIABLES
  issued,    \* the last generation number handed out
  current,   \* the generation in service, 0 for none
  pending,   \* the candidate being verified
  retiring,  \* replaced generations not yet released
  stopped

vars == <<issued, current, pending, retiring, stopped>>

Init ==
  /\ issued = 0 /\ current = 0
  /\ pending = {} /\ retiring = {}
  /\ stopped = FALSE

\* A number is spent on a candidate that could not be prepared.
Waste ==
  /\ ~stopped /\ pending = {}
  /\ issued < MaxIssued
  /\ issued' = issued + 1
  /\ UNCHANGED <<current, pending, retiring, stopped>>

Propose ==
  /\ ~stopped /\ pending = {}
  /\ current # 0 => Cardinality(retiring) < MaxRetiring
  /\ issued < MaxIssued
  /\ issued' = issued + 1
  /\ pending' = {issued + 1}
  /\ UNCHANGED <<current, retiring, stopped>>

Reject ==
  /\ pending # {}
  /\ pending' = {}
  /\ UNCHANGED <<issued, current, retiring, stopped>>

Promote ==
  /\ \E g \in pending : current' = g
  /\ pending' = {}
  /\ retiring' = retiring \cup ({current} \ {0})
  /\ UNCHANGED <<issued, stopped>>

Retire(g) ==
  /\ g \in retiring
  /\ retiring' = retiring \ {g}
  /\ UNCHANGED <<issued, current, pending, stopped>>

Stop ==
  /\ ~stopped /\ pending = {}
  /\ stopped' = TRUE
  /\ current' = 0 /\ retiring' = {}
  /\ UNCHANGED <<issued, pending>>

Next ==
  \/ Waste \/ Propose \/ Reject \/ Promote \/ Stop
  \/ \E g \in retiring : Retire(g)

Spec == Init /\ [][Next]_vars
=============================================================================
