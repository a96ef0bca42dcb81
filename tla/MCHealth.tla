------------------------------- MODULE MCHealth -------------------------------
(***************************************************************************)
(* Health with two liveness and three readiness checks, one of which may   *)
(* never return.                                                           *)
(***************************************************************************)
EXTENDS Health

FiveChecks ==
  << [name |-> 1, kind |-> Liveness], [name |-> 1, kind |-> Readiness],
     [name |-> 2, kind |-> Liveness], [name |-> 2, kind |-> Readiness],
     [name |-> 3, kind |-> Readiness] >>

OneHangs == {[name |-> 2, kind |-> Readiness]}

\* A warning, and an unset status that counts as pass or as fail by its error.
ThreeAnswers ==
  [status : {0}, err : BOOLEAN] \cup {[status |-> Warn, err |-> TRUE]}
===============================================================================
