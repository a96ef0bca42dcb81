------------------------------- MODULE Service -------------------------------
(***************************************************************************)
(* What hanami.Run promises of an application, whichever HTTP server it    *)
(* uses: application work is admitted once, after startup; it is refused   *)
(* for good from some moment on; and what the work may use is released     *)
(* when the server answers for none any more, or when the time for it has  *)
(* run out.                                                                *)
(*                                                                         *)
(* Work can come loose from the server: a drain that timed out dropped its *)
(* connection, or its handler took the connection over.  The promise does  *)
(* not say that loose work has ended before the release, only that it was  *)
(* begun in the one period of admission.                                   *)
(***************************************************************************)
CONSTANT Work \* pieces of application work, requests in a handler

VARIABLES
  stage,  \* where the application stands
  open,   \* new work is admitted
  active, \* the work under way that the server answers for
  loose   \* the work under way that came loose from it

vars == <<stage, open, active, loose>>

Init == stage = "starting" /\ open = FALSE /\ active = {} /\ loose = {}

Admit ==
  /\ stage = "starting"
  /\ stage' = "admitting" /\ open' = TRUE
  /\ UNCHANGED <<active, loose>>

\* Startup failed, or nothing is admitted any more.
Refuse ==
  /\ stage \in {"starting", "admitting"}
  /\ stage' = "refusing" /\ open' = FALSE
  /\ UNCHANGED <<active, loose>>

\* A request whose connection was dropped meanwhile begins loose.
Begin(w) ==
  /\ open
  /\ \/ w \notin active /\ active' = active \cup {w} /\ UNCHANGED loose
     \/ w \notin loose /\ loose' = loose \cup {w} /\ UNCHANGED active
  /\ UNCHANGED <<stage, open>>

ComesLoose(w) ==
  /\ w \in active
  /\ active' = active \ {w} /\ loose' = loose \cup {w}
  /\ UNCHANGED <<stage, open>>

End(w) ==
  /\ \/ w \in active /\ active' = active \ {w} /\ UNCHANGED loose
     \/ w \in loose /\ loose' = loose \ {w} /\ UNCHANGED active
  /\ UNCHANGED <<stage, open>>

Release ==
  /\ stage \in {"starting", "refusing"} /\ active = {}
  /\ stage' = "released"
  /\ UNCHANGED <<open, active, loose>>

\* The shutdown timeout is over.
GiveUp ==
  /\ stage = "refusing"
  /\ stage' = "abandoned"
  /\ UNCHANGED <<open, active, loose>>

Next ==
  \/ Admit \/ Refuse \/ Release \/ GiveUp
  \/ \E w \in Work : Begin(w) \/ ComesLoose(w) \/ End(w)

Spec == Init /\ [][Next]_vars
=============================================================================
