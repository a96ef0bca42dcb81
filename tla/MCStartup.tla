------------------------------ MODULE MCStartup ------------------------------
(* One job and one condition of the application, for TLC.                   *)
EXTENDS Startup

CONSTANTS heartbeat, recovery

OneJob        == {heartbeat}
OneCondition  == {recovery}
Nothing       == {}
AllPolicies   == {"disabled", "validate_only", "migrate_before_start"}
MigratePolicy == {"migrate_before_start"}

\* gocron.WithName gives the job the name it is registered under.
SameName == [j \in OneJob |-> j]
=============================================================================
