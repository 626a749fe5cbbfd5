---------------------------- MODULE MCSlabHealth ----------------------------
(* How lost sectors are found and made good: the integrity checks of a host *)
(* and the repair of a slab.  One model holds both, part says which of them *)
(* runs; the other stays as it starts.                                      *)
EXTENDS SlabRepair, IntegrityChecks

CONSTANTS h1, h2, h3

VARIABLE part

healthVars == <<part, repairVars, checkVars>>

(* Two sectors, either of which recovers the slab.                          *)
Uploaded == 1 :> h1 @@ 2 :> h2
NoneNear == {}

HealthInit ==
    /\ part \in {"repair", "checks"}
    /\ RepairInit /\ ChecksInit
    /\ part # "repair" => failures = 0
    /\ part # "checks" => nextCheck = [r \in Roots |-> SuccessTime]

HealthNext ==
    \/ part = "repair" /\ RepairNext /\ UNCHANGED <<part, checkVars>>
    \/ part = "checks" /\ ChecksNext /\ UNCHANGED <<part, repairVars>>

(* The fairness of both modules, for the one that runs.                     *)
HealthFairness ==
    /\ RepairFairness
    /\ WF_checkVars(part = "checks" /\ CheckSteps)
    /\ WF_checkVars(part = "checks" /\ TimePasses)
    /\ WF_checkVars(part = "checks" /\ UpdateServiceAccounts)

HealthSpec == HealthInit /\ [][HealthNext]_healthVars /\ HealthFairness
=============================================================================
