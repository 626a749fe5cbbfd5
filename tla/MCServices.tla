----------------------------- MODULE MCServices -----------------------------
(* The services of the daemon that keep state of their own: the transfers   *)
(* of one migration, a remote node's passes, the connections to a host, the *)
(* listing of object events, the registration of applications, statistics,  *)
(* the funding of a host's pools, the maintenance of contracts and the      *)
(* checks of a host's sectors.  None of them has a step in common with      *)
(* another, so one model holds them side by side: part says which of them   *)
(* runs, the others stay as they start.                                     *)
EXTENDS SlabTransfer, RemotePass, HostClient, ObjectEvents, AppKeys, StatsDeltas, Funding,
        ContractMaintenance, IntegrityChecks

CONSTANTS k1, k2, r1, r2, a1, a2, h1, h2

VARIABLE part

serviceVars == <<part, transferVars, passVars, clientVars, eventVars, keyVars, statVars,
                 fundVars, maintainVars, checkVars>>

(* The two requests come from two applications.                             *)
Requester == [r \in AuthRequests |-> IF r = r2 THEN a2 ELSE a1]

(* Two quotas; the first pays more for uploads than for reads.              *)
UploadTargets == <<2, 1>>
ReadTargets   == <<1, 1>>
FirstQuota    == [p \in Pools |-> 1]

(* Contracts at the start: two that end soon, with two hosts; or two with   *)
(* one host, the first out of funds, the second out of room, of which       *)
(* either can be refreshed and the other cannot.                            *)
InUse ==
    {<<NewContract(h2, 2, FALSE), NewContract(h1, 2, TRUE)>>} \cup
    {<<[NewContract(h1, 3, FALSE) EXCEPT !.funds = FALSE, !.fits = f],
       [NewContract(h1, 3, TRUE) EXCEPT !.room = FALSE, !.fits = ~f]>> : f \in BOOLEAN}
NoneNear == {}

(* What does not run starts in one of its initial states.                   *)
ServicesInit ==
    /\ part \in {"transfer", "pass", "client", "events", "keys", "stats", "funding",
                "maintenance", "checks"}
    /\ TransferInit /\ PassInit /\ ClientInit /\ EventsInit /\ KeysInit /\ StatsInit
    /\ FundingInit /\ MaintenanceInit /\ ChecksInit
    /\ part # "keys" => preKey.key = k1
    /\ part # "funding" => full = {} /\ \A c \in FundContracts : funds[c] = 1
    /\ part # "maintenance" => unpinned = {} /\ contracts[1].host = h2
    /\ part # "checks" => nextCheck = [r \in Roots |-> SuccessTime]

ServicesNext ==
    \/ /\ part = "transfer" /\ TransferNext
       /\ UNCHANGED <<part, passVars, clientVars, eventVars, keyVars, statVars,
                      fundVars, maintainVars, checkVars>>
    \/ /\ part = "pass" /\ PassNext
       /\ UNCHANGED <<part, transferVars, clientVars, eventVars, keyVars, statVars,
                      fundVars, maintainVars, checkVars>>
    \/ /\ part = "client" /\ ClientNext
       /\ UNCHANGED <<part, transferVars, passVars, eventVars, keyVars, statVars,
                      fundVars, maintainVars, checkVars>>
    \/ /\ part = "events" /\ EventsNext
       /\ UNCHANGED <<part, transferVars, passVars, clientVars, keyVars, statVars,
                      fundVars, maintainVars, checkVars>>
    \/ /\ part = "keys" /\ KeysNext
       /\ UNCHANGED <<part, transferVars, passVars, clientVars, eventVars, statVars,
                      fundVars, maintainVars, checkVars>>
    \/ /\ part = "stats" /\ StatsNext
       /\ UNCHANGED <<part, transferVars, passVars, clientVars, eventVars, keyVars,
                      fundVars, maintainVars, checkVars>>
    \/ /\ part = "funding" /\ FundingNext
       /\ UNCHANGED <<part, transferVars, passVars, clientVars, eventVars, keyVars,
                      statVars, maintainVars, checkVars>>
    \/ /\ part = "maintenance" /\ MaintenanceNext
       /\ UNCHANGED <<part, transferVars, passVars, clientVars, eventVars, keyVars,
                      statVars, fundVars, checkVars>>
    \/ /\ part = "checks" /\ ChecksNext
       /\ UNCHANGED <<part, transferVars, passVars, clientVars, eventVars, keyVars,
                      statVars, fundVars, maintainVars>>

ServicesSpec == ServicesInit /\ [][ServicesNext]_serviceVars
=============================================================================
