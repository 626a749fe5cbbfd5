------------------------------- MODULE MCHosts -------------------------------
(* Hosts and the locker of the contracts with them.  One model holds both,  *)
(* part says what runs: everything that happens to one host, the scans of   *)
(* two hosts that share the places of the loop, or the locker.  The rest    *)
(* stays as it starts.                                                      *)
EXTENDS Hosts, ContractLocker

CONSTANTS h1, h2

VARIABLE part

(* Nobody announces, imports or blocks the second host.                     *)
OneHost == known' \subseteq {h1} /\ \A b \in Blockers : blocking'[b].host # h2

(* No contracts are formed, and the operator does nothing but scan.         *)
ScansNext ==
    \/ \E h \in HostKeys : AddHostAnnouncement(h) \/ LongDowntime(h)
    \/ PruneHosts \/ Tick \/ HostsForScanning \/ ScanStep
    \/ ListUsableBlocked \/ RemoveBlocklistReasons

(* The fairness of Hosts that matters for scans, while hosts are scanned;   *)
(* the locker's own is met by a locker that does not run.                   *)
ScanFairness ==
    /\ WF_hostsVars(part # "locker" /\ HostsForScanning)
    /\ WF_hostsVars(part # "locker" /\ Tick)
    /\ WF_hostsVars(part # "locker" /\ ListUsableBlocked)
    /\ WF_hostsVars(part # "locker" /\ RemoveBlocklistReasons)
    /\ \A h \in HostKeys :
          /\ WF_hostsVars(part # "locker" /\ StartScan(h))
          /\ WF_hostsVars(part # "locker" /\ AbortScan(h))
          /\ SF_hostsVars(/\ part # "locker" /\ h \notin Hanging
                          /\ \E success \in BOOLEAN : FinishScan(h, success))

HostsLockerInit == part \in {"host", "scans", "locker"} /\ HostsInit /\ Init

HostsLockerNext ==
    \/ part = "host" /\ HostsNext /\ OneHost /\ UNCHANGED <<part, vars>>
    \/ part = "scans" /\ ScansNext /\ UNCHANGED <<part, vars>>
    \/ part = "locker" /\ Next /\ UNCHANGED <<part, hostsVars>>

HostsLockerSpec ==
    /\ HostsLockerInit /\ [][HostsLockerNext]_<<part, hostsVars, vars>>
    /\ ScanFairness /\ Fairness
==============================================================================
