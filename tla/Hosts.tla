--------------------------------- MODULE Hosts ---------------------------------
(***************************************************************************)
(* The hosts table and its blocklist (hosts/manager.go,                    *)
(* persist/postgres/hosts.go).  The scan loop and the contract workers     *)
(* scan hosts concurrently; contract maintenance blocks unusable hosts and *)
(* forms contracts with usable ones; the scan loop unblocks hosts that are *)
(* usable again; an operator blocks, unblocks and imports hosts.           *)
(* Transactions run at READ COMMITTED: BlockHosts reads the reasons and    *)
(* writes them back in two steps.                                          *)
(***************************************************************************)
EXTENDS Integers, FiniteSets, FiniteSetsExt

CONSTANTS
    HostKeys,
    ScanThreads,     \* scans of the loop running at a time
    ScanInterval,    \* time to the next scan after a success
    MaxScanBackoff,  \* longest time to the next scan after a failure
    PruneFailures,   \* pruneMinConsecutiveScanFailures
    MaxFailures,     \* bound: failing scans of a host in a row
    MaxManual,       \* bound: operator actions
    Hanging          \* hosts that may accept a connection and never answer

ASSUME HostsAssumption ==
    /\ IsFiniteSet(HostKeys) /\ Hanging \subseteq HostKeys
    /\ {ScanThreads, ScanInterval, MaxScanBackoff, PruneFailures, MaxFailures} \subseteq Nat \ {0}
    /\ MaxManual \in Nat

(* A reason is "check", a failed usability check, or "manual", the          *)
(* operator's.                                                              *)
NoEntry  == {"not blocked"}
NoScan   == -1
NoBlock  == [host |-> "none"]
Blockers == {"maintenance", "operator"}

VARIABLES
    known,        \* rows of hosts
    nextScan,     \* time until the next scan
    failedScans,  \* consecutive_failed_scans
    checks,       \* usability checks of the stored settings: "never" scanned, "good" or "bad"
    downtime,     \* the last successful scan is older than pruneMinDowntime, or there is none
    stuck,        \* stuck_since is set
    blocklist,    \* reasons of a blocklist entry, or NoEntry
    contract,     \* contract with the host: "none", revisable and "good" or "bad", or "past"
    loopPc,       \* scan loop: "idle", "scan" or "unblock"
    queue,        \* scan loop: hosts it has still to start on
    running,      \* scan loop: places of the semaphore in use
    loopScan,     \* scan loop: the failures read when a scan in progress started
    workerScan,   \* a scan outside the loop, a contract worker's or the operator's, likewise
    toUnblock,    \* unblockUsableHosts: the hosts listed
    maintPc,      \* contract maintenance: "idle", "block" or "form"
    toBlock,      \* blockBadHosts: the hosts listed
    blocking,     \* BlockHosts of each blocker: host and reasons to be written
    forming,      \* formation: hosts found good, contract not yet inserted
    failedForm,   \* formation: hosts an operation has failed with
    manual,       \* operator actions so far
    missed,       \* history: failing scans since the last success or import
    banned        \* history: hosts the operator has blocked and not unblocked

hostRows  == <<known, nextScan, failedScans, checks, downtime, stuck>>
scanVars  == <<loopPc, queue, running, loopScan, workerScan, toUnblock>>
maintVars == <<maintPc, toBlock, forming, failedForm>>
hostsVars == <<hostRows, blocklist, contract, scanVars, maintVars, blocking, manual, missed, banned>>

(* Hosts are known once they announce themselves.                           *)
HostsInit ==
    /\ known = {}
    /\ nextScan = [h \in HostKeys |-> 0] /\ failedScans = [h \in HostKeys |-> 0]
    /\ checks = [h \in HostKeys |-> "never"] /\ downtime = [h \in HostKeys |-> TRUE]
    /\ stuck = {} /\ blocklist = [h \in HostKeys |-> NoEntry]
    /\ contract = [h \in HostKeys |-> "none"]
    /\ loopPc = "idle" /\ queue = {} /\ running = 0
    /\ loopScan = [h \in HostKeys |-> NoScan] /\ workerScan = [h \in HostKeys |-> NoScan]
    /\ toUnblock = {} /\ maintPc = "idle" /\ toBlock = {} /\ forming = {} /\ failedForm = {}
    /\ blocking = [b \in Blockers |-> NoBlock]
    /\ manual = 0 /\ missed = [h \in HostKeys |-> 0] /\ banned = {}

Blocked(h) == blocklist[h] # NoEntry
IsGood(h)  == h \in known /\ checks[h] = "good" /\ ~Blocked(h)
HasContract(h) == contract[h] \in {"good", "bad"}

-----------------------------------------------------------------------------
(***************************************************************************)
(* Announcements, imports and pruning                                      *)
(***************************************************************************)

(* A row starts due for a scan.                                             *)
NewRow(h) ==
    /\ known' = known \cup {h} /\ nextScan' = [nextScan EXCEPT ![h] = 0]
    /\ failedScans' = [failedScans EXCEPT ![h] = 0]
    /\ missed' = [missed EXCEPT ![h] = 0]

(* An announcement leaves the schedule of a known host alone, but may take  *)
(* a protocol away from it.                                                 *)
AddHostAnnouncement(h) ==
    /\ IF h \in known
       THEN /\ checks[h] = "good" /\ checks' = [checks EXCEPT ![h] = "bad"]
            /\ UNCHANGED <<known, nextScan, failedScans, missed>>
       ELSE NewRow(h) /\ checks' = [checks EXCEPT ![h] = "never"]
    /\ UNCHANGED <<downtime, stuck, blocklist, contract, scanVars, maintVars, blocking, manual, banned>>

ImportHost(h) ==
    /\ manual < MaxManual /\ manual' = manual + 1
    /\ NewRow(h)
    /\ checks' = [checks EXCEPT ![h] = IF h \in known THEN @ ELSE "never"]
    /\ UNCHANGED <<downtime, stuck, blocklist, contract, scanVars, maintVars, blocking, banned>>

Prunable(h) == h \in known /\ downtime[h] /\ failedScans[h] >= PruneFailures /\ contract[h] = "none"

PruneHosts ==
    /\ loopPc = "idle"
    /\ \E h \in HostKeys : Prunable(h)
    /\ LET gone == {h \in HostKeys : Prunable(h)} IN
       /\ known' = known \ gone /\ stuck' = stuck \ gone
       /\ checks' = [h \in HostKeys |-> IF h \in gone THEN "never" ELSE checks[h]]
    /\ UNCHANGED <<nextScan, failedScans, downtime, blocklist, contract, scanVars, maintVars,
                   blocking, manual, missed, banned>>

(* A year passes without a successful scan.                                 *)
LongDowntime(h) ==
    /\ h \in known /\ ~downtime[h] /\ failedScans[h] > 0
    /\ downtime' = [downtime EXCEPT ![h] = TRUE]
    /\ UNCHANGED <<known, nextScan, failedScans, checks, stuck, blocklist, contract, scanVars,
                   maintVars, blocking, manual, missed, banned>>

Tick ==
    /\ \E h \in known : nextScan[h] > 0
    /\ nextScan' = [h \in HostKeys |-> Max({nextScan[h] - 1, 0})]
    /\ UNCHANGED <<known, failedScans, checks, downtime, stuck, blocklist, contract, scanVars,
                   maintVars, blocking, manual, missed, banned>>

-----------------------------------------------------------------------------
(***************************************************************************)
(* Scanning                                                                *)
(***************************************************************************)

DueForScan == {h \in known : nextScan[h] = 0}

(* The ticker or a trigger starts a pass over the hosts that are due, a     *)
(* forced one over all of them.                                             *)
HostsForScanning ==
    /\ loopPc = "idle"
    /\ queue' \in {DueForScan, known} \ {{}}
    /\ loopPc' = "scan" /\ running' = 0
    /\ UNCHANGED <<hostRows, blocklist, contract, loopScan, workerScan, toUnblock, maintVars,
                   blocking, manual, missed, banned>>

(* ScanHost starts by reading the host.  A host that is gone is an error.   *)
StartScan(h) ==
    /\ loopPc = "scan" /\ h \in queue /\ running < ScanThreads
    /\ queue' = queue \ {h}
    /\ IF h \in known
       THEN loopScan' = [loopScan EXCEPT ![h] = failedScans[h]] /\ running' = running + 1
       ELSE UNCHANGED <<loopScan, running>>
    /\ UNCHANGED <<hostRows, blocklist, contract, loopPc, workerScan, toUnblock, maintVars,
                   blocking, manual, missed, banned>>

(* ScanHost, called for a contract worker whose prices have expired         *)
(* (WithScannedHost) or by the operator: any host that is known.            *)
ScanHost(h) ==
    /\ workerScan[h] = NoScan /\ h \in known
    /\ workerScan' = [workerScan EXCEPT ![h] = failedScans[h]]
    /\ UNCHANGED <<hostRows, blocklist, contract, loopPc, queue, running, loopScan, toUnblock,
                   maintVars, blocking, manual, missed, banned>>

(* calculateNextScanTime *)
NextScanTime(success, failures) ==
    IF success THEN ScanInterval ELSE Min({failures, MaxScanBackoff})

(* The stored count is incremented by the update, the schedule follows from *)
(* the count that was read when the scan started.  (Mutant: so does the     *)
(* stored count.)                                                           *)
CountedFailures(h, read) == read + 1
FailuresAfter(h, read) == failedScans[h] + 1

(* UpdateHostScan; a row that is gone is an error.  A failure lowers the    *)
(* uptime, a success stores the new settings.                               *)
UpdateHostScan(h, read, success) ==
    IF h \notin known
    THEN UNCHANGED <<nextScan, failedScans, checks, downtime, missed>>
    ELSE /\ nextScan' = [nextScan EXCEPT ![h] = NextScanTime(success, read + 1)]
         /\ IF success
            THEN /\ failedScans' = [failedScans EXCEPT ![h] = 0]
                 /\ checks' \in {[checks EXCEPT ![h] = c] : c \in {"good", "bad"}}
                 /\ downtime' = [downtime EXCEPT ![h] = FALSE]
                 /\ missed' = [missed EXCEPT ![h] = 0]
            ELSE /\ missed[h] < MaxFailures
                 /\ failedScans' = [failedScans EXCEPT ![h] = FailuresAfter(h, read)]
                 /\ checks' \in {checks, [checks EXCEPT ![h] = IF @ = "never" THEN @ ELSE "bad"]}
                 /\ missed' = [missed EXCEPT ![h] = @ + 1]
                 /\ UNCHANGED downtime

(* However a scan ends, its place is free again.  (Mutant: it is not.)      *)
KeptPlaces == running
Released   == running - 1

FinishScan(h, success) ==
    /\ loopScan[h] # NoScan
    /\ UpdateHostScan(h, loopScan[h], success)
    /\ loopScan' = [loopScan EXCEPT ![h] = NoScan] /\ running' = Released
    /\ UNCHANGED <<known, stuck, blocklist, contract, loopPc, queue, workerScan, toUnblock, maintVars,
                   blocking, manual, banned>>

FinishWorkerScan(h, success) ==
    /\ workerScan[h] # NoScan
    /\ UpdateHostScan(h, workerScan[h], success)
    /\ workerScan' = [workerScan EXCEPT ![h] = NoScan]
    /\ UNCHANGED <<known, stuck, blocklist, contract, loopPc, queue, running, loopScan, toUnblock,
                   maintVars, blocking, manual, banned>>

(* The scan's deadline passes, or the host cannot be reached while the      *)
(* node itself is offline: nothing is recorded.                             *)
AbortScan(h) ==
    /\ loopScan[h] # NoScan
    /\ loopScan' = [loopScan EXCEPT ![h] = NoScan] /\ running' = Released
    /\ UNCHANGED <<hostRows, blocklist, contract, loopPc, queue, workerScan, toUnblock, maintVars,
                   blocking, manual, missed, banned>>

AbortWorkerScan(h) ==
    /\ workerScan[h] # NoScan
    /\ workerScan' = [workerScan EXCEPT ![h] = NoScan]
    /\ UNCHANGED <<hostRows, blocklist, contract, loopPc, queue, running, loopScan, toUnblock,
                   maintVars, blocking, manual, missed, banned>>

(* All scans are in: unblockUsableHosts lists the blocked hosts that are    *)
(* usable and have no revisable contract.                                   *)
ListUsableBlocked ==
    /\ loopPc = "scan" /\ queue = {} /\ running = 0
    /\ toUnblock' = {h \in known : Blocked(h) /\ checks[h] = "good" /\ ~HasContract(h)}
    /\ loopPc' = "unblock"
    /\ UNCHANGED <<hostRows, blocklist, contract, queue, running, loopScan, workerScan, maintVars,
                   blocking, manual, missed, banned>>

Regood(c) == IF c = "bad" THEN "good" ELSE c

(* RemoveBlocklistReasons drops the failed checks; an entry left without a  *)
(* reason goes, and the host's contracts are good again.                    *)
RemoveBlocklistReasons ==
    /\ loopPc = "unblock"
    /\ LET cleared == {h \in toUnblock : Blocked(h) /\ blocklist[h] \subseteq {"check"}} IN
       /\ blocklist' = [h \in HostKeys |->
              IF h \in cleared THEN NoEntry
              ELSE IF h \in toUnblock /\ Blocked(h) THEN blocklist[h] \ {"check"} ELSE blocklist[h]]
       /\ contract' = [h \in HostKeys |-> IF h \in cleared THEN Regood(contract[h]) ELSE contract[h]]
    /\ toUnblock' = {} /\ loopPc' = "idle"
    /\ UNCHANGED <<hostRows, queue, running, loopScan, workerScan, maintVars, blocking, manual,
                   missed, banned>>

-----------------------------------------------------------------------------
(***************************************************************************)
(* Blocking                                                                *)
(***************************************************************************)

(* blockBadHosts lists the unusable hosts with a revisable contract.        *)
ListBadHosts ==
    /\ maintPc = "idle"
    /\ toBlock' = {h \in known : checks[h] # "good" /\ ~Blocked(h) /\ HasContract(h)}
    /\ maintPc' = "block"
    /\ UNCHANGED <<hostRows, blocklist, contract, scanVars, forming, failedForm, blocking, manual,
                   missed, banned>>

(* BlockHosts reads the entry of the host; the blocklist is joined to       *)
(* hosts, so a host without a row has none.                                 *)
BlockRead(b, h, reason) ==
    /\ blocking[b] = NoBlock
    /\ blocking' = [blocking EXCEPT ![b] =
           [host |-> h, reasons |-> {reason} \cup
                                    IF Blocked(h) /\ h \in known THEN blocklist[h] ELSE {}]]

BlockBadHost(h) ==
    /\ maintPc = "block" /\ h \in toBlock
    /\ BlockRead("maintenance", h, "check")
    /\ toBlock' = toBlock \ {h}
    /\ UNCHANGED <<hostRows, blocklist, contract, scanVars, maintPc, forming, failedForm, manual,
                   missed, banned>>

BlockManually(h) ==
    /\ manual < MaxManual /\ manual' = manual + 1
    /\ BlockRead("operator", h, "manual")
    /\ UNCHANGED <<hostRows, blocklist, contract, scanVars, maintVars, missed, banned>>

(* The entry is written, the contracts turn bad and the sectors not yet     *)
(* pinned on the host leave it.                                             *)
BlockWrite(b) ==
    /\ blocking[b] # NoBlock
    /\ LET h == blocking[b].host IN
       /\ blocklist' = [blocklist EXCEPT ![h] = blocking[b].reasons]
       /\ contract' = [contract EXCEPT ![h] = IF h \in known /\ @ = "good" THEN "bad" ELSE @]
       /\ banned' = IF b = "operator" THEN banned \cup {h} ELSE banned
    /\ blocking' = [blocking EXCEPT ![b] = NoBlock]
    /\ UNCHANGED <<hostRows, scanVars, maintVars, manual, missed>>

(* The operator only unblocks after the request to block has returned.      *)
UnblockHost(h) ==
    /\ manual < MaxManual /\ manual' = manual + 1
    /\ Blocked(h) /\ blocking["operator"] = NoBlock
    /\ blocklist' = [blocklist EXCEPT ![h] = NoEntry]
    /\ contract' = [contract EXCEPT ![h] = IF h \in known THEN Regood(@) ELSE @]
    /\ banned' = banned \ {h}
    /\ UNCHANGED <<hostRows, scanVars, maintVars, blocking, missed>>

-----------------------------------------------------------------------------
(***************************************************************************)
(* Contracts                                                               *)
(***************************************************************************)

(* performContractFormation goes through the hosts that are good.           *)
ListGoodHosts ==
    /\ maintPc = "block" /\ toBlock = {} /\ blocking["maintenance"] = NoBlock
    /\ forming' = {h \in HostKeys : IsGood(h) /\ ~HasContract(h)}
    /\ maintPc' = "form" /\ failedForm' = {}
    /\ UNCHANGED <<hostRows, blocklist, contract, scanVars, toBlock, blocking, manual, missed, banned>>

(* The contract is formed with the host as it was read, or the operation    *)
(* fails.                                                                   *)
AddFormedContract(h) ==
    /\ maintPc = "form" /\ h \in forming /\ h \in known
    /\ contract' = [contract EXCEPT ![h] = "good"]
    /\ forming' = forming \ {h}
    /\ UNCHANGED <<hostRows, blocklist, scanVars, maintPc, toBlock, failedForm, blocking, manual,
                   missed, banned>>

FormationFails(h) ==
    /\ maintPc = "form" /\ h \in forming
    /\ forming' = forming \ {h} /\ failedForm' = failedForm \cup {h}
    /\ UNCHANGED <<hostRows, blocklist, contract, scanVars, maintPc, toBlock, blocking, manual,
                   missed, banned>>

SetStuckHosts ==
    /\ maintPc = "form" /\ forming = {}
    /\ stuck' = failedForm \cap known
    /\ maintPc' = "idle" /\ failedForm' = {}
    /\ UNCHANGED <<known, nextScan, failedScans, checks, downtime, blocklist, contract, scanVars,
                   toBlock, forming, blocking, manual, missed, banned>>

ContractEnds(h) ==
    /\ HasContract(h)
    /\ contract' = [contract EXCEPT ![h] = "past"]
    /\ UNCHANGED <<hostRows, blocklist, scanVars, maintVars, blocking, manual, missed, banned>>

-----------------------------------------------------------------------------

ScanStep == \E h \in HostKeys :
    \/ StartScan(h) \/ AbortScan(h) \/ AbortWorkerScan(h) \/ ScanHost(h)
    \/ \E success \in BOOLEAN :
          h \notin Hanging /\ (FinishScan(h, success) \/ FinishWorkerScan(h, success))

HostsNext ==
    \/ \E h \in HostKeys :
          \/ AddHostAnnouncement(h) \/ ImportHost(h) \/ LongDowntime(h)
          \/ BlockBadHost(h) \/ BlockManually(h) \/ UnblockHost(h)
          \/ AddFormedContract(h) \/ FormationFails(h) \/ ContractEnds(h)
    \/ PruneHosts \/ Tick \/ HostsForScanning \/ ScanStep
    \/ ListUsableBlocked \/ RemoveBlocklistReasons
    \/ ListBadHosts \/ ListGoodHosts \/ SetStuckHosts
    \/ \E b \in Blockers : BlockWrite(b)

(* The loop keeps running and time passes.  Every scan ends, at the latest  *)
(* with its timeout; one of a host that answers ends with a result again    *)
(* and again, as the node is not always offline just then.                  *)
HostsFairness ==
    /\ WF_hostsVars(HostsForScanning) /\ WF_hostsVars(Tick)
    /\ WF_hostsVars(ListUsableBlocked) /\ WF_hostsVars(RemoveBlocklistReasons)
    /\ \A h \in HostKeys :
          /\ WF_hostsVars(StartScan(h)) /\ WF_hostsVars(AbortScan(h))
          /\ SF_hostsVars(h \notin Hanging /\ \E success \in BOOLEAN : FinishScan(h, success))

HostsSpec == HostsInit /\ [][HostsNext]_hostsVars /\ HostsFairness

-----------------------------------------------------------------------------
(***************************************************************************)
(* Properties                                                              *)
(***************************************************************************)

(* A host is only forgotten after PruneFailures failed scans in a row,      *)
(* counted from its last success or import, and without a contract: a scan  *)
(* that started before the count was reset adds one failure, not those it   *)
(* had read (UpdateHostScan, PruneHosts).                                   *)
PrunedAfterFailures ==
    [][\A h \in HostKeys : h \in known /\ h \notin known' =>
          missed[h] >= PruneFailures /\ contract[h] = "none"]_hostsVars

(* A host that is due is scanned or forgotten, whatever other scans do: one *)
(* of a host that never answers takes a place of the loop, and gives it     *)
(* back when its deadline passes (scanHosts, ScanHost).                     *)
EveryHostScanned ==
    \A h \in HostKeys \ Hanging :
        (h \in known /\ nextScan[h] = 0) ~> (h \notin known \/ nextScan[h] > 0)

(* Every host that is due is scanned, the ones that accept a connection and *)
(* never answer included: ScanHost bounds a scan by scanTimeout, and what   *)
(* fetchSettings does with an answer that never comes decides whether the   *)
(* host is counted as failing.                                              *)
HangingHostsFail ==
    \A h \in HostKeys :
        (h \in known /\ nextScan[h] = 0) ~> (h \notin known \/ nextScan[h] > 0)

(* A host the operator has blocked stays blocked until the operator         *)
(* unblocks it: BlockHosts adds reasons to an entry, and                    *)
(* unblockUsableHosts leaves reasons other than failed checks alone.        *)
ManualBlocksStay == \A h \in banned : Blocked(h)
=============================================================================
