------------------------------ MODULE SlabRepair ------------------------------
(***************************************************************************)
(* The repair of a slab.  Migrators, the goroutines of the local migration *)
(* loop (slabs/manager.go) and those of remote nodes (slabs/remote.go),    *)
(* claim the slab when one of its sectors is lost or pinned to a bad       *)
(* contract, decide from a snapshot of the slab and the hosts which        *)
(* sectors to move, download enough shards, upload the reconstructed ones  *)
(* to new hosts and report what they did (slabs/migrations.go).  Nothing   *)
(* but the time of the next attempt keeps two migrators from working on    *)
(* the same slab: a claim that runs out lets the next one in, and a result *)
(* is applied whatever happened to the slab in the meantime.               *)
(***************************************************************************)
EXTENDS Integers, FiniteSets

CONSTANTS
    Hosts, NoHost,
    N,            \* the slab has the sectors 1..N
    MinShards,    \* shards that suffice to recover the slab
    Placement,    \* hosts the client uploaded the sectors to
    Near,         \* pairs of hosts less than minHostDistanceKm apart
    Local, Remote,\* migrators of this node and of other nodes
    MinBackoff,   \* minRepairBackoff, in ticks; also the length of a claim
    MaxBackoff,   \* maxRepairBackoff
    WordBits,     \* width of time.Duration
    MaxFailures,  \* consecutive_failed_repairs is kept up to here
    MaxFaults     \* bound on what hosts, the network and clients do

Sectors   == 1..N
Migrators == Local \cup Remote

ASSUME RepairAssumption ==
    /\ IsFiniteSet(Hosts) /\ NoHost \notin Hosts
    /\ N \in Nat /\ MinShards \in 1..N
    /\ Placement \in [Sectors -> Hosts]
    /\ \A s, t \in Sectors : s # t => Placement[s] # Placement[t]
    /\ Near \subseteq SUBSET Hosts
    /\ Local \cap Remote = {}
    /\ MinBackoff \in Nat \ {0} /\ MaxBackoff \in Nat
    /\ WordBits \in Nat \ {0} /\ MaxFailures \in Nat /\ MaxFaults \in Nat

VARIABLES
    slabExists,  \* the slab's row and those of its sectors
    hostOf,      \* sectors.host_id
    contract,    \* what the sector is pinned to: a good or a bad contract
    hostState,   \* "good", "full" (no data may be added) or "bad"
    stored,      \* pairs <<h, s>>: the host keeps the sector
    failures,    \* slabs.consecutive_failed_repairs
    wait,        \* ticks left until slabs.next_repair_attempt
    job,         \* what each migrator is doing
    overlapped,  \* history: something else placed sectors of the slab during
                 \* a migrator's attempt
    gone,        \* history: sectors a host lost or that were given up
    faults

slabVars   == <<slabExists, hostOf, contract>>
repairVars == <<slabVars, hostState, stored, failures, wait, job, overlapped,
                gone, faults>>

Snapshot == [host : [Sectors -> Hosts \cup {NoHost}], bad : SUBSET Sectors,
             state : [Hosts -> {"good", "full", "bad"}]]
NoSlab   == [host  |-> [s \in Sectors |-> NoHost], bad |-> {},
             state |-> [h \in Hosts |-> "bad"]]
Idle     == [pc |-> "idle", slab |-> NoSlab, lost |-> {}, moved |-> {},
             recovered |-> FALSE, success |-> FALSE]

(* Rows, snapshots and results only name hosts and sectors that exist.      *)
TypeOK ==
    /\ slabExists \in BOOLEAN
    /\ hostOf \in [Sectors -> Hosts \cup {NoHost}]
    /\ contract \in [Sectors -> {"none", "good", "bad"}]
    /\ hostState \in [Hosts -> {"good", "full", "bad"}]
    /\ stored \subseteq Hosts \X Sectors
    /\ failures \in 0..MaxFailures
    /\ wait \in Nat
    /\ job \in [Migrators -> [pc : {"idle", "claimed", "read", "apply"},
                              slab : Snapshot,
                              lost : SUBSET Sectors,
                              moved : SUBSET (Sectors \X Hosts),
                              recovered : BOOLEAN, success : BOOLEAN]]
    /\ overlapped \in BOOLEAN
    /\ gone \subseteq Sectors
    /\ faults \in 0..MaxFaults

RepairInit ==
    /\ slabExists = TRUE
    /\ hostOf = Placement
    /\ contract = [s \in Sectors |-> "good"]
    /\ hostState = [h \in Hosts |-> "good"]
    /\ stored = {<<hostOf[s], s>> : s \in Sectors}
    /\ failures \in {0, 1} \cap 0..MaxFailures /\ wait = 0
    /\ job = [m \in Migrators |-> Idle]
    /\ overlapped = FALSE
    /\ gone = {} /\ faults = 0

Fault == /\ faults < MaxFaults
         /\ faults' = faults + 1

-----------------------------------------------------------------------------
(***************************************************************************)
(* Claiming the slab                                                       *)
(***************************************************************************)

(* What UnhealthySlabs looks for: sectors without a host and sectors pinned *)
(* to a contract that is no longer good.                                    *)
Unhealthy(s) == hostOf[s] = NoHost \/ contract[s] = "bad"

(* Slab() together with fetchMigrationState().                              *)
TakeSnapshot ==
    [host  |-> hostOf, bad |-> {s \in Sectors : contract[s] = "bad"}, state |-> hostState]

(* Someone else is at work on the slab.                                     *)
Busy(m) == \E k \in Migrators \ {m} : job[k].pc # "idle"

(* UnhealthySlabs pushes next_repair_attempt a claim into the future; the   *)
(* local loop queues the slab's id with the state of the hosts and reads    *)
(* the slab when a goroutine gets to it.                                    *)
ClaimLocal(m) ==
    /\ m \in Local /\ job[m].pc = "idle"
    /\ slabExists /\ wait = 0
    /\ \E s \in Sectors : Unhealthy(s)
    /\ wait' = MinBackoff
    /\ job' = [job EXCEPT ![m] = [Idle EXCEPT !.pc = "claimed", !.slab = TakeSnapshot]]
    /\ overlapped' = (overlapped \/ Busy(m))
    /\ UNCHANGED <<slabVars, hostState, stored, failures, gone, faults>>

(* PrepareMigrationBatch ships the slab and the state to a remote node.     *)
PrepareMigrationBatch(m) ==
    /\ m \in Remote /\ job[m].pc = "idle"
    /\ slabExists /\ wait = 0
    /\ \E s \in Sectors : Unhealthy(s)
    /\ wait' = MinBackoff
    /\ job' = [job EXCEPT ![m] = [Idle EXCEPT !.pc = "read", !.slab = TakeSnapshot]]
    /\ overlapped' = (overlapped \/ Busy(m))
    /\ UNCHANGED <<slabVars, hostState, stored, failures, gone, faults>>

(* Sectors whose contract is not among the healthy contracts of the state   *)
(* the migrator was given: those pinned to a contract that was bad then,    *)
(* and those of R, pinned to a contract formed or renewed since.            *)
BadSince(m, R) ==
    R \cup {s \in job[m].slab.bad : contract[s] # "none" /\ hostOf[s] = job[m].slab.host[s]}

SlabSince(m, R) == [job[m].slab EXCEPT !.host = hostOf, !.bad = BadSince(m, R)]

(* migrateSlab reads the slab; hosts and healthy contracts are those of the *)
(* claim.  A slab that is gone is left alone.                               *)
ReadSlab(m) ==
    /\ job[m].pc = "claimed"
    /\ \/ /\ slabExists
          /\ \E R \in SUBSET {s \in Sectors : contract[s] = "good"} :
                /\ job' = [job EXCEPT ![m] = [@ EXCEPT !.pc = "read", !.slab = SlabSince(m, R)]]
                /\ IF R = {} THEN UNCHANGED faults ELSE Fault
       \/ /\ ~slabExists
          /\ job' = [job EXCEPT ![m] = Idle] /\ UNCHANGED faults
    /\ UNCHANGED <<slabVars, hostState, stored, failures, wait, overlapped, gone>>

-----------------------------------------------------------------------------
(***************************************************************************)
(* Deciding what to move and where: sectorsToMigrate on a snapshot j       *)
(***************************************************************************)

IsGood(j, h) == h \in Hosts /\ j.state[h] # "bad"

(* A sector is moved if it is lost, on a bad host, on a host that keeps an  *)
(* earlier sector of the slab, or pinned to a bad contract.  (Mutant: the   *)
(* contract is not looked at.)                                              *)
OnBadHost(j) ==
    {s \in Sectors : ~IsGood(j, j.host[s]) \/ \E t \in 1..(s - 1) : j.host[t] = j.host[s]}
ToMigrate(j) ==
    {s \in Sectors : \/ ~IsGood(j, j.host[s])
                     \/ \E t \in 1..(s - 1) : j.host[t] = j.host[s]
                     \/ s \in j.bad}

TooNear(h, S) == \E g \in S : {g, h} \in Near

(* Hosts of the sectors that stay, as far as the spaced set takes them.     *)
Kept(j) ==
    LET Keeps[s \in Sectors] ==
            /\ s \notin ToMigrate(j)
            /\ \A t \in 1..(s - 1) : Keeps[t] => {j.host[t], j.host[s]} \notin Near
    IN  {j.host[s] : s \in {t \in Sectors : Keeps[t]}}

(* Hosts that may take a sector: none that keeps one in the snapshot.       *)
(* (Mutant: hosts whose sector is moved may take another one.)              *)
EligibleIfVacant(j) == {h \in Hosts : j.state[h] = "good"
                                      /\ \A s \in Sectors \ ToMigrate(j) : j.host[s] # h}
Eligible(j)         == {h \in Hosts : j.state[h] = "good" /\ \A s \in Sectors : j.host[s] # h}

(* The order in which the remaining hosts are tried is random, so any       *)
(* maximal set of hosts that are far enough apart may be the candidates.    *)
CandidateSets(j) ==
    {C \in SUBSET Eligible(j) :
        /\ \A h \in C : ~TooNear(h, Kept(j) \cup (C \ {h}))
        /\ \A h \in Eligible(j) \ C : TooNear(h, Kept(j) \cup C)}

-----------------------------------------------------------------------------
(***************************************************************************)
(* Recovering and uploading                                                *)
(***************************************************************************)

(* Hosts the migrator's client uses: the local one asks the database, a     *)
(* remote one knows the hosts of its batch (cachedHostStore).               *)
UsableNow(m, h) ==
    IF m \in Remote THEN IsGood(job[m].slab, h) ELSE h \in Hosts /\ hostState[h] # "bad"

(* Sectors the recovery asks for, one per host.                             *)
Asked(m) ==
    LET host == job[m].slab.host
    IN  {s \in Sectors : /\ UsableNow(m, host[s])
                         /\ \A t \in 1..(s - 1) : host[t] # host[s]}
Readable(m) == {s \in Asked(m) : <<job[m].slab.host[s], s>> \in stored}
(* Sectors hosts may report as lost: a host that answers otherwise, or not  *)
(* at all, has only failed.  (Mutant: every failed read is a loss.)         *)
AnyFailure(m)   == SUBSET Asked(m)
ReportedLost(m) == SUBSET (Asked(m) \ Readable(m))

(* MigrateSlab attempts nothing if no sector has to move or no host can     *)
(* take it.                                                                 *)
SkipSlab(m) ==
    /\ job[m].pc = "read"
    /\ ToMigrate(job[m].slab) = {} \/ {} \in CandidateSets(job[m].slab)
    /\ job' = [job EXCEPT ![m] = Idle]
    /\ UNCHANGED <<slabVars, hostState, stored, failures, wait, overlapped, gone, faults>>

(* recoverShards fails: too few shards are there, or hosts do not answer in *)
(* time.  The sectors reported lost are still part of the result.           *)
RecoveryFails(m) ==
    /\ job[m].pc = "read"
    /\ ToMigrate(job[m].slab) # {} /\ CandidateSets(job[m].slab) # {{}}
    /\ IF Cardinality(Readable(m)) < MinShards THEN UNCHANGED faults ELSE Fault
    /\ \E L \in ReportedLost(m) :
          job' = [job EXCEPT ![m] = [@ EXCEPT !.pc = "apply", !.lost = L]]
    /\ UNCHANGED <<slabVars, hostState, stored, failures, wait, overlapped, gone>>

(* uploadShards: every shard tries candidates until one takes it, a host    *)
(* that failed is not tried again and no host takes two shards.  Fewer      *)
(* uploads than candidates allow are the hosts' fault.                      *)
Uploads(S, C) ==
    {M \in SUBSET (S \X C) : \A p, q \in M : p # q => p[1] # q[1] /\ p[2] # q[2]}

(* The shards M are uploaded, the sectors L were reported lost.             *)
ShardsUploaded(m, L, M) ==
    /\ stored' = stored \cup {<<p[2], p[1]>> : p \in M}
    /\ job' = [job EXCEPT ![m] =
          [@ EXCEPT !.pc = "apply", !.lost = L, !.moved = M, !.recovered = TRUE,
                    !.success = (Cardinality(M) = Cardinality(ToMigrate(job[m].slab)))]]

MigrateSlab(m) ==
    LET need == ToMigrate(job[m].slab) IN
    /\ job[m].pc = "read"
    /\ need # {}
    /\ Cardinality(Readable(m)) >= MinShards
    /\ \E L \in ReportedLost(m), C \in CandidateSets(job[m].slab) \ {{}} :
       \E M \in Uploads(need, C) :
          /\ ShardsUploaded(m, L, M)
          /\ IF Cardinality(M) = Cardinality(need) \/ Cardinality(M) = Cardinality(C)
             THEN UNCHANGED faults ELSE Fault
    /\ UNCHANGED <<slabVars, hostState, failures, wait, overlapped, gone>>

-----------------------------------------------------------------------------
(***************************************************************************)
(* applyMigrationResult, one transaction after the other                   *)
(***************************************************************************)

(* MarkSectorsLost only takes sectors that are still on that host.  The     *)
(* transaction may fail, which is logged.                                   *)
ApplyLost(m) ==
    \E s \in job[m].lost :
    /\ job[m].pc = "apply"
    /\ job' = [job EXCEPT ![m].lost = @ \ {s}]
    /\ \/ /\ slabExists /\ hostOf[s] = job[m].slab.host[s]
          /\ hostOf' = [hostOf EXCEPT ![s] = NoHost]
          /\ contract' = [contract EXCEPT ![s] = "none"]
          /\ UNCHANGED faults
       \/ /\ ~slabExists \/ hostOf[s] # job[m].slab.host[s]
          /\ UNCHANGED <<hostOf, contract, faults>>
       \/ Fault /\ UNCHANGED <<hostOf, contract>>
    /\ UNCHANGED <<slabExists, hostState, stored, failures, wait, overlapped, gone>>

(* A sector counts as repaired once MigrateSector recorded its new host;    *)
(* it is unpinned there.                                                    *)
StillSuccess(m, recorded) == job[m].success /\ recorded

(* MigrateSector is a no-op for a sector that is gone, and may fail.  (What *)
(* RecordSlabMigrated then does to the objects' events is in ObjectEvents.) *)
RecordMigrated(m) ==
    \E p \in job[m].moved :
    /\ job[m].pc = "apply" /\ job[m].lost = {}
    /\ \/ /\ slabExists
          /\ hostOf' = [hostOf EXCEPT ![p[1]] = p[2]]
          /\ contract' = [contract EXCEPT ![p[1]] = "none"]
          /\ job' = [job EXCEPT ![m].moved = @ \ {p}, ![m].success = StillSuccess(m, TRUE)]
          /\ UNCHANGED faults
       \/ /\ IF slabExists THEN Fault ELSE UNCHANGED faults
          /\ job' = [job EXCEPT ![m].moved = @ \ {p}, ![m].success = StillSuccess(m, FALSE)]
          /\ UNCHANGED <<hostOf, contract>>
    /\ UNCHANGED <<slabExists, hostState, stored, failures, wait, overlapped, gone>>

(* minRepairBackoff * Duration(1 << failures), in WordBits-bit arithmetic.  *)
Signed(x)   == ((x + 2^(WordBits - 1)) % 2^WordBits) - 2^(WordBits - 1)
Backoff(f)  == LET b == Signed(MinBackoff * Signed(2^f))
               IN  IF b < MaxBackoff THEN b ELSE MaxBackoff
MinRepair(a, b) == IF a < b THEN a ELSE b

(* MarkSlabRepaired.  A recovery that failed leaves the repair state as it  *)
(* is, so the slab is tried again when the claim ends.                      *)
MarkSlabRepaired(m) ==
    /\ job[m].pc = "apply" /\ job[m].lost = {} /\ job[m].moved = {}
    /\ job' = [job EXCEPT ![m] = Idle]
    /\ IF ~job[m].recovered \/ ~slabExists THEN UNCHANGED <<failures, wait>>
       ELSE IF job[m].success THEN failures' = 0 /\ UNCHANGED wait
       ELSE /\ failures' = MinRepair(failures + 1, MaxFailures)
            /\ wait' = IF Backoff(failures) > 0 THEN Backoff(failures) ELSE 0
    /\ UNCHANGED <<slabVars, hostState, stored, overlapped, gone, faults>>

(* The node stops, or the report of a remote node fails: what is left of    *)
(* the result is never applied, the shards stay on their new hosts.         *)
DropJob(m) ==
    /\ job[m].pc # "idle"
    /\ job' = [job EXCEPT ![m] = Idle]
    /\ Fault
    /\ UNCHANGED <<slabVars, hostState, stored, failures, wait, overlapped, gone>>

-----------------------------------------------------------------------------
(***************************************************************************)
(* What happens to the slab meanwhile                                      *)
(***************************************************************************)

Tick ==
    /\ wait > 0
    /\ wait' = wait - 1
    /\ UNCHANGED <<slabVars, hostState, stored, failures, job, overlapped, gone, faults>>

(* A host loses a sector; nobody knows yet.                                 *)
HostLoses ==
    \E p \in stored :
    /\ Fault
    /\ stored' = stored \ {p}
    /\ gone' = gone \cup {p[2]}
    /\ UNCHANGED <<slabVars, hostState, failures, wait, job, overlapped>>

(* PinSectors, or integrity checks and pinning that find the sector gone.   *)
PinSector(s) ==
    /\ slabExists /\ hostOf[s] # NoHost /\ contract[s] = "none"
    /\ <<hostOf[s], s>> \in stored
    /\ contract' = [contract EXCEPT ![s] = "good"]
    /\ UNCHANGED <<slabExists, hostOf, hostState, stored, failures, wait, job,
                   overlapped, gone, faults>>

FindLost(s) ==
    /\ slabExists /\ hostOf[s] # NoHost
    /\ <<hostOf[s], s>> \notin stored
    /\ hostOf' = [hostOf EXCEPT ![s] = NoHost]
    /\ contract' = [contract EXCEPT ![s] = "none"]
    /\ UNCHANGED <<slabExists, hostState, stored, failures, wait, job, overlapped, gone, faults>>

(* MarkSectorsUnpinnable: nobody pinned the sector for days.                *)
GiveUp(s) ==
    /\ slabExists /\ hostOf[s] # NoHost /\ contract[s] = "none"
    /\ Fault
    /\ hostOf' = [hostOf EXCEPT ![s] = NoHost]
    /\ gone' = gone \cup {s}
    /\ UNCHANGED <<slabExists, contract, hostState, stored, failures, wait, job, overlapped>>

(* A contract goes bad, or is lost with its host (BlockHosts).              *)
ContractBad(s) ==
    /\ slabExists /\ contract[s] = "good"
    /\ Fault
    /\ contract' = [contract EXCEPT ![s] = "bad"]
    /\ UNCHANGED <<slabExists, hostOf, hostState, stored, failures, wait, job, overlapped, gone>>

(* UnblockHost: the host's contracts are good again.                        *)
ContractGood(s) ==
    /\ slabExists /\ contract[s] = "bad"
    /\ contract' = [contract EXCEPT ![s] = "good"]
    /\ UNCHANGED <<slabExists, hostOf, hostState, stored, failures, wait, job,
                   overlapped, gone, faults>>

(* A scan, the blocklist or a contract that cannot take more data changes   *)
(* what the host is used for.                                               *)
HostChanges(h) ==
    /\ \E st \in {"good", "full", "bad"} :
          /\ st # hostState[h]
          /\ hostState' = [hostState EXCEPT ![h] = st]
          /\ IF st = "good" THEN UNCHANGED faults ELSE Fault
    /\ UNCHANGED <<slabVars, stored, failures, wait, job, overlapped, gone>>

(* A client uploads the slab again and pins it: sectors without a host are  *)
(* bound to the client's hosts.                                             *)
PinSlabAgain ==
    /\ slabExists /\ \E s \in Sectors : hostOf[s] = NoHost
    /\ Fault
    /\ \E f \in [Sectors -> Hosts] :
          /\ \A s, t \in Sectors : s # t => f[s] # f[t]
          /\ stored' = stored \cup {<<f[s], s>> : s \in Sectors}
          /\ hostOf' = [s \in Sectors |-> IF hostOf[s] = NoHost THEN f[s] ELSE hostOf[s]]
    /\ overlapped' = TRUE
    /\ UNCHANGED <<slabExists, contract, hostState, failures, wait, job, gone>>

(* The last account unpins the slab and it is deleted.                      *)
DeleteSlab ==
    /\ slabExists
    /\ Fault
    /\ slabExists' = FALSE
    /\ UNCHANGED <<hostOf, contract, hostState, stored, failures, wait, job, overlapped, gone>>

Work(m) ==
    \/ ReadSlab(m) \/ SkipSlab(m) \/ RecoveryFails(m) \/ MigrateSlab(m)
    \/ ApplyLost(m) \/ RecordMigrated(m) \/ MarkSlabRepaired(m)

Claim(m) == ClaimLocal(m) \/ PrepareMigrationBatch(m)

SectorStep(s) == PinSector(s) \/ FindLost(s) \/ GiveUp(s) \/ ContractBad(s) \/ ContractGood(s)

RepairNext ==
    \/ \E m \in Migrators : Claim(m) \/ Work(m) \/ DropJob(m)
    \/ \E s \in Sectors : SectorStep(s)
    \/ \E h \in Hosts : HostChanges(h)
    \/ Tick \/ HostLoses \/ PinSlabAgain \/ DeleteSlab

(* Time passes, the loops run every health check interval, and a migrator   *)
(* that has a job finishes it: every RPC has a timeout.  Work and Claim are *)
(* weakly fair, written with the conditions under which they are enabled.   *)
CanClaim(m) == /\ job[m].pc = "idle" /\ slabExists /\ wait = 0
               /\ \E s \in Sectors : Unhealthy(s)
RepairFairness ==
    /\ WF_repairVars(Tick)
    /\ \A m \in Migrators :
          /\ []<>(job[m].pc = "idle") \/ []<><<Work(m)>>_repairVars
          /\ []<>~CanClaim(m) \/ []<><<Claim(m)>>_repairVars

RepairSpec == RepairInit /\ [][RepairNext]_repairVars /\ RepairFairness

-----------------------------------------------------------------------------
(***************************************************************************)
(* Properties                                                              *)
(***************************************************************************)

(* Two sectors of the slab are recorded on one host only if attempts to     *)
(* repair it overlapped or a client pinned it again: sectorsToMigrate and   *)
(* uploadShards spread what one attempt moves, a claim keeps attempts apart.*)
OneSectorPerHost ==
    ~overlapped =>
        \A s, t \in Sectors : s # t /\ hostOf[s] # NoHost => hostOf[s] # hostOf[t]

(* Repairing never costs a shard: a sector that is not where its row says,  *)
(* or has no row, was lost by a host or given up unpinned before, however   *)
(* stale the result was that recorded it.                                   *)
ShardsOnlyLostByHosts ==
    \A s \in Sectors : <<hostOf[s], s>> \notin stored => s \in gone

(* A slab that stays repairable (enough shards can be read and every sector *)
(* that has to move has a host to go to) is healthy again and again.        *)
Repairable ==
    /\ slabExists
    /\ Cardinality({s \in Sectors : /\ IsGood(TakeSnapshot, hostOf[s])
                                    /\ <<hostOf[s], s>> \in stored}) >= MinShards
    /\ \A C \in CandidateSets(TakeSnapshot) :
          Cardinality(C) >= Cardinality(ToMigrate(TakeSnapshot))
Healthy == \A s \in Sectors : ~Unhealthy(s)

EventuallyRepaired == <>[]Repairable => []<>Healthy

(* A failed attempt is not repeated before the minimum back-off has passed  *)
(* (UnhealthySlabs: "a minimum of 1 hour must pass between consecutive      *)
(* migration attempts").                                                    *)
BackoffIsKept == [][failures' > failures => wait' >= MinBackoff]_repairVars
===============================================================================
