--------------------------- MODULE SlabRepairProofs ---------------------------
(***************************************************************************)
(* Repairing never costs a shard, for any number of sectors, hosts and     *)
(* migrators, and whatever their claims and results overlap with.          *)
(*                                                                         *)
(* The invariant follows a sector through a migrator's hands: where the    *)
(* database, a snapshot or a result says it is, it is stored, unless a     *)
(* host lost it or it was given up.  gone only grows and stored only       *)
(* shrinks together with it, so an old snapshot is as good as a new one.   *)
(*                                                                         *)
(* And as long as no two attempts at a slab overlap, a repair never puts   *)
(* two of its sectors on one host.                                         *)
(***************************************************************************)
EXTENDS SlabRepair, TLAPS

(* The data the repair moves around; times and counts are left out.         *)
DataOK ==
    /\ hostOf \in [Sectors -> Hosts \cup {NoHost}]
    /\ hostState \in [Hosts -> {"good", "full", "bad"}]
    /\ stored \subseteq Hosts \X Sectors
    /\ gone \subseteq Sectors
    /\ job \in [Migrators -> [pc : {"idle", "claimed", "read", "apply"},
                              slab : Snapshot,
                              lost : SUBSET Sectors,
                              moved : SUBSET (Sectors \X Hosts),
                              recovered : BOOLEAN, success : BOOLEAN]]

(* Sector s is on host h, or it is excused.                                 *)
There(h, s) == <<h, s>> \in stored \/ s \in gone

RowsThere   == \A s \in Sectors : There(hostOf[s], s)
SlabsThere  == \A m \in Migrators : job[m].pc # "idle" =>
                   \A s \in Sectors : There(job[m].slab.host[s], s)
MovedThere  == \A m \in Migrators : \A p \in job[m].moved : There(p[2], p[1])
LostAreGone == \A m \in Migrators : job[m].lost \subseteq gone

IInv == DataOK /\ RowsThere /\ SlabsThere /\ MovedThere /\ LostAreGone

-----------------------------------------------------------------------------
(* What every snapshot and the idle job look like.                          *)
LEMMA IdleJob ==
    ASSUME RepairAssumption
    PROVE  /\ NoSlab \in Snapshot
           /\ Idle \in [pc : {"idle", "claimed", "read", "apply"}, slab : Snapshot,
                        lost : SUBSET Sectors, moved : SUBSET (Sectors \X Hosts),
                        recovered : BOOLEAN, success : BOOLEAN]
           /\ Idle.pc = "idle" /\ Idle.lost = {} /\ Idle.moved = {}
<1>1. NoSlab \in Snapshot
  BY DEF NoSlab, Snapshot
<1> QED BY <1>1 DEF Idle

(* Slab reads the rows as they are.                                        *)
LEMMA SnapshotOK ==
    ASSUME DataOK
    PROVE  TakeSnapshot \in Snapshot /\ TakeSnapshot.host = hostOf
BY DEF DataOK, TakeSnapshot, Snapshot

(* Initially every sector is where its row says.                           *)
LEMMA InitIInv == RepairInit => IInv
<1> SUFFICES ASSUME RepairInit PROVE IInv
  OBVIOUS
<1> USE RepairAssumption
<1>1. hostOf \in [Sectors -> Hosts \cup {NoHost}] /\ gone = {}
  BY DEF RepairInit, RepairAssumption
<1>2. \A s \in Sectors : hostOf[s] \in Hosts
  BY DEF RepairInit, RepairAssumption
<1>3. stored \subseteq Hosts \X Sectors /\ RowsThere
  BY <1>2 DEF RepairInit, RowsThere, There
<1>4. job = [m \in Migrators |-> Idle]
  BY DEF RepairInit
<1>5. DataOK
  BY <1>1, <1>3, <1>4, IdleJob DEF DataOK, RepairInit
<1>6. SlabsThere /\ MovedThere /\ LostAreGone
  BY <1>4, IdleJob DEF SlabsThere, MovedThere, LostAreGone
<1> QED BY <1>3, <1>5, <1>6 DEF IInv

-----------------------------------------------------------------------------
(* A step of one migrator that leaves stored as it is or lets it grow, and  *)
(* leaves it with a job that is in order, keeps all jobs in order.          *)
LEMMA JobStep ==
    ASSUME IInv, NEW m \in Migrators,
           job' = [job EXCEPT ![m] = job'[m]],
           job'[m] \in [pc : {"idle", "claimed", "read", "apply"}, slab : Snapshot,
                        lost : SUBSET Sectors, moved : SUBSET (Sectors \X Hosts),
                        recovered : BOOLEAN, success : BOOLEAN],
           stored \subseteq stored', stored' \subseteq Hosts \X Sectors,
           gone' = gone, hostState' = hostState,
           hostOf' \in [Sectors -> Hosts \cup {NoHost}],
           RowsThere',
           job'[m].pc # "idle" => \A s \in Sectors :
               <<job'[m].slab.host[s], s>> \in stored' \/ s \in gone,
           \A p \in job'[m].moved : <<p[2], p[1]>> \in stored' \/ p[1] \in gone,
           job'[m].lost \subseteq gone
    PROVE  IInv'
<1> USE DEF IInv
<1>1. \A k \in Migrators : k # m => job'[k] = job[k]
  BY DEF DataOK
<1>2. DataOK'
  BY DEF DataOK
<1>4. SlabsThere'
  BY <1>1 DEF SlabsThere, There
<1>5. MovedThere'
  BY <1>1 DEF MovedThere, There
<1>6. LostAreGone'
  BY <1>1 DEF LostAreGone
<1> QED BY <1>2, <1>4, <1>5, <1>6

(* A step of the world that touches no job: rows may change as long as the  *)
(* sectors are where they say, and what a host loses counts as gone.        *)
LEMMA WorldStep ==
    ASSUME IInv, job' = job, gone \subseteq gone', gone' \subseteq Sectors,
           stored' \subseteq Hosts \X Sectors,
           \A h, s : <<h, s>> \in stored => <<h, s>> \in stored' \/ s \in gone',
           hostState' \in [Hosts -> {"good", "full", "bad"}],
           hostOf' \in [Sectors -> Hosts \cup {NoHost}],
           RowsThere'
    PROVE  IInv'
<1> USE DEF IInv
<1>2. DataOK'
  BY DEF DataOK
<1>3. SlabsThere' /\ MovedThere'
  BY DEF SlabsThere, MovedThere, There
<1>4. LostAreGone'
  BY DEF LostAreGone
<1> QED BY <1>2, <1>3, <1>4

-----------------------------------------------------------------------------
(* Claims: the snapshot is of the rows as they are.                         *)
LEMMA ClaimIInv ==
    ASSUME IInv, NEW m \in Migrators, Claim(m)
    PROVE  IInv'
<1>1. PICK q \in {"claimed", "read"} :
          job' = [job EXCEPT ![m] = [Idle EXCEPT !.pc = q, !.slab = TakeSnapshot]]
  BY DEF Claim, ClaimLocal, PrepareMigrationBatch
<1>2. UNCHANGED <<hostOf, hostState, stored, gone>>
  BY DEF Claim, ClaimLocal, PrepareMigrationBatch, slabVars
<1>3. job'[m] = [Idle EXCEPT !.pc = q, !.slab = TakeSnapshot]
  BY <1>1 DEF IInv, DataOK
<1>4. /\ job'[m] \in [pc : {"idle", "claimed", "read", "apply"}, slab : Snapshot,
                      lost : SUBSET Sectors, moved : SUBSET (Sectors \X Hosts),
                      recovered : BOOLEAN, success : BOOLEAN]
      /\ job'[m].lost = {} /\ job'[m].moved = {} /\ job'[m].slab.host = hostOf
  BY <1>3, IdleJob, SnapshotOK, RepairAssumption DEF IInv
<1>5. RowsThere'
  BY <1>2 DEF IInv, RowsThere, There
<1> QED
  BY <1>1, <1>2, <1>3, <1>4, <1>5, JobStep DEF IInv, DataOK, RowsThere, There

(* A job that ends is in order.                                             *)
LEMMA EndJobIInv ==
    ASSUME IInv, NEW m \in Migrators, job' = [job EXCEPT ![m] = Idle],
           UNCHANGED <<hostOf, hostState, stored, gone>>
    PROVE  IInv'
<1>1. job'[m] = Idle
  BY DEF IInv, DataOK
<1>2. RowsThere'
  BY DEF IInv, RowsThere, There
<1> QED
  BY <1>1, <1>2, IdleJob, RepairAssumption, JobStep DEF IInv, DataOK

(* migrateSlab reads the slab, or finds it gone.                            *)
LEMMA ReadSlabIInv ==
    ASSUME IInv, NEW m \in Migrators, ReadSlab(m)
    PROVE  IInv'
<1>1. UNCHANGED <<hostOf, hostState, stored, gone>>
  BY DEF ReadSlab, slabVars
<1>2. CASE ~slabExists
  BY <1>1, <1>2, EndJobIInv DEF ReadSlab
<1>3. CASE slabExists
  <2>1. PICK R \in SUBSET {s \in Sectors : contract[s] = "good"} :
            job' = [job EXCEPT ![m] = [job[m] EXCEPT !.pc = "read", !.slab = SlabSince(m, R)]]
    BY <1>3 DEF ReadSlab
  <2>2. job[m] \in [pc : {"idle", "claimed", "read", "apply"}, slab : Snapshot,
                    lost : SUBSET Sectors, moved : SUBSET (Sectors \X Hosts),
                    recovered : BOOLEAN, success : BOOLEAN]
    BY DEF IInv, DataOK
  <2>3. PICK s0 : s0 = SlabSince(m, R)
    OBVIOUS
  <2>4. BadSince(m, R) \subseteq Sectors /\ hostOf \in [Sectors -> Hosts \cup {NoHost}]
    BY <2>2 DEF BadSince, Snapshot, IInv, DataOK
  <2>5. s0 \in Snapshot /\ s0.host = hostOf
    BY <2>2, <2>3, <2>4 DEF Snapshot, SlabSince
  <2>6. job' = [job EXCEPT ![m] = [job[m] EXCEPT !.pc = "read", !.slab = s0]]
    BY <2>1, <2>3
  <2>7. job'[m] = [job[m] EXCEPT !.pc = "read", !.slab = s0]
    BY <2>6 DEF IInv, DataOK
  <2>8. /\ job'[m] \in [pc : {"idle", "claimed", "read", "apply"}, slab : Snapshot,
                        lost : SUBSET Sectors, moved : SUBSET (Sectors \X Hosts),
                        recovered : BOOLEAN, success : BOOLEAN]
        /\ job'[m].lost = job[m].lost /\ job'[m].moved = job[m].moved
        /\ job'[m].slab.host = hostOf
    BY <2>2, <2>5, <2>7
  <2>9. RowsThere'
    BY <1>1 DEF IInv, RowsThere, There
  <2> QED
    BY <1>1, <2>6, <2>7, <2>8, <2>9, JobStep
       DEF IInv, DataOK, RowsThere, MovedThere, LostAreGone, There
<1> QED BY <1>2, <1>3

(* Both outcomes of MigrateSlab that have something to report: what is      *)
(* reported lost was not on the host of the snapshot, so it is gone, and    *)
(* what was moved is stored.                                                *)
LEMMA ReportedAreGone ==
    ASSUME IInv, NEW m \in Migrators, job[m].pc = "read", NEW L \in ReportedLost(m)
    PROVE  L \subseteq Sectors /\ L \subseteq gone
<1>1. L \subseteq Asked(m) \ Readable(m)
  BY DEF ReportedLost
<1>2. Asked(m) \subseteq Sectors
  BY DEF Asked
<1>3. \A s \in L : <<job[m].slab.host[s], s>> \notin stored
  BY <1>1 DEF Readable
<1> QED
  BY <1>1, <1>2, <1>3 DEF IInv, SlabsThere, There

(* A recovery that fails reports lost sectors only.                        *)
LEMMA RecoveryFailsIInv ==
    ASSUME IInv, NEW m \in Migrators, RecoveryFails(m)
    PROVE  IInv'
<1>1. job[m].pc = "read" /\ UNCHANGED <<hostOf, hostState, stored, gone>>
  BY DEF RecoveryFails, slabVars
<1>2. PICK L \in ReportedLost(m) :
          job' = [job EXCEPT ![m] = [job[m] EXCEPT !.pc = "apply", !.lost = L]]
  BY DEF RecoveryFails
<1>3. L \subseteq Sectors /\ L \subseteq gone
  BY <1>1, ReportedAreGone
<1>4. job[m] \in [pc : {"idle", "claimed", "read", "apply"}, slab : Snapshot,
                  lost : SUBSET Sectors, moved : SUBSET (Sectors \X Hosts),
                  recovered : BOOLEAN, success : BOOLEAN]
  BY DEF IInv, DataOK
<1>5. job'[m] = [job[m] EXCEPT !.pc = "apply", !.lost = L]
  BY <1>2 DEF IInv, DataOK
<1>6. /\ job'[m] \in [pc : {"idle", "claimed", "read", "apply"}, slab : Snapshot,
                      lost : SUBSET Sectors, moved : SUBSET (Sectors \X Hosts),
                      recovered : BOOLEAN, success : BOOLEAN]
      /\ job'[m].lost = L /\ job'[m].moved = job[m].moved /\ job'[m].slab = job[m].slab
  BY <1>3, <1>4, <1>5
<1>7. RowsThere'
  BY <1>1 DEF IInv, RowsThere, There
<1> QED
  BY <1>1, <1>2, <1>3, <1>5, <1>6, <1>7, JobStep
     DEF IInv, DataOK, SlabsThere, MovedThere, There

(* What was uploaded is stored before the result names its host.           *)
LEMMA MigrateSlabIInv ==
    ASSUME IInv, NEW m \in Migrators, MigrateSlab(m)
    PROVE  IInv'
<1> DEFINE need == ToMigrate(job[m].slab)
<1>1. job[m].pc = "read" /\ UNCHANGED <<hostOf, hostState, gone>>
  BY DEF MigrateSlab, slabVars
<1>2. PICK L \in ReportedLost(m), C \in CandidateSets(job[m].slab) :
          \E M \in Uploads(need, C) : ShardsUploaded(m, L, M)
  BY DEF MigrateSlab
<1>3. PICK M \in Uploads(need, C) : ShardsUploaded(m, L, M)
  BY <1>2
<1>4. L \subseteq Sectors /\ L \subseteq gone
  BY <1>1, ReportedAreGone
<1>5. M \subseteq Sectors \X Hosts
  <2>1. need \subseteq Sectors
    BY DEF ToMigrate
  <2>2. C \subseteq Hosts
    BY DEF CandidateSets, Eligible
  <2>3. M \subseteq need \X C
    BY DEF Uploads
  <2> QED BY <2>1, <2>2, <2>3
<1>6. stored' \subseteq Hosts \X Sectors /\ \A p \in M : <<p[2], p[1]>> \in stored'
  BY <1>3, <1>5 DEF IInv, DataOK, ShardsUploaded
<1>7. job[m] \in [pc : {"idle", "claimed", "read", "apply"}, slab : Snapshot,
                  lost : SUBSET Sectors, moved : SUBSET (Sectors \X Hosts),
                  recovered : BOOLEAN, success : BOOLEAN]
  BY DEF IInv, DataOK
<1> DEFINE ok == Cardinality(M) = Cardinality(need)
<1>8. ok \in BOOLEAN
  OBVIOUS
<1>9. job'[m] = [job[m] EXCEPT !.pc = "apply", !.lost = L, !.moved = M, !.recovered = TRUE,
                               !.success = ok]
  BY <1>3 DEF IInv, DataOK, ShardsUploaded
<1> HIDE DEF ok, need
<1>10. /\ job'[m] \in [pc : {"idle", "claimed", "read", "apply"}, slab : Snapshot,
                      lost : SUBSET Sectors, moved : SUBSET (Sectors \X Hosts),
                      recovered : BOOLEAN, success : BOOLEAN]
      /\ job'[m].lost = L /\ job'[m].moved = M /\ job'[m].slab = job[m].slab
  BY <1>4, <1>5, <1>7, <1>8, <1>9
<1>11. stored \subseteq stored'
  BY <1>3 DEF ShardsUploaded
<1>12. RowsThere'
  BY <1>1, <1>11 DEF IInv, RowsThere, There
<1>13. job' = [job EXCEPT ![m] = job'[m]]
  BY <1>3, <1>9 DEF ok, need, ShardsUploaded
<1> QED
  BY <1>1, <1>4, <1>6, <1>10, <1>11, <1>12, <1>13, JobStep DEF IInv, DataOK, SlabsThere, There

-----------------------------------------------------------------------------
(* A sector reported lost is gone already, whatever the row says now.       *)
LEMMA ApplyLostIInv ==
    ASSUME IInv, NEW m \in Migrators, ApplyLost(m)
    PROVE  IInv'
<1>1. PICK s \in job[m].lost :
          /\ job' = [job EXCEPT ![m].lost = @ \ {s}]
          /\ hostOf' \in {hostOf, [hostOf EXCEPT ![s] = NoHost]}
  BY DEF ApplyLost
<1>2. UNCHANGED <<hostState, stored, gone>>
  BY DEF ApplyLost
<1>3. s \in Sectors /\ s \in gone
  BY DEF IInv, LostAreGone, DataOK
<1>4. job[m] \in [pc : {"idle", "claimed", "read", "apply"}, slab : Snapshot,
                  lost : SUBSET Sectors, moved : SUBSET (Sectors \X Hosts),
                  recovered : BOOLEAN, success : BOOLEAN]
  BY DEF IInv, DataOK
<1>5. job'[m] = [job[m] EXCEPT !.lost = job[m].lost \ {s}]
  BY <1>1 DEF IInv, DataOK
<1>6. /\ job'[m] \in [pc : {"idle", "claimed", "read", "apply"}, slab : Snapshot,
                      lost : SUBSET Sectors, moved : SUBSET (Sectors \X Hosts),
                      recovered : BOOLEAN, success : BOOLEAN]
      /\ job'[m].lost \subseteq job[m].lost /\ job'[m].moved = job[m].moved
      /\ job'[m].slab = job[m].slab /\ job'[m].pc = job[m].pc
  BY <1>4, <1>5
<1>7. hostOf' \in [Sectors -> Hosts \cup {NoHost}] /\ RowsThere'
  BY <1>1, <1>2, <1>3 DEF IInv, DataOK, RowsThere, There
<1>8. job' = [job EXCEPT ![m] = job'[m]]
  BY <1>1, <1>5
<1> QED
  BY <1>2, <1>6, <1>7, <1>8, JobStep DEF IInv, DataOK, SlabsThere, MovedThere, LostAreGone, There

(* A moved sector is stored on its new host, unless it is gone.             *)
LEMMA RecordMigratedIInv ==
    ASSUME IInv, NEW m \in Migrators, RecordMigrated(m)
    PROVE  IInv'
<1>1. PICK p \in job[m].moved, ok \in BOOLEAN :
          /\ job' = [job EXCEPT ![m].moved = @ \ {p}, ![m].success = StillSuccess(m, ok)]
          /\ hostOf' \in {hostOf, [hostOf EXCEPT ![p[1]] = p[2]]}
  BY DEF RecordMigrated
<1>2. UNCHANGED <<hostState, stored, gone>>
  BY DEF RecordMigrated
<1>3. p[1] \in Sectors /\ p[2] \in Hosts /\ There(p[2], p[1])
  BY DEF IInv, MovedThere, DataOK
<1>4. job[m] \in [pc : {"idle", "claimed", "read", "apply"}, slab : Snapshot,
                  lost : SUBSET Sectors, moved : SUBSET (Sectors \X Hosts),
                  recovered : BOOLEAN, success : BOOLEAN]
  BY DEF IInv, DataOK
<1>5. StillSuccess(m, ok) \in BOOLEAN
  BY <1>4 DEF StillSuccess
<1>6. job'[m] = [job[m] EXCEPT !.moved = job[m].moved \ {p}, !.success = StillSuccess(m, ok)]
  BY <1>1 DEF IInv, DataOK
<1>7. /\ job'[m] \in [pc : {"idle", "claimed", "read", "apply"}, slab : Snapshot,
                      lost : SUBSET Sectors, moved : SUBSET (Sectors \X Hosts),
                      recovered : BOOLEAN, success : BOOLEAN]
      /\ job'[m].lost = job[m].lost /\ job'[m].moved \subseteq job[m].moved
      /\ job'[m].slab = job[m].slab /\ job'[m].pc = job[m].pc
  BY <1>4, <1>5, <1>6, ZenonT(60)
<1>8. hostOf' \in [Sectors -> Hosts \cup {NoHost}] /\ RowsThere'
  BY <1>1, <1>2, <1>3 DEF IInv, DataOK, RowsThere, There
<1>9. job' = [job EXCEPT ![m] = job'[m]]
  BY <1>1, <1>6
<1> QED
  BY <1>2, <1>7, <1>8, <1>9, JobStep DEF IInv, DataOK, SlabsThere, MovedThere, LostAreGone, There

-----------------------------------------------------------------------------
(* The world.                                                               *)
LEMMA WorldIInv ==
    ASSUME IInv,
           \/ \E s \in Sectors : SectorStep(s)
           \/ \E h \in Hosts : HostChanges(h)
           \/ Tick \/ HostLoses \/ PinSlabAgain \/ DeleteSlab
    PROVE  IInv'
<1> USE DEF IInv
<1>1. ASSUME NEW s \in Sectors, FindLost(s) \/ GiveUp(s)
      PROVE  IInv'
  <2>1. /\ hostOf' = [hostOf EXCEPT ![s] = NoHost]
        /\ UNCHANGED <<hostState, stored, job>>
        /\ gone \subseteq gone' /\ gone' \subseteq Sectors /\ s \in gone'
    BY <1>1 DEF FindLost, GiveUp, RowsThere, There, DataOK
  <2>2. RowsThere' /\ hostOf' \in [Sectors -> Hosts \cup {NoHost}]
    BY <2>1 DEF RowsThere, There, DataOK
  <2> QED BY <2>1, <2>2, WorldStep DEF DataOK
<1>2. ASSUME NEW s \in Sectors, PinSector(s) \/ ContractBad(s) \/ ContractGood(s)
      PROVE  IInv'
  <2>1. UNCHANGED <<hostOf, hostState, stored, gone, job>>
    BY <1>2 DEF PinSector, ContractBad, ContractGood
  <2> QED BY <2>1, WorldStep DEF DataOK, RowsThere, There
<1>3. ASSUME NEW h \in Hosts, HostChanges(h)
      PROVE  IInv'
  <2>1. /\ UNCHANGED <<hostOf, stored, gone, job>>
        /\ hostState' \in [Hosts -> {"good", "full", "bad"}]
    BY <1>3 DEF HostChanges, slabVars, DataOK
  <2> QED BY <2>1, WorldStep DEF DataOK, RowsThere, There
<1>4. CASE Tick \/ DeleteSlab
  <2>1. UNCHANGED <<hostOf, hostState, stored, gone, job>>
    BY <1>4 DEF Tick, DeleteSlab, slabVars
  <2> QED BY <2>1, WorldStep DEF DataOK, RowsThere, There
<1>5. CASE HostLoses
  <2>1. PICK p \in stored : stored' = stored \ {p} /\ gone' = gone \cup {p[2]}
    BY <1>5 DEF HostLoses
  <2>2. UNCHANGED <<hostOf, hostState, job>>
    BY <1>5 DEF HostLoses, slabVars
  <2>3. p[2] \in Sectors
    BY DEF DataOK
  <2>4. \A h, s : <<h, s>> \in stored => <<h, s>> \in stored' \/ s \in gone'
    BY <2>1
  <2>5. RowsThere'
    BY <2>1, <2>2, <2>4 DEF RowsThere, There
  <2> QED BY <2>1, <2>2, <2>3, <2>4, <2>5, WorldStep DEF DataOK
<1>6. CASE PinSlabAgain
  <2>1. PICK f \in [Sectors -> Hosts] :
            /\ stored' = stored \cup {<<f[s], s>> : s \in Sectors}
            /\ hostOf' = [s \in Sectors |-> IF hostOf[s] = NoHost THEN f[s] ELSE hostOf[s]]
    BY <1>6 DEF PinSlabAgain
  <2>2. UNCHANGED <<hostState, gone, job>>
    BY <1>6 DEF PinSlabAgain
  <2>3. stored \subseteq stored' /\ stored' \subseteq Hosts \X Sectors
    BY <2>1 DEF DataOK
  <2>4. hostOf' \in [Sectors -> Hosts \cup {NoHost}]
    BY <2>1 DEF DataOK
  <2>5. RowsThere'
    BY <2>1, <2>2 DEF RowsThere, There
  <2> QED BY <2>2, <2>3, <2>4, <2>5, WorldStep DEF DataOK
<1> QED BY <1>1, <1>2, <1>3, <1>4, <1>5, <1>6 DEF SectorStep

(* Every step keeps the invariant.                                         *)
LEMMA NextIInv == IInv /\ [RepairNext]_repairVars => IInv'
<1> SUFFICES ASSUME IInv, [RepairNext]_repairVars PROVE IInv'
  OBVIOUS
<1>1. ASSUME NEW m \in Migrators, Work(m) PROVE IInv'
  <2>1. CASE SkipSlab(m) \/ MarkSlabRepaired(m)
    BY <2>1, EndJobIInv DEF SkipSlab, MarkSlabRepaired, slabVars
  <2> QED
    BY <1>1, <2>1, ReadSlabIInv, RecoveryFailsIInv, MigrateSlabIInv, ApplyLostIInv,
       RecordMigratedIInv DEF Work
<1>2. ASSUME NEW m \in Migrators, DropJob(m) PROVE IInv'
  BY <1>2, EndJobIInv DEF DropJob, slabVars
<1>3. CASE UNCHANGED repairVars
  <2>1. UNCHANGED <<hostOf, hostState, stored, gone, job>>
    BY <1>3 DEF repairVars, slabVars
  <2> QED BY <2>1 DEF IInv, DataOK, RowsThere, SlabsThere, MovedThere, LostAreGone, There
<1> QED
  BY <1>1, <1>2, <1>3, ClaimIInv, WorldIInv DEF RepairNext

(* A sector that is not where its row says was lost by a host or given up:  *)
(* no claim, result or retry of a repair costs a shard.                     *)
THEOREM ShardsKept == RepairSpec => []ShardsOnlyLostByHosts
<1>1. IInv => ShardsOnlyLostByHosts
  BY DEF IInv, RowsThere, There, ShardsOnlyLostByHosts
<1> QED
  BY <1>1, InitIInv, NextIInv, PTL DEF RepairSpec

-----------------------------------------------------------------------------
(***************************************************************************)
(* One sector per host.  While attempts do not overlap, the one that is at *)
(* work knows where the sectors are: since it read the slab, rows have     *)
(* only lost their host, so a host that is free in its snapshot is free.   *)
(***************************************************************************)

RowsApart == \A s, t \in Sectors : s # t /\ hostOf[s] # NoHost => hostOf[s] # hostOf[t]
OneAtWork == \A m, k \in Migrators : m # k => job[m].pc = "idle" \/ job[k].pc = "idle"
SnapshotHolds ==
    \A m \in Migrators : job[m].pc = "read" =>
        \A s \in Sectors : hostOf[s] \in {job[m].slab.host[s], NoHost}
MovesApart ==
    \A m \in Migrators : \A p \in job[m].moved :
        /\ \A s \in Sectors : hostOf[s] # p[2]
        /\ \A q \in job[m].moved : p # q => p[1] # q[1] /\ p[2] # q[2]
NothingMovedYet == \A m \in Migrators : job[m].pc # "apply" => job[m].moved = {}

ApartInv ==
    /\ NothingMovedYet
    /\ ~overlapped => RowsApart /\ OneAtWork /\ SnapshotHolds /\ MovesApart

(* Initially the sectors are where the client placed them, one per host.    *)
LEMMA InitApart == RepairInit => ApartInv
<1> SUFFICES ASSUME RepairInit PROVE ApartInv
  OBVIOUS
<1>1. \A m \in Migrators : job[m] = Idle
  BY DEF RepairInit
<1>2. RowsApart
  BY RepairAssumption DEF RepairInit, RowsApart
<1> QED
  BY <1>1, <1>2, IdleJob, RepairAssumption
     DEF ApartInv, NothingMovedYet, OneAtWork, SnapshotHolds, MovesApart

(* Migrator k goes on with what it has, ends, or has read the slab.         *)
Continues(k) ==
    \/ job'[k].pc = "idle" /\ job'[k].moved = {}
    \/ /\ job'[k].pc = job[k].pc /\ job'[k].slab.host = job[k].slab.host
       /\ job'[k].moved \subseteq job[k].moved
    \/ /\ job[k].pc # "idle" /\ job'[k].pc \in {"read", "apply"} /\ job'[k].moved = {}
       /\ job'[k].pc = "read" => job'[k].slab.host = hostOf'

(* Rows may lose their host at any time.                                    *)
LEMMA RowsLoseHosts ==
    ASSUME DataOK, ApartInv, overlapped' = overlapped,
           \A s \in Sectors : hostOf'[s] \in {hostOf[s], NoHost},
           \A k \in Migrators : Continues(k)
    PROVE  ApartInv'
<1>1. \A k \in Migrators : \A p \in job[k].moved : p[2] # NoHost
  BY RepairAssumption DEF DataOK
<1>2. NothingMovedYet'
  BY DEF ApartInv, NothingMovedYet, Continues
<1>3. ASSUME ~overlapped PROVE RowsApart' /\ OneAtWork' /\ SnapshotHolds' /\ MovesApart'
  <2>1. RowsApart /\ OneAtWork /\ SnapshotHolds /\ MovesApart
    BY <1>3 DEF ApartInv
  <2>2. RowsApart'
    BY <2>1 DEF RowsApart
  <2>3. OneAtWork'
    BY <2>1 DEF OneAtWork, Continues
  <2>4. SnapshotHolds'
    BY <2>1 DEF SnapshotHolds, Continues
  <2>5. MovesApart'
    <3>1. \A k \in Migrators : job'[k].moved \subseteq job[k].moved
      BY DEF Continues
    <3> QED BY <1>1, <2>1, <3>1 DEF MovesApart
  <2> QED BY <2>2, <2>3, <2>4, <2>5
<1> QED BY <1>2, <1>3 DEF ApartInv

(* A claim while another attempt is at work is an overlap.                  *)
LEMMA ClaimApart ==
    ASSUME DataOK, ApartInv, NEW m \in Migrators, Claim(m)
    PROVE  ApartInv'
<1>1. /\ UNCHANGED hostOf /\ overlapped' = (overlapped \/ Busy(m))
      /\ \E q \in {"claimed", "read"} :
            job' = [job EXCEPT ![m] = [Idle EXCEPT !.pc = q, !.slab = TakeSnapshot]]
  BY DEF Claim, ClaimLocal, PrepareMigrationBatch, slabVars
<1>2. PICK q \in {"claimed", "read"} :
          job' = [job EXCEPT ![m] = [Idle EXCEPT !.pc = q, !.slab = TakeSnapshot]]
  BY <1>1
<1>3. job'[m] = [Idle EXCEPT !.pc = q, !.slab = TakeSnapshot]
  BY <1>2 DEF DataOK
<1>4. job'[m].moved = {} /\ job'[m].pc = q /\ job'[m].slab.host = hostOf
  <2>1. TakeSnapshot.host = hostOf
    BY DEF TakeSnapshot
  <2> QED BY <1>3, <2>1 DEF Idle
<1>5. \A k \in Migrators : k # m => job'[k] = job[k]
  BY <1>2 DEF DataOK
<1>6. NothingMovedYet'
  BY <1>4, <1>5 DEF ApartInv, NothingMovedYet
<1>7. ASSUME ~overlapped' PROVE RowsApart' /\ OneAtWork' /\ SnapshotHolds' /\ MovesApart'
  <2>1. /\ RowsApart /\ OneAtWork /\ SnapshotHolds /\ MovesApart
        /\ \A k \in Migrators : k # m => job[k].pc = "idle"
    BY <1>1, <1>7 DEF ApartInv, Busy
  <2>2. RowsApart'
    BY <1>1, <2>1 DEF RowsApart
  <2>3. OneAtWork' /\ SnapshotHolds'
    BY <1>1, <1>4, <1>5, <2>1 DEF OneAtWork, SnapshotHolds
  <2>4. MovesApart'
    BY <1>1, <1>4, <1>5, <2>1 DEF MovesApart
  <2> QED BY <2>2, <2>3, <2>4
<1> QED BY <1>6, <1>7 DEF ApartInv

(* Shards go to hosts that are free in the snapshot, one to each.           *)
LEMMA MigrateApart ==
    ASSUME DataOK, ApartInv, NEW m \in Migrators, MigrateSlab(m)
    PROVE  ApartInv'
<1>1. job[m].pc = "read" /\ UNCHANGED <<hostOf, overlapped>>
  BY DEF MigrateSlab, slabVars
<1>2. PICK L \in ReportedLost(m), C \in CandidateSets(job[m].slab) :
          \E M \in Uploads(ToMigrate(job[m].slab), C) : ShardsUploaded(m, L, M)
  BY DEF MigrateSlab
<1>3. PICK M \in Uploads(ToMigrate(job[m].slab), C) : ShardsUploaded(m, L, M)
  BY <1>2
<1>4. /\ job' = [job EXCEPT ![m] = job'[m]] /\ job'[m].pc = "apply" /\ job'[m].moved = M
  BY <1>3 DEF ShardsUploaded, DataOK
<1>5. \A k \in Migrators : k # m => job'[k] = job[k]
  BY <1>4 DEF DataOK
<1>6. /\ \A p \in M : p[2] \in C
      /\ \A p, q \in M : p # q => p[1] # q[1] /\ p[2] # q[2]
  BY DEF Uploads
<1>7. \A h \in C : h \in Hosts /\ \A s \in Sectors : job[m].slab.host[s] # h
  BY DEF CandidateSets, Eligible
<1>8. NothingMovedYet'
  BY <1>4, <1>5 DEF ApartInv, NothingMovedYet
<1>9. ASSUME ~overlapped PROVE RowsApart' /\ OneAtWork' /\ SnapshotHolds' /\ MovesApart'
  <2>1. RowsApart /\ OneAtWork /\ SnapshotHolds /\ MovesApart
    BY <1>9 DEF ApartInv
  <2>2. \A h \in C, s \in Sectors : hostOf[s] # h
    BY <1>1, <1>7, <2>1, RepairAssumption DEF SnapshotHolds
  <2>3. RowsApart' /\ OneAtWork'
    BY <1>1, <1>4, <1>5, <2>1 DEF RowsApart, OneAtWork
  <2>4. SnapshotHolds'
    BY <1>1, <1>4, <1>5, <2>1 DEF SnapshotHolds
  <2>5. MovesApart'
    BY <1>1, <1>4, <1>5, <1>6, <2>1, <2>2 DEF MovesApart
  <2> QED BY <2>3, <2>4, <2>5
<1> QED BY <1>1, <1>8, <1>9 DEF ApartInv

(* A move that is recorded takes its host, which no other move has.         *)
LEMMA RecordApart ==
    ASSUME DataOK, ApartInv, NEW m \in Migrators, RecordMigrated(m)
    PROVE  ApartInv'
<1>1. PICK p \in job[m].moved, ok \in BOOLEAN :
          /\ job' = [job EXCEPT ![m].moved = @ \ {p}, ![m].success = StillSuccess(m, ok)]
          /\ hostOf' \in {hostOf, [hostOf EXCEPT ![p[1]] = p[2]]}
  BY DEF RecordMigrated
<1>2. job[m].pc = "apply" /\ overlapped' = overlapped
  BY DEF RecordMigrated
<1>3. p[1] \in Sectors /\ p[2] \in Hosts /\ hostOf \in [Sectors -> Hosts \cup {NoHost}]
  BY DEF DataOK
<1>4. /\ job'[m].pc = job[m].pc /\ job'[m].slab = job[m].slab /\ job'[m].moved = job[m].moved \ {p}
      /\ \A k \in Migrators : k # m => job'[k] = job[k]
  BY <1>1 DEF DataOK
<1>5. CASE hostOf' = hostOf
  <2>1. \A k \in Migrators : Continues(k)
    BY <1>4 DEF Continues
  <2> QED BY <1>2, <1>5, <2>1, RowsLoseHosts
<1>6. CASE hostOf' = [hostOf EXCEPT ![p[1]] = p[2]]
  <2>1. hostOf'[p[1]] = p[2] /\ \A s \in Sectors : s # p[1] => hostOf'[s] = hostOf[s]
    BY <1>3, <1>6
  <2>2. NothingMovedYet'
    BY <1>2, <1>4 DEF ApartInv, NothingMovedYet
  <2>3. ASSUME ~overlapped PROVE RowsApart' /\ OneAtWork' /\ SnapshotHolds' /\ MovesApart'
    <3>1. RowsApart /\ OneAtWork /\ SnapshotHolds /\ MovesApart /\ NothingMovedYet
      BY <2>3 DEF ApartInv
    <3>2. \A k \in Migrators : k # m => job'[k].pc = "idle" /\ job'[k].moved = {}
      BY <1>2, <1>4, <3>1 DEF OneAtWork, NothingMovedYet
    <3>3. /\ \A s \in Sectors : hostOf[s] # p[2]
          /\ \A q \in job[m].moved : p # q => p[2] # q[2]
      BY <3>1 DEF MovesApart
    <3>4. RowsApart'
      BY <2>1, <3>1, <3>3 DEF RowsApart
    <3>5. OneAtWork' /\ SnapshotHolds'
      BY <1>2, <1>4, <3>2 DEF OneAtWork, SnapshotHolds
    <3>6. MovesApart'
      <4>1. \A q \in job'[m].moved : q \in job[m].moved /\ q # p
        BY <1>4
      <4>2. \A q \in job'[m].moved : \A s \in Sectors : hostOf'[s] # q[2]
        BY <2>1, <3>1, <3>3, <4>1 DEF MovesApart
      <4>3. \A q, r \in job'[m].moved : q # r => q[1] # r[1] /\ q[2] # r[2]
        BY <3>1, <4>1 DEF MovesApart
      <4> QED BY <3>2, <4>2, <4>3 DEF MovesApart
    <3> QED BY <3>4, <3>5, <3>6
  <2> QED BY <1>2, <2>2, <2>3 DEF ApartInv
<1> QED BY <1>1, <1>5, <1>6

(* All other steps take hosts from rows at most, or are overlaps.           *)
LEMMA OtherApart ==
    ASSUME DataOK, ApartInv,
           \/ \E m \in Migrators : \/ ReadSlab(m) \/ SkipSlab(m) \/ RecoveryFails(m)
                                   \/ ApplyLost(m) \/ MarkSlabRepaired(m) \/ DropJob(m)
           \/ \E s \in Sectors : SectorStep(s)
           \/ \E h \in Hosts : HostChanges(h)
           \/ Tick \/ HostLoses \/ DeleteSlab \/ UNCHANGED repairVars
    PROVE  ApartInv'
<1>1. \A k \in Migrators : job[k] \in [pc : {"idle", "claimed", "read", "apply"}, slab : Snapshot,
                                       lost : SUBSET Sectors, moved : SUBSET (Sectors \X Hosts),
                                       recovered : BOOLEAN, success : BOOLEAN]
  BY DEF DataOK
<1>2. overlapped' = overlapped
  BY DEF ReadSlab, SkipSlab, RecoveryFails, ApplyLost, MarkSlabRepaired, DropJob, SectorStep,
         PinSector, FindLost, GiveUp, ContractBad, ContractGood, HostChanges, Tick,
         HostLoses, DeleteSlab, repairVars
<1>3. \A s \in Sectors : hostOf'[s] \in {hostOf[s], NoHost}
  BY DEF DataOK, ReadSlab, SkipSlab, RecoveryFails, ApplyLost, MarkSlabRepaired, DropJob, SectorStep,
         PinSector, FindLost, GiveUp, ContractBad, ContractGood, HostChanges, Tick,
         HostLoses, DeleteSlab, repairVars, slabVars
<1>4. ASSUME NEW m \in Migrators, job' = [job EXCEPT ![m] = job'[m]], Continues(m)
      PROVE  \A k \in Migrators : Continues(k)
  <2>1. \A k \in Migrators : k # m => job'[k] = job[k]
    BY <1>4 DEF DataOK
  <2> QED BY <1>4, <2>1 DEF Continues
<1>5. ASSUME NEW m \in Migrators, job' = [job EXCEPT ![m] = Idle]
      PROVE  job' = [job EXCEPT ![m] = job'[m]] /\ Continues(m)
  BY <1>5, IdleJob, RepairAssumption DEF DataOK, Continues
<1>6. ASSUME NEW m \in Migrators,
             SkipSlab(m) \/ MarkSlabRepaired(m) \/ DropJob(m) \/ (ReadSlab(m) /\ ~slabExists)
      PROVE  \A k \in Migrators : Continues(k)
  <2>1. job' = [job EXCEPT ![m] = Idle]
    BY <1>6 DEF SkipSlab, MarkSlabRepaired, DropJob, ReadSlab
  <2> QED BY <1>4, <1>5, <2>1
<1>7. ASSUME NEW m \in Migrators, ReadSlab(m), slabExists
      PROVE  \A k \in Migrators : Continues(k)
  <2>1. PICK R \in SUBSET {s \in Sectors : contract[s] = "good"} :
            job' = [job EXCEPT ![m] = [job[m] EXCEPT !.pc = "read", !.slab = SlabSince(m, R)]]
    BY <1>7 DEF ReadSlab
  <2>2. PICK z : z = SlabSince(m, R)
    OBVIOUS
  <2>3. job' = [job EXCEPT ![m] = [job[m] EXCEPT !.pc = "read", !.slab = z]] /\ hostOf' = hostOf
    BY <1>7, <2>1, <2>2 DEF ReadSlab, slabVars
  <2>4. z.host = hostOf
    BY <1>1, <2>2 DEF Snapshot, SlabSince
  <2>5. job[m].pc = "claimed" /\ job[m].moved = {}
    BY <1>7 DEF ReadSlab, ApartInv, NothingMovedYet
  <2>6. job'[m] = [job[m] EXCEPT !.pc = "read", !.slab = z]
    BY <2>3 DEF DataOK
  <2>7. job'[m].pc = "read" /\ job'[m].slab = z /\ job'[m].moved = {}
    BY <1>1, <2>5, <2>6
  <2> QED BY <1>4, <2>3, <2>4, <2>5, <2>6, <2>7 DEF Continues
<1>8. ASSUME NEW m \in Migrators, RecoveryFails(m)
      PROVE  \A k \in Migrators : Continues(k)
  <2>1. job[m].pc = "read" /\ job[m].moved = {}
    BY <1>8 DEF RecoveryFails, ApartInv, NothingMovedYet
  <2>2. PICK L : job' = [job EXCEPT ![m] = [job[m] EXCEPT !.pc = "apply", !.lost = L]]
    BY <1>8 DEF RecoveryFails
  <2>3. job'[m] = [job[m] EXCEPT !.pc = "apply", !.lost = L]
    BY <2>2 DEF DataOK
  <2>4. job'[m].pc = "apply" /\ job'[m].moved = {}
    BY <1>1, <2>1, <2>3
  <2> QED BY <1>4, <2>1, <2>2, <2>3, <2>4 DEF Continues
<1>9. ASSUME NEW m \in Migrators, ApplyLost(m)
      PROVE  \A k \in Migrators : Continues(k)
  <2>1. PICK s : job' = [job EXCEPT ![m].lost = @ \ {s}]
    BY <1>9 DEF ApplyLost
  <2>2. \A k \in Migrators : /\ job'[k].pc = job[k].pc /\ job'[k].slab = job[k].slab
                             /\ job'[k].moved = job[k].moved
    BY <1>1, <2>1 DEF DataOK
  <2> QED BY <2>2 DEF Continues
<1>10. ASSUME job' = job PROVE \A k \in Migrators : Continues(k)
  BY <1>10 DEF Continues
<1>11. \A k \in Migrators : Continues(k)
  BY <1>6, <1>7, <1>8, <1>9, <1>10
     DEF SectorStep, PinSector, FindLost, GiveUp, ContractBad, ContractGood, HostChanges, Tick,
         HostLoses, DeleteSlab, repairVars
<1> QED BY <1>2, <1>3, <1>11, RowsLoseHosts

(* A slab that is pinned again counts as an overlap.                        *)
LEMMA PinAgainApart ==
    ASSUME DataOK, ApartInv, PinSlabAgain
    PROVE  ApartInv'
BY DEF PinSlabAgain, ApartInv, NothingMovedYet

(* Without overlapping attempts no host gets two sectors of the slab, for   *)
(* any number of sectors, hosts and migrators (sectorsToMigrate,            *)
(* uploadShards, UnhealthySlabs).                                           *)
THEOREM SectorsSpread == RepairSpec => []OneSectorPerHost
<1>1. IInv /\ ApartInv /\ [RepairNext]_repairVars => ApartInv'
  <2> SUFFICES ASSUME DataOK, ApartInv, [RepairNext]_repairVars PROVE ApartInv'
    BY DEF IInv
  <2> QED
    BY ClaimApart, MigrateApart, RecordApart, OtherApart, PinAgainApart DEF RepairNext, Work
<1>2. ApartInv => OneSectorPerHost
  BY DEF ApartInv, RowsApart, OneSectorPerHost
<1> QED
  BY <1>1, <1>2, InitIInv, NextIInv, InitApart, PTL DEF RepairSpec
=============================================================================
