---------------------------- MODULE SectorStore ----------------------------
(***************************************************************************)
(* The sectors table of the indexer's database and everything that is      *)
(* counted about it (persist/postgres/sectors.go, contracts.go, hosts.go). *)
(*                                                                         *)
(* A sector row is pinned (it has a contract_sectors_map_id), unpinned (it *)
(* has only a host_id) or unpinnable (it has neither).  The background     *)
(* workers (pinning, pruning, integrity checks, migrations, contract       *)
(* maintenance, chain subscriber) and the API move rows between these      *)
(* classes, each by one transaction that locks the rows it classifies; an  *)
(* action below is one such transaction.  The workers choose their         *)
(* arguments from what they read long before, so an action takes any host, *)
(* contract and set of roots: a stale argument is just another argument.   *)
(*                                                                         *)
(* The statistics a transaction adjusts by hand are variables of their     *)
(* own.  The cumulative ones nothing else depends on (migrated, checked,   *)
(* failed and lost sectors in total) are left out.                         *)
(***************************************************************************)
EXTENDS Integers, FiniteSets

CONSTANTS
    Roots,             \* sector roots (table sectors, column sector_root)
    Hosts,             \* rows of table hosts
    Contracts,         \* contract ids that may be formed or renewed to
    Slabs,             \* slab digests
    NULL,              \* SQL's NULL
    SlabRoots,         \* the roots a slab's digest commits to
    MinShards,         \* a slab's min_shards
    HostOf,            \* the host a contract is formed with
    ProofHeight,       \* contracts.proof_height
    ExpirationHeight,  \* contracts.expiration_height
    PruneBuffer,       \* expiredContractSectorsPruneBuffer
    MaxChecks,         \* maxFailedIntegrityChecks
    BatchSize,         \* rows per transaction of the batched operations
    MaxHeight,         \* bound on global_settings.scanned_height
    MaxFailed,         \* bound on sectors.consecutive_failed_checks
    MaxLost            \* bound on hosts.lost_sectors

ASSUME ConstantsAssumption ==
    /\ IsFiniteSet(Roots)
    /\ IsFiniteSet(Slabs)
    /\ NULL \notin Hosts
    /\ NULL \notin Contracts
    /\ SlabRoots \in [Slabs -> SUBSET Roots]
    /\ MinShards \in [Slabs -> Nat]
    /\ HostOf \in [Contracts -> Hosts]
    /\ ProofHeight \in [Contracts -> Nat]
    /\ ExpirationHeight \in [Contracts -> Nat]
    /\ PruneBuffer \in Nat
    /\ MaxChecks \in Nat
    /\ BatchSize \in Nat
    /\ MaxHeight \in Nat
    /\ MaxFailed \in Nat
    /\ MaxLost \in Nat

VARIABLES
    slabs,          \* digests with a row in slabs (and their slab_sectors)
    rows,           \* roots with a row in sectors
    hostID,         \* sectors.host_id
    mapID,          \* sectors.contract_sectors_map_id
    failed,         \* sectors.consecutive_failed_checks
    aged,           \* roots whose uploaded_at is past the pinning threshold
    csm,            \* contract_sectors_map: id -> contract_id (NULL: no row)
    formed,         \* contracts with a row in contracts
    usable,         \* those with state IN (0,1), renewed_to IS NULL and good
    height,         \* global_settings.scanned_height
    numSlabs, numPinned, numUnpinned, numUnpinnable,  \* table stats
    hostUnpinned,   \* hosts.unpinned_sectors
    hostLost        \* hosts.lost_sectors

sectorVars   == <<rows, hostID, mapID, failed, aged>>
contractVars == <<csm, formed, usable, height>>
statVars     == <<numSlabs, numPinned, numUnpinned, numUnpinnable, hostUnpinned>>
vars         == <<slabs, sectorVars, contractVars, statVars, hostLost>>

(* A map row is named by the contract it was created with; renewals repoint *)
(* it, so the id outlives the contract.                                     *)
MapIDs == Contracts

(***************************************************************************)
(* Row classes (scanSectorIDs)                                             *)
(***************************************************************************)
PinnedIn(S)     == {r \in S : mapID[r] # NULL}
UnpinnedIn(S)   == {r \in S : mapID[r] = NULL /\ hostID[r] # NULL}
UnpinnableIn(S) == {r \in S : mapID[r] = NULL /\ hostID[r] = NULL}
OnHost(S, h)    == {r \in S : hostID[r] = h}

(* The rows a batched statement picks from the eligible ones (LIMIT).       *)
IsBatchOf(B, eligible) ==
    /\ B # {}
    /\ B \subseteq eligible
    /\ Cardinality(B) <= BatchSize
    /\ B # eligible => Cardinality(B) = BatchSize

(***************************************************************************)
(* Updates shared by the operations                                        *)
(***************************************************************************)
SetHost(S, h)   == hostID' = [r \in Roots |-> IF r \in S THEN h ELSE hostID[r]]
SetMap(S, m)    == mapID'  = [r \in Roots |-> IF r \in S THEN m ELSE mapID[r]]
SetFailed(S, n) == failed' = [r \in Roots |-> IF r \in S THEN n ELSE failed[r]]

(* uploaded_at = NOW(): the sectors S are fresh again.                      *)
Refresh(S) == aged' = aged \ S

(* incrementHost(s)UnpinnedSectors: a host's counter grows by the rows of   *)
(* "gained" and shrinks by those of "lost" that are on it.                  *)
MoveHostUnpinned(gained(_), lost(_)) ==
    hostUnpinned' = [h \in Hosts |-> hostUnpinned[h] + Cardinality(gained(h))
                                                    - Cardinality(lost(h))]

NoSectors(h) == {}

-----------------------------------------------------------------------------
(***************************************************************************)
(* Pinning and deleting slabs                                              *)
(***************************************************************************)

(* Hosts with a contract new data may go to.                                *)
GoodHosts == {HostOf[c] : c \in {k \in usable : ProofHeight[k] > height}}

(* PinSlabs, for the slab s whose sectors the client uploaded to the hosts  *)
(* "place" (one sector per host, SlabPinParams.Validate).  A new sector is  *)
(* inserted, a sector without a host is bound to the client's host, any     *)
(* other one stays where it is.  At most a fifth of the parity shards may   *)
(* be on hosts without a good contract.  Uploads older than the pinning     *)
(* threshold are refused, so the upsert leaves no sector aged.              *)
PinSlabs(s, place) ==
    LET all      == SlabRoots[s]
        inserted == all \ rows
        rebound  == {r \in all \cap rows : hostID[r] = NULL}
        bound    == inserted \cup rebound
        bad      == {r \in all : place[r] \notin GoodHosts}
    IN  /\ \A q, r \in all : q # r => place[q] # place[r]
        /\ MinShards[s] > 0 /\ Cardinality(all) >= MinShards[s]
        /\ 5 * Cardinality(bad) <= Cardinality(all) - MinShards[s]
        /\ slabs' = slabs \cup {s}
        /\ numSlabs' = IF s \in slabs THEN numSlabs ELSE numSlabs + 1
        /\ rows' = rows \cup all
        /\ hostID' = [r \in Roots |-> IF r \in bound THEN place[r] ELSE hostID[r]]
        /\ Refresh(all)
        /\ numUnpinned' = numUnpinned + Cardinality(bound)
        /\ numUnpinnable' = numUnpinnable - Cardinality(rebound)
        /\ LET On(h) == {r \in bound : place[r] = h}
           IN  MoveHostUnpinned(On, NoSectors)
        /\ UNCHANGED <<mapID, failed, numPinned, contractVars, hostLost>>

(* The sectors only the slabs S have.  (Mutant: all sectors of S.)          *)
SectorsOf(S)  == {r \in rows : \E s \in S : r \in SlabRoots[s]}
OrphanedBy(S) == {r \in rows : /\ \E s \in S : r \in SlabRoots[s]
                               /\ \A s \in slabs \ S : r \notin SlabRoots[s]}

(* deleteOrphanedSlabs, for the slabs S that lost their last reference.     *)
DeleteOrphanedSlabs(S) ==
    LET gone == OrphanedBy(S)
    IN  /\ S # {} /\ S \subseteq slabs
        /\ slabs' = slabs \ S
        /\ numSlabs' = numSlabs - Cardinality(S)
        /\ rows' = rows \ gone
        /\ SetHost(gone, NULL) /\ SetMap(gone, NULL) /\ SetFailed(gone, 0)
        /\ aged' = aged \ gone
        /\ numPinned' = numPinned - Cardinality(PinnedIn(gone))
        /\ numUnpinned' = numUnpinned - Cardinality(UnpinnedIn(gone))
        /\ numUnpinnable' = numUnpinnable - Cardinality(UnpinnableIn(gone))
        /\ LET Off(h) == OnHost(UnpinnedIn(gone), h)
           IN  MoveHostUnpinned(NoSectors, Off)
        /\ UNCHANGED <<contractVars, hostLost>>

-----------------------------------------------------------------------------
(***************************************************************************)
(* Pinning sectors to contracts, losing and migrating them                 *)
(***************************************************************************)

(* The rows of R that PinSectors pins to the map row m of contract c.       *)
(* (Mutant: wherever the sector is now.)                                    *)
UnlikePinned(c, m, R) == {r \in R \cap rows : mapID[r] # m}
Pinnable(c, m, R) ==
    {r \in R \cap rows : hostID[r] \in {NULL, HostOf[c]} /\ mapID[r] # m}

(* PinSectors(c, R): the host of c confirmed that c holds R.  Only rows on  *)
(* that host or on none are touched; without a map row the contract is      *)
(* "not found" and nothing happens.                                         *)
PinSectors(c, R) ==
    \E m \in MapIDs :
        LET sel == Pinnable(c, m, R)
        IN  /\ csm[m] = c
            /\ sel # {}
            /\ SetHost(sel, HostOf[c]) /\ SetMap(sel, m)
            /\ numPinned' = numPinned + Cardinality(UnpinnedIn(sel))
                                      + Cardinality(UnpinnableIn(sel))
            /\ numUnpinned' = numUnpinned - Cardinality(UnpinnedIn(sel))
            /\ numUnpinnable' = numUnpinnable - Cardinality(UnpinnableIn(sel))
            /\ LET Off(h) == IF h = HostOf[c] THEN UnpinnedIn(sel) ELSE {}
               IN  MoveHostUnpinned(NoSectors, Off)
            /\ UNCHANGED <<slabs, rows, failed, aged, contractVars, numSlabs, hostLost>>

(* The rows of sel that count against their host: past the proof height the *)
(* host has fulfilled its obligation.                                       *)
CountedLost(sel) ==
    {r \in sel : mapID[r] = NULL \/ ProofHeight[csm[mapID[r]]] > height}

(* Detach the rows sel of host h and charge the host (the common part of    *)
(* MarkSectorsLost and markFailingSectorsLostBatch).                        *)
LoseSectors(h, sel) ==
    /\ sel # {}
    /\ hostLost[h] + Cardinality(CountedLost(sel)) <= MaxLost
    /\ SetHost(sel, NULL) /\ SetMap(sel, NULL)
    /\ hostLost' = [hostLost EXCEPT ![h] = @ + Cardinality(CountedLost(sel))]
    /\ numPinned' = numPinned - Cardinality(PinnedIn(sel))
    /\ numUnpinned' = numUnpinned - Cardinality(UnpinnedIn(sel))
    /\ numUnpinnable' = numUnpinnable + Cardinality(PinnedIn(sel))
                                      + Cardinality(UnpinnedIn(sel))
    /\ LET Off(k) == IF k = h THEN UnpinnedIn(sel) ELSE {}
       IN  MoveHostUnpinned(NoSectors, Off)
    /\ UNCHANGED <<slabs, rows, failed, aged, contractVars, numSlabs>>

(* MarkSectorsLost(h, R): h no longer has R.  Rows that moved away from h   *)
(* since the report was made are left alone.  (Mutant: they are not.)       *)
MarkSectorsLostAnywhere(h, R) == LoseSectors(h, R \cap rows)
MarkSectorsLost(h, R) == LoseSectors(h, OnHost(R \cap rows, h))

(* markFailingSectorsLostBatch.                                             *)
MarkFailingSectorsLost(h) ==
    \E B \in SUBSET rows :
        /\ IsBatchOf(B, {r \in OnHost(rows, h) : failed[r] >= MaxChecks})
        /\ LoseSectors(h, B)

(* recordIntegrityCheck: one chunk of results of host h.                    *)
RecordIntegrityCheck(success, h, R) ==
    LET sel == OnHost(R \cap rows, h)
    IN  /\ sel # {}
        /\ IF success
           THEN SetFailed(sel, 0)
           ELSE /\ \A r \in sel : failed[r] < MaxFailed
                /\ failed' = [r \in Roots |-> IF r \in sel THEN failed[r] + 1 ELSE failed[r]]
        /\ UNCHANGED <<slabs, rows, hostID, mapID, aged, contractVars, statVars, hostLost>>

(* MigrateSector(r, h): r was just uploaded to h, wherever it was before.   *)
MigrateSector(r, h) ==
    /\ r \in rows
    /\ SetHost({r}, h) /\ SetMap({r}, NULL) /\ SetFailed({r}, 0)
    /\ Refresh({r})
    /\ numPinned' = numPinned - Cardinality(PinnedIn({r}))
    /\ numUnpinned' = numUnpinned + Cardinality(PinnedIn({r}))
                                  + Cardinality(UnpinnableIn({r}))
    /\ numUnpinnable' = numUnpinnable - Cardinality(UnpinnableIn({r}))
    /\ LET On(k) == IF k = h THEN {r} ELSE {}
           Off(k) == OnHost(UnpinnedIn({r}), k)
       IN  MoveHostUnpinned(On, Off)
    /\ UNCHANGED <<slabs, rows, contractVars, numSlabs, hostLost>>

-----------------------------------------------------------------------------
(***************************************************************************)
(* Giving up on unpinned sectors                                           *)
(***************************************************************************)

(* Rows sel, all unpinned, lose their host and their failed checks.         *)
DetachUnpinned(sel) ==
    /\ SetHost(sel, NULL) /\ SetFailed(sel, 0)
    /\ numUnpinnable' = numUnpinnable + Cardinality(sel)
    /\ numUnpinned' = numUnpinned - Cardinality(sel)
    /\ LET Off(h) == OnHost(sel, h)
       IN  MoveHostUnpinned(NoSectors, Off)
    /\ UNCHANGED <<slabs, rows, mapID, aged, csm, formed, height,
                   numSlabs, numPinned, hostLost>>

(* markSectorsUnpinnableBatch.                                              *)
MarkSectorsUnpinnable ==
    \E B \in SUBSET rows :
        /\ IsBatchOf(B, UnpinnedIn(rows) \cap aged)
        /\ DetachUnpinned(B)
        /\ UNCHANGED usable

(* BlockHosts: the host's contracts turn bad and its unpinned sectors are   *)
(* given up.                                                                *)
BlockHost(h) ==
    /\ DetachUnpinned(OnHost(UnpinnedIn(rows), h))
    /\ usable' = {c \in usable : HostOf[c] # h}

(* Time passes: the upload of r is now further back than the threshold.     *)
Age(r) ==
    /\ r \in rows \ aged
    /\ aged' = aged \cup {r}
    /\ UNCHANGED <<slabs, rows, hostID, mapID, failed, contractVars, statVars, hostLost>>

-----------------------------------------------------------------------------
(***************************************************************************)
(* Contracts, as far as the sectors table depends on them                  *)
(***************************************************************************)
AddFormedContract(c) ==
    /\ c \in Contracts \ formed
    /\ formed' = formed \cup {c}
    /\ usable' = usable \cup {c}
    /\ csm' = [csm EXCEPT ![c] = c]
    /\ UNCHANGED <<slabs, sectorVars, height, statVars, hostLost>>

(* AddRenewedContract: the map row of the old contract now belongs to the   *)
(* renewal, and with it every sector pinned through it.                     *)
(* (Mutants: the renewal gets a map row of its own and the old one is       *)
(* deleted; the renewal is not inserted into contracts.)                    *)
AddRenewedContractNewMap(old, new) ==
    /\ new \in Contracts \ formed
    /\ HostOf[new] = HostOf[old]
    /\ \E m \in MapIDs : csm[m] = old /\ csm' = [csm EXCEPT ![m] = NULL, ![new] = new]
    /\ formed' = formed \cup {new}
    /\ usable' = (usable \ {old}) \cup {new}
    /\ UNCHANGED <<slabs, sectorVars, height, statVars, hostLost>>

AddRenewedContract(old, new) ==
    /\ new \in Contracts \ formed
    /\ HostOf[new] = HostOf[old]
    /\ \E m \in MapIDs : csm[m] = old /\ csm' = [csm EXCEPT ![m] = new]
    /\ formed' = formed \cup {new}
    /\ usable' = (usable \ {old}) \cup {new}
    /\ UNCHANGED <<slabs, sectorVars, height, statVars, hostLost>>

(* DeleteContract: its sectors become unpinned, as if freshly uploaded.     *)
DeleteContract(c) ==
    \E m \in MapIDs :
        LET sel == {r \in rows : mapID[r] = m}
        IN  /\ csm[m] = c
            /\ SetMap(sel, NULL)
            /\ Refresh(sel)
            /\ csm' = [csm EXCEPT ![m] = NULL]
            /\ usable' = usable \ {c}
            /\ numPinned' = numPinned - Cardinality(sel)
            /\ numUnpinned' = numUnpinned + Cardinality(sel)
            /\ LET On(h) == IF h = HostOf[c] THEN sel ELSE {}
               IN  MoveHostUnpinned(On, NoSectors)
            /\ UNCHANGED <<slabs, rows, hostID, failed, formed, height,
                           numSlabs, numUnpinnable, hostLost>>

(* PruneContractSectorsMap: the sectors of contracts that expired long ago  *)
(* go straight from pinned to unpinnable.                                   *)
PruneContractSectorsMap ==
    LET toPrune == {m \in MapIDs : /\ csm[m] # NULL
                                   /\ height >= ExpirationHeight[csm[m]] + PruneBuffer}
        sel     == {r \in rows : mapID[r] \in toPrune}
    IN  /\ toPrune # {}
        /\ SetHost(sel, NULL) /\ SetMap(sel, NULL) /\ SetFailed(sel, 0)
        /\ csm' = [m \in MapIDs |-> IF m \in toPrune THEN NULL ELSE csm[m]]
        /\ numPinned' = numPinned - Cardinality(sel)
        /\ numUnpinnable' = numUnpinnable + Cardinality(sel)
        /\ UNCHANGED <<slabs, rows, aged, formed, usable, height,
                       numSlabs, numUnpinned, hostUnpinned, hostLost>>

(* Everything that only moves a contract in or out of "state IN (0,1) AND   *)
(* renewed_to IS NULL AND good": chain updates and reverts, rejections,     *)
(* MarkContractBad, MarkUnrenewableContractsBad, UnblockHost.               *)
UpdateContractStatus(c) ==
    /\ c \in formed
    /\ usable' = IF c \in usable THEN usable \ {c} ELSE usable \cup {c}
    /\ UNCHANGED <<slabs, sectorVars, csm, formed, height, statVars, hostLost>>

(* The subscriber commits a batch of blocks; a reorg may lower the height.  *)
UpdateHeight(n) ==
    /\ n # height
    /\ height' = n
    /\ UNCHANGED <<slabs, sectorVars, csm, formed, usable, statVars, hostLost>>

(* ResetLostSectors (admin API).                                            *)
ResetLostSectors(h) ==
    /\ hostLost[h] > 0
    /\ hostLost' = [hostLost EXCEPT ![h] = 0]
    /\ UNCHANGED <<slabs, sectorVars, contractVars, statVars>>

-----------------------------------------------------------------------------
Init ==
    /\ slabs = {} /\ rows = {} /\ aged = {} /\ formed = {} /\ usable = {}
    /\ hostID = [r \in Roots |-> NULL]
    /\ mapID = [r \in Roots |-> NULL]
    /\ failed = [r \in Roots |-> 0]
    /\ csm = [m \in MapIDs |-> NULL]
    /\ height = 0
    /\ numSlabs = 0 /\ numPinned = 0 /\ numUnpinned = 0 /\ numUnpinnable = 0
    /\ hostUnpinned = [h \in Hosts |-> 0]
    /\ hostLost = [h \in Hosts |-> 0]

Next ==
    \/ \E s \in Slabs : \E place \in [SlabRoots[s] -> Hosts] : PinSlabs(s, place)
    \/ \E S \in SUBSET Slabs : DeleteOrphanedSlabs(S)
    \/ \E c \in Contracts, R \in SUBSET Roots : PinSectors(c, R)
    \/ \E h \in Hosts, R \in SUBSET Roots : MarkSectorsLost(h, R)
    \/ \E h \in Hosts : MarkFailingSectorsLost(h)
    \/ \E ok \in BOOLEAN, h \in Hosts, R \in SUBSET Roots : RecordIntegrityCheck(ok, h, R)
    \/ \E r \in Roots, h \in Hosts : MigrateSector(r, h)
    \/ MarkSectorsUnpinnable
    \/ \E h \in Hosts : BlockHost(h)
    \/ \E r \in Roots : Age(r)
    \/ \E c \in Contracts : AddFormedContract(c)
    \/ \E old, new \in Contracts : AddRenewedContract(old, new)
    \/ \E c \in Contracts : DeleteContract(c)
    \/ PruneContractSectorsMap
    \/ \E c \in Contracts : UpdateContractStatus(c)
    \/ \E n \in 0..MaxHeight : UpdateHeight(n)
    \/ \E h \in Hosts : ResetLostSectors(h)

Spec == Init /\ [][Next]_vars

-----------------------------------------------------------------------------
(***************************************************************************)
(* Properties                                                              *)
(***************************************************************************)

(* Every column holds a value of its type, foreign keys of the contracts    *)
(* tables resolve, and a root without a row has the defaults.  The types of *)
(* the statistics follow from StatsExact.                                   *)
TypeOK ==
    /\ slabs \subseteq Slabs
    /\ rows \subseteq Roots
    /\ hostID \in [Roots -> Hosts \cup {NULL}]
    /\ mapID \in [Roots -> MapIDs \cup {NULL}]
    /\ failed \in [Roots -> Nat]
    /\ aged \subseteq rows
    /\ csm \in [MapIDs -> Contracts \cup {NULL}]
    /\ formed \subseteq Contracts
    /\ usable \subseteq formed
    /\ height \in Nat
    /\ hostLost \in [Hosts -> Nat]
    /\ \A m \in MapIDs : csm[m] # NULL => m \in formed /\ csm[m] \in formed
    /\ \A r \in Roots \ rows : hostID[r] = NULL /\ mapID[r] = NULL /\ failed[r] = 0

(* A sector that is pinned is pinned to an existing contract, and stored on *)
(* that contract's host: DeleteContract credits the contract's host with    *)
(* the unpinned sectors, MarkSectorsLost reads the contract's proof height, *)
(* and both would corrupt state otherwise.  Migrations, renewals and late   *)
(* PinSectors calls all rewrite one side of this relation only.             *)
PinnedOnContractsHost ==
    \A r \in rows : mapID[r] # NULL =>
        /\ csm[mapID[r]] # NULL
        /\ hostID[r] = HostOf[csm[mapID[r]]]

(* The hand-maintained statistics equal the rows they count, so none of the *)
(* CHECK (... >= 0) constraints can ever abort a transaction.               *)
StatsExact ==
    /\ numSlabs = Cardinality(slabs)
    /\ numPinned = Cardinality(PinnedIn(rows))
    /\ numUnpinned = Cardinality(UnpinnedIn(rows))
    /\ numUnpinnable = Cardinality(UnpinnableIn(rows))
    /\ hostUnpinned = [h \in Hosts |-> Cardinality(OnHost(UnpinnedIn(rows), h))]

(* Deleting slabs deletes exactly the sectors nobody needs any more: no     *)
(* slab misses a sector and no sector is left without a slab.               *)
SectorsOfSlabs ==
    \A r \in Roots : r \in rows <=> \E s \in slabs : r \in SlabRoots[s]

(* A host's lost_sectors grows by at most the sectors the same step takes   *)
(* from it: two workers reporting the same loss charge the host once.       *)
LostChargedOnce ==
    [][\A h \in Hosts : hostLost'[h] > hostLost[h] =>
          hostLost'[h] - hostLost[h] <=
              Cardinality({r \in rows : hostID[r] = h /\ hostID'[r] = NULL})]_vars

(* A sector only moves from one host to another by a migration, which       *)
(* leaves it unpinned, fresh and without failed checks; a late PinSectors   *)
(* or PinSlabs never claws a migrated sector back.                          *)
MovedSectorStartsOver ==
    [][\A r \in rows : (hostID[r] # NULL /\ hostID'[r] \notin {hostID[r], NULL}) =>
          mapID'[r] = NULL /\ failed'[r] = 0 /\ r \notin aged']_vars

(* MarkSectorsLost's documentation: a sector is lost when "the host has     *)
(* failed the integrity check for that sector enough times", so a sector    *)
(* that gets a host starts without failed checks.                           *)
FailedChecksOfCurrentHost ==
    [][\A r \in Roots : (hostID'[r] # NULL /\ hostID'[r] # hostID[r]) =>
          failed'[r] = 0]_vars
=============================================================================
