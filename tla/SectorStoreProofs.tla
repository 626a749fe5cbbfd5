------------------------- MODULE SectorStoreProofs -------------------------
(***************************************************************************)
(* Proofs about SectorStore for every number of sectors, hosts, contracts  *)
(* and slabs: the pinned-sector relation and the exactness of the          *)
(* statistics are invariants.                                              *)
(***************************************************************************)
EXTENDS SectorStore, FiniteSetTheorems, TLAPS

(* A set of sectors is finite and its size is a natural number.             *)
LEMMA RootSets ==
    ASSUME NEW S, S \subseteq Roots
    PROVE  IsFiniteSet(S) /\ Cardinality(S) \in Nat
BY FS_Subset, FS_CardinalityType, ConstantsAssumption

(* A counter of the set A that is adjusted by what A gains and what it      *)
(* loses keeps counting the set.                                            *)
LEMMA CounterMove ==
    ASSUME NEW A, NEW B, NEW G, NEW L,
           IsFiniteSet(A), IsFiniteSet(G),
           L \subseteq A, (A \ L) \cap G = {}, B = (A \ L) \cup G
    PROVE  Cardinality(B) = Cardinality(A) + Cardinality(G) - Cardinality(L)
<1>1. IsFiniteSet(L) /\ A \cap L = L
  BY FS_Subset
<1>2. IsFiniteSet(A \ L) /\ Cardinality(A \ L) = Cardinality(A) - Cardinality(L)
  BY <1>1, FS_Difference
<1>4. Cardinality((A \ L) \cup G) = Cardinality(A \ L) + Cardinality(G) - Cardinality({})
  BY <1>2, FS_Union
<1>5. Cardinality({}) = 0
  BY FS_EmptySet
<1>6. /\ Cardinality(A) \in Nat /\ Cardinality(G) \in Nat
      /\ Cardinality(L) \in Nat /\ Cardinality(A \ L) \in Nat
  BY <1>1, <1>2, FS_CardinalityType
<1> QED
  BY <1>2, <1>4, <1>5, <1>6

-----------------------------------------------------------------------------
(***************************************************************************)
(* Types                                                                   *)
(***************************************************************************)

(* The number of sectors charged to a host is a natural number.             *)
LEMMA CountedLostType ==
    ASSUME NEW sel, sel \subseteq Roots
    PROVE  Cardinality(CountedLost(sel)) \in Nat
BY RootSets, CountedLost(sel) \subseteq Roots DEF CountedLost

(* Every step preserves the types.                                          *)
LEMMA TypeStep == TypeOK /\ [Next]_vars => TypeOK'
<1> SUFFICES ASSUME TypeOK, [Next]_vars PROVE TypeOK'
  OBVIOUS
<1> USE ConstantsAssumption DEF TypeOK, MapIDs, SetHost, SetMap, SetFailed, Refresh,
                               sectorVars, contractVars, statVars, vars
<1>1. ASSUME NEW s \in Slabs, NEW place \in [SlabRoots[s] -> Hosts], PinSlabs(s, place)
      PROVE  TypeOK'
  <2>1. SlabRoots[s] \subseteq Roots
    OBVIOUS
  <2> QED BY <1>1, <2>1 DEF PinSlabs
<1>2. ASSUME NEW S \in SUBSET Slabs, DeleteOrphanedSlabs(S)
      PROVE  TypeOK'
  BY <1>2 DEF DeleteOrphanedSlabs, OrphanedBy
<1>3. ASSUME NEW c \in Contracts, NEW R \in SUBSET Roots, PinSectors(c, R)
      PROVE  TypeOK'
  <2>1. PICK m \in Contracts :
          /\ hostID' = [r \in Roots |-> IF r \in Pinnable(c, m, R) THEN HostOf[c] ELSE hostID[r]]
          /\ mapID' = [r \in Roots |-> IF r \in Pinnable(c, m, R) THEN m ELSE mapID[r]]
    BY <1>3 DEF PinSectors
  <2>2. UNCHANGED <<slabs, rows, failed, aged, csm, formed, usable, height, hostLost>>
    BY <1>3 DEF PinSectors
  <2>3. Pinnable(c, m, R) \subseteq rows
    BY DEF Pinnable
  <2> QED BY <2>1, <2>2, <2>3
<1>4. ASSUME NEW h \in Hosts, NEW sel \in SUBSET rows, LoseSectors(h, sel)
      PROVE  TypeOK'
  <2>1. Cardinality(CountedLost(sel)) \in Nat
    BY CountedLostType
  <2>2. /\ hostID' = [r \in Roots |-> IF r \in sel THEN NULL ELSE hostID[r]]
        /\ mapID' = [r \in Roots |-> IF r \in sel THEN NULL ELSE mapID[r]]
        /\ UNCHANGED <<slabs, rows, failed, aged, csm, formed, usable, height>>
    BY <1>4 DEF LoseSectors
  <2>3. hostLost' = [hostLost EXCEPT ![h] = @ + Cardinality(CountedLost(sel))]
    BY <1>4 DEF LoseSectors
  <2>4. hostLost' \in [Hosts -> Nat]
    BY <2>1, <2>3
  <2> QED BY <2>2, <2>4
<1>5. ASSUME NEW h \in Hosts, NEW R \in SUBSET Roots, MarkSectorsLost(h, R)
      PROVE  TypeOK'
  BY <1>4, <1>5 DEF MarkSectorsLost, OnHost
<1>6. ASSUME NEW h \in Hosts, MarkFailingSectorsLost(h)
      PROVE  TypeOK'
  BY <1>4, <1>6 DEF MarkFailingSectorsLost
<1>7. ASSUME NEW ok \in BOOLEAN, NEW h \in Hosts, NEW R \in SUBSET Roots,
             RecordIntegrityCheck(ok, h, R)
      PROVE  TypeOK'
  BY <1>7 DEF RecordIntegrityCheck, OnHost
<1>8. ASSUME NEW r \in Roots, NEW h \in Hosts, MigrateSector(r, h)
      PROVE  TypeOK'
  BY <1>8 DEF MigrateSector
<1>9. ASSUME MarkSectorsUnpinnable PROVE TypeOK'
  BY <1>9 DEF MarkSectorsUnpinnable, DetachUnpinned, IsBatchOf, UnpinnedIn
<1>10. ASSUME NEW h \in Hosts, BlockHost(h) PROVE TypeOK'
  BY <1>10 DEF BlockHost, DetachUnpinned, OnHost, UnpinnedIn
<1>11. ASSUME NEW r \in Roots, Age(r) PROVE TypeOK'
  BY <1>11 DEF Age
<1>12. ASSUME NEW c \in Contracts, AddFormedContract(c) PROVE TypeOK'
  BY <1>12 DEF AddFormedContract
<1>13. ASSUME NEW old \in Contracts, NEW new \in Contracts, AddRenewedContract(old, new)
       PROVE  TypeOK'
  BY <1>13 DEF AddRenewedContract
<1>14. ASSUME NEW c \in Contracts, DeleteContract(c) PROVE TypeOK'
  <2>1. PICK m \in Contracts : /\ csm[m] = c
                               /\ csm' = [csm EXCEPT ![m] = NULL]
                               /\ aged' \subseteq aged
                               /\ mapID' = [r \in Roots |-> IF r \in {q \in rows : mapID[q] = m}
                                                            THEN NULL ELSE mapID[r]]
    BY <1>14 DEF DeleteContract
  <2>2. /\ usable' = usable \ {c}
        /\ UNCHANGED <<slabs, rows, hostID, failed, formed, height, hostLost>>
    BY <1>14 DEF DeleteContract
  <2> QED BY <2>1, <2>2
<1>15. ASSUME PruneContractSectorsMap PROVE TypeOK'
  BY <1>15 DEF PruneContractSectorsMap
<1>16. ASSUME NEW c \in Contracts, UpdateContractStatus(c) PROVE TypeOK'
  BY <1>16 DEF UpdateContractStatus
<1>17. ASSUME NEW n \in 0..MaxHeight, UpdateHeight(n) PROVE TypeOK'
  BY <1>17 DEF UpdateHeight
<1>18. ASSUME NEW h \in Hosts, ResetLostSectors(h) PROVE TypeOK'
  BY <1>18 DEF ResetLostSectors
<1>19. CASE UNCHANGED vars
  BY <1>19
<1> QED
  BY <1>1, <1>2, <1>3, <1>5, <1>6, <1>7, <1>8, <1>9, <1>10, <1>11, <1>12, <1>13,
     <1>14, <1>15, <1>16, <1>17, <1>18, <1>19 DEF Next

-----------------------------------------------------------------------------
(***************************************************************************)
(* Pinned sectors and slabs                                                *)
(***************************************************************************)

(* Every step keeps pinned sectors on their contract's host.                *)
LEMMA PinnedStep ==
    TypeOK /\ PinnedOnContractsHost /\ [Next]_vars => PinnedOnContractsHost'
<1> SUFFICES ASSUME TypeOK, PinnedOnContractsHost, [Next]_vars
             PROVE  PinnedOnContractsHost'
  OBVIOUS
<1> USE ConstantsAssumption DEF TypeOK, PinnedOnContractsHost, MapIDs, SetHost, SetMap,
                               sectorVars, contractVars, statVars, vars
<1>1. ASSUME NEW s \in Slabs, NEW place \in [SlabRoots[s] -> Hosts], PinSlabs(s, place)
      PROVE  PinnedOnContractsHost'
  <2> SUFFICES ASSUME NEW r \in rows', mapID'[r] # NULL
               PROVE  csm'[mapID'[r]] # NULL /\ hostID'[r] = HostOf[csm'[mapID'[r]]]
    OBVIOUS
  <2>1. UNCHANGED <<mapID, csm>>
    BY <1>1 DEF PinSlabs
  <2>2. r \in rows /\ r \in Roots
    BY <1>1, <2>1 DEF PinSlabs
  <2>3. hostID[r] \in Hosts
    BY <2>1, <2>2
  <2>4. hostID'[r] = hostID[r]
    BY <1>1, <2>2, <2>3 DEF PinSlabs
  <2> QED BY <2>1, <2>2, <2>4
<1>2. ASSUME NEW S \in SUBSET Slabs, DeleteOrphanedSlabs(S)
      PROVE  PinnedOnContractsHost'
  BY <1>2 DEF DeleteOrphanedSlabs, OrphanedBy
<1>3. ASSUME NEW c \in Contracts, NEW R \in SUBSET Roots, PinSectors(c, R)
      PROVE  PinnedOnContractsHost'
  <2>1. PICK m \in Contracts :
          /\ csm[m] = c
          /\ hostID' = [r \in Roots |-> IF r \in Pinnable(c, m, R) THEN HostOf[c] ELSE hostID[r]]
          /\ mapID' = [r \in Roots |-> IF r \in Pinnable(c, m, R) THEN m ELSE mapID[r]]
    BY <1>3 DEF PinSectors
  <2>2. UNCHANGED <<rows, csm>>
    BY <1>3 DEF PinSectors
  <2> QED BY <2>1, <2>2
<1>4. ASSUME NEW h \in Hosts, NEW sel \in SUBSET rows, LoseSectors(h, sel)
      PROVE  PinnedOnContractsHost'
  BY <1>4 DEF LoseSectors
<1>5. ASSUME NEW h \in Hosts, NEW R \in SUBSET Roots, MarkSectorsLost(h, R)
      PROVE  PinnedOnContractsHost'
  BY <1>4, <1>5 DEF MarkSectorsLost, OnHost
<1>6. ASSUME NEW h \in Hosts, MarkFailingSectorsLost(h)
      PROVE  PinnedOnContractsHost'
  BY <1>4, <1>6 DEF MarkFailingSectorsLost
<1>7. ASSUME NEW ok \in BOOLEAN, NEW h \in Hosts, NEW R \in SUBSET Roots,
             RecordIntegrityCheck(ok, h, R)
      PROVE  PinnedOnContractsHost'
  BY <1>7 DEF RecordIntegrityCheck
<1>8. ASSUME NEW r \in Roots, NEW h \in Hosts, MigrateSector(r, h)
      PROVE  PinnedOnContractsHost'
  BY <1>8 DEF MigrateSector
<1>9. ASSUME NEW sel \in SUBSET UnpinnedIn(rows), DetachUnpinned(sel)
      PROVE  PinnedOnContractsHost'
  BY <1>9 DEF DetachUnpinned, UnpinnedIn
<1>10. ASSUME MarkSectorsUnpinnable PROVE PinnedOnContractsHost'
  BY <1>9, <1>10 DEF MarkSectorsUnpinnable, IsBatchOf
<1>11. ASSUME NEW h \in Hosts, BlockHost(h) PROVE PinnedOnContractsHost'
  BY <1>9, <1>11 DEF BlockHost, OnHost
<1>12. ASSUME NEW r \in Roots, Age(r) PROVE PinnedOnContractsHost'
  BY <1>12 DEF Age
<1>13. ASSUME NEW c \in Contracts, AddFormedContract(c) PROVE PinnedOnContractsHost'
  BY <1>13 DEF AddFormedContract
<1>14. ASSUME NEW old \in Contracts, NEW new \in Contracts, AddRenewedContract(old, new)
       PROVE  PinnedOnContractsHost'
  BY <1>14 DEF AddRenewedContract
<1>15. ASSUME NEW c \in Contracts, DeleteContract(c) PROVE PinnedOnContractsHost'
  <2>1. PICK m \in Contracts : /\ csm' = [csm EXCEPT ![m] = NULL]
                               /\ mapID' = [r \in Roots |-> IF r \in {q \in rows : mapID[q] = m}
                                                            THEN NULL ELSE mapID[r]]
    BY <1>15 DEF DeleteContract
  <2>2. UNCHANGED <<rows, hostID>>
    BY <1>15 DEF DeleteContract
  <2> QED BY <2>1, <2>2
<1>16. ASSUME PruneContractSectorsMap PROVE PinnedOnContractsHost'
  BY <1>16 DEF PruneContractSectorsMap
<1>17. ASSUME NEW c \in Contracts, UpdateContractStatus(c) PROVE PinnedOnContractsHost'
  BY <1>17 DEF UpdateContractStatus
<1>18. ASSUME NEW n \in 0..MaxHeight, UpdateHeight(n) PROVE PinnedOnContractsHost'
  BY <1>18 DEF UpdateHeight
<1>19. ASSUME NEW h \in Hosts, ResetLostSectors(h) PROVE PinnedOnContractsHost'
  BY <1>19 DEF ResetLostSectors
<1>20. CASE UNCHANGED vars
  BY <1>20
<1> QED
  BY <1>1, <1>2, <1>3, <1>5, <1>6, <1>7, <1>8, <1>10, <1>11, <1>12, <1>13, <1>14,
     <1>15, <1>16, <1>17, <1>18, <1>19, <1>20 DEF Next

(* Every step but the two slab operations leaves the slabs and the set of   *)
(* sector rows alone; these two keep them in step.                          *)
LEMMA SlabsStep ==
    TypeOK /\ SectorsOfSlabs /\ [Next]_vars => SectorsOfSlabs'
<1> SUFFICES ASSUME TypeOK, SectorsOfSlabs, [Next]_vars PROVE SectorsOfSlabs'
  OBVIOUS
<1> USE ConstantsAssumption DEF TypeOK, SectorsOfSlabs
<1>1. ASSUME NEW s \in Slabs, NEW place \in [SlabRoots[s] -> Hosts], PinSlabs(s, place)
      PROVE  SectorsOfSlabs'
  BY <1>1 DEF PinSlabs
<1>2. ASSUME NEW S \in SUBSET Slabs, DeleteOrphanedSlabs(S)
      PROVE  SectorsOfSlabs'
  BY <1>2 DEF DeleteOrphanedSlabs, OrphanedBy
<1>3. CASE UNCHANGED <<slabs, rows>>
  BY <1>3
<1> QED
  BY <1>1, <1>2, <1>3 DEF Next, PinSectors, MarkSectorsLost, MarkFailingSectorsLost,
     LoseSectors, RecordIntegrityCheck, MigrateSector, MarkSectorsUnpinnable,
     BlockHost, DetachUnpinned, Age, AddFormedContract, AddRenewedContract,
     DeleteContract, PruneContractSectorsMap, UpdateContractStatus, UpdateHeight,
     ResetLostSectors, vars, sectorVars

-----------------------------------------------------------------------------
(***************************************************************************)
(* Statistics                                                              *)
(***************************************************************************)

(* CounterMove for sets of sectors.                                         *)
LEMMA RowCounter ==
    ASSUME NEW A \in SUBSET Roots, NEW G \in SUBSET Roots, NEW L \in SUBSET A, NEW B,
           (A \ L) \cap G = {}, B = (A \ L) \cup G
    PROVE  /\ Cardinality(B) = Cardinality(A) + Cardinality(G) - Cardinality(L)
           /\ Cardinality(A) \in Nat /\ Cardinality(G) \in Nat /\ Cardinality(L) \in Nat
<1>1. IsFiniteSet(A) /\ IsFiniteSet(G) /\ L \subseteq Roots
  BY RootSets
<1>2. Cardinality(B) = Cardinality(A) + Cardinality(G) - Cardinality(L)
  BY <1>1, CounterMove
<1>3. Cardinality(A) \in Nat /\ Cardinality(G) \in Nat /\ Cardinality(L) \in Nat
  BY <1>1, RootSets
<1> QED
  BY <1>2, <1>3

(* The size of a union of two disjoint sets of sectors.                     *)
LEMMA DisjointRows ==
    ASSUME NEW A \in SUBSET Roots, NEW B \in SUBSET Roots, A \cap B = {}
    PROVE  /\ Cardinality(A \cup B) = Cardinality(A) + Cardinality(B)
           /\ Cardinality(A) \in Nat /\ Cardinality(B) \in Nat
<1>1. A \cup B = (A \ {}) \cup B
  OBVIOUS
<1>2. Cardinality({}) = 0
  BY FS_EmptySet
<1>3. Cardinality(A \cup B) = Cardinality(A) + Cardinality(B) - Cardinality({})
  BY <1>1, RowCounter
<1>4. Cardinality(A) \in Nat /\ Cardinality(B) \in Nat
  BY RootSets
<1> QED
  BY <1>2, <1>3, <1>4

(* The three classes of rows, and the unpinned rows of a host, as sets.     *)
P == PinnedIn(rows)
U == UnpinnedIn(rows)
N == UnpinnableIn(rows)
UH(h) == OnHost(UnpinnedIn(rows), h)

(* The sector classes are sets of sectors.                                  *)
LEMMA ClassTypes ==
    ASSUME TypeOK
    PROVE  /\ P \in SUBSET Roots /\ U \in SUBSET Roots /\ N \in SUBSET Roots
           /\ \A h : UH(h) \in SUBSET Roots
BY DEF TypeOK, P, U, N, UH, PinnedIn, UnpinnedIn, UnpinnableIn, OnHost

(* The global statistics follow the classes: what a class gains (G) and     *)
(* loses (L) is what its counter is adjusted by.                            *)
LEMMA PinnedStat ==
    ASSUME TypeOK, StatsExact, NEW G \in SUBSET Roots, NEW L \in SUBSET P,
           (P \ L) \cap G = {}, P' = (P \ L) \cup G,
           numPinned' = numPinned + Cardinality(G) - Cardinality(L)
    PROVE  numPinned' = Cardinality(P')
<1>1. P \in SUBSET Roots
  BY ClassTypes
<1>2. Cardinality(P') = Cardinality(P) + Cardinality(G) - Cardinality(L)
  BY <1>1, RowCounter
<1>3. numPinned = Cardinality(P)
  BY DEF StatsExact, P
<1> QED
  BY <1>2, <1>3

(* ... the unpinned sectors ...                                             *)
LEMMA UnpinnedStat ==
    ASSUME TypeOK, StatsExact, NEW G \in SUBSET Roots, NEW L \in SUBSET U,
           (U \ L) \cap G = {}, U' = (U \ L) \cup G,
           numUnpinned' = numUnpinned + Cardinality(G) - Cardinality(L)
    PROVE  numUnpinned' = Cardinality(U')
<1>1. U \in SUBSET Roots
  BY ClassTypes
<1>2. Cardinality(U') = Cardinality(U) + Cardinality(G) - Cardinality(L)
  BY <1>1, RowCounter
<1>3. numUnpinned = Cardinality(U)
  BY DEF StatsExact, U
<1> QED
  BY <1>2, <1>3

(* ... and the unpinnable ones.                                             *)
LEMMA UnpinnableStat ==
    ASSUME TypeOK, StatsExact, NEW G \in SUBSET Roots, NEW L \in SUBSET N,
           (N \ L) \cap G = {}, N' = (N \ L) \cup G,
           numUnpinnable' = numUnpinnable + Cardinality(G) - Cardinality(L)
    PROVE  numUnpinnable' = Cardinality(N')
<1>1. N \in SUBSET Roots
  BY ClassTypes
<1>2. Cardinality(N') = Cardinality(N) + Cardinality(G) - Cardinality(L)
  BY <1>1, RowCounter
<1>3. numUnpinnable = Cardinality(N)
  BY DEF StatsExact, N
<1> QED
  BY <1>2, <1>3

(* The same for the counters of the hosts.                                  *)
LEMMA HostStats ==
    ASSUME TypeOK, StatsExact,
           NEW G \in [Hosts -> SUBSET Roots], NEW L \in [Hosts -> SUBSET Roots],
           \A h \in Hosts : /\ L[h] \subseteq UH(h)
                            /\ (UH(h) \ L[h]) \cap G[h] = {}
                            /\ UH(h)' = (UH(h) \ L[h]) \cup G[h],
           hostUnpinned' = [h \in Hosts |-> hostUnpinned[h] + Cardinality(G[h])
                                                           - Cardinality(L[h])]
    PROVE  hostUnpinned' = [h \in Hosts |-> Cardinality(UH(h)')]
<1>1. \A h \in Hosts : hostUnpinned[h] = Cardinality(UH(h))
  BY DEF StatsExact, UH
<1>2. ASSUME NEW h \in Hosts
      PROVE  Cardinality(UH(h)') = Cardinality(UH(h)) + Cardinality(G[h]) - Cardinality(L[h])
  BY ClassTypes, RowCounter
<1> QED
  BY <1>1, <1>2

(* Combining the parts of StatsExact.                                       *)
LEMMA StatsParts ==
    ASSUME numSlabs' = Cardinality(slabs'),
           numPinned' = Cardinality(P'), numUnpinned' = Cardinality(U'),
           numUnpinnable' = Cardinality(N'),
           hostUnpinned' = [h \in Hosts |-> Cardinality(UH(h)')]
    PROVE  StatsExact'
BY DEF StatsExact, P, U, N, UH

(* The empty set has no elements to count.                                  *)
LEMMA NoCards == Cardinality({}) = 0 /\ \A h : Cardinality(NoSectors(h)) = 0
BY FS_EmptySet DEF NoSectors

(* The table's CHECK: a sector without a host is not pinned.                *)
LEMMA HostlessUnpinned ==
    ASSUME TypeOK, PinnedOnContractsHost
    PROVE  \A r \in Roots : hostID[r] = NULL => mapID[r] = NULL
BY ConstantsAssumption DEF TypeOK, PinnedOnContractsHost, MapIDs

(* PinSlabs counts the inserted and the rebound sectors.                    *)
LEMMA PinSlabsStats ==
    ASSUME TypeOK, PinnedOnContractsHost, StatsExact,
           NEW s \in Slabs, NEW place \in [SlabRoots[s] -> Hosts], PinSlabs(s, place)
    PROVE  StatsExact'
<1> DEFINE all      == SlabRoots[s]
           inserted == all \ rows
           rebound  == {r \in all \cap rows : hostID[r] = NULL}
           bound    == inserted \cup rebound
           G        == [h \in Hosts |-> {r \in bound : place[r] = h}]
           L        == [h \in Hosts |-> {}]
<1> USE ConstantsAssumption
<1>1. /\ rows' = rows \cup all /\ mapID' = mapID
      /\ hostID' = [r \in Roots |-> IF r \in bound THEN place[r] ELSE hostID[r]]
      /\ all \subseteq Roots
  BY DEF PinSlabs, TypeOK
<1>2. \A r \in bound : place[r] \in Hosts /\ place[r] # NULL /\ hostID[r] = NULL
                        /\ r \in Roots
  BY <1>1 DEF TypeOK
<1>3. (P \ {}) \cap {} = {} /\ P' = (P \ {}) \cup {}
  BY <1>1 DEF P, PinnedIn, TypeOK
<1>4. (U \ {}) \cap bound = {} /\ U' = (U \ {}) \cup bound
  BY <1>1, <1>2, HostlessUnpinned DEF U, UnpinnedIn, TypeOK
<1>5. rebound \in SUBSET N /\ (N \ rebound) \cap {} = {} /\ N' = (N \ rebound) \cup {}
  BY <1>1, <1>2, HostlessUnpinned DEF N, UnpinnableIn, TypeOK
<1>6. ASSUME NEW h \in Hosts
      PROVE  /\ L[h] \subseteq UH(h) /\ (UH(h) \ L[h]) \cap G[h] = {}
             /\ UH(h)' = (UH(h) \ L[h]) \cup G[h]
  <2>1. UH(h)' = {r \in U' : hostID'[r] = h} /\ UH(h) = {r \in U : hostID[r] = h}
    BY DEF UH, OnHost, U
  <2>2. U \subseteq Roots
    BY ClassTypes
  <2> QED BY <1>1, <1>2, <1>4, <2>1, <2>2
<1>7. hostUnpinned' = [h \in Hosts |-> hostUnpinned[h] + Cardinality(G[h]) - Cardinality(L[h])]
  BY DEF PinSlabs, MoveHostUnpinned, NoSectors
<1>8. G \in [Hosts -> SUBSET Roots] /\ L \in [Hosts -> SUBSET Roots]
  BY <1>2
<1>9. hostUnpinned' = [h \in Hosts |-> Cardinality(UH(h)')]
  <2> HIDE DEF G, L
  <2> QED BY <1>6, <1>7, <1>8, HostStats
<1>10. /\ numPinned' = numPinned + Cardinality({}) - Cardinality({})
       /\ numUnpinned' = numUnpinned + Cardinality(bound) - Cardinality({})
       /\ numUnpinnable' = numUnpinnable + Cardinality({}) - Cardinality(rebound)
  <2>1. numPinned \in Nat /\ numUnpinned \in Nat /\ numUnpinnable \in Nat
    BY ClassTypes, RootSets DEF StatsExact, P, U, N
  <2>2. Cardinality(bound) \in Nat /\ Cardinality(rebound) \in Nat
    BY <1>1, RootSets
  <2>3. /\ numPinned' = numPinned /\ numUnpinned' = numUnpinned + Cardinality(bound)
        /\ numUnpinnable' = numUnpinnable - Cardinality(rebound)
    BY DEF PinSlabs
  <2> HIDE DEF bound, rebound
  <2> QED BY <2>1, <2>2, <2>3, NoCards
<1>11. /\ numPinned' = Cardinality(P') /\ numUnpinned' = Cardinality(U')
       /\ numUnpinnable' = Cardinality(N')
  <2>1. bound \in SUBSET Roots
    BY <1>2
  <2> HIDE DEF bound, rebound
  <2>2. numPinned' = Cardinality(P')
    BY <1>3, <1>10, PinnedStat
  <2>3. numUnpinned' = Cardinality(U')
    BY <1>4, <1>10, <2>1, UnpinnedStat
  <2>4. numUnpinnable' = Cardinality(N')
    BY <1>5, <1>10, UnpinnableStat
  <2> QED BY <2>2, <2>3, <2>4
<1>12. numSlabs' = Cardinality(slabs')
  <2>1. IsFiniteSet(slabs)
    BY FS_Subset DEF TypeOK
  <2>2. slabs' = slabs \cup {s} /\ numSlabs = Cardinality(slabs)
        /\ numSlabs' = IF s \in slabs THEN numSlabs ELSE numSlabs + 1
    BY DEF PinSlabs, StatsExact
  <2>3. CASE s \in slabs
    <3>1. slabs' = slabs
      BY <2>2, <2>3
    <3> QED BY <2>2, <2>3, <3>1
  <2>4. CASE s \notin slabs
    BY <2>1, <2>2, <2>4, FS_AddElement
  <2> QED BY <2>3, <2>4
<1> QED
  BY <1>9, <1>11, <1>12, StatsParts

(* deleteOrphanedSlabs discounts the rows it deletes, by their class.       *)
LEMMA DeleteOrphanedSlabsStats ==
    ASSUME TypeOK, PinnedOnContractsHost, StatsExact,
           NEW S \in SUBSET Slabs, DeleteOrphanedSlabs(S)
    PROVE  StatsExact'
<1> USE ConstantsAssumption
<1> DEFINE gone == OrphanedBy(S)
           G == [k \in Hosts |-> {}]
           L == [k \in Hosts |-> OnHost(UnpinnedIn(gone), k)]
<1>1. /\ rows' = rows \ gone /\ gone \subseteq rows /\ gone \subseteq Roots
      /\ mapID' = [r \in Roots |-> IF r \in gone THEN NULL ELSE mapID[r]]
      /\ hostID' = [r \in Roots |-> IF r \in gone THEN NULL ELSE hostID[r]]
  BY DEF DeleteOrphanedSlabs, OrphanedBy, SetHost, SetMap, TypeOK
<1>2. /\ PinnedIn(gone) \in SUBSET P /\ {} \in SUBSET Roots
      /\ (P \ PinnedIn(gone)) \cap {} = {} /\ P' = (P \ PinnedIn(gone)) \cup {}
  BY <1>1, HostlessUnpinned DEF P, PinnedIn, UnpinnedIn, UnpinnableIn, TypeOK, PinnedOnContractsHost, MapIDs
<1>3. /\ UnpinnedIn(gone) \in SUBSET U /\ {} \in SUBSET Roots
      /\ (U \ UnpinnedIn(gone)) \cap {} = {} /\ U' = (U \ UnpinnedIn(gone)) \cup {}
  BY <1>1, HostlessUnpinned DEF U, PinnedIn, UnpinnedIn, UnpinnableIn, TypeOK, PinnedOnContractsHost, MapIDs
<1>4. /\ UnpinnableIn(gone) \in SUBSET N /\ {} \in SUBSET Roots
      /\ (N \ UnpinnableIn(gone)) \cap {} = {} /\ N' = (N \ UnpinnableIn(gone)) \cup {}
  BY <1>1, HostlessUnpinned DEF N, PinnedIn, UnpinnedIn, UnpinnableIn, TypeOK, PinnedOnContractsHost, MapIDs
<1>5. ASSUME NEW k \in Hosts
      PROVE  /\ L[k] \subseteq UH(k) /\ (UH(k) \ L[k]) \cap G[k] = {}
             /\ UH(k)' = (UH(k) \ L[k]) \cup G[k]
             /\ L[k] \in SUBSET Roots /\ G[k] \in SUBSET Roots
  BY <1>1, HostlessUnpinned DEF UH, OnHost, PinnedIn, UnpinnedIn, UnpinnableIn, TypeOK, PinnedOnContractsHost, MapIDs
<1>6. hostUnpinned' = [k \in Hosts |-> hostUnpinned[k] + Cardinality(G[k]) - Cardinality(L[k])]
  BY DEF DeleteOrphanedSlabs, MoveHostUnpinned, NoSectors
<1>7. hostUnpinned' = [k \in Hosts |-> Cardinality(UH(k)')]
  <2>1. G \in [Hosts -> SUBSET Roots] /\ L \in [Hosts -> SUBSET Roots]
    BY <1>5
  <2> HIDE DEF G, L
  <2> QED BY <1>5, <1>6, <2>1, HostStats
<1>8. numPinned \in Nat /\ numUnpinned \in Nat /\ numUnpinnable \in Nat
  BY ClassTypes, RootSets DEF StatsExact, P, U, N
<1>9. /\ Cardinality(PinnedIn(gone)) \in Nat /\ Cardinality(UnpinnedIn(gone)) \in Nat
      /\ Cardinality(UnpinnableIn(gone)) \in Nat
  BY <1>1, RootSets DEF PinnedIn, UnpinnedIn, UnpinnableIn
<1>10. /\ numPinned' = numPinned + Cardinality({}) - Cardinality(PinnedIn(gone))
       /\ numUnpinned' = numUnpinned + Cardinality({}) - Cardinality(UnpinnedIn(gone))
       /\ numUnpinnable' = numUnpinnable + Cardinality({}) - Cardinality(UnpinnableIn(gone))
  <2>1. /\ numPinned' = numPinned - Cardinality(PinnedIn(gone))
        /\ numUnpinned' = numUnpinned - Cardinality(UnpinnedIn(gone))
        /\ numUnpinnable' = numUnpinnable - Cardinality(UnpinnableIn(gone))
    BY DEF DeleteOrphanedSlabs
  <2> HIDE DEF gone
  <2> QED BY <1>8, <1>9, <2>1, NoCards
<1>11. numPinned' = Cardinality(P')
  BY <1>2, <1>10, PinnedStat
<1>12. numUnpinned' = Cardinality(U')
  BY <1>3, <1>10, UnpinnedStat
<1>13. numUnpinnable' = Cardinality(N')
  BY <1>4, <1>10, UnpinnableStat
<1>14. numSlabs' = Cardinality(slabs')
  <2>1. /\ numSlabs = Cardinality(slabs) /\ slabs' = slabs \ S /\ S \subseteq slabs
        /\ numSlabs' = numSlabs - Cardinality(S)
    BY DEF DeleteOrphanedSlabs, StatsExact
  <2>2. IsFiniteSet(slabs)
    BY FS_Subset DEF TypeOK
  <2>3. Cardinality(slabs \ S) = Cardinality(slabs) - Cardinality(slabs \cap S)
    BY <2>2, FS_Difference
  <2>4. slabs \cap S = S
    BY <2>1
  <2> QED BY <2>1, <2>3, <2>4
<1> QED
  BY <1>7, <1>11, <1>12, <1>13, <1>14, StatsParts

(* PinSectors moves its unpinned and unpinnable rows to the pinned ones.    *)
LEMMA PinSectorsStats ==
    ASSUME TypeOK, PinnedOnContractsHost, StatsExact,
           NEW c \in Contracts, NEW R \in SUBSET Roots, PinSectors(c, R)
    PROVE  StatsExact'
<1> USE ConstantsAssumption
<1>0. PICK m \in MapIDs :
        LET sel == Pinnable(c, m, R)
        IN  /\ SetHost(sel, HostOf[c]) /\ SetMap(sel, m)
            /\ numPinned' = numPinned + Cardinality(UnpinnedIn(sel))
                                      + Cardinality(UnpinnableIn(sel))
            /\ numUnpinned' = numUnpinned - Cardinality(UnpinnedIn(sel))
            /\ numUnpinnable' = numUnpinnable - Cardinality(UnpinnableIn(sel))
            /\ LET Off(h) == IF h = HostOf[c] THEN UnpinnedIn(sel) ELSE {}
               IN  MoveHostUnpinned(NoSectors, Off)
            /\ UNCHANGED <<slabs, rows, numSlabs>>
  BY DEF PinSectors
<1> DEFINE sel == Pinnable(c, m, R)
           both == UnpinnedIn(sel) \cup UnpinnableIn(sel)
           G == [k \in Hosts |-> {}]
           L == [k \in Hosts |-> IF k = HostOf[c] THEN UnpinnedIn(sel) ELSE {}]
<1>1. /\ rows' = rows /\ sel \subseteq rows /\ sel \subseteq Roots /\ m # NULL
      /\ mapID' = [r \in Roots |-> IF r \in sel THEN m ELSE mapID[r]]
      /\ hostID' = [r \in Roots |-> IF r \in sel THEN HostOf[c] ELSE hostID[r]]
      /\ HostOf[c] \in Hosts /\ HostOf[c] # NULL
      /\ \A r \in sel : hostID[r] \in {NULL, HostOf[c]}
  <2>1. /\ rows' = rows
        /\ mapID' = [r \in Roots |-> IF r \in sel THEN m ELSE mapID[r]]
        /\ hostID' = [r \in Roots |-> IF r \in sel THEN HostOf[c] ELSE hostID[r]]
    BY <1>0 DEF SetHost, SetMap
  <2>2. sel \subseteq rows /\ sel \subseteq Roots
    BY DEF Pinnable
  <2>3. \A r \in sel : hostID[r] \in {NULL, HostOf[c]}
    BY DEF Pinnable
  <2>4. m # NULL /\ HostOf[c] \in Hosts /\ HostOf[c] # NULL
    BY DEF MapIDs
  <2> HIDE DEF sel
  <2> QED BY <2>1, <2>2, <2>3, <2>4
<1>2. /\ {} \in SUBSET P /\ both \in SUBSET Roots
      /\ (P \ {}) \cap both = {} /\ P' = (P \ {}) \cup both
  BY <1>1, HostlessUnpinned DEF P, PinnedIn, UnpinnedIn, UnpinnableIn, TypeOK, PinnedOnContractsHost, MapIDs
<1>3. /\ UnpinnedIn(sel) \in SUBSET U /\ {} \in SUBSET Roots
      /\ (U \ UnpinnedIn(sel)) \cap {} = {} /\ U' = (U \ UnpinnedIn(sel)) \cup {}
  BY <1>1, HostlessUnpinned DEF U, PinnedIn, UnpinnedIn, UnpinnableIn, TypeOK, PinnedOnContractsHost, MapIDs
<1>4. /\ UnpinnableIn(sel) \in SUBSET N /\ {} \in SUBSET Roots
      /\ (N \ UnpinnableIn(sel)) \cap {} = {} /\ N' = (N \ UnpinnableIn(sel)) \cup {}
  BY <1>1, HostlessUnpinned DEF N, PinnedIn, UnpinnedIn, UnpinnableIn, TypeOK, PinnedOnContractsHost, MapIDs
<1>5. ASSUME NEW k \in Hosts
      PROVE  /\ L[k] \subseteq UH(k) /\ (UH(k) \ L[k]) \cap G[k] = {}
             /\ UH(k)' = (UH(k) \ L[k]) \cup G[k]
             /\ L[k] \in SUBSET Roots /\ G[k] \in SUBSET Roots
  BY <1>1, HostlessUnpinned DEF UH, OnHost, PinnedIn, UnpinnedIn, UnpinnableIn, TypeOK, PinnedOnContractsHost, MapIDs
<1>6. hostUnpinned' = [k \in Hosts |-> hostUnpinned[k] + Cardinality(G[k]) - Cardinality(L[k])]
  BY <1>0 DEF MoveHostUnpinned, NoSectors
<1>7. hostUnpinned' = [k \in Hosts |-> Cardinality(UH(k)')]
  <2>1. G \in [Hosts -> SUBSET Roots] /\ L \in [Hosts -> SUBSET Roots]
    BY <1>5
  <2> HIDE DEF G, L
  <2> QED BY <1>5, <1>6, <2>1, HostStats
<1>8. numPinned \in Nat /\ numUnpinned \in Nat /\ numUnpinnable \in Nat
  BY ClassTypes, RootSets DEF StatsExact, P, U, N
<1>9. /\ Cardinality(both) = Cardinality(UnpinnedIn(sel)) + Cardinality(UnpinnableIn(sel))
      /\ Cardinality(UnpinnedIn(sel)) \in Nat /\ Cardinality(UnpinnableIn(sel)) \in Nat
  <2>1. /\ UnpinnedIn(sel) \in SUBSET Roots /\ UnpinnableIn(sel) \in SUBSET Roots
        /\ UnpinnedIn(sel) \cap UnpinnableIn(sel) = {}
    BY <1>1 DEF UnpinnedIn, UnpinnableIn
  <2> HIDE DEF sel
  <2> QED BY <2>1, DisjointRows
<1>10. /\ numPinned' = numPinned + Cardinality(both) - Cardinality({})
       /\ numUnpinned' = numUnpinned + Cardinality({}) - Cardinality(UnpinnedIn(sel))
       /\ numUnpinnable' = numUnpinnable + Cardinality({}) - Cardinality(UnpinnableIn(sel))
  <2>1. /\ numPinned' = numPinned + Cardinality(UnpinnedIn(sel)) + Cardinality(UnpinnableIn(sel))
        /\ numUnpinned' = numUnpinned - Cardinality(UnpinnedIn(sel))
        /\ numUnpinnable' = numUnpinnable - Cardinality(UnpinnableIn(sel))
    BY <1>0
  <2> HIDE DEF sel, both
  <2> QED BY <1>8, <1>9, <2>1, NoCards
<1>11. numPinned' = Cardinality(P')
  BY <1>2, <1>10, PinnedStat
<1>12. numUnpinned' = Cardinality(U')
  BY <1>3, <1>10, UnpinnedStat
<1>13. numUnpinnable' = Cardinality(N')
  BY <1>4, <1>10, UnpinnableStat
<1>14. numSlabs' = Cardinality(slabs')
  BY <1>0 DEF StatsExact
<1> QED
  BY <1>7, <1>11, <1>12, <1>13, <1>14, StatsParts

(* Losing sectors moves pinned and unpinned rows to the unpinnable ones.    *)
LEMMA LoseSectorsStats ==
    ASSUME TypeOK, PinnedOnContractsHost, StatsExact,
           NEW h \in Hosts, NEW sel \in SUBSET OnHost(rows, h), LoseSectors(h, sel)
    PROVE  StatsExact'
<1> USE ConstantsAssumption
<1> DEFINE both == PinnedIn(sel) \cup UnpinnedIn(sel)
           G == [k \in Hosts |-> {}]
           L == [k \in Hosts |-> IF k = h THEN UnpinnedIn(sel) ELSE {}]
<1>1. /\ rows' = rows /\ sel \subseteq Roots /\ sel \subseteq rows
      /\ \A r \in sel : hostID[r] = h
      /\ mapID' = [r \in Roots |-> IF r \in sel THEN NULL ELSE mapID[r]]
      /\ hostID' = [r \in Roots |-> IF r \in sel THEN NULL ELSE hostID[r]]
  BY DEF LoseSectors, SetHost, SetMap, TypeOK, OnHost
<1>2. /\ PinnedIn(sel) \in SUBSET P /\ {} \in SUBSET Roots
      /\ (P \ PinnedIn(sel)) \cap {} = {} /\ P' = (P \ PinnedIn(sel)) \cup {}
  BY <1>1, HostlessUnpinned DEF P, PinnedIn, UnpinnedIn, UnpinnableIn, TypeOK, PinnedOnContractsHost, MapIDs
<1>3. /\ UnpinnedIn(sel) \in SUBSET U /\ {} \in SUBSET Roots
      /\ (U \ UnpinnedIn(sel)) \cap {} = {} /\ U' = (U \ UnpinnedIn(sel)) \cup {}
  BY <1>1, HostlessUnpinned DEF U, PinnedIn, UnpinnedIn, UnpinnableIn, TypeOK, PinnedOnContractsHost, MapIDs
<1>4. /\ {} \in SUBSET N /\ both \in SUBSET Roots
      /\ (N \ {}) \cap both = {} /\ N' = (N \ {}) \cup both
  BY <1>1, HostlessUnpinned DEF N, PinnedIn, UnpinnedIn, UnpinnableIn, TypeOK, PinnedOnContractsHost, MapIDs
<1>5. ASSUME NEW k \in Hosts
      PROVE  /\ L[k] \subseteq UH(k) /\ (UH(k) \ L[k]) \cap G[k] = {}
             /\ UH(k)' = (UH(k) \ L[k]) \cup G[k]
             /\ L[k] \in SUBSET Roots /\ G[k] \in SUBSET Roots
  BY <1>1, HostlessUnpinned DEF UH, OnHost, PinnedIn, UnpinnedIn, UnpinnableIn, TypeOK, PinnedOnContractsHost, MapIDs
<1>6. hostUnpinned' = [k \in Hosts |-> hostUnpinned[k] + Cardinality(G[k]) - Cardinality(L[k])]
  BY DEF LoseSectors, MoveHostUnpinned, NoSectors
<1>7. hostUnpinned' = [k \in Hosts |-> Cardinality(UH(k)')]
  <2>1. G \in [Hosts -> SUBSET Roots] /\ L \in [Hosts -> SUBSET Roots]
    BY <1>5
  <2> HIDE DEF G, L
  <2> QED BY <1>5, <1>6, <2>1, HostStats
<1>8. numPinned \in Nat /\ numUnpinned \in Nat /\ numUnpinnable \in Nat
  BY ClassTypes, RootSets DEF StatsExact, P, U, N
<1>9. /\ Cardinality(both) = Cardinality(PinnedIn(sel)) + Cardinality(UnpinnedIn(sel))
      /\ Cardinality(PinnedIn(sel)) \in Nat /\ Cardinality(UnpinnedIn(sel)) \in Nat
  <2>1. /\ PinnedIn(sel) \in SUBSET Roots /\ UnpinnedIn(sel) \in SUBSET Roots
        /\ PinnedIn(sel) \cap UnpinnedIn(sel) = {}
    BY <1>1 DEF PinnedIn, UnpinnedIn
  <2> QED BY <2>1, DisjointRows
<1>10. /\ numPinned' = numPinned + Cardinality({}) - Cardinality(PinnedIn(sel))
       /\ numUnpinned' = numUnpinned + Cardinality({}) - Cardinality(UnpinnedIn(sel))
       /\ numUnpinnable' = numUnpinnable + Cardinality(both) - Cardinality({})
  <2>1. /\ numPinned' = numPinned - Cardinality(PinnedIn(sel))
        /\ numUnpinned' = numUnpinned - Cardinality(UnpinnedIn(sel))
        /\ numUnpinnable' = numUnpinnable + Cardinality(PinnedIn(sel)) + Cardinality(UnpinnedIn(sel))
    BY DEF LoseSectors
  <2> HIDE DEF both
  <2> QED BY <1>8, <1>9, <2>1, NoCards
<1>11. numPinned' = Cardinality(P')
  BY <1>2, <1>10, PinnedStat
<1>12. numUnpinned' = Cardinality(U')
  BY <1>3, <1>10, UnpinnedStat
<1>13. numUnpinnable' = Cardinality(N')
  BY <1>4, <1>10, UnpinnableStat
<1>14. numSlabs' = Cardinality(slabs')
  BY DEF LoseSectors, StatsExact
<1> QED
  BY <1>7, <1>11, <1>12, <1>13, <1>14, StatsParts

(* MigrateSector makes one row unpinned on its new host, whatever it was.   *)
LEMMA MigrateSectorStats ==
    ASSUME TypeOK, PinnedOnContractsHost, StatsExact,
           NEW r \in Roots, NEW h \in Hosts, MigrateSector(r, h)
    PROVE  StatsExact'
<1> USE ConstantsAssumption
<1> DEFINE new == PinnedIn({r}) \cup UnpinnableIn({r})
           G == [k \in Hosts |-> IF k = h THEN {r} ELSE {}]
           L == [k \in Hosts |-> OnHost(UnpinnedIn({r}), k)]
<1>1. /\ rows' = rows /\ r \in rows /\ h # NULL
      /\ mapID' = [q \in Roots |-> IF q \in {r} THEN NULL ELSE mapID[q]]
      /\ hostID' = [q \in Roots |-> IF q \in {r} THEN h ELSE hostID[q]]
  BY DEF MigrateSector, SetHost, SetMap, TypeOK
<1>2. /\ PinnedIn({r}) \in SUBSET P /\ {} \in SUBSET Roots
      /\ (P \ PinnedIn({r})) \cap {} = {} /\ P' = (P \ PinnedIn({r})) \cup {}
  BY <1>1, HostlessUnpinned DEF P, PinnedIn, UnpinnedIn, UnpinnableIn, TypeOK, PinnedOnContractsHost, MapIDs
<1>3. /\ {} \in SUBSET U /\ new \in SUBSET Roots
      /\ (U \ {}) \cap new = {} /\ U' = (U \ {}) \cup new
  BY <1>1, HostlessUnpinned DEF U, PinnedIn, UnpinnedIn, UnpinnableIn, TypeOK, PinnedOnContractsHost, MapIDs
<1>4. /\ UnpinnableIn({r}) \in SUBSET N /\ {} \in SUBSET Roots
      /\ (N \ UnpinnableIn({r})) \cap {} = {} /\ N' = (N \ UnpinnableIn({r})) \cup {}
  BY <1>1, HostlessUnpinned DEF N, PinnedIn, UnpinnedIn, UnpinnableIn, TypeOK, PinnedOnContractsHost, MapIDs
<1>5. ASSUME NEW k \in Hosts
      PROVE  /\ L[k] \subseteq UH(k) /\ (UH(k) \ L[k]) \cap G[k] = {}
             /\ UH(k)' = (UH(k) \ L[k]) \cup G[k]
             /\ L[k] \in SUBSET Roots /\ G[k] \in SUBSET Roots
  BY <1>1, HostlessUnpinned DEF UH, OnHost, PinnedIn, UnpinnedIn, UnpinnableIn, TypeOK, PinnedOnContractsHost, MapIDs
<1>6. hostUnpinned' = [k \in Hosts |-> hostUnpinned[k] + Cardinality(G[k]) - Cardinality(L[k])]
  BY DEF MigrateSector, MoveHostUnpinned
<1>7. hostUnpinned' = [k \in Hosts |-> Cardinality(UH(k)')]
  <2>1. G \in [Hosts -> SUBSET Roots] /\ L \in [Hosts -> SUBSET Roots]
    BY <1>5
  <2> HIDE DEF G, L
  <2> QED BY <1>5, <1>6, <2>1, HostStats
<1>8. numPinned \in Nat /\ numUnpinned \in Nat /\ numUnpinnable \in Nat
  BY ClassTypes, RootSets DEF StatsExact, P, U, N
<1>9. /\ Cardinality(new) = Cardinality(PinnedIn({r})) + Cardinality(UnpinnableIn({r}))
      /\ Cardinality(PinnedIn({r})) \in Nat /\ Cardinality(UnpinnableIn({r})) \in Nat
  <2>1. /\ PinnedIn({r}) \in SUBSET Roots /\ UnpinnableIn({r}) \in SUBSET Roots
        /\ PinnedIn({r}) \cap UnpinnableIn({r}) = {}
    BY <1>1 DEF PinnedIn, UnpinnableIn
  <2> QED BY <2>1, DisjointRows
<1>10. /\ numPinned' = numPinned + Cardinality({}) - Cardinality(PinnedIn({r}))
       /\ numUnpinned' = numUnpinned + Cardinality(new) - Cardinality({})
       /\ numUnpinnable' = numUnpinnable + Cardinality({}) - Cardinality(UnpinnableIn({r}))
  <2>1. /\ numPinned' = numPinned - Cardinality(PinnedIn({r}))
        /\ numUnpinned' = numUnpinned + Cardinality(PinnedIn({r})) + Cardinality(UnpinnableIn({r}))
        /\ numUnpinnable' = numUnpinnable - Cardinality(UnpinnableIn({r}))
    BY DEF MigrateSector
  <2> HIDE DEF new
  <2> QED BY <1>8, <1>9, <2>1, NoCards
<1>11. numPinned' = Cardinality(P')
  BY <1>2, <1>10, PinnedStat
<1>12. numUnpinned' = Cardinality(U')
  BY <1>3, <1>10, UnpinnedStat
<1>13. numUnpinnable' = Cardinality(N')
  BY <1>4, <1>10, UnpinnableStat
<1>14. numSlabs' = Cardinality(slabs')
  BY DEF MigrateSector, StatsExact
<1> QED
  BY <1>7, <1>11, <1>12, <1>13, <1>14, StatsParts

(* Giving up unpinned rows makes them unpinnable.                           *)
LEMMA DetachUnpinnedStats ==
    ASSUME TypeOK, PinnedOnContractsHost, StatsExact,
           NEW sel \in SUBSET UnpinnedIn(rows), DetachUnpinned(sel)
    PROVE  StatsExact'
<1> USE ConstantsAssumption
<1> DEFINE G == [k \in Hosts |-> {}]
           L == [k \in Hosts |-> OnHost(sel, k)]
<1>1. /\ rows' = rows /\ sel \subseteq Roots /\ sel \subseteq rows /\ mapID' = mapID
      /\ hostID' = [r \in Roots |-> IF r \in sel THEN NULL ELSE hostID[r]]
      /\ \A r \in sel : mapID[r] = NULL /\ hostID[r] # NULL
  BY DEF DetachUnpinned, SetHost, TypeOK, UnpinnedIn
<1>2. /\ {} \in SUBSET P /\ {} \in SUBSET Roots
      /\ (P \ {}) \cap {} = {} /\ P' = (P \ {}) \cup {}
  BY <1>1, HostlessUnpinned DEF P, PinnedIn, UnpinnedIn, UnpinnableIn, TypeOK, PinnedOnContractsHost, MapIDs
<1>3. /\ sel \in SUBSET U /\ {} \in SUBSET Roots
      /\ (U \ sel) \cap {} = {} /\ U' = (U \ sel) \cup {}
  BY <1>1, HostlessUnpinned DEF U, PinnedIn, UnpinnedIn, UnpinnableIn, TypeOK, PinnedOnContractsHost, MapIDs
<1>4. /\ {} \in SUBSET N /\ sel \in SUBSET Roots
      /\ (N \ {}) \cap sel = {} /\ N' = (N \ {}) \cup sel
  BY <1>1, HostlessUnpinned DEF N, PinnedIn, UnpinnedIn, UnpinnableIn, TypeOK, PinnedOnContractsHost, MapIDs
<1>5. ASSUME NEW k \in Hosts
      PROVE  /\ L[k] \subseteq UH(k) /\ (UH(k) \ L[k]) \cap G[k] = {}
             /\ UH(k)' = (UH(k) \ L[k]) \cup G[k]
             /\ L[k] \in SUBSET Roots /\ G[k] \in SUBSET Roots
  BY <1>1, HostlessUnpinned DEF UH, OnHost, PinnedIn, UnpinnedIn, UnpinnableIn, TypeOK, PinnedOnContractsHost, MapIDs
<1>6. hostUnpinned' = [k \in Hosts |-> hostUnpinned[k] + Cardinality(G[k]) - Cardinality(L[k])]
  BY DEF DetachUnpinned, MoveHostUnpinned, NoSectors
<1>7. hostUnpinned' = [k \in Hosts |-> Cardinality(UH(k)')]
  <2>1. G \in [Hosts -> SUBSET Roots] /\ L \in [Hosts -> SUBSET Roots]
    BY <1>5
  <2> HIDE DEF G, L
  <2> QED BY <1>5, <1>6, <2>1, HostStats
<1>8. numPinned \in Nat /\ numUnpinned \in Nat /\ numUnpinnable \in Nat
  BY ClassTypes, RootSets DEF StatsExact, P, U, N
<1>9. Cardinality(sel) \in Nat
  BY <1>1, RootSets
<1>10. /\ numPinned' = numPinned + Cardinality({}) - Cardinality({})
       /\ numUnpinned' = numUnpinned + Cardinality({}) - Cardinality(sel)
       /\ numUnpinnable' = numUnpinnable + Cardinality(sel) - Cardinality({})
  BY <1>8, <1>9, NoCards DEF DetachUnpinned
<1>11. numPinned' = Cardinality(P')
  BY <1>2, <1>10, PinnedStat
<1>12. numUnpinned' = Cardinality(U')
  BY <1>3, <1>10, UnpinnedStat
<1>13. numUnpinnable' = Cardinality(N')
  BY <1>4, <1>10, UnpinnableStat
<1>14. numSlabs' = Cardinality(slabs')
  BY DEF DetachUnpinned, StatsExact
<1> QED
  BY <1>7, <1>11, <1>12, <1>13, <1>14, StatsParts

(* DeleteContract makes the contract's rows unpinned on the contract's host, *)
(* which is the host they are stored on.                                    *)
LEMMA DeleteContractStats ==
    ASSUME TypeOK, PinnedOnContractsHost, StatsExact,
           NEW c \in Contracts, DeleteContract(c)
    PROVE  StatsExact'
<1> USE ConstantsAssumption
<1>0. PICK m \in MapIDs :
        LET sel == {r \in rows : mapID[r] = m}
        IN  /\ csm[m] = c
            /\ SetMap(sel, NULL)
            /\ numPinned' = numPinned - Cardinality(sel)
            /\ numUnpinned' = numUnpinned + Cardinality(sel)
            /\ LET On(h) == IF h = HostOf[c] THEN sel ELSE {}
               IN  MoveHostUnpinned(On, NoSectors)
            /\ UNCHANGED <<slabs, rows, hostID, numSlabs, numUnpinnable>>
  BY DEF DeleteContract
<1> DEFINE sel == {r \in rows : mapID[r] = m}
           G == [k \in Hosts |-> IF k = HostOf[c] THEN sel ELSE {}]
           L == [k \in Hosts |-> {}]
<1>1. /\ rows' = rows /\ sel \subseteq Roots /\ sel \subseteq rows /\ hostID' = hostID
      /\ mapID' = [r \in Roots |-> IF r \in sel THEN NULL ELSE mapID[r]]
      /\ \A r \in sel : mapID[r] # NULL /\ hostID[r] = HostOf[c]
      /\ HostOf[c] # NULL
  <2>1. m # NULL /\ csm[m] = c /\ HostOf[c] \in Hosts
    BY <1>0 DEF MapIDs
  <2>2. /\ rows' = rows /\ hostID' = hostID
        /\ mapID' = [r \in Roots |-> IF r \in sel THEN NULL ELSE mapID[r]]
    BY <1>0 DEF SetMap
  <2>3. \A r \in sel : r \in rows /\ mapID[r] = m
    OBVIOUS
  <2>4. \A r \in sel : mapID[r] # NULL /\ hostID[r] = HostOf[c]
    BY <2>1, <2>3 DEF PinnedOnContractsHost
  <2> QED BY <2>1, <2>2, <2>3, <2>4 DEF TypeOK
<1>2. /\ sel \in SUBSET P /\ {} \in SUBSET Roots
      /\ (P \ sel) \cap {} = {} /\ P' = (P \ sel) \cup {}
  BY <1>1, HostlessUnpinned DEF P, PinnedIn, UnpinnedIn, UnpinnableIn, TypeOK, PinnedOnContractsHost, MapIDs
<1>3. /\ {} \in SUBSET U /\ sel \in SUBSET Roots
      /\ (U \ {}) \cap sel = {} /\ U' = (U \ {}) \cup sel
  BY <1>1, HostlessUnpinned DEF U, PinnedIn, UnpinnedIn, UnpinnableIn, TypeOK, PinnedOnContractsHost, MapIDs
<1>4. /\ {} \in SUBSET N /\ {} \in SUBSET Roots
      /\ (N \ {}) \cap {} = {} /\ N' = (N \ {}) \cup {}
  BY <1>1, HostlessUnpinned DEF N, PinnedIn, UnpinnedIn, UnpinnableIn, TypeOK, PinnedOnContractsHost, MapIDs
<1>5. ASSUME NEW k \in Hosts
      PROVE  /\ L[k] \subseteq UH(k) /\ (UH(k) \ L[k]) \cap G[k] = {}
             /\ UH(k)' = (UH(k) \ L[k]) \cup G[k]
             /\ L[k] \in SUBSET Roots /\ G[k] \in SUBSET Roots
  BY <1>1, HostlessUnpinned DEF UH, OnHost, PinnedIn, UnpinnedIn, UnpinnableIn, TypeOK, PinnedOnContractsHost, MapIDs
<1>6. hostUnpinned' = [k \in Hosts |-> hostUnpinned[k] + Cardinality(G[k]) - Cardinality(L[k])]
  BY <1>0 DEF MoveHostUnpinned, NoSectors
<1>7. hostUnpinned' = [k \in Hosts |-> Cardinality(UH(k)')]
  <2>1. G \in [Hosts -> SUBSET Roots] /\ L \in [Hosts -> SUBSET Roots]
    BY <1>5
  <2> HIDE DEF G, L
  <2> QED BY <1>5, <1>6, <2>1, HostStats
<1>8. numPinned \in Nat /\ numUnpinned \in Nat /\ numUnpinnable \in Nat
  BY ClassTypes, RootSets DEF StatsExact, P, U, N
<1>9. Cardinality(sel) \in Nat
  BY <1>1, RootSets
<1>10. /\ numPinned' = numPinned + Cardinality({}) - Cardinality(sel)
       /\ numUnpinned' = numUnpinned + Cardinality(sel) - Cardinality({})
       /\ numUnpinnable' = numUnpinnable + Cardinality({}) - Cardinality({})
  <2>1. /\ numPinned' = numPinned - Cardinality(sel)
        /\ numUnpinned' = numUnpinned + Cardinality(sel)
        /\ numUnpinnable' = numUnpinnable
    BY <1>0
  <2> HIDE DEF sel
  <2> QED BY <1>8, <1>9, <2>1, NoCards
<1>11. numPinned' = Cardinality(P')
  BY <1>2, <1>10, PinnedStat
<1>12. numUnpinned' = Cardinality(U')
  BY <1>3, <1>10, UnpinnedStat
<1>13. numUnpinnable' = Cardinality(N')
  BY <1>4, <1>10, UnpinnableStat
<1>14. numSlabs' = Cardinality(slabs')
  BY <1>0 DEF StatsExact
<1> QED
  BY <1>7, <1>11, <1>12, <1>13, <1>14, StatsParts

(* PruneContractSectorsMap moves pinned rows straight to the unpinnable ones. *)
LEMMA PruneMapStats ==
    ASSUME TypeOK, PinnedOnContractsHost, StatsExact,
           PruneContractSectorsMap
    PROVE  StatsExact'
<1> USE ConstantsAssumption
<1> DEFINE toPrune == {m \in MapIDs : /\ csm[m] # NULL
                                       /\ height >= ExpirationHeight[csm[m]] + PruneBuffer}
           sel     == {r \in rows : mapID[r] \in toPrune}
           G == [k \in Hosts |-> {}]
           L == [k \in Hosts |-> {}]
<1>1. /\ rows' = rows /\ sel \subseteq Roots /\ sel \subseteq rows
      /\ mapID' = [r \in Roots |-> IF r \in sel THEN NULL ELSE mapID[r]]
      /\ hostID' = [r \in Roots |-> IF r \in sel THEN NULL ELSE hostID[r]]
      /\ \A r \in sel : mapID[r] # NULL
  BY DEF PruneContractSectorsMap, SetHost, SetMap, TypeOK, MapIDs
<1>2. /\ sel \in SUBSET P /\ {} \in SUBSET Roots
      /\ (P \ sel) \cap {} = {} /\ P' = (P \ sel) \cup {}
  BY <1>1, HostlessUnpinned DEF P, PinnedIn, UnpinnedIn, UnpinnableIn, TypeOK, PinnedOnContractsHost, MapIDs
<1>3. /\ {} \in SUBSET U /\ {} \in SUBSET Roots
      /\ (U \ {}) \cap {} = {} /\ U' = (U \ {}) \cup {}
  BY <1>1, HostlessUnpinned DEF U, PinnedIn, UnpinnedIn, UnpinnableIn, TypeOK, PinnedOnContractsHost, MapIDs
<1>4. /\ {} \in SUBSET N /\ sel \in SUBSET Roots
      /\ (N \ {}) \cap sel = {} /\ N' = (N \ {}) \cup sel
  BY <1>1, HostlessUnpinned DEF N, PinnedIn, UnpinnedIn, UnpinnableIn, TypeOK, PinnedOnContractsHost, MapIDs
<1>5. ASSUME NEW k \in Hosts
      PROVE  /\ L[k] \subseteq UH(k) /\ (UH(k) \ L[k]) \cap G[k] = {}
             /\ UH(k)' = (UH(k) \ L[k]) \cup G[k]
             /\ L[k] \in SUBSET Roots /\ G[k] \in SUBSET Roots
  BY <1>1, HostlessUnpinned DEF UH, OnHost, PinnedIn, UnpinnedIn, UnpinnableIn, TypeOK, PinnedOnContractsHost, MapIDs
<1>6. hostUnpinned' = [k \in Hosts |-> hostUnpinned[k] + Cardinality(G[k]) - Cardinality(L[k])]
  <2>1. hostUnpinned' = hostUnpinned
    BY DEF PruneContractSectorsMap
  <2>2. \A k \in Hosts : hostUnpinned[k] \in Nat /\ G[k] = {} /\ L[k] = {}
    BY ClassTypes, RootSets DEF StatsExact, UH
  <2>3. hostUnpinned = [k \in Hosts |-> hostUnpinned[k]]
    BY DEF StatsExact
  <2>4. \A k \in Hosts : hostUnpinned[k] + Cardinality(G[k]) - Cardinality(L[k]) = hostUnpinned[k]
    BY <2>2, NoCards
  <2> HIDE DEF G, L
  <2> QED BY <2>1, <2>3, <2>4
<1>7. hostUnpinned' = [k \in Hosts |-> Cardinality(UH(k)')]
  <2>1. G \in [Hosts -> SUBSET Roots] /\ L \in [Hosts -> SUBSET Roots]
    BY <1>5
  <2> HIDE DEF G, L
  <2> QED BY <1>5, <1>6, <2>1, HostStats
<1>8. numPinned \in Nat /\ numUnpinned \in Nat /\ numUnpinnable \in Nat
  BY ClassTypes, RootSets DEF StatsExact, P, U, N
<1>9. Cardinality(sel) \in Nat
  BY <1>1, RootSets
<1>10. /\ numPinned' = numPinned + Cardinality({}) - Cardinality(sel)
       /\ numUnpinned' = numUnpinned + Cardinality({}) - Cardinality({})
       /\ numUnpinnable' = numUnpinnable + Cardinality(sel) - Cardinality({})
  <2>1. /\ numPinned' = numPinned - Cardinality(sel)
        /\ numUnpinned' = numUnpinned
        /\ numUnpinnable' = numUnpinnable + Cardinality(sel)
    BY DEF PruneContractSectorsMap
  <2> HIDE DEF sel
  <2> QED BY <1>8, <1>9, <2>1, NoCards
<1>11. numPinned' = Cardinality(P')
  BY <1>2, <1>10, PinnedStat
<1>12. numUnpinned' = Cardinality(U')
  BY <1>3, <1>10, UnpinnedStat
<1>13. numUnpinnable' = Cardinality(N')
  BY <1>4, <1>10, UnpinnableStat
<1>14. numSlabs' = Cardinality(slabs')
  BY DEF PruneContractSectorsMap, StatsExact
<1> QED
  BY <1>7, <1>11, <1>12, <1>13, <1>14, StatsParts


(* Every step keeps the statistics exact.                                   *)
LEMMA StatsStep ==
    TypeOK /\ PinnedOnContractsHost /\ StatsExact /\ [Next]_vars => StatsExact'
<1> SUFFICES ASSUME TypeOK, PinnedOnContractsHost, StatsExact, [Next]_vars
             PROVE  StatsExact'
  OBVIOUS
<1>1. CASE \E s \in Slabs : \E place \in [SlabRoots[s] -> Hosts] : PinSlabs(s, place)
  BY <1>1, PinSlabsStats
<1>2. CASE \E S \in SUBSET Slabs : DeleteOrphanedSlabs(S)
  BY <1>2, DeleteOrphanedSlabsStats
<1>3. CASE \E c \in Contracts, R \in SUBSET Roots : PinSectors(c, R)
  BY <1>3, PinSectorsStats
<1>4. CASE \E h \in Hosts, R \in SUBSET Roots : MarkSectorsLost(h, R)
  <2>1. \E h \in Hosts : \E sel \in SUBSET OnHost(rows, h) : LoseSectors(h, sel)
    BY <1>4 DEF MarkSectorsLost, OnHost
  <2> QED BY <2>1, LoseSectorsStats
<1>5. CASE \E h \in Hosts : MarkFailingSectorsLost(h)
  <2>1. \E h \in Hosts : \E sel \in SUBSET OnHost(rows, h) : LoseSectors(h, sel)
    BY <1>5 DEF MarkFailingSectorsLost, IsBatchOf, OnHost
  <2> QED BY <2>1, LoseSectorsStats
<1>6. CASE \E r \in Roots, h \in Hosts : MigrateSector(r, h)
  BY <1>6, MigrateSectorStats
<1>7. CASE MarkSectorsUnpinnable
  <2>1. \E sel \in SUBSET UnpinnedIn(rows) : DetachUnpinned(sel)
    BY <1>7 DEF MarkSectorsUnpinnable, IsBatchOf
  <2> QED BY <2>1, DetachUnpinnedStats
<1>8. CASE \E h \in Hosts : BlockHost(h)
  <2>1. \E sel \in SUBSET UnpinnedIn(rows) : DetachUnpinned(sel)
    BY <1>8 DEF BlockHost, OnHost
  <2> QED BY <2>1, DetachUnpinnedStats
<1>9. CASE \E c \in Contracts : DeleteContract(c)
  BY <1>9, DeleteContractStats
<1>10. CASE PruneContractSectorsMap
  BY <1>10, PruneMapStats
<1>11. CASE UNCHANGED <<slabs, rows, hostID, mapID, statVars>>
  BY <1>11 DEF statVars, StatsExact, PinnedIn, UnpinnedIn, UnpinnableIn, OnHost
<1>12. (\E ok \in BOOLEAN, h \in Hosts, R \in SUBSET Roots : RecordIntegrityCheck(ok, h, R))
       => UNCHANGED <<slabs, rows, hostID, mapID, statVars>>
  BY DEF RecordIntegrityCheck
<1>13. (\E r \in Roots : Age(r)) => UNCHANGED <<slabs, rows, hostID, mapID, statVars>>
  BY DEF Age
<1>14. \/ \E c \in Contracts : AddFormedContract(c)
       \/ \E old, new \in Contracts : AddRenewedContract(old, new)
       \/ \E c \in Contracts : UpdateContractStatus(c)
       \/ \E n \in 0..MaxHeight : UpdateHeight(n)
       \/ \E h \in Hosts : ResetLostSectors(h)
       \/ UNCHANGED vars
       => UNCHANGED <<slabs, rows, hostID, mapID, statVars>>
  BY DEF AddFormedContract, AddRenewedContract, UpdateContractStatus, UpdateHeight,
         ResetLostSectors, sectorVars, vars
<1> QED
  BY <1>1, <1>2, <1>3, <1>4, <1>5, <1>6, <1>7, <1>8, <1>9, <1>10, <1>11, <1>12,
     <1>13, <1>14 DEF Next

-----------------------------------------------------------------------------
(***************************************************************************)
(* The inductive invariant and its consequences                            *)
(***************************************************************************)
IInv == TypeOK /\ PinnedOnContractsHost /\ SectorsOfSlabs /\ StatsExact

(* The initial state, an empty database, satisfies the invariant.           *)
LEMMA InitIInv == Init => IInv
<1> SUFFICES ASSUME Init PROVE IInv
  OBVIOUS
<1> USE ConstantsAssumption
<1>1. TypeOK /\ PinnedOnContractsHost /\ SectorsOfSlabs
  BY DEF Init, TypeOK, PinnedOnContractsHost, SectorsOfSlabs, MapIDs
<1>2. \A h : OnHost(UnpinnedIn(rows), h) = {}
  BY DEF Init, UnpinnedIn, OnHost
<1>3. PinnedIn(rows) = {} /\ UnpinnedIn(rows) = {} /\ UnpinnableIn(rows) = {}
  BY DEF Init, PinnedIn, UnpinnedIn, UnpinnableIn
<1>4. StatsExact
  BY <1>2, <1>3, NoCards DEF Init, StatsExact
<1> QED
  BY <1>1, <1>4 DEF IInv

(* The invariant holds in every reachable state.                            *)
THEOREM Invariance == Spec => []IInv
<1>1. IInv /\ [Next]_vars => IInv'
  BY TypeStep, PinnedStep, SlabsStep, StatsStep DEF IInv
<1> QED
  BY InitIInv, <1>1, PTL DEF Spec

(* Columns keep their types and foreign keys resolve.                       *)
THEOREM TypeCorrect == Spec => []TypeOK
<1>1. IInv => TypeOK
  BY DEF IInv
<1> QED
  BY Invariance, <1>1, PTL

(* A pinned sector is stored on the host of the contract it is pinned to.   *)
THEOREM PinnedSectorsOnContractsHost == Spec => []PinnedOnContractsHost
<1>1. IInv => PinnedOnContractsHost
  BY DEF IInv
<1> QED
  BY Invariance, <1>1, PTL

(* The statistics of slabs, sectors and hosts are exact, hence never        *)
(* negative.                                                                *)
THEOREM StatisticsExact == Spec => []StatsExact
<1>1. IInv => StatsExact
  BY DEF IInv
<1> QED
  BY Invariance, <1>1, PTL

(* Sector rows exist for exactly the sectors of the slabs in the database.  *)
THEOREM NoOrphanedSectors == Spec => []SectorsOfSlabs
<1>1. IInv => SectorsOfSlabs
  BY DEF IInv
<1> QED
  BY Invariance, <1>1, PTL

(* Steps other than PinSlabs, PinSectors and MigrateSector leave a sector   *)
(* where it is or take its host.                                            *)
LEMMA StaysOrLoses ==
    ASSUME TypeOK, [Next]_vars,
           ~\E s \in Slabs : \E place \in [SlabRoots[s] -> Hosts] : PinSlabs(s, place),
           ~\E c \in Contracts, R \in SUBSET Roots : PinSectors(c, R),
           ~\E q \in Roots, h \in Hosts : MigrateSector(q, h),
           NEW r \in rows
    PROVE  hostID'[r] \in {hostID[r], NULL}
<1>1. r \in Roots
  BY DEF TypeOK
<1>2. ASSUME NEW S, SetHost(S, NULL) PROVE hostID'[r] \in {hostID[r], NULL}
  BY <1>1, <1>2 DEF SetHost
<1>3. hostID' = hostID \/ \E S : SetHost(S, NULL)
  <2>1. ASSUME NEW S \in SUBSET Slabs, DeleteOrphanedSlabs(S) PROVE \E T : SetHost(T, NULL)
    BY <2>1 DEF DeleteOrphanedSlabs
  <2>2. ASSUME NEW h \in Hosts, NEW R \in SUBSET Roots, MarkSectorsLost(h, R)
        PROVE  \E T : SetHost(T, NULL)
    BY <2>2 DEF MarkSectorsLost, LoseSectors
  <2>3. ASSUME NEW h \in Hosts, MarkFailingSectorsLost(h) PROVE \E T : SetHost(T, NULL)
    BY <2>3 DEF MarkFailingSectorsLost, LoseSectors
  <2>4. ASSUME MarkSectorsUnpinnable PROVE \E T : SetHost(T, NULL)
    BY <2>4 DEF MarkSectorsUnpinnable, DetachUnpinned
  <2>5. ASSUME NEW h \in Hosts, BlockHost(h) PROVE \E T : SetHost(T, NULL)
    BY <2>5 DEF BlockHost, DetachUnpinned
  <2>6. ASSUME PruneContractSectorsMap PROVE \E T : SetHost(T, NULL)
    BY <2>6 DEF PruneContractSectorsMap
  <2>7. ASSUME \/ \E ok \in BOOLEAN, h \in Hosts, R \in SUBSET Roots : RecordIntegrityCheck(ok, h, R)
               \/ \E q \in Roots : Age(q)
               \/ \E c \in Contracts : AddFormedContract(c)
               \/ \E old, new \in Contracts : AddRenewedContract(old, new)
               \/ \E c \in Contracts : DeleteContract(c)
               \/ \E c \in Contracts : UpdateContractStatus(c)
               \/ \E n \in 0..MaxHeight : UpdateHeight(n)
               \/ \E h \in Hosts : ResetLostSectors(h)
               \/ UNCHANGED vars
        PROVE  hostID' = hostID
    BY <2>7 DEF RecordIntegrityCheck, Age, AddFormedContract, AddRenewedContract, DeleteContract,
                UpdateContractStatus, UpdateHeight, ResetLostSectors, vars, sectorVars
  <2> QED BY <2>1, <2>2, <2>3, <2>4, <2>5, <2>6, <2>7 DEF Next
<1> QED BY <1>2, <1>3

(* A sector goes from one host to another by MigrateSector alone, and is    *)
(* then unpinned, fresh and without failed checks, however late a PinSlabs  *)
(* or PinSectors call arrives.                                              *)
THEOREM OnlyMigrationsMove == Spec => MovedSectorStartsOver
<1>1. ASSUME TypeOK, [Next]_vars, NEW r \in rows,
             hostID[r] # NULL, hostID'[r] \notin {hostID[r], NULL}
      PROVE  mapID'[r] = NULL /\ failed'[r] = 0 /\ r \notin aged'
  <2>1. r \in Roots
    BY <1>1 DEF TypeOK
  <2>2. ASSUME NEW s \in Slabs, NEW place \in [SlabRoots[s] -> Hosts], PinSlabs(s, place)
        PROVE  hostID'[r] = hostID[r]
    BY <1>1, <2>1, <2>2 DEF PinSlabs
  <2>3. ASSUME NEW c \in Contracts, NEW R \in SUBSET Roots, PinSectors(c, R)
        PROVE  hostID'[r] = hostID[r]
    BY <1>1, <2>1, <2>3 DEF PinSectors, Pinnable, SetHost
  <2>4. ASSUME NEW q \in Roots, NEW h \in Hosts, MigrateSector(q, h)
        PROVE  mapID'[r] = NULL /\ failed'[r] = 0 /\ r \notin aged'
    <3>1. SetHost({q}, h) /\ SetMap({q}, NULL) /\ SetFailed({q}, 0) /\ Refresh({q})
      BY <2>4 DEF MigrateSector
    <3>2. r = q
      BY <1>1, <2>1, <3>1 DEF SetHost
    <3> QED BY <2>1, <3>1, <3>2 DEF SetMap, SetFailed, Refresh
  <2> QED BY <1>1, <2>2, <2>3, <2>4, StaysOrLoses
<1>2. TypeOK /\ [Next]_vars =>
         \A r \in rows : (hostID[r] # NULL /\ hostID'[r] \notin {hostID[r], NULL}) =>
            mapID'[r] = NULL /\ failed'[r] = 0 /\ r \notin aged'
  BY <1>1
<1> QED BY TypeCorrect, <1>2, PTL DEF Spec, MovedSectorStartsOver

(* A step that charges a host takes at least as many sectors from it as it  *)
(* charges: of two reports of the same loss, the second finds no sector on  *)
(* the host.                                                                *)
THEOREM LossesChargedOnce == Spec => LostChargedOnce
<1>1. ASSUME TypeOK, NEW g \in Hosts, NEW sel, sel \subseteq OnHost(rows, g), LoseSectors(g, sel),
             NEW h \in Hosts, hostLost'[h] > hostLost[h]
      PROVE  hostLost'[h] - hostLost[h] <=
                Cardinality({r \in rows : hostID[r] = h /\ hostID'[r] = NULL})
  <2>1. PICK n : n = Cardinality(CountedLost(sel))
    OBVIOUS
  <2>2. hostLost' = [hostLost EXCEPT ![g] = @ + n] /\ hostLost \in [Hosts -> Nat]
    BY <1>1, <2>1 DEF LoseSectors, TypeOK
  <2>3. h = g
    BY <1>1, <2>2
  <2>4. PICK T : T = {r \in rows : hostID[r] = h /\ hostID'[r] = NULL}
    OBVIOUS
  <2>5. sel \subseteq T
    BY <1>1, <2>3, <2>4 DEF LoseSectors, SetHost, OnHost, TypeOK
  <2>6. CountedLost(sel) \subseteq T /\ T \subseteq Roots
    BY <1>1, <2>4, <2>5 DEF CountedLost, TypeOK
  <2>7. n <= Cardinality(T) /\ n \in Nat
    BY <2>1, <2>6, RootSets, FS_Subset, FS_CardinalityType
  <2>8. hostLost'[h] - hostLost[h] = n
    BY <2>2, <2>3, <2>7
  <2> QED BY <2>4, <2>7, <2>8
<1>2. ASSUME TypeOK, [Next]_vars, NEW h \in Hosts, hostLost'[h] > hostLost[h]
      PROVE  hostLost'[h] - hostLost[h] <=
                Cardinality({r \in rows : hostID[r] = h /\ hostID'[r] = NULL})
  <2>1. ASSUME NEW g \in Hosts, NEW R \in SUBSET Roots, MarkSectorsLost(g, R)
        PROVE  \E sel : sel \subseteq OnHost(rows, g) /\ LoseSectors(g, sel)
    BY <2>1 DEF MarkSectorsLost, OnHost
  <2>2. ASSUME NEW g \in Hosts, MarkFailingSectorsLost(g)
        PROVE  \E sel : sel \subseteq OnHost(rows, g) /\ LoseSectors(g, sel)
    BY <2>2 DEF MarkFailingSectorsLost, IsBatchOf
  <2>3. ASSUME NEW g \in Hosts, ResetLostSectors(g)
        PROVE  FALSE
    BY <1>2, <2>3 DEF ResetLostSectors, TypeOK
  <2>4. hostLost' # hostLost
    BY <1>2 DEF TypeOK
  <2>5. \E g \in Hosts : \E sel : sel \subseteq OnHost(rows, g) /\ LoseSectors(g, sel)
    BY <1>2, <2>1, <2>2, <2>3, <2>4
    DEF Next, PinSlabs, DeleteOrphanedSlabs, PinSectors, RecordIntegrityCheck, MigrateSector,
        MarkSectorsUnpinnable, BlockHost, DetachUnpinned, Age, AddFormedContract, AddRenewedContract,
        DeleteContract, PruneContractSectorsMap, UpdateContractStatus, UpdateHeight, vars
  <2> QED BY <1>1, <1>2, <2>5
<1>3. TypeOK /\ [Next]_vars =>
         \A h \in Hosts : hostLost'[h] > hostLost[h] =>
            hostLost'[h] - hostLost[h] <=
                Cardinality({r \in rows : hostID[r] = h /\ hostID'[r] = NULL})
  BY <1>2
<1> QED BY TypeCorrect, <1>3, PTL DEF Spec, LostChargedOnce
=============================================================================
