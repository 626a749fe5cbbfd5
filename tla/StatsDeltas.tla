------------------------------ MODULE StatsDeltas ------------------------------
(***************************************************************************)
(* Statistics (persist/postgres/stats.go, stats/manager.go).  A            *)
(* transaction that changes what a statistic counts updates the rows, then *)
(* inserts a delta whose id comes from a sequence; the stats manager moves *)
(* the deltas it can see into the statistic, oldest ids first.  Ids are    *)
(* taken at the insert, deltas are seen after the commit, and the ids of   *)
(* transactions that roll back are never used.                             *)
(***************************************************************************)
EXTENDS Integers, FiniteSets

CONSTANTS
    Items,       \* rows a statistic counts
    Updaters,    \* concurrent transactions
    FlushBatch,  \* deltas flushed at a time
    MaxIds       \* bound: delta ids

ASSUME StatsAssumption ==
    /\ IsFiniteSet(Items) /\ IsFiniteSet(Updaters)
    /\ FlushBatch \in Nat \ {0} /\ MaxIds \in Nat

NoUpdate == [step |-> "none"]

VARIABLES
    counted,    \* rows counted, as committed
    update,     \* transactions: the row each has locked, and its delta
    nextId,     \* the sequence of stats_deltas
    deltas,     \* committed rows of stats_deltas: id, delta and, as history, the item
    stat,       \* stat_value
    flushing    \* flush: there may be more rows

statVars == <<counted, update, nextId, deltas, stat, flushing>>

StatsInit ==
    /\ counted = {} /\ update = [u \in Updaters |-> NoUpdate] /\ nextId = 1
    /\ deltas = {} /\ stat = 0 /\ flushing = FALSE

Locked == {update[u].item : u \in {v \in Updaters : update[v] # NoUpdate}}

(* The row is changed under its lock, which is held until the end.          *)
ChangeRow(u, i) ==
    /\ update[u] = NoUpdate /\ i \notin Locked
    /\ update' = [update EXCEPT ![u] = [step |-> "changed", item |-> i,
                                        delta |-> IF i \in counted THEN -1 ELSE 1, id |-> 0]]
    /\ UNCHANGED <<counted, nextId, deltas, stat, flushing>>

IncrementStat(u) ==
    /\ update[u].step = "changed" /\ nextId <= MaxIds
    /\ update' = [update EXCEPT ![u].step = "inserted", ![u].id = nextId]
    /\ nextId' = nextId + 1
    /\ UNCHANGED <<counted, deltas, stat, flushing>>

Commit(u) ==
    /\ update[u].step = "inserted"
    /\ LET x == update[u] IN
       /\ counted' = IF x.delta = 1 THEN counted \cup {x.item} ELSE counted \ {x.item}
       /\ deltas' = deltas \cup {[id |-> x.id, item |-> x.item, delta |-> x.delta]}
    /\ update' = [update EXCEPT ![u] = NoUpdate]
    /\ UNCHANGED <<nextId, stat, flushing>>

Rollback(u) ==
    /\ update[u] # NoUpdate
    /\ update' = [update EXCEPT ![u] = NoUpdate]
    /\ UNCHANGED <<counted, nextId, deltas, stat, flushing>>

Size == IF Cardinality(deltas) < FlushBatch THEN Cardinality(deltas) ELSE FlushBatch
Unordered(B) == Cardinality(B) = Size
OldestFirst(B) == Cardinality(B) = Size /\ \A x \in B, y \in deltas \ B : x.id < y.id

(* Every delta adds or takes away one row.                                  *)
DeltaSum(D) == Cardinality({d \in D : d.delta = 1}) - Cardinality({d \in D : d.delta = -1})

(* One transaction: the batch is deleted and its sum added.  flush goes on  *)
(* while there are rows.                                                    *)
FlushStatsDelta ==
    /\ flushing
    /\ \E B \in SUBSET deltas :
          /\ OldestFirst(B)
          /\ stat' = stat + DeltaSum(B)
          /\ deltas' = deltas \ B
          /\ flushing' = (deltas \ B # {})
    /\ UNCHANGED <<counted, update, nextId>>

(* The ticker, or a flush that has failed.                                  *)
FlushLoop ==
    /\ flushing' = ~flushing
    /\ UNCHANGED <<counted, update, nextId, deltas, stat>>

StatsNext ==
    \/ \E u \in Updaters :
          (\E i \in Items : ChangeRow(u, i)) \/ IncrementStat(u) \/ Commit(u) \/ Rollback(u)
    \/ FlushStatsDelta \/ FlushLoop

StatsSpec == StatsInit /\ [][StatsNext]_statVars

-----------------------------------------------------------------------------
(***************************************************************************)
(* Properties                                                              *)
(***************************************************************************)

(* A statistic never falls below zero, though deltas of transactions that   *)
(* overlap become visible out of order and batches cut between a delta and  *)
(* the one that takes it back; and with the deltas that are still pending   *)
(* it is exactly what the committed rows amount to (FlushStatsDelta,        *)
(* sqlStatSelect).                                                          *)
StatsNeverUnderflow ==
    stat >= 0 /\ stat + DeltaSum(deltas) = Cardinality(counted)

(* The statistic with its pending deltas changes by one in the step that    *)
(* commits a row, and in no other: neither a transaction that rolls back    *)
(* nor the order and the cut of the batches that are flushed ever shows,    *)
(* and stat_value is never below zero (incrementStat, FlushStatsDelta).     *)
Stored == INSTANCE Statistic WITH rows <- counted, value <- stat + DeltaSum(deltas), shown <- stat

ImplementsStatistic == Stored!Spec
=============================================================================
