------------------------------- MODULE SlabMove -------------------------------
(***************************************************************************)
(* What the transfers of a migration promise to executeMigration           *)
(* (slabs/migrations.go) and what SlabRepair takes for granted in one      *)
(* step: only hosts that lost their sector are reported, no more once the  *)
(* recovery has returned; a recovery succeeds only if enough hosts have    *)
(* their sectors; and then shards are stored one by one, each once and no  *)
(* two on one host, and none is taken back.                                *)
(***************************************************************************)

CONSTANTS
    Shards, Pool,   \* what is uploaded, and the hosts it may go to
    Missing,        \* hosts of the slab that lost their sector
    Recoverable     \* MinShards hosts of the slab have their sectors

VARIABLES
    outcome,    \* of the recovery
    lost,       \* hosts whose sectors are reported lost
    moved       \* shards that are stored, with their hosts

Init == outcome = "none" /\ lost = {} /\ moved = {}

ReportLost(h) ==
    /\ outcome = "none" /\ lost' = lost \cup {h}
    /\ UNCHANGED <<outcome, moved>>

Fail == outcome = "none" /\ outcome' = "error" /\ UNCHANGED <<lost, moved>>

Recover ==
    /\ outcome = "none" /\ Recoverable
    /\ outcome' = "ok"
    /\ UNCHANGED <<lost, moved>>

Store(s, h) ==
    /\ outcome = "ok" /\ \A p \in moved : p[1] # s /\ p[2] # h
    /\ moved' = moved \cup {<<s, h>>}
    /\ UNCHANGED <<outcome, lost>>

Next ==
    \/ \E h \in Missing : ReportLost(h)
    \/ Fail \/ Recover
    \/ \E s \in Shards, h \in Pool : Store(s, h)
Spec == Init /\ [][Next]_<<outcome, lost, moved>>
===============================================================================
