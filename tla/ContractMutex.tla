--------------------------- MODULE ContractMutex ---------------------------
(***************************************************************************)
(* What ContractLocker promises (contracts/locking.go): "only one lock can *)
(* be held for a contract at a time".                                      *)
(***************************************************************************)
CONSTANTS Procs,      \* goroutines that lock contracts
          Contracts,
          NULL

VARIABLE owner        \* who has locked a contract

Acquire(p, c) == owner[c] = NULL /\ owner' = [owner EXCEPT ![c] = p]
Release(p, c) == owner[c] = p /\ owner' = [owner EXCEPT ![c] = NULL]

Init == owner = [c \in Contracts |-> NULL]
Next == \E p \in Procs, c \in Contracts : Acquire(p, c) \/ Release(p, c)
Spec == Init /\ [][Next]_owner
=============================================================================
