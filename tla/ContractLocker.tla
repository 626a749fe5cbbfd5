--------------------------- MODULE ContractLocker ---------------------------
(***************************************************************************)
(* ContractLocker (contracts/locking.go): a map of reference-counted       *)
(* mutexes, one per contract in use.  Renewals, funding, pinning, pruning  *)
(* and revision syncing all serialize on it.  A critical section of cl.mu  *)
(* is one action; the contract's own mutex is taken and left outside of it.*)
(***************************************************************************)
EXTENDS Naturals, FiniteSets

CONSTANTS Procs,      \* goroutines that lock contracts
          Contracts,
          Objects,    \* LockedContract values that can be allocated
          NULL

ASSUME ConstantsAssumption ==
    /\ IsFiniteSet(Procs)
    /\ NULL \notin Procs
    /\ NULL \notin Objects

VARIABLES lockedContracts,  \* cl.lockedContracts: contract -> object
          refcount,         \* lc.refcount
          holder,           \* who holds lc.mu
          pc,               \* of a goroutine: idle, waiting, holding, leaving
          id,               \* the contract it is locking
          lc                \* the object it was given

vars == <<lockedContracts, refcount, holder, pc, id, lc>>

(* A new LockedContract: an object nobody refers to.                        *)
Unused(o) == \A p \in Procs : lc[p] # o

(* LockContract up to cl.mu.Unlock().                                       *)
LockContract(p, c) ==
    /\ pc[p] = "idle"
    /\ \E o \in Objects :
         /\ IF lockedContracts[c] = NULL THEN Unused(o) ELSE o = lockedContracts[c]
         /\ lockedContracts' = [lockedContracts EXCEPT ![c] = o]
         /\ refcount' = [refcount EXCEPT ![o] = @ + 1]
         /\ lc' = [lc EXCEPT ![p] = o]
    /\ pc' = [pc EXCEPT ![p] = "waiting"]
    /\ id' = [id EXCEPT ![p] = c]
    /\ UNCHANGED holder

(* lc.mu.Lock() returns.                                                    *)
LockMutex(p) ==
    /\ pc[p] = "waiting" /\ holder[lc[p]] = NULL
    /\ holder' = [holder EXCEPT ![lc[p]] = p]
    /\ pc' = [pc EXCEPT ![p] = "holding"]
    /\ UNCHANGED <<lockedContracts, refcount, id, lc>>

(* TryLockContract: an entry in the map, also of a goroutine that is just   *)
(* leaving, makes it give up; else it owns a new one at once.               *)
TryLockContract(p, c) ==
    /\ pc[p] = "idle" /\ lockedContracts[c] = NULL
    /\ \E o \in Objects :
         /\ Unused(o)
         /\ lockedContracts' = [lockedContracts EXCEPT ![c] = o]
         /\ refcount' = [refcount EXCEPT ![o] = 1]
         /\ holder' = [holder EXCEPT ![o] = p]
         /\ lc' = [lc EXCEPT ![p] = o]
    /\ pc' = [pc EXCEPT ![p] = "holding"]
    /\ id' = [id EXCEPT ![p] = c]

(* The unlock function: first lc.mu.Unlock() ...  (Mutant: not with others  *)
(* about.)                                                                  *)
UnlockMutexAlone(p) ==
    /\ pc[p] = "holding"
    /\ holder' = IF refcount[lc[p]] = 1 THEN [holder EXCEPT ![lc[p]] = NULL] ELSE holder
    /\ pc' = [pc EXCEPT ![p] = "leaving"]
    /\ UNCHANGED <<lockedContracts, refcount, id, lc>>

UnlockMutex(p) ==
    /\ pc[p] = "holding"
    /\ holder' = [holder EXCEPT ![lc[p]] = NULL]
    /\ pc' = [pc EXCEPT ![p] = "leaving"]
    /\ UNCHANGED <<lockedContracts, refcount, id, lc>>

(* ... then, under cl.mu, the reference is dropped and with the last one    *)
(* the entry.  (Mutant: the entry goes with every reference.)               *)
AlwaysLast(o)    == TRUE
LastReference(o) == refcount[o] = 1

DropReference(p) ==
    /\ pc[p] = "leaving"
    /\ refcount' = [refcount EXCEPT ![lc[p]] = @ - 1]
    /\ lockedContracts' = IF LastReference(lc[p])
                          THEN [lockedContracts EXCEPT ![id[p]] = NULL]
                          ELSE lockedContracts
    /\ pc' = [pc EXCEPT ![p] = "idle"]
    /\ lc' = [lc EXCEPT ![p] = NULL]
    /\ id' = [id EXCEPT ![p] = NULL]
    /\ UNCHANGED holder

Init ==
    /\ lockedContracts = [c \in Contracts |-> NULL]
    /\ refcount = [o \in Objects |-> 0]
    /\ holder = [o \in Objects |-> NULL]
    /\ pc = [p \in Procs |-> "idle"]
    /\ id = [p \in Procs |-> NULL]
    /\ lc = [p \in Procs |-> NULL]

Next ==
    \E p \in Procs :
        \/ \E c \in Contracts : LockContract(p, c) \/ TryLockContract(p, c)
        \/ LockMutex(p) \/ UnlockMutex(p) \/ DropReference(p)

Spec == Init /\ [][Next]_vars

(* Whoever holds a contract finishes with it (its RPCs have deadlines), and *)
(* a sync.Mutex does not starve a waiter.                                   *)
Fairness == \A p \in Procs : /\ WF_vars(UnlockMutex(p))
                             /\ WF_vars(DropReference(p))
                             /\ SF_vars(LockMutex(p))

FairSpec == Spec /\ Fairness

-----------------------------------------------------------------------------
(***************************************************************************)
(* Properties                                                              *)
(***************************************************************************)

(* The map, the counters and the goroutines hold values of their types; a   *)
(* reference count never falls below zero.                                  *)
TypeOK ==
    /\ lockedContracts \in [Contracts -> Objects \cup {NULL}]
    /\ refcount \in [Objects -> Nat]
    /\ holder \in [Objects -> Procs \cup {NULL}]
    /\ pc \in [Procs -> {"idle", "waiting", "holding", "leaving"}]
    /\ id \in [Procs -> Contracts \cup {NULL}]
    /\ lc \in [Procs -> Objects \cup {NULL}]

(* Two goroutines never hold the same contract, not even through two        *)
(* LockedContract values of it.                                             *)
MutualExclusion ==
    \A p, q \in Procs : p # q /\ pc[p] = "holding" /\ pc[q] = "holding" => id[p] # id[q]

(* The map has an entry for exactly the contracts somebody is locking, and  *)
(* that entry is the object they all share: none is dropped too early and   *)
(* none stays behind.                                                       *)
EntriesInUse ==
    /\ \A p \in Procs : pc[p] # "idle" => lockedContracts[id[p]] = lc[p]
    /\ \A c \in Contracts : lockedContracts[c] # NULL =>
          \E p \in Procs : pc[p] # "idle" /\ id[p] = c

(* The reference count is the number of goroutines with the object.         *)
CountedReferences ==
    \A o \in Objects : refcount[o] = Cardinality({p \in Procs : lc[p] = o})

(* Who holds each contract.                                                 *)
OwnerOf(state, contract) ==
    [c \in Contracts |-> IF \E p \in Procs : state[p] = "holding" /\ contract[p] = c
                         THEN CHOOSE p \in Procs : state[p] = "holding" /\ contract[p] = c
                         ELSE NULL]

Mutex == INSTANCE ContractMutex WITH owner <- OwnerOf(pc, id)

(* The locker is a mutex per contract.                                      *)
ImplementsMutex == Mutex!Spec

(* A goroutine blocked in LockContract gets the contract eventually.        *)
WaitersServed == \A p \in Procs : pc[p] = "waiting" ~> pc[p] = "holding"
=============================================================================
