------------------------ MODULE ContractLockerProofs ------------------------
(***************************************************************************)
(* ContractLocker implements a mutex per contract, for any number of       *)
(* goroutines and contracts; and the maintenance pass that works under     *)
(* such locks (ContractMaintenance) forms no contract it does not need.    *)
(***************************************************************************)
EXTENDS ContractLocker, ContractMaintenance, FiniteSetTheorems, SequenceTheorems,
        WellFoundedInduction, TLAPS

Users(o) == {p \in Procs : lc[p] = o}

(* A goroutine has an object exactly while it is locking a contract, and it *)
(* is the one in the map.                                                   *)
References ==
    \A p \in Procs : /\ pc[p] = "idle" <=> lc[p] = NULL
                     /\ pc[p] # "idle" => id[p] \in Contracts /\ lockedContracts[id[p]] = lc[p]

(* The mutex of an object is held by the goroutine that thinks so.          *)
Holders ==
    /\ \A p \in Procs : pc[p] = "holding" => holder[lc[p]] = p
    /\ \A o \in Objects : holder[o] # NULL => pc[holder[o]] = "holding" /\ lc[holder[o]] = o

(* Every entry of the map is somebody's, and no two share an object.        *)
Entries ==
    /\ \A c \in Contracts : lockedContracts[c] # NULL =>
          \E p \in Procs : pc[p] # "idle" /\ id[p] = c
    /\ \A c, d \in Contracts : lockedContracts[c] # NULL /\ lockedContracts[c] = lockedContracts[d]
          => c = d

IInv == TypeOK /\ References /\ Holders /\ Entries /\ CountedReferences

(* The users of an object are a finite set.                                 *)
LEMMA UsersFinite == \A o : IsFiniteSet(Users(o)) /\ Cardinality(Users(o)) \in Nat
BY FS_Subset, FS_CardinalityType, ConstantsAssumption DEF Users

(* An object with one reference has one user.                               *)
LEMMA SingleUser ==
    ASSUME NEW p \in Procs, Cardinality(Users(lc[p])) = 1
    PROVE  \A q \in Procs : lc[q] = lc[p] => q = p
<1>1. PICK x : Users(lc[p]) = {x}
  BY UsersFinite, FS_Singleton
<1> QED
  BY <1>1 DEF Users

(* An object with more than one reference has another user.                 *)
LEMMA OtherUser ==
    ASSUME NEW p \in Procs, Cardinality(Users(lc[p])) # 1
    PROVE  \E q \in Procs : q # p /\ lc[q] = lc[p]
<1>1. ASSUME \A q \in Procs : lc[q] = lc[p] => q = p
      PROVE  FALSE
  <2>1. Users(lc[p]) = {p}
    BY <1>1 DEF Users
  <2>2. Cardinality({p}) = 1
    BY FS_Singleton
  <2> QED
    BY <2>1, <2>2
<1> QED
  BY <1>1

(* The initial state satisfies the invariant.                               *)
LEMMA InitIInv == Init => IInv
<1> SUFFICES ASSUME Init PROVE IInv
  OBVIOUS
<1> USE ConstantsAssumption
<1>1. TypeOK /\ References /\ Holders /\ Entries
  BY DEF Init, TypeOK, References, Holders, Entries
<1>2. ASSUME NEW o \in Objects PROVE refcount[o] = Cardinality({p \in Procs : lc[p] = o})
  <2>1. {p \in Procs : lc[p] = o} = {}
    BY DEF Init
  <2>2. Cardinality({}) = 0
    BY FS_EmptySet
  <2> QED
    BY <2>1, <2>2 DEF Init
<1> QED
  BY <1>1, <1>2 DEF IInv, CountedReferences

(* LockContract preserves the invariant.                                    *)
LEMMA LockContractStep ==
    ASSUME IInv, NEW p \in Procs, NEW c \in Contracts, LockContract(p, c)
    PROVE  IInv'
<1> USE ConstantsAssumption DEF IInv
<1>1. PICK o \in Objects :
        /\ IF lockedContracts[c] = NULL THEN Unused(o) ELSE o = lockedContracts[c]
        /\ lockedContracts' = [lockedContracts EXCEPT ![c] = o]
        /\ refcount' = [refcount EXCEPT ![o] = @ + 1]
        /\ lc' = [lc EXCEPT ![p] = o]
  BY DEF LockContract
<1>2. /\ pc[p] = "idle" /\ pc' = [pc EXCEPT ![p] = "waiting"]
      /\ id' = [id EXCEPT ![p] = c] /\ holder' = holder
  BY DEF LockContract
<1>3. lc[p] = NULL
  BY <1>2 DEF References
<1>4. TypeOK'
  BY <1>1, <1>2 DEF TypeOK
<1>5. References'
  <2>1. \A q \in Procs : pc[q] # "idle" /\ id[q] = c => lc[q] = o
    BY <1>1 DEF References, Unused, TypeOK
  <2> QED BY <1>1, <1>2, <2>1 DEF References, TypeOK
<1>6. Holders'
  BY <1>1, <1>2, <1>3 DEF Holders, TypeOK
<1>7. Entries'
  <2>1. lockedContracts[c] = NULL => \A d \in Contracts : lockedContracts[d] # o
    BY <1>1 DEF Entries, References, Unused, TypeOK
  <2>2. \A d \in Contracts : lockedContracts'[d] # NULL =>
           \E q \in Procs : pc'[q] # "idle" /\ id'[q] = d
    BY <1>1, <1>2 DEF Entries, TypeOK
  <2>3. \A d, e \in Contracts :
           lockedContracts'[d] # NULL /\ lockedContracts'[d] = lockedContracts'[e] => d = e
    BY <1>1, <2>1 DEF Entries, TypeOK
  <2> QED BY <2>2, <2>3 DEF Entries
<1>8. CountedReferences'
  <2> SUFFICES ASSUME NEW x \in Objects PROVE refcount'[x] = Cardinality(Users(x)')
    BY DEF CountedReferences, Users
  <2>1. refcount[x] = Cardinality(Users(x))
    BY DEF CountedReferences, Users
  <2>2. CASE x = o
    <3>1. Users(x)' = Users(x) \cup {p} /\ p \notin Users(x)
      BY <1>1, <1>3, <2>2 DEF Users, TypeOK
    <3>2. Cardinality(Users(x) \cup {p}) = Cardinality(Users(x)) + 1
      BY <3>1, UsersFinite, FS_AddElement
    <3>3. refcount'[x] = refcount[x] + 1
      BY <1>1, <2>2 DEF TypeOK
    <3> QED BY <2>1, <3>1, <3>2, <3>3
  <2>3. CASE x # o
    <3>1. Users(x)' = Users(x)
      BY <1>1, <1>3, <2>3 DEF Users, TypeOK
    <3>2. refcount'[x] = refcount[x]
      BY <1>1, <2>3 DEF TypeOK
    <3> QED BY <2>1, <3>1, <3>2
  <2> QED BY <2>2, <2>3
<1> QED
  BY <1>4, <1>5, <1>6, <1>7, <1>8

(* TryLockContract preserves the invariant.                                 *)
LEMMA TryLockContractStep ==
    ASSUME IInv, NEW p \in Procs, NEW c \in Contracts, TryLockContract(p, c)
    PROVE  IInv'
<1> USE ConstantsAssumption DEF IInv
<1>1. PICK o \in Objects :
        /\ Unused(o)
        /\ lockedContracts' = [lockedContracts EXCEPT ![c] = o]
        /\ refcount' = [refcount EXCEPT ![o] = 1]
        /\ holder' = [holder EXCEPT ![o] = p]
        /\ lc' = [lc EXCEPT ![p] = o]
  BY DEF TryLockContract
<1>2. /\ pc[p] = "idle" /\ pc' = [pc EXCEPT ![p] = "holding"]
      /\ id' = [id EXCEPT ![p] = c] /\ lockedContracts[c] = NULL
  BY DEF TryLockContract
<1>3. lc[p] = NULL /\ \A q \in Procs : lc[q] # o
  BY <1>1, <1>2 DEF References, Unused
<1>4. TypeOK'
  BY <1>1, <1>2 DEF TypeOK
<1>5. References'
  <2>1. \A q \in Procs : pc[q] # "idle" => id[q] # c
    BY <1>2 DEF References
  <2> QED BY <1>1, <1>2, <2>1 DEF References, TypeOK
<1>6. Holders'
  BY <1>1, <1>2, <1>3 DEF Holders, TypeOK
<1>7. Entries'
  <2>1. \A d \in Contracts : lockedContracts[d] # o
    BY <1>3 DEF Entries, References, TypeOK
  <2>2. \A d \in Contracts : lockedContracts'[d] # NULL =>
           \E q \in Procs : pc'[q] # "idle" /\ id'[q] = d
    BY <1>1, <1>2 DEF Entries, TypeOK
  <2>3. \A d, e \in Contracts :
           lockedContracts'[d] # NULL /\ lockedContracts'[d] = lockedContracts'[e] => d = e
    BY <1>1, <2>1 DEF Entries, TypeOK
  <2> QED BY <2>2, <2>3 DEF Entries
<1>8. CountedReferences'
  <2> SUFFICES ASSUME NEW x \in Objects PROVE refcount'[x] = Cardinality(Users(x)')
    BY DEF CountedReferences, Users
  <2>1. CASE x = o
    <3>1. Users(x)' = {p}
      BY <1>1, <1>3, <2>1 DEF Users, TypeOK
    <3>2. Cardinality({p}) = 1
      BY FS_Singleton
    <3>3. refcount'[x] = 1
      BY <1>1, <2>1 DEF TypeOK
    <3> QED BY <3>1, <3>2, <3>3
  <2>2. CASE x # o
    <3>1. Users(x)' = Users(x)
      BY <1>1, <1>3, <2>2 DEF Users, TypeOK
    <3>2. refcount'[x] = refcount[x]
      BY <1>1, <2>2 DEF TypeOK
    <3> QED BY <3>1, <3>2 DEF CountedReferences, Users
  <2> QED BY <2>1, <2>2
<1> QED
  BY <1>4, <1>5, <1>6, <1>7, <1>8

(* Taking and leaving the mutex preserves the invariant.                    *)
LEMMA MutexStep ==
    ASSUME IInv, NEW p \in Procs, LockMutex(p) \/ UnlockMutex(p)
    PROVE  IInv'
<1> USE ConstantsAssumption DEF IInv
<1>1. lc[p] \in Objects
  BY DEF LockMutex, UnlockMutex, References, TypeOK
<1>2. UNCHANGED <<lockedContracts, refcount, id, lc>>
  BY DEF LockMutex, UnlockMutex
<1>3. TypeOK' /\ References'
  BY <1>1, <1>2 DEF LockMutex, UnlockMutex, References, TypeOK
<1>4. Holders'
  BY <1>1, <1>2 DEF LockMutex, UnlockMutex, Holders, References, TypeOK
<1>5. Entries'
  BY <1>1, <1>2 DEF LockMutex, UnlockMutex, Entries, TypeOK
<1>6. CountedReferences'
  BY <1>2 DEF CountedReferences
<1> QED
  BY <1>3, <1>4, <1>5, <1>6

(* Dropping a reference preserves the invariant: the entry goes exactly     *)
(* when nobody else refers to it.                                           *)
LEMMA DropReferenceStep ==
    ASSUME IInv, NEW p \in Procs, DropReference(p)
    PROVE  IInv'
<1> USE ConstantsAssumption DEF IInv
<1>1. /\ pc[p] = "leaving" /\ lc[p] \in Objects /\ id[p] \in Contracts
      /\ lockedContracts[id[p]] = lc[p]
  BY DEF DropReference, References, TypeOK
<1>2. /\ refcount' = [refcount EXCEPT ![lc[p]] = @ - 1]
      /\ pc' = [pc EXCEPT ![p] = "idle"] /\ lc' = [lc EXCEPT ![p] = NULL]
      /\ id' = [id EXCEPT ![p] = NULL] /\ holder' = holder
  BY DEF DropReference
<1>3. /\ refcount[lc[p]] = 1 => lockedContracts' = [lockedContracts EXCEPT ![id[p]] = NULL]
      /\ refcount[lc[p]] # 1 => lockedContracts' = lockedContracts
  BY DEF DropReference, LastReference
<1>4. refcount[lc[p]] = Cardinality(Users(lc[p]))
  BY <1>1 DEF CountedReferences, Users
<1>5. refcount[lc[p]] = 1 => \A q \in Procs : lc[q] = lc[p] => q = p
  BY <1>4, SingleUser
<1>6. refcount[lc[p]] # 1 => \E q \in Procs : q # p /\ lc[q] = lc[p]
  BY <1>4, OtherUser
<1>7. \A q \in Procs : pc[q] # "idle" =>
         (id[q] = id[p] <=> lc[q] = lc[p])
  BY <1>1 DEF References, Entries, TypeOK
<1>8. refcount[lc[p]] \in Nat \ {0}
  <2>1. p \in Users(lc[p])
    BY DEF Users
  <2>2. Cardinality(Users(lc[p])) # 0
    BY <2>1, UsersFinite, FS_EmptySet
  <2> QED BY <1>1, <1>4, <2>2 DEF TypeOK
<1>9. TypeOK'
  BY <1>1, <1>2, <1>3, <1>8 DEF TypeOK
<1>10. References'
  BY <1>1, <1>2, <1>3, <1>5, <1>7 DEF References, TypeOK
<1>11. Holders'
  BY <1>1, <1>2 DEF Holders, TypeOK
<1>12. Entries'
  <2>1. ASSUME NEW c \in Contracts, lockedContracts'[c] # NULL
        PROVE  \E q \in Procs : pc'[q] # "idle" /\ id'[q] = c
    <3>1. lockedContracts[c] # NULL
      BY <1>1, <1>3, <2>1 DEF TypeOK
    <3>2. CASE c = id[p]
      <4>1. PICK q \in Procs : q # p /\ lc[q] = lc[p]
        BY <1>1, <1>3, <1>6, <2>1, <3>2 DEF TypeOK
      <4>2. pc[q] # "idle" /\ id[q] = c
        BY <1>1, <1>7, <3>2, <4>1 DEF References
      <4> QED BY <1>2, <4>1, <4>2 DEF TypeOK
    <3>3. CASE c # id[p]
      BY <1>2, <3>1, <3>3 DEF Entries, TypeOK
    <3> QED BY <3>2, <3>3
  <2>2. \A c, d \in Contracts :
           lockedContracts'[c] # NULL /\ lockedContracts'[c] = lockedContracts'[d] => c = d
    BY <1>1, <1>3 DEF Entries, TypeOK
  <2> QED BY <2>1, <2>2 DEF Entries
<1>13. CountedReferences'
  <2> SUFFICES ASSUME NEW x \in Objects PROVE refcount'[x] = Cardinality(Users(x)')
    BY DEF CountedReferences, Users
  <2>1. CASE x = lc[p]
    <3>1. Users(x)' = Users(x) \ {p} /\ p \in Users(x)
      BY <1>1, <1>2, <2>1 DEF Users, TypeOK
    <3>2. Cardinality(Users(x) \ {p}) = Cardinality(Users(x)) - 1
      BY <3>1, UsersFinite, FS_RemoveElement
    <3>3. refcount'[x] = refcount[x] - 1
      BY <1>1, <1>2, <2>1 DEF TypeOK
    <3> QED BY <1>4, <2>1, <3>1, <3>2, <3>3
  <2>2. CASE x # lc[p]
    <3>1. Users(x)' = Users(x)
      BY <1>2, <2>2 DEF Users, TypeOK
    <3>2. refcount'[x] = refcount[x]
      BY <1>1, <1>2, <2>2 DEF TypeOK
    <3> QED BY <3>1, <3>2 DEF CountedReferences, Users
  <2> QED BY <2>1, <2>2
<1> QED
  BY <1>9, <1>10, <1>11, <1>12, <1>13

(* The invariant holds in every reachable state.                            *)
THEOREM Invariance == Spec => []IInv
<1>1. IInv /\ [Next]_vars => IInv'
  <2> SUFFICES ASSUME IInv, [Next]_vars PROVE IInv'
    OBVIOUS
  <2>1. CASE Next
    BY <2>1, LockContractStep, TryLockContractStep, MutexStep, DropReferenceStep DEF Next
  <2>2. CASE UNCHANGED vars
    BY <2>2 DEF vars, IInv, TypeOK, References, Holders, Entries, CountedReferences
  <2> QED BY <2>1, <2>2
<1> QED
  BY InitIInv, <1>1, PTL DEF Spec

(* The invariant excludes two holders of one contract.                      *)
LEMMA IInvMutex == IInv => MutualExclusion
BY DEF IInv, MutualExclusion, References, Holders

(* No two goroutines ever hold the same contract.                           *)
THEOREM MutualExclusionHolds == Spec => []MutualExclusion
BY Invariance, IInvMutex, PTL

(* The map holds the contracts in use and no others.                        *)
THEOREM EntriesInUseHolds == Spec => []EntriesInUse
<1>1. IInv => EntriesInUse
  BY DEF IInv, EntriesInUse, References, Entries
<1> QED
  BY Invariance, <1>1, PTL

(* The types of the locker's state.                                         *)
THEOREM TypeCorrect == Spec => []TypeOK
<1>1. IInv => TypeOK
  BY DEF IInv
<1> QED
  BY Invariance, <1>1, PTL

(* An object's reference count is the number of goroutines that have it.    *)
THEOREM CountedReferencesHolds == Spec => []CountedReferences
<1>1. IInv => CountedReferences
  BY DEF IInv
<1> QED
  BY Invariance, <1>1, PTL

-----------------------------------------------------------------------------
(***************************************************************************)
(* Refinement                                                              *)
(***************************************************************************)

(* The owner of a contract is the one goroutine that holds it.              *)
LEMMA OwnerChoice ==
    ASSUME NEW state, NEW contract, NEW c \in Contracts,
           \A p, q \in Procs : p # q /\ state[p] = "holding" /\ state[q] = "holding"
               => contract[p] # contract[q]
    PROVE  /\ \A p \in Procs : state[p] = "holding" /\ contract[p] = c
                  => OwnerOf(state, contract)[c] = p
           /\ (\A p \in Procs : ~(state[p] = "holding" /\ contract[p] = c))
                  => OwnerOf(state, contract)[c] = NULL
<1>1. ASSUME NEW p \in Procs, state[p] = "holding", contract[p] = c
      PROVE  OwnerOf(state, contract)[c] = p
  <2>1. OwnerOf(state, contract)[c] =
           CHOOSE q \in Procs : state[q] = "holding" /\ contract[q] = c
    BY <1>1 DEF OwnerOf
  <2>2. \A q \in Procs : state[q] = "holding" /\ contract[q] = c => q = p
    BY <1>1
  <2> QED BY <1>1, <2>1, <2>2
<1>2. ASSUME \A p \in Procs : ~(state[p] = "holding" /\ contract[p] = c)
      PROVE  OwnerOf(state, contract)[c] = NULL
  BY <1>2 DEF OwnerOf
<1> QED
  BY <1>1, <1>2

(* The owners are a function of the contracts.                              *)
LEMMA OwnerFunction ==
    \A state, contract :
        OwnerOf(state, contract) = [c \in Contracts |-> OwnerOf(state, contract)[c]]
BY DEF OwnerOf

(* A step in which p starts to hold c, and nobody else changes what they    *)
(* hold, is an Acquire.                                                     *)
LEMMA AcquireStep ==
    ASSUME MutualExclusion, MutualExclusion', NEW p \in Procs, NEW c \in Contracts,
           pc[p] # "holding", pc'[p] = "holding", id'[p] = c,
           \A q \in Procs \ {p} : pc'[q] = pc[q] /\ id'[q] = id[q]
    PROVE  Mutex!Acquire(p, c)
<1>1. OwnerOf(pc, id)' = OwnerOf(pc', id')
  BY DEF OwnerOf
<1>2. \A q \in Procs : ~(pc[q] = "holding" /\ id[q] = c)
  BY DEF MutualExclusion
<1>3. OwnerOf(pc, id)[c] = NULL
  BY <1>2, OwnerChoice DEF MutualExclusion
<1>4. OwnerOf(pc', id')[c] = p
  BY OwnerChoice DEF MutualExclusion
<1>5. ASSUME NEW d \in Contracts, d # c
      PROVE  OwnerOf(pc', id')[d] = OwnerOf(pc, id)[d]
  <2>1. CASE \E q \in Procs : pc[q] = "holding" /\ id[q] = d
    <3>1. PICK q \in Procs : pc[q] = "holding" /\ id[q] = d
      BY <2>1
    <3>2. pc'[q] = "holding" /\ id'[q] = d
      BY <3>1
    <3>3. OwnerOf(pc, id)[d] = q
      BY <3>1, OwnerChoice DEF MutualExclusion
    <3>4. OwnerOf(pc', id')[d] = q
      BY <3>2, OwnerChoice DEF MutualExclusion
    <3> QED BY <3>3, <3>4
  <2>2. CASE \A q \in Procs : ~(pc[q] = "holding" /\ id[q] = d)
    <3>1. \A q \in Procs : ~(pc'[q] = "holding" /\ id'[q] = d)
      BY <1>5, <2>2
    <3>2. OwnerOf(pc, id)[d] = NULL
      BY <2>2, OwnerChoice DEF MutualExclusion
    <3>3. OwnerOf(pc', id')[d] = NULL
      BY <3>1, OwnerChoice DEF MutualExclusion
    <3> QED BY <3>2, <3>3
  <2> QED BY <2>1, <2>2
<1>6. OwnerOf(pc', id') = [OwnerOf(pc, id) EXCEPT ![c] = p]
  BY <1>4, <1>5, OwnerFunction
<1> QED
  BY <1>1, <1>3, <1>6 DEF Mutex!Acquire

(* A step in which p stops holding c, and nobody else changes what they     *)
(* hold, is a Release.                                                      *)
LEMMA ReleaseStep ==
    ASSUME MutualExclusion, MutualExclusion', NEW p \in Procs, NEW c \in Contracts,
           pc[p] = "holding", id[p] = c, pc'[p] # "holding",
           \A q \in Procs \ {p} : pc'[q] = pc[q] /\ id'[q] = id[q]
    PROVE  Mutex!Release(p, c)
<1>1. OwnerOf(pc, id)' = OwnerOf(pc', id')
  BY DEF OwnerOf
<1>2. \A q \in Procs : ~(pc'[q] = "holding" /\ id'[q] = c)
  BY DEF MutualExclusion
<1>3. OwnerOf(pc', id')[c] = NULL
  BY <1>2, OwnerChoice DEF MutualExclusion
<1>4. OwnerOf(pc, id)[c] = p
  BY OwnerChoice DEF MutualExclusion
<1>5. ASSUME NEW d \in Contracts, d # c
      PROVE  OwnerOf(pc', id')[d] = OwnerOf(pc, id)[d]
  <2>1. CASE \E q \in Procs : pc'[q] = "holding" /\ id'[q] = d
    <3>1. PICK q \in Procs : pc'[q] = "holding" /\ id'[q] = d
      BY <2>1
    <3>2. pc[q] = "holding" /\ id[q] = d
      BY <3>1
    <3>3. OwnerOf(pc', id')[d] = q
      BY <3>1, OwnerChoice DEF MutualExclusion
    <3>4. OwnerOf(pc, id)[d] = q
      BY <3>2, OwnerChoice DEF MutualExclusion
    <3> QED BY <3>3, <3>4
  <2>2. CASE \A q \in Procs : ~(pc'[q] = "holding" /\ id'[q] = d)
    <3>1. \A q \in Procs : ~(pc[q] = "holding" /\ id[q] = d)
      BY <1>5, <2>2
    <3>2. OwnerOf(pc', id')[d] = NULL
      BY <2>2, OwnerChoice DEF MutualExclusion
    <3>3. OwnerOf(pc, id)[d] = NULL
      BY <3>1, OwnerChoice DEF MutualExclusion
    <3> QED BY <3>2, <3>3
  <2> QED BY <2>1, <2>2
<1>6. OwnerOf(pc', id') = [OwnerOf(pc, id) EXCEPT ![c] = NULL]
  BY <1>3, <1>5, OwnerFunction
<1> QED
  BY <1>1, <1>4, <1>6 DEF Mutex!Release

(* A step after which the same goroutines hold the same contracts changes   *)
(* no owner.                                                                *)
LEMMA StutterStep ==
    ASSUME \A q \in Procs : /\ pc[q] = "holding" <=> pc'[q] = "holding"
                            /\ pc[q] = "holding" => id'[q] = id[q]
    PROVE  OwnerOf(pc, id)' = OwnerOf(pc, id)
<1>1. ASSUME NEW c \in Contracts, NEW q \in Procs
      PROVE  (pc'[q] = "holding" /\ id'[q] = c) <=> (pc[q] = "holding" /\ id[q] = c)
  OBVIOUS
<1> QED
  BY <1>1, ZenonT(60) DEF OwnerOf

(* The locker implements one mutex per contract: an acquisition is the step *)
(* in which lc.mu is taken (or, in TryLockContract, created locked), a      *)
(* release the one in which it is left.                                     *)
THEOREM Refinement == Spec => ImplementsMutex
<1>1. Init => Mutex!Init
  BY DEF Init, Mutex!Init, OwnerOf
<1>2. IInv /\ IInv' /\ [Next]_vars => [Mutex!Next]_(OwnerOf(pc, id))
  <2> SUFFICES ASSUME IInv, IInv', [Next]_vars
               PROVE  Mutex!Next \/ OwnerOf(pc, id)' = OwnerOf(pc, id)
    OBVIOUS
  <2>1. MutualExclusion /\ MutualExclusion'
    BY IInvMutex DEF IInv, References, Holders, MutualExclusion
  <2>2. ASSUME NEW p \in Procs, NEW c \in Contracts, LockContract(p, c)
        PROVE  OwnerOf(pc, id)' = OwnerOf(pc, id)
    BY <2>2, StutterStep DEF LockContract, IInv, TypeOK
  <2>3. ASSUME NEW p \in Procs, NEW c \in Contracts, TryLockContract(p, c)
        PROVE  Mutex!Next
    <3>1. /\ pc[p] # "holding" /\ pc'[p] = "holding" /\ id'[p] = c
          /\ \A q \in Procs \ {p} : pc'[q] = pc[q] /\ id'[q] = id[q]
      BY <2>3 DEF TryLockContract, IInv, TypeOK
    <3> QED BY <2>1, <3>1, AcquireStep DEF Mutex!Next
  <2>4. ASSUME NEW p \in Procs, LockMutex(p)
        PROVE  Mutex!Next
    <3>1. id[p] \in Contracts
      BY <2>4 DEF LockMutex, IInv, References
    <3>2. /\ pc[p] # "holding" /\ pc'[p] = "holding" /\ id'[p] = id[p]
          /\ \A q \in Procs \ {p} : pc'[q] = pc[q] /\ id'[q] = id[q]
      BY <2>4 DEF LockMutex, IInv, TypeOK
    <3> QED BY <2>1, <3>1, <3>2, AcquireStep DEF Mutex!Next
  <2>5. ASSUME NEW p \in Procs, UnlockMutex(p)
        PROVE  Mutex!Next
    <3>1. id[p] \in Contracts
      BY <2>5 DEF UnlockMutex, IInv, References
    <3>2. /\ pc[p] = "holding" /\ pc'[p] # "holding"
          /\ \A q \in Procs \ {p} : pc'[q] = pc[q] /\ id'[q] = id[q]
      BY <2>5 DEF UnlockMutex, IInv, TypeOK
    <3> QED BY <2>1, <3>1, <3>2, ReleaseStep DEF Mutex!Next
  <2>6. ASSUME NEW p \in Procs, DropReference(p)
        PROVE  OwnerOf(pc, id)' = OwnerOf(pc, id)
    BY <2>6, StutterStep DEF DropReference, IInv, TypeOK
  <2>7. CASE UNCHANGED vars
    BY <2>7, StutterStep DEF vars
  <2> QED
    BY <2>2, <2>3, <2>4, <2>5, <2>6, <2>7 DEF Next
<1> QED
  BY Invariance, <1>1, <1>2, PTL DEF Spec, ImplementsMutex, Mutex!Spec

-----------------------------------------------------------------------------
(***************************************************************************)
(* The maintenance pass (ContractMaintenance)                              *)
(***************************************************************************)

(* A contract the pass would keep or refresh.                               *)
Useful(e) == FullyGood(e) \/ e.refresh

(* Rows are only added to the contracts, whatever becomes of those there    *)
(* are.                                                                     *)
RowsKept(s) == s \in Seq(ContractRows) /\ Len(contracts) <= Len(s)

(* The best contracts know of the evaluations in S: the host of each has    *)
(* one, which is of use if the evaluated one was.                           *)
Covers(b, S) ==
    \A e \in S : e.host \in DOMAIN b /\ (Useful(e.eval) => Useful(b[e.host]))

(* What is noted down of a contract that is evaluated.                      *)
Noted(i) == [host |-> contracts[i].host, eval |-> Evaluated(i, started)]

Refers(b) == \A h \in DOMAIN b : b[h].id \in 1..Len(contracts)

RowTypes == contracts \in Seq(ContractRows) /\ height \in Nat /\ started \in Nat

(* The inductive invariant: whatever was evaluated in this pass, the best   *)
(* contract of its host makes up for it, and what the pass has noted down   *)
(* are contracts there are.                                                 *)
MaintenanceInv ==
    /\ RowTypes
    /\ mPc \in {"idle", "listRenewals", "renew"} => seen = {}
    /\ \A r \in eligible : r.id \in 1..Len(contracts)
    /\ Covers(best, seen) /\ Refers(best)
    /\ mPc = "existing" => todo \subseteq DOMAIN best

(* The rows are records, numbered from 1.                                   *)
LEMMA RowsTyped ==
    ASSUME RowTypes
    PROVE  /\ Len(contracts) \in Nat /\ DOMAIN contracts = 1..Len(contracts)
           /\ \A i \in 1..Len(contracts) : contracts[i] \in ContractRows
BY LenProperties, ElementOfSeq DEF RowTypes

LEMMA UnchangedRows == RowTypes => RowsKept(contracts)
BY RowsTyped DEF RowsKept, RowTypes

(* Changes in place.                                                        *)
LEMMA ChangedRows ==
    ASSUME RowTypes, NEW s, s = [i \in 1..Len(contracts) |-> s[i]],
           \A i \in 1..Len(contracts) : s[i] \in ContractRows
    PROVE  RowsKept(s) /\ Len(s) = Len(contracts)
<1>1. Len(contracts) \in Nat
  BY RowsTyped
<1>2. s \in [1..Len(contracts) -> ContractRows]
  OBVIOUS
<1>3. s \in Seq(ContractRows) /\ Len(s) = Len(contracts)
  BY <1>1, <1>2, IsASeq, LenProperties
<1> QED BY <1>1, <1>3 DEF RowsKept

(* A contract that is marked good or bad.                                   *)
LEMMA MarkedRow ==
    ASSUME NEW c \in ContractRows, NEW b \in BOOLEAN
    PROVE  [c EXCEPT !.good = b] \in ContractRows
BY DEF ContractRows

(* One more row.                                                            *)
LEMMA AddedRow ==
    ASSUME RowTypes, NEW s, RowsKept(s), Len(s) = Len(contracts), NEW r \in ContractRows
    PROVE  RowsKept(Append(s, r)) /\ Len(Append(s, r)) = Len(contracts) + 1
<1>1. Len(contracts) \in Nat /\ s \in Seq(ContractRows)
  BY RowsTyped DEF RowsKept
<1>2. /\ Append(s, r) \in Seq(ContractRows) /\ Len(Append(s, r)) = Len(s) + 1
      /\ \A i \in 1..Len(s) : Append(s, r)[i] = s[i]
  BY <1>1, AppendProperties
<1> QED BY <1>1, <1>2 DEF RowsKept

LEMMA FormedRows ==
    ASSUME RowTypes, NEW h \in MHosts
    PROVE  RowsKept(Formed(h)) /\ Len(Formed(h)) = Len(contracts) + 1
<1>1. NewContract(h, height + Period, TRUE) \in ContractRows
  BY MaintenanceAssumption DEF NewContract, ContractRows, RowTypes
<1> QED BY <1>1, UnchangedRows, AddedRow DEF Formed

LEMMA RenewedRows ==
    ASSUME RowTypes, NEW i \in 1..Len(contracts), NEW proof \in Nat
    PROVE  /\ RowsKept(Renewed(i, proof)) /\ Len(Renewed(i, proof)) = Len(contracts) + 1
           /\ Renewed(i, proof)[i].renewed = TRUE
<1> DEFINE s == [contracts EXCEPT ![i].renewed = TRUE]
           r == NewContract(contracts[i].host, proof, contracts[i].empty)
<1>1. contracts[i] \in ContractRows
  BY RowsTyped
<1>2. r \in ContractRows
  BY <1>1 DEF NewContract, ContractRows
<1>3. /\ s = [k \in 1..Len(contracts) |-> s[k]]
      /\ \A k \in 1..Len(contracts) :
            s[k] = IF k = i THEN [contracts[k] EXCEPT !.renewed = TRUE] ELSE contracts[k]
  BY RowsTyped
<1>4. ASSUME NEW k \in 1..Len(contracts)
      PROVE  s[k] \in ContractRows
  <2>1. PICK c : c = contracts[k]
    OBVIOUS
  <2>2. c \in ContractRows
    BY <2>1, RowsTyped
  <2>3. [c EXCEPT !.renewed = TRUE] \in ContractRows
    BY <2>2 DEF ContractRows
  <2> QED BY <1>3, <2>1, <2>2, <2>3
<1>5. s[i].renewed = TRUE
  BY <1>1, <1>3 DEF ContractRows
<1> HIDE DEF s, r
<1>6. RowsKept(s) /\ Len(s) = Len(contracts)
  BY <1>3, <1>4, ChangedRows
<1>7. RowsKept(Append(s, r)) /\ Len(Append(s, r)) = Len(contracts) + 1
  BY <1>2, <1>6, AddedRow
<1>8. Append(s, r)[i] = s[i]
  BY <1>2, <1>6, AppendProperties DEF RowsKept
<1>9. Renewed(i, proof) = Append(s, r)
  BY DEF Renewed, s, r
<1> QED BY <1>5, <1>7, <1>8, <1>9

-----------------------------------------------------------------------------
(* A step of shouldReplaceContract: the contract kept is of use if one of   *)
(* the two was.                                                             *)
LEMMA BetterOfTwo ==
    ASSUME NEW cur, NEW e
    PROVE  /\ ShouldReplaceContract(cur, e) => (Useful(cur) => Useful(e))
           /\ ~ShouldReplaceContract(cur, e) => (Useful(e) => Useful(cur))
BY DEF ShouldReplaceContract, Useful, FullyGood

(* A contract that is evaluated is covered from then on, and those before   *)
(* it still are.                                                            *)
LEMMA BestCovers ==
    ASSUME RowTypes, NEW b, NEW S, Covers(b, S), Refers(b), NEW n \in 1..Len(contracts)
    PROVE  LET b2 == Best(b, contracts[n].host, Evaluated(n, started))
           IN  Covers(b2, S \cup {Noted(n)}) /\ Refers(b2)
<1>1. PICK h : h = contracts[n].host
  OBVIOUS
<1>2. PICK e : e = Evaluated(n, started)
  OBVIOUS
<1>3. e.id = n /\ Noted(n) = [host |-> h, eval |-> e]
  BY <1>1, <1>2 DEF Evaluated, Noted
<1>4. PICK b2 : b2 = Best(b, h, e)
  OBVIOUS
<1>5. CASE h \notin DOMAIN b
  <2>1. b2 = [x \in DOMAIN b \cup {h} |-> IF x = h THEN e ELSE b[x]]
    BY <1>4, <1>5 DEF Best
  <2>2. DOMAIN b2 = DOMAIN b \cup {h} /\ b2[h] = e /\ \A x \in DOMAIN b : b2[x] = b[x]
    BY <1>5, <2>1
  <2>3. Refers(b2)
    BY <1>3, <2>2 DEF Refers
  <2>4. Covers(b2, S \cup {Noted(n)})
    BY <1>3, <2>2 DEF Covers
  <2> QED BY <1>1, <1>2, <1>4, <2>3, <2>4
<1>6. CASE h \in DOMAIN b /\ ShouldReplaceContract(b[h], e)
  <2>1. b2 = [b EXCEPT ![h] = e]
    BY <1>4, <1>6 DEF Best
  <2>2. DOMAIN b2 = DOMAIN b /\ b2[h] = e /\ \A x \in DOMAIN b : x # h => b2[x] = b[x]
    BY <1>6, <2>1
  <2>3. Refers(b2)
    BY <1>3, <2>2 DEF Refers
  <2>4. Useful(b[h]) => Useful(b2[h])
    BY <1>6, <2>2, BetterOfTwo
  <2>5. Covers(b2, S \cup {Noted(n)})
    BY <1>3, <1>6, <2>2, <2>4 DEF Covers
  <2> QED BY <1>1, <1>2, <1>4, <2>3, <2>5
<1>7. CASE h \in DOMAIN b /\ ~ShouldReplaceContract(b[h], e)
  <2>1. b2 = b
    BY <1>4, <1>7 DEF Best
  <2>2. Useful(e) => Useful(b[h])
    BY <1>7, BetterOfTwo
  <2>3. Covers(b2, S \cup {Noted(n)})
    BY <1>3, <1>7, <2>1, <2>2 DEF Covers
  <2> QED BY <1>1, <1>2, <1>4, <2>1, <2>3
<1> QED BY <1>5, <1>6, <1>7

(* The best contracts from row to row of a page.                            *)
BestFrom(f, n, page) ==
    f = [k \in 0..n |->
            IF k = 0 THEN best
            ELSE IF k \in page THEN Best(f[k - 1], contracts[k].host, Evaluated(k, started))
            ELSE f[k - 1]]

(* A set of numbers that is not empty has a least one.                      *)
LEMMA LeastNat ==
    ASSUME NEW T, T \subseteq Nat, T # {} PROVE \E n \in T : \A k \in T : n <= k
<1>1. PICK n \in T : \A k \in T : ~(<<k, n>> \in OpToRel(<, Nat))
  BY NatLessThanWellFounded, WFMin, Zenon
<1>2. \A k \in T : ~(k < n)
  BY <1>1 DEF OpToRel
<1> QED BY <1>2

(* The function BestAfter defines by recursion exists.                      *)
LEMMA BestFromExists ==
    ASSUME NEW page, NEW n \in Nat PROVE \E f : BestFrom(f, n, page)
<1> DEFINE Bad == {k \in Nat : ~(\E f : BestFrom(f, k, page))}
           Then(b, k) == IF k \in page THEN Best(b, contracts[k].host, Evaluated(k, started)) ELSE b
<1> SUFFICES ASSUME Bad # {} PROVE FALSE
  OBVIOUS
<1>1. PICK k \in Bad : \A j \in Bad : k <= j
  <2>1. Bad \subseteq Nat
    OBVIOUS
  <2> HIDE DEF Bad
  <2> QED BY <2>1, LeastNat
<1>2. k \in Nat /\ ~(\E f : BestFrom(f, k, page))
  BY <1>1
<1>3. \A f : \A m \in Nat : BestFrom(f, m, page) <=>
         f = [i \in 0..m |-> IF i = 0 THEN best ELSE Then(f[i - 1], i)]
  BY DEF BestFrom
<1> HIDE DEF Then
<1>4. CASE k = 0
  <2> DEFINE g == [i \in 0..0 |-> best]
  <2>1. \A i \in 0..k : i = 0
    BY <1>4
  <2>2. g = [i \in 0..k |-> IF i = 0 THEN best ELSE Then(g[i - 1], i)]
    BY <1>4, <2>1
  <2> QED BY <1>2, <1>3, <2>2
<1>5. CASE k > 0
  <2>1. k - 1 \in Nat /\ k - 1 \notin Bad
    BY <1>1, <1>2, <1>5
  <2>2. PICK h : BestFrom(h, k - 1, page)
    BY <2>1
  <2>3. \A i \in 0..(k - 1) : h[i] = IF i = 0 THEN best ELSE Then(h[i - 1], i)
    BY <1>3, <2>1, <2>2
  <2> DEFINE last == Then(h[k - 1], k)
             g == [i \in 0..k |-> IF i = k THEN last ELSE h[i]]
  <2>4. /\ \A i \in 0..(k - 1) : i \in 0..k /\ i # k /\ (i # 0 => i - 1 \in 0..(k - 1))
        /\ \A i \in 0..k : i # k => i \in 0..(k - 1)
        /\ k \in 0..k /\ k # 0 /\ k - 1 \in 0..(k - 1)
    BY <1>2, <1>5
  <2>5. g[k] = last /\ \A i \in 0..(k - 1) : g[i] = h[i]
    <3> HIDE DEF last
    <3> QED BY <2>4
  <2>6. DOMAIN g = 0..k /\ g = [i \in 0..k |-> g[i]]
    OBVIOUS
  <2> HIDE DEF g
  <2>7. \A i \in 0..k : g[i] = IF i = 0 THEN best ELSE Then(g[i - 1], i)
    <3> SUFFICES ASSUME NEW i \in 0..k
                 PROVE  g[i] = IF i = 0 THEN best ELSE Then(g[i - 1], i)
      OBVIOUS
    <3>1. CASE i = k
      BY <2>4, <2>5, <3>1
    <3>2. CASE i # k
      <4>1. i \in 0..(k - 1) /\ g[i] = h[i]
        BY <2>4, <2>5, <3>2
      <4>2. i # 0 => g[i - 1] = h[i - 1]
        BY <2>4, <2>5, <4>1
      <4> QED BY <2>3, <4>1, <4>2
    <3> QED BY <3>1, <3>2
  <2>8. g = [i \in 0..k |-> IF i = 0 THEN best ELSE Then(g[i - 1], i)]
    BY <2>6, <2>7
  <2> QED BY <1>2, <1>3, <2>8
<1> QED BY <1>2, <1>4, <1>5

(* The best contracts after a page cover what they covered before and the   *)
(* page.                                                                    *)
LEMMA PageCovered ==
    ASSUME RowTypes, NEW page \in SUBSET (1..Len(contracts)), NEW S, Covers(best, S), Refers(best)
    PROVE  Covers(BestAfter(page), S \cup {Noted(i) : i \in page}) /\ Refers(BestAfter(page))
<1> DEFINE n == Len(contracts)
           g == CHOOSE f : BestFrom(f, n, page)
<1>1. n \in Nat /\ \A i \in page : i \in Nat /\ 1 <= i /\ i <= n
  <2>1. n \in Nat
    BY RowsTyped
  <2> QED BY <2>1
<1>2. \E f : BestFrom(f, n, page)
  BY <1>1, BestFromExists
<1>3. BestFrom(g, n, page)
  BY <1>2, Zenon
<1>4. g = CHOOSE f : f = [k \in 0..n |->
             IF k = 0 THEN best
             ELSE IF k \in page THEN Best(f[k - 1], contracts[k].host, Evaluated(k, started))
             ELSE f[k - 1]]
  BY DEF BestFrom
<1>5. BestAfter(page) = g[n]
  BY <1>4 DEF BestAfter
<1> HIDE DEF g
<1>6. /\ g[0] = best
      /\ \A k \in 1..n : g[k] = IF k \in page THEN Best(g[k - 1], contracts[k].host, Evaluated(k, started))
                                ELSE g[k - 1]
  <2>1. \A k \in 0..n : g[k] = IF k = 0 THEN best
                               ELSE IF k \in page THEN Best(g[k - 1], contracts[k].host, Evaluated(k, started))
                               ELSE g[k - 1]
    BY <1>3 DEF BestFrom
  <2>2. 0 \in 0..n /\ \A k \in 1..n : k \in 0..n /\ k # 0
    BY <1>1
  <2> QED BY <2>1, <2>2
<1> DEFINE Upto(k) == S \cup {Noted(i) : i \in {j \in page : j <= k}}
           Bad == {k \in 0..n : ~(Covers(g[k], Upto(k)) /\ Refers(g[k]))}
<1>7. Bad = {}
  <2> SUFFICES ASSUME Bad # {} PROVE FALSE
    OBVIOUS
  <2>1. PICK k \in Bad : \A j \in Bad : k <= j
    <3>1. Bad \subseteq Nat
      BY <1>1
    <3> HIDE DEF Bad
    <3> QED BY <3>1, LeastNat
  <2>2. k \in 0..n /\ ~(Covers(g[k], Upto(k)) /\ Refers(g[k]))
    BY <2>1
  <2>3. CASE k = 0
    <3>1. \A i \in page : ~(i <= k)
      BY <1>1, <2>3
    <3>2. Upto(k) = S
      BY <3>1
    <3> QED BY <1>6, <2>2, <2>3, <3>2
  <2>4. CASE k # 0
    <3>1. k - 1 \in 0..n /\ k \in 1..n /\ k - 1 \notin Bad
      <4>1. k - 1 \in 0..n /\ k \in 1..n /\ k - 1 < k
        BY <1>1, <2>2, <2>4
      <4> HIDE DEF Bad
      <4> QED BY <2>1, <4>1
    <3>2. Covers(g[k - 1], Upto(k - 1)) /\ Refers(g[k - 1])
      BY <3>1
    <3>3. CASE k \in page
      <4>1. g[k] = Best(g[k - 1], contracts[k].host, Evaluated(k, started))
        BY <1>6, <3>1, <3>3
      <4>2. Upto(k) = Upto(k - 1) \cup {Noted(k)}
        <5>1. \A i \in page : i <= k <=> (i <= k - 1 \/ i = k)
          BY <1>1, <3>1
        <5> QED BY <3>3, <5>1
      <4>3. PICK b : b = g[k - 1]
        OBVIOUS
      <4>4. PICK T : T = Upto(k - 1)
        OBVIOUS
      <4>5. Covers(b, T) /\ Refers(b)
        BY <3>2, <4>3, <4>4
      <4>6. Covers(g[k], T \cup {Noted(k)}) /\ Refers(g[k])
        <5>1. k \in 1..Len(contracts)
          BY <3>1
        <5>2. /\ Covers(Best(b, contracts[k].host, Evaluated(k, started)), T \cup {Noted(k)})
              /\ Refers(Best(b, contracts[k].host, Evaluated(k, started)))
          BY <4>5, <5>1, BestCovers, Zenon
        <5> QED BY <4>1, <4>3, <5>2
      <4> HIDE DEF Upto
      <4> QED BY <2>2, <4>2, <4>4, <4>6
    <3>4. CASE k \notin page
      <4>1. g[k] = g[k - 1]
        BY <1>6, <3>1, <3>4
      <4>2. Upto(k) = Upto(k - 1)
        <5>1. \A i \in page : i <= k <=> i <= k - 1
          BY <1>1, <3>1, <3>4
        <5> QED BY <5>1
      <4> QED BY <2>2, <3>2, <4>1, <4>2
    <3> QED BY <3>3, <3>4
  <2> QED BY <2>3, <2>4
<1>8. Covers(g[n], Upto(n)) /\ Refers(g[n])
  <2>1. n \in 0..n
    BY <1>1
  <2> QED BY <1>7, <2>1
<1>9. Upto(n) = S \cup {Noted(i) : i \in page}
  BY <1>1
<1> QED BY <1>5, <1>8, <1>9

-----------------------------------------------------------------------------
(* What is noted down stays right while rows are kept.                      *)
LEMMA StillCovered ==
    ASSUME MaintenanceInv, RowsKept(contracts'), height' \in Nat, UNCHANGED <<started, best, seen>>,
           \A r \in eligible' : r.id \in 1..Len(contracts),
           mPc' \in {"idle", "listRenewals", "renew"} => mPc \in {"idle", "listRenewals", "renew"},
           mPc' = "existing" => mPc = "existing" /\ todo' \subseteq todo
    PROVE  MaintenanceInv'
<1>1. RowTypes /\ Covers(best, seen) /\ Refers(best)
  BY DEF MaintenanceInv
<1>2. Len(contracts) \in Nat /\ contracts' \in Seq(ContractRows) /\ Len(contracts') \in Nat
      /\ Len(contracts) <= Len(contracts')
  BY <1>1, RowsTyped, LenProperties DEF RowsKept
<1>3. 1..Len(contracts) \subseteq 1..Len(contracts')
  BY <1>2
<1>4. RowTypes'
  BY <1>1, <1>2 DEF RowTypes
<1>5. Covers(best, seen)'
  BY <1>1 DEF Covers, Useful, FullyGood
<1>6. Refers(best)'
  BY <1>1, <1>3 DEF Refers
<1>7. /\ mPc' \in {"idle", "listRenewals", "renew"} => seen' = {}
      /\ \A r \in eligible' : r.id \in 1..Len(contracts')
      /\ mPc' = "existing" => todo' \subseteq DOMAIN best'
  BY <1>1, <1>3 DEF MaintenanceInv
<1> QED BY <1>4, <1>5, <1>6, <1>7 DEF MaintenanceInv

LEMMA MaintenanceInitHolds == MaintenanceInit => MaintenanceInv
<1> SUFFICES ASSUME MaintenanceInit PROVE MaintenanceInv
  OBVIOUS
<1>1. RowTypes
  BY MaintenanceAssumption DEF MaintenanceInit, RowTypes
<1>2. DOMAIN best = {} /\ seen = {} /\ eligible = {} /\ mPc = "idle"
  BY EmptySeq DEF MaintenanceInit
<1> QED BY <1>1, <1>2 DEF MaintenanceInv, Covers, Refers

(* Steps that leave the contracts alone.                                    *)
LEMMA QuietSteps ==
    ASSUME MaintenanceInv,
           \/ ListRenewals \/ ListUnpinnable \/ StartAdditional \/ UpdateStuckHosts
           \/ ContractsForBroadcasting \/ NewBlock \/ UNCHANGED maintainVars
           \/ \E h \in MHosts : SkipCandidate(h) \/ HostScanned(h)
           \/ \E sent \in BOOLEAN : BroadcastRevision(sent)
    PROVE  MaintenanceInv'
<1>1. UNCHANGED <<contracts, started, best, seen>>
  BY DEF ListRenewals, ListUnpinnable, StartAdditional, UpdateStuckHosts, ContractsForBroadcasting,
         NewBlock, SkipCandidate, HostScanned, BroadcastRevision, maintainVars, world, passState
<1>2. RowsKept(contracts')
  BY <1>1, UnchangedRows DEF MaintenanceInv
<1>3. height' \in Nat
  <2>1. height \in Nat
    BY DEF MaintenanceInv, RowTypes
  <2>2. height' = height \/ height' = height + 1
    BY DEF ListRenewals, ListUnpinnable, StartAdditional, UpdateStuckHosts,
           ContractsForBroadcasting, NewBlock, SkipCandidate, HostScanned, BroadcastRevision,
           maintainVars, world
  <2> QED BY <2>1, <2>2
<1>4. /\ mPc' \in {"idle", "listRenewals", "renew"} => mPc \in {"idle", "listRenewals", "renew"}
      /\ mPc' = "existing" => mPc = "existing" /\ todo' \subseteq todo
  BY DEF ListRenewals, ListUnpinnable, StartAdditional, UpdateStuckHosts, ContractsForBroadcasting,
         NewBlock, SkipCandidate, HostScanned, BroadcastRevision, maintainVars, passState
<1>5. \A r \in eligible' : r.id \in 1..Len(contracts)
  <2>1. CASE ListRenewals
    <3>1. PICK due \in SUBSET DOMAIN contracts :
             eligible' = eligible \cup {[id |-> i, empty |-> contracts[i].empty] : i \in due}
      BY <2>1 DEF ListRenewals, Page
    <3>2. DOMAIN contracts = 1..Len(contracts)
      BY RowsTyped DEF MaintenanceInv
    <3> QED BY <3>1, <3>2 DEF MaintenanceInv
  <2>2. CASE UNCHANGED eligible
    BY <2>2 DEF MaintenanceInv
  <2> QED
    BY <2>1, <2>2 DEF ListUnpinnable, StartAdditional, UpdateStuckHosts, ContractsForBroadcasting,
         NewBlock, SkipCandidate, HostScanned, BroadcastRevision, maintainVars, passState
<1> QED BY <1>1, <1>2, <1>3, <1>4, <1>5, StillCovered

(* What a host is asked for adds a row: a renewal, a refresh or a new       *)
(* contract.                                                                *)
LEMMA RenewalStep ==
    ASSUME MaintenanceInv, NEW success \in BOOLEAN, RenewContract(success)
    PROVE  MaintenanceInv'
<1>1. RowTypes /\ \A r \in eligible : r.id \in 1..Len(contracts)
  BY DEF MaintenanceInv
<1>2. PICK r \in eligible :
        /\ contracts' = IF success THEN Renewed(r.id, started + Period) ELSE contracts
        /\ eligible' = eligible \ {r}
  BY DEF RenewContract
<1>3. started + Period \in Nat
  BY <1>1, MaintenanceAssumption DEF RowTypes
<1>4. RowsKept(contracts')
  <2>1. RowsKept(Renewed(r.id, started + Period))
    BY <1>1, <1>3, RenewedRows
  <2> QED BY <1>1, <1>2, <2>1, UnchangedRows
<1>5. UNCHANGED <<height, started, best, seen, mPc, todo>>
  BY DEF RenewContract
<1>6. height' \in Nat
  BY <1>1, <1>5 DEF RowTypes
<1>7. \A s \in eligible' : s.id \in 1..Len(contracts)
  BY <1>1, <1>2
<1> QED BY <1>4, <1>5, <1>6, <1>7, StillCovered

LEMMA FormationStep ==
    ASSUME RowTypes, NEW h \in MHosts, NEW result, FormContract(h, result)
    PROVE  RowsKept(contracts')
BY FormedRows, UnchangedRows DEF FormContract

LEMMA RefreshStep ==
    ASSUME MaintenanceInv, NEW h \in DOMAIN best, NEW result, RefreshContract(h, result)
    PROVE  RowsKept(contracts')
<1>1. RowTypes /\ best[h].id \in 1..Len(contracts)
  BY DEF MaintenanceInv, Refers
<1>2. contracts[best[h].id].proof \in Nat
  BY <1>1, RowsTyped DEF ContractRows
<1>3. RowsKept(Renewed(best[h].id, contracts[best[h].id].proof))
  BY <1>1, <1>2, RenewedRows
<1> QED BY <1>1, <1>3, UnchangedRows DEF RefreshContract

LEMMA FormationSteps ==
    ASSUME MaintenanceInv, NEW h \in MHosts,
           \/ MaintainExisting(h)
           \/ \E success \in BOOLEAN : FormUnpinnable(h, success) \/ FormAdditional(h, success)
    PROVE  MaintenanceInv'
<1>1. RowTypes
  BY DEF MaintenanceInv
<1>2. UNCHANGED <<height, started, best, seen, mPc, eligible>> /\ todo' \subseteq todo
  BY DEF MaintainExisting, Outcome, FormUnpinnable, FormAdditional, FormWithNewHost
<1>3. RowsKept(contracts')
  <2>1. CASE MaintainExisting(h)
    <3>1. h \in DOMAIN best
      BY <2>1 DEF MaintainExisting, MaintenanceInv
    <3>2. \/ UNCHANGED contracts
          \/ \E result \in Results : RefreshContract(h, result) \/ FormContract(h, result)
      BY <2>1 DEF MaintainExisting
    <3> QED BY <1>1, <3>1, <3>2, UnchangedRows, RefreshStep, FormationStep
  <2>2. CASE \E success \in BOOLEAN : FormUnpinnable(h, success) \/ FormAdditional(h, success)
    <3>1. \E result : FormContract(h, result)
      BY <2>2 DEF FormUnpinnable, FormAdditional, FormWithNewHost
    <3> QED BY <1>1, <3>1, FormationStep
  <2> QED BY <2>1, <2>2
<1>4. height' \in Nat /\ \A r \in eligible' : r.id \in 1..Len(contracts)
  BY <1>2 DEF MaintenanceInv, RowTypes
<1> QED BY <1>2, <1>3, <1>4, StillCovered

(* What others do to a contract leaves it a contract.                       *)
LEMMA UseStep ==
    ASSUME MaintenanceInv, NEW i \in DOMAIN contracts, UseContract(i)
    PROVE  MaintenanceInv' /\ Len(contracts') = Len(contracts)
<1>1. RowTypes /\ i \in 1..Len(contracts) /\ DOMAIN contracts = 1..Len(contracts)
  BY RowsTyped DEF MaintenanceInv
<1>2. contracts[i] \in ContractRows
  BY <1>1, RowsTyped
<1>3. PICK c : c = contracts[i]
  OBVIOUS
<1>4. PICK d : /\ d \in {[c EXCEPT !.room = ~c.room], [c EXCEPT !.fits = ~c.fits],
                         [c EXCEPT !.empty = ~c.empty], [c EXCEPT !.funds = FALSE],
                         [c EXCEPT !.good = FALSE]}
               /\ contracts' = [contracts EXCEPT ![i] = d]
  BY <1>3 DEF UseContract
<1>5. d \in ContractRows
  BY <1>2, <1>3, <1>4 DEF ContractRows
<1>6. contracts' = [k \in 1..Len(contracts) |-> contracts'[k]]
      /\ \A k \in 1..Len(contracts) : contracts'[k] = IF k = i THEN d ELSE contracts[k]
  BY <1>1, <1>4
<1>7. \A k \in 1..Len(contracts) : contracts'[k] \in ContractRows
  BY <1>1, <1>5, <1>6, RowsTyped
<1>8. RowsKept(contracts') /\ Len(contracts') = Len(contracts)
  BY <1>1, <1>6, <1>7, ChangedRows
<1>9. UNCHANGED <<height, started, best, seen, mPc, todo, eligible>>
  BY DEF UseContract, passState
<1>10. height' \in Nat /\ \A r \in eligible' : r.id \in 1..Len(contracts)
  BY <1>9 DEF MaintenanceInv, RowTypes
<1> QED BY <1>8, <1>9, <1>10, StillCovered

(* Every row is marked anew.                                                *)
LEMMA MarkedRows ==
    ASSUME RowTypes, NEW B, NEW s,
           s = [i \in DOMAIN contracts |-> [contracts[i] EXCEPT !.good = i \in B]]
    PROVE  RowsKept(s) /\ Len(s) = Len(contracts)
<1>1. DOMAIN contracts = 1..Len(contracts)
  BY RowsTyped
<1>2. s = [i \in 1..Len(contracts) |-> s[i]]
  BY <1>1
<1>3. ASSUME NEW i \in 1..Len(contracts)
      PROVE  s[i] \in ContractRows
  <2>1. PICK c : c = contracts[i]
    OBVIOUS
  <2>2. s[i] = [c EXCEPT !.good = i \in B]
    BY <1>1, <2>1
  <2>3. c \in ContractRows
    BY <2>1, RowsTyped
  <2>4. (i \in B) \in BOOLEAN
    OBVIOUS
  <2> QED BY <2>2, <2>3, <2>4, MarkedRow
<1> QED BY <1>2, <1>3, ChangedRows

(* Hosts are blocked: their contracts turn bad.                             *)
LEMMA BlockedRows ==
    ASSUME RowTypes, NEW bad, BlockHosts(bad)
    PROVE  RowsKept(contracts') /\ Len(contracts') = Len(contracts)
<1> DEFINE B == {i \in DOMAIN contracts : contracts[i].good /\ contracts[i].host \notin bad}
<1>1. contracts' = [i \in DOMAIN contracts |-> [contracts[i] EXCEPT !.good = i \in B]]
  <2>1. \A i \in DOMAIN contracts : (contracts[i].good /\ contracts[i].host \notin bad) = (i \in B)
    <3>1. \A i \in DOMAIN contracts : contracts[i].good \in BOOLEAN
      BY RowsTyped DEF ContractRows
    <3> QED BY <3>1
  <2>2. contracts' = [i \in DOMAIN contracts |->
           [contracts[i] EXCEPT !.good = contracts[i].good /\ contracts[i].host \notin bad]]
    BY DEF BlockHosts
  <2> HIDE DEF B
  <2> QED BY <2>1, <2>2, Zenon
<1> HIDE DEF B
<1> QED BY <1>1, MarkedRows

(* The operator blocks or unblocks a host.                                  *)
LEMMA BlocklistSteps ==
    ASSUME MaintenanceInv, NEW h \in MHosts, BlockHost(h) \/ UnblockHost(h)
    PROVE  MaintenanceInv' /\ Len(contracts') = Len(contracts)
<1>1. RowTypes
  BY DEF MaintenanceInv
<1>2. UNCHANGED <<height, started, best, seen, mPc, todo, eligible>>
  BY DEF BlockHost, UnblockHost, passState
<1>3. RowsKept(contracts') /\ Len(contracts') = Len(contracts)
  <2>1. CASE BlockHost(h)
    BY <1>1, <2>1, BlockedRows DEF BlockHost
  <2>2. CASE UnblockHost(h)
    <3> DEFINE B == {i \in DOMAIN contracts : contracts[i].good \/ contracts[i].host = h}
    <3>1. \A i \in DOMAIN contracts : (contracts[i].good \/ contracts[i].host = h) = (i \in B)
      <4>1. \A i \in DOMAIN contracts : contracts[i].good \in BOOLEAN
        BY <1>1, RowsTyped DEF ContractRows
      <4> QED BY <4>1
    <3>2. contracts' = [i \in DOMAIN contracts |->
             [contracts[i] EXCEPT !.good = contracts[i].good \/ contracts[i].host = h]]
      BY <2>2 DEF UnblockHost
    <3> HIDE DEF B
    <3>3. contracts' = [i \in DOMAIN contracts |-> [contracts[i] EXCEPT !.good = i \in B]]
      BY <3>1, <3>2, Zenon
    <3> QED BY <1>1, <3>3, MarkedRows
  <2> QED BY <2>1, <2>2
<1>4. height' \in Nat /\ \A r \in eligible' : r.id \in 1..Len(contracts)
  BY <1>2 DEF MaintenanceInv, RowTypes
<1> QED BY <1>2, <1>3, <1>4, StillCovered

(* The pass begins, and lists what to look at, with nothing evaluated.      *)
LEMMA BlockingStep ==
    ASSUME MaintenanceInv, BlockBadHosts
    PROVE  MaintenanceInv' /\ Len(contracts') = Len(contracts)
<1>1. RowTypes /\ seen = {} /\ Refers(best) /\ mPc = "idle"
  BY DEF MaintenanceInv, BlockBadHosts
<1>2. PICK bad : BlockHosts(bad)
  BY DEF BlockBadHosts
<1>3. RowsKept(contracts') /\ Len(contracts') = Len(contracts)
  BY <1>1, <1>2, BlockedRows
<1>4. /\ seen' = {} /\ eligible' = {} /\ started' = height /\ mPc' = "listRenewals"
      /\ UNCHANGED <<height, best>>
  BY <1>1 DEF BlockBadHosts
<1>5. RowTypes' /\ Refers(best)'
  BY <1>1, <1>3, <1>4 DEF RowTypes, RowsKept, Refers
<1>6. Covers(best, seen)'
  BY <1>4 DEF Covers
<1> QED BY <1>3, <1>4, <1>5, <1>6 DEF MaintenanceInv

LEMMA MarkingStep ==
    ASSUME MaintenanceInv, MarkUnrenewableContractsBad
    PROVE  MaintenanceInv' /\ Len(contracts') = Len(contracts)
<1>1. RowTypes /\ seen = {} /\ mPc = "renew"
  BY DEF MaintenanceInv, MarkUnrenewableContractsBad
<1> DEFINE InTime(i) == contracts[i].renewed \/ contracts[i].proof > started + RenewWindow \div 2
           B == {i \in DOMAIN contracts : contracts[i].good /\ InTime(i)}
<1>2. contracts' = [i \in DOMAIN contracts |-> [contracts[i] EXCEPT !.good = i \in B]]
  <2>1. contracts' = [i \in DOMAIN contracts |->
           [contracts[i] EXCEPT !.good = contracts[i].good /\ InTime(i)]]
    BY DEF MarkUnrenewableContractsBad
  <2> HIDE DEF InTime
  <2>2. \A i \in DOMAIN contracts : (contracts[i].good /\ InTime(i)) = (i \in B)
    <3>1. \A i \in DOMAIN contracts : contracts[i].good \in BOOLEAN
      BY <1>1, RowsTyped DEF ContractRows
    <3> QED BY <3>1
  <2> HIDE DEF B
  <2> QED BY <2>1, <2>2, Zenon
<1>3. RowsKept(contracts') /\ Len(contracts') = Len(contracts)
  <2> HIDE DEF B
  <2> QED BY <1>1, <1>2, MarkedRows
<1>4. /\ seen' = {} /\ eligible' = {} /\ best' = <<>> /\ mPc' = "listContracts"
      /\ UNCHANGED <<height, started>>
  BY <1>1 DEF MarkUnrenewableContractsBad
<1>5. DOMAIN best' = {}
  BY <1>4, EmptySeq
<1>6. RowTypes' /\ Refers(best)'
  BY <1>1, <1>3, <1>4, <1>5 DEF RowTypes, RowsKept, Refers
<1>7. Covers(best, seen)'
  BY <1>4 DEF Covers
<1> QED BY <1>3, <1>4, <1>6, <1>7 DEF MaintenanceInv

(* A page is evaluated.                                                     *)
LEMMA EvaluationStep ==
    ASSUME MaintenanceInv, EvaluateContracts
    PROVE  MaintenanceInv' /\ UNCHANGED contracts
<1>1. RowTypes /\ Covers(best, seen) /\ Refers(best)
  BY DEF MaintenanceInv
<1>2. PICK page \in SUBSET DOMAIN contracts :
        /\ best' = BestAfter(page) /\ seen' = seen \cup {Noted(i) : i \in page}
        /\ \/ mPc' = "existing" /\ todo' = DOMAIN best'
           \/ mPc' = "listContracts"
  BY DEF EvaluateContracts, Page, Noted
<1>3. page \in SUBSET (1..Len(contracts))
  BY <1>1, RowsTyped
<1>4. Covers(best', seen') /\ Refers(best')
  BY <1>1, <1>2, <1>3, PageCovered
<1>5. UNCHANGED <<contracts, height, started, eligible>>
  BY DEF EvaluateContracts, world
<1>6. Covers(best, seen)' /\ Refers(best)' /\ RowTypes'
  BY <1>1, <1>4, <1>5 DEF Covers, Refers, Useful, FullyGood, RowTypes
<1>7. \A r \in eligible' : r.id \in 1..Len(contracts')
  BY <1>1, <1>2, <1>3, <1>5 DEF MaintenanceInv
<1>8. mPc' \notin {"idle", "listRenewals", "renew"} /\ (mPc' = "existing" => todo' \subseteq DOMAIN best')
  BY <1>2
<1>9. MaintenanceInv'
  BY <1>6, <1>7, <1>8 DEF MaintenanceInv
<1> QED BY <1>5, <1>9

LEMMA EndStep ==
    ASSUME MaintenanceInv, EndPass
    PROVE  MaintenanceInv' /\ UNCHANGED contracts
<1>1. /\ seen' = {} /\ eligible' = {} /\ best' = <<>> /\ mPc' = "idle" /\ started' = 0
      /\ UNCHANGED <<height, contracts>>
  BY DEF EndPass, ClearPass, world
<1>2. DOMAIN best' = {}
  BY <1>1, EmptySeq
<1>3. RowTypes' /\ Refers(best)' /\ Covers(best, seen)'
  BY <1>1, <1>2 DEF MaintenanceInv, RowTypes, Refers, Covers
<1> QED BY <1>1, <1>3 DEF MaintenanceInv

LEMMA MaintenanceNextHolds == MaintenanceInv /\ [MaintenanceNext]_maintainVars => MaintenanceInv'
BY QuietSteps, RenewalStep, FormationSteps, UseStep, BlocklistSteps, BlockingStep, MarkingStep, EvaluationStep,
   EndStep
   DEF MaintenanceNext, PassStep

(* The invariant behind the theorem below.                                  *)
THEOREM MaintenanceInvariance == MaintenanceSpec => []MaintenanceInv
BY MaintenanceInitHolds, MaintenanceNextHolds, PTL DEF MaintenanceSpec

(* Two new contracts are the same only if they are with the same host, and  *)
(* a refresh is never taken for one.                                        *)
LEMMA FormedWith ==
    ASSUME RowTypes, NEW g \in MHosts, NEW h \in MHosts, Formed(g) = Formed(h)
    PROVE  g = h
<1> DEFINE c(x) == NewContract(x, height + Period, TRUE)
<1>1. contracts \in Seq(ContractRows)
  BY DEF RowTypes
<1>2. c(g) \in ContractRows /\ c(h) \in ContractRows
  BY MaintenanceAssumption DEF NewContract, ContractRows, RowTypes
<1>3. Append(contracts, c(g))[Len(contracts) + 1] = c(g) /\ Append(contracts, c(h))[Len(contracts) + 1] = c(h)
  BY <1>1, <1>2, AppendProperties
<1>4. c(g) = c(h)
  BY <1>3 DEF Formed
<1>5. c(g).host = g /\ c(h).host = h
  BY DEF NewContract
<1> QED BY <1>4, <1>5

LEMMA RefreshIsNoFormation ==
    ASSUME RowTypes, NEW i \in 1..Len(contracts), CanRenew(i), NEW proof \in Nat, NEW h \in MHosts
    PROVE  Renewed(i, proof) # Formed(h)
<1>1. Renewed(i, proof)[i].renewed = TRUE
  BY RenewedRows
<1>2. contracts[i].renewed = FALSE
  BY RowsTyped DEF CanRenew, Revisable, ContractRows
<1>3. NewContract(h, height + Period, TRUE) \in ContractRows
  BY MaintenanceAssumption DEF NewContract, ContractRows, RowTypes
<1>4. Formed(h)[i] = contracts[i]
  BY <1>3, AppendProperties DEF Formed, RowTypes
<1> QED BY <1>1, <1>2, <1>4

(* A contract is formed with a host that has contracts only when none of    *)
(* those evaluated in this pass was good for both uses or fit for a         *)
(* refresh: for any number of hosts, contracts and pages, in whatever order *)
(* they were listed and whatever blocks, uploads, prunes and operators do   *)
(* between their evaluation and the formation.                              *)
THEOREM NoContractIsNeedless == MaintenanceSpec => NoNeedlessContract
<1> DEFINE Needed(h) ==
             mPc = "existing" /\ h \in todo /\ Len(contracts') > Len(contracts) /\ contracts' = Formed(h)
             => \A e \in seen : e.host = h => ~FullyGood(e.eval) /\ ~e.eval.refresh
<1>1. MaintenanceInv /\ [MaintenanceNext]_maintainVars => [\A h \in MHosts : Needed(h)]_maintainVars
  <2> SUFFICES ASSUME MaintenanceInv, MaintenanceNext, NEW h \in MHosts, mPc = "existing", h \in todo,
                      Len(contracts') > Len(contracts), contracts' = Formed(h),
                      NEW e \in seen, e.host = h, Useful(e.eval)
               PROVE  FALSE
    BY DEF Useful
  <2>1. RowTypes /\ Covers(best, seen) /\ Len(contracts) \in Nat /\ todo \subseteq DOMAIN best /\ Refers(best)
    BY RowsTyped DEF MaintenanceInv
  <2>2. Useful(best[h])
    BY <2>1 DEF Covers
  <2>3. contracts' # contracts /\ Len(contracts') # Len(contracts)
    BY <2>1
  <2>4. PICK g \in MHosts : MaintainExisting(g)
    <3>1. ~(\E k \in DOMAIN contracts : UseContract(k))
      BY <2>3, UseStep
    <3>2. ~(\E g \in MHosts : BlockHost(g) \/ UnblockHost(g))
      BY <2>3, BlocklistSteps
    <3> QED BY <2>3, <3>1, <3>2 DEF MaintenanceNext, PassStep, NewBlock, HostScanned, BlockBadHosts,
           ListRenewals, MarkUnrenewableContractsBad, EvaluateContracts, RenewContract, BroadcastRevision, SkipCandidate,
           FormUnpinnable, FormAdditional, ListUnpinnable, StartAdditional, UpdateStuckHosts,
           ContractsForBroadcasting, EndPass
  <2>5. PICK result \in Results :
          /\ ~FullyGood(best[g]) /\ g \in todo
          /\ IF best[g].refresh THEN RefreshContract(g, result) ELSE FormContract(g, result)
    BY <2>3, <2>4 DEF MaintainExisting
  <2>6. CASE best[g].refresh
    <3>1. CanRenew(best[g].id) /\ contracts' = Renewed(best[g].id, contracts[best[g].id].proof)
      BY <2>3, <2>5, <2>6 DEF RefreshContract
    <3>2. best[g].id \in 1..Len(contracts)
      BY <2>1, <2>5 DEF Refers
    <3>3. contracts[best[g].id].proof \in Nat
      BY <2>1, <3>2, RowsTyped DEF ContractRows
    <3> QED BY <2>1, <3>1, <3>2, <3>3, RefreshIsNoFormation
  <2>7. CASE ~best[g].refresh
    <3>1. contracts' = Formed(g)
      BY <2>3, <2>5, <2>7 DEF FormContract
    <3>2. g = h
      BY <2>1, <3>1, FormedWith
    <3> QED BY <2>2, <2>5, <2>7, <3>2 DEF Useful
  <2> QED BY <2>6, <2>7
<1>2. MaintenanceSpec => [][\A h \in MHosts : Needed(h)]_maintainVars
  BY <1>1, MaintenanceInvariance, PTL DEF MaintenanceSpec
<1> QED BY <1>2 DEF NoNeedlessContract
=============================================================================
