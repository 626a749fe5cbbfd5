---------------------------- MODULE SlabGCProofs ----------------------------
(***************************************************************************)
(* No slab that is pinned or part of an object is deleted, no unpinned one *)
(* is forgotten, and totals cover what is pinned: for any finite sets of   *)
(* slabs and accounts, any objects, and any number of transactions.        *)
(***************************************************************************)
EXTENDS SlabGC, FiniteSetTheorems, SequenceTheorems, WellFoundedInduction, TLAPS

(* What a transaction carries while it runs.  A PinObject has share locks   *)
(* on the rows it saw; past its check, it holds or will insert references   *)
(* to all slabs of its object.                                              *)
Shape(x) ==
    /\ x.op = "idle" => x = Idle
    /\ x.op \notin {"PinSlabs", "PinObject"} => x.order = <<>>
    /\ x.op \notin {"idle", "PruneDeletedSlabs"} => x.account \in Accounts
    /\ x.op \in {"PinObject", "DeleteObject"} => x.object \in Objects
    /\ x.op = "PinSlabs" => x.slabs \subseteq x.held \cup Range(x.order) /\ ~x.checked
    /\ x.op = "PinObject" => status[x.account] # "gone" /\ x.held \subseteq slabs
    /\ x.op = "PinObject" /\ ~x.checked =>
          x.order = <<>> /\ x.held \subseteq x.slabs /\ x.want \subseteq x.slabs
    /\ x.op = "PinObject" /\ x.checked =>
          x.slabs \subseteq x.held /\ SlabsOf(x.object) \subseteq x.held \cup Range(x.order)
    /\ x.checked => x.want = {}

Shapes == \A t \in Txns : Shape(txn[t])

(* Nobody holds a row another transaction has locked in a mode that         *)
(* excludes it.                                                             *)
Compatible ==
    \A t, u \in Txns : t # u =>
        \A s \in txn[t].held \cap txn[u].held :
            ~Conflict(LockMode(txn[t].op), LockMode(txn[u].op))

(* Rows are locked in ascending order by every locking SELECT.              *)
Ascending ==
    \A t \in Txns :
        \A s \in txn[t].held, q \in txn[t].want : s < q

OneLoop ==
    \A t, u \in Txns :
        txn[t].op = "PruneDeletedSlabs" /\ txn[u].op = "PruneDeletedSlabs" => t = u

(* The slabs of an object are pinned by its account, but for strays.        *)
AttachedArePinned ==
    \A p \in objects : \A s \in SlabsOf(p[2]) : <<p[1], s>> \in pins \/ s \in stray

QueuedSince(s, read) == \E n \in 1..MaxQueued : <<s, n>> \in queue \ read

(* What the deletion loop has read is still queued; what it found deletable *)
(* still is; and what it leaves alone is pinned, or queued again.           *)
LoopChecked(x) ==
    /\ x.want = {} /\ x.slabs \subseteq x.held
    /\ \A s \in x.slabs : ~Pinned(s) /\ ~InUse(s)
    /\ \A q \in x.read : q[1] \in x.slabs \/ q[1] \in stray
                            \/ Pinned(q[1]) \/ QueuedSince(q[1], x.read)

LoopSound ==
    \A t \in Txns : txn[t].op = "PruneDeletedSlabs" =>
        /\ txn[t].read \subseteq queue
        /\ ~txn[t].checked => \A q \in txn[t].read : q[1] \in txn[t].want \cup txn[t].held
        /\ txn[t].checked => LoopChecked(txn[t])

IInv ==
    /\ TypeOK /\ IsFiniteSet(objects)
    /\ Shapes /\ Compatible /\ Ascending /\ OneLoop
    /\ KeptSlabsExist /\ AttachedArePinned /\ CheckedPinsHold /\ LoopSound /\ UnpinnedIsQueued /\ TotalsCoverPins

-----------------------------------------------------------------------------
(***************************************************************************)
(* Facts about the operators                                               *)
(***************************************************************************)

(* The least element of a set of numbers exists.                            *)
LEMMA LeastExists ==
    ASSUME NEW S \in SUBSET Nat, S # {}
    PROVE  LeastOf(S) \in S /\ \A q \in S : LeastOf(S) <= q
<1> DEFINE R == {ss \in Nat \X Nat : ss[1] < ss[2]}
<1>0. IsWellFoundedOn(R, Nat)
  BY NatLessThanWellFounded DEF OpToRel
<1>1. PICK x \in S : \A y \in S : ~(<<y, x>> \in R)
  <2> HIDE DEF R
  <2> QED BY WFMin, <1>0
<1>2. ASSUME NEW y \in S PROVE x <= y
  <2>1. <<y, x>> \notin R /\ <<y, x>> \in Nat \X Nat
    BY <1>1
  <2>2. ~(y < x) /\ x \in Nat /\ y \in Nat
    BY <2>1
  <2> QED BY <2>2
<1> QED BY <1>2 DEF LeastOf

(* So does the greatest of a finite set.                                    *)
LEMMA GreatestExists ==
    ASSUME NEW S \in SUBSET Nat, IsFiniteSet(S), S # {}
    PROVE  \E x \in S : \A y \in S : y <= x
<1> DEFINE Above(x) == {z \in S : z > x}
           Counts   == {n \in Nat : \E x \in S : n = Cardinality(Above(x))}
<1>1. \A x \in S : IsFiniteSet(Above(x)) /\ Cardinality(Above(x)) \in Nat
  BY FS_Subset, FS_CardinalityType
<1>2. Counts # {} /\ Counts \subseteq Nat
  BY <1>1
<1>3. PICK n \in Counts : \A m \in Counts : n <= m
  BY <1>2, LeastExists
<1>4. PICK x \in S : n = Cardinality(Above(x))
  OBVIOUS
<1>5. ASSUME NEW y \in S, y > x PROVE FALSE
  <2>1. Above(y) \in SUBSET Above(x) /\ y \in Above(x) /\ y \notin Above(y)
    <3>1. x \in Nat /\ y \in Nat
      OBVIOUS
    <3>2. \A z \in S : z > y => z > x
      BY <3>1, <1>5
    <3>3. ~(y > y)
      BY <3>1
    <3> QED BY <3>2, <3>3, <1>5, Zenon
  <2>2. Cardinality(Above(y)) \in Counts
    BY <1>1
  <2>5. IsFiniteSet(Above(x)) /\ Cardinality(Above(x)) \in Nat /\ Cardinality(Above(y)) \in Nat
    BY <1>1
  <2>4. n <= Cardinality(Above(y))
    BY <1>3, <2>2
  <2> HIDE DEF Above
  <2>3. Cardinality(Above(y)) <= Cardinality(Above(x)) /\ Cardinality(Above(x)) # Cardinality(Above(y))
    BY <2>5, <2>1, FS_Subset
  <2> QED BY <2>5, <1>4, <2>3, <2>4
<1> QED BY <1>5

(* One account pins as many pairs as it pins slabs.                         *)
LEMMA PairsCount ==
    ASSUME NEW a, NEW S, IsFiniteSet(S)
    PROVE  /\ IsFiniteSet({<<a, s>> : s \in S})
           /\ Cardinality({<<a, s>> : s \in S}) = Cardinality(S)
<1>1. {<<a, s>> : s \in S} = {a} \X S
  OBVIOUS
<1>2. IsFiniteSet({a}) /\ Cardinality({a}) = 1
  BY FS_Singleton
<1>3. IsFiniteSet({a} \X S) /\ Cardinality({a} \X S) = Cardinality({a}) * Cardinality(S)
  BY <1>2, FS_Product
<1>4. Cardinality(S) \in Nat
  BY FS_CardinalityType
<1>5. Cardinality({a} \X S) = Cardinality(S)
  BY <1>2, <1>3, <1>4
<1> QED BY <1>1, <1>3, <1>5, Zenon

(* Removing and adding pins changes their number by that of the slabs.      *)
LEMMA CountWithout ==
    ASSUME NEW P, IsFiniteSet(P), NEW U, U \subseteq P
    PROVE  /\ IsFiniteSet(P \ U) /\ Cardinality(P \ U) = Cardinality(P) - Cardinality(U)
           /\ Cardinality(P) \in Nat /\ Cardinality(U) \in Nat /\ Cardinality(P \ U) \in Nat
<1>1. P \cap U = U
  OBVIOUS
<1>2. IsFiniteSet(U) /\ IsFiniteSet(P \ U)
  BY FS_Subset
<1> QED BY <1>1, <1>2, FS_Difference, FS_CardinalityType

LEMMA CountWith ==
    ASSUME NEW P, IsFiniteSet(P), NEW U, IsFiniteSet(U), P \cap U = {}
    PROVE  /\ IsFiniteSet(P \cup U) /\ Cardinality(P \cup U) = Cardinality(P) + Cardinality(U)
           /\ Cardinality(P) \in Nat /\ Cardinality(U) \in Nat
BY FS_Union, FS_EmptySet, FS_CardinalityType

(* The locks each transaction takes on slab rows.                           *)
LEMMA Modes ==
    /\ \A op : op # "PinSlabs" /\ op # "PinObject" => LockMode(op) = "update"
    /\ LockMode("PinSlabs") = "nokey" /\ LockMode("PinObject") = "share"
<1>1. LockMode("PinSlabs") = "nokey" BY Zenon DEF LockMode
<1>2. LockMode("PinObject") = "share" BY Zenon DEF LockMode
<1>3. ASSUME NEW op, op # "PinSlabs" /\ op # "PinObject" PROVE LockMode(op) = "update"
  BY <1>3, Zenon DEF LockMode
<1> QED BY <1>1, <1>2, <1>3

(* Which of them exclude each other.                                        *)
LEMMA Conflicts ==
    /\ \A m : Conflict("update", m) /\ Conflict(m, "update")
    /\ Conflict("nokey", "nokey")
    /\ \A m, n : Conflict(m, n) => Conflict(n, m)
BY DEF Conflict
(* The rows that Enqueue appends are new, one for every slab it is given.   *)
LEMMA EnqueueAppends ==
    ASSUME TypeOK, NEW S \in SUBSET slabs, Enqueue(S)
    PROVE  /\ queue \subseteq queue'
           /\ queue' \subseteq slabs \X (1..MaxQueued)
           /\ \A s \in S : \E n \in 1..MaxQueued : <<s, n>> \in queue' \ queue
<1>1. ASSUME NEW s \in S
      PROVE  FreeRow(s) \in 1..MaxQueued /\ <<s, FreeRow(s)>> \notin queue
  <2> DEFINE free == {n \in 1..MaxQueued : <<s, n>> \notin queue}
  <2>1. free \in SUBSET Nat /\ free # {}
    <3>1. 1..MaxQueued \subseteq Nat
      BY ConstantsAssumption
    <3>2. \E n \in 1..MaxQueued : <<s, n>> \notin queue
      BY DEF Enqueue
    <3> QED BY <3>1, <3>2, Zenon
  <2>2. FreeRow(s) = LeastOf(free)
    BY Zenon DEF FreeRow
  <2> HIDE DEF free
  <2>3. FreeRow(s) \in free
    BY <2>1, <2>2, LeastExists
  <2> QED BY <2>3 DEF free
<1>2. queue' = queue \cup {<<s, FreeRow(s)>> : s \in S}
  BY DEF Enqueue
<1>3. \A s \in S : <<s, FreeRow(s)>> \in slabs \X (1..MaxQueued)
  BY <1>1
<1>4. queue' \subseteq slabs \X (1..MaxQueued)
  BY <1>2, <1>3 DEF TypeOK
<1>5. ASSUME NEW s \in S PROVE <<s, FreeRow(s)>> \in queue' \ queue
  BY <1>1, <1>2
<1> QED BY <1>1, <1>2, <1>4, <1>5

-----------------------------------------------------------------------------
(***************************************************************************)
(* Steps that leave the transactions alone or end one                      *)
(***************************************************************************)

(* The rows of running transactions are untouched, except that some end;    *)
(* nothing is taken off the queue; a slab that loses its last pin is        *)
(* queued; what a loop holds and found deletable is neither pinned nor      *)
(* attached; what a PinObject holds stays, and so do its pins, for an       *)
(* active account.                                                          *)
Undisturbed ==
    /\ \A u \in Txns : txn'[u] \in {txn[u], Idle}
    /\ queue \subseteq queue' /\ stray \subseteq stray'
    /\ \A s \in Slabs : Pinned(s) /\ ~Pinned(s)' =>
          \E n \in 1..MaxQueued : <<s, n>> \in queue' \ queue
    /\ \A s \in slabs' : s \in slabs \/ Pinned(s)'
    /\ \A u \in Txns : txn'[u].op = "PruneDeletedSlabs" /\ txn[u].checked =>
          \A s \in txn[u].slabs : ~Pinned(s)' /\ ~InUse(s)'
    /\ \A u \in Txns : txn'[u].op = "PinObject" =>
          /\ status'[txn[u].account] # "gone" /\ txn[u].held \subseteq slabs'
          /\ status'[txn[u].account] = "active" =>
                /\ status[txn[u].account] = "active"
                /\ \A s \in txn[u].held : <<txn[u].account, s>> \in pins => <<txn[u].account, s>> \in pins'

(* Such a step keeps the order in which locks are held.                     *)
LEMMA UndisturbedLocks ==
    ASSUME TypeOK, Shapes, Compatible, Ascending, OneLoop, Undisturbed
    PROVE  Shapes' /\ Compatible' /\ Ascending' /\ OneLoop'
<1>1. \A u \in Txns : txn'[u] = txn[u] \/ txn'[u] = Idle
  BY DEF Undisturbed
<1>2. Idle.op = "idle" /\ Idle.order = <<>> /\ Idle.held = {} /\ Idle.want = {}
  BY DEF Idle, Transaction
<1>3. Shapes'
  <2> SUFFICES ASSUME NEW u \in Txns PROVE Shape(txn[u])'
    BY DEF Shapes
  <2>1. Shape(txn[u])
    BY DEF Shapes
  <2>2. CASE txn'[u] = Idle
    BY <1>2, <2>2 DEF Shape
  <2>3. CASE txn'[u] = txn[u]
    <3>1. txn[u].op = "PinObject" =>
             status'[txn[u].account] # "gone" /\ txn[u].held \subseteq slabs'
      BY <2>3 DEF Undisturbed
    <3> QED BY <2>1, <2>3, <3>1 DEF Shape
  <2> QED BY <1>1, <2>2, <2>3
<1>4. Compatible'
  BY <1>1, <1>2 DEF Compatible
<1>5. Ascending'
  BY <1>1, <1>2 DEF Ascending
<1>6. OneLoop'
  BY <1>1, <1>2 DEF OneLoop
<1> QED BY <1>3, <1>4, <1>5, <1>6

(* It keeps what the loop and PinObject know about the tables.              *)
LEMMA UndisturbedTables ==
    ASSUME TypeOK, Shapes, CheckedPinsHold, LoopSound, UnpinnedIsQueued, Undisturbed
    PROVE  CheckedPinsHold' /\ LoopSound' /\ UnpinnedIsQueued'
<1>1. \A u \in Txns : txn'[u] = txn[u] \/ txn'[u] = Idle
  BY DEF Undisturbed
<1>2. Idle.op = "idle"
  BY DEF Idle, Transaction
<1>3. CheckedPinsHold'
  <2> SUFFICES ASSUME NEW u \in Txns, txn'[u].op = "PinObject", txn'[u].checked,
                      status'[txn'[u].account] = "active",
                      NEW s \in txn'[u].slabs
               PROVE  s \in slabs' /\ <<txn'[u].account, s>> \in pins'
    BY DEF CheckedPinsHold
  <2>1. txn'[u] = txn[u]
    BY <1>1, <1>2
  <2>2. status[txn[u].account] = "active"
    BY <2>1 DEF Undisturbed
  <2>3. s \in slabs /\ <<txn[u].account, s>> \in pins
    BY <2>1, <2>2 DEF CheckedPinsHold
  <2>4. s \in txn[u].held
    BY <2>1 DEF Shapes, Shape
  <2> QED BY <2>1, <2>2, <2>3, <2>4 DEF Undisturbed
<1>4. LoopSound'
  <2> SUFFICES ASSUME NEW u \in Txns, txn'[u].op = "PruneDeletedSlabs"
               PROVE  /\ txn'[u].read \subseteq queue'
                      /\ ~txn'[u].checked =>
                           \A q \in txn'[u].read : q[1] \in txn'[u].want \cup txn'[u].held
                      /\ txn'[u].checked => LoopChecked(txn[u])'
    BY DEF LoopSound
  <2>1. txn'[u] = txn[u]
    BY <1>1, <1>2
  <2>2. /\ txn[u].read \subseteq queue
        /\ ~txn[u].checked => \A q \in txn[u].read : q[1] \in txn[u].want \cup txn[u].held
        /\ txn[u].checked => LoopChecked(txn[u])
    BY <2>1 DEF LoopSound
  <2>3. ASSUME txn[u].checked PROVE LoopChecked(txn[u])'
    <3>1. \A s \in txn[u].slabs : ~Pinned(s)' /\ ~InUse(s)'
      BY <2>1, <2>3 DEF Undisturbed
    <3>2. ASSUME NEW q \in txn[u].read
          PROVE  q[1] \in txn[u].slabs \/ q[1] \in stray' \/ Pinned(q[1])'
                    \/ QueuedSince(q[1], txn[u].read)'
      <4>1. q[1] \in Slabs /\ q \in queue
        BY <2>2 DEF TypeOK
      <4>2. CASE QueuedSince(q[1], txn[u].read)
        BY <4>2, <2>1 DEF QueuedSince, Undisturbed
      <4>3. CASE Pinned(q[1])
        <5>1. CASE ~Pinned(q[1])'
          <6>1. PICK n \in 1..MaxQueued : <<q[1], n>> \in queue' \ queue
            BY <4>1, <4>3, <5>1 DEF Undisturbed
          <6> QED BY <2>1, <2>2, <6>1 DEF QueuedSince
        <5> QED BY <5>1
      <4>4. q[1] \in stray => q[1] \in stray'
        BY DEF Undisturbed
      <4> QED BY <2>2, <2>3, <4>2, <4>3, <4>4 DEF LoopChecked
    <3> QED BY <2>1, <2>2, <2>3, <3>1, <3>2 DEF LoopChecked
  <2> QED BY <2>1, <2>2, <2>3 DEF Undisturbed
<1>5. UnpinnedIsQueued'
  <2> SUFFICES ASSUME NEW s \in slabs', s \notin stray'
               PROVE  Pinned(s)' \/ Queued(s)'
    BY DEF UnpinnedIsQueued
  <2>0. s \notin stray
    BY DEF Undisturbed
  <2>1. CASE s \notin slabs
    BY <2>1 DEF Undisturbed
  <2>2. CASE s \in slabs /\ Pinned(s) /\ ~Pinned(s)'
    <3>1. s \in Slabs
      BY <2>2 DEF TypeOK
    <3>2. PICK n \in 1..MaxQueued : <<s, n>> \in queue' \ queue
      BY <2>2, <3>1 DEF Undisturbed
    <3> QED BY <3>2 DEF Queued
  <2>3. CASE s \in slabs /\ ~Pinned(s)
    <3>1. Queued(s)
      BY <2>0, <2>3 DEF UnpinnedIsQueued
    <3> QED BY <3>1 DEF Queued, Undisturbed
  <2> QED BY <2>1, <2>2, <2>3
<1> QED BY <1>3, <1>4, <1>5
-----------------------------------------------------------------------------
(***************************************************************************)
(* Steps that leave the tables alone                                       *)
(***************************************************************************)

(* What only speaks of the tables is kept with them.                        *)
LEMMA SameTables ==
    ASSUME IInv, UNCHANGED tables
    PROVE  /\ KeptSlabsExist' /\ UnpinnedIsQueued' /\ TotalsCoverPins' /\ IsFiniteSet(objects')
           /\ AttachedArePinned' /\ stray' = stray
           /\ txn' \in [Txns -> Transactions] => TypeOK'
           /\ \A s : Pinned(s)' = Pinned(s) /\ InUse(s)' = InUse(s)
           /\ \A s, R : QueuedSince(s, R)' = QueuedSince(s, R)
<1>1. UNCHANGED <<slabs, fresh, pins, objects, status, accPinned, keyPinned, queue, stray>>
  BY DEF tables
<1>2. \A s : Pinned(s)' = Pinned(s) /\ InUse(s)' = InUse(s)
  BY <1>1 DEF Pinned, InUse, Referenced
<1>3. \A s, R : QueuedSince(s, R)' = QueuedSince(s, R)
  BY <1>1 DEF QueuedSince
<1>4. KeptSlabsExist'
  BY <1>1, <1>2 DEF IInv, KeptSlabsExist
<1>5. UnpinnedIsQueued'
  BY <1>1, <1>2 DEF IInv, UnpinnedIsQueued, Queued
<1>6. TotalsCoverPins'
  BY <1>1 DEF IInv, TotalsCoverPins
<1>7. txn' \in [Txns -> Transactions] => TypeOK'
  BY <1>1 DEF IInv, TypeOK
<1>8. AttachedArePinned'
  BY <1>1 DEF IInv, AttachedArePinned
<1> QED BY <1>1, <1>2, <1>3, <1>4, <1>5, <1>6, <1>7, <1>8 DEF IInv

(* A transaction that starts holds nothing and has checked nothing; there   *)
(* is one loop at a time, and it is about the rows it has read.             *)
LEMMA StartKeeps ==
    ASSUME IInv, NEW t \in Txns, NEW x \in Transactions, Start(t, x),
           Shape(x), x.held = {}, ~x.checked, x.op # "idle",
           x.op = "PruneDeletedSlabs" =>
               /\ \A u \in Txns : txn[u].op # "PruneDeletedSlabs"
               /\ x.read \subseteq queue /\ \A q \in x.read : q[1] \in x.want
    PROVE  IInv'
<1> USE DEF IInv
<1>1. /\ UNCHANGED tables /\ UNCHANGED <<slabs, pins, status, queue>>
      /\ txn' = [txn EXCEPT ![t] = x]
  BY DEF Start, tables
<1>2. txn' \in [Txns -> Transactions] /\ txn'[t] = x /\ \A u \in Txns \ {t} : txn'[u] = txn[u]
  BY <1>1 DEF TypeOK
<1>3. Shapes'
  BY <1>1, <1>2 DEF Shapes, Shape
<1>4. Compatible'
  BY <1>2 DEF Compatible
<1>5. Ascending'
  BY <1>2 DEF Ascending
<1>6. OneLoop'
  BY <1>2 DEF OneLoop
<1>7. CheckedPinsHold'
  BY <1>1, <1>2 DEF CheckedPinsHold
<1>8. LoopSound'
  <2> SUFFICES ASSUME NEW u \in Txns, txn'[u].op = "PruneDeletedSlabs"
               PROVE  /\ txn'[u].read \subseteq queue'
                      /\ ~txn'[u].checked =>
                           \A q \in txn'[u].read : q[1] \in txn'[u].want \cup txn'[u].held
                      /\ txn'[u].checked => LoopChecked(txn[u])'
    BY DEF LoopSound
  <2>1. CASE u = t
    BY <1>1, <1>2, <2>1
  <2>2. CASE u # t
    BY <1>1, <1>2, <2>2, SameTables DEF LoopSound, LoopChecked
  <2> QED BY <2>1, <2>2
<1> QED BY <1>1, <1>2, <1>3, <1>4, <1>5, <1>6, <1>7, <1>8, SameTables

(* Every operation starts a transaction of that shape.                      *)
LEMMA StartsKeep ==
    ASSUME IInv, NEW t \in Txns,
           \/ \E a \in Accounts, order \in PinOrders : StartPinSlabs(t, a, order)
           \/ \E a \in Accounts, s \in Slabs : StartUnpinSlab(t, a, s)
           \/ \E a \in Accounts : StartPruneSlabs(t, a)
           \/ \E a \in Accounts, o \in Objects : StartPinObject(t, a, o) \/ StartDeleteObject(t, a, o)
           \/ StartPruneDeletedSlabs(t)
    PROVE  IInv'
<1>0. slabs \subseteq Slabs /\ queue \subseteq slabs \X (1..MaxQueued) /\ <<>> \in Seq(Slabs)
  BY DEF IInv, TypeOK
<1>1. ASSUME NEW a \in Accounts, NEW order \in PinOrders, StartPinSlabs(t, a, order) PROVE IInv'
  <2> DEFINE x == Transaction("PinSlabs", a, Nothing, Range(order), Range(order) \cap slabs, order, {})
  <2>1. order \in Seq(Slabs) /\ Range(order) \subseteq Slabs
    BY ConstantsAssumption DEF Range
  <2>2. /\ x \in Transactions /\ x.held = {} /\ ~x.checked /\ x.op = "PinSlabs"
        /\ x.account = a /\ x.slabs = Range(order) /\ x.order = order
    BY <2>1 DEF Transaction, Transactions, Nothing
  <2>3. Start(t, x)
    BY <1>1 DEF StartPinSlabs
  <2> HIDE DEF x
  <2>4. Shape(x)
    BY <2>2 DEF Shape
  <2> QED BY <2>2, <2>3, <2>4, StartKeeps
<1>2. ASSUME NEW a \in Accounts, NEW s \in Slabs, StartUnpinSlab(t, a, s) PROVE IInv'
  <2> DEFINE x == Transaction("UnpinSlab", a, Nothing, {s}, {s}, <<>>, {})
  <2>1. /\ x \in Transactions /\ x.held = {} /\ ~x.checked /\ x.op = "UnpinSlab"
        /\ x.account = a /\ x.order = <<>>
    BY <1>0 DEF Transaction, Transactions, Nothing
  <2>2. Start(t, x)
    BY <1>2 DEF StartUnpinSlab
  <2> HIDE DEF x
  <2>3. Shape(x)
    BY <2>1 DEF Shape
  <2> QED BY <2>1, <2>2, <2>3, StartKeeps
<1>3. ASSUME NEW a \in Accounts, StartPruneSlabs(t, a) PROVE IInv'
  <2> DEFINE cand == {s \in slabs \ fresh : <<a, s>> \in pins /\ ~Referenced(a, s, {})}
             x    == Transaction("PruneSlabs", a, Nothing, cand, cand, <<>>, {})
  <2>1. Start(t, x)
    BY <1>3 DEF StartPruneSlabs
  <2>2. cand \subseteq Slabs
    BY <1>0
  <2> HIDE DEF cand
  <2>3. /\ x \in Transactions /\ x.held = {} /\ ~x.checked /\ x.op = "PruneSlabs"
        /\ x.account = a /\ x.order = <<>>
    BY <1>0, <2>2 DEF Transaction, Transactions, Nothing
  <2> HIDE DEF x
  <2>4. Shape(x)
    BY <2>3 DEF Shape
  <2> QED BY <2>1, <2>3, <2>4, StartKeeps
<1>4. ASSUME NEW a \in Accounts, NEW o \in Objects,
             StartPinObject(t, a, o) \/ StartDeleteObject(t, a, o)
      PROVE  IInv'
  <2> PICK op \in {"PinObject", "DeleteObject"} :
             /\ Start(t, Transaction(op, a, o, SlabsOf(o), SlabsOf(o), <<>>, {}))
             /\ op = "PinObject" => status[a] = "active"
    BY <1>4 DEF StartPinObject, StartDeleteObject
  <2> DEFINE x == Transaction(op, a, o, SlabsOf(o), SlabsOf(o), <<>>, {})
  <2>1. SlabsOf(o) \subseteq Slabs
    BY ConstantsAssumption DEF SlabsOf, Range
  <2>2. /\ x \in Transactions /\ x.held = {} /\ ~x.checked /\ x.op = op
        /\ x.account = a /\ x.object = o /\ x.slabs = SlabsOf(o) /\ x.want = SlabsOf(o) /\ x.order = <<>>
    BY <1>0, <2>1 DEF Transaction, Transactions, Nothing
  <2>3. Start(t, x)
    OBVIOUS
  <2> HIDE DEF x
  <2>4. Shape(x)
    BY <2>2 DEF Shape
  <2> QED BY <2>2, <2>3, <2>4, StartKeeps
<1>5. ASSUME StartPruneDeletedSlabs(t) PROVE IInv'
  <2>1. PICK R \in SUBSET queue :
           Start(t, Transaction("PruneDeletedSlabs", Nothing, Nothing,
                                {q[1] : q \in R}, {q[1] : q \in R}, <<>>, R))
    BY <1>5 DEF StartPruneDeletedSlabs
  <2> DEFINE S == {q[1] : q \in R}
             x == Transaction("PruneDeletedSlabs", Nothing, Nothing, S, S, <<>>, R)
  <2>2. R \subseteq Slabs \X (1..MaxQueued) /\ S \subseteq Slabs /\ \A q \in R : q[1] \in S
    BY <1>0
  <2>3. Start(t, x)
    BY <2>1
  <2> HIDE DEF S
  <2>4. /\ x \in Transactions /\ x.held = {} /\ ~x.checked /\ x.op = "PruneDeletedSlabs"
        /\ x.want = S /\ x.order = <<>> /\ x.read = R
    BY <1>0, <2>2 DEF Transaction, Transactions, Nothing
  <2> HIDE DEF x
  <2>5. Shape(x)
    BY <2>4 DEF Shape
  <2>6. \A u \in Txns : txn[u].op # "PruneDeletedSlabs"
    BY <1>5 DEF StartPruneDeletedSlabs
  <2> QED BY <2>2, <2>3, <2>4, <2>5, <2>6, StartKeeps
<1> QED BY <1>1, <1>2, <1>3, <1>4, <1>5
(* A transaction that drops rows it does not see or locks one more row has  *)
(* nobody's lock against it, and looks for what it has read.                *)
LEMMA AcquireKeeps ==
    ASSUME IInv, NEW t \in Txns, NEW y \in Transactions, NEW s,
           UNCHANGED tables, txn' = [txn EXCEPT ![t] = y],
           Shape(y), y.op # "idle",
           y.op = txn[t].op, y.account = txn[t].account, y.slabs = txn[t].slabs,
           y.read = txn[t].read, y.checked = txn[t].checked,
           y.held \subseteq txn[t].held \cup {s},
           s \in y.held \ txn[t].held => Blockers(t, s) = {},
           \A q \in y.held, r \in y.want : q < r,
           y.op = "PruneDeletedSlabs" =>
               ~y.checked /\ \A q \in slabs : q \in txn[t].want \cup txn[t].held => q \in y.want \cup y.held
    PROVE  IInv'
<1> USE DEF IInv
<1>1. UNCHANGED <<slabs, pins, status, queue>>
  BY DEF tables
<1>2. txn' \in [Txns -> Transactions] /\ txn'[t] = y /\ \A u \in Txns \ {t} : txn'[u] = txn[u]
  BY DEF TypeOK
<1>3. Shapes'
  <2> SUFFICES ASSUME NEW u \in Txns PROVE Shape(txn[u])'
    BY DEF Shapes
  <2>1. Shape(txn[u])
    BY DEF Shapes
  <2>2. CASE u # t
    BY <1>1, <1>2, <2>1, <2>2 DEF Shape
  <2>3. CASE u = t
    BY <1>1, <1>2, <2>3 DEF Shape
  <2> QED BY <2>2, <2>3
<1>4. Compatible'
  <2> SUFFICES ASSUME NEW u \in Txns, NEW v \in Txns, u # v,
                      NEW q \in txn'[u].held \cap txn'[v].held
               PROVE  ~Conflict(LockMode(txn'[u].op), LockMode(txn'[v].op))
    BY DEF Compatible
  <2>1. ASSUME NEW w \in Txns \ {t}, q \in txn[w].held, q \in y.held
        PROVE  /\ ~Conflict(LockMode(txn[w].op), LockMode(y.op))
               /\ ~Conflict(LockMode(y.op), LockMode(txn[w].op))
    <3>1. CASE q \in txn[t].held
      BY <2>1, <3>1 DEF Compatible
    <3>2. CASE q \notin txn[t].held
      <4>1. ~Conflict(LockMode(txn[w].op), LockMode(txn[t].op))
        BY <2>1, <3>2 DEF Blockers, Transactions
      <4> QED BY <4>1, Conflicts
    <3> QED BY <2>1, <3>1, <3>2
  <2>2. CASE u = t
    BY <1>2, <2>1, <2>2
  <2>3. CASE v = t
    BY <1>2, <2>1, <2>3
  <2>4. CASE u # t /\ v # t
    BY <1>2, <2>4 DEF Compatible
  <2> QED BY <2>2, <2>3, <2>4
<1>5. Ascending'
  BY <1>2 DEF Ascending
<1>6. OneLoop'
  BY <1>2 DEF OneLoop
<1>7. CheckedPinsHold'
  BY <1>1, <1>2 DEF CheckedPinsHold
<1>8. LoopSound'
  <2> SUFFICES ASSUME NEW u \in Txns, txn'[u].op = "PruneDeletedSlabs"
               PROVE  /\ txn'[u].read \subseteq queue'
                      /\ ~txn'[u].checked =>
                           \A q \in txn'[u].read : q[1] \in txn'[u].want \cup txn'[u].held
                      /\ txn'[u].checked => LoopChecked(txn[u])'
    BY DEF LoopSound
  <2>1. CASE u = t
    <3>1. txn[t].read \subseteq queue /\ \A q \in txn[t].read : q[1] \in txn[t].want \cup txn[t].held
      BY <1>2, <2>1 DEF LoopSound
    <3>2. \A q \in txn[t].read : q[1] \in slabs
      BY <3>1 DEF TypeOK
    <3> QED BY <1>1, <1>2, <2>1, <3>1, <3>2
  <2>2. CASE u # t
    BY <1>1, <1>2, <2>2, SameTables DEF LoopSound, LoopChecked
  <2> QED BY <2>1, <2>2
<1> QED BY <1>1, <1>2, <1>3, <1>4, <1>5, <1>6, <1>7, <1>8, SameTables

(* Rows that are not seen are not waited for.                               *)
LEMMA SkipUnseenKeeps ==
    ASSUME IInv, NEW t \in Txns, SkipUnseen(t)
    PROVE  IInv'
<1> DEFINE y == [txn[t] EXCEPT !.want = @ \cap slabs]
<1>1. txn[t] \in Transactions /\ txn[t].want # {} /\ txn[t] # Idle
  BY DEF IInv, TypeOK, SkipUnseen, Locking, Running
<1>2. txn' = [txn EXCEPT ![t].want = @ \cap slabs] /\ UNCHANGED tables
  BY DEF SkipUnseen
<1>3. txn' = [txn EXCEPT ![t] = y]
  BY <1>1, <1>2 DEF IInv, TypeOK, Transactions
<1>4. /\ y \in Transactions
      /\ y.op = txn[t].op /\ y.account = txn[t].account /\ y.object = txn[t].object
      /\ y.slabs = txn[t].slabs /\ y.read = txn[t].read /\ y.order = txn[t].order
      /\ y.checked = txn[t].checked /\ y.want = txn[t].want \cap slabs
      /\ y.held = txn[t].held
  BY <1>1 DEF Transactions
<1>5. Shape(txn[t]) /\ \A q \in txn[t].held, r \in txn[t].want : q < r
  BY DEF IInv, Shapes, Ascending
<1> HIDE DEF y
<1>6. ~y.checked /\ y.op # "idle" /\ Shape(y)
  BY <1>1, <1>4, <1>5 DEF Shape
<1> QED BY <1>2, <1>3, <1>4, <1>5, <1>6, AcquireKeeps

(* A locking SELECT takes the least row it still wants.                     *)
LEMMA LockSlabKeeps ==
    ASSUME IInv, NEW t \in Txns, LockSlab(t)
    PROVE  IInv'
<1> DEFINE s == Needs(t)
           y == [txn[t] EXCEPT !.want = @ \ {s}, !.held = @ \cup {s}]
<1>1. txn[t] \in Transactions /\ txn[t].want # {} /\ txn[t] # Idle /\ txn[t].want \subseteq slabs
  BY DEF IInv, TypeOK, LockSlab, Locking, Running
<1>2. txn[t].want \in SUBSET Nat
  BY <1>1, ConstantsAssumption DEF Transactions
<1>3. s = LeastOf(txn[t].want)
  BY DEF LockSlab, Needs, NextToLock
<1>4. s \in txn[t].want /\ \A q \in txn[t].want : s <= q
  BY <1>1, <1>2, <1>3, LeastExists
<1>5. /\ Blockers(t, s) = {} /\ UNCHANGED tables
      /\ txn' = [txn EXCEPT ![t].want = @ \ {s}, ![t].held = @ \cup {s}]
  BY DEF LockSlab
<1> HIDE DEF s
<1>6. txn' = [txn EXCEPT ![t] = y]
  BY <1>1, <1>5 DEF IInv, TypeOK, Transactions
<1>7. /\ y \in Transactions
      /\ y.op = txn[t].op /\ y.account = txn[t].account /\ y.object = txn[t].object
      /\ y.slabs = txn[t].slabs /\ y.read = txn[t].read /\ y.order = txn[t].order
      /\ y.checked = txn[t].checked /\ y.want = txn[t].want \ {s}
      /\ y.held = txn[t].held \cup {s}
  BY <1>1, <1>4 DEF Transactions
<1>8. Shape(txn[t]) /\ \A q \in txn[t].held, r \in txn[t].want : q < r
  BY DEF IInv, Shapes, Ascending
<1>9. \A q \in y.held, r \in y.want : q < r
  <2> SUFFICES ASSUME NEW q \in y.held, NEW r \in y.want PROVE q < r
    OBVIOUS
  <2>1. r \in Nat /\ s \in Nat /\ s <= r /\ r # s
    BY <1>2, <1>4, <1>7
  <2> QED BY <1>7, <1>8, <2>1
<1> HIDE DEF y
<1>10. ~y.checked /\ y.op # "idle" /\ Shape(y)
  BY <1>1, <1>4, <1>7, <1>8 DEF Shape
<1>11. \A q : q \in txn[t].want \cup txn[t].held => q \in y.want \cup y.held
  BY <1>7
<1> QED BY <1>5, <1>6, <1>7, <1>9, <1>10, <1>11, AcquireKeeps

(* An insert owns or shares its row; PinSlabs ends up with locks on all of  *)
(* its slabs, PinObject on all slabs of its object.                         *)
LEMMA InsertsKeep ==
    ASSUME IInv, NEW t \in Txns, UpsertSlab(t) \/ InsertObjectSlab(t)
    PROVE  IInv'
<1> DEFINE s == Needs(t)
           y == [txn[t] EXCEPT !.order = Tail(@), !.held = @ \cup {s}]
<1>1. /\ txn[t] \in Transactions /\ txn[t] # Idle /\ txn[t].order # <<>>
      /\ txn[t].want = {} /\ txn[t].order \in Seq(Slabs)
  BY DEF IInv, TypeOK, UpsertSlab, InsertObjectSlab, Inserting, Running, Transactions
<1>2. s = Head(txn[t].order)
  BY <1>1 DEF Needs, Locking
<1>3. /\ Blockers(t, s) = {} /\ UNCHANGED tables
      /\ txn[t].op \in {"PinSlabs", "PinObject"} /\ (txn[t].op = "PinObject" => s \in slabs)
      /\ txn' = [txn EXCEPT ![t].order = Tail(@), ![t].held = @ \cup {s}]
  BY DEF UpsertSlab, InsertObjectSlab
<1> HIDE DEF s
<1>4. /\ s \in Slabs /\ Tail(txn[t].order) \in Seq(Slabs)
      /\ Range(txn[t].order) \subseteq Range(Tail(txn[t].order)) \cup {s}
  <2> DEFINE o == txn[t].order
  <2>1. /\ Len(o) \in Nat /\ Len(o) > 0 /\ Tail(o) \in Seq(Slabs) /\ Len(Tail(o)) = Len(o) - 1
        /\ \A i \in 1..(Len(o) - 1) : Tail(o)[i] = o[i + 1]
        /\ Head(o) = o[1] /\ o[1] \in Slabs
    BY <1>1
  <2> HIDE DEF o
  <2>2. ASSUME NEW i \in 1..Len(o) PROVE o[i] = s \/ o[i] \in Range(Tail(o))
    <3>1. CASE i = 1
      BY <1>2, <2>1, <3>1 DEF o
    <3>2. CASE i # 1
      <4>1. i - 1 \in 1..(Len(o) - 1) /\ (i - 1) + 1 = i
        BY <2>1, <3>2
      <4>2. Tail(o)[i - 1] = o[i] /\ i - 1 \in DOMAIN Tail(o)
        BY <2>1, <4>1
      <4> QED BY <4>2 DEF Range
    <3> QED BY <3>1, <3>2
  <2>3. DOMAIN o = 1..Len(o)
    BY <1>1 DEF o
  <2> QED BY <1>2, <2>1, <2>2, <2>3 DEF Range, o
<1>5. txn' = [txn EXCEPT ![t] = y]
  BY <1>1, <1>3 DEF IInv, TypeOK, Transactions
<1>6. /\ y \in Transactions
      /\ y.op = txn[t].op /\ y.account = txn[t].account /\ y.object = txn[t].object
      /\ y.slabs = txn[t].slabs /\ y.read = txn[t].read /\ y.order = Tail(txn[t].order)
      /\ y.checked = txn[t].checked /\ y.want = {}
      /\ y.held = txn[t].held \cup {s}
  BY <1>1, <1>4 DEF Transactions
<1>7. Shape(txn[t])
  BY DEF IInv, Shapes
<1>8. txn[t].op = "PinObject" => txn[t].checked
  BY <1>1, <1>7 DEF Shape
<1> HIDE DEF y
<1>9. Shape(y)
  BY <1>3, <1>4, <1>6, <1>7, <1>8 DEF Shape
<1> QED BY <1>3, <1>5, <1>6, <1>9, AcquireKeeps

(* PinObject finds its slabs pinned.                                        *)
LEMMA CheckPinObjectKeeps ==
    ASSUME IInv, NEW t \in Txns, CheckPinObject(t)
    PROVE  IInv'
<1> USE DEF IInv
<1>1. /\ UNCHANGED tables /\ UNCHANGED <<slabs, pins, status, queue>>
      /\ txn' = [txn EXCEPT ![t].checked = TRUE, ![t].slabs = txn[t].held,
                            ![t].order = ObjectSlabs[txn[t].object]]
      /\ txn[t].op = "PinObject" /\ txn[t].want = {} /\ ~txn[t].checked
      /\ \A s \in txn[t].slabs : s \in slabs /\ <<txn[t].account, s>> \in pins
  BY DEF CheckPinObject, tables, Ready
<1>0. /\ txn[t] \in Transactions /\ Shape(txn[t]) /\ txn[t].object \in Objects
      /\ ObjectSlabs[txn[t].object] \in Seq(Slabs) /\ txn[t].held \subseteq txn[t].slabs
  BY <1>1, ConstantsAssumption DEF TypeOK, Shapes, Shape
<1>2. /\ txn' \in [Txns -> Transactions] /\ \A u \in Txns \ {t} : txn'[u] = txn[u]
      /\ txn'[t] = [txn[t] EXCEPT !.checked = TRUE, !.slabs = txn[t].held,
                                  !.order = ObjectSlabs[txn[t].object]]
  BY <1>0, <1>1 DEF TypeOK, Transactions
<1>3. /\ txn'[t].op = txn[t].op /\ txn'[t].account = txn[t].account /\ txn'[t].object = txn[t].object
      /\ txn'[t].slabs = txn[t].held /\ txn'[t].held = txn[t].held
      /\ txn'[t].order = ObjectSlabs[txn[t].object]
      /\ txn'[t].want = txn[t].want /\ txn'[t].checked
  BY <1>0, <1>2 DEF Transactions
<1>4. Shapes'
  <2> SUFFICES ASSUME NEW u \in Txns PROVE Shape(txn[u])'
    BY DEF Shapes
  <2>1. Shape(txn[u])
    BY DEF Shapes
  <2>2. CASE u = t
    BY <1>1, <1>2, <1>3, <2>1, <2>2 DEF Shape, SlabsOf
  <2> QED BY <1>1, <1>2, <2>1, <2>2 DEF Shape
<1>5. Compatible' /\ Ascending' /\ OneLoop'
  <2>1. \A u \in Txns : /\ txn'[u].op = txn[u].op /\ txn'[u].held = txn[u].held
                        /\ txn'[u].want = txn[u].want
    BY <1>2, <1>3
  <2>2. Compatible'
    BY <2>1 DEF Compatible
  <2>3. Ascending'
    BY <2>1 DEF Ascending
  <2> QED BY <2>1, <2>2, <2>3 DEF OneLoop
<1>6. CheckedPinsHold'
  BY <1>0, <1>1, <1>2, <1>3 DEF CheckedPinsHold
<1>7. LoopSound'
  <2> SUFFICES ASSUME NEW u \in Txns, txn'[u].op = "PruneDeletedSlabs"
               PROVE  /\ txn'[u].read \subseteq queue'
                      /\ ~txn'[u].checked =>
                           \A q \in txn'[u].read : q[1] \in txn'[u].want \cup txn'[u].held
                      /\ txn'[u].checked => LoopChecked(txn[u])'
    BY DEF LoopSound
  <2>1. txn'[u] = txn[u]
    BY <1>1, <1>2, <1>3
  <2> QED BY <1>1, <2>1, SameTables DEF LoopSound, LoopChecked
<1> QED BY <1>1, <1>2, <1>4, <1>5, <1>6, <1>7, SameTables

(* The deletion loop sorts out what it has locked.                          *)
LEMMA CheckPruneKeeps ==
    ASSUME IInv, NEW t \in Txns, CheckPruneDeletedSlabs(t)
    PROVE  IInv'
<1> USE DEF IInv
<1>1. /\ UNCHANGED tables /\ UNCHANGED <<slabs, pins, status, queue>>
      /\ txn' = [txn EXCEPT ![t].checked = TRUE, ![t].slabs = Deletable(txn[t].held)]
      /\ txn[t].op = "PruneDeletedSlabs" /\ ~txn[t].checked
      /\ txn[t].want = {} /\ txn[t].order = <<>>
  BY DEF CheckPruneDeletedSlabs, tables, Ready
<1>2. txn[t] \in Transactions /\ Deletable(txn[t].held) \subseteq txn[t].held
  BY DEF TypeOK, Deletable
<1>3. /\ txn' \in [Txns -> Transactions] /\ \A u \in Txns \ {t} : txn'[u] = txn[u]
      /\ txn'[t] = [txn[t] EXCEPT !.checked = TRUE, !.slabs = Deletable(txn[t].held)]
  BY <1>1, <1>2 DEF TypeOK, Transactions
<1>4. /\ txn'[t].op = txn[t].op /\ txn'[t].order = txn[t].order /\ txn'[t].held = txn[t].held
      /\ txn'[t].want = txn[t].want /\ txn'[t].read = txn[t].read
      /\ txn'[t].slabs = Deletable(txn[t].held) /\ txn'[t].checked
  BY <1>2, <1>3 DEF Transactions
<1>5. Shapes'
  <2> SUFFICES ASSUME NEW u \in Txns PROVE Shape(txn[u])'
    BY DEF Shapes
  <2>1. Shape(txn[u])
    BY DEF Shapes
  <2>2. CASE u = t
    BY <1>1, <1>4, <2>1, <2>2 DEF Shape
  <2> QED BY <1>1, <1>3, <2>1, <2>2 DEF Shape
<1>6. Compatible' /\ Ascending' /\ OneLoop'
  <2>1. \A u \in Txns : /\ txn'[u].op = txn[u].op /\ txn'[u].held = txn[u].held
                        /\ txn'[u].want = txn[u].want
    BY <1>3, <1>4
  <2>2. Compatible'
    BY <2>1 DEF Compatible
  <2>3. Ascending'
    BY <2>1 DEF Ascending
  <2> QED BY <2>1, <2>2, <2>3 DEF OneLoop
<1>7. CheckedPinsHold'
  BY <1>1, <1>3, <1>4 DEF CheckedPinsHold
<1>8. LoopSound'
  <2> SUFFICES ASSUME NEW u \in Txns, txn'[u].op = "PruneDeletedSlabs"
               PROVE  /\ txn'[u].read \subseteq queue'
                      /\ ~txn'[u].checked =>
                           \A q \in txn'[u].read : q[1] \in txn'[u].want \cup txn'[u].held
                      /\ txn'[u].checked => LoopChecked(txn[u])'
    BY DEF LoopSound
  <2>1. u = t
    BY <1>1, <1>3 DEF OneLoop
  <2>2. /\ txn[t].read \subseteq queue /\ \A q \in txn[t].read : q[1] \in txn[t].held
        /\ \A q \in txn[t].read : q[1] \in Slabs
    BY <1>1 DEF LoopSound, TypeOK
  <2>3. \A s \in Deletable(txn[t].held) : ~Pinned(s) /\ ~InUse(s)
    BY DEF Deletable, Pinned, InUse
  <2>4. ASSUME NEW q \in txn[t].read, q[1] \notin Deletable(txn[t].held)
        PROVE  Pinned(q[1]) \/ q[1] \in stray
    <3>1. Pinned(q[1]) \/ \E a \in Accounts, o \in Objects : <<a, o>> \in objects /\ q[1] \in SlabsOf(o)
      BY <2>2, <2>4 DEF Deletable, Pinned, Referenced
    <3>2. CASE \E a \in Accounts, o \in Objects : <<a, o>> \in objects /\ q[1] \in SlabsOf(o)
      <4>1. PICK a \in Accounts, o \in Objects : <<a, o>> \in objects /\ q[1] \in SlabsOf(o)
        BY <3>2
      <4>2. <<a, o>>[1] = a /\ <<a, o>>[2] = o
        OBVIOUS
      <4> QED BY <4>1, <4>2 DEF AttachedArePinned, Pinned
    <3> QED BY <3>1, <3>2
  <2>5. LoopChecked(txn[t])'
    BY <1>1, <1>2, <1>4, <2>2, <2>3, <2>4, SameTables DEF LoopChecked
  <2> QED BY <1>1, <1>4, <2>1, <2>2, <2>5
<1> QED BY <1>1, <1>3, <1>5, <1>6, <1>7, <1>8, SameTables
-----------------------------------------------------------------------------
(***************************************************************************)
(* Commits                                                                 *)
(***************************************************************************)

(* The pins of an account, and those of active accounts.                    *)
PinsOf(a)  == {p \in pins : p[1] = a}
ActivePins == {p \in pins : status[p[1]] = "active"}

(* They are finitely many.                                                  *)
LEMMA FinitePins ==
    ASSUME TypeOK
    PROVE  /\ IsFiniteSet(pins) /\ IsFiniteSet(ActivePins)
           /\ \A a : IsFiniteSet(PinsOf(a))
<1>1. IsFiniteSet(Accounts \X Slabs)
  BY ConstantsAssumption, FS_Product
<1>2. pins \in SUBSET (Accounts \X Slabs)
  BY DEF TypeOK
<1>3. IsFiniteSet(pins)
  BY <1>1, <1>2, FS_Subset
<1> QED BY <1>3, FS_Subset DEF PinsOf, ActivePins

(* What totals promise, by those names.                                     *)
LEMMA TotalsByAccount ==
    ASSUME TotalsCoverPins
    PROVE  /\ \A a \in Accounts : /\ accPinned[a] >= Cardinality(PinsOf(a))
                                  /\ status[a] = "active" => accPinned[a] = Cardinality(PinsOf(a))
           /\ keyPinned >= Cardinality(ActivePins)
BY DEF TotalsCoverPins, PinsOf, ActivePins

(* A transaction that ends leaves the others alone.                         *)
LEMMA EndOfOne ==
    ASSUME TypeOK, NEW t \in Txns, End(t)
    PROVE  /\ txn' \in [Txns -> Transactions] /\ txn'[t] = Idle
           /\ \A u \in Txns \ {t} : txn'[u] = txn[u]
           /\ \A u \in Txns : txn'[u] \in {txn[u], Idle}
           /\ Idle.op = "idle"
<1>1. Idle \in Transactions /\ Idle.op = "idle"
  BY DEF Idle, Transaction, Transactions, Nothing
<1> QED BY <1>1 DEF TypeOK, End

(* What unpinSlabs does to the tables: totals go down with the pins, and    *)
(* what loses a pin is queued.                                              *)
LEMMA UnpinTables ==
    ASSUME IInv, NEW a \in Accounts, NEW S \in SUBSET Slabs, UnpinSlabs(a, S),
           UNCHANGED <<slabs, fresh, status, stray>>, objects' \subseteq objects,
           txn' \in [Txns -> Transactions]
    PROVE  /\ TypeOK' /\ KeptSlabsExist' /\ TotalsCoverPins' /\ IsFiniteSet(objects')
           /\ queue \subseteq queue'
           /\ \A s \in Slabs : Pinned(s) /\ ~Pinned(s)' =>
                 \E n \in 1..MaxQueued : <<s, n>> \in queue' \ queue
           /\ pins' \subseteq pins
           /\ \A p \in pins \ pins' : p[1] = a /\ p[2] \in S
           /\ \A s : (Pinned(s)' => Pinned(s)) /\ (InUse(s)' => InUse(s))
<1> DEFINE unpinned == {s \in S : <<a, s>> \in pins}
           n        == Cardinality(unpinned)
           U        == {<<a, s>> : s \in unpinned}
<1> USE DEF IInv
<1>1. /\ pins' = pins \ U /\ accPinned' = [accPinned EXCEPT ![a] = @ - n]
      /\ keyPinned' = keyPinned - KeyRefund(a, n) /\ Enqueue(unpinned)
  BY DEF UnpinSlabs
<1>2. unpinned \in SUBSET Slabs /\ IsFiniteSet(unpinned)
  BY ConstantsAssumption, FS_Subset
<1>3. n \in Nat /\ IsFiniteSet(U) /\ Cardinality(U) = n
  BY <1>2, PairsCount, FS_CardinalityType
<1>4. unpinned \in SUBSET slabs
  BY DEF KeptSlabsExist, Pinned
<1>5. ASSUME NEW p \in U PROVE p \in pins /\ p[1] = a /\ p[2] \in unpinned
  <2>1. PICK s \in unpinned : p = <<a, s>>
    OBVIOUS
  <2>2. p[1] = a /\ p[2] = s
    BY <2>1
  <2> QED BY <2>1, <2>2
<1>6. U \subseteq PinsOf(a)
  BY <1>5 DEF PinsOf
<1>7. \A p \in U : p[1] = a /\ p[2] \in unpinned
  BY <1>5
<1>8. unpinned \subseteq S
  OBVIOUS
<1> HIDE DEF unpinned, U, n
<1>9. /\ PinsOf(a)' = PinsOf(a) \ U
      /\ \A b \in Accounts \ {a} : PinsOf(b)' = PinsOf(b)
      /\ status[a] = "active" => U \subseteq ActivePins /\ ActivePins' = ActivePins \ U
      /\ status[a] # "active" => ActivePins' = ActivePins
  BY <1>1, <1>5 DEF PinsOf, ActivePins
<1>10. /\ Cardinality(PinsOf(a)') = Cardinality(PinsOf(a)) - n
       /\ Cardinality(PinsOf(a)) \in Nat /\ Cardinality(PinsOf(a)') \in Nat
  BY <1>3, <1>6, <1>9, FinitePins, CountWithout
<1>11. /\ Cardinality(ActivePins') = Cardinality(ActivePins) - KeyRefund(a, n)
       /\ Cardinality(ActivePins) \in Nat /\ Cardinality(ActivePins') \in Nat
       /\ KeyRefund(a, n) \in Nat
  <2>1. CASE status[a] = "active"
    BY <1>3, <1>9, <2>1, FinitePins, CountWithout DEF KeyRefund
  <2>2. CASE status[a] # "active"
    BY <1>3, <1>9, <2>2, FinitePins, FS_CardinalityType DEF KeyRefund
  <2> QED BY <2>1, <2>2
<1>12. /\ accPinned \in [Accounts -> Nat] /\ keyPinned \in Nat
       /\ accPinned[a] >= Cardinality(PinsOf(a))
       /\ status[a] = "active" => accPinned[a] = Cardinality(PinsOf(a))
       /\ keyPinned >= Cardinality(ActivePins)
  BY TotalsByAccount DEF TypeOK
<1>13. /\ accPinned[a] - n \in Nat /\ accPinned[a] - n >= Cardinality(PinsOf(a)')
       /\ status[a] = "active" => accPinned[a] - n = Cardinality(PinsOf(a)')
  BY <1>3, <1>10, <1>12
<1>14. keyPinned' \in Nat /\ keyPinned' >= Cardinality(ActivePins')
  BY <1>1, <1>11, <1>12
<1>15. accPinned' \in [Accounts -> Nat] /\ accPinned'[a] = accPinned[a] - n
       /\ \A b \in Accounts \ {a} : accPinned'[b] = accPinned[b]
  BY <1>1, <1>12, <1>13
<1>16. TotalsCoverPins'
  <2>1. \A b \in Accounts : /\ accPinned'[b] >= Cardinality(PinsOf(b)')
                            /\ status'[b] = "active" => accPinned'[b] = Cardinality(PinsOf(b)')
    <3> SUFFICES ASSUME NEW b \in Accounts
                 PROVE  /\ accPinned'[b] >= Cardinality(PinsOf(b)')
                        /\ status'[b] = "active" => accPinned'[b] = Cardinality(PinsOf(b)')
      OBVIOUS
    <3>1. CASE b = a
      BY <1>13, <1>15, <3>1
    <3>2. CASE b # a
      BY <1>9, <1>15, <3>2, TotalsByAccount
    <3> QED BY <3>1, <3>2
  <2> QED BY <2>1, <1>14 DEF TotalsCoverPins, PinsOf, ActivePins
<1>17. /\ queue \subseteq queue' /\ queue' \subseteq slabs \X (1..MaxQueued)
       /\ \A s \in unpinned : \E m \in 1..MaxQueued : <<s, m>> \in queue' \ queue
  BY <1>1, <1>4, EnqueueAppends
<1>18. TypeOK'
  BY <1>1, <1>14, <1>15, <1>17 DEF TypeOK
<1>19. \A s : (Pinned(s)' => Pinned(s)) /\ (InUse(s)' => InUse(s))
  BY <1>1 DEF Pinned, InUse, Referenced
<1>20. KeptSlabsExist'
  BY <1>19 DEF KeptSlabsExist
<1>21. IsFiniteSet(objects')
  BY FS_Subset
<1>22. ASSUME NEW s \in Slabs, Pinned(s), ~Pinned(s)'
       PROVE  \E m \in 1..MaxQueued : <<s, m>> \in queue' \ queue
  <2>1. PICK b \in Accounts : <<b, s>> \in pins /\ <<b, s>> \notin pins'
    BY <1>22 DEF Pinned
  <2>2. <<b, s>> \in U
    BY <1>1, <2>1
  <2>3. s \in unpinned
    BY <1>7, <2>2
  <2> QED BY <1>17, <2>3
<1>23. ASSUME NEW p \in pins \ pins' PROVE p[1] = a /\ p[2] \in S
  BY <1>1, <1>7, <1>8
<1> QED BY <1>1, <1>16, <1>17, <1>18, <1>19, <1>20, <1>21, <1>22, <1>23

(* The transactions that unpin hold the rows FOR UPDATE.                    *)
LEMMA UnpinCommitKeeps ==
    ASSUME IInv, NEW t \in Txns, NEW a \in Accounts, NEW S \in SUBSET txn[t].held,
           UnpinSlabs(a, S), End(t), LockMode(txn[t].op) = "update",
           UNCHANGED <<slabs, fresh, status, stray>>, objects' \subseteq objects,
           \A s \in S, o \in Objects : <<a, o>> \in objects' => s \notin SlabsOf(o)
    PROVE  IInv'
<1> USE DEF IInv
<1>1. /\ txn' \in [Txns -> Transactions] /\ txn'[t] = Idle /\ Idle.op = "idle"
      /\ \A u \in Txns \ {t} : txn'[u] = txn[u]
      /\ \A u \in Txns : txn'[u] \in {txn[u], Idle}
  BY EndOfOne
<1>2. S \in SUBSET Slabs
  BY DEF TypeOK, Transactions
<1>3. /\ TypeOK' /\ KeptSlabsExist' /\ TotalsCoverPins' /\ IsFiniteSet(objects')
      /\ queue \subseteq queue'
      /\ \A s \in Slabs : Pinned(s) /\ ~Pinned(s)' =>
            \E n \in 1..MaxQueued : <<s, n>> \in queue' \ queue
      /\ pins' \subseteq pins
      /\ \A p \in pins \ pins' : p[1] = a /\ p[2] \in S
      /\ \A s : (Pinned(s)' => Pinned(s)) /\ (InUse(s)' => InUse(s))
  BY <1>1, <1>2, UnpinTables
<1>4. ASSUME NEW u \in Txns, txn'[u].op = "PruneDeletedSlabs", txn[u].checked,
             NEW s \in txn[u].slabs
      PROVE  ~Pinned(s)' /\ ~InUse(s)'
  <2>1. txn'[u] = txn[u]
    BY <1>1, <1>4
  <2> QED BY <1>3, <1>4, <2>1 DEF LoopSound, LoopChecked
<1>5. ASSUME NEW u \in Txns, txn'[u].op = "PinObject"
      PROVE  /\ status'[txn[u].account] # "gone" /\ txn[u].held \subseteq slabs
             /\ \A s \in txn[u].held :
                   <<txn[u].account, s>> \in pins => <<txn[u].account, s>> \in pins'
  <2>1. txn'[u] = txn[u] /\ u # t
    BY <1>1, <1>5
  <2>2. status[txn[u].account] # "gone" /\ txn[u].held \subseteq slabs
    BY <1>5, <2>1 DEF Shapes, Shape
  <2>3. ASSUME NEW s \in txn[u].held PROVE s \notin S
    BY <2>1, Conflicts DEF Compatible
  <2> QED BY <1>3, <2>2, <2>3
<1>6. Undisturbed
  BY <1>1, <1>3, <1>4, <1>5 DEF Undisturbed
<1>7. AttachedArePinned'
  <2> SUFFICES ASSUME NEW p \in objects', NEW s \in SlabsOf(p[2])
               PROVE  <<p[1], s>> \in pins' \/ s \in stray'
    BY DEF AttachedArePinned
  <2>1. <<p[1], s>> \in pins \/ s \in stray
    BY DEF AttachedArePinned
  <2>2. p[1] \in Accounts /\ p[2] \in Objects /\ p = <<p[1], p[2]>>
    BY DEF TypeOK
  <2>3. CASE <<p[1], s>> \in pins \ pins'
    <3>1. p[1] = a /\ s \in S
      BY <1>3, <2>3
    <3> QED BY <2>2, <3>1
  <2> QED BY <2>1, <2>3
<1> QED BY <1>3, <1>6, <1>7, UndisturbedLocks, UndisturbedTables
(* UnpinSlab, PruneSlabs and DeleteObject.                                  *)
LEMMA UnpinsKeep ==
    ASSUME IInv, NEW t \in Txns,
           CommitUnpinSlab(t) \/ CommitPruneSlabs(t) \/ CommitDeleteObject(t)
    PROVE  IInv'
<1>1. PICK S \in SUBSET txn[t].held :
         /\ txn[t].op \in {"UnpinSlab", "PruneSlabs", "DeleteObject"}
         /\ UnpinSlabs(txn[t].account, S) /\ End(t)
         /\ UNCHANGED <<slabs, fresh, status, stray>> /\ objects' \subseteq objects
         /\ \A s \in S, o \in Objects : <<txn[t].account, o>> \in objects' => s \notin SlabsOf(o)
  <2>1. CASE CommitUnpinSlab(t)
    BY <2>1 DEF CommitUnpinSlab, Referenced
  <2>2. CASE CommitPruneSlabs(t)
    <3>1. StillPrunable(txn[t]) \in SUBSET txn[t].held
      BY DEF StillPrunable
    <3>2. objects' = objects /\ \A s \in StillPrunable(txn[t]) : ~Referenced(txn[t].account, s, {})
      BY <2>2 DEF CommitPruneSlabs, StillPrunable
    <3>3. \A s \in StillPrunable(txn[t]), o \in Objects :
             <<txn[t].account, o>> \in objects' => s \notin SlabsOf(o)
      BY <3>2 DEF Referenced
    <3> QED BY <2>2, <3>1, <3>3 DEF CommitPruneSlabs
  <2>3. CASE CommitDeleteObject(t)
    <3> DEFINE S == {s \in txn[t].held : ~Referenced(txn[t].account, s, {txn[t].object})}
    <3>1. /\ UnpinSlabs(txn[t].account, S) /\ S \in SUBSET txn[t].held
          /\ objects' = objects \ {<<txn[t].account, txn[t].object>>}
      BY <2>3 DEF CommitDeleteObject
    <3>2. \A s \in S, o \in Objects : <<txn[t].account, o>> \in objects' => s \notin SlabsOf(o)
      BY <3>1 DEF Referenced
    <3> HIDE DEF S
    <3> QED BY <2>3, <3>1, <3>2 DEF CommitDeleteObject
  <2> QED BY <2>1, <2>2, <2>3
<1>2. txn[t].account \in Accounts
  BY <1>1 DEF IInv, Shapes, Shape
<1>3. LockMode(txn[t].op) = "update"
  BY <1>1, Modes
<1> QED BY <1>1, <1>2, <1>3, UnpinCommitKeeps

(* A rollback only releases locks.                                          *)
LEMMA RollbackKeeps ==
    ASSUME IInv, NEW t \in Txns, Rollback(t)
    PROVE  IInv'
<1> USE DEF IInv
<1>1. End(t) /\ UNCHANGED tables /\ UNCHANGED <<slabs, pins, status, queue, stray>>
  BY DEF Rollback, tables
<1>2. /\ txn' \in [Txns -> Transactions] /\ Idle.op = "idle"
      /\ \A u \in Txns : txn'[u] \in {txn[u], Idle}
  BY <1>1, EndOfOne
<1>3. \A s : Pinned(s)' = Pinned(s) /\ InUse(s)' = InUse(s)
  BY <1>1, SameTables
<1>4. \A u \in Txns : txn'[u].op = "PruneDeletedSlabs" /\ txn[u].checked =>
         \A s \in txn[u].slabs : ~Pinned(s) /\ ~InUse(s)
  BY <1>2 DEF LoopSound, LoopChecked
<1>5. \A u \in Txns : txn'[u].op = "PinObject" =>
         status[txn[u].account] # "gone" /\ txn[u].held \subseteq slabs
  BY <1>2 DEF Shapes, Shape
<1>6. Undisturbed
  BY <1>1, <1>2, <1>3, <1>4, <1>5 DEF Undisturbed
<1> QED BY <1>1, <1>2, <1>6, SameTables, UndisturbedLocks, UndisturbedTables

(* PinSlabs pays for the slabs it adds, and holds all of them: no running   *)
(* pass of the deletion loop has found one of them deletable.               *)
LEMMA CommitPinSlabsKeeps ==
    ASSUME IInv, NEW t \in Txns, CommitPinSlabs(t)
    PROVE  IInv'
<1>0. PICK a \in Accounts : a = txn[t].account
  BY DEF CommitPinSlabs, IInv, Shapes, Shape
<1> DEFINE x   == txn[t]
           N   == NewPinsOf(x)
           new == Cardinality(N)
           P   == {<<a, s>> : s \in N}
<1> USE DEF IInv
<1>1. /\ x.want = {} /\ x.order = <<>> /\ x.op = "PinSlabs" /\ status[a] # "gone"
      /\ slabs' = slabs \cup x.slabs /\ fresh' = fresh \cup x.slabs
      /\ pins' = pins \cup {<<a, s>> : s \in x.slabs}
      /\ accPinned' = [accPinned EXCEPT ![a] = @ + new] /\ keyPinned' = keyPinned + new
      /\ End(t) /\ UNCHANGED <<objects, status, queue, stray>>
  BY <1>0 DEF CommitPinSlabs, Ready
<1>2. x.slabs \subseteq x.held /\ x.slabs \subseteq Slabs /\ Range(<<>>) = {}
  <2>1. Range(<<>>) = {}
    BY DEF Range
  <2> QED BY <1>1, <2>1 DEF Shapes, Shape, TypeOK, Transactions
<1>3. N \in SUBSET Slabs /\ IsFiniteSet(N)
  BY <1>2, ConstantsAssumption, FS_Subset DEF NewPinsOf
<1>4. new \in Nat /\ IsFiniteSet(P) /\ Cardinality(P) = new
  BY <1>3, PairsCount, FS_CardinalityType
<1>5. pins' = pins \cup P /\ pins \cap P = {}
  BY <1>0, <1>1 DEF NewPinsOf
<1>6. ASSUME NEW p \in P PROVE p[1] = a /\ p \in Accounts \X Slabs
  <2>1. PICK s \in N : p = <<a, s>>
    OBVIOUS
  <2> QED BY <1>2, <1>3, <2>1
<1>7. \A s : <<a, s>> \in pins' => <<a, s>> \in pins \/ s \in x.slabs
  BY <1>1
<1>8. \A s, b : b # a /\ <<b, s>> \in pins' => <<b, s>> \in pins
  BY <1>1
<1>9. \A s \in x.slabs : <<a, s>> \in pins'
  BY <1>1
<1> HIDE DEF P, N, new
<1>10. /\ PinsOf(a)' = PinsOf(a) \cup P /\ PinsOf(a) \cap P = {}
       /\ \A b \in Accounts \ {a} : PinsOf(b)' = PinsOf(b)
       /\ status[a] = "active" => ActivePins' = ActivePins \cup P
       /\ status[a] # "active" => ActivePins' = ActivePins
       /\ ActivePins \cap P = {}
  BY <1>1, <1>5, <1>6 DEF PinsOf, ActivePins
<1>11. /\ Cardinality(PinsOf(a)') = Cardinality(PinsOf(a)) + new
       /\ Cardinality(PinsOf(a)) \in Nat
  BY <1>4, <1>10, FinitePins, CountWith
<1>12. Cardinality(ActivePins') <= Cardinality(ActivePins) + new /\ Cardinality(ActivePins) \in Nat
       /\ Cardinality(ActivePins') \in Nat
  <2>1. CASE status[a] = "active"
    <3>1. /\ Cardinality(ActivePins \cup P) = Cardinality(ActivePins) + new
          /\ Cardinality(ActivePins) \in Nat
      BY <1>4, <1>10, FinitePins, CountWith
    <3>2. ActivePins' = ActivePins \cup P
      BY <1>10, <2>1
    <3>3. Cardinality(ActivePins') = Cardinality(ActivePins) + new
      BY <3>1, <3>2, Zenon
    <3> QED BY <1>4, <3>1, <3>3
  <2>2. CASE status[a] # "active"
    BY <1>4, <1>10, <2>2, FinitePins, FS_CardinalityType
  <2> QED BY <2>1, <2>2
<1>13. /\ accPinned \in [Accounts -> Nat] /\ keyPinned \in Nat
       /\ accPinned[a] >= Cardinality(PinsOf(a))
       /\ status[a] = "active" => accPinned[a] = Cardinality(PinsOf(a))
       /\ keyPinned >= Cardinality(ActivePins)
  BY <1>2, TotalsByAccount DEF TypeOK
<1>14. /\ accPinned[a] + new \in Nat /\ accPinned[a] + new >= Cardinality(PinsOf(a)')
       /\ status[a] = "active" => accPinned[a] + new = Cardinality(PinsOf(a)')
  BY <1>2, <1>4, <1>11, <1>13
<1>15. keyPinned' \in Nat /\ keyPinned' >= Cardinality(ActivePins')
  BY <1>1, <1>4, <1>12, <1>13
<1>16. accPinned' \in [Accounts -> Nat] /\ accPinned'[a] = accPinned[a] + new
       /\ \A b \in Accounts \ {a} : accPinned'[b] = accPinned[b]
  BY <1>1, <1>2, <1>13, <1>14
<1>17. TotalsCoverPins'
  <2>1. ASSUME NEW b \in Accounts
        PROVE  /\ accPinned'[b] >= Cardinality(PinsOf(b)')
               /\ status'[b] = "active" => accPinned'[b] = Cardinality(PinsOf(b)')
    <3>1. CASE b = a
      BY <1>1, <1>14, <1>16, <3>1
    <3>2. CASE b # a
      BY <1>1, <1>10, <1>16, <3>2, TotalsByAccount
    <3> QED BY <3>1, <3>2
  <2> QED BY <2>1, <1>15 DEF TotalsCoverPins, PinsOf, ActivePins
<1>18. /\ txn' \in [Txns -> Transactions] /\ txn'[t] = Idle /\ Idle.op = "idle"
       /\ \A u \in Txns \ {t} : txn'[u] = txn[u]
       /\ \A u \in Txns : txn'[u] \in {txn[u], Idle}
  BY <1>1, EndOfOne
<1>19. TypeOK'
  <2>1. pins' \subseteq {p \in Accounts \X Slabs : status'[p[1]] # "gone"}
    BY <1>1, <1>5, <1>6 DEF TypeOK
  <2> QED BY <1>1, <1>2, <1>15, <1>16, <1>18, <2>1 DEF TypeOK
<1>20. \A s : /\ InUse(s)' = InUse(s) /\ (Pinned(s) => Pinned(s)')
              /\ Pinned(s)' => Pinned(s) \/ s \in x.slabs
  BY <1>1, <1>2, <1>7, <1>8 DEF Pinned, InUse, Referenced
<1>21. KeptSlabsExist'
  BY <1>1, <1>20 DEF KeptSlabsExist
<1>22. ASSUME NEW u \in Txns, txn'[u].op = "PruneDeletedSlabs", txn[u].checked,
              NEW s \in txn[u].slabs
       PROVE  ~Pinned(s)' /\ ~InUse(s)'
  <2>1. txn'[u] = txn[u] /\ u # t
    BY <1>18, <1>22
  <2>2. ~Pinned(s) /\ ~InUse(s) /\ s \in txn[u].held
    BY <1>22, <2>1 DEF LoopSound, LoopChecked
  <2>3. LockMode(txn[u].op) = "update"
    BY <1>22, <2>1, Modes
  <2>4. s \notin x.slabs
    BY <1>2, <2>1, <2>2, <2>3, Conflicts DEF Compatible
  <2> QED BY <1>20, <2>2, <2>4
<1>23. \A u \in Txns : txn'[u].op = "PinObject" =>
          status[txn[u].account] # "gone" /\ txn[u].held \subseteq slabs
  BY <1>18 DEF Shapes, Shape
<1>24. \A s \in slabs' : s \in slabs \/ Pinned(s)'
  BY <1>1, <1>2, <1>9 DEF Pinned
<1>25. Undisturbed
  BY <1>1, <1>18, <1>20, <1>22, <1>23, <1>24 DEF Undisturbed
<1>26. AttachedArePinned'
  BY <1>1, <1>5 DEF AttachedArePinned
<1> QED BY <1>1, <1>17, <1>19, <1>21, <1>25, <1>26, UndisturbedLocks, UndisturbedTables

(* PinObject attaches slabs that exist and that no pass of the deletion     *)
(* loop holds.                                                              *)
LEMMA CommitPinObjectKeeps ==
    ASSUME IInv, NEW t \in Txns, CommitPinObject(t)
    PROVE  IInv'
<1> DEFINE x == txn[t]
           a == x.account
           o == x.object
<1> USE DEF IInv
<1>1. /\ x.op = "PinObject" /\ x.checked /\ x.order = <<>>
      /\ objects' = objects \cup {<<a, o>>} /\ End(t)
      /\ stray' = stray \cup {s \in SlabsOf(o) : <<a, s>> \notin pins}
      /\ UNCHANGED <<slabs, fresh, pins, status, accPinned, keyPinned, queue>>
  BY DEF CommitPinObject, Ready
<1>2. /\ a \in Accounts /\ o \in Objects /\ status[a] # "gone"
      /\ SlabsOf(o) \subseteq x.held /\ x.held \subseteq slabs
  <2>1. Range(<<>>) = {}
    BY DEF Range
  <2> QED BY <1>1, <2>1 DEF Shapes, Shape
<1>3. /\ txn' \in [Txns -> Transactions] /\ txn'[t] = Idle /\ Idle.op = "idle"
      /\ \A u \in Txns \ {t} : txn'[u] = txn[u]
      /\ \A u \in Txns : txn'[u] \in {txn[u], Idle}
  BY <1>1, EndOfOne
<1>4. TypeOK'
  <2>1. <<a, o>>[1] = a /\ <<a, o>> \in Accounts \X Objects
    BY <1>2
  <2>2. objects' \subseteq {p \in Accounts \X Objects : status'[p[1]] # "gone"}
    BY <1>1, <1>2, <2>1 DEF TypeOK
  <2>3. stray' \subseteq slabs
    BY <1>1, <1>2 DEF TypeOK
  <2> QED BY <1>1, <1>3, <2>2, <2>3 DEF TypeOK
<1>5. IsFiniteSet(objects')
  BY <1>1, FS_AddElement
<1>6. TotalsCoverPins'
  BY <1>1 DEF TotalsCoverPins
<1>7. \A s : Pinned(s)' = Pinned(s) /\ (InUse(s)' => InUse(s) \/ s \in SlabsOf(o))
  BY <1>1, <1>2 DEF Pinned, InUse, Referenced
<1>8. KeptSlabsExist'
  BY <1>1, <1>2, <1>7 DEF KeptSlabsExist
<1>9. ASSUME NEW u \in Txns, txn'[u].op = "PruneDeletedSlabs", txn[u].checked,
             NEW s \in txn[u].slabs
      PROVE  ~Pinned(s)' /\ ~InUse(s)'
  <2>1. txn'[u] = txn[u] /\ u # t
    BY <1>3, <1>9
  <2>2. ~Pinned(s) /\ ~InUse(s) /\ s \in txn[u].held
    BY <1>9, <2>1 DEF LoopSound, LoopChecked
  <2>3. LockMode(txn[u].op) = "update"
    BY <1>9, <2>1, Modes
  <2>4. s \notin x.held
    BY <2>1, <2>2, <2>3, Conflicts DEF Compatible
  <2> QED BY <1>2, <1>7, <2>2, <2>4
<1>10. \A u \in Txns : txn'[u].op = "PinObject" =>
          status[txn[u].account] # "gone" /\ txn[u].held \subseteq slabs
  BY <1>3 DEF Shapes, Shape
<1>11. Undisturbed
  BY <1>1, <1>3, <1>7, <1>9, <1>10 DEF Undisturbed
<1>12. AttachedArePinned'
  <2> SUFFICES ASSUME NEW p \in objects', NEW s \in SlabsOf(p[2])
               PROVE  <<p[1], s>> \in pins' \/ s \in stray'
    BY DEF AttachedArePinned
  <2>1. CASE p \in objects
    BY <1>1, <2>1 DEF AttachedArePinned
  <2>2. CASE p = <<a, o>>
    BY <1>1, <2>2
  <2> QED BY <1>1, <2>1, <2>2
<1> QED BY <1>4, <1>5, <1>6, <1>8, <1>11, <1>12, UndisturbedLocks, UndisturbedTables
(* A pass of the deletion loop deletes slabs nobody keeps and clears rows   *)
(* that have done their work: whatever it leaves is pinned or queued again. *)
LEMMA CommitPruneKeeps ==
    ASSUME IInv, NEW t \in Txns, CommitPruneDeletedSlabs(t)
    PROVE  IInv'
<1> DEFINE x == txn[t]
<1> USE DEF IInv
<1>1. /\ x.op = "PruneDeletedSlabs" /\ x.checked
      /\ slabs' = slabs \ x.slabs /\ fresh' = fresh \ x.slabs /\ stray' = stray \ x.slabs
      /\ queue' = queue \ Cleared(x) /\ End(t)
      /\ UNCHANGED <<pins, objects, status, accPinned, keyPinned>>
  BY DEF CommitPruneDeletedSlabs
<1>2. /\ txn' \in [Txns -> Transactions] /\ txn'[t] = Idle
      /\ \A u \in Txns \ {t} : txn'[u] = txn[u]
      /\ \A u \in Txns : txn'[u] = txn[u] \/ txn'[u] = Idle
  BY <1>1, EndOfOne
<1>3. /\ Idle.op = "idle" /\ Idle.order = <<>> /\ Idle.held = {} /\ Idle.want = {}
  BY DEF Idle, Transaction
<1>4. /\ x.slabs \subseteq x.held /\ \A s \in x.slabs : ~Pinned(s) /\ ~InUse(s)
      /\ \A q \in x.read : q[1] \in x.slabs \/ q[1] \in stray
                              \/ Pinned(q[1]) \/ QueuedSince(q[1], x.read)
  BY <1>1 DEF LoopSound, LoopChecked
<1>5. TypeOK'
  <2>1. \A q \in queue' : q \in slabs \X (1..MaxQueued) /\ q[1] \notin x.slabs
    BY <1>1 DEF Cleared, TypeOK
  <2>2. queue' \subseteq slabs' \X (1..MaxQueued)
    BY <1>1, <2>1
  <2> QED BY <1>1, <1>2, <2>2 DEF TypeOK
<1>6. Shapes'
  <2> SUFFICES ASSUME NEW u \in Txns PROVE Shape(txn[u])'
    BY DEF Shapes
  <2>1. Shape(txn[u])
    BY DEF Shapes
  <2>2. CASE txn'[u] = Idle
    BY <1>3, <2>2 DEF Shape, Idle, Transaction
  <2>3. CASE txn'[u] = txn[u] /\ txn[u].op = "PinObject"
    <3>1. u # t /\ LockMode(txn[t].op) = "update"
      BY <1>1, <2>3, Modes
    <3>2. txn[u].held \cap x.held = {}
      BY <3>1, Conflicts DEF Compatible
    <3>3. txn[u].held \subseteq slabs'
      BY <1>1, <1>4, <2>1, <2>3, <3>2 DEF Shape
    <3> QED BY <1>1, <2>1, <2>3, <3>3 DEF Shape
  <2> QED BY <1>1, <1>2, <2>1, <2>2, <2>3 DEF Shape
<1>7. Compatible'
  BY <1>2, <1>3 DEF Compatible
<1>8. Ascending'
  BY <1>2, <1>3 DEF Ascending
<1>9. OneLoop'
  BY <1>2, <1>3 DEF OneLoop
<1>10. \A s : Pinned(s)' = Pinned(s) /\ InUse(s)' = InUse(s)
  BY <1>1 DEF Pinned, InUse, Referenced
<1>11. KeptSlabsExist'
  BY <1>1, <1>4, <1>10 DEF KeptSlabsExist
<1>12. CheckedPinsHold'
  <2> SUFFICES ASSUME NEW u \in Txns, txn'[u].op = "PinObject", txn'[u].checked,
                      status'[txn'[u].account] = "active",
                      NEW s \in txn'[u].slabs
               PROVE  s \in slabs' /\ <<txn'[u].account, s>> \in pins'
    BY DEF CheckedPinsHold
  <2>1. txn'[u] = txn[u] /\ u # t
    BY <1>2, <1>3
  <2>2. s \in slabs /\ <<txn[u].account, s>> \in pins
    BY <1>1, <2>1 DEF CheckedPinsHold
  <2>3. LockMode(txn[t].op) = "update"
    BY <1>1, Modes
  <2>4. s \in txn[u].held
    BY <2>1 DEF Shapes, Shape
  <2>5. s \notin x.held
    BY <2>1, <2>3, <2>4, Conflicts DEF Compatible
  <2> QED BY <1>1, <1>4, <2>1, <2>2, <2>5
<1>13. LoopSound'
  <2>1. \A u \in Txns : txn'[u].op # "PruneDeletedSlabs"
    BY <1>1, <1>2, <1>3 DEF OneLoop
  <2> QED BY <2>1 DEF LoopSound
<1>14. UnpinnedIsQueued'
  <2> SUFFICES ASSUME NEW s \in slabs', s \notin stray'
               PROVE  Pinned(s)' \/ Queued(s)'
    BY DEF UnpinnedIsQueued
  <2>1. s \in slabs /\ s \notin x.slabs /\ s \notin stray
    BY <1>1
  <2>2. ASSUME NEW n \in 1..MaxQueued, <<s, n>> \in queue, <<s, n>> \notin x.read
        PROVE  Queued(s)'
    <3>1. <<s, n>> \notin Cleared(x)
      BY <2>1, <2>2 DEF Cleared
    <3> QED BY <1>1, <2>2, <3>1 DEF Queued
  <2>3. CASE Pinned(s)
    BY <1>10, <2>3
  <2>4. CASE ~Pinned(s)
    <3>1. PICK n \in 1..MaxQueued : <<s, n>> \in queue
      BY <2>1, <2>4 DEF UnpinnedIsQueued, Queued
    <3>2. CASE <<s, n>> \in x.read
      <4>1. QueuedSince(s, x.read)
        BY <1>4, <2>1, <2>4, <3>2
      <4> QED BY <2>2, <4>1 DEF QueuedSince
    <3> QED BY <2>2, <3>1, <3>2
  <2> QED BY <2>3, <2>4
<1>15. TotalsCoverPins' /\ IsFiniteSet(objects')
  BY <1>1 DEF TotalsCoverPins
<1>16. AttachedArePinned'
  <2> SUFFICES ASSUME NEW p \in objects, NEW s \in SlabsOf(p[2])
               PROVE  <<p[1], s>> \in pins \/ s \in stray'
    BY <1>1 DEF AttachedArePinned
  <2>1. p[1] \in Accounts /\ p[2] \in Objects /\ p = <<p[1], p[2]>>
    BY DEF TypeOK
  <2>2. InUse(s)
    BY <2>1 DEF InUse, Referenced
  <2> QED BY <1>1, <1>4, <2>2 DEF AttachedArePinned
<1> QED BY <1>5, <1>6, <1>7, <1>8, <1>9, <1>11, <1>12, <1>13, <1>14, <1>15, <1>16

-----------------------------------------------------------------------------
(***************************************************************************)
(* Deleting accounts; time                                                 *)
(***************************************************************************)

(* DeleteAccount gives the key back what the account was charged.           *)
LEMMA DeleteAccountKeeps ==
    ASSUME IInv, NEW a \in Accounts, DeleteAccount(a)
    PROVE  IInv'
<1> USE DEF IInv
<1>1. /\ status[a] = "active" /\ status' = [status EXCEPT ![a] = "deleted"]
      /\ keyPinned' = keyPinned - accPinned[a]
      /\ UNCHANGED <<slabs, fresh, pins, objects, accPinned, queue, stray, txn>>
  BY DEF DeleteAccount
<1>2. /\ status' \in [Accounts -> {"active", "deleted", "gone"}] /\ status'[a] = "deleted"
      /\ \A b \in Accounts \ {a} : status'[b] = status[b]
  BY <1>1 DEF TypeOK
<1>3. /\ PinsOf(a) \subseteq ActivePins /\ ActivePins' = ActivePins \ PinsOf(a)
      /\ \A b : PinsOf(b)' = PinsOf(b)
  BY <1>1, <1>2 DEF PinsOf, ActivePins, TypeOK
<1>4. /\ Cardinality(ActivePins') = Cardinality(ActivePins) - Cardinality(PinsOf(a))
      /\ Cardinality(ActivePins) \in Nat /\ Cardinality(PinsOf(a)) \in Nat
      /\ Cardinality(ActivePins') \in Nat
  BY <1>3, FinitePins, CountWithout
<1>5. /\ accPinned[a] = Cardinality(PinsOf(a)) /\ keyPinned \in Nat
      /\ keyPinned >= Cardinality(ActivePins)
  BY <1>1, TotalsByAccount DEF TypeOK
<1>6. keyPinned' \in Nat /\ keyPinned' >= Cardinality(ActivePins')
  BY <1>1, <1>4, <1>5
<1>7. TotalsCoverPins'
  <2>1. ASSUME NEW b \in Accounts
        PROVE  /\ accPinned'[b] >= Cardinality(PinsOf(b)')
               /\ status'[b] = "active" => accPinned'[b] = Cardinality(PinsOf(b)')
    BY <1>1, <1>2, <1>3, TotalsByAccount
  <2> QED BY <2>1, <1>6 DEF TotalsCoverPins, PinsOf, ActivePins
<1>8. TypeOK'
  BY <1>1, <1>2, <1>6 DEF TypeOK
<1>9. \A s : Pinned(s)' = Pinned(s) /\ InUse(s)' = InUse(s)
  BY <1>1 DEF Pinned, InUse, Referenced
<1>10. KeptSlabsExist'
  BY <1>1, <1>9 DEF KeptSlabsExist
<1>11. \A u \in Txns : txn[u].op = "PruneDeletedSlabs" /\ txn[u].checked =>
          \A s \in txn[u].slabs : ~Pinned(s) /\ ~InUse(s)
  BY DEF LoopSound, LoopChecked
<1>12. ASSUME NEW u \in Txns, txn[u].op = "PinObject"
       PROVE  /\ status'[txn[u].account] # "gone" /\ txn[u].held \subseteq slabs
              /\ status'[txn[u].account] = "active" => status[txn[u].account] = "active"
  <2>1. /\ txn[u].account \in Accounts /\ status[txn[u].account] # "gone"
        /\ txn[u].held \subseteq slabs
    BY <1>12 DEF Shapes, Shape
  <2> QED BY <1>1, <1>2, <2>1
<1>13. Undisturbed
  BY <1>1, <1>9, <1>11, <1>12 DEF Undisturbed
<1>14. AttachedArePinned'
  BY <1>1 DEF AttachedArePinned
<1> QED BY <1>1, <1>7, <1>8, <1>10, <1>13, <1>14, UndisturbedLocks, UndisturbedTables

(* Time passing changes nothing the invariant speaks of.                    *)
LEMMA AgeKeeps ==
    ASSUME IInv, NEW s \in Slabs, Age(s)
    PROVE  IInv'
<1> USE DEF IInv
<1>1. /\ fresh' = fresh \ {s}
      /\ UNCHANGED <<slabs, pins, objects, status, accPinned, keyPinned, queue, stray, txn>>
  BY DEF Age
<1>2. TypeOK' /\ TotalsCoverPins' /\ IsFiniteSet(objects') /\ AttachedArePinned'
  BY <1>1 DEF TypeOK, TotalsCoverPins, AttachedArePinned
<1>3. \A q : Pinned(q)' = Pinned(q) /\ InUse(q)' = InUse(q)
  BY <1>1 DEF Pinned, InUse, Referenced
<1>4. KeptSlabsExist'
  BY <1>1, <1>3 DEF KeptSlabsExist
<1>5. \A u \in Txns : txn[u].op = "PruneDeletedSlabs" /\ txn[u].checked =>
         \A q \in txn[u].slabs : ~Pinned(q) /\ ~InUse(q)
  BY DEF LoopSound, LoopChecked
<1>6. \A u \in Txns : txn[u].op = "PinObject" =>
         status[txn[u].account] # "gone" /\ txn[u].held \subseteq slabs
  BY DEF Shapes, Shape
<1>7. Undisturbed
  BY <1>1, <1>3, <1>5, <1>6 DEF Undisturbed
<1> QED BY <1>2, <1>4, <1>7, UndisturbedLocks, UndisturbedTables
(* A batch that is not filled was the last one: nothing is left to take.    *)
LEMMA LastBatch ==
    ASSUME NEW objs, IsFiniteSet(objs), NEW B \in SUBSET objs, IsFirst(B, PruneLimit, objs),
           NEW mine, IsFiniteSet(mine), NEW S \in SUBSET mine,
           IsFirst(S, PruneLimit - Cardinality(B), mine),
           ~BatchFilled(Cardinality(S), PruneLimit - Cardinality(B))
    PROVE  B = objs /\ S = mine
<1> DEFINE l == PruneLimit
           b == Cardinality(B)
           s == Cardinality(S)
           k == Cardinality(objs)
           m == Cardinality(mine)
<1>1. b \in Nat /\ s \in Nat /\ k \in Nat /\ m \in Nat /\ l \in Nat
  BY FS_Subset, FS_CardinalityType, ConstantsAssumption
<1>2. b = (IF l < k THEN l ELSE k) /\ s = (IF l - b < m THEN l - b ELSE m) /\ s # l - b
  BY DEF IsFirst, BatchFilled
<1>3. b = k /\ s = m
  <2> HIDE DEF l, b, s, k, m
  <2> QED BY <1>1, <1>2
<1> QED BY <1>3, FS_Subset

(* Pins are taken only in the batch that takes the last of the objects.     *)
LEMMA PinsAfterObjects ==
    ASSUME NEW objs, IsFiniteSet(objs), NEW B \in SUBSET objs, IsFirst(B, PruneLimit, objs),
           NEW mine, IsFiniteSet(mine), NEW S \in SUBSET mine, S # {},
           IsFirst(S, PruneLimit - Cardinality(B), mine)
    PROVE  B = objs
<1> DEFINE l == PruneLimit
           b == Cardinality(B)
           s == Cardinality(S)
           k == Cardinality(objs)
           m == Cardinality(mine)
<1>1. b \in Nat /\ s \in Nat /\ k \in Nat /\ m \in Nat /\ l \in Nat
  BY FS_Subset, FS_CardinalityType, ConstantsAssumption
<1>2. b = (IF l < k THEN l ELSE k) /\ s = (IF l - b < m THEN l - b ELSE m) /\ s # 0
  <2>1. IsFiniteSet(S)
    BY FS_Subset
  <2>2. s # 0
    BY <2>1, FS_EmptySet
  <2> QED BY <2>2 DEF IsFirst
<1>3. b = k
  <2> HIDE DEF l, b, s, k, m
  <2> QED BY <1>1, <1>2
<1> QED BY <1>3, FS_Subset

(* PruneAccounts takes pins without a lock, but only from an account that   *)
(* is deleted; it drops the row once the account owns nothing.              *)
LEMMA PruneAccountsKeeps ==
    ASSUME IInv, NEW a \in Accounts, PruneAccounts(a)
    PROVE  IInv'
<1> DEFINE objs == {p \in objects : p[1] = a}
           mine == {s \in Slabs : <<a, s>> \in pins}
<1> USE DEF IInv
<1>1. /\ status[a] = "deleted" /\ UNCHANGED <<slabs, fresh, keyPinned, stray, txn>>
      /\ \E B \in SUBSET objs : \E S \in SUBSET mine : PruneBatch(a, B, S, objs, mine)
  BY DEF PruneAccounts
<1>2. PICK B \in SUBSET objs, S \in SUBSET mine : PruneBatch(a, B, S, objs, mine)
  BY <1>1
<1> DEFINE left == PruneLimit - Cardinality(B)
           U    == {<<a, s>> : s \in S}
           last == ~BatchFilled(Cardinality(S), left)
<1>3. /\ objects' = objects \ B /\ pins' = pins \ U /\ Enqueue(S)
      /\ ~last => UNCHANGED <<status, accPinned>>
      /\ last => /\ \A t \in Txns : ~(txn[t].op = "PinObject" /\ txn[t].account = a)
                 /\ status' = [status EXCEPT ![a] = "gone"]
                 /\ accPinned' = [accPinned EXCEPT ![a] = 0]
      /\ IsFirst(B, PruneLimit, objs) /\ IsFirst(S, left, mine)
  BY <1>2 DEF PruneBatch
<1>4. IsFiniteSet(objs) /\ IsFiniteSet(mine) /\ IsFiniteSet(objects')
  BY <1>3, FS_Subset, ConstantsAssumption
<1>5. last => B = objs /\ S = mine
  <2> HIDE DEF objs, mine
  <2> QED BY <1>3, <1>4, LastBatch
<1>23. S # {} => \A p \in objects' : p[1] # a
  <2>1. S # {} => B = objs
    <3> HIDE DEF objs, mine
    <3> QED BY <1>3, <1>4, PinsAfterObjects
  <2> QED BY <1>3, <2>1
<1>6. S \in SUBSET slabs
  BY DEF KeptSlabsExist, Pinned
<1>7. /\ queue \subseteq queue' /\ queue' \subseteq slabs \X (1..MaxQueued)
      /\ \A s \in S : \E n \in 1..MaxQueued : <<s, n>> \in queue' \ queue
  BY <1>3, <1>6, EnqueueAppends
<1>8. ASSUME NEW p \in U PROVE p[1] = a /\ p[2] \in S
  <2>1. PICK s \in S : p = <<a, s>>
    OBVIOUS
  <2> QED BY <2>1
<1>9. last => \A p \in pins' : p[1] # a
  <2> SUFFICES ASSUME last, NEW p \in pins', p[1] = a PROVE FALSE
    OBVIOUS
  <2>1. p \in pins /\ p \in Accounts \X Slabs
    BY <1>3 DEF TypeOK
  <2>2. p = <<a, p[2]>> /\ p[2] \in Slabs
    BY <2>1
  <2>3. p[2] \in mine
    BY <2>1, <2>2
  <2>4. p \in U
    BY <1>5, <2>2, <2>3
  <2> QED BY <1>3, <2>4
<1>10. last => \A p \in objects' : p[1] # a
  BY <1>3, <1>5
<1>11. S \subseteq Slabs
  OBVIOUS
<1> HIDE DEF U, last, objs, mine
<1>12. /\ status' \in [Accounts -> {"active", "deleted", "gone"}]
       /\ \A b \in Accounts \ {a} : status'[b] = status[b]
       /\ status'[a] = IF last THEN "gone" ELSE "deleted"
       /\ accPinned' \in [Accounts -> Nat]
       /\ \A b \in Accounts \ {a} : accPinned'[b] = accPinned[b]
       /\ accPinned'[a] = IF last THEN 0 ELSE accPinned[a]
  BY <1>1, <1>3 DEF TypeOK
<1>13. TypeOK'
  <2>1. \A p \in pins' : p \in pins /\ p \in Accounts \X Slabs /\ status'[p[1]] # "gone"
    BY <1>3, <1>9, <1>12 DEF TypeOK
  <2>2. \A p \in objects' : p \in Accounts \X Objects /\ status'[p[1]] # "gone"
    BY <1>3, <1>10, <1>12 DEF TypeOK
  <2> QED BY <1>1, <1>7, <1>12, <2>1, <2>2 DEF TypeOK
<1>14. /\ ActivePins' = ActivePins
       /\ \A b \in Accounts \ {a} : PinsOf(b)' = PinsOf(b)
       /\ PinsOf(a)' \in SUBSET PinsOf(a)
       /\ last => PinsOf(a)' = {}
  BY <1>1, <1>3, <1>8, <1>9, <1>12 DEF PinsOf, ActivePins, TypeOK
<1>15. accPinned'[a] >= Cardinality(PinsOf(a)')
  <2>1. CASE last
    BY <1>12, <1>14, <2>1, FS_EmptySet
  <2>2. CASE ~last
    <3>1. Cardinality(PinsOf(a)') <= Cardinality(PinsOf(a)) /\ IsFiniteSet(PinsOf(a)')
      BY <1>14, FinitePins, FS_Subset
    <3>2. Cardinality(PinsOf(a)') \in Nat /\ Cardinality(PinsOf(a)) \in Nat
      BY <3>1, FinitePins, FS_CardinalityType
    <3>3. accPinned[a] >= Cardinality(PinsOf(a)) /\ accPinned[a] \in Nat
      BY TotalsByAccount DEF TypeOK
    <3> QED BY <1>12, <2>2, <3>1, <3>2, <3>3
  <2> QED BY <2>1, <2>2
<1>16. TotalsCoverPins'
  <2>1. ASSUME NEW b \in Accounts
        PROVE  /\ accPinned'[b] >= Cardinality(PinsOf(b)')
               /\ status'[b] = "active" => accPinned'[b] = Cardinality(PinsOf(b)')
    <3>1. CASE b = a
      BY <1>12, <1>15, <3>1
    <3>2. CASE b # a
      BY <1>12, <1>14, <3>2, TotalsByAccount
    <3> QED BY <3>1, <3>2
  <2>2. keyPinned' >= Cardinality(ActivePins')
    BY <1>1, <1>14, TotalsByAccount
  <2> QED BY <2>1, <2>2 DEF TotalsCoverPins, PinsOf, ActivePins
<1>17. \A s : (Pinned(s)' => Pinned(s)) /\ (InUse(s)' => InUse(s))
  BY <1>3 DEF Pinned, InUse, Referenced
<1>18. KeptSlabsExist'
  BY <1>1, <1>17 DEF KeptSlabsExist
<1>19. ASSUME NEW s \in Slabs, Pinned(s), ~Pinned(s)'
       PROVE  \E m \in 1..MaxQueued : <<s, m>> \in queue' \ queue
  <2>1. PICK b \in Accounts : <<b, s>> \in pins /\ <<b, s>> \notin pins'
    BY <1>19 DEF Pinned
  <2>2. <<b, s>> \in U
    BY <1>3, <2>1
  <2>3. s \in S
    BY <1>8, <2>2
  <2> QED BY <1>7, <2>3
<1>20. \A u \in Txns : txn[u].op = "PruneDeletedSlabs" /\ txn[u].checked =>
          \A s \in txn[u].slabs : ~Pinned(s)' /\ ~InUse(s)'
  BY <1>17 DEF LoopSound, LoopChecked
<1>21. ASSUME NEW u \in Txns, txn[u].op = "PinObject"
       PROVE  /\ status'[txn[u].account] # "gone" /\ txn[u].held \subseteq slabs
              /\ status'[txn[u].account] = "active" =>
                    /\ status[txn[u].account] = "active"
                    /\ \A s : <<txn[u].account, s>> \in pins => <<txn[u].account, s>> \in pins'
  <2>1. /\ txn[u].account \in Accounts /\ status[txn[u].account] # "gone"
        /\ txn[u].held \subseteq slabs
    BY <1>21 DEF Shapes, Shape
  <2>2. CASE txn[u].account = a
    BY <1>3, <1>12, <1>21, <2>1, <2>2
  <2>3. CASE txn[u].account # a
    BY <1>3, <1>8, <1>12, <2>1, <2>3
  <2> QED BY <2>2, <2>3
<1>22. Undisturbed
  BY <1>1, <1>7, <1>19, <1>20, <1>21 DEF Undisturbed
<1>24. AttachedArePinned'
  <2> SUFFICES ASSUME NEW p \in objects', NEW s \in SlabsOf(p[2])
               PROVE  <<p[1], s>> \in pins' \/ s \in stray'
    BY DEF AttachedArePinned
  <2>1. <<p[1], s>> \in pins \/ s \in stray
    BY <1>3 DEF AttachedArePinned
  <2>2. <<p[1], s>> \in U => p[1] = a /\ S # {}
    BY <1>8
  <2> QED BY <1>1, <1>3, <1>23, <2>1, <2>2
<1> QED BY <1>4, <1>13, <1>16, <1>18, <1>22, <1>24, UndisturbedLocks, UndisturbedTables
-----------------------------------------------------------------------------
(***************************************************************************)
(* Theorems                                                                *)
(***************************************************************************)

(* An empty database satisfies the invariant.                               *)
LEMMA InitIInv == Init => IInv
<1> SUFFICES ASSUME Init PROVE IInv
  OBVIOUS
<1>1. /\ Idle \in Transactions /\ Idle.op = "idle" /\ Idle.order = <<>> /\ Idle.held = {}
      /\ Idle.want = {} /\ Idle.checked = FALSE
  BY DEF Idle, Transaction, Transactions, Nothing
<1>2. \A t \in Txns : txn[t] = Idle
  BY DEF Init
<1>3. TypeOK
  BY <1>1 DEF Init, TypeOK
<1>4. Shapes /\ Compatible /\ Ascending /\ OneLoop /\ CheckedPinsHold /\ LoopSound
  BY <1>1, <1>2 DEF Shapes, Shape, Compatible, Ascending, OneLoop, CheckedPinsHold, LoopSound
<1>5. KeptSlabsExist /\ UnpinnedIsQueued /\ AttachedArePinned
  BY DEF Init, KeptSlabsExist, UnpinnedIsQueued, AttachedArePinned, Pinned, InUse, Referenced
<1>6. TotalsCoverPins
  <2>1. \A a : PinsOf(a) = {}
    BY DEF Init, PinsOf
  <2>2. ActivePins = {} /\ keyPinned = 0 /\ \A a \in Accounts : accPinned[a] = 0
    BY DEF Init, ActivePins
  <2>3. /\ \A a \in Accounts : /\ accPinned[a] >= Cardinality(PinsOf(a))
                               /\ status[a] = "active" => accPinned[a] = Cardinality(PinsOf(a))
        /\ keyPinned >= Cardinality(ActivePins)
    BY <2>1, <2>2, FS_EmptySet
  <2> QED BY <2>3 DEF TotalsCoverPins, PinsOf, ActivePins
<1>7. IsFiniteSet(objects)
  BY FS_EmptySet DEF Init
<1> QED BY <1>3, <1>4, <1>5, <1>6, <1>7 DEF IInv

(* Every step keeps it.                                                     *)
LEMMA NextIInv == IInv /\ [Next]_vars => IInv'
<1> SUFFICES ASSUME IInv, [Next]_vars PROVE IInv'
  OBVIOUS
<1>1. CASE UNCHANGED vars
  <2>1. UNCHANGED tables /\ txn' = txn
    BY <1>1 DEF vars
  <2>2. UNCHANGED <<slabs, pins, status, queue>>
    BY <2>1 DEF tables
  <2>3. Shapes' /\ Compatible' /\ Ascending' /\ OneLoop'
    BY <2>1, <2>2 DEF IInv, Shapes, Shape, Compatible, Ascending, OneLoop
  <2>4. CheckedPinsHold'
    BY <2>1, <2>2 DEF IInv, CheckedPinsHold
  <2>5. LoopSound'
    BY <2>1, <2>2, SameTables DEF IInv, LoopSound, LoopChecked
  <2> QED BY <2>1, <2>3, <2>4, <2>5, SameTables DEF IInv, TypeOK
<1>2. ASSUME NEW t \in Txns,
             \/ SkipUnseen(t) \/ LockSlab(t) \/ UpsertSlab(t) \/ InsertObjectSlab(t) \/ Rollback(t)
             \/ CommitPinSlabs(t) \/ CommitUnpinSlab(t) \/ CommitPruneSlabs(t)
             \/ CheckPinObject(t) \/ CommitPinObject(t) \/ CommitDeleteObject(t)
             \/ StartPruneDeletedSlabs(t) \/ CheckPruneDeletedSlabs(t)
             \/ CommitPruneDeletedSlabs(t)
      PROVE  IInv'
  BY <1>2, SkipUnseenKeeps, LockSlabKeeps, InsertsKeep, RollbackKeeps, CommitPinSlabsKeeps, UnpinsKeep,
     CheckPinObjectKeeps, CommitPinObjectKeeps, StartsKeep, CheckPruneKeeps, CommitPruneKeeps
<1>3. ASSUME NEW t \in Txns, NEW a \in Accounts,
             \/ \E order \in PinOrders : StartPinSlabs(t, a, order)
             \/ \E s \in Slabs : StartUnpinSlab(t, a, s)
             \/ StartPruneSlabs(t, a)
             \/ \E o \in Objects : StartPinObject(t, a, o) \/ StartDeleteObject(t, a, o)
      PROVE  IInv'
  BY <1>3, StartsKeep
<1>4. ASSUME NEW a \in Accounts, DeleteAccount(a) \/ PruneAccounts(a) PROVE IInv'
  BY <1>4, DeleteAccountKeeps, PruneAccountsKeeps
<1>5. ASSUME NEW s \in Slabs, Age(s) PROVE IInv'
  BY <1>5, AgeKeeps
<1> QED BY <1>1, <1>2, <1>3, <1>4, <1>5 DEF Next

(* The invariant holds in every reachable state.                            *)
THEOREM Invariance == Spec => []IInv
BY InitIInv, NextIInv, PTL DEF Spec

(* Tables keep their types, and foreign keys resolve.                       *)
THEOREM TypeCorrect == Spec => []TypeOK
<1>1. IInv => TypeOK
  BY DEF IInv
<1> QED BY Invariance, <1>1, PTL

(* deleteOrphanedSlabs never deletes a slab that is pinned or referenced,   *)
(* whatever is pinned or attached while its pass is running.                *)
THEOREM DeletionIsSafe == Spec => []KeptSlabsExist
<1>1. IInv => KeptSlabsExist
  BY DEF IInv
<1> QED BY Invariance, <1>1, PTL

(* What PinObject checks under its share locks holds until it commits.      *)
THEOREM PinObjectChecksHold == Spec => []CheckedPinsHold
<1>1. IInv => CheckedPinsHold
  BY DEF IInv
<1> QED BY Invariance, <1>1, PTL

(* The totals of accounts and connect keys never fall below what is pinned, *)
(* so unpinSlabs and DeleteAccount never take them below zero.              *)
THEOREM TotalsNeverShort == Spec => []TotalsCoverPins
<1>1. IInv => TotalsCoverPins
  BY DEF IInv
<1> QED BY Invariance, <1>1, PTL

(* PruneDeletedSlabs clears exactly the rows it has worked off: no slab     *)
(* outside of objects is left without a pin and without a row.              *)
THEOREM NoForgottenSlab == Spec => []UnpinnedIsQueued
<1>1. IInv => UnpinnedIsQueued
  BY DEF IInv
<1> QED BY Invariance, <1>1, PTL

(* In a circle of transactions that lock in digest order, the one that      *)
(* needs the greatest row waits for nobody in the circle; and nobody waits  *)
(* for a row it has a lock on.                                              *)
THEOREM DeadlocksAreLate == Spec => []DeadlocksNeedLateRows
<1>1. ASSUME IInv PROVE DeadlocksNeedLateRows
  <2> SUFFICES ASSUME NEW D \in SUBSET Txns, Deadlocked(D),
                      \A t \in D : ~(/\ Inserting(t) /\ txn[t].op \in {"PinSlabs", "PinObject"}
                                     /\ Needs(t) \notin txn[t].held)
               PROVE  FALSE
    BY DEF DeadlocksNeedLateRows
  <2> DEFINE N == {s \in Slabs : \E t \in D : s = Needs(t)}
  <2>1. ASSUME NEW t \in D
        PROVE  Needs(t) \in txn[t].want /\ txn[t].want \subseteq Slabs
    <3>0. t \in Txns /\ txn[t].want \subseteq Slabs
      BY <1>1 DEF IInv, TypeOK, Transactions
    <3>1. ~Inserting(t)
      <4> SUFFICES ASSUME Inserting(t) PROVE FALSE
        OBVIOUS
      <4>1. txn[t].op \in {"PinSlabs", "PinObject"}
        BY <1>1, <3>0 DEF IInv, Shapes, Shape, Inserting
      <4>2. PICK u \in D : u \in Blockers(t, Needs(t))
        BY DEF Deadlocked, Waits
      <4>3. /\ u \in Txns /\ u # t /\ Needs(t) \in txn[u].held
            /\ Conflict(LockMode(txn[u].op), LockMode(txn[t].op))
        BY <4>2 DEF Blockers
      <4>4. Needs(t) \notin txn[t].held
        BY <1>1, <3>0, <4>3 DEF IInv, Compatible
      <4> QED BY <4>1, <4>4
    <3>2. Locking(t)
      BY <3>1 DEF Deadlocked, Waits
    <3>3. txn[t].want # {} /\ txn[t].want \in SUBSET Nat /\ Needs(t) = LeastOf(txn[t].want)
      BY <3>0, <3>2, ConstantsAssumption DEF Locking, Needs, NextToLock
    <3> QED BY <3>0, <3>3, LeastExists
  <2>2. N # {} /\ N \in SUBSET Nat /\ IsFiniteSet(N)
    <3>1. N \in SUBSET Slabs
      OBVIOUS
    <3>2. D # {}
      BY DEF Deadlocked
    <3> QED BY <2>1, <3>1, <3>2, ConstantsAssumption, FS_Subset
  <2>3. PICK g \in N : \A s \in N : s <= g
    <3> HIDE DEF N
    <3> QED BY <2>2, GreatestExists
  <2>4. PICK t \in D : g = Needs(t)
    OBVIOUS
  <2>5. PICK u \in D : g \in txn[u].held
    BY <2>4 DEF Deadlocked, Waits, Blockers
  <2>6. Needs(u) \in N /\ Needs(u) \in txn[u].want
    BY <2>1
  <2>7. g < Needs(u)
    BY <1>1, <2>5, <2>6 DEF IInv, Ascending
  <2>8. Needs(u) <= g
    BY <2>3, <2>6
  <2>9. g \in Nat /\ Needs(u) \in Nat
    BY <2>2, <2>6
  <2> QED BY <2>7, <2>8, <2>9
<1> QED BY Invariance, <1>1, PTL

(* Which pins a step removes.                                               *)
LEMMA WhoUnpins ==
    ASSUME TypeOK, [Next]_vars, pins' # pins
    PROVE  \/ pins \subseteq pins'
           \/ \E t \in Txns : CommitUnpinSlab(t) \/ CommitPruneSlabs(t) \/ CommitDeleteObject(t)
           \/ \E a \in Accounts : PruneAccounts(a)
<1>1. CASE UNCHANGED vars
  BY <1>1 DEF vars, tables
<1>2. ASSUME NEW t \in Txns, CommitPinSlabs(t) PROVE pins \subseteq pins'
  BY <1>2 DEF CommitPinSlabs
<1>3. ASSUME NEW t \in Txns,
             \/ SkipUnseen(t) \/ LockSlab(t) \/ UpsertSlab(t) \/ InsertObjectSlab(t)
             \/ Rollback(t) \/ CheckPinObject(t)
             \/ CommitPinObject(t) \/ StartPruneDeletedSlabs(t) \/ CheckPruneDeletedSlabs(t)
             \/ CommitPruneDeletedSlabs(t)
             \/ \E a \in Accounts, order \in PinOrders : StartPinSlabs(t, a, order)
             \/ \E a \in Accounts, s \in Slabs : StartUnpinSlab(t, a, s)
             \/ \E a \in Accounts : StartPruneSlabs(t, a)
             \/ \E a \in Accounts, o \in Objects : StartPinObject(t, a, o) \/ StartDeleteObject(t, a, o)
      PROVE  pins' = pins
  BY <1>3 DEF SkipUnseen, LockSlab, UpsertSlab, InsertObjectSlab, Rollback, CheckPinObject, CommitPinObject,
     StartPruneDeletedSlabs, CheckPruneDeletedSlabs, CommitPruneDeletedSlabs, StartPinSlabs,
     StartUnpinSlab, StartPruneSlabs, StartPinObject, StartDeleteObject, Start, tables
<1>4. ASSUME NEW a \in Accounts, DeleteAccount(a) PROVE pins' = pins
  BY <1>4 DEF DeleteAccount
<1>5. ASSUME NEW s \in Slabs, Age(s) PROVE pins' = pins
  BY <1>5 DEF Age
<1> QED BY <1>1, <1>2, <1>3, <1>4, <1>5 DEF Next

(* The pins UnpinSlabs removes are of its account and among its slabs.      *)
LEMMA UnpinnedPins ==
    ASSUME NEW a, NEW S, UnpinSlabs(a, S), NEW p \in pins \ pins'
    PROVE  p[1] = a /\ p[2] \in S
<1>1. p \in {<<a, s>> : s \in {s \in S : <<a, s>> \in pins}}
  BY DEF UnpinSlabs
<1>2. PICK s \in S : p = <<a, s>>
  BY <1>1
<1> QED BY <1>2

(* UnpinSlab, PruneSlabs and DeleteObject look for references under the     *)
(* lock, and only PruneAccounts, of deleted accounts, does not.             *)
THEOREM UsedSlabsKeptPinned == Spec => UsedSlabsStayPinned
<1>1. ASSUME TypeOK, [Next]_vars,
             NEW p \in pins \ pins', status[p[1]] = "active"
      PROVE  ~Referenced(p[1], p[2], {})'
  <2>1. CASE \E t \in Txns : CommitUnpinSlab(t)
    <3>1. PICK t \in Txns : CommitUnpinSlab(t)
      BY <2>1
    <3>2. /\ UnpinSlabs(txn[t].account, txn[t].slabs) /\ objects' = objects
          /\ \A s \in txn[t].slabs : ~Referenced(txn[t].account, s, {})
      BY <3>1 DEF CommitUnpinSlab
    <3>3. p[1] = txn[t].account /\ p[2] \in txn[t].slabs
      BY <3>2, UnpinnedPins
    <3> QED BY <3>2, <3>3 DEF Referenced
  <2>2. CASE \E t \in Txns : CommitPruneSlabs(t)
    <3>1. PICK t \in Txns : CommitPruneSlabs(t)
      BY <2>2
    <3>2. UnpinSlabs(txn[t].account, StillPrunable(txn[t])) /\ objects' = objects
      BY <3>1 DEF CommitPruneSlabs
    <3>3. p[1] = txn[t].account /\ p[2] \in StillPrunable(txn[t])
      BY <3>2, UnpinnedPins
    <3> QED BY <3>2, <3>3 DEF Referenced, StillPrunable
  <2>3. CASE \E t \in Txns : CommitDeleteObject(t)
    <3>1. PICK t \in Txns : CommitDeleteObject(t)
      BY <2>3
    <3> DEFINE S == {s \in txn[t].held : ~Referenced(txn[t].account, s, {txn[t].object})}
    <3>2. /\ UnpinSlabs(txn[t].account, S)
          /\ objects' = objects \ {<<txn[t].account, txn[t].object>>}
      BY <3>1 DEF CommitDeleteObject
    <3>3. p[1] = txn[t].account /\ p[2] \in S
      <4> HIDE DEF S
      <4> QED BY <3>2, UnpinnedPins
    <3> QED BY <3>2, <3>3 DEF Referenced
  <2>4. ~\E a \in Accounts : PruneAccounts(a)
    <3> SUFFICES ASSUME NEW a \in Accounts, PruneAccounts(a) PROVE FALSE
      OBVIOUS
    <3>1. PICK B, S : status[a] = "deleted" /\ pins' = pins \ {<<a, s>> : s \in S}
      BY DEF PruneAccounts, PruneBatch
    <3>2. PICK s \in S : p = <<a, s>>
      BY <3>1
    <3> QED BY <1>1, <3>1, <3>2
  <2> QED BY <1>1, <2>1, <2>2, <2>3, <2>4, WhoUnpins
<1>2. TypeOK /\ [Next]_vars =>
         \A p \in pins \ pins' : status[p[1]] = "active" => ~Referenced(p[1], p[2], {})'
  BY <1>1
<1> QED BY TypeCorrect, <1>2, PTL DEF Spec, UsedSlabsStayPinned

(* PruneSlabs reads pinned_at again under the lock.                         *)
THEOREM FreshPinsSpared == Spec => PruneSparesFreshPins
<1>1. ASSUME TypeOK, [Next]_vars, NEW t \in Txns,
             txn[t].op = "PruneSlabs", txn'[t] = Idle, NEW p \in pins \ pins'
      PROVE  p[2] \notin fresh
  <2>1. txn'[t] # txn[t]
    BY <1>1 DEF Idle, Transaction
  <2>2. ASSUME NEW u \in Txns, u # t, End(u) PROVE FALSE
    BY <2>1, <2>2 DEF End, TypeOK
  <2>3. ~\E a \in Accounts : PruneAccounts(a)
    BY <2>1 DEF PruneAccounts
  <2>4. PICK u \in Txns : CommitUnpinSlab(u) \/ CommitPruneSlabs(u) \/ CommitDeleteObject(u)
    BY <1>1, <2>3, WhoUnpins
  <2>5. u = t
    BY <2>2, <2>4 DEF CommitUnpinSlab, CommitPruneSlabs, CommitDeleteObject
  <2>6. UnpinSlabs(txn[t].account, StillPrunable(txn[t]))
    BY <1>1, <2>4, <2>5 DEF CommitUnpinSlab, CommitPruneSlabs, CommitDeleteObject
  <2>7. p[2] \in StillPrunable(txn[t])
    BY <2>6, UnpinnedPins
  <2> QED BY <2>7 DEF StillPrunable
<1>2. TypeOK /\ [Next]_vars =>
         \A t \in Txns : txn[t].op = "PruneSlabs" /\ txn'[t] = Idle
            => \A p \in pins \ pins' : p[2] \notin fresh
  BY <1>1
<1> QED BY TypeCorrect, <1>2, PTL DEF Spec, PruneSparesFreshPins
=============================================================================
