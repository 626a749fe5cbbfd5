------------------------------- MODULE SlabGC -------------------------------
(***************************************************************************)
(* Who keeps a slab alive: accounts pin slabs, objects of the account      *)
(* reference them, and a slab that loses a pin is queued and later deleted *)
(* by a background loop (persist/postgres/sectors.go, objects.go, slabs.go,*)
(* accounts.go).                                                           *)
(*                                                                         *)
(* Transactions run under READ COMMITTED: a statement sees what others     *)
(* committed before it, so only row locks order them.  A transaction is    *)
(* therefore modelled statement by statement where it matters: it starts   *)
(* (its first reads), takes its locks on slab rows one at a time, possibly *)
(* checks something, and commits, when its writes become visible.  It can  *)
(* be rolled back at any point before: an error, a shutdown or a deadlock  *)
(* that Postgres resolves; "transaction" runs the latter again.            *)
(***************************************************************************)
EXTENDS Naturals, Sequences, FiniteSets, Functions

CONSTANTS
    Slabs,       \* slab digests, numbered in ascending digest order
    Accounts,    \* accounts of one connect key
    Objects,     \* object keys
    ObjectSlabs, \* the list of slabs of an object; its key is the hash of it
    Txns,        \* database connections
    PinOrders,   \* argument lists of PinSlabs: sequences of distinct slabs
    PruneLimit,  \* batch size of PruneAccounts
    QueueLimit,  \* batch size of PruneDeletedSlabs
    MaxQueued,   \* bound on the queue rows of one slab
    AccountMax,  \* accounts.max_pinned_data, in slabs
    KeyMax       \* quotas.max_pinned_data, in slabs

ASSUME ConstantsAssumption ==
    /\ Slabs \subseteq Nat
    /\ IsFiniteSet(Slabs) /\ IsFiniteSet(Accounts)
    /\ PinOrders \subseteq Seq(Slabs)
    /\ ObjectSlabs \in [Objects -> Seq(Slabs)]
    /\ PruneLimit \in Nat \ {0} /\ QueueLimit \in Nat \ {0}
    /\ MaxQueued \in Nat
    /\ AccountMax \in Nat /\ KeyMax \in Nat

VARIABLES
    slabs,      \* slabs with a row
    fresh,      \* those with pinned_at at or after the cutoff of a prune
    pins,       \* account_slabs: <<account, slab>>
    objects,    \* objects and their object_slabs: <<account, object>>
    status,     \* of an account: "active", "deleted" (soft) or "gone"
    accPinned,  \* accounts.pinned_data
    keyPinned,  \* app_connect_keys.pinned_data
    queue,      \* slab_deletion_queue: <<slab, row>>
    stray,      \* history: slabs attached to an object of an account without a pin
    txn         \* the transaction of each connection

tables == <<slabs, fresh, pins, objects, status, accPinned, keyPinned, queue, stray>>
vars   == <<tables, txn>>

-----------------------------------------------------------------------------
(***************************************************************************)
(* Transactions and their locks                                            *)
(***************************************************************************)

(* A transaction: its account and object, the slabs it is about (after a    *)
(* check, those the check is good for), the rows it still has to lock (in   *)
(* digest order) and to upsert or refer to (in the caller's order), the     *)
(* slab rows it has locked, the queue rows it has read, and whether its     *)
(* check succeeded.                                                         *)
Transaction(op, a, o, S, want, order, read) ==
    [op |-> op, account |-> a, object |-> o, slabs |-> S, want |-> want,
     order |-> order, held |-> {}, read |-> read, checked |-> FALSE]

Nothing == "-"
Idle    == Transaction("idle", Nothing, Nothing, {}, {}, <<>>, {})

Running(t) == txn[t] # Idle

(* FOR KEY SHARE, FOR NO KEY UPDATE and FOR UPDATE.  (Mutant: nobody locks  *)
(* FOR UPDATE.)                                                             *)
LockModeWeak(op) == IF op = "PinObject" THEN "share" ELSE "nokey"
LockMode(op) == CASE op = "PinObject" -> "share"
                  [] op = "PinSlabs"  -> "nokey"
                  [] OTHER            -> "update"

Conflict(m, n) == "update" \in {m, n} \/ (m = "nokey" /\ n = "nokey")

(* The transactions whose locks keep t from locking slab s.                 *)
Blockers(t, s) == {u \in Txns \ {t} : /\ s \in txn[u].held
                                      /\ Conflict(LockMode(txn[u].op), LockMode(txn[t].op))}

LeastOf(S)    == CHOOSE s \in S : \A q \in S : s <= q
GreatestOf(S) == CHOOSE s \in S : \A q \in S : s >= q

Locking(t)   == Running(t) /\ txn[t].want # {}
Inserting(t) == Running(t) /\ txn[t].want = {} /\ txn[t].order # <<>>
Ready(t)     == Running(t) /\ txn[t].want = {} /\ txn[t].order = <<>>

(* SELECT ... ORDER BY digest FOR ...: the next row to lock.  (Mutant: the  *)
(* deletion loop locks in the opposite order.)                              *)
NextToLockBackwards(t) == IF txn[t].op = "PruneDeletedSlabs" THEN GreatestOf(txn[t].want)
                                                             ELSE LeastOf(txn[t].want)
NextToLock(t) == LeastOf(txn[t].want)

(* The next slab row a transaction needs, from either kind of statement.    *)
Needs(t) == IF Locking(t) THEN NextToLock(t) ELSE Head(txn[t].order)

(* A row that does not exist, or is not committed yet, when the locking     *)
(* SELECT looks is not among those it locks.                                *)
SkipUnseen(t) ==
    /\ Locking(t) /\ ~(txn[t].want \subseteq slabs)
    /\ txn' = [txn EXCEPT ![t].want = @ \cap slabs]
    /\ UNCHANGED tables

LockSlab(t) ==
    /\ Locking(t) /\ txn[t].want \subseteq slabs
    /\ LET s == Needs(t)
       IN  /\ Blockers(t, s) = {}
           /\ txn' = [txn EXCEPT ![t].want = @ \ {s}, ![t].held = @ \cup {s}]
    /\ UNCHANGED tables

(* INSERT ... ON CONFLICT (digest) DO UPDATE waits for whoever inserted or  *)
(* locked the row, then owns it.                                            *)
UpsertSlab(t) ==
    /\ Inserting(t) /\ txn[t].op = "PinSlabs"
    /\ LET s == Needs(t)
       IN  /\ Blockers(t, s) = {}
           /\ txn' = [txn EXCEPT ![t].order = Tail(@), ![t].held = @ \cup {s}]
    /\ UNCHANGED tables

Start(t, x) == ~Running(t) /\ txn' = [txn EXCEPT ![t] = x] /\ UNCHANGED tables
End(t)      == txn' = [txn EXCEPT ![t] = Idle]

(* Roll back: nothing was visible to anybody, the locks are released.       *)
Rollback(t) == Running(t) /\ End(t) /\ UNCHANGED tables

(* No other transaction has the row of this object locked.                  *)
ObjectFree(a, o) == \A u \in Txns : txn[u].account = a => txn[u].object # o

-----------------------------------------------------------------------------
(***************************************************************************)
(* Pinning and unpinning slabs                                             *)
(***************************************************************************)
(* PinSlabs: lock the slabs that exist, then upsert all of them.  A soft    *)
(* deleted account is not refused.                                          *)
StartPinSlabs(t, a, order) ==
    /\ status[a] # "gone"
    /\ Start(t, Transaction("PinSlabs", a, Nothing, Range(order),
                            Range(order) \cap slabs, order, {}))

(* It pays for the slabs the account did not have yet, within both limits.  *)
NewPinsOf(x) == {s \in x.slabs : <<x.account, s>> \notin pins}

CommitPinSlabs(t) ==
    LET x   == txn[t]
        a   == x.account
        new == Cardinality(NewPinsOf(x))
    IN  /\ Ready(t) /\ x.op = "PinSlabs"
        /\ status[a] # "gone"
        /\ accPinned[a] + new <= AccountMax
        /\ keyPinned + new <= KeyMax
        /\ slabs' = slabs \cup x.slabs
        /\ fresh' = fresh \cup x.slabs
        /\ pins' = pins \cup {<<a, s>> : s \in x.slabs}
        /\ accPinned' = [accPinned EXCEPT ![a] = @ + new]
        /\ keyPinned' = keyPinned + new
        /\ End(t)
        /\ UNCHANGED <<objects, status, queue, stray>>

(* Append rows for the slabs S to the deletion queue.                       *)
FreeRow(s) == LeastOf({n \in 1..MaxQueued : <<s, n>> \notin queue})
Enqueue(S) ==
    /\ \A s \in S : \E n \in 1..MaxQueued : <<s, n>> \notin queue
    /\ queue' = queue \cup {<<s, FreeRow(s)>> : s \in S}

(* The connect key gets its share back only while the account is active.    *)
(* (Mutant: always, although DeleteAccount has given it back already.)      *)
RefundAlways(a, n) == n
KeyRefund(a, n)    == IF status[a] = "active" THEN n ELSE 0

(* unpinSlabs: only pins that still exist count.                            *)
UnpinSlabs(a, S) ==
    LET unpinned == {s \in S : <<a, s>> \in pins}
        n        == Cardinality(unpinned)
    IN  /\ pins' = pins \ {<<a, s>> : s \in unpinned}
        /\ accPinned' = [accPinned EXCEPT ![a] = @ - n]
        /\ keyPinned' = keyPinned - KeyRefund(a, n)
        /\ Enqueue(unpinned)

SlabsOf(o) == Range(ObjectSlabs[o])

(* Whether an object of account a, other than those in but, references s.   *)
Referenced(a, s, but) == \E o \in Objects \ but : <<a, o>> \in objects /\ s \in SlabsOf(o)

StartUnpinSlab(t, a, s) ==
    /\ status[a] # "gone" /\ s \in slabs
    /\ Start(t, Transaction("UnpinSlab", a, Nothing, {s}, {s}, <<>>, {}))

(* UnpinSlab refuses a slab that is gone, or that the account does not pin  *)
(* or still uses.                                                           *)
CommitUnpinSlab(t) ==
    LET x == txn[t]
    IN  /\ Ready(t) /\ x.op = "UnpinSlab"
        /\ x.slabs \subseteq x.held
        /\ \A s \in x.slabs : <<x.account, s>> \in pins /\ ~Referenced(x.account, s, {})
        /\ UnpinSlabs(x.account, x.slabs)
        /\ End(t)
        /\ UNCHANGED <<slabs, fresh, objects, status, stray>>

(* One batch of PruneSlabs: candidates are read first, then locked.         *)
StartPruneSlabs(t, a) ==
    LET cand == {s \in slabs \ fresh : <<a, s>> \in pins /\ ~Referenced(a, s, {})}
    IN  /\ status[a] # "gone" /\ cand # {}
        /\ Start(t, Transaction("PruneSlabs", a, Nothing, cand, cand, <<>>, {}))

(* unpinUnreferencedSlabs with a cutoff: checked again under the lock.      *)
(* (Mutant: the candidates are taken as they were read.)                    *)
StillPinned(x)   == {s \in x.held : <<x.account, s>> \in pins}
StillPrunable(x) == {s \in x.held \ fresh : /\ <<x.account, s>> \in pins
                                            /\ ~Referenced(x.account, s, {})}

CommitPruneSlabs(t) ==
    LET x == txn[t]
    IN  /\ Ready(t) /\ x.op = "PruneSlabs"
        /\ UnpinSlabs(x.account, StillPrunable(x))
        /\ End(t)
        /\ UNCHANGED <<slabs, fresh, objects, status, stray>>

(* Time passes the cutoff of the next prune; that of a running one is       *)
(* fixed, and not in the future.                                            *)
Age(s) ==
    /\ s \in fresh
    /\ \A t \in Txns : txn[t].op # "PruneSlabs"
    /\ fresh' = fresh \ {s}
    /\ UNCHANGED <<slabs, pins, objects, status, accPinned, keyPinned, queue, stray, txn>>

-----------------------------------------------------------------------------
(***************************************************************************)
(* Objects                                                                 *)
(***************************************************************************)

(* PinObject: the account is active and the object row is upserted.         *)
StartPinObject(t, a, o) ==
    /\ status[a] = "active" /\ ObjectFree(a, o)
    /\ Start(t, Transaction("PinObject", a, o, SlabsOf(o), SlabsOf(o), <<>>, {}))

(* With the slabs locked, the account must have pinned all of them.  A slab *)
(* that was pinned after the locking SELECT passes this check unlocked.     *)
CheckPinObject(t) ==
    LET x == txn[t]
    IN  /\ Ready(t) /\ x.op = "PinObject" /\ ~x.checked
        /\ \A s \in x.slabs : s \in slabs /\ <<x.account, s>> \in pins
        /\ txn' = [txn EXCEPT ![t].checked = TRUE, ![t].slabs = x.held,
                              ![t].order = ObjectSlabs[x.object]]
        /\ UNCHANGED tables

(* INSERT INTO object_slabs, in the order of the object: the foreign key    *)
(* needs the slab and takes the same lock as the SELECT, if it has not.     *)
InsertObjectSlab(t) ==
    /\ Inserting(t) /\ txn[t].op = "PinObject"
    /\ LET s == Needs(t)
       IN  /\ s \in slabs
           /\ Blockers(t, s) = {}
           /\ txn' = [txn EXCEPT ![t].order = Tail(@), ![t].held = @ \cup {s}]
    /\ UNCHANGED tables

CommitPinObject(t) ==
    LET x == txn[t]
    IN  /\ Ready(t) /\ x.op = "PinObject" /\ x.checked
        /\ objects' = objects \cup {<<x.account, x.object>>}
        /\ stray' = stray \cup {s \in SlabsOf(x.object) : <<x.account, s>> \notin pins}
        /\ End(t)
        /\ UNCHANGED <<slabs, fresh, pins, status, accPinned, keyPinned, queue>>

(* DeleteObject locks the object, then the slabs it references.             *)
StartDeleteObject(t, a, o) ==
    /\ <<a, o>> \in objects /\ ObjectFree(a, o)
    /\ Start(t, Transaction("DeleteObject", a, o, SlabsOf(o), SlabsOf(o), <<>>, {}))

CommitDeleteObject(t) ==
    LET x == txn[t]
        a == x.account
    IN  /\ Ready(t) /\ x.op = "DeleteObject"
        /\ objects' = objects \ {<<a, x.object>>}
        /\ UnpinSlabs(a, {s \in x.held : ~Referenced(a, s, {x.object})})
        /\ End(t)
        /\ UNCHANGED <<slabs, fresh, status, stray>>

-----------------------------------------------------------------------------
(***************************************************************************)
(* Deleting accounts and slabs                                             *)
(***************************************************************************)

(* The first n elements, in some order, of S.                               *)
IsFirst(B, n, S) == B \subseteq S /\ Cardinality(B) = (IF n < Cardinality(S) THEN n ELSE Cardinality(S))

(* DeleteAccount: a soft delete that gives the connect key its space back.  *)
DeleteAccount(a) ==
    /\ status[a] = "active"
    /\ status' = [status EXCEPT ![a] = "deleted"]
    /\ keyPinned' = keyPinned - accPinned[a]
    /\ UNCHANGED <<slabs, fresh, pins, objects, accPinned, queue, stray, txn>>

(* PruneAccounts: one batch.  Objects go first; once none is left the pins  *)
(* are removed and queued, without a lock on the slabs; once none of those  *)
(* is left the account goes.  A running PinObject of the account keeps its  *)
(* row from being deleted.                                                  *)
BatchFilled(n, left) == n = left

PruneBatch(a, B, S, objs, mine) ==
    LET left == PruneLimit - Cardinality(B)
    IN  /\ IsFirst(B, PruneLimit, objs)
        /\ \A p \in B : ObjectFree(a, p[2])
        /\ IsFirst(S, left, mine)
        /\ objects' = objects \ B
        /\ pins' = pins \ {<<a, s>> : s \in S}
        /\ Enqueue(S)
        /\ IF BatchFilled(Cardinality(S), left)
           THEN UNCHANGED <<status, accPinned>>
           ELSE /\ \A t \in Txns : ~(txn[t].op = "PinObject" /\ txn[t].account = a)
                /\ status' = [status EXCEPT ![a] = "gone"]
                /\ accPinned' = [accPinned EXCEPT ![a] = 0]

PruneAccounts(a) ==
    LET objs == {p \in objects : p[1] = a}
        mine == {s \in Slabs : <<a, s>> \in pins}
    IN  /\ status[a] = "deleted"
        /\ \E B \in SUBSET objs : \E S \in SUBSET mine : PruneBatch(a, B, S, objs, mine)
        /\ UNCHANGED <<slabs, fresh, keyPinned, stray, txn>>

(* PruneDeletedSlabs, run by one loop only: read a batch of queue rows.     *)
StartPruneDeletedSlabs(t) ==
    /\ \A u \in Txns : txn[u].op # "PruneDeletedSlabs"
    /\ queue # {}
    /\ \E R \in SUBSET queue :
         LET S == {q[1] : q \in R}
         IN  /\ IsFirst(R, QueueLimit, queue)
             /\ Start(t, Transaction("PruneDeletedSlabs", Nothing, Nothing, S, S, <<>>, R))

(* deleteOrphanedSlabs: under the lock, the slabs nobody pins or references *)
(* any more.  (Mutant: references do not count.)                            *)
UnpinnedOf(S) == {s \in S : \A a \in Accounts : <<a, s>> \notin pins}
Deletable(S)  == {s \in S : \A a \in Accounts : /\ <<a, s>> \notin pins
                                               /\ ~Referenced(a, s, {})}

CheckPruneDeletedSlabs(t) ==
    LET x == txn[t]
    IN  /\ Ready(t) /\ x.op = "PruneDeletedSlabs" /\ ~x.checked
        /\ txn' = [txn EXCEPT ![t].checked = TRUE, ![t].slabs = Deletable(x.held)]
        /\ UNCHANGED tables

(* Exactly the rows read are cleared.  Rows of a deleted slab (pinned again *)
(* it gets a new id) do nothing any more and are dropped as well.           *)
(* (Mutant: every row of the slabs that were read.)                         *)
ClearedBySlab(x) == {q \in queue : \E r \in x.read : r[1] = q[1]}
Cleared(x)       == x.read \cup {q \in queue : q[1] \in x.slabs}

CommitPruneDeletedSlabs(t) ==
    LET x == txn[t]
    IN  /\ Ready(t) /\ x.op = "PruneDeletedSlabs" /\ x.checked
        /\ slabs' = slabs \ x.slabs
        /\ fresh' = fresh \ x.slabs
        /\ stray' = stray \ x.slabs
        /\ queue' = queue \ Cleared(x)
        /\ End(t)
        /\ UNCHANGED <<pins, objects, status, accPinned, keyPinned>>

-----------------------------------------------------------------------------
Init ==
    /\ slabs = {} /\ fresh = {} /\ pins = {} /\ objects = {} /\ queue = {}
    /\ stray = {}
    /\ status = [a \in Accounts |-> "active"]
    /\ accPinned = [a \in Accounts |-> 0]
    /\ keyPinned = 0
    /\ txn = [t \in Txns |-> Idle]

Next ==
    \/ \E t \in Txns : \/ SkipUnseen(t) \/ LockSlab(t) \/ UpsertSlab(t)
                       \/ InsertObjectSlab(t) \/ Rollback(t)
                       \/ CommitPinSlabs(t) \/ CommitUnpinSlab(t) \/ CommitPruneSlabs(t)
                       \/ CheckPinObject(t) \/ CommitPinObject(t) \/ CommitDeleteObject(t)
                       \/ StartPruneDeletedSlabs(t) \/ CheckPruneDeletedSlabs(t)
                       \/ CommitPruneDeletedSlabs(t)
    \/ \E t \in Txns, a \in Accounts, order \in PinOrders : StartPinSlabs(t, a, order)
    \/ \E t \in Txns, a \in Accounts, s \in Slabs : StartUnpinSlab(t, a, s)
    \/ \E t \in Txns, a \in Accounts : StartPruneSlabs(t, a)
    \/ \E t \in Txns, a \in Accounts, o \in Objects :
         StartPinObject(t, a, o) \/ StartDeleteObject(t, a, o)
    \/ \E a \in Accounts : DeleteAccount(a) \/ PruneAccounts(a)
    \/ \E s \in Slabs : Age(s)

Spec == Init /\ [][Next]_vars

-----------------------------------------------------------------------------
(***************************************************************************)
(* Properties                                                              *)
(***************************************************************************)
Transactions ==
    [op      : {"idle", "PinSlabs", "UnpinSlab", "PruneSlabs", "PinObject",
                "DeleteObject", "PruneDeletedSlabs"},
     account : Accounts \cup {Nothing},
     object  : Objects \cup {Nothing},
     slabs   : SUBSET Slabs,
     want    : SUBSET Slabs,
     order   : Seq(Slabs),
     held    : SUBSET Slabs,
     read    : SUBSET (Slabs \X (1..MaxQueued)),
     checked : BOOLEAN]

(* Tables hold rows of their type, totals are not negative, and only        *)
(* accounts that still have a row pin slabs and own objects.                *)
TypeOK ==
    /\ slabs \subseteq Slabs
    /\ fresh \subseteq slabs
    /\ pins \subseteq {p \in Accounts \X Slabs : status[p[1]] # "gone"}
    /\ objects \subseteq {p \in Accounts \X Objects : status[p[1]] # "gone"}
    /\ status \in [Accounts -> {"active", "deleted", "gone"}]
    /\ accPinned \in [Accounts -> Nat]
    /\ keyPinned \in Nat
    /\ queue \subseteq slabs \X (1..MaxQueued)
    /\ stray \subseteq slabs
    /\ txn \in [Txns -> Transactions]

Pinned(s)  == \E a \in Accounts : <<a, s>> \in pins
InUse(s)   == \E a \in Accounts : Referenced(a, s, {})
Queued(s)  == \E n \in 1..MaxQueued : <<s, n>> \in queue

(* The deletion loop never deletes a slab that an account pins or an object *)
(* references, even one that was pinned or attached again after it had been *)
(* queued; the foreign keys would turn that into an error of the loop.      *)
KeptSlabsExist == \A s \in Slabs : Pinned(s) \/ InUse(s) => s \in slabs

(* What PinObject has checked about the rows it locked stays true until it  *)
(* commits, unless its account is deleted in between.                       *)
CheckedPinsHold ==
    \A t \in Txns :
        LET x == txn[t]
        IN  x.op = "PinObject" /\ x.checked /\ status[x.account] = "active"
                => \A s \in x.slabs : s \in slabs /\ <<x.account, s>> \in pins

(* An active account keeps paying for what its objects use: UnpinSlab,      *)
(* PruneSlabs and DeleteObject never remove the pin of a slab that one of   *)
(* the account's objects references.                                        *)
UsedSlabsStayPinned ==
    [][\A p \in pins \ pins' : status[p[1]] = "active" => ~Referenced(p[1], p[2], {})']_vars

(* The totals quotas are checked against: exact for an active account,      *)
(* never below what is pinned otherwise, so that no later unpin can take    *)
(* them below zero.                                                         *)
TotalsCoverPins ==
    /\ \A a \in Accounts :
         LET n == Cardinality({p \in pins : p[1] = a})
         IN  /\ accPinned[a] >= n
             /\ status[a] = "active" => accPinned[a] = n
    /\ keyPinned >= Cardinality({p \in pins : status[p[1]] = "active"})

(* A slab that no account pins any more is on its way out: no row of the    *)
(* queue is swallowed by a pass of the loop that checked the slab before    *)
(* the row was appended.  The exception are slabs that PinObject attached   *)
(* to an object whose account had lost its pin by then: see                 *)
(* AllSlabsReclaimed.                                                       *)
UnpinnedIsQueued == \A s \in slabs \ stray : Pinned(s) \/ Queued(s)

(* PruneSlabs never removes a pin that was made or renewed after its        *)
(* cutoff, even when that happens between its read and its lock.            *)
PruneSparesFreshPins ==
    [][\A t \in Txns : txn[t].op = "PruneSlabs" /\ txn'[t] = Idle
          => \A p \in pins \ pins' : p[2] \notin fresh]_vars

(* Transactions that wait for each other's slab rows.                       *)
Waits(t, u) ==
    /\ (Locking(t) /\ txn[t].want \subseteq slabs) \/ Inserting(t)
    /\ u \in Blockers(t, Needs(t))
Deadlocked(D) == D # {} /\ \A t \in D : \E u \in D : Waits(t, u)

(* Locking SELECTs take slab rows in digest order, so they alone cannot     *)
(* make a circle: every deadlock involves a PinSlabs or PinObject that is   *)
(* past its SELECT and inserts, in the caller's order, a slab or a          *)
(* reference to one whose row the SELECT has not locked, because it did not *)
(* exist yet.                                                               *)
DeadlocksNeedLateRows ==
    \A D \in SUBSET Txns : Deadlocked(D) =>
        \E t \in D : /\ Inserting(t) /\ txn[t].op \in {"PinSlabs", "PinObject"}
                     /\ Needs(t) \notin txn[t].held

(* DeleteAccount's documentation: the account's totals "are reclaimed from  *)
(* its connect key immediately", so a key is charged for what its active    *)
(* accounts pin.                                                            *)
KeyTotalsExact == keyPinned = Cardinality({p \in pins : status[p[1]] = "active"})

(* DeleteAccount's documentation: "the account's objects, slabs and the row *)
(* itself are cleaned up later by PruneAccounts", so once every account is  *)
(* gone the only slabs left are those the deletion loop will get to.        *)
AllSlabsReclaimed == (\A a \in Accounts : status[a] = "gone") => \A s \in slabs : Queued(s)

(* UnpinSlab's documentation: "a slab that is still referenced by one of    *)
(* the account's objects can not be unpinned"; its check is said to         *)
(* "serialize against concurrent unpins and against PinObject attaching the *)
(* slab to a new object".                                                   *)
ObjectSlabsPinned ==
    \A a \in Accounts, o \in Objects :
        status[a] = "active" /\ <<a, o>> \in objects
            => \A s \in SlabsOf(o) : <<a, s>> \in pins
=============================================================================
