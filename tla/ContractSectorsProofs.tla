------------------------ MODULE ContractSectorsProofs ------------------------
(***************************************************************************)
(* What the database says is pinned to a contract is in that contract on   *)
(* the host, and what is stored of a contract is what the host has: for    *)
(* any number of contracts, sectors and revisions, batches of any size,    *)
(* lost answers and crashes anywhere.                                      *)
(***************************************************************************)
EXTENDS ContractSectors, FiniteSetTheorems, SequenceTheorems, TLAPS

(* The steps in which a worker holds the lock of its contract.              *)
Locked(x) == x.step \notin {"idle", "lock"}

(* Which worker does what, and where in an operation a step occurs.         *)
Scripted(w, x) ==
    /\ x.op \in {"pin", "prune"} => w = "maintenance"
    /\ x.op = "renew" => w = "renewal"
    /\ x.op = "idle" <=> x.step = "idle"
    /\ x.step \in {"report", "pin"} => x.op = "pin"
    /\ x.step \in {"open", "compare", "free", "freed"} => x.op = "prune"
    /\ x.step = "add" => x.op = "renew"
    /\ x.step = "save" => x.op # "renew"
    /\ x.step = "idle" => x = Idle
    /\ x.step \in {"lock", "open"} => x.offset = 0

(* A worker is about contracts of the database and holds its lock.          *)
LockHeld(w, x) ==
    x.step # "idle" => /\ x.contract \in known /\ x.left \subseteq known
                       /\ Locked(x) => owner[x.contract] = w

(* A revision that is not stored yet is the host's.                         *)
RevisionHeld(x) ==
    x.step \in {"save", "freed"} /\ x.contract \notin restored
        => /\ x.revision.num > local[x.contract].num
           /\ x.revision = [num |-> rev[x.contract], len |-> Len(roots[x.contract])]

(* Sectors the host has appended stay in the contract until they are pinned.*)
AppendedHeld(x) ==
    x.op = "pin" /\ x.step \in {"save", "report", "pin"}
        => /\ renewal[x.contract] = NULL
           /\ x.contract \notin restored => Range(x.answer) \subseteq Range(roots[x.contract])

(* A batch of roots stays where it was read.                                *)
BatchHeld(x) ==
    x.op = "prune" /\ x.step \in {"save", "compare"}
        => /\ x.offset + Len(x.answer) <= MaxLen
           /\ x.contract \notin restored =>
                 \A i \in 1..Len(x.answer) :
                    /\ x.offset + i \in DOMAIN roots[x.contract]
                    /\ x.answer[i] = roots[x.contract][x.offset + i]

(* The host has a copy of r outside of contract c.                          *)
StoredBut(c, r) ==
    r \in temp \/ \E d \in Contracts \ {c} : renewal[d] = NULL /\ r \in Range(roots[d])

(* What is about to be freed is not pinned to the contract, and if it waits *)
(* to be pinned there is another copy.                                      *)
FreeHeld(x) ==
    x.step = "free"
        => \A i \in x.tried \cap DOMAIN roots[x.contract] :
              LET r == roots[x.contract][i]
              IN  /\ x.contract \notin restored => pin[r] # x.contract
                  /\ restored = {} /\ place[r] = "here" /\ pin[r] = NULL
                        => StoredBut(x.contract, r)

(* A renewal the host has agreed to is not in the database yet.             *)
RenewalHeld(x) ==
    x.step = "add" => /\ x.new \in Contracts \ known /\ renewal[x.contract] = x.new

JobOK(w, x) ==
    /\ Scripted(w, x) /\ LockHeld(w, x) /\ RevisionHeld(x) /\ AppendedHeld(x)
    /\ BatchHeld(x) /\ FreeHeld(x) /\ RenewalHeld(x)

JobsOK == \A w \in Workers : JobOK(w, job[w])

(* Sectors are pinned to contracts that can be found.                       *)
PinsMapped == \A r \in Roots : pin[r] \in mapped \cup {NULL}

(* A contract the host has renewed and the database has not: the renewal is *)
(* unknown, not renewed in turn, and has what is pinned to the old one.     *)
RenewalsPending ==
    \A d \in mapped : renewal[d] # NULL =>
        /\ renewal[d] \notin known
        /\ renewal[d] \notin restored =>
              \A r \in Roots : pin[r] = d => r \in Range(roots[renewal[d]])

RenewalsDiffer ==
    \A d, e \in Contracts : renewal[d] = renewal[e] /\ renewal[d] # NULL => d = e

(* A contract that is in neither's books is empty.                          *)
UnknownAreNew ==
    \A c \in Contracts \ known :
        /\ renewal[c] = NULL
        /\ (\A d \in Contracts : renewal[d] # c) => roots[c] = <<>>

(* The database is never ahead of a host that has not fallen back.          *)
NeverAhead == \A c \in Contracts \ restored : local[c].num <= rev[c]

Books ==
    /\ PinsMapped /\ PinnedIsStored /\ RenewalsPending /\ RenewalsDiffer
    /\ UnknownAreNew /\ NeverAhead /\ HealthyContractsStayGood

IInv == TypeOK /\ JobsOK /\ Books
-----------------------------------------------------------------------------
(***************************************************************************)
(* Facts about the operators                                               *)
(***************************************************************************)

(* Bounded sequences are sequences.                                         *)
LEMMA Bounded ==
    ASSUME NEW S, NEW n \in Nat, NEW s
    PROVE  s \in BoundedSeq(S, n) <=> s \in Seq(S) /\ Len(s) <= n
<1>1. ASSUME s \in BoundedSeq(S, n) PROVE s \in Seq(S) /\ Len(s) <= n
  <2>1. PICK m \in 0..n : s \in [1..m -> S]
    BY <1>1 DEF BoundedSeq, SeqOf
  <2> QED BY <2>1
<1>2. ASSUME s \in Seq(S), Len(s) <= n PROVE s \in BoundedSeq(S, n)
  <2>1. Len(s) \in 0..n /\ s \in [1..Len(s) -> S]
    BY <1>2
  <2> QED BY <2>1 DEF BoundedSeq, SeqOf
<1> QED BY <1>1, <1>2

(* The sectors of a contract.                                               *)
LEMMA RootsOf ==
    ASSUME TypeOK, NEW c \in Contracts
    PROVE  /\ roots[c] \in Seq(Roots) /\ Len(roots[c]) \in Nat /\ Len(roots[c]) <= MaxLen
           /\ DOMAIN roots[c] = 1..Len(roots[c])
           /\ \A i \in 1..Len(roots[c]) : roots[c][i] \in Roots
           /\ Range(roots[c]) \subseteq Roots
<1>1. roots[c] \in BoundedSeq(Roots, MaxLen)
  BY DEF TypeOK
<1>2. roots[c] \in Seq(Roots) /\ Len(roots[c]) <= MaxLen
  BY <1>1, Bounded, ConstantsAssumption
<1>3. DOMAIN roots[c] = 1..Len(roots[c])
  BY <1>2
<1>4. \A i \in 1..Len(roots[c]) : roots[c][i] \in Roots
  BY <1>2
<1> QED BY <1>2, <1>3, <1>4 DEF Range

(* An arrangement of a finite set has every element of it.                  *)
LEMMA ArrangementIsOnto ==
    ASSUME NEW S, IsFiniteSet(S), NEW p \in SetToSeqs(S)
    PROVE  /\ p \in [1..Cardinality(S) -> S] /\ Cardinality(S) \in Nat
           /\ \A s \in S : \E i \in 1..Cardinality(S) : p[i] = s
<1> DEFINE n == Cardinality(S)
           D == 1..n
<1>1. n \in Nat
  BY FS_CardinalityType
<1>2. p \in [D -> S] /\ \A i, j \in D : i # j => p[i] # p[j]
  BY DEF SetToSeqs
<1>3. IsFiniteSet(D) /\ Cardinality(D) = n
  BY <1>1, FS_Interval
<1>4. p \in Injection(D, S)
  BY <1>2 DEF Injection, IsInjective
<1>5. p \in Surjection(D, S)
  <2> HIDE DEF D, n
  <2> QED BY <1>3, <1>4, FS_Injection DEF n
<1>6. \A s \in S : \E i \in D : p[i] = s
  BY <1>5 DEF Surjection
<1> QED BY <1>1, <1>2, <1>6

(* Freeing indices keeps the sectors at the others, and adds none.          *)
LEMMA WithoutKeeps ==
    ASSUME NEW s \in Seq(Roots), NEW I \in SUBSET DOMAIN s, NEW q \in Without(s, I)
    PROVE  /\ q \in Seq(Roots) /\ Len(q) <= Len(s)
           /\ \A i \in DOMAIN s \ I : s[i] \in Range(q)
           /\ Range(q) \subseteq Range(s)
<1> DEFINE D == DOMAIN s \ I
<1>1. Len(s) \in Nat /\ DOMAIN s = 1..Len(s)
  OBVIOUS
<1>2. IsFiniteSet(DOMAIN s) /\ Cardinality(DOMAIN s) = Len(s)
  <2>1. ASSUME NEW n \in Nat PROVE IsFiniteSet(1..n) /\ Cardinality(1..n) = n
    BY FS_Interval
  <2> QED BY <1>1, <2>1
<1>3. /\ IsFiniteSet(D) /\ IsFiniteSet(I) /\ Cardinality(I) \in Nat
      /\ Cardinality(D) = Len(s) - Cardinality(I)
  <2>1. DOMAIN s \cap I = I
    OBVIOUS
  <2>2. /\ IsFiniteSet(DOMAIN s \ I)
        /\ Cardinality(DOMAIN s \ I) = Cardinality(DOMAIN s) - Cardinality(DOMAIN s \cap I)
    BY <1>2, FS_Difference
  <2>3. IsFiniteSet(I)
    BY <1>2, FS_Subset
  <2>4. Cardinality(I) \in Nat
    BY <2>3, FS_CardinalityType
  <2>5. Cardinality(DOMAIN s \cap I) = Cardinality(I)
    BY <2>1, Zenon
  <2> QED BY <1>2, <2>2, <2>3, <2>4, <2>5, Zenon
<1>4. PICK p \in SetToSeqs(D) : q = [i \in 1..Len(s) - Cardinality(I) |-> s[p[i]]]
  BY DEF Without
<1>5. /\ p \in [1..Cardinality(D) -> D] /\ Cardinality(D) \in Nat
      /\ \A j \in D : \E i \in 1..Cardinality(D) : p[i] = j
  <2> HIDE DEF D
  <2> QED BY <1>3, <1>4, ArrangementIsOnto
<1>6. q = [i \in 1..Cardinality(D) |-> s[p[i]]]
  BY <1>3, <1>4
<1>7. \A i \in 1..Cardinality(D) : p[i] \in DOMAIN s /\ s[p[i]] \in Roots
  <2>1. \A j \in DOMAIN s : s[j] \in Roots
    OBVIOUS
  <2> QED BY <1>5, <2>1
<1>8. q \in [1..Cardinality(D) -> Roots] /\ DOMAIN q = 1..Cardinality(D)
  BY <1>6, <1>7
<1>9. q \in Seq(Roots) /\ Len(q) = Cardinality(D)
  <2> HIDE DEF D
  <2> QED BY <1>5, <1>8
<1>10. Len(q) <= Len(s)
  BY <1>1, <1>3, <1>9
<1> HIDE DEF D
<1>11. ASSUME NEW j \in D PROVE s[j] \in Range(q)
  <2>1. PICK i \in 1..Cardinality(D) : p[i] = j
    BY <1>5
  <2>2. q[i] = s[j] /\ i \in DOMAIN q
    BY <1>6, <2>1
  <2> QED BY <2>2 DEF Range
<1>12. Range(q) \subseteq Range(s)
  <2> SUFFICES ASSUME NEW i \in DOMAIN q PROVE q[i] \in Range(s)
    BY DEF Range
  <2>1. i \in 1..Cardinality(D)
    BY <1>8
  <2>2. q[i] = s[p[i]] /\ p[i] \in DOMAIN s
    BY <1>6, <1>7, <2>1
  <2> QED BY <2>2 DEF Range
<1> QED BY <1>9, <1>10, <1>11, <1>12 DEF D

(* The types of an idle worker.                                             *)
LEMMA IdleType ==
    /\ Idle \in Jobs /\ Idle.op = "idle" /\ Idle.step = "idle"
<1>1. <<>> \in BoundedSeq(Roots, MaxLen)
  <2>1. <<>> \in Seq(Roots) /\ Len(<<>>) <= MaxLen /\ MaxLen \in Nat
    BY ConstantsAssumption
  <2> QED BY <2>1, Bounded
<1> QED BY <1>1, ConstantsAssumption DEF Idle, Jobs, Revisions
-----------------------------------------------------------------------------
(***************************************************************************)
(* Workers that are left alone                                             *)
(***************************************************************************)

(* After the step the host has a copy of r outside of contract c.           *)
KeptBut(c, r) ==
    r \in temp' \/ \E d \in Contracts \ {c} : renewal'[d] = NULL /\ r \in Range(roots'[d])

(* A step that leaves the contract of call x alone, as far as x has locked  *)
(* it, and takes no copy x counts on.                                       *)
Untouched(x) ==
    /\ Locked(x) =>
         /\ owner'[x.contract] = owner[x.contract] /\ renewal'[x.contract] = renewal[x.contract]
         /\ x.contract \notin restored' =>
               /\ rev'[x.contract] = rev[x.contract] /\ roots'[x.contract] = roots[x.contract]
               /\ local'[x.contract] = local[x.contract]
    /\ x.step = "add" => x.new \notin known'
    /\ x.step = "free" /\ x.contract \notin restored' =>
         \A r \in Roots :
            /\ pin'[r] = x.contract => pin[r] = x.contract
            /\ restored' = {} /\ place'[r] = "here" /\ pin'[r] = NULL /\ pin[r] # x.contract =>
                  \/ KeptBut(x.contract, r)
                  \/ place[r] = "here" /\ pin[r] = NULL
                        /\ (StoredBut(x.contract, r) => KeptBut(x.contract, r))

(* It keeps what is known about the call.                                   *)
LEMMA UntouchedKeeps ==
    ASSUME TypeOK, NEW w, NEW x \in Jobs, JobOK(w, x), Untouched(x),
           known \subseteq known', restored \subseteq restored'
    PROVE  JobOK(w, x)'
<1>1. Scripted(w, x)'
  BY DEF JobOK, Scripted, Idle
<1>2. LockHeld(w, x)'
  BY DEF JobOK, LockHeld, Untouched, Locked
<1>3. RevisionHeld(x)'
  BY DEF JobOK, RevisionHeld, Untouched, Locked
<1>4. AppendedHeld(x)'
  BY DEF JobOK, AppendedHeld, Untouched, Locked
<1>5. BatchHeld(x)'
  BY DEF JobOK, BatchHeld, Untouched, Locked
<1>6. FreeHeld(x)'
  <2>1. CASE x.contract \in restored' \/ x.step # "free"
    BY <2>1 DEF FreeHeld
  <2>2. CASE x.contract \notin restored' /\ x.step = "free"
    <3>1. roots'[x.contract] = roots[x.contract] /\ x.contract \notin restored
      BY <2>2 DEF Untouched, Locked
    <3>2. x.contract \in Contracts
      BY <2>2 DEF JobOK, LockHeld, TypeOK
    <3>3. ASSUME NEW i \in x.tried \cap DOMAIN roots[x.contract], NEW r, r = roots[x.contract][i]
          PROVE  /\ pin'[r] # x.contract
                 /\ restored' = {} /\ place'[r] = "here" /\ pin'[r] = NULL
                       => StoredBut(x.contract, r)'
      <4>1. r \in Roots
        BY <3>2, <3>3, RootsOf
      <4>2. /\ pin[r] # x.contract
            /\ restored = {} /\ place[r] = "here" /\ pin[r] = NULL => StoredBut(x.contract, r)
        BY <2>2, <3>1, <3>3 DEF JobOK, FreeHeld
      <4> QED BY <2>2, <4>1, <4>2 DEF Untouched, StoredBut, KeptBut
    <3> QED BY <3>1, <3>3 DEF FreeHeld
  <2> QED BY <2>1, <2>2
<1>7. RenewalHeld(x)'
  BY DEF JobOK, RenewalHeld, Untouched, Locked
<1> QED BY <1>1, <1>2, <1>3, <1>4, <1>5, <1>6, <1>7 DEF JobOK

(* Two workers do not hold the same contract.                               *)
LEMMA OwnContracts ==
    ASSUME JobsOK, NEW w \in Workers, NEW u \in Workers \ {w}, Locked(job[u]),
           owner[job[w].contract] = w
    PROVE  job[u].contract # job[w].contract /\ owner[job[u].contract] = u
BY DEF JobsOK, JobOK, LockHeld, Locked

(* A worker's new call x, the other workers left alone.                     *)
LEMMA JobsStep ==
    ASSUME TypeOK, JobsOK, NEW w \in Workers, NEW x \in Jobs, job' = [job EXCEPT ![w] = x],
           JobOK(w, x)', known \subseteq known', restored \subseteq restored',
           \A u \in Workers \ {w} : Untouched(job[u])
    PROVE  JobsOK'
<1>1. job'[w] = x /\ \A u \in Workers \ {w} : job'[u] = job[u] /\ job[u] \in Jobs
  BY DEF TypeOK
<1>2. ASSUME NEW u \in Workers PROVE JobOK(u, job[u])'
  <2>1. PICK y \in Jobs : y = job'[u]
    BY <1>1
  <2>2. CASE u = w
    BY <1>1, <2>2
  <2>3. CASE u # w
    <3>1. y = job[u]
      BY <1>1, <2>1, <2>3
    <3>2. JobOK(u, y) /\ Untouched(y)
      BY <2>3, <3>1 DEF JobsOK
    <3>3. JobOK(u, y)'
      BY <3>2, UntouchedKeeps
    <3> QED BY <2>1, <3>3
  <2> QED BY <2>2, <2>3
<1> QED BY <1>2 DEF JobsOK

-----------------------------------------------------------------------------
(***************************************************************************)
(* Beginning and ending a call                                             *)
(***************************************************************************)

(* A call that has not locked its contract yet, or none.                    *)
Fresh(w, x) ==
    /\ x \in Jobs /\ x.step \in {"idle", "lock"} /\ Scripted(w, x)
    /\ x.step = "lock" => x.contract \in known /\ x.left \subseteq known

(* Nothing is known about the host in such a call.                          *)
LEMMA FreshOK ==
    ASSUME NEW w, NEW x, Fresh(w, x), known \subseteq known'
    PROVE  JobOK(w, x)'
BY DEF Fresh, JobOK, Scripted, LockHeld, RevisionHeld, AppendedHeld, BatchHeld, FreeHeld,
       RenewalHeld, Locked, Idle

(* The worker's call has ended and its lock is released; nobody else's is.  *)
Ended(w) ==
    /\ owner' \in [Contracts -> Workers \cup {NULL}]
    /\ \A u \in Workers \ {w} : Locked(job[u]) => owner'[job[u].contract] = owner[job[u].contract]
    /\ \E x : Fresh(w, x) /\ job' = [job EXCEPT ![w] = x]

(* However a call returns.                                                  *)
LEMMA Ends ==
    ASSUME TypeOK, JobsOK, NEW w \in Workers,
           \/ Return(w) \/ Fail(w)
           \/ job[w].op = "pin" /\ \E S \in SUBSET Roots : NextContract(w, S)
    PROVE  Ended(w)
<1>0. Fresh(w, Idle)
  BY IdleType DEF Fresh, Scripted
<1>1. job[w] \in Jobs /\ JobOK(w, job[w])
  BY DEF TypeOK, JobsOK
<1>2. Lock!Release(w, job[w].contract)
  BY DEF Return, Fail, NextContract
<1>3. owner[job[w].contract] = w /\ owner' = [owner EXCEPT ![job[w].contract] = NULL]
  BY <1>2 DEF Lock!Release
<1>4. owner' \in [Contracts -> Workers \cup {NULL}]
  BY <1>3 DEF TypeOK
<1>5. ASSUME NEW u \in Workers \ {w}, Locked(job[u])
      PROVE  owner'[job[u].contract] = owner[job[u].contract]
  <2>1. job[u].contract # job[w].contract
    BY <1>3, <1>5, OwnContracts
  <2>2. job[u].contract \in Contracts
    BY <1>5 DEF JobsOK, JobOK, LockHeld, Locked, TypeOK
  <2> QED BY <1>3, <2>1, <2>2 DEF TypeOK
<1>6. CASE job' = [job EXCEPT ![w] = Idle]
  BY <1>0, <1>4, <1>5, <1>6 DEF Ended
<1>7. ASSUME NEW S \in SUBSET Roots, NextContract(w, S), job[w].op = "pin" PROVE Ended(w)
  <2>1. CASE S = {} \/ job[w].left = {}
    BY <1>6, <1>7, <2>1 DEF NextContract
  <2>2. CASE ~(S = {} \/ job[w].left = {})
    <3>1. PICK c \in job[w].left : job' = [job EXCEPT ![w] =
                    [Idle EXCEPT !.op = "pin", !.step = "lock", !.contract = c,
                                 !.sectors = S, !.left = job[w].left \ {c}]]
      BY <1>7, <2>2 DEF NextContract
    <3> DEFINE x == [Idle EXCEPT !.op = "pin", !.step = "lock", !.contract = c,
                                 !.sectors = S, !.left = job[w].left \ {c}]
    <3>2. job[w].step # "idle" /\ w = "maintenance"
      BY <1>1, <1>7 DEF JobOK, Scripted
    <3>3. job[w].left \subseteq known /\ known \subseteq Contracts
      BY <1>1, <3>2 DEF JobOK, LockHeld, TypeOK
    <3>4. x \in Jobs
      BY <3>3, IdleType DEF Jobs
    <3>5. /\ x.op = "pin" /\ x.step = "lock" /\ x.contract = c /\ x.left = job[w].left \ {c}
          /\ x.offset = 0
      BY DEF Idle
    <3> HIDE DEF x
    <3>6. Fresh(w, x)
      BY <3>2, <3>3, <3>4, <3>5 DEF Fresh, Scripted
    <3> QED BY <1>4, <1>5, <3>1, <3>6 DEF Ended, x
  <2> QED BY <2>1, <2>2
<1>8. job[w].sectors \in SUBSET Roots
  BY <1>1 DEF Jobs
<1> QED BY <1>6, <1>7, <1>8 DEF Return, Fail

(* The call of a worker goes on with an RPC on its contract.                *)
Revising(w, x) ==
    /\ x \in Jobs /\ x.step = "revise" /\ Scripted(w, x)
    /\ x.contract \in known /\ x.left \subseteq known
    /\ x.op = "prune" => x.offset < x.total

(* All that is needed for it is the lock.                                   *)
LEMMA RevisingOK ==
    ASSUME NEW w, NEW x, Revising(w, x), known \subseteq known', owner'[x.contract] = w
    PROVE  JobOK(w, x)'
BY DEF Revising, JobOK, Scripted, LockHeld, RevisionHeld, AppendedHeld, BatchHeld, FreeHeld,
       RenewalHeld, Locked, Idle

(* The types of the calls.                                                  *)
JobsTyped ==
    /\ job \in [Workers -> Jobs]
    /\ \A w \in Workers : At(w, "prune", "revise") => job[w].offset < job[w].total

(* One worker's call changes its type.                                      *)
LEMMA JobsTypedStep ==
    ASSUME TypeOK, NEW w \in Workers, NEW x \in Jobs, job' = [job EXCEPT ![w] = x],
           x.op = "prune" /\ x.step = "revise" => x.offset < x.total
    PROVE  JobsTyped'
BY DEF TypeOK, JobsTyped, At

(* A call has ended, and the step has left the others alone.                *)
LEMMA EndedJobs ==
    ASSUME TypeOK, JobsOK, NEW w \in Workers, Ended(w),
           known \subseteq known', restored \subseteq restored',
           \A u \in Workers \ {w} : Untouched(job[u])
    PROVE  JobsOK' /\ JobsTyped'
<1>1. PICK x : Fresh(w, x) /\ job' = [job EXCEPT ![w] = x]
  BY DEF Ended
<1>2. x \in Jobs /\ x.step # "revise"
  BY <1>1 DEF Fresh
<1> QED BY <1>1, <1>2, FreshOK, JobsStep, JobsTypedStep

(* A call goes on, and the step has left the others alone.                  *)
LEMMA RevisingJobs ==
    ASSUME TypeOK, JobsOK, NEW w \in Workers, NEW x, Revising(w, x),
           job' = [job EXCEPT ![w] = x], owner'[x.contract] = w,
           known \subseteq known', restored \subseteq restored',
           \A u \in Workers \ {w} : Untouched(job[u])
    PROVE  JobsOK' /\ JobsTyped'
<1>1. x \in Jobs /\ (x.op = "prune" /\ x.step = "revise" => x.offset < x.total)
  BY DEF Revising
<1> QED BY <1>1, RevisingOK, JobsStep, JobsTypedStep

(* The next batch of pruneContract, or the end.                             *)
LEMMA NextBatches ==
    ASSUME TypeOK, JobsOK, NEW w \in Workers, job[w].op = "prune", Locked(job[w]),
           NEW freed \in Nat, NextBatch(w, freed)
    PROVE  \/ Ended(w)
           \/ /\ owner' = owner
              /\ \E x : /\ Revising(w, x) /\ x.contract = job[w].contract
                        /\ job' = [job EXCEPT ![w] = x]
<1> DEFINE y == job[w]
           x == [Idle EXCEPT !.op = "prune", !.step = "revise", !.contract = y.contract,
                             !.offset = y.offset + BatchSize, !.total = y.total - freed]
<1>1. /\ y \in Jobs /\ y.contract \in known /\ y.contract \in Contracts
      /\ Scripted(w, y) /\ w = "maintenance"
  BY DEF TypeOK, JobsOK, JobOK, LockHeld, Locked, Scripted
<1>2. /\ y.offset \in Nat /\ y.total \in Nat /\ y.total <= MaxLen /\ BatchSize \in Nat /\ MaxLen \in Nat
  BY <1>1, ConstantsAssumption DEF Jobs
<1>3. /\ x.op = "prune" /\ x.step = "revise" /\ x.contract = y.contract /\ x.left = {}
      /\ x.offset = y.offset + BatchSize /\ x.total = y.total - freed
  BY DEF Idle
<1>4. CASE MoreBatches(x.offset, x.total)
  <2>1. job' = [job EXCEPT ![w] = x] /\ owner' = owner
    BY <1>4 DEF NextBatch
  <2>2. y.offset + BatchSize < y.total - freed
    BY <1>3, <1>4 DEF MoreBatches
  <2>3. y.offset + BatchSize \in 0..MaxLen /\ y.total - freed \in 0..MaxLen
    BY <1>2, <2>2
  <2>4. x \in Jobs
    BY <1>1, <2>3, IdleType, ZenonT(60) DEF Jobs
  <2> HIDE DEF x
  <2>5. Revising(w, x)
    BY <1>1, <1>3, <2>2, <2>4 DEF Revising, Scripted
  <2> QED BY <1>3, <2>1, <2>5
<1>5. CASE ~MoreBatches(x.offset, x.total)
  <2>1. Return(w)
    BY <1>5 DEF NextBatch
  <2> QED BY <2>1, Ends
<1> QED BY <1>4, <1>5

-----------------------------------------------------------------------------
(***************************************************************************)
(* Steps that leave host and database alone                                *)
(***************************************************************************)

(* They change nothing but calls and locks.                                 *)
LEMMA SameBooks ==
    ASSUME IInv, UNCHANGED <<hostVars, dbVars>>
    PROVE  /\ Books'
           /\ JobsTyped' /\ owner' \in [Contracts -> Workers \cup {NULL}] => TypeOK'
           /\ known' = known /\ restored' = restored
           /\ \A x : (Locked(x) => owner'[x.contract] = owner[x.contract]) /\ RenewalHeld(x)
                       => Untouched(x)
<1>1. UNCHANGED <<roots, rev, renewal, temp, restored, place, pin, local, known, renewedTo, good, mapped>>
  BY DEF hostVars, dbVars, sectorRows
<1>2. Books'
  BY <1>1 DEF IInv, Books, PinsMapped, PinnedIsStored, RenewalsPending, RenewalsDiffer,
     UnknownAreNew, NeverAhead, HealthyContractsStayGood
<1>3. JobsTyped' /\ owner' \in [Contracts -> Workers \cup {NULL}] => TypeOK'
  BY <1>1 DEF IInv, TypeOK, JobsTyped
<1>4. \A c, r : KeptBut(c, r) = StoredBut(c, r)
  BY <1>1 DEF StoredBut, KeptBut
<1>5. \A x : (Locked(x) => owner'[x.contract] = owner[x.contract]) /\ RenewalHeld(x)
               => Untouched(x)
  BY <1>1, <1>4 DEF Untouched, RenewalHeld
<1> QED BY <1>1, <1>2, <1>3, <1>5

(* A call ends.                                                             *)
LEMMA QuietEnd ==
    ASSUME IInv, NEW w \in Workers, Ended(w), UNCHANGED <<hostVars, dbVars>>
    PROVE  IInv'
<1>1. \A u \in Workers \ {w} : Untouched(job[u])
  BY SameBooks DEF Ended, IInv, JobsOK, JobOK
<1>2. known \subseteq known' /\ restored \subseteq restored'
  BY SameBooks
<1>3. JobsOK' /\ JobsTyped'
  BY <1>1, <1>2, EndedJobs DEF IInv
<1> QED BY <1>3, SameBooks DEF IInv, Ended

(* A call goes on.                                                          *)
LEMMA QuietStep ==
    ASSUME IInv, NEW w \in Workers, NEW x \in Jobs, JobOK(w, x)',
           x.op = "prune" /\ x.step = "revise" => x.offset < x.total,
           job' = [job EXCEPT ![w] = x], UNCHANGED <<hostVars, dbVars>>,
           owner' \in [Contracts -> Workers \cup {NULL}],
           \A u \in Workers \ {w} : Locked(job[u]) => owner'[job[u].contract] = owner[job[u].contract]
    PROVE  IInv'
<1>1. \A u \in Workers \ {w} : Untouched(job[u])
  BY SameBooks DEF IInv, JobsOK, JobOK
<1>2. known \subseteq known' /\ restored \subseteq restored'
  BY SameBooks
<1>3. JobsOK' /\ JobsTyped'
  BY <1>1, <1>2, JobsStep, JobsTypedStep DEF IInv
<1> QED BY <1>3, SameBooks DEF IInv

(* StartPin, StartPrune and StartRenew.                                     *)
LEMMA StartsKeep ==
    ASSUME IInv, NEW w \in Workers, StartPin(w) \/ StartPrune(w) \/ StartRenew(w)
    PROVE  IInv'
<1>0. owner' = owner /\ UNCHANGED <<hostVars, dbVars>>
  BY DEF StartPin, StartPrune, StartRenew
<1>1. ForUse \subseteq known /\ known \subseteq Contracts /\ Unpinned \subseteq Roots
  BY DEF ForUse, Unpinned, IInv, TypeOK
<1>2. CASE StartPin(w)
  <2>1. PICK c \in ForUse :
           job' = [job EXCEPT ![w] = [Idle EXCEPT !.op = "pin", !.step = "lock", !.contract = c,
                                                  !.sectors = Unpinned, !.left = ForUse \ {c}]]
    BY <1>2 DEF StartPin, Begin
  <2> DEFINE x == [Idle EXCEPT !.op = "pin", !.step = "lock", !.contract = c,
                               !.sectors = Unpinned, !.left = ForUse \ {c}]
  <2>2. x \in Jobs
    BY <1>1, IdleType DEF Jobs
  <2>3. x.op = "pin" /\ x.step = "lock" /\ x.contract = c /\ x.left = ForUse \ {c} /\ x.offset = 0
    BY DEF Idle
  <2>4. job' = [job EXCEPT ![w] = x] /\ w = "maintenance"
    BY <1>2, <2>1 DEF StartPin
  <2> HIDE DEF x
  <2>5. Fresh(w, x)
    BY <1>1, <2>2, <2>3, <2>4 DEF Fresh, Scripted
  <2> QED BY <1>0, <2>4, <2>5, QuietEnd DEF Ended, IInv, TypeOK
<1>3. CASE StartPrune(w)
  <2>1. PICK c \in ForUse :
           job' = [job EXCEPT ![w] = [Idle EXCEPT !.op = "prune", !.step = "lock", !.contract = c]]
    BY <1>3 DEF StartPrune, Begin
  <2> DEFINE x == [Idle EXCEPT !.op = "prune", !.step = "lock", !.contract = c]
  <2>2. x \in Jobs
    BY <1>1, IdleType DEF Jobs
  <2>3. x.op = "prune" /\ x.step = "lock" /\ x.contract = c /\ x.left = {} /\ x.offset = 0
    BY DEF Idle
  <2>4. job' = [job EXCEPT ![w] = x] /\ w = "maintenance"
    BY <1>3, <2>1 DEF StartPrune
  <2> HIDE DEF x
  <2>5. Fresh(w, x)
    BY <1>1, <2>2, <2>3, <2>4 DEF Fresh, Scripted
  <2> QED BY <1>0, <2>4, <2>5, QuietEnd DEF Ended, IInv, TypeOK
<1>4. CASE StartRenew(w)
  <2>1. PICK c \in ForUse :
           job' = [job EXCEPT ![w] = [Idle EXCEPT !.op = "renew", !.step = "lock", !.contract = c]]
    BY <1>4 DEF StartRenew, Begin
  <2> DEFINE x == [Idle EXCEPT !.op = "renew", !.step = "lock", !.contract = c]
  <2>2. x \in Jobs
    BY <1>1, IdleType DEF Jobs
  <2>3. x.op = "renew" /\ x.step = "lock" /\ x.contract = c /\ x.left = {} /\ x.offset = 0
    BY DEF Idle
  <2>4. job' = [job EXCEPT ![w] = x] /\ w = "renewal"
    BY <1>4, <2>1 DEF StartRenew
  <2> HIDE DEF x
  <2>5. Fresh(w, x)
    BY <1>1, <2>2, <2>3, <2>4 DEF Fresh, Scripted
  <2> QED BY <1>0, <2>4, <2>5, QuietEnd DEF Ended, IInv, TypeOK
<1> QED BY <1>2, <1>3, <1>4

(* A lock that was free is nobody's.                                        *)
LEMMA AcquireOthers ==
    ASSUME TypeOK, JobsOK, NEW w \in Workers, NEW c \in Contracts, Lock!Acquire(w, c)
    PROVE  /\ owner' \in [Contracts -> Workers \cup {NULL}] /\ owner'[c] = w
           /\ \A u \in Workers : Locked(job[u]) => owner'[job[u].contract] = owner[job[u].contract]
<1>1. owner[c] = NULL /\ owner' = [owner EXCEPT ![c] = w]
  BY DEF Lock!Acquire
<1>2. ASSUME NEW u \in Workers, Locked(job[u])
      PROVE  owner'[job[u].contract] = owner[job[u].contract]
  <2>1. owner[job[u].contract] = u /\ job[u].contract \in Contracts
    BY <1>2 DEF JobsOK, JobOK, LockHeld, Locked, TypeOK
  <2>2. u # NULL
    BY ConstantsAssumption
  <2> QED BY <1>1, <2>1, <2>2 DEF TypeOK
<1> QED BY <1>1, <1>2 DEF TypeOK

(* TryLockContract and the call that follows.                               *)
LEMMA StartFundKeeps ==
    ASSUME IInv, NEW w \in Workers, StartFund(w)
    PROVE  IInv'
<1>1. PICK c \in ForUse :
         /\ job' = [job EXCEPT ![w] = [Idle EXCEPT !.op = "fund", !.step = "revise", !.contract = c]]
         /\ Lock!Acquire(w, c) /\ UNCHANGED <<hostVars, dbVars>>
  BY DEF StartFund, Begin, TryLockContract
<1> DEFINE x == [Idle EXCEPT !.op = "fund", !.step = "revise", !.contract = c]
<1>2. c \in known /\ c \in Contracts /\ known' = known
  BY <1>1, SameBooks DEF ForUse, IInv, TypeOK
<1>3. x \in Jobs
  BY <1>2, IdleType DEF Jobs
<1>4. x.op = "fund" /\ x.step = "revise" /\ x.contract = c /\ x.left = {}
  BY DEF Idle
<1>5. job' = [job EXCEPT ![w] = x]
  BY <1>1
<1> HIDE DEF x
<1>6. Revising(w, x)
  BY <1>2, <1>3, <1>4 DEF Revising, Scripted
<1>7. /\ owner' \in [Contracts -> Workers \cup {NULL}] /\ owner'[c] = w
      /\ \A u \in Workers : Locked(job[u]) => owner'[job[u].contract] = owner[job[u].contract]
  BY <1>1, <1>2, AcquireOthers DEF IInv
<1>8. JobOK(w, x)'
  BY <1>2, <1>4, <1>6, <1>7, RevisingOK
<1> QED BY <1>1, <1>3, <1>4, <1>5, <1>7, <1>8, QuietStep

(* LockContract.                                                            *)
LEMMA LockContractKeeps ==
    ASSUME IInv, NEW w \in Workers, LockContract(w)
    PROVE  IInv'
<1> DEFINE y == job[w]
           c == y.contract
<1>1. /\ y.step = "lock" /\ Lock!Acquire(w, c) /\ UNCHANGED <<hostVars, dbVars>>
      /\ job' = [job EXCEPT ![w].step = IF y.op = "prune" THEN "open" ELSE "revise"]
  BY DEF LockContract, Goto
<1>2. y \in Jobs /\ Scripted(w, y) /\ c \in known /\ y.left \subseteq known /\ c \in Contracts
  BY <1>1 DEF IInv, TypeOK, JobsOK, JobOK, LockHeld
<1>3. PICK s \in {"open", "revise"} : s = IF y.op = "prune" THEN "open" ELSE "revise"
  OBVIOUS
<1> DEFINE x == [y EXCEPT !.step = s]
<1>4. x \in Jobs /\ x.step = s /\ x.op = y.op /\ x.contract = c /\ x.left = y.left /\ x.offset = y.offset
  BY <1>2 DEF Jobs
<1>5. job' = [job EXCEPT ![w] = x]
  BY <1>1, <1>3 DEF IInv, TypeOK
<1>6. PICK d \in Contracts : d = c
  BY <1>2
<1>7. /\ owner' \in [Contracts -> Workers \cup {NULL}] /\ owner'[d] = w
      /\ \A u \in Workers : Locked(job[u]) => owner'[job[u].contract] = owner[job[u].contract]
  BY <1>1, <1>6, AcquireOthers DEF IInv
<1>8. known' = known
  BY <1>1, SameBooks
<1>9. PICK z \in Jobs : z = x
  BY <1>4
<1>10. Scripted(w, z) /\ z.contract = d /\ d \in known /\ z.left \subseteq known
       /\ z.step \in {"open", "revise"} /\ (z.step = "revise" => z.op # "prune")
  BY <1>1, <1>2, <1>3, <1>4, <1>6, <1>9 DEF Scripted
<1>11. JobOK(w, z)'
  BY <1>7, <1>8, <1>10 DEF JobOK, Scripted, LockHeld, RevisionHeld, AppendedHeld, BatchHeld,
     FreeHeld, RenewalHeld, Locked, Idle
<1> QED BY <1>1, <1>5, <1>7, <1>9, <1>10, <1>11, QuietStep

(* A call fails.                                                            *)
LEMMA GiveUpKeeps ==
    ASSUME IInv, NEW w \in Workers, GiveUp(w)
    PROVE  IInv'
<1>1. Ended(w)
  BY Ends DEF GiveUp, IInv
<1> QED BY <1>1, QuietEnd DEF GiveUp

(* pruneContract starts at the beginning of the contract.                   *)
LEMMA OpenContractKeeps ==
    ASSUME IInv, NEW w \in Workers, OpenContract(w)
    PROVE  IInv'
<1> DEFINE y == job[w]
           c == y.contract
<1>1. y.op = "prune" /\ y.step = "open" /\ UNCHANGED <<hostVars, dbVars>>
  BY DEF OpenContract, At
<1>2. CASE Return(w)
  BY <1>1, <1>2, Ends, QuietEnd DEF IInv
<1>3. CASE /\ job' = [job EXCEPT ![w].step = "revise", ![w].total = local[c].len]
           /\ owner' = owner /\ local[c].len > 0
  <2>1. /\ y \in Jobs /\ Scripted(w, y) /\ c \in known /\ y.left \subseteq known /\ c \in Contracts
        /\ owner[c] = w
    BY <1>1 DEF IInv, TypeOK, JobsOK, JobOK, LockHeld, Locked
  <2> DEFINE x == [y EXCEPT !.step = "revise", !.total = local[c].len]
  <2>2. local[c].len \in 0..MaxLen
    BY <2>1 DEF IInv, TypeOK, Revisions
  <2>3. /\ x \in Jobs /\ x.step = "revise" /\ x.op = y.op /\ x.contract = c /\ x.left = y.left
        /\ x.offset = y.offset /\ x.total = local[c].len
    BY <2>1, <2>2 DEF Jobs
  <2>4. job' = [job EXCEPT ![w] = x]
    BY <1>3, <2>1 DEF IInv, TypeOK, Jobs
  <2>5. PICK z \in Jobs : z = x
    BY <2>3
  <2>6. Revising(w, z) /\ owner'[z.contract] = w /\ z.offset < z.total
    BY <1>1, <1>3, <2>1, <2>3, <2>5 DEF Revising, Scripted
  <2>7. known' = known
    BY <1>1, SameBooks
  <2>8. JobOK(w, z)'
    BY <2>6, <2>7, RevisingOK
  <2>9. owner' \in [Contracts -> Workers \cup {NULL}]
    BY <1>3 DEF IInv, TypeOK
  <2> QED BY <1>1, <1>3, <2>4, <2>5, <2>6, <2>8, <2>9, QuietStep
<1> QED BY <1>2, <1>3 DEF OpenContract

(* PrunableContractRoots: what it returns is not pinned to the contract and *)
(* does not wait to be pinned.                                              *)
LEMMA CompareRootsKeeps ==
    ASSUME IInv, NEW w \in Workers, CompareRoots(w)
    PROVE  IInv'
<1> DEFINE y == job[w]
           c == y.contract
           B == {j \in DOMAIN y.answer : Prunable(c, y.answer[j])}
           I == ContractIndices(y, B)
<1>1. /\ y.op = "prune" /\ y.step = "compare" /\ UNCHANGED <<hostVars, dbVars>>
      /\ \/ Return(w) \/ NextBatch(w, 0)
         \/ /\ job' = [job EXCEPT ![w].step = "free", ![w].tried = I, ![w].answer = <<>>]
            /\ owner' = owner
  BY DEF CompareRoots, At
<1>2. /\ y \in Jobs /\ Scripted(w, y) /\ c \in known /\ y.left \subseteq known /\ c \in Contracts
      /\ owner[c] = w /\ BatchHeld(y)
  BY <1>1 DEF IInv, TypeOK, JobsOK, JobOK, LockHeld, Locked
<1>3. CASE Return(w)
  BY <1>1, <1>3, Ends, QuietEnd DEF IInv
<1>4. CASE NextBatch(w, 0)
  <2>1. CASE Ended(w)
    BY <1>1, <2>1, QuietEnd
  <2>2. ASSUME NEW x, Revising(w, x), x.contract = c, job' = [job EXCEPT ![w] = x], owner' = owner
        PROVE  IInv'
    <3>1. x \in Jobs /\ x.step = "revise" /\ (x.op = "prune" => x.offset < x.total)
      BY <2>2 DEF Revising
    <3>2. known' = known
      BY <1>1, SameBooks
    <3>3. JobOK(w, x)'
      BY <1>2, <2>2, <3>2, RevisingOK
    <3>4. owner' \in [Contracts -> Workers \cup {NULL}]
      BY <2>2 DEF IInv, TypeOK
    <3> QED BY <1>1, <2>2, <3>1, <3>3, <3>4, QuietStep
  <2>3. \/ Ended(w)
        \/ /\ owner' = owner
           /\ \E x : Revising(w, x) /\ x.contract = c /\ job' = [job EXCEPT ![w] = x]
    BY <1>1, <1>4, NextBatches DEF IInv, Locked
  <2> QED BY <2>1, <2>2, <2>3
<1>5. CASE /\ job' = [job EXCEPT ![w].step = "free", ![w].tried = I, ![w].answer = <<>>]
           /\ owner' = owner
  <2>1. y.answer \in Seq(Roots) /\ Len(y.answer) \in Nat /\ DOMAIN y.answer = 1..Len(y.answer)
    <3>1. y.answer \in BoundedSeq(Roots, MaxLen)
      BY <1>2 DEF Jobs
    <3>2. y.answer \in Seq(Roots)
      BY <3>1, Bounded, ConstantsAssumption
    <3> QED BY <3>2
  <2>2. y.offset \in Nat /\ MaxLen \in Nat /\ y.offset + Len(y.answer) <= MaxLen
    <3>1. y.offset \in 0..MaxLen
      BY <1>2 DEF Jobs
    <3>2. y.offset + Len(y.answer) <= MaxLen
      BY <1>1, <1>2 DEF BatchHeld
    <3> QED BY <3>1, <3>2, ConstantsAssumption
  <2>3. ASSUME NEW i \in I
        PROVE  /\ i \in 1..MaxLen
               /\ \E j \in 1..Len(y.answer) : i = y.offset + j /\ Prunable(c, y.answer[j])
    <3>1. PICK j \in B : i = y.offset + j
      BY <2>3 DEF ContractIndices
    <3>2. j \in 1..Len(y.answer) /\ Prunable(c, y.answer[j])
      BY <2>1
    <3> QED BY <2>1, <2>2, <3>1, <3>2
  <2> HIDE DEF I, B
  <2>4. I \in SUBSET (1..MaxLen) /\ <<>> \in BoundedSeq(Roots, MaxLen)
    BY <2>3, IdleType DEF Idle, Jobs
  <2> DEFINE x == [y EXCEPT !.step = "free", !.tried = I, !.answer = <<>>]
  <2>5. /\ x \in Jobs /\ x.step = "free" /\ x.op = y.op /\ x.contract = c /\ x.left = y.left
        /\ x.offset = y.offset /\ x.tried = I
    <3>1. PICK T \in SUBSET (1..MaxLen) : T = I
      BY <2>4
    <3>2. PICK e \in BoundedSeq(Roots, MaxLen) : e = <<>>
      BY <2>4
    <3>3. T \in (SUBSET Roots) \cup SUBSET (1..MaxLen)
      BY <3>1
    <3> DEFINE v == [y EXCEPT !.step = "free", !.tried = T, !.answer = e]
    <3>4. v = x
      BY <3>1, <3>2
    <3>5. /\ v \in Jobs /\ v.step = "free" /\ v.op = y.op /\ v.contract = c /\ v.left = y.left
          /\ v.offset = y.offset /\ v.tried = T
      BY <1>2, <3>2, <3>3 DEF Jobs
    <3> QED BY <3>1, <3>4, <3>5
  <2>6. job' = [job EXCEPT ![w] = x]
    BY <1>2, <1>5 DEF IInv, TypeOK, Jobs
  <2>7. PICK z \in Jobs : z = x
    BY <2>5
  <2>8. known' = known /\ UNCHANGED <<roots, restored, pin, place>>
    BY <1>1 DEF hostVars, dbVars, sectorRows
  <2>9. /\ z.step = "free" /\ z.op = "prune" /\ z.contract = c /\ z.left \subseteq known
        /\ z.tried = I /\ w = "maintenance"
    BY <1>1, <1>2, <2>5, <2>7 DEF Scripted
  <2>10. ASSUME NEW i \in I \cap DOMAIN roots[c], c \notin restored
         PROVE  Prunable(c, roots[c][i])
    <3>1. PICK j \in 1..Len(y.answer) : i = y.offset + j /\ Prunable(c, y.answer[j])
      BY <2>3
    <3>2. y.answer[j] = roots[c][y.offset + j]
      BY <1>1, <1>2, <2>10 DEF BatchHeld
    <3> QED BY <3>1, <3>2
  <2>11. FreeHeld(z)'
    <3>1. ASSUME NEW i \in z.tried \cap DOMAIN roots[z.contract]
          PROVE  /\ z.contract \notin restored => pin[roots[z.contract][i]] # z.contract
                 /\ ~(/\ restored = {} /\ place[roots[z.contract][i]] = "here"
                      /\ pin[roots[z.contract][i]] = NULL)
      BY <2>9, <2>10 DEF Prunable
    <3> QED BY <2>8, <3>1 DEF FreeHeld
  <2>12. JobOK(w, z)'
    BY <1>2, <1>5, <2>8, <2>9, <2>11 DEF JobOK, Scripted, LockHeld, RevisionHeld, AppendedHeld,
       BatchHeld, RenewalHeld, Locked, Idle
  <2>13. owner' \in [Contracts -> Workers \cup {NULL}]
    BY <1>5 DEF IInv, TypeOK
  <2> QED BY <1>1, <1>5, <2>6, <2>7, <2>9, <2>12, <2>13, QuietStep
<1> QED BY <1>1, <1>3, <1>4, <1>5
-----------------------------------------------------------------------------
(***************************************************************************)
(* RPCs that revise a contract                                             *)
(***************************************************************************)

(* The host has left contract c with the sectors q: those pinned to it are  *)
(* among them.                                                              *)
Revised(c, q) ==
    /\ q \in BoundedSeq(Roots, MaxLen) /\ c \in known /\ HostAccepts(c)
    /\ roots' = [roots EXCEPT ![c] = q] /\ rev' = [rev EXCEPT ![c] = @ + 1]
    /\ UNCHANGED <<renewal, temp, restored, dbVars>>
    /\ c \notin restored => \A r \in Roots : pin[r] = c => r \in Range(q)

(* The books stay right; a pending renewal is another contract.             *)
LEMMA RevisedBooks ==
    ASSUME IInv, NEW c, NEW q, Revised(c, q)
    PROVE  /\ Books'
           /\ JobsTyped' /\ owner' \in [Contracts -> Workers \cup {NULL}] => TypeOK'
           /\ known' = known /\ restored' = restored /\ c \in Contracts
           /\ roots'[c] = q /\ rev'[c] = rev[c] + 1
           /\ \A d \in Contracts \ {c} : roots'[d] = roots[d] /\ rev'[d] = rev[d]
<1>1. UNCHANGED <<renewal, temp, restored, place, pin, local, known, renewedTo, good, mapped>>
  BY DEF Revised, dbVars, sectorRows
<1>2. c \in Contracts /\ rev[c] \in Nat /\ rev[c] < MaxRev /\ rev \in [Contracts -> Nat]
  BY ConstantsAssumption DEF Revised, HostAccepts, IInv, TypeOK
<1>3. /\ roots'[c] = q /\ rev'[c] = rev[c] + 1
      /\ \A d \in Contracts \ {c} : roots'[d] = roots[d] /\ rev'[d] = rev[d]
  BY <1>2 DEF Revised, IInv, TypeOK
<1>4. rev' \in [Contracts -> 0..MaxRev] /\ roots' \in [Contracts -> BoundedSeq(Roots, MaxLen)]
  <2>1. rev[c] + 1 \in 0..MaxRev
    BY <1>2, ConstantsAssumption
  <2> QED BY <2>1 DEF Revised, IInv, TypeOK
<1>5. JobsTyped' /\ owner' \in [Contracts -> Workers \cup {NULL}] => TypeOK'
  BY <1>1, <1>4 DEF IInv, TypeOK, JobsTyped
<1>6. PinsMapped' /\ RenewalsDiffer' /\ HealthyContractsStayGood'
  BY <1>1 DEF IInv, Books, PinsMapped, RenewalsDiffer, HealthyContractsStayGood
<1>7. PinnedIsStored'
  <2> SUFFICES ASSUME NEW r \in Roots, pin[r] # NULL, pin[r] \notin restored
               PROVE  r \in Range(roots'[pin[r]])
    BY <1>1 DEF PinnedIsStored
  <2>1. pin[r] \in Contracts /\ r \in Range(roots[pin[r]])
    BY DEF IInv, TypeOK, Books, PinnedIsStored
  <2>2. CASE pin[r] = c
    BY <1>3, <2>2 DEF Revised
  <2>3. CASE pin[r] # c
    BY <1>3, <2>1, <2>3
  <2> QED BY <2>2, <2>3
<1>8. RenewalsPending'
  <2> SUFFICES ASSUME NEW d \in mapped, renewal[d] # NULL
               PROVE  /\ renewal[d] \notin known
                      /\ renewal[d] \notin restored =>
                           \A r \in Roots : pin[r] = d => r \in Range(roots'[renewal[d]])
    BY <1>1 DEF RenewalsPending
  <2>1. /\ renewal[d] \notin known
        /\ renewal[d] \notin restored =>
             \A r \in Roots : pin[r] = d => r \in Range(roots[renewal[d]])
    BY DEF IInv, Books, RenewalsPending
  <2>2. renewal[d] \in Contracts /\ renewal[d] # c
    BY <2>1 DEF IInv, TypeOK, Revised
  <2> QED BY <1>3, <2>1, <2>2
<1>9. UnknownAreNew'
  BY <1>1, <1>3 DEF IInv, Books, UnknownAreNew, Revised
<1>10. NeverAhead'
  <2> SUFFICES ASSUME NEW d \in Contracts \ restored PROVE local[d].num <= rev'[d]
    BY <1>1 DEF NeverAhead
  <2>1. local[d].num <= rev[d] /\ local[d].num \in Nat /\ rev[d] \in Nat
    BY <1>2, ConstantsAssumption DEF IInv, Books, NeverAhead, TypeOK, Revisions
  <2> QED BY <1>2, <1>3, <2>1
<1> QED BY <1>1, <1>2, <1>3, <1>5, <1>6, <1>7, <1>8, <1>9, <1>10 DEF Books

(* Nobody else has locked it, and only the maintenance loop frees sectors.  *)
LEMMA RevisedOthers ==
    ASSUME IInv, NEW w \in Workers, NEW c, NEW q, Revised(c, q), owner[c] = w,
           job[w].contract = c, w = "maintenance" \/ q = roots[c],
           NEW u \in Workers \ {w},
           Locked(job[u]) => owner'[job[u].contract] = owner[job[u].contract]
    PROVE  Untouched(job[u])
<1>1. UNCHANGED <<renewal, temp, restored, place, pin, local, known>>
  BY DEF Revised, dbVars, sectorRows
<1> DEFINE y == job[u]
<1>2. y \in Jobs /\ JobOK(u, y)
  BY DEF IInv, TypeOK, JobsOK
<1>3. ASSUME Locked(y)
      PROVE  roots'[y.contract] = roots[y.contract] /\ rev'[y.contract] = rev[y.contract]
  <2>1. y.contract # c
    BY <1>3, OwnContracts DEF IInv
  <2>2. y.contract \in Contracts
    BY <1>2, <1>3 DEF JobOK, LockHeld, Locked, IInv, TypeOK
  <2> QED BY <2>1, <2>2, RevisedBooks
<1>4. ASSUME y.step = "free" PROVE \A r : KeptBut(y.contract, r) = StoredBut(y.contract, r)
  <2>1. q = roots[c]
    BY <1>2, <1>4 DEF JobOK, Scripted
  <2>2. roots' = roots
    BY <2>1 DEF Revised, IInv, TypeOK
  <2> QED BY <1>1, <2>2 DEF StoredBut, KeptBut
<1>5. y.step = "add" => y.new \notin known'
  BY <1>1, <1>2 DEF JobOK, RenewalHeld
<1> QED BY <1>1, <1>3, <1>4, <1>5 DEF Untouched
(* A call whose RPC the host has executed: the answer is about the sectors  *)
(* q the contract has now.                                                  *)
Answered(w, c, q, x) ==
    /\ x \in Jobs /\ Scripted(w, x) /\ x.step \in {"save", "freed"}
    /\ x.contract = c /\ x.left \subseteq known
    /\ x.op = "pin" => Range(x.answer) \subseteq Range(q)
    /\ x.op = "prune" /\ x.step = "save"
         => /\ x.offset + Len(x.answer) <= MaxLen
            /\ \A i \in 1..Len(x.answer) : x.offset + i \in DOMAIN q /\ x.answer[i] = q[x.offset + i]

(* The answer arrives with the revision it is about, or it is lost.         *)
LEMMA ReviseKeeps ==
    ASSUME IInv, NEW w \in Workers, NEW c, job[w].contract = c, Locked(job[w]),
           NEW q, NEW x, Revised(c, q), w = "maintenance" \/ q = roots[c],
           Answered(w, c, q, x),
           \/ /\ job' = [job EXCEPT ![w] = [x EXCEPT !.revision =
                            [num |-> rev[c] + 1, len |-> Len(q)], !.synced = FALSE]]
              /\ owner' = owner
           \/ Fail(w)
    PROVE  IInv'
<1>1. owner[c] = w /\ known' = known /\ restored' = restored /\ c \in Contracts
  BY RevisedBooks DEF IInv, JobsOK, JobOK, LockHeld, Locked
<1>2. CASE Fail(w)
  <2>1. Ended(w)
    BY <1>2, Ends DEF IInv
  <2>2. \A u \in Workers \ {w} : Untouched(job[u])
    BY <1>1, <2>1, RevisedOthers DEF Ended
  <2>3. JobsOK' /\ JobsTyped'
    BY <1>1, <2>1, <2>2, EndedJobs DEF IInv
  <2> QED BY <2>1, <2>3, RevisedBooks DEF IInv, Ended
<1>3. CASE /\ job' = [job EXCEPT ![w] = [x EXCEPT !.revision =
                            [num |-> rev[c] + 1, len |-> Len(q)], !.synced = FALSE]]
           /\ owner' = owner
  <2> DEFINE v == [num |-> rev[c] + 1, len |-> Len(q)]
  <2>1. q \in Seq(Roots) /\ Len(q) \in 0..MaxLen
    <3>1. q \in Seq(Roots) /\ Len(q) <= MaxLen
      BY Bounded, ConstantsAssumption DEF Revised
    <3> QED BY <3>1, ConstantsAssumption
  <2>2. rev[c] \in Nat /\ rev[c] < MaxRev /\ MaxRev \in Nat
    BY <1>1, ConstantsAssumption DEF Revised, HostAccepts, IInv, TypeOK
  <2>3. v \in Revisions /\ v.num = rev[c] + 1
    BY <2>1, <2>2 DEF Revisions
  <2>4. PICK nv \in Revisions : nv = v
    BY <2>3
  <2> DEFINE z == [x EXCEPT !.revision = nv, !.synced = FALSE]
  <2>5. /\ z \in Jobs /\ z.op = x.op /\ z.step = x.step /\ z.contract = c /\ z.left = x.left
        /\ z.answer = x.answer /\ z.offset = x.offset /\ z.revision = nv
    BY DEF Answered, Jobs
  <2>6. job' = [job EXCEPT ![w] = z]
    BY <1>3, <2>4
  <2>7. Scripted(w, z)
    BY <2>5 DEF Answered, Scripted
  <2> HIDE DEF z
  <2>8. LockHeld(w, z)'
    BY <1>1, <1>3, <2>5 DEF LockHeld, Answered, Revised
  <2>9. RevisionHeld(z)'
    <3>1. CASE c \in restored
      BY <1>1, <2>5, <3>1 DEF RevisionHeld
    <3>2. CASE c \notin restored
      <4>1. rev'[c] = rev[c] + 1 /\ roots'[c] = q /\ local' = local
        BY RevisedBooks DEF Revised, dbVars
      <4>2. local[c].num <= rev[c] /\ local[c].num \in Nat
        BY <1>1, <3>2, ConstantsAssumption DEF IInv, Books, NeverAhead, TypeOK, Revisions
      <4>3. nv.num > local'[c].num
        BY <2>2, <2>3, <2>4, <4>1, <4>2
      <4>4. nv = [num |-> rev'[c], len |-> Len(roots'[c])]
        BY <2>4, <4>1
      <4> QED BY <2>5, <4>3, <4>4 DEF RevisionHeld
    <3> QED BY <3>1, <3>2
  <2>10. AppendedHeld(z)'
    <3>1. roots'[c] = q
      BY RevisedBooks
    <3>2. renewal'[c] = NULL
      BY DEF Revised, HostAccepts
    <3> QED BY <2>5, <3>1, <3>2 DEF AppendedHeld, Answered
  <2>11. BatchHeld(z)'
    <3>1. roots'[c] = q
      BY RevisedBooks
    <3> QED BY <2>5, <3>1 DEF BatchHeld, Answered
  <2>12. FreeHeld(z)' /\ RenewalHeld(z)'
    BY <2>5 DEF FreeHeld, RenewalHeld, Answered
  <2>13. JobOK(w, z)'
    <3>1. Scripted(w, z)'
      BY <2>7 DEF Scripted, Idle
    <3> QED BY <2>8, <2>9, <2>10, <2>11, <2>12, <3>1 DEF JobOK
  <2>14. \A u \in Workers \ {w} : Untouched(job[u])
    BY <1>1, <1>3, RevisedOthers
  <2>15. z.step # "revise"
    BY <2>5 DEF Answered
  <2>16. JobsOK' /\ JobsTyped'
    BY <1>1, <2>5, <2>6, <2>13, <2>14, <2>15, JobsStep, JobsTypedStep DEF IInv
  <2>17. owner' \in [Contracts -> Workers \cup {NULL}]
    BY <1>3 DEF IInv, TypeOK
  <2> QED BY <2>16, <2>17, RevisedBooks DEF IInv
<1> QED BY <1>2, <1>3
(* What a worker may rely on when it calls the host.                        *)
LEMMA Calling ==
    ASSUME IInv, NEW w \in Workers, NEW op, NEW step, MayCall(w, op, step), step # "idle",
           step # "lock"
    PROVE  /\ job[w] \in Jobs /\ job[w].op = op /\ job[w].step = step /\ Locked(job[w])
           /\ JobOK(w, job[w]) /\ job[w].contract \in known /\ job[w].contract \in Contracts
           /\ job[w].left \subseteq known /\ HostAccepts(job[w].contract)
BY DEF MayCall, At, IInv, TypeOK, JobsOK, JobOK, LockHeld, Locked

(* A contract that keeps its sectors.                                       *)
LEMMA SameRoots ==
    ASSUME IInv, NEW c \in known, HostAccepts(c),
           roots' = [roots EXCEPT ![c] = roots[c]], rev' = [rev EXCEPT ![c] = @ + 1],
           UNCHANGED <<renewal, temp, restored, dbVars>>
    PROVE  Revised(c, roots[c])
<1>1. c \in Contracts /\ roots[c] \in BoundedSeq(Roots, MaxLen)
  BY DEF IInv, TypeOK
<1>2. ASSUME c \notin restored, NEW r \in Roots, pin[r] = c PROVE r \in Range(roots[c])
  BY <1>1, <1>2, ConstantsAssumption DEF IInv, Books, PinnedIsStored
<1> QED BY <1>1, <1>2 DEF Revised

(* Funding revises a contract and leaves its sectors alone.                 *)
LEMMA ReplenishAccountsKeeps ==
    ASSUME IInv, NEW w \in Workers, ReplenishAccounts(w)
    PROVE  IInv'
<1>1. MayCall(w, "fund", "revise")
  BY DEF ReplenishAccounts
<1>2. /\ job[w] \in Jobs /\ job[w].op = "fund" /\ job[w].step = "revise" /\ Locked(job[w])
      /\ JobOK(w, job[w]) /\ job[w].contract \in known /\ job[w].contract \in Contracts
      /\ job[w].left \subseteq known /\ HostAccepts(job[w].contract)
  BY <1>1, Calling
<1>3. PICK c \in known : c = job[w].contract
  BY <1>2
<1>4. PICK x : x = [job[w] EXCEPT !.step = "save"]
  OBVIOUS
<1>5. /\ x \in Jobs /\ x.op = "fund" /\ x.step = "save" /\ x.contract = c /\ x.left \subseteq known
  BY <1>2, <1>3, <1>4 DEF Jobs
<1>6. PICK q : q = roots[c]
  OBVIOUS
<1>7. Answered(w, c, q, x)
  BY <1>5 DEF Answered, Scripted
<1>8. Revise(w, q, x)
  BY <1>3, <1>4, <1>6 DEF ReplenishAccounts
<1>9. Revised(c, q)
  BY <1>2, <1>3, <1>6, <1>8, SameRoots DEF Revise
<1>10. \/ /\ job' = [job EXCEPT ![w] = [x EXCEPT !.revision =
                            [num |-> rev[c] + 1, len |-> Len(q)], !.synced = FALSE]]
          /\ owner' = owner
       \/ Fail(w)
  BY <1>3, <1>8 DEF Revise
<1> QED BY <1>2, <1>3, <1>6, <1>7, <1>9, <1>10, ReviseKeeps

(* A batch of sector roots is read where the contract has it.               *)
LEMMA SectorRootsKeeps ==
    ASSUME IInv, NEW w \in Workers, SectorRoots(w)
    PROVE  IInv'
<1> DEFINE y == job[w]
           length == IF y.total - y.offset < BatchSize THEN y.total - y.offset ELSE BatchSize
<1>1. MayCall(w, "prune", "revise")
  BY DEF SectorRoots
<1>2. /\ y \in Jobs /\ y.op = "prune" /\ y.step = "revise" /\ Locked(y)
      /\ JobOK(w, y) /\ y.contract \in known /\ y.contract \in Contracts
      /\ y.left \subseteq known /\ HostAccepts(y.contract)
  BY <1>1, Calling
<1>3. PICK c \in known : c = y.contract
  BY <1>2
<1>4. PICK q : q = roots[c]
  OBVIOUS
<1>5. q \in Seq(Roots) /\ Len(q) \in Nat /\ Len(q) <= MaxLen /\ MaxLen \in Nat /\ DOMAIN q = 1..Len(q)
  BY <1>2, <1>3, <1>4, RootsOf, ConstantsAssumption DEF IInv
<1>6. PICK o \in 0..MaxLen : o = y.offset
  BY <1>2 DEF Jobs
<1>7. PICK n \in Nat : n = length /\ o + n <= Len(q)
  <2>1. y.total \in Nat /\ y.offset < y.total
    BY <1>2, ConstantsAssumption DEF Jobs, IInv, TypeOK, At
  <2>2. length \in Nat
    BY <1>6, <2>1, ConstantsAssumption
  <2>3. y.offset + length <= Len(q)
    BY <1>3, <1>4 DEF SectorRoots
  <2> QED BY <1>6, <2>2, <2>3
<1>8. PICK a : a = SubSeq(q, o + 1, o + n)
  OBVIOUS
<1>9. /\ a \in Seq(Roots) /\ Len(a) = n /\ \A i \in 1..n : a[i] = q[o + i] /\ o + i \in DOMAIN q
  <2>1. \A i \in (o + 1)..(o + n) : q[i] \in Roots
    BY <1>5, <1>7
  <2>2. /\ a \in Seq(Roots)
        /\ Len(a) = IF o + 1 <= o + n THEN (o + n) - (o + 1) + 1 ELSE 0
        /\ \A i \in 1..(o + n) - (o + 1) + 1 : a[i] = q[(o + 1) + i - 1]
    BY <1>5, <1>8, <2>1, SubSeqProperties
  <2>3. Len(a) = n
    BY <1>5, <1>7, <2>2
  <2>4. ASSUME NEW i \in 1..n PROVE a[i] = q[o + i] /\ o + i \in DOMAIN q
    <3>1. i \in 1..(o + n) - (o + 1) + 1 /\ (o + 1) + i - 1 = o + i /\ o + i \in 1..Len(q)
      BY <1>5, <1>7
    <3> QED BY <1>5, <2>2, <3>1
  <2> QED BY <2>2, <2>3, <2>4
<1>10. a \in BoundedSeq(Roots, MaxLen)
  BY <1>5, <1>7, <1>9, Bounded
<1>11. PICK x : x = [y EXCEPT !.step = "save", !.answer = a]
  OBVIOUS
<1>12. /\ x \in Jobs /\ x.op = "prune" /\ x.step = "save" /\ x.contract = c /\ x.left \subseteq known
       /\ x.offset = o /\ x.answer = a
  BY <1>2, <1>3, <1>6, <1>10, <1>11 DEF Jobs
<1>13. w = "maintenance"
  BY <1>2 DEF JobOK, Scripted
<1>14. Answered(w, c, q, x)
  <2>1. x.offset + Len(x.answer) <= MaxLen
    BY <1>5, <1>7, <1>9, <1>12
  <2> QED BY <1>9, <1>12, <1>13, <2>1 DEF Answered, Scripted
<1>15. Revise(w, q, x)
  BY <1>3, <1>4, <1>6, <1>7, <1>8, <1>11 DEF SectorRoots
<1>16. Revised(c, q)
  BY <1>2, <1>3, <1>4, <1>15, SameRoots DEF Revise
<1>17. \/ /\ job' = [job EXCEPT ![w] = [x EXCEPT !.revision =
                            [num |-> rev[c] + 1, len |-> Len(q)], !.synced = FALSE]]
          /\ owner' = owner
       \/ Fail(w)
  BY <1>3, <1>15 DEF Revise
<1> QED BY <1>2, <1>3, <1>4, <1>14, <1>16, <1>17, ReviseKeeps
(* AppendSectors adds to the end of the contract.                           *)
LEMMA AppendSectorsKeeps ==
    ASSUME IInv, NEW w \in Workers, AppendSectors(w)
    PROVE  IInv'
<1> DEFINE y == job[w]
<1>1. MayCall(w, "pin", "revise")
  BY DEF AppendSectors
<1>2. /\ y \in Jobs /\ y.op = "pin" /\ y.step = "revise" /\ Locked(y)
      /\ JobOK(w, y) /\ y.contract \in known /\ y.contract \in Contracts
      /\ y.left \subseteq known /\ HostAccepts(y.contract)
  BY <1>1, Calling
<1>3. PICK c \in known : c = y.contract
  BY <1>2
<1>4a. PICK A \in SUBSET y.sectors : \E a \in SetToSeqs(A \cap Stored) :
         /\ Len(roots[c]) + Len(a) <= MaxLen
         /\ Revise(w, roots[c] \o a, [y EXCEPT !.step = "save", !.tried = A, !.answer = a])
  BY <1>3 DEF AppendSectors
<1>4. PICK a \in SetToSeqs(A \cap Stored) :
         /\ Len(roots[c]) + Len(a) <= MaxLen
         /\ Revise(w, roots[c] \o a, [y EXCEPT !.step = "save", !.tried = A, !.answer = a])
  BY <1>4a
<1>5. A \subseteq Roots
  BY <1>2 DEF Jobs
<1>6. a \in Seq(Roots)
  <2>1. PICK S : S = A \cap Stored
    OBVIOUS
  <2>2. IsFiniteSet(S) /\ S \subseteq Roots
    <3>1. S \subseteq Roots
      BY <1>5, <2>1
    <3> QED BY <3>1, ConstantsAssumption, FS_Subset
  <2>3. a \in [1..Cardinality(S) -> S] /\ Cardinality(S) \in Nat
    BY <1>4, <2>1, <2>2, ArrangementIsOnto
  <2> QED BY <2>2, <2>3
<1>7. PICK q : q = roots[c] \o a
  OBVIOUS
<1>8. /\ roots[c] \in Seq(Roots) /\ Len(roots[c]) \in Nat /\ DOMAIN roots[c] = 1..Len(roots[c])
      /\ MaxLen \in Nat
  BY <1>2, <1>3, RootsOf, ConstantsAssumption DEF IInv
<1>9. /\ q \in Seq(Roots) /\ Len(q) <= MaxLen /\ DOMAIN q = 1..(Len(roots[c]) + Len(a))
      /\ \A i \in 1..Len(roots[c]) : q[i] = roots[c][i]
      /\ \A i \in 1..Len(a) : q[Len(roots[c]) + i] = a[i]
  <2>1. q \in Seq(Roots) /\ Len(q) = Len(roots[c]) + Len(a)
    BY <1>6, <1>7, <1>8
  <2>2. \A i \in 1..Len(roots[c]) : q[i] = roots[c][i]
    BY <1>6, <1>7, <1>8
  <2>3. \A i \in 1..Len(a) : q[Len(roots[c]) + i] = a[i]
    BY <1>6, <1>7, <1>8
  <2> QED BY <1>4, <2>1, <2>2, <2>3
<1>10. Range(roots[c]) \subseteq Range(q)
  BY <1>6, <1>8, <1>9 DEF Range
<1>11. Range(a) \subseteq Range(q)
  <2> SUFFICES ASSUME NEW i \in DOMAIN a PROVE a[i] \in Range(q)
    BY DEF Range
  <2>1. i \in 1..Len(a) /\ Len(a) \in Nat
    BY <1>6
  <2>2. Len(roots[c]) + i \in DOMAIN q /\ q[Len(roots[c]) + i] = a[i]
    BY <1>8, <1>9, <2>1
  <2> QED BY <2>2 DEF Range
<1>12. q \in BoundedSeq(Roots, MaxLen) /\ a \in BoundedSeq(Roots, MaxLen)
  <2>1. Len(a) <= MaxLen
    BY <1>4, <1>6, <1>8
  <2> QED BY <1>6, <1>8, <1>9, <2>1, Bounded
<1>13. PICK x : x = [y EXCEPT !.step = "save", !.tried = A, !.answer = a]
  OBVIOUS
<1>14. /\ x \in Jobs /\ x.op = "pin" /\ x.step = "save" /\ x.contract = c /\ x.left \subseteq known
       /\ x.answer = a
  <2>1. A \in (SUBSET Roots) \cup SUBSET (1..MaxLen)
    BY <1>5
  <2> QED BY <1>2, <1>3, <1>12, <1>13, <2>1 DEF Jobs
<1>15. w = "maintenance"
  BY <1>2 DEF JobOK, Scripted
<1>16. Answered(w, c, q, x)
  BY <1>11, <1>14, <1>15 DEF Answered, Scripted
<1>17. Revise(w, q, x)
  BY <1>4, <1>7, <1>13
<1>18. ASSUME c \notin restored, NEW r \in Roots, pin[r] = c PROVE r \in Range(q)
  <2>1. r \in Range(roots[c])
    BY <1>2, <1>3, <1>18, ConstantsAssumption DEF IInv, Books, PinnedIsStored
  <2> QED BY <1>10, <2>1
<1>19. Revised(c, q)
  BY <1>2, <1>3, <1>12, <1>17, <1>18 DEF Revise, Revised
<1>20. \/ /\ job' = [job EXCEPT ![w] = [x EXCEPT !.revision =
                            [num |-> rev[c] + 1, len |-> Len(q)], !.synced = FALSE]]
          /\ owner' = owner
       \/ Fail(w)
  BY <1>3, <1>17 DEF Revise
<1> QED BY <1>2, <1>3, <1>15, <1>16, <1>19, <1>20, ReviseKeeps

(* FreeSectors removes nothing that is pinned to the contract.              *)
LEMMA FreeSectorsKeeps ==
    ASSUME IInv, NEW w \in Workers, FreeSectors(w)
    PROVE  IInv'
<1> DEFINE y == job[w]
<1>1. MayCall(w, "prune", "free")
  BY DEF FreeSectors
<1>2. /\ y \in Jobs /\ y.op = "prune" /\ y.step = "free" /\ Locked(y)
      /\ JobOK(w, y) /\ y.contract \in known /\ y.contract \in Contracts
      /\ y.left \subseteq known /\ HostAccepts(y.contract)
  BY <1>1, Calling
<1>3. PICK c \in known : c = y.contract
  BY <1>2
<1>4. PICK q \in Without(roots[c], y.tried) :
         y.tried \subseteq DOMAIN roots[c] /\ Revise(w, q, [y EXCEPT !.step = "freed"])
  BY <1>3 DEF FreeSectors
<1>5. roots[c] \in Seq(Roots) /\ Len(roots[c]) \in Nat /\ Len(roots[c]) <= MaxLen /\ MaxLen \in Nat
  BY <1>2, <1>3, RootsOf, ConstantsAssumption DEF IInv
<1>6. /\ q \in Seq(Roots) /\ Len(q) <= Len(roots[c])
      /\ \A i \in DOMAIN roots[c] \ y.tried : roots[c][i] \in Range(q)
  BY <1>4, <1>5, WithoutKeeps
<1>7. q \in BoundedSeq(Roots, MaxLen)
  BY <1>5, <1>6, Bounded
<1>8. PICK x : x = [y EXCEPT !.step = "freed"]
  OBVIOUS
<1>9. /\ x \in Jobs /\ x.op = "prune" /\ x.step = "freed" /\ x.contract = c /\ x.left \subseteq known
  BY <1>2, <1>3, <1>8 DEF Jobs
<1>10. w = "maintenance"
  BY <1>2 DEF JobOK, Scripted
<1>11. Answered(w, c, q, x)
  BY <1>9, <1>10 DEF Answered, Scripted
<1>12. ASSUME c \notin restored, NEW r \in Roots, pin[r] = c PROVE r \in Range(q)
  <2>1. r \in Range(roots[c])
    BY <1>2, <1>3, <1>12, ConstantsAssumption DEF IInv, Books, PinnedIsStored
  <2>2. PICK i \in DOMAIN roots[c] : r = roots[c][i]
    BY <2>1 DEF Range
  <2>3. i \notin y.tried
    BY <1>2, <1>3, <1>12, <2>2 DEF JobOK, FreeHeld
  <2> QED BY <1>6, <2>2, <2>3
<1>13. Revise(w, q, x)
  BY <1>4, <1>8
<1>14. Revised(c, q)
  BY <1>2, <1>3, <1>7, <1>12, <1>13 DEF Revise, Revised
<1>15. \/ /\ job' = [job EXCEPT ![w] = [x EXCEPT !.revision =
                            [num |-> rev[c] + 1, len |-> Len(q)], !.synced = FALSE]]
          /\ owner' = owner
       \/ Fail(w)
  BY <1>3, <1>13 DEF Revise
<1> QED BY <1>2, <1>3, <1>10, <1>11, <1>14, <1>15, ReviseKeeps
-----------------------------------------------------------------------------
(***************************************************************************)
(* Storing revisions                                                       *)
(***************************************************************************)

(* The row of contract c changes: to a revision the host has, if the host   *)
(* has not fallen back; else the contract may turn bad.                     *)
Stores(c) ==
    /\ c \in known
    /\ UNCHANGED <<hostVars, sectorRows, known, renewedTo, mapped>>
    /\ local' \in [Contracts -> Revisions] /\ \A d \in Contracts \ {c} : local'[d] = local[d]
    /\ c \notin restored => local'[c].num <= rev[c]
    /\ good' = good \/ (c \in restored /\ good' = good \ {c})

(* The books stay right.                                                    *)
LEMMA StoresBooks ==
    ASSUME IInv, NEW c, Stores(c)
    PROVE  /\ Books'
           /\ JobsTyped' /\ owner' \in [Contracts -> Workers \cup {NULL}] => TypeOK'
           /\ known' = known /\ restored' = restored /\ c \in Contracts
<1>1. UNCHANGED <<roots, rev, renewal, temp, restored, place, pin, known, renewedTo, mapped>>
  BY DEF Stores, hostVars, sectorRows
<1>2. PinsMapped' /\ PinnedIsStored' /\ RenewalsPending' /\ RenewalsDiffer' /\ UnknownAreNew'
  BY <1>1 DEF IInv, Books, PinsMapped, PinnedIsStored, RenewalsPending, RenewalsDiffer,
     UnknownAreNew
<1>3. HealthyContractsStayGood'
  BY <1>1 DEF IInv, Books, HealthyContractsStayGood, Stores
<1>4. NeverAhead'
  BY <1>1 DEF IInv, Books, NeverAhead, Stores
<1>5. JobsTyped' /\ owner' \in [Contracts -> Workers \cup {NULL}] => TypeOK'
  BY <1>1 DEF IInv, TypeOK, JobsTyped, Stores
<1> QED BY <1>1, <1>2, <1>3, <1>4, <1>5 DEF Books, Stores, IInv, TypeOK

(* It is the row of a contract that nobody else has locked.                 *)
LEMMA StoresOthers ==
    ASSUME IInv, NEW w \in Workers, NEW c, Stores(c), owner[c] = w, job[w].contract = c,
           NEW u \in Workers \ {w},
           Locked(job[u]) => owner'[job[u].contract] = owner[job[u].contract]
    PROVE  Untouched(job[u])
<1> DEFINE y == job[u]
<1>1. UNCHANGED <<roots, rev, renewal, temp, restored, place, pin, known>>
  BY DEF Stores, hostVars, sectorRows
<1>2. y \in Jobs /\ JobOK(u, y)
  BY DEF IInv, TypeOK, JobsOK
<1>3. ASSUME Locked(y) PROVE local'[y.contract] = local[y.contract]
  <2>1. y.contract # c
    BY <1>3, OwnContracts DEF IInv
  <2>2. y.contract \in Contracts
    BY <1>2, <1>3 DEF JobOK, LockHeld, Locked, IInv, TypeOK
  <2> QED BY <2>1, <2>2 DEF Stores
<1>4. \A r : KeptBut(y.contract, r) = StoredBut(y.contract, r)
  BY <1>1 DEF KeptBut, StoredBut
<1>5. y.step = "add" => y.new \notin known'
  BY <1>1, <1>2 DEF JobOK, RenewalHeld
<1> QED BY <1>1, <1>3, <1>4, <1>5 DEF Untouched

(* The call ends.                                                           *)
LEMMA StoresEnd ==
    ASSUME IInv, NEW w \in Workers, NEW c, Stores(c), owner[c] = w, job[w].contract = c, Ended(w)
    PROVE  IInv'
<1>1. \A u \in Workers \ {w} : Untouched(job[u])
  BY StoresOthers DEF Ended
<1>2. JobsOK' /\ JobsTyped'
  BY <1>1, StoresBooks, EndedJobs DEF IInv
<1> QED BY <1>2, StoresBooks DEF IInv, Ended

(* The call goes on.                                                        *)
LEMMA StoresStep ==
    ASSUME IInv, NEW w \in Workers, NEW c, Stores(c), owner[c] = w, job[w].contract = c,
           NEW x \in Jobs, JobOK(w, x)', job' = [job EXCEPT ![w] = x], owner' = owner,
           x.op = "prune" /\ x.step = "revise" => x.offset < x.total
    PROVE  IInv'
<1>1. \A u \in Workers \ {w} : Untouched(job[u])
  BY StoresOthers
<1>2. JobsOK' /\ JobsTyped'
  BY <1>1, StoresBooks, JobsStep, JobsTypedStep DEF IInv
<1>3. owner' \in [Contracts -> Workers \cup {NULL}]
  BY DEF IInv, TypeOK
<1> QED BY <1>2, <1>3, StoresBooks DEF IInv

(* syncRevision: a host that has not fallen back is never behind.           *)
LEMMA SyncRevisionKeeps ==
    ASSUME IInv, NEW w \in Workers, SyncRevision(w)
    PROVE  IInv'
<1> DEFINE y == job[w]
<1>1. /\ y.step \in {"revise", "free"} /\ y.contract \in known
      /\ UNCHANGED <<hostVars, sectorRows, known, renewedTo, mapped>>
  BY DEF SyncRevision, Revisable
<1>2. y \in Jobs /\ JobOK(w, y) /\ y.contract \in Contracts /\ owner[y.contract] = w
  BY <1>1 DEF IInv, TypeOK, JobsOK, JobOK, LockHeld, Locked
<1>3. PICK c \in Contracts : c = y.contract
  BY <1>2
<1>4. local[c].num \in Nat /\ rev[c] \in Nat /\ rev[c] \in 0..MaxRev /\ local \in [Contracts -> Revisions]
  BY ConstantsAssumption DEF IInv, TypeOK, Revisions
<1>5. CASE good' = good \ {c} /\ UNCHANGED local /\ Fail(w) /\ HostBehind(c)
  <2>1. c \in restored
    BY <1>4, <1>5 DEF HostBehind, IInv, Books, NeverAhead
  <2>2. Stores(c)
    BY <1>1, <1>3, <1>4, <1>5, <2>1 DEF Stores
  <2>3. Ended(w)
    BY <1>5, Ends DEF IInv
  <2> QED BY <1>2, <1>3, <2>2, <2>3, StoresEnd
<1>6. CASE /\ local' = [local EXCEPT ![c] = [num |-> rev[c], len |-> Len(roots[c])]]
           /\ UNCHANGED good
           /\ \/ Fail(w)
              \/ job' = [job EXCEPT ![w].synced = TRUE] /\ owner' = owner
  <2>1. Len(roots[c]) \in 0..MaxLen
    BY RootsOf, ConstantsAssumption DEF IInv
  <2>2. [num |-> rev[c], len |-> Len(roots[c])] \in Revisions
    BY <1>4, <2>1 DEF Revisions
  <2>3. Stores(c)
    BY <1>1, <1>3, <1>4, <1>6, <2>2 DEF Stores
  <2>4. CASE Fail(w)
    <3>1. Ended(w)
      BY <2>4, Ends DEF IInv
    <3> QED BY <1>2, <1>3, <2>3, <3>1, StoresEnd
  <2>5. CASE job' = [job EXCEPT ![w].synced = TRUE] /\ owner' = owner
    <3>1. PICK x : x = [y EXCEPT !.synced = TRUE]
      OBVIOUS
    <3>2. /\ x \in Jobs /\ x.op = y.op /\ x.step = y.step /\ x.contract = c /\ x.left = y.left
          /\ x.tried = y.tried /\ x.offset = y.offset /\ x.total = y.total
      BY <1>2, <1>3, <3>1 DEF Jobs
    <3>3. job' = [job EXCEPT ![w] = x]
      BY <1>2, <2>5, <3>1 DEF IInv, TypeOK
    <3>4. Scripted(w, x)
      BY <1>1, <1>2, <3>2 DEF JobOK, Scripted
    <3>5. LockHeld(w, x)
      BY <1>2, <1>3, <3>2 DEF JobOK, LockHeld, Locked
    <3>6. FreeHeld(x)
      BY <1>2, <1>3, <3>2 DEF JobOK, FreeHeld
    <3>7. UNCHANGED <<known, restored, roots, temp, renewal, place, pin>>
      BY <1>1 DEF hostVars, sectorRows
    <3>8. JobOK(w, x)'
      <4>1. FreeHeld(x)'
        BY <3>6, <3>7 DEF FreeHeld, StoredBut
      <4>2. LockHeld(w, x)'
        BY <2>5, <3>5, <3>7 DEF LockHeld
      <4>3. Scripted(w, x)'
        BY <3>4 DEF Scripted, Idle
      <4> QED BY <1>1, <3>2, <4>1, <4>2, <4>3 DEF JobOK, RevisionHeld, AppendedHeld, BatchHeld,
             RenewalHeld
    <3>9. x.op = "prune" /\ x.step = "revise" => x.offset < x.total
      BY <3>2 DEF IInv, TypeOK, At
    <3> QED BY <1>2, <1>3, <2>3, <2>5, <3>2, <3>3, <3>8, <3>9, StoresStep
  <2> QED BY <1>6, <2>4, <2>5
<1>7. \/ good' = good \ {c} /\ UNCHANGED local /\ Fail(w) /\ HostBehind(c)
      \/ /\ local' = [local EXCEPT ![c] = [num |-> rev[c], len |-> Len(roots[c])]]
         /\ UNCHANGED good
         /\ \/ Fail(w)
            \/ job' = [job EXCEPT ![w].synced = TRUE] /\ owner' = owner
  BY <1>3 DEF SyncRevision
<1> QED BY <1>5, <1>6, <1>7
(* UpdateContractRevision stores what the host has; a pruning call goes on  *)
(* with the batch it has read, or with the next one.                        *)
LEMMA UpdateContractRevisionKeeps ==
    ASSUME IInv, NEW w \in Workers, UpdateContractRevision(w)
    PROVE  IInv'
<1> DEFINE y == job[w]
<1>1. /\ y.step \in {"save", "freed"} /\ local' = [local EXCEPT ![y.contract] = y.revision]
      /\ UNCHANGED <<hostVars, sectorRows, known, renewedTo, good, mapped>>
  BY DEF UpdateContractRevision
<1>2. /\ y \in Jobs /\ JobOK(w, y) /\ y.contract \in known /\ y.contract \in Contracts
      /\ owner[y.contract] = w /\ Locked(y)
  BY <1>1 DEF IInv, TypeOK, JobsOK, JobOK, LockHeld, Locked
<1>3. PICK c \in Contracts : c = y.contract
  BY <1>2
<1>4. Stores(c)
  <2>1. y.revision \in Revisions /\ local \in [Contracts -> Revisions] /\ rev[c] \in Nat
    BY <1>2, ConstantsAssumption DEF Jobs, IInv, TypeOK
  <2>2. c \notin restored => y.revision.num <= rev[c]
    BY <1>1, <1>2, <1>3, <2>1 DEF JobOK, RevisionHeld
  <2> QED BY <1>1, <1>2, <1>3, <2>1, <2>2 DEF Stores
<1>5. UNCHANGED <<known, restored, roots, temp, renewal, place, pin>>
  BY <1>1 DEF hostVars, sectorRows
<1>6. ASSUME NEW s, \/ y.op = "pin" /\ s = "report"
                    \/ y.op = "prune" /\ y.step = "save" /\ s = "compare",
             job' = [job EXCEPT ![w].step = s], owner' = owner
      PROVE  IInv'
  <2>1. PICK x : x = [y EXCEPT !.step = s]
    OBVIOUS
  <2>2. /\ x \in Jobs /\ x.op = y.op /\ x.step = s /\ x.contract = c /\ x.left = y.left
        /\ x.answer = y.answer /\ x.offset = y.offset
    BY <1>2, <1>3, <1>6, <2>1 DEF Jobs
  <2>3. job' = [job EXCEPT ![w] = x]
    BY <1>2, <1>6, <2>1 DEF IInv, TypeOK
  <2>4. LockHeld(w, x)'
    BY <1>1, <1>2, <1>3, <1>5, <1>6, <2>2 DEF JobOK, LockHeld, Locked
  <2>5. Scripted(w, x)'
    BY <1>2, <1>6, <2>2 DEF JobOK, Scripted
  <2>6. AppendedHeld(x)'
    BY <1>1, <1>2, <1>3, <1>5, <1>6, <2>2, Zenon DEF JobOK, AppendedHeld, Scripted
  <2>7. BatchHeld(x)'
    BY <1>1, <1>2, <1>3, <1>5, <1>6, <2>2 DEF JobOK, BatchHeld
  <2>8. JobOK(w, x)'
    BY <1>6, <2>2, <2>4, <2>5, <2>6, <2>7 DEF JobOK, RevisionHeld, FreeHeld, RenewalHeld
  <2>9. x.step # "revise"
    BY <1>6, <2>2
  <2> QED BY <1>2, <1>3, <1>4, <1>6, <2>2, <2>3, <2>8, <2>9, StoresStep
<1>7. CASE Return(w)
  <2>1. Ended(w)
    BY <1>7, Ends DEF IInv
  <2> QED BY <1>2, <1>3, <1>4, <2>1, StoresEnd
<1>8. CASE y.op = "prune" /\ NextBatch(w, Cardinality(y.tried))
  <2>1. Cardinality(y.tried) \in Nat
    <3>1. y.tried \in (SUBSET Roots) \cup SUBSET (1..MaxLen)
      BY <1>2 DEF Jobs
    <3>2. IsFiniteSet(1..MaxLen)
      BY ConstantsAssumption, FS_Interval
    <3>3. IsFiniteSet(y.tried)
      BY <3>1, <3>2, ConstantsAssumption, FS_Subset
    <3> QED BY <3>3, FS_CardinalityType
  <2>2. CASE Ended(w)
    BY <1>2, <1>3, <1>4, <2>2, StoresEnd
  <2>3. ASSUME NEW x, Revising(w, x), x.contract = c, job' = [job EXCEPT ![w] = x], owner' = owner
        PROVE  IInv'
    <3>1. x \in Jobs /\ (x.op = "prune" /\ x.step = "revise" => x.offset < x.total)
      BY <2>3 DEF Revising
    <3>2. JobOK(w, x)'
      BY <1>2, <1>3, <1>5, <2>3, RevisingOK
    <3> QED BY <1>2, <1>3, <1>4, <2>3, <3>1, <3>2, StoresStep
  <2>4. \/ Ended(w)
        \/ /\ owner' = owner
           /\ \E x : Revising(w, x) /\ x.contract = y.contract /\ job' = [job EXCEPT ![w] = x]
    BY <1>2, <1>8, <2>1, NextBatches DEF IInv
  <2> QED BY <1>3, <2>2, <2>3, <2>4
<1>9. y.op \in {"pin", "prune", "fund"} /\ (y.step = "freed" => y.op = "prune")
  BY <1>1, <1>2 DEF JobOK, Scripted, Jobs
<1>10. CASE y.op = "pin"
  BY <1>6, <1>10 DEF UpdateContractRevision, Goto
<1>11. CASE y.op = "fund"
  BY <1>7, <1>11 DEF UpdateContractRevision
<1>12. CASE y.op = "prune"
  <2>1. CASE y.step = "freed"
    BY <1>8, <1>12, <2>1 DEF UpdateContractRevision
  <2>2. CASE y.step = "save"
    BY <1>6, <1>12, <2>2 DEF UpdateContractRevision, Goto
  <2> QED BY <1>1, <2>1, <2>2
<1> QED BY <1>9, <1>10, <1>11, <1>12
-----------------------------------------------------------------------------
(***************************************************************************)
(* The rows of sectors                                                     *)
(***************************************************************************)

(* A step of a transaction on sectors: what is newly pinned is in its       *)
(* contract, which the host has not renewed.                                *)
Rows ==
    /\ UNCHANGED <<hostVars, local, known, renewedTo>>
    /\ place' \in [Roots -> {"here", "away", "lost"}] /\ pin' \in [Roots -> Contracts \cup {NULL}]
    /\ mapped' \subseteq mapped /\ good' \subseteq good /\ mapped' \ good' \subseteq mapped \ good
    /\ \A r \in Roots :
         /\ pin'[r] \in mapped' \cup {NULL}
         /\ pin'[r] # pin[r] /\ pin'[r] # NULL =>
               /\ renewal[pin'[r]] = NULL
               /\ pin'[r] \notin restored => r \in Range(roots[pin'[r]])

(* The books stay right.                                                    *)
LEMMA RowsBooks ==
    ASSUME IInv, Rows
    PROVE  /\ Books'
           /\ JobsTyped' /\ owner' \in [Contracts -> Workers \cup {NULL}] => TypeOK'
           /\ known' = known /\ restored' = restored
<1>1. UNCHANGED <<roots, rev, renewal, temp, restored, local, known, renewedTo>>
  BY DEF Rows, hostVars
<1>2. PinsMapped' /\ HealthyContractsStayGood'
  BY <1>1 DEF IInv, Books, PinsMapped, HealthyContractsStayGood, Rows
<1>3. RenewalsDiffer' /\ UnknownAreNew' /\ NeverAhead'
  BY <1>1 DEF IInv, Books, RenewalsDiffer, UnknownAreNew, NeverAhead
<1>4. PinnedIsStored'
  <2> SUFFICES ASSUME NEW r \in Roots, pin'[r] # NULL, pin'[r] \notin restored
               PROVE  r \in Range(roots[pin'[r]])
    BY <1>1 DEF PinnedIsStored
  <2>1. CASE pin'[r] = pin[r]
    BY <2>1 DEF IInv, Books, PinnedIsStored
  <2>2. CASE pin'[r] # pin[r]
    BY <2>2 DEF Rows
  <2> QED BY <2>1, <2>2
<1>5. RenewalsPending'
  <2> SUFFICES ASSUME NEW d \in mapped', renewal[d] # NULL
               PROVE  /\ renewal[d] \notin known
                      /\ renewal[d] \notin restored =>
                           \A r \in Roots : pin'[r] = d => r \in Range(roots[renewal[d]])
    BY <1>1 DEF RenewalsPending
  <2>1. d \in mapped
    BY DEF Rows
  <2>2. d # NULL
    BY <2>1, ConstantsAssumption DEF IInv, TypeOK
  <2>3. \A r \in Roots : pin'[r] = d => pin[r] = d
    BY <2>2 DEF Rows
  <2> QED BY <2>1, <2>3 DEF IInv, Books, RenewalsPending
<1>6. JobsTyped' /\ owner' \in [Contracts -> Workers \cup {NULL}] => TypeOK'
  BY <1>1 DEF IInv, TypeOK, JobsTyped, Rows
<1> QED BY <1>1, <1>2, <1>3, <1>4, <1>5, <1>6 DEF Books

(* A call to free sectors counts on the rows it has seen.                   *)
LEMMA RowsOthers ==
    ASSUME IInv, Rows, NEW u \in Workers,
           Locked(job[u]) => owner'[job[u].contract] = owner[job[u].contract],
           job[u].step = "free" =>
              \A r \in Roots :
                 /\ pin'[r] = job[u].contract => pin[r] = job[u].contract
                 /\ restored = {} /\ place'[r] = "here" /\ pin'[r] = NULL /\ pin[r] # job[u].contract
                       => StoredBut(job[u].contract, r) \/ (place[r] = "here" /\ pin[r] = NULL)
    PROVE  Untouched(job[u])
<1> DEFINE y == job[u]
<1>1. UNCHANGED <<roots, rev, renewal, temp, restored, local, known>>
  BY DEF Rows, hostVars
<1>2. JobOK(u, y)
  BY DEF IInv, JobsOK
<1>3. \A r : KeptBut(y.contract, r) = StoredBut(y.contract, r)
  BY <1>1 DEF KeptBut, StoredBut
<1>4. y.step = "add" => y.new \notin known'
  BY <1>1, <1>2 DEF JobOK, RenewalHeld
<1> QED BY <1>1, <1>3, <1>4 DEF Untouched

(* A step that is no worker's.                                              *)
LEMMA JobsSame ==
    ASSUME TypeOK, JobsOK, job' = job, known \subseteq known', restored \subseteq restored',
           \A u \in Workers : Untouched(job[u])
    PROVE  JobsOK' /\ JobsTyped'
<1>1. ASSUME NEW u \in Workers PROVE JobOK(u, job[u])'
  <2>1. PICK y \in Jobs : y = job[u]
    BY DEF TypeOK
  <2>2. JobOK(u, y) /\ Untouched(y)
    BY <2>1 DEF JobsOK
  <2>3. JobOK(u, y)'
    BY <2>2, UntouchedKeeps
  <2> QED BY <2>1, <2>3
<1> QED BY <1>1 DEF JobsOK, JobsTyped, TypeOK, At

(* Only the maintenance loop pins and frees, one at a time.                 *)
LEMMA OneMaintenance ==
    ASSUME IInv, NEW w \in Workers, job[w].op = "pin", NEW u \in Workers \ {w}
    PROVE  job[u].step # "free"
BY DEF IInv, JobsOK, JobOK, Scripted

(* MarkSectorsLost.                                                         *)
LEMMA ReportMissingKeeps ==
    ASSUME IInv, NEW w \in Workers, ReportMissing(w)
    PROVE  IInv'
<1> DEFINE y == job[w]
           lost == {r \in y.tried \ Range(y.answer) : place[r] = "here"}
<1>1. /\ y.op = "pin" /\ y.step = "report" /\ job' = [job EXCEPT ![w].step = "pin"] /\ owner' = owner
      /\ place' = [r \in Roots |-> IF r \in lost THEN "lost" ELSE place[r]]
      /\ pin' = [r \in Roots |-> IF r \in lost THEN NULL ELSE pin[r]]
      /\ UNCHANGED <<hostVars, local, known, renewedTo, good, mapped>>
  BY DEF ReportMissing, At, Goto
<1>2. y \in Jobs /\ JobOK(w, y)
  BY DEF IInv, TypeOK, JobsOK
<1>3. Rows
  <2>1. place' \in [Roots -> {"here", "away", "lost"}] /\ pin' \in [Roots -> Contracts \cup {NULL}]
    BY <1>1 DEF IInv, TypeOK
  <2>2. \A r \in Roots : pin'[r] \in {pin[r], NULL} /\ pin[r] \in mapped \cup {NULL}
    BY <1>1 DEF IInv, Books, PinsMapped
  <2> QED BY <1>1, <2>1, <2>2 DEF Rows
<1>4. \A u \in Workers \ {w} : Untouched(job[u])
  BY <1>1, <1>3, OneMaintenance, RowsOthers
<1>5. PICK x : x = [y EXCEPT !.step = "pin"]
  OBVIOUS
<1>6. /\ x \in Jobs /\ x.op = y.op /\ x.step = "pin" /\ x.contract = y.contract
      /\ x.left = y.left /\ x.answer = y.answer
  BY <1>2, <1>5 DEF Jobs
<1>7. job' = [job EXCEPT ![w] = x]
  BY <1>1, <1>5 DEF IInv, TypeOK
<1>8. JobOK(w, x)'
  <2>1. UNCHANGED <<known, restored, roots, renewal>>
    BY <1>1 DEF hostVars
  <2>2. Scripted(w, x)' /\ LockHeld(w, x)'
    BY <1>1, <1>2, <1>6, <2>1 DEF JobOK, Scripted, LockHeld, Locked
  <2>3. AppendedHeld(x)'
    BY <1>1, <1>2, <1>6, <2>1 DEF JobOK, AppendedHeld
  <2> QED BY <1>1, <1>6, <2>2, <2>3 DEF JobOK, RevisionHeld, BatchHeld, FreeHeld, RenewalHeld
<1>9. JobsOK' /\ JobsTyped'
  BY <1>3, <1>4, <1>6, <1>7, <1>8, RowsBooks, JobsStep, JobsTypedStep DEF IInv
<1>10. owner' \in [Contracts -> Workers \cup {NULL}]
  BY <1>1 DEF IInv, TypeOK
<1> QED BY <1>3, <1>9, <1>10, RowsBooks DEF IInv
(* PinSectors: the host has appended what is pinned, and keeps it while the *)
(* contract is locked.                                                      *)
LEMMA PinSectorsKeeps ==
    ASSUME IInv, NEW w \in Workers, PinSectors(w)
    PROVE  IInv'
<1> DEFINE y == job[w]
           sel == PinReturned(y)
<1>1. y.op = "pin" /\ y.step = "pin" /\ UNCHANGED <<hostVars, local, known, renewedTo, good, mapped>>
  BY DEF PinSectors, At
<1>2. y \in Jobs /\ JobOK(w, y) /\ y.contract \in Contracts
  BY <1>1 DEF IInv, TypeOK, JobsOK, JobOK, LockHeld
<1>3. CASE UNCHANGED sectorRows /\ Return(w)
  <2>1. Ended(w)
    BY <1>3, Ends DEF IInv
  <2> QED BY <1>1, <1>3, <2>1, QuietEnd DEF dbVars
<1>4. CASE /\ y.contract \in mapped \/ y.answer = <<>>
           /\ place' = [r \in Roots |-> IF r \in sel THEN "here" ELSE place[r]]
           /\ pin' = [r \in Roots |-> IF r \in sel THEN y.contract ELSE pin[r]]
           /\ NextContract(w, y.sectors \ y.tried)
  <2>1. Ended(w)
    <3>1. y.sectors \ y.tried \in SUBSET Roots
      BY <1>2 DEF Jobs
    <3> QED BY <1>1, <1>4, <3>1, Ends DEF IInv
  <2>2. /\ sel \subseteq Range(y.answer) /\ (y.answer = <<>> => sel = {})
        /\ renewal[y.contract] = NULL
        /\ y.contract \notin restored => Range(y.answer) \subseteq Range(roots[y.contract])
    <3>1. sel \subseteq Range(y.answer)
      BY DEF PinReturned
    <3>2. y.answer = <<>> => Range(y.answer) = {}
      BY DEF Range
    <3>3. /\ renewal[y.contract] = NULL
          /\ y.contract \notin restored => Range(y.answer) \subseteq Range(roots[y.contract])
      BY <1>1, <1>2 DEF JobOK, AppendedHeld
    <3> QED BY <3>1, <3>2, <3>3
  <2> HIDE DEF sel
  <2>3. place' \in [Roots -> {"here", "away", "lost"}] /\ pin' \in [Roots -> Contracts \cup {NULL}]
    BY <1>2, <1>4 DEF IInv, TypeOK
  <2>4. \A r \in Roots : pin[r] \in mapped \cup {NULL}
    BY DEF IInv, Books, PinsMapped
  <2>5. ASSUME NEW r \in Roots
        PROVE  /\ pin'[r] \in mapped \cup {NULL}
               /\ pin'[r] # pin[r] /\ pin'[r] # NULL =>
                     /\ renewal[pin'[r]] = NULL
                     /\ pin'[r] \notin restored => r \in Range(roots[pin'[r]])
    <3>1. CASE r \in sel
      BY <1>4, <2>2, <3>1
    <3>2. CASE r \notin sel
      BY <1>4, <2>4, <3>2
    <3> QED BY <3>1, <3>2
  <2>6. Rows
    BY <1>1, <2>3, <2>5 DEF Rows
  <2>7. \A u \in Workers \ {w} : Untouched(job[u])
    BY <1>1, <2>1, <2>6, OneMaintenance, RowsOthers DEF Ended
  <2>8. JobsOK' /\ JobsTyped'
    BY <2>1, <2>6, <2>7, RowsBooks, EndedJobs DEF IInv
  <2> QED BY <2>1, <2>6, <2>8, RowsBooks DEF IInv, Ended
<1> QED BY <1>3, <1>4 DEF PinSectors

(* A sector that waits to be pinned although its contract is deleted is in  *)
(* that contract, or in its renewal.                                        *)
LEMMA PinnedElsewhere ==
    ASSUME IInv, restored = {}, NEW r \in Roots, NEW c \in known, pin[r] # NULL, pin[r] # c
    PROVE  StoredBut(c, r)
<1>1. PICK d \in Contracts : d = pin[r]
  BY DEF IInv, TypeOK
<1>2. d \in mapped /\ r \in Range(roots[d])
  BY <1>1 DEF IInv, Books, PinsMapped, PinnedIsStored
<1>3. CASE renewal[d] = NULL
  BY <1>1, <1>2, <1>3 DEF StoredBut
<1>4. CASE renewal[d] # NULL
  <2>1. PICK n \in Contracts : n = renewal[d]
    BY <1>4 DEF IInv, TypeOK
  <2>2. n \notin known /\ r \in Range(roots[n])
    BY <1>1, <1>2, <1>4, <2>1 DEF IInv, Books, RenewalsPending
  <2>3. renewal[n] = NULL /\ n # c
    BY <2>2 DEF IInv, Books, UnknownAreNew
  <2> QED BY <2>2, <2>3 DEF StoredBut
<1> QED BY <1>3, <1>4

(* A transaction on sectors that is no worker's.                            *)
LEMMA RowsKeep ==
    ASSUME IInv, Rows, job' = job, owner' = owner,
           \A u \in Workers : job[u].step = "free" =>
              \A r \in Roots :
                 /\ pin'[r] = job[u].contract => pin[r] = job[u].contract
                 /\ restored = {} /\ place'[r] = "here" /\ pin'[r] = NULL /\ pin[r] # job[u].contract
                       => StoredBut(job[u].contract, r) \/ (place[r] = "here" /\ pin[r] = NULL)
    PROVE  IInv'
<1>1. \A u \in Workers : Untouched(job[u])
  BY RowsOthers
<1>2. JobsOK' /\ JobsTyped'
  BY <1>1, RowsBooks, JobsSame DEF IInv
<1>3. owner' \in [Contracts -> Workers \cup {NULL}]
  BY DEF IInv, TypeOK
<1> QED BY <1>2, <1>3, RowsBooks DEF IInv

(* DeleteContract.                                                          *)
LEMMA DeleteContractKeeps ==
    ASSUME IInv, NEW c \in Contracts, DeleteContract(c)
    PROVE  IInv'
<1>1. /\ c \in mapped /\ mapped' = mapped \ {c} /\ good' = good \ {c}
      /\ pin' = [r \in Roots |-> IF pin[r] = c THEN NULL ELSE pin[r]]
      /\ UNCHANGED <<hostVars, place, local, known, renewedTo, owner, job>>
  BY DEF DeleteContract
<1>2. \A r \in Roots : pin[r] \in mapped \cup {NULL} /\ pin[r] \in Contracts \cup {NULL}
  BY DEF IInv, Books, PinsMapped, TypeOK
<1>3. pin' \in [Roots -> Contracts \cup {NULL}] /\ place' \in [Roots -> {"here", "away", "lost"}]
  BY <1>1, <1>2 DEF IInv, TypeOK
<1>4. Rows
  BY <1>1, <1>2, <1>3 DEF Rows
<1>5. ASSUME NEW u \in Workers, job[u].step = "free", NEW r \in Roots
      PROVE  /\ pin'[r] = job[u].contract => pin[r] = job[u].contract
             /\ restored = {} /\ place'[r] = "here" /\ pin'[r] = NULL /\ pin[r] # job[u].contract
                   => StoredBut(job[u].contract, r) \/ (place[r] = "here" /\ pin[r] = NULL)
  <2>1. job[u].contract \in known /\ job[u].contract # NULL
    BY <1>5, ConstantsAssumption DEF IInv, JobsOK, JobOK, LockHeld, TypeOK
  <2>2. restored = {} /\ pin[r] # NULL /\ pin[r] # job[u].contract => StoredBut(job[u].contract, r)
    BY <2>1, PinnedElsewhere
  <2> QED BY <1>1, <2>1, <2>2
<1> QED BY <1>1, <1>4, <1>5, RowsKeep

(* Sectors arrive and leave.                                                *)
LEMMA ArriveKeeps ==
    ASSUME IInv, NEW r \in Roots, Arrive(r) \/ \E p \in {"away", "lost"} : Leave(r, p)
    PROVE  IInv'
<1>1. PICK p \in {"here", "away", "lost"} : SetSector(r, p) /\ (p = "here" => r \in temp)
  BY DEF Arrive, Leave
<1>2. /\ place' = [place EXCEPT ![r] = p] /\ pin' = [pin EXCEPT ![r] = NULL]
      /\ UNCHANGED <<hostVars, local, known, renewedTo, good, mapped, owner, job>>
  BY <1>1 DEF SetSector
<1>3. \A s \in Roots : pin[s] \in mapped \cup {NULL}
  BY DEF IInv, Books, PinsMapped
<1>4. pin' \in [Roots -> Contracts \cup {NULL}] /\ place' \in [Roots -> {"here", "away", "lost"}]
  BY <1>2 DEF IInv, TypeOK
<1>5. \A s \in Roots : pin'[s] \in {pin[s], NULL}
  BY <1>2 DEF IInv, TypeOK
<1>6. Rows
  BY <1>2, <1>3, <1>4, <1>5 DEF Rows
<1>7. ASSUME NEW u \in Workers, job[u].step = "free", NEW s \in Roots
      PROVE  /\ pin'[s] = job[u].contract => pin[s] = job[u].contract
             /\ restored = {} /\ place'[s] = "here" /\ pin'[s] = NULL /\ pin[s] # job[u].contract
                   => StoredBut(job[u].contract, s) \/ (place[s] = "here" /\ pin[s] = NULL)
  <2>1. job[u].contract # NULL
    BY <1>7, ConstantsAssumption DEF IInv, JobsOK, JobOK, LockHeld, TypeOK
  <2>2. CASE s = r
    <3>1. place'[s] = "here" => s \in temp
      BY <1>1, <1>2, <2>2 DEF IInv, TypeOK
    <3> QED BY <1>5, <2>1, <3>1 DEF StoredBut
  <2>3. CASE s # r
    <3>1. place'[s] = place[s] /\ pin'[s] = pin[s]
      BY <1>2, <2>3 DEF IInv, TypeOK
    <3> QED BY <3>1
  <2> QED BY <2>2, <2>3
<1> QED BY <1>2, <1>6, <1>7, RowsKeep
-----------------------------------------------------------------------------
(***************************************************************************)
(* Forming and renewing contracts                                          *)
(***************************************************************************)

(* formContract: a new contract is empty.                                   *)
LEMMA FormContractKeeps ==
    ASSUME IInv, NEW w \in Workers, FormContract(w)
    PROVE  IInv'
<1>1. PICK n \in Contracts : /\ Unused(n) /\ known' = known \cup {n} /\ good' = good \cup {n}
                             /\ mapped' = mapped \cup {n}
  BY DEF FormContract
<1>2. UNCHANGED <<roots, rev, renewal, temp, restored, place, pin, local, renewedTo, owner, job>>
  BY DEF FormContract, hostVars, sectorRows
<1>3. n \notin known /\ renewal[n] = NULL /\ \A d \in Contracts : renewal[d] # n
  BY <1>1 DEF Unused, IInv, Books, UnknownAreNew
<1>4. Books'
  <2>1. PinsMapped' /\ PinnedIsStored' /\ RenewalsDiffer' /\ NeverAhead'
    BY <1>1, <1>2 DEF IInv, Books, PinsMapped, PinnedIsStored, RenewalsDiffer, NeverAhead
  <2>2. UnknownAreNew'
    BY <1>1, <1>2 DEF IInv, Books, UnknownAreNew
  <2>3. HealthyContractsStayGood'
    BY <1>1, <1>2 DEF IInv, Books, HealthyContractsStayGood
  <2>4. RenewalsPending'
    <3> SUFFICES ASSUME NEW d \in mapped \cup {n}, renewal[d] # NULL
                 PROVE  /\ renewal[d] \notin known \cup {n}
                        /\ renewal[d] \notin restored =>
                             \A r \in Roots : pin[r] = d => r \in Range(roots[renewal[d]])
      BY <1>1, <1>2 DEF RenewalsPending
    <3>1. d \in mapped /\ d \in Contracts
      BY <1>3 DEF IInv, TypeOK
    <3> QED BY <1>3, <3>1 DEF IInv, Books, RenewalsPending
  <2> QED BY <2>1, <2>2, <2>3, <2>4 DEF Books
<1>5. TypeOK'
  BY <1>1, <1>2 DEF IInv, TypeOK, At
<1>6. ASSUME NEW u \in Workers PROVE Untouched(job[u])
  <2>1. \A r : KeptBut(job[u].contract, r) = StoredBut(job[u].contract, r)
    BY <1>2 DEF KeptBut, StoredBut
  <2>2. job[u].step = "add" => job[u].new \notin known'
    BY <1>1, <1>3 DEF IInv, JobsOK, JobOK, RenewalHeld, LockHeld, TypeOK
  <2> QED BY <1>2, <2>1, <2>2 DEF Untouched
<1>7. JobsOK'
  BY <1>1, <1>2, <1>6, JobsSame DEF IInv
<1> QED BY <1>4, <1>5, <1>7 DEF IInv

(* The host has renewed contract c to n, with its sectors.                  *)
Renewed(c, n) ==
    /\ c \in known /\ n \in Contracts /\ renewal[c] = NULL /\ Unused(n)
    /\ renewal' = [renewal EXCEPT ![c] = n] /\ roots' = [roots EXCEPT ![n] = roots[c]]
    /\ restored' = IF c \in restored THEN restored \cup {n} ELSE restored
    /\ UNCHANGED <<rev, temp, dbVars>>

(* The books stay right; the renewal is not in the database, and not        *)
(* renewed in turn.                                                         *)
LEMMA RenewedBooks ==
    ASSUME IInv, NEW c, NEW n, Renewed(c, n)
    PROVE  /\ Books'
           /\ JobsTyped' /\ owner' \in [Contracts -> Workers \cup {NULL}] => TypeOK'
           /\ known' = known /\ restored \subseteq restored' /\ c \in Contracts
           /\ n \notin known /\ n # c /\ renewal'[c] = n /\ renewal'[n] = NULL
           /\ roots[n] = <<>> /\ roots'[n] = roots[c]
           /\ \A d \in Contracts \ {c} : renewal'[d] = renewal[d]
           /\ \A d \in Contracts \ {n} : roots'[d] = roots[d]
<1>1. UNCHANGED <<rev, temp, place, pin, local, known, renewedTo, good, mapped>>
  BY DEF Renewed, dbVars, sectorRows
<1>2. /\ n \notin known /\ n \in Contracts /\ (\A d \in Contracts : renewal[d] # n)
      /\ renewal[n] = NULL /\ roots[n] = <<>> /\ n # c /\ c \in Contracts
  BY DEF Renewed, Unused, IInv, Books, UnknownAreNew, TypeOK
<1>3. /\ renewal'[c] = n /\ renewal'[n] = NULL /\ roots'[n] = roots[c]
      /\ \A d \in Contracts \ {c} : renewal'[d] = renewal[d]
      /\ \A d \in Contracts \ {n} : roots'[d] = roots[d]
  BY <1>2 DEF Renewed, IInv, TypeOK
<1>4. restored \subseteq restored' /\ restored' \subseteq Contracts /\ (c \in restored => n \in restored')
  BY <1>2 DEF Renewed, IInv, TypeOK
<1>5. PinsMapped' /\ HealthyContractsStayGood' /\ NeverAhead'
  BY <1>1, <1>4 DEF IInv, Books, PinsMapped, HealthyContractsStayGood, NeverAhead
<1>6. PinnedIsStored'
  <2> SUFFICES ASSUME NEW r \in Roots, pin[r] # NULL, pin[r] \notin restored'
               PROVE  r \in Range(roots'[pin[r]])
    BY <1>1 DEF PinnedIsStored
  <2>1. pin[r] \in mapped /\ pin[r] \in known /\ pin[r] \in Contracts
    BY DEF IInv, Books, PinsMapped, TypeOK
  <2>2. r \in Range(roots[pin[r]])
    BY <1>4 DEF IInv, Books, PinnedIsStored
  <2> QED BY <1>2, <1>3, <2>1, <2>2
<1>7. RenewalsPending'
  <2> SUFFICES ASSUME NEW d \in mapped, renewal'[d] # NULL
               PROVE  /\ renewal'[d] \notin known
                      /\ renewal'[d] \notin restored' =>
                           \A r \in Roots : pin[r] = d => r \in Range(roots'[renewal'[d]])
    BY <1>1 DEF RenewalsPending
  <2>1. d \in Contracts /\ d # NULL
    BY ConstantsAssumption DEF IInv, TypeOK
  <2>2. CASE d = c
    <3>1. n \notin restored' => c \notin restored
      BY <1>4
    <3>2. c \notin restored => \A r \in Roots : pin[r] = c => r \in Range(roots[c])
      BY <2>1, <2>2 DEF IInv, Books, PinnedIsStored
    <3> QED BY <1>2, <1>3, <2>2, <3>1, <3>2
  <2>3. CASE d # c
    <3>1. renewal'[d] = renewal[d] /\ renewal[d] # n /\ renewal[d] \in Contracts
      BY <1>2, <1>3, <2>1, <2>3 DEF IInv, TypeOK
    <3>2. roots'[renewal[d]] = roots[renewal[d]]
      BY <1>3, <3>1
    <3> QED BY <1>4, <3>1, <3>2 DEF IInv, Books, RenewalsPending
  <2> QED BY <2>2, <2>3
<1>8. RenewalsDiffer'
  BY <1>2, <1>3 DEF IInv, Books, RenewalsDiffer
<1>9. UnknownAreNew'
  <2> SUFFICES ASSUME NEW e \in Contracts \ known
               PROVE  /\ renewal'[e] = NULL
                      /\ (\A d \in Contracts : renewal'[d] # e) => roots'[e] = <<>>
    BY <1>1 DEF UnknownAreNew
  <2>1. e # c /\ e # NULL
    BY ConstantsAssumption DEF Renewed
  <2>2. renewal[e] = NULL /\ ((\A d \in Contracts : renewal[d] # e) => roots[e] = <<>>)
    BY DEF IInv, Books, UnknownAreNew
  <2>3. renewal[c] = NULL
    BY DEF Renewed
  <2> QED BY <1>2, <1>3, <2>1, <2>2, <2>3
<1>10. JobsTyped' /\ owner' \in [Contracts -> Workers \cup {NULL}] => TypeOK'
  <2>1. /\ renewal' \in [Contracts -> Contracts \cup {NULL}]
        /\ roots' \in [Contracts -> BoundedSeq(Roots, MaxLen)]
    BY <1>2 DEF Renewed, IInv, TypeOK
  <2> QED BY <1>1, <1>4, <2>1 DEF IInv, TypeOK, JobsTyped
<1> QED BY <1>1, <1>2, <1>3, <1>4, <1>5, <1>6, <1>7, <1>8, <1>9, <1>10 DEF Books

(* What the old contract had the host still has.                            *)
LEMMA RenewedOthers ==
    ASSUME IInv, NEW w \in Workers, NEW c, NEW n, Renewed(c, n), owner[c] = w,
           job[w].contract = c, NEW u \in Workers \ {w},
           Locked(job[u]) => owner'[job[u].contract] = owner[job[u].contract]
    PROVE  Untouched(job[u])
<1> DEFINE y == job[u]
<1>1. UNCHANGED <<rev, temp, place, pin, local, known>>
  BY DEF Renewed, dbVars, sectorRows
<1>2. y \in Jobs /\ JobOK(u, y)
  BY DEF IInv, TypeOK, JobsOK
<1>3. /\ n \in Contracts /\ n \notin known /\ n # c /\ renewal'[c] = n /\ renewal'[n] = NULL
      /\ c \in Contracts
      /\ roots[n] = <<>> /\ roots'[n] = roots[c] /\ restored \subseteq restored'
      /\ \A d \in Contracts \ {c} : renewal'[d] = renewal[d]
      /\ \A d \in Contracts \ {n} : roots'[d] = roots[d]
  BY RenewedBooks, ZenonT(60) DEF Renewed
<1>4. ASSUME Locked(y)
      PROVE  /\ roots'[y.contract] = roots[y.contract] /\ renewal'[y.contract] = renewal[y.contract]
             /\ y.contract # n
  <2>1. y.contract # c
    BY <1>4, OwnContracts DEF IInv
  <2>2. y.contract \in known /\ y.contract \in Contracts
    BY <1>2, <1>4 DEF JobOK, LockHeld, Locked, IInv, TypeOK
  <2> QED BY <1>3, <2>1, <2>2
<1>5. y.step = "add" => y.new \notin known'
  BY <1>1, <1>2 DEF JobOK, RenewalHeld
<1>6. ASSUME y.step = "free", NEW r, StoredBut(y.contract, r) PROVE KeptBut(y.contract, r)
  <2>1. y.contract # n
    BY <1>4, <1>6 DEF Locked
  <2>2. CASE r \in temp
    BY <1>1, <2>2 DEF KeptBut
  <2>3. ASSUME NEW d \in Contracts \ {y.contract}, renewal[d] = NULL, r \in Range(roots[d])
        PROVE  KeptBut(y.contract, r)
    <3>1. CASE d = c
      BY <1>3, <2>1, <2>3, <3>1 DEF KeptBut
    <3>2. CASE d = n
      BY <1>3, <2>3, <3>2 DEF Range
    <3>3. CASE d # c /\ d # n
      BY <1>3, <2>3, <3>3 DEF KeptBut
    <3> QED BY <3>1, <3>2, <3>3
  <2> QED BY <1>6, <2>2, <2>3 DEF StoredBut
<1> QED BY <1>1, <1>4, <1>5, <1>6 DEF Untouched

(* renewContract and refreshContract: the answer arrives, or is lost and    *)
(* the renewal is never heard of again.                                     *)
LEMMA RenewContractKeeps ==
    ASSUME IInv, NEW w \in Workers, RenewContract(w)
    PROVE  IInv'
<1> DEFINE y == job[w]
<1>1. MayCall(w, "renew", "revise")
  BY DEF RenewContract
<1>2. /\ y \in Jobs /\ y.op = "renew" /\ y.step = "revise" /\ Locked(y)
      /\ JobOK(w, y) /\ y.contract \in known /\ y.contract \in Contracts
      /\ y.left \subseteq known /\ HostAccepts(y.contract)
  BY <1>1, Calling
<1>3. PICK c \in known : c = y.contract
  BY <1>2
<1>4. owner[c] = w
  BY <1>2, <1>3 DEF JobOK, LockHeld
<1>5. PICK n \in Contracts :
         /\ Unused(n) /\ renewal' = [renewal EXCEPT ![c] = n]
         /\ roots' = [roots EXCEPT ![n] = roots[c]]
         /\ restored' = IF c \in restored THEN restored \cup {n} ELSE restored
         /\ \/ job' = [job EXCEPT ![w].step = "add", ![w].new = n] /\ UNCHANGED owner
            \/ Fail(w)
  BY <1>3 DEF RenewContract
<1>6. Renewed(c, n)
  BY <1>2, <1>3, <1>5 DEF Renewed, RenewContract, HostAccepts
<1>7. CASE Fail(w)
  <2>1. Ended(w)
    BY <1>7, Ends DEF IInv
  <2>2. \A u \in Workers \ {w} : Untouched(job[u])
    BY <1>3, <1>4, <1>6, <2>1, RenewedOthers DEF Ended
  <2>3. JobsOK' /\ JobsTyped'
    BY <1>6, <2>1, <2>2, RenewedBooks, EndedJobs DEF IInv
  <2> QED BY <1>6, <2>1, <2>3, RenewedBooks DEF IInv, Ended
<1>8. CASE job' = [job EXCEPT ![w].step = "add", ![w].new = n] /\ owner' = owner
  <2>1. PICK x : x = [y EXCEPT !.step = "add", !.new = n]
    OBVIOUS
  <2>2. /\ x \in Jobs /\ x.op = "renew" /\ x.step = "add" /\ x.contract = c /\ x.left = y.left
        /\ x.new = n
    BY <1>2, <1>3, <2>1 DEF Jobs
  <2>3. job' = [job EXCEPT ![w] = x]
    BY <1>2, <1>8, <2>1 DEF IInv, TypeOK, Jobs
  <2>4. \A u \in Workers \ {w} : Untouched(job[u])
    BY <1>3, <1>4, <1>6, <1>8, RenewedOthers
  <2>5. known' = known /\ n \notin known /\ renewal'[c] = n
    BY <1>6, RenewedBooks
  <2>6. JobOK(w, x)'
    <3>1. Scripted(w, x)' /\ LockHeld(w, x)'
      BY <1>2, <1>4, <1>8, <2>2, <2>5 DEF JobOK, Scripted, LockHeld
    <3>2. RenewalHeld(x)'
      BY <2>2, <2>5 DEF RenewalHeld
    <3> QED BY <2>2, <3>1, <3>2 DEF JobOK, RevisionHeld, AppendedHeld, BatchHeld, FreeHeld
  <2>7. JobsOK' /\ JobsTyped'
    BY <1>6, <2>2, <2>3, <2>4, <2>6, RenewedBooks, JobsStep, JobsTypedStep DEF IInv
  <2>8. owner' \in [Contracts -> Workers \cup {NULL}]
    BY <1>8 DEF IInv, TypeOK
  <2> QED BY <1>6, <2>7, <2>8, RenewedBooks DEF IInv
<1> QED BY <1>5, <1>7, <1>8
(* AddRenewedContract moves the pins to the renewal, which has the sectors. *)
LEMMA AddRenewedContractKeeps ==
    ASSUME IInv, NEW w \in Workers, AddRenewedContract(w)
    PROVE  IInv'
<1> DEFINE y == job[w]
<1>1. y.op = "renew" /\ y.step = "add" /\ UNCHANGED <<hostVars, place>> /\ Return(w)
  BY DEF AddRenewedContract, At
<1>2. /\ y \in Jobs /\ JobOK(w, y) /\ y.contract \in known /\ y.contract \in Contracts
      /\ w = "renewal"
  BY <1>1 DEF IInv, TypeOK, JobsOK, JobOK, LockHeld, Scripted
<1>3. PICK c \in known : c = y.contract
  BY <1>2
<1>4. PICK n \in Contracts \ known : n = y.new /\ renewal[c] = n
  BY <1>1, <1>2, <1>3 DEF JobOK, RenewalHeld
<1>5. Ended(w)
  BY <1>1, Ends DEF IInv
<1>6. UNCHANGED <<roots, rev, renewal, temp, restored, place>>
  BY <1>1 DEF hostVars
<1>7. CASE UNCHANGED <<known, good, renewedTo, mapped, local, pin>>
  BY <1>1, <1>5, <1>7, QuietEnd DEF dbVars, sectorRows
<1>8. CASE /\ c \in mapped /\ known' = known \cup {n} /\ good' = good \cup {n}
           /\ renewedTo' = [renewedTo EXCEPT ![c] = n]
           /\ mapped' = (mapped \ {c}) \cup {n}
           /\ local' = [local EXCEPT ![n] = [num |-> 0, len |-> Len(roots[n])]]
           /\ pin' = [r \in Roots |-> IF pin[r] = c THEN n ELSE pin[r]]
  <2>1. n # NULL /\ c # NULL /\ n # c /\ c \in Contracts /\ n \notin mapped /\ renewal[n] = NULL
    BY <1>2, <1>3, <1>4, ConstantsAssumption DEF IInv, TypeOK, Books, UnknownAreNew
  <2>2. \A r \in Roots : pin[r] \in mapped \cup {NULL} /\ pin[r] # n
    BY <2>1 DEF IInv, Books, PinsMapped
  <2>3. ASSUME NEW r \in Roots
        PROVE  pin'[r] = (IF pin[r] = c THEN n ELSE pin[r]) /\ (pin'[r] = n <=> pin[r] = c)
    BY <1>8, <2>2
  <2>4. PinsMapped'
    BY <1>8, <2>2, <2>3 DEF PinsMapped
  <2>5. PinnedIsStored'
    <3> SUFFICES ASSUME NEW r \in Roots, pin'[r] # NULL, pin'[r] \notin restored
                 PROVE  r \in Range(roots[pin'[r]])
      BY <1>6 DEF PinnedIsStored
    <3>1. CASE pin[r] = c
      BY <1>4, <1>8, <2>1, <2>3, <3>1 DEF IInv, Books, RenewalsPending
    <3>2. CASE pin[r] # c
      BY <2>3, <3>2 DEF IInv, Books, PinnedIsStored
    <3> QED BY <3>1, <3>2
  <2>6. RenewalsPending'
    <3> SUFFICES ASSUME NEW d \in (mapped \ {c}) \cup {n}, renewal[d] # NULL
                 PROVE  /\ renewal[d] \notin known \cup {n}
                        /\ renewal[d] \notin restored =>
                             \A r \in Roots : pin'[r] = d => r \in Range(roots[renewal[d]])
      BY <1>6, <1>8 DEF RenewalsPending
    <3>1. d \in mapped /\ d # c /\ d \in Contracts
      BY <2>1 DEF IInv, TypeOK
    <3>2. renewal[d] # n
      BY <1>4, <2>1, <3>1 DEF IInv, Books, RenewalsDiffer
    <3>3. \A r \in Roots : pin'[r] = d => pin[r] = d
      BY <2>1, <2>3, <3>1
    <3> QED BY <3>1, <3>2, <3>3 DEF IInv, Books, RenewalsPending
  <2>7. RenewalsDiffer'
    BY <1>6 DEF IInv, Books, RenewalsDiffer
  <2>8. UnknownAreNew'
    BY <1>6, <1>8 DEF IInv, Books, UnknownAreNew
  <2>9. HealthyContractsStayGood'
    BY <1>6, <1>8 DEF IInv, Books, HealthyContractsStayGood
  <2>10. Len(roots[n]) \in 0..MaxLen
    BY RootsOf, ConstantsAssumption DEF IInv
  <2>11. [num |-> 0, len |-> Len(roots[n])] \in Revisions
    BY <2>10, ConstantsAssumption DEF Revisions
  <2>12. /\ local' \in [Contracts -> Revisions] /\ local'[n].num = 0
         /\ \A d \in Contracts \ {n} : local'[d] = local[d]
    BY <1>4, <1>8, <2>11 DEF IInv, TypeOK
  <2>13. NeverAhead'
    <3> SUFFICES ASSUME NEW d \in Contracts \ restored PROVE local'[d].num <= rev[d]
      BY <1>6 DEF NeverAhead
    <3>1. rev[d] \in 0..MaxRev
      BY DEF IInv, TypeOK
    <3>2. rev[d] >= 0
      BY <3>1, ConstantsAssumption
    <3>3. CASE d = n
      BY <2>12, <3>2, <3>3
    <3>4. CASE d # n
      BY <2>12, <3>4 DEF IInv, Books, NeverAhead
    <3> QED BY <3>3, <3>4
  <2>14. Books'
    BY <2>4, <2>5, <2>6, <2>7, <2>8, <2>9, <2>13 DEF Books
  <2>15. ASSUME NEW u \in Workers \ {w} PROVE Untouched(job[u])
    <3>1. JobOK(u, job[u])
      BY DEF IInv, JobsOK
    <3>2. job[u].step # "add"
      BY <1>2, <3>1 DEF JobOK, Scripted
    <3>3. Locked(job[u]) => /\ owner'[job[u].contract] = owner[job[u].contract]
                            /\ local'[job[u].contract] = local[job[u].contract]
      BY <1>4, <1>5, <2>12, <3>1 DEF Ended, JobOK, LockHeld, Locked, IInv, TypeOK
    <3>4. \A r : KeptBut(job[u].contract, r) = StoredBut(job[u].contract, r)
      BY <1>6 DEF KeptBut, StoredBut
    <3>5. job[u].step = "free" => job[u].contract \in known
      BY <3>1 DEF JobOK, LockHeld
    <3>6. job[u].step = "free" =>
            \A r \in Roots : /\ pin'[r] = job[u].contract => pin[r] = job[u].contract
                             /\ pin'[r] = NULL => pin[r] = NULL
      BY <1>4, <2>1, <2>3, <3>5
    <3> QED BY <1>6, <3>2, <3>3, <3>4, <3>6 DEF Untouched
  <2>16. JobsOK' /\ JobsTyped'
    BY <1>5, <1>6, <1>8, <2>15, EndedJobs DEF IInv
  <2>17. TypeOK'
    <3>1. pin' \in [Roots -> Contracts \cup {NULL}] /\ renewedTo' \in [Contracts -> Contracts \cup {NULL}]
      BY <1>4, <1>8 DEF IInv, TypeOK
    <3>2. known' \subseteq Contracts /\ good' \subseteq known' /\ mapped' \subseteq known'
      BY <1>4, <1>8 DEF IInv, TypeOK
    <3> QED BY <1>5, <1>6, <2>12, <2>16, <3>1, <3>2 DEF IInv, TypeOK, JobsTyped, Ended
  <2> QED BY <2>14, <2>16, <2>17 DEF IInv
<1> QED BY <1>3, <1>4, <1>7, <1>8 DEF AddRenewedContract
-----------------------------------------------------------------------------
(***************************************************************************)
(* The host's own steps, and crashes                                       *)
(***************************************************************************)

(* Temporary storage begins, and ends while nothing is being freed.         *)
LEMMA TempKeeps ==
    ASSUME IInv, NEW r \in Roots, Upload(r) \/ Expire(r)
    PROVE  IInv'
<1>1. /\ UNCHANGED <<roots, rev, renewal, restored, dbVars, owner, job>> /\ temp' \subseteq Roots
      /\ temp \subseteq temp' \/ \A w \in Workers : ~At(w, "prune", "free")
  BY DEF Upload, Expire, IInv, TypeOK
<1>2. UNCHANGED <<place, pin, local, known, renewedTo, good, mapped>>
  BY <1>1 DEF dbVars, sectorRows
<1>3. Books'
  BY <1>1, <1>2 DEF IInv, Books, PinsMapped, PinnedIsStored, RenewalsPending, RenewalsDiffer,
     UnknownAreNew, NeverAhead, HealthyContractsStayGood
<1>4. TypeOK'
  BY <1>1, <1>2 DEF IInv, TypeOK, At
<1>5. ASSUME NEW u \in Workers PROVE Untouched(job[u])
  <2>1. JobOK(u, job[u])
    BY DEF IInv, JobsOK
  <2>2. job[u].step = "free" => \A s : StoredBut(job[u].contract, s) => KeptBut(job[u].contract, s)
    BY <1>1, <2>1 DEF JobOK, Scripted, At, StoredBut, KeptBut
  <2>3. job[u].step = "add" => job[u].new \notin known'
    BY <1>2, <2>1 DEF JobOK, RenewalHeld
  <2> QED BY <1>1, <1>2, <2>2, <2>3 DEF Untouched
<1>6. JobsOK'
  BY <1>1, <1>2, <1>5, JobsSame DEF IInv
<1> QED BY <1>3, <1>4, <1>6 DEF IInv

(* The host falls back: nothing is claimed about that contract from then on.*)
LEMMA RestoreKeeps ==
    ASSUME IInv, NEW c \in Contracts, Restore(c)
    PROVE  IInv'
<1>1. PICK n \in 0..Len(roots[c]) : roots' = [roots EXCEPT ![c] = SubSeq(@, 1, n)]
  BY DEF Restore
<1>2. /\ rev[c] > 0 /\ restored = {} /\ rev' = [rev EXCEPT ![c] = @ - 1] /\ restored' = {c}
      /\ UNCHANGED <<renewal, temp, dbVars, owner, job>>
  BY DEF Restore
<1>3. UNCHANGED <<place, pin, local, known, renewedTo, good, mapped>>
  BY <1>2 DEF dbVars, sectorRows
<1>4. /\ roots[c] \in Seq(Roots) /\ Len(roots[c]) \in Nat /\ Len(roots[c]) <= MaxLen
      /\ DOMAIN roots[c] = 1..Len(roots[c]) /\ \A i \in 1..Len(roots[c]) : roots[c][i] \in Roots
  BY RootsOf DEF IInv
<1>5. PICK q : q = SubSeq(roots[c], 1, n)
  OBVIOUS
<1>6. q \in Seq(Roots) /\ Len(q) = n
  <2>1. \A i \in 1..n : roots[c][i] \in Roots
    BY <1>4
  <2>2. q \in Seq(Roots) /\ Len(q) = IF 1 <= n THEN n - 1 + 1 ELSE 0
    BY <1>4, <1>5, <2>1, SubSeqProperties
  <2> QED BY <1>4, <2>2
<1>7. q \in BoundedSeq(Roots, MaxLen)
  BY <1>4, <1>6, Bounded, ConstantsAssumption
<1>8. roots' = [roots EXCEPT ![c] = q]
  BY <1>1, <1>5
<1>9. \A d \in Contracts \ {c} : roots'[d] = roots[d] /\ rev'[d] = rev[d]
  BY <1>2, <1>8 DEF IInv, TypeOK
<1>10. TypeOK'
  <2>1. rev[c] \in 0..MaxRev /\ rev[c] - 1 \in 0..MaxRev
    BY <1>2, ConstantsAssumption DEF IInv, TypeOK
  <2>2. rev' \in [Contracts -> 0..MaxRev] /\ roots' \in [Contracts -> BoundedSeq(Roots, MaxLen)]
    BY <1>2, <1>7, <1>8, <2>1 DEF IInv, TypeOK
  <2> QED BY <1>2, <1>3, <2>2 DEF IInv, TypeOK, At
<1>11. Books'
  <2>1. PinsMapped' /\ RenewalsDiffer' /\ HealthyContractsStayGood'
    BY <1>2, <1>3 DEF IInv, Books, PinsMapped, RenewalsDiffer, HealthyContractsStayGood
  <2>2. NeverAhead'
    BY <1>2, <1>3, <1>9 DEF IInv, Books, NeverAhead
  <2>3. PinnedIsStored'
    <3> SUFFICES ASSUME NEW r \in Roots, pin[r] # NULL, pin[r] # c
                 PROVE  r \in Range(roots'[pin[r]])
      BY <1>2, <1>3 DEF PinnedIsStored
    <3>1. pin[r] \in Contracts /\ r \in Range(roots[pin[r]])
      BY <1>2 DEF IInv, TypeOK, Books, PinnedIsStored
    <3> QED BY <1>9, <3>1
  <2>4. RenewalsPending'
    <3> SUFFICES ASSUME NEW d \in mapped, renewal[d] # NULL
                 PROVE  /\ renewal[d] \notin known
                        /\ renewal[d] # c =>
                             \A r \in Roots : pin[r] = d => r \in Range(roots'[renewal[d]])
      BY <1>2, <1>3 DEF RenewalsPending
    <3>1. renewal[d] \in Contracts
      BY DEF IInv, TypeOK
    <3>2. /\ renewal[d] \notin known
          /\ \A r \in Roots : pin[r] = d => r \in Range(roots[renewal[d]])
      BY <1>2 DEF IInv, Books, RenewalsPending
    <3> QED BY <1>9, <3>1, <3>2
  <2>5. UnknownAreNew'
    <3> SUFFICES ASSUME NEW e \in Contracts \ known
                 PROVE  /\ renewal[e] = NULL
                        /\ (\A d \in Contracts : renewal[d] # e) => roots'[e] = <<>>
      BY <1>2, <1>3 DEF UnknownAreNew
    <3>1. renewal[e] = NULL /\ ((\A d \in Contracts : renewal[d] # e) => roots[e] = <<>>)
      BY DEF IInv, Books, UnknownAreNew
    <3>2. CASE e # c
      BY <1>9, <3>1, <3>2
    <3>3. CASE e = c
      <4>1. ASSUME roots[c] = <<>> PROVE roots'[c] = <<>>
        <5>1. Len(roots[c]) = 0
          BY <4>1
        <5>2. n = 0
          BY <5>1
        <5>3. q = <<>>
          BY <1>6, <5>2
        <5> QED BY <1>8, <5>3 DEF IInv, TypeOK
      <4> QED BY <3>1, <3>3, <4>1
    <3> QED BY <3>2, <3>3
  <2> QED BY <2>1, <2>2, <2>3, <2>4, <2>5 DEF Books
<1>12. ASSUME NEW u \in Workers PROVE Untouched(job[u])
  <2>1. JobOK(u, job[u])
    BY DEF IInv, JobsOK
  <2>2. Locked(job[u]) => job[u].contract \in Contracts
    BY <2>1 DEF JobOK, LockHeld, Locked, IInv, TypeOK
  <2>3. job[u].step = "add" => job[u].new \notin known'
    BY <1>3, <2>1 DEF JobOK, RenewalHeld
  <2> QED BY <1>2, <1>3, <1>9, <2>2, <2>3 DEF Untouched
<1>13. JobsOK'
  BY <1>2, <1>3, <1>12, JobsSame DEF IInv
<1> QED BY <1>10, <1>11, <1>13 DEF IInv

(* The process stops.                                                       *)
LEMMA CrashKeeps ==
    ASSUME IInv, Crash
    PROVE  IInv'
<1>1. /\ job' = [w \in Workers |-> Idle] /\ owner' = [c \in Contracts |-> NULL]
      /\ UNCHANGED <<hostVars, dbVars>>
  BY DEF Crash
<1>2. JobsTyped' /\ owner' \in [Contracts -> Workers \cup {NULL}]
  BY <1>1, IdleType DEF JobsTyped, At
<1>3. ASSUME NEW w \in Workers PROVE JobOK(w, job[w])'
  <2>1. PICK x : x = Idle
    OBVIOUS
  <2>2. Fresh(w, x)
    BY <2>1, IdleType DEF Fresh, Scripted, Idle
  <2>3. JobOK(w, x)'
    BY <1>1, <2>2, FreshOK, SameBooks
  <2> QED BY <1>1, <2>1, <2>3
<1> QED BY <1>1, <1>2, <1>3, SameBooks DEF IInv, JobsOK
-----------------------------------------------------------------------------
(***************************************************************************)
(* The theorems                                                            *)
(***************************************************************************)

(* To begin with nothing is stored, pinned or under way.                    *)
LEMMA InitHolds == Init => IInv
<1> SUFFICES ASSUME Init PROVE IInv
  OBVIOUS
<1>1. <<>> \in BoundedSeq(Roots, MaxLen)
  BY IdleType DEF Idle, Jobs
<1>2. TypeOK
  <2>1. local \in [Contracts -> Revisions] /\ rev \in [Contracts -> 0..MaxRev]
    BY ConstantsAssumption DEF Init, Revisions
  <2>2. job \in [Workers -> Jobs] /\ \A w \in Workers : ~At(w, "prune", "revise")
    BY IdleType DEF Init, At
  <2> QED BY <1>1, <2>1, <2>2, ConstantsAssumption DEF Init, TypeOK
<1>3. ASSUME NEW w \in Workers PROVE JobOK(w, job[w])
  <2>1. job[w] = Idle /\ Idle.op = "idle" /\ Idle.step = "idle"
    BY IdleType DEF Init
  <2> QED BY <2>1 DEF JobOK, Scripted, LockHeld, RevisionHeld, AppendedHeld, BatchHeld, FreeHeld,
             RenewalHeld
<1>4. Books
  BY ConstantsAssumption DEF Init, Books, PinsMapped, PinnedIsStored, RenewalsPending,
     RenewalsDiffer, UnknownAreNew, NeverAhead, HealthyContractsStayGood
<1> QED BY <1>2, <1>3, <1>4 DEF IInv, JobsOK

(* Nothing happens.                                                         *)
LEMMA StutterKeeps ==
    ASSUME IInv, UNCHANGED vars
    PROVE  IInv'
<1>1. UNCHANGED <<hostVars, dbVars>> /\ job' = job /\ owner' = owner
  BY DEF vars
<1>2. \A u \in Workers : Untouched(job[u])
  BY <1>1, SameBooks DEF IInv, JobsOK, JobOK
<1>3. JobsOK' /\ JobsTyped'
  BY <1>1, <1>2, SameBooks, JobsSame DEF IInv
<1>4. owner' \in [Contracts -> Workers \cup {NULL}]
  BY <1>1 DEF IInv, TypeOK
<1> QED BY <1>1, <1>3, <1>4, SameBooks DEF IInv

(* Every step keeps the invariant.                                          *)
LEMMA NextKeeps == IInv /\ [Next]_vars => IInv'
<1> SUFFICES ASSUME IInv, [Next]_vars PROVE IInv'
  OBVIOUS
<1>1. ASSUME NEW w \in Workers,
             \/ StartPin(w) \/ StartPrune(w) \/ StartRenew(w) \/ StartFund(w)
             \/ FormContract(w)
             \/ LockContract(w) \/ GiveUp(w) \/ SyncRevision(w) \/ UpdateContractRevision(w)
             \/ AppendSectors(w) \/ ReportMissing(w) \/ PinSectors(w)
             \/ OpenContract(w) \/ SectorRoots(w) \/ CompareRoots(w) \/ FreeSectors(w)
             \/ RenewContract(w) \/ AddRenewedContract(w) \/ ReplenishAccounts(w)
      PROVE  IInv'
  BY <1>1, StartsKeep, StartFundKeeps, FormContractKeeps, LockContractKeeps, GiveUpKeeps,
     SyncRevisionKeeps, UpdateContractRevisionKeeps, AppendSectorsKeeps, ReportMissingKeeps,
     PinSectorsKeeps, OpenContractKeeps, SectorRootsKeeps, CompareRootsKeeps, FreeSectorsKeeps,
     RenewContractKeeps, AddRenewedContractKeeps, ReplenishAccountsKeeps
<1>2. ASSUME NEW r \in Roots, \/ Upload(r) \/ Arrive(r) \/ Expire(r)
                              \/ \E p \in {"away", "lost"} : Leave(r, p)
      PROVE  IInv'
  BY <1>2, TempKeeps, ArriveKeeps
<1>3. ASSUME NEW c \in Contracts, DeleteContract(c) \/ Restore(c) PROVE IInv'
  BY <1>3, DeleteContractKeeps, RestoreKeeps
<1>4. CASE Crash
  BY <1>4, CrashKeeps
<1>5. CASE UNCHANGED vars
  BY <1>5, StutterKeeps
<1> QED BY <1>1, <1>2, <1>3, <1>4, <1>5 DEF Next

(* The invariant behind the other theorems: who holds which lock, what each *)
(* call may still count on, and how the books of the host and of the        *)
(* database relate.                                                         *)
THEOREM Invariance == Spec => []IInv
BY InitHolds, NextKeeps, PTL DEF Spec

(* Every variable has its type, and pruneContract never asks the host for a *)
(* batch that starts at or beyond the end.                                  *)
THEOREM TypeCorrect == Spec => []TypeOK
<1>1. IInv => TypeOK
  BY DEF IInv
<1> QED BY <1>1, Invariance, PTL

(* What the database says is pinned to a contract is in that contract on    *)
(* the host, for any interleaving of pinning, pruning, renewing and         *)
(* funding, any lost answer and any crash.                                  *)
THEOREM PinsAreStored == Spec => []PinnedIsStored
<1>1. IInv => PinnedIsStored
  BY DEF IInv, Books
<1> QED BY <1>1, Invariance, PTL

(* The revision that WithRevision stores at its end is the host's and is    *)
(* newer than the one in the database: UpdateContractRevision refuses none. *)
THEOREM RevisionsAreCurrent == Spec => []SavedRevisionIsCurrent
<1>1. IInv => SavedRevisionIsCurrent
  BY DEF IInv, JobsOK, JobOK, RevisionHeld, SavedRevisionIsCurrent
<1> QED BY <1>1, Invariance, PTL

(* syncRevision takes only contracts of a host that fell back for bad.      *)
THEOREM OnlyFallbackTurnsBad == Spec => []HealthyContractsStayGood
<1>1. IInv => HealthyContractsStayGood
  BY DEF IInv, Books
<1> QED BY <1>1, Invariance, PTL

(* What it means that the host stores a sector.                             *)
LEMMA StoredMeans ==
    ASSUME NEW r
    PROVE  r \in Stored <=> r \in temp \/ \E d \in Contracts : renewal[d] = NULL /\ r \in Range(roots[d])
BY DEF Stored

(* And after the step.                                                      *)
LEMMA StoredMeansNext ==
    ASSUME NEW r
    PROVE  r \in Stored' <=>
              r \in temp' \/ \E d \in Contracts : renewal'[d] = NULL /\ r \in Range(roots'[d])
BY DEF Stored

(* One step of PruneKeepsStored.                                            *)
LEMMA StoredStep ==
    ASSUME IInv, [Next]_vars, restored' = {}, temp' = temp, NEW r \in Roots, place[r] = "here",
           r \in Stored
    PROVE  r \in Stored'
<1>1. CASE UNCHANGED <<roots, renewal>>
  BY <1>1, StoredMeans, StoredMeansNext
<1>2. ASSUME NEW c \in Contracts, NEW q, roots' = [roots EXCEPT ![c] = q], renewal' = renewal,
             r \in Range(roots[c]) => r \in Range(q) \/ StoredBut(c, r)
      PROVE  r \in Stored'
  <2>1. roots'[c] = q /\ \A d \in Contracts \ {c} : roots'[d] = roots[d]
    BY <1>2 DEF IInv, TypeOK
  <2>2. StoredBut(c, r) => r \in Stored'
    BY <1>2, <2>1, StoredMeansNext DEF StoredBut
  <2>3. CASE r \in temp
    BY <2>3, StoredMeansNext
  <2>4. ASSUME NEW d \in Contracts, renewal[d] = NULL, r \in Range(roots[d]) PROVE r \in Stored'
    <3>1. CASE d # c
      BY <2>2, <2>4, <3>1 DEF StoredBut
    <3>2. CASE d = c
      BY <1>2, <2>1, <2>2, <2>4, <3>2, StoredMeansNext
    <3> QED BY <3>1, <3>2
  <2> QED BY <2>3, <2>4, StoredMeans
<1>3. ASSUME NEW w \in Workers, ReplenishAccounts(w) \/ SectorRoots(w) PROVE r \in Stored'
  <2>1. PICK c : c = job[w].contract
    OBVIOUS
  <2>2. MayCall(w, "fund", "revise") \/ MayCall(w, "prune", "revise")
    BY <1>3 DEF ReplenishAccounts, SectorRoots
  <2>3. c \in Contracts
    BY <2>1, <2>2, Calling
  <2>4. roots' = [roots EXCEPT ![c] = roots[c]] /\ renewal' = renewal
    BY <1>3, <2>1 DEF ReplenishAccounts, SectorRoots, Revise
  <2> QED BY <1>1, <2>3, <2>4 DEF IInv, TypeOK
<1>4. ASSUME NEW w \in Workers, AppendSectors(w) PROVE r \in Stored'
  <2>1. PICK c : c = job[w].contract
    OBVIOUS
  <2>2. MayCall(w, "pin", "revise")
    BY <1>4 DEF AppendSectors
  <2>3. c \in Contracts /\ job[w] \in Jobs
    BY <2>1, <2>2, Calling
  <2>4. PICK A \in SUBSET job[w].sectors : \E a \in SetToSeqs(A \cap Stored) :
           Revise(w, roots[c] \o a, [job[w] EXCEPT !.step = "save", !.tried = A, !.answer = a])
    BY <1>4, <2>1 DEF AppendSectors
  <2>5. PICK a \in SetToSeqs(A \cap Stored) :
           roots' = [roots EXCEPT ![c] = roots[c] \o a] /\ renewal' = renewal
    BY <2>1, <2>4 DEF Revise
  <2>6. a \in Seq(Roots)
    <3>1. PICK S : S = A \cap Stored
      OBVIOUS
    <3>2. S \subseteq Roots
      BY <2>3, <2>4, <3>1 DEF Jobs
    <3>3. IsFiniteSet(S)
      BY <3>2, ConstantsAssumption, FS_Subset
    <3>4. a \in [1..Cardinality(S) -> S] /\ Cardinality(S) \in Nat
      BY <2>5, <3>1, <3>3, ArrangementIsOnto
    <3> QED BY <3>2, <3>4
  <2>7. roots[c] \in Seq(Roots) /\ DOMAIN roots[c] = 1..Len(roots[c]) /\ Len(roots[c]) \in Nat
    BY <2>3, RootsOf DEF IInv
  <2>8. PICK q : q = roots[c] \o a
    OBVIOUS
  <2>9. \A i \in 1..Len(roots[c]) : i \in DOMAIN q /\ q[i] = roots[c][i]
    <3>1. Len(q) = Len(roots[c]) + Len(a) /\ q \in Seq(Roots) /\ Len(a) \in Nat
      BY <2>6, <2>7, <2>8
    <3>2. DOMAIN q = 1..Len(q)
      BY <3>1
    <3>3. \A i \in 1..Len(roots[c]) : q[i] = roots[c][i]
      BY <2>6, <2>7, <2>8
    <3> QED BY <2>7, <3>1, <3>2, <3>3
  <2>10. r \in Range(roots[c]) => r \in Range(q)
    BY <2>7, <2>9 DEF Range
  <2> QED BY <1>2, <2>3, <2>5, <2>8, <2>10
<1>5. ASSUME NEW w \in Workers, FreeSectors(w) PROVE r \in Stored'
  <2>1. PICK c : c = job[w].contract
    OBVIOUS
  <2>2. MayCall(w, "prune", "free")
    BY <1>5 DEF FreeSectors
  <2>3. c \in Contracts /\ c \in known /\ JobOK(w, job[w]) /\ job[w].step = "free"
    BY <2>1, <2>2, Calling
  <2>4. PICK q \in Without(roots[c], job[w].tried) :
           /\ job[w].tried \subseteq DOMAIN roots[c] /\ roots' = [roots EXCEPT ![c] = q]
           /\ renewal' = renewal /\ restored' = restored
    BY <1>5, <2>1 DEF FreeSectors, Revise
  <2>5. ASSUME r \in Range(roots[c]), r \notin Range(q) PROVE StoredBut(c, r)
    <3>1. PICK i \in DOMAIN roots[c] : r = roots[c][i]
      BY <2>5 DEF Range
    <3>2. roots[c] \in Seq(Roots)
      BY <2>3, RootsOf DEF IInv
    <3>3. \A j \in DOMAIN roots[c] \ job[w].tried : roots[c][j] \in Range(q)
      BY <2>4, <3>2, WithoutKeeps
    <3>4. i \in job[w].tried
      BY <2>5, <3>1, <3>3
    <3>5. pin[r] # c /\ (pin[r] = NULL => StoredBut(c, r))
      BY <2>1, <2>3, <2>4, <3>1, <3>4 DEF JobOK, FreeHeld
    <3> QED BY <2>3, <2>4, <3>5, PinnedElsewhere
  <2> QED BY <1>2, <2>3, <2>4, <2>5
<1>6. ASSUME NEW w \in Workers, RenewContract(w) PROVE r \in Stored'
  <2>1. PICK c : c = job[w].contract
    OBVIOUS
  <2>2. MayCall(w, "renew", "revise")
    BY <1>6 DEF RenewContract
  <2>3. c \in known /\ HostAccepts(c)
    BY <2>1, <2>2, Calling
  <2>4. PICK n \in Contracts :
         /\ Unused(n) /\ renewal' = [renewal EXCEPT ![c] = n]
         /\ roots' = [roots EXCEPT ![n] = roots[c]]
         /\ restored' = IF c \in restored THEN restored \cup {n} ELSE restored
    BY <1>6, <2>1 DEF RenewContract
  <2>5. Renewed(c, n)
    BY <1>6, <2>3, <2>4 DEF Renewed, HostAccepts, RenewContract
  <2>6. /\ n # c /\ renewal'[n] = NULL /\ roots[n] = <<>> /\ roots'[n] = roots[c]
        /\ \A d \in Contracts \ {c} : renewal'[d] = renewal[d]
        /\ \A d \in Contracts \ {n} : roots'[d] = roots[d]
    BY <2>5, RenewedBooks
  <2>7. ASSUME NEW d \in Contracts, renewal[d] = NULL, r \in Range(roots[d])
        PROVE  \E e \in Contracts : renewal'[e] = NULL /\ r \in Range(roots'[e])
    <3>1. CASE d = c
      BY <2>4, <2>6, <2>7, <3>1
    <3>2. CASE d = n
      BY <2>6, <2>7, <3>2 DEF Range
    <3>3. CASE d # c /\ d # n
      BY <2>6, <2>7, <3>3
    <3> QED BY <3>1, <3>2, <3>3
  <2> QED BY <2>7, StoredMeans, StoredMeansNext
<1>7. ASSUME NEW c \in Contracts, Restore(c) PROVE FALSE
  BY <1>7 DEF Restore
<1>8. ASSUME NEW w \in Workers,
             \/ StartPin(w) \/ StartPrune(w) \/ StartRenew(w) \/ StartFund(w)
             \/ FormContract(w)
             \/ LockContract(w) \/ GiveUp(w) \/ SyncRevision(w) \/ UpdateContractRevision(w)
             \/ ReportMissing(w) \/ PinSectors(w)
             \/ OpenContract(w) \/ CompareRoots(w) \/ AddRenewedContract(w)
      PROVE  r \in Stored'
  <2>1. UNCHANGED hostVars
    BY <1>8, Zenon DEF StartPin, StartPrune, StartRenew, StartFund, FormContract, LockContract, GiveUp,
       SyncRevision, UpdateContractRevision, ReportMissing, PinSectors, OpenContract,
       CompareRoots, AddRenewedContract
  <2> QED BY <1>1, <2>1 DEF hostVars
<1>9. ASSUME NEW s \in Roots, \/ Upload(s) \/ Arrive(s) \/ Expire(s)
                              \/ \E p \in {"away", "lost"} : Leave(s, p)
      PROVE  r \in Stored'
  <2>1. UNCHANGED <<roots, renewal>>
    BY <1>9 DEF Upload, Arrive, Expire, Leave, SetSector, hostVars
  <2> QED BY <1>1, <2>1
<1>10. ASSUME \E c \in Contracts : DeleteContract(c) PROVE r \in Stored'
  BY <1>1, <1>10 DEF DeleteContract, hostVars
<1>11. ASSUME Crash \/ UNCHANGED vars PROVE r \in Stored'
  BY <1>1, <1>11 DEF Crash, vars, hostVars
<1> QED BY <1>3, <1>4, <1>5, <1>6, <1>7, <1>8, <1>9, <1>10, <1>11 DEF Next

(* FreeSectors never removes the host's last copy of a sector that the      *)
(* database counts on; neither does any other step, except the end of       *)
(* temporary storage.                                                       *)
THEOREM PruningIsSafe == Spec => PruneKeepsStored
<1>1. IInv /\ [Next]_vars
        => [restored' = {} /\ temp' = temp
              => \A r \in Roots : place[r] = "here" /\ r \in Stored => r \in Stored']_vars
  BY StoredStep
<1> QED BY <1>1, Invariance, PTL DEF Spec, PruneKeepsStored
=============================================================================
