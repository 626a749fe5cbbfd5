--------------------------- MODULE ContractSectors ---------------------------
(***************************************************************************)
(* The contracts with one host, as the host and as the database see them.  *)
(* The maintenance loop prunes contracts and pins sectors to them          *)
(* (contracts/pruning.go, pinning.go), another loop renews and refreshes   *)
(* them (renew.go, form.go), a third one spends from them to fund accounts *)
(* (funder.go).  Each locks the contract, revises it by an RPC             *)
(* (revision.go) and then updates the database: the answer may be lost,    *)
(* the process may crash in between, and a revision the database has not   *)
(* seen has to be fetched from the host.  The API, the repair loop and the *)
(* integrity checks change the rows of sectors meanwhile, without a lock.  *)
(***************************************************************************)
EXTENDS SequencesExt

CONSTANTS
    Workers,      \* the loops that run
    Roots,        \* sector roots
    Contracts,    \* contracts with the host
    Initial,      \* those formed to begin with
    NULL,
    BatchSize,    \* cm.sectorRootsBatchSize
    MaxLen,       \* bound on the sectors of a contract
    MaxRev        \* bound on revision numbers

ASSUME ConstantsAssumption ==
    /\ Workers \subseteq {"maintenance", "renewal", "funding"}
    /\ IsFiniteSet(Roots) /\ NULL \notin Contracts \cup Workers
    /\ Initial \subseteq Contracts
    /\ BatchSize \in Nat \ {0} /\ MaxLen \in Nat /\ MaxRev \in Nat

VARIABLES
    roots,      \* host: the sectors of a contract, in order
    rev,        \* host: its revision number
    renewal,    \* host: the contract it was renewed to
    temp,       \* host: sectors in temporary storage
    restored,   \* contracts of which the host lost a revision
    place,      \* database: a sector is "here", "lost" (no host), or "away":
                \* on another host, or without a row
    pin,        \* database: the contract it is pinned to
    local,      \* database: revision number and size of a contract
    known,      \* database: contracts it has
    renewedTo,  \* database: contracts.renewed_to
    good,       \* database: contracts.good
    mapped,     \* database: contracts with a row in contract_sectors_map
    owner,      \* who has locked a contract
    job         \* what each worker is doing

hostVars   == <<roots, rev, renewal, temp, restored>>
sectorRows == <<place, pin>>
dbVars     == <<sectorRows, local, known, renewedTo, good, mapped>>
vars       == <<hostVars, dbVars, owner, job>>

(* The locks are those ContractLocker implements.                           *)
Lock == INSTANCE ContractMutex WITH Procs <- Workers

(* A worker's call: the operation and its next step, the contract, the      *)
(* sectors and contracts still to go through, and what the last RPC was     *)
(* about and returned.                                                      *)
Idle == [op |-> "idle", step |-> "idle", contract |-> NULL, sectors |-> {}, left |-> {},
         tried |-> {}, answer |-> <<>>, offset |-> 0, total |-> 0, synced |-> FALSE,
         new |-> NULL, revision |-> [num |-> 0, len |-> 0]]

At(w, op, step) == job[w].op = op /\ job[w].step = step
Goto(w, step)   == job' = [job EXCEPT ![w].step = step]

-----------------------------------------------------------------------------
(***************************************************************************)
(* Locking a contract and revising it                                      *)
(***************************************************************************)
Begin(w, x) == job[w] = Idle /\ job' = [job EXCEPT ![w] = x]

LockContract(w) ==
    /\ job[w].step = "lock"
    /\ Lock!Acquire(w, job[w].contract)
    /\ Goto(w, IF job[w].op = "prune" THEN "open" ELSE "revise")
    /\ UNCHANGED <<hostVars, dbVars>>

(* The call returns; its deferred unlock runs.                              *)
Return(w) ==
    /\ job' = [job EXCEPT ![w] = Idle]
    /\ Lock!Release(w, job[w].contract)

(* A failed attempt to pin leaves the same sectors to the next contract.    *)
NextContract(w, sectors) ==
    LET left == job[w].left
    IN  /\ Lock!Release(w, job[w].contract)
        /\ IF sectors = {} \/ left = {}
           THEN job' = [job EXCEPT ![w] = Idle]
           ELSE \E c \in left : job' = [job EXCEPT ![w] =
                    [Idle EXCEPT !.op = "pin", !.step = "lock", !.contract = c,
                                 !.sectors = sectors, !.left = left \ {c}]]

Fail(w) == IF job[w].op = "pin" THEN NextContract(w, job[w].sectors) ELSE Return(w)

(* WithRevision calls the host with the revision of the database; the host  *)
(* accepts a signature over the successor of its own revision only.         *)
Revisable(c)   == c \in known /\ renewedTo[c] = NULL
HostAccepts(c) == renewal[c] = NULL /\ rev[c] = local[c].num /\ rev[c] < MaxRev
MayCall(w, op, step) ==
    At(w, op, step) /\ Revisable(job[w].contract) /\ HostAccepts(job[w].contract)

(* An RPC fails before the host does anything, one of the conditions on     *)
(* prices, size, allowance, collateral, height or renewal is not met, or a  *)
(* transaction fails.                                                       *)
GiveUp(w) ==
    /\ job[w].step \notin {"idle", "lock"}
    /\ IF job[w].step \in {"report", "pin"} THEN Return(w) ELSE Fail(w)
    /\ UNCHANGED <<hostVars, dbVars>>

(* The host found the signature invalid: syncRevision, then the RPC again,  *)
(* once.  A host whose revision is behind makes the contract bad.  (Mutant: *)
(* so does one whose revision is not newer.)                                *)
HostDiffers(c) == rev[c] # local[c].num \/ renewal[c] # NULL
NotAhead(c)    == rev[c] <= local[c].num
HostBehind(c)  == rev[c] < local[c].num

SyncRevision(w) ==
    LET c == job[w].contract
    IN  /\ job[w].step \in {"revise", "free"} /\ ~job[w].synced
        /\ Revisable(c) /\ HostDiffers(c)
        /\ IF HostBehind(c)
           THEN good' = good \ {c} /\ UNCHANGED local /\ Fail(w)
           ELSE /\ local' = [local EXCEPT ![c] = [num |-> rev[c], len |-> Len(roots[c])]]
                /\ UNCHANGED good
                /\ IF renewal[c] # NULL THEN Fail(w)
                   ELSE job' = [job EXCEPT ![w].synced = TRUE] /\ UNCHANGED owner
        /\ UNCHANGED <<hostVars, sectorRows, known, renewedTo, mapped>>

(* The host has executed an RPC that left the contract with these sectors;  *)
(* the answer arrives, or is lost and the call has failed.                  *)
Revise(w, newRoots, x) ==
    LET c == job[w].contract
    IN  /\ roots' = [roots EXCEPT ![c] = newRoots]
        /\ rev' = [rev EXCEPT ![c] = @ + 1]
        /\ \/ /\ job' = [job EXCEPT ![w] = [x EXCEPT !.revision =
                            [num |-> rev[c] + 1, len |-> Len(newRoots)], !.synced = FALSE]]
              /\ UNCHANGED owner
           \/ Fail(w)
        /\ UNCHANGED <<renewal, temp, restored, dbVars>>


-----------------------------------------------------------------------------
(***************************************************************************)
(* Pinning (performSectorPinningOnHost, pinSectors)                        *)
(***************************************************************************)
Unpinned  == {r \in Roots : place[r] = "here" /\ pin[r] = NULL}
ForUse    == {c \in known : c \in good /\ renewedTo[c] = NULL}

(* The contracts and the sectors are read before anything is locked.        *)
StartPin(w) ==
    /\ w = "maintenance"
    /\ Unpinned # {}
    /\ \E c \in ForUse :
         Begin(w, [Idle EXCEPT !.op = "pin", !.step = "lock", !.contract = c,
                               !.sectors = Unpinned, !.left = ForUse \ {c}])
    /\ UNCHANGED <<hostVars, dbVars, owner>>

(* What the host stores, temporarily or for a contract.                     *)
Stored == temp \cup UNION {Range(roots[c]) : c \in {d \in Contracts : renewal[d] = NULL}}

(* AppendSectors: the host takes those of the attempted sectors it has.     *)
AppendSectors(w) ==
    LET c == job[w].contract
    IN  /\ MayCall(w, "pin", "revise")
        /\ \E A \in SUBSET job[w].sectors \ {{}} :
             \E q \in SetToSeqs(A \cap Stored) :
               /\ Len(roots[c]) + Len(q) <= MaxLen
               /\ Revise(w, roots[c] \o q,
                         [job[w] EXCEPT !.step = "save", !.tried = A, !.answer = q])

(* MarkSectorsLost for what the host did not have, wherever it is by now.   *)
ReportMissing(w) ==
    LET lost == {r \in job[w].tried \ Range(job[w].answer) : place[r] = "here"}
    IN  /\ At(w, "pin", "report")
        /\ place' = [r \in Roots |-> IF r \in lost THEN "lost" ELSE place[r]]
        /\ pin' = [r \in Roots |-> IF r \in lost THEN NULL ELSE pin[r]]
        /\ Goto(w, "pin")
        /\ UNCHANGED <<hostVars, local, known, renewedTo, good, mapped, owner>>

(* PinSectors takes those still on the host, and those without one; it does *)
(* not find a contract without a map row.  (Mutant: what was attempted is   *)
(* pinned, not what the host returned.)                                     *)
PinAttempted(x) == {r \in x.tried : place[r] \in {"here", "lost"}}
PinReturned(x)  == {r \in Range(x.answer) : place[r] \in {"here", "lost"}}

PinSectors(w) ==
    LET c   == job[w].contract
        sel == PinReturned(job[w])
    IN  /\ At(w, "pin", "pin")
        /\ IF c \in mapped \/ job[w].answer = <<>>
           THEN /\ place' = [r \in Roots |-> IF r \in sel THEN "here" ELSE place[r]]
                /\ pin' = [r \in Roots |-> IF r \in sel THEN c ELSE pin[r]]
                /\ NextContract(w, job[w].sectors \ job[w].tried)
           ELSE UNCHANGED sectorRows /\ Return(w)
        /\ UNCHANGED <<hostVars, local, known, renewedTo, good, mapped>>

-----------------------------------------------------------------------------
(***************************************************************************)
(* Pruning (pruneContract)                                                 *)
(***************************************************************************)
StartPrune(w) ==
    /\ w = "maintenance"
    /\ \E c \in ForUse : Begin(w, [Idle EXCEPT !.op = "prune", !.step = "lock", !.contract = c])
    /\ UNCHANGED <<hostVars, dbVars, owner>>

(* The size is that of the database, which may be out of date.              *)
OpenContract(w) ==
    LET c == job[w].contract
    IN  /\ At(w, "prune", "open")
        /\ IF renewedTo[c] = NULL /\ local[c].len > 0
           THEN /\ job' = [job EXCEPT ![w].step = "revise", ![w].total = local[c].len]
                /\ UNCHANGED owner
           ELSE Return(w)
        /\ UNCHANGED <<hostVars, dbVars>>

(* SectorRoots for the next batch; the host refuses one beyond its end.     *)
SectorRoots(w) ==
    LET x      == job[w]
        c      == x.contract
        length == IF x.total - x.offset < BatchSize THEN x.total - x.offset ELSE BatchSize
    IN  /\ MayCall(w, "prune", "revise")
        /\ x.offset + length <= Len(roots[c])
        /\ Revise(w, roots[c],
                  [x EXCEPT !.step = "save",
                            !.answer = SubSeq(roots[c], x.offset + 1, x.offset + length)])

(* The next batch, if there is one.                                         *)
MoreBatches(offset, total) == offset < total

NextBatch(w, freed) ==
    LET x    == job[w]
        next == [Idle EXCEPT !.op = "prune", !.step = "revise", !.contract = x.contract,
                             !.offset = x.offset + BatchSize, !.total = x.total - freed]
    IN  IF MoreBatches(next.offset, next.total)
        THEN job' = [job EXCEPT ![w] = next] /\ UNCHANGED owner
        ELSE Return(w)

(* PrunableContractRoots: neither pinned to this contract nor waiting to be *)
(* pinned to one of this host.  (Mutant: not pinned to this contract.)      *)
NotPinnedTo(c, r) == pin[r] # c
Prunable(c, r)    == pin[r] # c /\ ~(place[r] = "here" /\ pin[r] = NULL)

(* Their indices in the contract.  (Mutant: in the batch.)                  *)
BatchIndices(x, B)    == B
ContractIndices(x, B) == {x.offset + i : i \in B}

CompareRoots(w) ==
    LET x       == job[w]
        indices == ContractIndices(x, {j \in DOMAIN x.answer : Prunable(x.contract, x.answer[j])})
    IN  /\ At(w, "prune", "compare")
        /\ IF x.contract \notin mapped THEN Return(w)
           ELSE IF indices = {} THEN NextBatch(w, 0)
           ELSE job' = [job EXCEPT ![w].step = "free", ![w].tried = indices, ![w].answer = <<>>]
                /\ UNCHANGED owner
        /\ UNCHANGED <<hostVars, dbVars>>

(* FreeSectors: the host removes these indices, moving other sectors into   *)
(* their place.                                                             *)
Without(s, indices) ==
    {[i \in 1..Len(s) - Cardinality(indices) |-> s[p[i]]] :
        p \in SetToSeqs(DOMAIN s \ indices)}

FreeSectors(w) ==
    LET x == job[w]
    IN  /\ MayCall(w, "prune", "free")
        /\ x.tried \subseteq DOMAIN roots[x.contract]
        /\ \E s \in Without(roots[x.contract], x.tried) :
             Revise(w, s, [x EXCEPT !.step = "freed"])

-----------------------------------------------------------------------------
(***************************************************************************)
(* Forming, renewing and refreshing contracts (formContract,               *)
(* renewContract, refreshContract), and funding accounts from them         *)
(***************************************************************************)
Unused(n) == n \notin known /\ \A d \in Contracts : renewal[d] # n

(* The database has a contract from when the host's answer to the formation *)
(* is stored; one that is not stored is never heard of again.               *)
FormContract(w) ==
    /\ w = "renewal" /\ job[w] = Idle
    /\ \E n \in Contracts :
         /\ Unused(n)
         /\ known' = known \cup {n}
         /\ good' = good \cup {n}
         /\ mapped' = mapped \cup {n}
    /\ UNCHANGED <<hostVars, sectorRows, local, renewedTo, owner, job>>

StartRenew(w) ==
    /\ w = "renewal"
    /\ \E c \in ForUse : Begin(w, [Idle EXCEPT !.op = "renew", !.step = "lock", !.contract = c])
    /\ UNCHANGED <<hostVars, dbVars, owner>>

(* The host moves the sectors to a new contract and freezes the old one.    *)
RenewContract(w) ==
    LET c == job[w].contract
    IN  /\ MayCall(w, "renew", "revise")
        /\ \E n \in Contracts :
             /\ Unused(n)
             /\ renewal' = [renewal EXCEPT ![c] = n]
             /\ roots' = [roots EXCEPT ![n] = roots[c]]
             /\ restored' = IF c \in restored THEN restored \cup {n} ELSE restored
             /\ \/ job' = [job EXCEPT ![w].step = "add", ![w].new = n] /\ UNCHANGED owner
                \/ Fail(w)
        /\ UNCHANGED <<rev, temp, dbVars>>

(* AddRenewedContract: the map row, and every sector pinned through it, now *)
(* belongs to the renewal; without a map row nothing is stored.             *)
AddRenewedContract(w) ==
    LET c == job[w].contract
        n == job[w].new
    IN  /\ At(w, "renew", "add")
        /\ IF c \in mapped
           THEN /\ known' = known \cup {n}
                /\ good' = good \cup {n}
                /\ renewedTo' = [renewedTo EXCEPT ![c] = n]
                /\ mapped' = (mapped \ {c}) \cup {n}
                /\ local' = [local EXCEPT ![n] = [num |-> 0, len |-> Len(roots[n])]]
                /\ pin' = [r \in Roots |-> IF pin[r] = c THEN n ELSE pin[r]]
           ELSE UNCHANGED <<known, good, renewedTo, mapped, local, pin>>
        /\ Return(w)
        /\ UNCHANGED <<hostVars, place>>

(* TryLockContract: a locked contract is left alone.  (Mutant: it is not.)  *)
IgnoreLock(w, c)      == UNCHANGED owner
TryLockContract(w, c) == Lock!Acquire(w, c)

StartFund(w) ==
    /\ w = "funding"
    /\ \E c \in ForUse :
         /\ Begin(w, [Idle EXCEPT !.op = "fund", !.step = "revise", !.contract = c])
         /\ TryLockContract(w, c)
    /\ UNCHANGED <<hostVars, dbVars>>

ReplenishAccounts(w) ==
    /\ MayCall(w, "fund", "revise")
    /\ Revise(w, roots[job[w].contract], [job[w] EXCEPT !.step = "save"])

(* The end of WithRevision: UpdateContractRevision, which refuses a         *)
(* revision that is not newer.                                              *)
UpdateContractRevision(w) ==
    LET x == job[w]
    IN  /\ x.step \in {"save", "freed"}
        /\ x.revision.num > local[x.contract].num
        /\ local' = [local EXCEPT ![x.contract] = x.revision]
        /\ IF x.op = "pin" THEN Goto(w, "report") /\ UNCHANGED owner
           ELSE IF x.op = "fund" THEN Return(w)
           ELSE IF x.step = "freed" THEN NextBatch(w, Cardinality(x.tried))
           ELSE Goto(w, "compare") /\ UNCHANGED owner
        /\ UNCHANGED <<hostVars, sectorRows, known, renewedTo, good, mapped>>

-----------------------------------------------------------------------------
(***************************************************************************)
(* Everybody else                                                          *)
(***************************************************************************)
SetSector(r, p) ==
    /\ place' = [place EXCEPT ![r] = p]
    /\ pin' = [pin EXCEPT ![r] = NULL]
    /\ UNCHANGED <<hostVars, local, known, renewedTo, good, mapped, owner, job>>

(* A client, or the repair loop, uploads a sector; then it pins the slab or *)
(* moves the sector here, unless the sector is on the host already.         *)
Upload(r) ==
    /\ r \notin temp /\ temp' = temp \cup {r}
    /\ UNCHANGED <<roots, rev, renewal, restored, dbVars, owner, job>>
Arrive(r) == r \in temp /\ place[r] # "here" /\ SetSector(r, "here")

(* Migrated away, lost or unpinnable, or deleted with its last slab.        *)
Leave(r, p) == place[r] \notin {p, "away"} /\ SetSector(r, p)

(* DeleteContract (admin API): its sectors are unpinned.                    *)
DeleteContract(c) ==
    /\ c \in mapped
    /\ mapped' = mapped \ {c}
    /\ good' = good \ {c}
    /\ pin' = [r \in Roots |-> IF pin[r] = c THEN NULL ELSE pin[r]]
    /\ UNCHANGED <<hostVars, place, local, known, renewedTo, owner, job>>

(* Temporary storage ends.  It lasts for days, longer than the time between *)
(* PrunableContractRoots and FreeSectors.                                   *)
Expire(r) ==
    /\ r \in temp /\ temp' = temp \ {r}
    /\ \A w \in Workers : ~At(w, "prune", "free")
    /\ UNCHANGED <<roots, rev, renewal, restored, dbVars, owner, job>>

(* The host falls back to an older revision of one of its contracts, once.  *)
Restore(c) ==
    /\ rev[c] > 0 /\ restored = {}
    /\ rev' = [rev EXCEPT ![c] = @ - 1]
    /\ \E n \in 0..Len(roots[c]) : roots' = [roots EXCEPT ![c] = SubSeq(@, 1, n)]
    /\ restored' = restored \cup {c}
    /\ UNCHANGED <<renewal, temp, dbVars, owner, job>>

(* The process stops; locks and calls are gone.                             *)
Crash ==
    /\ job' = [w \in Workers |-> Idle]
    /\ owner' = [c \in Contracts |-> NULL]
    /\ UNCHANGED <<hostVars, dbVars>>

-----------------------------------------------------------------------------
Init ==
    /\ roots = [c \in Contracts |-> <<>>]
    /\ rev = [c \in Contracts |-> 0]
    /\ renewal = [c \in Contracts |-> NULL]
    /\ temp = {} /\ restored = {}
    /\ place = [r \in Roots |-> "away"]
    /\ pin = [r \in Roots |-> NULL]
    /\ local = [c \in Contracts |-> [num |-> 0, len |-> 0]]
    /\ known = Initial /\ good = Initial /\ mapped = Initial
    /\ renewedTo = [c \in Contracts |-> NULL]
    /\ owner = [c \in Contracts |-> NULL]
    /\ job = [w \in Workers |-> Idle]

Next ==
    \/ \E w \in Workers :
         \/ StartPin(w) \/ StartPrune(w) \/ StartRenew(w) \/ StartFund(w)
         \/ FormContract(w)
         \/ LockContract(w) \/ GiveUp(w) \/ SyncRevision(w) \/ UpdateContractRevision(w)
         \/ AppendSectors(w) \/ ReportMissing(w) \/ PinSectors(w)
         \/ OpenContract(w) \/ SectorRoots(w) \/ CompareRoots(w) \/ FreeSectors(w)
         \/ RenewContract(w) \/ AddRenewedContract(w) \/ ReplenishAccounts(w)
    \/ \E r \in Roots : \/ Upload(r) \/ Arrive(r) \/ Expire(r)
                        \/ \E p \in {"away", "lost"} : Leave(r, p)
    \/ \E c \in Contracts : DeleteContract(c) \/ Restore(c)
    \/ Crash

Spec == Init /\ [][Next]_vars

-----------------------------------------------------------------------------
(***************************************************************************)
(* Properties                                                              *)
(***************************************************************************)
Revisions == [num : 0..MaxRev, len : 0..MaxLen]
Jobs ==
    [op       : {"idle", "prune", "pin", "renew", "fund"},
     step     : {"idle", "lock", "open", "revise", "save", "compare", "free", "freed",
                 "report", "pin", "add"},
     contract : Contracts \cup {NULL},
     sectors  : SUBSET Roots,
     left     : SUBSET Contracts,
     tried    : (SUBSET Roots) \cup SUBSET (1..MaxLen),
     answer   : BoundedSeq(Roots, MaxLen),
     offset   : 0..MaxLen,
     total    : 0..MaxLen,
     synced   : BOOLEAN,
     new      : Contracts \cup {NULL},
     revision : Revisions]

(* Every variable has its type, and a batch that pruneContract asks the     *)
(* host for starts within the contract.                                     *)
TypeOK ==
    /\ roots \in [Contracts -> BoundedSeq(Roots, MaxLen)]
    /\ rev \in [Contracts -> 0..MaxRev]
    /\ renewal \in [Contracts -> Contracts \cup {NULL}]
    /\ temp \subseteq Roots
    /\ restored \subseteq Contracts
    /\ place \in [Roots -> {"here", "away", "lost"}]
    /\ pin \in [Roots -> Contracts \cup {NULL}]
    /\ local \in [Contracts -> Revisions]
    /\ known \subseteq Contracts /\ good \subseteq known /\ mapped \subseteq known
    /\ renewedTo \in [Contracts -> Contracts \cup {NULL}]
    /\ owner \in [Contracts -> Workers \cup {NULL}]
    /\ job \in [Workers -> Jobs]
    /\ \A w \in Workers : At(w, "prune", "revise") => job[w].offset < job[w].total

(* A sector the database says is pinned to a contract is in that contract   *)
(* on the host, whatever was pruned, renewed, lost on the way or retried;   *)
(* unless the host itself fell back to an older revision.                   *)
PinnedIsStored ==
    \A r \in Roots :
        pin[r] # NULL /\ pin[r] \notin restored => r \in Range(roots[pin[r]])

(* Pruning never removes the host's last copy of a sector that the database *)
(* counts on, pinned or waiting to be pinned: while no host falls back, the *)
(* only other way for it to go is the end of temporary storage.             *)
PruneKeepsStored ==
    [][restored' = {} /\ temp' = temp
          => \A r \in Roots : place[r] = "here" /\ r \in Stored => r \in Stored']_vars

(* The lock keeps everybody else from revising a contract between an RPC    *)
(* and the end of WithRevision: what is stored is newer than what the       *)
(* database has and is what the host has, so it is never refused.           *)
SavedRevisionIsCurrent ==
    \A w \in Workers :
        LET x == job[w]
            c == x.contract
        IN  x.step \in {"save", "freed"} /\ c \notin restored
                => /\ x.revision.num > local[c].num
                   /\ x.revision = [num |-> rev[c], len |-> Len(roots[c])]

(* However many answers are lost and wherever the process stops, a revision *)
(* that is out of sync is recovered: syncRevision gives up on a contract    *)
(* only if the host fell back.  A deleted contract has no map row.          *)
HealthyContractsStayGood == \A c \in mapped \ good : c \in restored
=============================================================================
