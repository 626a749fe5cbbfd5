-------------------------------- MODULE Funding --------------------------------
(***************************************************************************)
(* Funding of accounts and pools on one host (contracts/funding.go,        *)
(* funder.go, persist/postgres/funding.go).  A pass tops up the service    *)
(* account, then for every quota the balances that are due, batch by       *)
(* batch, from a list of contracts used in order; then it attaches funded  *)
(* pools to the accounts that draw on them.  Accounts of hosts without     *)
(* pools take the same path; "pool" below is either.                       *)
(***************************************************************************)
EXTENDS Integers, Sequences, FiniteSets, FiniteSetsExt, SequencesExt

CONSTANTS
    Pools,           \* active pools
    FundContracts,   \* contracts with the host: 1..n, in the order they are used
    FundQuotas,      \* 1..n
    QuotaOf,         \* [Pools -> FundQuotas]
    UploadTarget,    \* HostFundTarget of a quota
    ReadTarget,      \* HostReadFundTarget of a quota
    ServiceTarget,   \* fund target of the service account
    FundBatch,       \* pools fetched at a time
    FundInterval,    \* time until a funded pool is due again
    MaxBackoff,      \* maxAccountFundingBackoff
    MaxFunds         \* bound on what a contract holds

ASSUME FundingAssumption ==
    /\ IsFiniteSet(Pools) /\ "service" \notin Pools /\ QuotaOf \in [Pools -> FundQuotas]
    /\ FundContracts \subseteq Nat /\ IsFiniteSet(FundContracts) /\ FundQuotas \subseteq Nat
    /\ UploadTarget \in [FundQuotas -> Nat] /\ ReadTarget \in [FundQuotas -> Nat]
    /\ ServiceTarget \in Nat \ {0} /\ FundBatch \in Nat \ {0}
    /\ FundInterval \in Nat \ {0} /\ MaxBackoff \in Nat \ {0}
    /\ MaxFunds \in Nat

NoRow == -1

VARIABLES
    nextFund,      \* pool_hosts: time until the pool is due, or no row
    failedFunds,   \* pool_hosts: consecutive_failed_funds
    attached,      \* attachments recorded: <<"account" or "sharing", pool>>
    funds,         \* what is left in the contracts
    created,       \* host: pools it has credited at least once
    full,          \* pools whose connect key has no storage left
    fundPc,
    ids,           \* contracts still worth trying
    quota,
    exhausted,     \* the last fetch returned less than a batch
    group,         \* "service", "upload" or "read": the group being funded
    batch,         \* pools of that group
    later,         \* pools of the read group, while the upload group is funded
    tried,         \* contracts of ids done with for the group
    funded, drained,
    attaching,     \* attachments of the request in flight
    credited       \* history: pools credited since the batch was fetched

rowVars  == <<nextFund, failedFunds, attached>>
hostSide == <<funds, created, full>>
passLoop == <<ids, quota, exhausted, group, batch, later, tried, funded, drained, credited>>
fundVars == <<rowVars, hostSide, fundPc, passLoop, attaching>>

(* PoolFundingInfo: the active pools of a quota, and those of them that     *)
(* have no storage left.                                                    *)
ActivePools(q) == {p \in Pools : QuotaOf[p] = q}
FullStorage(q) == ActivePools(q) \cap full

(* What one round of every active pool and of the service account costs.    *)
ContractFundTarget ==
    MapThenSumSet(LAMBDA q : Cardinality(ActivePools(q) \ FullStorage(q)) * UploadTarget[q]
                             + Cardinality(FullStorage(q)) * ReadTarget[q], FundQuotas)
    + ServiceTarget

Idle ==
    /\ ids' = <<>> /\ quota' = 0 /\ exhausted' = FALSE /\ group' = "none"
    /\ batch' = <<>> /\ later' = <<>> /\ tried' = 0 /\ funded' = 0 /\ drained' = 0
    /\ credited' = {}

(* A contract is formed or refreshed to cover one round of every pool.      *)
FundingInit ==
    /\ nextFund = [p \in Pools |-> NoRow] /\ failedFunds = [p \in Pools |-> 0]
    /\ attached = {} /\ created = {}
    /\ full \in SUBSET Pools
    /\ funds \in [FundContracts -> {n \in 0..MaxFunds : n \in {1, Min({ContractFundTarget, MaxFunds})}}]
    /\ fundPc = "idle" /\ ids = <<>> /\ quota = 0 /\ exhausted = FALSE
    /\ group = "none" /\ batch = <<>> /\ later = <<>> /\ tried = 0
    /\ funded = 0 /\ drained = 0 /\ attaching = {} /\ credited = {}

-----------------------------------------------------------------------------
(***************************************************************************)
(* Funding                                                                 *)
(***************************************************************************)

HasFunds(c) == funds[c] > 0

(* performAccountFunding for the host, starting with its service account.   *)
StartFunding ==
    /\ fundPc = "idle"
    /\ \E cs \in SetToSeqs({c \in FundContracts : HasFunds(c)}) :
          /\ cs # <<>> /\ \A i, j \in DOMAIN cs : i < j => cs[i] < cs[j]
          /\ fundPc' = "fund" /\ ids' = cs /\ quota' = 0 /\ exhausted' = TRUE
          /\ group' = "service" /\ batch' = <<"service">> /\ later' = <<>>
          /\ tried' = 0 /\ funded' = 0 /\ drained' = 0 /\ credited' = {}
    /\ UNCHANGED <<rowVars, hostSide, attaching>>

(* There is no contract, the scan fails, or the host is blocked or not      *)
(* usable: only attachments are made.                                       *)
SkipFunding ==
    /\ fundPc = "idle" /\ fundPc' = "attach" /\ Idle
    /\ UNCHANGED <<rowVars, hostSide, attaching>>

DueIn(q) == {p \in Pools : QuotaOf[p] = q /\ nextFund[p] = 0}
NewIn(q) == {p \in Pools : QuotaOf[p] = q /\ nextFund[p] = NoRow}

(* Up to n of a set of pools, in any order.                                 *)
Selections(n, S) == UNION {SetToSeqs(T) : T \in kSubset(Min({n, Cardinality(S)}), S)}

(* HostPoolsForFunding: pools without a row first, then those that are due. *)
HostPoolsForFunding(q) ==
    UNION {{s \o t : t \in Selections(FundBatch - Len(s), DueIn(q))} : s \in Selections(FundBatch, NewIn(q))}

(* A group without pools or with a zero target is passed over.              *)
Worth(g, pools, q) == pools # <<>> /\ (IF g = "read" THEN ReadTarget[q] ELSE UploadTarget[q]) > 0

BeginGroup(g, pools, rest) ==
    /\ fundPc' = "fund" /\ group' = g /\ batch' = pools /\ later' = rest
    /\ tried' = 0 /\ funded' = 0 /\ drained' = 0

NextRound(more) ==
    /\ fundPc' = IF more THEN "fetch" ELSE "quota"
    /\ group' = "none" /\ batch' = <<>> /\ later' = <<>>
    /\ tried' = 0 /\ funded' = 0 /\ drained' = 0

FetchPools ==
    /\ fundPc = "fetch"
    /\ batch' \in HostPoolsForFunding(quota)
    /\ exhausted' = (Len(batch') < FundBatch)
    /\ credited' = {} /\ fundPc' = "split"
    /\ UNCHANGED <<rowVars, hostSide, ids, quota, group, later, tried, funded, drained, attaching>>

(* The pools of the batch that are in S, in the order of the batch.         *)
InBatchOrder(S) ==
    {t \in SetToSeqs(S \cap ToSet(batch)) :
        \A i, j \in DOMAIN t : i < j =>
            \E k, l \in DOMAIN batch : k < l /\ batch[k] = t[i] /\ batch[l] = t[j]}

(* The batch is split by what its pools can be used for.                    *)
SplitBatch ==
    /\ fundPc = "split"
    /\ \E upload \in InBatchOrder(Pools \ full), read \in InBatchOrder(full) :
          IF Worth("upload", upload, quota) THEN BeginGroup("upload", upload, read)
          ELSE IF Worth("read", read, quota) THEN BeginGroup("read", read, <<>>)
          ELSE NextRound(~exhausted)
    /\ UNCHANGED <<rowVars, hostSide, ids, quota, exhausted, attaching, credited>>

(* The next quota whose targets are not both zero.                          *)
NextQuota ==
    /\ fundPc = "quota"
    /\ LET qs == {q \in FundQuotas : q > quota /\ UploadTarget[q] + ReadTarget[q] > 0} IN
       IF qs = {}
       THEN fundPc' = "attach" /\ Idle
       ELSE /\ quota' = Min(qs) /\ fundPc' = "fetch"
            /\ UNCHANGED <<ids, exhausted, group, batch, later, tried, funded, drained, credited>>
    /\ UNCHANGED <<rowVars, hostSide, attaching>>

Target == IF group = "service" THEN ServiceTarget
          ELSE IF group = "read" THEN ReadTarget[quota] ELSE UploadTarget[quota]

(* How many pools a contract can pay for.                                   *)
Payable(left) == Max({1, left \div Target})

(* The pools one request credits.                                           *)
Chunk(c) == SubSeq(batch, funded + 1, Min({Len(batch), funded + Payable(funds[c])}))

(* The count after a request that failed.  (Mutant: it moved on before the  *)
(* error was looked at.)                                                    *)
MovedOn(n) == funded + n
StayAt(n)  == funded

InFunding == fundPc = "fund" /\ tried < Len(ids)

Deposit(c, amount) ==
    /\ funds' = [funds EXCEPT ![c] = @ - amount]
    /\ created' = created \cup (ToSet(Chunk(c)) \ {"service"})
    /\ credited' = credited \cup (ToSet(Chunk(c)) \ {"service"})

(* The contract does not hold one target, or may not be revised any more.   *)
ContractDrained ==
    /\ InFunding
    /\ tried' = tried + 1 /\ drained' = drained + 1
    /\ UNCHANGED <<rowVars, hostSide, fundPc, ids, quota, exhausted, group, batch, later,
                   funded, attaching, credited>>

(* TryLockContract finds the contract locked, or its revision cannot be     *)
(* had.                                                                     *)
SkipContract ==
    /\ InFunding /\ tried' = tried + 1
    /\ UNCHANGED <<rowVars, hostSide, fundPc, ids, quota, exhausted, group, batch, later,
                   funded, drained, attaching, credited>>

(* The replenish RPC.  A pool that still has some balance costs less.  When *)
(* the new revision cannot be saved, the pools count as funded all the      *)
(* same, but the next contract is asked, even if for no pool at all.        *)
Replenish(saved) ==
    /\ InFunding
    /\ LET c == ids[tried + 1]
           n == Len(Chunk(c)) IN
       /\ funds[c] >= Target
       /\ \E amount \in {0, n * Target} :
             /\ Deposit(c, amount)
             /\ drained' = drained + IF saved /\ funds[c] - amount < Target THEN 1 ELSE 0
       /\ funded' = funded + n
       /\ tried' = IF saved /\ funded + n = Len(batch) THEN Len(ids) ELSE tried + 1
    /\ UNCHANGED <<rowVars, full, fundPc, ids, quota, exhausted, group, batch, later,
                   attaching>>

(* The RPC fails; the host may have executed it.                            *)
ReplenishFails ==
    /\ InFunding
    /\ LET c == ids[tried + 1] IN
       /\ funds[c] >= Target
       /\ \/ Deposit(c, Len(Chunk(c)) * Target)
          \/ UNCHANGED <<funds, created, credited>>
       /\ funded' = StayAt(Len(Chunk(c)))
    /\ tried' = tried + 1
    /\ UNCHANGED <<rowVars, full, fundPc, ids, quota, exhausted, group, batch, later,
                   drained, attaching>>

Funded    == ToSet(SubSeq(batch, 1, funded))
NotFunded == ToSet(SubSeq(batch, funded + 1, Len(batch)))

(* Time until a pool that was not funded is tried again.                    *)
Backoff(n) == Min({2 ^ n, MaxBackoff})

(* UpdateFundedPools: the first `funded' pools have no failure any more,    *)
(* the others have one more.  (Failures are counted up to MaxBackoff.)      *)
UpdatedFailures(p) ==
    IF p \in Funded THEN 0
    ELSE IF p \in NotFunded THEN Min({failedFunds[p] + 1, MaxBackoff}) ELSE failedFunds[p]

UpdatedNextFund(p) ==
    IF p \in Funded THEN FundInterval
    ELSE IF p \in NotFunded THEN Backoff(UpdatedFailures(p)) ELSE nextFund[p]

UpdateHostPools ==
    /\ failedFunds' = [p \in Pools |-> UpdatedFailures(p)]
    /\ nextFund' = [p \in Pools |-> UpdatedNextFund(p)]

(* After a group: as many contracts as were drained are not passed again.   *)
FinishGroup ==
    /\ fundPc = "fund" /\ ~InFunding
    /\ LET left == SubSeq(ids, drained + 1, Len(ids)) IN
       IF group = "service"
       THEN /\ NextRound(FALSE)
            /\ UNCHANGED <<nextFund, failedFunds, ids, quota, exhausted, credited>>
       ELSE /\ UpdateHostPools
            /\ IF left = <<>>
               THEN fundPc' = "attach" /\ Idle
               ELSE /\ ids' = left
                    /\ IF group = "upload" /\ Worth("read", later, quota)
                       THEN BeginGroup("read", later, <<>>)
                       ELSE NextRound(~exhausted)
                    /\ UNCHANGED <<quota, exhausted, credited>>
    /\ UNCHANGED <<attached, hostSide, attaching>>

(* The transaction fails, which ends the funding of pools.                  *)
UpdateFails ==
    /\ fundPc = "fund" /\ ~InFunding /\ group # "service"
    /\ fundPc' = "attach" /\ Idle
    /\ UNCHANGED <<rowVars, hostSide, attaching>>

-----------------------------------------------------------------------------
(***************************************************************************)
(* Attachments                                                             *)
(***************************************************************************)

(* A row with failed funds may be of a pool the host has never seen.        *)
Attachable(p) == nextFund[p] # NoRow /\ failedFunds[p] = 0

PendingPoolAttachments ==
    {a \in {"account"} \X Pools : Attachable(a[2]) /\ a \notin attached}

SharingPoolAttachments ==
    {a \in {"sharing"} \X Pools : Attachable(a[2]) /\ a \notin attached}

AttachPools ==
    /\ fundPc = "attach"
    /\ fundPc' = IF PendingPoolAttachments = {} THEN "share" ELSE "insert"
    /\ attaching' = PendingPoolAttachments
    /\ UNCHANGED <<rowVars, hostSide, passLoop>>

InsertPoolAttachments ==
    /\ fundPc = "insert"
    /\ attached' = attached \cup attaching
    /\ fundPc' = "attach" /\ attaching' = {}
    /\ UNCHANGED <<nextFund, failedFunds, hostSide, passLoop>>

AttachSharingPools ==
    /\ fundPc = "share"
    /\ fundPc' = IF SharingPoolAttachments = {} THEN "idle" ELSE "mark"
    /\ attaching' = SharingPoolAttachments
    /\ UNCHANGED <<rowVars, hostSide, passLoop>>

MarkSharingPoolsAttached ==
    /\ fundPc = "mark"
    /\ attached' = attached \cup attaching
    /\ fundPc' = "share" /\ attaching' = {}
    /\ UNCHANGED <<nextFund, failedFunds, hostSide, passLoop>>

(* The request or the transaction fails, which ends the pass.               *)
AttachFails ==
    /\ fundPc \in {"insert", "mark"}
    /\ fundPc' = "idle" /\ attaching' = {}
    /\ UNCHANGED <<rowVars, hostSide, passLoop>>

FundingTick ==
    /\ fundPc = "idle" /\ \E p \in Pools : nextFund[p] > 0
    /\ nextFund' = [p \in Pools |-> IF nextFund[p] > 0 THEN nextFund[p] - 1 ELSE nextFund[p]]
    /\ UNCHANGED <<failedFunds, attached, hostSide, fundPc, passLoop, attaching>>

FundingSteps ==
    \/ FetchPools \/ SplitBatch \/ NextQuota
    \/ ContractDrained \/ SkipContract \/ ReplenishFails
    \/ \E saved \in BOOLEAN : Replenish(saved)
    \/ FinishGroup \/ UpdateFails
    \/ AttachPools \/ InsertPoolAttachments \/ AttachSharingPools
    \/ MarkSharingPoolsAttached \/ AttachFails

(* Slabs are pinned or unpinned; passes see either state.                    *)
StorageChanges ==
    /\ fundPc = "idle" /\ full' \in SUBSET Pools
    /\ UNCHANGED <<rowVars, funds, created, fundPc, passLoop, attaching>>

FundingNext == StartFunding \/ SkipFunding \/ FundingSteps \/ FundingTick \/ StorageChanges

(* The pass goes on until it has ended: requests have timeouts.             *)
FundingFairness == WF_fundVars(FundingSteps)

FundingSpec == FundingInit /\ [][FundingNext]_fundVars /\ FundingFairness

-----------------------------------------------------------------------------
(***************************************************************************)
(* Properties                                                              *)
(***************************************************************************)

(* A pool counts as funded only if a request credited it in this batch, and *)
(* gets a back-off otherwise: one contract's failure never hides behind the *)
(* next contract's success.                                                 *)
FundedWasCredited == Funded \ {"service"} \subseteq credited

(* The host is never asked to attach a pool it has not created, also after  *)
(* a funding of the pool failed and while its row exists already.           *)
AttachedWasCreated == \A a \in attaching : a[2] \in created

(* No contract is asked for more than it holds, however many pools share    *)
(* it.                                                                      *)
NeverOverdrawn == \A c \in FundContracts : funds[c] >= 0

(* What the database records of a host's pools is what the host has done    *)
(* for them, and contracts pay for no more than they hold.                  *)
FundingSound == FundedWasCredited /\ AttachedWasCreated /\ NeverOverdrawn

(* The funding of a host ends: every round of its loop makes pools not due. *)
FundingEnds == []<>(fundPc = "idle")
===============================================================================
