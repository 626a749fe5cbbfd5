-------------------------- MODULE ContractMaintenance --------------------------
(***************************************************************************)
(* The contract maintenance pass (contracts/maintenance.go, renew.go,      *)
(* form.go, broadcast.go): block bad hosts, renew, give up on what cannot  *)
(* be renewed in time, refresh or form contracts until there are enough,   *)
(* mark stuck hosts, rebroadcast revisions.  One goroutine runs the pass;  *)
(* meanwhile blocks arrive, contracts are used up and hosts change.        *)
(***************************************************************************)
EXTENDS Integers, Sequences, FiniteSets, FiniteSetsExt, SequencesExt

CONSTANTS
    MHosts,
    Near,           \* pairs of hosts closer than minHostDistanceKm
    Period, RenewWindow,
    Wanted,         \* WantedContracts
    PageSize,       \* contracts listed at a time
    BroadcastBatch, \* contracts fetched for broadcasting at a time
    MaxHeight, MaxContracts, MaxChanges,   \* bounds
    InitialUse      \* contracts at the start: set of sequences

(* A row of contracts: "room" stands for size, allowance and collateral to  *)
(* append a sector, "funds" for the allowance to fund accounts, "fits" for  *)
(* a size and a collateral the host would take on refresh.                  *)
ContractRows ==
    [host : MHosts, proof : Nat, empty : BOOLEAN, renewed : BOOLEAN, good : BOOLEAN,
     room : BOOLEAN, funds : BOOLEAN, fits : BOOLEAN]

ASSUME MaintenanceAssumption ==
    /\ \A use \in InitialUse : use \in Seq(ContractRows)
    /\ IsFiniteSet(MHosts) /\ Near \subseteq MHosts \X MHosts
    /\ Period \in Nat /\ RenewWindow \in Nat /\ RenewWindow < Period
    /\ Wanted \in Nat /\ PageSize \in Nat \ {0} /\ BroadcastBatch \in Nat \ {0}
    /\ {MaxHeight, MaxContracts, MaxChanges} \subseteq Nat

VARIABLES
    contracts,   \* all contracts, in the order they are listed
    height,      \* scanned height
    passing,     \* hosts that pass the usability checks
    blocked,     \* hosts on the blocklist
    changes,     \* changes to contracts and hosts by others so far
    unpinned,    \* hosts with sectors that are not pinned yet
    stuckHosts,  \* hosts with stuck_since set
    mPc,         \* step of the pass
    started,     \* height when the pass, or its renewals, read it
    offset,      \* next page
    eligible,    \* contracts to renew, as listed: id, and whether it was empty
    emptyHosts,  \* hosts with a retained empty contract
    hostMap,     \* good hosts, as listed
    without,     \* of these, hosts without a contract
    best,        \* [host -> index and evaluation of its best contract]
    todo,        \* hosts the current loop has still to visit
    goodContracts, spaced, hasStuck, hasGood,
    seen,        \* history: the evaluations of this pass, with their hosts
    unsent,      \* contracts not broadcast within the interval
    sending      \* contracts of the batch being broadcast

world     == <<contracts, height, passing, blocked, unpinned, changes>>
passState == <<started, offset, eligible, emptyHosts, hostMap, without, best, todo,
               goodContracts, spaced, hasStuck, hasGood, sending, seen>>
maintainVars == <<world, stuckHosts, mPc, passState, unsent>>

NewContract(h, proof, empty) ==
    [host |-> h, proof |-> proof, empty |-> empty, renewed |-> FALSE, good |-> TRUE,
     room |-> TRUE, funds |-> TRUE, fits |-> TRUE]

MaintenanceInit ==
    /\ contracts \in InitialUse /\ height = 0
    /\ passing = MHosts /\ blocked = {} /\ unpinned \in SUBSET MHosts /\ changes = 0
    /\ stuckHosts = {} /\ mPc = "idle" /\ started = 0 /\ offset = 0
    /\ eligible = {} /\ emptyHosts = {} /\ hostMap = {} /\ without = {}
    /\ best = <<>> /\ todo = {} /\ goodContracts = 0 /\ spaced = {}
    /\ hasStuck = {} /\ hasGood = {} /\ sending = <<>> /\ unsent = {} /\ seen = {}

-----------------------------------------------------------------------------

IsGoodHost(h) == h \in passing \ blocked
Revisable(c)  == ~c.renewed /\ c.proof > height
InRenewWindow(c, at) == c.proof <= at + RenewWindow

(* GoodForAppend, GoodForAccountFunding and GoodForRefresh.                 *)
GoodForAppend(c, at)  == c.good /\ c.room /\ ~InRenewWindow(c, at)
GoodForFunding(c)     == c.good /\ c.funds
GoodForRefresh(c, at) == c.good /\ c.fits /\ ~InRenewWindow(c, at)

Evaluated(i, at) ==
    LET c == contracts[i] IN
    [id |-> i, append |-> GoodForAppend(c, at), funding |-> GoodForFunding(c),
     refresh |-> GoodForRefresh(c, at)]

FullyGood(e) == e.append /\ e.funding

(* Without the rule that a contract that can be refreshed is preferred to   *)
(* one that cannot.                                                         *)
ReplaceIfNotGood(cur, new) ==
    ~ \/ FullyGood(cur)
      \/ cur.append /\ ~new.append /\ ~new.refresh
      \/ cur.funding /\ ~new.funding /\ ~new.refresh

ShouldReplaceContract(cur, new) ==
    ~ \/ FullyGood(cur)
      \/ cur.refresh /\ ~new.refresh /\ ~FullyGood(new)
      \/ cur.append /\ ~new.append /\ ~new.refresh
      \/ cur.funding /\ ~new.funding /\ ~new.refresh

Best(b, h, e) ==
    IF h \notin DOMAIN b THEN [x \in DOMAIN b \cup {h} |-> IF x = h THEN e ELSE b[x]]
    ELSE IF ShouldReplaceContract(b[h], e) THEN [b EXCEPT ![h] = e] ELSE b

(* Contracts: a page of what is listed, in the order of the ids, counted    *)
(* from an offset.                                                          *)
Page(ids) ==
    LET before(i) == Cardinality({j \in ids : j < i})
    IN  {i \in ids : offset <= before(i) /\ before(i) < offset + PageSize}

(* The best contracts after those of a page are evaluated one by one.       *)
BestAfter(page) ==
    LET after[n \in 0..Len(contracts)] ==
            IF n = 0 THEN best
            ELSE IF n \in page THEN Best(after[n - 1], contracts[n].host, Evaluated(n, started))
            ELSE after[n - 1]
    IN  after[Len(contracts)]

-----------------------------------------------------------------------------
(***************************************************************************)
(* Blocking and renewals                                                   *)
(***************************************************************************)

(* BlockHosts: their contracts turn bad, and sectors not pinned yet are     *)
(* taken from them.                                                         *)
BlockHosts(bad) ==
    /\ blocked' = blocked \cup bad /\ unpinned' = unpinned \ bad
    /\ contracts' = [i \in DOMAIN contracts |->
           [contracts[i] EXCEPT !.good = @ /\ contracts[i].host \notin bad]]

BlockBadHosts ==
    /\ mPc = "idle"
    /\ BlockHosts({h \in MHosts \ (passing \cup blocked) :
                     \E i \in DOMAIN contracts : contracts[i].host = h /\ Revisable(contracts[i])})
    /\ mPc' = "listRenewals" /\ started' = height /\ offset' = 0
    /\ eligible' = {} /\ emptyHosts' = {}
    /\ UNCHANGED <<height, passing, changes, stuckHosts, hostMap, without, best, todo, goodContracts,
                   spaced, hasStuck, hasGood, sending, seen, unsent>>

Renewable(c) == c.good /\ Revisable(c)

ListRenewals ==
    /\ mPc = "listRenewals"
    /\ LET page == Page({i \in DOMAIN contracts : Renewable(contracts[i])})
           due  == {i \in page : InRenewWindow(contracts[i], started)}
       IN  /\ eligible' = eligible \cup {[id |-> i, empty |-> contracts[i].empty] : i \in due}
           /\ emptyHosts' = emptyHosts \cup
                  {contracts[i].host : i \in {j \in page \ due : contracts[j].empty}}
           /\ offset' = offset + PageSize
           /\ mPc' = IF Cardinality(page) < PageSize THEN "renew" ELSE "listRenewals"
    /\ UNCHANGED <<world, stuckHosts, started, hostMap, without, best, todo, goodContracts, spaced,
                   hasStuck, hasGood, sending, seen, unsent>>

(* AddRenewedContract: the old contract points to the new one.              *)
Renewed(i, proof) ==
    Append([contracts EXCEPT ![i].renewed = TRUE],
           NewContract(contracts[i].host, proof, contracts[i].empty))

(* The host must be good when it is asked, and take a contract that is      *)
(* still revisable.                                                         *)
CanRenew(i) ==
    /\ Len(contracts) < MaxContracts
    /\ IsGoodHost(contracts[i].host) /\ Revisable(contracts[i])

RenewContract(success) ==
    /\ mPc = "renew"
    /\ \E r \in eligible :
          LET h == contracts[r.id].host
              skip == r.empty /\ h \in emptyHosts
          IN  /\ \A s \in eligible : r.id <= s.id
              /\ success => ~skip /\ CanRenew(r.id)
              /\ contracts' = IF success THEN Renewed(r.id, started + Period) ELSE contracts
              /\ emptyHosts' = IF success /\ r.empty THEN emptyHosts \cup {h} ELSE emptyHosts
              /\ eligible' = eligible \ {r}
    /\ UNCHANGED <<height, passing, blocked, unpinned, changes, stuckHosts, mPc, started, offset, hostMap,
                   without, best, todo, goodContracts, spaced, hasStuck, hasGood, sending, seen, unsent>>

MarkUnrenewableContractsBad ==
    /\ mPc = "renew" /\ eligible = {}
    /\ contracts' = [i \in DOMAIN contracts |-> [contracts[i] EXCEPT
           !.good = @ /\ (contracts[i].renewed \/ contracts[i].proof > started + RenewWindow \div 2)]]
    /\ hostMap' = passing \ blocked /\ without' = passing \ blocked
    /\ best' = <<>> /\ offset' = 0 /\ mPc' = "listContracts"
    /\ UNCHANGED <<height, passing, blocked, unpinned, changes, stuckHosts, started, eligible, emptyHosts,
                   todo, goodContracts, spaced, hasStuck, hasGood, sending, seen, unsent>>

-----------------------------------------------------------------------------
(***************************************************************************)
(* Formation                                                               *)
(***************************************************************************)

(* Every revisable contract of a good host is evaluated, the bad ones too.  *)
EvaluateContracts ==
    /\ mPc = "listContracts"
    /\ LET listed == Page({i \in DOMAIN contracts : Revisable(contracts[i])})
           page   == {i \in listed : contracts[i].host \in hostMap}
           last   == Cardinality(listed) < PageSize
       IN  /\ best' = BestAfter(page)
           /\ without' = without \ {contracts[i].host : i \in page}
           /\ offset' = offset + PageSize
           /\ mPc' = IF last THEN "existing" ELSE "listContracts"
           /\ todo' = IF last THEN DOMAIN best' ELSE todo
           /\ seen' = seen \cup {[host |-> contracts[i].host, eval |-> Evaluated(i, started)] : i \in page}
    /\ goodContracts' = 0 /\ hasStuck' = {} /\ hasGood' = {} /\ spaced' = {}
    /\ UNCHANGED <<world, stuckHosts, started, eligible, emptyHosts, hostMap, sending, unsent>>

(* The outcome of forming or refreshing a contract with an existing host.   *)
(* A lack of funds of our own counts as success, though nothing is formed.  *)
Outcome(h, result) ==
    /\ todo' = todo \ {h}
    /\ goodContracts' = IF result = "failed" THEN goodContracts ELSE goodContracts + 1
    /\ hasGood' = IF result = "ok" THEN hasGood \cup {h} ELSE hasGood
    /\ hasStuck' = IF result = "failed" THEN hasStuck \cup {h} ELSE hasStuck

RefreshContract(h, result) ==
    /\ result = "ok" => CanRenew(best[h].id)
    /\ contracts' = IF result = "ok" THEN Renewed(best[h].id, contracts[best[h].id].proof)
                    ELSE contracts

CanForm(h) == IsGoodHost(h) /\ Len(contracts) < MaxContracts
Formed(h)  == Append(contracts, NewContract(h, height + Period, TRUE))

FormContract(h, result) ==
    /\ result = "ok" => CanForm(h)
    /\ contracts' = IF result = "ok" THEN Formed(h) ELSE contracts

Results == {"ok", "no funds", "failed"}

(* The best contract is good, or it is refreshed, or a new one is formed.   *)
MaintainExisting(h) ==
    /\ mPc = "existing" /\ h \in todo
    /\ \/ FullyGood(best[h]) /\ Outcome(h, "ok") /\ UNCHANGED <<contracts, without>>
       \/ \E result \in Results :
             /\ ~FullyGood(best[h]) /\ Outcome(h, result)
             /\ IF best[h].refresh THEN RefreshContract(h, result) ELSE FormContract(h, result)
             /\ without' = IF result = "ok" THEN without \ {h} ELSE without
    /\ UNCHANGED <<height, passing, blocked, unpinned, changes, stuckHosts, mPc, started, offset, eligible,
                   emptyHosts, hostMap, best, spaced, sending, seen, unsent>>

(* HostsWithUnpinnableSectors: unpinned sectors and no good contract.       *)
Unpinnable ==
    {h \in unpinned : \A i \in DOMAIN contracts :
        contracts[i].host = h => ~(contracts[i].good /\ Revisable(contracts[i]))}

ListUnpinnable ==
    /\ mPc = "existing" /\ todo = {}
    /\ todo' = Unpinnable \cap without /\ mPc' = "unpinnable"
    /\ UNCHANGED <<world, stuckHosts, started, offset, eligible, emptyHosts, hostMap, without, best,
                   goodContracts, spaced, hasStuck, hasGood, sending, seen, unsent>>

(* With a new host a lack of funds is a failure like any other.             *)
FormWithNewHost(h, success) ==
    /\ h \in todo
    /\ FormContract(h, IF success THEN "ok" ELSE "failed")
    /\ todo' = todo \ {h}
    /\ without' = IF success THEN without \ {h} ELSE without
    /\ goodContracts' = IF success THEN goodContracts + 1 ELSE goodContracts
    /\ hasGood' = IF success THEN hasGood \cup {h} ELSE hasGood
    /\ hasStuck' = IF success THEN hasStuck ELSE hasStuck \cup {h}

FormUnpinnable(h, success) ==
    /\ mPc = "unpinnable" /\ FormWithNewHost(h, success)
    /\ UNCHANGED <<height, passing, blocked, unpinned, changes, stuckHosts, mPc, started, offset, eligible,
                   emptyHosts, hostMap, best, spaced, sending, seen, unsent>>

TooNear(h, S) == h \in S \/ \E g \in S : <<g, h>> \in Near \/ <<h, g>> \in Near

(* SpacedSet.Add of every existing host: one too near to a host of the set  *)
(* is left out.  The map is ranged over in any order.                       *)
SpacedSets(S) ==
    {FoldLeft(LAMBDA set, h : IF TooNear(h, set) THEN set ELSE set \cup {h}, {}, s) : s \in SetToSeqs(S)}

(* Additional contracts are only formed below the target.                   *)
StartAdditional ==
    /\ mPc = "unpinnable" /\ todo = {}
    /\ IF goodContracts < Wanted /\ without # {}
       THEN mPc' = "additional" /\ todo' = without /\ spaced' \in SpacedSets(DOMAIN best)
       ELSE mPc' = "stuck" /\ UNCHANGED <<todo, spaced>>
    /\ UNCHANGED <<world, stuckHosts, started, offset, eligible, emptyHosts, hostMap, without, best,
                   goodContracts, hasStuck, hasGood, sending, seen, unsent>>

(* A candidate without storage, priced near the limits or too near to       *)
(* another host is passed over.                                             *)
FormAdditional(h, success) ==
    /\ mPc = "additional" /\ goodContracts < Wanted
    /\ ~TooNear(h, spaced) /\ FormWithNewHost(h, success)
    /\ spaced' = IF success THEN spaced \cup {h} ELSE spaced
    /\ UNCHANGED <<height, passing, blocked, unpinned, changes, stuckHosts, mPc, started, offset, eligible,
                   emptyHosts, hostMap, best, sending, seen, unsent>>

SkipCandidate(h) ==
    /\ mPc = "additional" /\ goodContracts < Wanted /\ h \in todo
    /\ todo' = todo \ {h}
    /\ UNCHANGED <<world, stuckHosts, mPc, started, offset, eligible, emptyHosts, hostMap, without,
                   best, goodContracts, spaced, hasStuck, hasGood, sending, seen, unsent>>

UpdateStuckHosts ==
    /\ \/ mPc = "stuck"
       \/ mPc = "additional" /\ (todo = {} \/ goodContracts >= Wanted)
    /\ stuckHosts' = hasStuck \ hasGood
    /\ mPc' = "broadcast" /\ todo' = {} /\ sending' = <<>>
    /\ unsent' \in SUBSET {i \in DOMAIN contracts : Revisable(contracts[i])}
    /\ UNCHANGED <<world, started, offset, eligible, emptyHosts, hostMap, without, best,
                   goodContracts, spaced, hasStuck, hasGood, seen>>

-----------------------------------------------------------------------------
(***************************************************************************)
(* Broadcast of revisions                                                  *)
(***************************************************************************)

ForBroadcasting == {i \in unsent : Revisable(contracts[i])}

ClearPass ==
    /\ started' = 0 /\ offset' = 0 /\ eligible' = {} /\ emptyHosts' = {} /\ hostMap' = {}
    /\ without' = {} /\ best' = <<>> /\ todo' = {} /\ goodContracts' = 0 /\ spaced' = {}
    /\ hasStuck' = {} /\ hasGood' = {} /\ sending' = <<>> /\ seen' = {}

(* Batches are fetched until one is not full; the pass ends.                *)
ContractsForBroadcasting ==
    /\ mPc = "broadcast" /\ sending = <<>>
    /\ sending' \in {SetToSeq(S) : S \in kSubset(Min({BroadcastBatch, Cardinality(ForBroadcasting)}),
                                                 ForBroadcasting)}
    /\ mPc' = IF Len(sending') < BroadcastBatch THEN "last batch" ELSE "broadcast"
    /\ UNCHANGED <<world, stuckHosts, started, offset, eligible, emptyHosts, hostMap, without, best,
                   todo, goodContracts, spaced, hasStuck, hasGood, seen, unsent>>

MarkBroadcastAttempt(i, sent) == unsent \ {i}

(* An attempt is marked whether the revision could be broadcast or not.     *)
BroadcastRevision(sent) ==
    /\ mPc \in {"broadcast", "last batch"} /\ sending # <<>>
    /\ unsent' = MarkBroadcastAttempt(Head(sending), sent)
    /\ sending' = Tail(sending)
    /\ UNCHANGED <<world, stuckHosts, mPc, started, offset, eligible, emptyHosts, hostMap, without,
                   best, todo, goodContracts, spaced, hasStuck, hasGood, seen>>

EndPass ==
    /\ mPc = "last batch" /\ sending = <<>>
    /\ mPc' = "idle" /\ unsent' = {} /\ ClearPass
    /\ UNCHANGED <<world, stuckHosts>>

-----------------------------------------------------------------------------
(***************************************************************************)
(* Meanwhile                                                               *)
(***************************************************************************)

NewBlock ==
    /\ height < MaxHeight /\ height' = height + 1
    /\ UNCHANGED <<contracts, passing, blocked, unpinned, changes, stuckHosts, mPc, passState, unsent>>

(* A contract is used while the pass runs: sectors are pinned, which takes  *)
(* room, or pruned, which gives it back; accounts are funded; the operator  *)
(* deletes it.                                                              *)
UseContract(i) ==
    /\ Revisable(contracts[i])
    /\ contracts' \in {[contracts EXCEPT ![i].room = ~@], [contracts EXCEPT ![i].fits = ~@],
                       [contracts EXCEPT ![i].empty = ~@], [contracts EXCEPT ![i].funds = FALSE],
                       [contracts EXCEPT ![i].good = FALSE]}
    /\ contracts' # contracts /\ changes < MaxChanges /\ changes' = changes + 1
    /\ UNCHANGED <<height, passing, blocked, unpinned, stuckHosts, mPc, passState, unsent>>

(* A scan finds the host usable or not.                                     *)
HostScanned(h) ==
    /\ passing' = IF h \in passing THEN passing \ {h} ELSE passing \cup {h}
    /\ changes < MaxChanges /\ changes' = changes + 1
    /\ UNCHANGED <<contracts, height, blocked, unpinned, stuckHosts, mPc, passState, unsent>>

(* The operator blocks a host.                                              *)
BlockHost(h) ==
    /\ BlockHosts({h})
    /\ changes < MaxChanges /\ changes' = changes + 1
    /\ UNCHANGED <<height, passing, stuckHosts, mPc, passState, unsent>>

(* UnblockHost and RemoveBlocklistReasons: all contracts of the host count  *)
(* as good again, the ones that were bad for another reason too.            *)
UnblockHost(h) ==
    /\ blocked' = blocked \ {h}
    /\ contracts' = [i \in DOMAIN contracts |->
           [contracts[i] EXCEPT !.good = @ \/ contracts[i].host = h]]
    /\ changes < MaxChanges /\ changes' = changes + 1
    /\ UNCHANGED <<height, passing, unpinned, stuckHosts, mPc, passState, unsent>>

PassStep ==
    \/ BlockBadHosts \/ ListRenewals \/ MarkUnrenewableContractsBad \/ EvaluateContracts
    \/ \E success \in BOOLEAN : RenewContract(success) \/ BroadcastRevision(success)
    \/ \E h \in MHosts :
          \/ MaintainExisting(h) \/ SkipCandidate(h)
          \/ \E success \in BOOLEAN : FormUnpinnable(h, success) \/ FormAdditional(h, success)
    \/ ListUnpinnable \/ StartAdditional \/ UpdateStuckHosts
    \/ ContractsForBroadcasting \/ EndPass

MaintenanceNext ==
    \/ PassStep \/ NewBlock
    \/ \E i \in DOMAIN contracts : UseContract(i)
    \/ \E h \in MHosts : HostScanned(h) \/ BlockHost(h) \/ UnblockHost(h)

MaintenanceSpec == MaintenanceInit /\ [][MaintenanceNext]_maintainVars

-----------------------------------------------------------------------------
(***************************************************************************)
(* Properties                                                              *)
(***************************************************************************)

(* A new contract with a host that has contracts is formed only when none   *)
(* of those evaluated in this pass was, when it was evaluated, good for     *)
(* both uses or fit for a refresh, in whatever order and on whatever pages  *)
(* they were listed (shouldReplaceContract).  A contract a shifted page     *)
(* left out is not evaluated, and one that gets better later in the pass is *)
(* judged by what it was.                                                   *)
NoNeedlessContract ==
    [][\A h \in MHosts :
          mPc = "existing" /\ h \in todo /\ Len(contracts') > Len(contracts) /\ contracts' = Formed(h)
          => \A e \in seen : e.host = h => ~FullyGood(e.eval) /\ ~e.eval.refresh]_maintainVars

(* A host with which an additional contract is formed is sufficiently far   *)
(* from every other host a good contract exists with, as the comments of    *)
(* performContractFormation say.                                            *)
NewHostsAreSpaced ==
    [][\A h \in MHosts :
          mPc = "additional" /\ contracts' = Formed(h) =>
             ~TooNear(h, DOMAIN best \cup hasGood)]_maintainVars
=============================================================================
