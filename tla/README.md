# indexd in TLA+

indexd is an indexer for the Sia storage network: applications upload erasure
coded slabs to hosts, tell indexd about them, and indexd keeps the data alive.
It forms and renews contracts with hosts, pins sectors to contracts, checks
that hosts still have them, migrates sectors away from bad hosts, and deletes
what nobody needs any more. All of its state is in one Postgres database that
the HTTP APIs, the chain subscriber and a dozen background loops change
concurrently; the hosts are reached by RPCs that can fail at any point.

This directory models the parts of that where the order of events matters.
There is one module per component, abstract specifications (`ContractMutex`,
`Statistic`, `SlabMove`) that three of them implement, `MC*` modules and `.cfg`
files with instances for TLC, and `*Proofs` modules with proofs for TLAPS. `PROJECT.json` maps every
definition to the lines it models.

## Inventory

| component (`src/`) | module | state | hard behaviour | what makes it correct |
|---|---|---|---|---|
| sectors table (`persist/postgres/sectors.go`, `contracts.go`, `hosts.go`) | `SectorStore` | `sectors`, `slab_sectors`, `contract_sectors_map`, statistics, host counters | a dozen writers with stale arguments; counters kept by hand | a pinned sector is on its contract's host; counters are exact; no sector without slab |
| slab pins (`sectors.go`, `objects.go`, `slabs.go`, `accounts.go`) | `SlabGC` | `slabs`, `account_slabs`, `objects`, `slab_deletion_queue`, pinned totals | checks and writes in different statements under READ COMMITTED; row locks in several orders | nothing in use is deleted, everything unused is, quotas are charged what is pinned |
| contract locker (`contracts/locking.go`) | `ContractLocker` | map of reference-counted mutexes | an entry is dropped while others wait for it | mutual exclusion per contract, no leak, no starvation |
| pinning and pruning on hosts (`contracts/pinning.go`, `pruning.go`, `revision.go`) | `ContractSectors` | host's contract roots, local revision | an RPC succeeds and the answer or the process is lost | nothing pinned is freed on the host |
| contract lifecycle (`contracts/chain.go`, `subscriber`) | `ContractChain` | contract state, elements, scanned height | reorgs, blocks that come before the row, restarts | states and elements follow the chain, no tip is overlooked |
| contract maintenance (`contracts/form.go`, `renew.go`, `maintenance.go`, `broadcast.go`) | `ContractMaintenance` | contracts, best contract per host, stuck hosts | contracts and hosts change under a pass that lists them page by page | no contract is formed where one can be refreshed |
| funding (`contracts/funding.go`, `funder.go`, `persist/postgres/funding.go`) | `Funding` | fund times and failures per pool, balances, attachments | requests fail in the middle of a batch; contracts run dry | what is stored as funded was credited; a pass ends |
| slab repair (`slabs/migrations.go`, `persist/postgres/slabs.go`) | `SlabRepair` | `next_repair_attempt`, failures, snapshots, results | claims run out, results are applied late, sector by sector | shards stay on different hosts, none is forgotten, repairable slabs are repaired |
| shard transfers (`slabs/downloads.go`, `uploads.go`, `client/v2/hostqueue.go`) | `SlabTransfer` | downloads, hedges, slots in flight, upload pool | races, cancellation between reserving and starting | slots are returned, every host is asked, nobody waits for nothing |
| remote migrator (`slabs/remote.go`) | `RemotePass` | two channels, a group of results, a report in flight | a report fails while workers go on | every result is offered once, nothing blocks |
| integrity checks (`slabs/dataintegrity.go`, `sectorverifier.go`, `accounts/serviceaccounts.go`) | `IntegrityChecks` | `next_integrity_check`, failed checks, service account | claims and interruptions; an account that runs dry | a sector is lost only if the host said so or failed often enough; every sector is checked |
| object events (`persist/postgres/objects.go`, `blocked.go`) | `ObjectEvents` | events, blocked objects, a client's cursor and copy | events are stamped at the start of a transaction and seen at its end | a cursor passes no event but those committed late |
| application keys (`persist/postgres/apps.go`, `quotas.go`, `api/app/app.go`) | `AppKeys` | requests, connect keys, quotas, accounts | handlers and registrations race | an approval registers one account, with the key it was given |
| statistics (`persist/postgres/stats.go`, `stats/manager.go`) | `StatsDeltas` | statistics and their deltas | ids are taken before the commit, batches cut anywhere | no update is lost, nothing falls below zero |
| hosts (`hosts/`, `persist/postgres/hosts.go`) | `Hosts` | scans, failures, usability, blocklist | late scan results, blocklist read and written in two statements | hosts are pruned for their own failures, every host is scanned |
| RHP client (`client/v2/client.go`) | `HostClient` | cached transport, dials, waiters | dials, resets and `Close` overlap | no connection leaks, no waiter is forgotten |
| HTTP dispatch, alerts, explorer, geoip, price pinning, wallet store, daemon, keys, schema migrations | none | | dispatch and I/O | see "Not modelled" |

The components interact through the database (every arrow below is a
transaction) and through the contract locker:

    apps ── PinSlabs, PinObject, UnpinSlab, DeleteObject ──▶ slabs, objects, sectors
    contract maintenance ── form, renew, delete ──▶ contracts, contract_sectors_map
    pinning loop ── AppendSectors (host), PinSectors, MarkSectorsLost ──▶ sectors
    pruning loop ── SectorRoots, FreeSectors (host) ◀── PrunableContractRoots
    integrity checks ── RecordIntegrityCheck, MarkSectorsLost ──▶ sectors, hosts
    repair loop ── MarkSectorsLost, MigrateSector, MarkSlabRepaired ──▶ sectors, slabs
    remote nodes ── MigrationBatch, ReportMigrationResults ──▶ repair state, sectors
    account and slab managers ── PruneAccounts, PruneDeletedSlabs ──▶ slabs, sectors
    funding loop ── ReplenishPools (host), UpdateHostPools ──▶ host accounts and pools
    scan loop ── UpdateHostScan, RemoveBlocklistReasons, PruneHosts ──▶ hosts, blocklist
    stats manager ── FlushStatsDelta ──▶ statistics
    chain subscriber ── UpdateChainState ──▶ contracts, scanned height

## Modules

### SectorStore

State: which slabs and sectors have a row, a sector's `host_id`,
`contract_sectors_map_id`, `consecutive_failed_checks` and whether its
`uploaded_at` is past the pinning threshold; the rows of
`contract_sectors_map`; which contracts exist and which of them new data may
use; the scanned height; the statistics and the two counters of a host.

One action is one transaction: `PinSlabs`, `DeleteOrphanedSlabs`, `PinSectors`,
`MarkSectorsLost`, `MarkFailingSectorsLost`, `RecordIntegrityCheck`,
`MigrateSector`, `MarkSectorsUnpinnable`, `BlockHost`, `AddFormedContract`,
`AddRenewedContract`, `DeleteContract`, `PruneContractSectorsMap`,
`ResetLostSectors`; `UpdateContractStatus` stands for all that only makes a
contract usable or not, `UpdateHeight` for the chain, and `Age` for time.
Transactions are atomic here because each of them locks the rows it classifies
(`FOR UPDATE`, or the `UPDATE ... RETURNING` itself) before it counts them, and
the foreign keys make the remaining overlaps (a `PinSectors` against a
`DeleteContract` of the same map row) fail with an error, that is, with no
effect. The workers read their arguments long before they use them, so actions
take any host, contract and set of roots.

A statistic is one number here; in the database it is a row and its pending
deltas, which `SUM` together (`Statistic` is what `StatsDeltas` is shown to make of
that). A contract's map row is named by the contract it
was created with, because a renewal repoints the row and keeps its id. The
limit "more than 20% of parity shards" is written with integers. `PinSlabs`
pins one slab; a call with several is a sequence of them in one transaction.

The instance has two slabs that share a sector, two hosts, a contract with
each and a third one for a renewal, and two heights around proof and
expiration heights. The bounds `MaxFailed`, `MaxLost`, `MaxHeight` are the
smallest at which both sides of every comparison occur.

### SlabGC

Postgres runs these transactions under READ COMMITTED, so two statements of
one transaction see different states, and only row locks keep what one has
checked true for the next. A transaction is therefore split: it starts with
the reads it makes before locking, locks slab rows one at a time in digest
order (`LockSlab`; `FOR KEY SHARE`, `FOR NO KEY UPDATE` and `FOR UPDATE` conflict
as in Postgres; a row the `SELECT` does not find is not locked, `SkipUnseen`),
`PinSlabs` then upserts in the caller's order (`UpsertSlab`), `PinObject` and the
deletion loop check under the locks in a step of their own, `PinObject` inserts
its `object_slabs` in the order of the object, where the foreign key takes the
lock of a slab the `SELECT` did not find (`InsertObjectSlab`), and the commit makes
the writes visible. `Rollback` can end a transaction at any point before; a retry is a new
start. `DeleteAccount` and a batch of `PruneAccounts` lock no slab and are
single steps.

A slab counts as one unit of pinned data. An object's key is the hash of its
slabs, so `ObjectSlabs`, a list of slabs per object, is a constant. Queue rows of a slab that was deleted
are dropped with it: a slab pinned again gets a new id, so they would do
nothing. The cutoff of `PruneSlabs` is assumed not to lie in the future. There
is one deletion loop. `stray` is a history variable: slabs a `PinObject` attached
to an object after the account's pin was gone, which its check does not see when
the row was not there to lock or the account is pruned meanwhile.
`UnpinnedIsQueued` excludes them; `AllSlabsReclaimed`, which `leaked_slab`
refutes, does not.

### ContractLocker, ContractMutex

A critical section of `cl.mu` is one action; waiting for, taking and leaving a
contract's own mutex are others, as is dropping the reference afterwards.
`LockedContract` values come from a set of objects nobody refers to.
`ContractMutex` is what the callers rely on: `owner[c]` and its acquisition and
release. The refinement mapping takes as owner of `c` the goroutine that is
between `lc.mu.Lock()` and `lc.mu.Unlock()` for it.

Fairness: whoever holds a contract eventually unlocks it (weak fairness of
`UnlockMutex`, `DropReference`; the RPCs made under the lock have deadlines),
and strong fairness of `LockMutex`, because Go's `sync.Mutex` hands the lock
to a waiter that has waited for more than a millisecond. Nothing is assumed
about goroutines that are idle.

### ContractSectors

One host's contracts, as the host and as the database see them: the sectors and
the revision number of a contract on the host, whether it was renewed there,
what the host keeps in temporary storage; the database's revision number and
size, `good`, `renewed_to` and map row of a contract, and where it thinks a
sector is and to which contract it is pinned. `owner` is the lock, taken and
released by the actions of `ContractMutex`, which `ContractLocker` implements.

Three goroutines of `maintenanceLoop` work on contracts: `maintenance` prunes
(`StartPrune`, `OpenContract`, `SectorRoots`, `CompareRoots`, `FreeSectors`) and
then pins (`StartPin`, `AppendSectors`, `ReportMissing`, `PinSectors`), `renewal`
forms (`FormContract`), renews or refreshes contracts (`RenewContract`,
`AddRenewedContract`), `funding` spends from them (`ReplenishAccounts`). All go through `WithRevision`: the RPC is one action,
storing its revision (`UpdateContractRevision`) the next, and `SyncRevision` is
what happens when the host's revision is not the database's. An answer may be
lost (the last disjunct of `Revise`), a call may fail without effect
(`GiveUp`, which also stands for prices, allowances, sizes and heights that do
not allow it), the process may stop (`Crash`), and the host may fall back to an
older revision (`Restore`, once in a behaviour). Clients, repairs, checks and administrators change
sector rows at any time (`Upload`, `Arrive`, `Leave`, `DeleteContract`).

The host is modelled from what the code relies on: it accepts a revision only if
it follows its own, appends the sectors it has, frees by index and may reorder
the rest. Temporary storage may end at any time except between
`PrunableContractRoots` and `FreeSectors`: it lasts three days
(`UnpinnableSectorThreshold`), those two calls follow each other. The end of a
contract and `PruneContractSectorsMap` are not part of this module. If the
write in `syncRevision` fails the code goes on with the revision it fetched;
the model stores it or gives up.

`MaxRev` bounds the RPCs on a contract: four are what it takes to append two
sectors, list both batches and free one; three to append, list and free.

### ContractChain

The best chain is a sequence of blocks, each about one contract at most
(creation, revision, resolution, renewal); `Mine` and `Reorg` change it and put
a token in the subscriber's channel. The database has the scanned blocks (in the
code their index) and for each contract whether it has a row, its `state`, its
element (revision number and the height its Merkle proof is for) and whether
`renewed_to` is set.

`Sync` is a sequence of actions of one goroutine under `syncMu`: `StartSync`
takes the token, `UpdateChainState` reverts and applies one batch of blocks in
one transaction, `ResetChainState` starts over when the chain manager has lost
the blocks of the scanned index, `Synced` ends the loop, then come the steps of
`ProcessActions` in their order (`PruneContractSectorsMap` is in `SectorStore`).
A contract is on the network (`FormContract`, `RenewContract`) before its row
exists (`AddFormedContract`, `AddRenewedContract`), and the insert may never
happen (`LoseContract`, `Crash`).

What the transaction makes of one row is the recursive function `RowAfter` over
the batch. A transaction is one step: `knownContracts` makes it treat a contract as known or
unknown throughout, an insert it did not see is as good as one that comes after
it, and the update of a renewed contract's row waits for its lock. Which pending
contracts are six hours old is left open. What `UpdateElementProof` makes of a
proof that is not for the parent block is called garbage. `detached` is a history
variable: the contracts with a row that was not told of their creation, because
the block was scanned before the insert or because the scan started over. The
properties about rows exclude them. For the first kind the code does nothing
(`RejectedNeverMined` does not hold, see "Disagreements"); of the second kind
remain, after a rescan, the contracts of an abandoned fork.

Fairness: the subscriber's goroutine keeps running (`Fairness` is weak fairness
of `Sync`). Crashes and rescans are bounded by `MaxFaults`.

One contract and its renewal, five blocks and two reorganisations of up to two
blocks are enough to confirm a renewal, take it back in the middle of a batch of
two, and to reach the heights of proof, expiration and pruning.

`RowsFollowChain` joins what has to hold of a row: its state and its element
are those the scanned blocks make of the contract, with a proof for the scanned
tip, and `renewed_to` is set as long as a renewal with a row is confirmed.

### SlabRepair

One slab with its sectors' hosts and contracts as the database has them, what
the hosts really keep, `consecutive_failed_repairs` and the time left until
`next_repair_attempt`. A migrator is a goroutine of `performSlabMigrations` or a
remote node; its `job` holds the snapshot it works from and what it has to
report. `ClaimLocal` and `PrepareMigrationBatch` are `UnhealthySlabs` with what
follows it on either side. The local loop reads the slab later, with `ReadSlab`,
and judges its contracts by the hosts and healthy contracts fetched with the claim
(`BadSince`): a contract that turned bad since still counts as healthy, one formed
or renewed since as bad. `ToMigrate`, `Kept` and `CandidateSets` are `sectorsToMigrate`; the
candidates are any maximal set of hosts far enough apart because the code
shuffles them. `RecoveryFails`, `SkipSlab` and `MigrateSlab` are the outcomes of
`MigrateSlab`; `ApplyLost`, `RecordMigrated` and `MarkSlabRepaired` are the
transactions of `applyMigrationResult`, `DropJob` a crash or a report that is
lost. The event `RecordSlabMigrated` bumps in its transaction is in `ObjectEvents`. `Backoff` is computed in `WordBits` bits as the code does in 64.
Everything else that touches the slab is there too: pins, losses, sectors given
up, contracts that turn bad or, when a host is unblocked, good again
(`ContractGood`), hosts that change, clients that pin the slab again, deletion.

Claims do not exclude each other in time, only in `next_repair_attempt`; a
migration may take longer than a claim. `OneSectorPerHost` therefore speaks of
behaviours in which no two attempts overlapped; that no shard is lost
(`ShardsOnlyLostByHosts`) holds without that condition.

### SlabTransfer, SlabMove

What happens inside `RecoveryFails` and `MigrateSlab`: chunks are recovered a few
at a time, each reserving slots and starting `MinShards` downloads
(`PickReads`, `SpawnInitial`, or `AbandonInitial` when the context ends between
the two), hedging with more hosts while others fail or are slow (`RaceStep`,
`Hedge`), then uploads draw hosts from a shared pool (`PickWrite`,
`WriteEnds`). Downloads end in any way and at any time; hosts may become
unusable; the whole may be cancelled. `untried` is a history variable: usable
hosts a failed chunk was not asked from.

The guards of the actions are operators (`MayStart`, `MayPick`, `MayHedge`, ...);
`TransferReady` is their disjunction, and `TransferNotStuck` says that it holds
until the transfer is over. On the instance of `services`, `TransferReady` is true
exactly where `TransferSteps` is enabled. `RemotePass` does the same with
`PassReady`.

`SlabMove` is what `SlabRepair` relies on in `RecoveryFails` and `MigrateSlab`,
where all of this is one step: the sectors reported lost are some of those that
are not there (`ReportedLost`), recovery succeeds only if enough of them are
(`Cardinality(Readable(m)) >= MinShards`), and the shards that are stored are
paired with different hosts (`Uploads`). The refinement mapping takes `result` as
the outcome, `excluded` as what is lost and the shards in "stored" with their
hosts as what has moved.

### RemotePass

`runPass`: producer (`FetchBatch`, `FeedSlab`), workers (`TakeSlab`,
`MigrateRemote`, `SendResult`), collector (`Collect`, `FlushTick`,
`FinishReport`, `ResultsClosed`, `LastReport`) and the two channels between them,
of which the second is buffered. A failed report cancels the pass and the
collector goes on to drain results. `offered` counts how often a result was sent
to the primary, `persisted` holds the results the primary stored and `migrated` the
reports that succeeded, whose sectors count as progress. A report succeeds unless
none of its results can be stored (`Storable`, from `ApplyMigrationResults`); one
that failed may have stored any of them.

### IntegrityChecks

The checks of one host, from `HostsForIntegrityChecks` to the four transactions
that store results in the order of the code (lost, failed, successful, then
`MarkFailingSectorsLost`). Time is counted in claim lengths: time does not pass
while a sector that is due waits for the pass, because passes start every minute
and a claim lasts half an hour. A reply is anything the host can say; what a
check costs and what the service account holds are numbers, because an account
that runs dry interrupts a check in the middle. A verifier resets the account's
balance once (`wasReset`).

Fairness (`ChecksFairness`): the loop runs, its calls end, time passes, and
accounts are funded. `EverySectorChecked` starts when host and network behave
(`CalmDown`) and says nothing about others.

### Funding

One host: pools with their `next_fund` and failures, contracts with what they can
pay, the host's own records. The pass (`StartFunding`, or `SkipFunding` for a host
that is blocked, not usable or cannot be scanned, `FetchPools`,
`SplitBatch`, `Replenish`, `FinishGroup`, `UpdateHostPools`, `NextQuota`,
`AttachPools`) has the code's three loops (quotas, batches, upload and read
groups) and the funder's loop over contracts, including what it does when a
request fails after others succeeded: a contract that is locked is passed over
(`SkipContract`), a failed request leaves the position where it was
(`ReplenishFails`), and one whose revision cannot be saved moves it on and asks the
next contract (`Replenish(FALSE)`). The database answers with any selection of
the rows in its limit (`Selections`), `SplitBatch` keeps their order
(`InBatchOrder`). A pool is an account on hosts without pool
support: the code for the two is the same but for the names. Amounts are small
numbers; targets are constants, zero included, but for the service account's:
`HostFundTarget` is zero only for a host that charges nothing for reads and
writes, and then `FundServiceAccounts` (`funding.go:240`), which unlike
`FundAccounts` does not look for a zero target, has the funder divide by it
(`funder.go:98`). That panic is outside the model; `FundingAssumption` names the condition.

### ContractMaintenance

A pass of `performContractMaintenance` in the order of the code. A contract is
what the decisions look at: host, proof height, good, renewed, empty, funds and
room, and whether a refresh of it would fit. A contract's id is its position in
the table; a page is the set of the `PageSize` ids from an offset on, among those
the query selects in a table that changes meanwhile (`Page`), and its rows are
evaluated one after the other, which is the recursive function `BestAfter` over
the ids of the page. The world is in `NewBlock`, `UseContract` (sectors are pinned
or pruned, accounts funded, a contract is deleted by hand), `HostScanned`,
`BlockHost` and `UnblockHost`, which makes all contracts of the host good again.
`seen` is a history variable: the evaluations of the pass, each with its host. A
contract a shifted page leaves out is not evaluated and not judged.

### Hosts

`hosts` rows and blocklist, the scan loop with its places (`HostsForScanning`,
`StartScan`, `FinishScan`, `AbortScan`), scans made by contract workers
or the operator (`ScanHost`, `FinishWorkerScan`; any host may be scanned, with or
without a contract), `PruneHosts`, automatic and manual
blocking in two statements (`BlockRead`, `BlockWrite`), unblocking, and what
contract formation adds. A scan keeps the failures it read when it started.
`missed` and `banned` are history variables: the failures a host really had in
a row, and the hosts an operator wants blocked.

Fairness (`HostsFairness`): the loop runs, a scan is bounded by a timeout, time
passes. Strong fairness of `FinishScan` says that a scan that is tried again and
again is not interrupted every time by a shutdown or a network that is down; it
is not assumed of hosts that hang (`Hanging`).

### AppKeys, ObjectEvents, StatsDeltas, Statistic

`AppKeys` keeps the requests in memory under the mutex of the handlers and keys
and accounts in the database; `RegisterAppKey` is split into the statement that
counts the key's accounts, the row lock and the insert, because under READ
COMMITTED the count is as old as the statement. The transaction may fail after the
handler has consumed the request. A request's id is not used again.

`ObjectEvents` has a clock that counts seconds. A transaction stamps its event
with the second it began in and shows it when it commits, at most `MaxDelay`
seconds later. Objects are pinned, deleted and unblocked, and the sectors of their
slabs move (`placed`), which `RecordSlabMigrated` announces in a transaction after
the moves; if it fails, the code logs that and the move stays unannounced
(`moved`). `late` holds the objects whose event was committed after its second was
over and a page beyond it had been read: a history variable like `moved`. A client lists pages in two statements, which see different
states, and keeps a copy. A page is a set of events with its last one: the order
within a page plays no role once it has been cut. `OnlyLatePassed` says that nothing but such
events is passed, however long transactions take; `NothingPassed`, without the
exception, is what the cursor's comment says, and `late_events` refutes it.

`StatsDeltas` takes ids from a sequence at the insert and shows deltas at the
commit, so that they appear out of order; rows that are counted are locked by the
transaction that changes them, which is why deltas of one row are in order. A
delta carries the row it is about as history; no action looks at it.
`Statistic` is what the other queries use: a number that changes in the step in
which a row comes or goes, of which an unsigned and older value may be shown. The
refinement mapping takes `stat_value` with the pending deltas as the number, and
`stat_value` as what is shown.

### HostClient

The transport of one host: callers that find it cached, wait for a dial or dial
themselves; attempts on several addresses, limited by a semaphore; the first
connection is cached, others are closed; transport errors reset it; `Close`
stops the threadgroup and closes what is cached. `Untracked` is empty: with a
call that is not in the threadgroup `NothingOpenAfterClose` does not hold. The only
such call is `AccountBalance`, which has no caller in the repository.

## Runs

| run | instance | states | result |
|---|---|---|---|
| `sector_store` | 2 slabs, 2 sectors, 2 hosts, 3 contracts | 670 000 | holds |
| `slab_gc` | 2 accounts, 1 slab, 1 object, 2 connections | 930 000 | holds |
| `slab_locks` | 1 account, 2 slabs, an object of both, backwards, deleted in batches of 2, `PinSlabs` of one or, backwards, of both | 690 000 | holds |
| `leaked_slab` | 1 account, 1 slab | | a slab nobody pins, references or deletes |
| `contract_sectors` | 2 sectors, 1 contract, batches of 1; pruning, pinning, funding | 310 000 | holds |
| `contract_renewal` | 1 sector, 1 contract and a second one, formed or its renewal; pruning, pinning, forming, renewing | 3 600 000 | holds |
| `contract_chain` | 1 contract and its renewal, 5 blocks, 2 reorganisations, batches of 2, 1 crash or rescan | 700 000 | safety holds, the scanned chain catches up |
| `services` | nine components, see below | 3 200 000 | safety and a refinement hold |
| `slab_health` | `SlabRepair`: 2 sectors of which 1 suffices, 3 hosts, a local and a remote migrator, 2 faults; `IntegrityChecks`: 2 sectors | 320 000 | safety and liveness hold |
| `hosts` | `Hosts`: all that happens to 1 host; scans of 2 hosts of which one may hang, with 1 place for both; 2 failures; `ContractLocker`: 3 goroutines, 2 contracts | 126 000 | safety, refinement and liveness hold |
| `funding_loop` | 1 contract, 2 pools, a batch of 2, reads for free | | funding never ends |
| `late_events` | 2 objects, 2 transactions of up to a second | | an event is passed |

`MCServices`, `MCSlabHealth` and `MCHosts` hold several components that share no
state. A variable `part`, fixed in the initial state, says which of them runs;
the others stay in an initial state. The state space is the sum of those of the
components, not their product, and a property of a component is checked in all
its behaviours and trivially in those of the others. Fairness is given to the
component that runs. `MCHosts` has two parts for `Hosts`: everything that happens to
one host, and scanning, pruning and unblocking for two.

Bounds of `services`: transfers of 2 chunks and 2 shards over 3 slab hosts, one
of which lost its sector, and 2 upload hosts; passes of 2 batches of 2 slabs with
2 workers; 3 callers, 2 addresses and 4 connections; 2 objects and 3
transactions of up to a second; 2 requests, 2 keys, one use; 2 rows and 2 transactions with 6
deltas; 2 pools of one quota among two, 2 contracts with up to 2 coins each; 2 hosts and 3 contracts in
maintenance; 2 sectors checked with money for one or two. These are the smallest
in which a second actor meets the first in the middle of what it does and a
batch is cut.

Two connections are enough for the races between two transactions, which are
the ones the comments in the code argue about; the deletion loop is one of the
two where it takes part. Deadlock checking is off where the system really may
stop: in `SlabGC` when all accounts are deleted and nothing is queued, or the
bound on queue rows is reached; in `ContractChain` because the chain ends at
`MaxHeight`; in the other runs that say so because transfers and passes end and
calls are bounded. `TransferNotStuck` and `PassNotStuck` say there that nothing
stops too early.

`ImplementsStatistic` in `services` implies `StatsNeverUnderflow`, and
`ImplementsMove` holds on that instance too; no run lists the two, to keep
`services` within minutes. Both are proved.

Every property of a passing run has a mutant in `PROJECT.json`: a plausible
mistake in one definition, written as an operator before it, with which TLC
finds the property violated.

## Disagreements between code and comments

Three are runs that end in a violation (`findings` in `PROJECT.json`): a slab
leaked by a `PinObject` that overlaps `PruneAccounts`, a funding pass that never
ends, events a cursor passes. Others are properties of the modules that no run
lists because they do not hold; adding one to the `.cfg` of its module shows the
counterexample, with the changes to the instance given in parentheses:

| property | what the code says | what it does |
|---|---|---|
| `FailedChecksOfCurrentHost` (`SectorStore`) | a sector is lost when "the host has failed the integrity check for that sector enough times" (`sectors.go:37`) | a lost sector keeps its failed checks, and they count against the host that stores it next |
| `KeyTotalsExact` (`SlabGC`) | "the account's pinned totals are reclaimed from its connect key immediately" (`accounts.go:135`) | a `PinSlabs` that comes after `DeleteAccount` charges the key for good |
| `ObjectSlabsPinned` (`SlabGC`) | "a slab that is still referenced by one of the account's objects can not be unpinned" (`sectors.go:711`) | a slab pinned after `PinObject` took its locks can be |
| `RejectedNeverMined` (`ContractChain`) | "rejected: the contract didn't make it into a block" (`contract.go:95`) | a contract whose block is scanned before its row is inserted stays pending and is rejected |
| `BackoffIsKept` (`SlabRepair`; `WordBits = 3`, three failures) | "a minimum of 1 hour must pass between consecutive migration attempts" (`sectors.go:1060`) | from 22 failures in a row the back-off overflows 64-bit nanoseconds and is in the past (`slabs.go:44`) |
| `QuotaRespected` (`AppKeys`) | a key that is exhausted registers no account (`apps.go:390`) | two registrations may both count before either inserts |
| `RegisteredIsUsable` (`AppKeys`; both requests from one application) | the handler reports success | a soft-deleted account that registers again stays deleted (`accounts.go:325`) |
| `ManualBlocksStay` (`Hosts`) | hosts blocked by hand are left alone (`hosts/manager.go:687`) | `BlockHosts` reads reasons and writes them back; a manual reason written in between is lost and the host is unblocked later |
| `HangingHostsFail` (`Hosts`) | "the only error this function returns is [context.Canceled]" (`hosts/manager.go:755`) | a deadline is returned too, so a host that accepts connections and never answers is never counted as failing |
| `NewHostsAreSpaced` (`ContractMaintenance`; two hosts near each other, no contracts at the start) | hosts of additional contracts are far from those with good contracts (`form.go:416`) | the set is built before contracts with hosts of unpinnable sectors are counted in |

Without a property: `PinSlabs` says that its locks cannot deadlock with
deletions and prunes, and `PinObject` that locks "are acquired in digest order like
everywhere else"; both can deadlock, because their inserts follow the order of the
caller or of the object and lock slabs whose rows the ordered `SELECT` did not
find. Postgres then aborts one transaction, which is retried
(`DeadlocksNeedLateRows` says that there is no other deadlock). The element of a
contract is pruned although none of the broadcasts of its resolution succeeded:
`ProcessActions` logs the failure and goes on (`chain.go:244`), so that
`PrunedWasTried` speaks of attempts. "Nor lets unpersisted uploads count as
progress", says `remote.go:142`; but `ApplyMigrationResults` returns an error only
if every result failed (`migrations.go:338`), so that a report can count results
that were not stored, and `ProgressIsPersisted` says only that one of them was. If
`RecordSlabMigrated` fails, clients are not told of the move
(`migrations.go:273`). `contract.go`
distinguishes contracts that expired without a proof from resolved ones;
`applyV2ContractDiffs` calls both resolved, and no code sets `expired`.
`HostsForFunding`, `HostsForPinning` and `UsableHosts` are documented to leave
out blocked hosts; the queries look at good contracts only.
`UpdateFundedAccounts` multiplies an uncapped power of two with a minute before
it takes the minimum, as `MarkSlabRepaired` does.

## Proofs

Eight modules hold the proofs; each proves one inductive invariant per component,
with a lemma per action, and reads the properties of the runs off it. All results
are for every value of the constants.

| module | about | theorems that state a property of a run |
|---|---|---|
| `SectorStoreProofs` | `SectorStore` | `PinnedSectorsOnContractsHost`, `StatisticsExact`, `NoOrphanedSectors`, `OnlyMigrationsMove`, `LossesChargedOnce` |
| `SlabGCProofs` | `SlabGC` | `DeletionIsSafe`, `PinObjectChecksHold`, `UsedSlabsKeptPinned`, `FreshPinsSpared`, `NoForgottenSlab`, `TotalsNeverShort`, `DeadlocksAreLate` |
| `ContractLockerProofs` | `ContractLocker` implements `ContractMutex`; `ContractMaintenance` | `Refinement`, `NoContractIsNeedless` |
| `ContractSectorsProofs` | `ContractSectors` | `PinsAreStored`, `PruningIsSafe`, `RevisionsAreCurrent`, `OnlyFallbackTurnsBad` |
| `ContractChainProofs` | `ContractChain` | `RowsAreFollowing`, `PrunedAfterTry` |
| `SlabRepairProofs` | `SlabRepair` | `ShardsKept`, `SectorsSpread` |
| `SlabManagerProofs` | `SlabTransfer` implements `SlabMove`; `RemotePass`, `IntegrityChecks` | `SlotsAreReturned`, `TransfersAreSound`, `TransfersGoOn`, `PassesAreSound`, `PassesGoOn`, `LossesAreObserved` |
| `ServicesProofs` | `HostClient`, `Hosts`, `Funding`, `AppKeys`, `ObjectEvents`; `StatsDeltas` implements `Statistic` | `ClientIsSound`, `HostsPrunedAfterFailures`, `FundingIsSound`, `RegistrationsAreApproved`, `NoEventIsPassed`, `StatisticImplemented` |

**SectorStore.** The invariant is
`TypeOK /\ PinnedOnContractsHost /\ SectorsOfSlabs /\ StatsExact`. No part is
inductive alone: `DeleteContract` credits the host of the contract with sectors
found through the map row, so that `StatsExact` needs `PinnedOnContractsHost`,
which needs from `TypeOK` that a map row belongs to a formed contract; deleting
slabs needs finite sets to count. The counting is done by lemmas on the
cardinality of the three classes of rows when a set of rows moves from one to
another. The action properties (a sector that moves starts over; a host is
charged with a lost sector once, in the step that takes it away) follow from the
types, action by action.

**SlabGC.** A transaction works with what it read before, so the invariant says
what each has a right to rely on. `Shapes` ties what it carries to its operation,
`Compatible` says that no two hold a row in modes that exclude each other, and
`Ascending` that a transaction that is still locking holds smaller slabs than it wants. From the
locks follow the two facts the code argues with: what `PinObject` has checked stays true until it
commits (`CheckedPinsHold`), and what the deletion loop has found unused stays
unused (`LoopSound`). Deletion is then safe (`KeptSlabsExist`).
`UnpinnedIsQueued` needs the locks too: who unpins last queues the slab in the
same step, and a slab of an object is pinned by the account or stray
(`AttachedArePinned`). `DeadlocksAreLate` is an argument about the order
of locks: a transaction that inserts what it holds already waits for nobody, so in
a circle without an insert of a late row all are in their locking `SELECT`, and
the one waiting for the largest slab waits for one that waits for a larger one. It
uses that a nonempty set of positions has a largest member, which is derived from
well-foundedness.

**ContractLocker.** To the types the invariant adds that a goroutine's object is
the one the map has for its contract (`References`), that a mutex is held by the
goroutine that thinks so (`Holders`), and that different entries are different
objects (`Entries`). The count is what makes dropping an entry safe: a count of
one means that the one who drops it is the only one left. The refinement maps
each step to a step or a stutter of `ContractMutex`.

**ContractMaintenance.** `NoContractIsNeedless`: a contract is formed with a host
that has contracts only if none of those the pass evaluated was good for both uses
or fit for a refresh when it was evaluated. The pass keeps one contract per host,
chosen from pages while the table changes, and decides much later.
`MaintenanceInv` says that the best contract of a host stands for all evaluations
of its contracts (`Covers`): if one of them was of use, the best one was when it
was chosen. `BetterOfTwo` is `shouldReplaceContract`: of two contracts it keeps one
that is of use if either was. That `BestAfter` covers a whole page is shown by a
least counterexample, the first row after which it would not. What happens to rows
meanwhile only has to keep their types and their number (`RowsKept`); contracts
that become better after their evaluation are not what is claimed.

**ContractSectors.** The invariant is `TypeOK /\ JobsOK /\ Books`. `JobsOK` goes
through the steps of an operation: at each, which worker is there and holds the
lock, and how the revision it has, the roots it has listed and the indices it
wants to free relate to the contract on the host. `Books` compares database and
host between operations: a pinned sector is in the contract it is found through
(`PinnedIsStored`), a renewal the host has agreed to and the database does not
know has what is pinned to the old contract (`RenewalsPending`), and the database
is ahead of a host only if the host fell back (`NeverAhead`). The lock is needed
where roots listed at an offset are compared and freed in later steps: the
contract has not changed since.

**ContractChain.** The invariant is
`TypeOK /\ Sane(chain) /\ Sane(scanned) /\ KnownInv /\ RowsInv /\ DueInv`. A
chain is sane if contracts are created once, before they are revised and ended;
`RowOK` says what a row must be after the first `n` blocks of a sane chain. Two
lemmas carry the proof, one for reverting and one for applying a single block:
`RowOK` at one height becomes `RowOK` at the next. The transaction of a batch is
the recursive function `RowAfter`; what it does to a row is shown by a least
counterexample (the first block after which the row is wrong), for which the same
lemma on sets of numbers is used. A reorganisation reverts to the longest common
prefix, which exists because the empty one is common. `DueInv` is needed for
pruning: when it is reached, a broadcast of everything due has been tried. The proof found
an overlap of two guards in an earlier form of `UpdateElementProof`, for a
contract without an element at height zero.

**SlabRepair.** `ShardsKept`: a sector that is not on the host its row names was
lost by a host or given up, so no claim, late result or retry of a repair costs a
shard. A row alone does not carry this, since a result is recorded long after the
upload and a loss long after it was seen. The invariant follows a sector through
the migrator: wherever a row (`RowsThere`), a snapshot (`SlabsThere`) or a result
(`MovedThere`) says it is, it is stored or already gone, and what is reported
lost is gone (`LostAreGone`). Old snapshots stay good because `gone` only grows
and `stored` shrinks only together with it. `SectorsSpread`: while no two attempts
have overlapped, one migrator at most is at work, rows have only lost hosts since
it read them, and what it moved is on different hosts, which no row has.

**Slab manager.** `TransferInv` counts a host's slots as those of the chunks and
shards that hold it (`SlotsCounted`), and says that a chunk that failed asked every
usable host of the slab (`EveryHostAsked`) and one that was recovered has enough
shards (`RecoveredIsComplete`). `TransfersGoOn` rests on `WellKept`, by which a
chunk about to start downloads has one to start and a chunk that waits for a place
while nothing runs finds one; if no chunk is under way the least queued one can
start, and hosts to pick exist whenever there are enough (`SubsetOfSize`).
`MoveImplemented` needs `MoveInv` besides: shards come from hosts that have the
sector, a chunk that is done has enough of them until the recovery returns, an
upload has one host, and nothing is uploaded after a recovery that failed. Reads
that end are then losses reported or stutters, the return is `Fail` or `Recover`,
and a write that ends well is `Store`. `PassInv` follows a slab from batch to report: it is
in one place only of queue, channel, worker, results, pending and reported, and is
offered once; `Stages` orders the closing of the channels, and a report that counts
as progress left a result with the primary. `PassesGoOn` adds
`PassFlow`: workers leave only when the producer is done and the channel is empty,
and a report the collector waits for is in flight; whoever is blocked on a channel
then has a partner that is not. `ChecksInv` says that
outcomes stand at the positions of the sectors they are about until they are
stored: a "lost" is what the host said of this sector, and recorded failures are
never more than those there were (`OutcomesInPlace`), while what was taken from
the host does not come back during the checks (`LostStaysLost`).

**Services.** `ClientInv`: one caller dials, only an address that has just
connected holds a connection, every open one is cached or in someone's hands, and
after `Close` nobody is left; `ClientIsSound` assumes `Untracked = {}`, as the run
does. `ScansInv`: the failures stored are the failures in a row. `FundInv`: a
group's counts stay within the pools and contracts they count, a pool recorded as
funded was credited, contracts pay no more than they hold, and a row without
failures is of a pool the host has created. `KeysInv`: a registration in progress has consumed its request,
and a request is consumed once. `EventsInv`: what differs from the client's copy
has an event after the cursor, in the page being read, or is blocked, unannounced
or late; an event that is not late is stamped with a second no page has gone
beyond. `NoEventIsPassed` states `OnlyLatePassed` for every `MaxDelay`.
`StatsInv`: the deltas of one row have ids in the order of its changes, so
wherever a batch is cut the statistic with what the batch adds is the number of
rows that were counted before the remaining deltas (`EveryCutCounts`), and a number
of rows is not negative (`StatisticsNeverUnderflow`). `StatisticImplemented` follows:
a commit is `AddRow` or `RemoveRow`, a flush is `Show`, and everything else stutters.

Assumptions are those named in the modules (`ConstantsAssumption`,
`RepairAssumption`, ...), evaluated by the runs: finiteness where something is
counted, the types of functions, and that `NULL`, `NoHost` and their like are
none of the values. The one theorem with a hypothesis of its own is
`ClientIsSound`.

Only model-checked: liveness (`WaitersServed`, `CatchesUp`,
`EventuallyRepaired`, `EverySectorChecked`, `EveryHostScanned`, and the violated
`FundingEnds`), which is out of the prover's reach; that `TransferReady` and
`PassReady` are what `ENABLED` says of the steps they are the guards of; and the
type of the times of `SlabRepair`, whose back-off is arithmetic modulo a power of
two. Every invariant and every other property of a passing run is a theorem.

## Plan

What is left, in this order:

1. A larger instance of `SlabRepair` (three sectors) for safety alone.
2. Proofs: the type invariant of `SlabRepair` as a whole (its proof uses the part
   about data).
3. Share links and the price pins, if they grow state that others use.

## Not modelled

HTTP decoding and dispatch, rate limits, authentication, alerts, price and
location lookups, configuration, key derivation and schema migrations: they keep
no state whose order of change matters, or only I/O. The wallet and the syncer
are libraries that call back into single-row storage. Encodings, encryption and
erasure coding are libraries. The priority statistics of the host queue decide
which host is asked first, which the models leave open. `PROJECT.json` lists
every component with its status.
