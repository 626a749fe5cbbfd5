------------------------------ MODULE RemotePass ------------------------------
(***************************************************************************)
(* A remote migrator (slabs/remote.go).  In a pass a producer fetches      *)
(* batches of unhealthy slabs from the primary and feeds them to the       *)
(* workers through a channel; the workers hand their results to a          *)
(* collector through another; the collector reports them to the primary in *)
(* groups, one report at a time, while results keep coming in.  A failed   *)
(* report aborts the pass.  Between passes the migrator pauses, longer     *)
(* after passes that persisted nothing.                                    *)
(***************************************************************************)
EXTENDS Integers, Sequences, FiniteSets

CONSTANTS
    NumBatches,    \* batches of unhealthy slabs the primary has
    BatchSize,     \* slabs in a batch
    Workers,
    ResultCap,     \* capacity of resultCh
    GroupSize,     \* resultReportGroupSize
    MaxShift,      \* maxBackoffShift
    MaxPasses      \* bound on passes

Jobs       == 1..(NumBatches * BatchSize)
BatchOf(j) == 1 + (j - 1) \div BatchSize

ASSUME PassAssumption ==
    /\ NumBatches \in Nat /\ BatchSize \in Nat \ {0}
    /\ IsFiniteSet(Workers) /\ Workers # {}
    /\ ResultCap \in Nat \ {0} /\ GroupSize \in Nat \ {0}
    /\ MaxShift \in Nat /\ MaxPasses \in Nat \ {0}

VARIABLES
    halted,    \* the caller's context is cancelled
    passDone,   \* passCtx is cancelled
    producer,   \* "fetch", "feed" or "done"
    toFeed,     \* slabs of the current batch that are not in slabCh yet
    fetched,     \* batches fetched
    store,      \* batches whose hosts the client's store knows
    slabCh, resultCh,
    worker,     \* what each worker does, and the slab it has
    attempted,  \* slabs whose migration was attempted: executed
    pending,    \* results collected
    inReport,   \* results of the report in flight
    reporting,
    reportErr,
    offered,    \* history: how often a result was sent to the primary
    persisted,  \* history: results the primary stored
    migrated,   \* the reports whose results are counted as migrated
    pc,         \* of runPass: "collect", "drain", "last" or "returned"
    failedPasses,
    passes

chanVars   == <<producer, toFeed, fetched, store, slabCh, resultCh, worker>>
reportVars == <<pending, inReport, reporting, reportErr, offered, persisted, migrated>>
passVars   == <<halted, passDone, chanVars, attempted, reportVars, pc, failedPasses, passes>>

(* runPass starts with the hosts of earlier passes dropped.                 *)
FreshPass ==
    /\ passDone' = halted /\ producer' = "fetch" /\ toFeed' = <<>> /\ fetched' = 0
    /\ store' = {} /\ slabCh' = <<>> /\ resultCh' = <<>>
    /\ worker' = [w \in Workers |-> <<"idle", 0>>]
    /\ attempted' = {} /\ pending' = {} /\ inReport' = {} /\ reporting' = FALSE
    /\ reportErr' = FALSE /\ offered' = [j \in Jobs |-> 0] /\ persisted' = {}
    /\ migrated' = {} /\ pc' = "collect"

(* No pass has begun.                                                       *)
PassInit ==
    /\ halted = FALSE /\ passDone = FALSE
    /\ producer = "done" /\ toFeed = <<>> /\ fetched = 0 /\ store = {}
    /\ slabCh = <<>> /\ resultCh = <<>>
    /\ worker = [w \in Workers |-> <<"exited", 0>>]
    /\ attempted = {} /\ pending = {} /\ inReport = {} /\ reporting = FALSE
    /\ reportErr = FALSE /\ offered = [j \in Jobs |-> 0] /\ persisted = {} /\ migrated = {}
    /\ pc = "returned" /\ failedPasses = 0 /\ passes = 0

-----------------------------------------------------------------------------
(***************************************************************************)
(* The producer                                                            *)
(***************************************************************************)

(* A batch merges its hosts into the store.                                *)
MergeHosts(b) == store \cup {b}

(* MigrationBatch returns the next batch, nothing more, or fails.           *)
FetchBatch ==
    /\ producer = "fetch"
    /\ \/ /\ fetched < NumBatches
          /\ fetched' = fetched + 1
          /\ store' = MergeHosts(fetched + 1)
          /\ toFeed' = [i \in 1..BatchSize |-> fetched * BatchSize + i]
          /\ producer' = "feed"
       \/ producer' = "done" /\ UNCHANGED <<fetched, store, toFeed>>
    /\ UNCHANGED <<halted, passDone, slabCh, resultCh, worker, attempted, reportVars, pc,
                   failedPasses, passes>>

(* slabCh has room for one slab per worker.                                 *)
MayFeed == producer = "feed" /\ (toFeed = <<>> \/ Len(slabCh) < Cardinality(Workers))
FeedSlab ==
    /\ MayFeed
    /\ IF toFeed = <<>>
       THEN producer' = "fetch" /\ UNCHANGED <<toFeed, slabCh>>
       ELSE /\ slabCh' = Append(slabCh, Head(toFeed))
            /\ toFeed' = Tail(toFeed)
            /\ UNCHANGED producer
    /\ UNCHANGED <<halted, passDone, fetched, store, resultCh, worker, attempted, reportVars,
                   pc, failedPasses, passes>>

FeedCancelled ==
    /\ producer = "feed" /\ passDone
    /\ producer' = "done"
    /\ UNCHANGED <<halted, passDone, toFeed, fetched, store, slabCh, resultCh, worker,
                   attempted, reportVars, pc, failedPasses, passes>>

-----------------------------------------------------------------------------
(***************************************************************************)
(* The workers                                                             *)
(***************************************************************************)

(* MigrateSlab attempts nothing if the context is dead by then.             *)
MayTake(w) == worker[w][1] = "idle" /\ slabCh # <<>>
TakeSlab(w) ==
    /\ MayTake(w)
    /\ slabCh' = Tail(slabCh)
    /\ worker' = [worker EXCEPT ![w] = IF passDone THEN @ ELSE <<"migrate", Head(slabCh)>>]
    /\ UNCHANGED <<halted, passDone, producer, toFeed, fetched, store, resultCh, attempted,
                   reportVars, pc, failedPasses, passes>>

(* A migration that was attempted has a result, also when it is cancelled.  *)
MigrateRemote(w) ==
    /\ worker[w][1] = "migrate"
    /\ \/ worker' = [worker EXCEPT ![w] = <<"idle", 0>>]
       \/ worker' = [worker EXCEPT ![w] = <<"send", worker[w][2]>>]
    /\ UNCHANGED <<halted, passDone, producer, toFeed, fetched, store, slabCh, resultCh,
                   attempted, reportVars, pc, failedPasses, passes>>

MaySend(w) == worker[w][1] = "send" /\ Len(resultCh) < ResultCap
SendResult(w) ==
    /\ MaySend(w)
    /\ resultCh' = Append(resultCh, worker[w][2])
    /\ attempted' = attempted \cup {worker[w][2]}
    /\ worker' = [worker EXCEPT ![w] = <<"idle", 0>>]
    /\ UNCHANGED <<halted, passDone, producer, toFeed, fetched, store, slabCh, reportVars, pc,
                   failedPasses, passes>>

(* slabCh is closed when the producer is done.                              *)
MayExit(w) == worker[w][1] = "idle" /\ slabCh = <<>> /\ producer = "done"
WorkerExits(w) ==
    /\ MayExit(w)
    /\ worker' = [worker EXCEPT ![w] = <<"exited", 0>>]
    /\ UNCHANGED <<halted, passDone, producer, toFeed, fetched, store, slabCh, resultCh,
                   attempted, reportVars, pc, failedPasses, passes>>

-----------------------------------------------------------------------------
(***************************************************************************)
(* The collector                                                           *)
(***************************************************************************)

Offer(R) == offered' = [j \in Jobs |-> offered[j] + IF j \in R THEN 1 ELSE 0]

(* startReport, with the results R pending and those of the report in       *)
(* flight.                                                                  *)
StartReport(R, busy, flight, err) ==
    IF R = {} \/ busy \/ err
    THEN /\ pending' = R /\ reporting' = busy
         /\ inReport' = flight
         /\ UNCHANGED offered
    ELSE /\ pending' = {} /\ reporting' = TRUE /\ inReport' = R
         /\ Offer(R)

MayCollect == pc = "collect" /\ resultCh # <<>>
Collect ==
    /\ MayCollect
    /\ resultCh' = Tail(resultCh)
    /\ LET R == pending \cup {Head(resultCh)}
       IN  IF Cardinality(R) >= GroupSize
           THEN StartReport(R, reporting, inReport, reportErr)
           ELSE pending' = R /\ UNCHANGED <<reporting, inReport, offered>>
    /\ UNCHANGED <<halted, passDone, producer, toFeed, fetched, store, slabCh, worker,
                   attempted, reportErr, persisted, migrated, pc, failedPasses, passes>>

MayFlush == pc = "collect" /\ pending # {} /\ ~reporting /\ ~reportErr
FlushTick ==
    /\ MayFlush
    /\ StartReport(pending, reporting, inReport, reportErr)
    /\ UNCHANGED <<halted, passDone, chanVars, attempted, reportErr, persisted, migrated, pc,
                   failedPasses, passes>>

(* Whether a report is still in flight after its outcome was received.      *)
(* (Mutant: a failed one is.)                                               *)
BusyAfterFailure(ok) == ~ok
BusyAfter(ok)        == FALSE
(* Results a report that ended adds to the count.  (Mutant: it does not     *)
(* matter how it ended.)                                                    *)
Carried(ok)  == {inReport}
Reported(ok) == IF ok THEN {inReport} ELSE {}

(* ApplyMigrationResults: results that cannot be stored are skipped; only   *)
(* when none of them can it fails.  What a failed report left behind is not *)
(* known: its answer may have been lost.                                    *)
Storable(R, ok) == {P \in SUBSET R : ok => P # {} \/ R = {}}

(* finishReport: the answer of the primary.  The backlog is reported next.  *)
MayFinish == pc \in {"collect", "drain"} /\ reporting /\ inReport # {}
FinishReport ==
    /\ MayFinish
    /\ \E ok \in BOOLEAN :
          /\ \E P \in Storable(inReport, ok) : persisted' = persisted \cup P
          /\ migrated' = migrated \cup Reported(ok)
          /\ reportErr' = (reportErr \/ ~ok)
          /\ passDone' = (passDone \/ ~ok)
          /\ IF pc = "collect"
             THEN StartReport(pending, BusyAfter(ok), {}, reportErr \/ ~ok) /\ UNCHANGED pc
             ELSE /\ reporting' = BusyAfter(ok)
                  /\ pc' = IF BusyAfter(ok) THEN "drain" ELSE "last"
                  /\ inReport' = {}
                  /\ UNCHANGED <<pending, offered>>
    /\ UNCHANGED <<halted, chanVars, attempted, failedPasses, passes>>

(* All workers are gone and resultCh is closed.  An earlier report is       *)
(* waited for, if there is one.                                             *)
MayClose == pc = "collect" /\ resultCh = <<>> /\ \A w \in Workers : worker[w][1] = "exited"
ResultsClosed ==
    /\ MayClose
    /\ pc' = IF reporting THEN "drain" ELSE "last"
    /\ UNCHANGED <<halted, passDone, chanVars, attempted, reportVars, failedPasses, passes>>

(* What is left gets its one attempt, even after a report failed.  The pass *)
(* made progress if a sector was migrated by a result reported with         *)
(* success; results can carry none, which is left open.                     *)
Left == pending
BackOff == IF failedPasses < MaxShift THEN failedPasses + 1 ELSE failedPasses

LastReport ==
    /\ pc = "last"
    /\ \E ok \in BOOLEAN :
          /\ Offer(Left)
          /\ \E P \in Storable(Left, ok) : persisted' = persisted \cup P
          /\ migrated' = IF ok /\ Left # {} THEN migrated \cup {Left} ELSE migrated
    /\ failedPasses' \in IF attempted = {} THEN {failedPasses}
                         ELSE IF migrated' = {} THEN {BackOff} ELSE {0, BackOff}
    /\ pending' = {} /\ pc' = "returned"
    /\ UNCHANGED <<halted, passDone, chanVars, attempted, inReport, reporting, reportErr, passes>>

(* Run starts the first pass, or pauses for interval << failedPasses and    *)
(* starts the next one.                                                     *)
NextPass ==
    /\ pc = "returned" /\ passes < MaxPasses
    /\ passes = 0 \/ ~halted
    /\ passes' = passes + 1
    /\ FreshPass
    /\ UNCHANGED <<halted, failedPasses>>

StopMigrator ==
    /\ ~halted
    /\ halted' = TRUE /\ passDone' = TRUE
    /\ UNCHANGED <<chanVars, attempted, reportVars, pc, failedPasses, passes>>

WorkerStep(w) == TakeSlab(w) \/ MigrateRemote(w) \/ SendResult(w) \/ WorkerExits(w)

PassSteps ==
    \/ FetchBatch \/ FeedSlab \/ FeedCancelled
    \/ \E w \in Workers : WorkerStep(w)
    \/ Collect \/ FlushTick \/ FinishReport \/ ResultsClosed \/ LastReport

PassNext == PassSteps \/ NextPass \/ StopMigrator

PassSpec == PassInit /\ [][PassNext]_passVars

-----------------------------------------------------------------------------
(***************************************************************************)
(* Properties                                                              *)
(***************************************************************************)

(* Every result of a pass is offered to the primary exactly once, whatever  *)
(* reports failed: it stands for uploads that were paid for, and applying   *)
(* it again would undo what happened since.                                 *)
ResultsOfferedOnce ==
    /\ \A j \in Jobs : offered[j] <= 1
    /\ pc = "returned" => \A j \in attempted : offered[j] = 1

(* Every report that counts as progress had a result the primary stored.    *)
ProgressIsPersisted == \A R \in migrated : R \cap persisted # {}

(* A migration never loses the hosts of its batch.                          *)
HostsStayKnown ==
    \A w \in Workers : worker[w][1] = "migrate" => BatchOf(worker[w][2]) \in store

(* What a pass uploads is accounted for: every result reaches the primary   *)
(* once, no report counts of which nothing was stored there, so that a pass *)
(* whose results are never stored backs off, and no migration in flight     *)
(* loses its hosts to the next batch.                                       *)
PassSound == ResultsOfferedOnce /\ ProgressIsPersisted /\ HostsStayKnown

(* The guards of PassSteps: someone who can go on.                          *)
WorkerReady(w) == MayTake(w) \/ MaySend(w) \/ MayExit(w) \/ worker[w][1] = "migrate"
PassReady ==
    \/ producer = "fetch" \/ MayFeed \/ (producer = "feed" /\ passDone)
    \/ \E w \in Workers : WorkerReady(w)
    \/ MayCollect \/ MayFlush \/ MayFinish \/ MayClose \/ pc = "last"

(* Until a pass returns, one of its goroutines can go on: producer, workers *)
(* and collector never all wait for each other on their channels, and the   *)
(* last wait is for a report that is really in flight.                      *)
PassNotStuck == pc = "returned" \/ PassReady
===============================================================================
