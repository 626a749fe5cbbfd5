--------------------------- MODULE IntegrityChecks ---------------------------
(***************************************************************************)
(* The integrity checks of one host (slabs/dataintegrity.go and            *)
(* sectorverifier.go).  A pass claims the sectors that are due by moving   *)
(* their next check a little into the future, reads a random leaf of each  *)
(* while the service account pays for it, and stores the outcomes in four  *)
(* transactions.  A check that is interrupted keeps what it has; sectors   *)
(* that were claimed and not reached come back when the claim ends.        *)
(*                                                                         *)
(* Next checks are kept as the number of claim intervals until they are    *)
(* due.  A claim lasts half an hour, a pass starts every minute and spends *)
(* at most five on a host: time passes between the checks of the host, and *)
(* not while a due sector waits for them.  Accounts are funded every two   *)
(* minutes, so a host that behaves has its account filled in a claim's     *)
(* time.                                                                   *)
(***************************************************************************)
EXTENDS Integers, Sequences, FiniteSets, SequencesExt

CONSTANTS
    Roots,           \* sectors of the host
    CheckBatch,      \* batchSize: sectors claimed at a time
    ClaimTime,       \* integrityCheckClaimInterval
    FailedTime,      \* failedIntegrityCheckInterval
    SuccessTime,     \* integrityCheckInterval
    MaxFailedChecks, \* maxFailedIntegrityChecks
    FundTarget,      \* balance of a service account that was funded
    Costs            \* what hosts charge for a read

ASSUME ChecksAssumption ==
    /\ IsFiniteSet(Roots) /\ CheckBatch \in Nat \ {0}
    /\ ClaimTime \in Nat \ {0} /\ FailedTime \in Nat \ {0} /\ SuccessTime \in Nat \ {0}
    /\ MaxFailedChecks \in Nat \ {0} /\ FundTarget \in Nat \ {0}
    /\ Costs \subseteq 1..FundTarget /\ Costs # {}

VARIABLES
    held,        \* roots stored on the host according to the database
    nextCheck,   \* claim intervals until the root is due
    failedChecks,\* consecutive_failed_checks
    balance,     \* balance of the service account as the manager tracks it
    checkPc,     \* "idle", "claim", "verify" or the transaction that comes next
    toCheck,     \* roots claimed
    results,     \* outcomes, by position in toCheck
    reads,       \* rounds of VerifySectors' loop
    budget,      \* balance VerifySectors read when it started
    wasReset,    \* resetOnce: the balance was reset since it started
    interrupt,   \* the loop ends after this batch
    calm,        \* from now on the host answers and nothing is cancelled
    saidLost,    \* history: roots the host said it does not have
    failedReads,    \* history: failed checks of a root since its last recorded success
    lostRoots,   \* history: roots the checks took from the host
    recorded     \* history: root the last recorded success or failure is about

hostVars  == <<held, nextCheck, failedChecks>>
checkVars == <<hostVars, balance, checkPc, toCheck, results, reads, budget, wasReset, interrupt, calm,
               saidLost, failedReads, lostRoots, recorded>>

Due == {r \in held : nextCheck[r] = 0}

ChecksInit ==
    /\ held = Roots
    /\ nextCheck \in [Roots -> {0, SuccessTime}]
    /\ failedChecks = [r \in Roots |-> 0]
    /\ balance = 0 /\ checkPc = "idle" /\ toCheck = <<>> /\ results = <<>>
    /\ reads = 0 /\ budget = 0 /\ wasReset = FALSE /\ interrupt = FALSE /\ calm = FALSE
    /\ saidLost = {} /\ failedReads = [r \in Roots |-> 0] /\ lostRoots = {} /\ recorded = {}

-----------------------------------------------------------------------------

(* The checks of the host end.                                              *)
HostDone ==
    /\ checkPc' = "idle" /\ toCheck' = <<>> /\ results' = <<>> /\ reads' = 0
    /\ budget' = 0 /\ wasReset' = FALSE /\ interrupt' = FALSE

(* performIntegrityChecks is handed a host that has due sectors.            *)
HostsForIntegrityChecks ==
    /\ checkPc = "idle" /\ Due # {}
    /\ checkPc' = "claim" /\ recorded' = {}
    /\ UNCHANGED <<hostVars, balance, toCheck, results, reads, budget, wasReset, interrupt, calm, saidLost,
                   failedReads, lostRoots>>

(* How long a claim keeps a root from being handed out again.  (Mutant: as  *)
(* long as a successful check.)                                             *)
ClaimForInterval == SuccessTime
ClaimFor         == ClaimTime

(* RETURNING gives the roots in no particular order.                        *)
SectorsForIntegrityCheck ==
    /\ checkPc = "claim"
    /\ \/ Due = {} /\ HostDone /\ UNCHANGED hostVars
       \/ \E batch \in SUBSET Due \ {{}} :
             /\ Cardinality(batch) <= CheckBatch
             /\ Cardinality(batch) = CheckBatch \/ batch = Due
             /\ toCheck' \in SetToSeqs(batch)
             /\ nextCheck' = [r \in Roots |-> IF r \in batch THEN ClaimFor ELSE nextCheck[r]]
             /\ interrupt' = (Cardinality(batch) < CheckBatch)
             /\ results' = <<>> /\ reads' = 0 /\ budget' = 0 /\ checkPc' = "usable"
             /\ UNCHANGED <<held, failedChecks, wasReset>>
    /\ UNCHANGED <<balance, calm, saidLost, failedReads, lostRoots, recorded>>

Interrupted ==
    \/ results = <<>> /\ HostDone
    \/ /\ results # <<>>
       /\ interrupt' = TRUE /\ checkPc' = "lost" /\ budget' = 0 /\ wasReset' = FALSE
       /\ UNCHANGED <<toCheck, results, reads>>

(* The host is asked for nothing once it is unusable; VerifySectors starts  *)
(* from the balance that is tracked now.                                    *)
Usable ==
    /\ checkPc = "usable"
    /\ \/ checkPc' = "verify" /\ budget' = balance
          /\ UNCHANGED <<interrupt, toCheck, results, reads, wasReset>>
       \/ ~calm /\ Interrupted
    /\ UNCHANGED <<hostVars, balance, calm, saidLost, failedReads, lostRoots,
                   recorded>>

DebitServiceAccount(cost) == IF balance >= cost THEN balance - cost ELSE 0
ResetAccountBalance == 0

(* What a reply adds to the results: a host that claims to be out of funds  *)
(* failed the check like any other error.  (Mutant: it is skipped.)         *)
SkipNoFunds(reply) == IF reply = "nofunds" THEN <<>> ELSE <<reply>>
ResultOf(reply)    == <<IF reply = "nofunds" THEN "failed" ELSE reply>>

(* One round of VerifySectors: the account is debited before the read, and  *)
(* is reset the first time the host says that it is empty, whatever the     *)
(* budget.                                                                  *)
VerifySector(reply, cost) ==
    /\ checkPc = "verify" /\ reads < Len(toCheck) /\ budget >= cost
    /\ calm => reply = "success"
    /\ LET r == toCheck[reads + 1] IN
       /\ reads' = reads + 1 /\ budget' = budget - cost
       /\ balance' = IF reply = "nofunds" /\ ~wasReset THEN ResetAccountBalance
                     ELSE DebitServiceAccount(cost)
       /\ wasReset' = (wasReset \/ reply = "nofunds")
       /\ results' = results \o ResultOf(reply)
       /\ saidLost' = IF reply = "lost" THEN saidLost \cup {r} ELSE saidLost
       /\ failedReads' = IF reply \in {"failed", "nofunds"} /\ failedReads[r] < MaxFailedChecks
                      THEN [failedReads EXCEPT ![r] = @ + 1] ELSE failedReads
    /\ UNCHANGED <<hostVars, checkPc, toCheck, interrupt, calm, lostRoots, recorded>>

(* The budget is used up, prices cannot be fetched or the five minutes are  *)
(* over; in the last case the account was debited perhaps.                  *)
InterruptChecks ==
    /\ checkPc = "verify" /\ reads < Len(toCheck)
    /\ \/ (\E cost \in Costs : budget < cost) /\ UNCHANGED balance
       \/ ~calm /\ balance' \in {balance} \cup {DebitServiceAccount(cost) : cost \in Costs}
    /\ Interrupted
    /\ UNCHANGED <<hostVars, calm, saidLost, failedReads, lostRoots, recorded>>

ChecksDone ==
    /\ checkPc = "verify" /\ reads = Len(toCheck)
    /\ checkPc' = "lost" /\ budget' = 0 /\ wasReset' = FALSE
    /\ UNCHANGED <<hostVars, balance, toCheck, results, reads, interrupt, calm, saidLost,
                   failedReads, lostRoots, recorded>>

-----------------------------------------------------------------------------
(***************************************************************************)
(* Storing the outcomes                                                    *)
(***************************************************************************)

Having(outcome) == {toCheck[i] : i \in {j \in 1..Len(results) : results[j] = outcome}}

PersistLost ==
    /\ checkPc = "lost"
    /\ held' = held \ Having("lost")
    /\ lostRoots' = lostRoots \cup (held \cap Having("lost"))
    /\ checkPc' = "failed"
    /\ UNCHANGED <<nextCheck, failedChecks, balance, toCheck, results, reads, budget, wasReset, interrupt,
                   calm, saidLost, failedReads, recorded>>

(* Next checks a recorded outcome sets.                                     *)
CheckIn(R, time) == [r \in Roots |-> IF r \in R \cap held THEN time ELSE nextCheck[r]]

PersistFailed ==
    /\ checkPc = "failed"
    /\ LET R == Having("failed") \cap held IN
       /\ nextCheck' = CheckIn(R, FailedTime)
       /\ failedChecks' = [r \in Roots |-> IF r \in R /\ failedChecks[r] < MaxFailedChecks
                                           THEN failedChecks[r] + 1 ELSE failedChecks[r]]
       /\ recorded' = R
    /\ checkPc' = "success"
    /\ UNCHANGED <<held, balance, toCheck, results, reads, budget, wasReset, interrupt, calm, saidLost,
                   failedReads, lostRoots>>

PersistSuccess ==
    /\ checkPc = "success"
    /\ LET R == Having("success") \cap held IN
       /\ nextCheck' = CheckIn(R, SuccessTime)
       /\ failedChecks' = [r \in Roots |-> IF r \in R THEN 0 ELSE failedChecks[r]]
       /\ failedReads' = [r \in Roots |-> IF r \in R THEN 0 ELSE failedReads[r]]
       /\ recorded' = R
    /\ checkPc' = "failing"
    /\ UNCHANGED <<held, balance, toCheck, results, reads, budget, wasReset, interrupt, calm, saidLost,
                   lostRoots>>

(* Every sector of the host that failed too often is given up, and the loop *)
(* goes on if the batch was full and nothing interrupted it.                *)
PersistFailing ==
    /\ checkPc = "failing"
    /\ LET R == {r \in held : failedChecks[r] >= MaxFailedChecks} IN
       /\ held' = held \ R
       /\ lostRoots' = lostRoots \cup R
    /\ IF interrupt
       THEN HostDone
       ELSE checkPc' = "claim" /\ UNCHANGED <<toCheck, results, reads, budget, wasReset, interrupt>>
    /\ UNCHANGED <<nextCheck, failedChecks, balance, calm, saidLost, failedReads, recorded>>

-----------------------------------------------------------------------------
(***************************************************************************)
(* The surroundings                                                        *)
(***************************************************************************)

(* A transaction fails, which ends the pass, or the daemon is restarted,    *)
(* which forgets balances too.                                              *)
ChecksAbort ==
    /\ ~calm /\ checkPc # "idle"
    /\ HostDone
    /\ balance' \in {balance, 0}
    /\ UNCHANGED <<hostVars, calm, saidLost, failedReads, lostRoots, recorded>>

(* FundServiceAccounts fills the account and notes the target as balance.   *)
UpdateServiceAccounts ==
    /\ balance < FundTarget
    /\ balance' = FundTarget
    /\ UNCHANGED <<hostVars, checkPc, toCheck, results, reads, budget, wasReset, interrupt, calm, saidLost,
                   failedReads, lostRoots, recorded>>

(* A sector is migrated to another host or deleted.                         *)
LeaveHost(r) ==
    /\ r \in held
    /\ held' = held \ {r}
    /\ UNCHANGED <<nextCheck, failedChecks, balance, checkPc, toCheck, results, reads, budget, wasReset,
                   interrupt, calm, saidLost, failedReads, lostRoots, recorded>>

TimePasses ==
    /\ checkPc = "idle" /\ Due = {} /\ held # {}
    /\ calm => balance = FundTarget
    /\ nextCheck' = [r \in Roots |-> IF nextCheck[r] > 0 THEN nextCheck[r] - 1 ELSE 0]
    /\ UNCHANGED <<held, failedChecks, balance, checkPc, toCheck, results, reads, budget, wasReset, interrupt,
                   calm, saidLost, failedReads, lostRoots, recorded>>

CalmDown ==
    /\ ~calm /\ calm' = TRUE
    /\ UNCHANGED <<hostVars, balance, checkPc, toCheck, results, reads, budget, wasReset, interrupt, saidLost,
                   failedReads, lostRoots, recorded>>

CheckSteps ==
    \/ HostsForIntegrityChecks \/ SectorsForIntegrityCheck \/ Usable
    \/ \E reply \in {"success", "lost", "failed", "nofunds"} : \E cost \in Costs : VerifySector(reply, cost)
    \/ InterruptChecks \/ ChecksDone
    \/ PersistLost \/ PersistFailed \/ PersistSuccess \/ PersistFailing

ChecksNext ==
    \/ CheckSteps \/ ChecksAbort \/ UpdateServiceAccounts \/ TimePasses \/ CalmDown
    \/ \E r \in Roots : LeaveHost(r)

(* The loop runs, time passes and accounts are funded again and again.      *)
ChecksFairness ==
    /\ WF_checkVars(CheckSteps)
    /\ WF_checkVars(TimePasses)
    /\ WF_checkVars(UpdateServiceAccounts)

ChecksSpec == ChecksInit /\ [][ChecksNext]_checkVars /\ ChecksFairness

-----------------------------------------------------------------------------
(***************************************************************************)
(* Properties                                                              *)
(***************************************************************************)

(* A sector is taken from a host by the checks only if the host said that   *)
(* it does not have this sector, or failed as many checks of this sector as *)
(* are allowed since the last success that was recorded: outcomes are never *)
(* stored for another sector, or twice.                                     *)
LossIsObserved ==
    /\ \A r \in Roots : failedChecks[r] <= failedReads[r]
    /\ \A r \in lostRoots : r \in saidLost \/ failedReads[r] >= MaxFailedChecks

(* Once host and network behave, every sector of the host is checked again  *)
(* and again, even when the account pays for fewer checks than are due at a *)
(* time and the claimed sectors come in an unlucky order.                   *)
EverySectorChecked ==
    \A r \in Roots : [](calm => <>(r \in recorded \/ r \notin held))
==============================================================================
