---------------------------- MODULE ContractChain ----------------------------
(***************************************************************************)
(* The state of contracts as indexd reads it from the chain.  The chain    *)
(* subscriber (subscriber/subscriber.go) reverts and applies blocks in     *)
(* transactions of a few blocks each; the contract manager                 *)
(* (contracts/chain.go) updates the rows of the contracts it knows, keeps  *)
(* the elements it needs to broadcast resolutions and afterwards rejects,  *)
(* broadcasts and prunes.  Meanwhile contracts are formed and renewed: a   *)
(* contract is on the network before it is in the database, so a block may *)
(* confirm it, or a reorganisation take it back, at either side of the     *)
(* insert.                                                                 *)
(***************************************************************************)
EXTENDS SequencesExt

CONSTANTS
    Contracts,
    Renewal,          \* the contract that renews another: V2RenewalID
    ProofHeight,      \* from here on a contract is resolved, not revised
    ExpirationHeight,
    BroadcastBuffer,  \* expiredContractBroadcastBuffer
    PruneBuffer,      \* expiredContractPruneBuffer
    BatchSize,        \* updateBatchSize
    NULL,
    MaxHeight,        \* bound on blocks
    MaxRev,           \* bound on the revisions of a contract on chain
    MaxDepth,         \* bound on the blocks a reorganisation removes
    MaxReorgs,        \* bound on reorganisations
    MaxFaults         \* bound on crashes and resets

ASSUME ConstantsAssumption ==
    /\ IsFiniteSet(Contracts) /\ NULL \notin Contracts
    /\ DOMAIN Renewal \subseteq Contracts
    /\ \A c \in DOMAIN Renewal : Renewal[c] \in Contracts \ {c}
    /\ \A c, d \in DOMAIN Renewal : Renewal[c] = Renewal[d] => c = d
    /\ ProofHeight \in [Contracts -> Nat] /\ ExpirationHeight \in [Contracts -> Nat]
    /\ \A c \in Contracts : ProofHeight[c] < ExpirationHeight[c]
    /\ BroadcastBuffer \in Nat /\ PruneBuffer \in Nat
    /\ BatchSize \in Nat \ {0}
    /\ MaxHeight \in Nat /\ MaxRev \in Nat /\ MaxDepth \in Nat
    /\ MaxReorgs \in Nat /\ MaxFaults \in Nat

VARIABLES
    chain,      \* the blocks of the best chain
    announced,  \* contracts whose transaction is on the network
    scanned,    \* database: the blocks up to the last scanned index
    db,         \* database: contracts and contract_elements
    creating,   \* contracts the host agreed to, not yet in the database
    notified,   \* reorgCh holds a token
    phase,      \* what Sync does next
    tried,      \* history: contracts whose resolution indexd tried to broadcast
    detached,   \* history: contracts whose row was never told of their
                \* creation on the scanned chain
    reorgs, faults

netVars  == <<chain, announced, reorgs>>
syncVars == <<scanned, notified, phase, tried>>
vars     == <<netVars, syncVars, db, creating, detached, faults>>

-----------------------------------------------------------------------------
(***************************************************************************)
(* Blocks.  A block is about one contract or none; "rev" is the contract's *)
(* revision number before it.                                              *)
(***************************************************************************)
Block(kind, c, rev) == [kind |-> kind, contract |-> c, rev |-> rev]

(* V2FileContractElementDiffs: a renewal also creates the renewed contract. *)
Diff(kind, c, rev) == [kind |-> kind, contract |-> c, rev |-> rev]
Diffs(b) ==
    CASE b.kind = "none"  -> {}
      [] b.kind = "renew" -> {Diff("renew", b.contract, b.rev),
                              Diff("create", Renewal[b.contract], 0)}
      [] OTHER            -> {Diff(b.kind, b.contract, b.rev)}

(* What a chain says of a contract.                                         *)
Has(s, c, kinds)    == \E i \in DOMAIN s : \E d \in Diffs(s[i]) :
                           d.contract = c /\ d.kind \in kinds
Created(s, c)       == Has(s, c, {"create"})
Resolved(s, c)      == Has(s, c, {"resolve", "renew"})
Open(s, c)          == Created(s, c) /\ ~Resolved(s, c)
RevisionNumber(s, c) == Cardinality({i \in DOMAIN s : s[i].kind = "revise" /\ s[i].contract = c})

(* The blocks consensus allows next on a chain.                             *)
Renewals == {Renewal[c] : c \in DOMAIN Renewal}
ValidBlocks(s) ==
    LET early(c) == Len(s) + 1 < ProofHeight[c]
        on(kind, S) == {Block(kind, c, RevisionNumber(s, c)) : c \in S}
        open == {c \in Contracts : Open(s, c)}
    IN  {Block("none", NULL, 0)}
        \cup on("create", {c \in announced \ Renewals : early(c) /\ ~Created(s, c)})
        \cup on("revise", {c \in open : early(c) /\ RevisionNumber(s, c) < MaxRev})
        \cup on("renew", {c \in open \cap DOMAIN Renewal : early(c) /\ Renewal[c] \in announced})
        \cup on("resolve", {c \in open : Len(s) + 1 >= ProofHeight[c]})

(* OnReorg: a token in a channel of size one; a full channel keeps its own. *)
(* (Mutant: the token is only taken while nobody syncs.)                    *)
NotifyWaiting == notified \/ phase = "idle"
Notify        == TRUE

Mine ==
    /\ Len(chain) < MaxHeight
    /\ \E b \in ValidBlocks(chain) : chain' = Append(chain, b)
    /\ notified' = Notify
    /\ UNCHANGED <<announced, reorgs, scanned, phase, tried, db, creating, detached, faults>>

Reorg ==
    /\ reorgs < MaxReorgs
    /\ \E n \in 1..MaxDepth :
         /\ n <= Len(chain)
         /\ LET base == SubSeq(chain, 1, Len(chain) - n)
            IN  \E b \in ValidBlocks(base) \ {chain[Len(base) + 1]} : chain' = Append(base, b)
    /\ reorgs' = reorgs + 1
    /\ notified' = Notify
    /\ UNCHANGED <<announced, scanned, phase, tried, db, creating, detached, faults>>

-----------------------------------------------------------------------------
(***************************************************************************)
(* Rows                                                                    *)
(***************************************************************************)
(* An element: the contract's revision and the height its proof is for.     *)
Element(rev, height) == [rev |-> rev, basis |-> height]
NoElement == Element(0, 0)
Garbage   == MaxHeight + 1

Unknown == [known |-> FALSE, state |-> "pending", elem |-> NoElement, renewed |-> FALSE]

(* applyV2ContractDiffs for a known contract.                               *)
AppliedRow(row, d, height) ==
    CASE d.kind = "create"  -> [row EXCEPT !.state = "active", !.elem = Element(0, height)]
      [] d.kind = "revise"  -> [row EXCEPT !.elem = Element(d.rev + 1, height)]
      [] d.kind = "resolve" -> [row EXCEPT !.state = "resolved", !.elem = NoElement]
      [] d.kind = "renew"   -> [row EXCEPT !.state = "resolved", !.elem = NoElement,
                                  !.renewed = @ \/ db[Renewal[d.contract]].known]

(* revertV2ContractDiffs for a known contract.                              *)
RevertedRow(row, d, height) ==
    CASE d.kind = "create"  -> [row EXCEPT !.state = "pending", !.elem = NoElement]
      [] d.kind = "revise"  -> [row EXCEPT !.elem = Element(d.rev, height)]
      [] d.kind = "resolve" -> [row EXCEPT !.state = "active", !.elem = Element(d.rev, height)]
      [] d.kind = "renew"   -> [row EXCEPT !.state = "active", !.elem = Element(d.rev, height),
                                  !.renewed = FALSE]

(* updateContractElementProofs: a proof for the state before the block      *)
(* becomes one for the state after it; any other becomes useless.  (Mutant: *)
(* only the elements the block touched are written.)                        *)
KeepProof(elem, from, to)          == elem
UpdateElementProof(elem, from, to) ==
    IF elem = NoElement THEN NoElement
    ELSE Element(elem.rev, IF elem.basis = from THEN to ELSE Garbage)

(* One block of UpdateChainState, for a known contract.                     *)
UpdatedRow(row, c, u) ==
    LET diffs == {d \in Diffs(u.block) : d.contract = c}
        d     == CHOOSE x \in diffs : TRUE
    IN  IF diffs = {} THEN [row EXCEPT !.elem = UpdateElementProof(@, u.from, u.to)]
        ELSE IF u.from < u.to THEN AppliedRow(row, d, u.to) ELSE RevertedRow(row, d, u.to)

-----------------------------------------------------------------------------
(***************************************************************************)
(* Forming and renewing (form.go, renew.go): the host's RPC announces the  *)
(* contract, the insert follows.                                           *)
(***************************************************************************)
FormContract(c) ==
    /\ c \notin announced \cup Renewals
    /\ announced' = announced \cup {c}
    /\ creating' = creating \cup {c}
    /\ UNCHANGED <<chain, reorgs, syncVars, db, detached, faults>>

(* A contract in use: known, pending or active, not renewed, not yet due.   *)
InUse(c) ==
    /\ db[c].known /\ db[c].state \in {"pending", "active"} /\ ~db[c].renewed
    /\ ProofHeight[c] > Len(scanned)

RenewContract(c) ==
    /\ c \in DOMAIN Renewal /\ InUse(c) /\ Renewal[c] \notin announced
    /\ announced' = announced \cup {Renewal[c]}
    /\ creating' = creating \cup {Renewal[c]}
    /\ UNCHANGED <<chain, reorgs, syncVars, db, detached, faults>>

(* The row starts as pending, whatever the scanned chain says.              *)
Insert(c) ==
    /\ c \in creating
    /\ creating' = creating \ {c}
    /\ detached' = IF Created(scanned, c) THEN detached \cup {c} ELSE detached
    /\ UNCHANGED <<netVars, syncVars, faults>>

AddFormedContract(c) ==
    /\ c \notin Renewals
    /\ Insert(c)
    /\ db' = [db EXCEPT ![c].known = TRUE]

AddRenewedContract(c) ==
    /\ c \in DOMAIN Renewal
    /\ Insert(Renewal[c])
    /\ db' = [db EXCEPT ![Renewal[c]].known = TRUE, ![c].renewed = TRUE]

(* The insert fails: the contract stays unknown.                            *)
LoseContract(c) ==
    /\ c \in creating
    /\ creating' = creating \ {c}
    /\ UNCHANGED <<netVars, syncVars, db, detached, faults>>

-----------------------------------------------------------------------------
(***************************************************************************)
(* Sync                                                                    *)
(***************************************************************************)
StartSync ==
    /\ phase = "idle" /\ notified
    /\ notified' = FALSE
    /\ phase' = "updating"
    /\ UNCHANGED <<netVars, scanned, tried, db, creating, detached, faults>>

(* UpdatesSince: back to the best chain, then along it, a batch at most.    *)
UpdatesSince ==
    LET base == Len(LongestCommonPrefix({scanned, chain}))
        step(block, from, to) == [block |-> block, from |-> from, to |-> to]
        reverts == [i \in 1..(Len(scanned) - base) |->
                       LET h == Len(scanned) + 1 - i IN step(scanned[h], h, h - 1)]
        applies == [i \in 1..(Len(chain) - base) |->
                       LET h == base + i IN step(chain[h], h - 1, h)]
    IN  LET updates == reverts \o applies
        IN  SubSeq(updates, 1, Min({BatchSize, Len(updates)}))

(* The blocks of a batch, one after the other.                              *)
RowAfter(c, updates) ==
    LET row[i \in 0..Len(updates)] ==
            IF i = 0 THEN db[c] ELSE UpdatedRow(row[i - 1], c, updates[i])
    IN  row[Len(updates)]

(* One transaction.  A contract is known throughout it or ignored           *)
(* throughout it (knownContracts).                                          *)
UpdateChainState ==
    /\ phase = "updating" /\ scanned # chain
    /\ \E updates \in {UpdatesSince} :
         /\ db' = [c \in Contracts |->
                      IF db[c].known THEN RowAfter(c, updates) ELSE db[c]]
         /\ scanned' = LET u == Last(updates)
                       IN  SubSeq(IF u.from < u.to THEN chain ELSE scanned, 1, u.to)
         /\ detached' = {c \in detached : \A i \in DOMAIN updates :
                            Diff("create", c, 0) \notin Diffs(updates[i].block)}
    /\ UNCHANGED <<netVars, notified, phase, tried, creating, faults>>

(* UpdatesSince has lost the blocks of the scanned index: scan again from   *)
(* the start.  Contracts and their elements are left as they are.           *)
ResetChainState ==
    /\ faults < MaxFaults
    /\ phase = "updating" /\ scanned # chain
    /\ scanned' = <<>>
    /\ detached' = {c \in Contracts : db[c].known}
    /\ faults' = faults + 1
    /\ UNCHANGED <<netVars, notified, phase, tried, db, creating>>

(* The order of ProcessActions.  (Mutant: prune, then broadcast.)           *)
PruneFirst == [updating |-> "reject", reject |-> "prune", prune |-> "broadcast",
               broadcast |-> "idle"]
NextPhase  == [updating |-> "reject", reject |-> "broadcast", broadcast |-> "prune",
               prune |-> "idle"]

Synced ==
    /\ phase = "updating" /\ scanned = chain
    /\ phase' = NextPhase["updating"]
    /\ UNCHANGED <<netVars, scanned, notified, tried, db, creating, detached, faults>>

(* Which pending contracts are older than contractRejectBuffer is left open. *)
RejectPendingContracts ==
    /\ phase = "reject"
    /\ \E old \in SUBSET {c \in Contracts : db[c].known /\ db[c].state = "pending"} :
         db' = [c \in Contracts |-> IF c \in old THEN [db[c] EXCEPT !.state = "rejected"] ELSE db[c]]
    /\ phase' = NextPhase["reject"]
    /\ UNCHANGED <<netVars, scanned, notified, tried, creating, detached, faults>>

ExpiredFor(c, blocks) == Len(scanned) >= ExpirationHeight[c] + blocks

(* ContractElementsForBroadcast *)
ForBroadcast == {c \in Contracts : /\ db[c].known /\ db[c].elem # NoElement
                                   /\ ExpiredFor(c, BroadcastBuffer)
                                   /\ db[c].state = "active" /\ ~db[c].renewed}

(* Every one is tried once.  That it cannot be funded or is not accepted is *)
(* logged, and the loop goes on: no row says so, and the next sync tries    *)
(* again while the element is there.                                        *)
BroadcastExpiredContracts ==
    /\ phase = "broadcast"
    /\ tried' = tried \cup ForBroadcast
    /\ phase' = NextPhase["broadcast"]
    /\ UNCHANGED <<netVars, scanned, notified, db, creating, detached, faults>>

PruneExpiredContractElements ==
    /\ phase = "prune"
    /\ db' = [c \in Contracts |-> IF db[c].known /\ ExpiredFor(c, BroadcastBuffer + PruneBuffer)
                                  THEN [db[c] EXCEPT !.elem = NoElement] ELSE db[c]]
    /\ phase' = NextPhase["prune"]
    /\ UNCHANGED <<netVars, scanned, notified, tried, creating, detached, faults>>

(* ProcessActions returns an error, which is logged.                        *)
ActionFails ==
    /\ phase \in {"reject", "broadcast", "prune"}
    /\ phase' = "idle"
    /\ UNCHANGED <<netVars, scanned, notified, tried, db, creating, detached, faults>>

(* The process ends, by itself or because Sync returned an error; New       *)
(* triggers the initial sync.                                               *)
Crash ==
    /\ faults < MaxFaults
    /\ phase' = "idle" /\ notified' = TRUE /\ creating' = {}
    /\ faults' = faults + 1
    /\ UNCHANGED <<netVars, scanned, tried, db, detached>>

-----------------------------------------------------------------------------
Init ==
    /\ chain = <<>> /\ announced = {} /\ reorgs = 0 /\ faults = 0
    /\ scanned = <<>> /\ notified = TRUE /\ phase = "idle"
    /\ db = [c \in Contracts |-> Unknown]
    /\ creating = {} /\ tried = {} /\ detached = {}

Sync ==
    \/ StartSync \/ UpdateChainState \/ Synced
    \/ RejectPendingContracts \/ BroadcastExpiredContracts \/ PruneExpiredContractElements

Next ==
    \/ Mine \/ Reorg
    \/ \E c \in Contracts :
         FormContract(c) \/ RenewContract(c) \/ LoseContract(c)
         \/ AddFormedContract(c) \/ AddRenewedContract(c)
    \/ Sync \/ ResetChainState \/ ActionFails \/ Crash

(* The subscriber's goroutine keeps running: weak fairness of Sync, with    *)
(* the condition under which it is enabled written out.                     *)
CanSync  == notified \/ phase # "idle"
Fairness == []<>~CanSync \/ []<><<Sync>>_vars

Spec == Init /\ [][Next]_vars /\ Fairness

-----------------------------------------------------------------------------
(***************************************************************************)
(* Properties                                                              *)
(***************************************************************************)
States == {"pending", "active", "resolved", "rejected"}

(* Types of the state; an element exists for contracts with a row only, and *)
(* its revision is one the chain has seen.                                  *)
TypeOK ==
    /\ announced \subseteq Contracts /\ creating \subseteq announced
    /\ db \in [Contracts -> [known : BOOLEAN, state : States, renewed : BOOLEAN,
                             elem : [rev : 0..MaxRev, basis : 0..Garbage]]]
    /\ \A c \in Contracts : ~db[c].known => db[c] = Unknown
    /\ notified \in BOOLEAN /\ phase \in DOMAIN NextPhase \cup {"idle"}
    /\ tried \subseteq Contracts /\ detached \subseteq Contracts

Attached == {c \in Contracts : db[c].known} \ detached

(* However blocks are batched, reverted and applied again around the        *)
(* insertion, rejection, crashes and rescans: a contract whose creation     *)
(* reached its row is active exactly while the scanned chain has it         *)
(* unresolved and resolved exactly once it resolved it.                     *)
StateFollowsChain ==
    \A c \in Attached :
        /\ (db[c].state = "active") <=> Open(scanned, c)
        /\ (db[c].state = "resolved") <=> Resolved(scanned, c)

(* A stored element is the contract as of the scanned block, with a proof   *)
(* for that block: any other makes the revisions and resolutions built on   *)
(* it invalid.                                                              *)
ElementsFollowChain ==
    \A c \in Attached : db[c].elem # NoElement =>
        /\ Open(scanned, c)
        /\ db[c].elem = Element(RevisionNumber(scanned, c), Len(scanned))

(* A contract whose renewal is confirmed and known points to it, whether    *)
(* the block or the insert of the renewal came first, and after any         *)
(* reorganisation.                                                          *)
RenewalsFollowChain ==
    \A c \in DOMAIN Renewal :
        db[c].known /\ db[Renewal[c]].known /\ Has(scanned, c, {"renew"}) => db[c].renewed

(* State, element and renewal of every contract are those of the scanned    *)
(* chain.                                                                   *)
RowsFollowChain == StateFollowsChain /\ ElementsFollowChain /\ RenewalsFollowChain

(* An unresolved contract loses its element only after indexd tried at      *)
(* least once to broadcast its resolution, or when it is considered         *)
(* renewed, even if one sync crosses all the heights at which something is  *)
(* due or syncs in between failed.  (Not that a broadcast ever succeeded:   *)
(* the element goes after PruneBuffer blocks of failures as well.)          *)
PrunedWasTried ==
    \A c \in Attached : db[c].state = "active" /\ db[c].elem = NoElement =>
        c \in tried \/ db[c].renewed

(* No tip is overlooked: a block that arrives while a sync ends, or before  *)
(* a crash, is scanned once the chain stays still for long enough.          *)
CatchesUp == []<>(scanned = chain)

(* contract.go: "rejected: the contract didn't make it into a block".       *)
RejectedNeverMined ==
    \A c \in Contracts : db[c].state = "rejected" => ~Created(scanned, c)
=============================================================================
