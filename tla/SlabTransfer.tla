----------------------------- MODULE SlabTransfer -----------------------------
(***************************************************************************)
(* One migration's transfers.  Recovery (slabs/downloads.go) reads a slab  *)
(* in chunks, several at a time; every chunk starts one download on each   *)
(* of MinPieces hosts and hedges with further hosts when downloads fail or *)
(* are slow.  The upload (slabs/uploads.go) then places the recovered      *)
(* shards, each shard trying hosts of a shared pool.  All goroutines       *)
(* reserve slots on hosts with the provider of client/v2/hostqueue.go,     *)
(* which ranks hosts by the slots they have in flight: a slot that is not  *)
(* given back demotes its host for good.                                   *)
(***************************************************************************)
EXTENDS Integers, FiniteSets

CONSTANTS
    SlabHosts,    \* hosts of the slab's sectors, one each
    Missing,      \* those of them that lost their sector
    Pool,         \* candidates for the upload
    MinPieces,    \* pieces a chunk is reconstructed from (MinShards)
    NumChunks,    \* chunks of a sector, recovered in order
    Concurrency,  \* chunks at a time
    Shards,       \* shards to upload
    MaxUploads,   \* uploads at a time (10 in the code)
    MaxDrops      \* bound on hosts that become unusable

Chunks   == 1..NumChunks
AllHosts == SlabHosts \cup Pool

ASSUME TransferAssumption ==
    /\ IsFiniteSet(SlabHosts) /\ IsFiniteSet(Pool) /\ SlabHosts \cap Pool = {}
    /\ Missing \subseteq SlabHosts
    /\ MinPieces \in Nat \ {0} /\ NumChunks \in Nat \ {0}
    /\ Concurrency \in Nat \ {0} /\ MaxUploads \in Nat \ {0}
    /\ IsFiniteSet(Shards) /\ MaxDrops \in Nat

VARIABLES
    usable,     \* hosts the client's store calls usable
    inflight,   \* slots reserved per host
    ctxDone,    \* the recovery's context is cancelled
    firstErr,   \* a chunk failed
    excluded,   \* hosts that reported their sector lost: r.excluded, r.lost
    chunk,      \* state of every chunk
    untried,    \* history: per chunk, hosts it did not ask although the
                \* recovery was not cancelled
    result,     \* what recoverShards returned
    pool,       \* hosts no shard has tried
    upload      \* state of every shard

recoverVars  == <<ctxDone, firstErr, excluded, chunk, untried, result>>
uploadVars   == <<pool, upload>>
transferVars == <<usable, inflight, recoverVars, uploadVars>>

NewChunk == [pc |-> "queued", spawn |-> {}, remaining |-> {}, running |-> {},
             got |-> {}, failed |-> {}]

TransferInit ==
    /\ usable = AllHosts
    /\ inflight = [h \in AllHosts |-> 0]
    /\ ctxDone = FALSE /\ firstErr = FALSE
    /\ excluded = {}
    /\ chunk = [c \in Chunks |-> NewChunk]
    /\ untried = {}
    /\ result = "none"
    /\ pool = {}
    /\ upload = [s \in Shards |-> [pc |-> "idle", host |-> {}]]

-----------------------------------------------------------------------------
(***************************************************************************)
(* recoverShards and recoverChunk                                          *)
(***************************************************************************)

Reserve(H) == inflight' = [h \in AllHosts |-> inflight[h] + IF h \in H THEN 1 ELSE 0]
Release(H) == inflight' = [h \in AllHosts |-> inflight[h] - IF h \in H THEN 1 ELSE 0]

Enough(c)    == Cardinality(chunk[c].got) >= MinPieces
ChunkDone(c) == ctxDone \/ Enough(c)
Ended(c)     == chunk[c].pc \in {"ok", "err", "skipped"}
Active(c)    == chunk[c].pc # "queued" /\ ~Ended(c)

(* The chunk loop waits for a free place or for the end of the context; if  *)
(* there is both, either may be taken.                                      *)
MayStart(c) ==
    /\ chunk[c].pc = "queued"
    /\ \A d \in 1..(c - 1) : chunk[d].pc \notin {"queued", "skipped"}
    /\ Cardinality({d \in Chunks : Active(d)}) < Concurrency
MaySkipChunks == ctxDone /\ \E c \in Chunks : chunk[c].pc = "queued"

StartChunk(c) ==
    /\ MayStart(c)
    /\ chunk' = [chunk EXCEPT ![c].pc = "pick"]
    /\ UNCHANGED <<usable, inflight, ctxDone, firstErr, excluded, untried, result, uploadVars>>

SkipChunks ==
    /\ MaySkipChunks
    /\ chunk' = [c \in Chunks |-> IF chunk[c].pc = "queued"
                                  THEN [chunk[c] EXCEPT !.pc = "skipped"] ELSE chunk[c]]
    /\ UNCHANGED <<usable, inflight, ctxDone, firstErr, excluded, untried, result, uploadVars>>

(* PickReads: MinPieces of the usable candidates get a slot each, or none   *)
(* if there are not enough.  The order of the hosts depends on what was     *)
(* measured of them, so any of them may be picked.                          *)
Candidates == (SlabHosts \ excluded) \cap usable
Picks      == {P \in SUBSET Candidates : Cardinality(P) = MinPieces}
TooFew     == Cardinality(Candidates) < MinPieces
MayPick(c) == chunk[c].pc = "pick" /\ (TooFew \/ Picks # {})

PickReads(c) ==
    /\ MayPick(c)
    /\ IF TooFew
       THEN /\ chunk' = [chunk EXCEPT ![c].pc = "err"]
            /\ firstErr' = TRUE /\ ctxDone' = TRUE
            /\ UNCHANGED inflight
       ELSE /\ \E P \in Picks :
                  /\ Reserve(P)
                  /\ chunk' = [chunk EXCEPT ![c].pc = "spawn", ![c].spawn = P,
                                            ![c].remaining = Candidates \ P]
            /\ UNCHANGED <<firstErr, ctxDone>>
    /\ UNCHANGED <<usable, excluded, untried, result, uploadVars>>

MaySpawn(c) == chunk[c].pc = "spawn" /\ chunk[c].spawn # {}
SpawnInitial(c) ==
    /\ MaySpawn(c)
    /\ \E h \in chunk[c].spawn :
          chunk' = [chunk EXCEPT ![c].spawn = @ \ {h}, ![c].running = @ \cup {h},
                                 ![c].pc = IF chunk[c].spawn = {h} THEN "race" ELSE "spawn"]
    /\ UNCHANGED <<usable, inflight, ctxDone, firstErr, excluded, untried, result, uploadVars>>

(* When the race is over before all initial downloads were started, the     *)
(* slots of the others are released.  (Mutant: they are forgotten.)         *)
NoHosts(H)  == {}
Unstarted(H) == H
MayAbandon(c) == chunk[c].pc = "spawn" /\ ChunkDone(c)
AbandonInitial(c) ==
    /\ MayAbandon(c)
    /\ Release(Unstarted(chunk[c].spawn))
    /\ chunk' = [chunk EXCEPT ![c].spawn = {}, ![c].pc = "race"]
    /\ UNCHANGED <<usable, ctxDone, firstErr, excluded, untried, result, uploadVars>>

(* The race goes on while shards are missing and hosts are left.  (Mutant:  *)
(* it also ends when no download is running.)                               *)
NothingRunning(c) == Enough(c) \/ chunk[c].remaining = {} \/ chunk[c].running = {}
RaceOver(c)       == Enough(c) \/ chunk[c].remaining = {}

(* A failure, or the timer at any moment, makes the race wait for a place   *)
(* for one more download; of those there are MinPieces per chunk.           *)
RaceStep(c) ==
    /\ chunk[c].pc = "race"
    /\ chunk' = [chunk EXCEPT ![c].pc = IF RaceOver(c) THEN "wait" ELSE "slot"]
    /\ UNCHANGED <<usable, inflight, ctxDone, firstErr, excluded, untried, result, uploadVars>>

MayCancel(c) == chunk[c].pc \in {"race", "slot"} /\ ChunkDone(c)
RaceCancelled(c) ==
    /\ MayCancel(c)
    /\ chunk' = [chunk EXCEPT ![c].pc = "wait"]
    /\ UNCHANGED <<usable, inflight, ctxDone, firstErr, excluded, untried, result, uploadVars>>

(* Places in use.  (Mutant: a failed download keeps its place.)             *)
PlacesKept(c) == Cardinality(chunk[c].running \cup chunk[c].failed)
Places(c)     == Cardinality(chunk[c].running)

MayHedge(c) == chunk[c].pc = "slot" /\ Places(c) < MinPieces
Hedge(c) ==
    LET U == chunk[c].remaining \cap usable IN
    /\ MayHedge(c)
    /\ IF U = {}
       THEN chunk' = [chunk EXCEPT ![c].pc = "wait"] /\ UNCHANGED inflight
       ELSE \E h \in U :
               /\ Reserve({h})
               /\ chunk' = [chunk EXCEPT ![c].pc = "race", ![c].remaining = U \ {h},
                                         ![c].running = @ \cup {h}]
    /\ UNCHANGED <<usable, ctxDone, firstErr, excluded, untried, result, uploadVars>>

(* A download ends: the shard arrives, the host says it lost the sector,    *)
(* or the read fails, times out or is interrupted.  The signal it sends to  *)
(* the race may get lost, the timer then takes its place.                   *)
DownloadEnds(c) ==
    \E h \in chunk[c].running :
    /\ Release({h})
    /\ \/ /\ h \notin Missing
          /\ chunk' = [chunk EXCEPT ![c].running = @ \ {h}, ![c].got = @ \cup {h}]
          /\ UNCHANGED excluded
       \/ /\ chunk' = [chunk EXCEPT ![c].running = @ \ {h}, ![c].failed = @ \cup {h}]
          /\ excluded' \in {excluded} \cup {excluded \cup {g} : g \in {h} \cap Missing}
    /\ UNCHANGED <<usable, ctxDone, firstErr, untried, result, uploadVars>>

(* When all its downloads have ended the chunk is reconstructed or fails,   *)
(* and the first failure cancels the others.                                *)
MayEnd(c) == chunk[c].pc = "wait" /\ chunk[c].running = {}
ChunkEnds(c) ==
    /\ MayEnd(c)
    /\ chunk' = [chunk EXCEPT ![c].pc = IF Enough(c) THEN "ok" ELSE "err"]
    /\ firstErr' = (firstErr \/ ~Enough(c))
    /\ ctxDone' = (ctxDone \/ ~Enough(c))
    /\ untried' = untried \cup IF Enough(c) \/ ctxDone THEN {}
                               ELSE chunk[c].remaining \cap usable
    /\ UNCHANGED <<usable, inflight, excluded, result, uploadVars>>

(* recoverShards returns once every chunk it started has ended.             *)
Recovered == ~firstErr /\ ~ctxDone

MayReturn == result = "none" /\ \A c \in Chunks : Ended(c)
RecoverShards ==
    /\ MayReturn
    /\ result' = IF Recovered THEN "ok" ELSE "error"
    /\ pool' = IF Recovered THEN Pool \cap usable ELSE {}
    /\ upload' = [s \in Shards |-> [upload[s] EXCEPT !.pc = IF Recovered THEN "queued" ELSE "given up"]]
    /\ chunk' = [c \in Chunks |-> [NewChunk EXCEPT !.pc = chunk[c].pc]]
    /\ UNCHANGED <<usable, inflight, ctxDone, firstErr, excluded, untried>>

-----------------------------------------------------------------------------
(***************************************************************************)
(* uploadShards                                                            *)
(***************************************************************************)

Uploading(s) == upload[s].pc \in {"pick", "write"}

MayUpload(s) ==
    upload[s].pc = "queued" /\ Cardinality({t \in Shards : Uploading(t)}) < MaxUploads
StartUpload(s) ==
    /\ MayUpload(s)
    /\ upload' = [upload EXCEPT ![s].pc = "pick"]
    /\ UNCHANGED <<usable, inflight, recoverVars, pool>>

(* PickWrite takes a host out of the shared pool.                           *)
RemoveHost(h) == pool \ {h}

PickWrite(s) ==
    /\ upload[s].pc = "pick"
    /\ IF pool = {} \/ ctxDone
       THEN /\ upload' = [upload EXCEPT ![s].pc = "given up"]
            /\ UNCHANGED <<inflight, pool>>
       ELSE \E h \in pool :
               /\ pool' = RemoveHost(h)
               /\ Reserve({h})
               /\ upload' = [upload EXCEPT ![s] = [pc |-> "write", host |-> {h}]]
    /\ UNCHANGED <<usable, recoverVars>>

(* The host stores the shard, or the shard goes on to another host.  A root *)
(* that does not match stops the migration.                                 *)
WriteEnds(s) ==
    /\ upload[s].pc = "write"
    /\ Release(upload[s].host)
    /\ \/ upload' = [upload EXCEPT ![s].pc = "stored"] /\ UNCHANGED ctxDone
       \/ upload' = [upload EXCEPT ![s] = [pc |-> "pick", host |-> {}]] /\ UNCHANGED ctxDone
       \/ upload' = [upload EXCEPT ![s] = [pc |-> "given up", host |-> {}]] /\ ctxDone' = TRUE
    /\ UNCHANGED <<usable, firstErr, excluded, chunk, untried, result, pool>>

MaySkipUploads == ctxDone /\ result = "ok" /\ \E s \in Shards : upload[s].pc = "queued"
SkipUploads ==
    /\ MaySkipUploads
    /\ upload' = [s \in Shards |-> IF upload[s].pc = "queued"
                                   THEN [upload[s] EXCEPT !.pc = "given up"] ELSE upload[s]]
    /\ UNCHANGED <<usable, inflight, recoverVars, pool>>

-----------------------------------------------------------------------------
(* The caller's context ends: shutdown, or a remote pass that is aborted.   *)
CancelTransfer ==
    /\ ~ctxDone /\ ctxDone' = TRUE
    /\ UNCHANGED <<usable, inflight, firstErr, excluded, chunk, untried, result, uploadVars>>

HostUnusable ==
    /\ Cardinality(AllHosts \ usable) < MaxDrops
    /\ \E h \in usable : usable' = usable \ {h}
    /\ UNCHANGED <<inflight, recoverVars, uploadVars>>

TransferOver == result # "none" /\ \A s \in Shards : upload[s].pc \in {"stored", "given up"}

ChunkStep(c) ==
    \/ StartChunk(c) \/ PickReads(c) \/ SpawnInitial(c) \/ AbandonInitial(c) \/ RaceStep(c)
    \/ RaceCancelled(c) \/ Hedge(c) \/ DownloadEnds(c) \/ ChunkEnds(c)
ShardStep(s) == StartUpload(s) \/ PickWrite(s) \/ WriteEnds(s)

TransferSteps ==
    \/ \E c \in Chunks : ChunkStep(c)
    \/ \E s \in Shards : ShardStep(s)
    \/ SkipChunks \/ RecoverShards \/ SkipUploads

TransferNext == TransferSteps \/ CancelTransfer \/ HostUnusable

TransferSpec == TransferInit /\ [][TransferNext]_transferVars

-----------------------------------------------------------------------------
(***************************************************************************)
(* Properties                                                              *)
(***************************************************************************)

(* Slots are given back: a migration that is over holds none, whatever was  *)
(* cancelled, failed or raced on the way.                                   *)
SlotsReturned == TransferOver => \A h \in AllHosts : inflight[h] = 0

(* Recovery only succeeds with every chunk of the sector reconstructed.     *)
RecoveredIsComplete == result = "ok" => \A c \in Chunks : chunk[c].pc = "ok"

(* A recovery that was not cancelled only gives up a chunk after asking     *)
(* every usable host of the slab for it.                                    *)
EveryHostAsked == untried = {}

(* No two shards of a slab are uploaded to the same host: uploadShards      *)
(* panics if they are.                                                      *)
UploadsApart ==
    \A s, t \in Shards :
        s # t /\ upload[s].pc = "stored" /\ upload[t].pc = "stored"
            => upload[s].host \cap upload[t].host = {}

(* What a migration does with its slab can be relied on: a recovery that    *)
(* succeeded has every chunk, one that failed had asked everybody, and no   *)
(* two shards end on one host.                                              *)
TransferSound == RecoveredIsComplete /\ EveryHostAsked /\ UploadsApart

(* The guards of TransferSteps: a chunk or a shard that can go on.          *)
ChunkReady(c) ==
    \/ MayStart(c) \/ MayPick(c) \/ MaySpawn(c) \/ MayAbandon(c) \/ MayCancel(c)
    \/ MayHedge(c) \/ MayEnd(c) \/ chunk[c].pc = "race" \/ chunk[c].running # {}
TransferReady ==
    \/ \E c \in Chunks : ChunkReady(c)
    \/ \E s \in Shards : MayUpload(s) \/ Uploading(s)
    \/ MaySkipChunks \/ MayReturn \/ MaySkipUploads

(* Nobody waits for nothing: until the migration is over one of its         *)
(* goroutines can go on, also if all that happens is that downloads end by  *)
(* their timeouts, so that slots and places come free and the waits for     *)
(* them end.                                                                *)
TransferNotStuck == TransferOver \/ TransferReady

(* Reads that race, hedge and are cancelled, and uploads that share a pool, *)
(* amount to the steps of SlabMove: a sector is reported lost only by its   *)
(* host and while the recovery runs, a recovery succeeds only if enough     *)
(* sectors are there, and a shard is stored once, on a host of its own      *)
(* (recoverShards, uploadShards).                                           *)
StoredOn == {p \in Shards \X Pool : upload[p[1]].pc = "stored" /\ p[2] \in upload[p[1]].host}
Move     == INSTANCE SlabMove WITH
                Recoverable <- Cardinality(SlabHosts \ Missing) >= MinPieces,
                outcome <- result, lost <- excluded, moved <- StoredOn

ImplementsMove == Move!Spec
===============================================================================
