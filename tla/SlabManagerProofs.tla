-------------------------- MODULE SlabManagerProofs ---------------------------
(***************************************************************************)
(* Proofs about the loops of the slab manager: the transfers of a          *)
(* migration (SlabTransfer), the passes of a remote migrator (RemotePass)  *)
(* and the integrity checks (IntegrityChecks), each with its inductive     *)
(* invariant.                                                              *)
(***************************************************************************)
EXTENDS SlabTransfer, RemotePass, IntegrityChecks, FiniteSetTheorems,
        SequenceTheorems, WellFoundedInduction, TLAPS

(***************************************************************************)
(* The transfers of a migration (SlabTransfer)                             *)
(***************************************************************************)

ChunkStates ==
    [pc : {"queued", "pick", "spawn", "race", "slot", "wait", "ok", "err", "skipped"},
     spawn : SUBSET SlabHosts, remaining : SUBSET SlabHosts, running : SUBSET SlabHosts,
     got : SUBSET SlabHosts, failed : SUBSET SlabHosts]
UploadStates ==
    [pc : {"idle", "queued", "pick", "write", "stored", "given up"}, host : SUBSET Pool]

(* The types the argument needs.                                            *)
TransferTypes ==
    /\ chunk \in [Chunks -> ChunkStates] /\ upload \in [Shards -> UploadStates]
    /\ inflight \in [AllHosts -> Int] /\ pool \subseteq Pool
    /\ ctxDone \in BOOLEAN /\ firstErr \in BOOLEAN /\ result \in {"none", "ok", "error"}

(* The hosts a chunk, and a shard, holds slots of.                          *)
Held(k)   == k.spawn \cup k.running
Writes(u) == IF u.pc = "write" THEN u.host ELSE {}

(* A chunk asks no host twice: one that has a slot is not among the hosts   *)
(* left.  A chunk that starts downloads has some to start, no step after    *)
(* that keeps slots for them, and a chunk that has ended runs no download.  *)
WellKept(k) ==
    /\ k.spawn \cap k.running = {} /\ k.remaining \cap Held(k) = {}
    /\ k.pc = "spawn" <=> k.spawn # {}
    /\ k.pc \in {"queued", "pick", "ok", "err", "skipped"} => k.running = {}

(* Only a shard that is being written or is stored has a host, one no other *)
(* shard has and that is out of the pool.                                   *)
HostsApart ==
    /\ \A s \in Shards : upload[s].pc \notin {"write", "stored"} => upload[s].host = {}
    /\ \A s \in Shards : upload[s].host \cap pool = {}
    /\ \A s, t \in Shards : s # t => upload[s].host \cap upload[t].host = {}

(* Every slot belongs to a chunk that has it in hand or to a shard that is  *)
(* being written to the host.                                               *)
Reading(h) == {c \in Chunks : h \in Held(chunk[c])}
Writing(h) == {s \in Shards : h \in Writes(upload[s])}
SlotsCounted ==
    \A h \in AllHosts : inflight[h] = Cardinality(Reading(h)) + Cardinality(Writing(h))

(* Why chunks end without their shards.                                     *)
FailuresKnown ==
    \A c \in Chunks : /\ chunk[c].pc = "err" => firstErr
                      /\ chunk[c].pc = "skipped" => ctxDone

(* Why a race is over.                                                      *)
RacesOver ==
    \A c \in Chunks : chunk[c].pc = "wait" =>
        ChunkDone(c) \/ chunk[c].remaining \cap usable = {}

(* The upload begins when all chunks have ended, with all shards.           *)
Phases ==
    /\ result = "none" => \A s \in Shards : upload[s].pc = "idle"
    /\ result # "none" => \A c \in Chunks : Ended(c)
    /\ result # "none" => \A s \in Shards : upload[s].pc # "idle"

TransferInv ==
    /\ TransferTypes /\ (\A c \in Chunks : WellKept(chunk[c])) /\ HostsApart /\ SlotsCounted
    /\ FailuresKnown /\ RacesOver /\ Phases /\ RecoveredIsComplete /\ EveryHostAsked

-----------------------------------------------------------------------------
(* An element counts for one.                                               *)
LEMMA CountOne ==
    ASSUME NEW A, IsFiniteSet(A), NEW x
    PROVE  /\ Cardinality(A \ {x}) \in Nat
           /\ Cardinality(A) = Cardinality(A \ {x}) + (IF x \in A THEN 1 ELSE 0)
<1>0. Cardinality(A) \in Nat
  BY FS_CardinalityType
<1>1. CASE x \in A
  <2>1. IsFiniteSet(A \ {x}) /\ Cardinality(A \ {x}) = Cardinality(A) - 1
    BY <1>1, FS_RemoveElement
  <2>2. Cardinality(A \ {x}) \in Nat
    BY <2>1, FS_CardinalityType
  <2> QED BY <1>0, <1>1, <2>1, <2>2
<1>2. CASE x \notin A
  <2>1. A \ {x} = A
    BY <1>2
  <2>2. Cardinality(A \ {x}) = Cardinality(A)
    BY <2>1, Zenon
  <2> QED BY <1>0, <1>2, <2>2
<1> QED BY <1>1, <1>2

(* Sets that differ in one element at most.                                 *)
LEMMA CountDiffers ==
    ASSUME NEW A, NEW B, IsFiniteSet(A), IsFiniteSet(B), NEW x, A \ {x} = B \ {x}
    PROVE  /\ Cardinality(A) \in Nat /\ Cardinality(B) \in Nat
           /\ Cardinality(B) = Cardinality(A) + (IF x \in B THEN 1 ELSE 0)
                                              - (IF x \in A THEN 1 ELSE 0)
<1>1. PICK n : n = Cardinality(A \ {x})
  OBVIOUS
<1>2. n = Cardinality(B \ {x})
  BY <1>1
<1>3. n \in Nat /\ Cardinality(A) = n + (IF x \in A THEN 1 ELSE 0)
  BY <1>1, CountOne
<1>4. Cardinality(B) = n + (IF x \in B THEN 1 ELSE 0)
  BY <1>2, CountOne
<1> QED BY <1>3, <1>4

(* Chunks and shards are finitely many.                                     *)
LEMMA FiniteHolders ==
    \A h : /\ IsFiniteSet(Reading(h)) /\ IsFiniteSet(Writing(h))
           /\ IsFiniteSet(Reading(h)') /\ IsFiniteSet(Writing(h)')
<1>1. IsFiniteSet(Chunks) /\ IsFiniteSet(Shards)
  BY TransferAssumption, FS_Interval DEF Chunks
<1> TAKE h
<1>2. /\ Reading(h) \subseteq Chunks /\ Reading(h)' \subseteq Chunks
      /\ Writing(h) \subseteq Shards /\ Writing(h)' \subseteq Shards
  BY DEF Reading, Writing
<1> QED BY <1>1, <1>2, FS_Subset

(* To begin with nothing is reserved.                                       *)
LEMMA TransferInitHolds == TransferInit => TransferInv
<1> SUFFICES ASSUME TransferInit PROVE TransferInv
  OBVIOUS
<1>1. \A c \in Chunks : /\ chunk[c].pc = "queued" /\ chunk[c].spawn = {}
                        /\ chunk[c].running = {} /\ chunk[c].remaining = {}
  BY DEF TransferInit, NewChunk
<1>2. \A s \in Shards : upload[s].pc = "idle" /\ upload[s].host = {}
  BY DEF TransferInit
<1>3. NewChunk \in ChunkStates
  BY DEF NewChunk, ChunkStates
<1>4. TransferTypes
  <2>1. chunk \in [Chunks -> ChunkStates]
    BY <1>3 DEF TransferInit
  <2>2. upload \in [Shards -> UploadStates]
    BY DEF TransferInit, UploadStates
  <2>3. inflight \in [AllHosts -> Int] /\ pool \subseteq Pool
    BY DEF TransferInit
  <2>4. ctxDone \in BOOLEAN /\ firstErr \in BOOLEAN /\ result = "none"
    BY DEF TransferInit
  <2> QED BY <2>1, <2>2, <2>3, <2>4 DEF TransferTypes
<1>5. \A c \in Chunks : WellKept(chunk[c])
  BY <1>1 DEF WellKept, Held
<1>6. HostsApart
  BY <1>2 DEF HostsApart
<1>7. SlotsCounted
  <2> SUFFICES ASSUME NEW h \in AllHosts
               PROVE  inflight[h] = Cardinality(Reading(h)) + Cardinality(Writing(h))
    BY DEF SlotsCounted
  <2>1. Reading(h) = {}
    BY <1>1 DEF Reading, Held
  <2>2. Writing(h) = {}
    BY <1>2 DEF Writing, Writes
  <2>3. Cardinality(Reading(h)) = 0 /\ Cardinality(Writing(h)) = 0
    BY <2>1, <2>2, FS_EmptySet, Zenon
  <2> QED BY <2>3 DEF TransferInit
<1>8. FailuresKnown /\ RacesOver
  BY <1>1 DEF FailuresKnown, RacesOver
<1>9. Phases /\ RecoveredIsComplete /\ EveryHostAsked
  BY <1>2 DEF TransferInit, Phases, RecoveredIsComplete, EveryHostAsked
<1> QED BY <1>4, <1>5, <1>6, <1>7, <1>8, <1>9 DEF TransferInv

-----------------------------------------------------------------------------
(* What a chunk or a shard reserves and releases follows what it holds.     *)
SlotsFollow(H, K) ==
    /\ inflight' \in [AllHosts -> Int]
    /\ \A h \in AllHosts : inflight'[h] = inflight[h] + (IF h \in K THEN 1 ELSE 0)
                                                      - (IF h \in H THEN 1 ELSE 0)

(* A chunk that has not ended moves on to k.                                *)
LEMMA ChunkMoves ==
    ASSUME TransferInv, NEW c \in Chunks, NEW k \in ChunkStates, ~Ended(c),
           chunk' = [chunk EXCEPT ![c] = k], WellKept(k), k.pc # "skipped",
           SlotsFollow(Held(chunk[c]), Held(k)),
           ctxDone' \in BOOLEAN, firstErr' \in BOOLEAN,
           ctxDone => ctxDone', firstErr => firstErr', k.pc = "err" => firstErr',
           k.pc = "wait" => \/ ctxDone' \/ Cardinality(k.got) >= MinPieces
                            \/ k.remaining \cap usable = {},
           untried' = {}, UNCHANGED <<usable, result, pool, upload>>
    PROVE  TransferInv'
<1>1. chunk'[c] = k /\ \A d \in Chunks : d # c => chunk'[d] = chunk[d]
  BY DEF TransferInv, TransferTypes
<1>2. TransferTypes'
  BY DEF TransferInv, TransferTypes, SlotsFollow
<1>3. (\A d \in Chunks : WellKept(chunk[d]))'
  BY <1>1 DEF TransferInv, WellKept, Held
<1>4. HostsApart'
  BY DEF TransferInv, HostsApart
<1>5. SlotsCounted'
  <2> SUFFICES ASSUME NEW h \in AllHosts
               PROVE  inflight'[h] = Cardinality(Reading(h)') + Cardinality(Writing(h)')
    BY DEF SlotsCounted
  <2>1. Writing(h)' = Writing(h)
    BY DEF Writing, Writes
  <2>2. Reading(h)' \ {c} = Reading(h) \ {c}
    BY <1>1 DEF Reading, Held
  <2>3. /\ c \in Reading(h)' <=> h \in Held(k)
        /\ c \in Reading(h) <=> h \in Held(chunk[c])
    BY <1>1 DEF Reading, Held
  <2>4. PICK m, n, w : m = Cardinality(Reading(h)) /\ n = Cardinality(Reading(h)')
                       /\ w = Cardinality(Writing(h)) /\ w = Cardinality(Writing(h)')
    BY <2>1, Zenon
  <2>5. m \in Nat /\ n \in Nat /\ n = m + (IF h \in Held(k) THEN 1 ELSE 0)
                                        - (IF h \in Held(chunk[c]) THEN 1 ELSE 0)
    BY <2>2, <2>3, <2>4, CountDiffers, FiniteHolders
  <2>6. w \in Nat
    BY <2>4, FiniteHolders, FS_CardinalityType
  <2>7. inflight[h] = m + w
    BY <2>4 DEF TransferInv, SlotsCounted
  <2>8. inflight'[h] = inflight[h] + (IF h \in Held(k) THEN 1 ELSE 0)
                                   - (IF h \in Held(chunk[c]) THEN 1 ELSE 0)
    BY DEF SlotsFollow
  <2>9. inflight'[h] = n + w
    BY <2>5, <2>6, <2>7, <2>8
  <2> QED BY <2>4, <2>9
<1>6. FailuresKnown'
  BY <1>1 DEF TransferInv, FailuresKnown
<1>7. RacesOver'
  BY <1>1 DEF TransferInv, RacesOver, ChunkDone, Enough
<1>8. result = "none"
  BY DEF TransferInv, Phases
<1>9. Phases' /\ RecoveredIsComplete' /\ EveryHostAsked'
  BY <1>8 DEF TransferInv, Phases, RecoveredIsComplete, EveryHostAsked
<1> QED BY <1>2, <1>3, <1>4, <1>5, <1>6, <1>7, <1>9 DEF TransferInv

(* Chunks that were not started are not.                                    *)
LEMMA SkipStep ==
    ASSUME TransferInv, SkipChunks
    PROVE  TransferInv'
<1>1. /\ ctxDone /\ ctxDone' = ctxDone /\ result = "none"
      /\ UNCHANGED <<usable, inflight, firstErr, untried, result, pool, upload>>
      /\ chunk' = [c \in Chunks |-> IF chunk[c].pc = "queued"
                                    THEN [chunk[c] EXCEPT !.pc = "skipped"] ELSE chunk[c]]
  BY DEF SkipChunks, MaySkipChunks, uploadVars, TransferInv, Phases, Ended
<1>2. ASSUME NEW c \in Chunks
      PROVE  /\ chunk'[c] \in ChunkStates /\ WellKept(chunk'[c])
             /\ Held(chunk'[c]) = Held(chunk[c])
             /\ chunk'[c].pc = (IF chunk[c].pc = "queued" THEN "skipped" ELSE chunk[c].pc)
             /\ chunk'[c].remaining = chunk[c].remaining /\ chunk'[c].got = chunk[c].got
  <2>1. chunk[c] \in ChunkStates /\ WellKept(chunk[c])
    BY DEF TransferInv, TransferTypes
  <2>2. CASE chunk[c].pc = "queued"
    <3>1. PICK k : k = [chunk[c] EXCEPT !.pc = "skipped"]
      OBVIOUS
    <3>2. /\ k.pc = "skipped" /\ k.spawn = chunk[c].spawn /\ k.running = chunk[c].running
          /\ k.remaining = chunk[c].remaining /\ k.got = chunk[c].got /\ k \in ChunkStates
      BY <2>1, <3>1 DEF ChunkStates
    <3>3. chunk'[c] = k
      BY <1>1, <2>2, <3>1
    <3> QED BY <2>1, <2>2, <3>2, <3>3 DEF WellKept, Held
  <2>3. CASE chunk[c].pc # "queued"
    BY <1>1, <2>1, <2>3
  <2> QED BY <2>2, <2>3
<1>3. TransferTypes'
  BY <1>1, <1>2 DEF TransferInv, TransferTypes
<1>4. (\A c \in Chunks : WellKept(chunk[c]))'
  BY <1>2
<1>5. HostsApart'
  BY <1>1 DEF TransferInv, HostsApart
<1>6. SlotsCounted'
  <2> SUFFICES ASSUME NEW h \in AllHosts
               PROVE  inflight'[h] = Cardinality(Reading(h)') + Cardinality(Writing(h)')
    BY DEF SlotsCounted
  <2>1. Reading(h)' = Reading(h)
    BY <1>2 DEF Reading
  <2>2. Writing(h)' = Writing(h)
    BY <1>1 DEF Writing, Writes
  <2>3. inflight[h] = Cardinality(Reading(h)') + Cardinality(Writing(h)')
    BY <2>1, <2>2, Zenon DEF TransferInv, SlotsCounted
  <2> QED BY <1>1, <2>3
<1>7. FailuresKnown' /\ RacesOver'
  BY <1>1, <1>2 DEF TransferInv, FailuresKnown, RacesOver, ChunkDone
<1>8. Phases' /\ RecoveredIsComplete' /\ EveryHostAsked'
  BY <1>1 DEF TransferInv, Phases, RecoveredIsComplete, EveryHostAsked
<1> QED BY <1>3, <1>4, <1>5, <1>6, <1>7, <1>8 DEF TransferInv

(* The slots of one that keeps what it holds.                               *)
LEMMA SlotsKept ==
    ASSUME TransferInv, NEW H, inflight' = inflight
    PROVE  SlotsFollow(H, H)
BY DEF TransferInv, TransferTypes, SlotsFollow

(* Reserve, for hosts it does not hold yet.                                 *)
LEMMA SlotsReserved ==
    ASSUME TransferInv, NEW H, NEW D, Reserve(D), D \cap H = {}
    PROVE  SlotsFollow(H, H \cup D)
<1>1. \A h \in AllHosts : inflight[h] \in Int
  BY DEF TransferInv, TransferTypes
<1> QED BY <1>1 DEF Reserve, SlotsFollow

(* Release, for hosts it holds.                                             *)
LEMMA SlotsReleased ==
    ASSUME TransferInv, NEW H, NEW D, Release(D), D \subseteq H
    PROVE  SlotsFollow(H, H \ D)
<1>1. \A h \in AllHosts : inflight[h] \in Int
  BY DEF TransferInv, TransferTypes
<1> QED BY <1>1 DEF Release, SlotsFollow

(* The steps of a chunk that only change where it is.                       *)
LEMMA PcSteps ==
    ASSUME TransferInv, NEW c \in Chunks, StartChunk(c) \/ RaceStep(c) \/ RaceCancelled(c)
    PROVE  TransferInv'
<1>1. UNCHANGED <<usable, inflight, ctxDone, firstErr, untried, result, pool, upload>>
  BY DEF StartChunk, RaceStep, RaceCancelled, uploadVars
<1>2. /\ chunk[c] \in ChunkStates /\ WellKept(chunk[c]) /\ chunk \in [Chunks -> ChunkStates]
      /\ ctxDone \in BOOLEAN /\ firstErr \in BOOLEAN /\ untried = {}
  BY DEF TransferInv, TransferTypes, EveryHostAsked
<1>3. chunk[c].pc \in {"queued", "race", "slot"}
  BY DEF StartChunk, RaceStep, RaceCancelled, MayStart, MayCancel
<1>4. PICK p \in {"pick", "wait", "slot"} :
         /\ chunk' = [chunk EXCEPT ![c] = [chunk[c] EXCEPT !.pc = p]]
         /\ p = "pick" => chunk[c].pc = "queued"
         /\ p = "wait" => \/ ctxDone \/ Enough(c) \/ chunk[c].remaining = {}
  <2>1. CASE StartChunk(c)
    BY <1>2, <2>1 DEF StartChunk, MayStart
  <2>2. CASE RaceStep(c)
    BY <1>2, <2>2 DEF RaceStep, RaceOver
  <2>3. CASE RaceCancelled(c)
    BY <1>2, <2>3 DEF RaceCancelled, MayCancel, ChunkDone
  <2> QED BY <2>1, <2>2, <2>3
<1>5. PICK k : k = [chunk[c] EXCEPT !.pc = p]
  OBVIOUS
<1>6. /\ k \in ChunkStates /\ k.pc = p /\ k.spawn = chunk[c].spawn /\ k.running = chunk[c].running
      /\ k.remaining = chunk[c].remaining /\ k.got = chunk[c].got
  BY <1>2, <1>5 DEF ChunkStates
<1>7. WellKept(k) /\ Held(k) = Held(chunk[c])
  BY <1>2, <1>3, <1>4, <1>6 DEF WellKept, Held
<1>8. k.pc = "wait" => \/ ctxDone \/ Cardinality(k.got) >= MinPieces \/ k.remaining \cap usable = {}
  BY <1>4, <1>6 DEF Enough
<1>9. ~Ended(c) /\ k.pc \notin {"skipped", "err"} /\ chunk' = [chunk EXCEPT ![c] = k]
  BY <1>3, <1>4, <1>5, <1>6 DEF Ended
<1>10. SlotsFollow(Held(chunk[c]), Held(k))
  BY <1>1, <1>7, SlotsKept
<1> QED BY <1>1, <1>2, <1>6, <1>7, <1>8, <1>9, <1>10, ChunkMoves

(* PickReads reserves for a chunk that holds nothing yet.                   *)
LEMMA PickReadsStep ==
    ASSUME TransferInv, NEW c \in Chunks, PickReads(c)
    PROVE  TransferInv'
<1>1. chunk[c].pc = "pick" /\ UNCHANGED <<usable, untried, result, pool, upload>>
  BY DEF PickReads, MayPick, uploadVars
<1>2. /\ chunk[c] \in ChunkStates /\ WellKept(chunk[c]) /\ chunk \in [Chunks -> ChunkStates]
      /\ ctxDone \in BOOLEAN /\ firstErr \in BOOLEAN /\ untried = {}
  BY DEF TransferInv, TransferTypes, EveryHostAsked
<1>3. ~Ended(c) /\ Held(chunk[c]) = {} /\ chunk[c].running = {} /\ chunk[c].spawn = {}
  BY <1>1, <1>2 DEF Ended, WellKept, Held
<1>4. CASE chunk' = [chunk EXCEPT ![c].pc = "err"] /\ firstErr' = TRUE /\ ctxDone' = TRUE
           /\ inflight' = inflight
  <2>1. PICK k : k = [chunk[c] EXCEPT !.pc = "err"]
    OBVIOUS
  <2>2. /\ k \in ChunkStates /\ k.pc = "err" /\ k.spawn = {} /\ k.running = {}
        /\ chunk' = [chunk EXCEPT ![c] = k]
    BY <1>2, <1>3, <1>4, <2>1 DEF ChunkStates
  <2>3. WellKept(k) /\ Held(k) = Held(chunk[c])
    BY <1>3, <2>2 DEF WellKept, Held
  <2>4. SlotsFollow(Held(chunk[c]), Held(k))
    BY <1>4, <2>3, SlotsKept
  <2> QED BY <1>1, <1>2, <1>3, <1>4, <2>2, <2>3, <2>4, ChunkMoves
<1>5. ASSUME NEW U \in SUBSET SlabHosts, NEW P \in SUBSET U, P # {}, Reserve(P),
             chunk' = [chunk EXCEPT ![c].pc = "spawn", ![c].spawn = P, ![c].remaining = U \ P],
             UNCHANGED <<firstErr, ctxDone>>
      PROVE  TransferInv'
  <2>1. PICK k : k = [chunk[c] EXCEPT !.pc = "spawn", !.spawn = P, !.remaining = U \ P]
    OBVIOUS
  <2>2. /\ k \in ChunkStates /\ k.pc = "spawn" /\ k.spawn = P /\ k.running = {}
        /\ k.remaining = U \ P
    BY <1>2, <1>3, <1>5, <2>1 DEF ChunkStates
  <2>3. chunk' = [chunk EXCEPT ![c] = k]
    BY <1>2, <1>5, <2>1 DEF ChunkStates
  <2>4. WellKept(k) /\ Held(k) = Held(chunk[c]) \cup P
    BY <1>3, <1>5, <2>2 DEF WellKept, Held
  <2>5. SlotsFollow(Held(chunk[c]), Held(k))
    <3>1. P \cap Held(chunk[c]) = {}
      BY <1>3
    <3> QED BY <1>5, <2>4, <3>1, SlotsReserved
  <2> QED BY <1>1, <1>2, <1>3, <1>5, <2>2, <2>3, <2>4, <2>5, ChunkMoves
<1>6. ASSUME NEW P \in Picks PROVE P \in SUBSET Candidates /\ P # {}
  BY <1>6, TransferAssumption, FS_EmptySet DEF Picks
<1>7. Candidates \in SUBSET SlabHosts
  BY DEF Candidates
<1> QED BY <1>4, <1>5, <1>6, <1>7 DEF PickReads

(* The initial downloads start, or their slots are given back.              *)
LEMMA SpawnSteps ==
    ASSUME TransferInv, NEW c \in Chunks, SpawnInitial(c) \/ AbandonInitial(c)
    PROVE  TransferInv'
<1>1. /\ chunk[c].pc = "spawn"
      /\ UNCHANGED <<usable, ctxDone, firstErr, untried, result, pool, upload>>
  BY DEF SpawnInitial, MaySpawn, AbandonInitial, MayAbandon, uploadVars
<1>2. /\ chunk[c] \in ChunkStates /\ WellKept(chunk[c]) /\ chunk \in [Chunks -> ChunkStates]
      /\ ctxDone \in BOOLEAN /\ firstErr \in BOOLEAN /\ untried = {}
  BY DEF TransferInv, TransferTypes, EveryHostAsked
<1>3. ~Ended(c)
  BY <1>1 DEF Ended
<1>4. CASE SpawnInitial(c)
  <2>1. PICK h \in chunk[c].spawn :
           chunk' = [chunk EXCEPT ![c].spawn = @ \ {h}, ![c].running = @ \cup {h},
                                  ![c].pc = IF chunk[c].spawn = {h} THEN "race" ELSE "spawn"]
    BY <1>4 DEF SpawnInitial
  <2>2. PICK p : p = IF chunk[c].spawn = {h} THEN "race" ELSE "spawn"
    OBVIOUS
  <2>3. PICK k : k = [chunk[c] EXCEPT !.spawn = @ \ {h}, !.running = @ \cup {h}, !.pc = p]
    OBVIOUS
  <2>4. /\ k \in ChunkStates /\ k.pc = p /\ k.spawn = chunk[c].spawn \ {h}
        /\ k.running = chunk[c].running \cup {h} /\ k.remaining = chunk[c].remaining
    BY <1>2, <2>2, <2>3 DEF ChunkStates
  <2>5. chunk' = [chunk EXCEPT ![c] = k]
    BY <1>2, <2>1, <2>2, <2>3 DEF ChunkStates
  <2>6. WellKept(k) /\ Held(k) = Held(chunk[c])
    BY <1>2, <2>2, <2>4 DEF WellKept, Held
  <2>7. SlotsFollow(Held(chunk[c]), Held(k))
    BY <1>4, <2>6, SlotsKept DEF SpawnInitial
  <2> QED BY <1>1, <1>2, <1>3, <2>2, <2>4, <2>5, <2>6, <2>7, ChunkMoves
<1>5. CASE AbandonInitial(c)
  <2>1. /\ Release(chunk[c].spawn)
        /\ chunk' = [chunk EXCEPT ![c].spawn = {}, ![c].pc = "race"]
    BY <1>5 DEF AbandonInitial, Unstarted
  <2>2. PICK k : k = [chunk[c] EXCEPT !.spawn = {}, !.pc = "race"]
    OBVIOUS
  <2>3. /\ k \in ChunkStates /\ k.pc = "race" /\ k.spawn = {}
        /\ k.running = chunk[c].running /\ k.remaining = chunk[c].remaining
    BY <1>2, <2>2 DEF ChunkStates
  <2>4. chunk' = [chunk EXCEPT ![c] = k]
    BY <1>2, <2>1, <2>2 DEF ChunkStates
  <2>5. /\ WellKept(k) /\ Held(k) = Held(chunk[c]) \ chunk[c].spawn
        /\ chunk[c].spawn \subseteq Held(chunk[c])
    BY <1>2, <2>3 DEF WellKept, Held
  <2>6. SlotsFollow(Held(chunk[c]), Held(k))
    BY <2>1, <2>5, SlotsReleased
  <2> QED BY <1>1, <1>2, <1>3, <2>3, <2>4, <2>5, <2>6, ChunkMoves
<1> QED BY <1>4, <1>5

(* A hedge asks a host that was not asked before, or finds none.            *)
LEMMA HedgeStep ==
    ASSUME TransferInv, NEW c \in Chunks, Hedge(c)
    PROVE  TransferInv'
<1>1. /\ chunk[c].pc = "slot"
      /\ UNCHANGED <<usable, ctxDone, firstErr, untried, result, pool, upload>>
  BY DEF Hedge, MayHedge, uploadVars
<1>2. /\ chunk[c] \in ChunkStates /\ WellKept(chunk[c]) /\ chunk \in [Chunks -> ChunkStates]
      /\ ctxDone \in BOOLEAN /\ firstErr \in BOOLEAN /\ untried = {}
  BY DEF TransferInv, TransferTypes, EveryHostAsked
<1>3. ~Ended(c) /\ chunk[c].spawn = {}
  BY <1>1, <1>2 DEF Ended, WellKept
<1>4. CASE /\ chunk[c].remaining \cap usable = {} /\ inflight' = inflight
           /\ chunk' = [chunk EXCEPT ![c].pc = "wait"]
  <2>1. PICK k : k = [chunk[c] EXCEPT !.pc = "wait"]
    OBVIOUS
  <2>2. /\ k \in ChunkStates /\ k.pc = "wait" /\ k.spawn = {} /\ k.running = chunk[c].running
        /\ k.remaining = chunk[c].remaining /\ chunk' = [chunk EXCEPT ![c] = k]
    BY <1>2, <1>3, <1>4, <2>1 DEF ChunkStates
  <2>3. WellKept(k) /\ Held(k) = Held(chunk[c])
    BY <1>2, <1>3, <2>2 DEF WellKept, Held
  <2>4. SlotsFollow(Held(chunk[c]), Held(k))
    BY <1>4, <2>3, SlotsKept
  <2> QED BY <1>1, <1>2, <1>3, <1>4, <2>2, <2>3, <2>4, ChunkMoves
<1>5. ASSUME NEW U, U = chunk[c].remaining \cap usable, NEW h \in U, Reserve({h}),
             chunk' = [chunk EXCEPT ![c].pc = "race", ![c].remaining = U \ {h},
                                    ![c].running = @ \cup {h}]
      PROVE  TransferInv'
  <2>1. PICK k : k = [chunk[c] EXCEPT !.pc = "race", !.remaining = U \ {h},
                                      !.running = @ \cup {h}]
    OBVIOUS
  <2>2. /\ k \in ChunkStates /\ k.pc = "race" /\ k.spawn = {}
        /\ k.running = chunk[c].running \cup {h} /\ k.remaining = U \ {h}
    BY <1>2, <1>3, <1>5, <2>1 DEF ChunkStates
  <2>3. chunk' = [chunk EXCEPT ![c] = k]
    BY <1>2, <1>5, <2>1 DEF ChunkStates
  <2>4. WellKept(k) /\ Held(k) = Held(chunk[c]) \cup {h} /\ {h} \cap Held(chunk[c]) = {}
    BY <1>2, <1>3, <1>5, <2>2 DEF WellKept, Held
  <2>5. SlotsFollow(Held(chunk[c]), Held(k))
    BY <1>5, <2>4, SlotsReserved
  <2> QED BY <1>1, <1>2, <1>3, <2>2, <2>3, <2>4, <2>5, ChunkMoves
<1> QED BY <1>4, <1>5 DEF Hedge

(* One more shard.                                                          *)
LEMMA OneMore ==
    ASSUME NEW S, IsFiniteSet(S), NEW x
    PROVE  Cardinality(S) \in Nat /\ Cardinality(S \cup {x}) \in Nat
           /\ Cardinality(S \cup {x}) >= Cardinality(S)
<1>1. Cardinality(S) \in Nat
  BY FS_CardinalityType
<1>2. Cardinality(S \cup {x}) = IF x \in S THEN Cardinality(S) ELSE Cardinality(S) + 1
  BY FS_AddElement
<1> QED BY <1>1, <1>2

(* A download gives its slot back, however it ends.                         *)
LEMMA DownloadStep ==
    ASSUME TransferInv, NEW c \in Chunks, DownloadEnds(c)
    PROVE  TransferInv'
<1>1. UNCHANGED <<usable, ctxDone, firstErr, untried, result, pool, upload>>
  BY DEF DownloadEnds, uploadVars
<1>2. /\ chunk[c] \in ChunkStates /\ WellKept(chunk[c]) /\ chunk \in [Chunks -> ChunkStates]
      /\ ctxDone \in BOOLEAN /\ firstErr \in BOOLEAN /\ untried = {}
  BY DEF TransferInv, TransferTypes, EveryHostAsked
<1>3. PICK h \in chunk[c].running :
         /\ Release({h})
         /\ \/ chunk' = [chunk EXCEPT ![c].running = @ \ {h}, ![c].got = @ \cup {h}]
            \/ chunk' = [chunk EXCEPT ![c].running = @ \ {h}, ![c].failed = @ \cup {h}]
  BY DEF DownloadEnds
<1>4. PICK k : \/ k = [chunk[c] EXCEPT !.running = @ \ {h}, !.got = @ \cup {h}]
                  /\ chunk' = [chunk EXCEPT ![c].running = @ \ {h}, ![c].got = @ \cup {h}]
               \/ k = [chunk[c] EXCEPT !.running = @ \ {h}, !.failed = @ \cup {h}]
                  /\ chunk' = [chunk EXCEPT ![c].running = @ \ {h}, ![c].failed = @ \cup {h}]
  BY <1>3
<1>5. chunk' = [chunk EXCEPT ![c] = k]
  BY <1>2, <1>4 DEF ChunkStates
<1>6. /\ k \in ChunkStates /\ k.pc = chunk[c].pc /\ k.spawn = chunk[c].spawn
      /\ k.running = chunk[c].running \ {h} /\ k.remaining = chunk[c].remaining
      /\ k.got \in {chunk[c].got, chunk[c].got \cup {h}}
  <2>1. CASE k = [chunk[c] EXCEPT !.running = @ \ {h}, !.got = @ \cup {h}]
    <3>1. h \in SlabHosts
      BY <1>2, <1>3 DEF ChunkStates
    <3> QED BY <1>2, <2>1, <3>1 DEF ChunkStates
  <2>2. CASE k = [chunk[c] EXCEPT !.running = @ \ {h}, !.failed = @ \cup {h}]
    <3>1. h \in SlabHosts
      BY <1>2, <1>3 DEF ChunkStates
    <3> QED BY <1>2, <2>2, <3>1 DEF ChunkStates
  <2> QED BY <1>4, <2>1, <2>2
<1>7. ~Ended(c) /\ k.pc \notin {"err", "skipped"}
  BY <1>2, <1>3, <1>6 DEF Ended, WellKept
<1>8. WellKept(k) /\ Held(k) = Held(chunk[c]) \ {h} /\ {h} \subseteq Held(chunk[c])
  BY <1>2, <1>3, <1>6 DEF WellKept, Held
<1>9. SlotsFollow(Held(chunk[c]), Held(k))
  BY <1>3, <1>8, SlotsReleased
<1>10. k.pc = "wait" => \/ ctxDone \/ Cardinality(k.got) >= MinPieces \/ k.remaining \cap usable = {}
  <2>1. chunk[c].pc = "wait" =>
           ctxDone \/ Cardinality(chunk[c].got) >= MinPieces \/ chunk[c].remaining \cap usable = {}
    BY DEF TransferInv, RacesOver, ChunkDone, Enough
  <2>2. IsFiniteSet(chunk[c].got)
    BY <1>2, TransferAssumption, FS_Subset DEF ChunkStates
  <2>3. /\ Cardinality(chunk[c].got) \in Nat /\ Cardinality(k.got) \in Nat
        /\ Cardinality(k.got) >= Cardinality(chunk[c].got)
    <3>1. CASE k.got = chunk[c].got
      BY <2>2, <3>1, FS_CardinalityType
    <3>2. CASE k.got = chunk[c].got \cup {h}
      BY <2>2, <3>2, OneMore
    <3> QED BY <1>6, <3>1, <3>2
  <2>4. MinPieces \in Nat
    BY TransferAssumption
  <2> QED BY <1>6, <2>1, <2>3, <2>4
<1> QED BY <1>1, <1>2, <1>5, <1>6, <1>7, <1>8, <1>9, <1>10, ChunkMoves

(* A chunk that fails although the recovery goes on had asked everybody.    *)
LEMMA ChunkEndsStep ==
    ASSUME TransferInv, NEW c \in Chunks, ChunkEnds(c)
    PROVE  TransferInv'
<1>1. /\ chunk[c].pc = "wait" /\ chunk[c].running = {}
      /\ UNCHANGED <<usable, inflight, result, pool, upload>>
  BY DEF ChunkEnds, MayEnd, uploadVars
<1>2. /\ chunk[c] \in ChunkStates /\ WellKept(chunk[c]) /\ chunk \in [Chunks -> ChunkStates]
      /\ ctxDone \in BOOLEAN /\ firstErr \in BOOLEAN /\ untried = {}
  BY DEF TransferInv, TransferTypes, EveryHostAsked
<1>3. PICK p \in {"ok", "err"} : p = IF Enough(c) THEN "ok" ELSE "err"
  OBVIOUS
<1>4. PICK k : k = [chunk[c] EXCEPT !.pc = p]
  OBVIOUS
<1>5. chunk' = [chunk EXCEPT ![c] = k]
  BY <1>2, <1>3, <1>4 DEF ChunkEnds
<1>6. /\ k \in ChunkStates /\ k.pc = p /\ k.spawn = chunk[c].spawn
      /\ k.running = chunk[c].running /\ k.remaining = chunk[c].remaining
  BY <1>2, <1>4 DEF ChunkStates
<1>7. WellKept(k) /\ Held(k) = Held(chunk[c]) /\ ~Ended(c)
  BY <1>1, <1>2, <1>3, <1>6 DEF WellKept, Held, Ended
<1>8. SlotsFollow(Held(chunk[c]), Held(k))
  BY <1>1, <1>7, SlotsKept
<1>9. /\ ctxDone' \in BOOLEAN /\ firstErr' \in BOOLEAN /\ (ctxDone => ctxDone')
      /\ (firstErr => firstErr') /\ (p = "err" => firstErr')
  BY <1>2, <1>3 DEF ChunkEnds
<1>10. untried' = {}
  <2>1. Enough(c) \/ ctxDone \/ chunk[c].remaining \cap usable = {}
    BY <1>1 DEF TransferInv, RacesOver, ChunkDone
  <2> QED BY <1>2, <2>1 DEF ChunkEnds
<1>11. k.pc # "skipped" /\ k.pc # "wait"
  BY <1>3, <1>6
<1> QED BY <1>1, <1>5, <1>6, <1>7, <1>8, <1>9, <1>10, <1>11, ChunkMoves

(* A host that becomes unusable, and the end of the caller's context.       *)
LEMMA OutsideSteps ==
    ASSUME TransferInv, CancelTransfer \/ HostUnusable \/ UNCHANGED transferVars
    PROVE  TransferInv'
<1>1. /\ UNCHANGED <<inflight, firstErr, chunk, untried, result, pool, upload>>
      /\ usable' \subseteq usable /\ ctxDone' \in BOOLEAN /\ (ctxDone => ctxDone')
  BY DEF TransferInv, TransferTypes, CancelTransfer, HostUnusable, transferVars, recoverVars, uploadVars
<1>2. TransferTypes' /\ HostsApart' /\ (\A c \in Chunks : WellKept(chunk[c]))'
  BY <1>1 DEF TransferInv, TransferTypes, HostsApart, WellKept, Held
<1>3. SlotsCounted'
  <2>1. \A h \in AllHosts : Reading(h)' = Reading(h) /\ Writing(h)' = Writing(h)
    BY <1>1 DEF Reading, Writing, Held, Writes
  <2>2. SUFFICES ASSUME NEW h \in AllHosts
                 PROVE  inflight'[h] = Cardinality(Reading(h)') + Cardinality(Writing(h)')
    BY DEF SlotsCounted
  <2>3. inflight[h] = Cardinality(Reading(h)') + Cardinality(Writing(h)')
    BY <2>1, Zenon DEF TransferInv, SlotsCounted
  <2> QED BY <1>1, <2>3
<1>4. FailuresKnown'
  BY <1>1 DEF TransferInv, FailuresKnown
<1>5. RacesOver'
  BY <1>1 DEF TransferInv, RacesOver, ChunkDone, Enough
<1>6. Phases' /\ RecoveredIsComplete' /\ EveryHostAsked'
  BY <1>1 DEF TransferInv, Phases, RecoveredIsComplete, EveryHostAsked, Ended
<1> QED BY <1>2, <1>3, <1>4, <1>5, <1>6 DEF TransferInv

(* The recovery is over: no chunk holds a slot any more.                    *)
LEMMA RecoverStep ==
    ASSUME TransferInv, RecoverShards
    PROVE  TransferInv'
<1>1. /\ result = "none" /\ (\A c \in Chunks : Ended(c))
      /\ result' = IF Recovered THEN "ok" ELSE "error"
      /\ pool' \subseteq Pool
      /\ upload' = [s \in Shards |-> [upload[s] EXCEPT !.pc = IF Recovered THEN "queued" ELSE "given up"]]
      /\ chunk' = [c \in Chunks |-> [NewChunk EXCEPT !.pc = chunk[c].pc]]
      /\ UNCHANGED <<usable, inflight, ctxDone, firstErr, untried>>
  BY DEF RecoverShards, MayReturn
<1>2. ASSUME NEW c \in Chunks
      PROVE  /\ chunk'[c] \in ChunkStates /\ chunk'[c].pc = chunk[c].pc
             /\ chunk'[c].spawn = {} /\ chunk'[c].running = {} /\ chunk'[c].remaining = {}
             /\ chunk[c].pc \in {"ok", "err", "skipped"}
             /\ chunk[c].spawn = {} /\ chunk[c].running = {}
  <2>1. chunk[c].pc \in {"ok", "err", "skipped"}
    BY <1>1 DEF Ended
  <2>2. chunk[c].spawn = {} /\ chunk[c].running = {}
    BY <2>1 DEF TransferInv, WellKept
  <2>3. chunk'[c] = [NewChunk EXCEPT !.pc = chunk[c].pc]
    BY <1>1
  <2>4. /\ chunk'[c] \in ChunkStates /\ chunk'[c].pc = chunk[c].pc
        /\ chunk'[c].spawn = {} /\ chunk'[c].running = {} /\ chunk'[c].remaining = {}
    BY <2>1, <2>3 DEF NewChunk, ChunkStates
  <2> QED BY <2>1, <2>2, <2>4
<1>3. ASSUME NEW s \in Shards
      PROVE  /\ upload'[s] \in UploadStates /\ upload'[s].pc \in {"queued", "given up"}
             /\ upload'[s].host = {} /\ upload[s].pc = "idle"
  <2>1. upload[s] \in UploadStates /\ upload[s].pc = "idle"
    BY <1>1 DEF TransferInv, TransferTypes, Phases
  <2>2. upload[s].host = {}
    BY <2>1 DEF TransferInv, HostsApart
  <2>3. PICK p \in {"queued", "given up"} : upload'[s] = [upload[s] EXCEPT !.pc = p]
    BY <1>1
  <2> QED BY <2>1, <2>2, <2>3 DEF UploadStates
<1>4. TransferTypes'
  <2>1. chunk' \in [Chunks -> ChunkStates]
    BY <1>1, <1>2
  <2>2. upload' \in [Shards -> UploadStates]
    BY <1>1, <1>3
  <2> QED BY <1>1, <2>1, <2>2 DEF TransferInv, TransferTypes
<1>5. (\A c \in Chunks : WellKept(chunk[c]))' /\ HostsApart'
  BY <1>2, <1>3 DEF WellKept, Held, HostsApart
<1>6. SlotsCounted'
  <2> SUFFICES ASSUME NEW h \in AllHosts
               PROVE  inflight'[h] = Cardinality(Reading(h)') + Cardinality(Writing(h)')
    BY DEF SlotsCounted
  <2>1. Reading(h)' = Reading(h)
    BY <1>2 DEF Reading, Held
  <2>2. Writing(h)' = Writing(h)
    BY <1>3 DEF Writing, Writes
  <2>3. inflight[h] = Cardinality(Reading(h)') + Cardinality(Writing(h)')
    BY <2>1, <2>2, Zenon DEF TransferInv, SlotsCounted
  <2> QED BY <1>1, <2>3
<1>7. FailuresKnown' /\ RacesOver'
  BY <1>1, <1>2 DEF TransferInv, FailuresKnown, RacesOver
<1>8. Phases' /\ EveryHostAsked'
  BY <1>1, <1>2, <1>3 DEF TransferInv, Phases, EveryHostAsked, Ended
<1>9. RecoveredIsComplete'
  BY <1>1, <1>2 DEF TransferInv, RecoveredIsComplete, FailuresKnown, Recovered
<1> QED BY <1>4, <1>5, <1>6, <1>7, <1>8, <1>9 DEF TransferInv

-----------------------------------------------------------------------------
(* A shard moves on to u.                                                   *)
LEMMA ShardMoves ==
    ASSUME TransferInv, NEW s \in Shards, NEW u \in UploadStates, upload[s].pc # "idle", u.pc # "idle",
           upload' = [upload EXCEPT ![s] = u],
           u.pc \notin {"write", "stored"} => u.host = {},
           u.host \subseteq upload[s].host \cup pool, u.host \cap pool' = {},
           pool' \subseteq pool, SlotsFollow(Writes(upload[s]), Writes(u)),
           ctxDone' \in BOOLEAN, ctxDone => ctxDone',
           UNCHANGED <<usable, firstErr, chunk, untried, result>>
    PROVE  TransferInv'
<1>1. upload'[s] = u /\ \A t \in Shards : t # s => upload'[t] = upload[t]
  BY DEF TransferInv, TransferTypes
<1>2. TransferTypes'
  BY DEF TransferInv, TransferTypes, SlotsFollow
<1>3. (\A c \in Chunks : WellKept(chunk[c]))'
  BY DEF TransferInv, WellKept, Held
<1>4. HostsApart'
  BY <1>1 DEF TransferInv, HostsApart
<1>5. SlotsCounted'
  <2> SUFFICES ASSUME NEW h \in AllHosts
               PROVE  inflight'[h] = Cardinality(Reading(h)') + Cardinality(Writing(h)')
    BY DEF SlotsCounted
  <2>1. Reading(h)' = Reading(h)
    BY DEF Reading, Held
  <2>2. Writing(h)' \ {s} = Writing(h) \ {s}
    BY <1>1 DEF Writing, Writes
  <2>3. /\ s \in Writing(h)' <=> h \in Writes(u)
        /\ s \in Writing(h) <=> h \in Writes(upload[s])
    BY <1>1 DEF Writing, Writes
  <2>4. PICK m, n, r : m = Cardinality(Writing(h)) /\ n = Cardinality(Writing(h)')
                       /\ r = Cardinality(Reading(h)) /\ r = Cardinality(Reading(h)')
    BY <2>1, Zenon
  <2>5. m \in Nat /\ n \in Nat /\ n = m + (IF h \in Writes(u) THEN 1 ELSE 0)
                                        - (IF h \in Writes(upload[s]) THEN 1 ELSE 0)
    BY <2>2, <2>3, <2>4, CountDiffers, FiniteHolders
  <2>6. r \in Nat
    BY <2>4, FiniteHolders, FS_CardinalityType
  <2>7. inflight[h] = r + m
    BY <2>4 DEF TransferInv, SlotsCounted
  <2>8. inflight'[h] = inflight[h] + (IF h \in Writes(u) THEN 1 ELSE 0)
                                   - (IF h \in Writes(upload[s]) THEN 1 ELSE 0)
    BY DEF SlotsFollow
  <2>9. inflight'[h] = r + n
    BY <2>5, <2>6, <2>7, <2>8
  <2> QED BY <2>4, <2>9
<1>6. FailuresKnown'
  BY DEF TransferInv, FailuresKnown
<1>7. RacesOver'
  BY DEF TransferInv, RacesOver, ChunkDone, Enough
<1>8. result # "none"
  BY DEF TransferInv, Phases
<1>9. Phases' /\ RecoveredIsComplete' /\ EveryHostAsked'
  BY <1>1, <1>8 DEF TransferInv, Phases, RecoveredIsComplete, EveryHostAsked, Ended
<1> QED BY <1>2, <1>3, <1>4, <1>5, <1>6, <1>7, <1>9 DEF TransferInv

(* The steps of a shard: a host is written to by the shard that took it out *)
(* of the pool.                                                             *)
LEMMA UploadSteps ==
    ASSUME TransferInv, NEW s \in Shards, ShardStep(s)
    PROVE  TransferInv'
<1>1. UNCHANGED <<usable, firstErr, chunk, untried, result>>
  BY DEF ShardStep, StartUpload, PickWrite, WriteEnds, recoverVars
<1>2. /\ upload[s] \in UploadStates /\ upload \in [Shards -> UploadStates]
      /\ pool \subseteq Pool /\ ctxDone \in BOOLEAN
      /\ upload[s].pc \notin {"write", "stored"} => upload[s].host = {}
      /\ upload[s].host \cap pool = {}
  BY DEF TransferInv, TransferTypes, HostsApart
<1>3. CASE StartUpload(s)
  <2>1. PICK u : u = [upload[s] EXCEPT !.pc = "pick"]
    OBVIOUS
  <2>2. u \in UploadStates /\ u.pc = "pick" /\ u.host = upload[s].host
    BY <1>2, <2>1 DEF UploadStates
  <2>3. /\ upload' = [upload EXCEPT ![s] = u] /\ upload[s].pc = "queued"
        /\ UNCHANGED <<inflight, ctxDone, pool>>
    BY <1>2, <1>3, <2>1 DEF StartUpload, MayUpload, recoverVars
  <2>4. Writes(u) = Writes(upload[s])
    BY <2>2, <2>3 DEF Writes
  <2>5. SlotsFollow(Writes(upload[s]), Writes(u))
    BY <2>3, <2>4, SlotsKept
  <2>6. u.host = {}
    BY <1>2, <2>2, <2>3
  <2> QED BY <1>1, <1>2, <2>2, <2>3, <2>5, <2>6, ShardMoves
<1>4. CASE PickWrite(s)
  <2>1. upload[s].pc = "pick" /\ ctxDone' = ctxDone
    BY <1>4 DEF PickWrite, recoverVars
  <2>2. CASE upload' = [upload EXCEPT ![s].pc = "given up"] /\ UNCHANGED <<inflight, pool>>
    <3>1. PICK u : u = [upload[s] EXCEPT !.pc = "given up"]
      OBVIOUS
    <3>2. u \in UploadStates /\ u.pc = "given up" /\ u.host = {} /\ upload' = [upload EXCEPT ![s] = u]
      BY <1>2, <2>1, <2>2, <3>1 DEF UploadStates
    <3>3. Writes(u) = Writes(upload[s])
      BY <2>1, <3>2 DEF Writes
    <3>4. SlotsFollow(Writes(upload[s]), Writes(u))
      BY <2>2, <3>3, SlotsKept
    <3> QED BY <1>1, <1>2, <2>1, <2>2, <3>2, <3>4, ShardMoves
  <2>3. ASSUME NEW h \in pool, pool' = pool \ {h}, Reserve({h}),
               upload' = [upload EXCEPT ![s] = [pc |-> "write", host |-> {h}]]
        PROVE  TransferInv'
    <3>1. PICK u : u = [pc |-> "write", host |-> {h}]
      OBVIOUS
    <3>2. u \in UploadStates /\ u.pc = "write" /\ u.host = {h} /\ upload' = [upload EXCEPT ![s] = u]
      BY <1>2, <2>3, <3>1 DEF UploadStates
    <3>3. /\ Writes(u) = Writes(upload[s]) \cup {h} /\ {h} \cap Writes(upload[s]) = {}
      BY <2>1, <3>2 DEF Writes
    <3>4. SlotsFollow(Writes(upload[s]), Writes(u))
      BY <2>3, <3>3, SlotsReserved
    <3>5. /\ u.host \subseteq upload[s].host \cup pool /\ u.host \cap pool' = {}
          /\ pool' \subseteq pool
      BY <2>3, <3>2
    <3> QED BY <1>1, <1>2, <2>1, <3>2, <3>4, <3>5, ShardMoves
  <2> QED BY <1>4, <2>2, <2>3 DEF PickWrite, RemoveHost
<1>5. CASE WriteEnds(s)
  <2>1. upload[s].pc = "write" /\ Release(upload[s].host) /\ pool' = pool
    BY <1>5 DEF WriteEnds
  <2>2. PICK u \in UploadStates :
           /\ upload' = [upload EXCEPT ![s] = u] /\ u.pc \in {"stored", "pick", "given up"}
           /\ u.pc # "stored" => u.host = {}
           /\ u.host \subseteq upload[s].host
    <3>1. CASE upload' = [upload EXCEPT ![s].pc = "stored"]
      <4>1. PICK u : u = [upload[s] EXCEPT !.pc = "stored"]
        OBVIOUS
      <4>2. u \in UploadStates /\ u.pc = "stored" /\ u.host = upload[s].host
        BY <1>2, <4>1 DEF UploadStates
      <4>3. upload' = [upload EXCEPT ![s] = u]
        BY <1>2, <3>1, <4>1
      <4> QED BY <4>2, <4>3
    <3>2. ASSUME NEW p \in {"pick", "given up"},
                 upload' = [upload EXCEPT ![s] = [pc |-> p, host |-> {}]]
          PROVE  \E u \in UploadStates :
                    /\ upload' = [upload EXCEPT ![s] = u] /\ u.pc \in {"stored", "pick", "given up"}
                    /\ u.pc # "stored" => u.host = {}
                    /\ u.host \subseteq upload[s].host
      <4>1. PICK u : u = [pc |-> p, host |-> {}]
        OBVIOUS
      <4>2. u \in UploadStates /\ u.pc = p /\ u.host = {}
        BY <3>2, <4>1 DEF UploadStates
      <4> QED BY <3>2, <4>1, <4>2
    <3> QED BY <1>5, <3>1, <3>2 DEF WriteEnds
  <2>3. /\ Writes(u) = Writes(upload[s]) \ upload[s].host
        /\ upload[s].host \subseteq Writes(upload[s])
    BY <2>1, <2>2 DEF Writes
  <2>4. SlotsFollow(Writes(upload[s]), Writes(u))
    BY <2>1, <2>3, SlotsReleased
  <2>5. ctxDone' \in BOOLEAN /\ (ctxDone => ctxDone')
    <3>1. ctxDone' = ctxDone \/ ctxDone' = TRUE
      BY <1>5 DEF WriteEnds
    <3> QED BY <1>2, <3>1
  <2> QED BY <1>1, <1>2, <2>1, <2>2, <2>4, <2>5, ShardMoves
<1> QED BY <1>3, <1>4, <1>5 DEF ShardStep

(* Uploads that were not started are not.                                   *)
LEMMA SkipUploadsStep ==
    ASSUME TransferInv, SkipUploads
    PROVE  TransferInv'
<1>1. /\ result = "ok" /\ UNCHANGED <<usable, inflight, ctxDone, firstErr, chunk, untried, result, pool>>
      /\ upload' = [s \in Shards |-> IF upload[s].pc = "queued"
                                     THEN [upload[s] EXCEPT !.pc = "given up"] ELSE upload[s]]
  BY DEF SkipUploads, MaySkipUploads, recoverVars
<1>2. ASSUME NEW s \in Shards
      PROVE  /\ upload'[s] \in UploadStates /\ upload'[s].host = upload[s].host
             /\ Writes(upload'[s]) = Writes(upload[s])
             /\ upload'[s].pc \notin {"write", "stored"} => upload[s].host = {}
             /\ upload[s].pc # "idle" => upload'[s].pc # "idle"
  <2>1. /\ upload[s] \in UploadStates
        /\ upload[s].pc \notin {"write", "stored"} => upload[s].host = {}
    BY DEF TransferInv, TransferTypes, HostsApart
  <2>2. CASE upload[s].pc = "queued"
    <3>1. PICK u : u = [upload[s] EXCEPT !.pc = "given up"]
      OBVIOUS
    <3>2. u \in UploadStates /\ u.pc = "given up" /\ u.host = upload[s].host
      BY <2>1, <3>1 DEF UploadStates
    <3>3. upload'[s] = u
      BY <1>1, <2>2, <3>1
    <3> QED BY <2>1, <2>2, <3>2, <3>3 DEF Writes
  <2>3. CASE upload[s].pc # "queued"
    BY <1>1, <2>1, <2>3
  <2> QED BY <2>2, <2>3
<1>3. TransferTypes'
  <2>1. upload' \in [Shards -> UploadStates]
    BY <1>1, <1>2
  <2> QED BY <1>1, <2>1 DEF TransferInv, TransferTypes
<1>4. (\A c \in Chunks : WellKept(chunk[c]))'
  BY <1>1 DEF TransferInv, WellKept, Held
<1>5. HostsApart'
  BY <1>1, <1>2 DEF TransferInv, HostsApart
<1>6. SlotsCounted'
  <2> SUFFICES ASSUME NEW h \in AllHosts
               PROVE  inflight'[h] = Cardinality(Reading(h)') + Cardinality(Writing(h)')
    BY DEF SlotsCounted
  <2>1. Reading(h)' = Reading(h)
    BY <1>1 DEF Reading, Held
  <2>2. Writing(h)' = Writing(h)
    BY <1>2 DEF Writing
  <2>3. inflight[h] = Cardinality(Reading(h)') + Cardinality(Writing(h)')
    BY <2>1, <2>2, Zenon DEF TransferInv, SlotsCounted
  <2> QED BY <1>1, <2>3
<1>7. FailuresKnown'
  BY <1>1 DEF TransferInv, FailuresKnown
<1>8. RacesOver'
  BY <1>1 DEF TransferInv, RacesOver, ChunkDone, Enough
<1>9. Phases' /\ RecoveredIsComplete' /\ EveryHostAsked'
  BY <1>1, <1>2 DEF TransferInv, Phases, RecoveredIsComplete, EveryHostAsked, Ended
<1> QED BY <1>3, <1>4, <1>5, <1>6, <1>7, <1>8, <1>9 DEF TransferInv

(* Every step keeps the invariant.                                          *)
LEMMA TransferNextHolds == TransferInv /\ [TransferNext]_transferVars => TransferInv'
<1> SUFFICES ASSUME TransferInv, [TransferNext]_transferVars PROVE TransferInv'
  OBVIOUS
<1>1. ASSUME NEW c \in Chunks, ChunkStep(c) PROVE TransferInv'
  BY <1>1, PcSteps, PickReadsStep, SpawnSteps, HedgeStep, DownloadStep, ChunkEndsStep DEF ChunkStep
<1> QED BY <1>1, SkipStep, RecoverStep, UploadSteps, SkipUploadsStep, OutsideSteps
        DEF TransferNext, TransferSteps

(* The invariant behind the two theorems.                                   *)
THEOREM TransferInvariance == TransferSpec => []TransferInv
BY TransferInitHolds, TransferNextHolds, PTL DEF TransferSpec

(* A migration that is over holds no slot of any host, whatever was         *)
(* cancelled, failed or raced on the way (recoverChunk, uploadShards and    *)
(* the provider of hostqueue.go); for any number of hosts, chunks, shards.  *)
THEOREM SlotsAreReturned == TransferSpec => []SlotsReturned
<1>1. TransferInv => SlotsReturned
  <2> SUFFICES ASSUME TransferInv, TransferOver, NEW h \in AllHosts PROVE inflight[h] = 0
    BY DEF SlotsReturned
  <2>1. \A c \in Chunks : chunk[c].pc \in {"ok", "err", "skipped"}
    BY DEF TransferInv, TransferOver, Phases, Ended
  <2>2. Reading(h) = {}
    BY <2>1 DEF TransferInv, WellKept, Reading, Held
  <2>3. Writing(h) = {}
    BY DEF TransferOver, Writing, Writes
  <2>4. Cardinality(Reading(h)) = 0 /\ Cardinality(Writing(h)) = 0
    BY <2>2, <2>3, FS_EmptySet, Zenon
  <2> QED BY <2>4 DEF TransferInv, SlotsCounted
<1> QED BY <1>1, TransferInvariance, PTL

(* A recovery that succeeds has every chunk, one that fails without being   *)
(* cancelled had asked every usable host, and no two shards end on the same *)
(* host, which uploadShards panics about.                                   *)
THEOREM TransfersAreSound == TransferSpec => []TransferSound
<1>1. TransferInv => TransferSound
  BY DEF TransferInv, TransferSound, HostsApart, UploadsApart
<1> QED BY <1>1, TransferInvariance, PTL

(* A finite set has subsets of every size up to its own.                    *)
LEMMA SubsetOfSize ==
    ASSUME NEW S, IsFiniteSet(S), NEW n \in Nat, n <= Cardinality(S)
    PROVE  \E P \in SUBSET S : Cardinality(P) = n
<1>1. PICK m \in Nat : ExistsBijection(1..m, S)
  BY FS_NatBijection
<1>2. m = Cardinality(S)
  BY <1>1, FS_CountingElements
<1>3. PICK f : f \in Bijection(1..m, S)
  BY <1>1 DEF ExistsBijection
<1>4. f \in [1..m -> S] /\ \A i, k \in 1..m : f[i] = f[k] => i = k
  BY <1>3 DEF Bijection, Injection, Surjection, IsInjective
<1> DEFINE P == {f[i] : i \in 1..n}
           g == [i \in 1..n |-> f[i]]
<1>5. 1..n \subseteq 1..m
  BY <1>2
<1>6. P \in SUBSET S
  BY <1>4, <1>5
<1>7. g \in [1..n -> P] /\ \A i, k \in 1..n : g[i] = g[k] => i = k
  BY <1>4, <1>5
<1>8. \A x \in P : \E i \in 1..n : g[i] = x
  OBVIOUS
<1>9. g \in Bijection(1..n, P)
  BY <1>7, <1>8 DEF Bijection, Injection, Surjection, IsInjective
<1>10. ExistsBijection(1..n, P)
  BY <1>9 DEF ExistsBijection
<1>11. Cardinality(P) = n
  BY <1>10, FS_CountingElements
<1> QED BY <1>6, <1>11

(* A nonempty set of numbers has a least one.                               *)
LEMMA LeastNat ==
    ASSUME NEW T, T \subseteq Nat, T # {} PROVE \E n \in T : \A k \in T : n <= k
<1>1. PICK n \in T : \A k \in T : ~(<<k, n>> \in OpToRel(<, Nat))
  BY NatLessThanWellFounded, WFMin, Zenon
<1>2. \A k \in T : ~(k < n)
  BY <1>1 DEF OpToRel
<1> QED BY <1>2

(* A chunk that has begun and not ended can go on: it never waits for a     *)
(* place while none of its downloads runs.                                  *)
LEMMA ChunkGoesOn ==
    ASSUME TransferInv, NEW c \in Chunks, Active(c) PROVE ChunkReady(c)
<1>1. chunk[c] \in ChunkStates /\ WellKept(chunk[c])
  BY DEF TransferInv, TransferTypes
<1>2. chunk[c].pc \in {"pick", "spawn", "race", "slot", "wait"}
  BY <1>1 DEF Active, Ended, ChunkStates
<1>3. ASSUME chunk[c].pc = "pick" PROVE MayPick(c)
  <2>1. IsFiniteSet(Candidates) /\ Cardinality(Candidates) \in Nat
    BY TransferAssumption, FS_Subset, FS_CardinalityType DEF Candidates
  <2>2. ASSUME ~TooFew PROVE Picks # {}
    <3>1. MinPieces \in Nat /\ MinPieces <= Cardinality(Candidates)
      BY <2>1, <2>2, TransferAssumption DEF TooFew
    <3>2. \E P \in SUBSET Candidates : Cardinality(P) = MinPieces
      BY <2>1, <3>1, SubsetOfSize
    <3> QED BY <3>2 DEF Picks
  <2> QED BY <1>3, <2>2 DEF MayPick
<1>4. ASSUME chunk[c].pc = "spawn" PROVE MaySpawn(c)
  BY <1>1, <1>4 DEF WellKept, MaySpawn
<1>5. ASSUME chunk[c].pc = "slot", chunk[c].running = {} PROVE MayHedge(c)
  <2>1. Places(c) = 0
    BY <1>5, FS_EmptySet DEF Places
  <2> QED BY <1>5, <2>1, TransferAssumption DEF MayHedge
<1>6. ASSUME chunk[c].pc = "wait", chunk[c].running = {} PROVE MayEnd(c)
  BY <1>6 DEF MayEnd
<1> QED BY <1>2, <1>3, <1>4, <1>5, <1>6 DEF ChunkReady

(* When no chunk is under way and some are queued, the first of them can be *)
(* started or all can be skipped.                                           *)
LEMMA QueueGoesOn ==
    ASSUME TransferInv, \A c \in Chunks : ~Active(c), NEW q \in Chunks, chunk[q].pc = "queued", ~ctxDone
    PROVE  \E c \in Chunks : MayStart(c)
<1> DEFINE Q == {c \in Chunks : chunk[c].pc = "queued"}
<1>1. Q \subseteq Nat /\ Q # {}
  BY DEF Chunks
<1>2. PICK c \in Q : \A d \in Q : c <= d
  <2> HIDE DEF Q
  <2> QED BY <1>1, LeastNat
<1>3. c \in Chunks /\ c \in Nat /\ \A d \in 1..(c - 1) : d \in Chunks /\ d < c
  BY <1>1, TransferAssumption DEF Chunks
<1>4. \A d \in 1..(c - 1) : chunk[d].pc # "queued"
  <2> SUFFICES ASSUME NEW d \in 1..(c - 1), chunk[d].pc = "queued" PROVE FALSE
    OBVIOUS
  <2>1. d \in Q /\ d < c
    BY <1>3
  <2> QED BY <1>2, <1>3, <2>1
<1>5. \A d \in 1..(c - 1) : chunk[d].pc # "skipped"
  BY <1>3 DEF TransferInv, FailuresKnown
<1>6. Cardinality({d \in Chunks : Active(d)}) = 0
  <2>1. {d \in Chunks : Active(d)} = {}
    OBVIOUS
  <2> QED BY <2>1, FS_EmptySet
<1>7. Cardinality({d \in Chunks : Active(d)}) < Concurrency
  BY <1>6, TransferAssumption
<1> QED BY <1>3, <1>4, <1>5, <1>7 DEF MayStart

(* Until a migration is over one of its goroutines can go on: no chunk      *)
(* waits for a place, a slot or a download that does not come, in whatever  *)
(* way reads fail, hosts drop out or the context ends.                      *)
THEOREM TransfersGoOn == TransferSpec => []TransferNotStuck
<1>1. ASSUME TransferInv, ~TransferOver PROVE TransferReady
  <2>1. ASSUME NEW c \in Chunks, Active(c) PROVE TransferReady
    BY <1>1, <2>1, ChunkGoesOn DEF TransferReady
  <2>2. CASE result = "none" /\ \A c \in Chunks : ~Active(c)
    <3>1. ASSUME NEW c \in Chunks, chunk[c].pc = "queued" PROVE TransferReady
      <4>1. CASE ctxDone
        BY <3>1, <4>1 DEF TransferReady, MaySkipChunks
      <4>2. CASE ~ctxDone
        <5>1. PICK d \in Chunks : MayStart(d)
          BY <1>1, <2>2, <3>1, <4>2, QueueGoesOn
        <5> QED BY <5>1 DEF TransferReady, ChunkReady
      <4> QED BY <4>1, <4>2
    <3>2. ASSUME \A c \in Chunks : chunk[c].pc # "queued" PROVE TransferReady
      BY <2>2, <3>2 DEF Active, TransferReady, MayReturn
    <3> QED BY <3>1, <3>2
  <2>3. CASE result # "none"
    <3>1. PICK s \in Shards : upload[s].pc \notin {"stored", "given up"}
      BY <1>1, <2>3 DEF TransferOver
    <3>2. upload[s].pc \in {"queued", "pick", "write"}
      BY <1>1, <2>3, <3>1 DEF TransferInv, TransferTypes, UploadStates, Phases
    <3>3. ASSUME NEW t \in Shards, Uploading(t) PROVE TransferReady
      BY <3>3 DEF TransferReady
    <3>4. ASSUME \A t \in Shards : ~Uploading(t) PROVE TransferReady
      <4>1. {t \in Shards : Uploading(t)} = {}
        BY <3>4
      <4>2. Cardinality({t \in Shards : Uploading(t)}) = 0
        BY <4>1, FS_EmptySet
      <4>3. upload[s].pc = "queued"
        BY <3>2, <3>4 DEF Uploading
      <4>4. MayUpload(s)
        BY <4>2, <4>3, TransferAssumption DEF MayUpload
      <4> QED BY <4>4 DEF TransferReady
    <3> QED BY <3>3, <3>4
  <2> QED BY <2>1, <2>2, <2>3
<1>2. TransferInv => TransferNotStuck
  BY <1>1 DEF TransferNotStuck
<1> QED BY <1>2, TransferInvariance, PTL

-----------------------------------------------------------------------------
(***************************************************************************)
(* The transfers implement SlabMove.  Besides TransferInv that needs where *)
(* shards come from and go to: a chunk has shards of hosts that have the   *)
(* sector, enough of them if it is recovered, an upload has one host, and  *)
(* nothing is uploaded after a recovery that failed.                       *)
(***************************************************************************)
ShardsThere ==
    /\ \A c \in Chunks : chunk[c].got \cap Missing = {}
    /\ result = "none" => \A c \in Chunks : chunk[c].pc = "ok" => Enough(c)
OneHost == \A s \in Shards :
    upload[s].pc \in {"write", "stored"} => \E h \in Pool : upload[s].host = {h}
OnlyRecovered == result = "error" => \A s \in Shards : upload[s].pc = "given up"
MoveInv == ShardsThere /\ OneHost /\ OnlyRecovered

(* What the steps of a chunk may do to what SlabMove shows.                 *)
LEMMA ChunkShows ==
    ASSUME TransferInv, MoveInv, NEW c \in Chunks, ChunkStep(c)
    PROVE  /\ MoveInv' /\ UNCHANGED <<result, upload>>
           /\ \/ UNCHANGED excluded
              \/ result = "none" /\ \E h \in Missing : excluded' = excluded \cup {h}
<1>1. chunk \in [Chunks -> ChunkStates]
  BY DEF TransferInv, TransferTypes
<1>2. UNCHANGED <<result, upload>>
  BY DEF ChunkStep, StartChunk, PickReads, SpawnInitial, AbandonInitial, RaceStep, RaceCancelled,
         Hedge, DownloadEnds, ChunkEnds, uploadVars
<1>3. OneHost' /\ OnlyRecovered'
  BY <1>2 DEF MoveInv, OneHost, OnlyRecovered
<1>4. ASSUME UNCHANGED excluded,
             \A d \in Chunks : /\ chunk'[d].got = chunk[d].got
                               /\ chunk'[d].pc = "ok" => chunk[d].pc = "ok" \/ Enough(d)
      PROVE  ShardsThere'
  BY <1>2, <1>4 DEF MoveInv, ShardsThere, Enough
<1>5. CASE StartChunk(c) \/ RaceStep(c) \/ RaceCancelled(c) \/ ChunkEnds(c)
  <2>1. /\ UNCHANGED excluded
        /\ \E p : chunk' = [chunk EXCEPT ![c].pc = p] /\ (p = "ok" => Enough(c))
    BY <1>5 DEF StartChunk, RaceStep, RaceCancelled, ChunkEnds
  <2>2. \A d \in Chunks : /\ chunk'[d].got = chunk[d].got
                          /\ chunk'[d].pc = "ok" => chunk[d].pc = "ok" \/ Enough(d)
    BY <1>1, <2>1 DEF ChunkStates
  <2> QED BY <1>2, <1>3, <1>4, <2>1, <2>2 DEF MoveInv
<1>6. CASE PickReads(c) \/ SpawnInitial(c) \/ AbandonInitial(c) \/ Hedge(c)
  <2>1. UNCHANGED excluded
    BY <1>6 DEF PickReads, SpawnInitial, AbandonInitial, Hedge
  <2>2. /\ chunk'[c].got = chunk[c].got /\ chunk'[c].pc # "ok"
        /\ \A d \in Chunks : d # c => chunk'[d] = chunk[d]
    <3>1. CASE PickReads(c)
      <4>1. CASE TooFew
        BY <1>1, <3>1, <4>1 DEF PickReads, ChunkStates
      <4>2. CASE ~TooFew
        <5>1. PICK P : chunk' = [chunk EXCEPT ![c].pc = "spawn", ![c].spawn = P,
                                              ![c].remaining = Candidates \ P]
          BY <3>1, <4>2, Zenon DEF PickReads
        <5> QED BY <1>1, <5>1 DEF ChunkStates
      <4> QED BY <4>1, <4>2
    <3>2. CASE SpawnInitial(c)
      BY <1>1, <3>2 DEF SpawnInitial, ChunkStates
    <3>3. CASE AbandonInitial(c)
      BY <1>1, <3>3 DEF AbandonInitial, ChunkStates
    <3>4. CASE Hedge(c)
      <4>1. CASE chunk[c].remaining \cap usable = {}
        <5>1. chunk' = [chunk EXCEPT ![c].pc = "wait"]
          BY <3>4, <4>1 DEF Hedge
        <5> QED BY <1>1, <5>1 DEF ChunkStates
      <4>2. CASE chunk[c].remaining \cap usable # {}
        <5>1. PICK h, R : chunk' = [chunk EXCEPT ![c].pc = "race", ![c].remaining = R,
                                                 ![c].running = @ \cup {h}]
          BY <3>4, <4>2, Zenon DEF Hedge
        <5> QED BY <1>1, <5>1 DEF ChunkStates
      <4> QED BY <4>1, <4>2
    <3> QED BY <1>6, <3>1, <3>2, <3>3, <3>4
  <2>3. \A d \in Chunks : /\ chunk'[d].got = chunk[d].got
                          /\ chunk'[d].pc = "ok" => chunk[d].pc = "ok" \/ Enough(d)
    BY <2>2
  <2> QED BY <1>2, <1>3, <1>4, <2>1, <2>3 DEF MoveInv
<1>7. CASE DownloadEnds(c)
  <2>1. PICK h \in chunk[c].running :
           /\ \/ /\ h \notin Missing
                 /\ chunk' = [chunk EXCEPT ![c].running = @ \ {h}, ![c].got = @ \cup {h}]
                 /\ UNCHANGED excluded
              \/ /\ chunk' = [chunk EXCEPT ![c].running = @ \ {h}, ![c].failed = @ \cup {h}]
                 /\ excluded' \in {excluded} \cup {excluded \cup {g} : g \in {h} \cap Missing}
    BY <1>7 DEF DownloadEnds
  <2>2. chunk[c].pc # "ok" /\ result = "none"
    <3>1. WellKept(chunk[c]) /\ (result # "none" => chunk[c].pc \in {"ok", "err", "skipped"})
      BY DEF TransferInv, Phases, Ended
    <3>2. result \in {"none", "ok", "error"}
      BY DEF TransferInv, TransferTypes
    <3> QED BY <2>1, <3>1 DEF WellKept
  <2>3. \A d \in Chunks : chunk'[d].pc = chunk[d].pc /\ (d # c => chunk'[d].got = chunk[d].got)
    BY <1>1, <2>1 DEF ChunkStates
  <2>4. chunk'[c].got \cap Missing = {}
    BY <1>1, <2>1 DEF ChunkStates, MoveInv, ShardsThere
  <2>5. ShardsThere'
    BY <1>2, <2>2, <2>3, <2>4 DEF MoveInv, ShardsThere, Enough
  <2>6. UNCHANGED excluded \/ \E g \in Missing : excluded' = excluded \cup {g}
    BY <2>1
  <2> QED BY <1>2, <1>3, <2>2, <2>5, <2>6 DEF MoveInv
<1> QED BY <1>5, <1>6, <1>7 DEF ChunkStep

(* A recovery that succeeds has the shards of its first chunk.              *)
LEMMA RecoveryShows ==
    ASSUME TransferInv, MoveInv, RecoverShards
    PROVE  MoveInv' /\ (Move!Fail \/ Move!Recover)
<1>1. /\ result = "none" /\ result' = IF Recovered THEN "ok" ELSE "error"
      /\ UNCHANGED excluded
      /\ \A c \in Chunks : chunk'[c] = [NewChunk EXCEPT !.pc = chunk[c].pc]
      /\ \A c \in Chunks : Ended(c)
      /\ \A s \in Shards : upload'[s] = [upload[s] EXCEPT !.pc = IF Recovered THEN "queued" ELSE "given up"]
  BY DEF RecoverShards, MayReturn
<1>2. \A s \in Shards : upload[s] \in UploadStates /\ upload[s].pc = "idle"
  BY <1>1 DEF TransferInv, TransferTypes, Phases
<1>3. \A s \in Shards : upload'[s].pc \in {"queued", "given up"}
  BY <1>1, <1>2 DEF UploadStates
<1>4. \A c \in Chunks : chunk'[c].got = {}
  BY <1>1 DEF NewChunk
<1>5. MoveInv'
  <2>1. ShardsThere'
    BY <1>1, <1>4 DEF ShardsThere
  <2>2. OneHost'
    BY <1>3 DEF OneHost
  <2>3. OnlyRecovered'
    BY <1>1, <1>2 DEF OnlyRecovered, UploadStates
  <2> QED BY <2>1, <2>2, <2>3 DEF MoveInv
<1>6. StoredOn = {} /\ StoredOn' = {}
  BY <1>2, <1>3 DEF StoredOn
<1>7. ASSUME Recovered PROVE Cardinality(SlabHosts \ Missing) >= MinPieces
  <2>1. 1 \in Chunks
    BY TransferAssumption DEF Chunks
  <2>2. chunk[1].pc = "ok"
    BY <1>1, <1>7, <2>1 DEF TransferInv, FailuresKnown, Recovered, Ended
  <2>3. chunk[1].got \subseteq SlabHosts \ Missing
    BY <2>1 DEF TransferInv, TransferTypes, ChunkStates, MoveInv, ShardsThere
  <2>4. Cardinality(chunk[1].got) >= MinPieces
    BY <1>1, <2>1, <2>2 DEF MoveInv, ShardsThere, Enough
  <2>5. IsFiniteSet(SlabHosts \ Missing)
    BY TransferAssumption, FS_Subset
  <2>6. IsFiniteSet(chunk[1].got) /\ Cardinality(chunk[1].got) <= Cardinality(SlabHosts \ Missing)
    BY <2>3, <2>5, FS_Subset
  <2>7. Cardinality(chunk[1].got) \in Nat /\ Cardinality(SlabHosts \ Missing) \in Nat
    BY <2>5, <2>6, FS_CardinalityType
  <2> QED BY <2>4, <2>6, <2>7, TransferAssumption
<1> QED BY <1>1, <1>5, <1>6, <1>7 DEF Move!Fail, Move!Recover

(* A shard that is stored is stored once, on a host no other shard has.     *)
LEMMA ShardShows ==
    ASSUME TransferInv, MoveInv, NEW s \in Shards, ShardStep(s)
    PROVE  /\ MoveInv'
           /\ \/ UNCHANGED <<result, excluded, StoredOn>>
              \/ \E h \in Pool : Move!Store(s, h)
<1>1. upload \in [Shards -> UploadStates]
  BY DEF TransferInv, TransferTypes
<1>2. UNCHANGED <<result, excluded, chunk>>
  BY DEF ShardStep, StartUpload, PickWrite, WriteEnds, recoverVars
<1>3. ShardsThere'
  BY <1>2 DEF MoveInv, ShardsThere, Enough
<1>4. upload[s].pc \in {"queued", "pick", "write"}
  BY DEF ShardStep, StartUpload, MayUpload, PickWrite, WriteEnds
<1>5. /\ \A t \in Shards : t # s => upload'[t] = upload[t]
      /\ \/ upload'[s].pc \notin {"write", "stored"}
         \/ upload'[s].pc = "write" /\ \E h \in Pool : upload'[s].host = {h}
         \/ upload'[s].pc = "stored" /\ upload'[s].host = upload[s].host /\ upload[s].pc = "write"
  <2>1. CASE StartUpload(s)
    BY <1>1, <2>1 DEF StartUpload, UploadStates
  <2>2. CASE PickWrite(s)
    <3>1. CASE pool = {} \/ ctxDone
      <4>1. upload' = [upload EXCEPT ![s].pc = "given up"]
        BY <2>2, <3>1 DEF PickWrite
      <4> QED BY <1>1, <4>1 DEF UploadStates
    <3>2. CASE ~(pool = {} \/ ctxDone)
      <4>1. PICK h \in pool : upload' = [upload EXCEPT ![s] = [pc |-> "write", host |-> {h}]]
        BY <2>2, <3>2 DEF PickWrite
      <4>2. h \in Pool
        BY DEF TransferInv, TransferTypes
      <4> QED BY <1>1, <4>1, <4>2
    <3> QED BY <3>1, <3>2
  <2>3. CASE WriteEnds(s)
    <3>1. CASE upload' = [upload EXCEPT ![s].pc = "stored"]
      <4>1. upload[s].pc = "write"
        BY <2>3 DEF WriteEnds
      <4>2. /\ upload'[s].pc = "stored" /\ upload'[s].host = upload[s].host
            /\ \A t \in Shards : t # s => upload'[t] = upload[t]
        BY <1>1, <3>1 DEF UploadStates
      <4> QED BY <4>1, <4>2
    <3>2. CASE \E q \in {"pick", "given up"} : upload' = [upload EXCEPT ![s] = [pc |-> q, host |-> {}]]
      <4>1. PICK q \in {"pick", "given up"} : upload' = [upload EXCEPT ![s] = [pc |-> q, host |-> {}]]
        BY <3>2
      <4>2. upload'[s].pc = q /\ \A t \in Shards : t # s => upload'[t] = upload[t]
        BY <1>1, <4>1
      <4> QED BY <4>2
    <3> QED BY <2>3, <3>1, <3>2 DEF WriteEnds
  <2> QED BY <2>1, <2>2, <2>3 DEF ShardStep
<1>6. OneHost' /\ OnlyRecovered'
  BY <1>2, <1>4, <1>5 DEF MoveInv, OneHost, OnlyRecovered
<1>7. CASE upload'[s].pc # "stored"
  <2>1. StoredOn' = StoredOn
    BY <1>4, <1>5, <1>7 DEF StoredOn
  <2> QED BY <1>2, <1>3, <1>6, <2>1 DEF MoveInv
<1>8. CASE upload'[s].pc = "stored"
  <2>1. PICK h \in Pool : upload[s].host = {h}
    BY <1>5, <1>8 DEF MoveInv, OneHost
  <2>2. StoredOn' = StoredOn \cup {<<s, h>>}
    BY <1>4, <1>5, <1>8, <2>1 DEF StoredOn
  <2>3. \A q \in StoredOn : q[1] # s /\ q[2] # h
    BY <1>4, <2>1 DEF StoredOn, TransferInv, HostsApart
  <2>4. result = "ok"
    BY <1>4 DEF TransferInv, TransferTypes, Phases, MoveInv, OnlyRecovered
  <2>5. Move!Store(s, h)
    BY <1>2, <2>2, <2>3, <2>4 DEF Move!Store
  <2> QED BY <1>3, <1>6, <2>5 DEF MoveInv
<1> QED BY <1>7, <1>8

(* Every step of the transfers is a step of SlabMove or none.               *)
LEMMA MoveStep ==
    ASSUME TransferInv, MoveInv, [TransferNext]_transferVars
    PROVE  MoveInv' /\ [Move!Next]_<<result, excluded, StoredOn>>
<1>1. ASSUME UNCHANGED <<result, excluded, upload>> PROVE UNCHANGED <<result, excluded, StoredOn>>
  BY <1>1 DEF StoredOn
<1>2. ASSUME NEW c \in Chunks, ChunkStep(c)
      PROVE  MoveInv' /\ [Move!Next]_<<result, excluded, StoredOn>>
  <2>1. /\ MoveInv' /\ UNCHANGED <<result, upload>>
        /\ \/ UNCHANGED excluded
           \/ result = "none" /\ \E h \in Missing : excluded' = excluded \cup {h}
    BY <1>2, ChunkShows
  <2>2. StoredOn' = StoredOn
    BY <2>1 DEF StoredOn
  <2> QED BY <2>1, <2>2 DEF Move!Next, Move!ReportLost
<1>3. ASSUME NEW s \in Shards, ShardStep(s)
      PROVE  MoveInv' /\ [Move!Next]_<<result, excluded, StoredOn>>
  <2>1. /\ MoveInv'
        /\ \/ UNCHANGED <<result, excluded, StoredOn>>
           \/ \E h \in Pool : Move!Store(s, h)
    BY <1>3, ShardShows
  <2> QED BY <2>1 DEF Move!Next
<1>4. ASSUME RecoverShards PROVE MoveInv' /\ [Move!Next]_<<result, excluded, StoredOn>>
  <2>1. MoveInv' /\ (Move!Fail \/ Move!Recover)
    BY <1>4, RecoveryShows
  <2> QED BY <2>1 DEF Move!Next
<1>5. CASE SkipChunks
  <2>1. /\ UNCHANGED <<result, excluded, upload>>
        /\ \A c \in Chunks : chunk'[c] = IF chunk[c].pc = "queued"
                                         THEN [chunk[c] EXCEPT !.pc = "skipped"] ELSE chunk[c]
    BY <1>5 DEF SkipChunks, uploadVars
  <2>2. \A c \in Chunks : /\ chunk'[c].got = chunk[c].got
                          /\ chunk'[c].pc = "ok" => chunk[c].pc = "ok"
    <3>1. \A c \in Chunks : chunk[c] \in ChunkStates
      BY DEF TransferInv, TransferTypes
    <3> QED BY <2>1, <3>1 DEF ChunkStates
  <2>3. MoveInv'
    BY <2>1, <2>2 DEF MoveInv, ShardsThere, Enough, OneHost, OnlyRecovered
  <2> QED BY <1>1, <2>1, <2>3
<1>6. CASE SkipUploads
  <2>1. /\ UNCHANGED <<result, excluded, chunk>> /\ result = "ok"
        /\ \A s \in Shards : upload'[s] = IF upload[s].pc = "queued"
                                         THEN [upload[s] EXCEPT !.pc = "given up"] ELSE upload[s]
    BY <1>6 DEF SkipUploads, MaySkipUploads, recoverVars
  <2>2. \A s \in Shards : \/ upload'[s] = upload[s]
                          \/ upload[s].pc = "queued" /\ upload'[s].pc = "given up"
    <3>1. \A s \in Shards : upload[s] \in UploadStates
      BY DEF TransferInv, TransferTypes
    <3> QED BY <2>1, <3>1 DEF UploadStates
  <2>3. StoredOn' = StoredOn
    BY <2>2 DEF StoredOn
  <2>4. MoveInv'
    BY <2>1, <2>2 DEF MoveInv, ShardsThere, Enough, OneHost, OnlyRecovered
  <2> QED BY <2>1, <2>3, <2>4
<1>7. CASE CancelTransfer \/ HostUnusable \/ UNCHANGED transferVars
  <2>1. UNCHANGED <<result, excluded, upload, chunk>>
    BY <1>7 DEF CancelTransfer, HostUnusable, transferVars, recoverVars, uploadVars
  <2>2. MoveInv'
    BY <2>1 DEF MoveInv, ShardsThere, Enough, OneHost, OnlyRecovered
  <2> QED BY <1>1, <2>1, <2>2
<1> QED BY <1>2, <1>3, <1>4, <1>5, <1>6, <1>7 DEF TransferNext, TransferSteps

(* Recovery and upload, with their races, hedges, cancellations and hosts   *)
(* that drop out, amount to the steps SlabRepair takes for granted: losses  *)
(* are reported by the hosts that have them and before the recovery         *)
(* returns, a recovery succeeds only if enough sectors are there, and every *)
(* shard is stored once, on a host of its own (recoverShards, uploadShards, *)
(* executeMigration).                                                       *)
THEOREM MoveImplemented == TransferSpec => ImplementsMove
<1>1. TransferInit => MoveInv /\ Move!Init
  <2> SUFFICES ASSUME TransferInit PROVE MoveInv /\ Move!Init
    OBVIOUS
  <2>1. /\ result = "none" /\ excluded = {}
        /\ \A c \in Chunks : chunk[c].pc = "queued" /\ chunk[c].got = {}
        /\ \A s \in Shards : upload[s].pc = "idle"
    BY DEF TransferInit, NewChunk
  <2>2. StoredOn = {}
    BY <2>1 DEF StoredOn
  <2> QED BY <2>1, <2>2 DEF MoveInv, ShardsThere, OneHost, OnlyRecovered, Move!Init
<1>2. TransferInv /\ MoveInv /\ [TransferNext]_transferVars
         => MoveInv' /\ [Move!Next]_<<result, excluded, StoredOn>>
  BY MoveStep
<1> QED BY <1>1, <1>2, TransferInvariance, PTL DEF TransferSpec, ImplementsMove, Move!Spec

-----------------------------------------------------------------------------
(***************************************************************************)
(* The passes of a remote migrator (RemotePass)                            *)
(***************************************************************************)

(* What waits in a channel, and that it waits there once.                   *)
Elems(s)    == {s[i] : i \in 1..Len(s)}
Distinct(s) == \A i, k \in 1..Len(s) : s[i] = s[k] => i = k

(* A slab that is received.                                                 *)
LEMMA Received ==
    ASSUME NEW S, NEW s \in Seq(S), Distinct(s), s # <<>>
    PROVE  /\ Head(s) \in S /\ Tail(s) \in Seq(S) /\ Distinct(Tail(s))
           /\ Head(s) \in Elems(s) /\ Elems(Tail(s)) = Elems(s) \ {Head(s)}
<1>1. /\ Len(s) \in Nat \ {0} /\ s \in [1..Len(s) -> S]
      /\ Head(s) = s[1] /\ Tail(s) \in Seq(S) /\ Len(Tail(s)) = Len(s) - 1
      /\ \A i \in 1..Len(Tail(s)) : Tail(s)[i] = s[i + 1]
  BY HeadTailProperties, LenProperties, EmptySeq
<1>2. Head(s) \in S /\ Head(s) \in Elems(s)
  BY <1>1 DEF Elems
<1>3. Distinct(Tail(s))
  BY <1>1 DEF Distinct
<1>4. ASSUME NEW x PROVE x \in Elems(Tail(s)) <=> x \in Elems(s) /\ x # Head(s)
  <2>1. ASSUME x \in Elems(Tail(s)) PROVE x \in Elems(s) /\ x # Head(s)
    <3>1. PICK i \in 1..Len(Tail(s)) : x = Tail(s)[i]
      BY <2>1 DEF Elems
    <3>2. i + 1 \in 1..Len(s) /\ x = s[i + 1] /\ i + 1 # 1 /\ 1 \in 1..Len(s)
      BY <1>1, <3>1
    <3> QED BY <1>1, <3>2 DEF Elems, Distinct
  <2>2. ASSUME x \in Elems(s), x # Head(s) PROVE x \in Elems(Tail(s))
    <3>1. PICK i \in 1..Len(s) : x = s[i]
      BY <2>2 DEF Elems
    <3>2. i - 1 \in 1..Len(Tail(s)) /\ Tail(s)[i - 1] = s[i]
      BY <1>1, <2>2, <3>1
    <3> QED BY <3>1, <3>2 DEF Elems
  <2> QED BY <2>1, <2>2
<1> QED BY <1>1, <1>2, <1>3, <1>4

(* A slab that is sent.                                                     *)
LEMMA Sent ==
    ASSUME NEW S, NEW s \in Seq(S), Distinct(s), NEW x \in S, x \notin Elems(s)
    PROVE  /\ Append(s, x) \in Seq(S) /\ Distinct(Append(s, x))
           /\ Elems(Append(s, x)) = Elems(s) \cup {x}
<1>1. /\ Len(s) \in Nat /\ Append(s, x) \in Seq(S) /\ Len(Append(s, x)) = Len(s) + 1
      /\ \A i \in 1..Len(s) : Append(s, x)[i] = s[i]
      /\ Append(s, x)[Len(s) + 1] = x
  BY AppendProperties, LenProperties
<1>2. 1..(Len(s) + 1) = (1..Len(s)) \cup {Len(s) + 1} /\ Len(s) + 1 \notin 1..Len(s)
  BY <1>1
<1>3. Distinct(Append(s, x))
  BY <1>1, <1>2 DEF Distinct, Elems
<1>4. Elems(Append(s, x)) = Elems(s) \cup {x}
  BY <1>1, <1>2 DEF Elems
<1> QED BY <1>1, <1>3, <1>4

(* The slabs of the next batch are slabs, and none of them was fetched      *)
(* before.                                                                  *)
LEMMA NextBatch ==
    ASSUME NEW f \in Nat, f < NumBatches, NEW i \in 1..BatchSize
    PROVE  /\ f * BatchSize \in Nat /\ (f + 1) * BatchSize = f * BatchSize + BatchSize
           /\ f * BatchSize + i \in Jobs /\ f * BatchSize + i > f * BatchSize
           /\ f * BatchSize + i <= (f + 1) * BatchSize
<1>1. BatchSize \in Nat \ {0} /\ NumBatches \in Nat
  BY PassAssumption
<1>2. f * BatchSize \in Nat /\ (f + 1) * BatchSize = f * BatchSize + BatchSize
  BY <1>1
<1>3. PICK d \in Nat : NumBatches = (f + 1) + d
  <2>1. NumBatches - (f + 1) \in Nat /\ NumBatches = (f + 1) + (NumBatches - (f + 1))
    BY <1>1
  <2> QED BY <2>1
<1>4. NumBatches * BatchSize = (f + 1) * BatchSize + d * BatchSize /\ d * BatchSize \in Nat
  BY <1>1, <1>3
<1>5. (f + 1) * BatchSize \in Nat /\ NumBatches * BatchSize \in Nat
  BY <1>1
<1>6. PICK a, b, n, e : /\ a = f * BatchSize /\ b = (f + 1) * BatchSize
                        /\ n = NumBatches * BatchSize /\ e = d * BatchSize
  OBVIOUS
<1>7. a \in Nat /\ b = a + BatchSize /\ n = b + e /\ e \in Nat /\ i \in Nat /\ 1 <= i /\ i <= BatchSize
  BY <1>1, <1>2, <1>4, <1>6
<1>8. a + i \in 1..n /\ a + i > a /\ a + i <= b
  BY <1>1, <1>7
<1> QED BY <1>2, <1>6, <1>8 DEF Jobs

(* A slab of the first f batches is in one of them.                         *)
LEMMA BatchKnown ==
    ASSUME NEW f \in Nat, NEW j \in Nat, 1 <= j, j <= f * BatchSize
    PROVE  BatchOf(j) \in 1..f
<1>1. BatchSize \in Nat \ {0} /\ f * BatchSize \in Nat
  BY PassAssumption
<1>2. PICK q : q = (j - 1) \div BatchSize
  OBVIOUS
<1>3. q \in Int /\ q >= 0 /\ q * BatchSize <= j - 1
  BY <1>1, <1>2
<1>4. q < f
  <2>1. SUFFICES ASSUME q >= f PROVE FALSE
    BY <1>3
  <2>2. PICK d \in Nat : q = f + d
    <3>1. q - f \in Nat /\ q = f + (q - f)
      BY <1>3, <2>1
    <3> QED BY <3>1
  <2>3. q * BatchSize = f * BatchSize + d * BatchSize /\ d * BatchSize \in Nat
    BY <1>1, <2>2
  <2> QED BY <1>1, <1>3, <2>3
<1> QED BY <1>2, <1>3, <1>4 DEF BatchOf

-----------------------------------------------------------------------------
(* What a worker has in hand.                                               *)
Busy(w) == worker[w][1] \in {"migrate", "send"}

(* The slabs on their way to the workers and in their hands: each is at one *)
(* place, of a batch that was fetched, and was not attempted before.        *)
FeedInv ==
    /\ fetched \in Nat /\ fetched <= NumBatches /\ store = 1..fetched
    /\ toFeed \in Seq(Jobs) /\ Distinct(toFeed) /\ slabCh \in Seq(Jobs) /\ Distinct(slabCh)
    /\ worker \in [Workers -> {"idle", "migrate", "send", "exited"} \X (Jobs \cup {0})]
    /\ attempted \subseteq Jobs
    /\ \A j \in Elems(toFeed) \cup Elems(slabCh) \cup attempted : j <= fetched * BatchSize
    /\ Elems(toFeed) \cap Elems(slabCh) = {}
    /\ (Elems(toFeed) \cup Elems(slabCh)) \cap attempted = {}
    /\ \A w \in Workers : Busy(w) =>
          /\ worker[w][2] \in Jobs /\ worker[w][2] <= fetched * BatchSize
          /\ worker[w][2] \notin Elems(toFeed) \cup Elems(slabCh) \cup attempted
    /\ \A w, v \in Workers : Busy(w) /\ Busy(v) /\ w # v => worker[w][2] # worker[v][2]

(* The results: each of those attempted is at one place, in resultCh, among *)
(* the pending or offered, and offered once.                                *)
Offered == {j \in Jobs : offered[j] = 1}

ResultInv ==
    /\ resultCh \in Seq(Jobs) /\ Distinct(resultCh) /\ pending \subseteq Jobs
    /\ offered \in [Jobs -> {0, 1}]
    /\ attempted = Elems(resultCh) \cup pending \cup Offered
    /\ Elems(resultCh) \cap (pending \cup Offered) = {} /\ pending \cap Offered = {}

(* resultCh is closed when the workers are gone, and what was pending is    *)
(* offered when the pass returns.                                           *)
Stages ==
    /\ pc # "collect" => resultCh = <<>> /\ \A w \in Workers : worker[w][1] = "exited"
    /\ pc = "returned" => pending = {}

PassInv == FeedInv /\ ResultInv /\ Stages /\ ProgressIsPersisted

(* Nothing waits in an empty channel.                                       *)
LEMMA NothingWaits == Elems(<<>>) = {} /\ Distinct(<<>>) /\ \A S : <<>> \in Seq(S)
<1>1. Len(<<>>) = 0 /\ \A S : <<>> \in Seq(S)
  BY EmptySeq
<1> QED BY <1>1 DEF Elems, Distinct

(* A pass begins with nothing fetched.                                      *)
LEMMA PassInitHolds == PassInit => PassInv
<1> SUFFICES ASSUME PassInit PROVE PassInv
  OBVIOUS
<1>1. FeedInv
  BY PassAssumption, NothingWaits DEF PassInit, FeedInv, Busy
<1>2. ResultInv
  BY NothingWaits DEF PassInit, ResultInv, Offered
<1>3. Stages /\ ProgressIsPersisted
  BY DEF PassInit, Stages, ProgressIsPersisted
<1> QED BY <1>1, <1>2, <1>3 DEF PassInv

(* The same for the passes that follow.                                     *)
LEMMA NextPassHolds == NextPass => PassInv'
<1> SUFFICES ASSUME NextPass PROVE PassInv'
  OBVIOUS
<1>1. FeedInv'
  BY PassAssumption, NothingWaits DEF NextPass, FreshPass, FeedInv, Busy
<1>2. ResultInv'
  BY NothingWaits DEF NextPass, FreshPass, ResultInv, Offered
<1>3. Stages' /\ ProgressIsPersisted'
  BY DEF NextPass, FreshPass, Stages, ProgressIsPersisted
<1> QED BY <1>1, <1>2, <1>3 DEF PassInv

-----------------------------------------------------------------------------
(* A batch that is fetched replaces what is left of the one before.         *)
LEMMA FetchStep ==
    ASSUME PassInv, FetchBatch
    PROVE  PassInv'
<1>1. UNCHANGED <<slabCh, resultCh, worker, attempted, pending, offered, persisted, migrated, pc>>
  BY DEF FetchBatch, reportVars
<1>2. ResultInv' /\ Stages' /\ ProgressIsPersisted'
  BY <1>1 DEF PassInv, ResultInv, Offered, Stages, ProgressIsPersisted
<1>3. CASE UNCHANGED <<fetched, store, toFeed>>
  BY <1>1, <1>2, <1>3 DEF PassInv, FeedInv, Busy
<1>4. CASE /\ fetched < NumBatches /\ fetched' = fetched + 1 /\ store' = MergeHosts(fetched + 1)
           /\ toFeed' = [i \in 1..BatchSize |-> fetched * BatchSize + i]
  <2>1. fetched \in Nat /\ store = 1..fetched /\ BatchSize \in Nat \ {0} /\ NumBatches \in Nat
    BY PassAssumption DEF PassInv, FeedInv
  <2>2. \A i \in 1..BatchSize :
           /\ fetched * BatchSize \in Nat /\ fetched' * BatchSize = fetched * BatchSize + BatchSize
           /\ fetched * BatchSize + i \in Jobs /\ fetched * BatchSize + i > fetched * BatchSize
           /\ fetched * BatchSize + i <= fetched' * BatchSize
    BY <1>4, <2>1, NextBatch
  <2>3. toFeed' \in [1..BatchSize -> Jobs]
    BY <1>4, <2>2
  <2>4. toFeed' \in Seq(Jobs) /\ Len(toFeed') = BatchSize
    <3>1. toFeed' \in Seq(Jobs)
      BY <2>1, <2>3, SeqDef
    <3>2. DOMAIN toFeed' = 1..BatchSize /\ DOMAIN toFeed' = 1..Len(toFeed') /\ Len(toFeed') \in Nat
      BY <2>3, <3>1, LenProperties
    <3> QED BY <2>1, <3>1, <3>2
  <2>5. \A i \in 1..BatchSize : toFeed'[i] = fetched * BatchSize + i
    BY <1>4
  <2>6. PICK a, b : a = fetched * BatchSize /\ b = fetched' * BatchSize
    OBVIOUS
  <2>7. a \in Nat /\ b = a + BatchSize
    <3>1. 1 \in 1..BatchSize
      BY <2>1
    <3> QED BY <2>2, <2>6, <3>1
  <2>8. Distinct(toFeed')
    BY <2>4, <2>5, <2>6, <2>7 DEF Distinct
  <2>9. \A j \in Elems(toFeed') : j \in Jobs /\ j > a /\ j <= b
    BY <2>2, <2>4, <2>5, <2>6 DEF Elems
  <2>10. \A j \in Elems(slabCh) \cup attempted : j <= a /\ j \in Nat
    <3>1. Elems(slabCh) \subseteq Jobs /\ attempted \subseteq Jobs
      BY ElementOfSeq DEF PassInv, FeedInv, Elems
    <3>2. \A j \in Elems(toFeed) \cup Elems(slabCh) \cup attempted : j <= a
      BY <2>6 DEF PassInv, FeedInv
    <3>3. \A j \in Jobs : j \in Nat
      BY PassAssumption DEF Jobs
    <3> QED BY <3>1, <3>2, <3>3
  <2>11. \A w \in Workers : Busy(w) => worker[w][2] \in Jobs /\ worker[w][2] <= a /\ worker[w][2] \in Nat
    BY <2>6 DEF PassInv, FeedInv, Jobs
  <2>12. fetched' \in Nat /\ fetched' <= NumBatches /\ store' = 1..fetched'
    BY <1>4, <2>1 DEF MergeHosts
  <2>13. \A j \in Jobs : j \in Nat
    BY PassAssumption DEF Jobs
  <2>14. FeedInv'
    <3>1. \A w \in Workers : Busy(w)' <=> Busy(w)
      BY <1>1 DEF Busy
    <3>2. slabCh' = slabCh /\ worker' = worker /\ attempted' = attempted
      BY <1>1
    <3>3. /\ slabCh \in Seq(Jobs) /\ Distinct(slabCh) /\ attempted \subseteq Jobs
          /\ worker \in [Workers -> {"idle", "migrate", "send", "exited"} \X (Jobs \cup {0})]
          /\ Elems(slabCh) \cap attempted = {}
          /\ \A w \in Workers : Busy(w) => worker[w][2] \notin Elems(slabCh) \cup attempted
          /\ \A w, v \in Workers : Busy(w) /\ Busy(v) /\ w # v => worker[w][2] # worker[v][2]
      BY DEF PassInv, FeedInv
    <3>4. \A j \in Elems(toFeed') \cup Elems(slabCh) \cup attempted : j <= b
      BY <2>1, <2>7, <2>9, <2>10, <2>13
    <3>5. Elems(toFeed') \cap (Elems(slabCh) \cup attempted) = {}
      BY <2>7, <2>9, <2>10
    <3>6. \A w \in Workers : Busy(w) => worker[w][2] <= b /\ worker[w][2] \notin Elems(toFeed')
      BY <2>1, <2>7, <2>9, <2>11
    <3> QED BY <2>4, <2>6, <2>8, <2>11, <2>12, <3>1, <3>2, <3>3, <3>4, <3>5, <3>6 DEF FeedInv
  <2> QED BY <1>2, <2>14 DEF PassInv
<1> QED BY <1>3, <1>4 DEF FetchBatch

(* A slab moves from the batch into slabCh.                                 *)
LEMMA FeedStep ==
    ASSUME PassInv, FeedSlab \/ FeedCancelled
    PROVE  PassInv'
<1>1. UNCHANGED <<fetched, store, resultCh, worker, attempted, pending, offered, persisted, migrated, pc>>
  BY DEF FeedSlab, FeedCancelled, reportVars
<1>2. ResultInv' /\ Stages' /\ ProgressIsPersisted'
  BY <1>1 DEF PassInv, ResultInv, Offered, Stages, ProgressIsPersisted
<1>3. CASE UNCHANGED <<toFeed, slabCh>>
  BY <1>1, <1>2, <1>3 DEF PassInv, FeedInv, Busy
<1>4. CASE /\ toFeed # <<>> /\ toFeed' = Tail(toFeed)
           /\ slabCh' = Append(slabCh, Head(toFeed))
  <2>1. /\ toFeed \in Seq(Jobs) /\ Distinct(toFeed) /\ slabCh \in Seq(Jobs) /\ Distinct(slabCh)
        /\ Elems(toFeed) \cap Elems(slabCh) = {}
    BY DEF PassInv, FeedInv
  <2>2. PICK x : x = Head(toFeed)
    OBVIOUS
  <2>3. /\ x \in Jobs /\ toFeed' \in Seq(Jobs) /\ Distinct(toFeed')
        /\ x \in Elems(toFeed) /\ Elems(toFeed') = Elems(toFeed) \ {x}
    BY <1>4, <2>1, <2>2, Received
  <2>4. /\ slabCh' \in Seq(Jobs) /\ Distinct(slabCh') /\ Elems(slabCh') = Elems(slabCh) \cup {x}
    BY <1>4, <2>1, <2>2, <2>3, Sent
  <2>5. Elems(toFeed') \cup Elems(slabCh') = Elems(toFeed) \cup Elems(slabCh)
    BY <2>3, <2>4
  <2>6. Elems(toFeed') \cap Elems(slabCh') = {}
    BY <2>1, <2>3, <2>4
  <2>7. \A w \in Workers : Busy(w)' <=> Busy(w)
    BY <1>1 DEF Busy
  <2>8. FeedInv'
    <3>1. /\ fetched' \in Nat /\ fetched' <= NumBatches /\ store' = 1..fetched'
          /\ worker' \in [Workers -> {"idle", "migrate", "send", "exited"} \X (Jobs \cup {0})]
          /\ attempted' \subseteq Jobs
          /\ \A w, v \in Workers : Busy(w) /\ Busy(v) /\ w # v => worker'[w][2] # worker'[v][2]
      BY <1>1 DEF PassInv, FeedInv
    <3>2. /\ \A j \in Elems(toFeed') \cup Elems(slabCh') \cup attempted' : j <= fetched' * BatchSize
          /\ (Elems(toFeed') \cup Elems(slabCh')) \cap attempted' = {}
      BY <1>1, <2>5 DEF PassInv, FeedInv
    <3>3. \A w \in Workers : Busy(w) =>
            /\ worker'[w][2] \in Jobs /\ worker'[w][2] <= fetched' * BatchSize
            /\ worker'[w][2] \notin Elems(toFeed') \cup Elems(slabCh') \cup attempted'
      BY <1>1, <2>5 DEF PassInv, FeedInv
    <3> QED BY <2>3, <2>4, <2>6, <2>7, <3>1, <3>2, <3>3 DEF FeedInv
  <2> QED BY <1>2, <2>8 DEF PassInv
<1> QED BY <1>3, <1>4 DEF FeedSlab, MayFeed, FeedCancelled

(* A worker moves on to state st with slab x, which it had already or takes *)
(* out of slabCh.                                                           *)
LEMMA WorkerMoves ==
    ASSUME FeedInv, NEW w \in Workers, NEW st \in {"idle", "migrate", "send", "exited"},
           NEW x \in Jobs \cup {0}, worker' = [worker EXCEPT ![w] = <<st, x>>],
           UNCHANGED <<toFeed, fetched, store>>,
           slabCh' \in Seq(Jobs), Distinct(slabCh'), Elems(slabCh') \subseteq Elems(slabCh),
           attempted \subseteq attempted',
           \A j \in attempted' : j \in attempted \/ (Busy(w) /\ j = worker[w][2]),
           st \in {"migrate", "send"} =>
              /\ x \notin attempted'
              /\ x \notin Elems(slabCh')
              /\ x \in Elems(slabCh) \/ (Busy(w) /\ x = worker[w][2])
    PROVE  FeedInv'
<1>1. /\ worker'[w][1] = st /\ worker'[w][2] = x
      /\ \A v \in Workers : v # w => worker'[v] = worker[v]
  BY DEF FeedInv
<1>2. worker' \in [Workers -> {"idle", "migrate", "send", "exited"} \X (Jobs \cup {0})]
  BY DEF FeedInv
<1>3. /\ Busy(w)' <=> st \in {"migrate", "send"}
      /\ \A v \in Workers : v # w => (Busy(v)' <=> Busy(v))
  BY <1>1 DEF Busy
<1>4. PICK a : a = fetched * BatchSize
  OBVIOUS
<1>5. Elems(slabCh) \subseteq Jobs
  BY ElementOfSeq DEF FeedInv, Elems
<1>6. /\ attempted' \subseteq Jobs
      /\ \A j \in Elems(toFeed') \cup Elems(slabCh') \cup attempted' : j <= a
  BY <1>4 DEF FeedInv
<1>7. /\ Elems(toFeed') \cap Elems(slabCh') = {}
      /\ (Elems(toFeed') \cup Elems(slabCh')) \cap attempted' = {}
  BY DEF FeedInv
<1>8. ASSUME NEW v \in Workers, Busy(v)'
      PROVE  /\ worker'[v][2] \in Jobs /\ worker'[v][2] <= a
             /\ worker'[v][2] \notin Elems(toFeed') \cup Elems(slabCh') \cup attempted'
  <2>1. CASE v = w
    BY <1>1, <1>3, <1>4, <1>5, <1>8, <2>1 DEF FeedInv
  <2>2. CASE v # w
    BY <1>1, <1>3, <1>4, <1>8, <2>2 DEF FeedInv
  <2> QED BY <2>1, <2>2
<1>9. ASSUME NEW u \in Workers, NEW v \in Workers, Busy(u)', Busy(v)', u # v
      PROVE  worker'[u][2] # worker'[v][2]
  BY <1>1, <1>3, <1>9 DEF FeedInv
<1> QED BY <1>2, <1>4, <1>6, <1>7, <1>8, <1>9 DEF FeedInv

(* The steps of a worker.                                                   *)
LEMMA WorkerSteps ==
    ASSUME PassInv, NEW w \in Workers, WorkerStep(w)
    PROVE  PassInv'
<1>1. UNCHANGED <<toFeed, fetched, store, pending, offered, persisted, migrated, pc>>
  BY DEF WorkerStep, TakeSlab, MigrateRemote, SendResult, WorkerExits, reportVars
<1>2. /\ worker \in [Workers -> {"idle", "migrate", "send", "exited"} \X (Jobs \cup {0})]
      /\ FeedInv /\ slabCh \in Seq(Jobs) /\ Distinct(slabCh)
      /\ worker[w][2] \in Jobs \cup {0} /\ worker[w] = <<worker[w][1], worker[w][2]>>
  BY DEF PassInv, FeedInv
<1>3. pc = "collect" /\ ProgressIsPersisted'
  <2>1. worker[w][1] # "exited"
    BY DEF WorkerStep, TakeSlab, MayTake, MigrateRemote, SendResult, MaySend, WorkerExits, MayExit
  <2> QED BY <1>1, <2>1 DEF PassInv, Stages, ProgressIsPersisted
<1>4. Stages'
  BY <1>1, <1>3 DEF Stages
<1>5. CASE TakeSlab(w)
  <2>1. /\ worker[w][1] = "idle" /\ slabCh # <<>> /\ slabCh' = Tail(slabCh)
        /\ UNCHANGED <<resultCh, attempted>>
    BY <1>5 DEF TakeSlab, MayTake
  <2>2. PICK x : x = Head(slabCh)
    OBVIOUS
  <2>3. /\ x \in Jobs /\ slabCh' \in Seq(Jobs) /\ Distinct(slabCh')
        /\ x \in Elems(slabCh) /\ Elems(slabCh') = Elems(slabCh) \ {x}
    BY <1>2, <2>1, <2>2, Received
  <2>4. x \notin attempted
    BY <1>2, <2>3 DEF FeedInv
  <2>5. \/ worker' = [worker EXCEPT ![w] = <<worker[w][1], worker[w][2]>>]
        \/ worker' = [worker EXCEPT ![w] = <<"migrate", x>>]
    BY <1>2, <1>5, <2>2 DEF TakeSlab
  <2>6. ASSUME worker' = [worker EXCEPT ![w] = <<worker[w][1], worker[w][2]>>] PROVE FeedInv'
    <3>1. worker' = [worker EXCEPT ![w] = <<"idle", worker[w][2]>>]
      BY <2>1, <2>6
    <3> QED BY <1>1, <1>2, <2>1, <2>3, <3>1, WorkerMoves
  <2>7. ASSUME worker' = [worker EXCEPT ![w] = <<"migrate", x>>] PROVE FeedInv'
    BY <1>1, <1>2, <2>1, <2>3, <2>4, <2>7, WorkerMoves
  <2>8. FeedInv'
    BY <2>5, <2>6, <2>7
  <2>9. ResultInv'
    BY <1>1, <2>1 DEF PassInv, ResultInv, Offered
  <2> QED BY <1>3, <1>4, <2>8, <2>9 DEF PassInv
<1>6. CASE MigrateRemote(w) \/ WorkerExits(w)
  <2>1. UNCHANGED <<slabCh, resultCh, attempted>>
    BY <1>6 DEF MigrateRemote, WorkerExits
  <2>2. \/ \E st \in {"idle", "exited"} : worker' = [worker EXCEPT ![w] = <<st, 0>>]
        \/ Busy(w) /\ worker' = [worker EXCEPT ![w] = <<"send", worker[w][2]>>]
    BY <1>6 DEF MigrateRemote, WorkerExits, Busy
  <2>3. ASSUME \E st \in {"idle", "exited"} : worker' = [worker EXCEPT ![w] = <<st, 0>>] PROVE FeedInv'
    BY <1>1, <1>2, <2>1, <2>3, WorkerMoves
  <2>4. ASSUME Busy(w) /\ worker' = [worker EXCEPT ![w] = <<"send", worker[w][2]>>] PROVE FeedInv'
    <3>1. PICK x \in Jobs \cup {0} : x = worker[w][2]
      BY <1>2
    <3>2. x \notin attempted /\ x \notin Elems(slabCh)
      BY <1>2, <2>4, <3>1 DEF FeedInv
    <3> QED BY <1>1, <1>2, <2>1, <2>4, <3>1, <3>2, WorkerMoves
  <2>5. FeedInv'
    BY <2>2, <2>3, <2>4
  <2>6. ResultInv'
    BY <1>1, <2>1 DEF PassInv, ResultInv, Offered
  <2> QED BY <1>3, <1>4, <2>5, <2>6 DEF PassInv
<1>7. CASE SendResult(w)
  <2>1. PICK x : x = worker[w][2]
    OBVIOUS
  <2>2. /\ Busy(w) /\ resultCh' = Append(resultCh, x) /\ attempted' = attempted \cup {x}
        /\ worker' = [worker EXCEPT ![w] = <<"idle", 0>>] /\ slabCh' = slabCh
    BY <1>7, <2>1 DEF SendResult, MaySend, Busy
  <2>3. x \in Jobs /\ x \notin attempted
    BY <1>2, <2>1, <2>2 DEF FeedInv
  <2>4. FeedInv'
    BY <1>1, <1>2, <2>1, <2>2, WorkerMoves
  <2>5. resultCh' \in Seq(Jobs) /\ Distinct(resultCh') /\ Elems(resultCh') = Elems(resultCh) \cup {x}
    BY <2>2, <2>3, Sent DEF PassInv, ResultInv
  <2>6. ResultInv'
    BY <1>1, <2>2, <2>3, <2>5 DEF PassInv, ResultInv, Offered
  <2> QED BY <1>3, <1>4, <2>4, <2>6 DEF PassInv
<1> QED BY <1>5, <1>6, <1>7 DEF WorkerStep

-----------------------------------------------------------------------------
(* Results that are offered for the first time.                             *)
LEMMA OfferOnce ==
    ASSUME NEW R \in SUBSET Jobs, offered \in [Jobs -> {0, 1}], R \cap Offered = {}, Offer(R)
    PROVE  offered' \in [Jobs -> {0, 1}] /\ Offered' = Offered \cup R
<1>1. \A j \in Jobs : offered'[j] = IF j \in R THEN 1 ELSE offered[j]
  BY DEF Offer, Offered
<1>2. offered' \in [Jobs -> {0, 1}]
  <2>1. offered' = [j \in Jobs |-> offered'[j]]
    BY DEF Offer
  <2> QED BY <1>1, <2>1
<1> QED BY <1>1, <1>2 DEF Offered

(* startReport: R stays pending or is offered.                              *)
LEMMA ReportMoves ==
    ASSUME NEW R \in SUBSET Jobs, offered \in [Jobs -> {0, 1}], R \cap Offered = {},
           NEW busy, NEW flight, NEW err, StartReport(R, busy, flight, err)
    PROVE  /\ offered' \in [Jobs -> {0, 1}] /\ pending' \subseteq Jobs
           /\ pending' \cup Offered' = R \cup Offered /\ pending' \cap Offered' = {}
<1>1. CASE pending' = R /\ offered' = offered
  BY <1>1 DEF Offered
<1>2. CASE pending' = {} /\ Offer(R)
  <2>1. offered' \in [Jobs -> {0, 1}] /\ Offered' = Offered \cup R
    BY <1>2, OfferOnce
  <2> QED BY <1>2, <2>1
<1> QED BY <1>1, <1>2 DEF StartReport

(* A result is collected, and offered with the others or kept.              *)
LEMMA CollectStep ==
    ASSUME PassInv, Collect
    PROVE  PassInv'
<1>1. /\ pc = "collect" /\ resultCh # <<>> /\ resultCh' = Tail(resultCh)
      /\ UNCHANGED <<toFeed, fetched, store, slabCh, worker, attempted, persisted, migrated, pc>>
  BY DEF Collect, MayCollect
<1>2. /\ resultCh \in Seq(Jobs) /\ Distinct(resultCh) /\ pending \subseteq Jobs
      /\ offered \in [Jobs -> {0, 1}]
      /\ attempted = Elems(resultCh) \cup pending \cup Offered
      /\ Elems(resultCh) \cap (pending \cup Offered) = {} /\ pending \cap Offered = {}
  BY DEF PassInv, ResultInv
<1>3. PICK x : x = Head(resultCh)
  OBVIOUS
<1>4. /\ x \in Jobs /\ resultCh' \in Seq(Jobs) /\ Distinct(resultCh')
      /\ x \in Elems(resultCh) /\ Elems(resultCh') = Elems(resultCh) \ {x}
  BY <1>1, <1>2, <1>3, Received
<1>5. PICK R \in SUBSET Jobs : R = pending \cup {x}
  BY <1>2, <1>4
<1>6. R \cap Offered = {}
  BY <1>2, <1>4, <1>5
<1>7. /\ offered' \in [Jobs -> {0, 1}] /\ pending' \subseteq Jobs
      /\ pending' \cup Offered' = R \cup Offered /\ pending' \cap Offered' = {}
  <2>1. CASE StartReport(R, reporting, inReport, reportErr)
    BY <1>2, <1>6, <2>1, ReportMoves
  <2>2. CASE pending' = R /\ offered' = offered
    BY <1>2, <1>6, <2>2 DEF Offered
  <2> QED BY <1>3, <1>5, <2>1, <2>2 DEF Collect
<1>8. ResultInv'
  BY <1>1, <1>2, <1>4, <1>5, <1>7 DEF ResultInv
<1>9. FeedInv' /\ ProgressIsPersisted'
  BY <1>1 DEF PassInv, FeedInv, Busy, ProgressIsPersisted
<1>10. Stages'
  BY <1>1 DEF Stages
<1> QED BY <1>8, <1>9, <1>10 DEF PassInv

(* The other steps of the collector, and StopMigrator: they touch no        *)
(* channel.                                                                 *)
LEMMA CollectorSteps ==
    ASSUME PassInv,
           \/ FlushTick \/ FinishReport \/ ResultsClosed \/ LastReport \/ StopMigrator
           \/ UNCHANGED passVars
    PROVE  PassInv'
<1>1. UNCHANGED <<toFeed, fetched, store, slabCh, resultCh, worker, attempted>>
  BY DEF FlushTick, FinishReport, ResultsClosed, LastReport, StopMigrator, passVars, chanVars
<1>2. /\ pending \subseteq Jobs /\ offered \in [Jobs -> {0, 1}]
      /\ attempted = Elems(resultCh) \cup pending \cup Offered
      /\ Elems(resultCh) \cap (pending \cup Offered) = {} /\ pending \cap Offered = {}
  BY DEF PassInv, ResultInv
<1>3. FeedInv'
  BY <1>1 DEF PassInv, FeedInv, Busy
<1>4. /\ offered' \in [Jobs -> {0, 1}] /\ pending' \subseteq Jobs
      /\ pending' \cup Offered' = pending \cup Offered /\ pending' \cap Offered' = {}
  <2>1. CASE UNCHANGED <<pending, offered>>
    BY <1>2, <2>1 DEF Offered
  <2>2. ASSUME NEW busy, NEW flight, NEW err, StartReport(pending, busy, flight, err)
        PROVE  /\ offered' \in [Jobs -> {0, 1}] /\ pending' \subseteq Jobs
               /\ pending' \cup Offered' = pending \cup Offered /\ pending' \cap Offered' = {}
    BY <1>2, <2>2, ReportMoves
  <2>3. CASE LastReport
    <3>1. Offer(pending) /\ pending' = {}
      BY <2>3 DEF LastReport, Left
    <3>2. offered' \in [Jobs -> {0, 1}] /\ Offered' = Offered \cup pending
      BY <1>2, <3>1, OfferOnce
    <3> QED BY <3>1, <3>2
  <2>4. CASE FlushTick
    BY <2>2, <2>4 DEF FlushTick
  <2>5. CASE FinishReport
    <3>1. \/ UNCHANGED <<pending, offered>>
          \/ \E ok \in BOOLEAN : StartReport(pending, BusyAfter(ok), {}, reportErr \/ ~ok)
      BY <2>5 DEF FinishReport
    <3> QED BY <2>1, <2>2, <3>1
  <2>6. CASE ResultsClosed \/ StopMigrator \/ UNCHANGED passVars
    <3>1. UNCHANGED <<pending, offered>>
      BY <2>6 DEF ResultsClosed, StopMigrator, passVars, reportVars
    <3> QED BY <2>1, <3>1
  <2> QED BY <2>3, <2>4, <2>5, <2>6
<1>5. ResultInv'
  BY <1>1, <1>2, <1>4 DEF PassInv, ResultInv
<1>6. ProgressIsPersisted'
  <2>0. ASSUME NEW R, NEW ok \in BOOLEAN, R # {},
               \E P \in Storable(R, ok) : persisted' = persisted \cup P,
               migrated' \subseteq migrated \cup (IF ok THEN {R} ELSE {})
        PROVE  ProgressIsPersisted'
    <3>1. PICK P \in Storable(R, ok) : persisted' = persisted \cup P
      BY <2>0
    <3>2. P \subseteq R /\ (ok => P # {})
      BY <2>0 DEF Storable
    <3> QED BY <2>0, <3>1, <3>2 DEF PassInv, ProgressIsPersisted
  <2>1. CASE FinishReport
    <3>1. inReport # {}
      BY <2>1 DEF FinishReport, MayFinish
    <3>2. PICK ok \in BOOLEAN :
             /\ \E P \in Storable(inReport, ok) : persisted' = persisted \cup P
             /\ migrated' = migrated \cup Reported(ok)
      BY <2>1 DEF FinishReport
    <3> QED BY <2>0, <3>1, <3>2 DEF Reported
  <2>2. CASE LastReport
    <3>1. PICK ok \in BOOLEAN :
             /\ \E P \in Storable(Left, ok) : persisted' = persisted \cup P
             /\ migrated' = IF ok /\ Left # {} THEN migrated \cup {Left} ELSE migrated
      BY <2>2 DEF LastReport
    <3>2. CASE Left # {}
      BY <2>0, <3>1, <3>2
    <3>3. CASE Left = {}
      BY <3>1, <3>3 DEF Storable, PassInv, ProgressIsPersisted
    <3> QED BY <3>2, <3>3
  <2>3. CASE FlushTick \/ ResultsClosed \/ StopMigrator \/ UNCHANGED passVars
    <3>1. UNCHANGED <<migrated, persisted>>
      BY <2>3 DEF FlushTick, ResultsClosed, StopMigrator, passVars, reportVars
    <3> QED BY <3>1 DEF PassInv, ProgressIsPersisted
  <2> QED BY <2>1, <2>2, <2>3
<1>7. Stages'
  <2>1. CASE LastReport
    BY <1>1, <2>1 DEF LastReport, PassInv, Stages
  <2>2. CASE FinishReport
    BY <1>1, <2>2 DEF FinishReport, MayFinish, PassInv, Stages
  <2>3. CASE ResultsClosed
    BY <1>1, <2>3 DEF ResultsClosed, MayClose, PassInv, Stages
  <2>4. CASE FlushTick
    BY <1>1, <2>4 DEF FlushTick, MayFlush, PassInv, Stages
  <2>5. CASE StopMigrator \/ UNCHANGED passVars
    BY <1>1, <2>5 DEF StopMigrator, passVars, reportVars, PassInv, Stages
  <2> QED BY <2>1, <2>2, <2>3, <2>4, <2>5
<1> QED BY <1>3, <1>5, <1>6, <1>7 DEF PassInv

(* Every step keeps the invariant.                                          *)
LEMMA PassNextHolds == PassInv /\ [PassNext]_passVars => PassInv'
BY NextPassHolds, FetchStep, FeedStep, WorkerSteps, CollectStep, CollectorSteps
   DEF PassNext, PassSteps

(* The invariant behind the theorem.                                        *)
THEOREM PassInvariance == PassSpec => []PassInv
BY PassInitHolds, PassNextHolds, PTL DEF PassSpec

(* Whatever reports fail and whenever the migrator is stopped, runPass      *)
(* offers every result to the primary exactly once, counts no report of     *)
(* which nothing was stored, and keeps the hosts of every migration it      *)
(* runs; for any number of batches, workers and results in a report.        *)
THEOREM PassesAreSound == PassSpec => []PassSound
<1>1. PassInv => PassSound
  <2> SUFFICES ASSUME PassInv PROVE PassSound
    OBVIOUS
  <2>1. ResultsOfferedOnce
    <3>1. \A j \in Jobs : offered[j] \in {0, 1}
      BY DEF PassInv, ResultInv
    <3>2. pc = "returned" => \A j \in attempted : offered[j] = 1
      BY NothingWaits DEF PassInv, ResultInv, Stages, Offered
    <3> QED BY <3>1, <3>2 DEF ResultsOfferedOnce
  <2>2. HostsStayKnown
    <3> SUFFICES ASSUME NEW w \in Workers, worker[w][1] = "migrate"
                 PROVE  BatchOf(worker[w][2]) \in store
      BY DEF HostsStayKnown
    <3>1. PICK j : j = worker[w][2]
      OBVIOUS
    <3>2. j \in Jobs /\ j <= fetched * BatchSize /\ fetched \in Nat /\ store = 1..fetched
      BY <3>1 DEF PassInv, FeedInv, Busy
    <3>3. j \in Nat /\ 1 <= j
      BY <3>2, PassAssumption DEF Jobs
    <3> QED BY <3>1, <3>2, <3>3, BatchKnown
  <2> QED BY <2>1, <2>2 DEF PassInv, PassSound
<1> QED BY <1>1, PassInvariance, PTL

(* Why a pass cannot hang: a report that is waited for is in flight, and a  *)
(* worker is gone only when nothing is left to take.                        *)
PassFlow ==
    /\ producer \in {"fetch", "feed", "done"}
    /\ pc \in {"collect", "drain", "last", "returned"}
    /\ reporting => inReport # {}
    /\ pc = "drain" => reporting
    /\ \A w \in Workers : worker[w][1] = "exited" => producer = "done" /\ slabCh = <<>>

LEMMA PassFlowInit == PassInit => PassFlow
BY DEF PassInit, PassFlow

(* The producer adds to slabCh only before it is done, and a worker that is *)
(* gone stays gone.                                                         *)
LEMMA FlowOfSlabs ==
    ASSUME PassInv, PassFlow,
           \/ FetchBatch \/ FeedSlab \/ FeedCancelled
           \/ \E w \in Workers : WorkerStep(w)
    PROVE  PassFlow'
<1>1. UNCHANGED <<pc, reporting, inReport>>
  BY DEF FetchBatch, FeedSlab, FeedCancelled, WorkerStep, TakeSlab, MigrateRemote, SendResult,
         WorkerExits, reportVars
<1>2. worker \in [Workers -> {"idle", "migrate", "send", "exited"} \X (Jobs \cup {0})]
  BY DEF PassInv, FeedInv
<1>3. producer' \in {"fetch", "feed", "done"}
  BY DEF PassFlow, FetchBatch, FeedSlab, FeedCancelled, WorkerStep, TakeSlab, MigrateRemote,
         SendResult, WorkerExits
<1>4. ASSUME NEW v \in Workers, worker'[v][1] = "exited"
      PROVE  producer' = "done" /\ slabCh' = <<>>
  <2>1. CASE FetchBatch \/ FeedSlab \/ FeedCancelled
    <3>1. UNCHANGED worker
      BY <2>1 DEF FetchBatch, FeedSlab, FeedCancelled
    <3>2. producer = "done"
      BY <1>4, <3>1 DEF PassFlow
    <3> QED BY <2>1, <3>2 DEF FetchBatch, FeedSlab, MayFeed, FeedCancelled
  <2>2. ASSUME NEW w \in Workers, WorkerStep(w)
        PROVE  producer' = "done" /\ slabCh' = <<>>
    <3>1. UNCHANGED producer
      BY <2>2 DEF WorkerStep, TakeSlab, MigrateRemote, SendResult, WorkerExits
    <3>2. CASE TakeSlab(w)
      <4>1. worker'[v][1] = "exited" => worker[v][1] = "exited"
        BY <1>2, <3>2 DEF TakeSlab, MayTake
      <4> QED BY <1>4, <3>2, <4>1 DEF PassFlow, TakeSlab, MayTake
    <3>3. CASE MigrateRemote(w) \/ SendResult(w)
      <4>1. worker'[v][1] = "exited" => worker[v][1] = "exited"
        BY <1>2, <3>3 DEF MigrateRemote, SendResult
      <4> QED BY <1>4, <3>1, <3>3, <4>1 DEF PassFlow, MigrateRemote, SendResult
    <3>4. CASE WorkerExits(w)
      BY <3>4 DEF WorkerExits, MayExit
    <3> QED BY <2>2, <3>2, <3>3, <3>4 DEF WorkerStep
  <2> QED BY <2>1, <2>2
<1> QED BY <1>1, <1>3, <1>4 DEF PassFlow

(* The collector waits only for a report it has started.                    *)
LEMMA FlowOfReports ==
    ASSUME PassFlow,
           \/ Collect \/ FlushTick \/ FinishReport \/ ResultsClosed \/ LastReport
           \/ NextPass \/ StopMigrator \/ UNCHANGED passVars
    PROVE  PassFlow'
<1>1. CASE NextPass
  BY <1>1 DEF NextPass, FreshPass, PassFlow
<1>2. CASE StopMigrator \/ UNCHANGED passVars
  BY <1>2 DEF StopMigrator, passVars, chanVars, reportVars, PassFlow
<1>3. CASE Collect
  <2>1. UNCHANGED <<producer, pc, worker, slabCh>> /\ pc = "collect"
    BY <1>3 DEF Collect, MayCollect
  <2>2. PICK R : R = pending \cup {Head(resultCh)}
    OBVIOUS
  <2>3. R # {}
    BY <2>2
  <2>4. \/ StartReport(R, reporting, inReport, reportErr)
        \/ UNCHANGED <<reporting, inReport>>
    BY <1>3, <2>2 DEF Collect
  <2>5. reporting' => inReport' # {}
    BY <2>3, <2>4 DEF StartReport, PassFlow
  <2> QED BY <2>1, <2>5 DEF PassFlow
<1>4. CASE FlushTick
  <2>1. UNCHANGED <<producer, pc, worker, slabCh>> /\ pc = "collect"
    BY <1>4 DEF FlushTick, MayFlush, chanVars
  <2>2. reporting' => inReport' # {}
    BY <1>4 DEF FlushTick, MayFlush, StartReport, PassFlow
  <2> QED BY <2>1, <2>2 DEF PassFlow
<1>5. CASE FinishReport
  <2>1. UNCHANGED <<producer, worker, slabCh>>
    BY <1>5 DEF FinishReport, chanVars
  <2>2. CASE pc = "collect"
    <3>1. PICK err : StartReport(pending, FALSE, {}, err) /\ UNCHANGED pc
      BY <1>5, <2>2 DEF FinishReport, BusyAfter
    <3>2. reporting' => inReport' # {}
      BY <3>1 DEF StartReport
    <3> QED BY <2>1, <2>2, <3>1, <3>2 DEF PassFlow
  <2>3. CASE pc # "collect"
    <3>1. reporting' = FALSE /\ pc' = "last"
      BY <1>5, <2>3 DEF FinishReport, BusyAfter
    <3> QED BY <2>1, <3>1 DEF PassFlow
  <2> QED BY <2>2, <2>3
<1>6. CASE ResultsClosed
  BY <1>6 DEF ResultsClosed, chanVars, reportVars, PassFlow
<1>7. CASE LastReport
  BY <1>7 DEF LastReport, chanVars, PassFlow
<1> QED BY <1>1, <1>2, <1>3, <1>4, <1>5, <1>6, <1>7

LEMMA PassFlowNext == PassInv /\ PassFlow /\ [PassNext]_passVars => PassFlow'
BY FlowOfSlabs, FlowOfReports DEF PassNext, PassSteps

(* From these two invariants: a producer that waits for room in slabCh has  *)
(* a worker to wait for, a worker that waits for room in resultCh has the   *)
(* collector, and the collector, when nothing comes, the workers or the     *)
(* report in flight.                                                        *)
LEMMA PassGoesOn == PassInv /\ PassFlow => PassNotStuck
<1> SUFFICES ASSUME PassInv, PassFlow, pc # "returned" PROVE PassReady
  BY DEF PassNotStuck
<1>1. worker \in [Workers -> {"idle", "migrate", "send", "exited"} \X (Jobs \cup {0})]
      /\ slabCh \in Seq(Jobs) /\ resultCh \in Seq(Jobs)
  BY DEF PassInv, FeedInv, ResultInv
<1>2. CASE pc = "last"
  BY <1>2 DEF PassReady
<1>3. CASE pc = "drain"
  BY <1>3 DEF PassFlow, PassReady, MayFinish
<1>4. CASE pc = "collect" /\ \A w \in Workers : worker[w][1] = "exited"
  BY <1>4 DEF PassReady, MayCollect, MayClose
<1>5. ASSUME pc = "collect", NEW w \in Workers, worker[w][1] # "exited"
      PROVE  PassReady
  <2>1. worker[w][1] \in {"idle", "migrate", "send"}
    BY <1>1, <1>5
  <2>2. CASE worker[w][1] = "migrate"
    BY <2>2 DEF PassReady, WorkerReady
  <2>3. CASE worker[w][1] = "send"
    <3>1. CASE resultCh = <<>>
      <4>1. Len(resultCh) = 0 /\ 0 < ResultCap
        BY <3>1, EmptySeq, PassAssumption
      <4> QED BY <2>3, <4>1 DEF PassReady, WorkerReady, MaySend
    <3>2. CASE resultCh # <<>>
      BY <1>5, <3>2 DEF PassReady, MayCollect
    <3> QED BY <3>1, <3>2
  <2>4. CASE worker[w][1] = "idle"
    <3>1. CASE slabCh # <<>>
      BY <2>4, <3>1 DEF PassReady, WorkerReady, MayTake
    <3>2. CASE slabCh = <<>> /\ producer = "done"
      BY <2>4, <3>2 DEF PassReady, WorkerReady, MayExit
    <3>3. CASE producer = "fetch"
      BY <3>3 DEF PassReady
    <3>4. CASE slabCh = <<>> /\ producer = "feed"
      <4>1. Len(slabCh) = 0
        BY <3>4, EmptySeq
      <4>2. Cardinality(Workers) \in Nat /\ Cardinality(Workers) # 0
        BY PassAssumption, FS_CardinalityType, FS_EmptySet
      <4>3. Len(slabCh) < Cardinality(Workers)
        BY <4>1, <4>2
      <4> QED BY <3>4, <4>3 DEF PassReady, MayFeed
    <3> QED BY <3>1, <3>2, <3>3, <3>4 DEF PassFlow
  <2> QED BY <2>1, <2>2, <2>3, <2>4
<1> QED BY <1>2, <1>3, <1>4, <1>5 DEF PassFlow

(* Until a pass returns someone in it can go on, for any number of workers  *)
(* and batches and any capacity of resultCh: the goroutines of runPass      *)
(* never all wait for each other, whatever reports fail.                    *)
THEOREM PassesGoOn == PassSpec => []PassNotStuck
<1>1. PassSpec => []PassFlow
  BY PassFlowInit, PassFlowNext, PassInvariance, PTL DEF PassSpec
<1> QED BY <1>1, PassInvariance, PassGoesOn, PTL

-----------------------------------------------------------------------------
(***************************************************************************)
(* The integrity checks of a host (IntegrityChecks)                        *)
(***************************************************************************)

CheckTypes ==
    /\ held \subseteq Roots /\ lostRoots \subseteq Roots
    /\ failedChecks \in [Roots -> 0..MaxFailedChecks]
    /\ failedReads \in [Roots -> 0..MaxFailedChecks]
    /\ toCheck \in Seq(Roots) /\ results \in Seq({"success", "lost", "failed"})
    /\ reads = Len(results) /\ reads <= Len(toCheck)

(* Outcomes stand at the positions of the roots they are about.             *)
OutcomesInPlace ==
    /\ \A j \in 1..Len(results) : results[j] = "lost" => toCheck[j] \in saidLost
    /\ checkPc \in {"usable", "verify", "lost", "failed"} =>
          \A j \in 1..Len(results) : results[j] = "failed" =>
              \/ failedReads[toCheck[j]] = MaxFailedChecks
              \/ failedChecks[toCheck[j]] < failedReads[toCheck[j]]

(* What was taken from the host stays gone, so no success is recorded of it.*)
LostStaysLost == lostRoots \cap held = {}

ChecksInv == CheckTypes /\ OutcomesInPlace /\ LostStaysLost /\ LossIsObserved

(* The checks of a host begin without results.                              *)
LEMMA NoResults ==
    /\ \A S : <<>> \in Seq(S)
    /\ Len(<<>>) = 0 /\ 1..Len(<<>>) = {}
<1>1. Len(<<>>) = 0 /\ \A S : <<>> \in Seq(S)
  BY EmptySeq
<1> QED BY <1>1

(* To begin with no check has failed.                                       *)
LEMMA ChecksInitHolds == ChecksInit => ChecksInv
<1> SUFFICES ASSUME ChecksInit PROVE ChecksInv
  OBVIOUS
<1>1. MaxFailedChecks \in Nat
  BY ChecksAssumption
<1>2. CheckTypes
  BY <1>1, NoResults DEF ChecksInit, CheckTypes
<1>3. OutcomesInPlace
  BY NoResults DEF ChecksInit, OutcomesInPlace
<1>4. LostStaysLost /\ LossIsObserved
  BY <1>1 DEF ChecksInit, LostStaysLost, LossIsObserved
<1> QED BY <1>2, <1>3, <1>4 DEF ChecksInv

(* Steps that leave the checks' books alone or begin with new ones: held    *)
(* may shrink, results are kept or forgotten.                               *)
LEMMA BooksKept ==
    ASSUME ChecksInv, UNCHANGED <<failedChecks, saidLost, failedReads, lostRoots>>,
           held' \subseteq held,
           \/ UNCHANGED <<toCheck, results, reads>>
           \/ toCheck' \in Seq(Roots) /\ results' = <<>> /\ reads' = 0,
           \/ checkPc' \notin {"usable", "verify", "lost", "failed"}
           \/ checkPc \in {"usable", "verify", "lost", "failed"}
           \/ results' = <<>>
    PROVE  ChecksInv'
<1>1. CheckTypes'
  <2>1. CASE UNCHANGED <<toCheck, results, reads>>
    BY <2>1 DEF ChecksInv, CheckTypes
  <2>2. CASE toCheck' \in Seq(Roots) /\ results' = <<>> /\ reads' = 0
    <3>1. Len(toCheck') \in Nat
      BY <2>2, LenProperties
    <3> QED BY <2>2, <3>1, NoResults DEF ChecksInv, CheckTypes
  <2> QED BY <2>1, <2>2
<1>2. OutcomesInPlace'
  <2>1. CASE results' = <<>>
    BY <2>1, NoResults DEF OutcomesInPlace
  <2>2. CASE results' # <<>>
    BY <2>2 DEF ChecksInv, OutcomesInPlace
  <2> QED BY <2>1, <2>2
<1>3. LostStaysLost' /\ LossIsObserved'
  BY DEF ChecksInv, LostStaysLost, LossIsObserved
<1> QED BY <1>1, <1>2, <1>3 DEF ChecksInv

(* The roots a claim returns.                                               *)
LEMMA Claimed ==
    ASSUME ChecksInv, NEW S \in SUBSET Due, NEW s \in SetToSeqs(S)
    PROVE  s \in Seq(Roots)
<1>1. S \subseteq Roots /\ IsFiniteSet(S)
  BY ChecksAssumption, FS_Subset DEF ChecksInv, CheckTypes, Due
<1>2. PICK n \in Nat : n = Cardinality(S)
  BY <1>1, FS_CardinalityType
<1>3. s \in [1..n -> S]
  BY <1>2 DEF SetToSeqs
<1>4. s \in [1..n -> Roots]
  BY <1>1, <1>3
<1> QED BY <1>4, SeqDef

(* The steps that store nothing about a root and read none.                 *)
LEMMA QuietSteps ==
    ASSUME ChecksInv,
           \/ HostsForIntegrityChecks \/ SectorsForIntegrityCheck \/ Usable \/ InterruptChecks
           \/ ChecksDone \/ ChecksAbort \/ UpdateServiceAccounts \/ TimePasses \/ CalmDown
           \/ (\E r \in Roots : LeaveHost(r)) \/ UNCHANGED checkVars
    PROVE  ChecksInv'
<1>1. CASE SectorsForIntegrityCheck
  <2>1. UNCHANGED <<failedChecks, saidLost, failedReads, lostRoots, held>>
    BY <1>1 DEF SectorsForIntegrityCheck, hostVars
  <2>2. toCheck' \in Seq(Roots) /\ results' = <<>> /\ reads' = 0
    <3>1. CASE HostDone
      BY <3>1, NoResults DEF HostDone
    <3>2. CASE ~HostDone
      <4>1. PICK S \in SUBSET Due : toCheck' \in SetToSeqs(S) /\ results' = <<>> /\ reads' = 0
        BY <1>1, <3>2 DEF SectorsForIntegrityCheck
      <4> QED BY <4>1, Claimed
    <3> QED BY <3>1, <3>2
  <2> QED BY <2>1, <2>2, BooksKept
<1>2. CASE Usable \/ InterruptChecks \/ ChecksAbort
  <2>1. UNCHANGED <<failedChecks, saidLost, failedReads, lostRoots, held>>
    BY <1>2 DEF Usable, InterruptChecks, ChecksAbort, hostVars
  <2>2. \/ /\ UNCHANGED <<toCheck, results, reads>>
           /\ checkPc \in {"usable", "verify"}
        \/ toCheck' = <<>> /\ results' = <<>> /\ reads' = 0
    BY <1>2 DEF Usable, InterruptChecks, ChecksAbort, Interrupted, HostDone
  <2> QED BY <2>1, <2>2, BooksKept, NoResults
<1>3. CASE \/ HostsForIntegrityChecks \/ ChecksDone \/ UpdateServiceAccounts \/ TimePasses \/ CalmDown
           \/ (\E r \in Roots : LeaveHost(r)) \/ UNCHANGED checkVars
  <2>1. /\ UNCHANGED <<failedChecks, saidLost, failedReads, lostRoots, toCheck, results, reads>>
        /\ held' \subseteq held
        /\ \/ checkPc' = checkPc \/ checkPc' = "claim" \/ checkPc = "verify"
    BY <1>3 DEF HostsForIntegrityChecks, ChecksDone, UpdateServiceAccounts, TimePasses, CalmDown,
                LeaveHost, checkVars, hostVars
  <2> QED BY <2>1, BooksKept
<1> QED BY <1>1, <1>2, <1>3

(* A read of the next root claimed.                                         *)
LEMMA VerifyStep ==
    ASSUME ChecksInv, NEW reply \in {"success", "lost", "failed", "nofunds"}, NEW cost,
           VerifySector(reply, cost)
    PROVE  ChecksInv'
<1>1. PICK r : r = toCheck[reads + 1]
  OBVIOUS
<1>2. PICK x : x = IF reply = "nofunds" THEN "failed" ELSE reply
  OBVIOUS
<1>3. /\ checkPc = "verify" /\ reads < Len(toCheck) /\ reads' = reads + 1
      /\ results' = results \o <<x>>
      /\ saidLost' = IF reply = "lost" THEN saidLost \cup {r} ELSE saidLost
      /\ failedReads' = IF reply \in {"failed", "nofunds"} /\ failedReads[r] < MaxFailedChecks
                        THEN [failedReads EXCEPT ![r] = @ + 1] ELSE failedReads
      /\ UNCHANGED <<held, failedChecks, checkPc, toCheck, lostRoots>>
  BY <1>1, <1>2 DEF VerifySector, ResultOf, hostVars
<1>4. /\ reads = Len(results) /\ reads \in Nat /\ Len(toCheck) \in Nat
      /\ toCheck \in Seq(Roots) /\ results \in Seq({"success", "lost", "failed"})
      /\ MaxFailedChecks \in Nat
      /\ failedReads \in [Roots -> 0..MaxFailedChecks] /\ failedChecks \in [Roots -> 0..MaxFailedChecks]
  BY LenProperties, ChecksAssumption DEF ChecksInv, CheckTypes
<1>5. r \in Roots
  BY <1>1, <1>3, <1>4, ElementOfSeq
<1>6. /\ results' \in Seq({"success", "lost", "failed"}) /\ Len(results') = reads + 1
      /\ \A j \in 1..reads : results'[j] = results[j]
      /\ results'[reads + 1] = x
  <2>1. <<x>> \in Seq({"success", "lost", "failed"}) /\ Len(<<x>>) = 1 /\ <<x>>[1] = x
    BY <1>2
  <2>2. /\ results' \in Seq({"success", "lost", "failed"}) /\ Len(results') = reads + 1
        /\ \A j \in 1..(reads + 1) : results'[j] = IF j <= reads THEN results[j] ELSE <<x>>[j - reads]
    BY <1>3, <1>4, <2>1, ConcatProperties
  <2>3. \A j \in 1..reads : j \in 1..(reads + 1) /\ j <= reads
    BY <1>4
  <2>4. reads + 1 \in 1..(reads + 1) /\ ~(reads + 1 <= reads) /\ (reads + 1) - reads = 1
    BY <1>4
  <2>5. \A j \in 1..reads : results'[j] = results[j]
    BY <2>2, <2>3
  <2>6. results'[reads + 1] = x
    BY <2>1, <2>2, <2>4
  <2> QED BY <2>2, <2>5, <2>6
<1>7. /\ failedReads' \in [Roots -> 0..MaxFailedChecks]
      /\ \A q \in Roots : failedReads'[q] >= failedReads[q]
      /\ reply \in {"failed", "nofunds"} =>
            failedReads'[r] = MaxFailedChecks \/ failedReads'[r] > failedReads[r]
  BY <1>3, <1>4, <1>5, SMTT(30)
<1>8. CheckTypes'
  BY <1>3, <1>4, <1>6, <1>7, SMTT(30) DEF ChecksInv, CheckTypes
<1>9. LostStaysLost' /\ LossIsObserved'
  <2>1. /\ \A q \in Roots : failedChecks[q] <= failedReads[q]
        /\ \A q \in lostRoots : q \in Roots /\ (q \in saidLost \/ failedReads[q] >= MaxFailedChecks)
    BY DEF ChecksInv, CheckTypes, LossIsObserved
  <2>2. \A q \in Roots : failedChecks'[q] <= failedReads'[q]
    BY <1>3, <1>4, <1>7, <2>1
  <2>3. \A q \in lostRoots' : q \in saidLost' \/ failedReads'[q] >= MaxFailedChecks
    BY <1>3, <1>4, <1>7, <2>1
  <2> QED BY <1>3, <2>2, <2>3 DEF ChecksInv, LostStaysLost, LossIsObserved
<1>10. OutcomesInPlace'
  <2> SUFFICES ASSUME NEW j \in 1..(reads + 1)
               PROVE  /\ results'[j] = "lost" => toCheck[j] \in saidLost'
                      /\ results'[j] = "failed" =>
                            \/ failedReads'[toCheck[j]] = MaxFailedChecks
                            \/ failedChecks[toCheck[j]] < failedReads'[toCheck[j]]
    BY <1>3, <1>6 DEF OutcomesInPlace
  <2>1. PICK q \in Roots : q = toCheck[j]
    BY <1>3, <1>4, ElementOfSeq
  <2>2. failedChecks[q] <= failedReads[q]
    BY DEF ChecksInv, LossIsObserved
  <2>3. CASE j = reads + 1
    BY <1>1, <1>2, <1>3, <1>4, <1>6, <1>7, <2>1, <2>2, <2>3
  <2>4. CASE j \in 1..reads
    <3>1. /\ results[j] = "lost" => q \in saidLost
          /\ results[j] = "failed" => failedReads[q] = MaxFailedChecks \/ failedChecks[q] < failedReads[q]
      BY <1>3, <1>4, <2>1, <2>4 DEF ChecksInv, OutcomesInPlace
    <3>2. failedReads'[q] \in 0..MaxFailedChecks /\ failedReads[q] \in 0..MaxFailedChecks
          /\ failedReads'[q] >= failedReads[q] /\ failedChecks[q] \in 0..MaxFailedChecks
      BY <1>4, <1>7
    <3> QED BY <1>3, <1>4, <1>6, <2>1, <2>4, <3>1, <3>2, SMTT(30)
  <2> QED BY <1>4, <2>3, <2>4
<1> QED BY <1>8, <1>9, <1>10 DEF ChecksInv

(* The four transactions that store the outcomes.                           *)
LEMMA PersistSteps ==
    ASSUME ChecksInv, PersistLost \/ PersistFailed \/ PersistSuccess \/ PersistFailing
    PROVE  ChecksInv'
<1>1. /\ MaxFailedChecks \in Nat /\ held \subseteq Roots /\ lostRoots \subseteq Roots
      /\ failedReads \in [Roots -> 0..MaxFailedChecks] /\ failedChecks \in [Roots -> 0..MaxFailedChecks]
      /\ lostRoots \cap held = {}
      /\ \A q \in Roots : failedChecks[q] <= failedReads[q]
      /\ \A q \in lostRoots : q \in saidLost \/ failedReads[q] >= MaxFailedChecks
  BY ChecksAssumption DEF ChecksInv, CheckTypes, LostStaysLost, LossIsObserved
<1>2. UNCHANGED saidLost
  BY DEF PersistLost, PersistFailed, PersistSuccess, PersistFailing
<1>3. /\ Len(results) \in Nat /\ Len(toCheck) \in Nat /\ Len(results) <= Len(toCheck)
      /\ toCheck \in Seq(Roots)
  BY LenProperties DEF ChecksInv, CheckTypes
<1>4. \A j \in 1..Len(results) : toCheck[j] \in Roots
  BY <1>3, ElementOfSeq
<1>5. CASE PersistLost
  <2>1. /\ checkPc = "lost" /\ held' = held \ Having("lost")
        /\ lostRoots' = lostRoots \cup (held \cap Having("lost"))
        /\ UNCHANGED <<failedChecks, failedReads, toCheck, results, reads>>
    BY <1>5 DEF PersistLost
  <2>2. Having("lost") \subseteq saidLost
    BY DEF Having, ChecksInv, OutcomesInPlace
  <2>3. CheckTypes'
    BY <1>1, <2>1 DEF ChecksInv, CheckTypes
  <2>4. OutcomesInPlace'
    BY <1>2, <2>1 DEF ChecksInv, OutcomesInPlace
  <2>5. LostStaysLost' /\ LossIsObserved'
    BY <1>1, <1>2, <2>1, <2>2 DEF LostStaysLost, LossIsObserved
  <2> QED BY <2>3, <2>4, <2>5 DEF ChecksInv
<1>6. CASE PersistFailed
  <2>1. PICK R : R = Having("failed") \cap held
    OBVIOUS
  <2>2. /\ checkPc = "failed" /\ checkPc' = "success"
        /\ failedChecks' = [r \in Roots |-> IF r \in R /\ failedChecks[r] < MaxFailedChecks
                                            THEN failedChecks[r] + 1 ELSE failedChecks[r]]
        /\ UNCHANGED <<held, lostRoots, failedReads, toCheck, results, reads>>
    BY <1>6, <2>1 DEF PersistFailed
  <2>3. \A q \in R : failedReads[q] = MaxFailedChecks \/ failedChecks[q] < failedReads[q]
    BY <2>1, <2>2 DEF Having, ChecksInv, OutcomesInPlace
  <2>4. \A q \in Roots : failedChecks'[q] \in 0..MaxFailedChecks /\ failedChecks'[q] <= failedReads[q]
    <3> SUFFICES ASSUME NEW q \in Roots
                 PROVE  failedChecks'[q] \in 0..MaxFailedChecks /\ failedChecks'[q] <= failedReads[q]
      OBVIOUS
    <3>1. PICK a, b : a = failedChecks[q] /\ b = failedReads[q]
      OBVIOUS
    <3>2. a \in 0..MaxFailedChecks /\ b \in 0..MaxFailedChecks /\ a <= b
      BY <1>1, <3>1
    <3>3. q \in R => b = MaxFailedChecks \/ a < b
      BY <2>3, <3>1
    <3>4. failedChecks'[q] = IF q \in R /\ a < MaxFailedChecks THEN a + 1 ELSE a
      BY <2>2, <3>1
    <3> QED BY <1>1, <3>1, <3>2, <3>3, <3>4
  <2>5. failedChecks' \in [Roots -> 0..MaxFailedChecks]
    BY <2>2, <2>4
  <2>6. CheckTypes' /\ LostStaysLost' /\ LossIsObserved'
    BY <1>1, <1>2, <2>2, <2>4, <2>5 DEF ChecksInv, CheckTypes, LostStaysLost, LossIsObserved
  <2>7. OutcomesInPlace'
    BY <1>2, <2>2 DEF ChecksInv, OutcomesInPlace
  <2> QED BY <2>6, <2>7 DEF ChecksInv
<1>7. CASE PersistSuccess
  <2>1. PICK R : R = Having("success") \cap held
    OBVIOUS
  <2>2. /\ checkPc' = "failing"
        /\ failedChecks' = [r \in Roots |-> IF r \in R THEN 0 ELSE failedChecks[r]]
        /\ failedReads' = [r \in Roots |-> IF r \in R THEN 0 ELSE failedReads[r]]
        /\ UNCHANGED <<held, lostRoots, toCheck, results, reads>>
    BY <1>7, <2>1 DEF PersistSuccess
  <2>3. /\ failedChecks' \in [Roots -> 0..MaxFailedChecks]
        /\ failedReads' \in [Roots -> 0..MaxFailedChecks]
        /\ \A q \in Roots : failedChecks'[q] <= failedReads'[q]
    BY <1>1, <2>2
  <2>4. \A q \in lostRoots : failedReads'[q] = failedReads[q]
    BY <1>1, <2>1, <2>2
  <2>5. CheckTypes' /\ LostStaysLost' /\ LossIsObserved'
    BY <1>1, <1>2, <2>2, <2>3, <2>4 DEF ChecksInv, CheckTypes, LostStaysLost, LossIsObserved
  <2>6. OutcomesInPlace'
    BY <1>2, <2>2 DEF ChecksInv, OutcomesInPlace
  <2> QED BY <2>5, <2>6 DEF ChecksInv
<1>8. CASE PersistFailing
  <2>1. PICK R : R = {r \in held : failedChecks[r] >= MaxFailedChecks}
    OBVIOUS
  <2>2. /\ held' = held \ R /\ lostRoots' = lostRoots \cup R
        /\ UNCHANGED <<failedChecks, failedReads>>
        /\ checkPc' \in {"idle", "claim"}
        /\ UNCHANGED <<toCheck, results, reads>> \/ (toCheck' = <<>> /\ results' = <<>> /\ reads' = 0)
    BY <1>8, <2>1 DEF PersistFailing, HostDone
  <2>3. \A q \in R : q \in Roots /\ failedReads[q] >= MaxFailedChecks
    BY <1>1, <2>1
  <2>4. LostStaysLost' /\ LossIsObserved'
    BY <1>1, <1>2, <2>2, <2>3 DEF LostStaysLost, LossIsObserved
  <2>5. CheckTypes' /\ OutcomesInPlace'
    <3>1. CASE UNCHANGED <<toCheck, results, reads>>
      BY <1>1, <1>2, <2>2, <2>3, <3>1 DEF ChecksInv, CheckTypes, OutcomesInPlace
    <3>2. CASE toCheck' = <<>> /\ results' = <<>> /\ reads' = 0
      BY <1>1, <2>2, <2>3, <3>2, NoResults DEF ChecksInv, CheckTypes, OutcomesInPlace
    <3> QED BY <2>2, <3>1, <3>2
  <2> QED BY <2>4, <2>5 DEF ChecksInv
<1> QED BY <1>5, <1>6, <1>7, <1>8

(* Every step keeps the invariant.                                          *)
LEMMA ChecksNextHolds == ChecksInv /\ [ChecksNext]_checkVars => ChecksInv'
BY QuietSteps, VerifyStep, PersistSteps DEF ChecksNext, CheckSteps

(* The invariant behind the theorem.                                        *)
THEOREM ChecksInvariance == ChecksSpec => []ChecksInv
BY ChecksInitHolds, ChecksNextHolds, PTL DEF ChecksSpec

(* However checks are interrupted, claimed again or stored in part, a       *)
(* sector is only taken from its host for what the host said or failed to   *)
(* prove about this sector (performIntegrityChecksForHost); for any number  *)
(* of sectors, batch size and limit.                                        *)
THEOREM LossesAreObserved == ChecksSpec => []LossIsObserved
<1>1. ChecksInv => LossIsObserved
  BY DEF ChecksInv
<1> QED BY <1>1, ChecksInvariance, PTL
=============================================================================
