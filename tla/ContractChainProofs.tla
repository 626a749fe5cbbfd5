------------------------- MODULE ContractChainProofs -------------------------
(***************************************************************************)
(* Proofs that the rows of contracts follow the scanned chain: what a      *)
(* chain's blocks say of a contract, what reverting or applying one of     *)
(* them does to its row, the blocks of a batch one after the other, and    *)
(* the inductive invariant of ContractChain.                               *)
(***************************************************************************)
EXTENDS ContractChain, FiniteSetTheorems, SequenceTheorems, WellFoundedInduction, TLAPS

(***************************************************************************)
(* The inductive invariant                                                 *)
(***************************************************************************)
(* The blocks there can be.                                                 *)
Kinds == {"none", "create", "revise", "resolve", "renew"}
Blocks ==
    {b \in [kind : Kinds, contract : Contracts \cup {NULL}, rev : 0..MaxRev] :
        /\ b.kind # "none" => b.contract \in Contracts
        /\ b.kind = "create" => b.contract \notin Renewals /\ b.rev = 0
        /\ b.kind = "revise" => b.rev < MaxRev
        /\ b.kind = "renew" => b.contract \in DOMAIN Renewal}

Creates(b, c) == \/ b.kind = "create" /\ b.contract = c
                 \/ b.kind = "renew" /\ Renewal[b.contract] = c
Revises(b, c) == b.kind = "revise" /\ b.contract = c
Renews(b, c)  == b.kind = "renew" /\ b.contract = c
Ends(b, c)    == b.kind \in {"resolve", "renew"} /\ b.contract = c

(* What the first n blocks of a chain say of a contract.                    *)
CreatedAt(s, n, c) == \E i \in 1..n : Creates(s[i], c)
EndedAt(s, n, c)   == \E i \in 1..n : Ends(s[i], c)
RenewedAt(s, n, c) == \E i \in 1..n : Renews(s[i], c)
OpenAt(s, n, c)    == CreatedAt(s, n, c) /\ ~EndedAt(s, n, c)
RevisedAt(s, n, c) == {i \in 1..n : Revises(s[i], c)}
RevAt(s, n, c)     == Cardinality(RevisedAt(s, n, c))

(* Consensus: a contract is created once, and revised and resolved from its *)
(* creation to its resolution; the revisions are bounded.                   *)
Fits(s, n) ==
    /\ \A c \in Contracts : Creates(s[n], c) => ~CreatedAt(s, n - 1, c)
    /\ \A c \in Contracts : Revises(s[n], c) \/ Ends(s[n], c) =>
          OpenAt(s, n - 1, c) /\ s[n].rev = RevAt(s, n - 1, c)
    /\ \A c \in Contracts : RevAt(s, n, c) <= MaxRev
Sane(s) == s \in Seq(Blocks) /\ Len(s) <= MaxHeight /\ \A n \in 1..Len(s) : Fits(s, n)

(* A row agrees with the first n blocks of a chain.                         *)
RowOK(row, s, n, c, att) ==
    /\ row.state = "active" <=> OpenAt(s, n, c)
    /\ row.state = "resolved" <=> EndedAt(s, n, c)
    /\ row.elem # NoElement => OpenAt(s, n, c) /\ row.elem = Element(RevAt(s, n, c), n)
    /\ row.state = "active" /\ row.elem = NoElement => c \in att \/ row.renewed

(* Rows come after announcements, and a contract before its renewal.        *)
KnownInv ==
    /\ \A c \in Contracts : db[c].known => c \in announced \ creating
    /\ \A c \in DOMAIN Renewal : Renewal[c] \in announced => db[c].known

RowsInv ==
    /\ \A c \in Attached : RowOK(db[c], scanned, Len(scanned), c, tried)
    /\ \A c \in DOMAIN Renewal :
          db[c].known /\ db[Renewal[c]].known /\ RenewedAt(scanned, Len(scanned), c) => db[c].renewed

(* Between broadcast and prune everything due was broadcast.                *)
DueInv ==
    phase = "prune" => \A c \in Attached :
        db[c].state = "active" /\ db[c].elem # NoElement /\ ExpiredFor(c, BroadcastBuffer) =>
            c \in tried \/ db[c].renewed

ChainInv == TypeOK /\ Sane(chain) /\ Sane(scanned) /\ KnownInv /\ RowsInv /\ DueInv

-----------------------------------------------------------------------------
(***************************************************************************)
(* Numbers and sequences                                                   *)
(***************************************************************************)
(* A set of numbers has a least one: what the inductions below rest on.     *)
LEMMA LeastNat ==
    ASSUME NEW T, T \subseteq Nat, T # {} PROVE \E n \in T : \A k \in T : n <= k
<1>1. PICK n \in T : \A k \in T : ~(<<k, n>> \in OpToRel(<, Nat))
  BY NatLessThanWellFounded, WFMin, Zenon
<1>2. \A k \in T : ~(k < n)
  BY <1>1 DEF OpToRel
<1> QED BY <1>2

(* The smaller of two numbers.                                              *)
LEMMA MinOfTwo ==
    ASSUME NEW a \in Int, NEW b \in Int PROVE Min({a, b}) = IF a <= b THEN a ELSE b
BY DEF Min

(* The first n elements of a sequence.                                      *)
LEMMA FirstElements ==
    ASSUME NEW S, NEW s \in Seq(S), NEW n \in 0..Len(s)
    PROVE  /\ SubSeq(s, 1, n) \in Seq(S) /\ Len(SubSeq(s, 1, n)) = n
           /\ \A i \in 1..n : SubSeq(s, 1, n)[i] = s[i]
<1>1. Len(s) \in Nat
  BY LenProperties
<1>2. CASE n = 0
  <2>1. SubSeq(s, 1, n) = <<>>
    BY <1>2
  <2> QED BY <1>2, <2>1
<1>3. CASE n > 0
  <2>1. 1 \in 1..Len(s) /\ n \in 1..Len(s)
    BY <1>1, <1>3
  <2>2. \A i \in 1..n : s[i] \in S
    BY <1>1, ElementOfSeq
  <2> QED BY <1>1, <1>3, <2>1, <2>2
<1> QED BY <1>1, <1>2, <1>3

-----------------------------------------------------------------------------
(***************************************************************************)
(* What blocks say of contracts                                            *)
(***************************************************************************)
(* The fields of a block.                                                   *)
LEMMA BlockFacts ==
    ASSUME NEW b \in Blocks
    PROVE  /\ b.kind \in Kinds /\ b.rev \in 0..MaxRev
           /\ b = [kind |-> b.kind, contract |-> b.contract, rev |-> b.rev]
           /\ b.kind # "none" => b.contract \in Contracts
           /\ b.kind = "create" => b.contract \notin Renewals /\ b.rev = 0
           /\ b.kind = "revise" => b.rev < MaxRev
           /\ b.kind = "renew" => /\ b.contract \in DOMAIN Renewal
                                  /\ Renewal[b.contract] \in Contracts \ {b.contract}
                                  /\ Renewal[b.contract] \in Renewals
BY ConstantsAssumption DEF Blocks, Renewals

(* A block has at most one diff of a contract.                              *)
LEMMA DiffsOfContract ==
    ASSUME NEW b \in Blocks, NEW c \in Contracts
    PROVE  LET diffs == {d \in Diffs(b) : d.contract = c}
           IN  /\ Creates(b, c) => diffs = {Diff("create", c, 0)} /\ ~Revises(b, c) /\ ~Ends(b, c)
               /\ Revises(b, c) => diffs = {Diff("revise", c, b.rev)} /\ ~Ends(b, c)
               /\ Ends(b, c) => diffs = {Diff(b.kind, c, b.rev)}
               /\ ~Creates(b, c) /\ ~Revises(b, c) /\ ~Ends(b, c) => diffs = {}
<1> DEFINE diffs == {d \in Diffs(b) : d.contract = c}
<1>1. CASE b.kind = "none"
  <2>1. Diffs(b) = {}
    BY <1>1 DEF Diffs
  <2> QED BY <1>1, <2>1 DEF Creates, Revises, Ends
<1>2. CASE b.kind = "renew"
  <2>1. Diffs(b) = {Diff("renew", b.contract, b.rev), Diff("create", Renewal[b.contract], 0)}
    BY <1>2 DEF Diffs
  <2>2. Renewal[b.contract] # b.contract
    BY <1>2, BlockFacts
  <2>3. /\ Diff("renew", b.contract, b.rev).contract = b.contract
        /\ Diff("create", Renewal[b.contract], 0).contract = Renewal[b.contract]
    BY DEF Diff
  <2> QED BY <1>2, <2>1, <2>2, <2>3 DEF Creates, Revises, Ends
<1>3. CASE b.kind \in {"create", "revise", "resolve"}
  <2>1. Diffs(b) = {Diff(b.kind, b.contract, b.rev)}
    BY <1>3 DEF Diffs
  <2>2. Diff(b.kind, b.contract, b.rev).contract = b.contract
    BY DEF Diff
  <2>3. b.kind = "create" => b.rev = 0
    BY BlockFacts
  <2> QED BY <1>3, <2>1, <2>2, <2>3 DEF Creates, Revises, Ends
<1> QED BY <1>1, <1>2, <1>3, BlockFacts DEF Kinds

(* The creation is the diff that UpdateChainState looks for.                *)
LEMMA CreateDiff ==
    ASSUME NEW b \in Blocks, NEW c \in Contracts
    PROVE  Creates(b, c) <=> Diff("create", c, 0) \in Diffs(b)
<1> DEFINE diffs == {d \in Diffs(b) : d.contract = c}
           d0 == Diff("create", c, 0)
<1>1. d0.contract = c /\ d0.kind = "create"
  BY DEF Diff
<1>2. d0 \in Diffs(b) <=> d0 \in diffs
  BY <1>1
<1>3. Diff("revise", c, b.rev).kind = "revise" /\ Diff(b.kind, c, b.rev).kind = b.kind
  BY DEF Diff
<1>4. Revises(b, c) => d0 # Diff("revise", c, b.rev)
  BY <1>1, <1>3
<1>5. Ends(b, c) => d0 # Diff(b.kind, c, b.rev)
  BY <1>1, <1>3 DEF Ends
<1> QED BY <1>2, <1>4, <1>5, DiffsOfContract

(* The chain's words in terms of its blocks.                                *)
LEMMA ChainWords ==
    ASSUME NEW s \in Seq(Blocks), NEW c \in Contracts
    PROVE  /\ Created(s, c) <=> CreatedAt(s, Len(s), c)
           /\ Resolved(s, c) <=> EndedAt(s, Len(s), c)
           /\ Has(s, c, {"renew"}) <=> RenewedAt(s, Len(s), c)
           /\ Open(s, c) <=> OpenAt(s, Len(s), c)
           /\ RevisionNumber(s, c) = RevAt(s, Len(s), c)
<1>1. DOMAIN s = 1..Len(s) /\ \A i \in 1..Len(s) : s[i] \in Blocks
  BY LenProperties, ElementOfSeq
<1>2. ASSUME NEW i \in 1..Len(s)
      PROVE  /\ (\E d \in Diffs(s[i]) : d.contract = c /\ d.kind \in {"create"}) <=> Creates(s[i], c)
             /\ (\E d \in Diffs(s[i]) : d.contract = c /\ d.kind \in {"resolve", "renew"}) <=> Ends(s[i], c)
             /\ (\E d \in Diffs(s[i]) : d.contract = c /\ d.kind \in {"renew"}) <=> Renews(s[i], c)
  <2> DEFINE b == s[i]
             diffs == {d \in Diffs(b) : d.contract = c}
  <2>1. b \in Blocks
    BY <1>1
  <2> HIDE DEF b
  <2>2. \A K : (\E d \in Diffs(b) : d.contract = c /\ d.kind \in K) <=> (\E d \in diffs : d.kind \in K)
    OBVIOUS
  <2>3. \A k, r : Diff(k, c, r).kind = k
    BY DEF Diff
  <2>4. CASE Creates(b, c)
    <3>1. diffs = {Diff("create", c, 0)} /\ ~Ends(b, c)
      BY <2>1, <2>4, DiffsOfContract
    <3>2. ~Renews(b, c)
      BY <3>1 DEF Renews, Ends
    <3> QED BY <2>2, <2>3, <2>4, <3>1, <3>2 DEF b
  <2>5. CASE Revises(b, c)
    <3>1. diffs = {Diff("revise", c, b.rev)} /\ ~Ends(b, c) /\ ~Creates(b, c)
      BY <2>1, <2>5, DiffsOfContract
    <3>2. ~Renews(b, c)
      BY <3>1 DEF Renews, Ends
    <3> QED BY <2>2, <2>3, <3>1, <3>2 DEF b
  <2>6. CASE Ends(b, c)
    <3>1. diffs = {Diff(b.kind, c, b.rev)} /\ ~Creates(b, c)
      BY <2>1, <2>6, DiffsOfContract
    <3>2. Renews(b, c) <=> b.kind = "renew"
      BY <2>6 DEF Renews, Ends
    <3>3. b.kind \in {"resolve", "renew"}
      BY <2>6 DEF Ends
    <3> QED BY <2>2, <2>3, <2>6, <3>1, <3>2, <3>3 DEF b
  <2>7. CASE ~Creates(b, c) /\ ~Revises(b, c) /\ ~Ends(b, c)
    <3>1. diffs = {} /\ ~Renews(b, c)
      BY <2>1, <2>7, DiffsOfContract DEF Renews, Ends
    <3> QED BY <2>2, <2>7, <3>1 DEF b
  <2> QED BY <2>4, <2>5, <2>6, <2>7
<1>3. Created(s, c) <=> CreatedAt(s, Len(s), c)
  BY <1>1, <1>2 DEF Created, CreatedAt, Has
<1>4. Resolved(s, c) <=> EndedAt(s, Len(s), c)
  BY <1>1, <1>2 DEF Resolved, EndedAt, Has
<1>5. Has(s, c, {"renew"}) <=> RenewedAt(s, Len(s), c)
  BY <1>1, <1>2 DEF RenewedAt, Has
<1>6. RevisionNumber(s, c) = RevAt(s, Len(s), c)
  BY <1>1 DEF RevisionNumber, RevAt, RevisedAt, Revises
<1> QED BY <1>3, <1>4, <1>5, <1>6 DEF Open, OpenAt

-----------------------------------------------------------------------------
(***************************************************************************)
(* Chains                                                                  *)
(***************************************************************************)
(* One block more.                                                          *)
LEMMA OneMore ==
    ASSUME NEW s, NEW n \in Nat \ {0}, NEW c
    PROVE  /\ CreatedAt(s, n, c) <=> CreatedAt(s, n - 1, c) \/ Creates(s[n], c)
           /\ EndedAt(s, n, c) <=> EndedAt(s, n - 1, c) \/ Ends(s[n], c)
           /\ RenewedAt(s, n, c) <=> RenewedAt(s, n - 1, c) \/ Renews(s[n], c)
           /\ RevAt(s, n - 1, c) \in Nat
           /\ RevAt(s, n, c) = IF Revises(s[n], c) THEN RevAt(s, n - 1, c) + 1 ELSE RevAt(s, n - 1, c)
<1>1. 1..n = (1..(n - 1)) \cup {n} /\ n \notin 1..(n - 1)
  OBVIOUS
<1>2. /\ CreatedAt(s, n, c) <=> CreatedAt(s, n - 1, c) \/ Creates(s[n], c)
      /\ EndedAt(s, n, c) <=> EndedAt(s, n - 1, c) \/ Ends(s[n], c)
      /\ RenewedAt(s, n, c) <=> RenewedAt(s, n - 1, c) \/ Renews(s[n], c)
  BY <1>1 DEF CreatedAt, EndedAt, RenewedAt
<1>3. IsFiniteSet(RevisedAt(s, n - 1, c))
  <2>1. IsFiniteSet(1..(n - 1)) /\ RevisedAt(s, n - 1, c) \subseteq 1..(n - 1)
    BY FS_Interval DEF RevisedAt
  <2> QED BY <2>1, FS_Subset
<1>4. n \notin RevisedAt(s, n - 1, c)
  BY <1>1 DEF RevisedAt
<1>5. RevisedAt(s, n, c) = IF Revises(s[n], c) THEN RevisedAt(s, n - 1, c) \cup {n}
                           ELSE RevisedAt(s, n - 1, c)
  BY <1>1 DEF RevisedAt
<1>6. RevAt(s, n - 1, c) \in Nat
  BY <1>3, FS_CardinalityType DEF RevAt
<1>7. CASE Revises(s[n], c)
  BY <1>2, <1>3, <1>4, <1>5, <1>6, <1>7, FS_AddElement DEF RevAt
<1>8. CASE ~Revises(s[n], c)
  BY <1>2, <1>5, <1>6, <1>8 DEF RevAt
<1> QED BY <1>7, <1>8

(* Chains with the same blocks say the same.                                *)
LEMMA SameBlocks ==
    ASSUME NEW s, NEW t, NEW n \in Nat, \A i \in 1..n : s[i] = t[i], NEW c
    PROVE  /\ CreatedAt(s, n, c) <=> CreatedAt(t, n, c)
           /\ EndedAt(s, n, c) <=> EndedAt(t, n, c)
           /\ RenewedAt(s, n, c) <=> RenewedAt(t, n, c)
           /\ OpenAt(s, n, c) <=> OpenAt(t, n, c)
           /\ RevAt(s, n, c) = RevAt(t, n, c)
<1>1. /\ CreatedAt(s, n, c) <=> CreatedAt(t, n, c)
      /\ EndedAt(s, n, c) <=> EndedAt(t, n, c)
      /\ RenewedAt(s, n, c) <=> RenewedAt(t, n, c)
  BY DEF CreatedAt, EndedAt, RenewedAt
<1>2. RevisedAt(s, n, c) = RevisedAt(t, n, c)
  BY DEF RevisedAt
<1> QED BY <1>1, <1>2 DEF OpenAt, RevAt

(* Nothing happens to a contract before its creation.                       *)
LEMMA UncreatedIsQuiet ==
    ASSUME NEW s, Sane(s), NEW n \in 0..Len(s), NEW c \in Contracts, ~CreatedAt(s, n, c)
    PROVE  /\ ~OpenAt(s, n, c) /\ ~EndedAt(s, n, c) /\ ~RenewedAt(s, n, c)
           /\ RevAt(s, n, c) = 0
<1>1. Len(s) \in Nat
  BY LenProperties DEF Sane
<1>2. \A i \in 1..n : ~Ends(s[i], c) /\ ~Revises(s[i], c)
  <2> SUFFICES ASSUME NEW i \in 1..n, Ends(s[i], c) \/ Revises(s[i], c) PROVE FALSE
    OBVIOUS
  <2>1. i \in 1..Len(s) /\ \A k \in 1..(i - 1) : k \in 1..n
    BY <1>1
  <2>2. CreatedAt(s, i - 1, c)
    BY <2>1 DEF Sane, Fits, OpenAt
  <2> QED BY <2>1, <2>2 DEF CreatedAt
<1>3. \A i \in 1..n : ~Renews(s[i], c)
  BY <1>2 DEF Renews, Ends
<1>4. RevisedAt(s, n, c) = {}
  BY <1>2 DEF RevisedAt
<1>5. RevAt(s, n, c) = 0
  BY <1>4, FS_EmptySet DEF RevAt
<1> QED BY <1>2, <1>3, <1>5 DEF OpenAt, EndedAt, RenewedAt

(* A contract is open only on a chain with blocks.                          *)
LEMMA OpenAfterFirst ==
    ASSUME NEW s, NEW c, NEW n \in Nat, OpenAt(s, n, c) PROVE n > 0
BY DEF OpenAt, CreatedAt

(* A part of a chain from its start.                                        *)
LEMMA SanePart ==
    ASSUME NEW s, Sane(s), NEW t \in Seq(Blocks), Len(t) <= Len(s), \A i \in 1..Len(t) : s[i] = t[i]
    PROVE  Sane(t)
<1>1. Len(s) \in Nat /\ Len(t) \in Nat /\ MaxHeight \in Nat /\ Len(t) <= MaxHeight
  BY LenProperties, ConstantsAssumption DEF Sane
<1>2. ASSUME NEW n \in 1..Len(t) PROVE Fits(t, n)
  <2>1. n - 1 \in Nat /\ n \in 1..Len(s) /\ s[n] = t[n] /\ \A i \in 1..(n - 1) : s[i] = t[i]
    BY <1>1
  <2>2. \A c \in Contracts : /\ CreatedAt(s, n - 1, c) <=> CreatedAt(t, n - 1, c)
                             /\ OpenAt(s, n - 1, c) <=> OpenAt(t, n - 1, c)
                             /\ RevAt(s, n - 1, c) = RevAt(t, n - 1, c)
    BY <2>1, SameBlocks
  <2>3. Fits(s, n)
    BY <2>1 DEF Sane
  <2>4. n \in Nat /\ \A i \in 1..n : s[i] = t[i]
    BY <1>1
  <2>5. \A c \in Contracts : RevAt(s, n, c) = RevAt(t, n, c)
    BY <2>4, SameBlocks
  <2> QED BY <2>1, <2>2, <2>3, <2>5 DEF Fits
<1> QED BY <1>1, <1>2 DEF Sane

(* A renewal is created by the block that resolves the renewed contract.    *)
LEMMA RenewalAfterRenewed ==
    ASSUME NEW s, Sane(s), NEW c \in DOMAIN Renewal, CreatedAt(s, Len(s), Renewal[c])
    PROVE  EndedAt(s, Len(s), c)
<1>1. PICK i \in 1..Len(s) : Creates(s[i], Renewal[c])
  BY DEF CreatedAt
<1>2. s[i] \in Blocks
  BY ElementOfSeq, LenProperties DEF Sane
<1>3. Renewal[c] \in Renewals
  BY DEF Renewals
<1>4. s[i].kind = "renew" /\ Renewal[s[i].contract] = Renewal[c] /\ s[i].contract \in DOMAIN Renewal
  BY <1>1, <1>2, <1>3, BlockFacts DEF Creates
<1>5. s[i].contract = c
  BY <1>4, ConstantsAssumption
<1> QED BY <1>4, <1>5 DEF EndedAt, Ends

(* Revision numbers stay within their bound.                                *)
LEMMA RevisionsBounded ==
    ASSUME NEW s, Sane(s), NEW n \in 0..Len(s), NEW c \in Contracts
    PROVE  RevAt(s, n, c) \in 0..MaxRev
<1>1. MaxRev \in Nat /\ Len(s) \in Nat
  BY ConstantsAssumption, LenProperties DEF Sane
<1>2. CASE n = 0
  <2>1. RevisedAt(s, n, c) = {}
    BY <1>2 DEF RevisedAt
  <2> QED BY <1>1, <2>1, FS_EmptySet DEF RevAt
<1>3. CASE n > 0
  <2>1. n \in 1..Len(s) /\ IsFiniteSet(1..n) /\ RevisedAt(s, n, c) \subseteq 1..n
    BY <1>1, <1>3, FS_Interval DEF RevisedAt
  <2>2. RevAt(s, n, c) \in Nat
    BY <2>1, FS_Subset, FS_CardinalityType DEF RevAt
  <2>3. RevAt(s, n, c) <= MaxRev
    BY <2>1 DEF Sane, Fits
  <2> QED BY <1>1, <2>2, <2>3
<1> QED BY <1>1, <1>2, <1>3

(* The blocks consensus allows keep a chain sane.                           *)
LEMMA SaneNext ==
    ASSUME NEW s, Sane(s), Len(s) < MaxHeight, announced \subseteq Contracts, NEW b \in ValidBlocks(s)
    PROVE  Sane(Append(s, b))
<1> DEFINE n == Len(s)
           t == Append(s, b)
<1>1. s \in Seq(Blocks) /\ n \in Nat /\ n \in 0..n /\ MaxRev \in Nat /\ MaxHeight \in Nat
  BY LenProperties, ConstantsAssumption DEF Sane
<1>2. \A c \in Contracts : /\ Created(s, c) <=> CreatedAt(s, n, c)
                           /\ Open(s, c) <=> OpenAt(s, n, c)
                           /\ RevisionNumber(s, c) = RevAt(s, n, c)
  BY <1>1, ChainWords
<1>3. \A c \in Contracts : RevAt(s, n, c) \in 0..MaxRev
  BY <1>1, RevisionsBounded
<1>4. \/ b = Block("none", NULL, 0)
      \/ \E c \in announced \ Renewals :
            ~CreatedAt(s, n, c) /\ b = Block("create", c, RevAt(s, n, c))
      \/ \E c \in Contracts : \E kind \in {"revise", "renew", "resolve"} :
            /\ OpenAt(s, n, c) /\ b = Block(kind, c, RevAt(s, n, c))
            /\ kind = "revise" => RevAt(s, n, c) < MaxRev
            /\ kind = "renew" => c \in DOMAIN Renewal
  BY <1>2 DEF ValidBlocks
<1>5. \A c \in Contracts : ~CreatedAt(s, n, c) => RevAt(s, n, c) = 0
  BY <1>1, UncreatedIsQuiet
<1>6. b \in Blocks
  BY <1>1, <1>3, <1>4, <1>5 DEF Blocks, Block, Kinds
<1>7. \A c \in Contracts : Creates(b, c) => ~CreatedAt(s, n, c)
  <2> SUFFICES ASSUME NEW c \in Contracts, Creates(b, c), CreatedAt(s, n, c) PROVE FALSE
    OBVIOUS
  <2>1. b.kind = "renew" /\ b.contract \in DOMAIN Renewal /\ Renewal[b.contract] = c
    BY <1>4, <1>6, BlockFacts DEF Creates, Block
  <2>2. OpenAt(s, n, b.contract)
    BY <1>4, <2>1 DEF Block
  <2> QED BY <2>1, <2>2, RenewalAfterRenewed DEF OpenAt
<1>8. \A c \in Contracts : Revises(b, c) \/ Ends(b, c) =>
          /\ OpenAt(s, n, c) /\ b.rev = RevAt(s, n, c)
          /\ Revises(b, c) => RevAt(s, n, c) < MaxRev
  BY <1>4 DEF Block, Revises, Ends
<1>9. t \in Seq(Blocks) /\ Len(t) = n + 1 /\ t[n + 1] = b /\ \A i \in 1..n : t[i] = s[i]
  BY <1>1, <1>6, AppendProperties
<1> HIDE DEF t
<1>10. ASSUME NEW m \in 1..Len(t) PROVE Fits(t, m)
  <2>1. m - 1 \in Nat /\ m \in Nat \ {0} /\ \A i \in 1..(m - 1) : s[i] = t[i]
    BY <1>1, <1>9
  <2>2. \A c \in Contracts : /\ CreatedAt(s, m - 1, c) <=> CreatedAt(t, m - 1, c)
                             /\ OpenAt(s, m - 1, c) <=> OpenAt(t, m - 1, c)
                             /\ RevAt(s, m - 1, c) = RevAt(t, m - 1, c)
    BY <2>1, SameBlocks
  <2>3. CASE m = n + 1
    <3>1. t[m] = b /\ m - 1 = n
      BY <1>1, <1>9, <2>3
    <3>2. \A c \in Contracts : RevAt(t, m, c) =
              IF Revises(b, c) THEN RevAt(s, n, c) + 1 ELSE RevAt(s, n, c)
      BY <2>1, <2>2, <3>1, OneMore
    <3>3. \A c \in Contracts : RevAt(t, m, c) <= MaxRev
      BY <1>1, <1>3, <1>8, <3>2
    <3> QED BY <1>7, <1>8, <2>2, <3>1, <3>3 DEF Fits
  <2>4. CASE m <= n
    <3>1. m \in 1..n /\ t[m] = s[m] /\ m \in Nat /\ \A i \in 1..m : t[i] = s[i]
      BY <1>1, <1>9, <2>4
    <3>2. \A c \in Contracts : RevAt(s, m, c) = RevAt(t, m, c)
      BY <3>1, SameBlocks
    <3>3. Fits(s, m)
      BY <3>1 DEF Sane
    <3> QED BY <2>2, <3>1, <3>2, <3>3 DEF Fits
  <2> QED BY <1>1, <1>9, <2>3, <2>4
<1>11. Len(t) <= MaxHeight
  BY <1>1, <1>9
<1>12. Sane(t)
  BY <1>9, <1>10, <1>11 DEF Sane
<1> QED BY <1>12 DEF t

-----------------------------------------------------------------------------
(***************************************************************************)
(* Rows                                                                    *)
(***************************************************************************)
Rows == [known : BOOLEAN, state : States, renewed : BOOLEAN,
         elem : [rev : 0..MaxRev, basis : 0..Garbage]]

(* A block reverted or applied.                                             *)
Update(b, from, to) == [block |-> b, from |-> from, to |-> to]

(* Elements that rows can hold.                                             *)
LEMMA ElementTypes ==
    ASSUME NEW r \in 0..MaxRev, NEW h \in 0..Garbage
    PROVE  Element(r, h) \in [rev : 0..MaxRev, basis : 0..Garbage]
BY DEF Element

(* An element above height zero is not the missing one.                     *)
LEMMA ElementFacts ==
    /\ NoElement \in [rev : 0..MaxRev, basis : 0..Garbage] /\ Garbage \in 0..Garbage
    /\ \A h \in 0..MaxHeight : h \in 0..Garbage
    /\ \A r, h : Element(r, h).rev = r /\ Element(r, h).basis = h
    /\ \A r, h : h # 0 => Element(r, h) # NoElement
BY ConstantsAssumption DEF Element, NoElement, Garbage

(* What writing a row does to its fields.                                   *)
LEMMA SetElement ==
    ASSUME NEW row \in Rows, NEW e \in [rev : 0..MaxRev, basis : 0..Garbage], NEW r,
           r = [row EXCEPT !.elem = e]
    PROVE  /\ r \in Rows /\ r.known = row.known /\ r.renewed = row.renewed
           /\ r.state = row.state /\ r.elem = e
BY DEF Rows

LEMMA SetState ==
    ASSUME NEW row \in Rows, NEW st \in States, NEW e \in [rev : 0..MaxRev, basis : 0..Garbage],
           NEW r, r = [known |-> row.known, state |-> st, renewed |-> row.renewed, elem |-> e]
    PROVE  /\ r \in Rows /\ r.known = row.known /\ r.renewed = row.renewed
           /\ r.state = st /\ r.elem = e
BY DEF Rows

LEMMA SetRenewed ==
    ASSUME NEW row \in Rows, NEW st \in States, NEW e \in [rev : 0..MaxRev, basis : 0..Garbage],
           NEW w \in BOOLEAN, NEW r,
           r = [known |-> row.known, state |-> st, renewed |-> w, elem |-> e]
    PROVE  /\ r \in Rows /\ r.known = row.known /\ r.renewed = w
           /\ r.state = st /\ r.elem = e
BY DEF Rows

(* A block about another contract.                                          *)
LEMMA UpdateOther ==
    ASSUME NEW b \in Blocks, NEW c \in Contracts, NEW row \in Rows,
           NEW from \in 0..MaxHeight, NEW to \in 0..MaxHeight,
           ~Creates(b, c), ~Revises(b, c), ~Ends(b, c), NEW r, r = UpdatedRow(row, c, Update(b, from, to))
    PROVE  /\ r \in Rows /\ r.known = row.known /\ r.state = row.state /\ r.renewed = row.renewed
           /\ r.elem = UpdateElementProof(row.elem, from, to)
<1> DEFINE u == Update(b, from, to)
<1>1. u.block = b /\ u.from = from /\ u.to = to
  BY DEF Update
<1>2. {d \in Diffs(b) : d.contract = c} = {}
  BY DiffsOfContract
<1>3. r = [row EXCEPT !.elem = UpdateElementProof(@, from, to)]
  BY <1>1, <1>2 DEF UpdatedRow
<1>4. UpdateElementProof(row.elem, from, to) \in [rev : 0..MaxRev, basis : 0..Garbage]
  BY ElementFacts, ElementTypes DEF UpdateElementProof, Rows
<1> QED BY <1>3, <1>4 DEF Rows

(* A block with a diff of the contract.                                     *)
LEMMA UpdateWithDiff ==
    ASSUME NEW b \in Blocks, NEW c \in Contracts, NEW row, NEW from \in Nat, NEW to \in Nat, NEW d,
           {x \in Diffs(b) : x.contract = c} = {d}
    PROVE  UpdatedRow(row, c, Update(b, from, to)) =
               IF from < to THEN AppliedRow(row, d, to) ELSE RevertedRow(row, d, to)
<1> DEFINE u == Update(b, from, to)
<1>1. u.block = b /\ u.from = from /\ u.to = to
  BY DEF Update
<1>2. (CHOOSE x \in {x \in Diffs(b) : x.contract = c} : TRUE) = d
  OBVIOUS
<1>3. {x \in Diffs(b) : x.contract = c} # {}
  OBVIOUS
<1> QED BY <1>1, <1>2, <1>3 DEF UpdatedRow

(* The block creates the contract.                                          *)
LEMMA UpdateCreates ==
    ASSUME NEW b \in Blocks, NEW c \in Contracts, NEW row \in Rows,
           NEW from \in 0..MaxHeight, NEW to \in 0..MaxHeight, from # to,
           Creates(b, c), NEW r, r = UpdatedRow(row, c, Update(b, from, to))
    PROVE  /\ r \in Rows /\ r.known = row.known /\ r.renewed = row.renewed
           /\ from < to => r.state = "active" /\ r.elem = Element(0, to)
           /\ to < from => r.state = "pending" /\ r.elem = NoElement
<1> DEFINE d == Diff("create", c, 0)
<1>0. (from < to /\ ~(to < from)) \/ (to < from /\ ~(from < to))
  BY ConstantsAssumption
<1>s. {"pending", "active", "resolved"} \subseteq States
  BY DEF States
<1>1. {x \in Diffs(b) : x.contract = c} = {d}
  BY DiffsOfContract
<1>2. d.kind = "create"
  BY DEF Diff
<1>3. Element(0, to) \in [rev : 0..MaxRev, basis : 0..Garbage]
  <2>1. 0 \in 0..MaxRev
    BY ConstantsAssumption
  <2> QED BY <2>1, ElementFacts, ElementTypes
<1>4. r = IF from < to THEN AppliedRow(row, d, to) ELSE RevertedRow(row, d, to)
  <2> HIDE DEF d
  <2>1. from \in Nat /\ to \in Nat
    BY ConstantsAssumption
  <2> QED BY <1>1, <2>1, UpdateWithDiff
<1>5. CASE from < to
  <2>1. r = [known |-> row.known, state |-> "active", renewed |-> row.renewed,
            elem |-> Element(0, to)]
    BY <1>2, <1>4, <1>5 DEF AppliedRow, Rows
  <2>2. ~(to < from)
    BY <1>0, <1>5
  <2> QED BY <1>3, <1>s, <2>1, <2>2, SetState
<1>6. CASE to < from
  <2>1. r = [known |-> row.known, state |-> "pending", renewed |-> row.renewed,
            elem |-> NoElement]
    BY <1>0, <1>2, <1>4, <1>6 DEF RevertedRow, Rows
  <2>2. ~(from < to)
    BY <1>0, <1>6
  <2> QED BY <1>s, <2>1, <2>2, ElementFacts, SetState
<1> QED BY <1>0, <1>5, <1>6

(* The block revises the contract.                                          *)
LEMMA UpdateRevises ==
    ASSUME NEW b \in Blocks, NEW c \in Contracts, NEW row \in Rows,
           NEW from \in 0..MaxHeight, NEW to \in 0..MaxHeight, from # to,
           Revises(b, c), NEW r, r = UpdatedRow(row, c, Update(b, from, to))
    PROVE  /\ r \in Rows /\ r.known = row.known /\ r.renewed = row.renewed /\ r.state = row.state
           /\ from < to => r.elem = Element(b.rev + 1, to)
           /\ to < from => r.elem = Element(b.rev, to)
<1> DEFINE d == Diff("revise", c, b.rev)
<1>0. (from < to /\ ~(to < from)) \/ (to < from /\ ~(from < to))
  BY ConstantsAssumption
<1>1. {x \in Diffs(b) : x.contract = c} = {d}
  BY DiffsOfContract
<1>2. d.kind = "revise" /\ d.rev = b.rev
  BY DEF Diff
<1>3. /\ Element(b.rev, to) \in [rev : 0..MaxRev, basis : 0..Garbage]
      /\ Element(b.rev + 1, to) \in [rev : 0..MaxRev, basis : 0..Garbage]
  <2>1. b.rev \in 0..MaxRev /\ b.rev + 1 \in 0..MaxRev
    BY ConstantsAssumption, BlockFacts DEF Revises
  <2> QED BY <2>1, ElementFacts, ElementTypes
<1>4. r = IF from < to THEN AppliedRow(row, d, to) ELSE RevertedRow(row, d, to)
  <2> HIDE DEF d
  <2>1. from \in Nat /\ to \in Nat
    BY ConstantsAssumption
  <2> QED BY <1>1, <2>1, UpdateWithDiff
<1>5. CASE from < to
  <2>1. r = [row EXCEPT !.elem = Element(b.rev + 1, to)]
    BY <1>2, <1>4, <1>5 DEF AppliedRow
  <2>2. ~(to < from)
    BY <1>0, <1>5
  <2> QED BY <1>3, <2>1, <2>2, SetElement
<1>6. CASE to < from
  <2>1. r = [row EXCEPT !.elem = Element(b.rev, to)]
    BY <1>2, <1>4, <1>6, ConstantsAssumption DEF RevertedRow
  <2>2. ~(from < to)
    BY <1>0, <1>6
  <2> QED BY <1>3, <2>1, <2>2, SetElement
<1> QED BY <1>0, <1>5, <1>6

(* The block resolves or renews the contract.                               *)
LEMMA UpdateEnds ==
    ASSUME NEW b \in Blocks, NEW c \in Contracts, NEW row \in Rows, db \in [Contracts -> Rows],
           NEW from \in 0..MaxHeight, NEW to \in 0..MaxHeight, from # to,
           Ends(b, c), NEW r, r = UpdatedRow(row, c, Update(b, from, to))
    PROVE  /\ r \in Rows /\ r.known = row.known
           /\ from < to => /\ r.state = "resolved" /\ r.elem = NoElement
                           /\ row.renewed => r.renewed
                           /\ b.kind = "renew" /\ db[Renewal[c]].known => r.renewed
           /\ to < from => /\ r.state = "active" /\ r.elem = Element(b.rev, to)
                           /\ b.kind # "renew" => r.renewed = row.renewed
<1> DEFINE d == Diff(b.kind, c, b.rev)
<1>0. (from < to /\ ~(to < from)) \/ (to < from /\ ~(from < to))
  BY ConstantsAssumption
<1>s. {"pending", "active", "resolved"} \subseteq States
  BY DEF States
<1>1. {x \in Diffs(b) : x.contract = c} = {d}
  BY DiffsOfContract
<1>2. d.kind = b.kind /\ d.rev = b.rev /\ d.contract = c /\ b.kind \in {"resolve", "renew"}
  BY DEF Diff, Ends
<1>3. Element(b.rev, to) \in [rev : 0..MaxRev, basis : 0..Garbage]
  BY BlockFacts, ElementFacts, ElementTypes
<1>4. r = IF from < to THEN AppliedRow(row, d, to) ELSE RevertedRow(row, d, to)
  <2> HIDE DEF d
  <2>1. from \in Nat /\ to \in Nat
    BY ConstantsAssumption
  <2> QED BY <1>1, <2>1, UpdateWithDiff
<1> DEFINE k == db[Renewal[c]].known
<1>5. b.kind = "renew" => k \in BOOLEAN
  BY <1>2, BlockFacts DEF Rows, Ends
<1>6. row.renewed \in BOOLEAN
  BY DEF Rows
<1> HIDE DEF k
<1>7. CASE from < to
  <2>1. CASE b.kind = "renew"
    <3>1. r = [known |-> row.known, state |-> "resolved", renewed |-> row.renewed \/ k,
              elem |-> NoElement]
      BY <1>2, <1>4, <1>7, <2>1 DEF AppliedRow, k, Rows
    <3> DEFINE w == row.renewed \/ k
    <3>2. w \in BOOLEAN
      BY <1>5, <1>6, <2>1
    <3>3. r = [known |-> row.known, state |-> "resolved", renewed |-> w, elem |-> NoElement]
      BY <3>1
    <3>4. row.renewed \/ k => w
      OBVIOUS
    <3> HIDE DEF w
    <3>5. /\ r \in Rows /\ r.known = row.known /\ r.state = "resolved" /\ r.elem = NoElement
          /\ r.renewed = w
      BY <1>s, <3>2, <3>3, ElementFacts, SetRenewed
    <3>6. ~(to < from)
      BY <1>0, <1>7
    <3> QED BY <3>4, <3>5, <3>6 DEF k
  <2>2. CASE b.kind = "resolve"
    <3>1. r = [known |-> row.known, state |-> "resolved", renewed |-> row.renewed,
              elem |-> NoElement]
      BY <1>2, <1>4, <1>7, <2>2 DEF AppliedRow, Rows
    <3>2. ~(to < from) /\ b.kind # "renew"
      BY <1>0, <1>7, <2>2
    <3> QED BY <1>s, <3>1, <3>2, ElementFacts, SetState
  <2> QED BY <1>2, <2>1, <2>2
<1>8. CASE to < from
  <2>1. CASE b.kind = "renew"
    <3>1. r = [known |-> row.known, state |-> "active", renewed |-> FALSE,
              elem |-> Element(b.rev, to)]
      BY <1>0, <1>2, <1>4, <1>8, <2>1 DEF RevertedRow, Rows
    <3>2. ~(from < to)
      BY <1>0, <1>8
    <3>3. /\ r \in Rows /\ r.known = row.known
          /\ r.state = "active" /\ r.elem = Element(b.rev, to)
      BY <1>3, <1>s, <3>1 DEF Rows
    <3> QED BY <2>1, <3>2, <3>3
  <2>2. CASE b.kind = "resolve"
    <3>1. r = [known |-> row.known, state |-> "active", renewed |-> row.renewed,
              elem |-> Element(b.rev, to)]
      BY <1>0, <1>2, <1>4, <1>8, <2>2 DEF RevertedRow, Rows
    <3>2. ~(from < to)
      BY <1>0, <1>8
    <3> QED BY <1>3, <1>s, <3>1, <3>2, SetState
  <2> QED BY <1>2, <2>1, <2>2
<1> QED BY <1>0, <1>7, <1>8

(* The facts of a block in its chain.                                       *)
LEMMA BlockInChain ==
    ASSUME NEW s, Sane(s), NEW n \in 1..Len(s), NEW c \in Contracts
    PROVE  /\ s[n] \in Blocks /\ n \in 0..MaxHeight /\ n - 1 \in 0..MaxHeight /\ n - 1 \in 0..Len(s)
           /\ n - 1 < n /\ ~(n < n - 1) /\ n # n - 1 /\ n # 0
           /\ CreatedAt(s, n, c) <=> CreatedAt(s, n - 1, c) \/ Creates(s[n], c)
           /\ EndedAt(s, n, c) <=> EndedAt(s, n - 1, c) \/ Ends(s[n], c)
           /\ RenewedAt(s, n, c) <=> RenewedAt(s, n - 1, c) \/ Renews(s[n], c)
           /\ RevAt(s, n - 1, c) \in Nat
           /\ RevAt(s, n, c) = IF Revises(s[n], c) THEN RevAt(s, n - 1, c) + 1 ELSE RevAt(s, n - 1, c)
           /\ Creates(s[n], c) =>
                 /\ ~Revises(s[n], c) /\ ~Ends(s[n], c)
                 /\ ~CreatedAt(s, n - 1, c) /\ ~EndedAt(s, n - 1, c) /\ ~RenewedAt(s, n - 1, c)
                 /\ RevAt(s, n - 1, c) = 0
           /\ Revises(s[n], c) \/ Ends(s[n], c) =>
                 /\ ~Creates(s[n], c)
                 /\ OpenAt(s, n - 1, c) /\ s[n].rev = RevAt(s, n - 1, c)
           /\ Revises(s[n], c) => ~Ends(s[n], c)
           /\ Renews(s[n], c) <=> Ends(s[n], c) /\ s[n].kind = "renew"
<1>1. Len(s) \in Nat /\ MaxHeight \in Nat /\ Len(s) <= MaxHeight /\ s \in Seq(Blocks)
  BY LenProperties, ConstantsAssumption DEF Sane
<1>2. /\ s[n] \in Blocks /\ n \in 0..MaxHeight /\ n - 1 \in 0..MaxHeight /\ n - 1 \in 0..Len(s)
      /\ n - 1 < n /\ ~(n < n - 1) /\ n # n - 1 /\ n # 0 /\ n \in Nat \ {0}
  BY <1>1, ElementOfSeq
<1>3. /\ Creates(s[n], c) => ~Revises(s[n], c) /\ ~Ends(s[n], c)
      /\ Revises(s[n], c) => ~Ends(s[n], c)
  BY <1>2, DiffsOfContract
<1>4. Creates(s[n], c) => ~CreatedAt(s, n - 1, c)
  BY DEF Sane, Fits
<1>5. ~CreatedAt(s, n - 1, c) => ~EndedAt(s, n - 1, c) /\ ~RenewedAt(s, n - 1, c) /\ RevAt(s, n - 1, c) = 0
  BY <1>2, UncreatedIsQuiet
<1>6. Revises(s[n], c) \/ Ends(s[n], c) => OpenAt(s, n - 1, c) /\ s[n].rev = RevAt(s, n - 1, c)
  BY DEF Sane, Fits
<1>7. Renews(s[n], c) <=> Ends(s[n], c) /\ s[n].kind = "renew"
  BY DEF Renews, Ends
<1>8. /\ CreatedAt(s, n, c) <=> CreatedAt(s, n - 1, c) \/ Creates(s[n], c)
      /\ EndedAt(s, n, c) <=> EndedAt(s, n - 1, c) \/ Ends(s[n], c)
      /\ RenewedAt(s, n, c) <=> RenewedAt(s, n - 1, c) \/ Renews(s[n], c)
      /\ RevAt(s, n - 1, c) \in Nat
      /\ RevAt(s, n, c) = IF Revises(s[n], c) THEN RevAt(s, n - 1, c) + 1 ELSE RevAt(s, n - 1, c)
  BY <1>2, OneMore
<1> QED BY <1>2, <1>3, <1>4, <1>5, <1>6, <1>7, <1>8

(* A proof for the state before a block becomes one for the state after it. *)
LEMMA ProofMoves ==
    ASSUME NEW r, NEW from, NEW to
    PROVE  /\ UpdateElementProof(NoElement, from, to) = NoElement
           /\ Element(r, from) # NoElement => UpdateElementProof(Element(r, from), from, to) = Element(r, to)
<1>1. UpdateElementProof(NoElement, from, to) = NoElement
  BY DEF UpdateElementProof
<1>2. ASSUME NEW e, e # NoElement, e.basis = from PROVE UpdateElementProof(e, from, to) = Element(e.rev, to)
  BY <1>2 DEF UpdateElementProof
<1> QED BY <1>1, <1>2, ElementFacts

(* A block takes a row from m blocks of a chain to n: a row in step stays   *)
(* in step, and the block that creates the contract brings any row in step. *)
Carries(row, r, s, m, n, b, c, att) ==
    /\ r \in Rows /\ r.known = row.known
    /\ RowOK(row, s, m, c, att) \/ Creates(b, c) => RowOK(r, s, n, c, att)
    /\ (RenewedAt(s, m, c) /\ db[Renewal[c]].known => row.renewed)
           => (RenewedAt(s, n, c) /\ db[Renewal[c]].known => r.renewed)

(* Applying the next block.                                                 *)
LEMMA RowApplied ==
    ASSUME NEW s, Sane(s), NEW n \in 1..Len(s), NEW c \in Contracts, NEW row \in Rows,
           db \in [Contracts -> Rows], NEW att,
           NEW r, r = UpdatedRow(row, c, Update(s[n], n - 1, n))
    PROVE  Carries(row, r, s, n - 1, n, s[n], c, att)
<1> DEFINE b == s[n]
           m == n - 1
<1>1. /\ b \in Blocks /\ n \in 0..MaxHeight /\ m \in 0..MaxHeight
      /\ m < n /\ ~(n < m) /\ n # m /\ m # n /\ n # 0
      /\ CreatedAt(s, n, c) <=> CreatedAt(s, m, c) \/ Creates(b, c)
      /\ EndedAt(s, n, c) <=> EndedAt(s, m, c) \/ Ends(b, c)
      /\ RenewedAt(s, n, c) <=> RenewedAt(s, m, c) \/ Renews(b, c)
      /\ RevAt(s, m, c) \in Nat
      /\ RevAt(s, n, c) = IF Revises(b, c) THEN RevAt(s, m, c) + 1 ELSE RevAt(s, m, c)
  BY BlockInChain
<1>2. /\ Creates(b, c) => /\ ~Revises(b, c) /\ ~Ends(b, c) /\ ~EndedAt(s, m, c) /\ ~RenewedAt(s, m, c)
                          /\ RevAt(s, m, c) = 0
      /\ Revises(b, c) \/ Ends(b, c) => ~Creates(b, c) /\ OpenAt(s, m, c) /\ b.rev = RevAt(s, m, c)
      /\ Revises(b, c) => ~Ends(b, c)
      /\ Renews(b, c) <=> Ends(b, c) /\ b.kind = "renew"
  BY BlockInChain
<1> HIDE DEF b, m
<1>3. r = UpdatedRow(row, c, Update(b, m, n))
  BY DEF b, m
<1>4. Element(RevAt(s, n, c), n) # NoElement
  BY <1>1, ElementFacts
<1> SUFFICES
      /\ r \in Rows /\ r.known = row.known
      /\ RowOK(row, s, m, c, att) \/ Creates(b, c) => RowOK(r, s, n, c, att)
      /\ (RenewedAt(s, m, c) /\ db[Renewal[c]].known => row.renewed)
             => (RenewedAt(s, n, c) /\ db[Renewal[c]].known => r.renewed)
  BY DEF b, m, Carries
<1>5. CASE Creates(b, c)
  <2>1. /\ r \in Rows /\ r.known = row.known /\ r.renewed = row.renewed
        /\ r.state = "active" /\ r.elem = Element(0, n)
    BY <1>1, <1>3, <1>5, UpdateCreates
  <2>2. OpenAt(s, n, c) /\ RevAt(s, n, c) = 0 /\ ~EndedAt(s, n, c) /\ ~RenewedAt(s, n, c)
    BY <1>1, <1>2, <1>5 DEF OpenAt
  <2>3. RowOK(r, s, n, c, att)
    BY <1>4, <2>1, <2>2 DEF RowOK
  <2> QED BY <2>1, <2>2, <2>3
<1>6. CASE Revises(b, c)
  <2>1. /\ r \in Rows /\ r.known = row.known /\ r.renewed = row.renewed /\ r.state = row.state
        /\ r.elem = Element(b.rev + 1, n)
    BY <1>1, <1>3, <1>6, UpdateRevises
  <2>2. /\ OpenAt(s, n, c) /\ RevAt(s, n, c) = b.rev + 1 /\ ~EndedAt(s, n, c) /\ ~RenewedAt(s, n, c)
        /\ OpenAt(s, m, c) /\ ~EndedAt(s, m, c)
    <3>1. OpenAt(s, n, c) /\ RevAt(s, n, c) = b.rev + 1 /\ ~EndedAt(s, n, c) /\ OpenAt(s, m, c) /\ ~EndedAt(s, m, c)
      BY <1>1, <1>2, <1>6 DEF OpenAt
    <3>2. ~RenewedAt(s, n, c)
      BY <3>1 DEF RenewedAt, EndedAt, Renews, Ends
    <3> QED BY <3>1, <3>2
  <2>3. ASSUME RowOK(row, s, m, c, att) PROVE RowOK(r, s, n, c, att)
    BY <1>4, <2>1, <2>2, <2>3 DEF RowOK
  <2> QED BY <1>2, <1>6, <2>1, <2>2, <2>3
<1>7. CASE Ends(b, c)
  <2>1. /\ r \in Rows /\ r.known = row.known
        /\ r.state = "resolved" /\ r.elem = NoElement
        /\ row.renewed => r.renewed
        /\ b.kind = "renew" /\ db[Renewal[c]].known => r.renewed
    BY <1>1, <1>3, <1>7, UpdateEnds
  <2>2. ~OpenAt(s, n, c) /\ EndedAt(s, n, c)
    BY <1>1, <1>7 DEF OpenAt
  <2>3. RowOK(r, s, n, c, att)
    BY <2>1, <2>2 DEF RowOK
  <2>4. RenewedAt(s, n, c) => RenewedAt(s, m, c) \/ b.kind = "renew"
    BY <1>1, <1>2
  <2> QED BY <2>1, <2>3, <2>4
<1>8. CASE ~Creates(b, c) /\ ~Revises(b, c) /\ ~Ends(b, c)
  <2>1. /\ r \in Rows /\ r.known = row.known /\ r.state = row.state /\ r.renewed = row.renewed
        /\ r.elem = UpdateElementProof(row.elem, m, n)
    BY <1>1, <1>3, <1>8, UpdateOther
  <2>2. /\ OpenAt(s, n, c) <=> OpenAt(s, m, c)
        /\ EndedAt(s, n, c) <=> EndedAt(s, m, c)
        /\ RenewedAt(s, n, c) <=> RenewedAt(s, m, c)
        /\ RevAt(s, n, c) = RevAt(s, m, c)
    BY <1>1, <1>2, <1>8 DEF OpenAt
  <2>3. ASSUME RowOK(row, s, m, c, att) PROVE RowOK(r, s, n, c, att)
    <3>1. row.elem = NoElement => r.elem = NoElement
      BY <1>1, <2>1, ProofMoves
    <3>2. row.elem # NoElement =>
              OpenAt(s, m, c) /\ r.elem = Element(RevAt(s, m, c), n) /\ r.elem # NoElement
      BY <1>1, <1>4, <2>1, <2>2, <2>3, ProofMoves DEF RowOK
    <3> QED BY <2>1, <2>2, <2>3, <3>1, <3>2 DEF RowOK
  <2> QED BY <1>8, <2>1, <2>2, <2>3
<1> QED BY <1>5, <1>6, <1>7, <1>8

(* Reverting the last block.                                                *)
LEMMA RowReverted ==
    ASSUME NEW s, Sane(s), NEW n \in 1..Len(s), NEW c \in Contracts, NEW row \in Rows,
           db \in [Contracts -> Rows], NEW att,
           NEW r, r = UpdatedRow(row, c, Update(s[n], n, n - 1))
    PROVE  Carries(row, r, s, n, n - 1, s[n], c, att)
<1> DEFINE b == s[n]
           m == n - 1
<1>1. /\ b \in Blocks /\ n \in 0..MaxHeight /\ m \in 0..MaxHeight /\ m \in Nat
      /\ m < n /\ ~(n < m) /\ n # m /\ m # n
      /\ CreatedAt(s, n, c) <=> CreatedAt(s, m, c) \/ Creates(b, c)
      /\ EndedAt(s, n, c) <=> EndedAt(s, m, c) \/ Ends(b, c)
      /\ RenewedAt(s, n, c) <=> RenewedAt(s, m, c) \/ Renews(b, c)
      /\ RevAt(s, m, c) \in Nat
      /\ RevAt(s, n, c) = IF Revises(b, c) THEN RevAt(s, m, c) + 1 ELSE RevAt(s, m, c)
  BY BlockInChain
<1>2. /\ Creates(b, c) => /\ ~Revises(b, c) /\ ~Ends(b, c) /\ ~CreatedAt(s, m, c)
                          /\ ~EndedAt(s, m, c) /\ ~RenewedAt(s, m, c)
      /\ Revises(b, c) \/ Ends(b, c) => ~Creates(b, c) /\ OpenAt(s, m, c) /\ b.rev = RevAt(s, m, c)
      /\ Revises(b, c) => ~Ends(b, c)
      /\ Renews(b, c) <=> Ends(b, c) /\ b.kind = "renew"
  BY BlockInChain
<1> HIDE DEF b, m
<1>3. r = UpdatedRow(row, c, Update(b, n, m))
  BY DEF b, m
<1>4. OpenAt(s, m, c) => m # 0 /\ Element(RevAt(s, m, c), m) # NoElement
  BY <1>1, ElementFacts, OpenAfterFirst
<1> SUFFICES
      /\ r \in Rows /\ r.known = row.known
      /\ RowOK(row, s, n, c, att) \/ Creates(b, c) => RowOK(r, s, m, c, att)
      /\ (RenewedAt(s, n, c) /\ db[Renewal[c]].known => row.renewed)
             => (RenewedAt(s, m, c) /\ db[Renewal[c]].known => r.renewed)
  BY DEF b, m, Carries
<1>5. CASE Creates(b, c)
  <2>1. /\ r \in Rows /\ r.known = row.known /\ r.renewed = row.renewed
        /\ r.state = "pending" /\ r.elem = NoElement
    BY <1>1, <1>3, <1>5, UpdateCreates
  <2>2. ~OpenAt(s, m, c) /\ ~EndedAt(s, m, c) /\ ~RenewedAt(s, m, c)
    BY <1>1, <1>2, <1>5 DEF OpenAt
  <2>3. RowOK(r, s, m, c, att)
    BY <2>1, <2>2 DEF RowOK
  <2> QED BY <2>1, <2>2, <2>3
<1>6. CASE Revises(b, c)
  <2>1. /\ r \in Rows /\ r.known = row.known /\ r.renewed = row.renewed /\ r.state = row.state
        /\ r.elem = Element(b.rev, m)
    BY <1>1, <1>3, <1>6, UpdateRevises
  <2>2. /\ OpenAt(s, n, c) /\ ~EndedAt(s, n, c) /\ OpenAt(s, m, c) /\ ~EndedAt(s, m, c)
        /\ b.rev = RevAt(s, m, c)
    BY <1>1, <1>2, <1>6 DEF OpenAt
  <2>3. ASSUME RowOK(row, s, n, c, att) PROVE RowOK(r, s, m, c, att)
    BY <1>4, <2>1, <2>2, <2>3 DEF RowOK
  <2> QED BY <1>1, <1>2, <1>6, <2>1, <2>3
<1>7. CASE Ends(b, c)
  <2>1. /\ r \in Rows /\ r.known = row.known
        /\ r.state = "active" /\ r.elem = Element(b.rev, m)
        /\ b.kind # "renew" => r.renewed = row.renewed
    BY <1>1, <1>3, <1>7, UpdateEnds
  <2>2. OpenAt(s, m, c) /\ ~EndedAt(s, m, c) /\ b.rev = RevAt(s, m, c)
    BY <1>2, <1>7 DEF OpenAt
  <2>3. RowOK(r, s, m, c, att)
    BY <1>4, <2>1, <2>2 DEF RowOK
  <2>4. ~RenewedAt(s, m, c)
    BY <2>2 DEF RenewedAt, EndedAt, Renews, Ends
  <2> QED BY <2>1, <2>3, <2>4
<1>8. CASE ~Creates(b, c) /\ ~Revises(b, c) /\ ~Ends(b, c)
  <2>1. /\ r \in Rows /\ r.known = row.known /\ r.state = row.state /\ r.renewed = row.renewed
        /\ r.elem = UpdateElementProof(row.elem, n, m)
    BY <1>1, <1>3, <1>8, UpdateOther
  <2>2. /\ OpenAt(s, n, c) <=> OpenAt(s, m, c)
        /\ EndedAt(s, n, c) <=> EndedAt(s, m, c)
        /\ RenewedAt(s, n, c) <=> RenewedAt(s, m, c)
        /\ RevAt(s, n, c) = RevAt(s, m, c)
    BY <1>1, <1>2, <1>8 DEF OpenAt
  <2>3. ASSUME RowOK(row, s, n, c, att) PROVE RowOK(r, s, m, c, att)
    <3>1. row.elem = NoElement => r.elem = NoElement
      BY <2>1, ProofMoves
    <3>2. row.elem # NoElement =>
              OpenAt(s, m, c) /\ r.elem = Element(RevAt(s, m, c), m) /\ r.elem # NoElement
      BY <1>4, <2>1, <2>2, <2>3, ProofMoves DEF RowOK
    <3> QED BY <2>1, <2>2, <2>3, <3>1, <3>2 DEF RowOK
  <2> QED BY <1>8, <2>1, <2>2, <2>3
<1> QED BY <1>5, <1>6, <1>7, <1>8

-----------------------------------------------------------------------------
(***************************************************************************)
(* The blocks of a batch                                                   *)
(***************************************************************************)
(* The first n blocks of two chains are the same.                           *)
SharedUpTo(s, t, n) ==
    /\ n \in 0..Len(s) /\ n \in 0..Len(t)
    /\ \A i \in 1..n : s[i] = t[i]

(* The blocks two chains share.                                             *)
LEMMA SharedBlocks ==
    ASSUME NEW S, NEW s \in Seq(S), NEW t \in Seq(S), NEW base,
           base = Len(LongestCommonPrefix({s, t}))
    PROVE  SharedUpTo(s, t, base)
<1> DEFINE CP == CommonPrefixes({s, t})
           p == LongestCommonPrefix({s, t})
<1>1. Len(s) \in Nat /\ Len(t) \in Nat
  BY LenProperties
<1>2. ASSUME NEW q \in CP
      PROVE  /\ q \in Seq(S) /\ Len(q) \in 0..Len(s) /\ Len(q) \in 0..Len(t)
             /\ SubSeq(s, 1, Len(q)) = SubSeq(t, 1, Len(q))
  <2>1. /\ q \in Prefixes(s) \/ q \in Prefixes(t)
        /\ IsPrefix(q, s) /\ IsPrefix(q, t)
    BY DEF CommonPrefixes
  <2>2. (\E l \in 0..Len(s) : q = SubSeq(s, 1, l)) \/ (\E l \in 0..Len(t) : q = SubSeq(t, 1, l))
    BY <2>1 DEF Prefixes
  <2>3. q \in Seq(S)
    BY <2>2, FirstElements
  <2>4. Len(q) \in Nat
    BY <2>3, LenProperties
  <2> QED BY <1>1, <2>1, <2>3, <2>4 DEF IsPrefix
<1>3. <<>> \in CP
  <2>1. SubSeq(s, 1, 0) = <<>> /\ SubSeq(t, 1, 0) = <<>> /\ SubSeq(<<>>, 1, 0) = <<>>
    OBVIOUS
  <2>2. <<>> \in Prefixes(s)
    <3>1. 0 \in 0..Len(s)
      BY <1>1
    <3> QED BY <2>1, <3>1 DEF Prefixes
  <2>3. Len(<<>>) = 0
    BY EmptySeq
  <2>4. IsPrefix(<<>>, s) /\ IsPrefix(<<>>, t)
    BY <1>1, <2>1, <2>3 DEF IsPrefix
  <2> QED BY <2>2, <2>4 DEF CommonPrefixes
<1>4. \E q \in CP : \A o \in CP : Len(o) <= Len(q)
  <2> HIDE DEF CP
  <2> DEFINE T == {Len(s) - Len(q) : q \in CP}
  <2>1. T \subseteq Nat /\ T # {}
    BY <1>1, <1>2, <1>3
  <2>2. PICK k \in T : \A j \in T : k <= j
    <3> HIDE DEF T
    <3> QED BY <2>1, LeastNat
  <2>3. PICK q \in CP : k = Len(s) - Len(q)
    BY <2>2
  <2>4. \A o \in CP : Len(s) - Len(q) <= Len(s) - Len(o)
    BY <2>2, <2>3
  <2> QED BY <1>1, <1>2, <2>3, <2>4
<1>5. p \in CP
  BY <1>4 DEF LongestCommonPrefix
<1>6. base \in 0..Len(s) /\ base \in 0..Len(t) /\ SubSeq(s, 1, base) = SubSeq(t, 1, base)
  <2> HIDE DEF CP, p
  <2>1. base = Len(p)
    BY DEF p
  <2> QED BY <1>2, <1>5, <2>1
<1>7. /\ \A i \in 1..base : SubSeq(s, 1, base)[i] = s[i]
      /\ \A i \in 1..base : SubSeq(t, 1, base)[i] = t[i]
  BY <1>6, FirstElements
<1> QED BY <1>6, <1>7 DEF SharedUpTo

(* The updates lead back to the shared blocks and on along the chain.       *)
LEMMA UpdatesOfBatch ==
    ASSUME Sane(scanned), Sane(chain), scanned # chain
    PROVE  \E base \in 0..Len(scanned) : \E R \in Nat :
             /\ base \in 0..Len(chain) /\ R = Len(scanned) - base
             /\ \A i \in 1..base : scanned[i] = chain[i]
             /\ DOMAIN UpdatesSince = 1..Len(UpdatesSince)
             /\ Len(UpdatesSince) \in 1..(R + (Len(chain) - base))
             /\ \A i \in 1..Len(UpdatesSince) :
                   IF i <= R
                   THEN UpdatesSince[i] = Update(scanned[Len(scanned) + 1 - i], Len(scanned) + 1 - i,
                                                 (Len(scanned) + 1 - i) - 1)
                   ELSE UpdatesSince[i] = Update(chain[base + (i - R)], (base + (i - R)) - 1,
                                                 base + (i - R))
<1> DEFINE base == Len(LongestCommonPrefix({scanned, chain}))
<1>1. /\ scanned \in Seq(Blocks) /\ chain \in Seq(Blocks) /\ Len(scanned) \in Nat /\ Len(chain) \in Nat
      /\ BatchSize \in Nat /\ BatchSize >= 1
  BY LenProperties, ConstantsAssumption DEF Sane
<1>2. base \in 0..Len(scanned) /\ base \in 0..Len(chain) /\ \A i \in 1..base : scanned[i] = chain[i]
  <2>1. SharedUpTo(scanned, chain, base)
    <3>1. \A S : \A s, t \in Seq(S) : SharedUpTo(s, t, Len(LongestCommonPrefix({s, t})))
      BY SharedBlocks, Zenon
    <3> QED BY <1>1, <3>1, Zenon
  <2> HIDE DEF base
  <2> QED BY <2>1 DEF SharedUpTo
<1> DEFINE R == Len(scanned) - base
           P == Len(chain) - base
           reverts == [i \in 1..R |-> LET h == Len(scanned) + 1 - i IN Update(scanned[h], h, h - 1)]
           applies == [i \in 1..P |-> LET h == base + i IN Update(chain[h], h - 1, h)]
           updates == reverts \o applies
           B == Min({BatchSize, Len(updates)})
<1>3. UpdatesSince = SubSeq(updates, 1, B)
  BY DEF UpdatesSince, Update
<1> HIDE DEF base
<1>4. R \in Nat /\ P \in Nat /\ base \in Nat
  BY <1>1, <1>2
<1>5. R + P >= 1
  <2> SUFFICES ASSUME R = 0, P = 0 PROVE FALSE
    BY <1>4
  <2>1. Len(scanned) = base /\ Len(chain) = base
    BY <1>1, <1>2
  <2> QED BY <1>1, <1>2, <2>1, SeqEqual
<1> DEFINE V == {reverts[i] : i \in 1..R} \cup {applies[i] : i \in 1..P}
<1>6. reverts \in [1..R -> V] /\ applies \in [1..P -> V]
  <2> HIDE DEF R, P
  <2> QED OBVIOUS
<1>7. /\ \A i \in 1..R : reverts[i] = Update(scanned[Len(scanned) + 1 - i], Len(scanned) + 1 - i,
                                            (Len(scanned) + 1 - i) - 1)
      /\ \A i \in 1..P : applies[i] = Update(chain[base + i], (base + i) - 1, base + i)
  <2> HIDE DEF R, P
  <2> QED OBVIOUS
<1> HIDE DEF V, reverts, applies, R, P
<1>8. reverts \in Seq(V) /\ applies \in Seq(V) /\ Len(reverts) = R /\ Len(applies) = P
  <2>1. reverts \in Seq(V) /\ applies \in Seq(V)
    BY <1>4, <1>6
  <2>2. DOMAIN reverts = 1..R /\ DOMAIN applies = 1..P
    BY <1>6
  <2> QED BY <1>4, <2>1, <2>2, LenProperties
<1>9. /\ updates \in Seq(V) /\ Len(updates) = R + P
      /\ \A i \in 1..(R + P) : updates[i] = IF i <= R THEN reverts[i] ELSE applies[i - R]
  BY <1>8, ConcatProperties
<1> HIDE DEF updates
<1>10. B \in 1..(R + P)
  <2>1. Len(updates) \in Int /\ BatchSize \in Int
    BY <1>1, <1>4, <1>9
  <2>2. B = IF BatchSize <= Len(updates) THEN BatchSize ELSE Len(updates)
    BY <2>1, MinOfTwo
  <2> QED BY <1>1, <1>4, <1>5, <1>9, <2>2
<1> HIDE DEF B
<1>11. /\ Len(UpdatesSince) = B /\ UpdatesSince \in Seq(V)
       /\ \A i \in 1..B : UpdatesSince[i] = updates[i]
  <2>1. B \in 0..Len(updates)
    BY <1>4, <1>9, <1>10
  <2> QED BY <1>3, <1>9, <2>1, FirstElements
<1>12. ASSUME NEW i \in 1..B
       PROVE  IF i <= R
              THEN UpdatesSince[i] = Update(scanned[Len(scanned) + 1 - i], Len(scanned) + 1 - i,
                                            (Len(scanned) + 1 - i) - 1)
              ELSE UpdatesSince[i] = Update(chain[base + (i - R)], (base + (i - R)) - 1, base + (i - R))
  <2>1. i \in 1..(R + P) /\ UpdatesSince[i] = updates[i]
    BY <1>4, <1>10, <1>11
  <2>2. CASE i <= R
    <3>1. i \in 1..R /\ updates[i] = reverts[i]
      BY <1>4, <1>9, <2>1, <2>2
    <3> QED BY <1>7, <2>1, <2>2, <3>1
  <2>3. CASE ~(i <= R)
    <3>1. i - R \in 1..P /\ updates[i] = applies[i - R]
      BY <1>4, <1>9, <2>1, <2>3
    <3> QED BY <1>7, <2>1, <2>3, <3>1
  <2> QED BY <2>2, <2>3
<1>13. R = Len(scanned) - base /\ P = Len(chain) - base
  BY DEF R, P
<1>14. DOMAIN UpdatesSince = 1..Len(UpdatesSince)
  BY <1>11, LenProperties
<1> QED BY <1>2, <1>4, <1>10, <1>11, <1>12, <1>13, <1>14

(* The rows of a contract from block to block of a batch.                   *)
RowsOf(h, n, c, updates) ==
    h = [i \in 0..n |-> IF i = 0 THEN db[c] ELSE UpdatedRow(h[i - 1], c, updates[i])]

(* The function RowAfter defines by recursion exists.                       *)
LEMMA RowsExist ==
    ASSUME NEW c, NEW updates, NEW n \in Nat PROVE \E h : RowsOf(h, n, c, updates)
<1> DEFINE Bad == {k \in Nat : ~(\E h : RowsOf(h, k, c, updates))}
<1> SUFFICES ASSUME Bad # {} PROVE FALSE
  OBVIOUS
<1>1. PICK k \in Bad : \A j \in Bad : k <= j
  <2>1. Bad \subseteq Nat
    OBVIOUS
  <2> HIDE DEF Bad
  <2> QED BY <2>1, LeastNat
<1>2. k \in Nat /\ ~(\E h : RowsOf(h, k, c, updates))
  BY <1>1
<1>3. CASE k = 0
  <2> DEFINE f == [i \in 0..0 |-> db[c]]
  <2>1. f = [i \in 0..k |-> IF i = 0 THEN db[c] ELSE UpdatedRow(f[i - 1], c, updates[i])]
    <3>1. \A i \in 0..k : i = 0
      BY <1>3
    <3> QED BY <1>3, <3>1
  <2>2. RowsOf(f, k, c, updates)
    BY <2>1 DEF RowsOf
  <2> QED BY <1>2, <2>2
<1>4. CASE k > 0
  <2>1. k - 1 \in Nat /\ k - 1 \notin Bad
    BY <1>1, <1>2, <1>4
  <2>2. PICK h : RowsOf(h, k - 1, c, updates)
    BY <2>1
  <2>3. \A i \in 0..(k - 1) : h[i] = IF i = 0 THEN db[c] ELSE UpdatedRow(h[i - 1], c, updates[i])
    BY <2>2 DEF RowsOf
  <2> DEFINE last == UpdatedRow(h[k - 1], c, updates[k])
             f == [i \in 0..k |-> IF i = k THEN last ELSE h[i]]
  <2>4. /\ \A i \in 0..(k - 1) : i \in 0..k /\ i # k /\ (i # 0 => i - 1 \in 0..(k - 1))
        /\ \A i \in 0..k : i # k => i \in 0..(k - 1)
        /\ k \in 0..k /\ k # 0 /\ k - 1 \in 0..(k - 1)
    BY <1>2, <1>4
  <2>5. f[k] = last /\ \A i \in 0..(k - 1) : f[i] = h[i]
    <3> HIDE DEF last
    <3> QED BY <2>4
  <2>6. DOMAIN f = 0..k /\ f = [i \in 0..k |-> f[i]]
    OBVIOUS
  <2> HIDE DEF f
  <2>7. \A i \in 0..k : f[i] = IF i = 0 THEN db[c] ELSE UpdatedRow(f[i - 1], c, updates[i])
    <3> SUFFICES ASSUME NEW i \in 0..k
                 PROVE  f[i] = IF i = 0 THEN db[c] ELSE UpdatedRow(f[i - 1], c, updates[i])
      OBVIOUS
    <3>1. CASE i = k
      BY <2>4, <2>5, <3>1
    <3>2. CASE i # k
      <4>1. i \in 0..(k - 1) /\ f[i] = h[i]
        BY <2>4, <2>5, <3>2
      <4>2. i # 0 => f[i - 1] = h[i - 1]
        BY <2>4, <2>5, <4>1
      <4> QED BY <2>3, <4>1, <4>2
    <3> QED BY <3>1, <3>2
  <2>8. f = [i \in 0..k |-> IF i = 0 THEN db[c] ELSE UpdatedRow(f[i - 1], c, updates[i])]
    BY <2>6, <2>7
  <2>9. RowsOf(f, k, c, updates)
    BY <2>8 DEF RowsOf
  <2> QED BY <1>2, <2>9
<1> QED BY <1>2, <1>3, <1>4

LeadsToRow(g, c, updates) ==
    /\ g[0] = db[c] /\ RowAfter(c, updates) = g[Len(updates)]
    /\ \A i \in 1..Len(updates) : g[i] = UpdatedRow(g[i - 1], c, updates[i])

(* RowAfter is where the rows of the batch lead.                            *)
LEMMA RowAfterBatch ==
    ASSUME NEW c, NEW updates, Len(updates) \in Nat
    PROVE  \E g : LeadsToRow(g, c, updates)
<1> DEFINE n == Len(updates)
           g == CHOOSE h : RowsOf(h, n, c, updates)
<1>1. \E h : RowsOf(h, n, c, updates)
  BY RowsExist
<1>2. RowsOf(g, n, c, updates)
  BY <1>1, Zenon
<1>3. g = CHOOSE row : row = [i \in 0..n |-> IF i = 0 THEN db[c] ELSE UpdatedRow(row[i - 1], c, updates[i])]
  BY DEF RowsOf
<1>4. RowAfter(c, updates) = g[n]
  BY <1>3 DEF RowAfter
<1> HIDE DEF g
<1>5. \A i \in 0..n : g[i] = IF i = 0 THEN db[c] ELSE UpdatedRow(g[i - 1], c, updates[i])
  BY <1>2 DEF RowsOf
<1>6. 0 \in 0..n /\ \A i \in 1..n : i \in 0..n /\ i # 0
  OBVIOUS
<1>7. LeadsToRow(g, c, updates)
  BY <1>4, <1>5, <1>6 DEF LeadsToRow
<1> QED BY <1>7

(* A row is in step with chains that have the same blocks.                  *)
LEMMA SameRow ==
    ASSUME NEW s, NEW t, NEW n \in Nat, \A i \in 1..n : s[i] = t[i], NEW c, NEW row, NEW att
    PROVE  RowOK(row, s, n, c, att) <=> RowOK(row, t, n, c, att)
<1>1. /\ EndedAt(s, n, c) <=> EndedAt(t, n, c)
      /\ OpenAt(s, n, c) <=> OpenAt(t, n, c)
      /\ RevAt(s, n, c) = RevAt(t, n, c)
  BY SameBlocks
<1> QED BY <1>1 DEF RowOK

(* Where the scan is after i of the updates: on the old chain while it      *)
(* reverts, then on the new one.                                            *)
ChainAt(i, R)       == IF i <= R THEN scanned ELSE chain
HeightAt(i, R, base) == IF i <= R THEN Len(scanned) - i ELSE base + (i - R)

(* What UpdatesSince returned, as UpdatesOfBatch has it.                    *)
IsBatch(updates, base, R) ==
    /\ base \in 0..Len(scanned) /\ base \in 0..Len(chain) /\ R \in Nat /\ R = Len(scanned) - base
    /\ \A i \in 1..base : scanned[i] = chain[i]
    /\ DOMAIN updates = 1..Len(updates) /\ Len(updates) \in 1..(R + (Len(chain) - base))
    /\ \A i \in 1..Len(updates) :
          IF i <= R
          THEN updates[i] = Update(scanned[Len(scanned) + 1 - i], Len(scanned) + 1 - i,
                                   (Len(scanned) + 1 - i) - 1)
          ELSE updates[i] = Update(chain[base + (i - R)], (base + (i - R)) - 1, base + (i - R))

(* The first n blocks of a chain.                                           *)
IsPart(t, s, n) ==
    /\ n \in 0..Len(s) /\ t \in Seq(Blocks) /\ Len(t) = n
    /\ (\A i \in 1..n : s[i] = t[i]) /\ Sane(t)

(* The chain after a batch is a part of the old chain or of the new one.    *)
LEMMA ScannedAfterBatch ==
    ASSUME Sane(scanned), Sane(chain), NEW updates, NEW base, NEW R, IsBatch(updates, base, R), NEW t,
           t = LET u == Last(updates) IN SubSeq(IF u.from < u.to THEN chain ELSE scanned, 1, u.to)
    PROVE  IsPart(t, ChainAt(Len(updates), R), HeightAt(Len(updates), R, base))
<1> DEFINE L == Len(updates)
           n == HeightAt(L, R, base)
           s == ChainAt(L, R)
           u == Last(updates)
<1>1. /\ scanned \in Seq(Blocks) /\ chain \in Seq(Blocks) /\ Len(scanned) \in Nat /\ Len(chain) \in Nat
  BY LenProperties DEF Sane
<1>2. /\ base \in 0..Len(scanned) /\ base \in 0..Len(chain) /\ R \in Nat /\ R = Len(scanned) - base
      /\ L \in 1..(R + (Len(chain) - base)) /\ L \in 1..L /\ L \in Nat /\ u = updates[L]
  BY <1>1 DEF IsBatch, Last
<1>3. t = SubSeq(s, 1, n) /\ n \in 0..Len(s) /\ Sane(s)
  <2>1. CASE L <= R
    <3> DEFINE h == Len(scanned) + 1 - L
    <3>1. u = Update(scanned[h], h, h - 1)
      BY <1>2, <2>1 DEF IsBatch
    <3>2. h \in Int /\ ~(h < h - 1) /\ h - 1 = Len(scanned) - L /\ Len(scanned) - L \in 0..Len(scanned)
      BY <1>1, <1>2, <2>1
    <3>3. u.from = h /\ u.to = h - 1
      BY <3>1 DEF Update
    <3>4. n = Len(scanned) - L /\ s = scanned
      BY <2>1 DEF HeightAt, ChainAt
    <3> HIDE DEF h, n, s, u
    <3>5. t = SubSeq(scanned, 1, h - 1)
      BY <3>2, <3>3 DEF u
    <3> QED BY <3>2, <3>4, <3>5
  <2>2. CASE ~(L <= R)
    <3> DEFINE h == base + (L - R)
    <3>1. u = Update(chain[h], h - 1, h)
      BY <1>2, <2>2 DEF IsBatch
    <3>2. h \in 0..Len(chain) /\ h - 1 < h
      BY <1>1, <1>2, <2>2
    <3>3. u.from = h - 1 /\ u.to = h
      BY <3>1 DEF Update
    <3>4. n = h /\ s = chain
      BY <2>2 DEF HeightAt, ChainAt
    <3> HIDE DEF h, n, s, u
    <3>5. t = SubSeq(chain, 1, h)
      BY <3>2, <3>3 DEF u
    <3> QED BY <3>2, <3>4, <3>5
  <2> QED BY <2>1, <2>2
<1> HIDE DEF n, s
<1>4. s \in Seq(Blocks) /\ Len(s) \in Nat
  BY <1>3, LenProperties DEF Sane
<1>5. t \in Seq(Blocks) /\ Len(t) = n /\ \A i \in 1..n : s[i] = t[i]
  BY <1>3, <1>4, FirstElements, ZenonT(60)
<1>6. Sane(t)
  <2>1. Len(t) <= Len(s)
    BY <1>3, <1>4, <1>5
  <2> QED BY <1>3, <1>5, <2>1, SanePart
<1> QED BY <1>3, <1>5, <1>6 DEF n, s, IsPart

(* A batch keeps a row in step with the chain, and brings a row in step     *)
(* that sees the contract created or that creation taken back.              *)
LEMMA RowFollowsBatch ==
    ASSUME Sane(scanned), Sane(chain), db \in [Contracts -> Rows], NEW c \in Contracts, NEW att,
           NEW updates, NEW base, NEW R, IsBatch(updates, base, R),
           NEW r, r = RowAfter(c, updates)
    PROVE  LET n == HeightAt(Len(updates), R, base)
               s == ChainAt(Len(updates), R)
           IN  /\ r \in Rows /\ r.known = db[c].known
               /\ (RowOK(db[c], scanned, Len(scanned), c, att)
                   \/ \E i \in 1..Len(updates) : Creates(updates[i].block, c)) => RowOK(r, s, n, c, att)
               /\ (RenewedAt(scanned, Len(scanned), c) /\ db[Renewal[c]].known => db[c].renewed)
                      => (RenewedAt(s, n, c) /\ db[Renewal[c]].known => r.renewed)
<1> DEFINE L == Len(updates)
           k == db[Renewal[c]].known
           start == RowOK(db[c], scanned, Len(scanned), c, att)
           before == RenewedAt(scanned, Len(scanned), c) /\ k => db[c].renewed
           told(i) == \E j \in 1..i : Creates(updates[j].block, c)
<1>1. /\ scanned \in Seq(Blocks) /\ chain \in Seq(Blocks) /\ Len(scanned) \in Nat /\ Len(chain) \in Nat
  BY LenProperties DEF Sane
<1>2. /\ base \in 0..Len(scanned) /\ base \in 0..Len(chain) /\ R \in Nat /\ R = Len(scanned) - base
      /\ L \in 1..(R + (Len(chain) - base)) /\ L \in Nat
      /\ \A i \in 1..base : scanned[i] = chain[i]
  BY <1>1 DEF IsBatch
<1>3. PICK g : /\ g[0] = db[c] /\ r = g[L]
               /\ \A i \in 1..L : g[i] = UpdatedRow(g[i - 1], c, updates[i])
  <2>1. \E g : LeadsToRow(g, c, updates)
    BY <1>2, RowAfterBatch
  <2> QED BY <2>1 DEF LeadsToRow
<1> DEFINE ok(i) == /\ g[i] \in Rows /\ g[i].known = db[c].known
                    /\ start \/ told(i) => RowOK(g[i], ChainAt(i, R), HeightAt(i, R, base), c, att)
                    /\ before => (RenewedAt(ChainAt(i, R), HeightAt(i, R, base), c) /\ k => g[i].renewed)
<1>4. ok(0)
  <2>1. ChainAt(0, R) = scanned /\ HeightAt(0, R, base) = Len(scanned)
    BY <1>1, <1>2 DEF ChainAt, HeightAt
  <2>2. ~told(0) /\ db[c] \in Rows
    OBVIOUS
  <2> QED BY <1>3, <2>1, <2>2
<1>5. ASSUME NEW i \in 1..L, ok(i - 1) PROVE ok(i)
  <2> DEFINE row == g[i - 1]
             n == HeightAt(i, R, base)
             s == ChainAt(i, R)
             m == HeightAt(i - 1, R, base)
             q == ChainAt(i - 1, R)
  <2>1. g[i] = UpdatedRow(row, c, updates[i]) /\ i \in Nat /\ i - 1 \in Nat
    BY <1>2, <1>3
  <2>2. told(i) <=> told(i - 1) \/ Creates(updates[i].block, c)
    <3>1. 1..i = (1..(i - 1)) \cup {i}
      OBVIOUS
    <3> QED BY <3>1
  <2>3. /\ row \in Rows /\ row.known = db[c].known
        /\ start \/ told(i - 1) => RowOK(row, q, m, c, att)
        /\ before => (RenewedAt(q, m, c) /\ k => row.renewed)
    BY <1>5
  <2> SUFFICES
        /\ g[i] \in Rows /\ g[i].known = db[c].known
        /\ start \/ told(i) => RowOK(g[i], s, n, c, att)
        /\ before => (RenewedAt(s, n, c) /\ k => g[i].renewed)
    OBVIOUS
  <2>4. CASE i <= R
    <3> DEFINE h == Len(scanned) + 1 - i
    <3>1. h \in 1..Len(scanned) /\ i - 1 <= R /\ Len(scanned) - i = h - 1 /\ Len(scanned) - (i - 1) = h
      BY <1>1, <1>2, <2>4
    <3>2. updates[i] = Update(scanned[h], h, h - 1)
      BY <2>4 DEF IsBatch
    <3>3. updates[i].block = scanned[h]
      BY <3>2 DEF Update
    <3>4. s = scanned /\ q = scanned /\ n = h - 1 /\ m = h
      BY <2>4, <3>1 DEF ChainAt, HeightAt
    <3> HIDE DEF ok, start, before, told, row, h, n, s, m, q, k
    <3>5. g[i] = UpdatedRow(row, c, Update(scanned[h], h, h - 1))
      BY <2>1, <3>2
    <3>6. /\ g[i] \in Rows /\ g[i].known = row.known
          /\ RowOK(row, scanned, h, c, att) \/ Creates(scanned[h], c) => RowOK(g[i], scanned, h - 1, c, att)
          /\ (RenewedAt(scanned, h, c) /\ k => row.renewed)
                 => (RenewedAt(scanned, h - 1, c) /\ k => g[i].renewed)
      <4> DEFINE v == g[i]
      <4>1. v = UpdatedRow(row, c, Update(scanned[h], h, h - 1)) /\ row \in Rows
        BY <2>3, <3>5
      <4> HIDE DEF v
      <4>2. Carries(row, v, scanned, h, h - 1, scanned[h], c, att)
        BY <3>1, <4>1, RowReverted
      <4> QED BY <4>2 DEF v, k, Carries
    <3> QED BY <2>2, <2>3, <3>3, <3>4, <3>6
  <2>5. CASE ~(i <= R)
    <3> DEFINE h == base + (i - R)
    <3>1. h \in 1..Len(chain) /\ h - 1 \in Nat
      BY <1>1, <1>2, <2>5
    <3>2. updates[i] = Update(chain[h], h - 1, h)
      BY <2>5 DEF IsBatch
    <3>3. updates[i].block = chain[h]
      BY <3>2 DEF Update
    <3>4. s = chain /\ n = h
      BY <2>5 DEF ChainAt, HeightAt
    <3>5. m = h - 1 /\ \A j \in 1..(h - 1) : q[j] = chain[j]
      <4>1. CASE i - 1 <= R
        <5>1. q = scanned /\ m = Len(scanned) - (i - 1)
          BY <4>1 DEF ChainAt, HeightAt
        <5>2. i - 1 = R
          BY <1>2, <2>1, <2>5, <4>1, SMTT(30)
        <5>3. m = base /\ h - 1 = base
          BY <1>1, <1>2, <5>1, <5>2, SMTT(30)
        <5> QED BY <1>2, <5>1, <5>3
      <4>2. CASE ~(i - 1 <= R)
        <5>1. q = chain /\ m = base + ((i - 1) - R)
          BY <4>2 DEF ChainAt, HeightAt
        <5> QED BY <1>2, <2>1, <5>1
      <4> QED BY <4>1, <4>2
    <3> HIDE DEF ok, start, before, told, row, h, n, s, m, q, k
    <3>6. g[i] = UpdatedRow(row, c, Update(chain[h], h - 1, h))
      BY <2>1, <3>2
    <3>7. /\ g[i] \in Rows /\ g[i].known = row.known
          /\ RowOK(row, chain, h - 1, c, att) \/ Creates(chain[h], c) => RowOK(g[i], chain, h, c, att)
          /\ (RenewedAt(chain, h - 1, c) /\ k => row.renewed)
                 => (RenewedAt(chain, h, c) /\ k => g[i].renewed)
      <4> DEFINE v == g[i]
      <4>1. v = UpdatedRow(row, c, Update(chain[h], h - 1, h)) /\ row \in Rows
        BY <2>3, <3>6
      <4> HIDE DEF v
      <4>2. Carries(row, v, chain, h - 1, h, chain[h], c, att)
        BY <3>1, <4>1, RowApplied
      <4> QED BY <4>2 DEF v, k, Carries
    <3>8. /\ RowOK(row, q, m, c, att) <=> RowOK(row, chain, h - 1, c, att)
          /\ RenewedAt(q, m, c) <=> RenewedAt(chain, h - 1, c)
      BY <3>1, <3>5, SameRow, SameBlocks
    <3> QED BY <2>2, <2>3, <3>3, <3>4, <3>7, <3>8
  <2> QED BY <2>4, <2>5
<1>6. ok(L)
  <2> DEFINE Bad == {i \in 0..L : ~ok(i)}
  <2> HIDE DEF ok
  <2> SUFFICES ASSUME Bad # {} PROVE FALSE
    BY <1>2
  <2>1. PICK i \in Bad : \A j \in Bad : i <= j
    <3>1. Bad \subseteq Nat
      BY <1>2
    <3> HIDE DEF Bad
    <3> QED BY <3>1, LeastNat
  <2>2. i \in 0..L /\ ~ok(i) /\ i # 0
    BY <1>4, <2>1
  <2>3. i \in 1..L /\ i - 1 \in 0..L /\ i - 1 \notin Bad
    BY <1>2, <2>1, <2>2
  <2> QED BY <1>5, <2>2, <2>3
<1> QED BY <1>3, <1>6

-----------------------------------------------------------------------------
(***************************************************************************)
(* The steps                                                               *)
(***************************************************************************)
(* The order of the actions after an update.                                *)
LEMMA Phases ==
    /\ DOMAIN NextPhase = {"updating", "reject", "broadcast", "prune"}
    /\ NextPhase["updating"] = "reject" /\ NextPhase["reject"] = "broadcast"
    /\ NextPhase["broadcast"] = "prune" /\ NextPhase["prune"] = "idle"
BY DEF NextPhase

(* What the invariant says of types.                                        *)
LEMMA InvFacts ==
    ASSUME ChainInv
    PROVE  /\ db \in [Contracts -> Rows] /\ announced \subseteq Contracts /\ creating \subseteq announced
           /\ scanned \in Seq(Blocks) /\ chain \in Seq(Blocks)
           /\ Len(scanned) \in Nat /\ Len(chain) \in Nat
           /\ \A c \in Contracts : db[c].known \in BOOLEAN
           /\ \A c \in DOMAIN Renewal : c \in Contracts /\ Renewal[c] \in Contracts /\ Renewal[c] # c
<1>1. db \in [Contracts -> Rows] /\ announced \subseteq Contracts /\ creating \subseteq announced
  BY DEF ChainInv, TypeOK, Rows
<1>2. /\ scanned \in Seq(Blocks) /\ chain \in Seq(Blocks)
      /\ Len(scanned) \in Nat /\ Len(chain) \in Nat
  BY LenProperties DEF ChainInv, Sane
<1>3. \A c \in Contracts : db[c].known \in BOOLEAN
  BY <1>1 DEF Rows
<1> QED BY <1>1, <1>2, <1>3, ConstantsAssumption

(* Steps that leave rows and scan alone.                                    *)
LEMMA RowsStay ==
    ASSUME RowsInv, UNCHANGED <<db, scanned, detached>>, tried \subseteq tried' PROVE RowsInv'
<1>1. Attached' = Attached
  BY DEF Attached
<1>2. ASSUME NEW c \in Attached
      PROVE  RowOK(db[c], scanned, Len(scanned), c, tried')
  <2>1. RowOK(db[c], scanned, Len(scanned), c, tried)
    BY DEF RowsInv
  <2> QED BY <2>1 DEF RowOK
<1> QED BY <1>1, <1>2 DEF RowsInv

LEMMA DueStays ==
    ASSUME DueInv, UNCHANGED <<db, scanned, detached, tried>>, phase' # "prune" \/ phase' = phase
    PROVE  DueInv'
BY DEF DueInv, Attached, ExpiredFor

(* The chain grows.                                                         *)
LEMMA MineKeeps == ASSUME ChainInv, Mine PROVE ChainInv'
<1>1. PICK b \in ValidBlocks(chain) : chain' = Append(chain, b)
  BY DEF Mine
<1>2. Sane(chain')
  <2>1. Sane(Append(chain, b))
    BY InvFacts, SaneNext DEF ChainInv, Mine
  <2> QED BY <1>1, <2>1
<1>3. /\ notified' = TRUE
      /\ UNCHANGED <<announced, reorgs, scanned, phase, tried, db, creating, detached, faults>>
  BY DEF Mine, Notify
<1>4. TypeOK' /\ KnownInv' /\ Sane(scanned)'
  BY <1>3 DEF ChainInv, TypeOK, KnownInv
<1> QED BY <1>2, <1>3, <1>4, RowsStay, DueStays DEF ChainInv

(* The chain loses its last blocks to another one.                          *)
LEMMA ReorgKeeps == ASSUME ChainInv, Reorg PROVE ChainInv'
<1>1. PICK n \in 1..MaxDepth :
        /\ n <= Len(chain)
        /\ \E b \in ValidBlocks(SubSeq(chain, 1, Len(chain) - n)) :
              chain' = Append(SubSeq(chain, 1, Len(chain) - n), b)
  BY DEF Reorg
<1> DEFINE base == SubSeq(chain, 1, Len(chain) - n)
<1>2. PICK b \in ValidBlocks(base) : chain' = Append(base, b)
  BY <1>1
<1>3. MaxDepth \in Nat /\ MaxHeight \in Nat /\ Len(chain) \in Nat /\ Len(chain) <= MaxHeight
  BY ConstantsAssumption, InvFacts DEF ChainInv, Sane
<1>4. Len(chain) - n \in 0..Len(chain)
  BY <1>1, <1>3
<1>5. base \in Seq(Blocks) /\ Len(base) = Len(chain) - n /\ \A i \in 1..Len(base) : chain[i] = base[i]
  BY <1>4, InvFacts, FirstElements
<1> HIDE DEF base
<1>6. Sane(base) /\ Len(base) < MaxHeight
  <2>1. Len(base) <= Len(chain) /\ Len(base) < MaxHeight
    BY <1>1, <1>3, <1>5
  <2> QED BY <1>5, <2>1, SanePart DEF ChainInv
<1>7. Sane(chain')
  <2>1. Sane(Append(base, b))
    BY <1>6, InvFacts, SaneNext
  <2> QED BY <1>2, <2>1
<1>8. notified' = TRUE /\ UNCHANGED <<announced, scanned, phase, tried, db, creating, detached, faults>>
  BY DEF Reorg, Notify
<1>9. TypeOK' /\ KnownInv' /\ Sane(scanned)'
  BY <1>8 DEF ChainInv, TypeOK, KnownInv
<1> QED BY <1>7, <1>8, <1>9, RowsStay, DueStays DEF ChainInv

(* Announcing contracts, and giving up on one.                              *)
LEMMA FormKeeps == ASSUME ChainInv, NEW c \in Contracts, FormContract(c) PROVE ChainInv'
<1>1. /\ c \notin announced \cup Renewals
      /\ announced' = announced \cup {c} /\ creating' = creating \cup {c}
      /\ UNCHANGED <<chain, scanned, notified, phase, tried, db, detached>>
  BY DEF FormContract, syncVars
<1>2. TypeOK' /\ Sane(chain)' /\ Sane(scanned)'
  BY <1>1 DEF ChainInv, TypeOK
<1>3. KnownInv'
  <2>1. \A d \in DOMAIN Renewal : Renewal[d] # c
    BY <1>1 DEF Renewals
  <2> QED BY <1>1, <2>1 DEF ChainInv, KnownInv
<1> QED BY <1>1, <1>2, <1>3, RowsStay, DueStays DEF ChainInv

LEMMA RenewKeeps == ASSUME ChainInv, NEW c \in Contracts, RenewContract(c) PROVE ChainInv'
<1>1. /\ c \in DOMAIN Renewal /\ db[c].known /\ Renewal[c] \notin announced
      /\ announced' = announced \cup {Renewal[c]} /\ creating' = creating \cup {Renewal[c]}
      /\ UNCHANGED <<chain, scanned, notified, phase, tried, db, detached>>
  BY DEF RenewContract, InUse, syncVars
<1>2. TypeOK' /\ Sane(chain)' /\ Sane(scanned)'
  BY <1>1, InvFacts DEF ChainInv, TypeOK
<1>3. KnownInv'
  <2>1. \A d \in DOMAIN Renewal : Renewal[d] = Renewal[c] => d = c
    BY <1>1, ConstantsAssumption
  <2> QED BY <1>1, <2>1 DEF ChainInv, KnownInv
<1> QED BY <1>1, <1>2, <1>3, RowsStay, DueStays DEF ChainInv

LEMMA LoseKeeps == ASSUME ChainInv, NEW c \in Contracts, LoseContract(c) PROVE ChainInv'
<1>1. /\ creating' = creating \ {c}
      /\ UNCHANGED <<chain, announced, scanned, notified, phase, tried, db, detached>>
  BY DEF LoseContract, syncVars, netVars
<1>2. TypeOK' /\ Sane(chain)' /\ Sane(scanned)' /\ KnownInv'
  BY <1>1 DEF ChainInv, TypeOK, KnownInv
<1> QED BY <1>1, <1>2, RowsStay, DueStays DEF ChainInv

(* Steps of the sync that only change its phase, and crashes.               *)
LEMMA PhaseKeeps ==
    ASSUME ChainInv, UNCHANGED <<chain, announced, scanned, tried, db, detached>>,
           creating' \subseteq creating, notified' \in BOOLEAN,
           phase' \in {"idle", "updating", "reject"}
    PROVE  ChainInv'
<1>1. TypeOK' /\ Sane(chain)' /\ Sane(scanned)' /\ KnownInv'
  BY Phases DEF ChainInv, TypeOK, KnownInv
<1> QED BY <1>1, RowsStay, DueStays DEF ChainInv

LEMMA QuietSteps ==
    ASSUME ChainInv, StartSync \/ Synced \/ ActionFails \/ Crash PROVE ChainInv'
<1>0. notified \in BOOLEAN
  BY DEF ChainInv, TypeOK
<1>1. CASE StartSync
  BY <1>1, PhaseKeeps DEF StartSync, netVars
<1>2. CASE Synced
  BY <1>0, <1>2, Phases, PhaseKeeps DEF Synced, netVars
<1>3. CASE ActionFails
  BY <1>0, <1>3, PhaseKeeps DEF ActionFails, netVars
<1>4. CASE Crash
  BY <1>4, PhaseKeeps DEF Crash, netVars
<1> QED BY <1>1, <1>2, <1>3, <1>4

(* A row is inserted.                                                       *)
LEMMA InsertKeeps ==
    ASSUME ChainInv, NEW c \in Contracts, Insert(c), db' \in [Contracts -> Rows],
           db'[c].known, db'[c].state = "pending", db'[c].elem = NoElement,
           \A d \in Contracts \ {c} :
              /\ db'[d].known = db[d].known /\ db'[d].state = db[d].state /\ db'[d].elem = db[d].elem
              /\ db[d].renewed => db'[d].renewed
              /\ ~db[d].known => db'[d] = db[d],
           \A d \in DOMAIN Renewal : Renewal[d] = c => db'[d].renewed
    PROVE  ChainInv'
<1>1. /\ c \in creating /\ creating' = creating \ {c}
      /\ detached' = IF Created(scanned, c) THEN detached \cup {c} ELSE detached
      /\ UNCHANGED <<chain, announced, scanned, notified, phase, tried>>
  BY DEF Insert, netVars, syncVars
<1>2. ~db[c].known
  BY <1>1 DEF ChainInv, KnownInv
<1>3. TypeOK'
  BY <1>1, InvFacts, ZenonT(60) DEF ChainInv, TypeOK, Rows
<1>4. Sane(chain)' /\ Sane(scanned)'
  BY <1>1 DEF ChainInv
<1>5. KnownInv'
  <2>1. \A d \in Contracts : db'[d].known => d \in announced' \ creating'
    BY <1>1 DEF ChainInv, KnownInv, TypeOK
  <2>2. \A d \in DOMAIN Renewal : Renewal[d] \in announced' => db'[d].known
    BY <1>1, InvFacts DEF ChainInv, KnownInv
  <2> QED BY <2>1, <2>2 DEF KnownInv
<1>6. Attached' \ {c} \subseteq Attached
  BY <1>1 DEF Attached
<1>7. c \in Attached' => ~OpenAt(scanned, Len(scanned), c) /\ ~EndedAt(scanned, Len(scanned), c)
  <2> SUFFICES ASSUME c \in Attached'
               PROVE  ~OpenAt(scanned, Len(scanned), c) /\ ~EndedAt(scanned, Len(scanned), c)
    OBVIOUS
  <2>1. ~Created(scanned, c)
    BY <1>1 DEF Attached
  <2>2. ~CreatedAt(scanned, Len(scanned), c) /\ Len(scanned) \in 0..Len(scanned)
    BY <2>1, InvFacts, ChainWords
  <2> QED BY <2>2, UncreatedIsQuiet DEF ChainInv
<1>8. \A d \in Attached' : RowOK(db'[d], scanned, Len(scanned), d, tried)
  <2> SUFFICES ASSUME NEW d \in Attached' PROVE RowOK(db'[d], scanned, Len(scanned), d, tried)
    OBVIOUS
  <2>1. CASE d = c
    BY <1>7, <2>1 DEF RowOK
  <2>2. CASE d # c
    <3>1. d \in Attached /\ d \in Contracts
      BY <1>6, <2>2 DEF Attached
    <3>2. RowOK(db[d], scanned, Len(scanned), d, tried)
      BY <3>1 DEF ChainInv, RowsInv
    <3> QED BY <2>2, <3>1, <3>2 DEF RowOK
  <2> QED BY <2>1, <2>2
<1>9. ASSUME NEW d \in DOMAIN Renewal, db'[d].known, db'[Renewal[d]].known,
             RenewedAt(scanned, Len(scanned), d)
      PROVE  db'[d].renewed
  <2>1. d \in Contracts /\ Renewal[d] \in Contracts /\ Renewal[d] # d
    BY InvFacts
  <2>2. CASE Renewal[d] = c
    BY <2>2
  <2>3. CASE Renewal[d] # c
    <3>1. db[Renewal[d]].known
      BY <1>9, <2>1, <2>3
    <3>2. db[d].known
      BY <2>1, <3>1 DEF ChainInv, KnownInv
    <3>3. d # c /\ db[d].renewed
      BY <1>2, <1>9, <3>1, <3>2 DEF ChainInv, RowsInv
    <3> QED BY <2>1, <3>3
  <2> QED BY <2>2, <2>3
<1>10. RowsInv'
  BY <1>1, <1>8, <1>9 DEF RowsInv
<1>11. DueInv'
  <2> SUFFICES ASSUME phase' = "prune", NEW d \in Attached', db'[d].state = "active",
                      db'[d].elem # NoElement, ExpiredFor(d, BroadcastBuffer)'
               PROVE  d \in tried' \/ db'[d].renewed
    BY DEF DueInv
  <2>1. d # c /\ d \in Contracts /\ d \in Attached
    BY <1>6 DEF Attached
  <2>2. ExpiredFor(d, BroadcastBuffer)
    BY <1>1 DEF ExpiredFor
  <2>3. d \in tried \/ db[d].renewed
    BY <1>1, <2>1, <2>2 DEF ChainInv, DueInv
  <2> QED BY <1>1, <2>1, <2>3
<1> QED BY <1>3, <1>4, <1>5, <1>10, <1>11 DEF ChainInv

(* The row of a contract that is still being created.                       *)
LEMMA UnknownRow ==
    ASSUME ChainInv, NEW c \in creating
    PROVE  /\ c \in Contracts /\ ~db[c].known
           /\ db[c].state = "pending" /\ db[c].elem = NoElement /\ ~db[c].renewed
<1>1. c \in Contracts
  BY InvFacts
<1>2. ~db[c].known
  BY <1>1 DEF ChainInv, KnownInv
<1> QED BY <1>1, <1>2 DEF ChainInv, TypeOK, Unknown

LEMMA AddFormedKeeps == ASSUME ChainInv, NEW c \in Contracts, AddFormedContract(c) PROVE ChainInv'
<1>1. c \notin Renewals /\ Insert(c) /\ db' = [db EXCEPT ![c].known = TRUE] /\ c \in creating
  BY DEF AddFormedContract, Insert
<1>2. db \in [Contracts -> Rows]
  BY InvFacts
<1>3. db' \in [Contracts -> Rows] /\ db'[c] = [db[c] EXCEPT !.known = TRUE]
  BY <1>1, <1>2 DEF Rows
<1>4. db'[c].known /\ db'[c].state = "pending" /\ db'[c].elem = NoElement
  BY <1>1, <1>2, <1>3, UnknownRow DEF Rows
<1>5. \A d \in Contracts \ {c} : db'[d] = db[d]
  BY <1>1, <1>2
<1>6. \A d \in DOMAIN Renewal : Renewal[d] # c
  BY <1>1 DEF Renewals
<1> QED BY <1>1, <1>3, <1>4, <1>5, <1>6, InsertKeeps

LEMMA AddRenewedKeeps == ASSUME ChainInv, NEW p \in Contracts, AddRenewedContract(p) PROVE ChainInv'
<1> DEFINE c == Renewal[p]
<1>1. /\ p \in DOMAIN Renewal /\ Insert(c) /\ c \in creating
      /\ db' = [db EXCEPT ![c].known = TRUE, ![p].renewed = TRUE]
  BY DEF AddRenewedContract, Insert
<1>2. db \in [Contracts -> Rows] /\ c \in Contracts /\ c # p
  BY <1>1, InvFacts
<1>3. db[p].known
  BY <1>1, InvFacts DEF ChainInv, KnownInv
<1>4. \A d \in DOMAIN Renewal : Renewal[d] = c => d = p
  BY <1>1, ConstantsAssumption
<1>5. ~db[c].known /\ db[c].state = "pending" /\ db[c].elem = NoElement
  BY <1>1, UnknownRow
<1> HIDE DEF c
<1>6. /\ db'[c] = [db[c] EXCEPT !.known = TRUE] /\ db'[p] = [db[p] EXCEPT !.renewed = TRUE]
      /\ \A d \in Contracts \ {c, p} : db'[d] = db[d]
      /\ db' = [d \in Contracts |-> db'[d]]
  BY <1>1, <1>2
<1>7. db'[c] \in Rows /\ db'[c].known /\ db'[c].state = "pending" /\ db'[c].elem = NoElement
  <2>1. db[c] \in Rows
    BY <1>2
  <2>2. ASSUME NEW row \in Rows
        PROVE  LET r == [row EXCEPT !.known = TRUE]
               IN  r \in Rows /\ r.known /\ r.state = row.state /\ r.elem = row.elem
    BY DEF Rows
  <2> QED BY <1>5, <1>6, <2>1, <2>2
<1>8. /\ db'[p] \in Rows /\ db'[p].renewed /\ db'[p].known = db[p].known
      /\ db'[p].state = db[p].state /\ db'[p].elem = db[p].elem
  <2>1. db[p] \in Rows
    BY <1>2
  <2>2. ASSUME NEW row \in Rows
        PROVE  LET r == [row EXCEPT !.renewed = TRUE]
               IN  /\ r \in Rows /\ r.renewed /\ r.known = row.known
                   /\ r.state = row.state /\ r.elem = row.elem
    BY DEF Rows
  <2> QED BY <1>6, <2>1, <2>2
<1>9. db' \in [Contracts -> Rows]
  BY <1>2, <1>6, <1>7, <1>8
<1>10. \A d \in Contracts \ {c} :
          /\ db'[d].known = db[d].known /\ db'[d].state = db[d].state /\ db'[d].elem = db[d].elem
          /\ db[d].renewed => db'[d].renewed
          /\ ~db[d].known => db'[d] = db[d]
  BY <1>3, <1>6, <1>8
<1>11. \A d \in DOMAIN Renewal : Renewal[d] = c => db'[d].renewed
  BY <1>4, <1>8
<1> QED BY <1>1, <1>2, <1>7, <1>9, <1>10, <1>11, InsertKeeps

(* A batch of blocks is scanned.                                            *)
LEMMA UpdateKeeps == ASSUME ChainInv, UpdateChainState PROVE ChainInv'
<1> DEFINE updates == UpdatesSince
<1>1. /\ phase = "updating" /\ scanned # chain
      /\ db' = [c \in Contracts |-> IF db[c].known THEN RowAfter(c, updates) ELSE db[c]]
      /\ scanned' = LET u == Last(updates) IN SubSeq(IF u.from < u.to THEN chain ELSE scanned, 1, u.to)
      /\ detached' = {c \in detached : \A i \in DOMAIN updates :
                         Diff("create", c, 0) \notin Diffs(updates[i].block)}
      /\ UNCHANGED <<chain, announced, notified, phase, tried, creating>>
  BY DEF UpdateChainState, netVars
<1>2. Sane(scanned) /\ Sane(chain) /\ db \in [Contracts -> Rows]
  BY InvFacts DEF ChainInv
<1>3. PICK base, R : IsBatch(updates, base, R)
  <2>1. \E base \in 0..Len(scanned) : \E R \in Nat : IsBatch(updates, base, R)
    BY <1>1, <1>2, UpdatesOfBatch DEF IsBatch
  <2> QED BY <2>1
<1> HIDE DEF updates
<1> DEFINE n == HeightAt(Len(updates), R, base)
           s == ChainAt(Len(updates), R)
<1>4. /\ n \in 0..Len(s) /\ scanned' \in Seq(Blocks) /\ Len(scanned') = n
      /\ (\A i \in 1..n : s[i] = scanned'[i]) /\ Sane(scanned')
  <2>1. IsPart(scanned', s, n)
    BY <1>1, <1>2, <1>3, ScannedAfterBatch
  <2> QED BY <2>1 DEF IsPart
<1>5. n \in Nat
  BY <1>4
<1> HIDE DEF n, s
<1>6. ASSUME NEW c \in Contracts, db[c].known
      PROVE  /\ db'[c] \in Rows /\ db'[c].known
             /\ (RowOK(db[c], scanned, Len(scanned), c, tried)
                 \/ \E i \in 1..Len(updates) : Creates(updates[i].block, c))
                    => RowOK(db'[c], scanned', Len(scanned'), c, tried)
             /\ (RenewedAt(scanned, Len(scanned), c) /\ db[Renewal[c]].known => db[c].renewed)
                    => (RenewedAt(scanned', Len(scanned'), c) /\ db[Renewal[c]].known => db'[c].renewed)
  <2> DEFINE r == RowAfter(c, updates)
  <2>1. db'[c] = r
    BY <1>1, <1>6
  <2>2. /\ r \in Rows /\ r.known = db[c].known
        /\ (RowOK(db[c], scanned, Len(scanned), c, tried)
            \/ \E i \in 1..Len(updates) : Creates(updates[i].block, c)) => RowOK(r, s, n, c, tried)
        /\ (RenewedAt(scanned, Len(scanned), c) /\ db[Renewal[c]].known => db[c].renewed)
               => (RenewedAt(s, n, c) /\ db[Renewal[c]].known => r.renewed)
    BY <1>2, <1>3, RowFollowsBatch DEF n, s
  <2> HIDE DEF r
  <2>3. RowOK(r, s, n, c, tried) <=> RowOK(r, scanned', n, c, tried)
    BY <1>4, <1>5, SameRow
  <2>4. RenewedAt(s, n, c) <=> RenewedAt(scanned', n, c)
    BY <1>4, <1>5, SameBlocks
  <2> QED BY <1>4, <1>6, <2>1, <2>2, <2>3, <2>4
<1>7. ASSUME NEW c \in Contracts, ~db[c].known PROVE db'[c] = db[c]
  BY <1>1, <1>7
<1>8. \A c \in Contracts : db'[c].known = db[c].known
  <2> SUFFICES ASSUME NEW c \in Contracts PROVE db'[c].known = db[c].known
    OBVIOUS
  <2>1. CASE db[c].known
    <3>1. db'[c].known /\ db'[c].known \in BOOLEAN
      BY <1>6, <2>1 DEF Rows
    <3>2. db[c].known \in BOOLEAN
      BY InvFacts
    <3> QED BY <2>1, <3>1, <3>2
  <2>2. CASE ~db[c].known
    BY <1>7, <2>2
  <2> QED BY <2>1, <2>2
<1>9. TypeOK'
  <2>1. \A c \in Contracts : db'[c] \in Rows
    BY <1>2, <1>6, <1>7
  <2>2. db' \in [Contracts -> Rows]
    BY <1>1, <2>1
  <2>3. \A c \in Contracts : ~db'[c].known => db'[c] = Unknown
    BY <1>7, <1>8 DEF ChainInv, TypeOK
  <2> QED BY <1>1, <2>2, <2>3 DEF ChainInv, TypeOK, Rows
<1>10. KnownInv'
  BY <1>1, <1>8, InvFacts DEF ChainInv, KnownInv
<1>11. \A i \in DOMAIN updates : i \in 1..Len(updates) /\ updates[i].block \in Blocks
  <2> SUFFICES ASSUME NEW i \in 1..Len(updates) PROVE updates[i].block \in Blocks
    BY <1>3 DEF IsBatch
  <2>1. Len(scanned) \in Nat /\ Len(chain) \in Nat /\ scanned \in Seq(Blocks) /\ chain \in Seq(Blocks)
    BY InvFacts
  <2>2. /\ base \in 0..Len(scanned) /\ base \in 0..Len(chain) /\ R \in Nat /\ R = Len(scanned) - base
        /\ Len(updates) \in 1..(R + (Len(chain) - base))
    BY <1>3 DEF IsBatch
  <2>3. CASE i <= R
    <3> DEFINE h == Len(scanned) + 1 - i
    <3>1. updates[i] = Update(scanned[h], h, h - 1)
      BY <1>3, <2>3 DEF IsBatch
    <3>2. h \in 1..Len(scanned)
      BY <2>1, <2>2, <2>3
    <3>3. scanned[h] \in Blocks
      BY <2>1, <3>2, ElementOfSeq
    <3> QED BY <3>1, <3>3 DEF Update
  <2>4. CASE ~(i <= R)
    <3> DEFINE h == base + (i - R)
    <3>1. updates[i] = Update(chain[h], h - 1, h)
      BY <1>3, <2>4 DEF IsBatch
    <3>2. h \in 1..Len(chain)
      BY <2>1, <2>2, <2>4
    <3>3. chain[h] \in Blocks
      BY <2>1, <3>2, ElementOfSeq
    <3> QED BY <3>1, <3>3 DEF Update
  <2> QED BY <2>3, <2>4
<1>12. \A c \in Attached' : RowOK(db'[c], scanned', Len(scanned'), c, tried)
  <2> SUFFICES ASSUME NEW c \in Attached'
               PROVE  RowOK(db'[c], scanned', Len(scanned'), c, tried)
    OBVIOUS
  <2>1. c \in Contracts /\ db[c].known /\ c \notin detached'
    BY <1>8 DEF Attached
  <2>2. CASE c \notin detached
    <3>1. RowOK(db[c], scanned, Len(scanned), c, tried)
      BY <2>1, <2>2 DEF ChainInv, RowsInv, Attached
    <3> QED BY <1>6, <2>1, <3>1
  <2>3. CASE c \in detached
    <3>1. PICK i \in DOMAIN updates : Diff("create", c, 0) \in Diffs(updates[i].block)
      BY <1>1, <2>1, <2>3
    <3>2. i \in 1..Len(updates) /\ Creates(updates[i].block, c)
      BY <1>11, <2>1, <3>1, CreateDiff
    <3> QED BY <1>6, <2>1, <3>2
  <2> QED BY <2>2, <2>3
<1>13. ASSUME NEW c \in DOMAIN Renewal, db'[c].known, db'[Renewal[c]].known,
              RenewedAt(scanned', Len(scanned'), c)
       PROVE  db'[c].renewed
  <2>1. c \in Contracts /\ db[c].known /\ db[Renewal[c]].known
    BY <1>8, <1>13, InvFacts
  <2>2. RenewedAt(scanned, Len(scanned), c) /\ db[Renewal[c]].known => db[c].renewed
    BY <2>1 DEF ChainInv, RowsInv
  <2> QED BY <1>6, <1>13, <2>1, <2>2
<1>14. RowsInv'
  BY <1>1, <1>12, <1>13 DEF RowsInv
<1>15. DueInv'
  BY <1>1 DEF DueInv
<1>16. Sane(chain)'
  BY <1>1, <1>2
<1> QED BY <1>4, <1>9, <1>10, <1>14, <1>15, <1>16 DEF ChainInv

(* The scan starts again: no known contract is attached.                    *)
LEMMA ResetKeeps == ASSUME ChainInv, ResetChainState PROVE ChainInv'
<1>1. /\ phase = "updating" /\ scanned' = <<>> /\ detached' = {c \in Contracts : db[c].known}
      /\ UNCHANGED <<chain, announced, notified, phase, tried, db, creating>>
  BY DEF ResetChainState, netVars
<1>2. Attached' = {}
  BY <1>1 DEF Attached
<1>3. Len(scanned') = 0 /\ scanned' \in Seq(Blocks)
  BY <1>1, EmptySeq
<1>4. Sane(scanned')
  BY <1>3, ConstantsAssumption DEF Sane
<1>5. \A c : ~RenewedAt(scanned', Len(scanned'), c)
  BY <1>3 DEF RenewedAt
<1>6. TypeOK' /\ KnownInv' /\ Sane(chain)'
  BY <1>1 DEF ChainInv, TypeOK, KnownInv
<1>7. RowsInv' /\ DueInv'
  BY <1>1, <1>2, <1>5 DEF RowsInv, DueInv
<1> QED BY <1>4, <1>6, <1>7 DEF ChainInv

(* Pending contracts are given up: a row in step that is pending is neither *)
(* open nor resolved on the chain.                                          *)
LEMMA RejectKeeps == ASSUME ChainInv, RejectPendingContracts PROVE ChainInv'
<1>1. PICK old \in SUBSET {c \in Contracts : db[c].known /\ db[c].state = "pending"} :
         db' = [c \in Contracts |-> IF c \in old THEN [db[c] EXCEPT !.state = "rejected"] ELSE db[c]]
  BY DEF RejectPendingContracts
<1>2. /\ phase' = "broadcast"
      /\ UNCHANGED <<chain, announced, scanned, notified, tried, creating, detached>>
  BY Phases DEF RejectPendingContracts, netVars
<1>3. db \in [Contracts -> Rows]
  BY InvFacts
<1>4. ASSUME NEW row \in Rows
      PROVE  LET r == [row EXCEPT !.state = "rejected"]
             IN  /\ r \in Rows /\ r.known = row.known /\ r.renewed = row.renewed
                 /\ r.elem = row.elem /\ r.state = "rejected"
  BY DEF Rows, States
<1>5. \A c \in Contracts :
         /\ db'[c] \in Rows /\ db'[c].known = db[c].known /\ db'[c].renewed = db[c].renewed
         /\ db'[c].elem = db[c].elem
         /\ db'[c] = db[c] \/ (db[c].known /\ db[c].state = "pending" /\ db'[c].state = "rejected")
  BY <1>1, <1>3, <1>4
<1>6. TypeOK' /\ KnownInv' /\ Sane(chain)' /\ Sane(scanned)'
  <2>1. db' \in [Contracts -> Rows]
    BY <1>1, <1>5
  <2>2. TypeOK'
    BY <1>2, <1>5, <2>1, Phases DEF ChainInv, TypeOK, Rows
  <2> QED BY <1>2, <1>5, <2>2, InvFacts DEF ChainInv, KnownInv
<1>7. Attached' = Attached
  BY <1>2, <1>5 DEF Attached
<1>8. \A c \in Attached : RowOK(db'[c], scanned, Len(scanned), c, tried)
  <2> SUFFICES ASSUME NEW c \in Attached PROVE RowOK(db'[c], scanned, Len(scanned), c, tried)
    OBVIOUS
  <2>1. c \in Contracts /\ RowOK(db[c], scanned, Len(scanned), c, tried)
    BY DEF Attached, ChainInv, RowsInv
  <2> QED BY <1>5, <2>1 DEF RowOK
<1>9. RowsInv'
  BY <1>2, <1>5, <1>7, <1>8, InvFacts DEF ChainInv, RowsInv
<1>10. DueInv'
  BY <1>2 DEF DueInv
<1> QED BY <1>6, <1>9, <1>10 DEF ChainInv

(* The broadcast attempts everything that the prune may take.               *)
LEMMA BroadcastKeeps == ASSUME ChainInv, BroadcastExpiredContracts PROVE ChainInv'
<1>1. /\ phase' = "prune" /\ tried' = tried \cup ForBroadcast
      /\ UNCHANGED <<chain, announced, scanned, notified, db, creating, detached>>
  BY Phases DEF BroadcastExpiredContracts, netVars
<1>2. ForBroadcast \subseteq Contracts
  BY DEF ForBroadcast
<1>3. TypeOK' /\ KnownInv' /\ Sane(chain)' /\ Sane(scanned)'
  BY <1>1, <1>2, Phases DEF ChainInv, TypeOK, KnownInv
<1>4. RowsInv'
  BY <1>1, RowsStay DEF ChainInv
<1>5. DueInv'
  BY <1>1 DEF DueInv, ForBroadcast, Attached, ExpiredFor
<1> QED BY <1>3, <1>4, <1>5 DEF ChainInv

(* The prune takes the elements of contracts that were due before.          *)
LEMMA PruneKeeps == ASSUME ChainInv, PruneExpiredContractElements PROVE ChainInv'
<1> DEFINE gone(c) == db[c].known /\ ExpiredFor(c, BroadcastBuffer + PruneBuffer)
<1>1. /\ phase = "prune" /\ phase' = "idle"
      /\ db' = [c \in Contracts |-> IF gone(c) THEN [db[c] EXCEPT !.elem = NoElement] ELSE db[c]]
      /\ UNCHANGED <<chain, announced, scanned, notified, tried, creating, detached>>
  BY Phases DEF PruneExpiredContractElements, netVars
<1>2. db \in [Contracts -> Rows]
  BY InvFacts
<1>3. ASSUME NEW row \in Rows
      PROVE  LET r == [row EXCEPT !.elem = NoElement]
             IN  /\ r \in Rows /\ r.known = row.known /\ r.renewed = row.renewed
                 /\ r.state = row.state /\ r.elem = NoElement
  BY ElementFacts DEF Rows
<1>4. \A c \in Contracts :
         /\ db'[c] \in Rows /\ db'[c].known = db[c].known /\ db'[c].renewed = db[c].renewed
         /\ db'[c].state = db[c].state
         /\ db'[c] = db[c] \/ (gone(c) /\ db'[c].elem = NoElement)
  <2> HIDE DEF gone
  <2> QED BY <1>1, <1>2, <1>3
<1>5. TypeOK' /\ KnownInv' /\ Sane(chain)' /\ Sane(scanned)'
  <2>1. db' \in [Contracts -> Rows]
    BY <1>1, <1>4
  <2>2. TypeOK'
    BY <1>1, <1>4, <2>1, Phases DEF ChainInv, TypeOK, Rows
  <2> QED BY <1>1, <1>4, <2>2, InvFacts DEF ChainInv, KnownInv
<1>6. Attached' = Attached
  BY <1>1, <1>4 DEF Attached
<1>7. \A c \in Attached : RowOK(db'[c], scanned, Len(scanned), c, tried)
  <2> SUFFICES ASSUME NEW c \in Attached PROVE RowOK(db'[c], scanned, Len(scanned), c, tried)
    OBVIOUS
  <2>1. c \in Contracts /\ RowOK(db[c], scanned, Len(scanned), c, tried)
    BY DEF Attached, ChainInv, RowsInv
  <2>2. gone(c) /\ db[c].state = "active" => c \in tried \/ db[c].renewed
    <3> SUFFICES ASSUME gone(c), db[c].state = "active" PROVE c \in tried \/ db[c].renewed
      OBVIOUS
    <3>1. ExpiredFor(c, BroadcastBuffer)
      <4>1. /\ BroadcastBuffer \in Nat /\ PruneBuffer \in Nat /\ ExpirationHeight[c] \in Nat
            /\ Len(scanned) \in Nat
        BY <2>1, ConstantsAssumption, InvFacts
      <4> QED BY <4>1 DEF ExpiredFor
    <3>2. CASE db[c].elem = NoElement
      BY <2>1, <3>2 DEF RowOK
    <3>3. CASE db[c].elem # NoElement
      BY <1>1, <3>1, <3>3 DEF ChainInv, DueInv
    <3> QED BY <3>2, <3>3
  <2> HIDE DEF gone
  <2> QED BY <1>4, <2>1, <2>2 DEF RowOK
<1>8. RowsInv'
  BY <1>1, <1>4, <1>6, <1>7, InvFacts, ZenonT(60) DEF ChainInv, RowsInv
<1>9. DueInv'
  BY <1>1 DEF DueInv
<1> QED BY <1>5, <1>8, <1>9 DEF ChainInv

-----------------------------------------------------------------------------
(***************************************************************************)
(* The theorems                                                            *)
(***************************************************************************)
(* The invariant holds at the start and in every step.                      *)
LEMMA ChainInit == ASSUME Init PROVE ChainInv
<1>1. /\ chain = <<>> /\ announced = {} /\ scanned = <<>> /\ notified = TRUE /\ phase = "idle"
      /\ db = [c \in Contracts |-> Unknown] /\ creating = {} /\ tried = {} /\ detached = {}
  BY DEF Init
<1>2. Unknown \in Rows /\ ~Unknown.known
  BY ElementFacts DEF Unknown, Rows, States
<1>3. TypeOK
  BY <1>1, <1>2 DEF TypeOK, Rows
<1>4. Len(<<>>) = 0 /\ <<>> \in Seq(Blocks)
  BY EmptySeq
<1>5. Sane(<<>>)
  BY <1>4, ConstantsAssumption DEF Sane
<1>6. \A c \in Contracts : ~db[c].known
  BY <1>1, <1>2
<1>7. KnownInv
  BY <1>1, <1>6 DEF KnownInv
<1>8. RowsInv /\ DueInv
  BY <1>1, <1>6, ConstantsAssumption DEF RowsInv, DueInv, Attached
<1> QED BY <1>1, <1>3, <1>5, <1>7, <1>8 DEF ChainInv

LEMMA ChainStep == ASSUME ChainInv, [Next]_vars PROVE ChainInv'
<1>1. CASE UNCHANGED vars
  <2>1. UNCHANGED <<chain, announced, scanned, notified, phase, tried, db, creating, detached>>
    BY <1>1 DEF vars, netVars, syncVars
  <2>2. TypeOK' /\ KnownInv' /\ Sane(chain)' /\ Sane(scanned)'
    BY <2>1 DEF ChainInv, TypeOK, KnownInv
  <2> QED BY <2>1, <2>2, RowsStay, DueStays DEF ChainInv
<1>2. CASE Mine
  BY <1>2, MineKeeps
<1>3. CASE Reorg
  BY <1>3, ReorgKeeps
<1>4. ASSUME NEW c \in Contracts,
             FormContract(c) \/ RenewContract(c) \/ LoseContract(c)
                \/ AddFormedContract(c) \/ AddRenewedContract(c)
      PROVE  ChainInv'
  BY <1>4, FormKeeps, RenewKeeps, LoseKeeps, AddFormedKeeps, AddRenewedKeeps
<1>5. CASE UpdateChainState
  BY <1>5, UpdateKeeps
<1>6. CASE RejectPendingContracts
  BY <1>6, RejectKeeps
<1>7. CASE BroadcastExpiredContracts
  BY <1>7, BroadcastKeeps
<1>8. CASE PruneExpiredContractElements
  BY <1>8, PruneKeeps
<1>9. CASE ResetChainState
  BY <1>9, ResetKeeps
<1>10. CASE StartSync \/ Synced \/ ActionFails \/ Crash
  BY <1>10, QuietSteps
<1> QED BY <1>1, <1>2, <1>3, <1>4, <1>5, <1>6, <1>7, <1>8, <1>9, <1>10 DEF Next, Sync

(* Chains, rows and what is due stay consistent, whatever blocks, reorgs,   *)
(* insertions, crashes and rescans happen.                                  *)
THEOREM ChainInvariance == Spec => []ChainInv
<1>1. Init => ChainInv
  BY ChainInit
<1>2. ChainInv /\ [Next]_vars => ChainInv'
  BY ChainStep
<1> QED BY <1>1, <1>2, PTL DEF Spec

(* The rows the contract manager updates in UpdateChainState are those of   *)
(* the scanned chain: state, element and renewal.                           *)
THEOREM RowsAreFollowing == Spec => []RowsFollowChain
<1>1. ChainInv => RowsFollowChain
  <2> SUFFICES ASSUME ChainInv PROVE RowsFollowChain
    OBVIOUS
  <2>1. \A c \in Contracts :
           /\ Resolved(scanned, c) <=> EndedAt(scanned, Len(scanned), c)
           /\ Has(scanned, c, {"renew"}) <=> RenewedAt(scanned, Len(scanned), c)
           /\ Open(scanned, c) <=> OpenAt(scanned, Len(scanned), c)
           /\ RevisionNumber(scanned, c) = RevAt(scanned, Len(scanned), c)
    BY InvFacts, ChainWords
  <2>2. \A c \in Attached : c \in Contracts /\ RowOK(db[c], scanned, Len(scanned), c, tried)
    BY DEF ChainInv, RowsInv, Attached
  <2>3. StateFollowsChain
    BY <2>1, <2>2 DEF StateFollowsChain, RowOK
  <2>4. ElementsFollowChain
    BY <2>1, <2>2 DEF ElementsFollowChain, RowOK
  <2>5. RenewalsFollowChain
    BY <2>1, InvFacts DEF RenewalsFollowChain, ChainInv, RowsInv
  <2> QED BY <2>3, <2>4, <2>5 DEF RowsFollowChain
<1> QED BY <1>1, ChainInvariance, PTL

(* PruneExpiredContractElements takes the element of an unresolved contract *)
(* only after broadcastExpiredContracts tried its resolution, successfully  *)
(* or not, or when the contract is considered renewed.                      *)
THEOREM PrunedAfterTry == Spec => []PrunedWasTried
<1>1. ChainInv => PrunedWasTried
  BY DEF ChainInv, RowsInv, RowOK, PrunedWasTried
<1> QED BY <1>1, ChainInvariance, PTL

=============================================================================
