--------------------------- MODULE MCSectorStore ---------------------------
(* SectorStore on small instances: c3 is the contract c1 can be renewed to. *)
EXTENDS SectorStore, TLC

CONSTANTS r1, r2, h1, h2, c1, c2, c3, s1, s2

MCSlabRoots        == (s1 :> {r1, r2}) @@ (s2 :> {r2})
MCMinShards        == (s1 :> 1) @@ (s2 :> 1)
MCHostOf           == (c1 :> h1) @@ (c2 :> h2) @@ (c3 :> h1)
MCProofHeight      == (c1 :> 1) @@ (c2 :> 1) @@ (c3 :> 2)
MCExpirationHeight == (c1 :> 1) @@ (c2 :> 2) @@ (c3 :> 2)
=============================================================================
