------------------------------ MODULE MCSlabGC ------------------------------
(* SlabGC on small instances: accounts that share a slab, or one account    *)
(* with two slabs and an object made of both.                               *)
EXTENDS SlabGC, TLC

CONSTANTS a1, a2, o1, t1, t2

OneSlabObject  == o1 :> <<1>>
TwoSlabObject  == o1 :> <<2, 1>>
OneAtATime     == {<<s>> : s \in Slabs}
Backwards      == {<<1>>, <<2, 1>>}
Symmetry       == Permutations({t1, t2})
=============================================================================
