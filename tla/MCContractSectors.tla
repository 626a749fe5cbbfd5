------------------------- MODULE MCContractSectors -------------------------
(* Small instances of ContractSectors.                                      *)
EXTENDS ContractSectors

CONSTANTS r1, r2, c1, c2

Symmetry == Permutations(Roots)
=============================================================================
