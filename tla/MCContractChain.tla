--------------------------- MODULE MCContractChain ---------------------------
(* A contract and its renewal.                                              *)
EXTENDS ContractChain

CONSTANTS c1, c2

Renews      == c1 :> c2
Proofs      == c1 :> 3 @@ c2 :> 4
Expirations == c1 :> 4 @@ c2 :> 5
=============================================================================
