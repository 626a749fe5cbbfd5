------------------------------ MODULE MCFunding ------------------------------
(* The funding of one host that reads for free: the quota's read target on  *)
(* it is zero.                                                              *)
EXTENDS Funding

CONSTANTS g1, g2

UploadTargets == <<2>>
FreeReads     == <<0>>
FirstQuota    == [p \in Pools |-> 1]
==============================================================================
