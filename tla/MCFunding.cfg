SPECIFICATION FundingSpec
CONSTANTS
    g1 = g1
    g2 = g2
    Pools = {g1, g2}
    FundContracts = {1}
    FundQuotas = {1}
    QuotaOf <- FirstQuota
    UploadTarget <- UploadTargets
    ReadTarget <- FreeReads
    ServiceTarget = 1
    FundBatch = 2
    FundInterval = 1
    MaxBackoff = 1
    MaxFunds = 4
PROPERTIES
    FundingEnds
CHECK_DEADLOCK FALSE
