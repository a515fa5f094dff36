SPECIFICATION FairSpec
CONSTANTS
    b1 = b1
    b2 = b2
    b3 = b3
    Sessions = {s1, s2, s3}
    Bins = {b1, b2, b3}
    NoBin = NoBin
    Seed = Seed
    StockedBins = {b1}
    UniqueBins = {b3}
    Opening <- MCOpening
    Jobs <- MCJobs
INVARIANTS
    NonNegative
    OneRowWhereUnique
    BalanceFollowsLedger
PROPERTIES
    RequestsAnswered
    ImplementsLedger
