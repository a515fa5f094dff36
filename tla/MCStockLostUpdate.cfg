SPECIFICATION Spec
CONSTANTS
    b1 = b1
    b2 = b2
    b3 = b3
    Sessions = {s1, s2}
    Bins = {b1}
    NoBin = NoBin
    Seed = Seed
    StockedBins = {b1}
    UniqueBins = {}
    Opening <- MCOpening
    Jobs <- MCReceipts
INVARIANT
    StockMatchesLedger
