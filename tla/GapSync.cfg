SPECIFICATION TSpec
CONSTANTS
    Seqs <- FromZero
    ConfirmDelay = 1
    MinReportInterval = 2
    MaxTime = 5
    MergeDistance = 1
    MaxRangeLen = 2
    MaxRequests = 2
    MinInterval = 3
INVARIANTS TypeOK RangesSeparated  ContigExact ListedBelowHighest RequestsBounded LowestGapsFirst
CHECK_DEADLOCK FALSE
