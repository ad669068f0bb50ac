SPECIFICATION FairSpec
CONSTANTS
    j1 = j1
    j2 = j2
    NoJob = NoJob
    Job <- Two
    Batch <- Pair
    RetainHistory = FALSE
    CancelBy <- Nobody
    PurgeBy <- Nobody
    Mortal <- Nobody
    SubmitMayFail = FALSE
    MaxLate = 0
    MaxCrashes = 0
PROPERTIES JobStateSpec CancelStops EndLeavesNothing
\* jobs end, and a runner whose requests were lost waits for ever
CHECK_DEADLOCK FALSE
