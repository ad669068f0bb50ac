SPECIFICATION Spec
CONSTANTS
    j1 = j1
    j2 = j2
    NoJob = NoJob
    Job <- Two
    Batch <- Pair
    RetainHistory = FALSE
    CancelBy <- Nobody
    PurgeBy <- One
    Mortal <- One
    SubmitMayFail = FALSE
    MaxLate = 1
    MaxCrashes = 0
PROPERTIES TerminalIsFinal NoIdentityAfterEnd CleanupOnce
\* jobs end, and a runner whose requests were lost waits for ever
CHECK_DEADLOCK FALSE
