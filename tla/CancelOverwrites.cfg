SPECIFICATION Spec
CONSTANTS
    j1 = j1
    j2 = j2
    NoJob = NoJob
    Job <- One
    Batch <- Alone
    RetainHistory = FALSE
    CancelBy <- One
    PurgeBy <- Nobody
    Mortal <- Nobody
    SubmitMayFail = FALSE
    MaxLate = 0
    MaxCrashes = 0
PROPERTIES TerminalIsFinal
\* jobs end, and a runner whose requests were lost waits for ever
CHECK_DEADLOCK FALSE
