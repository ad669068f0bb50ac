SPECIFICATION Spec
CONSTANTS
    j1 = j1
    j2 = j2
    NoJob = NoJob
    Job <- Two
    Batch <- Pair
    RetainHistory = TRUE
    CancelBy <- One
    PurgeBy <- Nobody
    Mortal <- Nobody
    SubmitMayFail = TRUE
    MaxLate = 0
    MaxCrashes = 1
INVARIANTS TypeOK WorkerIdentityKnown WorkHoldsReservation ReservationInv
\* jobs end, and a runner whose requests were lost waits for ever
CHECK_DEADLOCK FALSE
