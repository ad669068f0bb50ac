SPECIFICATION Spec
CONSTANTS
    n1 = n1
    n2 = n2
    n3 = n3
    j1 = j1
    j2 = j2
    NoNode = NoNode
    Node <- TwoNodes
    Job <- Jobs
    Resource <- Resources
    Home <- HomeOf
    Demand <- Tight
    Budget <- Small
    UpdateBy <- Nowhere
    NewBudget <- Unchanged
    JoinBy <- Both
    MayTimeOut = TRUE
    MayLose = TRUE
INVARIANTS NoOvercommit
\* all reservations are decided and released in the end
CHECK_DEADLOCK FALSE
