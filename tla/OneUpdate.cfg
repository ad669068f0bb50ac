SPECIFICATION Spec
CONSTANTS
    n1 = n1
    n2 = n2
    n3 = n3
    j1 = j1
    j2 = j2
    NoNode = NoNode
    Node <- ThreeNodes
    Job <- OneJob
    Resource <- Resources
    Home <- HomeOfOne
    Demand <- One
    Budget <- Small
    UpdateBy <- First
    NewBudget <- Lowered
    JoinBy <- Nowhere
    MayTimeOut = TRUE
    MayLose = FALSE
INVARIANTS BudgetsAgree
\* all reservations are decided and released in the end
CHECK_DEADLOCK FALSE
