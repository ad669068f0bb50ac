SPECIFICATION Spec
CONSTANTS
    n1 = n1  n2 = n2  n3 = n3
    a1 = a1  a2 = a2  a3 = a3
    m1 = m1  m2 = m2  m3 = m3
    NoRecord = NoRecord
    NoRequest = NoRequest
    Node = {n1, n2, n3}
    Addr = {a1, a2, a3}
    AddrsOf <- Addresses
    MaxStarts = 3  MaxJoins = 2  MaxOther = 1
    Member = {m1, m2, m3}
    MaxAttempts = 2  MaxLost = 2  MaxCancelled = 1
    Client = {"fetch", "push", "old"}
    Up <- Chunked
    Down = 1
    Unsupported = {"old"}
    MaxStops = 1
    Proc = {"p", "q"}
    Image = {"m"}
    ImageOf <- Shared
    Tar = {"p"}
    Foreign = {"p"}
    NoProc = "nobody"
    MaxRequests = 3  MaxRestarts = 1
    Job = {"j", "k"}
    MaxVolumes = 2
    User = {"u", "v"}
    NoUser = "nobody"
    Call = {1}
    Admin = {1, 2}
    MaxCommands = 5  MaxKeys = 2
    Process = {"a", "b", "c"}
    Profile = {"a", "b"}
    MaxCrashes = 1  MaxNonce = 5
    Batches <- UpToThree
    Registered = {"u"}
    Namespace = {"ns", "ms"}
    None = "none"
    Budgets <- TwoBudgets
    MaxChanges = 1
INVARIANT TypeOK
INVARIANT NetworkReadable
INVARIANT OwnRecordStays
INVARIANT JoinedKnowEachOther
INVARIANT BarrierHolds
INVARIANT WaitsForSomebody
INVARIANT TransfersKeptApart
INVARIANT RecordsFollowWork
INVARIANT ReadyRunnable
INVARIANT EndedNotWorking
INVARIANT ActsForKeyHolder
INVARIANT LostToOverlapOnly
INVARIANT AcceptedFits
\* every part stops when its bounds are used up
CHECK_DEADLOCK FALSE
