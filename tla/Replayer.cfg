\* A build with a device; every kind of dump, complete or not, and failing reads.
SPECIFICATION Spec
CONSTANTS
    Files <- MCFiles
    CommandLines <- MCCommandLines
    HasDeviceSpace = TRUE
    DeviceSupport = {TRUE, FALSE}
    Occupied = {2}
    CanFail = TRUE
    ReplaysAnytime = FALSE
    MaxReplays = 2
    NoText = NoText
    NoDump = NoDump
    Skipped = Skipped
    Damaged = Damaged
    Missing = Missing
INVARIANTS
    ReplayerTypeOK
    StaticsFollowGuard
    LoadedFromDump
    ReplayedFromInputs
    AcceptedComparisonsAgree
    ArgumentsAreKept
PROPERTIES
    CallsReturn
\* The program ends once it has finalized KREPE and Kokkos.
CHECK_DEADLOCK FALSE
