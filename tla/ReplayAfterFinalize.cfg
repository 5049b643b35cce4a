\* The program goes on to replay after krepe::finalize.
SPECIFICATION Spec
CONSTANTS
    Files <- TwoFiles
    CommandLines <- PlainLines
    HasDeviceSpace = TRUE
    DeviceSupport = {TRUE, FALSE}
    Occupied = {2}
    CanFail = FALSE
    ReplaysAnytime = TRUE
    MaxReplays = 2
    NoText = NoText
    NoDump = NoDump
    Skipped = Skipped
    Damaged = Damaged
    Missing = Missing
INVARIANTS
    NotUsableWhenFinalized
\* The program ends once it has finalized KREPE and Kokkos.
CHECK_DEADLOCK FALSE
