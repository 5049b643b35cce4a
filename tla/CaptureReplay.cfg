\* One thread in a build with the compiler plugins; calls may fail; then the replay.
SPECIFICATION CompositionSpec
CONSTANTS
    t1 = t1
    Threads <- OneThread
    Spaces <- MCSpaces
    Labels <- UserLabels
    InternalLabels <- NoLabels
    ProbeOutcomes <- MCProbeOutcomes
    HasCompilerPlugins = TRUE
    HeaderSize = 2
    LegacyKokkos = FALSE
    Pointers = {10, 13}
    Sizes = {1}
    Slacks = {0}
    KernelLabels <- TwoLabels
    Modes = {"krepe", "manual"}
    ToolArgs <- AnyArgs
    MetadataKeys = {"m"}
    MetadataValues = {1}
    EarlyCalls = FALSE
    MaxLaunches = 2
    CanFail = TRUE
    Torn = Torn
    Skipped = Skipped
    Dangling = Dangling
    NoLaunch = NoLaunch
    NoValue = NoValue
    MaxReplays = 1
    PageSize = 4
    NoText = NoText
    NoDump = NoDump
    Damaged = Damaged
    Missing = Missing
INVARIANTS
    TypeOK
    DumpDescribesLaunch
    InputIsCaptures
    AcceptedDumpsAreWhole
    ReplayReproducesOutput
    ComparisonsAgreeWithCapture
PROPERTIES
    CompleteDumpsAreAccepted
\* The replay program ends.
CHECK_DEADLOCK FALSE
