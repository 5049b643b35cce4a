\* krepe::add_metadata is called before Kokkos::initialize.
SPECIFICATION Spec
CONSTANTS
    t1 = t1
    t2 = t2
    Threads <- OneThread
    Spaces <- MCSpaces
    Labels <- UserLabels
    InternalLabels <- NoLabels
    ProbeOutcomes <- MCProbeOutcomes
    HasCompilerPlugins = FALSE
    HeaderSize = 2
    LegacyKokkos = FALSE
    Pointers = {10, 20}
    Sizes = {1}
    Slacks = {0}
    KernelLabels <- OneLabel
    Modes = {"krepe"}
    ToolArgs <- FirstInvocation
    MetadataKeys = {"m"}
    MetadataValues = {1}
    EarlyCalls = TRUE
    MaxLaunches = 2
    CanFail = FALSE
    Torn = Torn
    Skipped = Skipped
    Dangling = Dangling
    NoLaunch = NoLaunch
    NoValue = NoValue
INVARIANTS
    SavesPolicyAndFunctor
