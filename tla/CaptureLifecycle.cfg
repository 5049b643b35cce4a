\* Two threads in a build with the plugins, one allocation; every HDF5 call may fail.
SPECIFICATION Spec
CONSTANTS
    t1 = t1
    t2 = t2
    Threads <- TwoThreads
    Spaces <- MCSpaces
    Labels <- UserLabels
    InternalLabels <- NoLabels
    ProbeOutcomes <- MCProbeOutcomes
    HasCompilerPlugins = TRUE
    HeaderSize = 2
    LegacyKokkos = FALSE
    Pointers = {10}
    Sizes = {1}
    Slacks = {0}
    KernelLabels <- OneLabel
    Modes = {"krepe"}
    ToolArgs <- FirstInvocation
    MetadataKeys = {}
    MetadataValues = {}
    EarlyCalls = FALSE
    MaxLaunches = 2
    CanFail = TRUE
    Torn = Torn
    Skipped = Skipped
    Dangling = Dangling
    NoLaunch = NoLaunch
    NoValue = NoValue
PROPERTIES
    ImplementsLifecycle
    DumpSettles
    LaunchesReturn
