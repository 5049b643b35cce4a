\* Two threads launch with and without the wrapper, in a build without plugins.
SPECIFICATION Spec
CONSTANTS
    t1 = t1
    t2 = t2
    Threads <- TwoThreads
    Spaces <- MCSpaces
    Labels <- UserLabels
    InternalLabels <- NoLabels
    ProbeOutcomes <- MCProbeOutcomes
    HasCompilerPlugins = FALSE
    HeaderSize = 2
    LegacyKokkos = FALSE
    Pointers = {10, 20}
    Sizes = {0, 1}
    Slacks = {0}
    KernelLabels <- OneLabel
    Modes = {"krepe", "plain"}
    ToolArgs <- FirstInvocation
    MetadataKeys = {}
    MetadataValues = {}
    EarlyCalls = FALSE
    MaxLaunches = 2
    CanFail = FALSE
    Torn = Torn
    Skipped = Skipped
    Dangling = Dangling
    NoLaunch = NoLaunch
    NoValue = NoValue
INVARIANTS
    OneRequestedDump
    KernelStatesAreExact
    InBeforeOutAfter
    CapturesAreDumped
SYMMETRY ThreadSymmetry
