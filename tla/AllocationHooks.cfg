\* Two adjacent blocks of one space, sizes around the header size.
SPECIFICATION HooksSpec
CONSTANTS
    Spaces <- CudaOnly
    Labels <- MCLabels
    InternalLabels <- MCInternalLabels
    ProbeOutcomes <- MCProbeOutcomes
    HasCompilerPlugins = TRUE
    HeaderSize = 2
    LegacyKokkos = TRUE
    Pointers = {1, 3, 5}
    Sizes = {0, 1, 2}
    Slacks = {0, 2}
INVARIANTS
    HooksTypeOK
    TableMatchesHeap
    DumpedBytesAreAllocated
    KnownSizeIsExact
    SelectionIsComplete
    SelectionIsTight
