\* Kokkos before 5.2, with OpenMP telling scratch sizes, replayed without Cuda.
SPECIFICATION Spec
CONSTANTS
    Span <- MCSpan
    EnabledSpaces = {"Serial", "OpenMP"}
    ScratchSpaces = {"OpenMP"}
    MinRank = 2
    AUTO = AUTO
    Shapes <- MCShapes
    CopiesThrow = TRUE
    Kernels <- MCKernels
    Arities <- MCArities
INVARIANTS
    LaunchedAsCaptured
    RefusedExactlyIfUnsupported
    NoForeignAccess
PROPERTIES
    ReplayLeavesNoTrace
CHECK_DEADLOCK FALSE
