\* Pages of three bytes and up to three allocations, overlapping or not.
SPECIFICATION MCSpec
CONSTANTS
    Granularity = 3
    MaxAddress = 6
    MaxSize = 5
    Entries <- MCEntries
    Backends = {"host", "cuda", "hip"}
    Elsewhere = 6
    CallsFail = TRUE
    MaxTaken = 1
INVARIANTS
    EveryEntryIsCovered
    RangesAreDisjoint
    RangesAreAligned
    NoPageIsWasted
    EntriesAreMapped
    NothingStaysMapped
    PagesHaveOneOwner
\* The guard is destroyed in the end.
CHECK_DEADLOCK FALSE
