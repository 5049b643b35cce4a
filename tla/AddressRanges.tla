--------------------------- MODULE AddressRanges ---------------------------
(***************************************************************************)
(* Where the replayer maps memory: get_allocation_address (replay/         *)
(* allocation.hpp) rounds each dumped allocation to whole pages, and       *)
(* compute_allocations (replay/kernel_replayer.cpp) walks the std::set of  *)
(* these ranges in order and merges those that overlap.  Each range of     *)
(* `allocs' is then mapped by one call with MAP_FIXED_NOREPLACE, which     *)
(* fails if two of them overlap, and the bytes of the dump are copied to   *)
(* the original addresses, which faults if one of them is not covered.     *)
(***************************************************************************)
EXTENDS Naturals, FiniteSets

CONSTANTS
    Granularity,  \* page size of the host, or granularity of the device
    Entries       \* possible nonempty allocations <<address, size>> of a dump

ASSUME RangesAssumption ==
    /\ Granularity \in Nat \ {0}
    /\ Entries \subseteq Nat \X (Nat \ {0})

VARIABLES
    entries,    \* allocations of one memory space in the dump
    remaining,  \* rounded ranges from the iterator on
    current,    \* <<current_address, current_size>>, in a set; empty at first
    allocs,     \* ranges emitted so far
    returned    \* compute_allocations has returned

rangesVars == <<entries, remaining, current, allocs, returned>>

End(range) == range[1] + range[2]

\* Mutant: one page too many when the end is aligned.
GetAllocationAddress_RoundUp(target, size) ==
    LET aligned == (target \div Granularity) * Granularity
        covered == size + (target - aligned)
    IN  <<aligned, ((covered \div Granularity) + 1) * Granularity>>

\* Mutant: the address is not rounded down.
GetAllocationAddress_Unaligned(target, size) ==
    <<target, (((size - 1) \div Granularity) + 1) * Granularity>>

GetAllocationAddress(target, size) ==
    LET aligned == (target \div Granularity) * Granularity
        covered == size + (target - aligned)
    IN  <<aligned, (((covered - 1) \div Granularity) + 1) * Granularity>>

Rounded(e) == GetAllocationAddress(e[1], e[2])

(* The order of std::pair, in which std::set iterates. *)
IsFirst(range, ranges) ==
    \A r \in ranges : range[1] < r[1] \/ (range[1] = r[1] /\ range[2] <= r[2])

(* The set that get_hdf5_dataset_alloc_info collects. *)
RangesInit ==
    /\ entries \in SUBSET Entries
    /\ remaining = {Rounded(e) : e \in entries}
    /\ current = {}
    /\ allocs = {}
    /\ returned = FALSE

(* The first range. *)
Start(range) ==
    /\ current = {}
    /\ current' = {range}
    /\ UNCHANGED allocs

\* Mutant: the merged range ends where the last one ends.
Merge_Shrinking(range) ==
    \E c \in current :
        /\ End(c) > range[1]
        /\ current' = {<<c[1], End(range) - c[1]>>}
        /\ UNCHANGED allocs

(* The range overlaps the current one, which is extended to its end. *)
Merge(range) ==
    \E c \in current :
        /\ End(c) > range[1]
        /\ LET newSize == End(range) - c[1]
           IN  current' = {<<c[1], IF newSize > c[2] THEN newSize ELSE c[2]>>}
        /\ UNCHANGED allocs

\* Mutant: only ranges with the same start are seen to overlap.
Emit_DifferentStart(range) ==
    \E c \in current :
        /\ c[1] # range[1]
        /\ allocs' = allocs \cup {c}
        /\ current' = {range}

(* The range starts at or after the end of the current one. *)
Emit(range) ==
    \E c \in current :
        /\ ~(End(c) > range[1])
        /\ allocs' = allocs \cup {c}
        /\ current' = {range}

Iterate ==
    \E range \in remaining :
        /\ IsFirst(range, remaining)
        /\ remaining' = remaining \ {range}
        /\ Start(range) \/ Merge(range) \/ Emit(range)
        /\ UNCHANGED <<entries, returned>>

(* The last range is emitted; with no allocation the result is empty. *)
Finish ==
    /\ ~returned /\ remaining = {}
    /\ allocs' = allocs \cup current
    /\ current' = {}
    /\ returned' = TRUE
    /\ UNCHANGED <<entries, remaining>>

RangesNext == Iterate \/ Finish

RangesSpec == RangesInit /\ [][RangesNext]_rangesVars

-----------------------------------------------------------------------------
RangesTypeOK ==
    /\ entries \subseteq Nat \X (Nat \ {0})
    /\ remaining \subseteq Nat \X (Nat \ {0})
    /\ current \subseteq Nat \X (Nat \ {0})
    /\ allocs \subseteq Nat \X (Nat \ {0})
    /\ returned \in BOOLEAN

(* Every dumped allocation lies in one mapped range, so that its bytes can *)
(* be restored at their original address.                                  *)
EveryEntryIsCovered ==
    returned => \A e \in entries : \E a \in allocs : a[1] <= e[1] /\ End(e) <= End(a)

(* No two mapped ranges overlap, so that MAP_FIXED_NOREPLACE accepts each  *)
(* of them even when dumped allocations share a page.                      *)
RangesAreDisjoint ==
    \A a, b \in allocs : a # b => End(a) <= b[1] \/ End(b) <= a[1]

(* Every range starts at a multiple of the granularity and is a number of  *)
(* whole pages, as host_allocate asserts and the device drivers require.   *)
RangesAreAligned ==
    \A a \in allocs : a[1] % Granularity = 0 /\ a[2] % Granularity = 0

(* No page is mapped that holds no byte of a dumped allocation: a page too *)
(* many may collide with memory the replay program already has.            *)
NoPageIsWasted ==
    \A a \in allocs : \A i \in 0 .. (a[2] \div Granularity) - 1 :
        \E e \in entries :
            /\ e[1] < a[1] + (i + 1) * Granularity
            /\ a[1] + i * Granularity < End(e)

=============================================================================
