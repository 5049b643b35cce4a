-------------------------- MODULE AllocationHooks --------------------------
(***************************************************************************)
(* The tool's Kokkos allocation callbacks (capture/kokkos_hooks.cpp):      *)
(* which allocations are tracked, where their user data lies and how many  *)
(* bytes of it may be read.  Kokkos and the allocator are the environment: *)
(* `heap' is what is physically allocated, and a View hands out pointers   *)
(* into the user data of one of these allocations.                         *)
(***************************************************************************)
EXTENDS AllocationTracker

CONSTANTS
    HeaderSize,      \* KREPE_KOKKOS_ALLOCATION_HEADER_SIZE
    InternalLabels,  \* labels with one of Kokkos' own prefixes
    LegacyKokkos,    \* Kokkos <= 5.2.0: an empty View reports the header size
    ProbeOutcomes,   \* can the physical bounds be queried in a space?
    Pointers,        \* addresses the allocators may return
    Sizes,           \* bytes of user data of an allocation
    Slacks           \* bytes an allocator adds to what was requested

ASSUME HooksAssumption ==
    /\ HeaderSize \in Nat \ {0}
    /\ InternalLabels \subseteq Labels
    /\ LegacyKokkos \in BOOLEAN
    /\ ProbeOutcomes \in [Spaces -> SUBSET BOOLEAN]
    /\ Pointers \subseteq Nat \ {Null}
    /\ Sizes \subseteq Nat
    /\ Slacks \subseteq Nat

VARIABLES
    heap,     \* live allocations: key -> [label, size, usable]
    views,    \* keys of the allocations whose Views are registered
    foreign   \* is a pointer registered that belongs to no live allocation?

environmentVars == <<heap, views, foreign>>
hooksVars == <<trackerVars, environmentVars>>

HooksTypeOK ==
    /\ TrackerTypeOK
    /\ DOMAIN heap \subseteq Keys
    /\ \A k \in DOMAIN heap :
         heap[k] \in [label : Labels, size : Nat, usable : Nat]
    /\ views \subseteq DOMAIN heap
    /\ foreign \in BOOLEAN

HooksInit ==
    /\ TrackerInit
    /\ heap = [k \in {} |-> Null]
    /\ views = {}
    /\ foreign = FALSE

-----------------------------------------------------------------------------
(* The sizes the tool works out.                                           *)

(* std::optional<std::uint64_t> *)
Known(n) == [known |-> TRUE, value |-> n]
Unknown == [known |-> FALSE, value |-> 0]

AllocationDataPointer(ptr) == ptr + HeaderSize

ShouldTrackAllocation(label, ptr) == ptr # Null /\ label \notin InternalLabels

\* Mutant: a block with exactly the reported bytes left is taken for an empty one.
ValidatedDataSize_OffByOne(base, allocationSize, data, reported) ==
    IF data < base \/ data - base > allocationSize
    THEN Unknown
    ELSE IF allocationSize - (data - base) <= reported
    THEN Known(0)
    ELSE Known(reported)

ValidatedDataSize(base, allocationSize, data, reported) ==
    IF data < base \/ data - base > allocationSize
    THEN Unknown
    ELSE IF data - base = allocationSize \/ allocationSize - (data - base) < reported
    THEN Known(0)
    ELSE Known(reported)

\* Mutant: the header is taken to be part of the reported size.
AllocationDataSize_Total(ptr, usable, probed, reported) ==
    Known(reported - HeaderSize)

\* Mutant: the header size reported for an empty View is trusted.
AllocationDataSize_Trusting(ptr, usable, probed, reported) == Known(reported)

(* `probed' tells whether the pointer attributes of a Cuda or HIP space, or *)
(* malloc_usable_size in the host space, gave the physical size.           *)
AllocationDataSize(ptr, usable, probed, reported) ==
    IF reported # HeaderSize
    THEN Known(reported)
    ELSE IF probed
    THEN ValidatedDataSize(ptr, usable, AllocationDataPointer(ptr), reported)
    ELSE Unknown

(* What Kokkos passes to kokkosp_allocate_data for `size' bytes of user data. *)
ReportedSize(size) == IF LegacyKokkos /\ size = 0 THEN HeaderSize ELSE size

-----------------------------------------------------------------------------
(* The callbacks.                                                          *)

(* The physical block [ptr, ptr + usable) overlaps no live one of its space. *)
IsFree(space, ptr, usable) ==
    \A k \in DOMAIN heap :
        k[1] = space => ptr + usable <= k[2] \/ k[2] + heap[k].usable <= ptr

(* Kokkos calls the hook after the allocation: kokkosp_allocate_data.      *)
AllocateData(space, label, ptr, size, slack, probed) ==
    LET usable == HeaderSize + size + slack
        reported == ReportedSize(size)
        dataSize == AllocationDataSize(ptr, usable, probed, reported)
    IN  /\ IsFree(space, ptr, usable)
        /\ heap' = [k \in DOMAIN heap \cup {<<space, ptr>>} |->
                      IF k = <<space, ptr>>
                      THEN [label |-> label, size |-> size, usable |-> usable]
                      ELSE heap[k]]
        /\ IF ShouldTrackAllocation(label, ptr)
           THEN RecordAllocation(space, ptr,
                  [label |-> label, pData |-> AllocationDataPointer(ptr),
                   size |-> dataSize.value, reportedSize |-> reported,
                   dataSizeKnown |-> dataSize.known])
           ELSE UNCHANGED trackerVars
        /\ UNCHANGED <<views, foreign>>

(* Kokkos calls the hook before it frees: kokkosp_deallocate_data, which   *)
(* filters no label.  A pointer registered into the block is then dangling. *)
DeallocateData(k) ==
    /\ heap' = [h \in DOMAIN heap \ {k} |-> heap[h]]
    /\ RecordDeallocation(k[1], k[2])
    /\ views' = views \ {k}
    /\ foreign' = (foreign \/ k \in views)

(* krepe_kernel_dump_register_view of View::data(): the start of the user  *)
(* data, a subview's offset into it, or its end when the subview is empty. *)
RegisterView(k, offset) ==
    /\ RecordUsedAllocation(k[1], AllocationDataPointer(k[2]) + offset)
    /\ views' = views \cup {k}
    /\ UNCHANGED <<heap, foreign>>

(* The same call for a View with no Kokkos allocation: a default-initialised *)
(* one (null) or an unmanaged one (an address outside all live blocks).    *)
RegisterUnmanagedView(space, address) ==
    /\ \A k \in DOMAIN heap :
         k[1] = space => address \notin k[2] .. (k[2] + heap[k].usable - 1)
    /\ RecordUsedAllocation(space, address)
    /\ foreign' = (foreign \/ address # Null)
    /\ UNCHANGED <<heap, views>>

(* krepe_kernel_dump_clear_registered_views *)
ClearRegisteredViews ==
    /\ ClearUsedAllocations
    /\ views' = {}
    /\ foreign' = FALSE
    /\ UNCHANGED heap

HooksNext ==
    \/ \E space \in Spaces, label \in Labels, ptr \in Pointers,
          size \in Sizes, slack \in Slacks :
         \E probed \in ProbeOutcomes[space] :
            AllocateData(space, label, ptr, size, slack, probed)
    \/ \E k \in DOMAIN heap : DeallocateData(k)
    \/ \E k \in DOMAIN heap : \E offset \in 0 .. heap[k].size : RegisterView(k, offset)
    \/ \E space \in Spaces, address \in Pointers \cup {Null} :
         RegisterUnmanagedView(space, address)
    \/ ClearRegisteredViews

HooksSpec == HooksInit /\ [][HooksNext]_hooksVars

-----------------------------------------------------------------------------
(* Properties.                                                             *)

(* The table holds the live allocations with a user label and no other one, *)
(* under the label they were created with: no deallocation leaves a record *)
(* behind and no reused address keeps the record of its earlier owner.     *)
TableMatchesHeap ==
    /\ DOMAIN activeAllocations =
         {k \in DOMAIN heap : heap[k].label \notin InternalLabels}
    /\ \A k \in DOMAIN activeAllocations :
         /\ activeAllocations[k].label = heap[k].label
         /\ activeAllocations[k].pData = k[2] + HeaderSize

(* The bytes copied into a dump never reach past the physical allocation,  *)
(* even when Kokkos reports the header size for an empty View.             *)
DumpedBytesAreAllocated ==
    \A k \in DOMAIN activeAllocations :
        activeAllocations[k].pData + activeAllocations[k].size
            <= k[2] + heap[k].usable

(* A known size is the user's, so nothing of a View is lost; the exception *)
(* is an empty View of an old Kokkos in a block with room for a header of  *)
(* data, which allocation_data_size cannot tell from a View of that size.  *)
KnownSizeIsExact ==
    \A k \in DOMAIN activeAllocations :
        LET record == activeAllocations[k]
        IN  IF record.dataSizeKnown
            THEN \/ record.size = heap[k].size
                 \/ /\ LegacyKokkos /\ heap[k].size = 0
                    /\ record.size = HeaderSize
                    /\ heap[k].usable >= 2 * HeaderSize
            ELSE record.size = 0 /\ heap[k].size \in {0, HeaderSize}

(* With the plugins, snapshot() keeps every allocation that a registered   *)
(* View points into, whatever else is registered, with one exception: the  *)
(* size of an allocation of as many bytes as a header has is recorded as 0 *)
(* when the allocator cannot be queried, and a View at an offset into it   *)
(* is beyond that size; the allocation is left out of the dump without a   *)
(* word unless a View of its start is registered too.                      *)
SelectionIsComplete ==
    HasCompilerPlugins =>
        \A k \in views \cap DOMAIN activeAllocations :
            \/ k \in SnapshotKeys
            \/ /\ ~activeAllocations[k].dataSizeKnown /\ heap[k].size = HeaderSize
               /\ activeAllocations[k].pData \notin usedAllocations[k[1]]

(* And it keeps no other one: the inclusive upper bound never reaches the  *)
(* neighbouring allocation, because a header separates their user data.    *)
SelectionIsTight ==
    (HasCompilerPlugins /\ ~foreign) => SnapshotKeys \subseteq views

=============================================================================
