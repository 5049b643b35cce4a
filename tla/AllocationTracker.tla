------------------------- MODULE AllocationTracker -------------------------
(***************************************************************************)
(* The tool's table of live Kokkos allocations and of the View pointers    *)
(* registered for the next dump: krepe::AllocationTracker                  *)
(* (capture/allocation_tracker.{hpp,cpp}).  Every method holds mutex_ from *)
(* its first access to its last, so each one is a single step.             *)
(***************************************************************************)
EXTENDS Naturals, FiniteSetsExt

CONSTANTS
    Spaces,             \* names of the memory spaces Kokkos reports
    Labels,             \* allocation labels
    HasCompilerPlugins  \* KREPE_HAS_COMPILER_PLUGINS: View pointers are registered

ASSUME PluginsAssumption == HasCompilerPlugins \in BOOLEAN

VARIABLES
    activeAllocations,  \* active_allocations_, keyed by <<space, ptr>>
    usedAllocations     \* used_allocations_, the registered pointers of each space

trackerVars == <<activeAllocations, usedAllocations>>

Null == 0
Keys == Spaces \X (Nat \ {Null})

(* AllocationRecord; its space is the first component of the key. *)
Records == [label : Labels, pData : Nat, size : Nat,
            reportedSize : Nat, dataSizeKnown : BOOLEAN]

TrackerTypeOK ==
    /\ DOMAIN activeAllocations \subseteq Keys
    /\ \A k \in DOMAIN activeAllocations : activeAllocations[k] \in Records
    /\ usedAllocations \in [Spaces -> SUBSET Nat]

TrackerInit ==
    /\ activeAllocations = [k \in {} |-> Null]
    /\ usedAllocations = [s \in Spaces |-> {}]

RecordAllocation(space, ptr, record) ==
    /\ activeAllocations' =
         IF ptr = Null
         THEN activeAllocations
         ELSE [k \in DOMAIN activeAllocations \cup {<<space, ptr>>} |->
                 IF k = <<space, ptr>> THEN record ELSE activeAllocations[k]]
    /\ UNCHANGED usedAllocations

\* Mutant: the record of a freed allocation stays in the table.
RecordDeallocation_Kept(space, ptr) == UNCHANGED trackerVars

RecordDeallocation(space, ptr) ==
    /\ activeAllocations' =
         [k \in DOMAIN activeAllocations \ {<<space, ptr>>} |-> activeAllocations[k]]
    /\ UNCHANGED usedAllocations

RecordUsedAllocation(space, ptr) ==
    /\ usedAllocations' = [usedAllocations EXCEPT ![space] = @ \cup {ptr}]
    /\ UNCHANGED activeAllocations

ClearUsedAllocations ==
    /\ usedAllocations' = [s \in Spaces |-> {}]
    /\ UNCHANGED activeAllocations

\* Mutant: an exclusive upper bound loses empty Views.
IsUsed_Exclusive(space, record) ==
    LET notBelow == {u \in usedAllocations[space] : u >= record.pData}
    IN  notBelow # {} /\ Min(notBelow) < record.pData + record.size

\* Mutant: no upper bound at all.
IsUsed_Unbounded(space, record) ==
    {u \in usedAllocations[space] : u >= record.pData} # {}

(* std::sort, std::lower_bound on record.p_data, and the inclusive upper   *)
(* bound: the least registered pointer not below the data of the record is *)
(* not beyond its end.                                                     *)
IsUsed(space, record) ==
    LET notBelow == {u \in usedAllocations[space] : u >= record.pData}
    IN  notBelow # {} /\ Min(notBelow) <= record.pData + record.size

\* Mutant: registered pointers select the records in every build.
SnapshotKeys_Selected ==
    {k \in DOMAIN activeAllocations : IsUsed(k[1], activeAllocations[k])}

(* The keys of the records that snapshot() returns: with the compiler      *)
(* plugins those a registered pointer selects, without them all of them.   *)
SnapshotKeys ==
    {k \in DOMAIN activeAllocations :
        HasCompilerPlugins => IsUsed(k[1], activeAllocations[k])}

Snapshot == [k \in SnapshotKeys |-> activeAllocations[k]]

=============================================================================
