---------------------------- MODULE ReplayMemory ----------------------------
(***************************************************************************)
(* Mapping the ranges of AddressRanges: ScopeGuard::allocate fills a       *)
(* vector of Allocation objects (replay/allocation.hpp), each of which     *)
(* maps its range when it is made, with mmap (host_allocation.hpp) or with *)
(* the virtual memory functions of CUDA or HIP (cuda_allocation.hpp,       *)
(* hip_allocation.hpp), and unmaps it when it is destroyed.  The           *)
(* constructor of the guard may throw at any range; the objects made so    *)
(* far are destroyed then, else with the guard.  Other parts of the        *)
(* process map pages of their own meanwhile.                               *)
(***************************************************************************)
EXTENDS AddressRanges, Sequences, Functions

CONSTANTS
    Backends,      \* "host", "cuda", "hip"
    Elsewhere,     \* distance of the address that a driver falls back to
    CallsFail,     \* may system and driver calls fail for other reasons?
    MaxTaken       \* bound on the pages of the rest of the process

ASSUME MemoryAssumption ==
    /\ Backends \subseteq {"host", "cuda", "hip"}
    /\ Elsewhere \in Nat /\ Elsewhere % Granularity = 0
    /\ CallsFail \in BOOLEAN /\ MaxTaken \in Nat
    /\ IsFiniteSet(Entries)  \* addresses have 64 bits

VARIABLES
    backend,       \* where this set of ranges is mapped
    phase,         \* "ranges", "mapping", "mapped", "thrown" or "destroyed"
    toMap,         \* ranges of the loop in the constructor that are left
    raw,           \* host_raw_allocations or device_raw_allocations
    capacity,      \* what was reserved for it
    mapped,        \* pages mapped by Allocation objects
    taken,         \* pages of the rest of the process
    leaked         \* what a failed device_allocate left behind

memoryVars == <<backend, phase, toMap, raw, capacity, mapped, taken, leaked>>
vars == <<rangesVars, memoryVars>>

Pages(range) == (range[1] \div Granularity) .. ((End(range) - 1) \div Granularity)
IsFree(range) == Pages(range) \cap (taken \cup mapped) = {}
Moved(range) == <<range[1] + Elsewhere, range[2]>>
MemorySpace == IF backend = "host" THEN "HOST" ELSE "DEVICE"

Init ==
    /\ RangesInit
    /\ backend \in Backends /\ phase = "ranges"
    /\ toMap = {} /\ raw = << >> /\ capacity = 0
    /\ mapped = {} /\ taken = {} /\ leaked = {}

ComputeRanges == phase = "ranges" /\ RangesNext /\ UNCHANGED memoryVars

\* Mutant: the vector grows as it is filled.
Reserve_None == capacity' = 0

Reserve == capacity' = Cardinality(allocs)

BeginMapping ==
    /\ phase = "ranges" /\ returned
    /\ Reserve
    /\ toMap' = allocs
    /\ phase' = "mapping"
    /\ UNCHANGED <<rangesVars, backend, raw, mapped, taken, leaked>>

(* Something else in the process maps a page. *)
OthersMap(page) ==
    /\ phase \in {"ranges", "mapping"} /\ returned
    /\ Cardinality(taken) < MaxTaken /\ page \notin taken \cup mapped
    /\ taken' = taken \cup {page}
    /\ UNCHANGED <<rangesVars, backend, phase, toMap, raw, capacity, mapped, leaked>>

-----------------------------------------------------------------------------
(* Outcomes of an allocation: the range that is mapped, in a set that is   *)
(* empty for an exception, and what is leaked.                             *)
Success(range) == [at |-> {range}, left |-> {}]
Failure(left) == [at |-> {}, left |-> left]

\* Mutant: MAP_FIXED, which replaces the mappings that are there.
HostAllocate_Replace(range) == {Success(range)}

(* host_allocate: a range in use is refused with EEXIST or, by older       *)
(* kernels, mapped elsewhere and unmapped again.                           *)
HostAllocate(range) ==
    {IF IsFree(range) THEN Success(range) ELSE Failure({})}
        \cup (IF CallsFail THEN {Failure({})} ELSE {})

(* The driver reserves the addresses that it is asked for or, if these are *)
(* in use, others that are free.                                           *)
Reservations(range) ==
    IF IsFree(range) THEN {range} ELSE {r \in {Moved(range)} : IsFree(r)}

(* device_allocate: physical memory is created, then an address reserved,  *)
(* mapped and made accessible.  Nothing is undone when a later call fails. *)
Left(kinds, range) == kinds \X {range}
FailedCalls(range) ==
    {Failure(Left(kinds, range)) :
        kinds \in {{}, {"physical"}, {"physical", "reservation"},
                   {"physical", "reservation", "mapping"}}}

NoReservation(range) ==
    IF Reservations(range) = {} THEN {Failure(Left({"physical"}, range))} ELSE {}
DriverFails(range) ==
    NoReservation(range) \cup (IF CallsFail THEN FailedCalls(range) ELSE {})

\* Mutant: the address of the reservation is not compared.
CudaAllocate_Unchecked(range) ==
    {Success(r) : r \in Reservations(range)} \cup DriverFails(range)

(* CUDA: an address other than the requested one is refused. *)
CudaAllocate(range) ==
    {IF r = range THEN Success(r) ELSE Failure(Left({"physical", "reservation"}, r)) :
        r \in Reservations(range)} \cup DriverFails(range)

(* HIP: the range is mapped wherever it was reserved. *)
HipAllocate(range) ==
    {Success(r) : r \in Reservations(range)} \cup DriverFails(range)

Outcomes(range) ==
    CASE backend = "host" -> HostAllocate(range)
      [] backend = "cuda" -> CudaAllocate(range)
      [] backend = "hip"  -> HipAllocate(range)

(* ~Allocation: munmap for the host, unmapping by the driver if it is one  *)
(* of its ranges; memory_space tells which.                                *)
Deallocated(allocations) ==
    UNION {Pages(a.range) : a \in {b \in Range(allocations) : b.space = MemorySpace}}

(* The vector grows: the move constructor leaves memory_space out. *)
MoveConstructed(allocations) ==
    {[n \in DOMAIN allocations |-> [allocations[n] EXCEPT !.space = spaces[n]]] :
        spaces \in [DOMAIN allocations -> {"HOST", "DEVICE"}]}

EmplaceBack(allocation) ==
    IF Len(raw) < capacity
    THEN raw' = Append(raw, allocation) /\ UNCHANGED capacity
    ELSE /\ \E moved \in MoveConstructed(raw) : raw' = Append(moved, allocation)
         /\ capacity' = Len(raw) + 1

(* The objects are destroyed, when the constructor throws or with the      *)
(* guard.                                                                  *)
DestroyAll(next) ==
    /\ mapped' = mapped \ Deallocated(raw)
    /\ raw' = << >> /\ toMap' = {}
    /\ phase' = next
    /\ UNCHANGED <<rangesVars, backend, capacity>>

(* ScopeGuard::allocate for the next range. *)
MapNext ==
    /\ phase = "mapping"
    /\ \E range \in toMap :
         /\ IsFirst(range, toMap)
         /\ \E outcome \in Outcomes(range) :
              IF outcome.at = {}
              THEN leaked' = outcome.left /\ DestroyAll("thrown")
              ELSE \E at \in outcome.at :
                   /\ EmplaceBack([range |-> at, space |-> MemorySpace])
                   /\ mapped' = mapped \cup Pages(at)
                   /\ toMap' = toMap \ {range}
                   /\ UNCHANGED <<rangesVars, backend, phase, leaked>>
    /\ UNCHANGED taken

EndMapping ==
    /\ phase = "mapping" /\ toMap = {}
    /\ phase' = "mapped"
    /\ UNCHANGED <<rangesVars, backend, toMap, raw, capacity, mapped, taken, leaked>>

(* The guard is destroyed, or its constructor throws after the mapping. *)
DestroyGuard ==
    /\ phase = "mapped"
    /\ DestroyAll("destroyed")
    /\ UNCHANGED <<taken, leaked>>

Next ==
    \/ ComputeRanges \/ BeginMapping \/ MapNext \/ EndMapping \/ DestroyGuard
    \/ \E range \in allocs : \E page \in Pages(range) : OthersMap(page)

Spec == Init /\ [][Next]_vars

-----------------------------------------------------------------------------
(* Properties.                                                             *)

(* Once the ranges are mapped, every byte of every dumped allocation is at *)
(* its original address in memory that belongs to the guard, whatever else *)
(* the process mapped meanwhile.  HIP does not test the address it gets:   *)
(* there a range in use is mapped elsewhere without an error.              *)
EntriesAreMapped ==
    (phase = "mapped" /\ (backend = "hip" => taken \cap UNION {Pages(r) : r \in allocs} = {})) =>
        \A e \in entries : Pages(e) \subseteq mapped \ taken

(* After a constructor that threw, or after the guard, no page of an       *)
(* Allocation is mapped any more, and the only thing leaked is what the    *)
(* device call that failed had created.                                    *)
NothingStaysMapped ==
    phase \in {"thrown", "destroyed"} =>
        /\ mapped = {} /\ raw = << >>
        /\ Cardinality({l[2] : l \in leaked}) <= 1
        /\ leaked # {} => phase = "thrown" /\ backend # "host"

(* An Allocation owns its pages alone: what it has mapped, and unmaps when *)
(* it is destroyed, is no page of the rest of the process and none of      *)
(* another Allocation.  So mapping replaces nobody's memory, also where    *)
(* HIP falls back to other addresses, and unmapping, also from the middle  *)
(* of the constructor, takes away nobody's and nothing twice.              *)
PagesHaveOneOwner ==
    /\ \A n \in DOMAIN raw : Pages(raw[n].range) \cap taken = {}
    /\ \A m, n \in DOMAIN raw :
         m # n => Pages(raw[m].range) \cap Pages(raw[n].range) = {}

=============================================================================
