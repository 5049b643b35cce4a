------------------------------ MODULE Replayer ------------------------------
(***************************************************************************)
(* The replay library (replay/kernel_replayer.{hpp,cpp}): the constructor  *)
(* of krepe::ScopeGuard loads a dump, krepe::initialize and finalize own a *)
(* guard themselves, krepe::parallel_for replays the dumped kernel and     *)
(* krepe::reset_inputs restores what it read.  The program is              *)
(* single-threaded and calls these in any order; kernels run               *)
(* asynchronously.  The constructor is a sequence of steps, as it throws   *)
(* from the middle, and the program may catch that and try again.          *)
(*                                                                         *)
(* The address layout is the one of AddressRanges: `range' is the mapped   *)
(* range that compute_allocations puts an allocation of the dump in.       *)
(* Contents are numbers: a kernel adds one to what it writes.              *)
(***************************************************************************)
EXTENDS CliArgs, FiniteSets, FiniteSetsExt, Functions

CONSTANTS
    Files,           \* dump files by the text that names them
    CommandLines,    \* command lines the program may be given
    HasDeviceSpace,  \* KERNEL_REPLAYER_HAS_DEVICE_SPACE
    DeviceSupport,   \* outcomes of the query for virtual memory in device_init
    Occupied,        \* ranges that something else in the process uses
    CanFail,         \* may an HDF5 call fail?
    ReplaysAnytime,  \* does the program replay without a guard, too?
    MaxReplays,      \* bound on the replays between two resets
    NoDump,          \* no dump is open
    Skipped,         \* bytes_dumped = 0
    Damaged,         \* a byte dataset of another size than its allocation
    Missing          \* a group that the dump does not have

ASSUME ReplayerAssumption ==
    /\ HasDeviceSpace \in BOOLEAN /\ DeviceSupport \subseteq BOOLEAN
    /\ CanFail \in BOOLEAN /\ ReplaysAnytime \in BOOLEAN
    /\ MaxReplays \in Nat

VARIABLES           \* statics of kernel_replayer.cpp and replay_policy
    isInitialized,        \* krepe_is_initialized
    inputResetEnabled,    \* input_reset_enabled
    internalScopeGuard,   \* initialize_internal_scope_guard is not null
    scopeGuard,           \* scope_guard, by its owner
    replayAllocations,    \* replay_allocations, by its owner
    metadata,             \* metadata, which is never cleared
    functorData,          \* functor_data: the addresses its Views hold
    replayPolicy          \* replay_policy

VARIABLES           \* the ScopeGuard
    guard,                \* owner of the guard that exists, if any
    stored,               \* replay_allocations_
    inputSnapshots,       \* input_snapshots_
    rawAllocations        \* host_raw_allocations and device_raw_allocations

VARIABLES           \* the program, its memory and the device
    pc,                   \* step of the call in progress, "program" outside
    disk,                 \* the dump files
    given, argv,          \* arguments before and after the last constructor
    dump,                 \* dump of the last constructor
    rest,                 \* what the current loop of the constructor has left
    memory,               \* contents of the mapped addresses of the dump
    kokkos,               \* state of Kokkos
    pending,              \* functors of the queued kernels
    replays               \* kernels launched since the inputs were restored

staticVars == <<isInitialized, inputResetEnabled, internalScopeGuard, scopeGuard,
                replayAllocations>>
loadedVars == <<metadata, functorData, replayPolicy>>
guardVars == <<stored, inputSnapshots, rawAllocations>>
deviceVars == <<kokkos, pending, replays>>
argVars == <<disk, given, argv>>
vars == <<staticVars, loadedVars, guard, guardVars, pc, argVars, dump, rest, memory,
          deviceVars>>

Nobody == "nobody"        \* nullptr
Owners == {"user", "internal"}
NullData == 0
NoFunctor == {}           \* functor_data is empty
NullPolicy == "null"      \* replay_policy is null
MonostatePolicy == "none"

Init ==
    /\ isInitialized = FALSE /\ inputResetEnabled = FALSE
    /\ internalScopeGuard = FALSE /\ scopeGuard = Nobody /\ replayAllocations = Nobody
    /\ metadata = << >> /\ functorData = NoFunctor /\ replayPolicy = NullPolicy
    /\ guard = Nobody /\ stored = {} /\ inputSnapshots = {} /\ rawAllocations = {}
    /\ disk = Files
    /\ pc = "program" /\ given = << >> /\ argv = << >> /\ dump = NoDump /\ rest = {}
    /\ memory = << >>
    /\ kokkos = "before" /\ pending = << >> /\ replays = 0

ASSUME CommandLinesAssumption == \A line \in CommandLines : line \in Seq(Range(line))

-----------------------------------------------------------------------------
(* The constructor of ScopeGuard.                                          *)

(* memory_space_type_from_string *)
SpaceType(e) == IF e.space = "Host" THEN "HOST" ELSE "DEVICE"
InputsOf(type) == {e \in dump.in : SpaceType(e) = type}
NonEmpty(entries) == {e \in entries : e.size # 0}

(* check_byte_dataset throws. *)
Inconsistent(e) == e.bytes = Damaged
IsDumped(e) == e.bytes # Skipped

(* A file that has the structure of a dump, complete or not. *)
IsEntry(e) ==
    /\ e.address \in Nat \ {NullData} /\ {e.range, e.size} \subseteq Nat
    /\ e.bytes \in Nat \cup {Skipped, Damaged}
IsDumpFile(d) ==
    /\ IsFiniteSet(d.in) /\ \A e \in d.in : IsEntry(e)
    /\ d.out # Missing => \A e \in d.out : IsEntry(e)
    /\ d.policy \in {MonostatePolicy, "range", "unsupported"}

ASSUME FilesAssumption == \A text \in DOMAIN Files : IsDumpFile(Files[text])

AddressesIn(ranges) == {e.address : e \in {f \in NonEmpty(dump.in) : f.range \in ranges}}

(* The destructors of the members: what was mapped is unmapped. *)
DestroyMembers ==
    /\ stored' = {} /\ inputSnapshots' = {} /\ rawAllocations' = {}
    /\ memory' = Restrict(memory, DOMAIN memory \ AddressesIn(rawAllocations))

(* An exception leaves the constructor; the statics stay as they are. *)
Throw ==
    /\ DestroyMembers
    /\ guard' = Nobody
    /\ pc' = "program" /\ rest' = {}

Goto(step) == pc' = step

(* H5Fopen fails for a text that names no file. *)
Opened(text) == IF text \in DOMAIN disk THEN disk[text] ELSE NoDump

(* ScopeGuard(argc, argv), from the program or from krepe::initialize: the *)
(* flag and the option are taken out of argv, and the file is opened.  The *)
(* program may try again with what a failed constructor has left of argv.  *)
Construct(owner, args) ==
    /\ pc = "program" /\ ~isInitialized
    /\ LET reset == FindCliFlag(args, ResetFlag)
           option == FindCliOption(reset.argv, DumpOption)
           file == IF option.argument = NoText THEN NoDump ELSE Opened(option.argument)
       IN  /\ inputResetEnabled' = reset.found
           /\ given' = args /\ argv' = option.argv
           /\ dump' = file
           /\ Goto(IF file = NoDump THEN "program" ELSE "collectHost")
           /\ guard' = IF file = NoDump THEN guard ELSE owner
    /\ UNCHANGED <<isInitialized, internalScopeGuard, scopeGuard, replayAllocations,
                   loadedVars, guardVars, disk, rest, memory, deviceVars>>

LoadUnchanged == <<staticVars, argVars, dump, deviceVars>>

(* get_hdf5_dataset_alloc_info over in/views, for the host or the device.  *)
(* compute_allocations gives the ranges to map.                            *)
Collect(type, step, next) ==
    /\ pc = step
    /\ IF \/ \E e \in InputsOf(type) : ~IsDumped(e) \/ Inconsistent(e)
          \/ type = "DEVICE" /\ ~HasDeviceSpace /\ NonEmpty(InputsOf(type)) # {}
       THEN Throw
       ELSE /\ rest' = {e.range : e \in NonEmpty(InputsOf(type))}
            /\ Goto(next)
            /\ UNCHANGED <<guard, guardVars, memory>>
    /\ UNCHANGED <<loadedVars, LoadUnchanged>>

(* host_allocate or device_allocate: fresh pages at the given address. *)
HostAllocate(range) ==
    /\ rawAllocations' = rawAllocations \cup {range}
    /\ memory' = [a \in DOMAIN memory \cup AddressesIn({range}) |->
                    IF a \in DOMAIN memory THEN memory[a] ELSE 0]

\* Mutant: the iterator is not advanced.
MapRange_Stuck(step, next) ==
    /\ pc = step
    /\ IF rest = {}
       THEN Goto(next) /\ UNCHANGED <<guard, guardVars, rest, memory>>
       ELSE LET range == Min(rest)
            IN  IF range \in Occupied
                THEN Throw
                ELSE /\ HostAllocate(range)
                     /\ UNCHANGED <<guard, stored, inputSnapshots, pc, rest>>
    /\ UNCHANGED <<loadedVars, LoadUnchanged>>

(* ScopeGuard::allocate, once for each range in the order of addresses; an *)
(* exception when the addresses are not free.                              *)
MapRange(step, next) ==
    /\ pc = step
    /\ IF rest = {}
       THEN Goto(next) /\ UNCHANGED <<guard, guardVars, rest, memory>>
       ELSE LET range == Min(rest)
            IN  IF range \in Occupied
                THEN Throw
                ELSE /\ HostAllocate(range)
                     /\ rest' = rest \ {range}
                     /\ UNCHANGED <<guard, stored, inputSnapshots, pc>>
    /\ UNCHANGED <<loadedVars, LoadUnchanged>>

(* device_init *)
DeviceInit ==
    /\ pc = "deviceInit"
    /\ \E supported \in IF HasDeviceSpace THEN DeviceSupport ELSE {TRUE} :
         IF supported
         THEN Goto("collectDevice") /\ UNCHANGED <<guard, guardVars, rest, memory>>
         ELSE Throw
    /\ UNCHANGED <<loadedVars, LoadUnchanged>>

MappingDone ==
    /\ pc = "mapped"
    /\ rest' = dump.in
    /\ Goto("copyInputs")
    /\ UNCHANGED <<loadedVars, guard, guardVars, memory, LoadUnchanged>>

(* copy_data_wrapper for one allocation of in/views; HDF5 gives them in    *)
(* any order.                                                              *)
CopyInput ==
    /\ pc = "copyInputs"
    /\ \E e \in rest :
         IF \/ ~IsDumped(e) \/ Inconsistent(e)
            \/ \E s \in stored : s.id = e.id /\ s.space = e.space
         THEN Throw
         ELSE /\ memory' = IF e.size # 0 THEN [memory EXCEPT ![e.address] = e.bytes] ELSE memory
              /\ inputSnapshots' =
                   IF e.size # 0 /\ inputResetEnabled
                   THEN inputSnapshots \cup {<<e.address, e.bytes>>} ELSE inputSnapshots
              /\ stored' = stored \cup
                   {[id |-> e.id, space |-> e.space, label |-> e.label, size |-> e.size,
                     data |-> IF e.size # 0 THEN e.address ELSE NullData,
                     outputSeen |-> FALSE, hasReference |-> FALSE, referenceSize |-> 0,
                     reference |-> NullData]}
              /\ rest' = rest \ {e}
              /\ UNCHANGED <<guard, rawAllocations, pc>>
    /\ UNCHANGED <<loadedVars, LoadUnchanged>>

(* read_hdf5_metadata inserts, so that a key it has already keeps its value. *)
ReadMetadata ==
    /\ pc = "copyInputs" /\ rest = {}
    /\ IF dump.metadata = Missing
       THEN Throw /\ UNCHANGED metadata
       ELSE /\ metadata' = [k \in DOMAIN metadata \cup DOMAIN dump.metadata |->
                              IF k \in DOMAIN metadata THEN metadata[k] ELSE dump.metadata[k]]
            /\ Goto("readFunctor")
            /\ UNCHANGED <<guard, guardVars, rest, memory>>
    /\ UNCHANGED <<functorData, replayPolicy, LoadUnchanged>>

(* read_functor_from_hdf5 *)
ReadFunctor ==
    /\ pc = "readFunctor"
    /\ IF dump.functor = Missing
       THEN Throw /\ UNCHANGED functorData
       ELSE /\ functorData' = dump.functor
            /\ Goto("readPolicy")
            /\ UNCHANGED <<guard, guardVars, rest, memory>>
    /\ UNCHANGED <<metadata, replayPolicy, LoadUnchanged>>

(* read_policy_from_hdf5 replaces the policy before it looks at the type;  *)
(* an unknown type, execution space or rank then throws.                   *)
ReadPolicy ==
    /\ pc = "readPolicy"
    /\ IF dump.policy = "unsupported"
       THEN Throw /\ replayPolicy' = MonostatePolicy
       ELSE /\ replayPolicy' = dump.policy
            /\ rest' = IF dump.out = Missing THEN {} ELSE dump.out
            /\ Goto("copyOutputs")
            /\ UNCHANGED <<guard, guardVars, memory>>
    /\ UNCHANGED <<metadata, functorData, LoadUnchanged>>

\* Mutant: an output is matched by its label.
IsInputOf_Label(s, e) == s.label = e.label /\ s.space = e.space

\* Mutant: the index is searched with the address of the data.
IsInputOf_Data(s, e) == s.id = e.address /\ s.space = e.space

(* The key of allocation_index. *)
IsInputOf(s, e) == s.id = e.id /\ s.space = e.space

\* Mutant: bytes that were skipped are taken for a reference.
ReferenceOf_Any(e) == IF e.size = 0 THEN NullData ELSE e.bytes

ReferenceOf(e) == IF IsDumped(e) /\ e.size # 0 THEN e.bytes ELSE NullData

(* allocate_wrapper and allocate_output for one allocation of out/views. *)
CopyOutput ==
    /\ pc = "copyOutputs"
    /\ \E e \in rest :
         IF \/ Inconsistent(e)
            \/ ~\E s \in stored : IsInputOf(s, e) /\ ~s.outputSeen /\ s.label = e.label
            \/ SpaceType(e) = "DEVICE" /\ ~HasDeviceSpace /\ e.size # 0 /\ IsDumped(e)
         THEN Throw
         ELSE /\ \E s \in {i \in stored : IsInputOf(i, e) /\ ~i.outputSeen} :
                   stored' = (stored \ {s}) \cup
                     {[s EXCEPT !.outputSeen = TRUE, !.referenceSize = e.size,
                                !.hasReference = IsDumped(e),
                                !.reference = ReferenceOf(e)]}
              /\ rest' = rest \ {e}
              /\ UNCHANGED <<guard, inputSnapshots, rawAllocations, memory, pc>>
    /\ UNCHANGED <<loadedVars, LoadUnchanged>>

(* The end of the constructor, and of krepe::initialize. *)
FinishConstructor ==
    /\ pc = "copyOutputs" /\ rest = {}
    /\ replayAllocations' = guard /\ scopeGuard' = guard
    /\ isInitialized' = TRUE
    /\ internalScopeGuard' = (guard = "internal")
    /\ replays' = 0
    /\ Goto("program")
    /\ UNCHANGED <<inputResetEnabled, loadedVars, guard, guardVars, argVars, dump, rest,
                   memory, kokkos, pending>>

Constructing == {"collectHost", "mapHost", "deviceInit", "collectDevice", "mapDevice", "mapped",
                 "copyInputs", "readFunctor", "readPolicy", "copyOutputs"}

(* An HDF5 call of the constructor fails.  functor_data may have been      *)
(* resized by then, which fills it with zeros, and the policy replaced.    *)
FailToRead ==
    /\ CanFail /\ pc \in Constructing
    /\ Throw
    /\ functorData' \in {functorData} \cup (IF pc = "readFunctor" THEN {{NullData}} ELSE {})
    /\ replayPolicy' \in {replayPolicy} \cup (IF pc = "readPolicy" THEN {MonostatePolicy} ELSE {})
    /\ UNCHANGED <<metadata, LoadUnchanged>>

ConstructorStep ==
    \/ Collect("HOST", "collectHost", "mapHost") \/ MapRange("mapHost", "deviceInit")
    \/ DeviceInit
    \/ Collect("DEVICE", "collectDevice", "mapDevice") \/ MapRange("mapDevice", "mapped")
    \/ MappingDone \/ CopyInput \/ ReadMetadata \/ ReadFunctor \/ ReadPolicy \/ CopyOutput
    \/ FinishConstructor

-----------------------------------------------------------------------------
(* Destruction, krepe::finalize.                                           *)

\* Mutant: scope_guard keeps pointing to the guard.
Destroy_Dangling ==
    /\ replayAllocations' = IF replayAllocations = guard THEN Nobody ELSE replayAllocations
    /\ DestroyMembers
    /\ guard' = Nobody
    /\ UNCHANGED <<isInitialized, inputResetEnabled, scopeGuard, loadedVars, pc, argVars, dump,
                   rest, deviceVars>>

(* ~ScopeGuard; no kernel of the program is running any more. *)
Destroy ==
    /\ replayAllocations' = IF replayAllocations = guard THEN Nobody ELSE replayAllocations
    /\ scopeGuard' = Nobody
    /\ DestroyMembers
    /\ guard' = Nobody
    /\ UNCHANGED <<isInitialized, inputResetEnabled, loadedVars, pc, argVars, dump, rest,
                   deviceVars>>

(* The guard of the program goes out of scope. *)
LeaveScope ==
    /\ pc = "program" /\ guard = "user" /\ pending = << >>
    /\ Destroy
    /\ UNCHANGED internalScopeGuard

(* krepe::finalize; it throws when it is not initialize that made the guard. *)
Finalize ==
    /\ pc = "program" /\ pending = << >>
    /\ isInitialized /\ internalScopeGuard
    /\ internalScopeGuard' = FALSE
    /\ Destroy

-----------------------------------------------------------------------------
(* Replaying.                                                              *)

KokkosInitialize ==
    /\ pc = "program" /\ kokkos = "before"
    /\ kokkos' = "running"
    /\ UNCHANGED <<staticVars, loadedVars, guard, guardVars, pc, argVars, dump, rest, memory,
                   pending, replays>>

(* Kokkos::finalize fences. *)
KokkosFinalize ==
    /\ pc = "program" /\ kokkos = "running" /\ pending = << >>
    /\ kokkos' = "finalized"
    /\ UNCHANGED <<staticVars, loadedVars, guard, guardVars, pc, argVars, dump, rest, memory,
                   pending, replays>>

(* init_functor throws when it has less data than the functor's size. *)
CanInitFunctor == functorData # NoFunctor

(* ParallelForVisitor: a dump without a policy throws, and a functor that  *)
(* does not accept the indices of the policy is not launched.              *)
VisitorLaunches(accepts) == replayPolicy # MonostatePolicy /\ accepts

(* krepe::parallel_for, with force_policy or with the policy of the dump,  *)
(* which is dereferenced without a test.                                   *)
ParallelFor(forced, accepts) ==
    /\ pc = "program" /\ kokkos = "running"
    /\ guard # Nobody \/ ReplaysAnytime
    /\ replays < MaxReplays
    /\ CanInitFunctor
    /\ forced \/ VisitorLaunches(accepts)
    /\ IF forced \/ replayPolicy # NullPolicy
       THEN /\ pending' = Append(pending, functorData)
            /\ replays' = replays + 1
            /\ UNCHANGED pc
       ELSE Goto("crashed") /\ UNCHANGED <<pending, replays>>
    /\ UNCHANGED <<staticVars, loadedVars, guard, guardVars, argVars, dump, rest, memory,
                   kokkos>>

(* The device runs the first kernel of the queue. *)
RunKernel ==
    /\ pending # << >> /\ pc # "crashed"
    /\ pending' = Tail(pending)
    /\ IF Head(pending) \subseteq DOMAIN memory
       THEN /\ memory' = [a \in DOMAIN memory |->
                            IF a \in Head(pending) THEN memory[a] + 1 ELSE memory[a]]
            /\ UNCHANGED pc
       ELSE Goto("crashed") /\ UNCHANGED memory
    /\ UNCHANGED <<staticVars, loadedVars, guard, guardVars, argVars, dump, rest, kokkos,
                   replays>>

(* krepe::reset_inputs; without a guard, the flag or Kokkos it throws. *)
ResetInputs ==
    /\ pc = "program"
    /\ scopeGuard # Nobody /\ inputResetEnabled /\ kokkos = "running"
    /\ Goto("resetInputs")
    /\ UNCHANGED <<staticVars, loadedVars, guard, guardVars, argVars, dump, rest, memory,
                   deviceVars>>

\* Mutant: no fence before the copies.
CopySnapshots_NoFence ==
    /\ pc = "resetInputs"
    /\ memory' = [a \in DOMAIN memory |->
                    LET saved == {s \in inputSnapshots : s[1] = a}
                    IN  IF saved = {} THEN memory[a] ELSE (CHOOSE s \in saved : TRUE)[2]]
    /\ replays' = 0
    /\ Goto("program")
    /\ UNCHANGED <<staticVars, loadedVars, guard, guardVars, argVars, dump, rest, kokkos,
                   pending>>

(* The fence returns and the copies are made; nothing runs meanwhile. *)
CopySnapshots ==
    /\ pc = "resetInputs" /\ pending = << >>
    /\ memory' = [a \in DOMAIN memory |->
                    LET saved == {s \in inputSnapshots : s[1] = a}
                    IN  IF saved = {} THEN memory[a] ELSE (CHOOSE s \in saved : TRUE)[2]]
    /\ replays' = 0
    /\ Goto("program")
    /\ UNCHANGED <<staticVars, loadedVars, guard, guardVars, argVars, dump, rest, kokkos,
                   pending>>

Program ==
    \/ \E owner \in Owners, args \in CommandLines \cup {argv} : Construct(owner, args)
    \/ LeaveScope \/ Finalize
    \/ KokkosInitialize \/ KokkosFinalize
    \/ \E forced, accepts \in BOOLEAN : ParallelFor(forced, accepts)
    \/ ResetInputs

CallStep == ConstructorStep \/ CopySnapshots

Next == Program \/ CallStep \/ FailToRead \/ RunKernel

(* A call in progress goes on, with no need of a failure to get it out of  *)
(* a loop, and the device runs what is queued.                             *)
Spec == Init /\ [][Next]_vars /\ WF_vars(CallStep) /\ WF_vars(RunKernel)

-----------------------------------------------------------------------------
(* Properties.                                                             *)

Loaded == guard # Nobody /\ pc \in {"program", "resetInputs"}

(* Every variable has its type. *)
ReplayerTypeOK ==
    /\ isInitialized \in BOOLEAN /\ inputResetEnabled \in BOOLEAN
    /\ internalScopeGuard \in BOOLEAN
    /\ {scopeGuard, replayAllocations, guard} \subseteq Owners \cup {Nobody}
    /\ replayPolicy \in {NullPolicy, MonostatePolicy, "range"}
    /\ \A s \in stored : {s.size, s.referenceSize, s.data, s.reference} \subseteq Nat
    /\ \A s \in inputSnapshots : s[1] \in DOMAIN memory /\ s[2] \in Nat
    /\ memory \in [DOMAIN memory -> Nat] /\ DOMAIN memory \subseteq Nat \ {NullData}
    /\ pc \in {"program", "resetInputs", "crashed"} \cup Constructing
    /\ kokkos \in {"before", "running", "finalized"} /\ replays \in 0 .. MaxReplays

(* Between calls the statics describe the guard that exists, through any   *)
(* sequence of failed constructors, scopes, initialize and finalize: no    *)
(* pointer to a destroyed guard is left, and a constructor that throws     *)
(* leaves nothing mapped.                                                  *)
StaticsFollowGuard ==
    pc = "program" =>
        /\ scopeGuard = guard /\ replayAllocations = guard
        /\ internalScopeGuard = (guard = "internal")
        /\ IF guard = Nobody THEN memory = << >> /\ stored = {} ELSE isInitialized

(* A guard holds the functor, the policy and the allocations of its own    *)
(* dump, whatever an earlier constructor left in the statics, and every    *)
(* allocation has its own reference output, whichever order HDF5 lists     *)
(* them in and however many share a label.                                 *)
LoadedFromDump ==
    Loaded =>
        LET Outputs == IF dump.out = Missing THEN {} ELSE dump.out
        IN  /\ functorData = dump.functor /\ replayPolicy = dump.policy
            /\ Cardinality(stored) = Cardinality(dump.in)
            /\ \A s \in stored :
                 /\ \E e \in dump.in :
                      /\ e.id = s.id /\ e.space = s.space /\ e.label = s.label
                      /\ e.size = s.size /\ (e.size # 0 => e.address = s.data)
                 /\ s.hasReference = (\E e \in Outputs : e.id = s.id /\ e.space = s.space
                                                        /\ e.bytes # Skipped)
                 /\ \A e \in Outputs :
                      (e.id = s.id /\ e.space = s.space /\ s.reference # NullData) =>
                        s.reference = e.bytes /\ s.referenceSize = e.size

(* While a guard exists its allocations hold the inputs of the dump and    *)
(* the writes of the kernels that ran since they were loaded or reset:     *)
(* reset_inputs loses no write of a later kernel and keeps none of an      *)
(* earlier one, although kernels run asynchronously.  With a functor that  *)
(* points into its own dump's allocations no kernel runs on memory that is *)
(* not mapped, or without a policy.                                        *)
ReplayedFromInputs ==
    /\ pc # "crashed"
    /\ Loaded =>
         \A e \in NonEmpty(dump.in) :
             memory[e.address] =
                 e.bytes + (IF e.address \in functorData THEN replays - Len(pending) ELSE 0)

\* Mutant: the sizes are not compared.
ValidComparison_AnySize(s) ==
    /\ s.hasReference
    /\ SpaceType(s) = "DEVICE" => HasDeviceSpace
    /\ s.size # 0 => s.data # NullData /\ s.reference # NullData

(* validate_comparison for the memory space the allocation was restored in. *)
ValidComparison(s) ==
    /\ s.hasReference
    /\ SpaceType(s) = "DEVICE" => HasDeviceSpace
    /\ s.size = s.referenceSize
    /\ s.size # 0 => s.data # NullData /\ s.reference # NullData

(* After one replay has run, the memory of every allocation that           *)
(* compare_views accepts to compare is equal to its reference.             *)
ReferencesAgree ==
    (Loaded /\ pc = "program" /\ replays = 1 /\ pending = << >>) =>
        \A s \in stored : ValidComparison(s) /\ s.size # 0 => memory[s.data] = s.reference

(* The outputs that have the key, the label and the size of an input hold  *)
(* what one run of the kernel leaves in it.                                *)
HasOutputsOfItsKernel(d) ==
    (d.out # Missing /\ d.functor # Missing) =>
        \A i \in d.in, o \in d.out :
            (/\ i.id = o.id /\ i.space = o.space /\ i.label = o.label
             /\ i.size = o.size /\ i.size # 0 /\ {i.bytes, o.bytes} \subseteq Nat)
            => o.bytes = i.bytes + (IF i.address \in d.functor THEN 1 ELSE 0)

(* After one replay, every comparison that compare_views accepts for a     *)
(* descriptor agrees, also when some outputs were skipped, or belong to an *)
(* allocation that reused an input's address under another label or size.  *)
(* The premise leaves out what no check of the replayer can tell: an       *)
(* address reused under the same label and size, whose bytes are accepted  *)
(* as the reference.                                                       *)
AcceptedComparisonsAgree ==
    (Loaded /\ HasOutputsOfItsKernel(dump)) => ReferencesAgree

(* The constructor takes out of argv the first input-reset flag and the    *)
(* first dump option with its argument, and nothing else: what the program *)
(* and Kokkos::initialize find in argv is the rest, in its order, also     *)
(* when an option is repeated, comes last or lacks its argument.           *)
ArgumentsAreKept ==
    LET IsFlag(i) == given[i] = Word(ResetFlag)
        flags == {i \in 2 .. Len(given) : IsFlag(i)}
        flag == {i \in flags : IsFirstOf(i, flags)}
        options == {i \in 2 .. Len(given) : given[i].name = DumpOption}
        Behind(i) == {j \in i + 1 .. Len(given) : j \notin flag}
        taken == flag \cup
            UNION {IF given[i].value # NoText THEN {i}
                   ELSE IF Behind(i) = {} THEN {} ELSE {i, Min(Behind(i))} :
                   i \in {j \in options : IsFirstOf(j, options)}}
        kept == DOMAIN given \ taken
        Rank(p) == Cardinality({q \in kept : q <= p})
    IN  Len(argv) = Cardinality(kept) /\ \A p \in kept : argv[Rank(p)] = given[p]

(* The constructor ends, with or without an exception, and reset_inputs    *)
(* returns once the kernels that are queued have run.                      *)
CallsReturn == pc \in Constructing \cup {"resetInputs"} ~> pc = "program"

(* "krepe cannot be used when not initialized or when finalized" (tests/   *)
(* initialize_finalize/replay_main.cpp): no kernel is replayed without the *)
(* memory of a guard.                                                      *)
NotUsableWhenFinalized == pending # << >> => guard # Nobody

=============================================================================
