---------------------------- MODULE CaptureReplay ----------------------------
(***************************************************************************)
(* The two halves of KREPE together: an application runs with the capture  *)
(* tool (KernelCapture) and ends, and a replay program (Replayer) is given *)
(* the dump file it left.  The file is all that the processes share: what  *)
(* create_kernel_dump and append_kernel_output have put into it when they  *)
(* succeed, or when they fail half way, is what ScopeGuard reads.          *)
(***************************************************************************)
EXTENDS KernelCapture, FiniteSets

CONSTANTS
    MaxReplays,              \* bound on the replays between two resets
    PageSize,                \* bytes that one range of the replay maps
    NoText, NoDump, Damaged, Missing

(* One thread that is bound to the tool and saves the functor of every     *)
(* launch, so that the functor of a dump is the one of its launch, and     *)
(* allocates where a replay without a device can map.  The replay program  *)
(* is a build for the host: it does not read nvcc_inner_lambda.            *)
ASSUME CompositionAssumption ==
    /\ PageSize \in Nat \ {0} /\ MaxReplays \in Nat
    /\ \A t, u \in Threads : t = u
    /\ Spaces = {"Host"}
    /\ "plain" \notin Modes /\ ~EarlyCalls

(* The markers are no contents of a group. *)
ASSUME GroupsAssumption ==
    /\ Skipped \notin Nat /\ Damaged \notin Nat \cup {Skipped}
    /\ Missing \notin Metadata
    /\ \A addresses \in SUBSET {AllocationDataPointer(p) : p \in Pointers} : Missing # addresses

VARIABLES
    running,     \* the process that runs: "application" or "replay"
    groups,      \* how far the groups behind /in/views got, and their contents
    onDisk,      \* the dump file, by its name
    rInitialized, rResetEnabled, rInternalGuard, rScopeGuard, rAllocations,
    rMetadata, rFunctorData, rPolicy, rGuard, rStored, rSnapshots, rRaw,
    rPc, rGiven, rArgv, rDump, rRest, rMemory, rKokkos, rPending, rReplays

replayVars == <<onDisk, rInitialized, rResetEnabled, rInternalGuard, rScopeGuard,
                rAllocations, rMetadata, rFunctorData, rPolicy, rGuard, rStored, rSnapshots,
                rRaw, rPc, rGiven, rArgv, rDump, rRest, rMemory, rKokkos, rPending, rReplays>>
compositionVars == <<vars, running, groups, replayVars>>

FileName == "dump.h5"
CommandLine == <<[name |-> "replay", value |-> NoText],
                 [name |-> "--kernel-replayer-dump", value |-> FileName]>>

R == INSTANCE Replayer WITH
    Files <- [name \in {} |-> NoDump],
    CommandLines <- {CommandLine},
    HasDeviceSpace <- FALSE, DeviceSupport <- {TRUE}, Occupied <- {},
    CanFail <- FALSE, ReplaysAnytime <- FALSE,
    isInitialized <- rInitialized, inputResetEnabled <- rResetEnabled,
    internalScopeGuard <- rInternalGuard, scopeGuard <- rScopeGuard,
    replayAllocations <- rAllocations, metadata <- rMetadata,
    functorData <- rFunctorData, replayPolicy <- rPolicy, guard <- rGuard,
    stored <- rStored, inputSnapshots <- rSnapshots, rawAllocations <- rRaw,
    pc <- rPc, disk <- onDisk, given <- rGiven, argv <- rArgv, dump <- rDump,
    rest <- rRest, memory <- rMemory, kokkos <- rKokkos, pending <- rPending,
    replays <- rReplays

(* /metadata, /policy, the dataset of the functor created, and its bytes   *)
(* written, in this order; behind these only nvcc_inner_lambda and the     *)
(* closing of the file can fail.                                           *)
AllGroups == 4
Groups(n) == [number |-> n, metadata |-> metadata, policy |-> policy, functor |-> functorData]

CompositionInit ==
    /\ Init /\ R!Init
    /\ running = "application" /\ groups = Groups(0)

-----------------------------------------------------------------------------
(* The application.                                                        *)

(* create_kernel_dump writes the groups behind /in/views; when it fails    *)
(* there, some of them stay in the file.                                   *)
WrittenGroups ==
    LET Leaves(t, step) == pc[t] = "writeInput" /\ pc'[t] = step
    IN  IF \E t \in Threads : Leaves(t, "setPath") THEN {Groups(AllGroups)}
        ELSE IF \E t \in Threads : Leaves(t, "submit") /\ DOMAIN todo[t] = {}
        THEN {Groups(n) : n \in 0 .. AllGroups}
        ELSE {groups}

ApplicationStep ==
    /\ running = "application"
    /\ Next
    /\ groups' \in WrittenGroups
    /\ UNCHANGED <<running, replayVars>>

-----------------------------------------------------------------------------
(* The dump file, as the replayer reads it.                                *)

(* One group of /in/views or /out/views: write_allocation_group and        *)
(* read_allocation_info.  The contents are the number of kernels that      *)
(* wrote them.                                                             *)
EntryOf(k, group) ==
    [id |-> k[2], space |-> k[1], label |-> group.record.label, address |-> group.record.pData,
     range |-> group.record.pData \div PageSize, size |-> group.record.size,
     bytes |-> IF group.bytes = Skipped THEN Skipped ELSE Cardinality(group.bytes)]

EntriesOf(snapshot) == {EntryOf(k, snapshot[k]) : k \in DOMAIN snapshot}

(* What failed half way may be a group of its own: without all of its      *)
(* attributes or its dataset; with bytes_dumped created and not written,   *)
(* which reads as 0; or with its dataset created and not written, which    *)
(* has the right size and reads as zeros.  A group of /in/views like this  *)
(* is left out of the model: /metadata is missing then.                    *)
Broken(k, group) ==
    {[EntryOf(k, group) EXCEPT !.bytes = bytes] : bytes \in {Damaged, Skipped, 0}}

(* The addresses that the functor writes through its Views; an empty View  *)
(* has none.                                                               *)
FunctorAddresses(f) ==
    {AllocationDataPointer(k[2]) :
        k \in {c \in f.launch.captures : c \in DOMAIN f.in => f.in[c].record.size > 0}}

(* NoPolicyDesc has the type "none". *)
PolicyType == IF groups.policy = NoPolicy THEN "none" ELSE "range"

OutputOf(f) ==
    CASE f.output = "absent" -> {Missing}
      [] f.output = "complete" -> {EntriesOf(f.out)}
      [] f.output = "failed" ->
           {Missing, EntriesOf(f.out)} \cup
           {EntriesOf(f.out) \cup {e} :
               e \in UNION {Broken(k, f.in[k]) : k \in DOMAIN f.in \ DOMAIN f.out}}

\* Mutant: the groups are written in front of /in/views.
HasGroup_First(n) == TRUE

(* The writing got as far as this. *)
HasGroup(n) == groups.number >= n

(* H5Dwrite of the functor failed: its dataset is there, full of zeros. *)
FunctorIsUnwritten == groups.number = 3

(* The addresses in the dataset of the functor: those of its Views once    *)
(* the bytes of this launch are written, null pointers before.             *)
FunctorBytes(f) ==
    IF HasGroup(4) /\ groups.functor = f.launch.number
    THEN FunctorAddresses(f)
    ELSE {R!NullData : a \in FunctorAddresses(f)}

(* A group that is there in part is Missing: behind a part of /metadata or *)
(* of /policy there is no functor, and the functor is read before the      *)
(* policy.                                                                 *)
DumpOf(f, out) ==
    [in |-> EntriesOf(f.in), out |-> out,
     metadata |-> IF HasGroup(1) THEN groups.metadata ELSE Missing,
     policy |-> IF HasGroup(2) THEN PolicyType ELSE "unsupported",
     functor |-> IF HasGroup(3) THEN FunctorBytes(f) ELSE Missing]

(* The application finalizes Kokkos and ends: what is left is the file. *)
Exit ==
    /\ running = "application" /\ running' = "replay"
    /\ pending = {} /\ \A t \in Threads : pc[t] = "idle"
    /\ DOMAIN files # {}
    /\ \E out \in OutputOf(TheFile) :
         onDisk' = [name \in {FileName} |-> DumpOf(TheFile, out)]
    /\ heap' = << >> /\ activeAllocations' = << >> /\ mem' = << >>
    /\ usedAllocations' = [s \in Spaces |-> {}] /\ views' = {} /\ foreign' = FALSE
    /\ nextKernelId' = 1 /\ kernelInvocations' = [label \in KernelLabels |-> 0]
    /\ functorData' = NoFunctor /\ policy' = NoPolicy /\ launches' = 0
    /\ metadata' = NoMetadata /\ addedMetadata' = NoMetadata
    /\ UNCHANGED <<toolVars, kernelStates, fileVars, pc, localVars, pending, groups,
                   rInitialized, rResetEnabled, rInternalGuard, rScopeGuard, rAllocations,
                   rMetadata, rFunctorData, rPolicy, rGuard, rStored, rSnapshots, rRaw, rPc,
                   rGiven, rArgv, rDump, rRest, rMemory, rKokkos, rPending, rReplays>>

ReplayStep ==
    /\ running = "replay"
    /\ R!Next
    /\ UNCHANGED <<vars, running, groups>>

CompositionNext == ApplicationStep \/ Exit \/ ReplayStep

CompositionSpec == CompositionInit /\ [][CompositionNext]_compositionVars

-----------------------------------------------------------------------------
(* Properties of a single-threaded application.                            *)

(* A dump that a ScopeGuard accepts has every allocation that the kernel  *)
(* uses with its contents and the functor of its launch, and a dump by     *)
(* krepe::parallel_for its policy, however its capture ended.  One thing a *)
(* failed create_kernel_dump leaves is accepted and not whole: the dataset *)
(* of a functor that was created and not written has the right size.       *)
AcceptedDumpsAreWhole ==
    (running = "replay" /\ R!Loaded) =>
        LET f == TheFile
        IN  /\ \A k \in f.launch.captures :
                 \E s \in rStored : s.id = k[2] /\ s.space = k[1]
            /\ rFunctorData # FunctorAddresses(f) =>
                 f.input = "failed" /\ FunctorIsUnwritten
            /\ f.launch.mode = "krepe" => rPolicy = "range"

(* A replayed kernel finds its memory, unless the capture has reported     *)
(* that it failed and left a functor of null pointers; and after one       *)
(* replay the allocations hold what they held in the application after the *)
(* kernel.                                                                 *)
ReplayReproducesOutput ==
    /\ rPc = "crashed" => TheFile.input = "failed" /\ FunctorIsUnwritten
    /\ (running = "replay" /\ R!Loaded /\ rReplays = 1 /\ rPending = << >>) =>
         \A k \in DOMAIN TheFile.out :
            HasBytes(TheFile.out, k) =>
                rMemory[AllocationDataPointer(k[2])] = Cardinality(TheFile.out[k].bytes)

(* After one replay of a capture whose /out is complete or absent, every   *)
(* comparison that compare_views accepts agrees: the reference it takes    *)
(* from /out is what the kernel left in the application.                   *)
ComparisonsAgreeWithCapture ==
    (running = "replay" /\ TheFile.output # "failed") => R!ReferencesAgree

(* The constructor of ScopeGuard accepts every dump whose capture was      *)
(* completed and skipped no input: nothing the tool writes in a good run   *)
(* is refused by the checks of the replayer.                               *)
CompleteDumpsAreAccepted ==
    [][(/\ running = "replay" /\ rPc \in R!Constructing /\ rPc' = "program"
        /\ TheFile.input = "complete" /\ TheFile.output # "failed"
        /\ \A k \in DOMAIN TheFile.in : TheFile.in[k].bytes # Skipped)
       => rGuard' # R!Nobody]_compositionVars

=============================================================================
