--------------------------- MODULE KernelCapture ---------------------------
(***************************************************************************)
(* The capture of one kernel launch: the application's threads run         *)
(* krepe::parallel_for and krepe::replay_functor (extract/), Kokkos calls  *)
(* the tool's begin and end hooks (capture/kokkos_hooks.cpp), and these    *)
(* write the dump file (capture/view_dump.cpp).                            *)
(*                                                                         *)
(* A step is what happens under one lock, or one access to a global that   *)
(* no lock protects (functor_data, policy, metadata).  Kernels run         *)
(* asynchronously: a launch is queued, and only a fence waits for it.      *)
(***************************************************************************)
EXTENDS AllocationHooks, Integers, Sequences

CONSTANTS
    Threads,         \* application threads that launch kernels
    KernelLabels,    \* kernel labels
    Modes,           \* how the application launches kernels, of LaunchModes
    ToolArgs,        \* possible arguments of kokkosp_parse_args
    MetadataKeys,    \* keys given to krepe::add_metadata
    MetadataValues,  \* and values
    EarlyCalls,      \* may krepe::add_metadata precede Kokkos::initialize?
    MaxLaunches,     \* bound on the number of launches
    CanFail,         \* may an HDF5 call or a device copy fail?
    Torn,            \* contents of an object another thread is writing
    Skipped,         \* an allocation group without bytes
    Dangling,        \* bytes read from a freed allocation
    NoLaunch, NoValue

LaunchModes ==
    {"krepe",    \* krepe::parallel_for
     "manual",   \* Kokkos::parallel_for(..., krepe::replay_functor(f))
     "plain"}    \* Kokkos::parallel_for, _reduce or _scan

EmptyLabel == ""
NoInvocation == 0  \* std::nullopt
NoPath == 0        \* an empty dump_path; a dump's path is its kernel id
NoFunctor == 0     \* functor_data is empty
NoPolicy == 0      \* NoPolicyDesc

(* An option of the command line that kokkosp_parse_args knows; a number   *)
(* that is not one, or is out of range, is passed as -1.                   *)
ToolArguments == [option : {"label"}, label : KernelLabels \cup {EmptyLabel}]
                 \cup [option : {"invocation"}, number : Int]

ASSUME CaptureAssumption ==
    /\ EmptyLabel \notin KernelLabels
    /\ ToolArgs \subseteq Seq(ToolArguments)
    /\ Modes \subseteq LaunchModes
    /\ EarlyCalls \in BOOLEAN /\ CanFail \in BOOLEAN
    /\ MaxLaunches \in Nat

VARIABLES
    toolLoaded,            \* Kokkos::initialize has loaded the tool
    hasKernelDumpTool,     \* "unset", or the outcome of init_internal_functions
    dumpKernelLabel,       \* --krepe-dump-kernel-label
    dumpKernelInvocation,  \* --krepe-dump-kernel-invocation
    nextKernelId,          \* next_kernel_id
    kernelStates,          \* kernel_states: id -> [invocation, dumpPath]
    kernelInvocations,     \* kernel_invocations
    functorData,           \* launch whose functor functor_data and
                           \* nvcc_inner_lambda_data hold
    policy,                \* launch whose policy is registered
    metadata,              \* metadata
    dumpMutex,             \* thread in create_kernel_dump or append_kernel_output
    files                  \* dump files by kernel id

VARIABLES
    pc,           \* next step of each thread
    launch,       \* launch a thread is in
    kernelId,     \* id that begin_kernel gave it
    toRegister,   \* captured Views replay_functor has still to register
    awaited,      \* launches the fence in progress waits for
    todo          \* part of the snapshot that is still to be written

VARIABLES
    launches,       \* number of launches so far
    pending,        \* launches that are queued on the device
    mem,            \* contents of each allocation: the launches that wrote it
    addedMetadata   \* metadata as the application has set it

toolVars == <<toolLoaded, hasKernelDumpTool, dumpKernelLabel, dumpKernelInvocation>>
stateVars == <<nextKernelId, kernelStates, kernelInvocations>>
dataVars == <<functorData, policy, metadata>>
fileVars == <<dumpMutex, files>>
localVars == <<launch, kernelId, toRegister, awaited, todo>>
deviceVars == <<launches, pending, mem, addedMetadata>>
vars == <<hooksVars, toolVars, stateVars, dataVars, fileVars, pc, localVars, deviceVars>>

NoMetadata == [key \in MetadataKeys |-> NoValue]

Init ==
    /\ HooksInit
    /\ toolLoaded = FALSE
    /\ hasKernelDumpTool = "unset"
    /\ dumpKernelLabel = EmptyLabel
    /\ dumpKernelInvocation = 1
    /\ nextKernelId = 1
    /\ kernelStates = [id \in {} |-> NoPath]
    /\ kernelInvocations = [label \in KernelLabels |-> 0]
    /\ functorData = NoFunctor
    /\ policy = NoPolicy
    /\ metadata = NoMetadata
    /\ dumpMutex = {}
    /\ files = [id \in {} |-> NoPath]
    /\ pc = [t \in Threads |-> "idle"]
    /\ launch = [t \in Threads |-> NoLaunch]
    /\ kernelId = [t \in Threads |-> 0]
    /\ toRegister = [t \in Threads |-> {}]
    /\ awaited = [t \in Threads |-> {}]
    /\ todo = [t \in Threads |-> [k \in {} |-> NoValue]]
    /\ launches = 0
    /\ pending = {}
    /\ mem = [k \in {} |-> {}]
    /\ addedMetadata = NoMetadata

-----------------------------------------------------------------------------
(* Loading the tool and binding to it.                                     *)

\* Mutant: an invalid number is used as it is.
ParsePositiveUint64_Unchecked(n) == n

(* parse_positive_uint64; a text that is no number in range is passed as -1. *)
ParsePositiveUint64(n) == IF n <= 0 THEN NoInvocation ELSE n

Occurrences(args, option) == {i \in DOMAIN args : args[i].option = option}

(* kokkosp_parse_args: the last occurrence of an option counts. *)
ParseArgs(args) ==
    /\ dumpKernelLabel' =
         LET at == Occurrences(args, "label")
         IN  IF at = {} THEN dumpKernelLabel ELSE args[Max(at)].label
    /\ dumpKernelInvocation' =
         LET at == Occurrences(args, "invocation")
         IN  IF at = {} THEN dumpKernelInvocation
             ELSE ParsePositiveUint64(args[Max(at)].number)

(* Kokkos::initialize loads the tool, passes it its arguments and the fence. *)
LoadTool(args) ==
    /\ ~toolLoaded
    /\ toolLoaded' = TRUE
    /\ ParseArgs(args)
    /\ UNCHANGED <<hooksVars, hasKernelDumpTool, stateVars, dataVars, fileVars, pc,
                   localVars, deviceVars>>

(* init_internal_functions: the first call of any krepe:: function decides *)
(* for the rest of the process whether the tool is there.                  *)
BoundTool ==
    IF hasKernelDumpTool # "unset" THEN hasKernelDumpTool
    ELSE IF toolLoaded THEN "yes" ELSE "no"

InitInternalFunctions == hasKernelDumpTool' = BoundTool

AddMetadata(t, key, value) ==
    /\ pc[t] = "idle"
    /\ toolLoaded \/ EarlyCalls
    /\ InitInternalFunctions
    /\ metadata' = IF BoundTool = "yes" THEN [metadata EXCEPT ![key] = value] ELSE metadata
    /\ addedMetadata' = [addedMetadata EXCEPT ![key] = value]
    /\ UNCHANGED <<hooksVars, toolLoaded, dumpKernelLabel, dumpKernelInvocation, stateVars,
                   functorData, policy, fileVars, pc, localVars, launches, pending, mem>>

-----------------------------------------------------------------------------
(* The application allocates and frees Views between its launches.         *)

Allocate(t) ==
    /\ pc[t] = "idle" /\ toolLoaded
    /\ \E space \in Spaces, label \in Labels, ptr \in Pointers,
          size \in Sizes, slack \in Slacks :
         /\ \E probed \in ProbeOutcomes[space] :
              AllocateData(space, label, ptr, size, slack, probed)
         /\ mem' = [k \in DOMAIN mem \cup {<<space, ptr>>} |->
                      IF k = <<space, ptr>> THEN {} ELSE mem[k]]
    /\ UNCHANGED <<toolVars, stateVars, dataVars, fileVars, pc, localVars,
                   launches, pending, addedMetadata>>

InFlight == pending \cup {launch[t] : t \in {u \in Threads : pc[u] # "idle"}}

(* A View captured by a kernel in flight keeps its allocation alive.       *)
Deallocate(t, k) ==
    /\ pc[t] = "idle"
    /\ k \in DOMAIN heap
    /\ \A l \in InFlight : k \notin l.captures
    /\ DeallocateData(k)
    /\ mem' = [h \in DOMAIN mem \ {k} |-> mem[h]]
    /\ UNCHANGED <<toolVars, stateVars, dataVars, fileVars, pc, localVars,
                   launches, pending, addedMetadata>>

-----------------------------------------------------------------------------
(* krepe::parallel_for and krepe::replay_functor.                          *)

Goto(t, label) == pc' = [pc EXCEPT ![t] = label]

(* First step of replay_functor: the compiler plugins put the registration *)
(* of the functor's Views in front of its body.                            *)
ReplayFunctor == IF HasCompilerPlugins THEN "clearViews" ELSE "resizeFunctor"

(* `captures' are the user allocations that the functor's Views point into. *)
StartLaunch(t, mode, label, captures) ==
    /\ pc[t] = "idle" /\ toolLoaded
    /\ launches < MaxLaunches
    /\ launches' = launches + 1
    /\ launch' = [launch EXCEPT ![t] =
                    [number |-> launches', thread |-> t, mode |-> mode, label |-> label,
                     captures |-> captures, metadata |-> addedMetadata]]
    /\ Goto(t, CASE mode = "krepe" -> "check"
                 [] mode = "manual" -> ReplayFunctor
                 [] mode = "plain" -> "takeId")
    /\ UNCHANGED <<hooksVars, toolVars, stateVars, dataVars, fileVars, kernelId, toRegister,
                   awaited, todo, pending, mem, addedMetadata>>

\* Mutant: every invocation from the requested one on is dumped.
ShouldDump_AtLeast(label, invocation) ==
    /\ dumpKernelInvocation # NoInvocation
    /\ dumpKernelLabel # EmptyLabel /\ label = dumpKernelLabel
    /\ invocation >= dumpKernelInvocation

(* should_dump_views_for_invocation *)
ShouldDump(label, invocation) ==
    /\ dumpKernelInvocation # NoInvocation
    /\ dumpKernelLabel # EmptyLabel /\ label = dumpKernelLabel
    /\ invocation = dumpKernelInvocation

\* Mutant: the current invocation is asked for instead of the next one.
CheckNextInvocation_OffByOne(t) ==
    /\ pc[t] = "check"
    /\ InitInternalFunctions
    /\ Goto(t, IF /\ BoundTool = "yes"
                  /\ ShouldDump(launch[t].label, kernelInvocations[launch[t].label])
               THEN "registerPolicy" ELSE "takeId")
    /\ UNCHANGED <<hooksVars, toolLoaded, dumpKernelLabel, dumpKernelInvocation, stateVars,
                   dataVars, fileVars, localVars, deviceVars>>

(* next_invocation_will_dump: the answer may be out of date when it is used. *)
CheckNextInvocation(t) ==
    /\ pc[t] = "check"
    /\ InitInternalFunctions
    /\ Goto(t, IF /\ BoundTool = "yes"
                  /\ ShouldDump(launch[t].label, kernelInvocations[launch[t].label] + 1)
               THEN "registerPolicy" ELSE "takeId")
    /\ UNCHANGED <<hooksVars, toolLoaded, dumpKernelLabel, dumpKernelInvocation, stateVars,
                   dataVars, fileVars, localVars, deviceVars>>

(* register_bounds: an assignment to the variant, not atomic. *)
RegisterPolicy(t) ==
    /\ \/ pc[t] = "registerPolicy" /\ policy' = Torn /\ Goto(t, "policyAssigned")
       \/ pc[t] = "policyAssigned" /\ policy' = launch[t].number /\ Goto(t, ReplayFunctor)
    /\ UNCHANGED <<hooksVars, toolVars, stateVars, functorData, metadata, fileVars, localVars,
                   deviceVars>>

\* Mutant: the Views of earlier functors stay registered.
ClearViews_Kept(t) ==
    /\ pc[t] = "clearViews"
    /\ InitInternalFunctions
    /\ toRegister' = [toRegister EXCEPT ![t] = launch[t].captures]
    /\ Goto(t, "registerViews")
    /\ UNCHANGED <<hooksVars, toolLoaded, dumpKernelLabel, dumpKernelInvocation, stateVars,
                   dataVars, fileVars, launch, kernelId, awaited, todo, deviceVars>>

(* clear_registered_views *)
ClearViews(t) ==
    /\ pc[t] = "clearViews"
    /\ InitInternalFunctions
    /\ IF BoundTool = "yes" THEN ClearRegisteredViews ELSE UNCHANGED hooksVars
    /\ toRegister' = [toRegister EXCEPT ![t] = launch[t].captures]
    /\ Goto(t, "registerViews")
    /\ UNCHANGED <<toolLoaded, dumpKernelLabel, dumpKernelInvocation, stateVars, dataVars,
                   fileVars, launch, kernelId, awaited, todo, deviceVars>>

(* register_view, once for each View in the functor. *)
RegisterCapture(t) ==
    /\ pc[t] = "registerViews"
    /\ \E k \in toRegister[t] :
         /\ IF BoundTool = "yes"
            THEN \E offset \in 0 .. heap[k].size : RegisterView(k, offset)
            ELSE UNCHANGED hooksVars
         /\ toRegister' = [toRegister EXCEPT ![t] = @ \ {k}]
    /\ UNCHANGED <<toolVars, stateVars, dataVars, fileVars, pc, launch, kernelId, awaited,
                   todo, deviceVars>>

AllViewsRegistered(t) ==
    /\ pc[t] = "registerViews" /\ toRegister[t] = {}
    /\ Goto(t, "resizeFunctor")
    /\ UNCHANGED <<hooksVars, toolVars, stateVars, dataVars, fileVars, localVars, deviceVars>>

(* copy_functor or copy_nvcc_lambda: the vectors are resized, then filled. *)
CopyFunctor(t) ==
    /\ \/ /\ pc[t] = "resizeFunctor" /\ Goto(t, "fillFunctor")
          /\ InitInternalFunctions
          /\ functorData' = IF BoundTool = "yes" THEN Torn ELSE functorData
       \/ /\ pc[t] = "fillFunctor" /\ Goto(t, "takeId")
          /\ UNCHANGED hasKernelDumpTool
          /\ functorData' = IF BoundTool = "yes" THEN launch[t].number ELSE functorData
    /\ UNCHANGED <<hooksVars, toolLoaded, dumpKernelLabel, dumpKernelInvocation, stateVars,
                   policy, metadata, fileVars, localVars, deviceVars>>

-----------------------------------------------------------------------------
(* begin_kernel, which Kokkos calls before it launches the kernel.         *)

\* Mutant: a lost update of the counter.
TakeId_Lost(t) ==
    /\ pc[t] = "takeId"
    /\ kernelId' = [kernelId EXCEPT ![t] = nextKernelId]
    /\ Goto(t, "countInvocation")
    /\ UNCHANGED <<hooksVars, toolVars, stateVars, dataVars, fileVars,
                   launch, toRegister, awaited, todo, deviceVars>>

(* next_kernel_id.fetch_add(1) *)
TakeId(t) ==
    /\ pc[t] = "takeId"
    /\ kernelId' = [kernelId EXCEPT ![t] = nextKernelId]
    /\ nextKernelId' = nextKernelId + 1
    /\ Goto(t, "countInvocation")
    /\ UNCHANGED <<hooksVars, toolVars, kernelStates, kernelInvocations, dataVars, fileVars,
                   launch, toRegister, awaited, todo, deviceVars>>

(* The section of begin_kernel under state_mutex. *)
CountInvocation(t) ==
    LET label == launch[t].label
        invocation == kernelInvocations[label] + 1
    IN  /\ pc[t] = "countInvocation"
        /\ kernelInvocations' = [kernelInvocations EXCEPT ![label] = invocation]
        /\ kernelStates' = [id \in DOMAIN kernelStates \cup {kernelId[t]} |->
                              IF id = kernelId[t]
                              THEN [invocation |-> invocation, dumpPath |-> NoPath]
                              ELSE kernelStates[id]]
        /\ Goto(t, IF ShouldDump(label, invocation) THEN "fenceInput" ELSE "submit")
        /\ UNCHANGED <<hooksVars, toolVars, nextKernelId, dataVars, fileVars, localVars,
                       deviceVars>>

\* Mutant: begin_kernel does not fence.
CallFence_OutputOnly(t) ==
    /\ \/ pc[t] = "fenceInput" /\ Goto(t, "awaitInput") /\ UNCHANGED awaited
       \/ /\ pc[t] = "fenceOutput" /\ Goto(t, "awaitOutput")
          /\ awaited' = [awaited EXCEPT ![t] = pending]
    /\ UNCHANGED <<hooksVars, toolVars, stateVars, dataVars, fileVars, launch, kernelId,
                   toRegister, todo, deviceVars>>

(* tool_fence waits for the launches that are queued when it is called. *)
CallFence(t) ==
    /\ \/ pc[t] = "fenceInput" /\ Goto(t, "awaitInput")
       \/ pc[t] = "fenceOutput" /\ Goto(t, "awaitOutput")
    /\ awaited' = [awaited EXCEPT ![t] = pending]
    /\ UNCHANGED <<hooksVars, toolVars, stateVars, dataVars, fileVars, launch, kernelId,
                   toRegister, todo, deviceVars>>

\* Mutant: the snapshot does not wait for the fence.
TakeSnapshot_NoFence(t) ==
    /\ \/ pc[t] = "awaitInput" /\ Goto(t, "createFile")
       \/ pc[t] = "awaitOutput" /\ Goto(t, "openFile")
    /\ awaited' = [awaited EXCEPT ![t] = {}]
    /\ todo' = [todo EXCEPT ![t] = Snapshot]
    /\ UNCHANGED <<hooksVars, toolVars, stateVars, dataVars, fileVars, launch, kernelId,
                   toRegister, deviceVars>>

(* The fence returns, and dump_input_views or dump_output_views takes the  *)
(* snapshot that it will write.                                            *)
TakeSnapshot(t) ==
    /\ \/ pc[t] = "awaitInput" /\ Goto(t, "createFile")
       \/ pc[t] = "awaitOutput" /\ Goto(t, "openFile")
    /\ awaited[t] \cap pending = {}
    /\ awaited' = [awaited EXCEPT ![t] = {}]
    /\ todo' = [todo EXCEPT ![t] = Snapshot]
    /\ UNCHANGED <<hooksVars, toolVars, stateVars, dataVars, fileVars, launch, kernelId,
                   toRegister, deviceVars>>

-----------------------------------------------------------------------------
(* create_kernel_dump and append_kernel_output.  A file records what the   *)
(* dump says (label, invocation, in, metadata, policy, functor, out), how  *)
(* far the writing of /in and /out got, and for which launch it was made.  *)

NoGroups == [k \in {} |-> NoValue]

(* copy_allocation_bytes: unknown sizes are skipped, and so is an          *)
(* allocation whose copy fails or whose space has no copy path; nothing is *)
(* read of an empty one, and a freed one is read all the same.             *)
CopyOutcomes(k, record) ==
    IF ~record.dataSizeKnown THEN {Skipped}
    ELSE IF record.size = 0 THEN {{}}
    ELSE (IF CanFail THEN {Skipped} ELSE {})
         \cup {IF k \in DOMAIN heap THEN mem[k] ELSE Dangling}

(* write_allocation_group for one of the allocations left in todo[t]. *)
WriteGroup(t, groups, k, bytes) ==
    [h \in DOMAIN groups \cup {k} |->
        IF h = k THEN [record |-> todo[t][k], bytes |-> bytes] ELSE groups[h]]

Forget(t, k) == [todo EXCEPT ![t] = [h \in DOMAIN todo[t] \ {k} |-> todo[t][h]]]

WriteUnchanged == <<hooksVars, toolVars, stateVars, dataVars, launch, kernelId, toRegister,
                    awaited, deviceVars>>

(* Takes dump_mutex and creates the file, truncating an existing one. *)
CreateFile(t) ==
    /\ pc[t] = "createFile" /\ dumpMutex = {}
    /\ dumpMutex' = {t}
    /\ files' = [id \in DOMAIN files \cup {kernelId[t]} |->
                   IF id # kernelId[t] THEN files[id]
                   ELSE [launch |-> launch[t], label |-> launch[t].label,
                         invocation |-> kernelStates[id].invocation,
                         input |-> "open", in |-> NoGroups,
                         metadata |-> NoMetadata, policy |-> NoPolicy, functor |-> NoFunctor,
                         output |-> "absent", out |-> NoGroups]]
    /\ Goto(t, "writeInput")
    /\ UNCHANGED <<todo, WriteUnchanged>>

WriteInput(t) ==
    /\ pc[t] = "writeInput"
    /\ \E k \in DOMAIN todo[t] : \E bytes \in CopyOutcomes(k, todo[t][k]) :
         /\ files' = [files EXCEPT ![kernelId[t]].in = WriteGroup(t, @, k, bytes)]
         /\ todo' = Forget(t, k)
    /\ UNCHANGED <<pc, dumpMutex, WriteUnchanged>>

\* Mutant: dump_mutex is not released.
FinishInput_Locked(t) ==
    /\ pc[t] = "writeInput" /\ DOMAIN todo[t] = {}
    /\ files' = [files EXCEPT ![kernelId[t]].metadata = metadata,
                              ![kernelId[t]].policy = policy,
                              ![kernelId[t]].functor = functorData,
                              ![kernelId[t]].input = "complete"]
    /\ Goto(t, "setPath")
    /\ UNCHANGED <<dumpMutex, todo, WriteUnchanged>>

(* The metadata, policy and functor groups, and the file is closed. *)
FinishInput(t) ==
    /\ pc[t] = "writeInput" /\ DOMAIN todo[t] = {}
    /\ files' = [files EXCEPT ![kernelId[t]].metadata = metadata,
                              ![kernelId[t]].policy = policy,
                              ![kernelId[t]].functor = functorData,
                              ![kernelId[t]].input = "complete"]
    /\ dumpMutex' = {}
    /\ Goto(t, "setPath")
    /\ UNCHANGED <<todo, WriteUnchanged>>

(* An exception in create_kernel_dump: what was written stays on disk. *)
FailInput(t) ==
    /\ CanFail
    /\ \/ pc[t] = "createFile" /\ dumpMutex = {} /\ UNCHANGED files
       \/ pc[t] = "writeInput" /\ files' = [files EXCEPT ![kernelId[t]].input = "failed"]
    /\ dumpMutex' = {}
    /\ todo' = [todo EXCEPT ![t] = NoGroups]
    /\ Goto(t, "submit")
    /\ UNCHANGED WriteUnchanged

(* The last section of begin_kernel, after a dump that succeeded. *)
SetPath(t) ==
    /\ pc[t] = "setPath"
    /\ kernelStates' = IF kernelId[t] \in DOMAIN kernelStates
                       THEN [kernelStates EXCEPT ![kernelId[t]].dumpPath = kernelId[t]]
                       ELSE kernelStates
    /\ Goto(t, "submit")
    /\ UNCHANGED <<hooksVars, toolVars, nextKernelId, kernelInvocations, dataVars, fileVars,
                   localVars, deviceVars>>

(* Kokkos queues the kernel on the thread's execution space instance. *)
Submit(t) ==
    /\ pc[t] = "submit"
    /\ pending' = pending \cup {launch[t]}
    /\ Goto(t, "endKernel")
    /\ UNCHANGED <<hooksVars, toolVars, stateVars, dataVars, fileVars, localVars,
                   launches, mem, addedMetadata>>

(* The launches of one thread run in the order they were queued. *)
RunKernel(l) ==
    /\ l \in pending
    /\ \A m \in pending : m.thread = l.thread => l.number <= m.number
    /\ pending' = pending \ {l}
    /\ mem' = [k \in DOMAIN mem |->
                 IF k \in l.captures THEN mem[k] \cup {l.number} ELSE mem[k]]
    /\ UNCHANGED <<hooksVars, toolVars, stateVars, dataVars, fileVars, pc, localVars,
                   launches, addedMetadata>>

-----------------------------------------------------------------------------
(* end_kernel, which Kokkos calls once the kernel is queued.               *)

(* The thread leaves the launch and its locals go out of scope. *)
Return(t) ==
    /\ Goto(t, "idle")
    /\ launch' = [launch EXCEPT ![t] = NoLaunch]
    /\ kernelId' = [kernelId EXCEPT ![t] = 0]

(* The section of end_kernel under state_mutex. *)
EndKernel(t) ==
    /\ pc[t] = "endKernel"
    /\ IF kernelId[t] \in DOMAIN kernelStates /\ kernelStates[kernelId[t]].dumpPath # NoPath
       THEN Goto(t, "fenceOutput") /\ UNCHANGED <<launch, kernelId>>
       ELSE Return(t)
    /\ kernelStates' = [id \in DOMAIN kernelStates \ {kernelId[t]} |-> kernelStates[id]]
    /\ UNCHANGED <<hooksVars, toolVars, nextKernelId, kernelInvocations, dataVars, fileVars,
                   toRegister, awaited, todo, deviceVars>>

\* Mutant: the file is created anew instead of opened.
OpenFile_Truncated(t) ==
    /\ pc[t] = "openFile" /\ dumpMutex = {}
    /\ dumpMutex' = {t}
    /\ files' = [files EXCEPT ![kernelId[t]].output = "open", ![kernelId[t]].in = NoGroups]
    /\ Goto(t, "writeOutput")
    /\ UNCHANGED <<todo, WriteUnchanged>>

(* append_kernel_output takes dump_mutex, opens the file and creates /out. *)
OpenFile(t) ==
    /\ pc[t] = "openFile" /\ dumpMutex = {}
    /\ dumpMutex' = {t}
    /\ files' = [files EXCEPT ![kernelId[t]].output = "open"]
    /\ Goto(t, "writeOutput")
    /\ UNCHANGED <<todo, WriteUnchanged>>

WriteOutput(t) ==
    /\ pc[t] = "writeOutput"
    /\ \E k \in DOMAIN todo[t] : \E bytes \in CopyOutcomes(k, todo[t][k]) :
         /\ files' = [files EXCEPT ![kernelId[t]].out = WriteGroup(t, @, k, bytes)]
         /\ todo' = Forget(t, k)
    /\ UNCHANGED <<pc, dumpMutex, WriteUnchanged>>

\* Mutant: the file is not closed.
FinishOutput_Open(t) ==
    /\ pc[t] = "writeOutput" /\ DOMAIN todo[t] = {}
    /\ dumpMutex' = {}
    /\ Return(t)
    /\ UNCHANGED <<hooksVars, toolVars, stateVars, dataVars, files, toRegister, awaited, todo,
                   deviceVars>>

FinishOutput(t) ==
    /\ pc[t] = "writeOutput" /\ DOMAIN todo[t] = {}
    /\ files' = [files EXCEPT ![kernelId[t]].output = "complete"]
    /\ dumpMutex' = {}
    /\ Return(t)
    /\ UNCHANGED <<hooksVars, toolVars, stateVars, dataVars, toRegister, awaited, todo,
                   deviceVars>>

(* An exception in append_kernel_output: /out is missing or incomplete. *)
FailOutput(t) ==
    /\ CanFail
    /\ \/ pc[t] = "openFile" /\ dumpMutex = {} /\ UNCHANGED files
       \/ pc[t] = "writeOutput" /\ files' = [files EXCEPT ![kernelId[t]].output = "failed"]
    /\ dumpMutex' = {}
    /\ todo' = [todo EXCEPT ![t] = NoGroups]
    /\ Return(t)
    /\ UNCHANGED <<hooksVars, toolVars, stateVars, dataVars, toRegister, awaited, deviceVars>>

-----------------------------------------------------------------------------
(* The application between launches. *)
Application ==
    \/ \E args \in ToolArgs : LoadTool(args)
    \/ \E t \in Threads :
         \/ \E key \in MetadataKeys, value \in MetadataValues : AddMetadata(t, key, value)
         \/ Allocate(t)
         \/ \E k \in DOMAIN heap : Deallocate(t, k)
         \/ \E mode \in Modes, label \in KernelLabels, captures \in SUBSET DOMAIN activeAllocations :
              StartLaunch(t, mode, label, captures)

(* A thread inside a launch. *)
ThreadStep(t) ==
    \/ CheckNextInvocation(t) \/ RegisterPolicy(t)
    \/ ClearViews(t) \/ RegisterCapture(t) \/ AllViewsRegistered(t) \/ CopyFunctor(t)
    \/ TakeId(t) \/ CountInvocation(t)
    \/ CallFence(t) \/ TakeSnapshot(t)
    \/ CreateFile(t) \/ WriteInput(t) \/ FinishInput(t) \/ FailInput(t) \/ SetPath(t)
    \/ Submit(t) \/ EndKernel(t)
    \/ OpenFile(t) \/ WriteOutput(t) \/ FinishOutput(t) \/ FailOutput(t)

DeviceStep == \E l \in pending : RunKernel(l)

Next == Application \/ DeviceStep \/ \E t \in Threads : ThreadStep(t)

(* The operating system schedules every thread and the device runs what is *)
(* queued; nothing is assumed of what the application does next.           *)
Fairness == (\A t \in Threads : WF_vars(ThreadStep(t))) /\ WF_vars(DeviceStep)

Spec == Init /\ [][Next]_vars /\ Fairness

-----------------------------------------------------------------------------
(* Types.                                                                  *)

Labelled == {"check", "registerPolicy", "policyAssigned", "clearViews", "registerViews",
             "resizeFunctor", "fillFunctor", "takeId"}   \* before begin_kernel
Dumping == {"fenceInput", "awaitInput", "createFile", "writeInput", "setPath"}
Tracked == Dumping \cup {"submit", "endKernel"}          \* id in kernel_states
Ending == {"fenceOutput", "awaitOutput", "openFile", "writeOutput"}
Steps == {"idle", "countInvocation"} \cup Labelled \cup Tracked \cup Ending

Metadata == [MetadataKeys -> MetadataValues \cup {NoValue}]
LaunchRecords == [number : Nat, thread : Threads, mode : LaunchModes, label : KernelLabels,
                  captures : SUBSET Keys, metadata : Metadata]
LaunchOrTorn == Nat \cup {Torn}

(* The markers are no launch and no contents of an allocation. *)
ASSUME MarkersAssumption ==
    /\ NoLaunch \notin LaunchRecords
    /\ \A numbers \in SUBSET (0 .. MaxLaunches) : Dangling # numbers

Phases == {"absent", "open", "complete", "failed"}
FileTypes == [launch : LaunchRecords, label : KernelLabels, invocation : Nat,
              metadata : Metadata, policy : LaunchOrTorn, functor : LaunchOrTorn,
              input : Phases \ {"absent"}, output : Phases]
FileHeader(f) == [field \in {"launch", "label", "invocation", "metadata", "policy", "functor",
                             "input", "output"} |-> f[field]]

(* Every variable has its type. *)
TypeOK ==
    /\ HooksTypeOK
    /\ toolLoaded \in BOOLEAN /\ hasKernelDumpTool \in {"unset", "yes", "no"}
    /\ dumpKernelLabel \in KernelLabels \cup {EmptyLabel}
    /\ dumpKernelInvocation \in Nat
    /\ nextKernelId \in Nat \ {0}
    /\ DOMAIN kernelStates \subseteq Nat \ {0}
    /\ \A id \in DOMAIN kernelStates : kernelStates[id] \in [invocation : Nat, dumpPath : Nat]
    /\ kernelInvocations \in [KernelLabels -> Nat]
    /\ functorData \in LaunchOrTorn /\ policy \in LaunchOrTorn
    /\ metadata \in Metadata /\ addedMetadata \in Metadata
    /\ dumpMutex \in SUBSET Threads
    /\ DOMAIN files \subseteq Nat \ {0}
    /\ \A id \in DOMAIN files :
         /\ FileHeader(files[id]) \in FileTypes
         /\ DOMAIN files[id].in \subseteq Keys /\ DOMAIN files[id].out \subseteq Keys
    /\ pc \in [Threads -> Steps]
    /\ launch \in [Threads -> LaunchRecords \cup {NoLaunch}]
    /\ \A t \in Threads : launch[t] = NoLaunch <=> pc[t] = "idle"
    /\ kernelId \in [Threads -> Nat]
    /\ toRegister \in [Threads -> SUBSET Keys]
    /\ awaited \in [Threads -> SUBSET LaunchRecords]
    /\ launches \in Nat /\ pending \in SUBSET LaunchRecords
    /\ mem \in [DOMAIN heap -> SUBSET Nat]

-----------------------------------------------------------------------------
(* Safety.                                                                 *)

(* One process writes at most one dump, and it is the one the tool was     *)
(* asked for: begin_kernel decides by the counter it has just incremented  *)
(* under state_mutex, whatever other threads launch under the same label.  *)
OneRequestedDump ==
    /\ \A i, j \in DOMAIN files : i = j
    /\ \A id \in DOMAIN files :
         /\ files[id].label = dumpKernelLabel
         /\ files[id].invocation = dumpKernelInvocation

(* kernel_states holds exactly the kernels between begin_kernel and        *)
(* end_kernel, under distinct ids, and a dump_path only for a kernel whose *)
(* own /in was written completely: no entry leaks or is used twice.        *)
KernelStatesAreExact ==
    LET inside == {t \in Threads : pc[t] \in Tracked}
    IN  /\ DOMAIN kernelStates = {kernelId[t] : t \in inside}
        /\ \A t, u \in inside : kernelId[t] = kernelId[u] => t = u
        /\ \A t \in inside : kernelStates[kernelId[t]].dumpPath # NoPath =>
             /\ kernelStates[kernelId[t]].dumpPath = kernelId[t]
             /\ kernelId[t] \in DOMAIN files
             /\ files[kernelId[t]].input = "complete"
             /\ files[kernelId[t]].launch = launch[t]

HasBytes(groups, k) ==
    k \in DOMAIN groups /\ groups[k].bytes # Skipped /\ groups[k].record.size > 0

(* /in is written before the dumped kernel runs and /out after it has      *)
(* completed, although launches are asynchronous and other threads keep    *)
(* launching: no byte of /in shows the kernel, every byte of /out that the *)
(* kernel writes shows it.                                                 *)
InBeforeOutAfter ==
    \A id \in DOMAIN files :
        LET f == files[id]
        IN  \A k \in f.launch.captures :
                /\ HasBytes(f.in, k) =>
                     f.in[k].bytes # Dangling /\ f.launch.number \notin f.in[k].bytes
                /\ HasBytes(f.out, k) =>
                     f.out[k].bytes # Dangling /\ f.launch.number \in f.out[k].bytes

(* A complete /in and /out hold every user allocation that the dumped      *)
(* kernel captures, although other threads allocate and free meanwhile.    *)
CapturesAreDumped ==
    \A id \in DOMAIN files :
        LET f == files[id]
        IN  /\ f.input = "complete" => f.launch.captures \subseteq DOMAIN f.in
            /\ f.output = "complete" => f.launch.captures \subseteq DOMAIN f.out

(* With one launching thread that is bound to the tool, the functor, the   *)
(* policy and the metadata of a complete dump are those of the launch that *)
(* is dumped; a functor saved by hand comes without a policy, never with   *)
(* the policy of another launch.                                           *)
DumpDescribesLaunch ==
    \A id \in DOMAIN files :
        LET f == files[id]
        IN  (f.input = "complete" /\ hasKernelDumpTool = "yes") =>
              /\ f.metadata = f.launch.metadata
              /\ f.launch.mode \in {"krepe", "manual"} => f.functor = f.launch.number
              /\ f.policy = IF f.launch.mode = "krepe" THEN f.launch.number ELSE NoPolicy

(* With the compiler plugins and one launching thread, the dump of a       *)
(* registered functor holds the user allocations of its Views and no other *)
(* one, whatever earlier functors registered.                              *)
InputIsCaptures ==
    \A id \in DOMAIN files :
        LET f == files[id]
        IN  (f.input = "complete" /\ hasKernelDumpTool = "yes"
                /\ f.launch.mode \in {"krepe", "manual"})
              => DOMAIN f.in = f.launch.captures

-----------------------------------------------------------------------------
(* Statements of the documentation that the code does not satisfy.         *)

(* "Calls a parallel_for and saves the execution policy and the functor."  *)
(* (kernel_extractor.hpp): the dump of a launch by krepe::parallel_for has *)
(* the policy and the functor of that launch.                              *)
SavesPolicyAndFunctor ==
    \A id \in DOMAIN files :
        LET f == files[id]
        IN  (f.input = "complete" /\ f.launch.mode = "krepe") =>
                f.policy = f.launch.number /\ f.functor = f.launch.number

-----------------------------------------------------------------------------
(* The dump file as DumpLifecycle describes it.                            *)

NoFile == [input |-> "absent", output |-> "absent"]
TheFile == IF DOMAIN files = {} THEN NoFile
           ELSE files[CHOOSE id \in DOMAIN files : TRUE]

PhaseOf(f) ==
    CASE f.input = "absent" -> "none"
      [] f.input = "open" -> "creating"
      [] f.input = "failed" -> "abandoned"
      [] f.input = "complete" /\ f.output = "absent" -> "published"
      [] f.input = "complete" /\ f.output = "open" -> "appending"
      [] f.input = "complete" /\ f.output = "complete" -> "completed"
      [] f.input = "complete" /\ f.output = "failed" -> "truncated"

Dump == INSTANCE DumpLifecycle WITH
    Nothing <- << >>,
    phase <- PhaseOf(TheFile),
    owner <- IF TheFile.input = "absent" THEN << >> ELSE <<TheFile.launch>>,
    input <- IF TheFile.input = "complete"
             THEN <<TheFile.in, TheFile.metadata, TheFile.policy, TheFile.functor>>
             ELSE << >>,
    output <- IF TheFile.output = "complete" THEN <<TheFile.out>> ELSE << >>

(* The threads, locks and failures of the capture tool implement the       *)
(* lifecycle of a single dump: /in is frozen once its file has been closed *)
(* and /out is only appended to a complete /in.                            *)
ImplementsLifecycle == Dump!LifecycleSpec

(* Neither create_kernel_dump nor append_kernel_output is left unfinished. *)
DumpSettles == Dump!Settles

(* Every launch ends: no fence and no lock of the tool blocks for ever the *)
(* thread that launches a kernel.                                          *)
LaunchesReturn == \A t \in Threads : pc[t] # "idle" ~> pc[t] = "idle"

=============================================================================
