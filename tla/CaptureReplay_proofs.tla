------------------------ MODULE CaptureReplay_proofs ------------------------
(***************************************************************************)
(* Proofs about CaptureReplay: whatever dump an application with one       *)
(* thread leaves, complete or not, what the replayer accepts is whole, and *)
(* a replay leaves in memory what the kernel left in the application.      *)
(***************************************************************************)
EXTENDS CaptureReplay, CaptureContents_proofs, FiniteSetTheorems

-----------------------------------------------------------------------------
(* The application: what a dump says of the memory while its launch is in  *)
(* flight.  One thread allocates, frees and launches, so that nothing else *)
(* changes between the snapshots of begin_kernel and end_kernel.           *)

(* The contents of one allocation as the tool copies them. *)
IsContents(bytes) == bytes = Skipped \/ bytes \subseteq 0 .. MaxLaunches

(* The groups of /in/views or /out/views. *)
GroupsAreTyped(snapshot) ==
    /\ IsFiniteSet(DOMAIN snapshot)
    /\ \A k \in DOMAIN snapshot :
         /\ k \in Spaces \X Pointers
         /\ snapshot[k].record \in Records
         /\ snapshot[k].record.pData = AllocationDataPointer(k[2])
         /\ IsContents(snapshot[k].bytes)

(* What the kernel of launch l adds to the contents of allocation k. *)
WrittenBy(l, k) == IF k \in l.captures THEN {l.number} ELSE {}

(* /out is /in after the kernel. *)
OutFollowsIn(f) ==
    \A k \in DOMAIN f.out :
        /\ k \in DOMAIN f.in /\ f.out[k].record = f.in[k].record
        /\ HasBytes(f.out, k) /\ HasBytes(f.in, k) =>
             f.out[k].bytes = f.in[k].bytes \cup WrittenBy(f.launch, k)

(* What stays true of a file when the application has ended. *)
FileIsSettled(f) ==
    /\ f.launch \in LaunchRecords /\ f.launch.number # 0 /\ f.launch.mode # "plain"
    /\ GroupsAreTyped(f.in) /\ GroupsAreTyped(f.out)
    /\ InIsTimely(f) /\ OutFollowsIn(f)
    /\ f.output = "absent" => DOMAIN f.out = {}

(* The thread's kernel has been run. *)
HasRun(t) == pc[t] \in Submitted /\ launch[t] \notin pending

(* The dump f of the thread's launch agrees with the memory. *)
AgreesWithMemory(t, f) ==
    /\ pending \subseteq {launch[t]}
    /\ f.input = "complete" => SnapshotKeys \subseteq DOMAIN f.in
    /\ \A k \in DOMAIN f.in :
         /\ k \in SnapshotKeys /\ f.in[k].record = activeAllocations[k]
         /\ HasBytes(f.in, k) =>
              mem[k] = f.in[k].bytes \cup IF HasRun(t) THEN WrittenBy(launch[t], k) ELSE {}

BeforeBegin == Labelled \cup {"countInvocation"}

Sequential(t) ==
    /\ pc[t] # "idle" => launch[t].number # 0 /\ launch[t].mode # "plain"
    /\ pc[t] \in BeforeBegin => \A id \in DOMAIN files : files[id].launch # launch[t]
    /\ pc[t] = "awaitInput" => pending \subseteq awaited[t]
    /\ pc[t] \in {"createFile", "writeInput", "setPath"} => pending = {}
    /\ pc[t] \in {"createFile", "writeInput", "openFile", "writeOutput"} =>
         \A k \in DOMAIN todo[t] : k \in SnapshotKeys /\ todo[t][k] = activeAllocations[k]
    /\ pc[t] = "createFile" => SnapshotKeys \subseteq DOMAIN todo[t]
    /\ pc[t] = "writeInput" =>
         SnapshotKeys \subseteq DOMAIN todo[t] \cup DOMAIN files[kernelId[t]].in
    /\ pc[t] # "idle" => \A id \in DOMAIN files :
         files[id].launch = launch[t] => AgreesWithMemory(t, files[id])

(* /out is open only while its thread writes it. *)
OutputIsOpen(id) ==
    files[id].output = "open" => \E t \in Threads : pc[t] = "writeOutput" /\ kernelId[t] = id

SequentialInv ==
    /\ Bound
    /\ DOMAIN activeAllocations \subseteq Spaces \X Pointers
    /\ \A t \in Threads : Sequential(t)
    /\ \A id \in DOMAIN files :
         /\ FileIsSettled(files[id]) /\ files[id].launch.number <= launches
         /\ OutputIsOpen(id)

(* The groups behind /in/views of the dump f: the end of create_kernel_    *)
(* dump writes them, and only behind a complete one there is an /out.      *)
GroupsFollow(f) ==
    /\ f.input = "open" => groups.number = 0
    /\ f.input = "complete" => groups.number = AllGroups
    /\ f.input # "complete" => f.output = "absent" /\ DOMAIN f.out = {}
    /\ groups.number # 0 =>
         /\ f.input \in {"complete", "failed"}
         /\ f.launch.captures \subseteq DOMAIN f.in
         /\ groups.metadata \in Metadata
         /\ groups.functor = f.launch.number
         /\ f.launch.mode = "krepe" => groups.policy = f.launch.number

GroupsInv ==
    /\ groups.number \in 0 .. AllGroups
    /\ DOMAIN files = {} => groups.number = 0
    /\ \A id \in DOMAIN files : GroupsFollow(files[id])

-----------------------------------------------------------------------------
(* The invariants of the application hold in a run of one thread.          *)

(* Nothing is launched or written at first. *)
LEMMA SequentialInit == Init => SequentialInv
<1> SUFFICES ASSUME Init PROVE SequentialInv
  OBVIOUS
<1>1. /\ DOMAIN files = {} /\ hasKernelDumpTool = "unset" /\ DOMAIN activeAllocations = {}
      /\ \A t \in Threads : pc[t] = "idle"
  BY DEF Init, HooksInit, TrackerInit
<1>2. "idle" \notin BeforeBegin
  BY DEF BeforeBegin, Labelled
<1> QED
  BY <1>1, <1>2 DEF SequentialInv, Sequential, Bound

(* Steps before the dump of a launch, or outside launches. *)
LEMMA NoDumpYet ==
    ASSUME SequentialInv,
           launches \in Nat, launches' \in Nat, launches <= launches', Bound',
           DOMAIN activeAllocations' \subseteq Spaces \X Pointers,
           \A t \in Threads :
             /\ pc[t] # "writeOutput"
             /\ pc'[t] \in BeforeBegin \cup {"fenceInput", "submit", "idle"}
             /\ pc'[t] # "idle" =>
                  /\ launch'[t].number # 0 /\ launch'[t].mode # "plain"
                  /\ \A id \in DOMAIN files : files[id].launch # launch'[t],
           UNCHANGED files
    PROVE  SequentialInv'
<1>1. \A t \in Threads : Sequential(t)'
  BY DEF Sequential, BeforeBegin, Labelled
<1>2. \A id \in DOMAIN files : files[id].output # "open"
  BY DEF SequentialInv, OutputIsOpen
<1>3. \A id \in DOMAIN files : files[id].launch.number \in Nat
  BY DEF SequentialInv, FileIsSettled, LaunchRecords
<1>4. \A id \in DOMAIN files' :
        /\ FileIsSettled(files[id])' /\ files'[id].launch.number <= launches'
        /\ OutputIsOpen(id)'
  <2> SUFFICES ASSUME NEW id \in DOMAIN files
               PROVE  /\ FileIsSettled(files[id]) /\ files[id].launch.number <= launches'
                      /\ OutputIsOpen(id)'
    OBVIOUS
  <2> QED
    BY <1>2, <1>3 DEF SequentialInv, OutputIsOpen
<1> QED
  BY <1>1, <1>4 DEF SequentialInv

(* The application between its launches, and the start of a launch. *)
LEMMA ApplicationSequential ==
    ASSUME CaptureInv, ContentsInv, DataTypes, SequentialInv, Application
    PROVE  SequentialInv'
<1> USE CompositionAssumption DEF SequentialInv
<1>1. launches \in Nat
  BY DEF ContentsInv, LaunchTypes
<1>2. ASSUME NEW args \in ToolArgs, LoadTool(args) PROVE SequentialInv'
  <2>1. \A t \in Threads : pc[t] = "idle"
    BY <1>2 DEF CaptureInv, NothingBeforeLoad, LoadTool
  <2>2. UNCHANGED <<activeAllocations, pc, files, launches, hasKernelDumpTool>>
    BY <1>2 DEF LoadTool, hooksVars, trackerVars, fileVars, deviceVars
  <2> QED
    BY <1>1, <2>1, <2>2, NoDumpYet DEF Bound
<1>3. ASSUME NEW t \in Threads, NEW key \in MetadataKeys, NEW value \in MetadataValues,
             AddMetadata(t, key, value)
      PROVE  SequentialInv'
  <2>1. \A u \in Threads : pc[u] = "idle"
    BY <1>3 DEF AddMetadata
  <2>2. UNCHANGED <<activeAllocations, pc, files, launches>> /\ Bound'
    BY <1>3 DEF AddMetadata, hooksVars, trackerVars, fileVars, InitInternalFunctions, BoundTool, Bound
  <2> QED
    BY <1>1, <2>1, <2>2, NoDumpYet
<1>4. ASSUME NEW t \in Threads, Allocate(t) PROVE SequentialInv'
  <2>1. \A u \in Threads : pc[u] = "idle"
    BY <1>4 DEF Allocate
  <2>2. UNCHANGED <<pc, files, launches, hasKernelDumpTool>>
    BY <1>4 DEF Allocate, fileVars, toolVars
  <2>3. DOMAIN activeAllocations' \subseteq Spaces \X Pointers
    BY <1>4 DEF Allocate, AllocateData, RecordAllocation, trackerVars
  <2> QED
    BY <1>1, <2>1, <2>2, <2>3, NoDumpYet DEF Bound
<1>5. ASSUME NEW t \in Threads, NEW k \in DOMAIN heap, Deallocate(t, k) PROVE SequentialInv'
  <2>1. \A u \in Threads : pc[u] = "idle"
    BY <1>5 DEF Deallocate
  <2>2. UNCHANGED <<pc, files, launches, hasKernelDumpTool>>
    BY <1>5 DEF Deallocate, fileVars, toolVars
  <2>3. DOMAIN activeAllocations' \subseteq Spaces \X Pointers
    BY <1>5 DEF Deallocate, DeallocateData, RecordDeallocation
  <2> QED
    BY <1>1, <2>1, <2>2, <2>3, NoDumpYet DEF Bound
<1>6. ASSUME NEW t \in Threads, NEW mode \in Modes, NEW label \in KernelLabels,
             NEW captures \in SUBSET DOMAIN activeAllocations,
             StartLaunch(t, mode, label, captures)
      PROVE  SequentialInv'
  <2>1. /\ pc[t] = "idle" /\ UNCHANGED <<activeAllocations, files, hasKernelDumpTool>>
        /\ launches' = launches + 1
        /\ launch'[t].number = launches + 1 /\ launch'[t].mode = mode
    BY <1>6 DEF StartLaunch, hooksVars, trackerVars, fileVars, toolVars, ContentsInv, LaunchTypes
  <2>2. pc'[t] \in Labelled
    BY <1>6, CaptureAssumption
       DEF StartLaunch, Goto, ReplayFunctor, Labelled, LaunchModes, CaptureInv, CaptureTypes
  <2>3. \A id \in DOMAIN files : files[id].launch.number \in Nat /\ files[id].launch.number <= launches
    BY DEF FileIsSettled, LaunchRecords
  <2>4. \A id \in DOMAIN files : files[id].launch # launch'[t]
    BY <1>1, <2>1, <2>3
  <2>5. \A u \in Threads : u = t
    OBVIOUS
  <2> QED
    BY <1>1, <2>1, <2>2, <2>4, <2>5, NoDumpYet DEF Bound, BeforeBegin
<1> QED
  BY <1>2, <1>3, <1>4, <1>5, <1>6 DEF Application

(* krepe::parallel_for, replay_functor and begin_kernel before the fence. *)
LEMMA WrapperSequential ==
    ASSUME CaptureInv, ContentsInv, DataTypes, SequentialInv, NEW t \in Threads,
           \/ CheckNextInvocation(t) \/ RegisterPolicy(t) \/ ClearViews(t)
           \/ RegisterCapture(t) \/ AllViewsRegistered(t) \/ CopyFunctor(t)
           \/ TakeId(t) \/ CountInvocation(t)
    PROVE  SequentialInv'
<1>1. /\ pc[t] \in BeforeBegin /\ pc \in [Threads -> Steps]
      /\ UNCHANGED <<launch, files, launches>>
  BY DEF CheckNextInvocation, RegisterPolicy, ClearViews, RegisterCapture, AllViewsRegistered,
         CopyFunctor, TakeId, CountInvocation, BeforeBegin, Labelled, localVars, fileVars,
         deviceVars, CaptureInv, CaptureTypes
<1>2. pc'[t] \in BeforeBegin \cup {"fenceInput", "submit"}
  BY <1>1 DEF CheckNextInvocation, RegisterPolicy, ClearViews, RegisterCapture, AllViewsRegistered,
     CopyFunctor, TakeId, CountInvocation, BeforeBegin, Labelled, Goto, ReplayFunctor
<1>3. activeAllocations' = activeAllocations
  BY DEF CheckNextInvocation, RegisterPolicy, ClearViews, RegisterCapture, AllViewsRegistered,
         CopyFunctor, TakeId, CountInvocation, hooksVars, trackerVars, ClearRegisteredViews,
         ClearUsedAllocations, RegisterView, RecordUsedAllocation
<1>4. pc[t] # "idle" /\ pc[t] # "writeOutput"
  BY <1>1 DEF BeforeBegin, Labelled
<1>5. Bound'
  <2>1. Bound /\ BoundTool = "yes"
    BY <1>4, Binding DEF SequentialInv
  <2>2. hasKernelDumpTool' \in {BoundTool, hasKernelDumpTool}
    BY DEF CheckNextInvocation, RegisterPolicy, ClearViews, RegisterCapture, AllViewsRegistered,
           CopyFunctor, TakeId, CountInvocation, toolVars, InitInternalFunctions
  <2> QED
    BY <2>1, <2>2 DEF Bound
<1>6. \A u \in Threads : u = t
  BY CompositionAssumption
<1>7. launches \in Nat
  BY DEF ContentsInv, LaunchTypes
<1> QED
  BY <1>1, <1>2, <1>3, <1>4, <1>5, <1>6, <1>7, NoDumpYet DEF SequentialInv, Sequential

(* The selection of snapshot() depends on the tracker alone. *)
LEMMA SelectionStays ==
    ASSUME UNCHANGED trackerVars
    PROVE  SnapshotKeys' = SnapshotKeys
<1>1. UNCHANGED <<activeAllocations, usedAllocations>>
  BY DEF trackerVars
<1>2. \A k, r : IsUsed(k, r)' <=> IsUsed(k, r)
  BY <1>1 DEF IsUsed
<1> QED
  BY <1>1, <1>2 DEF SnapshotKeys

(* A dump agrees with memory that has not changed. *)
LEMMA StillAgrees ==
    ASSUME NEW t \in Threads, NEW f, NEW g, AgreesWithMemory(t, f), g.in = f.in,
           g.input = "complete" => f.input = "complete" \/ SnapshotKeys \subseteq DOMAIN f.in,
           pending' \subseteq {launch[t]}, launch'[t] = launch[t], HasRun(t)' <=> HasRun(t),
           UNCHANGED <<trackerVars, mem>>
    PROVE  AgreesWithMemory(t, g)'
<1>1. SnapshotKeys' = SnapshotKeys /\ activeAllocations' = activeAllocations
  BY SelectionStays DEF trackerVars
<1> QED
  BY <1>1 DEF AgreesWithMemory, HasBytes, WrittenBy

(* The dump of the thread's launch agrees with memory that has not changed. *)
LEMMA DumpStillAgrees ==
    ASSUME NEW t \in Threads, Sequential(t), pc[t] # "idle",
           HasRun(t)' <=> HasRun(t), pending' \subseteq pending \cup {launch[t]},
           UNCHANGED <<trackerVars, mem, files, launch>>
    PROVE  \A id \in DOMAIN files :
             files[id].launch = launch[t] => AgreesWithMemory(t, files[id])'
<1> SUFFICES ASSUME NEW id \in DOMAIN files, files[id].launch = launch[t]
             PROVE  AgreesWithMemory(t, files[id])'
  OBVIOUS
<1>1. AgreesWithMemory(t, files[id]) /\ pending' \subseteq {launch[t]}
  BY DEF Sequential, AgreesWithMemory
<1> QED
  BY <1>1, StillAgrees, Zenon

(* The device runs the pending kernel: the one that is being dumped, if a  *)
(* dump of the thread's launch exists.                                     *)
LEMMA DeviceSequential ==
    ASSUME CaptureInv, ContentsInv, SequentialInv, DeviceStep
    PROVE  SequentialInv'
<1>1. PICK l \in pending : RunKernel(l)
  BY DEF DeviceStep
<1>2. /\ UNCHANGED <<trackerVars, activeAllocations, hasKernelDumpTool, files, pc, launch, kernelId,
                     awaited, todo, launches>>
      /\ pending' = pending \ {l}
      /\ mem' = [k \in DOMAIN mem |-> IF k \in l.captures THEN mem[k] \cup {l.number} ELSE mem[k]]
  BY <1>1 DEF RunKernel, hooksVars, trackerVars, toolVars, fileVars, localVars
<1>3. SnapshotKeys' = SnapshotKeys
  BY <1>2, SelectionStays
<1>4. ASSUME NEW t \in Threads, pc[t] # "idle", NEW id \in DOMAIN files, files[id].launch = launch[t]
      PROVE  AgreesWithMemory(t, files[id])'
  <2> DEFINE f == files[id]
  <2>1. AgreesWithMemory(t, f)
    BY <1>4 DEF SequentialInv, Sequential
  <2>2. l = launch[t] /\ launch[t] \in pending /\ pc[t] \in Submitted
    BY <1>4, <2>1 DEF AgreesWithMemory, ContentsInv, NumbersAreUnique
  <2>3. ~HasRun(t) /\ HasRun(t)'
    BY <1>2, <2>2 DEF HasRun
  <2>4. \A k \in SnapshotKeys : k \in DOMAIN mem
    BY DEF ContentsInv, MemoryIsPast, HooksInv, TableMatchesHeap, SnapshotKeys
  <2>5. ASSUME NEW k \in DOMAIN f.in, HasBytes(f.in, k)
        PROVE  mem'[k] = f.in[k].bytes \cup WrittenBy(launch[t], k)
    <3>1. k \in DOMAIN mem /\ mem[k] = f.in[k].bytes
      BY <2>1, <2>3, <2>4, <2>5 DEF AgreesWithMemory
    <3> QED
      BY <1>2, <2>2, <3>1 DEF WrittenBy
  <2> QED
    BY <1>2, <1>3, <2>1, <2>3, <2>5 DEF AgreesWithMemory
<1>5. \A t \in Threads : Sequential(t)'
  <2> SUFFICES ASSUME NEW t \in Threads PROVE Sequential(t)'
    OBVIOUS
  <2>1. Sequential(t)
    BY DEF SequentialInv
  <2> QED
    BY <1>2, <1>3, <1>4, <2>1 DEF Sequential
<1> QED
  BY <1>2, <1>5 DEF SequentialInv, Bound, OutputIsOpen

(* begin_kernel and end_kernel outside the accesses to the file. *)
LEMMA HooksSequential ==
    ASSUME CaptureInv, WritersInv, ContentsInv, FilesInv, SequentialInv, NEW t \in Threads,
           CallFence(t) \/ TakeSnapshot(t) \/ SetPath(t) \/ Submit(t) \/ EndKernel(t)
    PROVE  SequentialInv'
<1> USE DEF Goto
<1>1. /\ UNCHANGED <<trackerVars, activeAllocations, hasKernelDumpTool, files, launches, mem>>
      /\ pc \in [Threads -> Steps] /\ pc[t] \notin {"idle", "writeInput", "writeOutput"}
  BY DEF CallFence, TakeSnapshot, SetPath, Submit, EndKernel, hooksVars, trackerVars, toolVars,
         fileVars, deviceVars, CaptureInv, CaptureTypes
<1>2. SnapshotKeys' = SnapshotKeys
  BY <1>1, SelectionStays
<1>3. \A u \in Threads : u = t
  BY CompositionAssumption
<1>4. Sequential(t)
  BY DEF SequentialInv
<1>5. Sequential(t)'
  <2>1. CASE CallFence(t)
    <3>1. /\ UNCHANGED <<launch, pending, todo, kernelId>> /\ awaited' = [awaited EXCEPT ![t] = pending]
          /\ \/ pc[t] = "fenceInput" /\ pc'[t] = "awaitInput"
             \/ pc[t] = "fenceOutput" /\ pc'[t] = "awaitOutput"
      BY <1>1, <2>1 DEF CallFence, deviceVars
    <3>2. HasRun(t)' <=> HasRun(t)
      BY <3>1 DEF HasRun, Submitted, Ending
    <3>3. \A id \in DOMAIN files :
            files[id].launch = launch[t] => AgreesWithMemory(t, files[id])'
      BY <1>1, <1>4, <3>1, <3>2, DumpStillAgrees
    <3>4. pc'[t] = "awaitInput" => pending' \subseteq awaited'[t]
      BY <3>1 DEF ContentsInv, LaunchTypes
    <3> QED
      BY <1>1, <1>4, <3>1, <3>3, <3>4 DEF Sequential, BeforeBegin, Labelled
  <2>2. CASE TakeSnapshot(t)
    <3>1. /\ UNCHANGED <<launch, pending, kernelId>> /\ todo'[t] = Snapshot
          /\ awaited[t] \cap pending = {}
          /\ \/ pc[t] = "awaitInput" /\ pc'[t] = "createFile"
             \/ pc[t] = "awaitOutput" /\ pc'[t] = "openFile"
      BY <1>1, <2>2 DEF TakeSnapshot, deviceVars, FilesInv
    <3>2. HasRun(t)' <=> HasRun(t)
      BY <3>1 DEF HasRun, Submitted, Ending
    <3>3. \A id \in DOMAIN files :
            files[id].launch = launch[t] => AgreesWithMemory(t, files[id])'
      BY <1>1, <1>4, <3>1, <3>2, DumpStillAgrees
    <3>4. DOMAIN todo'[t] = SnapshotKeys /\ \A k \in SnapshotKeys : todo'[t][k] = activeAllocations[k]
      BY <3>1 DEF Snapshot
    <3>5. pc'[t] = "createFile" => pending = {}
      BY <1>4, <3>1 DEF Sequential
    <3> QED
      BY <1>1, <1>2, <1>4, <3>1, <3>3, <3>4, <3>5 DEF Sequential, BeforeBegin, Labelled
  <2>3. CASE SetPath(t)
    <3>1. /\ UNCHANGED <<launch, pending>> /\ pc[t] = "setPath" /\ pc'[t] = "submit"
      BY <1>1, <2>3 DEF SetPath, deviceVars, localVars
    <3>2. HasRun(t)' <=> HasRun(t)
      BY <3>1 DEF HasRun, Submitted, Ending
    <3>3. \A id \in DOMAIN files :
            files[id].launch = launch[t] => AgreesWithMemory(t, files[id])'
      BY <1>1, <1>4, <3>1, <3>2, DumpStillAgrees
    <3> QED
      BY <1>1, <1>4, <3>1, <3>3 DEF Sequential, BeforeBegin, Labelled
  <2>4. CASE Submit(t)
    <3>1. /\ UNCHANGED launch /\ pending' = pending \cup {launch[t]}
          /\ pc[t] = "submit" /\ pc'[t] = "endKernel"
      BY <1>1, <2>4 DEF Submit, localVars
    <3>2. HasRun(t)' <=> HasRun(t)
      BY <3>1 DEF HasRun, Submitted, Ending
    <3>3. \A id \in DOMAIN files :
            files[id].launch = launch[t] => AgreesWithMemory(t, files[id])'
      BY <1>1, <1>4, <3>1, <3>2, DumpStillAgrees
    <3> QED
      BY <1>1, <1>4, <3>1, <3>3 DEF Sequential, BeforeBegin, Labelled
  <2>5. CASE EndKernel(t)
    <3>1. CASE pc'[t] = "idle"
      BY <3>1 DEF Sequential, BeforeBegin, Labelled
    <3>2. CASE pc'[t] # "idle"
      <4>1. /\ UNCHANGED <<launch, pending>> /\ pc[t] = "endKernel" /\ pc'[t] = "fenceOutput"
        BY <1>1, <2>5, <3>2 DEF EndKernel, Return, deviceVars
      <4>2. HasRun(t)' <=> HasRun(t)
        BY <4>1 DEF HasRun, Submitted, Ending
      <4>3. \A id \in DOMAIN files :
              files[id].launch = launch[t] => AgreesWithMemory(t, files[id])'
        BY <1>1, <1>4, <4>1, <4>2, DumpStillAgrees
      <4> QED
        BY <1>1, <1>4, <4>1, <4>3 DEF Sequential, BeforeBegin, Labelled
    <3> QED
      BY <3>1, <3>2
  <2> QED
    BY <2>1, <2>2, <2>3, <2>4, <2>5
<1>6. \A id \in DOMAIN files : files[id].output # "open"
  BY <1>1, <1>3 DEF SequentialInv, OutputIsOpen
<1> QED
  BY <1>1, <1>3, <1>5, <1>6 DEF SequentialInv, Bound, OutputIsOpen

(* A step of the only thread that writes or creates the only file. *)
LEMMA OwnFileSequential ==
    ASSUME SequentialInv, NEW t \in Threads, Sequential(t)',
           DOMAIN files' = {kernelId[t]}, FileIsSettled(files'[kernelId[t]]),
           files'[kernelId[t]].launch.number <= launches,
           files'[kernelId[t]].output = "open" => pc'[t] = "writeOutput" /\ kernelId'[t] = kernelId[t],
           UNCHANGED <<hasKernelDumpTool, activeAllocations, launches>>
    PROVE  SequentialInv'
<1>1. \A u \in Threads : u = t
  BY CompositionAssumption
<1>2. \A id \in DOMAIN files' : FileIsSettled(files[id])' /\ OutputIsOpen(id)'
  <2>1. ASSUME NEW id \in DOMAIN files' PROVE FileIsSettled(files[id])'
    <3>1. FileIsSettled(files'[id])
      BY <2>1
    <3> QED
      BY <3>1 DEF FileIsSettled, GroupsAreTyped, IsContents, InIsTimely, OutFollowsIn, HasBytes,
                  WrittenBy
  <2> QED
    BY <2>1 DEF OutputIsOpen
<1> QED
  BY <1>1, <1>2 DEF SequentialInv, Bound

(* write_allocation_group adds the memory of a live allocation, or nothing. *)
LEMMA GroupIsWritten ==
    ASSUME ContentsInv, SequentialInv, NEW t \in Threads, pc[t] \in {"writeInput", "writeOutput"},
           NEW k \in DOMAIN todo[t], NEW bytes \in CopyOutcomes(k, todo[t][k]),
           NEW snapshot, GroupsAreTyped(snapshot)
    PROVE  /\ k \in SnapshotKeys /\ todo[t][k] = activeAllocations[k]
           /\ bytes # Skipped /\ todo[t][k].size > 0 => bytes = mem[k]
           /\ GroupsAreTyped(WriteGroup(t, snapshot, k, bytes))
<1>1. k \in SnapshotKeys /\ todo[t][k] = activeAllocations[k]
  BY DEF SequentialInv, Sequential
<1>2. /\ k \in DOMAIN activeAllocations /\ k \in DOMAIN heap
      /\ activeAllocations[k] \in Records
      /\ activeAllocations[k].pData = AllocationDataPointer(k[2])
  BY <1>1 DEF SnapshotKeys, ContentsInv, HooksInv, TableMatchesHeap, HooksTypeOK, TrackerTypeOK,
              AllocationDataPointer
<1>3. mem[k] \in SUBSET (0 .. MaxLaunches)
  BY <1>2, CaptureAssumption DEF ContentsInv, MemoryIsPast, LaunchTypes
<1>4. bytes = Skipped \/ (bytes = {} /\ todo[t][k].size = 0) \/ bytes = mem[k]
  BY <1>2 DEF CopyOutcomes
<1>5. IsContents(bytes)
  BY <1>3, <1>4 DEF IsContents
<1>6. IsFiniteSet(DOMAIN snapshot \cup {k})
  BY FS_AddElement DEF GroupsAreTyped
<1>7. GroupsAreTyped(WriteGroup(t, snapshot, k, bytes))
  BY <1>1, <1>2, <1>5, <1>6 DEF GroupsAreTyped, WriteGroup, SequentialInv
<1> QED
  BY <1>1, <1>4, <1>7

(* create_kernel_dump *)
LEMMA InputSequential ==
    ASSUME CaptureInv, WritersInv, ContentsInv, FilesInv, SequentialInv, NEW t \in Threads,
           FilesInv', CreateFile(t) \/ WriteInput(t) \/ FinishInput(t) \/ FailInput(t)
    PROVE  SequentialInv'
<1> USE DEF Goto
<1> DEFINE i == kernelId[t]
           f == files[i]
           g == files'[i]
<1>1. /\ UNCHANGED <<trackerVars, activeAllocations, hasKernelDumpTool, launches, mem, launch,
                     kernelId, pending>>
      /\ pc \in [Threads -> Steps] /\ pc[t] \in {"createFile", "writeInput"}
      /\ DOMAIN launch = Threads
  BY DEF CreateFile, WriteInput, FinishInput, FailInput, WriteUnchanged, hooksVars, trackerVars,
         toolVars, deviceVars, CaptureInv, CaptureTypes
<1>2. SnapshotKeys' = SnapshotKeys
  BY <1>1, SelectionStays
<1>3. Sequential(t) /\ pending = {}
  BY <1>1 DEF SequentialInv, Sequential
<1>4. /\ launch[t] \in LaunchRecords /\ launch[t].number # 0 /\ launch[t].mode # "plain"
      /\ launch[t].number <= launches
  BY <1>1, <1>3 DEF Sequential, ContentsInv, LaunchTypes, NumbersAreUnique
<1>5. CASE CreateFile(t)
  <2>1. DOMAIN files = {} /\ pc[t] = "createFile" /\ pc'[t] = "writeInput" /\ todo' = todo
    BY <1>1, <1>5 DEF CreateFile, CaptureInv, DumperIsAlone
  <2>2. DOMAIN files' = {i}
    BY <1>5, <2>1 DEF CreateFile
  <2>3. /\ g.launch = launch[t] /\ g.input = "open" /\ g.output = "absent"
        /\ g.in = NoGroups /\ g.out = NoGroups
    BY <1>5, <2>1 DEF CreateFile
  <2>4. DOMAIN NoGroups = {} /\ IsFiniteSet(DOMAIN NoGroups)
    BY FS_EmptySet DEF NoGroups
  <2> HIDE DEF g
  <2>5. FileIsSettled(g)
    BY <1>4, <2>3, <2>4 DEF FileIsSettled, GroupsAreTyped, InIsTimely, OutFollowsIn, HasBytes
  <2>6. AgreesWithMemory(t, files[i])'
    BY <1>1, <1>3, <2>3, <2>4 DEF AgreesWithMemory, g
  <2>7. Sequential(t)'
    BY <1>1, <1>2, <1>3, <2>1, <2>2, <2>6 DEF Sequential, BeforeBegin, Labelled, g
  <2> QED
    BY <1>1, <1>4, <2>2, <2>3, <2>5, <2>7, OwnFileSequential DEF g
<1>6. CASE pc[t] = "writeInput"
  <2>1. /\ DOMAIN files = {i} /\ DOMAIN f = FileFields /\ f.launch = launch[t]
        /\ FileIsSettled(f) /\ f.output = "absent" /\ f.input = "open"
    <3>1. DOMAIN files = {i} /\ DOMAIN f = FileFields
      BY <1>6, OwnFile
    <3>2. f.launch = launch[t]
      BY <1>6 DEF CaptureInv, DumperIsAlone
    <3>3. f.output = "absent" /\ f.input = "open"
      BY <1>6, <3>1 DEF WritersInv, PhasesAreOrdered, KnowsItsFile
    <3> QED
      BY <3>1, <3>2, <3>3 DEF SequentialInv
  <2>2. AgreesWithMemory(t, f) /\ ~HasRun(t)
    BY <1>3, <1>6, <2>1 DEF Sequential, HasRun, Submitted, Ending
  <2>3. DOMAIN files' = {i}
    BY <1>6, <2>1 DEF CreateFile, WriteInput, FinishInput, FailInput
  <2>4. InIsTimely(g)
    BY <2>3 DEF FilesInv, FileIsGood
  <2>5. CASE WriteInput(t)
    <3>1. PICK k \in DOMAIN todo[t] : \E bytes \in CopyOutcomes(k, todo[t][k]) :
            /\ files' = [files EXCEPT ![i].in = WriteGroup(t, @, k, bytes)]
            /\ todo' = Forget(t, k)
      BY <2>5 DEF WriteInput
    <3>2. PICK bytes \in CopyOutcomes(k, todo[t][k]) :
            /\ files' = [files EXCEPT ![i].in = WriteGroup(t, @, k, bytes)]
            /\ todo' = Forget(t, k)
      BY <3>1
    <3>3. /\ g.in = WriteGroup(t, f.in, k, bytes) /\ g.out = f.out /\ g.launch = f.launch
          /\ g.input = f.input /\ g.output = f.output
      BY <2>1, <3>2 DEF FileFields
    <3>4. pc' = pc
      BY <2>5 DEF WriteInput
    <3>5. /\ k \in SnapshotKeys /\ todo[t][k] = activeAllocations[k]
          /\ bytes # Skipped /\ todo[t][k].size > 0 => bytes = mem[k]
          /\ GroupsAreTyped(g.in)
      BY <1>6, <2>1, <3>3, GroupIsWritten DEF FileIsSettled
    <3>6. /\ DOMAIN g.in = DOMAIN f.in \cup {k}
          /\ g.in[k] = [record |-> activeAllocations[k], bytes |-> bytes]
          /\ \A h \in DOMAIN f.in \ {k} : g.in[h] = f.in[h]
      BY <3>3, <3>5 DEF WriteGroup
    <3>7. /\ DOMAIN todo'[t] = DOMAIN todo[t] \ {k}
          /\ \A h \in DOMAIN todo'[t] : todo'[t][h] = todo[t][h]
      BY <3>2 DEF Forget, FilesInv
    <3> HIDE DEF f, g
    <3>8. AgreesWithMemory(t, files[i])'
      <4>1. ~HasRun(t)'
        BY <1>1, <2>2, <3>4 DEF HasRun
      <4>2. ASSUME NEW h \in DOMAIN g.in
            PROVE  /\ h \in SnapshotKeys /\ g.in[h].record = activeAllocations[h]
                   /\ HasBytes(g.in, h) => mem[h] = g.in[h].bytes
        <5>1. CASE h = k
          BY <3>5, <3>6, <5>1 DEF HasBytes
        <5>2. CASE h # k
          BY <2>2, <3>6, <5>2 DEF AgreesWithMemory, HasBytes
        <5> QED
          BY <5>1, <5>2
      <4> QED
        BY <1>1, <1>2, <1>3, <2>1, <3>3, <4>1, <4>2 DEF AgreesWithMemory, g
    <3>9. FileIsSettled(g)
      <4>1. DOMAIN f.out = {}
        BY <2>1 DEF FileIsSettled
      <4> QED
        BY <2>1, <2>4, <3>3, <3>5, <4>1 DEF FileIsSettled, OutFollowsIn
    <3>10. Sequential(t)'
      BY <1>1, <1>2, <1>3, <1>6, <2>1, <2>3, <3>3, <3>4, <3>6, <3>7, <3>8
         DEF Sequential, BeforeBegin, Labelled, f, g
    <3> QED
      BY <1>1, <1>4, <2>1, <2>3, <3>3, <3>9, <3>10, OwnFileSequential DEF g
  <2>6. CASE FinishInput(t) \/ FailInput(t)
    <3>1. /\ g.in = f.in /\ g.out = f.out /\ g.launch = f.launch /\ g.output = f.output
          /\ \/ pc'[t] = "setPath" /\ DOMAIN todo[t] = {}
             \/ pc'[t] = "submit" /\ g.input = "failed"
      BY <1>1, <1>6, <2>1, <2>6 DEF FinishInput, FailInput, FileFields
    <3> HIDE DEF f, g
    <3>2. FileIsSettled(g)
      BY <2>1, <2>4, <3>1 DEF FileIsSettled, OutFollowsIn
    <3>3. AgreesWithMemory(t, files[i])'
      <4>1. ~HasRun(t)'
        BY <1>1, <3>1 DEF HasRun, Submitted, Ending
      <4>2. g.input = "complete" => SnapshotKeys \subseteq DOMAIN f.in
        BY <1>3, <1>6, <3>1 DEF Sequential, f
      <4> QED
        BY <1>1, <1>3, <2>2, <3>1, <4>1, <4>2, StillAgrees, Zenon DEF g
    <3>4. Sequential(t)'
      BY <1>1, <1>3, <2>1, <2>3, <3>1, <3>3 DEF Sequential, BeforeBegin, Labelled
    <3> QED
      BY <1>1, <1>4, <2>1, <2>3, <3>1, <3>2, <3>4, OwnFileSequential DEF g
  <2> QED
    BY <1>6, <2>5, <2>6 DEF CreateFile
<1>7. CASE pc[t] = "createFile" /\ FailInput(t)
  <2>1. DOMAIN files = {} /\ DOMAIN files' = {} /\ pc'[t] = "submit"
    BY <1>1, <1>7 DEF FailInput, CaptureInv, DumperIsAlone
  <2>2. Sequential(t)'
    BY <1>1, <1>3, <2>1 DEF Sequential, BeforeBegin, Labelled
  <2>3. \A u \in Threads : u = t
    BY CompositionAssumption
  <2> QED
    BY <1>1, <2>1, <2>2, <2>3 DEF SequentialInv, Bound
<1> QED
  BY <1>1, <1>5, <1>6, <1>7 DEF WriteInput, FinishInput

(* append_kernel_output: the fence has waited for the kernel, the only one *)
(* that was pending, so that memory is /in and what the kernel wrote.      *)
LEMMA OutputSequential ==
    ASSUME CaptureInv, WritersInv, ContentsInv, FilesInv, SequentialInv, NEW t \in Threads,
           OpenFile(t) \/ WriteOutput(t) \/ FinishOutput(t) \/ FailOutput(t)
    PROVE  SequentialInv'
<1> USE DEF Goto
<1> DEFINE i == kernelId[t]
           f == files[i]
           g == files'[i]
<1>1. /\ UNCHANGED <<trackerVars, activeAllocations, hasKernelDumpTool, launches, mem, pending>>
      /\ pc \in [Threads -> Steps] /\ pc[t] \in {"openFile", "writeOutput"}
      /\ DOMAIN launch = Threads
  BY DEF OpenFile, WriteOutput, FinishOutput, FailOutput, WriteUnchanged, hooksVars, trackerVars,
         toolVars, deviceVars, CaptureInv, CaptureTypes
<1>2. SnapshotKeys' = SnapshotKeys
  BY <1>1, SelectionStays
<1>3. Sequential(t)
  BY DEF SequentialInv
<1>4. /\ DOMAIN files = {i} /\ DOMAIN f = FileFields /\ FileIsSettled(f) /\ f.launch = launch[t]
      /\ f.input = "complete" /\ f.launch.number <= launches
  <2>1. DOMAIN files = {i} /\ DOMAIN f = FileFields
    BY <1>1, OwnFile
  <2>2. f.launch = launch[t] /\ f.input = "complete"
    BY <1>1 DEF WritersInv, KnowsItsFile, Ending
  <2> QED
    BY <2>1, <2>2 DEF SequentialInv
<1>5. AgreesWithMemory(t, f) /\ HasRun(t)
  BY <1>1, <1>3, <1>4 DEF Sequential, HasRun, Submitted, Ending, ContentsInv, FencesWait
<1>6. SnapshotKeys = DOMAIN f.in
  BY <1>4, <1>5 DEF AgreesWithMemory
<1>7. CASE WriteOutput(t)
  <2>1. PICK k \in DOMAIN todo[t] : \E bytes \in CopyOutcomes(k, todo[t][k]) :
          /\ files' = [files EXCEPT ![i].out = WriteGroup(t, @, k, bytes)]
          /\ todo' = Forget(t, k)
    BY <1>7 DEF WriteOutput
  <2>2. PICK bytes \in CopyOutcomes(k, todo[t][k]) :
          /\ files' = [files EXCEPT ![i].out = WriteGroup(t, @, k, bytes)]
          /\ todo' = Forget(t, k)
    BY <2>1
  <2>3. /\ DOMAIN files' = {i} /\ g.out = WriteGroup(t, f.out, k, bytes) /\ g.in = f.in
        /\ g.launch = f.launch /\ g.input = f.input /\ g.output = f.output
    BY <1>4, <2>2 DEF FileFields
  <2>4. UNCHANGED <<pc, launch, kernelId>> /\ pc[t] = "writeOutput"
    BY <1>7 DEF WriteOutput, WriteUnchanged
  <2>5. /\ k \in SnapshotKeys /\ todo[t][k] = activeAllocations[k]
        /\ bytes # Skipped /\ todo[t][k].size > 0 => bytes = mem[k]
        /\ GroupsAreTyped(g.out)
    BY <1>1, <1>4, <2>3, <2>4, GroupIsWritten DEF FileIsSettled
  <2>6. /\ DOMAIN g.out = DOMAIN f.out \cup {k}
        /\ g.out[k] = [record |-> activeAllocations[k], bytes |-> bytes]
        /\ \A h \in DOMAIN f.out \ {k} : g.out[h] = f.out[h]
    BY <2>3, <2>5 DEF WriteGroup
  <2>7. /\ DOMAIN todo'[t] = DOMAIN todo[t] \ {k}
        /\ \A h \in DOMAIN todo'[t] : todo'[t][h] = todo[t][h]
    BY <2>2 DEF Forget, FilesInv
  <2>8. f.output = "open"
    BY <2>4 DEF WritersInv, KnowsItsFile, Ending
  <2> HIDE DEF f, g
  <2>9. OutFollowsIn(g)
    <3> SUFFICES ASSUME NEW h \in DOMAIN g.out
                 PROVE  /\ h \in DOMAIN g.in /\ g.out[h].record = g.in[h].record
                        /\ HasBytes(g.out, h) /\ HasBytes(g.in, h) =>
                             g.out[h].bytes = g.in[h].bytes \cup WrittenBy(g.launch, h)
      BY DEF OutFollowsIn
    <3>1. CASE h = k
      <4>1. k \in DOMAIN f.in /\ f.in[k].record = activeAllocations[k]
        BY <1>5, <1>6, <2>5 DEF AgreesWithMemory
      <4>2. HasBytes(g.out, k) => bytes = mem[k]
        BY <2>5, <2>6 DEF HasBytes
      <4>3. HasBytes(f.in, k) => mem[k] = f.in[k].bytes \cup WrittenBy(launch[t], k)
        BY <1>5, <4>1 DEF AgreesWithMemory
      <4> QED
        BY <1>4, <2>3, <2>6, <3>1, <4>1, <4>2, <4>3
    <3>2. CASE h # k
      <4>1. h \in DOMAIN f.out /\ g.out[h] = f.out[h]
        BY <2>6, <3>2
      <4> QED
        BY <1>4, <2>3, <4>1 DEF FileIsSettled, OutFollowsIn, HasBytes
    <3> QED
      BY <3>1, <3>2
  <2>10. FileIsSettled(g)
    BY <1>4, <2>3, <2>5, <2>8, <2>9 DEF FileIsSettled, InIsTimely
  <2>11. AgreesWithMemory(t, files[i])'
    <3>1. HasRun(t)'
      BY <1>1, <1>5, <2>4 DEF HasRun
    <3>2. pending' \subseteq {launch[t]}
      BY <1>1, <1>5 DEF AgreesWithMemory
    <3> QED
      BY <1>1, <1>4, <1>5, <2>3, <2>4, <3>1, <3>2, StillAgrees, Zenon DEF g
  <2>12. Sequential(t)'
    BY <1>1, <1>2, <1>3, <2>3, <2>4, <2>7, <2>11 DEF Sequential, BeforeBegin, Labelled
  <2> QED
    BY <1>1, <1>4, <2>3, <2>4, <2>10, <2>12, OwnFileSequential DEF g
<1>8. CASE OpenFile(t)
  <2>1. /\ DOMAIN files' = {i} /\ g.out = f.out /\ g.in = f.in
        /\ g.launch = f.launch /\ g.input = f.input /\ g.output = "open"
        /\ UNCHANGED <<todo, launch, kernelId>> /\ pc[t] = "openFile" /\ pc'[t] = "writeOutput"
    BY <1>1, <1>4, <1>8 DEF OpenFile, WriteUnchanged, FileFields
  <2> HIDE DEF f, g
  <2>2. FileIsSettled(g)
    BY <1>4, <2>1 DEF FileIsSettled, InIsTimely, OutFollowsIn
  <2>3. AgreesWithMemory(t, files[i])'
    <3>1. HasRun(t)'
      BY <1>1, <1>5, <2>1 DEF HasRun, Submitted, Ending
    <3>2. pending' \subseteq {launch[t]}
      BY <1>1, <1>5 DEF AgreesWithMemory
    <3> QED
      BY <1>1, <1>4, <1>5, <2>1, <3>1, <3>2, StillAgrees, Zenon DEF g
  <2>4. Sequential(t)'
    BY <1>1, <1>2, <1>3, <2>1, <2>3 DEF Sequential, BeforeBegin, Labelled
  <2> QED
    BY <1>1, <1>4, <2>1, <2>2, <2>4, OwnFileSequential DEF g
<1>9. CASE FinishOutput(t) \/ FailOutput(t)
  <2>1. /\ DOMAIN files' = {i} /\ g.out = f.out /\ g.in = f.in /\ g.launch = f.launch
        /\ g.output \in {f.output, "complete", "failed"} /\ g.output # "open" /\ pc'[t] = "idle"
    <3>1. pc[t] = "openFile" => f.output = "absent"
      BY DEF WritersInv, KnowsItsFile, Ending
    <3> QED
      BY <1>1, <1>4, <1>9, <3>1 DEF FinishOutput, FailOutput, Return, FileFields
  <2> HIDE DEF f, g
  <2>2. FileIsSettled(g)
    BY <1>4, <2>1 DEF FileIsSettled, InIsTimely, OutFollowsIn
  <2>3. Sequential(t)'
    BY <2>1 DEF Sequential, BeforeBegin, Labelled
  <2> QED
    BY <1>1, <1>4, <2>1, <2>2, <2>3, OwnFileSequential DEF g
<1> QED
  BY <1>7, <1>8, <1>9

(* Every step of the application keeps the invariant. *)
LEMMA SequentialNext ==
    ASSUME CaptureInv, WritersInv, ContentsInv, DataTypes, FilesInv, SequentialInv, [Next]_vars
    PROVE  SequentialInv'
<1>1. FilesInv'
  BY FilesNext
<1>2. CASE Application \/ DeviceStep
  BY <1>2, ApplicationSequential, DeviceSequential
<1>3. CASE \E t \in Threads : ThreadStep(t)
  BY <1>1, <1>3, WrapperSequential, HooksSequential, InputSequential, OutputSequential
     DEF ThreadStep
<1>4. CASE UNCHANGED vars
  <2>1. UNCHANGED <<trackerVars, activeAllocations, hasKernelDumpTool, files, pc, launch, kernelId,
                    awaited, todo, launches, pending, mem>>
    BY <1>4 DEF vars, hooksVars, trackerVars, toolVars, fileVars, localVars, deviceVars
  <2>2. SnapshotKeys' = SnapshotKeys
    BY <2>1, SelectionStays
  <2>3. \A t \in Threads : Sequential(t)'
    BY <2>1, <2>2 DEF SequentialInv, Sequential, AgreesWithMemory, HasRun, HasBytes, WrittenBy
  <2> QED
    BY <2>1, <2>3 DEF SequentialInv, Bound, OutputIsOpen
<1> QED
  BY <1>2, <1>3, <1>4 DEF Next

(* All that is known of the application. *)
ApplicationInv ==
    /\ CaptureInv /\ WritersInv /\ ContentsInv /\ DataTypes /\ FilesInv /\ DescribeInv
    /\ HasCompilerPlugins => ViewsInv
    /\ SequentialInv

(* The invariants hold at first. *)
LEMMA ApplicationInit == Init => ApplicationInv
  BY CaptureInvInit, WritersInvInit, ContentsInvInit, DataTypesInit, FilesInvInit, DescribeInit,
     ViewsInit, SequentialInit DEF ApplicationInv

(* Every step of the application keeps them. *)
LEMMA ApplicationNext ==
    ASSUME HasCompilerPlugins => Probed, ApplicationInv, [Next]_vars
    PROVE  ApplicationInv'
<1>1. OneThread
  BY CompositionAssumption DEF OneThread
<1> QED
  BY <1>1, CaptureInvNext, WritersNext, ContentsInvNext, DataTypesNext, FilesNext, DescribeNext,
     ViewsNext, SequentialNext DEF ApplicationInv

-----------------------------------------------------------------------------
(* The groups behind /in/views.                                            *)

(* They are written when /in/views holds all that the launch captures, and *)
(* they are its own.                                                       *)
LEMMA GroupsDescribe ==
    ASSUME ApplicationInv, NEW t \in Threads, pc[t] = "writeInput", DOMAIN todo[t] = {}
    PROVE  /\ launch[t].captures \subseteq DOMAIN files[kernelId[t]].in
           /\ metadata \in Metadata
           /\ launch[t].mode = "krepe" => policy = launch[t].number
           /\ functorData = launch[t].number
<1>1. Bound /\ launch[t].mode # "plain"
  BY DEF ApplicationInv, SequentialInv, Sequential
<1>2. launch[t].captures \subseteq DOMAIN files[kernelId[t]].in
  <2>1. CASE HasCompilerPlugins
    <3>1. ViewsDescribe(t)
      BY <2>1 DEF ApplicationInv, ViewsInv
    <3> QED
      BY <1>1, <3>1 DEF ViewsDescribe
  <2>2. CASE ~HasCompilerPlugins
    BY <2>2 DEF ApplicationInv, FilesInv, TodoCovers
  <2> QED
    BY <2>1, <2>2
<1>3. metadata \in Metadata
  BY DEF ApplicationInv, DataTypes
<1>4. /\ launch[t].mode = "krepe" => policy = launch[t].number
      /\ functorData = launch[t].number
  <2>1. GlobalsDescribe(t) /\ pc[t] \in BeforeInput
    BY DEF ApplicationInv, DescribeInv, BeforeInput, Dumping
  <2> QED
    BY <1>1, <2>1 DEF GlobalsDescribe
<1> QED
  BY <1>2, <1>3, <1>4

(* Only the end of create_kernel_dump writes them. *)
LEMMA GroupsStay ==
    ASSUME groups' \in WrittenGroups,
           \A t \in Threads : pc[t] # "writeInput" \/ pc'[t] = "writeInput"
    PROVE  groups' = groups
  BY DEF WrittenGroups

(* The groups stay, and the dump but for its /out. *)
LEMMA GroupsFrame ==
    ASSUME GroupsInv, groups' = groups, DOMAIN files' = DOMAIN files,
           \A id \in DOMAIN files :
             /\ files'[id].input = files[id].input /\ files'[id].in = files[id].in
             /\ files'[id].launch = files[id].launch
             /\ \/ files[id].input = "complete"
                \/ files'[id].output = files[id].output /\ files'[id].out = files[id].out
    PROVE  GroupsInv'
  BY DEF GroupsInv, GroupsFollow

(* create_kernel_dump writes the groups last. *)
LEMMA InputKeepsGroups ==
    ASSUME ApplicationInv, GroupsInv, NEW t \in Threads, groups' \in WrittenGroups,
           CreateFile(t) \/ WriteInput(t) \/ FinishInput(t) \/ FailInput(t)
    PROVE  GroupsInv'
<1> USE DEF Goto
<1> DEFINE i == kernelId[t]
           f == files[i]
           g == files'[i]
<1>1. pc \in [Threads -> Steps] /\ \A u \in Threads : u = t
  BY CompositionAssumption DEF ApplicationInv, CaptureInv, CaptureTypes
<1>2. CASE pc[t] = "createFile"
  <2>1. groups' = groups /\ DOMAIN files = {} /\ groups.number = 0
    BY <1>1, <1>2, GroupsStay DEF ApplicationInv, CaptureInv, DumperIsAlone, GroupsInv
  <2>2. \/ DOMAIN files' = {}
        \/ DOMAIN files' = {i} /\ g.input = "open" /\ g.output = "absent" /\ DOMAIN g.out = {}
    BY <1>2, <2>1 DEF CreateFile, WriteInput, FinishInput, FailInput, NoGroups
  <2> QED
    BY <2>1, <2>2 DEF GroupsInv, GroupsFollow
<1>3. CASE pc[t] = "writeInput"
  <2>1. /\ DOMAIN files = {i} /\ DOMAIN f = FileFields /\ f.launch = launch[t] /\ f.input = "open"
    BY <1>3, OwnFile DEF ApplicationInv, CaptureInv, DumperIsAlone, WritersInv, KnowsItsFile
  <2>2. groups.number = 0 /\ f.output = "absent" /\ DOMAIN f.out = {}
    BY <2>1 DEF GroupsInv, GroupsFollow
  <2>3. CASE WriteInput(t)
    <3>1. DOMAIN files' = {i} /\ g.input = "open" /\ g.output = f.output /\ g.out = f.out
      BY <2>1, <2>3 DEF WriteInput, FileFields
    <3>2. groups' = groups
      BY <1>1, <1>3, <2>3, GroupsStay DEF WriteInput
    <3> QED
      BY <2>2, <3>1, <3>2 DEF GroupsInv, GroupsFollow
  <2>4. CASE FinishInput(t)
    <3>1. DOMAIN files' = {i} /\ g.input = "complete" /\ g.in = f.in /\ g.launch = launch[t]
      BY <2>1, <2>4 DEF FinishInput, FileFields
    <3>2. groups' = Groups(AllGroups)
      BY <1>1, <1>3, <2>4 DEF FinishInput, WrittenGroups
    <3>3. /\ groups'.number = 4 /\ groups'.metadata = metadata /\ groups'.policy = policy
          /\ groups'.functor = functorData
      BY <3>2 DEF Groups, AllGroups
    <3>4. DOMAIN todo[t] = {}
      BY <2>4 DEF FinishInput
    <3> QED
      BY <1>3, <3>1, <3>3, <3>4, GroupsDescribe DEF GroupsInv, GroupsFollow, AllGroups
  <2>5. CASE FailInput(t)
    <3>1. /\ DOMAIN files' = {i} /\ g.input = "failed" /\ g.in = f.in /\ g.launch = launch[t]
          /\ g.output = f.output /\ g.out = f.out
      BY <1>3, <2>1, <2>5 DEF FailInput, FileFields
    <3>2. CASE DOMAIN todo[t] = {}
      <4>1. \E n \in 0 .. AllGroups : groups' = Groups(n)
        BY <1>1, <1>3, <2>5, <3>2 DEF FailInput, WrittenGroups
      <4>2. /\ groups'.number \in 0 .. AllGroups /\ groups'.metadata = metadata
            /\ groups'.policy = policy /\ groups'.functor = functorData
        BY <4>1 DEF Groups
      <4> QED
        BY <1>3, <2>2, <3>1, <3>2, <4>2, GroupsDescribe DEF GroupsInv, GroupsFollow
    <3>3. CASE DOMAIN todo[t] # {}
      <4>1. groups' = groups
        BY <1>1, <1>3, <2>5, <3>3 DEF FailInput, WrittenGroups
      <4> QED
        BY <2>2, <3>1, <4>1 DEF GroupsInv, GroupsFollow
    <3> QED
      BY <3>2, <3>3
  <2> QED
    BY <1>3, <2>3, <2>4, <2>5 DEF CreateFile
<1> QED
  BY <1>2, <1>3 DEF CreateFile, WriteInput, FinishInput, FailInput

(* append_kernel_output leaves them alone. *)
LEMMA OutputKeepsGroups ==
    ASSUME ApplicationInv, GroupsInv, NEW t \in Threads, groups' \in WrittenGroups,
           OpenFile(t) \/ WriteOutput(t) \/ FinishOutput(t) \/ FailOutput(t)
    PROVE  GroupsInv'
<1>1. pc[t] \in {"openFile", "writeOutput"}
  BY DEF OpenFile, WriteOutput, FinishOutput, FailOutput
<1>2. groups' = groups
  BY <1>1, GroupsStay, CompositionAssumption
<1>3. UNCHANGED files \/ WritesFile(kernelId[t])
  BY OutputKeepsWriters DEF ApplicationInv
<1>4. files[kernelId[t]].input = "complete"
  BY <1>1 DEF ApplicationInv, WritersInv, KnowsItsFile, Ending
<1>5. /\ DOMAIN files' = DOMAIN files
      /\ \A id \in DOMAIN files :
           /\ files'[id].input = files[id].input /\ files'[id].in = files[id].in
           /\ files'[id].launch = files[id].launch
           /\ \/ files[id].input = "complete"
              \/ files'[id].output = files[id].output /\ files'[id].out = files[id].out
  BY <1>3, <1>4 DEF WritesFile, WritesInput, WritesOutput
<1> QED
  BY <1>2, <1>5, GroupsFrame

(* Every step of the application keeps them in order. *)
LEMMA GroupsNext ==
    ASSUME ApplicationInv, GroupsInv, ApplicationStep
    PROVE  GroupsInv'
<1>1. Next /\ groups' \in WrittenGroups
  BY DEF ApplicationStep
<1>2. CASE Application \/ DeviceStep
  <2>1. UNCHANGED files
    BY <1>2 DEF Application, DeviceStep, LoadTool, AddMetadata, Allocate, Deallocate, StartLaunch,
                RunKernel, fileVars
  <2>2. \A t \in Threads : pc[t] # "writeInput" \/ pc'[t] = "writeInput"
    BY <1>2, CompositionAssumption
       DEF Application, DeviceStep, LoadTool, AddMetadata, Allocate, Deallocate, StartLaunch, RunKernel
  <2> QED
    BY <1>1, <2>1, <2>2, GroupsStay, GroupsFrame
<1>3. ASSUME NEW t \in Threads,
             \/ CheckNextInvocation(t) \/ RegisterPolicy(t) \/ ClearViews(t)
             \/ RegisterCapture(t) \/ AllViewsRegistered(t) \/ CopyFunctor(t)
             \/ TakeId(t) \/ CountInvocation(t) \/ CallFence(t) \/ TakeSnapshot(t)
             \/ SetPath(t) \/ Submit(t) \/ EndKernel(t)
      PROVE  GroupsInv'
  <2>1. UNCHANGED files /\ pc[t] # "writeInput"
    BY <1>3 DEF CheckNextInvocation, RegisterPolicy, ClearViews, RegisterCapture, AllViewsRegistered,
                CopyFunctor, TakeId, CountInvocation, CallFence, TakeSnapshot, SetPath, Submit,
                EndKernel, fileVars
  <2>2. groups' = groups
    BY <1>1, <2>1, GroupsStay, CompositionAssumption
  <2> QED
    BY <2>1, <2>2, GroupsFrame
<1> QED
  BY <1>1, <1>2, <1>3, InputKeepsGroups, OutputKeepsGroups DEF Next, ThreadStep

-----------------------------------------------------------------------------
(* The replayer, with what is proved of it.                                *)

RP == INSTANCE Replayer_proofs WITH
    Files <- [name \in {} |-> NoDump],
    CommandLines <- {CommandLine},
    HasDeviceSpace <- FALSE, DeviceSupport <- {TRUE}, Occupied <- {},
    CanFail <- FALSE, ReplaysAnytime <- FALSE,
    isInitialized <- rInitialized, inputResetEnabled <- rResetEnabled,
    internalScopeGuard <- rInternalGuard, scopeGuard <- rScopeGuard,
    replayAllocations <- rAllocations, metadata <- rMetadata,
    functorData <- rFunctorData, replayPolicy <- rPolicy, guard <- rGuard,
    stored <- rStored, inputSnapshots <- rSnapshots, rawAllocations <- rRaw,
    pc <- rPc, disk <- onDisk, given <- rGiven, argv <- rArgv, dump <- rDump,
    rest <- rRest, memory <- rMemory, kokkos <- rKokkos, pending <- rPending,
    replays <- rReplays

(* The assumptions of Replayer hold in the composition. *)
LEMMA ReplayerIsAssumed ==
    RP!ReplayerAssumption /\ RP!FilesAssumption /\ RP!CommandLinesAssumption
<1>1. MaxReplays \in Nat
  BY CompositionAssumption
<1>2. RP!ReplayerAssumption /\ RP!FilesAssumption
  BY <1>1 DEF RP!ReplayerAssumption, RP!FilesAssumption
<1>3. RP!CommandLinesAssumption
  <2>1. CommandLine \in Seq(RP!Range(CommandLine))
    BY DEF CommandLine, RP!Range
  <2> QED
    BY <2>1, Zenon DEF RP!CommandLinesAssumption
<1> QED
  BY <1>2, <1>3

(* R and RP are the same replayer: the proofs of Replayer are about the    *)
(* steps of the composition.                                               *)
LEMMA SameReplayer ==
    /\ R!Init => RP!Init
    /\ [R!Next]_(R!vars) => [RP!Next]_(RP!vars)
    /\ R!Loaded <=> RP!Loaded
<1>1. \A a, f : R!FindCliFlag(a, f) = RP!FindCliFlag(a, f)
  BY ZenonT(60)
     DEF R!FindCliFlag, RP!FindCliFlag, R!Positions, RP!Positions, R!Word, RP!Word,
         R!IsFirstOf, RP!IsFirstOf, R!RemoveCliArgs, RP!RemoveCliArgs, R!Swapped, RP!Swapped
<1>2. \A a, f : R!FindCliOption(a, f) = RP!FindCliOption(a, f)
  BY ZenonT(60)
     DEF R!FindCliOption, RP!FindCliOption, R!Positions, RP!Positions, R!Word, RP!Word, R!Text,
         RP!Text, R!IsFirstOf, RP!IsFirstOf, R!RemoveCliArgs, RP!RemoveCliArgs, R!Swapped,
         RP!Swapped
<1> USE
     DEF R!Goto, RP!Goto, R!staticVars, RP!staticVars, R!loadedVars, RP!loadedVars,
         R!guardVars, RP!guardVars, R!deviceVars, RP!deviceVars, R!argVars, RP!argVars,
         R!LoadUnchanged, RP!LoadUnchanged, R!Nobody, RP!Nobody, R!NullData, RP!NullData,
         R!NoFunctor, RP!NoFunctor, R!NullPolicy, RP!NullPolicy, R!MonostatePolicy,
         RP!MonostatePolicy, R!Throw, RP!Throw, R!DestroyMembers, RP!DestroyMembers,
         R!Restrict, RP!Restrict, R!AddressesIn, RP!AddressesIn, R!NonEmpty, RP!NonEmpty,
         R!InputsOf, RP!InputsOf, R!SpaceType, RP!SpaceType, R!IsDumped, RP!IsDumped,
         R!Inconsistent, RP!Inconsistent
<1>3. \A a, b : R!Construct(a, b) => RP!Construct(a, b)
  BY <1>1, <1>2, Zenon
     DEF R!Construct, RP!Construct, R!DumpOption, RP!DumpOption, R!ResetFlag, RP!ResetFlag,
         R!Opened, RP!Opened
<1>4. \A a, b, c : R!Collect(a, b, c) => RP!Collect(a, b, c)
  BY Zenon DEF R!Collect, RP!Collect
<1>5. \A a, b : R!MapRange(a, b) => RP!MapRange(a, b)
  BY Zenon DEF R!MapRange, RP!MapRange, R!HostAllocate, RP!HostAllocate, R!Min, RP!Min
<1>6. R!DeviceInit => RP!DeviceInit
  BY Zenon DEF R!DeviceInit, RP!DeviceInit
<1>7. R!MappingDone => RP!MappingDone
  BY Zenon DEF R!MappingDone, RP!MappingDone
<1>8. R!CopyInput => RP!CopyInput
  BY Zenon DEF R!CopyInput, RP!CopyInput
<1>9. R!ReadMetadata => RP!ReadMetadata
  BY Zenon DEF R!ReadMetadata, RP!ReadMetadata
<1>10. R!ReadFunctor => RP!ReadFunctor
  BY Zenon DEF R!ReadFunctor, RP!ReadFunctor
<1>11. R!ReadPolicy => RP!ReadPolicy
  BY Zenon DEF R!ReadPolicy, RP!ReadPolicy
<1>12. R!CopyOutput => RP!CopyOutput
  BY Zenon
     DEF R!CopyOutput, RP!CopyOutput, R!IsInputOf, RP!IsInputOf, R!ReferenceOf, RP!ReferenceOf
<1>13. R!FinishConstructor => RP!FinishConstructor
  BY Zenon DEF R!FinishConstructor, RP!FinishConstructor
<1>14. R!FailToRead => RP!FailToRead
  BY Zenon DEF R!FailToRead, RP!FailToRead, R!Constructing, RP!Constructing
<1>15. R!LeaveScope => RP!LeaveScope
  BY Zenon DEF R!LeaveScope, RP!LeaveScope, R!Destroy, RP!Destroy
<1>16. R!Finalize => RP!Finalize
  BY Zenon DEF R!Finalize, RP!Finalize, R!Destroy, RP!Destroy
<1>17. R!KokkosInitialize => RP!KokkosInitialize
  BY Zenon DEF R!KokkosInitialize, RP!KokkosInitialize
<1>18. R!KokkosFinalize => RP!KokkosFinalize
  BY Zenon DEF R!KokkosFinalize, RP!KokkosFinalize
<1>19. \A a, b : R!ParallelFor(a, b) => RP!ParallelFor(a, b)
  BY Zenon
     DEF R!ParallelFor, RP!ParallelFor, R!CanInitFunctor, RP!CanInitFunctor, R!VisitorLaunches,
         RP!VisitorLaunches
<1>20. R!RunKernel => RP!RunKernel
  BY Zenon DEF R!RunKernel, RP!RunKernel
<1>21. R!ResetInputs => RP!ResetInputs
  BY Zenon DEF R!ResetInputs, RP!ResetInputs
<1>22. R!CopySnapshots => RP!CopySnapshots
  BY Zenon DEF R!CopySnapshots, RP!CopySnapshots
<1>23. R!Next => RP!Next
  BY <1>3, <1>4, <1>5, <1>6, <1>7, <1>8, <1>9, <1>10, <1>11, <1>12, <1>13, <1>14, <1>15, <1>16,
     <1>17, <1>18, <1>19, <1>20, <1>21, <1>22, Zenon
     DEF R!Next, RP!Next, R!Program, RP!Program, R!CallStep, RP!CallStep, R!ConstructorStep,
         RP!ConstructorStep, R!Owners, RP!Owners
<1>24. /\ R!Init => RP!Init
       /\ (UNCHANGED R!vars) => UNCHANGED RP!vars
       /\ R!Loaded <=> RP!Loaded
  BY Zenon DEF R!Init, RP!Init, R!vars, RP!vars, R!Loaded, RP!Loaded
<1> QED
  BY <1>23, <1>24
-----------------------------------------------------------------------------
(* The file that the application leaves.                                   *)

(* The contents that are counted are finite sets. *)
LEMMA ContentsAreFinite ==
    ASSUME NEW bytes, IsContents(bytes), bytes # Skipped
    PROVE  IsFiniteSet(bytes) /\ Cardinality(bytes) \in Nat
<1>1. IsFiniteSet(0 .. MaxLaunches)
  BY FS_Interval, CaptureAssumption
<1>2. bytes \in SUBSET (0 .. MaxLaunches)
  BY DEF IsContents
<1>3. IsFiniteSet(bytes)
  BY <1>1, <1>2, FS_Subset
<1> QED
  BY <1>3, FS_CardinalityType

(* A group of a snapshot is read as an entry at the address of the data. *)
LEMMA EntryIsRead ==
    ASSUME NEW snapshot, GroupsAreTyped(snapshot), NEW k \in DOMAIN snapshot
    PROVE  /\ RP!IsEntry(EntryOf(k, snapshot[k]))
           /\ \A e \in Broken(k, snapshot[k]) : RP!IsEntry(e)
           /\ EntryOf(k, snapshot[k]).address = k[2] + HeaderSize
           /\ k[1] = "Host" /\ k[2] \in Nat
<1> DEFINE g == snapshot[k]
           e == EntryOf(k, g)
<1>1. /\ k \in Spaces \X Pointers /\ g.record \in Records /\ g.record.pData = k[2] + HeaderSize
      /\ IsContents(g.bytes)
  BY DEF GroupsAreTyped, AllocationDataPointer
<1>2. k[1] = "Host" /\ k[2] \in Nat \ {0} /\ HeaderSize \in Nat \ {0}
  BY <1>1, CompositionAssumption, HooksAssumption DEF Null
<1>3. k[2] + HeaderSize \in Nat \ {0} /\ g.record.size \in Nat
  BY <1>1, <1>2 DEF Records
<1>4. g.record.pData \div PageSize \in Nat
  <2>1. \A a \in Nat, p \in Nat \ {0} : a \div p \in Nat
    OBVIOUS
  <2> QED
    BY <1>1, <1>3, <2>1, CompositionAssumption
<1>5. e.bytes \in Nat \cup {Skipped, Damaged}
  BY <1>1, ContentsAreFinite DEF EntryOf
<1>6. e.address = k[2] + HeaderSize /\ e.range \in Nat /\ e.size \in Nat
  BY <1>1, <1>3, <1>4 DEF EntryOf
<1>7. RP!IsEntry(e)
  BY <1>3, <1>5, <1>6 DEF RP!IsEntry, RP!NullData
<1>8. \A b \in Broken(k, g) :
        /\ b.address = e.address /\ b.range = e.range /\ b.size = e.size
        /\ b.bytes \in {Damaged, Skipped, 0}
  BY DEF Broken, EntryOf
<1>9. \A b \in Broken(k, g) : RP!IsEntry(b)
  BY <1>3, <1>6, <1>8 DEF RP!IsEntry, RP!NullData
<1> QED
  BY <1>2, <1>6, <1>7, <1>9

(* The entries of /in/views or /out/views. *)
LEMMA EntriesAreRead ==
    ASSUME NEW snapshot, GroupsAreTyped(snapshot)
    PROVE  IsFiniteSet(EntriesOf(snapshot)) /\ \A e \in EntriesOf(snapshot) : RP!IsEntry(e)
<1> DEFINE f == [k \in DOMAIN snapshot |-> EntryOf(k, snapshot[k])]
<1>1. f \in Surjection(DOMAIN snapshot, EntriesOf(snapshot))
  BY DEF Surjection, EntriesOf
<1>2. IsFiniteSet(EntriesOf(snapshot))
  BY <1>1, FS_Surjection DEF GroupsAreTyped
<1> QED
  BY <1>2, EntryIsRead DEF EntriesOf

(* The functor of a dump holds the addresses of nonempty allocations that  *)
(* the dump has, and no others than those of the captures.                 *)
LEMMA FunctorIsOnEntries ==
    ASSUME NEW f, FileIsSettled(f), GroupsFollow(f), groups.number # 0
    PROVE  /\ FunctorAddresses(f) \subseteq {e.address : e \in RP!NonEmpty(EntriesOf(f.in))}
           /\ \A k \in DOMAIN f.in : f.in[k].record.size > 0 =>
                (k[2] + HeaderSize \in FunctorAddresses(f) <=> k \in f.launch.captures)
<1>1. f.launch.captures \subseteq DOMAIN f.in /\ GroupsAreTyped(f.in)
  BY DEF GroupsFollow, FileIsSettled
<1> DEFINE written == {c \in f.launch.captures : c \in DOMAIN f.in => f.in[c].record.size > 0}
<1>2. written = {c \in f.launch.captures : f.in[c].record.size > 0}
  BY <1>1
<1>3. FunctorAddresses(f) = {c[2] + HeaderSize : c \in written}
  BY DEF FunctorAddresses, AllocationDataPointer
<1> HIDE DEF written
<1>4. ASSUME NEW c \in written
      PROVE  \E e \in RP!NonEmpty(EntriesOf(f.in)) : e.address = c[2] + HeaderSize
  <2> DEFINE e == EntryOf(c, f.in[c])
  <2>1. c \in DOMAIN f.in /\ f.in[c].record.size > 0
    BY <1>1, <1>2
  <2>2. e \in EntriesOf(f.in) /\ e.size # 0
    BY <2>1 DEF EntriesOf, EntryOf
  <2>3. e.address = c[2] + HeaderSize
    BY <1>1, <2>1, EntryIsRead
  <2> HIDE DEF e
  <2> QED
    BY <2>2, <2>3 DEF RP!NonEmpty
<1>5. \A k, c \in DOMAIN f.in : k[2] + HeaderSize = c[2] + HeaderSize => k = c
  <2>1. \A k \in DOMAIN f.in : k[2] \in Nat /\ k[1] = "Host" /\ k \in Spaces \X Pointers
    BY <1>1, EntryIsRead DEF GroupsAreTyped
  <2>2. HeaderSize \in Nat
    BY HooksAssumption
  <2> QED
    BY <2>1, <2>2
<1>6. \A k \in DOMAIN f.in : f.in[k].record.size > 0 =>
        (k[2] + HeaderSize \in FunctorAddresses(f) <=> k \in f.launch.captures)
  BY <1>1, <1>2, <1>3, <1>5
<1> QED
  BY <1>3, <1>4, <1>6

(* The functor that was written is on entries of the dump. *)
LEMMA FunctorIsWritten ==
    ASSUME NEW f, GroupsFollow(f), groups.number \in 0 .. AllGroups, HasGroup(3),
           ~FunctorIsUnwritten
    PROVE  groups.number = AllGroups /\ FunctorBytes(f) = FunctorAddresses(f)
<1>1. groups.number = 4
  BY DEF HasGroup, FunctorIsUnwritten, AllGroups
<1> QED
  BY <1>1 DEF AllGroups, FunctorBytes, HasGroup, GroupsFollow

(* Whatever the application leaves of the file, it has the structure of a  *)
(* dump, and its functor, if it was written, is on allocations of the      *)
(* dump.                                                                   *)
LEMMA DumpIsGood ==
    ASSUME NEW f, FileIsSettled(f), GroupsFollow(f), groups.number \in 0 .. AllGroups,
           f.output \in Phases \ {"open"}, NEW out \in OutputOf(f)
    PROVE  /\ RP!IsDumpFile(DumpOf(f, out))
           /\ FunctorIsUnwritten \/ RP!IsSound(DumpOf(f, out))
<1> DEFINE d == DumpOf(f, out)
<1>1. GroupsAreTyped(f.in) /\ GroupsAreTyped(f.out)
  BY DEF FileIsSettled
<1>2. /\ d.in = EntriesOf(f.in) /\ d.out = out
      /\ d.policy = IF HasGroup(2) THEN PolicyType ELSE "unsupported"
      /\ d.functor = IF HasGroup(3) THEN FunctorBytes(f) ELSE Missing
  BY DEF DumpOf
<1>3. IsFiniteSet(d.in) /\ \A e \in d.in : RP!IsEntry(e)
  BY <1>1, <1>2, EntriesAreRead
<1>4. ASSUME d.out # Missing, NEW e \in d.out PROVE RP!IsEntry(e)
  <2>1. \/ e \in EntriesOf(f.out)
        \/ \E k \in DOMAIN f.in : e \in Broken(k, f.in[k])
    BY <1>2, <1>4 DEF OutputOf, Phases
  <2> QED
    BY <1>1, <2>1, EntriesAreRead, EntryIsRead
<1>5. d.policy \in {"none", "range", "unsupported"}
  BY <1>2 DEF PolicyType
<1>6. RP!IsDumpFile(d)
  <2>1. RP!IsFiniteSet(d.in)
    BY <1>3, Zenon DEF IsFiniteSet, RP!IsFiniteSet
  <2> HIDE DEF d
  <2> QED
    BY <1>3, <1>4, <1>5, <2>1 DEF RP!IsDumpFile, RP!MonostatePolicy
<1>7. ASSUME ~FunctorIsUnwritten, d.functor # Missing
      PROVE  d.functor \subseteq {e.address : e \in RP!NonEmpty(d.in)}
  <2>1. d.functor = FunctorAddresses(f) /\ groups.number # 0
    BY <1>2, <1>7, FunctorIsWritten DEF AllGroups
  <2> QED
    BY <1>2, <2>1, FunctorIsOnEntries
<1>8. \A a, b \in d.in : a.address = b.address => RP!SameKey(a, b)
  <2> SUFFICES ASSUME NEW k \in DOMAIN f.in, NEW c \in DOMAIN f.in,
                      EntryOf(k, f.in[k]).address = EntryOf(c, f.in[c]).address
               PROVE  RP!SameKey(EntryOf(k, f.in[k]), EntryOf(c, f.in[c]))
    BY <1>2 DEF EntriesOf
  <2>1. k[2] + HeaderSize = c[2] + HeaderSize /\ k[1] = c[1] /\ k[2] \in Nat /\ c[2] \in Nat
    BY <1>1, EntryIsRead
  <2>2. k[2] = c[2]
    BY <2>1, HooksAssumption
  <2> QED
    BY <2>1, <2>2 DEF RP!SameKey, EntryOf
<1> QED
  BY <1>6, <1>7, <1>8 DEF RP!IsSound, RP!NonEmpty

-----------------------------------------------------------------------------
(* Both processes.                                                         *)

(* The file f is what the replay program was given. *)
LeftBehind(f) ==
    /\ FileIsSettled(f) /\ GroupsFollow(f) /\ groups.number \in 0 .. AllGroups
    /\ f.output \in Phases \ {"open"}
    /\ \E out \in OutputOf(f) : onDisk = [name \in {FileName} |-> DumpOf(f, out)]

ReplayInv ==
    /\ RP!GuardInv /\ RP!StoredInv /\ RP!DumpIsOnDisk
    /\ FunctorIsUnwritten \/ (RP!ContentsInv /\ RP!SoundDisk)

CompositionInv ==
    /\ running \in {"application", "replay"}
    /\ running = "application" => ApplicationInv /\ GroupsInv /\ R!Init
    /\ running = "replay" => LeftBehind(TheFile) /\ ReplayInv

(* The application begins without a dump, the replay program has not begun. *)
LEMMA CompositionStarts == CompositionInit => CompositionInv
<1> SUFFICES ASSUME CompositionInit PROVE CompositionInv
  OBVIOUS
<1>1. ApplicationInv /\ R!Init /\ running = "application" /\ groups.number = 0
  BY ApplicationInit DEF CompositionInit, Groups
<1>2. DOMAIN files = {}
  BY DEF CompositionInit, Init
<1>3. GroupsInv
  BY <1>1, <1>2 DEF GroupsInv, AllGroups
<1> QED
  BY <1>1, <1>3 DEF CompositionInv

(* The application runs. *)
LEMMA ApplicationKeeps ==
    ASSUME HasCompilerPlugins => Probed, CompositionInv, ApplicationStep
    PROVE  CompositionInv'
<1>1. running = "application" /\ Next /\ running' = running /\ UNCHANGED replayVars
  BY DEF ApplicationStep
<1>2. ApplicationInv /\ GroupsInv /\ R!Init
  BY <1>1 DEF CompositionInv
<1>3. ApplicationInv' /\ GroupsInv'
  BY <1>1, <1>2, ApplicationNext, GroupsNext
<1>4. R!Init'
  BY <1>1, <1>2 DEF R!Init, replayVars
<1> QED
  BY <1>1, <1>3, <1>4 DEF CompositionInv

(* It ends, and the replay program finds the file. *)
LEMMA ExitKeeps ==
    ASSUME CompositionInv, Exit
    PROVE  CompositionInv'
<1> DEFINE f == TheFile
<1>1. /\ running = "application" /\ running' = "replay" /\ DOMAIN files # {}
      /\ \A t \in Threads : pc[t] = "idle"
      /\ UNCHANGED <<files, groups>>
  BY DEF Exit, fileVars
<1>2. ApplicationInv /\ GroupsInv /\ R!Init
  BY <1>1 DEF CompositionInv
<1>3. PICK id \in DOMAIN files : f = files[id]
  BY <1>1 DEF TheFile
<1>4. FileIsSettled(f) /\ GroupsFollow(f) /\ groups.number \in 0 .. AllGroups
  BY <1>2, <1>3 DEF ApplicationInv, SequentialInv, GroupsInv
<1>5. f.output # "open"
  BY <1>1, <1>2, <1>3 DEF ApplicationInv, SequentialInv, OutputIsOpen
<1>6. f.output \in Phases
  BY <1>2, <1>3 DEF ApplicationInv, FilesInv, FileIsGood, FileTyped
<1>7. PICK out \in OutputOf(f) : onDisk' = [name \in {FileName} |-> DumpOf(f, out)]
  BY DEF Exit
<1>8. RP!IsDumpFile(DumpOf(f, out)) /\ (FunctorIsUnwritten \/ RP!IsSound(DumpOf(f, out)))
  BY <1>4, <1>5, <1>6, DumpIsGood
<1>9. ReplayInv'
  <2>1. RP!Init
    BY <1>2, SameReplayer
  <2>2. UNCHANGED <<RP!staticVars, RP!loadedVars, rGuard, RP!guardVars, rPc, rGiven, rArgv, rDump,
                    rRest, rMemory, RP!deviceVars>>
    BY DEF Exit, RP!staticVars, RP!loadedVars, RP!guardVars, RP!deviceVars
  <2>3. \A text \in DOMAIN onDisk' : RP!IsDumpFile(onDisk'[text])
    BY <1>7, <1>8
  <2>4. (RP!GuardInv /\ RP!StoredInv /\ RP!ContentsInv /\ RP!DumpIsOnDisk)'
    BY <2>1, <2>2, <2>3, ReplayerIsAssumed, RP!FilesAppear
  <2>5. CASE FunctorIsUnwritten
    BY <1>1, <2>4, <2>5 DEF ReplayInv, FunctorIsUnwritten
  <2>6. CASE ~FunctorIsUnwritten
    <3>1. \A text \in DOMAIN onDisk' : RP!IsSound(onDisk'[text])
      BY <1>7, <1>8, <2>6
    <3>2. RP!SoundDisk'
      BY <3>1 DEF RP!SoundDisk, RP!IsSound, RP!NonEmpty, RP!SameKey
    <3> QED
      BY <2>4, <3>2 DEF ReplayInv
  <2> QED
    BY <2>5, <2>6
<1>10. LeftBehind(TheFile)'
  <2>1. /\ groups'.number \in 0 .. AllGroups /\ TheFile'.output \in Phases \ {"open"}
        /\ GroupsFollow(TheFile)' /\ FileIsSettled(TheFile)'
    BY <1>1, <1>4, <1>5, <1>6 DEF TheFile, GroupsFollow
  <2>2. \E o \in OutputOf(TheFile)' : onDisk' = [name \in {FileName} |-> DumpOf(TheFile, o)']
    BY <1>1, <1>7 DEF TheFile, DumpOf, HasGroup, PolicyType, FunctorBytes
  <2> QED
    BY <2>1, <2>2 DEF LeftBehind
<1> QED
  BY <1>1, <1>9, <1>10 DEF CompositionInv

(* The replay program runs, on the file it was given. *)
LEMMA ReplayKeeps ==
    ASSUME CompositionInv, running = "replay", [R!Next]_(R!vars), UNCHANGED <<vars, running, groups>>
    PROVE  CompositionInv'
<1>1. LeftBehind(TheFile) /\ ReplayInv
  BY DEF CompositionInv
<1>2. [RP!Next]_(RP!vars)
  BY SameReplayer
<1>3. RP!GuardInv'
  BY <1>1, <1>2, ReplayerIsAssumed, RP!GuardNext DEF ReplayInv
<1>4. RP!StoredInv'
  BY <1>1, <1>2, ReplayerIsAssumed, RP!StoredNext DEF ReplayInv
<1>5. FunctorIsUnwritten \/ RP!ContentsInv'
  BY <1>1, <1>2, ReplayerIsAssumed, RP!ContentsNext DEF ReplayInv
<1>6. onDisk' = onDisk /\ RP!DumpIsOnDisk'
  BY <1>1, <1>2, ReplayerIsAssumed, RP!DiskNext DEF ReplayInv
<1>7. FunctorIsUnwritten \/ RP!SoundDisk'
  BY <1>1, <1>6 DEF ReplayInv, RP!SoundDisk, RP!IsSound
<1>8. UNCHANGED <<files, groups, running>>
  BY DEF vars, fileVars
<1>9. LeftBehind(TheFile)'
  <2>1. /\ groups'.number \in 0 .. AllGroups /\ TheFile'.output \in Phases \ {"open"}
        /\ GroupsFollow(TheFile)' /\ FileIsSettled(TheFile)'
    BY <1>1, <1>8 DEF LeftBehind, TheFile, GroupsFollow
  <2>2. PICK o \in OutputOf(TheFile) : onDisk = [name \in {FileName} |-> DumpOf(TheFile, o)]
    BY <1>1 DEF LeftBehind
  <2>3. \E out \in OutputOf(TheFile)' : onDisk' = [name \in {FileName} |-> DumpOf(TheFile, out)']
    BY <1>6, <1>8, <2>2 DEF TheFile, DumpOf, HasGroup, PolicyType, FunctorBytes
  <2> QED
    BY <2>1, <2>3 DEF LeftBehind
<1> QED
  BY <1>3, <1>4, <1>5, <1>6, <1>7, <1>8, <1>9 DEF CompositionInv, ReplayInv, FunctorIsUnwritten

(* The two processes keep the invariant throughout. *)
LEMMA CompositionInvariant ==
    ASSUME HasCompilerPlugins => Probed
    PROVE  CompositionSpec => []CompositionInv
<1>1. ASSUME CompositionInv, UNCHANGED compositionVars PROVE CompositionInv'
  <2>1. UNCHANGED <<vars, running, groups, replayVars, files>>
    BY <1>1 DEF compositionVars, vars, fileVars
  <2>2. CASE running = "application"
    <3>1. ApplicationInv /\ GroupsInv /\ R!Init
      BY <1>1, <2>2 DEF CompositionInv
    <3>2. ApplicationInv'
      BY <2>1, <3>1, ApplicationNext
    <3>3. GroupsInv'
      BY <2>1, <3>1, GroupsFrame
    <3>4. R!Init'
      BY <2>1, <3>1 DEF R!Init, replayVars
    <3> QED
      BY <2>1, <2>2, <3>2, <3>3, <3>4 DEF CompositionInv
  <2>3. CASE running = "replay"
    <3>1. UNCHANGED R!vars
      BY <2>1 DEF replayVars, R!vars, R!staticVars, R!loadedVars, R!guardVars, R!argVars, R!deviceVars
    <3> QED
      BY <1>1, <2>1, <2>3, <3>1, ReplayKeeps
  <2> QED
    BY <1>1, <2>2, <2>3 DEF CompositionInv
<1>2. CompositionInv /\ [CompositionNext]_compositionVars => CompositionInv'
  BY <1>1, ApplicationKeeps, ExitKeeps, ReplayKeeps DEF CompositionNext, ReplayStep
<1> QED
  BY <1>2, CompositionStarts, PTL DEF CompositionSpec

(* What a guard was loaded from. *)
LEMMA LoadedIsTheFile ==
    ASSUME CompositionInv, running = "replay", R!Loaded
    PROVE  /\ rDump.in = EntriesOf(TheFile.in)
           /\ rDump.out \in OutputOf(TheFile) /\ rDump.functor = rFunctorData
           /\ groups.number # 0 /\ GroupsFollow(TheFile) /\ FileIsSettled(TheFile)
           /\ \/ FunctorIsUnwritten
              \/ /\ rFunctorData = FunctorAddresses(TheFile)
                 /\ RP!ContentsInv
           /\ rPolicy = PolicyType
           /\ RP!GuardInv /\ RP!StoredInv /\ RP!StoredIs(EntriesOf(TheFile.in), RP!Outputs)
           /\ RP!Loaded
<1>1. LeftBehind(TheFile) /\ ReplayInv /\ RP!Loaded
  BY SameReplayer DEF CompositionInv
<1>2. PICK out \in OutputOf(TheFile) : onDisk = [name \in {FileName} |-> DumpOf(TheFile, out)]
  BY <1>1 DEF LeftBehind
<1>3. rDump = DumpOf(TheFile, out)
  BY <1>1, <1>2 DEF ReplayInv, RP!DumpIsOnDisk, RP!Loaded
<1>4. /\ RP!StoredIs(rDump.in, RP!Outputs) /\ rPolicy = rDump.policy
      /\ rFunctorData = rDump.functor /\ rFunctorData # Missing
  BY <1>1 DEF ReplayInv, RP!StoredInv, RP!Behind
<1>5. HasGroup(3) /\ groups.number \in 0 .. AllGroups
  BY <1>1, <1>3, <1>4 DEF DumpOf, LeftBehind
<1>6. groups.number # 0 /\ HasGroup(2)
  BY <1>5 DEF HasGroup, AllGroups
<1>7. /\ rDump.in = EntriesOf(TheFile.in) /\ rDump.out = out
      /\ rDump.functor = FunctorBytes(TheFile) /\ rDump.policy = PolicyType
  BY <1>3, <1>5, <1>6 DEF DumpOf
<1>8. FunctorIsUnwritten \/ FunctorBytes(TheFile) = FunctorAddresses(TheFile)
  BY <1>1, <1>5, FunctorIsWritten DEF LeftBehind
<1> QED
  BY <1>1, <1>2, <1>4, <1>6, <1>7, <1>8 DEF LeftBehind, ReplayInv

(* A functor that was not written is that of a capture that failed. *)
LEMMA UnwrittenHasFailed ==
    ASSUME NEW f, GroupsFollow(f), FunctorIsUnwritten
    PROVE  f.input = "failed" /\ f.output = "absent" /\ DOMAIN f.out = {}
  BY DEF GroupsFollow, FunctorIsUnwritten, AllGroups

(* However the capture ended, a dump that a ScopeGuard accepts has every   *)
(* allocation that the kernel uses, when krepe::parallel_for dumped it its *)
(* policy, and the functor of its launch, unless create_kernel_dump has    *)
(* reported a failure and left the functor's dataset unwritten: for every  *)
(* application with one thread, every failure of the writer and any        *)
(* sequence of calls of the replay program.  With the plugins, the         *)
(* allocators can be queried.                                              *)
THEOREM WhatIsAcceptedIsWhole ==
    ASSUME HasCompilerPlugins => Probed
    PROVE  CompositionSpec => []AcceptedDumpsAreWhole
<1>1. CompositionInv => AcceptedDumpsAreWhole
  <2> SUFFICES ASSUME CompositionInv, running = "replay", R!Loaded
               PROVE  /\ \A k \in TheFile.launch.captures :
                           \E s \in rStored : s.id = k[2] /\ s.space = k[1]
                      /\ rFunctorData # FunctorAddresses(TheFile) =>
                           TheFile.input = "failed" /\ FunctorIsUnwritten
                      /\ TheFile.launch.mode = "krepe" => rPolicy = "range"
    BY DEF AcceptedDumpsAreWhole
  <2>1. groups.number # 0 /\ GroupsFollow(TheFile) /\ FileIsSettled(TheFile)
    BY LoadedIsTheFile
  <2>2. ASSUME NEW k \in TheFile.launch.captures
        PROVE  \E s \in rStored : s.id = k[2] /\ s.space = k[1]
    <3> DEFINE e == EntryOf(k, TheFile.in[k])
    <3>1. k \in DOMAIN TheFile.in
      BY <2>1 DEF GroupsFollow
    <3>2. e \in EntriesOf(TheFile.in) /\ e.id = k[2] /\ e.space = k[1]
      BY <3>1 DEF EntriesOf, EntryOf
    <3> HIDE DEF e
    <3> QED
      BY <3>2, LoadedIsTheFile DEF RP!StoredIs, RP!SameKey
  <2>3. TheFile.launch.mode = "krepe" => rPolicy = "range"
    BY <2>1, LoadedIsTheFile DEF GroupsFollow, FileIsSettled, PolicyType, NoPolicy
  <2> QED
    BY <2>1, <2>2, <2>3, LoadedIsTheFile, UnwrittenHasFailed
<1> QED
  BY <1>1, CompositionInvariant, PTL

(* What the kernel adds to the contents is counted once. *)
LEMMA KernelIsCounted ==
    ASSUME NEW f, FileIsSettled(f), NEW k \in DOMAIN f.in, HasBytes(f.in, k)
    PROVE  Cardinality(f.in[k].bytes \cup WrittenBy(f.launch, k))
             = Cardinality(f.in[k].bytes) + (IF k \in f.launch.captures THEN 1 ELSE 0)
<1> DEFINE bytes == f.in[k].bytes
           number == f.launch.number
<1>1. IsFiniteSet(bytes) /\ Cardinality(bytes) \in Nat
  BY ContentsAreFinite DEF FileIsSettled, GroupsAreTyped, HasBytes
<1>2. CASE k \in f.launch.captures
  <2>1. number \notin bytes
    BY <1>2 DEF FileIsSettled, InIsTimely
  <2>2. Cardinality(bytes \cup {number}) = Cardinality(bytes) + 1
    BY <1>1, <2>1, FS_AddElement
  <2> QED
    BY <1>2, <2>2 DEF WrittenBy
<1>3. CASE k \notin f.launch.captures
  <2>1. bytes \cup WrittenBy(f.launch, k) = bytes
    BY <1>3 DEF WrittenBy
  <2>2. Cardinality(bytes \cup WrittenBy(f.launch, k)) = Cardinality(bytes)
    BY <2>1, Zenon
  <2> QED
    BY <1>1, <1>3, <2>2
<1> QED
  BY <1>2, <1>3

(* A replay of a dump that the application left never runs on memory that  *)
(* is not there, unless the capture has reported a failure and left the    *)
(* functor unwritten; and when one has run, every allocation whose output  *)
(* was dumped holds what it held in the application after the kernel: for  *)
(* every application with one thread, whatever failed in the capture, and  *)
(* any sequence of calls of the replay program.                            *)
THEOREM ReplaysReproduce ==
    ASSUME HasCompilerPlugins => Probed
    PROVE  CompositionSpec => []ReplayReproducesOutput
<1>1. CompositionInv =>
        (rPc = "crashed" => TheFile.input = "failed" /\ FunctorIsUnwritten)
  <2>1. R!Init => rPc # "crashed"
    BY DEF R!Init
  <2>2. ReplayInv => FunctorIsUnwritten \/ rPc # "crashed"
    BY DEF ReplayInv, RP!ContentsInv, RP!QueueInv
  <2>3. LeftBehind(TheFile) /\ FunctorIsUnwritten => TheFile.input = "failed"
    BY UnwrittenHasFailed DEF LeftBehind
  <2> QED
    BY <2>1, <2>2, <2>3 DEF CompositionInv
<1>2. ASSUME CompositionInv, running = "replay", R!Loaded, rReplays = 1, rPending = << >>,
             NEW k \in DOMAIN TheFile.out, HasBytes(TheFile.out, k)
      PROVE  rMemory[AllocationDataPointer(k[2])] = Cardinality(TheFile.out[k].bytes)
  <2> DEFINE f == TheFile
             e == EntryOf(k, f.in[k])
  <2>1. /\ FileIsSettled(f) /\ GroupsFollow(f) /\ groups.number # 0
        /\ rDump.in = EntriesOf(f.in) /\ rFunctorData = FunctorAddresses(f)
        /\ RP!StoredIs(EntriesOf(f.in), RP!Outputs) /\ RP!Loaded /\ RP!ContentsInv
    <3>1. GroupsFollow(f) /\ ~FunctorIsUnwritten
      BY <1>2, LoadedIsTheFile, UnwrittenHasFailed
    <3> QED
      BY <1>2, <3>1, LoadedIsTheFile
  <2>2. k \in DOMAIN f.in /\ f.in[k].record.size > 0
    BY <1>2, <2>1 DEF FileIsSettled, OutFollowsIn, HasBytes
  <2>3. e \in EntriesOf(f.in) /\ e.size # 0
    BY <2>2 DEF EntriesOf, EntryOf
  <2>4. e.address = k[2] + HeaderSize
    BY <2>1, <2>2, EntryIsRead DEF FileIsSettled
  <2>5. e.bytes \in Nat
    BY <2>1, <2>3 DEF RP!StoredIs
  <2>6. f.in[k].bytes # Skipped /\ e.bytes = Cardinality(f.in[k].bytes)
    BY <2>5, GroupsAssumption DEF EntryOf
  <2>7. HasBytes(f.in, k)
    BY <2>2, <2>6 DEF HasBytes
  <2>8. Cardinality(f.out[k].bytes) = e.bytes + (IF k \in f.launch.captures THEN 1 ELSE 0)
    <3>1. f.out[k].bytes = f.in[k].bytes \cup WrittenBy(f.launch, k)
      BY <1>2, <2>1, <2>7 DEF FileIsSettled, OutFollowsIn
    <3> QED
      BY <2>1, <2>2, <2>6, <2>7, <3>1, KernelIsCounted
  <2> HIDE DEF e
  <2>9. rMemory[e.address] = e.bytes + RP!Writes(e.address)
    BY <2>1, <2>3 DEF RP!ContentsInv, RP!NonEmpty
  <2>10. RP!Writes(e.address) = IF k \in f.launch.captures THEN 1 ELSE 0
    <3>1. Len(rPending) = 0
      BY <1>2
    <3>2. e.address \in rFunctorData <=> k \in f.launch.captures
      BY <2>1, <2>2, <2>4, FunctorIsOnEntries
    <3> QED
      BY <1>2, <3>1, <3>2 DEF RP!Writes
  <2> QED
    BY <2>4, <2>8, <2>9, <2>10 DEF AllocationDataPointer
<1>3. CompositionInv => ReplayReproducesOutput
  BY <1>1, <1>2 DEF ReplayReproducesOutput
<1> QED
  BY <1>3, CompositionInvariant, PTL

(* What a capture that succeeded put into /out is what one run of the      *)
(* kernel leaves of /in.                                                   *)
LEMMA OutputsAreOfTheKernel ==
    ASSUME NEW f, FileIsSettled(f), GroupsFollow(f), groups.number # 0,
           f.output \in {"absent", "complete"}, NEW d,
           d.in = EntriesOf(f.in), d.out \in OutputOf(f), d.functor = FunctorAddresses(f)
    PROVE  RP!HasOutputsOfItsKernel(d)
<1> SUFFICES ASSUME d.out # Missing, NEW i \in d.in, NEW o \in d.out,
                    i.id = o.id, i.space = o.space, i.size # 0, i.bytes \in Nat, o.bytes \in Nat
             PROVE  o.bytes = i.bytes + (IF i.address \in d.functor THEN 1 ELSE 0)
  BY DEF RP!HasOutputsOfItsKernel
<1>1. GroupsAreTyped(f.in) /\ GroupsAreTyped(f.out) /\ OutFollowsIn(f)
  BY DEF FileIsSettled
<1>2. d.out = EntriesOf(f.out)
  BY DEF OutputOf
<1>3. PICK k \in DOMAIN f.in : i = EntryOf(k, f.in[k])
  BY DEF EntriesOf
<1>4. PICK c \in DOMAIN f.out : o = EntryOf(c, f.out[c])
  BY <1>2 DEF EntriesOf
<1>5. k = c
  <2>1. k[1] = c[1] /\ k[2] = c[2]
    BY <1>3, <1>4 DEF EntryOf
  <2>2. k \in Spaces \X Pointers /\ c \in Spaces \X Pointers
    BY <1>1 DEF GroupsAreTyped
  <2> QED
    BY <2>1, <2>2
<1>6. /\ f.out[k].record = f.in[k].record /\ f.in[k].record.size \in Nat
      /\ f.in[k].record.size = i.size
  BY <1>1, <1>3, <1>4, <1>5 DEF OutFollowsIn, EntryOf, GroupsAreTyped, Records
<1>7. /\ f.in[k].bytes # Skipped /\ i.bytes = Cardinality(f.in[k].bytes)
      /\ f.out[k].bytes # Skipped /\ o.bytes = Cardinality(f.out[k].bytes)
  BY <1>3, <1>4, <1>5, GroupsAssumption DEF EntryOf
<1>8. HasBytes(f.in, k) /\ HasBytes(f.out, k)
  BY <1>4, <1>5, <1>6, <1>7 DEF HasBytes
<1>9. f.out[k].bytes = f.in[k].bytes \cup WrittenBy(f.launch, k)
  BY <1>1, <1>4, <1>5, <1>8 DEF OutFollowsIn
<1>10. o.bytes = i.bytes + (IF k \in f.launch.captures THEN 1 ELSE 0)
  BY <1>7, <1>8, <1>9, KernelIsCounted
<1>11. i.address = k[2] + HeaderSize
  BY <1>1, <1>3, EntryIsRead
<1>12. i.address \in d.functor <=> k \in f.launch.captures
  BY <1>6, <1>11, FunctorIsOnEntries
<1> QED
  BY <1>10, <1>12

(* After one replay of a dump whose /out was completed or is absent, every *)
(* comparison that compare_views accepts agrees: for every application     *)
(* with one thread, whatever failed before, and any sequence of calls of   *)
(* the replay program.  With the plugins, the allocators can be queried.   *)
THEOREM CapturesCompareEqual ==
    ASSUME HasCompilerPlugins => Probed
    PROVE  CompositionSpec => []ComparisonsAgreeWithCapture
<1>1. RP!ReferencesAgree => R!ReferencesAgree
  BY DEF RP!ReferencesAgree, R!ReferencesAgree, RP!Loaded, R!Loaded, RP!Nobody, R!Nobody,
         RP!ValidComparison, R!ValidComparison, RP!SpaceType, R!SpaceType, RP!NullData, R!NullData
<1>2. ASSUME CompositionInv, running = "replay", TheFile.output # "failed", R!Loaded
      PROVE  RP!ReferencesAgree
  <2>1. /\ FileIsSettled(TheFile) /\ GroupsFollow(TheFile) /\ groups.number # 0
        /\ rDump.in = EntriesOf(TheFile.in) /\ rDump.out \in OutputOf(TheFile)
        /\ rDump.functor = rFunctorData
        /\ RP!GuardInv /\ RP!StoredInv /\ RP!StoredIs(EntriesOf(TheFile.in), RP!Outputs)
        /\ RP!Loaded
    BY <1>2, LoadedIsTheFile
  <2>2. TheFile.output \in {"absent", "complete"}
    BY <1>2 DEF CompositionInv, LeftBehind, Phases
  <2>3. CASE FunctorIsUnwritten
    <3>1. TheFile.output = "absent"
      BY <2>1, <2>3, UnwrittenHasFailed
    <3>2. RP!Outputs = {}
      BY <2>1, <3>1 DEF OutputOf, RP!Outputs
    <3>3. \A s \in rStored : ~s.hasReference
      BY <2>1, <3>2 DEF RP!StoredIs, RP!HasOutput
    <3> QED
      BY <3>3 DEF RP!ReferencesAgree, RP!ValidComparison
  <2>4. CASE ~FunctorIsUnwritten
    <3>1. rFunctorData = FunctorAddresses(TheFile) /\ RP!ContentsInv
      BY <1>2, <2>4, LoadedIsTheFile
    <3>2. RP!HasOutputsOfItsKernel(rDump)
      BY <2>1, <2>2, <3>1, OutputsAreOfTheKernel
    <3> QED
      BY <2>1, <3>1, <3>2, ReplayerIsAssumed, RP!OutputsAgree
  <2> QED
    BY <2>3, <2>4
<1>3. CompositionInv => ComparisonsAgreeWithCapture
  <2>1. ~R!Loaded => R!ReferencesAgree
    BY DEF R!ReferencesAgree
  <2> QED
    BY <1>1, <1>2, <2>1 DEF ComparisonsAgreeWithCapture
<1> QED
  BY <1>3, CompositionInvariant, PTL

(* The entries of a snapshot have their own keys, are none of them damaged *)
(* and are on the host.                                                    *)
LEMMA EntriesAreWhole ==
    ASSUME NEW snapshot, GroupsAreTyped(snapshot)
    PROVE  /\ \A e \in EntriesOf(snapshot) : ~RP!Inconsistent(e) /\ e.space = "Host"
           /\ \A e, f \in EntriesOf(snapshot) : RP!SameKey(e, f) => e = f
           /\ (\A k \in DOMAIN snapshot : snapshot[k].bytes # Skipped)
                => \A e \in EntriesOf(snapshot) : RP!IsDumped(e)
<1>1. ASSUME NEW k \in DOMAIN snapshot
      PROVE  /\ ~RP!Inconsistent(EntryOf(k, snapshot[k])) /\ EntryOf(k, snapshot[k]).space = "Host"
             /\ snapshot[k].bytes # Skipped => RP!IsDumped(EntryOf(k, snapshot[k]))
  <2>1. k[1] = "Host"
    BY EntryIsRead
  <2>2. IsContents(snapshot[k].bytes)
    BY DEF GroupsAreTyped
  <2>3. \/ snapshot[k].bytes = Skipped /\ EntryOf(k, snapshot[k]).bytes = Skipped
        \/ EntryOf(k, snapshot[k]).bytes \in Nat
    BY <2>2, ContentsAreFinite DEF EntryOf
  <2>4. EntryOf(k, snapshot[k]).space = "Host"
    BY <2>1 DEF EntryOf
  <2> QED
    BY <2>3, <2>4, GroupsAssumption DEF RP!Inconsistent, RP!IsDumped
<1>2. ASSUME NEW k \in DOMAIN snapshot, NEW c \in DOMAIN snapshot,
             RP!SameKey(EntryOf(k, snapshot[k]), EntryOf(c, snapshot[c]))
      PROVE  k = c
  <2>1. k[1] = c[1] /\ k[2] = c[2]
    BY <1>2 DEF RP!SameKey, EntryOf
  <2>2. k \in Spaces \X Pointers /\ c \in Spaces \X Pointers
    BY DEF GroupsAreTyped
  <2> QED
    BY <2>1, <2>2
<1> QED
  BY <1>1, <1>2 DEF EntriesOf

(* What a capture that succeeded leaves is a complete dump. *)
LEMMA CapturedIsComplete ==
    ASSUME NEW f, FileIsSettled(f), GroupsFollow(f), f.input = "complete",
           f.output \in {"absent", "complete"},
           \A k \in DOMAIN f.in : f.in[k].bytes # Skipped, NEW out \in OutputOf(f)
    PROVE  RP!IsComplete(DumpOf(f, out))
<1> DEFINE d == DumpOf(f, out)
<1>1. GroupsAreTyped(f.in) /\ GroupsAreTyped(f.out) /\ OutFollowsIn(f)
  BY DEF FileIsSettled
<1>2. /\ f.launch.captures \subseteq DOMAIN f.in /\ groups.metadata \in Metadata
      /\ HasGroup(1) /\ HasGroup(2) /\ HasGroup(3)
      /\ FunctorBytes(f) = FunctorAddresses(f)
  BY DEF GroupsFollow, AllGroups, HasGroup, FunctorBytes
<1>3. /\ d.in = EntriesOf(f.in) /\ d.out = out /\ d.metadata = groups.metadata
      /\ d.policy = PolicyType /\ d.functor = FunctorAddresses(f)
  BY <1>2 DEF DumpOf
<1> HIDE DEF d
<1>4. /\ \A e \in d.in : RP!IsDumped(e) /\ ~RP!Inconsistent(e) /\ e.space = "Host"
      /\ \A a, b \in d.in : RP!SameKey(a, b) => a = b
  BY <1>1, <1>3, EntriesAreWhole
<1>5. d.metadata # Missing /\ d.policy # "unsupported"
  BY <1>2, <1>3, GroupsAssumption DEF PolicyType
<1>6. d.functor # Missing
  <2>1. f.launch.captures \subseteq Spaces \X Pointers
    BY <1>1, <1>2 DEF GroupsAreTyped
  <2>2. FunctorAddresses(f) \in SUBSET {AllocationDataPointer(p) : p \in Pointers}
    BY <2>1 DEF FunctorAddresses
  <2> QED
    BY <1>3, <2>2, GroupsAssumption
<1>7. ASSUME d.out # Missing
      PROVE  /\ \A o \in d.out :
                  /\ ~RP!Inconsistent(o) /\ o.space = "Host"
                  /\ \E e \in d.in : RP!SameKey(e, o) /\ e.label = o.label
             /\ \A o, p \in d.out : RP!SameKey(o, p) => o = p
  <2>1. d.out = EntriesOf(f.out)
    BY <1>3, <1>7 DEF OutputOf
  <2>2. ASSUME NEW k \in DOMAIN f.out
        PROVE  \E e \in d.in : /\ RP!SameKey(e, EntryOf(k, f.out[k]))
                               /\ e.label = EntryOf(k, f.out[k]).label
    <3>1. k \in DOMAIN f.in /\ f.out[k].record = f.in[k].record
      BY <1>1 DEF OutFollowsIn
    <3>2. EntryOf(k, f.in[k]) \in d.in
      BY <1>3, <3>1 DEF EntriesOf
    <3>3. /\ RP!SameKey(EntryOf(k, f.in[k]), EntryOf(k, f.out[k]))
          /\ EntryOf(k, f.in[k]).label = EntryOf(k, f.out[k]).label
      BY <3>1 DEF RP!SameKey, EntryOf
    <3> QED
      BY <3>2, <3>3
  <2>3. \A o \in d.out : \E e \in d.in : RP!SameKey(e, o) /\ e.label = o.label
    BY <2>1, <2>2 DEF EntriesOf
  <2> QED
    BY <1>1, <2>1, <2>3, EntriesAreWhole
<1> QED
  BY <1>4, <1>5, <1>6, <1>7 DEF RP!IsComplete, d

(* No check of the replayer refuses a dump whose capture succeeded and     *)
(* skipped no input, whichever order HDF5 lists the groups in: for every   *)
(* application with one thread and any sequence of calls before.           *)
THEOREM CompleteCapturesAreAccepted ==
    ASSUME HasCompilerPlugins => Probed
    PROVE  CompositionSpec => CompleteDumpsAreAccepted
<1> DEFINE Accepts ==
      (/\ running = "replay" /\ rPc \in R!Constructing /\ rPc' = "program"
       /\ TheFile.input = "complete" /\ TheFile.output # "failed"
       /\ \A k \in DOMAIN TheFile.in : TheFile.in[k].bytes # Skipped)
      => rGuard' # R!Nobody
<1>1. CompositionInv /\ [CompositionNext]_compositionVars => [Accepts]_compositionVars
  <2> SUFFICES ASSUME CompositionInv, CompositionNext,
                      running = "replay", rPc \in R!Constructing,
                      TheFile.input = "complete", TheFile.output # "failed",
                      \A k \in DOMAIN TheFile.in : TheFile.in[k].bytes # Skipped
               PROVE  rGuard' # R!Nobody
    OBVIOUS
  <2>1. R!Next /\ LeftBehind(TheFile) /\ ReplayInv
    BY DEF CompositionNext, ApplicationStep, Exit, ReplayStep, CompositionInv
  <2>2. RP!Next \/ UNCHANGED RP!vars
    BY <2>1, SameReplayer
  <2>3. rPc \in RP!Constructing /\ R!Nobody = RP!Nobody
    BY DEF R!Constructing, RP!Constructing, R!Nobody, RP!Nobody
  <2>4. rGuard # RP!Nobody /\ ~RP!Loaded
    BY <2>1, <2>3 DEF ReplayInv, RP!GuardInv, RP!StaticsAreSet, RP!Loaded, RP!Constructing
  <2>5. PICK out \in OutputOf(TheFile) : rDump = DumpOf(TheFile, out)
    BY <2>1, <2>4 DEF LeftBehind, ReplayInv, RP!DumpIsOnDisk
  <2>6. RP!IsComplete(rDump)
    BY <2>1, <2>5, CapturedIsComplete DEF LeftBehind, Phases
  <2>7. rPending = << >>
    <3>1. ~FunctorIsUnwritten
      BY <2>1, UnwrittenHasFailed DEF LeftBehind
    <3> QED
      BY <2>1, <2>4, <3>1 DEF ReplayInv, RP!ContentsInv, RP!QueueInv
  <2>8. CASE RP!Next
    BY <2>1, <2>3, <2>6, <2>7, <2>8, ReplayerIsAssumed, RP!CompleteIsAccepted DEF ReplayInv
  <2>9. CASE UNCHANGED RP!vars
    BY <2>3, <2>4, <2>9 DEF RP!vars
  <2> QED
    BY <2>2, <2>3, <2>8, <2>9
<1> QED
  BY <1>1, CompositionInvariant, PTL DEF CompositionSpec, CompleteDumpsAreAccepted

=============================================================================
