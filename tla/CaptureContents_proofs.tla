----------------------- MODULE CaptureContents_proofs -----------------------
(***************************************************************************)
(* Proofs about what KernelCapture writes, for any number of threads,      *)
(* launches and allocations: the types of its state, and that /in is the   *)
(* memory before the dumped kernel and /out the memory after it.           *)
(* Then, for an application that launches all its kernels from one thread: *)
(* the globals that the extraction library writes without a lock           *)
(* (functor_data, policy, metadata, the registered Views) are those of the *)
(* launch that is dumped.                                                  *)
(***************************************************************************)
EXTENDS KernelCapture_proofs, AllocationHooks_proofs

-----------------------------------------------------------------------------
(* The inductive invariant.                                                *)

(* The program points at which the thread's kernel has been queued. *)
Submitted == {"endKernel"} \cup Ending

LaunchTypes ==
    /\ launches \in 0 .. MaxLaunches
    /\ launch \in [Threads -> LaunchRecords \cup {NoLaunch}]
    /\ \A t \in Threads : launch[t] = NoLaunch <=> pc[t] = "idle"
    /\ toRegister \in [Threads -> SUBSET Keys]
    /\ awaited \in [Threads -> SUBSET LaunchRecords]
    /\ pending \in SUBSET LaunchRecords

(* A launch in flight is known by its number; only a kernel that has been  *)
(* queued is pending.                                                      *)
NumbersAreUnique ==
    /\ \A t \in Threads : pc[t] # "idle" => launch[t].number <= launches
    /\ \A t, u \in Threads :
         pc[t] # "idle" /\ pc[u] # "idle" /\ launch[t].number = launch[u].number => t = u
    /\ \A l \in pending :
         /\ l.number <= launches
         /\ \A t \in Threads : pc[t] # "idle" /\ launch[t].number = l.number =>
              launch[t] = l /\ pc[t] \in Submitted

(* The allocations a launch captures stay alive while it is in flight, and *)
(* replay_functor registers Views of these.                                *)
CapturesAreLive ==
    /\ \A l \in pending : l.captures \subseteq DOMAIN activeAllocations
    /\ \A t \in Threads : pc[t] # "idle" => launch[t].captures \subseteq DOMAIN activeAllocations
    /\ \A t \in Threads : toRegister[t] # {} =>
         pc[t] = "registerViews" /\ toRegister[t] \subseteq launch[t].captures

(* Memory shows kernels that were launched, and none before it is queued. *)
MemoryIsPast ==
    /\ mem \in [DOMAIN heap -> SUBSET Nat]
    /\ \A k \in DOMAIN heap : \A n \in mem[k] : n <= launches
    /\ \A t \in Threads : pc[t] \notin Submitted \cup {"idle"} =>
         \A k \in DOMAIN heap : launch[t].number \notin mem[k]

(* A kernel that is no longer pending has written its captures, and behind *)
(* the fence of end_kernel it is not pending.                              *)
FencesWait ==
    \A t \in Threads :
        /\ pc[t] \in Submitted =>
             \/ launch[t] \in pending
             \/ \A k \in launch[t].captures : launch[t].number \in mem[k]
        /\ pc[t] = "awaitOutput" /\ launch[t] \in pending => launch[t] \in awaited[t]
        /\ pc[t] \in {"openFile", "writeOutput"} => launch[t] \notin pending

ContentsInv ==
    /\ HooksInv
    /\ LaunchTypes
    /\ NumbersAreUnique
    /\ CapturesAreLive
    /\ MemoryIsPast
    /\ FencesWait

(* Nothing has been launched or allocated at first. *)
LEMMA ContentsInvInit == Init => ContentsInv
<1> SUFFICES ASSUME Init PROVE ContentsInv
  OBVIOUS
<1>1. HooksInv
  BY HooksInvInit DEF Init
<1>2. DOMAIN heap = {} /\ DOMAIN activeAllocations = {}
  BY DEF Init, HooksInit, TrackerInit
<1>3. "idle" \notin Submitted /\ \A t \in Threads : pc[t] = "idle"
  BY DEF Init, Submitted, Ending
<1>4. LaunchTypes
  BY CaptureAssumption DEF Init, LaunchTypes
<1>5. NumbersAreUnique /\ CapturesAreLive
  BY <1>3 DEF Init, NumbersAreUnique, CapturesAreLive
<1>6. MemoryIsPast
  BY <1>2, <1>3 DEF Init, MemoryIsPast
<1>7. FencesWait
  BY <1>3 DEF Init, FencesWait
<1> QED
  BY <1>1, <1>4, <1>5, <1>6, <1>7 DEF ContentsInv

-----------------------------------------------------------------------------
(* The capture of kernels uses the allocation hooks as AllocationHooks     *)
(* describes them: a View that replay_functor registers is one of a live   *)
(* allocation.                                                             *)
LEMMA StepsAreHooksSteps ==
    ASSUME ContentsInv, [Next]_vars
    PROVE  [HooksNext]_hooksVars
<1>1. ASSUME NEW t \in Threads, Allocate(t) PROVE HooksNext
  BY <1>1 DEF Allocate, HooksNext
<1>2. ASSUME NEW t \in Threads, NEW k \in DOMAIN heap, Deallocate(t, k) PROVE HooksNext
  BY <1>2 DEF Deallocate, HooksNext
<1>3. ASSUME NEW t \in Threads, RegisterCapture(t) PROVE [HooksNext]_hooksVars
  <2>1. PICK k \in toRegister[t] :
          \/ \E offset \in 0 .. heap[k].size : RegisterView(k, offset)
          \/ UNCHANGED hooksVars
    BY <1>3 DEF RegisterCapture
  <2>2. k \in DOMAIN activeAllocations
    BY <2>1 DEF ContentsInv, CapturesAreLive, RegisterCapture
  <2>3. k \in DOMAIN heap
    BY <2>2 DEF ContentsInv, HooksInv, TableMatchesHeap
  <2> QED
    BY <2>1, <2>3 DEF HooksNext
<1>4. ASSUME NEW t \in Threads, ClearViews(t) PROVE [HooksNext]_hooksVars
  BY <1>4 DEF ClearViews, HooksNext
<1>5. ASSUME NEW t \in Threads, ThreadStep(t), ~RegisterCapture(t), ~ClearViews(t)
      PROVE  UNCHANGED hooksVars
  BY <1>5 DEF ThreadStep, CheckNextInvocation, RegisterPolicy, AllViewsRegistered, CopyFunctor,
              TakeId, CountInvocation, CallFence, TakeSnapshot, CreateFile, WriteInput,
              FinishInput, FailInput, SetPath, Submit, EndKernel, OpenFile, WriteOutput,
              FinishOutput, FailOutput, WriteUnchanged
<1>6. CASE \/ \E args \in ToolArgs : LoadTool(args)
           \/ DeviceStep
           \/ UNCHANGED vars
  BY <1>6 DEF LoadTool, DeviceStep, RunKernel, vars
<1>7. ASSUME NEW t \in Threads,
             \/ \E key \in MetadataKeys, value \in MetadataValues : AddMetadata(t, key, value)
             \/ \E mode \in Modes, label \in KernelLabels,
                   captures \in SUBSET DOMAIN activeAllocations :
                  StartLaunch(t, mode, label, captures)
      PROVE  UNCHANGED hooksVars
  BY <1>7 DEF AddMetadata, StartLaunch
<1> QED
  BY <1>1, <1>2, <1>3, <1>4, <1>5, <1>6, <1>7 DEF Next, Application

-----------------------------------------------------------------------------
(* A thread inside a launch moves on; whether its kernel has been queued   *)
(* stays as it is.                                                         *)
LEMMA MoveOnPreserves ==
    ASSUME CaptureInv, ContentsInv, HooksInv', NEW t \in Threads, NEW label \in Steps \ {"idle"},
           pc[t] # "idle", pc' = [pc EXCEPT ![t] = label],
           label \in Submitted <=> pc[t] \in Submitted,
           UNCHANGED <<launches, launch, pending, mem, heap, activeAllocations, toRegister>>,
           label = "registerViews" \/ toRegister[t] = {},
           awaited' \in [Threads -> SUBSET LaunchRecords],
           \A u \in Threads \ {t} : awaited'[u] = awaited[u],
           label = "awaitOutput" => awaited'[t] = pending,
           label \in {"openFile", "writeOutput"} => launch[t] \notin pending
    PROVE  ContentsInv'
<1>1. pc'[t] = label /\ \A u \in Threads \ {t} : pc'[u] = pc[u]
  BY DEF CaptureInv, CaptureTypes
<1>2. LaunchTypes'
  BY <1>1 DEF ContentsInv, LaunchTypes
<1>3. NumbersAreUnique'
  BY <1>1 DEF ContentsInv, NumbersAreUnique
<1>4. CapturesAreLive'
  BY <1>1 DEF ContentsInv, CapturesAreLive
<1>5. MemoryIsPast'
  BY <1>1 DEF ContentsInv, MemoryIsPast
<1>6. FencesWait'
  <2> SUFFICES ASSUME NEW u \in Threads
               PROVE  /\ pc'[u] \in Submitted =>
                           \/ launch[u] \in pending
                           \/ \A k \in launch[u].captures : launch[u].number \in mem[k]
                      /\ pc'[u] = "awaitOutput" /\ launch[u] \in pending => launch[u] \in awaited'[u]
                      /\ pc'[u] \in {"openFile", "writeOutput"} => launch[u] \notin pending
    BY DEF FencesWait
  <2>1. CASE u = t
    BY <1>1, <2>1 DEF ContentsInv, FencesWait
  <2>2. CASE u # t
    BY <1>1, <2>2 DEF ContentsInv, FencesWait
  <2> QED
    BY <2>1, <2>2
<1> QED
  BY <1>2, <1>3, <1>4, <1>5, <1>6 DEF ContentsInv

(* A thread leaves its launch. *)
LEMMA ReturnPreserves ==
    ASSUME CaptureInv, ContentsInv, HooksInv', NEW t \in Threads, Return(t),
           toRegister[t] = {},
           UNCHANGED <<launches, pending, mem, heap, activeAllocations, toRegister, awaited>>
    PROVE  ContentsInv'
<1>1. /\ pc'[t] = "idle" /\ \A u \in Threads \ {t} : pc'[u] = pc[u]
      /\ launch'[t] = NoLaunch /\ \A u \in Threads \ {t} : launch'[u] = launch[u]
      /\ launch' \in [Threads -> LaunchRecords \cup {NoLaunch}]
  BY DEF CaptureInv, CaptureTypes, Return, Goto, ContentsInv, LaunchTypes
<1>2. "idle" \notin Submitted
  BY DEF Submitted, Ending
<1>3. LaunchTypes'
  BY <1>1 DEF ContentsInv, LaunchTypes
<1>4. NumbersAreUnique'
  BY <1>1 DEF ContentsInv, NumbersAreUnique
<1>5. CapturesAreLive'
  BY <1>1 DEF ContentsInv, CapturesAreLive
<1>6. MemoryIsPast'
  BY <1>1 DEF ContentsInv, MemoryIsPast
<1>7. FencesWait'
  BY <1>1, <1>2 DEF ContentsInv, FencesWait
<1> QED
  BY <1>3, <1>4, <1>5, <1>6, <1>7 DEF ContentsInv

(* A launch gets a number that no other launch has. *)
LEMMA StartPreserves ==
    ASSUME CaptureInv, ContentsInv, HooksInv', NEW t \in Threads, NEW mode \in Modes,
           NEW label \in KernelLabels, NEW captures \in SUBSET DOMAIN activeAllocations,
           addedMetadata \in Metadata, StartLaunch(t, mode, label, captures)
    PROVE  ContentsInv'
<1> DEFINE new == [number |-> launches + 1, thread |-> t, mode |-> mode, label |-> label,
                   captures |-> captures, metadata |-> addedMetadata]
<1>1. /\ pc[t] = "idle" /\ launches < MaxLaunches /\ launches' = launches + 1
      /\ launch' = [launch EXCEPT ![t] = new]
      /\ UNCHANGED <<pending, mem, heap, activeAllocations, toRegister, awaited>>
  BY DEF StartLaunch, hooksVars, trackerVars, environmentVars
<1>2. launches \in Nat /\ launches + 1 \in 0 .. MaxLaunches
  BY <1>1, CaptureAssumption DEF ContentsInv, LaunchTypes
<1>3. /\ new \in LaunchRecords /\ new # NoLaunch
      /\ new.number = launches + 1 /\ new.captures = captures
  <2>1. mode \in LaunchModes /\ captures \in SUBSET Keys
    BY CaptureAssumption DEF ContentsInv, HooksInv, HooksTypeOK, TrackerTypeOK
  <2>2. new \in LaunchRecords
    BY <1>2, <2>1 DEF LaunchRecords
  <2> QED
    BY <2>2, MarkersAssumption
<1> HIDE DEF new
<1>4. PICK l \in Labelled : pc' = [pc EXCEPT ![t] = l]
  <2>1. mode \in {"krepe", "manual", "plain"}
    BY CaptureAssumption DEF LaunchModes
  <2> QED
    BY <2>1 DEF StartLaunch, ReplayFunctor, Labelled, Goto
<1>5. /\ pc'[t] = l /\ \A u \in Threads \ {t} : pc'[u] = pc[u]
      /\ launch'[t] = new /\ \A u \in Threads \ {t} : launch'[u] = launch[u]
      /\ launch' \in [Threads -> LaunchRecords \cup {NoLaunch}]
  BY <1>1, <1>3, <1>4 DEF CaptureInv, CaptureTypes, ContentsInv, LaunchTypes
<1>6. l # "idle" /\ l \notin Submitted
  BY DEF Labelled, Submitted, Ending
<1>7. LaunchTypes'
  BY <1>1, <1>2, <1>3, <1>5, <1>6 DEF ContentsInv, LaunchTypes
<1>8. /\ \A u \in Threads \ {t} : pc[u] # "idle" =>
           launch[u].number \in Nat /\ launch[u].number <= launches
      /\ \A m \in pending : m.number \in Nat /\ m.number <= launches
  BY DEF ContentsInv, LaunchTypes, NumbersAreUnique, LaunchRecords
<1>9. NumbersAreUnique'
  <2>1. \A u \in Threads : pc'[u] # "idle" => launch'[u].number <= launches'
    BY <1>1, <1>2, <1>3, <1>5, <1>8
  <2>2. \A u, v \in Threads :
          pc'[u] # "idle" /\ pc'[v] # "idle" /\ launch'[u].number = launch'[v].number => u = v
    BY <1>2, <1>3, <1>5, <1>8 DEF ContentsInv, NumbersAreUnique
  <2>3. \A m \in pending : m.number <= launches' /\ m.number # new.number
    BY <1>1, <1>2, <1>3, <1>8
  <2>4. \A m \in pending, u \in Threads : pc'[u] # "idle" /\ launch'[u].number = m.number =>
           launch'[u] = m /\ pc'[u] \in Submitted
    BY <1>5, <2>3 DEF ContentsInv, NumbersAreUnique
  <2> QED
    BY <1>1, <2>1, <2>2, <2>3, <2>4 DEF NumbersAreUnique
<1>10. CapturesAreLive'
  <2>1. toRegister[t] = {}
    BY <1>1 DEF ContentsInv, CapturesAreLive
  <2> QED
    BY <1>1, <1>3, <1>5, <2>1 DEF ContentsInv, CapturesAreLive
<1>11. MemoryIsPast'
  <2>1. \A k \in DOMAIN heap : \A n \in mem[k] : n \in Nat /\ n <= launches
    BY DEF ContentsInv, MemoryIsPast
  <2>2. \A k \in DOMAIN heap : \A n \in mem[k] : n <= launches + 1 /\ n # launches + 1
    BY <1>2, <2>1
  <2> QED
    BY <1>1, <1>3, <1>5, <2>2 DEF ContentsInv, MemoryIsPast
<1>12. FencesWait'
  <2>1. {"awaitOutput", "openFile", "writeOutput"} \subseteq Submitted
    BY DEF Submitted, Ending
  <2> QED
    BY <1>1, <1>5, <1>6, <2>1 DEF ContentsInv, FencesWait
<1> QED
  BY <1>7, <1>9, <1>10, <1>11, <1>12 DEF ContentsInv

(* replay_functor registers the Views of the functor. *)
LEMMA RegistersPreserve ==
    ASSUME CaptureInv, ContentsInv, HooksInv', NEW t \in Threads,
           ClearViews(t) \/ RegisterCapture(t)
    PROVE  ContentsInv'
<1>1. /\ pc[t] \in {"clearViews", "registerViews"}
      /\ pc' = [pc EXCEPT ![t] = "registerViews"]
  BY DEF ClearViews, RegisterCapture, Goto, CaptureInv, CaptureTypes
<1>2. UNCHANGED <<launches, launch, pending, mem, awaited>>
  BY DEF ClearViews, RegisterCapture, localVars, deviceVars
<1>3. UNCHANGED <<heap, activeAllocations>>
  BY DEF ClearViews, RegisterCapture, ClearRegisteredViews, ClearUsedAllocations, RegisterView,
         RecordUsedAllocation, hooksVars, trackerVars, environmentVars
<1>4. /\ pc'[t] = "registerViews" /\ \A u \in Threads \ {t} : pc'[u] = pc[u]
      /\ "registerViews" \notin Submitted /\ pc[t] \notin Submitted \cup {"idle"}
      /\ {"awaitOutput", "openFile", "writeOutput"} \subseteq Submitted
  BY <1>1 DEF CaptureInv, CaptureTypes, Submitted, Ending
<1>5. launch[t].captures \in SUBSET Keys /\ toRegister \in [Threads -> SUBSET Keys]
  <2>1. launch[t] \in LaunchRecords
    BY <1>1 DEF ContentsInv, LaunchTypes
  <2> QED
    BY <2>1 DEF LaunchRecords, ContentsInv, LaunchTypes
<1>6. /\ toRegister' \in [Threads -> SUBSET Keys]
      /\ \A u \in Threads \ {t} : toRegister'[u] = toRegister[u]
      /\ toRegister'[t] \subseteq launch[t].captures
  <2>1. CASE ClearViews(t)
    BY <1>5, <2>1 DEF ClearViews
  <2>2. CASE RegisterCapture(t)
    <3>1. PICK k \in toRegister[t] : toRegister' = [toRegister EXCEPT ![t] = @ \ {k}]
      BY <2>2 DEF RegisterCapture
    <3>2. toRegister[t] \subseteq launch[t].captures
      BY <3>1 DEF ContentsInv, CapturesAreLive
    <3> QED
      BY <1>5, <3>1, <3>2
  <2> QED
    BY <2>1, <2>2
<1>7. LaunchTypes'
  BY <1>2, <1>4, <1>6 DEF ContentsInv, LaunchTypes
<1>8. NumbersAreUnique'
  BY <1>2, <1>4 DEF ContentsInv, NumbersAreUnique
<1>9. CapturesAreLive'
  BY <1>2, <1>3, <1>4, <1>6 DEF ContentsInv, CapturesAreLive
<1>10. MemoryIsPast'
  BY <1>2, <1>3, <1>4 DEF ContentsInv, MemoryIsPast
<1>11. FencesWait'
  BY <1>2, <1>4 DEF ContentsInv, FencesWait
<1> QED
  BY <1>7, <1>8, <1>9, <1>10, <1>11 DEF ContentsInv

(* Kokkos queues the kernel. *)
LEMMA SubmitPreserves ==
    ASSUME CaptureInv, ContentsInv, HooksInv', NEW t \in Threads, Submit(t)
    PROVE  ContentsInv'
<1>1. /\ pc[t] = "submit" /\ pc' = [pc EXCEPT ![t] = "endKernel"]
      /\ pending' = pending \cup {launch[t]}
      /\ UNCHANGED <<launches, launch, mem, heap, activeAllocations, toRegister, awaited>>
  BY DEF Submit, Goto, hooksVars, trackerVars, environmentVars, localVars
<1>2. /\ pc'[t] = "endKernel" /\ \A u \in Threads \ {t} : pc'[u] = pc[u]
      /\ pc'[t] \in Submitted /\ pc[t] \notin Submitted
  BY <1>1 DEF CaptureInv, CaptureTypes, Submitted, Ending
<1>3. launch[t] \in LaunchRecords
  BY <1>1 DEF ContentsInv, LaunchTypes
<1>4. LaunchTypes'
  BY <1>1, <1>2, <1>3 DEF ContentsInv, LaunchTypes
<1>5. \A u \in Threads \ {t} : pc[u] # "idle" => launch[u].number # launch[t].number
  BY <1>1 DEF ContentsInv, NumbersAreUnique
<1>6. NumbersAreUnique'
  <2>1. \A u \in Threads : pc'[u] # "idle" <=> pc[u] # "idle"
    BY <1>1, <1>2
  <2>2. \A u \in Threads : pc'[u] # "idle" => launch'[u].number <= launches'
    BY <1>1, <2>1 DEF ContentsInv, NumbersAreUnique
  <2>3. \A u, v \in Threads :
          pc'[u] # "idle" /\ pc'[v] # "idle" /\ launch'[u].number = launch'[v].number => u = v
    BY <1>1, <2>1 DEF ContentsInv, NumbersAreUnique
  <2>4. ASSUME NEW l \in pending'
        PROVE  /\ l.number <= launches'
               /\ \A u \in Threads : pc'[u] # "idle" /\ launch'[u].number = l.number =>
                    launch'[u] = l /\ pc'[u] \in Submitted
    <3>1. CASE l = launch[t]
      BY <1>1, <1>2, <1>5, <2>1, <2>2, <3>1
    <3>2. CASE l \in pending
      BY <1>1, <1>2, <2>1, <3>2 DEF ContentsInv, NumbersAreUnique
    <3> QED
      BY <1>1, <3>1, <3>2
  <2> QED
    BY <2>2, <2>3, <2>4 DEF NumbersAreUnique
<1>7. CapturesAreLive'
  BY <1>1, <1>2 DEF ContentsInv, CapturesAreLive
<1>8. MemoryIsPast'
  BY <1>1, <1>2 DEF ContentsInv, MemoryIsPast
<1>9. FencesWait'
  <2>1. {"awaitOutput", "openFile", "writeOutput"} \subseteq Submitted
        /\ "idle" \notin Submitted
        /\ pc'[t] \notin {"awaitOutput", "openFile", "writeOutput"}
    BY <1>2 DEF Submitted, Ending
  <2>2. \A u \in Threads \ {t} : pc[u] \in Submitted => launch[u] # launch[t]
    BY <1>5, <2>1
  <2> QED
    BY <1>1, <1>2, <2>1, <2>2 DEF ContentsInv, FencesWait
<1> QED
  BY <1>4, <1>6, <1>7, <1>8, <1>9 DEF ContentsInv

(* The device runs a kernel. *)
LEMMA RunPreserves ==
    ASSUME CaptureInv, ContentsInv, HooksInv', NEW l \in pending, RunKernel(l)
    PROVE  ContentsInv'
<1>1. /\ pending' = pending \ {l}
      /\ mem' = [k \in DOMAIN mem |->
                   IF k \in l.captures THEN mem[k] \cup {l.number} ELSE mem[k]]
      /\ UNCHANGED <<launches, launch, pc, heap, activeAllocations, toRegister, awaited>>
  BY DEF RunKernel, hooksVars, trackerVars, environmentVars, localVars
<1>2. /\ l.number \in Nat /\ l.number <= launches /\ l.captures \subseteq DOMAIN heap
      /\ DOMAIN mem = DOMAIN heap
  <2>1. l \in LaunchRecords /\ l.captures \subseteq DOMAIN activeAllocations
    BY DEF ContentsInv, LaunchTypes, CapturesAreLive
  <2>2. DOMAIN activeAllocations \subseteq DOMAIN heap
    BY DEF ContentsInv, HooksInv, TableMatchesHeap
  <2> QED
    BY <2>1, <2>2 DEF LaunchRecords, ContentsInv, NumbersAreUnique, MemoryIsPast
<1>3. LaunchTypes'
  BY <1>1 DEF ContentsInv, LaunchTypes
<1>4. NumbersAreUnique'
  BY <1>1 DEF ContentsInv, NumbersAreUnique
<1>5. CapturesAreLive'
  BY <1>1 DEF ContentsInv, CapturesAreLive
<1>6. MemoryIsPast'
  <2>1. mem' \in [DOMAIN heap -> SUBSET Nat]
    BY <1>1, <1>2 DEF ContentsInv, MemoryIsPast
  <2>2. \A t \in Threads : pc[t] \notin Submitted \cup {"idle"} => launch[t].number # l.number
    BY DEF ContentsInv, NumbersAreUnique
  <2> QED
    BY <1>1, <1>2, <2>1, <2>2 DEF ContentsInv, MemoryIsPast
<1>7. FencesWait'
  <2> SUFFICES ASSUME NEW t \in Threads
               PROVE  /\ pc[t] \in Submitted =>
                           \/ launch[t] \in pending'
                           \/ \A k \in launch[t].captures : launch[t].number \in mem'[k]
                      /\ pc[t] = "awaitOutput" /\ launch[t] \in pending' => launch[t] \in awaited[t]
                      /\ pc[t] \in {"openFile", "writeOutput"} => launch[t] \notin pending'
    BY <1>1 DEF FencesWait
  <2>1. pc[t] \in Submitted => launch[t].captures \subseteq DOMAIN mem
    <3>1. "idle" \notin Submitted
      BY DEF Submitted, Ending
    <3> QED
      BY <1>2, <3>1 DEF ContentsInv, CapturesAreLive, HooksInv, TableMatchesHeap
  <2>2. CASE launch[t] = l
    BY <1>1, <2>1, <2>2 DEF ContentsInv, FencesWait
  <2>3. CASE launch[t] # l
    BY <1>1, <2>1, <2>3 DEF ContentsInv, FencesWait
  <2> QED
    BY <2>2, <2>3
<1> QED
  BY <1>3, <1>4, <1>5, <1>6, <1>7 DEF ContentsInv

(* A new allocation lies where no live one is, and nothing has written it. *)
LEMMA AllocatePreserves ==
    ASSUME CaptureInv, ContentsInv, HooksInv', NEW t \in Threads, Allocate(t)
    PROVE  ContentsInv'
<1>1. PICK space \in Spaces, label \in Labels, ptr \in Pointers, size \in Sizes,
           slack \in Slacks :
        /\ \E probed \in ProbeOutcomes[space] :
             AllocateData(space, label, ptr, size, slack, probed)
        /\ mem' = [k \in DOMAIN mem \cup {<<space, ptr>>} |->
                     IF k = <<space, ptr>> THEN {} ELSE mem[k]]
  BY DEF Allocate
<1> DEFINE new == <<space, ptr>>
<1>2. /\ IsFree(space, ptr, HeaderSize + size + slack)
      /\ DOMAIN heap' = DOMAIN heap \cup {new}
      /\ \/ activeAllocations' = activeAllocations
         \/ DOMAIN activeAllocations' = DOMAIN activeAllocations \cup {new}
  BY <1>1 DEF AllocateData, RecordAllocation, trackerVars
<1>3. new \notin DOMAIN heap
  <2>1. /\ HeaderSize \in Nat /\ HeaderSize # 0 /\ ptr \in Nat /\ size \in Nat /\ slack \in Nat
        /\ \A k \in DOMAIN heap : heap[k].usable \in Nat /\ HeaderSize + heap[k].size <= heap[k].usable
                                  /\ heap[k].size \in Nat
    BY HooksAssumption DEF ContentsInv, HooksInv, HooksTypeOK, BlocksAreLargeEnough
  <2>2. new[1] = space /\ new[2] = ptr
    OBVIOUS
  <2> QED
    BY <1>2, <2>1, <2>2 DEF IsFree
<1> HIDE DEF new
<1>4. UNCHANGED <<launches, launch, pc, pending, toRegister, awaited>>
  BY DEF Allocate, localVars
<1>5. /\ mem' \in [DOMAIN heap' -> SUBSET Nat] /\ mem'[new] = {}
      /\ \A k \in DOMAIN heap : mem'[k] = mem[k]
  BY <1>1, <1>2, <1>3 DEF ContentsInv, MemoryIsPast, new
<1>6. LaunchTypes' /\ NumbersAreUnique'
  BY <1>4 DEF ContentsInv, LaunchTypes, NumbersAreUnique
<1>7. CapturesAreLive'
  BY <1>2, <1>4 DEF ContentsInv, CapturesAreLive
<1>8. MemoryIsPast'
  BY <1>2, <1>4, <1>5 DEF ContentsInv, MemoryIsPast
<1>9. FencesWait'
  <2>1. \A u \in Threads : pc[u] \in Submitted => launch[u].captures \subseteq DOMAIN heap
    BY DEF ContentsInv, CapturesAreLive, HooksInv, TableMatchesHeap, Submitted, Ending
  <2> QED
    BY <1>4, <1>5, <2>1 DEF ContentsInv, FencesWait
<1> QED
  BY <1>6, <1>7, <1>8, <1>9 DEF ContentsInv

(* What is freed is captured by no launch in flight. *)
LEMMA DeallocatePreserves ==
    ASSUME CaptureInv, ContentsInv, HooksInv', NEW t \in Threads, NEW k \in DOMAIN heap,
           Deallocate(t, k)
    PROVE  ContentsInv'
<1>1. /\ \A l \in pending : k \notin l.captures
      /\ \A u \in Threads : pc[u] # "idle" => k \notin launch[u].captures
  BY DEF Deallocate, InFlight
<1>2. k = <<k[1], k[2]>>
  BY DEF ContentsInv, HooksInv, HooksTypeOK, Keys
<1>3. /\ DOMAIN heap' = DOMAIN heap \ {k}
      /\ DOMAIN activeAllocations' = DOMAIN activeAllocations \ {k}
      /\ mem' = [h \in DOMAIN mem \ {k} |-> mem[h]]
      /\ UNCHANGED <<launches, launch, pc, pending, toRegister, awaited>>
  BY <1>2 DEF Deallocate, DeallocateData, RecordDeallocation, localVars
<1>4. mem' \in [DOMAIN heap' -> SUBSET Nat] /\ \A h \in DOMAIN heap' : mem'[h] = mem[h]
  BY <1>3 DEF ContentsInv, MemoryIsPast
<1>5. LaunchTypes' /\ NumbersAreUnique'
  BY <1>3 DEF ContentsInv, LaunchTypes, NumbersAreUnique
<1>6. CapturesAreLive'
  BY <1>1, <1>3 DEF ContentsInv, CapturesAreLive
<1>7. MemoryIsPast'
  BY <1>3, <1>4 DEF ContentsInv, MemoryIsPast
<1>8. FencesWait'
  <2>1. \A u \in Threads : pc[u] \in Submitted => launch[u].captures \subseteq DOMAIN heap'
    BY <1>1, <1>3 DEF ContentsInv, CapturesAreLive, HooksInv, TableMatchesHeap, Submitted, Ending
  <2> QED
    BY <1>3, <1>4, <2>1 DEF ContentsInv, FencesWait
<1> QED
  BY <1>5, <1>6, <1>7, <1>8 DEF ContentsInv

-----------------------------------------------------------------------------
(* The types of the tool's options and of the globals of the extraction    *)
(* library.                                                                *)
DataTypes ==
    /\ toolLoaded \in BOOLEAN /\ hasKernelDumpTool \in {"unset", "yes", "no"}
    /\ dumpKernelLabel \in KernelLabels \cup {EmptyLabel}
    /\ functorData \in LaunchOrTorn /\ policy \in LaunchOrTorn
    /\ metadata \in Metadata /\ addedMetadata \in Metadata
    /\ dumpMutex \in SUBSET Threads

(* Every thread step keeps the invariant on contents. *)
LEMMA ThreadStepPreserves ==
    ASSUME CaptureInv, ContentsInv, HooksInv', NEW t \in Threads, ThreadStep(t)
    PROVE  ContentsInv'
<1>1. CASE \/ CheckNextInvocation(t) \/ RegisterPolicy(t) \/ AllViewsRegistered(t)
           \/ CopyFunctor(t) \/ TakeId(t) \/ CountInvocation(t)
           \/ CreateFile(t) \/ WriteInput(t) \/ FinishInput(t) \/ FailInput(t) \/ SetPath(t)
  <2>1. PICK label \in Steps \ {"idle"} :
          /\ pc' = [pc EXCEPT ![t] = label] /\ pc[t] # "idle"
          /\ label \notin Submitted /\ pc[t] \notin Submitted
          /\ label # "registerViews" /\ (pc[t] = "registerViews" => toRegister[t] = {})
    <3>1. CASE WriteInput(t)
      <4>1. pc' = [pc EXCEPT ![t] = "writeInput"] /\ pc[t] = "writeInput"
        BY <3>1 DEF WriteInput, CaptureInv, CaptureTypes
      <4> QED
        BY <4>1 DEF Steps, Tracked, Dumping, Submitted, Ending
    <3>2. CASE CountInvocation(t)
      BY <3>2 DEF CountInvocation, Goto, Steps, Tracked, Dumping, Submitted, Ending
    <3>3. CASE ~WriteInput(t) /\ ~CountInvocation(t)
      BY <1>1, <3>3 DEF CheckNextInvocation, RegisterPolicy, AllViewsRegistered, CopyFunctor,
             TakeId, CreateFile, FinishInput, FailInput, SetPath, ReplayFunctor, Goto, Steps,
             Labelled, Tracked, Dumping, Submitted, Ending
    <3> QED
      BY <3>1, <3>2, <3>3
  <2>2. UNCHANGED <<launches, launch, pending, mem, heap, activeAllocations, toRegister, awaited>>
    BY <1>1 DEF CheckNextInvocation, RegisterPolicy, AllViewsRegistered, CopyFunctor,
           TakeId, CountInvocation, CreateFile, WriteInput, FinishInput, FailInput, SetPath,
           WriteUnchanged, hooksVars, trackerVars, environmentVars, localVars, deviceVars
  <2>3. toRegister[t] = {} /\ awaited \in [Threads -> SUBSET LaunchRecords]
    BY <2>1 DEF ContentsInv, CapturesAreLive, LaunchTypes
  <2>4. label \notin {"awaitOutput", "openFile", "writeOutput"}
    BY <2>1 DEF Submitted, Ending
  <2> QED
    BY <2>1, <2>2, <2>3, <2>4, MoveOnPreserves
<1>2. CASE ClearViews(t) \/ RegisterCapture(t)
  BY <1>2, RegistersPreserve
<1>3. CASE CallFence(t) \/ TakeSnapshot(t)
  <2>1. PICK label \in Steps \ {"idle"} :
          /\ pc' = [pc EXCEPT ![t] = label]
          /\ <<pc[t], label>> \in {<<"fenceInput", "awaitInput">>, <<"fenceOutput", "awaitOutput">>,
                                   <<"awaitInput", "createFile">>, <<"awaitOutput", "openFile">>}
          /\ label = "awaitOutput" => awaited' = [awaited EXCEPT ![t] = pending]
          /\ label = "openFile" => awaited[t] \cap pending = {}
    BY <1>3 DEF CallFence, TakeSnapshot, Goto, Steps, Tracked, Dumping, Ending
  <2>2. \E S \in SUBSET pending : awaited' = [awaited EXCEPT ![t] = S]
    BY <1>3 DEF CallFence, TakeSnapshot
  <2>3. /\ awaited' \in [Threads -> SUBSET LaunchRecords]
        /\ \A u \in Threads \ {t} : awaited'[u] = awaited[u]
        /\ label = "awaitOutput" => awaited'[t] = pending
    BY <2>1, <2>2 DEF ContentsInv, LaunchTypes
  <2>4. UNCHANGED <<launches, launch, pending, mem, heap, activeAllocations, toRegister>>
    BY <1>3 DEF CallFence, TakeSnapshot, hooksVars, trackerVars, environmentVars, deviceVars
  <2>5. /\ pc[t] # "idle" /\ toRegister[t] = {}
        /\ label \in Submitted <=> pc[t] \in Submitted
        /\ label \in {"openFile", "writeOutput"} => launch[t] \notin pending
    BY <2>1 DEF ContentsInv, CapturesAreLive, FencesWait, Submitted, Ending
  <2> QED
    BY <2>1, <2>3, <2>4, <2>5, MoveOnPreserves
<1>4. CASE Submit(t)
  BY <1>4, SubmitPreserves
<1>5. CASE EndKernel(t) \/ OpenFile(t) \/ WriteOutput(t) \/ FinishOutput(t) \/ FailOutput(t)
  <2>1. UNCHANGED <<launches, pending, mem, heap, activeAllocations, toRegister, awaited>>
    BY <1>5 DEF EndKernel, OpenFile, WriteOutput, FinishOutput, FailOutput, WriteUnchanged,
                hooksVars, trackerVars, environmentVars, deviceVars
  <2>2. pc[t] \in {"endKernel", "openFile", "writeOutput"}
    BY <1>5 DEF EndKernel, OpenFile, WriteOutput, FinishOutput, FailOutput
  <2>3. toRegister[t] = {} /\ awaited \in [Threads -> SUBSET LaunchRecords]
    BY <2>2 DEF ContentsInv, CapturesAreLive, LaunchTypes
  <2>4. CASE Return(t)
    BY <2>1, <2>3, <2>4, ReturnPreserves
  <2>5. CASE ~Return(t)
    <3>1. PICK label \in {"fenceOutput", "writeOutput"} :
            /\ pc' = [pc EXCEPT ![t] = label] /\ UNCHANGED launch
            /\ label = "writeOutput" => pc[t] \in {"openFile", "writeOutput"}
      <4>1. CASE WriteOutput(t)
        BY <4>1 DEF WriteOutput, WriteUnchanged, CaptureInv, CaptureTypes
      <4>2. CASE ~WriteOutput(t)
        BY <1>5, <2>5, <4>2 DEF EndKernel, OpenFile, FinishOutput, FailOutput, Goto, WriteUnchanged
      <4> QED
        BY <4>1, <4>2
    <3>2. /\ label \in Steps \ {"idle"} /\ label \in Submitted /\ pc[t] \in Submitted
          /\ pc[t] # "idle" /\ label # "awaitOutput"
      BY <2>2 DEF Steps, Submitted, Ending
    <3>3. label \in {"openFile", "writeOutput"} => launch[t] \notin pending
      BY <3>1 DEF ContentsInv, FencesWait
    <3> QED
      BY <2>1, <2>3, <3>1, <3>2, <3>3, MoveOnPreserves
  <2> QED
    BY <2>4, <2>5
<1> QED
  BY <1>1, <1>2, <1>3, <1>4, <1>5 DEF ThreadStep

(* Every step keeps the invariant on contents. *)
LEMMA ContentsInvNext ==
    ASSUME CaptureInv, ContentsInv, DataTypes, [Next]_vars
    PROVE  ContentsInv'
<1>1. HooksInv'
  BY StepsAreHooksSteps, HooksInvNext DEF ContentsInv
<1>2. ASSUME UNCHANGED <<launches, launch, pc, pending, mem, heap, activeAllocations, toRegister,
                         awaited>>
      PROVE  ContentsInv'
  BY <1>1, <1>2 DEF ContentsInv, LaunchTypes, NumbersAreUnique, CapturesAreLive, MemoryIsPast,
                    FencesWait
<1>3. CASE \/ \E args \in ToolArgs : LoadTool(args)
           \/ \E t \in Threads, key \in MetadataKeys, value \in MetadataValues :
                AddMetadata(t, key, value)
           \/ UNCHANGED vars
  <2>1. UNCHANGED <<launches, launch, pc, pending, mem, heap, activeAllocations, toRegister,
                    awaited>>
    BY <1>3 DEF LoadTool, AddMetadata, vars, hooksVars, trackerVars, environmentVars, localVars,
                deviceVars
  <2> QED
    BY <1>2, <2>1
<1>4. ASSUME NEW t \in Threads, Allocate(t) PROVE ContentsInv'
  BY <1>1, <1>4, AllocatePreserves
<1>5. ASSUME NEW t \in Threads, NEW k \in DOMAIN heap, Deallocate(t, k) PROVE ContentsInv'
  BY <1>1, <1>5, DeallocatePreserves
<1>6. ASSUME NEW t \in Threads, NEW mode \in Modes, NEW label \in KernelLabels,
             NEW captures \in SUBSET DOMAIN activeAllocations,
             StartLaunch(t, mode, label, captures)
      PROVE  ContentsInv'
  BY <1>1, <1>6, StartPreserves DEF DataTypes
<1>7. CASE DeviceStep
  BY <1>1, <1>7, RunPreserves DEF DeviceStep
<1>8. ASSUME NEW t \in Threads, ThreadStep(t) PROVE ContentsInv'
  BY <1>1, <1>8, ThreadStepPreserves
<1> QED
  BY <1>3, <1>4, <1>5, <1>6, <1>7, <1>8 DEF Next, Application

(* kokkosp_parse_args leaves a label or the empty one. *)
LEMMA ParsedLabel ==
    ASSUME NEW args \in ToolArgs, ParseArgs(args),
           dumpKernelLabel \in KernelLabels \cup {EmptyLabel}
    PROVE  dumpKernelLabel' \in KernelLabels \cup {EmptyLabel}
<1> DEFINE at == Occurrences(args, "label")
<1>1. args \in Seq(ToolArguments)
  BY CaptureAssumption
<1>2. at \in SUBSET (1 .. Len(args)) /\ Len(args) \in Nat
  BY <1>1 DEF Occurrences
<1>3. CASE at = {}
  BY <1>3 DEF ParseArgs
<1>4. CASE at # {}
  <2>1. Max(at) \in at
    BY <1>2, <1>4, MaxOccurrence, Zenon
  <2>2. args[Max(at)] \in ToolArguments /\ args[Max(at)].option = "label"
    BY <1>1, <1>2, <2>1 DEF Occurrences
  <2>3. args[Max(at)].label \in KernelLabels \cup {EmptyLabel}
    BY <2>2 DEF ToolArguments
  <2>4. dumpKernelLabel' = args[Max(at)].label
    BY <1>4 DEF ParseArgs
  <2> QED
    BY <2>3, <2>4
<1> QED
  BY <1>3, <1>4

(* The globals have their types at first. *)
LEMMA DataTypesInit == Init => DataTypes
<1> SUFFICES ASSUME Init PROVE DataTypes
  OBVIOUS
<1>1. toolLoaded \in BOOLEAN
  BY Zenon DEF Init
<1>2. metadata \in Metadata /\ addedMetadata \in Metadata
  BY DEF Init, Metadata, NoMetadata
<1> QED
  BY <1>1, <1>2 DEF Init, DataTypes, LaunchOrTorn, NoFunctor, NoPolicy

(* And they keep them. *)
LEMMA DataTypesNext ==
    ASSUME CaptureInv, ContentsInv, DataTypes, [Next]_vars
    PROVE  DataTypes'
<1>1. BoundTool \in {"unset", "yes", "no"}
  BY DEF BoundTool, DataTypes
<1>2. \A t \in Threads : pc[t] # "idle" => launch[t].number \in Nat
  BY DEF ContentsInv, LaunchTypes, LaunchRecords
<1>3. ASSUME NEW args \in ToolArgs, LoadTool(args) PROVE DataTypes'
  <2>1. dumpKernelLabel' \in KernelLabels \cup {EmptyLabel}
    BY <1>3, ParsedLabel DEF LoadTool, DataTypes
  <2>2. toolLoaded' = TRUE /\ UNCHANGED <<hasKernelDumpTool, functorData, policy, metadata,
                                          addedMetadata, dumpMutex>>
    BY <1>3 DEF LoadTool, dataVars, fileVars, deviceVars
  <2> QED
    BY <2>1, <2>2 DEF DataTypes
<1>4. ASSUME NEW t \in Threads, NEW key \in MetadataKeys, NEW value \in MetadataValues,
             AddMetadata(t, key, value)
      PROVE  DataTypes'
  <2>1. metadata' \in Metadata /\ addedMetadata' \in Metadata
    BY <1>4 DEF AddMetadata, DataTypes, Metadata
  <2>2. hasKernelDumpTool' = BoundTool
        /\ UNCHANGED <<toolLoaded, dumpKernelLabel, functorData, policy, dumpMutex>>
    BY <1>4 DEF AddMetadata, InitInternalFunctions, fileVars
  <2> QED
    BY <1>1, <2>1, <2>2 DEF DataTypes
<1>5. ASSUME UNCHANGED <<toolLoaded, dumpKernelLabel, metadata, addedMetadata>>,
             hasKernelDumpTool' \in {hasKernelDumpTool, BoundTool},
             NEW t \in Threads,
             functorData' \in {functorData, Torn} \/ (pc[t] # "idle" /\ functorData' = launch[t].number),
             policy' \in {policy, Torn} \/ (pc[t] # "idle" /\ policy' = launch[t].number),
             dumpMutex' \in {dumpMutex, {}, {t}}
      PROVE  DataTypes'
  BY <1>1, <1>2, <1>5 DEF DataTypes, LaunchOrTorn
<1>6. ASSUME NEW t \in Threads,
             \/ Allocate(t)
             \/ \E k \in DOMAIN heap : Deallocate(t, k)
             \/ \E mode \in Modes, label \in KernelLabels,
                   captures \in SUBSET DOMAIN activeAllocations :
                  StartLaunch(t, mode, label, captures)
      PROVE  DataTypes'
  <2>1. UNCHANGED <<toolLoaded, hasKernelDumpTool, dumpKernelLabel, functorData, policy, metadata,
                    addedMetadata, dumpMutex>>
    BY <1>6 DEF Allocate, Deallocate, StartLaunch, toolVars, dataVars, fileVars
  <2> QED
    BY <2>1 DEF DataTypes
<1>7. CASE DeviceStep \/ UNCHANGED vars
  <2>1. UNCHANGED <<toolLoaded, hasKernelDumpTool, dumpKernelLabel, functorData, policy, metadata,
                    addedMetadata, dumpMutex>>
    BY <1>7 DEF DeviceStep, RunKernel, vars, toolVars, dataVars, fileVars, deviceVars
  <2> QED
    BY <2>1 DEF DataTypes
<1>8. ASSUME NEW t \in Threads,
             \/ CheckNextInvocation(t) \/ RegisterPolicy(t) \/ ClearViews(t)
             \/ RegisterCapture(t) \/ AllViewsRegistered(t) \/ CopyFunctor(t)
      PROVE  DataTypes'
  <2>1. /\ UNCHANGED <<toolLoaded, dumpKernelLabel, metadata, addedMetadata, dumpMutex>>
        /\ hasKernelDumpTool' \in {hasKernelDumpTool, BoundTool}
    BY <1>8 DEF CheckNextInvocation, RegisterPolicy, ClearViews, RegisterCapture,
          AllViewsRegistered, CopyFunctor, InitInternalFunctions, toolVars, dataVars, fileVars,
          deviceVars
  <2>2. /\ functorData' \in {functorData, Torn}
             \/ (pc[t] # "idle" /\ functorData' = launch[t].number)
        /\ policy' \in {policy, Torn} \/ (pc[t] # "idle" /\ policy' = launch[t].number)
    BY <1>8 DEF CheckNextInvocation, RegisterPolicy, ClearViews, RegisterCapture,
          AllViewsRegistered, CopyFunctor, dataVars
  <2> QED
    BY <1>5, <2>1, <2>2
<1>9. ASSUME NEW t \in Threads,
             \/ TakeId(t) \/ CountInvocation(t) \/ CallFence(t) \/ TakeSnapshot(t)
             \/ SetPath(t) \/ Submit(t) \/ EndKernel(t)
      PROVE  DataTypes'
  <2>1. UNCHANGED <<toolLoaded, hasKernelDumpTool, dumpKernelLabel, functorData, policy, metadata,
                    addedMetadata, dumpMutex>>
    BY <1>9 DEF TakeId, CountInvocation, CallFence, TakeSnapshot, SetPath, Submit, EndKernel,
                toolVars, dataVars, fileVars, deviceVars
  <2> QED
    BY <2>1 DEF DataTypes
<1>10. ASSUME NEW t \in Threads,
              \/ CreateFile(t) \/ WriteInput(t) \/ FinishInput(t) \/ FailInput(t)
              \/ OpenFile(t) \/ WriteOutput(t) \/ FinishOutput(t) \/ FailOutput(t)
       PROVE  DataTypes'
  <2>1. UNCHANGED <<toolLoaded, hasKernelDumpTool, dumpKernelLabel, functorData, policy, metadata,
                    addedMetadata>>
    BY <1>10 DEF CreateFile, WriteInput, FinishInput, FailInput, OpenFile, WriteOutput,
                 FinishOutput, FailOutput, WriteUnchanged, toolVars, dataVars, deviceVars
  <2>2. dumpMutex' \in {dumpMutex, {}, {t}}
    BY <1>10 DEF CreateFile, WriteInput, FinishInput, FailInput, OpenFile, WriteOutput,
                 FinishOutput, FailOutput
  <2> QED
    BY <2>1, <2>2 DEF DataTypes
<1> QED
  BY <1>3, <1>4, <1>6, <1>7, <1>8, <1>9, <1>10 DEF Next, Application, ThreadStep

(* Both hold throughout. *)
LEMMA ContentsInvariant == Spec => [](ContentsInv /\ DataTypes)
<1>1. CaptureInv /\ ContentsInv /\ DataTypes /\ [Next]_vars => (ContentsInv /\ DataTypes)'
  BY ContentsInvNext, DataTypesNext
<1> QED
  BY <1>1, ContentsInvInit, DataTypesInit, CaptureInvariant, PTL DEF Spec

-----------------------------------------------------------------------------
(* The files.                                                              *)

FileTyped(f) ==
    /\ f.launch \in LaunchRecords /\ f.label \in KernelLabels /\ f.invocation \in Nat
    /\ f.metadata \in Metadata /\ f.policy \in LaunchOrTorn /\ f.functor \in LaunchOrTorn
    /\ f.input \in Phases \ {"absent"} /\ f.output \in Phases
    /\ DOMAIN f.in \subseteq Keys /\ DOMAIN f.out \subseteq Keys

(* No byte of /in shows the kernel, every byte of /out that it writes does. *)
InIsTimely(f) ==
    \A k \in f.launch.captures : HasBytes(f.in, k) =>
        f.in[k].bytes # Dangling /\ f.launch.number \notin f.in[k].bytes
OutIsTimely(f) ==
    \A k \in f.launch.captures : HasBytes(f.out, k) =>
        f.out[k].bytes # Dangling /\ f.launch.number \in f.out[k].bytes

(* Without the plugins no captured allocation is missing. *)
IsDumped(f) ==
    ~HasCompilerPlugins =>
        /\ f.input = "complete" => f.launch.captures \subseteq DOMAIN f.in
        /\ f.output = "complete" => f.launch.captures \subseteq DOMAIN f.out

FileIsGood(f) == FileTyped(f) /\ InIsTimely(f) /\ OutIsTimely(f) /\ IsDumped(f)

(* What a thread has still to write, with what it has written, is all that *)
(* its launch captures.                                                    *)
TodoCovers(t) ==
    ~HasCompilerPlugins =>
        /\ pc[t] \in {"createFile", "openFile"} => launch[t].captures \subseteq DOMAIN todo[t]
        /\ pc[t] = "writeInput" =>
             launch[t].captures \subseteq DOMAIN todo[t] \cup DOMAIN files[kernelId[t]].in
        /\ pc[t] = "writeOutput" =>
             launch[t].captures \subseteq DOMAIN todo[t] \cup DOMAIN files[kernelId[t]].out

FilesInv ==
    /\ nextKernelId # 0
    /\ \A t \in Threads : pc[t] \in HasId => kernelId[t] # 0
    /\ DOMAIN todo = Threads
    /\ \A t \in Threads : DOMAIN todo[t] \subseteq Keys /\ TodoCovers(t)
    /\ \A id \in DOMAIN files : id \in Nat \ {0} /\ FileIsGood(files[id])

(* No file and nothing to write at first. *)
LEMMA FilesInvInit == Init => FilesInv
<1> SUFFICES ASSUME Init PROVE FilesInv
  OBVIOUS
<1>1. /\ DOMAIN files = {} /\ \A t \in Threads : pc[t] = "idle" /\ DOMAIN todo[t] = {}
      /\ DOMAIN todo = Threads /\ nextKernelId = 1
  BY DEF Init
<1>2. "idle" \notin HasId
  BY DEF HasId, Tracked, Dumping, Ending
<1> QED
  BY <1>1, <1>2 DEF FilesInv, TodoCovers

(* A step of thread t that writes no file. *)
LEMMA NoFileWritten ==
    ASSUME FilesInv, CaptureInv, NEW t \in Threads,
           \A u \in Threads \ {t} : /\ pc'[u] = pc[u] /\ kernelId'[u] = kernelId[u]
                                    /\ launch'[u] = launch[u] /\ todo'[u] = todo[u],
           pc'[t] \in HasId => kernelId'[t] # 0, nextKernelId' # 0,
           DOMAIN todo' = Threads, DOMAIN todo'[t] \subseteq Keys,
           pc'[t] \notin {"writeInput", "writeOutput"},
           (~HasCompilerPlugins /\ pc'[t] \in {"createFile", "openFile"}) =>
             launch'[t].captures \subseteq DOMAIN todo'[t],
           UNCHANGED files
    PROVE  FilesInv'
<1>1. \A u \in Threads : TodoCovers(u)'
  BY DEF FilesInv, TodoCovers
<1> QED
  BY <1>1 DEF FilesInv, FileIsGood, FileTyped, InIsTimely, OutIsTimely, IsDumped

(* A step of thread t that creates or writes its file, the only one. *)
LEMMA OwnFileWritten ==
    ASSUME FilesInv, CaptureInv, WritersInv, NEW t \in Threads,
           pc[t] \in {"createFile", "writeInput", "openFile", "writeOutput"},
           \A u \in Threads \ {t} : /\ pc'[u] = pc[u] /\ kernelId'[u] = kernelId[u]
                                    /\ launch'[u] = launch[u] /\ todo'[u] = todo[u],
           pc'[t] \in HasId => kernelId'[t] # 0, nextKernelId' # 0,
           DOMAIN todo' = Threads, DOMAIN todo'[t] \subseteq Keys, TodoCovers(t)',
           DOMAIN files' = {kernelId[t]}, FileIsGood(files'[kernelId[t]])
    PROVE  FilesInv'
<1>1. pc[t] \in HasId /\ kernelId[t] \in Nat \ {0}
  BY DEF HasId, Tracked, Dumping, Ending, FilesInv, CaptureInv, CaptureTypes
<1>2. \A u \in Threads \ {t} : pc[u] \notin {"writeInput", "writeOutput"}
  <2> SUFFICES ASSUME NEW u \in Threads \ {t}, pc[u] \in {"writeInput", "writeOutput"}
               PROVE  FALSE
    OBVIOUS
  <2>1. DOMAIN files = {kernelId[u]} /\ pc[u] \in HasId
    BY OwnFile DEF HasId, Tracked, Dumping, Ending
  <2>2. pc[t] # "createFile"
    BY <2>1 DEF CaptureInv, DumperIsAlone
  <2>3. DOMAIN files = {kernelId[t]}
    BY <2>2, OwnFile
  <2> QED
    BY <1>1, <2>1, <2>3 DEF CaptureInv, IdsAreUnique
<1>3. \A u \in Threads \ {t} : TodoCovers(u)'
  BY <1>2 DEF FilesInv, TodoCovers
<1>4. \A u \in Threads : pc'[u] \in HasId => kernelId'[u] # 0
  BY DEF FilesInv
<1>5. \A id \in DOMAIN files' : id \in Nat \ {0} /\ FileIsGood(files[id])'
  BY <1>1 DEF FileIsGood, FileTyped, InIsTimely, OutIsTimely, IsDumped
<1> QED
  BY <1>3, <1>4, <1>5 DEF FilesInv

(* What copy_allocation_bytes reads of a live allocation is its memory.    *)
LEMMA CopiedBytes ==
    ASSUME ContentsInv, NEW k \in DOMAIN heap, NEW record, NEW bytes \in CopyOutcomes(k, record),
           bytes # Skipped, record.size > 0
    PROVE  bytes = mem[k] /\ bytes # Dangling
<1>1. bytes = mem[k]
  BY DEF CopyOutcomes
<1>2. mem[k] \in SUBSET (0 .. MaxLaunches)
  BY CaptureAssumption DEF ContentsInv, MemoryIsPast, LaunchTypes
<1> QED
  BY <1>1, <1>2, MarkersAssumption

(* What the kernel of a thread that writes /in or /out has captured is     *)
(* alive, and shows the kernel or not.                                     *)
LEMMA CapturedMemory ==
    ASSUME CaptureInv, ContentsInv, NEW t \in Threads, NEW k \in launch[t].captures,
           pc[t] \in {"writeInput", "writeOutput"}
    PROVE  /\ k \in DOMAIN heap
           /\ pc[t] = "writeInput" => launch[t].number \notin mem[k]
           /\ pc[t] = "writeOutput" => launch[t].number \in mem[k]
<1>1. pc[t] = "writeInput" => pc[t] \notin Submitted \cup {"idle"}
  BY DEF Submitted, Ending
<1>2. pc[t] = "writeOutput" => pc[t] \in Submitted
  BY DEF Submitted, Ending
<1>3. k \in DOMAIN heap
  BY DEF ContentsInv, CapturesAreLive, HooksInv, TableMatchesHeap
<1> QED
  BY <1>1, <1>2, <1>3 DEF ContentsInv, MemoryIsPast, FencesWait

(* create_kernel_dump keeps the files good. *)
LEMMA InputKeepsFiles ==
    ASSUME CaptureInv, WritersInv, ContentsInv, DataTypes, FilesInv, NEW t \in Threads,
           CreateFile(t) \/ WriteInput(t) \/ FinishInput(t) \/ FailInput(t)
    PROVE  FilesInv'
<1> DEFINE k == kernelId[t]
<1>1. UNCHANGED <<kernelId, launch, nextKernelId>>
  BY DEF CreateFile, WriteInput, FinishInput, FailInput, WriteUnchanged, stateVars
<1>2. /\ pc \in [Threads -> Steps] /\ DOMAIN todo = Threads /\ k \in Nat
      /\ pc[t] \in {"createFile", "writeInput"} /\ nextKernelId' # 0
      /\ \A u \in Threads : DOMAIN todo[u] \subseteq Keys
  BY <1>1 DEF CreateFile, WriteInput, FinishInput, FailInput, CaptureInv, CaptureTypes, FilesInv
<1>3. k # 0 /\ launch[t] \in LaunchRecords
  BY <1>2 DEF FilesInv, HasId, Tracked, Dumping, ContentsInv, LaunchTypes
<1>4. pc[t] = "writeInput" =>
        /\ DOMAIN files = {k} /\ DOMAIN files[k] = FileFields /\ files[k].launch = launch[t]
        /\ files[k].input = "open" /\ files[k].output = "absent" /\ FileIsGood(files[k])
  BY OwnFile DEF WritersInv, KnowsItsFile, PhasesAreOrdered, CaptureInv, DumperIsAlone, FilesInv
<1>5. CASE CreateFile(t)
  <2>1. pc[t] = "createFile" /\ pc' = [pc EXCEPT ![t] = "writeInput"] /\ todo' = todo
    BY <1>5 DEF CreateFile, Goto
  <2>2. DOMAIN files = {} /\ k \in DOMAIN kernelStates
    BY <2>1 DEF CaptureInv, DumperIsAlone, KernelStatesAreExact, Tracked, Dumping
  <2>3. /\ DOMAIN files' = {k}
        /\ files'[k] = [launch |-> launch[t], label |-> launch[t].label,
                        invocation |-> kernelStates[k].invocation,
                        input |-> "open", in |-> NoGroups,
                        metadata |-> NoMetadata, policy |-> NoPolicy, functor |-> NoFunctor,
                        output |-> "absent", out |-> NoGroups]
    BY <1>5, <2>2 DEF CreateFile
  <2>4. /\ launch[t].label \in KernelLabels /\ kernelStates[k].invocation \in Nat
        /\ NoMetadata \in Metadata /\ NoPolicy \in Nat /\ NoFunctor \in Nat
        /\ DOMAIN NoGroups = {}
    BY <1>3, <2>2 DEF LaunchRecords, CaptureInv, CaptureTypes, NoMetadata, Metadata, NoPolicy,
                      NoFunctor, NoGroups
  <2>5. FileIsGood(files'[k])
    BY <1>3, <2>3, <2>4 DEF FileIsGood, FileTyped, InIsTimely, OutIsTimely, IsDumped, HasBytes,
                            Phases, LaunchOrTorn
  <2>6. TodoCovers(t)'
    <3>1. pc'[t] = "writeInput"
      BY <1>2, <2>1
    <3>2. ~HasCompilerPlugins => launch[t].captures \subseteq DOMAIN todo[t]
      BY <2>1 DEF FilesInv, TodoCovers
    <3> QED
      BY <1>1, <2>1, <3>1, <3>2 DEF TodoCovers
  <2> QED
    BY <1>1, <1>2, <1>3, <2>1, <2>3, <2>5, <2>6, OwnFileWritten
<1>6. CASE WriteInput(t)
  <2>0. PICK h \in DOMAIN todo[t] : \E bytes \in CopyOutcomes(h, todo[t][h]) :
          /\ files' = [files EXCEPT ![k].in = WriteGroup(t, files[k].in, h, bytes)]
          /\ todo' = Forget(t, h)
    BY <1>6 DEF WriteInput
  <2>1. PICK bytes \in CopyOutcomes(h, todo[t][h]) :
          /\ files' = [files EXCEPT ![k].in = WriteGroup(t, files[k].in, h, bytes)]
          /\ todo' = Forget(t, h)
    BY <2>0
  <2> DEFINE g == WriteGroup(t, files[k].in, h, bytes)
  <2>2. pc[t] = "writeInput" /\ pc' = pc
    BY <1>6 DEF WriteInput
  <2>3. /\ DOMAIN g = DOMAIN files[k].in \cup {h}
        /\ g[h].record = todo[t][h] /\ g[h].bytes = bytes
        /\ \A i \in DOMAIN files[k].in : i # h => g[i] = files[k].in[i]
    BY DEF WriteGroup
  <2>4. h \in Keys
    BY <1>2, <2>1
  <2> HIDE DEF g
  <2>5. /\ DOMAIN files' = {k} /\ files'[k].in = g
        /\ \A field \in FileFields \ {"in"} : files'[k][field] = files[k][field]
    BY <1>4, <2>1, <2>2 DEF FileFields, g
  <2>6. InIsTimely(files'[k])
    <3> SUFFICES ASSUME NEW i \in launch[t].captures, HasBytes(g, i)
                 PROVE  g[i].bytes # Dangling /\ launch[t].number \notin g[i].bytes
      BY <1>4, <2>2, <2>5 DEF InIsTimely, FileFields
    <3>1. CASE i = h
      <4>1. bytes # Skipped /\ todo[t][h].size > 0
        BY <2>3, <3>1 DEF HasBytes
      <4> QED
        BY <2>1, <2>2, <2>3, <3>1, <4>1, CapturedMemory, CopiedBytes
    <3>2. CASE i # h
      BY <1>4, <2>2, <2>3, <3>2 DEF FileIsGood, InIsTimely, HasBytes
    <3> QED
      BY <3>1, <3>2
  <2>7. FileIsGood(files'[k])
    BY <1>4, <2>2, <2>3, <2>4, <2>5, <2>6 DEF FileIsGood, FileTyped, OutIsTimely, IsDumped, FileFields
  <2>8. /\ DOMAIN todo' = Threads /\ DOMAIN todo'[t] = DOMAIN todo[t] \ {h}
        /\ \A u \in Threads \ {t} : todo'[u] = todo[u]
    BY <1>2, <2>1 DEF Forget
  <2>9. TodoCovers(t)'
    BY <1>1, <2>2, <2>3, <2>5, <2>8 DEF FilesInv, TodoCovers
  <2> QED
    BY <1>1, <1>2, <1>3, <2>2, <2>5, <2>7, <2>8, <2>9, OwnFileWritten
<1>7. CASE FinishInput(t)
  <2>1. /\ pc[t] = "writeInput" /\ DOMAIN todo[t] = {} /\ todo' = todo
        /\ pc' = [pc EXCEPT ![t] = "setPath"]
    BY <1>7 DEF FinishInput, Goto
  <2>2. /\ DOMAIN files' = {k} /\ files'[k].metadata = metadata /\ files'[k].policy = policy
        /\ files'[k].functor = functorData /\ files'[k].input = "complete"
        /\ \A field \in FileFields \ {"metadata", "policy", "functor", "input"} :
             files'[k][field] = files[k][field]
    BY <1>4, <1>7, <2>1 DEF FinishInput, FileFields
  <2>3. ~HasCompilerPlugins => launch[t].captures \subseteq DOMAIN files[k].in
    BY <2>1 DEF FilesInv, TodoCovers
  <2>4. FileTyped(files'[k])
    BY <1>4, <2>1, <2>2 DEF FileIsGood, FileTyped, FileFields, DataTypes, Phases
  <2>5. InIsTimely(files'[k]) /\ OutIsTimely(files'[k])
    BY <1>4, <2>1, <2>2 DEF FileIsGood, InIsTimely, OutIsTimely, FileFields
  <2>6. IsDumped(files'[k])
    BY <1>4, <2>1, <2>2, <2>3 DEF IsDumped, FileFields
  <2>7. TodoCovers(t)'
    BY <1>2, <2>1 DEF TodoCovers
  <2> QED
    BY <1>1, <1>2, <1>3, <2>1, <2>2, <2>4, <2>5, <2>6, <2>7, OwnFileWritten DEF FileIsGood
<1>8. CASE FailInput(t)
  <2>1. /\ pc' = [pc EXCEPT ![t] = "submit"] /\ todo' = [todo EXCEPT ![t] = NoGroups]
        /\ \/ UNCHANGED files
           \/ pc[t] = "writeInput" /\ files' = [files EXCEPT ![k].input = "failed"]
    BY <1>8 DEF FailInput, Goto
  <2>2. /\ pc'[t] = "submit" /\ DOMAIN todo' = Threads /\ DOMAIN todo'[t] = {}
        /\ \A u \in Threads \ {t} : pc'[u] = pc[u] /\ todo'[u] = todo[u]
    BY <1>2, <2>1 DEF NoGroups
  <2>3. CASE UNCHANGED files
    BY <1>1, <1>2, <1>3, <2>2, <2>3, NoFileWritten
  <2>4. CASE pc[t] = "writeInput" /\ files' = [files EXCEPT ![k].input = "failed"]
    <3>1. /\ DOMAIN files' = {k} /\ files'[k].input = "failed"
          /\ \A field \in FileFields \ {"input"} : files'[k][field] = files[k][field]
      BY <1>4, <2>4 DEF FileFields
    <3>2. FileIsGood(files'[k])
      BY <1>4, <2>4, <3>1 DEF FileIsGood, FileTyped, InIsTimely, OutIsTimely, IsDumped,
                              FileFields, Phases
    <3>3. TodoCovers(t)'
      BY <2>2 DEF TodoCovers
    <3> QED
      BY <1>1, <1>2, <1>3, <2>2, <3>1, <3>2, <3>3, OwnFileWritten
  <2> QED
    BY <2>1, <2>3, <2>4
<1> QED
  BY <1>5, <1>6, <1>7, <1>8
(* append_kernel_output keeps the files good. *)
LEMMA OutputKeepsFiles ==
    ASSUME CaptureInv, WritersInv, ContentsInv, FilesInv, NEW t \in Threads,
           OpenFile(t) \/ WriteOutput(t) \/ FinishOutput(t) \/ FailOutput(t)
    PROVE  FilesInv'
<1> DEFINE k == kernelId[t]
<1>1. /\ pc \in [Threads -> Steps] /\ DOMAIN todo = Threads /\ k \in Nat /\ nextKernelId' # 0
      /\ DOMAIN kernelId = Threads /\ DOMAIN launch = Threads
      /\ pc[t] \in {"openFile", "writeOutput"}
      /\ \A u \in Threads : DOMAIN todo[u] \subseteq Keys
  BY DEF OpenFile, WriteOutput, FinishOutput, FailOutput, WriteUnchanged, stateVars, CaptureInv,
         CaptureTypes, FilesInv
<1>2. k # 0
  BY <1>1 DEF FilesInv, HasId, Ending
<1>3. /\ DOMAIN files = {k} /\ DOMAIN files[k] = FileFields /\ files[k].launch = launch[t]
      /\ files[k].input = "complete" /\ FileIsGood(files[k])
  BY <1>1, OwnFile DEF WritersInv, KnowsItsFile, FilesInv, Ending
<1>4. CASE OpenFile(t)
  <2>1. /\ pc[t] = "openFile" /\ pc' = [pc EXCEPT ![t] = "writeOutput"]
        /\ UNCHANGED <<todo, kernelId, launch>>
        /\ files' = [files EXCEPT ![k].output = "open"]
    BY <1>4 DEF OpenFile, Goto, WriteUnchanged
  <2>2. /\ DOMAIN files' = {k} /\ files'[k].output = "open"
        /\ \A field \in FileFields \ {"output"} : files'[k][field] = files[k][field]
    BY <1>3, <2>1 DEF FileFields
  <2>3. FileIsGood(files'[k])
    BY <1>3, <2>2 DEF FileIsGood, FileTyped, InIsTimely, OutIsTimely, IsDumped, FileFields, Phases
  <2>4. TodoCovers(t)'
    <3>1. pc'[t] = "writeOutput"
      BY <1>1, <2>1
    <3>2. ~HasCompilerPlugins => launch[t].captures \subseteq DOMAIN todo[t]
      BY <2>1 DEF FilesInv, TodoCovers
    <3> QED
      BY <2>1, <3>1, <3>2 DEF TodoCovers
  <2> QED
    BY <1>1, <1>2, <2>1, <2>2, <2>3, <2>4, OwnFileWritten
<1>5. CASE WriteOutput(t)
  <2>0. PICK h \in DOMAIN todo[t] : \E bytes \in CopyOutcomes(h, todo[t][h]) :
          /\ files' = [files EXCEPT ![k].out = WriteGroup(t, files[k].out, h, bytes)]
          /\ todo' = Forget(t, h)
    BY <1>5 DEF WriteOutput
  <2>1. PICK bytes \in CopyOutcomes(h, todo[t][h]) :
          /\ files' = [files EXCEPT ![k].out = WriteGroup(t, files[k].out, h, bytes)]
          /\ todo' = Forget(t, h)
    BY <2>0
  <2> DEFINE g == WriteGroup(t, files[k].out, h, bytes)
  <2>2. pc[t] = "writeOutput" /\ UNCHANGED <<pc, kernelId, launch>>
    BY <1>5 DEF WriteOutput, WriteUnchanged
  <2>3. /\ DOMAIN g = DOMAIN files[k].out \cup {h}
        /\ g[h].record = todo[t][h] /\ g[h].bytes = bytes
        /\ \A i \in DOMAIN files[k].out : i # h => g[i] = files[k].out[i]
    BY DEF WriteGroup
  <2>4. h \in Keys
    BY <1>1, <2>1
  <2> HIDE DEF g
  <2>5. /\ DOMAIN files' = {k} /\ files'[k].out = g
        /\ \A field \in FileFields \ {"out"} : files'[k][field] = files[k][field]
    BY <1>3, <2>1 DEF FileFields, g
  <2>6. OutIsTimely(files'[k])
    <3> SUFFICES ASSUME NEW i \in launch[t].captures, HasBytes(g, i)
                 PROVE  g[i].bytes # Dangling /\ launch[t].number \in g[i].bytes
      BY <1>3, <2>5 DEF OutIsTimely, FileFields
    <3>1. CASE i = h
      <4>1. bytes # Skipped /\ todo[t][h].size > 0
        BY <2>3, <3>1 DEF HasBytes
      <4> QED
        BY <2>1, <2>2, <2>3, <3>1, <4>1, CapturedMemory, CopiedBytes
    <3>2. CASE i # h
      BY <1>3, <2>3, <3>2 DEF FileIsGood, OutIsTimely, HasBytes
    <3> QED
      BY <3>1, <3>2
  <2>7. FileIsGood(files'[k])
    BY <1>3, <2>3, <2>4, <2>5, <2>6 DEF FileIsGood, FileTyped, InIsTimely, IsDumped, FileFields
  <2>8. /\ DOMAIN todo' = Threads /\ DOMAIN todo'[t] = DOMAIN todo[t] \ {h}
        /\ \A u \in Threads \ {t} : todo'[u] = todo[u]
    BY <1>1, <2>1 DEF Forget
  <2>9. TodoCovers(t)'
    BY <2>2, <2>3, <2>5, <2>8 DEF FilesInv, TodoCovers
  <2> QED
    BY <1>1, <1>2, <2>2, <2>5, <2>7, <2>8, <2>9, OwnFileWritten
<1>6. CASE FinishOutput(t)
  <2>1. /\ pc[t] = "writeOutput" /\ DOMAIN todo[t] = {} /\ todo' = todo /\ Return(t)
        /\ files' = [files EXCEPT ![k].output = "complete"]
    BY <1>6 DEF FinishOutput
  <2>2. /\ DOMAIN files' = {k} /\ files'[k].output = "complete"
        /\ \A field \in FileFields \ {"output"} : files'[k][field] = files[k][field]
    BY <1>3, <2>1 DEF FileFields
  <2>3. ~HasCompilerPlugins => launch[t].captures \subseteq DOMAIN files[k].out
    BY <2>1 DEF FilesInv, TodoCovers
  <2>4. FileTyped(files'[k]) /\ InIsTimely(files'[k]) /\ OutIsTimely(files'[k])
    BY <1>3, <2>2 DEF FileIsGood, FileTyped, InIsTimely, OutIsTimely, FileFields, Phases
  <2>5. IsDumped(files'[k])
    BY <1>3, <2>2, <2>3 DEF FileIsGood, IsDumped, FileFields
  <2>6. /\ pc'[t] = "idle" /\ "idle" \notin HasId
        /\ \A u \in Threads \ {t} : pc'[u] = pc[u] /\ kernelId'[u] = kernelId[u] /\ launch'[u] = launch[u]
    BY <1>1, <2>1 DEF Return, Goto, HasId, Tracked, Dumping, Ending
  <2>7. TodoCovers(t)'
    BY <2>6 DEF TodoCovers
  <2> QED
    BY <1>1, <1>2, <2>1, <2>2, <2>4, <2>5, <2>6, <2>7, OwnFileWritten DEF FileIsGood
<1>7. CASE FailOutput(t)
  <2>1. /\ Return(t) /\ todo' = [todo EXCEPT ![t] = NoGroups]
        /\ \/ UNCHANGED files
           \/ files' = [files EXCEPT ![k].output = "failed"]
    BY <1>7 DEF FailOutput
  <2>2. /\ pc'[t] = "idle" /\ "idle" \notin HasId
        /\ DOMAIN todo' = Threads /\ DOMAIN todo'[t] = {}
        /\ \A u \in Threads \ {t} : /\ pc'[u] = pc[u] /\ kernelId'[u] = kernelId[u]
                                    /\ launch'[u] = launch[u] /\ todo'[u] = todo[u]
    BY <1>1, <2>1 DEF Return, Goto, HasId, Tracked, Dumping, Ending, NoGroups
  <2>3. CASE UNCHANGED files
    BY <1>1, <2>2, <2>3, NoFileWritten
  <2>4. CASE files' = [files EXCEPT ![k].output = "failed"]
    <3>1. /\ DOMAIN files' = {k} /\ files'[k].output = "failed"
          /\ \A field \in FileFields \ {"output"} : files'[k][field] = files[k][field]
      BY <1>3, <2>4 DEF FileFields
    <3>2. FileIsGood(files'[k])
      BY <1>3, <3>1 DEF FileIsGood, FileTyped, InIsTimely, OutIsTimely, IsDumped,
                        FileFields, Phases
    <3>3. TodoCovers(t)'
      BY <2>2 DEF TodoCovers
    <3> QED
      BY <1>1, <1>2, <2>2, <3>1, <3>2, <3>3, OwnFileWritten
  <2> QED
    BY <2>1, <2>3, <2>4
<1> QED
  BY <1>4, <1>5, <1>6, <1>7
(* The other steps of a thread, and the launch of a kernel. *)
LEMMA OutsideKeepsFiles ==
    ASSUME CaptureInv, ContentsInv, FilesInv, NEW t \in Threads,
           \/ \E mode \in Modes, label \in KernelLabels,
                 captures \in SUBSET DOMAIN activeAllocations :
                StartLaunch(t, mode, label, captures)
           \/ CheckNextInvocation(t) \/ RegisterPolicy(t) \/ ClearViews(t)
           \/ AllViewsRegistered(t) \/ CopyFunctor(t) \/ TakeId(t) \/ CountInvocation(t)
           \/ CallFence(t) \/ SetPath(t) \/ Submit(t) \/ EndKernel(t)
    PROVE  FilesInv'
<1>1. /\ pc \in [Threads -> Steps] /\ DOMAIN todo = Threads /\ nextKernelId \in Nat \ {0}
      /\ kernelId \in [Threads -> Nat] /\ DOMAIN launch = Threads /\ UNCHANGED <<files, todo>>
      /\ \A u \in Threads : DOMAIN todo[u] \subseteq Keys
  BY DEF CaptureInv, CaptureTypes, FilesInv, StartLaunch, CheckNextInvocation, RegisterPolicy,
         ClearViews, AllViewsRegistered, CopyFunctor, TakeId, CountInvocation, CallFence, SetPath,
         Submit, EndKernel, fileVars, localVars
<1>2. \A u \in Threads \ {t} : pc'[u] = pc[u] /\ kernelId'[u] = kernelId[u] /\ launch'[u] = launch[u]
  <2>1. CASE \E mode \in Modes, label \in KernelLabels,
                captures \in SUBSET DOMAIN activeAllocations :
               StartLaunch(t, mode, label, captures)
    BY <1>1, <2>1 DEF StartLaunch, Goto
  <2>2. CASE CheckNextInvocation(t) \/ RegisterPolicy(t) \/ ClearViews(t)
             \/ AllViewsRegistered(t) \/ CopyFunctor(t)
    BY <1>1, <2>2 DEF CheckNextInvocation, RegisterPolicy, ClearViews, AllViewsRegistered,
                      CopyFunctor, Goto, localVars
  <2>3. CASE TakeId(t) \/ CountInvocation(t) \/ CallFence(t) \/ SetPath(t) \/ Submit(t)
    BY <1>1, <2>3 DEF TakeId, CountInvocation, CallFence, SetPath, Submit, Goto, localVars
  <2>4. CASE EndKernel(t)
    BY <1>1, <2>4 DEF EndKernel, Return, Goto
  <2> QED
    BY <2>1, <2>2, <2>3, <2>4
<1>3. pc'[t] \notin {"createFile", "openFile", "writeInput", "writeOutput"}
  <2>1. CASE \E mode \in Modes, label \in KernelLabels,
                captures \in SUBSET DOMAIN activeAllocations :
               StartLaunch(t, mode, label, captures)
    <3>1. \A mode \in Modes : mode \in {"krepe", "manual", "plain"}
      BY CaptureAssumption DEF LaunchModes
    <3> QED
      BY <1>1, <2>1, <3>1 DEF StartLaunch, ReplayFunctor, Goto
  <2>2. CASE CheckNextInvocation(t) \/ RegisterPolicy(t) \/ ClearViews(t)
             \/ AllViewsRegistered(t) \/ CopyFunctor(t)
    BY <1>1, <2>2 DEF CheckNextInvocation, RegisterPolicy, ClearViews, AllViewsRegistered,
                      CopyFunctor, ReplayFunctor, Goto
  <2>3. CASE TakeId(t) \/ CountInvocation(t) \/ CallFence(t) \/ SetPath(t) \/ Submit(t)
    BY <1>1, <2>3 DEF TakeId, CountInvocation, CallFence, SetPath, Submit, Goto
  <2>4. CASE EndKernel(t)
    BY <1>1, <2>4 DEF EndKernel, Return, Goto
  <2> QED
    BY <2>1, <2>2, <2>3, <2>4
<1>4. nextKernelId' # 0 /\ (pc'[t] \in HasId => kernelId'[t] # 0)
  <2>1. CASE TakeId(t)
    BY <1>1, <2>1 DEF TakeId
  <2>2. CASE ~TakeId(t) /\ pc[t] \in HasId
    <3>1. UNCHANGED nextKernelId /\ (UNCHANGED kernelId \/ pc'[t] = "idle")
      BY <1>1, <2>2 DEF StartLaunch, CheckNextInvocation, RegisterPolicy, ClearViews,
           AllViewsRegistered, CopyFunctor, CountInvocation, CallFence, SetPath, Submit, EndKernel,
           Return, Goto, stateVars, localVars
    <3>2. "idle" \notin HasId
      BY DEF HasId, Tracked, Dumping, Ending
    <3> QED
      BY <2>2, <3>1, <3>2 DEF FilesInv
  <2>3. CASE ~TakeId(t) /\ pc[t] \notin HasId
    <3>1. \A label \in Labelled \cup {"idle"} : label \notin HasId
      BY DEF HasId, Tracked, Dumping, Ending, Labelled
    <3>2. UNCHANGED nextKernelId
      BY <2>3 DEF StartLaunch, CheckNextInvocation, RegisterPolicy, ClearViews,
           AllViewsRegistered, CopyFunctor, CountInvocation, CallFence, SetPath, Submit, EndKernel,
           stateVars
    <3>3. pc'[t] \in Labelled
      <4>1. CASE \E mode \in Modes, label \in KernelLabels,
                    captures \in SUBSET DOMAIN activeAllocations :
                   StartLaunch(t, mode, label, captures)
        <5>1. \A mode \in Modes : mode \in {"krepe", "manual", "plain"}
          BY CaptureAssumption DEF LaunchModes
        <5> QED
          BY <1>1, <4>1, <5>1 DEF StartLaunch, ReplayFunctor, Goto, Labelled
      <4>2. CASE CheckNextInvocation(t) \/ RegisterPolicy(t) \/ ClearViews(t)
                 \/ AllViewsRegistered(t) \/ CopyFunctor(t)
        BY <1>1, <4>2 DEF CheckNextInvocation, RegisterPolicy, ClearViews, AllViewsRegistered,
                          CopyFunctor, ReplayFunctor, Goto, Labelled
      <4>3. CASE CountInvocation(t) \/ CallFence(t) \/ SetPath(t) \/ Submit(t) \/ EndKernel(t)
        BY <2>3, <4>3 DEF CountInvocation, CallFence, SetPath, Submit, EndKernel, HasId, Tracked,
                          Dumping, Ending
      <4> QED
        BY <2>3, <4>1, <4>2, <4>3
    <3> QED
      BY <3>1, <3>2, <3>3 DEF FilesInv
  <2> QED
    BY <2>1, <2>2, <2>3
<1> QED
  BY <1>1, <1>2, <1>3, <1>4, NoFileWritten

(* The snapshot holds every live allocation when there are no plugins. *)
LEMMA SnapshotKeepsFiles ==
    ASSUME CaptureInv, ContentsInv, FilesInv, NEW t \in Threads, TakeSnapshot(t)
    PROVE  FilesInv'
<1>1. /\ pc \in [Threads -> Steps] /\ DOMAIN todo = Threads /\ nextKernelId # 0
      /\ UNCHANGED <<files, kernelId, launch, nextKernelId>>
      /\ todo' = [todo EXCEPT ![t] = Snapshot]
      /\ \E label \in {"createFile", "openFile"} : pc' = [pc EXCEPT ![t] = label]
      /\ pc[t] \in {"awaitInput", "awaitOutput"}
  BY DEF CaptureInv, CaptureTypes, FilesInv, TakeSnapshot, Goto, fileVars, stateVars
<1>2. /\ DOMAIN todo' = Threads /\ DOMAIN todo'[t] = SnapshotKeys
      /\ \A u \in Threads \ {t} : pc'[u] = pc[u] /\ todo'[u] = todo[u]
      /\ pc'[t] \in {"createFile", "openFile"}
  BY <1>1 DEF Snapshot
<1>3. SnapshotKeys \subseteq Keys
  BY DEF SnapshotKeys, ContentsInv, HooksInv, HooksTypeOK, TrackerTypeOK
<1>4. ~HasCompilerPlugins => launch[t].captures \subseteq SnapshotKeys
  BY <1>1 DEF SnapshotKeys, ContentsInv, CapturesAreLive
<1>5. kernelId[t] # 0
  BY <1>1 DEF FilesInv, HasId, Tracked, Dumping, Ending
<1> QED
  BY <1>1, <1>2, <1>3, <1>4, <1>5, NoFileWritten

(* Every step keeps the files good. *)
LEMMA FilesNext ==
    ASSUME CaptureInv, WritersInv, ContentsInv, DataTypes, FilesInv, [Next]_vars
    PROVE  FilesInv'
<1>1. ASSUME UNCHANGED <<files, pc, kernelId, launch, todo, nextKernelId>> PROVE FilesInv'
  BY <1>1 DEF FilesInv, TodoCovers, FileIsGood, FileTyped, InIsTimely, OutIsTimely, IsDumped
<1>2. CASE DeviceStep \/ UNCHANGED vars \/ \E args \in ToolArgs : LoadTool(args)
  <2>1. UNCHANGED <<files, pc, kernelId, launch, todo, nextKernelId>>
    BY <1>2 DEF DeviceStep, RunKernel, LoadTool, vars, fileVars, localVars, stateVars
  <2> QED
    BY <1>1, <2>1
<1>3. ASSUME NEW t \in Threads,
             \/ \E key \in MetadataKeys, value \in MetadataValues : AddMetadata(t, key, value)
             \/ Allocate(t)
             \/ \E k \in DOMAIN heap : Deallocate(t, k)
             \/ RegisterCapture(t)
      PROVE  FilesInv'
  <2>1. UNCHANGED <<files, pc, kernelId, launch, todo, nextKernelId>>
    BY <1>3 DEF AddMetadata, Allocate, Deallocate, RegisterCapture, fileVars, localVars, stateVars
  <2> QED
    BY <1>1, <2>1
<1>4. ASSUME NEW t \in Threads,
             \/ \E mode \in Modes, label \in KernelLabels,
                   captures \in SUBSET DOMAIN activeAllocations :
                  StartLaunch(t, mode, label, captures)
             \/ ThreadStep(t) /\ ~RegisterCapture(t)
      PROVE  FilesInv'
  BY <1>4, OutsideKeepsFiles, SnapshotKeepsFiles, InputKeepsFiles, OutputKeepsFiles DEF ThreadStep
<1> QED
  BY <1>2, <1>3, <1>4 DEF Next, Application

(* The files are good throughout. *)
LEMMA FilesInvariant == Spec => []FilesInv
<1>1. CaptureInv /\ WritersInv /\ ContentsInv /\ DataTypes /\ FilesInv /\ [Next]_vars => FilesInv'
  BY FilesNext
<1> QED
  BY <1>1, FilesInvInit, CaptureInvariant, WritersInvariant, ContentsInvariant, PTL DEF Spec

-----------------------------------------------------------------------------
(* For any number of threads and launches, and whichever allocations come  *)
(* and go: /in is what the dumped kernel read and /out what it left, and   *)
(* neither holds bytes of a freed allocation that the kernel captured.     *)
THEOREM DumpFramesTheKernel == Spec => []InBeforeOutAfter
<1>1. FilesInv => InBeforeOutAfter
  BY DEF FilesInv, FileIsGood, InIsTimely, OutIsTimely, InBeforeOutAfter
<1> QED
  BY <1>1, FilesInvariant, PTL

(* In a build without the compiler plugins, no allocation that the dumped  *)
(* kernel captures is missing from a complete /in or /out.                 *)
THEOREM NothingCapturedIsMissing ==
    ASSUME ~HasCompilerPlugins
    PROVE  Spec => []CapturesAreDumped
<1>1. FilesInv => CapturesAreDumped
  BY DEF FilesInv, FileIsGood, IsDumped, CapturesAreDumped
<1> QED
  BY <1>1, FilesInvariant, PTL

(* The variables of the capture tool keep their types. *)
THEOREM CaptureTypeOK == Spec => []TypeOK
<1>1. CaptureInv /\ ContentsInv /\ DataTypes /\ FilesInv => TypeOK
  <2> SUFFICES ASSUME CaptureInv, ContentsInv, DataTypes, FilesInv PROVE TypeOK
    OBVIOUS
  <2>1. \A id \in DOMAIN kernelStates : id \in Nat \ {0}
    BY DEF CaptureInv, KernelStatesAreExact, CaptureTypes, FilesInv, HasId
  <2>2. \A id \in DOMAIN files :
          /\ id \in Nat \ {0} /\ FileHeader(files[id]) \in FileTypes
          /\ DOMAIN files[id].in \subseteq Keys /\ DOMAIN files[id].out \subseteq Keys
    BY DEF FilesInv, FileIsGood, FileTyped, FileHeader, FileTypes
  <2>3. launches \in Nat
    BY CaptureAssumption DEF ContentsInv, LaunchTypes
  <2>4. HooksTypeOK /\ mem \in [DOMAIN heap -> SUBSET Nat]
    BY DEF ContentsInv, HooksInv, MemoryIsPast
  <2>5. toolLoaded \in BOOLEAN
    BY Zenon DEF DataTypes
  <2> QED
    BY <2>1, <2>2, <2>3, <2>4, <2>5
       DEF TypeOK, CaptureInv, CaptureTypes, ContentsInv, LaunchTypes, DataTypes, FilesInv
<1> QED
  BY <1>1, CaptureInvariant, ContentsInvariant, FilesInvariant, PTL

-----------------------------------------------------------------------------
(* One launching thread.                                                   *)

OneThread == \A t, u \in Threads : t = u

(* The inductive invariant. *)

(* begin_kernel will dump the launch, if no other one comes before it. *)
WillDump(l) == ShouldDump(l.label, kernelInvocations[l.label] + 1)

InReplayFunctor == {"clearViews", "registerViews", "resizeFunctor", "fillFunctor"}
Counting == {"takeId", "countInvocation"}
BeforeInput == Dumping \ {"setPath"}

(* The program points behind register_bounds and before the dump. *)
PolicyInUse == {"policyAssigned"} \cup InReplayFunctor \cup Counting

(* An application that has not called krepe:: before it loaded the tool. *)
Bound == hasKernelDumpTool # "no"

(* What the globals hold when thread t is at its program point. *)
GlobalsDescribe(t) ==
    LET l == launch[t]
    IN  /\ pc[t] # "idle" => l.metadata = addedMetadata
        /\ pc[t] \in {"check", "registerPolicy", "policyAssigned"} => l.mode = "krepe"
        /\ pc[t] \in InReplayFunctor => l.mode # "plain"
        /\ pc[t] \in {"registerPolicy", "policyAssigned"} => WillDump(l)
        /\ pc[t] \in InReplayFunctor /\ l.mode = "krepe" => WillDump(l) /\ policy = l.number
        /\ Bound /\ pc[t] \in Counting /\ WillDump(l) =>
             /\ l.mode # "plain" => functorData = l.number
             /\ l.mode = "krepe" => policy = l.number
        /\ Bound /\ pc[t] \in BeforeInput =>
             /\ l.mode # "plain" => functorData = l.number
             /\ policy = IF l.mode = "krepe" THEN l.number ELSE NoPolicy

(* A policy is registered only for the launch that will be dumped, and no  *)
(* dump follows that one.                                                  *)
PolicyIsOfTheDump ==
    policy # NoPolicy =>
        /\ toolLoaded
        /\ \/ RequestIsPast
           \/ \E t \in Threads : /\ pc[t] \in PolicyInUse
                                 /\ launch[t].mode = "krepe" /\ WillDump(launch[t])

Described(f) ==
    f.input = "complete" /\ Bound =>
        /\ f.metadata = f.launch.metadata
        /\ f.launch.mode # "plain" => f.functor = f.launch.number
        /\ f.policy = IF f.launch.mode = "krepe" THEN f.launch.number ELSE NoPolicy

DescribeInv ==
    /\ Bound => metadata = addedMetadata
    /\ \A t \in Threads : GlobalsDescribe(t)
    /\ PolicyIsOfTheDump
    /\ \A id \in DOMAIN files : Described(files[id])
-----------------------------------------------------------------------------
(* The registered Views, in a build with the plugins.                      *)

(* Every header can be told from data: the bounds of each block are known. *)
Probed == \A space \in Spaces : ProbeOutcomes[space] \subseteq {TRUE}

SizesAreKnown == \A k \in DOMAIN activeAllocations : activeAllocations[k].dataSizeKnown

(* The registered Views are those of the launch at hand. *)
ViewsAreOf(l) == views = l.captures /\ ~foreign

ViewsDescribe(t) ==
    LET l == launch[t]
    IN  Bound =>
        /\ pc[t] = "registerViews" =>
             /\ views \subseteq l.captures /\ ~foreign
             /\ l.captures \subseteq views \cup toRegister[t]
        /\ pc[t] \in {"resizeFunctor", "fillFunctor"} => ViewsAreOf(l)
        /\ pc[t] \in Counting /\ l.mode # "plain" /\ WillDump(l) => ViewsAreOf(l)
        /\ pc[t] \in {"fenceInput", "awaitInput"} /\ l.mode # "plain" => ViewsAreOf(l)
        /\ pc[t] = "createFile" /\ l.mode # "plain" => DOMAIN todo[t] = l.captures
        /\ pc[t] = "writeInput" /\ l.mode # "plain" =>
             DOMAIN todo[t] \cup DOMAIN files[kernelId[t]].in = l.captures

HoldsCaptures(f) ==
    f.input = "complete" /\ Bound /\ f.launch.mode # "plain" => DOMAIN f.in = f.launch.captures

ViewsInv ==
    /\ SizesAreKnown
    /\ \A t \in Threads : ViewsDescribe(t)
    /\ \A id \in DOMAIN files : HoldsCaptures(files[id])
-----------------------------------------------------------------------------
(* The globals describe the launch.                                        *)

(* Nothing has been launched or registered at first. *)
LEMMA DescribeInit == Init => DescribeInv
<1> SUFFICES ASSUME Init PROVE DescribeInv
  OBVIOUS
<1>1. /\ DOMAIN files = {} /\ policy = NoPolicy /\ metadata = addedMetadata
      /\ \A t \in Threads : pc[t] = "idle"
  BY DEF Init
<1>2. "idle" \notin InReplayFunctor \cup Counting \cup BeforeInput
  BY DEF InReplayFunctor, Counting, BeforeInput, Dumping
<1> QED
  BY <1>1, <1>2 DEF DescribeInv, GlobalsDescribe, PolicyIsOfTheDump

(* The only thread. *)
LEMMA TheThread ==
    ASSUME OneThread, NEW t \in Threads
    PROVE  Threads = {t}
  BY DEF OneThread

describeVars == <<pc, launch, policy, functorData, metadata, addedMetadata, hasKernelDumpTool,
                  toolLoaded, kernelInvocations, dumpKernelLabel, dumpKernelInvocation>>

(* Steps that touch neither the globals nor the program points. *)
LEMMA DescribeFrame ==
    ASSUME DescribeInv, UNCHANGED <<describeVars, files>>
    PROVE  DescribeInv'
  BY DEF DescribeInv, describeVars, GlobalsDescribe, PolicyIsOfTheDump, Described, Bound, WillDump,
         ShouldDump, RequestIsPast

(* A file is described as before, or not complete. *)
FilesAsDescribed ==
    \A id \in DOMAIN files' :
        \/ files'[id].input # "complete"
        \/ /\ id \in DOMAIN files /\ files[id].input = "complete"
           /\ files'[id].launch = files[id].launch /\ files'[id].metadata = files[id].metadata
           /\ files'[id].policy = files[id].policy /\ files'[id].functor = files[id].functor
           /\ files'[id].in = files[id].in

(* The tool is bound when the thread is in a launch, for good. *)
LEMMA Binding ==
    ASSUME CaptureInv, DataTypes, NEW t \in Threads, pc[t] # "idle"
    PROVE  /\ BoundTool \in {"yes", "no"}
           /\ Bound <=> BoundTool = "yes"
           /\ toolLoaded
<1>1. toolLoaded
  BY DEF CaptureInv, NothingBeforeLoad
<1> QED
  BY <1>1 DEF BoundTool, Bound, DataTypes

(* The application between its launches. *)
LEMMA ApplicationDescribes ==
    ASSUME OneThread, CaptureInv, ContentsInv, DataTypes, DescribeInv, Application
    PROVE  DescribeInv'
<1>1. ASSUME NEW args \in ToolArgs, LoadTool(args) PROVE DescribeInv'
  <2>1. /\ DOMAIN files = {} /\ \A t \in Threads : pc[t] = "idle"
        /\ policy = NoPolicy
        /\ UNCHANGED <<files, pc, policy, metadata, addedMetadata, hasKernelDumpTool>>
    BY <1>1 DEF LoadTool, CaptureInv, NothingBeforeLoad, DescribeInv, PolicyIsOfTheDump, dataVars,
                fileVars, deviceVars
  <2>2. "idle" \notin InReplayFunctor \cup Counting \cup BeforeInput
    BY DEF InReplayFunctor, Counting, BeforeInput, Dumping
  <2> QED
    BY <2>1, <2>2 DEF DescribeInv, GlobalsDescribe, PolicyIsOfTheDump, Bound
<1>2. ASSUME NEW t \in Threads, NEW key \in MetadataKeys, NEW value \in MetadataValues,
             AddMetadata(t, key, value)
      PROVE  DescribeInv'
  <2>1. /\ Threads = {t} /\ pc[t] = "idle" /\ hasKernelDumpTool' = BoundTool
        /\ metadata' = IF BoundTool = "yes" THEN [metadata EXCEPT ![key] = value] ELSE metadata
        /\ addedMetadata' = [addedMetadata EXCEPT ![key] = value]
        /\ UNCHANGED <<toolLoaded, dumpKernelLabel, dumpKernelInvocation, kernelInvocations,
                       functorData, policy, files, pc, launch>>
    BY <1>2, TheThread DEF AddMetadata, InitInternalFunctions, stateVars, fileVars, localVars
  <2>2. "idle" \notin InReplayFunctor \cup Counting \cup BeforeInput
    BY DEF InReplayFunctor, Counting, BeforeInput, Dumping
  <2>3. BoundTool \in {"yes", "no"} /\ (Bound' => Bound /\ BoundTool = "yes")
    BY <2>1 DEF BoundTool, Bound, DataTypes
  <2>4. Bound' => metadata' = addedMetadata'
    BY <2>1, <2>3 DEF DescribeInv
  <2>5. \A u \in Threads : GlobalsDescribe(u)'
    BY <2>1, <2>2 DEF GlobalsDescribe
  <2>6. PolicyIsOfTheDump'
    BY <2>1 DEF DescribeInv, PolicyIsOfTheDump, RequestIsPast, WillDump, ShouldDump
  <2>7. \A id \in DOMAIN files' : Described(files[id])'
    BY <2>1, <2>3 DEF DescribeInv, Described
  <2> QED
    BY <2>4, <2>5, <2>6, <2>7 DEF DescribeInv
<1>3. ASSUME NEW t \in Threads, Allocate(t) \/ \E k \in DOMAIN heap : Deallocate(t, k)
      PROVE  DescribeInv'
  <2>1. UNCHANGED <<describeVars, files>>
    BY <1>3 DEF Allocate, Deallocate, describeVars, toolVars, stateVars, dataVars, fileVars,
                localVars
  <2> QED
    BY <2>1, DescribeFrame
<1>4. ASSUME NEW t \in Threads, NEW mode \in Modes, NEW label \in KernelLabels,
             NEW captures \in SUBSET DOMAIN activeAllocations,
             StartLaunch(t, mode, label, captures)
      PROVE  DescribeInv'
  <2> DEFINE l == [number |-> launches + 1, thread |-> t, mode |-> mode, label |-> label,
                   captures |-> captures, metadata |-> addedMetadata]
  <2>1. /\ Threads = {t} /\ pc[t] = "idle" /\ launch' = [launch EXCEPT ![t] = l]
        /\ UNCHANGED <<toolLoaded, hasKernelDumpTool, dumpKernelLabel, dumpKernelInvocation,
                       kernelInvocations, metadata, addedMetadata, functorData, policy, files>>
    BY <1>4, TheThread DEF StartLaunch, toolVars, stateVars, dataVars, fileVars
  <2>2. mode \in {"krepe", "manual", "plain"}
    BY CaptureAssumption DEF LaunchModes
  <2>3. /\ DOMAIN launch = Threads /\ DOMAIN pc = Threads
        /\ launch'[t].mode = mode /\ launch'[t].metadata = addedMetadata
    BY <2>1 DEF CaptureInv, CaptureTypes
  <2>4. /\ mode = "krepe" => pc'[t] = "check"
        /\ mode = "manual" => pc'[t] = ReplayFunctor
        /\ mode = "plain" => pc'[t] = "takeId"
    BY <1>4, <2>3 DEF StartLaunch, Goto
  <2>5. GlobalsDescribe(t)'
    BY <2>1, <2>2, <2>3, <2>4 DEF GlobalsDescribe, ReplayFunctor, InReplayFunctor, Counting, BeforeInput,
                            Dumping
  <2>6. PolicyIsOfTheDump'
    <3>1. policy # NoPolicy => RequestIsPast /\ toolLoaded
      BY <2>1 DEF DescribeInv, PolicyIsOfTheDump, PolicyInUse, InReplayFunctor, Counting
    <3> QED
      BY <2>1, <3>1 DEF PolicyIsOfTheDump, RequestIsPast
  <2>7. \A id \in DOMAIN files' : Described(files[id])'
    BY <2>1 DEF DescribeInv, Described, Bound
  <2> QED
    BY <2>1, <2>5, <2>6, <2>7 DEF DescribeInv, Bound
<1> QED
  BY <1>1, <1>2, <1>3, <1>4 DEF Application

(* krepe::parallel_for and replay_functor. *)
LEMMA WrapperDescribes ==
    ASSUME OneThread, CaptureInv, ContentsInv, DataTypes, DescribeInv, NEW t \in Threads,
           \/ CheckNextInvocation(t) \/ RegisterPolicy(t) \/ ClearViews(t)
           \/ AllViewsRegistered(t) \/ CopyFunctor(t)
    PROVE  DescribeInv'
<1>1. /\ Threads = {t} /\ pc[t] # "idle"
      /\ UNCHANGED <<toolLoaded, dumpKernelLabel, dumpKernelInvocation, kernelInvocations, metadata,
                     addedMetadata, files, launch>>
      /\ hasKernelDumpTool' \in {hasKernelDumpTool, BoundTool}
  BY TheThread DEF CheckNextInvocation, RegisterPolicy, ClearViews, AllViewsRegistered, CopyFunctor,
        InitInternalFunctions, toolVars, stateVars, dataVars, fileVars, localVars, deviceVars
<1>2. /\ BoundTool \in {"yes", "no"} /\ (Bound <=> BoundTool = "yes") /\ toolLoaded
      /\ (Bound' <=> Bound)
  <2>1. BoundTool \in {"yes", "no"} /\ (Bound <=> BoundTool = "yes") /\ toolLoaded
    BY <1>1, Binding
  <2> QED
    BY <1>1, <2>1 DEF Bound
<1>3. /\ \A u \in Threads : Threads = {u} => u = t
      /\ pc \in [Threads -> Steps] /\ GlobalsDescribe(t) /\ PolicyIsOfTheDump
      /\ launch[t].mode \in {"krepe", "manual", "plain"}
  <2>1. launch[t] \in LaunchRecords
    BY <1>1 DEF ContentsInv, LaunchTypes
  <2> QED
    BY <2>1 DEF CaptureInv, CaptureTypes, DescribeInv, LaunchRecords, LaunchModes
<1>4. \A id \in DOMAIN files' : Described(files[id])'
  BY <1>1, <1>2 DEF DescribeInv, Described
<1>5. Bound' => metadata' = addedMetadata'
  BY <1>1, <1>2 DEF DescribeInv
<1>6. WillDump(launch[t])' <=> WillDump(launch[t])
  BY <1>1 DEF WillDump, ShouldDump
<1>7. GlobalsDescribe(t)' /\ PolicyIsOfTheDump'
  <2>1. CASE CheckNextInvocation(t)
    <3>1. /\ pc[t] = "check" /\ UNCHANGED <<policy, functorData>>
          /\ pc'[t] = IF BoundTool = "yes" /\ WillDump(launch[t]) THEN "registerPolicy" ELSE "takeId"
      BY <1>3, <2>1 DEF CheckNextInvocation, Goto, WillDump, dataVars
    <3>2. GlobalsDescribe(t)'
      BY <1>1, <1>2, <1>3, <1>6, <3>1 DEF GlobalsDescribe, InReplayFunctor, Counting, BeforeInput, Dumping
    <3>3. policy # NoPolicy => RequestIsPast
      BY <1>1, <1>3, <3>1 DEF PolicyIsOfTheDump, PolicyInUse, InReplayFunctor, Counting
    <3>4. PolicyIsOfTheDump'
      BY <1>1, <1>2, <3>1, <3>3 DEF PolicyIsOfTheDump, RequestIsPast
    <3> QED
      BY <3>2, <3>4
  <2>2. CASE RegisterPolicy(t)
    <3>1. /\ \/ pc[t] = "registerPolicy" /\ pc'[t] = "policyAssigned"
             \/ pc[t] = "policyAssigned" /\ policy' = launch[t].number /\ pc'[t] = ReplayFunctor
          /\ UNCHANGED functorData
      BY <1>3, <2>2 DEF RegisterPolicy, Goto
    <3>2. /\ ReplayFunctor \in {"clearViews", "resizeFunctor"}
          /\ launch[t].mode = "krepe" /\ WillDump(launch[t])
      BY <1>3, <3>1 DEF ReplayFunctor, GlobalsDescribe
    <3>3. GlobalsDescribe(t)'
      BY <1>1, <1>3, <1>6, <3>1, <3>2 DEF GlobalsDescribe, InReplayFunctor, Counting, BeforeInput, Dumping
    <3>4. PolicyIsOfTheDump'
      BY <1>1, <1>2, <1>6, <3>1, <3>2 DEF PolicyIsOfTheDump, PolicyInUse, InReplayFunctor
    <3> QED
      BY <3>3, <3>4
  <2>3. CASE ClearViews(t) \/ AllViewsRegistered(t) \/ CopyFunctor(t)
    <3>1. /\ \/ pc[t] \in {"clearViews", "registerViews", "resizeFunctor"}
                  /\ pc'[t] \in {"registerViews", "resizeFunctor", "fillFunctor"}
             \/ pc[t] = "fillFunctor" /\ pc'[t] = "takeId"
                  /\ functorData' = IF BoundTool = "yes" THEN launch[t].number ELSE functorData
          /\ UNCHANGED policy
      BY <1>3, <2>3 DEF ClearViews, AllViewsRegistered, CopyFunctor, Goto, dataVars
    <3>2. GlobalsDescribe(t)'
      BY <1>1, <1>2, <1>3, <1>6, <3>1
         DEF GlobalsDescribe, InReplayFunctor, Counting, BeforeInput, Dumping
    <3>3. PolicyIsOfTheDump'
      <4>1. pc'[t] \in PolicyInUse
        BY <3>1 DEF PolicyInUse, InReplayFunctor, Counting
      <4>2. UNCHANGED RequestIsPast
        BY <1>1 DEF RequestIsPast
      <4> QED
        BY <1>1, <1>2, <1>3, <1>6, <3>1, <4>1, <4>2 DEF PolicyIsOfTheDump
    <3> QED
      BY <3>2, <3>3
  <2> QED
    BY <2>1, <2>2, <2>3
<1> QED
  BY <1>1, <1>4, <1>5, <1>7 DEF DescribeInv

(* begin_kernel up to the first fence. *)
LEMMA CountingDescribes ==
    ASSUME OneThread, CaptureInv, ContentsInv, DataTypes, DescribeInv, NEW t \in Threads,
           TakeId(t) \/ CountInvocation(t)
    PROVE  DescribeInv'
<1> DEFINE l == launch[t]
<1>1. /\ Threads = {t} /\ pc[t] \in Counting /\ pc[t] # "idle"
      /\ UNCHANGED <<toolLoaded, hasKernelDumpTool, dumpKernelLabel, dumpKernelInvocation, metadata,
                     addedMetadata, files, launch, policy, functorData>>
  BY TheThread DEF TakeId, CountInvocation, toolVars, dataVars, fileVars, localVars, deviceVars,
                   Counting
<1>2. /\ pc \in [Threads -> Steps] /\ GlobalsDescribe(t) /\ PolicyIsOfTheDump
      /\ kernelInvocations \in [KernelLabels -> Nat] /\ l.label \in KernelLabels
      /\ dumpKernelInvocation \in Nat
  BY <1>1 DEF CaptureInv, CaptureTypes, DescribeInv
<1>3. \A id \in DOMAIN files' : Described(files[id])'
  BY <1>1 DEF DescribeInv, Described, Bound
<1>4. Bound' => metadata' = addedMetadata'
  BY <1>1 DEF DescribeInv, Bound
<1>5. GlobalsDescribe(t)' /\ PolicyIsOfTheDump'
  <2>1. CASE TakeId(t)
    <3>1. pc[t] = "takeId" /\ pc'[t] = "countInvocation" /\ kernelInvocations' = kernelInvocations
      BY <1>2, <2>1 DEF TakeId, Goto
    <3>2. WillDump(l)' <=> WillDump(l)
      BY <1>1, <3>1 DEF WillDump, ShouldDump
    <3>3. GlobalsDescribe(t)'
      BY <1>1, <1>2, <3>1, <3>2 DEF GlobalsDescribe, Bound, InReplayFunctor, Counting, BeforeInput,
                                    Dumping
    <3>4. PolicyIsOfTheDump'
      <4>1. pc'[t] \in PolicyInUse
        BY <3>1 DEF PolicyInUse, Counting
      <4>2. UNCHANGED RequestIsPast
        BY <1>1, <3>1 DEF RequestIsPast
      <4> QED
        BY <1>1, <1>2, <3>2, <4>1, <4>2 DEF PolicyIsOfTheDump
    <3> QED
      BY <3>3, <3>4
  <2>2. CASE CountInvocation(t)
    <3>1. /\ pc'[t] = IF WillDump(l) THEN "fenceInput" ELSE "submit"
          /\ kernelInvocations' = [kernelInvocations EXCEPT ![l.label] = kernelInvocations[l.label] + 1]
          /\ pc[t] = "countInvocation"
      BY <1>2, <2>2 DEF CountInvocation, Goto, WillDump
    <3>2. WillDump(l) => ~RequestIsPast /\ RequestIsPast'
      BY <1>1, <1>2, <3>1 DEF WillDump, ShouldDump, RequestIsPast
    <3>3. RequestIsPast => RequestIsPast'
      BY <1>1, <1>2, <3>1 DEF RequestIsPast
    <3>4. policy # NoPolicy => toolLoaded /\ (RequestIsPast \/ (l.mode = "krepe" /\ WillDump(l)))
      BY <1>1, <1>2 DEF PolicyIsOfTheDump
    <3>5. GlobalsDescribe(t)'
      <4>1. l.mode # "krepe" /\ WillDump(l) => policy = NoPolicy
        BY <3>2, <3>4
      <4>2. pc'[t] = "submit" \/ (pc'[t] = "fenceInput" /\ WillDump(l))
        BY <3>1
      <4> QED
        BY <1>1, <1>2, <4>1, <4>2 DEF GlobalsDescribe, Bound, InReplayFunctor, Counting,
                                      BeforeInput, Dumping
    <3>6. PolicyIsOfTheDump'
      <4>1. policy # NoPolicy => toolLoaded /\ RequestIsPast'
        BY <3>2, <3>3, <3>4
      <4> QED
        BY <1>1, <4>1 DEF PolicyIsOfTheDump
    <3> QED
      BY <3>5, <3>6
  <2> QED
    BY <2>1, <2>2
<1> QED
  BY <1>1, <1>3, <1>4, <1>5 DEF DescribeInv

(* The rest of begin_kernel and end_kernel, in which a dump is written. *)
LEMMA HooksDescribe ==
    ASSUME OneThread, CaptureInv, DescribeInv, NEW t \in Threads, pc \in [Threads -> Steps],
           pc[t] \in Tracked \cup Ending,
           pc'[t] \in {"idle", "setPath", "submit", "endKernel"} \cup Ending
             \/ (pc[t] \in BeforeInput /\ pc'[t] \in BeforeInput),
           launch' = launch \/ pc'[t] = "idle",
           UNCHANGED <<toolLoaded, hasKernelDumpTool, dumpKernelLabel, dumpKernelInvocation,
                       kernelInvocations, metadata, addedMetadata, policy, functorData>>,
           \A id \in DOMAIN files' : Described(files[id])'
    PROVE  DescribeInv'
<1>1. Threads = {t} /\ GlobalsDescribe(t) /\ PolicyIsOfTheDump
  BY TheThread DEF DescribeInv
<1>2. pc[t] \notin PolicyInUse /\ pc[t] # "idle"
  BY DEF PolicyInUse, InReplayFunctor, Counting, Tracked, Dumping, Ending
<1>3. GlobalsDescribe(t)'
  <2>1. CASE pc'[t] = "idle"
    BY <2>1 DEF GlobalsDescribe, InReplayFunctor, Counting, BeforeInput, Dumping
  <2>2. CASE pc'[t] \in {"setPath", "submit", "endKernel"} \cup Ending /\ launch' = launch
    BY <1>1, <1>2, <2>2 DEF GlobalsDescribe, InReplayFunctor, Counting, BeforeInput, Dumping, Ending
  <2>3. CASE pc[t] \in BeforeInput /\ pc'[t] \in BeforeInput /\ launch' = launch
    BY <1>1, <1>2, <2>3 DEF GlobalsDescribe, Bound, InReplayFunctor, Counting, BeforeInput, Dumping
  <2> QED
    BY <2>1, <2>2, <2>3
<1>4. PolicyIsOfTheDump'
  BY <1>1, <1>2 DEF PolicyIsOfTheDump, RequestIsPast
<1> QED
  BY <1>1, <1>3, <1>4 DEF DescribeInv, Bound

(* Only the end of create_kernel_dump completes /in, and nothing but the   *)
(* /out of a complete file changes afterwards.                             *)
LEMMA OnlyFinishCompletes ==
    ASSUME CaptureInv, WritersInv, NEW t \in Threads,
           \/ CallFence(t) \/ TakeSnapshot(t) \/ SetPath(t) \/ Submit(t) \/ EndKernel(t)
           \/ CreateFile(t) \/ WriteInput(t) \/ FailInput(t)
           \/ OpenFile(t) \/ WriteOutput(t) \/ FinishOutput(t) \/ FailOutput(t)
    PROVE  FilesAsDescribed
<1> DEFINE k == kernelId[t]
<1>1. pc[t] \in {"writeInput", "openFile", "writeOutput"} =>
        DOMAIN files = {k} /\ DOMAIN files[k] = FileFields
  BY OwnFile
<1>2. CASE UNCHANGED files
  BY <1>2 DEF FilesAsDescribed
<1>3. CASE CreateFile(t)
  <2>1. DOMAIN files' = {k} /\ files'[k].input = "open"
    BY <1>3 DEF CreateFile, CaptureInv, DumperIsAlone
  <2> QED
    BY <2>1 DEF FilesAsDescribed
<1>4. CASE WriteInput(t)
  <2>1. PICK g : files' = [files EXCEPT ![k].in = g]
    BY <1>4 DEF WriteInput
  <2>2. /\ DOMAIN files' = {k} /\ files'[k].input = files[k].input /\ files[k].input = "open"
    BY <1>1, <1>4, <2>1 DEF WriteInput, FileFields, WritersInv, KnowsItsFile
  <2> QED
    BY <2>2 DEF FilesAsDescribed
<1>5. CASE FailInput(t) /\ ~UNCHANGED files
  <2>1. DOMAIN files' = {k} /\ files'[k].input = "failed"
    BY <1>1, <1>5 DEF FailInput, FileFields
  <2> QED
    BY <2>1 DEF FilesAsDescribed
<1>6. CASE /\ OpenFile(t) \/ WriteOutput(t) \/ FinishOutput(t) \/ FailOutput(t)
           /\ ~UNCHANGED files
  <2>1. /\ DOMAIN files' = {k}
        /\ \A field \in FileFields \ {"out", "output"} : files'[k][field] = files[k][field]
    <3>1. pc[t] \in {"openFile", "writeOutput"}
      BY <1>6 DEF OpenFile, WriteOutput, FinishOutput, FailOutput
    <3>2. CASE WriteOutput(t)
      <4>1. PICK g : files' = [files EXCEPT ![k].out = g]
        BY <3>2 DEF WriteOutput
      <4> QED
        BY <1>1, <3>1, <4>1 DEF FileFields
    <3>3. CASE ~WriteOutput(t)
      <4>1. \E phase \in {"open", "complete", "failed"} :
              files' = [files EXCEPT ![k].output = phase]
        BY <1>6, <3>3 DEF OpenFile, FinishOutput, FailOutput
      <4> QED
        BY <1>1, <3>1, <4>1 DEF FileFields
    <3> QED
      BY <3>2, <3>3
  <2>2. k \in DOMAIN files
    BY <1>1, <1>6 DEF OpenFile, WriteOutput, FinishOutput, FailOutput
  <2> QED
    BY <2>1, <2>2 DEF FilesAsDescribed, FileFields
<1>7. CASE CallFence(t) \/ TakeSnapshot(t) \/ SetPath(t) \/ Submit(t) \/ EndKernel(t)
  <2>1. UNCHANGED files
    BY <1>7 DEF CallFence, TakeSnapshot, SetPath, Submit, EndKernel, fileVars
  <2> QED
    BY <1>2, <2>1
<1> QED
  BY <1>2, <1>3, <1>4, <1>5, <1>6, <1>7

(* begin_kernel and end_kernel between the fence and their return. *)
LEMMA WritingDescribes ==
    ASSUME OneThread, CaptureInv, WritersInv, DescribeInv, NEW t \in Threads,
           \/ CallFence(t) \/ TakeSnapshot(t) \/ SetPath(t) \/ Submit(t) \/ EndKernel(t)
           \/ CreateFile(t) \/ WriteInput(t) \/ FinishInput(t) \/ FailInput(t)
           \/ OpenFile(t) \/ WriteOutput(t) \/ FinishOutput(t) \/ FailOutput(t)
    PROVE  DescribeInv'
<1> DEFINE k == kernelId[t]
<1>1. UNCHANGED <<toolLoaded, hasKernelDumpTool, dumpKernelLabel, dumpKernelInvocation,
                  kernelInvocations, metadata, addedMetadata, policy, functorData>>
  <2>1. CASE CallFence(t) \/ TakeSnapshot(t) \/ SetPath(t) \/ Submit(t) \/ EndKernel(t)
    BY <2>1 DEF CallFence, TakeSnapshot, SetPath, Submit, EndKernel, toolVars, stateVars, dataVars,
                deviceVars
  <2>2. CASE CreateFile(t) \/ WriteInput(t) \/ FinishInput(t) \/ FailInput(t) \/ OpenFile(t)
             \/ WriteOutput(t) \/ FinishOutput(t) \/ FailOutput(t)
    BY <2>2 DEF CreateFile, WriteInput, FinishInput, FailInput, OpenFile, WriteOutput,
                FinishOutput, FailOutput, WriteUnchanged, toolVars, stateVars, dataVars, deviceVars
  <2> QED
    BY <2>1, <2>2
<1>2. pc \in [Threads -> Steps] /\ DOMAIN launch = Threads
  BY DEF CaptureInv, CaptureTypes
<1>3. /\ pc[t] \in Tracked \cup Ending
      /\ pc'[t] \in {"idle", "setPath", "submit", "endKernel"} \cup Ending
           \/ (pc[t] \in BeforeInput /\ pc'[t] \in BeforeInput)
      /\ launch' = launch \/ pc'[t] = "idle"
  <2>1. CASE CallFence(t) \/ TakeSnapshot(t) \/ SetPath(t) \/ Submit(t) \/ EndKernel(t)
    BY <1>2, <2>1 DEF CallFence, TakeSnapshot, SetPath, Submit, EndKernel, Return, Goto, localVars,
                      Tracked, Dumping, Ending, BeforeInput
  <2>2. CASE CreateFile(t) \/ WriteInput(t) \/ FinishInput(t) \/ FailInput(t)
    BY <1>2, <2>2 DEF CreateFile, WriteInput, FinishInput, FailInput, Goto, WriteUnchanged,
                      Tracked, Dumping, BeforeInput
  <2>3. CASE OpenFile(t) \/ WriteOutput(t) \/ FinishOutput(t) \/ FailOutput(t)
    BY <1>2, <2>3 DEF OpenFile, WriteOutput, FinishOutput, FailOutput, Return, Goto, WriteUnchanged,
                      Ending
  <2> QED
    BY <2>1, <2>2, <2>3
<1>4. pc[t] \in {"writeInput", "openFile", "writeOutput"} =>
        DOMAIN files = {k} /\ DOMAIN files[k] = FileFields
  BY OwnFile
<1>5. \A id \in DOMAIN files' : Described(files[id])'
  <2>1. CASE FilesAsDescribed
    BY <1>1, <2>1 DEF FilesAsDescribed, DescribeInv, Described, Bound
  <2>2. CASE FinishInput(t)
    <3>1. /\ DOMAIN files' = {k} /\ files'[k].metadata = metadata /\ files'[k].policy = policy
          /\ files'[k].functor = functorData /\ files'[k].launch = files[k].launch
      BY <1>4, <2>2 DEF FinishInput, FileFields
    <3>2. files[k].launch = launch[t] /\ GlobalsDescribe(t) /\ pc[t] = "writeInput"
      BY <2>2 DEF FinishInput, CaptureInv, DumperIsAlone, DescribeInv
    <3>3. Bound => /\ metadata = launch[t].metadata
                   /\ launch[t].mode # "plain" => functorData = launch[t].number
                   /\ policy = IF launch[t].mode = "krepe" THEN launch[t].number ELSE NoPolicy
      BY <3>2 DEF GlobalsDescribe, DescribeInv, BeforeInput, Dumping
    <3> QED
      BY <1>1, <3>1, <3>2, <3>3 DEF Described, Bound
  <2> QED
    BY <2>1, <2>2, OnlyFinishCompletes
<1> QED
  BY <1>1, <1>2, <1>3, <1>5, HooksDescribe

(* Every step keeps the globals describing the launch. *)
LEMMA DescribeNext ==
    ASSUME OneThread, CaptureInv, WritersInv, ContentsInv, DataTypes, DescribeInv, [Next]_vars
    PROVE  DescribeInv'
<1>1. CASE Application
  BY <1>1, ApplicationDescribes
<1>2. CASE DeviceStep \/ UNCHANGED vars \/ \E t \in Threads : RegisterCapture(t)
  <2>1. UNCHANGED <<describeVars, files>>
    BY <1>2 DEF DeviceStep, RunKernel, RegisterCapture, vars, describeVars, toolVars, stateVars,
                dataVars, fileVars, localVars, deviceVars
  <2> QED
    BY <2>1, DescribeFrame
<1>3. ASSUME NEW t \in Threads, ThreadStep(t), ~RegisterCapture(t) PROVE DescribeInv'
  BY <1>3, WrapperDescribes, CountingDescribes, WritingDescribes DEF ThreadStep
<1> QED
  BY <1>1, <1>2, <1>3 DEF Next

(* They do so throughout. *)
LEMMA DescribeInvariant ==
    ASSUME OneThread
    PROVE  Spec => []DescribeInv
<1>1. CaptureInv /\ WritersInv /\ ContentsInv /\ DataTypes /\ DescribeInv /\ [Next]_vars
        => DescribeInv'
  BY DescribeNext
<1> QED
  BY <1>1, DescribeInit, CaptureInvariant, WritersInvariant, ContentsInvariant, PTL DEF Spec

(* When one thread launches all kernels, a complete dump has the metadata, *)
(* the functor and the policy of the launch it was made for: the answer of *)
(* next_invocation_will_dump is not out of date when it is used, and no    *)
(* policy outlives its launch into the dump of another one.                *)
THEOREM DumpDescribesItsLaunch ==
    ASSUME OneThread
    PROVE  Spec => []DumpDescribesLaunch
<1>1. FilesInv /\ DescribeInv => DumpDescribesLaunch
  <2> SUFFICES ASSUME FilesInv, DescribeInv, NEW id \in DOMAIN files,
                      files[id].input = "complete", hasKernelDumpTool = "yes"
               PROVE  LET f == files[id]
                      IN  /\ f.metadata = f.launch.metadata
                          /\ f.launch.mode \in {"krepe", "manual"} => f.functor = f.launch.number
                          /\ f.policy = IF f.launch.mode = "krepe" THEN f.launch.number ELSE NoPolicy
    BY DEF DumpDescribesLaunch
  <2>1. Described(files[id])
    BY DEF DescribeInv
  <2> QED
    BY <2>1 DEF Described, Bound
<1> QED
  BY <1>1, DescribeInvariant, FilesInvariant, PTL
-----------------------------------------------------------------------------
(* The dump of a registered functor.                                       *)

(* Nothing is registered or dumped at first. *)
LEMMA ViewsInit == Init => ViewsInv
<1> SUFFICES ASSUME Init PROVE ViewsInv
  OBVIOUS
<1>1. /\ DOMAIN files = {} /\ DOMAIN activeAllocations = {}
      /\ \A t \in Threads : pc[t] = "idle"
  BY DEF Init, HooksInit, TrackerInit
<1> QED
  BY <1>1 DEF ViewsInv, SizesAreKnown, ViewsDescribe, Counting

(* No allocation of unknown size appears when every block can be probed. *)
LEMMA SizesStayKnown ==
    ASSUME Probed, ContentsInv, SizesAreKnown, [Next]_vars
    PROVE  SizesAreKnown'
<1>1. [HooksNext]_hooksVars
  BY StepsAreHooksSteps
<1>2. CASE UNCHANGED activeAllocations
  BY <1>2 DEF SizesAreKnown
<1>3. ASSUME NEW space \in Spaces, NEW label \in Labels, NEW ptr \in Pointers,
             NEW size \in Sizes, NEW slack \in Slacks, NEW probed \in ProbeOutcomes[space],
             AllocateData(space, label, ptr, size, slack, probed)
      PROVE  SizesAreKnown'
  <2> DEFINE usable == HeaderSize + size + slack
             d == AllocationDataSize(ptr, usable, probed, ReportedSize(size))
  <2>1. probed = TRUE
    BY DEF Probed
  <2>2. /\ ptr \in Nat /\ size \in Nat /\ usable \in Nat /\ usable >= HeaderSize + size
    BY HooksAssumption
  <2>3. d.known
    BY <2>1, <2>2, ProbedIsKnown
  <2> HIDE DEF d
  <2>4. \/ UNCHANGED activeAllocations
        \/ activeAllocations' =
             [k \in DOMAIN activeAllocations \cup {<<space, ptr>>} |->
                IF k = <<space, ptr>>
                THEN [label |-> label, pData |-> AllocationDataPointer(ptr), size |-> d.value,
                      reportedSize |-> ReportedSize(size), dataSizeKnown |-> d.known]
                ELSE activeAllocations[k]]
    BY <1>3 DEF AllocateData, RecordAllocation, trackerVars, d
  <2> QED
    BY <1>2, <2>3, <2>4 DEF SizesAreKnown
<1>4. ASSUME NEW k \in DOMAIN heap, DeallocateData(k) PROVE SizesAreKnown'
  BY <1>4 DEF DeallocateData, RecordDeallocation, SizesAreKnown
<1>5. CASE \/ \E k \in DOMAIN heap : \E offset \in 0 .. heap[k].size : RegisterView(k, offset)
           \/ \E space \in Spaces, address \in Pointers \cup {Null} :
                RegisterUnmanagedView(space, address)
           \/ ClearRegisteredViews
           \/ UNCHANGED hooksVars
  BY <1>2, <1>5 DEF RegisterView, RegisterUnmanagedView, RecordUsedAllocation,
                    ClearRegisteredViews, ClearUsedAllocations, hooksVars, trackerVars
<1> QED
  BY <1>1, <1>3, <1>4, <1>5 DEF HooksNext

(* Where nothing is said of the Views. *)
LEMMA NothingSaid ==
    ASSUME NEW t \in Threads,
           pc'[t] \notin {"registerViews", "resizeFunctor", "fillFunctor", "fenceInput",
                          "awaitInput", "createFile", "writeInput"} \cup Counting
    PROVE  ViewsDescribe(t)'
  BY DEF ViewsDescribe

(* The application between its launches. *)
LEMMA ApplicationViews ==
    ASSUME OneThread, HasCompilerPlugins, CaptureInv, DataTypes, ViewsInv, Application
    PROVE  /\ \A t \in Threads : ViewsDescribe(t)'
           /\ \A id \in DOMAIN files' : HoldsCaptures(files[id])'
<1>1. UNCHANGED files /\ (Bound' => Bound)
  BY DEF Application, LoadTool, AddMetadata, Allocate, Deallocate, StartLaunch, BoundTool, Bound,
         InitInternalFunctions, toolVars, fileVars
<1>2. \A id \in DOMAIN files' : HoldsCaptures(files[id])'
  BY <1>1 DEF ViewsInv, HoldsCaptures
<1>3. ASSUME NEW args \in ToolArgs, LoadTool(args), NEW t \in Threads PROVE ViewsDescribe(t)'
  <2>1. pc'[t] = "idle"
    BY <1>3 DEF LoadTool, CaptureInv, NothingBeforeLoad
  <2> QED
    BY <2>1, NothingSaid DEF Counting
<1>4. ASSUME NEW t \in Threads,
             \/ \E key \in MetadataKeys, value \in MetadataValues : AddMetadata(t, key, value)
             \/ Allocate(t)
             \/ \E k \in DOMAIN heap : Deallocate(t, k)
      PROVE  \A u \in Threads : ViewsDescribe(u)'
  <2>1. Threads = {t} /\ pc'[t] = "idle"
    BY <1>4, TheThread DEF AddMetadata, Allocate, Deallocate
  <2> QED
    BY <2>1, NothingSaid DEF Counting
<1>5. ASSUME NEW t \in Threads, NEW mode \in Modes, NEW label \in KernelLabels,
             NEW captures \in SUBSET DOMAIN activeAllocations,
             StartLaunch(t, mode, label, captures)
      PROVE  \A u \in Threads : ViewsDescribe(u)'
  <2>1. /\ Threads = {t} /\ DOMAIN launch = Threads /\ DOMAIN pc = Threads
        /\ mode \in {"krepe", "manual", "plain"}
    BY TheThread, CaptureAssumption DEF CaptureInv, CaptureTypes, LaunchModes
  <2>2. /\ launch'[t].mode = mode
        /\ mode = "krepe" => pc'[t] = "check"
        /\ mode = "manual" => pc'[t] = "clearViews"
        /\ mode = "plain" => pc'[t] = "takeId"
    BY <1>5, <2>1 DEF StartLaunch, Goto, ReplayFunctor
  <2>3. CASE mode = "plain"
    BY <2>1, <2>2, <2>3 DEF ViewsDescribe, Counting
  <2>4. CASE mode # "plain"
    BY <2>1, <2>2, <2>4, NothingSaid DEF Counting
  <2> QED
    BY <2>3, <2>4
<1> QED
  BY <1>2, <1>3, <1>4, <1>5 DEF Application

(* krepe::parallel_for and replay_functor: the calls that the plugins put  *)
(* in front of the functor's copy register its Views and no other ones.    *)
LEMMA WrapperViews ==
    ASSUME OneThread, HasCompilerPlugins, CaptureInv, ContentsInv, DataTypes, ViewsInv,
           NEW t \in Threads,
           \/ CheckNextInvocation(t) \/ RegisterPolicy(t) \/ ClearViews(t)
           \/ RegisterCapture(t) \/ AllViewsRegistered(t) \/ CopyFunctor(t)
    PROVE  /\ \A u \in Threads : ViewsDescribe(u)'
           /\ \A id \in DOMAIN files' : HoldsCaptures(files[id])'
<1> DEFINE l == launch[t]
<1>1. /\ Threads = {t} /\ pc[t] # "idle" /\ ViewsDescribe(t)
      /\ UNCHANGED <<dumpKernelLabel, dumpKernelInvocation, kernelInvocations, files, launch>>
      /\ hasKernelDumpTool' \in {hasKernelDumpTool, BoundTool}
  BY TheThread DEF CheckNextInvocation, RegisterPolicy, ClearViews, RegisterCapture,
        AllViewsRegistered, CopyFunctor, InitInternalFunctions, toolVars, stateVars, dataVars,
        fileVars, localVars, deviceVars, ViewsInv
<1>2. BoundTool \in {"yes", "no"} /\ (Bound <=> BoundTool = "yes") /\ (Bound' <=> Bound)
  <2>1. BoundTool \in {"yes", "no"} /\ (Bound <=> BoundTool = "yes")
    BY <1>1, Binding
  <2> QED
    BY <1>1, <2>1 DEF Bound
<1>3. pc \in [Threads -> Steps] /\ toRegister \in [Threads -> SUBSET Keys]
  BY DEF CaptureInv, CaptureTypes, ContentsInv, LaunchTypes
<1>4. \A id \in DOMAIN files' : HoldsCaptures(files[id])'
  BY <1>1, <1>2 DEF ViewsInv, HoldsCaptures
<1>5. WillDump(l)' <=> WillDump(l)
  BY <1>1 DEF WillDump, ShouldDump
<1>6. ViewsDescribe(t)'
  <2>1. CASE CheckNextInvocation(t)
    <3>1. pc'[t] = IF BoundTool = "yes" /\ WillDump(l) THEN "registerPolicy" ELSE "takeId"
      BY <1>3, <2>1 DEF CheckNextInvocation, Goto, WillDump
    <3>2. CASE pc'[t] = "registerPolicy"
      BY <3>2, NothingSaid DEF Counting
    <3>3. CASE pc'[t] = "takeId"
      BY <1>2, <1>5, <3>1, <3>3 DEF ViewsDescribe, Counting
    <3> QED
      BY <3>1, <3>2, <3>3
  <2>2. CASE RegisterPolicy(t)
    <3>1. pc'[t] \in {"policyAssigned", "clearViews"}
      BY <1>3, <2>2 DEF RegisterPolicy, Goto, ReplayFunctor
    <3> QED
      BY <3>1, NothingSaid DEF Counting
  <2>3. CASE ClearViews(t)
    <3>1. /\ pc'[t] = "registerViews" /\ toRegister'[t] = l.captures
          /\ BoundTool = "yes" => views' = {} /\ foreign' = FALSE
      BY <1>3, <2>3 DEF ClearViews, Goto, ClearRegisteredViews
    <3> QED
      BY <1>1, <1>2, <3>1 DEF ViewsDescribe, Counting
  <2>4. CASE RegisterCapture(t)
    <3>1. pc[t] = "registerViews" /\ pc' = pc
      BY <2>4 DEF RegisterCapture
    <3>2. PICK k \in toRegister[t] :
            /\ BoundTool = "yes" => views' = views \cup {k} /\ foreign' = foreign
            /\ toRegister'[t] = toRegister[t] \ {k}
      BY <1>3, <2>4 DEF RegisterCapture, RegisterView
    <3>3. toRegister[t] \subseteq l.captures
      BY <3>2 DEF ContentsInv, CapturesAreLive
    <3> QED
      BY <1>1, <1>2, <3>1, <3>2, <3>3 DEF ViewsDescribe, Counting
  <2>5. CASE AllViewsRegistered(t)
    <3>1. /\ pc[t] = "registerViews" /\ toRegister[t] = {} /\ pc'[t] = "resizeFunctor"
          /\ UNCHANGED <<views, foreign>>
      BY <1>3, <2>5 DEF AllViewsRegistered, Goto, hooksVars, environmentVars
    <3> QED
      BY <1>1, <1>2, <3>1 DEF ViewsDescribe, ViewsAreOf, Counting
  <2>6. CASE CopyFunctor(t)
    <3>1. /\ pc[t] \in {"resizeFunctor", "fillFunctor"} /\ pc'[t] \in {"fillFunctor", "takeId"}
          /\ UNCHANGED <<views, foreign>>
      BY <1>3, <2>6 DEF CopyFunctor, Goto, hooksVars, environmentVars
    <3> QED
      BY <1>1, <1>2, <3>1 DEF ViewsDescribe, ViewsAreOf, Counting
  <2> QED
    BY <2>1, <2>2, <2>3, <2>4, <2>5, <2>6
<1> QED
  BY <1>1, <1>4, <1>6

(* begin_kernel up to the first fence. *)
LEMMA CountingViews ==
    ASSUME OneThread, CaptureInv, ViewsInv, NEW t \in Threads,
           TakeId(t) \/ CountInvocation(t)
    PROVE  /\ \A u \in Threads : ViewsDescribe(u)'
           /\ \A id \in DOMAIN files' : HoldsCaptures(files[id])'
<1> DEFINE l == launch[t]
<1>1. /\ Threads = {t} /\ pc[t] \in Counting /\ ViewsDescribe(t)
      /\ pc \in [Threads -> Steps]
      /\ UNCHANGED <<hasKernelDumpTool, dumpKernelLabel, dumpKernelInvocation, files, launch,
                     views, foreign>>
  BY TheThread DEF TakeId, CountInvocation, toolVars, fileVars, localVars, hooksVars,
                   environmentVars, Counting, ViewsInv, CaptureInv, CaptureTypes
<1>2. \A id \in DOMAIN files' : HoldsCaptures(files[id])'
  BY <1>1 DEF ViewsInv, HoldsCaptures, Bound
<1>3. CASE TakeId(t)
  <2>1. pc'[t] = "countInvocation" /\ kernelInvocations' = kernelInvocations
    BY <1>1, <1>3 DEF TakeId, Goto
  <2>2. WillDump(l)' <=> WillDump(l)
    BY <1>1, <2>1 DEF WillDump, ShouldDump
  <2> QED
    BY <1>1, <1>2, <2>1, <2>2 DEF ViewsDescribe, ViewsAreOf, Bound, Counting
<1>4. CASE CountInvocation(t)
  <2>1. pc'[t] = IF WillDump(l) THEN "fenceInput" ELSE "submit"
    BY <1>1, <1>4 DEF CountInvocation, Goto, WillDump
  <2>2. CASE pc'[t] = "fenceInput"
    BY <1>1, <1>2, <2>1, <2>2 DEF ViewsDescribe, ViewsAreOf, Bound, Counting
  <2>3. CASE pc'[t] = "submit"
    BY <1>1, <1>2, <2>3, NothingSaid DEF Counting
  <2> QED
    BY <2>1, <2>2, <2>3
<1> QED
  BY <1>3, <1>4

(* snapshot() returns the captures of the functor whose Views are          *)
(* registered.                                                             *)
LEMMA SnapshotIsCaptures ==
    ASSUME HasCompilerPlugins, ContentsInv, SizesAreKnown,
           NEW t \in Threads, pc[t] # "idle", ViewsAreOf(launch[t])
    PROVE  DOMAIN Snapshot = launch[t].captures
<1>1. SnapshotKeys \subseteq views
  BY InvSelectsNoOther DEF ContentsInv, ViewsAreOf, SelectionIsTight
<1>2. views \subseteq DOMAIN activeAllocations
  BY DEF ContentsInv, CapturesAreLive, ViewsAreOf
<1>3. views \subseteq SnapshotKeys
  BY <1>2, InvSelectsAll DEF ContentsInv, SelectionIsComplete, SizesAreKnown
<1> QED
  BY <1>1, <1>3 DEF Snapshot, ViewsAreOf

(* begin_kernel and end_kernel from the first fence on. *)
LEMMA WritingViews ==
    ASSUME OneThread, HasCompilerPlugins, CaptureInv, WritersInv, ContentsInv, FilesInv, ViewsInv,
           NEW t \in Threads,
           \/ CallFence(t) \/ TakeSnapshot(t) \/ SetPath(t) \/ Submit(t) \/ EndKernel(t)
           \/ CreateFile(t) \/ WriteInput(t) \/ FinishInput(t) \/ FailInput(t)
           \/ OpenFile(t) \/ WriteOutput(t) \/ FinishOutput(t) \/ FailOutput(t)
    PROVE  /\ \A u \in Threads : ViewsDescribe(u)'
           /\ \A id \in DOMAIN files' : HoldsCaptures(files[id])'
<1> DEFINE k == kernelId[t]
           l == launch[t]
<1>1. /\ Threads = {t} /\ ViewsDescribe(t) /\ pc \in [Threads -> Steps] /\ DOMAIN todo = Threads
      /\ SizesAreKnown
  BY TheThread DEF ViewsInv, CaptureInv, CaptureTypes, FilesInv
<1>2. UNCHANGED <<hasKernelDumpTool, views, foreign>>
  BY DEF CallFence, TakeSnapshot, SetPath, Submit, EndKernel, CreateFile, WriteInput, FinishInput,
         FailInput, OpenFile, WriteOutput, FinishOutput, FailOutput, WriteUnchanged, toolVars,
         hooksVars, environmentVars
<1>3. pc[t] = "writeInput" => DOMAIN files = {k} /\ DOMAIN files[k] = FileFields
  BY OwnFile
<1>4. \A id \in DOMAIN files' : HoldsCaptures(files[id])'
  <2>1. CASE FilesAsDescribed
    BY <1>2, <2>1 DEF FilesAsDescribed, ViewsInv, HoldsCaptures, Bound
  <2>2. CASE FinishInput(t)
    <3>1. /\ pc[t] = "writeInput" /\ DOMAIN todo[t] = {} /\ DOMAIN files' = {k}
          /\ files'[k].in = files[k].in /\ files'[k].launch = files[k].launch
      BY <1>3, <2>2 DEF FinishInput, FileFields
    <3>2. files[k].launch = l
      BY <3>1 DEF CaptureInv, DumperIsAlone
    <3> QED
      BY <1>1, <1>2, <3>1, <3>2 DEF ViewsDescribe, HoldsCaptures, Bound
  <2> QED
    BY <2>1, <2>2, OnlyFinishCompletes
<1>5. ViewsDescribe(t)'
  <2>1. CASE CallFence(t) /\ pc[t] = "fenceInput"
    <3>1. pc'[t] = "awaitInput" /\ launch' = launch
      BY <1>1, <2>1 DEF CallFence, Goto
    <3> QED
      BY <1>1, <1>2, <2>1, <3>1 DEF ViewsDescribe, ViewsAreOf, Bound, Counting
  <2>2. CASE TakeSnapshot(t) /\ pc[t] = "awaitInput"
    <3>1. pc'[t] = "createFile" /\ launch' = launch /\ todo'[t] = Snapshot
      BY <1>1, <2>2 DEF TakeSnapshot, Goto
    <3>2. ViewsAreOf(l) => DOMAIN todo'[t] = l.captures
      BY <1>1, <2>2, <3>1, SnapshotIsCaptures
    <3> QED
      BY <1>1, <1>2, <2>2, <3>1, <3>2 DEF ViewsDescribe, Bound, Counting
  <2>3. CASE CreateFile(t)
    <3>1. /\ pc[t] = "createFile" /\ pc'[t] = "writeInput" /\ UNCHANGED <<launch, kernelId, todo>>
          /\ DOMAIN files'[k].in = {}
      BY <1>1, <2>3 DEF CreateFile, Goto, WriteUnchanged, NoGroups
    <3> QED
      BY <1>1, <1>2, <3>1 DEF ViewsDescribe, Bound, Counting
  <2>4. CASE WriteInput(t)
    <3>1. /\ pc[t] = "writeInput" /\ pc' = pc /\ UNCHANGED <<launch, kernelId>>
      BY <2>4 DEF WriteInput, WriteUnchanged
    <3>2. PICK h \in DOMAIN todo[t] : \E bytes \in CopyOutcomes(h, todo[t][h]) :
            /\ files' = [files EXCEPT ![k].in = WriteGroup(t, @, h, bytes)]
            /\ todo' = Forget(t, h)
      BY <2>4 DEF WriteInput
    <3>3. PICK bytes : files' = [files EXCEPT ![k].in = WriteGroup(t, @, h, bytes)]
      BY <3>2
    <3>4. DOMAIN todo'[t] = DOMAIN todo[t] \ {h}
      BY <1>1, <3>2 DEF Forget
    <3>5. DOMAIN files'[k].in = DOMAIN files[k].in \cup {h}
      BY <1>3, <3>1, <3>3 DEF WriteGroup, FileFields
    <3>6. DOMAIN todo'[t] \cup DOMAIN files'[k].in = DOMAIN todo[t] \cup DOMAIN files[k].in
      BY <3>2, <3>4, <3>5
    <3> QED
      BY <1>1, <1>2, <3>1, <3>6 DEF ViewsDescribe, Bound, Counting
  <2>5. CASE /\ ~(CallFence(t) /\ pc[t] = "fenceInput") /\ ~(TakeSnapshot(t) /\ pc[t] = "awaitInput")
             /\ ~CreateFile(t) /\ ~WriteInput(t)
    <3>1. pc'[t] \in {"idle", "setPath", "submit", "endKernel"} \cup Ending
      <4>1. CASE CallFence(t) \/ TakeSnapshot(t) \/ SetPath(t) \/ Submit(t) \/ EndKernel(t)
        BY <1>1, <2>5, <4>1 DEF CallFence, TakeSnapshot, SetPath, Submit, EndKernel, Return, Goto,
                                Ending
      <4>2. CASE FinishInput(t) \/ FailInput(t) \/ OpenFile(t) \/ WriteOutput(t)
                   \/ FinishOutput(t) \/ FailOutput(t)
        BY <1>1, <4>2 DEF FinishInput, FailInput, OpenFile, WriteOutput, FinishOutput, FailOutput,
                          Return, Goto, Ending
      <4> QED
        BY <2>5, <4>1, <4>2
    <3> QED
      BY <3>1, NothingSaid DEF Counting, Ending
  <2> QED
    BY <2>1, <2>2, <2>3, <2>4, <2>5
<1> QED
  BY <1>1, <1>4, <1>5

(* Every step keeps the registered Views and the dump those of the launch. *)
LEMMA ViewsNext ==
    ASSUME OneThread, HasCompilerPlugins, Probed, CaptureInv, WritersInv, ContentsInv, DataTypes,
           FilesInv, ViewsInv, [Next]_vars
    PROVE  ViewsInv'
<1>1. SizesAreKnown'
  BY SizesStayKnown DEF ViewsInv
<1>2. CASE Application
  BY <1>1, <1>2, ApplicationViews DEF ViewsInv
<1>3. CASE DeviceStep \/ UNCHANGED vars
  <2>1. UNCHANGED <<describeVars, files, views, foreign, toRegister, todo, kernelId>>
    BY <1>3 DEF DeviceStep, RunKernel, vars, describeVars, toolVars, stateVars, dataVars, fileVars,
                localVars, deviceVars, hooksVars, environmentVars
  <2> QED
    BY <1>1, <2>1 DEF ViewsInv, ViewsDescribe, HoldsCaptures, ViewsAreOf, describeVars, Bound,
                      WillDump, ShouldDump
<1>4. ASSUME NEW t \in Threads, ThreadStep(t) PROVE ViewsInv'
  <2>1. /\ \A u \in Threads : ViewsDescribe(u)'
        /\ \A id \in DOMAIN files' : HoldsCaptures(files[id])'
    BY <1>4, WrapperViews, CountingViews, WritingViews DEF ThreadStep
  <2> QED
    BY <1>1, <2>1 DEF ViewsInv
<1> QED
  BY <1>2, <1>3, <1>4 DEF Next

(* When one thread launches all kernels of a build with the plugins, and   *)
(* every block's bounds can be probed, a complete dump of a functor holds  *)
(* exactly the allocations of its Views: none is lost, and none is left    *)
(* over from the functors registered before it.                            *)
THEOREM DumpHoldsTheViews ==
    ASSUME OneThread, HasCompilerPlugins, Probed
    PROVE  Spec => []InputIsCaptures
<1>1. CaptureInv /\ WritersInv /\ ContentsInv /\ DataTypes /\ FilesInv /\ ViewsInv /\ [Next]_vars
        => ViewsInv'
  BY ViewsNext
<1>2. ViewsInv => InputIsCaptures
  BY DEF ViewsInv, HoldsCaptures, InputIsCaptures, Bound
<1> QED
  BY <1>1, <1>2, ViewsInit, CaptureInvariant, WritersInvariant, ContentsInvariant, FilesInvariant,
     PTL DEF Spec

=============================================================================
