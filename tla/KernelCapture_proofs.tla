------------------------ MODULE KernelCapture_proofs ------------------------
(***************************************************************************)
(* Proofs about KernelCapture, for any number of threads, launches, labels *)
(* and allocations: kernel_states is exact, at most one dump, the one that *)
(* was asked for, is written, and it is written as DumpLifecycle says.     *)
(***************************************************************************)
EXTENDS KernelCapture, NaturalsInduction, WellFoundedInduction, TLAPS

-----------------------------------------------------------------------------
(* The inductive invariant.                                                *)

FileFields == {"launch", "label", "invocation", "input", "in", "metadata", "policy",
               "functor", "output", "out"}

(* The types the argument needs. *)
CaptureTypes ==
    /\ dumpKernelInvocation \in Nat
    /\ nextKernelId \in Nat
    /\ kernelInvocations \in [KernelLabels -> Nat]
    /\ \A id \in DOMAIN kernelStates : kernelStates[id] \in [invocation : Nat, dumpPath : Nat]
    /\ pc \in [Threads -> Steps]
    /\ DOMAIN launch = Threads
    /\ \A t \in Threads : pc[t] # "idle" => launch[t].label \in KernelLabels
    /\ kernelId \in [Threads -> Nat]
    /\ \A id \in DOMAIN files : DOMAIN files[id] = FileFields

(* Nothing is launched or written before the tool has parsed its options.  *)
NothingBeforeLoad ==
    toolLoaded \/ (DOMAIN files = {} /\ \A t \in Threads : pc[t] = "idle")

HasId == {"countInvocation"} \cup Tracked \cup Ending

(* An id that begin_kernel has taken is nobody else's. *)
IdsAreUnique ==
    /\ \A t \in Threads : pc[t] \in HasId => kernelId[t] < nextKernelId
    /\ \A t, u \in Threads :
         pc[t] \in HasId /\ pc[u] \in HasId /\ kernelId[t] = kernelId[u] => t = u

(* The requested invocation has been counted. *)
RequestIsPast ==
    /\ dumpKernelLabel \in KernelLabels
    /\ kernelInvocations[dumpKernelLabel] >= dumpKernelInvocation

(* The one thread that dumps, and what it has done so far. *)
DumperIsAlone ==
    /\ \A t, u \in Threads : pc[t] \in Dumping /\ pc[u] \in Dumping => t = u
    /\ \A t \in Threads : pc[t] \in Dumping =>
         /\ RequestIsPast
         /\ launch[t].label = dumpKernelLabel
         /\ kernelStates[kernelId[t]].invocation = dumpKernelInvocation
         /\ kernelStates[kernelId[t]].dumpPath = NoPath
    /\ \A t \in Threads :
         pc[t] \in {"fenceInput", "awaitInput", "createFile"} => DOMAIN files = {}
    /\ \A t \in Threads : pc[t] \in {"writeInput", "setPath"} =>
         kernelId[t] \in DOMAIN files /\ files[kernelId[t]].launch = launch[t]
    /\ \A t \in Threads : pc[t] = "setPath" => files[kernelId[t]].input = "complete"
    /\ DOMAIN files # {} => RequestIsPast

CaptureInv ==
    /\ CaptureTypes
    /\ NothingBeforeLoad
    /\ IdsAreUnique
    /\ DumperIsAlone
    /\ OneRequestedDump
    /\ KernelStatesAreExact

-----------------------------------------------------------------------------
(* The invariant holds initially. *)
LEMMA CaptureInvInit == Init => CaptureInv
<1> SUFFICES ASSUME Init PROVE CaptureInv
  OBVIOUS
<1>1. DOMAIN files = {} /\ DOMAIN kernelStates = {} /\ pc = [t \in Threads |-> "idle"]
  BY DEF Init
<1>2. CaptureTypes
  BY <1>1 DEF Init, CaptureTypes, Steps
<1>3. NothingBeforeLoad
  BY <1>1 DEF NothingBeforeLoad
<1>4. \A t \in Threads : pc[t] = "idle" /\ pc[t] \notin HasId /\ pc[t] \notin Dumping
                         /\ pc[t] \notin Tracked
  BY <1>1 DEF HasId, Dumping, Tracked, Ending
<1>5. IdsAreUnique /\ DumperIsAlone /\ OneRequestedDump /\ KernelStatesAreExact
  BY <1>1, <1>4 DEF IdsAreUnique, DumperIsAlone, OneRequestedDump, KernelStatesAreExact
<1> QED
  BY <1>2, <1>3, <1>5 DEF CaptureInv

(* The variables that the invariant speaks of. *)
captureVars == <<toolLoaded, dumpKernelLabel, dumpKernelInvocation, nextKernelId, kernelStates,
                 kernelInvocations, files, pc, launch, kernelId>>

(* Steps that change none of them. *)
LEMMA FramePreserves ==
    ASSUME CaptureInv, UNCHANGED captureVars
    PROVE  CaptureInv'
  BY DEF CaptureInv, captureVars, CaptureTypes, NothingBeforeLoad, IdsAreUnique, DumperIsAlone,
         RequestIsPast, OneRequestedDump, KernelStatesAreExact

(* Some occurrence of an option is the last one. *)
LEMMA MaxOccurrence ==
    ASSUME NEW n \in Nat, NEW S \in SUBSET (1 .. n), S # {}
    PROVE  Max(S) \in S
<1> DEFINE R == {n - i : i \in S}
<1>0. \A i \in S : i \in Int /\ n - i \in Nat
  OBVIOUS
<1>1. R \in SUBSET Nat /\ R # {}
  BY <1>0, Zenon
<1>2. PICK x \in R : \A y \in R : ~ (<<y, x>> \in OpToRel(<, Nat))
  BY <1>1, NatLessThanWellFounded, WFMin, Zenon
<1>3. \A y \in R : ~ (y < x)
  BY <1>1, <1>2, Zenon DEF OpToRel
<1>4. PICK m \in S : x = n - m
  OBVIOUS
<1>5. ASSUME NEW i \in S PROVE m >= i
  <2>1. n - i \in R
    OBVIOUS
  <2>2. ~ (n - i < n - m)
    BY <1>3, <1>4, <2>1
  <2> QED
    BY <1>0, <2>2
<1> QED
  BY <1>5 DEF Max

(* kokkosp_parse_args leaves a number that a counter may reach, or none. *)
LEMMA ParsedInvocation ==
    ASSUME NEW args \in ToolArgs, ParseArgs(args), dumpKernelInvocation \in Nat
    PROVE  dumpKernelInvocation' \in Nat
<1> DEFINE at == Occurrences(args, "invocation")
<1>1. args \in Seq(ToolArguments)
  BY CaptureAssumption
<1>2. at \in SUBSET (1 .. Len(args)) /\ Len(args) \in Nat
  BY <1>1 DEF Occurrences
<1>3. CASE at = {}
  BY <1>3 DEF ParseArgs
<1>4. CASE at # {}
  <2>1. Max(at) \in at
    BY <1>2, <1>4, MaxOccurrence, Zenon
  <2>2. args[Max(at)] \in ToolArguments /\ args[Max(at)].option = "invocation"
    BY <1>1, <1>2, <2>1 DEF Occurrences
  <2>3. args[Max(at)].number \in Int
    BY <2>2 DEF ToolArguments
  <2>4. dumpKernelInvocation' = ParsePositiveUint64(args[Max(at)].number)
    BY <1>4 DEF ParseArgs
  <2> QED
    BY <2>3, <2>4 DEF ParsePositiveUint64, NoInvocation
<1> QED
  BY <1>3, <1>4

(* The options are read before anything is launched or written. *)
LEMMA LoadToolPreserves ==
    ASSUME CaptureInv, NEW args \in ToolArgs, LoadTool(args)
    PROVE  CaptureInv'
<1>1. DOMAIN files = {} /\ \A t \in Threads : pc[t] = "idle"
  BY Zenon DEF CaptureInv, NothingBeforeLoad, LoadTool
<1>2. UNCHANGED <<nextKernelId, kernelStates, kernelInvocations, files, pc, launch, kernelId>>
  BY DEF LoadTool, stateVars, fileVars, localVars
<1>3. CaptureTypes'
  BY <1>2, ParsedInvocation DEF CaptureInv, CaptureTypes, LoadTool
<1>4. NothingBeforeLoad'
  BY <1>1, <1>2 DEF NothingBeforeLoad
<1>5. \A t \in Threads : pc[t] \notin Dumping /\ pc[t] \notin HasId /\ pc[t] \notin Tracked
  BY <1>1 DEF Dumping, HasId, Tracked, Ending
<1>6. IdsAreUnique'
  BY <1>2, <1>5 DEF IdsAreUnique
<1>7. DumperIsAlone'
  BY <1>1, <1>2, <1>5 DEF DumperIsAlone
<1>8. OneRequestedDump'
  BY <1>1, <1>2 DEF OneRequestedDump
<1>9. KernelStatesAreExact'
  BY <1>2 DEF CaptureInv, KernelStatesAreExact
<1> QED
  BY <1>3, <1>4, <1>6, <1>7, <1>8, <1>9 DEF CaptureInv

(* A thread moves on before begin_kernel. *)
LEMMA LabelledPreserves ==
    ASSUME CaptureInv, NEW t \in Threads, NEW label \in Labelled,
           toolLoaded = TRUE, toolLoaded' = toolLoaded,
           pc[t] \in Labelled \cup {"idle"}, Goto(t, label),
           DOMAIN launch' = Threads, launch'[t].label \in KernelLabels,
           \A u \in Threads \ {t} : launch'[u] = launch[u],
           UNCHANGED <<dumpKernelLabel, dumpKernelInvocation, stateVars, files, kernelId>>
    PROVE  CaptureInv'
<1>1. /\ pc' \in [Threads -> Steps]
      /\ pc'[t] = label /\ \A u \in Threads \ {t} : pc'[u] = pc[u]
  BY DEF CaptureInv, CaptureTypes, Goto, Steps
<1>2. \A l \in Labelled \cup {"idle"} : l \notin HasId /\ l \notin Dumping /\ l \notin Tracked
  BY DEF Labelled, HasId, Dumping, Tracked, Ending
<1>3. \A u \in Threads : pc'[u] \in HasId \cup Dumping \cup Tracked =>
                           u # t /\ pc'[u] = pc[u] /\ launch'[u] = launch[u]
  BY <1>1, <1>2
<1>4. {u \in Threads : pc'[u] \in Tracked} = {u \in Threads : pc[u] \in Tracked}
  BY <1>1, <1>2
<1>5. CaptureTypes'
  BY <1>1 DEF CaptureInv, CaptureTypes, stateVars
<1>6. NothingBeforeLoad'
  BY DEF NothingBeforeLoad
<1>7. IdsAreUnique'
  BY <1>3 DEF CaptureInv, IdsAreUnique, stateVars
<1>8. DumperIsAlone'
  <2>1. Dumping \subseteq HasId /\ {"fenceInput", "awaitInput", "createFile"} \subseteq Dumping
        /\ {"writeInput", "setPath"} \subseteq Dumping
    BY DEF Dumping, HasId, Tracked
  <2> QED
    BY <1>3, <2>1 DEF CaptureInv, DumperIsAlone, RequestIsPast, stateVars
<1>9. OneRequestedDump'
  BY DEF CaptureInv, OneRequestedDump
<1>10. KernelStatesAreExact'
  BY <1>3, <1>4 DEF CaptureInv, KernelStatesAreExact, stateVars
<1> QED
  BY <1>5, <1>6, <1>7, <1>8, <1>9, <1>10 DEF CaptureInv

(* begin_kernel takes an id that is larger than all ids in use. *)
LEMMA TakeIdPreserves ==
    ASSUME CaptureInv, NEW t \in Threads, TakeId(t)
    PROVE  CaptureInv'
<1>1. /\ pc[t] = "takeId" /\ pc' = [pc EXCEPT ![t] = "countInvocation"]
      /\ kernelId' = [kernelId EXCEPT ![t] = nextKernelId]
      /\ nextKernelId' = nextKernelId + 1
      /\ UNCHANGED <<toolLoaded, dumpKernelLabel, dumpKernelInvocation, kernelStates,
                     kernelInvocations, files, launch>>
  BY DEF TakeId, Goto, toolVars, fileVars
<1>2. /\ pc'[t] = "countInvocation" /\ kernelId'[t] = nextKernelId
      /\ \A u \in Threads \ {t} : pc'[u] = pc[u] /\ kernelId'[u] = kernelId[u]
  BY <1>1 DEF CaptureInv, CaptureTypes
<1>3. CaptureTypes'
  BY <1>1 DEF CaptureInv, CaptureTypes, Steps
<1>4. NothingBeforeLoad'
  BY <1>1 DEF CaptureInv, NothingBeforeLoad
<1>5. IdsAreUnique'
  <2>1. \A u \in Threads : pc[u] \in HasId => kernelId[u] < nextKernelId /\ kernelId[u] \in Nat
    BY DEF CaptureInv, IdsAreUnique, CaptureTypes
  <2>2. nextKernelId \in Nat
    BY DEF CaptureInv, CaptureTypes
  <2> QED
    BY <1>1, <1>2, <2>1, <2>2 DEF CaptureInv, IdsAreUnique
<1>6. \A u \in Threads : pc'[u] \in Tracked => u # t /\ pc[u] = pc'[u]
  BY <1>2 DEF Tracked, Dumping
<1>7. Dumping \subseteq Tracked /\ {"fenceInput", "awaitInput", "createFile"} \subseteq Dumping
        /\ {"writeInput", "setPath"} \subseteq Dumping
  BY DEF Dumping, Tracked
<1>8. DumperIsAlone'
  BY <1>1, <1>2, <1>6, <1>7 DEF CaptureInv, DumperIsAlone, RequestIsPast
<1>9. OneRequestedDump'
  BY <1>1 DEF CaptureInv, OneRequestedDump
<1>10. KernelStatesAreExact'
  <2>1. {u \in Threads : pc'[u] \in Tracked} = {u \in Threads : pc[u] \in Tracked}
    BY <1>1, <1>2, <1>6 DEF Tracked, Dumping
  <2> QED
    BY <1>1, <1>2, <1>6, <2>1 DEF CaptureInv, KernelStatesAreExact
<1> QED
  BY <1>3, <1>4, <1>5, <1>8, <1>9, <1>10 DEF CaptureInv

(* begin_kernel counts the invocation and decides whether to dump it. *)
LEMMA CountInvocationPreserves ==
    ASSUME CaptureInv, NEW t \in Threads, CountInvocation(t)
    PROVE  CaptureInv'
<1> DEFINE label == launch[t].label
           invocation == kernelInvocations[label] + 1
           next == IF ShouldDump(label, invocation) THEN "fenceInput" ELSE "submit"
           entry == [invocation |-> invocation, dumpPath |-> NoPath]
<1>1. /\ pc[t] = "countInvocation" /\ pc' = [pc EXCEPT ![t] = next]
      /\ kernelInvocations' = [kernelInvocations EXCEPT ![label] = invocation]
      /\ kernelStates' = [id \in DOMAIN kernelStates \cup {kernelId[t]} |->
                            IF id = kernelId[t] THEN entry ELSE kernelStates[id]]
      /\ UNCHANGED <<toolLoaded, dumpKernelLabel, dumpKernelInvocation, nextKernelId,
                     files, launch, kernelId>>
  BY DEF CountInvocation, Goto, toolVars, fileVars, localVars
<1>2. label \in KernelLabels /\ invocation \in Nat
  BY <1>1 DEF CaptureInv, CaptureTypes
<1>3. /\ next \in {"fenceInput", "submit"} /\ next \in Tracked /\ next \in HasId
      /\ pc[t] \in HasId /\ pc[t] \notin Tracked
  BY <1>1 DEF Tracked, Dumping, HasId
<1>4. next = "fenceInput" =>
        dumpKernelLabel = label /\ dumpKernelInvocation = invocation
  BY DEF ShouldDump
<1>5. entry \in [invocation : Nat, dumpPath : Nat] /\ entry.invocation = invocation
      /\ entry.dumpPath = NoPath
  BY <1>2 DEF NoPath
<1> HIDE DEF entry, next, invocation
<1>6. /\ pc'[t] = next /\ \A u \in Threads \ {t} : pc'[u] = pc[u]
      /\ kernelStates'[kernelId[t]] = entry
      /\ \A id \in DOMAIN kernelStates \ {kernelId[t]} : kernelStates'[id] = kernelStates[id]
  BY <1>1 DEF CaptureInv, CaptureTypes
<1>7. \A u \in Threads \ {t} : pc[u] \in HasId => kernelId[u] # kernelId[t]
  BY <1>3 DEF CaptureInv, IdsAreUnique
<1>8. \A u \in Threads : pc[u] \in Tracked => kernelId[u] \in DOMAIN kernelStates
  BY DEF CaptureInv, KernelStatesAreExact
<1>9. Dumping \subseteq Tracked /\ Tracked \subseteq HasId
      /\ {"fenceInput", "awaitInput", "createFile", "writeInput", "setPath"} = Dumping
  BY DEF Dumping, Tracked, HasId
<1>10. \A u \in Threads \ {t} : pc[u] \in Tracked =>
          kernelStates'[kernelId[u]] = kernelStates[kernelId[u]]
  BY <1>6, <1>7, <1>8, <1>9
<1>11. RequestIsPast => RequestIsPast'
  <2>1. kernelInvocations[label] \in Nat /\ kernelInvocations' \in [KernelLabels -> Nat]
        /\ \A l \in KernelLabels : kernelInvocations'[l] >= kernelInvocations[l]
    BY <1>1, <1>2 DEF CaptureInv, CaptureTypes, invocation
  <2> QED
    BY <1>1, <2>1 DEF RequestIsPast, CaptureInv, CaptureTypes
<1>12. next = "fenceInput" => RequestIsPast' /\ ~RequestIsPast
  <2> SUFFICES ASSUME next = "fenceInput" PROVE RequestIsPast' /\ ~RequestIsPast
    OBVIOUS
  <2>1. dumpKernelLabel = label /\ dumpKernelInvocation = kernelInvocations[label] + 1
        /\ kernelInvocations[label] \in Nat
    BY <1>2, <1>4 DEF invocation, CaptureInv, CaptureTypes
  <2>2. kernelInvocations'[label] = invocation
    BY <1>1, <1>2 DEF CaptureInv, CaptureTypes
  <2> QED
    BY <1>1, <1>2, <2>1, <2>2 DEF RequestIsPast, invocation
<1>13. next = "fenceInput" => DOMAIN files = {} /\ \A u \in Threads : pc[u] \notin Dumping
  BY <1>12 DEF CaptureInv, DumperIsAlone
<1>14. CaptureTypes'
  <2>1. pc' \in [Threads -> Steps]
    BY <1>1, <1>3 DEF CaptureInv, CaptureTypes, Steps
  <2>2. kernelInvocations' \in [KernelLabels -> Nat]
    BY <1>1, <1>2 DEF CaptureInv, CaptureTypes
  <2>3. \A id \in DOMAIN kernelStates' : kernelStates'[id] \in [invocation : Nat, dumpPath : Nat]
    BY <1>1, <1>5 DEF CaptureInv, CaptureTypes
  <2>4. \A u \in Threads : pc'[u] # "idle" => launch'[u].label \in KernelLabels
    BY <1>1, <1>2, <1>6 DEF CaptureInv, CaptureTypes
  <2> QED
    BY <1>1, <2>1, <2>2, <2>3, <2>4 DEF CaptureInv, CaptureTypes
<1>15. NothingBeforeLoad'
  BY <1>1 DEF CaptureInv, NothingBeforeLoad
<1>16. IdsAreUnique'
  BY <1>1, <1>3, <1>6 DEF CaptureInv, IdsAreUnique
<1>17. DumperIsAlone'
  <2>1. \A u, v \in Threads : pc'[u] \in Dumping /\ pc'[v] \in Dumping => u = v
    BY <1>3, <1>6, <1>9, <1>13 DEF CaptureInv, DumperIsAlone, Dumping
  <2>2. ASSUME NEW u \in Threads, pc'[u] \in Dumping
        PROVE  /\ RequestIsPast'
               /\ launch'[u].label = dumpKernelLabel'
               /\ kernelStates'[kernelId'[u]].invocation = dumpKernelInvocation'
               /\ kernelStates'[kernelId'[u]].dumpPath = NoPath
    <3>1. CASE u = t
      <4>1. next = "fenceInput"
        BY <1>3, <1>6, <2>2, <3>1 DEF Dumping
      <4> QED
        BY <1>1, <1>4, <1>5, <1>6, <1>12, <3>1, <4>1
    <3>2. CASE u # t
      <4>1. pc[u] \in Dumping /\ pc[u] \in Tracked
        BY <1>6, <1>9, <2>2, <3>2
      <4>2. kernelStates'[kernelId'[u]] = kernelStates[kernelId[u]]
        BY <1>1, <1>10, <3>2, <4>1
      <4>3. RequestIsPast /\ launch[u].label = dumpKernelLabel
            /\ kernelStates[kernelId[u]].invocation = dumpKernelInvocation
            /\ kernelStates[kernelId[u]].dumpPath = NoPath
        BY <4>1 DEF CaptureInv, DumperIsAlone
      <4> QED
        BY <1>1, <1>11, <4>2, <4>3
    <3> QED
      BY <3>1, <3>2
  <2>3. \A u \in Threads :
          pc'[u] \in {"fenceInput", "awaitInput", "createFile"} => DOMAIN files' = {}
    BY <1>1, <1>3, <1>6, <1>13 DEF CaptureInv, DumperIsAlone
  <2>4. \A u \in Threads : pc'[u] \in {"writeInput", "setPath"} =>
          /\ kernelId'[u] \in DOMAIN files' /\ files'[kernelId'[u]].launch = launch'[u]
          /\ pc'[u] = "setPath" => files'[kernelId'[u]].input = "complete"
    BY <1>1, <1>3, <1>6 DEF CaptureInv, DumperIsAlone
  <2>5. DOMAIN files' # {} => RequestIsPast'
    BY <1>1, <1>11 DEF CaptureInv, DumperIsAlone
  <2> QED
    BY <2>1, <2>2, <2>3, <2>4, <2>5 DEF DumperIsAlone
<1>18. OneRequestedDump'
  BY <1>1 DEF CaptureInv, OneRequestedDump
<1>19. KernelStatesAreExact'
  <2>1. {u \in Threads : pc'[u] \in Tracked} = {u \in Threads : pc[u] \in Tracked} \cup {t}
    BY <1>3, <1>6
  <2>2. DOMAIN kernelStates' = {kernelId'[u] : u \in {v \in Threads : pc'[v] \in Tracked}}
    BY <1>1, <2>1 DEF CaptureInv, KernelStatesAreExact
  <2>3. \A u, v \in {w \in Threads : pc'[w] \in Tracked} : kernelId'[u] = kernelId'[v] => u = v
    BY <1>9, <1>16 DEF IdsAreUnique
  <2>4. ASSUME NEW u \in Threads, pc'[u] \in Tracked,
               kernelStates'[kernelId'[u]].dumpPath # NoPath
        PROVE  /\ kernelStates'[kernelId'[u]].dumpPath = kernelId'[u]
               /\ kernelId'[u] \in DOMAIN files'
               /\ files'[kernelId'[u]].input = "complete"
               /\ files'[kernelId'[u]].launch = launch'[u]
    <3>1. u # t
      BY <1>1, <1>5, <1>6, <2>4
    <3> QED
      BY <1>1, <1>6, <1>10, <2>4, <3>1 DEF CaptureInv, KernelStatesAreExact
  <2> QED
    BY <2>2, <2>3, <2>4 DEF KernelStatesAreExact
<1> QED
  BY <1>14, <1>15, <1>16, <1>17, <1>18, <1>19 DEF CaptureInv

-----------------------------------------------------------------------------
(* The steps of a thread that has an id.                                   *)

(* At most the contents of the thread's own file change. *)
FilesKept(t) ==
    /\ DOMAIN files' = DOMAIN files
    /\ \A id \in DOMAIN files :
         /\ DOMAIN files'[id] = FileFields
         /\ files'[id].launch = files[id].launch
         /\ files'[id].label = files[id].label
         /\ files'[id].invocation = files[id].invocation
         /\ id # kernelId[t] => files'[id] = files[id]
         /\ pc[t] \notin Dumping => files'[id].input = files[id].input

BeforeFile == {"fenceInput", "awaitInput", "createFile"}
AfterFile == {"writeInput", "setPath"}

(* A step between two program points that keeps the thread's entry in      *)
(* kernel_states, or that returns when it has none.                        *)
LEMMA StepPreserves ==
    ASSUME CaptureInv, NEW t \in Threads, NEW label \in Steps,
           pc[t] \in HasId \ {"countInvocation"},
           label \in HasId \ {"countInvocation"} \/ label = "idle",
           pc' = [pc EXCEPT ![t] = label],
           label \in Tracked <=> pc[t] \in Tracked,
           label \in BeforeFile => pc[t] \in BeforeFile,
           label \in AfterFile => pc[t] = "writeInput",
           label = "setPath" => files'[kernelId[t]].input = "complete",
           DOMAIN launch' = Threads, kernelId' \in [Threads -> Nat],
           \A u \in Threads : u # t \/ label # "idle" =>
               launch'[u] = launch[u] /\ kernelId'[u] = kernelId[u],
           FilesKept(t),
           UNCHANGED <<toolLoaded, dumpKernelLabel, dumpKernelInvocation, stateVars>>
    PROVE  CaptureInv'
<1>1. /\ pc' \in [Threads -> Steps]
      /\ pc'[t] = label /\ \A u \in Threads \ {t} : pc'[u] = pc[u]
  BY DEF CaptureInv, CaptureTypes
<1>2. /\ Dumping = BeforeFile \cup AfterFile /\ Dumping \subseteq Tracked
      /\ Tracked \subseteq HasId /\ "idle" \notin HasId /\ "idle" \notin Tracked
      /\ "writeInput" \in AfterFile
  BY DEF Dumping, BeforeFile, AfterFile, Tracked, HasId, Ending
<1>3. UNCHANGED <<nextKernelId, kernelStates, kernelInvocations>>
  BY DEF stateVars
<1>4. \A u \in Threads : pc'[u] \in HasId =>
         pc[u] \in HasId /\ launch'[u] = launch[u] /\ kernelId'[u] = kernelId[u]
  BY <1>1, <1>2
<1>5. \A u \in Threads : pc'[u] \in Tracked <=> pc[u] \in Tracked
  BY <1>1, <1>2
<1>6. \A u \in Threads : pc'[u] \in Dumping => pc[u] \in Dumping
  BY <1>1, <1>2
<1>7. \A u \in Threads \ {t} : pc[u] \in HasId => kernelId[u] # kernelId[t]
  BY DEF CaptureInv, IdsAreUnique
<1>8. CaptureTypes'
  <2>1. \A u \in Threads : pc'[u] # "idle" => launch'[u].label \in KernelLabels
    BY <1>1 DEF CaptureInv, CaptureTypes, HasId, Tracked, Ending, Dumping
  <2>2. \A id \in DOMAIN files' : DOMAIN files'[id] = FileFields
    BY DEF FilesKept
  <2> QED
    BY <1>1, <1>3, <2>1, <2>2 DEF CaptureInv, CaptureTypes
<1>9. NothingBeforeLoad'
  <2>1. pc[t] # "idle"
    BY <1>2
  <2>2. toolLoaded
    BY <2>1 DEF CaptureInv, NothingBeforeLoad
  <2> QED
    BY <2>2 DEF NothingBeforeLoad
<1>10. IdsAreUnique'
  BY <1>3, <1>4 DEF CaptureInv, IdsAreUnique
<1>11. DumperIsAlone'
  <2>1. RequestIsPast => RequestIsPast'
    BY <1>3 DEF RequestIsPast
  <2>2. \A u, v \in Threads : pc'[u] \in Dumping /\ pc'[v] \in Dumping => u = v
    BY <1>6 DEF CaptureInv, DumperIsAlone
  <2>3. ASSUME NEW u \in Threads, pc'[u] \in Dumping
        PROVE  /\ RequestIsPast'
               /\ launch'[u].label = dumpKernelLabel'
               /\ kernelStates'[kernelId'[u]].invocation = dumpKernelInvocation'
               /\ kernelStates'[kernelId'[u]].dumpPath = NoPath
    <3>1. pc[u] \in Dumping /\ launch'[u] = launch[u] /\ kernelId'[u] = kernelId[u]
      BY <1>2, <1>4, <1>6, <2>3
    <3> QED
      BY <1>3, <2>1, <3>1 DEF CaptureInv, DumperIsAlone
  <2>4. ASSUME NEW u \in Threads, pc'[u] \in BeforeFile PROVE DOMAIN files' = {}
    <3>1. pc[u] \in BeforeFile
      BY <1>1, <2>4
    <3> QED
      BY <3>1 DEF CaptureInv, DumperIsAlone, FilesKept, BeforeFile
  <2>5. ASSUME NEW u \in Threads, pc'[u] \in AfterFile
        PROVE  /\ kernelId'[u] \in DOMAIN files' /\ files'[kernelId'[u]].launch = launch'[u]
               /\ pc'[u] = "setPath" => files'[kernelId'[u]].input = "complete"
    <3>1. pc[u] \in AfterFile /\ launch'[u] = launch[u] /\ kernelId'[u] = kernelId[u]
      BY <1>1, <1>2, <1>4, <2>5
    <3>2. kernelId[u] \in DOMAIN files /\ files[kernelId[u]].launch = launch[u]
      BY <3>1 DEF CaptureInv, DumperIsAlone, AfterFile
    <3>3. kernelId'[u] \in DOMAIN files' /\ files'[kernelId'[u]].launch = launch'[u]
      BY <3>1, <3>2 DEF FilesKept
    <3>4. CASE u = t
      BY <1>1, <3>1, <3>3, <3>4
    <3>5. CASE u # t
      <4>1. files'[kernelId[u]] = files[kernelId[u]]
        BY <1>2, <1>7, <3>1, <3>2, <3>5 DEF FilesKept
      <4> QED
        BY <1>1, <3>1, <3>3, <3>5, <4>1 DEF CaptureInv, DumperIsAlone
    <3> QED
      BY <3>4, <3>5
  <2>6. DOMAIN files' # {} => RequestIsPast'
    BY <2>1 DEF CaptureInv, DumperIsAlone, FilesKept
  <2> QED
    BY <2>2, <2>3, <2>4, <2>5, <2>6 DEF DumperIsAlone, BeforeFile, AfterFile
<1>12. OneRequestedDump'
  BY DEF CaptureInv, OneRequestedDump, FilesKept
<1>13. KernelStatesAreExact'
  <2>1. {u \in Threads : pc'[u] \in Tracked} = {u \in Threads : pc[u] \in Tracked}
    BY <1>5
  <2>2. \A u \in Threads : pc[u] \in Tracked =>
          launch'[u] = launch[u] /\ kernelId'[u] = kernelId[u]
    BY <1>2, <1>4, <1>5
  <2>3. DOMAIN kernelStates' = {kernelId'[u] : u \in {v \in Threads : pc'[v] \in Tracked}}
    BY <1>3, <2>1, <2>2 DEF CaptureInv, KernelStatesAreExact
  <2>4. \A u, v \in {w \in Threads : pc'[w] \in Tracked} : kernelId'[u] = kernelId'[v] => u = v
    BY <1>2, <1>10 DEF IdsAreUnique
  <2>5. ASSUME NEW u \in Threads, pc'[u] \in Tracked,
               kernelStates'[kernelId'[u]].dumpPath # NoPath
        PROVE  /\ kernelStates'[kernelId'[u]].dumpPath = kernelId'[u]
               /\ kernelId'[u] \in DOMAIN files'
               /\ files'[kernelId'[u]].input = "complete"
               /\ files'[kernelId'[u]].launch = launch'[u]
    <3>1. /\ pc[u] \in Tracked /\ pc[u] \in HasId
          /\ launch'[u] = launch[u] /\ kernelId'[u] = kernelId[u]
      BY <1>2, <1>5, <2>2, <2>5
    <3>2. /\ kernelStates[kernelId[u]].dumpPath # NoPath
          /\ kernelStates[kernelId[u]].dumpPath = kernelId[u]
          /\ kernelId[u] \in DOMAIN files
          /\ files[kernelId[u]].input = "complete"
          /\ files[kernelId[u]].launch = launch[u]
      BY <1>3, <2>5, <3>1 DEF CaptureInv, KernelStatesAreExact
    <3>3. pc[u] \notin Dumping
      BY <3>2 DEF CaptureInv, DumperIsAlone
    <3>4. u # t => files'[kernelId[u]] = files[kernelId[u]]
      BY <1>7, <3>1, <3>2 DEF FilesKept
    <3>5. files'[kernelId[u]].input = "complete" /\ files'[kernelId[u]].launch = launch[u]
      BY <3>2, <3>3, <3>4 DEF FilesKept
    <3> QED
      BY <1>3, <3>1, <3>2, <3>5 DEF FilesKept
  <2> QED
    BY <2>3, <2>4, <2>5 DEF KernelStatesAreExact
<1> QED
  BY <1>8, <1>9, <1>10, <1>11, <1>12, <1>13 DEF CaptureInv

(* Fences and snapshots, and the launch itself, touch no file. *)
LEMMA FenceAndSubmitPreserve ==
    ASSUME CaptureInv, NEW t \in Threads, CallFence(t) \/ TakeSnapshot(t) \/ Submit(t)
    PROVE  CaptureInv'
<1>1. UNCHANGED <<toolLoaded, dumpKernelLabel, dumpKernelInvocation, stateVars, files, launch,
                  kernelId>>
  BY DEF CallFence, TakeSnapshot, Submit, toolVars, fileVars, localVars
<1>2. FilesKept(t)
  BY <1>1 DEF FilesKept, CaptureInv, CaptureTypes
<1>3. PICK label \in Steps :
        /\ pc' = [pc EXCEPT ![t] = label]
        /\ <<pc[t], label>> \in {<<"fenceInput", "awaitInput">>, <<"fenceOutput", "awaitOutput">>,
                                 <<"awaitInput", "createFile">>, <<"awaitOutput", "openFile">>,
                                 <<"submit", "endKernel">>}
  BY DEF CallFence, TakeSnapshot, Submit, Goto, Steps, Tracked, Dumping, Ending
<1>4. /\ pc[t] \in HasId \ {"countInvocation"} /\ label \in HasId \ {"countInvocation"}
      /\ label \in Tracked <=> pc[t] \in Tracked
      /\ label \in BeforeFile => pc[t] \in BeforeFile
      /\ label \notin AfterFile /\ label # "setPath" /\ label # "idle"
  BY <1>3 DEF HasId, Tracked, Dumping, Ending, BeforeFile, AfterFile
<1>5. DOMAIN launch' = Threads /\ kernelId' \in [Threads -> Nat]
  BY <1>1 DEF CaptureInv, CaptureTypes
<1> QED
  BY <1>1, <1>2, <1>3, <1>4, <1>5, StepPreserves

(* The other steps of create_kernel_dump after the file was created. *)
LEMMA InputPreserves ==
    ASSUME CaptureInv, NEW t \in Threads, WriteInput(t) \/ FinishInput(t) \/ FailInput(t)
    PROVE  CaptureInv'
<1>1. UNCHANGED <<toolLoaded, dumpKernelLabel, dumpKernelInvocation, stateVars, launch, kernelId>>
  BY DEF WriteInput, FinishInput, FailInput, WriteUnchanged, toolVars
<1>2. pc \in [Threads -> Steps] /\ \A id \in DOMAIN files : DOMAIN files[id] = FileFields
  BY DEF CaptureInv, CaptureTypes
<1>3. FilesKept(t)
  <2>1. CASE WriteInput(t)
    <3>1. pc[t] = "writeInput" /\ \E groups : files' = [files EXCEPT ![kernelId[t]].in = groups]
      BY <2>1 DEF WriteInput
    <3> QED
      BY <1>2, <3>1 DEF FilesKept, FileFields, Dumping
  <2>2. CASE FinishInput(t)
    BY <1>2, <2>2 DEF FilesKept, FileFields, Dumping, FinishInput
  <2>3. CASE FailInput(t)
    BY <1>2, <2>3 DEF FilesKept, FileFields, Dumping, FailInput
  <2> QED
    BY <2>1, <2>2, <2>3
<1>4. PICK label \in Steps :
        /\ pc' = [pc EXCEPT ![t] = label]
        /\ <<pc[t], label>> \in {<<"writeInput", "writeInput">>, <<"writeInput", "setPath">>,
                                 <<"writeInput", "submit">>, <<"createFile", "submit">>}
        /\ label = "setPath" => FinishInput(t)
  <2>1. CASE WriteInput(t)
    <3>1. pc' = [pc EXCEPT ![t] = "writeInput"] /\ pc[t] = "writeInput"
      BY <1>2, <2>1 DEF WriteInput
    <3> QED
      BY <3>1 DEF Steps, Tracked, Dumping
  <2>2. CASE FinishInput(t)
    BY <2>2 DEF FinishInput, Goto, Steps, Tracked, Dumping
  <2>3. CASE FailInput(t)
    BY <2>3 DEF FailInput, Goto, Steps, Tracked, Dumping
  <2> QED
    BY <2>1, <2>2, <2>3
<1>5. label = "setPath" => files'[kernelId[t]].input = "complete"
  <2> SUFFICES ASSUME FinishInput(t) PROVE files'[kernelId[t]].input = "complete"
    BY <1>4
  <2>1. kernelId[t] \in DOMAIN files
    BY DEF FinishInput, CaptureInv, DumperIsAlone
  <2> QED
    BY <1>2, <2>1 DEF FinishInput, FileFields
<1>6. /\ pc[t] \in HasId \ {"countInvocation"} /\ label \in HasId \ {"countInvocation"}
      /\ label \in Tracked <=> pc[t] \in Tracked
      /\ label \notin BeforeFile /\ (label \in AfterFile => pc[t] = "writeInput")
      /\ label # "idle"
  BY <1>4 DEF HasId, Tracked, Dumping, Ending, BeforeFile, AfterFile
<1>7. DOMAIN launch' = Threads /\ kernelId' \in [Threads -> Nat]
  BY <1>1 DEF CaptureInv, CaptureTypes
<1> QED
  BY <1>1, <1>3, <1>4, <1>5, <1>6, <1>7, StepPreserves

(* The steps of append_kernel_output. *)
LEMMA OutputPreserves ==
    ASSUME CaptureInv, NEW t \in Threads,
           OpenFile(t) \/ WriteOutput(t) \/ FinishOutput(t) \/ FailOutput(t)
    PROVE  CaptureInv'
<1>1. UNCHANGED <<toolLoaded, dumpKernelLabel, dumpKernelInvocation, stateVars>>
  BY DEF OpenFile, WriteOutput, FinishOutput, FailOutput, WriteUnchanged, toolVars
<1>2. /\ pc \in [Threads -> Steps] /\ \A id \in DOMAIN files : DOMAIN files[id] = FileFields
      /\ DOMAIN launch = Threads /\ kernelId \in [Threads -> Nat]
  BY DEF CaptureInv, CaptureTypes
<1>3. FilesKept(t)
  <2>1. CASE OpenFile(t)
    BY <1>2, <2>1 DEF FilesKept, FileFields, OpenFile
  <2>2. CASE WriteOutput(t)
    <3>1. \E groups : files' = [files EXCEPT ![kernelId[t]].out = groups]
      BY <2>2 DEF WriteOutput
    <3> QED
      BY <1>2, <3>1 DEF FilesKept, FileFields
  <2>3. CASE FinishOutput(t)
    BY <1>2, <2>3 DEF FilesKept, FileFields, FinishOutput
  <2>4. CASE FailOutput(t)
    BY <1>2, <2>4 DEF FilesKept, FileFields, FailOutput
  <2> QED
    BY <2>1, <2>2, <2>3, <2>4
<1>4. PICK label \in Steps :
        /\ pc' = [pc EXCEPT ![t] = label]
        /\ <<pc[t], label>> \in {<<"openFile", "writeOutput">>, <<"writeOutput", "writeOutput">>,
                                 <<"writeOutput", "idle">>, <<"openFile", "idle">>}
        /\ DOMAIN launch' = Threads /\ kernelId' \in [Threads -> Nat]
        /\ \A u \in Threads : u # t \/ label # "idle" =>
             launch'[u] = launch[u] /\ kernelId'[u] = kernelId[u]
  <2>1. CASE OpenFile(t)
    BY <1>2, <2>1 DEF OpenFile, Goto, WriteUnchanged, Steps, Ending
  <2>2. CASE WriteOutput(t)
    <3>1. pc' = [pc EXCEPT ![t] = "writeOutput"] /\ pc[t] = "writeOutput"
      BY <1>2, <2>2 DEF WriteOutput
    <3> QED
      BY <1>2, <2>2, <3>1 DEF WriteOutput, WriteUnchanged, Steps, Ending
  <2>3. CASE FinishOutput(t)
    BY <1>2, <2>3 DEF FinishOutput, Return, Goto, Steps, Ending
  <2>4. CASE FailOutput(t)
    BY <1>2, <2>4 DEF FailOutput, Return, Goto, Steps, Ending
  <2> QED
    BY <2>1, <2>2, <2>3, <2>4
<1>5. /\ pc[t] \in HasId \ {"countInvocation"}
      /\ label \in HasId \ {"countInvocation"} \/ label = "idle"
      /\ label \in Tracked <=> pc[t] \in Tracked
      /\ label \notin BeforeFile /\ label \notin AfterFile /\ label # "setPath"
  BY <1>4 DEF HasId, Tracked, Dumping, Ending, BeforeFile, AfterFile
<1> QED
  BY <1>1, <1>3, <1>4, <1>5, StepPreserves

(* The only dumping thread creates the only file. *)
LEMMA CreateFilePreserves ==
    ASSUME CaptureInv, NEW t \in Threads, CreateFile(t)
    PROVE  CaptureInv'
<1> DEFINE k == kernelId[t]
<1>1. /\ pc[t] = "createFile" /\ pc' = [pc EXCEPT ![t] = "writeInput"]
      /\ UNCHANGED <<toolLoaded, dumpKernelLabel, dumpKernelInvocation, nextKernelId,
                     kernelStates, kernelInvocations, launch, kernelId>>
  BY DEF CreateFile, Goto, WriteUnchanged, toolVars, stateVars
<1>2. /\ pc \in [Threads -> Steps] /\ pc' \in [Threads -> Steps]
      /\ pc'[t] = "writeInput" /\ \A u \in Threads \ {t} : pc'[u] = pc[u]
  BY <1>1 DEF CaptureInv, CaptureTypes, Steps, Tracked, Dumping
<1>3. /\ pc[t] \in Dumping /\ pc'[t] \in Dumping /\ pc[t] \in Tracked /\ pc'[t] \in Tracked
      /\ pc[t] \in HasId /\ pc'[t] \in HasId /\ Dumping \subseteq Tracked
  BY <1>1, <1>2 DEF Dumping, Tracked, HasId
<1>4. /\ DOMAIN files = {} /\ RequestIsPast /\ launch[t].label = dumpKernelLabel
      /\ kernelStates[k].invocation = dumpKernelInvocation
      /\ kernelStates[k].dumpPath = NoPath
      /\ \A u \in Threads \ {t} : pc[u] \notin Dumping
  BY <1>1, <1>3 DEF CaptureInv, DumperIsAlone
<1>5. /\ DOMAIN files' = {k} /\ DOMAIN files'[k] = FileFields
      /\ files'[k].launch = launch[t] /\ files'[k].label = launch[t].label
      /\ files'[k].invocation = kernelStates[k].invocation
  BY <1>4 DEF CreateFile, FileFields
<1>6. \A u \in Threads : (pc'[u] \in HasId <=> pc[u] \in HasId)
                         /\ (pc'[u] \in Tracked <=> pc[u] \in Tracked)
                         /\ (pc'[u] \in Dumping => u = t)
  BY <1>2, <1>3, <1>4
<1>7. CaptureTypes'
  BY <1>1, <1>2, <1>5 DEF CaptureInv, CaptureTypes
<1>8. NothingBeforeLoad'
  BY <1>1 DEF CaptureInv, NothingBeforeLoad
<1>9. IdsAreUnique'
  BY <1>1, <1>6 DEF CaptureInv, IdsAreUnique
<1>10. DumperIsAlone'
  <2>1. RequestIsPast'
    BY <1>1, <1>4 DEF RequestIsPast
  <2>2. \A u \in Threads : pc'[u] \in {"fenceInput", "awaitInput", "createFile", "setPath"} => FALSE
    BY <1>2, <1>6 DEF Dumping
  <2>3. \A u \in Threads : pc'[u] = "writeInput" => u = t
    BY <1>6 DEF Dumping
  <2> QED
    BY <1>1, <1>4, <1>5, <1>6, <2>1, <2>2, <2>3 DEF DumperIsAlone
<1>11. OneRequestedDump'
  BY <1>1, <1>4, <1>5 DEF OneRequestedDump
<1>12. KernelStatesAreExact'
  <2>1. {u \in Threads : pc'[u] \in Tracked} = {u \in Threads : pc[u] \in Tracked}
    BY <1>6
  <2>2. \A u \in Threads : pc[u] \in Tracked => kernelStates[kernelId[u]].dumpPath = NoPath
    BY <1>4 DEF CaptureInv, KernelStatesAreExact
  <2> QED
    BY <1>1, <2>1, <2>2 DEF CaptureInv, KernelStatesAreExact
<1> QED
  BY <1>7, <1>8, <1>9, <1>10, <1>11, <1>12 DEF CaptureInv

(* begin_kernel stores the path of the dump in the thread's own entry. *)
LEMMA SetPathPreserves ==
    ASSUME CaptureInv, NEW t \in Threads, SetPath(t)
    PROVE  CaptureInv'
<1> DEFINE k == kernelId[t]
<1>1. /\ pc[t] = "setPath" /\ pc' = [pc EXCEPT ![t] = "submit"]
      /\ kernelStates' = IF k \in DOMAIN kernelStates
                         THEN [kernelStates EXCEPT ![k].dumpPath = k] ELSE kernelStates
      /\ UNCHANGED <<toolLoaded, dumpKernelLabel, dumpKernelInvocation, nextKernelId,
                     kernelInvocations, files, launch, kernelId>>
  BY DEF SetPath, Goto, toolVars, fileVars, localVars
<1>2. /\ pc \in [Threads -> Steps] /\ pc' \in [Threads -> Steps] /\ k \in Nat
      /\ pc'[t] = "submit" /\ \A u \in Threads \ {t} : pc'[u] = pc[u]
  BY <1>1 DEF CaptureInv, CaptureTypes, Steps, Tracked, Dumping
<1>3. /\ pc[t] \in Dumping /\ pc'[t] \notin Dumping /\ pc[t] \in Tracked /\ pc'[t] \in Tracked
      /\ pc[t] \in HasId /\ pc'[t] \in HasId /\ Dumping \subseteq Tracked
      /\ Tracked \subseteq HasId
  BY <1>1, <1>2 DEF Dumping, Tracked, HasId
<1>4. /\ \A u \in Threads \ {t} : pc[u] \notin Dumping
      /\ k \in DOMAIN files /\ files[k].launch = launch[t] /\ files[k].input = "complete"
  BY <1>1, <1>3 DEF CaptureInv, DumperIsAlone
<1>5. \A u \in Threads : (pc'[u] \in HasId <=> pc[u] \in HasId)
                         /\ (pc'[u] \in Tracked <=> pc[u] \in Tracked)
                         /\ pc'[u] \notin Dumping
  BY <1>2, <1>3, <1>4
<1>6. k \in DOMAIN kernelStates
  BY <1>3 DEF CaptureInv, KernelStatesAreExact
<1>7. /\ DOMAIN kernelStates' = DOMAIN kernelStates
      /\ kernelStates'[k].dumpPath = k
      /\ kernelStates'[k] \in [invocation : Nat, dumpPath : Nat]
      /\ \A id \in DOMAIN kernelStates \ {k} : kernelStates'[id] = kernelStates[id]
  BY <1>1, <1>2, <1>6 DEF CaptureInv, CaptureTypes
<1>8. CaptureTypes'
  <2>1. \A id \in DOMAIN kernelStates' : kernelStates'[id] \in [invocation : Nat, dumpPath : Nat]
    BY <1>7 DEF CaptureInv, CaptureTypes
  <2>2. \A u \in Threads : pc'[u] # "idle" => launch'[u].label \in KernelLabels
    BY <1>1, <1>2 DEF CaptureInv, CaptureTypes
  <2> QED
    BY <1>1, <1>2, <2>1, <2>2 DEF CaptureInv, CaptureTypes
<1>9. NothingBeforeLoad'
  BY <1>1 DEF CaptureInv, NothingBeforeLoad
<1>10. IdsAreUnique'
  BY <1>1, <1>5 DEF CaptureInv, IdsAreUnique
<1>11. DumperIsAlone'
  <2>1. RequestIsPast => RequestIsPast'
    BY <1>1 DEF RequestIsPast
  <2>2. \A u \in Threads : pc'[u] \notin {"fenceInput", "awaitInput", "createFile"}
                           /\ pc'[u] \notin {"writeInput", "setPath"} /\ pc'[u] # "setPath"
    BY <1>5 DEF Dumping
  <2> QED
    BY <1>1, <1>5, <2>1, <2>2 DEF CaptureInv, DumperIsAlone
<1>12. OneRequestedDump'
  BY <1>1 DEF CaptureInv, OneRequestedDump
<1>13. KernelStatesAreExact'
  <2>1. {u \in Threads : pc'[u] \in Tracked} = {u \in Threads : pc[u] \in Tracked}
    BY <1>5
  <2>2. \A u \in Threads \ {t} : pc[u] \in Tracked =>
          kernelId[u] # k /\ kernelId[u] \in DOMAIN kernelStates
    BY <1>3 DEF CaptureInv, IdsAreUnique, KernelStatesAreExact
  <2>3. \A u \in Threads \ {t} : pc[u] \in Tracked =>
          kernelStates'[kernelId[u]] = kernelStates[kernelId[u]]
    BY <1>7, <2>2
  <2>4. DOMAIN kernelStates' = {kernelId'[u] : u \in {v \in Threads : pc'[v] \in Tracked}}
    BY <1>1, <1>7, <2>1 DEF CaptureInv, KernelStatesAreExact
  <2>5. \A u, v \in {w \in Threads : pc'[w] \in Tracked} : kernelId'[u] = kernelId'[v] => u = v
    BY <1>3, <1>10 DEF IdsAreUnique
  <2>6. ASSUME NEW u \in Threads, pc'[u] \in Tracked,
               kernelStates'[kernelId'[u]].dumpPath # NoPath
        PROVE  /\ kernelStates'[kernelId'[u]].dumpPath = kernelId'[u]
               /\ kernelId'[u] \in DOMAIN files'
               /\ files'[kernelId'[u]].input = "complete"
               /\ files'[kernelId'[u]].launch = launch'[u]
    <3>1. CASE u = t
      BY <1>1, <1>4, <1>7, <3>1
    <3>2. CASE u # t
      BY <1>1, <1>5, <2>3, <2>6, <3>2 DEF CaptureInv, KernelStatesAreExact
    <3> QED
      BY <3>1, <3>2
  <2> QED
    BY <2>4, <2>5, <2>6 DEF KernelStatesAreExact
<1> QED
  BY <1>8, <1>9, <1>10, <1>11, <1>12, <1>13 DEF CaptureInv

(* end_kernel removes the thread's own entry. *)
LEMMA EndKernelPreserves ==
    ASSUME CaptureInv, NEW t \in Threads, EndKernel(t)
    PROVE  CaptureInv'
<1> DEFINE k == kernelId[t]
<1>1. PICK label \in {"fenceOutput", "idle"} :
        /\ pc[t] = "endKernel" /\ pc' = [pc EXCEPT ![t] = label]
        /\ DOMAIN launch' = Threads /\ kernelId' \in [Threads -> Nat]
        /\ \A u \in Threads : u # t \/ label # "idle" =>
             launch'[u] = launch[u] /\ kernelId'[u] = kernelId[u]
        /\ kernelStates' = [id \in DOMAIN kernelStates \ {k} |-> kernelStates[id]]
        /\ UNCHANGED <<toolLoaded, dumpKernelLabel, dumpKernelInvocation, nextKernelId,
                       kernelInvocations, files>>
  BY DEF CaptureInv, CaptureTypes, EndKernel, Return, Goto, toolVars, fileVars
<1>2. /\ pc \in [Threads -> Steps] /\ pc' \in [Threads -> Steps]
      /\ pc'[t] = label /\ \A u \in Threads \ {t} : pc'[u] = pc[u]
  BY <1>1 DEF CaptureInv, CaptureTypes, Steps, Ending
<1>3. /\ pc[t] \notin Dumping /\ pc'[t] \notin Tracked /\ pc[t] \in HasId /\ pc[t] \in Tracked
      /\ Dumping \subseteq Tracked /\ Tracked \subseteq HasId
      /\ pc'[t] \in HasId => label # "idle"
  BY <1>1, <1>2 DEF Dumping, Tracked, HasId, Ending
<1>4. \A u \in Threads : pc'[u] \in HasId =>
        pc[u] \in HasId /\ launch'[u] = launch[u] /\ kernelId'[u] = kernelId[u]
  BY <1>1, <1>2, <1>3
<1>5. \A u \in Threads : pc'[u] \in Tracked =>
        u # t /\ pc'[u] = pc[u] /\ launch'[u] = launch[u] /\ kernelId'[u] = kernelId[u]
  BY <1>1, <1>2, <1>3
<1>6. \A u \in Threads \ {t} : pc[u] \in Tracked =>
        kernelId[u] # k /\ kernelId[u] \in DOMAIN kernelStates
  BY <1>3 DEF CaptureInv, IdsAreUnique, KernelStatesAreExact
<1>7. \A u \in Threads : pc'[u] \in Tracked =>
        kernelStates'[kernelId'[u]] = kernelStates[kernelId[u]]
  BY <1>1, <1>5, <1>6
<1>8. CaptureTypes'
  <2>1. \A id \in DOMAIN kernelStates' : kernelStates'[id] \in [invocation : Nat, dumpPath : Nat]
    BY <1>1 DEF CaptureInv, CaptureTypes
  <2>2. \A u \in Threads : pc'[u] # "idle" => launch'[u].label \in KernelLabels
    BY <1>1, <1>2 DEF CaptureInv, CaptureTypes
  <2> QED
    BY <1>1, <1>2, <2>1, <2>2 DEF CaptureInv, CaptureTypes
<1>9. NothingBeforeLoad'
  BY <1>1 DEF CaptureInv, NothingBeforeLoad
<1>10. IdsAreUnique'
  BY <1>1, <1>4 DEF CaptureInv, IdsAreUnique
<1>11. DumperIsAlone'
  <2>1. RequestIsPast => RequestIsPast'
    BY <1>1 DEF RequestIsPast
  <2>2. \A u \in Threads : pc'[u] \in Dumping =>
          /\ pc[u] = pc'[u] /\ launch'[u] = launch[u] /\ kernelId'[u] = kernelId[u]
          /\ kernelStates'[kernelId'[u]] = kernelStates[kernelId[u]]
    BY <1>3, <1>5, <1>7
  <2>3. {"fenceInput", "awaitInput", "createFile"} \subseteq Dumping
        /\ {"writeInput", "setPath"} \subseteq Dumping
    BY DEF Dumping
  <2>4. \A u, v \in Threads : pc'[u] \in Dumping /\ pc'[v] \in Dumping => u = v
    BY <2>2 DEF CaptureInv, DumperIsAlone
  <2>5. \A u \in Threads : pc'[u] \in Dumping =>
          /\ RequestIsPast'
          /\ launch'[u].label = dumpKernelLabel'
          /\ kernelStates'[kernelId'[u]].invocation = dumpKernelInvocation'
          /\ kernelStates'[kernelId'[u]].dumpPath = NoPath
    <3>1. UNCHANGED <<dumpKernelLabel, dumpKernelInvocation>>
      BY <1>1
    <3> QED
      BY <2>1, <2>2, <3>1 DEF CaptureInv, DumperIsAlone
  <2>6. \A u \in Threads :
          /\ pc'[u] \in {"fenceInput", "awaitInput", "createFile"} => DOMAIN files' = {}
          /\ pc'[u] \in {"writeInput", "setPath"} =>
               kernelId'[u] \in DOMAIN files' /\ files'[kernelId'[u]].launch = launch'[u]
          /\ pc'[u] = "setPath" => files'[kernelId'[u]].input = "complete"
    BY <1>1, <2>2, <2>3 DEF CaptureInv, DumperIsAlone
  <2>7. DOMAIN files' # {} => RequestIsPast'
    BY <1>1, <2>1 DEF CaptureInv, DumperIsAlone
  <2> QED
    BY <2>4, <2>5, <2>6, <2>7 DEF DumperIsAlone
<1>12. OneRequestedDump'
  BY <1>1 DEF CaptureInv, OneRequestedDump
<1>13. KernelStatesAreExact'
  <2>1. {u \in Threads : pc'[u] \in Tracked} = {u \in Threads : pc[u] \in Tracked} \ {t}
    BY <1>2, <1>3
  <2>2. DOMAIN kernelStates' = {kernelId'[u] : u \in {v \in Threads : pc'[v] \in Tracked}}
    <3>1. DOMAIN kernelStates = {kernelId[u] : u \in {v \in Threads : pc[v] \in Tracked}}
      BY DEF CaptureInv, KernelStatesAreExact
    <3>2. DOMAIN kernelStates' = DOMAIN kernelStates \ {k}
      BY <1>1
    <3> QED
      BY <1>5, <1>6, <2>1, <3>1, <3>2
  <2>3. \A u, v \in {w \in Threads : pc'[w] \in Tracked} : kernelId'[u] = kernelId'[v] => u = v
    BY <1>3, <1>10 DEF IdsAreUnique
  <2>4. ASSUME NEW u \in Threads, pc'[u] \in Tracked,
               kernelStates'[kernelId'[u]].dumpPath # NoPath
        PROVE  /\ kernelStates'[kernelId'[u]].dumpPath = kernelId'[u]
               /\ kernelId'[u] \in DOMAIN files'
               /\ files'[kernelId'[u]].input = "complete"
               /\ files'[kernelId'[u]].launch = launch'[u]
    BY <1>1, <1>5, <1>7, <2>4 DEF CaptureInv, KernelStatesAreExact
  <2> QED
    BY <2>2, <2>3, <2>4 DEF KernelStatesAreExact
<1> QED
  BY <1>8, <1>9, <1>10, <1>11, <1>12, <1>13 DEF CaptureInv

-----------------------------------------------------------------------------
(* krepe::parallel_for and krepe::replay_functor before begin_kernel.      *)
LEMMA ReplayFunctorPreserves ==
    ASSUME CaptureInv, NEW t \in Threads,
           \/ CheckNextInvocation(t) \/ RegisterPolicy(t) \/ ClearViews(t)
           \/ AllViewsRegistered(t) \/ CopyFunctor(t)
    PROVE  CaptureInv'
<1>1. PICK label \in Labelled : Goto(t, label) /\ pc[t] \in Labelled
  BY DEF CheckNextInvocation, RegisterPolicy, ClearViews, AllViewsRegistered, CopyFunctor,
         ReplayFunctor, Labelled
<1>2. UNCHANGED <<toolLoaded, dumpKernelLabel, dumpKernelInvocation, stateVars, files, launch,
                  kernelId>>
  BY DEF CheckNextInvocation, RegisterPolicy, ClearViews, AllViewsRegistered, CopyFunctor,
         toolVars, fileVars, localVars
<1>3. pc[t] # "idle"
  BY <1>1 DEF Labelled
<1>4. DOMAIN launch' = Threads /\ launch'[t].label \in KernelLabels
  BY <1>2, <1>3 DEF CaptureInv, CaptureTypes
<1>5. toolLoaded
  BY <1>3, Zenon DEF CaptureInv, NothingBeforeLoad
<1> QED
  BY <1>1, <1>2, <1>4, <1>5, LabelledPreserves

(* A launch starts. *)
LEMMA StartLaunchPreserves ==
    ASSUME CaptureInv, NEW t \in Threads, NEW mode \in Modes, NEW label \in KernelLabels,
           NEW captures, StartLaunch(t, mode, label, captures)
    PROVE  CaptureInv'
<1>1. \E l \in Labelled : Goto(t, l)
  <2>1. mode \in {"krepe", "manual", "plain"}
    BY CaptureAssumption DEF LaunchModes
  <2> QED
    BY <2>1 DEF StartLaunch, ReplayFunctor, Labelled
<1>2. pc[t] = "idle" /\ toolLoaded
  BY DEF StartLaunch
<1>3. UNCHANGED <<toolLoaded, dumpKernelLabel, dumpKernelInvocation, stateVars, files, kernelId>>
  BY DEF StartLaunch, toolVars, fileVars
<1>4. /\ DOMAIN launch' = Threads /\ launch'[t].label \in KernelLabels
      /\ \A u \in Threads \ {t} : launch'[u] = launch[u]
  BY DEF StartLaunch, CaptureInv, CaptureTypes
<1> QED
  BY <1>1, <1>2, <1>3, <1>4, LabelledPreserves

(* The invariant is inductive. *)
LEMMA CaptureInvNext == CaptureInv /\ [Next]_vars => CaptureInv'
<1> SUFFICES ASSUME CaptureInv, [Next]_vars PROVE CaptureInv'
  OBVIOUS
<1>1. CASE \E args \in ToolArgs : LoadTool(args)
  BY <1>1, LoadToolPreserves
<1>2. ASSUME NEW t \in Threads,
             \/ \E key \in MetadataKeys, value \in MetadataValues : AddMetadata(t, key, value)
             \/ Allocate(t)
             \/ \E k \in DOMAIN heap : Deallocate(t, k)
             \/ RegisterCapture(t)
      PROVE  CaptureInv'
  <2>1. UNCHANGED captureVars
    BY <1>2 DEF AddMetadata, Allocate, Deallocate, RegisterCapture, captureVars, toolVars,
                stateVars, fileVars, localVars
  <2> QED
    BY <2>1, FramePreserves
<1>3. ASSUME NEW t \in Threads, NEW mode \in Modes, NEW label \in KernelLabels,
             NEW captures \in SUBSET DOMAIN activeAllocations,
             StartLaunch(t, mode, label, captures)
      PROVE  CaptureInv'
  BY <1>3, StartLaunchPreserves
<1>4. CASE DeviceStep
  <2>1. UNCHANGED captureVars
    BY <1>4 DEF DeviceStep, RunKernel, captureVars, toolVars, stateVars, fileVars, localVars
  <2> QED
    BY <2>1, FramePreserves
<1>5. ASSUME NEW t \in Threads, ThreadStep(t), ~RegisterCapture(t)
      PROVE  CaptureInv'
  BY <1>5, ReplayFunctorPreserves, TakeIdPreserves, CountInvocationPreserves,
     FenceAndSubmitPreserve, CreateFilePreserves, InputPreserves, SetPathPreserves,
     EndKernelPreserves, OutputPreserves DEF ThreadStep
<1>6. CASE UNCHANGED vars
  <2>1. UNCHANGED captureVars
    BY <1>6 DEF vars, captureVars, toolVars, stateVars, fileVars, localVars
  <2> QED
    BY <2>1, FramePreserves
<1> QED
  BY <1>1, <1>2, <1>3, <1>4, <1>5, <1>6 DEF Next, Application

(* The invariant holds throughout. *)
LEMMA CaptureInvariant == Spec => []CaptureInv
  BY CaptureInvInit, CaptureInvNext, PTL DEF Spec

-----------------------------------------------------------------------------
(* However many threads launch kernels, a process writes at most one dump, *)
(* and it is the invocation that was asked for.                            *)
THEOREM DumpIsTheRequestedOne == Spec => []OneRequestedDump
<1>1. CaptureInv => OneRequestedDump
  BY DEF CaptureInv
<1> QED
  BY <1>1, CaptureInvariant, PTL

(* However begin_kernel and end_kernel of different threads interleave, no *)
(* entry of kernel_states leaks, is shared or names an incomplete dump.    *)
THEOREM KernelStatesExact == Spec => []KernelStatesAreExact
<1>1. CaptureInv => KernelStatesAreExact
  BY DEF CaptureInv
<1> QED
  BY <1>1, CaptureInvariant, PTL

-----------------------------------------------------------------------------
(* The capture tool implements DumpLifecycle: its initial states map to    *)
(* the initial state of the lifecycle, and every step of a thread, of the  *)
(* application or of the device to one of its steps or to a stutter.       *)

(* The invariant that this needs: what a thread between two accesses to    *)
(* its file may rely on.                                                   *)

(* /out is begun only behind a complete /in. *)
PhasesAreOrdered ==
    \A id \in DOMAIN files :
        /\ files[id].input \in Phases \ {"absent"} /\ files[id].output \in Phases
        /\ files[id].output # "absent" => files[id].input = "complete"

(* What thread t knows of its own file at its program point. *)
KnowsItsFile(t) ==
    /\ pc[t] = "writeInput" => files[kernelId[t]].input = "open"
    /\ pc[t] = "setPath" => files[kernelId[t]].output = "absent"
    /\ (pc[t] \in Tracked /\ kernelStates[kernelId[t]].dumpPath # NoPath)
         => files[kernelId[t]].output = "absent"
    /\ pc[t] \in Ending =>
         /\ kernelId[t] \in DOMAIN files
         /\ files[kernelId[t]].launch = launch[t]
         /\ files[kernelId[t]].input = "complete"
         /\ files[kernelId[t]].output = IF pc[t] = "writeOutput" THEN "open" ELSE "absent"

WritersInv ==
    /\ PhasesAreOrdered
    /\ \A t \in Threads : KnowsItsFile(t)

(* No file exists at first. *)
LEMMA WritersInvInit == Init => WritersInv
<1> SUFFICES ASSUME Init PROVE WritersInv
  OBVIOUS
<1>1. DOMAIN files = {} /\ \A t \in Threads : pc[t] = "idle"
  BY DEF Init
<1>2. "idle" \notin Tracked /\ "idle" \notin Ending
  BY DEF Tracked, Dumping, Ending
<1> QED
  BY <1>1, <1>2 DEF WritersInv, PhasesAreOrdered, KnowsItsFile

(* A step of thread t that touches no other thread's file or entry: ids    *)
(* being unique, the other threads still know their files.                 *)
LEMMA OthersKnowTheirFiles ==
    ASSUME CaptureInv, WritersInv, NEW t \in Threads, NEW u \in Threads \ {t},
           pc'[u] = pc[u], kernelId'[u] = kernelId[u], launch'[u] = launch[u],
           \/ pc[t] \in HasId
           \/ UNCHANGED <<files, kernelStates>>,
           DOMAIN files \subseteq DOMAIN files',
           \A id \in DOMAIN files \ {kernelId[t]} : files'[id] = files[id],
           \A id \in DOMAIN kernelStates \ {kernelId[t]} : kernelStates'[id] = kernelStates[id]
    PROVE  KnowsItsFile(u)'
<1>1. KnowsItsFile(u)
  BY DEF WritersInv
<1>2. {"writeInput", "setPath"} \subseteq Tracked /\ Tracked \subseteq HasId /\ Ending \subseteq HasId
  BY DEF Tracked, Dumping, HasId
<1>3. /\ pc[u] \in Tracked => kernelId[u] \in DOMAIN kernelStates
      /\ pc[u] \in {"writeInput", "setPath"} => kernelId[u] \in DOMAIN files
      /\ (pc[u] \in Tracked /\ kernelStates[kernelId[u]].dumpPath # NoPath)
           => kernelId[u] \in DOMAIN files
  BY DEF CaptureInv, KernelStatesAreExact, DumperIsAlone
<1>4. CASE UNCHANGED <<files, kernelStates>>
  BY <1>1, <1>4 DEF KnowsItsFile
<1>5. CASE pc[t] \in HasId /\ pc[u] \in HasId
  <2>1. kernelId[u] # kernelId[t]
    BY <1>5 DEF CaptureInv, IdsAreUnique
  <2>2. /\ kernelId[u] \in DOMAIN files => files'[kernelId[u]] = files[kernelId[u]]
        /\ kernelId[u] \in DOMAIN kernelStates =>
             kernelStates'[kernelId[u]] = kernelStates[kernelId[u]]
    BY <2>1
  <2> QED
    BY <1>1, <1>3, <2>2 DEF KnowsItsFile
<1>6. CASE pc[u] \notin HasId
  BY <1>2, <1>6 DEF KnowsItsFile
<1> QED
  BY <1>4, <1>5, <1>6

(* A thread that is not inside create_kernel_dump or append_kernel_output. *)
LEMMA OutsideWriters ==
    ASSUME CaptureInv, WritersInv, NEW t \in Threads, NEW label \in Steps \ (Tracked \cup Ending),
           pc' = [pc EXCEPT ![t] = label], pc[t] \notin HasId,
           \A u \in Threads \ {t} : kernelId'[u] = kernelId[u] /\ launch'[u] = launch[u],
           UNCHANGED <<files, kernelStates>>
    PROVE  WritersInv'
<1>1. pc'[t] = label /\ \A u \in Threads \ {t} : pc'[u] = pc[u]
  BY DEF CaptureInv, CaptureTypes
<1>2. PhasesAreOrdered'
  BY DEF WritersInv, PhasesAreOrdered
<1>3. KnowsItsFile(t)'
  BY <1>1 DEF KnowsItsFile, Tracked, Dumping
<1>4. \A u \in Threads \ {t} : KnowsItsFile(u)'
  BY <1>1, OthersKnowTheirFiles
<1> QED
  BY <1>2, <1>3, <1>4 DEF WritersInv

-----------------------------------------------------------------------------
(* begin_kernel and end_kernel leave the file alone. *)
LEMMA KernelHooksKeepWriters ==
    ASSUME CaptureInv, WritersInv, NEW t \in Threads,
           \/ CountInvocation(t) \/ CallFence(t) \/ TakeSnapshot(t) \/ SetPath(t)
           \/ Submit(t) \/ EndKernel(t)
    PROVE  WritersInv' /\ UNCHANGED files
<1> DEFINE k == kernelId[t]
<1>1. PICK label \in Steps :
        /\ pc' = [pc EXCEPT ![t] = label]
        /\ <<pc[t], label>> \in
             {<<"countInvocation", "fenceInput">>, <<"countInvocation", "submit">>,
              <<"fenceInput", "awaitInput">>, <<"fenceOutput", "awaitOutput">>,
              <<"awaitInput", "createFile">>, <<"awaitOutput", "openFile">>,
              <<"setPath", "submit">>, <<"submit", "endKernel">>,
              <<"endKernel", "fenceOutput">>, <<"endKernel", "idle">>}
        /\ pc[t] = "endKernel" /\ label = "fenceOutput" =>
             kernelStates[k].dumpPath # NoPath
        /\ label # "idle" => kernelId'[t] = kernelId[t] /\ launch'[t] = launch[t]
  <2>1. CASE CountInvocation(t)
    BY <2>1 DEF CountInvocation, Goto, Steps, Tracked, Dumping, localVars
  <2>2. CASE CallFence(t) \/ TakeSnapshot(t) \/ SetPath(t) \/ Submit(t)
    BY <2>2 DEF CallFence, TakeSnapshot, SetPath, Submit, Goto, Steps, Tracked, Dumping, Ending,
                localVars
  <2>3. CASE EndKernel(t)
    BY <2>3 DEF EndKernel, Return, Goto, Steps, Tracked, Dumping, Ending
  <2> QED
    BY <2>1, <2>2, <2>3
<1>2. /\ UNCHANGED files
      /\ \A u \in Threads \ {t} : kernelId'[u] = kernelId[u] /\ launch'[u] = launch[u]
  BY DEF CaptureInv, CaptureTypes, CountInvocation, CallFence, TakeSnapshot, SetPath, Submit,
         EndKernel, Return, fileVars, localVars
<1>3. /\ pc'[t] = label /\ \A u \in Threads \ {t} : pc'[u] = pc[u]
      /\ pc[t] \in HasId
  BY <1>1 DEF CaptureInv, CaptureTypes, HasId, Tracked, Dumping, Ending
<1>4. /\ \A id \in DOMAIN kernelStates \ {k} :
           id \in DOMAIN kernelStates' => kernelStates'[id] = kernelStates[id]
      /\ DOMAIN kernelStates \ {k} \subseteq DOMAIN kernelStates'
  BY DEF CountInvocation, CallFence, TakeSnapshot, SetPath, Submit, EndKernel, stateVars
<1>5. pc[t] = "countInvocation" => kernelStates'[k].dumpPath = NoPath
  BY DEF CountInvocation, CallFence, TakeSnapshot, SetPath, Submit, EndKernel
<1>6. pc[t] \in {"fenceInput", "awaitInput", "submit"} => kernelStates' = kernelStates
  BY DEF CountInvocation, CallFence, TakeSnapshot, SetPath, Submit, EndKernel, stateVars
<1>7. PhasesAreOrdered'
  BY <1>2 DEF WritersInv, PhasesAreOrdered
<1>8. KnowsItsFile(t)'
  <2>1. KnowsItsFile(t)
    BY DEF WritersInv
  <2>2. label # "writeInput" /\ label # "setPath" /\ label # "writeOutput"
    BY <1>1
  <2>3. (label \in Tracked /\ kernelStates'[kernelId'[t]].dumpPath # NoPath)
          => files'[kernelId'[t]].output = "absent"
    BY <1>1, <1>2, <1>5, <1>6, <2>1 DEF KnowsItsFile, Tracked, Dumping, Ending
  <2>4. label \in Ending =>
          /\ kernelId'[t] \in DOMAIN files'
          /\ files'[kernelId'[t]].launch = launch'[t]
          /\ files'[kernelId'[t]].input = "complete"
          /\ files'[kernelId'[t]].output = "absent"
    <3>1. pc[t] = "endKernel" /\ label = "fenceOutput" =>
            /\ k \in DOMAIN files /\ files[k].launch = launch[t]
            /\ files[k].input = "complete" /\ files[k].output = "absent"
      BY <1>1, <2>1 DEF KnowsItsFile, CaptureInv, KernelStatesAreExact, Tracked
    <3>2. pc[t] \in {"fenceOutput", "awaitOutput"} =>
            /\ k \in DOMAIN files /\ files[k].launch = launch[t]
            /\ files[k].input = "complete" /\ files[k].output = "absent"
      BY <2>1 DEF KnowsItsFile, Ending
    <3> QED
      BY <1>1, <1>2, <3>1, <3>2 DEF Ending
  <2> QED
    BY <1>3, <2>2, <2>3, <2>4 DEF KnowsItsFile
<1>9. \A u \in Threads \ {t} : KnowsItsFile(u)'
  BY <1>2, <1>3, <1>4, OthersKnowTheirFiles
<1> QED
  BY <1>2, <1>7, <1>8, <1>9 DEF WritersInv

-----------------------------------------------------------------------------
(* What one step does to the only file, from its contents f to g. *)
WritesInput(f, g) ==
    /\ g.launch = f.launch
    /\ f.input = "open" /\ g.input \in {"open", "complete", "failed"}
    /\ f.output = "absent" /\ g.output = "absent"

WritesOutput(f, g) ==
    /\ g.launch = f.launch
    /\ f.input = "complete" /\ g.input = "complete"
    /\ g.in = f.in /\ g.metadata = f.metadata /\ g.policy = f.policy /\ g.functor = f.functor
    /\ <<f.output, g.output>> \in {<<"absent", "open">>, <<"open", "open">>,
                                   <<"open", "complete">>, <<"open", "failed">>}

CreatesFile(k) ==
    /\ DOMAIN files = {} /\ DOMAIN files' = {k}
    /\ files'[k].input = "open" /\ files'[k].output = "absent"

WritesFile(k) ==
    /\ DOMAIN files = {k} /\ DOMAIN files' = {k}
    /\ WritesInput(files[k], files'[k]) \/ WritesOutput(files[k], files'[k])

(* create_kernel_dump and append_kernel_output of one thread, once it is   *)
(* known what it does to its file and where it goes.                       *)
LEMMA WriterStep ==
    ASSUME CaptureInv, WritersInv, NEW t \in Threads, NEW label \in Steps,
           pc' = [pc EXCEPT ![t] = label], pc[t] \in HasId,
           UNCHANGED kernelStates,
           \A u \in Threads \ {t} : kernelId'[u] = kernelId[u] /\ launch'[u] = launch[u],
           label # "idle" => kernelId'[t] = kernelId[t] /\ launch'[t] = launch[t],
           \/ WritesFile(kernelId[t])
           \/ CreatesFile(kernelId[t])
           \/ UNCHANGED files,
           label \notin Ending \/ label = "writeOutput",
           label = "writeInput" =>
             files'[kernelId[t]].input = "open" /\ files'[kernelId[t]].output = "absent",
           label = "setPath" => files'[kernelId[t]].output = "absent",
           label = "writeOutput" =>
             /\ kernelId[t] \in DOMAIN files' /\ files'[kernelId[t]].launch = launch[t]
             /\ files'[kernelId[t]].input = "complete" /\ files'[kernelId[t]].output = "open",
           label \in Tracked => kernelStates[kernelId[t]].dumpPath = NoPath
    PROVE  WritersInv'
<1>1. pc'[t] = label /\ \A u \in Threads \ {t} : pc'[u] = pc[u]
  BY DEF CaptureInv, CaptureTypes
<1>2. DOMAIN files \subseteq DOMAIN files'
  BY DEF WritesFile, CreatesFile
<1>3. \A id \in DOMAIN files \ {kernelId[t]} : files'[id] = files[id]
  BY DEF WritesFile, CreatesFile
<1>4. PhasesAreOrdered'
  <2>1. PhasesAreOrdered
    BY DEF WritersInv
  <2>2. CASE WritesFile(kernelId[t])
    BY <2>2 DEF PhasesAreOrdered, WritesFile, WritesInput, WritesOutput, Phases
  <2>3. CASE CreatesFile(kernelId[t])
    BY <2>3 DEF PhasesAreOrdered, CreatesFile, Phases
  <2> QED
    BY <2>1, <2>2, <2>3 DEF PhasesAreOrdered
<1>5. KnowsItsFile(t)'
  <2>1. /\ "idle" \notin Tracked \cup Ending /\ "setPath" \in Tracked /\ "writeInput" \in Tracked
        /\ "writeOutput" \in Ending
    BY DEF Tracked, Dumping, Ending
  <2> QED
    BY <1>1, <2>1 DEF KnowsItsFile
<1>6. \A u \in Threads \ {t} : KnowsItsFile(u)'
  BY <1>1, <1>2, <1>3, OthersKnowTheirFiles
<1> QED
  BY <1>4, <1>5, <1>6 DEF WritersInv

(* The file of a writing thread is the only one. *)
LEMMA OwnFile ==
    ASSUME CaptureInv, WritersInv, NEW t \in Threads,
           pc[t] \in {"writeInput", "openFile", "writeOutput"}
    PROVE  DOMAIN files = {kernelId[t]} /\ DOMAIN files[kernelId[t]] = FileFields
<1>1. kernelId[t] \in DOMAIN files
  BY DEF CaptureInv, DumperIsAlone, WritersInv, KnowsItsFile, Ending
<1> QED
  BY <1>1 DEF CaptureInv, OneRequestedDump, CaptureTypes

(* create_kernel_dump *)
LEMMA InputKeepsWriters ==
    ASSUME CaptureInv, WritersInv, NEW t \in Threads,
           CreateFile(t) \/ WriteInput(t) \/ FinishInput(t) \/ FailInput(t)
    PROVE  /\ WritersInv'
           /\ UNCHANGED files \/ CreatesFile(kernelId[t]) \/ WritesFile(kernelId[t])
<1> DEFINE k == kernelId[t]
<1>1. UNCHANGED <<kernelStates, kernelId, launch>>
  BY DEF CreateFile, WriteInput, FinishInput, FailInput, WriteUnchanged, stateVars
<1>2. pc[t] \in {"createFile", "writeInput"} /\ pc \in [Threads -> Steps]
  BY DEF CreateFile, WriteInput, FinishInput, FailInput, CaptureInv, CaptureTypes
<1>3. pc[t] \in HasId /\ kernelStates[k].dumpPath = NoPath
  BY <1>2 DEF HasId, Tracked, Dumping, CaptureInv, DumperIsAlone
<1>4. pc[t] = "writeInput" =>
        /\ DOMAIN files = {k} /\ DOMAIN files[k] = FileFields
        /\ files[k].input = "open" /\ files[k].output = "absent"
  BY OwnFile DEF WritersInv, KnowsItsFile, PhasesAreOrdered
<1>5. CASE CreateFile(t)
  <2>1. CreatesFile(k) /\ pc' = [pc EXCEPT ![t] = "writeInput"]
    BY <1>2, <1>5 DEF CreateFile, CreatesFile, Goto, CaptureInv, DumperIsAlone
  <2>2. "writeInput" \in Steps /\ "writeInput" \notin Ending
    BY DEF Steps, Tracked, Dumping, Ending
  <2>3. files'[k].input = "open" /\ files'[k].output = "absent"
    BY <2>1 DEF CreatesFile
  <2> QED
    BY <1>1, <1>3, <2>1, <2>2, <2>3, WriterStep
<1>6. CASE WriteInput(t)
  <2>1. pc[t] = "writeInput" /\ \E groups : files' = [files EXCEPT ![k].in = groups]
    BY <1>6 DEF WriteInput
  <2>2. WritesFile(k) /\ files'[k].input = "open" /\ files'[k].output = "absent"
    BY <1>4, <2>1 DEF WritesFile, WritesInput, FileFields
  <2>3. pc' = [pc EXCEPT ![t] = "writeInput"]
    BY <1>2, <1>6, <2>1 DEF WriteInput
  <2>4. "writeInput" \in Steps /\ "writeInput" \notin Ending
    BY DEF Steps, Tracked, Dumping, Ending
  <2> QED
    BY <1>1, <1>3, <2>2, <2>3, <2>4, WriterStep
<1>7. CASE FinishInput(t)
  <2>1. pc[t] = "writeInput" /\ pc' = [pc EXCEPT ![t] = "setPath"]
    BY <1>7 DEF FinishInput, Goto
  <2>2. WritesFile(k) /\ files'[k].input = "complete" /\ files'[k].output = "absent"
    BY <1>4, <1>7, <2>1 DEF WritesFile, WritesInput, FileFields, FinishInput
  <2>3. "setPath" \in Steps /\ "setPath" \notin Ending
    BY DEF Steps, Tracked, Dumping, Ending
  <2> QED
    BY <1>1, <1>3, <2>1, <2>2, <2>3, WriterStep
<1>8. CASE FailInput(t)
  <2>1. pc' = [pc EXCEPT ![t] = "submit"]
    BY <1>8 DEF FailInput, Goto
  <2>2. UNCHANGED files \/ WritesFile(k)
    BY <1>4, <1>8 DEF FailInput, WritesFile, WritesInput, FileFields
  <2>3. "submit" \in Steps /\ "submit" \notin Ending
    BY DEF Steps, Tracked, Dumping, Ending
  <2> QED
    BY <1>1, <1>3, <2>1, <2>2, <2>3, WriterStep
<1> QED
  BY <1>5, <1>6, <1>7, <1>8

(* append_kernel_output *)
LEMMA OutputKeepsWriters ==
    ASSUME CaptureInv, WritersInv, NEW t \in Threads,
           OpenFile(t) \/ WriteOutput(t) \/ FinishOutput(t) \/ FailOutput(t)
    PROVE  WritersInv' /\ (UNCHANGED files \/ WritesFile(kernelId[t]))
<1> DEFINE k == kernelId[t]
<1>1. /\ UNCHANGED kernelStates
      /\ \A u \in Threads \ {t} : kernelId'[u] = kernelId[u] /\ launch'[u] = launch[u]
  BY DEF OpenFile, WriteOutput, FinishOutput, FailOutput, Return, WriteUnchanged, stateVars,
         CaptureInv, CaptureTypes
<1>2. pc[t] \in {"openFile", "writeOutput"} /\ pc \in [Threads -> Steps]
  BY DEF OpenFile, WriteOutput, FinishOutput, FailOutput, CaptureInv, CaptureTypes
<1>3. /\ pc[t] \in HasId /\ pc[t] \in Ending
      /\ "writeOutput" \in Steps /\ "idle" \in Steps
      /\ "writeOutput" \notin Tracked /\ "idle" \notin Tracked /\ "idle" \notin Ending
  BY <1>2 DEF HasId, Ending, Steps, Tracked, Dumping
<1>4. /\ DOMAIN files = {k} /\ DOMAIN files[k] = FileFields
      /\ files[k].launch = launch[t] /\ files[k].input = "complete"
      /\ files[k].output = IF pc[t] = "writeOutput" THEN "open" ELSE "absent"
  BY <1>2, <1>3, OwnFile DEF WritersInv, KnowsItsFile
<1>5. CASE OpenFile(t)
  <2>1. /\ pc[t] = "openFile" /\ pc' = [pc EXCEPT ![t] = "writeOutput"]
        /\ UNCHANGED <<kernelId, launch>>
    BY <1>5 DEF OpenFile, Goto, WriteUnchanged
  <2>2. WritesFile(k) /\ files'[k].input = "complete" /\ files'[k].output = "open"
        /\ k \in DOMAIN files' /\ files'[k].launch = launch[t]
    BY <1>4, <1>5, <2>1 DEF WritesFile, WritesOutput, FileFields, OpenFile
  <2> QED
    BY <1>1, <1>3, <2>1, <2>2, WriterStep
<1>6. CASE WriteOutput(t)
  <2>1. /\ pc[t] = "writeOutput" /\ UNCHANGED <<kernelId, launch>>
        /\ \E groups : files' = [files EXCEPT ![k].out = groups]
    BY <1>6 DEF WriteOutput, WriteUnchanged
  <2>2. WritesFile(k) /\ files'[k].input = "complete" /\ files'[k].output = "open"
        /\ k \in DOMAIN files' /\ files'[k].launch = launch[t]
    BY <1>4, <2>1 DEF WritesFile, WritesOutput, FileFields
  <2>3. pc' = [pc EXCEPT ![t] = "writeOutput"]
    BY <1>2, <1>6, <2>1 DEF WriteOutput
  <2> QED
    BY <1>1, <1>3, <2>1, <2>2, <2>3, WriterStep
<1>7. CASE FinishOutput(t)
  <2>1. pc[t] = "writeOutput" /\ pc' = [pc EXCEPT ![t] = "idle"]
    BY <1>7 DEF FinishOutput, Return, Goto
  <2>2. WritesFile(k)
    BY <1>4, <1>7, <2>1 DEF WritesFile, WritesOutput, FileFields, FinishOutput
  <2> QED
    BY <1>1, <1>3, <2>1, <2>2, WriterStep
<1>8. CASE FailOutput(t)
  <2>1. pc' = [pc EXCEPT ![t] = "idle"]
    BY <1>8 DEF FailOutput, Return, Goto
  <2>2. UNCHANGED files \/ WritesFile(k)
    BY <1>4, <1>8 DEF FailOutput, WritesFile, WritesOutput, FileFields
  <2> QED
    BY <1>1, <1>3, <2>1, <2>2, WriterStep
<1> QED
  BY <1>5, <1>6, <1>7, <1>8

(* Every step keeps the invariant, and all that can happen to the file is  *)
(* that it is created, or that its owner writes /in or, later, /out.       *)
LEMMA WritersNext ==
    ASSUME CaptureInv, WritersInv, [Next]_vars
    PROVE  /\ WritersInv'
           /\ UNCHANGED files \/ \E k : CreatesFile(k) \/ WritesFile(k)
<1> DEFINE Goal == /\ WritersInv'
                   /\ UNCHANGED files \/ \E k : CreatesFile(k) \/ WritesFile(k)
<1>1. ASSUME UNCHANGED <<files, kernelStates, kernelId, launch, pc>> PROVE Goal
  BY <1>1 DEF WritersInv, PhasesAreOrdered, KnowsItsFile
<1>2. ASSUME NEW t \in Threads, NEW label \in Labelled \cup {"countInvocation"},
             pc[t] \in Labelled \cup {"idle"}, pc' = [pc EXCEPT ![t] = label],
             \A u \in Threads \ {t} : kernelId'[u] = kernelId[u] /\ launch'[u] = launch[u],
             UNCHANGED <<files, kernelStates>>
      PROVE  Goal
  <2>1. label \in Steps \ (Tracked \cup Ending) /\ pc[t] \notin HasId
    BY <1>2 DEF Labelled, Steps, Tracked, Dumping, Ending, HasId
  <2> QED
    BY <1>2, <2>1, OutsideWriters
<1>3. CASE \/ \E args \in ToolArgs : LoadTool(args)
           \/ DeviceStep
           \/ UNCHANGED vars
  <2>1. UNCHANGED <<files, kernelStates, kernelId, launch, pc>>
    BY <1>3 DEF LoadTool, DeviceStep, RunKernel, vars, stateVars, fileVars, localVars
  <2> QED
    BY <1>1, <2>1
<1>4. ASSUME NEW t \in Threads,
             \/ \E key \in MetadataKeys, value \in MetadataValues : AddMetadata(t, key, value)
             \/ Allocate(t)
             \/ \E k \in DOMAIN heap : Deallocate(t, k)
             \/ RegisterCapture(t)
      PROVE  Goal
  <2>1. UNCHANGED <<files, kernelStates, kernelId, launch, pc>>
    BY <1>4 DEF AddMetadata, Allocate, Deallocate, RegisterCapture, stateVars, fileVars, localVars
  <2> QED
    BY <1>1, <2>1
<1>5. ASSUME NEW t \in Threads, NEW mode \in Modes, NEW label \in KernelLabels,
             NEW captures \in SUBSET DOMAIN activeAllocations,
             StartLaunch(t, mode, label, captures)
      PROVE  Goal
  <2>1. mode \in {"krepe", "manual", "plain"}
    BY CaptureAssumption DEF LaunchModes
  <2>2. \E l \in Labelled : pc' = [pc EXCEPT ![t] = l]
    BY <1>5, <2>1 DEF StartLaunch, ReplayFunctor, Labelled, Goto
  <2>3. /\ UNCHANGED <<files, kernelStates, kernelId>> /\ pc[t] = "idle"
        /\ \A u \in Threads \ {t} : launch'[u] = launch[u]
    BY <1>5 DEF StartLaunch, stateVars, fileVars, CaptureInv, CaptureTypes
  <2> QED
    BY <1>2, <2>2, <2>3
<1>6. ASSUME NEW t \in Threads,
             \/ CheckNextInvocation(t) \/ RegisterPolicy(t) \/ ClearViews(t)
             \/ AllViewsRegistered(t) \/ CopyFunctor(t) \/ TakeId(t)
      PROVE  Goal
  <2>1. \E l \in Labelled \cup {"countInvocation"} :
          pc' = [pc EXCEPT ![t] = l] /\ pc[t] \in Labelled
    BY <1>6 DEF CheckNextInvocation, RegisterPolicy, ClearViews, AllViewsRegistered, CopyFunctor,
                TakeId, ReplayFunctor, Labelled, Goto
  <2>2. /\ UNCHANGED <<files, kernelStates, launch>>
        /\ \A u \in Threads \ {t} : kernelId'[u] = kernelId[u]
    BY <1>6 DEF CheckNextInvocation, RegisterPolicy, ClearViews, AllViewsRegistered, CopyFunctor,
                TakeId, stateVars, fileVars, localVars, CaptureInv, CaptureTypes
  <2> QED
    BY <1>2, <2>1, <2>2
<1>7. ASSUME NEW t \in Threads,
             \/ CountInvocation(t) \/ CallFence(t) \/ TakeSnapshot(t) \/ SetPath(t)
             \/ Submit(t) \/ EndKernel(t)
      PROVE  Goal
  BY <1>7, KernelHooksKeepWriters
<1>8. ASSUME NEW t \in Threads,
             CreateFile(t) \/ WriteInput(t) \/ FinishInput(t) \/ FailInput(t)
      PROVE  Goal
  BY <1>8, InputKeepsWriters
<1>9. ASSUME NEW t \in Threads,
             OpenFile(t) \/ WriteOutput(t) \/ FinishOutput(t) \/ FailOutput(t)
      PROVE  Goal
  BY <1>9, OutputKeepsWriters
<1> QED
  BY <1>3, <1>4, <1>5, <1>6, <1>7, <1>8, <1>9 DEF Next, Application, ThreadStep

(* Hence it holds throughout. *)
LEMMA WritersInvariant == Spec => []WritersInv
<1>1. CaptureInv /\ WritersInv /\ [Next]_vars => WritersInv'
  BY WritersNext
<1> QED
  BY <1>1, WritersInvInit, CaptureInvariant, PTL DEF Spec

-----------------------------------------------------------------------------
(* The refinement.                                                         *)

(* A file is created. *)
LEMMA CreationMaps ==
    ASSUME NEW k, CreatesFile(k)
    PROVE  Dump!Create
<1>1. TheFile = NoFile /\ TheFile' = files'[k]
  BY DEF CreatesFile, TheFile
<1>2. /\ TheFile.input = "absent" /\ TheFile.output = "absent"
      /\ TheFile'.input = "open" /\ TheFile'.output = "absent"
  BY <1>1 DEF NoFile, CreatesFile
<1>3. PhaseOf(TheFile) = "none" /\ PhaseOf(TheFile)' = "creating"
  BY <1>2 DEF PhaseOf
<1> QED
  BY <1>2, <1>3 DEF Dump!Create

(* /in is written, published or abandoned. *)
LEMMA InputMaps ==
    ASSUME WritesInput(TheFile, TheFile')
    PROVE  Dump!Publish \/ Dump!Abandon \/ UNCHANGED Dump!lifecycleVars
<1>1. TheFile'.launch = TheFile.launch
  BY DEF WritesInput
<1>2. PhaseOf(TheFile) = "creating"
  BY DEF WritesInput, PhaseOf
<1>3. CASE TheFile'.input = "open"
  <2>1. PhaseOf(TheFile)' = "creating"
    BY <1>3 DEF WritesInput, PhaseOf
  <2> QED
    BY <1>1, <1>2, <1>3, <2>1 DEF WritesInput, Dump!lifecycleVars
<1>4. CASE TheFile'.input = "complete"
  <2>1. PhaseOf(TheFile)' = "published"
    BY <1>4 DEF WritesInput, PhaseOf
  <2> QED
    BY <1>1, <1>2, <1>4, <2>1 DEF WritesInput, Dump!Publish
<1>5. CASE TheFile'.input = "failed"
  <2>1. PhaseOf(TheFile)' = "abandoned"
    BY <1>5 DEF WritesInput, PhaseOf
  <2> QED
    BY <1>1, <1>2, <1>5, <2>1 DEF WritesInput, Dump!Abandon
<1> QED
  BY <1>3, <1>4, <1>5 DEF WritesInput

(* /out is opened, written, completed or cut off, and /in is as it was. *)
LEMMA OutputMaps ==
    ASSUME WritesOutput(TheFile, TheFile')
    PROVE  \/ Dump!Append \/ Dump!Complete \/ Dump!Truncate
           \/ UNCHANGED Dump!lifecycleVars
<1>1. /\ TheFile'.launch = TheFile.launch
      /\ TheFile.input = "complete" /\ TheFile'.input = "complete"
      /\ TheFile'.in = TheFile.in /\ TheFile'.metadata = TheFile.metadata
      /\ TheFile'.policy = TheFile.policy /\ TheFile'.functor = TheFile.functor
  BY DEF WritesOutput
<1>2. CASE TheFile.output = "absent" /\ TheFile'.output = "open"
  <2>1. PhaseOf(TheFile) = "published" /\ PhaseOf(TheFile)' = "appending"
    BY <1>1, <1>2 DEF PhaseOf
  <2> QED
    BY <1>1, <1>2, <2>1 DEF Dump!Append
<1>3. CASE TheFile.output = "open" /\ TheFile'.output = "open"
  <2>1. PhaseOf(TheFile) = "appending" /\ PhaseOf(TheFile)' = "appending"
    BY <1>1, <1>3 DEF PhaseOf
  <2> QED
    BY <1>1, <1>3, <2>1 DEF Dump!lifecycleVars
<1>4. CASE TheFile.output = "open" /\ TheFile'.output = "complete"
  <2>1. PhaseOf(TheFile) = "appending" /\ PhaseOf(TheFile)' = "completed"
    BY <1>1, <1>4 DEF PhaseOf
  <2> QED
    BY <1>1, <1>4, <2>1 DEF Dump!Complete
<1>5. CASE TheFile.output = "open" /\ TheFile'.output = "failed"
  <2>1. PhaseOf(TheFile) = "appending" /\ PhaseOf(TheFile)' = "truncated"
    BY <1>1, <1>5 DEF PhaseOf
  <2> QED
    BY <1>1, <1>5, <2>1 DEF Dump!Truncate
<1> QED
  BY <1>2, <1>3, <1>4, <1>5 DEF WritesOutput

(* For any number of threads, labels and launches, and whichever HDF5      *)
(* calls fail, the dump goes through the lifecycle: its /in is frozen once *)
(* published and /out is appended at most once, to a published /in.        *)
THEOREM CaptureImplementsLifecycle == Spec => ImplementsLifecycle
<1>1. Init => Dump!LifecycleInit
  <2> SUFFICES ASSUME Init PROVE Dump!LifecycleInit
    OBVIOUS
  <2>1. TheFile = NoFile
    BY DEF Init, TheFile
  <2>2. TheFile.input = "absent" /\ TheFile.output = "absent"
    BY <2>1 DEF NoFile
  <2> QED
    BY <2>2 DEF Dump!LifecycleInit, PhaseOf
<1>2. CaptureInv /\ WritersInv /\ [Next]_vars => [Dump!LifecycleNext]_(Dump!lifecycleVars)
  <2> SUFFICES ASSUME CaptureInv, WritersInv, [Next]_vars
               PROVE  [Dump!LifecycleNext]_(Dump!lifecycleVars)
    OBVIOUS
  <2>1. CASE UNCHANGED files
    <3>1. TheFile' = TheFile
      BY <2>1 DEF TheFile
    <3>2. UNCHANGED Dump!lifecycleVars
      BY <3>1 DEF Dump!lifecycleVars, PhaseOf
    <3> QED
      BY <3>2
  <2>2. ASSUME NEW k, CreatesFile(k) PROVE Dump!LifecycleNext
    BY <2>2, CreationMaps DEF Dump!LifecycleNext
  <2>3. ASSUME NEW k, WritesFile(k) PROVE [Dump!LifecycleNext]_(Dump!lifecycleVars)
    <3>1. TheFile = files[k] /\ TheFile' = files'[k]
      BY <2>3 DEF WritesFile, TheFile
    <3>2. WritesInput(TheFile, TheFile') \/ WritesOutput(TheFile, TheFile')
      BY <2>3, <3>1 DEF WritesFile
    <3> QED
      BY <3>2, InputMaps, OutputMaps DEF Dump!LifecycleNext
  <2> QED
    BY <2>1, <2>2, <2>3, WritersNext
<1> QED
  BY <1>1, <1>2, CaptureInvariant, WritersInvariant, PTL
     DEF Spec, ImplementsLifecycle, Dump!LifecycleSpec

=============================================================================
