--------------------------- MODULE FunctorRestore ---------------------------
(***************************************************************************)
(* How the bytes of a captured functor come back to life in the replaying  *)
(* process: krepe::replay_functor and FunctorRestoreGuard                  *)
(* (replay/kernel_replayer.hpp), init_functor and                          *)
(* init_extended_lambda_host_closure (replay/kernel_replayer.cpp), and the *)
(* walk over nested NVCC closures that capture and replay share            *)
(* (common/extended_lambda_utils.hpp).                                     *)
(*                                                                         *)
(* An extended lambda of NVCC is a wrapper that stores its captures and a  *)
(* pointer to a buffer on the heap with the host version of the lambda,    *)
(* which stores the captures again.  A lambda it captures is therefore     *)
(* there twice, each time with a buffer of its own.  A shape is the set of *)
(* lambdas by their place in the source, << >> the outermost and <<1, 2>>  *)
(* the second one that its first one captures; a functor without extended  *)
(* lambdas has the shape {}.  An instance of a lambda is told by the side, *)
(* wrapper or host, it is stored in at every level.                        *)
(*                                                                         *)
(* An object is a function from its cells: <<"slot", q>> is the pointer in *)
(* the wrapper of lambda q, <<"view", q>> a View that q captures.          *)
(***************************************************************************)
EXTENDS Naturals, Sequences, FiniteSets, SequencesExt, FiniteSetsExt, Functions

CONSTANTS
    Shapes,        \* shapes of the functors of the programs
    CopiesThrow    \* may copying a functor throw?

ASSUME FunctorAssumption == CopiesThrow \in BOOLEAN

VARIABLES           \* the dump
    functorData,          \* functor_data
    hostClosureData       \* nvcc_inner_lambda_data, by the closures it came from

VARIABLES           \* the replaying process
    step,                 \* where replay_functor is
    shape,                \* shape of the functor it was given
    tracking,             \* does Kokkos track allocations?
    disabledTracking,     \* has replay_functor disabled it?
    heap,                 \* host buffers by address
    working,              \* functor_working_copy
    saved,                \* the FunctorRestoreGuard: its bytes, its closures in order
    nextClosure,          \* the closure that execute patches next
    result,               \* functor_to_be_returned
    fault                 \* was a pointer of the captured process followed?

dataVars == <<functorData, hostClosureData>>
restoreVars == <<step, shape, tracking, disabledTracking, heap, working, saved, nextClosure,
                 result, fault>>

NoObject == << >>
NoGuard == << >>

-----------------------------------------------------------------------------
(* Objects.                                                                *)

SlotCells(lambdas) == {"slot"} \X lambdas
ViewCells(lambdas) == {"view"} \X lambdas

(* The functor itself: a wrapper with those it stores. *)
StorageCells(s) == SlotCells(s) \cup ViewCells(s \cup {<< >>})

(* The captures of lambda p; host_capture_size is their number. *)
BufferCells(s, p) == SlotCells({q \in s : IsStrictPrefix(p, q)})
                         \cup ViewCells({q \in s : IsPrefix(p, q)})

(* The instances of the lambdas, the lambda of one, and the instance in    *)
(* whose buffer one is stored: the one before its last step to a host side. *)
Sides == {"wrapper", "host"}
Instances(s) ==
    UNION {{[n \in DOMAIN q |-> <<side[n], q[n]>>] : side \in [DOMAIN q -> Sides]} : q \in s}
Lambda(i) == [n \in DOMAIN i |-> i[n][2]]
HostSteps(i) == {n \in DOMAIN i : i[n][1] = "host"}
StoredIn(i) == SubSeq(i, 1, Max(HostSteps(i)) - 1)

(* The instance of lambda q that is stored along with instance i. *)
Within(i, q) == i \o [n \in 1 .. Len(q) - Len(i) |-> <<"wrapper", q[Len(i) + n]>>]

(* A functor made by `owner', each pointer to a new buffer at an address   *)
(* of the owner's, and each View from the operator.                        *)
Storage(owner, s, ViewAt(_)) ==
    [c \in StorageCells(s) |->
        IF c[1] = "slot" THEN <<owner, Within(<< >>, c[2])>> ELSE ViewAt(c)]
Buffers(owner, s, ViewAt(_, _)) ==
    [a \in {owner} \X Instances(s) |->
        [c \in BufferCells(s, Lambda(a[2])) |->
            IF c[1] = "slot"
            THEN <<owner, Within(Append(a[2], <<"host", c[2][Len(a[2]) + 1]>>), c[2])>>
            ELSE ViewAt(a[2], c)]]

(* Where the pointers of an object lead to, Wild when one leads nowhere. *)
Wild == <<"wild", << >>>>
AddressOf(s, object, memory) ==
    LET at[i \in Instances(s)] ==
          LET slot == <<"slot", Lambda(i)>>
          IN  IF HostSteps(i) = {} THEN object[slot]
              ELSE IF at[StoredIn(i)] \in DOMAIN memory
                      /\ slot \in DOMAIN memory[at[StoredIn(i)]]
                   THEN memory[at[StoredIn(i)]][slot]
                   ELSE Wild
    IN  at

(* Every pointer leads to a buffer of its own, of the right type. *)
IsIntact(s, object, memory) ==
    LET at == AddressOf(s, object, memory)
    IN  /\ \A i \in Instances(s) : /\ at[i] \in DOMAIN memory
                                   /\ DOMAIN memory[at[i]] = BufferCells(s, Lambda(i))
        /\ \A i, j \in Instances(s) : at[i] = at[j] => i = j

(* The Views of an object and its buffers. *)
ViewsOf(s, object, memory) ==
    LET at == AddressOf(s, object, memory)
    IN  {object[c] : c \in ViewCells(s \cup {<< >>})} \cup
        UNION {{memory[at[i]][c] : c \in BufferCells(s, Lambda(i)) \ SlotCells(s)} :
                 i \in Instances(s)}

(* A View refers to data of a process.  A copy made while Kokkos does not  *)
(* track allocations holds no reference; one that does is counted when it  *)
(* is copied with tracking or destroyed, in the memory of its process.     *)
View(process, isTracked) == [data |-> process, isTracked |-> isTracked]
CopyOfView(v, tracked) == [v EXCEPT !.isTracked = v.isTracked /\ tracked]
IsForeign(v) == v.data = "captured" /\ v.isTracked

(* The copy constructor and the destructor of a functor. *)
CopyFaults(s, object, memory, tracked) ==
    \/ ~IsIntact(s, object, memory)
    \/ tracked /\ \E v \in ViewsOf(s, object, memory) : IsForeign(v)
CopyOf(owner, s, object, tracked) == Storage(owner, s, LAMBDA c : CopyOfView(object[c], tracked))
BuffersOfCopy(owner, s, object, memory, tracked) ==
    LET at == AddressOf(s, object, memory)
    IN  Buffers(owner, s, LAMBDA i, c : CopyOfView(memory[at[i]][c], tracked))

DestroyFaults(s, object, memory) ==
    ~IsIntact(s, object, memory) \/ \E v \in ViewsOf(s, object, memory) : IsForeign(v)
HeapWith(memory, new) ==
    [a \in DOMAIN memory \cup DOMAIN new |-> IF a \in DOMAIN new THEN new[a] ELSE memory[a]]
HeapWithout(s, object, memory) ==
    LET at == AddressOf(s, object, memory)
    IN  Restrict(memory, DOMAIN memory \ {at[i] : i \in Instances(s)})

-----------------------------------------------------------------------------
(* The walk over the lambdas of a functor.                                 *)

(* visit_hdl_captures *)
Captured(s, p) == {q \in s : Len(q) = Len(p) + 1 /\ IsPrefix(p, q)}
NumCaptured(s, p) == Cardinality(Captured(s, p))
VisitHdlCaptures(s, i, side, visit) ==
    FlattenSeq([n \in 1 .. NumCaptured(s, Lambda(i)) |-> visit[Append(i, <<side, n>>)]])

\* Mutant: the children are visited before their parent.
VisitHdlHostLambdas_ChildrenFirst(s) ==
    LET visit[i \in Instances(s)] ==
          VisitHdlCaptures(s, i, "wrapper", visit)
              \o VisitHdlCaptures(s, i, "host", visit) \o <<i>>
    IN  IF s = {} THEN << >> ELSE visit[<< >>]

(* visit_hdl_host_lambdas: a lambda, then the lambdas among the captures   *)
(* of its wrapper and among those of its host buffer.                      *)
VisitHdlHostLambdas(s) ==
    LET visit[i \in Instances(s)] ==
          <<i>> \o VisitHdlCaptures(s, i, "wrapper", visit)
                \o VisitHdlCaptures(s, i, "host", visit)
    IN  IF s = {} THEN << >> ELSE visit[<< >>]

(* Lambdas are told by their places: the captures of each are numbered.    *)
IsShape(s) ==
    /\ IsFiniteSet(s) /\ s \subseteq Seq(Nat \ {0})
    /\ \A q \in s : q # << >> => Front(q) \in s
    /\ \A p \in s : Captured(s, p) = {Append(p, n) : n \in 1 .. NumCaptured(s, p)}

ASSUME ShapesAssumption == \A s \in Shapes : IsShape(s)

-----------------------------------------------------------------------------
(* Capture: copy_functor or copy_nvcc_functor in krepe::replay_functor of  *)
(* the extraction library, and the entry points of the capture library.    *)

CapturedView == View("captured", TRUE)
CapturedStorage(s) == Storage("captured", s, LAMBDA c : CapturedView)
CapturedBuffers(s) == Buffers("captured", s, LAMBDA i, c : CapturedView)

HostClosures(s) ==
    LET visited == VisitHdlHostLambdas(s)
    IN  [n \in DOMAIN visited |-> CapturedBuffers(s)[<<"captured", visited[n]>>]]

CopyNvccFunctor(s) ==
    /\ functorData' = CapturedStorage(s)
    /\ hostClosureData' = HostClosures(s)

-----------------------------------------------------------------------------
(* krepe::replay_functor of the replay library.                            *)

SizeOf(object) == Cardinality(DOMAIN object)
TotalSize(objects) ==
    LET sum[n \in 0 .. Len(objects)] ==
          IF n = 0 THEN 0 ELSE sum[n - 1] + SizeOf(objects[n])
    IN  sum[Len(objects)]

\* Mutant: tracking stays enabled.
DisableTracking_Not == disabledTracking' = FALSE /\ UNCHANGED tracking

(* SharedAllocationDisableTrackingGuard, when tracking is enabled. *)
DisableTracking == disabledTracking' = tracking /\ tracking' = FALSE

\* Mutant: tracking is not enabled again.
EnableTracking_Not == disabledTracking' = FALSE /\ UNCHANGED tracking

EnableTracking == disabledTracking' = FALSE /\ tracking' = (tracking \/ disabledTracking)

(* The working copy is made, and FunctorRestoreGuard saves its bytes and   *)
(* its host buffers.                                                       *)
BeginReplayFunctor(s) ==
    LET view == CopyOfView(View("program", TRUE), tracking')
        object == Storage("working", s, LAMBDA c : view)
        memory == Buffers("working", s, LAMBDA i, c : view)
        visited == VisitHdlHostLambdas(s)
    IN  /\ DisableTracking
        /\ shape' = s
        /\ working' = object
        /\ heap' = HeapWith(heap, memory)
        /\ saved' = [original |-> object,
                     closures |-> [n \in DOMAIN visited |->
                                     LET at == AddressOf(s, object, memory)[visited[n]]
                                     IN  [instance |-> visited[n], buffer |-> at,
                                          original |-> memory[at]]]]
        /\ step' = "initFunctor"
        /\ UNCHANGED <<nextClosure, result, fault>>

(* As many bytes of functor_data as the functor has. *)
InitialBytes ==
    [c \in DOMAIN working |-> IF c \in DOMAIN functorData THEN functorData[c] ELSE Wild]

(* init_functor *)
InitFunctor ==
    /\ step = "initFunctor"
    /\ IF SizeOf(functorData) < SizeOf(saved.original)
       THEN step' = "restore" /\ UNCHANGED <<working, nextClosure>>
       ELSE /\ working' = InitialBytes
            /\ nextClosure' = 1
            /\ step' = "patch"
    /\ UNCHANGED <<shape, tracking, disabledTracking, heap, saved, result, fault>>

(* The place of the pointer of a closure: in the working copy or in the    *)
(* buffer of a closure around it.                                          *)
OwnerOf(closure) ==
    CHOOSE c \in Range(saved.closures) : c.instance = StoredIn(closure.instance)

(* The bytes of the dump at an offset. *)
ClosureDataAt(offset) ==
    LET at == {k \in DOMAIN hostClosureData : TotalSize(SubSeq(hostClosureData, 1, k - 1)) = offset}
    IN  hostClosureData[Min(at)]

NextClosure == nextClosure' = nextClosure + 1

(* The bytes of the closures before the n-th one. *)
OffsetOf(n) == TotalSize([k \in 1 .. n - 1 |-> saved.closures[k].original])

(* One round of the loop in execute: the pointer is set to the buffer of   *)
(* the working copy and init_extended_lambda_host_closure fills the buffer *)
(* from the dump, or throws.                                               *)
PatchClosure ==
    /\ step = "patch" /\ nextClosure <= Len(saved.closures)
    /\ LET closure == saved.closures[nextClosure]
           slot == <<"slot", Lambda(closure.instance)>>
           total == OffsetOf(Len(saved.closures) + 1)
           offset == OffsetOf(nextClosure)
           inWorking == HostSteps(closure.instance) = {}
           patched == IF inWorking THEN heap
                      ELSE [heap EXCEPT ![OwnerOf(closure).buffer][slot] = closure.buffer]
       IN  /\ working' = IF inWorking THEN [working EXCEPT ![slot] = closure.buffer] ELSE working
           /\ IF total # TotalSize(hostClosureData) \/ offset + SizeOf(closure.original) > total
              THEN heap' = patched /\ step' = "restore" /\ UNCHANGED nextClosure
              ELSE /\ heap' = [patched EXCEPT ![closure.buffer] = ClosureDataAt(offset)]
                   /\ NextClosure
                   /\ UNCHANGED step
    /\ UNCHANGED <<shape, tracking, disabledTracking, saved, result, fault>>

(* functor_to_be_returned is copied from the patched working copy. *)
CopyResult ==
    /\ step = "patch" /\ nextClosure > Len(saved.closures)
    /\ step' = "restore"
    /\ IF CopyFaults(shape, working, heap, tracking)
       THEN fault' = TRUE /\ UNCHANGED <<result, heap>>
       ELSE /\ result' = CopyOf("result", shape, working, tracking)
            /\ heap' = HeapWith(heap, BuffersOfCopy("result", shape, working, heap, tracking))
            /\ UNCHANGED fault
    /\ UNCHANGED <<shape, tracking, disabledTracking, working, saved, nextClosure>>

(* The copy throws; what it had built is destroyed. *)
CopyThrows ==
    /\ CopiesThrow
    /\ step = "patch" /\ nextClosure > Len(saved.closures)
    /\ step' = "restore"
    /\ UNCHANGED <<shape, tracking, disabledTracking, heap, working, saved, nextClosure, result,
                   fault>>

\* Mutant: the functor is restored and its host buffers are not.
Restored_StorageOnly == <<saved.original, heap>>

(* ~FunctorRestoreGuard: the host buffers and then the functor itself. *)
WrittenBack(memory, closures) ==
    FoldLeft(LAMBDA m, c : [m EXCEPT ![c.buffer] = c.original], memory, Reverse(closures))
Restored == <<saved.original, WrittenBack(heap, saved.closures)>>

(* replay_functor returns or is unwound: the working copy is restored and  *)
(* destroyed, and tracking is enabled again.                               *)
EndReplayFunctor ==
    /\ step = "restore"
    /\ fault' = (fault \/ DestroyFaults(shape, Restored[1], Restored[2]))
    /\ heap' = HeapWithout(shape, Restored[1], Restored[2])
    /\ EnableTracking
    /\ working' = NoObject /\ saved' = NoGuard /\ nextClosure' = 0
    /\ step' = IF result = NoObject THEN "threw" ELSE "returned"
    /\ UNCHANGED <<shape, result>>

ReplayFunctorStep ==
    InitFunctor \/ PatchClosure \/ CopyResult \/ CopyThrows \/ EndReplayFunctor

(* The functor that replay_functor returned is destroyed. *)
DestroyResult ==
    /\ fault' = (fault \/ (result # NoObject /\ DestroyFaults(shape, result, heap)))
    /\ heap' = IF result = NoObject THEN heap ELSE HeapWithout(shape, result, heap)
    /\ result' = NoObject /\ shape' = {}
    /\ step' = "idle"
    /\ UNCHANGED <<tracking, disabledTracking, working, saved, nextClosure>>

InitRestore ==
    /\ step = "idle" /\ shape = {}
    /\ tracking \in BOOLEAN /\ disabledTracking = FALSE
    /\ heap = << >> /\ working = NoObject /\ saved = NoGuard /\ nextClosure = 0
    /\ result = NoObject /\ fault = FALSE

-----------------------------------------------------------------------------
(* Properties.                                                             *)

(* A functor is the captured one brought to life: each of its lambdas has  *)
(* a host buffer of its own on the heap and every View, in the wrappers as *)
(* in the buffers, is the captured one without a reference to count.       *)
IsRevived(s, object, memory) ==
    /\ IsIntact(s, object, memory)
    /\ ViewsOf(s, object, memory) = {View("captured", FALSE)}
    /\ \A a \in Range(AddressOf(s, object, memory)) : a[1] = "result"

(* replay_functor never follows or frees a pointer of the captured process *)
(* and never counts a reference in its records, also when it throws with   *)
(* only some of the closures patched.                                      *)
NoForeignAccess == ~fault

(* When replay_functor returns or throws, and when its functor is gone, no *)
(* other buffer is left on the heap and Kokkos tracks allocations as it    *)
(* did before the call.                                                    *)
ReplayLeavesNoTrace ==
    [][step' \in {"idle", "threw", "returned"} =>
         /\ tracking' = (tracking \/ disabledTracking)
         /\ DOMAIN heap' = IF result' = NoObject THEN {} ELSE {"result"} \X Instances(shape')
      ]_restoreVars

=============================================================================
