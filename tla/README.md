# KREPE: TLA+ models, checks and proofs

KREPE captures one kernel of a Kokkos program into an HDF5 file (the *dump*) and
replays it in another program, at the same addresses. This directory holds TLA+
models of both halves, TLC configurations that check them on small instances,
and TLAPS proofs of the properties that matter most.

Paths below are relative to `src/krepe/` of the repository.

## 1. The system

### Parts, state and operations

| part | state | operations |
| --- | --- | --- |
| allocation tracker (`capture/allocation_tracker.*`) | `active_allocations_` (by space and pointer), `used_allocations_`, `mutex_` | record and forget an allocation, register and clear View pointers, `snapshot` |
| allocation hooks (`capture/kokkos_hooks.cpp`) | none beyond the tracker | `kokkosp_allocate_data`, `kokkosp_deallocate_data`, view registration; they decide what is tracked and how many bytes may be read |
| kernel hooks (`capture/kokkos_hooks.cpp`) | options of the tool, `next_kernel_id`, `kernel_states`, `kernel_invocations` (`state_mutex`); `functor_data`, `policy`, `metadata` (no lock) | `begin_kernel`, `end_kernel`, the functions the extraction library calls |
| dump writer (`capture/view_dump.cpp`, `capture/memory_copy.cpp`) | the file, `dump_mutex` | `create_kernel_dump`, `append_kernel_output`, `copy_allocation_bytes` |
| extraction library (`extract/`) | `has_kernel_dump_tool` and function pointers, set once | `krepe::parallel_for`, `replay_functor`, `add_metadata` |
| compiler plugins (`compiler_plugins/`) | the walk over a functor's type, the body of `replay_functor` | put the registration of a functor's Views in front of `replay_functor` |
| address layout (`replay/allocation.hpp`, `compute_allocations`) | none | round allocations to pages, merge ranges that overlap |
| replayer (`replay/kernel_replayer.*`) | statics (`krepe_is_initialized`, `scope_guard`, `replay_allocations`, `metadata`, `functor_data`, `replay_policy`, ...) and the members of `ScopeGuard` | `ScopeGuard`, `initialize`, `finalize`, `parallel_for`, `reset_inputs`, lookups, `compare_views` |
| replay memory (`replay/allocation.hpp`, `host_`, `cuda_`, `hip_allocation.hpp`) | the mapped ranges, the `Allocation` objects | map a range at its address, release it |
| replay command line (`find_cli_option`, `find_cli_flag`) | `argc`, `argv` | take KREPE's options out |
| functor restoration (`FunctorRestoreGuard`, `common/extended_lambda_utils.hpp`) | saved bytes of a functor and of its nvcc closures | patch, restore |

### How they interact

The application's threads call `krepe::parallel_for`, which asks the tool whether
the next invocation of the label will be dumped, registers the policy and copies
the functor into globals of the tool. Kokkos then calls `begin_kernel`, which
counts the invocation and, for the requested one, fences, takes a snapshot of the
tracker and writes `/in`, the metadata, the policy and the functor. Kokkos queues
the kernel and calls `end_kernel`, which fences and appends `/out`. Meanwhile
other threads allocate, free and launch. The replayer reads the file: it maps the
pages of the dumped allocations at their old addresses, copies their bytes,
pairs inputs and outputs, and revives the functor, whose Views then point into
the mapped memory.

### What is hard

* Several threads launch; some globals are locked, others are not; a question is
  asked before a lock is taken and its answer used after it.
* Kernels run asynchronously: what a snapshot shows depends on fences.
* A snapshot is taken under a lock and copied without it.
* Every HDF5 call, copy and mapping can fail half way, and the rest goes on.
* What one process wrote, complete or not, another process with another build has
  to accept or refuse.
* A functor is revived from bytes full of pointers of a process that is gone.
* Sizes and pointers sit on boundaries: empty Views, headers, ends of
  allocations, page boundaries.
* The replayer's statics outlive its guards, and its constructor throws from
  the middle.

`PROJECT.json` lists the hazards one by one, each at its line.

### What makes each part correct

* tracker and hooks: the table is the set of live user allocations; a recorded
  size never reaches past its block; registered Views select their allocations
  and nothing else;
* kernel hooks and dump writer: one dump per process, of the requested launch;
  `/in` is the state before the kernel and `/out` the one after it; a failure
  never damages what was published; nothing blocks a launch for ever;
* extraction: the dump describes the launch it was made for;
* policies: what is launched is what was captured, for every width, sign and rank;
* plugins: the Views of the functor are registered, and no others;
* address layout and memory: every byte is covered, by disjoint whole pages, with
  no page too many; nothing stays mapped and every page has one owner;
* functor restoration: no pointer of the captured process is followed, and nothing
  is left behind, also when a step throws;
* command line: the program keeps the arguments that are not KREPE's;
* replayer: a guard holds its own dump and nothing of an earlier attempt; memory
  is the inputs plus the kernels since the last reset; comparisons pair the right
  buffers; no call leaves dangling statics.

## 2. The modules

### AllocationTracker, AllocationHooks

`AllocationTracker` has the two tables of the class and one operator per method.
Every method holds `mutex_` throughout, so each is one step. Addresses are
numbers; `active_bytes`, a sum that is only reported, is left out.

`AllocationHooks` adds the callbacks and their environment: `heap` is what the
allocators really hold (with `usable` bytes, header and slack included), `views`
the allocations whose Views are registered, `foreign` whether a pointer is
registered that belongs to none (an unmanaged View, or a freed one).
`AllocationDataSize` and `ValidatedDataSize` are the size rules for Kokkos
versions that report the header size for an empty View; `probed` is the outcome
of the pointer query. `IsUsed` is the sorted search with its inclusive bound.

### KernelCapture

Extends `AllocationHooks` with the launching threads. Each thread has a program
counter; a step is what happens under one lock, or one access to an unlocked
global. Writing such a global takes two steps, with `Torn` in between: that is
what a concurrent reader may get. The steps in order:

| steps | code |
| --- | --- |
| `StartLaunch`, `CheckNextInvocation`, `RegisterPolicy` | `krepe::parallel_for` |
| `ClearViews`, `RegisterCapture`, `AllViewsRegistered`, `CopyFunctor` | `krepe::replay_functor` with what the plugins insert |
| `TakeId`, `CountInvocation`, `CallFence`, `TakeSnapshot` | `begin_kernel`, `dump_input_views` |
| `CreateFile`, `WriteInput`, `FinishInput`, `FailInput`, `SetPath` | `create_kernel_dump`, end of `begin_kernel` |
| `Submit`, `RunKernel` | Kokkos (external): queue and run |
| `EndKernel`, `CallFence`, `TakeSnapshot`, `OpenFile`, `WriteOutput`, `FinishOutput`, `FailOutput` | `end_kernel`, `append_kernel_output` |
| `LoadTool`, `AddMetadata`, `Allocate`, `Deallocate` | the application between launches |

Data is abstract: the contents of an allocation are the set of launches that
wrote it, a functor or policy is the number of its launch, a dump's path is its
kernel id. There is one device; `device_id` selects nothing in the model. An
allocation captured by a kernel in flight is not freed (a View keeps it alive);
others may be freed at any time.

### DumpLifecycle

The abstract promise: a process writes at most one dump, `/in` is published once
and never touched again, `/out` is appended once, to a published `/in` only.
`KernelCapture` implements it under the mapping at its end (`Dump`).

### PluginWalk

The two compiler plugins. `VisitMember` is one call of `visit`; what the recursion
has still to do is the sequence `toVisit`. gcc's `TYPE_FIELDS` starts with the bases
and its walk stops at references; clang's `fields()` has no bases and its walk looks
through references. `EndPatch` gives `replay_functor` its new body, which the
compiled program then executes statement by statement for one functor after the
other. `ContainedIn` is the reference definition of what a type contains. `TypesAssumption`
says that no object is a part of itself; `ReferentAssumption` is about the plugin that looks
behind references: what a reference that clang meets (`ReachedIn`) refers to is an object in
the fields of the same functor, with the Views of its type. It is stronger than the NOTE in
`gcc.cpp` (section 6).

### AddressRanges, ReplayMemory

`GetAllocationAddress` is the rounding; `Iterate` is one turn of the loop of
`compute_allocations` over the ordered set, split into its three cases, and
`Finish` emits the last range.

`ReplayMemory` extends it with the loop that maps the ranges: `MapNext` is one
`emplace_back` of an `Allocation`, with the outcomes of `mmap`, of the CUDA or of the
HIP driver calls, each of which may fail; `taken` are pages that the rest of the
process maps meanwhile. An `Allocation` that is moved loses its `memory_space`, as in
the code; `reserve` is what keeps that from happening. A failing device call leaves
physical memory, a reservation or a mapping behind (`leaked`). A driver that cannot
reserve a range where it is asked to may do so elsewhere (`Reservations`).

### PolicyCodec, FunctorRestore, KernelRoundTrip

`PolicyCodec` is the way of a policy: `RegisterBounds` (extraction and capture
library), `WritePolicy` (attributes of the dump), `ReadPolicy` (variant, or an
exception), `VisitedPolicy` (what `ParallelForVisitor` hands to Kokkos). Integers
keep their width, as `Span` values per size. It has no state.

`FunctorRestore` is the way of a functor. An NVCC extended lambda stores its
captures and a pointer to a heap buffer that stores them again, so each captured
lambda exists twice, and so on; a functor is a *shape* and its memory a function
from cells. `BeginReplayFunctor` makes the working copy and saves it, `PatchClosure`
is one round of `execute`, `CopyResult` or `CopyThrows` the copy that is returned,
`EndReplayFunctor` the restoring destructor. A copy or a destructor that follows a
pointer of the captured process, or counts a reference in its records, sets `fault`.

`KernelRoundTrip` composes them: capture, load, and any number of calls of
`krepe::parallel_for` in the replaying program, with functors of the captured type
or of others that differ in size, with and without `force_policy`.

### CliArgs

`RemoveCliArgs` with its swaps, `FindCliOption` and `FindCliFlag`. `Replayer` extends
it: every constructor takes its options out of `argv`, and a retry finds what the
failed one left.

### Replayer

The constructor of `ScopeGuard` is a sequence of steps, since it throws from the
middle: collect and map host ranges, initialise the device, collect and map
device ranges, copy inputs, read metadata, functor and policy, pair outputs, set
the statics. `Throw` runs the destructors of the members and leaves the statics
as they are; the program may catch the exception and try again. `LeaveScope`,
`Finalize`, `ParallelFor`, `ResetInputs` are the other calls, `RunKernel` the
device. A call that only throws changes nothing and is therefore no step. An
allocation of a dump names the range that `AddressRanges` puts it in. Contents are
numbers and a kernel adds one to what it writes, so that inputs, references and
replayed memory can be compared. `guard` is the C++ object itself; the properties
relate the statics to it.

### CaptureReplay

`KernelCapture` and `Replayer` (an `INSTANCE` with renamed variables) one after the
other, sharing nothing but the file. `WrittenGroups` adds to `KernelCapture` how far the
groups behind `/in/views` got when `create_kernel_dump` fails; `DumpOf` is the file as
`ScopeGuard` reads it after each outcome of the capture. `write_dataset` creates a dataset
at its full size and then writes it: a write that fails leaves one that reads as zeros, for
the functor (`FunctorIsUnwritten`, `FunctorBytes`) as for an output (`Broken`).
`CompositionAssumption` restricts it to one launching thread that is bound to the
tool and to host memory, which a replay without a device can map (a host build, which
reads no `nvcc_inner_lambda`); what several threads do to a dump is the subject of `capture_threads` and
`race_on_functor`.

## 3. The runs

| run | instance | shows |
| --- | --- | --- |
| `allocation_hooks` | one space, three addresses two apart, header of 2, sizes 0-2, slack 0 or 2, both kinds of labels, a legacy Kokkos, probes that may fail | `TableMatchesHeap`, `DumpedBytesAreAllocated`, `KnownSizeIsExact`, `SelectionIsComplete`, `SelectionIsTight` |
| `capture_threads` | two threads, two launches, two addresses, sizes 0 and 1, with and without the wrapper | `OneRequestedDump`, `KernelStatesAreExact`, `InBeforeOutAfter`, `CapturesAreDumped` |
| `capture_lifecycle` | two threads, plugins, one allocation, every HDF5 call may fail | `ImplementsLifecycle`, `DumpSettles`, `LaunchesReturn` |
| `capture_replay` | one thread, plugins, two adjacent allocations, two labels, both launch modes, repeated and invalid options, metadata, every call may fail; then one replay | `TypeOK`, `DumpDescribesLaunch`, `InputIsCaptures`, `AcceptedDumpsAreWhole`, `ReplayReproducesOutput`, `ComparisonsAgreeWithCapture`, `CompleteDumpsAreAccepted` |
| `plugin_walk` | both plugins, six functors (nested records, bases, references, an array, another class called View), launched three times in any order | `RegisteredAreContained` |
| `replay_memory` | pages of three bytes, up to three allocations of up to five bytes (so that one range can contain another), three back ends, every call may fail, one page taken by others at any time | `EveryEntryIsCovered`, `RangesAreDisjoint`, `RangesAreAligned`, `NoPageIsWasted`, `EntriesAreMapped`, `NothingStaysMapped`, `PagesHaveOneOwner` |
| `kernel_roundtrip` | range policies at the limits of all eight index types, MDRange of ranks 1, 2, 3 and 6, team policies with AUTO and scratch, builds without a space or rank 1; functors without lambdas to lambdas nested twice; copies that throw | `LaunchedAsCaptured`, `RefusedExactlyIfUnsupported`, `NoForeignAccess`, `ReplayLeavesNoTrace` |
| `replayer` | a device build, 16 dumps (complete, skipped, damaged, truncated, reused addresses under other or the same label and size, duplicate, occupied range, missing groups), 40 command lines, failing reads, two replays between resets | `StaticsFollowGuard`, `LoadedFromDump`, `ReplayedFromInputs`, `AcceptedComparisonsAgree`, `ArgumentsAreKept`, `CallsReturn` |

Why these bounds suffice: two threads and two launches of one label give every
order of the check, the count, the unlocked copies and the locked sections; a
third thread adds no new pair. The addresses of `allocation_hooks` are exactly a
header apart, so that blocks touch, and the sizes straddle the header size. Three
ranges are enough for one that contains the next, one that shares a page and one
that is separate. Two replays and resets at any time reach a reset with kernels
still queued. The theorems of section 5 remove the bounds for what they cover.

The integers of `kernel_roundtrip` have 4 to 32 values, in the order of the real
widths, and the bounds are the limits of each type; the theorem `PolicyRoundTrip`
covers all widths and values. Lambdas nested twice have seven host buffers, and are
the smallest shape in which a buffer is inside one that is inside another.

The bounds are `MaxLaunches`, `MaxReplays`, `MaxCalls` and `MaxTaken`, which stop the
program from going on, and the finite sets of addresses, sizes, labels, types,
policies, shapes and dumps.

`InBeforeOutAfter` and `CapturesAreDumped` speak of the allocations the dumped
kernel captures: other threads may free or write the others meanwhile.
`DumpDescribesLaunch`, `InputIsCaptures` and the properties of `CaptureReplay` hold for
one launching thread only; with two, `race_on_functor` shows how they fail.
`EntriesAreMapped` leaves out HIP with a range in use, which the code maps elsewhere
without noticing.

`SelectionIsComplete` names the one case in which a registered View does not select its
allocation: the allocator could not be queried, the recorded size is therefore zero, and
the View starts behind the beginning. `AcceptedComparisonsAgree` has a premise about the
dump, `HasOutputsOfItsKernel`, since an address that was reused under the same label and
size is accepted as the reference (`allocate_output` compares labels and
`validate_comparison` sizes). One of the dumps of `replayer` is such a one; without the
premise the property is violated. `ComparisonsAgreeWithCapture` shows that a
single-threaded capture never writes one.

What `capture_replay` shows about failures: `create_kernel_dump` leaves its file when
it fails. The replayer reads metadata, functor and policy, which are written last, and
checks their sizes, so it refuses such a file with one exception: when only the write of
the functor's bytes failed, the dataset is there and has the right size. That dump is
accepted and its functor has null pointers, so that a replayed kernel may crash. The
capture has reported the failure (`input = "failed"`), and `AcceptedDumpsAreWhole` and
`ReplayReproducesOutput` state that this is the only case. A file whose `/out` is missing
is accepted, and the kernel can be replayed; a damaged `/out` is refused, but an output
that was created and not written reads as zeros and is taken for the reference, which is
why `ComparisonsAgreeWithCapture` leaves a failed `/out` out.

### Disagreements

Four runs are expected to be violated. Each checks a statement of the
documentation, a comment or a test against what the code does:

* `race_on_functor`: "saves the execution policy and the functor"
  (`extract/kernel_extractor.hpp`). A second thread overwrites the unlocked
  `functor_data` between the copy and the dump.
* `early_binding`: the same statement. `krepe::add_metadata` before
  `Kokkos::initialize` caches "no tool" for the rest of the process, while the
  hooks still write the dump.
* `contained_views`: "We iterate recursively on the functor type to get the view it
  and its subobject contain" (`compiler_plugins/gcc.cpp`). A View in an array member,
  or for clang in a base class, is not registered, and its allocation is left out.
* `replay_after_finalize`: "krepe cannot be used when not initialized or when
  finalized" (`tests/initialize_finalize/replay_main.cpp`). `krepe::parallel_for`
  launches all the same, on unmapped memory.

Other behaviours the models have, without a run of their own: another thread may
free an allocation that the dumped kernel does not use between the snapshot and the
copy of its bytes; with the plugins `/in` has only the functor's allocations, not
"all active user-visible Kokkos allocations" (`docs/hdf5-dumps.md`); an allocation
that another thread makes during the kernel is in `/out` and not in `/in` of a build
without plugins, and the replayer refuses such a dump; the stored `metadata` of a
constructor that failed is still there in the next one.

## 4. Fairness

`KernelCapture` assumes weak fairness of each thread inside a launch (the
operating system schedules it; a mutex that is free for ever is eventually taken)
and of the device (what is queued runs). `Replayer` assumes it of a call in
progress and of the device. Nothing is assumed of what the application does next: it may stop launching at any time. Weak fairness suffices for `dump_mutex`: its
holder only waits for file and copy operations, which end.

## 5. Proofs

All constants are arbitrary, subject to the named assumptions of the modules. Those
on the program's environment are that Kokkos' header is not empty, that a block holds
what was asked for, and that addresses are not null (`HooksAssumption`); on the build,
`PluginsAssumption`, `SpanAssumption` (widths are even and none exceeds that of 64 bits),
`MinRankAssumption`, `AutoAssumption`, `FunctorAssumption`; on the inputs,
`CaptureAssumption`, `RangesAssumption`, `MemoryAssumption`, `ReplayerAssumption`,
`FilesAssumption` (a file has the groups and fields the reader looks for, with any
contents, damaged or missing ones included), `KernelsAssumption` (the policies are
those Kokkos can make), `ShapesAssumption` (the lambdas of a functor are a finite tree and
the captures of each are numbered), `CommandLinesAssumption` (a command line is a list), `PluginAssumption`,
`TypesAssumption` and `ReferentAssumption` (section 2) and, for the composition only, `CompositionAssumption` (section 2).
`MarkersAssumption` and `GroupsAssumption` say that the markers of the model (`NoLaunch`,
`Dangling`, `Skipped`, `Damaged`, `Missing`) are none of its values. TLC evaluates all of
them on the runs.

A few theorems have a hypothesis of their own, which the run of the same property
satisfies unless the list below says otherwise.

**AllocationHooks_proofs.** `HooksTypeCorrect`, `TableIsExact`, `SizesAreSound`,
`KnownSizesAreExact`, `SelectionComplete`, `SelectionTight`. The inductive invariant
`HooksInv` adds to the properties that a block holds header and data, that live blocks
are disjoint, that every registered View has a pointer into its data and that every
registered pointer belongs to a View or is foreign. `SelectionTight` needs the first
two: the inclusive bound of `snapshot()` could only select a neighbour whose data
starts where another's ends, and a header lies between. `SelectionComplete` is stated with
its exception, an unknown size and no View of the beginning.

**KernelCapture_proofs.** `DumpIsTheRequestedOne`, `KernelStatesExact` and
`CaptureImplementsLifecycle`, for any number of threads. `OneRequestedDump` is not inductive: that a second dump cannot
be created follows from the counter. `CaptureInv` therefore says that whoever is
dumping is alone, that the counter of the label has then reached the requested
number (`RequestIsPast`), and that no file exists before the dumper creates it.
`KernelStatesAreExact` needs that ids in use are below `next_kernel_id` and
distinct (`IdsAreUnique`).
The refinement: every step of `KernelCapture`, of
whatever thread, is a step of `DumpLifecycle` or a stutter under the mapping `Dump`.
`WritersInv` says what a thread may rely on between two accesses to its file: `/in` is
still open when it writes it, `/out` is absent when it is to be opened. That nobody
else changes it in between is `CaptureInv`: ids are unique and one thread dumps.

**CaptureContents_proofs.** `DumpFramesTheKernel`, `CaptureTypeOK`, and
`NothingCapturedIsMissing` for a build without the plugins (`capture_threads` is one).
`ContentsInv` is about time: what is in memory was written by launches that were queued
before (`MemoryIsPast`), after a fence nothing that was queued when it was called is
still pending (`FencesWait`), and what a launch in flight captures is alive
(`CapturesAreLive`). `FilesInv` carries this over to what a file already holds:
`/in` has no launch that was not over when the dump began, `/out` has the dumped one.

For one launching thread: `DumpDescribesItsLaunch` (hypothesis `OneThread`) and
`DumpHoldsTheViews` (`OneThread`, with the plugins, and every block can be probed). With two threads
both are false; `race_on_functor` is the counterexample. `DescribeInv` says that the
answer of `next_invocation_will_dump` still holds wherever the thread goes on with it
(`WillDump`), and whose policy, functor and metadata the globals hold at every point
of a launch; `ViewsInv` that the registered pointers are those of the functor that is
being launched, as far as the loop has come.

**ReplayMemory_proofs.** First `AddressRanges`: `RangesTypeCorrect`, `EntriesAreCovered`,
`MappingsAreDisjoint`, `MappingsAreAligned` and `MappingsAreTight`, for every
granularity and dump. `RangesInv` says that what was emitted ends before the current
range, which starts before all that remain (the order of `std::set`), and that a
rounded range that no longer remains lies in an emitted one or the current one;
`MappingsAreTight` adds that every page of an emitted or current range is a page of a
dumped allocation. Then the back ends: `MappedWhereDumped`, `GuardUnmapsAll` and
`EveryPageHasOneOwner`. `MemoryInv` says that `capacity` leaves room for the
ranges still to be mapped, so that no `Allocation` is ever moved (`NothingIsMoved`),
that `mapped` is exactly the pages of the objects (`MappedIsOwned`), disjoint from the
pages of others, with no page of two objects (`OwnersAreApart`), and that only the call that failed last has leaked.

**Replayer_proofs.** For every set of files, command lines and sequence of calls:
`StaticsAreOfTheGuard`, `GuardIsLoadedFromItsDump`, `ReplayerTypes`, and, for programs
that replay while they have a guard (`~ReplaysAnytime`; `replay_after_finalize` is
about the others) and dumps whose functor writes dumped allocations only, each at an
address of its own (`SoundFiles`),
`ReplaysStartFromTheInputs` and `ComparisonsAgree`. `StaticsFollowGuard` speaks of
the program between two calls only; `GuardInv` says at every step of the constructor
which statics are set and which ranges are mapped. `StoredInv` follows the loops over
inputs and outputs: what is stored are the entries passed so far, each with the one
output of its key. `ContentsInv` splits memory into what is copied, what ran and what
is queued, and that a queued kernel only writes mapped addresses; it is what rules out
the crash. `CompleteIsAccepted` says which dumps no check of the constructor refuses, and
`FilesAppear` that the invariants also hold for files written before the program begins;
the composition uses both. `ConstructorTakesItsArguments` is about the command line, of any
length: what is left behind the two searches are exactly the arguments that belong to no
option of the replayer, in their order. `ArgsAreRemoved` gives the arguments after the swaps of
`remove_cli_args` outright; that the recursion over them has that value is shown by
exhibiting it and by the least position at which another solution could differ. The order
is followed by ranks: an argument that is kept has as many kept ones before it in `argv`
as on the command line.

**PluginWalk_proofs.** `LaunchHasItsViews`: for every program, both plugins and any calls, a
launch has registered exactly the Views of its functor that the plugin can name. `WalkInv`
says of a walk that is under way that whatever is left to visit leads, itself or through a
reference, to Views of the functor (`Leads`), that every noted expression evaluates to one,
and that every View of the functor was noted or is in what is left; `Registered` follows the
statements of a call. `ContainedIn` and `ReachedIn` are recursions over types of any depth.
That they have a solution is shown by taking the union of all functions that claim no more
than they can account for, and what they contain by a type without an offending part.

**KernelRoundTrip_proofs.** `PolicyRoundTrip`: for every Kokkos policy, build and width of
the integers, `VisitedPolicy(RestoredPolicy(p))` is the captured policy, scratch sizes
aside that the captured build cannot query, if the build supports it, and `Throws`
otherwise. The range case rests on `IndexRoundTrip`: a value of any index type survives the
way through an unsigned 64-bit word and back, since the replay narrows to the width
that was widened. `LaunchedWithItsPolicy` carries this through any sequence of calls of
`parallel_for`, for every shape of functor: it is the part of `LaunchedAsCaptured` and
`RefusedExactlyIfUnsupported` about policies.

The rest of the module is about functors, for every set of shapes: a shape is any finite
tree of lambdas whose captures are numbered (`ShapesAssumption`, which says what the paths
of the model stand for and nothing about the program). `EveryLaunchIsAsCaptured`,
`NoReplayFollowsAForeignPointer`, `RefusedExactlyIfUnsupportedAlways` and the action property
`EveryReplayLeavesNoTrace` rest on `RevivalInv`. Its core is what the memory holds in the
middle of `execute`: after n rounds the working copy and the buffers of the first n closures
are the captured bytes in which exactly the pointers to those n closures have been replaced
(`PatchedStorage`, `PatchedBuffer`). That each round keeps this needs two facts about the
walk: it lists every instance of a lambda, and an instance before those inside it
(`VisitIsListed`), so that a pointer is patched only after the captured bytes around it have
been written, and never overwritten again. After the last round all pointers lead to buffers
of the working copy, the copy of it is safe (`FilledIsSafe`), and the guard writes the
program's own bytes back before the working copy is destroyed (`RestoredMeans`). The offsets
of the closures in the dump and in the working copy agree because both follow the same walk
and no buffer is empty (`OffsetsAgree`); a functor with another total is refused in the first
round, with one pointer patched and nothing copied.

The recursions are over data (the walk, the addresses, the sizes, the fold that restores).
What they compute is shown without an induction principle: a solution is built up to each
depth or length and a least counterexample is refuted (`RecursionExists`, `VisitExists`,
`OwnAddresses`, `WrittenBackMeans`, `TotalIsOffset`).

**CaptureReplay_proofs.** `WhatIsAcceptedIsWhole`, `ReplaysReproduce`, `CapturesCompareEqual` and the action property
`CompleteCapturesAreAccepted`, for every application with one launching thread, wherever
its capture fails, and any calls of the replay program. With the plugins the blocks can be
probed (`Probed`, as in `CaptureContents_proofs`; the run has it). The argument has three parts.
In the application, `SequentialInv` ties the file to the memory while its launch is in
flight: nothing allocates or frees between the two snapshots, so that an entry of `/in`
is still what the tracker has, the memory is `/in` plus the kernel once it has run, and
`/out` is therefore `/in` plus one write (`OutFollowsIn`). `GroupsInv` says that a file with
any group behind `/in/views` has all that its launch captures and that launch's policy:
this is what makes a partial file harmless, as the replayer reads those groups last, until
the dataset of the functor exists. At
`Exit`, `DumpIsGood` shows that what is on the disk is a dump file in the sense of
`Replayer_proofs` whose functor stays on its own allocations, and `FilesAppear` hands it over.
For a functor that was not written, whose replay may crash, the invariant of the replay
keeps all but the contents of memory, and the theorems their stated exception.
In the replay, the lemmas of `Replayer_proofs` are instantiated (`RP`; `SameReplayer` shows
that it is the replayer of the composition) and carry `CompositionInv` on. The kernel is
counted once on each side: `KernelIsCounted` and `ContentsInv` give the same number.
`CapturesCompareEqual` needs `OutFollowsIn` again: the outputs of the file are those of its
kernel (`HasOutputsOfItsKernel`), so that `OutputsAgree` of `Replayer_proofs` applies.

Only model-checked:

* liveness (`DumpSettles`, `LaunchesReturn`, `CallsReturn`): fairness and ENABLED are out of TLAPS' reach.

Every other property of the runs, invariants and action properties alike, is a theorem.

## 6. What is not modelled

* Loss of power or a killed process during a write: HDF5 promises nothing about such
  a file, and KREPE does not try to detect it.
* The layout of HDF5 files beyond groups that are there, damaged or missing.
* Alignment and padding inside functors: cells are not bytes. `visit_hdl_captures`
  assumes that wrapper and host lambda agree on them.
* Offsets and names in the syntax trees of the compilers; failed look-ups abort the
  compilation.
* Races on `metadata` and on the first binding of the extraction library: both are
  single steps of the model.
* Releasing memory never fails in `ReplayMemory`. `host_deallocate` ignores the result of
  `munmap`; `device_deallocate` throws, out of a destructor, which ends the program.
* `Replayer` leaves a scope, or calls `finalize`, only when no kernel is queued. The code
  has no such condition: the documented order, KREPE before Kokkos at the beginning and
  after it at the end, gives it, since finalizing Kokkos waits for the device.
* A read that fails within a group: `functor_data` and `replay_policy` may be left new and
  empty (`FailToRead`); which keys of the metadata were inserted before is left out.
* Types that `ReferentAssumption` excludes beyond the NOTE at `gcc.cpp:79-81`: references
  behind references, references into bases, and a reference back to an enclosing record,
  on which the walk of clang (`clang.cpp:151-168`) does not end.
* A functor of another type in the replay program whose sizes do not tell it from the
  captured one: `init_functor` accepts every size up to the captured one. The
  documentation requires the same functor.
* The bounds of an MDRange policy are those Kokkos stores, 64-bit signed integers whatever
  the index type; the casts of the code leave them as they are.
* An output whose address was reused under the same label and size is compared, as
  section 3 says.
* How many dumps a process writes: `docs/hdf5-dumps.md:7` ("For each matching kernel
  invocation") can be read as several; the code and the README of the repository (one
  requested invocation) give one, which is what `OneRequestedDump` states.
* `compare_views` by label, which takes the extents from its caller.
* Formatting of file names and messages, logging, the build system, the scripts,
  the examples: they keep no state.

## 7. Plan

Done: the capture side, the address layout and the memory back ends, the replayer with
its command line, the plugins, policies and functors, the two halves composed, and the
proofs of section 5, which state every safety property of the runs. Next: a composition
with device memory.
