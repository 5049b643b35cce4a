-------------------------- MODULE KernelRoundTrip --------------------------
(***************************************************************************)
(* One kernel from the program that launches it to the program that        *)
(* replays it: krepe::parallel_for of the extraction library registers the *)
(* policy and copies the functor, the dump is written and read, and        *)
(* krepe::parallel_for of the replay library revives the functor           *)
(* (FunctorRestore) and launches it with the policy of the dump            *)
(* (PolicyCodec).  The replaying program may call it any number of times,  *)
(* with a functor of another type too; exceptions leave it running.        *)
(***************************************************************************)
EXTENDS PolicyCodec, FunctorRestore

CONSTANTS
    Kernels,         \* the captured launches: a policy, or none, and the shape of the functor
    Arities          \* arguments a functor of the programs may accept

ASSUME KernelsAssumption ==
    \A k \in Kernels : k.policy \in KokkosPolicies \cup {Monostate} /\ k.shape \in Shapes

VARIABLES
    phase,           \* "capture", "load", "replay"
    kernel,          \* the captured launch: its policy, or none, and its functor
    policyGroup,     \* attributes of the group policy of the dump
    replayPolicy,    \* replay_policy
    call,            \* the call of parallel_for in progress
    launched         \* what Kokkos::parallel_for got from it

vars == <<dataVars, restoreVars, phase, kernel, policyGroup, replayPolicy, call, launched>>
tripVars == <<phase, kernel, policyGroup, replayPolicy>>

NoCall == [forced |-> FALSE, accepts |-> {}, ended |-> "not called"]
NotLaunched == [policy |-> Monostate, functor |-> FALSE]
Forced == [kind |-> "forced"]      \* the policy that the replaying program gives itself

Init ==
    /\ InitRestore
    /\ phase = "capture" /\ policyGroup = Monostate /\ replayPolicy = Monostate
    /\ kernel \in Kernels
    /\ functorData = << >> /\ hostClosureData = << >>
    /\ call = NoCall /\ launched = NotLaunched

(* krepe::parallel_for when next_invocation_will_dump, or, without a       *)
(* policy, krepe::replay_functor in a Kokkos::parallel_for of the program; *)
(* the dump of /in writes what was registered.                             *)
Capture ==
    /\ phase = "capture" /\ phase' = "load"
    /\ policyGroup' = WritePolicy(IF kernel.policy = Monostate THEN Monostate
                                  ELSE RegisterBounds(kernel.policy))
    /\ CopyNvccFunctor(kernel.shape)
    /\ UNCHANGED <<restoreVars, kernel, replayPolicy, call, launched>>

(* The constructor of the replay guard reads the policy. *)
Load ==
    /\ phase = "load"
    /\ replayPolicy' = ReadPolicy(policyGroup)
    /\ phase' = IF replayPolicy' = Throws THEN "not loaded" ELSE "replay"
    /\ UNCHANGED <<dataVars, restoreVars, kernel, policyGroup, call, launched>>

(* The functors of another type that the guard tells from the captured one *)
(* by their sizes; "a functor with the same signature and the same         *)
(* captures" is required of the others.                                    *)
HostSize(s) == TotalSize(HostClosures(s))
IsToldApart(s) ==
    \/ Cardinality(StorageCells(s)) > Cardinality(StorageCells(kernel.shape))
    \/ s # {} /\ HostSize(s) # HostSize(kernel.shape)

(* krepe::parallel_for of the replay library begins. *)
ParallelFor(s, accepts, forced) ==
    /\ phase = "replay" /\ step = "idle"
    /\ s = kernel.shape \/ IsToldApart(s)
    /\ BeginReplayFunctor(s)
    /\ call' = [forced |-> forced, accepts |-> accepts, ended |-> "no"]
    /\ UNCHANGED <<dataVars, tripVars, launched>>

(* ParallelForVisitor: nothing is launched when the functor does not       *)
(* accept the indices, and a dump without a policy throws.                 *)
IsLaunched ==
    call.forced \/ (replayPolicy.kind # "none" /\ Arguments(replayPolicy) \in call.accepts)

(* parallel_for goes on with the functor of replay_functor, a copy of      *)
(* which Kokkos launches, or ends with its exception.                      *)
Launch ==
    /\ step \in {"returned", "threw"} /\ call.ended = "no"
    /\ IF step = "returned" /\ IsLaunched
       THEN /\ launched' = [policy |-> IF call.forced THEN Forced ELSE VisitedPolicy(replayPolicy),
                            functor |-> IsRevived(shape, result, heap)]
            /\ fault' = (fault \/ CopyFaults(shape, result, heap, tracking))
            /\ call' = [call EXCEPT !.ended = "launched"]
       ELSE /\ call' = [call EXCEPT !.ended =
                          IF step = "threw" \/ (~call.forced /\ replayPolicy.kind = "none")
                          THEN "threw" ELSE "ignored"]
            /\ UNCHANGED <<launched, fault>>
    /\ UNCHANGED <<dataVars, tripVars, shape, step, tracking, disabledTracking, heap,
                   working, saved, nextClosure, result>>

Return ==
    /\ step \in {"returned", "threw"} /\ call.ended # "no"
    /\ DestroyResult
    /\ call' = NoCall /\ launched' = NotLaunched
    /\ UNCHANGED <<dataVars, tripVars>>

CallStep ==
    \/ ReplayFunctorStep /\ UNCHANGED <<dataVars, tripVars, call, launched>>
    \/ Launch \/ Return

Next ==
    \/ Capture \/ Load
    \/ \E s \in Shapes, accepts \in Arities, forced \in BOOLEAN : ParallelFor(s, accepts, forced)
    \/ CallStep

Spec == Init /\ [][Next]_vars

-----------------------------------------------------------------------------
(* Properties.                                                             *)

(* What Kokkos launches in the replaying program is the captured functor,  *)
(* with the policy of the captured launch: its bounds of any width and     *)
(* sign, ranks, tiles, directions, sizes left to Kokkos and scratch memory *)
(* as far as the space told it, unless the program forces another one.     *)
LaunchedAsCaptured ==
    launched # NotLaunched =>
        /\ launched.functor
        /\ launched.policy \in {Forced, Recorded(kernel.policy)}

(* A dump is refused exactly when the build cannot make its policy, a      *)
(* functor of a type that the sizes tell apart is never revived, one of    *)
(* the captured type always is unless a copy throws, and a launch is left  *)
(* out only when the functor does not accept the indices of the captured   *)
(* policy.  init_functor accepts any type that is not larger than the      *)
(* captured one; of these the documentation requires that they have the    *)
(* same captures, and nothing is said here.                                *)
RefusedExactlyIfUnsupported ==
    /\ phase \in {"replay", "not loaded"} =>
         (phase = "not loaded") = (kernel.policy # Monostate /\ ~Replayable(kernel.policy))
    /\ result # NoObject => shape = kernel.shape
    /\ (step = "restore" /\ result = NoObject /\ shape = kernel.shape) =>
         nextClosure > Len(saved.closures) /\ CopiesThrow
    /\ call.ended = "ignored" => Arguments(RegisterBounds(kernel.policy)) \notin call.accepts

=============================================================================
