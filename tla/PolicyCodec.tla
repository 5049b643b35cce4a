---------------------------- MODULE PolicyCodec ----------------------------
(***************************************************************************)
(* What happens to an execution policy between the launch that is captured *)
(* and the one that is replayed: register_bounds turns the Kokkos policy   *)
(* into a description (extract/kernel_extractor.hpp), write_policy stores  *)
(* it as attributes of the dump (capture/view_dump.cpp), the replayer      *)
(* reads them into a variant (replay/kernel_replayer.cpp) and              *)
(* ParallelForVisitor builds a Kokkos policy from it                       *)
(* (replay/kernel_replayer.hpp).                                           *)
(*                                                                         *)
(* A Kokkos policy is a record; attributes of the dump are fields of one.  *)
(* An index type is [size |-> bytes, signed |-> Boolean], and an integer   *)
(* of n bytes has Span[n] values.                                          *)
(***************************************************************************)
EXTENDS Integers, Sequences

CONSTANTS
    Span,            \* number of values of an integer of 1, 2, 4 or 8 bytes
    EnabledSpaces,   \* execution spaces of the replay build
    ScratchSpaces,   \* execution spaces whose team policies tell their scratch sizes
    MinRank,         \* smallest rank of an MDRangePolicy: 1 from Kokkos 5.2 on, or 2
    AUTO             \* Kokkos::AUTO

Sizes == {1, 2, 4, 8}

ASSUME SpanAssumption ==
    /\ Span \in [Sizes -> Nat]
    /\ \A s \in Sizes : Span[s] > 0 /\ Span[s] % 2 = 0 /\ Span[s] <= Span[8]
ASSUME MinRankAssumption == MinRank \in {1, 2}
ASSUME AutoAssumption == AUTO \notin Int

Unspecified == -1        \* what KREPE stores for AUTO and for an unknown scratch size
Throws == [kind |-> "throws"]
Monostate == [kind |-> "none"]

(* The values of an index type. *)
Values(index) ==
    {v \in Int : IF index.signed THEN 2 * v >= -Span[index.size] /\ 2 * v < Span[index.size]
                                 ELSE v >= 0 /\ v < Span[index.size]}

-----------------------------------------------------------------------------
(* Capture.                                                                *)

(* index_type_to_u64 *)
IndexTypeToU64(v, index) == IF index.signed THEN v % Span[8] ELSE v

(* register_bounds for the four kinds of policies, and the entry points    *)
(* register_*_policy of the capture library that it calls.                 *)
RegisterScalar(p) == [kind |-> "scalar", end |-> p.end]

RegisterRange(p) ==
    [kind |-> "range", index |-> p.index, space |-> p.space, schedule |-> p.schedule,
     begin |-> IndexTypeToU64(p.begin, p.index), end |-> IndexTypeToU64(p.end, p.index),
     chunk |-> p.chunk]

RegisterMDRange(p) ==
    [kind |-> "mdrange", index |-> p.index, space |-> p.space, schedule |-> p.schedule,
     rank |-> Len(p.begin), outer |-> p.outer, inner |-> p.inner,
     begin |-> p.begin, end |-> p.end, tile |-> p.tile]

OrUnspecified(n) == IF n = AUTO THEN Unspecified ELSE n

RegisterTeam(p) ==
    [kind |-> "team", index |-> p.index, space |-> p.space, schedule |-> p.schedule,
     teamSize |-> OrUnspecified(p.teamSize), leagueSize |-> p.leagueSize,
     vectorLength |-> OrUnspecified(p.vectorLength),
     scratch |-> [s \in DOMAIN p.scratch |->
                    IF p.space \in ScratchSpaces THEN p.scratch[s] ELSE Unspecified],
     chunk |-> p.chunk]

RegisterBounds(p) ==
    CASE p.kind = "scalar"  -> RegisterScalar(p)
      [] p.kind = "range"   -> RegisterRange(p)
      [] p.kind = "mdrange" -> RegisterMDRange(p)
      [] p.kind = "team"    -> RegisterTeam(p)

(* write_policy: the index type becomes two integer attributes, the other  *)
(* attributes are the members of the description; NoPolicyDesc, when       *)
(* nothing was registered, only has a type.                                *)
IsSigned(index) == IF index.signed THEN 1 ELSE 0

WritePolicy(d) ==
    CASE d.kind \in {"none", "scalar"} -> d
      [] d.kind = "range" ->
           [kind |-> "range", index_type_size |-> d.index.size,
            index_type_signed |-> IsSigned(d.index), space |-> d.space,
            schedule |-> d.schedule, begin |-> d.begin, end |-> d.end, chunk |-> d.chunk]
      [] d.kind = "mdrange" ->
           [kind |-> "mdrange", index_type_size |-> d.index.size,
            index_type_signed |-> IsSigned(d.index), space |-> d.space,
            schedule |-> d.schedule, rank |-> d.rank, outer |-> d.outer, inner |-> d.inner,
            begin |-> d.begin, end |-> d.end, tile |-> d.tile]
      [] d.kind = "team" ->
           [kind |-> "team", index_type_size |-> d.index.size,
            index_type_signed |-> IsSigned(d.index), space |-> d.space,
            schedule |-> d.schedule, teamSize |-> d.teamSize, leagueSize |-> d.leagueSize,
            vectorLength |-> d.vectorLength, scratch |-> d.scratch, chunk |-> d.chunk]

-----------------------------------------------------------------------------
(* Replay.                                                                 *)

\* Mutant: the signedness is not read.
IndexTypeFromProps_Unsigned(signed, size) == [size |-> size, signed |-> FALSE]

(* get_policy_index_type_from_props; it throws for any other size. *)
IndexTypeFromProps(signed, size) == [size |-> size, signed |-> signed # 0]

Directions == {"left", "right"}
Schedules == {"static", "dynamic"}

\* Mutant: the rank is not tested.
Unreadable_AnyRank(a) ==
    /\ a.kind \notin {"none", "scalar"}
    /\ \/ a.index_type_size \notin Sizes
       \/ a.space \notin EnabledSpaces
       \/ a.schedule \notin Schedules

(* The conditions under which read_policy_from_hdf5 throws. *)
Unreadable(a) ==
    /\ a.kind \notin {"none", "scalar"}
    /\ \/ a.index_type_size \notin Sizes
       \/ a.space \notin EnabledSpaces      \* get_policy_exec_space_from_name
       \/ a.schedule \notin Schedules       \* get_policy_schedule_from_name
       \/ /\ a.kind = "mdrange"
          /\ \/ a.rank \notin MinRank .. 6
             \/ a.outer \notin Directions
             \/ a.inner \notin Directions

(* read_policy_from_hdf5 *)
ReadPolicy(a) ==
    IF Unreadable(a) THEN Throws ELSE
    CASE a.kind \in {"none", "scalar"} -> a
      [] a.kind = "range" ->
           [kind |-> "range", index |-> IndexTypeFromProps(a.index_type_signed, a.index_type_size),
            space |-> a.space, schedule |-> a.schedule, begin |-> a.begin, end |-> a.end,
            chunk |-> a.chunk]
      [] a.kind = "mdrange" ->
           [kind |-> "mdrange",
            index |-> IndexTypeFromProps(a.index_type_signed, a.index_type_size),
            space |-> a.space, schedule |-> a.schedule, rank |-> a.rank, outer |-> a.outer,
            inner |-> a.inner, begin |-> a.begin, end |-> a.end, tile |-> a.tile]
      [] a.kind = "team" ->
           [kind |-> "team", index |-> IndexTypeFromProps(a.index_type_signed, a.index_type_size),
            space |-> a.space, schedule |-> a.schedule, teamSize |-> a.teamSize,
            leagueSize |-> a.leagueSize, vectorLength |-> a.vectorLength,
            scratch |-> a.scratch, chunk |-> a.chunk]

(* bit_cast<std::int64_t> of a 64-bit word. *)
BitCast(w) == IF 2 * w >= Span[8] THEN w - Span[8] ELSE w

(* The conversion to an index type keeps the low bytes. *)
Narrow(v, index) ==
    LET low == v % Span[index.size]
    IN  IF index.signed /\ 2 * low >= Span[index.size] THEN low - Span[index.size] ELSE low

(* The conversions in ParallelForVisitor for a RangePolicyDesc. *)
FromU64(w, index) == Narrow(IF index.signed THEN BitCast(w) ELSE w, index)

OrAuto(n) == IF n < 0 THEN AUTO ELSE n

(* get_range_policy, get_mdrange_policy and get_team_policy: a scratch     *)
(* size that is not set is 0.                                              *)
RangePolicy(d) ==
    [kind |-> "range", index |-> d.index, space |-> d.space, schedule |-> d.schedule,
     begin |-> FromU64(d.begin, d.index), end |-> FromU64(d.end, d.index), chunk |-> d.chunk]

MDRangePolicy(d) ==
    [kind |-> "mdrange", index |-> d.index, space |-> d.space, schedule |-> d.schedule,
     outer |-> d.outer, inner |-> d.inner,
     begin |-> [i \in 1 .. d.rank |-> d.begin[i]], end |-> [i \in 1 .. d.rank |-> d.end[i]],
     tile |-> [i \in 1 .. d.rank |-> d.tile[i]]]

TeamPolicy(d) ==
    [kind |-> "team", index |-> d.index, space |-> d.space, schedule |-> d.schedule,
     teamSize |-> OrAuto(d.teamSize), leagueSize |-> d.leagueSize,
     vectorLength |-> OrAuto(d.vectorLength),
     scratch |-> [s \in DOMAIN d.scratch |->
                    IF d.scratch["team0"] # Unspecified THEN d.scratch[s] ELSE 0],
     chunk |-> d.chunk]

(* What ParallelForVisitor gives to Kokkos::parallel_for. *)
VisitedPolicy(d) ==
    CASE d.kind = "scalar"  -> d
      [] d.kind = "range"   -> RangePolicy(d)
      [] d.kind = "mdrange" -> MDRangePolicy(d)
      [] d.kind = "team"    -> TeamPolicy(d)

(* The arguments a functor must accept to be launched with a description:  *)
(* one index, as many as the rank, or a team member.                       *)
Arguments(d) ==
    CASE d.kind \in {"scalar", "range"} -> "1"
      [] d.kind = "mdrange" -> <<"1", "2", "3", "4", "5", "6">>[d.rank]
      [] d.kind = "team" -> "team"

-----------------------------------------------------------------------------
(* What the two ends promise each other.                                   *)

(* A Kokkos policy as far as a dump can tell it: sizes of scratch memory   *)
(* are lost when the execution space does not tell them.                   *)
Recorded(p) ==
    IF p.kind = "team" /\ p.space \notin ScratchSpaces
    THEN [p EXCEPT !.scratch = [s \in DOMAIN p.scratch |-> 0]]
    ELSE p

(* The policies a build can replay. *)
Replayable(p) ==
    p.kind # "scalar" =>
        p.space \in EnabledSpaces /\ (p.kind = "mdrange" => Len(p.begin) >= MinRank)

RestoredPolicy(p) == ReadPolicy(WritePolicy(RegisterBounds(p)))

(* The Kokkos policies. *)
IndexTypes == [size : Sizes, signed : BOOLEAN]
ScratchKinds == {"team0", "team1", "thread0", "thread1"}
ScalarPolicies == [kind : {"scalar"}, end : Nat]
RangePolicies ==
    {p \in [kind : {"range"}, index : IndexTypes, space : STRING, schedule : Schedules,
            begin : Int, end : Int, chunk : Int] :
        p.begin \in Values(p.index) /\ p.end \in Values(p.index)}
MDRangePolicies ==
    {p \in [kind : {"mdrange"}, index : IndexTypes, space : STRING, schedule : Schedules,
            outer : Directions, inner : Directions, begin : Seq(Int), end : Seq(Int),
            tile : Seq(Int)] :
        Len(p.begin) \in 1 .. 6 /\ Len(p.end) = Len(p.begin) /\ Len(p.tile) = Len(p.begin)}
TeamPolicies ==
    [kind : {"team"}, index : IndexTypes, space : STRING, schedule : Schedules,
     teamSize : Nat \cup {AUTO}, leagueSize : Nat, vectorLength : Nat \cup {AUTO},
     scratch : [ScratchKinds -> Nat], chunk : Int]
KokkosPolicies == ScalarPolicies \cup RangePolicies \cup MDRangePolicies \cup TeamPolicies

=============================================================================
