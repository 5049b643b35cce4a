----------------------- MODULE KernelRoundTrip_proofs -----------------------
(***************************************************************************)
(* Every Kokkos policy survives the way through a dump, for integers of    *)
(* any widths, whatever execution spaces the two builds have, and every    *)
(* functor does, however its extended lambdas are nested: what a replay    *)
(* launches is the captured functor with the captured policy, and the      *)
(* replay follows no pointer of the captured process and leaves no trace.  *)
(***************************************************************************)
EXTENDS KernelRoundTrip, FiniteSetTheorems, WellFoundedInduction, SequenceTheorems, TLAPS

(* A value of an index type fits a 64-bit word in two's complement, and    *)
(* the conversions of ParallelForVisitor give it back.                     *)
LEMMA ModSmall == ASSUME NEW n \in Nat \ {0}, NEW v \in 0 .. n - 1 PROVE v % n = v
  BY Z3

LEMMA ModNegative == ASSUME NEW n \in Nat \ {0}, NEW v \in -n .. -1 PROVE v % n = v + n
  BY Z3

LEMMA IndexRoundTrip ==
  ASSUME NEW index \in IndexTypes, NEW v \in Values(index)
  PROVE  FromU64(IndexTypeToU64(v, index), index) = v
<1> DEFINE s == Span[index.size]  w == Span[8]
<1>1. /\ s \in Nat \ {0} /\ w \in Nat \ {0} /\ s <= w
      /\ v \in Int
  BY SpanAssumption DEF IndexTypes, Sizes, Values
<1>2. CASE index.signed
  <2>1. 2 * v >= -s /\ 2 * v < s
    BY <1>2 DEF Values
  <2> DEFINE u == IndexTypeToU64(v, index)
  <2>2. u = v % w
    BY <1>2 DEF IndexTypeToU64
  <2>3. CASE v >= 0
    <3>1. v \in 0 .. w - 1 /\ v \in 0 .. s - 1
      BY <1>1, <2>1, <2>3
    <3> HIDE DEF s, w
    <3>2. u = v
      BY <1>1, <2>2, <3>1, ModSmall
    <3>3. v % s = v
      BY <1>1, <3>1, ModSmall
    <3>4. BitCast(u) = v
      BY <1>1, <2>1, <2>3, <3>2 DEF BitCast, w
    <3>5. Narrow(v, index) = v
      BY <1>1, <1>2, <2>1, <3>3 DEF Narrow, s
    <3> QED BY <1>2, <3>4, <3>5 DEF FromU64
  <2>4. CASE v < 0
    <3>1. v \in -w .. -1 /\ v \in -s .. -1
      BY <1>1, <2>1, <2>4
    <3> HIDE DEF s, w
    <3>2. u = v + w
      BY <1>1, <2>2, <3>1, ModNegative
    <3>3. v % s = v + s
      BY <1>1, <3>1, ModNegative
    <3>4. BitCast(u) = v
      BY <1>1, <2>1, <2>4, <3>2 DEF BitCast, w
    <3>5. Narrow(v, index) = v
      BY <1>1, <1>2, <2>1, <3>3 DEF Narrow, s
    <3> QED BY <1>2, <3>4, <3>5 DEF FromU64
  <2> QED BY <1>1, <2>3, <2>4
<1>3. CASE ~index.signed
  <2>1. v \in 0 .. s - 1
    BY <1>1, <1>3 DEF Values
  <2> HIDE DEF s, w
  <2>2. v % s = v
    BY <1>1, <2>1, ModSmall
  <2> QED BY <1>3, <2>2 DEF FromU64, IndexTypeToU64, Narrow, s
<1> QED BY <1>2, <1>3

(* The four kinds of policies. *)
LEMMA RangeRoundTrip ==
  ASSUME NEW p \in RangePolicies
  PROVE  IF Replayable(p)
         THEN VisitedPolicy(RestoredPolicy(p)) = Recorded(p) /\ RestoredPolicy(p) # Throws
         ELSE RestoredPolicy(p) = Throws
<1> DEFINE d == RegisterBounds(p)  a == WritePolicy(d)
<1>1. /\ p.kind = "range" /\ p.index \in IndexTypes /\ p.schedule \in Schedules
      /\ p.begin \in Values(p.index) /\ p.end \in Values(p.index)
      /\ p = [kind |-> "range", index |-> p.index, space |-> p.space, schedule |-> p.schedule,
              begin |-> p.begin, end |-> p.end, chunk |-> p.chunk]
  BY DEF RangePolicies
<1>2. d = RegisterRange(p)
  BY <1>1 DEF RegisterBounds
<1>3. a = [kind |-> "range", index_type_size |-> p.index.size,
           index_type_signed |-> IsSigned(p.index), space |-> p.space,
           schedule |-> p.schedule, begin |-> IndexTypeToU64(p.begin, p.index),
           end |-> IndexTypeToU64(p.end, p.index), chunk |-> p.chunk]
  BY <1>2 DEF WritePolicy, RegisterRange
<1>4. IndexTypeFromProps(a.index_type_signed, a.index_type_size) = p.index
  BY <1>1, <1>3 DEF IndexTypeFromProps, IsSigned, IndexTypes
<1>5. Unreadable(a) <=> ~Replayable(p)
  BY <1>1, <1>3 DEF Unreadable, Replayable, IndexTypes
<1> HIDE DEF d, a
<1>6. CASE Replayable(p)
  <2>1. ReadPolicy(a) = [kind |-> "range", index |-> p.index, space |-> p.space,
                         schedule |-> p.schedule, begin |-> IndexTypeToU64(p.begin, p.index),
                         end |-> IndexTypeToU64(p.end, p.index), chunk |-> p.chunk]
    BY <1>3, <1>4, <1>5, <1>6 DEF ReadPolicy
  <2>2. VisitedPolicy(ReadPolicy(a)) = p
    BY <1>1, <2>1, IndexRoundTrip DEF VisitedPolicy, RangePolicy
  <2>3. ReadPolicy(a) # Throws
    BY <2>1 DEF Throws
  <2> QED BY <1>1, <1>6, <2>2, <2>3 DEF RestoredPolicy, Recorded, d, a
<1>7. CASE ~Replayable(p)
  BY <1>5, <1>7 DEF RestoredPolicy, ReadPolicy, d, a
<1> QED BY <1>6, <1>7

LEMMA MDRangeRoundTrip ==
  ASSUME NEW p \in MDRangePolicies
  PROVE  IF Replayable(p)
         THEN VisitedPolicy(RestoredPolicy(p)) = Recorded(p) /\ RestoredPolicy(p) # Throws
         ELSE RestoredPolicy(p) = Throws
<1> DEFINE d == RegisterBounds(p)  a == WritePolicy(d)
<1>1. /\ p.kind = "mdrange" /\ p.index \in IndexTypes /\ p.schedule \in Schedules
      /\ p.outer \in Directions /\ p.inner \in Directions
      /\ p.begin \in Seq(Int) /\ p.end \in Seq(Int) /\ p.tile \in Seq(Int)
      /\ Len(p.begin) \in 1 .. 6 /\ Len(p.end) = Len(p.begin) /\ Len(p.tile) = Len(p.begin)
      /\ p = [kind |-> "mdrange", index |-> p.index, space |-> p.space,
              schedule |-> p.schedule, outer |-> p.outer, inner |-> p.inner,
              begin |-> p.begin, end |-> p.end, tile |-> p.tile]
  BY DEF MDRangePolicies
<1>2. d = RegisterMDRange(p)
  BY <1>1 DEF RegisterBounds
<1>3. a = [kind |-> "mdrange", index_type_size |-> p.index.size,
           index_type_signed |-> IsSigned(p.index), space |-> p.space,
           schedule |-> p.schedule, rank |-> Len(p.begin), outer |-> p.outer,
           inner |-> p.inner, begin |-> p.begin, end |-> p.end, tile |-> p.tile]
  BY <1>2 DEF WritePolicy, RegisterMDRange
<1>4. IndexTypeFromProps(a.index_type_signed, a.index_type_size) = p.index
  BY <1>1, <1>3 DEF IndexTypeFromProps, IsSigned, IndexTypes
<1>5. Unreadable(a) <=> ~Replayable(p)
  <2>1. a.kind = "mdrange" /\ a.index_type_size \in Sizes /\ a.schedule \in Schedules
    BY <1>1, <1>3 DEF IndexTypes
  <2>2. a.outer \in Directions /\ a.inner \in Directions
    BY <1>1, <1>3
  <2>3. a.space = p.space /\ a.rank = Len(p.begin)
    BY <1>3
  <2>4. Len(p.begin) \in MinRank .. 6 <=> Len(p.begin) >= MinRank
    <3>1. \A n \in 1 .. 6 : n \in MinRank .. 6 <=> n >= MinRank
      BY MinRankAssumption
    <3> QED BY <1>1, <3>1
  <2> HIDE DEF a
  <2> QED BY <1>1, <2>1, <2>2, <2>3, <2>4 DEF Unreadable, Replayable
<1> HIDE DEF d, a
<1>6. CASE Replayable(p)
  <2>1. ReadPolicy(a) = [kind |-> "mdrange", index |-> p.index, space |-> p.space,
                         schedule |-> p.schedule, rank |-> Len(p.begin), outer |-> p.outer,
                         inner |-> p.inner, begin |-> p.begin, end |-> p.end,
                         tile |-> p.tile]
    BY <1>3, <1>4, <1>5, <1>6 DEF ReadPolicy
  <2>2. /\ [i \in 1 .. Len(p.begin) |-> p.begin[i]] = p.begin
        /\ [i \in 1 .. Len(p.begin) |-> p.end[i]] = p.end
        /\ [i \in 1 .. Len(p.begin) |-> p.tile[i]] = p.tile
    BY <1>1
  <2>3. VisitedPolicy(ReadPolicy(a)) = p
    BY <1>1, <2>1, <2>2 DEF VisitedPolicy, MDRangePolicy
  <2>4. ReadPolicy(a) # Throws
    BY <2>1 DEF Throws
  <2> QED BY <1>1, <1>6, <2>3, <2>4 DEF RestoredPolicy, Recorded, d, a
<1>7. CASE ~Replayable(p)
  BY <1>5, <1>7 DEF RestoredPolicy, ReadPolicy, d, a
<1> QED BY <1>6, <1>7

LEMMA TeamRoundTrip ==
  ASSUME NEW p \in TeamPolicies
  PROVE  IF Replayable(p)
         THEN VisitedPolicy(RestoredPolicy(p)) = Recorded(p) /\ RestoredPolicy(p) # Throws
         ELSE RestoredPolicy(p) = Throws
<1> DEFINE d == RegisterBounds(p)  a == WritePolicy(d)
           kept == [s \in ScratchKinds |->
                      IF p.space \in ScratchSpaces THEN p.scratch[s] ELSE Unspecified]
<1>1. /\ p.kind = "team" /\ p.index \in IndexTypes /\ p.schedule \in Schedules
      /\ p.teamSize \in Nat \cup {AUTO} /\ p.vectorLength \in Nat \cup {AUTO}
      /\ p.scratch \in [ScratchKinds -> Nat]
      /\ p = [kind |-> "team", index |-> p.index, space |-> p.space, schedule |-> p.schedule,
              teamSize |-> p.teamSize, leagueSize |-> p.leagueSize,
              vectorLength |-> p.vectorLength, scratch |-> p.scratch, chunk |-> p.chunk]
  BY DEF TeamPolicies
<1>2. d = RegisterTeam(p)
  BY <1>1 DEF RegisterBounds
<1>3. a = [kind |-> "team", index_type_size |-> p.index.size,
           index_type_signed |-> IsSigned(p.index), space |-> p.space,
           schedule |-> p.schedule, teamSize |-> OrUnspecified(p.teamSize),
           leagueSize |-> p.leagueSize, vectorLength |-> OrUnspecified(p.vectorLength),
           scratch |-> kept, chunk |-> p.chunk]
  BY <1>1, <1>2 DEF WritePolicy, RegisterTeam
<1>4. IndexTypeFromProps(a.index_type_signed, a.index_type_size) = p.index
  BY <1>1, <1>3 DEF IndexTypeFromProps, IsSigned, IndexTypes
<1>5. Unreadable(a) <=> ~Replayable(p)
  BY <1>1, <1>3 DEF Unreadable, Replayable, IndexTypes
<1>6. \A n \in Nat \cup {AUTO} : OrAuto(OrUnspecified(n)) = n
  BY AutoAssumption DEF OrAuto, OrUnspecified, Unspecified
<1> HIDE DEF d, a
<1>7. CASE Replayable(p)
  <2>1. ReadPolicy(a) = [kind |-> "team", index |-> p.index, space |-> p.space,
                         schedule |-> p.schedule, teamSize |-> OrUnspecified(p.teamSize),
                         leagueSize |-> p.leagueSize,
                         vectorLength |-> OrUnspecified(p.vectorLength),
                         scratch |-> kept, chunk |-> p.chunk]
    BY <1>3, <1>4, <1>5, <1>7 DEF ReadPolicy
  <2>2. [s \in DOMAIN kept |-> IF kept["team0"] # Unspecified THEN kept[s] ELSE 0]
          = Recorded(p).scratch
    <3>1. CASE p.space \in ScratchSpaces
      <4>1. kept = p.scratch /\ kept["team0"] # Unspecified
        BY <1>1, <3>1 DEF Unspecified, ScratchKinds
      <4> QED BY <1>1, <3>1, <4>1 DEF Recorded
    <3>2. CASE p.space \notin ScratchSpaces
      <4>1. kept["team0"] = Unspecified /\ DOMAIN kept = ScratchKinds
        BY <3>2 DEF ScratchKinds
      <4>2. Recorded(p).scratch = [s \in ScratchKinds |-> 0]
        BY <1>1, <3>2 DEF Recorded
      <4> HIDE DEF kept
      <4> QED BY <4>1, <4>2
    <3> QED BY <3>1, <3>2
  <2>3. Recorded(p) = [kind |-> "team", index |-> p.index, space |-> p.space,
                       schedule |-> p.schedule, teamSize |-> p.teamSize,
                       leagueSize |-> p.leagueSize, vectorLength |-> p.vectorLength,
                       scratch |-> Recorded(p).scratch, chunk |-> p.chunk]
    BY <1>1 DEF Recorded
  <2>4. VisitedPolicy(ReadPolicy(a)) = Recorded(p)
    <3> HIDE DEF kept
    <3> QED BY <1>1, <1>6, <2>1, <2>2, <2>3 DEF VisitedPolicy, TeamPolicy
  <2>5. ReadPolicy(a) # Throws
    BY <2>1 DEF Throws
  <2> QED BY <1>7, <2>4, <2>5 DEF RestoredPolicy, d, a
<1>8. CASE ~Replayable(p)
  BY <1>5, <1>8 DEF RestoredPolicy, ReadPolicy, d, a
<1> QED BY <1>7, <1>8

(* A replaying build launches every Kokkos policy exactly as it was        *)
(* captured, scratch sizes aside that the captured build could not query,  *)
(* and refuses a dump whose space or rank it does not have: no bound,      *)
(* sign, width, rank or size is lost in register_bounds, write_policy,     *)
(* read_policy_from_hdf5 or ParallelForVisitor.                            *)
THEOREM PolicyRoundTrip ==
  ASSUME NEW p \in KokkosPolicies
  PROVE  IF Replayable(p)
         THEN VisitedPolicy(RestoredPolicy(p)) = Recorded(p) /\ RestoredPolicy(p) # Throws
         ELSE RestoredPolicy(p) = Throws
<1>1. CASE p \in ScalarPolicies
  <2>1. p.kind = "scalar" /\ p = [kind |-> "scalar", end |-> p.end] /\ Replayable(p)
    BY <1>1 DEF ScalarPolicies, Replayable
  <2>2. RegisterBounds(p) = p
    BY <2>1 DEF RegisterBounds, RegisterScalar
  <2>3. WritePolicy(p) = p /\ ~Unreadable(p)
    BY <2>1 DEF WritePolicy, Unreadable
  <2>4. ReadPolicy(p) = p
    BY <2>1, <2>3 DEF ReadPolicy
  <2> QED BY <2>1, <2>2, <2>3, <2>4 DEF RestoredPolicy, VisitedPolicy, Recorded, Throws
<1> QED
  BY <1>1, RangeRoundTrip, MDRangeRoundTrip, TeamRoundTrip DEF KokkosPolicies
-----------------------------------------------------------------------------
(* The launches of the replaying program.                                  *)

(* What the constructor of the replay guard makes of the captured policy. *)
Loads(p) == IF p = Monostate THEN Monostate ELSE RestoredPolicy(p)

(* The way through a dump keeps what decides whether a functor accepts the *)
(* indices.                                                                *)
LEMMA RestoredArguments ==
  ASSUME NEW p \in KokkosPolicies, RestoredPolicy(p) # Throws
  PROVE  /\ RestoredPolicy(p).kind = p.kind /\ p.kind # "none"
         /\ Arguments(RestoredPolicy(p)) = Arguments(RegisterBounds(p))
<1> DEFINE d == RegisterBounds(p)  a == WritePolicy(d)
<1>1. ~Unreadable(a)
  BY DEF RestoredPolicy, ReadPolicy
<1>2. CASE p.kind = "scalar"
  <2>1. d = [kind |-> "scalar", end |-> p.end]
    BY <1>2 DEF RegisterBounds, RegisterScalar
  <2>2. ReadPolicy(a) = d
    BY <1>1, <2>1 DEF WritePolicy, ReadPolicy
  <2> QED BY <1>2, <2>1, <2>2 DEF RestoredPolicy, Arguments
<1>3. CASE p.kind = "range"
  <2>1. d.kind = "range"
    BY <1>3 DEF RegisterBounds, RegisterRange
  <2>2. a.kind = "range"
    BY <2>1 DEF WritePolicy
  <2>3. ReadPolicy(a).kind = "range"
    BY <1>1, <2>2 DEF ReadPolicy
  <2> QED BY <1>3, <2>1, <2>3 DEF RestoredPolicy, Arguments
<1>4. CASE p.kind = "mdrange"
  <2>1. d.kind = "mdrange"
    BY <1>4 DEF RegisterBounds, RegisterMDRange
  <2>2. a.kind = "mdrange" /\ a.rank = d.rank
    BY <2>1 DEF WritePolicy
  <2> HIDE DEF d, a
  <2>3. ReadPolicy(a).kind = "mdrange" /\ ReadPolicy(a).rank = d.rank
    BY <1>1, <2>2 DEF ReadPolicy
  <2>4. Arguments(ReadPolicy(a)) = Arguments(d)
    BY <2>1, <2>3 DEF Arguments
  <2> QED BY <1>4, <2>3, <2>4 DEF RestoredPolicy, d, a
<1>5. CASE p.kind = "team"
  <2>1. d.kind = "team"
    BY <1>5 DEF RegisterBounds, RegisterTeam
  <2>2. a.kind = "team"
    BY <2>1 DEF WritePolicy
  <2>3. ReadPolicy(a).kind = "team"
    BY <1>1, <2>2 DEF ReadPolicy
  <2> QED BY <1>5, <2>1, <2>3 DEF RestoredPolicy, Arguments
<1> QED
  BY <1>2, <1>3, <1>4, <1>5
     DEF KokkosPolicies, ScalarPolicies, RangePolicies, MDRangePolicies, TeamPolicies

(* The policy on its way, and what became of the call in progress. *)
PolicyInv ==
    /\ kernel \in Kernels
    /\ phase \in {"capture", "load", "replay", "not loaded"}
    /\ phase = "load" => ReadPolicy(policyGroup) = Loads(kernel.policy)
    /\ phase \in {"replay", "not loaded"} =>
         /\ replayPolicy = Loads(kernel.policy)
         /\ (phase = "not loaded") <=> (replayPolicy = Throws)
    /\ DOMAIN call = {"forced", "accepts", "ended"}
    /\ call.ended # "not called" => phase = "replay"
    /\ launched # NotLaunched => launched.policy \in {Forced, Recorded(kernel.policy)}
    /\ call.ended = "ignored" =>
         kernel.policy # Monostate /\ Arguments(RegisterBounds(kernel.policy)) \notin call.accepts

(* Nothing was launched at first. *)
LEMMA PolicyInit == Init => PolicyInv
<1> SUFFICES ASSUME Init PROVE PolicyInv
  OBVIOUS
<1>1. DOMAIN call = {"forced", "accepts", "ended"} /\ call.ended = "not called"
  BY DEF Init, NoCall
<1> QED
  BY <1>1 DEF Init, PolicyInv

(* Launch takes the policy that was captured. *)
LEMMA LaunchKeepsPolicy ==
  ASSUME PolicyInv, Launch
  PROVE  PolicyInv'
<1> DEFINE p == kernel.policy
<1>1. UNCHANGED <<phase, kernel, policyGroup, replayPolicy>> /\ call.ended = "no"
  BY DEF Launch, tripVars
<1>2. phase = "replay" /\ replayPolicy = Loads(p) /\ replayPolicy # Throws
  <2>1. phase = "replay"
    BY <1>1 DEF PolicyInv
  <2> QED BY <2>1 DEF PolicyInv
<1>3. p \in KokkosPolicies \cup {Monostate}
  BY KernelsAssumption DEF PolicyInv
<1>4. ASSUME p # Monostate
      PROVE  /\ VisitedPolicy(replayPolicy) = Recorded(p) /\ replayPolicy.kind # "none"
             /\ Arguments(replayPolicy) = Arguments(RegisterBounds(p))
  <2>1. p \in KokkosPolicies /\ replayPolicy = RestoredPolicy(p)
    BY <1>2, <1>3, <1>4 DEF Loads
  <2>2. Replayable(p)
    BY <1>2, <2>1, PolicyRoundTrip
  <2> QED BY <1>2, <2>1, <2>2, PolicyRoundTrip, RestoredArguments
<1>5. p = Monostate => replayPolicy.kind = "none"
  BY <1>2 DEF Loads, Monostate
<1>6. \/ /\ launched'.policy = IF call.forced THEN Forced ELSE VisitedPolicy(replayPolicy)
         /\ IsLaunched /\ call'.ended = "launched"
      \/ /\ launched' = launched /\ call'.ended = "threw"
      \/ /\ launched' = launched /\ call'.ended = "ignored" /\ call'.accepts = call.accepts
         /\ ~IsLaunched /\ (call.forced \/ replayPolicy.kind # "none")
  <2>1. DOMAIN call = {"forced", "accepts", "ended"}
    BY DEF PolicyInv
  <2>2. CASE step = "returned" /\ IsLaunched
    BY <2>1, <2>2 DEF Launch
  <2>3. CASE ~(step = "returned" /\ IsLaunched)
    <3>1. /\ call' = [call EXCEPT !.ended =
                        IF step = "threw" \/ (~call.forced /\ replayPolicy.kind = "none")
                        THEN "threw" ELSE "ignored"]
          /\ launched' = launched /\ step \in {"returned", "threw"}
      BY <2>3 DEF Launch
    <3> QED BY <2>1, <2>3, <3>1
  <2> QED BY <2>2, <2>3
<1> HIDE DEF p
<1>7. launched' # NotLaunched => launched'.policy \in {Forced, Recorded(p)}
  <2>1. p = kernel.policy
    BY DEF p
  <2> QED
    BY <1>4, <1>5, <1>6, <2>1 DEF PolicyInv, IsLaunched
<1>8. call'.ended = "ignored" => p # Monostate /\ Arguments(RegisterBounds(p)) \notin call'.accepts
  BY <1>4, <1>5, <1>6 DEF IsLaunched
<1>9. kernel \in Kernels /\ DOMAIN call' = {"forced", "accepts", "ended"}
  BY DEF PolicyInv, Launch
<1> QED
  BY <1>1, <1>2, <1>7, <1>8, <1>9 DEF PolicyInv, p

(* Every step keeps the policy. *)
LEMMA PolicyNext == PolicyInv /\ [Next]_vars => PolicyInv'
<1> SUFFICES ASSUME PolicyInv, [Next]_vars PROVE PolicyInv'
  OBVIOUS
<1>1. CASE Capture
  <2>1. /\ phase' = "load" /\ UNCHANGED <<kernel, call, launched>>
        /\ policyGroup' = WritePolicy(IF kernel.policy = Monostate THEN Monostate
                                      ELSE RegisterBounds(kernel.policy))
        /\ call.ended = "not called"
    BY <1>1 DEF Capture, PolicyInv
  <2>2. ReadPolicy(WritePolicy(Monostate)) = Monostate
    BY DEF ReadPolicy, WritePolicy, Monostate, Unreadable
  <2>3. ReadPolicy(policyGroup') = Loads(kernel.policy)
    BY <2>1, <2>2 DEF Loads, RestoredPolicy
  <2> QED
    BY <2>1, <2>3 DEF PolicyInv
<1>2. CASE Load
  <2>1. /\ replayPolicy' = Loads(kernel.policy) /\ UNCHANGED <<kernel, call, launched>>
        /\ phase' = IF replayPolicy' = Throws THEN "not loaded" ELSE "replay"
        /\ call.ended = "not called"
    BY <1>2 DEF Load, PolicyInv
  <2> QED
    BY <2>1 DEF PolicyInv
<1>3. ASSUME NEW s \in Shapes, NEW accepts \in Arities, NEW forced \in BOOLEAN,
             ParallelFor(s, accepts, forced)
      PROVE  PolicyInv'
  <2>1. /\ phase = "replay" /\ UNCHANGED <<phase, kernel, policyGroup, replayPolicy, launched>>
        /\ call' = [forced |-> forced, accepts |-> accepts, ended |-> "no"]
    BY <1>3 DEF ParallelFor, tripVars
  <2> QED
    BY <2>1 DEF PolicyInv
<1>4. CASE Launch
  BY <1>4, LaunchKeepsPolicy
<1>5. CASE Return
  <2>1. /\ UNCHANGED <<phase, kernel, policyGroup, replayPolicy>>
        /\ call' = NoCall /\ launched' = NotLaunched
    BY <1>5 DEF Return, tripVars
  <2>2. DOMAIN NoCall = {"forced", "accepts", "ended"} /\ NoCall.ended = "not called"
    BY DEF NoCall
  <2> QED
    BY <2>1, <2>2 DEF PolicyInv
<1>6. CASE UNCHANGED <<tripVars, call, launched>>
  BY <1>6 DEF PolicyInv, tripVars
<1> QED
  BY <1>1, <1>2, <1>3, <1>4, <1>5, <1>6 DEF Next, CallStep, vars, tripVars

(* It is so throughout. *)
LEMMA PolicyInvariant == Spec => []PolicyInv
  BY PolicyInit, PolicyNext, PTL DEF Spec

(* The part of LaunchedAsCaptured and RefusedExactlyIfUnsupported that is  *)
(* about the policy.                                                       *)
PolicyIsKept ==
    /\ launched # NotLaunched => launched.policy \in {Forced, Recorded(kernel.policy)}
    /\ phase \in {"replay", "not loaded"} =>
         (phase = "not loaded") = (kernel.policy # Monostate /\ ~Replayable(kernel.policy))
    /\ call.ended = "ignored" => Arguments(RegisterBounds(kernel.policy)) \notin call.accepts

(* For every shape of functor: a launch of the replaying program has the   *)
(* captured policy or the forced one, a dump is refused exactly when the   *)
(* build cannot make its policy, and a launch is left out only when the    *)
(* functor does not accept the captured indices.                           *)
THEOREM LaunchedWithItsPolicy == Spec => []PolicyIsKept
<1>1. ASSUME PolicyInv PROVE PolicyIsKept
  <2> DEFINE p == kernel.policy
  <2>1. p \in KokkosPolicies \cup {Monostate}
    BY <1>1, KernelsAssumption DEF PolicyInv
  <2>2. p # Monostate => (RestoredPolicy(p) = Throws <=> ~Replayable(p))
    BY <2>1, PolicyRoundTrip
  <2>3. Monostate # Throws
    BY DEF Monostate, Throws
  <2>4. (Loads(p) = Throws) <=> (p # Monostate /\ ~Replayable(p))
    BY <2>2, <2>3 DEF Loads
  <2> QED
    BY <1>1, <2>4 DEF PolicyInv, PolicyIsKept
<1> QED
  BY <1>1, PolicyInvariant, PTL

-----------------------------------------------------------------------------
(* The shapes of functors: where the instances of their lambdas and the    *)
(* pointers to their buffers are.                                          *)

(* The least element of a set of natural numbers. *)
LEMMA LeastOf ==
    ASSUME NEW S \in SUBSET Nat, S # {}
    PROVE  \E x \in S : \A y \in S : x <= y
<1>1. PICK x \in S : \A y \in S : ~ (<<y, x>> \in OpToRel(<, Nat))
  BY NatLessThanWellFounded, WFMin, Zenon
<1>2. \A y \in S : ~ (y < x)
  BY <1>1, Zenon DEF OpToRel
<1> QED
  BY <1>2

(* Element by element, a sequence is a prefix of another. *)
LEMMA PrefixMeans ==
    ASSUME NEW S, NEW s \in Seq(S), NEW t \in Seq(S)
    PROVE  IsPrefix(s, t) <=> Len(s) <= Len(t) /\ \A n \in 1 .. Len(s) : s[n] = t[n]
<1>1. SUFFICES ASSUME Len(s) <= Len(t)
               PROVE  SubSeq(s, 1, Len(s)) = SubSeq(t, 1, Len(s))
                        <=> \A n \in 1 .. Len(s) : s[n] = t[n]
  BY DEF IsPrefix
<1> DEFINE u == SubSeq(t, 1, Len(s))
<1>2. SubSeq(s, 1, Len(s)) = s
  BY SubSeqFull
<1>3. u \in Seq(S) /\ Len(u) = Len(s) /\ \A n \in 1 .. Len(s) : u[n] = t[n]
  BY <1>1
<1>4. ASSUME \A n \in 1 .. Len(s) : s[n] = t[n] PROVE s = u
  BY <1>3, <1>4, SeqEqual
<1> QED
  BY <1>2, <1>3, <1>4

Places == Nat \ {0}

(* An instance is a path of sides and places that names a lambda. *)
LEMMA InstanceMeans ==
    ASSUME NEW s, IsShape(s), NEW i
    PROVE  i \in Instances(s) <=> i \in Seq(Sides \X Places) /\ Lambda(i) \in s
<1>0. s \subseteq Seq(Places)
  BY DEF IsShape, Places
<1>1. ASSUME i \in Instances(s) PROVE i \in Seq(Sides \X Places) /\ Lambda(i) \in s
  <2>1. PICK q \in s : i \in {[n \in DOMAIN q |-> <<side[n], q[n]>>] : side \in [DOMAIN q -> Sides]}
    BY <1>1, Zenon DEF Instances
  <2>2. PICK side \in [DOMAIN q -> Sides] : i = [n \in DOMAIN q |-> <<side[n], q[n]>>]
    BY <2>1
  <2>3. q \in Seq(Places) /\ Len(q) \in Nat /\ DOMAIN q = 1 .. Len(q)
        /\ \A n \in 1 .. Len(q) : q[n] \in Places
    BY <1>0
  <2>4. i \in [1 .. Len(q) -> Sides \X Places]
    BY <2>2, <2>3
  <2>5. i \in Seq(Sides \X Places)
    BY <2>3, <2>4, SeqDef
  <2>6. Lambda(i) = q
    <3>1. Lambda(i) = [n \in 1 .. Len(q) |-> q[n]]
      BY <2>2, <2>3 DEF Lambda
    <3> QED BY <2>3, <3>1
  <2> QED BY <2>5, <2>6
<1>2. ASSUME i \in Seq(Sides \X Places), Lambda(i) \in s PROVE i \in Instances(s)
  <2> DEFINE q == Lambda(i)
             side == [n \in DOMAIN i |-> i[n][1]]
  <2>1. Len(i) \in Nat /\ DOMAIN i = 1 .. Len(i) /\ i \in [1 .. Len(i) -> Sides \X Places]
    BY <1>2
  <2>2. DOMAIN q = DOMAIN i /\ \A n \in DOMAIN i : q[n] = i[n][2]
    BY DEF Lambda
  <2>3. side \in [DOMAIN q -> Sides]
    BY <2>1, <2>2
  <2>4. i = [n \in DOMAIN q |-> <<side[n], q[n]>>]
    BY <2>1, <2>2
  <2> DEFINE Paths(r) == {[n \in DOMAIN r |-> <<f[n], r[n]>>] : f \in [DOMAIN r -> Sides]}
  <2>5. i \in Paths(q)
    BY <2>3, <2>4
  <2>6. Instances(s) = UNION {Paths(r) : r \in s}
    BY DEF Instances
  <2> HIDE DEF Paths
  <2> QED BY <1>2, <2>5, <2>6
<1> QED
  BY <1>1, <1>2

(* The lambda of a path, element by element. *)
LEMMA LambdaMeans ==
    ASSUME NEW i \in Seq(Sides \X Places)
    PROVE  /\ Lambda(i) \in Seq(Places) /\ Len(Lambda(i)) = Len(i)
           /\ \A n \in 1 .. Len(i) : Lambda(i)[n] = i[n][2] /\ i[n] \in Sides \X Places
                                     /\ i[n] = <<i[n][1], i[n][2]>>
<1>1. Len(i) \in Nat /\ DOMAIN i = 1 .. Len(i) /\ \A n \in 1 .. Len(i) : i[n] \in Sides \X Places
  BY LenProperties, ElementOfSeq
<1>2. Lambda(i) = [n \in 1 .. Len(i) |-> i[n][2]]
  BY <1>1 DEF Lambda
<1>3. \A n \in 1 .. Len(i) : i[n][2] \in Places /\ i[n] = <<i[n][1], i[n][2]>>
  BY <1>1
<1>4. Lambda(i) \in [1 .. Len(i) -> Places]
  BY <1>2, <1>3
<1> QED
  BY <1>1, <1>2, <1>3, <1>4, SeqDef

(* The length of a sequence from its domain. *)
LEMMA LengthIs ==
    ASSUME NEW S, NEW n \in Nat, NEW seq \in Seq(S), seq \in [1 .. n -> S]
    PROVE  Len(seq) = n
<1> DEFINE m == Len(seq)
<1>1. m \in Nat /\ 1 .. m = 1 .. n
  <2>1. DOMAIN seq = 1 .. m /\ m \in Nat
    BY LenProperties
  <2>2. DOMAIN seq = 1 .. n
    OBVIOUS
  <2> QED BY <2>1, <2>2
<1> HIDE DEF m
<1>2. CASE m < n
  <2>1. n \in 1 .. n /\ n \notin 1 .. m
    BY <1>1, <1>2
  <2> QED BY <1>1, <2>1
<1>3. CASE n < m
  <2>1. m \in 1 .. m /\ m \notin 1 .. n
    BY <1>1, <1>3
  <2> QED BY <1>1, <2>1
<1> QED
  BY <1>1, <1>2, <1>3 DEF m

(* The greatest element of a bounded set of natural numbers. *)
LEMMA GreatestOf ==
    ASSUME NEW n \in Nat, NEW S \in SUBSET (0 .. n), S # {}
    PROVE  Max(S) \in S /\ \A y \in S : y <= Max(S)
<1> DEFINE T == {n - y : y \in S}
<1>1. T \in SUBSET Nat /\ T # {}
  <2>1. \A y \in S : n - y \in Nat
    OBVIOUS
  <2> QED BY <2>1
<1>2. PICK t \in T : \A u \in T : t <= u
  BY <1>1, LeastOf
<1>3. PICK x \in S : t = n - x
  BY <1>2
<1>4. \A y \in S : n - x <= n - y
  BY <1>2, <1>3
<1>5. \A y \in S : x >= y
  BY <1>4
<1> HIDE DEF T
<1> QED
  BY <1>5, Zenon DEF Max

(* Lambdas, and instances, are captured by others all the way out. *)
LEMMA OuterLambda ==
    ASSUME NEW s, IsShape(s), NEW q \in s, NEW k \in 0 .. Len(q)
    PROVE  SubSeq(q, 1, k) \in s
<1>1. q \in Seq(Places) /\ Len(q) \in Nat
  BY DEF IsShape, Places
<1> DEFINE Bad == {d \in 0 .. Len(q) : SubSeq(q, 1, Len(q) - d) \notin s}
<1>2. Bad = {}
  <2>1. SUFFICES ASSUME Bad # {} PROVE FALSE
    OBVIOUS
  <2>2. PICK d \in Bad : \A e \in Bad : d <= e
    <3>1. Bad \in SUBSET Nat
      BY <1>1
    <3> QED BY <2>1, <3>1, LeastOf
  <2>3. d # 0
    <3>1. Len(q) - 0 = Len(q) /\ SubSeq(q, 1, Len(q)) = q
      BY <1>1, SubSeqFull
    <3> QED BY <2>2, <3>1
  <2> DEFINE p == SubSeq(q, 1, Len(q) - (d - 1))
  <2>4. p \in s
    <3>1. d - 1 \in 0 .. Len(q) /\ d - 1 \notin Bad
      BY <1>1, <2>2, <2>3
    <3> QED BY <3>1
  <2>5. p \in Seq(Places) /\ Len(p) = Len(q) - d + 1 /\ \A n \in 1 .. Len(p) : p[n] = q[n]
    <3>1. \A m \in 0 .. Len(q) :
             /\ SubSeq(q, 1, m) \in Seq(Places) /\ Len(SubSeq(q, 1, m)) = m
             /\ \A n \in 1 .. m : SubSeq(q, 1, m)[n] = q[n]
      BY <1>1
    <3>2. Len(q) - (d - 1) \in 0 .. Len(q) /\ Len(q) - (d - 1) = Len(q) - d + 1
      BY <1>1, <2>2, <2>3
    <3> QED BY <3>1, <3>2
  <2>6. p # << >>
    <3>1. Len(p) # 0
      BY <1>1, <2>2, <2>5
    <3> HIDE DEF p
    <3> QED BY <3>1
  <2>7. Front(p) \in s
    BY <2>4, <2>6 DEF IsShape
  <2> DEFINE f == SubSeq(q, 1, Len(q) - d)
  <2>8. /\ Front(p) \in Seq(Places) /\ f \in Seq(Places)
        /\ Len(Front(p)) = Len(q) - d /\ Len(f) = Len(q) - d
        /\ \A n \in 1 .. Len(q) - d : Front(p)[n] = p[n] /\ f[n] = q[n]
    <3> HIDE DEF p
    <3> QED BY <1>1, <2>2, <2>5 DEF Front
  <2>9. Front(p) = f
    <3> HIDE DEF p, f
    <3>1. \A n \in 1 .. Len(f) : Front(p)[n] = f[n]
      BY <1>1, <2>2, <2>5, <2>8
    <3> QED BY <2>8, <3>1, SeqEqual
  <2> QED BY <2>2, <2>7, <2>9
<1>3. Len(q) - k \in 0 .. Len(q) /\ Len(q) - (Len(q) - k) = k
  BY <1>1
<1> QED
  BY <1>2, <1>3

(* The instances around an instance. *)
LEMMA OuterInstance ==
    ASSUME NEW s, IsShape(s), NEW i \in Instances(s), NEW k \in 0 .. Len(i)
    PROVE  /\ SubSeq(i, 1, k) \in Instances(s)
           /\ Len(SubSeq(i, 1, k)) = k /\ \A n \in 1 .. k : SubSeq(i, 1, k)[n] = i[n]
           /\ IsPrefix(SubSeq(i, 1, k), i)
<1> DEFINE j == SubSeq(i, 1, k)  q == SubSeq(Lambda(i), 1, k)
<1>1. i \in Seq(Sides \X Places) /\ Lambda(i) \in s /\ Len(i) \in Nat
  BY InstanceMeans
<1>2. /\ Lambda(i) \in Seq(Places) /\ Len(Lambda(i)) = Len(i)
      /\ \A n \in 1 .. Len(i) : Lambda(i)[n] = i[n][2]
  BY <1>1, LambdaMeans
<1>3. j \in Seq(Sides \X Places) /\ Len(j) = k /\ \A n \in 1 .. k : j[n] = i[n]
  BY <1>1
<1>4. q \in s
  BY <1>1, <1>2, OuterLambda
<1>5. q \in Seq(Places) /\ Len(q) = k /\ \A n \in 1 .. k : q[n] = Lambda(i)[n]
  BY <1>1, <1>2
<1> HIDE DEF j, q
<1>6. Lambda(j) = q
  <2>1. /\ Lambda(j) \in Seq(Places) /\ Len(Lambda(j)) = k
        /\ \A n \in 1 .. k : Lambda(j)[n] = j[n][2]
    BY <1>3, LambdaMeans
  <2>2. \A n \in 1 .. k : Lambda(j)[n] = q[n]
    BY <1>1, <1>2, <1>3, <1>5, <2>1
  <2> QED BY <1>5, <2>1, <2>2, SeqEqual
<1>7. j \in Instances(s)
  BY <1>3, <1>4, <1>6, InstanceMeans
<1>8. IsPrefix(j, i)
  BY <1>1, <1>3, PrefixMeans
<1> QED
  BY <1>3, <1>7, <1>8 DEF j

(* The instances right inside an instance. *)
LEMMA InnerInstance ==
    ASSUME NEW s, IsShape(s), NEW i \in Instances(s), NEW side \in Sides,
           NEW n \in 1 .. NumCaptured(s, Lambda(i))
    PROVE  Append(i, <<side, n>>) \in Instances(s)
<1> DEFINE j == Append(i, <<side, n>>)  p == Lambda(i)
<1>1. i \in Seq(Sides \X Places) /\ p \in s /\ Len(i) \in Nat
  BY InstanceMeans
<1>2. /\ p \in Seq(Places) /\ Len(p) = Len(i)
      /\ \A k \in 1 .. Len(i) : p[k] = i[k][2]
  BY <1>1, LambdaMeans
<1>3. Append(p, n) \in s
  <2>1. Append(p, n) \in {Append(p, m) : m \in 1 .. NumCaptured(s, p)}
    OBVIOUS
  <2> QED BY <1>1, <2>1 DEF IsShape, Captured
<1>4. Append(p, n) \in Seq(Places)
  BY <1>3 DEF IsShape, Places
<1>5. n \in Places
  <2>1. NumCaptured(s, p) \in Nat
    <3>1. Captured(s, p) \in SUBSET s /\ IsFiniteSet(s)
      BY DEF IsShape, Captured
    <3>2. IsFiniteSet(Captured(s, p))
      BY <3>1, FS_Subset
    <3> QED BY <3>2, FS_CardinalityType DEF NumCaptured
  <2> QED BY <2>1 DEF Places
<1>6. /\ j \in Seq(Sides \X Places) /\ Len(j) = Len(i) + 1 /\ j[Len(i) + 1] = <<side, n>>
      /\ \A k \in 1 .. Len(i) : j[k] = i[k]
  BY <1>1, <1>5
<1>7. Len(Append(p, n)) = Len(i) + 1 /\ Append(p, n)[Len(i) + 1] = n
      /\ \A k \in 1 .. Len(i) : Append(p, n)[k] = p[k]
  BY <1>1, <1>2, <1>5
<1> DEFINE u == Append(p, n)
<1>10. u \in Seq(Places) /\ Len(u) = Len(i) + 1 /\ u[Len(i) + 1] = n /\ u \in s
      /\ \A k \in 1 .. Len(i) : u[k] = p[k]
  BY <1>3, <1>4, <1>7
<1> HIDE DEF j, p, u
<1>8. Lambda(j) = u
  <2>1. /\ Lambda(j) \in Seq(Places) /\ Len(Lambda(j)) = Len(i) + 1
        /\ \A k \in 1 .. Len(i) + 1 : Lambda(j)[k] = j[k][2]
    BY <1>6, LambdaMeans
  <2>2. \A k \in 1 .. Len(i) + 1 : Lambda(j)[k] = u[k]
    <3>1. TAKE k \in 1 .. Len(i) + 1
    <3>2. CASE k = Len(i) + 1
      BY <1>6, <1>10, <2>1, <3>2
    <3>3. CASE k \in 1 .. Len(i)
      BY <1>2, <1>6, <1>10, <2>1, <3>3
    <3> QED BY <1>1, <3>2, <3>3
  <2> QED BY <1>10, <2>1, <2>2, SeqEqual
<1>9. j \in Instances(s)
  BY <1>10, <1>6, <1>8, InstanceMeans
<1> QED
  BY <1>9 DEF j

(* A step of an instance goes to a capture of the lambda around it. *)
LEMMA NextStep ==
    ASSUME NEW s, IsShape(s), NEW j \in Instances(s), NEW k \in 0 .. Len(j) - 1
    PROVE  /\ j[k + 1][1] \in Sides /\ j[k + 1] = <<j[k + 1][1], j[k + 1][2]>>
           /\ j[k + 1][2] \in 1 .. NumCaptured(s, Lambda(SubSeq(j, 1, k)))
           /\ SubSeq(j, 1, k + 1) = Append(SubSeq(j, 1, k), j[k + 1])
<1> DEFINE i == SubSeq(j, 1, k)  l == SubSeq(j, 1, k + 1)
           p == Lambda(i)  q == Lambda(l)
<1>1. j \in Seq(Sides \X Places) /\ Len(j) \in Nat
  BY InstanceMeans
<1>2. i \in Instances(s) /\ Len(i) = k /\ \A n \in 1 .. k : i[n] = j[n]
  BY <1>1, OuterInstance
<1>3. l \in Instances(s) /\ Len(l) = k + 1 /\ \A n \in 1 .. k + 1 : l[n] = j[n]
  BY <1>1, OuterInstance
<1> HIDE DEF i, l
<1>4. /\ i \in Seq(Sides \X Places) /\ p \in Seq(Places) /\ p \in s /\ Len(p) = k
      /\ \A n \in 1 .. k : p[n] = i[n][2]
  BY <1>2, InstanceMeans, LambdaMeans
<1>5. /\ l \in Seq(Sides \X Places) /\ q \in Seq(Places) /\ q \in s /\ Len(q) = k + 1
      /\ \A n \in 1 .. k + 1 : /\ q[n] = l[n][2] /\ l[n] \in Sides \X Places
                               /\ l[n] = <<l[n][1], l[n][2]>>
  BY <1>3, InstanceMeans, LambdaMeans
<1> HIDE DEF p, q
<1>6. IsPrefix(p, q)
  <2>1. ASSUME NEW n \in 1 .. k PROVE p[n] = q[n]
    <3>1. n \in 1 .. k + 1
      BY <1>1
    <3>2. p[n] = i[n][2] /\ i[n] = j[n] /\ l[n] = j[n] /\ q[n] = l[n][2]
      BY <1>2, <1>3, <1>4, <1>5, <3>1
    <3> QED BY <3>2
  <2>2. Len(p) <= Len(q) /\ \A n \in 1 .. Len(p) : p[n] = q[n]
    BY <1>1, <1>4, <1>5, <2>1
  <2> QED BY <1>4, <1>5, <2>2, PrefixMeans
<1>7. q \in Captured(s, p)
  BY <1>4, <1>5, <1>6 DEF Captured
<1>8. PICK n \in 1 .. NumCaptured(s, p) : q = Append(p, n)
  BY <1>4, <1>7 DEF IsShape
<1>9. n = q[k + 1]
  <2>1. Append(p, n)[Len(p) + 1] = n
    BY <1>4
  <2> QED BY <1>4, <1>8, <2>1
<1>10. l[k + 1] = j[k + 1] /\ j[k + 1][2] \in 1 .. NumCaptured(s, p) /\ j[k + 1][1] \in Sides
       /\ j[k + 1] = <<j[k + 1][1], j[k + 1][2]>> /\ j[k + 1] \in Sides \X Places
  BY <1>1, <1>3, <1>5, <1>8, <1>9
<1>11. l = Append(i, j[k + 1])
  <2> DEFINE a == Append(i, j[k + 1])
  <2>1. a \in Seq(Sides \X Places) /\ Len(a) = k + 1 /\ a[k + 1] = j[k + 1]
        /\ \A m \in 1 .. k : a[m] = i[m]
    BY <1>1, <1>2, <1>4, <1>10
  <2> HIDE DEF a
  <2>2. \A m \in 1 .. k + 1 : a[m] = l[m]
    BY <1>1, <1>2, <1>3, <2>1
  <2>3. a = l
    BY <1>3, <1>5, <2>1, <2>2, SeqEqual
  <2> QED BY <2>3 DEF a
<1> QED
  BY <1>10, <1>11 DEF i, l, p

(* The wrapper of a lambda stores those of the lambdas in it. *)
LEMMA WithinMeans ==
    ASSUME NEW i \in Seq(Sides \X Places), NEW q \in Seq(Places), Len(i) <= Len(q),
           \A n \in 1 .. Len(i) : i[n][2] = q[n]
    PROVE  /\ Within(i, q) \in Seq(Sides \X Places) /\ Len(Within(i, q)) = Len(q)
           /\ \A n \in 1 .. Len(i) : Within(i, q)[n] = i[n]
           /\ \A n \in Len(i) + 1 .. Len(q) : Within(i, q)[n] = <<"wrapper", q[n]>>
           /\ Lambda(Within(i, q)) = q
<1> DEFINE w == [n \in 1 .. Len(q) - Len(i) |-> <<"wrapper", q[Len(i) + n]>>]
           t == i \o w
<1>1. Len(i) \in Nat /\ Len(q) \in Nat /\ Len(q) - Len(i) \in Nat
  OBVIOUS
<1>2. \A n \in 1 .. Len(q) - Len(i) : Len(i) + n \in 1 .. Len(q) /\ q[Len(i) + n] \in Places
  BY <1>1
<1>3. w \in [1 .. Len(q) - Len(i) -> Sides \X Places]
  BY <1>1, <1>2 DEF Sides
<1>4. w \in Seq(Sides \X Places) /\ Len(w) = Len(q) - Len(i)
  <2> HIDE DEF w
  <2>1. w \in Seq(Sides \X Places)
    BY <1>1, <1>3, SeqDef
  <2> QED BY <1>1, <1>3, <2>1, LengthIs
<1>5. \A n \in 1 .. Len(q) - Len(i) : w[n] = <<"wrapper", q[Len(i) + n]>>
  OBVIOUS
<1> HIDE DEF w
<1>6. /\ t \in Seq(Sides \X Places) /\ Len(t) = Len(q)
      /\ \A n \in 1 .. Len(q) : t[n] = IF n <= Len(i) THEN i[n] ELSE w[n - Len(i)]
  BY <1>1, <1>4, ConcatProperties
<1>7. t = Within(i, q)
  BY DEF Within, w
<1> HIDE DEF t
<1>8. \A n \in 1 .. Len(i) : t[n] = i[n]
  BY <1>1, <1>6
<1>9. ASSUME NEW n \in Len(i) + 1 .. Len(q) PROVE t[n] = <<"wrapper", q[n]>>
  <2>1. n - Len(i) \in 1 .. Len(q) - Len(i) /\ Len(i) + (n - Len(i)) = n /\ ~(n <= Len(i))
    BY <1>1
  <2>2. w[n - Len(i)] = <<"wrapper", q[n]>>
    BY <1>5, <2>1
  <2> QED BY <1>1, <1>6, <2>1, <2>2
<1>10. Lambda(t) = q
  <2>1. /\ Lambda(t) \in Seq(Places) /\ Len(Lambda(t)) = Len(q)
        /\ \A n \in 1 .. Len(q) : Lambda(t)[n] = t[n][2]
    BY <1>6, LambdaMeans
  <2>2. \A n \in 1 .. Len(q) : Lambda(t)[n] = q[n]
    <3>1. TAKE n \in 1 .. Len(q)
    <3>2. CASE n \in 1 .. Len(i)
      BY <1>8, <2>1, <3>2
    <3>3. CASE n \in Len(i) + 1 .. Len(q)
      <4>1. <<"wrapper", q[n]>>[2] = q[n]
        OBVIOUS
      <4> QED BY <1>9, <2>1, <3>3, <4>1
    <3> QED BY <1>1, <3>2, <3>3
  <2> QED BY <2>1, <2>2, SeqEqual
<1> QED
  BY <1>6, <1>7, <1>8, <1>9, <1>10

(* The functor itself stores the instances without a host side. *)
LEMMA InStorage ==
    ASSUME NEW s, IsShape(s)
    PROVE  /\ \A q \in s : /\ Within(<< >>, q) \in Instances(s)
                           /\ Lambda(Within(<< >>, q)) = q
                           /\ HostSteps(Within(<< >>, q)) = {}
           /\ \A i \in Instances(s) : HostSteps(i) = {} => Within(<< >>, Lambda(i)) = i
<1>0. << >> \in Seq(Sides \X Places) /\ Len(<< >>) = 0
  OBVIOUS
<1>1. ASSUME NEW q \in Seq(Places)
      PROVE  /\ Within(<< >>, q) \in Seq(Sides \X Places) /\ Len(Within(<< >>, q)) = Len(q)
             /\ \A n \in 1 .. Len(q) : Within(<< >>, q)[n] = <<"wrapper", q[n]>>
             /\ Lambda(Within(<< >>, q)) = q
  <2>1. Len(<< >>) <= Len(q) /\ \A n \in 1 .. Len(<< >>) : << >>[n][2] = q[n]
    BY <1>0
  <2>2. \A n \in 1 .. Len(q) : n \in Len(<< >>) + 1 .. Len(q)
    BY <1>0
  <2> QED BY <1>0, <2>1, <2>2, WithinMeans
<1>2. ASSUME NEW q \in s
      PROVE  /\ Within(<< >>, q) \in Instances(s)
             /\ Lambda(Within(<< >>, q)) = q
             /\ HostSteps(Within(<< >>, q)) = {}
  <2>1. q \in Seq(Places)
    BY DEF IsShape, Places
  <2> DEFINE t == Within(<< >>, q)
  <2>2. /\ t \in Seq(Sides \X Places) /\ Len(t) = Len(q) /\ Lambda(t) = q
        /\ \A n \in 1 .. Len(q) : t[n] = <<"wrapper", q[n]>>
    BY <1>1, <2>1
  <2> HIDE DEF t
  <2>3. t \in Instances(s)
    BY <2>2, InstanceMeans
  <2>4. HostSteps(t) = {}
    <3>1. DOMAIN t = 1 .. Len(q)
      BY <2>2
    <3>2. \A n \in 1 .. Len(q) : t[n][1] = "wrapper"
      BY <2>2
    <3> QED BY <3>1, <3>2 DEF HostSteps
  <2> QED BY <2>2, <2>3, <2>4 DEF t
<1>3. ASSUME NEW i \in Instances(s), HostSteps(i) = {} PROVE Within(<< >>, Lambda(i)) = i
  <2>1. i \in Seq(Sides \X Places)
    BY InstanceMeans
  <2>2. /\ Lambda(i) \in Seq(Places) /\ Len(Lambda(i)) = Len(i)
        /\ \A n \in 1 .. Len(i) : Lambda(i)[n] = i[n][2] /\ i[n] \in Sides \X Places
                                  /\ i[n] = <<i[n][1], i[n][2]>>
    BY <2>1, LambdaMeans
  <2>3. DOMAIN i = 1 .. Len(i)
    BY <2>1
  <2>4. \A n \in 1 .. Len(i) : i[n][1] = "wrapper"
    BY <1>3, <2>2, <2>3 DEF HostSteps, Sides
  <2> DEFINE t == Within(<< >>, Lambda(i))
  <2>5. /\ t \in Seq(Sides \X Places) /\ Len(t) = Len(i)
        /\ \A n \in 1 .. Len(i) : t[n] = <<"wrapper", Lambda(i)[n]>>
    BY <1>1, <2>2
  <2> HIDE DEF t
  <2>6. \A n \in 1 .. Len(i) : t[n] = i[n]
    BY <2>2, <2>4, <2>5
  <2>7. t = i
    BY <2>1, <2>5, <2>6, SeqEqual
  <2> QED BY <2>7 DEF t
<1> QED
  BY <1>2, <1>3

(* The instance of lambda q that the buffer of instance i stores. *)
Held(i, q) == Within(Append(i, <<"host", q[Len(i) + 1]>>), q)

(* The path of a lambda in the host buffer of an instance. *)
LEMMA HeldMeans ==
    ASSUME NEW i \in Seq(Sides \X Places), NEW q \in Seq(Places), Len(i) < Len(q),
           \A n \in 1 .. Len(i) : i[n][2] = q[n]
    PROVE  /\ Held(i, q) \in Seq(Sides \X Places) /\ Len(Held(i, q)) = Len(q)
           /\ \A n \in 1 .. Len(i) : Held(i, q)[n] = i[n]
           /\ Held(i, q)[Len(i) + 1] = <<"host", q[Len(i) + 1]>>
           /\ \A n \in Len(i) + 2 .. Len(q) : Held(i, q)[n] = <<"wrapper", q[n]>>
           /\ Lambda(Held(i, q)) = q
<1> DEFINE a == Append(i, <<"host", q[Len(i) + 1]>>)
<1>1. Len(i) \in Nat /\ Len(q) \in Nat /\ Len(i) + 1 \in 1 .. Len(q) /\ q[Len(i) + 1] \in Places
  OBVIOUS
<1>2. <<"host", q[Len(i) + 1]>> \in Sides \X Places
  BY <1>1 DEF Sides
<1>3. /\ a \in Seq(Sides \X Places) /\ Len(a) = Len(i) + 1
      /\ \A n \in 1 .. Len(i) : a[n] = i[n]
      /\ a[Len(i) + 1] = <<"host", q[Len(i) + 1]>>
  BY <1>1, <1>2, AppendProperties
<1> HIDE DEF a
<1>4. \A n \in 1 .. Len(a) : a[n][2] = q[n]
  <2>1. TAKE n \in 1 .. Len(a)
  <2>2. CASE n \in 1 .. Len(i)
    BY <1>3, <2>2
  <2>3. CASE n = Len(i) + 1
    BY <1>3, <2>3
  <2> QED BY <1>1, <1>3, <2>2, <2>3
<1>5. Len(a) <= Len(q)
  BY <1>1, <1>3
<1> DEFINE t == Within(a, q)
<1>6. /\ t \in Seq(Sides \X Places) /\ Len(t) = Len(q) /\ Lambda(t) = q
      /\ \A n \in 1 .. Len(a) : t[n] = a[n]
      /\ \A n \in Len(a) + 1 .. Len(q) : t[n] = <<"wrapper", q[n]>>
  BY <1>3, <1>4, <1>5, WithinMeans
<1>7. Held(i, q) = t
  BY DEF Held, a
<1> HIDE DEF t
<1>8. /\ \A n \in 1 .. Len(i) : t[n] = i[n]
      /\ t[Len(i) + 1] = <<"host", q[Len(i) + 1]>>
  <2>1. \A n \in 1 .. Len(i) : n \in 1 .. Len(a)
    BY <1>1, <1>3
  <2>2. Len(i) + 1 \in 1 .. Len(a)
    BY <1>1, <1>3
  <2> QED BY <1>3, <1>6, <2>1, <2>2
<1>9. \A n \in Len(i) + 2 .. Len(q) : t[n] = <<"wrapper", q[n]>>
  BY <1>1, <1>3, <1>6
<1> QED
  BY <1>6, <1>7, <1>8, <1>9

(* Element by element, a lambda is inside that of an instance. *)
LEMMA StrictPrefixMeans ==
    ASSUME NEW i \in Seq(Sides \X Places), NEW q \in Seq(Places)
    PROVE  /\ IsPrefix(Lambda(i), q) <=>
                Len(i) <= Len(q) /\ \A n \in 1 .. Len(i) : i[n][2] = q[n]
           /\ IsStrictPrefix(Lambda(i), q) <=>
                Len(i) < Len(q) /\ \A n \in 1 .. Len(i) : i[n][2] = q[n]
<1> DEFINE p == Lambda(i)
<1>1. p \in Seq(Places) /\ Len(p) = Len(i) /\ \A n \in 1 .. Len(i) : p[n] = i[n][2]
  BY LambdaMeans
<1> HIDE DEF p
<1>2. IsPrefix(p, q) <=> Len(i) <= Len(q) /\ \A n \in 1 .. Len(i) : p[n] = q[n]
  BY <1>1, PrefixMeans
<1>3. IsPrefix(p, q) <=> Len(i) <= Len(q) /\ \A n \in 1 .. Len(i) : i[n][2] = q[n]
  BY <1>1, <1>2
<1>4. ASSUME IsPrefix(p, q), Len(i) = Len(q) PROVE p = q
  BY <1>1, <1>2, <1>4, SeqEqual
<1>5. IsStrictPrefix(p, q) <=> IsPrefix(p, q) /\ Len(i) # Len(q)
  BY <1>1, <1>4 DEF IsStrictPrefix
<1>6. Len(i) \in Nat /\ Len(q) \in Nat
  OBVIOUS
<1> QED
  BY <1>3, <1>5, <1>6 DEF p

(* A buffer stores the instances whose last host side is its own. *)
LEMMA InBuffer ==
    ASSUME NEW s, IsShape(s), NEW i \in Instances(s), NEW q \in s,
           IsStrictPrefix(Lambda(i), q)
    PROVE  /\ Held(i, q) \in Instances(s) /\ Lambda(Held(i, q)) = q
           /\ HostSteps(Held(i, q)) # {} /\ StoredIn(Held(i, q)) = i
<1> DEFINE t == Held(i, q)
<1>1. i \in Seq(Sides \X Places) /\ q \in Seq(Places) /\ Len(i) \in Nat /\ Len(q) \in Nat
  BY InstanceMeans DEF IsShape, Places
<1>2. Len(i) < Len(q) /\ \A n \in 1 .. Len(i) : i[n][2] = q[n]
  BY <1>1, StrictPrefixMeans
<1>3. /\ t \in Seq(Sides \X Places) /\ Len(t) = Len(q) /\ Lambda(t) = q
      /\ \A n \in 1 .. Len(i) : t[n] = i[n]
      /\ t[Len(i) + 1] = <<"host", q[Len(i) + 1]>>
      /\ \A n \in Len(i) + 2 .. Len(q) : t[n] = <<"wrapper", q[n]>>
  BY <1>1, <1>2, HeldMeans
<1> HIDE DEF t
<1>4. t \in Instances(s)
  BY <1>3, InstanceMeans
<1>5. DOMAIN t = 1 .. Len(q)
  BY <1>3
<1>6. Len(i) + 1 \in HostSteps(t)
  BY <1>1, <1>2, <1>3, <1>5 DEF HostSteps
<1>7. \A n \in HostSteps(t) : n <= Len(i) + 1
  <2>1. TAKE n \in HostSteps(t)
  <2>2. n \in 1 .. Len(q) /\ t[n][1] = "host"
    BY <1>5 DEF HostSteps
  <2>3. ~(n \in Len(i) + 2 .. Len(q))
    BY <1>3, <2>2
  <2> QED BY <1>1, <2>2, <2>3
<1>8. Max(HostSteps(t)) = Len(i) + 1
  <2>1. HostSteps(t) \in SUBSET (0 .. Len(q)) /\ HostSteps(t) # {}
    BY <1>5, <1>6 DEF HostSteps
  <2>2. Max(HostSteps(t)) \in HostSteps(t) /\ \A y \in HostSteps(t) : y <= Max(HostSteps(t))
    BY <1>1, <2>1, GreatestOf
  <2>3. Max(HostSteps(t)) \in 0 .. Len(q)
    BY <2>1, <2>2
  <2> QED BY <1>1, <1>6, <1>7, <2>2, <2>3
<1>9. StoredIn(t) = i
  <2> DEFINE u == SubSeq(t, 1, Len(i))
  <2>1. StoredIn(t) = u
    BY <1>1, <1>8 DEF StoredIn
  <2>2. u \in Seq(Sides \X Places) /\ Len(u) = Len(i) /\ \A n \in 1 .. Len(i) : u[n] = t[n]
    <3>1. Len(i) \in 0 .. Len(t)
      BY <1>1, <1>2, <1>3
    <3> QED BY <1>3, <1>1, <3>1
  <2> HIDE DEF u
  <2>3. u = i
    BY <1>1, <1>3, <2>2, SeqEqual
  <2> QED BY <2>1, <2>3
<1> QED
  BY <1>3, <1>4, <1>6, <1>9 DEF t

(* An instance with a host step is in the buffer of the instance before    *)
(* it.                                                                     *)
LEMMA StoredMeans ==
    ASSUME NEW s, IsShape(s), NEW i \in Instances(s), HostSteps(i) # {}
    PROVE  /\ StoredIn(i) \in Instances(s) /\ Len(StoredIn(i)) < Len(i)
           /\ IsPrefix(StoredIn(i), i) /\ IsStrictPrefix(Lambda(StoredIn(i)), Lambda(i))
           /\ Held(StoredIn(i), Lambda(i)) = i
<1> DEFINE m == Max(HostSteps(i))  j == StoredIn(i)  q == Lambda(i)
<1>1. i \in Seq(Sides \X Places) /\ q \in s /\ Len(i) \in Nat /\ DOMAIN i = 1 .. Len(i)
  BY InstanceMeans
<1>2. /\ q \in Seq(Places) /\ Len(q) = Len(i)
      /\ \A n \in 1 .. Len(i) : q[n] = i[n][2] /\ i[n] \in Sides \X Places
                                /\ i[n] = <<i[n][1], i[n][2]>>
  BY <1>1, LambdaMeans
<1>3. /\ m \in 1 .. Len(i) /\ i[m][1] = "host"
      /\ \A n \in m + 1 .. Len(i) : i[n][1] = "wrapper"
  <2>1. HostSteps(i) \in SUBSET (0 .. Len(i))
    BY <1>1 DEF HostSteps
  <2>2. m \in HostSteps(i) /\ \A y \in HostSteps(i) : y <= m
    BY <1>1, <2>1, GreatestOf
  <2> HIDE DEF m
  <2>3. m \in 1 .. Len(i) /\ i[m][1] = "host"
    BY <1>1, <2>2 DEF HostSteps
  <2>4. ASSUME NEW n \in m + 1 .. Len(i) PROVE i[n][1] = "wrapper"
    <3>1. n \in 1 .. Len(i) /\ ~(n <= m)
      BY <1>1, <2>3
    <3>2. n \notin HostSteps(i)
      BY <2>2, <3>1
    <3>3. i[n][1] # "host" /\ i[n][1] \in Sides
      BY <1>1, <1>2, <3>1, <3>2 DEF HostSteps
    <3> QED BY <3>3 DEF Sides
  <2> QED BY <2>3, <2>4
<1>4. j = SubSeq(i, 1, m - 1)
  BY DEF StoredIn
<1> HIDE DEF m, j, q
<1>5. j \in Instances(s) /\ Len(j) = m - 1 /\ (\A n \in 1 .. m - 1 : j[n] = i[n]) /\ IsPrefix(j, i)
  <2>1. m - 1 \in 0 .. Len(i)
    BY <1>1, <1>3
  <2> QED BY <1>4, <2>1, OuterInstance
<1>6. j \in Seq(Sides \X Places)
  BY <1>5, InstanceMeans
<1>7. Len(j) < Len(q) /\ \A n \in 1 .. Len(j) : j[n][2] = q[n]
  BY <1>1, <1>2, <1>3, <1>5
<1>8. IsStrictPrefix(Lambda(j), q)
  BY <1>2, <1>6, <1>7, StrictPrefixMeans
<1> DEFINE t == Held(j, q)
<1>9. /\ t \in Seq(Sides \X Places) /\ Len(t) = Len(i)
      /\ \A n \in 1 .. m - 1 : t[n] = i[n]
      /\ t[m] = <<"host", q[m]>>
      /\ \A n \in m + 1 .. Len(i) : t[n] = <<"wrapper", q[n]>>
  <2>1. /\ t \in Seq(Sides \X Places) /\ Len(t) = Len(q)
        /\ \A n \in 1 .. Len(j) : t[n] = j[n]
        /\ t[Len(j) + 1] = <<"host", q[Len(j) + 1]>>
        /\ \A n \in Len(j) + 2 .. Len(q) : t[n] = <<"wrapper", q[n]>>
    BY <1>2, <1>6, <1>7, HeldMeans
  <2>2. Len(j) + 1 = m /\ Len(j) + 2 = m + 1
    BY <1>1, <1>3, <1>5
  <2> HIDE DEF t
  <2> QED BY <1>2, <1>5, <2>1, <2>2
<1> HIDE DEF t
<1>10. \A n \in 1 .. Len(i) : t[n] = i[n]
  <2> TAKE n \in 1 .. Len(i)
  <2>1. i[n] = <<i[n][1], q[n]>>
    BY <1>2
  <2>2. CASE n \in 1 .. m - 1
    BY <1>9, <2>2
  <2>3. CASE n = m
    <3>1. i[n][1] = "host" /\ t[n] = <<"host", q[n]>>
      BY <1>3, <1>9, <2>3
    <3> QED BY <2>1, <3>1
  <2>4. CASE n \in m + 1 .. Len(i)
    <3>1. i[n][1] = "wrapper" /\ t[n] = <<"wrapper", q[n]>>
      BY <1>3, <1>9, <2>4
    <3> QED BY <2>1, <3>1
  <2> QED BY <1>1, <1>3, <2>2, <2>3, <2>4
<1>11. t = i
  BY <1>1, <1>9, <1>10, SeqEqual
<1> QED
  BY <1>1, <1>2, <1>5, <1>7, <1>8, <1>11 DEF t, j, q

(* The pointers of an object lead to the owner's own buffers. *)
Pointing(owner, s, object, memory) ==
    /\ \A q \in s : object[<<"slot", q>>] = <<owner, Within(<< >>, q)>>
    /\ \A i \in Instances(s) :
         /\ <<owner, i>> \in DOMAIN memory
         /\ \A q \in s : IsStrictPrefix(Lambda(i), q) =>
              /\ <<"slot", q>> \in DOMAIN memory[<<owner, i>>]
              /\ memory[<<owner, i>>][<<"slot", q>>] = <<owner, Held(i, q)>>

(* Then following them finds the buffer of each instance. *)
LEMMA OwnAddresses ==
    ASSUME NEW s, IsShape(s), NEW owner, NEW object, NEW memory,
           Pointing(owner, s, object, memory)
    PROVE  AddressOf(s, object, memory) = [i \in Instances(s) |-> <<owner, i>>]
<1> DEFINE Slot(i) == <<"slot", Lambda(i)>>
           Rhs(g, i) == IF HostSteps(i) = {} THEN object[Slot(i)]
                        ELSE IF g[StoredIn(i)] \in DOMAIN memory
                                /\ Slot(i) \in DOMAIN memory[g[StoredIn(i)]]
                             THEN memory[g[StoredIn(i)]][Slot(i)]
                             ELSE Wild
           own == [i \in Instances(s) |-> <<owner, i>>]
           at == CHOOSE g : g = [i \in Instances(s) |-> Rhs(g, i)]
<1>1. AddressOf(s, object, memory) = at
  BY DEF AddressOf
<1>2. ASSUME NEW g, NEW i \in Instances(s),
             HostSteps(i) # {} => g[StoredIn(i)] = <<owner, StoredIn(i)>>
      PROVE  Rhs(g, i) = <<owner, i>>
  <2>1. Lambda(i) \in s
    BY InstanceMeans
  <2>2. CASE HostSteps(i) = {}
    <3>1. object[Slot(i)] = <<owner, Within(<< >>, Lambda(i))>>
      BY <2>1 DEF Pointing
    <3> QED BY <2>2, <3>1, InStorage
  <2>3. CASE HostSteps(i) # {}
    <3> DEFINE j == StoredIn(i)
    <3>1. /\ j \in Instances(s) /\ IsStrictPrefix(Lambda(j), Lambda(i))
          /\ Held(j, Lambda(i)) = i
      BY <2>3, StoredMeans
    <3> HIDE DEF j
    <3>2. /\ <<owner, j>> \in DOMAIN memory
          /\ Slot(i) \in DOMAIN memory[<<owner, j>>]
          /\ memory[<<owner, j>>][Slot(i)] = <<owner, i>>
      BY <2>1, <3>1 DEF Pointing
    <3>3. g[StoredIn(i)] = <<owner, j>>
      BY <1>2, <2>3 DEF j
    <3> QED BY <2>3, <3>2, <3>3
  <2> QED BY <2>2, <2>3
<1> HIDE DEF Rhs
<1>3. own = [i \in Instances(s) |-> Rhs(own, i)]
  <2>1. ASSUME NEW i \in Instances(s) PROVE Rhs(own, i) = <<owner, i>>
    <3>1. HostSteps(i) # {} => own[StoredIn(i)] = <<owner, StoredIn(i)>>
      BY StoredMeans
    <3> QED BY <1>2, <3>1
  <2> QED BY <2>1
<1> HIDE DEF own
<1>4. at = [i \in Instances(s) |-> Rhs(at, i)]
  BY <1>3
<1> HIDE DEF at
<1>5. \A i \in Instances(s) : at[i] = <<owner, i>>
  <2> DEFINE Bad == {i \in Instances(s) : at[i] # <<owner, i>>}
             Lengths == {Len(i) : i \in Bad}
  <2>1. SUFFICES ASSUME Bad # {} PROVE FALSE
    OBVIOUS
  <2>2. \A i \in Instances(s) : Len(i) \in Nat
    BY InstanceMeans
  <2>3. PICK n \in Lengths : \A k \in Lengths : n <= k
    <3>1. Lengths \in SUBSET Nat /\ Lengths # {}
      BY <2>1, <2>2
    <3> QED BY <3>1, LeastOf
  <2>4. PICK i \in Bad : n = Len(i)
    BY <2>3
  <2>5. i \in Instances(s) /\ at[i] # <<owner, i>> /\ at[i] = Rhs(at, i)
    BY <1>4, <2>4
  <2>6. HostSteps(i) # {} => at[StoredIn(i)] = <<owner, StoredIn(i)>>
    <3>1. SUFFICES ASSUME HostSteps(i) # {} PROVE StoredIn(i) \in Instances(s) \ Bad
      OBVIOUS
    <3>2. StoredIn(i) \in Instances(s) /\ Len(StoredIn(i)) < Len(i)
      BY <2>5, <3>1, StoredMeans
    <3>3. Len(StoredIn(i)) \in Nat /\ Len(i) \in Nat
      BY <2>2, <2>5, <3>2
    <3>4. StoredIn(i) \notin Bad
      BY <2>3, <2>4, <3>2, <3>3
    <3> QED BY <3>2, <3>4
  <2> QED BY <1>2, <2>5, <2>6
<1> QED
  BY <1>1, <1>4, <1>5 DEF own

(* ~FunctorRestoreGuard writes the saved bytes back to every buffer. *)
IsMemory(memory) == memory = [a \in DOMAIN memory |-> memory[a]]

(* Writing back changes the saved buffers and nothing else. *)
LEMMA WrittenBackMeans ==
    ASSUME NEW S, NEW closures \in Seq(S), NEW saved0, NEW memory,
           IsMemory(memory),
           \A k \in 1 .. Len(closures) : closures[k].original = saved0[closures[k].buffer]
    PROVE  /\ DOMAIN WrittenBack(memory, closures) = DOMAIN memory
           /\ \A a \in DOMAIN memory :
                WrittenBack(memory, closures)[a] =
                  IF \E k \in 1 .. Len(closures) : a = closures[k].buffer
                  THEN saved0[a] ELSE memory[a]
<1> DEFINE n == Len(closures)
           rev == Reverse(closures)
           Rhs(g, T) == IF T = {} THEN memory
                        ELSE [g[T \ {Max(T)}] EXCEPT ![rev[Max(T)].buffer] = rev[Max(T)].original]
           iter == CHOOSE g : g = [T \in SUBSET DOMAIN rev |-> Rhs(g, T)]
           Own(T) == [a \in DOMAIN memory |->
                        IF \E k \in T : a = rev[k].buffer THEN saved0[a] ELSE memory[a]]
           own == [T \in SUBSET DOMAIN rev |-> Own(T)]
<1>1. n \in Nat
  OBVIOUS
<1>2. WrittenBack(memory, closures) = iter[DOMAIN rev]
  BY DEF WrittenBack, FoldLeft, MapThenFoldSet
<1>3. DOMAIN rev = 1 .. n /\ \A k \in 1 .. n : rev[k] = closures[n - k + 1] /\ n - k + 1 \in 1 .. n
  BY <1>1 DEF Reverse
<1>4. \A k \in 1 .. n : rev[k].original = saved0[rev[k].buffer]
  BY <1>3
<1> HIDE DEF rev
<1>5. ASSUME NEW T \in SUBSET DOMAIN rev, T # {} PROVE Max(T) \in T
  <2>1. T \in SUBSET (0 .. n)
    BY <1>1, <1>3
  <2> QED BY <1>1, <1>5, <2>1, GreatestOf
<1>6. ASSUME NEW T \in SUBSET DOMAIN rev, NEW g,
             T # {} => g[T \ {Max(T)}] = Own(T \ {Max(T)})
      PROVE  Rhs(g, T) = Own(T)
  <2>1. CASE T = {}
    BY <2>1 DEF IsMemory
  <2>2. CASE T # {}
    <3> DEFINE x == Max(T)  U == T \ {x}
    <3>1. x \in T /\ T = U \cup {x} /\ rev[x].original = saved0[rev[x].buffer]
      BY <1>3, <1>4, <1>5, <2>2
    <3>2. Rhs(g, T) = [Own(U) EXCEPT ![rev[x].buffer] = saved0[rev[x].buffer]]
      BY <1>6, <2>2, <3>1
    <3> HIDE DEF x, U
    <3> DEFINE v == [Own(U) EXCEPT ![rev[x].buffer] = saved0[rev[x].buffer]]
    <3>3. DOMAIN v = DOMAIN memory /\ v = [a \in DOMAIN memory |-> v[a]]
      OBVIOUS
    <3>4. ASSUME NEW a \in DOMAIN memory PROVE v[a] = Own(T)[a]
      <4>1. CASE a = rev[x].buffer
        BY <3>1, <4>1
      <4>2. CASE a # rev[x].buffer
        <5>1. (\E k \in T : a = rev[k].buffer) <=> (\E k \in U : a = rev[k].buffer)
          BY <3>1, <4>2
        <5> QED BY <4>2, <5>1
      <4> QED BY <4>1, <4>2
    <3>5. Own(T) = [a \in DOMAIN memory |-> Own(T)[a]] /\ Rhs(g, T) = v
      BY <3>2
    <3> HIDE DEF v, Own, Rhs
    <3> QED BY <3>3, <3>4, <3>5
  <2> QED BY <2>1, <2>2
<1> HIDE DEF Rhs, Own
<1>7. own = [T \in SUBSET DOMAIN rev |-> Rhs(own, T)]
  <2>1. ASSUME NEW T \in SUBSET DOMAIN rev PROVE Rhs(own, T) = Own(T)
    <3>1. T \ {Max(T)} \in SUBSET DOMAIN rev
      OBVIOUS
    <3>2. own[T \ {Max(T)}] = Own(T \ {Max(T)})
      BY <3>1
    <3> HIDE DEF own
    <3>3. T # {} => own[T \ {Max(T)}] = Own(T \ {Max(T)})
      BY <3>2
    <3> QED BY <1>6, <3>3
  <2> QED BY <2>1
<1> HIDE DEF own
<1>8. iter = [T \in SUBSET DOMAIN rev |-> Rhs(iter, T)]
  BY <1>7
<1> HIDE DEF iter
<1>9. \A k \in 0 .. n : iter[1 .. k] = Own(1 .. k)
  <2> DEFINE Bad == {k \in 0 .. n : iter[1 .. k] # Own(1 .. k)}
  <2>1. SUFFICES ASSUME Bad # {} PROVE FALSE
    OBVIOUS
  <2>2. PICK k \in Bad : \A l \in Bad : k <= l
    <3>1. Bad \in SUBSET Nat
      BY <1>1
    <3> QED BY <2>1, <3>1, LeastOf
  <2>3. k \in 0 .. n /\ 1 .. k \in SUBSET DOMAIN rev /\ iter[1 .. k] # Own(1 .. k)
    BY <1>1, <1>3, <2>2
  <2>4. iter[1 .. k] = Rhs(iter, 1 .. k)
    BY <1>8, <2>3
  <2>5. 1 .. k # {} => iter[(1 .. k) \ {Max(1 .. k)}] = Own((1 .. k) \ {Max(1 .. k)})
    <3>1. SUFFICES ASSUME 1 .. k # {}
                   PROVE  (1 .. k) \ {Max(1 .. k)} = 1 .. k - 1 /\ k - 1 \notin Bad
                                            /\ k - 1 \in 0 .. n
      OBVIOUS
    <3>2. k \in 1 .. n /\ k - 1 \in 0 .. n
      BY <1>1, <2>3, <3>1
    <3>3. k - 1 \notin Bad
      BY <2>2, <3>2
    <3>4. Max(1 .. k) \in 1 .. k /\ \A y \in 1 .. k : y <= Max(1 .. k)
      <4>1. 1 .. k \in SUBSET (0 .. k) /\ k \in Nat
        BY <3>2
      <4> QED BY <3>1, <4>1, GreatestOf
    <3>5. Max(1 .. k) = k
      BY <3>2, <3>4
    <3> QED BY <3>2, <3>3, <3>5
  <2> QED BY <1>6, <2>3, <2>4, <2>5
<1>10. iter[1 .. n] = Own(1 .. n)
  BY <1>1, <1>9
<1>11. \A a : (\E k \in 1 .. n : a = rev[k].buffer) <=> (\E k \in 1 .. n : a = closures[k].buffer)
  <2>1. \A k \in 1 .. n : n - k + 1 \in 1 .. n /\ rev[n - k + 1] = closures[k]
    BY <1>1, <1>3
  <2> QED BY <1>3, <2>1
<1>12. Own(1 .. n) = [a \in DOMAIN memory |->
                        IF \E k \in 1 .. n : a = closures[k].buffer THEN saved0[a] ELSE memory[a]]
  BY <1>11 DEF Own
<1> QED
  BY <1>2, <1>3, <1>10, <1>12

-----------------------------------------------------------------------------
(* The walk over the lambdas, which lists every instance once and an       *)
(* instance before those inside it.                                        *)

(* A recursive definition over an initial segment of the naturals has a    *)
(* solution.                                                               *)
IsRecursive(g, V, n, base, h) ==
    g \in [0 .. n -> V] /\ g[0] = base /\ \A k \in 1 .. n : g[k] = h[<<k, g[k - 1]>>]

(* A recursion over the numbers up to n has a solution. *)
LEMMA RecursionExists ==
    ASSUME NEW V, NEW n \in Nat, NEW base \in V, NEW h \in [(1 .. n) \X V -> V]
    PROVE  \E g : IsRecursive(g, V, n, base, h)
<1> DEFINE IsSolution(g, m) == g[0] = base /\ \A k \in 1 .. m : g[k] = h[<<k, g[k - 1]>>]
           Bad == {m \in 0 .. n : ~ \E g \in [0 .. m -> V] : IsSolution(g, m)}
<1>1. Bad = {}
  <2>1. SUFFICES ASSUME Bad # {} PROVE FALSE
    OBVIOUS
  <2>2. PICK m \in Bad : \A l \in Bad : m <= l
    <3>1. Bad \in SUBSET Nat
      OBVIOUS
    <3> QED BY <2>1, <3>1, LeastOf
  <2>3. m # 0
    <3> DEFINE g == [k \in 0 .. 0 |-> base]
    <3>1. g \in [0 .. 0 -> V] /\ IsSolution(g, 0)
      OBVIOUS
    <3> QED BY <2>2, <3>1
  <2>4. m \in 1 .. n /\ m - 1 \in 0 .. n /\ m - 1 \notin Bad
    BY <2>2, <2>3
  <2>5. PICK g \in [0 .. m - 1 -> V] : IsSolution(g, m - 1)
    BY <2>4
  <2> DEFINE f == [k \in 0 .. m |-> IF k = m THEN h[<<m, g[m - 1]>>] ELSE g[k]]
  <2>6. h[<<m, g[m - 1]>>] \in V
    <3>1. g[m - 1] \in V
      BY <2>4
    <3> QED BY <2>4, <3>1
  <2>7. f \in [0 .. m -> V]
    BY <2>4, <2>6
  <2>8. f[0] = base
    BY <2>4, <2>5
  <2>9. ASSUME NEW k \in 1 .. m PROVE f[k] = h[<<k, f[k - 1]>>]
    <3>1. k - 1 \in 0 .. m /\ k - 1 # m /\ f[k - 1] = g[k - 1]
      BY <2>4
    <3>2. CASE k = m
      BY <2>4, <3>1, <3>2
    <3>3. CASE k # m
      <4>1. k \in 1 .. m - 1 /\ k \in 0 .. m
        BY <2>4, <3>3
      <4>2. f[k] = g[k] /\ g[k] = h[<<k, g[k - 1]>>]
        BY <2>5, <3>3, <4>1
      <4> QED BY <3>1, <4>2
    <3> QED BY <3>2, <3>3
  <2>10. IsSolution(f, m)
    BY <2>8, <2>9
  <2> QED BY <2>2, <2>7, <2>10
<1>2. n \in 0 .. n
  OBVIOUS
<1>3. PICK g \in [0 .. n -> V] : IsSolution(g, n)
  BY <1>1, <1>2
<1> QED
  BY <1>3 DEF IsRecursive

(* A listing of instances: each once, and never before one around it. *)
Lists(seq, R) ==
    /\ seq \in Seq(R)
    /\ \A x \in R : \E k \in 1 .. Len(seq) : seq[k] = x
    /\ \A k, l \in 1 .. Len(seq) : IsPrefix(seq[l], seq[k]) => l <= k

(* One list after another, when nothing in the second is around the first. *)
LEMMA ListsConcat ==
    ASSUME NEW A, NEW B, NEW a, NEW b, Lists(a, A), Lists(b, B),
           \A x \in A, y \in B : ~ IsPrefix(y, x)
    PROVE  Lists(a \o b, A \cup B)
<1> DEFINE R == A \cup B  c == a \o b
<1>1. a \in Seq(R) /\ b \in Seq(R) /\ Len(a) \in Nat /\ Len(b) \in Nat
      /\ (\A k \in 1 .. Len(a) : a[k] \in A) /\ (\A k \in 1 .. Len(b) : b[k] \in B)
  <2>1. a \in Seq(A) /\ b \in Seq(B)
    BY DEF Lists
  <2>2. a \in Seq(R) /\ b \in Seq(R)
    BY <2>1, SeqMonotonic
  <2> QED BY <2>1, <2>2
<1>2. /\ c \in Seq(R) /\ Len(c) = Len(a) + Len(b)
      /\ \A k \in 1 .. Len(a) + Len(b) : c[k] = IF k <= Len(a) THEN a[k] ELSE b[k - Len(a)]
  BY <1>1, ConcatProperties
<1> HIDE DEF c
<1>3. \A k \in 1 .. Len(a) : k \in 1 .. Len(c) /\ c[k] = a[k]
  BY <1>1, <1>2
<1>4. \A k \in 1 .. Len(b) : k + Len(a) \in 1 .. Len(c) /\ c[k + Len(a)] = b[k]
  <2>1. TAKE k \in 1 .. Len(b)
  <2>2. k + Len(a) \in 1 .. Len(a) + Len(b) /\ ~(k + Len(a) <= Len(a)) /\ (k + Len(a)) - Len(a) = k
    BY <1>1
  <2>3. c[k + Len(a)] = b[(k + Len(a)) - Len(a)]
    BY <1>2, <2>2
  <2> QED BY <1>2, <2>2, <2>3
<1>5. ASSUME NEW x \in R PROVE \E k \in 1 .. Len(c) : c[k] = x
  <2>1. CASE x \in A
    BY <1>3, <2>1 DEF Lists
  <2>2. CASE x \in B
    BY <1>4, <2>2 DEF Lists
  <2> QED BY <2>1, <2>2
<1>6. ASSUME NEW k \in 1 .. Len(c), NEW l \in 1 .. Len(c), IsPrefix(c[l], c[k]) PROVE l <= k
  <2>1. CASE l <= Len(a) /\ k <= Len(a)
    <3>1. l \in 1 .. Len(a) /\ k \in 1 .. Len(a)
      BY <1>1, <2>1
    <3>2. IsPrefix(a[l], a[k])
      BY <1>3, <1>6, <3>1
    <3> QED BY <3>1, <3>2 DEF Lists
  <2>2. CASE ~(l <= Len(a)) /\ ~(k <= Len(a))
    <3>1. l - Len(a) \in 1 .. Len(b) /\ k - Len(a) \in 1 .. Len(b)
      BY <1>1, <1>2, <2>2
    <3>2. c[l] = b[l - Len(a)] /\ c[k] = b[k - Len(a)]
      BY <1>1, <1>2, <2>2
    <3>3. l - Len(a) <= k - Len(a)
      BY <1>6, <3>1, <3>2 DEF Lists
    <3> QED BY <1>1, <1>2, <3>3
  <2>3. CASE ~(l <= Len(a)) /\ k <= Len(a)
    <3>1. l - Len(a) \in 1 .. Len(b) /\ k \in 1 .. Len(a)
      BY <1>1, <1>2, <2>3
    <3>2. c[l] \in B /\ c[k] \in A
      BY <1>1, <1>2, <2>3, <3>1
    <3> QED BY <1>6, <3>2
  <2>4. CASE l <= Len(a) /\ ~(k <= Len(a))
    BY <1>1, <1>2, <2>4
  <2> QED BY <2>1, <2>2, <2>3, <2>4
<1> QED
  BY <1>2, <1>5, <1>6 DEF Lists, c

(* So does the listing of several sets of instances apart from each other. *)
LEMMA ListsFlatten ==
    ASSUME NEW S, NEW seqs \in Seq(S), NEW R,
           \A k \in 1 .. Len(seqs) : Lists(seqs[k], R[k]),
           \A k, l \in 1 .. Len(seqs) : k < l => \A x \in R[k], y \in R[l] : ~ IsPrefix(y, x)
    PROVE  Lists(FlattenSeq(seqs), UNION {R[k] : k \in 1 .. Len(seqs)})
<1> DEFINE n == Len(seqs)
           Upto(k) == UNION {R[l] : l \in 1 .. k}
           V == Seq(Upto(n))
<1>1. n \in Nat
  OBVIOUS
<1>2. CASE n = 0
  <2>1. FlattenSeq(seqs) = seqs
    BY <1>2 DEF FlattenSeq
  <2>2. seqs = << >> /\ 1 .. n = {}
    BY <1>2
  <2>3. Upto(n) = {}
    BY <2>2
  <2>4. << >> \in Seq({}) /\ Len(<< >>) = 0
    OBVIOUS
  <2>5. Lists(<< >>, {})
    BY <2>4 DEF Lists
  <2> QED BY <2>1, <2>2, <2>3, <2>5
<1>3. CASE n # 0
  <2> DEFINE Rhs(g, k) == IF k = 1 THEN seqs[k] ELSE g[k - 1] \o seqs[k]
             flatten == CHOOSE g : g = [k \in 1 .. n |-> Rhs(g, k)]
  <2>1. FlattenSeq(seqs) = flatten[n]
    BY <1>3 DEF FlattenSeq
  <2>2. \A k \in 1 .. n : seqs[k] \in V
    <3>1. TAKE k \in 1 .. n
    <3>2. seqs[k] \in Seq(R[k])
      BY DEF Lists
    <3>3. R[k] \subseteq Upto(n)
      OBVIOUS
    <3> QED BY <3>2, <3>3, SeqMonotonic
  <2>3. \E g : g = [k \in 1 .. n |-> Rhs(g, k)]
    <3> DEFINE h == [x \in (1 .. n) \X V |-> x[2] \o seqs[x[1]]]
               e == << >>
    <3>1. \A v, w \in V : v \o w \in V
      BY ConcatProperties
    <3>2. e \in V /\ \A v \in V : e \o v = v
      BY ConcatEmptySeq, EmptySeq
    <3> HIDE DEF V, e
    <3>3. h \in [(1 .. n) \X V -> V]
      BY <2>2, <3>1
    <3>4. PICK g : IsRecursive(g, V, n, e, h)
      <4> HIDE DEF h, n
      <4> QED BY <1>1, <3>2, <3>3, RecursionExists
    <3>5. \A k \in 1 .. n : g[k] = g[k - 1] \o seqs[k]
      <4>1. TAKE k \in 1 .. n
      <4>2. g[k - 1] \in V
        BY <1>1, <3>4 DEF IsRecursive
      <4>3. h[<<k, g[k - 1]>>] = g[k - 1] \o seqs[k]
        BY <4>2
      <4> QED BY <3>4, <4>3 DEF IsRecursive
    <3> DEFINE f == [k \in 1 .. n |-> g[k]]
    <3>6. \A k \in 1 .. n : f[k] = Rhs(f, k)
      <4>1. TAKE k \in 1 .. n
      <4>2. CASE k = 1
        <5>1. g[k] = g[k - 1] \o seqs[k] /\ seqs[k] \in V
          BY <2>2, <3>5
        <5>2. g[k - 1] = e
          BY <3>4, <4>2 DEF IsRecursive
        <5>3. g[k] = seqs[k]
          BY <3>2, <5>1, <5>2
        <5> QED BY <4>2, <5>3
      <4>3. CASE k # 1
        <5>1. k - 1 \in 1 .. n
          BY <1>1, <4>3
        <5> QED BY <3>5, <4>3, <5>1
      <4> QED BY <4>2, <4>3
    <3>7. f = [k \in 1 .. n |-> Rhs(f, k)]
      <4> HIDE DEF Rhs
      <4>1. f = [k \in 1 .. n |-> f[k]]
        OBVIOUS
      <4> HIDE DEF f
      <4> QED BY <3>6, <4>1
    <3> QED BY <3>7
  <2>4. flatten = [k \in 1 .. n |-> Rhs(flatten, k)]
    <3> HIDE DEF Rhs
    <3> QED BY <2>3
  <2> HIDE DEF flatten
  <2>5. \A k \in 1 .. n : flatten[k] = Rhs(flatten, k)
    BY <2>4
  <2>6. \A k \in 1 .. n : Lists(flatten[k], Upto(k))
    <3> DEFINE Bad == {k \in 1 .. n : ~ Lists(flatten[k], Upto(k))}
    <3>1. SUFFICES ASSUME Bad # {} PROVE FALSE
      OBVIOUS
    <3>2. PICK k \in Bad : \A l \in Bad : k <= l
      <4>1. Bad \in SUBSET Nat
        BY <1>1
      <4> QED BY <3>1, <4>1, LeastOf
    <3>3. k \in 1 .. n /\ ~ Lists(flatten[k], Upto(k)) /\ Lists(seqs[k], R[k])
      BY <3>2
    <3>4. CASE k = 1
      <4>1. Upto(1) = R[1]
        <5>1. 1 .. 1 = {1}
          OBVIOUS
        <5> QED BY <5>1
      <4>2. flatten[1] = seqs[1]
        BY <2>5, <3>3, <3>4
      <4> HIDE DEF Upto
      <4> QED BY <3>3, <3>4, <4>1, <4>2
    <3>5. CASE k # 1
      <4>1. k - 1 \in 1 .. n /\ k - 1 \notin Bad
        <5>1. k - 1 \in 1 .. n /\ ~(k <= k - 1)
          BY <1>1, <3>3, <3>5
        <5> HIDE DEF Bad
        <5> QED BY <3>2, <5>1
      <4>2. flatten[k] = flatten[k - 1] \o seqs[k] /\ Lists(flatten[k - 1], Upto(k - 1))
        BY <2>5, <3>3, <3>5, <4>1
      <4>3. Upto(k) = Upto(k - 1) \cup R[k]
        <5>1. 1 .. k = (1 .. k - 1) \cup {k}
          BY <3>3, <4>1
        <5> QED BY <5>1
      <4>4. \A x \in Upto(k - 1), y \in R[k] : ~ IsPrefix(y, x)
        <5>1. TAKE x \in Upto(k - 1), y \in R[k]
        <5>2. PICK l \in 1 .. k - 1 : x \in R[l]
          OBVIOUS
        <5>3. l \in 1 .. n /\ l < k
          BY <1>1, <3>3, <5>2
        <5> QED BY <3>3, <5>2, <5>3
      <4> HIDE DEF Upto
      <4> QED BY <3>3, <4>2, <4>3, <4>4, ListsConcat
    <3> QED BY <3>4, <3>5
  <2>7. n \in 1 .. n
    BY <1>1, <1>3
  <2>8. Lists(flatten[n], Upto(n))
    BY <2>6, <2>7
  <2> QED BY <2>1, <2>8
<1> QED
  BY <1>2, <1>3

(* How deep lambdas are nested. *)
LEMMA DepthExists ==
    ASSUME NEW s, IsShape(s)
    PROVE  \E d \in Nat : \A i \in Instances(s) : Len(i) <= d
<1>1. PICK f : f \in Bijection(1 .. Cardinality(s), s)
  BY FS_CardinalityType DEF IsShape, ExistsBijection
<1> DEFINE n == Cardinality(s)
           Bad == {m \in 0 .. n : ~ \E d \in Nat : \A k \in 1 .. m : Len(f[k]) <= d}
<1>2. n \in Nat /\ f \in [1 .. n -> s] /\ \A q \in s : \E k \in 1 .. n : f[k] = q
  BY <1>1, FS_CardinalityType DEF IsShape, Bijection, Injection, Surjection
<1> HIDE DEF n
<1>3. \A q \in s : Len(q) \in Nat
  BY DEF IsShape
<1>4. Bad = {}
  <2>1. SUFFICES ASSUME Bad # {} PROVE FALSE
    OBVIOUS
  <2>2. PICK m \in Bad : \A l \in Bad : m <= l
    <3>1. Bad \in SUBSET Nat
      BY <1>2
    <3> QED BY <2>1, <3>1, LeastOf
  <2>3. m # 0
    <3>1. \A k \in 1 .. 0 : Len(f[k]) <= 0
      OBVIOUS
    <3> QED BY <2>2, <3>1
  <2>4. m \in 1 .. n /\ m - 1 \in 0 .. n /\ ~(m <= m - 1)
    BY <1>2, <2>2, <2>3
  <2>5. PICK d \in Nat : \A k \in 1 .. m - 1 : Len(f[k]) <= d
    BY <2>2, <2>4
  <2> DEFINE e == d + Len(f[m])
  <2>6. Len(f[m]) \in Nat
    BY <1>2, <1>3, <2>4
  <2>7. ASSUME NEW k \in 1 .. m PROVE Len(f[k]) <= e
    <3>1. CASE k = m
      BY <2>6, <3>1
    <3>2. CASE k # m
      <4>1. k \in 1 .. m - 1 /\ k \in 1 .. n
        BY <1>2, <2>4, <3>2
      <4>2. Len(f[k]) <= d /\ Len(f[k]) \in Nat
        BY <1>2, <1>3, <2>5, <4>1
      <4>3. \A a, b, c \in Nat : a <= b => a <= b + c
        OBVIOUS
      <4> QED BY <2>6, <4>2, <4>3
    <3> QED BY <3>1, <3>2
  <2>8. e \in Nat
    BY <2>6
  <2> QED BY <2>2, <2>7, <2>8
<1>5. PICK d \in Nat : \A k \in 1 .. n : Len(f[k]) <= d
  <2>1. n \in 0 .. n
    BY <1>2
  <2>2. n \notin Bad
    BY <1>4, Zenon
  <2> QED BY <2>1, <2>2
<1>6. \A i \in Instances(s) : Lambda(i) \in s /\ Len(i) = Len(Lambda(i))
  BY InstanceMeans, LambdaMeans
<1> QED
  BY <1>2, <1>5, <1>6

(* The instances in an instance. *)
Below(s, i) == {j \in Instances(s) : IsPrefix(i, j)}

(* Element by element, an instance is inside another. *)
LEMMA BelowMeans ==
    ASSUME NEW s, IsShape(s), NEW i \in Instances(s), NEW j \in Instances(s)
    PROVE  /\ IsPrefix(i, j) <=> Len(i) <= Len(j) /\ \A m \in 1 .. Len(i) : i[m] = j[m]
           /\ Len(i) \in Nat
  BY InstanceMeans, PrefixMeans

(* What is below a capture of an instance. *)
LEMMA BelowInner ==
    ASSUME NEW s, IsShape(s), NEW i \in Instances(s), NEW side \in Sides,
           NEW n \in 1 .. NumCaptured(s, Lambda(i)), NEW j \in Instances(s)
    PROVE  j \in Below(s, Append(i, <<side, n>>)) <=>
             /\ Len(i) < Len(j) /\ j[Len(i) + 1] = <<side, n>>
             /\ \A m \in 1 .. Len(i) : i[m] = j[m]
<1> DEFINE c == Append(i, <<side, n>>)
<1>1. c \in Instances(s) /\ i \in Seq(Sides \X Places) /\ c \in Seq(Sides \X Places)
  BY InnerInstance, InstanceMeans
<1>2. Len(i) \in Nat /\ Len(c) = Len(i) + 1 /\ c[Len(i) + 1] = <<side, n>>
      /\ \A m \in 1 .. Len(i) : c[m] = i[m]
  BY <1>1
<1> HIDE DEF c
<1>3. j \in Below(s, c) <=> Len(c) <= Len(j) /\ \A m \in 1 .. Len(c) : c[m] = j[m]
  BY <1>1, BelowMeans DEF Below
<1>4. Len(j) \in Nat
  BY BelowMeans
<1>5. (\A m \in 1 .. Len(c) : c[m] = j[m]) <=>
        j[Len(i) + 1] = <<side, n>> /\ \A m \in 1 .. Len(i) : i[m] = j[m]
  <2>1. 1 .. Len(c) = (1 .. Len(i)) \cup {Len(i) + 1}
    BY <1>2
  <2> QED BY <1>2, <2>1
<1>6. Len(c) <= Len(j) <=> Len(i) < Len(j)
  BY <1>2, <1>4
<1> QED
  BY <1>3, <1>5, <1>6 DEF c

(* The lambdas on one side of an instance. *)
OnSide(s, i, side) ==
    UNION {Below(s, Append(i, <<side, n>>)) : n \in 1 .. NumCaptured(s, Lambda(i))}

(* It is what is below the instance and goes to that side first. *)
LEMMA OnSideMeans ==
    ASSUME NEW s, IsShape(s), NEW i \in Instances(s), NEW side \in Sides, NEW j
    PROVE  j \in OnSide(s, i, side) <=>
             j \in Below(s, i) /\ j # i /\ j[Len(i) + 1][1] = side
<1>1. ASSUME j \in OnSide(s, i, side)
      PROVE  j \in Below(s, i) /\ j # i /\ j[Len(i) + 1][1] = side
  <2>1. PICK n \in 1 .. NumCaptured(s, Lambda(i)) : j \in Below(s, Append(i, <<side, n>>))
    BY <1>1 DEF OnSide
  <2>2. j \in Instances(s)
    BY <2>1 DEF Below
  <2>3. /\ Len(i) < Len(j) /\ j[Len(i) + 1] = <<side, n>>
        /\ \A m \in 1 .. Len(i) : i[m] = j[m]
    BY <2>1, <2>2, BelowInner
  <2>4. Len(i) \in Nat /\ Len(j) \in Nat
    BY <2>2, BelowMeans
  <2>5. IsPrefix(i, j)
    BY <2>2, <2>3, <2>4, BelowMeans
  <2> QED BY <2>2, <2>3, <2>4, <2>5 DEF Below
<1>2. ASSUME j \in Below(s, i), j # i, j[Len(i) + 1][1] = side
      PROVE  j \in OnSide(s, i, side)
  <2>1. j \in Instances(s) /\ IsPrefix(i, j)
    BY <1>2 DEF Below
  <2>2. Len(i) <= Len(j) /\ (\A m \in 1 .. Len(i) : i[m] = j[m]) /\ Len(i) \in Nat /\ Len(j) \in Nat
    BY <2>1, BelowMeans
  <2>3. i \in Seq(Sides \X Places) /\ j \in Seq(Sides \X Places)
    BY <2>1, InstanceMeans
  <2>4. Len(i) # Len(j)
    BY <1>2, <2>2, <2>3, SeqEqual
  <2>5. Len(i) \in 0 .. Len(j) - 1
    BY <2>2, <2>4
  <2>6. SubSeq(j, 1, Len(i)) = i
    <3> DEFINE u == SubSeq(j, 1, Len(i))
    <3>1. u \in Seq(Sides \X Places) /\ Len(u) = Len(i) /\ \A m \in 1 .. Len(i) : u[m] = j[m]
      BY <2>1, <2>2, <2>3
    <3> HIDE DEF u
    <3>2. u = i
      BY <2>2, <2>3, <3>1, SeqEqual
    <3> QED BY <3>2 DEF u
  <2> DEFINE n == j[Len(i) + 1][2]
  <2>7. n \in 1 .. NumCaptured(s, Lambda(i)) /\ j[Len(i) + 1] = <<side, n>>
    BY <1>2, <2>1, <2>5, <2>6, NextStep
  <2> HIDE DEF n
  <2>8. j \in Below(s, Append(i, <<side, n>>))
    <3>1. Len(i) < Len(j)
      BY <2>2, <2>4
    <3> QED BY <2>1, <2>2, <2>7, <3>1, BelowInner
  <2> QED BY <2>7, <2>8 DEF OnSide
<1> QED
  BY <1>1, <1>2

(* visit_hdl_captures lists the lambdas on a side, in their order. *)
LEMMA CapturesAreListed ==
    ASSUME NEW s, IsShape(s), NEW i \in Instances(s), NEW side \in Sides, NEW g,
           \A n \in 1 .. NumCaptured(s, Lambda(i)) :
              Lists(g[Append(i, <<side, n>>)], Below(s, Append(i, <<side, n>>)))
    PROVE  Lists(VisitHdlCaptures(s, i, side, g), OnSide(s, i, side))
<1> DEFINE N == NumCaptured(s, Lambda(i))
           Inner(n) == Append(i, <<side, n>>)
           seqs == [n \in 1 .. N |-> g[Inner(n)]]
           R == [n \in 1 .. N |-> Below(s, Inner(n))]
           S == {g[Inner(n)] : n \in 1 .. N}
<1>1. N \in Nat
  <2>1. Captured(s, Lambda(i)) \in SUBSET s /\ IsFiniteSet(s)
    BY DEF IsShape, Captured
  <2>2. IsFiniteSet(Captured(s, Lambda(i)))
    BY <2>1, FS_Subset
  <2> QED BY <2>2, FS_CardinalityType DEF NumCaptured
<1> HIDE DEF N
<1>2. seqs \in Seq(S) /\ Len(seqs) = N
  <2>1. seqs \in [1 .. N -> S]
    OBVIOUS
  <2> HIDE DEF seqs, S
  <2>2. seqs \in Seq(S)
    BY <1>1, <2>1, SeqDef
  <2> QED BY <1>1, <2>1, <2>2, LengthIs
<1>3. \A n \in 1 .. N : Lists(seqs[n], R[n])
  BY DEF N
<1>4. \A k, l \in 1 .. N : k < l => \A x \in R[k], y \in R[l] : ~ IsPrefix(y, x)
  <2>1. SUFFICES ASSUME NEW k \in 1 .. N, NEW l \in 1 .. N, k < l,
                        NEW x \in R[k], NEW y \in R[l], IsPrefix(y, x)
                 PROVE  FALSE
    OBVIOUS
  <2>2. x \in Below(s, Inner(k)) /\ y \in Below(s, Inner(l))
    OBVIOUS
  <2>3. x \in Instances(s) /\ y \in Instances(s)
    BY <2>2 DEF Below
  <2>4. x[Len(i) + 1] = <<side, k>> /\ y[Len(i) + 1] = <<side, l>> /\ Len(i) < Len(y)
    BY <2>2, <2>3, BelowInner DEF N
  <2>5. Len(i) \in Nat /\ Len(y) \in Nat /\ \A m \in 1 .. Len(y) : y[m] = x[m]
    BY <2>1, <2>3, BelowMeans
  <2>6. <<side, k>> = <<side, l>>
    BY <2>4, <2>5
  <2>7. k = l
    BY <2>6
  <2> QED BY <1>1, <2>1, <2>7
<1>5. VisitHdlCaptures(s, i, side, g) = FlattenSeq(seqs)
  BY DEF VisitHdlCaptures, N
<1>6. UNION {R[n] : n \in 1 .. N} = OnSide(s, i, side)
  <2>1. {R[n] : n \in 1 .. N} = {Below(s, Inner(n)) : n \in 1 .. N}
    OBVIOUS
  <2>2. OnSide(s, i, side) = UNION {Below(s, Inner(n)) : n \in 1 .. N}
    BY DEF OnSide, N
  <2> HIDE DEF R, Inner
  <2> QED BY <2>1, <2>2
<1> HIDE DEF seqs, R, S
<1>7. Lists(FlattenSeq(seqs), UNION {R[n] : n \in 1 .. N})
  BY <1>2, <1>3, <1>4, ListsFlatten
<1> QED
  BY <1>5, <1>6, <1>7

(* A round of visit_hdl_host_lambdas. *)
VisitRound(s, g, i) ==
    <<i>> \o VisitHdlCaptures(s, i, "wrapper", g) \o VisitHdlCaptures(s, i, "host", g)

(* A round of the walk lists what is below an instance when those of its   *)
(* captures do.                                                            *)
LEMMA RoundIsListed ==
    ASSUME NEW s, IsShape(s), NEW i \in Instances(s), NEW g,
           \A side \in Sides : \A n \in 1 .. NumCaptured(s, Lambda(i)) :
              Lists(g[Append(i, <<side, n>>)], Below(s, Append(i, <<side, n>>)))
    PROVE  Lists(VisitRound(s, g, i), Below(s, i))
<1> DEFINE w == VisitHdlCaptures(s, i, "wrapper", g)  W == OnSide(s, i, "wrapper")
           h == VisitHdlCaptures(s, i, "host", g)     H == OnSide(s, i, "host")
<1>1. "wrapper" \in Sides /\ "host" \in Sides
  BY DEF Sides
<1>2. Lists(w, W) /\ Lists(h, H)
  BY <1>1, CapturesAreListed
<1>3. \A j : /\ j \in W <=> j \in Below(s, i) /\ j # i /\ j[Len(i) + 1][1] = "wrapper"
             /\ j \in H <=> j \in Below(s, i) /\ j # i /\ j[Len(i) + 1][1] = "host"
  BY <1>1, OnSideMeans
<1> HIDE DEF w, h, W, H
<1>4. Lists(<<i>>, {i})
  <2>1. <<i>> \in Seq({i}) /\ Len(<<i>>) = 1 /\ <<i>>[1] = i
    OBVIOUS
  <2> QED BY <2>1 DEF Lists
<1>5. \A j \in Below(s, i) : /\ j \in Instances(s) /\ Len(i) \in Nat /\ Len(j) \in Nat
                             /\ Len(i) <= Len(j) /\ \A m \in 1 .. Len(i) : i[m] = j[m]
  BY BelowMeans DEF Below
<1>6. i \in Below(s, i)
  BY BelowMeans DEF Below
<1>7. \A j \in Below(s, i) : j # i => Len(i) < Len(j)
  <2>1. SUFFICES ASSUME NEW j \in Below(s, i), Len(i) = Len(j) PROVE i = j
    BY <1>5
  <2>2. i \in Seq(Sides \X Places) /\ j \in Seq(Sides \X Places)
    BY <1>5, InstanceMeans
  <2> QED BY <1>5, <2>1, <2>2, SeqEqual
<1>8. \A x \in {i}, y \in W : ~ IsPrefix(y, x)
  <2>1. SUFFICES ASSUME NEW y \in W, IsPrefix(y, i) PROVE FALSE
    OBVIOUS
  <2>2. y \in Below(s, i) /\ y # i
    BY <1>3
  <2>3. Len(y) <= Len(i) /\ Len(i) < Len(y) /\ Len(i) \in Nat /\ Len(y) \in Nat
    BY <1>5, <1>7, <2>1, <2>2, BelowMeans
  <2> QED BY <2>3
<1>9. Lists(<<i>> \o w, {i} \cup W)
  BY <1>2, <1>4, <1>8, ListsConcat
<1>10. \A x \in {i} \cup W, y \in H : ~ IsPrefix(y, x)
  <2>1. SUFFICES ASSUME NEW x \in {i} \cup W, NEW y \in H, IsPrefix(y, x) PROVE FALSE
    OBVIOUS
  <2>2. x \in Below(s, i) /\ y \in Below(s, i) /\ y # i /\ y[Len(i) + 1][1] = "host"
    BY <1>3, <1>6
  <2>3. Len(i) < Len(y) /\ Len(i) \in Nat /\ Len(y) \in Nat /\ Len(y) <= Len(x)
        /\ \A m \in 1 .. Len(y) : y[m] = x[m]
    BY <1>5, <1>7, <2>1, <2>2, BelowMeans
  <2>4. x[Len(i) + 1][1] = "host"
    BY <2>2, <2>3
  <2>5. x # i
    BY <2>3
  <2>6. x[Len(i) + 1][1] = "wrapper"
    BY <1>3, <2>1, <2>5
  <2> QED BY <2>4, <2>6
<1>11. Lists((<<i>> \o w) \o h, ({i} \cup W) \cup H)
  BY <1>2, <1>9, <1>10, ListsConcat
<1>12. ({i} \cup W) \cup H = Below(s, i)
  <2>1. ASSUME NEW j \in Below(s, i), j # i PROVE j[Len(i) + 1][1] \in Sides
    <3>1. Len(i) \in 0 .. Len(j) - 1 /\ j \in Instances(s)
      BY <1>5, <1>7, <2>1
    <3> QED BY <3>1, NextStep
  <2> QED BY <1>3, <1>6, <2>1 DEF Sides
<1> QED
  BY <1>11, <1>12 DEF VisitRound, w, h

(* The walk has a result, and only looks at the instances it reaches. *)
LEMMA RoundDependsOnInner ==
    ASSUME NEW s, NEW i, NEW g, NEW h,
           \A side \in Sides : \A n \in 1 .. NumCaptured(s, Lambda(i)) :
              g[Append(i, <<side, n>>)] = h[Append(i, <<side, n>>)]
    PROVE  VisitRound(s, g, i) = VisitRound(s, h, i)
<1>1. ASSUME NEW side \in Sides
      PROVE  VisitHdlCaptures(s, i, side, g) = VisitHdlCaptures(s, i, side, h)
  <2>1. [n \in 1 .. NumCaptured(s, Lambda(i)) |-> g[Append(i, <<side, n>>)]] =
        [n \in 1 .. NumCaptured(s, Lambda(i)) |-> h[Append(i, <<side, n>>)]]
    OBVIOUS
  <2> QED BY <2>1 DEF VisitHdlCaptures
<1> QED
  BY <1>1 DEF VisitRound, Sides

(* The recursion of the walk has a solution, from the innermost lambdas    *)
(* outwards.                                                               *)
LEMMA VisitExists ==
    ASSUME NEW s, IsShape(s)
    PROVE  \E g : g = [i \in Instances(s) |-> VisitRound(s, g, i)]
<1>1. PICK d \in Nat : \A i \in Instances(s) : Len(i) <= d
  BY DepthExists
<1>2. \A i \in Instances(s) : Len(i) \in Nat
  BY BelowMeans
<1> DEFINE Solves(g, m) == \A i \in Instances(s) : Len(i) >= m => g[i] = VisitRound(s, g, i)
           Bad == {e \in 0 .. d + 1 : ~ \E g : Solves(g, d + 1 - e)}
<1>3. ASSUME NEW i \in Instances(s), NEW side \in Sides, NEW n \in 1 .. NumCaptured(s, Lambda(i))
      PROVE  Append(i, <<side, n>>) \in Instances(s) /\ Len(Append(i, <<side, n>>)) = Len(i) + 1
  <2>1. i \in Seq(Sides \X Places) /\ Append(i, <<side, n>>) \in Instances(s)
    BY InstanceMeans, InnerInstance
  <2> QED BY <2>1
<1>4. Bad = {}
  <2>1. SUFFICES ASSUME Bad # {} PROVE FALSE
    OBVIOUS
  <2>2. PICK e \in Bad : \A l \in Bad : e <= l
    <3>1. Bad \in SUBSET Nat
      BY <1>1
    <3> QED BY <2>1, <3>1, LeastOf
  <2>3. e # 0
    <3>1. Solves({}, d + 1 - 0)
      BY <1>1, <1>2
    <3> QED BY <2>2, <3>1
  <2>4. e \in 0 .. d + 1 /\ e - 1 \in 0 .. d + 1 /\ ~(e <= e - 1)
    BY <1>1, <2>2, <2>3
  <2> DEFINE m == d + 1 - e
  <2>5. m \in Nat /\ d + 1 - (e - 1) = m + 1
    BY <1>1, <2>4
  <2>6. PICK g : Solves(g, m + 1)
    <3>1. e - 1 \notin Bad
      BY <2>2, <2>4
    <3> QED BY <2>4, <2>5, <3>1
  <2> HIDE DEF m
  <2> DEFINE f == [i \in Instances(s) |-> IF Len(i) >= m + 1 THEN g[i] ELSE VisitRound(s, g, i)]
  <2>7. ASSUME NEW i \in Instances(s), Len(i) >= m PROVE f[i] = VisitRound(s, f, i)
    <3>1. ASSUME NEW side \in Sides, NEW n \in 1 .. NumCaptured(s, Lambda(i))
          PROVE  g[Append(i, <<side, n>>)] = f[Append(i, <<side, n>>)]
      <4> DEFINE c == Append(i, <<side, n>>)
      <4>1. c \in Instances(s) /\ Len(c) = Len(i) + 1
        BY <1>3
      <4> HIDE DEF c
      <4>2. Len(c) >= m + 1
        BY <1>2, <2>5, <2>7, <4>1
      <4>3. f[c] = g[c]
        BY <4>1, <4>2
      <4> QED BY <4>3 DEF c
    <3>2. VisitRound(s, g, i) = VisitRound(s, f, i)
      <4> HIDE DEF f
      <4> QED BY <3>1, RoundDependsOnInner
    <3>3. f[i] = VisitRound(s, g, i)
      <4>1. CASE Len(i) >= m + 1
        BY <2>6, <4>1
      <4>2. CASE ~(Len(i) >= m + 1)
        BY <4>2
      <4> QED BY <4>1, <4>2
    <3> QED BY <3>2, <3>3
  <2>8. Solves(f, m)
    <3> HIDE DEF f
    <3> QED BY <2>7
  <2>9. \E x : Solves(x, d + 1 - e)
    BY <2>8 DEF m
  <2> QED BY <2>2, <2>9
<1>5. PICK g : Solves(g, 0)
  <2>1. d + 1 \in 0 .. d + 1 /\ d + 1 - (d + 1) = 0
    BY <1>1
  <2>2. d + 1 \notin Bad
    BY <1>4, Zenon
  <2> QED BY <2>1, <2>2
<1> DEFINE f == [i \in Instances(s) |-> g[i]]
<1>6. ASSUME NEW i \in Instances(s) PROVE f[i] = VisitRound(s, f, i)
  <2>1. g[i] = VisitRound(s, g, i)
    BY <1>2, <1>5
  <2>2. \A side \in Sides : \A n \in 1 .. NumCaptured(s, Lambda(i)) :
           g[Append(i, <<side, n>>)] = f[Append(i, <<side, n>>)]
    BY <1>3
  <2>3. VisitRound(s, g, i) = VisitRound(s, f, i)
    <3> HIDE DEF f
    <3> QED BY <2>2, RoundDependsOnInner
  <2>4. f[i] = g[i]
    OBVIOUS
  <2> HIDE DEF f
  <2> QED BY <2>1, <2>3, <2>4
<1>7. f = [i \in Instances(s) |-> f[i]]
  OBVIOUS
<1> HIDE DEF f
<1>8. f = [i \in Instances(s) |-> VisitRound(s, f, i)]
  BY <1>6, <1>7
<1> QED
  BY <1>8

(* The outermost lambda. *)
LEMMA OutermostInstance ==
    ASSUME NEW s, IsShape(s), s # {}
    PROVE  << >> \in Instances(s)
<1>1. PICK q \in s : TRUE
  OBVIOUS
<1>2. SubSeq(q, 1, 0) = << >> /\ 0 \in 0 .. Len(q)
  <2>1. q \in Seq(Places)
    BY <1>1 DEF IsShape, Places
  <2> QED BY <2>1, SubSeqEmpty
<1>3. SubSeq(q, 1, 0) \in s
  BY <1>1, <1>2, OuterLambda
<1>4. Lambda(<< >>) = << >> /\ << >> \in Seq(Sides \X Places)
  <2> DEFINE e == << >>
  <2>1. e \in Seq(Sides \X Places) /\ Len(e) = 0
    OBVIOUS
  <2> HIDE DEF e
  <2>2. Lambda(e) \in Seq(Places) /\ Len(Lambda(e)) = 0
    BY <2>1, LambdaMeans
  <2>3. Lambda(e) = << >>
    BY <2>2
  <2> QED BY <2>1, <2>3 DEF e
<1> QED
  BY <1>2, <1>3, <1>4, InstanceMeans

(* visit_hdl_host_lambdas visits every instance once, those around it first. *)
LEMMA VisitIsListed ==
    ASSUME NEW s, IsShape(s)
    PROVE  Lists(VisitHdlHostLambdas(s), Instances(s))
<1>1. CASE s = {}
  <2>1. Instances(s) = {} /\ VisitHdlHostLambdas(s) = << >>
    BY <1>1 DEF Instances, VisitHdlHostLambdas
  <2>2. << >> \in Seq({}) /\ Len(<< >>) = 0
    OBVIOUS
  <2> QED BY <2>1, <2>2 DEF Lists
<1>2. CASE s # {}
  <2> DEFINE visit == CHOOSE g : g = [i \in Instances(s) |-> VisitRound(s, g, i)]
  <2>1. VisitHdlHostLambdas(s) = visit[<< >>]
    BY <1>2 DEF VisitHdlHostLambdas, VisitRound
  <2>2. visit = [i \in Instances(s) |-> VisitRound(s, visit, i)]
    BY VisitExists
  <2> HIDE DEF visit
  <2>3. PICK d \in Nat : \A i \in Instances(s) : Len(i) <= d
    BY DepthExists
  <2>4. \A i \in Instances(s) : Len(i) \in Nat
    BY BelowMeans
  <2> DEFINE Bad == {i \in Instances(s) : ~ Lists(visit[i], Below(s, i))}
             Heights == {d - Len(i) : i \in Bad}
  <2>5. Bad = {}
    <3>1. SUFFICES ASSUME Bad # {} PROVE FALSE
      OBVIOUS
    <3>2. PICK n \in Heights : \A k \in Heights : n <= k
      <4>1. \A i \in Bad : d - Len(i) \in Nat
        BY <2>3, <2>4
      <4>2. Heights \in SUBSET Nat /\ Heights # {}
        BY <3>1, <4>1
      <4> QED BY <4>2, LeastOf
    <3>3. PICK i \in Bad : n = d - Len(i)
      BY <3>2
    <3>4. i \in Instances(s) /\ ~ Lists(visit[i], Below(s, i))
      BY <3>3
    <3>5. ASSUME NEW side \in Sides, NEW k \in 1 .. NumCaptured(s, Lambda(i))
          PROVE  Lists(visit[Append(i, <<side, k>>)], Below(s, Append(i, <<side, k>>)))
      <4> DEFINE c == Append(i, <<side, k>>)
      <4>1. i \in Seq(Sides \X Places) /\ c \in Instances(s)
        BY <3>4, InstanceMeans, InnerInstance
      <4>2. Len(c) = Len(i) + 1
        BY <4>1
      <4> HIDE DEF c
      <4>3. ~(n <= d - Len(c))
        BY <2>3, <2>4, <3>3, <3>4, <4>2
      <4>4. c \notin Bad
        BY <3>2, <4>3
      <4>5. Lists(visit[c], Below(s, c))
        BY <4>1, <4>4
      <4> QED BY <4>5 DEF c
    <3>6. visit[i] = VisitRound(s, visit, i)
      BY <2>2, <3>4
    <3>7. Lists(VisitRound(s, visit, i), Below(s, i))
      BY <3>4, <3>5, RoundIsListed
    <3> QED BY <3>4, <3>6, <3>7
  <2>6. << >> \in Instances(s)
    BY <1>2, OutermostInstance
  <2>7. Below(s, << >>) = Instances(s)
    <3>1. \A j \in Instances(s) : IsPrefix(<< >>, j)
      BY <2>4, <2>6, BelowMeans
    <3> QED BY <3>1 DEF Below
  <2> QED BY <2>1, <2>5, <2>6, <2>7
<1> QED
  BY <1>1, <1>2

-----------------------------------------------------------------------------
(* The sizes that replay_functor compares.                                 *)

(* Buffers and functors have a finite, positive number of cells. *)
LEMMA CellsAreFinite ==
    ASSUME NEW s, IsShape(s)
    PROVE  /\ Cardinality(StorageCells(s)) \in Nat
           /\ \A i \in Instances(s) : Cardinality(BufferCells(s, Lambda(i))) \in Nat \ {0}
<1>1. IsFiniteSet(s) /\ \A A \in SUBSET s : IsFiniteSet(A)
  BY FS_Subset DEF IsShape
<1>2. ASSUME NEW A, NEW B, IsFiniteSet(A), IsFiniteSet(B)
      PROVE  IsFiniteSet(SlotCells(A) \cup ViewCells(B))
  <2>1. IsFiniteSet({"slot"}) /\ IsFiniteSet({"view"})
    BY FS_Singleton
  <2>2. IsFiniteSet(SlotCells(A)) /\ IsFiniteSet(ViewCells(B))
    BY <1>2, <2>1, FS_Product DEF SlotCells, ViewCells
  <2> QED BY <2>2, FS_Union
<1>3. IsFiniteSet(StorageCells(s))
  <2>1. IsFiniteSet(s \cup {<< >>})
    BY <1>1, FS_AddElement
  <2> QED BY <1>1, <1>2, <2>1 DEF StorageCells
<1>4. ASSUME NEW i \in Instances(s) PROVE Cardinality(BufferCells(s, Lambda(i))) \in Nat \ {0}
  <2> DEFINE p == Lambda(i)
             A == {q \in s : IsStrictPrefix(p, q)}  B == {q \in s : IsPrefix(p, q)}
  <2>1. IsFiniteSet(A) /\ IsFiniteSet(B)
    BY <1>1
  <2>2. BufferCells(s, p) = SlotCells(A) \cup ViewCells(B)
    BY DEF BufferCells
  <2>3. IsFiniteSet(BufferCells(s, p))
    <3> HIDE DEF A, B
    <3> QED BY <1>2, <2>1, <2>2
  <2>4. p \in s /\ p \in Seq(Places)
    BY InstanceMeans DEF IsShape, Places
  <2>5. IsPrefix(p, p)
    <3> HIDE DEF p
    <3> QED BY <2>4, PrefixMeans
  <2>6. <<"view", p>> \in BufferCells(s, p)
    BY <2>4, <2>5 DEF BufferCells, ViewCells
  <2> HIDE DEF p
  <2>7. BufferCells(s, p) # {}
    BY <2>6
  <2>8. Cardinality(BufferCells(s, p)) \in Nat /\ Cardinality(BufferCells(s, p)) # 0
    BY <2>3, <2>7, FS_CardinalityType, FS_EmptySet
  <2> QED BY <2>8 DEF p
<1> QED
  BY <1>3, <1>4, FS_CardinalityType

(* Where the bytes of the buffers begin in the dump: g[k] comes before the *)
(* buffer k + 1.                                                           *)
IsOffsets(g, sizes, n) ==
    g \in [0 .. n -> Nat] /\ g[0] = 0 /\ \A k \in 1 .. n : g[k] = g[k - 1] + sizes[k]

(* Sizes have offsets. *)
LEMMA OffsetsExist ==
    ASSUME NEW n \in Nat, NEW sizes \in [1 .. n -> Nat]
    PROVE  \E g : IsOffsets(g, sizes, n)
<1> DEFINE h == [x \in (1 .. n) \X Nat |-> x[2] + sizes[x[1]]]
<1>1. h \in [(1 .. n) \X Nat -> Nat] /\ 0 \in Nat
  OBVIOUS
<1>2. \A k \in 1 .. n : \A v \in Nat : h[<<k, v>>] = v + sizes[k]
  OBVIOUS
<1> HIDE DEF h
<1>3. PICK g : IsRecursive(g, Nat, n, 0, h)
  BY <1>1, RecursionExists
<1>4. g \in [0 .. n -> Nat] /\ g[0] = 0 /\ \A k \in 1 .. n : g[k] = h[<<k, g[k - 1]>>]
  BY <1>3 DEF IsRecursive
<1>5. \A k \in 1 .. n : g[k] = g[k - 1] + sizes[k]
  <2>1. TAKE k \in 1 .. n
  <2>2. g[k - 1] \in Nat
    BY <1>4
  <2> QED BY <1>2, <1>4, <2>2
<1> QED
  BY <1>4, <1>5 DEF IsOffsets

(* No two buffers have the same offset. *)
LEMMA OffsetsIncrease ==
    ASSUME NEW n \in Nat, NEW sizes \in [1 .. n -> Nat \ {0}], NEW g, IsOffsets(g, sizes, n),
           NEW k \in 0 .. n, NEW l \in 0 .. n, k < l
    PROVE  g[k] < g[l]
<1> DEFINE Bad == {m \in 0 .. n : k < m /\ ~(g[k] < g[m])}
<1>1. SUFFICES ASSUME Bad # {} PROVE FALSE
  OBVIOUS
<1>2. PICK m \in Bad : \A x \in Bad : m <= x
  <2>1. Bad \in SUBSET Nat
    OBVIOUS
  <2> QED BY <1>1, <2>1, LeastOf
<1>3. m \in 1 .. n /\ m - 1 \in 0 .. n /\ ~(m <= m - 1) /\ k <= m - 1 /\ ~(g[k] < g[m])
  BY <1>2
<1>4. m - 1 \notin Bad
  BY <1>2, <1>3
<1>5. g[k] \in Nat /\ g[m - 1] \in Nat /\ g[m] = g[m - 1] + sizes[m] /\ sizes[m] \in Nat \ {0}
  BY <1>3 DEF IsOffsets
<1>6. g[k] <= g[m - 1]
  <2>1. CASE k = m - 1
    BY <1>5, <2>1
  <2>2. CASE k # m - 1
    BY <1>3, <1>4, <1>5, <2>2
  <2> QED BY <2>1, <2>2
<1> QED
  BY <1>3, <1>5, <1>6

(* The total size of some objects is the offset behind them. *)
LEMMA TotalIsOffset ==
    ASSUME NEW n \in Nat, NEW sizes \in [1 .. n -> Nat], NEW g, IsOffsets(g, sizes, n),
           NEW S, NEW objects \in Seq(S), Len(objects) <= n,
           \A k \in 1 .. Len(objects) : SizeOf(objects[k]) = sizes[k]
    PROVE  TotalSize(objects) = g[Len(objects)]
<1> DEFINE m == Len(objects)
           Rhs(f, k) == IF k = 0 THEN 0 ELSE f[k - 1] + SizeOf(objects[k])
           sum == CHOOSE f : f = [k \in 0 .. m |-> Rhs(f, k)]
           own == [k \in 0 .. m |-> g[k]]
<1>1. m \in Nat /\ m <= n
  OBVIOUS
<1>2. TotalSize(objects) = sum[m]
  BY DEF TotalSize
<1> HIDE DEF m
<1>3. ASSUME NEW f, NEW k \in 0 .. m, k # 0 => f[k - 1] = g[k - 1] PROVE Rhs(f, k) = g[k]
  <2>1. CASE k = 0
    BY <2>1 DEF IsOffsets
  <2>2. CASE k # 0
    <3>1. k \in 1 .. n /\ k \in 1 .. m
      BY <1>1, <2>2
    <3>2. g[k] = g[k - 1] + sizes[k] /\ SizeOf(objects[k]) = sizes[k]
      BY <3>1 DEF IsOffsets, m
    <3> QED BY <1>3, <2>2, <3>2
  <2> QED BY <2>1, <2>2
<1> HIDE DEF Rhs
<1>4. own = [k \in 0 .. m |-> Rhs(own, k)]
  <2>1. ASSUME NEW k \in 0 .. m PROVE Rhs(own, k) = g[k]
    <3>1. k # 0 => own[k - 1] = g[k - 1]
      BY <1>1
    <3> HIDE DEF own
    <3> QED BY <1>3, <3>1
  <2> QED BY <2>1
<1> HIDE DEF own
<1>5. sum = [k \in 0 .. m |-> Rhs(sum, k)]
  BY <1>4
<1> HIDE DEF sum
<1>6. \A k \in 0 .. m : sum[k] = g[k]
  <2> DEFINE Bad == {k \in 0 .. m : sum[k] # g[k]}
  <2>1. SUFFICES ASSUME Bad # {} PROVE FALSE
    OBVIOUS
  <2>2. PICK k \in Bad : \A x \in Bad : k <= x
    <3>1. Bad \in SUBSET Nat
      BY <1>1
    <3> QED BY <2>1, <3>1, LeastOf
  <2>3. k \in 0 .. m /\ sum[k] # g[k] /\ sum[k] = Rhs(sum, k)
    BY <1>5, <2>2
  <2>4. k # 0 => sum[k - 1] = g[k - 1]
    <3>1. SUFFICES ASSUME k # 0 PROVE k - 1 \in 0 .. m /\ k - 1 \notin Bad
      OBVIOUS
    <3>2. k - 1 \in 0 .. m /\ ~(k <= k - 1)
      BY <1>1, <2>3, <3>1
    <3> QED BY <2>2, <3>2
  <2> QED BY <1>3, <2>3, <2>4
<1> QED
  BY <1>1, <1>2, <1>6 DEF m

-----------------------------------------------------------------------------
(* Functors with the same View everywhere, as a program makes them.        *)

(* A functor of an owner with the same View everywhere. *)
Filled(owner, s, v) ==
    [c \in StorageCells(s) |-> IF c[1] = "slot" THEN <<owner, Within(<< >>, c[2])>> ELSE v]
FilledBuffer(owner, s, v, i) ==
    [c \in BufferCells(s, Lambda(i)) |-> IF c[1] = "slot" THEN <<owner, Held(i, c[2])>> ELSE v]
FilledBuffers(owner, s, v) == [a \in {owner} \X Instances(s) |-> FilledBuffer(owner, s, v, a[2])]
HasBuffers(owner, s, v, memory) ==
    \A i \in Instances(s) : /\ <<owner, i>> \in DOMAIN memory
                            /\ memory[<<owner, i>>] = FilledBuffer(owner, s, v, i)

(* Its pointers lead to its own buffers, and it has no other View. *)
LEMMA FilledMeans ==
    ASSUME NEW s, IsShape(s), NEW owner, NEW v, NEW memory, HasBuffers(owner, s, v, memory)
    PROVE  /\ AddressOf(s, Filled(owner, s, v), memory) = [i \in Instances(s) |-> <<owner, i>>]
           /\ IsIntact(s, Filled(owner, s, v), memory)
           /\ ViewsOf(s, Filled(owner, s, v), memory) = {v}
           /\ Filled(owner, s, v) # NoObject
<1> DEFINE object == Filled(owner, s, v)
           at == AddressOf(s, object, memory)
<1>1. Pointing(owner, s, object, memory)
  <2>1. ASSUME NEW q \in s PROVE object[<<"slot", q>>] = <<owner, Within(<< >>, q)>>
    <3>1. <<"slot", q>> \in StorageCells(s)
      BY DEF StorageCells, SlotCells
    <3> QED BY <3>1 DEF Filled
  <2>2. ASSUME NEW i \in Instances(s), NEW q \in s, IsStrictPrefix(Lambda(i), q)
        PROVE  /\ <<"slot", q>> \in DOMAIN memory[<<owner, i>>]
               /\ memory[<<owner, i>>][<<"slot", q>>] = <<owner, Held(i, q)>>
    <3>1. <<"slot", q>> \in BufferCells(s, Lambda(i))
      BY <2>2 DEF BufferCells, SlotCells
    <3>2. memory[<<owner, i>>] = FilledBuffer(owner, s, v, i)
      BY DEF HasBuffers
    <3> QED BY <3>1, <3>2 DEF FilledBuffer
  <2> QED BY <2>1, <2>2 DEF Pointing, HasBuffers
<1> HIDE DEF object
<1>2. at = [i \in Instances(s) |-> <<owner, i>>]
  BY <1>1, OwnAddresses
<1>3. IsIntact(s, object, memory)
  <2>1. ASSUME NEW i \in Instances(s)
        PROVE  at[i] \in DOMAIN memory /\ DOMAIN memory[at[i]] = BufferCells(s, Lambda(i))
    <3>1. at[i] = <<owner, i>>
      BY <1>2
    <3> HIDE DEF at
    <3> QED BY <3>1 DEF HasBuffers, FilledBuffer
  <2>2. ASSUME NEW i \in Instances(s), NEW j \in Instances(s), at[i] = at[j] PROVE i = j
    <3>1. at[i] = <<owner, i>> /\ at[j] = <<owner, j>>
      BY <1>2
    <3>2. <<owner, i>> = <<owner, j>>
      BY <2>2, <3>1, Zenon
    <3> QED BY <3>2
  <2> QED BY <2>1, <2>2 DEF IsIntact
<1>4. ViewsOf(s, object, memory) = {v}
  <2> DEFINE Stored == {object[c] : c \in ViewCells(s \cup {<< >>})}
             Boxed(i) == {memory[at[i]][c] : c \in BufferCells(s, Lambda(i)) \ SlotCells(s)}
  <2>1. ViewsOf(s, object, memory) = Stored \cup UNION {Boxed(i) : i \in Instances(s)}
    BY DEF ViewsOf
  <2>2. Stored = {v}
    <3>1. \A c \in ViewCells(s \cup {<< >>}) : c \in StorageCells(s) /\ c[1] # "slot"
      BY DEF StorageCells, ViewCells
    <3>2. <<"view", << >>>> \in ViewCells(s \cup {<< >>})
      BY DEF ViewCells
    <3>3. \A c \in ViewCells(s \cup {<< >>}) : object[c] = v
      BY <3>1 DEF object, Filled
    <3> QED BY <3>2, <3>3
  <2>3. ASSUME NEW i \in Instances(s) PROVE Boxed(i) \subseteq {v}
    <3>1. memory[at[i]] = FilledBuffer(owner, s, v, i)
      <4>1. at[i] = <<owner, i>>
        BY <1>2
      <4> HIDE DEF at
      <4> QED BY <4>1 DEF HasBuffers
    <3> HIDE DEF at
    <3>2. ASSUME NEW c \in BufferCells(s, Lambda(i)) \ SlotCells(s) PROVE memory[at[i]][c] = v
      <4>1. c[1] # "slot"
        BY <3>2 DEF BufferCells, SlotCells, ViewCells
      <4> QED BY <3>1, <4>1 DEF FilledBuffer
    <3> QED BY <3>2
  <2> HIDE DEF Stored, Boxed
  <2> QED BY <2>1, <2>2, <2>3
<1>5. object # NoObject
  <2>1. <<"view", << >>>> \in DOMAIN object
    BY DEF object, Filled, StorageCells, ViewCells
  <2> QED BY <2>1 DEF NoObject
<1> QED
  BY <1>2, <1>3, <1>4, <1>5 DEF object

(* What the operators of the model make. *)
CapturedTracked == View("captured", TRUE)
Revived == View("captured", FALSE)
OfProgram == View("program", FALSE)

(* A copy made without tracking holds no reference. *)
LEMMA ViewFacts ==
    /\ CopyOfView(View("program", TRUE), FALSE) = OfProgram
    /\ CopyOfView(CapturedTracked, FALSE) = Revived
    /\ ~ IsForeign(OfProgram) /\ ~ IsForeign(Revived)
<1>1. ASSUME NEW process PROVE CopyOfView(View(process, TRUE), FALSE) = View(process, FALSE)
  <2>1. (View(process, TRUE).isTracked /\ FALSE) = FALSE
    BY Zenon
  <2>2. \A b : [View(process, TRUE) EXCEPT !.isTracked = b] = View(process, b)
    BY DEF View
  <2> QED BY <2>1, <2>2, Zenon DEF CopyOfView
<1>2. ~ IsForeign(OfProgram) /\ ~ IsForeign(Revived)
  BY DEF IsForeign, View, OfProgram, Revived
<1> QED
  BY <1>1, <1>2 DEF OfProgram, CapturedTracked, Revived

(* The functor of the capturing program is of that kind. *)
LEMMA CapturedIsFilled ==
    ASSUME NEW s
    PROVE  /\ CapturedStorage(s) = Filled("captured", s, CapturedTracked)
           /\ CapturedBuffers(s) = FilledBuffers("captured", s, CapturedTracked)
<1>1. CapturedStorage(s) = Filled("captured", s, CapturedTracked)
  BY DEF CapturedStorage, Storage, Filled, CapturedView, CapturedTracked
<1>2. CapturedBuffers(s) = FilledBuffers("captured", s, CapturedTracked)
  BY DEF CapturedBuffers, Buffers, FilledBuffers, FilledBuffer, Held, CapturedView, CapturedTracked
<1> QED BY <1>1, <1>2

(* New buffers are of that kind. *)
LEMMA FilledHasBuffers ==
    ASSUME NEW s, NEW owner, NEW v
    PROVE  HasBuffers(owner, s, v, FilledBuffers(owner, s, v))
  BY DEF HasBuffers, FilledBuffers

(* Neither copying nor destroying a functor of this process that holds no  *)
(* reference of the captured one reaches into the captured process.        *)
LEMMA FilledIsSafe ==
    ASSUME NEW s, IsShape(s), NEW owner, NEW v, NEW memory, HasBuffers(owner, s, v, memory)
    PROVE  /\ ~ CopyFaults(s, Filled(owner, s, v), memory, FALSE)
           /\ ~ IsForeign(v) => ~ CopyFaults(s, Filled(owner, s, v), memory, TRUE)
           /\ ~ IsForeign(v) => ~ DestroyFaults(s, Filled(owner, s, v), memory)
           /\ owner = "result" /\ v = Revived => IsRevived(s, Filled(owner, s, v), memory)
           /\ LET left == HeapWithout(s, Filled(owner, s, v), memory) IN
              /\ left = Restrict(memory, DOMAIN left)
              /\ \A a : a \in DOMAIN left <=>
                         a \in DOMAIN memory /\ a \notin {owner} \X Instances(s)
<1> DEFINE object == Filled(owner, s, v)  at == AddressOf(s, object, memory)
<1>1. /\ at = [i \in Instances(s) |-> <<owner, i>>]
      /\ IsIntact(s, object, memory) /\ ViewsOf(s, object, memory) = {v}
  BY FilledMeans
<1> HIDE DEF object
<1>2. ~ CopyFaults(s, object, memory, FALSE)
  BY <1>1 DEF CopyFaults
<1>3. ~ IsForeign(v) => ~ CopyFaults(s, object, memory, TRUE) /\ ~ DestroyFaults(s, object, memory)
  BY <1>1 DEF CopyFaults, DestroyFaults
<1>4. owner = "result" /\ v = Revived => IsRevived(s, object, memory)
  <2>1. \A a \in Range(at) : a[1] = owner
    BY <1>1 DEF Range
  <2> QED BY <1>1, <2>1 DEF IsRevived, Revived
<1> DEFINE left == HeapWithout(s, object, memory)
<1>5. /\ left = Restrict(memory, DOMAIN left)
      /\ \A a : a \in DOMAIN left <=> a \in DOMAIN memory /\ a \notin {owner} \X Instances(s)
  <2>1. {at[i] : i \in Instances(s)} = {owner} \X Instances(s)
    <3>1. {at[i] : i \in Instances(s)} = {<<owner, i>> : i \in Instances(s)}
      BY <1>1
    <3>2. {<<owner, i>> : i \in Instances(s)} = {owner} \X Instances(s)
      OBVIOUS
    <3> QED BY <3>1, <3>2
  <2> QED BY <2>1 DEF HeapWithout, Restrict
<1> QED
  BY <1>2, <1>3, <1>4, <1>5 DEF object

-----------------------------------------------------------------------------
(* The invariant of the calls.                                             *)

(* The closures that were patched before closure n. *)
Placed(s, n) == {VisitHdlHostLambdas(s)[k] : k \in 1 .. n - 1}

(* The captured functor with the pointers to some of the buffers replaced. *)
Place(P, i) == <<IF i \in P THEN "working" ELSE "captured", i>>
PatchedStorage(s, P) ==
    [c \in StorageCells(s) |->
        IF c[1] = "slot" THEN Place(P, Within(<< >>, c[2])) ELSE CapturedTracked]
PatchedBuffer(s, P, i) ==
    [c \in BufferCells(s, Lambda(i)) |->
        IF c[1] = "slot" THEN Place(P, Held(i, c[2])) ELSE CapturedTracked]

(* What the FunctorRestoreGuard saves. *)
SavedClosure(s, i) ==
    [instance |-> i, buffer |-> <<"working", i>>,
     original |-> FilledBuffer("working", s, OfProgram, i)]
SavedClosures(s) ==
    [n \in DOMAIN VisitHdlHostLambdas(s) |-> SavedClosure(s, VisitHdlHostLambdas(s)[n])]

InCall == step \in {"initFunctor", "patch", "restore"}

DumpIsCaptured ==
    phase # "capture" =>
        /\ functorData = Filled("captured", kernel.shape, CapturedTracked)
        /\ hostClosureData = HostClosures(kernel.shape)

CallInv ==
    /\ step # "idle" => /\ phase # "capture" /\ shape \in Shapes
                        /\ shape = kernel.shape \/ IsToldApart(shape)
    /\ IF InCall
       THEN /\ tracking = FALSE
            /\ saved = [original |-> Filled("working", shape, OfProgram),
                        closures |-> SavedClosures(shape)]
       ELSE disabledTracking = FALSE

HeapInv ==
    /\ heap = [a \in DOMAIN heap |-> heap[a]]
    /\ DOMAIN heap = (IF InCall THEN {"working"} \X Instances(shape) ELSE {})
                        \cup (IF result = NoObject THEN {} ELSE {"result"} \X Instances(shape))

ResultInv ==
    result # NoObject =>
        /\ result = Filled("result", shape, Revived)
        /\ HasBuffers("result", shape, Revived, heap)
        /\ shape = kernel.shape /\ step \in {"restore", "returned"}

PatchInv ==
    /\ step = "initFunctor" => DOMAIN working = StorageCells(shape)
    /\ step = "patch" =>
         IF shape = kernel.shape
         THEN /\ nextClosure \in 1 .. Len(VisitHdlHostLambdas(shape)) + 1
              /\ working = PatchedStorage(shape, Placed(shape, nextClosure))
              /\ \A i \in Placed(shape, nextClosure) :
                    heap[<<"working", i>>] = PatchedBuffer(shape, Placed(shape, nextClosure), i)
         ELSE /\ nextClosure = 1 /\ shape # {}
              /\ HostSize(shape) # HostSize(kernel.shape)
    /\ step = "restore" /\ result = NoObject /\ shape = kernel.shape =>
         nextClosure > Len(saved.closures) /\ CopiesThrow
    /\ step = "returned" => result # NoObject

RevivalInv ==
    /\ kernel \in Kernels /\ fault = FALSE /\ tracking \in BOOLEAN /\ disabledTracking \in BOOLEAN
    /\ step \in {"idle", "initFunctor", "patch", "restore", "returned", "threw"}
    /\ launched # NotLaunched => launched.functor
    /\ DumpIsCaptured /\ CallInv /\ HeapInv /\ ResultInv /\ PatchInv

(* What has been patched when the walk comes to closure n. *)
LEMMA VisitFacts ==
    ASSUME NEW s, IsShape(s)
    PROVE  LET V == VisitHdlHostLambdas(s) IN
           /\ V \in Seq(Instances(s)) /\ Len(V) \in Nat /\ DOMAIN V = 1 .. Len(V)
           /\ \A n \in 1 .. Len(V) : V[n] \in Instances(s)
           /\ \A i \in Instances(s) : \E n \in 1 .. Len(V) : V[n] = i
           /\ Placed(s, 1) = {} /\ Placed(s, Len(V) + 1) = Instances(s)
           /\ \A n \in 1 .. Len(V) : /\ Placed(s, n) \subseteq Instances(s)
                                     /\ Placed(s, n + 1) = Placed(s, n) \cup {V[n]}
                                     /\ V[n] \notin Placed(s, n)
           /\ \A n \in 1 .. Len(V) : \A j \in Instances(s) :
                /\ IsPrefix(j, V[n]) /\ j # V[n] => j \in Placed(s, n)
                /\ IsPrefix(V[n], j) => j \notin Placed(s, n)
           /\ s # {} => Len(V) >= 1
<1> DEFINE V == VisitHdlHostLambdas(s)
<1>1. /\ V \in Seq(Instances(s)) /\ \A i \in Instances(s) : \E n \in 1 .. Len(V) : V[n] = i
      /\ \A k, l \in 1 .. Len(V) : IsPrefix(V[l], V[k]) => l <= k
  BY VisitIsListed DEF Lists
<1>2. Len(V) \in Nat /\ DOMAIN V = 1 .. Len(V) /\ \A n \in 1 .. Len(V) : V[n] \in Instances(s)
  BY <1>1
<1>3. \A n : Placed(s, n) = {V[k] : k \in 1 .. n - 1}
  BY DEF Placed
<1> HIDE DEF V
<1>4. Placed(s, 1) = {}
  BY <1>3
<1>5. Placed(s, Len(V) + 1) = Instances(s)
  <2>1. 1 .. (Len(V) + 1) - 1 = 1 .. Len(V)
    BY <1>2
  <2>2. Placed(s, Len(V) + 1) = {V[k] : k \in 1 .. Len(V)}
    BY <1>3, <2>1
  <2>3. {V[k] : k \in 1 .. Len(V)} = Instances(s)
    BY <1>1, <1>2
  <2> QED BY <2>2, <2>3
<1>6. ASSUME NEW i \in Instances(s) PROVE IsPrefix(i, i)
  BY BelowMeans
<1>7. ASSUME NEW n \in 1 .. Len(V)
      PROVE  /\ Placed(s, n) \subseteq Instances(s)
             /\ Placed(s, n + 1) = Placed(s, n) \cup {V[n]}
  <2>1. \A k \in 1 .. n - 1 : k \in 1 .. Len(V)
    BY <1>2
  <2>2. 1 .. (n + 1) - 1 = (1 .. n - 1) \cup {n}
    BY <1>2
  <2> QED BY <1>2, <1>3, <2>1, <2>2
<1>8. ASSUME NEW n \in 1 .. Len(V), NEW j \in Instances(s), IsPrefix(j, V[n]), j # V[n]
      PROVE  j \in Placed(s, n)
  <2>1. PICK l \in 1 .. Len(V) : V[l] = j
    BY <1>1
  <2>2. l <= n /\ l # n
    BY <1>1, <1>8, <2>1
  <2>3. l \in 1 .. n - 1
    BY <1>2, <2>1, <2>2
  <2> QED BY <1>3, <2>1, <2>3
<1>9. ASSUME NEW n \in 1 .. Len(V), NEW j \in Instances(s), IsPrefix(V[n], j), j \in Placed(s, n)
      PROVE  FALSE
  <2>1. PICK k \in 1 .. n - 1 : V[k] = j
    BY <1>3, <1>9
  <2>2. k \in 1 .. Len(V) /\ ~(n <= k)
    BY <1>2, <2>1
  <2> QED BY <1>1, <1>9, <2>1, <2>2
<1>10. \A n \in 1 .. Len(V) : V[n] \notin Placed(s, n)
  BY <1>2, <1>6, <1>9
<1>11. s # {} => Len(V) >= 1
  <2>1. SUFFICES ASSUME s # {} PROVE \E n \in 1 .. Len(V) : TRUE
    BY <1>2
  <2>2. << >> \in Instances(s)
    BY <2>1, OutermostInstance
  <2> QED BY <1>1, <2>2
<1> QED
  BY <1>1, <1>2, <1>4, <1>5, <1>7, <1>8, <1>9, <1>10, <1>11 DEF V

(* Patching the pointer to the buffer of instance i. *)
IsNext(Q, P, i) == Q = P \cup {i}
WithPointer(object, i) == [object EXCEPT ![<<"slot", Lambda(i)>>] = <<"working", i>>]

(* It changes the functor itself when the closure is stored there. *)
LEMMA PatchingStorage ==
    ASSUME NEW s, IsShape(s), NEW P, NEW i \in Instances(s), NEW Q, IsNext(Q, P, i)
    PROVE  PatchedStorage(s, Q) =
             IF HostSteps(i) = {}
             THEN WithPointer(PatchedStorage(s, P), i)
             ELSE PatchedStorage(s, P)
<1> DEFINE slot == <<"slot", Lambda(i)>>
           Old == PatchedStorage(s, P)  New == PatchedStorage(s, Q)
           Put == [Old EXCEPT ![slot] = <<"working", i>>]
<1>0. DOMAIN Old = StorageCells(s) /\ DOMAIN New = StorageCells(s)
      /\ Old = [c \in StorageCells(s) |-> Old[c]] /\ New = [c \in StorageCells(s) |-> New[c]]
  BY DEF PatchedStorage
<1>1. ASSUME NEW c \in StorageCells(s), c[1] # "slot" PROVE New[c] = Old[c] /\ c # slot
  BY <1>1 DEF PatchedStorage
<1>2. ASSUME NEW c \in StorageCells(s), c[1] = "slot"
      PROVE  \E q \in s : /\ c = <<"slot", q>> /\ Within(<< >>, q) \in Instances(s)
                          /\ New[c] = Place(Q, Within(<< >>, q))
                          /\ Old[c] = Place(P, Within(<< >>, q))
  <2>1. PICK q \in s : c = <<"slot", q>>
    BY <1>2 DEF StorageCells, SlotCells, ViewCells
  <2>2. /\ New[c] = Place(Q, Within(<< >>, q))
        /\ Old[c] = Place(P, Within(<< >>, q))
    BY <1>2, <2>1 DEF PatchedStorage
  <2> QED BY <2>1, <2>2, InStorage
<1>3. \A j : j # i => Place(Q, j) = Place(P, j)
  BY DEF Place, IsNext
<1>4. Place(Q, i) = <<"working", i>>
  BY DEF Place, IsNext
<1>5. CASE HostSteps(i) = {}
  <2>1. Within(<< >>, Lambda(i)) = i /\ Lambda(i) \in s
    BY <1>5, InStorage, InstanceMeans
  <2>2. slot \in StorageCells(s)
    BY <2>1 DEF StorageCells, SlotCells
  <2> HIDE DEF Old, New
  <2>3. ASSUME NEW c \in StorageCells(s) PROVE New[c] = Put[c]
    <3>1. CASE c[1] # "slot"
      BY <1>0, <1>1, <3>1
    <3>2. CASE c[1] = "slot"
      <4>1. PICK q \in s : /\ c = <<"slot", q>> /\ Within(<< >>, q) \in Instances(s)
                           /\ New[c] = Place(Q, Within(<< >>, q))
                           /\ Old[c] = Place(P, Within(<< >>, q))
        BY <1>2, <3>2
      <4>2. CASE q = Lambda(i)
        BY <1>0, <1>4, <2>1, <4>1, <4>2
      <4>3. CASE q # Lambda(i)
        <5>1. Within(<< >>, q) # i
          BY <4>3, InStorage
        <5>2. c # slot
          BY <4>1, <4>3
        <5> QED BY <1>0, <1>3, <4>1, <5>1, <5>2
      <4> QED BY <4>2, <4>3
    <3> QED BY <3>1, <3>2
  <2>4. Put = [c \in StorageCells(s) |-> Put[c]]
    BY <1>0
  <2> HIDE DEF Put
  <2>5. New = Put
    BY <1>0, <2>3, <2>4
  <2> QED BY <1>5, <2>5 DEF New, Put, Old, WithPointer
<1>6. CASE HostSteps(i) # {}
  <2> HIDE DEF Old, New
  <2>1. ASSUME NEW c \in StorageCells(s) PROVE New[c] = Old[c]
    <3>1. CASE c[1] # "slot"
      BY <1>1, <3>1
    <3>2. CASE c[1] = "slot"
      <4>1. PICK q \in s : /\ c = <<"slot", q>> /\ Within(<< >>, q) \in Instances(s)
                           /\ New[c] = Place(Q, Within(<< >>, q))
                           /\ Old[c] = Place(P, Within(<< >>, q))
        BY <1>2, <3>2
      <4>2. Within(<< >>, q) # i
        BY <1>6, InStorage
      <4> QED BY <1>3, <4>1, <4>2
    <3> QED BY <3>1, <3>2
  <2>2. New = Old
    BY <1>0, <2>1
  <2> QED BY <1>6, <2>2 DEF New, Old
<1> QED
  BY <1>5, <1>6

(* It changes a buffer when the closure is stored there. *)
LEMMA PatchingBuffer ==
    ASSUME NEW s, IsShape(s), NEW P, NEW i \in Instances(s), NEW Q, IsNext(Q, P, i),
           NEW k \in Instances(s)
    PROVE  /\ HostSteps(i) # {} /\ k = StoredIn(i) =>
                PatchedBuffer(s, Q, k) = WithPointer(PatchedBuffer(s, P, k), i)
           /\ HostSteps(i) = {} \/ k # StoredIn(i) =>
                PatchedBuffer(s, Q, k) = PatchedBuffer(s, P, k)
<1> DEFINE slot == <<"slot", Lambda(i)>>  Cells == BufferCells(s, Lambda(k))
           Old == PatchedBuffer(s, P, k)  New == PatchedBuffer(s, Q, k)
           Put == [Old EXCEPT ![slot] = <<"working", i>>]
<1>0. DOMAIN Old = Cells /\ DOMAIN New = Cells
      /\ Old = [c \in Cells |-> Old[c]] /\ New = [c \in Cells |-> New[c]]
  BY DEF PatchedBuffer
<1>1. ASSUME NEW c \in Cells, c[1] # "slot" PROVE New[c] = Old[c] /\ c # slot
  BY <1>1 DEF PatchedBuffer
<1>2. ASSUME NEW c \in Cells, c[1] = "slot"
      PROVE  \E q \in s : /\ c = <<"slot", q>> /\ IsStrictPrefix(Lambda(k), q)
                          /\ New[c] = Place(Q, Held(k, q))
                          /\ Old[c] = Place(P, Held(k, q))
  <2>1. PICK q \in s : c = <<"slot", q>> /\ IsStrictPrefix(Lambda(k), q)
    BY <1>2 DEF BufferCells, SlotCells, ViewCells
  <2>2. New[c] = Place(Q, Held(k, q)) /\ Old[c] = Place(P, Held(k, q))
    BY <1>2, <2>1 DEF PatchedBuffer
  <2> QED BY <2>1, <2>2
<1>3. \A j : j # i => Place(Q, j) = Place(P, j)
  BY DEF Place, IsNext
<1>4. Place(Q, i) = <<"working", i>>
  BY DEF Place, IsNext
<1>5. CASE HostSteps(i) # {} /\ k = StoredIn(i)
  <2>1. Held(k, Lambda(i)) = i /\ Lambda(i) \in s /\ IsStrictPrefix(Lambda(k), Lambda(i))
    BY <1>5, StoredMeans, InstanceMeans
  <2>2. slot \in Cells
    BY <2>1 DEF BufferCells, SlotCells
  <2> HIDE DEF Old, New, Cells
  <2>3. ASSUME NEW c \in Cells PROVE New[c] = Put[c]
    <3>1. CASE c[1] # "slot"
      BY <1>0, <1>1, <3>1
    <3>2. CASE c[1] = "slot"
      <4>1. PICK q \in s : /\ c = <<"slot", q>> /\ IsStrictPrefix(Lambda(k), q)
                           /\ New[c] = Place(Q, Held(k, q))
                           /\ Old[c] = Place(P, Held(k, q))
        BY <1>2, <3>2
      <4>2. CASE q = Lambda(i)
        BY <1>0, <1>4, <2>1, <4>1, <4>2
      <4>3. CASE q # Lambda(i)
        <5>1. Held(k, q) # i
          BY <4>1, <4>3, InBuffer
        <5>2. c # slot
          BY <4>1, <4>3
        <5> QED BY <1>0, <1>3, <4>1, <5>1, <5>2
      <4> QED BY <4>2, <4>3
    <3> QED BY <3>1, <3>2
  <2>4. Put = [c \in Cells |-> Put[c]]
    BY <1>0
  <2> HIDE DEF Put
  <2>5. New = Put
    BY <1>0, <2>3, <2>4
  <2> QED BY <1>5, <2>5 DEF New, Put, Old, WithPointer
<1>6. CASE ~(HostSteps(i) # {} /\ k = StoredIn(i))
  <2> HIDE DEF Old, New, Cells
  <2>1. ASSUME NEW c \in Cells PROVE New[c] = Old[c]
    <3>1. CASE c[1] # "slot"
      BY <1>1, <3>1
    <3>2. CASE c[1] = "slot"
      <4>1. PICK q \in s : /\ c = <<"slot", q>> /\ IsStrictPrefix(Lambda(k), q)
                           /\ New[c] = Place(Q, Held(k, q))
                           /\ Old[c] = Place(P, Held(k, q))
        BY <1>2, <3>2
      <4>2. Held(k, q) # i
        BY <1>6, <4>1, InBuffer
      <4> QED BY <1>3, <4>1, <4>2
    <3> QED BY <3>1, <3>2
  <2>2. New = Old
    BY <1>0, <2>1
  <2> QED BY <1>6, <2>2 DEF New, Old
<1> QED
  BY <1>5, <1>6

(* Before the first closure, at a closure and after the last one. *)
LEMMA PatchedEnds ==
    ASSUME NEW s, IsShape(s)
    PROVE  /\ PatchedStorage(s, {}) = Filled("captured", s, CapturedTracked)
           /\ PatchedStorage(s, Instances(s)) = Filled("working", s, CapturedTracked)
           /\ \A i \in Instances(s) :
                PatchedBuffer(s, Instances(s), i) = FilledBuffer("working", s, CapturedTracked, i)
           /\ \A n \in 1 .. Len(VisitHdlHostLambdas(s)) :
                PatchedBuffer(s, Placed(s, n + 1), VisitHdlHostLambdas(s)[n]) =
                  FilledBuffer("captured", s, CapturedTracked, VisitHdlHostLambdas(s)[n])
<1>1. PatchedStorage(s, {}) = Filled("captured", s, CapturedTracked)
  BY DEF PatchedStorage, Filled, Place
<1>2. \A c \in StorageCells(s) : c[1] = "slot" => Within(<< >>, c[2]) \in Instances(s)
  BY InStorage DEF StorageCells, SlotCells, ViewCells
<1>3. PatchedStorage(s, Instances(s)) = Filled("working", s, CapturedTracked)
  BY <1>2 DEF PatchedStorage, Filled, Place
<1>4. ASSUME NEW i \in Instances(s), NEW c \in BufferCells(s, Lambda(i)), c[1] = "slot"
      PROVE  /\ c[2] \in s /\ IsStrictPrefix(Lambda(i), c[2])
             /\ Held(i, c[2]) \in Instances(s) /\ StoredIn(Held(i, c[2])) = i
             /\ HostSteps(Held(i, c[2])) # {}
  <2>1. c[2] \in s /\ IsStrictPrefix(Lambda(i), c[2])
    BY <1>4 DEF BufferCells, SlotCells, ViewCells
  <2> QED BY <2>1, InBuffer
<1>5. ASSUME NEW i \in Instances(s)
      PROVE  PatchedBuffer(s, Instances(s), i) = FilledBuffer("working", s, CapturedTracked, i)
  BY <1>4 DEF PatchedBuffer, FilledBuffer, Place
<1>6. ASSUME NEW n \in 1 .. Len(VisitHdlHostLambdas(s))
      PROVE  PatchedBuffer(s, Placed(s, n + 1), VisitHdlHostLambdas(s)[n]) =
               FilledBuffer("captured", s, CapturedTracked, VisitHdlHostLambdas(s)[n])
  <2> DEFINE i == VisitHdlHostLambdas(s)[n]
  <2>1. /\ i \in Instances(s) /\ Placed(s, n + 1) = Placed(s, n) \cup {i}
        /\ \A j \in Instances(s) : IsPrefix(i, j) => j \notin Placed(s, n)
    BY VisitFacts
  <2> HIDE DEF i
  <2>2. ASSUME NEW c \in BufferCells(s, Lambda(i)), c[1] = "slot"
        PROVE  Held(i, c[2]) \notin Placed(s, n + 1)
    <3> DEFINE h == Held(i, c[2])
    <3>1. h \in Instances(s) /\ StoredIn(h) = i /\ HostSteps(h) # {}
      BY <1>4, <2>1, <2>2
    <3> HIDE DEF h
    <3>2. IsPrefix(i, h) /\ Len(i) < Len(h)
      BY <3>1, StoredMeans
    <3>3. Len(i) \in Nat
      BY <2>1, BelowMeans
    <3>4. h # i /\ h \notin Placed(s, n)
      BY <2>1, <3>1, <3>2, <3>3
    <3> QED BY <2>1, <3>4 DEF h
  <2>3. PatchedBuffer(s, Placed(s, n + 1), i) = FilledBuffer("captured", s, CapturedTracked, i)
    BY <2>2 DEF PatchedBuffer, FilledBuffer, Place
  <2> QED BY <2>3 DEF i
<1> QED
  BY <1>1, <1>3, <1>5, <1>6

(* The sizes of the buffers, in the order of the walk. *)
BufferSizes(s) ==
    [n \in 1 .. Len(VisitHdlHostLambdas(s)) |->
        Cardinality(BufferCells(s, Lambda(VisitHdlHostLambdas(s)[n])))]

(* The buffers of the working copy and those of the dump have these sizes. *)
LEMMA SizesAgree ==
    ASSUME NEW s, IsShape(s)
    PROVE  LET N == Len(VisitHdlHostLambdas(s)) IN
           /\ N \in Nat /\ BufferSizes(s) \in [1 .. N -> Nat \ {0}]
           /\ HostClosures(s) \in Seq(Range(HostClosures(s))) /\ Len(HostClosures(s)) = N
           /\ SavedClosures(s) \in Seq(Range(SavedClosures(s))) /\ Len(SavedClosures(s)) = N
           /\ \A n \in 1 .. N :
                /\ HostClosures(s)[n] = FilledBuffer("captured", s, CapturedTracked,
                                                     VisitHdlHostLambdas(s)[n])
                /\ SavedClosures(s)[n] = SavedClosure(s, VisitHdlHostLambdas(s)[n])
                /\ SizeOf(HostClosures(s)[n]) = BufferSizes(s)[n]
                /\ SizeOf(SavedClosures(s)[n].original) = BufferSizes(s)[n]
<1> DEFINE V == VisitHdlHostLambdas(s)  N == Len(V)
<1>1. N \in Nat /\ DOMAIN V = 1 .. N /\ \A n \in 1 .. N : V[n] \in Instances(s)
  BY VisitFacts
<1>2. /\ BufferSizes(s) = [n \in 1 .. N |-> Cardinality(BufferCells(s, Lambda(V[n])))]
      /\ SavedClosures(s) = [n \in 1 .. N |-> SavedClosure(s, V[n])]
  BY <1>1 DEF BufferSizes, SavedClosures
<1>3. HostClosures(s) = [n \in 1 .. N |-> FilledBuffer("captured", s, CapturedTracked, V[n])]
  <2>1. HostClosures(s) = [n \in 1 .. N |-> CapturedBuffers(s)[<<"captured", V[n]>>]]
    BY <1>1 DEF HostClosures
  <2> HIDE DEF V, N
  <2>2. \A n \in 1 .. N : CapturedBuffers(s)[<<"captured", V[n]>>] =
                            FilledBuffer("captured", s, CapturedTracked, V[n])
    <3>1. CapturedBuffers(s) = FilledBuffers("captured", s, CapturedTracked)
      BY CapturedIsFilled
    <3>2. ASSUME NEW i \in Instances(s)
          PROVE  FilledBuffers("captured", s, CapturedTracked)[<<"captured", i>>] =
                   FilledBuffer("captured", s, CapturedTracked, i)
      BY DEF FilledBuffers
    <3> QED BY <1>1, <3>1, <3>2
  <2> QED BY <2>1, <2>2
<1> HIDE DEF V, N
<1>4. BufferSizes(s) \in [1 .. N -> Nat \ {0}]
  BY <1>1, <1>2, CellsAreFinite
<1>5. ASSUME NEW f, DOMAIN f = 1 .. N, f = [n \in 1 .. N |-> f[n]]
      PROVE  f \in Seq(Range(f)) /\ Len(f) = N
  <2>1. f \in [1 .. N -> Range(f)]
    BY <1>5 DEF Range
  <2>2. f \in Seq(Range(f))
    BY <1>1, <2>1, SeqDef
  <2> QED BY <1>1, <2>1, <2>2, LengthIs
<1>6. HostClosures(s) \in Seq(Range(HostClosures(s))) /\ Len(HostClosures(s)) = N
  <2>1. DOMAIN HostClosures(s) = 1 .. N
        /\ HostClosures(s) = [n \in 1 .. N |-> HostClosures(s)[n]]
    BY <1>3
  <2> QED BY <1>5, <2>1
<1>7. SavedClosures(s) \in Seq(Range(SavedClosures(s))) /\ Len(SavedClosures(s)) = N
  <2>1. DOMAIN SavedClosures(s) = 1 .. N
        /\ SavedClosures(s) = [n \in 1 .. N |-> SavedClosures(s)[n]]
    BY <1>2
  <2> QED BY <1>5, <2>1
<1>8. \A owner, v, i : SizeOf(FilledBuffer(owner, s, v, i)) = Cardinality(BufferCells(s, Lambda(i)))
  BY DEF SizeOf, FilledBuffer
<1>9. \A n \in 1 .. N :
        /\ HostClosures(s)[n] = FilledBuffer("captured", s, CapturedTracked, V[n])
        /\ SavedClosures(s)[n] = SavedClosure(s, V[n])
  BY <1>2, <1>3
<1>10. \A n \in 1 .. N : SavedClosures(s)[n].original = FilledBuffer("working", s, OfProgram, V[n])
  <2>1. \A i : SavedClosure(s, i).original = FilledBuffer("working", s, OfProgram, i)
    BY DEF SavedClosure
  <2> QED BY <1>9, <2>1
<1>11. \A n \in 1 .. N : /\ SizeOf(HostClosures(s)[n]) = BufferSizes(s)[n]
                         /\ SizeOf(SavedClosures(s)[n].original) = BufferSizes(s)[n]
  BY <1>2, <1>8, <1>9, <1>10
<1> QED
  BY <1>1, <1>4, <1>6, <1>7, <1>9, <1>11 DEF V, N

(* The offsets in the working copy are those in the dump, and they tell    *)
(* the closures apart.                                                     *)
LEMMA OffsetsAgree ==
    ASSUME NEW s, IsShape(s), NEW g,
           IsOffsets(g, BufferSizes(s), Len(VisitHdlHostLambdas(s)))
    PROVE  LET N == Len(VisitHdlHostLambdas(s)) IN
           /\ HostSize(s) = g[N]
           /\ \A m \in 0 .. N :
                /\ TotalSize([k \in 1 .. m |-> SavedClosures(s)[k].original]) = g[m]
                /\ TotalSize(SubSeq(HostClosures(s), 1, m)) = g[m]
           /\ \A n \in 1 .. N :
                {k \in 1 .. N : TotalSize(SubSeq(HostClosures(s), 1, k - 1)) = g[n - 1]} = {n}
           /\ \A n \in 1 .. N : g[n - 1] + BufferSizes(s)[n] <= g[N] /\ g[N] \in Nat
<1> DEFINE V == VisitHdlHostLambdas(s)  N == Len(V)  z == BufferSizes(s)
           H == HostClosures(s)  C == SavedClosures(s)  S == Range(H)
<1>1. /\ N \in Nat /\ z \in [1 .. N -> Nat \ {0}] /\ z \in [1 .. N -> Nat]
      /\ H \in Seq(S) /\ Len(H) = N /\ Len(C) = N
      /\ \A n \in 1 .. N : SizeOf(H[n]) = z[n] /\ SizeOf(C[n].original) = z[n]
      /\ HostSize(s) = TotalSize(H) /\ IsOffsets(g, z, N)
  BY SizesAgree DEF HostSize
<1> HIDE DEF V, N, z, H, C, S
<1>2. N \in Nat /\ z \in [1 .. N -> Nat] /\ IsOffsets(g, z, N)
  BY <1>1
<1>3. ASSUME NEW R, NEW objects \in Seq(R), Len(objects) <= N,
             \A k \in 1 .. Len(objects) : SizeOf(objects[k]) = z[k]
      PROVE  TotalSize(objects) = g[Len(objects)]
  BY <1>2, <1>3, TotalIsOffset
<1>4. HostSize(s) = g[N]
  <2>1. H \in Seq(S) /\ Len(H) <= N /\ \A k \in 1 .. Len(H) : SizeOf(H[k]) = z[k]
    BY <1>1
  <2>2. TotalSize(H) = g[Len(H)]
    BY <1>3, <2>1
  <2> QED BY <1>1, <2>2
<1>5. ASSUME NEW m \in 0 .. N
      PROVE  /\ TotalSize([k \in 1 .. m |-> C[k].original]) = g[m]
             /\ TotalSize(SubSeq(H, 1, m)) = g[m]
  <2> DEFINE f == [k \in 1 .. m |-> C[k].original]  T == {C[k].original : k \in 1 .. N}
             h == SubSeq(H, 1, m)
  <2>0. m \in Nat /\ m <= N /\ \A k \in 1 .. m : k \in 1 .. N
    BY <1>1
  <2>1. f \in [1 .. m -> T]
    BY <2>0
  <2>2. \A k \in 1 .. m : SizeOf(f[k]) = z[k]
    BY <1>1, <2>0
  <2> HIDE DEF f, T
  <2>3. f \in Seq(T)
    BY <2>0, <2>1, SeqDef
  <2>4. Len(f) = m
    BY <2>0, <2>1, <2>3, LengthIs
  <2>5. TotalSize(f) = g[m]
    <3>1. Len(f) <= N /\ \A k \in 1 .. Len(f) : SizeOf(f[k]) = z[k]
      BY <2>0, <2>2, <2>4
    <3>2. TotalSize(f) = g[Len(f)]
      BY <1>3, <2>3, <3>1
    <3> QED BY <2>4, <3>2
  <2>6. h \in Seq(S) /\ Len(h) = m /\ \A k \in 1 .. m : h[k] = H[k]
    BY <1>1, <2>0
  <2> HIDE DEF h
  <2>7. TotalSize(h) = g[m]
    <3>1. Len(h) <= N /\ \A k \in 1 .. Len(h) : SizeOf(h[k]) = z[k]
      BY <1>1, <2>0, <2>6
    <3>2. TotalSize(h) = g[Len(h)]
      BY <1>3, <2>6, <3>1
    <3> QED BY <2>6, <3>2
  <2> QED BY <2>5, <2>7 DEF f, h
<1>6. ASSUME NEW n \in 1 .. N
      PROVE  {k \in 1 .. N : TotalSize(SubSeq(H, 1, k - 1)) = g[n - 1]} = {n}
  <2>1. ASSUME NEW k \in 1 .. N, k # n PROVE g[k - 1] # g[n - 1]
    <3>1. k - 1 \in 0 .. N /\ n - 1 \in 0 .. N /\ (k - 1 < n - 1 \/ n - 1 < k - 1)
      BY <1>1, <2>1
    <3>2. g[k - 1] \in Nat /\ g[n - 1] \in Nat
      BY <1>1, <3>1 DEF IsOffsets
    <3>3. CASE k - 1 < n - 1
      <4>1. g[k - 1] < g[n - 1]
        BY <1>1, <3>1, <3>3, OffsetsIncrease
      <4> QED BY <3>2, <4>1
    <3>4. CASE n - 1 < k - 1
      <4>1. g[n - 1] < g[k - 1]
        BY <1>1, <3>1, <3>4, OffsetsIncrease
      <4> QED BY <3>2, <4>1
    <3> QED BY <3>1, <3>3, <3>4
  <2>2. \A k \in 1 .. N : TotalSize(SubSeq(H, 1, k - 1)) = g[k - 1]
    <3>1. \A k \in 1 .. N : k - 1 \in 0 .. N
      BY <1>1
    <3> QED BY <1>5, <3>1
  <2> QED BY <2>1, <2>2
<1>7. ASSUME NEW n \in 1 .. N PROVE g[n - 1] + z[n] <= g[N] /\ g[N] \in Nat
  <2>1. n \in 0 .. N /\ N \in 0 .. N
    BY <1>1
  <2>2. g[n] = g[n - 1] + z[n] /\ g[n] \in Nat /\ g[N] \in Nat
    BY <1>1, <2>1 DEF IsOffsets
  <2>3. n < N => g[n] < g[N]
    BY <1>1, <2>1, OffsetsIncrease
  <2>4. CASE n < N
    BY <2>2, <2>3, <2>4
  <2>5. CASE n = N
    BY <2>2, <2>5
  <2> QED BY <1>1, <2>4, <2>5
<1> QED
  BY <1>4, <1>5, <1>6, <1>7 DEF V, N, z, H, C

-----------------------------------------------------------------------------
(* Every step keeps the invariant.                                         *)

(* No call was made at first. *)
LEMMA RevivalInit == Init => RevivalInv
<1>1. SUFFICES ASSUME Init PROVE RevivalInv
  OBVIOUS
<1>2. /\ step = "idle" /\ tracking \in BOOLEAN /\ disabledTracking = FALSE /\ fault = FALSE
      /\ heap = << >> /\ result = NoObject /\ phase = "capture" /\ kernel \in Kernels
      /\ launched = NotLaunched
  BY <1>1 DEF Init, InitRestore
<1>3. ~ InCall
  BY <1>2 DEF InCall
<1>4. HeapInv
  BY <1>2, <1>3 DEF HeapInv
<1>5. DumpIsCaptured /\ CallInv /\ ResultInv /\ PatchInv
  BY <1>2, <1>3 DEF DumpIsCaptured, CallInv, ResultInv, PatchInv
<1> QED
  BY <1>2, <1>4, <1>5 DEF RevivalInv

(* The functors of the calls are those of the programs. *)
LEMMA ShapesOfCalls ==
    ASSUME RevivalInv
    PROVE  /\ kernel.shape \in Shapes /\ IsShape(kernel.shape)
           /\ step # "idle" => IsShape(shape)
  BY KernelsAssumption, ShapesAssumption DEF RevivalInv, CallInv

(* The dump gets the captured functor. *)
LEMMA CaptureRevival == RevivalInv /\ Capture => RevivalInv'
<1>1. SUFFICES ASSUME RevivalInv, Capture PROVE RevivalInv'
  OBVIOUS
<1>2. /\ functorData' = CapturedStorage(kernel.shape)
      /\ hostClosureData' = HostClosures(kernel.shape)
      /\ UNCHANGED <<restoreVars, kernel, call, launched>> /\ phase = "capture" /\ phase' = "load"
  BY <1>1 DEF Capture, CopyNvccFunctor
<1>3. DumpIsCaptured'
  BY <1>2, CapturedIsFilled DEF DumpIsCaptured
<1>4. CallInv' /\ HeapInv' /\ ResultInv' /\ PatchInv'
  BY <1>1, <1>2
  DEF RevivalInv, CallInv, HeapInv, ResultInv, PatchInv, restoreVars, InCall, IsToldApart
<1> QED
  BY <1>1, <1>2, <1>3, <1>4 DEF RevivalInv, restoreVars

(* A step that leaves the dump and the state of replay_functor alone. *)
LEMMA FrameRevival ==
    ASSUME RevivalInv, UNCHANGED <<dataVars, restoreVars, kernel>>,
           phase' = "capture" <=> phase = "capture",
           launched' # NotLaunched => launched'.functor
    PROVE  RevivalInv'
<1>1. DumpIsCaptured' /\ CallInv' /\ HeapInv' /\ ResultInv' /\ PatchInv'
  BY DEF RevivalInv, DumpIsCaptured, CallInv, HeapInv, ResultInv, PatchInv, restoreVars, dataVars,
         InCall, IsToldApart
<1> QED
  BY <1>1 DEF RevivalInv, restoreVars

(* Loading the dump leaves replay_functor alone. *)
LEMMA LoadRevival == RevivalInv /\ Load => RevivalInv'
<1>1. SUFFICES ASSUME RevivalInv, Load PROVE RevivalInv'
  OBVIOUS
<1>2. /\ UNCHANGED <<dataVars, restoreVars, kernel>> /\ launched' = launched
      /\ phase = "load" /\ phase' \in {"not loaded", "replay"}
  BY <1>1 DEF Load
<1>3. launched' # NotLaunched => launched'.functor
  BY <1>1, <1>2 DEF RevivalInv
<1> QED
  BY <1>1, <1>2, <1>3, FrameRevival

(* What BeginReplayFunctor makes. *)
LEMMA WorkingCopyIsMade ==
    ASSUME NEW s, IsShape(s),
           NEW object, object = Filled("working", s, OfProgram),
           NEW memory, memory = FilledBuffers("working", s, OfProgram),
           NEW n \in 1 .. Len(VisitHdlHostLambdas(s))
    PROVE  LET at == AddressOf(s, object, memory)[VisitHdlHostLambdas(s)[n]]
           IN  [instance |-> VisitHdlHostLambdas(s)[n], buffer |-> at, original |-> memory[at]]
                 = SavedClosure(s, VisitHdlHostLambdas(s)[n])
<1> DEFINE i == VisitHdlHostLambdas(s)[n]
<1>1. i \in Instances(s)
  BY VisitFacts
<1>2. AddressOf(s, object, memory) = [j \in Instances(s) |-> <<"working", j>>]
  BY FilledHasBuffers, FilledMeans
<1> HIDE DEF i
<1>3. AddressOf(s, object, memory)[i] = <<"working", i>>
  BY <1>1, <1>2
<1>4. memory[<<"working", i>>] = FilledBuffer("working", s, OfProgram, i)
  BY <1>1, FilledHasBuffers DEF HasBuffers
<1>5. [instance |-> i, buffer |-> AddressOf(s, object, memory)[i],
       original |-> memory[AddressOf(s, object, memory)[i]]] = SavedClosure(s, i)
  BY <1>3, <1>4 DEF SavedClosure
<1> QED
  BY <1>5 DEF i
(* The working copy, its buffers and the guard are those of the program. *)
LEMMA BeginMakes ==
    ASSUME NEW s, IsShape(s), BeginReplayFunctor(s), DOMAIN heap = {}
    PROVE  /\ tracking' = FALSE /\ disabledTracking' = tracking /\ shape' = s
           /\ step' = "initFunctor" /\ UNCHANGED <<nextClosure, result, fault>>
           /\ working' = Filled("working", s, OfProgram)
           /\ heap' = FilledBuffers("working", s, OfProgram)
           /\ saved' = [original |-> Filled("working", s, OfProgram), closures |-> SavedClosures(s)]
<1> DEFINE view == CopyOfView(View("program", TRUE), tracking')
           object == Storage("working", s, LAMBDA c : view)
           memory == Buffers("working", s, LAMBDA i, c : view)
           V == VisitHdlHostLambdas(s)
           Closure(n) == LET at == AddressOf(s, object, memory)[V[n]]
                         IN  [instance |-> V[n], buffer |-> at, original |-> memory[at]]
<1>1. /\ tracking' = FALSE /\ disabledTracking' = tracking /\ shape' = s
      /\ step' = "initFunctor" /\ UNCHANGED <<nextClosure, result, fault>>
      /\ working' = object /\ heap' = HeapWith(heap, memory)
      /\ saved' = [original |-> object, closures |-> [n \in DOMAIN V |-> Closure(n)]]
  BY DEF BeginReplayFunctor, DisableTracking
<1>2. view = OfProgram
  BY <1>1, ViewFacts
<1>3. object = Filled("working", s, OfProgram)
  BY <1>2 DEF Storage, Filled
<1>4. memory = FilledBuffers("working", s, OfProgram)
  BY <1>2 DEF Buffers, FilledBuffers, FilledBuffer, Held
<1> HIDE DEF view, object, memory
<1>5. heap' = memory
  <2>1. memory = [a \in DOMAIN memory |-> memory[a]]
    BY <1>4 DEF FilledBuffers
  <2>2. HeapWith(heap, memory) = [a \in DOMAIN memory |-> memory[a]]
    BY DEF HeapWith
  <2> QED BY <1>1, <2>1, <2>2
<1>6. DOMAIN V = 1 .. Len(V)
  BY VisitFacts
<1>7. \A n \in 1 .. Len(V) : Closure(n) = SavedClosure(s, V[n])
  BY <1>3, <1>4, WorkingCopyIsMade
<1> HIDE DEF Closure
<1>8. [n \in DOMAIN V |-> Closure(n)] = SavedClosures(s)
  BY <1>6, <1>7 DEF SavedClosures
<1> QED
  BY <1>1, <1>3, <1>4, <1>5, <1>8

(* A call begins with them. *)
LEMMA ParallelForRevival ==
    ASSUME RevivalInv, NEW s \in Shapes, NEW accepts, NEW forced, ParallelFor(s, accepts, forced)
    PROVE  RevivalInv'
<1>1. /\ step = "idle" /\ phase = "replay" /\ (s = kernel.shape \/ IsToldApart(s))
      /\ BeginReplayFunctor(s) /\ UNCHANGED <<dataVars, tripVars, launched>> /\ IsShape(s)
  BY ShapesAssumption DEF ParallelFor
<1>2. ~ InCall /\ result = NoObject
  BY <1>1 DEF RevivalInv, ResultInv, InCall
<1>3. DOMAIN heap = {}
  BY <1>2 DEF RevivalInv, HeapInv
<1>4. /\ tracking' = FALSE /\ disabledTracking' = tracking /\ shape' = s
      /\ step' = "initFunctor" /\ UNCHANGED <<nextClosure, result, fault>>
      /\ working' = Filled("working", s, OfProgram)
      /\ heap' = FilledBuffers("working", s, OfProgram)
      /\ saved' = [original |-> Filled("working", s, OfProgram), closures |-> SavedClosures(s)]
  BY <1>1, <1>3, BeginMakes
<1>5. InCall'
  BY <1>4 DEF InCall
<1>6. HeapInv'
  BY <1>2, <1>4, <1>5 DEF HeapInv, FilledBuffers
<1>7. CallInv'
  BY <1>1, <1>4, <1>5 DEF CallInv, IsToldApart, tripVars
<1>8. PatchInv'
  BY <1>4 DEF PatchInv, Filled
<1>9. DumpIsCaptured' /\ ResultInv'
  BY <1>1, <1>2, <1>4 DEF RevivalInv, DumpIsCaptured, ResultInv, dataVars, tripVars
<1> QED
  BY <1>1, <1>4, <1>6, <1>7, <1>8, <1>9 DEF RevivalInv, tripVars

(* A step of replay_functor before it ends. *)
LEMMA StepRevival ==
    ASSUME RevivalInv, InCall, InCall', step' # "idle",
           UNCHANGED <<dataVars, tripVars, launched, shape, tracking, disabledTracking, saved,
                       fault>>,
           HeapInv', ResultInv', PatchInv'
    PROVE  RevivalInv'
<1>1. DumpIsCaptured' /\ CallInv'
  BY DEF RevivalInv, DumpIsCaptured, CallInv, dataVars, tripVars, IsToldApart, InCall
<1> QED
  BY <1>1 DEF RevivalInv, tripVars, InCall

(* init_functor writes the captured bytes, or refuses a functor that is    *)
(* too large.                                                              *)
LEMMA InitFunctorRevival ==
    ASSUME RevivalInv, InitFunctor, UNCHANGED <<dataVars, tripVars, call, launched>>
    PROVE  RevivalInv'
<1> DEFINE ks == kernel.shape
<1>1. /\ step = "initFunctor" /\ step' \in {"restore", "patch"}
      /\ UNCHANGED <<shape, tracking, disabledTracking, heap, saved, result, fault>>
  BY DEF InitFunctor
<1>2. InCall /\ InCall' /\ step' # "idle" /\ result = NoObject /\ IsShape(shape) /\ IsShape(ks)
      /\ (shape = ks \/ IsToldApart(shape))
  BY <1>1, ShapesOfCalls DEF InCall, RevivalInv, ResultInv, CallInv
<1>3. HeapInv' /\ ResultInv'
  BY <1>1, <1>2 DEF RevivalInv, HeapInv, ResultInv
<1>4. /\ functorData = Filled("captured", ks, CapturedTracked)
      /\ saved = [original |-> Filled("working", shape, OfProgram),
                  closures |-> SavedClosures(shape)]
      /\ DOMAIN working = StorageCells(shape)
  BY <1>1, <1>2 DEF RevivalInv, DumpIsCaptured, CallInv, PatchInv
<1>5. /\ SizeOf(functorData) = Cardinality(StorageCells(ks))
      /\ SizeOf(saved.original) = Cardinality(StorageCells(shape))
      /\ Cardinality(StorageCells(ks)) \in Nat /\ Cardinality(StorageCells(shape)) \in Nat
  BY <1>2, <1>4, CellsAreFinite DEF SizeOf, Filled
<1>6. CASE SizeOf(functorData) < SizeOf(saved.original)
  <2>1. shape # ks /\ step' = "restore"
    BY <1>5, <1>6 DEF InitFunctor
  <2>2. PatchInv'
    BY <1>1, <2>1 DEF PatchInv, tripVars
  <2> QED BY <1>1, <1>2, <1>3, <2>2, StepRevival
<1>7. CASE ~(SizeOf(functorData) < SizeOf(saved.original))
  <2>1. working' = InitialBytes /\ nextClosure' = 1 /\ step' = "patch"
    BY <1>7 DEF InitFunctor
  <2>2. CASE shape = ks
    <3>1. InitialBytes = Filled("captured", shape, CapturedTracked)
      BY <1>4, <2>2 DEF InitialBytes, Filled
    <3>2. Placed(shape, 1) = {} /\ 1 \in 1 .. Len(VisitHdlHostLambdas(shape)) + 1
      BY <1>2, VisitFacts
    <3>3. working' = PatchedStorage(shape, Placed(shape, 1))
      BY <1>2, <2>1, <3>1, <3>2, PatchedEnds
    <3>4. PatchInv'
      BY <1>1, <2>1, <2>2, <3>2, <3>3 DEF PatchInv, tripVars
    <3> QED BY <1>1, <1>2, <1>3, <3>4, StepRevival
  <2>3. CASE shape # ks
    <3>1. shape # {} /\ HostSize(shape) # HostSize(ks)
      BY <1>2, <1>5, <1>7, <2>3 DEF IsToldApart
    <3>2. PatchInv'
      BY <1>1, <2>1, <2>3, <3>1 DEF PatchInv, tripVars
    <3> QED BY <1>1, <1>2, <1>3, <3>2, StepRevival
  <2> QED BY <2>2, <2>3
<1> QED BY <1>6, <1>7

(* The sizes that init_extended_lambda_host_closure compares. *)
LEMMA SizesOfClosures ==
    ASSUME NEW s, IsShape(s), saved.closures = SavedClosures(s)
    PROVE  LET N == Len(VisitHdlHostLambdas(s)) IN
           /\ Len(saved.closures) = N /\ OffsetOf(N + 1) = HostSize(s)
           /\ hostClosureData = HostClosures(s) =>
                /\ TotalSize(hostClosureData) = HostSize(s)
                /\ \A n \in 1 .. N :
                     /\ ~(OffsetOf(n) + SizeOf(saved.closures[n].original) > OffsetOf(N + 1))
                     /\ ClosureDataAt(OffsetOf(n)) =
                          FilledBuffer("captured", s, CapturedTracked, VisitHdlHostLambdas(s)[n])
<1> DEFINE V == VisitHdlHostLambdas(s)  N == Len(V)  z == BufferSizes(s)
<1>1. /\ N \in Nat /\ z \in [1 .. N -> Nat \ {0}] /\ z \in [1 .. N -> Nat]
      /\ Len(SavedClosures(s)) = N /\ Len(HostClosures(s)) = N /\ DOMAIN HostClosures(s) = 1 .. N
      /\ \A n \in 1 .. N :
            /\ HostClosures(s)[n] = FilledBuffer("captured", s, CapturedTracked, V[n])
            /\ SizeOf(SavedClosures(s)[n].original) = z[n]
  BY SizesAgree
<1>2. PICK g : IsOffsets(g, z, N)
  BY <1>1, OffsetsExist
<1>3. /\ HostSize(s) = g[N]
      /\ \A m \in 0 .. N : TotalSize([k \in 1 .. m |-> SavedClosures(s)[k].original]) = g[m]
      /\ \A n \in 1 .. N :
           /\ {k \in 1 .. N : TotalSize(SubSeq(HostClosures(s), 1, k - 1)) = g[n - 1]} = {n}
           /\ g[n - 1] + z[n] <= g[N] /\ g[N] \in Nat
  BY <1>2, OffsetsAgree
<1> HIDE DEF V, N, z
<1>4. ASSUME NEW n \in 1 .. N + 1 PROVE OffsetOf(n) = g[n - 1]
  <2>1. n - 1 \in 0 .. N
    BY <1>1
  <2> QED BY <1>3, <2>1 DEF OffsetOf
<1>5. OffsetOf(N + 1) = HostSize(s)
  <2>1. N + 1 \in 1 .. N + 1 /\ (N + 1) - 1 = N
    BY <1>1
  <2> QED BY <1>3, <1>4, <2>1
<1>6. ASSUME hostClosureData = HostClosures(s), NEW n \in 1 .. N
      PROVE  /\ ~(OffsetOf(n) + SizeOf(saved.closures[n].original) > OffsetOf(N + 1))
             /\ ClosureDataAt(OffsetOf(n)) = FilledBuffer("captured", s, CapturedTracked, V[n])
  <2>1. OffsetOf(n) = g[n - 1] /\ g[n - 1] \in Nat /\ z[n] \in Nat
    <3>1. n \in 1 .. N + 1 /\ n - 1 \in 0 .. N
      BY <1>1
    <3> QED BY <1>1, <1>2, <1>4, <3>1 DEF IsOffsets
  <2>2. SizeOf(saved.closures[n].original) = z[n] /\ OffsetOf(N + 1) = g[N]
    BY <1>1, <1>3, <1>5
  <2>3. ~(OffsetOf(n) + SizeOf(saved.closures[n].original) > OffsetOf(N + 1))
    BY <1>3, <2>1, <2>2
  <2> DEFINE at == {k \in DOMAIN hostClosureData :
                      TotalSize(SubSeq(hostClosureData, 1, k - 1)) = OffsetOf(n)}
  <2>4. ClosureDataAt(OffsetOf(n)) = hostClosureData[Min(at)]
    BY DEF ClosureDataAt
  <2>5. at = {n}
    BY <1>1, <1>3, <1>6, <2>1
  <2> HIDE DEF at
  <2>6. Min(at) = n
    BY <2>5 DEF Min
  <2>7. ClosureDataAt(OffsetOf(n)) = FilledBuffer("captured", s, CapturedTracked, V[n])
    BY <1>1, <1>6, <2>4, <2>6
  <2> QED BY <2>3, <2>7
<1> QED
  BY <1>1, <1>5, <1>6 DEF HostSize, V, N

(* The buffer with the pointer of a closure. *)
LEMMA OwnerHasThePointer ==
    ASSUME NEW s, IsShape(s), saved.closures = SavedClosures(s),
           NEW i \in Instances(s), HostSteps(i) # {}
    PROVE  OwnerOf(SavedClosure(s, i)).buffer = <<"working", StoredIn(i)>>
<1> DEFINE V == VisitHdlHostLambdas(s)  C == Range(saved.closures)
           IsOwner(c) == c.instance = StoredIn(i)
<1>1. OwnerOf(SavedClosure(s, i)) = CHOOSE c \in C : IsOwner(c)
  BY DEF OwnerOf, SavedClosure
<1>2. \A c : c \in C <=> \E n \in 1 .. Len(V) : c = SavedClosure(s, V[n])
  <2>1. DOMAIN V = 1 .. Len(V)
    BY VisitFacts
  <2> QED BY <2>1 DEF SavedClosures, Range
<1>3. PICK n \in 1 .. Len(V) : V[n] = StoredIn(i)
  BY StoredMeans, VisitFacts
<1>4. \A j : SavedClosure(s, j).instance = j /\ SavedClosure(s, j).buffer = <<"working", j>>
  BY DEF SavedClosure
<1>5. SavedClosure(s, V[n]) \in C /\ IsOwner(SavedClosure(s, V[n]))
  BY <1>2, <1>3, <1>4
<1> DEFINE owner == CHOOSE c \in C : IsOwner(c)
<1>6. owner \in C /\ IsOwner(owner)
  BY <1>5
<1> HIDE DEF owner, C
<1>7. owner.buffer = <<"working", StoredIn(i)>>
  BY <1>2, <1>4, <1>6
<1> QED
  BY <1>1, <1>7 DEF owner

(* The heap after the n-th closure has been patched. *)
HeapWithPointer(memory, i) ==
    IF HostSteps(i) = {} THEN memory
    ELSE [memory EXCEPT ![<<"working", StoredIn(i)>>] = WithPointer(@, i)]
HeapWithClosure(memory, s, i) ==
    [HeapWithPointer(memory, i) EXCEPT ![<<"working", i>>] =
        FilledBuffer("captured", s, CapturedTracked, i)]
HasPatched(memory, s, n) ==
    /\ DOMAIN memory = {"working"} \X Instances(s)
    /\ \A j \in Placed(s, n) : memory[<<"working", j>>] = PatchedBuffer(s, Placed(s, n), j)

(* Each closure patched so far is the captured one with the pointers       *)
(* patched so far.                                                         *)
LEMMA PatchedHeap ==
    ASSUME NEW s, IsShape(s), NEW n \in 1 .. Len(VisitHdlHostLambdas(s)), NEW memory,
           HasPatched(memory, s, n)
    PROVE  HasPatched(HeapWithClosure(memory, s, VisitHdlHostLambdas(s)[n]), s, n + 1)
<1> DEFINE i == VisitHdlHostLambdas(s)[n]
           patched == HeapWithPointer(memory, i)
           new == HeapWithClosure(memory, s, i)
<1>1. /\ patched = IF HostSteps(i) = {} THEN memory
                   ELSE [memory EXCEPT ![<<"working", StoredIn(i)>>] = WithPointer(@, i)]
      /\ new = [patched EXCEPT ![<<"working", i>>] =
                  FilledBuffer("captured", s, CapturedTracked, i)]
      /\ DOMAIN new = DOMAIN memory /\ DOMAIN patched = DOMAIN memory
      /\ DOMAIN memory = {"working"} \X Instances(s)
  BY DEF HeapWithPointer, HeapWithClosure, HasPatched
<1> HIDE DEF new, patched
<1>2. SUFFICES ASSUME NEW j \in Placed(s, n + 1)
               PROVE  new[<<"working", j>>] = PatchedBuffer(s, Placed(s, n + 1), j)
  BY <1>1 DEF HasPatched, new
<1>3. /\ i \in Instances(s) /\ Placed(s, n) \subseteq Instances(s)
      /\ Placed(s, n + 1) = Placed(s, n) \cup {i} /\ i \notin Placed(s, n)
  BY VisitFacts
<1>4. /\ <<"working", i>> \in DOMAIN memory /\ <<"working", j>> \in DOMAIN memory
      /\ DOMAIN patched = DOMAIN memory
  BY <1>1, <1>3
<1> HIDE DEF i
<1>5. CASE j = i
  <2>1. new[<<"working", j>>] = FilledBuffer("captured", s, CapturedTracked, i)
    BY <1>1, <1>4, <1>5
  <2> QED BY <1>5, <2>1, PatchedEnds DEF i
<1>6. CASE j # i
  <2>1. j \in Placed(s, n) /\ j \in Instances(s) /\ <<"working", j>> # <<"working", i>>
    BY <1>3, <1>6
  <2>2. new[<<"working", j>>] = patched[<<"working", j>>]
    BY <1>1, <1>4, <2>1
  <2>3. memory[<<"working", j>>] = PatchedBuffer(s, Placed(s, n), j)
    BY <2>1 DEF HasPatched
  <2>4. /\ HostSteps(i) # {} /\ j = StoredIn(i) =>
             PatchedBuffer(s, Placed(s, n + 1), j) =
               WithPointer(PatchedBuffer(s, Placed(s, n), j), i)
        /\ HostSteps(i) = {} \/ j # StoredIn(i) =>
             PatchedBuffer(s, Placed(s, n + 1), j) = PatchedBuffer(s, Placed(s, n), j)
    <3>1. i \in Instances(s) /\ j \in Instances(s) /\ IsNext(Placed(s, n + 1), Placed(s, n), i)
      BY <1>3, <2>1 DEF IsNext
    <3> QED BY <3>1, PatchingBuffer
  <2>5. CASE HostSteps(i) = {}
    BY <1>1, <2>2, <2>3, <2>4, <2>5
  <2>6. CASE HostSteps(i) # {} /\ j = StoredIn(i)
    <3>1. patched[<<"working", j>>] =
            WithPointer(memory[<<"working", j>>], i)
      BY <1>1, <1>4, <2>6
    <3> QED BY <2>2, <2>3, <2>4, <2>6, <3>1
  <2>7. CASE HostSteps(i) # {} /\ j # StoredIn(i)
    <3>1. <<"working", j>> # <<"working", StoredIn(i)>>
      BY <2>7
    <3>2. patched[<<"working", j>>] = memory[<<"working", j>>]
      BY <1>1, <1>4, <2>7, <3>1
    <3> QED BY <2>2, <2>3, <2>4, <2>7, <3>2
  <2> QED BY <2>5, <2>6, <2>7
<1> QED BY <1>5, <1>6

(* A round of the loop patches one more closure, or tells another functor  *)
(* in the first one.                                                       *)
LEMMA PatchClosureRevival ==
    ASSUME RevivalInv, PatchClosure, UNCHANGED <<dataVars, tripVars, call, launched>>
    PROVE  RevivalInv'
<1> DEFINE s == shape  n == nextClosure  V == VisitHdlHostLambdas(s)  N == Len(V)  i == V[n]
           closure == saved.closures[n]
           slot == <<"slot", Lambda(closure.instance)>>
           inWorking == HostSteps(closure.instance) = {}
           patched == IF inWorking THEN heap
                      ELSE [heap EXCEPT ![OwnerOf(closure).buffer][slot] = closure.buffer]
           total == OffsetOf(Len(saved.closures) + 1)
           Refused == \/ total # TotalSize(hostClosureData)
                      \/ OffsetOf(n) + SizeOf(closure.original) > total
<1>1. /\ step = "patch" /\ n <= Len(saved.closures)
      /\ UNCHANGED <<shape, tracking, disabledTracking, saved, result, fault>>
      /\ working' = IF inWorking THEN [working EXCEPT ![slot] = closure.buffer] ELSE working
      /\ IF Refused
         THEN heap' = patched /\ step' = "restore" /\ UNCHANGED nextClosure
         ELSE /\ heap' = [patched EXCEPT ![closure.buffer] = ClosureDataAt(OffsetOf(n))]
              /\ nextClosure' = n + 1 /\ UNCHANGED step
  BY DEF PatchClosure, NextClosure
<1>2. /\ InCall /\ result = NoObject /\ IsShape(s) /\ IsShape(kernel.shape)
      /\ hostClosureData = HostClosures(kernel.shape)
      /\ saved.closures = SavedClosures(s) /\ DOMAIN heap = {"working"} \X Instances(s)
  <2>1. step = "patch" /\ InCall
    BY <1>1 DEF InCall
  <2>2. result = NoObject /\ phase # "capture"
    BY <2>1 DEF RevivalInv, ResultInv, CallInv
  <2>3. IsShape(s) /\ IsShape(kernel.shape)
    BY <2>1, ShapesOfCalls
  <2>4. hostClosureData = HostClosures(kernel.shape)
    BY <2>2 DEF RevivalInv, DumpIsCaptured
  <2>5. saved.closures = SavedClosures(s)
    BY <2>1 DEF RevivalInv, CallInv
  <2>6. DOMAIN heap = {"working"} \X Instances(s)
    BY <2>1, <2>2 DEF RevivalInv, HeapInv
  <2> QED BY <2>1, <2>2, <2>3, <2>4, <2>5, <2>6
<1>3. /\ Len(saved.closures) = N /\ total = HostSize(s) /\ N \in Nat
      /\ s # {} => N >= 1
  BY <1>2, SizesOfClosures, VisitFacts
<1>4. ResultInv'
  BY <1>1, <1>2 DEF ResultInv
<1>5. InCall' /\ step' # "idle"
  BY <1>1 DEF InCall
<1> HIDE DEF Refused, patched
<1>6. HeapInv'
  <2>1. patched = [a \in DOMAIN heap |-> patched[a]]
    <3>1. heap = [a \in DOMAIN heap |-> heap[a]]
      BY DEF RevivalInv, HeapInv
    <3> QED BY <3>1 DEF patched
  <2>2. heap' = [a \in DOMAIN heap |-> heap'[a]]
    <3>1. CASE Refused
      BY <1>1, <2>1, <3>1
    <3>2. CASE ~Refused
      BY <1>1, <2>1, <3>2
    <3> QED BY <3>1, <3>2
  <2> QED BY <1>1, <1>2, <1>5, <2>2 DEF HeapInv
<1>7. CASE s # kernel.shape
  <2>1. HostSize(s) # HostSize(kernel.shape)
    BY <1>1, <1>7 DEF RevivalInv, PatchInv
  <2>2. Refused
    BY <1>2, <1>3, <2>1 DEF Refused, HostSize
  <2>3. PatchInv'
    BY <1>1, <1>7, <2>2 DEF PatchInv, tripVars
  <2> QED BY <1>1, <1>2, <1>4, <1>5, <1>6, <2>3, StepRevival
<1>8. CASE s = kernel.shape
  <2>1. /\ n \in 1 .. N + 1 /\ working = PatchedStorage(s, Placed(s, n))
        /\ \A j \in Placed(s, n) : heap[<<"working", j>>] = PatchedBuffer(s, Placed(s, n), j)
    BY <1>1, <1>8 DEF RevivalInv, PatchInv
  <2>2. n \in 1 .. N /\ n + 1 \in 1 .. N + 1
    BY <1>1, <1>3, <2>1
  <2>3. closure = SavedClosure(s, i) /\ i \in Instances(s)
        /\ Placed(s, n + 1) = Placed(s, n) \cup {i}
    BY <1>2, <2>2, SizesAgree, VisitFacts
  <2>4. /\ ~Refused
        /\ ClosureDataAt(OffsetOf(n)) = FilledBuffer("captured", s, CapturedTracked, i)
    BY <1>2, <1>3, <1>8, <2>2, SizesOfClosures DEF Refused
  <2> HIDE DEF closure
  <2>5. closure.instance = i /\ closure.buffer = <<"working", i>>
    BY <2>3 DEF SavedClosure
  <2>6. patched = HeapWithPointer(heap, i)
    <3>1. HostSteps(i) # {} => OwnerOf(closure).buffer = <<"working", StoredIn(i)>>
      BY <1>2, <2>3, OwnerHasThePointer
    <3> HIDE DEF i
    <3> QED BY <2>5, <3>1 DEF patched, HeapWithPointer, WithPointer
  <2>7. heap' = HeapWithClosure(heap, s, i) /\ nextClosure' = n + 1 /\ step' = "patch"
    BY <1>1, <2>4, <2>5, <2>6 DEF HeapWithClosure
  <2>8. working' = PatchedStorage(s, Placed(s, n + 1))
    <3>1. working' = IF HostSteps(i) = {}
                     THEN WithPointer(working, i) ELSE working
      BY <1>1, <2>5 DEF WithPointer
    <3> HIDE DEF i
    <3>2. /\ IsShape(s) /\ i \in Instances(s) /\ IsNext(Placed(s, n + 1), Placed(s, n), i)
          /\ working = PatchedStorage(s, Placed(s, n))
      BY <1>2, <2>1, <2>3 DEF IsNext
    <3>3. PatchedStorage(s, Placed(s, n + 1)) =
            IF HostSteps(i) = {} THEN WithPointer(PatchedStorage(s, Placed(s, n)), i)
            ELSE PatchedStorage(s, Placed(s, n))
      BY <3>2, PatchingStorage
    <3> QED BY <3>1, <3>2, <3>3
  <2>9. HasPatched(heap', s, n + 1)
    <3>1. HasPatched(heap, s, n)
      BY <1>2, <2>1 DEF HasPatched
    <3> QED BY <1>2, <2>2, <2>7, <3>1, PatchedHeap
  <2>10. PatchInv'
    BY <1>1, <1>8, <2>2, <2>7, <2>8, <2>9 DEF PatchInv, tripVars, HasPatched
  <2> QED BY <1>1, <1>2, <1>4, <1>5, <1>6, <2>10, StepRevival
<1> QED BY <1>7, <1>8

(* The copy of the patched working copy, made without tracking. *)
LEMMA CopyMakes ==
    ASSUME NEW s, IsShape(s), NEW memory, HasBuffers("working", s, CapturedTracked, memory)
    PROVE  LET object == Filled("working", s, CapturedTracked) IN
           /\ CopyOf("result", s, object, FALSE) = Filled("result", s, Revived)
           /\ BuffersOfCopy("result", s, object, memory, FALSE) =
                FilledBuffers("result", s, Revived)
<1> DEFINE object == Filled("working", s, CapturedTracked)
           at == AddressOf(s, object, memory)
<1>1. CopyOfView(CapturedTracked, FALSE) = Revived
  BY ViewFacts
<1>2. CopyOf("result", s, object, FALSE) = Filled("result", s, Revived)
  <2>1. \A c \in StorageCells(s) : c[1] # "slot" => CopyOfView(object[c], FALSE) = Revived
    BY <1>1 DEF Filled
  <2> HIDE DEF object
  <2> QED BY <2>1 DEF CopyOf, Storage, Filled
<1>3. at = [i \in Instances(s) |-> <<"working", i>>]
  BY FilledMeans
<1>4. ASSUME NEW i \in Instances(s), NEW c \in BufferCells(s, Lambda(i)), c[1] # "slot"
      PROVE  CopyOfView(memory[at[i]][c], FALSE) = Revived
  <2>1. at[i] = <<"working", i>>
    BY <1>3
  <2> HIDE DEF at
  <2>2. memory[at[i]] = FilledBuffer("working", s, CapturedTracked, i)
    BY <2>1 DEF HasBuffers
  <2>3. memory[at[i]][c] = CapturedTracked
    BY <1>4, <2>2 DEF FilledBuffer
  <2> QED BY <1>1, <2>3
<1>5. BuffersOfCopy("result", s, object, memory, FALSE) =
        Buffers("result", s, LAMBDA i, c : CopyOfView(memory[at[i]][c], FALSE))
  BY DEF BuffersOfCopy
<1> HIDE DEF at
<1>6. Buffers("result", s, LAMBDA i, c : CopyOfView(memory[at[i]][c], FALSE)) =
        FilledBuffers("result", s, Revived)
  BY <1>4 DEF Buffers, FilledBuffers, FilledBuffer, Held
<1> QED
  BY <1>2, <1>5, <1>6

(* The working copy when all closures have been patched. *)
LEMMA AllPatched ==
    ASSUME RevivalInv, step = "patch", nextClosure > Len(saved.closures)
    PROVE  /\ shape = kernel.shape /\ result = NoObject /\ IsShape(shape)
           /\ working = Filled("working", shape, CapturedTracked)
           /\ HasBuffers("working", shape, CapturedTracked, heap)
           /\ DOMAIN heap = {"working"} \X Instances(shape) /\ tracking = FALSE /\ InCall
<1> DEFINE N == Len(VisitHdlHostLambdas(shape))
<1>1. InCall /\ IsShape(shape)
  BY ShapesOfCalls DEF InCall
<1>2. result = NoObject /\ tracking = FALSE /\ saved.closures = SavedClosures(shape)
  BY <1>1 DEF RevivalInv, ResultInv, CallInv
<1>3. DOMAIN heap = {"working"} \X Instances(shape)
  BY <1>1, <1>2 DEF RevivalInv, HeapInv
<1>4. Len(saved.closures) = N /\ N \in Nat /\ (shape # {} => N >= 1)
  BY <1>1, <1>2, SizesOfClosures, VisitFacts
<1>5. shape = kernel.shape
  BY <1>4 DEF RevivalInv, PatchInv
<1>6. /\ nextClosure \in 1 .. N + 1
      /\ working = PatchedStorage(shape, Placed(shape, nextClosure))
      /\ \A i \in Placed(shape, nextClosure) :
            heap[<<"working", i>>] = PatchedBuffer(shape, Placed(shape, nextClosure), i)
  BY <1>5 DEF RevivalInv, PatchInv
<1>7. nextClosure = N + 1
  BY <1>4, <1>6
<1>8. Placed(shape, nextClosure) = Instances(shape)
  BY <1>1, <1>7, VisitFacts
<1>9. working = Filled("working", shape, CapturedTracked)
  BY <1>1, <1>6, <1>8, PatchedEnds
<1>10. HasBuffers("working", shape, CapturedTracked, heap)
  BY <1>1, <1>3, <1>6, <1>8, PatchedEnds DEF HasBuffers
<1> QED
  BY <1>1, <1>2, <1>3, <1>5, <1>9, <1>10

(* A copy that throws leaves nothing behind. *)
LEMMA CopyThrowsRevival ==
    ASSUME RevivalInv, CopyThrows, UNCHANGED <<dataVars, tripVars, call, launched>>
    PROVE  RevivalInv'
<1>1. /\ step = "patch" /\ step' = "restore" /\ nextClosure > Len(saved.closures) /\ CopiesThrow
      /\ UNCHANGED <<shape, tracking, disabledTracking, heap, working, saved, nextClosure, result,
                     fault>>
  BY DEF CopyThrows
<1>2. InCall /\ InCall' /\ step' # "idle" /\ result = NoObject
  BY <1>1, AllPatched DEF InCall
<1>3. HeapInv' /\ ResultInv' /\ PatchInv'
  BY <1>1, <1>2 DEF RevivalInv, HeapInv, ResultInv, PatchInv
<1> QED BY <1>1, <1>2, <1>3, StepRevival

(* The copy of the patched working copy is the revived functor. *)
LEMMA CopyResultRevival ==
    ASSUME RevivalInv, CopyResult, UNCHANGED <<dataVars, tripVars, call, launched>>
    PROVE  RevivalInv'
<1>1. /\ step = "patch" /\ step' = "restore" /\ nextClosure > Len(saved.closures)
      /\ UNCHANGED <<shape, tracking, disabledTracking, working, saved, nextClosure>>
  BY DEF CopyResult
<1>2. /\ shape = kernel.shape /\ result = NoObject /\ IsShape(shape)
      /\ working = Filled("working", shape, CapturedTracked)
      /\ HasBuffers("working", shape, CapturedTracked, heap)
      /\ DOMAIN heap = {"working"} \X Instances(shape) /\ tracking = FALSE /\ InCall
  BY <1>1, AllPatched
<1>3. ~ CopyFaults(shape, working, heap, FALSE)
  BY <1>2, FilledIsSafe
<1>4. /\ result' = CopyOf("result", shape, working, FALSE)
      /\ heap' = HeapWith(heap, BuffersOfCopy("result", shape, working, heap, FALSE))
      /\ fault' = fault
  BY <1>2, <1>3 DEF CopyResult
<1> DEFINE new == FilledBuffers("result", shape, Revived)
<1>5. result' = Filled("result", shape, Revived) /\ heap' = HeapWith(heap, new)
  BY <1>2, <1>4, CopyMakes
<1>6. DOMAIN new = {"result"} \X Instances(shape)
  BY DEF FilledBuffers
<1>7. HasBuffers("result", shape, Revived, new)
  BY FilledHasBuffers
<1>8. result' # NoObject
  BY <1>2, <1>5, <1>7, FilledMeans
<1> HIDE DEF new
<1>9. /\ heap' = [a \in DOMAIN heap' |-> heap'[a]]
      /\ DOMAIN heap' = ({"working"} \X Instances(shape)) \cup ({"result"} \X Instances(shape))
      /\ HasBuffers("result", shape, Revived, heap')
  BY <1>2, <1>5, <1>6, <1>7 DEF HeapWith, HasBuffers
<1>10. InCall' /\ step' # "idle"
  BY <1>1 DEF InCall
<1>11. HeapInv' /\ ResultInv' /\ PatchInv'
  BY <1>1, <1>2, <1>5, <1>8, <1>9, <1>10 DEF HeapInv, ResultInv, PatchInv, tripVars
<1> QED BY <1>1, <1>2, <1>4, <1>10, <1>11, StepRevival

(* The working copy is whole again when it is destroyed, and what is left  *)
(* on the heap is the functor to be returned.                              *)
LEMMA RestoredMeans ==
    ASSUME RevivalInv, step = "restore"
    PROVE  /\ ~ DestroyFaults(shape, Restored[1], Restored[2])
           /\ HeapWithout(shape, Restored[1], Restored[2]) =
                [a \in IF result = NoObject THEN {} ELSE {"result"} \X Instances(shape) |-> heap[a]]
<1> DEFINE s == shape  V == VisitHdlHostLambdas(s)  closures == saved.closures
           buffers == FilledBuffers("working", s, OfProgram)
           memory == WrittenBack(heap, closures)
           left == IF result = NoObject THEN {} ELSE {"result"} \X Instances(s)
<1>1. /\ InCall /\ IsShape(s)
  BY ShapesOfCalls DEF InCall
<1>2. /\ saved.original = Filled("working", s, OfProgram) /\ closures = SavedClosures(s)
      /\ heap = [a \in DOMAIN heap |-> heap[a]]
      /\ DOMAIN heap = ({"working"} \X Instances(s)) \cup left
  BY <1>1 DEF RevivalInv, CallInv, HeapInv
<1>3. Restored[1] = Filled("working", s, OfProgram) /\ Restored[2] = memory
  BY <1>2 DEF Restored
<1>4. /\ closures \in Seq(Range(closures)) /\ Len(closures) = Len(V)
      /\ \A n \in 1 .. Len(V) : closures[n] = SavedClosure(s, V[n])
      /\ \A n \in 1 .. Len(V) : V[n] \in Instances(s)
      /\ \A i \in Instances(s) : \E n \in 1 .. Len(V) : V[n] = i
  BY <1>1, <1>2, SizesAgree, VisitFacts
<1>5. \A i : /\ SavedClosure(s, i).buffer = <<"working", i>>
             /\ SavedClosure(s, i).original = FilledBuffer("working", s, OfProgram, i)
  BY DEF SavedClosure
<1>6. \A i \in Instances(s) : buffers[<<"working", i>>] = FilledBuffer("working", s, OfProgram, i)
  BY DEF FilledBuffers
<1> HIDE DEF closures, buffers, V
<1>7. \A k \in 1 .. Len(closures) :
        /\ closures[k].buffer = <<"working", V[k]>>
        /\ closures[k].original = buffers[closures[k].buffer]
  <2>1. SUFFICES ASSUME NEW k \in 1 .. Len(closures)
                 PROVE  /\ closures[k].buffer = <<"working", V[k]>>
                        /\ closures[k].original = buffers[closures[k].buffer]
    BY Zenon
  <2>2. closures[k] = SavedClosure(s, V[k]) /\ V[k] \in Instances(s)
    BY <1>4
  <2>3. /\ closures[k].buffer = <<"working", V[k]>>
        /\ closures[k].original = FilledBuffer("working", s, OfProgram, V[k])
    BY <1>5, <2>2
  <2> QED BY <1>6, <2>2, <2>3
<1>8. /\ DOMAIN memory = DOMAIN heap
      /\ \A a \in DOMAIN heap : memory[a] = IF \E k \in 1 .. Len(closures) : a = closures[k].buffer
                                           THEN buffers[a] ELSE heap[a]
  <2>1. \A k \in 1 .. Len(closures) : closures[k].original = buffers[closures[k].buffer]
    BY <1>7
  <2>2. closures \in Seq(Range(closures)) /\ IsMemory(heap)
    BY <1>2, <1>4 DEF IsMemory
  <2> QED BY <2>1, <2>2, WrittenBackMeans
<1> HIDE DEF memory, left, s
<1>9. DOMAIN memory = DOMAIN heap
  BY <1>8
<1>10. HasBuffers("working", s, OfProgram, memory)
  <2>1. SUFFICES ASSUME NEW i \in Instances(s)
                 PROVE  /\ <<"working", i>> \in DOMAIN memory
                        /\ memory[<<"working", i>>] = FilledBuffer("working", s, OfProgram, i)
    BY DEF HasBuffers
  <2>2. <<"working", i>> \in DOMAIN heap
    BY <1>2
  <2>3. \E k \in 1 .. Len(closures) : <<"working", i>> = closures[k].buffer
    BY <1>4, <1>7
  <2> QED BY <1>6, <1>8, <1>9, <2>2, <2>3
<1> DEFINE rest == HeapWithout(s, Filled("working", s, OfProgram), memory)
<1>11. /\ ~ DestroyFaults(s, Filled("working", s, OfProgram), memory)
       /\ rest = Restrict(memory, DOMAIN rest)
       /\ \A a : a \in DOMAIN rest <=> a \in DOMAIN memory /\ a \notin {"working"} \X Instances(s)
  <2>1. IsShape(s) /\ ~ IsForeign(OfProgram)
    BY <1>1, ViewFacts DEF s
  <2> QED BY <1>10, <2>1, FilledIsSafe
<1> HIDE DEF rest
<1>12. DOMAIN rest = left
  <2>1. \A a \in left : a \notin {"working"} \X Instances(s)
    BY DEF left
  <2> QED BY <1>2, <1>9, <1>11, <2>1
<1>13. ASSUME NEW a \in left PROVE memory[a] = heap[a]
  <2>1. a[1] = "result" /\ a \in DOMAIN heap
    BY <1>2 DEF left
  <2>2. ~ \E k \in 1 .. Len(closures) : a = closures[k].buffer
    BY <1>7, <2>1
  <2> QED BY <1>8, <2>1, <2>2
<1>14. rest = [a \in left |-> heap[a]]
  BY <1>11, <1>12, <1>13 DEF Restrict
<1> QED
  BY <1>3, <1>11, <1>14 DEF left, s, rest

(* The working copy is destroyed as the program made it. *)
LEMMA EndRevival ==
    ASSUME RevivalInv, EndReplayFunctor, UNCHANGED <<dataVars, tripVars, call, launched>>
    PROVE  RevivalInv'
<1> DEFINE left == IF result = NoObject THEN {} ELSE {"result"} \X Instances(shape)
<1>1. /\ step = "restore" /\ step' = (IF result = NoObject THEN "threw" ELSE "returned")
      /\ UNCHANGED <<shape, result>> /\ disabledTracking' = FALSE
      /\ tracking' = (tracking \/ disabledTracking)
      /\ fault' = (fault \/ DestroyFaults(shape, Restored[1], Restored[2]))
      /\ heap' = HeapWithout(shape, Restored[1], Restored[2])
  BY DEF EndReplayFunctor, EnableTracking
<1>2. fault' = FALSE /\ heap' = [a \in left |-> heap[a]]
  BY <1>1, RestoredMeans DEF RevivalInv
<1>3. step' \in {"threw", "returned"} /\ ~ InCall' /\ InCall /\ tracking' \in BOOLEAN
  BY <1>1 DEF InCall, RevivalInv
<1>4. HeapInv'
  BY <1>1, <1>2, <1>3 DEF HeapInv
<1>5. CallInv'
  BY <1>1, <1>3 DEF RevivalInv, CallInv, tripVars, IsToldApart
<1>6. ResultInv'
  <2>1. SUFFICES ASSUME result # NoObject PROVE ResultInv'
    BY <1>1 DEF ResultInv
  <2>2. /\ result = Filled("result", shape, Revived) /\ shape = kernel.shape
        /\ HasBuffers("result", shape, Revived, heap)
    BY <2>1 DEF RevivalInv, ResultInv
  <2>3. HasBuffers("result", shape, Revived, heap')
    BY <1>2, <2>1, <2>2 DEF HasBuffers
  <2> QED BY <1>1, <2>1, <2>2, <2>3 DEF ResultInv, tripVars
<1>7. PatchInv' /\ DumpIsCaptured'
  BY <1>1 DEF RevivalInv, PatchInv, DumpIsCaptured, tripVars, dataVars
<1> QED
  BY <1>1, <1>2, <1>3, <1>4, <1>5, <1>6, <1>7 DEF RevivalInv, tripVars

(* What Kokkos launches is the revived functor. *)
LEMMA LaunchRevival == RevivalInv /\ Launch => RevivalInv'
<1>1. SUFFICES ASSUME RevivalInv, Launch PROVE RevivalInv'
  OBVIOUS
<1>2. /\ step \in {"returned", "threw"}
      /\ UNCHANGED <<dataVars, tripVars, shape, step, tracking, disabledTracking, heap,
                     working, saved, nextClosure, result>>
  BY <1>1 DEF Launch
<1>3. fault' = FALSE /\ (launched' # NotLaunched => launched'.functor)
  <2>1. CASE step = "returned" /\ IsLaunched
    <3>1. result # NoObject /\ IsShape(shape)
      BY <1>1, <1>2, <2>1, ShapesOfCalls DEF RevivalInv, PatchInv
    <3>2. result = Filled("result", shape, Revived) /\ HasBuffers("result", shape, Revived, heap)
      BY <1>1, <3>1 DEF RevivalInv, ResultInv
    <3>3. /\ IsRevived(shape, result, heap) /\ ~ CopyFaults(shape, result, heap, TRUE)
          /\ ~ CopyFaults(shape, result, heap, FALSE)
      BY <3>1, <3>2, FilledIsSafe, ViewFacts
    <3>4. tracking \in BOOLEAN /\ fault = FALSE
      BY <1>1 DEF RevivalInv
    <3>5. /\ launched'.functor = IsRevived(shape, result, heap)
          /\ fault' = (fault \/ CopyFaults(shape, result, heap, tracking))
      BY <1>1, <2>1 DEF Launch
    <3>6. ~ CopyFaults(shape, result, heap, tracking)
      BY <3>3, <3>4
    <3> QED BY <3>3, <3>4, <3>5, <3>6
  <2>2. CASE ~(step = "returned" /\ IsLaunched)
    BY <1>1, <2>2 DEF Launch, RevivalInv
  <2> QED BY <2>1, <2>2
<1>4. DumpIsCaptured' /\ CallInv' /\ HeapInv' /\ ResultInv' /\ PatchInv'
  BY <1>1, <1>2 DEF RevivalInv, DumpIsCaptured, CallInv, HeapInv, ResultInv, PatchInv, dataVars,
                    tripVars, InCall, IsToldApart
<1> QED
  BY <1>1, <1>2, <1>3, <1>4 DEF RevivalInv, tripVars

(* The revived functor is destroyed with its buffers. *)
LEMMA ReturnRevival == RevivalInv /\ Return => RevivalInv'
<1>1. SUFFICES ASSUME RevivalInv, Return PROVE RevivalInv'
  OBVIOUS
<1>2. /\ step \in {"returned", "threw"} /\ step' = "idle" /\ result' = NoObject
      /\ fault' = (fault \/ (result # NoObject /\ DestroyFaults(shape, result, heap)))
      /\ heap' = IF result = NoObject THEN heap ELSE HeapWithout(shape, result, heap)
      /\ UNCHANGED <<tracking, disabledTracking>> /\ launched' = NotLaunched
      /\ UNCHANGED <<dataVars, tripVars>>
  BY <1>1 DEF Return, DestroyResult
<1>3. ~ InCall /\ ~ InCall' /\ IsShape(shape)
  BY <1>1, <1>2, ShapesOfCalls DEF InCall
<1>4. fault' = FALSE /\ heap' = [a \in {} |-> heap[a]]
  <2>1. CASE result = NoObject
    <3>1. heap = [a \in DOMAIN heap |-> heap[a]] /\ DOMAIN heap = {} /\ fault = FALSE
      BY <1>1, <1>3, <2>1 DEF RevivalInv, HeapInv
    <3> QED BY <1>2, <2>1, <3>1
  <2>2. CASE result # NoObject
    <3> DEFINE left == HeapWithout(shape, result, heap)
    <3>1. result = Filled("result", shape, Revived) /\ HasBuffers("result", shape, Revived, heap)
      BY <1>1, <2>2 DEF RevivalInv, ResultInv
    <3>2. /\ ~ DestroyFaults(shape, result, heap) /\ left = Restrict(heap, DOMAIN left)
          /\ \A a : a \in DOMAIN left <=>
                     a \in DOMAIN heap /\ a \notin {"result"} \X Instances(shape)
      BY <1>3, <3>1, FilledIsSafe, ViewFacts
    <3>3. DOMAIN heap = {"result"} \X Instances(shape)
      BY <1>1, <1>3, <2>2 DEF RevivalInv, HeapInv
    <3> HIDE DEF left
    <3>4. DOMAIN left = {}
      BY <3>2, <3>3
    <3>5. left = [a \in {} |-> heap[a]]
      BY <3>2, <3>4 DEF Restrict
    <3> QED BY <1>1, <1>2, <2>2, <3>2, <3>5 DEF RevivalInv, left
  <2> QED BY <2>1, <2>2
<1>5. HeapInv' /\ ResultInv' /\ PatchInv' /\ CallInv'
  BY <1>1, <1>2, <1>3, <1>4 DEF RevivalInv, HeapInv, ResultInv, PatchInv, CallInv
<1>6. DumpIsCaptured'
  BY <1>1, <1>2 DEF RevivalInv, DumpIsCaptured, dataVars, tripVars
<1> QED
  BY <1>1, <1>2, <1>4, <1>5, <1>6 DEF RevivalInv, tripVars

(* So every step keeps it. *)
LEMMA RevivalNext == RevivalInv /\ [Next]_vars => RevivalInv'
<1>1. SUFFICES ASSUME RevivalInv, [Next]_vars PROVE RevivalInv'
  OBVIOUS
<1>2. CASE Capture
  BY <1>1, <1>2, CaptureRevival
<1>3. CASE Load
  BY <1>1, <1>3, LoadRevival
<1>4. ASSUME NEW s \in Shapes, NEW accepts \in Arities, NEW forced \in BOOLEAN,
             ParallelFor(s, accepts, forced)
      PROVE  RevivalInv'
  BY <1>1, <1>4, ParallelForRevival
<1>5. ASSUME ReplayFunctorStep, UNCHANGED <<dataVars, tripVars, call, launched>> PROVE RevivalInv'
  BY <1>1, <1>5, InitFunctorRevival, PatchClosureRevival, CopyResultRevival, CopyThrowsRevival,
     EndRevival DEF ReplayFunctorStep
<1>6. CASE Launch
  BY <1>1, <1>6, LaunchRevival
<1>7. CASE Return
  BY <1>1, <1>7, ReturnRevival
<1>8. CASE UNCHANGED vars
  <2>1. UNCHANGED <<dataVars, restoreVars, kernel>> /\ phase' = phase /\ launched' = launched
    BY <1>8 DEF vars
  <2>2. launched' # NotLaunched => launched'.functor
    BY <1>1, <2>1 DEF RevivalInv
  <2> QED BY <1>1, <2>1, <2>2, FrameRevival
<1> QED
  BY <1>1, <1>2, <1>3, <1>4, <1>5, <1>6, <1>7, <1>8 DEF Next, CallStep

(* It holds throughout. *)
LEMMA RevivalInvariant == Spec => []RevivalInv
  BY RevivalInit, RevivalNext, PTL DEF Spec

-----------------------------------------------------------------------------
(* What the invariants say of every program.                               *)

(* What a replay launches is the captured functor: however its extended    *)
(* lambdas are nested, each has a host buffer of its own, every View is    *)
(* the captured one, and the policy is the captured one or the forced one. *)
THEOREM EveryLaunchIsAsCaptured == Spec => []LaunchedAsCaptured
<1>1. PolicyInv /\ RevivalInv => LaunchedAsCaptured
  BY DEF PolicyInv, RevivalInv, LaunchedAsCaptured
<1> QED
  BY <1>1, PolicyInvariant, RevivalInvariant, PTL

(* No replay follows or frees a pointer of the captured process or counts  *)
(* one of its references, whether tracking was enabled before the call or  *)
(* not: not when the sizes tell another functor after the first pointer    *)
(* was patched, and not when the copy of the functor throws.               *)
THEOREM NoReplayFollowsAForeignPointer == Spec => []NoForeignAccess
<1>1. RevivalInv => NoForeignAccess
  BY DEF RevivalInv, NoForeignAccess
<1> QED
  BY <1>1, RevivalInvariant, PTL

(* A functor that the sizes tell from the captured one is never revived,   *)
(* the captured one is refused only when its copy throws, and its dump and *)
(* its launch only for the policy.                                         *)
THEOREM RefusedExactlyIfUnsupportedAlways == Spec => []RefusedExactlyIfUnsupported
<1>1. RevivalInv /\ PolicyIsKept => RefusedExactlyIfUnsupported
  BY DEF RevivalInv, ResultInv, PatchInv, RefusedExactlyIfUnsupported, PolicyIsKept
<1> QED
  BY <1>1, RevivalInvariant, LaunchedWithItsPolicy, PTL

(* When replay_functor has returned or thrown, and when its functor is     *)
(* gone, no other buffer is on the heap and Kokkos tracks allocations as   *)
(* it did before the call.                                                 *)
THEOREM EveryReplayLeavesNoTrace == Spec => ReplayLeavesNoTrace
<1> DEFINE NoTrace ==
        step' \in {"idle", "threw", "returned"} =>
          /\ tracking' = (tracking \/ disabledTracking)
          /\ DOMAIN heap' = IF result' = NoObject THEN {} ELSE {"result"} \X Instances(shape')
<1>1. ASSUME RevivalInv, RevivalInv', [Next]_vars PROVE [NoTrace]_restoreVars
  <2>1. SUFFICES ASSUME step' \in {"idle", "threw", "returned"}, ~ UNCHANGED restoreVars
                 PROVE  NoTrace
    OBVIOUS
  <2>2. ~ InCall'
    BY <2>1 DEF InCall
  <2>3. DOMAIN heap' = IF result' = NoObject THEN {} ELSE {"result"} \X Instances(shape')
    BY <1>1, <2>2 DEF RevivalInv, HeapInv
  <2>4. CASE /\ UNCHANGED <<tracking, disabledTracking>>
             /\ step \notin {"initFunctor", "patch", "restore"}
    <3>1. disabledTracking = FALSE /\ tracking \in BOOLEAN
      BY <1>1, <2>4 DEF RevivalInv, CallInv, InCall
    <3> QED BY <2>3, <2>4, <3>1
  <2>5. CASE EndReplayFunctor
    BY <2>3, <2>5 DEF EndReplayFunctor, EnableTracking
  <2>6. ASSUME Capture \/ Load PROVE FALSE
    BY <2>1, <2>6 DEF Capture, Load
  <2>7. ASSUME NEW s \in Shapes, NEW accepts \in Arities, NEW forced \in BOOLEAN,
               ParallelFor(s, accepts, forced)
        PROVE  FALSE
    BY <2>1, <2>7 DEF ParallelFor, BeginReplayFunctor
  <2>8. ASSUME InitFunctor \/ PatchClosure \/ CopyResult \/ CopyThrows PROVE FALSE
    BY <2>1, <2>8 DEF InitFunctor, PatchClosure, CopyResult, CopyThrows
  <2>9. CASE Launch \/ Return
    BY <2>4, <2>9 DEF Launch, Return, DestroyResult
  <2>10. ~ UNCHANGED vars
    BY <2>1 DEF vars
  <2> QED
    BY <1>1, <2>5, <2>6, <2>7, <2>8, <2>9, <2>10 DEF Next, CallStep, ReplayFunctorStep
<1> QED
  BY <1>1, RevivalInvariant, PTL DEF Spec, ReplayLeavesNoTrace

=============================================================================
