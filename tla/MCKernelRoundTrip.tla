------------------------- MODULE MCKernelRoundTrip -------------------------
(* Small instances of KernelRoundTrip.                                     *)
EXTENDS KernelRoundTrip

(* Integers of 4, 8, 16 and 32 values stand for those of 1, 2, 4 and 8 bytes. *)
MCSpan == [s \in Sizes |-> 4 * s]

Limits(index) == {v \in -16 .. 31 : v \in Values(index)
                     /\ (v - 1 \notin Values(index) \/ v + 1 \notin Values(index) \/ v \in {-1, 1})}

Ranges ==
    UNION {{[kind |-> "range", index |-> t, space |-> "Serial", schedule |-> "static",
             begin |-> Min(l), end |-> Max(l), chunk |-> 1] :
               l \in {m \in SUBSET Limits(t) : Cardinality(m) \in 1 .. 2}} : t \in IndexTypes}

MDRange(rank, space, outer, inner) ==
    [kind |-> "mdrange", index |-> [size |-> 4, signed |-> TRUE], space |-> space,
     schedule |-> "dynamic", outer |-> outer, inner |-> inner,
     begin |-> [i \in 1 .. rank |-> -i], end |-> [i \in 1 .. rank |-> 3 * i],
     tile |-> [i \in 1 .. rank |-> i]]
MDRanges == {MDRange(r, "Serial", "left", d) : r \in 1 .. 3, d \in Directions}
                \cup {MDRange(6, "OpenMP", "right", "left"), MDRange(2, "Cuda", "left", "left")}

Team(space, teamSize, vectorLength, scratch) ==
    [kind |-> "team", index |-> [size |-> 2, signed |-> FALSE], space |-> space,
     schedule |-> "static", teamSize |-> teamSize, leagueSize |-> 4,
     vectorLength |-> vectorLength, chunk |-> 1,
     scratch |-> [s \in ScratchKinds |-> IF s = "thread1" THEN scratch ELSE 0]]
Teams == {Team(s, t, v, n) : s \in {"Serial", "OpenMP"}, t, v \in {AUTO, 1}, n \in {0, 2}}

MCPolicies == {[kind |-> "scalar", end |-> n] : n \in {0, 31}} \cup Ranges \cup MDRanges \cup Teams

(* A plain functor, lambdas nested twice, and one that captures two. *)
MCShapes == {{}, {<< >>}, {<< >>, <<1>>}, {<< >>, <<1>>, <<2>>}, {<< >>, <<1>>, <<1, 1>>}}
MCKernels == [policy : MCPolicies, shape : {{}}]
                 \cup [policy : {Monostate, MDRange(2, "Serial", "left", "right")}, shape : MCShapes]
MCArities == {{"1"}, {"2", "6"}, {"team"}}
=============================================================================
