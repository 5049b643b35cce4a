---------------------------- MODULE MCPluginWalk ----------------------------
(* Small programs for PluginWalk.                                          *)
EXTENDS PluginWalk

Record(bases, fields) ==
    [kind |-> "record", name |-> "Functor", scope |-> "other", bases |-> bases,
     fields |-> fields, of |-> "int"]
Named(name, scope, fields) == [Record(<< >>, fields) EXCEPT !.name = name, !.scope = scope]
Other(kind, of) == [Record(<< >>, << >>) EXCEPT !.kind = kind, !.of = of]

MCTypeDef ==
    [t \in {"int", "View", "OtherView", "ViewRef", "PairRef", "FlatRef", "Empty", "Pair", "Flat",
            "Nested", "WithRefs", "Derived", "InArray", "Array"} |->
       CASE t = "int"       -> Other("scalar", "int")
         [] t = "View"      -> Named("View", "Kokkos", <<"int", "View">>)
         [] t = "OtherView" -> Named("View", "other", <<"int", "View">>)
         [] t = "ViewRef"   -> Other("reference", "View")
         [] t = "PairRef"   -> Other("reference", "Pair")
         [] t = "FlatRef"   -> Other("reference", "Flat")
         [] t = "Empty"     -> Record(<< >>, <<"int">>)
         [] t = "Pair"      -> Record(<< >>, <<"View", "View">>)
         [] t = "Flat"      -> Record(<< >>, <<"View", "int", "OtherView">>)
         [] t = "Nested"    -> Record(<< >>, <<"Empty", "Pair", "View", "Flat">>)
         [] t = "WithRefs"  -> Record(<< >>, <<"ViewRef", "View", "Pair", "PairRef">>)
         [] t = "Derived"   -> Record(<<"Pair", "Flat">>, <<"View">>)
         [] t = "Array"     -> Other("array", "View")
         [] t = "InArray"   -> Record(<< >>, <<"Array", "View">>)]

MCFunctors == {"Empty", "FlatRef", "Nested", "WithRefs", "Derived", "InArray"}

(* In WithRefs the references are to its second and third fields. *)
MCReferent ==
    [f \in MCFunctors |->
       IF f = "WithRefs"
       THEN [p \in {<<Step("field", 1)>>, <<Step("field", 4)>>} |->
               IF p = <<Step("field", 1)>> THEN <<Step("field", 2)>> ELSE <<Step("field", 3)>>]
       ELSE << >>]
=============================================================================
