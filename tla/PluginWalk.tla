----------------------------- MODULE PluginWalk -----------------------------
(***************************************************************************)
(* The compiler plugins (compiler_plugins/clang.cpp, gcc.cpp).  When the   *)
(* compiler meets an instance of krepe::replay_functor, the plugin walks   *)
(* over the type of the functor, collects an expression for every          *)
(* Kokkos::View in it, and prepends calls to the body of the function:     *)
(* clear_registered_views, and register_view for each.  The compiled       *)
(* program executes these bodies whenever it is about to launch.           *)
(*                                                                         *)
(* A type is a record [kind, name, scope, bases, fields, of]; an           *)
(* expression is the path of bases, fields and elements it goes through.   *)
(* A field that is a reference refers to an object elsewhere in the same   *)
(* functor, as the NOTE in gcc.cpp assumes.                                *)
(***************************************************************************)
EXTENDS Naturals, Sequences, FiniteSets, SequencesExt, Functions

CONSTANTS
    TypeDef,       \* the types of the program, by name
    Functors,      \* parameter types of the instances of replay_functor
    Referent,      \* path of the object that a reference in a functor refers to
    Plugins,       \* which plugin compiles the program: "gcc" or "clang"
    MaxCalls       \* bound on the calls of replay_functor

ASSUME PluginAssumption ==
    /\ Functors \subseteq DOMAIN TypeDef
    /\ Plugins \subseteq {"gcc", "clang"} /\ MaxCalls \in Nat

VARIABLES
    plugin,
    toCompile,           \* functors whose replay_functor the compiler has not met
    functor,             \* the functor of the walk or of the call in progress
    toVisit,             \* what the recursion of the walk has left: types with their path
    views,               \* the expressions that were found
    body,                \* statements of replay_functor, by functor
    pc,                  \* statements of the call in progress that were executed, plus one
    registeredViews,     \* data pointers registered in the capture library
    calls

vars == <<plugin, toCompile, functor, toVisit, views, body, pc, registeredViews, calls>>

Nothing == "nothing"

Init ==
    /\ plugin \in Plugins
    /\ toCompile = Functors
    /\ functor = Nothing /\ toVisit = << >> /\ views = << >>
    /\ body = << >> /\ pc = 0 /\ registeredViews = {} /\ calls = 0

-----------------------------------------------------------------------------
(* The walk.                                                               *)

(* get_canonical_type, and the test for REFERENCE_TYPE in ast_callback. *)
NonReference(t) == IF TypeDef[t].kind = "reference" THEN TypeDef[t].of ELSE t

(* visit_view *)
IsView(t) ==
    TypeDef[t].kind = "record" /\ TypeDef[t].name = "View" /\ TypeDef[t].scope = "Kokkos"

(* The types of which an object has parts that a walk could go into. *)
PartTypes(t) ==
    CASE TypeDef[t].kind = "array" -> {TypeDef[t].of}
      [] TypeDef[t].kind = "record" /\ ~IsView(t) ->
           Range(TypeDef[t].bases) \cup Range(TypeDef[t].fields)
      [] OTHER -> {}

(* No object is a part of itself. *)
ASSUME TypesAssumption ==
    /\ Nothing \notin Functors
    /\ \A t \in DOMAIN TypeDef :
         /\ {TypeDef[t].bases, TypeDef[t].fields} \subseteq Seq(DOMAIN TypeDef)
         /\ TypeDef[t].of \in DOMAIN TypeDef
    /\ \A S \in SUBSET DOMAIN TypeDef : S # {} => \E t \in S : PartTypes(t) \cap S = {}

Step(kind, n) == <<kind, n>>
Paths(path, kind, types) ==
    [n \in DOMAIN types |-> [type |-> types[n], path |-> Append(path, Step(kind, n))]]

(* TYPE_FIELDS of gcc starts with the bases, fields() of clang does not    *)
(* have them.                                                              *)
MembersOf(t, path) ==
    (IF plugin = "gcc" THEN Paths(path, "base", TypeDef[t].bases) ELSE << >>)
        \o Paths(path, "field", TypeDef[t].fields)

(* The compiler meets replay_functor for a functor; the plugin aborts the  *)
(* compilation if that is not a record.  The walk of gcc starts with the   *)
(* functor, the one of clang with its fields.                              *)
BeginPatch(f) ==
    /\ functor = Nothing /\ f \in toCompile
    /\ TypeDef[NonReference(f)].kind = "record"
    /\ toCompile' = toCompile \ {f}
    /\ functor' = f
    /\ toVisit' = LET t == NonReference(f)
                  IN  IF plugin = "gcc" THEN <<[type |-> t, path |-> << >>]>>
                      ELSE MembersOf(t, << >>)
    /\ UNCHANGED <<plugin, views, body, pc, registeredViews, calls>>

(* The walk returns from a member. *)
Remaining == Tail(toVisit)

(* One call of visit: a View is noted, another record is descended into,   *)
(* and anything else is left alone, arrays and, by gcc, references         *)
(* included.                                                               *)
VisitMember ==
    /\ functor # Nothing /\ pc = 0 /\ toVisit # << >>
    /\ LET member == Head(toVisit)
           t == IF plugin = "clang" THEN NonReference(member.type) ELSE member.type
       IN  /\ toVisit' = IF TypeDef[t].kind = "record" /\ ~IsView(t)
                         THEN MembersOf(t, member.path) \o Remaining ELSE Remaining
           /\ views' = IF IsView(t) THEN Append(views, member.path) ELSE views
    /\ UNCHANGED <<plugin, toCompile, functor, body, pc, registeredViews, calls>>

\* Mutant: the registered Views are not cleared.
PatchedBody_NoClear == [n \in DOMAIN views |-> <<"register_view", views[n]>>]

(* The statements before those of replay_functor itself. *)
PatchedBody ==
    <<<<"clear_registered_views", << >>>>>> \o [n \in DOMAIN views |-> <<"register_view", views[n]>>]

(* The end of patch_replay_functor or ast_callback. *)
EndPatch ==
    /\ functor # Nothing /\ pc = 0 /\ toVisit = << >>
    /\ body' = [f \in DOMAIN body \cup {functor} |->
                  IF f = functor THEN Append(PatchedBody, <<"copy_functor", << >>>>) ELSE body[f]]
    /\ functor' = Nothing /\ views' = << >>
    /\ UNCHANGED <<plugin, toCompile, toVisit, pc, registeredViews, calls>>

-----------------------------------------------------------------------------
(* The compiled program.                                                   *)

(* The data of the View that an expression evaluates to. *)
DataOf(f, path) ==
    LET refs == {p \in DOMAIN Referent[f] : IsPrefix(p, path)}
        ref == CHOOSE p \in refs : TRUE
    IN  <<f, IF refs = {} THEN path
             ELSE Referent[f][ref] \o SubSeq(path, Len(ref) + 1, Len(path))>>

CallReplayFunctor(f) ==
    /\ toCompile = {} /\ functor = Nothing /\ pc = 0 /\ calls < MaxCalls
    /\ functor' = f /\ pc' = 1 /\ calls' = calls + 1
    /\ UNCHANGED <<plugin, toCompile, toVisit, views, body, registeredViews>>

(* The next statement of the call; the last one is its own body. *)
ExecuteStatement ==
    /\ pc > 0 /\ pc <= Len(body[functor])
    /\ LET statement == body[functor][pc]
       IN  registeredViews' =
             CASE statement[1] = "clear_registered_views" -> {}
               [] statement[1] = "register_view" ->
                    registeredViews \cup {DataOf(functor, statement[2])}
               [] OTHER -> registeredViews
    /\ pc' = pc + 1
    /\ UNCHANGED <<plugin, toCompile, functor, toVisit, views, body, calls>>

(* The kernel is launched with the registered Views. *)
Return ==
    /\ pc > 0 /\ pc > Len(body[functor])
    /\ functor' = Nothing /\ pc' = 0
    /\ UNCHANGED <<plugin, toCompile, toVisit, views, body, registeredViews, calls>>

PluginStep == VisitMember \/ EndPatch \/ \E f \in Functors : BeginPatch(f)
ProgramStep == ExecuteStatement \/ Return

Next == PluginStep \/ ProgramStep \/ \E f \in Functors : CallReplayFunctor(f)

Spec == Init /\ [][Next]_vars

-----------------------------------------------------------------------------
(* Properties.                                                             *)

(* The paths of the Views that an object of a type contains, in its bases, *)
(* its fields and its elements; references contain nothing.                *)
ContainedIn ==
    LET views_of[t \in DOMAIN TypeDef] ==
          LET Under(kind, types) ==
                UNION {{<<Step(kind, n)>> \o p : p \in views_of[types[n]]} : n \in DOMAIN types}
          IN  CASE IsView(t) -> {<< >>}
                [] TypeDef[t].kind = "array" -> Under("element", <<TypeDef[t].of>>)
                [] TypeDef[t].kind = "record" /\ ~IsView(t) ->
                     Under("base", TypeDef[t].bases) \cup Under("field", TypeDef[t].fields)
                [] OTHER -> {}
    IN  views_of
ViewsContained(f) == {<<f, path>> : path \in ContainedIn[NonReference(f)]}

(* What the plugins can name: gcc no element of an array, clang no base    *)
(* either.                                                                 *)
CanName(path) ==
    \A n \in DOMAIN path : path[n][1] \in IF plugin = "gcc" THEN {"base", "field"} ELSE {"field"}

IsLaunching == pc > 0 /\ pc > Len(body[functor])

(* The members that clang visits in an object of a type. *)
ReachedIn ==
    LET reached[t \in DOMAIN TypeDef] ==
          LET fields == TypeDef[t].fields
          IN  {[path |-> << >>, type |-> t]} \cup
              CASE TypeDef[t].kind = "reference" -> reached[TypeDef[t].of]
                [] TypeDef[t].kind = "record" /\ ~IsView(t) ->
                     UNION {{[path |-> <<Step("field", n)>> \o m.path, type |-> m.type] :
                               m \in reached[fields[n]]} : n \in DOMAIN fields}
                [] OTHER -> {}
    IN  reached

AllPaths == Seq({"base", "field", "element"} \X Nat)
OnlyFields(path) == \A n \in DOMAIN path : path[n][1] = "field"

(* A reference that clang visits refers to an object that the functor      *)
(* contains in its fields, with the Views of its type; it contains none    *)
(* itself, and there is no other reference behind it.  A View is no        *)
(* functor.  The NOTE in gcc.cpp asks only that a reference to a View is   *)
(* one to a View of the functor.  This is stronger: it leaves out          *)
(* references into bases, references behind references, and a reference    *)
(* back to an enclosing record, on which the walk of clang, which strips   *)
(* references, would never end.                                            *)
ASSUME ReferentAssumption ==
    \A f \in Functors :
        LET contained == ContainedIn[NonReference(f)]
            Refers(m) == TypeDef[m.type].kind = "reference"
        IN  /\ \A p \in DOMAIN Referent[f] : {p, Referent[f][p]} \subseteq AllPaths
            /\ \A p, q \in DOMAIN Referent[f] : IsPrefix(p, q) => p = q
            /\ \A p \in DOMAIN Referent[f], q \in contained : ~IsPrefix(p, q)
            /\ "clang" \in Plugins =>
                 /\ ~IsView(NonReference(f))
                 /\ \A m \in {n \in ReachedIn[NonReference(f)] : Refers(n)} :
                      /\ m.path \in DOMAIN Referent[f] /\ OnlyFields(Referent[f][m.path])
                      /\ \A q \in ContainedIn[TypeDef[m.type].of] :
                           Referent[f][m.path] \o q \in contained

(* When a kernel is about to be launched, the Views registered for it are  *)
(* the ones contained in its functor, however deep, and none of an earlier *)
(* functor or of another class called View; except Views in arrays, and in *)
(* bases for clang.  gcc registers none behind a reference; clang follows  *)
(* references, which by ReferentAssumption lead back into the functor.     *)
RegisteredAreContained ==
    IsLaunching => registeredViews = {v \in ViewsContained(functor) : CanName(v[2])}

(* "We iterate recursively on the functor type to get the view it and its  *)
(* subobject contain" (gcc.cpp): every View that the functor contains is   *)
(* registered, and its allocation is dumped.                               *)
ContainedViews == IsLaunching => ViewsContained(functor) \subseteq registeredViews

=============================================================================
