-------------------------- MODULE PluginWalk_proofs --------------------------
(***************************************************************************)
(* Proofs about PluginWalk, for every program: any types, any functors and *)
(* any number of calls.                                                    *)
(***************************************************************************)
EXTENDS PluginWalk, SequenceTheorems, TLAPS

-----------------------------------------------------------------------------
(* The Views that a type contains: the recursion has a solution, also for  *)
(* types of any depth.                                                     *)

Steps == {"base", "field", "element"} \X Nat
Under(kind, types, g) ==
    UNION {{<<Step(kind, n)>> \o p : p \in g[types[n]]} : n \in DOMAIN types}
ViewsBelow(t, g) ==
    CASE IsView(t) -> {<< >>}
      [] TypeDef[t].kind = "array" -> Under("element", <<TypeDef[t].of>>, g)
      [] TypeDef[t].kind = "record" /\ ~IsView(t) ->
           Under("base", TypeDef[t].bases, g) \cup Under("field", TypeDef[t].fields, g)
      [] OTHER -> {}
Unfold(g) == [t \in DOMAIN TypeDef |-> ViewsBelow(t, g)]

(* A path below a member starts with the step to it. *)
LEMMA InUnder ==
    ASSUME NEW kind, NEW types, NEW g
    PROVE  /\ \A x \in Under(kind, types, g) :
                \E n \in DOMAIN types : \E p \in g[types[n]] : x = <<Step(kind, n)>> \o p
           /\ \A n \in DOMAIN types : \A p \in g[types[n]] :
                <<Step(kind, n)>> \o p \in Under(kind, types, g)
<1>1. ASSUME NEW x
      PROVE  x \in Under(kind, types, g) <=>
               \E n \in DOMAIN types : x \in {<<Step(kind, n)>> \o p : p \in g[types[n]]}
  BY Zenon DEF Under
<1> QED
  BY <1>1, Zenon

(* The same, of one path. *)
LEMMA FromUnder ==
    ASSUME NEW kind, NEW types, NEW g, NEW x \in Under(kind, types, g)
    PROVE  \E n \in DOMAIN types : \E p \in g[types[n]] : x = <<Step(kind, n)>> \o p
  BY InUnder

(* More Views in the members are more Views in the object. *)
LEMMA UnderGrows ==
    ASSUME NEW kind, NEW types \in Seq(DOMAIN TypeDef), NEW g, NEW h,
           \A t \in DOMAIN TypeDef : g[t] \subseteq h[t]
    PROVE  Under(kind, types, g) \subseteq Under(kind, types, h)
<1> SUFFICES ASSUME NEW x \in Under(kind, types, g) PROVE x \in Under(kind, types, h)
  OBVIOUS
<1>1. PICK n \in DOMAIN types : x \in {<<Step(kind, n)>> \o p : p \in g[types[n]]}
  BY Zenon DEF Under
<1>2. PICK p \in g[types[n]] : x = <<Step(kind, n)>> \o p
  BY <1>1, Zenon
<1>3. types[n] \in DOMAIN TypeDef
  OBVIOUS
<1>4. p \in h[types[n]]
  BY <1>3
<1> QED
  BY <1>2, <1>4, InUnder, Zenon

(* The paths to the Views of a member's type are paths. *)
LEMMA UnderIsTyped ==
    ASSUME NEW kind \in {"base", "field", "element"}, NEW types \in Seq(DOMAIN TypeDef), NEW g,
           \A t \in DOMAIN TypeDef : g[t] \subseteq AllPaths
    PROVE  Under(kind, types, g) \subseteq AllPaths
<1> SUFFICES ASSUME NEW x \in Under(kind, types, g) PROVE x \in AllPaths
  OBVIOUS
<1>1. PICK n \in DOMAIN types : x \in {<<Step(kind, n)>> \o p : p \in g[types[n]]}
  BY Zenon DEF Under
<1>2. PICK p \in g[types[n]] : x = <<Step(kind, n)>> \o p
  BY <1>1, Zenon
<1>3. n \in Nat /\ types[n] \in DOMAIN TypeDef
  OBVIOUS
<1>4. Step(kind, n) \in Steps
  BY <1>3 DEF Step, Steps
<1>5. p \in Seq(Steps)
  BY <1>3 DEF AllPaths, Steps
<1>6. <<Step(kind, n)>> \in Seq(Steps)
  BY <1>4
<1>7. <<Step(kind, n)>> \o p \in Seq(Steps)
  BY <1>5, <1>6, ConcatProperties
<1> QED
  BY <1>2, <1>7 DEF AllPaths, Steps

(* The Views of a type, case by case. *)
LEMMA BelowCases ==
    ASSUME NEW t \in DOMAIN TypeDef, NEW g
    PROVE  ViewsBelow(t, g) =
             IF IsView(t) THEN {<< >>}
             ELSE IF TypeDef[t].kind = "array" THEN Under("element", <<TypeDef[t].of>>, g)
             ELSE IF TypeDef[t].kind = "record"
             THEN Under("base", TypeDef[t].bases, g) \cup Under("field", TypeDef[t].fields, g)
             ELSE {}
<1>1. CASE IsView(t)
  <2>1. TypeDef[t].kind # "array"
    BY <1>1 DEF IsView
  <2> QED
    BY <1>1, <2>1, Zenon DEF ViewsBelow
<1>2. CASE ~IsView(t) /\ TypeDef[t].kind = "array"
  <2>1. TypeDef[t].kind # "record"
    BY <1>2
  <2> QED
    BY <1>2, <2>1, Zenon DEF ViewsBelow
<1>3. CASE ~IsView(t) /\ TypeDef[t].kind # "array"
  BY <1>3, Zenon DEF ViewsBelow
<1> QED
  BY <1>1, <1>2, <1>3

(* So it is for all of a type. *)
LEMMA BelowGrows ==
    ASSUME NEW g, NEW h, \A t \in DOMAIN TypeDef : g[t] \subseteq h[t]
    PROVE  \A t \in DOMAIN TypeDef : ViewsBelow(t, g) \subseteq ViewsBelow(t, h)
<1> SUFFICES ASSUME NEW t \in DOMAIN TypeDef PROVE ViewsBelow(t, g) \subseteq ViewsBelow(t, h)
  OBVIOUS
<1>1. /\ TypeDef[t].bases \in Seq(DOMAIN TypeDef) /\ TypeDef[t].fields \in Seq(DOMAIN TypeDef)
      /\ <<TypeDef[t].of>> \in Seq(DOMAIN TypeDef)
  BY TypesAssumption
<1>2. /\ Under("base", TypeDef[t].bases, g) \subseteq Under("base", TypeDef[t].bases, h)
      /\ Under("field", TypeDef[t].fields, g) \subseteq Under("field", TypeDef[t].fields, h)
      /\ Under("element", <<TypeDef[t].of>>, g) \subseteq Under("element", <<TypeDef[t].of>>, h)
  BY <1>1, UnderGrows
<1> QED
  BY <1>2 DEF ViewsBelow

(* What is below a type are paths. *)
LEMMA BelowIsTyped ==
    ASSUME NEW g, \A t \in DOMAIN TypeDef : g[t] \subseteq AllPaths
    PROVE  \A t \in DOMAIN TypeDef : ViewsBelow(t, g) \subseteq AllPaths
<1> SUFFICES ASSUME NEW t \in DOMAIN TypeDef PROVE ViewsBelow(t, g) \subseteq AllPaths
  OBVIOUS
<1>1. /\ TypeDef[t].bases \in Seq(DOMAIN TypeDef) /\ TypeDef[t].fields \in Seq(DOMAIN TypeDef)
      /\ <<TypeDef[t].of>> \in Seq(DOMAIN TypeDef)
  BY TypesAssumption
<1>2. /\ Under("base", TypeDef[t].bases, g) \subseteq AllPaths
      /\ Under("field", TypeDef[t].fields, g) \subseteq AllPaths
      /\ Under("element", <<TypeDef[t].of>>, g) \subseteq AllPaths
  BY <1>1, UnderIsTyped
<1>3. << >> \in AllPaths
  BY DEF AllPaths
<1> QED
  BY <1>2, <1>3 DEF ViewsBelow

(* The union of all functions that claim no more than they can account for *)
(* is one that accounts for all it claims.                                 *)
LEMMA ContainedUnfolds ==
    \A t \in DOMAIN TypeDef : ContainedIn[t] = ViewsBelow(t, ContainedIn)
<1> DEFINE D == DOMAIN TypeDef
           Claims == {g \in [D -> SUBSET AllPaths] : \A t \in D : g[t] \subseteq ViewsBelow(t, g)}
           w == [t \in D |-> UNION {g[t] : g \in Claims}]
<1>1. \A t \in D : w[t] \subseteq AllPaths
  OBVIOUS
<1>2. \A t \in D : w[t] \subseteq ViewsBelow(t, w)
  <2> SUFFICES ASSUME NEW t \in D, NEW g \in Claims PROVE g[t] \subseteq ViewsBelow(t, w)
    OBVIOUS
  <2>1. \A u \in D : g[u] \subseteq w[u]
    OBVIOUS
  <2> HIDE DEF w
  <2>2. ViewsBelow(t, g) \subseteq ViewsBelow(t, w)
    BY <2>1, BelowGrows
  <2> QED
    BY <2>2
<1> HIDE DEF w
<1> DEFINE v == [t \in D |-> ViewsBelow(t, w)]
<1>3. v \in Claims
  <2>1. \A t \in D : v[t] \subseteq AllPaths
    BY <1>1, BelowIsTyped
  <2>2. \A t \in D : w[t] \subseteq v[t]
    BY <1>2
  <2>3. v \in [D -> SUBSET AllPaths]
    BY <2>1
  <2>4. \A t \in D : v[t] = ViewsBelow(t, w)
    OBVIOUS
  <2> HIDE DEF v
  <2>5. \A t \in D : ViewsBelow(t, w) \subseteq ViewsBelow(t, v)
    BY <2>2, BelowGrows
  <2> QED
    BY <2>3, <2>4, <2>5
<1>4. \A t \in D : v[t] \subseteq w[t]
  BY <1>3 DEF w
<1>5. w = Unfold(w)
  <2>1. \A t \in D : w[t] = ViewsBelow(t, w)
    BY <1>2, <1>4
  <2>2. w = [t \in D |-> w[t]]
    BY DEF w
  <2> QED
    BY <2>1, <2>2 DEF Unfold
<1>6. ContainedIn = CHOOSE g : g = Unfold(g)
  BY DEF ContainedIn, Unfold, ViewsBelow, Under
<1>7. ContainedIn = Unfold(ContainedIn)
  BY <1>5, <1>6
<1> QED
  BY <1>7 DEF Unfold

(* The paths to contained Views are paths: a type for which that is wrong  *)
(* would have a part for which it is wrong.                                *)
LEMMA ContainedIsTyped == \A t \in DOMAIN TypeDef : ContainedIn[t] \subseteq AllPaths
<1> DEFINE Wrong == {t \in DOMAIN TypeDef : ~(ContainedIn[t] \subseteq AllPaths)}
<1> SUFFICES ASSUME Wrong # {} PROVE FALSE
  OBVIOUS
<1>1. PICK t \in Wrong : PartTypes(t) \cap Wrong = {}
  <2>1. Wrong \in SUBSET DOMAIN TypeDef
    OBVIOUS
  <2> HIDE DEF Wrong
  <2> QED
    BY <2>1, TypesAssumption
<1>2. t \in DOMAIN TypeDef /\ ~(ContainedIn[t] \subseteq AllPaths)
  BY <1>1
<1>3. /\ TypeDef[t].bases \in Seq(DOMAIN TypeDef) /\ TypeDef[t].fields \in Seq(DOMAIN TypeDef)
      /\ TypeDef[t].of \in DOMAIN TypeDef
  BY <1>2, TypesAssumption
<1> DEFINE g == [u \in DOMAIN TypeDef |-> IF u \in Wrong THEN {} ELSE ContainedIn[u]]
<1>4. \A u \in DOMAIN TypeDef : g[u] \subseteq AllPaths
  OBVIOUS
<1>5. \A u \in PartTypes(t) : u \in DOMAIN TypeDef /\ g[u] = ContainedIn[u]
  <2>1. PartTypes(t) \subseteq DOMAIN TypeDef
    BY <1>3 DEF PartTypes, Range
  <2> QED
    BY <1>1, <2>1
<1> HIDE DEF g, Wrong
<1>6. ViewsBelow(t, ContainedIn) = ViewsBelow(t, g)
  <2>1. ASSUME NEW kind, NEW types \in Seq(DOMAIN TypeDef), Range(types) \subseteq PartTypes(t)
        PROVE  Under(kind, types, ContainedIn) = Under(kind, types, g)
    <3>1. \A n \in DOMAIN types : ContainedIn[types[n]] = g[types[n]]
      BY <1>5, <2>1 DEF Range
    <3> QED
      BY <3>1 DEF Under
  <2>2. CASE TypeDef[t].kind = "array"
    <3>1. <<TypeDef[t].of>> \in Seq(DOMAIN TypeDef) /\ Range(<<TypeDef[t].of>>) \subseteq PartTypes(t)
      BY <1>3, <2>2 DEF PartTypes, Range
    <3>2. Under("element", <<TypeDef[t].of>>, ContainedIn) = Under("element", <<TypeDef[t].of>>, g)
      BY <2>1, <3>1
    <3> QED
      BY <2>2, <3>2 DEF ViewsBelow
  <2>3. CASE TypeDef[t].kind = "record" /\ ~IsView(t)
    <3>1. Range(TypeDef[t].bases) \subseteq PartTypes(t) /\ Range(TypeDef[t].fields) \subseteq PartTypes(t)
      BY <2>3 DEF PartTypes
    <3>2. /\ Under("base", TypeDef[t].bases, ContainedIn) = Under("base", TypeDef[t].bases, g)
          /\ Under("field", TypeDef[t].fields, ContainedIn) = Under("field", TypeDef[t].fields, g)
      BY <1>3, <2>1, <3>1
    <3> QED
      BY <2>3, <3>2 DEF ViewsBelow
  <2>4. CASE IsView(t) \/ TypeDef[t].kind \notin {"array", "record"}
    BY <2>4 DEF ViewsBelow, IsView
  <2> QED
    BY <2>2, <2>3, <2>4
<1>7. ViewsBelow(t, g) \subseteq AllPaths
  BY <1>2, <1>4, BelowIsTyped
<1> QED
  BY <1>2, <1>6, <1>7, ContainedUnfolds

-----------------------------------------------------------------------------
(* Paths.                                                                  *)

(* The elements of two lists, one behind the other. *)
LEMMA RangeOfConcat ==
    ASSUME NEW S, NEW a \in Seq(S), NEW b \in Seq(S)
    PROVE  a \o b \in Seq(S) /\ Range(a \o b) = Range(a) \cup Range(b)
<1>1. /\ a \o b \in Seq(S) /\ Len(a \o b) = Len(a) + Len(b)
      /\ \A i \in 1 .. Len(a) + Len(b) :
           (a \o b)[i] = IF i <= Len(a) THEN a[i] ELSE b[i - Len(a)]
  BY ConcatProperties
<1>2. /\ Len(a) \in Nat /\ Len(b) \in Nat /\ DOMAIN a = 1 .. Len(a) /\ DOMAIN b = 1 .. Len(b)
      /\ DOMAIN (a \o b) = 1 .. Len(a) + Len(b)
  BY <1>1, LenProperties
<1>3. \A i \in DOMAIN a : i \in DOMAIN (a \o b) /\ (a \o b)[i] = a[i]
  BY <1>1, <1>2
<1>4. \A i \in DOMAIN b : i + Len(a) \in DOMAIN (a \o b) /\ (a \o b)[i + Len(a)] = b[i]
  BY <1>1, <1>2
<1>5. \A i \in DOMAIN (a \o b) : \/ i \in DOMAIN a /\ (a \o b)[i] = a[i]
                                 \/ i - Len(a) \in DOMAIN b /\ (a \o b)[i] = b[i - Len(a)]
  BY <1>1, <1>2
<1> DEFINE c == a \o b
<1> HIDE DEF c
<1>6. Range(c) \subseteq Range(a) \cup Range(b)
  BY <1>5 DEF Range, c
<1>7. Range(a) \subseteq Range(c)
  BY <1>3 DEF Range, c
<1>8. Range(b) \subseteq Range(c)
  BY <1>4 DEF Range, c
<1> QED
  BY <1>1, <1>6, <1>7, <1>8 DEF c

(* The elements of a list are its head and those of its tail. *)
LEMMA RangeOfTail ==
    ASSUME NEW S, NEW s \in Seq(S), s # << >>
    PROVE  /\ Head(s) \in S /\ Tail(s) \in Seq(S)
           /\ Range(s) = {Head(s)} \cup Range(Tail(s)) /\ Range(s) \subseteq S
<1>1. /\ Head(s) \in S /\ Tail(s) \in Seq(S) /\ Len(Tail(s)) = Len(s) - 1
      /\ \A i \in 1 .. Len(Tail(s)) : Tail(s)[i] = s[i + 1]
  BY HeadTailProperties
<1>2. Len(s) \in Nat \ {0} /\ DOMAIN s = 1 .. Len(s) /\ DOMAIN Tail(s) = 1 .. Len(s) - 1
  BY <1>1, LenProperties, EmptySeq
<1>3. Head(s) = s[1]
  OBVIOUS
<1>4. \A i \in DOMAIN Tail(s) : i + 1 \in DOMAIN s /\ Tail(s)[i] = s[i + 1]
  BY <1>1, <1>2
<1>5. \A i \in DOMAIN s : i = 1 \/ (i - 1 \in DOMAIN Tail(s) /\ Tail(s)[i - 1] = s[i])
  <2> SUFFICES ASSUME NEW i \in DOMAIN s, i # 1
               PROVE  i - 1 \in DOMAIN Tail(s) /\ Tail(s)[i - 1] = s[i]
    OBVIOUS
  <2>1. i - 1 \in 1 .. Len(Tail(s)) /\ i - 1 + 1 = i
    BY <1>1, <1>2
  <2> QED
    BY <1>1, <1>2, <2>1
<1>6. 1 \in DOMAIN s /\ \A i \in DOMAIN s : s[i] \in S
  BY <1>2
<1> DEFINE t == Tail(s)
<1> HIDE DEF t
<1>7. Range(s) \subseteq {s[1]} \cup Range(t)
  BY <1>5 DEF Range, t
<1>8. Range(t) \subseteq Range(s)
  BY <1>4 DEF Range, t
<1>9. s[1] \in Range(s) /\ Range(s) \subseteq S
  BY <1>6 DEF Range
<1> QED
  BY <1>1, <1>3, <1>7, <1>8, <1>9 DEF t

(* CanName, of a plugin. *)
NameBy(pl, path) ==
    \A n \in DOMAIN path : path[n][1] \in IF pl = "gcc" THEN {"base", "field"} ELSE {"field"}

(* A path can be named when its parts can. *)
LEMMA NameOfConcat ==
    ASSUME NEW pl, NEW p \in AllPaths, NEW q \in AllPaths
    PROVE  /\ p \o q \in AllPaths
           /\ NameBy(pl, p \o q) <=> NameBy(pl, p) /\ NameBy(pl, q)
           /\ OnlyFields(p) => NameBy(pl, p)
<1> DEFINE names == IF pl = "gcc" THEN {"base", "field"} ELSE {"field"}
<1>1. p \in Seq(Steps) /\ q \in Seq(Steps)
  BY DEF AllPaths, Steps
<1>2. p \o q \in Seq(Steps) /\ Range(p \o q) = Range(p) \cup Range(q)
  BY <1>1, RangeOfConcat
<1>3. \A s : NameBy(pl, s) <=> \A x \in Range(s) : x[1] \in names
  BY DEF NameBy, Range
<1>4. "field" \in names
  OBVIOUS
<1> HIDE DEF names
<1> QED
  BY <1>2, <1>3, <1>4 DEF AllPaths, Steps, OnlyFields, Range

(* A path and what it starts with, element by element. *)
LEMMA PrefixIs ==
    ASSUME NEW p \in AllPaths, NEW q \in AllPaths
    PROVE  IsPrefix(p, q) <=> Len(p) <= Len(q) /\ \A i \in 1 .. Len(p) : p[i] = q[i]
<1>1. /\ p \in Seq(Steps) /\ q \in Seq(Steps) /\ Len(p) \in Nat /\ Len(q) \in Nat
      /\ DOMAIN p = 1 .. Len(p) /\ DOMAIN q = 1 .. Len(q)
  BY DEF AllPaths, Steps
<1> SUFFICES ASSUME Len(p) <= Len(q)
             PROVE  SubSeq(p, 1, Len(p)) = SubSeq(q, 1, Len(p)) <=> \A i \in 1 .. Len(p) : p[i] = q[i]
  BY DEF IsPrefix
<1>2. SubSeq(p, 1, Len(p)) = p
  BY <1>1, SubSeqFull
<1>3. \A i \in 1 .. Len(p) : q[i] \in Steps
  BY <1>1
<1>4. /\ SubSeq(q, 1, Len(p)) \in Seq(Steps) /\ Len(SubSeq(q, 1, Len(p))) = Len(p)
      /\ \A i \in 1 .. Len(p) : SubSeq(q, 1, Len(p))[i] = q[i]
  BY <1>1, <1>3, SubSeqProperties
<1> QED
  BY <1>1, <1>2, <1>4, SeqEqual

(* The View that a path to a contained View evaluates to. *)
LEMMA DataDirect ==
    ASSUME NEW f \in Functors, NEW p \in ContainedIn[NonReference(f)]
    PROVE  DataOf(f, p) = <<f, p>>
<1>1. {r \in DOMAIN Referent[f] : IsPrefix(r, p)} = {}
  BY ReferentAssumption
<1> QED
  BY <1>1 DEF DataOf

(* The View that a path behind a reference evaluates to. *)
LEMMA DataBehind ==
    ASSUME NEW f \in Functors, NEW ref \in DOMAIN Referent[f], NEW s \in AllPaths
    PROVE  DataOf(f, ref \o s) = <<f, Referent[f][ref] \o s>>
<1>1. /\ \A p \in DOMAIN Referent[f] : p \in AllPaths
      /\ \A p, q \in DOMAIN Referent[f] : IsPrefix(p, q) => p = q
  BY ReferentAssumption
<1>2. /\ ref \in Seq(Steps) /\ s \in Seq(Steps) /\ Len(ref) \in Nat /\ Len(s) \in Nat
      /\ ref \o s \in AllPaths
  BY <1>1, ConcatProperties DEF AllPaths, Steps
<1>3. /\ ref \o s \in Seq(Steps) /\ Len(ref \o s) = Len(ref) + Len(s)
      /\ \A i \in 1 .. Len(ref) + Len(s) :
           (ref \o s)[i] = IF i <= Len(ref) THEN ref[i] ELSE s[i - Len(ref)]
  BY <1>2, ConcatProperties
<1> DEFINE w == ref \o s
           refs == {p \in DOMAIN Referent[f] : IsPrefix(p, w)}
<1> HIDE DEF w
<1>4. ref \in AllPaths /\ w \in AllPaths
  BY <1>1, <1>2 DEF w
<1>5. IsPrefix(ref, w)
  <2>1. Len(ref) <= Len(w) /\ \A i \in 1 .. Len(ref) : ref[i] = w[i]
    BY <1>2, <1>3 DEF w
  <2> QED
    BY <1>4, <2>1, PrefixIs
<1>6. ASSUME NEW p \in refs PROVE p = ref
  <2>1. p \in AllPaths /\ IsPrefix(p, w)
    BY <1>1
  <2>2. Len(p) \in Nat
    BY <2>1 DEF AllPaths
  <2>3. /\ \A i \in 1 .. Len(p) : p[i] = w[i]
        /\ \A i \in 1 .. Len(ref) : ref[i] = w[i]
    BY <1>4, <1>5, <2>1, PrefixIs
  <2>4. CASE Len(p) <= Len(ref)
    <3>1. \A i \in 1 .. Len(p) : p[i] = ref[i]
      BY <1>2, <2>2, <2>3, <2>4
    <3>2. IsPrefix(p, ref)
      BY <1>4, <2>1, <2>4, <3>1, PrefixIs
    <3> QED
      BY <1>1, <3>2
  <2>5. CASE Len(ref) <= Len(p)
    <3>1. \A i \in 1 .. Len(ref) : ref[i] = p[i]
      BY <1>2, <2>2, <2>3, <2>5
    <3>2. IsPrefix(ref, p)
      BY <1>4, <2>1, <2>5, <3>1, PrefixIs
    <3> QED
      BY <1>1, <3>2
  <2> QED
    BY <1>2, <2>2, <2>4, <2>5
<1>7. refs = {ref}
  BY <1>5, <1>6
<1>8. SubSeq(w, Len(ref) + 1, Len(w)) = s
  <2>1. Len(w) = Len(ref) + Len(s) /\ \A i \in Len(ref) + 1 .. Len(w) : w[i] \in Steps
    BY <1>2, <1>3 DEF w
  <2>2. /\ SubSeq(w, Len(ref) + 1, Len(w)) \in Seq(Steps)
        /\ Len(SubSeq(w, Len(ref) + 1, Len(w))) = Len(s)
        /\ \A i \in 1 .. Len(s) : SubSeq(w, Len(ref) + 1, Len(w))[i] = w[Len(ref) + i]
    <3>1. Len(ref) + 1 \in Int /\ Len(w) \in Int
      BY <1>2, <2>1
    <3> QED
      BY <1>2, <2>1, <3>1, SubSeqProperties
  <2>3. \A i \in 1 .. Len(s) : w[Len(ref) + i] = s[i]
    BY <1>2, <1>3 DEF w
  <2> QED
    BY <1>2, <2>2, <2>3, SeqEqual
<1>9. DataOf(f, w) = <<f, Referent[f][CHOOSE p \in refs : TRUE]
                           \o SubSeq(w, Len(CHOOSE p \in refs : TRUE) + 1, Len(w))>>
  BY <1>7 DEF DataOf
<1>10. (CHOOSE p \in refs : TRUE) = ref
  BY <1>7
<1> QED
  BY <1>8, <1>9, <1>10 DEF w

-----------------------------------------------------------------------------
(* One step of the walk.                                                   *)

Members == [type : DOMAIN TypeDef, path : AllPaths]
Named(pl, t) == {p \in ContainedIn[t] : NameBy(pl, p)}

(* The members of a type that the plugin goes into, by the step to them. *)
PartsOf(pl, t) ==
    {<<Step("field", n), TypeDef[t].fields[n]>> : n \in DOMAIN TypeDef[t].fields} \cup
    IF pl = "gcc"
    THEN {<<Step("base", n), TypeDef[t].bases[n]>> : n \in DOMAIN TypeDef[t].bases} ELSE {}

MemberAt(path, x) == [type |-> x[2], path |-> path \o <<x[1]>>]

(* The members of one kind. *)
LEMMA PathsAre ==
    ASSUME NEW kind \in {"base", "field"}, NEW types \in Seq(DOMAIN TypeDef), NEW path \in AllPaths
    PROVE  /\ Paths(path, kind, types) \in Seq(Members)
           /\ Range(Paths(path, kind, types)) =
                {MemberAt(path, <<Step(kind, n), types[n]>>) : n \in DOMAIN types}
<1>1. \A n \in DOMAIN types : /\ n \in Nat /\ types[n] \in DOMAIN TypeDef
  OBVIOUS
<1>2. \A n \in DOMAIN types : Append(path, Step(kind, n)) = path \o <<Step(kind, n)>>
                              /\ Append(path, Step(kind, n)) \in AllPaths
  <2> SUFFICES ASSUME NEW n \in DOMAIN types
               PROVE  Append(path, Step(kind, n)) = path \o <<Step(kind, n)>>
                      /\ Append(path, Step(kind, n)) \in AllPaths
    OBVIOUS
  <2>1. Step(kind, n) \in Steps
    BY <1>1 DEF Step, Steps
  <2>2. path \in Seq(Steps)
    BY DEF AllPaths, Steps
  <2>3. /\ Append(path, Step(kind, n)) = path \o <<Step(kind, n)>>
        /\ Append(path, Step(kind, n)) \in Seq(Steps)
    BY <2>1, <2>2, AppendProperties, AppendIsConcat
  <2> QED
    BY <2>3 DEF AllPaths, Steps
<1>3. \A n \in DOMAIN types :
        Paths(path, kind, types)[n] = MemberAt(path, <<Step(kind, n), types[n]>>)
  BY <1>2 DEF Paths, MemberAt
<1>4. DOMAIN Paths(path, kind, types) = DOMAIN types
  BY DEF Paths
<1>5. \A n \in DOMAIN types : Paths(path, kind, types)[n] \in Members
  BY <1>1, <1>2 DEF Paths, Members
<1>6. Paths(path, kind, types) \in [1 .. Len(types) -> Members]
  BY <1>5 DEF Paths
<1>7. Paths(path, kind, types) \in Seq(Members)
  BY <1>6
<1>8. Range(Paths(path, kind, types)) =
        {MemberAt(path, <<Step(kind, n), types[n]>>) : n \in DOMAIN types}
  BY <1>3, <1>4 DEF Range
<1> QED
  BY <1>7, <1>8

(* The members of a type, bases first. *)
LEMMA MembersAre ==
    ASSUME NEW t \in DOMAIN TypeDef, NEW path \in AllPaths
    PROVE  /\ MembersOf(t, path) \in Seq(Members)
           /\ Range(MembersOf(t, path)) = {MemberAt(path, x) : x \in PartsOf(plugin, t)}
<1>1. TypeDef[t].bases \in Seq(DOMAIN TypeDef) /\ TypeDef[t].fields \in Seq(DOMAIN TypeDef)
  BY TypesAssumption
<1> DEFINE B == IF plugin = "gcc" THEN Paths(path, "base", TypeDef[t].bases) ELSE << >>
           F == Paths(path, "field", TypeDef[t].fields)
           steps == IF plugin = "gcc"
                    THEN {<<Step("base", n), TypeDef[t].bases[n]>> : n \in DOMAIN TypeDef[t].bases}
                    ELSE {}
           own == {<<Step("field", n), TypeDef[t].fields[n]>> : n \in DOMAIN TypeDef[t].fields}
<1>2. F \in Seq(Members) /\ Range(F) = {MemberAt(path, x) : x \in own}
  <2>1. /\ F \in Seq(Members)
        /\ Range(F) = {MemberAt(path, <<Step("field", n), TypeDef[t].fields[n]>>) :
                         n \in DOMAIN TypeDef[t].fields}
    BY <1>1, PathsAre
  <2> QED
    BY <2>1
<1>3. B \in Seq(Members) /\ Range(B) = {MemberAt(path, x) : x \in steps}
  <2>1. CASE plugin = "gcc"
    <3>1. /\ B \in Seq(Members)
          /\ Range(B) = {MemberAt(path, <<Step("base", n), TypeDef[t].bases[n]>>) :
                           n \in DOMAIN TypeDef[t].bases}
      BY <1>1, <2>1, PathsAre
    <3> QED
      BY <2>1, <3>1
  <2>2. CASE plugin # "gcc"
    BY <2>2 DEF Range
  <2> QED
    BY <2>1, <2>2
<1>4. MembersOf(t, path) = B \o F
  BY DEF MembersOf
<1> HIDE DEF B, F
<1>5. B \o F \in Seq(Members) /\ Range(B \o F) = Range(B) \cup Range(F)
  BY <1>2, <1>3, RangeOfConcat
<1>6. PartsOf(plugin, t) = own \cup steps
  BY DEF PartsOf
<1> HIDE DEF own, steps
<1>7. {MemberAt(path, x) : x \in own \cup steps} =
        {MemberAt(path, x) : x \in own} \cup {MemberAt(path, x) : x \in steps}
  OBVIOUS
<1> QED
  BY <1>2, <1>3, <1>4, <1>5, <1>6, <1>7

(* The Views that can be named in a record are those that can be named in  *)
(* the members that the plugin goes into.                                  *)
LEMMA NamedInParts ==
    ASSUME NEW pl, NEW t \in DOMAIN TypeDef, TypeDef[t].kind = "record", ~IsView(t)
    PROVE  /\ \A x \in PartsOf(pl, t) :
                /\ x[1] \in Steps /\ <<x[1]>> \in AllPaths /\ x[2] \in DOMAIN TypeDef
                /\ \A q \in Named(pl, x[2]) : <<x[1]>> \o q \in Named(pl, t)
           /\ \A p \in Named(pl, t) : \E x \in PartsOf(pl, t) : \E q \in Named(pl, x[2]) : p = <<x[1]>> \o q
<1> DEFINE bases == TypeDef[t].bases
           fields == TypeDef[t].fields
<1>1. bases \in Seq(DOMAIN TypeDef) /\ fields \in Seq(DOMAIN TypeDef)
  BY TypesAssumption
<1>2. ContainedIn[t] = Under("base", bases, ContainedIn) \cup Under("field", fields, ContainedIn)
  BY ContainedUnfolds, BelowCases
<1>3. ASSUME NEW kind \in {"base", "field"}, NEW n \in Nat
      PROVE  /\ Step(kind, n) \in Steps /\ <<Step(kind, n)>> \in AllPaths
             /\ NameBy(pl, <<Step(kind, n)>>) <=> kind = "field" \/ pl = "gcc"
  <2>1. Step(kind, n) \in Steps
    BY DEF Step, Steps
  <2>2. <<Step(kind, n)>> \in AllPaths
    BY <2>1 DEF AllPaths, Steps
  <2>3. NameBy(pl, <<Step(kind, n)>>) <=> kind = "field" \/ pl = "gcc"
    BY DEF NameBy, Step
  <2> QED
    BY <2>1, <2>2, <2>3
<1>4. /\ \A n \in DOMAIN bases : n \in Nat /\ bases[n] \in DOMAIN TypeDef
      /\ \A n \in DOMAIN fields : n \in Nat /\ fields[n] \in DOMAIN TypeDef
  BY <1>1
<1> HIDE DEF bases, fields
<1>5. /\ \A x \in PartsOf(pl, t) :
           \/ \E n \in DOMAIN fields : x = <<Step("field", n), fields[n]>>
           \/ pl = "gcc" /\ \E n \in DOMAIN bases : x = <<Step("base", n), bases[n]>>
      /\ \A n \in DOMAIN fields : <<Step("field", n), fields[n]>> \in PartsOf(pl, t)
      /\ pl = "gcc" => \A n \in DOMAIN bases : <<Step("base", n), bases[n]>> \in PartsOf(pl, t)
  BY DEF PartsOf, bases, fields
<1>6. ASSUME NEW x \in PartsOf(pl, t)
      PROVE  /\ x[1] \in Steps /\ <<x[1]>> \in AllPaths /\ x[2] \in DOMAIN TypeDef
             /\ \A q \in Named(pl, x[2]) : <<x[1]>> \o q \in Named(pl, t)
  <2>1. ASSUME NEW kind \in {"base", "field"}, NEW types, types \in {bases, fields},
               NEW n \in DOMAIN types, n \in Nat, types[n] \in DOMAIN TypeDef,
               x = <<Step(kind, n), types[n]>>, kind = "field" \/ pl = "gcc",
               Under(kind, types, ContainedIn) \subseteq ContainedIn[t]
        PROVE  /\ x[1] \in Steps /\ <<x[1]>> \in AllPaths /\ x[2] \in DOMAIN TypeDef
               /\ \A q \in Named(pl, x[2]) : <<x[1]>> \o q \in Named(pl, t)
    <3>1. /\ x[1] = Step(kind, n) /\ x[2] = types[n]
          /\ x[1] \in Steps /\ <<x[1]>> \in AllPaths /\ NameBy(pl, <<x[1]>>)
      BY <1>3, <2>1
    <3>2. ASSUME NEW q \in Named(pl, x[2]) PROVE <<x[1]>> \o q \in Named(pl, t)
      <4>1. q \in ContainedIn[types[n]] /\ NameBy(pl, q) /\ q \in AllPaths
        BY <2>1, <3>1, <3>2, ContainedIsTyped DEF Named
      <4>2. <<Step(kind, n)>> \o q \in Under(kind, types, ContainedIn)
        BY <2>1, <4>1, InUnder
      <4>3. NameBy(pl, <<x[1]>> \o q)
        BY <3>1, <4>1, NameOfConcat
      <4> QED
        BY <2>1, <3>1, <4>2, <4>3 DEF Named
    <3> QED
      BY <2>1, <3>1, <3>2
  <2> QED
    BY <1>2, <1>4, <1>5, <2>1
<1>7. ASSUME NEW p \in Named(pl, t)
      PROVE  \E x \in PartsOf(pl, t) : \E q \in Named(pl, x[2]) : p = <<x[1]>> \o q
  <2>1. ASSUME NEW kind \in {"base", "field"}, NEW types, types \in {bases, fields},
               p \in Under(kind, types, ContainedIn),
               \A n \in DOMAIN types : n \in Nat /\ types[n] \in DOMAIN TypeDef,
               (kind = "field" \/ pl = "gcc") =>
                 \A n \in DOMAIN types : <<Step(kind, n), types[n]>> \in PartsOf(pl, t)
        PROVE  \E x \in PartsOf(pl, t) : \E q \in Named(pl, x[2]) : p = <<x[1]>> \o q
    <3>1. PICK n \in DOMAIN types : \E q \in ContainedIn[types[n]] : p = <<Step(kind, n)>> \o q
      BY <2>1, FromUnder
    <3>2. PICK q \in ContainedIn[types[n]] : p = <<Step(kind, n)>> \o q
      BY <3>1, Zenon
    <3>3. q \in AllPaths /\ n \in Nat
      BY <2>1, ContainedIsTyped
    <3>4. NameBy(pl, <<Step(kind, n)>>) /\ NameBy(pl, q) /\ (kind = "field" \/ pl = "gcc")
      <4>1. NameBy(pl, p) /\ <<Step(kind, n)>> \in AllPaths
        BY <1>3, <3>3 DEF Named
      <4> QED
        BY <1>3, <3>2, <3>3, <4>1, NameOfConcat
    <3> DEFINE x == <<Step(kind, n), types[n]>>
    <3>5. x \in PartsOf(pl, t) /\ x[1] = Step(kind, n) /\ x[2] = types[n]
      BY <2>1, <3>4
    <3> HIDE DEF x
    <3>6. q \in Named(pl, x[2]) /\ p = <<x[1]>> \o q
      BY <3>2, <3>4, <3>5 DEF Named
    <3> QED
      BY <3>5, <3>6
  <2>2. p \in Under("base", bases, ContainedIn) \/ p \in Under("field", fields, ContainedIn)
    BY <1>2 DEF Named
  <2> QED
    BY <1>4, <1>5, <2>1, <2>2
<1> QED
  BY <1>6, <1>7

(* A View is one, and nothing else that is no record has one that can be   *)
(* named.                                                                  *)
LEMMA NamedElsewhere ==
    ASSUME NEW pl, NEW t \in DOMAIN TypeDef
    PROVE  /\ IsView(t) => Named(pl, t) = {<< >>}
           /\ TypeDef[t].kind # "record" => Named(pl, t) = {}
<1>1. ContainedIn[t] = ViewsBelow(t, ContainedIn)
  BY ContainedUnfolds
<1>2. IsView(t) => Named(pl, t) = {<< >>}
  <2>1. NameBy(pl, << >>)
    BY DEF NameBy
  <2>2. IsView(t) => ContainedIn[t] = {<< >>}
    BY <1>1, BelowCases
  <2> QED
    BY <2>1, <2>2, Zenon DEF Named
<1>3. CASE TypeDef[t].kind = "array"
  <2>8. ~IsView(t)
    BY <1>3 DEF IsView
  <2> SUFFICES ASSUME NEW p \in Named(pl, t) PROVE FALSE
    BY <1>2, <2>8
  <2> DEFINE types == <<TypeDef[t].of>>
             kind == "element"
  <2>1. types \in Seq(DOMAIN TypeDef)
    BY TypesAssumption
  <2>2. NameBy(pl, p)
    BY DEF Named
  <2>9. p \in Under(kind, types, ContainedIn)
    BY <1>1, <1>3, <2>8, BelowCases DEF Named
  <2> HIDE DEF types, kind
  <2>3. PICK n \in DOMAIN types : \E q \in ContainedIn[types[n]] : p = <<Step(kind, n)>> \o q
    BY <2>9, FromUnder
  <2>4. PICK q \in ContainedIn[types[n]] : p = <<Step(kind, n)>> \o q
    BY <2>3, Zenon
  <2>5. n \in Nat /\ q \in AllPaths
    BY <2>1, ContainedIsTyped
  <2>6. <<Step(kind, n)>> \in AllPaths
    <3>1. Step(kind, n) \in Steps
      BY <2>5 DEF Step, Steps, kind
    <3> QED
      BY <3>1 DEF AllPaths, Steps
  <2>7. NameBy(pl, <<Step(kind, n)>>)
    BY <2>2, <2>4, <2>5, <2>6, NameOfConcat
  <2> QED
    BY <2>7 DEF NameBy, Step, kind
<1>4. CASE TypeDef[t].kind \notin {"array", "record"}
  BY <1>1, <1>4, BelowCases DEF Named, IsView
<1> QED
  BY <1>2, <1>3, <1>4 DEF IsView

(* What clang reaches: the recursion has a solution. *)
FieldsReached(fields, g) ==
    UNION {{[path |-> <<Step("field", n)>> \o m.path, type |-> m.type] : m \in g[fields[n]]} :
             n \in DOMAIN fields}
ReachedBelow(t, g) ==
    LET fields == TypeDef[t].fields
    IN  {[path |-> << >>, type |-> t]} \cup
        CASE TypeDef[t].kind = "reference" -> g[TypeDef[t].of]
          [] TypeDef[t].kind = "record" /\ ~IsView(t) ->
               UNION {{[path |-> <<Step("field", n)>> \o m.path, type |-> m.type] :
                         m \in g[fields[n]]} : n \in DOMAIN fields}
          [] OTHER -> {}

(* The members reached in a type, case by case. *)
LEMMA BelowReached ==
    ASSUME NEW t \in DOMAIN TypeDef, NEW g
    PROVE  ReachedBelow(t, g) =
             {[path |-> << >>, type |-> t]} \cup
             (IF TypeDef[t].kind = "reference" THEN g[TypeDef[t].of]
              ELSE IF TypeDef[t].kind = "record" /\ ~IsView(t)
              THEN FieldsReached(TypeDef[t].fields, g) ELSE {})
<1>1. CASE TypeDef[t].kind = "reference"
  BY <1>1, Zenon DEF ReachedBelow
<1>2. CASE TypeDef[t].kind = "record" /\ ~IsView(t)
  <2>1. TypeDef[t].kind # "reference"
    BY <1>2
  <2> QED
    BY <1>2, <2>1, Zenon DEF ReachedBelow, FieldsReached
<1>3. CASE TypeDef[t].kind # "reference" /\ ~(TypeDef[t].kind = "record" /\ ~IsView(t))
  BY <1>3, Zenon DEF ReachedBelow
<1> QED
  BY <1>1, <1>2, <1>3

(* A member below a field starts with the step to the field. *)
LEMMA InFieldsReached ==
    ASSUME NEW fields, NEW g
    PROVE  /\ \A x \in FieldsReached(fields, g) :
                \E n \in DOMAIN fields : \E m \in g[fields[n]] :
                    x = [path |-> <<Step("field", n)>> \o m.path, type |-> m.type]
           /\ \A n \in DOMAIN fields : \A m \in g[fields[n]] :
                [path |-> <<Step("field", n)>> \o m.path, type |-> m.type]
                    \in FieldsReached(fields, g)
<1>1. ASSUME NEW x
      PROVE  x \in FieldsReached(fields, g) <=>
               \E n \in DOMAIN fields :
                 x \in {[path |-> <<Step("field", n)>> \o m.path, type |-> m.type] :
                          m \in g[fields[n]]}
  BY Zenon DEF FieldsReached
<1> QED
  BY <1>1, Zenon

(* The same, of one member. *)
LEMMA FromFieldsReached ==
    ASSUME NEW fields, NEW g, NEW x \in FieldsReached(fields, g)
    PROVE  \E n \in DOMAIN fields : \E m \in g[fields[n]] :
             x = [path |-> <<Step("field", n)>> \o m.path, type |-> m.type]
  BY InFieldsReached

(* The members reached in a type are members, and more of them in its      *)
(* fields are more in it.                                                  *)
LEMMA ReachedGrows ==
    ASSUME NEW t \in DOMAIN TypeDef, NEW g, NEW h, \A u \in DOMAIN TypeDef : g[u] \subseteq h[u]
    PROVE  /\ ReachedBelow(t, g) \subseteq ReachedBelow(t, h)
           /\ (\A u \in DOMAIN TypeDef : g[u] \subseteq Members) => ReachedBelow(t, g) \subseteq Members
<1> DEFINE fields == TypeDef[t].fields
<1>1. fields \in Seq(DOMAIN TypeDef) /\ TypeDef[t].of \in DOMAIN TypeDef
  BY TypesAssumption
<1>2. \A n \in DOMAIN fields : n \in Nat /\ fields[n] \in DOMAIN TypeDef
  BY <1>1
<1> HIDE DEF fields
<1>3. FieldsReached(fields, g) \subseteq FieldsReached(fields, h)
  <2> SUFFICES ASSUME NEW x \in FieldsReached(fields, g) PROVE x \in FieldsReached(fields, h)
    OBVIOUS
  <2>1. PICK n \in DOMAIN fields : \E m \in g[fields[n]] :
          x = [path |-> <<Step("field", n)>> \o m.path, type |-> m.type]
    BY FromFieldsReached
  <2>2. PICK m \in g[fields[n]] : x = [path |-> <<Step("field", n)>> \o m.path, type |-> m.type]
    BY <2>1, Zenon
  <2>3. m \in h[fields[n]]
    BY <1>2
  <2> QED
    BY <2>2, <2>3, InFieldsReached
<1>4. ASSUME \A u \in DOMAIN TypeDef : g[u] \subseteq Members
      PROVE  FieldsReached(fields, g) \subseteq Members
  <2> SUFFICES ASSUME NEW x \in FieldsReached(fields, g) PROVE x \in Members
    OBVIOUS
  <2>1. PICK n \in DOMAIN fields : \E m \in g[fields[n]] :
          x = [path |-> <<Step("field", n)>> \o m.path, type |-> m.type]
    BY FromFieldsReached
  <2>2. PICK m \in g[fields[n]] : x = [path |-> <<Step("field", n)>> \o m.path, type |-> m.type]
    BY <2>1, Zenon
  <2>3. m.path \in AllPaths /\ m.type \in DOMAIN TypeDef /\ Step("field", n) \in Steps
    BY <1>2, <1>4 DEF Members, Step, Steps
  <2>4. <<Step("field", n)>> \in AllPaths
    BY <2>3 DEF AllPaths, Steps
  <2>5. <<Step("field", n)>> \o m.path \in AllPaths
    BY <2>3, <2>4, NameOfConcat
  <2> QED
    BY <2>2, <2>3, <2>5 DEF Members
<1>5. [path |-> << >>, type |-> t] \in Members
  BY DEF Members, AllPaths
<1> QED
  BY <1>1, <1>3, <1>4, <1>5, BelowReached DEF fields

(* The same argument as for ContainedIn. *)
LEMMA ReachedUnfolds == \A t \in DOMAIN TypeDef : ReachedIn[t] = ReachedBelow(t, ReachedIn)
<1> DEFINE D == DOMAIN TypeDef
           Claims == {g \in [D -> SUBSET Members] : \A t \in D : g[t] \subseteq ReachedBelow(t, g)}
           w == [t \in D |-> UNION {g[t] : g \in Claims}]
<1>1. \A t \in D : w[t] \subseteq Members
  OBVIOUS
<1>2. \A t \in D : w[t] \subseteq ReachedBelow(t, w)
  <2> SUFFICES ASSUME NEW t \in D, NEW g \in Claims PROVE g[t] \subseteq ReachedBelow(t, w)
    OBVIOUS
  <2>1. \A u \in D : g[u] \subseteq w[u]
    OBVIOUS
  <2> HIDE DEF w
  <2>2. ReachedBelow(t, g) \subseteq ReachedBelow(t, w)
    BY <2>1, ReachedGrows
  <2> QED
    BY <2>2
<1> HIDE DEF w
<1> DEFINE v == [t \in D |-> ReachedBelow(t, w)]
<1>3. v \in Claims
  <2>1. \A t \in D : v[t] \subseteq Members
    BY <1>1, ReachedGrows
  <2>2. \A t \in D : w[t] \subseteq v[t]
    BY <1>2
  <2>3. v \in [D -> SUBSET Members]
    BY <2>1
  <2>4. \A t \in D : v[t] = ReachedBelow(t, w)
    OBVIOUS
  <2> HIDE DEF v
  <2>5. \A t \in D : ReachedBelow(t, w) \subseteq ReachedBelow(t, v)
    BY <2>2, ReachedGrows
  <2> QED
    BY <2>3, <2>4, <2>5
<1>4. \A t \in D : v[t] \subseteq w[t]
  BY <1>3 DEF w
<1>5. w = [t \in D |-> ReachedBelow(t, w)]
  <2>1. \A t \in D : w[t] = ReachedBelow(t, w)
    BY <1>2, <1>4
  <2>2. w = [t \in D |-> w[t]]
    BY DEF w
  <2> QED
    BY <2>1, <2>2
<1>6. ReachedIn = CHOOSE g : g = [t \in D |-> ReachedBelow(t, g)]
  BY DEF ReachedIn, ReachedBelow
<1>7. ReachedIn = [t \in D |-> ReachedBelow(t, ReachedIn)]
  BY <1>5, <1>6
<1> QED
  BY <1>7

(* Members of members are reached. *)
LEMMA ReachedSteps ==
    ASSUME NEW t \in DOMAIN TypeDef
    PROVE  /\ [path |-> << >>, type |-> t] \in ReachedIn[t]
           /\ TypeDef[t].kind = "reference" => ReachedIn[TypeDef[t].of] \subseteq ReachedIn[t]
           /\ TypeDef[t].kind = "record" /\ ~IsView(t) =>
                \A n \in DOMAIN TypeDef[t].fields : \A m \in ReachedIn[TypeDef[t].fields[n]] :
                    [path |-> <<Step("field", n)>> \o m.path, type |-> m.type] \in ReachedIn[t]
<1>1. ReachedIn[t] = ReachedBelow(t, ReachedIn)
  BY ReachedUnfolds
<1>2. [path |-> << >>, type |-> t] \in ReachedIn[t]
  BY <1>1, BelowReached
<1>3. TypeDef[t].kind = "reference" => ReachedIn[TypeDef[t].of] \subseteq ReachedIn[t]
  BY <1>1, BelowReached
<1>4. TypeDef[t].kind = "record" /\ ~IsView(t) =>
        FieldsReached(TypeDef[t].fields, ReachedIn) \subseteq ReachedIn[t]
  BY <1>1, BelowReached
<1> QED
  BY <1>2, <1>3, <1>4, InFieldsReached

-----------------------------------------------------------------------------
(* Where a path that the walk has come to leads.                           *)

(* The object in the functor that an expression is about, itself or as the *)
(* referent of a reference that it goes through.                           *)
Evaluates(f, p, e) ==
    e = p \/ \E ref \in DOMAIN Referent[f], s \in AllPaths : p = ref \o s /\ e = Referent[f][ref] \o s

(* What the plugin should find in a functor. *)
Target(pl, f) == Named(pl, NonReference(f))

(* All that can be named in the type t of what is at p is to be found. *)
Leads(pl, f, p, t) ==
    \E e \in AllPaths : /\ Evaluates(f, p, e)
                        /\ \A q \in Named(pl, t) : e \o q \in Target(pl, f)

(* All that clang reaches in it is reached in the functor. *)
Reaches(pl, f, p, t) ==
    pl = "clang" => \A q \in AllPaths : \A u \in DOMAIN TypeDef :
        [path |-> q, type |-> u] \in ReachedIn[t] =>
            [path |-> p \o q, type |-> u] \in ReachedIn[NonReference(f)]

Visited(pl, t) == IF pl = "clang" THEN NonReference(t) ELSE t

(* What can be named are paths. *)
LEMMA NamedIsTyped ==
    ASSUME NEW pl, NEW t \in DOMAIN TypeDef
    PROVE  Named(pl, t) \subseteq AllPaths
  BY ContainedIsTyped DEF Named

(* The type of a functor, and of what a member refers to. *)
LEMMA NonReferenceIsType ==
    ASSUME NEW t \in DOMAIN TypeDef PROVE NonReference(t) \in DOMAIN TypeDef
  BY TypesAssumption DEF NonReference

(* The empty path changes nothing. *)
LEMMA EmptyPath ==
    ASSUME NEW p \in AllPaths
    PROVE  p \o << >> = p /\ << >> \in AllPaths
<1>1. p \in Seq(Steps)
  BY DEF AllPaths, Steps
<1>2. p \o << >> = p /\ << >> \in Seq(Steps)
  BY <1>1, ConcatEmptySeq
<1> QED
  BY <1>2 DEF AllPaths, Steps

(* Paths can be put together in any order. *)
LEMMA PathsCompose ==
    \A p, q, r \in AllPaths : p \o q \in AllPaths /\ (p \o q) \o r = p \o (q \o r)
<1> SUFFICES ASSUME NEW p \in AllPaths, NEW q \in AllPaths, NEW r \in AllPaths
             PROVE  p \o q \in AllPaths /\ (p \o q) \o r = p \o (q \o r)
  OBVIOUS
<1>1. p \in Seq(Steps) /\ q \in Seq(Steps) /\ r \in Seq(Steps)
  BY DEF AllPaths, Steps
<1>2. p \o q \in Seq(Steps)
  BY <1>1, ConcatProperties
<1>3. (p \o q) \o r = p \o (q \o r)
  BY <1>1, ConcatAssociative
<1> QED
  BY <1>2, <1>3 DEF AllPaths, Steps

(* The same, of three. *)
LEMMA PathsAssociate ==
    ASSUME NEW p \in AllPaths, NEW q \in AllPaths, NEW r \in AllPaths
    PROVE  (p \o q) \o r = p \o (q \o r)
  BY PathsCompose

(* Looking behind a reference, as clang does: it leads to the object that  *)
(* it refers to.                                                           *)
LEMMA BehindReference ==
    ASSUME NEW pl \in Plugins, NEW f \in Functors, NEW p \in AllPaths, NEW t \in DOMAIN TypeDef,
           Leads(pl, f, p, t), Reaches(pl, f, p, t)
    PROVE  Leads(pl, f, p, Visited(pl, t)) /\ Reaches(pl, f, p, Visited(pl, t))
<1>1. CASE Visited(pl, t) = t
  BY <1>1
<1>2. CASE Visited(pl, t) # t
  <2> DEFINE u == TypeDef[t].of
             t0 == NonReference(f)
  <2>1. pl = "clang" /\ TypeDef[t].kind = "reference" /\ Visited(pl, t) = u
    BY <1>2 DEF Visited, NonReference
  <2>2. u \in DOMAIN TypeDef /\ t0 \in DOMAIN TypeDef
    BY PluginAssumption, TypesAssumption, NonReferenceIsType
  <2>3. [path |-> p, type |-> t] \in ReachedIn[t0]
    <3>1. [path |-> << >>, type |-> t] \in ReachedIn[t]
      BY ReachedSteps
    <3>2. << >> \in AllPaths /\ p \o << >> = p
      BY EmptyPath
    <3> QED
      BY <2>1, <3>1, <3>2 DEF Reaches
  <2> DEFINE m == [path |-> p, type |-> t]
             e == Referent[f][p]
  <2>4. /\ p \in DOMAIN Referent[f] /\ e \in AllPaths /\ OnlyFields(e)
        /\ \A q \in ContainedIn[u] : e \o q \in ContainedIn[t0]
    <3>1. m.path = p /\ m.type = t /\ m \in ReachedIn[t0] /\ "clang" \in Plugins
      BY <2>1, <2>3
    <3>2. /\ m.path \in DOMAIN Referent[f] /\ OnlyFields(Referent[f][m.path])
          /\ \A q \in ContainedIn[TypeDef[m.type].of] : Referent[f][m.path] \o q \in ContainedIn[t0]
      BY <2>1, <3>1, ReferentAssumption
    <3>3. Referent[f][p] \in AllPaths
      BY <3>1, <3>2, ReferentAssumption
    <3> QED
      BY <3>1, <3>2, <3>3
  <2> HIDE DEF u, t0, e, m
  <2>5. Evaluates(f, p, e)
    <3>1. p \o << >> = p /\ e \o << >> = e /\ << >> \in AllPaths
      BY <2>4, EmptyPath
    <3> QED
      BY <2>4, <3>1 DEF Evaluates, e
  <2>6. ASSUME NEW q \in Named(pl, u) PROVE e \o q \in Target(pl, f)
    <3>1. q \in AllPaths /\ q \in ContainedIn[u] /\ NameBy(pl, q)
      BY <2>2, NamedIsTyped DEF Named
    <3>2. NameBy(pl, e \o q)
      BY <2>4, <3>1, NameOfConcat
    <3> QED
      BY <2>4, <3>1, <3>2 DEF Target, Named, t0
  <2>7. Leads(pl, f, p, u)
    BY <2>4, <2>5, <2>6 DEF Leads
  <2>8. Reaches(pl, f, p, u)
    <3>1. ReachedIn[u] \subseteq ReachedIn[t]
      BY <2>1, ReachedSteps DEF u
    <3> QED
      BY <3>1 DEF Reaches
  <2> QED
    BY <2>1, <2>7, <2>8
<1> QED
  BY <1>1, <1>2

(* A longer expression is about a part of the object. *)
LEMMA EvaluatesFurther ==
    ASSUME NEW f \in Functors, NEW p \in AllPaths, NEW e \in AllPaths, NEW step \in AllPaths,
           Evaluates(f, p, e)
    PROVE  Evaluates(f, p \o step, e \o step)
<1>1. CASE e = p
  BY <1>1 DEF Evaluates
<1>2. CASE \E ref \in DOMAIN Referent[f], s \in AllPaths : p = ref \o s /\ e = Referent[f][ref] \o s
  <2>1. PICK ref \in DOMAIN Referent[f], s \in AllPaths : p = ref \o s /\ e = Referent[f][ref] \o s
    BY <1>2
  <2> DEFINE at == Referent[f][ref]
  <2>2. ref \in AllPaths /\ at \in AllPaths
    BY ReferentAssumption
  <2> HIDE DEF at
  <2>3. ref \in Seq(Steps) /\ at \in Seq(Steps) /\ s \in Seq(Steps) /\ step \in Seq(Steps)
    BY <2>2 DEF AllPaths, Steps
  <2>4. (ref \o s) \o step = ref \o (s \o step)
    BY <2>3, ConcatAssociative
  <2>5. (at \o s) \o step = at \o (s \o step)
    BY <2>3, ConcatAssociative
  <2>6. s \o step \in AllPaths
    BY PathsCompose
  <2> QED
    BY <2>1, <2>4, <2>5, <2>6 DEF Evaluates, at
<1> QED
  BY <1>1, <1>2 DEF Evaluates

(* Going into a member of a record. *)
LEMMA IntoMember ==
    ASSUME NEW pl \in Plugins, NEW f \in Functors, NEW p \in AllPaths, NEW t \in DOMAIN TypeDef,
           TypeDef[t].kind = "record", ~IsView(t), NEW x \in PartsOf(pl, t),
           Leads(pl, f, p, t), Reaches(pl, f, p, t)
    PROVE  /\ x[2] \in DOMAIN TypeDef /\ p \o <<x[1]>> \in AllPaths
           /\ Leads(pl, f, p \o <<x[1]>>, x[2]) /\ Reaches(pl, f, p \o <<x[1]>>, x[2])
<1> DEFINE step == <<x[1]>>
           u == x[2]
<1>1. step \in AllPaths /\ u \in DOMAIN TypeDef /\ \A q \in Named(pl, u) : step \o q \in Named(pl, t)
  BY NamedInParts
<1>2. p \o step \in AllPaths
  BY <1>1, PathsCompose
<1>3. PICK e \in AllPaths : Evaluates(f, p, e) /\ \A q \in Named(pl, t) : e \o q \in Target(pl, f)
  BY DEF Leads
<1>4. Reaches(pl, f, p \o step, u)
  <2> SUFFICES ASSUME pl = "clang", NEW q \in AllPaths, NEW v \in DOMAIN TypeDef,
                      [path |-> q, type |-> v] \in ReachedIn[u]
               PROVE  [path |-> (p \o step) \o q, type |-> v] \in ReachedIn[NonReference(f)]
    BY DEF Reaches
  <2>1. PICK n \in DOMAIN TypeDef[t].fields : x = <<Step("field", n), TypeDef[t].fields[n]>>
    BY DEF PartsOf
  <2> DEFINE y == [path |-> q, type |-> v]
  <2>2. y \in ReachedIn[u] /\ y.path = q /\ y.type = v
    OBVIOUS
  <2>3. [path |-> step \o q, type |-> v] \in ReachedIn[t]
    BY <2>1, <2>2, ReachedSteps
  <2>4. step \o q \in AllPaths
    BY <1>1, PathsCompose
  <2>5. (p \o step) \o q = p \o (step \o q)
    BY <1>1, PathsAssociate
  <2> HIDE DEF step, u
  <2> QED
    BY <2>3, <2>4, <2>5 DEF Reaches
<1> HIDE DEF step, u
<1>5. e \o step \in AllPaths /\ Evaluates(f, p \o step, e \o step)
  <2>1. e \o step \in AllPaths
    BY <1>1, PathsCompose
  <2> QED
    BY <1>1, <1>3, <2>1, EvaluatesFurther
<1>6. ASSUME NEW q \in Named(pl, u) PROVE (e \o step) \o q \in Target(pl, f)
  <2>1. q \in AllPaths /\ step \o q \in Named(pl, t)
    BY <1>1, NamedIsTyped
  <2>2. (e \o step) \o q = e \o (step \o q)
    BY <1>1, <2>1, PathsCompose, Zenon
  <2> QED
    BY <1>3, <2>1, <2>2
<1>7. Leads(pl, f, p \o step, u)
  BY <1>5, <1>6 DEF Leads
<1> QED
  BY <1>1, <1>2, <1>4, <1>7 DEF step, u

(* The expression for a View that is noted evaluates to one of those that  *)
(* are to be found.                                                        *)
LEMMA ViewIsFound ==
    ASSUME NEW pl \in Plugins, NEW f \in Functors, NEW p \in AllPaths, NEW t \in DOMAIN TypeDef,
           IsView(t), Leads(pl, f, p, t)
    PROVE  \E e \in Target(pl, f) : DataOf(f, p) = <<f, e>>
<1>1. PICK e \in AllPaths : Evaluates(f, p, e) /\ \A q \in Named(pl, t) : e \o q \in Target(pl, f)
  BY DEF Leads
<1>2. e \in Target(pl, f)
  <2>1. << >> \in Named(pl, t)
    BY NamedElsewhere
  <2>2. e \o << >> = e
    BY EmptyPath
  <2> QED
    BY <1>1, <2>1, <2>2
<1>3. CASE e = p
  <2>1. p \in ContainedIn[NonReference(f)]
    BY <1>2, <1>3 DEF Target, Named
  <2> QED
    BY <1>2, <1>3, <2>1, DataDirect
<1>4. CASE \E ref \in DOMAIN Referent[f], s \in AllPaths : p = ref \o s /\ e = Referent[f][ref] \o s
  BY <1>2, <1>4, DataBehind
<1> QED
  BY <1>1, <1>3, <1>4 DEF Evaluates

-----------------------------------------------------------------------------
(* The walk.                                                               *)

(* What is left to visit leads to Views that are to be found, what was     *)
(* noted evaluates to such Views, and each of them was noted or is in what *)
(* is left.                                                                *)
WalkInv(pl, f, ms, vs) ==
    /\ ms \in Seq(Members) /\ vs \in Seq(AllPaths)
    /\ \A m \in Range(ms) : Leads(pl, f, m.path, m.type) /\ Reaches(pl, f, m.path, m.type)
    /\ \A p \in Range(vs) : \E e \in Target(pl, f) : DataOf(f, p) = <<f, e>>
    /\ \A p \in Target(pl, f) :
         p \in Range(vs) \/ \E m \in Range(ms) : \E q \in Named(pl, m.type) : p = m.path \o q

(* The members that are visited instead of a record: all that is to be     *)
(* found in the record is in one of them.                                  *)
LEMMA MembersLead ==
    ASSUME plugin \in Plugins, NEW f \in Functors, NEW p \in AllPaths, NEW t \in DOMAIN TypeDef,
           TypeDef[t].kind = "record", ~IsView(t),
           Leads(plugin, f, p, t), Reaches(plugin, f, p, t)
    PROVE  /\ MembersOf(t, p) \in Seq(Members)
           /\ \A m \in Range(MembersOf(t, p)) :
                Leads(plugin, f, m.path, m.type) /\ Reaches(plugin, f, m.path, m.type)
           /\ \A q \in Named(plugin, t) : \E m \in Range(MembersOf(t, p)) :
                \E r \in Named(plugin, m.type) : p \o q = m.path \o r
<1>1. /\ MembersOf(t, p) \in Seq(Members)
      /\ Range(MembersOf(t, p)) = {MemberAt(p, x) : x \in PartsOf(plugin, t)}
  BY MembersAre
<1>2. \A x : MemberAt(p, x).path = p \o <<x[1]>> /\ MemberAt(p, x).type = x[2]
  BY DEF MemberAt
<1>3. ASSUME NEW x \in PartsOf(plugin, t)
      PROVE  Leads(plugin, f, p \o <<x[1]>>, x[2]) /\ Reaches(plugin, f, p \o <<x[1]>>, x[2])
  BY IntoMember
<1>4. ASSUME NEW q \in Named(plugin, t)
      PROVE  \E x \in PartsOf(plugin, t) : \E r \in Named(plugin, x[2]) : p \o q = (p \o <<x[1]>>) \o r
  <2>1. PICK x \in PartsOf(plugin, t) : \E r \in Named(plugin, x[2]) : q = <<x[1]>> \o r
    BY NamedInParts
  <2>2. PICK r \in Named(plugin, x[2]) : q = <<x[1]>> \o r
    BY <2>1
  <2>3. <<x[1]>> \in AllPaths /\ x[2] \in DOMAIN TypeDef
    BY NamedInParts
  <2>4. r \in AllPaths
    BY <2>3, NamedIsTyped
  <2> DEFINE step == <<x[1]>>
  <2> HIDE DEF step
  <2>5. p \in Seq(Steps) /\ step \in Seq(Steps) /\ r \in Seq(Steps)
    BY <2>3, <2>4 DEF AllPaths, Steps, step
  <2>6. (p \o step) \o r = p \o (step \o r)
    BY <2>5, ConcatAssociative
  <2> QED
    BY <2>2, <2>6 DEF step
<1> DEFINE ms == MembersOf(t, p)
<1>5. ASSUME NEW m \in Range(ms)
      PROVE  Leads(plugin, f, m.path, m.type) /\ Reaches(plugin, f, m.path, m.type)
  <2>1. PICK x \in PartsOf(plugin, t) : m = MemberAt(p, x)
    BY <1>1
  <2>2. m.path = p \o <<x[1]>> /\ m.type = x[2]
    BY <1>2, <2>1
  <2> QED
    BY <1>3, <2>2
<1>6. ASSUME NEW q \in Named(plugin, t)
      PROVE  \E m \in Range(ms) : \E r \in Named(plugin, m.type) : p \o q = m.path \o r
  <2>1. PICK x \in PartsOf(plugin, t) : \E r \in Named(plugin, x[2]) : p \o q = (p \o <<x[1]>>) \o r
    BY <1>4
  <2> DEFINE m == MemberAt(p, x)
  <2>2. m \in Range(ms) /\ m.path = p \o <<x[1]>> /\ m.type = x[2]
    BY <1>1, <1>2
  <2> HIDE DEF m, ms
  <2> QED
    BY <2>1, <2>2
<1> QED
  BY <1>1, <1>5, <1>6

(* The walk begins with all that is to be found. *)
LEMMA WalkBegins ==
    ASSUME plugin \in Plugins, NEW f \in Functors, TypeDef[NonReference(f)].kind = "record"
    PROVE  WalkInv(plugin, f, IF plugin = "gcc" THEN <<[type |-> NonReference(f), path |-> << >>]>>
                              ELSE MembersOf(NonReference(f), << >>), << >>)
<1> DEFINE t == NonReference(f)
           root == [type |-> t, path |-> << >>]
<1>1. t \in DOMAIN TypeDef
  BY PluginAssumption, NonReferenceIsType
<1>2. << >> \in AllPaths
  BY DEF AllPaths
<1>3. \A q \in AllPaths : << >> \o q = q
  <2> SUFFICES ASSUME NEW q \in AllPaths PROVE << >> \o q = q
    OBVIOUS
  <2>1. q \in Seq(Steps)
    BY DEF AllPaths, Steps
  <2> QED
    BY <2>1, ConcatEmptySeq
<1>4. \A q \in Named(plugin, t) : q \in AllPaths /\ << >> \o q = q
  BY <1>1, <1>3, NamedIsTyped
<1>5. Leads(plugin, f, << >>, t)
  BY <1>2, <1>4 DEF Leads, Evaluates, Target
<1>6. Reaches(plugin, f, << >>, t)
  BY <1>3 DEF Reaches
<1>7. CASE plugin = "gcc"
  <2>1. <<root>> \in Seq(Members) /\ Range(<<root>>) = {root} /\ root.type = t /\ root.path = << >>
    BY <1>1, <1>2 DEF Members, Range
  <2>2. << >> \in Seq(AllPaths) /\ Range(<< >>) = {}
    BY DEF Range
  <2> HIDE DEF t, root
  <2>3. \A p \in Target(plugin, f) : \E q \in Named(plugin, root.type) : p = root.path \o q
    BY <1>4, <2>1 DEF Target, t
  <2>4. WalkInv(plugin, f, <<root>>, << >>)
    BY <1>5, <1>6, <2>1, <2>2, <2>3 DEF WalkInv
  <2> QED
    BY <1>7, <2>4 DEF root, t
<1>8. CASE plugin # "gcc"
  <2>1. plugin = "clang" /\ ~IsView(t)
    BY <1>8, PluginAssumption, ReferentAssumption
  <2> DEFINE ms == MembersOf(t, << >>)
             none == << >>
  <2>2. /\ ms \in Seq(Members)
        /\ \A m \in Range(ms) : Leads(plugin, f, m.path, m.type) /\ Reaches(plugin, f, m.path, m.type)
        /\ \A q \in Named(plugin, t) : \E m \in Range(ms) :
             \E r \in Named(plugin, m.type) : << >> \o q = m.path \o r
    BY <1>1, <1>2, <1>5, <1>6, <2>1, MembersLead
  <2>3. none \in Seq(AllPaths) /\ Range(none) = {}
    BY DEF Range
  <2>4. \A q \in Target(plugin, f) : \E m \in Range(ms) : \E r \in Named(plugin, m.type) : q = m.path \o r
    <3> HIDE DEF ms, t
    <3>1. \A q \in Named(plugin, t) : \E m \in Range(ms) : \E r \in Named(plugin, m.type) : q = m.path \o r
      <4> SUFFICES ASSUME NEW q \in Named(plugin, t)
                   PROVE  \E m \in Range(ms) : \E r \in Named(plugin, m.type) : q = m.path \o r
        OBVIOUS
      <4>1. << >> \o q = q
        BY <1>4
      <4>2. PICK m \in Range(ms) : \E r \in Named(plugin, m.type) : << >> \o q = m.path \o r
        BY <2>2
      <4> QED
        BY <4>1, <4>2
    <3> QED
      BY <3>1, Zenon DEF Target, t
  <2> HIDE DEF ms, none
  <2>5. WalkInv(plugin, f, ms, none)
    BY <2>2, <2>3, <2>4 DEF WalkInv
  <2> QED
    BY <1>8, <2>5 DEF ms, none
<1> QED
  BY <1>7, <1>8

(* One call of visit. *)
LEMMA WalkGoesOn ==
    ASSUME plugin \in Plugins, NEW f \in Functors, NEW ms, NEW vs, WalkInv(plugin, f, ms, vs),
           ms # << >>, NEW t, t = Visited(plugin, Head(ms).type)
    PROVE  WalkInv(plugin, f, IF TypeDef[t].kind = "record" /\ ~IsView(t)
                              THEN MembersOf(t, Head(ms).path) \o Tail(ms) ELSE Tail(ms),
                   IF IsView(t) THEN Append(vs, Head(ms).path) ELSE vs)
<1> DEFINE m == Head(ms)
           p == m.path
           rest == Tail(ms)
<1>1. /\ ms \in Seq(Members) /\ vs \in Seq(AllPaths)
      /\ \A n \in Range(ms) : Leads(plugin, f, n.path, n.type) /\ Reaches(plugin, f, n.path, n.type)
      /\ \A q \in Range(vs) : \E e \in Target(plugin, f) : DataOf(f, q) = <<f, e>>
      /\ \A q \in Target(plugin, f) : \/ q \in Range(vs)
                                      \/ \E n \in Range(ms) : \E r \in Named(plugin, n.type) : q = n.path \o r
  BY DEF WalkInv
<1>2. /\ m \in Members /\ rest \in Seq(Members)
      /\ Range(ms) = {m} \cup Range(rest)
  BY <1>1, RangeOfTail
<1>3. p \in AllPaths /\ m.type \in DOMAIN TypeDef
  BY <1>2 DEF Members
<1>4. t \in DOMAIN TypeDef
  BY <1>3, NonReferenceIsType DEF Visited
<1>5. Leads(plugin, f, p, m.type) /\ Reaches(plugin, f, p, m.type)
  BY <1>1, <1>2
<1>6. Leads(plugin, f, p, t) /\ Reaches(plugin, f, p, t)
  BY <1>3, <1>5, BehindReference
<1>7. Named(plugin, m.type) = Named(plugin, t) \/ Named(plugin, m.type) = {}
  BY <1>3, NamedElsewhere DEF Visited, NonReference
<1> HIDE DEF m, p, rest
<1>8. ASSUME NEW q \in Target(plugin, f)
      PROVE  \/ q \in Range(vs) \/ \E r \in Named(plugin, t) : q = p \o r
             \/ \E n \in Range(rest) : \E r \in Named(plugin, n.type) : q = n.path \o r
  <2>1. CASE q \in Range(vs)
    BY <2>1
  <2>2. CASE \E n \in Range(ms) : \E r \in Named(plugin, n.type) : q = n.path \o r
    <3>1. PICK n \in Range(ms) : \E r \in Named(plugin, n.type) : q = n.path \o r
      BY <2>2
    <3>2. CASE n = m
      BY <1>7, <3>1, <3>2 DEF p
    <3> QED
      BY <1>2, <3>1, <3>2
  <2> QED
    BY <1>1, <2>1, <2>2
<1>9. CASE TypeDef[t].kind = "record" /\ ~IsView(t)
  <2> DEFINE ns == MembersOf(t, p)
  <2>1. /\ ns \in Seq(Members)
        /\ \A n \in Range(ns) : Leads(plugin, f, n.path, n.type) /\ Reaches(plugin, f, n.path, n.type)
        /\ \A q \in Named(plugin, t) : \E n \in Range(ns) :
             \E r \in Named(plugin, n.type) : p \o q = n.path \o r
    BY <1>3, <1>4, <1>6, <1>9, MembersLead
  <2> HIDE DEF ns
  <2>2. ns \o rest \in Seq(Members) /\ Range(ns \o rest) = Range(ns) \cup Range(rest)
    BY <1>2, <2>1, RangeOfConcat
  <2> DEFINE all == ns \o rest
  <2> HIDE DEF all
  <2>3. \A n \in Range(all) : Leads(plugin, f, n.path, n.type) /\ Reaches(plugin, f, n.path, n.type)
    BY <1>1, <1>2, <2>1, <2>2 DEF all
  <2>4. ASSUME NEW q \in Target(plugin, f)
        PROVE  q \in Range(vs) \/ \E n \in Range(all) : \E r \in Named(plugin, n.type) : q = n.path \o r
    <3>1. CASE \E r \in Named(plugin, t) : q = p \o r
      <4>1. PICK r \in Named(plugin, t) : q = p \o r
        BY <3>1
      <4>2. PICK n \in Range(ns) : \E s \in Named(plugin, n.type) : p \o r = n.path \o s
        BY <2>1
      <4>3. n \in Range(all)
        BY <2>2 DEF all
      <4> QED
        BY <4>1, <4>2, <4>3
    <3>2. CASE \E n \in Range(rest) : \E r \in Named(plugin, n.type) : q = n.path \o r
      BY <2>2, <3>2 DEF all
    <3> QED
      BY <1>8, <3>1, <3>2
  <2>5. WalkInv(plugin, f, all, vs)
    BY <1>1, <2>2, <2>3, <2>4 DEF WalkInv, all
  <2> QED
    BY <1>9, <2>5 DEF all, ns, rest, p, m
<1>10. CASE ~(TypeDef[t].kind = "record" /\ ~IsView(t))
  <2> DEFINE ws == IF IsView(t) THEN Append(vs, p) ELSE vs
  <2>1. ws \in Seq(AllPaths) /\ Range(ws) = Range(vs) \cup IF IsView(t) THEN {p} ELSE {}
    <3>1. <<p>> \in Seq(AllPaths) /\ Range(<<p>>) = {p}
      BY <1>3 DEF Range
    <3>2. Append(vs, p) = vs \o <<p>>
      BY <1>1, <1>3, AppendIsConcat
    <3>3. vs \o <<p>> \in Seq(AllPaths) /\ Range(vs \o <<p>>) = Range(vs) \cup Range(<<p>>)
      BY <1>1, <3>1, RangeOfConcat, ZenonT(30)
    <3> QED
      BY <1>1, <3>1, <3>2, <3>3
  <2> HIDE DEF ws
  <2>2. ASSUME NEW q \in Range(ws) PROVE \E e \in Target(plugin, f) : DataOf(f, q) = <<f, e>>
    <3>1. CASE q \in Range(vs)
      BY <1>1, <3>1
    <3>2. CASE IsView(t) /\ q = p
      BY <1>3, <1>4, <1>6, <3>2, ViewIsFound
    <3> QED
      BY <2>1, <3>1, <3>2
  <2>3. \A r \in Named(plugin, t) : p \o r \in Range(ws)
    <3>1. CASE IsView(t)
      <4>1. Named(plugin, t) = {<< >>} /\ p \o << >> = p
        BY <1>3, <1>4, <3>1, NamedElsewhere, EmptyPath
      <4> QED
        BY <2>1, <3>1, <4>1
    <3>2. CASE TypeDef[t].kind # "record"
      BY <1>4, <3>2, NamedElsewhere
    <3> QED
      BY <1>10, <3>1, <3>2
  <2>4. \A n \in Range(rest) : Leads(plugin, f, n.path, n.type) /\ Reaches(plugin, f, n.path, n.type)
    BY <1>1, <1>2
  <2>5. ASSUME NEW q \in Target(plugin, f)
        PROVE  q \in Range(ws) \/ \E n \in Range(rest) : \E r \in Named(plugin, n.type) : q = n.path \o r
    BY <1>8, <2>1, <2>3
  <2>6. WalkInv(plugin, f, rest, ws)
    BY <1>2, <2>1, <2>2, <2>4, <2>5 DEF WalkInv
  <2> QED
    BY <1>10, <2>6 DEF ws, rest, p, m
<1> QED
  BY <1>9, <1>10

(* The Views that a functor should have registered. *)
TargetViews(pl, f) == {<<f, p>> : p \in Target(pl, f)}

(* When nothing is left to visit, the expressions that were noted evaluate *)
(* to these Views and to no other.                                         *)
LEMMA WalkIsComplete ==
    ASSUME NEW pl, NEW f \in Functors, NEW ms, NEW vs, WalkInv(pl, f, ms, vs), ms = << >>
    PROVE  vs \in Seq(AllPaths) /\ {DataOf(f, vs[n]) : n \in DOMAIN vs} = TargetViews(pl, f)
<1>1. /\ vs \in Seq(AllPaths)
      /\ \A p \in Range(vs) : \E e \in Target(pl, f) : DataOf(f, p) = <<f, e>>
      /\ \A p \in Target(pl, f) :
           p \in Range(vs) \/ \E m \in Range(ms) : \E q \in Named(pl, m.type) : p = m.path \o q
  BY DEF WalkInv
<1>2. Range(ms) = {}
  BY DEF Range
<1>3. \A p \in Target(pl, f) : p \in Range(vs) /\ DataOf(f, p) = <<f, p>>
  BY <1>1, <1>2, DataDirect DEF Target, Named
<1> DEFINE data == {DataOf(f, vs[n]) : n \in DOMAIN vs}
<1>4. data \subseteq TargetViews(pl, f)
  BY <1>1 DEF Range, TargetViews
<1>5. TargetViews(pl, f) \subseteq data
  BY <1>3 DEF Range, TargetViews
<1> QED
  BY <1>1, <1>4, <1>5

-----------------------------------------------------------------------------
(* The bodies, and the calls.                                              *)

(* The statements of a body with an expression for each View. *)
Statements(vs) ==
    Append(<<<<"clear_registered_views", << >>>>>> \o [n \in DOMAIN vs |-> <<"register_view", vs[n]>>],
           <<"copy_functor", << >>>>)

Patched(pl, f, b) ==
    \E vs \in Seq(AllPaths) :
        b = Statements(vs) /\ {DataOf(f, vs[n]) : n \in DOMAIN vs} = TargetViews(pl, f)

(* After n statements, the Views of n - 1 expressions are registered. *)
Registered(f, b, n, registered) ==
    \A vs \in Seq(AllPaths) :
        b = Statements(vs) /\ n > 0 =>
            registered = {DataOf(f, vs[k]) : k \in {j \in DOMAIN vs : j < n}}

(* The statements, one by one. *)
LEMMA StatementsAre ==
    ASSUME NEW vs \in Seq(AllPaths)
    PROVE  /\ Len(Statements(vs)) = Len(vs) + 2
           /\ Statements(vs)[1][1] = "clear_registered_views"
           /\ \A n \in DOMAIN vs : Statements(vs)[n + 1] = <<"register_view", vs[n]>>
           /\ Statements(vs)[Len(vs) + 2][1] = "copy_functor"
<1> DEFINE T == {"clear_registered_views", "register_view", "copy_functor"} \X AllPaths
           a == <<<<"clear_registered_views", << >>>>>>
           b == [n \in DOMAIN vs |-> <<"register_view", vs[n]>>]
           z == <<"copy_functor", << >>>>
<1>1. << >> \in AllPaths /\ Len(vs) \in Nat /\ DOMAIN vs = 1 .. Len(vs)
  BY DEF AllPaths
<1>2. a \in Seq(T) /\ Len(a) = 1 /\ a[1][1] = "clear_registered_views" /\ z \in T
  BY <1>1
<1>3. b \in Seq(T) /\ Len(b) = Len(vs) /\ \A n \in DOMAIN vs : b[n] = <<"register_view", vs[n]>>
  <2>1. b \in [1 .. Len(vs) -> T]
    BY <1>1
  <2> QED
    BY <1>1, <2>1
<1>4. z[1] = "copy_functor" /\ Statements(vs) = Append(a \o b, z)
  BY DEF Statements
<1> HIDE DEF T, a, b, z
<1>5. /\ a \o b \in Seq(T) /\ Len(a \o b) = Len(vs) + 1
      /\ \A i \in 1 .. 1 + Len(vs) : (a \o b)[i] = IF i <= 1 THEN a[i] ELSE b[i - 1]
  <2>1. a \in Seq(T) /\ b \in Seq(T)
    BY <1>2, <1>3
  <2>2. /\ a \o b \in Seq(T) /\ Len(a \o b) = Len(a) + Len(b)
        /\ \A i \in 1 .. Len(a) + Len(b) :
             (a \o b)[i] = IF i <= Len(a) THEN a[i] ELSE b[i - Len(a)]
    BY <2>1, ConcatProperties
  <2> QED
    BY <1>1, <1>2, <1>3, <2>2
<1> DEFINE c == a \o b
<1> HIDE DEF c
<1>6. /\ Len(Append(c, z)) = Len(vs) + 2 /\ Append(c, z)[Len(vs) + 2] = z
      /\ \A i \in 1 .. Len(vs) + 1 : Append(c, z)[i] = c[i]
  BY <1>1, <1>2, <1>5, AppendProperties DEF c
<1>7. \A n \in DOMAIN vs : n + 1 \in 1 .. 1 + Len(vs) /\ ~(n + 1 <= 1) /\ n + 1 - 1 = n
  BY <1>1
<1>8. \A n \in DOMAIN vs : Append(c, z)[n + 1] = b[n]
  BY <1>1, <1>5, <1>6, <1>7 DEF c
<1>9. Append(c, z)[1] = a[1]
  BY <1>1, <1>5, <1>6 DEF c
<1> QED
  BY <1>2, <1>3, <1>4, <1>6, <1>8, <1>9 DEF c

(* A statement of a call registers one View more. *)
LEMMA StatementRegisters ==
    ASSUME NEW f, NEW b, NEW n \in Nat, n > 0, n <= Len(b), NEW registered,
           Registered(f, b, n - 1, registered)
    PROVE  Registered(f, b, n, IF b[n][1] = "clear_registered_views" THEN {}
                               ELSE IF b[n][1] = "register_view"
                               THEN registered \cup {DataOf(f, b[n][2])} ELSE registered)
<1> DEFINE new == IF b[n][1] = "clear_registered_views" THEN {}
                  ELSE IF b[n][1] = "register_view"
                  THEN registered \cup {DataOf(f, b[n][2])} ELSE registered
<1> SUFFICES ASSUME NEW vs \in Seq(AllPaths), b = Statements(vs)
             PROVE  new = {DataOf(f, vs[k]) : k \in {j \in DOMAIN vs : j < n}}
  BY DEF Registered
<1>1. /\ Len(b) = Len(vs) + 2 /\ b[1][1] = "clear_registered_views"
      /\ \A k \in DOMAIN vs : b[k + 1] = <<"register_view", vs[k]>>
      /\ b[Len(vs) + 2][1] = "copy_functor"
  BY StatementsAre
<1>2. Len(vs) \in Nat /\ DOMAIN vs = 1 .. Len(vs)
  OBVIOUS
<1>3. n > 1 => registered = {DataOf(f, vs[k]) : k \in {j \in DOMAIN vs : j < n - 1}}
  BY DEF Registered
<1>4. CASE n = 1
  <2>1. {j \in DOMAIN vs : j < n} = {}
    BY <1>2, <1>4
  <2> QED
    BY <1>1, <1>4, <2>1
<1>5. CASE n > 1 /\ n <= Len(vs) + 1
  <2>1. n - 1 \in DOMAIN vs /\ n - 1 + 1 = n
    BY <1>2, <1>5
  <2>2. b[n] = <<"register_view", vs[n - 1]>>
    BY <1>1, <2>1
  <2>3. {j \in DOMAIN vs : j < n} = {j \in DOMAIN vs : j < n - 1} \cup {n - 1}
    BY <1>2, <2>1
  <2>4. new = registered \cup {DataOf(f, vs[n - 1])}
    BY <2>2
  <2> QED
    BY <1>3, <1>5, <2>3, <2>4
<1>6. CASE n = Len(vs) + 2
  <2>1. {j \in DOMAIN vs : j < n} = {j \in DOMAIN vs : j < n - 1}
    BY <1>2, <1>6
  <2>2. new = registered
    BY <1>1, <1>6
  <2>3. n > 1
    BY <1>2, <1>6
  <2> QED
    BY <1>3, <2>1, <2>2, <2>3
<1>7. n = 1 \/ (n > 1 /\ n <= Len(vs) + 1) \/ n = Len(vs) + 2
  BY <1>1, <1>2
<1> HIDE DEF new
<1> QED
  BY <1>4, <1>5, <1>6, <1>7, Zenon

(* After the last one, all are registered. *)
LEMMA AllAreRegistered ==
    ASSUME NEW pl, NEW f, NEW b, NEW n \in Nat, n > Len(b), NEW registered,
           Patched(pl, f, b), Registered(f, b, n - 1, registered)
    PROVE  registered = TargetViews(pl, f)
<1>1. PICK vs \in Seq(AllPaths) :
        b = Statements(vs) /\ {DataOf(f, vs[k]) : k \in DOMAIN vs} = TargetViews(pl, f)
  BY DEF Patched
<1>2. Len(b) = Len(vs) + 2 /\ Len(vs) \in Nat /\ DOMAIN vs = 1 .. Len(vs)
  BY <1>1, StatementsAre
<1>3. registered = {DataOf(f, vs[k]) : k \in {j \in DOMAIN vs : j < n - 1}}
  BY <1>1, <1>2 DEF Registered
<1>4. {j \in DOMAIN vs : j < n - 1} = DOMAIN vs
  BY <1>2
<1> QED
  BY <1>1, <1>3, <1>4

(* The inductive invariant. *)
ControlInv ==
    /\ plugin \in Plugins /\ pc \in Nat
    /\ functor = Nothing => pc = 0
    /\ functor # Nothing => functor \in Functors
    /\ functor = Nothing \/ pc > 0 => toVisit = << >> /\ views = << >>
    /\ \A f \in Functors : f \in toCompile \/ f \in DOMAIN body \/ (functor = f /\ pc = 0)
    /\ DOMAIN body \subseteq Functors
WalkingInv == functor # Nothing /\ pc = 0 => WalkInv(plugin, functor, toVisit, views)
BodiesInv == \A f \in DOMAIN body : Patched(plugin, f, body[f])
CallInv ==
    pc > 0 => /\ functor \in DOMAIN body
              /\ Registered(functor, body[functor], pc - 1, registeredViews)
PluginInv == ControlInv /\ WalkingInv /\ BodiesInv /\ CallInv

(* It holds before the compiler starts. *)
LEMMA PluginInvInit == Init => PluginInv
<1> SUFFICES ASSUME Init PROVE PluginInv
  OBVIOUS
<1>1. DOMAIN body = {}
  BY DEF Init
<1>2. ControlInv
  BY <1>1 DEF Init, ControlInv
<1> QED
  BY <1>1, <1>2 DEF Init, PluginInv, WalkingInv, BodiesInv, CallInv

(* The compiler meets a functor, visits a member or ends a functor. *)
LEMMA PatchKeeps ==
    ASSUME PluginInv, PluginStep PROVE PluginInv'
<1> USE DEF PluginInv
<1>1. ASSUME NEW f \in Functors, BeginPatch(f) PROVE PluginInv'
  <2>1. ControlInv'
    <3>1. /\ functor' = f /\ f # Nothing /\ pc = 0 /\ pc' = 0 /\ plugin' = plugin /\ body' = body
          /\ toCompile' = toCompile \ {f} /\ functor = Nothing
      BY <1>1, TypesAssumption DEF BeginPatch, ControlInv
    <3>2. \A g \in Functors : g \in toCompile' \/ g \in DOMAIN body \/ g = f
      BY <3>1, TypesAssumption DEF ControlInv
    <3> QED
      BY <3>1, <3>2 DEF ControlInv
  <2>2. WalkInv(plugin, f, toVisit', << >>)
    BY <1>1, WalkBegins DEF BeginPatch, ControlInv
  <2>3. WalkingInv'
    BY <1>1, <2>2 DEF BeginPatch, ControlInv, WalkingInv
  <2>4. BodiesInv' /\ CallInv'
    BY <1>1 DEF BeginPatch, ControlInv, BodiesInv, CallInv
  <2> QED
    BY <2>1, <2>3, <2>4
<1>2. ASSUME VisitMember PROVE PluginInv'
  <2>1. ControlInv'
    BY <1>2 DEF VisitMember, ControlInv
  <2> DEFINE t == Visited(plugin, Head(toVisit).type)
  <2>2. /\ toVisit' = IF TypeDef[t].kind = "record" /\ ~IsView(t)
                      THEN MembersOf(t, Head(toVisit).path) \o Tail(toVisit) ELSE Tail(toVisit)
        /\ views' = IF IsView(t) THEN Append(views, Head(toVisit).path) ELSE views
    BY <1>2 DEF VisitMember, Visited, Remaining
  <2>3. WalkInv(plugin, functor, toVisit', views')
    BY <1>2, <2>2, WalkGoesOn DEF VisitMember, ControlInv, WalkingInv
  <2>4. WalkingInv'
    BY <1>2, <2>3 DEF VisitMember, WalkingInv
  <2>5. BodiesInv' /\ CallInv'
    BY <1>2 DEF VisitMember, BodiesInv, CallInv
  <2> QED
    BY <2>1, <2>4, <2>5
<1>3. ASSUME EndPatch PROVE PluginInv'
  <2>1. /\ DOMAIN body' = DOMAIN body \cup {functor} /\ body'[functor] = Statements(views)
        /\ \A f \in DOMAIN body : f # functor => body'[f] = body[f]
    BY <1>3 DEF EndPatch, PatchedBody, Statements
  <2>2. ControlInv'
    BY <1>3, <2>1 DEF EndPatch, ControlInv
  <2>3. Patched(plugin, functor, Statements(views))
    <3>1. functor \in Functors /\ WalkInv(plugin, functor, toVisit, views) /\ toVisit = << >>
      BY <1>3 DEF EndPatch, ControlInv, WalkingInv
    <3>2. /\ views \in Seq(AllPaths)
          /\ {DataOf(functor, views[n]) : n \in DOMAIN views} = TargetViews(plugin, functor)
      BY <3>1, WalkIsComplete
    <3> QED
      BY <3>2, Zenon DEF Patched
  <2>4. BodiesInv'
    BY <1>3, <2>1, <2>3 DEF EndPatch, BodiesInv
  <2>5. WalkingInv' /\ CallInv'
    BY <1>3 DEF EndPatch, WalkingInv, CallInv
  <2> QED
    BY <2>2, <2>4, <2>5
<1> QED
  BY <1>1, <1>2, <1>3 DEF PluginStep

(* The program calls replay_functor, executes a statement or returns. *)
LEMMA ProgramKeeps ==
    ASSUME PluginInv, ProgramStep \/ \E f \in Functors : CallReplayFunctor(f) PROVE PluginInv'
<1> USE DEF PluginInv
<1>1. ASSUME NEW f \in Functors, CallReplayFunctor(f) PROVE PluginInv'
  <2>1. ControlInv' /\ f \in DOMAIN body
    BY <1>1, TypesAssumption DEF CallReplayFunctor, ControlInv
  <2>2. Registered(f, body[f], 0, registeredViews)
    BY DEF Registered
  <2>3. CallInv'
    BY <1>1, <2>1, <2>2 DEF CallReplayFunctor, CallInv
  <2>4. WalkingInv' /\ BodiesInv'
    BY <1>1 DEF CallReplayFunctor, WalkingInv, BodiesInv
  <2> QED
    BY <2>1, <2>3, <2>4
<1>2. ASSUME ExecuteStatement PROVE PluginInv'
  <2> DEFINE b == body[functor]
             new == IF b[pc][1] = "clear_registered_views" THEN {}
                    ELSE IF b[pc][1] = "register_view"
                    THEN registeredViews \cup {DataOf(functor, b[pc][2])} ELSE registeredViews
  <2>1. ControlInv'
    BY <1>2 DEF ExecuteStatement, ControlInv
  <2>2. registeredViews' = new
    BY <1>2 DEF ExecuteStatement
  <2>3. Registered(functor, b, pc - 1, registeredViews) /\ pc \in Nat /\ pc > 0 /\ pc <= Len(b)
    BY <1>2 DEF ExecuteStatement, CallInv, ControlInv
  <2>4. Registered(functor, b, pc, new)
    BY <2>3, StatementRegisters
  <2>5. pc' - 1 = pc /\ functor \in DOMAIN body
    BY <1>2, <2>3 DEF ExecuteStatement, CallInv
  <2> HIDE DEF new
  <2>6. CallInv'
    BY <1>2, <2>2, <2>4, <2>5 DEF ExecuteStatement, CallInv
  <2>7. WalkingInv' /\ BodiesInv'
    BY <1>2, <2>3 DEF ExecuteStatement, WalkingInv, BodiesInv
  <2> QED
    BY <2>1, <2>6, <2>7
<1>3. ASSUME Return PROVE PluginInv'
  BY <1>3 DEF Return, ControlInv, WalkingInv, BodiesInv, CallInv
<1> QED
  BY <1>1, <1>2, <1>3 DEF ProgramStep

(* So does every step. *)
LEMMA PluginInvNext == PluginInv /\ [Next]_vars => PluginInv'
<1>1. ASSUME PluginInv, UNCHANGED vars PROVE PluginInv'
  BY <1>1 DEF vars, PluginInv, ControlInv, WalkingInv, BodiesInv, CallInv
<1> QED
  BY <1>1, PatchKeeps, ProgramKeeps DEF Next

(* RegisteredAreContained, of the invariant. *)
LEMMA PluginInvImplies == PluginInv => RegisteredAreContained
<1> SUFFICES ASSUME PluginInv, IsLaunching
             PROVE  registeredViews = {v \in ViewsContained(functor) : CanName(v[2])}
  BY DEF RegisteredAreContained
<1>1. registeredViews = TargetViews(plugin, functor)
  <2>1. /\ Patched(plugin, functor, body[functor]) /\ pc \in Nat /\ pc > Len(body[functor])
        /\ Registered(functor, body[functor], pc - 1, registeredViews)
    BY DEF PluginInv, ControlInv, BodiesInv, CallInv, IsLaunching
  <2> QED
    BY <2>1, AllAreRegistered
<1>2. \A p : NameBy(plugin, p) <=> CanName(p)
  BY DEF NameBy, CanName
<1> QED
  BY <1>1, <1>2 DEF TargetViews, Target, Named, ViewsContained

(* For every program and both plugins: whenever replay_functor is about to *)
(* launch, after any calls with any functors, the Views that its           *)
(* statements have registered are exactly the ones contained in the        *)
(* functor that the plugin can name (patch_replay_functor, ast_callback).  *)
THEOREM LaunchHasItsViews == Spec => []RegisteredAreContained
  BY PluginInvInit, PluginInvNext, PluginInvImplies, PTL DEF Spec

=============================================================================
