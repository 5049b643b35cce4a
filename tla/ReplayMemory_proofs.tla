------------------------- MODULE ReplayMemory_proofs -------------------------
(***************************************************************************)
(* Proofs about AddressRanges and ReplayMemory, for every granularity,     *)
(* every set of dumped allocations and whatever the rest of the process    *)
(* maps meanwhile: first the ranges that compute_allocations makes, then   *)
(* what the back ends map for them.                                        *)
(***************************************************************************)
EXTENDS ReplayMemory, FiniteSetTheorems, TLAPS

-----------------------------------------------------------------------------
(* Arithmetic of pages.                                                    *)

(* n is a whole number of pages. *)
Multiple(n) == \E m \in Nat : n = m * Granularity

(* Division rounds down. *)
LEMMA DivisionBounds ==
    ASSUME NEW a \in Nat
    PROVE  /\ a \div Granularity \in Nat
           /\ (a \div Granularity) * Granularity <= a
           /\ a < (a \div Granularity) * Granularity + Granularity
  BY RangesAssumption

(* The sum of two numbers of pages, and their difference, are such numbers. *)
LEMMA MultipleSum ==
    ASSUME NEW a \in Nat, NEW b \in Nat, Multiple(a), Multiple(b)
    PROVE  Multiple(a + b) /\ (a >= b => Multiple(a - b))
<1>1. PICK m \in Nat : a = m * Granularity
  BY DEF Multiple
<1>2. PICK n \in Nat : b = n * Granularity
  BY DEF Multiple
<1>3. a + b = (m + n) * Granularity /\ a - b = (m - n) * Granularity
  BY <1>1, <1>2, RangesAssumption
<1>4. a >= b => m >= n
  BY <1>1, <1>2, RangesAssumption
<1>5. m + n \in Nat /\ (m >= n => m - n \in Nat)
  OBVIOUS
<1> QED
  BY <1>3, <1>4, <1>5 DEF Multiple

(* A number of pages has no remainder. *)
LEMMA MultipleRemainder ==
    ASSUME NEW a \in Nat, Multiple(a)
    PROVE  a % Granularity = 0
<1>1. PICK m \in Nat : a = m * Granularity
  BY DEF Multiple
<1> QED
  BY <1>1, RangesAssumption

(* get_allocation_address returns whole pages that cover the allocation.   *)
LEMMA RoundedCovers ==
    ASSUME NEW e \in Nat \X (Nat \ {0})
    PROVE  /\ Rounded(e) \in Nat \X (Nat \ {0})
           /\ Multiple(Rounded(e)[1]) /\ Multiple(Rounded(e)[2])
           /\ Rounded(e)[1] <= e[1] /\ End(e) <= End(Rounded(e))
<1> DEFINE q == e[1] \div Granularity
           aligned == q * Granularity
           covered == e[2] + (e[1] - aligned)
           p == (covered - 1) \div Granularity
           total == (p + 1) * Granularity
<1>1. Granularity \in Nat /\ Granularity # 0 /\ e[1] \in Nat /\ e[2] \in Nat /\ e[2] # 0
  BY RangesAssumption
<1>2. q \in Nat /\ aligned <= e[1]
  BY <1>1, DivisionBounds
<1>3. aligned \in Nat
  BY <1>1, <1>2
<1>4. covered \in Nat /\ covered - 1 \in Nat
  <2> HIDE DEF aligned
  <2> QED
    BY <1>1, <1>2, <1>3
<1>5. p \in Nat /\ covered - 1 < p * Granularity + Granularity
  <2> HIDE DEF covered
  <2> QED
    BY <1>4, DivisionBounds
<1>6. Rounded(e) = <<aligned, total>>
  BY DEF Rounded, GetAllocationAddress
<1>7. total = p * Granularity + Granularity /\ total \in Nat /\ total # 0
  <2> HIDE DEF p
  <2> QED
    BY <1>1, <1>5
<1>8. Multiple(aligned) /\ Multiple(total)
  <2> HIDE DEF p, q
  <2> QED
    BY <1>2, <1>5 DEF Multiple
<1>9. e[1] + e[2] <= aligned + total
  <2> HIDE DEF aligned, total, p
  <2>1. covered = e[2] + (e[1] - aligned)
    OBVIOUS
  <2> HIDE DEF covered
  <2>2. covered <= total
    BY <1>4, <1>5, <1>7
  <2> QED
    BY <2>1, <2>2, <1>1, <1>2, <1>3, <1>7
<1> HIDE DEF aligned, total
<1> QED
  BY <1>2, <1>3, <1>6, <1>7, <1>8, <1>9 DEF End

-----------------------------------------------------------------------------
Ranges == remaining \cup current \cup allocs

(* The walk: one current range at most, before it the emitted ranges and   *)
(* after it the ones that remain.                                          *)
WalkIsOrdered ==
    /\ \A c, d \in current : c = d
    /\ \A c \in current : \A r \in remaining : c[1] <= r[1]
    /\ \A c \in current : \A a \in allocs : End(a) <= c[1]
    /\ (current = {} /\ ~returned) => allocs = {}
    /\ returned => remaining = {} /\ current = {}

(* Every range is made of whole pages. *)
PagesAreWhole == \A r \in Ranges : Multiple(r[1]) /\ Multiple(r[2])

(* What the walk has passed is covered. *)
PassedIsCovered ==
    \A e \in entries :
        \/ Rounded(e) \in remaining
        \/ \E a \in allocs \cup current :
              a[1] <= Rounded(e)[1] /\ End(Rounded(e)) <= End(a)

RangesInv ==
    /\ RangesTypeOK
    /\ WalkIsOrdered
    /\ PagesAreWhole
    /\ RangesAreDisjoint
    /\ PassedIsCovered

(* The invariant holds initially. *)
LEMMA RangesInvInit == RangesInit => RangesInv
<1> SUFFICES ASSUME RangesInit PROVE RangesInv
  OBVIOUS
<1>1. entries \subseteq Nat \X (Nat \ {0})
  BY RangesAssumption DEF RangesInit
<1>2. \A e \in entries : /\ Rounded(e) \in Nat \X (Nat \ {0})
                         /\ Multiple(Rounded(e)[1]) /\ Multiple(Rounded(e)[2])
  BY <1>1, RoundedCovers
<1>3. RangesTypeOK
  BY <1>1, <1>2 DEF RangesInit, RangesTypeOK
<1>4. PagesAreWhole
  BY <1>2 DEF RangesInit, PagesAreWhole, Ranges
<1>5. WalkIsOrdered /\ RangesAreDisjoint /\ PassedIsCovered
  BY DEF RangesInit, WalkIsOrdered, RangesAreDisjoint, PassedIsCovered
<1> QED
  BY <1>3, <1>4, <1>5 DEF RangesInv

(* The step that takes the first range off and starts the walk. *)
LEMMA StartPreserves ==
    ASSUME RangesInv, NEW range \in remaining, IsFirst(range, remaining),
           remaining' = remaining \ {range}, UNCHANGED <<entries, returned>>,
           Start(range)
    PROVE  RangesInv'
<1>1. allocs = {} /\ ~returned /\ allocs' = {} /\ ~returned'
  BY DEF RangesInv, WalkIsOrdered, Start
<1>2. RangesTypeOK'
  BY DEF RangesInv, RangesTypeOK, Start
<1>3. \A r \in remaining : range[1] <= r[1]
  BY DEF IsFirst, RangesInv, RangesTypeOK
<1>4. WalkIsOrdered'
  BY <1>1, <1>3 DEF WalkIsOrdered, Start
<1>5. PagesAreWhole'
  BY <1>1 DEF RangesInv, PagesAreWhole, Ranges, Start, Multiple
<1>6. RangesAreDisjoint'
  BY <1>1 DEF RangesAreDisjoint
<1>7. PassedIsCovered'
  <2> SUFFICES ASSUME NEW e \in entries', Rounded(e) \notin remaining'
               PROVE  \E a \in (allocs \cup current)' :
                        a[1] <= Rounded(e)[1] /\ End(Rounded(e)) <= End(a)
    BY DEF PassedIsCovered, Rounded, GetAllocationAddress, End
  <2>1. Rounded(e) = range
    BY <1>1 DEF RangesInv, PassedIsCovered, Start
  <2>2. range \in current' /\ range[1] <= range[1] /\ End(range) <= End(range)
    BY DEF Start, RangesInv, RangesTypeOK, End
  <2> QED
    BY <2>1, <2>2
<1> QED
  BY <1>2, <1>4, <1>5, <1>6, <1>7 DEF RangesInv

(* The step that extends the current range to the end of the next one. *)
LEMMA MergePreserves ==
    ASSUME RangesInv, NEW range \in remaining, IsFirst(range, remaining),
           remaining' = remaining \ {range}, UNCHANGED <<entries, returned>>,
           Merge(range)
    PROVE  RangesInv'
<1>1. PICK c \in current :
         /\ End(c) > range[1]
         /\ current' = {<<c[1], IF End(range) - c[1] > c[2] THEN End(range) - c[1] ELSE c[2]>>}
         /\ allocs' = allocs
  BY DEF Merge
<1> DEFINE s == IF End(range) - c[1] > c[2] THEN End(range) - c[1] ELSE c[2]
<1>2. /\ c \in Nat \X (Nat \ {0}) /\ range \in Nat \X (Nat \ {0})
      /\ c[1] <= range[1] /\ current = {c}
      /\ c[1] \in Nat /\ c[2] \in Nat /\ c[2] # 0
      /\ range[1] \in Nat /\ range[2] \in Nat /\ range[2] # 0
  BY DEF RangesInv, RangesTypeOK, WalkIsOrdered
<1>3. s \in Nat /\ s # 0 /\ s >= c[2] /\ c[1] + s >= End(range)
  BY <1>2 DEF End
<1>4. Multiple(s)
  <2>1. Multiple(c[1]) /\ Multiple(c[2]) /\ Multiple(range[1]) /\ Multiple(range[2])
    BY DEF RangesInv, PagesAreWhole, Ranges
  <2>2. Multiple(range[1] + range[2]) /\ range[1] + range[2] \in Nat
    <3>1. range[1] + range[2] \in Nat
      BY <1>2
    <3>2. Multiple(range[1] + range[2])
      BY <1>2, <2>1, MultipleSum, Zenon
    <3> QED
      BY <3>1, <3>2
  <2>3. Multiple((range[1] + range[2]) - c[1])
    BY <1>2, <2>1, <2>2, MultipleSum
  <2> QED
    BY <2>1, <2>3 DEF End
<1>5. current' = {<<c[1], s>>} /\ <<c[1], s>>[1] = c[1] /\ <<c[1], s>>[2] = s
  BY <1>1
<1> HIDE DEF s
<1>6. RangesTypeOK'
  BY <1>1, <1>2, <1>3, <1>5 DEF RangesInv, RangesTypeOK
<1>7. WalkIsOrdered'
  <2>1. \A d, f \in current' : d = f
    BY <1>5
  <2>2. \A d \in current' : \A r \in remaining' : d[1] <= r[1]
    BY <1>2, <1>5 DEF RangesInv, WalkIsOrdered
  <2>3. \A d \in current' : \A a \in allocs' : End(a) <= d[1]
    BY <1>1, <1>2, <1>5 DEF RangesInv, WalkIsOrdered
  <2>4. current' # {} /\ ~returned'
    BY <1>2, <1>5 DEF RangesInv, WalkIsOrdered
  <2> QED
    BY <2>1, <2>2, <2>3, <2>4 DEF WalkIsOrdered, End
<1>8. PagesAreWhole'
  <2> SUFFICES ASSUME NEW r \in Ranges' PROVE Multiple(r[1]) /\ Multiple(r[2])
    BY DEF PagesAreWhole, Multiple
  <2>1. r \in Ranges \/ r = <<c[1], s>>
    BY <1>1, <1>5 DEF Ranges
  <2> QED
    BY <1>2, <1>4, <1>5, <2>1 DEF RangesInv, PagesAreWhole, Ranges
<1>9. RangesAreDisjoint'
  BY <1>1 DEF RangesInv, RangesAreDisjoint, End
<1>10. PassedIsCovered'
  <2> SUFFICES ASSUME NEW e \in entries, Rounded(e) \notin remaining'
               PROVE  \E a \in (allocs \cup current)' :
                        a[1] <= Rounded(e)[1] /\ End(Rounded(e)) <= End(a)
    BY DEF PassedIsCovered, Rounded, GetAllocationAddress, End
  <2> DEFINE m == <<c[1], s>>
  <2>1. m \in current' /\ m[1] = c[1] /\ End(m) = c[1] + s
    BY <1>5 DEF End
  <2>2. CASE Rounded(e) = range
    BY <1>2, <1>3, <2>1, <2>2
  <2>3. CASE Rounded(e) # range
    <3>0. Rounded(e) \notin remaining
      BY <2>3
    <3>1. PICK a \in allocs \cup current :
             a[1] <= Rounded(e)[1] /\ End(Rounded(e)) <= End(a)
      BY <3>0 DEF RangesInv, PassedIsCovered
    <3>2. CASE a \in allocs
      BY <1>1, <3>1, <3>2
    <3>3. CASE a = c
      <4>1. e \in Nat \X (Nat \ {0})
        BY DEF RangesInv, RangesTypeOK
      <4>2. Rounded(e)[1] \in Nat /\ Rounded(e)[2] \in Nat /\ End(Rounded(e)) \in Nat
        BY <4>1, RoundedCovers DEF End
      <4>3. End(c) = c[1] + c[2]
        BY DEF End
      <4>4. End(Rounded(e)) <= End(m)
        BY <1>2, <1>3, <2>1, <3>1, <3>3, <4>2, <4>3
      <4> QED
        BY <2>1, <3>1, <3>3, <4>4
    <3> QED
      BY <1>2, <3>1, <3>2, <3>3
  <2> QED
    BY <2>2, <2>3
<1> QED
  BY <1>6, <1>7, <1>8, <1>9, <1>10 DEF RangesInv

(* The step that emits the current range and goes on with the next one. *)
LEMMA EmitPreserves ==
    ASSUME RangesInv, NEW range \in remaining, IsFirst(range, remaining),
           remaining' = remaining \ {range}, UNCHANGED <<entries, returned>>,
           Emit(range)
    PROVE  RangesInv'
<1>1. PICK c \in current :
         ~(End(c) > range[1]) /\ allocs' = allocs \cup {c} /\ current' = {range}
  BY DEF Emit
<1>2. /\ c \in Nat \X (Nat \ {0}) /\ range \in Nat \X (Nat \ {0}) /\ current = {c}
      /\ c[1] <= End(c) /\ End(c) <= range[1] /\ End(c) \in Nat
  BY <1>1 DEF RangesInv, RangesTypeOK, WalkIsOrdered, End
<1>3. \A a \in allocs : /\ a \in Nat \X (Nat \ {0}) /\ End(a) \in Nat
                        /\ End(a) <= c[1] /\ End(a) <= range[1]
  BY <1>2 DEF RangesInv, RangesTypeOK, WalkIsOrdered, End
<1>4. RangesTypeOK'
  BY <1>1, <1>2 DEF RangesInv, RangesTypeOK
<1>5. WalkIsOrdered'
  <2>1. \A r \in remaining : range[1] <= r[1]
    BY DEF IsFirst, RangesInv, RangesTypeOK
  <2>2. current' # {} /\ ~returned'
    BY <1>1 DEF RangesInv, WalkIsOrdered
  <2>3. \A a \in allocs' : End(a) <= range[1]
    BY <1>1, <1>2, <1>3
  <2> QED
    BY <1>1, <2>1, <2>2, <2>3 DEF WalkIsOrdered, End
<1>6. PagesAreWhole'
  BY <1>1 DEF RangesInv, PagesAreWhole, Ranges, Multiple
<1>7. RangesAreDisjoint'
  <2> SUFFICES ASSUME NEW a \in allocs', NEW b \in allocs', a # b
               PROVE  End(a) <= b[1] \/ End(b) <= a[1]
    BY DEF RangesAreDisjoint, End
  <2> QED
    BY <1>1, <1>3 DEF RangesInv, RangesAreDisjoint
<1>8. PassedIsCovered'
  <2> SUFFICES ASSUME NEW e \in entries, Rounded(e) \notin remaining'
               PROVE  \E a \in (allocs \cup current)' :
                        a[1] <= Rounded(e)[1] /\ End(Rounded(e)) <= End(a)
    BY DEF PassedIsCovered, Rounded, GetAllocationAddress, End
  <2>1. CASE Rounded(e) = range
    <3>1. range[1] <= range[1] /\ End(range) <= End(range)
      BY <1>2 DEF End
    <3> QED
      BY <1>1, <2>1, <3>1
  <2>2. CASE Rounded(e) # range
    BY <1>1, <1>2, <2>2 DEF RangesInv, PassedIsCovered
  <2> QED
    BY <2>1, <2>2
<1> QED
  BY <1>4, <1>5, <1>6, <1>7, <1>8 DEF RangesInv

(* The last step of compute_allocations. *)
LEMMA FinishPreserves ==
    ASSUME RangesInv, Finish
    PROVE  RangesInv'
<1>1. RangesTypeOK'
  BY DEF RangesInv, RangesTypeOK, Finish
<1>2. WalkIsOrdered'
  BY DEF WalkIsOrdered, Finish
<1>3. PagesAreWhole'
  BY DEF RangesInv, PagesAreWhole, Ranges, Finish, Multiple
<1>4. RangesAreDisjoint'
  BY DEF RangesInv, RangesAreDisjoint, WalkIsOrdered, Finish, End
<1>5. PassedIsCovered'
  BY DEF RangesInv, PassedIsCovered, Finish, Rounded, GetAllocationAddress, End
<1> QED
  BY <1>1, <1>2, <1>3, <1>4, <1>5 DEF RangesInv

(* The invariant is inductive. *)
LEMMA RangesInvNext == RangesInv /\ [RangesNext]_rangesVars => RangesInv'
<1> SUFFICES ASSUME RangesInv, [RangesNext]_rangesVars PROVE RangesInv'
  OBVIOUS
<1>1. CASE Iterate
  <2>1. PICK range \in remaining :
           /\ IsFirst(range, remaining)
           /\ remaining' = remaining \ {range}
           /\ Start(range) \/ Merge(range) \/ Emit(range)
           /\ UNCHANGED <<entries, returned>>
    BY <1>1 DEF Iterate
  <2> QED
    BY <2>1, StartPreserves, MergePreserves, EmitPreserves
<1>2. CASE Finish
  BY <1>2, FinishPreserves
<1>3. CASE UNCHANGED rangesVars
  BY <1>3 DEF rangesVars, RangesInv, RangesTypeOK, WalkIsOrdered, PagesAreWhole, Ranges,
              RangesAreDisjoint, PassedIsCovered, Rounded, GetAllocationAddress, End, Multiple
<1> QED
  BY <1>1, <1>2, <1>3 DEF RangesNext

(* The invariant holds throughout. *)
LEMMA RangesInvariant == RangesSpec => []RangesInv
  BY RangesInvInit, RangesInvNext, PTL DEF RangesSpec

-----------------------------------------------------------------------------
(* Every variable of compute_allocations keeps its type: no range it works *)
(* with is empty.                                                          *)
THEOREM RangesTypeCorrect == RangesSpec => []RangesTypeOK
<1>1. RangesInv => RangesTypeOK
  BY DEF RangesInv
<1> QED
  BY <1>1, RangesInvariant, PTL

(* Whatever the dump holds, compute_allocations maps every byte of it.     *)
THEOREM EntriesAreCovered == RangesSpec => []EveryEntryIsCovered
<1>1. RangesInv => EveryEntryIsCovered
  <2> SUFFICES ASSUME RangesInv, returned, NEW e \in entries
               PROVE  \E a \in allocs : a[1] <= e[1] /\ End(e) <= End(a)
    BY DEF EveryEntryIsCovered
  <2>1. PICK a \in allocs : a[1] <= Rounded(e)[1] /\ End(Rounded(e)) <= End(a)
    BY DEF RangesInv, PassedIsCovered, WalkIsOrdered
  <2>2. e \in Nat \X (Nat \ {0}) /\ a \in Nat \X (Nat \ {0})
    BY DEF RangesInv, RangesTypeOK
  <2>3. /\ Rounded(e) \in Nat \X (Nat \ {0})
        /\ Rounded(e)[1] <= e[1] /\ End(e) <= End(Rounded(e))
    BY <2>2, RoundedCovers
  <2>4. /\ e[1] \in Nat /\ a[1] \in Nat /\ Rounded(e)[1] \in Nat
        /\ End(e) \in Nat /\ End(a) \in Nat /\ End(Rounded(e)) \in Nat
    BY <2>2, <2>3 DEF End
  <2>5. a[1] <= e[1] /\ End(e) <= End(a)
    BY <2>1, <2>3, <2>4
  <2> QED
    BY <2>5
<1> QED
  BY <1>1, RangesInvariant, PTL

(* The ranges of compute_allocations never overlap, so that no mapping of  *)
(* one is refused because of another.                                      *)
THEOREM MappingsAreDisjoint == RangesSpec => []RangesAreDisjoint
<1>1. RangesInv => RangesAreDisjoint
  BY DEF RangesInv
<1> QED
  BY <1>1, RangesInvariant, PTL

(* The ranges of compute_allocations are whole pages.                      *)
THEOREM MappingsAreAligned == RangesSpec => []RangesAreAligned
<1>1. RangesInv => RangesAreAligned
  <2> SUFFICES ASSUME RangesInv, NEW a \in allocs
               PROVE  a[1] % Granularity = 0 /\ a[2] % Granularity = 0
    BY DEF RangesAreAligned
  <2>1. a[1] \in Nat /\ a[2] \in Nat /\ Multiple(a[1]) /\ Multiple(a[2])
    BY DEF RangesInv, RangesTypeOK, PagesAreWhole, Ranges
  <2> QED
    BY <2>1, MultipleRemainder
<1> QED
  BY <1>1, RangesInvariant, PTL
-----------------------------------------------------------------------------
(* Every page of a range the walk holds has a byte of a dumped allocation. *)

(* Page m holds a byte of entry e. *)
Touches(e, m) == e[1] < (m + 1) * Granularity /\ m * Granularity < End(e)

(* m is one of the pages of the range. *)
HasPage(range, m) == range[1] <= m * Granularity /\ m * Granularity < End(range)

EachPageIsTouched(range) == \A m \in Nat : HasPage(range, m) => \E e \in entries : Touches(e, m)

NothingIsWasted == \A range \in Ranges : EachPageIsTouched(range)

(* Fewer pages are fewer bytes. *)
LEMMA PagesAreOrdered ==
    ASSUME NEW m \in Nat, NEW n \in Nat, m * Granularity < n * Granularity
    PROVE  m + 1 <= n /\ (m + 1) * Granularity <= n * Granularity
<1>1. Granularity \in Nat /\ Granularity > 0
  BY RangesAssumption
<1>2. m < n
  <2> SUFFICES ASSUME n <= m PROVE FALSE
    OBVIOUS
  <2>1. PICK d \in Nat : m = n + d
    <3>1. m - n \in Nat /\ m = n + (m - n)
      OBVIOUS
    <3> QED
      BY <3>1
  <2>2. m * Granularity = n * Granularity + d * Granularity
    BY <1>1, <2>1
  <2>3. d * Granularity >= 0 /\ n * Granularity \in Nat /\ d * Granularity \in Nat
    BY <1>1
  <2> QED
    BY <2>2, <2>3
<1>3. PICK d \in Nat : n = m + 1 + d
  <2>1. n - m - 1 \in Nat /\ n = m + 1 + (n - m - 1)
    BY <1>2
  <2> QED
    BY <2>1
<1>4. n * Granularity = (m + 1) * Granularity + d * Granularity
  BY <1>1, <1>3
<1>5. d * Granularity \in Nat /\ (m + 1) * Granularity \in Nat
  BY <1>1
<1> QED
  BY <1>2, <1>4, <1>5

(* get_allocation_address adds no page at either end. *)
LEMMA RoundedIsTight ==
    ASSUME NEW e \in Nat \X (Nat \ {0}), NEW m \in Nat, HasPage(Rounded(e), m)
    PROVE  Touches(e, m)
<1> DEFINE q == e[1] \div Granularity
           aligned == q * Granularity
           covered == e[2] + (e[1] - aligned)
           p == (covered - 1) \div Granularity
           total == (p + 1) * Granularity
           at == m * Granularity
           next == (m + 1) * Granularity
<1>1. Granularity \in Nat /\ Granularity # 0 /\ e[1] \in Nat /\ e[2] \in Nat /\ e[2] # 0
  BY RangesAssumption
<1>2. q \in Nat /\ aligned <= e[1] /\ e[1] < aligned + Granularity
  BY <1>1, DivisionBounds
<1>3. aligned \in Nat /\ at \in Nat /\ next = at + Granularity
  BY <1>1, <1>2
<1>4. covered \in Nat /\ covered - 1 \in Nat
  <2> HIDE DEF aligned
  <2> QED
    BY <1>1, <1>2, <1>3
<1>5. p \in Nat /\ p * Granularity <= covered - 1
  <2> HIDE DEF covered
  <2> QED
    BY <1>4, DivisionBounds
<1>6. Rounded(e) = <<aligned, total>>
  BY DEF Rounded, GetAllocationAddress
<1>7. aligned <= at /\ at < aligned + total
  <2> HIDE DEF aligned, total, at
  <2>1. HasPage(<<aligned, total>>, m)
    BY <1>6
  <2> QED
    BY <2>1 DEF HasPage, End, at
<1>8. at <= aligned + p * Granularity
  <2> HIDE DEF p, q
  <2>1. aligned + total = (q + p + 1) * Granularity
    BY <1>1, <1>2, <1>5
  <2>2. at < (q + p + 1) * Granularity
    BY <1>7, <2>1
  <2>3. q + p + 1 \in Nat
    BY <1>2, <1>5
  <2>4. next <= (q + p + 1) * Granularity
    BY <2>2, <2>3, PagesAreOrdered
  <2>5. (q + p + 1) * Granularity = aligned + p * Granularity + Granularity
    BY <1>1, <1>2, <1>5
  <2>6. p * Granularity \in Nat
    BY <1>1, <1>5
  <2> HIDE DEF at, next, aligned, total
  <2> QED
    BY <1>1, <1>3, <2>4, <2>5, <2>6
<1>9. covered - 1 = e[2] + e[1] - aligned - 1 /\ p * Granularity \in Nat
  <2>1. p * Granularity \in Nat
    <3> HIDE DEF p
    <3> QED
      BY <1>1, <1>5
  <2> HIDE DEF aligned
  <2> QED
    BY <1>1, <1>3, <2>1
<1>10. at < e[1] + e[2] /\ e[1] < next
  <2> DEFINE pages == p * Granularity
  <2>1. pages \in Nat /\ pages <= e[2] + e[1] - aligned - 1 /\ at <= aligned + pages
    <3> HIDE DEF aligned, at, covered
    <3> QED
      BY <1>4, <1>5, <1>8, <1>9
  <2> HIDE DEF pages, at, next, aligned
  <2> QED
    BY <1>1, <1>2, <1>3, <1>7, <2>1
<1> QED
  BY <1>10 DEF Touches, End

(* No wasted page in the rounded ranges. *)
LEMMA WasteInit == RangesInit => NothingIsWasted
<1> SUFFICES ASSUME RangesInit, NEW r \in Ranges, NEW m \in Nat, HasPage(r, m)
             PROVE  \E e \in entries : Touches(e, m)
  BY DEF NothingIsWasted, EachPageIsTouched
<1>1. PICK e \in entries : r = Rounded(e)
  BY DEF RangesInit, Ranges
<1>2. e \in Nat \X (Nat \ {0})
  BY RangesAssumption DEF RangesInit
<1> QED
  BY <1>1, <1>2, RoundedIsTight

(* The union of two ranges that overlap has no page but theirs. *)
LEMMA WasteNext == RangesInv /\ NothingIsWasted /\ [RangesNext]_rangesVars => NothingIsWasted'
<1> SUFFICES ASSUME RangesInv, NothingIsWasted, [RangesNext]_rangesVars PROVE NothingIsWasted'
  OBVIOUS
<1>0. entries' = entries
  BY DEF RangesNext, Iterate, Finish, rangesVars
<1> SUFFICES ASSUME NEW r \in Ranges', NEW m \in Nat, HasPage(r, m)
             PROVE  \E e \in entries : Touches(e, m)
  BY <1>0 DEF NothingIsWasted, EachPageIsTouched, HasPage, Touches, End
<1>1. ASSUME NEW c \in Ranges, HasPage(c, m) PROVE \E e \in entries : Touches(e, m)
  BY <1>1 DEF NothingIsWasted, EachPageIsTouched
<1>2. CASE r \in Ranges
  BY <1>1, <1>2
<1>3. CASE r \notin Ranges
  <2>1. PICK range \in remaining : Merge(range) /\ remaining' = remaining \ {range}
    BY <1>3 DEF RangesNext, Iterate, Start, Emit, Finish, Ranges, rangesVars
  <2>2. PICK c \in current :
           /\ End(c) > range[1]
           /\ current' = {<<c[1], IF End(range) - c[1] > c[2] THEN End(range) - c[1] ELSE c[2]>>}
           /\ allocs' = allocs
    BY <2>1 DEF Merge
  <2>3. /\ c \in Nat \X (Nat \ {0}) /\ range \in Nat \X (Nat \ {0})
        /\ c \in Ranges /\ range \in Ranges /\ m * Granularity \in Nat
    BY <2>1, RangesAssumption DEF RangesInv, RangesTypeOK, Ranges
  <2>4. r = <<c[1], IF End(range) - c[1] > c[2] THEN End(range) - c[1] ELSE c[2]>>
    BY <1>3, <2>1, <2>2 DEF Ranges
  <2>5. HasPage(c, m) \/ HasPage(range, m)
    <3> DEFINE at == m * Granularity
    <3>1. c[1] <= at /\ at < r[1] + r[2] /\ at \in Nat
      BY <2>3, <2>4 DEF HasPage, End
    <3> HIDE DEF at
    <3>2. \/ c[1] <= at /\ at < c[1] + c[2]
          \/ range[1] <= at /\ at < range[1] + range[2]
      BY <2>2, <2>3, <2>4, <3>1 DEF End
    <3> QED
      BY <3>2 DEF HasPage, End, at
  <2> QED
    BY <1>1, <2>3, <2>5
<1> QED
  BY <1>2, <1>3

(* Whatever the dump holds, compute_allocations maps no page without a     *)
(* byte of it, so that a replay collides with no more of the process than  *)
(* it must.                                                                *)
THEOREM MappingsAreTight == RangesSpec => []NoPageIsWasted
<1>1. RangesInv /\ NothingIsWasted => NoPageIsWasted
  <2> SUFFICES ASSUME RangesInv, NothingIsWasted, NEW a \in allocs,
                      NEW i \in 0 .. (a[2] \div Granularity) - 1
               PROVE  \E e \in entries :
                        /\ e[1] < a[1] + (i + 1) * Granularity
                        /\ a[1] + i * Granularity < End(e)
    BY DEF NoPageIsWasted
  <2>1. a \in Nat \X (Nat \ {0}) /\ Multiple(a[1]) /\ Granularity \in Nat /\ EachPageIsTouched(a)
    BY RangesAssumption
       DEF RangesInv, RangesTypeOK, PagesAreWhole, NothingIsWasted, Ranges
  <2>2. PICK n \in Nat : a[1] = n * Granularity
    BY <2>1 DEF Multiple
  <2> DEFINE pages == a[2] \div Granularity
  <2>3. pages \in Nat /\ pages * Granularity <= a[2]
    BY <2>1, DivisionBounds
  <2>4. i \in Nat /\ i + 1 <= pages
    <3>1. i \in 0 .. pages - 1
      OBVIOUS
    <3> HIDE DEF pages
    <3> QED
      BY <2>3, <3>1
  <2>5. i * Granularity < pages * Granularity
    <3> HIDE DEF pages
    <3>1. PICK d \in Nat : pages = i + 1 + d
      <4>1. pages - i - 1 \in Nat /\ pages = i + 1 + (pages - i - 1)
        BY <2>3, <2>4
      <4> QED
        BY <4>1
    <3>2. pages * Granularity = i * Granularity + Granularity + d * Granularity
      BY <2>1, <2>4, <3>1
    <3>3. d * Granularity \in Nat /\ i * Granularity \in Nat /\ Granularity > 0
      BY <2>1, <2>4, RangesAssumption
    <3> DEFINE rest == d * Granularity
               offset == i * Granularity
               length == pages * Granularity
    <3>4. length = offset + Granularity + rest /\ rest \in Nat /\ offset \in Nat
      BY <3>2, <3>3
    <3> HIDE DEF rest, offset, length
    <3>5. offset < length
      BY <2>1, <3>3, <3>4
    <3> QED
      BY <3>5 DEF offset, length
  <2>6. /\ (n + i) * Granularity = a[1] + i * Granularity
        /\ (n + i + 1) * Granularity = a[1] + (i + 1) * Granularity
        /\ i * Granularity \in Nat /\ n + i \in Nat
    BY <2>1, <2>2, <2>4
  <2>7. HasPage(a, n + i)
    <3> DEFINE offset == i * Granularity
               length == pages * Granularity
    <3>1. offset \in Nat /\ offset < length /\ length <= a[2]
      BY <2>3, <2>5, <2>6
    <3>2. length \in Nat
      <4> HIDE DEF pages
      <4> QED
        BY <2>1, <2>3
    <3>3. (n + i) * Granularity = a[1] + offset
      BY <2>6
    <3> HIDE DEF offset, length
    <3> QED
      BY <2>1, <3>1, <3>2, <3>3 DEF HasPage, End
  <2>8. PICK e \in entries : Touches(e, n + i)
    BY <2>1, <2>6, <2>7 DEF EachPageIsTouched
  <2> QED
    BY <2>6, <2>8 DEF Touches
<1> QED
  BY <1>1, RangesInvariant, WasteInit, WasteNext, PTL DEF RangesSpec

-----------------------------------------------------------------------------
(* The inductive invariant of the mappings.                                *)

AllocPages == UNION {Pages(r) : r \in allocs}

(* HIP maps a range elsewhere, without an error, when it is in use. *)
AddressesAreFree == backend = "hip" => taken \cap AllocPages = {}

RangesAreFinite == IsFiniteSet(remaining) /\ IsFiniteSet(current) /\ IsFiniteSet(allocs)

MemoryTypes ==
    /\ backend \in {"host", "cuda", "hip"}
    /\ phase \in {"ranges", "mapping", "mapped", "thrown", "destroyed"}
    /\ phase # "ranges" => returned
    /\ raw \in Seq([range : Nat \X (Nat \ {0}), space : {"HOST", "DEVICE"}])
    /\ capacity \in Nat

(* The vector has room for the ranges that are left, so that no Allocation *)
(* is moved and each one knows its memory space.                           *)
NothingIsMoved ==
    /\ phase = "mapping" => toMap \subseteq allocs /\ Len(raw) + Cardinality(toMap) = capacity
    /\ phase # "mapping" => toMap = {}
    /\ \A n \in DOMAIN raw : raw[n].space = MemorySpace

(* What is mapped are the pages of the Allocation objects. *)
MappedIsOwned ==
    /\ \A p \in mapped : \E n \in DOMAIN raw : p \in Pages(raw[n].range)
    /\ \A n \in DOMAIN raw : Pages(raw[n].range) \subseteq mapped
    /\ phase \notin {"mapping", "mapped"} => raw = << >>

(* These objects are the ranges that have been mapped, where no driver     *)
(* chose another address.                                                  *)
RangesAreInPlace ==
    (phase \in {"mapping", "mapped"} /\ AddressesAreFree) =>
        /\ \A n \in DOMAIN raw : raw[n].range \in allocs \ toMap
        /\ \A a \in allocs \ toMap : \E n \in DOMAIN raw : raw[n].range = a

(* No page has two owners, in the process or among the objects. *)
OwnersAreApart ==
    /\ mapped \cap taken = {}
    /\ \A m, n \in DOMAIN raw :
         m # n => Pages(raw[m].range) \cap Pages(raw[n].range) = {}

(* Only a device call that failed leaves something behind. *)
LeaksAreOneCall ==
    /\ leaked # {} => phase = "thrown" /\ backend # "host"
    /\ \A l, m \in leaked : l[2] = m[2]

MemoryInv ==
    /\ RangesInv
    /\ RangesAreFinite
    /\ MemoryTypes
    /\ NothingIsMoved
    /\ MappedIsOwned
    /\ RangesAreInPlace
    /\ OwnersAreApart
    /\ LeaksAreOneCall
-----------------------------------------------------------------------------
(* Pages.                                                                  *)

(* Division is monotonic. *)
LEMMA DivisionIsMonotonic ==
    ASSUME NEW a \in Nat, NEW b \in Nat, a <= b
    PROVE  a \div Granularity <= b \div Granularity
<1> DEFINE m == a \div Granularity
           n == b \div Granularity
<1>1. /\ m \in Nat /\ n \in Nat /\ Granularity \in Nat
      /\ m * Granularity <= a /\ b < n * Granularity + Granularity
  BY DivisionBounds, RangesAssumption
<1> HIDE DEF m, n
<1>2. m * Granularity < (n + 1) * Granularity
  <2>1. (n + 1) * Granularity = n * Granularity + Granularity
    BY <1>1
  <2> DEFINE x == m * Granularity
             y == n * Granularity
  <2>2. x \in Nat /\ y \in Nat
    BY <1>1
  <2>3. x < y + Granularity
    <3>1. x <= a /\ b < y + Granularity
      BY <1>1
    <3> HIDE DEF x, y
    <3> QED
      BY <1>1, <2>2, <3>1
  <2> QED
    BY <2>1, <2>3
<1>3. n + 1 \in Nat
  BY <1>1
<1>4. m + 1 <= n + 1
  BY <1>1, <1>2, <1>3, PagesAreOrdered
<1>5. m <= n
  BY <1>1, <1>4
<1> QED
  BY <1>5 DEF m, n

(* A range inside another has no page but the pages of that one. *)
LEMMA PagesOfPart ==
    ASSUME NEW e \in Nat \X (Nat \ {0}), NEW a \in Nat \X (Nat \ {0}),
           a[1] <= e[1], End(e) <= End(a)
    PROVE  Pages(e) \subseteq Pages(a)
<1>1. /\ e[1] \in Nat /\ a[1] \in Nat /\ End(e) - 1 \in Nat /\ End(a) - 1 \in Nat
      /\ End(e) - 1 <= End(a) - 1
  BY DEF End
<1>2. /\ a[1] \div Granularity <= e[1] \div Granularity
      /\ (End(e) - 1) \div Granularity <= (End(a) - 1) \div Granularity
  BY <1>1, DivisionIsMonotonic
<1>3. /\ a[1] \div Granularity \in Nat /\ e[1] \div Granularity \in Nat
      /\ (End(e) - 1) \div Granularity \in Nat /\ (End(a) - 1) \div Granularity \in Nat
  BY <1>1, DivisionBounds
<1> DEFINE p == a[1] \div Granularity
           q == e[1] \div Granularity
           r == (End(e) - 1) \div Granularity
           s == (End(a) - 1) \div Granularity
<1>4. p <= q /\ r <= s /\ p \in Nat /\ q \in Nat /\ r \in Nat /\ s \in Nat
  BY <1>2, <1>3
<1> HIDE DEF p, q, r, s
<1>5. q .. r \subseteq p .. s
  BY <1>4
<1> QED
  BY <1>5 DEF Pages, p, q, r, s

(* Ranges of whole pages that do not overlap share no page. *)
LEMMA PagesOfDisjoint ==
    ASSUME NEW a \in Nat \X (Nat \ {0}), NEW b \in Nat \X (Nat \ {0}),
           Multiple(b[1]), End(a) <= b[1]
    PROVE  Pages(a) \cap Pages(b) = {}
<1>1. PICK m \in Nat : b[1] = m * Granularity
  BY DEF Multiple
<1> DEFINE q == (End(a) - 1) \div Granularity
<1>2. End(a) - 1 \in Nat /\ End(a) - 1 < b[1] /\ b[1] \in Nat
  BY DEF End
<1>3. q \in Nat /\ q * Granularity <= End(a) - 1 /\ q * Granularity \in Nat
  <2>1. q \in Nat /\ q * Granularity <= End(a) - 1
    BY <1>2, DivisionBounds
  <2> HIDE DEF q
  <2> QED
    BY <2>1, RangesAssumption
<1>4. q * Granularity < m * Granularity
  <2> DEFINE x == q * Granularity
  <2>1. x <= End(a) - 1 /\ x \in Nat
    BY <1>3
  <2> HIDE DEF x, q
  <2>2. x < b[1]
    BY <1>2, <2>1
  <2> QED
    BY <1>1, <2>2 DEF x
<1>5. q + 1 <= m
  <2> HIDE DEF q
  <2> QED
    BY <1>3, <1>4, PagesAreOrdered
<1>6. b[1] \div Granularity = m
  BY <1>1, RangesAssumption
<1>7. \A p \in Pages(a) : p \in Int /\ p <= q
  BY <1>3 DEF Pages
<1>8. \A p \in Pages(b) : p \in Int /\ m <= p
  BY <1>6 DEF Pages
<1> HIDE DEF q
<1> QED
  BY <1>3, <1>5, <1>7, <1>8
-----------------------------------------------------------------------------
(* The steps.                                                              *)

(* compute_allocations works on finitely many ranges. *)
LEMMA FiniteInit == RangesInit => RangesAreFinite
<1> SUFFICES ASSUME RangesInit PROVE RangesAreFinite
  OBVIOUS
<1>1. IsFiniteSet(entries)
  BY MemoryAssumption, FS_Subset DEF RangesInit
<1> DEFINE f == [e \in entries |-> Rounded(e)]
<1>2. f \in Surjection(entries, remaining)
  BY DEF RangesInit, Surjection
<1>3. IsFiniteSet(remaining)
  BY <1>1, <1>2, FS_Surjection
<1> QED
  BY <1>3, FS_EmptySet DEF RangesInit, RangesAreFinite

(* And goes on doing so. *)
LEMMA FiniteNext == RangesAreFinite /\ RangesNext => RangesAreFinite'
<1> SUFFICES ASSUME RangesAreFinite, RangesNext PROVE RangesAreFinite'
  OBVIOUS
<1>1. CASE Iterate
  <2>1. PICK range \in remaining :
          remaining' = remaining \ {range} /\ (Start(range) \/ Merge(range) \/ Emit(range))
    BY <1>1 DEF Iterate
  <2>2. IsFiniteSet(remaining')
    BY <2>1, FS_RemoveElement DEF RangesAreFinite
  <2>3. IsFiniteSet(current')
    BY <2>1, FS_Singleton DEF Start, Merge, Emit
  <2>4. allocs' = allocs \/ \E c \in current : allocs' = allocs \cup {c}
    BY <2>1 DEF Start, Merge, Emit
  <2> QED
    BY <2>2, <2>3, <2>4, FS_AddElement DEF RangesAreFinite
<1>2. CASE Finish
  BY <1>2, FS_Union, FS_EmptySet DEF Finish, RangesAreFinite
<1> QED
  BY <1>1, <1>2 DEF RangesNext

(* No page is mapped at first. *)
LEMMA MemoryInvInit == Init => MemoryInv
<1> SUFFICES ASSUME Init PROVE MemoryInv
  OBVIOUS
<1>1. RangesInv /\ RangesAreFinite
  BY RangesInvInit, FiniteInit DEF Init
<1>2. MemoryTypes
  BY MemoryAssumption DEF Init, MemoryTypes
<1>3. NothingIsMoved /\ MappedIsOwned /\ RangesAreInPlace /\ OwnersAreApart /\ LeaksAreOneCall
  BY DEF Init, NothingIsMoved, MappedIsOwned, RangesAreInPlace, OwnersAreApart, LeaksAreOneCall
<1> QED
  BY <1>1, <1>2, <1>3 DEF MemoryInv

(* The ranges are fixed once compute_allocations has returned. *)
LEMMA RangesKept ==
    ASSUME RangesInv, RangesAreFinite, UNCHANGED rangesVars
    PROVE  RangesInv' /\ RangesAreFinite' /\ AllocPages' = AllocPages
<1>1. RangesInv'
  BY RangesInvNext
<1>2. RangesAreFinite'
  BY DEF RangesAreFinite, rangesVars
<1>3. AllocPages' = AllocPages
  BY DEF AllocPages, Pages, End, rangesVars
<1> QED
  BY <1>1, <1>2, <1>3

(* The ranges are computed, the vector is reserved, the others map a page, *)
(* the loop ends.                                                          *)
LEMMA OutsidePreserves ==
    ASSUME MemoryInv,
           \/ ComputeRanges \/ BeginMapping \/ EndMapping
           \/ \E page : OthersMap(page)
    PROVE  MemoryInv'
<1>1. CASE ComputeRanges
  <2>1. RangesInv' /\ RangesAreFinite' /\ phase = "ranges" /\ UNCHANGED memoryVars
    BY <1>1, RangesInvNext, FiniteNext DEF ComputeRanges, MemoryInv
  <2>2. /\ MemoryTypes' /\ NothingIsMoved' /\ MappedIsOwned' /\ RangesAreInPlace' /\ OwnersAreApart'
        /\ LeaksAreOneCall'
    BY <2>1 DEF MemoryInv, MemoryTypes, NothingIsMoved, MappedIsOwned, RangesAreInPlace,
                OwnersAreApart, LeaksAreOneCall, memoryVars, MemorySpace, Pages, End
  <2> QED
    BY <2>1, <2>2 DEF MemoryInv
<1>2. CASE BeginMapping
  <2>1. /\ phase = "ranges" /\ phase' = "mapping" /\ returned /\ toMap' = allocs
        /\ capacity' = Cardinality(allocs)
        /\ UNCHANGED <<rangesVars, allocs, returned, backend, raw, mapped, taken, leaked>>
    BY <1>2 DEF BeginMapping, Reserve, rangesVars
  <2>2. RangesInv' /\ RangesAreFinite' /\ Cardinality(allocs) \in Nat
    BY <2>1, RangesKept, FS_CardinalityType DEF MemoryInv, RangesAreFinite
  <2>3. raw = << >> /\ mapped = {} /\ leaked = {}
    BY <2>1 DEF MemoryInv, MappedIsOwned, LeaksAreOneCall
  <2>4. MemoryTypes' /\ NothingIsMoved' /\ MappedIsOwned' /\ OwnersAreApart' /\ LeaksAreOneCall'
    BY <2>1, <2>2, <2>3 DEF MemoryInv, MemoryTypes, NothingIsMoved, MappedIsOwned, OwnersAreApart,
                            LeaksAreOneCall
  <2>5. RangesAreInPlace'
    BY <2>1, <2>3 DEF RangesAreInPlace
  <2> QED
    BY <2>2, <2>4, <2>5 DEF MemoryInv
<1>3. CASE EndMapping
  <2>1. /\ phase = "mapping" /\ phase' = "mapped" /\ toMap = {}
        /\ UNCHANGED <<rangesVars, allocs, returned, backend, toMap, raw, capacity, mapped, taken, leaked>>
    BY <1>3 DEF EndMapping, rangesVars
  <2>2. RangesInv' /\ RangesAreFinite' /\ AllocPages' = AllocPages
    BY <2>1, RangesKept DEF MemoryInv
  <2>3. MemoryTypes' /\ NothingIsMoved' /\ MappedIsOwned' /\ OwnersAreApart' /\ LeaksAreOneCall'
    BY <2>1 DEF MemoryInv, MemoryTypes, NothingIsMoved, MappedIsOwned, OwnersAreApart,
                LeaksAreOneCall, MemorySpace, Pages, End
  <2>4. RangesAreInPlace'
    BY <2>1, <2>2 DEF MemoryInv, RangesAreInPlace, AddressesAreFree
  <2> QED
    BY <2>2, <2>3, <2>4 DEF MemoryInv
<1>4. ASSUME NEW page, OthersMap(page) PROVE MemoryInv'
  <2>1. /\ page \notin mapped /\ taken' = taken \cup {page}
        /\ UNCHANGED <<rangesVars, allocs, returned, backend, phase, toMap, raw, capacity, mapped, leaked>>
    BY <1>4 DEF OthersMap, rangesVars
  <2>2. RangesInv' /\ RangesAreFinite' /\ AllocPages' = AllocPages
    BY <2>1, RangesKept DEF MemoryInv
  <2>3. MemoryTypes' /\ NothingIsMoved' /\ MappedIsOwned' /\ OwnersAreApart' /\ LeaksAreOneCall'
    BY <2>1 DEF MemoryInv, MemoryTypes, NothingIsMoved, MappedIsOwned, OwnersAreApart,
                LeaksAreOneCall, MemorySpace, Pages, End
  <2>4. AddressesAreFree' => AddressesAreFree
    BY <2>1, <2>2 DEF AddressesAreFree
  <2>5. RangesAreInPlace'
    BY <2>1, <2>4 DEF MemoryInv, RangesAreInPlace
  <2> QED
    BY <2>2, <2>3, <2>5 DEF MemoryInv
<1> QED
  BY <1>1, <1>2, <1>3, <1>4

(* The objects are destroyed: since none of them has been moved, each one  *)
(* unmaps its range.                                                       *)
LEMMA DestroyPreserves ==
    ASSUME MemoryInv, NEW next \in {"thrown", "destroyed"}, DestroyAll(next), phase # "ranges",
           leaked' # {} => next = "thrown" /\ backend # "host",
           \A l, m \in leaked' : l[2] = m[2]
    PROVE  MemoryInv' /\ mapped' = {}
<1>1. /\ mapped' = mapped \ Deallocated(raw) /\ raw' = << >> /\ toMap' = {} /\ phase' = next
      /\ UNCHANGED <<rangesVars, returned, backend, capacity>>
  BY DEF DestroyAll, rangesVars
<1>2. mapped \subseteq Deallocated(raw)
  <2> SUFFICES ASSUME NEW p \in mapped PROVE p \in Deallocated(raw)
    OBVIOUS
  <2>1. PICK n \in DOMAIN raw : p \in Pages(raw[n].range)
    BY DEF MemoryInv, MappedIsOwned
  <2>2. raw[n] \in Range(raw) /\ raw[n].space = MemorySpace
    BY DEF Range, MemoryInv, NothingIsMoved
  <2> QED
    BY <2>1, <2>2 DEF Deallocated
<1>3. mapped' = {}
  BY <1>1, <1>2
<1>4. RangesInv' /\ RangesAreFinite'
  BY <1>1, RangesKept DEF MemoryInv
<1>5. /\ MemoryTypes' /\ NothingIsMoved' /\ MappedIsOwned' /\ RangesAreInPlace' /\ OwnersAreApart'
      /\ LeaksAreOneCall'
  BY <1>1, <1>3 DEF MemoryInv, MemoryTypes, NothingIsMoved, MappedIsOwned, RangesAreInPlace,
                    OwnersAreApart, LeaksAreOneCall
<1> QED
  BY <1>3, <1>4, <1>5 DEF MemoryInv
(* What host_allocate and device_allocate may do. *)
LEMMA OutcomeShapes ==
    ASSUME MemoryTypes, NEW range \in Nat \X (Nat \ {0}), NEW outcome \in Outcomes(range)
    PROVE  \/ /\ outcome.at = {}
              /\ outcome.left # {} => backend # "host"
              /\ \A l, m \in outcome.left : l[2] = m[2]
           \/ outcome.at = {range} /\ IsFree(range)
           \/ /\ backend = "hip" /\ outcome.at = {Moved(range)}
              /\ ~IsFree(range) /\ IsFree(Moved(range))
<1>1. \A kinds, r : \A l, m \in Left(kinds, r) : l[2] = m[2]
  BY DEF Left
<1>2. \A o \in DriverFails(range) : o.at = {} /\ \A l, m \in o.left : l[2] = m[2]
  BY <1>1 DEF DriverFails, NoReservation, FailedCalls, Failure
<1>3. \A r \in Reservations(range) :
        \/ r = range /\ IsFree(range)
        \/ r = Moved(range) /\ ~IsFree(range) /\ IsFree(Moved(range))
  BY DEF Reservations
<1>4. CASE backend = "host"
  BY <1>4 DEF Outcomes, HostAllocate, Success, Failure
<1>5. CASE backend = "cuda"
  BY <1>1, <1>2, <1>3, <1>5 DEF Outcomes, CudaAllocate, Success, Failure
<1>6. CASE backend = "hip"
  BY <1>2, <1>3, <1>6 DEF Outcomes, HipAllocate, Success
<1> QED
  BY <1>4, <1>5, <1>6 DEF MemoryTypes

(* A range that is left shares no page with the ones that are mapped. *)
LEMMA LeftIsDisjoint ==
    ASSUME MemoryInv, NEW range \in toMap, NEW a \in allocs, a # range
    PROVE  Pages(range) \cap Pages(a) = {}
<1>1. range \in allocs
  BY DEF MemoryInv, NothingIsMoved
<1>2. /\ range \in Nat \X (Nat \ {0}) /\ Multiple(range[1])
      /\ a \in Nat \X (Nat \ {0}) /\ Multiple(a[1])
      /\ End(a) <= range[1] \/ End(range) <= a[1]
  BY <1>1 DEF MemoryInv, RangesInv, RangesTypeOK, PagesAreWhole, Ranges, RangesAreDisjoint
<1> QED
  BY <1>2, PagesOfDisjoint

(* The next range is mapped, where it should be or, by HIP, elsewhere. *)
LEMMA MapPreserves ==
    ASSUME MemoryInv, phase = "mapping", NEW range \in toMap, NEW at \in Nat \X (Nat \ {0}),
           EmplaceBack([range |-> at, space |-> MemorySpace]),
           mapped' = mapped \cup Pages(at), taken' = taken, toMap' = toMap \ {range},
           UNCHANGED <<rangesVars, backend, phase, leaked>>,
           IsFree(at), at = range \/ (backend = "hip" /\ ~IsFree(range))
    PROVE  MemoryInv'
<1> DEFINE object == [range |-> at, space |-> MemorySpace]
<1>1. RangesInv' /\ RangesAreFinite' /\ AllocPages' = AllocPages /\ UNCHANGED <<allocs, returned>>
  BY RangesKept DEF MemoryInv, rangesVars
<1>2. /\ toMap \subseteq allocs /\ Len(raw) + Cardinality(toMap) = capacity /\ capacity \in Nat
      /\ raw \in Seq([range : Nat \X (Nat \ {0}), space : {"HOST", "DEVICE"}])
  BY DEF MemoryInv, NothingIsMoved, MemoryTypes
<1>3. IsFiniteSet(toMap)
  BY <1>2, FS_Subset DEF MemoryInv, RangesAreFinite
<1>4. /\ Cardinality(toMap) \in Nat /\ Cardinality(toMap) # 0
      /\ Cardinality(toMap \ {range}) = Cardinality(toMap) - 1
  BY <1>3, FS_CardinalityType, FS_EmptySet, FS_RemoveElement
<1>5. Len(raw) \in Nat /\ Len(raw) < capacity
  BY <1>2, <1>4
<1>6. raw' = Append(raw, object) /\ capacity' = capacity
  BY <1>5 DEF EmplaceBack
<1>7. object \in [range : Nat \X (Nat \ {0}), space : {"HOST", "DEVICE"}]
  BY DEF MemorySpace
<1>8. /\ raw' \in Seq([range : Nat \X (Nat \ {0}), space : {"HOST", "DEVICE"}])
      /\ Len(raw') = Len(raw) + 1 /\ DOMAIN raw = 1 .. Len(raw) /\ DOMAIN raw' = 1 .. Len(raw')
      /\ raw'[Len(raw')] = object
      /\ \A n \in DOMAIN raw : raw'[n] = raw[n] /\ n \in DOMAIN raw'
      /\ \A n \in DOMAIN raw' : n = Len(raw') \/ n \in DOMAIN raw
  <2> HIDE DEF object
  <2> QED
    BY <1>2, <1>6, <1>7
<1>9. object.range = at /\ object.space = MemorySpace
  OBVIOUS
<1> HIDE DEF object
<1>10. MemoryTypes'
  BY <1>1, <1>6, <1>8 DEF MemoryInv, MemoryTypes
<1>11. NothingIsMoved'
  <2>1. Len(raw') + Cardinality(toMap') = capacity'
    BY <1>2, <1>4, <1>5, <1>6, <1>8
  <2>2. \A n \in DOMAIN raw' : raw'[n].space = MemorySpace
    BY <1>8, <1>9 DEF MemoryInv, NothingIsMoved
  <2> QED
    BY <1>1, <1>2, <2>1, <2>2 DEF NothingIsMoved, MemorySpace
<1>12. MappedIsOwned'
  <2>1. \A p \in mapped' : \E n \in DOMAIN raw' : p \in Pages(raw'[n].range)
    <3> SUFFICES ASSUME NEW p \in mapped' PROVE \E n \in DOMAIN raw' : p \in Pages(raw'[n].range)
      OBVIOUS
    <3>1. CASE p \in mapped
      BY <1>8, <3>1 DEF MemoryInv, MappedIsOwned
    <3>2. CASE p \in Pages(at)
      BY <1>5, <1>8, <1>9, <3>2
    <3> QED
      BY <3>1, <3>2
  <2>2. \A n \in DOMAIN raw' : Pages(raw'[n].range) \subseteq mapped'
    BY <1>8, <1>9 DEF MemoryInv, MappedIsOwned
  <2> QED
    BY <2>1, <2>2 DEF MappedIsOwned, Pages, End
<1>13. RangesAreInPlace'
  <2> SUFFICES ASSUME AddressesAreFree'
               PROVE  /\ \A n \in DOMAIN raw' : raw'[n].range \in allocs \ toMap'
                      /\ \A a \in allocs \ toMap' : \E n \in DOMAIN raw' : raw'[n].range = a
    BY <1>1 DEF RangesAreInPlace
  <2>1. /\ AddressesAreFree
        /\ \A n \in DOMAIN raw : raw[n].range \in allocs \ toMap
        /\ \A a \in allocs \ toMap : \E n \in DOMAIN raw : raw[n].range = a
    BY <1>1 DEF MemoryInv, RangesAreInPlace, AddressesAreFree
  <2>2. Pages(range) \cap mapped = {}
    <3> SUFFICES ASSUME NEW p \in mapped, p \in Pages(range) PROVE FALSE
      OBVIOUS
    <3>1. PICK n \in DOMAIN raw : p \in Pages(raw[n].range)
      BY DEF MemoryInv, MappedIsOwned
    <3>2. raw[n].range \in allocs /\ raw[n].range # range
      BY <2>1
    <3> QED
      BY <3>1, <3>2, LeftIsDisjoint
  <2>3. backend = "hip" => IsFree(range)
    BY <1>2, <2>1, <2>2 DEF AddressesAreFree, AllocPages, IsFree
  <2>4. at = range /\ IsFree(range)
    BY <2>3
  <2>5. \A n \in DOMAIN raw' : raw'[n].range \in allocs \ toMap'
    BY <1>2, <1>8, <1>9, <2>1, <2>4
  <2>6. \A a \in allocs \ toMap' : \E n \in DOMAIN raw' : raw'[n].range = a
    <3> SUFFICES ASSUME NEW a \in allocs \ toMap' PROVE \E n \in DOMAIN raw' : raw'[n].range = a
      OBVIOUS
    <3>1. CASE a = range
      <4>1. Len(raw') \in DOMAIN raw' /\ raw'[Len(raw')].range = a
        BY <1>5, <1>8, <1>9, <2>4, <3>1
      <4> QED
        BY <4>1
    <3>2. CASE a # range
      BY <1>8, <2>1, <3>2
    <3> QED
      BY <3>1, <3>2
  <2> QED
    BY <2>5, <2>6
<1>14. OwnersAreApart'
  <2>1. Pages(at) \cap (taken \cup mapped) = {}
    BY DEF IsFree
  <2>2. mapped' \cap taken' = {}
    BY <2>1 DEF MemoryInv, OwnersAreApart
  <2>3. ASSUME NEW m \in DOMAIN raw', NEW n \in DOMAIN raw', m # n
        PROVE  Pages(raw'[m].range) \cap Pages(raw'[n].range) = {}
    <3>1. \A i \in DOMAIN raw : Pages(raw[i].range) \cap Pages(at) = {}
      BY <2>1 DEF MemoryInv, MappedIsOwned
    <3>2. CASE m \in DOMAIN raw /\ n \in DOMAIN raw
      BY <1>8, <2>3, <3>2 DEF MemoryInv, OwnersAreApart
    <3>3. CASE m = Len(raw') /\ n \in DOMAIN raw
      BY <1>8, <1>9, <3>1, <3>3
    <3>4. CASE n = Len(raw') /\ m \in DOMAIN raw
      BY <1>8, <1>9, <3>1, <3>4
    <3> QED
      BY <1>8, <2>3, <3>2, <3>3, <3>4
  <2> QED
    BY <2>2, <2>3 DEF OwnersAreApart, Pages, End
<1>15. LeaksAreOneCall'
  BY DEF MemoryInv, LeaksAreOneCall
<1> QED
  BY <1>1, <1>10, <1>11, <1>12, <1>13, <1>14, <1>15 DEF MemoryInv

(* Every step of the guard and of the process keeps the invariant. *)
LEMMA MemoryInvNext == MemoryInv /\ [Next]_vars => MemoryInv'
<1> SUFFICES ASSUME MemoryInv, [Next]_vars PROVE MemoryInv'
  OBVIOUS
<1>1. CASE MapNext
  <2>0. PICK range \in toMap : \E outcome \in Outcomes(range) :
          IF outcome.at = {}
          THEN leaked' = outcome.left /\ DestroyAll("thrown")
          ELSE \E at \in outcome.at :
                 /\ EmplaceBack([range |-> at, space |-> MemorySpace])
                 /\ mapped' = mapped \cup Pages(at)
                 /\ toMap' = toMap \ {range}
                 /\ UNCHANGED <<rangesVars, backend, phase, leaked>>
    BY <1>1 DEF MapNext
  <2>1. PICK outcome \in Outcomes(range) :
          IF outcome.at = {}
          THEN leaked' = outcome.left /\ DestroyAll("thrown")
          ELSE \E at \in outcome.at :
                 /\ EmplaceBack([range |-> at, space |-> MemorySpace])
                 /\ mapped' = mapped \cup Pages(at)
                 /\ toMap' = toMap \ {range}
                 /\ UNCHANGED <<rangesVars, backend, phase, leaked>>
    BY <2>0
  <2>2. range \in Nat \X (Nat \ {0}) /\ phase = "mapping" /\ MemoryTypes /\ taken' = taken
    BY <1>1 DEF MapNext, MemoryInv, NothingIsMoved, RangesInv, RangesTypeOK
  <2>3. CASE outcome.at = {}
    <3>1. /\ outcome.left # {} => backend # "host"
          /\ \A l, m \in outcome.left : l[2] = m[2]
      BY <2>2, <2>3, OutcomeShapes
    <3> QED
      BY <2>1, <2>2, <2>3, <3>1, DestroyPreserves
  <2>4. CASE outcome.at # {}
    <3>1. PICK at \in outcome.at :
            /\ EmplaceBack([range |-> at, space |-> MemorySpace])
            /\ mapped' = mapped \cup Pages(at)
            /\ toMap' = toMap \ {range}
            /\ UNCHANGED <<rangesVars, backend, phase, leaked>>
      BY <2>1, <2>4
    <3>2. /\ IsFree(at)
          /\ at = range \/ (at = Moved(range) /\ backend = "hip" /\ ~IsFree(range))
      BY <2>2, <2>4, <3>1, OutcomeShapes
    <3>3. at \in Nat \X (Nat \ {0})
      BY <2>2, <3>1, <3>2, MemoryAssumption DEF Moved
    <3> QED
      BY <2>2, <3>1, <3>2, <3>3, MapPreserves
  <2> QED
    BY <2>3, <2>4
<1>2. CASE DestroyGuard
  <2>1. phase = "mapped" /\ DestroyAll("destroyed") /\ leaked' = leaked
    BY <1>2 DEF DestroyGuard
  <2>2. leaked = {}
    BY <2>1 DEF MemoryInv, LeaksAreOneCall
  <2> QED
    BY <2>1, <2>2, DestroyPreserves
<1>3. CASE \/ ComputeRanges \/ BeginMapping \/ EndMapping
           \/ \E range \in allocs : \E page \in Pages(range) : OthersMap(page)
  BY <1>3, OutsidePreserves
<1>4. CASE UNCHANGED vars
  <2>1. /\ RangesInv' /\ RangesAreFinite' /\ AllocPages' = AllocPages
        /\ UNCHANGED <<backend, phase, toMap, raw, capacity, mapped, taken, leaked, allocs, returned>>
    BY <1>4, RangesKept DEF MemoryInv, vars, memoryVars, rangesVars
  <2> QED
    BY <2>1 DEF MemoryInv, MemoryTypes, NothingIsMoved, MappedIsOwned, RangesAreInPlace,
                OwnersAreApart, AddressesAreFree, LeaksAreOneCall, MemorySpace, Pages, End
<1> QED
  BY <1>1, <1>2, <1>3, <1>4 DEF Next

(* The invariant holds throughout. *)
LEMMA MemoryInvariant == Spec => []MemoryInv
  BY MemoryInvInit, MemoryInvNext, PTL DEF Spec

-----------------------------------------------------------------------------
(* When the constructor of the guard returns, every byte of every dumped   *)
(* allocation has its address, in memory that nobody else has mapped.      *)
THEOREM MappedWhereDumped == Spec => []EntriesAreMapped
<1>1. MemoryInv => EntriesAreMapped
  <2> SUFFICES ASSUME MemoryInv, phase = "mapped", AddressesAreFree, NEW e \in entries
               PROVE  Pages(e) \subseteq mapped \ taken
    BY DEF EntriesAreMapped, AddressesAreFree, AllocPages
  <2>1. returned /\ toMap = {} /\ e \in Nat \X (Nat \ {0}) /\ Rounded(e) \notin remaining
    BY DEF MemoryInv, MemoryTypes, NothingIsMoved, RangesInv, RangesTypeOK, WalkIsOrdered
  <2>2. PICK a \in allocs : a[1] <= Rounded(e)[1] /\ End(Rounded(e)) <= End(a)
    BY <2>1 DEF MemoryInv, RangesInv, PassedIsCovered, WalkIsOrdered
  <2>3. a \in Nat \X (Nat \ {0})
    BY DEF MemoryInv, RangesInv, RangesTypeOK
  <2>4. /\ Rounded(e) \in Nat \X (Nat \ {0}) /\ Rounded(e)[1] <= e[1]
        /\ End(e) <= End(Rounded(e))
    BY <2>1, RoundedCovers
  <2>5. /\ a[1] <= e[1] /\ End(e) <= End(a)
    BY <2>1, <2>2, <2>3, <2>4 DEF End
  <2>6. PICK n \in DOMAIN raw : raw[n].range = a
    BY <2>1 DEF MemoryInv, RangesAreInPlace
  <2>7. Pages(a) \subseteq mapped /\ mapped \cap taken = {}
    BY <2>6 DEF MemoryInv, MappedIsOwned, OwnersAreApart
  <2> QED
    BY <2>1, <2>3, <2>5, <2>7, PagesOfPart
<1> QED
  BY <1>1, MemoryInvariant, PTL

(* Whatever fails, nothing stays mapped behind the guard, and what is lost *)
(* belongs to one device call.                                             *)
THEOREM GuardUnmapsAll == Spec => []NothingStaysMapped
<1>1. MemoryInv => NothingStaysMapped
  <2> SUFFICES ASSUME MemoryInv, phase \in {"thrown", "destroyed"} PROVE NothingStaysMapped
    BY DEF NothingStaysMapped
  <2>1. raw = << >> /\ mapped = {}
    BY DEF MemoryInv, MappedIsOwned
  <2> DEFINE ranges == {l[2] : l \in leaked}
  <2>2. ranges = {} \/ \E r : ranges = {r}
    BY DEF MemoryInv, LeaksAreOneCall
  <2>3. Cardinality(ranges) \in {0, 1}
    BY <2>2, FS_EmptySet, FS_Singleton
  <2> QED
    BY <2>1, <2>3 DEF NothingStaysMapped, MemoryInv, LeaksAreOneCall
<1> QED
  BY <1>1, MemoryInvariant, PTL

(* No page that an Allocation has mapped, and will unmap, belongs to the   *)
(* rest of the process or to another Allocation: on every back end, where  *)
(* a driver falls back to other addresses too, and whatever the process    *)
(* maps between two ranges.                                                *)
THEOREM EveryPageHasOneOwner == Spec => []PagesHaveOneOwner
<1>1. MemoryInv => PagesHaveOneOwner
  BY DEF MemoryInv, MappedIsOwned, OwnersAreApart, PagesHaveOneOwner
<1> QED
  BY <1>1, MemoryInvariant, PTL

=============================================================================
