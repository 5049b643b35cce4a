----------------------- MODULE AllocationHooks_proofs -----------------------
(***************************************************************************)
(* Proofs about AllocationHooks, for every header size, every set of       *)
(* pointers and sizes, every allocator slack and both builds.              *)
(***************************************************************************)
EXTENDS AllocationHooks, WellFoundedInduction, TLAPS

(* A block holds its header and its user data. *)
BlocksAreLargeEnough ==
    \A k \in DOMAIN heap : HeaderSize + heap[k].size <= heap[k].usable

(* Live blocks of one space do not overlap. *)
BlocksAreDisjoint ==
    \A k, h \in DOMAIN heap :
        (k # h /\ k[1] = h[1]) =>
            \/ k[2] + heap[k].usable <= h[2]
            \/ h[2] + heap[h].usable <= k[2]

(* u points into the user data of block k or one past its end. *)
PointsInto(u, k) ==
    /\ k[2] + HeaderSize <= u
    /\ u <= k[2] + HeaderSize + heap[k].size

(* Every registered View is represented by a pointer into its allocation. *)
ViewsAreRegistered ==
    \A k \in views : \E u \in usedAllocations[k[1]] : PointsInto(u, k)

(* Every registered pointer belongs to a registered View, or is foreign. *)
PointersBelongToViews ==
    ~foreign =>
        \A s \in Spaces : \A u \in usedAllocations[s] :
            u # Null => \E k \in views : k[1] = s /\ PointsInto(u, k)

HooksInv ==
    /\ HooksTypeOK
    /\ TableMatchesHeap
    /\ DumpedBytesAreAllocated
    /\ KnownSizeIsExact
    /\ BlocksAreLargeEnough
    /\ BlocksAreDisjoint
    /\ ViewsAreRegistered
    /\ PointersBelongToViews

-----------------------------------------------------------------------------
(* A nonempty set of naturals has a least element, which Min returns.      *)
LEMMA MinProperty ==
    ASSUME NEW S \in SUBSET Nat, S # {}
    PROVE  Min(S) \in S /\ \A y \in S : Min(S) <= y
<1>1. PICK x \in S : \A y \in S : ~ (<<y, x>> \in OpToRel(<, Nat))
  BY NatLessThanWellFounded, WFMin, Zenon
<1>2. \A y \in S : ~ (y < x)
  BY <1>1, Zenon DEF OpToRel
<1>3. \A y \in S : x <= y
  BY <1>2
<1>4. QED
  BY <1>3 DEF Min

(* The binary search of snapshot() finds a pointer of the closed data range *)
(* exactly when one is registered.                                         *)
LEMMA IsUsedMeaning ==
    ASSUME NEW s \in Spaces, NEW r \in Records,
           usedAllocations \in [Spaces -> SUBSET Nat]
    PROVE  IsUsed(s, r) <=>
             \E u \in usedAllocations[s] : r.pData <= u /\ u <= r.pData + r.size
<1> DEFINE S == {u \in usedAllocations[s] : u >= r.pData}
<1>1. S \in SUBSET Nat /\ r.pData \in Nat /\ r.size \in Nat
  BY DEF Records
<1>2. CASE S = {}
  BY <1>1, <1>2 DEF IsUsed
<1>3. CASE S # {}
  <2>1. Min(S) \in S /\ \A y \in S : Min(S) <= y
    BY <1>1, <1>3, MinProperty
  <2>2. IsUsed(s, r) <=> Min(S) <= r.pData + r.size
    BY <1>3 DEF IsUsed
  <2>3. r.pData + r.size \in Nat /\ S \subseteq Nat
    BY <1>1
  <2> HIDE DEF S
  <2>4. (\E u \in S : u <= r.pData + r.size) <=> Min(S) <= r.pData + r.size
    <3> DEFINE b == r.pData + r.size
    <3> DEFINE m == Min(S)
    <3>1. b \in Nat /\ m \in S /\ S \subseteq Nat /\ \A y \in S : m <= y
      BY <2>1, <2>3
    <3> HIDE DEF b, m
    <3>2. (\E u \in S : u <= b) <=> m <= b
      BY <3>1
    <3> QED
      BY <3>2 DEF b, m
  <2>5. (\E u \in S : u <= r.pData + r.size) <=>
           \E u \in usedAllocations[s] : r.pData <= u /\ u <= r.pData + r.size
    BY <1>1 DEF S
  <2> QED
    BY <2>2, <2>4, <2>5
<1>4. QED
  BY <1>2, <1>3

-----------------------------------------------------------------------------
(* What validated_data_size answers for a block that holds its header.     *)
LEMMA ValidatedMeaning ==
    ASSUME NEW ptr \in Nat, NEW usable \in Nat, usable >= HeaderSize
    PROVE  ValidatedDataSize(ptr, usable, AllocationDataPointer(ptr), HeaderSize)
             = IF usable < 2 * HeaderSize THEN Known(0) ELSE Known(HeaderSize)
<1> DEFINE data == AllocationDataPointer(ptr)
<1>1. HeaderSize \in Nat /\ HeaderSize # 0
  BY HooksAssumption
<1>2. ~(data < ptr) /\ data - ptr = HeaderSize
  BY <1>1 DEF AllocationDataPointer
<1>3. ~(HeaderSize > usable)
  BY <1>1
<1>4. (HeaderSize = usable \/ usable - HeaderSize < HeaderSize)
        <=> usable < 2 * HeaderSize
  BY <1>1
<1> HIDE DEF data
<1>5. QED
  BY <1>2, <1>3, <1>4, Zenon DEF ValidatedDataSize, data

(* What Kokkos reports is the user's size, or the header size when empty.  *)
LEMMA ReportedCases ==
    ASSUME NEW size \in Nat
    PROVE  /\ ReportedSize(size) \in Nat
           /\ \/ ReportedSize(size) = size
              \/ LegacyKokkos /\ size = 0 /\ ReportedSize(size) = HeaderSize
BY HooksAssumption DEF ReportedSize

(* A size that stays inside the block and, when it is known, is the user's *)
(* size or the documented ambiguity.                                       *)
SoundDataSize(d, size, usable) ==
    /\ d.known \in BOOLEAN /\ d.value \in Nat
    /\ HeaderSize + d.value <= usable
    /\ d.known => \/ d.value = size
                  \/ /\ LegacyKokkos /\ size = 0 /\ d.value = HeaderSize
                     /\ usable >= 2 * HeaderSize
    /\ ~d.known => d.value = 0 /\ size \in {0, HeaderSize}

(* allocation_data_size returns such a size. *)
LEMMA DataSizeIsSound ==
    ASSUME NEW ptr \in Nat, NEW size \in Nat, NEW usable \in Nat,
           NEW probed \in BOOLEAN, usable >= HeaderSize + size
    PROVE  SoundDataSize(AllocationDataSize(ptr, usable, probed, ReportedSize(size)),
                         size, usable)
<1> DEFINE d == AllocationDataSize(ptr, usable, probed, ReportedSize(size))
<1>1. HeaderSize \in Nat /\ HeaderSize # 0 /\ usable >= HeaderSize
  BY HooksAssumption
<1>2. CASE ReportedSize(size) # HeaderSize
  <2>1. d.known = TRUE /\ d.value = size
    BY <1>2, ReportedCases DEF AllocationDataSize, Known
  <2>2. HeaderSize + d.value <= usable /\ d.value \in Nat
    BY <2>1, <1>1
  <2> QED
    BY <2>1, <2>2 DEF SoundDataSize
<1>3. CASE ReportedSize(size) = HeaderSize /\ ~probed
  <2>1. d.known = FALSE /\ d.value = 0 /\ size \in {0, HeaderSize}
    BY <1>3, ReportedCases DEF AllocationDataSize, Unknown
  <2>2. HeaderSize + d.value <= usable /\ d.value \in Nat
    BY <2>1, <1>1
  <2> QED
    BY <2>1, <2>2 DEF SoundDataSize
<1>4. CASE ReportedSize(size) = HeaderSize /\ probed
  <2>1. d = IF usable < 2 * HeaderSize THEN Known(0) ELSE Known(HeaderSize)
    BY <1>4, <1>1, ValidatedMeaning DEF AllocationDataSize
  <2>2. size = HeaderSize \/ (LegacyKokkos /\ size = 0)
    BY <1>4, ReportedCases
  <2>3. CASE usable < 2 * HeaderSize
    <3>1. d.known = TRUE /\ d.value = 0 /\ size = 0
      BY <2>1, <2>2, <2>3, <1>1 DEF Known
    <3> QED
      BY <3>1, <1>1 DEF SoundDataSize
  <2>4. CASE ~(usable < 2 * HeaderSize)
    <3>1. d.known = TRUE /\ d.value = HeaderSize
      BY <2>1, <2>4 DEF Known
    <3>2. HeaderSize + d.value <= usable /\ d.value \in Nat /\ usable >= 2 * HeaderSize
      BY <3>1, <2>4, <1>1
    <3> QED
      BY <3>1, <3>2, <2>2 DEF SoundDataSize
  <2> QED
    BY <2>3, <2>4
<1> QED
  BY <1>2, <1>3, <1>4

(* A probed size is known, whatever Kokkos reports. *)
LEMMA ProbedIsKnown ==
    ASSUME NEW ptr \in Nat, NEW size \in Nat, NEW usable \in Nat, usable >= HeaderSize + size
    PROVE  AllocationDataSize(ptr, usable, TRUE, ReportedSize(size)).known
<1>1. HeaderSize \in Nat /\ usable >= HeaderSize
  BY HooksAssumption
<1> QED
  BY <1>1, ValidatedMeaning DEF AllocationDataSize, Known

-----------------------------------------------------------------------------
(* The invariant holds initially. *)
LEMMA HooksInvInit == HooksInit => HooksInv
<1> SUFFICES ASSUME HooksInit PROVE HooksInv
  OBVIOUS
<1> USE DEF HooksInit, TrackerInit
<1>1. HooksTypeOK
  BY DEF HooksTypeOK, TrackerTypeOK
<1>2. TableMatchesHeap
  BY DEF TableMatchesHeap
<1>3. DumpedBytesAreAllocated /\ KnownSizeIsExact
  BY DEF DumpedBytesAreAllocated, KnownSizeIsExact
<1>4. BlocksAreLargeEnough /\ BlocksAreDisjoint
  BY DEF BlocksAreLargeEnough, BlocksAreDisjoint
<1>5. ViewsAreRegistered /\ PointersBelongToViews
  BY DEF ViewsAreRegistered, PointersBelongToViews
<1> QED
  BY <1>1, <1>2, <1>3, <1>4, <1>5 DEF HooksInv

(* A new allocation: the new block is disjoint from the others, and its    *)
(* record, if any, is bounded by DataSizeBounds.                           *)
LEMMA AllocateDataPreserves ==
    ASSUME HooksInv, NEW space \in Spaces, NEW label \in Labels, NEW ptr \in Pointers,
           NEW size \in Sizes, NEW slack \in Slacks, NEW probed \in BOOLEAN,
           AllocateData(space, label, ptr, size, slack, probed)
    PROVE  HooksInv'
<1> DEFINE usable == HeaderSize + size + slack
           new == <<space, ptr>>
           block == [label |-> label, size |-> size, usable |-> usable]
           d == AllocationDataSize(ptr, usable, probed, ReportedSize(size))
           record == [label |-> label, pData |-> ptr + HeaderSize,
                      size |-> d.value, reportedSize |-> ReportedSize(size),
                      dataSizeKnown |-> d.known]
<1>1. /\ HeaderSize \in Nat /\ HeaderSize # 0 /\ ptr \in Nat \ {0}
      /\ size \in Nat /\ usable \in Nat /\ usable >= HeaderSize + size
      /\ new \in Keys /\ new[1] = space /\ new[2] = ptr
      /\ block \in [label : Labels, size : Nat, usable : Nat]
  BY HooksAssumption DEF Null, Keys
<1>2. SoundDataSize(d, size, usable)
  <2> HIDE DEF usable
  <2> QED
    BY <1>1, DataSizeIsSound
<1>3. record \in Records
  BY <1>1, <1>2, ReportedCases DEF Records, SoundDataSize
<1>4. /\ IsFree(space, ptr, usable)
      /\ heap' = [k \in DOMAIN heap \cup {new} |-> IF k = new THEN block ELSE heap[k]]
      /\ views' = views /\ foreign' = foreign /\ usedAllocations' = usedAllocations
  BY DEF AllocateData, RecordAllocation, trackerVars
<1>5. \/ /\ label \notin InternalLabels
         /\ activeAllocations' = [k \in DOMAIN activeAllocations \cup {new} |->
                                    IF k = new THEN record ELSE activeAllocations[k]]
      \/ label \in InternalLabels /\ activeAllocations' = activeAllocations
  BY <1>1 DEF AllocateData, RecordAllocation, ShouldTrackAllocation, Null,
              AllocationDataPointer, trackerVars
<1>6. /\ HooksTypeOK /\ TrackerTypeOK /\ TableMatchesHeap /\ DumpedBytesAreAllocated
      /\ KnownSizeIsExact /\ BlocksAreLargeEnough /\ BlocksAreDisjoint
      /\ ViewsAreRegistered /\ PointersBelongToViews
  BY DEF HooksInv, HooksTypeOK
<1>7. new \notin DOMAIN heap
  BY <1>1, <1>4, <1>6 DEF IsFree, BlocksAreLargeEnough, HooksTypeOK
<1>8. block.label = label /\ block.size = size /\ block.usable = usable
  OBVIOUS
<1>9. /\ record.label = label /\ record.pData = ptr + HeaderSize
      /\ record.size = d.value /\ record.dataSizeKnown = d.known
  OBVIOUS
<1> HIDE DEF usable, new, block, d, record
<1>10. HooksTypeOK'
  BY <1>1, <1>3, <1>4, <1>5, <1>6 DEF HooksTypeOK, TrackerTypeOK
<1>11. TableMatchesHeap'
  <2>1. /\ DOMAIN activeAllocations = {k \in DOMAIN heap : heap[k].label \notin InternalLabels}
        /\ DOMAIN heap' = DOMAIN heap \cup {new} /\ heap'[new].label = label
        /\ \A k \in DOMAIN heap : heap'[k] = heap[k]
    BY <1>4, <1>6, <1>7, <1>8 DEF TableMatchesHeap
  <2>2. CASE label \notin InternalLabels
    <3>1. /\ DOMAIN activeAllocations' = DOMAIN activeAllocations \cup {new}
          /\ activeAllocations'[new] = record
          /\ \A k \in DOMAIN activeAllocations : activeAllocations'[k] = activeAllocations[k]
      BY <1>5, <1>7, <2>1, <2>2
    <3>2. DOMAIN activeAllocations' = {k \in DOMAIN heap' : heap'[k].label \notin InternalLabels}
      BY <1>7, <2>1, <2>2, <3>1
    <3>3. \A k \in DOMAIN activeAllocations' :
            activeAllocations'[k].label = heap'[k].label
            /\ activeAllocations'[k].pData = k[2] + HeaderSize
      BY <1>1, <1>6, <1>9, <2>1, <3>1 DEF TableMatchesHeap
    <3> QED BY <3>2, <3>3 DEF TableMatchesHeap
  <2>3. CASE label \in InternalLabels
    <3>1. activeAllocations' = activeAllocations
      BY <1>5, <2>3
    <3>2. DOMAIN activeAllocations' = {k \in DOMAIN heap' : heap'[k].label \notin InternalLabels}
      BY <1>7, <2>1, <2>3, <3>1
    <3> QED BY <1>6, <2>1, <3>1, <3>2 DEF TableMatchesHeap
  <2> QED BY <2>2, <2>3
<1>12. DumpedBytesAreAllocated'
  BY <1>1, <1>2, <1>4, <1>5, <1>6, <1>7, <1>8, <1>9
     DEF DumpedBytesAreAllocated, TableMatchesHeap, SoundDataSize
<1>13. KnownSizeIsExact'
  BY <1>1, <1>2, <1>4, <1>5, <1>6, <1>7, <1>8, <1>9
     DEF KnownSizeIsExact, TableMatchesHeap, SoundDataSize
<1>14. BlocksAreLargeEnough'
  BY <1>1, <1>4, <1>6, <1>8 DEF BlocksAreLargeEnough
<1>15. BlocksAreDisjoint'
  BY <1>1, <1>4, <1>6, <1>7, <1>8 DEF BlocksAreDisjoint, IsFree
<1>16. \A k \in DOMAIN heap : heap'[k] = heap[k]
  BY <1>4, <1>7
<1>17. ViewsAreRegistered'
  BY <1>4, <1>6, <1>16 DEF ViewsAreRegistered, PointsInto, HooksTypeOK
<1>18. PointersBelongToViews'
  BY <1>4, <1>6, <1>16 DEF PointersBelongToViews, PointsInto, HooksTypeOK
<1> QED
  BY <1>10, <1>11, <1>12, <1>13, <1>14, <1>15, <1>17, <1>18 DEF HooksInv

(* A deallocation removes one block and its record; the pointers into it   *)
(* that stay registered are accounted for by `foreign'.                    *)
LEMMA DeallocateDataPreserves ==
    ASSUME HooksInv, NEW k \in DOMAIN heap, DeallocateData(k)
    PROVE  HooksInv'
<1>1. /\ HooksTypeOK /\ TrackerTypeOK /\ TableMatchesHeap /\ DumpedBytesAreAllocated
      /\ KnownSizeIsExact /\ BlocksAreLargeEnough /\ BlocksAreDisjoint
      /\ ViewsAreRegistered /\ PointersBelongToViews
  BY DEF HooksInv, HooksTypeOK
<1>2. k = <<k[1], k[2]>>
  BY <1>1 DEF HooksTypeOK, Keys
<1>3. /\ heap' = [h \in DOMAIN heap \ {k} |-> heap[h]]
      /\ activeAllocations' = [h \in DOMAIN activeAllocations \ {k} |-> activeAllocations[h]]
      /\ usedAllocations' = usedAllocations
      /\ views' = views \ {k} /\ foreign' = (foreign \/ k \in views)
  BY <1>2 DEF DeallocateData, RecordDeallocation
<1>4. HooksTypeOK'
  BY <1>1, <1>3 DEF HooksTypeOK, TrackerTypeOK
<1>5. TableMatchesHeap'
  BY <1>1, <1>3 DEF TableMatchesHeap
<1>6. DumpedBytesAreAllocated' /\ KnownSizeIsExact'
  BY <1>1, <1>3 DEF DumpedBytesAreAllocated, KnownSizeIsExact, TableMatchesHeap
<1>7. BlocksAreLargeEnough' /\ BlocksAreDisjoint'
  BY <1>1, <1>3 DEF BlocksAreLargeEnough, BlocksAreDisjoint
<1>8. ViewsAreRegistered'
  BY <1>1, <1>3 DEF ViewsAreRegistered, PointsInto, HooksTypeOK
<1>9. PointersBelongToViews'
  <2> SUFFICES ASSUME ~foreign', NEW s \in Spaces, NEW u \in usedAllocations'[s], u # Null
               PROVE  \E h \in views' : h[1] = s /\ PointsInto(u, h)'
    BY DEF PointersBelongToViews
  <2>1. ~foreign /\ k \notin views
    BY <1>3, Zenon
  <2>2. PICK h \in views : h[1] = s /\ PointsInto(u, h)
    BY <1>1, <1>3, <2>1 DEF PointersBelongToViews
  <2> QED
    BY <1>1, <1>3, <2>1, <2>2 DEF PointsInto, HooksTypeOK
<1> QED
  BY <1>4, <1>5, <1>6, <1>7, <1>8, <1>9 DEF HooksInv

(* The registrations leave the table and the heap alone. *)
LEMMA RegistrationPreserves ==
    ASSUME HooksInv,
           \/ \E k \in DOMAIN heap : \E offset \in 0 .. heap[k].size : RegisterView(k, offset)
           \/ \E space \in Spaces, address \in Pointers \cup {Null} :
                RegisterUnmanagedView(space, address)
           \/ ClearRegisteredViews
    PROVE  HooksInv'
<1>1. /\ HooksTypeOK /\ TrackerTypeOK /\ TableMatchesHeap /\ DumpedBytesAreAllocated
      /\ KnownSizeIsExact /\ BlocksAreLargeEnough /\ BlocksAreDisjoint
      /\ ViewsAreRegistered /\ PointersBelongToViews
  BY DEF HooksInv, HooksTypeOK
<1>2. HeaderSize \in Nat /\ Pointers \subseteq Nat /\ Null \in Nat
  BY HooksAssumption DEF Null
<1>3. UNCHANGED <<heap, activeAllocations>>
  BY DEF RegisterView, RegisterUnmanagedView, ClearRegisteredViews,
         RecordUsedAllocation, ClearUsedAllocations
<1>4. (/\ TableMatchesHeap /\ DumpedBytesAreAllocated /\ KnownSizeIsExact
       /\ BlocksAreLargeEnough /\ BlocksAreDisjoint)'
  BY <1>1, <1>3 DEF TableMatchesHeap, DumpedBytesAreAllocated, KnownSizeIsExact,
                    BlocksAreLargeEnough, BlocksAreDisjoint
<1>5. (HooksTypeOK /\ ViewsAreRegistered /\ PointersBelongToViews)'
  <2>1. CASE \E k \in DOMAIN heap : \E offset \in 0 .. heap[k].size : RegisterView(k, offset)
    <3>1. PICK k \in DOMAIN heap : \E offset \in 0 .. heap[k].size : RegisterView(k, offset)
      BY <2>1
    <3>2. PICK offset \in 0 .. heap[k].size : RegisterView(k, offset)
      BY <3>1
    <3> DEFINE p == k[2] + HeaderSize + offset
    <3>3. /\ k[1] \in Spaces /\ k[2] \in Nat /\ heap[k].size \in Nat
          /\ offset \in Nat /\ offset <= heap[k].size
      BY <1>1, <3>2 DEF HooksTypeOK, Keys
    <3>4. p \in Nat /\ PointsInto(p, k)
      BY <1>2, <3>3 DEF PointsInto
    <3>5. /\ usedAllocations' = [usedAllocations EXCEPT ![k[1]] = @ \cup {p}]
          /\ views' = views \cup {k} /\ foreign' = foreign
      BY <3>2 DEF RegisterView, RecordUsedAllocation, AllocationDataPointer
    <3> HIDE DEF p
    <3>6. \A s \in Spaces : usedAllocations'[s] =
             IF s = k[1] THEN usedAllocations[s] \cup {p} ELSE usedAllocations[s]
      BY <1>1, <3>3, <3>5 DEF TrackerTypeOK
    <3>7. HooksTypeOK'
      BY <1>1, <1>3, <3>3, <3>4, <3>5 DEF HooksTypeOK, TrackerTypeOK
    <3>8. \A u, h : PointsInto(u, h) => PointsInto(u, h)'
      BY <1>3 DEF PointsInto
    <3>9. ViewsAreRegistered'
      <4> SUFFICES ASSUME NEW h \in views'
                   PROVE  \E u \in usedAllocations'[h[1]] : PointsInto(u, h)'
        BY DEF ViewsAreRegistered
      <4>1. h[1] \in Spaces
        BY <1>1, <3>3, <3>5 DEF HooksTypeOK, Keys
      <4>2. CASE h = k
        BY <3>3, <3>4, <3>6, <3>8, <4>2
      <4>3. CASE h \in views
        BY <1>1, <3>6, <3>8, <4>1, <4>3 DEF ViewsAreRegistered
      <4> QED
        BY <3>5, <4>2, <4>3
    <3>10. PointersBelongToViews'
      <4> SUFFICES ASSUME ~foreign, NEW s \in Spaces, NEW u \in usedAllocations'[s], u # Null
                   PROVE  \E h \in views' : h[1] = s /\ PointsInto(u, h)'
        BY <3>5 DEF PointersBelongToViews
      <4>1. CASE u \in usedAllocations[s]
        BY <1>1, <3>5, <3>8, <4>1 DEF PointersBelongToViews
      <4>2. CASE s = k[1] /\ u = p
        BY <3>4, <3>5, <3>8, <4>2
      <4> QED
        BY <3>6, <4>1, <4>2
    <3> QED
      BY <3>7, <3>9, <3>10
  <2>2. CASE \E space \in Spaces, address \in Pointers \cup {Null} :
                RegisterUnmanagedView(space, address)
    <3>1. PICK space \in Spaces, address \in Pointers \cup {Null} :
                RegisterUnmanagedView(space, address)
      BY <2>2
    <3>2. /\ usedAllocations' = [usedAllocations EXCEPT ![space] = @ \cup {address}]
          /\ views' = views /\ foreign' = (foreign \/ address # Null)
      BY <3>1 DEF RegisterUnmanagedView, RecordUsedAllocation
    <3>3. \A s \in Spaces : usedAllocations'[s] =
             IF s = space THEN usedAllocations[s] \cup {address} ELSE usedAllocations[s]
      BY <1>1, <3>2 DEF TrackerTypeOK
    <3>4. HooksTypeOK'
      BY <1>1, <1>2, <1>3, <3>2 DEF HooksTypeOK, TrackerTypeOK
    <3>5. \A u, h : PointsInto(u, h) => PointsInto(u, h)'
      BY <1>3 DEF PointsInto
    <3>6. ViewsAreRegistered'
      BY <1>1, <3>2, <3>3, <3>5 DEF ViewsAreRegistered, HooksTypeOK, Keys
    <3>7. PointersBelongToViews'
      <4> SUFFICES ASSUME ~foreign', NEW s \in Spaces, NEW u \in usedAllocations'[s], u # Null
                   PROVE  \E h \in views' : h[1] = s /\ PointsInto(u, h)'
        BY DEF PointersBelongToViews
      <4>1. ~foreign /\ address = Null
        BY <3>2, Zenon
      <4> QED
        BY <1>1, <3>2, <3>3, <3>5, <4>1 DEF PointersBelongToViews
    <3> QED
      BY <3>4, <3>6, <3>7
  <2>3. CASE ClearRegisteredViews
    <3>1. usedAllocations' = [s \in Spaces |-> {}] /\ views' = {} /\ foreign' = FALSE
      BY <2>3 DEF ClearRegisteredViews, ClearUsedAllocations
    <3> QED
      BY <1>1, <1>3, <3>1 DEF HooksTypeOK, TrackerTypeOK, ViewsAreRegistered,
                               PointersBelongToViews
  <2> QED
    BY <2>1, <2>2, <2>3
<1> QED
  BY <1>4, <1>5 DEF HooksInv

(* Every step keeps the invariant. *)
LEMMA HooksInvNext == HooksInv /\ [HooksNext]_hooksVars => HooksInv'
<1> SUFFICES ASSUME HooksInv, [HooksNext]_hooksVars PROVE HooksInv'
  OBVIOUS
<1>1. ASSUME NEW space \in Spaces, NEW label \in Labels, NEW ptr \in Pointers,
             NEW size \in Sizes, NEW slack \in Slacks, NEW probed \in ProbeOutcomes[space],
             AllocateData(space, label, ptr, size, slack, probed)
      PROVE  HooksInv'
  <2>1. probed \in BOOLEAN
    BY HooksAssumption
  <2> QED
    BY <1>1, <2>1, AllocateDataPreserves
<1>2. ASSUME NEW k \in DOMAIN heap, DeallocateData(k) PROVE HooksInv'
  BY <1>2, DeallocateDataPreserves
<1>3. CASE \/ \E k \in DOMAIN heap : \E offset \in 0 .. heap[k].size : RegisterView(k, offset)
           \/ \E space \in Spaces, address \in Pointers \cup {Null} :
                RegisterUnmanagedView(space, address)
           \/ ClearRegisteredViews
  BY <1>3, RegistrationPreserves
<1>4. CASE UNCHANGED hooksVars
  BY <1>4 DEF hooksVars, trackerVars, environmentVars, HooksInv, HooksTypeOK, TrackerTypeOK,
              TableMatchesHeap, DumpedBytesAreAllocated, KnownSizeIsExact,
              BlocksAreLargeEnough, BlocksAreDisjoint, ViewsAreRegistered,
              PointersBelongToViews, PointsInto
<1> QED
  BY <1>1, <1>2, <1>3, <1>4 DEF HooksNext

(* Hence it holds in every behaviour. *)
LEMMA HooksInvariant == HooksSpec => []HooksInv
BY HooksInvInit, HooksInvNext, PTL DEF HooksSpec

(* The invariant makes the selection complete, but for the Views at an     *)
(* offset into an allocation of unknown size.                              *)
LEMMA InvSelectsAll == HooksInv => SelectionIsComplete
<1> SUFFICES ASSUME HooksInv, NEW k \in views, k \in DOMAIN activeAllocations,
                    \/ activeAllocations[k].dataSizeKnown
                    \/ heap[k].size # HeaderSize
                    \/ activeAllocations[k].pData \in usedAllocations[k[1]]
             PROVE  IsUsed(k[1], activeAllocations[k])
  BY DEF SelectionIsComplete, SnapshotKeys
<1> DEFINE r == activeAllocations[k]
<1>1. /\ k \in DOMAIN heap /\ k[1] \in Spaces /\ k[2] \in Nat /\ r \in Records
      /\ heap[k].size \in Nat /\ usedAllocations \in [Spaces -> SUBSET Nat]
  BY DEF HooksInv, HooksTypeOK, TrackerTypeOK, Keys
<1>2. r.pData = k[2] + HeaderSize /\ r.size \in Nat /\ HeaderSize \in Nat
  BY <1>1, HooksAssumption DEF HooksInv, TableMatchesHeap, Records
<1>3. \E u \in usedAllocations[k[1]] : r.pData <= u /\ u <= r.pData + r.size
  <2>1. CASE r.pData \in usedAllocations[k[1]]
    BY <1>1, <1>2, <2>1
  <2>2. CASE r.pData \notin usedAllocations[k[1]]
    <3>1. heap[k].size <= r.size
      <4>1. CASE r.dataSizeKnown
        BY <1>1, <1>2, <4>1 DEF HooksInv, KnownSizeIsExact
      <4>2. CASE ~r.dataSizeKnown
        <5>1. heap[k].size \in {0, HeaderSize}
          BY <4>2, Zenon DEF HooksInv, KnownSizeIsExact
        <5> QED
          BY <1>2, <2>2, <4>2, <5>1
      <4> QED
        BY <4>1, <4>2
    <3>2. PICK u \in usedAllocations[k[1]] : PointsInto(u, k)
      BY DEF HooksInv, ViewsAreRegistered
    <3>3. u \in Nat /\ r.pData <= u /\ u <= r.pData + r.size
      BY <1>1, <1>2, <3>1, <3>2 DEF PointsInto
    <3> QED
      BY <3>3
  <2> QED
    BY <2>1, <2>2
<1> QED
  BY <1>1, <1>3, IsUsedMeaning

(* And tight. *)
LEMMA InvSelectsNoOther == HooksInv => SelectionIsTight
<1> SUFFICES ASSUME HooksInv, HasCompilerPlugins, ~foreign,
                    NEW k \in DOMAIN activeAllocations,
                    IsUsed(k[1], activeAllocations[k])
             PROVE  k \in views
  BY DEF SelectionIsTight, SnapshotKeys
<1> DEFINE r == activeAllocations[k]
<1>1. /\ k \in DOMAIN heap /\ k[1] \in Spaces /\ k[2] \in Nat /\ r \in Records
      /\ heap[k].usable \in Nat /\ usedAllocations \in [Spaces -> SUBSET Nat]
      /\ HeaderSize \in Nat /\ HeaderSize # 0
  BY HooksAssumption DEF HooksInv, HooksTypeOK, TrackerTypeOK, Keys, TableMatchesHeap
<1>2. /\ r.pData = k[2] + HeaderSize /\ r.size \in Nat
      /\ r.pData + r.size <= k[2] + heap[k].usable
  BY <1>1 DEF HooksInv, TableMatchesHeap, DumpedBytesAreAllocated, Records
<1>3. PICK u \in usedAllocations[k[1]] : r.pData <= u /\ u <= r.pData + r.size
  BY <1>1, IsUsedMeaning
<1>4. u \in Nat /\ u # Null
  BY <1>1, <1>2, <1>3 DEF Null
<1>5. PICK h \in views : h[1] = k[1] /\ PointsInto(u, h)
  BY <1>1, <1>4 DEF HooksInv, PointersBelongToViews
<1>6. /\ h \in DOMAIN heap /\ h[2] \in Nat /\ heap[h].size \in Nat /\ heap[h].usable \in Nat
      /\ HeaderSize + heap[h].size <= heap[h].usable
  BY DEF HooksInv, HooksTypeOK, Keys, BlocksAreLargeEnough
<1>7. CASE h # k
  <2>1. k[2] + heap[k].usable <= h[2] \/ h[2] + heap[h].usable <= k[2]
    BY <1>1, <1>5, <1>6, <1>7 DEF HooksInv, BlocksAreDisjoint
  <2>2. h[2] + HeaderSize <= u /\ u <= h[2] + HeaderSize + heap[h].size
    BY <1>5 DEF PointsInto
  <2> QED
    BY <1>1, <1>2, <1>3, <1>4, <1>6, <2>1, <2>2
<1> QED
  BY <1>7

-----------------------------------------------------------------------------
(* The table of kokkosp_allocate_data and kokkosp_deallocate_data is well  *)
(* typed in every reachable state.                                         *)
THEOREM HooksTypeCorrect == HooksSpec => []HooksTypeOK
<1>1. HooksInv => HooksTypeOK
  BY DEF HooksInv
<1> QED
  BY <1>1, HooksInvariant, PTL

(* The table is exactly the set of live user allocations: no deallocation  *)
(* and no address reuse leaves a wrong record.                             *)
THEOREM TableIsExact == HooksSpec => []TableMatchesHeap
<1>1. HooksInv => TableMatchesHeap
  BY DEF HooksInv
<1> QED
  BY <1>1, HooksInvariant, PTL

(* No dump reads outside a block: what allocation_data_size makes of the   *)
(* size Kokkos reports is sound for every header size, allocator slack and *)
(* Kokkos version.                                                         *)
THEOREM SizesAreSound == HooksSpec => []DumpedBytesAreAllocated
<1>1. HooksInv => DumpedBytesAreAllocated
  BY DEF HooksInv
<1> QED
  BY <1>1, HooksInvariant, PTL

(* And nothing of a View is lost: a size that allocation_data_size takes   *)
(* for known is the user's, but for the empty Views of an old Kokkos that  *)
(* it cannot tell from Views of the size of a header.                      *)
THEOREM KnownSizesAreExact == HooksSpec => []KnownSizeIsExact
<1>1. HooksInv => KnownSizeIsExact
  BY DEF HooksInv
<1> QED
  BY <1>1, HooksInvariant, PTL

(* The binary search of snapshot() selects every allocation that a         *)
(* registered View points into, except those with as many bytes as a       *)
(* header has whose size could not be queried and of whose start no View   *)
(* is registered.                                                          *)
THEOREM SelectionComplete == HooksSpec => []SelectionIsComplete
BY InvSelectsAll, HooksInvariant, PTL

(* And it selects no other allocation, as long as only Views of live       *)
(* allocations are registered: two blocks are disjoint and each starts     *)
(* with a header, so the pointer one past the user data of one of them is  *)
(* below the user data of the next.                                        *)
THEOREM SelectionTight == HooksSpec => []SelectionIsTight
BY InvSelectsNoOther, HooksInvariant, PTL

=============================================================================
