--------------------------- MODULE Replayer_proofs ---------------------------
(***************************************************************************)
(* Proofs about Replayer, for every set of dump files, complete or not,    *)
(* every command line and every sequence of calls.                         *)
(***************************************************************************)
EXTENDS Replayer, FiniteSetTheorems, WellFoundedInduction, SequenceTheorems, TLAPS

-----------------------------------------------------------------------------
(* The statics, the guard and what it has mapped.                          *)

(* The constructor is at one of the steps, or has ended. *)
Behind(steps) == pc \in steps \/ Loaded

RangesOf(type) == {e.range : e \in NonEmpty(InputsOf(type))}
AllRanges == {e.range : e \in NonEmpty(dump.in)}

Mapping == {"collectHost", "mapHost", "deviceInit", "collectDevice", "mapDevice", "mapped"}
Copying == {"copyInputs", "readFunctor", "readPolicy", "copyOutputs"}

StaticTypes ==
    /\ isInitialized \in BOOLEAN /\ inputResetEnabled \in BOOLEAN
    /\ guard \in Owners \cup {Nobody}
    /\ pc \in {"program", "resetInputs", "crashed"} \cup Constructing
    /\ kokkos \in {"before", "running", "finalized"} /\ replays \in 0 .. MaxReplays
    /\ \A text \in DOMAIN disk : IsDumpFile(disk[text])

(* The statics point to a guard only when its constructor has ended. *)
StaticsAreSet ==
    IF pc \in Constructing
    THEN /\ guard # Nobody /\ ~isInitialized
         /\ scopeGuard = Nobody /\ replayAllocations = Nobody /\ internalScopeGuard = FALSE
    ELSE pc # "crashed" =>
         /\ scopeGuard = guard /\ replayAllocations = guard
         /\ internalScopeGuard = (guard = "internal")
         /\ guard # Nobody => isInitialized

(* What the constructor has mapped at each of its steps. *)
MappedSoFar ==
    /\ guard # Nobody => IsDumpFile(dump)
    /\ guard = Nobody \/ pc \in Mapping => stored = {} /\ inputSnapshots = {}
    /\ guard = Nobody \/ pc = "collectHost" => rawAllocations = {}
    /\ pc = "mapHost" => rest \subseteq Nat /\ rawAllocations \cup rest = RangesOf("HOST")
    /\ pc \in {"deviceInit", "collectDevice"} => rawAllocations = RangesOf("HOST")
    /\ pc = "mapDevice" => rest \subseteq Nat /\ rawAllocations \cup rest = AllRanges
    /\ Behind(Copying \cup {"mapped"}) => rawAllocations = AllRanges
    /\ pc = "copyInputs" => rest \subseteq dump.in
    /\ IF guard = Nobody THEN memory = << >>
       ELSE memory \in [AddressesIn(rawAllocations) -> Nat]
    /\ \A s \in inputSnapshots : s[1] \in DOMAIN memory /\ s[2] \in Nat

GuardInv == StaticTypes /\ StaticsAreSet /\ MappedSoFar

(* Nothing is loaded at first. *)
LEMMA GuardInit == Init => GuardInv
<1> SUFFICES ASSUME Init PROVE GuardInv
  OBVIOUS
<1>1. "program" \notin Constructing /\ "program" \notin Mapping /\ "program" \notin Copying
  BY DEF Constructing, Mapping, Copying
<1>2. StaticTypes
  <2>1. MaxReplays \in Nat
    BY ReplayerAssumption
  <2>2. replays \in 0 .. MaxReplays
    BY <2>1 DEF Init
  <2> QED
    BY <2>2, FilesAssumption DEF Init, StaticTypes
<1>3. StaticsAreSet
  BY <1>1 DEF Init, StaticsAreSet, Nobody
<1>4. MappedSoFar
  BY <1>1 DEF Init, MappedSoFar, Behind, Loaded
<1> QED
  BY <1>2, <1>3, <1>4 DEF GuardInv

(* The least element of a set of natural numbers. *)
LEMMA LeastOf ==
    ASSUME NEW S \in SUBSET Nat, S # {}
    PROVE  \E x \in S : \A y \in S : x <= y
<1>1. PICK x \in S : \A y \in S : ~ (<<y, x>> \in OpToRel(<, Nat))
  BY NatLessThanWellFounded, WFMin, Zenon
<1>2. \A y \in S : ~ (y < x)
  BY <1>1, Zenon DEF OpToRel
<1> QED
  BY <1>2

(* Min picks a range that is left. *)
LEMMA LeastRange ==
    ASSUME NEW S \in SUBSET Nat, S # {}
    PROVE  Min(S) \in S
  BY LeastOf DEF Min

(* An exception that leaves the constructor unmaps all that it has mapped. *)
LEMMA ThrowIsClean ==
    ASSUME GuardInv, pc \in Constructing, Throw, UNCHANGED <<staticVars, disk, deviceVars>>
    PROVE  GuardInv'
<1>1. "program" \notin Constructing /\ "program" \notin Mapping /\ "program" \notin Copying
  BY DEF Constructing, Mapping, Copying
<1>2. guard # Nobody /\ DOMAIN memory = AddressesIn(rawAllocations)
  BY DEF GuardInv, StaticsAreSet, MappedSoFar
<1>3. /\ guard' = Nobody /\ pc' = "program" /\ stored' = {} /\ inputSnapshots' = {}
      /\ rawAllocations' = {} /\ memory' = << >>
  BY <1>2 DEF Throw, DestroyMembers, Restrict
<1>4. StaticTypes' /\ StaticsAreSet'
  BY <1>1, <1>3 DEF GuardInv, StaticTypes, StaticsAreSet, staticVars, deviceVars, Nobody
<1>5. MappedSoFar'
  BY <1>1, <1>3 DEF MappedSoFar, Behind, Loaded
<1> QED
  BY <1>4, <1>5 DEF GuardInv

(* The constructor goes on from one of its steps to another. *)
LEMMA StaticsStay ==
    ASSUME GuardInv, pc \in Constructing, pc' \in Constructing,
           UNCHANGED <<staticVars, disk, deviceVars, guard>>
    PROVE  StaticTypes' /\ StaticsAreSet'
  BY DEF GuardInv, StaticTypes, StaticsAreSet, staticVars, deviceVars

(* The constructor begins, or fails to open the file. *)
LEMMA ConstructKeepsGuard ==
    ASSUME GuardInv, NEW owner \in Owners, NEW args, Construct(owner, args)
    PROVE  GuardInv'
<1> DEFINE reset == FindCliFlag(args, ResetFlag)
           option == FindCliOption(reset.argv, DumpOption)
           file == IF option.argument = NoText THEN NoDump ELSE Opened(option.argument)
<1>1. "program" \notin Constructing /\ "program" \notin Mapping /\ "program" \notin Copying
  BY DEF Constructing, Mapping, Copying
<1>2. reset.found \in BOOLEAN
  BY DEF FindCliFlag
<1> HIDE DEF reset, option
<1>3. /\ pc = "program" /\ ~isInitialized /\ inputResetEnabled' = reset.found
      /\ dump' = file /\ pc' = (IF file = NoDump THEN "program" ELSE "collectHost")
      /\ guard' = (IF file = NoDump THEN guard ELSE owner)
      /\ UNCHANGED <<isInitialized, internalScopeGuard, scopeGuard, replayAllocations,
                     stored, inputSnapshots, rawAllocations, disk, memory, kokkos, replays>>
  BY DEF Construct, Goto, guardVars, deviceVars, reset, option
<1>4. /\ guard = Nobody /\ scopeGuard = Nobody /\ replayAllocations = Nobody
      /\ internalScopeGuard = FALSE
      /\ stored = {} /\ inputSnapshots = {} /\ rawAllocations = {} /\ memory = << >>
  BY <1>1, <1>3 DEF GuardInv, StaticsAreSet, MappedSoFar, Nobody
<1>5. file # NoDump => IsDumpFile(file)
  BY DEF Opened, GuardInv, StaticTypes
<1> HIDE DEF file
<1>6. CASE file = NoDump
  <2>1. guard' = Nobody /\ pc' = "program"
    BY <1>3, <1>4, <1>6
  <2>2. StaticTypes' /\ StaticsAreSet'
    BY <1>1, <1>2, <1>3, <1>4, <2>1 DEF GuardInv, StaticTypes, StaticsAreSet, Nobody
  <2>3. MappedSoFar'
    BY <1>1, <1>3, <1>4, <2>1 DEF MappedSoFar, Behind, Loaded
  <2> QED
    BY <2>2, <2>3 DEF GuardInv
<1>7. CASE file # NoDump
  <2>1. guard' = owner /\ pc' = "collectHost" /\ owner # Nobody /\ pc' \in Constructing
    BY <1>3, <1>7 DEF Owners, Nobody, Constructing
  <2>2. StaticTypes' /\ StaticsAreSet'
    BY <1>2, <1>3, <1>4, <2>1 DEF GuardInv, StaticTypes, StaticsAreSet
  <2>3. AddressesIn(rawAllocations)' = {}
    BY <1>3, <1>4 DEF AddressesIn
  <2>4. memory' \in [AddressesIn(rawAllocations)' -> Nat]
    BY <1>3, <1>4, <2>3
  <2>5. MappedSoFar'
    BY <1>3, <1>4, <1>5, <1>7, <2>1, <2>4 DEF MappedSoFar, Behind, Loaded, Copying
  <2> QED
    BY <2>2, <2>5 DEF GuardInv
<1> QED
  BY <1>6, <1>7
(* The first half of the constructor: it maps what in/views asks for. *)
LEMMA MappingKeepsGuard ==
    ASSUME GuardInv,
           \/ Collect("HOST", "collectHost", "mapHost") \/ MapRange("mapHost", "deviceInit")
           \/ DeviceInit
           \/ Collect("DEVICE", "collectDevice", "mapDevice") \/ MapRange("mapDevice", "mapped")
           \/ MappingDone
    PROVE  GuardInv'
<1>1. pc \in Mapping /\ pc \in Constructing /\ UNCHANGED <<staticVars, disk, deviceVars, dump>>
  BY DEF Collect, MapRange, DeviceInit, MappingDone, LoadUnchanged, argVars, Mapping, Constructing
<1>2. CASE Throw
  BY <1>1, <1>2, ThrowIsClean
<1>3. ASSUME ~Throw PROVE UNCHANGED <<guard, stored, inputSnapshots>>
  BY <1>3 DEF Collect, MapRange, DeviceInit, MappingDone, guardVars
<1>4. /\ guard # Nobody /\ IsDumpFile(dump) /\ stored = {} /\ inputSnapshots = {}
      /\ memory \in [AddressesIn(rawAllocations) -> Nat]
  BY <1>1 DEF GuardInv, StaticsAreSet, MappedSoFar
<1>5. RangesOf("HOST") \cup RangesOf("DEVICE") = AllRanges /\ AllRanges \subseteq Nat
  BY <1>4 DEF RangesOf, AllRanges, InputsOf, SpaceType, NonEmpty, IsDumpFile, IsEntry
<1>6. UNCHANGED <<RangesOf("HOST"), RangesOf("DEVICE"), AllRanges>>
  BY <1>1 DEF RangesOf, AllRanges, InputsOf, SpaceType, NonEmpty
<1>7. ASSUME ~Throw, pc' \in Mapping \cup {"copyInputs"},
             pc' = "mapHost" => rest' \subseteq Nat /\ (rawAllocations \cup rest)' = RangesOf("HOST"),
             pc' \in {"deviceInit", "collectDevice"} => rawAllocations' = RangesOf("HOST"),
             pc' = "mapDevice" => rest' \subseteq Nat /\ (rawAllocations \cup rest)' = AllRanges,
             pc' \in {"mapped", "copyInputs"} => rawAllocations' = AllRanges,
             pc' = "copyInputs" => rest' \subseteq dump.in,
             pc' # "collectHost",
             memory' \in [AddressesIn(rawAllocations)' -> Nat]
      PROVE  GuardInv'
  <2>1. pc' \in Constructing
    BY <1>7 DEF Mapping, Constructing
  <2>2. StaticTypes' /\ StaticsAreSet'
    BY <1>1, <1>3, <1>7, <2>1, StaticsStay
  <2>3. guard' # Nobody /\ IsDumpFile(dump)' /\ stored' = {} /\ inputSnapshots' = {}
    BY <1>1, <1>3, <1>4, <1>7
  <2>4. ~Loaded' /\ pc' \notin Copying \ {"copyInputs"}
    BY <1>7, <2>1 DEF Loaded, Mapping, Copying
  <2>5. MappedSoFar'
    BY <1>1, <1>6, <1>7, <2>3, <2>4 DEF MappedSoFar, Behind
  <2> QED
    BY <2>2, <2>5 DEF GuardInv
<1>8. CASE Collect("HOST", "collectHost", "mapHost") /\ ~Throw
  <2>1. /\ pc' = "mapHost" /\ rest' = RangesOf("HOST") /\ rawAllocations' = {}
        /\ UNCHANGED <<memory, rawAllocations>>
    BY <1>8 DEF Collect, Goto, RangesOf, GuardInv, MappedSoFar, guardVars
  <2>2. AddressesIn(rawAllocations)' = AddressesIn(rawAllocations)
    BY <1>1, <2>1 DEF AddressesIn
  <2> QED
    BY <1>4, <1>5, <1>7, <1>8, <2>1, <2>2 DEF Mapping
<1>9. CASE Collect("DEVICE", "collectDevice", "mapDevice") /\ ~Throw
  <2>1. /\ pc' = "mapDevice" /\ rest' = RangesOf("DEVICE") /\ rawAllocations = RangesOf("HOST")
        /\ UNCHANGED <<memory, rawAllocations>>
    BY <1>9 DEF Collect, Goto, RangesOf, GuardInv, MappedSoFar, guardVars
  <2>2. AddressesIn(rawAllocations)' = AddressesIn(rawAllocations)
    BY <1>1, <2>1 DEF AddressesIn
  <2> QED
    BY <1>4, <1>5, <1>7, <1>9, <2>1, <2>2 DEF Mapping
<1>10. CASE (DeviceInit \/ MappingDone) /\ ~Throw
  <2>1. /\ \/ pc = "deviceInit" /\ pc' = "collectDevice"
           \/ pc = "mapped" /\ pc' = "copyInputs" /\ rest' = dump.in
        /\ UNCHANGED <<memory, rawAllocations>>
    BY <1>10 DEF DeviceInit, MappingDone, Goto, guardVars
  <2>2. AddressesIn(rawAllocations)' = AddressesIn(rawAllocations)
    BY <1>1, <2>1 DEF AddressesIn
  <2>3. /\ pc = "deviceInit" => rawAllocations = RangesOf("HOST")
        /\ pc = "mapped" => rawAllocations = AllRanges
    BY DEF GuardInv, MappedSoFar, Behind
  <2> QED
    BY <1>4, <1>7, <1>10, <2>1, <2>2, <2>3 DEF Mapping
<1>11. ASSUME NEW step \in {"mapHost", "mapDevice"},
              NEW next \in {"deviceInit", "mapped"},
              (step = "mapHost") <=> (next = "deviceInit"),
              MapRange(step, next), ~Throw
       PROVE  GuardInv'
  <2> DEFINE goal == IF step = "mapHost" THEN RangesOf("HOST") ELSE AllRanges
  <2>1. pc = step /\ rest \subseteq Nat /\ rawAllocations \cup rest = goal
    BY <1>11 DEF MapRange, GuardInv, MappedSoFar
  <2>2. CASE rest = {}
    <3>1. pc' = next /\ UNCHANGED <<memory, rawAllocations>> /\ rawAllocations = goal
      BY <1>11, <2>1, <2>2 DEF MapRange, Goto, guardVars
    <3>2. AddressesIn(rawAllocations)' = AddressesIn(rawAllocations)
      BY <1>1, <3>1 DEF AddressesIn
    <3> QED
      BY <1>4, <1>7, <1>11, <3>1, <3>2 DEF Mapping
  <2>3. CASE rest # {}
    <3> DEFINE range == Min(rest)
    <3>1. /\ HostAllocate(range) /\ rest' = rest \ {range} /\ pc' = pc
      BY <1>11, <2>3 DEF MapRange
    <3>2. range \in rest
      BY <2>1, <2>3, LeastRange
    <3> HIDE DEF range
    <3>3. /\ rawAllocations' = rawAllocations \cup {range}
          /\ memory' = [a \in DOMAIN memory \cup AddressesIn({range}) |->
                          IF a \in DOMAIN memory THEN memory[a] ELSE 0]
      BY <3>1 DEF HostAllocate
    <3>4. AddressesIn(rawAllocations)' = AddressesIn(rawAllocations) \cup AddressesIn({range})
      BY <1>1, <3>3 DEF AddressesIn, NonEmpty
    <3>5. memory' \in [AddressesIn(rawAllocations)' -> Nat]
      BY <1>4, <3>3, <3>4
    <3>6. (rawAllocations \cup rest)' = rawAllocations \cup rest /\ rest' \subseteq Nat
      BY <2>1, <3>1, <3>2, <3>3
    <3> QED
      BY <1>7, <1>11, <2>1, <3>1, <3>5, <3>6 DEF Mapping
  <2> QED
    BY <2>2, <2>3
<1> QED
  BY <1>2, <1>8, <1>9, <1>10, <1>11

(* All addresses of nonempty inputs are mapped behind the mapping. *)
LEMMA AllAreMapped ==
    ASSUME MappedSoFar, guard # Nobody, Behind(Copying)
    PROVE  /\ DOMAIN memory = {e.address : e \in NonEmpty(dump.in)}
           /\ memory \in [DOMAIN memory -> Nat]
<1>1. rawAllocations = AllRanges
  BY DEF MappedSoFar, Behind, Copying
<1>2. AddressesIn(rawAllocations) = {e.address : e \in NonEmpty(dump.in)}
  BY <1>1 DEF AddressesIn, AllRanges
<1> QED
  BY <1>2 DEF MappedSoFar

(* A record of replay_allocations_ for an input. *)
StoredOf(e) ==
    [id |-> e.id, space |-> e.space, label |-> e.label, size |-> e.size,
     data |-> IF e.size # 0 THEN e.address ELSE NullData,
     outputSeen |-> FALSE, hasReference |-> FALSE, referenceSize |-> 0, reference |-> NullData]

(* What copying one input does. *)
LEMMA CopyInputEffect ==
    ASSUME GuardInv, CopyInput, ~Throw
    PROVE  /\ pc = "copyInputs" /\ pc' = pc
           /\ UNCHANGED <<guard, rawAllocations, dump, staticVars, disk, deviceVars, loadedVars>>
           /\ \E e \in rest :
                /\ e.bytes \in Nat
                /\ \A s \in stored : ~(s.id = e.id /\ s.space = e.space)
                /\ memory' = IF e.size # 0 THEN [memory EXCEPT ![e.address] = e.bytes] ELSE memory
                /\ inputSnapshots' = IF e.size # 0 /\ inputResetEnabled
                                     THEN inputSnapshots \cup {<<e.address, e.bytes>>}
                                     ELSE inputSnapshots
                /\ stored' = stored \cup {StoredOf(e)}
                /\ rest' = rest \ {e}
<1>1. pc = "copyInputs" /\ rest \subseteq dump.in /\ IsDumpFile(dump)
  BY DEF CopyInput, GuardInv, MappedSoFar, StaticsAreSet, Constructing
<1>2. PICK e \in rest :
        /\ IsDumped(e) /\ ~Inconsistent(e)
        /\ ~\E s \in stored : s.id = e.id /\ s.space = e.space
        /\ memory' = IF e.size # 0 THEN [memory EXCEPT ![e.address] = e.bytes] ELSE memory
        /\ inputSnapshots' = IF e.size # 0 /\ inputResetEnabled
                             THEN inputSnapshots \cup {<<e.address, e.bytes>>} ELSE inputSnapshots
        /\ stored' = stored \cup {StoredOf(e)}
        /\ rest' = rest \ {e}
        /\ UNCHANGED <<guard, rawAllocations, pc>>
  BY DEF CopyInput, StoredOf
<1>3. e.bytes \in Nat
  BY <1>1, <1>2 DEF IsDumpFile, IsEntry, IsDumped, Inconsistent
<1> QED
  BY <1>1, <1>2, <1>3 DEF CopyInput, LoadUnchanged, argVars

(* The second half of the constructor. *)
LEMMA CopyingKeepsGuard ==
    ASSUME GuardInv,
           \/ CopyInput \/ ReadMetadata \/ ReadFunctor \/ ReadPolicy \/ CopyOutput
           \/ FinishConstructor
    PROVE  GuardInv'
<1>1. pc \in Copying /\ pc \in Constructing /\ UNCHANGED <<disk, dump>>
  BY DEF CopyInput, ReadMetadata, ReadFunctor, ReadPolicy, CopyOutput, FinishConstructor,
         LoadUnchanged, argVars, Copying, Constructing
<1>2. CASE Throw /\ ~FinishConstructor
  <2>1. UNCHANGED <<staticVars, disk, deviceVars>>
    BY <1>1, <1>2 DEF CopyInput, ReadMetadata, ReadFunctor, ReadPolicy, CopyOutput, LoadUnchanged
  <2> QED
    BY <1>1, <1>2, <2>1, ThrowIsClean
<1>3. /\ guard # Nobody /\ IsDumpFile(dump) /\ rawAllocations = AllRanges
      /\ DOMAIN memory = {e.address : e \in NonEmpty(dump.in)}
      /\ memory \in [AddressesIn(rawAllocations) -> Nat]
  BY <1>1, AllAreMapped DEF GuardInv, StaticsAreSet, MappedSoFar, Behind
<1>4. ASSUME pc' \in Copying \/ (pc' = "program" /\ guard' # Nobody),
             UNCHANGED <<guard, rawAllocations>>, memory' \in [DOMAIN memory -> Nat],
             pc' = "copyInputs" => rest' \subseteq dump.in,
             \A s \in inputSnapshots' : s[1] \in DOMAIN memory /\ s[2] \in Nat
      PROVE  MappedSoFar'
  <2>1. UNCHANGED <<AddressesIn(rawAllocations), AllRanges>>
    BY <1>1, <1>4 DEF AddressesIn, AllRanges, NonEmpty
  <2>2. /\ guard' # Nobody /\ IsDumpFile(dump)' /\ rawAllocations' = AllRanges'
        /\ pc' \notin Mapping
    BY <1>1, <1>3, <1>4, <2>1 DEF Copying, Mapping
  <2>3. memory' \in [AddressesIn(rawAllocations)' -> Nat] /\ DOMAIN memory' = DOMAIN memory
    BY <1>3, <1>4, <2>1
  <2> QED
    BY <1>1, <1>4, <2>2, <2>3 DEF MappedSoFar, Mapping
<1>5. ASSUME FinishConstructor PROVE GuardInv'
  <2>1. /\ pc' = "program" /\ scopeGuard' = guard /\ replayAllocations' = guard
        /\ isInitialized' = TRUE /\ internalScopeGuard' = (guard = "internal") /\ replays' = 0
        /\ UNCHANGED <<inputResetEnabled, guard, rawAllocations, memory, inputSnapshots, kokkos>>
    BY <1>5 DEF FinishConstructor, Goto, guardVars
  <2>2. "program" \notin Constructing /\ MaxReplays \in Nat
    BY ReplayerAssumption DEF Constructing
  <2>3. replays' \in 0 .. MaxReplays
    BY <2>1, <2>2
  <2>4. StaticTypes' /\ StaticsAreSet'
    BY <1>1, <2>1, <2>2, <2>3 DEF GuardInv, StaticTypes, StaticsAreSet
  <2>5. MappedSoFar'
    BY <1>3, <1>4, <2>1 DEF GuardInv, MappedSoFar
  <2> QED
    BY <2>4, <2>5 DEF GuardInv
<1>6. ASSUME ~FinishConstructor, ~Throw PROVE GuardInv'
  <2>1. /\ pc' \in Copying /\ UNCHANGED <<staticVars, guard, rawAllocations, deviceVars>>
    BY <1>6 DEF CopyInput, ReadMetadata, ReadFunctor, ReadPolicy, CopyOutput, Goto, guardVars,
          LoadUnchanged, Copying
  <2>2. StaticTypes' /\ StaticsAreSet'
    <3>1. pc' \in Constructing
      BY <2>1 DEF Copying, Constructing
    <3> QED
      BY <1>1, <2>1, <3>1, StaticsStay
  <2>3. CASE CopyInput
    <3>1. PICK e \in rest :
            /\ e.bytes \in Nat
            /\ memory' = IF e.size # 0 THEN [memory EXCEPT ![e.address] = e.bytes] ELSE memory
            /\ inputSnapshots' = IF e.size # 0 /\ inputResetEnabled
                                 THEN inputSnapshots \cup {<<e.address, e.bytes>>}
                                 ELSE inputSnapshots
            /\ rest' = rest \ {e}
      BY <1>6, <2>3, CopyInputEffect
    <3>2. e \in dump.in /\ rest' \subseteq dump.in
      BY <2>3, <3>1 DEF GuardInv, MappedSoFar, CopyInput
    <3>3. memory' \in [DOMAIN memory -> Nat]
      BY <1>3, <3>1
    <3>4. \A s \in inputSnapshots' : s[1] \in DOMAIN memory /\ s[2] \in Nat
      <4>1. e.size # 0 => e.address \in DOMAIN memory
        BY <1>3, <3>2 DEF NonEmpty
      <4> QED
        BY <3>1, <4>1 DEF GuardInv, MappedSoFar
    <3>5. MappedSoFar'
      BY <1>4, <2>1, <3>2, <3>3, <3>4
    <3> QED
      BY <2>2, <3>5 DEF GuardInv
  <2>4. CASE ~CopyInput
    <3>1. pc' # "copyInputs" /\ UNCHANGED <<memory, inputSnapshots>>
      BY <1>6, <2>4 DEF ReadMetadata, ReadFunctor, ReadPolicy, CopyOutput, Goto, guardVars
    <3>2. MappedSoFar'
      BY <1>3, <1>4, <2>1, <3>1 DEF GuardInv, MappedSoFar
    <3> QED
      BY <2>2, <3>2 DEF GuardInv
  <2> QED
    BY <2>3, <2>4
<1> QED
  BY <1>2, <1>5, <1>6

(* The end of a guard. *)
LEMMA DestroyKeepsGuard ==
    ASSUME GuardInv, LeaveScope \/ Finalize
    PROVE  GuardInv'
<1>1. "program" \notin Constructing /\ "program" \notin Mapping /\ "program" \notin Copying
  BY DEF Constructing, Mapping, Copying
<1>2. /\ pc = "program" /\ scopeGuard = guard /\ replayAllocations = guard
      /\ internalScopeGuard = (guard = "internal") /\ guard # Nobody
  BY <1>1 DEF GuardInv, StaticsAreSet, LeaveScope, Finalize, Nobody
<1>3. DOMAIN memory = AddressesIn(rawAllocations)
  BY <1>2 DEF GuardInv, MappedSoFar
<1>4. /\ guard' = Nobody /\ scopeGuard' = Nobody /\ replayAllocations' = Nobody
      /\ stored' = {} /\ inputSnapshots' = {} /\ rawAllocations' = {} /\ memory' = << >>
      /\ UNCHANGED <<isInitialized, inputResetEnabled, pc, disk, kokkos, replays>>
  BY <1>2, <1>3 DEF LeaveScope, Finalize, Destroy, DestroyMembers, Restrict, argVars, deviceVars
<1>5. internalScopeGuard' = FALSE
  BY <1>2 DEF LeaveScope, Finalize
<1>6. StaticTypes' /\ StaticsAreSet'
  BY <1>1, <1>2, <1>4, <1>5 DEF GuardInv, StaticTypes, StaticsAreSet, Nobody
<1>7. MappedSoFar'
  BY <1>1, <1>2, <1>4 DEF MappedSoFar, Behind, Loaded
<1> QED
  BY <1>6, <1>7 DEF GuardInv

(* Replays, resets and Kokkos do not touch the guard. *)
LEMMA ReplayKeepsGuard ==
    ASSUME GuardInv,
           \/ KokkosInitialize \/ KokkosFinalize
           \/ \E forced, accepts \in BOOLEAN : ParallelFor(forced, accepts)
           \/ ResetInputs \/ CopySnapshots \/ RunKernel
    PROVE  GuardInv'
<1>1. UNCHANGED <<staticVars, guard, guardVars, disk, dump, rest>>
  BY DEF KokkosInitialize, KokkosFinalize, ParallelFor, ResetInputs, CopySnapshots, RunKernel,
         argVars
<1>2. /\ \/ pc' = pc
         \/ pc' = "crashed"
         \/ pc \in {"program", "resetInputs"} /\ pc' \in {"program", "resetInputs"}
      /\ kokkos' \in {"before", "running", "finalized"}
  BY DEF KokkosInitialize, KokkosFinalize, ParallelFor, ResetInputs, CopySnapshots, RunKernel, Goto,
         deviceVars, GuardInv, StaticTypes
<1>3. replays' \in 0 .. MaxReplays
  <2>1. MaxReplays \in Nat /\ replays \in 0 .. MaxReplays
    BY ReplayerAssumption DEF GuardInv, StaticTypes
  <2>2. replays' = replays \/ replays' = 0 \/ (replays < MaxReplays /\ replays' = replays + 1)
    BY DEF KokkosInitialize, KokkosFinalize, ParallelFor, ResetInputs, CopySnapshots, RunKernel,
           deviceVars
  <2> QED
    BY <2>1, <2>2
<1>4. {"program", "resetInputs", "crashed"} \cap (Constructing \cup Mapping \cup Copying) = {}
  BY DEF Constructing, Mapping, Copying
<1>5. StaticTypes' /\ StaticsAreSet'
  BY <1>1, <1>2, <1>3, <1>4 DEF GuardInv, StaticTypes, StaticsAreSet, staticVars
<1>6. /\ guard = Nobody => memory' = << >>
      /\ guard # Nobody => memory' \in [AddressesIn(rawAllocations) -> Nat]
  <2>1. CASE UNCHANGED memory
    BY <2>1 DEF GuardInv, MappedSoFar
  <2>2. CASE RunKernel /\ ~UNCHANGED memory
    BY <2>2 DEF RunKernel, GuardInv, MappedSoFar
  <2>3. CASE CopySnapshots
    <3> DEFINE Saved(a) == {s \in inputSnapshots : s[1] = a}
    <3>1. memory' = [a \in DOMAIN memory |->
                       IF Saved(a) = {} THEN memory[a] ELSE (CHOOSE s \in Saved(a) : TRUE)[2]]
      BY <2>3 DEF CopySnapshots
    <3>2. \A a \in DOMAIN memory : Saved(a) # {} => (CHOOSE s \in Saved(a) : TRUE)[2] \in Nat
      BY DEF GuardInv, MappedSoFar
    <3> HIDE DEF Saved
    <3> QED
      BY <3>1, <3>2 DEF GuardInv, MappedSoFar
  <2> QED
    BY <2>1, <2>2, <2>3 DEF KokkosInitialize, KokkosFinalize, ParallelFor, ResetInputs, RunKernel
<1>7. MappedSoFar'
  <2>1. UNCHANGED <<AddressesIn(rawAllocations), AllRanges, RangesOf("HOST")>>
    BY <1>1 DEF AddressesIn, AllRanges, RangesOf, NonEmpty, InputsOf, SpaceType, guardVars
  <2>2. UNCHANGED <<guard, stored, inputSnapshots, rawAllocations, rest, dump>>
    BY <1>1 DEF guardVars
  <2>3. DOMAIN memory' = DOMAIN memory
    BY <1>6 DEF GuardInv, MappedSoFar
  <2>4. Behind(Copying \cup {"mapped"})' => Behind(Copying \cup {"mapped"})
    BY <1>2, <1>4, <2>2 DEF Behind, Loaded, Copying
  <2>5. pc' \in Constructing \cup Mapping => pc' = pc
    BY <1>2, <1>4
  <2> QED
    BY <1>6, <2>1, <2>2, <2>3, <2>4, <2>5 DEF GuardInv, MappedSoFar, Constructing, Mapping
<1> QED
  BY <1>5, <1>7 DEF GuardInv

(* Every step keeps the statics and the mappings those of the guard. *)
LEMMA GuardNext == GuardInv /\ [Next]_vars => GuardInv'
<1> SUFFICES ASSUME GuardInv, [Next]_vars PROVE GuardInv'
  OBVIOUS
<1>1. CASE UNCHANGED vars
  BY <1>1 DEF vars, staticVars, loadedVars, guardVars, argVars, deviceVars, GuardInv, StaticTypes,
              StaticsAreSet, MappedSoFar, Behind, Loaded, AddressesIn, AllRanges, RangesOf,
              InputsOf, NonEmpty, SpaceType
<1>2. CASE FailToRead
  BY <1>2, ThrowIsClean DEF FailToRead, LoadUnchanged, argVars
<1>3. ASSUME NEW owner \in Owners, NEW args \in CommandLines \cup {argv}, Construct(owner, args)
      PROVE  GuardInv'
  BY <1>3, ConstructKeepsGuard
<1> QED
  BY <1>1, <1>2, <1>3, MappingKeepsGuard, CopyingKeepsGuard, DestroyKeepsGuard, ReplayKeepsGuard
     DEF Next, Program, CallStep, ConstructorStep

(* They are so throughout. *)
LEMMA GuardInvariant == Spec => []GuardInv
  BY GuardInit, GuardNext, PTL DEF Spec

(* Between two calls the statics point to the guard that exists and to no  *)
(* other one, and after a constructor that threw nothing stays mapped:     *)
(* for every set of dumps, every failure and every sequence of calls.      *)
THEOREM StaticsAreOfTheGuard == Spec => []StaticsFollowGuard
<1>1. GuardInv => StaticsFollowGuard
  BY DEF GuardInv, StaticsAreSet, MappedSoFar, StaticsFollowGuard, Constructing
<1> QED
  BY <1>1, GuardInvariant, PTL
-----------------------------------------------------------------------------
(* replay_allocations_ and the other things that are read from the dump.   *)

StoredFields == {"id", "space", "label", "size", "data", "outputSeen", "hasReference",
                 "referenceSize", "reference"}

SameKey(a, b) == a.id = b.id /\ a.space = b.space

(* The record was made for the input e. *)
Mirrors(s, e) ==
    /\ SameKey(s, e) /\ s.label = e.label /\ s.size = e.size
    /\ s.data = IF e.size # 0 THEN e.address ELSE NullData

(* It has the reference output of its own among the outputs seen so far. *)
HasOutput(s, seen) ==
    /\ DOMAIN s = StoredFields /\ s.referenceSize \in Nat /\ s.reference \in Nat
    /\ s.outputSeen = (\E e \in seen : SameKey(e, s))
    /\ s.hasReference = (\E e \in seen : SameKey(e, s) /\ IsDumped(e))
    /\ \A e \in seen : SameKey(e, s) =>
         s.reference = ReferenceOf(e) /\ s.referenceSize = e.size /\ s.label = e.label

KeysAreUnique == \A s, r \in stored : SameKey(s, r) => s = r

(* The records are those of the inputs `done' and the outputs `seen'. *)
StoredIs(done, seen) ==
    /\ KeysAreUnique
    /\ \A s \in stored : (\E e \in done : Mirrors(s, e)) /\ HasOutput(s, seen)
    /\ \A e \in done : e.bytes \in Nat /\ \E s \in stored : SameKey(s, e)
    /\ IsFiniteSet(stored) /\ Cardinality(stored) = Cardinality(done)

SnapshotsAre(done) ==
    inputSnapshots = IF inputResetEnabled THEN {<<e.address, e.bytes>> : e \in NonEmpty(done)}
                     ELSE {}

Outputs == IF dump.out = Missing THEN {} ELSE dump.out

StoredInv ==
    /\ pc = "copyInputs" => StoredIs(dump.in \ rest, {}) /\ SnapshotsAre(dump.in \ rest)
    /\ pc \in {"readFunctor", "readPolicy"} => StoredIs(dump.in, {})
    /\ pc = "copyOutputs" => rest \subseteq Outputs /\ StoredIs(dump.in, Outputs \ rest)
    /\ Loaded => StoredIs(dump.in, Outputs)
    /\ Behind(Copying \ {"copyInputs"}) => SnapshotsAre(dump.in)
    /\ Behind({"readPolicy", "copyOutputs"}) =>
         functorData = dump.functor /\ functorData # Missing
    /\ Behind({"copyOutputs"}) => replayPolicy = dump.policy
    /\ replayPolicy \in {NullPolicy, MonostatePolicy, "range"}

(* Nothing is said before the inputs are copied. *)
LEMMA NothingRead ==
    ASSUME pc' \notin Copying, ~Loaded',
           replayPolicy' \in {NullPolicy, MonostatePolicy, "range"}
    PROVE  StoredInv'
  BY DEF StoredInv, Behind, Copying

(* copy_data_wrapper adds the record of one input. *)
LEMMA InputIsStored ==
    ASSUME NEW done, IsFiniteSet(done), StoredIs(done, {}), NEW e, e \notin done, IsEntry(e),
           e.bytes \in Nat, \A s \in stored : ~SameKey(s, e),
           stored' = stored \cup {StoredOf(e)}
    PROVE  StoredIs(done \cup {e}, {})'
<1> DEFINE r == StoredOf(e)
<1>1. /\ Mirrors(r, e) /\ SameKey(r, e) /\ HasOutput(r, {})
  BY DEF StoredOf, Mirrors, SameKey, HasOutput, StoredFields, NullData
<1>2. \A s \in stored : ~SameKey(s, r) /\ ~SameKey(r, s)
  BY <1>1 DEF SameKey
<1>3. r \notin stored
  BY <1>2 DEF SameKey
<1>4. /\ IsFiniteSet(stored') /\ Cardinality(stored') = Cardinality(stored) + 1
      /\ Cardinality(done \cup {e}) = Cardinality(done) + 1
  BY <1>3, FS_AddElement DEF StoredIs
<1> HIDE DEF r
<1>5. KeysAreUnique'
  BY <1>2 DEF StoredIs, KeysAreUnique, r
<1>6. \A s \in stored' : (\E f \in done \cup {e} : Mirrors(s, f)) /\ HasOutput(s, {})
  BY <1>1 DEF StoredIs, r
<1>7. \A f \in done \cup {e} : f.bytes \in Nat /\ \E s \in stored' : SameKey(s, f)
  BY <1>1 DEF StoredIs, r
<1> QED
  BY <1>4, <1>5, <1>6, <1>7 DEF StoredIs

(* allocate_output gives the record of the same key its reference. *)
LEMMA OutputIsStored ==
    ASSUME NEW done, NEW seen, StoredIs(done, seen), NEW e, e \notin seen, IsEntry(e),
           ~Inconsistent(e), NEW s \in stored, IsInputOf(s, e), ~s.outputSeen, s.label = e.label,
           stored' = (stored \ {s}) \cup
             {[s EXCEPT !.outputSeen = TRUE, !.referenceSize = e.size,
                        !.hasReference = IsDumped(e), !.reference = ReferenceOf(e)]}
    PROVE  StoredIs(done, seen \cup {e})'
<1> DEFINE r == [s EXCEPT !.outputSeen = TRUE, !.referenceSize = e.size,
                          !.hasReference = IsDumped(e), !.reference = ReferenceOf(e)]
<1>1. DOMAIN s = StoredFields /\ HasOutput(s, seen) /\ SameKey(s, e) /\ KeysAreUnique
  BY DEF StoredIs, HasOutput, SameKey, IsInputOf
<1>2. /\ DOMAIN r = StoredFields /\ r.outputSeen = TRUE /\ r.referenceSize = e.size
      /\ r.hasReference = IsDumped(e) /\ r.reference = ReferenceOf(e)
      /\ r.id = s.id /\ r.space = s.space /\ r.label = s.label /\ r.size = s.size
      /\ r.data = s.data
  BY <1>1 DEF StoredFields
<1> HIDE DEF r
<1>3. /\ ReferenceOf(e) \in Nat /\ e.size \in Nat
  BY DEF ReferenceOf, IsEntry, Inconsistent, IsDumped, NullData
<1>4. \A f \in seen : ~SameKey(f, s)
  BY <1>1 DEF HasOutput
<1>5. HasOutput(r, seen \cup {e})
  <2>1. \A f \in seen : ~SameKey(f, r)
    BY <1>2, <1>4 DEF SameKey
  <2>2. SameKey(e, r)
    BY <1>1, <1>2 DEF SameKey
  <2>3. r.hasReference = (\E f \in seen \cup {e} : SameKey(f, r) /\ IsDumped(f))
    BY <1>2, <2>1, <2>2 DEF IsDumped
  <2>4. r.outputSeen = (\E f \in seen \cup {e} : SameKey(f, r))
    BY <1>2, <2>1, <2>2
  <2> QED
    BY <1>2, <1>3, <2>1, <2>2, <2>3, <2>4 DEF HasOutput
<1>6. \A q \in stored \ {s} : ~SameKey(e, q) /\ ~SameKey(q, r) /\ ~SameKey(r, q)
  BY <1>1, <1>2 DEF KeysAreUnique, SameKey
<1>7. \A q \in stored \ {s} : HasOutput(q, seen \cup {e})
  <2> SUFFICES ASSUME NEW q \in stored \ {s} PROVE HasOutput(q, seen \cup {e})
    OBVIOUS
  <2>1. HasOutput(q, seen) /\ ~SameKey(e, q)
    BY <1>6 DEF StoredIs
  <2> QED
    BY <2>1 DEF HasOutput
<1>8. \A q \in stored' : (\E f \in done : Mirrors(q, f)) /\ HasOutput(q, seen \cup {e})
  <2>1. \E f \in done : Mirrors(r, f)
    BY <1>2 DEF StoredIs, Mirrors, SameKey
  <2> QED
    BY <1>5, <1>7, <2>1 DEF StoredIs, r
<1>9. KeysAreUnique'
  BY <1>1, <1>6 DEF KeysAreUnique, r
<1>10. \A f \in done : f.bytes \in Nat /\ \E q \in stored' : SameKey(q, f)
  <2> SUFFICES ASSUME NEW f \in done PROVE f.bytes \in Nat /\ \E q \in stored' : SameKey(q, f)
    OBVIOUS
  <2>1. PICK q \in stored : SameKey(q, f)
    BY DEF StoredIs
  <2>2. q = s => SameKey(r, f)
    BY <1>2, <2>1 DEF SameKey
  <2> QED
    BY <2>1, <2>2 DEF StoredIs, r
<1>11. IsFiniteSet(stored') /\ Cardinality(stored') = Cardinality(stored)
  <2>1. /\ IsFiniteSet(stored) /\ IsFiniteSet(stored \ {s})
        /\ Cardinality(stored \ {s}) = Cardinality(stored) - 1
    BY FS_RemoveElement DEF StoredIs
  <2>2. r \notin stored \ {s}
    BY <1>6 DEF SameKey
  <2>3. /\ IsFiniteSet((stored \ {s}) \cup {r})
        /\ Cardinality((stored \ {s}) \cup {r}) = Cardinality(stored \ {s}) + 1
    BY <2>1, <2>2, FS_AddElement
  <2>4. Cardinality(stored) \in Nat
    BY <2>1, FS_CardinalityType
  <2> QED
    BY <2>1, <2>3, <2>4 DEF r
<1> QED
  BY <1>8, <1>9, <1>10, <1>11 DEF StoredIs

(* The constructor reads the inputs, the functor, the policy and the       *)
(* outputs.                                                                *)
LEMMA ReadingKeepsStored ==
    ASSUME GuardInv, StoredInv, ~Throw,
           \/ MappingDone \/ CopyInput \/ ReadMetadata \/ ReadFunctor \/ ReadPolicy \/ CopyOutput
           \/ FinishConstructor
    PROVE  StoredInv'
<1>1. /\ pc \in Copying \cup {"mapped"} /\ pc \in Constructing
      /\ UNCHANGED <<dump, inputResetEnabled>>
  BY DEF MappingDone, CopyInput, ReadMetadata, ReadFunctor, ReadPolicy, CopyOutput,
         FinishConstructor, LoadUnchanged, staticVars, Copying, Constructing
<1>2. /\ guard # Nobody /\ IsDumpFile(dump) /\ IsFiniteSet(dump.in) /\ ~Loaded
      /\ \A e \in dump.in : IsEntry(e)
  BY <1>1 DEF GuardInv, StaticsAreSet, MappedSoFar, IsDumpFile, Loaded, Constructing
<1>3. Outputs' = Outputs /\ \A e \in Outputs : IsEntry(e)
  BY <1>1, <1>2 DEF Outputs, IsDumpFile
<1>4. CASE MappingDone
  <2>1. /\ pc' = "copyInputs" /\ rest' = dump.in /\ UNCHANGED <<stored, inputSnapshots, replayPolicy>>
        /\ stored = {} /\ inputSnapshots = {}
    BY <1>4 DEF MappingDone, Goto, guardVars, loadedVars, GuardInv, MappedSoFar, Mapping
  <2>2. (dump.in \ rest)' = {}
    BY <1>1, <2>1
  <2>3. StoredIs(dump.in \ rest, {})'
    BY <2>1, <2>2, FS_EmptySet DEF StoredIs, KeysAreUnique
  <2>4. SnapshotsAre(dump.in \ rest)'
    BY <2>1, <2>2 DEF SnapshotsAre, NonEmpty
  <2> QED
    BY <2>1, <2>3, <2>4 DEF StoredInv, Behind, Loaded, Copying
<1>5. CASE CopyInput
  <2> DEFINE done == dump.in \ rest
  <2>1. PICK e \in rest :
          /\ e.bytes \in Nat
          /\ \A s \in stored : ~(s.id = e.id /\ s.space = e.space)
          /\ inputSnapshots' = IF e.size # 0 /\ inputResetEnabled
                               THEN inputSnapshots \cup {<<e.address, e.bytes>>}
                               ELSE inputSnapshots
          /\ stored' = stored \cup {StoredOf(e)}
          /\ rest' = rest \ {e}
    BY <1>5, CopyInputEffect
  <2>2. pc = "copyInputs" /\ pc' = pc /\ replayPolicy' = replayPolicy /\ rest \subseteq dump.in
    BY <1>5, CopyInputEffect DEF loadedVars, GuardInv, MappedSoFar
  <2>3. done' = done \cup {e} /\ e \notin done /\ IsFiniteSet(done) /\ IsEntry(e)
    BY <1>1, <1>2, <2>1, <2>2, FS_Subset
  <2>4. StoredIs(done, {}) /\ SnapshotsAre(done)
    BY <2>2 DEF StoredInv
  <2>5. \A s \in stored : ~SameKey(s, e)
    BY <2>1 DEF SameKey
  <2> HIDE DEF done
  <2>6. StoredIs(done \cup {e}, {})'
    BY <2>1, <2>3, <2>4, <2>5, InputIsStored
  <2>7. SnapshotsAre(done)'
    BY <1>1, <2>1, <2>3, <2>4 DEF SnapshotsAre, NonEmpty
  <2>8. StoredIs(done, {})'
    BY <2>3, <2>6
  <2> QED
    BY <2>2, <2>7, <2>8 DEF StoredInv, Behind, Loaded, Copying, done
<1>6. CASE ReadMetadata \/ ReadFunctor \/ ReadPolicy
  <2>1. UNCHANGED <<stored, inputSnapshots>>
    BY <1>6 DEF ReadMetadata, ReadFunctor, ReadPolicy, guardVars
  <2>2. StoredIs(dump.in, {}) /\ SnapshotsAre(dump.in)
    <3>1. CASE pc = "copyInputs" /\ rest = {}
      <4>1. dump.in \ rest = dump.in
        BY <3>1
      <4> QED
        BY <3>1, <4>1 DEF StoredInv
    <3>2. CASE pc \in {"readFunctor", "readPolicy"}
      BY <3>2 DEF StoredInv, Behind, Copying
    <3> QED
      BY <1>6, <3>1, <3>2 DEF ReadMetadata, ReadFunctor, ReadPolicy
  <2>3. StoredIs(dump.in, {})' /\ SnapshotsAre(dump.in)'
    BY <1>1, <2>1, <2>2 DEF StoredIs, KeysAreUnique, SnapshotsAre
  <2>4. CASE ReadMetadata \/ ReadFunctor
    <3>1. /\ \/ pc' = "readFunctor"
             \/ pc' = "readPolicy" /\ functorData' = dump.functor /\ functorData' # Missing
          /\ replayPolicy' = replayPolicy
      BY <2>4 DEF ReadMetadata, ReadFunctor, Goto
    <3> QED
      BY <1>1, <2>3, <3>1 DEF StoredInv, Behind, Loaded
  <2>5. CASE ReadPolicy
    <3>1. /\ pc = "readPolicy" /\ pc' = "copyOutputs" /\ rest' = Outputs
          /\ replayPolicy' = dump.policy /\ dump.policy # "unsupported" /\ UNCHANGED functorData
      BY <2>5 DEF ReadPolicy, Goto, Outputs
    <3>2. functorData = dump.functor /\ functorData # Missing
      BY <3>1 DEF StoredInv, Behind
    <3>3. replayPolicy' \in {MonostatePolicy, "range"}
      BY <1>2, <3>1 DEF IsDumpFile
    <3>4. (Outputs \ rest)' = {}
      BY <1>3, <3>1
    <3>5. StoredIs(dump.in, Outputs \ rest)'
      BY <2>3, <3>4
    <3> QED
      BY <1>1, <1>3, <2>3, <3>1, <3>2, <3>3, <3>5 DEF StoredInv, Behind, Loaded
  <2> QED
    BY <1>6, <2>4, <2>5
<1>7. CASE CopyOutput
  <2> DEFINE seen == Outputs \ rest
  <2>1. PICK e \in rest :
          /\ ~Inconsistent(e) /\ rest' = rest \ {e}
          /\ \E r \in stored : IsInputOf(r, e) /\ r.label = e.label
          /\ \E s \in {i \in stored : IsInputOf(i, e) /\ ~i.outputSeen} :
               stored' = (stored \ {s}) \cup
                 {[s EXCEPT !.outputSeen = TRUE, !.referenceSize = e.size,
                            !.hasReference = IsDumped(e), !.reference = ReferenceOf(e)]}
    BY <1>7 DEF CopyOutput
  <2>2. /\ pc = "copyOutputs" /\ pc' = pc
        /\ UNCHANGED <<inputSnapshots, functorData, replayPolicy>>
    BY <1>7 DEF CopyOutput, loadedVars
  <2>3. rest \subseteq Outputs /\ StoredIs(dump.in, seen)
    BY <2>2 DEF StoredInv
  <2>4. e \notin seen /\ IsEntry(e) /\ seen' = seen \cup {e} /\ (rest \subseteq Outputs)'
    BY <1>3, <2>1, <2>3
  <2>5. PICK s \in stored :
          /\ IsInputOf(s, e) /\ ~s.outputSeen
          /\ stored' = (stored \ {s}) \cup
                 {[s EXCEPT !.outputSeen = TRUE, !.referenceSize = e.size,
                            !.hasReference = IsDumped(e), !.reference = ReferenceOf(e)]}
    BY <2>1
  <2> HIDE DEF seen
  <2>6. PICK ins, outs : ins = dump.in /\ outs = seen
    OBVIOUS
  <2>7. StoredIs(ins, outs \cup {e})'
    <3>1. s.label = e.label
      BY <2>1, <2>3, <2>5 DEF StoredIs, KeysAreUnique, SameKey, IsInputOf
    <3> QED
      BY <2>1, <2>3, <2>4, <2>5, <2>6, <3>1, OutputIsStored
  <2>8. StoredIs(dump.in, seen)'
    <3>1. dump.in' = ins /\ seen' = outs \cup {e}
      BY <1>1, <2>4, <2>6
    <3> QED
      BY <2>7, <3>1
  <2>9. SnapshotsAre(dump.in)'
    BY <1>1, <2>2 DEF StoredInv, Behind, Copying, SnapshotsAre
  <2> QED
    BY <1>1, <2>2, <2>4, <2>8, <2>9 DEF StoredInv, Behind, Loaded, seen
<1>8. CASE FinishConstructor
  <2>1. /\ pc = "copyOutputs" /\ rest = {} /\ pc' = "program"
        /\ UNCHANGED <<stored, inputSnapshots, functorData, replayPolicy>>
    BY <1>8 DEF FinishConstructor, Goto, guardVars, loadedVars
  <2>2. Outputs \ rest = Outputs
    BY <2>1
  <2>3. /\ StoredIs(dump.in, Outputs) /\ SnapshotsAre(dump.in) /\ replayPolicy = dump.policy
        /\ functorData = dump.functor /\ functorData # Missing
    BY <2>1, <2>2 DEF StoredInv, Behind, Copying
  <2>4. StoredIs(dump.in, Outputs)' /\ SnapshotsAre(dump.in)'
    BY <1>1, <1>3, <2>1, <2>3 DEF StoredIs, KeysAreUnique, SnapshotsAre
  <2> QED
    BY <1>1, <2>1, <2>3, <2>4 DEF StoredInv, Copying
<1> QED
  BY <1>4, <1>5, <1>6, <1>7, <1>8
(* Nothing is loaded at first. *)
LEMMA StoredInit == Init => StoredInv
  BY DEF Init, StoredInv, Behind, Loaded, Copying

(* An exception, a new constructor and the end of a guard forget what was  *)
(* read; the mapping has read nothing yet.                                 *)
LEMMA UnloadingKeepsStored ==
    ASSUME GuardInv, StoredInv,
           \/ ConstructorStep /\ Throw
           \/ FailToRead
           \/ Collect("HOST", "collectHost", "mapHost") \/ MapRange("mapHost", "deviceInit")
           \/ DeviceInit
           \/ Collect("DEVICE", "collectDevice", "mapDevice") \/ MapRange("mapDevice", "mapped")
           \/ \E owner \in Owners, args \in CommandLines \cup {argv} : Construct(owner, args)
           \/ LeaveScope \/ Finalize
    PROVE  StoredInv'
<1> USE DEF Copying
<1>1. CASE ConstructorStep /\ Throw
  <2>1. pc' = "program" /\ guard' = Nobody
    BY <1>1 DEF Throw
  <2>2. pc \in Constructing /\ IsDumpFile(dump)
    <3>1. pc \in Constructing
      BY <1>1 DEF ConstructorStep, Collect, MapRange, DeviceInit, MappingDone, CopyInput, ReadMetadata,
                  ReadFunctor, ReadPolicy, CopyOutput, FinishConstructor, Constructing
    <3> QED
      BY <3>1 DEF GuardInv, StaticsAreSet, MappedSoFar
  <2>3. replayPolicy' \in {replayPolicy, MonostatePolicy, "range"}
    BY <1>1, <2>2 DEF ConstructorStep, Collect, MapRange, DeviceInit, MappingDone, CopyInput, ReadMetadata,
                ReadFunctor, ReadPolicy, CopyOutput, FinishConstructor, loadedVars, IsDumpFile
  <2> QED
    BY <2>1, <2>3, NothingRead DEF Loaded, StoredInv
<1>2. CASE FailToRead
  <2>1. pc' = "program" /\ guard' = Nobody /\ replayPolicy' \in {replayPolicy, MonostatePolicy}
    BY <1>2 DEF FailToRead, Throw
  <2> QED
    BY <2>1, NothingRead DEF Loaded, StoredInv
<1>3. ASSUME NEW owner \in Owners, NEW args, Construct(owner, args) PROVE StoredInv'
  <2>1. guard = Nobody
    <3>1. "program" \notin Constructing
      BY DEF Constructing
    <3> QED
      BY <1>3, <3>1 DEF Construct, GuardInv, StaticsAreSet
  <2>2. /\ replayPolicy' = replayPolicy
        /\ \/ pc' = "program" /\ guard' = guard
           \/ pc' = "collectHost"
    BY <1>3 DEF Construct, loadedVars, Goto
  <2> QED
    BY <2>1, <2>2, NothingRead DEF Loaded, StoredInv
<1>4. CASE LeaveScope \/ Finalize
  <2>1. pc' = "program" /\ guard' = Nobody /\ replayPolicy' = replayPolicy
    BY <1>4 DEF LeaveScope, Finalize, Destroy, loadedVars
  <2> QED
    BY <2>1, NothingRead DEF Loaded, StoredInv
<1>5. ASSUME ~Throw,
             \/ Collect("HOST", "collectHost", "mapHost") \/ MapRange("mapHost", "deviceInit")
             \/ DeviceInit
             \/ Collect("DEVICE", "collectDevice", "mapDevice") \/ MapRange("mapDevice", "mapped")
      PROVE  StoredInv'
  <2>1. pc' \in Mapping /\ replayPolicy' = replayPolicy
    BY <1>5 DEF Collect, MapRange, DeviceInit, Goto, Mapping, loadedVars
  <2> QED
    BY <2>1, NothingRead DEF Loaded, StoredInv, Mapping
<1> QED
  BY <1>1, <1>2, <1>3, <1>4, <1>5 DEF ConstructorStep

(* Replays, resets and Kokkos change nothing of what was read. *)
LEMMA ReplayKeepsStored ==
    ASSUME StoredInv,
           \/ KokkosInitialize \/ KokkosFinalize
           \/ \E forced, accepts \in BOOLEAN : ParallelFor(forced, accepts)
           \/ ResetInputs \/ CopySnapshots \/ RunKernel \/ UNCHANGED vars
    PROVE  StoredInv'
<1>1. UNCHANGED <<staticVars, loadedVars, guard, guardVars, dump, rest>>
  BY DEF KokkosInitialize, KokkosFinalize, ParallelFor, ResetInputs, CopySnapshots, RunKernel, vars
<1>2. \/ pc' = pc
      \/ pc' = "crashed"
      \/ pc \in {"program", "resetInputs"} /\ pc' \in {"program", "resetInputs"}
  BY DEF KokkosInitialize, KokkosFinalize, ParallelFor, ResetInputs, CopySnapshots, RunKernel, Goto,
         vars
<1>3. UNCHANGED <<stored, inputSnapshots, inputResetEnabled, functorData, replayPolicy>>
  BY <1>1 DEF staticVars, loadedVars, guardVars
<1>4. UNCHANGED <<StoredIs(dump.in \ rest, {}), StoredIs(dump.in, {}), StoredIs(dump.in, Outputs \ rest),
                  StoredIs(dump.in, Outputs), SnapshotsAre(dump.in \ rest), SnapshotsAre(dump.in),
                  Outputs>>
  BY <1>1, <1>3 DEF StoredIs, KeysAreUnique, SnapshotsAre, Outputs
<1>5. /\ Loaded' => Loaded
      /\ \A steps \in SUBSET Constructing : Behind(steps)' => Behind(steps)
  BY <1>1, <1>2 DEF Loaded, Behind, Constructing
<1> QED
  BY <1>1, <1>2, <1>3, <1>4, <1>5 DEF StoredInv, Behind, Copying, Constructing

(* Every step keeps the records those of the dump. *)
LEMMA StoredNext == GuardInv /\ StoredInv /\ [Next]_vars => StoredInv'
<1> SUFFICES ASSUME GuardInv, StoredInv, [Next]_vars PROVE StoredInv'
  OBVIOUS
<1>1. CASE ConstructorStep /\ Throw
  BY <1>1, UnloadingKeepsStored
<1>2. CASE ConstructorStep /\ ~Throw
  BY <1>2, UnloadingKeepsStored, ReadingKeepsStored DEF ConstructorStep
<1> QED
  BY <1>1, <1>2, UnloadingKeepsStored, ReplayKeepsStored DEF Next, Program, CallStep

(* They are so throughout. *)
LEMMA StoredInvariant == Spec => [](GuardInv /\ StoredInv)
<1>1. Init => GuardInv /\ StoredInv
  BY GuardInit, StoredInit
<1>2. GuardInv /\ StoredInv /\ [Next]_vars => (GuardInv /\ StoredInv)'
  BY GuardNext, StoredNext
<1> QED
  BY <1>1, <1>2, PTL DEF Spec

(* A guard whose constructor has ended holds the functor, the policy and   *)
(* the allocations of its own dump and each allocation its own reference   *)
(* output, for every dump, every order HDF5 lists the allocations in and   *)
(* whatever constructors failed before.                                    *)
THEOREM GuardIsLoadedFromItsDump == Spec => []LoadedFromDump
<1>1. ASSUME GuardInv, StoredInv, Loaded PROVE LoadedFromDump
  <2>1. /\ functorData = dump.functor /\ replayPolicy = dump.policy
        /\ StoredIs(dump.in, Outputs)
    BY <1>1 DEF StoredInv, Behind
  <2>2. ASSUME NEW s \in stored
        PROVE  /\ \E e \in dump.in :
                      /\ e.id = s.id /\ e.space = s.space /\ e.label = s.label
                      /\ e.size = s.size /\ (e.size # 0 => e.address = s.data)
               /\ s.hasReference = (\E e \in Outputs : e.id = s.id /\ e.space = s.space
                                                      /\ e.bytes # Skipped)
               /\ \A e \in Outputs :
                    (e.id = s.id /\ e.space = s.space /\ s.reference # NullData) =>
                      s.reference = e.bytes /\ s.referenceSize = e.size
    <3>1. (\E e \in dump.in : Mirrors(s, e)) /\ HasOutput(s, Outputs)
      BY <2>1, <2>2 DEF StoredIs
    <3>2. \E e \in dump.in :
                      /\ e.id = s.id /\ e.space = s.space /\ e.label = s.label
                      /\ e.size = s.size /\ (e.size # 0 => e.address = s.data)
      BY <3>1 DEF Mirrors, SameKey
    <3>3. s.hasReference = (\E e \in Outputs : e.id = s.id /\ e.space = s.space
                                                      /\ e.bytes # Skipped)
      BY <3>1 DEF HasOutput, SameKey, IsDumped
    <3>4. \A e \in Outputs :
                    (e.id = s.id /\ e.space = s.space /\ s.reference # NullData) =>
                      s.reference = e.bytes /\ s.referenceSize = e.size
      BY <3>1 DEF HasOutput, SameKey, ReferenceOf
    <3> QED
      BY <3>2, <3>3, <3>4
  <2> QED
    BY <2>1, <2>2 DEF LoadedFromDump, StoredIs, Outputs
<1>2. GuardInv /\ StoredInv => LoadedFromDump
  BY <1>1 DEF LoadedFromDump
<1> QED
  BY <1>2, StoredInvariant, PTL

(* A state that has not crashed has the types: GuardInv and StoredInv say  *)
(* more of every variable.                                                 *)
LEMMA TypesUnlessCrashed == GuardInv /\ StoredInv /\ ~(pc = "crashed") => ReplayerTypeOK
<1> SUFFICES ASSUME GuardInv, StoredInv, pc # "crashed" PROVE ReplayerTypeOK
  OBVIOUS
<1>1. /\ isInitialized \in BOOLEAN /\ inputResetEnabled \in BOOLEAN
      /\ internalScopeGuard \in BOOLEAN
  BY DEF GuardInv, StaticTypes, StaticsAreSet
<1>2. {scopeGuard, replayAllocations, guard} \subseteq Owners \cup {Nobody}
  BY DEF GuardInv, StaticTypes, StaticsAreSet
<1>3. ASSUME NEW s \in stored PROVE {s.size, s.referenceSize, s.data, s.reference} \subseteq Nat
  <2>1. guard # Nobody /\ pc \notin Mapping /\ IsDumpFile(dump)
    BY <1>3 DEF GuardInv, MappedSoFar
  <2>2. Behind(Copying)
    BY <2>1 DEF GuardInv, StaticTypes, Behind, Loaded, Copying, Mapping, Constructing
  <2>3. PICK e \in dump.in : Mirrors(s, e) /\ s.referenceSize \in Nat /\ s.reference \in Nat
    BY <1>3, <2>2 DEF StoredInv, StoredIs, HasOutput, Behind, Copying
  <2>4. e.size \in Nat /\ e.address \in Nat
    BY <2>1 DEF IsDumpFile, IsEntry
  <2> QED
    BY <2>3, <2>4 DEF Mirrors, NullData
<1>4. memory \in [DOMAIN memory -> Nat] /\ DOMAIN memory \subseteq Nat \ {NullData}
  <2>1. CASE guard = Nobody
    <3>1. memory = << >>
      BY <2>1 DEF GuardInv, MappedSoFar
    <3> QED
      BY <3>1
  <2>2. CASE guard # Nobody
    <3>1. memory \in [AddressesIn(rawAllocations) -> Nat] /\ IsDumpFile(dump)
      BY <2>2 DEF GuardInv, MappedSoFar
    <3>2. AddressesIn(rawAllocations) \subseteq Nat \ {NullData}
      BY <3>1 DEF AddressesIn, NonEmpty, IsDumpFile, IsEntry
    <3> QED
      BY <3>1, <3>2
  <2> QED
    BY <2>1, <2>2
<1>5. /\ replayPolicy \in {NullPolicy, MonostatePolicy, "range"}
      /\ \A s \in inputSnapshots : s[1] \in DOMAIN memory /\ s[2] \in Nat
      /\ pc \in {"program", "resetInputs", "crashed"} \cup Constructing
      /\ kokkos \in {"before", "running", "finalized"} /\ replays \in 0 .. MaxReplays
  BY DEF StoredInv, GuardInv, MappedSoFar, StaticTypes
<1> QED
  BY <1>1, <1>2, <1>3, <1>4, <1>5 DEF ReplayerTypeOK

(* Every variable of the replayer keeps its type. *)
THEOREM ReplayerTypes == Spec => []ReplayerTypeOK
<1>1. Init => ReplayerTypeOK
  BY GuardInit, StoredInit, TypesUnlessCrashed DEF Init
<1>2. ReplayerTypeOK /\ [Next]_vars /\ (GuardInv /\ StoredInv)' /\ (pc = "crashed")' =>
        ReplayerTypeOK'
  <2> SUFFICES ASSUME GuardInv', StoredInv', ReplayerTypeOK, [Next]_vars, pc' = "crashed"
               PROVE  ReplayerTypeOK'
    OBVIOUS
  <2>1. UNCHANGED vars \/ RunKernel \/ \E forced, accepts \in BOOLEAN : ParallelFor(forced, accepts)
    BY DEF Next, Program, CallStep, ConstructorStep, Collect, MapRange, DeviceInit, MappingDone,
       CopyInput, ReadMetadata, ReadFunctor, ReadPolicy, CopyOutput, FinishConstructor, FailToRead,
       Throw, Construct, LeaveScope, Finalize, Destroy, KokkosInitialize, KokkosFinalize, ResetInputs,
       CopySnapshots, Goto
  <2>2. UNCHANGED <<staticVars, guard, guardVars, replayPolicy, memory>>
    BY <2>1 DEF vars, RunKernel, ParallelFor, loadedVars
  <2>3. kokkos' \in {"before", "running", "finalized"} /\ replays' \in 0 .. MaxReplays
    BY DEF GuardInv, StaticTypes
  <2> QED
    BY <2>2, <2>3 DEF ReplayerTypeOK, staticVars, guardVars
<1> QED
  BY <1>1, <1>2, TypesUnlessCrashed, StoredInvariant, PTL DEF Spec

-----------------------------------------------------------------------------
(* The files.                                                              *)

(* A guard has read one of the files on the disk. *)
DumpIsOnDisk == guard # Nobody => \E text \in DOMAIN disk : dump = disk[text]

(* The replay library writes no file, and a guard keeps to the one it was  *)
(* made with.                                                              *)
LEMMA DiskNext ==
    ASSUME GuardInv, DumpIsOnDisk, [Next]_vars
    PROVE  disk' = disk /\ DumpIsOnDisk'
<1>1. ASSUME NEW owner \in Owners, NEW args, Construct(owner, args)
      PROVE  disk' = disk /\ DumpIsOnDisk'
  <2> DEFINE option == FindCliOption(FindCliFlag(args, ResetFlag).argv, DumpOption)
             file == IF option.argument = NoText THEN NoDump ELSE Opened(option.argument)
  <2> HIDE DEF option
  <2>1. dump' = file /\ guard' = (IF file = NoDump THEN guard ELSE owner) /\ disk' = disk
    BY <1>1 DEF Construct, option
  <2>2. guard = Nobody
    BY <1>1 DEF Construct, GuardInv, StaticsAreSet, Constructing
  <2>3. file # NoDump => \E text \in DOMAIN disk : file = disk[text]
    BY DEF Opened
  <2> QED
    BY <2>1, <2>2, <2>3 DEF DumpIsOnDisk
<1>2. CASE ConstructorStep \/ FailToRead
  <2>1. pc \in Constructing /\ dump' = dump /\ disk' = disk
    BY <1>2 DEF ConstructorStep, Collect, MapRange, DeviceInit, MappingDone, CopyInput, ReadMetadata,
                ReadFunctor, ReadPolicy, CopyOutput, FinishConstructor, FailToRead, Constructing,
                LoadUnchanged, argVars
  <2> QED
    BY <2>1 DEF GuardInv, StaticsAreSet, DumpIsOnDisk
<1>3. CASE \/ KokkosInitialize \/ KokkosFinalize
           \/ \E forced, accepts \in BOOLEAN : ParallelFor(forced, accepts)
           \/ ResetInputs \/ CopySnapshots \/ RunKernel \/ UNCHANGED vars
  BY <1>3 DEF KokkosInitialize, KokkosFinalize, ParallelFor, ResetInputs, CopySnapshots,
              RunKernel, vars, argVars, DumpIsOnDisk
<1>4. CASE LeaveScope \/ Finalize
  BY <1>4 DEF LeaveScope, Finalize, Destroy, argVars, DumpIsOnDisk
<1> QED
  BY <1>1, <1>2, <1>3, <1>4 DEF Next, Program, CallStep

(* It is so throughout. *)
LEMMA DiskInvariant == Spec => [](disk = Files /\ DumpIsOnDisk)
<1>1. Init => disk = Files /\ DumpIsOnDisk
  BY DEF Init, DumpIsOnDisk
<1>2. GuardInv /\ disk = Files /\ DumpIsOnDisk /\ [Next]_vars => (disk = Files /\ DumpIsOnDisk)'
  BY DiskNext
<1> QED
  BY <1>1, <1>2, GuardInvariant, PTL DEF Spec

-----------------------------------------------------------------------------
(* The contents of the allocations, while kernels run.                     *)

(* The Views of the functor are on allocations of the dump, and two        *)
(* allocations of one address are the same one.  The capture writes such   *)
(* files; the constructor checks neither.                                  *)
IsSound(d) ==
    /\ d.functor # Missing => d.functor \subseteq {e.address : e \in NonEmpty(d.in)}
    /\ \A e, f \in NonEmpty(d.in) : e.address = f.address => SameKey(e, f)

SoundFiles == \A text \in DOMAIN Files : IsSound(Files[text])
SoundDisk == \A text \in DOMAIN disk : IsSound(disk[text])

(* How often the kernels that ran have written the address. *)
Writes(a) == IF a \in functorData THEN replays - Len(pending) ELSE 0

HoldInputs(done) == \A e \in NonEmpty(done) : memory[e.address] = e.bytes

QueueInv ==
    /\ pc # "crashed"
    /\ guard # Nobody => IsSound(dump)
    /\ pending \in Seq({functorData})
    /\ ~Loaded => pending = << >>
    /\ Loaded => Len(pending) <= replays /\ functorData \subseteq DOMAIN memory
    /\ pc = "resetInputs" => inputResetEnabled /\ guard # Nobody

ContentsInv ==
    /\ QueueInv
    /\ pc = "copyInputs" => HoldInputs(dump.in \ rest)
    /\ pc \in Copying \ {"copyInputs"} => HoldInputs(dump.in)
    /\ Loaded => \A e \in NonEmpty(dump.in) : memory[e.address] = e.bytes + Writes(e.address)

(* Nothing is loaded at first. *)
LEMMA ContentsInit == Init => ContentsInv
<1> SUFFICES ASSUME Init PROVE ContentsInv
  OBVIOUS
<1>1. pending \in Seq({functorData})
  BY DEF Init
<1> QED
  BY <1>1 DEF Init, ContentsInv, QueueInv, Loaded, Copying

(* No guard, or one that has copied nothing yet: nothing is queued. *)
LEMMA NothingQueued ==
    ASSUME pc' # "crashed", pc' \notin Copying, pc' # "resetInputs", ~Loaded', pending' = << >>,
           guard' # Nobody => IsSound(dump')
    PROVE  ContentsInv'
<1>1. pending' \in Seq({functorData'})
  OBVIOUS
<1>2. guard' # Nobody => IsSound(dump)'
  BY DEF IsSound
<1> QED
  BY <1>1, <1>2 DEF ContentsInv, QueueInv, Copying

(* The constructor begins. *)
LEMMA ConstructKeepsContents ==
    ASSUME SoundDisk, GuardInv, ContentsInv, NEW owner \in Owners, NEW args, Construct(owner, args)
    PROVE  ContentsInv'
<1>1. pc = "program" /\ guard = Nobody /\ pending' = << >>
  <2>1. "program" \notin Constructing
    BY DEF Constructing
  <2>2. pc = "program" /\ guard = Nobody
    BY <2>1 DEF Construct, GuardInv, StaticsAreSet
  <2> QED
    BY <2>2 DEF Construct, deviceVars, ContentsInv, QueueInv, Loaded
<1> DEFINE reset == FindCliFlag(args, ResetFlag)
           option == FindCliOption(reset.argv, DumpOption)
           file == IF option.argument = NoText THEN NoDump ELSE Opened(option.argument)
<1> HIDE DEF reset, option
<1>2. /\ dump' = file /\ pc' = (IF file = NoDump THEN "program" ELSE "collectHost")
      /\ guard' = (IF file = NoDump THEN guard ELSE owner)
  BY DEF Construct, Goto, reset, option
<1>3. file # NoDump => IsSound(file)
  BY DEF Opened, SoundDisk
<1> HIDE DEF file
<1>4. guard' # Nobody => file # NoDump /\ pc' = "collectHost"
  BY <1>1, <1>2
<1>5. pc' \in {"program", "collectHost"} /\ ~Loaded'
  BY <1>2, <1>4 DEF Loaded
<1> QED
  BY <1>1, <1>2, <1>3, <1>4, <1>5, NothingQueued DEF Copying

(* An exception, the mapping and the end of a guard, when nothing is       *)
(* queued.                                                                 *)
LEMMA UnloadingKeepsContents ==
    ASSUME GuardInv, ContentsInv,
           \/ ConstructorStep /\ Throw
           \/ FailToRead
           \/ Collect("HOST", "collectHost", "mapHost") \/ MapRange("mapHost", "deviceInit")
           \/ DeviceInit
           \/ Collect("DEVICE", "collectDevice", "mapDevice") \/ MapRange("mapDevice", "mapped")
           \/ LeaveScope \/ Finalize
    PROVE  ContentsInv'
<1>1. CASE (ConstructorStep /\ Throw) \/ FailToRead
  <2>1. pc' = "program" /\ guard' = Nobody
    BY <1>1 DEF Throw, FailToRead
  <2>2. pc \in Constructing /\ pending' = pending
    BY <1>1, <2>1 DEF ConstructorStep, Collect, MapRange, DeviceInit, MappingDone, CopyInput, ReadMetadata,
                ReadFunctor, ReadPolicy, CopyOutput, FinishConstructor, FailToRead, Constructing,
                LoadUnchanged, deviceVars
  <2>3. pending = << >>
    BY <2>2 DEF ContentsInv, QueueInv, Loaded, Constructing
  <2> QED
    BY <2>1, <2>2, <2>3, NothingQueued DEF Loaded, Copying
<1>2. CASE LeaveScope \/ Finalize
  <2>1. pc' = "program" /\ guard' = Nobody /\ pending' = << >>
    BY <1>2 DEF LeaveScope, Finalize, Destroy, deviceVars
  <2> QED
    BY <2>1, NothingQueued DEF Loaded, Copying
<1>3. ASSUME ~Throw,
             \/ Collect("HOST", "collectHost", "mapHost") \/ MapRange("mapHost", "deviceInit")
             \/ DeviceInit
             \/ Collect("DEVICE", "collectDevice", "mapDevice") \/ MapRange("mapDevice", "mapped")
      PROVE  ContentsInv'
  <2>1. pc \in Mapping /\ pc' \in Mapping /\ UNCHANGED <<pending, dump, guard>>
    BY <1>3 DEF Collect, MapRange, DeviceInit, Goto, Mapping, LoadUnchanged, deviceVars
  <2>2. pending = << >> /\ (guard # Nobody => IsSound(dump))
    BY <2>1 DEF ContentsInv, QueueInv, Loaded, Mapping
  <2> QED
    BY <2>1, <2>2, NothingQueued DEF Loaded, Copying, Mapping
<1> QED
  BY <1>1, <1>2, <1>3 DEF ConstructorStep

(* The rest of the constructor copies the inputs, each to an address of    *)
(* its own.                                                                *)
LEMMA ReadingKeepsContents ==
    ASSUME GuardInv, StoredInv, ContentsInv, ~Throw,
           \/ MappingDone \/ CopyInput \/ ReadMetadata \/ ReadFunctor \/ ReadPolicy \/ CopyOutput
           \/ FinishConstructor
    PROVE  ContentsInv'
<1>1. /\ pc \in Copying \cup {"mapped"} /\ pc \in Constructing
      /\ UNCHANGED <<dump, inputResetEnabled, guard, pending>>
  BY DEF MappingDone, CopyInput, ReadMetadata, ReadFunctor, ReadPolicy, CopyOutput,
         FinishConstructor, LoadUnchanged, staticVars, deviceVars, Copying, Constructing
<1>2. guard # Nobody /\ IsDumpFile(dump) /\ IsSound(dump) /\ pending = << >>
  BY <1>1 DEF GuardInv, StaticsAreSet, MappedSoFar, ContentsInv, QueueInv, Loaded, Constructing
<1>3. pending' \in Seq({functorData'}) /\ Len(pending') = 0
  BY <1>1, <1>2
<1>4. ASSUME pc' \in Copying PROVE QueueInv'
  <2>1. ~Loaded' /\ pc' # "crashed" /\ pc' # "resetInputs"
    BY <1>4 DEF Loaded, Copying
  <2> QED
    BY <1>1, <1>2, <1>3, <2>1 DEF QueueInv, IsSound
<1>5. CASE MappingDone
  <2>1. pc' = "copyInputs" /\ (dump.in \ rest)' = {}
    BY <1>1, <1>5 DEF MappingDone, Goto
  <2>2. HoldInputs(dump.in \ rest)'
    BY <2>1 DEF HoldInputs, NonEmpty
  <2> QED
    BY <1>4, <2>1, <2>2 DEF ContentsInv, Loaded, Copying
<1>6. CASE CopyInput
  <2> DEFINE done == dump.in \ rest
  <2>1. PICK e \in rest :
          /\ e.bytes \in Nat
          /\ \A s \in stored : ~(s.id = e.id /\ s.space = e.space)
          /\ memory' = IF e.size # 0 THEN [memory EXCEPT ![e.address] = e.bytes] ELSE memory
          /\ rest' = rest \ {e}
    BY <1>6, CopyInputEffect
  <2>2. pc = "copyInputs" /\ pc' = pc /\ rest \subseteq dump.in
    BY <1>6, CopyInputEffect DEF GuardInv, MappedSoFar
  <2>3. DOMAIN memory = {f.address : f \in NonEmpty(dump.in)} /\ memory \in [DOMAIN memory -> Nat]
    BY <1>2, <2>2, AllAreMapped DEF Behind, Copying, GuardInv
  <2>4. StoredIs(done, {}) /\ HoldInputs(done)
    BY <2>2 DEF StoredInv, ContentsInv
  <2>5. done' = done \cup {e} /\ done \subseteq dump.in /\ e \in dump.in
    BY <1>1, <2>1, <2>2
  <2>6. ASSUME NEW f \in NonEmpty(done), e \in NonEmpty(dump.in) PROVE f.address # e.address
    <3>1. PICK s \in stored : SameKey(s, f)
      BY <2>4, <2>6 DEF StoredIs, NonEmpty
    <3>2. ~SameKey(e, f)
      BY <2>1, <3>1 DEF SameKey
    <3> QED
      BY <1>2, <2>5, <2>6, <3>2 DEF IsSound, NonEmpty
  <2>7. ASSUME NEW f \in NonEmpty(done \cup {e}) PROVE memory'[f.address] = f.bytes
    <3>1. f \in NonEmpty(dump.in) /\ f.address \in DOMAIN memory
      BY <2>3, <2>5 DEF NonEmpty
    <3>2. CASE f = e
      BY <2>1, <2>3, <3>1, <3>2 DEF NonEmpty
    <3>3. CASE f # e
      <4>1. f \in NonEmpty(done) /\ memory[f.address] = f.bytes
        BY <2>4, <3>3 DEF NonEmpty, HoldInputs
      <4>2. CASE e.size # 0
        <5>1. f.address # e.address
          BY <2>5, <2>6, <4>1, <4>2 DEF NonEmpty
        <5> QED
          BY <2>1, <2>3, <3>1, <4>1, <4>2, <5>1
      <4> QED
        BY <2>1, <4>1, <4>2
    <3> QED
      BY <3>2, <3>3
  <2>8. HoldInputs(done)'
    BY <2>5, <2>7 DEF HoldInputs, NonEmpty
  <2> QED
    BY <1>4, <2>2, <2>8 DEF ContentsInv, Loaded, Copying
<1>7. CASE ReadMetadata \/ ReadFunctor \/ ReadPolicy \/ CopyOutput
  <2>1. pc' \in Copying \ {"copyInputs"} /\ memory' = memory
    BY <1>7 DEF ReadMetadata, ReadFunctor, ReadPolicy, CopyOutput, Goto, Copying
  <2>2. HoldInputs(dump.in)
    <3>1. CASE pc = "copyInputs" /\ rest = {}
      <4>1. dump.in \ rest = dump.in
        BY <3>1
      <4> QED
        BY <3>1, <4>1 DEF ContentsInv
    <3>2. CASE pc \in Copying \ {"copyInputs"}
      BY <3>2 DEF ContentsInv
    <3> QED
      BY <1>7, <3>1, <3>2 DEF ReadMetadata, ReadFunctor, ReadPolicy, CopyOutput, Copying
  <2>3. HoldInputs(dump.in)'
    BY <1>1, <2>1, <2>2 DEF HoldInputs
  <2> QED
    BY <1>4, <2>1, <2>3 DEF ContentsInv, Loaded, Copying
<1>8. CASE FinishConstructor
  <2>1. /\ pc = "copyOutputs" /\ pc' = "program" /\ replays' = 0
        /\ UNCHANGED <<memory, functorData>>
    BY <1>8 DEF FinishConstructor, Goto, loadedVars
  <2>2. HoldInputs(dump.in) /\ functorData = dump.functor /\ functorData # Missing
    BY <2>1 DEF ContentsInv, StoredInv, Behind, Copying
  <2>3. functorData \subseteq DOMAIN memory
    BY <1>2, <2>1, <2>2, AllAreMapped DEF IsSound, Behind, Copying, GuardInv
  <2>4. \A e \in dump.in : e.bytes \in Nat
    BY <2>1 DEF StoredInv, StoredIs
  <2>5. \A e \in NonEmpty(dump.in) : memory'[e.address] = e.bytes + Writes(e.address)'
    BY <1>3, <2>1, <2>2, <2>4 DEF HoldInputs, Writes, NonEmpty
  <2>6. QueueInv'
    <3>1. Len(pending') <= replays'
      BY <1>3, <2>1
    <3> QED
      BY <1>1, <1>2, <1>3, <2>1, <2>3, <3>1 DEF QueueInv, IsSound
  <2> QED
    BY <1>1, <2>1, <2>5, <2>6 DEF ContentsInv, Copying, NonEmpty
<1> QED
  BY <1>5, <1>6, <1>7, <1>8

(* A launch, a kernel that runs, and the steps of reset_inputs. *)
LEMMA ReplayKeepsContents ==
    ASSUME ~ReplaysAnytime, GuardInv, StoredInv, ContentsInv,
           \/ KokkosInitialize \/ KokkosFinalize
           \/ \E forced, accepts \in BOOLEAN : ParallelFor(forced, accepts)
           \/ ResetInputs \/ CopySnapshots \/ RunKernel \/ UNCHANGED vars
    PROVE  ContentsInv'
<1>1. UNCHANGED <<staticVars, loadedVars, guard, guardVars, dump, rest>>
  BY DEF KokkosInitialize, KokkosFinalize, ParallelFor, ResetInputs, CopySnapshots, RunKernel, vars
<1>2. /\ UNCHANGED <<inputResetEnabled, inputSnapshots, functorData, replayPolicy>>
      /\ UNCHANGED <<guard, dump, rest>>
  BY <1>1 DEF staticVars, loadedVars, guardVars
<1>3. /\ replays \in Nat /\ pending \in Seq({functorData}) /\ Len(pending) \in Nat
  <2>1. MaxReplays \in Nat /\ replays \in 0 .. MaxReplays
    BY ReplayerAssumption DEF GuardInv, StaticTypes
  <2> QED
    BY <2>1 DEF ContentsInv, QueueInv
<1>4. CASE UNCHANGED <<memory, pending, replays, pc>>
  BY <1>2, <1>4 DEF ContentsInv, QueueInv, IsSound, HoldInputs, Writes, Loaded
<1>5. CASE KokkosInitialize \/ KokkosFinalize \/ UNCHANGED vars
  BY <1>4, <1>5 DEF KokkosInitialize, KokkosFinalize, vars, deviceVars
<1>6. CASE ResetInputs
  <2>1. /\ pc = "program" /\ pc' = "resetInputs" /\ UNCHANGED <<memory, pending, replays>>
        /\ inputResetEnabled /\ scopeGuard # Nobody
    BY <1>6 DEF ResetInputs, Goto, deviceVars
  <2>2. guard # Nobody
    BY <2>1 DEF GuardInv, StaticsAreSet, Constructing
  <2>3. Loaded /\ Loaded'
    BY <1>2, <2>1, <2>2 DEF Loaded
  <2> QED
    BY <1>2, <2>1, <2>2, <2>3 DEF ContentsInv, QueueInv, IsSound, Writes, Copying
<1>7. ASSUME Loaded
      PROVE  /\ DOMAIN memory = {e.address : e \in NonEmpty(dump.in)}
             /\ memory \in [DOMAIN memory -> Nat]
             /\ \A e \in NonEmpty(dump.in) : e.bytes \in Nat /\ e.address \in DOMAIN memory
  <2>1. /\ DOMAIN memory = {e.address : e \in NonEmpty(dump.in)}
        /\ memory \in [DOMAIN memory -> Nat]
    BY <1>7, AllAreMapped DEF GuardInv, Behind, Loaded
  <2>2. \A e \in dump.in : e.bytes \in Nat
    BY <1>7 DEF StoredInv, StoredIs
  <2> QED
    BY <2>1, <2>2 DEF NonEmpty
<1>8. ASSUME NEW forced \in BOOLEAN, NEW accepts \in BOOLEAN, ParallelFor(forced, accepts)
      PROVE  ContentsInv'
  <2>1. pc = "program" /\ guard # Nobody /\ Loaded
    BY <1>8 DEF ParallelFor, Loaded
  <2>2. replayPolicy # NullPolicy
    <3>1. replayPolicy = dump.policy /\ IsDumpFile(dump)
      BY <2>1 DEF StoredInv, Behind, GuardInv, MappedSoFar
    <3> QED
      BY <3>1 DEF IsDumpFile, NullPolicy, MonostatePolicy
  <2>3. /\ pending' = Append(pending, functorData) /\ replays' = replays + 1
        /\ UNCHANGED <<pc, memory>>
    BY <1>8, <2>2 DEF ParallelFor
  <2>4. pending' \in Seq({functorData}) /\ Len(pending') = Len(pending) + 1
    BY <1>3, <2>3
  <2>5. \A a : Writes(a)' = Writes(a)
    BY <1>2, <1>3, <2>3, <2>4 DEF Writes
  <2>6. Loaded' /\ Len(pending') <= replays'
    BY <1>2, <1>3, <2>1, <2>3, <2>4 DEF Loaded, ContentsInv, QueueInv
  <2>7. QueueInv'
    BY <1>2, <2>1, <2>3, <2>4, <2>6 DEF ContentsInv, QueueInv, IsSound
  <2>8. \A e \in NonEmpty(dump.in) : memory'[e.address] = e.bytes + Writes(e.address)'
    BY <2>1, <2>3, <2>5 DEF ContentsInv
  <2> QED
    BY <1>2, <2>1, <2>3, <2>7, <2>8 DEF ContentsInv, Copying, NonEmpty
<1>9. CASE RunKernel
  <2>1. pending # << >> /\ Loaded
    BY <1>9 DEF RunKernel, ContentsInv, QueueInv
  <2>2. Head(pending) = functorData /\ functorData \subseteq DOMAIN memory
    BY <1>3, <2>1 DEF ContentsInv, QueueInv
  <2>3. /\ pending' = Tail(pending) /\ UNCHANGED <<pc, replays>>
        /\ memory' = [a \in DOMAIN memory |->
                        IF a \in functorData THEN memory[a] + 1 ELSE memory[a]]
    BY <1>9, <2>2 DEF RunKernel
  <2>4. pending' \in Seq({functorData}) /\ Len(pending') = Len(pending) - 1
    BY <1>3, <2>1, <2>3
  <2>5. Loaded' /\ Len(pending') <= replays' /\ functorData' \subseteq DOMAIN memory'
    BY <1>2, <1>3, <2>1, <2>2, <2>3, <2>4 DEF Loaded, ContentsInv, QueueInv
  <2>6. QueueInv'
    BY <1>2, <2>1, <2>3, <2>4, <2>5 DEF ContentsInv, QueueInv, IsSound
  <2>7. ASSUME NEW e \in NonEmpty(dump.in)
        PROVE  memory'[e.address] = e.bytes + Writes(e.address)'
    <3>1. e.bytes \in Nat /\ e.address \in DOMAIN memory
      BY <1>7, <2>1
    <3>2. memory[e.address] = e.bytes + Writes(e.address)
      BY <2>1 DEF ContentsInv
    <3>3. Writes(e.address)' = IF e.address \in functorData THEN replays - Len(pending) + 1 ELSE 0
      BY <1>2, <1>3, <2>3, <2>4 DEF Writes
    <3> QED
      BY <1>3, <2>3, <3>1, <3>2, <3>3 DEF Writes
  <2> QED
    BY <1>2, <2>1, <2>3, <2>6, <2>7 DEF ContentsInv, Copying, NonEmpty, Loaded
<1>10. CASE CopySnapshots
  <2> DEFINE Saved(a) == {s \in inputSnapshots : s[1] = a}
  <2>1. /\ pc = "resetInputs" /\ pc' = "program" /\ pending = << >> /\ UNCHANGED pending
        /\ replays' = 0
        /\ memory' = [a \in DOMAIN memory |->
                        IF Saved(a) = {} THEN memory[a] ELSE (CHOOSE s \in Saved(a) : TRUE)[2]]
    BY <1>10 DEF CopySnapshots, Goto
  <2>2. inputResetEnabled /\ guard # Nobody /\ Loaded
    BY <2>1 DEF ContentsInv, QueueInv, Loaded
  <2>3. inputSnapshots = {<<e.address, e.bytes>> : e \in NonEmpty(dump.in)}
    BY <2>2 DEF StoredInv, Behind, SnapshotsAre
  <2>4. \A e, f \in NonEmpty(dump.in) : e.address = f.address => e.bytes = f.bytes
    <3> SUFFICES ASSUME NEW e \in NonEmpty(dump.in), NEW f \in NonEmpty(dump.in),
                        e.address = f.address
                 PROVE  e.bytes = f.bytes
      OBVIOUS
    <3>1. /\ memory[e.address] = e.bytes + Writes(e.address)
          /\ memory[f.address] = f.bytes + Writes(f.address)
      BY <2>2 DEF ContentsInv
    <3>2. e.bytes \in Nat /\ f.bytes \in Nat /\ Writes(e.address) \in Int
      BY <1>3, <1>7, <2>2 DEF Writes
    <3> QED
      BY <3>1, <3>2
  <2>5. \A e \in NonEmpty(dump.in) : Saved(e.address) = {<<e.address, e.bytes>>}
    BY <2>3, <2>4
  <2> HIDE DEF Saved
  <2>6. ASSUME NEW e \in NonEmpty(dump.in)
        PROVE  memory'[e.address] = e.bytes + Writes(e.address)'
    <3>1. e.bytes \in Nat /\ e.address \in DOMAIN memory
      BY <1>7, <2>2
    <3>2. (CHOOSE s \in Saved(e.address) : TRUE) = <<e.address, e.bytes>>
      BY <2>5
    <3>3. memory'[e.address] = e.bytes
      BY <2>1, <2>5, <3>1, <3>2
    <3>4. Writes(e.address)' = 0
      <4>1. Len(pending') = 0 /\ replays' = 0
        BY <2>1
      <4> QED
        BY <4>1 DEF Writes
    <3> QED
      BY <3>1, <3>3, <3>4
  <2>7. Loaded' /\ Len(pending') <= replays' /\ functorData' \subseteq DOMAIN memory'
    BY <1>2, <2>1, <2>2 DEF Loaded, ContentsInv, QueueInv
  <2>8. QueueInv'
    BY <1>2, <1>3, <2>1, <2>2, <2>7 DEF ContentsInv, QueueInv, IsSound
  <2> QED
    BY <1>2, <2>1, <2>6, <2>8 DEF ContentsInv, Copying, NonEmpty
<1> QED
  BY <1>5, <1>6, <1>8, <1>9, <1>10

(* Every step keeps the contents. *)
LEMMA ContentsNext ==
    ASSUME SoundDisk, ~ReplaysAnytime, GuardInv, StoredInv, ContentsInv, [Next]_vars
    PROVE  ContentsInv'
<1>1. CASE ConstructorStep /\ Throw
  BY <1>1, UnloadingKeepsContents
<1>2. CASE ConstructorStep /\ ~Throw
  BY <1>2, UnloadingKeepsContents, ReadingKeepsContents DEF ConstructorStep
<1> QED
  BY <1>1, <1>2, UnloadingKeepsContents, ReplayKeepsContents, ConstructKeepsContents
     DEF Next, Program, CallStep

(* The contents are so throughout, in a program that replays while it has  *)
(* a guard.                                                                *)
LEMMA ContentsInvariant ==
    ASSUME SoundFiles, ~ReplaysAnytime
    PROVE  Spec => [](GuardInv /\ StoredInv /\ ContentsInv)
<1>1. Init => ContentsInv
  BY ContentsInit
<1>2. disk = Files /\ GuardInv /\ StoredInv /\ ContentsInv /\ [Next]_vars => ContentsInv'
  BY ContentsNext DEF SoundFiles, SoundDisk
<1> QED
  BY <1>1, <1>2, StoredInvariant, DiskInvariant, PTL DEF Spec

(* The allocations of a guard hold the inputs of its dump and one write    *)
(* of every kernel that ran since they were loaded or reset, however the   *)
(* device delays the kernels, and no kernel runs on memory that is not     *)
(* mapped: for every set of sound dumps, complete or not, in a program     *)
(* that replays while it has a guard.                                      *)
THEOREM ReplaysStartFromTheInputs ==
    ASSUME SoundFiles, ~ReplaysAnytime
    PROVE  Spec => []ReplayedFromInputs
<1>1. GuardInv /\ StoredInv /\ ContentsInv => ReplayedFromInputs
  BY DEF ContentsInv, QueueInv, ReplayedFromInputs, Writes
<1> QED
  BY <1>1, ContentsInvariant, PTL

(* With outputs of its own kernel, the reference of every allocation is    *)
(* what one replay leaves in it.                                           *)
LEMMA OutputsAgree ==
    ASSUME GuardInv, StoredInv, ContentsInv, Loaded, HasOutputsOfItsKernel(dump)
    PROVE  ReferencesAgree
<1> SUFFICES ASSUME replays = 1, pending = << >>,
                    NEW s \in stored, ValidComparison(s), s.size # 0
             PROVE  memory[s.data] = s.reference
  BY DEF ReferencesAgree
<1>1. /\ functorData = dump.functor /\ functorData # Missing
      /\ StoredIs(dump.in, Outputs)
  BY DEF StoredInv, Behind, Loaded
<1>2. PICK i \in dump.in : Mirrors(s, i) /\ i.bytes \in Nat
  BY <1>1 DEF StoredIs
<1>3. HasOutput(s, Outputs) /\ s.hasReference /\ s.size = s.referenceSize
  BY <1>1 DEF StoredIs, ValidComparison
<1>4. PICK o \in Outputs : SameKey(o, s) /\ IsDumped(o)
  BY <1>3 DEF HasOutput
<1>5. /\ s.reference = ReferenceOf(o) /\ s.referenceSize = o.size /\ s.label = o.label
      /\ s.reference \in Nat
  BY <1>3, <1>4 DEF HasOutput
<1>6. s.reference = o.bytes
  BY <1>3, <1>4, <1>5 DEF ReferenceOf
<1>7. /\ i.id = o.id /\ i.space = o.space /\ i.label = o.label /\ i.size = o.size /\ i.size # 0
      /\ s.data = i.address /\ i \in NonEmpty(dump.in)
  BY <1>2, <1>3, <1>4, <1>5 DEF Mirrors, SameKey, NonEmpty
<1>8. o.bytes = i.bytes + (IF i.address \in functorData THEN 1 ELSE 0)
  BY <1>1, <1>2, <1>4, <1>5, <1>6, <1>7 DEF HasOutputsOfItsKernel, Outputs
<1>9. memory[i.address] = i.bytes + Writes(i.address)
  BY <1>7 DEF ContentsInv
<1>10. Writes(i.address) = IF i.address \in functorData THEN 1 ELSE 0
  <2>1. Len(pending) = 0
    OBVIOUS
  <2> QED
    BY <2>1 DEF Writes
<1> QED
  BY <1>6, <1>7, <1>8, <1>9, <1>10

(* Every comparison that compare_views accepts after one replay agrees,    *)
(* whichever outputs the capture skipped and whichever allocations were    *)
(* replaced during the kernel under another label or size: for every set   *)
(* of sound dumps and each dump among them whose remaining outputs are     *)
(* those of its kernel.  A difference is never due to a wrong pairing of   *)
(* the inputs and outputs that the dump tells apart.                       *)
THEOREM ComparisonsAgree ==
    ASSUME SoundFiles, ~ReplaysAnytime
    PROVE  Spec => []AcceptedComparisonsAgree
<1>1. GuardInv /\ StoredInv /\ ContentsInv => AcceptedComparisonsAgree
  BY OutputsAgree DEF AcceptedComparisonsAgree
<1> QED
  BY <1>1, ContentsInvariant, PTL

(* The dumps that a program finds may also be written while it has not     *)
(* begun to load one, whatever their functors point to.                    *)
LEMMA FilesAppear ==
    ASSUME Init,
           UNCHANGED <<staticVars, loadedVars, guard, guardVars, pc, given, argv, dump, rest,
                       memory, deviceVars>>,
           \A text \in DOMAIN disk' : IsDumpFile(disk'[text])
    PROVE  (GuardInv /\ StoredInv /\ ContentsInv /\ DumpIsOnDisk)'
<1>1. GuardInv /\ StoredInv /\ ContentsInv
  BY GuardInit, StoredInit, ContentsInit
<1>2. guard = Nobody /\ pc = "program" /\ pending = << >>
  BY DEF Init
<1>3. /\ guard' = Nobody /\ pc' = "program" /\ pending' = << >>
      /\ UNCHANGED <<isInitialized, inputResetEnabled, internalScopeGuard, scopeGuard,
                     replayAllocations, replayPolicy, stored, inputSnapshots, rawAllocations,
                     memory, kokkos, replays>>
  BY <1>2 DEF staticVars, loadedVars, guardVars, deviceVars
<1>4. "program" \notin Constructing /\ "program" \notin Mapping /\ "program" \notin Copying
  BY DEF Constructing, Mapping, Copying
<1>5. ~Loaded'
  BY <1>3 DEF Loaded
<1>6. StaticTypes'
  <2>1. \A text \in DOMAIN disk' : IsDumpFile(disk[text])'
    BY DEF IsDumpFile, IsEntry
  <2> QED
    BY <1>1, <1>2, <1>3, <2>1 DEF GuardInv, StaticTypes
<1>7. StaticsAreSet'
  BY <1>1, <1>2, <1>3, <1>4 DEF GuardInv, StaticsAreSet
<1>8. MappedSoFar'
  BY <1>1, <1>2, <1>3, <1>4, <1>5 DEF GuardInv, MappedSoFar, Behind
<1>9. StoredInv'
  BY <1>1, <1>3, <1>4, <1>5, NothingRead DEF StoredInv
<1>10. ContentsInv'
  BY <1>3, <1>4, <1>5, NothingQueued
<1>11. DumpIsOnDisk'
  BY <1>3 DEF DumpIsOnDisk
<1> QED
  BY <1>6, <1>7, <1>8, <1>9, <1>10, <1>11 DEF GuardInv
-----------------------------------------------------------------------------
(* What the constructor accepts.                                           *)

(* A dump with nothing missing, skipped or damaged, in spaces that the     *)
(* replay program has, and with one group for each allocation.             *)
IsComplete(d) ==
    /\ \A e \in d.in : IsDumped(e) /\ ~Inconsistent(e) /\ (e.space = "Host" \/ HasDeviceSpace)
    /\ \A e, f \in d.in : SameKey(e, f) => e = f
    /\ d.metadata # Missing /\ d.functor # Missing /\ d.policy # "unsupported"
    /\ d.out # Missing =>
         /\ \A o \in d.out :
              /\ ~Inconsistent(o) /\ (o.space = "Host" \/ HasDeviceSpace)
              /\ \E e \in d.in : SameKey(e, o) /\ e.label = o.label
         /\ \A o, p \in d.out : SameKey(o, p) => o = p

(* No step of the constructor throws for a complete dump when the ranges   *)
(* are free and no HDF5 call fails: none of its checks refuses it.         *)
LEMMA CompleteIsAccepted ==
    ASSUME GuardInv, StoredInv, pc \in Constructing, pending = << >>, IsComplete(dump), Next,
           ~CanFail, Occupied = {}, DeviceSupport \subseteq {TRUE}
    PROVE  guard' # Nobody
<1>1. guard # Nobody /\ pc \notin {"program", "resetInputs"}
  BY DEF GuardInv, StaticsAreSet, Constructing
<1>2. ConstructorStep
  BY <1>1 DEF Next, Program, CallStep, FailToRead, RunKernel, CopySnapshots, Construct, LeaveScope,
              Finalize, KokkosInitialize, KokkosFinalize, ParallelFor, ResetInputs
<1>3. CASE \/ Collect("HOST", "collectHost", "mapHost")
           \/ Collect("DEVICE", "collectDevice", "mapDevice")
  <2>1. \A type : \A e \in InputsOf(type) : IsDumped(e) /\ ~Inconsistent(e)
    BY DEF InputsOf, IsComplete
  <2>2. HasDeviceSpace \/ InputsOf("DEVICE") = {}
    BY DEF InputsOf, IsComplete, SpaceType
  <2>3. HasDeviceSpace \/ NonEmpty(InputsOf("DEVICE")) = {}
    BY <2>2 DEF NonEmpty
  <2> QED
    BY <1>1, <1>3, <2>1, <2>3 DEF Collect
<1>4. CASE MapRange("mapHost", "deviceInit") \/ MapRange("mapDevice", "mapped")
  BY <1>1, <1>4 DEF MapRange
<1>5. CASE DeviceInit
  BY <1>1, <1>5 DEF DeviceInit
<1>6. CASE MappingDone \/ FinishConstructor
  BY <1>1, <1>6 DEF MappingDone, FinishConstructor
<1>7. CASE CopyInput
  <2>1. rest \subseteq dump.in /\ StoredIs(dump.in \ rest, {})
    <3>1. pc = "copyInputs"
      BY <1>7, Zenon DEF CopyInput
    <3> QED
      BY <3>1, Zenon DEF GuardInv, MappedSoFar, StoredInv
  <2>2. ASSUME NEW e \in rest, NEW s \in stored PROVE ~(s.id = e.id /\ s.space = e.space)
    <3>1. PICK f \in dump.in \ rest : SameKey(s, f)
      BY <2>1, <2>2 DEF StoredIs, Mirrors
    <3>2. ~SameKey(f, e)
      BY <2>1, <3>1 DEF IsComplete
    <3> QED
      BY <3>1, <3>2 DEF SameKey
  <2>3. \A e \in rest : IsDumped(e) /\ ~Inconsistent(e)
    BY <2>1 DEF IsComplete
  <2>4. PICK e \in rest :
          (/\ IsDumped(e) /\ ~Inconsistent(e)
           /\ ~\E s \in stored : s.id = e.id /\ s.space = e.space) => guard' = guard
    BY <1>7, Zenon DEF CopyInput
  <2>5. guard' = guard
    BY <2>2, <2>3, <2>4, Zenon
  <2> QED
    BY <1>1, <2>5
<1>8. CASE ReadMetadata \/ ReadFunctor \/ ReadPolicy
  BY <1>1, <1>8 DEF ReadMetadata, ReadFunctor, ReadPolicy, IsComplete
<1>9. CASE CopyOutput
  <2>1. rest \subseteq Outputs /\ StoredIs(dump.in, Outputs \ rest)
    <3>1. pc = "copyOutputs"
      BY <1>9, Zenon DEF CopyOutput
    <3> QED
      BY <3>1, Zenon DEF StoredInv
  <2>2. ASSUME NEW e \in rest
        PROVE  /\ ~Inconsistent(e) /\ (SpaceType(e) = "DEVICE" => HasDeviceSpace)
               /\ \E s \in stored : IsInputOf(s, e) /\ ~s.outputSeen /\ s.label = e.label
    <3>1. dump.out # Missing /\ e \in dump.out /\ Outputs = dump.out
      BY <2>1 DEF Outputs
    <3>2. PICK i \in dump.in : SameKey(i, e) /\ i.label = e.label
      BY <3>1 DEF IsComplete
    <3>3. PICK s \in stored : SameKey(s, i)
      BY <2>1 DEF StoredIs
    <3>4. PICK f \in dump.in : Mirrors(s, f)
      BY <2>1 DEF StoredIs
    <3>5. SameKey(f, i)
      BY <3>3, <3>4 DEF Mirrors, SameKey
    <3>6. s.label = e.label
      BY <3>2, <3>4, <3>5 DEF IsComplete, Mirrors
    <3>7. ~\E o \in Outputs \ rest : SameKey(o, s)
      <4> SUFFICES ASSUME NEW o \in Outputs \ rest, SameKey(o, s) PROVE FALSE
        OBVIOUS
      <4>1. SameKey(o, e)
        BY <3>2, <3>3 DEF SameKey
      <4> QED
        BY <3>1, <4>1 DEF IsComplete
    <3>8. ~s.outputSeen
      BY <2>1, <3>7 DEF StoredIs, HasOutput
    <3>9. IsInputOf(s, e)
      BY <3>2, <3>3 DEF SameKey, IsInputOf
    <3> QED
      BY <3>1, <3>6, <3>8, <3>9 DEF IsComplete, SpaceType
  <2>3. \E e \in rest :
          (/\ ~Inconsistent(e) /\ (SpaceType(e) = "DEVICE" => HasDeviceSpace)
           /\ \E s \in stored : IsInputOf(s, e) /\ ~s.outputSeen /\ s.label = e.label)
          => guard' = guard
    BY <1>9, Zenon DEF CopyOutput
  <2> QED
    BY <1>1, <2>2, <2>3
<1> QED
  BY <1>2, <1>3, <1>4, <1>5, <1>6, <1>7, <1>8, <1>9 DEF ConstructorStep

-----------------------------------------------------------------------------
(* The command line.                                                       *)

(* What remove_cli_args leaves of argv after the swaps in front of i. *)
Shifted(args, pos, n, i) ==
    [j \in DOMAIN args |->
        IF j < pos \/ j >= i + n THEN args[j]
        ELSE IF j < i THEN args[j + n]
        ELSE args[pos + (IF n = 1 THEN 0 ELSE (j - pos) % 2)]]

IsShift(f, args, pos, n) ==
    f = [i \in pos .. Len(args) - n + 1 |->
           IF i = pos THEN args ELSE Swapped(f[i - 1], i - 1, i - 1 + n)]

(* One swap of remove_cli_args. *)
LEMMA SwapShifts ==
    ASSUME NEW A, NEW args \in Seq(A), NEW n \in {1, 2}, NEW pos \in 1 .. Len(args),
           NEW i \in pos + 1 .. Len(args) - n + 1
    PROVE  Swapped(Shifted(args, pos, n, i - 1), i - 1, i - 1 + n) = Shifted(args, pos, n, i)
<1> DEFINE a == i - 1
           b == i - 1 + n
           s == Shifted(args, pos, n, a)
           t == Shifted(args, pos, n, i)
<1>1. DOMAIN args = 1 .. Len(args) /\ Len(args) \in Nat
  OBVIOUS
<1>2. a \in DOMAIN args /\ b \in DOMAIN args /\ a < b /\ pos <= a /\ b >= a + n /\ a \in Nat
  BY <1>1
<1>3. DOMAIN s = DOMAIN args /\ DOMAIN t = DOMAIN args
  BY DEF Shifted
<1>4. s[b] = args[b] /\ t[a] = args[b]
  BY <1>1, <1>2 DEF Shifted
<1>5. t[b] = s[a]
  <2>1. CASE n = 1
    BY <1>1, <1>2, <2>1 DEF Shifted
  <2>2. CASE n = 2
    <3>1. (b - pos) % 2 = (a - pos) % 2
      BY <1>2, <2>2
    <3> QED
      BY <1>1, <1>2, <2>2, <3>1 DEF Shifted
  <2> QED
    BY <2>1, <2>2
<1>6. \A j \in DOMAIN args \ {a, b} : t[j] = s[j]
  <2> SUFFICES ASSUME NEW j \in DOMAIN args \ {a, b} PROVE t[j] = s[j]
    OBVIOUS
  <2>1. CASE n = 1
    BY <1>1, <1>2, <2>1 DEF Shifted
  <2>2. CASE n = 2
    BY <1>1, <1>2, <2>2 DEF Shifted
  <2> QED
    BY <2>1, <2>2
<1>7. t = [j \in DOMAIN args |-> t[j]]
  BY DEF Shifted
<1> HIDE DEF s, t, a, b
<1>8. [s EXCEPT ![a] = s[b], ![b] = s[a]] = t
  BY <1>2, <1>3, <1>4, <1>5, <1>6, <1>7
<1> QED
  BY <1>8 DEF Swapped, s, t, a, b

(* remove_cli_args closes the gap: the arguments in front of pos stay, and *)
(* those behind the removed ones move up, in their order.                  *)
LEMMA ArgsAreRemoved ==
    ASSUME NEW A, NEW args \in Seq(A), NEW n \in {1, 2}, NEW pos \in 1 .. Len(args) - n + 1
    PROVE  /\ RemoveCliArgs(args, pos, n) \in Seq(A)
           /\ Len(RemoveCliArgs(args, pos, n)) = Len(args) - n
           /\ \A j \in 1 .. Len(args) - n :
                RemoveCliArgs(args, pos, n)[j] = IF j < pos THEN args[j] ELSE args[j + n]
<1> DEFINE D == pos .. Len(args) - n + 1
           last == Len(args) - n + 1
           f == CHOOSE g : IsShift(g, args, pos, n)
           w == [i \in D |-> Shifted(args, pos, n, i)]
           whole == IF pos + n <= Len(args) THEN f[last] ELSE args
<1>1. /\ DOMAIN args = 1 .. Len(args) /\ Len(args) \in Nat /\ pos \in D /\ last \in D
      /\ pos \in 1 .. Len(args)
  OBVIOUS
<1>2. RemoveCliArgs(args, pos, n) = SubSeq(whole, 1, Len(args) - n)
  BY DEF RemoveCliArgs, IsShift
<1>3. Shifted(args, pos, n, pos) = args
  <2>1. \A j \in DOMAIN args : Shifted(args, pos, n, pos)[j] = args[j]
    <3> SUFFICES ASSUME NEW j \in DOMAIN args PROVE Shifted(args, pos, n, pos)[j] = args[j]
      OBVIOUS
    <3>1. CASE j < pos \/ j >= pos + n
      BY <3>1 DEF Shifted
    <3>2. CASE j = pos
      BY <1>1, <3>2 DEF Shifted
    <3>3. CASE n = 2 /\ j = pos + 1
      BY <1>1, <3>3 DEF Shifted
    <3> QED
      BY <1>1, <3>1, <3>2, <3>3
  <2> QED
    BY <2>1 DEF Shifted
<1>4. \A i \in D : i # pos => i - 1 \in D /\ i \in pos + 1 .. Len(args) - n + 1
  BY <1>1
<1>5. \A i \in D : i # pos =>
        Swapped(Shifted(args, pos, n, i - 1), i - 1, i - 1 + n) = Shifted(args, pos, n, i)
  BY <1>1, <1>4, SwapShifts
<1>6. IsShift(w, args, pos, n)
  <2>1. \A i \in D : w[i] = IF i = pos THEN args ELSE Swapped(w[i - 1], i - 1, i - 1 + n)
    BY <1>3, <1>4, <1>5
  <2> QED
    BY <2>1 DEF IsShift
<1>7. IsShift(f, args, pos, n)
  BY <1>6
<1> HIDE DEF f
<1>8. \A i \in D : f[i] = IF i = pos THEN args ELSE Swapped(f[i - 1], i - 1, i - 1 + n)
  BY <1>7 DEF IsShift
<1>9. \A i \in D : f[i] = Shifted(args, pos, n, i)
  <2> DEFINE Wrong == {i \in D : f[i] # Shifted(args, pos, n, i)}
  <2> SUFFICES ASSUME Wrong # {} PROVE FALSE
    OBVIOUS
  <2>1. Wrong \in SUBSET Nat
    BY <1>1
  <2>2. PICK x \in Wrong : \A y \in Wrong : x <= y
    BY <2>1, LeastOf
  <2>3. x # pos
    BY <1>3, <1>8, <2>2
  <2>4. x - 1 \in D /\ x - 1 \notin Wrong
    BY <1>1, <1>4, <2>2, <2>3
  <2> QED
    BY <1>5, <1>8, <2>2, <2>3, <2>4
<1>10. whole \in Seq(A) /\ Len(whole) = Len(args)
  <2>1. CASE pos + n <= Len(args)
    <3>1. \A j \in DOMAIN args : Shifted(args, pos, n, last)[j] \in A
      <4> SUFFICES ASSUME NEW j \in DOMAIN args PROVE Shifted(args, pos, n, last)[j] \in A
        OBVIOUS
      <4>1. CASE n = 1
        BY <1>1, <2>1, <4>1 DEF Shifted
      <4>2. CASE n = 2
        <5>1. j \in Nat /\ j >= last => (j - pos) % 2 \in {0, 1}
          BY <1>1
        <5> QED
          BY <1>1, <2>1, <4>2, <5>1 DEF Shifted
      <4> QED
        BY <4>1, <4>2
    <3>2. Shifted(args, pos, n, last) \in [1 .. Len(args) -> A]
      BY <1>1, <3>1 DEF Shifted
    <3> QED
      BY <1>1, <1>9, <2>1, <3>2
  <2> QED
    BY <2>1
<1>11. \A j \in 1 .. Len(args) - n : whole[j] = IF j < pos THEN args[j] ELSE args[j + n]
  <2>1. CASE pos + n <= Len(args)
    <3>1. whole = Shifted(args, pos, n, last)
      BY <1>1, <1>9, <2>1
    <3>2. \A j \in 1 .. Len(args) - n : j \in DOMAIN args /\ j < last /\ j < last + n
      BY <1>1
    <3>3. \A j \in 1 .. Len(args) - n : ~(j >= last + n)
      BY <1>1
    <3> HIDE DEF whole, last
    <3> QED
      BY <3>1, <3>2, <3>3 DEF Shifted
  <2>2. CASE ~(pos + n <= Len(args))
    BY <1>1, <2>2
  <2> QED
    BY <2>1, <2>2
<1> HIDE DEF whole
<1>12. /\ SubSeq(whole, 1, Len(args) - n) \in Seq(A)
       /\ Len(SubSeq(whole, 1, Len(args) - n)) = Len(args) - n
       /\ \A j \in 1 .. Len(args) - n : SubSeq(whole, 1, Len(args) - n)[j] = whole[j]
  <2>1. Len(args) - n \in 0 .. Len(whole)
    BY <1>1, <1>10
  <2> QED
    BY <1>1, <1>10, <2>1, SubSeqProperties
<1> QED
  BY <1>2, <1>11, <1>12

(* f lists the positions of the arguments of s that are kept in t. *)
Enumerates(f, t, s, kept) ==
    /\ f \in [1 .. Len(t) -> kept]
    /\ \A p \in kept : \E i \in 1 .. Len(t) : f[i] = p
    /\ \A i, j \in 1 .. Len(t) : i < j => f[i] < f[j]
    /\ \A i \in 1 .. Len(t) : t[i] = s[f[i]]

(* The position that is listed as number i has i positions up to it. *)
LEMMA RankOfKept ==
    ASSUME NEW t, Len(t) \in Nat, NEW s, NEW kept \in SUBSET Nat, NEW f, Enumerates(f, t, s, kept)
    PROVE  /\ Len(t) = Cardinality(kept)
           /\ \A p \in kept : t[Cardinality({q \in kept : q <= p})] = s[p]
<1>1. \A i, j \in 1 .. Len(t) : i <= j <=> f[i] <= f[j]
  <2> SUFFICES ASSUME NEW i \in 1 .. Len(t), NEW j \in 1 .. Len(t)
               PROVE  i <= j <=> f[i] <= f[j]
    OBVIOUS
  <2>1. f[i] \in Nat /\ f[j] \in Nat /\ (i < j => f[i] < f[j]) /\ (j < i => f[j] < f[i])
    BY DEF Enumerates
  <2> QED
    BY <2>1
<1>2. f \in [1 .. Len(t) -> kept] /\ \A p \in kept : \E i \in 1 .. Len(t) : f[i] = p
  BY DEF Enumerates
<1>3. Len(t) = Cardinality(kept)
  <2>1. f \in Bijection(1 .. Len(t), kept)
    BY <1>1, <1>2 DEF Bijection, Injection, Surjection, IsInjective
  <2> QED
    BY <2>1, FS_CountingElements DEF ExistsBijection
<1>4. ASSUME NEW p \in kept PROVE t[Cardinality({q \in kept : q <= p})] = s[p]
  <2>1. PICK i \in 1 .. Len(t) : f[i] = p
    BY <1>2
  <2> DEFINE g == [j \in 1 .. i |-> f[j]]
             S == {q \in kept : q <= p}
  <2>2. g \in Bijection(1 .. i, S)
    BY <1>1, <1>2, <2>1 DEF Bijection, Injection, Surjection, IsInjective
  <2>3. Cardinality(S) = i
    BY <2>2, FS_CountingElements DEF ExistsBijection
  <2> QED
    BY <2>1, <2>3 DEF Enumerates
<1> QED
  BY <1>3, <1>4

(* What is listed before arguments are removed is listed after it, but for *)
(* the arguments that are removed.                                         *)
LEMMA RemovedIsEnumerated ==
    ASSUME NEW A, NEW t \in Seq(A), NEW s, NEW kept \in SUBSET Nat, NEW f,
           Enumerates(f, t, s, kept), NEW n \in {1, 2}, NEW pos \in 1 .. Len(t) - n + 1,
           NEW gone, gone = {f[k] : k \in pos .. pos + n - 1}
    PROVE  \E g : Enumerates(g, RemoveCliArgs(t, pos, n), s, kept \ gone)
<1> DEFINE u == RemoveCliArgs(t, pos, n)
           Skip(j) == IF j < pos THEN j ELSE j + n
           g == [j \in 1 .. Len(u) |-> f[Skip(j)]]
<1>1. /\ Len(t) \in Nat /\ Len(u) = Len(t) - n /\ Len(u) \in Nat
      /\ \A j \in 1 .. Len(u) : u[j] = t[Skip(j)]
  <2>1. Len(u) = Len(t) - n
    BY ArgsAreRemoved
  <2>2. \A j \in 1 .. Len(t) - n : u[j] = IF j < pos THEN t[j] ELSE t[j + n]
    BY ArgsAreRemoved
  <2>3. Len(t) \in Nat /\ Len(t) - n \in Nat
    OBVIOUS
  <2> HIDE DEF u
  <2> QED
    BY <2>1, <2>2, <2>3
<1> HIDE DEF u
<1>2. /\ \A j \in 1 .. Len(u) : Skip(j) \in 1 .. Len(t) /\ Skip(j) \notin pos .. pos + n - 1
      /\ \A i, j \in 1 .. Len(u) : i < j => Skip(i) < Skip(j)
      /\ \A k \in 1 .. Len(t) : k \notin pos .. pos + n - 1 => \E j \in 1 .. Len(u) : Skip(j) = k
  <2>1. \A k \in 1 .. Len(t) : k \notin pos .. pos + n - 1 => \E j \in 1 .. Len(u) : Skip(j) = k
    <3> SUFFICES ASSUME NEW k \in 1 .. Len(t), k \notin pos .. pos + n - 1
                 PROVE  \E j \in 1 .. Len(u) : Skip(j) = k
      OBVIOUS
    <3>1. CASE k < pos
      <4>1. k \in 1 .. Len(u) /\ Skip(k) = k
        BY <1>1, <3>1
      <4> QED
        BY <4>1
    <3>2. CASE ~(k < pos)
      <4>1. k - n \in 1 .. Len(u) /\ Skip(k - n) = k
        BY <1>1, <3>2
      <4> QED
        BY <4>1
    <3> QED
      BY <3>1, <3>2
  <2>2. \A j \in 1 .. Len(u) : Skip(j) \in 1 .. Len(t) /\ Skip(j) \notin pos .. pos + n - 1
    BY <1>1
  <2>3. \A i, j \in 1 .. Len(u) : i < j => Skip(i) < Skip(j)
    BY <1>1
  <2> QED
    BY <2>1, <2>2, <2>3
<1> HIDE DEF Skip
<1>3. /\ f \in [1 .. Len(t) -> kept] /\ \A p \in kept : \E i \in 1 .. Len(t) : f[i] = p
      /\ \A i, j \in 1 .. Len(t) : i < j => f[i] < f[j]
      /\ \A i \in 1 .. Len(t) : t[i] = s[f[i]]
  BY DEF Enumerates
<1>4. \A i, j \in 1 .. Len(t) : f[i] = f[j] => i = j
  <2>1. \A i \in 1 .. Len(t) : f[i] \in Nat
    BY <1>3
  <2>2. \A i, j \in 1 .. Len(t) : ~(f[i] < f[j]) /\ ~(f[j] < f[i]) => i = j
    BY <1>1, <1>3
  <2> QED
    BY <2>1, <2>2
<1>5. \A k \in pos .. pos + n - 1 : k \in 1 .. Len(t)
  BY <1>1
<1>6. \A j \in 1 .. Len(u) : f[Skip(j)] \in kept \ gone
  BY <1>2, <1>3, <1>4, <1>5
<1>7. \A p \in kept \ gone : \E j \in 1 .. Len(u) : g[j] = p
  <2> SUFFICES ASSUME NEW p \in kept \ gone PROVE \E j \in 1 .. Len(u) : g[j] = p
    OBVIOUS
  <2>1. PICK k \in 1 .. Len(t) : f[k] = p
    BY <1>3
  <2>2. k \notin pos .. pos + n - 1
    BY <2>1
  <2>3. PICK j \in 1 .. Len(u) : Skip(j) = k
    BY <1>2, <2>2
  <2> QED
    BY <2>1, <2>3
<1>8. Enumerates(g, u, s, kept \ gone)
  BY <1>1, <1>2, <1>3, <1>6, <1>7 DEF Enumerates
<1> QED
  BY <1>8 DEF u

FirstOf(positions) == {i \in positions : IsFirstOf(i, positions)}
FlagsOf(s) == {i \in 2 .. Len(s) : s[i] = Word(ResetFlag)}
OptionsOf(s) == {i \in 2 .. Len(s) : s[i].name = DumpOption}

(* A search finds the first of the positions it stops at. *)
LEMMA FirstIsFound ==
    ASSUME NEW P \in SUBSET Nat, P # {}
    PROVE  /\ (CHOOSE j \in P : IsFirstOf(j, P)) \in P
           /\ FirstOf(P) = {CHOOSE j \in P : IsFirstOf(j, P)}
<1>1. PICK x \in P : \A y \in P : x <= y
  BY LeastOf
<1>2. \A i \in P : IsFirstOf(i, P) => i = x
  BY <1>1 DEF IsFirstOf
<1>3. IsFirstOf(x, P)
  BY <1>1 DEF IsFirstOf
<1> DEFINE c == CHOOSE j \in P : IsFirstOf(j, P)
<1>4. c \in P /\ IsFirstOf(c, P)
  BY <1>1, <1>3, Zenon
<1> HIDE DEF c
<1>5. c \in P /\ FirstOf(P) = {c}
  BY <1>2, <1>4 DEF FirstOf
<1> QED
  BY <1>5 DEF c

(* find_cli_flag takes the first flag out of argv. *)
LEMMA FlagIsTaken ==
    ASSUME NEW A, NEW s \in Seq(A)
    PROVE  /\ FindCliFlag(s, ResetFlag).argv \in Seq(A)
           /\ \E f : Enumerates(f, FindCliFlag(s, ResetFlag).argv, s,
                                DOMAIN s \ FirstOf(FlagsOf(s)))
<1> DEFINE at == FlagsOf(s)
           pos == CHOOSE j \in at : IsFirstOf(j, at)
           id == [i \in 1 .. Len(s) |-> i]
<1>1. at = Positions(s, LAMBDA arg : arg = Word(ResetFlag))
  BY DEF FlagsOf, Positions
<1>2. FindCliFlag(s, ResetFlag).argv = IF at = {} THEN s ELSE RemoveCliArgs(s, pos, 1)
  BY <1>1 DEF FindCliFlag
<1>3. DOMAIN s = 1 .. Len(s) /\ Len(s) \in Nat /\ DOMAIN s \in SUBSET Nat
  OBVIOUS
<1>4. Enumerates(id, s, s, DOMAIN s)
  BY <1>3 DEF Enumerates
<1>5. at \in SUBSET Nat /\ at \subseteq 2 .. Len(s)
  BY <1>3 DEF FlagsOf
<1> HIDE DEF at, id
<1>6. CASE at = {}
  <2>1. DOMAIN s \ FirstOf(at) = DOMAIN s
    BY <1>6 DEF FirstOf
  <2>2. \E f : Enumerates(f, s, s, DOMAIN s)
    BY <1>4
  <2> QED
    BY <1>2, <1>6, <2>1, <2>2 DEF at
<1>7. CASE at # {}
  <2>1. pos \in at /\ FirstOf(at) = {pos}
    BY <1>5, <1>7, FirstIsFound
  <2> HIDE DEF pos
  <2>2. pos \in 1 .. Len(s) - 1 + 1
    BY <1>3, <1>5, <2>1
  <2>3. RemoveCliArgs(s, pos, 1) \in Seq(A)
    BY <2>2, ArgsAreRemoved
  <2>4. {pos} = {id[k] : k \in pos .. pos + 1 - 1}
    BY <1>3, <2>2 DEF id
  <2>5. \E g : Enumerates(g, RemoveCliArgs(s, pos, 1), s, DOMAIN s \ {pos})
    <3> DEFINE all == DOMAIN s
    <3>1. 1 \in {1, 2} /\ all \in SUBSET Nat /\ Enumerates(id, s, s, all)
      BY <1>3, <1>4
    <3> HIDE DEF all
    <3>2. ASSUME NEW gone, gone = {id[k] : k \in pos .. pos + 1 - 1}
          PROVE  \E g : Enumerates(g, RemoveCliArgs(s, pos, 1), s, all \ gone)
      BY <2>2, <3>1, <3>2, RemovedIsEnumerated, ZenonT(30)
    <3> QED
      BY <2>4, <3>2 DEF all
  <2>6. FindCliFlag(s, ResetFlag).argv = RemoveCliArgs(s, pos, 1)
    BY <1>2, <1>7
  <2> QED
    BY <2>1, <2>3, <2>5, <2>6 DEF at
<1> QED
  BY <1>6, <1>7

BehindOption(s, flag, i) == {j \in i + 1 .. Len(s) : j \notin flag}
OptionTaken(s, flag) ==
    UNION {IF s[i].value # NoText THEN {i}
           ELSE IF BehindOption(s, flag, i) = {} THEN {} ELSE {i, Min(BehindOption(s, flag, i))} :
           i \in FirstOf(OptionsOf(s))}

(* The order of the list is the order of the positions. *)
LEMMA OrderOfKept ==
    ASSUME NEW t, Len(t) \in Nat, NEW s, NEW kept \in SUBSET Nat, NEW f, Enumerates(f, t, s, kept)
    PROVE  \A i, j \in 1 .. Len(t) : f[i] \in Nat /\ (i <= j <=> f[i] <= f[j])
<1>1. \A i \in 1 .. Len(t) : f[i] \in Nat
  BY DEF Enumerates
<1>2. \A i, j \in 1 .. Len(t) : i < j => f[i] < f[j]
  BY DEF Enumerates
<1>3. \A i \in 1 .. Len(t) : i \in Nat
  OBVIOUS
<1> QED
  BY <1>1, <1>2, <1>3

(* find_cli_option takes the first option and its argument, which is the   *)
(* next of the arguments that find_cli_flag has left.                      *)
LEMMA OptionIsTaken ==
    ASSUME NEW A, NEW s \in Seq(A), NEW t \in Seq(A), NEW flag \in SUBSET (2 .. Len(s)),
           OptionsOf(s) \cap flag = {}, NEW f, Enumerates(f, t, s, DOMAIN s \ flag)
    PROVE  /\ FindCliOption(t, DumpOption).argv \in Seq(A)
           /\ \E g : Enumerates(g, FindCliOption(t, DumpOption).argv, s,
                                (DOMAIN s \ flag) \ OptionTaken(s, flag))
<1> DEFINE at == OptionsOf(t)
           i0 == CHOOSE j \in at : IsFirstOf(j, at)
           kept == DOMAIN s \ flag
           u == FindCliOption(t, DumpOption).argv
<1>1. at = Positions(t, LAMBDA arg : arg.name = DumpOption)
  BY DEF OptionsOf, Positions
<1>2. /\ at = {} => u = t
      /\ at # {} /\ t[i0].value # NoText => u = RemoveCliArgs(t, i0, 1)
      /\ at # {} /\ t[i0].value = NoText /\ i0 = Len(t) => u = t
      /\ at # {} /\ t[i0].value = NoText /\ i0 # Len(t) => u = RemoveCliArgs(t, i0, 2)
  <2>1. FindCliOption(t, DumpOption) =
          IF at = {} THEN [argument |-> NoText, argv |-> t]
          ELSE IF t[i0].value # NoText
               THEN [argument |-> t[i0].value, argv |-> RemoveCliArgs(t, i0, 1)]
               ELSE IF i0 = Len(t) THEN [argument |-> NoText, argv |-> t]
               ELSE [argument |-> Text(t[i0 + 1]), argv |-> RemoveCliArgs(t, i0, 2)]
    BY <1>1 DEF FindCliOption
  <2> HIDE DEF at, i0
  <2> QED
    BY <2>1
<1>3. /\ DOMAIN s = 1 .. Len(s) /\ Len(s) \in Nat /\ Len(t) \in Nat /\ kept \in SUBSET Nat
      /\ at \in SUBSET Nat /\ at \subseteq 2 .. Len(t)
  BY DEF OptionsOf
<1>4. \A i, j \in 1 .. Len(t) : f[i] \in Nat /\ (i <= j <=> f[i] <= f[j])
  BY <1>3, OrderOfKept
<1>5. /\ \A i \in 1 .. Len(t) : f[i] \in kept /\ t[i] = s[f[i]]
      /\ \A p \in kept : \E i \in 1 .. Len(t) : f[i] = p
  BY DEF Enumerates
<1> HIDE DEF u
<1>6. \A i \in 1 .. Len(t) : i >= 2 <=> f[i] >= 2
  <2> SUFFICES ASSUME NEW i \in 1 .. Len(t) PROVE i >= 2 <=> f[i] >= 2
    OBVIOUS
  <2>1. f[i] \in 1 .. Len(s) /\ 1 \in 1 .. Len(t) /\ 1 \in kept
    BY <1>3, <1>5
  <2>2. PICK k \in 1 .. Len(t) : f[k] = 1
    BY <1>5, <2>1
  <2>3. f[1] \in 1 .. Len(s) /\ f[1] <= 1
    BY <1>3, <1>4, <1>5, <2>1, <2>2
  <2>4. f[1] = 1
    BY <1>3, <2>3
  <2>5. i <= 1 <=> f[i] <= 1
    BY <1>4, <2>1, <2>4
  <2> QED
    BY <1>3, <2>1, <2>5
<1>7. \A i \in 1 .. Len(t) : i \in at <=> f[i] \in OptionsOf(s)
  <2> SUFFICES ASSUME NEW i \in 1 .. Len(t) PROVE i \in at <=> f[i] \in OptionsOf(s)
    OBVIOUS
  <2>1. f[i] \in 1 .. Len(s) /\ t[i] = s[f[i]] /\ (i >= 2 <=> f[i] >= 2)
    BY <1>3, <1>5, <1>6
  <2> QED
    BY <1>3, <2>1 DEF OptionsOf
<1>8. \A p \in OptionsOf(s) : \E i \in at : f[i] = p
  <2> SUFFICES ASSUME NEW p \in OptionsOf(s) PROVE \E i \in at : f[i] = p
    OBVIOUS
  <2>1. p \in kept
    BY <1>3 DEF OptionsOf
  <2> QED
    BY <1>5, <1>7, <2>1
<1>9. CASE at = {}
  <2>1. OptionTaken(s, flag) = {}
    BY <1>8, <1>9 DEF OptionTaken, FirstOf
  <2>2. u = t /\ kept \ OptionTaken(s, flag) = kept
    BY <1>2, <1>9, <2>1
  <2> QED
    BY <2>2 DEF u
<1>10. CASE at # {}
  <2>1. i0 \in at /\ FirstOf(at) = {i0}
    BY <1>3, <1>10, FirstIsFound
  <2>2. \A j \in at : i0 <= j
    BY <2>1 DEF FirstOf, IsFirstOf
  <2> HIDE DEF i0, at
  <2>3. i0 \in 1 .. Len(t) /\ t[i0] = s[f[i0]] /\ f[i0] \in OptionsOf(s)
    BY <1>3, <1>5, <1>7, <2>1
  <2>4. \A p \in OptionsOf(s) : f[i0] <= p
    <3>1. \A j \in at : j \in 1 .. Len(t)
      BY <1>3
    <3> QED
      BY <1>4, <1>8, <2>2, <2>3, <3>1
  <2>5. FirstOf(OptionsOf(s)) = {f[i0]}
    <3>1. \A p \in OptionsOf(s) : p \in Nat
      BY <1>3 DEF OptionsOf
    <3> QED
      BY <1>4, <2>3, <2>4, <3>1 DEF FirstOf, IsFirstOf
  <2> DEFINE B == BehindOption(s, flag, f[i0])
  <2>6. OptionTaken(s, flag) =
          IF s[f[i0]].value # NoText THEN {f[i0]} ELSE IF B = {} THEN {} ELSE {f[i0], Min(B)}
    BY <2>5 DEF OptionTaken
  <2>7. \A j : j \in B <=> j \in kept /\ ~(j <= f[i0])
    BY <1>3, <1>4, <2>3 DEF BehindOption
  <2>8. \A k \in 1 .. Len(t) : f[k] \in B <=> ~(k <= i0)
    BY <1>4, <1>5, <2>3, <2>7
  <2> HIDE DEF B
  <2>9. CASE t[i0].value # NoText
    <3>1. OptionTaken(s, flag) = {f[i0]} /\ u = RemoveCliArgs(t, i0, 1)
      BY <1>2, <1>10, <2>3, <2>6, <2>9
    <3>2. i0 \in 1 .. Len(t) - 1 + 1 /\ 1 \in {1, 2}
      BY <1>3, <2>3
    <3>3. {f[i0]} = {f[k] : k \in i0 .. i0 + 1 - 1}
      BY <1>3, <2>3
    <3>4. ASSUME NEW gone, gone = {f[k] : k \in i0 .. i0 + 1 - 1}
          PROVE  \E g : Enumerates(g, RemoveCliArgs(t, i0, 1), s, kept \ gone)
      BY <1>3, <3>2, <3>4, RemovedIsEnumerated, ZenonT(30)
    <3>5. RemoveCliArgs(t, i0, 1) \in Seq(A)
      BY <3>2, ArgsAreRemoved
    <3> QED
      BY <3>1, <3>3, <3>4, <3>5 DEF u
  <2>10. CASE t[i0].value = NoText /\ i0 = Len(t)
    <3>1. B = {}
      BY <1>3, <1>5, <2>7, <2>8, <2>10
    <3>2. u = t /\ kept \ OptionTaken(s, flag) = kept
      BY <1>2, <1>10, <2>3, <2>6, <2>10, <3>1
    <3> QED
      BY <3>2 DEF u
  <2>11. CASE t[i0].value = NoText /\ i0 # Len(t)
    <3>1. i0 + 1 \in 1 .. Len(t) /\ ~(i0 + 1 <= i0)
      BY <1>3, <2>3, <2>11
    <3>2. f[i0 + 1] \in B
      BY <2>8, <3>1
    <3>3. \A j \in B : f[i0 + 1] <= j /\ j \in Nat
      <4> SUFFICES ASSUME NEW j \in B PROVE f[i0 + 1] <= j /\ j \in Nat
        OBVIOUS
      <4>1. PICK k \in 1 .. Len(t) : f[k] = j
        BY <1>5, <2>7
      <4>2. i0 + 1 <= k
        BY <1>3, <2>3, <2>8, <4>1
      <4> QED
        BY <1>4, <3>1, <4>1, <4>2
    <3>4. Min(B) = f[i0 + 1]
      BY <3>2, <3>3 DEF Min
    <3>5. OptionTaken(s, flag) = {f[i0], f[i0 + 1]} /\ u = RemoveCliArgs(t, i0, 2)
      BY <1>2, <1>10, <2>3, <2>6, <2>11, <3>2, <3>4
    <3>6. i0 \in 1 .. Len(t) - 2 + 1 /\ 2 \in {1, 2}
      BY <1>3, <2>3, <3>1
    <3>7. {f[i0], f[i0 + 1]} = {f[k] : k \in i0 .. i0 + 2 - 1}
      <4>1. \A k : k \in i0 .. i0 + 2 - 1 <=> k = i0 \/ k = i0 + 1
        BY <1>3, <2>3
      <4> QED
        BY <4>1
    <3>8. ASSUME NEW gone, gone = {f[k] : k \in i0 .. i0 + 2 - 1}
          PROVE  \E g : Enumerates(g, RemoveCliArgs(t, i0, 2), s, kept \ gone)
      BY <1>3, <3>6, <3>8, RemovedIsEnumerated, ZenonT(30)
    <3>9. RemoveCliArgs(t, i0, 2) \in Seq(A)
      BY <3>6, ArgsAreRemoved
    <3> QED
      BY <3>5, <3>7, <3>8, <3>9 DEF u
  <2> QED
    BY <2>9, <2>10, <2>11
<1> QED
  BY <1>9, <1>10

Arguments == UNION {Range(line) : line \in CommandLines}

(* t is what ArgumentsAreKept wants to be left of s. *)
IsRestOf(t, s) ==
    LET flag == FirstOf(FlagsOf(s))
        kept == DOMAIN s \ (flag \cup OptionTaken(s, flag))
    IN  /\ Len(t) = Cardinality(kept)
        /\ \A p \in kept : t[Cardinality({q \in kept : q <= p})] = s[p]

ArgsInv == given \in Seq(Arguments) /\ argv \in Seq(Arguments) /\ ArgumentsAreKept

(* ArgumentsAreKept speaks of the last constructor's argument list. *)
LEMMA KeptIsRest == ArgumentsAreKept <=> IsRestOf(argv, given)
  BY DEF ArgumentsAreKept, IsRestOf, FirstOf, FlagsOf, OptionsOf, OptionTaken, BehindOption

(* Both searches leave the rest of the arguments in their order. *)
LEMMA SearchesLeaveRest ==
    ASSUME NEW A, NEW s \in Seq(A)
    PROVE  LET t == FindCliOption(FindCliFlag(s, ResetFlag).argv, DumpOption).argv
           IN  t \in Seq(A) /\ IsRestOf(t, s)
<1> DEFINE flag == FirstOf(FlagsOf(s))
           r == FindCliFlag(s, ResetFlag).argv
           t == FindCliOption(r, DumpOption).argv
           kept == DOMAIN s \ (flag \cup OptionTaken(s, flag))
<1>1. r \in Seq(A)
  BY FlagIsTaken
<1>2. PICK f : Enumerates(f, r, s, DOMAIN s \ flag)
  BY FlagIsTaken
<1>3. flag \in SUBSET (2 .. Len(s)) /\ OptionsOf(s) \cap flag = {}
  BY DEF FirstOf, FlagsOf, OptionsOf, Word, DumpOption, ResetFlag
<1> HIDE DEF r, flag
<1>4. t \in Seq(A) /\ \E g : Enumerates(g, t, s, (DOMAIN s \ flag) \ OptionTaken(s, flag))
  BY <1>1, <1>2, <1>3, OptionIsTaken
<1>5. (DOMAIN s \ flag) \ OptionTaken(s, flag) = kept
  OBVIOUS
<1> HIDE DEF t
<1>6. PICK g : Enumerates(g, t, s, kept)
  BY <1>4, <1>5
<1>7. kept \in SUBSET Nat /\ Len(t) \in Nat
  BY <1>4
<1>8. IsRestOf(t, s)
  <2>1. /\ Len(t) = Cardinality(kept)
        /\ \A p \in kept : t[Cardinality({q \in kept : q <= p})] = s[p]
    <3> HIDE DEF kept
    <3> QED
      BY <1>6, <1>7, RankOfKept
  <2> QED
    BY <2>1 DEF IsRestOf, flag
<1> QED
  BY <1>4, <1>8 DEF t, r

(* No step but the constructor's first changes the arguments, and that one *)
(* takes out what it uses.                                                 *)
LEMMA ArgsNext == ArgsInv /\ [Next]_vars => ArgsInv'
<1> SUFFICES ASSUME ArgsInv, [Next]_vars PROVE ArgsInv'
  OBVIOUS
<1>1. ASSUME NEW owner \in Owners, NEW args \in CommandLines \cup {argv}, Construct(owner, args)
      PROVE  ArgsInv'
  <2>1. args \in Seq(Arguments)
    <3>1. CASE args \in CommandLines
      <4>1. args \in Seq(Range(args)) /\ Range(args) \subseteq Arguments
        BY <3>1, CommandLinesAssumption DEF Arguments
      <4> HIDE DEF Arguments
      <4> QED
        BY <4>1
    <3>2. CASE args = argv
      BY <3>2 DEF ArgsInv
    <3> QED
      BY <3>1, <3>2
  <2>2. /\ given' = args
        /\ argv' = FindCliOption(FindCliFlag(args, ResetFlag).argv, DumpOption).argv
    BY <1>1 DEF Construct
  <2>3. argv' \in Seq(Arguments) /\ IsRestOf(argv', given')
    BY <2>1, <2>2, SearchesLeaveRest
  <2>4. ArgumentsAreKept'
    BY <2>3 DEF ArgumentsAreKept, IsRestOf, FirstOf, FlagsOf, OptionsOf, OptionTaken, BehindOption
  <2> QED
    BY <2>1, <2>2, <2>3, <2>4 DEF ArgsInv
<1>2. CASE UNCHANGED <<given, argv>>
  <2>1. IsRestOf(argv', given')
    BY <1>2, KeptIsRest DEF ArgsInv
  <2>2. ArgumentsAreKept'
    BY <2>1 DEF ArgumentsAreKept, IsRestOf, FirstOf, FlagsOf, OptionsOf, OptionTaken, BehindOption
  <2> QED
    BY <1>2, <2>2 DEF ArgsInv
<1>3. ASSUME ConstructorStep \/ FailToRead PROVE UNCHANGED <<given, argv>>
  BY <1>3 DEF ConstructorStep, Collect, MapRange, DeviceInit, MappingDone, CopyInput, ReadMetadata,
              ReadFunctor, ReadPolicy, CopyOutput, FinishConstructor, FailToRead, LoadUnchanged,
              argVars
<1>4. ASSUME \/ KokkosInitialize \/ KokkosFinalize \/ LeaveScope \/ Finalize
             \/ \E forced, accepts \in BOOLEAN : ParallelFor(forced, accepts)
             \/ ResetInputs \/ CopySnapshots \/ RunKernel \/ UNCHANGED vars
      PROVE  UNCHANGED <<given, argv>>
  BY <1>4 DEF KokkosInitialize, KokkosFinalize, ParallelFor, ResetInputs, CopySnapshots,
              RunKernel, LeaveScope, Finalize, Destroy, vars, argVars
<1> QED
  BY <1>1, <1>2, <1>3, <1>4 DEF Next, Program, CallStep

(* ArgumentsAreKept: whatever the command line, also when a program tries  *)
(* again with what a failed constructor left of it.                        *)
THEOREM ConstructorTakesItsArguments == Spec => []ArgumentsAreKept
<1>1. Init => ArgsInv
  <2> SUFFICES ASSUME Init PROVE ArgsInv
    OBVIOUS
  <2>1. given = << >> /\ argv = << >>
    BY DEF Init
  <2>2. DOMAIN << >> = {} /\ Len(<< >>) = 0 /\ << >> \in Seq(Arguments)
    OBVIOUS
  <2>3. IsRestOf(<< >>, << >>)
    BY <2>2, FS_EmptySet DEF IsRestOf
  <2> QED
    BY <2>1, <2>2, <2>3, KeptIsRest DEF ArgsInv
<1>2. ArgsInv => ArgumentsAreKept
  BY DEF ArgsInv
<1> QED
  BY <1>1, <1>2, ArgsNext, PTL DEF Spec

=============================================================================
