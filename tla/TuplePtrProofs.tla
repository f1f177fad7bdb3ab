--------------------------- MODULE TuplePtrProofs ---------------------------
(* Proofs about TuplePtr, for any number of threads, pointers and layers.   *)
EXTENDS TuplePtr, TLAPS, FiniteSetTheorems

(***************************************************************************)
(* Types.                                                                   *)
(***************************************************************************)
LEMMA PCTypes ==
    /\ Idle \in PC /\ At("throw", 0) \in PC /\ At("from_this", 0) \in PC
    /\ \A i \in 1..(N + 1) : At("delete", i) \in PC /\ At("load", i) \in PC /\ At("sub", i) \in PC
  BY DEF PC

\* A thread that destroys the tuple is at some element, or past the last one.
LEMMA PCParts ==
    ASSUME NEW p \in PC
    PROVE  /\ p.at \in {"delete", "load", "sub"} => p.i \in 1..(N + 1)
           /\ p.at = "idle" => p = Idle
           /\ p.at \in {"idle", "throw", "from_this", "delete", "load", "sub"}
  BY DEF PC, Idle, At

LEMMA BasedFinite ==
    ASSUME NEW S \in SUBSET Based
    PROVE  IsFiniteSet(S) /\ Cardinality(S) \in Nat
<1>1. IsFiniteSet(1..N)
  BY ElementAssumption, FS_Interval
<1>2. S \subseteq 1..N
  BY ElementAssumption
<1>3. IsFiniteSet(S)
  BY <1>1, <1>2, FS_Subset
<1> QED BY <1>3, FS_CardinalityType

LEMMA NextType == TypeOK /\ [Next]_vars => TypeOK'
<1> SUFFICES ASSUME TypeOK, [Next]_vars PROVE TypeOK'
  OBVIOUS
<1> USE ElementAssumption
<1>1. ASSUME NEW t \in Thread, NEW r \in Ref, Construct(t, r) PROVE TypeOK'
  <2>1. Cardinality(Based) \in Nat
    BY BasedFinite
  <2> QED BY <1>1, <2>1 DEF Construct, EnableWeakThis, TypeOK
<1>2. ASSUME NEW t \in Thread, NEW r \in Ref, CopyRef(t, r) PROVE TypeOK'
  BY <1>2 DEF CopyRef, TypeOK
<1>3. ASSUME NEW t \in Thread, NEW r \in Ref, NEW u \in Thread, MoveRef(t, r, u) PROVE TypeOK'
  BY <1>3 DEF MoveRef, TypeOK, counts
<1>4. ASSUME NEW t \in Thread, SharedFromThis(t) PROVE TypeOK'
  BY <1>4, PCTypes DEF SharedFromThis, TypeOK, counts
<1>5. ASSUME NEW t \in Thread, NEW r \in Ref, AddShared(t, r) PROVE TypeOK'
  BY <1>5, PCTypes DEF AddShared, TypeOK
<1>6. ASSUME NEW t \in Thread, NEW r \in Ref, ReleaseShared(t, r) PROVE TypeOK'
  <2>1. At("delete", 1) \in PC
    BY PCTypes
  <2> QED BY <1>6, <2>1, PCTypes DEF ReleaseShared, TypeOK
<1>7. ASSUME NEW t \in Thread, DeleteElement(t) PROVE TypeOK'
  <2> DEFINE i == pc[t].i
  <2>1. i \in 1..(N + 1)
    BY <1>7, PCParts DEF DeleteElement, TypeOK
  <2>2. CASE i > N
    BY <1>7, <2>2, PCTypes DEF DeleteElement, AllDeleted, TypeOK, counts
  <2>3. CASE ~(i > N)
    <3>1. At("load", i) \in PC /\ At("delete", i + 1) \in PC
      BY <2>1, <2>3, PCTypes
    <3> QED BY <1>7, <2>3, <3>1 DEF DeleteElement, AllDeleted, TypeOK, counts
  <2> QED BY <2>2, <2>3
<1>8. ASSUME NEW t \in Thread, pc[t].i \in 1..(N + 1), AfterWeak(t)
      PROVE  pc' \in [Thread -> PC] /\ cntrl' \subseteq Based
  <2>1. CASE pc[t].i > N
    BY <1>8, <2>1, PCTypes DEF AfterWeak, TypeOK
  <2>2. CASE ~(pc[t].i > N)
    <3>1. At("delete", pc[t].i + 1) \in PC
      BY <1>8, <2>2, PCTypes
    <3> QED BY <1>8, <2>2, <3>1 DEF AfterWeak, TypeOK
  <2> QED BY <2>1, <2>2
<1>9. ASSUME NEW t \in Thread, LoadWeak(t) PROVE TypeOK'
  <2>1. pc[t].i \in 1..(N + 1)
    BY <1>9, PCParts DEF LoadWeak, TypeOK
  <2>2. CASE shared_weak_owners = 0
    BY <1>8, <1>9, <2>1, <2>2 DEF LoadWeak, TypeOK, counts
  <2>3. CASE shared_weak_owners # 0
    <3>1. At("sub", pc[t].i) \in PC
      BY <2>1, PCTypes
    <3> QED BY <1>9, <2>3, <3>1 DEF LoadWeak, TypeOK, counts
  <2> QED BY <2>2, <2>3
<1>10. ASSUME NEW t \in Thread, SubWeak(t) PROVE TypeOK'
  <2>1. pc[t].i \in 1..(N + 1)
    BY <1>10, PCParts DEF SubWeak, TypeOK
  <2> QED BY <1>8, <1>10, <2>1 DEF SubWeak, TypeOK
<1>11. CASE UNCHANGED vars
  BY <1>11 DEF vars, counts, TypeOK
<1> QED BY <1>1, <1>2, <1>3, <1>4, <1>5, <1>6, <1>7, <1>9, <1>10, <1>11 DEF Next, Continue

\* Every value of the model stays in its type.
THEOREM TypeCorrect == Spec => []TypeOK
<1>1. Init => TypeOK
  BY PCTypes DEF Init, TypeOK
<1> QED BY <1>1, NextType, PTL DEF Spec

(***************************************************************************)
(* The life of a stack.                                                     *)
(***************************************************************************)
LEMMA LiveFinite == IsFiniteSet(Live) /\ Cardinality(Live) \in Nat
<1>1. Live \subseteq Ref
  BY DEF Live
<1>2. IsFiniteSet(Live)
  BY <1>1, RefAssumption, FS_Subset
<1> QED BY <1>2, FS_CardinalityType

\* A pointer that is made raises the number of pointers by one.
LEMMA MadeRef ==
    ASSUME TypeOK, NEW r \in Ref, NEW t \in Thread, holder[r] = Nobody,
           holder' = [holder EXCEPT ![r] = t]
    PROVE  Live' = Live \cup {r} /\ Cardinality(Live') = Cardinality(Live) + 1
<1>1. Live' = Live \cup {r} /\ r \notin Live
  BY RefAssumption DEF Live, TypeOK
<1> QED BY <1>1, LiveFinite, FS_AddElement

\* A pointer that is destroyed lowers it by one.
LEMMA LostRef ==
    ASSUME TypeOK, NEW r \in Ref, NEW t \in Thread, holder[r] = t,
           holder' = [holder EXCEPT ![r] = Nobody]
    PROVE  /\ Live' = Live \ {r} /\ r \in Live
           /\ Cardinality(Live') = Cardinality(Live) - 1
<1>1. Live' = Live \ {r} /\ r \in Live
  BY RefAssumption DEF Live, TypeOK
<1> QED BY <1>1, LiveFinite, FS_RemoveElement

LEMMA InitLifeCycle == Init => LifeCycle
<1> SUFFICES ASSUME Init PROVE LifeCycle
  OBVIOUS
<1>1. Live = {}
  BY DEF Init, Live
<1> QED BY <1>1 DEF Init, LifeCycle, CountsRight, WholeWhileLive, QuietOutside, FromThisHeld,
                    Progress, Destroying, Idle

LEMMA ConstructLifeCycle ==
    ASSUME TypeOK, LifeCycle, NEW t \in Thread, NEW r \in Ref, Construct(t, r)
    PROVE  LifeCycle'
<1>1. Live = {} /\ \A u \in Thread : pc'[u] = Idle
  BY DEF Construct, LifeCycle, QuietOutside
<1>2. holder[r] = Nobody
  BY <1>1 DEF Live
<1>3. Cardinality(Live') = 1
  <2>1. Cardinality(Live') = Cardinality(Live) + 1
    BY <1>2, MadeRef DEF Construct
  <2> QED BY <1>1, <2>1, FS_EmptySet
<1>4. /\ block' = "allocated" /\ shared_owners' = 0 /\ alive' = Element /\ cntrl' = Based
      /\ shared_weak_owners' = Cardinality(Based)
  BY DEF Construct, EnableWeakThis
<1> QED BY <1>1, <1>3, <1>4 DEF LifeCycle, CountsRight, WholeWhileLive, QuietOutside,
                                FromThisHeld, Progress, Destroying, Idle

\* A pointer made by a thread that has one: the copy constructors and
\* shared_from_this.
LEMMA MakeLifeCycle ==
    ASSUME TypeOK, LifeCycle, NEW t \in Thread, NEW r \in Ref, HeldBy(t) # {},
           holder[r] = Nobody, shared_owners' = shared_owners + 1,
           holder' = [holder EXCEPT ![r] = t],
           pc' = pc \/ pc' = [pc EXCEPT ![t] = Idle],
           UNCHANGED <<shared_weak_owners, alive, cntrl, block>>
    PROVE  LifeCycle'
<1>1. Live # {} /\ Live' # {}
  BY RefAssumption, MadeRef DEF HeldBy, Live
<1>2. Cardinality(Live') = Cardinality(Live) + 1
  BY MadeRef
<1>3. /\ block = "allocated" /\ alive = Element /\ cntrl = Based
      /\ \A u \in Thread : ~Destroying(u)
  BY <1>1 DEF LifeCycle, WholeWhileLive
<1>4. \A u \in Thread : pc'[u] \in {pc[u], Idle}
  BY DEF TypeOK
<1>5. CountsRight'
  BY <1>2, <1>3, LiveFinite DEF LifeCycle, CountsRight, TypeOK
<1>6. \A u \in Thread : ~(Destroying(u)')
  BY <1>3, <1>4 DEF Destroying, Idle
<1>7. WholeWhileLive' /\ QuietOutside' /\ Progress'
  BY <1>3, <1>6 DEF WholeWhileLive, QuietOutside, Progress
<1>8. FromThisHeld'
  <2>1. \A u \in Thread : HeldBy(u) # {} => HeldBy(u)' # {}
    BY RefAssumption DEF HeldBy, TypeOK
  <2> QED BY <1>4, <2>1 DEF LifeCycle, FromThisHeld, Idle
<1> QED BY <1>5, <1>7, <1>8 DEF LifeCycle

LEMMA MoveRefLifeCycle ==
    ASSUME TypeOK, LifeCycle, NEW t \in Thread, NEW r \in Ref, NEW u \in Thread,
           MoveRef(t, r, u)
    PROVE  LifeCycle'
<1>1. Live' = Live
  BY RefAssumption DEF MoveRef, Live, TypeOK
<1>2. UNCHANGED <<shared_owners, shared_weak_owners, alive, cntrl, block, pc>>
  BY DEF MoveRef, counts
<1>3. \A v \in Thread : v # t /\ HeldBy(v) # {} => HeldBy(v)' # {}
  BY DEF MoveRef, HeldBy, TypeOK
<1>4. FromThisHeld'
  BY <1>2, <1>3 DEF MoveRef, LifeCycle, FromThisHeld, Idle
<1>5. CountsRight' /\ WholeWhileLive' /\ QuietOutside' /\ Progress'
  BY <1>1, <1>2 DEF LifeCycle, CountsRight, WholeWhileLive, QuietOutside, Progress, Destroying
<1> QED BY <1>4, <1>5 DEF LifeCycle

LEMMA SharedFromThisLifeCycle ==
    ASSUME TypeOK, LifeCycle, NEW t \in Thread, SharedFromThis(t)
    PROVE  LifeCycle'
<1>1. Live # {}
  BY RefAssumption DEF SharedFromThis, HeldBy, Live
<1>2. block = "allocated" /\ \A u \in Thread : ~Destroying(u)
  BY <1>1 DEF LifeCycle, WholeWhileLive
<1>3. shared_owners + 1 # 0
  <2>1. Cardinality(Live) # 0
    BY <1>1, LiveFinite, FS_EmptySet
  <2> QED BY <1>2, <2>1 DEF LifeCycle, CountsRight
<1>4. /\ pc' = [pc EXCEPT ![t] = At("from_this", 0)]
      /\ UNCHANGED <<shared_owners, shared_weak_owners, holder, alive, cntrl, block>>
  BY <1>3 DEF SharedFromThis, counts
<1>5. /\ Live' = Live
      /\ \A u \in Thread : HeldBy(u)' = HeldBy(u)
      /\ \A u \in Thread : ~(Destroying(u)')
  BY <1>2, <1>4 DEF Live, HeldBy, Destroying, At, TypeOK
<1>6. FromThisHeld'
  BY <1>4, <1>5 DEF SharedFromThis, LifeCycle, FromThisHeld, At, TypeOK
<1>7. CountsRight' /\ WholeWhileLive' /\ QuietOutside' /\ Progress'
  BY <1>2, <1>4, <1>5 DEF LifeCycle, CountsRight, WholeWhileLive, QuietOutside, Progress
<1> QED BY <1>6, <1>7 DEF LifeCycle

\* The destructor of a pointer: the last one starts the destruction.
LEMMA ReleaseSharedLifeCycle ==
    ASSUME TypeOK, LifeCycle, NEW t \in Thread, NEW r \in Ref, ReleaseShared(t, r)
    PROVE  LifeCycle'
<1>1. /\ Live' = Live \ {r} /\ r \in Live
      /\ Cardinality(Live') = Cardinality(Live) - 1
  BY LostRef DEF ReleaseShared
<1>2. /\ block = "allocated" /\ alive = Element /\ cntrl = Based
      /\ \A u \in Thread : ~Destroying(u)
      /\ shared_owners + 1 = Cardinality(Live)
      /\ shared_weak_owners = Cardinality(cntrl)
  BY <1>1 DEF LifeCycle, WholeWhileLive, CountsRight
<1>3. /\ shared_owners' = shared_owners - 1
      /\ UNCHANGED <<shared_weak_owners, alive, cntrl, block>>
      /\ holder' = [holder EXCEPT ![r] = Nobody]
  BY DEF ReleaseShared
<1>4. CountsRight'
  BY <1>1, <1>2, <1>3, LiveFinite DEF CountsRight, TypeOK
<1>5. \A u \in Thread : u # t /\ HeldBy(u) # {} => HeldBy(u)' # {}
  BY <1>3 DEF ReleaseShared, HeldBy, TypeOK
<1>6. CASE shared_owners = 0
  <2>1. Live' = {}
    <3>1. Cardinality(Live') = 0 /\ IsFiniteSet(Live')
      BY <1>1, <1>2, <1>6, LiveFinite, FS_RemoveElement
    <3> QED BY <3>1, FS_EmptySet
  <2>2. pc' = [pc EXCEPT ![t] = At("delete", 1)]
    BY <1>6 DEF ReleaseShared, LastOwner
  <2>3. WholeWhileLive' /\ QuietOutside'
    BY <1>2, <1>3, <2>1 DEF WholeWhileLive, QuietOutside
  <2>4. FromThisHeld'
    BY <1>5, <2>2 DEF LifeCycle, FromThisHeld, At, TypeOK
  <2>5. pc'[t].at = "delete" /\ pc'[t].i = 1
        /\ \A u \in Thread : Destroying(u)' => u = t
    BY <1>2, <2>2 DEF Destroying, At, TypeOK
  <2>6. Based = Based \cap 1..N
    BY ElementAssumption
  <2>7. Progress'
    BY <1>2, <1>3, <2>5, <2>6 DEF Progress, Element
  <2> QED BY <1>4, <2>3, <2>4, <2>7 DEF LifeCycle
<1>7. CASE shared_owners # 0
  <2>1. pc' = pc /\ pc[t] = Idle
    BY <1>7 DEF ReleaseShared, LastOwner, TypeOK
  <2>2. \A u \in Thread : ~(Destroying(u)')
    BY <1>2, <2>1 DEF Destroying
  <2>3. WholeWhileLive' /\ QuietOutside' /\ Progress'
    BY <1>2, <1>3, <2>2 DEF WholeWhileLive, QuietOutside, Progress
  <2>4. FromThisHeld'
    BY <1>5, <2>1 DEF LifeCycle, FromThisHeld, Idle
  <2> QED BY <1>4, <2>3, <2>4 DEF LifeCycle
<1> QED BY <1>6, <1>7

\* What holds while thread t destroys the stack.
LEMMA DestructionFacts ==
    ASSUME TypeOK, LifeCycle, NEW t \in Thread, Destroying(t)
    PROVE  /\ Live = {} /\ block = "allocated"
           /\ \A u \in Thread : u # t => ~Destroying(u) /\ pc[u].at \notin {"throw", "from_this"}
           /\ shared_owners + 1 = Cardinality(Live)
           /\ shared_weak_owners = Cardinality(cntrl)
           /\ pc[t].i \in 1..(N + 1) /\ cntrl = Based \cap pc[t].i..N
           /\ pc[t].at = "delete" => alive = pc[t].i..N
           /\ pc[t].at # "delete" => alive = (pc[t].i + 1)..N /\ (pc[t].i <= N => pc[t].i \in Based)
<1>1. Live = {}
  BY DEF LifeCycle, WholeWhileLive
<1>2. block = "allocated"
  BY DEF LifeCycle, QuietOutside, Destroying, Idle
<1>3. pc[t].i \in 1..(N + 1)
  BY PCParts DEF Destroying, TypeOK
<1>4. \A u \in Thread : pc[u].at \notin {"throw", "from_this"}
  BY <1>1, RefAssumption DEF LifeCycle, FromThisHeld, HeldBy, Live
<1>5. /\ \A u \in Thread : Destroying(u) => u = t
      /\ cntrl = Based \cap pc[t].i..N
      /\ pc[t].at = "delete" => alive = pc[t].i..N
      /\ pc[t].at # "delete" => alive = (pc[t].i + 1)..N /\ (pc[t].i <= N => pc[t].i \in Based)
  BY DEF LifeCycle, Progress
<1>6. shared_owners + 1 = Cardinality(Live) /\ shared_weak_owners = Cardinality(cntrl)
  BY <1>2 DEF LifeCycle, CountsRight
<1> QED BY <1>1, <1>2, <1>3, <1>4, <1>5, <1>6

LEMMA DeleteElementLifeCycle ==
    ASSUME TypeOK, LifeCycle, NEW t \in Thread, DeleteElement(t)
    PROVE  LifeCycle'
<1> DEFINE i == pc[t].i
<1>1. Destroying(t) /\ pc[t].at = "delete"
  BY DEF DeleteElement, Destroying
<1>2. /\ Live = {} /\ block = "allocated"
      /\ \A u \in Thread : u # t => ~Destroying(u) /\ pc[u].at \notin {"throw", "from_this"}
      /\ shared_owners + 1 = Cardinality(Live)
      /\ shared_weak_owners = Cardinality(cntrl)
      /\ i \in 1..(N + 1) /\ cntrl = Based \cap i..N /\ alive = i..N
  BY <1>1, DestructionFacts
<1>3. UNCHANGED <<shared_owners, shared_weak_owners, holder, cntrl, block>> /\ Live' = Live
  BY DEF DeleteElement, counts, Live
<1>4. CountsRight' /\ WholeWhileLive' /\ QuietOutside'
  BY <1>2, <1>3 DEF CountsRight, WholeWhileLive, QuietOutside
<1>5. \A u \in Thread : u # t => pc'[u] = pc[u]
  BY DEF DeleteElement, TypeOK
<1>6. pc'[t] \in {At("load", i), At("delete", i + 1)}
  BY <1>2, ElementAssumption DEF DeleteElement, AllDeleted, TypeOK
<1>7. FromThisHeld'
  BY <1>2, <1>5, <1>6 DEF FromThisHeld, At
<1>8. \A u \in Thread : Destroying(u)' => u = t
  BY <1>2, <1>5 DEF Destroying
<1>9. CASE i > N
  <2>1. pc'[t] = At("load", N + 1) /\ alive' = alive /\ i = N + 1
    BY <1>2, <1>9, ElementAssumption DEF DeleteElement, AllDeleted, TypeOK
  <2>2. alive' = (N + 2)..N /\ cntrl' = Based \cap (N + 1)..N
    BY <1>2, <1>3, <2>1, ElementAssumption
  <2>3. Progress'
    BY <1>8, <2>1, <2>2, ElementAssumption DEF Progress, At
  <2> QED BY <1>4, <1>7, <2>3 DEF LifeCycle
<1>10. CASE i <= N
  <2>1. /\ alive' = alive \ {i}
        /\ pc'[t] = IF i \in cntrl THEN At("load", i) ELSE At("delete", i + 1)
    BY <1>2, <1>10, ElementAssumption DEF DeleteElement, AllDeleted, TypeOK
  <2>2. alive' = (i + 1)..N
    BY <1>2, <2>1, ElementAssumption
  <2>3. CASE i \in cntrl
    <3>1. pc'[t].at = "load" /\ pc'[t].i = i
      BY <2>1, <2>3 DEF At
    <3>2. i \in Based /\ cntrl' = Based \cap i..N
      BY <1>2, <1>3, <2>3
    <3> HIDE DEF i
    <3>3. Progress'
      BY <1>8, <2>2, <3>1, <3>2 DEF Progress
    <3> QED BY <1>4, <1>7, <3>3 DEF LifeCycle
  <2>4. CASE i \notin cntrl
    <3>1. cntrl' = Based \cap (i + 1)..N
      BY <1>2, <1>3, <2>4, <1>10, ElementAssumption
    <3>2. pc'[t].at = "delete" /\ pc'[t].i = i + 1
      BY <2>1, <2>4 DEF At
    <3> HIDE DEF i
    <3>3. Progress'
      BY <1>8, <2>2, <3>1, <3>2 DEF Progress
    <3> QED BY <1>4, <1>7, <3>3 DEF LifeCycle
  <2> QED BY <2>3, <2>4
<1> QED BY <1>2, <1>9, <1>10, ElementAssumption

\* release_weak finds a zero only when it gives up the last reference.
LEMMA LoadWeakLifeCycle ==
    ASSUME TypeOK, LifeCycle, NEW t \in Thread, LoadWeak(t)
    PROVE  LifeCycle'
<1> DEFINE i == pc[t].i
<1>1. Destroying(t) /\ pc[t].at = "load"
  BY DEF LoadWeak, Destroying
<1>2. /\ Live = {} /\ block = "allocated"
      /\ \A u \in Thread : u # t => ~Destroying(u) /\ pc[u].at \notin {"throw", "from_this"}
      /\ shared_owners + 1 = Cardinality(Live)
      /\ shared_weak_owners = Cardinality(cntrl)
      /\ i \in 1..(N + 1) /\ cntrl = Based \cap i..N
      /\ alive = (i + 1)..N /\ (i <= N => i \in Based)
  BY <1>1, DestructionFacts
<1>3. UNCHANGED <<shared_owners, shared_weak_owners, holder, alive>> /\ Live' = Live
  BY DEF LoadWeak, counts, Live
<1>4. CASE shared_weak_owners = 0
  <2>1. cntrl = {}
    BY <1>2, <1>4, BasedFinite, FS_EmptySet DEF TypeOK
  <2>2. i = N + 1
    BY <1>2, <2>1, ElementAssumption
  <2>3. block' = "freed" /\ pc' = [pc EXCEPT ![t] = Idle]
    BY <1>4, <2>2, ElementAssumption DEF LoadWeak, AfterWeak
  <2>4. \A u \in Thread : pc'[u] = Idle
    BY <1>2, <2>3, PCParts DEF Destroying, TypeOK
  <2>5. alive' = {}
    BY <1>2, <1>3, <2>2, ElementAssumption
  <2> QED BY <1>2, <1>3, <2>3, <2>4, <2>5
          DEF LifeCycle, CountsRight, WholeWhileLive, QuietOutside, FromThisHeld, Progress,
              Destroying, Idle
<1>5. CASE shared_weak_owners # 0
  <2>1. pc' = [pc EXCEPT ![t] = At("sub", i)] /\ UNCHANGED <<cntrl, block>>
    BY <1>5 DEF LoadWeak
  <2>2. CountsRight' /\ WholeWhileLive' /\ QuietOutside'
    BY <1>2, <1>3, <2>1 DEF CountsRight, WholeWhileLive, QuietOutside
  <2>3. FromThisHeld' /\ \A u \in Thread : Destroying(u)' => u = t
    BY <1>2, <2>1 DEF FromThisHeld, Destroying, At, TypeOK
  <2>4. pc'[t].at = "sub" /\ pc'[t].i = i
    BY <2>1 DEF At, TypeOK
  <2>5. Progress'
    BY <1>2, <1>3, <1>5, <2>1, <2>3, <2>4 DEF Progress
  <2> QED BY <2>2, <2>3, <2>5 DEF LifeCycle
<1> QED BY <1>4, <1>5

LEMMA SubWeakLifeCycle ==
    ASSUME TypeOK, LifeCycle, NEW t \in Thread, SubWeak(t)
    PROVE  LifeCycle'
<1> DEFINE i == pc[t].i
<1>1. Destroying(t) /\ pc[t].at = "sub"
  BY DEF SubWeak, Destroying
<1>2. /\ Live = {} /\ block = "allocated"
      /\ \A u \in Thread : u # t => ~Destroying(u) /\ pc[u].at \notin {"throw", "from_this"}
      /\ shared_owners + 1 = Cardinality(Live)
      /\ shared_weak_owners = Cardinality(cntrl)
      /\ i \in 1..(N + 1) /\ cntrl = Based \cap i..N
      /\ alive = (i + 1)..N /\ (i <= N => i \in Based)
  BY <1>1, DestructionFacts
<1>3. shared_weak_owners # 0
  BY <1>1 DEF LifeCycle, Progress
<1>4. i <= N
  <2>1. CASE i = N + 1
    <3>1. cntrl = {}
      BY <1>2, <2>1, ElementAssumption
    <3> QED BY <1>2, <1>3, <3>1, FS_EmptySet
  <2> QED BY <1>2, <2>1, ElementAssumption
<1>5. /\ pc' = [pc EXCEPT ![t] = At("delete", i + 1)]
      /\ cntrl' = cntrl \ {i}
      /\ shared_weak_owners' = shared_weak_owners - 1
      /\ block' = block
  <2>1. ~(pc[t].i > N)
    BY <1>2, <1>4, ElementAssumption
  <2> QED BY <1>3, <2>1 DEF SubWeak, AfterWeak
<1>6. UNCHANGED <<shared_owners, holder, alive>> /\ Live' = Live
  BY DEF SubWeak, Live
<1>7. i \in cntrl /\ cntrl' = Based \cap (i + 1)..N
  BY <1>2, <1>4, <1>5, ElementAssumption
<1>8. Cardinality(cntrl') = Cardinality(cntrl) - 1
  BY <1>5, <1>7, BasedFinite, FS_RemoveElement DEF TypeOK
<1>9. CountsRight' /\ WholeWhileLive' /\ QuietOutside'
  BY <1>2, <1>5, <1>6, <1>8 DEF CountsRight, WholeWhileLive, QuietOutside
<1>10. FromThisHeld' /\ \A u \in Thread : Destroying(u)' => u = t
  BY <1>2, <1>5 DEF FromThisHeld, Destroying, At, TypeOK
<1>11. pc'[t].at = "delete" /\ pc'[t].i = i + 1
  BY <1>5 DEF At, TypeOK
<1>12. Progress'
  BY <1>2, <1>6, <1>7, <1>10, <1>11 DEF Progress
<1> QED BY <1>9, <1>10, <1>12 DEF LifeCycle

LEMMA NextLifeCycle == TypeOK /\ LifeCycle /\ [Next]_vars => LifeCycle'
<1> SUFFICES ASSUME TypeOK, LifeCycle, [Next]_vars PROVE LifeCycle'
  OBVIOUS
<1>1. ASSUME NEW t \in Thread, NEW r \in Ref, CopyRef(t, r) PROVE LifeCycle'
  BY <1>1, MakeLifeCycle DEF CopyRef
<1>2. ASSUME NEW t \in Thread, NEW r \in Ref, AddShared(t, r) PROVE LifeCycle'
  <2>1. HeldBy(t) # {}
    BY <1>2 DEF AddShared, LifeCycle, FromThisHeld
  <2> QED BY <1>2, <2>1, MakeLifeCycle DEF AddShared
<1>3. CASE UNCHANGED vars
  BY <1>3 DEF vars, counts, LifeCycle, CountsRight, WholeWhileLive, QuietOutside,
              FromThisHeld, Progress, Destroying, Live, HeldBy
<1> QED BY <1>1, <1>2, <1>3, ConstructLifeCycle, MoveRefLifeCycle, SharedFromThisLifeCycle,
           ReleaseSharedLifeCycle, DeleteElementLifeCycle, LoadWeakLifeCycle,
           SubWeakLifeCycle DEF Next, Continue

\* The counts of tuple_ptr.h:28-103 count what they should, whatever threads
\* copy, move and destroy pointers: the inductive invariant.
THEOREM LifeCycleCorrect == Spec => []LifeCycle
  BY InitLifeCycle, NextLifeCycle, TypeCorrect, PTL DEF Spec

\* No layer is deleted and no control block freed while anybody has a pointer
\* (tuple_ptr.h:47-55).
THEOREM UseAfterFreeCorrect == Spec => []NoUseAfterFree
<1>1. LifeCycle => NoUseAfterFree
  BY DEF LifeCycle, WholeWhileLive, NoUseAfterFree
<1> QED BY <1>1, LifeCycleCorrect, PTL

\* The stack is destroyed once, by one thread, and the control block goes last
\* (tuple_ptr.h:84-98, 117-136).
THEOREM DestroyedOnceCorrect == Spec => []DestroyedOnce
<1>1. TypeOK /\ LifeCycle => DestroyedOnce
  <2> SUFFICES ASSUME TypeOK, LifeCycle PROVE DestroyedOnce
    OBVIOUS
  <2>1. ASSUME NEW t \in Thread, NEW u \in Thread, Destroying(t), pc[u].at # "idle"
        PROVE  t = u
    <3>1. pc[u].at \in {"idle", "throw", "from_this", "delete", "load", "sub"}
      BY PCParts DEF TypeOK
    <3>2. t # u => ~Destroying(u) /\ pc[u].at \notin {"throw", "from_this"}
      BY <2>1, DestructionFacts
    <3> QED BY <2>1, <3>1, <3>2 DEF Destroying
  <2>2. \A t \in Thread : pc[t].at = "delete" => alive = pc[t].i..N
    BY DEF LifeCycle, Progress, Destroying
  <2>3. block = "freed" => alive = {} /\ \A t \in Thread : pc[t] = Idle
    BY DEF LifeCycle, QuietOutside
  <2> QED BY <2>1, <2>2, <2>3 DEF DestroyedOnce, Destroying
<1> QED BY <1>1, LifeCycleCorrect, TypeCorrect, PTL

\* shared_from_this does not throw in a handler that has a pointer, although it
\* looks at the count and raises it in two steps (tuple_ptr.h:327-334).
THEOREM BadPtrCorrect == Spec => []NeverBadPtr
<1>1. LifeCycle => NeverBadPtr
  BY DEF LifeCycle, FromThisHeld, NeverBadPtr
<1> QED BY <1>1, LifeCycleCorrect, PTL
=============================================================================
