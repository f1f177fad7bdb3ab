------------------------------ MODULE TuplePtr ------------------------------
(* tuple_ptr, the shared pointer that owns a protocol stack                 *)
(* (implementation/interface/asio_http/internal/tuple_ptr.h): one control   *)
(* block with an owner count and a weak count owns all the layers of a      *)
(* stack.  This module is about one control block and the threads of the    *)
(* io_context that copy, move and destroy pointers to it; every step is one *)
(* operation on an atomic, or one destructor.                               *)
EXTENDS Integers, FiniteSets

CONSTANTS
    Thread,  \* threads that run the io_context
    Ref,     \* tuple_ptr objects (a bound on the live ones)
    N,       \* elements of the tuple: the layers of the stack
    Based,   \* the elements that derive from shared_tuple_base
    Nobody

ASSUME RefAssumption == IsFiniteSet(Ref) /\ Nobody \notin Thread
ASSUME ElementAssumption == N \in Nat /\ Based \subseteq 1..N

VARIABLES
    shared_owners, shared_weak_owners,
    holder,  \* the thread that has each tuple_ptr; Nobody if it is not alive
    alive,   \* elements not destroyed yet
    cntrl,   \* elements whose shared_tuple_base::cntrl is set
    block,   \* the control block is "none" (not created), "allocated" or "freed"
    pc       \* what each thread is doing

counts == <<shared_owners, shared_weak_owners>>
vars == <<counts, holder, alive, cntrl, block, pc>>

-----------------------------------------------------------------------------
Element == 1..N

\* A thread is outside the class, between the two halves of shared_from_this,
\* or inside release_shared: about to delete element i, or in the release_weak
\* of element i (N + 1 stands for the release_weak of release_shared itself).
Idle == [at |-> "idle", i |-> 0]
At(where, i) == [at |-> where, i |-> i]
PC == {Idle, At("throw", 0), At("from_this", 0)}
    \cup {At(where, i) : where \in {"delete", "load", "sub"}, i \in 1..(N + 1)}

Live == {r \in Ref : holder[r] # Nobody}
HeldBy(t) == {r \in Ref : holder[r] = t}

Init ==
    /\ shared_owners = 0 /\ shared_weak_owners = 0
    /\ holder = [r \in Ref |-> Nobody]
    /\ alive = {} /\ cntrl = {}
    /\ block = "none"
    /\ pc = [t \in Thread |-> Idle]

\* Mutant of EnableWeakThis: the weak count is not raised.
EnableWeakThisUncounted(elements) ==
    /\ cntrl' = elements
    /\ shared_weak_owners' = 0

\* Mutant of EnableWeakThis: the constructor counts itself too.
EnableWeakThisOneMore(elements) ==
    /\ cntrl' = elements
    /\ shared_weak_owners' = Cardinality(elements) + 1

\* enable_weak_this on every element of the new tuple.
EnableWeakThis(elements) ==
    /\ cntrl' = elements
    /\ shared_weak_owners' = Cardinality(elements)

\* The constructor from raw pointers.  Nobody else knows the block yet.
Construct(t, r) ==
    /\ block = "none"
    /\ block' = "allocated"
    /\ shared_owners' = 0
    /\ alive' = Element
    /\ EnableWeakThis(Based)
    /\ holder' = [holder EXCEPT ![r] = t]
    /\ UNCHANGED pc

\* The copy constructors and get<N>(): thread t copies a pointer it has.
CopyRef(t, r) ==
    /\ pc[t] = Idle
    /\ HeldBy(t) # {} /\ holder[r] = Nobody
    /\ shared_owners' = shared_owners + 1
    /\ holder' = [holder EXCEPT ![r] = t]
    /\ UNCHANGED <<shared_weak_owners, alive, cntrl, block, pc>>

\* The move constructor: a pointer captured by a handler goes to the thread
\* that will run the handler.
MoveRef(t, r, u) ==
    /\ pc[t] = Idle /\ holder[r] = t
    /\ holder' = [holder EXCEPT ![r] = u]
    /\ UNCHANGED <<counts, alive, cntrl, block, pc>>

\* Mutant of SharedFromThis: the handler has captured this, and no pointer.
SharedFromThisUnheld(t) ==
    /\ pc[t] = Idle
    /\ cntrl # {}
    /\ pc' = [pc EXCEPT ![t] = At(IF shared_owners + 1 = 0 THEN "throw" ELSE "from_this", 0)]
    /\ UNCHANGED <<counts, holder, alive, cntrl, block>>

\* shared_from_this looks at use_count(), and throws bad_ptr if it is zero.
\* A layer calls it in a handler, which has a pointer to the stack.
SharedFromThis(t) ==
    /\ pc[t] = Idle
    /\ HeldBy(t) # {} /\ cntrl # {}
    /\ pc' = [pc EXCEPT ![t] = At(IF shared_owners + 1 = 0 THEN "throw" ELSE "from_this", 0)]
    /\ UNCHANGED <<counts, holder, alive, cntrl, block>>

\* Then it makes the pointer.
AddShared(t, r) ==
    /\ pc[t].at = "from_this"
    /\ holder[r] = Nobody
    /\ shared_owners' = shared_owners + 1
    /\ holder' = [holder EXCEPT ![r] = t]
    /\ pc' = [pc EXCEPT ![t] = Idle]
    /\ UNCHANGED <<shared_weak_owners, alive, cntrl, block>>

\* Mutant of LastOwner: the count is compared as in a count from one.
LastOwnerFromOne == shared_owners = 1

\* fetch_sub returned zero, which is one owner.
LastOwner == shared_owners = 0

\* The destructor: release_shared, up to the decision to destroy the tuple.
\* A handler may not let go of its pointer before it is done.
ReleaseShared(t, r) ==
    /\ pc[t] = Idle /\ holder[r] = t
    /\ shared_owners' = shared_owners - 1
    /\ holder' = [holder EXCEPT ![r] = Nobody]
    /\ pc' = [pc EXCEPT ![t] = IF LastOwner THEN At("delete", 1) ELSE Idle]
    /\ UNCHANGED <<shared_weak_owners, alive, cntrl, block>>

\* There is no element i to delete.
AllDeleted(i) == i > N

\* on_zero_shared deletes the elements in their order; the destructor of
\* shared_tuple_base calls release_weak.  After the last one release_shared
\* gives up the weak reference of the owners.
DeleteElement(t) ==
    /\ pc[t].at = "delete"
    /\ LET i == pc[t].i
       IN IF AllDeleted(i)
          THEN /\ pc' = [pc EXCEPT ![t] = At("load", N + 1)]
               /\ UNCHANGED alive
          ELSE /\ alive' = alive \ {i}
               /\ pc' = [pc EXCEPT ![t] =
                      IF i \in cntrl THEN At("load", i) ELSE At("delete", i + 1)]
    /\ UNCHANGED <<counts, holder, cntrl, block>>

\* Where a thread goes on after release_weak, and which weak reference is gone.
AfterWeak(t) ==
    /\ pc' = [pc EXCEPT ![t] = IF pc[t].i > N THEN Idle ELSE At("delete", pc[t].i + 1)]
    /\ cntrl' = cntrl \ {pc[t].i}

\* release_weak: a weak count of zero needs no atomic decrement.
LoadWeak(t) ==
    /\ pc[t].at = "load"
    /\ IF shared_weak_owners = 0
       THEN block' = "freed" /\ AfterWeak(t)
       ELSE /\ pc' = [pc EXCEPT ![t] = At("sub", pc[t].i)]
            /\ UNCHANGED <<cntrl, block>>
    /\ UNCHANGED <<counts, holder, alive>>

SubWeak(t) ==
    /\ pc[t].at = "sub"
    /\ shared_weak_owners' = shared_weak_owners - 1
    /\ block' = IF shared_weak_owners = 0 THEN "freed" ELSE block
    /\ AfterWeak(t)
    /\ UNCHANGED <<shared_owners, holder, alive>>

-----------------------------------------------------------------------------
\* What a thread has begun.
Continue(t) ==
    \/ \E r \in Ref : AddShared(t, r)
    \/ DeleteElement(t)
    \/ LoadWeak(t)
    \/ SubWeak(t)

Next ==
    \E t \in Thread :
        \/ \E r \in Ref :
              \/ Construct(t, r)
              \/ CopyRef(t, r)
              \/ \E u \in Thread : MoveRef(t, r, u)
              \/ ReleaseShared(t, r)
        \/ SharedFromThis(t)
        \/ Continue(t)

Spec == Init /\ [][Next]_vars

\* A thread finishes what it has begun; it need not let go of its pointers.
FairSpec == Spec /\ \A t \in Thread : WF_vars(Continue(t))

-----------------------------------------------------------------------------
(* Properties.                                                              *)

TypeOK ==
    /\ shared_owners \in Int /\ shared_weak_owners \in Int
    /\ holder \in [Ref -> Thread \cup {Nobody}]
    /\ alive \subseteq Element
    /\ cntrl \subseteq Based
    /\ block \in {"none", "allocated", "freed"}
    /\ pc \in [Thread -> PC]

\* As long as anybody has a pointer to the stack, every layer of it and the
\* control block exist: no handler runs on a layer that has been deleted.
NoUseAfterFree == Live # {} => alive = Element /\ block = "allocated"

\* One thread destroys the stack, no layer is deleted twice, and nobody uses
\* the control block once it has been freed: it goes last.
DestroyedOnce ==
    /\ \A t, u \in Thread :
           pc[t].at \in {"delete", "load", "sub"} /\ pc[u].at # "idle" => t = u
    /\ \A t \in Thread : pc[t].at = "delete" => alive = pc[t].i..N
    /\ block = "freed" => alive = {} /\ \A t \in Thread : pc[t] = Idle

\* shared_from_this throws bad_ptr in no handler.
NeverBadPtr == \A t \in Thread : pc[t].at # "throw"

\* Nothing leaks: once the last pointer is gone all layers are deleted and the
\* control block is freed.
NoLeak == (block = "allocated" /\ Live = {}) ~> block = "freed"

-----------------------------------------------------------------------------
(* The inductive invariant behind the safety properties: what the two       *)
(* counts count, and how far a thread that destroys the tuple has come.     *)

Destroying(t) == pc[t].at \in {"delete", "load", "sub"}

\* shared_owners is one less than the number of pointers; the weak count is
\* the number of elements that still refer to the block.
CountsRight ==
    /\ block # "none" => shared_owners + 1 = Cardinality(Live)
    /\ block = "allocated" => shared_weak_owners = Cardinality(cntrl)

\* The stack is whole as long as there is a pointer, and nobody destroys it.
WholeWhileLive ==
    Live # {} => /\ block = "allocated"
                 /\ alive = Element /\ cntrl = Based
                 /\ \A t \in Thread : ~Destroying(t)

\* Before it is created and after it is freed nobody is busy with the block.
QuietOutside ==
    /\ block # "allocated" => Live = {} /\ \A t \in Thread : pc[t] = Idle
    /\ block = "freed" => alive = {}

\* A thread that makes a pointer from this has one already.
FromThisHeld ==
    \A t \in Thread : pc[t].at # "throw" /\ (pc[t].at = "from_this" => HeldBy(t) # {})

\* One thread destroys the stack, from the first element to the last.
Progress ==
    \A t \in Thread : Destroying(t) =>
        LET i == pc[t].i
        IN /\ \A u \in Thread : Destroying(u) => u = t
           /\ cntrl = Based \cap i..N
           /\ pc[t].at = "delete" => alive = i..N
           /\ pc[t].at # "delete" => alive = (i + 1)..N /\ (i <= N => i \in Based)
           /\ pc[t].at = "sub" => shared_weak_owners # 0

\* The life of a stack: counted, whole, destroyed once and in order (all the
\* parts above together).
LifeCycle ==
    /\ CountsRight
    /\ WholeWhileLive
    /\ QuietOutside
    /\ FromThisHeld
    /\ Progress
=============================================================================
