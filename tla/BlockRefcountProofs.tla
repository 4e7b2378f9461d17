----------------------- MODULE BlockRefcountProofs -----------------------
(***************************************************************************)
(* Proofs about BlockRefcount, for every set of threads and pointers and   *)
(* every even mask.                                                        *)
(***************************************************************************)
EXTENDS BlockRefcount, FiniteSetTheorems, TLAPS

Busy(t) == pc[t] \in Copying \cup Trying \cup Releasing
Disposing == {"dispose", "destruct", "free"}

\* Before the block is on the heap and after it is freed nothing happens to it.
Absent == mem # "heap" =>
    /\ refs = {} /\ ~weak /\ disposer = NoThread
    /\ mem = "stack" => flags = 0
    /\ \A t \in Thread : pc[t] = "idle"

\* The deallocating bit, the disposer and the owners agree.
Disposal ==
    /\ mem = "heap" /\ ~Deallocating(flags) => disposer = NoThread
    /\ mem = "heap" /\ Deallocating(flags) =>
          /\ refs = {}
          /\ disposer \in Thread
          /\ pc[disposer] \in Disposing \cup Copying \cup Releasing
          /\ \A t \in Thread \ {disposer} : pc[t] \in {"idle"} \cup Trying
    /\ mem = "freed" => Deallocating(flags)
    /\ mem = "heap" => flags # 0
    /\ \A t \in Thread : pc[t] \in Disposing => t = disposer
    /\ \A t \in Thread : pc[t] = "free" =>
          ~weak /\ \A u \in Thread : pc[u] \notin Trying

\* Which pointers a thread's operation works on.
PointersOf(t) ==
    /\ pc[t] \in Copying /\ t # disposer =>
          slot[t] \in Ref \ refs /\ pin[t] \in refs
    /\ pc[t] \in Trying => slot[t] \in Ref \ refs /\ pin[t] = NoRef
    /\ pc[t] \in Releasing /\ t # disposer => slot[t] \in refs /\ pin[t] = NoRef
    /\ pc[t] = "idle" \/ t = disposer => slot[t] = NoRef /\ pin[t] = NoRef
Pointers == \A t \in Thread : PointersOf(t)

\* No two threads work on one pointer, except to copy from it.
Exclusive == \A t, u \in Thread : t # u =>
    /\ slot[t] = slot[u] => slot[t] = NoRef
    /\ pin[t] = slot[u] => pin[t] = NoRef

IInv == TypeOK /\ CountExact /\ Absent /\ Disposal /\ Pointers /\ Exclusive
-----------------------------------------------------------------------------
(***************************************************************************)
(* The flags word.                                                         *)
(***************************************************************************)

\* The mask and the deallocating bit split a word; a swap keeps them in range.
LEMMA WordFacts ==
    ASSUME NEW w \in 0 .. Mask + 1
    PROVE  /\ Count(w) \in 0 .. Mask /\ Count(w) % 2 = 0
           /\ Deallocating(w) \in BOOLEAN
           /\ Deallocating(w) => w = Count(w) + 1
           /\ ~Deallocating(w) => w = Count(w)
  BY MaskAssumption DEF Count, Deallocating

\* An increment below the mask adds one reference and keeps the other bit.
LEMMA IncrementFacts ==
    ASSUME NEW w \in 0 .. Mask + 1, ~Latched(w)
    PROVE  /\ Incremented(w) \in 0 .. Mask + 1 /\ Incremented(w) # 0
           /\ Count(Incremented(w)) = Count(w) + 2
           /\ Deallocating(Incremented(w)) = Deallocating(w)
  BY MaskAssumption, WordFacts DEF Incremented, Count, Deallocating, Latched

\* A decrement above zero takes one reference; only the last one, of a word
\* that is not deallocating yet, sets the bit.
LEMMA DecrementFacts ==
    ASSUME NEW w \in 0 .. Mask + 1, Count(w) # 0
    PROVE  /\ Decremented(w) \in 0 .. Mask + 1 /\ Decremented(w) # 0
           /\ LastRelease(w) => ~Deallocating(w) /\ w = 2 /\ Deallocating(Decremented(w))
           /\ ~LastRelease(w) =>
                 /\ Count(Decremented(w)) = Count(w) - 2
                 /\ Deallocating(Decremented(w)) = Deallocating(w)
                 /\ ~Deallocating(w) => Count(w) > 2
  BY MaskAssumption, WordFacts DEF Decremented, LastRelease, Count, Deallocating
-----------------------------------------------------------------------------
(***************************************************************************)
(* Type correctness.  The swap steps need to know that the word a thread   *)
(* loaded was below the mask (and, for a release, above zero; for a weak   *)
(* load, not deallocating).                                                *)
(***************************************************************************)
Loaded == \A t \in Thread :
    /\ pc[t] \in {"copyCAS", "tryCAS"} => ~Latched(old[t])
    /\ pc[t] = "tryCAS" => ~Deallocating(old[t])
    /\ pc[t] = "releaseCAS" => Count(old[t]) \notin {0, Mask}

Typed == TypeOK /\ Loaded

LEMMA InitTyped == Init => Typed
<1> SUFFICES ASSUME Init PROVE TypeOK /\ Loaded
  BY DEF Typed
<1>1. TypeOK
  <2>1. 0 \in 0 .. Mask + 1 /\ 0 \in 0 .. WeakLoads /\ 0 \in 0 .. HelperOps
    BY MaskAssumption, BoundAssumption
  <2>2. QED BY <2>1 DEF Init, TypeOK, PC
<1>2. Loaded
  BY DEF Init, Loaded
<1>3. QED BY <1>1, <1>2

LEMMA NextTyped == Typed /\ [Next]_vars => Typed'
<1> SUFFICES ASSUME TypeOK, Loaded, [Next]_vars PROVE TypeOK' /\ Loaded'
  BY DEF Typed
<1> USE DEF TypeOK, Loaded, PC, Copying, Trying, Releasing, block, bounds,
            Goto, Return, Caller, Filled, Emptied, Helping, Idle
<1>1. CASE UNCHANGED vars
  BY <1>1 DEF vars, Latched, Deallocating
<1>2. ASSUME NEW t \in Thread, Step(t) \/ Call(t) PROVE TypeOK' /\ Loaded'
  <2>1. flags \in 0 .. Mask + 1 /\ old[t] \in 0 .. Mask + 1
    OBVIOUS
  <2>2. CASE \E r \in Ref : CopyFromStack(t, r)
    BY <2>1, <2>2, MaskAssumption DEF CopyFromStack
  <2>3. CASE \E r \in Ref : StoreWeak(t, r)
    BY <2>1, <2>3, MaskAssumption DEF StoreWeak
  <2>4. CASE \E from, to \in Ref : BeginCopy(t, from, to)
    BY <2>1, <2>4, MaskAssumption DEF BeginCopy
  <2>5. CASE HelperCopy(t)
    BY <2>1, <2>5, BoundAssumption DEF HelperCopy
  <2>6. CASE CopyLoad(t)
    BY <2>1, <2>6, MaskAssumption DEF CopyLoad
  <2>7. CASE CopyLatched(t)
    BY <2>1, <2>7, MaskAssumption DEF CopyLatched
  <2>8. CASE CopySwap(t)
    BY <2>1, <2>8, IncrementFacts, MaskAssumption DEF CopySwap
  <2>9. CASE CopyRetry(t)
    BY <2>1, <2>9, MaskAssumption DEF CopyRetry
  <2>10. CASE \E to \in Ref : BeginTryRetain(t, to)
    BY <2>1, <2>10, BoundAssumption DEF BeginTryRetain
  <2>11. CASE TryLoad(t)
    BY <2>1, <2>11, MaskAssumption DEF TryLoad
  <2>12. CASE TryLatched(t)
    BY <2>1, <2>12, MaskAssumption DEF TryLatched
  <2>13. CASE TryRefused(t)
    BY <2>1, <2>13, MaskAssumption DEF TryRefused
  <2>14. CASE TrySwap(t)
    BY <2>1, <2>14, IncrementFacts, MaskAssumption DEF TrySwap
  <2>15. CASE TryRetry(t)
    BY <2>1, <2>15, MaskAssumption DEF TryRetry
  <2>16. CASE \E r \in Ref : BeginRelease(t, r)
    BY <2>1, <2>16, MaskAssumption DEF BeginRelease
  <2>17. CASE HelperRelease(t)
    BY <2>1, <2>17, BoundAssumption DEF HelperRelease
  <2>18. CASE ReleaseLoad(t)
    BY <2>1, <2>18, MaskAssumption DEF ReleaseLoad
  <2>19. CASE ReleaseLatched(t)
    BY <2>1, <2>19, MaskAssumption DEF ReleaseLatched
  <2>20. CASE ReleaseSwap(t)
    BY <2>1, <2>20, DecrementFacts, MaskAssumption DEF ReleaseSwap
  <2>21. CASE ReleaseLast(t)
    BY <2>1, <2>21, DecrementFacts, MaskAssumption DEF ReleaseLast
  <2>22. CASE ReleaseRetry(t)
    BY <2>1, <2>22, MaskAssumption DEF ReleaseRetry
  <2>23. CASE DisposeHelperReturns(t)
    BY <2>1, <2>23, MaskAssumption DEF DisposeHelperReturns
  <2>24. CASE DestructInstance(t)
    BY <2>1, <2>24, MaskAssumption DEF DestructInstance
  <2>25. CASE Free(t)
    BY <2>1, <2>25, MaskAssumption DEF Free
  <2>26. QED BY <1>2, <2>2, <2>3, <2>4, <2>5, <2>6, <2>7, <2>8, <2>9, <2>10, <2>11, <2>12, <2>13, <2>14, <2>15, <2>16, <2>17, <2>18, <2>19, <2>20, <2>21, <2>22, <2>23, <2>24, <2>25 DEF Step, Call
<1>3. QED BY <1>1, <1>2 DEF Next

\* Every behaviour keeps the flags word within 16 bits: the count never runs
\* over BLOCK_REFCOUNT_MASK and no bit above it is touched.
THEOREM TypeCorrect == Spec => []TypeOK
<1>1. Typed => TypeOK BY DEF Typed
<1>2. QED BY InitTyped, NextTyped, <1>1, PTL DEF Spec
-----------------------------------------------------------------------------
(***************************************************************************)
(* The owners.                                                             *)
(***************************************************************************)
LEMMA OwnersFinite ==
    ASSUME TypeOK
    PROVE  IsFiniteSet(refs) /\ Cardinality(refs) \in Nat /\ (Cardinality(refs) = 0 <=> refs = {})
  BY RefAssumption, FS_Subset, FS_CardinalityType, FS_EmptySet DEF TypeOK

\* Filling an empty pointer adds one owner.
LEMMA FilledFacts ==
    ASSUME TypeOK, NEW t \in Thread, slot[t] \in Ref \ refs
    PROVE  Filled(t) = refs \cup {slot[t]} /\ Cardinality(Filled(t)) = Cardinality(refs) + 1
<1>1. Filled(t) = refs \cup {slot[t]}
  BY RefAssumption DEF Filled
<1>2. QED BY <1>1, OwnersFinite, FS_AddElement

\* Emptying a pointer takes one owner away; it was the only one iff none is left.
LEMMA EmptiedFacts ==
    ASSUME TypeOK, NEW t \in Thread, slot[t] \in refs
    PROVE  /\ Cardinality(Emptied(t)) = Cardinality(refs) - 1
           /\ Cardinality(refs) = 1 => Emptied(t) = {}
<1>1. Cardinality(Emptied(t)) = Cardinality(refs) - 1 /\ IsFiniteSet(Emptied(t))
  BY OwnersFinite, FS_RemoveElement DEF Emptied
<1>2. QED BY <1>1, FS_EmptySet

\* A thread inside a call works on a block that is still allocated; unless it is
\* the disposer or a weak load, it works on a live one.
LEMMA Working ==
    ASSUME TypeOK, Absent, Disposal, Pointers, NEW t \in Thread, Busy(t)
    PROVE  /\ mem = "heap"
           /\ t # disposer /\ pc[t] \notin Trying => ~Deallocating(flags) /\ disposer = NoThread
           /\ pc[t] \in Trying => t # disposer
  BY ThreadAssumption DEF TypeOK, Absent, Disposal, Pointers, PointersOf, Busy, Copying, Trying, Releasing, Disposing, PC

\* A pointer that is free to be used is no other operation's.
LEMMA NotInUse ==
    ASSUME NEW r, r \notin InUse, NEW u \in Thread
    PROVE  slot[u] # r /\ pin[u] # r
  BY DEF InUse

LEMMA InitInv == Init => IInv
<1> SUFFICES ASSUME Init PROVE IInv
  OBVIOUS
<1>1. TypeOK BY InitTyped DEF Typed
<1>2. QED BY <1>1 DEF Init, IInv, CountExact, Absent, Disposal, Pointers, PointersOf, Exclusive,
                      Copying, Trying, Releasing, Disposing

LEMMA NextInv == IInv /\ Typed /\ [Next]_vars => IInv'
<1> SUFFICES ASSUME IInv, Typed, [Next]_vars PROVE IInv'
  OBVIOUS
<1> DEFINE Rest == CountExact /\ Absent /\ Disposal /\ Pointers /\ Exclusive
<1>1. TypeOK' BY NextTyped DEF Typed
<1>2. TypeOK /\ Loaded BY DEF Typed
<1> USE DEF IInv, TypeOK, CountExact, Absent, Disposal, Pointers, PointersOf, Exclusive, PC, Disposing,
            Copying, Trying, Releasing, block, bounds,
            Goto, Return, Caller, Helping, Idle
<1>3. CASE UNCHANGED vars
  BY <1>1, <1>3 DEF vars, Latched, Deallocating
<1>4. ASSUME NEW t \in Thread, Step(t) \/ Call(t) PROVE Rest'
  <2>1. CASE \E r \in Ref : CopyFromStack(t, r)
    <3>1. PICK r \in Ref : CopyFromStack(t, r)
      BY <2>1
    <3>2. Cardinality({r}) = 1
      BY FS_Singleton
    <3>3. ~Deallocating(2)
      BY DEF Deallocating
    <3>4. QED BY <1>2, <3>1, <3>2, <3>3, ThreadAssumption DEF CopyFromStack
  <2>2. CASE \E r \in Ref : StoreWeak(t, r)
    BY <1>2, <2>2, ThreadAssumption DEF StoreWeak, Latched, Loaded
  <2>3. CASE \E from, to \in Ref : BeginCopy(t, from, to)
    <3>1. PICK from \in Ref, to \in Ref : BeginCopy(t, from, to)
      BY <2>3
    <3>2. /\ to \notin refs /\ from \in refs
          /\ \A u \in Thread : slot[u] # to /\ pin[u] # to /\ slot[u] # from
      BY <3>1, NotInUse DEF BeginCopy
    <3>3. CountExact' /\ Absent' /\ Disposal'
      BY <1>2, <3>1, <3>2, RefAssumption DEF BeginCopy, Latched
    <3>4. Pointers'
      <4> SUFFICES ASSUME NEW u \in Thread PROVE PointersOf(u)'
        BY DEF Pointers
      <4>1. CASE u = t
        <5>1. pc'[t] = "copy" /\ slot'[t] = to /\ pin'[t] = from /\ refs' = refs
          BY <1>2, <3>1 DEF BeginCopy
        <5>2. t # disposer /\ disposer' = disposer
          BY <1>2, <3>1, ThreadAssumption DEF BeginCopy
        <5>3. PointersOf(t)'
          BY <5>1, <5>2, <3>2
        <5>4. QED BY <4>1, <5>3
      <4>2. CASE u # t
        <5>1. pc'[u] = pc[u] /\ slot'[u] = slot[u] /\ pin'[u] = pin[u]
          BY <4>2, <1>2, <3>1, <3>2, RefAssumption DEF BeginCopy, Latched
        <5>2. (slot[u] = slot[t] => slot[u] = NoRef) /\ (pin[u] = slot[t] => pin[u] = NoRef)
          BY <4>2
        <5>3. QED BY <4>2, <5>1, <5>2, RefAssumption, <1>2, <3>1, <3>2, RefAssumption DEF BeginCopy, Latched
      <4>3. QED BY <4>1, <4>2
    <3>5. Exclusive'
      BY <1>2, <3>1, <3>2, RefAssumption DEF BeginCopy, Latched
    <3>6. QED BY <3>3, <3>4, <3>5
  <2>4. CASE HelperCopy(t)
    BY <1>2, <2>4 DEF HelperCopy, Latched, Loaded
  <2>5. CASE CopyLoad(t)
    BY <1>2, <2>5 DEF CopyLoad, Latched, Loaded
  <2>6. CASE CopyLatched(t)
    <3>1. mem = "heap" /\ (t # disposer => ~Deallocating(flags))
      BY <2>6, Working DEF Busy, CopyLatched
    <3>2. CASE t # disposer
      <4>1. slot[t] \in Ref \ refs
        BY <2>6, <3>2 DEF CopyLatched
      <4>2. refs' = refs \cup {slot[t]}
        BY <2>6, <4>1, FilledFacts DEF CopyLatched
      <4>3. CountExact' /\ ~Deallocating(flags')
        BY <2>6, <3>1, <3>2 DEF CopyLatched, Latched, Deallocating
      <4>4. CountExact' /\ Absent' /\ Disposal'
        BY <1>2, <2>6, <3>1, <3>2, <4>1, <4>2, <4>3 DEF CopyLatched
      <4>5. Pointers'
        <5> SUFFICES ASSUME NEW u \in Thread PROVE PointersOf(u)'
          BY DEF Pointers
        <5>1. CASE u = t
          BY <5>1, <1>2, <2>6, <3>1, <3>2, <4>1, <4>2, <4>3 DEF CopyLatched
        <5>2. CASE u # t
          <6>1. pc'[u] = pc[u] /\ slot'[u] = slot[u] /\ pin'[u] = pin[u]
            BY <5>2, <1>2, <2>6, <3>1, <3>2, <4>1, <4>2, <4>3 DEF CopyLatched
          <6>2. (slot[u] = slot[t] => slot[u] = NoRef) /\ (pin[u] = slot[t] => pin[u] = NoRef)
            BY <5>2
          <6>3. QED BY <5>2, <6>1, <6>2, RefAssumption, <1>2, <2>6, <3>1, <3>2, <4>1, <4>2, <4>3 DEF CopyLatched
        <5>3. QED BY <5>1, <5>2
      <4>6. Exclusive'
        BY <1>2, <2>6, <3>1, <3>2, <4>1, <4>2, <4>3 DEF CopyLatched
      <4>7. QED BY <4>4, <4>5, <4>6
    <3>3. CASE t = disposer
      <4>1. Deallocating(flags) /\ slot[t] = NoRef
        BY <3>1, <3>3, ThreadAssumption
      <4>2. refs' = refs
        BY <2>6, <4>1 DEF CopyLatched, Filled
      <4>3. QED BY <1>2, <2>6, <3>1, <3>3, <4>1, <4>2 DEF CopyLatched
    <3>4. QED BY <3>2, <3>3
  <2>7. CASE CopySwap(t)
    <3>1. mem = "heap" /\ (t # disposer => ~Deallocating(flags))
      BY <2>7, Working DEF Busy, CopySwap
    <3>2. /\ ~Latched(flags) /\ flags' # 0 /\ flags' = Incremented(flags)
          /\ Count(flags') = Count(flags) + 2 /\ Deallocating(flags') = Deallocating(flags)
      BY <1>2, <2>7, IncrementFacts DEF CopySwap, Loaded
    <3>3. CASE t # disposer
      <4>1. slot[t] \in Ref \ refs
        BY <2>7, <3>3 DEF CopySwap
      <4>2. refs' = refs \cup {slot[t]} /\ Cardinality(refs') = Cardinality(refs) + 1
        BY <2>7, <4>1, FilledFacts DEF CopySwap
      <4>3. CountExact' /\ ~Deallocating(flags')
        BY <1>2, <3>1, <3>2, <3>3, <4>2, OwnersFinite DEF Incremented
      <4>4. CountExact' /\ Absent' /\ Disposal'
        BY <1>2, <2>7, <3>1, <3>2, <3>3, <4>1, <4>2, <4>3 DEF CopySwap
      <4>5. Pointers'
        <5> SUFFICES ASSUME NEW u \in Thread PROVE PointersOf(u)'
          BY DEF Pointers
        <5>1. CASE u = t
          BY <5>1, <1>2, <2>7, <3>1, <3>3, <4>1, <4>2, <4>3 DEF CopySwap
        <5>2. CASE u # t
          <6>1. pc'[u] = pc[u] /\ slot'[u] = slot[u] /\ pin'[u] = pin[u]
            BY <5>2, <1>2, <2>7, <3>1, <3>3, <4>1, <4>2, <4>3 DEF CopySwap
          <6>2. (slot[u] = slot[t] => slot[u] = NoRef) /\ (pin[u] = slot[t] => pin[u] = NoRef)
            BY <5>2
          <6>3. QED BY <5>2, <6>1, <6>2, RefAssumption, <1>2, <2>7, <3>1, <3>3, <4>1, <4>2, <4>3 DEF CopySwap
        <5>3. QED BY <5>1, <5>2
      <4>6. Exclusive'
        BY <1>2, <2>7, <3>1, <3>3, <4>1, <4>2, <4>3 DEF CopySwap
      <4>7. QED BY <4>4, <4>5, <4>6
    <3>4. CASE t = disposer
      <4>1. Deallocating(flags) /\ slot[t] = NoRef
        BY <3>1, <3>4, ThreadAssumption
      <4>2. refs' = refs /\ Deallocating(flags')
        BY <2>7, <3>2, <4>1 DEF CopySwap, Filled
      <4>3. QED BY <1>2, <2>7, <3>1, <3>2, <3>4, <4>1, <4>2 DEF CopySwap
    <3>5. QED BY <3>3, <3>4
  <2>8. CASE CopyRetry(t)
    BY <1>2, <2>8 DEF CopyRetry, Latched, Loaded
  <2>9. CASE \E to \in Ref : BeginTryRetain(t, to)
    <3>1. PICK to \in Ref : BeginTryRetain(t, to)
      BY <2>9
    <3>2. to \notin refs /\ \A u \in Thread : slot[u] # to /\ pin[u] # to
      BY <3>1, NotInUse DEF BeginTryRetain
    <3>3. CountExact' /\ Absent' /\ Disposal'
      BY <1>2, <3>1, <3>2, RefAssumption DEF BeginTryRetain, Latched
    <3>4. Pointers'
      <4> SUFFICES ASSUME NEW u \in Thread PROVE PointersOf(u)'
        BY DEF Pointers
      <4>1. CASE u = t
        <5>1. pc'[t] = "try" /\ slot'[t] = to /\ pin'[t] = NoRef /\ refs' = refs
          BY <1>2, <3>1 DEF BeginTryRetain
        <5>2. t # disposer /\ disposer' = disposer
          BY <1>2, <3>1, ThreadAssumption DEF BeginTryRetain
        <5>3. PointersOf(t)'
          BY <5>1, <5>2, <3>2
        <5>4. QED BY <4>1, <5>3
      <4>2. CASE u # t
        <5>1. pc'[u] = pc[u] /\ slot'[u] = slot[u] /\ pin'[u] = pin[u]
          BY <4>2, <1>2, <3>1, <3>2, RefAssumption DEF BeginTryRetain, Latched
        <5>2. (slot[u] = slot[t] => slot[u] = NoRef) /\ (pin[u] = slot[t] => pin[u] = NoRef)
          BY <4>2
        <5>3. QED BY <4>2, <5>1, <5>2, RefAssumption, <1>2, <3>1, <3>2, RefAssumption DEF BeginTryRetain, Latched
      <4>3. QED BY <4>1, <4>2
    <3>5. Exclusive'
      BY <1>2, <3>1, <3>2, RefAssumption DEF BeginTryRetain, Latched
    <3>6. QED BY <3>3, <3>4, <3>5
  <2>10. CASE TryLoad(t)
    BY <1>2, <2>10 DEF TryLoad, Latched, Loaded
  <2>11. CASE TryLatched(t)
    <3>1. mem = "heap" /\ t # disposer
      BY <2>11, Working DEF Busy, TryLatched
    <3>2. slot[t] \in Ref \ refs
      BY <2>11 DEF TryLatched
    <3>3. refs' = refs \cup {slot[t]}
      BY <2>11, <3>2, FilledFacts DEF TryLatched
    <3>4. CountExact' /\ ~Deallocating(flags')
      BY <2>11 DEF TryLatched, Latched, Deallocating
    <3>5. CountExact' /\ Absent' /\ Disposal'
      BY <1>2, <2>11, <3>1, <3>2, <3>3, <3>4 DEF TryLatched
    <3>6. Pointers'
      <4> SUFFICES ASSUME NEW u \in Thread PROVE PointersOf(u)'
        BY DEF Pointers
      <4>1. CASE u = t
        BY <4>1, <1>2, <2>11, <3>1, <3>2, <3>3, <3>4 DEF TryLatched
      <4>2. CASE u # t
        <5>1. pc'[u] = pc[u] /\ slot'[u] = slot[u] /\ pin'[u] = pin[u]
          BY <4>2, <1>2, <2>11, <3>1, <3>2, <3>3, <3>4 DEF TryLatched
        <5>2. (slot[u] = slot[t] => slot[u] = NoRef) /\ (pin[u] = slot[t] => pin[u] = NoRef)
          BY <4>2
        <5>3. QED BY <4>2, <5>1, <5>2, RefAssumption, <1>2, <2>11, <3>1, <3>2, <3>3, <3>4 DEF TryLatched
      <4>3. QED BY <4>1, <4>2
    <3>7. Exclusive'
      BY <1>2, <2>11, <3>1, <3>2, <3>3, <3>4 DEF TryLatched
    <3>8. QED BY <3>5, <3>6, <3>7
  <2>12. CASE TryRefused(t)
    BY <1>2, <2>12 DEF TryRefused, Latched, Loaded
  <2>13. CASE TrySwap(t)
    <3>1. mem = "heap" /\ t # disposer
      BY <2>13, Working DEF Busy, TrySwap
    <3>2. /\ ~Latched(flags) /\ flags' # 0 /\ ~Deallocating(flags) /\ flags' = Incremented(flags)
          /\ Count(flags') = Count(flags) + 2 /\ Deallocating(flags') = Deallocating(flags)
      BY <1>2, <2>13, IncrementFacts DEF TrySwap, Loaded
    <3>3. slot[t] \in Ref \ refs
      BY <2>13 DEF TrySwap
    <3>4. refs' = refs \cup {slot[t]} /\ Cardinality(refs') = Cardinality(refs) + 1
      BY <2>13, <3>3, FilledFacts DEF TrySwap
    <3>5. CountExact' /\ ~Deallocating(flags')
      BY <1>2, <3>1, <3>2, <3>4, OwnersFinite DEF Incremented
    <3>6. CountExact' /\ Absent' /\ Disposal'
      BY <1>2, <2>13, <3>1, <3>2, <3>4, <3>5 DEF TrySwap
    <3>7. Pointers'
      <4> SUFFICES ASSUME NEW u \in Thread PROVE PointersOf(u)'
        BY DEF Pointers
      <4>1. CASE u = t
        BY <4>1, <1>2, <2>13, <3>1, <3>3, <3>4, <3>5 DEF TrySwap
      <4>2. CASE u # t
        <5>1. pc'[u] = pc[u] /\ slot'[u] = slot[u] /\ pin'[u] = pin[u]
          BY <4>2, <1>2, <2>13, <3>1, <3>3, <3>4, <3>5 DEF TrySwap
        <5>2. (slot[u] = slot[t] => slot[u] = NoRef) /\ (pin[u] = slot[t] => pin[u] = NoRef)
          BY <4>2
        <5>3. QED BY <4>2, <5>1, <5>2, RefAssumption, <1>2, <2>13, <3>1, <3>3, <3>4, <3>5 DEF TrySwap
      <4>3. QED BY <4>1, <4>2
    <3>8. Exclusive'
      BY <1>2, <2>13, <3>1, <3>3, <3>4, <3>5 DEF TrySwap
    <3>9. QED BY <3>6, <3>7, <3>8
  <2>14. CASE TryRetry(t)
    BY <1>2, <2>14 DEF TryRetry, Latched, Loaded
  <2>15. CASE \E r \in Ref : BeginRelease(t, r)
    <3>1. PICK r \in Ref : BeginRelease(t, r)
      BY <2>15
    <3>2. r \in refs /\ \A u \in Thread : slot[u] # r /\ pin[u] # r
      BY <3>1, NotInUse DEF BeginRelease
    <3>3. CountExact' /\ Absent' /\ Disposal'
      BY <1>2, <3>1, <3>2, RefAssumption DEF BeginRelease, Latched
    <3>4. Pointers'
      <4> SUFFICES ASSUME NEW u \in Thread PROVE PointersOf(u)'
        BY DEF Pointers
      <4>1. CASE u = t
        <5>1. pc'[t] = "release" /\ slot'[t] = r /\ pin'[t] = NoRef /\ refs' = refs
          BY <1>2, <3>1 DEF BeginRelease
        <5>2. t # disposer /\ disposer' = disposer
          BY <1>2, <3>1, ThreadAssumption DEF BeginRelease
        <5>3. PointersOf(t)'
          BY <5>1, <5>2, <3>2
        <5>4. QED BY <4>1, <5>3
      <4>2. CASE u # t
        <5>1. pc'[u] = pc[u] /\ slot'[u] = slot[u] /\ pin'[u] = pin[u]
          BY <4>2, <1>2, <3>1, <3>2, RefAssumption DEF BeginRelease, Latched
        <5>2. (slot[u] = slot[t] => slot[u] = NoRef) /\ (pin[u] = slot[t] => pin[u] = NoRef)
          BY <4>2
        <5>3. QED BY <4>2, <5>1, <5>2, RefAssumption, <1>2, <3>1, <3>2, RefAssumption DEF BeginRelease, Latched
      <4>3. QED BY <4>1, <4>2
    <3>5. Exclusive'
      BY <1>2, <3>1, <3>2, RefAssumption DEF BeginRelease, Latched
    <3>6. QED BY <3>3, <3>4, <3>5
  <2>16. CASE HelperRelease(t)
    BY <1>2, <2>16 DEF HelperRelease, Latched, Loaded
  <2>17. CASE ReleaseLoad(t)
    BY <1>2, <2>17 DEF ReleaseLoad, Latched, Loaded
  <2>18. CASE ReleaseLatched(t)
    <3>1. mem = "heap" /\ (t # disposer => ~Deallocating(flags))
      BY <2>18, Working DEF Busy, ReleaseLatched
    <3>2. CASE t # disposer
      <4>1. slot[t] \in refs
        BY <2>18, <3>2 DEF ReleaseLatched
      <4>2. Latched(flags)
        BY <2>18, <3>1, <3>2, <4>1, WordFacts, OwnersFinite DEF ReleaseLatched, Latched
      <4>3. CountExact' /\ ~Deallocating(flags')
        BY <2>18, <3>1, <3>2, <4>2 DEF ReleaseLatched, Latched, Deallocating
      <4>4. refs' = refs \ {slot[t]}
        BY <2>18 DEF ReleaseLatched, Emptied
      <4>5. CountExact' /\ Absent' /\ Disposal'
        BY <1>2, <2>18, <3>1, <3>2, <4>1, <4>3, <4>4 DEF ReleaseLatched
      <4>6. Pointers'
        <5> SUFFICES ASSUME NEW u \in Thread PROVE PointersOf(u)'
          BY DEF Pointers
        <5>1. CASE u = t
          BY <5>1, <1>2, <2>18, <3>1, <3>2, <4>1, <4>3, <4>4 DEF ReleaseLatched
        <5>2. CASE u # t
          <6>1. pc'[u] = pc[u] /\ slot'[u] = slot[u] /\ pin'[u] = pin[u]
            BY <5>2, <1>2, <2>18, <3>1, <3>2, <4>1, <4>3, <4>4 DEF ReleaseLatched
          <6>2. (slot[u] = slot[t] => slot[u] = NoRef) /\ (pin[u] = slot[t] => pin[u] = NoRef)
            BY <5>2
          <6>3. QED BY <5>2, <6>1, <6>2, RefAssumption, <1>2, <2>18, <3>1, <3>2, <4>1, <4>3, <4>4 DEF ReleaseLatched
        <5>3. QED BY <5>1, <5>2
      <4>7. Exclusive'
        BY <1>2, <2>18, <3>1, <3>2, <4>1, <4>3, <4>4 DEF ReleaseLatched
      <4>8. QED BY <4>5, <4>6, <4>7
    <3>3. CASE t = disposer
      <4>1. Deallocating(flags) /\ slot[t] = NoRef /\ refs = {}
        BY <3>1, <3>3, ThreadAssumption
      <4>2. refs' = {}
        BY <2>18, <4>1 DEF ReleaseLatched, Emptied
      <4>3. QED BY <1>2, <2>18, <3>1, <3>3, <4>1, <4>2 DEF ReleaseLatched
    <3>4. QED BY <3>2, <3>3
  <2>19. CASE ReleaseSwap(t)
    <3>1. mem = "heap" /\ (t # disposer => ~Deallocating(flags))
      BY <2>19, Working DEF Busy, ReleaseSwap
    <3>2. /\ ~Latched(flags) /\ flags' # 0
          /\ flags' = flags - 2 /\ Deallocating(flags') = Deallocating(flags)
      BY <1>2, <2>19, DecrementFacts DEF ReleaseSwap, Loaded, Latched, Decremented
    <3>3. CASE t # disposer
      <4>1. slot[t] \in refs
        BY <2>19, <3>3 DEF ReleaseSwap
      <4>2. refs' = refs \ {slot[t]} /\ Cardinality(refs') = Cardinality(refs) - 1
        BY <2>19, <4>1, EmptiedFacts DEF ReleaseSwap, Emptied
      <4>3. CountExact' /\ ~Deallocating(flags')
        BY <1>2, <3>1, <3>2, <3>3, <4>2, OwnersFinite DEF Incremented
      <4>4. CountExact' /\ Absent' /\ Disposal'
        BY <1>2, <2>19, <3>1, <3>2, <3>3, <4>1, <4>2, <4>3 DEF ReleaseSwap
      <4>5. Pointers'
        <5> SUFFICES ASSUME NEW u \in Thread PROVE PointersOf(u)'
          BY DEF Pointers
        <5>1. CASE u = t
          BY <5>1, <1>2, <2>19, <3>1, <3>3, <4>1, <4>2, <4>3 DEF ReleaseSwap
        <5>2. CASE u # t
          <6>1. pc'[u] = pc[u] /\ slot'[u] = slot[u] /\ pin'[u] = pin[u]
            BY <5>2, <1>2, <2>19, <3>1, <3>3, <4>1, <4>2, <4>3 DEF ReleaseSwap
          <6>2. (slot[u] = slot[t] => slot[u] = NoRef) /\ (pin[u] = slot[t] => pin[u] = NoRef)
            BY <5>2
          <6>3. QED BY <5>2, <6>1, <6>2, RefAssumption, <1>2, <2>19, <3>1, <3>3, <4>1, <4>2, <4>3 DEF ReleaseSwap
        <5>3. QED BY <5>1, <5>2
      <4>6. Exclusive'
        BY <1>2, <2>19, <3>1, <3>3, <4>1, <4>2, <4>3 DEF ReleaseSwap
      <4>7. QED BY <4>4, <4>5, <4>6
    <3>4. CASE t = disposer
      <4>1. Deallocating(flags) /\ slot[t] = NoRef /\ refs = {}
        BY <3>1, <3>4, ThreadAssumption
      <4>2. refs' = {} /\ Deallocating(flags')
        BY <2>19, <3>2, <4>1 DEF ReleaseSwap, Emptied
      <4>3. QED BY <1>2, <2>19, <3>1, <3>2, <3>4, <4>1, <4>2 DEF ReleaseSwap
    <3>5. QED BY <3>3, <3>4
  <2>20. CASE ReleaseLast(t)
    <3>1. flags = 2 /\ ~Deallocating(flags) /\ ~Latched(flags) /\ Deallocating(flags') /\ flags' # 0
      BY <1>2, <2>20, DecrementFacts DEF ReleaseLast, Loaded, Latched
    <3>2. mem = "heap" /\ disposer = NoThread /\ t # disposer
      BY <2>20, <3>1, ThreadAssumption, Working DEF Busy, ReleaseLast
    <3>3. slot[t] \in refs /\ pin[t] = NoRef
      BY <2>20, <3>2 DEF ReleaseLast
    <3>4. Cardinality(refs) = 1
      BY <1>2, <3>1, <3>2, OwnersFinite
    <3>5. refs' = {} /\ refs = {slot[t]}
      <4>1. refs' = Emptied(t)
        BY <2>20 DEF ReleaseLast
      <4>2. QED BY <3>3, <3>4, <4>1, EmptiedFacts DEF Emptied
    <3>6. \A u \in Thread \ {t} : pc[u] \in {"idle"} \cup Trying
      <4> SUFFICES ASSUME NEW u \in Thread \ {t} PROVE pc[u] \in {"idle"} \cup Trying
        OBVIOUS
      <4>1. u # disposer /\ pc[u] \notin Disposing
        BY <3>2, ThreadAssumption
      <4>2. slot[t] # NoRef /\ slot[u] # slot[t] /\ pin[u] # slot[t]
        BY <1>2, <3>3, RefAssumption
      <4>3. pc[u] \notin Copying \cup Releasing
        BY <3>5, <4>1, <4>2
      <4>4. QED BY <1>2, <4>1, <4>3
    <3>7. CountExact' /\ Absent' /\ Disposal'
      BY <1>2, <2>20, <3>1, <3>2, <3>3, <3>5, <3>6 DEF ReleaseLast
    <3>8. Pointers'
      <4> SUFFICES ASSUME NEW u \in Thread PROVE PointersOf(u)'
        BY DEF Pointers
      <4>1. CASE u = t
        BY <4>1, <1>2, <2>20, <3>1, <3>2, <3>3, <3>5, <3>6 DEF ReleaseLast
      <4>2. CASE u # t
        <5>1. pc'[u] = pc[u] /\ slot'[u] = slot[u] /\ pin'[u] = pin[u]
          BY <4>2, <1>2, <2>20, <3>1, <3>2, <3>3, <3>5, <3>6 DEF ReleaseLast
        <5>2. (slot[u] = slot[t] => slot[u] = NoRef) /\ (pin[u] = slot[t] => pin[u] = NoRef)
          BY <4>2
        <5>3. QED BY <4>2, <5>1, <5>2, RefAssumption, <1>2, <2>20, <3>1, <3>2, <3>3, <3>5, <3>6 DEF ReleaseLast
      <4>3. QED BY <4>1, <4>2
    <3>9. Exclusive'
      BY <1>2, <2>20, <3>1, <3>2, <3>3, <3>5, <3>6 DEF ReleaseLast
    <3>10. QED BY <3>7, <3>8, <3>9
  <2>21. CASE ReleaseRetry(t)
    BY <1>2, <2>21 DEF ReleaseRetry, Latched, Loaded
  <2>22. CASE DisposeHelperReturns(t)
    BY <1>2, <2>22 DEF DisposeHelperReturns, Latched, Loaded
  <2>23. CASE DestructInstance(t)
    BY <1>2, <2>23 DEF DestructInstance, Latched, Loaded
  <2>24. CASE Free(t)
    BY <1>2, <2>24, ThreadAssumption DEF Free, Latched, Loaded
  <2>25. QED BY <1>4, <2>1, <2>2, <2>3, <2>4, <2>5, <2>6, <2>7, <2>8, <2>9, <2>10, <2>11, <2>12, <2>13, <2>14, <2>15, <2>16, <2>17, <2>18, <2>19, <2>20, <2>21, <2>22, <2>23, <2>24 DEF Step, Call
<1>5. QED BY <1>1, <1>3, <1>4 DEF Next

\* The inductive invariant holds in every reachable state.
LEMMA Invariance == Spec => [](IInv /\ Typed)
<1>1. Init => IInv /\ Typed
  BY InitInv, InitTyped
<1>2. (IInv /\ Typed) /\ [Next]_vars => (IInv /\ Typed)'
  BY NextInv, NextTyped
<1>3. QED BY <1>1, <1>2, PTL DEF Spec
-----------------------------------------------------------------------------
(***************************************************************************)
(* The theorems.                                                           *)
(***************************************************************************)

\* A freed block is out of everybody's reach: no owner, no weak reference, no
\* thread between two steps of a call on it.
THEOREM MemorySafe == Spec => []NoUseAfterFree
<1>1. IInv => NoUseAfterFree
  BY DEF IInv, Absent, NoUseAfterFree, Idle
<1>2. QED BY <1>1, Invariance, PTL

\* The count of a live block that never latched is the number of its owners,
\* for any number of racing copies, releases and weak loads.
THEOREM Exact == Spec => []CountExact
<1>1. IInv => CountExact
  BY DEF IInv
<1>2. QED BY <1>1, Invariance, PTL

\* A weak load never brings back a block that is being disposed of.
THEOREM Dead == Spec => []NoResurrection
<1>1. IInv => NoResurrection
  BY DEF IInv, Disposal, NoResurrection
<1>2. QED BY <1>1, Invariance, PTL

\* What one step does to the deallocating bit and to a latched count.
LEMMA WordSteps ==
    ASSUME IInv, Typed, [Next]_vars
    PROVE  /\ Deallocating(flags) => Deallocating(flags')
           /\ disposer # NoThread /\ mem' = "heap" => disposer' = disposer
           /\ Latched(flags) => flags' = flags
           /\ mem = "heap" => mem' \in {"heap", "freed"}
<1> USE DEF block, bounds, Return
<1>1. CASE UNCHANGED vars
  BY <1>1 DEF IInv, TypeOK, vars, Deallocating
<1>2. ASSUME NEW t \in Thread, Step(t) \/ Call(t)
      PROVE  /\ Deallocating(flags) => Deallocating(flags')
             /\ disposer # NoThread /\ mem' = "heap" => disposer' = disposer
             /\ Latched(flags) => flags' = flags
             /\ mem = "heap" => mem' \in {"heap", "freed"}
  <2> USE DEF IInv, TypeOK, Deallocating
  <2>1. CASE \E r \in Ref : CopyFromStack(t, r)
    <3>1. flags = 0 /\ disposer = NoThread
      BY <2>1 DEF CopyFromStack, Absent
    <3>2. ~Deallocating(flags) /\ ~Latched(flags)
      BY <3>1, MaskAssumption DEF Latched, Count
    <3>3. QED BY <2>1, <3>1, <3>2 DEF CopyFromStack
  <2>2. CASE CopySwap(t) \/ TrySwap(t)
    BY <2>2, IncrementFacts DEF CopySwap, TrySwap, Typed, Loaded, Trying
  <2>3. CASE ReleaseSwap(t)
    BY <2>3, DecrementFacts DEF ReleaseSwap, Typed, Loaded, Latched
  <2>4. CASE ReleaseLast(t)
    <3>1. ~Deallocating(flags) /\ ~Latched(flags) /\ Deallocating(flags')
      BY <2>4, DecrementFacts DEF ReleaseLast, Typed, Loaded, Latched
    <3>2. disposer = NoThread
      BY <2>4, <3>1, ThreadAssumption, Working DEF Busy, ReleaseLast, Releasing, Disposal, Absent
    <3>3. QED BY <2>4, <3>1, <3>2 DEF ReleaseLast
  <2>5. CASE \/ CopyLoad(t) \/ CopyLatched(t) \/ CopyRetry(t)
             \/ TryLoad(t) \/ TryLatched(t) \/ TryRefused(t) \/ TryRetry(t)
             \/ ReleaseLoad(t) \/ ReleaseLatched(t) \/ ReleaseRetry(t)
             \/ DisposeHelperReturns(t) \/ DestructInstance(t) \/ Free(t)
             \/ HelperCopy(t) \/ HelperRelease(t)
    BY <2>5 DEF CopyLoad, CopyLatched, CopyRetry, TryLoad, TryLatched, TryRefused,
                TryRetry, ReleaseLoad, ReleaseLatched, ReleaseRetry,
                DisposeHelperReturns, DestructInstance, Free, HelperCopy, HelperRelease
  <2>6. CASE \/ \E r \in Ref : StoreWeak(t, r) \/ BeginRelease(t, r)
             \/ \E from, to \in Ref : BeginCopy(t, from, to)
             \/ \E to \in Ref : BeginTryRetain(t, to)
    BY <2>6 DEF StoreWeak, BeginRelease, BeginCopy, BeginTryRetain
  <2>7. QED BY <1>2, <2>1, <2>2, <2>3, <2>4, <2>5, <2>6 DEF Step, Call
<1>3. QED BY <1>1, <1>2 DEF Next

\* Disposal of a block starts once, and its bit is never lost.
THEOREM DisposedOnlyOnce == Spec => DisposedOnce
<1>1. IInv /\ Typed /\ [Next]_vars =>
        [ /\ Deallocating(flags) => Deallocating(flags')
          /\ disposer # NoThread /\ mem' = "heap" => disposer' = disposer ]_vars
  BY WordSteps
<1>2. QED BY <1>1, Invariance, PTL DEF Spec, DisposedOnce

\* A count that reached the mask stays there.
THEOREM LatchedCountStays == Spec => LatchedForever
<1>1. IInv /\ Typed /\ [Next]_vars =>
        [Latched(flags) /\ ~Deallocating(flags) => flags' = flags]_vars
  BY WordSteps
<1>2. QED BY <1>1, Invariance, PTL DEF Spec, LatchedForever
-----------------------------------------------------------------------------
(***************************************************************************)
(* BlockRefcount implements BlockLifetime.                                 *)
(***************************************************************************)
Leaked == Latched(flags) /\ ~Deallocating(flags)

\* A step that neither moves owners nor the phase is a stuttering step.
LEMMA Stutter ==
    ASSUME refs' = refs, mem' = mem, mem = "heap" => Deallocating(flags') = Deallocating(flags),
           Leaked' = Leaked
    PROVE  UNCHANGED Lifetime!vars
<1>1. Phase' = Phase
  BY DEF Phase
<1>2. QED BY <1>1 DEF Lifetime!vars, Leaked

\* A swap that counts a copy or a weak load of a live block is an acquisition.
LEMMA AcquireStep ==
    ASSUME IInv, Typed, NEW t \in Thread, CopySwap(t) \/ TrySwap(t) \/ CopyLatched(t) \/ TryLatched(t),
           t # disposer
    PROVE  Lifetime!Acquire(slot[t])
<1> USE DEF IInv, Return, Busy, Copying, Trying, Releasing
<1>1. mem = "heap" /\ ~Deallocating(flags) /\ mem' = "heap"
  <2>1. CASE CopySwap(t) \/ CopyLatched(t)
    BY <2>1, Working DEF CopySwap, CopyLatched
  <2>2. CASE TrySwap(t)
    BY <2>2, Working DEF TrySwap, Typed, Loaded
  <2>3. CASE TryLatched(t)
    BY <2>3, Working DEF TryLatched
  <2>4. QED BY <2>1, <2>2, <2>3
<1>2. slot[t] \in Ref \ refs /\ refs' = refs \cup {slot[t]}
  <2>1. slot[t] \in Ref \ refs
    BY DEF CopySwap, TrySwap, CopyLatched, TryLatched, Pointers, PointersOf
  <2>2. refs' = Filled(t)
    BY DEF CopySwap, TrySwap, CopyLatched, TryLatched
  <2>3. QED BY <2>1, <2>2, FilledFacts
<1>3. ~Deallocating(flags') /\ (Latched(flags) => Latched(flags'))
  <2>1. CASE CopySwap(t) \/ TrySwap(t)
    BY <1>1, <2>1, IncrementFacts DEF CopySwap, TrySwap, Typed, Loaded, TypeOK
  <2>2. CASE CopyLatched(t) \/ TryLatched(t)
    BY <1>1, <2>2 DEF CopyLatched, TryLatched, Latched, Deallocating
  <2>3. QED BY <2>1, <2>2
<1>4. refs # {} \/ Latched(flags)
  <2>1. CASE Latched(flags)
    BY <2>1
  <2>2. CASE ~Latched(flags)
    <3>1. flags = 2 * Cardinality(refs)
      BY <1>1, <2>2 DEF CountExact
    <3>2. CASE CopySwap(t) \/ CopyLatched(t)
      BY <3>2 DEF CopySwap, CopyLatched, Pointers, PointersOf
    <3>3. CASE TrySwap(t) \/ TryLatched(t)
      BY <1>1, <3>1, OwnersFinite DEF Disposal
    <3>4. QED BY <3>2, <3>3
  <2>3. QED BY <2>1, <2>2
<1>5. Phase = "live" /\ Phase' = "live"
  BY <1>1, <1>3 DEF Phase
<1>6. QED BY <1>1, <1>2, <1>3, <1>4, <1>5 DEF Lifetime!Acquire, Leaked

\* A release that leaves the block alive, by an owner of it, drops one owner.
LEMMA DropStep ==
    ASSUME IInv, Typed, NEW t \in Thread, t # disposer,
           ReleaseSwap(t) \/ ReleaseLatched(t)
    PROVE  Lifetime!Drop(slot[t])
<1> USE DEF IInv, Return, Releasing
<1>1. mem = "heap" /\ ~Deallocating(flags) /\ mem' = "heap"
  BY Working DEF Busy, ReleaseSwap, ReleaseLatched, Trying
<1>2. slot[t] \in refs /\ refs' = refs \ {slot[t]}
  BY DEF ReleaseSwap, ReleaseLatched, Emptied, Pointers, PointersOf
<1>3. ~Deallocating(flags') /\ Latched(flags') = Latched(flags)
  <2>1. CASE ReleaseSwap(t)
    BY <1>1, <2>1, DecrementFacts, WordFacts DEF ReleaseSwap, Typed, Loaded, TypeOK, Latched
  <2>2. CASE ReleaseLatched(t)
    BY <1>1, <2>2 DEF ReleaseLatched, Latched, Deallocating
  <2>3. QED BY <2>1, <2>2
<1>4. refs # {slot[t]} \/ Latched(flags)
  <2> SUFFICES ASSUME refs = {slot[t]}, ~Latched(flags) PROVE FALSE
    OBVIOUS
  <2>1. flags = 2
    BY <1>1, FS_Singleton DEF CountExact
  <2>2. CASE ReleaseSwap(t)
    BY <2>1, <2>2 DEF ReleaseSwap, LastRelease
  <2>3. CASE ReleaseLatched(t)
    BY <2>1, <2>3, MaskAssumption DEF ReleaseLatched, Count
  <2>4. QED BY <2>2, <2>3
<1>5. Phase = "live" /\ Phase' = "live"
  BY <1>1, <1>3 DEF Phase
<1>6. QED BY <1>1, <1>2, <1>3, <1>4, <1>5 DEF Lifetime!Drop, Leaked

\* The last release ends the block's life.
LEMMA LastDropStep ==
    ASSUME IInv, Typed, NEW t \in Thread, ReleaseLast(t)
    PROVE  Lifetime!Drop(slot[t])
<1> USE DEF IInv
<1>1. ~Deallocating(flags) /\ ~Latched(flags) /\ Deallocating(flags') /\ flags = 2
  BY DecrementFacts DEF ReleaseLast, Typed, Loaded, Latched, TypeOK
<1>2. mem = "heap" /\ mem' = "heap" /\ t # disposer
  BY <1>1, ThreadAssumption, Working DEF Busy, ReleaseLast, Releasing, Disposal
<1>3. slot[t] \in refs /\ Cardinality(refs) = 1
  BY <1>1, <1>2, OwnersFinite DEF ReleaseLast, Pointers, PointersOf, Releasing, CountExact
<1>4. refs' = refs \ {slot[t]} /\ refs = {slot[t]}
  BY <1>3, EmptiedFacts DEF ReleaseLast, Emptied
<1>5. Phase = "live" /\ Phase' = "ended"
  BY <1>1, <1>2 DEF Phase
<1>6. QED BY <1>1, <1>3, <1>4, <1>5 DEF Lifetime!Drop, Leaked

LEMMA RefinementInit == Init => Lifetime!Init
  BY MaskAssumption DEF Init, Lifetime!Init, Phase, Latched, Count

\* Calls of the dispose helper on its own block change nothing an owner sees.
LEMMA HelperStep ==
    ASSUME IInv, Typed, NEW t \in Thread, t = disposer,
           CopySwap(t) \/ CopyLatched(t) \/ ReleaseSwap(t) \/ ReleaseLatched(t)
    PROVE  UNCHANGED Lifetime!vars
<1> USE DEF IInv, Return
<1>1. mem = "heap" /\ mem' = "heap" /\ Deallocating(flags) /\ refs = {} /\ slot[t] = NoRef
  BY Working, ThreadAssumption DEF Busy, CopySwap, CopyLatched, ReleaseSwap, ReleaseLatched,
     Copying, Releasing, Disposal, Pointers, PointersOf
<1>2. refs' = refs
  BY <1>1 DEF CopySwap, CopyLatched, ReleaseSwap, ReleaseLatched, Filled, Emptied
<1>3. Deallocating(flags')
  BY <1>1, IncrementFacts, DecrementFacts
     DEF CopySwap, CopyLatched, ReleaseSwap, ReleaseLatched, Typed, Loaded, TypeOK, Latched,
         Deallocating
<1>4. QED BY <1>1, <1>2, <1>3, Stutter DEF Leaked

LEMMA RefinementStep == IInv /\ Typed /\ [Next]_vars => [Lifetime!Next]_(Lifetime!vars)
<1> SUFFICES ASSUME IInv, Typed, [Next]_vars PROVE Lifetime!Next \/ UNCHANGED Lifetime!vars
  OBVIOUS
<1>1. CASE UNCHANGED vars
  BY <1>1, Stutter DEF vars, Leaked, Latched, Deallocating, Count
<1>2. ASSUME NEW t \in Thread, Step(t) \/ Call(t)
      PROVE  Lifetime!Next \/ UNCHANGED Lifetime!vars
  <2>1. CASE \E r \in Ref : CopyFromStack(t, r)
    <3>1. PICK r \in Ref : CopyFromStack(t, r)
      BY <2>1
    <3>2. flags = 0 /\ ~Latched(0) /\ ~Latched(2) /\ ~Deallocating(2)
      BY <3>1, MaskAssumption DEF CopyFromStack, IInv, Absent, Latched, Count, Deallocating
    <3>3. refs = {} /\ refs' = {r} /\ Phase = "unborn" /\ Phase' = "live"
      BY <3>1, <3>2 DEF CopyFromStack, IInv, Absent, Phase
    <3>4. Lifetime!Create(r)
      BY <3>1, <3>2, <3>3 DEF CopyFromStack, Lifetime!Create
    <3>5. QED BY <3>4 DEF Lifetime!Next
  <2>2. CASE CopySwap(t) \/ CopyLatched(t) \/ TrySwap(t) \/ TryLatched(t)
    <3>1. CASE t = disposer
      <4>1. CopySwap(t) \/ CopyLatched(t)
        BY <2>2, <3>1, Working DEF TrySwap, TryLatched, IInv, Busy, Trying
      <4>2. QED BY <3>1, <4>1, HelperStep
    <3>2. CASE t # disposer
      <4>1. slot[t] \in Ref
        BY <2>2, <3>2 DEF IInv, Pointers, PointersOf, CopySwap, CopyLatched, TrySwap,
                          TryLatched, Copying, Trying
      <4>2. QED BY <2>2, <3>2, <4>1, AcquireStep DEF Lifetime!Next
    <3>3. QED BY <3>1, <3>2
  <2>3. CASE ReleaseSwap(t) \/ ReleaseLatched(t)
    <3>1. CASE t = disposer
      BY <2>3, <3>1, HelperStep
    <3>2. CASE t # disposer
      <4>1. slot[t] \in Ref
        BY <2>3, <3>2 DEF IInv, TypeOK, Pointers, PointersOf, ReleaseSwap, ReleaseLatched, Releasing
      <4>2. QED BY <2>3, <3>2, <4>1, DropStep DEF Lifetime!Next
    <3>3. QED BY <3>1, <3>2
  <2>4. CASE ReleaseLast(t)
    <3>1. Lifetime!Drop(slot[t])
      BY <2>4, LastDropStep
    <3>2. slot[t] \in Ref
      BY <3>1 DEF Lifetime!Drop, IInv, TypeOK
    <3>3. QED BY <3>1, <3>2 DEF Lifetime!Next
  <2>5. CASE Free(t)
    <3>1. mem = "heap" /\ Deallocating(flags)
      BY <2>5, ThreadAssumption DEF Free, IInv, Absent, Disposal, Disposing
    <3>2. Lifetime!Reclaim
      BY <2>5, <3>1 DEF Free, Lifetime!Reclaim, Phase, Latched, Deallocating, Count
    <3>3. QED BY <3>2 DEF Lifetime!Next
  <2>6. CASE \/ CopyLoad(t) \/ CopyRetry(t) \/ TryLoad(t) \/ TryRefused(t) \/ TryRetry(t)
             \/ ReleaseLoad(t) \/ ReleaseRetry(t) \/ DisposeHelperReturns(t)
             \/ DestructInstance(t) \/ HelperCopy(t) \/ HelperRelease(t)
             \/ \E r \in Ref : StoreWeak(t, r) \/ BeginRelease(t, r)
             \/ \E from, to \in Ref : BeginCopy(t, from, to)
             \/ \E to \in Ref : BeginTryRetain(t, to)
    <3>1. refs' = refs /\ mem' = mem /\ flags' = flags
      BY <2>6 DEF block, CopyLoad, CopyRetry, TryLoad, TryRefused, TryRetry, ReleaseLoad,
                  ReleaseRetry, DisposeHelperReturns, DestructInstance, HelperCopy,
                  HelperRelease, StoreWeak, BeginRelease, BeginCopy, BeginTryRetain
    <3>2. QED BY <3>1, Stutter DEF Leaked, Latched, Deallocating, Count
  <2>7. QED BY <1>2, <2>1, <2>2, <2>3, <2>4, <2>5, <2>6 DEF Step, Call
<1>3. QED BY <1>1, <1>2 DEF Next

\* Every behaviour of the compare-and-swap loops, whatever the interleaving, is
\* one of the atomic ownership protocol.
THEOREM ImplementsLifetime == Spec => RefinesLifetime
  BY RefinementInit, RefinementStep, Invariance, PTL DEF Spec, RefinesLifetime, Lifetime!Spec
=============================================================================
