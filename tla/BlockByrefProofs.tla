-------------------------- MODULE BlockByrefProofs --------------------------
(***************************************************************************)
(* BlockByref for any number of threads, heap blocks and writes and every  *)
(* even mask, when one thread at most runs code of the frame: the variable *)
(* moves to the heap once, its count is exact, and everybody reads there   *)
(* what was written last.                                                  *)
(***************************************************************************)
EXTENDS BlockByref, FiniteSetTheorems, TLAPS

\* No helpers of dispatch_apply in the frame.
OneInFrame == \A t, u \in FrameThreads : t = u

\* The variable's structure, once it has one on the heap.
Moved == fwd[Stack] \in Heap
Releasing == {"load", "assert", "decr", "destroy"}

\* What each step of a call has in hand: a call made in the frame has the frame's
\* structure, and one made in a block, or for it, the heap's.
InFrame(t) == src[t] = Stack /\ t \in FrameThreads
OnHeap(t) == src[t] = fwd[Stack] /\ Moved
Work(t) ==
    /\ pc[t] \in Copying <=> blk[t] # Nil
    /\ pc[t] \in Copying =>
          \/ InFrame(t) /\ frame = "open"
          \/ pc[t] \in {"check", "incr", "return"} /\ OnHeap(t) /\ pin[t] # Nil
    /\ pc[t] \in {"alloc", "publish"} => fwd[Stack] = Stack
    /\ pc[t] \in {"data", "incr", "return"} => Moved
    /\ pc[t] = "publish" => copy[t] \in Heap /\ memory[copy[t]] = "live" /\ flags[copy[t]] = 4
    /\ pc[t] = "data" => copy[t] = fwd[Stack] /\ \A b \in Block : captured[b] = Nil
    /\ pc[t] \in Releasing => (InFrame(t) /\ frame = "closing") \/ OnHeap(t)
    /\ pc[t] \in {"assert", "decr", "destroy"} => copy[t] = fwd[Stack] /\ Moved
WorkOK == \A t \in Thread : Work(t)

\* Blocks point to the heap; nobody runs a block that points nowhere, or fills in one
\* that another thread fills in.
BlocksOK ==
    /\ \A b \in Block : captured[b] # Nil => captured[b] = fwd[Stack] /\ Moved
    /\ \A t \in Thread : pin[t] # Nil => captured[pin[t]] # Nil
    /\ \A t \in Thread : blk[t] # Nil => captured[blk[t]] = Nil
    /\ \A t, u \in Thread : blk[t] = blk[u] /\ blk[t] # Nil => t = u

\* There is one copy, which forwards to itself.
StructsOK ==
    /\ flags[Stack] = 0
    /\ \A h \in Heap : memory[h] # "unused" => fwd[h] = h /\ (h = fwd[Stack] \/ Unpublished(h))
    /\ Moved => memory[fwd[Stack]] # "unused"

\* The last value is in the frame until it is copied.
Copied == Moved /\ \A t \in Thread : pc[t] # "data"
DataOK == data[IF Copied THEN fwd[Stack] ELSE Stack] = written

\* The life of the heap copy: latched, counted, given up by all, freed.
Held(h) == Cardinality(FrameCount(h)) + Cardinality(Blocks(h)) + Cardinality(Calls(h))
Undisturbed == \A t \in Thread : pc[t] # "destroy"
Phase(h) ==
    \/ memory[h] = "live" /\ flags[h] = Mask /\ Undisturbed
    \/ memory[h] = "live" /\ flags[h] = 2 * Held(h) /\ Held(h) # 0 /\ 2 * Held(h) <= Mask /\ Undisturbed
    \/ /\ memory[h] = "live" /\ flags[h] = 1 /\ Held(h) = 0
       /\ \A t, u \in Thread : pc[t] = "destroy" /\ pc[u] = "destroy" => t = u
    \/ memory[h] = "freed" /\ Held(h) = 0 /\ Undisturbed
PhaseOK == \A h \in Heap : h = fwd[Stack] => Phase(h)

IInv == TypeOK /\ WorkOK /\ BlocksOK /\ StructsOK /\ DataOK /\ PhaseOK

-----------------------------------------------------------------------------
(* Facts about words, counts and the state that the steps rest on.         *)

LEMMA Distinct == Stack \notin Heap /\ Nil \notin Struct /\ Nil \notin Block /\ Heap \subseteq Struct
                  /\ Stack \in Struct
  BY ByrefAssumption DEF Struct

\* A word whose deallocating bit is clear.
LEMMA EvenWord ==
    ASSUME NEW n \in Nat, 2 * n <= Mask
    PROVE  /\ 2 * n \in Word /\ Count(2 * n) = 2 * n
           /\ 2 * n # Mask => Retained(2 * n) = 2 * (n + 1) /\ 2 * (n + 1) <= Mask
           /\ n = 1 => ShouldDeallocate(2 * n) /\ Released(2 * n) = 1
           /\ n # 0 /\ n # 1 => ~ShouldDeallocate(2 * n)
           /\ n # 0 /\ n # 1 /\ 2 * n # Mask => Released(2 * n) = 2 * (n - 1)
<1>1. Mask \in Nat /\ Mask >= 4 /\ Mask % 2 = 0
  BY MaskAssumption
<1>2. (2 * n) % 2 = 0
  OBVIOUS
<1>3. Count(2 * n) = 2 * n /\ 2 * n \in Word
  BY <1>1, <1>2 DEF Count, Word
<1>4. 2 * n # Mask => 2 * (n + 1) <= Mask
  BY <1>1, <1>2
<1>5. 2 * n # Mask => Retained(2 * n) = 2 * (n + 1)
  BY <1>1, <1>3 DEF Retained, Latched, Incremented
<1>6. n = 1 => ShouldDeallocate(2 * n) /\ Released(2 * n) = 1
  BY <1>1, <1>3 DEF ShouldDeallocate, Released, Saturated, LastRelease, Decremented
<1>7. n # 0 /\ n # 1 => ~ShouldDeallocate(2 * n)
  BY <1>1, <1>3 DEF ShouldDeallocate, Saturated, LastRelease
<1>8. n # 0 /\ n # 1 /\ 2 * n # Mask => Released(2 * n) = 2 * (n - 1)
  BY <1>1, <1>3 DEF Released, Saturated, LastRelease, Decremented
<1> QED BY <1>3, <1>4, <1>5, <1>6, <1>7, <1>8

\* A latched word stays as it is, and neither 0 nor a deallocating word counts.
LEMMA OtherWords ==
    /\ Mask \in Word /\ Count(Mask) = Mask /\ Latched(Mask) /\ Mask # 0
    /\ Retained(Mask) = Mask /\ Released(Mask) = Mask /\ ~ShouldDeallocate(Mask)
    /\ 4 \in Word /\ 4 = 2 * 2 /\ 4 <= Mask
    /\ 0 \in Word /\ Count(0) = 0 /\ 1 \in Word /\ Count(1) = 0
<1>1. Mask \in Nat /\ Mask >= 4 /\ Mask % 2 = 0
  BY MaskAssumption
<1>2. Count(Mask) = Mask /\ Count(0) = 0 /\ Count(1) = 0
  BY <1>1 DEF Count
<1> QED BY <1>1, <1>2 DEF Word, Latched, Retained, Released, Saturated, ShouldDeallocate

\* The program's operations never leave the word.
LEMMA WordKept == ASSUME NEW w \in Word PROVE Retained(w) \in Word /\ Released(w) \in Word
<1>1. Mask \in Nat /\ Mask >= 4 /\ Mask % 2 = 0 /\ w \in Nat /\ w <= Mask + 1
  BY MaskAssumption DEF Word
<1>2. /\ w % 2 = 0 => Count(w) = w
      /\ w % 2 # 0 => Count(w) = w - 1 /\ w # 0
  BY <1>1 DEF Count
<1>3. Count(w) # Mask => w + 2 <= Mask + 1
  <2>1. CASE w % 2 = 0
    BY <1>1, <1>2, <2>1
  <2>2. CASE w % 2 # 0
    BY <1>1, <1>2, <2>2
  <2> QED BY <2>1, <2>2
<1>4. Count(w) # 0 => w - 2 \in Nat /\ w - 1 \in Nat
  <2>1. CASE w % 2 = 0
    BY <1>1, <1>2, <2>1
  <2>2. CASE w % 2 # 0
    BY <1>1, <1>2, <2>2
  <2> QED BY <2>1, <2>2
<1>5. Retained(w) \in Word
  BY <1>1, <1>3 DEF Retained, Latched, Incremented, Word
<1>6. Released(w) \in Word
  BY <1>1, <1>4 DEF Released, Saturated, Decremented, LastRelease, Word
<1> QED BY <1>5, <1>6

\* The three sets that are counted are finite.
LEMMA CountsAreNat ==
    ASSUME NEW h \in Heap
    PROVE  /\ IsFiniteSet(FrameCount(h)) /\ IsFiniteSet(Blocks(h)) /\ IsFiniteSet(Calls(h))
           /\ Cardinality(FrameCount(h)) \in Nat /\ Cardinality(Blocks(h)) \in Nat
           /\ Cardinality(Calls(h)) \in Nat /\ Held(h) \in Nat
           /\ Held(h) = 0 <=> FrameCount(h) = {} /\ Blocks(h) = {} /\ Calls(h) = {}
<1>1. IsFiniteSet(FrameCount(h)) /\ IsFiniteSet(Blocks(h)) /\ IsFiniteSet(Calls(h))
  <2>1. FrameCount(h) \subseteq {Stack} /\ Blocks(h) \subseteq Block /\ Calls(h) \subseteq Thread
    BY DEF FrameCount, Blocks, Calls
  <2>2. IsFiniteSet({Stack})
    BY FS_Singleton
  <2> QED BY <2>1, <2>2, FS_Subset, ByrefAssumption
<1>2. /\ Cardinality(FrameCount(h)) \in Nat /\ (Cardinality(FrameCount(h)) = 0 <=> FrameCount(h) = {})
      /\ Cardinality(Blocks(h)) \in Nat /\ (Cardinality(Blocks(h)) = 0 <=> Blocks(h) = {})
      /\ Cardinality(Calls(h)) \in Nat /\ (Cardinality(Calls(h)) = 0 <=> Calls(h) = {})
  BY <1>1, FS_CardinalityType, FS_EmptySet
<1>3. \A i, j, k \in Nat : i + j + k \in Nat /\ (i + j + k = 0 <=> i = 0 /\ j = 0 /\ k = 0)
  OBVIOUS
<1> QED BY <1>1, <1>2, <1>3 DEF Held

\* The same set, one more element, one less.
LEMMA OneMore ==
    ASSUME NEW S, NEW x, IsFiniteSet(S), x \notin S
    PROVE  Cardinality(S \cup {x}) = Cardinality(S) + 1
  BY FS_AddElement

LEMMA OneLess ==
    ASSUME NEW S, NEW x, IsFiniteSet(S), x \in S
    PROVE  Cardinality(S \ {x}) = Cardinality(S) - 1 /\ Cardinality(S) \in Nat /\ Cardinality(S) # 0
  BY FS_RemoveElement, FS_CardinalityType, FS_EmptySet
-----------------------------------------------------------------------------
(* What the invariant says of a call and of the copy.                      *)

\* A call works on the structure of the frame or on the one it forwards to.
LEMMA InHand ==
    ASSUME TypeOK, WorkOK, StructsOK, NEW t \in Thread, pc[t] # "idle"
    PROVE  /\ src[t] \in {Stack, fwd[Stack]} /\ fwd[src[t]] = fwd[Stack] /\ src[t] \in Struct
           /\ fwd[Stack] \in Struct
           /\ pc[t] \in {"publish", "data", "assert", "decr", "destroy"} => copy[t] \in Heap
           /\ src[t] = Stack => InFrame(t)
<1>1. Work(t) /\ pc[t] \in Copying \cup Releasing /\ Stack \in Struct /\ fwd[Stack] \in Struct
      /\ Stack \notin Heap
  BY Distinct DEF WorkOK, TypeOK, PC, Copying, Releasing
<1>2. InFrame(t) \/ OnHeap(t)
  BY <1>1 DEF Work
<1>3. OnHeap(t) => fwd[fwd[Stack]] = fwd[Stack] /\ src[t] # Stack
  BY <1>1 DEF OnHeap, Moved, StructsOK
<1>4. pc[t] \in {"publish", "data", "assert", "decr", "destroy"} => copy[t] \in Heap
  BY <1>1 DEF Work, Moved
<1> QED BY <1>1, <1>2, <1>3, <1>4 DEF InFrame, OnHeap

\* Who makes the copy is alone: nobody else copies, and before the copy is published
\* nobody else calls.
LEMMA Alone ==
    ASSUME OneInFrame, TypeOK, WorkOK, BlocksOK, NEW t \in Thread, NEW u \in Thread \ {t},
           pc[t] \in {"alloc", "publish", "data"}
    PROVE  /\ InFrame(t) /\ frame = "open" /\ ~InFrame(u)
           /\ pc[u] \notin Copying
           /\ pc[t] # "data" => pc[u] = "idle" /\ ~Moved
           /\ \A b \in Block : captured[b] = Nil
<1>1. Work(t) /\ Work(u) /\ pc[t] \in Copying
  BY DEF WorkOK, Copying
<1>2. InFrame(t) /\ frame = "open"
  BY <1>1 DEF Work
<1>3. ~InFrame(u)
  BY <1>2 DEF InFrame, OneInFrame
<1>4. pc[t] # "data" => ~Moved
  BY <1>1, Distinct DEF Work, Moved
<1>5. \A b \in Block : captured[b] = Nil
  BY <1>1, <1>4 DEF Work, BlocksOK
<1>6. pin[u] = Nil
  BY <1>5 DEF BlocksOK, TypeOK
<1>7. pc[u] \notin Copying
  BY <1>1, <1>3, <1>6 DEF Work
<1>8. ~Moved => pc[u] \notin Releasing
  BY <1>1, <1>3 DEF Work, OnHeap
<1>9. pc[u] \in {"idle"} \cup Copying \cup Releasing
  BY DEF TypeOK, PC, Copying, Releasing
<1> QED BY <1>2, <1>3, <1>4, <1>5, <1>7, <1>8, <1>9

\* Code that runs in the frame or in a block holds the copy, and so does a call that is
\* counted.
LEMMA Holders ==
    ASSUME TypeOK, WorkOK, BlocksOK, StructsOK, PhaseOK, NEW t \in Thread, Moved,
           \/ pc[t] \in Copying
           \/ t \in Calls(fwd[Stack])
    PROVE  LET h == fwd[Stack]
           IN  /\ Held(h) \in Nat /\ Held(h) # 0 /\ memory[h] = "live" /\ Undisturbed
               /\ flags[h] = Mask \/ (flags[h] = 2 * Held(h) /\ 2 * Held(h) <= Mask)
<1>1. PICK h \in Heap : h = fwd[Stack]
  BY DEF Moved
<1>2. FrameCount(h) # {} \/ Blocks(h) # {} \/ Calls(h) # {}
  <2>1. CASE pc[t] \in Copying /\ frame = "open"
    BY <1>1, <2>1 DEF FrameCount
  <2>2. CASE pc[t] \in Copying /\ pin[t] # Nil
    <3>1. pin[t] \in Block /\ captured[pin[t]] # Nil
      BY <2>2 DEF TypeOK, BlocksOK
    <3>2. captured[pin[t]] = h
      BY <1>1, <3>1 DEF BlocksOK
    <3> QED BY <3>1, <3>2 DEF Blocks
  <2>3. CASE t \in Calls(fwd[Stack])
    BY <1>1, <2>3
  <2> QED BY <2>1, <2>2, <2>3 DEF WorkOK, Work
<1>3. Held(h) \in Nat /\ Held(h) # 0
  BY <1>2, CountsAreNat
<1>4. Phase(h)
  BY <1>1 DEF PhaseOK
<1>5. /\ memory[h] = "live" /\ Undisturbed
      /\ flags[h] = Mask \/ (flags[h] = 2 * Held(h) /\ 2 * Held(h) <= Mask)
  BY <1>3, <1>4 DEF Phase
<1> QED BY <1>1, <1>3, <1>5
-----------------------------------------------------------------------------
(* Types, and what a step of a thread leaves alone.                        *)

\* The other threads' own variables.
Others(t) == \A u \in Thread \ {t} :
    /\ pc'[u] = pc[u] /\ src'[u] = src[u] /\ copy'[u] = copy[u] /\ blk'[u] = blk[u]
    /\ pin'[u] = pin[u]

LEMMA StepTyped ==
    ASSUME TypeOK, WorkOK, StructsOK, NEW t \in Thread, Step(t) \/ Call(t)
    PROVE  TypeOK' /\ Others(t)
<1> USE Distinct DEF TypeOK, Others, byref, thread, Idle, Goto, PC
<1>1. /\ pc[t] # "idle" => src[t] \in Struct /\ fwd[src[t]] \in Struct
      /\ pc[t] \in {"publish", "data", "assert", "decr", "destroy"} => copy[t] \in Struct
      /\ pc[t] = "return" => blk[t] \in Block
  BY InHand DEF WorkOK, Work, Copying
<1>2. CASE CheckForwarding(t)
  BY <1>2 DEF CheckForwarding
<1>3. ASSUME NEW h \in Heap, Allocate(t, h) PROVE TypeOK' /\ Others(t)
  BY <1>3, OtherWords DEF Allocate
<1>4. CASE Publish(t)
  BY <1>1, <1>4 DEF Publish
<1>5. CASE CopyData(t)
  BY <1>1, <1>5 DEF CopyData
<1>6. CASE Increment(t)
  BY <1>1, <1>6, WordKept DEF Increment
<1>7. CASE Return(t)
  BY <1>1, <1>7 DEF Return
<1>8. CASE LoadForwarding(t)
  BY <1>1, <1>8 DEF LoadForwarding
<1>9. CASE NotOnHeap(t)
  BY <1>9 DEF NotOnHeap, Finish, FrameAfter
<1>10. CASE AssertRefcount(t)
  BY <1>10 DEF AssertRefcount
<1>11. CASE Decrement(t)
  BY <1>1, <1>11, WordKept DEF Decrement, Finish, FrameAfter
<1>12. CASE DecrementLast(t)
  BY <1>1, <1>12, WordKept DEF DecrementLast
<1>13. CASE Destroy(t)
  BY <1>1, <1>13 DEF Destroy, Finish, FrameAfter
<1>14. ASSUME NEW b \in Block, Enter(t, b) PROVE TypeOK' /\ Others(t)
  BY <1>14 DEF Enter
<1>15. CASE Leave(t)
  BY <1>15 DEF Leave
<1>16. CASE Write(t)
  <2>1. written + 1 \in 0 .. MaxWrites
    BY <1>16, ByrefAssumption DEF Write
  <2> QED BY <1>16, <2>1 DEF Write
<1>17. ASSUME NEW b \in Block, BeginCopy(t, b) PROVE TypeOK' /\ Others(t)
  BY <1>17 DEF BeginCopy
<1>18. ASSUME NEW b \in Block, BeginRelease(t, b) PROVE TypeOK' /\ Others(t)
  BY <1>18 DEF BeginRelease
<1>19. CASE CloseFrame(t)
  BY <1>19 DEF CloseFrame
<1> QED BY <1>2, <1>3, <1>4, <1>5, <1>6, <1>7, <1>8, <1>9, <1>10, <1>11, <1>12, <1>13, <1>14, <1>15,
           <1>16, <1>17, <1>18, <1>19 DEF Step, Call
-----------------------------------------------------------------------------
(* The calls in progress.                                                  *)

\* A thread that does not move keeps what it has in hand, unless the frame, the
\* forwarding pointer, its new copy or the blocks change under it.
LEMMA WorkStays ==
    ASSUME TypeOK, TypeOK', NEW t \in Thread, Others(t), NEW u \in Thread \ {t}, Work(u),
           InFrame(u) => frame' = frame,
           pc[u] # "idle" => fwd'[Stack] = fwd[Stack],
           pc[u] = "publish" => flags'[copy[u]] = flags[copy[u]] /\ memory'[copy[u]] = memory[copy[u]],
           pc[u] = "data" => \A b \in Block : captured'[b] = Nil
    PROVE  Work(u)'
<1>1. /\ pc'[u] = pc[u] /\ src'[u] = src[u] /\ copy'[u] = copy[u] /\ blk'[u] = blk[u]
      /\ pin'[u] = pin[u]
  BY DEF Others
<1>2. CASE pc[u] = "idle"
  BY <1>1, <1>2 DEF Work, Copying, Releasing
<1>3. CASE pc[u] # "idle"
  BY <1>1, <1>3 DEF Work, InFrame, OnHeap, Moved
<1> QED BY <1>2, <1>3

LEMMA StepWork ==
    ASSUME OneInFrame, IInv, TypeOK', NEW t \in Thread, Step(t) \/ Call(t), Others(t)
    PROVE  WorkOK'
<1> USE DEF IInv
<1>1. Work(t) /\ \A u \in Thread : Work(u)
  BY DEF WorkOK
<1>0. Work(t)
  BY <1>1
<1>2. ASSUME \A u \in Thread \ {t} :
               /\ InFrame(u) => frame' = frame
               /\ pc[u] # "idle" => fwd'[Stack] = fwd[Stack]
               /\ pc[u] = "publish" => /\ flags'[copy[u]] = flags[copy[u]]
                                       /\ memory'[copy[u]] = memory[copy[u]]
               /\ pc[u] = "data" => \A b \in Block : captured'[b] = Nil,
             Work(t)'
      PROVE  WorkOK'
  BY <1>1, <1>2, WorkStays DEF WorkOK
\* Steps of one thread that change nothing the others look at.
<1>3. ASSUME UNCHANGED <<frame, fwd, flags, memory, captured>>, Work(t)' PROVE WorkOK'
  BY <1>1, <1>2, <1>3 DEF Work
<1>4. pc[t] # "idle" => /\ src[t] \in {Stack, fwd[Stack]} /\ fwd[src[t]] = fwd[Stack]
                        /\ src[t] = Stack => InFrame(t)
  BY InHand
<1>5. fwd[Stack] \in Struct /\ Stack \notin Heap /\ pc[t] \in PC /\ Nil \notin Struct
      /\ blk[t] \in Block \cup {Nil} /\ pin[t] \in Block \cup {Nil} /\ Nil \notin Block
  BY Distinct DEF TypeOK
<1> USE DEF Idle, Goto, byref, thread
<1>6. CASE CheckForwarding(t)
  <2>1. pc[t] = "check" /\ pc' = [pc EXCEPT ![t] = IF Count(flags[fwd[Stack]]) = 0 THEN "alloc" ELSE "incr"]
        /\ UNCHANGED <<frame, byref, captured, src, copy, blk, pin>>
    BY <1>4, <1>6 DEF CheckForwarding
  <2>2. Count(flags[fwd[Stack]]) = 0 <=> ~Moved
    <3>1. CASE Moved
      <4> DEFINE n == Held(fwd[Stack])
      <4>1. /\ n \in Nat /\ n # 0
            /\ flags[fwd[Stack]] = Mask \/ (flags[fwd[Stack]] = 2 * n /\ 2 * n <= Mask)
        BY <2>1, <3>1, Holders DEF Copying
      <4> HIDE DEF n
      <4>2. 2 * n <= Mask => Count(2 * n) = 2 * n
        BY <4>1, EvenWord
      <4> QED BY <3>1, <4>1, <4>2, OtherWords
    <3>2. CASE ~Moved
      BY <1>5, <3>2, OtherWords DEF Moved, StructsOK, Struct
    <3> QED BY <3>1, <3>2
  <2>3. pc'[t] = (IF Moved THEN "incr" ELSE "alloc")
    BY <2>1, <2>2 DEF TypeOK
  <2>4. Work(t)'
    BY <1>1, <1>5, <2>1, <2>3 DEF Work, InFrame, OnHeap, Moved, Struct, Copying, Releasing
  <2> QED BY <1>3, <2>1, <2>4
<1>7. ASSUME NEW h \in Heap, Allocate(t, h) PROVE WorkOK'
  <2>1. /\ pc[t] = "alloc" /\ memory[h] = "unused" /\ fwd'[Stack] = fwd[Stack]
        /\ frame' = frame /\ captured' = captured
        /\ memory'[h] = "live" /\ flags'[h] = 4 /\ copy'[t] = h /\ pc'[t] = "publish"
        /\ src'[t] = src[t] /\ blk'[t] = blk[t] /\ pin'[t] = pin[t]
    BY <1>5, <1>7 DEF Allocate, TypeOK, Struct
  <2>2. Work(t)'
    BY <1>0, <1>5, <2>1 DEF Work, InFrame, Copying, Releasing
  <2>3. \A u \in Thread \ {t} : pc[u] = "idle"
    BY <2>1, Alone
  <2> QED BY <1>2, <2>1, <2>2, <2>3
<1>8. CASE Publish(t)
  <2>1. pc[t] = "publish" /\ src[t] = Stack /\ captured' = captured /\ frame' = frame
        /\ (\A u \in Thread \ {t} : pc[u] = "idle") /\ (\A b \in Block : captured[b] = Nil)
    BY <1>0, <1>5, <1>8, Alone DEF Publish, InFrame, Work, Copying, BlocksOK, Moved
  <2>2. fwd'[Stack] = copy[t] /\ copy[t] \in Heap /\ pc'[t] = "data" /\ copy'[t] = copy[t]
        /\ src'[t] = src[t] /\ blk'[t] = blk[t] /\ pin'[t] = pin[t]
    BY <1>1, <1>5, <1>8, <2>1 DEF Publish, TypeOK, Work
  <2>3. Work(t)'
    BY <1>1, <1>5, <2>1, <2>2 DEF Work, InFrame, OnHeap, Moved, Copying, Releasing
  <2> QED BY <1>2, <2>1, <2>3
<1>9. CASE CopyData(t)
  <2>1. pc[t] = "data" /\ pc'[t] = "return"
        /\ UNCHANGED <<frame, fwd, flags, memory, captured, src, copy, blk, pin>>
    BY <1>9 DEF CopyData, TypeOK
  <2>2. Work(t)'
    BY <1>1, <2>1 DEF Work, InFrame, OnHeap, Moved, Copying, Releasing
  <2> QED BY <1>3, <2>1, <2>2
<1>10. CASE Increment(t)
  <2>1. pc[t] = "incr" /\ pc'[t] = "return" /\ flags' = [flags EXCEPT ![fwd[Stack]] = Retained(@)]
        /\ UNCHANGED <<frame, fwd, memory, captured, src, copy, blk, pin>>
    BY <1>4, <1>10 DEF Increment, TypeOK
  <2>2. Work(t)'
    BY <1>1, <2>1 DEF Work, InFrame, OnHeap, Moved, Copying, Releasing
  <2>3. \A u \in Thread : pc[u] # "publish"
    BY <1>1, <1>5, <2>1 DEF Work, Moved
  <2>4. \A u \in Thread : pc[u] = "data" => \A b \in Block : captured[b] = Nil
    BY <1>1 DEF Work
  <2> QED BY <1>2, <2>1, <2>2, <2>3, <2>4
<1>11. CASE Return(t)
  <2>1. pc[t] = "return" /\ pc'[t] = "idle" /\ blk'[t] = Nil
        /\ captured' = [captured EXCEPT ![blk[t]] = fwd[Stack]]
        /\ UNCHANGED <<frame, fwd, flags, memory, pin>>
    BY <1>4, <1>11 DEF Return, TypeOK
  <2>2. Work(t)'
    BY <1>1, <2>1 DEF Work, Copying, Releasing
  <2>3. ASSUME NEW u \in Thread \ {t}, pc[u] = "data" PROVE FALSE
    BY <2>1, <2>3, Alone DEF Copying
  <2> QED BY <1>2, <2>1, <2>2, <2>3
<1>12. CASE LoadForwarding(t)
  <2>1. pc[t] = "load" /\ pc'[t] = "assert" /\ fwd[Stack] # Stack /\ copy'[t] = fwd[Stack]
        /\ UNCHANGED <<frame, fwd, flags, memory, captured, src, blk, pin>>
    BY <1>4, <1>12 DEF LoadForwarding, TypeOK
  <2>2. Work(t)'
    BY <1>1, <1>5, <2>1 DEF Work, InFrame, OnHeap, Moved, Copying, Releasing, Struct
  <2> QED BY <1>3, <2>1, <2>2
<1>13. CASE AssertRefcount(t)
  <2>1. pc[t] = "assert" /\ pc'[t] = "decr"
        /\ UNCHANGED <<frame, fwd, flags, memory, captured, src, copy, blk, pin>>
    BY <1>13 DEF AssertRefcount, TypeOK
  <2>2. Work(t)'
    BY <1>1, <2>1 DEF Work, InFrame, OnHeap, Moved, Copying, Releasing
  <2> QED BY <1>3, <2>1, <2>2
\* The release that ends changes the count and the memory of the copy that is published.
<1>14. ASSUME pc[t] \in Releasing, pc'[t] \in {"idle", "destroy"},
              pc'[t] = "destroy" => copy[t] = fwd[Stack] /\ Moved /\ copy'[t] = copy[t] /\ src'[t] = src[t]
                                    /\ frame' = frame,
              pc[t] # "load" => Moved,
              \A k \in Heap : k # fwd[Stack] => flags'[k] = flags[k] /\ memory'[k] = memory[k],
              frame' = FrameAfter(t) \/ frame' = frame,
              UNCHANGED <<fwd, captured, blk, pin>>,
              pc[t] = "load" => UNCHANGED <<flags, memory>>
       PROVE  WorkOK'
  <2>1. ASSUME NEW u \in Thread \ {t}, InFrame(u) PROVE frame' = frame
    BY <1>4, <1>14, <2>1 DEF FrameAfter, InFrame, OneInFrame, Releasing
  <2>2. ASSUME NEW u \in Thread \ {t}, pc[u] = "publish"
        PROVE  flags'[copy[u]] = flags[copy[u]] /\ memory'[copy[u]] = memory[copy[u]]
    BY <1>1, <1>5, <1>14, <2>2 DEF Work, Moved
  <2>3. \A u \in Thread : pc[u] = "data" => \A b \in Block : captured[b] = Nil
    BY <1>1 DEF Work
  <2>4. Work(t)'
    BY <1>1, <1>5, <1>14 DEF Work, InFrame, OnHeap, Moved, Copying, Releasing
  <2> QED BY <1>2, <1>14, <2>1, <2>2, <2>3, <2>4
<1>15. CASE NotOnHeap(t)
  BY <1>14, <1>15 DEF NotOnHeap, Finish, TypeOK, Releasing
<1>16. pc[t] \in {"decr", "destroy"} => copy[t] = fwd[Stack] /\ Moved
  BY <1>1 DEF Work
<1>17. CASE Decrement(t)
  BY <1>14, <1>16, <1>17 DEF Decrement, Finish, TypeOK, Releasing
<1>18. CASE DecrementLast(t)
  BY <1>14, <1>16, <1>18 DEF DecrementLast, TypeOK, Releasing
<1>19. CASE Destroy(t)
  BY <1>14, <1>16, <1>19 DEF Destroy, Finish, TypeOK, Releasing
<1>20. \A u \in Thread : pc[u] = "data" => \A b \in Block : captured[b] = Nil
  BY <1>1 DEF Work
<1>21. ASSUME NEW b \in Block, Enter(t, b) PROVE WorkOK'
  <2>1. pc[t] = "idle" /\ UNCHANGED <<frame, fwd, flags, memory, captured, pc, src, copy, blk>>
    BY <1>21 DEF Enter
  <2>2. Work(t)'
    BY <1>0, <2>1 DEF Work, Copying, Releasing
  <2> QED BY <1>3, <2>1, <2>2
<1>22. CASE Leave(t)
  <2>1. pc[t] = "idle" /\ UNCHANGED <<frame, fwd, flags, memory, captured, pc, src, copy, blk>>
    BY <1>22 DEF Leave
  <2>2. Work(t)'
    BY <1>0, <2>1 DEF Work, Copying, Releasing
  <2> QED BY <1>3, <2>1, <2>2
<1>23. CASE Write(t)
  <2>1. pc[t] = "idle" /\ UNCHANGED <<frame, fwd, flags, memory, captured, pc, src, copy, blk>>
    BY <1>23 DEF Write
  <2>2. Work(t)'
    BY <1>0, <2>1 DEF Work, Copying, Releasing
  <2> QED BY <1>3, <2>1, <2>2
<1>24. ASSUME NEW b \in Block, BeginCopy(t, b) PROVE WorkOK'
  <2>1. /\ pc'[t] = "check" /\ blk'[t] = b /\ Reaches(t, src'[t])
        /\ UNCHANGED <<frame, fwd, flags, memory, captured, copy, pin>>
    BY <1>24 DEF BeginCopy, TypeOK
  <2>2. \/ InFrame(t)' /\ frame = "open"
        \/ OnHeap(t)' /\ pin[t] # Nil
    <3>1. CASE src'[t] = Stack /\ t \in FrameThreads /\ frame = "open"
      BY <3>1 DEF InFrame
    <3>2. ASSUME NEW c \in Block, pin[t] = c, src'[t] = captured[c]
          PROVE  OnHeap(t)' /\ pin[t] # Nil
      <4>1. captured[c] # Nil
        BY <1>5, <3>2 DEF BlocksOK
      <4>2. captured[c] = fwd[Stack] /\ Moved
        BY <4>1 DEF BlocksOK
      <4> QED BY <1>5, <2>1, <3>2, <4>2 DEF OnHeap, Moved
    <3> QED BY <2>1, <3>1, <3>2 DEF Reaches
  <2>3. Work(t)'
    BY <1>5, <2>1, <2>2 DEF Work, Copying, Releasing
  <2> QED BY <1>3, <2>1, <2>3
<1>25. ASSUME NEW b \in Block, BeginRelease(t, b) PROVE WorkOK'
  <2>1. /\ captured[b] # Nil /\ src'[t] = captured[b] /\ pc'[t] = "load" /\ pc[t] = "idle"
        /\ captured' = [captured EXCEPT ![b] = Nil]
        /\ UNCHANGED <<frame, fwd, flags, memory, copy, blk, pin>>
    BY <1>25 DEF BeginRelease, Owned, TypeOK
  <2>2. OnHeap(t)'
    BY <2>1 DEF BlocksOK, OnHeap, Moved
  <2>3. Work(t)'
    BY <1>0, <2>1, <2>2 DEF Work, Copying, Releasing
  <2>4. \A c \in Block : captured[c] = Nil => captured'[c] = Nil
    BY <2>1 DEF TypeOK
  <2> QED BY <1>2, <1>20, <2>1, <2>3, <2>4
<1>26. CASE CloseFrame(t)
  <2>1. /\ t \in FrameThreads /\ src'[t] = Stack /\ pc'[t] = "load" /\ pc[t] = "idle"
        /\ frame = "open" /\ frame' = "closing"
        /\ UNCHANGED <<fwd, flags, memory, captured, copy, blk, pin>>
    BY <1>26 DEF CloseFrame, TypeOK
  <2>2. Work(t)'
    BY <1>0, <2>1 DEF Work, InFrame, Copying, Releasing
  <2>3. \A u \in Thread \ {t} : ~InFrame(u)
    BY <2>1 DEF InFrame, OneInFrame
  <2> QED BY <1>2, <1>20, <2>1, <2>2, <2>3
<1> QED BY <1>6, <1>7, <1>8, <1>9, <1>10, <1>11, <1>12, <1>13, <1>15, <1>17, <1>18, <1>19, <1>21,
           <1>22, <1>23, <1>24, <1>25, <1>26 DEF Step, Call
-----------------------------------------------------------------------------
(* The blocks and the structures.                                          *)

LEMMA StepBlocks ==
    ASSUME OneInFrame, IInv, TypeOK', NEW t \in Thread, Step(t) \/ Call(t), Others(t)
    PROVE  BlocksOK'
<1> USE DEF IInv
<1>1. /\ Work(t) /\ fwd[Stack] \in Struct /\ Stack \notin Heap /\ Nil \notin Block /\ Nil \notin Struct
      /\ \A u \in Thread : blk[u] \in Block \cup {Nil} /\ pin[u] \in Block \cup {Nil}
      /\ captured \in [Block -> Struct \cup {Nil}]
      /\ pin \in [Thread -> Block \cup {Nil}] /\ blk \in [Thread -> Block \cup {Nil}]
      /\ fwd \in [Struct -> Struct] /\ Stack \in Struct
  BY Distinct DEF TypeOK, WorkOK
<1>2. pc[t] # "idle" => fwd[src[t]] = fwd[Stack]
  BY InHand
<1>3. ASSUME UNCHANGED <<captured, blk, pin>>, fwd'[Stack] = fwd[Stack] PROVE BlocksOK'
  BY <1>3 DEF BlocksOK, Moved
<1> USE DEF byref, thread
<1>4. ASSUME NEW h \in Heap, Allocate(t, h) PROVE BlocksOK'
  BY <1>1, <1>3, <1>4 DEF Allocate
<1>5. CASE Publish(t)
  <2>1. UNCHANGED <<captured, blk, pin>> /\ fwd[Stack] = Stack
    BY <1>1, <1>5 DEF Publish, Work
  <2>2. \A b \in Block : captured[b] = Nil
    BY <1>1, <2>1 DEF BlocksOK, Moved
  <2> QED BY <2>1, <2>2 DEF BlocksOK
<1>6. CASE Return(t)
  <2>1. /\ pc[t] = "return" /\ blk[t] \in Block /\ Moved
        /\ captured' = [captured EXCEPT ![blk[t]] = fwd[Stack]] /\ blk' = [blk EXCEPT ![t] = Nil]
        /\ fwd' = fwd /\ pin' = pin
    BY <1>1, <1>2, <1>6 DEF Return, Work, Copying
  <2>2. \A b \in Block : captured'[b] = IF b = blk[t] THEN fwd[Stack] ELSE captured[b]
    BY <1>1, <2>1
  <2>3. \A u \in Thread : blk'[u] = IF u = t THEN Nil ELSE blk[u]
    BY <1>1, <2>1
  <2>4. \A b \in Block : captured'[b] # Nil => captured'[b] = fwd'[Stack] /\ Moved'
    BY <2>1, <2>2 DEF BlocksOK, Moved
  <2>5. \A u \in Thread : pin'[u] # Nil => captured'[pin'[u]] # Nil
    BY <1>1, <2>1, <2>2 DEF BlocksOK
  <2>6. \A u \in Thread : blk'[u] # Nil => captured'[blk'[u]] = Nil
    BY <1>1, <2>1, <2>2, <2>3 DEF BlocksOK
  <2>7. \A u, v \in Thread : blk'[u] = blk'[v] /\ blk'[u] # Nil => u = v
    BY <2>3 DEF BlocksOK
  <2> QED BY <2>4, <2>5, <2>6, <2>7 DEF BlocksOK
<1>7. ASSUME NEW b \in Block, Enter(t, b) PROVE BlocksOK'
  <2>1. captured[b] # Nil /\ UNCHANGED <<fwd, captured, blk>> /\ pin' = [pin EXCEPT ![t] = b]
    BY <1>7 DEF Enter, Owned
  <2>2. \A u \in Thread : pin'[u] = IF u = t THEN b ELSE pin[u]
    BY <1>1, <2>1
  <2> QED BY <2>1, <2>2 DEF BlocksOK, Moved
<1>8. CASE Leave(t)
  <2>1. UNCHANGED <<fwd, captured, blk>> /\ pin' = [pin EXCEPT ![t] = Nil]
    BY <1>8 DEF Leave
  <2>2. \A u \in Thread : pin'[u] = IF u = t THEN Nil ELSE pin[u]
    BY <1>1, <2>1
  <2> QED BY <2>1, <2>2 DEF BlocksOK, Moved
<1>9. ASSUME NEW b \in Block, BeginCopy(t, b) PROVE BlocksOK'
  <2>1. captured[b] = Nil /\ (\A u \in Thread : blk[u] # b)
        /\ UNCHANGED <<fwd, captured, pin>> /\ blk' = [blk EXCEPT ![t] = b]
    BY <1>9 DEF BeginCopy
  <2>2. \A u \in Thread : blk'[u] = IF u = t THEN b ELSE blk[u]
    BY <1>1, <2>1
  <2> QED BY <2>1, <2>2 DEF BlocksOK, Moved
<1>10. ASSUME NEW b \in Block, BeginRelease(t, b) PROVE BlocksOK'
  <2>1. (\A u \in Thread : pin[u] # b)
        /\ UNCHANGED <<fwd, pin, blk>> /\ captured' = [captured EXCEPT ![b] = Nil]
    BY <1>10 DEF BeginRelease
  <2>2. \A c \in Block : captured'[c] = IF c = b THEN Nil ELSE captured[c]
    BY <1>1, <2>1
  <2> QED BY <1>1, <2>1, <2>2 DEF BlocksOK, Moved
<1> QED
  BY <1>3, <1>4, <1>5, <1>6, <1>7, <1>8, <1>9, <1>10
  DEF Step, Call, CheckForwarding, CopyData, Increment, LoadForwarding, NotOnHeap, AssertRefcount,
      Decrement, DecrementLast, Destroy, Write, CloseFrame, Finish

LEMMA StepStructs ==
    ASSUME OneInFrame, IInv, TypeOK', NEW t \in Thread, Step(t) \/ Call(t), Others(t)
    PROVE  StructsOK'
<1> USE DEF IInv
<1>1. /\ Work(t) /\ fwd[Stack] \in Struct /\ Stack \notin Heap /\ Stack \in Struct
      /\ fwd \in [Struct -> Struct] /\ flags \in [Struct -> Word] /\ Heap \subseteq Struct
      /\ memory \in [Struct -> {"unused", "live", "freed"}]
      /\ pc \in [Thread -> PC] /\ copy \in [Thread -> Struct \cup {Nil}]
  BY Distinct DEF TypeOK, WorkOK
<1>2. pc[t] # "idle" => fwd[src[t]] = fwd[Stack]
  BY InHand
\* A thread that publishes later does not move.
<1>3. ASSUME NEW h \in Heap, Unpublished(h), pc[t] # "publish" PROVE Unpublished(h)'
  BY <1>3 DEF Unpublished, Others
<1>4. ASSUME pc[t] # "publish", fwd' = fwd, flags'[Stack] = flags[Stack],
             \A h \in Heap : memory'[h] = "unused" <=> memory[h] = "unused"
      PROVE  StructsOK'
  BY <1>3, <1>4 DEF StructsOK, Moved
<1> USE DEF byref, thread, Idle, Finish
<1>5. ASSUME NEW h \in Heap, Allocate(t, h) PROVE StructsOK'
  <2>1. /\ pc[t] = "alloc" /\ pc'[t] = "publish" /\ copy'[t] = h
        /\ flags'[Stack] = flags[Stack] /\ fwd'[Stack] = fwd[Stack]
        /\ fwd'[h] = h /\ \A k \in Heap \ {h} : fwd'[k] = fwd[k] /\ memory'[k] = memory[k]
    BY <1>1, <1>5 DEF Allocate, Goto
  <2>2. Unpublished(h)'
    BY <2>1 DEF Unpublished
  <2>3. ~Moved
    BY <1>1, <2>1 DEF Work, Moved
  <2> QED BY <1>3, <2>1, <2>2, <2>3 DEF StructsOK, Moved
<1>6. CASE Publish(t)
  <2>1. /\ pc[t] = "publish" /\ copy[t] \in Heap /\ memory[copy[t]] = "live" /\ fwd[Stack] = Stack
        /\ src[t] = Stack /\ memory' = memory /\ flags' = flags
        /\ fwd'[Stack] = copy[t] /\ \A h \in Heap : fwd'[h] = fwd[h]
    BY <1>1, <1>6 DEF Publish, Work, InFrame, Copying
  <2>2. \A u \in Thread \ {t} : pc[u] # "publish"
    BY <2>1, Alone
  <2>3. \A h \in Heap : memory[h] # "unused" => fwd[h] = h /\ h = copy[t]
    BY <1>1, <2>1, <2>2 DEF StructsOK, Unpublished
  <2> QED BY <2>1, <2>3 DEF StructsOK
<1>7. CASE Increment(t)
  <2>1. fwd[Stack] # Stack /\ flags' = [flags EXCEPT ![fwd[Stack]] = Retained(@)]
    BY <1>1, <1>2, <1>7 DEF Increment, Work, Moved
  <2> QED BY <1>1, <1>4, <1>7, <2>1 DEF Increment
<1>8. pc[t] \in {"decr", "destroy"} => copy[t] \in Heap /\ memory[copy[t]] # "unused"
  BY <1>1 DEF Work, Moved, StructsOK
<1>9. CASE Decrement(t)
  BY <1>1, <1>4, <1>8, <1>9 DEF Decrement
<1>10. CASE DecrementLast(t)
  BY <1>1, <1>4, <1>8, <1>10 DEF DecrementLast
<1>11. CASE Destroy(t)
  BY <1>1, <1>4, <1>8, <1>11 DEF Destroy
<1>12. ASSUME pc[t] # "publish", UNCHANGED <<fwd, flags, memory>> PROVE StructsOK'
  BY <1>4, <1>12
<1> QED
  BY <1>5, <1>6, <1>7, <1>9, <1>10, <1>11, <1>12
  DEF Step, Call, CheckForwarding, CopyData, Return, LoadForwarding, NotOnHeap, AssertRefcount,
      Enter, Leave, Write, BeginCopy, BeginRelease, CloseFrame
-----------------------------------------------------------------------------
(* The value.                                                              *)

LEMMA StepData ==
    ASSUME OneInFrame, IInv, TypeOK', NEW t \in Thread, Step(t) \/ Call(t), Others(t)
    PROVE  DataOK'
<1> USE DEF IInv
<1>1. /\ Work(t) /\ fwd[Stack] \in Struct /\ Stack \notin Heap /\ Stack \in Struct /\ Nil \notin Struct
      /\ fwd \in [Struct -> Struct] /\ data \in [Struct -> 0 .. MaxWrites] /\ Nil \notin Block
      /\ pc \in [Thread -> PC] /\ Heap \subseteq Struct
  BY Distinct DEF TypeOK, WorkOK
\* Neither the value nor the question where it is changes.
<1>2. ASSUME UNCHANGED <<data, written>>, fwd'[Stack] = fwd[Stack],
             pc[t] # "data", pc'[t] # "data"
      PROVE  DataOK'
  <2>1. Copied' = Copied
    BY <1>2 DEF Copied, Moved, Others
  <2> QED BY <1>2, <2>1 DEF DataOK
<1> USE DEF byref, thread, Idle, Goto
<1>3. ASSUME NEW h \in Heap, Allocate(t, h) PROVE DataOK'
  BY <1>1, <1>2, <1>3 DEF Allocate
<1>4. CASE Publish(t)
  <2>1. fwd[Stack] = Stack /\ pc'[t] = "data" /\ UNCHANGED <<data, written>>
    BY <1>1, <1>4 DEF Publish, Work
  <2>2. ~Copied /\ ~Copied'
    BY <1>1, <2>1 DEF Copied, Moved
  <2> QED BY <2>1, <2>2 DEF DataOK
<1>5. CASE CopyData(t)
  <2>1. /\ pc[t] = "data" /\ src[t] = Stack /\ copy[t] = fwd[Stack] /\ Moved /\ pc'[t] = "return"
        /\ data'[copy[t]] = data[src[t]] /\ UNCHANGED <<fwd, written>>
    BY <1>1, <1>5 DEF CopyData, Work, InFrame, Copying
  <2>2. \A u \in Thread \ {t} : pc[u] # "data"
    BY <2>1, Alone DEF Copying
  <2>3. ~Copied /\ Copied'
    BY <2>1, <2>2 DEF Copied, Others, Moved
  <2> QED BY <2>1, <2>3 DEF DataOK
<1>6. CASE Write(t)
  <2>1. PICK p \in Struct : Reaches(t, p) /\ data' = [data EXCEPT ![fwd[p]] = written + 1]
    BY <1>6 DEF Write
  <2>2. pc[t] = "idle" /\ written' = written + 1 /\ UNCHANGED <<fwd, pc>>
    BY <1>6 DEF Write
  <2>3. fwd[p] = fwd[Stack] /\ (p = Stack \/ ~(\A b \in Block : captured[b] = Nil))
    <3>1. CASE p = Stack
      BY <3>1
    <3>2. ASSUME NEW b \in Block, p = captured[b] PROVE fwd[p] = fwd[Stack] /\ captured[b] # Nil
      <4>1. p # Nil /\ p = fwd[Stack] /\ Moved
        BY <1>1, <3>2 DEF BlocksOK
      <4> QED BY <3>2, <4>1 DEF StructsOK, Moved
    <3> QED BY <2>1, <3>1, <3>2 DEF Reaches
  <2>4. Moved => Copied
    <3>1. ASSUME NEW u \in Thread, pc[u] = "data" PROVE FALSE
      <4>1. u # t /\ ~InFrame(t) /\ InFrame(u) /\ \A b \in Block : captured[b] = Nil
        BY <2>2, <3>1, Alone
      <4>2. p = Stack /\ t \in FrameThreads
        BY <1>1, <2>1, <2>3, <4>1 DEF Reaches
      <4> QED BY <4>1, <4>2 DEF InFrame, OneInFrame
    <3> QED BY <3>1 DEF Copied
  <2>5. Copied' = Copied /\ (IF Copied THEN fwd[Stack] ELSE Stack) = fwd[Stack]
    BY <1>1, <2>2, <2>4 DEF Copied, Moved, Struct
  <2>6. data'[fwd[Stack]] = written'
    BY <1>1, <2>1, <2>2, <2>3
  <2> QED BY <2>2, <2>5, <2>6 DEF DataOK
<1>7. ASSUME UNCHANGED <<data, written, fwd>>, pc[t] # "data", pc'[t] # "data" PROVE DataOK'
  BY <1>2, <1>7
<1>8. CASE \/ CheckForwarding(t) \/ Increment(t) \/ Return(t) \/ LoadForwarding(t) \/ AssertRefcount(t)
           \/ NotOnHeap(t) \/ Decrement(t) \/ DecrementLast(t) \/ Destroy(t)
  BY <1>1, <1>7, <1>8 DEF CheckForwarding, Increment, Return, LoadForwarding, AssertRefcount, NotOnHeap,
                          Decrement, DecrementLast, Destroy, Finish
<1>9. CASE \/ \E b \in Block : Enter(t, b) \/ BeginCopy(t, b) \/ BeginRelease(t, b)
           \/ Leave(t) \/ CloseFrame(t)
  BY <1>1, <1>7, <1>9 DEF Enter, BeginCopy, BeginRelease, Leave, CloseFrame
<1> QED BY <1>3, <1>4, <1>5, <1>6, <1>8, <1>9 DEF Step, Call
-----------------------------------------------------------------------------
(* The count.                                                              *)

\* The calls that are counted when only thread t moves.
LEMMA CallsOfOne ==
    ASSUME NEW t \in Thread, NEW h \in Heap, Others(t), fwd' = fwd
    PROVE  /\ t \in Calls(h) /\ t \in Calls(h)' => Calls(h)' = Calls(h)
           /\ t \notin Calls(h) /\ t \notin Calls(h)' => Calls(h)' = Calls(h)
           /\ t \in Calls(h) /\ t \notin Calls(h)' => Calls(h)' = Calls(h) \ {t}
           /\ t \notin Calls(h) /\ t \in Calls(h)' => Calls(h)' = Calls(h) \cup {t}
<1>1. \A u \in Thread \ {t} : u \in Calls(h)' <=> u \in Calls(h)
  BY DEF Calls, Others
<1>2. Calls(h)' \subseteq Thread /\ Calls(h) \subseteq Thread
  BY DEF Calls
<1> QED BY <1>1, <1>2

\* Nothing that the phase of the copy depends on changes.
LEMMA PhaseStays ==
    ASSUME NEW h \in Heap, Phase(h), memory'[h] = memory[h], flags'[h] = flags[h],
           Held(h)' = Held(h), \A u \in Thread : pc'[u] = "destroy" <=> pc[u] = "destroy"
    PROVE  Phase(h)'
  BY DEF Phase, Undisturbed

LEMMA StepPhase ==
    ASSUME OneInFrame, IInv, TypeOK', NEW t \in Thread, Step(t) \/ Call(t), Others(t)
    PROVE  PhaseOK'
<1> USE DEF IInv
<1>1. /\ Work(t) /\ fwd[Stack] \in Struct /\ Stack \notin Heap /\ Stack \in Struct /\ Nil \notin Struct
      /\ Nil \notin Block /\ Heap \subseteq Struct
      /\ fwd \in [Struct -> Struct] /\ flags \in [Struct -> Word]
      /\ memory \in [Struct -> {"unused", "live", "freed"}]
      /\ captured \in [Block -> Struct \cup {Nil}] /\ pc \in [Thread -> PC]
      /\ src \in [Thread -> Struct \cup {Nil}] /\ copy \in [Thread -> Struct \cup {Nil}]
      /\ blk \in [Thread -> Block \cup {Nil}] /\ pin \in [Thread -> Block \cup {Nil}]
  BY Distinct DEF TypeOK, WorkOK
<1>2. pc[t] # "idle" => fwd[src[t]] = fwd[Stack] /\ (src[t] = Stack => InFrame(t))
  BY InHand
\* When the copy has its place already it suffices to look at that one.
<1>3. ASSUME fwd'[Stack] = fwd[Stack], NEW h \in Heap, h = fwd[Stack], Phase(h)'
      PROVE  PhaseOK'
  BY <1>3 DEF PhaseOK
<1>4. ASSUME NEW h \in Heap, h = fwd[Stack] PROVE Phase(h) /\ fwd[h] = h
  BY <1>4 DEF PhaseOK, StructsOK, Moved
<1> USE DEF byref, thread, Idle, Goto
\* Before the copy is published there is none to look at.
<1>5. CASE fwd'[Stack] \notin Heap
  BY <1>5 DEF PhaseOK
<1>6. CASE Publish(t)
  <2>1. /\ pc[t] = "publish" /\ src[t] = Stack /\ fwd[Stack] = Stack /\ frame = "open"
        /\ copy[t] \in Heap /\ memory[copy[t]] = "live" /\ flags[copy[t]] = 4
        /\ UNCHANGED <<frame, flags, memory, captured, copy>> /\ pc'[t] = "data"
        /\ fwd'[Stack] = copy[t]
    BY <1>1, <1>6 DEF Publish, Work, InFrame, Copying
  <2>2. PICK h \in Heap : h = copy[t]
    BY <2>1
  <2>3. (\A u \in Thread \ {t} : pc'[u] = "idle") /\ (\A b \in Block : captured[b] = Nil)
    BY <1>1, <2>1, Alone DEF Others, BlocksOK, Moved
  <2>4. FrameCount(h)' = {Stack} /\ Blocks(h)' = {} /\ Calls(h)' = {t}
    <3>1. FrameCount(h)' = {Stack}
      BY <2>1, <2>2 DEF FrameCount
    <3>2. Blocks(h)' = {}
      BY <1>1, <2>1, <2>2, <2>3 DEF Blocks
    <3>3. t \in Calls(h)'
      BY <2>1, <2>2 DEF Calls
    <3>4. Calls(h)' \subseteq {t}
      BY <2>3 DEF Calls
    <3> QED BY <3>1, <3>2, <3>3, <3>4
  <2>5. Held(h)' = 2
    <3>1. Cardinality(FrameCount(h)') = 1 /\ Cardinality(Calls(h)') = 1 /\ Cardinality(Blocks(h)') = 0
      BY <2>4, FS_Singleton, FS_EmptySet
    <3> QED BY <3>1 DEF Held
  <2>6. Phase(h)'
    BY <2>1, <2>2, <2>3, <2>5, OtherWords DEF Phase, Undisturbed
  <2>7. \A k \in Heap : k = fwd'[Stack] => k = h
    BY <2>1, <2>2
  <2> QED BY <2>6, <2>7 DEF PhaseOK
\* From here on the copy has its place.
<1>7. ASSUME NEW h \in Heap, h = fwd[Stack], fwd'[Stack] = fwd[Stack], ~Publish(t)
      PROVE  Phase(h)'
  <2>1. /\ Phase(h) /\ fwd[h] = h /\ Moved
        /\ pc[t] # "idle" => fwd[src[t]] = h /\ (src[t] = Stack => InFrame(t))
        /\ pc[t] \notin {"alloc", "publish"}
    BY <1>1, <1>2, <1>4, <1>7 DEF Moved, Work
  \* A call does one step more, and owes or not what it did before.
  <2>2. ASSUME UNCHANGED <<frame, fwd, flags, memory, captured>>, Calls(h)' = Calls(h),
               pc[t] # "destroy", pc'[t] # "destroy"
        PROVE  Phase(h)'
    <3>1. Held(h)' = Held(h)
      BY <2>2 DEF Held, FrameCount, Blocks
    <3>2. \A u \in Thread : pc'[u] = "destroy" <=> pc[u] = "destroy"
      BY <2>2 DEF Others
    <3> QED BY <2>1, <2>2, <3>1, <3>2, PhaseStays
  <2>3. ASSUME UNCHANGED <<pc, fwd, src, copy>> PROVE Calls(h)' = Calls(h)
    BY <2>3 DEF Calls
  <2>4. ASSUME fwd' = fwd, pc[t] \notin {"return", "data", "load", "assert", "decr"},
               pc'[t] \notin {"return", "data", "load", "assert", "decr"}
        PROVE  Calls(h)' = Calls(h)
    <3>1. t \notin Calls(h) /\ t \notin Calls(h)'
      BY <2>4 DEF Calls
    <3> QED BY <2>4, <3>1, CallsOfOne
  <2>5. CASE CheckForwarding(t)
    <3>1. fwd' = fwd /\ pc[t] = "check" /\ pc'[t] \in {"alloc", "incr"}
          /\ UNCHANGED <<frame, flags, memory, captured>>
      BY <1>1, <2>5 DEF CheckForwarding
    <3> QED BY <2>2, <2>4, <3>1
  <2>6. CASE CopyData(t)
    <3>1. /\ fwd' = fwd /\ pc[t] = "data" /\ pc'[t] = "return" /\ copy[t] = h /\ src'[t] = src[t]
          /\ UNCHANGED <<frame, flags, memory, captured>>
      BY <1>1, <1>7, <2>6 DEF CopyData, Work
    <3>2. t \in Calls(h) /\ t \in Calls(h)'
      BY <2>1, <3>1 DEF Calls
    <3> QED BY <2>2, <3>1, <3>2, CallsOfOne
  <2>7. CASE LoadForwarding(t)
    <3>1. /\ fwd' = fwd /\ pc[t] = "load" /\ pc'[t] = "assert" /\ copy'[t] = h
          /\ UNCHANGED <<frame, flags, memory, captured>>
      BY <1>1, <2>1, <2>7 DEF LoadForwarding
    <3>2. t \in Calls(h) /\ t \in Calls(h)'
      BY <2>1, <3>1 DEF Calls
    <3> QED BY <2>2, <3>1, <3>2, CallsOfOne
  <2>8. CASE AssertRefcount(t)
    <3>1. /\ fwd' = fwd /\ pc[t] = "assert" /\ pc'[t] = "decr" /\ copy[t] = h /\ copy'[t] = h
          /\ UNCHANGED <<frame, flags, memory, captured>>
      BY <1>1, <1>7, <2>8 DEF AssertRefcount, Work
    <3>2. t \in Calls(h) /\ t \in Calls(h)'
      BY <3>1 DEF Calls
    <3> QED BY <2>2, <3>1, <3>2, CallsOfOne
  <2>9. CASE NotOnHeap(t)
    BY <1>1, <1>7, <2>1, <2>9 DEF NotOnHeap
  <2>10. CASE (\E b \in Block : Enter(t, b)) \/ Leave(t) \/ Write(t)
    <3>1. UNCHANGED <<frame, fwd, flags, memory, captured, pc, src, copy>> /\ pc[t] = "idle"
      BY <2>10 DEF Enter, Leave, Write
    <3> QED BY <2>2, <2>3, <3>1
  <2>11. ASSUME NEW b \in Block, BeginCopy(t, b) PROVE Phase(h)'
    <3>1. fwd' = fwd /\ pc[t] = "idle" /\ pc'[t] = "check"
          /\ UNCHANGED <<frame, flags, memory, captured>>
      BY <1>1, <2>11 DEF BeginCopy
    <3> QED BY <2>2, <2>4, <3>1
  \* The counts.
  <2>12. /\ IsFiniteSet(FrameCount(h)) /\ IsFiniteSet(Blocks(h)) /\ IsFiniteSet(Calls(h))
         /\ Cardinality(FrameCount(h)) \in Nat /\ Cardinality(Blocks(h)) \in Nat
         /\ Cardinality(Calls(h)) \in Nat /\ Held(h) \in Nat
         /\ Held(h) = Cardinality(FrameCount(h)) + Cardinality(Blocks(h)) + Cardinality(Calls(h))
    BY CountsAreNat DEF Held
  <2>13. Held(h)' = Cardinality(FrameCount(h)') + Cardinality(Blocks(h)') + Cardinality(Calls(h)')
    BY DEF Held
  <2>14. pc[t] \in Copying \/ t \in Calls(h) =>
            /\ Held(h) # 0 /\ memory[h] = "live" /\ Undisturbed
            /\ flags[h] = Mask \/ (flags[h] = 2 * Held(h) /\ 2 * Held(h) <= Mask)
    BY <1>7, <2>1, Holders
  <2>15. CASE Increment(t)
    <3>1. /\ fwd' = fwd /\ pc[t] = "incr" /\ pc'[t] = "return" /\ src'[t] = src[t]
          /\ flags'[h] = Retained(flags[h])
          /\ UNCHANGED <<frame, memory, captured>>
      BY <1>1, <2>1, <2>15 DEF Increment
    <3>2. t \notin Calls(h) /\ t \in Calls(h)'
      BY <2>1, <3>1 DEF Calls
    <3>3. Cardinality(Calls(h)') = Cardinality(Calls(h)) + 1
      BY <2>12, <3>1, <3>2, CallsOfOne, OneMore
    <3>4. FrameCount(h)' = FrameCount(h) /\ Blocks(h)' = Blocks(h)
      BY <3>1 DEF FrameCount, Blocks
    <3>5. Held(h)' = Held(h) + 1
      BY <2>12, <2>13, <3>3, <3>4
    <3>6. /\ Held(h) # 0 /\ memory[h] = "live" /\ Undisturbed
          /\ flags[h] = Mask \/ (flags[h] = 2 * Held(h) /\ 2 * Held(h) <= Mask)
      BY <2>14, <3>1 DEF Copying
    <3>7. Undisturbed' /\ memory'[h] = "live"
      BY <3>1, <3>6 DEF Undisturbed, Others
    <3>8. flags'[h] = Mask \/ (flags'[h] = 2 * (Held(h) + 1) /\ 2 * (Held(h) + 1) <= Mask)
      BY <2>12, <3>1, <3>6, EvenWord, OtherWords
    <3>9. Held(h)' # 0
      BY <2>12, <3>5
    <3> QED BY <3>5, <3>7, <3>8, <3>9 DEF Phase
  <2>16. CASE Return(t)
    <3>1. /\ fwd' = fwd /\ pc[t] = "return" /\ pc'[t] = "idle" /\ blk[t] \in Block
          /\ captured' = [captured EXCEPT ![blk[t]] = h]
          /\ UNCHANGED <<frame, memory, flags>>
      BY <1>1, <2>1, <2>16 DEF Return, Work, Copying
    <3>2. t \in Calls(h) /\ t \notin Calls(h)'
      BY <2>1, <3>1 DEF Calls
    <3>3. blk[t] \notin Blocks(h) /\ Blocks(h)' = Blocks(h) \cup {blk[t]}
      <4>1. captured[blk[t]] = Nil
        BY <1>1, <3>1 DEF BlocksOK
      <4> QED BY <1>1, <3>1, <4>1 DEF Blocks
    <3>4. /\ Cardinality(Calls(h)') = Cardinality(Calls(h)) - 1
          /\ Cardinality(Blocks(h)') = Cardinality(Blocks(h)) + 1
      BY <2>12, <3>1, <3>2, <3>3, CallsOfOne, OneMore, OneLess
    <3>5. FrameCount(h)' = FrameCount(h)
      BY <3>1 DEF FrameCount
    <3>6. Held(h)' = Held(h)
      BY <2>12, <2>13, <3>4, <3>5
    <3>7. \A u \in Thread : pc'[u] = "destroy" <=> pc[u] = "destroy"
      BY <3>1 DEF Others
    <3> QED BY <2>1, <3>1, <3>6, <3>7, PhaseStays
  <2>17. ASSUME NEW b \in Block, BeginRelease(t, b) PROVE Phase(h)'
    <3>1. /\ fwd' = fwd /\ pc[t] = "idle" /\ pc'[t] = "load" /\ captured[b] # Nil
          /\ captured' = [captured EXCEPT ![b] = Nil] /\ src'[t] = captured[b]
          /\ UNCHANGED <<frame, memory, flags>>
      BY <1>1, <2>17 DEF BeginRelease, Owned
    <3>2. captured[b] = h
      BY <1>7, <3>1 DEF BlocksOK
    <3>3. t \notin Calls(h) /\ t \in Calls(h)'
      BY <2>1, <3>1, <3>2 DEF Calls
    <3>4. b \in Blocks(h) /\ Blocks(h)' = Blocks(h) \ {b}
      BY <1>1, <3>1, <3>2 DEF Blocks
    <3>5. /\ Cardinality(Calls(h)') = Cardinality(Calls(h)) + 1
          /\ Cardinality(Blocks(h)') = Cardinality(Blocks(h)) - 1
      BY <2>12, <3>1, <3>3, <3>4, CallsOfOne, OneMore, OneLess
    <3>6. FrameCount(h)' = FrameCount(h)
      BY <3>1 DEF FrameCount
    <3>7. Held(h)' = Held(h)
      BY <2>12, <2>13, <3>5, <3>6
    <3>8. \A u \in Thread : pc'[u] = "destroy" <=> pc[u] = "destroy"
      BY <3>1 DEF Others
    <3> QED BY <2>1, <3>1, <3>7, <3>8, PhaseStays
  <2>18. CASE CloseFrame(t)
    <3>1. /\ fwd' = fwd /\ pc[t] = "idle" /\ pc'[t] = "load" /\ src'[t] = Stack
          /\ frame = "open" /\ frame' = "closing"
          /\ UNCHANGED <<captured, memory, flags>>
      BY <1>1, <2>18 DEF CloseFrame
    <3>2. t \notin Calls(h) /\ t \in Calls(h)'
      BY <1>7, <3>1 DEF Calls
    <3>3. Stack \in FrameCount(h) /\ FrameCount(h)' = FrameCount(h) \ {Stack}
      BY <1>7, <3>1 DEF FrameCount
    <3>4. /\ Cardinality(Calls(h)') = Cardinality(Calls(h)) + 1
          /\ Cardinality(FrameCount(h)') = Cardinality(FrameCount(h)) - 1
      BY <2>12, <3>1, <3>2, <3>3, CallsOfOne, OneMore, OneLess
    <3>5. Blocks(h)' = Blocks(h)
      BY <3>1 DEF Blocks
    <3>6. Held(h)' = Held(h)
      BY <2>12, <2>13, <3>4, <3>5
    <3>7. \A u \in Thread : pc'[u] = "destroy" <=> pc[u] = "destroy"
      BY <3>1 DEF Others
    <3> QED BY <2>1, <3>1, <3>6, <3>7, PhaseStays
  \* A release gives back one count; a frame that ends holds none any more.
  <2>19. ASSUME fwd' = fwd, captured' = captured, frame' = FrameAfter(t) \/ frame' = frame, pc[t] \in Releasing
         PROVE  FrameCount(h)' = FrameCount(h) /\ Blocks(h)' = Blocks(h)
    <3>1. src[t] = Stack => frame = "closing"
      BY <1>1, <1>7, <2>19 DEF Work, OnHeap, Moved, InFrame
    <3> QED BY <2>19, <3>1 DEF FrameCount, Blocks, FrameAfter
  <2>20. ASSUME pc[t] = "decr", pc'[t] \in {"idle", "destroy"}, fwd' = fwd, captured' = captured,
                frame' = FrameAfter(t) \/ frame' = frame
         PROVE  /\ Held(h) # 0 /\ memory[h] = "live" /\ Undisturbed /\ Held(h)' = Held(h) - 1
                /\ flags[h] = Mask \/ (flags[h] = 2 * Held(h) /\ 2 * Held(h) <= Mask)
    <3>1. copy[t] = h
      BY <1>1, <1>7, <2>20 DEF Work
    <3>2. t \in Calls(h) /\ t \notin Calls(h)'
      BY <2>20, <3>1 DEF Calls
    <3>3. Cardinality(Calls(h)') = Cardinality(Calls(h)) - 1
      BY <2>12, <2>20, <3>2, CallsOfOne, OneLess
    <3>4. Held(h)' = Held(h) - 1
      BY <2>12, <2>13, <2>19, <2>20, <3>3 DEF Releasing
    <3> QED BY <2>14, <3>2, <3>4
  <2>21. CASE Decrement(t)
    <3>1. /\ pc[t] = "decr" /\ pc'[t] = "idle" /\ fwd' = fwd /\ captured' = captured
          /\ frame' = FrameAfter(t) /\ memory' = memory /\ copy[t] = h
          /\ flags'[h] = Released(flags[h]) /\ ~ShouldDeallocate(flags[h])
      BY <1>1, <1>7, <2>21 DEF Decrement, Finish, Work
    <3>2. /\ Held(h) # 0 /\ memory[h] = "live" /\ Undisturbed /\ Held(h)' = Held(h) - 1
          /\ flags[h] = Mask \/ (flags[h] = 2 * Held(h) /\ 2 * Held(h) <= Mask)
      BY <2>20, <3>1
    <3>3. Undisturbed'
      BY <3>1, <3>2 DEF Undisturbed, Others
    <3>4. CASE flags[h] = Mask
      BY <3>1, <3>2, <3>3, <3>4, OtherWords DEF Phase
    <3>5. CASE flags[h] # Mask
      <4>1. Held(h) # 1 /\ flags'[h] = 2 * (Held(h) - 1)
        BY <2>12, <3>1, <3>2, <3>5, EvenWord
      <4>2. Held(h)' # 0 /\ 2 * Held(h)' <= Mask
        BY <2>12, <3>2, <3>5, <4>1, MaskAssumption
      <4> QED BY <3>1, <3>2, <3>3, <4>1, <4>2 DEF Phase
    <3> QED BY <3>4, <3>5
  <2>22. CASE DecrementLast(t)
    <3>1. /\ pc[t] = "decr" /\ pc'[t] = "destroy" /\ fwd' = fwd /\ captured' = captured
          /\ frame' = frame /\ memory' = memory /\ copy[t] = h
          /\ flags'[h] = Released(flags[h]) /\ ShouldDeallocate(flags[h])
      BY <1>1, <1>7, <2>22 DEF DecrementLast, Work
    <3>2. /\ Held(h) # 0 /\ memory[h] = "live" /\ Undisturbed /\ Held(h)' = Held(h) - 1
          /\ flags[h] = Mask \/ (flags[h] = 2 * Held(h) /\ 2 * Held(h) <= Mask)
      BY <2>20, <3>1
    <3>3. flags[h] = 2 * Held(h) /\ Held(h) = 1
      BY <2>12, <3>1, <3>2, EvenWord, OtherWords
    <3>4. flags'[h] = 1 /\ Held(h)' = 0
      BY <2>12, <3>1, <3>2, <3>3, EvenWord
    <3>5. \A u, v \in Thread : pc'[u] = "destroy" /\ pc'[v] = "destroy" => u = v
      BY <3>2 DEF Undisturbed, Others
    <3> QED BY <3>1, <3>2, <3>4, <3>5 DEF Phase
  <2>23. CASE Destroy(t)
    <3>1. /\ pc[t] = "destroy" /\ pc'[t] = "idle" /\ fwd' = fwd /\ captured' = captured
          /\ frame' = FrameAfter(t) /\ copy[t] = h /\ memory'[h] = "freed"
      BY <1>1, <1>7, <2>23 DEF Destroy, Finish, Work
    <3>2. Held(h) = 0 /\ \A u, v \in Thread : pc[u] = "destroy" /\ pc[v] = "destroy" => u = v
      BY <2>1, <3>1 DEF Phase, Undisturbed
    <3>3. Undisturbed'
      BY <3>1, <3>2 DEF Undisturbed, Others
    <3>4. FrameCount(h)' = FrameCount(h) /\ Blocks(h)' = Blocks(h) /\ Calls(h)' = Calls(h)
      BY <2>4, <2>19, <3>1 DEF Releasing
    <3>5. Held(h)' = Held(h)
      BY <3>4 DEF Held
    <3> QED BY <3>1, <3>2, <3>3, <3>5 DEF Phase
  <2>24. ASSUME NEW k \in Heap, Allocate(t, k) PROVE Phase(h)'
    BY <2>1, <2>24 DEF Allocate
  <2> QED BY <1>7, <2>5, <2>6, <2>7, <2>8, <2>9, <2>10, <2>11, <2>15, <2>16, <2>17, <2>18, <2>21,
             <2>22, <2>23, <2>24 DEF Step, Call
<1>8. ~Publish(t) => fwd'[Stack] = fwd[Stack]
  <2>1. ASSUME NEW h \in Heap, Allocate(t, h) PROVE fwd'[Stack] = fwd[Stack]
    BY <1>1, <2>1 DEF Allocate
  <2> QED BY <2>1 DEF Step, Call, CheckForwarding, CopyData, Increment, Return, LoadForwarding, NotOnHeap,
              AssertRefcount, Decrement, DecrementLast, Destroy, Enter, Leave, Write, BeginCopy,
              BeginRelease, CloseFrame
<1> QED BY <1>3, <1>5, <1>6, <1>7, <1>8
-----------------------------------------------------------------------------
(* The theorems.                                                           *)

LEMMA InitInv == ASSUME Init PROVE IInv
<1> USE Distinct DEF Init
<1>1. TypeOK
  BY OtherWords, ByrefAssumption DEF TypeOK, PC
<1>2. WorkOK
  BY DEF WorkOK, Work, Copying, Releasing
<1>3. BlocksOK
  BY DEF BlocksOK
<1>4. StructsOK
  BY DEF StructsOK, Moved
<1>5. DataOK
  BY DEF DataOK, Copied, Moved
<1>6. PhaseOK
  BY DEF PhaseOK
<1> QED BY <1>1, <1>2, <1>3, <1>4, <1>5, <1>6 DEF IInv

LEMMA StutterInv == ASSUME IInv, UNCHANGED vars PROVE IInv'
<1> USE DEF IInv, vars
<1>1. TypeOK'
  BY DEF TypeOK
<1>2. WorkOK'
  BY DEF WorkOK, Work, InFrame, OnHeap, Moved
<1>3. BlocksOK'
  BY DEF BlocksOK, Moved
<1>4. StructsOK'
  BY DEF StructsOK, Moved, Unpublished
<1>5. DataOK'
  BY DEF DataOK, Copied, Moved
<1>6. PhaseOK'
  <2>1. ASSUME NEW h \in Heap, Phase(h) PROVE Phase(h)'
    <3>1. FrameCount(h)' = FrameCount(h) /\ Blocks(h)' = Blocks(h) /\ Calls(h)' = Calls(h)
      BY DEF FrameCount, Blocks, Calls
    <3>2. Held(h)' = Held(h)
      BY <3>1 DEF Held
    <3> QED BY <2>1, <3>2, PhaseStays
  <2> QED BY <2>1 DEF PhaseOK
<1> QED BY <1>1, <1>2, <1>3, <1>4, <1>5, <1>6

LEMMA StepInv == ASSUME OneInFrame, IInv, [Next]_vars PROVE IInv'
<1>1. ASSUME NEW t \in Thread, Step(t) \/ Call(t) PROVE IInv'
  <2>1. TypeOK' /\ Others(t)
    BY <1>1, StepTyped DEF IInv
  <2>2. WorkOK' /\ BlocksOK' /\ StructsOK' /\ DataOK' /\ PhaseOK'
    BY <1>1, <2>1, StepWork, StepBlocks, StepStructs, StepData, StepPhase
  <2> QED BY <2>1, <2>2 DEF IInv
<1> QED BY <1>1, StutterInv DEF Next

\* The invariant holds of every behaviour: _Block_byref_copy and _Block_byref_release
\* (runtime.cpp:240 and 300) keep one heap copy with an exact count.
THEOREM Invariance == ASSUME OneInFrame PROVE Spec => []IInv
<1>1. IInv /\ [Next]_vars => IInv'
  BY StepInv
<1> QED BY InitInv, <1>1, PTL DEF Spec

\* Pointers, words and steps keep their types.
THEOREM TypeCorrect == ASSUME OneInFrame PROVE Spec => []TypeOK
<1>1. IInv => TypeOK
  BY DEF IInv
<1> QED BY Invariance, <1>1, PTL

\* The count of a copy that has not latched is twice the number of its holders: the
\* frame, the blocks and the calls that have yet to hand theirs over.
THEOREM ExactCount == ASSUME OneInFrame PROVE Spec => []CountExact
<1>1. ASSUME IInv PROVE CountExact
  <2>1. SUFFICES ASSUME NEW h \in Heap, memory[h] = "live", ~Unpublished(h), ~Latched(flags[h])
                 PROVE  Count(flags[h]) = 2 * Held(h)
    BY DEF CountExact, Held
  <2>2. Phase(h)
    BY <1>1, <2>1 DEF IInv, StructsOK, PhaseOK
  <2>3. Held(h) \in Nat
    BY CountsAreNat
  <2> QED BY <2>1, <2>2, <2>3, EvenWord, OtherWords DEF Phase
<1> QED BY Invariance, <1>1, PTL

\* The frame and the blocks reach one structure and find there what was written last.
THEOREM OneForAll == ASSUME OneInFrame PROVE Spec => []OneVariable
<1>1. ASSUME IInv PROVE OneVariable
  <2> USE <1>1, Distinct DEF IInv
  <2>1. SUFFICES ASSUME NEW b \in Block, captured[b] # Nil
                 PROVE  /\ captured[b] # Stack
                        /\ fwd[captured[b]] = fwd[Stack]
                        /\ data[fwd[captured[b]]] = written
    BY DEF OneVariable
  <2>2. captured[b] = fwd[Stack] /\ Moved /\ fwd[fwd[Stack]] = fwd[Stack] /\ captured[b] # Stack
    BY <2>1 DEF BlocksOK, StructsOK, Moved
  <2>3. Copied
    BY <2>1, <2>2 DEF Copied, WorkOK, Work
  <2> QED BY <2>2, <2>3 DEF DataOK
<1> QED BY Invariance, <1>1, PTL

\* os_assert(refcount) holds: a release that asserts is counted itself.
THEOREM AssertHolds == ASSUME OneInFrame PROVE Spec => []RefcountAsserted
<1>1. ASSUME IInv PROVE RefcountAsserted
  <2> USE <1>1 DEF IInv
  <2>1. SUFFICES ASSUME NEW t \in Thread, pc[t] = "assert" PROVE Count(flags[copy[t]]) # 0
    BY DEF RefcountAsserted
  <2>2. copy[t] = fwd[Stack] /\ Moved
    BY <2>1 DEF WorkOK, Work
  <2>3. PICK h \in Heap : h = copy[t]
    BY <2>2 DEF Moved
  <2>4. t \in Calls(fwd[Stack])
    BY <2>1, <2>2 DEF Calls
  <2>5. /\ Held(h) \in Nat /\ Held(h) # 0
        /\ flags[h] = Mask \/ (flags[h] = 2 * Held(h) /\ 2 * Held(h) <= Mask)
    BY <2>2, <2>3, <2>4, Holders
  <2>6. flags[h] = 2 * Held(h) /\ 2 * Held(h) <= Mask => Count(flags[h]) = 2 * Held(h)
    BY <2>5, EvenWord
  <2> QED BY <2>3, <2>5, <2>6, OtherWords
<1> QED BY Invariance, <1>1, PTL

\* A block points to memory that is live, and so does every pointer a call has in hand:
\* nothing is freed under _Block_byref_copy or _Block_byref_release, and neither reads
\* the frame's structure once the frame is gone.
NothingFreed ==
    /\ \A b \in Block : captured[b] # Nil => memory[captured[b]] = "live"
    /\ \A t \in Thread : pc[t] # "idle" =>
          /\ IF src[t] = Stack THEN frame # "closed" ELSE memory[src[t]] = "live"
          /\ fwd[src[t]] # Stack => memory[fwd[src[t]]] = "live"
          /\ pc[t] \in {"data", "assert", "decr", "destroy"} => memory[copy[t]] = "live"

THEOREM NoUseAfterFree == ASSUME OneInFrame PROVE Spec => []NothingFreed
<1>1. ASSUME IInv PROVE NothingFreed
  <2> USE <1>1 DEF IInv
  <2>1. ASSUME NEW h \in Heap, h = fwd[Stack], Held(h) # 0 PROVE memory[h] = "live"
    BY <2>1 DEF PhaseOK, Phase
  <2>2. ASSUME NEW b \in Block, captured[b] # Nil PROVE memory[captured[b]] = "live"
    <3>1. captured[b] = fwd[Stack] /\ Moved
      BY <2>2 DEF BlocksOK
    <3>2. PICK h \in Heap : h = captured[b]
      BY <3>1 DEF Moved
    <3>3. b \in Blocks(h)
      BY <3>2 DEF Blocks
    <3> QED BY <2>1, <3>1, <3>2, <3>3, CountsAreNat
  <2>3. ASSUME NEW t \in Thread, pc[t] # "idle", Moved PROVE memory[fwd[Stack]] = "live"
    <3>1. Work(t) /\ pc[t] \in Copying \cup {"load", "assert", "decr", "destroy"}
      BY <2>3 DEF WorkOK, TypeOK, PC, Copying
    <3>2. PICK h \in Heap : h = fwd[Stack]
      BY <2>3 DEF Moved
    <3>3. CASE pc[t] \in Copying
      BY <2>3, <3>3, Holders
    <3>4. CASE pc[t] \in {"load", "assert", "decr"}
      <4>1. t \in Calls(h)
        BY <2>3, <3>1, <3>2, <3>4, InHand DEF Calls, Work
      <4> QED BY <2>1, <3>2, <4>1, CountsAreNat
    <3>5. CASE pc[t] = "destroy"
      BY <3>2, <3>5 DEF PhaseOK, Phase, Undisturbed
    <3> QED BY <3>1, <3>3, <3>4, <3>5
  <2>4. ASSUME NEW t \in Thread, pc[t] # "idle"
        PROVE  /\ IF src[t] = Stack THEN frame # "closed" ELSE memory[src[t]] = "live"
               /\ fwd[src[t]] # Stack => memory[fwd[src[t]]] = "live"
               /\ pc[t] \in {"data", "assert", "decr", "destroy"} => memory[copy[t]] = "live"
    <3>1. /\ Work(t) /\ pc[t] \in Copying \cup Releasing
          /\ src[t] \in {Stack, fwd[Stack]} /\ fwd[src[t]] = fwd[Stack]
      BY <2>4, InHand DEF WorkOK, TypeOK, PC, Copying, Releasing
    <3>2. fwd[Stack] # Stack => Moved
      BY Distinct DEF TypeOK, Moved, Struct
    <3>3. src[t] = Stack => frame # "closed"
      BY <3>1, Distinct DEF Work, OnHeap, Moved, Copying, Releasing
    <3>4. pc[t] \in {"data", "assert", "decr", "destroy"} => copy[t] = fwd[Stack] /\ Moved
      BY <3>1 DEF Work
    <3> QED BY <2>3, <2>4, <3>1, <3>2, <3>3, <3>4
  <2> QED BY <2>2, <2>4 DEF NothingFreed
<1> QED BY Invariance, <1>1, PTL
=============================================================================
