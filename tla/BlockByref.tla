----------------------------- MODULE BlockByref -----------------------------
(***************************************************************************)
(* One __block variable of libclosure-73 (runtime.cpp): the structure in   *)
(* the stack frame that declares it, the copy _Block_byref_copy moves to   *)
(* the heap when a block that captures it is copied, and the forwarding    *)
(* pointers through which everybody reads and writes it.                   *)
(*                                                                         *)
(* _Block_byref_copy and _Block_byref_release run as separate steps for    *)
(* their plain loads and stores; latching_incr_int and                     *)
(* latching_decr_int_should_deallocate are atomic here (BlockRefcount      *)
(* takes their loops apart).                                               *)
(***************************************************************************)
EXTENDS BlockFlags, FiniteSets

CONSTANTS Thread,
          FrameThreads,   \* threads that run code of the frame while it is open:
                          \* its own and, for dispatch_apply, concurrent helpers
          Block,          \* heap blocks that capture the variable
          Heap,           \* bound: heap copies of the variable
          Stack,          \* the structure in the frame
          Nil,
          MaxWrites       \* bound: writes of the variable

ASSUME ByrefAssumption ==
    /\ FrameThreads \subseteq Thread
    /\ IsFiniteSet(Thread) /\ IsFiniteSet(Block) /\ IsFiniteSet(Heap)
    /\ Stack \notin Heap /\ Nil \notin Heap \cup {Stack} \cup Block
    /\ MaxWrites \in Nat

Struct == Heap \cup {Stack}

VARIABLES frame,     \* "open", "closing", "closed"
          fwd,       \* the forwarding field of each structure
          flags,     \* the flags field: its count
          memory,    \* "unused", "live" or "freed", for each structure
          data,      \* the variable's value in each structure
          written,   \* the number of writes, the value of the last one
          captured,  \* the structure each heap block points to
          pc, src, copy, blk, pin
                     \* of each thread: its step, the pointer it was given, the
                     \* structure it works on, the block it copies, and the
                     \* block whose code it runs

vars == <<frame, fwd, flags, memory, data, written, captured, pc, src, copy, blk, pin>>
thread == <<pc, src, copy, blk, pin>>
byref == <<fwd, flags, memory, data, written>>

PC == {"idle", "check", "alloc", "publish", "data", "incr", "return",
       "load", "assert", "decr", "destroy"}
Copying == {"check", "alloc", "publish", "data", "incr", "return"}

Idle(t) == pc[t] = "idle"
Goto(t, where) == pc' = [pc EXCEPT ![t] = where]

Init == /\ frame = "open"
        /\ fwd = [s \in Struct |-> Stack]
        /\ flags = [s \in Struct |-> 0]
        /\ memory = [s \in Struct |-> IF s = Stack THEN "live" ELSE "unused"]
        /\ data = [s \in Struct |-> 0]
        /\ written = 0
        /\ captured = [b \in Block |-> Nil]
        /\ pc = [t \in Thread |-> "idle"]
        /\ src = [t \in Thread |-> Nil]
        /\ copy = [t \in Thread |-> Nil]
        /\ blk = [t \in Thread |-> Nil]
        /\ pin = [t \in Thread |-> Nil]

\* What code run by t reaches the variable through: its frame, or the block
\* it executes.
Reaches(t, p) == \/ p = Stack /\ t \in FrameThreads /\ frame = "open"
                 \/ \E b \in Block : pin[t] = b /\ p = captured[b]

Owned(b) == captured[b] # Nil /\ \A t \in Thread : blk[t] # b

\* A thread starts and stops executing a heap block; it owns it meanwhile.
Enter(t, b) == /\ Idle(t) /\ pin[t] = Nil
               /\ Owned(b)
               /\ pin' = [pin EXCEPT ![t] = b]
               /\ UNCHANGED <<frame, byref, captured, pc, src, copy, blk>>
Leave(t) == /\ Idle(t) /\ pin[t] # Nil
            /\ pin' = [pin EXCEPT ![t] = Nil]
            /\ UNCHANGED <<frame, byref, captured, pc, src, copy, blk>>

\* x.forwarding->x = v, as the compiler emits every access.
WriteDirect(t) ==                       \* mutant of Write: no forwarding
    /\ Idle(t) /\ written < MaxWrites
    /\ \E p \in Struct : /\ Reaches(t, p)
                         /\ data' = [data EXCEPT ![p] = written + 1]
    /\ written' = written + 1
    /\ UNCHANGED <<frame, fwd, flags, memory, captured, thread>>
Write(t) ==
    /\ Idle(t) /\ written < MaxWrites
    /\ \E p \in Struct : /\ Reaches(t, p)
                         /\ data' = [data EXCEPT ![fwd[p]] = written + 1]
    /\ written' = written + 1
    /\ UNCHANGED <<frame, fwd, flags, memory, captured, thread>>
-----------------------------------------------------------------------------
(***************************************************************************)
(* _Block_byref_copy, called by the copy helper of a block being copied.   *)
(***************************************************************************)
BeginCopy(t, b) ==
    /\ Idle(t)
    /\ captured[b] = Nil
    /\ \A u \in Thread : blk[u] # b
    /\ \E p \in Struct : Reaches(t, p) /\ src' = [src EXCEPT ![t] = p]
    /\ blk' = [blk EXCEPT ![t] = b]
    /\ Goto(t, "check")
    /\ UNCHANGED <<frame, byref, captured, copy, pin>>

\* src->forwarding->flags: no count means the variable is still in the frame.
CheckForwarding(t) ==
    /\ pc[t] = "check"
    /\ Goto(t, IF Count(flags[fwd[src[t]]]) = 0 THEN "alloc" ELSE "incr")
    /\ UNCHANGED <<frame, byref, captured, src, copy, blk, pin>>

\* malloc and the header; 4 is one count for the caller, one for the frame.
Allocate(t, h) ==
    /\ pc[t] = "alloc"
    /\ memory[h] = "unused"
    /\ memory' = [memory EXCEPT ![h] = "live"]
    /\ flags' = [flags EXCEPT ![h] = 4]
    /\ fwd' = [fwd EXCEPT ![h] = h]
    /\ copy' = [copy EXCEPT ![t] = h]
    /\ Goto(t, "publish")
    /\ UNCHANGED <<frame, data, written, captured, src, blk, pin>>

\* src->forwarding = copy
Publish(t) ==
    /\ pc[t] = "publish"
    /\ fwd' = [fwd EXCEPT ![src[t]] = copy[t]]
    /\ Goto(t, "data")
    /\ UNCHANGED <<frame, flags, memory, data, written, captured, src, copy, blk, pin>>

\* byref_keep, or the bitwise copy of the value.
CopyData(t) ==
    /\ pc[t] = "data"
    /\ data' = [data EXCEPT ![copy[t]] = data[src[t]]]
    /\ Goto(t, "return")
    /\ UNCHANGED <<frame, fwd, flags, memory, written, captured, src, copy, blk, pin>>

IncrementLost(t) ==                     \* mutant of Increment: no count taken
    /\ pc[t] = "incr"
    /\ Goto(t, "return")
    /\ UNCHANGED <<frame, byref, captured, src, copy, blk, pin>>
Increment(t) ==
    /\ pc[t] = "incr"
    /\ flags' = [flags EXCEPT ![fwd[src[t]]] = Retained(@)]
    /\ Goto(t, "return")
    /\ UNCHANGED <<frame, fwd, memory, data, written, captured, src, copy, blk, pin>>

\* return src->forwarding: the block now points there.
Return(t) ==
    /\ pc[t] = "return"
    /\ captured' = [captured EXCEPT ![blk[t]] = fwd[src[t]]]
    /\ src' = [src EXCEPT ![t] = Nil]
    /\ copy' = [copy EXCEPT ![t] = Nil]
    /\ blk' = [blk EXCEPT ![t] = Nil]
    /\ Goto(t, "idle")
    /\ UNCHANGED <<frame, byref, pin>>
-----------------------------------------------------------------------------
(***************************************************************************)
(* _Block_byref_release, called by the dispose helper of a block that lost *)
(* its last owner, and by the frame when the variable goes out of scope.   *)
(***************************************************************************)
BeginRelease(t, b) ==
    /\ Idle(t)
    /\ Owned(b)
    /\ \A u \in Thread : pin[u] # b
    /\ src' = [src EXCEPT ![t] = captured[b]]
    /\ captured' = [captured EXCEPT ![b] = Nil]
    /\ Goto(t, "load")
    /\ UNCHANGED <<frame, byref, copy, blk, pin>>

\* The scope ends once no other thread is in code of the frame.
CloseFrame(t) ==
    /\ t \in FrameThreads /\ Idle(t) /\ pin[t] = Nil
    /\ frame = "open"
    /\ \A u \in FrameThreads : Idle(u) \/ src[u] # Stack
    /\ frame' = "closing"
    /\ src' = [src EXCEPT ![t] = Stack]
    /\ Goto(t, "load")
    /\ UNCHANGED <<byref, captured, copy, blk, pin>>

FrameAfter(t) == IF src[t] = Stack THEN "closed" ELSE frame
Finish(t) == /\ Goto(t, "idle")
             /\ frame' = FrameAfter(t)
             /\ src' = [src EXCEPT ![t] = Nil]
             /\ copy' = [copy EXCEPT ![t] = Nil]

\* byref = byref->forwarding; a structure without BLOCK_BYREF_NEEDS_FREE (the
\* one in the frame) needs no release.
LoadForwarding(t) ==
    /\ pc[t] = "load"
    /\ fwd[src[t]] # Stack
    /\ copy' = [copy EXCEPT ![t] = fwd[src[t]]]
    /\ Goto(t, "assert")
    /\ UNCHANGED <<frame, byref, captured, src, blk, pin>>
NotOnHeap(t) ==
    /\ pc[t] = "load"
    /\ fwd[src[t]] = Stack
    /\ Finish(t)
    /\ UNCHANGED <<byref, captured, blk, pin>>

\* os_assert(refcount): the program traps when it fails.
AssertRefcount(t) ==
    /\ pc[t] = "assert"
    /\ Count(flags[copy[t]]) # 0
    /\ Goto(t, "decr")
    /\ UNCHANGED <<frame, byref, captured, src, copy, blk, pin>>

Decrement(t) ==
    /\ pc[t] = "decr"
    /\ ~ShouldDeallocate(flags[copy[t]])
    /\ flags' = [flags EXCEPT ![copy[t]] = Released(@)]
    /\ Finish(t)
    /\ UNCHANGED <<fwd, memory, data, written, captured, blk, pin>>
DecrementLast(t) ==
    /\ pc[t] = "decr"
    /\ ShouldDeallocate(flags[copy[t]])
    /\ flags' = [flags EXCEPT ![copy[t]] = Released(@)]
    /\ Goto(t, "destroy")
    /\ UNCHANGED <<frame, fwd, memory, data, written, captured, src, copy, blk, pin>>

\* byref_destroy and free
Destroy(t) ==
    /\ pc[t] = "destroy"
    /\ memory' = [memory EXCEPT ![copy[t]] = "freed"]
    /\ Finish(t)
    /\ UNCHANGED <<fwd, flags, data, written, captured, blk, pin>>
-----------------------------------------------------------------------------
Step(t) ==
    \/ CheckForwarding(t) \/ (\E h \in Heap : Allocate(t, h)) \/ Publish(t)
    \/ CopyData(t) \/ Increment(t) \/ Return(t)
    \/ LoadForwarding(t) \/ NotOnHeap(t) \/ AssertRefcount(t)
    \/ Decrement(t) \/ DecrementLast(t) \/ Destroy(t)
Call(t) ==
    \/ \E b \in Block : Enter(t, b) \/ BeginCopy(t, b) \/ BeginRelease(t, b)
    \/ Leave(t) \/ Write(t) \/ CloseFrame(t)

Next == \E t \in Thread : Step(t) \/ Call(t)

Spec == Init /\ [][Next]_vars
FairSpec == Spec /\ \A t \in Thread : WF_vars(Step(t))
-----------------------------------------------------------------------------
TypeOK ==
    /\ frame \in {"open", "closing", "closed"}
    /\ fwd \in [Struct -> Struct]
    /\ flags \in [Struct -> Word]
    /\ memory \in [Struct -> {"unused", "live", "freed"}]
    /\ data \in [Struct -> 0 .. MaxWrites]
    /\ written \in 0 .. MaxWrites
    /\ captured \in [Block -> Struct \cup {Nil}]
    /\ pc \in [Thread -> PC]
    /\ src \in [Thread -> Struct \cup {Nil}]
    /\ copy \in [Thread -> Struct \cup {Nil}]
    /\ blk \in [Thread -> Block \cup {Nil}]
    /\ pin \in [Thread -> Block \cup {Nil}]

\* The counts a heap copy must hold: the frame while it forwards there, every
\* block that points there, and every call that has taken a count and not yet
\* handed it over, or has given up its pointer and not yet its count.
FrameCount(h) == {s \in {Stack} : frame = "open" /\ fwd[s] = h}
Blocks(h) == {b \in Block : captured[b] = h}
Calls(h) == {t \in Thread : \/ pc[t] = "return" /\ fwd[src[t]] = h
                            \/ pc[t] = "data" /\ copy[t] = h
                            \/ pc[t] = "load" /\ fwd[src[t]] = h
                            \/ pc[t] \in {"assert", "decr"} /\ copy[t] = h}
Unpublished(h) == \E t \in Thread : pc[t] = "publish" /\ copy[t] = h

\* The count of a heap copy that has not latched is exact.
CountExact ==
    \A h \in Heap : memory[h] = "live" /\ ~Unpublished(h) /\ ~Latched(flags[h]) =>
        Count(flags[h]) = 2 * (Cardinality(FrameCount(h)) + Cardinality(Blocks(h))
                                                          + Cardinality(Calls(h)))

\* "Everyone always accesses variables after dereferencing the forwarding ptr":
\* the frame and all heap blocks reach one and the same structure, never the
\* frame's once the frame may be gone, and find there what was written last.
OneVariable ==
    \A b \in Block : captured[b] # Nil =>
        /\ captured[b] # Stack
        /\ frame = "open" => fwd[captured[b]] = fwd[Stack]
        /\ \A c \in Block : captured[c] # Nil => fwd[captured[c]] = fwd[captured[b]]
        /\ data[fwd[captured[b]]] = written

\* os_assert(refcount) in _Block_byref_release (runtime.cpp:309) holds: the release
\* finds a count.
RefcountAsserted == \A t \in Thread : pc[t] = "assert" => Count(flags[copy[t]]) # 0

\* Once the frame and every block have let go, the releases in progress free the
\* heap copy, whichever of them is the last.
Reclaimed ==
    (frame # "open" /\ \A b \in Block : captured[b] = Nil)
        ~> \/ \A h \in Heap : memory[h] = "live" => Latched(flags[h])
           \/ \E b \in Block : captured[b] # Nil
=============================================================================
