--------------------------- MODULE BlockRefcount ---------------------------
(***************************************************************************)
(* The reference count of one heap block of libclosure-73 (runtime.cpp),   *)
(* shared by several threads.                                              *)
(*                                                                         *)
(* The low 16 bits of Block_layout.flags hold the count, in steps of two,  *)
(* and BLOCK_DEALLOCATING in bit 0.  The three latching_ functions are     *)
(* compare-and-swap loops: a load step and a swap step per iteration, any  *)
(* thread's step may fall between them.  The strong pointers of the        *)
(* program are the members of Ref; "refs" are those that own a count.      *)
(***************************************************************************)
EXTENDS BlockFlags, FiniteSets

CONSTANTS Thread,       \* threads that call the runtime
          Ref,          \* strong pointer variables of the program
          WeakLoads,    \* bound: weak loads (_Block_tryRetain) of a behaviour
          HelperOps,    \* bound: copies and releases of the block by its own
                        \* dispose helper
          NoThread,     \* no thread
          NoRef         \* no pointer (the dispose helper keeps none)

ASSUME RefAssumption == IsFiniteSet(Ref) /\ NoRef \notin Ref
ASSUME ThreadAssumption == NoThread \notin Thread
ASSUME BoundAssumption == WeakLoads \in Nat /\ HelperOps \in Nat

VARIABLES mem,       \* "stack": only the stack literal exists; "heap"; "freed"
          flags,     \* low 16 bits of the heap block's flags
          refs,      \* strong pointers that own a count
          weak,      \* a weak reference to the block is registered
          loads,     \* weak loads started so far
          helper,    \* operations started by the dispose helper so far
          disposer,  \* the thread whose release returned true
          pc,        \* what each thread executes
          old,       \* old_value, as the thread loaded it
          slot,      \* the pointer the thread's operation fills or empties
          pin        \* the pointer a copy reads the block from

vars == <<mem, flags, refs, weak, loads, helper, disposer, pc, old, slot, pin>>
block == <<mem, flags, refs, weak, disposer>>
bounds == <<loads, helper>>

(***************************************************************************)
(* Threads.  "copy", "try" and "release" stand before the load of the      *)
(* loop, "copyCAS", ... between the load and the swap.                     *)
(***************************************************************************)
Copying == {"copy", "copyCAS"}
Trying == {"try", "tryCAS"}
Releasing == {"release", "releaseCAS"}
PC == {"idle", "dispose", "destruct", "free"} \cup Copying \cup Trying \cup Releasing

Idle(t) == pc[t] = "idle"
Helping(t) == disposer = t
InUse == {slot[t] : t \in Thread} \cup {pin[t] : t \in Thread}

\* A returning operation leaves the thread in its caller: the program, or the
\* dispose helper the thread is running.
Caller(t) == IF Helping(t) THEN "dispose" ELSE "idle"
Return(t) == /\ pc' = [pc EXCEPT ![t] = Caller(t)]
             /\ old' = [old EXCEPT ![t] = 0]
             /\ slot' = [slot EXCEPT ![t] = NoRef]
             /\ pin' = [pin EXCEPT ![t] = NoRef]
Goto(t, where) == pc' = [pc EXCEPT ![t] = where]

\* The pointer an operation fills; the dispose helper keeps no pointer.
Filled(t) == refs \cup ({slot[t]} \ {NoRef})
Emptied(t) == refs \ {slot[t]}

Init == /\ mem = "stack"
        /\ flags = 0
        /\ refs = {}
        /\ weak = FALSE
        /\ loads = 0
        /\ helper = 0
        /\ disposer = NoThread
        /\ pc = [t \in Thread |-> "idle"]
        /\ old = [t \in Thread |-> 0]
        /\ slot = [t \in Thread |-> NoRef]
        /\ pin = [t \in Thread |-> NoRef]

\* _Block_copy of the stack literal: malloc, bit copy, count reset to one.
\* (A failed malloc returns NULL and changes nothing.)
CopyFromStack(t, r) ==
    /\ Idle(t)
    /\ mem = "stack"
    /\ mem' = "heap"
    /\ flags' = 2
    /\ refs' = {r}
    /\ UNCHANGED <<weak, disposer, bounds, pc, old, slot, pin>>

\* The program stores a weak reference; the weak table learns of the block.
StoreWeak(t, r) ==
    /\ Idle(t)
    /\ r \in refs \ InUse
    /\ ~weak
    /\ weak' = TRUE
    /\ UNCHANGED <<mem, flags, refs, disposer, bounds, pc, old, slot, pin>>
-----------------------------------------------------------------------------
(***************************************************************************)
(* _Block_copy of the heap block: latching_incr_int.                       *)
(***************************************************************************)

\* A program copies the block through a pointer that it keeps for the call.
BeginCopy(t, from, to) ==
    /\ Idle(t)
    /\ from \in refs
    /\ \A u \in Thread : slot[u] # from
    /\ to \in Ref \ (refs \cup InUse)
    /\ Goto(t, "copy")
    /\ slot' = [slot EXCEPT ![t] = to]
    /\ pin' = [pin EXCEPT ![t] = from]
    /\ UNCHANGED <<block, bounds, old>>

\* The dispose helper, or code it calls, copies the block being disposed.
HelperCopy(t) ==
    /\ pc[t] = "dispose"
    /\ helper < HelperOps
    /\ helper' = helper + 1
    /\ Goto(t, "copy")
    /\ UNCHANGED <<block, loads, old, slot, pin>>

CopyLoad(t) ==
    /\ pc[t] = "copy"
    /\ ~Latched(flags)
    /\ old' = [old EXCEPT ![t] = flags]
    /\ Goto(t, "copyCAS")
    /\ UNCHANGED <<block, bounds, slot, pin>>

CopyLatched(t) ==
    /\ pc[t] = "copy"
    /\ Latched(flags)
    /\ refs' = Filled(t)
    /\ Return(t)
    /\ UNCHANGED <<mem, flags, weak, disposer, bounds>>

\* Mutant of CopySwap: a plain store instead of the compare-and-swap.
CopyStore(t) ==
    /\ pc[t] = "copyCAS"
    /\ flags' = Incremented(old[t])
    /\ refs' = Filled(t)
    /\ Return(t)
    /\ UNCHANGED <<mem, weak, disposer, bounds>>

CopySwap(t) ==
    /\ pc[t] = "copyCAS"
    /\ flags = old[t]
    /\ flags' = Incremented(old[t])
    /\ refs' = Filled(t)
    /\ Return(t)
    /\ UNCHANGED <<mem, weak, disposer, bounds>>

CopyRetry(t) ==
    /\ pc[t] = "copyCAS"
    /\ flags # old[t]
    /\ Goto(t, "copy")
    /\ UNCHANGED <<block, bounds, old, slot, pin>>
-----------------------------------------------------------------------------
(***************************************************************************)
(* _Block_tryRetain: latching_incr_int_not_deallocating.  The weak table   *)
(* calls it for a weak reference that is still registered and keeps the    *)
(* entry locked for the call.                                              *)
(***************************************************************************)
BeginTryRetain(t, to) ==
    /\ Idle(t)
    /\ weak
    /\ loads < WeakLoads
    /\ loads' = loads + 1
    /\ to \in Ref \ (refs \cup InUse)
    /\ Goto(t, "try")
    /\ slot' = [slot EXCEPT ![t] = to]
    /\ UNCHANGED <<block, helper, old, pin>>

\* Mutant of TryLoad: latching_incr_int in place of the _not_deallocating form.
TryLoadAlways(t) ==
    /\ pc[t] = "try"
    /\ ~Latched(flags)
    /\ old' = [old EXCEPT ![t] = flags]
    /\ Goto(t, "tryCAS")
    /\ UNCHANGED <<block, bounds, slot, pin>>

TryLoad(t) ==
    /\ pc[t] = "try"
    /\ ~Deallocating(flags)
    /\ ~Latched(flags)
    /\ old' = [old EXCEPT ![t] = flags]
    /\ Goto(t, "tryCAS")
    /\ UNCHANGED <<block, bounds, slot, pin>>

TryLatched(t) ==
    /\ pc[t] = "try"
    /\ ~Deallocating(flags)
    /\ Latched(flags)
    /\ refs' = Filled(t)
    /\ Return(t)
    /\ UNCHANGED <<mem, flags, weak, disposer, bounds>>

\* Returns false: the weak load yields nil.
TryRefused(t) ==
    /\ pc[t] = "try"
    /\ Deallocating(flags)
    /\ Return(t)
    /\ UNCHANGED <<block, bounds>>

\* Mutant of TrySwap: a plain store instead of the compare-and-swap.
TryStore(t) ==
    /\ pc[t] = "tryCAS"
    /\ flags' = Incremented(old[t])
    /\ refs' = Filled(t)
    /\ Return(t)
    /\ UNCHANGED <<mem, weak, disposer, bounds>>

TrySwap(t) ==
    /\ pc[t] = "tryCAS"
    /\ flags = old[t]
    /\ flags' = Incremented(old[t])
    /\ refs' = Filled(t)
    /\ Return(t)
    /\ UNCHANGED <<mem, weak, disposer, bounds>>

TryRetry(t) ==
    /\ pc[t] = "tryCAS"
    /\ flags # old[t]
    /\ Goto(t, "try")
    /\ UNCHANGED <<block, bounds, old, slot, pin>>
-----------------------------------------------------------------------------
(***************************************************************************)
(* _Block_release: latching_decr_int_should_deallocate, then disposal.     *)
(***************************************************************************)
BeginRelease(t, r) ==
    /\ Idle(t)
    /\ r \in refs \ InUse
    /\ Goto(t, "release")
    /\ slot' = [slot EXCEPT ![t] = r]
    /\ UNCHANGED <<block, bounds, old, pin>>

\* The dispose helper releases the block being disposed, balanced or not.
HelperRelease(t) ==
    /\ pc[t] = "dispose"
    /\ helper < HelperOps
    /\ helper' = helper + 1
    /\ Goto(t, "release")
    /\ UNCHANGED <<block, loads, old, slot, pin>>

\* Mutant of ReleaseLoad: no "latched high" return.
ReleaseLoadUnlatched(t) ==
    /\ pc[t] = "release"
    /\ Count(flags) # 0
    /\ old' = [old EXCEPT ![t] = flags]
    /\ Goto(t, "releaseCAS")
    /\ UNCHANGED <<block, bounds, slot, pin>>

ReleaseLoad(t) ==
    /\ pc[t] = "release"
    /\ Count(flags) \notin {0, Mask}
    /\ old' = [old EXCEPT ![t] = flags]
    /\ Goto(t, "releaseCAS")
    /\ UNCHANGED <<block, bounds, slot, pin>>

\* Latched high, or an underflow that latches low: the count stays.
ReleaseLatched(t) ==
    /\ pc[t] = "release"
    /\ Count(flags) \in {0, Mask}
    /\ refs' = Emptied(t)
    /\ Return(t)
    /\ UNCHANGED <<mem, flags, weak, disposer, bounds>>

ReleaseSwap(t) ==
    /\ pc[t] = "releaseCAS"
    /\ flags = old[t]
    /\ ~LastRelease(old[t])
    /\ flags' = Decremented(old[t])
    /\ refs' = Emptied(t)
    /\ Return(t)
    /\ UNCHANGED <<mem, weak, disposer, bounds>>

\* The swap that must deallocate sets BLOCK_DEALLOCATING in the same step.
ReleaseLast(t) ==
    /\ pc[t] = "releaseCAS"
    /\ flags = old[t]
    /\ LastRelease(old[t])
    /\ flags' = Decremented(old[t])
    /\ refs' = Emptied(t)
    /\ disposer' = t
    /\ Goto(t, "dispose")
    /\ old' = [old EXCEPT ![t] = 0]
    /\ slot' = [slot EXCEPT ![t] = NoRef]
    /\ UNCHANGED <<mem, weak, bounds, pin>>

ReleaseRetry(t) ==
    /\ pc[t] = "releaseCAS"
    /\ flags # old[t]
    /\ Goto(t, "release")
    /\ UNCHANGED <<block, bounds, old, slot, pin>>

\* _Block_call_dispose_helper returns.
DisposeHelperReturns(t) ==
    /\ pc[t] = "dispose"
    /\ Goto(t, "destruct")
    /\ UNCHANGED <<block, bounds, old, slot, pin>>

\* _Block_destructInstance: the Objective-C runtime clears the weak reference
\* under the lock that weak loads hold.
DestructInstance(t) ==
    /\ pc[t] = "destruct"
    /\ \A u \in Thread : pc[u] \notin Trying
    /\ weak' = FALSE
    /\ Goto(t, "free")
    /\ UNCHANGED <<mem, flags, refs, disposer, bounds, old, slot, pin>>

Free(t) ==
    /\ pc[t] = "free"
    /\ mem' = "freed"
    /\ disposer' = NoThread
    /\ Goto(t, "idle")
    /\ UNCHANGED <<flags, refs, weak, bounds, old, slot, pin>>
-----------------------------------------------------------------------------
\* The steps of an operation in progress.
Step(t) ==
    \/ CopyLoad(t) \/ CopyLatched(t) \/ CopySwap(t) \/ CopyRetry(t)
    \/ TryLoad(t) \/ TryLatched(t) \/ TryRefused(t) \/ TrySwap(t) \/ TryRetry(t)
    \/ ReleaseLoad(t) \/ ReleaseLatched(t) \/ ReleaseSwap(t) \/ ReleaseLast(t)
    \/ ReleaseRetry(t)
    \/ DisposeHelperReturns(t) \/ DestructInstance(t) \/ Free(t)

\* The calls the program and the dispose helper choose to make.
Call(t) ==
    \/ \E r \in Ref : CopyFromStack(t, r) \/ StoreWeak(t, r) \/ BeginRelease(t, r)
    \/ \E from, to \in Ref : BeginCopy(t, from, to)
    \/ \E to \in Ref : BeginTryRetain(t, to)
    \/ HelperCopy(t) \/ HelperRelease(t)

Next == \E t \in Thread : Step(t) \/ Call(t)

Spec == Init /\ [][Next]_vars

\* A thread inside the runtime keeps running; the program need not call it.
Fairness == \A t \in Thread : WF_vars(Step(t))
FairSpec == Spec /\ Fairness
-----------------------------------------------------------------------------
TypeOK ==
    /\ mem \in {"stack", "heap", "freed"}
    /\ flags \in 0 .. Mask + 1
    /\ refs \subseteq Ref
    /\ weak \in BOOLEAN
    /\ loads \in 0 .. WeakLoads
    /\ helper \in 0 .. HelperOps
    /\ disposer \in Thread \cup {NoThread}
    /\ pc \in [Thread -> PC]
    /\ old \in [Thread -> 0 .. Mask + 1]
    /\ slot \in [Thread -> Ref \cup {NoRef}]
    /\ pin \in [Thread -> Ref \cup {NoRef}]

\* A block whose memory was returned to malloc is out of everybody's reach: no
\* strong pointer owns it, no weak reference leads to it, and no thread is in
\* the middle of a runtime call on it.  (The frees of _Block_release and the
\* retries of the compare-and-swap loops are what could break this.)
NoUseAfterFree ==
    mem = "freed" => /\ refs = {}
                     /\ ~weak
                     /\ \A t \in Thread : Idle(t)

\* Until the count latches it is exact: every strong pointer that owns the
\* block is counted once, whatever compare-and-swaps had to be retried.
CountExact ==
    mem = "heap" /\ ~Deallocating(flags) /\ ~Latched(flags)
        => flags = 2 * Cardinality(refs)

\* Once the last release marks the block, nothing owns it: no weak load that
\* was on its way has brought it back, and only the disposing thread works on it.
NoResurrection ==
    mem = "heap" /\ Deallocating(flags)
        => /\ refs = {}
           /\ \A t \in Thread \ {disposer} : pc[t] \in {"idle"} \cup Trying

\* BLOCK_DEALLOCATING never goes away, not even when the dispose helper copies
\* and releases the block it is disposing of; so disposal starts only once.
DisposedOnce == [][ /\ Deallocating(flags) => Deallocating(flags')
                    /\ disposer # NoThread /\ mem' = "heap" => disposer' = disposer ]_vars

\* A live block whose count reached the mask leaks: no balance of copies and
\* releases brings the count back ("latched high").
LatchedForever == [][ Latched(flags) /\ ~Deallocating(flags) => flags' = flags ]_vars

\* A block with no owner that never latched is given back to malloc.
UnownedIsFreed ==
    (mem = "heap" /\ refs = {} /\ ~Latched(flags)) ~> mem = "freed"

\* The calls on the block behave as the ownership protocol of BlockLifetime:
\* the flags word decides its phase, the retries are stuttering steps.
Phase == IF mem = "heap"
           THEN IF Deallocating(flags) THEN "ended" ELSE "live"
           ELSE IF mem = "stack" THEN "unborn" ELSE "freed"
Lifetime == INSTANCE BlockLifetime WITH
                phase <- Phase, owners <- refs,
                leaked <- Latched(flags) /\ ~Deallocating(flags)
RefinesLifetime == Lifetime!Spec
=============================================================================
