# TLA+ models of the block runtime and the run loop in iOSStudy

iOSStudy is a collection of study material on iOS: demos, notes, and the sources they explain. Some of those
sources are real concurrent programs, and they are what this directory models and proves about:

* **libclosure-73** (`src/block/block源码/libclosure-73/runtime.cpp`, `Block_private.h`): reference counts of
  blocks, and `__block` variables that move from a stack frame to the heap;
* **CFRunLoop** (`src/RunLoop/CF-1153.18/CFRunLoop.c`, cut down and commented by the author of the notes): the
  cycle of a run loop, the blocks queued on it, its sources and timers, its modes, and the registry that makes one
  loop for each thread and lets it go when the thread ends (with `CFPlatform.c`);
* **CFMachPort** (`src/RunLoop/CF-1153.18/CFMachPort.c`): the objects that bring Mach messages to run loops, which
  clients, the port's death and the last release may end at the same time.

The rest is Apple library code kept for reference, compiler output, view controllers that show one API each, and
notes. `PROJECT.json` lists every component, modelled or not, with the reason.

## 1. Inventory

| Component | State | Operations | What makes it hard |
|---|---|---|---|
| Block reference counting (`runtime.cpp` 53-111, 189-241, 337-371) | `flags` of the heap block: count in steps of 2, `BLOCK_DEALLOCATING` in bit 0 | `_Block_copy`, `_Block_release`, `_Block_tryRetain`, dispose helper | compare-and-swap loops of several threads, weak loads against the last release, copies by the dispose helper, saturation ("latched high") |
| `__block` variables (`runtime.cpp` 244-333) | `forwarding`, `flags` and data of the frame's structure and of its heap copy | `_Block_byref_copy`, `_Block_byref_release`, accesses through `forwarding` | a structure that moves while others hold its old address; plain loads and stores between atomic counts |
| Copy of captured objects (`runtime.cpp` 467-564) | the graph of blocks, objects and variables | `_Block_object_assign`, `_Block_object_dispose` | nested blocks, cycles, weak variables |
| CFRunLoop, the cycle (`CFRunLoop.c` 1618-1822, 2331-2526, 3119-3197) | stack of runs, list of blocks, signaled and valid bits, wake-up port, stop flags | run in a mode, perform a block, signal, invalidate, stop, wake up, time out | every callout runs unlocked and may run the loop again; one wake-up message serves many callers |
| CFRunLoop, timers (1864-2178, 2901-2995, 3461-3679) | sorted array, soft and hard deadline, kernel timer, valid and firing bits | add, remove, set the next fire date, invalidate, fire | early exits that rely on the order, dates that change during the callout, validity tested before the lock |
| CFRunLoop, modes (1515-1616, 2533-2995, 3119-3170, 3346-3400, 3630-3679) | modes, common modes, common mode items; what each item knows of its loops | add and remove items by mode or for the common modes, make a mode common, invalidate | an item is in many modes and loops; tests before the lock; several locks, taken one after the other |
| CFRunLoop, registry (1321-1442, 1489-1494; `CFPlatform.c` 589-618) | dictionary of loops by thread, thread-specific slots, the rounds of destructors | get the loop of a thread, finalize it at thread exit | two threads that create one loop, destructors that run in rounds and ask for the loop again |
| CFMachPort (`CFMachPort.c`) | table of objects by port, state of each object, its dispatch source, callback, context and run loop source | create or find, invalidate, set the callback, create the source, deliver a message, checker, deallocate | three ways to end an object, locks dropped for every callout, references held by queues |
| Observers (1032-1048, 1668-1707, 2785-2880, 3220-3400) | ordered array and mask per mode | callouts at six points of the cycle | callouts inside the cycle; one loop only, tested before the lock |
| Kept-alive threads (`TWOViewController.m`, `ZTHSerialThreadObject.m`) | a thread, a stop flag, a weak reference | start, perform on thread, stop, dealloc | dealloc waits for a thread that may be ending by itself |
| Lock, condition and queue demos (`src/多线程`, `src/Demo`) | a counter or an array behind one lock | one guarded critical section each | conditions tested with `if` |

How they interact: a client thread **calls** into a run loop (under the loop's lock) and **wakes** it with a
message on its wake-up port; the loop's thread **calls out** to blocks, sources, timers and observers with the lock
released; these callouts call into the loop like any client, and may run it again. A **CFMachPort** reaches a loop
through a source of its own: the loop performs the source, and the end of the port invalidates it in every loop. The
**registry** hands out the loop all of these calls are made on. Queued blocks are heap blocks,
copied by `CFRunLoopPerformBlock` and released after they ran: their memory is the business of the block runtime,
whose calls are safe for any interleaving of threads (proved below), which is why the run-loop models need no
memory.

What each component must get right is the list of **hazards** in `PROJECT.json`: every one names the line where it
bites and the properties that watch it, or says why nothing watches it yet.

## 2. Modules

| Module | Models | Used by |
|---|---|---|
| `BlockFlags` | the low 16 bits of a `flags` word and what the atomic functions compute from it | `BlockRefcount`, `BlockByref` |
| `BlockLifetime` | *abstract*: owners come and go, the last one ends the block's life, memory goes back after the end | refined by `BlockRefcount` |
| `BlockRefcount` | one heap block and its count, loop iteration by loop iteration | `MCBlockRefcount`, `BlockRefcountProofs` |
| `BlockByref` | one `__block` variable, its frame, its heap copies and the blocks that capture it | `MCBlockByref`, `BlockByrefProofs` |
| `RunLoop` | `__CFRunLoopRun` and the calls of other threads | `MCRunLoop`, `RunLoopProofs`, `RunLoopWakeUpProofs` |
| `RunLoopTimers` | the timers of a mode | `MCRunLoopTimers`, `RunLoopTimersProofs` |
| `RunLoopModes` | items in the modes and common modes of several loops | `MCRunLoopModes`, `RunLoopModesProofs` |
| `RunLoopRegistry` | the loop of a thread, from the first call that asks for it to the last round of destructors | `MCRunLoopRegistry`, `RunLoopRegistryProofs` |
| `MachPort` | port objects, their table, dispatch sources and run loop sources | `MCMachPort`, `MachPortProofs` |
| `*Proofs` | theorems, for every value of the constants | |
| `MC*` | values of the constants for TLC | the `.cfg` files |

### BlockRefcount

`flags` is the count as the code stores it; `Mask` is `BLOCK_REFCOUNT_MASK` (0xfffe in the code, 6 in the runs, any
even number from 4 in the proofs). Each iteration of the loops of `latching_incr_int`,
`latching_incr_int_not_deallocating` and `latching_decr_int_should_deallocate` is two steps, `...Load` and `...Swap`
(or `...Retry` when the word has changed); `...Latched` and `TryRefused` are the early returns. `refs` is the set of
program pointers that own a count, `pin` the pointer a copy reads the block from (the caller must hold it during the
call, as with any reference count), `disposer` the thread that got `true` from the last release. The dispose helper
may copy and release the block it is disposing of (`HelperCopy`, `HelperRelease`). Clearing weak references at
`_Block_destructInstance` is Objective-C runtime code outside the repository: it takes the lock that weak loads hold,
as the callback's place before `free` implies.

### BlockByref

`fwd`, `flags`, `memory` and `data` are the fields of each structure: `Stack` is the one in the frame, the members of
`Heap` are the copies. `_Block_byref_copy` is split at every load and store another thread could see
(`CheckForwarding`, `Allocate`, `Publish`, `CopyData`, `Increment`, `Return`), `_Block_byref_release` likewise; the
atomic functions are one step, since `BlockRefcount` takes them apart. Threads of `FrameThreads` run code of the open
frame; any thread may run a heap block that it owns.

### RunLoop

`frames` is the stack of runs, each with the locals of `__CFRunLoopRun` and the per-run data. The loop's lock makes
each stretch between two unlocked points one action, named for what it does: `Observe`, `Detach`/`CallBlock`/
`Reattach` (`__CFRunLoopDoBlocks`), `Collect`/`Perform`/`Skip` (`__CFRunLoopDoSources0`), `PollDispatch`, `Wait`,
`Handle`, `Decide`. During a callout, and in `Wait`, clients act: `Signal`, `PerformBlock`, `Stop`, `StopMode`,
`Timeout`, `Invalidate` then `RemoveFromModes`, and `WakeUp`, which is a call of its own. `Enter` starts a run, also
from inside a callout. `due`, `posted` and `ran` are history.

The file is cut in places, and the model says what it assumes there: the prologue of a run (per-run data with
`ignoreWakeUps` cleared, stopped flag, timeout), the test of which port a message came from (the main queue's port,
the wake-up port or another one), and the variable `didDispatchPortLastTime` (either value). The notes say the loop
looks for any version 1 source before it sleeps (`RunLoop笔记.md:60`); the code looks at the main queue's port only
(`CFRunLoop.c:2361`), and the model follows the code.

### RunLoopTimers

Dates are ticks of `_fireTSR`. `timers` is the array; `Search` is the halving search of
`__CFRunLoopInsertionIndexInTimerArray`, test by test (`Halving` says where the tests that are left lead from an
index), with the look at both ends that comes first in an array of more than `Many` timers (256 in the code, 1 in the
runs); `Deadlines` takes the timers that the walk of `__CFArmNextTimerInMode` reaches before its early exit, and the
earliest dates among them (`Earliest`); `ArmNext` is what that function then does to the kernel timer (mk timer and
dispatch timer are one `armed` date). `Without` and `Collect` are the array calls.
`DoTimers` collects, `StartTimer`/`SkipTimer` fire or pass over each collected timer, `EndCallout`, `RemoveOnce` and
`FinishTimer` are what follows the callout; the next date of a timer that was taken out of the mode meanwhile is
stored in a step of its own (`StoreDate`), because such a timer is unlocked before, and a date that another thread
sets in between is overwritten. Calls of clients or callouts test what the code tests before the lock in a
first step (`BeginAdd`, `BeginSet`, `BeginInvalidate`) and do the rest under the lock in a second. One mode of one
loop; a nested run is in the same mode. The wake-up that `CFRunLoopTimerSetNextFireDate` sends "just in case"
(`CFRunLoop.c:3600`) is left out: it makes the loop's thread go round once more and find nothing, and no property
relies on it.

### RunLoopModes

`in[l][m]` is what mode `m` of loop `l` holds, `items[l]` and `common[l]` are `_commonModeItems` and `_commonModes`.
What the items remember is what their invalidation goes by: `bag` (a source's `_runLoops`), `home` and `count` (an
observer's `_runLoop` and `_rlCount`), `home` and `names` (a timer's `_runLoop` and `_rlModes`). `BeginAdd` makes the
tests that come before the loop's lock, `Insert` those under it (`Refused`) and the insertion. A call for the common
modes (`AddToItems`) and a mode made common (`AddCommonMode`) keep the recursive lock of the loop over a series of
calls, one `NextAdd` and `Insert` for each item and mode, while other threads invalidate. `BeginInvalidate` unsets the
valid bit and notes the item's loops; `LeaveLoop` locks one of them after the other. A mode that does not exist is an
empty one, and the early returns for a loop that is being deallocated are left out: loops outlive the calls made on
them. `late` is history: the items that were put in after they had lost the valid bit, which the code permits.

### RunLoopRegistry

`dict` is `__CFRunLoops`, `slot` and `cntr` are the two slots of a thread's table, `refs` the owners of each loop.
`GetCurrent` looks at the slot, `Look`/`Make`/`Insert`/`Note` are `_CFRunLoopGet0` cut where the lock is given up,
`MakeDict`/`SwapDict` the first dictionary and its compare-and-swap. A thread's end walks the rounds of
`__CFTSDFinalize`: slots below the counter's, the counter's own destructor (`CountDown`, `NoLoop`, `Finalize` and
`Purge`, which are `__CFFinalizeRunLoop`), slots above; in between, destructors may ask for any loop (`Asking`).
Threads of `Others` may have a table before they have a loop. `got` (what callers were given) and `kept` (the loop a
thread had in time) are history.

### MachPort

The objects of a pool wrap ports; `st` is `_state` with three more values for an object not yet made, made but not yet
published, and gone. References are sets of owners (a thread, the table `__CFAllMachPorts`, a block queued to the main
queue, a run loop source). `Find` and `Insert` are the two stretches of `_CFMachPortCreateWithPort2` under the lock,
`Watch` sets the dispatch source after it. `BeginInvalidate` (a client) and `Check` (the checker that runs when some
port has died) start the end of an object; `Notify`, `EndSource`, `ReleaseInfo` and `Finish` are the stretches of
`__CFMachPortInvalidateLocked` between its callouts, run by the client or by the main queue's block.
`BeginCreateSource` and `BeginAddSource` are the tests of validity that come before the locks of
`CFMachPortCreateRunLoopSource` and `CFRunLoopAddSource`; `CreateSource` tests again and takes the object's source, or
a new one for an invalid one, which may fail (`SourceOf`); `AddSource` does not test again. `Deallocate` is
the last release with its own branch for an object that is still valid, `CancelHandler` and `Reclaim` how the rights
come back. `Arrive` retains the source and gives up the loop's lock, `TestSource` looks at the source's validity
under its own, `Perform` at the object's, and `Performed` ends the callout.

## 3. Runs

Every passing run ends within minutes on two cores, and between them they fire every action.

| Run | Bounds | Shows |
|---|---|---|
| `BlockRefcount` | 3 threads, 4 pointers, the mask at 3 references, 2 weak loads, 3 helper operations | the count is exact until it latches, the block is disposed of once, freed out of everybody's reach, and freed if its owners are gone; it refines `BlockLifetime` |
| `BlockByref` | a frame with 1 thread, 2 more threads, 3 blocks, 2 heap copies, 2 writes | all blocks and the frame share one structure, its count is exact, and it is freed in the end |
| `BlockByrefRace` (violation) | 2 threads inside the frame | two concurrent first copies break `os_assert(refcount)` |
| `RunLoop` | 2 modes, 2 sources (one invalidated), 2 blocks, main queue, observer, timeout, stop; one run at a time | no lost wake-up, blocks in order; signals, blocks, stops and timeouts take effect |
| `RunLoopNested` | the same with runs nested from every kind of callout, 2 deep | blocks run once, sources are performed once per signal |
| `RunLoopLostWakeUp` (violation) | a block that runs the loop in another mode | the nested run takes the message meant for the outer one |
| `RunLoopTimers` | one-shot, repeating and tolerant timer, 3 dates, a client, nesting 2 deep | deadlines are right, a timer is in one callout, dates are honoured; without invalid timers in the mode, arming is right and due timers fire |
| `RunLoopTimersRace` (violation) | two clients, `add` and `invalidate` of one timer | an invalid timer stays in the mode and is its soft deadline |
| `RunLoopModes` | 2 threads, 2 loops, 2 modes, a source and a timer for both loops, an observer for one | what items know of their loops is so, invalidation takes them out of every mode, common items are in all common modes |
| `RunLoopRegistry` | 3 threads, 5 loops, 4 rounds of destructors; one thread may have other data in its table | all who ask for a thread's loop get the same live one, and nobody owns it when the thread has ended |
| `MachPort` | a watched and an unwatched port, 2 threads, a source | callbacks are called once, port deaths reach them, the checker leaves what is in use, no source, info or object outlives its owners, rights come back |
| `MachPortRace` (violation) | 2 threads that ask for the object of one port | an invalidation misses the dispatch source |

**Why the bounds are enough to be interesting.** In `BlockRefcount`, 4 pointers exceed the mask, so counts latch
both by copies and by weak loads, and with 3 threads a swap can fail against each kind of other operation. In
`BlockByref`, 2 heap copies make a second copy possible (it is what `BlockByrefRace` finds), and 3 blocks are copied
from the frame, from a block and released in any order. In `RunLoop`, two modes with items in one or both make blocks
stay behind, and one client is enough because a callout's calls are its calls, too; in `RunLoopNested` blocks and
sources of the inner and outer mode meet at depth 2, which is where the code keeps one detached list and one set of
collected sources per run. In `RunLoopTimers` three timers give the search and the early exit every relative order,
with equal dates, `Many` at 1 leads through each branch of the search, and the tolerance makes a later timer's hard
deadline the earlier one; the repeating timer is taken out of the mode during its callout and re-dated there. In `RunLoopModes` two threads
suffice for a test to go stale, and two loops and modes for an item to leave one place and keep another; a source is
added to single and common modes of both loops, so that its bag counts past one. In `RunLoopRegistry` five loops are
as many as three threads can make, four rounds are `PTHREAD_DESTRUCTOR_ITERATIONS`. In `MachPort` one object is
reached by everything that may end it; the second one is there to be swept by the checker for nobody's wanting it. The
pool has one object for each port, and one source: what two objects made for one port by two racing threads do, and
the replacement of an invalid source, are beyond the time of a run (`MachPortRace` has the first of them) and covered
by the theorems, which bound neither.

**Deadlock** is checked in `RunLoop` and `RunLoopNested`. The block runs and the timer runs end: when the bounded
calls, writes and clock ticks are used up, nothing need happen any more. So do the others: items end invalid, threads
end, and every object of the pool may be gone.

**Fairness.** `BlockRefcount` and `BlockByref`: weak fairness of each thread's steps inside the runtime (a thread is
scheduled; the program need not call). `RunLoop`: weak fairness of the loop's thread, i.e. callouts return and
`mach_msg` returns when a message is there, and of a client that owes a wake-up or a removal; no message, call or run
is owed. `RunLoopTimers`: the same, the kernel timer goes off, and strong fairness of the return of a callout: a
callout may run the loop again, but only finitely often. `MachPort`: weak fairness of calls that have begun, of the
dispatch queues, which run what they were given and report a watched port's death, and of a message's callout; no
message, call or death is owed. `RunLoopModes` and `RunLoopRegistry` have no liveness property and assume nothing.

## 4. Findings

* `BlockByrefRace`: `_Block_byref_copy` tests and patches `forwarding` without synchronisation; two threads that copy
  their first blocks at once (from `dispatch_apply` in the frame) make two heap copies, and a release later finds a
  count of zero, against the assertion in `_Block_byref_release`.
* `RunLoopLostWakeUp`: a wake-up for a block of the outer mode can be consumed by a nested run in another mode, after
  which the outer run sleeps with the block in its queue.
* `RunLoopTimersRace`: `CFRunLoopAddTimer` tests validity before the lock; an invalidation in between leaves an
  invalid timer in the mode, whose date stays the soft deadline, so that later timers are not armed.
* `MachPortRace`: `_CFMachPortCreateWithPort2` sets `_dsrc` ("protected by `_lock`") without the lock after the object
  is in the table. A thread that finds and invalidates the object in between cancels nothing; the dispatch source set
  afterwards is never cancelled, and the block that gives the port's rights back waits for ever.

One more came up when `ArmedForFirst` could not be proved without `[]OnlyValid`. (With two clients and two timers
without tolerance, TLC finds it in ten states if that condition is left out.)
`__CFRunLoopDoTimer` resets the remembered deadlines "just in case the next timer has exactly the same deadlines as
this one" (`CFRunLoop.c:2043`), but only when it fires a timer. Let another thread be between `__CFUnsetValid`
(`CFRunLoop.c:3642`) and the removal from the mode. The kernel timer goes off at the invalid timer's date, nothing
fires, and the deadlines stay. A timer that is now given the very same deadlines changes nothing in
`__CFArmNextTimerInMode`; when the invalid timer is removed nothing changes either, and the other timer is never
armed. `ArmedForFirst` and `DueFires` therefore speak of behaviours in which every timer of the mode is valid, or has
fired once and is being taken out by the loop's own thread (`OnlyValid`); `DeadlinesRight` needs no such condition
once the invalid timer has gone.

Two further observations no run is about: an observer may be put into two loops, since `CFRunLoopAddObserver` tests
its loop before the lock only (`CFRunLoop.c:2802`), and a loop first made in a late round of destructors is never
finalized (`CFRunLoop.c:1390`). The properties leave both out by name (`OneLoop`, `kept`), because the repository
promises nothing about them.

## 5. Proofs

TLAPS checks every theorem, for every number of threads, pointers, loops, modes, items, ports, objects, timers, dates
and nested runs, and every value of `Mask` and of the rounds of destructors the assumptions allow. Assumptions on
constants are named in the module that declares them; TLC evaluates them in the runs.

**`BlockRefcountProofs`**: `TypeCorrect`, `MemorySafe` (`NoUseAfterFree`), `Exact` (`CountExact`), `Dead`
(`NoResurrection`), `DisposedOnlyOnce`, `LatchedCountStays`, `ImplementsLifetime`. None of the safety properties is
inductive: that the block is freed out of reach depends on nobody being inside a call, which depends on the pointers
calls work on. The inductive invariant `IInv` adds to the type invariant and `CountExact`: no references exist without
a live block (`Absent`), the deallocating bit, the disposing thread and its program counter agree (`Disposal`), which
pointers each step of an operation works on (`Pointers`), and that two threads work on different ones (`Exclusive`).
`NextInv` has one case per action and, under it, one step per conjunct. Lemmas on the word (`WordFacts`,
`IncrementFacts`, `DecrementFacts`) do the arithmetic once. The refinement maps the flags word to the phase of
`BlockLifetime`; loads, retries and the helper's operations map to stuttering (`Stutter`, `HelperStep`), swaps to
`Acquire` and `Drop` (`AcquireStep`, `DropStep`, `LastDropStep`).

**`BlockByrefProofs`**: `TypeCorrect`, `ExactCount` (`CountExact`), `OneForAll` (`OneVariable`), `AssertHolds`
(`RefcountAsserted`), `NoUseAfterFree` (`NothingFreed`, stated there). All of them assume `OneInFrame`: one thread at
most runs code of the frame. Without it they are false, as `BlockByrefRace` shows; with it the code is right for any
number of threads that run, copy and release the blocks. The invariant says who is alone: whoever makes the copy is
the only one that copies, and before it is published nobody else has a pointer at all (`Alone`). It follows that there
is one copy, which forwards to itself (`StructsOK`), and that its word is in one of four phases: latched, twice the
number of holders, given up by all and in the hands of one destroyer, freed (`Phase`). `EvenWord`, `OtherWords` and
`WordKept` do the arithmetic of the word once.

**`RunLoopProofs`**: `SignalsKept` (`SignalKept`) and `PerformedOncePerSignal` (`PerformsOnlyDue`). The signals live
in a small inductive invariant of their own (`SignalInv`). The action property needs that every frame of the stack is
well formed (`Typed`); `LoopFrames` says once, for every step of the loop's thread, what it may do to the stack: replace the top frame by one that calls
out to no source, perform a source, or leave.

**`RunLoopWakeUpProofs`**: `TypeCorrect` and `WakeUpsKept` (`NoLostWakeUp`), the second for runs that nest in the
callouts of sources and messages (`NestsLate`); where a block's callout runs the loop it is false, as
`RunLoopLostWakeUp` shows. One wake-up message serves everything that happened before it, so the invariant (`WakeInv`)
speaks of the loop's whole round: the current run will not sleep before its next look at everything (`Calm`: it polls,
or is past its sleep), or a wake-up is on its way (`Owed`: the message is in the port, or its caller is about to send
it), or nothing happened behind the run's back (`Ahead`: it has yet to look at the sources and at the blocks, or there
is nothing for it in them, and nobody asked it to end). Runs below the current one are `Calm`, which is why a nested
run may take their message: every callout of a source or a message is followed by such a look. `FrameOK` ties the
callout and the detached blocks to the step of the cycle.

`QueuedFirstRunsFirst` (`FirstCome`), in the same module, holds again under `NestsLate`: a run nested in the callout
of a block cannot see the blocks the outer run has detached. The invariant looks at all waiting blocks as one line
(`Line`): what the current run has passed over, what is left of its list, then the queue. Only `PerformBlock` and
`CallBlock` change the line, at its end and by taking one block out (`LineInv`, `BlockJoins`, `BlockRuns`); detaching,
putting back, entering and leaving a run do not, because a run holds blocks while it drains its list only (`HoldInv`).
`Row` and `TakenOut` are the lemmas on sequences behind it, `NoBlocks` says of all other steps that they leave the
blocks where they are.

`BlocksInOnePlace` (`BlocksOnce`) assumes nothing about nesting. The property numbers the rows a block may stand in:
those that ran, the queue, and what each run of the stack holds. With `HoldingInv` (a run holds blocks only while it
drains) it is inductive. A step that moves blocks is described by a function from the new places to the old ones
that keeps the block and is one to one and onto (`Moved`); there is one lemma for each way a row may change:
`RowDetached`, `RowCalled`, `RowReattached`, `RowPosted`, and `SameRows` for the rest, runs that begin and end
included.

**`RunLoopTimersProofs`**: `TypeCorrect`, `DeadlinesAreRight` (`DeadlinesRight`), `FiringOnce` (`FiresOnce`),
`DatesHonoured` (`DateHonoured`) and `NotLate` (`ArmedForFirst`), for any number of timers, dates, threads and nested
runs. The first half proves what the module's functions compute for *every* array. The induction theorems of the
library cannot be instantiated, so the module proves its own: strict inclusion is well-founded on finite sets, hence
sets of numbers have least elements (`LeastExists`), hence induction over a set of numbers (`NatInductionSet`) and the
existence of functions defined by recursion on `0..n` (`Recursion`). With these, the halving search on a sorted array
ends between the last date not above the key and the first above it, and so does the look at its ends
(`HalvingRight`, `SearchRight`), so insertion and
removal keep the array sorted (`InsertRight`, `WithoutRight`); `Collect` returns what is due (`CollectRight`); the
next date is the first on the grid after now (`NextFireRight`); and on a sorted array the walk's early exit loses
nothing (`DeadlinesExact`). The inductive invariant `Inv` has two halves: `ModeRight`, that the array is sorted, holds
each timer once, and has the deadlines that belong to it (unless an invalid timer waits in it), and `LoopRight`, that
each run of the stack holds one firing timer at most and different runs different ones. `StoreRight` goes with them:
a date is stored without the timer's lock only for a timer that cannot come into the mode before, since the run holds
the loop's lock (`StoreKept`). `NotLate` adds `ArmRight`: in
a behaviour of valid timers the kernel timer is set for the soft deadline or its message is there (`Prepared`), unless
the loop's thread has just taken the message and is about to fire what is due, which resets the deadlines.

**`RunLoopModesProofs`**: `TypeCorrect`, `KnowsItsPlaces` (`BackPointers`), `InvalidatedEverywhere` (`InvalidOut`),
`CommonItemsEverywhere` (`CommonCovered`). None of the last three is inductive, as each is broken in the middle of a
series or of an invalidation. The invariant says who repairs it: where an invalid item still is, some thread has that
loop and mode before it (`PendingOK`); where a common item is missing, the holder of the loop's lock has it in its
list (`CoveredOK`); `RightOK` is `BackPointers` item by item, with the counting done by lemmas on finite sets of
places; `CallOK` says that items only ever meet loops they were called for. Loops and modes are assumed finite, since
entries are counted.

**`RunLoopRegistryProofs`**: `TypeCorrect`, `OneLoop` (`UniqueLoop`), `EndDestroys` (`DestroyedAtEnd`). The heart is
the counter: in round *r* it is at least `Iterations` − *r* (`CounterOK`), so the loop is not let go before the last
round, and for a loop its thread had in time it is exactly that, so it is let go then. Around it: a loop just made
belongs to its maker alone (`NewOK`), the dictionary owns each loop under one key (`DictOK`), and calls, slots and
callers hold what the dictionary holds (`SlotOK`).

**`MachPortProofs`**: `TypeCorrect`, `CalledOnce` (`NotifiedOnce`), `NoSourceLeft` (`SourcesEnd`), `NeverRevived`
(`InfoNotRevived`), `InvalidFirst` (`InvalidBeforeDealloc`), `OnlyUnwantedSwept` (`InUseStays`). The invariant gives every object that is going invalid
exactly one actor or queued block that ends it (`EndsOK`), which owns it (`StepsOK`, `MainOK`) and has its source in
hand (`SourceOK`); the table holds exactly the ready objects, which still have their info (`TableOK`). From there the
last release finds the object invalid (`Unowned`), so that the branch of `__CFMachPortDeallocate` for a valid object
is never taken, as the code's own log message expects.

**Only model-checked**: the liveness properties, which are out of the prover's reach: `UnownedIsFreed`, `Served`,
`Ends`, `DueFires`, `DeathNotified` and the two named `Reclaimed`. Every invariant and every action property that a
passing run checks is a theorem.

## 6. Not modelled

* Mach message contents, buffers and vouchers; the Windows and Linux variants; description functions.
* `CFRunLoopTimerSetTolerance` (it changes a value that is read at the next arming) and timers in several modes.
* An interval that is positive but rounds to zero ticks: the code halts on it, as its own comment says.
* Failed allocations: `_Block_copy` returns NULL and nothing changes; `_Block_byref_copy` does not test.
* Blocks and ports under garbage collection.
* `CFRunLoopRemoveAll...`, the schedule and cancel callouts of version 0 sources, port sets, the order and masks of
  observers; an observer's repeat flag.
* `CFMachPortCreate`, which makes a new port and marks its rights as owned after the object is published; contexts
  without retain and release.
* Foundation's counterpart of a run loop, `_CFRunLoopSetCurrent`, and a `pthread_t` that is used again.
* The nine tenths of the repository's lines that are compiler output (`clang -rewrite-objc` of the block demos) or
  vendored CoreFoundation (strings, URLs, property lists, containers): sequential data conversion without state of
  the program's own, kept for reference. This is why the lines the models stand for are a small share of all lines.
* The demos that only call frameworks whose source is not here.

## 7. Plan

1. Theorems about steps that remain: what a run's `Decide` may end with, and that `RunLoop`'s list of blocks is a
   queue in the sense of an abstract module of its own, as `BlockRefcount` is a lifetime.
2. `RunLoopModes` with the removal of all items and the schedule and cancel callouts (`CFRunLoop.c` 2664, 2750), then
   `MachPort`'s source put into it by `INSTANCE` in place of its own `valid` and `keep`.
3. `BlockGraph`: `_Block_object_assign` and `_Block_object_dispose` over nested blocks, on top of `BlockLifetime`.
4. `KeptThread` and `CondQueue`: the demos that stop a thread through its run loop, and the condition demos.
