----------------------------- MODULE RunLoopModes ----------------------------
(***************************************************************************)
(* What the modes of run loops hold (CFRunLoop.c): sources, timers and     *)
(* observers, put into single modes or into all common modes, taken out    *)
(* again and invalidated, by several threads and for several loops.        *)
(*                                                                         *)
(* Loop locks are recursive and held over a whole call; validity and the   *)
(* loop of an item are tested before the lock is taken, and an item is     *)
(* invalidated before its loops are locked.  A call for the common modes   *)
(* makes one call for each mode, with the loop locked throughout; the ones *)
(* that add test the item again each time.  A mode that does not exist is  *)
(* an empty one.                                                           *)
(***************************************************************************)
EXTENDS Naturals, FiniteSets

CONSTANTS Thread, Loop, Mode, Item,
          Kind,        \* of each item: source, timer or observer
          Common,      \* the name kCFRunLoopCommonModes
          Default,     \* kCFRunLoopDefaultMode, common from the start
          None,
          Calls        \* what threads call: <<call, loop, mode, item>>

ASSUME ModesAssumption ==
    /\ IsFiniteSet(Loop) /\ IsFiniteSet(Mode)
    /\ Kind \in [Item -> {"source", "timer", "observer"}]
    /\ Default \in Mode /\ Common \notin Mode /\ None \notin Loop \cup Thread
    /\ Calls \subseteq {"add", "remove", "common", "invalidate"} \X Loop
                        \X (Mode \cup {Common}) \X Item
    /\ \A c \in Calls : c[1] = "common" => c[3] \in Mode

VARIABLES lock,        \* holder of each loop's lock between two steps
          common,      \* _commonModes of each loop
          items,       \* _commonModeItems
          in,          \* what each mode of each loop holds
          valid,       \* items with the valid bit
          bag,         \* a source's _runLoops: entries for each loop
          home,        \* _runLoop of a timer or observer
          count,       \* _rlCount of an observer
          names,       \* _rlModes of a timer
          pc,          \* each thread's call
          late         \* history: items inserted although no longer valid

vars == <<lock, common, items, in, valid, bag, home, count, names, pc, late>>
loops == <<lock, common, items, in>>
back == <<bag, home, count, names>>

\* A call: the loop, the mode named by the caller, and the <<item, mode>> pairs
\* still to be added; in an invalidation, the loops and modes to be left.
Idle == [at |-> "idle", loop |-> None, todo |-> {}, left |-> {}]
Call(step, l, pairs) == [at |-> step, loop |-> l, todo |-> pairs, left |-> {}]
Goes(t, f) == pc' = [pc EXCEPT ![t] = f]
Free(t) == pc[t] = Idle
MayLock(t, l) == lock[l] \in {None, t}

IsSource(i) == Kind[i] = "source"
IsTimer(i) == Kind[i] = "timer"

\* The tests made before any lock.
Admitted(l, i) == i \in valid /\ (IsSource(i) \/ home[i] \in {None, l})

Init ==
    /\ lock = [l \in Loop |-> None]
    /\ common = [l \in Loop |-> {Default}]
    /\ items = [l \in Loop |-> {}]
    /\ in = [l \in Loop |-> [m \in Mode |-> {}]]
    /\ valid = Item
    /\ bag = [i \in Item |-> [l \in Loop |-> 0]]
    /\ home = [i \in Item |-> None]
    /\ count = [i \in Item |-> 0]
    /\ names = [i \in Item |-> {}]
    /\ pc = [t \in Thread |-> Idle]
    /\ late = {}

-----------------------------------------------------------------------------
(* CFRunLoopAddSource, AddTimer, AddObserver.                              *)

BeginAdd(t, l, m, i) ==
    /\ Free(t) /\ Admitted(l, i)
    /\ Goes(t, Call(IF m = Common THEN "items" ELSE "insert", l, {<<i, m>>}))
    /\ UNCHANGED <<loops, valid, back, late>>

\* The common modes: the item is kept for modes that become common later, and the
\* call is made for each mode that is common now.
AddToItems(t) ==
    LET l == pc[t].loop IN
    /\ pc[t].at = "items" /\ MayLock(t, l)
    /\ \E i \in {x[1] : x \in pc[t].todo} :
          /\ items' = [items EXCEPT ![l] = @ \cup {i}]
          /\ Goes(t, Call("each", l, {i} \X common[l]))
    /\ lock' = [lock EXCEPT ![l] = t]
    /\ UNCHANGED <<common, in, valid, back, late>>

AddCommonModeBare(t, l, m) ==          \* mutant: the items kept are forgotten
    /\ Free(t) /\ MayLock(t, l) /\ m \notin common[l]
    /\ common' = [common EXCEPT ![l] = @ \cup {m}]
    /\ UNCHANGED <<lock, items, in, valid, back, pc, late>>

\* CFRunLoopAddCommonMode: so is a call for each item kept, when the mode is new.
AddCommonMode(t, l, m) ==
    /\ Free(t) /\ MayLock(t, l) /\ m \notin common[l]
    /\ common' = [common EXCEPT ![l] = @ \cup {m}]
    /\ lock' = [lock EXCEPT ![l] = t]
    /\ Goes(t, Call("each", l, items[l] \X {m}))
    /\ UNCHANGED <<items, in, valid, back, late>>

NextAddLocked(t) ==                    \* mutant: a series may end without an unlock
    LET l == pc[t].loop IN
    /\ pc[t].at = "each"
    /\ IF pc[t].todo = {} THEN Goes(t, Idle)
       ELSE \E x \in pc[t].todo :
              Goes(t, IF Admitted(l, x[1])
                      THEN [Call("insert", l, {x}) EXCEPT !.left = pc[t].todo \ {x}]
                      ELSE Call("each", l, pc[t].todo \ {x}))
    /\ UNCHANGED <<loops, valid, back, late>>

\* One call of a series, up to its tests; the series ends with the unlock.
NextAdd(t) ==
    LET l == pc[t].loop IN
    /\ pc[t].at = "each"
    /\ IF pc[t].todo = {}
       THEN Goes(t, Idle) /\ lock' = [lock EXCEPT ![l] = None]
       ELSE /\ \E x \in pc[t].todo :
                 Goes(t, IF Admitted(l, x[1])
                         THEN [Call("insert", l, {x}) EXCEPT !.left = pc[t].todo \ {x}]
                         ELSE Call("each", l, pc[t].todo \ {x}))
            /\ UNCHANGED lock
    /\ UNCHANGED <<common, items, in, valid, back, late>>

\* A timer's own record says whether it is in the mode; under its lock it may turn
\* out to belong to another loop.
RefusedInMode(l, m, i) == IF IsTimer(i) THEN m \in names[i] ELSE i \in in[l][m]
                                       \* mutant: the timer's loop is not tested again
Refused(l, m, i) == IF IsTimer(i) THEN m \in names[i] \/ home[i] \notin {None, l}
                    ELSE i \in in[l][m]

NoteSource(l, i) == /\ bag' = [bag EXCEPT ![i][l] = @ + 1]
                    /\ UNCHANGED <<home, count, names>>
NoteTimer(l, m, i) == /\ home' = [home EXCEPT ![i] = l]
                      /\ names' = [names EXCEPT ![i] = @ \cup {m}]
                      /\ UNCHANGED <<bag, count>>
NoteObserver(l, i) == /\ home' = IF count[i] = 0 THEN [home EXCEPT ![i] = l] ELSE home
                      /\ count' = [count EXCEPT ![i] = @ + 1]
                      /\ UNCHANGED <<bag, names>>

Insert(t) ==
    LET l == pc[t].loop IN
    /\ pc[t].at = "insert" /\ MayLock(t, l)
    /\ \E x \in pc[t].todo :
          LET i == x[1] m == x[2] IN
          \/ Refused(l, m, i) /\ UNCHANGED <<in, back, late>>
          \/ /\ ~Refused(l, m, i)
             /\ in' = [in EXCEPT ![l][m] = @ \cup {i}]
             /\ CASE Kind[i] = "source" -> NoteSource(l, i)
                  [] Kind[i] = "timer" -> NoteTimer(l, m, i)
                  [] Kind[i] = "observer" -> NoteObserver(l, i)
             /\ late' = IF i \in valid THEN late ELSE late \cup {i}
    /\ Goes(t, IF lock[l] = t THEN Call("each", l, pc[t].left) ELSE Idle)
    /\ UNCHANGED <<lock, common, items, valid>>

-----------------------------------------------------------------------------
(* CFRunLoopRemoveSource, RemoveTimer, RemoveObserver.                     *)

ForgetSource(l, n, i) == /\ bag' = [bag EXCEPT ![i][l] = IF @ < n THEN 0 ELSE @ - n]
                         /\ UNCHANGED <<home, count, names>>
ForgetTimer(M, i) == /\ names' = [names EXCEPT ![i] = @ \ M]
                     /\ home' = IF names[i] \subseteq M THEN [home EXCEPT ![i] = None] ELSE home
                     /\ UNCHANGED <<bag, count>>
ForgetObserver(n, i) == /\ count' = [count EXCEPT ![i] = @ - n]
                        /\ home' = IF count[i] = n THEN [home EXCEPT ![i] = None] ELSE home
                        /\ UNCHANGED <<bag, names>>

\* Item i leaves those of the modes M of loop l that it is in.
Leave(l, M, i) ==
    LET gone == {m \in M : i \in in[l][m]}
        n == Cardinality(gone) IN
    /\ in' = [in EXCEPT ![l] = [m \in Mode |-> @[m] \ (IF m \in gone THEN {i} ELSE {})]]
    /\ IF gone = {} THEN UNCHANGED back
       ELSE CASE Kind[i] = "source" -> ForgetSource(l, n, i)
              [] Kind[i] = "timer" -> ForgetTimer(gone, i)
              [] Kind[i] = "observer" -> ForgetObserver(n, i)

Remove(t, l, m, i) ==
    /\ Free(t) /\ MayLock(t, l) /\ m \in Mode
    /\ Leave(l, {m}, i)
    /\ UNCHANGED <<lock, common, items, valid, pc, late>>

RemoveCommon(t, l, i) ==
    /\ Free(t) /\ MayLock(t, l) /\ i \in items[l]
    /\ items' = [items EXCEPT ![l] = @ \ {i}]
    /\ Leave(l, common[l], i)
    /\ UNCHANGED <<lock, common, valid, pc, late>>

-----------------------------------------------------------------------------
(* CFRunLoopSourceInvalidate, TimerInvalidate, ObserverInvalidate: under    *)
(* the item's lock it loses its valid bit, and the loops it knows are taken *)
(* note of; then each is locked and the item taken out of all its modes, or *)
(* a timer out of those noted.                                             *)

LoopsOfSource(i) == {l \in Loop : bag[i][l] > 0}
LoopOf(i) == {home[i]} \ {None}

BeginInvalidate(t, i) ==
    LET known == IF IsSource(i) THEN LoopsOfSource(i) ELSE LoopOf(i)
        modes == IF IsTimer(i) THEN names[i] ELSE Mode IN
    /\ Free(t) /\ i \in valid
    /\ valid' = valid \ {i}
    /\ bag' = [bag EXCEPT ![i] = [l \in Loop |-> 0]]
    /\ Goes(t, [at |-> "leave", loop |-> None, todo |-> {i} \X modes, left |-> known])
    /\ UNCHANGED <<loops, home, count, names, late>>

LeaveFirst(t) ==                       \* mutant: params[1] stops all other loops too
    /\ pc[t].at = "leave"
    /\ \E l \in pc[t].left, x \in pc[t].todo :
          /\ MayLock(t, l)
          /\ Leave(l, Mode, x[1])
          /\ items' = [items EXCEPT ![l] = @ \ {x[1]}]
          /\ pc' = [pc EXCEPT ![t].left = {}]
    /\ UNCHANGED <<lock, common, valid, late>>

LeaveLoop(t) ==
    /\ pc[t].at = "leave"
    /\ \E l \in pc[t].left, i \in Item :
          LET kept == i \in items[l]
              noted == {x[2] : x \in {y \in pc[t].todo : y[1] = i}} IN
          /\ noted # {} /\ MayLock(t, l)
          /\ Leave(l, noted \cup (IF kept THEN common[l] ELSE {}), i)
          /\ items' = [items EXCEPT ![l] = @ \ {i}]
          /\ pc' = [pc EXCEPT ![t].left = @ \ {l}]
    /\ UNCHANGED <<lock, common, valid, late>>

EndInvalidate(t) ==
    /\ pc[t].at = "leave" /\ pc[t].left = {}
    /\ Goes(t, Idle)
    /\ UNCHANGED <<loops, valid, back, late>>

-----------------------------------------------------------------------------
May(c, l, m, i) == <<c, l, m, i>> \in Calls
Asks(t, c) ==
    LET l == c[2] m == c[3] i == c[4] IN
    \/ c[1] = "add" /\ BeginAdd(t, l, m, i)
    \/ c[1] = "remove" /\ m # Common /\ Remove(t, l, m, i)
    \/ c[1] = "remove" /\ m = Common /\ RemoveCommon(t, l, i)
    \/ c[1] = "common" /\ AddCommonMode(t, l, m)
    \/ c[1] = "invalidate" /\ BeginInvalidate(t, i)
Next == \E t \in Thread :
    \/ \E c \in Calls : Asks(t, c)
    \/ AddToItems(t) \/ NextAdd(t) \/ Insert(t) \/ LeaveLoop(t) \/ EndInvalidate(t)

Spec == Init /\ [][Next]_vars

-----------------------------------------------------------------------------
(* Properties.                                                             *)

\* Types, and: only the thread in the middle of a series holds a lock, and no
\* thread holds two.
TypeOK ==
    /\ lock \in [Loop -> Thread \cup {None}]
    /\ common \in [Loop -> SUBSET Mode] /\ items \in [Loop -> SUBSET Item]
    /\ in \in [Loop -> [Mode -> SUBSET Item]]
    /\ valid \subseteq Item /\ late \subseteq Item \ valid
    /\ bag \in [Item -> [Loop -> Nat]] /\ count \in [Item -> Nat]
    /\ home \in [Item -> Loop \cup {None}] /\ names \in [Item -> SUBSET Mode]
    /\ pc \in [Thread -> [at : {"idle", "items", "insert", "each", "leave"},
                          loop : Loop \cup {None},
                          todo : SUBSET (Item \X (Mode \cup {Common})),
                          left : SUBSET (Loop \cup (Item \X Mode))]]
    /\ \A l \in Loop : lock[l] # None =>
          pc[lock[l]].at \in {"insert", "each"} /\ pc[lock[l]].loop = l

Places(i) == {x \in Loop \X Mode : i \in in[x[1]][x[2]]}

\* What an item knows of the loops and modes it is in, which is all that its
\* invalidation goes by, is so: whichever threads add and remove it, before and
\* after its own loops were looked at without a lock.
BackPointers == \A i \in Item :
    CASE IsSource(i) -> i \in valid => \A l \in Loop :
                          bag[i][l] = Cardinality({x \in Places(i) : x[1] = l})
      [] IsTimer(i)  -> Places(i) = ({home[i]} \ {None}) \X names[i]
      [] OTHER       -> count[i] = Cardinality(Places(i)) /\ (count[i] = 0 <=> home[i] = None)

\* After its invalidation an item is in no mode, unless it was put in by a call that
\* had tested it before, or is an observer of several loops.
Leaving(i) == \E t \in Thread : pc[t].at = "leave" /\ \E x \in pc[t].todo : x[1] = i
OneLoop(i) == \A x, y \in {c \in Calls : c[4] = i} : x[2] = y[2]
InvalidOut == \A i \in Item \ (valid \cup late) :
    (Kind[i] # "observer" \/ OneLoop(i)) /\ ~Leaving(i) => Places(i) = {}

\* "add all common-modes items to new mode", "add new item to all common-modes"
\* (CFRunLoop.c:1577, 2625): whatever the order of the two, a valid common item is
\* in all common modes, unless it has been removed from a single one or, being a
\* timer or observer, belongs to several loops.
Kept(i) == \A c \in Calls : ~(c[1] = "remove" /\ c[3] # Common /\ c[4] = i)
CommonCovered == \A l \in Loop, m \in Mode : \A i \in items[l] \cap valid :
    lock[l] = None /\ m \in common[l] /\ Kept(i) /\ (IsSource(i) \/ OneLoop(i))
        => i \in in[l][m]
=============================================================================
