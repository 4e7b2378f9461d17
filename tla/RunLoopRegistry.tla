--------------------------- MODULE RunLoopRegistry ---------------------------
(***************************************************************************)
(* The run loop of a thread: made when somebody first asks for it          *)
(* (_CFRunLoopGet0), kept in the dictionary __CFRunLoops and in the        *)
(* thread's own slots, and let go by a destructor of thread specific data, *)
(* which counts the rounds of destruction down so as to come last.         *)
(*                                                                         *)
(* A round calls the destructors of the slots in order: those below the    *)
(* counter's slot, the counter's, and those above it.  Any of them may ask *)
(* for the current run loop.                                               *)
(***************************************************************************)
EXTENDS Naturals, FiniteSets

CONSTANTS Thread, Main, None,
          Others,        \* threads that may have other data in their table
          Asks,          \* whose run loops each thread asks for
          Iterations,    \* PTHREAD_DESTRUCTOR_ITERATIONS
          MaxLoops       \* how many loops may be made (a bound)

ASSUME RegistryAssumption ==
    /\ Main \in Thread /\ None \notin Nat
    /\ Asks \in [Thread -> SUBSET Thread]
    /\ Iterations \in Nat /\ Iterations >= 2
    /\ MaxLoops \in Nat \ {0}
    /\ {"dict", "source"} \cap Thread = {}

Loop == 1..MaxLoops

VARIABLES made,         \* __CFRunLoops has been set
          dict,         \* __CFRunLoops
          born,         \* how many loops have been made
          refs,         \* owners of each loop
          slot,         \* TSD slot __CFTSDKeyRunLoop of each thread
          cntr,         \* TSD slot __CFTSDKeyRunLoopCntr
          table,        \* the TSD table: not yet made, there, torn down
          life,         \* running; the round and slot of destruction; dead
          pc,           \* each thread's call
          got,          \* history: loops given out for a thread that has not let its own go
          kept          \* history: the loop a thread had in time to let it go

vars == <<made, dict, born, refs, slot, cntr, table, life, pc, got, kept>>
registry == <<made, dict, born, refs>>
tsd == <<slot, cntr, table>>

Idle == [at |-> "idle", who |-> None, loop |-> None]
Goes(u, step, l) == pc' = [pc EXCEPT ![u] = [at |-> step, who |-> pc[u].who, loop |-> l]]
At(u, step) == pc[u].at = step

Running == [round |-> 0, slot |-> "running"]
Dead == [round |-> 0, slot |-> "dead"]
LastRound == Iterations - 1
Asking(u) == pc[u] = Idle /\ life[u].slot \in {"running", "below", "above", "after"}

\* The counter's destructor has taken the thread's loop out of the dictionary.
Finalized(t) == \/ life[t].slot \in {"after", "dead", "purge"}
                \/ life[t].round = LastRound /\ life[t].slot = "above"

\* The counter starts before the first round comes to its slot.
InTime(t) == life[t] = Running \/ life[t] = [round |-> 1, slot |-> "below"]

Give(t, l) == got' = [got EXCEPT ![t] = IF Finalized(t) THEN @ ELSE @ \cup {l}]

Init ==
    /\ made = FALSE /\ born = 0
    /\ dict = [t \in Thread |-> None]
    /\ refs = [l \in Loop |-> {}]
    /\ slot = [t \in Thread |-> None] /\ cntr = [t \in Thread |-> 0]
    /\ table \in [Thread -> {"none", "there"}]   \* made for other data
    /\ \A t \in Thread \ Others : table[t] = "none"
    /\ life = [t \in Thread |-> Running]
    /\ pc = [t \in Thread |-> Idle]
    /\ got = [t \in Thread |-> {}]
    /\ kept = [t \in Thread |-> None]

-----------------------------------------------------------------------------
(* _CFRunLoopGet0.                                                         *)

\* CFRunLoopGetCurrent looks at the thread's slot first; a table is made for it
\* unless the thread's data has been torn down.
GetCurrent(u) ==
    /\ Asking(u) /\ u \in Asks[u]
    /\ table' = [table EXCEPT ![u] = IF @ = "none" THEN "there" ELSE @]
    /\ IF table[u] = "there" /\ slot[u] # None
       THEN Give(u, slot[u]) /\ UNCHANGED pc
       ELSE pc' = [pc EXCEPT ![u] = [at |-> "look", who |-> u, loop |-> None]] /\ UNCHANGED got
    /\ UNCHANGED <<registry, slot, cntr, life, kept>>

\* Foundation asks for another thread's.
GetOther(u, t) ==
    /\ Asking(u) /\ t \in Asks[u] \ {u} /\ life[t] # Dead
    /\ pc' = [pc EXCEPT ![u] = [at |-> "look", who |-> t, loop |-> None]]
    /\ UNCHANGED <<registry, tsd, life, got, kept>>

\* __CFRunLoopCreate
MakeLoop(u, step) ==
    /\ born < MaxLoops /\ born' = born + 1
    /\ refs' = [refs EXCEPT ![born + 1] = {u}]
    /\ Goes(u, step, born + 1)

\* Without a dictionary: one with the main thread's loop is made outside the lock.
MakeDict(u) ==
    /\ At(u, "look") /\ ~made
    /\ MakeLoop(u, "swap")
    /\ UNCHANGED <<made, dict, tsd, life, got, kept>>

\* The compare-and-swap; whose comes second is released with its loop.
SwapDict(u) ==
    LET l == pc[u].loop IN
    /\ At(u, "swap")
    /\ made' = TRUE
    /\ dict' = IF made THEN dict ELSE [dict EXCEPT ![Main] = l]
    /\ refs' = [refs EXCEPT ![l] = IF made THEN {} ELSE {"dict"}]
    /\ Goes(u, "look", None)
    /\ UNCHANGED <<born, tsd, life, got, kept>>

Look(u) ==
    LET l == dict[pc[u].who] IN
    /\ At(u, "look") /\ made
    /\ Goes(u, IF l = None THEN "make" ELSE "note", l)
    /\ UNCHANGED <<registry, tsd, life, got, kept>>

Make(u) ==
    /\ At(u, "make")
    /\ MakeLoop(u, "insert")
    /\ UNCHANGED <<made, dict, tsd, life, got, kept>>

InsertBlind(u) ==                       \* mutant: no second look
    LET t == pc[u].who new == pc[u].loop IN
    /\ At(u, "insert")
    /\ dict' = [dict EXCEPT ![t] = new]
    /\ refs' = [l \in Loop |-> IF l = new THEN {"dict"} ELSE refs[l] \ (IF l = dict[t] THEN {"dict"} ELSE {})]
    /\ Goes(u, "note", new)
    /\ UNCHANGED <<made, born, tsd, life, got, kept>>

\* The second look decides; the loop that is not needed is released.
Insert(u) ==
    LET t == pc[u].who new == pc[u].loop IN
    /\ At(u, "insert")
    /\ IF dict[t] = None
       THEN /\ dict' = [dict EXCEPT ![t] = new]
            /\ refs' = [refs EXCEPT ![new] = {"dict"}]
            /\ Goes(u, "note", new)
       ELSE /\ refs' = [refs EXCEPT ![new] = {}]
            /\ Goes(u, "note", dict[t])
            /\ UNCHANGED dict
    /\ UNCHANGED <<made, born, tsd, life, got, kept>>

NoteLate(u) ==                          \* mutant: the counter starts one too high
    LET t == pc[u].who l == pc[u].loop IN
    /\ At(u, "note")
    /\ IF t = u /\ table[u] = "there"
       THEN /\ slot' = [slot EXCEPT ![u] = l]
            /\ cntr' = [cntr EXCEPT ![u] = IF @ = 0 THEN Iterations ELSE @]
            /\ kept' = [kept EXCEPT ![u] = IF InTime(u) THEN l ELSE @]
       ELSE UNCHANGED <<slot, cntr, kept>>
    /\ Give(t, l)
    /\ pc' = [pc EXCEPT ![u] = Idle]
    /\ UNCHANGED <<registry, table, life>>

\* The thread itself keeps it in its slot and starts the counter.
Note(u) ==
    LET t == pc[u].who l == pc[u].loop IN
    /\ At(u, "note")
    /\ IF t = u /\ table[u] = "there"
       THEN /\ slot' = [slot EXCEPT ![u] = l]
            /\ cntr' = [cntr EXCEPT ![u] = IF @ = 0 THEN Iterations - 1 ELSE @]
            /\ kept' = [kept EXCEPT ![u] = IF InTime(u) THEN l ELSE @]
       ELSE UNCHANGED <<slot, cntr, kept>>
    /\ Give(t, l)
    /\ pc' = [pc EXCEPT ![u] = Idle]
    /\ UNCHANGED <<registry, table, life>>

\* A source put into the thread's loop: the loop's mode owns it, and it the loop.
AddSource(u) ==
    /\ pc[u] = Idle /\ life[u] = Running /\ slot[u] # None
    /\ refs' = [refs EXCEPT ![slot[u]] = @ \cup {"source"}]
    /\ UNCHANGED <<made, dict, born, tsd, life, pc, got, kept>>

-----------------------------------------------------------------------------
(* The end of a thread: __CFTSDFinalize, called in every round.            *)

Moves(t, r, s) == life' = [life EXCEPT ![t] = [round |-> r, slot |-> s]]

Exit(t) ==
    /\ t # Main /\ pc[t] = Idle /\ life[t] = Running
    /\ IF table[t] = "none" THEN life' = [life EXCEPT ![t] = Dead] ELSE Moves(t, 1, "below")
    /\ UNCHANGED <<registry, tsd, pc, got, kept>>

\* __CFFinalizeRunLoop counts down; what it finds at the end leaves the dictionary.
CountDown(t) ==
    /\ life[t].slot = "below" /\ pc[t] = Idle /\ cntr[t] > 1
    /\ cntr' = [cntr EXCEPT ![t] = @ - 1]
    /\ Moves(t, life[t].round, "above")
    /\ UNCHANGED <<registry, slot, table, pc, got, kept>>

NoLoop(t) ==
    /\ life[t].slot = "below" /\ pc[t] = Idle /\ cntr[t] = 0
    /\ Moves(t, life[t].round, "above")
    /\ UNCHANGED <<registry, tsd, pc, got, kept>>

Finalize(t) ==
    LET l == dict[t] IN
    /\ life[t].slot = "below" /\ pc[t] = Idle /\ cntr[t] = 1
    /\ cntr' = [cntr EXCEPT ![t] = 0]
    /\ dict' = [dict EXCEPT ![t] = None]
    /\ got' = [got EXCEPT ![t] = {}]
    /\ IF l = None THEN Moves(t, life[t].round, "above") /\ UNCHANGED <<refs, pc>>
       ELSE /\ refs' = [refs EXCEPT ![l] = (@ \ {"dict"}) \cup {t}]
            /\ pc' = [pc EXCEPT ![t] = [at |-> "purge", who |-> t, loop |-> l]]
            /\ Moves(t, life[t].round, "purge")
    /\ UNCHANGED <<made, born, slot, table, kept>>

PurgeNothing(t) ==                      \* mutant: the sources stay
    /\ At(t, "purge")
    /\ refs' = [refs EXCEPT ![pc[t].loop] = @ \ {t}]
    /\ pc' = [pc EXCEPT ![t] = Idle]
    /\ Moves(t, life[t].round, "above")
    /\ UNCHANGED <<made, dict, born, tsd, got, kept>>

\* The sources are taken out before the loop is released, for they own it.
Purge(t) ==
    LET l == pc[t].loop IN
    /\ At(t, "purge")
    /\ refs' = [refs EXCEPT ![l] = @ \ {"source", t}]
    /\ pc' = [pc EXCEPT ![t] = Idle]
    /\ Moves(t, life[t].round, "above")
    /\ UNCHANGED <<made, dict, born, tsd, got, kept>>

\* After the last round but one that pthreads makes, the table is freed.
EndRound(t) ==
    /\ life[t].slot = "above" /\ pc[t] = Idle
    /\ IF life[t].round = LastRound
       THEN /\ table' = [table EXCEPT ![t] = "gone"]
            /\ Moves(t, life[t].round, "after")
       ELSE Moves(t, life[t].round + 1, "below") /\ UNCHANGED table
    /\ UNCHANGED <<registry, slot, cntr, pc, got, kept>>

Die(t) ==
    /\ life[t].slot = "after" /\ pc[t] = Idle
    /\ life' = [life EXCEPT ![t] = Dead]
    /\ UNCHANGED <<registry, tsd, pc, got, kept>>

-----------------------------------------------------------------------------
Step(t) ==
    \/ GetCurrent(t) \/ \E u \in Thread : GetOther(t, u)
    \/ MakeDict(t) \/ SwapDict(t) \/ Look(t) \/ Make(t) \/ Insert(t) \/ Note(t)
    \/ AddSource(t)
    \/ Exit(t) \/ CountDown(t) \/ NoLoop(t) \/ Finalize(t) \/ Purge(t) \/ EndRound(t) \/ Die(t)
Next == \E t \in Thread : Step(t)

Spec == Init /\ [][Next]_vars

-----------------------------------------------------------------------------
(* Properties.                                                             *)

Lives == [round : 0..LastRound,
          slot : {"running", "below", "purge", "above", "after", "dead"}]
Calls == [at : {"idle", "look", "swap", "make", "insert", "note", "purge"},
          who : Thread \cup {None}, loop : Loop \cup {None}]

\* The state has its types; the counter never exceeds what a thread's end counts down.
TypeOK ==
    /\ made \in BOOLEAN
    /\ dict \in [Thread -> Loop \cup {None}]
    /\ refs \in [Loop -> SUBSET (Thread \cup {"dict", "source"})]
    /\ slot \in [Thread -> Loop \cup {None}]
    /\ cntr \in [Thread -> 0..(Iterations - 1)]
    /\ table \in [Thread -> {"none", "there", "gone"}]
    /\ life \in [Thread -> Lives] /\ pc \in [Thread -> Calls]
    /\ got \in [Thread -> SUBSET Loop]
    /\ kept \in [Thread -> Loop \cup {None}]
    /\ born \in 0..MaxLoops

\* "Every thread has one run loop of its own" (RunLoop笔记.md:16): until its loop is
\* let go, all who ask get the same one, whoever was first, and it is alive.
UniqueLoop == \A t \in Thread :
    ~Finalized(t) => \A l \in got[t] : dict[t] = l /\ "dict" \in refs[l]

\* "The run loop is destroyed when the thread ends" (RunLoop笔记.md:19): nobody is left
\* that owns the loop of a thread that has ended, if the thread had it before the
\* first round of destructors came to the counter, however often it asked again.
DestroyedAtEnd == \A t \in Thread :
    life[t] = Dead /\ kept[t] # None => refs[kept[t]] = {} /\ dict[t] # kept[t]
=============================================================================
