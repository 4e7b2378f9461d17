---------------------------- MODULE RunLoopTimers ----------------------------
(***************************************************************************)
(* The timers of one mode of a CFRunLoop (CFRunLoop.c): the array sorted   *)
(* by fire date, the kernel timer armed for the next one, and the firing   *)
(* of timers, whose callouts may run the loop again, change fire dates,    *)
(* add, remove and invalidate timers, as other threads may.                *)
(*                                                                         *)
(* Times are clock ticks (_fireTSR).  Loop and mode are locked in every    *)
(* step of the loop's thread but the wait and the callouts, and held from  *)
(* the end of one callout to the start of the next.                        *)
(***************************************************************************)
EXTENDS Integers, Sequences, FiniteSets

CONSTANTS Timer, Client, Nobody,
          Interval,      \* of each timer; 0 when it fires once
          Tolerance,     \* of each timer
          FireDate,      \* each timer's first fire date
          Scheduled,     \* timers in the mode to begin with, in that order
          Calls,         \* <<call, timer>> pairs clients make
          Dates,         \* fire dates clients set
          MaxTime,       \* bound: the clock
          Distant,       \* LLONG_MAX
          Never,         \* UINT64_MAX
          Many,          \* 256: above it the search looks at both ends first
          Depth          \* bound: nested runs

ASSUME TimerAssumption ==
    /\ Interval \in [Timer -> Nat] /\ Tolerance \in [Timer -> Nat]
    \* TIMER_DATE_LIMIT and TIMER_INTERVAL_LIMIT: a date and an interval add up
    \* to less than LLONG_MAX.
    /\ FireDate \in [Timer -> 0..Distant] /\ Dates \subseteq 0..Distant
    /\ \A t \in Timer : MaxTime + Interval[t] <= Distant
    \* As CFRunLoopAddTimer leaves them: sorted, each timer once.
    /\ Scheduled \in Seq(Timer)
    /\ \A i, j \in 1..Len(Scheduled) :
         i < j => /\ Scheduled[i] # Scheduled[j]
                  /\ FireDate[Scheduled[i]] <= FireDate[Scheduled[j]]
    /\ Calls \subseteq {"add", "remove", "set", "invalidate"} \X Timer
    /\ MaxTime \in Nat /\ Distant \in Nat /\ Never \in Nat
    /\ MaxTime < Distant /\ Distant < Never
    /\ Depth \in Nat \ {0} /\ Many \in Nat /\ Nobody \notin Timer

VARIABLES now,
          timers,       \* rlm->_timers
          fire,         \* _fireTSR of each timer
          valid, firing,
          soft, hard,   \* rlm->_timerSoftDeadline, _timerHardDeadline
          armed,        \* when the kernel timer goes off, or Never
          message,      \* the timer port holds a message
          frames,       \* the loop's thread: runs in progress
          pc            \* each client: idle, or a call past its checks

vars == <<now, timers, fire, valid, firing, soft, hard, armed, message, frames, pc>>
kernel == <<now, armed, message>>
mode == <<timers, fire, valid, firing, soft, hard>>

\* A run: what it does next, the timers still to be started, the timer whose
\* callout it is in, or whose next date it is about to store without a lock, and
\* the date that timer fired for, or the one to be stored.
Frame == [pc : {"wait", "handle", "batch", "callout", "remove", "finish", "store"},
          batch : Seq(Timer), cur : Timer \cup {Nobody},
          storing : Timer \cup {Nobody}, old : Nat]
NewFrame == [pc |-> "wait", batch |-> <<>>, cur |-> Nobody, storing |-> Nobody, old |-> 0]
Quiet == [call |-> "idle", timer |-> Nobody, date |-> 0]
Request == {Quiet} \cup [call : {"add", "set", "invalidate"},
                         timer : Timer, date : 0..Distant]

top == frames[Len(frames)]
SetTop(f) == frames' = [frames EXCEPT ![Len(frames)] = f]
Elements(s) == {s[i] : i \in 1..Len(s)}
Least(S) == CHOOSE x \in S : \A y \in S : x <= y

\* CFArrayGetFirstIndexOfValue and CFArrayRemoveValueAtIndex; t is in s, once.
Without(s, t) ==
    LET i == CHOOSE k \in 1..Len(s) : s[k] = t
    IN SubSeq(s, 1, i - 1) \o SubSeq(s, i + 1, Len(s))

\* The elements of s that are in S, appended one by one.
Collect(s, S) ==
    LET C[k \in 0..Len(s)] == IF k = 0 THEN <<>>
                              ELSE IF s[k] \in S THEN Append(C[k - 1], s[k]) ELSE C[k - 1]
    IN C[Len(s)]

\* A timer that may be started.
DueFiring(t) == t \in valid /\ fire[t] <= now     \* mutant: also in its callout
Due(t) == t \in valid /\ t \notin firing /\ fire[t] <= now

\* Loop and mode are not locked by the loop's thread.
Unlocked == top.pc \in {"wait", "handle", "callout", "remove", "finish"}

-----------------------------------------------------------------------------
(* __CFRunLoopInsertionIndexInTimerArray: tests at halving distances, from  *)
(* the least power of two above the count down to one, then one at idx     *)
(* itself, which decides between idx and idx + 1 (indices from 0 as in C). *)

\* 1 << k, and the k of the first test
Bits(n) == LET B[k \in 0..n] == IF k = 0 THEN 1 ELSE 2 * B[k - 1] IN B
Flsl(n) == Least({k \in 0..n : n < Bits(n)[k]})

LEQ(seq, f, key, i) == i < Len(seq) /\ f[seq[i + 1]] <= key

\* Where the tests at 1 << (d - 1), ..., 1 and 0 lead from idx
Halving(seq, f, key) ==
    LET n == Len(seq)
        S[d \in 0..(Flsl(n) + 1)] == [idx \in 0..n |->
            IF d = 0 THEN IF LEQ(seq, f, key, idx) THEN idx + 1 ELSE idx
            ELSE LET test == idx + Bits(n)[d - 1]
                 IN S[d - 1][IF LEQ(seq, f, key, test) THEN test ELSE idx]]
    IN S

Search(seq, f, key) ==
    LET n == Len(seq) IN
    IF n > Many /\ f[seq[n]] <= key THEN n
    ELSE IF n > Many /\ key < f[seq[1]] THEN 0
    ELSE Halving(seq, f, key)[Flsl(n) + 1][0]

Insert(seq, f, t) ==
    LET i == Search(seq, f, f[t])
    IN SubSeq(seq, 1, i) \o <<t>> \o SubSeq(seq, i + 1, Len(seq))

-----------------------------------------------------------------------------
(* __CFArmNextTimerInMode: the array is walked in order, timers that fire   *)
(* passed over, until one begins after the earliest hard deadline so far.  *)

HardDeadline(f, t) == IF f[t] + Tolerance[t] > Never THEN Never ELSE f[t] + Tolerance[t]

Idle(seq, busy) == {i \in 1..Len(seq) : seq[i] \notin busy}
Earliest(seq, f, I) == <<Least({Never} \cup {f[seq[i]] : i \in I}),
                         Least({Never} \cup {HardDeadline(f, seq[i]) : i \in I})>>

DeadlinesSoft(seq, f, busy) ==         \* mutant: stops at the soft deadline
    Earliest(seq, f, {i \in Idle(seq, busy) : \A j, k \in Idle(seq, busy) :
                        k < j /\ j <= i => f[seq[j]] <= f[seq[k]]})
Deadlines(seq, f, busy) ==
    Earliest(seq, f, {i \in Idle(seq, busy) : \A j, k \in Idle(seq, busy) :
                        k < j /\ j <= i => f[seq[j]] <= HardDeadline(f, seq[k])})

\* In the mode whose deadlines are s0 and h0: the kernel timer is set only when
\* the deadlines change, and cancelled when no timer is left.
ArmNext(seq, f, busy, s0, h0) ==
    \E d \in {Deadlines(seq, f, busy)} :
      /\ soft' = d[1] /\ hard' = d[2]
      /\ armed' = IF d[1] = Never THEN Never
                  ELSE IF d # <<s0, h0>> THEN d[1] ELSE armed

\* __CFRepositionTimerInMode for a timer that should be in the array.
Reposition(t, f, busy) ==
    IF t \in Elements(timers)
    THEN /\ \E rest \in {Without(timers, t)} : timers' = Insert(rest, f, t)
         /\ ArmNext(timers', f, busy, soft, hard)
    ELSE UNCHANGED <<timers, soft, hard, armed>>

-----------------------------------------------------------------------------
Init ==
    LET start == FireDate
        d == Deadlines(Scheduled, start, {})
    IN /\ now = 0 /\ timers = Scheduled /\ fire = start
       /\ valid = Timer /\ firing = {}
       /\ soft = d[1] /\ hard = d[2] /\ armed = d[1] /\ message = FALSE
       /\ frames = <<NewFrame>>
       /\ pc = [c \in Client |-> Quiet]

Tick == /\ now < MaxTime /\ now' = now + 1
        /\ UNCHANGED <<mode, armed, message, frames, pc>>

\* The kernel or dispatch timer goes off, at its date or within its leeway.
Expire == /\ armed <= now
          /\ armed' = Never /\ message' = TRUE
          /\ UNCHANGED <<now, mode, frames, pc>>

-----------------------------------------------------------------------------
(* The loop's thread.                                                      *)

Receive == /\ top.pc = "wait" /\ message
           /\ message' = FALSE
           /\ SetTop([top EXCEPT !.pc = "handle"])
           /\ UNCHANGED <<now, armed, mode, pc>>

\* __CFRunLoopDoTimers collects what is due.
DoTimers ==
    /\ top.pc = "handle"
    /\ SetTop([top EXCEPT !.pc = "batch",
                          !.batch = Collect(timers, {t \in Timer : Due(t)})])
    /\ UNCHANGED <<kernel, mode, pc>>

BatchDone == /\ top.pc = "batch" /\ top.batch = <<>>
             /\ SetTop(NewFrame)
             /\ UNCHANGED <<kernel, mode, pc>>

Fires(t) == Due(t) /\ t \in Elements(timers)
Starting(t) == [pc |-> "callout", batch |-> Tail(top.batch), cur |-> t,
                storing |-> Nobody, old |-> fire[t]]

\* __CFRunLoopDoTimer up to the callout.  The deadlines are forgotten first,
\* so that an equal one of the next timer is armed.
StartTimerRemembered ==                \* mutant: the deadlines are kept
    /\ top.pc = "batch" /\ top.batch # <<>>
    /\ LET t == Head(top.batch) IN
         /\ Fires(t)
         /\ firing' = firing \cup {t}
         /\ ArmNext(timers, fire, firing', soft, hard)
         /\ SetTop(Starting(t))
    /\ UNCHANGED <<now, message, timers, fire, valid, pc>>
StartTimer ==
    /\ top.pc = "batch" /\ top.batch # <<>>
    /\ LET t == Head(top.batch) IN
         /\ Fires(t)
         /\ firing' = firing \cup {t}
         /\ ArmNext(timers, fire, firing', Never, Never)
         /\ SetTop(Starting(t))
    /\ UNCHANGED <<now, message, timers, fire, valid, pc>>

\* Changed, fired or removed since it was collected.
SkipTimer == /\ top.pc = "batch" /\ top.batch # <<>> /\ ~Fires(Head(top.batch))
             /\ SetTop([top EXCEPT !.batch = Tail(@)])
             /\ UNCHANGED <<kernel, mode, pc>>

\* A callout runs the loop in this mode again, and that run ends.
Nest == /\ top.pc = "callout" /\ Len(frames) < Depth
        /\ frames' = Append(frames, NewFrame)
        /\ UNCHANGED <<kernel, mode, pc>>
Unnest == /\ top.pc = "wait" /\ Len(frames) > 1
          /\ frames' = SubSeq(frames, 1, Len(frames) - 1)
          /\ UNCHANGED <<kernel, mode, pc>>

\* The callout returns; a timer that fires once is invalidated, and taken out
\* of the modes it was in when its valid bit was unset.
EndCallout ==
    /\ top.pc = "callout"
    /\ LET once == Interval[top.cur] = 0 /\ top.cur \in valid IN
         /\ valid' = IF once THEN valid \ {top.cur} ELSE valid
         /\ SetTop([top EXCEPT !.pc =
                 IF once /\ top.cur \in Elements(timers) THEN "remove" ELSE "finish"])
    /\ UNCHANGED <<kernel, timers, fire, firing, soft, hard, pc>>

RemoveFromMode(t) ==
    IF t \in Elements(timers)
    THEN /\ timers' = Without(timers, t)
         /\ ArmNext(timers', fire, firing, soft, hard)
    ELSE UNCHANGED <<timers, soft, hard, armed>>

RemoveOnce == /\ top.pc = "remove"
              /\ RemoveFromMode(top.cur)
              /\ SetTop([top EXCEPT !.pc = "finish"])
              /\ UNCHANGED <<now, message, fire, valid, firing, pc>>

\* The interval is added until the date lies in the future; a timer that is
\* still valid after its callout repeats.
NextFire(old, interval) ==
    IF Distant - interval <= old THEN Distant
    ELSE Least({old + k * interval : k \in 0..(now + 1)} \ 0..now)

Return(f) == [f EXCEPT !.pc = "batch", !.cur = Nobody, !.storing = Nobody, !.old = 0]

\* The next multiple of the interval is taken: under the loop's lock for a timer
\* of the mode; one in no mode is unlocked before its date is stored.
TakeNext(t) ==
    LET next == NextFire(top.old, Interval[t]) IN
    IF t \in Elements(timers)
    THEN /\ fire' = [fire EXCEPT ![t] = next]
         /\ Reposition(t, fire', firing')
         /\ SetTop(Return(top))
    ELSE /\ UNCHANGED <<timers, fire, soft, hard, armed>>
         /\ SetTop([top EXCEPT !.pc = "store", !.cur = Nobody, !.storing = t, !.old = next])

\* __CFRunLoopDoTimer after the callout: a later date set meanwhile is kept.
FinishTimerOverwrite ==                \* mutant: the date set is ignored
    /\ top.pc = "finish"
    /\ firing' = firing \ {top.cur}
    /\ \/ /\ top.cur \notin valid
          /\ UNCHANGED <<timers, fire, soft, hard, armed>> /\ SetTop(Return(top))
       \/ top.cur \in valid /\ TakeNext(top.cur)
    /\ UNCHANGED <<now, message, valid, pc>>
FinishTimerUnarmed ==                  \* mutant: a date set is not armed again
    /\ top.pc = "finish"
    /\ firing' = firing \ {top.cur}
    /\ \/ /\ top.cur \notin valid \/ top.old < fire[top.cur]
          /\ UNCHANGED <<timers, fire, soft, hard, armed>> /\ SetTop(Return(top))
       \/ top.cur \in valid /\ fire[top.cur] <= top.old /\ TakeNext(top.cur)
    /\ UNCHANGED <<now, message, valid, pc>>
FinishTimer ==
    /\ top.pc = "finish"
    /\ firing' = firing \ {top.cur}
    /\ \/ /\ top.cur \notin valid
          /\ UNCHANGED <<timers, fire, soft, hard, armed>> /\ SetTop(Return(top))
       \/ /\ top.cur \in valid /\ top.old < fire[top.cur]
          /\ ArmNext(timers, fire, firing', soft, hard)
          /\ UNCHANGED <<timers, fire>> /\ SetTop(Return(top))
       \/ top.cur \in valid /\ fire[top.cur] <= top.old /\ TakeNext(top.cur)
    /\ UNCHANGED <<now, message, valid, pc>>

\* The date of a timer in no mode, over one that is set since it was unlocked.
StoreDate == /\ top.pc = "store"
             /\ fire' = [fire EXCEPT ![top.storing] = top.old]
             /\ SetTop(Return(top))
             /\ UNCHANGED <<kernel, timers, valid, firing, soft, hard, pc>>

LoopStep == \/ Receive \/ DoTimers \/ BatchDone \/ StartTimer \/ SkipTimer
            \/ Unnest \/ EndCallout \/ RemoveOnce \/ FinishTimer \/ StoreDate

-----------------------------------------------------------------------------
(* Calls of other threads, or of a callout.  What a function tests before   *)
(* it has the loop's lock is a step of its own.                            *)

Begin(c, call, t, date) ==
    /\ pc[c] = Quiet /\ <<call, t>> \in Calls
    /\ pc' = [pc EXCEPT ![c] = [call |-> call, timer |-> t, date |-> date]]
Done(c, call) == /\ Unlocked /\ pc[c].call = call
                 /\ pc' = [pc EXCEPT ![c] = Quiet]

\* CFRunLoopAddTimer: validity is tested before the lock is taken.
BeginAdd(c, t) == /\ t \in valid /\ Begin(c, "add", t, 0)
                  /\ UNCHANGED <<kernel, mode, frames>>
AddAgain(c) ==                         \* mutant: also when it is in the mode
    /\ Done(c, "add")
    /\ timers' = Insert(timers, fire, pc[c].timer)
    /\ ArmNext(timers', fire, firing, soft, hard)
    /\ UNCHANGED <<now, message, fire, valid, firing, frames>>
Add(c) == /\ Done(c, "add")
          /\ IF pc[c].timer \in Elements(timers)
             THEN UNCHANGED <<timers, soft, hard, armed>>
             ELSE /\ timers' = Insert(timers, fire, pc[c].timer)
                  /\ ArmNext(timers', fire, firing, soft, hard)
          /\ UNCHANGED <<now, message, fire, valid, firing, frames>>

Remove(c, t) == /\ Unlocked /\ pc[c] = Quiet /\ <<"remove", t>> \in Calls
                /\ RemoveFromMode(t)
                /\ UNCHANGED <<now, message, fire, valid, firing, frames, pc>>

\* CFRunLoopTimerSetNextFireDate: a date in the past means now.
BeginSet(c, t) == /\ t \in valid
                  /\ \E d \in Dates :
                       Begin(c, "set", t, IF d < now THEN now ELSE d)
                  /\ UNCHANGED <<kernel, mode, frames>>
\* (The loop is woken up, too, and finds nothing to do.)
Set(c) == /\ Done(c, "set")
          /\ fire' = [fire EXCEPT ![pc[c].timer] = pc[c].date]
          /\ Reposition(pc[c].timer, fire', firing)
          /\ UNCHANGED <<now, message, valid, firing, frames>>
\* In no mode there is no lock to take.
SetDetached(c) ==
    /\ pc[c].call = "set" /\ pc[c].timer \notin Elements(timers)
    /\ pc' = [pc EXCEPT ![c] = Quiet]
    /\ fire' = [fire EXCEPT ![pc[c].timer] = pc[c].date]
    /\ UNCHANGED <<kernel, timers, valid, firing, soft, hard, frames>>

\* CFRunLoopTimerInvalidate: the valid bit first, then the modes the timer was
\* in at that moment.
BeginInvalidate(c, t) ==
    /\ t \in valid /\ pc[c] = Quiet /\ <<"invalidate", t>> \in Calls
    /\ valid' = valid \ {t}
    /\ IF t \in Elements(timers) THEN Begin(c, "invalidate", t, 0) ELSE UNCHANGED pc
    /\ UNCHANGED <<kernel, timers, fire, firing, soft, hard, frames>>
Invalidate(c) == /\ Done(c, "invalidate")
                 /\ RemoveFromMode(pc[c].timer)
                 /\ UNCHANGED <<now, message, fire, valid, firing, frames>>

Next == \/ Tick \/ Expire \/ LoopStep \/ Nest
        \/ \E c \in Client :
             \/ Add(c) \/ Set(c) \/ SetDetached(c) \/ Invalidate(c)
             \/ \E t \in Timer : \/ BeginAdd(c, t) \/ Remove(c, t)
                                 \/ BeginSet(c, t) \/ BeginInvalidate(c, t)

Spec == Init /\ [][Next]_vars
\* The thread goes on, a callout runs the loop only so often before it returns,
\* the kernel timer goes off and a thread that has begun a call ends it.
LiveSpec == /\ Spec /\ WF_vars(LoopStep) /\ SF_vars(EndCallout) /\ WF_vars(Expire)
            /\ \A c \in Client : WF_vars(Add(c) \/ Set(c) \/ SetDetached(c) \/ Invalidate(c))

-----------------------------------------------------------------------------
(* Properties.                                                             *)

TypeOK == /\ now \in 0..MaxTime
          /\ timers \in Seq(Timer)
          /\ \A i, j \in 1..Len(timers) : timers[i] = timers[j] => i = j
          /\ fire \in [Timer -> 0..Distant]
          /\ valid \subseteq Timer /\ firing \subseteq Timer
          /\ {soft, hard, armed} \subseteq 0..Never /\ message \in BOOLEAN
          /\ frames \in Seq(Frame) /\ Len(frames) \in 1..Depth
          /\ pc \in [Client -> Request]

\* Somebody has unset a timer's valid bit and is about to take it out.
Leaving(t) == \/ \E c \in Client : pc[c].call = "invalidate" /\ pc[c].timer = t
              \/ \E n \in 1..Len(frames) : frames[n].pc = "remove" /\ frames[n].cur = t
Settled == top.pc = "wait" /\ \A t \in Timer : ~Leaving(t)

\* At any time the mode's deadlines are the earliest date and the earliest hard
\* deadline of all its timers that are not firing, early exit of the walk,
\* skipped callouts and dates set during callouts notwithstanding; unless one of
\* them has been invalidated and is still to be taken out.
Waiting == {t \in Elements(timers) : t \notin firing}
DeadlinesRight ==
    Waiting \subseteq valid =>
        /\ soft = Least({Never} \cup {fire[t] : t \in Waiting})
        /\ hard = Least({Never} \cup {HardDeadline(fire, t) : t \in Waiting})

\* No timer of the mode is invalid, but one that fired once and that the loop's
\* own thread is taking out.
OnlyValid == \A t \in Elements(timers) \ valid :
                 \E n \in 1..Len(frames) : frames[n].pc = "remove" /\ frames[n].cur = t

\* As long as no other thread invalidates a timer of the mode, the thread never
\* waits for a later date than that of the first timer that may fire, also
\* while an outer run is in the callout of another timer.  (An invalid timer
\* that is still in the mode sets the kernel timer off without being fired; the
\* deadlines are remembered then, and a timer that is given the same ones
\* before it is taken out is never armed.)
ArmedForFirst ==
    []OnlyValid => [](top.pc = "wait" => \A t \in Waiting : message \/ armed <= fire[t])

\* A timer that is firing is in the callout of exactly one run.
FiresOnce == \A t \in Timer :
    Cardinality({n \in 1..Len(frames) : frames[n].cur = t}) = IF t \in firing THEN 1 ELSE 0

\* A date that is set during a timer's callout and is later than the one it
\* fired for is not overwritten when the callout returns; otherwise the next
\* date, stored at once or about to be, is the first on the timer's grid that
\* lies in the future.
DateHonoured ==
    [][top.pc = "finish" /\ top.cur \in valid /\ firing' # firing =>
         LET t == top.cur
             d == IF top'.pc = "store" THEN top'.old ELSE fire'[t] IN
         IF top.old < fire[t] THEN d = fire[t]
         ELSE /\ d > now
              /\ (d - top.old) % Interval[t] = 0
              /\ d - Interval[t] <= now]_vars

\* "The next soft deadline is the first time we can fire any timer": when no
\* invalidation is under way, a mode's soft deadline is the date of a timer that
\* can fire, or the mode has none.
SoftDeadlineFires ==
    Settled => \/ soft = Never
               \/ \E t \in Elements(timers) \cap valid : fire[t] = soft

\* Then a timer that is due fires, too, unless it is changed or taken away.
DueFires ==
    []OnlyValid => \A t \in Timer :
        (t \in Elements(timers) \cap valid /\ fire[t] <= now)
            ~> (t \in firing \/ t \notin Elements(timers) \cap valid \/ fire[t] > now)

=============================================================================
