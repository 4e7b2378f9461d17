------------------------------- MODULE RunLoop -------------------------------
(***************************************************************************)
(* The cycle of a CFRunLoop (CF-1153.18, CFRunLoop.c): __CFRunLoopRun and  *)
(* the functions it calls, run by the loop's thread, against the threads   *)
(* that signal sources, queue blocks, ask the loop to stop and wake it up. *)
(*                                                                         *)
(* A callout (block, source, port message, observer) runs with the loop    *)
(* and its mode unlocked, so everything may happen during it, a nested run *)
(* of the same loop included: "frames" is the stack of runs in progress.   *)
(* The lock around each step of the loop makes it one action; it is free   *)
(* while the thread sleeps, as the rule at line 511 of the file demands.   *)
(*                                                                         *)
(* The copy of CFRunLoop.c is cut in places: the prologue of a run (push   *)
(* of the per-run data, entry of _currentMode, timeout timer) and the test *)
(* for the kind of port after a message.  Where a definition stands for    *)
(* such a place, its comment says what in the file it was taken from.      *)
(***************************************************************************)
EXTENDS Integers, Sequences, FiniteSets

CONSTANTS Mode,
          Source,         \* version 0 sources
          Block,          \* blocks for CFRunLoopPerformBlock
          Port,           \* wake-up port, timer port, ports of version 1 sources
          WakeUpPort,     \* rl->_wakeUpPort, in the port set of every mode
          DispatchPort,   \* the main queue's port, for the main loop
          In,             \* In[x]: modes the source, block or port x belongs to
          Order,          \* _order of each source
          Observed,       \* modes with a repeating observer of all activities
          Client,         \* threads that call into the loop
          Nobody,
          Runs,           \* <<mode, returnAfterSourceHandled>> of the runs in use
          Deadline,       \* {"never"}, {"ahead"} or both: timeouts in use
          Stops,          \* "stop" for CFRunLoopStop, modes for _CFRunLoopStopMode
          Invalidated,    \* sources a client may invalidate
          Nests,          \* <<kind of callout, its mode, mode of the nested run>>
          Depth           \* bound: runs on the stack

ASSUME RunLoopAssumption ==
    /\ In \in [Source \cup Block \cup Port -> SUBSET Mode]
    /\ WakeUpPort \in Port /\ In[WakeUpPort] = Mode
    /\ Order \in [Source -> Int]
    /\ Observed \subseteq Mode
    /\ Runs \subseteq Mode \X BOOLEAN /\ Deadline \subseteq {"never", "ahead"}
    /\ Invalidated \subseteq Source
    /\ Depth \in Nat \ {0}
    /\ Source \cap Block = {} /\ (Source \cup Block) \cap Port = {}
    /\ {Nobody, "observer"} \cap (Source \cup Block \cup Port) = {}
    /\ {"idle", "wake"} \cap Source = {}
    /\ DispatchPort \in Port \ {WakeUpPort}

VARIABLES frames,       \* the stack of __CFRunLoopRun invocations
          queue,        \* rl->_blocks_head .. _blocks_tail
          pending,      \* ports that hold a message
          signaled,     \* sources with the signaled bit
          valid,        \* sources with the valid bit
          attached,     \* sources in the _sources0 of their modes
          modeStopped,  \* modes with _stopped
          pc,           \* of each client: "idle", "wake" when it has still to
                        \* call CFRunLoopWakeUp, or the invalidated source it
                        \* has still to take out of its modes
          due,          \* history: sources signaled since their last perform
          posted, ran   \* history: blocks queued and run, in that order

vars == <<frames, queue, pending, signaled, valid, attached, modeStopped, pc,
          due, posted, ran>>
shared == <<queue, pending, signaled, valid, attached, modeStopped, due, posted, ran>>

PC == {"entry", "before", "blocks1", "sources0", "perform", "blocks2", "dispatch",
       "beforeWaiting", "waiting", "afterWaiting", "handle", "blocks3", "decide",
       "exit", "gone"}

Frame == [mode : Mode, pc : PC, stopAfter : BOOLEAN,
          deadline : {"never", "ahead", "passed"}, stopped : BOOLEAN,
          handled : BOOLEAN, poll : BOOLEAN,
          drain : BOOLEAN, list : Seq(Block), kept : Seq(Block),
          todo : SUBSET Source,
          live : Port \cup {Nobody},
          callout : Source \cup Block \cup Port \cup {"observer", Nobody},
          result : {"none", "HandledSource", "TimedOut", "Stopped", "Finished"}]

NewFrame(m, stopAfter, deadline) ==
    [mode |-> m, pc |-> "entry", stopAfter |-> stopAfter, deadline |-> deadline,
     stopped |-> FALSE, handled |-> FALSE, poll |-> FALSE, drain |-> FALSE,
     list |-> <<>>, kept |-> <<>>, todo |-> {}, live |-> Nobody,
     callout |-> Nobody, result |-> "none"]

top == frames[Len(frames)]
Running == frames # <<>>
SetTop(f) == frames' = [frames EXCEPT ![Len(frames)] = f]
At(where) == Running /\ top.pc = where /\ top.callout = Nobody

Init == /\ frames = <<>> /\ queue = <<>> /\ pending = {}
        /\ signaled = {} /\ valid = Source /\ attached = Source
        /\ modeStopped = {}
        /\ pc = [c \in Client |-> "idle"]
        /\ due = {} /\ posted = <<>> /\ ran = <<>>

-----------------------------------------------------------------------------
(* Runs and their callouts.                                                *)

Kind(x) == IF x \in Block THEN "block"
           ELSE IF x \in Source THEN "source0"
           ELSE IF x \in Port THEN "message" ELSE "observer"

\* CFRunLoopRunSpecific begins: new per-run data, not stopped.  The thread is
\* outside the loop, or in a callout that runs the loop again.
Enter(m, stopAfter, deadline) ==
    /\ \/ ~Running
       \/ /\ Running /\ top.callout # Nobody /\ Len(frames) < Depth
          /\ <<Kind(top.callout), top.mode, m>> \in Nests
    /\ frames' = Append(frames, NewFrame(m, stopAfter, deadline))
    /\ UNCHANGED <<shared, pc>>

EndCallout == /\ Running /\ top.callout # Nobody
              /\ SetTop([top EXCEPT !.callout = Nobody])
              /\ UNCHANGED <<shared, pc>>

\* The per-run data is popped: the enclosing callout goes on.
Leave == /\ At("gone")
         /\ frames' = SubSeq(frames, 1, Len(frames) - 1)
         /\ UNCHANGED <<shared, pc>>

ObserverStep == [entry |-> "before", before |-> "blocks1",
                 beforeWaiting |-> "waiting", afterWaiting |-> "handle",
                 exit |-> "gone"]

\* The __CFRunLoopDoObservers calls; "before" is BeforeTimers and BeforeSources.
Observe(where) ==
    /\ At(where)
    /\ LET f == [top EXCEPT !.pc = ObserverStep[where]]
           silent == top.mode \notin Observed \/ (where = "beforeWaiting" /\ top.poll)
       IN SetTop(IF silent THEN f ELSE [f EXCEPT !.callout = "observer"])
    /\ UNCHANGED <<shared, pc>>

-----------------------------------------------------------------------------
(* __CFRunLoopDoBlocks: the list is taken off the loop, run unlocked, and   *)
(* what this mode may not run is put back in front.                        *)

BlockStep == [blocks1 |-> "sources0", blocks2 |-> "dispatch", blocks3 |-> "decide"]
Eligible(b, m) == m \in In[b]
Runnable(f) == {n \in 1..Len(f.list) : Eligible(f.list[n], f.mode)}

Detach(where) ==
    /\ At(where) /\ ~top.drain
    /\ SetTop(IF queue = <<>> THEN [top EXCEPT !.pc = BlockStep[where]]
              ELSE [top EXCEPT !.drain = TRUE, !.list = queue])
    /\ queue' = <<>>
    /\ UNCHANGED <<pending, signaled, valid, attached, modeStopped, pc, due, posted, ran>>

CallBlock(where) ==
    /\ At(where) /\ top.drain
    /\ \E n \in Runnable(top) :
         /\ \A k \in Runnable(top) : n <= k
         /\ ran' = Append(ran, top.list[n])
         /\ SetTop([top EXCEPT !.callout = top.list[n],
                       !.kept = @ \o SubSeq(top.list, 1, n - 1),
                       !.list = SubSeq(top.list, n + 1, Len(top.list))])
    /\ UNCHANGED <<queue, pending, signaled, valid, attached, modeStopped, pc, due, posted>>

ReattachBehind(f) == queue \o f.kept \o f.list           \* mutant of Reattached
ReattachLost(f) == IF queue = <<>> THEN f.kept \o f.list ELSE queue   \* mutant
Reattached(f) == f.kept \o f.list \o queue

Reattach(where) ==
    /\ At(where) /\ top.drain /\ Runnable(top) = {}
    /\ queue' = Reattached(top)
    /\ SetTop([top EXCEPT !.pc = BlockStep[where], !.drain = FALSE,
                          !.list = <<>>, !.kept = <<>>])
    /\ UNCHANGED <<pending, signaled, valid, attached, modeStopped, pc, due, posted, ran>>

-----------------------------------------------------------------------------
(* __CFRunLoopDoSources0: collected under the lock, then performed one by   *)
(* one in their order, each tested again under its own lock.               *)

Collect ==
    /\ At("sources0")
    /\ LET found == {s \in attached \cap valid \cap signaled : top.mode \in In[s]}
       IN SetTop([top EXCEPT !.todo = found, !.handled = FALSE, !.pc = "perform"])
    /\ UNCHANGED <<shared, pc>>

First(s) == \A r \in top.todo : Order[s] <= Order[r]
LeftNone(f, s) == {}                   \* mutant: one source in each cycle
Left(f, s) == IF f.stopAfter THEN {} ELSE f.todo \ {s}

PerformUnchecked(s) ==                 \* mutant: the signal is not tested again
    /\ At("perform") /\ s \in top.todo /\ First(s)
    /\ s \in valid
    /\ SetTop([top EXCEPT !.todo = Left(top, s), !.handled = TRUE, !.callout = s])
    /\ signaled' = signaled \ {s} /\ due' = due \ {s}
    /\ UNCHANGED <<queue, pending, valid, attached, modeStopped, pc, posted, ran>>
Perform(s) ==
    /\ At("perform") /\ s \in top.todo /\ First(s)
    /\ s \in signaled /\ s \in valid
    /\ SetTop([top EXCEPT !.todo = Left(top, s), !.handled = TRUE, !.callout = s])
    /\ signaled' = signaled \ {s} /\ due' = due \ {s}
    /\ UNCHANGED <<queue, pending, valid, attached, modeStopped, pc, posted, ran>>

\* Performed by a nested run, or invalidated, since it was collected.
Skip(s) ==
    /\ At("perform") /\ s \in top.todo /\ First(s)
    /\ ~(s \in signaled /\ s \in valid)
    /\ SetTop([top EXCEPT !.todo = @ \ {s}])
    /\ signaled' = signaled \ {s}
    /\ UNCHANGED <<queue, pending, valid, attached, modeStopped, pc, due, posted, ran>>

SourcesDone ==
    /\ At("perform") /\ top.todo = {}
    /\ SetTop([top EXCEPT !.pc = IF top.handled THEN "blocks2" ELSE "dispatch"])
    /\ UNCHANGED <<shared, pc>>

-----------------------------------------------------------------------------
(* Messages.                                                               *)

\* libdispatchQSafe and common mode: the n-th run may serve the main queue.
Serves(n) == /\ frames[n].mode \in In[DispatchPort]
             /\ \A k \in 1..(n - 1) : frames[k].callout # DispatchPort

Receivable == {p \in pending : /\ top.mode \in In[p]
                               /\ p = DispatchPort => Serves(Len(frames))}

\* poll is computed, then the main queue's port is looked at without waiting,
\* unless didDispatchPortLastTime.  (The file only shows that flag being
\* tested and cleared; here the look may always be left out.)
PollDispatch ==
    /\ At("dispatch")
    /\ \/ /\ DispatchPort \in Receivable
          /\ pending' = pending \ {DispatchPort}
          /\ SetTop([top EXCEPT !.live = DispatchPort, !.pc = "handle"])
       \/ /\ SetTop([top EXCEPT !.pc = "beforeWaiting",
                               !.poll = top.handled \/ top.deadline = "passed"])
          /\ UNCHANGED pending
    /\ UNCHANGED <<queue, signaled, valid, attached, modeStopped, pc, due, posted, ran>>

\* __CFRunLoopServiceMachPort on the mode's port set: one message, or none
\* when polling; otherwise the thread sleeps.
Wait ==
    /\ At("waiting")
    /\ \/ \E p \in Receivable :
            /\ pending' = pending \ {p}
            /\ SetTop([top EXCEPT !.live = p, !.pc = "afterWaiting"])
       \/ /\ top.poll /\ Receivable = {}
          /\ SetTop([top EXCEPT !.live = Nobody, !.pc = "afterWaiting"])
          /\ UNCHANGED pending
    /\ UNCHANGED <<queue, signaled, valid, attached, modeStopped, pc, due, posted, ran>>

\* handle_msg: timers, main queue or version 1 source called out; a wake-up
\* message has nothing to handle.
Handle ==
    /\ At("handle")
    /\ SetTop([top EXCEPT !.live = Nobody, !.pc = "blocks3",
                 !.callout = IF top.live = WakeUpPort THEN Nobody ELSE top.live])
    /\ UNCHANGED <<shared, pc>>

-----------------------------------------------------------------------------
(* The end of a cycle.                                                     *)

\* __CFRunLoopModeIsEmpty: observers do not count.
ModeIsEmpty(m, n) ==
    /\ ~Serves(n)
    /\ \A s \in attached : m \notin In[s]
    /\ \A p \in Port \ {WakeUpPort, DispatchPort} : m \notin In[p]
    /\ \A k \in 1..Len(queue) : ~Eligible(queue[k], m)

Finish(result) == SetTop([top EXCEPT !.result = result, !.pc = "exit",
                             !.stopped = @ /\ result # "Stopped"])

Again == [top EXCEPT !.pc = "before", !.poll = FALSE, !.handled = FALSE]

\* late: termTSR < mach_absolute_time(), the timeout's own handler or not
DecideNoStop(late) ==                  \* mutant: a stop request is not looked at
    /\ At("decide")
    /\ late \in {top.deadline = "passed", top.deadline # "never"}
    /\ LET m == top.mode
           source == top.handled /\ top.stopAfter
           empty == ModeIsEmpty(m, Len(frames))
       IN /\ IF source THEN Finish("HandledSource")
             ELSE IF late THEN Finish("TimedOut")
             ELSE IF empty THEN Finish("Finished") ELSE SetTop(Again)
          /\ UNCHANGED modeStopped
    /\ UNCHANGED <<queue, pending, signaled, valid, attached, pc, due, posted, ran>>
Decide(late) ==
    /\ At("decide")
    /\ late \in {top.deadline = "passed", top.deadline # "never"}
    /\ LET m == top.mode
           source == top.handled /\ top.stopAfter
           byMode == ~source /\ ~late /\ ~top.stopped /\ m \in modeStopped
           empty == ModeIsEmpty(m, Len(frames))
       IN /\ IF source THEN Finish("HandledSource")
             ELSE IF late THEN Finish("TimedOut")
             ELSE IF top.stopped \/ byMode THEN Finish("Stopped")
             ELSE IF empty THEN Finish("Finished") ELSE SetTop(Again)
          /\ modeStopped' = IF byMode THEN modeStopped \ {m} ELSE modeStopped
    /\ UNCHANGED <<queue, pending, signaled, valid, attached, pc, due, posted, ran>>

LoopStep ==
    \/ EndCallout \/ Leave
    \/ \E where \in DOMAIN ObserverStep : Observe(where)
    \/ \E where \in DOMAIN BlockStep :
         Detach(where) \/ CallBlock(where) \/ Reattach(where)
    \/ Collect \/ SourcesDone
    \/ \E s \in Source : Perform(s) \/ Skip(s)
    \/ PollDispatch \/ Wait \/ Handle
    \/ \E late \in BOOLEAN : Decide(late)

-----------------------------------------------------------------------------
(* Calls from other threads, or from a callout.  Whoever gives the loop     *)
(* something to do wakes it up in a separate call.                          *)

Call(c) == pc[c] = "idle" /\ pc' = [pc EXCEPT ![c] = "wake"]

SignalInvalid(c, s) ==                 \* mutant: validity is not looked at
    /\ Call(c)
    /\ signaled' = signaled \cup {s}
    /\ due' = IF s \in valid THEN due \cup {s} ELSE due
    /\ UNCHANGED <<frames, queue, pending, valid, attached, modeStopped, posted, ran>>
Signal(c, s) == /\ Call(c)
                /\ signaled' = IF s \in valid THEN signaled \cup {s} ELSE signaled
                /\ due' = IF s \in valid THEN due \cup {s} ELSE due
                /\ UNCHANGED <<frames, queue, pending, valid, attached, modeStopped, posted, ran>>

PerformBlock(c, b) ==
    /\ Call(c) /\ \A k \in 1..Len(posted) : posted[k] # b
    /\ queue' = Append(queue, b)
    /\ posted' = Append(posted, b)
    /\ UNCHANGED <<frames, pending, signaled, valid, attached, modeStopped, due, ran>>

Stop(c) == /\ "stop" \in Stops /\ Running /\ Call(c)
           /\ SetTop([top EXCEPT !.stopped = TRUE])
           /\ UNCHANGED shared

StopMode(c, m) ==
    /\ m \in Stops /\ Call(c)
    /\ modeStopped' = modeStopped \cup {m}
    /\ UNCHANGED <<frames, queue, pending, signaled, valid, attached, due, posted, ran>>

\* __CFRunLoopTimeout on its dispatch queue: termTSR becomes 0.
Timeout(c, n) ==
    /\ Call(c) /\ n \in 1..Len(frames) /\ frames[n].deadline = "ahead"
    /\ frames' = [frames EXCEPT ![n].deadline = "passed"]
    /\ UNCHANGED shared

\* CFRunLoopWakeUp: ignored outside of runs (ignoreWakeUps is set in the data
\* the loop was created with, not in that of a run); the port's queue has
\* length one, a second message is refused.
WakeUpSleeper(c) ==                    \* mutant: only a sleeping loop is woken
    /\ pc[c] = "wake" /\ pc' = [pc EXCEPT ![c] = "idle"]
    /\ pending' = IF At("waiting") THEN pending \cup {WakeUpPort} ELSE pending
    /\ UNCHANGED <<frames, queue, signaled, valid, attached, modeStopped, due, posted, ran>>
WakeUp(c) ==
    /\ pc[c] = "wake" /\ pc' = [pc EXCEPT ![c] = "idle"]
    /\ pending' = IF Running THEN pending \cup {WakeUpPort} ELSE pending
    /\ UNCHANGED <<frames, queue, signaled, valid, attached, modeStopped, due, posted, ran>>

\* CFRunLoopSourceInvalidate: the bits under the source's lock, then, with
\* the lock released, the removal from every mode of the loop.
Invalidate(c, s) ==
    /\ pc[c] = "idle" /\ s \in valid \cap Invalidated
    /\ pc' = [pc EXCEPT ![c] = s]
    /\ valid' = valid \ {s} /\ signaled' = signaled \ {s} /\ due' = due \ {s}
    /\ UNCHANGED <<frames, queue, pending, attached, modeStopped, posted, ran>>
RemoveFromModes(c) ==
    /\ pc[c] \in Source
    /\ attached' = attached \ {pc[c]} /\ pc' = [pc EXCEPT ![c] = "idle"]
    /\ UNCHANGED <<frames, queue, pending, signaled, valid, modeStopped, due, posted, ran>>

Finishing(c) == WakeUp(c) \/ RemoveFromModes(c)

ClientStep(c) ==
    \/ Finishing(c) \/ Stop(c)
    \/ \E s \in Source : Signal(c, s) \/ Invalidate(c, s)
    \/ \E b \in Block : PerformBlock(c, b)
    \/ \E m \in Mode : StopMode(c, m)
    \/ \E n \in 1..Depth : Timeout(c, n)

\* The kernel: a timer expires, the main queue has work, a peer sends.
Send(p) == /\ p \in Port \ {WakeUpPort}
           /\ pending' = pending \cup {p}
           /\ UNCHANGED <<frames, queue, signaled, valid, attached, modeStopped, pc, due, posted, ran>>

Next == \/ \E run \in Runs, d \in Deadline : Enter(run[1], run[2], d)
        \/ LoopStep
        \/ \E c \in Client : ClientStep(c)
        \/ \E p \in Port : Send(p)

Spec == Init /\ [][Next]_vars

\* The loop's thread goes on (callouts return) and a thread that has called in
\* finishes its call.  No call, message or run is ever owed.
Fairness == /\ WF_vars(LoopStep)
            /\ \A c \in Client : WF_vars(Finishing(c))
LiveSpec == Spec /\ Fairness

-----------------------------------------------------------------------------
(* Properties.                                                             *)

TypeOK == /\ frames \in Seq(Frame) /\ Len(frames) <= Depth
          /\ queue \in Seq(Block) /\ posted \in Seq(Block) /\ ran \in Seq(Block)
          /\ pending \subseteq Port
          /\ signaled \subseteq valid /\ valid \cup attached \subseteq Source
          /\ due \subseteq Source /\ modeStopped \subseteq Mode
          /\ pc \in [Client -> {"idle", "wake"} \cup Source]

\* The thread is in mach_msg without a timeout and no message is there for it.
Asleep == At("waiting") /\ ~top.poll /\ Receivable = {}

\* What the run in progress has to do, short of _CFRunLoopStopMode, which may
\* be meant for a later run of the mode.
Work == \/ \E s \in attached \cap signaled : top.mode \in In[s]
        \/ \E k \in 1..Len(queue) : Eligible(queue[k], top.mode)
        \/ top.stopped \/ top.deadline = "passed"

\* No wake-up is lost: the thread sleeps on a signaled source, an eligible
\* block, a stop request or a passed deadline only while the caller that made
\* it has still to call CFRunLoopWakeUp.
NoLostWakeUp == Asleep /\ Work => \E c \in Client : pc[c] = "wake"

\* A signal is kept until the source is performed or invalidated, also when it
\* comes during the source's own callout, and an invalidated source has none.
SignalKept == signaled = due

\* A perform callout answers a signal that no earlier callout answered: a
\* source collected by two runs is performed once.
PerformsOnlyDue ==
    [][\A s \in Source :
         /\ Running /\ Len(frames') = Len(frames)
         /\ top.callout # s /\ top'.callout = s
         => s \in due]_vars

\* Where a block may be: on the list of blocks that ran (-1), in the queue (0) or on what a
\* run has detached; a place is a position of one of these.
Blocks(n) == CASE n = -1 -> ran
               [] n = 0 -> queue
               [] OTHER -> frames[n].kept \o frames[n].list
Places == UNION {{n} \X (1..Len(Blocks(n))) : n \in -1..Len(frames)}
BlockAt(p) == Blocks(p[1])[p[2]]
Queued(b) == \E k \in 1..Len(posted) : posted[k] = b
Ran(b) == \E k \in 1..Len(ran) : ran[k] = b

\* A queued block is in exactly one place, however runs nest: in the queue, on
\* the detached list of one run, or run.
BlocksOnce ==
    /\ \A p, q \in Places : BlockAt(p) = BlockAt(q) => p = q
    /\ \A b \in Block : Queued(b) <=> \E p \in Places : BlockAt(p) = b

\* Blocks queued for the same modes run in the order they were queued, across
\* cycles and runs that leave blocks for other modes (no block runs the loop).
FirstCome ==
    \A i, j \in 1..Len(posted) :
        /\ i < j /\ In[posted[i]] = In[posted[j]]
        /\ Ran(posted[j])
        => Ran(posted[i])

\* A signaled source of a running mode is performed, and a block queued for the
\* mode is run, unless the run ends.
Served ==
    /\ \A s \in Source :
        (s \in signaled /\ Running /\ top.mode \in In[s]) ~> (s \notin signaled \/ ~Running)
    /\ \A b \in Block :
        (Queued(b) /\ Running /\ top.mode \in In[b]) ~> (Ran(b) \/ ~Running)

\* A run that was asked to stop, or whose time is up, ends.
Ends == (Running /\ (top.stopped \/ top.deadline = "passed")) ~> ~Running

=============================================================================
