---------------------------- MODULE RunLoopProofs ----------------------------
(***************************************************************************)
(* RunLoop for any number of modes, sources, blocks, ports, threads and    *)
(* nested runs: signals are neither lost nor answered twice.               *)
(***************************************************************************)
EXTENDS RunLoop, TLAPS

\* Every run on the stack is well formed.
FramesOK == frames \in Seq(Frame)

\* The part of the state the signals live in.
SignalInv == signaled = due /\ signaled \subseteq valid

LEMMA TopIsFrame == FramesOK /\ Running => top \in Frame /\ Len(frames) \in Nat \ {0}
  BY DEF FramesOK, Running, top

LEMMA SetTopOK ==
    ASSUME NEW f \in Frame, FramesOK, Running, SetTop(f)
    PROVE  FramesOK' /\ Len(frames') = Len(frames) /\ top' = f
  BY DEF FramesOK, Running, SetTop, top

-----------------------------------------------------------------------------
LEMMA InitSignals == Init => SignalInv
  BY DEF Init, SignalInv

LEMMA NextSignals == SignalInv /\ [Next]_vars => SignalInv'
<1> SUFFICES ASSUME SignalInv, [Next]_vars PROVE SignalInv'
  OBVIOUS
<1> USE DEF SignalInv
<1>1. ASSUME NEW m, NEW st, NEW d, Enter(m, st, d) PROVE SignalInv'
  BY <1>1 DEF Enter, shared
<1>2. CASE LoopStep
  <2>1. CASE EndCallout \/ Leave
    BY <2>1 DEF EndCallout, Leave, shared
  <2>2. ASSUME NEW where, Observe(where) PROVE SignalInv'
    BY <2>2 DEF Observe, shared
  <2>3. ASSUME NEW where, Detach(where) \/ CallBlock(where) \/ Reattach(where)
        PROVE  SignalInv'
    BY <2>3 DEF Detach, CallBlock, Reattach
  <2>4. CASE Collect \/ SourcesDone
    BY <2>4 DEF Collect, SourcesDone, shared
  <2>5. ASSUME NEW s \in Source, Perform(s) PROVE SignalInv'
    BY <2>5 DEF Perform
  <2>6. ASSUME NEW s \in Source, Skip(s) PROVE SignalInv'
    BY <2>6 DEF Skip
  <2>7. CASE PollDispatch \/ Wait \/ Handle
    BY <2>7 DEF PollDispatch, Wait, Handle, shared
  <2>8. ASSUME NEW late, Decide(late) PROVE SignalInv'
    BY <2>8 DEF Decide
  <2> QED BY <1>2, <2>1, <2>2, <2>3, <2>4, <2>5, <2>6, <2>7, <2>8 DEF LoopStep
<1>3. ASSUME NEW c \in Client, ClientStep(c) PROVE SignalInv'
  <2>1. CASE Finishing(c)
    BY <2>1 DEF Finishing, WakeUp, RemoveFromModes
  <2>2. CASE Stop(c)
    BY <2>2 DEF Stop, shared
  <2>3. ASSUME NEW s \in Source, Signal(c, s) PROVE SignalInv'
    BY <2>3 DEF Signal
  <2>4. ASSUME NEW s \in Source, Invalidate(c, s) PROVE SignalInv'
    BY <2>4 DEF Invalidate
  <2>5. ASSUME NEW b \in Block, PerformBlock(c, b) PROVE SignalInv'
    BY <2>5 DEF PerformBlock
  <2>6. ASSUME NEW m \in Mode, StopMode(c, m) PROVE SignalInv'
    BY <2>6 DEF StopMode
  <2>7. ASSUME NEW n \in 1..Depth, Timeout(c, n) PROVE SignalInv'
    BY <2>7 DEF Timeout, shared
  <2> QED BY <1>3, <2>1, <2>2, <2>3, <2>4, <2>5, <2>6, <2>7 DEF ClientStep
<1>4. ASSUME NEW p \in Port, Send(p) PROVE SignalInv'
  BY <1>4 DEF Send
<1>5. CASE UNCHANGED vars
  BY <1>5 DEF vars
<1> QED BY <1>1, <1>2, <1>3, <1>4, <1>5 DEF Next

\* CFRunLoopSourceSignal, DoSources0 and Invalidate together: the signaled bit
\* is set exactly while a signal waits for its perform, whatever the nesting.
THEOREM SignalsKept == Spec => []SignalKept
<1>1. SignalInv => SignalKept
  BY DEF SignalInv, SignalKept
<1> QED BY InitSignals, NextSignals, <1>1, PTL DEF Spec

-----------------------------------------------------------------------------
(* The stack of runs stays well formed.  The list a run detaches is a       *)
(* sequence of blocks because the queue is.                                *)

Typed == /\ FramesOK /\ queue \in Seq(Block)
         /\ attached \subseteq Source /\ pending \subseteq Port

LEMMA ObserverPC == \A where \in DOMAIN ObserverStep : ObserverStep[where] \in PC
  BY DEF ObserverStep, PC

LEMMA BlockPC == \A where \in DOMAIN BlockStep : BlockStep[where] \in PC
  BY DEF BlockStep, PC

\* Frames in which no source is being performed.
Quiet == {f \in Frame : f.callout \notin Source}

LEMMA Disjoint == /\ Nobody \notin Source /\ "observer" \notin Source
                  /\ \A x \in Block \cup Port : x \notin Source
  BY RunLoopAssumption

LEMMA InitTyped == Init => Typed
  BY DEF Init, Typed, FramesOK

LEMMA NewFrameOK ==
    ASSUME NEW m \in Mode, NEW st \in BOOLEAN, NEW d \in {"never", "ahead"}
    PROVE  NewFrame(m, st, d) \in Frame
  BY DEF NewFrame, Frame, PC

LEMMA EnterTyped ==
    ASSUME Typed, NEW run \in Runs, NEW d \in Deadline, Enter(run[1], run[2], d)
    PROVE  Typed'
<1>1. run[1] \in Mode /\ run[2] \in BOOLEAN /\ d \in {"never", "ahead"}
  BY RunLoopAssumption
<1>2. NewFrame(run[1], run[2], d) \in Frame
  BY <1>1, NewFrameOK
<1> QED BY <1>2 DEF Enter, Typed, FramesOK, shared

\* What a step of the loop does to the stack: the current run's frame is
\* replaced by a well-formed one, or popped.
LEMMA LoopFrames ==
    ASSUME Typed, LoopStep
    PROVE  /\ queue' \in Seq(Block) /\ attached' = attached /\ pending' \subseteq pending
           /\ \/ Running /\ \E f \in Quiet : SetTop(f)
              \/ Running /\ \E s \in Source, f \in Frame : Perform(s) /\ SetTop(f)
              \/ Leave
<1> USE DEF Typed, Running, PC, Quiet
<1>0. /\ Nobody \notin Source /\ "observer" \notin Source
      /\ \A x \in Block \cup Port : x \notin Source
  BY Disjoint
<1>1. Running => top \in Frame
  BY TopIsFrame
<1>2. CASE EndCallout
  BY <1>0, <1>1, <1>2, SMTT(30) DEF EndCallout, Frame, shared
<1>3. CASE Leave
  BY <1>0, <1>3 DEF Leave, shared
<1>4. ASSUME NEW where \in DOMAIN ObserverStep, Observe(where)
      PROVE  queue' \in Seq(Block) /\ UNCHANGED <<attached, pending>> /\ Running /\ \E f \in Quiet : SetTop(f)
  <2>1. top \in Frame /\ top.callout = Nobody /\ ObserverStep[where] \in PC
    BY <1>0, <1>1, <1>4, ObserverPC DEF Observe, At
  <2>2. [top EXCEPT !.pc = ObserverStep[where]] \in Quiet
    BY <1>0, <2>1, SMTT(30) DEF Frame
  <2>3. [[top EXCEPT !.pc = ObserverStep[where]] EXCEPT !.callout = "observer"] \in Quiet
    BY <1>0, <2>2 DEF Frame
  <2> QED BY <1>0, <2>2, <2>3, <1>4 DEF Observe, shared, At
<1>5. ASSUME NEW where \in DOMAIN BlockStep, Detach(where)
      PROVE  queue' \in Seq(Block) /\ UNCHANGED <<attached, pending>> /\ Running /\ \E f \in Quiet : SetTop(f)
  <2>1. top \in Frame /\ top.callout = Nobody /\ BlockStep[where] \in PC
    BY <1>0, <1>1, <1>5, BlockPC DEF Detach, At
  <2>2. [top EXCEPT !.pc = BlockStep[where]] \in Quiet
    BY <1>0, <2>1, SMTT(30) DEF Frame
  <2>3. [top EXCEPT !.drain = TRUE, !.list = queue] \in Quiet
    BY <1>0, <2>1, ZenonT(60) DEF Frame
  <2>4. \E f \in Quiet : SetTop(f)
    <3> HIDE DEF Quiet
    <3> QED BY <2>2, <2>3, <1>5 DEF Detach
  <2>5. queue' \in Seq(Block)
    BY <1>5 DEF Detach
  <2> QED BY <2>4, <2>5, <1>5 DEF Detach, At
<1>6. ASSUME NEW where \in DOMAIN BlockStep, CallBlock(where)
      PROVE  queue' \in Seq(Block) /\ UNCHANGED <<attached, pending>> /\ Running /\ \E f \in Quiet : SetTop(f)
  <2>1. top \in Frame /\ top.callout = Nobody /\ top.list \in Seq(Block) /\ top.kept \in Seq(Block)
    BY <1>0, <1>1, <1>6 DEF CallBlock, At, Frame
  <2>2. PICK n \in Runnable(top) :
          SetTop([top EXCEPT !.callout = top.list[n],
                       !.kept = @ \o SubSeq(top.list, 1, n - 1),
                       !.list = SubSeq(top.list, n + 1, Len(top.list))])
    BY <1>0, <1>6 DEF CallBlock
  <2>3. n \in 1..Len(top.list) /\ top.list[n] \in Block
    BY <1>0, <2>1, <2>2 DEF Runnable
  <2>4. /\ top.kept \o SubSeq(top.list, 1, n - 1) \in Seq(Block)
        /\ SubSeq(top.list, n + 1, Len(top.list)) \in Seq(Block)
    BY <1>0, <2>1, <2>3
  <2>5. [top EXCEPT !.callout = top.list[n],
                    !.kept = @ \o SubSeq(top.list, 1, n - 1),
                    !.list = SubSeq(top.list, n + 1, Len(top.list))] \in Quiet
    BY <1>0, <2>1, <2>3, <2>4, ZenonT(60) DEF Frame
  <2> QED BY <1>0, <1>6, <2>2, <2>5 DEF CallBlock, At
<1>7. ASSUME NEW where \in DOMAIN BlockStep, Reattach(where)
      PROVE  queue' \in Seq(Block) /\ UNCHANGED <<attached, pending>> /\ Running /\ \E f \in Quiet : SetTop(f)
  <2>1. top \in Frame /\ top.callout = Nobody /\ top.list \in Seq(Block) /\ top.kept \in Seq(Block)
    BY <1>0, <1>1, <1>7 DEF Reattach, At, Frame
  <2>2. queue' \in Seq(Block)
    BY <1>0, <2>1, <1>7 DEF Reattach, Reattached
  <2>3. [top EXCEPT !.pc = BlockStep[where], !.drain = FALSE,
                    !.list = <<>>, !.kept = <<>>] \in Quiet
    <3>1. BlockStep[where] \in PC /\ <<>> \in Seq(Block)
      BY BlockPC
    <3> QED BY <1>0, <2>1, <3>1, ZenonT(60) DEF Frame
  <2> QED BY <1>0, <1>7, <2>2, <2>3 DEF Reattach, At
<1>8. CASE Collect
  <2>1. top \in Frame /\ top.callout = Nobody
    BY <1>0, <1>1, <1>8 DEF Collect, At
  <2>2. PICK found \in SUBSET Source :
          SetTop([top EXCEPT !.todo = found, !.handled = FALSE, !.pc = "perform"])
    BY <1>0, <1>8 DEF Collect
  <2>3. [top EXCEPT !.todo = found, !.handled = FALSE, !.pc = "perform"] \in Quiet
    BY <1>0, <2>1, ZenonT(60) DEF Frame
  <2> QED BY <1>0, <2>2, <2>3, <1>8 DEF Collect, shared, At
<1>9. CASE SourcesDone
  BY <1>0, <1>1, <1>9 DEF SourcesDone, Frame, shared, At
<1>10. ASSUME NEW s \in Source, Perform(s)
       PROVE  /\ queue' \in Seq(Block) /\ UNCHANGED <<attached, pending>> /\ Running
              /\ \E f \in Frame : SetTop(f)
  <2>1. top \in Frame /\ top.callout = Nobody /\ Left(top, s) \subseteq Source
    BY <1>0, <1>1, <1>10 DEF Perform, At, Frame, Left
  <2> QED BY <1>0, <2>1, <1>10 DEF Perform, At, Frame
<1>11. ASSUME NEW s \in Source, Skip(s)
       PROVE  queue' \in Seq(Block) /\ UNCHANGED <<attached, pending>> /\ Running /\ \E f \in Quiet : SetTop(f)
  BY <1>0, <1>1, <1>11 DEF Skip, Frame, At
<1>12. CASE PollDispatch
  <2>1. top \in Frame /\ top.callout = Nobody /\ DispatchPort \in Port
    BY <1>0, <1>1, <1>12, RunLoopAssumption DEF PollDispatch, At
  <2>2. CASE SetTop([top EXCEPT !.live = DispatchPort, !.pc = "handle"])
    BY <1>0, <2>1, <2>2, <1>12, ZenonT(60) DEF PollDispatch, Frame, At
  <2>3. CASE SetTop([top EXCEPT !.pc = "beforeWaiting",
                               !.poll = top.handled \/ top.deadline = "passed"])
    <3>1. top.handled \in BOOLEAN
      BY <1>0, <2>1 DEF Frame
    <3>2. [top EXCEPT !.pc = "beforeWaiting",
                     !.poll = top.handled \/ top.deadline = "passed"] \in Quiet
      BY <1>0, <2>1, <3>1, ZenonT(60) DEF Frame
    <3> QED BY <3>2, <2>3, <1>12 DEF PollDispatch, At
  <2> QED BY <1>0, <2>2, <2>3, <1>12 DEF PollDispatch
<1>13. CASE Wait
  <2>1. top \in Frame /\ top.callout = Nobody
    BY <1>0, <1>1, <1>13 DEF Wait, At
  <2>2. PICK p \in Receivable \cup {Nobody} :
           /\ pending' \subseteq pending
           /\ SetTop([top EXCEPT !.live = p, !.pc = "afterWaiting"])
    BY <1>0, <1>13 DEF Wait
  <2>3. p \in Port \cup {Nobody}
    BY <1>0, <2>2 DEF Receivable
  <2>4. [top EXCEPT !.live = p, !.pc = "afterWaiting"] \in Quiet
    BY <1>0, <2>1, <2>3, ZenonT(60) DEF Frame
  <2>5. queue' \in Seq(Block) /\ attached' = attached /\ pending' \subseteq pending /\ Running
    BY <2>2, <1>13 DEF Wait, At
  <2> QED BY <2>2, <2>4, <2>5
<1>14. CASE Handle
  <2>1. top \in Frame /\ top.callout = Nobody
    BY <1>0, <1>1, <1>14 DEF Handle, At
  <2>2. \A x \in Port \cup {Nobody} :
          [top EXCEPT !.live = Nobody, !.pc = "blocks3", !.callout = x] \in Quiet
    <3> SUFFICES ASSUME NEW x \in Port \cup {Nobody}
                 PROVE  [top EXCEPT !.live = Nobody, !.pc = "blocks3", !.callout = x] \in Quiet
      OBVIOUS
    <3>1. x \notin Source
      BY <1>0
    <3> QED BY <2>1, <3>1, ZenonT(60) DEF Frame
  <2>3. (IF top.live = WakeUpPort THEN Nobody ELSE top.live) \in Port \cup {Nobody}
    BY <2>1 DEF Frame
  <2>4. \E f \in Quiet : SetTop(f)
    <3> HIDE DEF Quiet
    <3> QED BY <2>2, <2>3, <1>14 DEF Handle
  <2> QED BY <2>4, <1>14 DEF Handle, shared, At
<1>15. ASSUME NEW late \in BOOLEAN, Decide(late)
       PROVE  queue' \in Seq(Block) /\ UNCHANGED <<attached, pending>> /\ Running /\ \E f \in Quiet : SetTop(f)
  <2>1. top \in Frame /\ top.callout = Nobody
    BY <1>0, <1>1, <1>15 DEF Decide, At
  <2>2. Again \in Quiet
    BY <1>0, <2>1, ZenonT(60) DEF Again, Frame
  <2>3. ASSUME NEW r \in {"HandledSource", "TimedOut", "Stopped", "Finished"}, Finish(r)
        PROVE \E f \in Quiet : SetTop(f)
    <3>1. (top.stopped /\ r # "Stopped") \in BOOLEAN
      OBVIOUS
    <3>2. \A b \in BOOLEAN :
             [top EXCEPT !.result = r, !.pc = "exit", !.stopped = b] \in Quiet
      BY <1>0, <2>1, ZenonT(60) DEF Frame
    <3> QED BY <3>1, <3>2, <2>3 DEF Finish
  <2> QED BY <1>0, <1>15, <2>2, <2>3 DEF Decide, At
<1> QED
  BY <1>0, <1>2, <1>3, <1>4, <1>5, <1>6, <1>7, <1>8, <1>9, <1>10, <1>11, <1>12, <1>13,
     <1>14, <1>15 DEF LoopStep, EndCallout

LEMMA NextTyped == Typed /\ [Next]_vars => Typed'
<1> SUFFICES ASSUME Typed, [Next]_vars PROVE Typed'
  OBVIOUS
<1>1. ASSUME NEW run \in Runs, NEW d \in Deadline, Enter(run[1], run[2], d)
      PROVE  Typed'
  BY <1>1, EnterTyped
<1>2. CASE LoopStep
  <2>1. /\ queue' \in Seq(Block) /\ attached' = attached /\ pending' \subseteq pending
        /\ (Running /\ \E f \in Frame : SetTop(f)) \/ Leave
    BY <1>2, LoopFrames DEF Quiet
  <2>2. CASE Running /\ \E f \in Frame : SetTop(f)
    BY <2>1, <2>2, SetTopOK DEF Typed
  <2>3. CASE Leave
    <3>1. frames \in Seq(Frame) /\ frames # <<>>
      BY <2>3 DEF Leave, At, Running, Typed, FramesOK
    <3>2. SubSeq(frames, 1, Len(frames) - 1) \in Seq(Frame)
      BY <3>1
    <3> QED BY <2>1, <2>3, <3>2 DEF Leave, Typed, FramesOK
  <2> QED BY <2>1, <2>2, <2>3
<1>3. ASSUME NEW c \in Client, ClientStep(c) PROVE Typed'
  <2>1. CASE Finishing(c)
    BY <2>1, RunLoopAssumption
    DEF Finishing, WakeUp, RemoveFromModes, Typed, FramesOK, Running
  <2>2. CASE Stop(c)
    <3>1. top \in Frame
      BY <2>2, TopIsFrame DEF Stop, Typed
    <3>2. [top EXCEPT !.stopped = TRUE] \in Frame
      BY <3>1 DEF Frame
    <3> QED BY <2>2, <3>2, SetTopOK DEF Stop, Typed, shared
  <2>3. ASSUME NEW s \in Source, Signal(c, s) \/ Invalidate(c, s) PROVE Typed'
    BY <2>3 DEF Signal, Invalidate, Typed, FramesOK
  <2>4. ASSUME NEW b \in Block, PerformBlock(c, b) PROVE Typed'
    BY <2>4 DEF PerformBlock, Typed, FramesOK
  <2>5. ASSUME NEW m \in Mode, StopMode(c, m) PROVE Typed'
    BY <2>5 DEF StopMode, Typed, FramesOK
  <2>6. ASSUME NEW n \in 1..Depth, Timeout(c, n) PROVE Typed'
    <3>1. n \in 1..Len(frames) /\ frames \in Seq(Frame) /\ frames[n] \in Frame
      BY <2>6 DEF Timeout, Typed, FramesOK
    <3>2. [frames[n] EXCEPT !.deadline = "passed"] \in Frame
      BY <3>1 DEF Frame
    <3>3. frames' = [frames EXCEPT ![n] = [frames[n] EXCEPT !.deadline = "passed"]]
      BY <2>6 DEF Timeout
    <3> QED BY <3>1, <3>2, <3>3, <2>6 DEF Timeout, Typed, FramesOK, shared
  <2> QED BY <1>3, <2>1, <2>2, <2>3, <2>4, <2>5, <2>6 DEF ClientStep
<1>4. ASSUME NEW p \in Port, Send(p) PROVE Typed'
  BY <1>4 DEF Send, Typed, FramesOK
<1>5. CASE UNCHANGED vars
  BY <1>5 DEF vars, Typed, FramesOK
<1> QED BY <1>1, <1>2, <1>3, <1>4, <1>5 DEF Next

-----------------------------------------------------------------------------
(* The action property.                                                    *)

\* What one step does to the callout of the current run.
Answered == \A s \in Source :
    /\ Running /\ Len(frames') = Len(frames)
    /\ top.callout # s /\ top'.callout = s
    => s \in due

LEMMA SameFrames == UNCHANGED frames => Answered
  BY DEF Answered, top

LEMMA StepActions == Typed /\ SignalInv /\ [Next]_vars => Answered
<1> SUFFICES ASSUME Typed, SignalInv, [Next]_vars PROVE Answered
  OBVIOUS
<1>0. FramesOK /\ frames \in Seq(Frame)
  BY DEF Typed, FramesOK
<1>1. ASSUME NEW run \in Runs, NEW d \in Deadline, Enter(run[1], run[2], d)
      PROVE  Answered
  BY <1>0, <1>1 DEF Enter, Answered
<1>2. CASE LoopStep
  <2>1. CASE Running /\ \E f \in Quiet : SetTop(f)
    <3>1. PICK f \in Frame : SetTop(f) /\ f.callout \notin Source
      BY <2>1 DEF Quiet
    <3>2. top' = f
      BY <1>0, <2>1, <3>1, SetTopOK
    <3> QED BY <1>0, <2>1, <3>1, <3>2 DEF Answered
  <2>2. CASE Running /\ \E s \in Source, f \in Frame : Perform(s) /\ SetTop(f)
    <3>1. PICK s \in Source, f \in Frame : Perform(s) /\ SetTop(f)
      BY <2>2
    <3>2. top' = f /\ s \in due
      BY <1>0, <2>2, <3>1, SetTopOK DEF Perform, SignalInv
    <3>3. SetTop([top EXCEPT !.todo = Left(top, s), !.handled = TRUE, !.callout = s])
      BY <3>1 DEF Perform
    <3>4. top \in Frame /\ Left(top, s) \subseteq Source
      BY <1>0, <2>2, TopIsFrame DEF Left, Frame
    <3>5. [top EXCEPT !.todo = Left(top, s), !.handled = TRUE, !.callout = s] \in Frame
      BY <3>4 DEF Frame
    <3>6. top' = [top EXCEPT !.todo = Left(top, s), !.handled = TRUE, !.callout = s]
      BY <1>0, <2>2, <3>3, <3>5, SetTopOK
    <3>7. top'.callout = s
      BY <3>4, <3>6 DEF Frame
    <3> QED BY <1>0, <2>2, <3>1, <3>2, <3>7 DEF Answered
  <2>3. CASE Leave
    <3>1. frames # <<>> /\ frames' = SubSeq(frames, 1, Len(frames) - 1)
      BY <2>3 DEF Leave, At, Running
    <3> QED BY <1>0, <3>1 DEF Answered
  <2> QED BY <1>2, <2>1, <2>2, <2>3, LoopFrames
<1>3. ASSUME NEW c \in Client, ClientStep(c) PROVE Answered
  <2>1. CASE Stop(c)
    <3>1. Running /\ top \in Frame /\ SetTop([top EXCEPT !.stopped = TRUE])
      BY <1>0, <2>1, TopIsFrame DEF Stop
    <3>2. [top EXCEPT !.stopped = TRUE] \in Frame
      BY <3>1 DEF Frame
    <3>3. top' = [top EXCEPT !.stopped = TRUE]
      BY <1>0, <3>1, <3>2, SetTopOK
    <3>4. top'.callout = top.callout
      BY <3>1, <3>3 DEF Frame
    <3> QED BY <1>0, <3>1, <3>4 DEF Answered
  <2>2. ASSUME NEW n \in 1..Depth, Timeout(c, n) PROVE Answered
    <3>1. n \in 1..Len(frames) /\ frames[n] \in Frame
      BY <1>0, <2>2 DEF Timeout
    <3>2. frames' = [frames EXCEPT ![n] = [frames[n] EXCEPT !.deadline = "passed"]]
      BY <2>2 DEF Timeout
    <3>3. \A k \in 1..Len(frames) : frames'[k].callout = frames[k].callout
      BY <1>0, <3>1, <3>2 DEF Frame
    <3>4. Len(frames') = Len(frames) /\ Len(frames) \in 1..Len(frames)
      BY <1>0, <3>1, <3>2
    <3> QED BY <1>0, <3>3, <3>4 DEF Answered, top
  <2>3. UNCHANGED frames => Answered
    BY SameFrames
  <2> QED BY <1>3, <2>1, <2>2, <2>3
    DEF ClientStep, Finishing, WakeUp, RemoveFromModes, Signal, Invalidate,
        PerformBlock, StopMode
<1>4. ASSUME NEW p \in Port, Send(p) PROVE Answered
  BY <1>4, SameFrames DEF Send
<1>5. CASE UNCHANGED vars
  BY <1>5, SameFrames DEF vars
<1> QED BY <1>1, <1>2, <1>3, <1>4, <1>5 DEF Next

\* __CFRunLoopDoSources0: a source callout starts only on a signal that no
\* callout of any run, nested or not, has answered.
THEOREM PerformedOncePerSignal == Spec => PerformsOnlyDue
<1>1. Typed /\ SignalInv /\ [Next]_vars =>
        [\A s \in Source :
           /\ Running /\ Len(frames') = Len(frames)
           /\ top.callout # s /\ top'.callout = s
           => s \in due]_vars
  BY StepActions DEF Answered
<1> QED
  BY <1>1, InitTyped, InitSignals, NextTyped, NextSignals, PTL DEF Spec, PerformsOnlyDue
=============================================================================
