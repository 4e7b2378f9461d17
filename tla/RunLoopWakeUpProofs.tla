------------------------- MODULE RunLoopWakeUpProofs -------------------------
(***************************************************************************)
(* RunLoop for any number of modes, sources, blocks, ports, threads and    *)
(* nested runs: no wake-up is lost and blocks run in the order they were   *)
(* queued, as long as runs nest in the callouts of sources and messages    *)
(* only; and every block is in one place, however runs nest.               *)
(***************************************************************************)
EXTENDS RunLoopProofs, SequenceTheorems

\* Runs nest in the callouts of sources and of messages only.
NestsLate == \A n \in Nests : n[1] \in {"source0", "message"}

\* A run that will not sleep before it has looked at everything again: it polls, or is
\* past its sleep.
Calm(f) == \/ f.pc \in {"perform", "blocks2", "dispatch"} /\ f.handled
           \/ f.pc \in {"beforeWaiting", "waiting"} /\ f.poll
           \/ f.pc \in {"afterWaiting", "handle", "blocks3", "decide", "exit", "gone"}

\* A wake-up is on its way.
Owed == WakeUpPort \in pending \/ \E c \in Client : pc[c] = "wake"

\* The current run has yet to look at the sources, and at the queue, or there is nothing
\* for it in them; and it has not been asked to end.
ToPerform == {s \in attached \cap signaled : top.mode \in In[s]}
ToRun == {k \in 1 .. Len(queue) : Eligible(queue[k], top.mode)}
Ahead ==
    /\ ~top.stopped /\ top.deadline # "passed"
    /\ \/ top.pc \in {"entry", "before", "blocks1", "sources0"}
       \/ top.pc = "perform" /\ ToPerform \subseteq top.todo
       \/ ToPerform = {}
    /\ \/ top.pc \in {"entry", "before"}
       \/ top.pc = "blocks1" /\ ~top.drain
       \/ ToRun = {}

\* The fields of a run agree with the step it is at.
FrameOK(f) ==
    /\ f.callout \in Source => f.pc = "perform" /\ f.handled
    /\ f.callout \in Port => f.pc = "blocks3"
    /\ f.drain => f.pc \in {"blocks1", "blocks2", "blocks3"}
    /\ \A k \in 1 .. Len(f.kept) : ~Eligible(f.kept[k], f.mode)

WakeInv ==
    /\ \A n \in 1 .. Len(frames) : FrameOK(frames[n])
    /\ \A n \in 1 .. Len(frames) - 1 : Calm(frames[n])
    /\ Running => Calm(top) \/ Owed \/ Ahead

-----------------------------------------------------------------------------
\* Ports, sources, blocks and the markers of a frame are told apart.
LEMMA PortsApart ==
    /\ WakeUpPort \in Port /\ WakeUpPort # DispatchPort /\ In[WakeUpPort] = Mode
    /\ Nobody \notin Source /\ Nobody \notin Port /\ "observer" \notin Source /\ "observer" \notin Port
    /\ \A b \in Block : b \notin Source /\ b \notin Port
    /\ \A p \in Port : p \notin Source
    /\ "idle" \notin Source /\ "wake" \notin Source
  BY RunLoopAssumption

\* A sequence without its last element.
LEMMA ButLast ==
    ASSUME NEW S, NEW s \in Seq(S), NEW r, s # <<>>, r = SubSeq(s, 1, Len(s) - 1)
    PROVE  /\ Len(s) \in Nat \ {0} /\ Len(r) = Len(s) - 1
           /\ \A n \in 1 .. Len(s) - 1 : r[n] = s[n]
<1>1. Len(s) \in Nat \ {0}
  OBVIOUS
<1>2. 1 .. Len(s) - 1 \subseteq 1 .. Len(s)
  BY <1>1
<1>3. \A n \in 1 .. Len(s) - 1 : s[n] \in S
  BY <1>1, <1>2
<1>4. Len(r) = IF 1 <= Len(s) - 1 THEN Len(s) - 1 - 1 + 1 ELSE 0
  BY <1>1, <1>3, SubSeqProperties
<1>5. \A n \in 1 .. Len(s) - 1 - 1 + 1 : r[n] = s[1 + n - 1]
  BY <1>1, <1>3, SubSeqProperties
<1>6. ASSUME NEW n \in 1 .. Len(s) - 1 PROVE r[n] = s[n]
  <2>1. n \in 1 .. Len(s) - 1 - 1 + 1 /\ 1 + n - 1 = n
    BY <1>1, <1>6
  <2>2. r[n] = s[1 + n - 1]
    BY <1>5, <2>1
  <2> QED BY <2>1, <2>2
<1>7. \A k \in Nat \ {0} : (IF 1 <= k - 1 THEN k - 1 - 1 + 1 ELSE 0) = k - 1
  OBVIOUS
<1>8. Len(r) = Len(s) - 1
  BY <1>1, <1>4, <1>7, Zenon
<1> QED BY <1>1, <1>6, <1>8

\* A step of the loop that is not the end of a run replaces the current run's frame.
LEMMA TopStep ==
    ASSUME Typed, LoopStep, ~Leave
    PROVE  /\ Running /\ Running' /\ top \in Frame /\ top' \in Frame
           /\ Len(frames) \in Nat \ {0} /\ Len(frames') = Len(frames)
           /\ \A n \in 1 .. Len(frames) - 1 : frames'[n] = frames[n]
           /\ frames'[Len(frames)] = top'
           /\ \A g : SetTop(g) => top' = g
<1>1. PICK f \in Frame : Running /\ SetTop(f)
  BY LoopFrames DEF Quiet
<1>2. FramesOK' /\ Len(frames') = Len(frames) /\ top' = f
  BY <1>1, SetTopOK DEF Typed
<1>3. top \in Frame /\ Len(frames) \in Nat \ {0} /\ frames \in Seq(Frame) /\ frames' \in Seq(Frame)
  BY <1>1, <1>2, TopIsFrame DEF Typed, FramesOK
<1>4. \A g : SetTop(g) => frames'[Len(frames)] = g
  BY <1>3 DEF SetTop
<1>5. \A n \in 1 .. Len(frames) - 1 : frames'[n] = frames[n]
  BY <1>1, <1>3 DEF SetTop
<1>6. Running'
  BY <1>2, <1>3 DEF Running
<1>7. frames'[Len(frames)] = top'
  BY <1>1, <1>2, <1>4
<1> QED BY <1>1, <1>2, <1>3, <1>4, <1>5, <1>6, <1>7

\* Then the current run is all there is to look at.
LEMMA TopSuffices ==
    ASSUME Typed, WakeInv, LoopStep, ~Leave, FrameOK(top)', (Calm(top) \/ Owed \/ Ahead)'
    PROVE  WakeInv'
<1>1. \A n \in 1 .. Len(frames') : FrameOK(frames[n])'
  BY TopStep DEF WakeInv, FrameOK, Eligible
<1>2. \A n \in 1 .. Len(frames') - 1 : Calm(frames[n])'
  BY TopStep DEF WakeInv, Calm
<1> QED BY <1>1, <1>2 DEF WakeInv

\* What the current run has to do depends on these variables only.
LEMMA SameWork ==
    ASSUME attached' \subseteq attached, signaled' \subseteq signaled, queue' = queue, top'.mode = top.mode
    PROVE  ToPerform' \subseteq ToPerform /\ ToRun' = ToRun
  BY DEF ToPerform, ToRun, Eligible

\* A wake-up stays on its way while the port is not emptied and no caller acts.
LEMMA OwedStays ==
    ASSUME Owed, WakeUpPort \in pending => WakeUpPort \in pending', pc' = pc
    PROVE  Owed'
  BY DEF Owed

\* The elements of a list of blocks made of two.
LEMMA Concatenation ==
    ASSUME NEW a \in Seq(Block), NEW b \in Seq(Block)
    PROVE  /\ a \o b \in Seq(Block) /\ Len(a) \in Nat /\ Len(b) \in Nat /\ Len(a \o b) = Len(a) + Len(b)
           /\ \A k \in 1 .. Len(a \o b) :
                \/ k \in 1 .. Len(a) /\ (a \o b)[k] = a[k]
                \/ k - Len(a) \in 1 .. Len(b) /\ (a \o b)[k] = b[k - Len(a)]
  OBVIOUS
-----------------------------------------------------------------------------
(* The steps of the loop.                                                  *)

\* A step that leaves to the run what it has still to look at.
LEMMA KeepsOn ==
    ASSUME Typed, WakeInv, LoopStep, ~Leave, UNCHANGED <<pc, pending, queue>>,
           attached' \subseteq attached, signaled' \subseteq signaled, FrameOK(top)',
           top'.mode = top.mode, top'.stopped = top.stopped, top'.deadline = top.deadline,
           Calm(top) => Calm(top)',
           \/ top'.pc \in {"entry", "before", "blocks1", "sources0"}
           \/ top.pc = "perform" /\ top'.pc = "perform" /\ top.todo \cap signaled' \subseteq top'.todo
           \/ top.pc = "perform" /\ top.todo = {}
           \/ top.pc \notin {"entry", "before", "blocks1", "sources0", "perform"},
           \/ top'.pc \in {"entry", "before"}
           \/ top'.pc = "blocks1" /\ ~top'.drain
           \/ top.pc \notin {"entry", "before"} /\ ~(top.pc = "blocks1" /\ ~top.drain)
    PROVE  WakeInv'
<1>1. Running /\ (Calm(top) \/ Owed \/ Ahead)
  BY TopStep DEF WakeInv
<1>2. ToPerform' \subseteq ToPerform /\ ToRun' = ToRun /\ ToPerform' \subseteq signaled'
  BY SameWork DEF ToPerform
<1>3. Owed => Owed'
  BY OwedStays
<1>4. ASSUME Ahead PROVE Ahead'
  <2>1. \/ top'.pc \in {"entry", "before", "blocks1", "sources0"}
        \/ top'.pc = "perform" /\ ToPerform' \subseteq top'.todo
        \/ ToPerform' = {}
    BY <1>2, <1>4 DEF Ahead
  <2>2. \/ top'.pc \in {"entry", "before"}
        \/ top'.pc = "blocks1" /\ ~top'.drain
        \/ ToRun' = {}
    BY <1>2, <1>4 DEF Ahead
  <2> QED BY <1>4, <2>1, <2>2 DEF Ahead
<1> QED BY <1>1, <1>3, <1>4, TopSuffices

\* The steps of a run, one after the other.
LEMMA LoopWakes ==
    ASSUME Typed, SignalInv, WakeInv, LoopStep, ~Leave
    PROVE  WakeInv'
<1> USE PortsApart DEF shared
<1>1. /\ Running /\ top \in Frame /\ top' \in Frame /\ \A g : SetTop(g) => top' = g
      /\ FrameOK(top) /\ Len(frames) \in 1 .. Len(frames) /\ top = frames[Len(frames)]
  <2>1. Running /\ top \in Frame /\ top' \in Frame /\ \A g : SetTop(g) => top' = g
    BY TopStep
  <2>2. Len(frames) \in 1 .. Len(frames) /\ top = frames[Len(frames)]
    BY TopStep DEF top
  <2> QED BY <2>1, <2>2 DEF WakeInv
<1>2. Calm(top) \/ Owed \/ Ahead
  BY <1>1 DEF WakeInv
<1>3. CASE EndCallout
  <2>1. top' = [top EXCEPT !.callout = Nobody] /\ UNCHANGED <<shared, pc>>
    BY <1>1, <1>3 DEF EndCallout
  <2>2. /\ top'.callout = Nobody /\ top'.pc = top.pc /\ top'.handled = top.handled /\ top'.poll = top.poll
        /\ top'.drain = top.drain /\ top'.kept = top.kept /\ top'.mode = top.mode /\ top'.todo = top.todo
        /\ top'.stopped = top.stopped /\ top'.deadline = top.deadline
    BY <1>1, <2>1 DEF Frame
  <2>3. FrameOK(top)' /\ (Calm(top) => Calm(top)')
    BY <1>1, <2>2 DEF FrameOK, Calm, Eligible
  <2> QED BY <2>1, <2>2, <2>3, KeepsOn
<1>4. ASSUME NEW where \in DOMAIN ObserverStep, Observe(where) PROVE WakeInv'
  <2>1. /\ top.pc = where /\ top.callout = Nobody /\ UNCHANGED <<shared, pc>>
        /\ \/ top' = [top EXCEPT !.pc = ObserverStep[where]]
           \/ top' = [[top EXCEPT !.pc = ObserverStep[where]] EXCEPT !.callout = "observer"]
    BY <1>1, <1>4 DEF Observe, At
  <2>2. /\ top'.pc = ObserverStep[where] /\ top'.callout \in {Nobody, "observer"}
        /\ top'.handled = top.handled /\ top'.poll = top.poll
        /\ top'.drain = top.drain /\ top'.kept = top.kept /\ top'.mode = top.mode /\ top'.todo = top.todo
        /\ top'.stopped = top.stopped /\ top'.deadline = top.deadline
    <3>1. CASE top' = [top EXCEPT !.pc = ObserverStep[where]]
      BY <1>1, <2>1, <3>1 DEF Frame
    <3>2. CASE top' = [[top EXCEPT !.pc = ObserverStep[where]] EXCEPT !.callout = "observer"]
      BY <1>1, <3>2 DEF Frame
    <3> QED BY <2>1, <3>1, <3>2
  <2>3. \/ top.pc = "entry" /\ top'.pc = "before"
        \/ top.pc = "before" /\ top'.pc = "blocks1"
        \/ top.pc = "beforeWaiting" /\ top'.pc = "waiting"
        \/ top.pc = "afterWaiting" /\ top'.pc = "handle"
        \/ top.pc = "exit" /\ top'.pc = "gone"
    BY <2>1, <2>2 DEF ObserverStep
  <2>4. ~top.drain
    BY <1>1, <2>3 DEF FrameOK, Frame
  <2>5. FrameOK(top)' /\ (Calm(top) => Calm(top)')
    BY <1>1, <2>2, <2>3, <2>4 DEF FrameOK, Calm, Eligible
  <2> QED BY <2>1, <2>2, <2>3, <2>4, <2>5, KeepsOn
<1>5. ASSUME NEW where \in DOMAIN BlockStep, Detach(where) PROVE WakeInv'
  <2>1. /\ top.pc = where /\ top.callout = Nobody /\ ~top.drain /\ queue' = <<>>
        /\ top' = IF queue = <<>> THEN [top EXCEPT !.pc = BlockStep[where]]
                  ELSE [top EXCEPT !.drain = TRUE, !.list = queue]
        /\ UNCHANGED <<pending, signaled, valid, attached, pc>>
    BY <1>1, <1>5 DEF Detach, At
  <2>2. /\ top'.callout = Nobody /\ top'.handled = top.handled /\ top'.kept = top.kept
        /\ top'.mode = top.mode /\ top'.stopped = top.stopped /\ top'.deadline = top.deadline
        /\ \/ top'.pc = BlockStep[where] /\ top'.drain = top.drain
           \/ top'.pc = top.pc /\ top'.drain = TRUE
    <3>1. CASE queue = <<>>
      BY <1>1, <2>1, <3>1 DEF Frame
    <3>2. CASE queue # <<>>
      BY <1>1, <2>1, <3>2 DEF Frame
    <3> QED BY <3>1, <3>2
  <2>3. \/ top.pc = "blocks1" /\ top'.pc \in {"blocks1", "sources0"}
        \/ top.pc = "blocks2" /\ top'.pc \in {"blocks2", "dispatch"}
        \/ top.pc = "blocks3" /\ top'.pc \in {"blocks3", "decide"}
    BY <2>1, <2>2 DEF BlockStep
  <2>4. FrameOK(top)'
    BY <1>1, <2>1, <2>2, <2>3 DEF FrameOK, Eligible
  <2>5. Calm(top) => Calm(top)'
    BY <2>2, <2>3 DEF Calm
  <2>6. Owed => Owed'
    BY <2>1, OwedStays
  <2>7. ASSUME Ahead PROVE Calm(top)' \/ Ahead'
    <3>1. ToRun' = {}
      BY <2>1 DEF ToRun
    <3>2. ToPerform' = ToPerform
      BY <2>1, <2>2 DEF ToPerform
    <3>3. top'.pc \in {"blocks1", "sources0"} => Ahead'
      BY <2>2, <2>7, <3>1 DEF Ahead
    <3>4. top.pc = "blocks2" => Ahead'
      BY <2>2, <2>7, <3>1, <3>2 DEF Ahead
    <3>5. top.pc = "blocks3" => Calm(top)'
      BY <2>3 DEF Calm
    <3> QED BY <2>3, <3>3, <3>4, <3>5
  <2> QED BY <1>2, <2>4, <2>5, <2>6, <2>7, TopSuffices, <1>5 DEF Leave, Detach, At
<1>6. ASSUME NEW where \in DOMAIN BlockStep, CallBlock(where) PROVE WakeInv'
  <2>1. /\ top.pc = where /\ top.callout = Nobody /\ top.drain
        /\ UNCHANGED <<queue, pending, signaled, valid, attached, pc>>
    BY <1>6 DEF CallBlock, At
  <2>2. PICK n \in Runnable(top) :
          /\ \A k \in Runnable(top) : n <= k
          /\ top' = [top EXCEPT !.callout = top.list[n],
                                !.kept = @ \o SubSeq(top.list, 1, n - 1),
                                !.list = SubSeq(top.list, n + 1, Len(top.list))]
    BY <1>1, <1>6 DEF CallBlock
  <2>3. /\ top.list \in Seq(Block) /\ top.kept \in Seq(Block) /\ n \in 1 .. Len(top.list)
        /\ top.list[n] \in Block
    BY <1>1, <2>2 DEF Frame, Runnable
  <2>4. /\ top'.callout = top.list[n] /\ top'.pc = top.pc /\ top'.handled = top.handled
        /\ top'.poll = top.poll /\ top'.drain = top.drain /\ top'.mode = top.mode
        /\ top'.kept = top.kept \o SubSeq(top.list, 1, n - 1)
        /\ top'.stopped = top.stopped /\ top'.deadline = top.deadline
    <3> DEFINE c == top.list[n]  skipped == top.kept \o SubSeq(top.list, 1, n - 1)
               l == SubSeq(top.list, n + 1, Len(top.list))
    <3>1. top' = [top EXCEPT !.callout = c, !.kept = skipped, !.list = l]
      BY <2>2
    <3> HIDE DEF c, skipped, l
    <3>2. /\ top'.callout = c /\ top'.kept = skipped /\ top'.pc = top.pc /\ top'.handled = top.handled
          /\ top'.poll = top.poll /\ top'.drain = top.drain /\ top'.mode = top.mode
          /\ top'.stopped = top.stopped /\ top'.deadline = top.deadline
      BY <1>1, <3>1 DEF Frame
    <3> QED BY <3>2 DEF c, skipped
  <2>5. \A k \in 1 .. Len(top'.kept) : ~Eligible(top'.kept[k], top'.mode)
    <3> DEFINE skipped == SubSeq(top.list, 1, n - 1)
    <3>1. skipped \in Seq(Block) /\ Len(skipped) = n - 1 /\ \A k \in 1 .. n - 1 : skipped[k] = top.list[k]
      BY <2>3
    <3>2. \A k \in 1 .. n - 1 : ~Eligible(skipped[k], top.mode)
      BY <2>2, <2>3, <3>1 DEF Runnable
    <3>3. \A k \in 1 .. Len(top.kept) : ~Eligible(top.kept[k], top.mode)
      BY <1>1 DEF FrameOK
    <3> HIDE DEF skipped
    <3>4. \A k \in 1 .. Len(top.kept \o skipped) :
            \/ k \in 1 .. Len(top.kept) /\ (top.kept \o skipped)[k] = top.kept[k]
            \/ k - Len(top.kept) \in 1 .. n - 1 /\ (top.kept \o skipped)[k] = skipped[k - Len(top.kept)]
      BY <2>3, <3>1, Concatenation
    <3>5. \A k \in 1 .. Len(top.kept \o skipped) : ~Eligible((top.kept \o skipped)[k], top.mode)
      BY <3>2, <3>3, <3>4
    <3> QED BY <2>4, <3>5 DEF skipped
  <2>6. FrameOK(top)'
    BY <1>1, <2>3, <2>4, <2>5 DEF FrameOK, Eligible
  <2>7. Calm(top) => Calm(top)'
    BY <2>4 DEF Calm
  <2>8. top.pc \in {"blocks1", "blocks2", "blocks3"}
    BY <2>1 DEF BlockStep
  <2> QED BY <1>6, <2>1, <2>4, <2>6, <2>7, <2>8, KeepsOn DEF Leave, At, CallBlock
<1>7. ASSUME NEW where \in DOMAIN BlockStep, Reattach(where) PROVE WakeInv'
  <2>1. /\ top.pc = where /\ top.callout = Nobody /\ top.drain /\ Runnable(top) = {}
        /\ queue' = top.kept \o top.list \o queue
        /\ top' = [top EXCEPT !.pc = BlockStep[where], !.drain = FALSE, !.list = <<>>, !.kept = <<>>]
        /\ UNCHANGED <<pending, signaled, valid, attached, pc>>
    BY <1>1, <1>7 DEF Reattach, Reattached, At
  <2>2. /\ top'.callout = Nobody /\ top'.handled = top.handled /\ top'.kept = <<>> /\ top'.drain = FALSE
        /\ top'.mode = top.mode /\ top'.stopped = top.stopped /\ top'.deadline = top.deadline
        /\ top'.pc = BlockStep[where]
    BY <1>1, <2>1 DEF Frame
  <2>3. \/ top.pc = "blocks1" /\ top'.pc = "sources0"
        \/ top.pc = "blocks2" /\ top'.pc = "dispatch"
        \/ top.pc = "blocks3" /\ top'.pc = "decide"
    BY <2>1, <2>2 DEF BlockStep
  <2>4. FrameOK(top)'
    BY <2>2, PortsApart DEF FrameOK
  <2>5. Calm(top) => Calm(top)'
    BY <2>2, <2>3 DEF Calm
  <2>6. Owed => Owed'
    BY <2>1, OwedStays
  \* What goes back into the queue is not for this mode.
  <2>7. ASSUME ToRun = {} PROVE ToRun' = {}
    <3>1. /\ top.list \in Seq(Block) /\ top.kept \in Seq(Block) /\ queue \in Seq(Block)
      BY <1>1 DEF Frame, Typed
    <3>2. \A k \in 1 .. Len(top.list) : ~Eligible(top.list[k], top.mode)
      BY <2>1 DEF Runnable
    <3>3. \A k \in 1 .. Len(top.kept) : ~Eligible(top.kept[k], top.mode)
      BY <1>1 DEF FrameOK
    <3>4. \A k \in 1 .. Len(queue) : ~Eligible(queue[k], top.mode)
      BY <2>7 DEF ToRun
    <3>5. ASSUME NEW k \in 1 .. Len(queue') PROVE ~Eligible(queue'[k], top.mode)
      <4> DEFINE left == top.kept \o top.list
      <4>1. /\ left \in Seq(Block)
            /\ \A j \in 1 .. Len(left) :
                 \/ j \in 1 .. Len(top.kept) /\ left[j] = top.kept[j]
                 \/ j - Len(top.kept) \in 1 .. Len(top.list) /\ left[j] = top.list[j - Len(top.kept)]
        BY <3>1, Concatenation
      <4>2. queue' = left \o queue
        BY <2>1
      <4> HIDE DEF left
      <4>3. \/ k \in 1 .. Len(left) /\ queue'[k] = left[k]
            \/ k - Len(left) \in 1 .. Len(queue) /\ queue'[k] = queue[k - Len(left)]
        BY <3>1, <3>5, <4>1, <4>2, Concatenation
      <4> QED BY <3>2, <3>3, <3>4, <4>1, <4>3
    <3> QED BY <2>2, <3>5 DEF ToRun, Eligible
  <2>8. ASSUME Ahead PROVE Calm(top)' \/ Ahead'
    <3>1. ToPerform' = ToPerform
      BY <2>1, <2>2 DEF ToPerform
    <3>2. top.pc # "blocks3" => ToRun' = {}
      BY <2>1, <2>3, <2>7, <2>8 DEF Ahead
    <3>3. top.pc = "blocks1" => Ahead'
      BY <2>2, <2>3, <2>8, <3>2 DEF Ahead
    <3>4. top.pc = "blocks2" => Ahead'
      BY <2>2, <2>8, <3>1, <3>2 DEF Ahead
    <3>5. top.pc = "blocks3" => Calm(top)'
      BY <2>3 DEF Calm
    <3> QED BY <2>3, <3>3, <3>4, <3>5
  <2> QED BY <1>2, <1>7, <2>4, <2>5, <2>6, <2>8, TopSuffices
<1>8. CASE Collect
  <2>1. /\ top.pc = "sources0" /\ top.callout = Nobody /\ UNCHANGED <<shared, pc>>
        /\ top' = [top EXCEPT !.todo = {s \in attached \cap valid \cap signaled : top.mode \in In[s]},
                              !.handled = FALSE, !.pc = "perform"]
    BY <1>1, <1>8 DEF Collect, At
  <2>2. /\ top'.callout = Nobody /\ top'.drain = top.drain /\ top'.kept = top.kept
        /\ top'.mode = top.mode /\ top'.stopped = top.stopped /\ top'.deadline = top.deadline
        /\ top'.pc = "perform" /\ top'.todo = {s \in attached \cap valid \cap signaled : top.mode \in In[s]}
    <3> DEFINE found == {s \in attached \cap valid \cap signaled : top.mode \in In[s]}
    <3>1. top' = [top EXCEPT !.todo = found, !.handled = FALSE, !.pc = "perform"]
      BY <2>1
    <3> HIDE DEF found
    <3>2. /\ top'.callout = top.callout /\ top'.drain = top.drain /\ top'.kept = top.kept
          /\ top'.mode = top.mode /\ top'.stopped = top.stopped /\ top'.deadline = top.deadline
          /\ top'.pc = "perform" /\ top'.todo = found
      BY <1>1, <3>1 DEF Frame
    <3> QED BY <2>1, <3>2 DEF found
  <2>3. ~top.drain
    BY <1>1, <2>1 DEF FrameOK, Frame
  <2>4. FrameOK(top)'
    BY <1>1, <2>2, <2>3, PortsApart DEF FrameOK, Eligible
  <2>5. ~Calm(top)
    BY <2>1 DEF Calm
  <2>6. Owed => Owed'
    BY <2>1, OwedStays
  <2>7. ASSUME Ahead PROVE Ahead'
    <3>1. ToPerform' \subseteq top'.todo
      BY <2>1, <2>2 DEF ToPerform, SignalInv
    <3>2. ToRun' = {}
      BY <2>1, <2>2, <2>7 DEF ToRun, Ahead, Eligible
    <3> QED BY <2>2, <2>7, <3>1, <3>2 DEF Ahead
  <2> QED BY <1>2, <2>4, <2>5, <2>6, <2>7, TopSuffices
<1>9. CASE SourcesDone
  <2>1. /\ top.pc = "perform" /\ top.callout = Nobody /\ top.todo = {} /\ UNCHANGED <<shared, pc>>
        /\ top' = [top EXCEPT !.pc = IF top.handled THEN "blocks2" ELSE "dispatch"]
    BY <1>1, <1>9 DEF SourcesDone, At
  <2>2. /\ top'.callout = Nobody /\ top'.pc = (IF top.handled THEN "blocks2" ELSE "dispatch")
        /\ top'.handled = top.handled /\ top'.drain = top.drain /\ top'.kept = top.kept
        /\ top'.mode = top.mode /\ top'.stopped = top.stopped /\ top'.deadline = top.deadline
    BY <1>1, <2>1 DEF Frame
  <2>3. ~top.drain
    BY <1>1, <2>1 DEF FrameOK, Frame
  <2>4. FrameOK(top)'
    BY <1>1, <2>2, <2>3 DEF FrameOK, Eligible
  <2>5. Calm(top) => Calm(top)'
    BY <2>1, <2>2 DEF Calm
  <2> QED BY <1>9, <2>1, <2>2, <2>3, <2>4, <2>5, KeepsOn DEF SourcesDone, At
<1>10. ASSUME NEW s \in Source, Perform(s) PROVE WakeInv'
  <2>1. /\ top.pc = "perform" /\ top.callout = Nobody
        /\ top' = [top EXCEPT !.todo = Left(top, s), !.handled = TRUE, !.callout = s]
    BY <1>1, <1>10 DEF Perform, At
  <2>2. /\ top'.callout = s /\ top'.pc = "perform" /\ top'.handled = TRUE
        /\ top'.drain = top.drain /\ top'.kept = top.kept /\ top'.mode = top.mode
    BY <1>1, <2>1 DEF Frame
  <2>3. FrameOK(top)' /\ Calm(top)'
    BY <1>1, <2>1, <2>2 DEF FrameOK, Calm, Eligible
  <2> QED BY <2>3, TopSuffices
<1>11. ASSUME NEW s \in Source, Skip(s) PROVE WakeInv'
  <2>1. /\ top.pc = "perform" /\ top.callout = Nobody /\ ~(s \in signaled /\ s \in valid)
        /\ top' = [top EXCEPT !.todo = @ \ {s}] /\ signaled' = signaled \ {s}
        /\ UNCHANGED <<queue, pending, valid, attached, pc>>
    BY <1>1, <1>11 DEF Skip, At
  <2>2. /\ top'.callout = Nobody /\ top'.pc = "perform" /\ top'.handled = top.handled
        /\ top'.drain = top.drain /\ top'.kept = top.kept /\ top'.mode = top.mode
        /\ top'.stopped = top.stopped /\ top'.deadline = top.deadline /\ top'.todo = top.todo \ {s}
    BY <1>1, <2>1 DEF Frame
  <2>3. FrameOK(top)' /\ (Calm(top) => Calm(top)')
    BY <1>1, <2>1, <2>2 DEF FrameOK, Calm, Eligible
  <2>4. top.todo \cap signaled' \subseteq top'.todo
    BY <2>1, <2>2
  <2>5. signaled' \subseteq signaled
    BY <2>1
  <2> QED BY <1>11, <2>1, <2>2, <2>3, <2>4, <2>5, KeepsOn
<1>12. CASE PollDispatch
  <2>1. top.pc = "dispatch" /\ top.callout = Nobody /\ UNCHANGED <<queue, signaled, attached, pc>>
    BY <1>12 DEF PollDispatch, At
  <2>2. ~top.drain
    BY <1>1, <2>1 DEF FrameOK, Frame
  <2>3. CASE top' = [top EXCEPT !.live = DispatchPort, !.pc = "handle"]
    <3>1. /\ top'.callout = Nobody /\ top'.pc = "handle" /\ top'.drain = top.drain /\ top'.kept = top.kept
          /\ top'.mode = top.mode
      BY <1>1, <2>1, <2>3 DEF Frame
    <3>2. FrameOK(top)' /\ Calm(top)'
      BY <1>1, <2>2, <3>1 DEF FrameOK, Calm, Eligible
    <3> QED BY <3>2, TopSuffices
  <2>4. CASE /\ top' = [top EXCEPT !.pc = "beforeWaiting", !.poll = top.handled \/ top.deadline = "passed"]
             /\ UNCHANGED pending
    <3>1. /\ top'.callout = Nobody /\ top'.pc = "beforeWaiting" /\ top'.drain = top.drain
          /\ top'.kept = top.kept /\ top'.mode = top.mode /\ top'.stopped = top.stopped
          /\ top'.deadline = top.deadline /\ top'.poll = (top.handled \/ top.deadline = "passed")
      BY <1>1, <2>1, <2>4 DEF Frame
    <3>2. FrameOK(top)' /\ (Calm(top) => Calm(top)')
      BY <1>1, <2>1, <2>2, <3>1 DEF FrameOK, Calm, Eligible
    <3> QED BY <1>12, <2>1, <2>4, <3>1, <3>2, KeepsOn
  <2> QED BY <1>1, <1>12, <2>3, <2>4 DEF PollDispatch
\* A message that is received ends the sleep, the wake-up included.
<1>13. CASE Wait
  <2>1. top.pc = "waiting" /\ top.callout = Nobody
        /\ \E p : top' = [top EXCEPT !.live = p, !.pc = "afterWaiting"]
    BY <1>1, <1>13 DEF Wait, At
  <2>2. ~top.drain
    BY <1>1, <2>1 DEF FrameOK, Frame
  <2>3. /\ top'.callout = Nobody /\ top'.pc = "afterWaiting" /\ top'.drain = top.drain
        /\ top'.kept = top.kept /\ top'.mode = top.mode
    BY <1>1, <2>1 DEF Frame
  <2>4. FrameOK(top)' /\ Calm(top)'
    BY <1>1, <2>2, <2>3 DEF FrameOK, Calm, Eligible
  <2> QED BY <2>4, TopSuffices
<1>14. CASE Handle
  <2>1. top.pc = "handle" /\ top.callout = Nobody
        /\ \E x : top' = [top EXCEPT !.live = Nobody, !.pc = "blocks3", !.callout = x]
    BY <1>1, <1>14 DEF Handle, At
  <2>2. top.live \in Port \cup {Nobody} /\ ~top.drain
    BY <1>1, <2>1 DEF FrameOK, Frame
  <2>3. /\ top' = [top EXCEPT !.live = Nobody, !.pc = "blocks3",
                     !.callout = IF top.live = WakeUpPort THEN Nobody ELSE top.live]
    BY <1>1, <1>14 DEF Handle
  <2>4. /\ top'.callout = (IF top.live = WakeUpPort THEN Nobody ELSE top.live)
        /\ top'.pc = "blocks3" /\ top'.drain = top.drain
        /\ top'.kept = top.kept /\ top'.mode = top.mode
    BY <1>1, <2>3 DEF Frame
  <2>5. FrameOK(top)' /\ Calm(top)'
    BY <1>1, <2>2, <2>4 DEF FrameOK, Calm, Eligible
  <2> QED BY <2>5, TopSuffices
\* A run that goes on has looked at its stop request and at its deadline.
<1>15. ASSUME NEW late \in BOOLEAN, Decide(late) PROVE WakeInv'
  <2>1. /\ top.pc = "decide" /\ top.callout = Nobody
        /\ late \in {top.deadline = "passed", top.deadline # "never"}
        /\ UNCHANGED <<queue, pending, signaled, attached, pc>>
    BY <1>15 DEF Decide, At
  <2>2. ~top.drain
    BY <1>1, <2>1 DEF FrameOK, Frame
  <2>3. ASSUME NEW r, Finish(r) PROVE WakeInv'
    <3>1. top' = [top EXCEPT !.result = r, !.pc = "exit", !.stopped = @ /\ r # "Stopped"]
      BY <1>1, <2>3 DEF Finish
    <3>2. /\ top'.callout = Nobody /\ top'.pc = "exit" /\ top'.drain = top.drain /\ top'.kept = top.kept
          /\ top'.mode = top.mode
      BY <1>1, <2>1, <3>1 DEF Frame
    <3>3. FrameOK(top)' /\ Calm(top)'
      BY <1>1, <2>2, <3>2 DEF FrameOK, Calm, Eligible
    <3> QED BY <3>3, TopSuffices
  <2>4. ASSUME SetTop(Again), ~late, ~top.stopped PROVE WakeInv'
    <3>1. top' = [top EXCEPT !.pc = "before", !.poll = FALSE, !.handled = FALSE]
      BY <1>1, <2>4 DEF Again
    <3>2. /\ top'.callout = Nobody /\ top'.pc = "before" /\ top'.drain = top.drain /\ top'.kept = top.kept
          /\ top'.mode = top.mode /\ top'.stopped = top.stopped /\ top'.deadline = top.deadline
      BY <1>1, <2>1, <3>1 DEF Frame
    <3>3. FrameOK(top)'
      BY <1>1, <2>2, <3>2 DEF FrameOK, Eligible
    <3>4. top.deadline # "passed"
      BY <2>1, <2>4
    <3>5. Ahead'
      BY <2>4, <3>2, <3>4 DEF Ahead
    <3> QED BY <3>3, <3>5, TopSuffices
  <2> QED BY <1>15, <2>3, <2>4 DEF Decide
<1> QED
  BY <1>3, <1>4, <1>5, <1>6, <1>7, <1>8, <1>9, <1>10, <1>11, <1>12, <1>13, <1>14, <1>15 DEF LoopStep
-----------------------------------------------------------------------------
(* The other steps.                                                        *)

\* A run that ends: the one below is in a callout that it was calm before.
LEMMA LeaveWakes == ASSUME Typed, WakeInv, Leave PROVE WakeInv'
<1>1. frames \in Seq(Frame) /\ frames # <<>> /\ frames' = SubSeq(frames, 1, Len(frames) - 1)
  BY DEF Typed, FramesOK, Leave, At, Running
<1>2. /\ Len(frames) \in Nat \ {0} /\ Len(frames') = Len(frames) - 1
      /\ \A n \in 1 .. Len(frames) - 1 : frames'[n] = frames[n]
  BY <1>1, ButLast
<1>3. \A n \in 1 .. Len(frames') : FrameOK(frames[n])' /\ Calm(frames[n])'
  BY <1>2 DEF WakeInv, FrameOK, Calm, Eligible
<1>4. Running' => Len(frames') \in 1 .. Len(frames')
  BY <1>1, <1>2 DEF Running
<1> QED BY <1>2, <1>3, <1>4 DEF WakeInv, top

\* A run that begins: the one it interrupts is in the callout of a source or of a message.
LEMMA EnterWakes ==
    ASSUME NestsLate, Typed, WakeInv, NEW m, NEW st, NEW d \in {"never", "ahead"}, Enter(m, st, d)
    PROVE  WakeInv'
<1> DEFINE new == NewFrame(m, st, d)
<1>1. frames \in Seq(Frame) /\ frames' = Append(frames, new)
  BY DEF Typed, FramesOK, Enter
<1>2. /\ new.callout = Nobody /\ new.pc = "entry" /\ new.drain = FALSE /\ new.kept = <<>>
      /\ new.stopped = FALSE /\ new.deadline = d
  BY DEF NewFrame
<1> HIDE DEF new
<1>3. /\ Len(frames) \in Nat /\ Len(frames') = Len(frames) + 1 /\ frames'[Len(frames')] = new
      /\ \A n \in 1 .. Len(frames) : frames'[n] = frames[n]
  BY <1>1
<1>4. FrameOK(new)
  BY <1>2, PortsApart DEF FrameOK
<1>5. \A n \in 1 .. Len(frames') : FrameOK(frames'[n])
  BY <1>3, <1>4 DEF WakeInv
<1>6. \A n \in 1 .. Len(frames) : Calm(frames[n])
  <2>1. CASE ~Running
    BY <1>1, <2>1 DEF Running
  <2>2. CASE Running
    <3>1. <<Kind(top.callout), top.mode, m>> \in Nests
      BY <2>2 DEF Enter
    <3>2. Kind(top.callout) \in {"source0", "message"}
      BY <3>1 DEF NestsLate
    <3>3. top.callout \in Source \/ top.callout \in Port
      BY <3>2 DEF Kind
    <3>4. FrameOK(top) /\ top = frames[Len(frames)]
      BY <1>3, <2>2, TopIsFrame DEF WakeInv, Typed, top
    <3>5. Calm(top)
      BY <3>3, <3>4 DEF FrameOK, Calm
    <3> QED BY <1>3, <3>4, <3>5 DEF WakeInv
  <2> QED BY <2>1, <2>2
<1>7. \A n \in 1 .. Len(frames') - 1 : Calm(frames'[n])
  BY <1>3, <1>6
<1>8. Ahead'
  BY <1>2, <1>3 DEF Ahead, top
<1>9. \A n \in 1 .. Len(frames') : FrameOK(frames[n])'
  BY <1>5 DEF FrameOK, Eligible
<1>10. \A n \in 1 .. Len(frames') - 1 : Calm(frames[n])'
  BY <1>7 DEF Calm
<1> QED BY <1>8, <1>9, <1>10 DEF WakeInv

\* Whatever a call from outside changes, the run it is for has nothing more to do unless a
\* wake-up is on its way.
LEMMA OutsideWakes ==
    ASSUME WakeInv, frames' = frames, Owed' \/ ~Running \/ (UNCHANGED queue /\ attached' \subseteq attached
                                                   /\ signaled' \subseteq signaled /\ (Owed => Owed'))
    PROVE  WakeInv'
<1>1. top' = top /\ (Running' <=> Running)
  BY DEF top, Running
<1>2. \A n \in 1 .. Len(frames') : FrameOK(frames[n])'
  BY DEF WakeInv, FrameOK, Eligible
<1>3. \A n \in 1 .. Len(frames') - 1 : Calm(frames[n])'
  BY DEF WakeInv, Calm
<1>4. ASSUME Running, ~Owed' PROVE (Calm(top) \/ Ahead)'
  <2>1. UNCHANGED queue /\ attached' \subseteq attached /\ signaled' \subseteq signaled /\ ~Owed
    BY <1>4
  <2>2. ToPerform' \subseteq ToPerform /\ ToRun' = ToRun
    BY <1>1, <2>1, SameWork
  <2>3. Calm(top) => Calm(top)'
    BY <1>1 DEF Calm
  <2>4. Ahead => Ahead'
    BY <1>1, <2>2 DEF Ahead
  <2> QED BY <1>4, <2>1, <2>3, <2>4 DEF WakeInv
<1> QED BY <1>1, <1>2, <1>3, <1>4 DEF WakeInv

\* A call that changes a field of a run's frame owes a wake-up.
LEMMA FieldWakes ==
    ASSUME Typed, WakeInv, Owed', NEW n \in 1 .. Len(frames), NEW g, frames' = [frames EXCEPT ![n] = g],
           g.callout = frames[n].callout, g.pc = frames[n].pc, g.handled = frames[n].handled,
           g.poll = frames[n].poll, g.drain = frames[n].drain, g.kept = frames[n].kept,
           g.mode = frames[n].mode, Len(frames') = Len(frames)
    PROVE  WakeInv'
<1>1. frames \in Seq(Frame)
  BY DEF Typed, FramesOK
<1>2. \A k \in 1 .. Len(frames) :
         /\ frames'[k].callout = frames[k].callout /\ frames'[k].pc = frames[k].pc
         /\ frames'[k].handled = frames[k].handled /\ frames'[k].poll = frames[k].poll
         /\ frames'[k].drain = frames[k].drain /\ frames'[k].kept = frames[k].kept
         /\ frames'[k].mode = frames[k].mode
  BY <1>1
<1>3. \A k \in 1 .. Len(frames') : FrameOK(frames[k])'
  BY <1>2 DEF WakeInv, FrameOK, Eligible
<1>4. \A k \in 1 .. Len(frames') - 1 : Calm(frames[k])'
  BY <1>1, <1>2 DEF WakeInv, Calm
<1> QED BY <1>3, <1>4 DEF WakeInv

\* Whoever gives the run something to do owes it a wake-up.
LEMMA ClientWakes ==
    ASSUME Typed, Typed', pc \in [Client -> {"idle", "wake"} \cup Source], WakeInv, NEW c \in Client, ClientStep(c)
    PROVE  WakeInv'
<1> USE DEF shared
<1>1. Call(c) => Owed'
  BY DEF Call, Owed
<1>2. CASE WakeUp(c)
  <2>1. frames' = frames /\ UNCHANGED <<queue, attached, signaled>> /\ (Running => WakeUpPort \in pending')
    BY <1>2 DEF WakeUp
  <2> QED BY <2>1, OutsideWakes DEF Owed
<1>3. CASE RemoveFromModes(c)
  <2>1. /\ pc[c] \in Source /\ pc' = [pc EXCEPT ![c] = "idle"] /\ attached' \subseteq attached
        /\ UNCHANGED <<frames, queue, pending, signaled>>
    BY <1>3 DEF RemoveFromModes
  <2>2. Owed => Owed'
    <3>1. \A e \in Client : pc[e] = "wake" => e # c /\ pc'[e] = "wake"
      BY <2>1, PortsApart
    <3> QED BY <2>1, <3>1 DEF Owed
  <2> QED BY <2>1, <2>2, OutsideWakes
<1>4. CASE Stop(c)
  <2>1. Running /\ Owed' /\ frames' = [frames EXCEPT ![Len(frames)] = [top EXCEPT !.stopped = TRUE]]
    BY <1>1, <1>4 DEF Stop, SetTop
  <2>2. top \in Frame /\ Len(frames) \in 1 .. Len(frames) /\ top = frames[Len(frames)]
    BY <2>1, TopIsFrame DEF Typed, top
  <2> DEFINE g == [top EXCEPT !.stopped = TRUE]
  <2>3. /\ g.callout = top.callout /\ g.pc = top.pc /\ g.handled = top.handled /\ g.poll = top.poll
        /\ g.drain = top.drain /\ g.kept = top.kept /\ g.mode = top.mode
    BY <2>2 DEF Frame
  <2>4. Len(frames') = Len(frames)
    BY <2>1, <2>2 DEF Typed, FramesOK
  <2> HIDE DEF g
  <2>5. frames' = [frames EXCEPT ![Len(frames)] = g]
    BY <2>1 DEF g
  <2> QED BY <2>1, <2>2, <2>3, <2>4, <2>5, FieldWakes
<1>5. ASSUME NEW s \in Source, Signal(c, s) PROVE WakeInv'
  BY <1>1, <1>5, OutsideWakes DEF Signal
<1>6. ASSUME NEW s \in Source, Invalidate(c, s) PROVE WakeInv'
  <2>1. /\ pc[c] = "idle" /\ pc' = [pc EXCEPT ![c] = s] /\ signaled' \subseteq signaled
        /\ UNCHANGED <<frames, queue, pending, attached>>
    BY <1>6 DEF Invalidate
  <2>2. Owed => Owed'
    <3>1. \A e \in Client : pc[e] = "wake" => e # c /\ pc'[e] = "wake"
      BY <2>1
    <3> QED BY <2>1, <3>1 DEF Owed
  <2> QED BY <2>1, <2>2, OutsideWakes
<1>7. ASSUME NEW b \in Block, PerformBlock(c, b) PROVE WakeInv'
  BY <1>1, <1>7, OutsideWakes DEF PerformBlock
<1>8. ASSUME NEW m \in Mode, StopMode(c, m) PROVE WakeInv'
  BY <1>1, <1>8, OutsideWakes DEF StopMode
<1>9. ASSUME NEW n \in 1 .. Depth, Timeout(c, n) PROVE WakeInv'
  <2>1. /\ n \in 1 .. Len(frames) /\ Owed'
        /\ frames' = [frames EXCEPT ![n] = [frames[n] EXCEPT !.deadline = "passed"]]
    BY <1>1, <1>9 DEF Timeout
  <2>2. frames[n] \in Frame
    BY <2>1 DEF Typed, FramesOK
  <2> DEFINE g == [frames[n] EXCEPT !.deadline = "passed"]
  <2>3. /\ g.callout = frames[n].callout /\ g.pc = frames[n].pc /\ g.handled = frames[n].handled
        /\ g.poll = frames[n].poll /\ g.drain = frames[n].drain /\ g.kept = frames[n].kept
        /\ g.mode = frames[n].mode
    BY <2>2 DEF Frame
  <2>4. Len(frames') = Len(frames)
    BY <2>1, <2>2 DEF Typed, FramesOK
  <2> HIDE DEF g
  <2>5. frames' = [frames EXCEPT ![n] = g]
    BY <2>1 DEF g
  <2> QED BY <2>1, <2>3, <2>4, <2>5, FieldWakes
<1> QED BY <1>2, <1>3, <1>4, <1>5, <1>6, <1>7, <1>8, <1>9 DEF ClientStep, Finishing

-----------------------------------------------------------------------------
(* The theorems.                                                           *)

\* The rest of the type invariant: callers, histories and the bound on nested runs.
Callers ==
    /\ Len(frames) <= Depth
    /\ posted \in Seq(Block) /\ ran \in Seq(Block)
    /\ due \subseteq Source /\ valid \subseteq Source /\ modeStopped \subseteq Mode
    /\ pc \in [Client -> {"idle", "wake"} \cup Source]

\* The variables of the callers keep their types.
LEMMA NextCallers == ASSUME Typed, Callers, [Next]_vars PROVE Callers'
<1> USE DEF Callers, shared
<1>1. ASSUME NEW run \in Runs, NEW d \in Deadline, Enter(run[1], run[2], d) PROVE Callers'
  <2>1. frames \in Seq(Frame) /\ frames' = Append(frames, NewFrame(run[1], run[2], d))
        /\ (frames = <<>> \/ Len(frames) < Depth)
    BY <1>1 DEF Typed, FramesOK, Enter, Running
  <2>2. Len(frames') <= Depth
    BY <2>1, RunLoopAssumption
  <2> QED BY <1>1, <2>2 DEF Enter
<1>2. CASE Leave
  <2>1. frames \in Seq(Frame) /\ frames # <<>> /\ frames' = SubSeq(frames, 1, Len(frames) - 1)
    BY <1>2 DEF Typed, FramesOK, Leave, At, Running
  <2>2. Len(frames) \in Nat \ {0} /\ Len(frames') = Len(frames) - 1
    BY <2>1, ButLast
  <2>3. Len(frames') <= Depth
    BY <1>2, <2>2, RunLoopAssumption
  <2> QED BY <1>2, <2>3 DEF Leave
<1>3. ASSUME LoopStep, ~Leave PROVE Callers'
  <2>1. Len(frames') = Len(frames) /\ top \in Frame
    BY <1>3, TopStep
  <2>2. ASSUME NEW where \in DOMAIN BlockStep, CallBlock(where) PROVE Callers'
    <3>1. PICK n \in Runnable(top) : ran' = Append(ran, top.list[n])
      BY <2>2 DEF CallBlock
    <3>2. top.list[n] \in Block
      BY <2>1, <3>1 DEF Runnable, Frame
    <3> QED BY <2>1, <2>2, <3>1, <3>2 DEF CallBlock
  <2>3. ASSUME NEW where, Observe(where) \/ Detach(where) \/ Reattach(where) PROVE Callers'
    BY <2>1, <2>3 DEF Observe, Detach, Reattach
  <2>4. CASE EndCallout \/ Collect \/ SourcesDone \/ PollDispatch \/ Wait \/ Handle
    BY <2>1, <2>4 DEF EndCallout, Collect, SourcesDone, PollDispatch, Wait, Handle
  <2>5. ASSUME NEW s \in Source, Perform(s) \/ Skip(s) PROVE Callers'
    BY <2>1, <2>5 DEF Perform, Skip
  <2>6. ASSUME NEW late \in BOOLEAN, Decide(late) PROVE Callers'
    BY <2>1, <2>6 DEF Decide
  <2> QED BY <1>3, <2>2, <2>3, <2>4, <2>5, <2>6 DEF LoopStep
<1>4. ASSUME NEW c \in Client, ClientStep(c) PROVE Callers'
  <2>1. CASE Finishing(c)
    BY <2>1 DEF Finishing, WakeUp, RemoveFromModes
  <2>2. CASE Stop(c)
    <3>1. Len(frames') = Len(frames)
      <4>1. Running /\ top \in Frame
        BY <2>2, TopIsFrame DEF Stop, Typed
      <4>2. [top EXCEPT !.stopped = TRUE] \in Frame
        BY <4>1 DEF Frame
      <4> QED BY <2>2, <4>1, <4>2, SetTopOK DEF Stop, Typed
    <3> QED BY <2>2, <3>1 DEF Stop, Call
  <2>3. ASSUME NEW s \in Source, Signal(c, s) \/ Invalidate(c, s) PROVE Callers'
    BY <2>3 DEF Signal, Invalidate, Call
  <2>4. ASSUME NEW b \in Block, PerformBlock(c, b) PROVE Callers'
    BY <2>4 DEF PerformBlock, Call
  <2>5. ASSUME NEW m \in Mode, StopMode(c, m) PROVE Callers'
    BY <2>5 DEF StopMode, Call
  <2>6. ASSUME NEW n \in 1 .. Depth, Timeout(c, n) PROVE Callers'
    <3>1. frames \in Seq(Frame) /\ frames' = [frames EXCEPT ![n] = [frames[n] EXCEPT !.deadline = "passed"]]
          /\ n \in 1 .. Len(frames) /\ frames[n] \in Frame
      BY <2>6 DEF Timeout, Typed, FramesOK
    <3>2. [frames[n] EXCEPT !.deadline = "passed"] \in Frame
      BY <3>1 DEF Frame
    <3>3. Len(frames') = Len(frames)
      BY <3>1, <3>2
    <3> QED BY <2>6, <3>3 DEF Timeout, Call
  <2> QED BY <1>4, <2>1, <2>2, <2>3, <2>4, <2>5, <2>6 DEF ClientStep
<1>5. ASSUME NEW p \in Port, Send(p) PROVE Callers'
  BY <1>5 DEF Send
<1>6. CASE UNCHANGED vars
  BY <1>6 DEF vars
<1> QED BY <1>1, <1>2, <1>3, <1>4, <1>5, <1>6 DEF Next
\* Everything that is needed at each step.
LoopInv == Typed /\ SignalInv /\ Callers

\* What all proofs about a run rest on.
LEMMA LoopInvariance == Spec => []LoopInv
<1>1. Init => LoopInv
  <2>1. Init => Callers
    BY RunLoopAssumption DEF Init, Callers
  <2> QED BY <2>1, InitTyped, InitSignals DEF LoopInv
<1>2. LoopInv /\ [Next]_vars => LoopInv'
  BY NextTyped, NextSignals, NextCallers DEF LoopInv
<1> QED BY <1>1, <1>2, PTL DEF Spec

\* The stack of runs, the queue, the sets of sources and ports and the callers keep their
\* types, and no more runs nest than the bound allows.
THEOREM TypeCorrect == Spec => []TypeOK
<1>1. LoopInv => TypeOK
  BY DEF LoopInv, Typed, FramesOK, SignalInv, Callers, TypeOK
<1> QED BY LoopInvariance, <1>1, PTL

\* Every step keeps the wake-up invariant.
LEMMA NextWakes ==
    ASSUME NestsLate, LoopInv, LoopInv', WakeInv, [Next]_vars
    PROVE  WakeInv'
<1> USE DEF LoopInv
<1>1. ASSUME NEW run \in Runs, NEW d \in Deadline, Enter(run[1], run[2], d) PROVE WakeInv'
  <2>1. d \in {"never", "ahead"}
    BY RunLoopAssumption
  <2> QED BY <1>1, <2>1, EnterWakes
<1>2. CASE LoopStep
  BY <1>2, LoopWakes, LeaveWakes
<1>3. ASSUME NEW c \in Client, ClientStep(c) PROVE WakeInv'
  BY <1>3, ClientWakes DEF Callers
<1>4. ASSUME NEW p \in Port, Send(p) PROVE WakeInv'
  <2>1. UNCHANGED <<frames, queue, signaled, attached, pc>> /\ pending \subseteq pending'
    BY <1>4 DEF Send
  <2>2. Owed => Owed'
    BY <2>1 DEF Owed
  <2> QED BY <2>1, <2>2, OutsideWakes
<1>5. CASE UNCHANGED vars
  <2>1. UNCHANGED <<frames, queue, signaled, attached, pc, pending>>
    BY <1>5 DEF vars
  <2>2. Owed => Owed'
    BY <2>1 DEF Owed
  <2> QED BY <2>1, <2>2, OutsideWakes
<1> QED BY <1>1, <1>2, <1>3, <1>4, <1>5 DEF Next

\* CFRunLoopWakeUp, __CFRunLoopRun: with runs that nest in the callouts of sources and
\* messages only, the thread never sleeps on a signaled source, on a block it may run, on a
\* stop request or past its deadline, unless the caller has yet to wake it up.
THEOREM WakeUpsKept == ASSUME NestsLate PROVE Spec => []NoLostWakeUp
<1>1. Init => WakeInv
  BY DEF Init, WakeInv, Running
<1>2. LoopInv /\ LoopInv' /\ WakeInv /\ [Next]_vars => WakeInv'
  BY NextWakes
<1>3. ASSUME LoopInv, WakeInv PROVE NoLostWakeUp
  <2> SUFFICES ASSUME Asleep, Work, ~(\E c \in Client : pc[c] = "wake") PROVE FALSE
    BY DEF NoLostWakeUp
  <2>1. Running /\ top.pc = "waiting" /\ ~top.poll /\ Receivable = {} /\ top \in Frame
    BY <1>3, TopIsFrame DEF Asleep, At, LoopInv, Typed
  <2>2. WakeUpPort \notin pending
    <3>1. top.mode \in In[WakeUpPort] /\ WakeUpPort # DispatchPort
      BY <2>1, PortsApart DEF Frame
    <3> QED BY <2>1, <3>1 DEF Receivable
  <2>3. ~Calm(top) /\ ~Owed
    BY <2>1, <2>2 DEF Calm, Owed
  <2>4. Ahead
    BY <1>3, <2>1, <2>3 DEF WakeInv
  <2>5. ToPerform = {} /\ ToRun = {} /\ ~top.stopped /\ top.deadline # "passed"
    BY <2>1, <2>4 DEF Ahead
  <2> QED BY <2>5 DEF Work, ToPerform, ToRun
<1> QED BY LoopInvariance, <1>1, <1>2, <1>3, PTL DEF Spec

-----------------------------------------------------------------------------
(* Blocks run in the order they were queued.                               *)

\* The blocks that wait, in the order in which they will be looked at: those the current
\* run has detached, then the queue.
Kept == IF Running THEN top.kept ELSE <<>>
List == IF Running THEN top.list ELSE <<>>
Line == Kept \o List \o queue

\* A run holds blocks while it drains its list only, and a message is called out after that.
FrameHolds(f) == /\ ~f.drain => f.kept = <<>> /\ f.list = <<>>
                 /\ f.callout \in Port => ~f.drain

\* The runs below the current one hold none.
HoldInv == /\ \A n \in 1 .. Len(frames) : FrameHolds(frames[n])
           /\ \A n \in 1 .. Len(frames) - 1 : ~frames[n].drain

\* A block was queued once, before another.
Older(a, b) == \E i, j \in 1 .. Len(posted) : i < j /\ posted[i] = a /\ posted[j] = b
PostedOnce == \A i, j \in 1 .. Len(posted) : posted[i] = posted[j] => i = j

\* Every block that was queued has run or waits, and those that wait stand in order.
LineInv == /\ PostedOnce
           /\ \A k \in 1 .. Len(Line) : Queued(Line[k])
           /\ \A k \in 1 .. Len(ran) : Queued(ran[k])
           /\ \A k, l \in 1 .. Len(Line) : k < l => Older(Line[k], Line[l])
           /\ \A i \in 1 .. Len(posted) :
                Ran(posted[i]) \/ \E k \in 1 .. Len(Line) : Line[k] = posted[i]
           /\ FirstCome

-----------------------------------------------------------------------------
(* Lists of blocks.                                                        *)

\* Three lists in a row.
IsRow(r, a, l, q) ==
    /\ r \in Seq(Block) /\ Len(r) = Len(a) + Len(l) + Len(q)
    /\ \A k \in 1 .. Len(a) : r[k] = a[k]
    /\ \A k \in Len(a) + 1 .. Len(a) + Len(l) : r[k] = l[k - Len(a)]
    /\ \A k \in Len(a) + Len(l) + 1 .. Len(a) + Len(l) + Len(q) : r[k] = q[k - (Len(a) + Len(l))]

\* Concatenation of three lists.
LEMMA Row ==
    ASSUME NEW a \in Seq(Block), NEW l \in Seq(Block), NEW q \in Seq(Block)
    PROVE  IsRow(a \o l \o q, a, l, q)
<1> DEFINE b == a \o l
<1>1. /\ b \in Seq(Block) /\ Len(a) \in Nat /\ Len(l) \in Nat /\ Len(q) \in Nat
      /\ Len(b) = Len(a) + Len(l)
      /\ \A k \in 1 .. Len(a) + Len(l) : b[k] = IF k <= Len(a) THEN a[k] ELSE l[k - Len(a)]
  BY ConcatProperties
<1> HIDE DEF b
<1>2. /\ b \o q \in Seq(Block) /\ Len(b \o q) = Len(b) + Len(q)
      /\ \A k \in 1 .. Len(b) + Len(q) : (b \o q)[k] = IF k <= Len(b) THEN b[k] ELSE q[k - Len(b)]
  <2>1. b \in Seq(Block) /\ q \in Seq(Block)
    BY <1>1
  <2> QED BY <2>1, ConcatProperties, Zenon
<1> DEFINE r == b \o q
<1>3. r \in Seq(Block) /\ Len(r) = Len(a) + Len(l) + Len(q)
  BY <1>1, <1>2
<1>4. \A k \in 1 .. Len(a) + Len(l) + Len(q) :
        r[k] = IF k <= Len(a) + Len(l) THEN b[k] ELSE q[k - (Len(a) + Len(l))]
  BY <1>1, <1>2
<1> HIDE DEF r
<1>5. \A k \in 1 .. Len(a) : r[k] = a[k]
  <2> TAKE k \in 1 .. Len(a)
  <2>1. k \in 1 .. Len(a) + Len(l) + Len(q) /\ k <= Len(a) + Len(l) /\ k \in 1 .. Len(a) + Len(l) /\ k <= Len(a)
    BY <1>1
  <2> QED BY <1>1, <1>4, <2>1
<1>6. \A k \in Len(a) + 1 .. Len(a) + Len(l) : r[k] = l[k - Len(a)]
  <2> TAKE k \in Len(a) + 1 .. Len(a) + Len(l)
  <2>1. k \in 1 .. Len(a) + Len(l) + Len(q) /\ k <= Len(a) + Len(l) /\ k \in 1 .. Len(a) + Len(l) /\ ~(k <= Len(a))
    BY <1>1
  <2> QED BY <1>1, <1>4, <2>1
<1>7. \A k \in Len(a) + Len(l) + 1 .. Len(a) + Len(l) + Len(q) : r[k] = q[k - (Len(a) + Len(l))]
  <2> TAKE k \in Len(a) + Len(l) + 1 .. Len(a) + Len(l) + Len(q)
  <2>1. k \in 1 .. Len(a) + Len(l) + Len(q) /\ ~(k <= Len(a) + Len(l))
    BY <1>1
  <2> QED BY <1>4, <2>1
<1>8. IsRow(r, a, l, q)
  BY <1>3, <1>5, <1>6, <1>7 DEF IsRow
<1> QED BY <1>8 DEF r, b
\* One block is taken out of the second list: rest is line without it, and every block before
\* it in line comes from the first list or from before it in the second.
IsWithout(rest, line, a, l, n) ==
    /\ Len(line) \in Nat /\ Len(rest) = Len(line) - 1
    /\ Len(a) + n \in 1 .. Len(line) /\ line[Len(a) + n] = l[n]
    /\ \A k \in 1 .. Len(rest) : rest[k] = IF k < Len(a) + n THEN line[k] ELSE line[k + 1]
    /\ \A k \in 1 .. Len(a) + n - 1 : \/ k \in 1 .. Len(a) /\ line[k] = a[k]
                                      \/ k - Len(a) \in 1 .. n - 1 /\ line[k] = l[k - Len(a)]

\* A block in the middle of a list is taken out, as __CFRunLoopDoBlocks does.
LEMMA TakenOut ==
    ASSUME NEW a \in Seq(Block), NEW l \in Seq(Block), NEW q \in Seq(Block), NEW n \in 1 .. Len(l)
    PROVE  IsWithout((a \o SubSeq(l, 1, n - 1)) \o SubSeq(l, n + 1, Len(l)) \o q, a \o l \o q, a, l, n)
<1> DEFINE l1 == SubSeq(l, 1, n - 1)
           l2 == SubSeq(l, n + 1, Len(l))
           a1 == a \o l1
           rest == a1 \o l2 \o q
           line == a \o l \o q
<1>1. Len(l) \in Nat /\ n \in Int /\ 1 <= n /\ n <= Len(l) /\ \A k \in 1 .. Len(l) : l[k] \in Block
  OBVIOUS
<1>2. /\ l1 \in Seq(Block) /\ Len(l1) = (IF 1 <= n - 1 THEN n - 1 - 1 + 1 ELSE 0)
      /\ \A k \in 1 .. n - 1 - 1 + 1 : l1[k] = l[1 + k - 1]
  <2>1. n - 1 \in Int /\ \A k \in 1 .. n - 1 : l[k] \in Block
    BY <1>1
  <2> QED BY <2>1, SubSeqProperties
<1>3. /\ l2 \in Seq(Block) /\ Len(l2) = (IF n + 1 <= Len(l) THEN Len(l) - (n + 1) + 1 ELSE 0)
      /\ \A k \in 1 .. Len(l) - (n + 1) + 1 : l2[k] = l[n + 1 + k - 1]
  <2>1. n + 1 \in Int /\ Len(l) \in Int /\ \A k \in n + 1 .. Len(l) : l[k] \in Block
    BY <1>1
  <2> QED BY <2>1, SubSeqProperties
<1> HIDE DEF l1, l2
<1>4. /\ a1 \in Seq(Block) /\ Len(a1) = Len(a) + Len(l1)
      /\ \A k \in 1 .. Len(a) + Len(l1) : a1[k] = IF k <= Len(a) THEN a[k] ELSE l1[k - Len(a)]
  BY <1>2, ConcatProperties
<1> HIDE DEF a1
<1>5. IsRow(rest, a1, l2, q)
  <2>1. a1 \in Seq(Block) /\ l2 \in Seq(Block) /\ q \in Seq(Block)
    BY <1>3, <1>4
  <2> QED BY <2>1, Row
<1>6. IsRow(line, a, l, q)
  BY Row
<1> HIDE DEF rest, line
<1>7. Len(l1) = n - 1 /\ Len(l2) = Len(l) - n /\ Len(a) \in Nat /\ Len(q) \in Nat /\ Len(a1) = Len(a) + n - 1
  BY <1>1, <1>2, <1>3, <1>4
<1>8. Len(line) \in Nat /\ Len(rest) = Len(line) - 1 /\ Len(a) + n \in 1 .. Len(line)
  <2>1. Len(rest) = Len(a1) + Len(l2) + Len(q) /\ Len(line) = Len(a) + Len(l) + Len(q)
    BY <1>5, <1>6 DEF IsRow
  <2> QED BY <1>1, <1>7, <2>1
<1>9. line[Len(a) + n] = l[n]
  <2>1. Len(a) + n \in Len(a) + 1 .. Len(a) + Len(l) /\ Len(a) + n - Len(a) = n
    BY <1>1, <1>7
  <2>2. line[Len(a) + n] = l[Len(a) + n - Len(a)]
    <3>1. \A k \in Len(a) + 1 .. Len(a) + Len(l) : line[k] = l[k - Len(a)]
      BY <1>6 DEF IsRow
    <3> QED BY <2>1, <3>1
  <2> QED BY <2>1, <2>2
<1>10. ASSUME NEW k \in 1 .. Len(a) + n - 1
       PROVE  \/ k \in 1 .. Len(a) /\ line[k] = a[k]
              \/ k - Len(a) \in 1 .. n - 1 /\ line[k] = l[k - Len(a)]
  <2>1. k \in 1 .. Len(a) \/ (k \in Len(a) + 1 .. Len(a) + Len(l) /\ k - Len(a) \in 1 .. n - 1)
    BY <1>1, <1>7
  <2> QED BY <1>6, <2>1 DEF IsRow
<1>11. ASSUME NEW k \in 1 .. Len(rest)
       PROVE  rest[k] = IF k < Len(a) + n THEN line[k] ELSE line[k + 1]
  <2>1. k \in 1 .. Len(line) - 1
    BY <1>8
  <2>2. CASE k <= Len(a)
    <3>1. k \in 1 .. Len(a1) /\ k \in 1 .. Len(a) + Len(l1) /\ k \in 1 .. Len(a) /\ k < Len(a) + n
      BY <1>1, <1>7, <2>1, <2>2
    <3>2. rest[k] = a1[k] /\ a1[k] = a[k] /\ line[k] = a[k]
      BY <1>4, <1>5, <1>6, <2>2, <3>1 DEF IsRow
    <3> QED BY <3>1, <3>2
  <2>3. CASE ~(k <= Len(a)) /\ k < Len(a) + n
    <3>1. k \in 1 .. Len(a1) /\ k \in 1 .. Len(a) + Len(l1) /\ k \in Len(a) + 1 .. Len(a) + Len(l)
          /\ k - Len(a) \in 1 .. n - 1 - 1 + 1 /\ 1 + (k - Len(a)) - 1 = k - Len(a)
      BY <1>1, <1>7, <2>1, <2>3
    <3>2. rest[k] = a1[k] /\ a1[k] = l1[k - Len(a)] /\ line[k] = l[k - Len(a)]
      BY <1>4, <1>5, <1>6, <2>3, <3>1 DEF IsRow
    <3>3. l1[k - Len(a)] = l[1 + (k - Len(a)) - 1]
      BY <1>2, <3>1
    <3> QED BY <2>3, <3>1, <3>2, <3>3
  <2>4. CASE ~(k < Len(a) + n) /\ k < Len(a) + Len(l)
    <3>1. /\ k \in Len(a1) + 1 .. Len(a1) + Len(l2) /\ k + 1 \in Len(a) + 1 .. Len(a) + Len(l)
          /\ k - Len(a1) \in 1 .. Len(l) - (n + 1) + 1 /\ n + 1 + (k - Len(a1)) - 1 = k + 1 - Len(a)
      BY <1>1, <1>7, <2>1, <2>4
    <3>2. rest[k] = l2[k - Len(a1)]
      BY <1>5, <3>1 DEF IsRow
    <3>3. line[k + 1] = l[k + 1 - Len(a)]
      BY <1>6, <3>1 DEF IsRow
    <3>4. l2[k - Len(a1)] = l[n + 1 + (k - Len(a1)) - 1]
      BY <1>3, <3>1
    <3> QED BY <2>4, <3>1, <3>2, <3>3, <3>4, Zenon
  <2>5. CASE ~(k < Len(a) + n) /\ ~(k < Len(a) + Len(l))
    <3>1. /\ k \in Len(a1) + Len(l2) + 1 .. Len(a1) + Len(l2) + Len(q)
          /\ k + 1 \in Len(a) + Len(l) + 1 .. Len(a) + Len(l) + Len(q)
          /\ k - (Len(a1) + Len(l2)) = k + 1 - (Len(a) + Len(l))
      <4>1. Len(line) = Len(a) + Len(l) + Len(q)
        BY <1>6 DEF IsRow
      <4> QED BY <1>1, <1>7, <2>1, <2>5, <4>1
    <3>2. rest[k] = q[k - (Len(a1) + Len(l2))]
      BY <1>5, <3>1 DEF IsRow
    <3>3. line[k + 1] = q[k + 1 - (Len(a) + Len(l))]
      BY <1>6, <3>1 DEF IsRow
    <3> QED BY <2>5, <3>1, <3>2, <3>3, Zenon
  <2> QED
    <3>1. k <= Len(a) \/ (~(k <= Len(a)) /\ k < Len(a) + n)
          \/ (~(k < Len(a) + n) /\ k < Len(a) + Len(l)) \/ (~(k < Len(a) + n) /\ ~(k < Len(a) + Len(l)))
      OBVIOUS
    <3> QED BY <2>2, <2>3, <2>4, <2>5, <3>1
<1>12. IsWithout(rest, line, a, l, n)
  BY <1>8, <1>9, <1>10, <1>11 DEF IsWithout
<1> QED BY <1>12 DEF rest, line, l1, l2, a1

-----------------------------------------------------------------------------
(* What a step may do to the line.                                         *)

\* The line is left alone.
LEMMA SameLine ==
    ASSUME LineInv, Line' = Line, posted' = posted, ran' = ran
    PROVE  LineInv'
  BY DEF LineInv, PostedOnce, Older, Queued, Ran, FirstCome

\* A block runs that stands before all others of its modes.
LEMMA BlockRuns ==
    ASSUME LineInv, posted' = posted, ran \in Seq(Block), Len(Line) \in Nat, NEW p \in 1 .. Len(Line),
           ran' = Append(ran, Line[p]), Line[p] \in Block, Len(Line') = Len(Line) - 1,
           \A k \in 1 .. Len(Line') : Line'[k] = IF k < p THEN Line[k] ELSE Line[k + 1],
           \A k \in 1 .. p - 1 : In[Line[k]] # In[Line[p]]
    PROVE  LineInv'
<1>1. \A b : Ran(b)' <=> Ran(b) \/ b = Line[p]
  <2> TAKE b
  <2>1. Len(ran) \in Nat /\ Len(ran') = Len(ran) + 1 /\ ran'[Len(ran) + 1] = Line[p]
        /\ \A k \in 1 .. Len(ran) : ran'[k] = ran[k]
    OBVIOUS
  <2>2. Ran(b)' <=> \E k \in 1 .. Len(ran') : ran'[k] = b
    BY DEF Ran
  <2>3. Ran(b) <=> \E k \in 1 .. Len(ran) : ran[k] = b
    BY DEF Ran
  <2>4. ASSUME Ran(b) \/ b = Line[p] PROVE \E k \in 1 .. Len(ran') : ran'[k] = b
    BY <2>1, <2>3, <2>4
  <2>5. ASSUME NEW k \in 1 .. Len(ran'), ran'[k] = b PROVE Ran(b) \/ b = Line[p]
    <3>1. k \in 1 .. Len(ran) \/ k = Len(ran) + 1
      BY <2>1
    <3> QED BY <2>1, <2>3, <2>5, <3>1
  <2> QED BY <2>2, <2>4, <2>5
<1>2. PostedOnce'
  BY DEF LineInv, PostedOnce
<1>3. \A k, l \in 1 .. Len(Line') : k < l => Older(Line[k], Line[l])'
  <2> SUFFICES ASSUME NEW k \in 1 .. Len(Line'), NEW l \in 1 .. Len(Line'), k < l
               PROVE  Older(Line[k], Line[l])'
    OBVIOUS
  <2>1. PICK k1 \in 1 .. Len(Line), l1 \in 1 .. Len(Line) :
          k1 < l1 /\ Line'[k] = Line[k1] /\ Line'[l] = Line[l1]
    <3>1. k \in 1 .. Len(Line) /\ k + 1 \in 1 .. Len(Line) /\ l \in 1 .. Len(Line) /\ l + 1 \in 1 .. Len(Line)
      OBVIOUS
    <3>2. CASE l < p
      BY <3>1, <3>2
    <3>3. CASE k < p /\ ~(l < p)
      <4>1. Line'[k] = Line[k]
        BY <3>3
      <4>2. Line'[l] = Line[l + 1]
        BY <3>3
      <4>3. k < l + 1
        OBVIOUS
      <4> QED BY <3>1, <4>1, <4>2, <4>3
    <3>4. CASE ~(k < p)
      BY <3>1, <3>4
    <3> QED BY <3>2, <3>3, <3>4
  <2>2. Older(Line[k1], Line[l1])
    BY <2>1 DEF LineInv
  <2> QED BY <2>1, <2>2 DEF Older
<1>4. ASSUME NEW i \in 1 .. Len(posted)
      PROVE  Ran(posted[i])' \/ \E k \in 1 .. Len(Line') : Line'[k] = posted[i]
  <2>1. CASE Ran(posted[i])
    BY <1>1, <2>1
  <2>2. CASE ~Ran(posted[i])
    <3>1. PICK k \in 1 .. Len(Line) : Line[k] = posted[i]
      BY <2>2 DEF LineInv
    <3>2. CASE k < p
      BY <3>1, <3>2
    <3>3. CASE k = p
      BY <1>1, <3>1, <3>3
    <3>4. CASE p < k
      <4>1. k - 1 \in 1 .. Len(Line') /\ ~(k - 1 < p) /\ k - 1 + 1 = k
        BY <3>4
      <4> QED BY <3>1, <4>1
    <3> QED BY <3>2, <3>3, <3>4
  <2> QED BY <2>1, <2>2
<1>5. FirstCome'
  <2> SUFFICES ASSUME NEW i \in 1 .. Len(posted), NEW j \in 1 .. Len(posted), i < j,
                      In[posted[i]] = In[posted[j]], Ran(posted[j])'
               PROVE  Ran(posted[i])'
    BY DEF FirstCome
  <2> SUFFICES ASSUME ~Ran(posted[i]) PROVE Ran(posted[i])'
    BY <1>1
  <2>1. posted[j] = Line[p]
    BY <1>1 DEF LineInv, FirstCome
  <2>2. PICK k \in 1 .. Len(Line) : Line[k] = posted[i]
    BY DEF LineInv
  <2>3. CASE k < p
    BY <2>1, <2>2, <2>3
  <2>4. CASE k = p
    BY <2>1, <2>2, <2>4 DEF LineInv, PostedOnce
  <2>5. CASE p < k
    <3>1. Older(posted[j], posted[i])
      BY <2>1, <2>2, <2>5 DEF LineInv
    <3>2. PICK j1, i1 \in 1 .. Len(posted) : j1 < i1 /\ posted[j1] = posted[j] /\ posted[i1] = posted[i]
      BY <3>1 DEF Older
    <3>3. j1 = j /\ i1 = i
      BY <3>2 DEF LineInv, PostedOnce
    <3> QED BY <3>2, <3>3
  <2> QED BY <2>3, <2>4, <2>5
<1>6. \A i \in 1 .. Len(posted') : Ran(posted[i])' \/ \E k \in 1 .. Len(Line') : Line'[k] = posted'[i]
  BY <1>4
<1>7. \A k \in 1 .. Len(Line') : Queued(Line[k])'
  <2> TAKE k \in 1 .. Len(Line')
  <2>1. k \in 1 .. Len(Line) /\ k + 1 \in 1 .. Len(Line)
    OBVIOUS
  <2>2. Queued(Line[k]) /\ Queued(Line[k + 1])
    BY <2>1 DEF LineInv
  <2> QED BY <2>1, <2>2 DEF Queued
<1>8. \A k \in 1 .. Len(ran') : Queued(ran[k])'
  <2> TAKE k \in 1 .. Len(ran')
  <2>1. (k \in 1 .. Len(ran) /\ ran'[k] = ran[k]) \/ ran'[k] = Line[p]
    OBVIOUS
  <2> QED BY <2>1 DEF LineInv, Queued
<1> QED BY <1>2, <1>3, <1>5, <1>6, <1>7, <1>8 DEF LineInv

\* A block joins the line at its end.
LEMMA BlockJoins ==
    ASSUME LineInv, ran' = ran, ran \in Seq(Block), posted \in Seq(Block), NEW b \in Block,
           posted' = Append(posted, b), ~Queued(b),
           Len(Line) \in Nat, Len(Line') = Len(Line) + 1, Line'[Len(Line) + 1] = b,
           \A k \in 1 .. Len(Line) : Line'[k] = Line[k]
    PROVE  LineInv'
<1>1. /\ Len(posted) \in Nat /\ Len(posted') = Len(posted) + 1 /\ posted'[Len(posted) + 1] = b
      /\ \A k \in 1 .. Len(posted) : posted'[k] = posted[k]
      /\ \A k \in 1 .. Len(posted') : k \in 1 .. Len(posted) \/ k = Len(posted) + 1
  OBVIOUS
<1>2. PostedOnce'
  BY <1>1 DEF LineInv, PostedOnce, Queued
<1>3. \A c : Ran(c)' <=> Ran(c)
  BY DEF Ran
<1>4. ASSUME NEW k \in 1 .. Len(Line'), NEW l \in 1 .. Len(Line'), k < l
      PROVE  \E i, j \in 1 .. Len(posted') : i < j /\ posted'[i] = Line'[k] /\ posted'[j] = Line'[l]
  <2>1. k \in 1 .. Len(Line)
    BY <1>4
  <2>2. CASE l \in 1 .. Len(Line)
    <3>1. PICK i, j \in 1 .. Len(posted) : i < j /\ posted[i] = Line[k] /\ posted[j] = Line[l]
      BY <1>4, <2>1, <2>2 DEF LineInv, Older
    <3> QED BY <1>1, <2>1, <2>2, <3>1
  <2>3. CASE l = Len(Line) + 1
    <3>1. PICK i \in 1 .. Len(posted) : posted[i] = Line[k]
      BY <2>1 DEF LineInv, Queued
    <3> QED BY <1>1, <2>1, <2>3, <3>1
  <2> QED BY <2>2, <2>3
<1>5. ASSUME NEW i \in 1 .. Len(posted')
      PROVE  Ran(posted'[i]) \/ \E k \in 1 .. Len(Line') : Line'[k] = posted'[i]
  <2>1. CASE i \in 1 .. Len(posted)
    <3>1. posted'[i] = posted[i] /\ (Ran(posted[i]) \/ \E k \in 1 .. Len(Line) : Line[k] = posted[i])
      BY <1>1, <2>1 DEF LineInv
    <3> QED BY <3>1
  <2>2. CASE i = Len(posted) + 1
    BY <1>1, <2>2
  <2> QED BY <1>1, <2>1, <2>2
<1>6. FirstCome'
  <2> SUFFICES ASSUME NEW i \in 1 .. Len(posted'), NEW j \in 1 .. Len(posted'), i < j,
                      In[posted'[i]] = In[posted'[j]], Ran(posted[j])'
               PROVE  Ran(posted[i])'
    BY DEF FirstCome
  <2>1. j \in 1 .. Len(posted)
    <3>1. PICK k \in 1 .. Len(ran) : ran[k] = posted'[j]
      BY DEF Ran
    <3>2. posted'[j] # b
      BY <3>1 DEF LineInv
    <3> QED BY <1>1, <3>2
  <2>2. i \in 1 .. Len(posted)
    BY <1>1, <2>1
  <2>3. Ran(posted[j]) /\ In[posted[i]] = In[posted[j]] /\ posted'[i] = posted[i]
    BY <1>1, <2>1, <2>2 DEF Ran
  <2>4. Ran(posted[i])
    BY <2>1, <2>2, <2>3 DEF LineInv, FirstCome
  <2> QED BY <2>3, <2>4 DEF Ran
<1>7. \A k, l \in 1 .. Len(Line') : k < l => Older(Line[k], Line[l])'
  BY <1>4 DEF Older
<1>8. \A i \in 1 .. Len(posted') : Ran(posted[i])' \/ \E k \in 1 .. Len(Line') : Line'[k] = posted'[i]
  BY <1>5 DEF Ran
<1>9. \A k \in 1 .. Len(Line') : Queued(Line[k])'
  <2> TAKE k \in 1 .. Len(Line')
  <2>1. (k \in 1 .. Len(Line) /\ Line'[k] = Line[k]) \/ Line'[k] = b
    OBVIOUS
  <2>2. Queued(Line'[k]) \/ Line'[k] = b
    BY <2>1 DEF LineInv
  <2> QED BY <1>1, <2>2 DEF Queued
<1>10. \A k \in 1 .. Len(ran') : Queued(ran[k])'
  BY <1>1 DEF LineInv, Queued
<1> QED BY <1>2, <1>6, <1>7, <1>8, <1>9, <1>10 DEF LineInv

-----------------------------------------------------------------------------
(* The steps of the loop.                                                  *)

\* The lists are lists of blocks.
LEMMA Lists ==
    ASSUME Typed
    PROVE  /\ queue \in Seq(Block) /\ Kept \in Seq(Block) /\ List \in Seq(Block)
           /\ Line \in Seq(Block) /\ Len(Line) \in Nat
<1>1. queue \in Seq(Block) /\ (Running => top \in Frame)
  BY TopIsFrame DEF Typed
<1>2. Kept \in Seq(Block) /\ List \in Seq(Block)
  BY <1>1 DEF Kept, List, Frame
<1>3. Line \in Seq(Block)
  BY <1>1, <1>2, ConcatProperties DEF Line
<1> QED BY <1>1, <1>2, <1>3

\* Where nothing is detached, the queue is the line.
LEMMA JustQueue ==
    ASSUME Typed, Kept = <<>>, List = <<>>
    PROVE  Line = queue
<1>1. queue \in Seq(Block) /\ <<>> \in Seq(Block)
  BY Lists
<1>2. <<>> \o <<>> = <<>> /\ <<>> \o queue = queue
  BY <1>1, ConcatEmptySeq
<1> QED BY <1>2 DEF Line

\* A step of the loop changes the current run only.
LEMMA HoldSuffices ==
    ASSUME Typed, HoldInv, LoopStep, ~Leave, FrameHolds(top)'
    PROVE  HoldInv'
<1>1. \A n \in 1 .. Len(frames') : FrameHolds(frames[n])'
  BY TopStep DEF HoldInv, FrameHolds
<1>2. \A n \in 1 .. Len(frames') - 1 : ~frames'[n].drain
  BY TopStep DEF HoldInv
<1> QED BY <1>1, <1>2 DEF HoldInv

\* A step that leaves the blocks alone.
LEMMA Aside ==
    ASSUME Typed, HoldInv, LineInv, LoopStep, ~Leave, UNCHANGED <<queue, posted, ran>>,
           top'.kept = top.kept, top'.list = top.list, top'.drain = top.drain,
           top'.callout \in Port => top'.callout = top.callout \/ ~top.drain
    PROVE  HoldInv' /\ LineInv'
<1>1. Running /\ Running' /\ Len(frames) \in Nat \ {0}
  BY TopStep
<1>2. FrameHolds(top)
  BY <1>1 DEF HoldInv, top
<1>3. FrameHolds(top)'
  BY <1>2 DEF FrameHolds
<1>4. Line' = Line
  BY <1>1 DEF Line, Kept, List
<1> QED BY <1>3, <1>4, HoldSuffices, SameLine

\* A step of __CFRunLoopDoBlocks.
BlocksStep == \E where \in DOMAIN BlockStep : Detach(where) \/ CallBlock(where) \/ Reattach(where)

\* Every other step of a run leaves the blocks where they are; while the run drains its list
\* that is the end of a callout.
LEMMA NoBlocks ==
    ASSUME Typed, LoopStep, ~Leave, ~BlocksStep
    PROVE  /\ UNCHANGED <<queue, posted, ran>>
           /\ top'.kept = top.kept /\ top'.list = top.list /\ top'.drain = top.drain
           /\ top.pc \in DOMAIN BlockStep => top'.pc = top.pc /\ top'.callout = Nobody
<1> DEFINE Same == top'.kept = top.kept /\ top'.list = top.list /\ top'.drain = top.drain
           Blockless == top.pc \notin DOMAIN BlockStep
<1>1. Running /\ top \in Frame /\ \A g : SetTop(g) => top' = g
  BY TopStep
<1>2. DOMAIN BlockStep = {"blocks1", "blocks2", "blocks3"}
  BY DEF BlockStep
<1> USE DEF shared
<1>3. CASE EndCallout
  <2>1. top' = [top EXCEPT !.callout = Nobody]
    BY <1>1, <1>3 DEF EndCallout
  <2>2. Same /\ top'.pc = top.pc /\ top'.callout = Nobody
    BY <1>1, <2>1 DEF Frame
  <2> QED BY <1>3, <2>2 DEF EndCallout
<1>4. ASSUME NEW where \in DOMAIN ObserverStep, Observe(where)
      PROVE  Same /\ Blockless /\ UNCHANGED <<queue, posted, ran>>
  <2>1. top' = [top EXCEPT !.pc = ObserverStep[where]]
        \/ top' = [[top EXCEPT !.pc = ObserverStep[where]] EXCEPT !.callout = "observer"]
    BY <1>1, <1>4 DEF Observe
  <2>2. Same
    <3>1. CASE top' = [top EXCEPT !.pc = ObserverStep[where]]
      BY <1>1, <3>1 DEF Frame
    <3>2. CASE top' = [[top EXCEPT !.pc = ObserverStep[where]] EXCEPT !.callout = "observer"]
      BY <1>1, <3>2 DEF Frame
    <3> QED BY <2>1, <3>1, <3>2
  <2>3. Blockless
    <3>1. top.pc \in {"entry", "before", "beforeWaiting", "afterWaiting", "exit"}
      BY <1>4 DEF Observe, At, ObserverStep
    <3> QED BY <1>2, <3>1
  <2> QED BY <1>4, <2>2, <2>3 DEF Observe
<1>5. CASE Collect
  <2>1. PICK found : top' = [top EXCEPT !.todo = found, !.handled = FALSE, !.pc = "perform"]
    BY <1>1, <1>5 DEF Collect
  <2>2. Same
    BY <1>1, <2>1 DEF Frame
  <2> QED BY <1>2, <1>5, <2>2 DEF Collect, At
<1>6. CASE SourcesDone
  <2>1. PICK to : top' = [top EXCEPT !.pc = to]
    BY <1>1, <1>6 DEF SourcesDone
  <2>2. Same
    BY <1>1, <2>1 DEF Frame
  <2> QED BY <1>2, <1>6, <2>2 DEF SourcesDone, At
<1>7. ASSUME NEW s \in Source, Perform(s)
      PROVE  Same /\ Blockless /\ UNCHANGED <<queue, posted, ran>>
  <2>1. top' = [top EXCEPT !.todo = Left(top, s), !.handled = TRUE, !.callout = s]
    BY <1>1, <1>7 DEF Perform
  <2>2. Same
    BY <1>1, <2>1 DEF Frame
  <2> QED BY <1>2, <1>7, <2>2 DEF Perform, At
<1>8. ASSUME NEW s \in Source, Skip(s)
      PROVE  Same /\ Blockless /\ UNCHANGED <<queue, posted, ran>>
  <2>1. top' = [top EXCEPT !.todo = @ \ {s}]
    BY <1>1, <1>8 DEF Skip
  <2>2. Same
    BY <1>1, <2>1 DEF Frame
  <2> QED BY <1>2, <1>8, <2>2 DEF Skip, At
<1>9. CASE PollDispatch
  <2>1. \/ top' = [top EXCEPT !.live = DispatchPort, !.pc = "handle"]
        \/ \E b : top' = [top EXCEPT !.pc = "beforeWaiting", !.poll = b]
    BY <1>1, <1>9 DEF PollDispatch
  <2>2. Same
    <3>1. CASE top' = [top EXCEPT !.live = DispatchPort, !.pc = "handle"]
      BY <1>1, <3>1 DEF Frame
    <3>2. ASSUME NEW b, top' = [top EXCEPT !.pc = "beforeWaiting", !.poll = b] PROVE Same
      BY <1>1, <3>2 DEF Frame
    <3> QED BY <2>1, <3>1, <3>2
  <2> QED BY <1>2, <1>9, <2>2 DEF PollDispatch, At
<1>10. CASE Wait
  <2>1. PICK p : top' = [top EXCEPT !.live = p, !.pc = "afterWaiting"]
    BY <1>1, <1>10 DEF Wait
  <2>2. Same
    BY <1>1, <2>1 DEF Frame
  <2> QED BY <1>2, <1>10, <2>2 DEF Wait, At
<1>11. CASE Handle
  <2>1. PICK c : top' = [top EXCEPT !.live = Nobody, !.pc = "blocks3", !.callout = c]
    BY <1>1, <1>11 DEF Handle
  <2>2. Same
    BY <1>1, <2>1 DEF Frame
  <2> QED BY <1>2, <1>11, <2>2 DEF Handle, At
<1>12. ASSUME NEW late \in BOOLEAN, Decide(late)
       PROVE  Same /\ Blockless /\ UNCHANGED <<queue, posted, ran>>
  <2>1. ASSUME NEW r, SetTop([top EXCEPT !.result = r, !.pc = "exit", !.stopped = @ /\ r # "Stopped"])
        PROVE  Same
    <3>1. top' = [top EXCEPT !.result = r, !.pc = "exit", !.stopped = @ /\ r # "Stopped"]
      BY <1>1, <2>1
    <3> QED BY <1>1, <3>1 DEF Frame
  <2>2. ASSUME SetTop([top EXCEPT !.pc = "before", !.poll = FALSE, !.handled = FALSE]) PROVE Same
    <3>1. top' = [top EXCEPT !.pc = "before", !.poll = FALSE, !.handled = FALSE]
      BY <1>1, <2>2
    <3> QED BY <1>1, <3>1 DEF Frame
  <2>3. Same
    BY <1>12, <2>1, <2>2 DEF Decide, Finish, Again
  <2>4. Blockless /\ UNCHANGED <<queue, posted, ran>>
    BY <1>2, <1>12 DEF Decide, At
  <2> QED BY <2>3, <2>4
<1> QED
  BY <1>3, <1>4, <1>5, <1>6, <1>7, <1>8, <1>9, <1>10, <1>11, <1>12 DEF LoopStep, BlocksStep

\* The steps of __CFRunLoopDoBlocks pass the line on; a block that is called leaves it.
LEMMA LoopLines ==
    ASSUME Typed, Typed', Callers, WakeInv, HoldInv, LineInv, LoopStep, ~Leave
    PROVE  HoldInv' /\ LineInv'
<1>1. /\ Running /\ Running' /\ top \in Frame /\ top' \in Frame /\ \A g : SetTop(g) => top' = g
      /\ FrameOK(top) /\ FrameHolds(top)
  <2>1. Running /\ Running' /\ top \in Frame /\ top' \in Frame /\ \A g : SetTop(g) => top' = g
    BY TopStep
  <2>2. Len(frames) \in 1 .. Len(frames)
    <3>1. Len(frames) \in Nat \ {0}
      BY TopStep
    <3> QED BY <3>1
  <2> QED BY <2>1, <2>2 DEF WakeInv, HoldInv, top
<1> USE PortsApart DEF shared
<1>2. CASE ~BlocksStep
  <2>1. top.drain => top.pc \in DOMAIN BlockStep
    BY <1>1 DEF FrameOK, BlockStep
  <2>2. /\ UNCHANGED <<queue, posted, ran>>
        /\ top'.kept = top.kept /\ top'.list = top.list /\ top'.drain = top.drain
        /\ top.drain => top'.callout = Nobody
    BY <1>2, <2>1, NoBlocks
  <2> QED BY <2>2, Aside
<1>3. ASSUME NEW where \in DOMAIN BlockStep, Detach(where) PROVE HoldInv' /\ LineInv'
  <2>1. /\ ~top.drain /\ top.callout = Nobody /\ queue' = <<>> /\ posted' = posted /\ ran' = ran
        /\ \/ queue = <<>> /\ top' = [top EXCEPT !.pc = BlockStep[where]]
           \/ top' = [top EXCEPT !.drain = TRUE, !.list = queue]
    BY <1>1, <1>3 DEF Detach, At
  <2>2. top.kept = <<>> /\ top.list = <<>>
    BY <1>1, <2>1 DEF FrameHolds
  <2>3. top'.kept = <<>> /\ top'.list = queue /\ (top'.drain \/ queue = <<>>) /\ top'.callout = Nobody
    <3>1. CASE queue = <<>> /\ top' = [top EXCEPT !.pc = BlockStep[where]]
      BY <1>1, <2>1, <2>2, <3>1 DEF Frame
    <3>2. CASE top' = [top EXCEPT !.drain = TRUE, !.list = queue]
      BY <1>1, <2>1, <2>2, <3>2 DEF Frame
    <3> QED BY <2>1, <3>1, <3>2
  <2>4. FrameHolds(top)'
    BY <2>3 DEF FrameHolds
  <2>5. Line = queue
    BY <1>1, <2>2, JustQueue DEF Kept, List
  <2>6. Line' = (<<>> \o queue) \o <<>>
    BY <1>1, <2>1, <2>3 DEF Line, Kept, List
  <2>7. queue \in Seq(Block)
    BY Lists
  <2>8. <<>> \o queue = queue /\ queue \o <<>> = queue
    BY <2>7, ConcatEmptySeq
  <2> QED BY <2>1, <2>4, <2>5, <2>6, <2>8, HoldSuffices, SameLine
<1>4. ASSUME NEW where \in DOMAIN BlockStep, CallBlock(where) PROVE HoldInv' /\ LineInv'
  <2>1. PICK n \in Runnable(top) :
          /\ top.drain /\ top.callout = Nobody /\ queue' = queue /\ posted' = posted
          /\ \A k \in Runnable(top) : n <= k
          /\ ran' = Append(ran, top.list[n])
          /\ top' = [top EXCEPT !.callout = top.list[n],
                       !.kept = @ \o SubSeq(top.list, 1, n - 1),
                       !.list = SubSeq(top.list, n + 1, Len(top.list))]
    BY <1>1, <1>4 DEF CallBlock, At
  <2> DEFINE a == top.kept
             l == top.list
  <2>2. a \in Seq(Block) /\ l \in Seq(Block) /\ queue \in Seq(Block) /\ n \in 1 .. Len(l) /\ l[n] \in Block
    BY <1>1, <2>1, Lists DEF Runnable, Frame
  <2>3. /\ top'.kept = a \o SubSeq(l, 1, n - 1) /\ top'.list = SubSeq(l, n + 1, Len(l))
        /\ top'.drain /\ top'.callout = l[n]
    BY <1>1, <2>1 DEF Frame
  <2>4. FrameHolds(top)'
    BY <2>2, <2>3 DEF FrameHolds
  <2>5. Line = a \o l \o queue /\ Line' = (a \o SubSeq(l, 1, n - 1)) \o SubSeq(l, n + 1, Len(l)) \o queue
    BY <1>1, <2>1, <2>3 DEF Line, Kept, List
  <2>6. /\ \A k \in 1 .. Len(a) : ~Eligible(a[k], top.mode)
        /\ Eligible(l[n], top.mode)
        /\ \A k \in 1 .. n - 1 : ~Eligible(l[k], top.mode)
    <3>1. \A k \in 1 .. n - 1 : k \in 1 .. Len(l) /\ ~(n <= k)
      BY <2>2
    <3> QED BY <1>1, <2>1, <3>1 DEF FrameOK, Runnable
  <2>7. IsWithout(Line', Line, a, l, n)
    BY <2>2, <2>5, TakenOut
  <2> DEFINE p == Len(a) + n
  <2> HIDE DEF a, l
  <2>8. Len(a) \in Nat /\ n \in Int
    BY <2>2
  <2>9. /\ Len(Line) \in Nat /\ Len(Line') = Len(Line) - 1 /\ p \in 1 .. Len(Line) /\ Line[p] = l[n]
        /\ \A k \in 1 .. Len(Line') : Line'[k] = IF k < p THEN Line[k] ELSE Line[k + 1]
        /\ \A k \in 1 .. p - 1 : \/ k \in 1 .. Len(a) /\ Line[k] = a[k]
                                 \/ k - Len(a) \in 1 .. n - 1 /\ Line[k] = l[k - Len(a)]
    <3>1. Len(Line) \in Nat /\ Len(Line') = Len(Line) - 1 /\ p \in 1 .. Len(Line) /\ Line[p] = l[n]
      BY <2>7 DEF IsWithout
    <3>2. \A k \in 1 .. Len(Line') : Line'[k] = IF k < p THEN Line[k] ELSE Line[k + 1]
      BY <2>7 DEF IsWithout
    <3>3. \A k \in 1 .. p - 1 : \/ k \in 1 .. Len(a) /\ Line[k] = a[k]
                                \/ k - Len(a) \in 1 .. n - 1 /\ Line[k] = l[k - Len(a)]
      BY <2>7, <2>8 DEF IsWithout
    <3> QED BY <3>1, <3>2, <3>3
  <2> HIDE DEF p
  <2>10. \A k \in 1 .. p - 1 : In[Line[k]] # In[Line[p]]
    BY <2>6, <2>9 DEF Eligible
  <2>11. ran' = Append(ran, Line[p]) /\ Line[p] \in Block /\ ran \in Seq(Block)
    BY <2>1, <2>2, <2>9 DEF l, Callers
  <2>12. LineInv'
    BY <2>1, <2>9, <2>10, <2>11, BlockRuns
  <2> QED BY <2>4, <2>12, HoldSuffices
<1>5. ASSUME NEW where \in DOMAIN BlockStep, Reattach(where) PROVE HoldInv' /\ LineInv'
  <2>1. /\ queue' = top.kept \o top.list \o queue /\ posted' = posted /\ ran' = ran /\ top.callout = Nobody
        /\ top' = [top EXCEPT !.pc = BlockStep[where], !.drain = FALSE, !.list = <<>>, !.kept = <<>>]
    BY <1>1, <1>5 DEF Reattach, Reattached, At
  <2>2. top'.kept = <<>> /\ top'.list = <<>> /\ top'.callout = Nobody
    BY <1>1, <2>1 DEF Frame
  <2>3. FrameHolds(top)'
    BY <2>2 DEF FrameHolds
  <2>4. queue' = Line
    BY <1>1, <2>1 DEF Line, Kept, List
  <2>5. Line \in Seq(Block) /\ <<>> \in Seq(Block)
    BY Lists
  <2>6. Line' = (<<>> \o <<>>) \o Line
    BY <1>1, <2>2, <2>4 DEF Line, Kept, List
  <2>7. <<>> \o <<>> = <<>> /\ <<>> \o Line = Line
    BY <2>5, ConcatEmptySeq
  <2> QED BY <2>1, <2>3, <2>6, <2>7, HoldSuffices, SameLine
<1> QED BY <1>2, <1>3, <1>4, <1>5 DEF BlocksStep

-----------------------------------------------------------------------------
(* The other steps.                                                        *)

\* The run that ends holds nothing, nor does the one that goes on.
LEMMA LeaveLines ==
    ASSUME Typed, Typed', WakeInv, HoldInv, LineInv, Leave
    PROVE  HoldInv' /\ LineInv'
<1>1. frames \in Seq(Frame) /\ frames # <<>> /\ frames' = SubSeq(frames, 1, Len(frames) - 1)
      /\ top.pc = "gone" /\ UNCHANGED <<queue, posted, ran>>
  BY DEF Typed, FramesOK, Leave, At, Running, shared
<1>2. /\ Len(frames) \in Nat \ {0} /\ Len(frames') = Len(frames) - 1
      /\ \A n \in 1 .. Len(frames) - 1 : frames'[n] = frames[n]
  BY <1>1, ButLast
<1>3. HoldInv'
  <2>1. \A n \in 1 .. Len(frames') : n \in 1 .. Len(frames) /\ n \in 1 .. Len(frames) - 1
    BY <1>2
  <2>2. \A n \in 1 .. Len(frames') : FrameHolds(frames[n])' /\ ~frames'[n].drain
    BY <1>2, <2>1 DEF HoldInv, FrameHolds
  <2>3. \A n \in 1 .. Len(frames') - 1 : n \in 1 .. Len(frames')
    BY <1>2
  <2> QED BY <2>2, <2>3 DEF HoldInv
<1>4. Kept = <<>> /\ List = <<>>
  <2>1. FrameOK(top) /\ FrameHolds(top)
    BY <1>2 DEF WakeInv, HoldInv, top
  <2>2. top.kept = <<>> /\ top.list = <<>>
    BY <1>1, <2>1 DEF FrameOK, FrameHolds
  <2> QED BY <2>2 DEF Kept, List
<1>5. Kept' = <<>> /\ List' = <<>>
  <2>1. CASE ~Running'
    BY <2>1 DEF Kept, List
  <2>2. CASE Running'
    <3>1. Len(frames') \in Nat \ {0} /\ Len(frames') \in 1 .. Len(frames) - 1 /\ Len(frames') \in 1 .. Len(frames)
      BY <1>2, <2>2, TopIsFrame DEF Typed, FramesOK, Running
    <3>2. top' = frames[Len(frames) - 1] /\ Len(frames) - 1 \in 1 .. Len(frames) - 1
          /\ Len(frames) - 1 \in 1 .. Len(frames)
      BY <1>2, <3>1 DEF top
    <3>3. top'.kept = <<>> /\ top'.list = <<>>
      BY <3>2 DEF HoldInv, FrameHolds
    <3> QED BY <3>3 DEF Kept, List
  <2> QED BY <2>1, <2>2
<1>6. Line = queue /\ Line' = queue'
  <2>1. queue \in Seq(Block) /\ <<>> \in Seq(Block)
    BY Lists
  <2>2. (<<>> \o <<>>) \o queue = queue
    BY <2>1, ConcatEmptySeq
  <2> QED BY <1>1, <1>4, <1>5, <2>2 DEF Line
<1> QED BY <1>1, <1>3, <1>6, SameLine

\* The run that is interrupted is in the callout of a source or of a message, and holds nothing.
LEMMA EnterLines ==
    ASSUME NestsLate, Typed, Typed', WakeInv, HoldInv, LineInv, NEW m, NEW st, NEW d, Enter(m, st, d)
    PROVE  HoldInv' /\ LineInv'
<1> DEFINE new == NewFrame(m, st, d)
<1>1. frames \in Seq(Frame) /\ frames' = Append(frames, new) /\ UNCHANGED <<queue, posted, ran>>
  BY DEF Typed, FramesOK, Enter, shared
<1>2. new.callout = Nobody /\ new.drain = FALSE /\ new.kept = <<>> /\ new.list = <<>>
  BY DEF NewFrame
<1>3. Running => ~top.drain /\ FrameHolds(top)
  <2> SUFFICES ASSUME Running PROVE ~top.drain /\ FrameHolds(top)
    OBVIOUS
  <2>1. Len(frames) \in Nat \ {0}
    BY TopIsFrame DEF Typed
  <2>2. FrameOK(top) /\ FrameHolds(top)
    BY <2>1 DEF WakeInv, HoldInv, top
  <2>3. top.callout \in Source \cup Port
    <3>1. Kind(top.callout) \in {"source0", "message"}
      BY DEF Enter, NestsLate
    <3> QED BY <3>1 DEF Kind
  <2> QED BY <2>2, <2>3 DEF FrameOK, FrameHolds
<1> HIDE DEF new
<1>4. /\ Len(frames) \in Nat /\ Len(frames') = Len(frames) + 1 /\ frames'[Len(frames) + 1] = new
      /\ \A n \in 1 .. Len(frames) : frames'[n] = frames[n]
  BY <1>1
<1>5. Running' /\ top' = new
  <2>1. frames' # <<>>
    BY <1>4
  <2> QED BY <1>4, <2>1 DEF Running, top
<1>6. HoldInv'
  <2>1. FrameHolds(new)'
    BY <1>2, PortsApart DEF FrameHolds
  <2>2. \A n \in 1 .. Len(frames) : FrameHolds(frames[n])'
    BY <1>4 DEF HoldInv, FrameHolds
  <2>3. \A n \in 1 .. Len(frames') : n = Len(frames) + 1 \/ n \in 1 .. Len(frames)
    BY <1>4
  <2>4. \A n \in 1 .. Len(frames') : FrameHolds(frames[n])'
    BY <1>4, <2>1, <2>2, <2>3 DEF FrameHolds
  <2>5. \A n \in 1 .. Len(frames') - 1 : ~frames'[n].drain
    <3> TAKE n \in 1 .. Len(frames') - 1
    <3>1. n \in 1 .. Len(frames) /\ (n \in 1 .. Len(frames) - 1 \/ n = Len(frames)) /\ frames # <<>>
      BY <1>1, <1>4
    <3>2. ~frames[n].drain
      BY <1>3, <3>1 DEF HoldInv, top, Running
    <3> QED BY <1>4, <3>1, <3>2
  <2> QED BY <2>4, <2>5 DEF HoldInv
<1>7. Kept = <<>> /\ List = <<>> /\ Kept' = <<>> /\ List' = <<>>
  BY <1>2, <1>3, <1>5 DEF Kept, List, FrameHolds
<1>8. Line' = Line
  BY <1>1, <1>7 DEF Line
<1> QED BY <1>1, <1>6, <1>8, SameLine

\* Steps that leave the runs alone, and the field of one run that a call sets.
LEMMA SameRuns ==
    ASSUME HoldInv, frames' = frames
    PROVE  HoldInv' /\ Kept' = Kept /\ List' = List
  BY DEF HoldInv, FrameHolds, Kept, List, Running, top

\* One field of one run is set that has nothing to do with blocks.
LEMMA FieldLines ==
    ASSUME Typed, HoldInv, LineInv, UNCHANGED <<queue, posted, ran>>,
           NEW n \in 1 .. Len(frames), NEW g, frames' = [frames EXCEPT ![n] = g],
           g.kept = frames[n].kept, g.list = frames[n].list, g.drain = frames[n].drain,
           g.callout = frames[n].callout
    PROVE  HoldInv' /\ LineInv'
<1>1. frames \in Seq(Frame)
  BY DEF Typed, FramesOK
<1>2. /\ Len(frames) \in Nat \ {0} /\ Len(frames') = Len(frames)
      /\ \A k \in 1 .. Len(frames) : frames'[k] = IF k = n THEN g ELSE frames[k]
  BY <1>1
<1>3. \A k \in 1 .. Len(frames) :
        frames'[k].kept = frames[k].kept /\ frames'[k].list = frames[k].list
        /\ frames'[k].drain = frames[k].drain /\ frames'[k].callout = frames[k].callout
  BY <1>2
<1>4. HoldInv'
  <2>1. \A k \in 1 .. Len(frames') : FrameHolds(frames[k])'
    BY <1>2, <1>3 DEF HoldInv, FrameHolds
  <2>2. \A k \in 1 .. Len(frames') - 1 : k \in 1 .. Len(frames) /\ k \in 1 .. Len(frames) - 1
    BY <1>2
  <2> QED BY <1>3, <2>1, <2>2 DEF HoldInv
<1>5. Kept' = Kept /\ List' = List
  <2>1. Running /\ Running'
    BY <1>2 DEF Running
  <2>2. Len(frames) \in 1 .. Len(frames)
    BY <1>2
  <2>3. top'.kept = top.kept /\ top'.list = top.list
    BY <1>2, <1>3, <2>2 DEF top
  <2> QED BY <2>1, <2>3 DEF Kept, List
<1>6. Line' = Line
  BY <1>5 DEF Line
<1> QED BY <1>4, <1>6, SameLine

\* The calls, of which only CFRunLoopPerformBlock adds to the line.
LEMMA ClientLines ==
    ASSUME Typed, Typed', Callers, HoldInv, LineInv, NEW c \in Client, ClientStep(c)
    PROVE  HoldInv' /\ LineInv'
<1> USE DEF shared
<1>1. ASSUME UNCHANGED <<frames, queue, posted, ran>> PROVE HoldInv' /\ LineInv'
  <2>1. HoldInv' /\ Kept' = Kept /\ List' = List
    BY <1>1, SameRuns
  <2>2. Line' = Line
    BY <1>1, <2>1 DEF Line
  <2> QED BY <1>1, <2>1, <2>2, SameLine
<1>2. CASE Finishing(c)
  BY <1>1, <1>2 DEF Finishing, WakeUp, RemoveFromModes
<1>3. CASE Stop(c)
  <2>1. Running /\ UNCHANGED <<queue, posted, ran>> /\ SetTop([top EXCEPT !.stopped = TRUE])
    BY <1>3 DEF Stop
  <2>2. top \in Frame /\ Len(frames) \in Nat \ {0}
    BY <2>1, TopIsFrame DEF Typed
  <2> DEFINE g == [top EXCEPT !.stopped = TRUE]
  <2>3. g.kept = top.kept /\ g.list = top.list /\ g.drain = top.drain /\ g.callout = top.callout
    BY <2>2 DEF Frame
  <2> HIDE DEF g
  <2>4. Len(frames) \in 1 .. Len(frames) /\ frames' = [frames EXCEPT ![Len(frames)] = g]
    BY <2>1, <2>2 DEF SetTop, g
  <2>5. /\ g.kept = frames[Len(frames)].kept /\ g.list = frames[Len(frames)].list
        /\ g.drain = frames[Len(frames)].drain /\ g.callout = frames[Len(frames)].callout
    BY <2>3 DEF top
  <2> QED BY <2>1, <2>4, <2>5, FieldLines
<1>4. ASSUME NEW s \in Source, Signal(c, s) \/ Invalidate(c, s) PROVE HoldInv' /\ LineInv'
  BY <1>1, <1>4 DEF Signal, Invalidate, Call
<1>5. ASSUME NEW b \in Block, PerformBlock(c, b) PROVE HoldInv' /\ LineInv'
  <2>1. /\ frames' = frames /\ ran' = ran /\ queue' = Append(queue, b)
        /\ posted' = Append(posted, b) /\ ~Queued(b)
    BY <1>5 DEF PerformBlock, Queued
  <2>2. HoldInv' /\ Kept' = Kept /\ List' = List
    BY <2>1, SameRuns
  <2> DEFINE a == Kept \o List
  <2>3. a \in Seq(Block) /\ queue \in Seq(Block) /\ Line = a \o queue /\ Line' = a \o Append(queue, b)
    BY <2>1, <2>2, Lists, ConcatProperties DEF Line
  <2> HIDE DEF a
  <2>4. /\ Len(a) \in Nat /\ Len(queue) \in Nat
        /\ Append(queue, b) \in Seq(Block) /\ Len(Append(queue, b)) = Len(queue) + 1
        /\ \A k \in 1 .. Len(queue) : Append(queue, b)[k] = queue[k]
        /\ Append(queue, b)[Len(queue) + 1] = b
    BY <2>3
  <2>5. /\ Len(Line) = Len(a) + Len(queue)
        /\ \A k \in 1 .. Len(a) + Len(queue) : Line[k] = IF k <= Len(a) THEN a[k] ELSE queue[k - Len(a)]
    BY <2>3, ConcatProperties
  <2> DEFINE q == Append(queue, b)
  <2> HIDE DEF q
  <2>6. /\ Len(Line') = Len(a) + Len(q)
        /\ \A k \in 1 .. Len(a) + Len(q) : Line'[k] = IF k <= Len(a) THEN a[k] ELSE q[k - Len(a)]
    <3>1. q \in Seq(Block) /\ a \in Seq(Block) /\ Line' = a \o q
      BY <2>3, <2>4 DEF q
    <3> QED BY <3>1, ConcatProperties
  <2>7. /\ Len(q) = Len(queue) + 1 /\ q[Len(queue) + 1] = b
        /\ \A k \in 1 .. Len(queue) : q[k] = queue[k]
    BY <2>4 DEF q
  <2>8. Len(Line) \in Nat /\ Len(Line') = Len(Line) + 1
    BY <2>4, <2>5, <2>6, <2>7
  <2>9. Line'[Len(Line) + 1] = b
    <3>1. Len(Line) + 1 \in 1 .. Len(a) + Len(q) /\ ~(Len(Line) + 1 <= Len(a))
          /\ Len(Line) + 1 - Len(a) = Len(queue) + 1
      BY <2>4, <2>5, <2>7
    <3>2. Line'[Len(Line) + 1] = q[Len(Line) + 1 - Len(a)]
      BY <2>6, <3>1
    <3> QED BY <2>7, <3>1, <3>2
  <2>10. ASSUME NEW k \in 1 .. Len(Line) PROVE Line'[k] = Line[k]
    <3>1. k \in 1 .. Len(a) + Len(q) /\ k \in 1 .. Len(a) + Len(queue)
          /\ (k <= Len(a) \/ (~(k <= Len(a)) /\ k - Len(a) \in 1 .. Len(queue)))
      BY <2>4, <2>5, <2>7
    <3> QED BY <2>5, <2>6, <2>7, <3>1
  <2>11. ran \in Seq(Block) /\ posted \in Seq(Block)
    BY DEF Callers
  <2>12. LineInv'
    BY <2>1, <2>8, <2>9, <2>10, <2>11, BlockJoins
  <2> QED BY <2>2, <2>12
<1>6. ASSUME NEW m \in Mode, StopMode(c, m) PROVE HoldInv' /\ LineInv'
  BY <1>1, <1>6 DEF StopMode, Call
<1>7. ASSUME NEW n \in 1 .. Depth, Timeout(c, n) PROVE HoldInv' /\ LineInv'
  <2>1. n \in 1 .. Len(frames) /\ UNCHANGED <<queue, posted, ran>>
    BY <1>7 DEF Timeout
  <2>2. frames[n] \in Frame
    BY <2>1 DEF Typed, FramesOK
  <2> DEFINE g == [frames[n] EXCEPT !.deadline = "passed"]
  <2>3. g.kept = frames[n].kept /\ g.list = frames[n].list /\ g.drain = frames[n].drain
        /\ g.callout = frames[n].callout
    BY <2>2 DEF Frame
  <2>4. frames' = [frames EXCEPT ![n] = g]
    BY <1>7 DEF Timeout
  <2> HIDE DEF g
  <2> QED BY <2>1, <2>3, <2>4, FieldLines
<1> QED BY <1>2, <1>3, <1>4, <1>5, <1>6, <1>7 DEF ClientStep

-----------------------------------------------------------------------------
(* The order of the line is kept by every step.                            *)

\* Every step keeps the line in order.
LEMMA NextLines ==
    ASSUME NestsLate, LoopInv, LoopInv', WakeInv, HoldInv, LineInv, [Next]_vars
    PROVE  HoldInv' /\ LineInv'
<1>1. Typed /\ Typed' /\ Callers
  BY DEF LoopInv
<1>2. ASSUME UNCHANGED <<frames, queue, posted, ran>> PROVE HoldInv' /\ LineInv'
  <2>1. HoldInv' /\ Kept' = Kept /\ List' = List
    BY <1>2, SameRuns
  <2>2. Line' = Line
    BY <1>2, <2>1 DEF Line
  <2> QED BY <1>2, <2>1, <2>2, SameLine
<1>3. ASSUME NEW run \in Runs, NEW d \in Deadline, Enter(run[1], run[2], d) PROVE HoldInv' /\ LineInv'
  BY <1>1, <1>3, EnterLines
<1>4. CASE LoopStep
  BY <1>1, <1>4, LoopLines, LeaveLines
<1>5. ASSUME NEW c \in Client, ClientStep(c) PROVE HoldInv' /\ LineInv'
  BY <1>1, <1>5, ClientLines
<1>6. ASSUME NEW p \in Port, Send(p) PROVE HoldInv' /\ LineInv'
  BY <1>2, <1>6 DEF Send
<1>7. CASE UNCHANGED vars
  BY <1>2, <1>7 DEF vars
<1> QED BY <1>3, <1>4, <1>5, <1>6, <1>7 DEF Next

\* CFRunLoopPerformBlock, __CFRunLoopDoBlocks: with runs that nest in the callouts of sources and
\* messages only, of two blocks queued for the same modes the one queued first runs first, however
\* often they are detached and put back for other modes.
THEOREM QueuedFirstRunsFirst == ASSUME NestsLate PROVE Spec => []FirstCome
<1>1. Init => WakeInv /\ HoldInv /\ LineInv
  <2> SUFFICES ASSUME Init PROVE WakeInv /\ HoldInv /\ LineInv
    OBVIOUS
  <2>1. WakeInv /\ HoldInv
    BY DEF Init, WakeInv, HoldInv, Running
  <2>2. Line = <<>>
    <3>1. <<>> \in Seq(Block)
      OBVIOUS
    <3>2. <<>> \o <<>> = <<>>
      BY <3>1, ConcatEmptySeq
    <3> QED BY <3>2 DEF Init, Line, Kept, List, Running
  <2>3. LineInv
    BY <2>2 DEF Init, LineInv, PostedOnce, FirstCome
  <2> QED BY <2>1, <2>3
<1>2. LoopInv /\ LoopInv' /\ WakeInv /\ HoldInv /\ LineInv /\ [Next]_vars => WakeInv' /\ HoldInv' /\ LineInv'
  BY NextWakes, NextLines
<1>3. LineInv => FirstCome
  BY DEF LineInv
<1> QED BY LoopInvariance, <1>1, <1>2, <1>3, PTL DEF Spec

-----------------------------------------------------------------------------
(* Every block is in one place.                                            *)

\* A run holds blocks only while it drains its list, in __CFRunLoopDoBlocks.
Holding(f) == /\ ~f.drain => f.kept = <<>> /\ f.list = <<>>
              /\ f.drain => f.pc \in DOMAIN BlockStep
HoldingInv == \A n \in 1 .. Len(frames) : Holding(frames[n])

\* A place is a row and a position in it.
LEMMA PlaceIs ==
    \A p : p \in Places <=> /\ p = <<p[1], p[2]>>
                            /\ p[1] \in -1 .. Len(frames) /\ p[2] \in 1 .. Len(Blocks(p[1]))
  BY DEF Places

\* The rows that blocks may be in.
LEMMA Rows ==
    /\ Blocks(-1) = ran /\ Blocks(0) = queue
    /\ \A n \in Nat \ {0} : Blocks(n) = frames[n].kept \o frames[n].list
<1>1. Blocks(-1) = ran /\ Blocks(0) = queue
  BY DEF Blocks
<1>2. ASSUME NEW n \in Nat \ {0} PROVE Blocks(n) = frames[n].kept \o frames[n].list
  <2>1. n # -1 /\ n # 0
    OBVIOUS
  <2> QED BY <2>1, Zenon DEF Blocks
<1> QED BY <1>1, <1>2

\* F says from which place the block at each place came.
LEMMA Moved ==
    ASSUME BlocksOnce, posted' = posted, NEW F,
           \A q \in Places' : F[q] \in Places /\ BlockAt(F[q]) = BlockAt(q)',
           \A p, q \in Places' : F[p] = F[q] => p = q,
           \A p \in Places : \E q \in Places' : F[q] = p
    PROVE  BlocksOnce'
<1>1. \A p, q \in Places' : BlockAt(p)' = BlockAt(q)' => p = q
  BY DEF BlocksOnce
<1>2. ASSUME NEW b \in Block PROVE Queued(b)' <=> \E q \in Places' : BlockAt(q)' = b
  <2>1. Queued(b)' <=> \E p \in Places : BlockAt(p) = b
    BY DEF BlocksOnce, Queued
  <2>2. (\E p \in Places : BlockAt(p) = b) <=> \E q \in Places' : BlockAt(q)' = b
    OBVIOUS
  <2> QED BY <2>1, <2>2
<1> QED BY <1>1, <1>2 DEF BlocksOnce

\* No row has changed, but for empty ones that come or go.
LEMMA SameRows ==
    ASSUME BlocksOnce, posted' = posted, Len(frames) \in Nat, Len(frames') \in Nat,
           \A n \in -1 .. Len(frames) : \/ n <= Len(frames') /\ Blocks(n)' = Blocks(n)
                                        \/ Blocks(n) = <<>>,
           \A n \in -1 .. Len(frames') : \/ n <= Len(frames) /\ Blocks(n)' = Blocks(n)
                                         \/ Blocks(n)' = <<>>
    PROVE  BlocksOnce'
<1>1. \A p : p \in Places' <=> /\ p = <<p[1], p[2]>>
                               /\ p[1] \in -1 .. Len(frames') /\ p[2] \in 1 .. Len(Blocks(p[1])')
  BY DEF Places
<1>2. 1 .. Len(<<>>) = {}
  OBVIOUS
<1>3. ASSUME NEW p PROVE p \in Places' <=> p \in Places
  <2>1. ASSUME p \in Places PROVE p \in Places'
    <3>1. p = <<p[1], p[2]>> /\ p[1] \in -1 .. Len(frames) /\ p[2] \in 1 .. Len(Blocks(p[1]))
      BY <2>1, PlaceIs
    <3>2. p[1] <= Len(frames') /\ Blocks(p[1])' = Blocks(p[1])
      BY <1>2, <3>1
    <3>3. p[1] \in -1 .. Len(frames')
      BY <3>1, <3>2
    <3> QED BY <1>1, <3>1, <3>2, <3>3
  <2>2. ASSUME p \in Places' PROVE p \in Places
    <3>1. p = <<p[1], p[2]>> /\ p[1] \in -1 .. Len(frames') /\ p[2] \in 1 .. Len(Blocks(p[1])')
      BY <1>1, <2>2
    <3>2. p[1] <= Len(frames) /\ Blocks(p[1])' = Blocks(p[1])
      BY <1>2, <3>1
    <3>3. p[1] \in -1 .. Len(frames)
      BY <3>1, <3>2
    <3> QED BY <3>1, <3>2, <3>3, PlaceIs
  <2> QED BY <2>1, <2>2
<1>4. ASSUME NEW p \in Places PROVE BlockAt(p)' = BlockAt(p)
  <2>1. p[1] \in -1 .. Len(frames) /\ p[2] \in 1 .. Len(Blocks(p[1]))
    BY PlaceIs
  <2>2. Blocks(p[1])' = Blocks(p[1])
    BY <1>2, <2>1
  <2> QED BY <2>2 DEF BlockAt
<1> DEFINE F == [p \in Places |-> p]
<1>5. /\ \A q \in Places' : F[q] \in Places /\ BlockAt(F[q]) = BlockAt(q)'
      /\ \A p, q \in Places' : F[p] = F[q] => p = q
      /\ \A p \in Places : \E q \in Places' : F[q] = p
  BY <1>3, <1>4
<1> HIDE DEF F
<1> QED BY <1>5, Moved

\* The same after a step.
LEMMA PlaceNext ==
    \A p : p \in Places' <=> /\ p = <<p[1], p[2]>>
                             /\ p[1] \in -1 .. Len(frames') /\ p[2] \in 1 .. Len(Blocks(p[1])')
  BY DEF Places

\* The queue becomes the row of the current run, which was empty.
LEMMA RowDetached ==
    ASSUME BlocksOnce, posted' = posted, NEW N \in Nat \ {0}, Len(frames) = N, Len(frames') = N,
           Blocks(N) = <<>>, Blocks(N)' = Blocks(0), Blocks(0)' = <<>>,
           \A n \in -1 .. N : n = N \/ n = 0 \/ Blocks(n)' = Blocks(n)
    PROVE  BlocksOnce'
<1> DEFINE F == [q \in Places' |-> <<IF q[1] = N THEN 0 ELSE q[1], q[2]>>]
<1>1. 1 .. Len(<<>>) = {}
  OBVIOUS
<1>2. ASSUME NEW q \in Places'
      PROVE  \/ q[1] = N /\ F[q] = <<0, q[2]>> /\ q[2] \in 1 .. Len(Blocks(0))
             \/ q[1] # N /\ q[1] # 0 /\ F[q] = q /\ q \in Places /\ Blocks(q[1])' = Blocks(q[1])
  <2>1. q = <<q[1], q[2]>> /\ q[1] \in -1 .. N /\ q[2] \in 1 .. Len(Blocks(q[1])')
    BY PlaceNext
  <2>2. CASE q[1] = N
    BY <2>1, <2>2
  <2>3. CASE q[1] # N
    <3>1. q[1] # 0
      BY <1>1, <2>1
    <3>2. Blocks(q[1])' = Blocks(q[1])
      BY <2>1, <2>3, <3>1
    <3>3. q \in Places
      BY <2>1, <3>2, PlaceIs
    <3>4. F[q] = <<q[1], q[2]>>
      BY <2>3
    <3> QED BY <2>1, <2>3, <3>1, <3>2, <3>3, <3>4
  <2> QED BY <2>2, <2>3
<1>3. ASSUME NEW k \in 1 .. Len(Blocks(0)) PROVE <<0, k>> \in Places /\ <<N, k>> \in Places'
  BY PlaceIs, PlaceNext
<1>4. \A p \in Places : \E q \in Places' : F[q] = p
  <2> TAKE p \in Places
  <2>1. p = <<p[1], p[2]>> /\ p[1] \in -1 .. N /\ p[2] \in 1 .. Len(Blocks(p[1])) /\ p[1] # N
    BY <1>1, PlaceIs
  <2>2. CASE p[1] = 0
    <3>1. <<N, p[2]>> \in Places'
      BY <1>3, <2>1, <2>2
    <3>2. F[<<N, p[2]>>] = p
      BY <2>1, <2>2, <3>1
    <3> QED BY <3>1, <3>2
  <2>3. CASE p[1] # 0
    <3>1. Blocks(p[1])' = Blocks(p[1])
      BY <2>1, <2>3
    <3>2. p \in Places'
      BY <2>1, <3>1, PlaceNext
    <3>3. F[p] = p
      BY <2>1, <3>2
    <3> QED BY <3>2, <3>3
  <2> QED BY <2>2, <2>3
<1> HIDE DEF F
<1>5. \A q \in Places' : F[q] \in Places /\ BlockAt(F[q]) = BlockAt(q)'
  <2> TAKE q \in Places'
  <2>1. CASE q[1] = N /\ F[q] = <<0, q[2]>> /\ q[2] \in 1 .. Len(Blocks(0))
    <3>1. F[q] \in Places
      BY <1>3, <2>1
    <3>2. BlockAt(F[q]) = Blocks(0)[q[2]]
      BY <2>1 DEF BlockAt
    <3>3. BlockAt(q)' = Blocks(N)'[q[2]]
      BY <2>1 DEF BlockAt
    <3> QED BY <3>1, <3>2, <3>3
  <2>2. CASE F[q] = q /\ q \in Places /\ Blocks(q[1])' = Blocks(q[1])
    BY <2>2 DEF BlockAt
  <2> QED BY <1>2, <2>1, <2>2
<1>6. \A p, q \in Places' : F[p] = F[q] => p = q
  <2> TAKE p, q \in Places'
  <2>1. p = <<p[1], p[2]>> /\ q = <<q[1], q[2]>>
    BY PlaceNext
  <2>2. F[p] = <<IF p[1] = N THEN 0 ELSE p[1], p[2]>> /\ F[q] = <<IF q[1] = N THEN 0 ELSE q[1], q[2]>>
    BY <2>1, <1>2
  <2>3. (p[1] = N \/ p[1] # 0) /\ (q[1] = N \/ q[1] # 0)
    BY <1>2
  <2> QED BY <2>1, <2>2, <2>3
<1> QED BY <1>4, <1>5, <1>6, Moved

\* The row of the current run goes back in front of the queue.
LEMMA RowReattached ==
    ASSUME BlocksOnce, posted' = posted, NEW N \in Nat \ {0}, Len(frames) = N, Len(frames') = N,
           NEW L \in Nat, Len(Blocks(N)) = L, Len(Blocks(0)) \in Nat, Blocks(N)' = <<>>,
           Len(Blocks(0)') = L + Len(Blocks(0)),
           \A k \in 1 .. L + Len(Blocks(0)) :
             Blocks(0)'[k] = IF k <= L THEN Blocks(N)[k] ELSE Blocks(0)[k - L],
           \A n \in -1 .. N : n = N \/ n = 0 \/ Blocks(n)' = Blocks(n)
    PROVE  BlocksOnce'
<1> DEFINE F == [q \in Places' |-> IF q[1] # 0 THEN q
                                   ELSE IF q[2] <= L THEN <<N, q[2]>> ELSE <<0, q[2] - L>>]
<1>1. 1 .. Len(<<>>) = {}
  OBVIOUS
<1>2. ASSUME NEW q \in Places'
      PROVE  \/ q[1] # 0 /\ q[1] # N /\ F[q] = q /\ q \in Places /\ Blocks(q[1])' = Blocks(q[1])
             \/ /\ q[1] = 0 /\ q[2] \in 1 .. L /\ F[q] = <<N, q[2]>>
                /\ F[q] \in Places /\ Blocks(0)'[q[2]] = Blocks(N)[q[2]]
             \/ /\ q[1] = 0 /\ q[2] \in Int /\ q[2] - L \in 1 .. Len(Blocks(0)) /\ F[q] = <<0, q[2] - L>>
                /\ F[q] \in Places /\ Blocks(0)'[q[2]] = Blocks(0)[q[2] - L]
  <2>1. q = <<q[1], q[2]>> /\ q[1] \in -1 .. N /\ q[2] \in 1 .. Len(Blocks(q[1])')
    BY PlaceNext
  <2>2. CASE q[1] # 0
    <3>1. q[1] # N
      BY <1>1, <2>1
    <3>2. Blocks(q[1])' = Blocks(q[1])
      BY <2>1, <2>2, <3>1
    <3>3. q \in Places
      BY <2>1, <3>2, PlaceIs
    <3>4. F[q] = q
      BY <2>2
    <3> QED BY <2>2, <3>1, <3>2, <3>3, <3>4
  <2>3. CASE q[1] = 0 /\ q[2] <= L
    <3>1. q[2] \in 1 .. L /\ q[2] \in 1 .. L + Len(Blocks(0))
      BY <2>1, <2>3
    <3>2. F[q] = <<N, q[2]>>
      BY <2>3
    <3>3. <<N, q[2]>> \in Places
      BY <3>1, PlaceIs
    <3>4. Blocks(0)'[q[2]] = Blocks(N)[q[2]]
      BY <2>3, <3>1
    <3> QED BY <2>3, <3>1, <3>2, <3>3, <3>4
  <2>4. CASE q[1] = 0 /\ ~(q[2] <= L)
    <3>1. q[2] \in Int /\ q[2] - L \in 1 .. Len(Blocks(0)) /\ q[2] \in 1 .. L + Len(Blocks(0))
      BY <2>1, <2>4
    <3>2. F[q] = <<0, q[2] - L>>
      BY <2>4
    <3>3. <<0, q[2] - L>> \in Places
      <4> DEFINE j == q[2] - L
      <4>1. j \in 1 .. Len(Blocks(0)) /\ 0 \in -1 .. Len(frames)
        BY <3>1
      <4> HIDE DEF j
      <4>2. <<0, j>> \in Places
        BY <4>1, PlaceIs
      <4> QED BY <4>2 DEF j
    <3>4. Blocks(0)'[q[2]] = Blocks(0)[q[2] - L]
      BY <2>4, <3>1
    <3> QED BY <2>4, <3>1, <3>2, <3>3, <3>4
  <2> QED BY <2>2, <2>3, <2>4
<1>3. \A p \in Places : \E q \in Places' : F[q] = p
  <2> TAKE p \in Places
  <2>1. p = <<p[1], p[2]>> /\ p[1] \in -1 .. N /\ p[2] \in 1 .. Len(Blocks(p[1]))
    BY PlaceIs
  <2>2. CASE p[1] = 0
    <3>1. PICK k \in 1 .. Len(Blocks(0)') : ~(k <= L) /\ k - L = p[2]
      <4>1. p[2] \in 1 .. Len(Blocks(0))
        BY <2>1, <2>2
      <4> DEFINE j == p[2] + L
      <4>2. j \in 1 .. Len(Blocks(0)') /\ ~(j <= L) /\ j - L = p[2]
        BY <4>1
      <4> HIDE DEF j
      <4> QED BY <4>2
    <3>2. <<0, k>> \in Places'
      BY PlaceNext
    <3>3. F[<<0, k>>] = <<0, p[2]>>
      BY <3>1, <3>2
    <3> QED BY <2>1, <2>2, <3>2, <3>3
  <2>3. CASE p[1] = N
    <3>1. p[2] \in 1 .. Len(Blocks(0)') /\ p[2] <= L
      BY <2>1, <2>3
    <3>2. <<0, p[2]>> \in Places'
      BY <3>1, PlaceNext
    <3>3. F[<<0, p[2]>>] = <<N, p[2]>>
      BY <3>1, <3>2
    <3> QED BY <2>1, <2>3, <3>2, <3>3
  <2>4. CASE p[1] # 0 /\ p[1] # N
    <3>1. Blocks(p[1])' = Blocks(p[1])
      BY <2>1, <2>4
    <3>2. p \in Places'
      BY <2>1, <3>1, PlaceNext
    <3>3. F[p] = p
      BY <2>4, <3>2
    <3> QED BY <3>2, <3>3
  <2> QED BY <2>2, <2>3, <2>4
<1> HIDE DEF F
<1>4. \A q \in Places' : F[q] \in Places /\ BlockAt(F[q]) = BlockAt(q)'
  <2> TAKE q \in Places'
  <2>1. CASE F[q] = q /\ q \in Places /\ Blocks(q[1])' = Blocks(q[1])
    BY <2>1 DEF BlockAt
  <2>2. CASE q[1] = 0 /\ F[q] = <<N, q[2]>> /\ F[q] \in Places /\ Blocks(0)'[q[2]] = Blocks(N)[q[2]]
    BY <2>2 DEF BlockAt
  <2>3. CASE q[1] = 0 /\ F[q] = <<0, q[2] - L>> /\ F[q] \in Places /\ Blocks(0)'[q[2]] = Blocks(0)[q[2] - L]
    BY <2>3 DEF BlockAt
  <2> QED BY <1>2, <2>1, <2>2, <2>3
<1>5. ASSUME NEW p \in Places', NEW q \in Places', F[p] = F[q] PROVE p = q
  <2>1. p = <<p[1], p[2]>> /\ q = <<q[1], q[2]>>
    BY PlaceNext
  <2>2. \/ p[1] # 0 /\ p[1] # N /\ F[p] = p
        \/ p[1] = 0 /\ F[p] = <<N, p[2]>>
        \/ p[1] = 0 /\ p[2] \in Int /\ F[p] = <<0, p[2] - L>>
    BY <1>2
  <2>3. \/ q[1] # 0 /\ q[1] # N /\ F[q] = q
        \/ q[1] = 0 /\ F[q] = <<N, q[2]>>
        \/ q[1] = 0 /\ q[2] \in Int /\ F[q] = <<0, q[2] - L>>
    BY <1>2
  <2> QED BY <1>5, <2>1, <2>2, <2>3
<1> QED BY <1>3, <1>4, <1>5, Moved

\* The block at position m of the current run's row is called, and joins those that ran.
LEMMA RowCalled ==
    ASSUME BlocksOnce, posted' = posted, NEW N \in Nat \ {0}, Len(frames) = N, Len(frames') = N,
           NEW R \in Nat, Len(Blocks(-1)) = R, Len(Blocks(-1)') = R + 1,
           NEW m \in 1 .. Len(Blocks(N)), Blocks(-1)'[R + 1] = Blocks(N)[m],
           \A k \in 1 .. R : Blocks(-1)'[k] = Blocks(-1)[k],
           Len(Blocks(N)) \in Nat, Len(Blocks(N)') = Len(Blocks(N)) - 1,
           \A k \in 1 .. Len(Blocks(N)') : Blocks(N)'[k] = IF k < m THEN Blocks(N)[k] ELSE Blocks(N)[k + 1],
           \A n \in -1 .. N : n = N \/ n = -1 \/ Blocks(n)' = Blocks(n)
    PROVE  BlocksOnce'
<1> DEFINE F == [q \in Places' |-> IF q[1] = -1 /\ q[2] = R + 1 THEN <<N, m>>
                                   ELSE IF q[1] = N /\ ~(q[2] < m) THEN <<N, q[2] + 1>> ELSE q]
           Called(q) == q[1] = -1 /\ q[2] = R + 1 /\ F[q] = <<N, m>>
           Behind(q) == q[1] = N /\ q[2] \in Nat /\ ~(q[2] < m) /\ F[q] = <<N, q[2] + 1>>
           Stays(q) == F[q] = q /\ ~(q[1] = -1 /\ q[2] = R + 1) /\ ~(q[1] = N /\ ~(q[2] < m))
<1>1. ASSUME NEW q \in Places'
      PROVE  /\ F[q] \in Places /\ BlockAt(F[q]) = BlockAt(q)'
             /\ Called(q) \/ Behind(q) \/ Stays(q)
  <2>1. q = <<q[1], q[2]>> /\ q[1] \in -1 .. N /\ q[2] \in 1 .. Len(Blocks(q[1])')
    BY PlaceNext
  <2>2. CASE q[1] = -1 /\ q[2] = R + 1
    <3>1. F[q] = <<N, m>>
      BY <2>2
    <3>2. <<N, m>> \in Places
      BY PlaceIs
    <3>3. BlockAt(F[q]) = Blocks(N)[m]
      BY <3>1 DEF BlockAt
    <3>4. BlockAt(q)' = Blocks(-1)'[R + 1]
      BY <2>2 DEF BlockAt
    <3> QED BY <2>2, <3>1, <3>2, <3>3, <3>4
  <2>3. CASE q[1] = N /\ ~(q[2] < m)
    <3>1. F[q] = <<N, q[2] + 1>>
      BY <2>3
    <3>2. q[2] \in 1 .. Len(Blocks(N)') /\ q[2] + 1 \in 1 .. Len(Blocks(N)) /\ q[2] \in Nat
      BY <2>1, <2>3
    <3>3. <<N, q[2] + 1>> \in Places
      <4> DEFINE j == q[2] + 1
      <4>1. j \in 1 .. Len(Blocks(N)) /\ N \in -1 .. Len(frames)
        BY <3>2
      <4> HIDE DEF j
      <4>2. <<N, j>> \in Places
        BY <4>1, PlaceIs
      <4> QED BY <4>2 DEF j
    <3>4. BlockAt(F[q]) = Blocks(N)[q[2] + 1]
      BY <3>1 DEF BlockAt
    <3>5. BlockAt(q)' = Blocks(N)'[q[2]]
      BY <2>3 DEF BlockAt
    <3> QED BY <2>3, <3>1, <3>2, <3>3, <3>4, <3>5
  <2>4. CASE q[1] = N /\ q[2] < m
    <3>1. F[q] = q
      BY <2>4
    <3>2. q[2] \in 1 .. Len(Blocks(N)') /\ q[2] \in 1 .. Len(Blocks(N))
      BY <2>1, <2>4
    <3>3. q \in Places
      BY <2>1, <2>4, <3>2, PlaceIs
    <3>4. BlockAt(q) = Blocks(N)[q[2]] /\ BlockAt(q)' = Blocks(N)'[q[2]]
      BY <2>4 DEF BlockAt
    <3>5. Stays(q)
      BY <2>4, <3>1
    <3> QED BY <2>4, <3>1, <3>2, <3>3, <3>4, <3>5
  <2>5. CASE q[1] = -1 /\ q[2] # R + 1
    <3>1. F[q] = q
      BY <2>5
    <3>2. q[2] \in 1 .. R
      BY <2>1, <2>5
    <3>3. q \in Places
      BY <2>1, <2>5, <3>2, PlaceIs
    <3>4. BlockAt(q) = Blocks(-1)[q[2]] /\ BlockAt(q)' = Blocks(-1)'[q[2]]
      BY <2>5 DEF BlockAt
    <3>5. Stays(q)
      BY <2>5, <3>1
    <3> QED BY <2>5, <3>1, <3>2, <3>3, <3>4, <3>5
  <2>6. CASE q[1] # N /\ q[1] # -1
    <3>1. F[q] = q
      BY <2>6
    <3>2. Blocks(q[1])' = Blocks(q[1])
      BY <2>1, <2>6
    <3>3. q \in Places
      BY <2>1, <3>2, PlaceIs
    <3>4. BlockAt(q)' = BlockAt(q)
      BY <3>2 DEF BlockAt
    <3>5. Stays(q)
      BY <2>6, <3>1
    <3> QED BY <3>1, <3>3, <3>4, <3>5
  <2> QED BY <2>2, <2>3, <2>4, <2>5, <2>6
<1>2. \A p \in Places : \E q \in Places' : F[q] = p
  <2> TAKE p \in Places
  <2>1. p = <<p[1], p[2]>> /\ p[1] \in -1 .. N /\ p[2] \in 1 .. Len(Blocks(p[1]))
    BY PlaceIs
  <2>2. CASE p[1] = N /\ p[2] = m
    <3>1. <<-1, R + 1>> \in Places'
      <4>1. R + 1 \in 1 .. Len(Blocks(-1)') /\ -1 \in -1 .. N
        OBVIOUS
      <4> DEFINE k == R + 1
      <4>2. k \in 1 .. Len(Blocks(-1)')
        BY <4>1
      <4> HIDE DEF k
      <4>3. <<-1, k>> \in Places'
        BY <4>1, <4>2, PlaceNext
      <4> QED BY <4>3 DEF k
    <3>2. F[<<-1, R + 1>>] = <<N, m>>
      BY <3>1
    <3> QED BY <2>1, <2>2, <3>1, <3>2
  <2>3. CASE p[1] = N /\ p[2] < m
    <3>1. p[2] \in 1 .. Len(Blocks(N)')
      BY <2>1, <2>3
    <3>2. p \in Places'
      BY <2>1, <2>3, <3>1, PlaceNext
    <3>3. F[p] = p
      BY <2>3, <3>2
    <3> QED BY <3>2, <3>3
  <2>4. CASE p[1] = N /\ ~(p[2] < m) /\ p[2] # m
    <3>1. PICK k \in 1 .. Len(Blocks(N)') : ~(k < m) /\ k + 1 = p[2]
      <4> DEFINE j == p[2] - 1
      <4>1. j \in 1 .. Len(Blocks(N)') /\ ~(j < m) /\ j + 1 = p[2]
        BY <2>1, <2>4
      <4> HIDE DEF j
      <4> QED BY <4>1
    <3>2. <<N, k>> \in Places'
      <4>1. N \in -1 .. Len(frames')
        OBVIOUS
      <4> QED BY <4>1, PlaceNext
    <3>3. F[<<N, k>>] = <<N, k + 1>>
      BY <3>1, <3>2
    <3> QED BY <2>1, <2>4, <3>1, <3>2, <3>3
  <2>5. CASE p[1] = -1
    <3>1. p[2] \in 1 .. Len(Blocks(-1)') /\ p[2] # R + 1
      BY <2>1, <2>5
    <3>2. p \in Places'
      BY <2>1, <2>5, <3>1, PlaceNext
    <3>3. F[p] = p
      BY <2>5, <3>1, <3>2
    <3> QED BY <3>2, <3>3
  <2>6. CASE p[1] # N /\ p[1] # -1
    <3>1. Blocks(p[1])' = Blocks(p[1])
      BY <2>1, <2>6
    <3>2. p \in Places'
      BY <2>1, <3>1, PlaceNext
    <3>3. F[p] = p
      BY <2>6, <3>2
    <3> QED BY <3>2, <3>3
  <2> QED BY <2>2, <2>3, <2>4, <2>5, <2>6
<1> HIDE DEF F
<1>3. ASSUME NEW p \in Places', NEW q \in Places', F[p] = F[q] PROVE p = q
  <2>1. p = <<p[1], p[2]>> /\ q = <<q[1], q[2]>> /\ m \in Nat
    BY PlaceNext
  <2>2. p[1] = N => p[2] \in Nat
    BY PlaceNext
  <2>3. q[1] = N => q[2] \in Nat
    BY PlaceNext
  <2>4. Called(p) \/ Behind(p) \/ Stays(p)
    BY <1>1
  <2>5. Called(q) \/ Behind(q) \/ Stays(q)
    BY <1>1
  <2> QED BY <1>3, <2>1, <2>2, <2>3, <2>4, <2>5
<1>4. \A q \in Places' : F[q] \in Places /\ BlockAt(F[q]) = BlockAt(q)'
  BY <1>1
<1> QED BY <1>2, <1>3, <1>4, Moved

\* A block that was never queued joins the queue.
LEMMA RowPosted ==
    ASSUME BlocksOnce, Len(frames) \in Nat, Len(frames') = Len(frames), posted \in Seq(Block),
           NEW b \in Block, ~Queued(b), posted' = Append(posted, b),
           NEW Q \in Nat, Len(Blocks(0)) = Q, Len(Blocks(0)') = Q + 1, Blocks(0)'[Q + 1] = b,
           \A k \in 1 .. Q : Blocks(0)'[k] = Blocks(0)[k],
           \A n \in -1 .. Len(frames) : n = 0 \/ Blocks(n)' = Blocks(n)
    PROVE  BlocksOnce'
<1>1. <<0, Q + 1>> \in Places' /\ BlockAt(<<0, Q + 1>>)' = b
  <2> DEFINE k == Q + 1
  <2>1. k \in 1 .. Len(Blocks(0)') /\ Blocks(0)'[k] = b
    OBVIOUS
  <2> HIDE DEF k
  <2>2. <<0, k>> \in Places'
    <3>1. 0 \in -1 .. Len(frames')
      OBVIOUS
    <3> QED BY <2>1, <3>1, PlaceNext
  <2>3. BlockAt(<<0, k>>)' = Blocks(0)'[k]
    BY DEF BlockAt
  <2> QED BY <2>1, <2>2, <2>3 DEF k
<1>2. ASSUME NEW p \in Places PROVE p \in Places' /\ BlockAt(p)' = BlockAt(p)
  <2>1. p = <<p[1], p[2]>> /\ p[1] \in -1 .. Len(frames) /\ p[2] \in 1 .. Len(Blocks(p[1]))
    BY PlaceIs
  <2>2. CASE p[1] = 0
    <3>1. p[2] \in 1 .. Q /\ p[2] \in 1 .. Len(Blocks(0)')
      BY <2>1, <2>2
    <3>2. p \in Places'
      BY <2>1, <2>2, <3>1, PlaceNext
    <3>3. BlockAt(p)' = Blocks(0)'[p[2]] /\ BlockAt(p) = Blocks(0)[p[2]]
      BY <2>2 DEF BlockAt
    <3> QED BY <3>1, <3>2, <3>3
  <2>3. CASE p[1] # 0
    <3>1. Blocks(p[1])' = Blocks(p[1])
      BY <2>1, <2>3
    <3>2. p \in Places'
      BY <2>1, <3>1, PlaceNext
    <3> QED BY <3>1, <3>2 DEF BlockAt
  <2> QED BY <2>2, <2>3
<1>3. ASSUME NEW q \in Places' PROVE q \in Places \/ q = <<0, Q + 1>>
  <2>1. q = <<q[1], q[2]>> /\ q[1] \in -1 .. Len(frames) /\ q[2] \in 1 .. Len(Blocks(q[1])')
    BY PlaceNext
  <2>2. CASE q[1] = 0
    <3>1. q[2] \in 1 .. Q \/ q[2] = Q + 1
      BY <2>1, <2>2
    <3>2. q[2] \in 1 .. Q => q \in Places
      BY <2>1, <2>2, PlaceIs
    <3> QED BY <2>1, <2>2, <3>1, <3>2
  <2>3. CASE q[1] # 0
    <3>1. Blocks(q[1])' = Blocks(q[1])
      BY <2>1, <2>3
    <3> QED BY <2>1, <3>1, PlaceIs
  <2> QED BY <2>2, <2>3
<1>4. ASSUME NEW c \in Block PROVE Queued(c)' <=> Queued(c) \/ c = b
  <2>1. /\ Len(posted) \in Nat /\ Len(posted') = Len(posted) + 1 /\ posted'[Len(posted) + 1] = b
        /\ \A k \in 1 .. Len(posted) : posted'[k] = posted[k]
        /\ \A k \in 1 .. Len(posted') : k \in 1 .. Len(posted) \/ k = Len(posted) + 1
        /\ 1 .. Len(posted) \subseteq 1 .. Len(posted') /\ Len(posted) + 1 \in 1 .. Len(posted')
    OBVIOUS
  <2>2. Queued(c)' <=> \E k \in 1 .. Len(posted') : posted'[k] = c
    BY DEF Queued
  <2>3. Queued(c) <=> \E k \in 1 .. Len(posted) : posted[k] = c
    BY DEF Queued
  <2>4. ASSUME Queued(c) \/ c = b PROVE \E k \in 1 .. Len(posted') : posted'[k] = c
    BY <2>1, <2>3, <2>4
  <2>5. ASSUME NEW k \in 1 .. Len(posted'), posted'[k] = c PROVE Queued(c) \/ c = b
    BY <2>1, <2>3, <2>5
  <2> QED BY <2>2, <2>4, <2>5
<1>5. \A p \in Places : BlockAt(p) # b
  BY DEF BlocksOnce
<1>6. \A p, q \in Places' : BlockAt(p)' = BlockAt(q)' => p = q
  <2> TAKE p, q \in Places'
  <2>1. CASE p \in Places /\ q \in Places
    BY <1>2, <2>1 DEF BlocksOnce
  <2>2. CASE p \in Places /\ q = <<0, Q + 1>>
    BY <1>1, <1>2, <1>5, <2>2
  <2>3. CASE q \in Places /\ p = <<0, Q + 1>>
    BY <1>1, <1>2, <1>5, <2>3
  <2>4. CASE p = <<0, Q + 1>> /\ q = <<0, Q + 1>>
    BY <2>4
  <2> QED BY <1>3, <2>1, <2>2, <2>3, <2>4
<1>7. ASSUME NEW c \in Block PROVE Queued(c)' <=> \E q \in Places' : BlockAt(q)' = c
  <2>1. Queued(c) <=> \E p \in Places : BlockAt(p) = c
    BY DEF BlocksOnce
  <2>2. (\E q \in Places' : BlockAt(q)' = c) <=> (\E p \in Places : BlockAt(p) = c) \/ c = b
    BY <1>1, <1>2, <1>3
  <2> QED BY <1>4, <2>1, <2>2
<1> QED BY <1>6, <1>7 DEF BlocksOnce

-----------------------------------------------------------------------------
(* The steps, and the places.                                              *)

\* The rows after a step.
LEMMA RowsNext ==
    /\ Blocks(-1)' = ran' /\ Blocks(0)' = queue'
    /\ \A n \in Nat \ {0} : Blocks(n)' = frames'[n].kept \o frames'[n].list
<1>1. Blocks(-1)' = ran' /\ Blocks(0)' = queue'
  BY DEF Blocks
<1>2. ASSUME NEW n \in Nat \ {0} PROVE Blocks(n)' = frames'[n].kept \o frames'[n].list
  <2>1. n # -1 /\ n # 0
    OBVIOUS
  <2> QED BY <2>1, Zenon DEF Blocks
<1> QED BY <1>1, <1>2

\* A step of the loop that is not the end of a run changes three rows at most.
LEMMA TopRow ==
    ASSUME Typed, LoopStep, ~Leave, NEW N, N = Len(frames)
    PROVE  /\ N \in Nat \ {0} /\ Len(frames') = N
           /\ Blocks(-1) = ran /\ Blocks(0) = queue /\ Blocks(N) = top.kept \o top.list
           /\ Blocks(-1)' = ran' /\ Blocks(0)' = queue' /\ Blocks(N)' = top'.kept \o top'.list
           /\ \A n \in -1 .. N : n \in {-1, 0, N} \/ Blocks(n)' = Blocks(n)
<1>1. /\ N \in Nat \ {0} /\ Len(frames') = N
      /\ \A n \in 1 .. N - 1 : frames'[n] = frames[n]
      /\ frames'[N] = top' /\ frames[N] = top
  <2>1. frames[N] = top
    BY DEF top
  <2> QED BY <2>1, TopStep
<1>2. Blocks(N) = top.kept \o top.list /\ Blocks(N)' = top'.kept \o top'.list
  BY <1>1, Rows, RowsNext
<1>3. ASSUME NEW n \in -1 .. N PROVE n \in {-1, 0, N} \/ Blocks(n)' = Blocks(n)
  <2>1. n \in {-1, 0, N} \/ (n \in 1 .. N - 1 /\ n \in Nat \ {0})
    BY <1>1
  <2>2. ASSUME n \in 1 .. N - 1, n \in Nat \ {0} PROVE Blocks(n)' = Blocks(n)
    BY <1>1, <2>2, Rows, RowsNext
  <2> QED BY <2>1, <2>2
<1> QED BY <1>1, <1>2, <1>3, Rows, RowsNext

\* It changes the current run only.
LEMMA TopHolds ==
    ASSUME Typed, HoldingInv, LoopStep, ~Leave
    PROVE  Holding(top) /\ (Holding(top)' => HoldingInv')
<1>1. Holding(top)
  <2>1. Len(frames) \in Nat \ {0}
    BY TopStep
  <2>2. Len(frames) \in 1 .. Len(frames)
    BY <2>1
  <2> QED BY <2>2 DEF HoldingInv, top
<1>2. ASSUME Holding(top)' PROVE HoldingInv'
  <2>1. \A n \in 1 .. Len(frames') : n \in 1 .. Len(frames) - 1 \/ n = Len(frames)
    BY TopStep
  <2>2. \A n \in 1 .. Len(frames') : Holding(frames[n])'
    BY <1>2, <2>1, TopStep DEF HoldingInv, Holding
  <2> QED BY <2>2 DEF HoldingInv
<1> QED BY <1>1, <1>2

\* The steps of a run: a list is taken off the queue, its blocks are called one by one, and what is
\* left goes back; no other step touches a row.
LEMMA LoopPlaces ==
    ASSUME Typed, Callers, HoldingInv, BlocksOnce, LoopStep, ~Leave
    PROVE  HoldingInv' /\ BlocksOnce'
<1> DEFINE N == Len(frames)
<1>1. /\ Running /\ top \in Frame /\ \A g : SetTop(g) => top' = g
      /\ Holding(top) /\ (Holding(top)' => HoldingInv')
  BY TopStep, TopHolds
<1>2. /\ N \in Nat \ {0} /\ Len(frames) = N /\ Len(frames') = N
      /\ Blocks(-1) = ran /\ Blocks(0) = queue /\ Blocks(N) = top.kept \o top.list
      /\ Blocks(-1)' = ran' /\ Blocks(0)' = queue'
      /\ \A n \in -1 .. N : n \in {-1, 0, N} \/ Blocks(n)' = Blocks(n)
  BY TopRow
<1>3. PICK M \in Nat \ {0} : M = N
  BY <1>2
<1>4. Blocks(M)' = top'.kept \o top'.list
  BY <1>3, TopRow
<1> HIDE DEF N
<1>5. /\ top.kept \in Seq(Block) /\ top.list \in Seq(Block) /\ queue \in Seq(Block) /\ ran \in Seq(Block)
      /\ BlockStep = [blocks1 |-> "sources0", blocks2 |-> "dispatch", blocks3 |-> "decide"]
  BY <1>1 DEF Frame, Typed, Callers, BlockStep
<1>6. ASSUME posted' = posted, ran' = ran, queue' = queue, top'.kept = top.kept, top'.list = top.list
      PROVE  BlocksOnce'
  <2>1. \A n \in -1 .. N : Blocks(n)' = Blocks(n)
    BY <1>2, <1>3, <1>4, <1>6
  <2> QED BY <1>2, <1>6, <2>1, SameRows
<1>7. CASE ~BlocksStep
  <2>1. /\ UNCHANGED <<queue, posted, ran>>
        /\ top'.kept = top.kept /\ top'.list = top.list /\ top'.drain = top.drain
        /\ top.pc \in DOMAIN BlockStep => top'.pc = top.pc
    BY <1>7, NoBlocks
  <2>2. Holding(top)'
    BY <1>1, <2>1 DEF Holding, BlockStep
  <2> QED BY <1>1, <1>6, <2>1, <2>2
<1>8. ASSUME NEW where \in DOMAIN BlockStep, Detach(where) PROVE HoldingInv' /\ BlocksOnce'
  <2>1. /\ ~top.drain /\ queue' = <<>> /\ posted' = posted /\ ran' = ran /\ top.pc = where
        /\ \/ queue = <<>> /\ top' = [top EXCEPT !.pc = BlockStep[where]]
           \/ top' = [top EXCEPT !.drain = TRUE, !.list = queue]
    BY <1>1, <1>8 DEF Detach, At
  <2>2. top.kept = <<>> /\ top.list = <<>>
    BY <1>1, <2>1 DEF Holding
  <2>3. CASE queue = <<>> /\ top' = [top EXCEPT !.pc = BlockStep[where]]
    <3>1. top'.kept = top.kept /\ top'.list = top.list /\ top'.drain = top.drain
      BY <1>1, <2>3 DEF Frame
    <3>2. Holding(top)'
      BY <2>1, <2>2, <3>1 DEF Holding
    <3> QED BY <1>1, <1>6, <2>1, <2>3, <3>1, <3>2
  <2>4. CASE top' = [top EXCEPT !.drain = TRUE, !.list = queue]
    <3>1. top'.kept = <<>> /\ top'.list = queue /\ top'.drain /\ top'.pc = where
      BY <1>1, <2>1, <2>2, <2>4 DEF Frame
    <3>2. Holding(top)'
      BY <1>8, <3>1 DEF Holding, BlockStep
    <3>3. <<>> \o <<>> = <<>> /\ <<>> \o queue = queue
      <4>1. <<>> \in Seq(Block)
        OBVIOUS
      <4> QED BY <1>5, <4>1, ConcatEmptySeq
    <3>4. Blocks(M) = <<>> /\ Blocks(M)' = Blocks(0) /\ Blocks(0)' = <<>>
      BY <1>2, <1>3, <1>4, <2>1, <2>2, <3>1, <3>3
    <3>5. \A n \in -1 .. M : n = M \/ n = 0 \/ Blocks(n)' = Blocks(n)
      BY <1>2, <1>3, <2>1
    <3>6. BlocksOnce'
      BY <1>2, <1>3, <2>1, <3>4, <3>5, RowDetached
    <3> QED BY <1>1, <3>2, <3>6
  <2> QED BY <2>1, <2>3, <2>4
<1>9. ASSUME NEW where \in DOMAIN BlockStep, CallBlock(where) PROVE HoldingInv' /\ BlocksOnce'
  <2>1. PICK n \in Runnable(top) :
          /\ top.drain /\ queue' = queue /\ posted' = posted /\ ran' = Append(ran, top.list[n])
          /\ top' = [top EXCEPT !.callout = top.list[n],
                       !.kept = @ \o SubSeq(top.list, 1, n - 1),
                       !.list = SubSeq(top.list, n + 1, Len(top.list))]
    BY <1>1, <1>9 DEF CallBlock, At
  <2> DEFINE a == top.kept
             l == top.list
             rest == (a \o SubSeq(l, 1, n - 1)) \o SubSeq(l, n + 1, Len(l))
  <2>2. a \in Seq(Block) /\ l \in Seq(Block) /\ n \in 1 .. Len(l) /\ l[n] \in Block
    BY <1>5, <2>1 DEF Runnable
  <2>3. /\ top'.kept = a \o SubSeq(l, 1, n - 1) /\ top'.list = SubSeq(l, n + 1, Len(l))
        /\ top'.drain = top.drain /\ top'.pc = top.pc
    BY <1>1, <2>1 DEF Frame
  <2>4. Holding(top)'
    BY <1>1, <2>1, <2>3 DEF Holding, BlockStep
  <2>5. Blocks(M) = a \o l /\ Blocks(M)' = rest
    BY <1>2, <1>3, <1>4, <2>3
  <2>6. a \o l \o <<>> = a \o l /\ rest \o <<>> = rest
    <3>1. a \o l \in Seq(Block)
      BY <2>2, ConcatProperties
    <3>2. SubSeq(l, 1, n - 1) \in Seq(Block) /\ SubSeq(l, n + 1, Len(l)) \in Seq(Block)
      BY <2>2
    <3>3. rest \in Seq(Block)
      BY <2>2, <3>2, ConcatProperties
    <3> QED BY <3>1, <3>3, ConcatEmptySeq
  <2>7. IsWithout(rest, a \o l, a, l, n)
    <3>1. <<>> \in Seq(Block)
      OBVIOUS
    <3>2. IsWithout((a \o SubSeq(l, 1, n - 1)) \o SubSeq(l, n + 1, Len(l)) \o <<>>, a \o l \o <<>>, a, l, n)
      BY <2>2, <3>1, TakenOut
    <3> QED BY <2>6, <3>2
  <2>8. PICK m \in 1 .. Len(Blocks(M)) :
          /\ Blocks(M)[m] = l[n] /\ Len(Blocks(M)) \in Nat /\ Len(Blocks(M)') = Len(Blocks(M)) - 1
          /\ \A k \in 1 .. Len(Blocks(M)') :
               Blocks(M)'[k] = IF k < m THEN Blocks(M)[k] ELSE Blocks(M)[k + 1]
    <3> HIDE DEF rest
    <3>1. IsWithout(Blocks(M)', Blocks(M), a, l, n)
      BY <2>5, <2>7
    <3> QED BY <3>1 DEF IsWithout
  <2>9. /\ Len(ran) \in Nat /\ Len(ran') = Len(ran) + 1 /\ ran'[Len(ran) + 1] = l[n]
        /\ \A k \in 1 .. Len(ran) : ran'[k] = ran[k]
    BY <1>5, <2>1, <2>2
  <2>10. \A k \in -1 .. M : k = M \/ k = -1 \/ Blocks(k)' = Blocks(k)
    BY <1>2, <1>3, <2>1
  <2> HIDE DEF a, l, rest
  <2>11. BlocksOnce'
    <3>1. PICK R \in Nat : R = Len(ran)
      BY <2>9
    <3>2. /\ Len(Blocks(-1)) = R /\ Len(Blocks(-1)') = R + 1 /\ Blocks(-1)'[R + 1] = Blocks(M)[m]
          /\ \A k \in 1 .. R : Blocks(-1)'[k] = Blocks(-1)[k]
      BY <1>2, <2>8, <2>9, <3>1
    <3>3. Len(frames) = M /\ Len(frames') = M /\ posted' = posted
      BY <1>2, <1>3, <2>1
    <3> QED BY <2>8, <2>10, <3>2, <3>3, RowCalled
  <2> QED BY <1>1, <2>4, <2>11
<1>10. ASSUME NEW where \in DOMAIN BlockStep, Reattach(where) PROVE HoldingInv' /\ BlocksOnce'
  <2>1. /\ queue' = top.kept \o top.list \o queue /\ posted' = posted /\ ran' = ran
        /\ top' = [top EXCEPT !.pc = BlockStep[where], !.drain = FALSE, !.list = <<>>, !.kept = <<>>]
    BY <1>1, <1>10 DEF Reattach, Reattached, At
  <2>2. top'.kept = <<>> /\ top'.list = <<>> /\ top'.drain = FALSE
    BY <1>1, <2>1 DEF Frame
  <2>3. Holding(top)'
    BY <2>2 DEF Holding
  <2> DEFINE r == top.kept \o top.list
  <2>4. r \in Seq(Block) /\ Blocks(M) = r /\ Blocks(0)' = r \o queue
    BY <1>2, <1>3, <1>5, <2>1, ConcatProperties
  <2> HIDE DEF r
  <2>5. Blocks(M)' = <<>>
    <3>1. <<>> \in Seq(Block)
      OBVIOUS
    <3>2. <<>> \o <<>> = <<>>
      BY <3>1, ConcatEmptySeq
    <3> QED BY <1>4, <2>2, <3>2
  <2>6. /\ Len(r) \in Nat /\ Len(queue) \in Nat /\ Len(r \o queue) = Len(r) + Len(queue)
        /\ \A k \in 1 .. Len(r) + Len(queue) :
             (r \o queue)[k] = IF k <= Len(r) THEN r[k] ELSE queue[k - Len(r)]
    BY <1>5, <2>4, ConcatProperties
  <2>7. \A n \in -1 .. M : n = M \/ n = 0 \/ Blocks(n)' = Blocks(n)
    BY <1>2, <1>3, <2>1
  <2>8. BlocksOnce'
    <3>1. PICK L \in Nat : L = Len(r)
      BY <2>6
    <3>2. /\ Len(Blocks(M)) = L /\ Len(Blocks(0)) \in Nat /\ Len(Blocks(0)') = L + Len(Blocks(0))
          /\ \A k \in 1 .. L + Len(Blocks(0)) :
               Blocks(0)'[k] = IF k <= L THEN Blocks(M)[k] ELSE Blocks(0)[k - L]
      BY <1>2, <2>4, <2>6, <3>1
    <3>3. Len(frames) = M /\ Len(frames') = M /\ posted' = posted
      BY <1>2, <1>3, <2>1
    <3> QED BY <2>5, <2>7, <3>2, <3>3, RowReattached
  <2> QED BY <1>1, <2>3, <2>8
<1> QED BY <1>7, <1>8, <1>9, <1>10 DEF BlocksStep

\* The run that ends has drained its list: its row is empty.
LEMMA LeavePlaces ==
    ASSUME Typed, HoldingInv, BlocksOnce, Leave
    PROVE  HoldingInv' /\ BlocksOnce'
<1>1. frames \in Seq(Frame) /\ frames # <<>> /\ frames' = SubSeq(frames, 1, Len(frames) - 1)
      /\ top.pc = "gone" /\ UNCHANGED <<queue, posted, ran>>
  BY DEF Typed, FramesOK, Leave, At, Running, shared
<1>2. /\ Len(frames) \in Nat \ {0} /\ Len(frames') = Len(frames) - 1
      /\ \A n \in 1 .. Len(frames) - 1 : frames'[n] = frames[n]
  BY <1>1, ButLast
<1>3. HoldingInv'
  <2>1. \A n \in 1 .. Len(frames') : n \in 1 .. Len(frames) /\ n \in 1 .. Len(frames) - 1
    BY <1>2
  <2> QED BY <1>2, <2>1 DEF HoldingInv, Holding
<1>4. Blocks(Len(frames)) = <<>>
  <2>1. Holding(top)
    BY <1>2 DEF HoldingInv, top
  <2>2. top.kept = <<>> /\ top.list = <<>>
    BY <1>1, <2>1 DEF Holding, BlockStep
  <2>3. <<>> \in Seq(Block)
    OBVIOUS
  <2>4. <<>> \o <<>> = <<>>
    BY <2>3, ConcatEmptySeq
  <2> QED BY <1>2, <2>2, <2>4, Rows DEF top
<1>5. ASSUME NEW n \in -1 .. Len(frames) - 1 PROVE Blocks(n)' = Blocks(n)
  <2>1. n \in {-1, 0} \/ (n \in 1 .. Len(frames) - 1 /\ n \in Nat \ {0})
    BY <1>2
  <2> QED BY <1>1, <1>2, <2>1, Rows, RowsNext
<1>6. \A n \in -1 .. Len(frames) : \/ n <= Len(frames') /\ Blocks(n)' = Blocks(n)
                                   \/ Blocks(n) = <<>>
  <2> TAKE n \in -1 .. Len(frames)
  <2>1. (n \in -1 .. Len(frames) - 1 /\ n <= Len(frames')) \/ n = Len(frames)
    BY <1>2
  <2> QED BY <1>4, <1>5, <2>1
<1>7. \A n \in -1 .. Len(frames') : n <= Len(frames) /\ Blocks(n)' = Blocks(n)
  <2> TAKE n \in -1 .. Len(frames')
  <2>1. n \in -1 .. Len(frames) - 1 /\ n <= Len(frames)
    BY <1>2
  <2> QED BY <1>5, <2>1
<1>8. Len(frames) \in Nat /\ Len(frames') \in Nat
  BY <1>2
<1> QED BY <1>1, <1>3, <1>6, <1>7, <1>8, SameRows

\* A new run holds nothing; the one it interrupts keeps what it has detached.
LEMMA EnterPlaces ==
    ASSUME Typed, HoldingInv, BlocksOnce, NEW m, NEW st, NEW d, Enter(m, st, d)
    PROVE  HoldingInv' /\ BlocksOnce'
<1> DEFINE new == NewFrame(m, st, d)
<1>1. frames \in Seq(Frame) /\ frames' = Append(frames, new) /\ UNCHANGED <<queue, posted, ran>>
  BY DEF Typed, FramesOK, Enter, shared
<1>2. new.drain = FALSE /\ new.kept = <<>> /\ new.list = <<>>
  BY DEF NewFrame
<1> HIDE DEF new
<1>3. /\ Len(frames) \in Nat /\ Len(frames') = Len(frames) + 1 /\ frames'[Len(frames) + 1] = new
      /\ \A n \in 1 .. Len(frames) : frames'[n] = frames[n]
  BY <1>1
<1>4. HoldingInv'
  <2>1. \A n \in 1 .. Len(frames') : n = Len(frames) + 1 \/ n \in 1 .. Len(frames)
    BY <1>3
  <2> QED BY <1>2, <1>3, <2>1 DEF HoldingInv, Holding
<1>5. PICK k \in Nat \ {0} : k = Len(frames) + 1
  BY <1>3
<1>6. Blocks(k)' = <<>>
  <2>1. <<>> \in Seq(Block)
    OBVIOUS
  <2>2. <<>> \o <<>> = <<>>
    BY <2>1, ConcatEmptySeq
  <2> QED BY <1>2, <1>3, <1>5, <2>2, RowsNext
<1>7. ASSUME NEW n \in -1 .. Len(frames) PROVE Blocks(n)' = Blocks(n)
  <2>1. n \in {-1, 0} \/ (n \in 1 .. Len(frames) /\ n \in Nat \ {0})
    BY <1>3
  <2> QED BY <1>1, <1>3, <2>1, Rows, RowsNext
<1>8. \A n \in -1 .. Len(frames) : n <= Len(frames') /\ Blocks(n)' = Blocks(n)
  <2> TAKE n \in -1 .. Len(frames)
  <2>1. n <= Len(frames')
    BY <1>3
  <2> QED BY <1>7, <2>1
<1>9. \A n \in -1 .. Len(frames') : \/ n <= Len(frames) /\ Blocks(n)' = Blocks(n)
                                    \/ Blocks(n)' = <<>>
  <2> TAKE n \in -1 .. Len(frames')
  <2>1. (n \in -1 .. Len(frames) /\ n <= Len(frames)) \/ n = k
    BY <1>3, <1>5
  <2> QED BY <1>6, <1>7, <2>1
<1>10. Len(frames') \in Nat
  BY <1>3
<1> QED BY <1>1, <1>3, <1>4, <1>8, <1>9, <1>10, SameRows

\* Calls leave the rows alone, but for a block that joins the queue.
LEMMA CallPlaces ==
    ASSUME Typed, Callers, HoldingInv, BlocksOnce, UNCHANGED <<queue, posted, ran>>,
           Len(frames') = Len(frames),
           \A n \in 1 .. Len(frames) :
             /\ frames'[n].kept = frames[n].kept /\ frames'[n].list = frames[n].list
             /\ frames'[n].drain = frames[n].drain /\ frames'[n].pc = frames[n].pc
    PROVE  HoldingInv' /\ BlocksOnce'
<1>1. Len(frames) \in Nat
  BY DEF Typed, FramesOK
<1>2. HoldingInv'
  BY DEF HoldingInv, Holding
<1>3. ASSUME NEW n \in -1 .. Len(frames) PROVE n <= Len(frames) /\ Blocks(n)' = Blocks(n)
  <2>1. n <= Len(frames) /\ (n \in {-1, 0} \/ (n \in 1 .. Len(frames) /\ n \in Nat \ {0}))
    BY <1>1
  <2> QED BY <2>1, Rows, RowsNext
<1> QED BY <1>1, <1>2, <1>3, SameRows

\* A call that sets a bit or the field of a run leaves the rows alone; CFRunLoopPerformBlock adds to one.
LEMMA ClientPlaces ==
    ASSUME Typed, Callers, HoldingInv, BlocksOnce, NEW c \in Client, ClientStep(c)
    PROVE  HoldingInv' /\ BlocksOnce'
<1> USE DEF shared
<1>1. frames \in Seq(Frame) /\ Len(frames) \in Nat
  BY DEF Typed, FramesOK
<1>2. CASE Finishing(c)
  BY <1>2, CallPlaces DEF Finishing, WakeUp, RemoveFromModes
<1>3. ASSUME NEW n \in 1 .. Len(frames), NEW g, frames' = [frames EXCEPT ![n] = g],
             UNCHANGED <<queue, posted, ran>>, g.kept = frames[n].kept, g.list = frames[n].list,
             g.drain = frames[n].drain, g.pc = frames[n].pc
      PROVE  HoldingInv' /\ BlocksOnce'
  <2>1. Len(frames') = Len(frames) /\ \A k \in 1 .. Len(frames) : frames'[k] = IF k = n THEN g ELSE frames[k]
    BY <1>1, <1>3
  <2> QED BY <1>3, <2>1, CallPlaces
<1>4. CASE Stop(c)
  <2>1. Running /\ UNCHANGED <<queue, posted, ran>> /\ SetTop([top EXCEPT !.stopped = TRUE])
    BY <1>4 DEF Stop
  <2>2. top \in Frame /\ Len(frames) \in Nat \ {0}
    BY <2>1, TopIsFrame DEF Typed
  <2> DEFINE g == [top EXCEPT !.stopped = TRUE]
  <2>3. g.kept = top.kept /\ g.list = top.list /\ g.drain = top.drain /\ g.pc = top.pc
    BY <2>2 DEF Frame
  <2> HIDE DEF g
  <2>4. Len(frames) \in 1 .. Len(frames) /\ frames' = [frames EXCEPT ![Len(frames)] = g]
    BY <2>1, <2>2 DEF SetTop, g
  <2>5. /\ g.kept = frames[Len(frames)].kept /\ g.list = frames[Len(frames)].list
        /\ g.drain = frames[Len(frames)].drain /\ g.pc = frames[Len(frames)].pc
    BY <2>3 DEF top
  <2> QED BY <1>3, <2>1, <2>4, <2>5
<1>5. ASSUME NEW s \in Source, Signal(c, s) \/ Invalidate(c, s) PROVE HoldingInv' /\ BlocksOnce'
  BY <1>5, CallPlaces DEF Signal, Invalidate
<1>6. ASSUME NEW b \in Block, PerformBlock(c, b) PROVE HoldingInv' /\ BlocksOnce'
  <2>1. /\ frames' = frames /\ ran' = ran /\ queue' = Append(queue, b)
        /\ posted' = Append(posted, b) /\ ~Queued(b)
    BY <1>6 DEF PerformBlock, Queued
  <2>2. HoldingInv'
    BY <2>1 DEF HoldingInv, Holding
  <2>3. posted \in Seq(Block) /\ queue \in Seq(Block)
    BY DEF Callers, Typed
  <2>4. PICK Q \in Nat : Q = Len(queue)
    BY <2>3
  <2>5. /\ Len(Blocks(0)) = Q /\ Len(Blocks(0)') = Q + 1 /\ Blocks(0)'[Q + 1] = b
        /\ \A k \in 1 .. Q : Blocks(0)'[k] = Blocks(0)[k]
    <3>1. Blocks(0) = queue /\ Blocks(0)' = Append(queue, b)
      BY <2>1, Rows, RowsNext
    <3> QED BY <2>3, <2>4, <3>1
  <2>6. \A n \in -1 .. Len(frames) : n = 0 \/ Blocks(n)' = Blocks(n)
    <3> TAKE n \in -1 .. Len(frames)
    <3>1. n \in {-1, 0} \/ n \in Nat \ {0}
      BY <1>1
    <3> QED BY <2>1, <3>1, Rows, RowsNext
  <2>7. BlocksOnce'
    BY <1>1, <2>1, <2>3, <2>5, <2>6, RowPosted
  <2> QED BY <2>2, <2>7
<1>7. ASSUME NEW m \in Mode, StopMode(c, m) PROVE HoldingInv' /\ BlocksOnce'
  BY <1>7, CallPlaces DEF StopMode
<1>8. ASSUME NEW n \in 1 .. Depth, Timeout(c, n) PROVE HoldingInv' /\ BlocksOnce'
  <2>1. n \in 1 .. Len(frames) /\ UNCHANGED <<queue, posted, ran>>
    BY <1>8 DEF Timeout
  <2>2. frames[n] \in Frame
    BY <1>1, <2>1
  <2> DEFINE g == [frames[n] EXCEPT !.deadline = "passed"]
  <2>3. g.kept = frames[n].kept /\ g.list = frames[n].list /\ g.drain = frames[n].drain
        /\ g.pc = frames[n].pc
    BY <2>2 DEF Frame
  <2>4. frames' = [frames EXCEPT ![n] = g]
    BY <1>8 DEF Timeout
  <2> HIDE DEF g
  <2> QED BY <1>3, <2>1, <2>3, <2>4
<1> QED BY <1>2, <1>4, <1>5, <1>6, <1>7, <1>8 DEF ClientStep

\* Every step keeps every block in its place or moves it to one other.
LEMMA NextPlaces == LoopInv /\ HoldingInv /\ BlocksOnce /\ [Next]_vars => HoldingInv' /\ BlocksOnce'
<1> SUFFICES ASSUME LoopInv, HoldingInv, BlocksOnce, [Next]_vars PROVE HoldingInv' /\ BlocksOnce'
  OBVIOUS
<1>1. Typed /\ Callers
  BY DEF LoopInv
<1>2. ASSUME NEW run \in Runs, NEW d \in Deadline, Enter(run[1], run[2], d) PROVE HoldingInv' /\ BlocksOnce'
  BY <1>1, <1>2, EnterPlaces
<1>3. CASE LoopStep
  BY <1>1, <1>3, LoopPlaces, LeavePlaces
<1>4. ASSUME NEW c \in Client, ClientStep(c) PROVE HoldingInv' /\ BlocksOnce'
  BY <1>1, <1>4, ClientPlaces
<1>5. ASSUME NEW p \in Port, Send(p) PROVE HoldingInv' /\ BlocksOnce'
  BY <1>1, <1>5, CallPlaces DEF Send
<1>6. CASE UNCHANGED vars
  BY <1>1, <1>6, CallPlaces DEF vars
<1> QED BY <1>2, <1>3, <1>4, <1>5, <1>6 DEF Next

\* CFRunLoopPerformBlock, __CFRunLoopDoBlocks: a block that was queued is in exactly one place, in the
\* queue, on the list that one run has detached, or among those that ran, whatever callouts run the
\* loop again, in whatever mode, and queue blocks meanwhile: none is lost and none runs twice.
THEOREM BlocksInOnePlace == Spec => []BlocksOnce
<1>1. Init => HoldingInv /\ BlocksOnce
  <2> SUFFICES ASSUME Init PROVE HoldingInv /\ BlocksOnce
    OBVIOUS
  <2>1. frames = <<>> /\ queue = <<>> /\ ran = <<>> /\ posted = <<>> /\ Len(frames) = 0
        /\ 1 .. Len(frames) = {} /\ 1 .. Len(<<>>) = {}
    BY DEF Init
  <2>2. HoldingInv
    BY <2>1 DEF HoldingInv
  <2>3. \A n \in -1 .. Len(frames) : Blocks(n) = <<>>
    BY <2>1, Rows
  <2>4. \A p : p \notin Places
    BY <2>1, <2>3, PlaceIs
  <2>5. \A b : ~Queued(b)
    BY <2>1 DEF Queued
  <2> QED BY <2>2, <2>4, <2>5 DEF BlocksOnce
<1> QED BY LoopInvariance, NextPlaces, <1>1, PTL DEF Spec
=============================================================================
