------------------------ MODULE RunLoopRegistryProofs ------------------------
(***************************************************************************)
(* RunLoopRegistry for any number of threads, loops and rounds of          *)
(* destructors: who asks for the loop of a thread gets the same one, and   *)
(* a loop its thread had in time is destroyed with it.                     *)
(*                                                                         *)
(* The heart of the argument is the counter: in round r it is never below  *)
(* Iterations - r, so it does not reach 1 before the last round, and for a *)
(* loop that was there in time it is exactly that, so it does then.        *)
(***************************************************************************)
EXTENDS RunLoopRegistry, TLAPS

\* A thread ends by rounds; in the last one its loop is let go.
LifeOK == \A t \in Thread :
    /\ life[t].slot = "running" => life[t].round = 0
    /\ life[t].slot \in {"below", "above"} => life[t].round \in 1..LastRound
    /\ life[t].slot \in {"purge", "after"} => life[t].round = LastRound
    /\ life[t].slot = "purge" <=> pc[t].at = "purge"

\* The counter never comes to 1 before the last round.
CounterOK == \A t \in Thread : cntr[t] # 0 =>
    /\ life[t].slot = "running" => cntr[t] = Iterations - 1
    /\ life[t].slot = "below" => cntr[t] >= Iterations - life[t].round
    /\ life[t].slot = "above" /\ life[t].round < LastRound
          => cntr[t] >= Iterations - life[t].round - 1

\* A call knows for whom it is made, and has a loop in hand from some step on.
CallsOK == \A u \in Thread :
    /\ pc[u].at # "idle" => pc[u].who \in Thread
    /\ pc[u].at = "idle" => pc[u] = Idle
    /\ pc[u].at \in {"swap", "insert", "note", "purge"} => pc[u].loop \in 1..born
    /\ pc[u].at \in {"make", "insert", "note", "purge"} => made
    /\ pc[u].at = "purge" => pc[u].who = u

\* A loop that has been made and not yet put into the dictionary is its maker's.
New(u) == pc[u].at \in {"swap", "insert"}
NewOK ==
    /\ \A u \in Thread : New(u) => /\ refs[pc[u].loop] = {u}
                                   /\ \A t \in Thread : dict[t] # pc[u].loop
    /\ \A u, v \in Thread : New(u) /\ (New(v) \/ pc[v].at = "purge") /\ u # v
          => pc[u].loop # pc[v].loop

\* The dictionary owns what is in it, with the sources only, under one key.
DictOK ==
    /\ ~made => \A t \in Thread : dict[t] = None
    /\ \A t \in Thread : dict[t] # None =>
          /\ dict[t] \in 1..born
          /\ "dict" \in refs[dict[t]] /\ refs[dict[t]] \subseteq {"dict", "source"}
    /\ \A s, t \in Thread : s # t /\ dict[t] # None => dict[s] # dict[t]

\* What a call, a thread's slot or a caller has is what the dictionary holds.
SlotOK ==
    /\ \A t \in Thread : ~Finalized(t) => \A l \in got[t] : dict[t] = l
    /\ \A t \in Thread : ~Finalized(t) /\ slot[t] # None => dict[t] = slot[t]
    /\ \A u \in Thread : pc[u].at = "note" /\ ~Finalized(pc[u].who)
          => dict[pc[u].who] = pc[u].loop

\* Until the end of its thread a loop kept in time is in the dictionary, with the
\* counter in step; then it is purged, and nobody ever owns it again.
InStep(t) ==
    /\ life[t].slot = "running" => cntr[t] = Iterations - 1
    /\ life[t].slot = "below" => cntr[t] = Iterations - life[t].round
    /\ life[t].slot = "above" => cntr[t] = Iterations - life[t].round - 1
Retired(k) == /\ k \in 1..born
              /\ \A u \in Thread : dict[u] # k /\ (New(u) => pc[u].loop # k)
KeptOK == \A t \in Thread : kept[t] # None =>
    /\ table[t] # "none"
    /\ ~Finalized(t) => dict[t] = kept[t] /\ InStep(t)
    /\ Finalized(t) => Retired(kept[t])
    /\ life[t].slot = "purge" => pc[t].loop = kept[t] /\ refs[kept[t]] \subseteq {"source", t}
    /\ Finalized(t) /\ life[t].slot # "purge" => refs[kept[t]] = {}

Structure == TypeOK /\ LifeOK /\ CounterOK /\ CallsOK
Registry == NewOK /\ DictOK /\ SlotOK
Inv == Structure /\ Registry /\ KeptOK

-----------------------------------------------------------------------------
(* Types and the counter: each thread's own state.                         *)

LEMMA InitStructure == Init => Structure
<1> SUFFICES ASSUME Init PROVE Structure
  OBVIOUS
<1> USE RegistryAssumption DEF Init, Idle, Running
<1>1. TypeOK
  <2>1. Running \in Lives /\ Idle \in Calls
    BY DEF Lives, Calls, LastRound
  <2>2. 0 \in 0..(Iterations - 1) /\ 0 \in 0..MaxLoops
    OBVIOUS
  <2> QED BY <2>1, <2>2 DEF TypeOK
<1>2. LifeOK /\ CounterOK /\ CallsOK
  BY DEF LifeOK, CounterOK, CallsOK
<1> QED BY <1>1, <1>2 DEF Structure

LEMMA GoesOK ==
    ASSUME TypeOK, NEW t \in Thread, NEW l \in Loop \cup {None},
           NEW step \in {"idle", "look", "swap", "make", "insert", "note", "purge"}
    PROVE  /\ [at |-> step, who |-> pc[t].who, loop |-> l] \in Calls
           /\ Goes(t, step, l) => pc' \in [Thread -> Calls]
  BY DEF TypeOK, Calls, Goes

LEMMA IdleOK == Idle \in Calls
  BY DEF Idle, Calls

LEMMA MovesOK ==
    ASSUME TypeOK, NEW t \in Thread, NEW r \in 0..LastRound,
           NEW s \in {"running", "below", "purge", "above", "after", "dead"}, Moves(t, r, s)
    PROVE  life' \in [Thread -> Lives]
<1>1. [round |-> r, slot |-> s] \in Lives
  BY DEF Lives
<1> QED BY <1>1 DEF TypeOK, Moves

LEMMA RoundOK ==
    ASSUME TypeOK, NEW t \in Thread
    PROVE  /\ LastRound \in Nat \ {0} /\ LastRound = Iterations - 1
           /\ life[t].round \in 0..LastRound
           /\ life[t].slot \in {"running", "below", "purge", "above", "after", "dead"}
           /\ cntr[t] \in 0..LastRound /\ pc[t] \in Calls
  BY RegistryAssumption DEF TypeOK, Lives, LastRound

LEMMA NextTypes ==
    ASSUME Structure, NEW t \in Thread, Step(t)
    PROVE  TypeOK'
<1> USE RegistryAssumption DEF Structure, TypeOK, registry, tsd
<1>1. CASE GetCurrent(t)
  <2>1. table' \in [Thread -> {"none", "there", "gone"}]
    BY <1>1 DEF GetCurrent
  <2>2. got' \in [Thread -> SUBSET Loop]
    BY <1>1 DEF GetCurrent, Give
  <2>3. pc' \in [Thread -> Calls]
    BY <1>1 DEF GetCurrent, Calls
  <2> QED BY <1>1, <2>1, <2>2, <2>3 DEF GetCurrent
<1>2. ASSUME NEW u \in Thread, GetOther(t, u) PROVE TypeOK'
  <2>1. pc' \in [Thread -> Calls]
    BY <1>2 DEF GetOther, Calls
  <2> QED BY <1>2, <2>1 DEF GetOther
<1>3. ASSUME NEW step \in {"swap", "insert"}, MakeLoop(t, step), 
          UNCHANGED <<made, dict, slot, cntr, table, life, got, kept>>
      PROVE  TypeOK'
  <2>1. born + 1 \in Loop
    BY <1>3 DEF MakeLoop, Loop
  <2>2. pc' \in [Thread -> Calls]
    <3>1. Goes(t, step, born + 1) /\ pc[t].who \in Thread \cup {None}
      BY <1>3 DEF MakeLoop, Calls
    <3>2. [at |-> step, who |-> pc[t].who, loop |-> born + 1] \in Calls
      BY <2>1, <3>1 DEF Calls
    <3> QED BY <3>1, <3>2 DEF Goes
  <2>3. born' \in 0..MaxLoops
    BY <1>3 DEF MakeLoop
  <2>4. refs' \in [Loop -> SUBSET (Thread \cup {"dict", "source"})]
    BY <1>3, <2>1 DEF MakeLoop
  <2> QED BY <1>3, <2>2, <2>3, <2>4
<1>4. CASE SwapDict(t)
  <2>1. pc' \in [Thread -> Calls]
    BY <1>4, GoesOK DEF SwapDict
  <2>2. dict' \in [Thread -> Loop \cup {None}]
    BY <1>4 DEF SwapDict, Calls
  <2> QED BY <1>4, <2>1, <2>2 DEF SwapDict
<1>5. CASE Look(t)
  <2>1. pc[t].who \in Thread
    BY <1>5 DEF Look, At, CallsOK
  <2>2. pc' \in [Thread -> Calls]
    BY <1>5, <2>1, GoesOK DEF Look
  <2> QED BY <1>5, <2>2 DEF Look
<1>6. CASE Insert(t)
  <2>1. pc[t].who \in Thread /\ pc[t].loop \in Loop
    BY <1>6 DEF Insert, At, CallsOK, Loop
  <2>2. pc' \in [Thread -> Calls]
    BY <1>6, <2>1, GoesOK DEF Insert
  <2> QED BY <1>6, <2>1, <2>2 DEF Insert
<1>7. CASE Note(t)
  <2>1. pc[t].who \in Thread /\ pc[t].loop \in Loop
    BY <1>7 DEF Note, At, CallsOK, Loop
  <2>2. pc' \in [Thread -> Calls]
    BY <1>7, IdleOK DEF Note
  <2>3. got' \in [Thread -> SUBSET Loop]
    BY <1>7, <2>1 DEF Note, Give
  <2>4. slot' \in [Thread -> Loop \cup {None}] /\ kept' \in [Thread -> Loop \cup {None}]
    BY <1>7, <2>1 DEF Note
  <2>5. cntr' \in [Thread -> 0..(Iterations - 1)]
    BY <1>7 DEF Note
  <2> QED BY <1>7, <2>2, <2>3, <2>4, <2>5 DEF Note
<1>8. CASE AddSource(t)
  BY <1>8 DEF AddSource
<1>9. CASE Exit(t) \/ EndRound(t) \/ Die(t) \/ NoLoop(t)
  <2>1. life' \in [Thread -> Lives]
    <3>1. Dead \in Lives
      BY RoundOK DEF Dead, Lives
    <3>2. CASE Exit(t)
      BY <3>1, <3>2, RoundOK, MovesOK DEF Exit
    <3>3. CASE EndRound(t)
      BY <3>3, RoundOK, MovesOK DEF EndRound, LifeOK
    <3>4. CASE Die(t)
      BY <3>1, <3>4 DEF Die
    <3>5. CASE NoLoop(t)
      BY <3>5, RoundOK, MovesOK DEF NoLoop
    <3> QED BY <1>9, <3>2, <3>3, <3>4, <3>5
  <2> QED BY <1>9, <2>1 DEF Exit, EndRound, Die, NoLoop
<1>10. CASE CountDown(t)
  <2>1. life' \in [Thread -> Lives]
    BY <1>10, RoundOK, MovesOK DEF CountDown
  <2>2. cntr' \in [Thread -> 0..(Iterations - 1)]
    BY <1>10, RoundOK DEF CountDown
  <2> QED BY <1>10, <2>1, <2>2 DEF CountDown
<1>11. CASE Finalize(t)
  <2>1. life' \in [Thread -> Lives]
    BY <1>11, RoundOK, MovesOK DEF Finalize
  <2>2. pc' \in [Thread -> Calls]
    BY <1>11 DEF Finalize, Calls
  <2>3. cntr' \in [Thread -> 0..(Iterations - 1)] /\ dict' \in [Thread -> Loop \cup {None}]
    BY <1>11 DEF Finalize
  <2>4. got' \in [Thread -> SUBSET Loop]
    BY <1>11 DEF Finalize
  <2>5. refs' \in [Loop -> SUBSET (Thread \cup {"dict", "source"})]
    BY <1>11 DEF Finalize
  <2> QED BY <1>11, <2>1, <2>2, <2>3, <2>4, <2>5 DEF Finalize
<1>12. CASE Purge(t)
  <2>1. life' \in [Thread -> Lives]
    BY <1>12, RoundOK, MovesOK DEF Purge
  <2>2. pc' \in [Thread -> Calls]
    BY <1>12, IdleOK DEF Purge
  <2> QED BY <1>12, <2>1, <2>2 DEF Purge
<1>13. CASE MakeDict(t) \/ Make(t)
  BY <1>3, <1>13 DEF MakeDict, Make
<1> QED BY <1>1, <1>2, <1>4, <1>5, <1>6, <1>7, <1>8, <1>9, <1>10, <1>11, <1>12, <1>13 DEF Step

\* A step of a thread changes no other thread's call, life or slots.
LEMMA OwnCells ==
    ASSUME TypeOK, NEW t \in Thread, Step(t), NEW u \in Thread \ {t}
    PROVE  /\ pc'[u] = pc[u] /\ life'[u] = life[u] /\ cntr'[u] = cntr[u]
           /\ slot'[u] = slot[u] /\ table'[u] = table[u] /\ kept'[u] = kept[u]
<1> USE DEF TypeOK, registry, tsd
<1>1. CASE GetCurrent(t)
  BY <1>1 DEF GetCurrent
<1>2. ASSUME NEW v \in Thread, GetOther(t, v)
      PROVE  /\ pc'[u] = pc[u] /\ life'[u] = life[u] /\ cntr'[u] = cntr[u]
             /\ slot'[u] = slot[u] /\ table'[u] = table[u] /\ kept'[u] = kept[u]
  BY <1>2 DEF GetOther
<1>3. CASE MakeDict(t) \/ SwapDict(t) \/ Look(t) \/ Make(t) \/ Insert(t)
  BY <1>3 DEF MakeDict, SwapDict, Look, Make, Insert, MakeLoop, Goes
<1>4. CASE Note(t) \/ AddSource(t)
  BY <1>4 DEF Note, AddSource
<1>5. CASE Exit(t) \/ CountDown(t) \/ NoLoop(t) \/ EndRound(t) \/ Die(t)
  BY <1>5 DEF Exit, CountDown, NoLoop, EndRound, Die, Moves
<1>6. CASE Finalize(t) \/ Purge(t)
  BY <1>6 DEF Finalize, Purge, Moves
<1> QED BY <1>1, <1>2, <1>3, <1>4, <1>5, <1>6 DEF Step

LEMMA Grows ==
    ASSUME TypeOK, NEW t \in Thread, Step(t)
    PROVE  /\ born \in Nat /\ born' \in Nat /\ born <= born' /\ (made => made')
<1> USE DEF TypeOK, registry
<1>1. CASE MakeDict(t) \/ Make(t)
  BY <1>1, RegistryAssumption DEF MakeDict, Make, MakeLoop
<1>2. CASE SwapDict(t)
  BY <1>2, RegistryAssumption DEF SwapDict
<1>3. CASE ~(MakeDict(t) \/ Make(t) \/ SwapDict(t))
  <2>1. UNCHANGED <<made, born>>
    BY <1>3 DEF Step, GetCurrent, GetOther, Look, Insert, Note, AddSource, Exit, CountDown, NoLoop,
          Finalize, Purge, EndRound, Die
  <2> QED BY <2>1, RegistryAssumption
<1> QED BY <1>1, <1>2, <1>3

LEMMA NextCalls ==
    ASSUME Structure, DictOK, NEW t \in Thread, Step(t)
    PROVE  CallsOK'
<1> DEFINE Good(u) == /\ pc[u].at # "idle" => pc[u].who \in Thread
                      /\ pc[u].at = "idle" => pc[u] = Idle
                      /\ pc[u].at \in {"swap", "insert", "note", "purge"} => pc[u].loop \in 1..born
                      /\ pc[u].at \in {"make", "insert", "note", "purge"} => made
                      /\ pc[u].at = "purge" => pc[u].who = u
<1>1. ASSUME NEW u \in Thread \ {t} PROVE Good(u)'
  BY OwnCells, Grows DEF Structure, CallsOK
<1>2. Good(t)'
  <2> USE RegistryAssumption DEF Structure, TypeOK, CallsOK, Idle, At, Goes, registry, tsd
  <2>1. CASE GetCurrent(t)
    BY <2>1 DEF GetCurrent, Asking
  <2>2. ASSUME NEW u \in Thread, GetOther(t, u) PROVE Good(t)'
    BY <2>2 DEF GetOther, Asking
  <2>3. CASE MakeDict(t) \/ Make(t)
    BY <2>3 DEF MakeDict, Make, MakeLoop
  <2>4. CASE SwapDict(t)
    BY <2>4 DEF SwapDict
  <2>5. CASE Look(t)
    BY <2>5 DEF Look, DictOK
  <2>6. CASE Insert(t)
    BY <2>6 DEF Insert, DictOK
  <2>7. CASE Note(t) \/ AddSource(t)
    BY <2>7 DEF Note, AddSource
  <2>8. CASE Exit(t) \/ CountDown(t) \/ NoLoop(t) \/ EndRound(t) \/ Die(t)
    BY <2>8 DEF Exit, CountDown, NoLoop, EndRound, Die
  <2>9. CASE Finalize(t)
    BY <2>9 DEF Finalize, DictOK
  <2>10. CASE Purge(t)
    BY <2>10 DEF Purge
  <2> QED BY <2>1, <2>2, <2>3, <2>4, <2>5, <2>6, <2>7, <2>8, <2>9, <2>10 DEF Step
<1> QED BY <1>1, <1>2 DEF CallsOK

LEMMA NextLife ==
    ASSUME Structure, NEW t \in Thread, Step(t)
    PROVE  LifeOK' /\ CounterOK'
<1> DEFINE Lived(u) == /\ life[u].slot = "running" => life[u].round = 0
                       /\ life[u].slot \in {"below", "above"} => life[u].round \in 1..LastRound
                       /\ life[u].slot \in {"purge", "after"} => life[u].round = LastRound
                       /\ life[u].slot = "purge" <=> pc[u].at = "purge"
           Counts(u) == cntr[u] # 0 =>
                       /\ life[u].slot = "running" => cntr[u] = Iterations - 1
                       /\ life[u].slot = "below" => cntr[u] >= Iterations - life[u].round
                       /\ life[u].slot = "above" /\ life[u].round < LastRound
                             => cntr[u] >= Iterations - life[u].round - 1
<1>1. ASSUME NEW u \in Thread \ {t} PROVE Lived(u)' /\ Counts(u)'
  BY OwnCells DEF Structure, LifeOK, CounterOK
<1>2. Lived(t)' /\ Counts(t)'
  <2> Lived(t) /\ Counts(t)
    BY DEF Structure, LifeOK, CounterOK
  <2> USE RoundOK, RegistryAssumption DEF Structure, TypeOK, Idle, At, Goes, registry, tsd, Running, Moves
  <2>1. CASE GetCurrent(t)
    BY <2>1 DEF GetCurrent, Asking
  <2>2. ASSUME NEW u \in Thread, GetOther(t, u) PROVE Lived(t)' /\ Counts(t)'
    BY <2>2 DEF GetOther, Asking
  <2>3. CASE MakeDict(t) \/ Make(t) \/ SwapDict(t)
    BY <2>3 DEF MakeDict, Make, MakeLoop, SwapDict
  <2>5. CASE Look(t) \/ Insert(t)
    BY <2>5 DEF Look, Insert
  <2>7. CASE Note(t)
    BY <2>7 DEF Note
  <2>8. CASE AddSource(t)
    BY <2>8 DEF AddSource
  <2>9. CASE Exit(t)
    BY <2>9 DEF Exit, Dead
  <2>10. CASE CountDown(t)
    BY <2>10 DEF CountDown
  <2>11. CASE NoLoop(t)
    BY <2>11 DEF NoLoop
  <2>12. CASE EndRound(t)
    <3>1. life[t].slot = "above" /\ life[t].round \in 1..LastRound /\ UNCHANGED <<cntr, pc>>
      BY <2>12 DEF EndRound
    <3>2. CASE life[t].round = LastRound
      BY <2>12, <3>1, <3>2 DEF EndRound
    <3>3. CASE life[t].round # LastRound
      <4>1. life[t].round + 1 \in 1..LastRound
        BY <3>1, <3>3
      <4>2. life'[t] = [round |-> life[t].round + 1, slot |-> "below"]
        BY <2>12, <3>3 DEF EndRound
      <4>3. cntr[t] # 0 => cntr[t] >= Iterations - (life[t].round + 1)
        BY <3>1, <3>3
      <4> QED BY <3>1, <4>1, <4>2, <4>3
    <3> QED BY <3>2, <3>3
  <2>13. CASE Die(t)
    BY <2>13 DEF Die, Dead
  <2>14. CASE Finalize(t)
    <3>1. life[t].round = LastRound
      <4>1. life[t].slot = "below" /\ cntr[t] = 1
        BY <2>14 DEF Finalize
      <4>2. life[t].round \in 1..LastRound /\ 1 >= Iterations - life[t].round
        BY <4>1
      <4> QED BY <4>2
    <3>2. /\ cntr'[t] = 0
          /\ \/ life'[t] = [round |-> LastRound, slot |-> "above"] /\ UNCHANGED pc
             \/ life'[t] = [round |-> LastRound, slot |-> "purge"] /\ pc'[t].at = "purge"
      BY <2>14, <3>1 DEF Finalize
    <3>3. pc[t].at = "idle"
      BY <2>14 DEF Finalize
    <3> QED BY <3>2, <3>3
  <2>15. CASE Purge(t)
    BY <2>15 DEF Purge
  <2> QED BY <2>1, <2>2, <2>3, <2>5, <2>7, <2>8, <2>9, <2>10, <2>11, <2>12, <2>13, <2>14, <2>15 DEF Step
<1> QED BY <1>1, <1>2 DEF LifeOK, CounterOK

-----------------------------------------------------------------------------
(* The dictionary, the loops in hand and the slots.                        *)

\* What has been let go stays so.
LEMMA FinalizedStays ==
    ASSUME Structure, NEW t \in Thread, Step(t), NEW u \in Thread, Finalized(u)
    PROVE  Finalized(u)'
<1>1. CASE u # t
  BY <1>1, OwnCells DEF Structure, Finalized
<1>2. CASE u = t
  <2> USE <1>2 DEF Structure, TypeOK, Finalized, Running, Dead, registry, tsd
  <2>1. CASE UNCHANGED life
    BY <2>1, RoundOK
  <2>2. CASE Exit(t) \/ CountDown(t) \/ NoLoop(t) \/ Finalize(t)
    BY <2>2, RoundOK DEF Exit, CountDown, NoLoop, Finalize, Moves
  <2>3. CASE Purge(t)
    BY <2>3, RoundOK DEF Purge, Moves, At, LifeOK
  <2>4. CASE EndRound(t) \/ Die(t)
    BY <2>4, RoundOK DEF EndRound, Die, Moves
  <2> QED BY <2>1, <2>2, <2>3, <2>4 DEF Step, GetCurrent, GetOther, MakeDict, Make, MakeLoop, SwapDict, Look,
             Insert, Note, AddSource
<1> QED BY <1>1, <1>2

LEMMA FinalizeIsLast ==
    ASSUME Structure, NEW t \in Thread, Finalize(t)
    PROVE  life[t].slot = "below" /\ life[t].round = LastRound /\ ~Finalized(t) /\ Finalized(t)'
<1>1. life[t].slot = "below" /\ cntr[t] = 1
  BY DEF Finalize
<1>2. life[t].round \in 1..LastRound /\ 1 >= Iterations - life[t].round
  BY <1>1, RoundOK DEF Structure, LifeOK, CounterOK
<1>3. life[t].round = LastRound
  BY <1>2, RoundOK, RegistryAssumption DEF Structure
<1>4. life'[t].slot \in {"above", "purge"} /\ life'[t].round = LastRound
  BY <1>3 DEF Finalize, Moves, Structure, TypeOK
<1> QED BY <1>1, <1>3, <1>4, RoundOK DEF Finalized, LastRound

\* An entry changes only when it is made and when its thread lets it go.
LEMMA EntryStays ==
    ASSUME Structure, DictOK, NEW t \in Thread, Step(t), NEW u \in Thread,
           dict[u] # None, ~Finalized(u)'
    PROVE  dict'[u] = dict[u]
<1> USE DEF Structure, TypeOK, registry
<1>1. CASE SwapDict(t)
  BY <1>1 DEF SwapDict, DictOK
<1>2. CASE Insert(t)
  BY <1>2 DEF Insert
<1>3. CASE Finalize(t)
  BY <1>3, FinalizeIsLast DEF Finalize
<1>4. CASE UNCHANGED dict
  BY <1>4
<1> QED BY <1>1, <1>2, <1>3, <1>4 DEF Step, GetCurrent, GetOther, MakeDict, Make, Look, Note, AddSource,
           Exit, CountDown, NoLoop, Purge, EndRound, Die

LEMMA NextDict ==
    ASSUME Structure, Registry, NEW t \in Thread, Step(t)
    PROVE  DictOK'
<1> USE RegistryAssumption DEF Structure, TypeOK, Registry, registry, Loop
<1>1. CASE MakeDict(t) \/ Make(t)
  BY <1>1 DEF MakeDict, Make, MakeLoop, DictOK
<1>2. CASE SwapDict(t)
  <2>1. pc[t].loop \in 1..born /\ refs[pc[t].loop] = {t} /\ \A u \in Thread : dict[u] # pc[t].loop
    BY <1>2 DEF SwapDict, At, CallsOK, NewOK, New
  <2> QED BY <1>2, <2>1 DEF SwapDict, DictOK
<1>3. CASE Insert(t)
  <2>1. /\ pc[t].loop \in 1..born /\ pc[t].who \in Thread /\ made
        /\ \A u \in Thread : dict[u] # pc[t].loop
    BY <1>3 DEF Insert, At, CallsOK, NewOK, New
  <2>2. CASE dict[pc[t].who] = None
    <3>1. /\ dict' = [dict EXCEPT ![pc[t].who] = pc[t].loop]
          /\ refs' = [refs EXCEPT ![pc[t].loop] = {"dict"}]
          /\ UNCHANGED <<made, born>>
      BY <1>3, <2>2 DEF Insert
    <3>2. /\ dict'[pc[t].who] = pc[t].loop /\ refs'[pc[t].loop] = {"dict"}
          /\ \A u \in Thread \ {pc[t].who} : dict'[u] = dict[u]
          /\ \A l \in Loop : l # pc[t].loop => refs'[l] = refs[l]
      BY <2>1, <3>1
    <3> QED BY <2>1, <3>1, <3>2 DEF DictOK
  <2>3. CASE dict[pc[t].who] # None
    BY <1>3, <2>1, <2>3 DEF Insert, DictOK
  <2> QED BY <2>2, <2>3
<1>4. CASE AddSource(t)
  BY <1>4 DEF AddSource, DictOK
<1>5. CASE Finalize(t)
  BY <1>5 DEF Finalize, DictOK
<1>6. CASE Purge(t)
  <2>1. pc[t].loop \in Loop /\ "dict" # t
    BY <1>6 DEF Purge, At, CallsOK
  <2> QED BY <1>6, <2>1 DEF Purge, DictOK
<1>7. CASE UNCHANGED <<made, dict, born, refs>>
  BY <1>7 DEF DictOK
<1> QED BY <1>1, <1>2, <1>3, <1>4, <1>5, <1>6, <1>7 DEF Step, GetCurrent, GetOther, Look, Note,
           Exit, CountDown, NoLoop, EndRound, Die

\* Only a loop in the dictionary can be given a source.
LEMMA SourceInDict ==
    ASSUME Structure, Registry, NEW t \in Thread, AddSource(t)
    PROVE  slot[t] \in Loop /\ dict[t] = slot[t] /\ dict[t] # None
  BY RoundOK DEF AddSource, Structure, TypeOK, Registry, SlotOK, Finalized, Running

LEMMA NextNew ==
    ASSUME Structure, Registry, NEW t \in Thread, Step(t)
    PROVE  NewOK'
<1> DEFINE Lone(u) == refs[pc[u].loop] = {u} /\ \A v \in Thread : dict[v] # pc[u].loop
           Apart(u, v) == pc[u].loop # pc[v].loop
           Holds(v) == New(v) \/ pc[v].at = "purge"
<1> USE RegistryAssumption DEF Structure, TypeOK, Registry, registry, Loop
<1>1. ASSUME NEW u \in Thread, New(u)
      PROVE  /\ pc[u].loop \in 1..born /\ Lone(u)
             /\ \A v \in Thread \ {u} : Holds(v) => Apart(u, v)
  BY <1>1 DEF NewOK, New, CallsOK
<1>2. ASSUME NEW u \in Thread, pc[u].at = "purge" PROVE pc[u].loop \in 1..born
  BY <1>2 DEF CallsOK
<1>3. ASSUME NEW u \in Thread \ {t}
      PROVE  /\ New(u)' <=> New(u)
             /\ Holds(u)' <=> Holds(u)
             /\ pc'[u].loop = pc[u].loop
  BY OwnCells DEF New
<1>0. ASSUME \A u \in Thread \ {t} : New(u) => Lone(u)',
             New(t)' => Lone(t)',
             \A u \in Thread \ {t} : Holds(u) /\ (New(t)' \/ (New(u) /\ Holds(t)'))
                => pc[u].loop # pc'[t].loop
      PROVE  NewOK'
  <2>1. \A u \in Thread : New(u)' => Lone(u)'
    BY <1>0, <1>3
  <2>2. ASSUME NEW u \in Thread, NEW v \in Thread, New(u)', Holds(v)', u # v
        PROVE  pc'[u].loop # pc'[v].loop
    <3>1. CASE u # t /\ v # t
      BY <1>1, <1>3, <2>2, <3>1
    <3>2. CASE u = t
      BY <1>0, <1>3, <2>2, <3>2
    <3>3. CASE v = t
      BY <1>0, <1>3, <2>2, <3>3
    <3> QED BY <3>1, <3>2, <3>3
  <2> QED BY <2>1, <2>2 DEF NewOK
<1>4. CASE MakeDict(t) \/ Make(t)
  <2>1. /\ born + 1 \in Loop /\ refs' = [refs EXCEPT ![born + 1] = {t}] /\ dict' = dict
        /\ pc'[t].loop = born + 1
    BY <1>4 DEF MakeDict, Make, MakeLoop, Goes
  <2>2. ASSUME NEW u \in Thread \ {t}, New(u) PROVE Lone(u)'
    <3>1. Lone(u) /\ pc[u].loop \in 1..born /\ pc'[u].loop = pc[u].loop
      BY <1>1, <1>3, <2>2
    <3>2. refs'[pc[u].loop] = refs[pc[u].loop]
      BY <2>1, <3>1
    <3> QED BY <2>1, <3>1, <3>2
  <2>3. ASSUME NEW u \in Thread \ {t}, Holds(u) PROVE pc[u].loop # pc'[t].loop
    <3>1. pc[u].loop \in 1..born
      BY <1>1, <1>2, <2>3
    <3> QED BY <2>1, <3>1
  <2>4. Lone(t)'
    <3>1. refs'[born + 1] = {t}
      BY <2>1
    <3>2. \A v \in Thread : dict[v] # born + 1
      BY DEF DictOK
    <3> QED BY <2>1, <3>1, <3>2
  <2> QED BY <1>0, <2>2, <2>3, <2>4
<1>5. CASE SwapDict(t) \/ Insert(t)
  <2>1. New(t) /\ ~Holds(t)' /\ pc[t].loop \in Loop
    BY <1>5, <1>1 DEF SwapDict, Insert, At, New, Goes
  <2>2. ASSUME NEW u \in Thread \ {t}, New(u) PROVE Lone(u)'
    <3>1. pc[u].loop # pc[t].loop /\ pc[u].loop \in Loop
      BY <1>1, <2>1, <2>2
    <3>2. refs'[pc[u].loop] = refs[pc[u].loop]
      BY <1>5, <2>1, <3>1 DEF SwapDict, Insert
    <3>3. \A v \in Thread : dict'[v] \in {dict[v], pc[t].loop}
      BY <1>5 DEF SwapDict, Insert
    <3> QED BY <1>1, <1>3, <2>2, <3>1, <3>2, <3>3
  <2>3. ~New(t)'
    BY <2>1
  <2> QED BY <1>0, <2>1, <2>2, <2>3
<1>6. CASE AddSource(t)
  <2>1. slot[t] \in Loop /\ dict[t] = slot[t] /\ UNCHANGED <<dict, pc>>
        /\ refs' = [refs EXCEPT ![slot[t]] = @ \cup {"source"}]
    BY <1>6, SourceInDict DEF AddSource
  <2>2. ASSUME NEW u \in Thread, New(u) PROVE Lone(u)'
    BY <1>1, <2>1, <2>2
  <2> QED BY <1>1, <2>1, <2>2 DEF NewOK, New
<1>7. CASE Finalize(t)
  <2>1. ~New(t)' /\ dict'[t] = None /\ \A v \in Thread \ {t} : dict'[v] = dict[v]
    BY <1>7 DEF Finalize, New, Idle
  <2>2. pc'[t].at = "purge" => pc'[t].loop = dict[t]
    BY <1>7 DEF Finalize, Idle
  <2>3. ASSUME NEW u \in Thread \ {t}, New(u) PROVE Lone(u)'
    <3>1. pc[u].loop \in Loop /\ pc[u].loop # dict[t]
      BY <1>1, <2>3
    <3>2. refs'[pc[u].loop] = refs[pc[u].loop]
      BY <1>7, <3>1 DEF Finalize
    <3> QED BY <1>1, <1>3, <2>1, <2>3, <3>1, <3>2
  <2>4. ASSUME NEW u \in Thread \ {t}, New(u), Holds(t)' PROVE pc[u].loop # pc'[t].loop
    BY <1>1, <2>1, <2>2, <2>4
  <2> QED BY <1>0, <2>1, <2>3, <2>4
<1>8. CASE Purge(t)
  <2>1. pc[t].at = "purge" /\ ~Holds(t)' /\ pc[t].loop \in Loop
    BY <1>8, <1>2 DEF Purge, At, New, Idle
  <2>2. ASSUME NEW u \in Thread \ {t}, New(u) PROVE Lone(u)'
    <3>1. pc[u].loop # pc[t].loop /\ pc[u].loop \in Loop
      BY <1>1, <2>1, <2>2
    <3>2. refs'[pc[u].loop] = refs[pc[u].loop] /\ dict' = dict
      BY <1>8, <3>1 DEF Purge
    <3> QED BY <1>1, <1>3, <2>2, <3>1, <3>2
  <2>3. ~New(t)'
    BY <2>1
  <2> QED BY <1>0, <2>1, <2>2, <2>3
<1>9. CASE GetCurrent(t) \/ (\E u \in Thread : GetOther(t, u)) \/ Look(t) \/ Note(t)
  <2>1. ~Holds(t)' /\ UNCHANGED <<refs, dict>>
    BY <1>9 DEF GetCurrent, GetOther, Look, Note, Asking, New, Idle, Goes
  <2>2. \A u \in Thread \ {t} : New(u) => Lone(u)'
    BY <1>1, <1>3, <2>1
  <2> QED BY <1>0, <2>1, <2>2
<1>10. CASE UNCHANGED <<refs, dict, pc>>
  BY <1>1, <1>10 DEF NewOK, New
<1> QED BY <1>4, <1>5, <1>6, <1>7, <1>8, <1>9, <1>10 DEF Step, Exit, CountDown, NoLoop, EndRound, Die

LEMMA NextSlots ==
    ASSUME Structure, Registry, NEW t \in Thread, Step(t)
    PROVE  SlotOK'
<1> USE DEF Structure, TypeOK, Registry, registry, tsd
<1>1. ASSUME NEW u \in Thread, dict[u] # None, ~Finalized(u)' PROVE dict'[u] = dict[u] /\ ~Finalized(u)
  BY <1>1, EntryStays, FinalizedStays
<1>2. \A l \in Loop : l # None
  BY RegistryAssumption DEF Loop
<1>3. ASSUME NEW u \in Thread, ~Finalized(u)', NEW l \in got'[u] PROVE dict'[u] = l
  <2>1. ~Finalized(u)
    BY <1>3, FinalizedStays
  <2>2. CASE l \in got[u]
    BY <1>1, <1>2, <1>3, <2>1, <2>2 DEF SlotOK
  <2>3. CASE l \notin got[u] /\ GetCurrent(t)
    <3>1. u = t /\ l = slot[t] /\ slot[t] # None
      BY <1>3, <2>3 DEF GetCurrent, Give
    <3> QED BY <1>1, <1>3, <2>1, <3>1 DEF SlotOK
  <2>4. CASE l \notin got[u] /\ Note(t)
    <3>1. u = pc[t].who /\ l = pc[t].loop /\ pc[t].at = "note"
      BY <1>3, <2>4 DEF Note, Give, At
    <3>2. dict[u] = l /\ l # None
      BY <2>1, <3>1, RegistryAssumption DEF SlotOK, CallsOK
    <3> QED BY <1>1, <1>3, <3>2
  <2>5. CASE l \notin got[u] /\ ~GetCurrent(t) /\ ~Note(t)
    BY <1>3, <2>5 DEF Step, GetOther, MakeDict, SwapDict, Look, Make, Insert, AddSource,
       Exit, CountDown, NoLoop, Finalize, Purge, EndRound, Die
  <2> QED BY <2>2, <2>3, <2>4, <2>5
<1>4. ASSUME NEW u \in Thread, ~Finalized(u)', slot'[u] # None PROVE dict'[u] = slot'[u]
  <2>1. ~Finalized(u)
    BY <1>4, FinalizedStays
  <2>2. CASE slot'[u] = slot[u]
    BY <1>1, <1>4, <2>1, <2>2 DEF SlotOK
  <2>3. CASE slot'[u] # slot[u]
    <3>1. u = t
      BY <2>3, OwnCells
    <3>2. Note(t)
      BY <2>3, <3>1 DEF Step, GetCurrent, GetOther, MakeDict, SwapDict, Look, Make, Insert, AddSource,
         Exit, CountDown, NoLoop, Finalize, Purge, EndRound, Die
    <3>3. slot'[t] = pc[t].loop /\ pc[t].who = t /\ pc[t].at = "note"
      BY <2>3, <3>1, <3>2 DEF Note, At
    <3> QED BY <1>1, <1>4, <2>1, <3>1, <3>3 DEF SlotOK
  <2> QED BY <2>2, <2>3
<1>5. ASSUME NEW u \in Thread, NEW w \in Thread, pc'[u].at = "note", pc'[u].who = w, ~Finalized(w)'
      PROVE  dict'[w] = pc'[u].loop
  <2>0. ~Finalized(w)
    BY <1>5, FinalizedStays
  <2>1. CASE pc'[u] = pc[u]
    <3>1. dict[w] = pc[u].loop /\ pc[u].loop # None
      BY <1>5, <2>0, <2>1, RegistryAssumption DEF CallsOK, SlotOK
    <3> QED BY <1>1, <1>5, <2>1, <3>1
  <2>2. CASE pc'[u] # pc[u]
    <3>1. u = t
      BY <2>2, OwnCells
    <3>2. CASE Look(t)
      BY <3>1, <3>2, <1>5 DEF Look, Goes
    <3>3. CASE Insert(t)
      BY <3>1, <3>3, <1>5 DEF Insert, Goes, At, CallsOK
    <3>4. CASE ~Look(t) /\ ~Insert(t)
      BY <2>2, <3>1, <3>4, <1>5 DEF Step, GetCurrent, GetOther, MakeDict, SwapDict, Make, MakeLoop, Note, AddSource,
         Exit, CountDown, NoLoop, Finalize, Purge, EndRound, Die, Goes, Idle
    <3> QED BY <3>2, <3>3, <3>4
  <2> QED BY <2>1, <2>2
<1>6. \A u \in Thread : pc'[u].at = "note" => pc'[u].who \in Thread
  BY NextCalls DEF CallsOK
<1> QED BY <1>3, <1>4, <1>5, <1>6 DEF SlotOK

-----------------------------------------------------------------------------
(* The loops that were there in time.                                      *)

\* A loop that is out of everybody's hands gets no new owner.
LEMMA RetiredStays ==
    ASSUME Structure, Registry, NEW t \in Thread, Step(t), NEW k, Retired(k)
    PROVE  Retired(k)' /\ refs'[k] \subseteq refs[k]
<1> USE RegistryAssumption DEF Structure, TypeOK, Registry, registry, Loop
<1>1. /\ k \in 1..born /\ k \in Loop /\ k \in 1..born' /\ k # None
      /\ \A u \in Thread : dict[u] # k /\ (New(u) => pc[u].loop # k)
  BY Grows DEF Retired
<1>2. ASSUME NEW u \in Thread \ {t} PROVE New(u)' => pc'[u].loop # k
  BY <1>1, OwnCells DEF New
<1>3. CASE MakeDict(t) \/ Make(t)
  <2>1. born + 1 \in Loop /\ refs' = [refs EXCEPT ![born + 1] = {t}] /\ dict' = dict
        /\ pc'[t].loop = born + 1
    BY <1>3 DEF MakeDict, Make, MakeLoop, Goes
  <2> QED BY <1>1, <1>2, <2>1 DEF Retired
<1>4. CASE SwapDict(t) \/ Insert(t)
  <2>1. ~New(t)' /\ pc[t].loop # k
    BY <1>1, <1>4 DEF SwapDict, Insert, At, New, Goes
  <2>2. (\A u \in Thread : dict'[u] # k) /\ refs'[k] = refs[k]
    BY <1>1, <1>4, <2>1 DEF SwapDict, Insert
  <2> QED BY <1>1, <1>2, <2>1, <2>2 DEF Retired
<1>5. CASE AddSource(t)
  <2>1. slot[t] # k
    BY <1>1, <1>5, SourceInDict
  <2> QED BY <1>1, <1>2, <1>5, <2>1 DEF AddSource, Retired, New
<1>6. CASE Finalize(t)
  <2>1. ~New(t)' /\ dict' = [dict EXCEPT ![t] = None] /\ UNCHANGED born
    BY <1>6 DEF Finalize, New, Idle
  <2>2. refs'[k] = refs[k]
    <3>1. CASE dict[t] = None
      BY <1>6, <3>1 DEF Finalize
    <3>2. CASE dict[t] # None
      <4>1. dict[t] \in Loop /\ dict[t] # k
        BY <1>1, <3>2
      <4>2. refs' = [refs EXCEPT ![dict[t]] = (@ \ {"dict"}) \cup {t}]
        BY <1>6, <3>2 DEF Finalize
      <4> QED BY <1>1, <4>1, <4>2
    <3> QED BY <3>1, <3>2
  <2> QED BY <1>1, <1>2, <2>1, <2>2 DEF Retired
<1>7. CASE Purge(t)
  <2>1. ~New(t)' /\ dict' = dict /\ refs'[k] \subseteq refs[k]
    BY <1>1, <1>7 DEF Purge, New, Idle
  <2> QED BY <1>1, <1>2, <2>1 DEF Retired
<1>8. CASE GetCurrent(t) \/ (\E u \in Thread : GetOther(t, u)) \/ Look(t) \/ Note(t)
  <2>1. ~New(t)' /\ UNCHANGED <<refs, dict>>
    BY <1>8 DEF GetCurrent, GetOther, Look, Note, Asking, New, Idle, Goes
  <2> QED BY <1>1, <1>2, <2>1 DEF Retired
<1>9. CASE UNCHANGED <<refs, dict, pc>>
  BY <1>1, <1>9 DEF Retired, New
<1> QED BY <1>3, <1>4, <1>5, <1>6, <1>7, <1>8, <1>9 DEF Step, Exit, CountDown, NoLoop, EndRound, Die

LEMMA FinalizeRetires ==
    ASSUME Structure, Registry, NEW t \in Thread, Finalize(t), NEW k, k = dict[t], k # None
    PROVE  /\ Retired(k)' /\ refs'[k] \subseteq {"source", t}
           /\ life'[t].slot = "purge" /\ pc'[t].loop = k
<1> USE DEF Structure, TypeOK, Registry, Loop
<1>1. k \in Loop /\ k \in 1..born /\ refs[k] \subseteq {"dict", "source"}
  BY DEF DictOK
<1>2. refs'[k] \subseteq {"source", t} /\ UNCHANGED born
  <2>1. UNCHANGED born /\ refs' = [refs EXCEPT ![k] = (@ \ {"dict"}) \cup {t}]
    BY DEF Finalize
  <2> QED BY <1>1, <2>1
<1>3. life'[t].slot = "purge" /\ pc'[t].loop = k /\ pc'[t].at = "purge"
  BY DEF Finalize, Moves
<1>4. \A u \in Thread : dict'[u] # k
  BY DEF Finalize, DictOK
<1>5. ASSUME NEW u \in Thread PROVE New(u)' => pc'[u].loop # k
  <2>1. Step(t) /\ ~New(t)'
    BY <1>3 DEF Step, New
  <2>2. u # t => pc'[u] = pc[u]
    BY <2>1, OwnCells
  <2>3. New(u) => pc[u].loop # k
    BY DEF NewOK
  <2> QED BY <2>1, <2>2, <2>3 DEF New
<1> QED BY <1>1, <1>2, <1>3, <1>4, <1>5 DEF Retired

\* A loop kept in time is let go by __CFFinalizeRunLoop and in no other way.
LEMMA OnlyFinalize ==
    ASSUME Inv, NEW t \in Thread, Step(t), kept[t] # None, ~Finalized(t), Finalized(t)'
    PROVE  Finalize(t)
<1> USE DEF Inv, Structure, TypeOK, registry, tsd
<1>1. InStep(t) /\ table[t] # "none"
  BY DEF KeptOK
<1>2. ASSUME CountDown(t) \/ NoLoop(t) PROVE FALSE
  <2>1. life[t].slot = "below" /\ life'[t] = [round |-> life[t].round, slot |-> "above"] /\ cntr[t] # 1
    BY <1>2, RoundOK DEF CountDown, NoLoop, Moves
  <2>2. life[t].round = LastRound
    BY <2>1 DEF Finalized
  <2>3. cntr[t] = Iterations - LastRound
    BY <1>1, <2>1, <2>2 DEF InStep
  <2> QED BY <2>1, <2>3, RoundOK, RegistryAssumption
<1>3. ASSUME Exit(t) PROVE FALSE
  BY <1>1, <1>3, RoundOK DEF Exit, Moves, Finalized
<1>4. ASSUME EndRound(t) \/ Die(t) \/ Purge(t) PROVE FALSE
  <2>1. life[t].slot = "above" /\ life[t].round # LastRound
    BY <1>4 DEF EndRound, Die, Purge, Finalized, At, LifeOK
  <2> QED BY <1>4, <2>1 DEF EndRound, Die, Purge, Finalized, Moves, At, LifeOK
<1>5. ASSUME UNCHANGED life PROVE FALSE
  BY <1>5 DEF Finalized
<1> QED BY <1>2, <1>3, <1>4, <1>5 DEF Step, GetCurrent, GetOther, MakeDict, SwapDict, Look, Make, MakeLoop,
           Insert, Note, AddSource

\* As long as it is not let go the counter stays in step with the rounds.
LEMMA StaysInStep ==
    ASSUME Structure, NEW t \in Thread, Step(t), InStep(t), ~Finalized(t), ~Finalized(t)'
    PROVE  InStep(t)'
<1> USE RoundOK, RegistryAssumption DEF Structure, TypeOK, registry, tsd, InStep
<1>1. CASE Note(t)
  <2>1. life[t].slot \in {"running", "below", "above"}
    BY <1>1 DEF Note, At, LifeOK, Finalized
  <2>2. cntr[t] # 0
    <3>1. life[t].slot \in {"below", "above"} => life[t].round \in 1..LastRound
      BY DEF LifeOK
    <3>2. life[t].slot = "above" => life[t].round # LastRound
      BY DEF Finalized
    <3> QED BY <2>1, <3>1, <3>2, SMTT(30)
  <2> QED BY <1>1, <2>2 DEF Note
<1>2. CASE Exit(t)
  BY <1>2 DEF Exit, Moves, Running, Dead, Finalized
<1>3. CASE CountDown(t)
  BY <1>3 DEF CountDown, Moves
<1>4. CASE NoLoop(t)
  BY <1>4 DEF NoLoop, LifeOK
<1>5. CASE Finalize(t)
  BY <1>5, FinalizeIsLast
<1>6. CASE Purge(t) \/ Die(t)
  BY <1>6 DEF Purge, Die, At, LifeOK, Finalized
<1>7. CASE EndRound(t)
  <2>1. life[t].slot = "above" /\ life[t].round # LastRound /\ cntr' = cntr
    BY <1>7 DEF EndRound, Finalized
  <2>2. life'[t] = [round |-> life[t].round + 1, slot |-> "below"]
    BY <1>7, <2>1 DEF EndRound, Moves
  <2> QED BY <2>1, <2>2
<1>8. CASE UNCHANGED <<life, cntr>>
  BY <1>8
<1> QED BY <1>1, <1>2, <1>3, <1>4, <1>5, <1>6, <1>7, <1>8 DEF Step, GetCurrent, GetOther, MakeDict, SwapDict,
           Look, Make, MakeLoop, Insert, AddSource

\* What Note keeps is in the dictionary and has a counter that starts full.
LEMMA NoteKeeps ==
    ASSUME Structure, Registry, NEW t \in Thread, Note(t), kept'[t] # kept[t]
    PROVE  /\ ~Finalized(t) /\ ~Finalized(t)' /\ dict'[t] = kept'[t] /\ InStep(t)'
           /\ table'[t] # "none" /\ life'[t].slot # "purge"
<1> USE RoundOK, RegistryAssumption DEF Structure, TypeOK, registry
<1>1. /\ pc[t].who = t /\ table[t] = "there" /\ InTime(t) /\ kept'[t] = pc[t].loop
      /\ cntr'[t] = IF cntr[t] = 0 THEN Iterations - 1 ELSE cntr[t]
      /\ UNCHANGED <<dict, table, life>> /\ pc[t].at = "note"
  BY DEF Note, At
<1>2. life[t].slot = "running" \/ (life[t].slot = "below" /\ life[t].round = 1)
  BY <1>1 DEF InTime, Running
<1>3. ~Finalized(t) /\ ~Finalized(t)'
  BY <1>1, <1>2 DEF Finalized
<1>4. dict[t] = pc[t].loop
  BY <1>1, <1>3 DEF Registry, SlotOK
<1>5. cntr'[t] = Iterations - 1
  BY <1>1, <1>2 DEF CounterOK
<1> QED BY <1>1, <1>2, <1>3, <1>4, <1>5 DEF InStep

LEMMA NextKept ==
    ASSUME Inv, NEW t \in Thread, Step(t)
    PROVE  KeptOK'
<1> USE DEF Inv
<1>1. Structure /\ Registry /\ KeptOK /\ TypeOK
  BY DEF Structure
<1> DEFINE Good(u) ==
        /\ table[u] # "none"
        /\ ~Finalized(u) => dict[u] = kept[u] /\ InStep(u)
        /\ Finalized(u) => Retired(kept[u])
        /\ life[u].slot = "purge" => pc[u].loop = kept[u] /\ refs[kept[u]] \subseteq {"source", u}
        /\ Finalized(u) /\ life[u].slot # "purge" => refs[kept[u]] = {}
<1>0. ASSUME NEW k, Retired(k)
      PROVE  refs'[k] \subseteq refs[k] /\ k \in 1..born'
             /\ \A u \in Thread : dict'[u] # k /\ (New(u)' => pc'[u].loop # k)
  BY <1>0, <1>1, RetiredStays DEF Retired
<1>2. ASSUME NEW u \in Thread, u # t, kept[u] # None PROVE Good(u)'
  <2>1. Good(u)
    BY <1>1, <1>2 DEF KeptOK
  <2>2. /\ pc'[u] = pc[u] /\ life'[u] = life[u] /\ cntr'[u] = cntr[u]
        /\ table'[u] = table[u] /\ kept'[u] = kept[u]
    BY <1>1, <1>2, OwnCells
  <2>3. CASE ~Finalized(u)
    <3>1. ~Finalized(u)' /\ life[u].slot # "purge"
      BY <2>2, <2>3 DEF Finalized
    <3>2. dict'[u] = kept'[u]
      BY <1>1, <1>2, <2>1, <2>2, <2>3, <3>1, EntryStays DEF Registry
    <3> QED BY <2>1, <2>2, <2>3, <3>1, <3>2 DEF InStep
  <2>4. CASE Finalized(u)
    <3>1. Finalized(u)'
      BY <1>1, <2>4, FinalizedStays
    <3>2. Retired(kept[u])' /\ refs'[kept[u]] \subseteq refs[kept[u]]
      BY <1>0, <2>1, <2>2, <2>4 DEF Retired
    <3> QED BY <2>1, <2>2, <2>4, <3>1, <3>2
  <2> QED BY <2>3, <2>4
<1>3. ASSUME kept[t] # None, kept'[t] = kept[t] PROVE Good(t)'
  <2>1. Good(t)
    BY <1>1, <1>3 DEF KeptOK
  <2>2. table'[t] # "none"
    BY <1>1, <2>1 DEF TypeOK, tsd, Step, GetCurrent, GetOther, MakeDict, SwapDict, Look, Make, Insert, Note, AddSource,
       Exit, CountDown, NoLoop, Finalize, Purge, EndRound, Die
  <2>3. CASE ~Finalized(t)'
    <3>1. ~Finalized(t)
      BY <1>1, <2>3, FinalizedStays
    <3>2. dict'[t] = kept'[t] /\ InStep(t)'
      BY <1>1, <1>3, <2>1, <2>3, <3>1, EntryStays, StaysInStep DEF Registry
    <3> QED BY <2>2, <2>3, <3>2 DEF Finalized
  <2>4. CASE Finalized(t)' /\ ~Finalized(t)
    <3>1. Finalize(t) /\ dict[t] = kept[t]
      BY <1>3, <2>1, <2>4, OnlyFinalize
    <3>2. ASSUME NEW k, k = dict[t]
          PROVE  /\ refs'[k] \subseteq {"source", t} /\ life'[t].slot = "purge" /\ pc'[t].loop = k
                 /\ k \in 1..born' /\ \A u \in Thread : dict'[u] # k /\ (New(u)' => pc'[u].loop # k)
      BY <1>1, <1>3, <3>1, <3>2, FinalizeRetires DEF Retired
    <3>3. Retired(kept[t])'
      BY <1>3, <3>1, <3>2 DEF Retired
    <3> QED BY <1>3, <2>2, <2>4, <3>1, <3>2, <3>3
  <2>5. CASE Finalized(t) /\ life[t].slot = "purge"
    <3>1. Finalized(t)'
      BY <1>1, <2>5, FinalizedStays
    <3>2. Retired(kept[t])' /\ kept[t] \in Loop /\ refs[kept[t]] \subseteq {"source", t} /\ pc[t].loop = kept[t]
      BY <1>0, <1>1, <1>3, <2>1, <2>5, RegistryAssumption DEF Retired, Loop, TypeOK
    <3>3. pc[t].at = "purge"
      BY <1>1, <2>5 DEF Structure, LifeOK
    <3>4. Purge(t)
      BY <1>1, <2>5, <3>3 DEF Step, GetCurrent, GetOther, MakeDict, SwapDict, Look, Make, Insert, Note, AddSource,
         Exit, CountDown, NoLoop, Finalize, EndRound, Die, Asking, At, Idle, Running
    <3>5. refs'[kept[t]] = {} /\ life'[t].slot # "purge"
      BY <1>1, <3>2, <3>4 DEF Purge, Moves, TypeOK
    <3> QED BY <1>3, <2>2, <3>1, <3>2, <3>5
  <2>6. CASE Finalized(t) /\ life[t].slot # "purge"
    <3>1. Finalized(t)'
      BY <1>1, <2>6, FinalizedStays
    <3>2. Retired(kept[t])' /\ refs'[kept[t]] = {}
      BY <1>0, <1>3, <2>1, <2>6 DEF Retired
    <3>3. life'[t].slot # "purge"
      BY <1>1, <2>6, FinalizeIsLast DEF TypeOK, Step, GetCurrent, GetOther, MakeDict, SwapDict, Look, Make, MakeLoop,
         Insert, Note, AddSource, Exit, CountDown, NoLoop, Purge, EndRound, Die, Moves, Dead, registry, tsd, Structure
    <3> QED BY <1>3, <2>2, <3>1, <3>2, <3>3
  <2> QED BY <2>3, <2>4, <2>5, <2>6
<1>4. ASSUME kept'[t] # kept[t] PROVE Good(t)'
  <2>1. Note(t)
    BY <1>4 DEF Step, GetCurrent, GetOther, MakeDict, SwapDict, Look, Make, Insert, AddSource,
       Exit, CountDown, NoLoop, Finalize, Purge, EndRound, Die
  <2> QED BY <1>1, <1>4, <2>1, NoteKeeps
<1>5. \A u \in Thread \ {t} : kept'[u] = kept[u]
  BY <1>1, OwnCells
<1> QED BY <1>2, <1>3, <1>4, <1>5 DEF KeptOK

-----------------------------------------------------------------------------
LEMMA InitInv == Init => Inv
<1> SUFFICES ASSUME Init PROVE Inv
  OBVIOUS
<1>1. Structure
  BY InitStructure
<1>2. Registry
  BY DEF Init, Registry, NewOK, New, DictOK, SlotOK, Idle
<1>3. KeptOK
  BY DEF Init, KeptOK
<1> QED BY <1>1, <1>2, <1>3 DEF Inv

LEMMA NextInv == Inv /\ [Next]_vars => Inv'
<1>1. ASSUME Inv, NEW t \in Thread, Step(t) PROVE Inv'
  <2>1. Structure /\ Registry /\ DictOK
    BY <1>1 DEF Inv, Registry
  <2>2. Structure'
    BY <1>1, <2>1, NextTypes, NextCalls, NextLife DEF Structure
  <2>3. Registry'
    BY <1>1, <2>1, NextNew, NextDict, NextSlots DEF Registry
  <2>4. KeptOK'
    BY <1>1, NextKept
  <2> QED BY <2>2, <2>3, <2>4 DEF Inv
<1>2. ASSUME Inv, UNCHANGED vars PROVE Inv'
  BY <1>2 DEF vars, Inv, Structure, TypeOK, LifeOK, CounterOK, CallsOK, Registry, NewOK, New, DictOK, SlotOK,
     KeptOK, Finalized, InStep, Retired
<1> QED BY <1>1, <1>2 DEF Next

LEMMA Always == Spec => []Inv
BY InitInv, NextInv, PTL DEF Spec

\* The state of RunLoopRegistry has its types, and the counter of a thread never
\* exceeds the rounds there are.
THEOREM TypeCorrect == Spec => []TypeOK
<1>1. Inv => TypeOK
  BY DEF Inv, Structure
<1> QED BY <1>1, Always, PTL

\* _CFRunLoopGet0 for any number of callers: until a thread's loop is let go, all who
\* have asked for it have been given the one in the dictionary, which owns it.
THEOREM OneLoop == Spec => []UniqueLoop
<1>1. Inv => UniqueLoop
  <2> SUFFICES ASSUME Inv, NEW t \in Thread, ~Finalized(t), NEW l \in got[t]
               PROVE  dict[t] = l /\ "dict" \in refs[l]
    BY DEF UniqueLoop
  <2>1. dict[t] = l /\ l # None
    BY RegistryAssumption DEF Inv, Structure, TypeOK, Registry, SlotOK, Loop
  <2> QED BY <2>1 DEF Inv, Registry, DictOK
<1> QED BY <1>1, Always, PTL

\* __CFFinalizeRunLoop for any number of rounds: a loop that its thread had before the
\* first round came to the counter has no owner and no entry when the thread is dead.
THEOREM EndDestroys == Spec => []DestroyedAtEnd
<1>1. Inv => DestroyedAtEnd
  <2> SUFFICES ASSUME Inv, NEW t \in Thread, life[t] = Dead, kept[t] # None
               PROVE  refs[kept[t]] = {} /\ dict[t] # kept[t]
    BY DEF DestroyedAtEnd
  <2>1. Finalized(t) /\ life[t].slot # "purge"
    BY DEF Finalized, Dead
  <2> QED BY <2>1 DEF Inv, KeptOK, Retired
<1> QED BY <1>1, Always, PTL
=============================================================================
