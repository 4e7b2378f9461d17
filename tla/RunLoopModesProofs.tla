-------------------------- MODULE RunLoopModesProofs -------------------------
(***************************************************************************)
(* RunLoopModes for any number of threads, loops, modes and items, and any *)
(* set of calls: what an item knows of its loops is so, an invalid item is *)
(* in no mode, and the common items are in all common modes.               *)
(***************************************************************************)
EXTENDS RunLoopModes, FiniteSetTheorems, TLAPS

IsObserver(i) == Kind[i] = "observer"
At(i, l) == {x \in Places(i) : x[1] = l}

\* BackPointers, item by item; a timer that knows no loop knows no mode either.
SourceRight(i) == i \in valid => \A l \in Loop : bag[i][l] = Cardinality(At(i, l))
TimerRight(i) == /\ Places(i) = ({home[i]} \ {None}) \X names[i]
                 /\ home[i] = None => names[i] = {}
ObserverRight(i) == /\ count[i] = Cardinality(Places(i))
                    /\ count[i] = 0 <=> home[i] = None
Right(i) == /\ IsSource(i) => SourceRight(i)
            /\ IsTimer(i) => TimerRight(i)
            /\ IsObserver(i) => ObserverRight(i)
RightOK == \A i \in Item : Right(i)

\* What each step of a call has in hand.
PcFine(t) ==
    /\ pc[t].at = "items" => pc[t].loop \in Loop
    /\ pc[t].at \in {"insert", "each"} =>
          /\ pc[t].loop \in Loop
          /\ pc[t].todo \cup pc[t].left \subseteq Item \X Mode
    /\ pc[t].at = "insert" => \A x, y \in pc[t].todo : x = y
    /\ pc[t].at = "each" => pc[t].left = {} /\ lock[pc[t].loop] = t
    /\ pc[t].at = "leave" =>
          /\ pc[t].todo \subseteq (Item \ valid) \X Mode
          /\ pc[t].left \subseteq Loop
          /\ \A x, y \in pc[t].todo : x[1] = y[1]
PcOK == \A t \in Thread : PcFine(t)

Structure == TypeOK /\ PcOK

\* Items are in, and know, only the loops they have been called for.
Called(l, i) == \E c \in Calls : c[2] = l /\ c[4] = i
CallOK ==
    /\ \A t \in Thread : pc[t].at \in {"items", "insert", "each"} =>
          \A x \in pc[t].todo : Called(pc[t].loop, x[1])
    /\ \A t \in Thread : pc[t].at = "insert" =>
          \A x \in pc[t].left : Called(pc[t].loop, x[1])
    /\ \A l \in Loop : \A i \in items[l] : Called(l, i)
    /\ \A i \in Item : home[i] # None => Called(home[i], i)
    /\ \A i \in Item : \A x \in Places(i) : Called(x[1], i)

\* Where an invalid item still is, its invalidation has yet to go.
Reaches(t, i, x) == /\ pc[t].at = "leave"
                    /\ x[1] \in pc[t].left /\ <<i, x[2]>> \in pc[t].todo
PendingOK == \A i \in Item \ (valid \cup late) : (~IsObserver(i) \/ OneLoop(i)) =>
    \A x \in Places(i) : \E t \in Thread : Reaches(t, i, x)

\* Where a common item is missing, the holder of the lock has yet to put it in.
Owed(l, i, m) == /\ lock[l] # None
                 /\ <<i, m>> \in pc[lock[l]].todo \cup pc[lock[l]].left
CoveredOK == \A l \in Loop, m \in Mode, i \in Item :
    i \in items[l] /\ i \in valid /\ m \in common[l] /\ Kept(i) /\ (IsSource(i) \/ OneLoop(i))
        => i \in in[l][m] \/ Owed(l, i, m)

Inv == Structure /\ RightOK /\ CallOK /\ PendingOK /\ CoveredOK

-----------------------------------------------------------------------------
(* Counting places.                                                        *)

LEMMA PairsFinite ==
    ASSUME NEW S \in SUBSET (Loop \X Mode)
    PROVE  /\ IsFiniteSet(S) /\ Cardinality(S) \in Nat
           /\ Cardinality(S) = 0 <=> S = {}
<1>1. IsFiniteSet(Loop \X Mode)
  BY FS_Product, ModesAssumption
<1>2. IsFiniteSet(S)
  BY <1>1, FS_Subset
<1> QED BY <1>2, FS_CardinalityType, FS_EmptySet

LEMMA AddPair ==
    ASSUME NEW S \in SUBSET (Loop \X Mode), NEW x, x \notin S
    PROVE  Cardinality(S \cup {x}) = Cardinality(S) + 1
BY PairsFinite, FS_AddElement

LEMMA TakePart ==
    ASSUME NEW S, IsFiniteSet(S), NEW T \in SUBSET S
    PROVE  Cardinality(S \ T) = Cardinality(S) - Cardinality(T)
<1>1. S \cap T = T
  OBVIOUS
<1> QED BY <1>1, FS_Difference

LEMMA TakePairs ==
    ASSUME NEW S \in SUBSET (Loop \X Mode), NEW l \in Loop, NEW M \in SUBSET Mode,
           {l} \X M \subseteq S
    PROVE  /\ Cardinality(S \ ({l} \X M)) = Cardinality(S) - Cardinality(M)
           /\ Cardinality(M) \in Nat /\ Cardinality(M) <= Cardinality(S)
           /\ Cardinality(M) = 0 <=> M = {}
<1>1. IsFiniteSet(M)
  BY FS_Subset, ModesAssumption
<1>2. IsFiniteSet({l}) /\ Cardinality({l}) = 1
  BY FS_Singleton
<1>3. Cardinality({l} \X M) = 1 * Cardinality(M)
  BY <1>1, <1>2, FS_Product
<1>4. Cardinality(M) \in Nat /\ (Cardinality(M) = 0 <=> M = {})
  BY <1>1, FS_CardinalityType, FS_EmptySet
<1>5. {l} \X M \in SUBSET S /\ IsFiniteSet(S)
  BY PairsFinite
<1>6. Cardinality(S \ ({l} \X M)) = Cardinality(S) - Cardinality({l} \X M)
  BY <1>5, TakePart
<1>7. Cardinality(S \ ({l} \X M)) \in Nat /\ Cardinality(S) \in Nat
  BY PairsFinite
<1> QED BY <1>3, <1>4, <1>6, <1>7

-----------------------------------------------------------------------------
(* Where items are after one has been put in or taken out.                 *)

LEMMA PlacesIn == ASSUME NEW i \in Item PROVE Places(i) \in SUBSET (Loop \X Mode)
BY DEF Places

LEMMA PutIn ==
    ASSUME TypeOK, NEW l \in Loop, NEW m \in Mode, NEW i \in Item,
           in' = [in EXCEPT ![l][m] = @ \cup {i}]
    PROVE  /\ in' \in [Loop -> [Mode -> SUBSET Item]]
           /\ Places(i)' = Places(i) \cup {<<l, m>>}
           /\ \A j \in Item \ {i} : Places(j)' = Places(j)
           /\ i \in in'[l][m] /\ \A k \in Loop, n \in Mode : in[k][n] \subseteq in'[k][n]
<1>1. \A k \in Loop, n \in Mode :
          in'[k][n] = IF k = l /\ n = m THEN in[k][n] \cup {i} ELSE in[k][n]
  <2>1. in'[l] = [in[l] EXCEPT ![m] = @ \cup {i}] /\ in[l] \in [Mode -> SUBSET Item]
    BY DEF TypeOK
  <2>2. \A k \in Loop \ {l} : in'[k] = in[k]
    BY DEF TypeOK
  <2>3. \A n \in Mode : in'[l][n] = IF n = m THEN in[l][n] \cup {i} ELSE in[l][n]
    BY <2>1
  <2> QED BY <2>2, <2>3
<1>2. in' \in [Loop -> [Mode -> SUBSET Item]]
  BY DEF TypeOK
<1> QED BY <1>1, <1>2 DEF Places

\* Those of the modes M of loop l that hold item i.
Gone(l, M, i) == {m \in M : i \in in[l][m]}

LEMMA TakenOut ==
    ASSUME TypeOK, NEW l \in Loop, NEW M \in SUBSET Mode, NEW i \in Item, Leave(l, M, i)
    PROVE  /\ in' \in [Loop -> [Mode -> SUBSET Item]]
           /\ Gone(l, M, i) \in SUBSET Mode /\ {l} \X Gone(l, M, i) \subseteq Places(i)
           /\ Places(i)' = Places(i) \ ({l} \X Gone(l, M, i))
           /\ \A j \in Item \ {i} : Places(j)' = Places(j)
           /\ \A k \in Loop, n \in Mode : \A j \in Item :
                 j # i \/ k # l \/ n \notin M => (j \in in'[k][n] <=> j \in in[k][n])
           /\ \A n \in M : i \notin in'[l][n]
<1>1. in' = [in EXCEPT ![l] = [m \in Mode |-> in[l][m]
                                   \ (IF m \in Gone(l, M, i) THEN {i} ELSE {})]]
  BY DEF Leave, Gone
<1>2. \A k \in Loop, n \in Mode :
          in'[k][n] = IF k = l /\ n \in Gone(l, M, i) THEN in[k][n] \ {i} ELSE in[k][n]
  BY <1>1, ZenonT(60) DEF TypeOK
<1>3. in' \in [Loop -> [Mode -> SUBSET Item]]
  BY <1>1 DEF TypeOK
<1>4. Gone(l, M, i) \in SUBSET Mode /\ {l} \X Gone(l, M, i) \subseteq Places(i)
  BY DEF Gone, Places
<1>5. Places(i)' = Places(i) \ ({l} \X Gone(l, M, i))
  <2>1. ASSUME NEW k \in Loop, NEW n \in Mode
        PROVE  <<k, n>> \in Places(i)' <=> <<k, n>> \in Places(i) \ ({l} \X Gone(l, M, i))
    BY <1>2 DEF Places
  <2>2. Places(i)' \subseteq Loop \X Mode /\ Places(i) \subseteq Loop \X Mode
    BY DEF Places
  <2> QED BY <2>1, <2>2
<1>6. ASSUME NEW j \in Item \ {i} PROVE Places(j)' = Places(j)
  <2>1. \A k \in Loop, n \in Mode : j \in in'[k][n] <=> j \in in[k][n]
    BY <1>2
  <2> QED BY <2>1 DEF Places
<1> QED BY <1>2, <1>3, <1>4, <1>5, <1>6 DEF Gone

-----------------------------------------------------------------------------
(* What an item knows stays right when it is put in and when it is taken   *)
(* out.                                                                    *)

BackType == /\ bag \in [Item -> [Loop -> Nat]] /\ count \in [Item -> Nat]
            /\ home \in [Item -> Loop \cup {None}] /\ names \in [Item -> SUBSET Mode]

\* The insertion of Insert.
Put(l, m, i) ==
    /\ ~Refused(l, m, i)
    /\ in' = [in EXCEPT ![l][m] = @ \cup {i}]
    /\ IsSource(i) => NoteSource(l, i)
    /\ IsTimer(i) => NoteTimer(l, m, i)
    /\ IsObserver(i) => NoteObserver(l, i)

LEMMA Kinds == \A i \in Item :
    /\ IsSource(i) \/ IsTimer(i) \/ IsObserver(i)
    /\ ~(IsSource(i) /\ IsTimer(i)) /\ ~(IsSource(i) /\ IsObserver(i))
    /\ ~(IsTimer(i) /\ IsObserver(i))
BY ModesAssumption DEF IsSource, IsTimer, IsObserver

\* An item is right if neither where it is nor what it knows has changed.
LEMMA RightStays ==
    ASSUME NEW j \in Item, Right(j), valid' \subseteq valid, Places(j)' = Places(j),
           bag'[j] = bag[j] \/ j \notin valid', home'[j] = home[j],
           count'[j] = count[j], names'[j] = names[j]
    PROVE  Right(j)'
<1>1. \A l \in Loop : At(j, l)' = At(j, l)
  BY DEF At
<1>2. SourceRight(j) => SourceRight(j)'
  BY <1>1 DEF SourceRight
<1>3. TimerRight(j) => TimerRight(j)'
  BY DEF TimerRight
<1>4. ObserverRight(j) => ObserverRight(j)'
  BY DEF ObserverRight
<1>5. (IsSource(j) <=> IsSource(j)') /\ (IsTimer(j) <=> IsTimer(j)')
      /\ (IsObserver(j) <=> IsObserver(j)')
  BY DEF IsSource, IsTimer, IsObserver
<1> QED BY <1>2, <1>3, <1>4, <1>5 DEF Right

LEMMA PutRight ==
    ASSUME TypeOK, RightOK, NEW l \in Loop, NEW m \in Mode, NEW i \in Item,
           Put(l, m, i), valid' = valid
    PROVE  BackType' /\ RightOK'
<1> USE Kinds
<1>1. /\ Places(i)' = Places(i) \cup {<<l, m>>}
      /\ \A j \in Item \ {i} : Places(j)' = Places(j)
  BY PutIn DEF Put
<1>2. BackType
  BY DEF TypeOK, BackType
<1>3. Right(i)
  BY DEF RightOK
<1>4. Places(i) \in SUBSET (Loop \X Mode)
  BY PlacesIn
<1>5. CASE IsSource(i)
  <2>1. /\ bag' = [bag EXCEPT ![i][l] = @ + 1] /\ home' = home /\ count' = count
        /\ names' = names
    BY <1>5 DEF Put, NoteSource
  <2>2. BackType'
    BY <1>2, <2>1 DEF BackType
  <2>3. ASSUME NEW j \in Item \ {i} PROVE Right(j)'
    <3>1. bag'[j] = bag[j] /\ Right(j)
      BY <1>2, <2>1 DEF BackType, RightOK
    <3> QED BY <1>1, <2>1, <3>1, RightStays
  <2>4. ASSUME i \in valid, NEW k \in Loop PROVE bag'[i][k] = Cardinality(At(i, k)')
    <3>1. bag[i][k] = Cardinality(At(i, k)) /\ bag[i] \in [Loop -> Nat]
      BY <1>2, <1>3, <1>5, <2>4 DEF Right, SourceRight, BackType
    <3>2. At(i, k) \in SUBSET (Loop \X Mode)
      BY <1>4 DEF At
    <3>3. CASE k = l
      <4>1. <<l, m>> \notin At(i, k) /\ At(i, k)' = At(i, k) \cup {<<l, m>>}
        BY <1>1, <1>5, <3>3 DEF Put, Refused, At, Places
      <4>2. Cardinality(At(i, k)') = Cardinality(At(i, k)) + 1
        BY <3>2, <4>1, AddPair
      <4>3. bag'[i][l] = bag[i][l] + 1
        BY <1>2, <2>1 DEF BackType
      <4> QED BY <3>1, <3>3, <4>2, <4>3
    <3>4. CASE k # l
      <4>1. At(i, k)' = At(i, k)
        BY <1>1, <3>4 DEF At
      <4>2. bag'[i][k] = bag[i][k]
        BY <1>2, <2>1, <3>4 DEF BackType
      <4> QED BY <3>1, <4>1, <4>2
    <3> QED BY <3>3, <3>4
  <2>5. Right(i)'
    BY <1>5, <2>4 DEF Right, SourceRight, IsSource, IsTimer, IsObserver
  <2> QED BY <2>2, <2>3, <2>5 DEF RightOK
<1>6. CASE IsTimer(i)
  <2>1. /\ home' = [home EXCEPT ![i] = l] /\ names' = [names EXCEPT ![i] = @ \cup {m}]
        /\ bag' = bag /\ count' = count
    BY <1>6 DEF Put, NoteTimer
  <2>2. BackType'
    BY <1>2, <2>1 DEF BackType
  <2>3. ASSUME NEW j \in Item \ {i} PROVE Right(j)'
    <3>1. home'[j] = home[j] /\ names'[j] = names[j] /\ Right(j)
      BY <1>2, <2>1 DEF BackType, RightOK
    <3> QED BY <1>1, <2>1, <3>1, RightStays
  <2>4. home[i] \in {None, l} /\ TimerRight(i)
    BY <1>3, <1>6 DEF Put, Refused, Right
  <2>5. home'[i] = l /\ names'[i] = names[i] \cup {m} /\ l # None
    BY <1>2, <2>1, ModesAssumption DEF BackType
  <2>6. Places(i) = {l} \X names[i]
    BY <2>4, <2>5 DEF TimerRight
  <2>7. TimerRight(i)'
    BY <1>1, <2>5, <2>6 DEF TimerRight
  <2>8. Right(i)'
    BY <1>6, <2>7 DEF Right, IsSource, IsTimer, IsObserver
  <2> QED BY <2>2, <2>3, <2>8 DEF RightOK
<1>7. CASE IsObserver(i)
  <2>1. /\ home' = IF count[i] = 0 THEN [home EXCEPT ![i] = l] ELSE home
        /\ count' = [count EXCEPT ![i] = @ + 1] /\ bag' = bag /\ names' = names
    BY <1>7 DEF Put, NoteObserver
  <2>2. BackType'
    BY <1>2, <2>1 DEF BackType
  <2>3. ASSUME NEW j \in Item \ {i} PROVE Right(j)'
    <3>1. home'[j] = home[j] /\ count'[j] = count[j] /\ Right(j)
      BY <1>2, <2>1 DEF BackType, RightOK
    <3> QED BY <1>1, <2>1, <3>1, RightStays
  <2>4. ObserverRight(i) /\ <<l, m>> \notin Places(i)
    BY <1>3, <1>7 DEF Put, Refused, Right, Places
  <2>5. Cardinality(Places(i)') = Cardinality(Places(i)) + 1 /\ Cardinality(Places(i)) \in Nat
    BY <1>1, <1>4, <2>4, AddPair, PairsFinite
  <2>6. count'[i] = count[i] + 1
    BY <1>2, <2>1 DEF BackType
  <2>7. home'[i] # None
    <3>1. CASE count[i] = 0
      BY <1>2, <2>1, <3>1, ModesAssumption DEF BackType
    <3>2. CASE count[i] # 0
      BY <2>1, <2>4, <3>2 DEF ObserverRight
    <3> QED BY <3>1, <3>2
  <2>8. ObserverRight(i)'
    BY <2>4, <2>5, <2>6, <2>7 DEF ObserverRight
  <2>9. Right(i)'
    BY <1>7, <2>8 DEF Right, IsSource, IsTimer, IsObserver
  <2> QED BY <2>2, <2>3, <2>9 DEF RightOK
<1> QED BY <1>5, <1>6, <1>7

LEMMA LeaveRight ==
    ASSUME TypeOK, RightOK, NEW l \in Loop, NEW M \in SUBSET Mode, NEW i \in Item,
           Leave(l, M, i), valid' = valid
    PROVE  BackType' /\ RightOK'
<1> DEFINE gone == Gone(l, M, i)  n == Cardinality(gone)
<1>1. /\ gone \in SUBSET Mode /\ {l} \X gone \subseteq Places(i)
      /\ Places(i)' = Places(i) \ ({l} \X gone)
      /\ \A j \in Item \ {i} : Places(j)' = Places(j)
  <2> HIDE DEF gone
  <2>1. /\ Gone(l, M, i) \in SUBSET Mode /\ {l} \X Gone(l, M, i) \subseteq Places(i)
        /\ Places(i)' = Places(i) \ ({l} \X Gone(l, M, i))
        /\ \A j \in Item \ {i} : Places(j)' = Places(j)
    BY TakenOut
  <2> QED BY <2>1 DEF gone
<1> USE Kinds
<1>2. BackType
  BY DEF TypeOK, BackType
<1>3. Right(i)
  BY DEF RightOK
<1>4. Places(i) \in SUBSET (Loop \X Mode)
  BY PlacesIn
<1>5. /\ gone = {} => UNCHANGED back
      /\ gone # {} => /\ IsSource(i) => ForgetSource(l, n, i)
                      /\ IsTimer(i) => ForgetTimer(gone, i)
                      /\ IsObserver(i) => ForgetObserver(n, i)
  BY DEF Leave, Gone, IsSource, IsTimer, IsObserver
<1>6. CASE gone = {}
  <2>1. UNCHANGED <<bag, home, count, names>>
    BY <1>5, <1>6 DEF back
  <2>2. \A j \in Item : Places(j)' = Places(j)
    BY <1>1, <1>6
  <2>3. \A j \in Item : Right(j)'
    BY <2>1, <2>2, RightStays DEF RightOK
  <2> QED BY <1>2, <2>1, <2>3 DEF BackType, RightOK
<1>7. CASE gone # {} /\ IsSource(i)
  <2>1. /\ bag' = [bag EXCEPT ![i][l] = IF @ < n THEN 0 ELSE @ - n]
        /\ home' = home /\ count' = count /\ names' = names
    BY <1>5, <1>7 DEF ForgetSource
  <2>2. n \in Nat
    BY <1>1, <1>4, TakePairs
  <2>3. BackType'
    <3>1. (IF bag[i][l] < n THEN 0 ELSE bag[i][l] - n) \in Nat
      BY <1>2, <2>2 DEF BackType
    <3> QED BY <1>2, <2>1, <3>1 DEF BackType
  <2>4. ASSUME NEW j \in Item \ {i} PROVE Right(j)'
    <3>1. bag'[j] = bag[j] /\ Right(j)
      BY <1>2, <2>1 DEF BackType, RightOK
    <3> QED BY <1>1, <2>1, <3>1, RightStays
  <2>5. ASSUME i \in valid, NEW k \in Loop PROVE bag'[i][k] = Cardinality(At(i, k)')
    <3>1. bag[i][k] = Cardinality(At(i, k)) /\ bag[i] \in [Loop -> Nat]
      BY <1>2, <1>3, <1>7, <2>5 DEF Right, SourceRight, BackType
    <3>2. At(i, k) \in SUBSET (Loop \X Mode)
      BY <1>4 DEF At
    <3>3. CASE k = l
      <4>1. {l} \X gone \subseteq At(i, k) /\ At(i, k)' = At(i, k) \ ({l} \X gone)
        BY <1>1, <3>3 DEF At
      <4>2. Cardinality(At(i, k)') = Cardinality(At(i, k)) - n /\ n <= Cardinality(At(i, k))
        BY <1>1, <3>2, <4>1, TakePairs
      <4>3. bag'[i][l] = IF bag[i][l] < n THEN 0 ELSE bag[i][l] - n
        BY <1>2, <2>1 DEF BackType
      <4> QED BY <2>2, <3>1, <3>3, <4>2, <4>3
    <3>4. CASE k # l
      <4>1. At(i, k)' = At(i, k)
        BY <1>1, <3>4 DEF At
      <4>2. bag'[i][k] = bag[i][k]
        BY <1>2, <2>1, <3>4 DEF BackType
      <4> QED BY <3>1, <4>1, <4>2
    <3> QED BY <3>3, <3>4
  <2>6. Right(i)'
    BY <1>7, <2>5 DEF Right, SourceRight, IsSource, IsTimer, IsObserver
  <2> QED BY <2>3, <2>4, <2>6 DEF RightOK
<1>8. CASE gone # {} /\ IsTimer(i)
  <2>1. /\ names' = [names EXCEPT ![i] = @ \ gone]
        /\ home' = IF names[i] \subseteq gone THEN [home EXCEPT ![i] = None] ELSE home
        /\ bag' = bag /\ count' = count
    BY <1>5, <1>8 DEF ForgetTimer
  <2>2. BackType'
    BY <1>2, <2>1 DEF BackType
  <2>3. ASSUME NEW j \in Item \ {i} PROVE Right(j)'
    <3>1. home'[j] = home[j] /\ names'[j] = names[j] /\ Right(j)
      BY <1>2, <2>1 DEF BackType, RightOK
    <3> QED BY <1>1, <2>1, <3>1, RightStays
  <2>4. TimerRight(i)
    BY <1>3, <1>8 DEF Right
  <2>5. home[i] = l /\ l # None /\ Places(i) = {l} \X names[i]
    <3>1. PICK m \in gone : TRUE
      BY <1>8
    <3>2. <<l, m>> \in ({home[i]} \ {None}) \X names[i]
      BY <1>1, <2>4, <3>1 DEF TimerRight
    <3> QED BY <2>4, <3>2 DEF TimerRight
  <2>6. names'[i] = names[i] \ gone /\ home'[i] = IF names[i] \subseteq gone THEN None ELSE l
    BY <1>2, <2>1, <2>5 DEF BackType
  <2>7. Places(i)' = {l} \X (names[i] \ gone)
    BY <1>1, <2>5
  <2>8. TimerRight(i)'
    BY <2>5, <2>6, <2>7 DEF TimerRight
  <2>9. Right(i)'
    BY <1>8, <2>8 DEF Right, IsSource, IsTimer, IsObserver
  <2> QED BY <2>2, <2>3, <2>9 DEF RightOK
<1>9. CASE gone # {} /\ IsObserver(i)
  <2>1. /\ count' = [count EXCEPT ![i] = @ - n]
        /\ home' = IF count[i] = n THEN [home EXCEPT ![i] = None] ELSE home
        /\ bag' = bag /\ names' = names
    BY <1>5, <1>9 DEF ForgetObserver
  <2>2. ObserverRight(i)
    BY <1>3, <1>9 DEF Right
  <2>3. /\ Cardinality(Places(i)') = Cardinality(Places(i)) - n
        /\ n \in Nat /\ n <= Cardinality(Places(i)) /\ n # 0
        /\ Cardinality(Places(i)) \in Nat
    BY <1>1, <1>4, <1>9, TakePairs, PairsFinite
  <2>4. count[i] - n \in Nat /\ count[i] # 0
    BY <2>2, <2>3, SMTT(30) DEF ObserverRight
  <2>5. BackType'
    BY <1>2, <2>1, <2>4 DEF BackType
  <2>6. ASSUME NEW j \in Item \ {i} PROVE Right(j)'
    <3>1. home'[j] = home[j] /\ count'[j] = count[j] /\ Right(j)
      BY <1>2, <2>1 DEF BackType, RightOK
    <3> QED BY <1>1, <2>1, <3>1, RightStays
  <2>7. count'[i] = count[i] - n /\ home'[i] = IF count[i] = n THEN None ELSE home[i]
    BY <1>2, <2>1 DEF BackType
  <2>8. ObserverRight(i)'
    BY <2>2, <2>3, <2>4, <2>7 DEF ObserverRight
  <2>9. Right(i)'
    BY <1>9, <2>8 DEF Right, IsSource, IsTimer, IsObserver
  <2> QED BY <2>5, <2>6, <2>9 DEF RightOK
<1> QED BY <1>6, <1>7, <1>8, <1>9

-----------------------------------------------------------------------------
(* The steps, with what they work on.                                      *)

Step(t) == \/ \E c \in Calls : Asks(t, c)
           \/ AddToItems(t) \/ NextAdd(t) \/ Insert(t) \/ LeaveLoop(t) \/ EndInvalidate(t)

LEMMA AskStep ==
    ASSUME NEW t \in Thread, NEW c \in Calls, Asks(t, c)
    PROVE  \/ \E l \in Loop, m \in Mode \cup {Common}, i \in Item :
                 Called(l, i) /\ BeginAdd(t, l, m, i)
           \/ \E l \in Loop, m \in Mode, i \in Item : ~Kept(i) /\ Remove(t, l, m, i)
           \/ \E l \in Loop, i \in Item : RemoveCommon(t, l, i)
           \/ \E l \in Loop, m \in Mode : AddCommonMode(t, l, m)
           \/ \E i \in Item : BeginInvalidate(t, i)
<1>1. c[2] \in Loop /\ c[3] \in Mode \cup {Common} /\ c[4] \in Item /\ Called(c[2], c[4])
  BY ModesAssumption DEF Called
<1>2. CASE c[1] = "add" /\ BeginAdd(t, c[2], c[3], c[4])
  BY <1>1, <1>2
<1>3. CASE c[1] = "remove" /\ c[3] # Common /\ Remove(t, c[2], c[3], c[4])
  <2>1. ~Kept(c[4])
    BY <1>3 DEF Kept
  <2> QED BY <1>1, <1>3, <2>1
<1>4. CASE RemoveCommon(t, c[2], c[4])
  BY <1>1, <1>4
<1>5. CASE c[1] = "common" /\ AddCommonMode(t, c[2], c[3])
  <2>1. c[3] \in Mode
    BY <1>5, ModesAssumption
  <2> QED BY <1>1, <1>5, <2>1
<1>6. CASE BeginInvalidate(t, c[4])
  BY <1>1, <1>6
<1> QED BY <1>2, <1>3, <1>4, <1>5, <1>6 DEF Asks

\* Insert puts the one item it has in hand into its mode, or finds it there.
LEMMA InsertStep ==
    ASSUME Structure, NEW t \in Thread, Insert(t)
    PROVE  \E m \in Mode, i \in Item :
              /\ pc[t].at = "insert" /\ pc[t].loop \in Loop /\ pc[t].todo = {<<i, m>>}
              /\ lock[pc[t].loop] \in {None, t}
              /\ \/ /\ Refused(pc[t].loop, m, i)
                    /\ UNCHANGED <<in, bag, home, count, names, late>>
                 \/ /\ Put(pc[t].loop, m, i)
                    /\ late' = IF i \in valid THEN late ELSE late \cup {i}
<1>1. PICK x \in pc[t].todo :
         LET l == pc[t].loop i == x[1] m == x[2] IN
          \/ Refused(l, m, i) /\ UNCHANGED <<in, back, late>>
          \/ /\ ~Refused(l, m, i)
             /\ in' = [in EXCEPT ![l][m] = @ \cup {i}]
             /\ CASE Kind[i] = "source" -> NoteSource(l, i)
                  [] Kind[i] = "timer" -> NoteTimer(l, m, i)
                  [] Kind[i] = "observer" -> NoteObserver(l, i)
             /\ late' = IF i \in valid THEN late ELSE late \cup {i}
  BY DEF Insert
<1>2. pc[t].at = "insert" /\ lock[pc[t].loop] \in {None, t}
  BY DEF Insert, MayLock
<1>3. /\ pc[t].loop \in Loop /\ pc[t].todo \subseteq Item \X Mode
      /\ \A y, z \in pc[t].todo : y = z
  BY <1>2 DEF Structure, PcOK, PcFine
<1>4. x[1] \in Item /\ x[2] \in Mode /\ pc[t].todo = {<<x[1], x[2]>>}
  BY <1>3
<1>5. \/ /\ Refused(pc[t].loop, x[2], x[1])
         /\ UNCHANGED <<in, bag, home, count, names, late>>
      \/ /\ Put(pc[t].loop, x[2], x[1])
         /\ late' = IF x[1] \in valid THEN late ELSE late \cup {x[1]}
  BY <1>1 DEF Put, IsSource, IsTimer, IsObserver, back
<1> QED BY <1>2, <1>3, <1>4, <1>5

\* An invalidation leaves the modes it has noted, and those of the common items.
LEMMA LeaveStep ==
    ASSUME Structure, NEW t \in Thread, LeaveLoop(t)
    PROVE  \E l \in Loop, i \in Item \ valid, M \in SUBSET Mode :
              /\ l \in pc[t].left
              /\ \A x \in pc[t].todo : x[1] = i /\ x[2] \in M
              /\ i \in items[l] => common[l] \subseteq M
              /\ Leave(l, M, i)
              /\ items' = [items EXCEPT ![l] = @ \ {i}]
              /\ pc' = [pc EXCEPT ![t].left = @ \ {l}]
<1>1. /\ pc[t].left \subseteq Loop /\ pc[t].todo \subseteq (Item \ valid) \X Mode
      /\ \A x, y \in pc[t].todo : x[1] = y[1]
  BY DEF LeaveLoop, Structure, PcOK, PcFine
<1> DEFINE noted(i) == {x[2] : x \in {y \in pc[t].todo : y[1] = i}}
           M(l, i) == noted(i) \cup (IF i \in items[l] THEN common[l] ELSE {})
<1>2. PICK l \in pc[t].left, i \in Item :
         /\ noted(i) # {} /\ Leave(l, M(l, i), i)
         /\ items' = [items EXCEPT ![l] = @ \ {i}]
         /\ pc' = [pc EXCEPT ![t].left = @ \ {l}]
  BY DEF LeaveLoop
<1>3. l \in Loop /\ i \in Item \ valid /\ \A x \in pc[t].todo : x[1] = i /\ x[2] \in noted(i)
  BY <1>1, <1>2
<1>4. M(l, i) \in SUBSET Mode
  BY <1>1, <1>3 DEF Structure, TypeOK
<1>5. \A x \in pc[t].todo : x[1] = i /\ x[2] \in M(l, i)
  BY <1>3
<1>6. i \in items[l] => common[l] \subseteq M(l, i)
  OBVIOUS
<1> QED BY <1>2, <1>3, <1>4, <1>5, <1>6

\* What items know stays right in every step.
LEMMA RightStep ==
    ASSUME Structure, RightOK, NEW t \in Thread, Step(t)
    PROVE  BackType' /\ RightOK' /\ in' \in [Loop -> [Mode -> SUBSET Item]]
<1>1. BackType /\ TypeOK /\ in \in [Loop -> [Mode -> SUBSET Item]]
  BY DEF Structure, TypeOK, BackType
<1>2. CASE UNCHANGED <<in, valid, bag, home, count, names>>
  <2>1. \A j \in Item : Places(j)' = Places(j)
    BY <1>2 DEF Places
  <2>2. \A j \in Item : Right(j)'
    BY <1>2, <2>1, RightStays DEF RightOK
  <2> QED BY <1>1, <1>2, <2>2 DEF BackType, RightOK
<1>3. ASSUME NEW l \in Loop, NEW M \in SUBSET Mode, NEW i \in Item, Leave(l, M, i), valid' = valid
      PROVE  BackType' /\ RightOK' /\ in' \in [Loop -> [Mode -> SUBSET Item]]
  BY <1>1, <1>3, LeaveRight, TakenOut
<1>4. CASE Insert(t)
  <2>1. PICK m \in Mode, i \in Item :
           /\ pc[t].loop \in Loop
           /\ \/ UNCHANGED <<in, bag, home, count, names, late>>
              \/ Put(pc[t].loop, m, i)
    BY <1>4, InsertStep
  <2>2. valid' = valid
    BY <1>4 DEF Insert
  <2>3. CASE Put(pc[t].loop, m, i)
    <3>1. in' = [in EXCEPT ![pc[t].loop][m] = @ \cup {i}]
      BY <2>3 DEF Put
    <3> QED BY <1>1, <2>1, <2>2, <2>3, <3>1, PutRight, PutIn
  <2> QED BY <1>2, <2>1, <2>2, <2>3
<1>5. CASE LeaveLoop(t)
  <2>1. PICK l \in Loop, i \in Item \ valid, M \in SUBSET Mode : Leave(l, M, i)
    BY <1>5, LeaveStep
  <2>2. valid' = valid
    BY <1>5 DEF LeaveLoop
  <2> QED BY <1>3, <2>1, <2>2
<1>6. CASE AddToItems(t) \/ NextAdd(t) \/ EndInvalidate(t)
  BY <1>2, <1>6 DEF AddToItems, NextAdd, EndInvalidate, loops, back
<1>7. ASSUME NEW c \in Calls, Asks(t, c)
      PROVE  BackType' /\ RightOK' /\ in' \in [Loop -> [Mode -> SUBSET Item]]
  <2>1. CASE \E l \in Loop, m \in Mode \cup {Common}, i \in Item : BeginAdd(t, l, m, i)
    BY <1>2, <2>1 DEF BeginAdd, loops, back
  <2>2. CASE \E l \in Loop, m \in Mode : AddCommonMode(t, l, m)
    BY <1>2, <2>2 DEF AddCommonMode, back
  <2>3. CASE \E l \in Loop, m \in Mode, i \in Item : Remove(t, l, m, i)
    <3>1. PICK l \in Loop, m \in Mode, i \in Item : Leave(l, {m}, i) /\ valid' = valid
      BY <2>3 DEF Remove
    <3> QED BY <1>3, <3>1
  <2>4. CASE \E l \in Loop, i \in Item : RemoveCommon(t, l, i)
    <3>1. PICK l \in Loop, i \in Item : Leave(l, common[l], i) /\ valid' = valid
      BY <2>4 DEF RemoveCommon
    <3>2. common[l] \in SUBSET Mode
      BY <1>1 DEF TypeOK
    <3> QED BY <1>3, <3>1, <3>2
  <2>5. CASE \E i \in Item : BeginInvalidate(t, i)
    <3>1. PICK i \in Item : BeginInvalidate(t, i)
      BY <2>5
    <3>2. /\ in' = in /\ home' = home /\ count' = count /\ names' = names
          /\ valid' = valid \ {i} /\ bag' = [bag EXCEPT ![i] = [l \in Loop |-> 0]]
      BY <3>1 DEF BeginInvalidate, loops
    <3>3. BackType'
      BY <1>1, <3>2 DEF BackType
    <3>4. \A j \in Item : Places(j)' = Places(j)
      BY <3>2 DEF Places
    <3>5. \A j \in Item : bag'[j] = bag[j] \/ j \notin valid'
      BY <1>1, <3>2 DEF BackType
    <3>6. \A j \in Item : Right(j)'
      BY <3>2, <3>4, <3>5, RightStays DEF RightOK
    <3> QED BY <1>1, <3>2, <3>3, <3>6 DEF RightOK
  <2> QED BY <1>7, <2>1, <2>2, <2>3, <2>4, <2>5, AskStep
<1> QED BY <1>4, <1>5, <1>6, <1>7 DEF Step

-----------------------------------------------------------------------------
(* Types, the steps of calls and the locks.                                *)

PcType == [at : {"idle", "items", "insert", "each", "leave"},
           loop : Loop \cup {None},
           todo : SUBSET (Item \X (Mode \cup {Common})),
           left : SUBSET (Loop \cup (Item \X Mode))]
Holds(t, l) == pc[t].at \in {"insert", "each"} /\ pc[t].loop = l
LockOK == \A l \in Loop : lock[l] # None => Holds(lock[l], l)

\* A thread locks and unlocks only what no other one holds.
LEMMA PcStep ==
    ASSUME Structure, NEW t \in Thread,
           lock' \in [Loop -> Thread \cup {None}],
           \A l \in Loop : lock'[l] = lock[l] \/ {lock[l], lock'[l]} \subseteq {None, t},
           valid' \subseteq valid,
           \A u \in Thread \ {t} : pc'[u] = pc[u],
           PcFine(t)', \A l \in Loop : lock'[l] = t => Holds(t, l)'
    PROVE  PcOK' /\ LockOK'
<1>1. ASSUME NEW u \in Thread \ {t} PROVE PcFine(u)'
  <2>1. PcFine(u) /\ pc'[u] = pc[u] /\ u # None
    BY ModesAssumption DEF Structure, PcOK
  <2>2. pc[u].at = "each" => lock'[pc[u].loop] = u
    <3>1. pc[u].at = "each" => pc[u].loop \in Loop /\ lock[pc[u].loop] = u
      BY <2>1 DEF PcFine
    <3> QED BY <2>1, <3>1
  <2> QED BY <2>1, <2>2 DEF PcFine
<1>2. ASSUME NEW l \in Loop, lock'[l] # None PROVE (Holds(lock[l], l))'
  <2>1. CASE lock'[l] = t
    BY <2>1 DEF Holds
  <2>2. CASE lock'[l] # t
    <3>1. lock'[l] = lock[l] /\ lock[l] \in Thread \ {t}
      BY <1>2, <2>2
    <3>2. Holds(lock[l], l)
      BY <1>2, <3>1 DEF Structure, TypeOK, Holds
    <3> QED BY <3>1, <3>2 DEF Holds
  <2> QED BY <2>1, <2>2
<1> QED BY <1>1, <1>2 DEF PcOK, LockOK

LEMMA StructureStep ==
    ASSUME Structure, RightOK, NEW t \in Thread, Step(t)
    PROVE  Structure'
<1>1. /\ lock \in [Loop -> Thread \cup {None}]
      /\ common \in [Loop -> SUBSET Mode] /\ items \in [Loop -> SUBSET Item]
      /\ valid \subseteq Item /\ late \subseteq Item \ valid
      /\ pc \in [Thread -> PcType]
      /\ \A l \in Loop : lock[l] = t => Holds(t, l)
  BY ModesAssumption DEF Structure, TypeOK, PcType, Holds
<1>2. PcFine(t)
  BY DEF Structure, PcOK
<1>3. ASSUME lock' \in [Loop -> Thread \cup {None}],
             \A l \in Loop : lock'[l] = lock[l] \/ {lock[l], lock'[l]} \subseteq {None, t},
             common' \in [Loop -> SUBSET Mode], items' \in [Loop -> SUBSET Item],
             valid' \subseteq valid, late' \subseteq Item \ valid',
             NEW f \in PcType, pc' = [pc EXCEPT ![t] = f],
             PcFine(t)', \A l \in Loop : lock'[l] = t => Holds(t, l)'
      PROVE  Structure'
  <2>1. pc' \in [Thread -> PcType] /\ \A u \in Thread \ {t} : pc'[u] = pc[u]
    BY <1>1, <1>3
  <2>2. PcOK' /\ LockOK'
    BY <1>3, <2>1, PcStep
  <2>3. BackType' /\ in' \in [Loop -> [Mode -> SUBSET Item]]
    BY RightStep
  <2>4. valid' \subseteq Item
    BY <1>1, <1>3
  <2> QED BY <1>3, <2>1, <2>2, <2>3, <2>4 DEF Structure, TypeOK, BackType, PcType, LockOK, Holds
<1>4. ASSUME NEW l \in Loop, NEW m \in Mode \cup {Common}, NEW i \in Item, BeginAdd(t, l, m, i)
      PROVE  Structure'
  <2> DEFINE f == Call(IF m = Common THEN "items" ELSE "insert", l, {<<i, m>>})
  <2>1. /\ pc[t] = Idle /\ pc' = [pc EXCEPT ![t] = f]
        /\ UNCHANGED <<lock, common, items, valid, late>>
    BY <1>4 DEF BeginAdd, Free, Goes, loops
  <2>2. f \in PcType
    BY DEF Call, PcType
  <2>3. pc'[t] = f
    BY <1>1, <2>1
  <2>4. PcFine(t)'
    BY <2>3 DEF PcFine, Call
  <2>5. \A k \in Loop : lock[k] # t
    BY <1>1, <2>1 DEF Holds, Idle
  <2> HIDE DEF f
  <2> QED BY <1>1, <1>3, <2>1, <2>2, <2>4, <2>5
<1>5. CASE AddToItems(t)
  <2>1. PICK l \in Loop : l = pc[t].loop
    BY <1>2, <1>5 DEF AddToItems, PcFine
  <2>2. PICK i \in {x[1] : x \in pc[t].todo} :
           /\ items' = [items EXCEPT ![l] = @ \cup {i}]
           /\ pc' = [pc EXCEPT ![t] = Call("each", l, {i} \X common[l])]
    BY <1>5, <2>1 DEF AddToItems, Goes
  <2>3. /\ pc[t].at = "items" /\ lock[l] \in {None, t} /\ lock' = [lock EXCEPT ![l] = t]
        /\ UNCHANGED <<common, valid, late>>
    BY <1>5, <2>1 DEF AddToItems, MayLock
  <2>4. i \in Item /\ common[l] \in SUBSET Mode
    BY <1>1, <2>2, <2>3 DEF PcType
  <2> DEFINE f == Call("each", l, {i} \X common[l])
  <2>5. f \in PcType
    BY <2>4 DEF Call, PcType
  <2>6. pc'[t] = f /\ lock'[l] = t /\ items' \in [Loop -> SUBSET Item]
    BY <1>1, <2>2, <2>3, <2>4
  <2>7. PcFine(t)'
    BY <2>6, <2>4 DEF PcFine, Call
  <2>8. \A k \in Loop \ {l} : lock'[k] = lock[k] /\ lock[k] # t
    BY <1>1, <2>3, <2>1 DEF Holds
  <2>9. Holds(t, l)'
    BY <2>6 DEF Holds, Call
  <2>10. lock' \in [Loop -> Thread \cup {None}]
    BY <1>1, <2>3
  <2>11. pc' = [pc EXCEPT ![t] = f]
    BY <2>2
  <2> HIDE DEF f
  <2> QED BY <1>1, <1>3, <2>3, <2>1, <2>5, <2>6, <2>7, <2>8, <2>9, <2>10, <2>11
<1>6. ASSUME NEW l \in Loop, NEW m \in Mode, AddCommonMode(t, l, m)
      PROVE  Structure'
  <2> DEFINE f == Call("each", l, items[l] \X {m})
  <2>1. /\ pc[t] = Idle /\ lock[l] \in {None, t} /\ lock' = [lock EXCEPT ![l] = t]
        /\ common' = [common EXCEPT ![l] = @ \cup {m}] /\ UNCHANGED <<items, valid, late>>
        /\ pc' = [pc EXCEPT ![t] = f]
    BY <1>6, SMTT(30) DEF AddCommonMode, Free, MayLock, Goes
  <2>2. f \in PcType
    BY <1>1 DEF Call, PcType
  <2>3. pc'[t] = f /\ lock'[l] = t /\ common' \in [Loop -> SUBSET Mode]
        /\ lock' \in [Loop -> Thread \cup {None}]
    BY <1>1, <2>1
  <2>4. PcFine(t)'
    BY <1>1, <2>3 DEF PcFine, Call
  <2>5. \A k \in Loop \ {l} : lock'[k] = lock[k] /\ lock[k] # t
    BY <1>1, <2>1 DEF Holds, Idle
  <2>6. Holds(t, l)'
    BY <2>3 DEF Holds, Call
  <2> HIDE DEF f
  <2> QED BY <1>1, <1>3, <2>1, <2>2, <2>3, <2>4, <2>5, <2>6
<1>7. CASE NextAdd(t)
  <2> DEFINE l == pc[t].loop
  <2>1. /\ pc[t].at = "each" /\ l \in Loop /\ lock[l] = t
        /\ pc[t].todo \subseteq Item \X Mode /\ UNCHANGED <<common, items, valid, late>>
    BY <1>2, <1>7 DEF NextAdd, PcFine
  <2>2. CASE pc[t].todo = {}
    <3>1. pc' = [pc EXCEPT ![t] = Idle] /\ lock' = [lock EXCEPT ![l] = None]
      BY <1>7, <2>2 DEF NextAdd, Goes
    <3>2. Idle \in PcType
      BY DEF Idle, PcType
    <3>3. pc'[t] = Idle /\ lock'[l] = None /\ lock' \in [Loop -> Thread \cup {None}]
      BY <1>1, <2>1, <3>1
    <3>4. PcFine(t)'
      BY <3>3 DEF PcFine, Idle
    <3>5. \A k \in Loop \ {l} : lock'[k] = lock[k] /\ lock[k] # t
      BY <1>1, <3>1 DEF Holds
    <3>6. None # t
      BY ModesAssumption
    <3> HIDE DEF l
    <3> QED BY <1>1, <1>3, <2>1, <3>1, <3>2, <3>3, <3>4, <3>5, <3>6
  <2>3. CASE pc[t].todo # {}
    <3>1. PICK x \in pc[t].todo :
             pc' = [pc EXCEPT ![t] =
                      IF Admitted(l, x[1])
                      THEN [Call("insert", l, {x}) EXCEPT !.left = pc[t].todo \ {x}]
                      ELSE Call("each", l, pc[t].todo \ {x})]
      BY <1>7, <2>3 DEF NextAdd, Goes
    <3>2. lock' = lock
      BY <1>7, <2>3 DEF NextAdd
    <3> DEFINE f == IF Admitted(l, x[1])
                    THEN [Call("insert", l, {x}) EXCEPT !.left = pc[t].todo \ {x}]
                    ELSE Call("each", l, pc[t].todo \ {x})
    <3>3. f \in PcType
      BY <2>1 DEF Call, PcType
    <3>4. pc'[t] = f
      BY <1>1, <3>1
    <3>5. PcFine(t)'
      BY <2>1, <3>2, <3>4 DEF PcFine, Call
    <3>6. \A k \in Loop : lock[k] = t => Holds(t, k)'
      BY <1>1, <2>1, <3>4 DEF Holds, Call
    <3>7. pc' = [pc EXCEPT ![t] = f]
      BY <3>1
    <3> HIDE DEF f, l
    <3> QED BY <1>1, <1>3, <2>1, <3>2, <3>3, <3>5, <3>6, <3>7
  <2> QED BY <2>2, <2>3
<1>8. CASE Insert(t)
  <2> DEFINE l == pc[t].loop
             f == IF lock[l] = t THEN Call("each", l, pc[t].left) ELSE Idle
  <2>1. /\ pc' = [pc EXCEPT ![t] = f] /\ UNCHANGED <<lock, common, items, valid>>
    BY <1>8 DEF Insert, Goes
  <2>2. PICK i \in Item : late' = late \/ late' = IF i \in valid THEN late ELSE late \cup {i}
    BY <1>8, InsertStep
  <2>3. pc[t].at = "insert" /\ l \in Loop /\ pc[t].left \subseteq Item \X Mode
    BY <1>2, <1>8 DEF Insert, PcFine
  <2>4. f \in PcType
    BY <2>3 DEF Call, Idle, PcType
  <2>5. pc'[t] = f
    BY <1>1, <2>1
  <2>6. PcFine(t)'
    BY <2>1, <2>3, <2>5 DEF PcFine, Call, Idle
  <2>7. \A k \in Loop : lock[k] = t => Holds(t, k)'
    BY <1>1, <2>5 DEF Holds, Call, Idle
  <2>8. late' \subseteq Item \ valid'
    BY <1>1, <2>1, <2>2
  <2> HIDE DEF f
  <2> QED BY <1>1, <1>3, <2>1, <2>4, <2>6, <2>7, <2>8
<1>9. ASSUME UNCHANGED <<lock, common, valid, pc, late>>, items' \in [Loop -> SUBSET Item]
      PROVE  Structure'
  <2>1. pc' = [pc EXCEPT ![t] = pc[t]] /\ pc[t] \in PcType
    BY <1>1, <1>9
  <2>2. PcFine(t)' /\ \A l \in Loop : lock[l] = t => Holds(t, l)'
    BY <1>1, <1>2, <1>9 DEF PcFine, Holds
  <2> QED BY <1>1, <1>3, <1>9, <2>1, <2>2
<1>10. ASSUME NEW l \in Loop, NEW m \in Mode, NEW i \in Item, Remove(t, l, m, i)
       PROVE  Structure'
  BY <1>1, <1>9, <1>10 DEF Remove
<1>11. ASSUME NEW l \in Loop, NEW i \in Item, RemoveCommon(t, l, i)
       PROVE  Structure'
  <2>1. items' \in [Loop -> SUBSET Item]
    BY <1>1, <1>11 DEF RemoveCommon
  <2> QED BY <1>9, <1>11, <2>1 DEF RemoveCommon
<1>12. ASSUME NEW i \in Item, BeginInvalidate(t, i)
       PROVE  Structure'
  <2> DEFINE known == IF IsSource(i) THEN LoopsOfSource(i) ELSE LoopOf(i)
             modes == IF IsTimer(i) THEN names[i] ELSE Mode
             f == [at |-> "leave", loop |-> None, todo |-> {i} \X modes, left |-> known]
  <2>1. /\ pc[t] = Idle /\ i \in valid /\ valid' = valid \ {i} /\ pc' = [pc EXCEPT ![t] = f]
        /\ UNCHANGED <<lock, common, items, late>>
    BY <1>12 DEF BeginInvalidate, Free, Goes, loops
  <2>2. known \subseteq Loop /\ modes \subseteq Mode
    BY DEF LoopsOfSource, LoopOf, Structure, TypeOK
  <2>3. f \in PcType
    BY <2>2 DEF PcType
  <2>4. pc'[t] = f
    BY <1>1, <2>1
  <2>5. PcFine(t)'
    BY <2>1, <2>2, <2>4 DEF PcFine
  <2>6. \A k \in Loop : lock[k] # t
    BY <1>1, <2>1 DEF Holds, Idle
  <2>7. valid' \subseteq valid /\ late' \subseteq Item \ valid'
    BY <1>1, <2>1
  <2> HIDE DEF f
  <2> QED BY <1>1, <1>3, <2>1, <2>3, <2>5, <2>6, <2>7
<1>13. CASE LeaveLoop(t)
  <2>1. PICK l \in Loop, i \in Item :
           /\ items' = [items EXCEPT ![l] = @ \ {i}]
           /\ pc' = [pc EXCEPT ![t].left = @ \ {l}]
    BY <1>13, LeaveStep
  <2> DEFINE f == [pc[t] EXCEPT !.left = @ \ {l}]
  <2>2. pc[t].at = "leave" /\ UNCHANGED <<lock, common, valid, late>>
    BY <1>13 DEF LeaveLoop
  <2>3. f \in PcType /\ pc' = [pc EXCEPT ![t] = f]
    BY <1>1, <2>1 DEF PcType
  <2>4. /\ pc'[t].at = "leave" /\ pc'[t].todo = pc[t].todo /\ pc'[t].left = pc[t].left \ {l}
    BY <1>1, <2>2, <2>3 DEF PcType
  <2>5. PcFine(t)'
    BY <1>2, <2>2, <2>4 DEF PcFine
  <2>6. \A k \in Loop : lock[k] # t
    BY <1>1, <2>2 DEF Holds
  <2>7. items' \in [Loop -> SUBSET Item]
    BY <1>1, <2>1
  <2> HIDE DEF f
  <2> QED BY <1>1, <1>3, <2>2, <2>3, <2>5, <2>6, <2>7
<1>14. CASE EndInvalidate(t)
  <2>1. /\ pc[t].at = "leave" /\ pc' = [pc EXCEPT ![t] = Idle]
        /\ UNCHANGED <<lock, common, items, valid, late>>
    BY <1>14 DEF EndInvalidate, Goes, loops
  <2>2. Idle \in PcType
    BY DEF Idle, PcType
  <2>3. pc'[t] = Idle
    BY <1>1, <2>1
  <2>4. PcFine(t)'
    BY <2>3 DEF PcFine, Idle
  <2>5. \A k \in Loop : lock[k] # t
    BY <1>1, <2>1 DEF Holds
  <2> QED BY <1>1, <1>3, <2>1, <2>2, <2>4, <2>5
<1> QED BY <1>4, <1>5, <1>6, <1>7, <1>8, <1>10, <1>11, <1>12, <1>13, <1>14, AskStep DEF Step

-----------------------------------------------------------------------------
(* Items only meet the loops they are called for.                          *)

CallFine(t) ==
    /\ pc[t].at \in {"items", "insert", "each"} => \A x \in pc[t].todo : Called(pc[t].loop, x[1])
    /\ pc[t].at = "insert" => \A x \in pc[t].left : Called(pc[t].loop, x[1])

LEMMA CallStep ==
    ASSUME Structure, Structure', RightOK, CallOK, NEW t \in Thread, Step(t)
    PROVE  CallOK'
<1>1. /\ pc \in [Thread -> PcType] /\ PcFine(t) /\ CallFine(t)
      /\ items \in [Loop -> SUBSET Item] /\ common \in [Loop -> SUBSET Mode]
      /\ home \in [Item -> Loop \cup {None}]
  BY DEF Structure, TypeOK, PcType, PcOK, CallOK, CallFine
<1>2. ASSUME NEW f \in PcType, pc' = [pc EXCEPT ![t] = f], CallFine(t)',
             \A l \in Loop : \A i \in items'[l] : Called(l, i),
             \A i \in Item : home'[i] # None => Called(home'[i], i),
             \A i \in Item : \A x \in Places(i)' : Called(x[1], i)
      PROVE  CallOK'
  BY <1>1, <1>2 DEF CallOK, CallFine, Called
<1>3. ASSUME NEW l \in Loop, NEW M \in SUBSET Mode, NEW i \in Item, Leave(l, M, i)
      PROVE  /\ \A j \in Item : home'[j] # None => Called(home'[j], j)
             /\ \A j \in Item : \A x \in Places(j)' : Called(x[1], j)
  <2>1. \A j \in Item : Places(j)' \subseteq Places(j)
    BY <1>3, TakenOut, ZenonT(60) DEF Structure
  <2>2. home' = home \/ home' = [home EXCEPT ![i] = None]
    BY <1>3, ModesAssumption DEF Leave, back, ForgetSource, ForgetTimer, ForgetObserver
  <2>3. \A j \in Item : home'[j] \in {home[j], None}
    BY <1>1, <2>2
  <2> QED BY <2>1, <2>3 DEF CallOK
<1>4. UNCHANGED <<in, home>> => /\ \A i \in Item : home'[i] # None => Called(home'[i], i)
                               /\ \A i \in Item : \A x \in Places(i)' : Called(x[1], i)
  BY DEF CallOK, Places
<1>5. items' = items => \A l \in Loop : \A i \in items'[l] : Called(l, i)
  BY DEF CallOK
<1>6. ASSUME NEW l \in Loop, NEW i \in Item, items' = [items EXCEPT ![l] = @ \ {i}]
      PROVE  \A k \in Loop : \A j \in items'[k] : Called(k, j)
  BY <1>1, <1>6 DEF CallOK
<1>7. pc' \in [Thread -> PcType]
  BY DEF Structure, TypeOK, PcType
<1>8. ASSUME NEW l \in Loop, NEW m \in Mode \cup {Common}, NEW i \in Item,
             Called(l, i), BeginAdd(t, l, m, i)
      PROVE  CallOK'
  <2>1. pc' = [pc EXCEPT ![t] = Call(IF m = Common THEN "items" ELSE "insert", l, {<<i, m>>})]
        /\ UNCHANGED <<items, in, home>>
    BY <1>8 DEF BeginAdd, Goes, loops, back
  <2>2. pc'[t] = Call(IF m = Common THEN "items" ELSE "insert", l, {<<i, m>>})
    BY <1>1, <2>1
  <2>3. CallFine(t)'
    BY <1>8, <2>2 DEF CallFine, Call, Called
  <2> QED BY <1>2, <1>4, <1>5, <1>7, <2>1, <2>2, <2>3
<1>9. CASE AddToItems(t)
  <2> DEFINE l == pc[t].loop
  <2>1. PICK i \in {x[1] : x \in pc[t].todo} :
           /\ items' = [items EXCEPT ![l] = @ \cup {i}]
           /\ pc' = [pc EXCEPT ![t] = Call("each", l, {i} \X common[l])]
    BY <1>9 DEF AddToItems, Goes
  <2>2. l \in Loop /\ Called(l, i) /\ UNCHANGED <<in, home>>
    BY <1>1, <1>9, <2>1 DEF AddToItems, PcFine, CallFine, back
  <2>3. pc'[t] = Call("each", l, {i} \X common[l])
    BY <1>1, <2>1
  <2>4. CallFine(t)'
    BY <2>2, <2>3 DEF CallFine, Call, Called
  <2>5. \A k \in Loop : \A j \in items'[k] : Called(k, j)
    BY <1>1, <2>1, <2>2 DEF CallOK
  <2> QED BY <1>2, <1>4, <1>7, <2>1, <2>2, <2>3, <2>4, <2>5
<1>10. ASSUME NEW l \in Loop, NEW m \in Mode, AddCommonMode(t, l, m)
       PROVE  CallOK'
  <2>1. pc' = [pc EXCEPT ![t] = Call("each", l, items[l] \X {m})] /\ UNCHANGED <<items, in, home>>
    BY <1>10 DEF AddCommonMode, Goes, back
  <2>2. pc'[t] = Call("each", l, items[l] \X {m})
    BY <1>1, <2>1
  <2>3. CallFine(t)'
    BY <2>2 DEF CallFine, Call, Called, CallOK
  <2> QED BY <1>2, <1>4, <1>5, <1>7, <2>1, <2>2, <2>3
<1>11. CASE NextAdd(t)
  <2> DEFINE l == pc[t].loop
  <2>1. pc[t].at = "each" /\ UNCHANGED <<items, in, home>>
    BY <1>11 DEF NextAdd, back
  <2>2. CASE pc' = [pc EXCEPT ![t] = Idle]
    <3>1. pc'[t] = Idle
      BY <1>1, <2>2
    <3>2. CallFine(t)'
      BY <3>1 DEF CallFine, Idle
    <3> QED BY <1>2, <1>4, <1>5, <1>7, <2>1, <2>2, <3>1, <3>2
  <2>3. ASSUME NEW x \in pc[t].todo,
               NEW f, f = IF Admitted(l, x[1])
                          THEN [Call("insert", l, {x}) EXCEPT !.left = pc[t].todo \ {x}]
                          ELSE Call("each", l, pc[t].todo \ {x}),
               pc' = [pc EXCEPT ![t] = f]
        PROVE  CallOK'
    <3>1. pc'[t] = f
      BY <1>1, <2>3
    <3>2. CallFine(t)'
      BY <1>1, <2>1, <2>3, <3>1 DEF CallFine, Call, Called
    <3> QED BY <1>2, <1>4, <1>5, <1>7, <2>1, <2>3, <3>1, <3>2
  <2> QED BY <1>11, <2>2, <2>3 DEF NextAdd, Goes
<1>12. CASE Insert(t)
  <2> DEFINE l == pc[t].loop
             f == IF lock[l] = t THEN Call("each", l, pc[t].left) ELSE Idle
  <2>1. pc' = [pc EXCEPT ![t] = f] /\ items' = items /\ pc[t].at = "insert"
    BY <1>12 DEF Insert, Goes
  <2>2. pc'[t] = f
    BY <1>1, <2>1
  <2>3. CallFine(t)'
    BY <1>1, <2>1, <2>2 DEF CallFine, Call, Idle, Called
  <2>4. PICK m \in Mode, i \in Item :
           /\ l \in Loop /\ pc[t].todo = {<<i, m>>}
           /\ \/ UNCHANGED <<in, bag, home, count, names, late>>
              \/ Put(l, m, i)
    BY <1>12, InsertStep
  <2>5. Called(l, i)
    BY <1>1, <2>1, <2>4 DEF CallFine
  <2>6. CASE Put(l, m, i)
    <3>1. in' = [in EXCEPT ![l][m] = @ \cup {i}]
      BY <2>6 DEF Put
    <3>2. /\ Places(i)' = Places(i) \cup {<<l, m>>}
          /\ \A j \in Item \ {i} : Places(j)' = Places(j)
      BY <2>4, <3>1, PutIn DEF Structure
    <3>3. \A j \in Item : \A x \in Places(j)' : Called(x[1], j)
      BY <2>5, <3>2 DEF CallOK
    <3>4. home' = home \/ home' = [home EXCEPT ![i] = l]
      BY <2>6, Kinds DEF Put, NoteSource, NoteTimer, NoteObserver
    <3>5. \A j \in Item : home'[j] = home[j] \/ (j = i /\ home'[j] = l)
      BY <1>1, <3>4
    <3>6. \A j \in Item : home'[j] # None => Called(home'[j], j)
      BY <2>5, <3>5 DEF CallOK
    <3> QED BY <1>2, <1>5, <1>7, <2>1, <2>2, <2>3, <3>3, <3>6
  <2> QED BY <1>2, <1>4, <1>5, <1>7, <2>1, <2>2, <2>3, <2>4, <2>6
<1>13. ASSUME pc' = pc PROVE CallFine(t)' /\ pc' = [pc EXCEPT ![t] = pc[t]] /\ pc[t] \in PcType
  BY <1>1, <1>13 DEF CallFine, Called
<1>14. ASSUME NEW l \in Loop, NEW m \in Mode, NEW i \in Item, Remove(t, l, m, i)
       PROVE  CallOK'
  <2>1. pc' = pc /\ items' = items /\ Leave(l, {m}, i)
    BY <1>14 DEF Remove
  <2> QED BY <1>2, <1>3, <1>5, <1>13, <2>1
<1>15. ASSUME NEW l \in Loop, NEW i \in Item, RemoveCommon(t, l, i)
       PROVE  CallOK'
  <2>1. pc' = pc /\ items' = [items EXCEPT ![l] = @ \ {i}] /\ Leave(l, common[l], i)
    BY <1>15 DEF RemoveCommon
  <2>2. common[l] \in SUBSET Mode
    BY <1>1
  <2> QED BY <1>2, <1>3, <1>6, <1>13, <2>1, <2>2
<1>16. ASSUME NEW i \in Item, BeginInvalidate(t, i)
       PROVE  CallOK'
  <2>1. UNCHANGED <<items, in, home>>
    BY <1>16 DEF BeginInvalidate, loops
  <2>2. PICK f : f.at = "leave" /\ pc' = [pc EXCEPT ![t] = f]
    <3> DEFINE known == IF IsSource(i) THEN LoopsOfSource(i) ELSE LoopOf(i)
               modes == IF IsTimer(i) THEN names[i] ELSE Mode
               f == [at |-> "leave", loop |-> None, todo |-> {i} \X modes, left |-> known]
    <3>1. f.at = "leave" /\ pc' = [pc EXCEPT ![t] = f]
      BY <1>16 DEF BeginInvalidate, Goes
    <3> HIDE DEF f
    <3> QED BY <3>1
  <2>3. pc'[t] = f
    BY <1>1, <2>2
  <2>4. CallFine(t)'
    BY <2>2, <2>3 DEF CallFine
  <2> QED BY <1>2, <1>4, <1>5, <1>7, <2>1, <2>2, <2>3, <2>4
<1>17. CASE LeaveLoop(t)
  <2>1. PICK l \in Loop, i \in Item \ valid, M \in SUBSET Mode :
           /\ Leave(l, M, i) /\ items' = [items EXCEPT ![l] = @ \ {i}]
           /\ pc' = [pc EXCEPT ![t].left = @ \ {l}]
    BY <1>17, LeaveStep
  <2>2. PICK f : f = [pc[t] EXCEPT !.left = @ \ {l}] /\ pc' = [pc EXCEPT ![t] = f]
    BY <2>1
  <2>3. pc'[t] = f /\ pc[t].at = "leave"
    BY <1>1, <1>17, <2>2 DEF LeaveLoop
  <2>4. f.at = "leave"
    BY <1>1, <2>2, <2>3 DEF PcType
  <2>5. CallFine(t)'
    BY <2>3, <2>4 DEF CallFine
  <2> QED BY <1>2, <1>3, <1>6, <1>7, <2>1, <2>2, <2>3, <2>5
<1>18. CASE EndInvalidate(t)
  <2>1. pc' = [pc EXCEPT ![t] = Idle] /\ UNCHANGED <<items, in, home>>
    BY <1>18 DEF EndInvalidate, Goes, loops, back
  <2>2. pc'[t] = Idle
    BY <1>1, <2>1
  <2>3. CallFine(t)'
    BY <2>2 DEF CallFine, Idle
  <2> QED BY <1>2, <1>4, <1>5, <1>7, <2>1, <2>2, <2>3
<1> QED BY <1>8, <1>9, <1>10, <1>11, <1>12, <1>14, <1>15, <1>16, <1>17, <1>18, AskStep DEF Step

-----------------------------------------------------------------------------
(* An invalidation reaches every place of its item.                        *)

Single(i) == ~IsObserver(i) \/ OneLoop(i)

\* What an invalidation notes: every loop and mode the item is in.
LEMMA Noted ==
    ASSUME Structure, RightOK, CallOK, NEW i \in valid, Single(i), NEW x \in Places(i)
    PROVE  /\ x[1] \in IF IsSource(i) THEN LoopsOfSource(i) ELSE LoopOf(i)
           /\ x[2] \in IF IsTimer(i) THEN names[i] ELSE Mode
<1>1. i \in Item /\ Right(i) /\ x \in Loop \X Mode
  BY DEF Structure, TypeOK, RightOK, Places
<1>2. CASE IsSource(i)
  <2>1. bag[i][x[1]] = Cardinality(At(i, x[1]))
    BY <1>1, <1>2 DEF Right, SourceRight
  <2>2. x \in At(i, x[1]) /\ At(i, x[1]) \in SUBSET (Loop \X Mode)
    BY <1>1 DEF At, Places
  <2>3. bag[i][x[1]] \in Nat /\ bag[i][x[1]] # 0
    BY <2>1, <2>2, PairsFinite
  <2> QED BY <1>1, <1>2, <2>3, Kinds DEF LoopsOfSource
<1>3. CASE IsTimer(i)
  <2>1. x \in ({home[i]} \ {None}) \X names[i]
    BY <1>1, <1>3 DEF Right, TimerRight
  <2> QED BY <1>1, <1>3, <2>1, Kinds DEF LoopOf
<1>4. CASE IsObserver(i)
  <2>1. Cardinality(Places(i)) # 0
    BY <1>1, PlacesIn, PairsFinite
  <2>2. home[i] # None
    BY <1>1, <1>4, <2>1 DEF Right, ObserverRight
  <2>3. Called(home[i], i) /\ Called(x[1], i)
    BY <1>1, <2>2 DEF CallOK
  <2>4. home[i] = x[1]
    BY <1>4, <2>3 DEF Single, OneLoop, Called
  <2> QED BY <1>1, <1>4, <2>2, <2>4, Kinds DEF LoopOf
<1> QED BY <1>1, <1>2, <1>3, <1>4, Kinds

LEMMA PendingStep ==
    ASSUME Structure, RightOK, CallOK, PendingOK, NEW t \in Thread, Step(t)
    PROVE  PendingOK'
<1>1. pc \in [Thread -> PcType] /\ PcFine(t) /\ TypeOK /\ late \subseteq Item \ valid
  BY DEF Structure, TypeOK, PcType, PcOK
<1>2. ASSUME valid' = valid, late \subseteq late',
             \A i \in Item \ (valid \cup late') : Places(i)' \subseteq Places(i),
             NEW f, pc' = [pc EXCEPT ![t] = f], pc[t].at # "leave" \/ pc[t].left = {}
      PROVE  PendingOK'
  <2>1. \A u \in Thread \ {t} : pc'[u] = pc[u]
    BY <1>1, <1>2
  <2>2. ASSUME NEW i \in Item \ (valid' \cup late'), Single(i), NEW x \in Places(i)'
        PROVE  \E u \in Thread : Reaches(u, i, x)'
    <3>1. PICK u \in Thread : Reaches(u, i, x)
      BY <1>2, <2>2 DEF PendingOK, Single
    <3>2. u # t
      BY <1>2, <3>1 DEF Reaches
    <3> QED BY <2>1, <3>1, <3>2 DEF Reaches
  <2> QED BY <2>2 DEF PendingOK, Single, IsObserver, OneLoop
<1>3. pc' = pc => pc' = [pc EXCEPT ![t] = pc[t]]
  BY <1>1
<1>4. UNCHANGED in => \A i \in Item : Places(i)' = Places(i)
  BY DEF Places
<1>5. ASSUME NEW l \in Loop, NEW M \in SUBSET Mode, NEW i \in Item, Leave(l, M, i)
      PROVE  \A j \in Item : Places(j)' \subseteq Places(j)
  <2>1. Places(i)' = Places(i) \ ({l} \X Gone(l, M, i))
    BY <1>1, <1>5, TakenOut
  <2>2. \A j \in Item \ {i} : Places(j)' = Places(j)
    BY <1>1, <1>5, TakenOut
  <2> QED BY <2>1, <2>2
<1>6. ASSUME NEW l \in Loop, NEW m \in Mode \cup {Common}, NEW i \in Item, BeginAdd(t, l, m, i)
      PROVE  PendingOK'
  <2>1. pc[t].at = "idle" /\ UNCHANGED <<in, valid, late>>
        /\ pc' = [pc EXCEPT ![t] = Call(IF m = Common THEN "items" ELSE "insert", l, {<<i, m>>})]
    BY <1>6 DEF BeginAdd, Free, Idle, Goes, loops
  <2> QED BY <1>2, <1>4, <2>1
<1>7. CASE AddToItems(t)
  <2>1. pc[t].at = "items" /\ UNCHANGED <<in, valid, late>>
    BY <1>7 DEF AddToItems
  <2>2. PICK f : pc' = [pc EXCEPT ![t] = f]
    BY <1>7 DEF AddToItems, Goes
  <2> QED BY <1>2, <1>4, <2>1, <2>2
<1>8. ASSUME NEW l \in Loop, NEW m \in Mode, AddCommonMode(t, l, m) PROVE PendingOK'
  <2>1. pc[t].at = "idle" /\ UNCHANGED <<in, valid, late>>
        /\ pc' = [pc EXCEPT ![t] = Call("each", l, items[l] \X {m})]
    BY <1>8 DEF AddCommonMode, Free, Idle, Goes
  <2> QED BY <1>2, <1>4, <2>1
<1>9. CASE NextAdd(t)
  <2>1. pc[t].at = "each" /\ UNCHANGED <<in, valid, late>>
    BY <1>9 DEF NextAdd
  <2>2. PICK f : pc' = [pc EXCEPT ![t] = f]
    BY <1>9 DEF NextAdd, Goes
  <2> QED BY <1>2, <1>4, <2>1, <2>2
<1>10. CASE Insert(t)
  <2>1. pc[t].at = "insert" /\ valid' = valid
    BY <1>10 DEF Insert
  <2>2. PICK f : pc' = [pc EXCEPT ![t] = f]
    BY <1>10 DEF Insert, Goes
  <2>3. PICK m \in Mode, i \in Item :
           /\ pc[t].loop \in Loop
           /\ \/ UNCHANGED <<in, bag, home, count, names, late>>
              \/ /\ Put(pc[t].loop, m, i)
                 /\ late' = IF i \in valid THEN late ELSE late \cup {i}
    BY <1>10, InsertStep
  <2>4. CASE Put(pc[t].loop, m, i) /\ late' = IF i \in valid THEN late ELSE late \cup {i}
    <3>1. in' = [in EXCEPT ![pc[t].loop][m] = @ \cup {i}]
      BY <2>4 DEF Put
    <3>2. \A j \in Item \ {i} : Places(j)' = Places(j)
      BY <1>1, <2>3, <3>1, PutIn
    <3>3. late \subseteq late' /\ \A j \in Item \ (valid \cup late') : j # i
      BY <2>4
    <3>4. \A j \in Item \ (valid \cup late') : Places(j)' \subseteq Places(j)
      BY <3>2, <3>3
    <3> QED BY <1>2, <2>1, <2>2, <3>3, <3>4
  <2> QED BY <1>2, <1>4, <2>1, <2>2, <2>3, <2>4
<1>11. ASSUME NEW l \in Loop, NEW m \in Mode, NEW i \in Item, Remove(t, l, m, i)
       PROVE  PendingOK'
  <2>1. Free(t) /\ UNCHANGED <<valid, pc, late>> /\ Leave(l, {m}, i)
    BY <1>11 DEF Remove
  <2> QED BY <1>2, <1>3, <1>5, <2>1 DEF Free, Idle
<1>12. ASSUME NEW l \in Loop, NEW i \in Item, RemoveCommon(t, l, i) PROVE PendingOK'
  <2>1. Free(t) /\ UNCHANGED <<valid, pc, late>> /\ Leave(l, common[l], i)
    BY <1>12 DEF RemoveCommon
  <2>2. common[l] \in SUBSET Mode
    BY <1>1 DEF TypeOK
  <2> QED BY <1>2, <1>3, <1>5, <2>1, <2>2 DEF Free, Idle
<1>13. ASSUME NEW i \in Item, BeginInvalidate(t, i) PROVE PendingOK'
  <2> DEFINE known == IF IsSource(i) THEN LoopsOfSource(i) ELSE LoopOf(i)
             modes == IF IsTimer(i) THEN names[i] ELSE Mode
  <2>1. /\ pc[t].at = "idle" /\ i \in valid /\ valid' = valid \ {i} /\ UNCHANGED <<in, late>>
        /\ pc' = [pc EXCEPT ![t] = [at |-> "leave", loop |-> None,
                                    todo |-> {i} \X modes, left |-> known]]
    BY <1>13 DEF BeginInvalidate, Free, Idle, Goes, loops
  <2>2. /\ \A u \in Thread \ {t} : pc'[u] = pc[u]
        /\ pc'[t] = [at |-> "leave", loop |-> None, todo |-> {i} \X modes, left |-> known]
    BY <1>1, <2>1
  <2>3. ASSUME NEW j \in Item \ (valid' \cup late'), Single(j), NEW x \in Places(j)'
        PROVE  \E u \in Thread : Reaches(u, j, x)'
    <3>1. x \in Places(j)
      BY <1>4, <2>1, <2>3
    <3>2. CASE j = i
      <4>1. x[1] \in known /\ x[2] \in modes
        BY <2>1, <2>3, <3>1, <3>2, Noted
      <4>2. Reaches(t, i, x)'
        BY <2>2, <4>1 DEF Reaches
      <4> QED BY <3>2, <4>2
    <3>3. CASE j # i
      <4>1. PICK u \in Thread : Reaches(u, j, x)
        BY <2>1, <2>3, <3>1, <3>3 DEF PendingOK, Single
      <4>2. u # t
        BY <2>1, <4>1 DEF Reaches
      <4> QED BY <2>2, <4>1, <4>2 DEF Reaches
    <3> QED BY <3>2, <3>3
  <2> QED BY <2>3 DEF PendingOK, Single, IsObserver, OneLoop
<1>14. CASE LeaveLoop(t)
  <2>1. PICK l \in Loop, i \in Item \ valid, M \in SUBSET Mode :
           /\ \A x \in pc[t].todo : x[1] = i /\ x[2] \in M
           /\ Leave(l, M, i)
           /\ pc' = [pc EXCEPT ![t].left = @ \ {l}]
    BY <1>14, LeaveStep
  <2>2. /\ \A u \in Thread \ {t} : pc'[u] = pc[u]
        /\ pc'[t].at = pc[t].at /\ pc'[t].todo = pc[t].todo /\ pc'[t].left = pc[t].left \ {l}
    BY <1>1, <2>1 DEF PcType
  <2>3. UNCHANGED <<valid, late>>
    BY <1>14 DEF LeaveLoop
  <2>4. /\ \A j \in Item : Places(j)' \subseteq Places(j)
        /\ \A n \in M : i \notin in'[l][n]
    BY <1>1, <1>5, <2>1, TakenOut
  <2>5. ASSUME NEW j \in Item \ (valid' \cup late'), Single(j), NEW x \in Places(j)'
        PROVE  \E u \in Thread : Reaches(u, j, x)'
    <3>1. PICK u \in Thread : Reaches(u, j, x)
      BY <2>3, <2>4, <2>5 DEF PendingOK, Single
    <3>2. CASE u = t
      <4>1. j = i /\ x[2] \in M /\ x[1] \in pc[t].left
        BY <2>1, <3>1, <3>2 DEF Reaches
      <4>2. x[1] # l
        BY <2>4, <2>5, <4>1 DEF Places
      <4> QED BY <2>2, <3>1, <3>2, <4>1, <4>2 DEF Reaches
    <3>3. CASE u # t
      BY <2>2, <3>1, <3>3 DEF Reaches
    <3> QED BY <3>2, <3>3
  <2> QED BY <2>5 DEF PendingOK, Single, IsObserver, OneLoop
<1>15. CASE EndInvalidate(t)
  <2>1. pc[t].left = {} /\ UNCHANGED <<in, valid, late>> /\ pc' = [pc EXCEPT ![t] = Idle]
    BY <1>15 DEF EndInvalidate, Goes, loops
  <2> QED BY <1>2, <1>4, <2>1
<1> QED BY <1>6, <1>7, <1>8, <1>9, <1>10, <1>11, <1>12, <1>13, <1>14, <1>15, AskStep DEF Step

-----------------------------------------------------------------------------
(* The common items are in the common modes, or about to be.               *)

Apt(i) == i \in valid /\ Kept(i) /\ (IsSource(i) \/ OneLoop(i))

\* A pair that a series passes over is not missed: either the item is there, or its
\* loop is another one, which cannot be for an item of one loop.
LEMMA PassedOver ==
    ASSUME Structure, RightOK, CallOK, NEW l \in Loop, NEW m \in Mode, NEW i \in Item,
           Apt(i), Called(l, i)
    PROVE  /\ Admitted(l, i)
           /\ Refused(l, m, i) => i \in in[l][m]
<1>1. ~IsSource(i) => home[i] \in {None, l}
  <2>1. ASSUME ~IsSource(i), home[i] # None PROVE home[i] = l
    <3>1. Called(home[i], i) /\ OneLoop(i)
      BY <2>1 DEF CallOK, Apt
    <3> QED BY <3>1 DEF Called, OneLoop
  <2> QED BY <2>1
<1>2. Admitted(l, i)
  BY <1>1 DEF Admitted, Apt
<1>3. ASSUME IsTimer(i), Refused(l, m, i) PROVE i \in in[l][m]
  <2>1. m \in names[i] /\ TimerRight(i) /\ home[i] \in {None, l}
    BY <1>1, <1>3, Kinds DEF Refused, RightOK, Right
  <2>2. home[i] = l /\ l # None
    BY <2>1, ModesAssumption DEF TimerRight
  <2>3. <<l, m>> \in Places(i)
    BY <2>1, <2>2 DEF TimerRight
  <2> QED BY <2>3 DEF Places
<1> QED BY <1>2, <1>3 DEF Refused

LEMMA CoveredStep ==
    ASSUME Structure, RightOK, CallOK, CoveredOK, NEW t \in Thread, Step(t)
    PROVE  CoveredOK'
<1>1. /\ pc \in [Thread -> PcType] /\ PcFine(t) /\ TypeOK /\ CallFine(t)
      /\ \A l \in Loop : lock[l] = t => Holds(t, l)
      /\ \A l \in Loop : common[l] \in SUBSET Mode /\ items[l] \in SUBSET Item
  BY ModesAssumption DEF Structure, TypeOK, PcType, PcOK, CallOK, CallFine, Holds
\* What there is to show: for a pair that was covered before, that it is in its mode
\* or owed still; and for a new pair.
<1>2. ASSUME \A l \in Loop, m \in Mode, i \in Item :
                Apt(i) /\ i \in items'[l] /\ m \in common'[l] => i \in in'[l][m] \/ Owed(l, i, m)',
             valid' \subseteq valid
      PROVE  CoveredOK'
  BY <1>2 DEF CoveredOK, Apt, Kept, IsSource, OneLoop
<1>3. ASSUME NEW l \in Loop, NEW m \in Mode, NEW i \in Item,
             Apt(i), i \in items[l], m \in common[l]
      PROVE  i \in in[l][m] \/ Owed(l, i, m)
  BY <1>3 DEF CoveredOK, Apt
\* A pair owed by a thread that does not move, or of a loop that is not locked.
<1>4. ASSUME NEW l \in Loop, NEW m \in Mode, NEW i \in Item, Owed(l, i, m),
             lock[l] # t, lock'[l] = lock[l], NEW f, pc' = [pc EXCEPT ![t] = f]
      PROVE  Owed(l, i, m)'
  BY <1>1, <1>4 DEF Owed, TypeOK
<1>5. pc' = pc => pc' = [pc EXCEPT ![t] = pc[t]]
  BY <1>1
<1>6. ASSUME UNCHANGED <<lock, common, items, in>>, valid' \subseteq valid,
             \A l \in Loop : lock[l] # t, NEW f, pc' = [pc EXCEPT ![t] = f]
      PROVE  CoveredOK'
  BY <1>2, <1>3, <1>4, <1>6
<1>7. pc[t].at \in {"idle", "items", "leave"} => \A l \in Loop : lock[l] # t
  BY <1>1 DEF Holds
\* An item is taken out of all the modes of a loop that keeps it no longer.
<1>8. ASSUME NEW l \in Loop, NEW M \in SUBSET Mode, NEW i \in Item, Leave(l, M, i),
             UNCHANGED <<lock, common, valid>>, \A k \in Loop : lock[k] # t,
             \A k \in Loop : items'[k] \subseteq items[k],
             ~Kept(i) \/ i \notin valid \/ i \notin items'[l],
             NEW f, pc' = [pc EXCEPT ![t] = f]
      PROVE  CoveredOK'
  <2>1. ASSUME NEW k \in Loop, NEW m \in Mode, NEW j \in Item,
               Apt(j), j \in items'[k], m \in common'[k]
        PROVE  j \in in'[k][m] \/ Owed(k, j, m)'
    <3>1. j \in in[k][m] \/ Owed(k, j, m)
      BY <1>3, <1>8, <2>1
    <3>2. j # i \/ k # l
      BY <1>8, <2>1 DEF Apt
    <3>3. j \in in[k][m] => j \in in'[k][m]
      BY <1>1, <1>8, <3>2, TakenOut, ZenonT(60)
    <3>4. Owed(k, j, m) => Owed(k, j, m)'
      BY <1>4, <1>8
    <3> QED BY <3>1, <3>3, <3>4
  <2> QED BY <1>2, <1>8, <2>1
<1>9. ASSUME NEW l \in Loop, NEW m \in Mode \cup {Common}, NEW i \in Item, BeginAdd(t, l, m, i)
      PROVE  CoveredOK'
  <2>1. pc[t].at = "idle" /\ UNCHANGED <<lock, common, items, in, valid>>
        /\ pc' = [pc EXCEPT ![t] = Call(IF m = Common THEN "items" ELSE "insert", l, {<<i, m>>})]
    BY <1>9 DEF BeginAdd, Free, Idle, Goes, loops
  <2> QED BY <1>6, <1>7, <2>1
<1>10. CASE AddToItems(t)
  <2>1. PICK l \in Loop : l = pc[t].loop
    BY <1>1, <1>10 DEF AddToItems, PcFine
  <2>2. PICK i \in {x[1] : x \in pc[t].todo} :
           /\ items' = [items EXCEPT ![l] = @ \cup {i}]
           /\ pc' = [pc EXCEPT ![t] = Call("each", l, {i} \X common[l])]
    BY <1>10, <2>1 DEF AddToItems, Goes
  <2>3. /\ pc[t].at = "items" /\ lock[l] \in {None, t} /\ lock' = [lock EXCEPT ![l] = t]
        /\ UNCHANGED <<common, in, valid>>
    BY <1>10, <2>1 DEF AddToItems, MayLock
  <2>4. lock[l] = None /\ lock'[l] = t /\ \A k \in Loop \ {l} : lock'[k] = lock[k]
    BY <1>1, <1>7, <2>3 DEF TypeOK
  <2>5. pc'[t] = Call("each", l, {i} \X common[l])
    BY <1>1, <2>2
  <2>6. ASSUME NEW k \in Loop, NEW m \in Mode, NEW j \in Item,
               Apt(j), j \in items'[k], m \in common'[k]
        PROVE  j \in in'[k][m] \/ Owed(k, j, m)'
    <3>1. CASE k = l /\ j = i
      <4>1. Owed(k, j, m)'
        BY <2>3, <2>4, <2>5, <2>6, <3>1, ModesAssumption DEF Owed, Call
      <4> QED BY <4>1
    <3>2. CASE ~(k = l /\ j = i)
      <4>1. j \in items[k]
        BY <1>1, <2>2, <2>6, <3>2 DEF TypeOK
      <4>2. j \in in[k][m] \/ (k # l /\ Owed(k, j, m))
        BY <1>3, <2>3, <2>4, <2>6, <4>1 DEF Owed
      <4>3. CASE k # l /\ Owed(k, j, m)
        BY <1>4, <1>7, <2>2, <2>3, <2>4, <4>3
      <4> QED BY <2>3, <4>2, <4>3
    <3> QED BY <3>1, <3>2
  <2> QED BY <1>2, <2>3, <2>6
<1>11. ASSUME NEW l \in Loop, NEW n \in Mode, AddCommonMode(t, l, n) PROVE CoveredOK'
  <2>1. /\ pc[t].at = "idle" /\ lock[l] \in {None, t} /\ lock' = [lock EXCEPT ![l] = t]
        /\ common' = [common EXCEPT ![l] = @ \cup {n}] /\ UNCHANGED <<items, in, valid>>
        /\ pc' = [pc EXCEPT ![t] = Call("each", l, items[l] \X {n})]
    BY <1>11 DEF AddCommonMode, Free, Idle, MayLock, Goes
  <2>2. lock[l] = None /\ lock'[l] = t /\ \A k \in Loop \ {l} : lock'[k] = lock[k]
    BY <1>1, <1>7, <2>1 DEF TypeOK
  <2>3. pc'[t] = Call("each", l, items[l] \X {n})
    BY <1>1, <2>1
  <2>4. ASSUME NEW k \in Loop, NEW m \in Mode, NEW j \in Item,
               Apt(j), j \in items'[k], m \in common'[k]
        PROVE  j \in in'[k][m] \/ Owed(k, j, m)'
    <3>1. CASE k = l /\ m = n
      <4>1. Owed(k, j, m)'
        BY <2>1, <2>2, <2>3, <2>4, <3>1, ModesAssumption DEF Owed, Call
      <4> QED BY <4>1
    <3>2. CASE ~(k = l /\ m = n)
      <4>1. m \in common[k] /\ j \in items[k]
        BY <1>1, <2>1, <2>4, <3>2 DEF TypeOK
      <4>2. j \in in[k][m] \/ (k # l /\ Owed(k, j, m))
        BY <1>3, <2>2, <2>4, <4>1 DEF Owed
      <4>3. CASE k # l /\ Owed(k, j, m)
        BY <1>4, <1>7, <2>1, <2>2, <4>3
      <4> QED BY <2>1, <4>2, <4>3
    <3> QED BY <3>1, <3>2
  <2> QED BY <1>2, <2>1, <2>4
<1>12. CASE NextAdd(t)
  <2>1. PICK l \in Loop : l = pc[t].loop
    BY <1>1, <1>12 DEF NextAdd, PcFine
  <2>2. /\ pc[t].at = "each" /\ lock[l] = t /\ pc[t].left = {}
        /\ UNCHANGED <<common, items, in, valid>>
    BY <1>1, <1>12, <2>1 DEF NextAdd, PcFine
  <2>3. \A k \in Loop \ {l} : lock[k] # t
    BY <1>1, <2>1 DEF Holds
  <2>4. CASE pc[t].todo = {}
    <3>1. pc' = [pc EXCEPT ![t] = Idle] /\ lock' = [lock EXCEPT ![l] = None]
      BY <1>12, <2>1, <2>4 DEF NextAdd, Goes
    <3>2. ASSUME NEW k \in Loop, NEW m \in Mode, NEW j \in Item,
                 Apt(j), j \in items'[k], m \in common'[k]
          PROVE  j \in in'[k][m] \/ Owed(k, j, m)'
      <4>1. j \in in[k][m] \/ Owed(k, j, m)
        BY <1>3, <2>2, <3>2
      <4>2. Owed(k, j, m) => k # l
        BY <2>2, <2>4 DEF Owed
      <4>3. CASE k # l /\ Owed(k, j, m)
        <5>1. lock'[k] = lock[k] /\ lock[k] # t
          BY <1>1, <2>3, <3>1, <4>3 DEF TypeOK
        <5> QED BY <1>4, <3>1, <4>3, <5>1
      <4> QED BY <2>2, <4>1, <4>2, <4>3
    <3> QED BY <1>2, <2>2, <3>2
  <2>5. ASSUME NEW x \in pc[t].todo, lock' = lock,
               NEW f, f = IF Admitted(l, x[1])
                          THEN [Call("insert", l, {x}) EXCEPT !.left = pc[t].todo \ {x}]
                          ELSE Call("each", l, pc[t].todo \ {x}),
               pc' = [pc EXCEPT ![t] = f]
        PROVE  CoveredOK'
    <3>1. pc'[t] = f
      BY <1>1, <2>5
    <3>2. ASSUME NEW k \in Loop, NEW m \in Mode, NEW j \in Item,
                 Apt(j), j \in items'[k], m \in common'[k]
          PROVE  j \in in'[k][m] \/ Owed(k, j, m)'
      <4>1. j \in in[k][m] \/ Owed(k, j, m)
        BY <1>3, <2>2, <3>2
      <4>2. CASE k # l /\ Owed(k, j, m)
        BY <1>4, <2>3, <2>5, <4>2
      <4>3. CASE k = l /\ Owed(k, j, m)
        <5>1. <<j, m>> \in pc[t].todo /\ lock[l] # None
          BY <2>2, <4>3 DEF Owed
        <5>2. Called(l, j)
          BY <2>2, <3>2, <4>3 DEF CallOK
        <5>3. Admitted(l, j)
          BY <3>2, <5>2, PassedOver
        <5>4. <<j, m>> \in f.todo \cup f.left
          <6>1. CASE <<j, m>> = x
            <7>1. Admitted(l, x[1])
              BY <5>3, <6>1
            <7> QED BY <2>5, <6>1, <7>1 DEF Call
          <6>2. CASE <<j, m>> # x
            BY <2>5, <5>1, <6>2 DEF Call
          <6> QED BY <6>1, <6>2
        <5> QED BY <2>2, <2>5, <3>1, <4>3, <5>1, <5>4 DEF Owed
      <4> QED BY <2>2, <4>1, <4>2, <4>3
    <3> QED BY <1>2, <2>2, <3>2
  <2> QED BY <1>12, <2>1, <2>4, <2>5 DEF NextAdd, Goes
<1>13. CASE Insert(t)
  <2>1. PICK l \in Loop : l = pc[t].loop
    BY <1>13, InsertStep
  <2>2. PICK f : f = (IF lock[l] = t THEN Call("each", l, pc[t].left) ELSE Idle)
                 /\ pc' = [pc EXCEPT ![t] = f]
    BY <1>13, <2>1 DEF Insert, Goes
  <2>3. PICK m \in Mode, i \in Item :
           /\ pc[t].at = "insert" /\ pc[t].todo = {<<i, m>>}
           /\ \/ Refused(l, m, i) /\ UNCHANGED <<in, bag, home, count, names, late>>
              \/ Put(l, m, i)
    BY <1>13, <2>1, InsertStep
  <2>4. UNCHANGED <<lock, common, items, valid>> /\ pc'[t] = f
    BY <1>1, <1>13, <2>2 DEF Insert
  <2>5. \A k \in Loop \ {l} : lock[k] # t
    BY <1>1, <2>1 DEF Holds
  <2>6. \A k \in Loop, n \in Mode : in[k][n] \subseteq in'[k][n]
    <3>1. CASE Put(l, m, i)
      <4>1. in' = [in EXCEPT ![l][m] = @ \cup {i}]
        BY <3>1 DEF Put
      <4> QED BY <1>1, <4>1, PutIn
    <3> QED BY <2>3, <3>1
  <2>7. Apt(i) /\ Called(l, i) => i \in in'[l][m]
    <3>1. CASE Put(l, m, i)
      <4>1. in' = [in EXCEPT ![l][m] = @ \cup {i}]
        BY <3>1 DEF Put
      <4> QED BY <1>1, <4>1, PutIn
    <3> QED BY <2>3, <3>1, PassedOver
  <2>8. ASSUME NEW k \in Loop, NEW n \in Mode, NEW j \in Item,
               Apt(j), j \in items'[k], n \in common'[k]
        PROVE  j \in in'[k][n] \/ Owed(k, j, n)'
    <3>1. j \in in[k][n] \/ Owed(k, j, n)
      BY <1>3, <2>4, <2>8
    <3>2. CASE lock[k] # t /\ Owed(k, j, n)
      BY <1>4, <2>2, <2>4, <3>2
    <3>3. CASE lock[k] = t /\ Owed(k, j, n)
      <4>1. k = l /\ f = Call("each", l, pc[t].left)
        BY <2>2, <2>5, <3>3
      <4>2. CASE <<j, n>> = <<i, m>>
        <5>1. Called(l, i)
          BY <2>4, <2>8, <4>1, <4>2 DEF CallOK
        <5> QED BY <2>7, <2>8, <4>1, <4>2, <5>1
      <4>3. CASE <<j, n>> \in pc[t].left
        <5>1. <<j, n>> \in pc'[t].todo /\ lock'[k] = t /\ t # None
          BY <2>4, <3>3, <4>1, <4>3, ModesAssumption DEF Call
        <5> QED BY <5>1 DEF Owed
      <4> QED BY <2>3, <3>3, <4>2, <4>3 DEF Owed
    <3> QED BY <2>6, <3>1, <3>2, <3>3
  <2> QED BY <1>2, <2>4, <2>8
<1>14. ASSUME NEW l \in Loop, NEW m \in Mode, NEW i \in Item, ~Kept(i), Remove(t, l, m, i)
       PROVE  CoveredOK'
  <2>1. /\ pc[t].at = "idle" /\ UNCHANGED <<lock, common, items, valid, pc>>
        /\ Leave(l, {m}, i)
    BY <1>14 DEF Remove, Free, Idle
  <2> QED BY <1>5, <1>7, <1>8, <1>14, <2>1
<1>15. ASSUME NEW l \in Loop, NEW i \in Item, RemoveCommon(t, l, i) PROVE CoveredOK'
  <2>1. /\ pc[t].at = "idle" /\ UNCHANGED <<lock, common, valid, pc>>
        /\ Leave(l, common[l], i) /\ items' = [items EXCEPT ![l] = @ \ {i}]
    BY <1>15 DEF RemoveCommon, Free, Idle
  <2>2. i \notin items'[l] /\ \A k \in Loop : items'[k] \subseteq items[k]
    BY <1>1, <2>1 DEF TypeOK
  <2> QED BY <1>1, <1>5, <1>7, <1>8, <2>1, <2>2
<1>16. ASSUME NEW i \in Item, BeginInvalidate(t, i) PROVE CoveredOK'
  <2>1. pc[t].at = "idle" /\ UNCHANGED <<lock, common, items, in>> /\ valid' \subseteq valid
    BY <1>16 DEF BeginInvalidate, Free, Idle, loops
  <2>2. PICK f : pc' = [pc EXCEPT ![t] = f]
    BY <1>16 DEF BeginInvalidate, Goes
  <2> QED BY <1>6, <1>7, <2>1, <2>2
<1>17. CASE LeaveLoop(t)
  <2>1. PICK l \in Loop, i \in Item \ valid, M \in SUBSET Mode :
           /\ Leave(l, M, i) /\ items' = [items EXCEPT ![l] = @ \ {i}]
           /\ pc' = [pc EXCEPT ![t].left = @ \ {l}]
    BY <1>17, LeaveStep
  <2>2. PICK f : pc' = [pc EXCEPT ![t] = f]
    BY <2>1
  <2>3. pc[t].at = "leave" /\ UNCHANGED <<lock, common, valid>>
    BY <1>17 DEF LeaveLoop
  <2>4. \A k \in Loop : items'[k] \subseteq items[k]
    BY <1>1, <2>1 DEF TypeOK
  <2> QED BY <1>7, <1>8, <2>1, <2>2, <2>3, <2>4
<1>18. CASE EndInvalidate(t)
  <2>1. pc[t].at = "leave" /\ UNCHANGED <<lock, common, items, in, valid>>
        /\ pc' = [pc EXCEPT ![t] = Idle]
    BY <1>18 DEF EndInvalidate, Goes, loops
  <2> QED BY <1>6, <1>7, <2>1
<1> QED BY <1>9, <1>10, <1>11, <1>12, <1>13, <1>14, <1>15, <1>16, <1>17, <1>18, AskStep DEF Step

-----------------------------------------------------------------------------
(* The theorems.                                                           *)

LEMMA InitInv == Init => Inv
<1> SUFFICES ASSUME Init PROVE Inv
  OBVIOUS
<1>1. Structure
  BY ModesAssumption DEF Init, Structure, TypeOK, PcOK, PcFine, Idle
<1>2. \A i \in Item : Places(i) = {}
  BY DEF Init, Places
<1>3. RightOK
  <2>1. ASSUME NEW i \in Item PROVE Right(i)
    <3>1. Cardinality(Places(i)) = 0 /\ \A l \in Loop : Cardinality(At(i, l)) = 0
      <4>1. \A l \in Loop : At(i, l) = {}
        BY <1>2 DEF At
      <4> QED BY <1>2, <4>1, FS_EmptySet
    <3>2. SourceRight(i)
      BY <3>1 DEF Init, SourceRight
    <3>3. TimerRight(i)
      BY <1>2 DEF Init, TimerRight
    <3>4. ObserverRight(i)
      BY <3>1 DEF Init, ObserverRight
    <3> QED BY <3>2, <3>3, <3>4 DEF Right
  <2> QED BY <2>1 DEF RightOK
<1>4. CallOK
  BY <1>2 DEF Init, CallOK, Idle
<1>5. PendingOK
  BY <1>2 DEF PendingOK
<1>6. CoveredOK
  BY DEF Init, CoveredOK
<1> QED BY <1>1, <1>3, <1>4, <1>5, <1>6 DEF Inv

LEMMA NextInv == Inv /\ [Next]_vars => Inv'
<1> SUFFICES ASSUME Inv, [Next]_vars PROVE Inv'
  OBVIOUS
<1>1. ASSUME NEW t \in Thread, Step(t) PROVE Inv'
  BY <1>1, StructureStep, RightStep, CallStep, PendingStep, CoveredStep DEF Inv
<1>2. CASE UNCHANGED vars
  <2> USE <1>2 DEF vars
  <2>1. Structure'
    BY DEF Inv, Structure, TypeOK, PcOK, PcFine
  <2>2. \A i \in Item : Places(i)' = Places(i)
    BY DEF Places
  <2>3. RightOK'
    BY <2>2, RightStays DEF Inv, RightOK
  <2>4. CallOK'
    BY <2>2 DEF Inv, CallOK, Called
  <2>5. PendingOK'
    BY <2>2 DEF Inv, PendingOK, Reaches, IsObserver, OneLoop
  <2>6. CoveredOK'
    BY DEF Inv, CoveredOK, Owed, Kept, IsSource, OneLoop
  <2> QED BY <2>1, <2>3, <2>4, <2>5, <2>6 DEF Inv
<1> QED BY <1>1, <1>2 DEF Next, Step

\* The invariant of the rest: types and steps, what items know, whom they are called
\* for, what invalidations have yet to leave and series to put in.
THEOREM Invariance == Spec => []Inv
BY InitInv, NextInv, PTL DEF Spec

\* Types; and only the thread in the middle of a series holds a loop's lock.
THEOREM TypeCorrect == Spec => []TypeOK
<1>1. Inv => TypeOK
  BY DEF Inv, Structure
<1> QED BY <1>1, Invariance, PTL

\* Whatever threads add, remove and invalidate, what an item knows of the loops and
\* modes it is in is so.
THEOREM KnowsItsPlaces == Spec => []BackPointers
<1>1. Inv => BackPointers
  <2> SUFFICES ASSUME RightOK, NEW i \in Item PROVE
        CASE IsSource(i) -> i \in valid => \A l \in Loop :
                              bag[i][l] = Cardinality({x \in Places(i) : x[1] = l})
          [] IsTimer(i)  -> Places(i) = ({home[i]} \ {None}) \X names[i]
          [] OTHER       -> count[i] = Cardinality(Places(i)) /\ (count[i] = 0 <=> home[i] = None)
    BY DEF Inv, BackPointers
  <2>1. Right(i)
    BY DEF RightOK
  <2> QED BY <2>1, Kinds DEF Right, SourceRight, TimerRight, ObserverRight, At
<1> QED BY <1>1, Invariance, PTL

\* When its invalidation is over, an item is in no mode of any loop, unless a call
\* that had tested it before has put it in late.
THEOREM InvalidatedEverywhere == Spec => []InvalidOut
<1>1. Inv => InvalidOut
  <2> SUFFICES ASSUME PendingOK, NEW i \in Item \ (valid \cup late),
                      Kind[i] # "observer" \/ OneLoop(i), ~Leaving(i)
               PROVE  Places(i) = {}
    BY DEF Inv, InvalidOut
  <2>1. ASSUME NEW x \in Places(i) PROVE FALSE
    <3>1. PICK t \in Thread : Reaches(t, i, x)
      BY DEF PendingOK, IsObserver
    <3> QED BY <3>1 DEF Reaches, Leaving
  <2> QED BY <2>1
<1> QED BY <1>1, Invariance, PTL

\* Whenever nobody is in the middle of a series, the valid common items of a loop are
\* in all its common modes, whichever of the two came first.
THEOREM CommonItemsEverywhere == Spec => []CommonCovered
<1>1. Inv => CommonCovered
  BY DEF Inv, CoveredOK, Owed, CommonCovered, Structure, TypeOK
<1> QED BY <1>1, Invariance, PTL
=============================================================================
