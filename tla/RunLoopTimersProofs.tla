------------------------- MODULE RunLoopTimersProofs -------------------------
(***************************************************************************)
(* Theorems about the timers of a mode (RunLoopTimers).  The first sections *)
(* prove what the operators of the module compute for every array: least   *)
(* elements, the search by halving, insertion, removal, collection, the    *)
(* walk that finds the deadlines, and the next date.  The inductive        *)
(* invariant follows, and what it shows.                                   *)
(***************************************************************************)
EXTENDS RunLoopTimers, FiniteSetTheorems, SequenceTheorems, TLAPS

-----------------------------------------------------------------------------
(* Least numbers and induction.  Sets of numbers have least elements        *)
(* because strict inclusion is well-founded on finite sets; induction over  *)
(* a set of numbers, and the existence of a function defined by recursion  *)
(* on 0..n, follow.                                                        *)

\* Every set of numbers that is not empty has a least element.
LEMMA LeastExists ==
    ASSUME NEW S \in SUBSET Nat, S # {}
    PROVE  \E n \in S : \A m \in S : n <= m
<1> DEFINE T == {0..n : n \in S}
           Below == StrictSubsetOrdering(Nat)
<1>1. IsWellFoundedOn(Below, FiniteSubsetsOf(Nat))
  BY FS_StrictSubsetOrderingWellFounded, Zenon
<1>2. T \subseteq FiniteSubsetsOf(Nat)
  <2>1. ASSUME NEW n \in S  PROVE 0..n \in FiniteSubsetsOf(Nat)
    <3>1. 0 \in Int /\ n \in Int  OBVIOUS
    <3>2. IsFiniteSet(0..n)  BY <3>1, FS_Interval, Zenon
    <3>3. 0..n \in SUBSET Nat  OBVIOUS
    <3>4. QED  BY <3>2, <3>3 DEF FiniteSubsetsOf
  <2>2. QED  BY <2>1
<1>3. T # {}  OBVIOUS
<1>4. \E x \in T : \A y \in T : ~ (<<y, x>> \in Below)
  <2> HIDE DEF T, Below
  <2>1. QED  BY <1>1, <1>2, <1>3, WFMin, Zenon
<1>5. PICK n \in S : \A y \in T : ~ (<<y, 0..n>> \in Below)
  BY <1>4
<1>6. ASSUME NEW m \in S, m < n  PROVE FALSE
  <2>1. 0..m \in T  OBVIOUS
  <2>2. 0..m \subseteq 0..n /\ 0..m # 0..n
    <3>1. n \in 0..n /\ n \notin 0..m  BY <1>6
    <3>2. QED  BY <3>1, <1>6
  <2>3. <<0..m, 0..n>> \in Below
    BY <2>2 DEF StrictSubsetOrdering
  <2>4. QED  BY <1>5, <2>1, <2>3
<1>7. QED  BY <1>6

\* It is the one that Least chooses,
LEMMA LeastOf ==
    ASSUME NEW S \in SUBSET Nat, S # {}
    PROVE  Least(S) \in S /\ \A m \in S : Least(S) <= m
BY LeastExists DEF Least

\* and the only one.
LEMMA LeastIs ==
    ASSUME NEW S \in SUBSET Nat, NEW n \in S, \A m \in S : n <= m
    PROVE  Least(S) = n
<1>1. Least(S) \in S /\ Least(S) <= n  BY LeastOf
<1>2. n <= Least(S)  BY <1>1
<1>3. n \in Nat /\ Least(S) \in Nat  BY <1>1
<1>4. QED  BY <1>1, <1>2, <1>3

\* Induction, stated with a set instead of an operator.
LEMMA NatInductionSet ==
    ASSUME NEW S \in SUBSET Nat, 0 \in S, \A n \in S : n + 1 \in S
    PROVE  S = Nat
<1> SUFFICES ASSUME Nat \ S # {} PROVE FALSE OBVIOUS
<1>1. PICK n \in Nat \ S : \A m \in Nat \ S : n <= m
  BY LeastExists
<1>2. n # 0 /\ n - 1 \in Nat OBVIOUS
<1>3. n - 1 \in S  BY <1>1, <1>2
<1>4. QED BY <1>3

\* f is the function on 0..n that begins with a and goes on by G.
Recursive(f, n, a, G) == f = [d \in 0..n |-> IF d = 0 THEN a ELSE G[<<d, f[d - 1]>>]]

\* There is such a function.
LEMMA Recursion ==
    ASSUME NEW n \in Nat, NEW S, NEW a \in S, NEW G \in [(1..n) \X S -> S]
    PROVE  \E f \in [0..n -> S] : Recursive(f, n, a, G)
<1> DEFINE M == {m \in Nat : m <= n => \E f \in [0..m -> S] : Recursive(f, m, a, G)}
<1>1. 0 \in M
  <2> DEFINE f == [d \in 0..0 |-> a]
  <2>1. f \in [0..0 -> S] OBVIOUS
  <2>2. \A d \in 0..0 : f[d] = IF d = 0 THEN a ELSE G[<<d, f[d - 1]>>] OBVIOUS
  <2>3. Recursive(f, 0, a, G)
    BY <2>2, Zenon DEF Recursive
  <2>4. QED BY <2>1, <2>3
<1>2. ASSUME NEW m \in M  PROVE m + 1 \in M
  <2>0. m \in Nat  OBVIOUS
  <2> SUFFICES ASSUME m + 1 <= n
               PROVE  \E f \in [0..(m + 1) -> S] : Recursive(f, m + 1, a, G)
    BY <2>0
  <2>1. PICK f \in [0..m -> S] : Recursive(f, m, a, G)
    BY <2>0
  <2> DEFINE g == [d \in 0..(m + 1) |-> IF d \in 0..m THEN f[d] ELSE G[<<d, f[d - 1]>>]]
  <2>2. ASSUME NEW d \in 0..(m + 1)
        PROVE g[d] \in S /\ g[d] = IF d = 0 THEN a ELSE G[<<d, g[d - 1]>>]
    <3>1. CASE d = 0  BY <3>1, <2>1, <2>0 DEF Recursive
    <3>2. CASE d # 0 
      <4>0. d \in 1..n /\ d \in Int  BY <3>2, <2>0
      <4>1. d - 1 \in 0..m  BY <3>2, <2>0, <4>0
      <4>2. g[d - 1] = f[d - 1]  BY <4>1, <2>0
      <4>3. f[d - 1] \in S BY <4>1, <2>1
      <4>4. g[d] = G[<<d, f[d - 1]>>]  BY <2>1, <3>2 DEF Recursive
      <4>5. G[<<d, f[d - 1]>>] \in S BY <4>0, <4>3
      <4>6. QED BY <4>2, <4>4, <4>5, <3>2
    <3>3. QED BY <3>1, <3>2
  <2>3. g \in [0..(m + 1) -> S]
    BY <2>2
  <2>4. Recursive(g, m + 1, a, G)
    BY <2>2, Zenon DEF Recursive
  <2> HIDE DEF g
  <2>5. QED  BY <2>3, <2>4
<1>3. M = Nat
  <2> HIDE DEF M
  <2>0. M \in SUBSET Nat  BY DEF M
  <2>1. QED  BY <1>1, <1>2, <2>0, NatInductionSet
<1>4. QED  BY <1>3

\* Bits is the function its definition says: 1, 2, 4, ...
LEMMA BitsDef ==
    ASSUME NEW n \in Nat
    PROVE  \A k \in 0..n : Bits(n)[k] = IF k = 0 THEN 1 ELSE 2 * Bits(n)[k - 1]
<1> DEFINE G == [x \in (1..n) \X Nat |-> 2 * x[2]]
           P(B) == B = [k \in 0..n |-> IF k = 0 THEN 1 ELSE 2 * B[k - 1]]
<1>0. G \in [(1..n) \X Nat -> Nat] OBVIOUS
<1>1. PICK f \in [0..n -> Nat] : Recursive(f, n, 1, G)
  <2> HIDE DEF G
  <2>1. QED BY <1>0, Recursion
<1>2. \A k \in 0..n : f[k] = IF k = 0 THEN 1 ELSE 2 * f[k - 1]
  <2> SUFFICES ASSUME NEW k \in 0..n PROVE f[k] = IF k = 0 THEN 1 ELSE 2 * f[k - 1]
    OBVIOUS
  <2>1. CASE k = 0 BY <1>1, <2>1 DEF Recursive
  <2>2. CASE k # 0
    <3>1. k \in 1..n /\ k - 1 \in 0..n BY <2>2
    <3>2. f[k - 1] \in Nat BY <3>1
    <3>3. f[k] = G[<<k, f[k - 1]>>] BY <1>1, <2>2 DEF Recursive
    <3>4. QED BY <3>1, <3>2, <3>3, <2>2
  <2>3. QED BY <2>1, <2>2
<1>3. P(f)  BY <1>2, Zenon
<1>4. Bits(n) = CHOOSE B : P(B) BY DEF Bits
<1> HIDE DEF P
<1>5. P(Bits(n)) BY <1>3, <1>4, Zenon
<1>6. QED BY <1>5 DEF P

\* 1 << k is greater than k, and twice the one before.
LEMMA BitsRight ==
    ASSUME NEW n \in Nat
    PROVE  /\ \A k \in 0..n : Bits(n)[k] \in Nat /\ k < Bits(n)[k]
           /\ Bits(n)[0] = 1
           /\ \A k \in 1..n : Bits(n)[k] = 2 * Bits(n)[k - 1]
<1> DEFINE M == {k \in Nat : k <= n => Bits(n)[k] \in Nat /\ k < Bits(n)[k]}
<1>1. 0 \in M  BY BitsDef
<1>2. ASSUME NEW m \in M  PROVE m + 1 \in M
  <2>0. m \in Nat /\ m + 1 \in Nat  OBVIOUS
  <2> SUFFICES ASSUME m + 1 <= n
               PROVE  Bits(n)[m + 1] \in Nat /\ m + 1 < Bits(n)[m + 1]
    BY <2>0
  <2>1. Bits(n)[m] \in Nat /\ m < Bits(n)[m]  BY <2>0
  <2>2. Bits(n)[m + 1] = 2 * Bits(n)[m]
    <3>1. m + 1 \in 0..n /\ m + 1 # 0 /\ (m + 1) - 1 = m  BY <2>0
    <3>2. QED  BY <3>1, BitsDef
  <2> HIDE DEF M
  <2>3. QED  BY <2>0, <2>1, <2>2
<1>3. M = Nat
  <2> HIDE DEF M
  <2>0. M \in SUBSET Nat  BY DEF M
  <2>1. QED  BY <1>1, <1>2, <2>0, NatInductionSet
<1>4. QED  BY <1>3, BitsDef

\* The first test of the search is at a distance above the count.
LEMMA FlslRight ==
    ASSUME NEW n \in Nat
    PROVE  Flsl(n) \in 0..n /\ n < Bits(n)[Flsl(n)]
<1> DEFINE S == {k \in 0..n : n < Bits(n)[k]}
<1>1. n \in S  BY BitsRight
<1>2. S \in SUBSET Nat /\ S # {}  BY <1>1
<1>3. Least(S) \in S
  <2> HIDE DEF S
  <2>1. QED BY <1>2, LeastOf
<1>4. QED  BY <1>3 DEF Flsl

\* Halving is the function its definition says.
LEMMA HalvingDef ==
    ASSUME NEW seq \in Seq(Timer), NEW f, NEW key
    PROVE  \A d \in 0..(Flsl(Len(seq)) + 1) :
             Halving(seq, f, key)[d] = [idx \in 0..Len(seq) |->
               IF d = 0 THEN IF LEQ(seq, f, key, idx) THEN idx + 1 ELSE idx
               ELSE LET test == idx + Bits(Len(seq))[d - 1]
                    IN Halving(seq, f, key)[d - 1]
                         [IF LEQ(seq, f, key, test) THEN test ELSE idx]]
<1> DEFINE n == Len(seq)
           K == Flsl(n) + 1
           Places == [0..n -> 0..n]
           a == [idx \in 0..n |-> IF LEQ(seq, f, key, idx) THEN idx + 1 ELSE idx]
           To(d, idx) == IF LEQ(seq, f, key, idx + Bits(n)[d - 1])
                         THEN idx + Bits(n)[d - 1] ELSE idx
           G == [x \in (1..K) \X Places |-> [idx \in 0..n |-> x[2][To(x[1], idx)]]]
           P(S) == S = [d \in 0..K |-> [idx \in 0..n |->
                     IF d = 0 THEN IF LEQ(seq, f, key, idx) THEN idx + 1 ELSE idx
                     ELSE LET test == idx + Bits(n)[d - 1]
                          IN S[d - 1][IF LEQ(seq, f, key, test) THEN test ELSE idx]]]
<1>0. n \in Nat /\ K \in Nat
  <2>1. n \in Nat OBVIOUS
  <2>2. QED BY <2>1, FlslRight
<1>1. a \in Places  BY <1>0 DEF LEQ
<1>2. ASSUME NEW d \in 1..K, NEW idx \in 0..n  PROVE To(d, idx) \in 0..n
  <2>1. d - 1 \in 0..n  BY <1>0, FlslRight
  <2>2. Bits(n)[d - 1] \in Nat  BY <2>1, <1>0, BitsRight
  <2>3. QED  BY <2>2, <1>0 DEF LEQ
<1>3. G \in [(1..K) \X Places -> Places]
  <2> HIDE DEF To, K, n
  <2>1. QED BY <1>2
<1>4. PICK g \in [0..K -> Places] : Recursive(g, K, a, G)
  <2> HIDE DEF a, G, K, Places
  <2>1. QED BY <1>0, <1>1, <1>3, Recursion
<1>5. ASSUME NEW d \in 0..K
      PROVE  g[d] = [idx \in 0..n |->
                     IF d = 0 THEN IF LEQ(seq, f, key, idx) THEN idx + 1 ELSE idx
                     ELSE LET test == idx + Bits(n)[d - 1]
                          IN g[d - 1][IF LEQ(seq, f, key, test) THEN test ELSE idx]]
  <2>1. CASE d = 0
    <3>1. g[d] = a  BY <1>4, <2>1 DEF Recursive
    <3>2. QED  BY <3>1, <2>1
  <2>2. CASE d # 0
    <3>1. d \in 1..K /\ d - 1 \in 0..K  BY <2>2, <1>0
    <3>2. g[d - 1] \in Places  BY <3>1
    <3>3. g[d] = G[<<d, g[d - 1]>>]  BY <1>4, <2>2 DEF Recursive
    <3>4. G[<<d, g[d - 1]>>] = [idx \in 0..n |-> g[d - 1][To(d, idx)]]
      <4> HIDE DEF To, K, n, Places
      <4>1. QED  BY <3>1, <3>2
    <3>5. QED  BY <3>3, <3>4, <2>2
  <2>3. QED  BY <2>1, <2>2
<1>6. P(g)
  <2>1. g = [d \in 0..K |-> g[d]]  BY <1>4
  <2> HIDE DEF K, n, Places, a, G
  <2>2. QED  BY <2>1, <1>5, Zenon
<1>7. Halving(seq, f, key) = CHOOSE S : P(S)
  BY DEF Halving
<1> HIDE DEF P
<1>8. P(Halving(seq, f, key))  BY <1>6, <1>7, Zenon
<1> HIDE DEF K, n, Places, a, G
<1>9. \A d \in 0..K : Halving(seq, f, key)[d] = [idx \in 0..n |->
               IF d = 0 THEN IF LEQ(seq, f, key, idx) THEN idx + 1 ELSE idx
               ELSE LET test == idx + Bits(n)[d - 1]
                    IN Halving(seq, f, key)[d - 1]
                         [IF LEQ(seq, f, key, test) THEN test ELSE idx]]
  BY <1>8 DEF P
<1>10. QED BY <1>9 DEF K, n

-----------------------------------------------------------------------------
(* The search by halving.                                                  *)

\* What the array keeps, whatever is done to it.
Sorted(seq, f) == \A i, j \in 1..Len(seq) : i < j => f[seq[i]] <= f[seq[j]]
Distinct(seq) == \A i, j \in 1..Len(seq) : seq[i] = seq[j] => i = j

\* c elements of seq are not later than key, the first ones.
Cut(seq, f, key, c) == \A i \in Nat : LEQ(seq, f, key, i) <=> i < c

\* A sorted array can be cut at any date.
LEMMA CutExists ==
    ASSUME NEW seq \in Seq(Timer), NEW f \in [Timer -> Nat], NEW key \in Nat,
           Sorted(seq, f)
    PROVE  \E c \in 0..Len(seq) : Cut(seq, f, key, c)
<1> DEFINE S == {i \in 0..Len(seq) : ~ LEQ(seq, f, key, i)}
<1>0. Len(seq) \in Nat  OBVIOUS
<1>1. Len(seq) \in S  BY <1>0 DEF LEQ
<1>2. S \in SUBSET Nat /\ S # {}  BY <1>1
<1>3. PICK c \in S : \A i \in S : c <= i
  <2> HIDE DEF S
  <2>1. QED  BY <1>2, LeastExists
<1>4. ASSUME NEW i \in Nat  PROVE LEQ(seq, f, key, i) <=> i < c
  <2>0. c \in 0..Len(seq) /\ c \in Nat /\ ~ LEQ(seq, f, key, c)  OBVIOUS
  <2>1. CASE i < c
    <3>1. i \in 0..Len(seq) /\ ~ (c <= i)  BY <2>0, <2>1
    <3>2. QED  BY <3>1, <1>3, <2>1
  <2>2. CASE c <= i /\ i < Len(seq)
    <3>1. c + 1 \in 1..Len(seq) /\ i + 1 \in 1..Len(seq)  BY <2>0, <2>2
    <3>2. seq[c + 1] \in Timer /\ seq[i + 1] \in Timer  BY <3>1
    <3>3. f[seq[c + 1]] \in Nat /\ f[seq[i + 1]] \in Nat  BY <3>2
    <3>4. key < f[seq[c + 1]]  BY <2>0, <2>2, <3>3, <1>0 DEF LEQ
    <3>5. f[seq[c + 1]] <= f[seq[i + 1]]
      <4>1. CASE c = i  BY <4>1, <3>3
      <4>2. CASE c # i
        <5>1. c + 1 < i + 1  BY <4>2, <2>0, <2>2
        <5>2. QED  BY <5>1, <3>1 DEF Sorted
      <4>3. QED  BY <4>1, <4>2
    <3>6. ~ (f[seq[i + 1]] <= key)  BY <3>3, <3>4, <3>5
    <3>7. QED  BY <3>6, <2>0, <2>2 DEF LEQ
  <2>3. CASE Len(seq) <= i
    <3>1. ~ (i < c) /\ ~ (i < Len(seq))  BY <2>0, <2>3, <1>0
    <3>2. QED  BY <3>1 DEF LEQ
  <2>4. QED  BY <2>0, <2>1, <2>2, <2>3, <1>0
<1>5. c \in 0..Len(seq)  OBVIOUS
<1>6. QED  BY <1>4, <1>5 DEF Cut

\* The halving search finds the cut: after the test at distance b, the cut is
\* at most b further on.
LEMMA HalvingRight ==
    ASSUME NEW seq \in Seq(Timer), NEW f, NEW key, NEW c \in 0..Len(seq),
           Cut(seq, f, key, c)
    PROVE  Halving(seq, f, key)[Flsl(Len(seq)) + 1][0] = c
<1> DEFINE n == Len(seq)
           K == Flsl(n) + 1
           Reach(d) == IF d = 0 THEN 1 ELSE 2 * Bits(n)[d - 1]
           Found(d) == \A idx \in 0..n : idx <= c /\ c <= idx + Reach(d)
                                            => Halving(seq, f, key)[d][idx] = c
           M == {d \in Nat : d <= K => Found(d)}
<1>0. n \in Nat /\ K \in Nat /\ K - 1 \in 0..n /\ c \in Nat
  <2>1. n \in Nat /\ c \in Nat  OBVIOUS
  <2>2. Flsl(n) \in 0..n  BY <2>1, FlslRight
  <2> HIDE DEF n
  <2>3. QED  BY <2>1, <2>2
<1>1. 0 \in M
  <2> SUFFICES ASSUME NEW idx \in 0..n, idx <= c, c <= idx + 1
               PROVE  Halving(seq, f, key)[0][idx] = c
    OBVIOUS
  <2>1. 0 \in 0..K  BY <1>0
  <2>2. Halving(seq, f, key)[0][idx] = IF LEQ(seq, f, key, idx) THEN idx + 1 ELSE idx
    <3>1. Halving(seq, f, key)[0] =
            [i \in 0..n |-> IF LEQ(seq, f, key, i) THEN i + 1 ELSE i]
      BY <2>1, HalvingDef
    <3> HIDE DEF n
    <3>2. QED  BY <3>1
  <2>3. idx \in Nat /\ (LEQ(seq, f, key, idx) <=> idx < c)  BY DEF Cut
  <2> HIDE DEF n, K
  <2>4. QED  BY <2>2, <2>3, <1>0
<1>2. ASSUME NEW e \in M  PROVE e + 1 \in M
  <2> DEFINE d == e + 1
             b == Bits(n)[e]
  <2>0. e \in Nat /\ d \in Nat /\ d # 0 /\ d - 1 = e  OBVIOUS
  <2> SUFFICES ASSUME d <= K, NEW idx \in 0..n, idx <= c, c <= idx + 2 * b
               PROVE  Halving(seq, f, key)[d][idx] = c
    BY <2>0
  <2>1. e \in 0..n /\ d \in 0..K /\ e <= K  BY <2>0, <1>0
  <2>2. b \in Nat  BY <2>1, <1>0, BitsRight
  <2> DEFINE to == IF LEQ(seq, f, key, idx + b) THEN idx + b ELSE idx
  <2>3. Halving(seq, f, key)[d][idx] = Halving(seq, f, key)[e][to]
    <3>1. Halving(seq, f, key)[d] = [i \in 0..n |->
            Halving(seq, f, key)[e]
              [IF LEQ(seq, f, key, i + b) THEN i + b ELSE i]]
      <4>1. Halving(seq, f, key)[d] = [i \in 0..n |->
              IF d = 0 THEN IF LEQ(seq, f, key, i) THEN i + 1 ELSE i
              ELSE LET test == i + Bits(n)[d - 1]
                   IN Halving(seq, f, key)[d - 1]
                        [IF LEQ(seq, f, key, test) THEN test ELSE i]]
        <5> HIDE DEF d
        <5>1. QED  BY <2>1, HalvingDef
      <4> HIDE DEF d, n
      <4>2. QED  BY <4>1, <2>0
    <3> HIDE DEF n, d
    <3>2. QED  BY <3>1
  <2>4. idx + b \in Nat /\ (LEQ(seq, f, key, idx + b) <=> idx + b < c)
    <3>1. idx + b \in Nat  BY <2>2
    <3>2. QED  BY <3>1 DEF Cut
  <2>5. to \in 0..n /\ to <= c /\ c <= to + b
    <3>1. idx \in Nat /\ idx <= n /\ c <= n OBVIOUS
    <3> HIDE DEF b, n, K
    <3>2. QED  BY <2>2, <2>4, <1>0, <3>1
  <2>6. Reach(e) = b
    <3>1. CASE e = 0  BY <3>1, <1>0, BitsRight
    <3>2. CASE e # 0
      <4>1. e \in 1..n  BY <3>2, <2>1, <2>0
      <4>2. QED  BY <4>1, <3>2, <1>0, BitsRight
    <3>3. QED  BY <3>1, <3>2
  <2>7. Found(e)  BY <2>1
  <2> HIDE DEF to, n, K, Reach, M
  <2>8. QED  BY <2>3, <2>5, <2>6, <2>7
<1>3. M = Nat
  <2> HIDE DEF M
  <2>0. M \in SUBSET Nat  BY DEF M
  <2>1. QED  BY <1>1, <1>2, <2>0, NatInductionSet
<1>4. Found(K)  BY <1>0, <1>3
<1>5. 0 <= c /\ c <= 0 + Reach(K)
  <2>1. n < Bits(n)[K - 1] /\ Bits(n)[K - 1] \in Nat
    <3>1. n \in Nat  OBVIOUS
    <3>2. Flsl(n) \in 0..n /\ n < Bits(n)[Flsl(n)]  BY <3>1, FlslRight
    <3>3. Bits(n)[Flsl(n)] \in Nat  BY <3>1, <3>2, BitsRight
    <3>4. K - 1 = Flsl(n)  BY <3>2
    <3> HIDE DEF n, K
    <3>5. QED  BY <3>2, <3>3, <3>4
  <2>2. c <= n  OBVIOUS
  <2>3. K # 0  BY <1>0
  <2> HIDE DEF n, K
  <2>4. QED  BY <2>1, <2>2, <2>3, <1>0
<1>6. Halving(seq, f, key)[K][0] = c
  <2>1. 0 \in 0..n  BY <1>0
  <2> HIDE DEF n, K, Reach
  <2>2. QED  BY <1>4, <1>5, <2>1
<1>7. QED  BY <1>6

\* __CFRunLoopInsertionIndexInTimerArray on a sorted array returns the number
\* of timers that are not later than the key.
LEMMA SearchRight ==
    ASSUME NEW seq \in Seq(Timer), NEW f \in [Timer -> Nat], NEW key \in Nat,
           Sorted(seq, f)
    PROVE  /\ Search(seq, f, key) \in 0..Len(seq)
           /\ \A i \in 1..Len(seq) : f[seq[i]] <= key <=> i <= Search(seq, f, key)
<1>1. PICK c \in 0..Len(seq) : Cut(seq, f, key, c)  BY CutExists
<1> DEFINE n == Len(seq)
<1>2. Search(seq, f, key) = c
  <2>1. n \in Nat /\ (n # 0 => 1 \in 1..n /\ n \in 1..n)  OBVIOUS
  <2>2. Many \in Nat  BY TimerAssumption
  \* The last element is not later than the key: all of them are before it.
  <2>3. CASE n > Many /\ f[seq[n]] <= key
    <3>1. n - 1 \in Nat /\ (n - 1) + 1 = n /\ n - 1 < n  BY <2>1, <2>2, <2>3
    <3>2. LEQ(seq, f, key, n - 1)  BY <2>3, <3>1 DEF LEQ
    <3>3. n - 1 < c  BY <1>1, <3>1, <3>2 DEF Cut
    <3>4. c = n
      <4>1. c \in 0..n  OBVIOUS
      <4> HIDE DEF n
      <4>2. QED  BY <2>1, <3>1, <3>3, <4>1
    <3>5. Search(seq, f, key) = n  BY <2>3 DEF Search
    <3>6. QED  BY <3>4, <3>5
  \* The first one is later: none is.
  <2>4. CASE n > Many /\ ~ (f[seq[n]] <= key) /\ key < f[seq[1]]
    <3>1. n # 0  BY <2>1, <2>2, <2>4
    <3>2. f[seq[1]] \in Nat
      <4>1. seq[1] \in Timer  BY <2>1, <3>1
      <4>2. QED  BY <4>1
    <3>3. ~ (f[seq[0 + 1]] <= key)  BY <2>4, <3>2
    <3>4. ~ LEQ(seq, f, key, 0)  BY <3>3 DEF LEQ
    <3>5. ~ (0 < c)  BY <1>1, <3>4 DEF Cut
    <3>6. c = 0  BY <3>5
    <3>7. Search(seq, f, key) = 0  BY <2>4 DEF Search
    <3>8. QED  BY <3>6, <3>7
  <2>5. CASE /\ ~ (n > Many /\ f[seq[n]] <= key)
             /\ ~ (n > Many /\ key < f[seq[1]])
    <3>1. Search(seq, f, key) = Halving(seq, f, key)[Flsl(n) + 1][0]
      BY <2>5, Zenon DEF Search
    <3>2. QED  BY <1>1, <3>1, HalvingRight
  <2>6. QED  BY <2>3, <2>4, <2>5
<1> HIDE DEF n
<1>3. ASSUME NEW i \in 1..Len(seq)  PROVE f[seq[i]] <= key <=> i <= c
  <2>1. i - 1 \in Nat /\ (i - 1) + 1 = i /\ i - 1 < Len(seq)  OBVIOUS
  <2>2. f[seq[i]] <= key <=> LEQ(seq, f, key, i - 1)  BY <2>1 DEF LEQ
  <2>3. LEQ(seq, f, key, i - 1) <=> i - 1 < c  BY <1>1, <2>1 DEF Cut
  <2>4. QED  BY <2>2, <2>3
<1>4. QED  BY <1>2, <1>3

-----------------------------------------------------------------------------
(* Insertion and removal.                                                  *)

\* seq with t after its first i elements
Put(seq, t, i) == SubSeq(seq, 1, i) \o <<t>> \o SubSeq(seq, i + 1, Len(seq))

\* What Put returns.
LEMMA PutRight ==
    ASSUME NEW seq \in Seq(Timer), NEW t \in Timer, NEW i \in 0..Len(seq)
    PROVE  /\ Put(seq, t, i) \in Seq(Timer) /\ Len(Put(seq, t, i)) = Len(seq) + 1
           /\ \A k \in 1..(Len(seq) + 1) :
                Put(seq, t, i)[k] = IF k <= i THEN seq[k]
                                    ELSE IF k = i + 1 THEN t ELSE seq[k - 1]
<1> DEFINE s == Put(seq, t, i)
           a == SubSeq(seq, 1, i)
           b == SubSeq(seq, i + 1, Len(seq))
           m == <<t>>
<1>0. Len(seq) \in Nat /\ i \in Nat /\ i <= Len(seq)  OBVIOUS
<1>1. /\ a \in Seq(Timer) /\ Len(a) = i
      /\ \A k \in 1..i : a[k] = seq[k]
  BY <1>0
<1>2. /\ b \in Seq(Timer) /\ Len(b) = Len(seq) - i
      /\ \A k \in 1..(Len(seq) - i) : b[k] = seq[i + k]
  BY <1>0
<1>3. m \in Seq(Timer) /\ Len(m) = 1 /\ m[1] = t
  OBVIOUS
<1> HIDE DEF a, b, m
<1>4. /\ a \o m \in Seq(Timer) /\ Len(a \o m) = i + 1
      /\ \A k \in 1..(i + 1) : (a \o m)[k] = IF k <= i THEN seq[k] ELSE t
  <2>1. /\ a \o m \in Seq(Timer) /\ Len(a \o m) = Len(a) + Len(m)
        /\ \A k \in 1..(Len(a) + Len(m)) :
             (a \o m)[k] = IF k <= Len(a) THEN a[k] ELSE m[k - Len(a)]
    BY <1>1, <1>3, ConcatProperties, Zenon
  <2>2. ASSUME NEW k \in 1..(i + 1)
        PROVE (a \o m)[k] = IF k <= i THEN seq[k] ELSE t
    <3>1. (a \o m)[k] = IF k <= i THEN a[k] ELSE m[k - i]  BY <2>1, <1>1, <1>3
    <3>2. k <= i \/ k - i = 1  BY <1>0
    <3>3. k <= i => k \in 1..i  BY <1>0
    <3>4. QED  BY <3>1, <3>2, <3>3, <1>1, <1>3
  <2>3. QED  BY <2>1, <2>2, <1>1, <1>3
<1>5. s = (a \o m) \o b  BY DEF a, b, m, Put
<1> HIDE DEF s
<1> DEFINE am == a \o m
<1> HIDE DEF am
<1>6. /\ am \in Seq(Timer) /\ Len(am) = i + 1 /\ s = am \o b
      /\ \A k \in 1..(i + 1) : am[k] = IF k <= i THEN seq[k] ELSE t
  BY <1>4, <1>5 DEF am
<1>60. /\ am \o b \in Seq(Timer) /\ Len(am \o b) = Len(am) + Len(b)
       /\ \A k \in 1..(Len(am) + Len(b)) :
            (am \o b)[k] = IF k <= Len(am) THEN am[k] ELSE b[k - Len(am)]
  BY <1>2, <1>6, ConcatProperties, Zenon
<1>61. /\ s \in Seq(Timer) /\ Len(s) = Len(am) + Len(b)
       /\ \A k \in 1..(Len(am) + Len(b)) :
            s[k] = IF k <= Len(am) THEN am[k] ELSE b[k - Len(am)]
  BY <1>60, <1>6, Zenon
<1>7. s \in Seq(Timer) /\ Len(s) = Len(seq) + 1
  BY <1>0, <1>2, <1>6, <1>61
<1>8. ASSUME NEW k \in 1..(Len(seq) + 1)
      PROVE s[k] = IF k <= i THEN seq[k] ELSE IF k = i + 1 THEN t ELSE seq[k - 1]
  <2>0. k \in Nat /\ k \in 1..(Len(seq) + 1)  BY <1>0
  <2>1. CASE k <= i + 1
    <3>1. k \in 1..(i + 1)  BY <2>0, <2>1, <1>0
    <3>2. s[k] = am[k]  BY <3>1, <1>61, <1>6, <1>2, <1>0
    <3>3. QED  BY <3>1, <3>2, <1>6, <1>0
  <2>2. CASE i + 1 < k
    <3>1. k - (i + 1) \in 1..(Len(seq) - i)  BY <2>0, <2>2, <1>0
    <3>2. s[k] = b[k - (i + 1)]
      <4>1. Len(am) = i + 1 /\ Len(b) = Len(seq) - i  BY <1>6, <1>2
      <4>2. k \in 1..(Len(am) + Len(b)) /\ ~ (k <= Len(am))
        BY <4>1, <2>0, <2>2, <1>0
      <4>3. QED  BY <4>1, <4>2, <1>61
    <3>3. i + (k - (i + 1)) = k - 1  BY <2>0, <1>0
    <3>4. b[k - (i + 1)] = seq[k - 1]  BY <3>1, <3>3, <1>2
    <3>5. QED  BY <3>2, <3>4, <2>2, <2>0, <1>0
  <2>3. QED  BY <2>1, <2>2, <2>0, <1>0
<1>9. QED  BY <1>7, <1>8 DEF s

\* Inserting a timer keeps the array sorted and without duplicates.
LEMMA InsertRight ==
    ASSUME NEW seq \in Seq(Timer), NEW f \in [Timer -> Nat], NEW t \in Timer,
           Sorted(seq, f), Distinct(seq), t \notin Elements(seq)
    PROVE  /\ Insert(seq, f, t) \in Seq(Timer)
           /\ Elements(Insert(seq, f, t)) = Elements(seq) \cup {t}
           /\ Sorted(Insert(seq, f, t), f) /\ Distinct(Insert(seq, f, t))
<1> DEFINE i == Search(seq, f, f[t])
           s == Insert(seq, f, t)
<1>0. f[t] \in Nat /\ Len(seq) \in Nat  OBVIOUS
<1>1. i \in 0..Len(seq) /\ \A k \in 1..Len(seq) : f[seq[k]] <= f[t] <=> k <= i
  BY <1>0, SearchRight
<1> HIDE DEF i
<1>2. s = Put(seq, t, i)
  BY DEF Insert, Put, i
<1> HIDE DEF s
<1>3. /\ s \in Seq(Timer) /\ Len(s) = Len(seq) + 1
      /\ \A k \in 1..Len(s) :
           s[k] = IF k <= i THEN seq[k] ELSE IF k = i + 1 THEN t ELSE seq[k - 1]
  <2>1. /\ Put(seq, t, i) \in Seq(Timer) /\ Len(Put(seq, t, i)) = Len(seq) + 1
        /\ \A k \in 1..(Len(seq) + 1) :
             Put(seq, t, i)[k] = IF k <= i THEN seq[k]
                                 ELSE IF k = i + 1 THEN t ELSE seq[k - 1]
    BY <1>1, PutRight
  <2>2. QED  BY <2>1, <1>2, <1>0
<1> DEFINE From(k) == IF k <= i THEN k ELSE k - 1
<1>4. ASSUME NEW k \in 1..Len(s)
      PROVE  \/ k = i + 1 /\ s[k] = t
             \/ k # i + 1 /\ From(k) \in 1..Len(seq) /\ s[k] = seq[From(k)]
  BY <1>0, <1>1, <1>3
<1>5. i + 1 \in 1..Len(s) /\ s[i + 1] = t
  BY <1>0, <1>1, <1>3
<1>6. ASSUME NEW k \in 1..Len(seq)
      PROVE  \E j \in 1..Len(s) : s[j] = seq[k]
  <2>1. CASE k <= i
    <3>1. k \in 1..Len(s) /\ s[k] = seq[k]  BY <2>1, <1>0, <1>1, <1>3
    <3>2. QED  BY <3>1
  <2>2. CASE i < k
    <3>1. k + 1 \in 1..Len(s) /\ ~ (k + 1 <= i) /\ k + 1 # i + 1 /\ (k + 1) - 1 = k
      BY <2>2, <1>0, <1>1, <1>3
    <3>2. s[k + 1] = seq[k]  BY <3>1, <1>3
    <3>3. QED  BY <3>1, <3>2
  <2>3. QED  BY <2>1, <2>2, <1>1
<1>7. Elements(s) = Elements(seq) \cup {t}
  <2> HIDE DEF From
  <2>1. Elements(s) \subseteq Elements(seq) \cup {t}  BY <1>4 DEF Elements
  <2>2. Elements(seq) \cup {t} \subseteq Elements(s)  BY <1>5, <1>6 DEF Elements
  <2>3. QED  BY <2>1, <2>2
<1>8. Distinct(s)
  <2> SUFFICES ASSUME NEW k \in 1..Len(s), NEW j \in 1..Len(s), s[k] = s[j]
               PROVE  k = j
    BY DEF Distinct
  <2>1. ASSUME NEW m \in 1..Len(seq) PROVE seq[m] # t
    BY DEF Elements
  <2>2. CASE k = i + 1 \/ j = i + 1
    <3> HIDE DEF From
    <3>1. QED  BY <2>2, <2>1, <1>4
  <2>3. CASE k # i + 1 /\ j # i + 1
    <3>1. /\ From(k) \in 1..Len(seq) /\ From(j) \in 1..Len(seq)
          /\ seq[From(k)] = seq[From(j)]
      <4> HIDE DEF From
      <4>1. QED  BY <2>3, <1>4
    <3>2. From(k) = From(j)
      <4> HIDE DEF From
      <4>1. QED  BY <3>1 DEF Distinct
    <3>3. k \in Int /\ j \in Int /\ i \in Int  BY <1>0, <1>1, <1>3
    <3>4. QED  BY <3>2, <3>3, <2>3
  <2>4. QED  BY <2>2, <2>3
<1>9. Sorted(s, f)
  <2> SUFFICES ASSUME NEW k \in 1..Len(s), NEW j \in 1..Len(s), k < j
               PROVE  f[s[k]] <= f[s[j]]
    BY DEF Sorted
  <2>0. k \in Nat /\ j \in Nat /\ i \in Nat  BY <1>1
  <2>1. CASE k = i + 1
    <3>1. From(j) \in 1..Len(seq) /\ s[j] = seq[From(j)] /\ i < From(j)
      BY <1>4, <2>1, <2>0
    <3> HIDE DEF From
    <3>2. seq[From(j)] \in Timer BY <3>1
    <3>3. ~ (f[seq[From(j)]] <= f[t])  BY <3>1, <1>1, <2>0
    <3>4. f[seq[From(j)]] \in Nat  BY <3>2
    <3>5. QED  BY <3>1, <3>3, <3>4, <1>0, <2>1, <1>5
  <2>2. CASE j = i + 1
    <3>1. From(k) \in 1..Len(seq) /\ s[k] = seq[From(k)] /\ From(k) <= i
      BY <1>4, <2>2, <2>0
    <3> HIDE DEF From
    <3>2. f[seq[From(k)]] <= f[t]  BY <3>1, <1>1
    <3>3. QED  BY <3>1, <3>2, <2>2, <1>5
  <2>3. CASE k # i + 1 /\ j # i + 1
    <3>1. /\ From(k) \in 1..Len(seq) /\ s[k] = seq[From(k)]
          /\ From(j) \in 1..Len(seq) /\ s[j] = seq[From(j)]
      <4> HIDE DEF From
      <4>1. QED  BY <2>3, <1>4
    <3>2. From(k) < From(j)  BY <2>3, <2>0
    <3> HIDE DEF From
    <3>3. QED  BY <3>1, <3>2 DEF Sorted
  <2>4. QED  BY <2>1, <2>2, <2>3
<1>10. QED  BY <1>3, <1>7, <1>8, <1>9 DEF s

\* Taking a timer out, likewise, whatever its date has become.
LEMMA WithoutRight ==
    ASSUME NEW seq \in Seq(Timer), NEW t \in Elements(seq), Distinct(seq)
    PROVE  /\ Without(seq, t) \in Seq(Timer)
           /\ Elements(Without(seq, t)) = Elements(seq) \ {t}
           /\ Distinct(Without(seq, t))
           /\ \A f, g : /\ Sorted(seq, f) /\ \A x \in Timer \ {t} : g[x] = f[x]
                        => Sorted(Without(seq, t), g)
<1> DEFINE i == CHOOSE k \in 1..Len(seq) : seq[k] = t
           s == Without(seq, t)
           a == SubSeq(seq, 1, i - 1)
           b == SubSeq(seq, i + 1, Len(seq))
<1>0. i \in 1..Len(seq) /\ seq[i] = t  BY DEF Elements
<1>1. s = a \o b  BY DEF Without
<1> HIDE DEF i, s
<1>2. Len(seq) \in Nat /\ i \in Nat /\ 1 <= i /\ i <= Len(seq)  BY <1>0
<1>3. /\ a \in Seq(Timer) /\ Len(a) = i - 1
      /\ \A k \in 1..(i - 1) : a[k] = seq[k]
  BY <1>2
<1>4. /\ b \in Seq(Timer) /\ Len(b) = Len(seq) - i
      /\ \A k \in 1..(Len(seq) - i) : b[k] = seq[i + k]
  BY <1>2
<1> HIDE DEF a, b
<1>5. s \in Seq(Timer) /\ Len(s) = Len(seq) - 1
  BY <1>1, <1>2, <1>3, <1>4
<1> DEFINE From(k) == IF k < i THEN k ELSE k + 1
<1>6. ASSUME NEW k \in 1..Len(s)
      PROVE  From(k) \in 1..Len(seq) /\ From(k) # i /\ s[k] = seq[From(k)]
  <2>0. k \in Nat /\ 1 <= k /\ k <= Len(seq) - 1  BY <1>5, <1>2
  <2>1. CASE k < i
    <3>1. k \in 1..(i - 1)  BY <2>0, <2>1, <1>2
    <3>2. s[k] = a[k]  BY <3>1, <1>1, <1>2, <1>3, <1>4
    <3>3. QED  BY <3>1, <3>2, <1>3, <1>2, <2>0, <2>1
  <2>2. CASE i <= k
    <3>1. k - (i - 1) \in 1..(Len(seq) - i)  BY <2>0, <2>2, <1>2
    <3>2. s[k] = b[k - (i - 1)]  BY <3>1, <1>1, <1>2, <1>3, <1>4, <2>0
    <3>3. i + (k - (i - 1)) = k + 1  BY <2>0, <1>2
    <3>4. s[k] = seq[k + 1]  BY <3>1, <3>2, <3>3, <1>4
    <3>5. QED  BY <3>4, <2>0, <2>2, <1>2
  <2>3. QED  BY <2>1, <2>2, <2>0, <1>2
<1>7. ASSUME NEW k \in 1..Len(seq), k # i
      PROVE  \E j \in 1..Len(s) : s[j] = seq[k]
  <2>1. CASE k < i
    <3>1. k \in 1..Len(s) /\ From(k) = k  BY <2>1, <1>2, <1>5
    <3>2. QED  BY <3>1, <1>6
  <2>2. CASE i < k
    <3>1. k - 1 \in 1..Len(s) /\ From(k - 1) = k  BY <2>2, <1>2, <1>5
    <3>2. s[k - 1] = seq[k]
      <4> HIDE DEF From
      <4>1. QED  BY <3>1, <1>6
    <3>3. QED  BY <3>1, <3>2
  <2>3. QED  BY <2>1, <2>2, <1>7, <1>2
<1>8. Elements(s) = Elements(seq) \ {t}
  <2> HIDE DEF From
  <2>1. ASSUME NEW k \in 1..Len(s)  PROVE s[k] \in Elements(seq) \ {t}
    BY <1>6, <1>0 DEF Elements, Distinct
  <2>2. ASSUME NEW k \in 1..Len(seq), seq[k] # t  PROVE seq[k] \in Elements(s)
    BY <1>7, <1>0, <2>2 DEF Elements
  <2>3. QED  BY <2>1, <2>2 DEF Elements
<1>9. ASSUME NEW k \in 1..Len(s), NEW j \in 1..Len(s), k < j  PROVE From(k) < From(j)
  BY <1>9, <1>2, <1>5
<1>10. Distinct(s)
  <2> SUFFICES ASSUME NEW k \in 1..Len(s), NEW j \in 1..Len(s), s[k] = s[j]
               PROVE  k = j
    BY DEF Distinct
  <2>1. From(k) = From(j)
    <3> HIDE DEF From
    <3>1. QED  BY <1>6 DEF Distinct
  <2>2. QED  BY <2>1, <1>2, <1>5
<1>11. ASSUME NEW f, NEW g, Sorted(seq, f), \A x \in Timer \ {t} : g[x] = f[x]
       PROVE  Sorted(s, g)
  <2> SUFFICES ASSUME NEW k \in 1..Len(s), NEW j \in 1..Len(s), k < j
               PROVE  g[s[k]] <= g[s[j]]
    BY DEF Sorted
  <2> HIDE DEF From
  <2>1. s[k] \in Timer \ {t} /\ s[j] \in Timer \ {t}
    <3>1. s[k] \in Elements(s) /\ s[j] \in Elements(s)  BY DEF Elements
    <3>2. s[k] \in Timer /\ s[j] \in Timer  BY <1>5
    <3>3. QED  BY <3>1, <3>2, <1>8
  <2>2. g[s[k]] = f[s[k]] /\ g[s[j]] = f[s[j]]  BY <2>1, <1>11
  <2>3. f[seq[From(k)]] <= f[seq[From(j)]]  BY <1>6, <1>9, <1>11 DEF Sorted
  <2>4. QED  BY <2>2, <2>3, <1>6
<1>12. QED  BY <1>5, <1>8, <1>10, <1>11 DEF s

\* __CFRunLoopDoTimers collects exactly the elements that are due.
LEMMA CollectRight ==
    ASSUME NEW s \in Seq(Timer), NEW S
    PROVE  /\ Collect(s, S) \in Seq(Timer)
           /\ Elements(Collect(s, S)) = Elements(s) \cap S
<1> DEFINE n == Len(s)
           Q == Seq(Timer)
           G == [x \in (1..n) \X Q |->
                   IF s[x[1]] \in S THEN Append(x[2], s[x[1]]) ELSE x[2]]
           P(C) == C = [k \in 0..n |-> IF k = 0 THEN <<>>
                          ELSE IF s[k] \in S THEN Append(C[k - 1], s[k]) ELSE C[k - 1]]
           C == CHOOSE c : P(c)
<1>0. n \in Nat /\ \A k \in 1..n : s[k] \in Timer  OBVIOUS
<1>1. G \in [(1..n) \X Q -> Q] /\ <<>> \in Q
  <2>1. ASSUME NEW x \in (1..n) \X Q
        PROVE  (IF s[x[1]] \in S THEN Append(x[2], s[x[1]]) ELSE x[2]) \in Q
    <3>1. x[1] \in 1..n /\ x[2] \in Q  OBVIOUS
    <3>2. s[x[1]] \in Timer  BY <3>1, <1>0
    <3>3. Append(x[2], s[x[1]]) \in Q  BY <3>1, <3>2
    <3>4. QED  BY <3>1, <3>3
  <2> HIDE DEF n
  <2>2. QED  BY <2>1
<1>2. PICK g \in [0..n -> Q] : Recursive(g, n, <<>>, G)
  <2> HIDE DEF G, n, Q
  <2>1. QED  BY <1>0, <1>1, Recursion
<1>3. ASSUME NEW k \in 0..n
      PROVE  g[k] = IF k = 0 THEN <<>>
                    ELSE IF s[k] \in S THEN Append(g[k - 1], s[k]) ELSE g[k - 1]
  <2>1. CASE k = 0  BY <1>2, <2>1 DEF Recursive
  <2>2. CASE k # 0
    <3>1. k \in 1..n /\ k - 1 \in 0..n  BY <2>2, <1>0
    <3>2. g[k - 1] \in Q  BY <3>1
    <3>3. g[k] = G[<<k, g[k - 1]>>]  BY <1>2, <2>2 DEF Recursive
    <3> HIDE DEF n, Q
    <3>4. QED  BY <3>1, <3>2, <3>3, <2>2
  <2>3. QED  BY <2>1, <2>2
<1>4. P(g)
  <2> HIDE DEF n, Q, G
  <2>1. g = [k \in 0..n |-> g[k]]  BY <1>2
  <2>2. QED  BY <2>1, <1>3, Zenon
<1>5. Collect(s, S) = C[n]  BY DEF Collect
<1>6. P(C)
  <2> HIDE DEF P
  <2>1. QED  BY <1>4, Zenon
<1> HIDE DEF C
<1>7. \A k \in 0..n : C[k] = IF k = 0 THEN <<>>
           ELSE IF s[k] \in S THEN Append(C[k - 1], s[k]) ELSE C[k - 1]
  <2> HIDE DEF n
  <2>1. QED  BY <1>6
<1> HIDE DEF P, G, n
<1> DEFINE Good(k) == /\ C[k] \in Q
                      /\ Elements(C[k]) = {s[j] : j \in 1..k} \cap S
           M == {k \in Nat : k <= n => Good(k)}
<1>8. 0 \in M
  <2>1. C[0] = <<>>  BY <1>7, <1>0
  <2>2. Elements(<<>>) = {}  BY DEF Elements
  <2>3. {s[j] : j \in 1..0} \cap S = {}  OBVIOUS
  <2>4. C[0] \in Q /\ Elements(C[0]) = {s[j] : j \in 1..0} \cap S
    BY <2>1, <2>2, <2>3, <1>1
  <2>5. Good(0)  BY <2>4
  <2> HIDE DEF Good
  <2>6. QED  BY <2>5
<1>9. ASSUME NEW m \in M  PROVE m + 1 \in M
  <2>0. m \in Nat  OBVIOUS
  <2> SUFFICES ASSUME m + 1 <= n  PROVE Good(m + 1)
    BY <2>0
  <2>1. C[m] \in Q /\ Elements(C[m]) = {s[j] : j \in 1..m} \cap S  BY <2>0, <1>0
  <2>2. m + 1 \in 0..n /\ m + 1 # 0 /\ (m + 1) - 1 = m /\ m + 1 \in 1..n
    BY <2>0, <1>0
  <2>3. s[m + 1] \in Timer  BY <2>2, <1>0
  <2>4. {s[j] : j \in 1..(m + 1)} = {s[j] : j \in 1..m} \cup {s[m + 1]}
    <3>1. 1..(m + 1) = (1..m) \cup {m + 1}  BY <2>0
    <3>2. QED  BY <3>1
  <2>5. CASE s[m + 1] \in S
    <3>1. C[m + 1] = Append(C[m], s[m + 1])  BY <1>7, <2>2, <2>5
    <3>2. Elements(Append(C[m], s[m + 1])) = Elements(C[m]) \cup {s[m + 1]}
      <4> DEFINE a == C[m]
                 e == s[m + 1]
                 b == Append(a, e)
      <4>1. a \in Seq(Timer) /\ e \in Timer  BY <2>1, <2>3
      <4> HIDE DEF a, e
      <4>2. Len(a) \in Nat /\ Len(b) = Len(a) + 1
            /\ \A j \in 1..Len(b) : b[j] = IF j = Len(a) + 1 THEN e ELSE a[j]
        <5>1. Len(a) \in Nat /\ Len(b) = Len(a) + 1  BY <4>1
        <5>2. \A j \in 1..(Len(a) + 1) : b[j] = IF j = Len(a) + 1 THEN e ELSE a[j]
          BY <4>1
        <5>3. QED  BY <5>1, <5>2
      <4> HIDE DEF b
      <4>3. Elements(b) \subseteq Elements(a) \cup {e}  BY <4>2 DEF Elements
      <4>4. ASSUME NEW j \in 1..Len(a)  PROVE a[j] \in Elements(b)
        <5>1. j \in 1..Len(b) /\ b[j] = a[j]  BY <4>2
        <5>2. QED  BY <5>1 DEF Elements
      <4>5. e \in Elements(b)
        <5>1. Len(b) \in 1..Len(b) /\ b[Len(b)] = e  BY <4>2
        <5>2. QED  BY <5>1 DEF Elements
      <4>6. Elements(b) = Elements(a) \cup {e}  BY <4>3, <4>4, <4>5 DEF Elements
      <4>7. QED  BY <4>6 DEF a, b, e
    <3>3. C[m + 1] \in Q  BY <3>1, <2>1, <2>3
    <3>4. QED  BY <3>1, <3>2, <3>3, <2>1, <2>4, <2>5
  <2>6. CASE s[m + 1] \notin S
    <3>1. C[m + 1] = C[m]  BY <1>7, <2>2, <2>6
    <3>2. QED  BY <3>1, <2>1, <2>4, <2>6
  <2>7. QED  BY <2>5, <2>6
<1>10. M = Nat
  <2> HIDE DEF M
  <2>0. M \in SUBSET Nat  BY DEF M
  <2>1. QED  BY <1>8, <1>9, <2>0, NatInductionSet
<1>11. C[n] \in Q /\ Elements(C[n]) = {s[j] : j \in 1..n} \cap S
  <2>1. n \in M
    <3> HIDE DEF M
    <3>1. QED  BY <1>10, <1>0
  <2> HIDE DEF Good
  <2>2. Good(n)  BY <2>1, <1>0
  <2>3. QED  BY <2>2 DEF Good
<1>12. {s[j] : j \in 1..n} = Elements(s)  BY DEF Elements, n
<1>13. QED  BY <1>5, <1>11, <1>12

-----------------------------------------------------------------------------
(* The next date of a repeating timer.                                     *)

\* Facts about products.
LEMMA Product ==
    ASSUME NEW k \in Nat, NEW i \in Nat \ {0}
    PROVE  /\ k * i \in Nat /\ k <= k * i /\ (k * i) % i = 0
           /\ k # 0 => (k - 1) * i = k * i - i
OBVIOUS

\* __CFRunLoopDoTimer adds the interval until the date lies in the future: the
\* date it ends with is the first one after now that is whole intervals after
\* the old one.
LEMMA NextFireRight ==
    ASSUME NEW old \in Nat, NEW interval \in Nat \ {0}, now \in Nat, Distant \in Nat,
           old <= now, now + interval <= Distant
    PROVE  /\ NextFire(old, interval) \in 0..Distant
           /\ NextFire(old, interval) > now
           /\ NextFire(old, interval) - interval <= now
           /\ (NextFire(old, interval) - old) % interval = 0
<1>1. interval # 0  OBVIOUS
<1>2. CASE Distant - interval <= old
  <2>1. NextFire(old, interval) = Distant  BY <1>2 DEF NextFire
  <2>2. old = now /\ Distant = now + interval  BY <1>2
  <2>3. 1 * interval = interval /\ (1 * interval) % interval = 0
    BY Product
  <2>4. interval % interval = 0  BY <2>3
  <2>5. Distant - old = interval  BY <2>2
  <2>6. QED  BY <2>1, <2>2, <2>4, <2>5, <1>1
<1>3. CASE ~ (Distant - interval <= old)
  <2> DEFINE S == {old + k * interval : k \in 0..(now + 1)} \ 0..now
  <2>0. interval \in Nat \ {0}  OBVIOUS
  <2>1. S \in SUBSET Nat
    <3>1. ASSUME NEW k \in 0..(now + 1)  PROVE old + k * interval \in Nat
      <4>1. k * interval \in Nat  BY <2>0, Product
      <4>2. QED  BY <4>1
    <3>2. QED  BY <3>1
  <2>2. old + (now + 1) * interval \in S
    <3>1. now + 1 \in Nat  OBVIOUS
    <3>2. (now + 1) * interval \in Nat /\ now + 1 <= (now + 1) * interval
      <4> HIDE DEF S
      <4>1. QED  BY <3>1, <2>0, Product
    <3>3. old + (now + 1) * interval \notin 0..now  BY <3>2
    <3>4. now + 1 \in 0..(now + 1)  OBVIOUS
    <3>5. QED  BY <3>3, <3>4
  <2> DEFINE d == Least(S)
  <2>3. d \in S /\ \A x \in S : d <= x
    <3> HIDE DEF S
    <3>1. QED  BY <2>1, <2>2, LeastOf
  <2>4. NextFire(old, interval) = d  BY <1>3 DEF NextFire
  <2>5. PICK k \in 0..(now + 1) : d = old + k * interval  BY <2>3
  <2>6. /\ k \in Nat /\ k * interval \in Nat /\ (k * interval) % interval = 0
        /\ k # 0 => (k - 1) * interval = k * interval - interval
    <3> HIDE DEF S, d
    <3>1. k \in Nat  OBVIOUS
    <3>2. QED  BY <3>1, <2>0, Product
  <2>7. d \in Nat /\ d > now
    <3>1. d \in Nat /\ d \notin 0..now  BY <2>3, <2>1
    <3>2. QED  BY <3>1
  <2>8. k # 0
    <3>1. SUFFICES ASSUME k = 0 PROVE FALSE  OBVIOUS
    <3>2. k * interval = 0  BY <3>1
    <3> HIDE DEF d
    <3>3. QED  BY <3>2, <2>5, <2>7
  <2>9. d - interval <= now
    <3> DEFINE x == old + (k - 1) * interval
    <3>1. x = d - interval
      <4> HIDE DEF d
      <4>1. QED  BY <2>5, <2>6, <2>7, <2>8
    <3>2. k - 1 \in 0..(now + 1)  BY <2>8
    <3>3. SUFFICES ASSUME ~ (d - interval <= now)  PROVE FALSE  OBVIOUS
    <3>4. x \notin 0..now
      <4> HIDE DEF d, x
      <4>1. QED  BY <3>1, <3>3, <2>7
    <3>5. x \in S  BY <3>2, <3>4
    <3>6. d <= x  BY <2>3, <3>5
    <3> HIDE DEF d, x, S
    <3>7. QED  BY <3>1, <3>6, <2>0, <2>7
  <2>10. d - old = k * interval
    <3> HIDE DEF d
    <3>1. QED  BY <2>5, <2>6
  <2> HIDE DEF d
  <2>11. d <= Distant  BY <2>9, <2>7
  <2>12. QED  BY <2>4, <2>6, <2>7, <2>9, <2>10, <2>11
<1>4. QED  BY <1>2, <1>3

-----------------------------------------------------------------------------
(* The walk that finds the next deadlines.                                 *)

\* A hard deadline is not earlier than the date, and is capped.
LEMMA HardRight ==
    ASSUME NEW f \in [Timer -> 0..Distant], NEW t \in Timer
    PROVE  HardDeadline(f, t) \in f[t]..Never
<1>1. f[t] \in Nat /\ f[t] <= Distant /\ Tolerance[t] \in Nat
      /\ Distant \in Nat /\ Never \in Nat /\ Distant < Never
  BY TimerAssumption
<1>2. QED  BY <1>1 DEF HardDeadline

\* The part of a set that may be left out when the least is looked for.
LEMMA LeastOfPart ==
    ASSUME NEW S \in SUBSET Nat, NEW R \in SUBSET S, R # {},
           \A x \in S : \E y \in R : y <= x
    PROVE  Least(R) = Least(S)
<1>1. Least(R) \in R /\ \A y \in R : Least(R) <= y  BY LeastOf
<1>2. ASSUME NEW x \in S  PROVE Least(R) <= x
  <2>1. PICK y \in R : y <= x  OBVIOUS
  <2>2. Least(R) <= y  BY <1>1
  <2>3. x \in Nat /\ y \in Nat /\ Least(R) \in Nat  BY <1>1
  <2>4. QED  BY <2>1, <2>2, <2>3
<1>3. Least(R) \in S  BY <1>1
<1> DEFINE n == Least(R)
<1> HIDE DEF n
<1>4. Least(S) = n  BY <1>2, <1>3, LeastIs DEF n
<1>5. QED  BY <1>4 DEF n

\* __CFArmNextTimerInMode walks the array only until a timer begins after the
\* earliest hard deadline so far; because the array is sorted, no timer behind
\* that one has an earlier date or an earlier hard deadline.
LEMMA DeadlinesExact ==
    ASSUME NEW seq \in Seq(Timer), NEW f \in [Timer -> 0..Distant], NEW busy,
           Sorted(seq, f)
    PROVE  LET W == {t \in Elements(seq) : t \notin busy} IN
           Deadlines(seq, f, busy) = << Least({Never} \cup {f[t] : t \in W}),
                                        Least({Never} \cup {HardDeadline(f, t) : t \in W}) >>
<1> DEFINE I == Idle(seq, busy)
           d(i) == f[seq[i]]
           h(i) == HardDeadline(f, seq[i])
           Stops(i, k, j) == k < j /\ j <= i /\ ~ (d(j) <= h(k))
           J == {i \in I : \A j, k \in I : k < j /\ j <= i => d(j) <= h(k)}
           W == {t \in Elements(seq) : t \notin busy}
<1>1. Never \in Nat  BY TimerAssumption
<1>2. I \in SUBSET Nat /\ \A i \in I : i \in 1..Len(seq)  BY DEF Idle
<1>3. ASSUME NEW i \in I  PROVE d(i) \in Nat /\ h(i) \in Nat /\ d(i) <= h(i)
  <2>1. seq[i] \in Timer  BY <1>2
  <2>2. f[seq[i]] \in 0..Distant  BY <2>1
  <2>3. HardDeadline(f, seq[i]) \in f[seq[i]]..Never  BY <2>1, HardRight
  <2>4. Distant \in Nat  BY TimerAssumption
  <2>5. QED  BY <2>2, <2>3, <2>4, <1>1
<1>4. ASSUME NEW i \in I, NEW j \in I, i <= j  PROVE d(i) <= d(j)
  <2>1. CASE i = j  BY <1>3, <2>1
  <2>2. CASE i # j
    <3>1. i < j  BY <2>2, <1>4, <1>2
    <3>2. QED  BY <3>1, <1>2 DEF Sorted
  <2>3. QED  BY <2>1, <2>2
<1>5. {f[t] : t \in W} = {d(i) : i \in I} /\ {HardDeadline(f, t) : t \in W} = {h(i) : i \in I}
  BY DEF Idle, Elements
<1>6. Deadlines(seq, f, busy) = << Least({Never} \cup {d(i) : i \in J}),
                                   Least({Never} \cup {h(i) : i \in J}) >>
  BY DEF Deadlines, Earliest
<1> HIDE DEF I, d, h, W
<1>7. J \subseteq I  OBVIOUS
\* The first timer that is not firing is always reached.
<1>8. ASSUME I # {}  PROVE \E i \in J : \A j \in I : i <= j
  <2>1. PICK i \in I : \A j \in I : i <= j  BY <1>2, <1>8, LeastExists
  <2>2. ASSUME NEW j \in I, NEW k \in I, k < j, j <= i  PROVE FALSE
    <3>1. i <= k /\ i \in Nat /\ j \in Nat /\ k \in Nat  BY <2>1, <1>2
    <3>2. QED  BY <3>1, <2>2
  <2>3. i \in J  BY <2>2
  <2>4. QED  BY <2>1, <2>3
\* Where the walk ends, a timer before that place has the earlier deadline.
<1>9. ASSUME NEW i \in I, i \notin J
      PROVE  \E k \in J : k < i /\ h(k) <= d(i)
  <2> DEFINE S == {j \in I : j <= i /\ \E k \in I : k < j /\ ~ (d(j) <= h(k))}
  <2>1. S \in SUBSET Nat /\ S # {}  BY <1>2, <1>9
  <2>2. PICK j \in S : \A m \in S : j <= m
    <3> HIDE DEF S
    <3>1. QED  BY <2>1, LeastExists
  <2>3. PICK k \in I : k < j /\ ~ (d(j) <= h(k))  BY <2>2
  <2>4. i \in Nat /\ j \in I /\ j \in Nat /\ k \in Nat /\ j <= i  BY <1>2
  <2>5. ASSUME NEW m \in I, NEW l \in I, l < m, m <= k, ~ (d(m) <= h(l))  PROVE FALSE
    <3>1. m \in Nat  BY <1>2
    <3>2. m <= i  BY <3>1, <2>3, <2>4, <2>5
    <3>3. m \in S  BY <3>2, <2>5
    <3>4. j <= m  BY <2>2, <3>3
    <3>5. QED  BY <3>1, <3>4, <2>3, <2>4, <2>5
  <2>6. k \in J  BY <2>5
  <2>7. d(j) \in Nat /\ h(k) \in Nat /\ d(i) \in Nat /\ d(j) <= d(i)  BY <1>3, <1>4, <2>4
  <2>8. h(k) <= d(i)  BY <2>3, <2>7
  <2>9. k < i  BY <2>3, <2>4
  <2>10. QED  BY <2>6, <2>8, <2>9
<1> HIDE DEF J
<1>10. Least({Never} \cup {d(i) : i \in J}) = Least({Never} \cup {d(i) : i \in I})
  <2> DEFINE S == {Never} \cup {d(i) : i \in I}
             R == {Never} \cup {d(i) : i \in J}
  <2>1. S \in SUBSET Nat /\ R \in SUBSET S /\ R # {}  BY <1>1, <1>3, <1>7
  <2>2. ASSUME NEW i \in I  PROVE \E j \in J : d(j) <= d(i)
    <3>1. PICK j \in J : \A m \in I : j <= m  BY <1>8
    <3>2. j \in I /\ j <= i  BY <3>1, <1>7
    <3>3. d(j) <= d(i)  BY <3>2, <1>4
    <3>4. QED  BY <3>1, <3>3
  <2>3. \A x \in S : \E y \in R : y <= x
    <3>1. Never <= Never  BY <1>1
    <3>2. QED  BY <2>2, <3>1
  <2> HIDE DEF S, R
  <2>4. Least(R) = Least(S)  BY <2>1, <2>3, LeastOfPart
  <2>5. QED  BY <2>4 DEF R, S
<1>11. Least({Never} \cup {h(i) : i \in J}) = Least({Never} \cup {h(i) : i \in I})
  <2> DEFINE S == {Never} \cup {h(i) : i \in I}
             R == {Never} \cup {h(i) : i \in J}
  <2>1. S \in SUBSET Nat /\ R \in SUBSET S /\ R # {}  BY <1>1, <1>3, <1>7
  <2>2. ASSUME NEW i \in I  PROVE \E j \in J : h(j) <= h(i)
    <3>1. CASE i \in J
      <4>1. h(i) <= h(i)  BY <1>3
      <4>2. QED  BY <3>1, <4>1
    <3>2. CASE i \notin J
      <4>1. PICK k \in J : k < i /\ h(k) <= d(i)  BY <1>9, <3>2
      <4>2. h(k) \in Nat /\ d(i) \in Nat /\ h(i) \in Nat /\ d(i) <= h(i)
        BY <1>3, <1>7
      <4>3. h(k) <= h(i)  BY <4>1, <4>2
      <4>4. QED  BY <4>3
    <3>3. QED  BY <3>1, <3>2
  <2>3. \A x \in S : \E y \in R : y <= x
    <3>1. Never <= Never  BY <1>1
    <3>2. QED  BY <2>2, <3>1
  <2> HIDE DEF S, R
  <2>4. Least(R) = Least(S)  BY <2>1, <2>3, LeastOfPart
  <2>5. QED  BY <2>4 DEF R, S
<1>12. QED
  <2>1. Deadlines(seq, f, busy) = << Least({Never} \cup {d(i) : i \in I}),
                                     Least({Never} \cup {h(i) : i \in I}) >>
    BY <1>6, <1>10, <1>11
  <2>2. Deadlines(seq, f, busy) = << Least({Never} \cup {f[t] : t \in W}),
                                     Least({Never} \cup {HardDeadline(f, t) : t \in W}) >>
    BY <2>1, <1>5
  <2>3. QED  BY <2>2 DEF W

-----------------------------------------------------------------------------
(* The inductive invariant.                                                *)

FirstDate(f, W) == Least({Never} \cup {f[t] : t \in W})
FirstHard(f, W) == Least({Never} \cup {HardDeadline(f, t) : t \in W})

\* The mode: its array is sorted, and its deadlines are those of its timers.
ModeRight == /\ timers \in Seq(Timer) /\ Distinct(timers)
             /\ fire \in [Timer -> 0..Distant] /\ Sorted(timers, fire)
             /\ valid \subseteq Timer /\ firing \subseteq Timer
             /\ soft \in 0..Never /\ hard \in 0..Never /\ armed \in 0..Never
             /\ DeadlinesRight

\* A run that is in the callout of a timer, or past it, has taken it up at a
\* date that had come, and has invalidated it if it fires once.
FrameRight(g, time, ok, busy) ==
    /\ g.cur # Nobody <=> g.pc \in {"callout", "remove", "finish"}
    /\ g.cur # Nobody => g.cur \in busy /\ g.old <= time
    /\ g.pc \in {"remove", "finish"} /\ Interval[g.cur] = 0 => g.cur \notin ok

\* Outer runs are in callouts, and a timer is firing exactly when it is the
\* timer of a run, which is then the only one.
RunsRight ==
    /\ \A n \in 1..Len(frames) : /\ FrameRight(frames[n], now, valid, firing)
                                 /\ n < Len(frames) => frames[n].pc = "callout"
    /\ \A t \in firing : \E n \in 1..Len(frames) : frames[n].cur = t
    /\ \A m, n \in 1..Len(frames) :
         frames[m].cur = frames[n].cur /\ frames[n].cur # Nobody => m = n

LoopRight == /\ now \in 0..MaxTime /\ message \in BOOLEAN
             /\ frames \in Seq(Frame) /\ Len(frames) \in 1..Depth
             /\ RunsRight

Inv == ModeRight /\ LoopRight /\ pc \in [Client -> Request]

\* What the deadlines are found anew means.
Anew(s0, h0) ==
    /\ soft' = FirstDate(fire', Waiting') /\ hard' = FirstHard(fire', Waiting')
    /\ armed' = IF soft' = Never THEN Never
                ELSE IF <<soft', hard'>> # <<s0, h0>> THEN soft' ELSE armed

\* Deadlines fit.
LEMMA FirstInRange ==
    ASSUME NEW f \in [Timer -> 0..Distant], NEW W \in SUBSET Timer
    PROVE  FirstDate(f, W) \in 0..Never /\ FirstHard(f, W) \in 0..Never
<1>0. Never \in Nat /\ Distant \in Nat  BY TimerAssumption
<1>1. FirstDate(f, W) \in 0..Never
  <2> DEFINE S == {Never} \cup {f[t] : t \in W}
  <2>1. S \in SUBSET Nat /\ S # {} /\ Never \in S  BY <1>0
  <2> HIDE DEF S
  <2>2. Least(S) \in S /\ Least(S) <= Never  BY <2>1, LeastOf
  <2>3. Least(S) \in Nat  BY <2>1, <2>2
  <2>4. QED  BY <2>2, <2>3, <1>0 DEF S, FirstDate
<1>2. FirstHard(f, W) \in 0..Never
  <2> DEFINE S == {Never} \cup {HardDeadline(f, t) : t \in W}
  <2>1. S \in SUBSET Nat /\ S # {} /\ Never \in S
    <3>1. ASSUME NEW t \in W  PROVE HardDeadline(f, t) \in Nat
      <4>1. HardDeadline(f, t) \in f[t]..Never /\ f[t] \in Nat  BY HardRight
      <4>2. QED  BY <4>1, <1>0
    <3>2. QED  BY <3>1, <1>0
  <2> HIDE DEF S
  <2>2. Least(S) \in S /\ Least(S) <= Never  BY <2>1, LeastOf
  <2>3. Least(S) \in Nat  BY <2>1, <2>2
  <2>4. QED  BY <2>2, <2>3, <1>0 DEF S, FirstHard
<1>3. QED  BY <1>1, <1>2

\* A date that some timer of the set has is not earlier than the first one.
LEMMA FirstIsFirst ==
    ASSUME NEW f \in [Timer -> 0..Distant], NEW W \in SUBSET Timer
    PROVE  /\ \A t \in W : FirstDate(f, W) <= f[t]
           /\ FirstDate(f, W) # Never => \E t \in W : f[t] = FirstDate(f, W)
           /\ \A t \in W : FirstDate(f, W) # Never
<1>0. Never \in Nat /\ Distant \in Nat /\ Distant < Never  BY TimerAssumption
<1> DEFINE S == {Never} \cup {f[t] : t \in W}
<1>1. S \in SUBSET Nat /\ S # {}  BY <1>0
<1>2. Least(S) \in S /\ \A x \in S : Least(S) <= x
  <2> HIDE DEF S
  <2>1. QED  BY <1>1, LeastOf
<1>3. ASSUME NEW t \in W  PROVE Least(S) <= f[t] /\ Least(S) # Never
  <2>1. Least(S) <= f[t] /\ f[t] \in 0..Distant  BY <1>2
  <2> HIDE DEF S
  <2>2. QED  BY <2>1, <1>0
<1>4. QED  BY <1>2, <1>3 DEF FirstDate

\* __CFArmNextTimerInMode on a sorted array does that.
LEMMA ArmNextRight ==
    ASSUME timers' \in Seq(Timer), NEW f \in [Timer -> 0..Distant], NEW busy,
           fire' = f, firing' = busy, Sorted(timers', f), NEW s0, NEW h0,
           ArmNext(timers', f, busy, s0, h0)
    PROVE  Anew(s0, h0)
<1> DEFINE seq == timers'
           W == {t \in Elements(seq) : t \notin busy}
<1>1. Deadlines(seq, f, busy) = << FirstDate(f, W), FirstHard(f, W) >>
  <2>1. seq \in Seq(Timer) /\ Sorted(seq, f)  OBVIOUS
  <2> HIDE DEF seq
  <2>2. QED  BY <2>1, DeadlinesExact DEF FirstDate, FirstHard
<1>2. Waiting' = W  BY DEF Waiting
<1>3. QED  BY <1>1, <1>2 DEF ArmNext, Anew

\* Steps that find the deadlines anew leave the mode right.
LEMMA AnewRight ==
    ASSUME ModeRight, NEW s0, NEW h0, Anew(s0, h0),
           timers' \in Seq(Timer), Distinct(timers'),
           fire' \in [Timer -> 0..Distant], Sorted(timers', fire'),
           valid' \subseteq Timer, firing' \subseteq Timer
    PROVE  ModeRight'
<1>1. Waiting' \in SUBSET Timer  BY DEF Waiting, Elements
<1> DEFINE W == Waiting'
           f == fire'
<1>2. FirstDate(f, W) \in 0..Never /\ FirstHard(f, W) \in 0..Never
  <2>1. W \in SUBSET Timer /\ f \in [Timer -> 0..Distant]  BY <1>1
  <2> HIDE DEF W, f
  <2>2. QED  BY <2>1, FirstInRange
<1>3. soft' \in 0..Never /\ hard' \in 0..Never  BY <1>2 DEF Anew
<1>4. armed' \in 0..Never
  <2>1. Never \in 0..Never  BY TimerAssumption
  <2>2. QED  BY <1>3, <2>1 DEF Anew, ModeRight
<1>5. DeadlinesRight'  BY DEF Anew, DeadlinesRight, FirstDate, FirstHard
<1>6. QED  BY <1>3, <1>4, <1>5 DEF ModeRight

\* Steps that leave the waiting timers, their dates and the deadlines alone.
LEMMA SameDeadlines ==
    ASSUME ModeRight, UNCHANGED <<timers, soft, hard>>, armed' \in 0..Never,
           fire' \in [Timer -> 0..Distant], valid' \subseteq valid,
           firing' \subseteq Timer,
           \A t \in Elements(timers) : fire'[t] = fire[t],
           \/ Waiting' = Waiting
           \/ ~ (Waiting' \subseteq valid')
    PROVE  ModeRight'
<1>1. Sorted(timers', fire')
  <2>1. \A i \in 1..Len(timers) : fire'[timers[i]] = fire[timers[i]]
    BY DEF Elements
  <2>2. QED  BY <2>1 DEF ModeRight, Sorted
<1>2. Distinct(timers')  BY DEF ModeRight, Distinct
<1>3. DeadlinesRight'
  <2>1. CASE ~ (Waiting' \subseteq valid')  BY <2>1 DEF DeadlinesRight
  <2>2. CASE Waiting' = Waiting /\ Waiting' \subseteq valid'
    <3>1. Waiting \subseteq valid /\ Waiting \subseteq Timer
      BY <2>2 DEF ModeRight, Waiting, Elements
    <3>2. \A t \in Waiting : fire'[t] = fire[t]  BY DEF Waiting
    <3>3. \A t \in Waiting : HardDeadline(fire', t) = HardDeadline(fire, t)
      BY <3>2 DEF HardDeadline
    <3>4. /\ soft = Least({Never} \cup {fire[t] : t \in Waiting})
          /\ hard = Least({Never} \cup {HardDeadline(fire, t) : t \in Waiting})
      BY <3>1 DEF ModeRight, DeadlinesRight
    <3>5. /\ {fire[t] : t \in Waiting} = {fire'[t] : t \in Waiting'}
          /\ {HardDeadline(fire, t) : t \in Waiting} = {HardDeadline(fire', t) : t \in Waiting'}
      BY <2>2, <3>2, <3>3
    <3>6. /\ soft' = Least({Never} \cup {fire'[t] : t \in Waiting'})
          /\ hard' = Least({Never} \cup {HardDeadline(fire', t) : t \in Waiting'})
      BY <3>4, <3>5
    <3>7. QED  BY <3>6 DEF DeadlinesRight
  <2>3. QED  BY <2>1, <2>2
<1>4. QED  BY <1>1, <1>2, <1>3 DEF ModeRight

\* CFRunLoopRemoveTimer leaves the mode right.
LEMMA RemoveRight ==
    ASSUME ModeRight, NEW t \in Timer, RemoveFromMode(t),
           UNCHANGED <<fire, valid, firing>>
    PROVE  /\ ModeRight'
           /\ Anew(soft, hard) \/ UNCHANGED <<timers, soft, hard, armed>>
           /\ Elements(timers') = Elements(timers) \ {t}
<1>1. CASE t \in Elements(timers)
  <2>1. /\ timers' \in Seq(Timer) /\ Elements(timers') = Elements(timers) \ {t}
        /\ Distinct(timers') /\ Sorted(timers', fire)
    BY <1>1, WithoutRight DEF RemoveFromMode, ModeRight
  <2>2. ArmNext(timers', fire, firing, soft, hard)  BY <1>1 DEF RemoveFromMode
  <2>3. Anew(soft, hard)  BY <2>1, <2>2, ArmNextRight DEF ModeRight
  <2>4. ModeRight'  BY <2>1, <2>3, AnewRight DEF ModeRight
  <2>5. QED  BY <2>1, <2>3, <2>4
<1>2. CASE t \notin Elements(timers)
  <2>1. UNCHANGED <<timers, soft, hard, armed>>  BY <1>2 DEF RemoveFromMode
  <2>2. Waiting' = Waiting  BY <2>1 DEF Waiting
  <2>3. ModeRight'  BY <2>1, <2>2, SameDeadlines DEF ModeRight
  <2>4. QED  BY <1>2, <2>1, <2>3
<1>3. QED  BY <1>1, <1>2

\* __CFRepositionTimerInMode does, with the date that was changed before.
LEMMA RepositionRight ==
    ASSUME ModeRight, NEW t \in Timer, NEW f \in [Timer -> 0..Distant],
           \A x \in Timer \ {t} : f[x] = fire[x],
           NEW busy \in SUBSET Timer, Reposition(t, f, busy),
           fire' = f, firing' = busy, valid' = valid,
           t \in Elements(timers) \/ busy = firing
    PROVE  /\ ModeRight'
           /\ Anew(soft, hard) \/ UNCHANGED <<timers, soft, hard, armed>>
           /\ Elements(timers') = Elements(timers)
           /\ t \notin Elements(timers) => timers' = timers
<1>1. CASE t \in Elements(timers)
  <2>1. PICK rest \in {Without(timers, t)} : timers' = Insert(rest, f, t)
    BY <1>1 DEF Reposition
  <2>2. /\ rest \in Seq(Timer) /\ Elements(rest) = Elements(timers) \ {t}
        /\ Distinct(rest) /\ Sorted(rest, f)
    BY <1>1, <2>1, WithoutRight DEF ModeRight
  <2>3. f \in [Timer -> Nat]  BY TimerAssumption
  <2>4. /\ timers' \in Seq(Timer) /\ Elements(timers') = Elements(timers)
        /\ Distinct(timers') /\ Sorted(timers', f)
    <3>1. t \notin Elements(rest)  BY <2>2
    <3>2. /\ Insert(rest, f, t) \in Seq(Timer)
          /\ Elements(Insert(rest, f, t)) = Elements(rest) \cup {t}
          /\ Sorted(Insert(rest, f, t), f) /\ Distinct(Insert(rest, f, t))
      BY <2>2, <2>3, <3>1, InsertRight
    <3>3. QED  BY <1>1, <2>1, <2>2, <3>2
  <2>5. ArmNext(timers', f, busy, soft, hard)  BY <1>1 DEF Reposition
  <2>6. Anew(soft, hard)  BY <2>4, <2>5, ArmNextRight
  <2>7. ModeRight'  BY <2>4, <2>6, AnewRight DEF ModeRight
  <2>8. QED  BY <1>1, <2>4, <2>6, <2>7
<1>2. CASE t \notin Elements(timers)
  <2>1. UNCHANGED <<timers, soft, hard, armed>>  BY <1>2 DEF Reposition
  <2>2. Waiting' = Waiting  BY <1>2, <2>1 DEF Waiting
  <2>3. \A x \in Elements(timers) : f[x] = fire[x]
    BY <1>2 DEF Elements, ModeRight
  <2>4. ModeRight'
    BY <2>1, <2>2, <2>3, SameDeadlines DEF ModeRight
  <2>5. QED  BY <1>2, <2>1, <2>4
<1>3. QED  BY <1>1, <1>2

-----------------------------------------------------------------------------
(* The runs in progress.                                                   *)

\* The innermost run.
LEMMA TopRun ==
    ASSUME LoopRight
    PROVE  /\ Len(frames) \in Nat \ {0} /\ top \in Frame
           /\ FrameRight(top, now, valid, firing)
<1>1. Len(frames) \in Nat \ {0} /\ Len(frames) \in 1..Len(frames)
  BY TimerAssumption DEF LoopRight
<1>2. QED  BY <1>1 DEF LoopRight, RunsRight, top

\* Steps that leave the runs alone.
LEMMA SameRuns ==
    ASSUME LoopRight, UNCHANGED <<frames, firing>>, valid' \subseteq valid,
           now' \in 0..MaxTime, now <= now', message' \in BOOLEAN
    PROVE  LoopRight'
<1>1. ASSUME NEW n \in 1..Len(frames)
      PROVE  FrameRight(frames[n], now', valid', firing)
  <2>1. frames[n] \in Frame /\ FrameRight(frames[n], now, valid, firing)
    BY DEF LoopRight, RunsRight
  <2>2. frames[n].old \in Nat /\ now \in Nat  BY <2>1 DEF Frame, LoopRight
  <2>3. frames[n].old <= now => frames[n].old <= now'
    BY <2>2 DEF LoopRight
  <2>4. QED  BY <2>1, <2>3 DEF FrameRight
<1>2. RunsRight'  BY <1>1 DEF LoopRight, RunsRight
<1>3. QED  BY <1>2 DEF LoopRight

\* Steps of the innermost run that neither take up a timer nor are done with it.
LEMMA SameTimerOfRun ==
    ASSUME LoopRight, NEW g \in Frame, SetTop(g), g.cur = top.cur,
           FrameRight(g, now, valid', firing),
           UNCHANGED <<now, firing>>, valid' \subseteq valid, message' \in BOOLEAN
    PROVE  LoopRight'
<1> DEFINE N == Len(frames)
<1>1. N \in Nat /\ N \in 1..N /\ frames \in Seq(Frame)  BY TopRun DEF LoopRight
<1>2. /\ frames' \in Seq(Frame) /\ Len(frames') = N /\ frames'[N] = g
      /\ \A n \in 1..N : n # N => frames'[n] = frames[n]
  BY <1>1 DEF SetTop
<1>3. \A n \in 1..N : frames'[n].cur = frames[n].cur  BY <1>2 DEF top
<1>4. ASSUME NEW n \in 1..N
      PROVE  /\ FrameRight(frames'[n], now, valid', firing)
             /\ n < N => frames'[n].pc = "callout"
  <2>1. CASE n = N  BY <2>1, <1>2
  <2>2. CASE n # N
    <3>1. /\ FrameRight(frames[n], now, valid, firing)
          /\ n < N => frames[n].pc = "callout"
      BY DEF LoopRight, RunsRight
    <3>2. frames'[n] = frames[n]  BY <2>2, <1>2
    <3>3. QED  BY <3>1, <3>2 DEF FrameRight
  <2>3. QED  BY <2>1, <2>2
<1>5. RunsRight'
  <2>1. /\ \A t \in firing : \E n \in 1..N : frames[n].cur = t
        /\ \A m, n \in 1..N : frames[m].cur = frames[n].cur /\ frames[n].cur # Nobody => m = n
    BY DEF LoopRight, RunsRight
  <2>2. \A t \in firing : \E n \in 1..N : frames'[n].cur = t  BY <2>1, <1>3
  <2>3. \A m, n \in 1..N :
          frames'[m].cur = frames'[n].cur /\ frames'[n].cur # Nobody => m = n
    BY <2>1, <1>3
  <2> HIDE DEF N
  <2>4. Len(frames') = N  BY <1>2
  <2>5. QED  BY <1>4, <2>2, <2>3, <2>4 DEF RunsRight
<1>6. QED  BY <1>2, <1>5 DEF LoopRight

\* The innermost run takes up a timer that no run is firing.
LEMMA TakenUp ==
    ASSUME LoopRight, firing \subseteq Timer,
           NEW t \in Timer, t \notin firing, firing' = firing \cup {t},
           top.cur = Nobody, NEW g \in Frame, SetTop(g), g.cur = t, g.pc = "callout",
           g.old <= now, UNCHANGED <<now, valid, message>>
    PROVE  LoopRight'
<1> DEFINE N == Len(frames)
<1>0. t # Nobody  BY TimerAssumption
<1>1. N \in Nat /\ N \in 1..N /\ frames \in Seq(Frame)  BY TopRun DEF LoopRight
<1>2. /\ frames' \in Seq(Frame) /\ Len(frames') = N /\ frames'[N] = g
      /\ \A n \in 1..N : n # N => frames'[n] = frames[n]
  BY <1>1 DEF SetTop
<1>3. frames[N].cur = Nobody  BY DEF top
<1>4. ASSUME NEW n \in 1..N
      PROVE  /\ FrameRight(frames'[n], now, valid, firing')
             /\ n < N => frames'[n].pc = "callout"
  <2>1. CASE n = N
    <3>1. FrameRight(g, now, valid, firing')  BY <1>0 DEF FrameRight
    <3>2. QED  BY <3>1, <2>1, <1>2
  <2>2. CASE n # N
    <3>1. /\ FrameRight(frames[n], now, valid, firing)
          /\ n < N => frames[n].pc = "callout"
      BY DEF LoopRight, RunsRight
    <3>2. frames'[n] = frames[n]  BY <2>2, <1>2
    <3>3. QED  BY <3>1, <3>2 DEF FrameRight
  <2>3. QED  BY <2>1, <2>2
\* t is the timer of no other run.
<1>5. \A n \in 1..N : frames[n].cur # t
  BY <1>0 DEF LoopRight, RunsRight, FrameRight
<1>6. RunsRight'
  <2>1. /\ \A x \in firing : \E n \in 1..N : frames[n].cur = x
        /\ \A m, n \in 1..N : frames[m].cur = frames[n].cur /\ frames[n].cur # Nobody => m = n
    BY DEF LoopRight, RunsRight
  <2>2. ASSUME NEW x \in firing'  PROVE \E n \in 1..N : frames'[n].cur = x
    <3>1. CASE x = t  BY <3>1, <1>1, <1>2
    <3>2. CASE x # t
      <4>1. PICK n \in 1..N : frames[n].cur = x  BY <3>2, <2>1
      <4>2. n # N  BY <4>1, <3>2, <1>3, TimerAssumption
      <4>3. QED  BY <4>1, <4>2, <1>2
    <3>3. QED  BY <3>1, <3>2
  <2>3. ASSUME NEW m \in 1..N, NEW n \in 1..N,
               frames'[m].cur = frames'[n].cur, frames'[n].cur # Nobody
        PROVE  m = n
    <3>1. CASE m # N /\ n # N  BY <3>1, <2>1, <2>3, <1>2
    <3>2. CASE m = N \/ n = N
      <4>1. frames'[m].cur = t /\ frames'[n].cur = t  BY <3>2, <2>3, <1>2
      <4>2. m = N /\ n = N  BY <4>1, <1>2, <1>5
      <4>3. QED  BY <4>2
    <3>3. QED  BY <3>1, <3>2
  <2> HIDE DEF N
  <2>4. Len(frames') = N  BY <1>2
  <2>5. UNCHANGED <<now, valid>>  OBVIOUS
  <2>6. QED  BY <1>4, <2>2, <2>3, <2>4, <2>5 DEF RunsRight
<1>7. QED  BY <1>2, <1>6 DEF LoopRight

\* The innermost run is done with its timer.
LEMMA LetGo ==
    ASSUME LoopRight, top.cur # Nobody, firing' = firing \ {top.cur},
           NEW g \in Frame, SetTop(g), g.cur = Nobody, g.pc \in {"batch", "store"},
           UNCHANGED <<now, valid, message>>
    PROVE  LoopRight'
<1> DEFINE N == Len(frames)
           t == top.cur
<1>1. N \in Nat /\ N \in 1..N /\ frames \in Seq(Frame)  BY TopRun DEF LoopRight
<1>2. /\ frames' \in Seq(Frame) /\ Len(frames') = N /\ frames'[N] = g
      /\ \A n \in 1..N : n # N => frames'[n] = frames[n]
  BY <1>1 DEF SetTop
<1>3. frames[N].cur = t /\ t # Nobody  BY DEF top
<1> HIDE DEF t
<1>4. firing' = firing \ {t}  BY DEF t
<1>5. /\ \A x \in firing : \E n \in 1..N : frames[n].cur = x
      /\ \A m, n \in 1..N : frames[m].cur = frames[n].cur /\ frames[n].cur # Nobody => m = n
  BY DEF LoopRight, RunsRight
<1>6. ASSUME NEW n \in 1..N
      PROVE  /\ FrameRight(frames'[n], now, valid, firing')
             /\ n < N => frames'[n].pc = "callout"
  <2>1. CASE n = N
    <3>1. FrameRight(g, now, valid, firing')  BY DEF FrameRight
    <3>2. QED  BY <3>1, <2>1, <1>1, <1>2
  <2>2. CASE n # N
    <3>1. /\ FrameRight(frames[n], now, valid, firing)
          /\ n < N => frames[n].pc = "callout"
      BY DEF LoopRight, RunsRight
    <3>2. frames'[n] = frames[n]  BY <2>2, <1>2
    <3>3. frames[n].cur # t  BY <2>2, <1>1, <1>3, <1>5
    <3>4. QED  BY <3>1, <3>2, <3>3, <1>4 DEF FrameRight
  <2>3. QED  BY <2>1, <2>2
<1>7. RunsRight'
  <2>1. ASSUME NEW x \in firing'  PROVE \E n \in 1..N : frames'[n].cur = x
    <3>1. PICK n \in 1..N : frames[n].cur = x  BY <1>4, <1>5
    <3>2. n # N  BY <3>1, <1>3, <1>4
    <3>3. QED  BY <3>1, <3>2, <1>2
  <2>2. ASSUME NEW m \in 1..N, NEW n \in 1..N,
               frames'[m].cur = frames'[n].cur, frames'[n].cur # Nobody
        PROVE  m = n
    <3>1. m # N /\ n # N  BY <2>2, <1>2
    <3>2. QED  BY <3>1, <2>2, <1>2, <1>5
  <2> HIDE DEF N
  <2>3. Len(frames') = N  BY <1>2
  <2>4. UNCHANGED <<now, valid>>  OBVIOUS
  <2>5. QED  BY <1>6, <2>1, <2>2, <2>3, <2>4 DEF RunsRight
<1>8. QED  BY <1>2, <1>7 DEF LoopRight

\* A callout runs the loop again.
LEMMA Nested ==
    ASSUME LoopRight, Nest
    PROVE  LoopRight'
<1> DEFINE N == Len(frames)
<1>1. N \in Nat /\ N \in 1..N /\ frames \in Seq(Frame)  BY TopRun DEF LoopRight
<1>2. NewFrame \in Frame
  BY DEF NewFrame, Frame
<1>3. /\ frames' \in Seq(Frame) /\ Len(frames') = N + 1 /\ frames'[N + 1] = NewFrame
      /\ \A n \in 1..N : frames'[n] = frames[n]
  BY <1>1, <1>2 DEF Nest
<1>4. Len(frames') \in 1..Depth
  BY <1>1, <1>3, TimerAssumption DEF Nest, LoopRight
<1>5. UNCHANGED <<now, message, valid, firing>> /\ frames[N].pc = "callout"
  BY DEF Nest, kernel, mode, top
<1>6. /\ \A x \in firing : \E n \in 1..N : frames[n].cur = x
      /\ \A m, n \in 1..N : frames[m].cur = frames[n].cur /\ frames[n].cur # Nobody => m = n
      /\ \A n \in 1..N : /\ FrameRight(frames[n], now, valid, firing)
                         /\ n < N => frames[n].pc = "callout"
  BY DEF LoopRight, RunsRight
<1>7. FrameRight(NewFrame, now, valid, firing) /\ NewFrame.cur = Nobody
  BY DEF FrameRight, NewFrame
<1> HIDE DEF N
<1>8. 1..(N + 1) = (1..N) \cup {N + 1} /\ \A n \in 1..N : n # N => n < N
  BY <1>1
<1>9. \A n \in 1..N : frames[n].pc = "callout"  BY <1>5, <1>6, <1>8
<1>10. ASSUME NEW n \in 1..(N + 1)
       PROVE  /\ FrameRight(frames'[n], now, valid, firing)
              /\ n < N + 1 => frames'[n].pc = "callout"
  <2>1. CASE n = N + 1  BY <2>1, <1>1, <1>3, <1>7
  <2>2. CASE n \in 1..N  BY <2>2, <1>3, <1>6, <1>9
  <2>3. QED  BY <2>1, <2>2, <1>8
<1>11. RunsRight'
  <2>1. \A x \in firing : \E n \in 1..(N + 1) : frames'[n].cur = x
    BY <1>3, <1>6, <1>8
  <2>2. ASSUME NEW m \in 1..(N + 1), NEW n \in 1..(N + 1),
               frames'[m].cur = frames'[n].cur, frames'[n].cur # Nobody
        PROVE  m = n
    <3>1. m \in 1..N /\ n \in 1..N  BY <2>2, <1>3, <1>7, <1>8
    <3>2. QED  BY <3>1, <2>2, <1>3, <1>6
  <2>3. QED  BY <1>3, <1>5, <1>10, <2>1, <2>2 DEF RunsRight
<1>12. QED  BY <1>3, <1>4, <1>5, <1>11 DEF LoopRight

\* A run ends; what it leaves is the run whose callout it was started from.
LEMMA Unnested ==
    ASSUME LoopRight, firing \subseteq Timer, Unnest
    PROVE  LoopRight' /\ (top.pc = "callout")'
<1> DEFINE N == Len(frames)
           M == N - 1
<1>1. /\ N \in Nat /\ N > 1 /\ M \in Nat /\ M \in 1..M /\ M < N
      /\ frames \in Seq(Frame) /\ N \in 1..Depth
  BY TopRun DEF LoopRight, Unnest
<1>2. /\ frames' \in Seq(Frame) /\ Len(frames') = M
      /\ \A n \in 1..M : frames'[n] = frames[n]
  BY <1>1 DEF Unnest
<1>3. UNCHANGED <<now, message, valid, firing>> /\ frames[N].pc = "wait"
  BY DEF Unnest, kernel, mode, top
<1>4. /\ \A x \in firing : \E n \in 1..N : frames[n].cur = x
      /\ \A m, n \in 1..N : frames[m].cur = frames[n].cur /\ frames[n].cur # Nobody => m = n
      /\ \A n \in 1..N : /\ FrameRight(frames[n], now, valid, firing)
                         /\ n < N => frames[n].pc = "callout"
  BY DEF LoopRight, RunsRight
<1>5. M \in 1..Depth  BY <1>1, TimerAssumption
<1> HIDE DEF M, N
<1>6. frames[N].cur = Nobody
  <2>1. N \in 1..N  BY <1>1
  <2>2. QED  BY <2>1, <1>3, <1>4 DEF FrameRight
<1>7. 1..N = (1..M) \cup {N} /\ \A n \in 1..M : n \in 1..N /\ n < N
  BY <1>1 DEF M
<1>8. ASSUME NEW x \in firing  PROVE \E n \in 1..M : frames'[n].cur = x
  <2>1. PICK n \in 1..N : frames[n].cur = x  BY <1>4
  <2>2. x # Nobody  BY TimerAssumption
  <2>3. QED  BY <2>1, <2>2, <1>2, <1>6, <1>7
<1>9. RunsRight'
  <2>1. \A m, n \in 1..M :
          frames'[m].cur = frames'[n].cur /\ frames'[n].cur # Nobody => m = n
    BY <1>2, <1>4, <1>7
  <2>2. \A n \in 1..M : /\ FrameRight(frames'[n], now, valid, firing)
                        /\ n < M => frames'[n].pc = "callout"
    BY <1>2, <1>4, <1>7
  <2>3. QED  BY <1>2, <1>3, <1>8, <2>1, <2>2 DEF RunsRight
<1>10. LoopRight'  BY <1>2, <1>3, <1>5, <1>9 DEF LoopRight
<1>11. frames'[Len(frames')].pc = "callout"  BY <1>1, <1>2, <1>4, <1>7
<1>12. QED  BY <1>10, <1>11 DEF top

-----------------------------------------------------------------------------
(* Every step keeps the invariant.                                         *)

\* The invariant holds to begin with.
LEMMA InitRight == ASSUME Init PROVE Inv
<1>1. ModeRight
  <2> DEFINE W == {t \in Elements(Scheduled) : t \notin {}}
  <2>1. /\ Scheduled \in Seq(Timer) /\ Distinct(Scheduled) /\ Sorted(Scheduled, FireDate)
        /\ FireDate \in [Timer -> 0..Distant]
    <3>1. /\ Scheduled \in Seq(Timer) /\ FireDate \in [Timer -> 0..Distant]
          /\ \A i, j \in 1..Len(Scheduled) :
               i < j => /\ Scheduled[i] # Scheduled[j]
                        /\ FireDate[Scheduled[i]] <= FireDate[Scheduled[j]]
      BY TimerAssumption
    <3>2. Distinct(Scheduled)
      <4> SUFFICES ASSUME NEW i \in 1..Len(Scheduled), NEW j \in 1..Len(Scheduled),
                          Scheduled[i] = Scheduled[j], i # j
                   PROVE  FALSE
        BY DEF Distinct
      <4>1. i < j \/ j < i  OBVIOUS
      <4>2. QED  BY <4>1, <3>1
    <3>3. QED  BY <3>1, <3>2 DEF Sorted
  <2>2. Deadlines(Scheduled, FireDate, {}) = << FirstDate(FireDate, W), FirstHard(FireDate, W) >>
    <3>1. ASSUME NEW busy
          PROVE  LET V == {t \in Elements(Scheduled) : t \notin busy} IN
                 Deadlines(Scheduled, FireDate, busy) =
                   << FirstDate(FireDate, V), FirstHard(FireDate, V) >>
      BY <2>1, DeadlinesExact DEF FirstDate, FirstHard
    <3>2. QED  BY <3>1
  <2>3. W \in SUBSET Timer  BY <2>1 DEF Elements
  <2>4. FirstDate(FireDate, W) \in 0..Never /\ FirstHard(FireDate, W) \in 0..Never
    <3> HIDE DEF W
    <3>1. QED  BY <2>1, <2>3, FirstInRange
  <2>5. /\ timers = Scheduled /\ fire = FireDate /\ valid = Timer /\ firing = {}
        /\ soft = FirstDate(FireDate, W) /\ hard = FirstHard(FireDate, W)
        /\ armed = soft
    BY <2>2 DEF Init
  <2>6. Waiting = W  BY <2>5 DEF Waiting
  <2>7. DeadlinesRight
    <3> HIDE DEF W
    <3>1. QED  BY <2>5, <2>6 DEF DeadlinesRight, FirstDate, FirstHard
  <2> HIDE DEF W
  <2>8. QED  BY <2>1, <2>4, <2>5, <2>7 DEF ModeRight
<1>2. LoopRight
  <2>1. frames = <<NewFrame>> /\ Len(frames) = 1 /\ frames[1] = NewFrame
        /\ firing = {} /\ now = 0 /\ message = FALSE
    BY DEF Init
  <2>2. NewFrame \in Frame  BY DEF NewFrame, Frame
  <2>3. frames \in Seq(Frame)  BY <2>1, <2>2
  <2>4. NewFrame.cur = Nobody /\ NewFrame.pc = "wait"  BY DEF NewFrame
  <2>5. RunsRight
    <3>1. 1..Len(frames) = {1}  BY <2>1
    <3>2. FrameRight(NewFrame, now, valid, firing)  BY <2>4 DEF FrameRight
    <3>3. \A n \in 1..Len(frames) : ~ (n < Len(frames))  BY <2>1
    <3>4. QED  BY <2>1, <2>4, <3>1, <3>2, <3>3 DEF RunsRight
  <2>6. 1 \in 1..Depth /\ 0 \in 0..MaxTime  BY TimerAssumption
  <2>7. message \in BOOLEAN  BY <2>1
  <2>8. QED  BY <2>1, <2>3, <2>5, <2>6, <2>7 DEF LoopRight
<1>3. pc \in [Client -> Request]  BY DEF Init, Request
<1>4. QED  BY <1>1, <1>2, <1>3 DEF Inv

\* Steps that change neither the mode nor the kernel timer.
LEMMA SameMode ==
    ASSUME ModeRight, UNCHANGED <<timers, fire, firing, soft, hard>>,
           valid' \subseteq valid, armed' \in 0..Never
    PROVE  ModeRight'
<1>1. Waiting' = Waiting  BY DEF Waiting
<1>2. QED  BY <1>1, SameDeadlines DEF ModeRight

\* The clock and the kernel.
LEMMA EnvironmentRight ==
    ASSUME Inv, Tick \/ Expire
    PROVE  Inv'
<1>1. /\ now \in Nat /\ MaxTime \in Nat /\ Never \in 0..Never
      /\ armed \in 0..Never /\ now \in 0..MaxTime /\ message \in BOOLEAN
  BY TimerAssumption DEF Inv, LoopRight, ModeRight
<1>2. CASE Tick
  <2>1. now' \in 0..MaxTime /\ now <= now'  BY <1>1, <1>2 DEF Tick
  <2>2. /\ UNCHANGED <<timers, fire, valid, firing, soft, hard>>
        /\ UNCHANGED <<armed, message, frames, pc>>
    BY <1>2 DEF Tick, mode
  <2>3. ModeRight'  BY <1>1, <2>2, SameMode DEF Inv
  <2>4. LoopRight'  BY <1>1, <2>1, <2>2, SameRuns DEF Inv
  <2>5. QED  BY <2>2, <2>3, <2>4 DEF Inv
<1>3. CASE Expire
  <2>1. /\ armed' \in 0..Never /\ message' \in BOOLEAN
        /\ UNCHANGED <<timers, fire, valid, firing, soft, hard>>
        /\ UNCHANGED <<now, frames, pc>>
    BY <1>1, <1>3 DEF Expire, mode
  <2>2. ModeRight'  BY <2>1, SameMode DEF Inv
  <2>3. now' \in 0..MaxTime /\ now <= now'  BY <1>1, <2>1
  <2>4. LoopRight'  BY <2>1, <2>3, SameRuns DEF Inv
  <2>5. QED  BY <2>1, <2>2, <2>4 DEF Inv
<1>4. QED  BY <1>2, <1>3

\* Receiving the message, collecting what is due, and going through it.
LEMMA WalkRight ==
    ASSUME Inv, Receive \/ DoTimers \/ BatchDone \/ SkipTimer
    PROVE  Inv' /\ firing' = firing
<1> SUFFICES ASSUME \E g \in Frame :
                      /\ SetTop(g) /\ g.cur = Nobody /\ top.cur = Nobody
                      /\ g.pc \in {"wait", "handle", "batch"}
                      /\ UNCHANGED <<timers, fire, valid, firing, soft, hard>>
                      /\ UNCHANGED <<now, armed, pc>> /\ message' \in BOOLEAN
             PROVE  Inv'
  <2>0. /\ top \in Frame /\ FrameRight(top, now, valid, firing)
        /\ message \in BOOLEAN /\ timers \in Seq(Timer)
    BY TopRun DEF Inv, LoopRight, ModeRight
  <2>1. top.pc \in {"wait", "handle", "batch"} => top.cur = Nobody
    BY <2>0 DEF FrameRight
  <2>2. CASE Receive
    <3>1. [top EXCEPT !.pc = "handle"] \in Frame  BY <2>0 DEF Frame
    <3>2. QED  BY <2>0, <2>1, <2>2, <3>1 DEF Receive, mode, Frame
  <2>3. CASE DoTimers
    <3> DEFINE due == {t \in Timer : Due(t)}
               b == Collect(timers, due)
    <3>1. b \in Seq(Timer)
      <4> HIDE DEF due
      <4>1. QED  BY <2>0, CollectRight
    <3> HIDE DEF b
    <3>2. [top EXCEPT !.pc = "batch", !.batch = b] \in Frame  BY <2>0, <3>1 DEF Frame
    <3>3. SetTop([top EXCEPT !.pc = "batch", !.batch = b])  BY <2>3 DEF DoTimers, b
    <3>4. QED  BY <2>0, <2>1, <2>3, <3>2, <3>3 DEF DoTimers, mode, kernel, Frame
  <2>4. CASE BatchDone
    <3>1. NewFrame \in Frame  BY DEF NewFrame, Frame
    <3>2. QED  BY <2>0, <2>1, <2>4, <3>1 DEF BatchDone, mode, kernel, NewFrame
  <2>5. CASE SkipTimer
    <3>1. top.batch \in Seq(Timer) /\ top.batch # <<>>  BY <2>0, <2>5 DEF Frame, SkipTimer
    <3>2. Tail(top.batch) \in Seq(Timer)  BY <3>1
    <3>3. [top EXCEPT !.batch = Tail(@)] \in Frame  BY <2>0, <3>2 DEF Frame
    <3>4. QED  BY <2>0, <2>1, <2>5, <3>3 DEF SkipTimer, mode, kernel, Frame
  <2>6. firing' = firing
    BY <2>2, <2>3, <2>4, <2>5 DEF Receive, DoTimers, BatchDone, SkipTimer, mode
  <2>7. QED  BY <2>2, <2>3, <2>4, <2>5, <2>6
<1>1. PICK g \in Frame :
        /\ SetTop(g) /\ g.cur = Nobody /\ top.cur = Nobody
        /\ g.pc \in {"wait", "handle", "batch"}
        /\ UNCHANGED <<timers, fire, valid, firing, soft, hard>>
        /\ UNCHANGED <<now, armed, pc>> /\ message' \in BOOLEAN
  OBVIOUS
<1>2. ModeRight'  BY <1>1, SameMode DEF Inv, ModeRight
<1>3. FrameRight(g, now, valid', firing)  BY <1>1 DEF FrameRight
<1>4. LoopRight'  BY <1>1, <1>3, SameTimerOfRun DEF Inv
<1>5. QED  BY <1>1, <1>2, <1>4 DEF Inv

\* __CFRunLoopDoTimer up to the callout.
LEMMA StartRight ==
    ASSUME Inv, StartTimer
    PROVE  Inv' /\ Anew(Never, Never)
<1> DEFINE t == Head(top.batch)
<1>1. top \in Frame /\ FrameRight(top, now, valid, firing)  BY TopRun DEF Inv
<1>2. top.batch \in Seq(Timer) /\ top.batch # <<>> /\ top.pc = "batch"
  BY <1>1 DEF Frame, StartTimer
<1>3. t \in Timer /\ Tail(top.batch) \in Seq(Timer)  BY <1>2
<1>4. /\ t \in valid /\ t \notin firing /\ fire[t] <= now
      /\ firing' = firing \cup {t} /\ ArmNext(timers, fire, firing', Never, Never)
      /\ SetTop(Starting(t))
      /\ UNCHANGED <<now, message, timers, fire, valid, pc>>
  BY DEF StartTimer, Fires, Due
<1> DEFINE g == Starting(t)
<1> HIDE DEF t
<1>5. fire[t] \in Nat  BY <1>3, TimerAssumption DEF Inv, ModeRight
<1>6. g \in Frame  BY <1>3, <1>5 DEF Frame, Starting
<1>7. firing \subseteq Timer  BY DEF Inv, ModeRight
<1>8. LoopRight'
  <2>1. top.cur = Nobody  BY <1>1, <1>2 DEF FrameRight
  <2>2. g.cur = t /\ g.pc = "callout" /\ g.old <= now  BY <1>4 DEF Starting
  <2> HIDE DEF g
  <2>3. SetTop(g)  BY <1>4 DEF g
  <2>4. UNCHANGED <<now, valid, message>>  BY <1>4
  <2>5. QED  BY <1>3, <1>4, <1>6, <1>7, <2>1, <2>2, <2>3, <2>4, TakenUp DEF Inv
<1>9. timers' \in Seq(Timer) /\ Distinct(timers') /\ Sorted(timers', fire)
      /\ fire \in [Timer -> 0..Distant]
  BY <1>4 DEF Inv, ModeRight
<1>10. ArmNext(timers', fire, firing', Never, Never)  BY <1>4 DEF ArmNext
<1>11. Anew(Never, Never)
  <2> DEFINE busy == firing'
  <2>1. ArmNext(timers', fire, busy, Never, Never) /\ fire' = fire /\ firing' = busy
    BY <1>4, <1>10
  <2> HIDE DEF busy
  <2>2. QED  BY <1>9, <2>1, ArmNextRight
<1>12. ModeRight'
  BY <1>3, <1>4, <1>7, <1>9, <1>11, AnewRight DEF Inv, ModeRight
<1>13. QED  BY <1>4, <1>8, <1>11, <1>12 DEF Inv

\* Runs inside callouts.
LEMMA NestingRight ==
    ASSUME Inv, Nest \/ Unnest
    PROVE  Inv' /\ (Unnest => (top.pc = "callout")')
<1>1. /\ UNCHANGED <<timers, fire, valid, firing, soft, hard, armed, pc>>
      /\ firing \subseteq Timer
  BY DEF Nest, Unnest, kernel, mode, Inv, ModeRight
<1>2. ModeRight'  BY <1>1, SameMode DEF Inv, ModeRight
<1>3. LoopRight' /\ (Unnest => (top.pc = "callout")')
  BY <1>1, Nested, Unnested DEF Inv
<1>4. QED  BY <1>1, <1>2, <1>3 DEF Inv

\* Once a callout has begun, the run's timer is known.
LEMMA RunsTimer ==
    ASSUME Inv, top.pc \in {"callout", "remove", "finish"}
    PROVE  /\ top \in Frame /\ FrameRight(top, now, valid, firing)
           /\ top.cur \in Timer /\ top.cur \in firing
           /\ top.old \in Nat /\ top.old <= now
<1>1. top \in Frame /\ FrameRight(top, now, valid, firing)  BY TopRun DEF Inv
<1>2. top.cur \in firing /\ top.old <= now /\ top.old \in Nat  BY <1>1 DEF FrameRight, Frame
<1>3. QED  BY <1>1, <1>2 DEF Inv, ModeRight

\* The end of a callout.
LEMMA EndRight ==
    ASSUME Inv, EndCallout
    PROVE  Inv'
<1>1. top.pc = "callout"  BY DEF EndCallout
<1>2. /\ top \in Frame /\ FrameRight(top, now, valid, firing)
      /\ top.cur \in Timer /\ top.cur \in firing
  BY <1>1, RunsTimer
<1> DEFINE once == Interval[top.cur] = 0 /\ top.cur \in valid
           next == IF once /\ top.cur \in Elements(timers) THEN "remove" ELSE "finish"
           g == [top EXCEPT !.pc = next]
<1>3. /\ valid' = IF once THEN valid \ {top.cur} ELSE valid
      /\ SetTop(g)
      /\ UNCHANGED <<timers, fire, firing, soft, hard, pc, now, armed, message>>
  BY DEF EndCallout, kernel
<1>4. next \in {"remove", "finish"}  OBVIOUS
<1>5. valid' \subseteq valid /\ (Interval[top.cur] = 0 => top.cur \notin valid')
  BY <1>3
<1> HIDE DEF next, once
<1>6. g \in Frame /\ g.cur = top.cur /\ g.pc = next /\ g.old = top.old
  BY <1>2, <1>4 DEF Frame
<1>7. FrameRight(g, now, valid', firing)
  BY <1>1, <1>2, <1>4, <1>5, <1>6 DEF FrameRight
<1>8. message' \in BOOLEAN  BY <1>3 DEF Inv, LoopRight
<1> HIDE DEF g
<1>9. LoopRight'  BY <1>3, <1>5, <1>6, <1>7, <1>8, SameTimerOfRun DEF Inv
<1>10. ModeRight'  BY <1>3, <1>5, SameMode DEF Inv, ModeRight
<1>11. QED  BY <1>3, <1>9, <1>10 DEF Inv

\* Taking out a timer that has fired once.
LEMMA RemoveOnceRight ==
    ASSUME Inv, RemoveOnce
    PROVE  Inv' /\ (Anew(soft, hard) \/ UNCHANGED <<timers, soft, hard, armed>>)
<1>1. top.pc = "remove"  BY DEF RemoveOnce
<1>2. /\ top \in Frame /\ FrameRight(top, now, valid, firing)
      /\ top.cur \in Timer /\ top.cur \in firing
  BY <1>1, RunsTimer
<1> DEFINE g == [top EXCEPT !.pc = "finish"]
<1>3. /\ RemoveFromMode(top.cur) /\ SetTop(g)
      /\ UNCHANGED <<now, message, fire, valid, firing, pc>>
  BY DEF RemoveOnce
<1>4. ModeRight' /\ (Anew(soft, hard) \/ UNCHANGED <<timers, soft, hard, armed>>)
  BY <1>2, <1>3, RemoveRight DEF Inv
<1>5. g \in Frame /\ g.cur = top.cur /\ g.pc = "finish" /\ g.old = top.old
  BY <1>2 DEF Frame
<1>6. FrameRight(g, now, valid', firing)  BY <1>1, <1>2, <1>3, <1>5 DEF FrameRight
<1>7. valid' \subseteq valid /\ message' \in BOOLEAN  BY <1>3 DEF Inv, LoopRight
<1> HIDE DEF g
<1>8. LoopRight'  BY <1>3, <1>5, <1>6, <1>7, SameTimerOfRun DEF Inv
<1>9. QED  BY <1>3, <1>4, <1>8 DEF Inv

\* The date a callout's return leaves.
LEMMA NextFireOf ==
    ASSUME Inv, top.pc = "finish", top.cur \in valid
    PROVE  LET t == top.cur
               d == NextFire(top.old, Interval[t]) IN
           /\ d \in 0..Distant
           /\ d > now /\ d - Interval[t] <= now /\ (d - top.old) % Interval[t] = 0
<1>1. /\ FrameRight(top, now, valid, firing)
      /\ top.cur \in Timer /\ top.old \in Nat /\ top.old <= now
  BY RunsTimer
<1>2. Interval[top.cur] # 0  BY <1>1 DEF FrameRight
<1>3. /\ Interval[top.cur] \in Nat /\ now \in Nat /\ Distant \in Nat
      /\ now + Interval[top.cur] <= Distant
  <2>1. /\ now \in 0..MaxTime /\ MaxTime \in Nat /\ Distant \in Nat
        /\ Interval[top.cur] \in Nat /\ MaxTime + Interval[top.cur] <= Distant
    BY <1>1, TimerAssumption DEF Inv, LoopRight
  <2>2. QED  BY <2>1
<1> DEFINE old == top.old
           interval == Interval[top.cur]
<1> HIDE DEF old, interval
<1>4. /\ old \in Nat /\ interval \in Nat \ {0} /\ old <= now
      /\ now + interval <= Distant
  BY <1>1, <1>2, <1>3 DEF old, interval
<1>5. /\ NextFire(old, interval) \in 0..Distant
      /\ NextFire(old, interval) > now
      /\ NextFire(old, interval) - interval <= now
      /\ (NextFire(old, interval) - old) % interval = 0
  BY <1>3, <1>4, NextFireRight
<1>6. QED  BY <1>5 DEF old, interval

\* A run that is about to store a date without the loop's lock.
StoreRight == top.pc = "store" => /\ top.storing \in Timer /\ top.old \in 0..Distant
                                  /\ top.storing \notin Elements(timers)

\* The innermost run becomes what it is set to.
LEMMA NewTop ==
    ASSUME LoopRight, NEW g, SetTop(g)
    PROVE  top' = g
<1>1. /\ Len(frames) \in Nat \ {0} /\ frames \in Seq(Frame)
      /\ Len(frames) \in 1..Len(frames)
  BY TopRun DEF LoopRight
<1>2. Len(frames') = Len(frames) /\ frames'[Len(frames)] = g  BY <1>1 DEF SetTop
<1>3. QED  BY <1>2 DEF top

\* The run that is about to store the date d of the timer t.
Storing(t, d) == [top EXCEPT !.pc = "store", !.cur = Nobody, !.storing = t, !.old = d]

\* __CFRunLoopDoTimer after the callout.
LEMMA FinishRight ==
    ASSUME Inv, FinishTimer
    PROVE  /\ Inv' /\ StoreRight'
           /\ Anew(soft, hard) \/ UNCHANGED <<timers, soft, hard, armed>>
           /\ top.cur \in valid /\ top.old < fire[top.cur] =>
                UNCHANGED fire /\ top'.pc = "batch"
           /\ top.cur \in valid /\ ~ (top.old < fire[top.cur]) =>
                LET d == NextFire(top.old, Interval[top.cur]) IN
                \/ top'.pc = "batch" /\ fire'[top.cur] = d
                \/ top'.pc = "store" /\ top'.old = d
<1> DEFINE t == top.cur
           d == NextFire(top.old, Interval[top.cur])
<1>1. top.pc = "finish"  BY DEF FinishTimer
<1>2. /\ top \in Frame /\ FrameRight(top, now, valid, firing)
      /\ t \in Timer /\ t \in firing /\ top.old \in Nat
  BY <1>1, RunsTimer
<1>3. t \in valid => d \in 0..Distant  BY <1>1, NextFireOf
<1>4. /\ firing' = firing \ {t}
      /\ UNCHANGED <<now, message, valid, pc>>
      /\ \/ /\ t \notin valid /\ SetTop(Return(top))
            /\ UNCHANGED <<timers, fire, soft, hard, armed>>
         \/ /\ t \in valid /\ top.old < fire[t] /\ SetTop(Return(top))
            /\ ArmNext(timers, fire, firing', soft, hard) /\ UNCHANGED <<timers, fire>>
         \/ /\ t \in valid /\ fire[t] <= top.old /\ t \in Elements(timers)
            /\ SetTop(Return(top))
            /\ fire' = [fire EXCEPT ![t] = d]
            /\ Reposition(t, fire', firing')
         \/ /\ t \in valid /\ fire[t] <= top.old /\ t \notin Elements(timers)
            /\ SetTop(Storing(t, d))
            /\ UNCHANGED <<timers, fire, soft, hard, armed>>
  BY DEF FinishTimer, TakeNext, Storing
<1>5. /\ Return(top) \in Frame /\ Return(top).cur = Nobody /\ Return(top).pc = "batch"
      /\ t \in valid => /\ Storing(t, d) \in Frame /\ Storing(t, d).cur = Nobody
                         /\ Storing(t, d).pc = "store" /\ Storing(t, d).storing = t
                         /\ Storing(t, d).old = d
  <2>1. Return(top) \in Frame /\ Return(top).cur = Nobody /\ Return(top).pc = "batch"
    BY <1>2 DEF Return, Frame
  <2>2. ASSUME t \in valid
        PROVE  /\ Storing(t, d) \in Frame /\ Storing(t, d).cur = Nobody
               /\ Storing(t, d).pc = "store" /\ Storing(t, d).storing = t
               /\ Storing(t, d).old = d
    <3>1. d \in Nat  BY <1>3, <2>2, TimerAssumption
    <3>2. t \in Timer /\ top \in Frame  BY <1>2
    <3> HIDE DEF d, t
    <3>3. QED  BY <3>1, <3>2 DEF Storing, Frame
  <2>3. QED  BY <2>1, <2>2
<1>6. t # Nobody  BY <1>2, TimerAssumption
<1> HIDE DEF d
<1>7. LoopRight'
  <2>1. SetTop(Return(top)) \/ (t \in valid /\ SetTop(Storing(t, d)))  BY <1>4
  <2>2. LoopRight /\ UNCHANGED <<now, valid, message>>  BY <1>4 DEF Inv
  <2>3. QED  BY <1>4, <1>5, <1>6, <2>1, <2>2, LetGo
<1>a. fire[t] \in Nat  BY <1>2, TimerAssumption DEF Inv, ModeRight
<1> HIDE DEF t
<1>b. ASSUME NEW g, SetTop(g)  PROVE top' = g  BY <1>b, NewTop DEF Inv
<1>c. ~ (top.old < fire[t]) <=> fire[t] <= top.old  BY <1>2, <1>a DEF t
<1>d. SetTop(Return(top)) => top'.pc = "batch" /\ StoreRight'
  BY <1>5, <1>b DEF StoreRight
<1>8. /\ fire \in [Timer -> 0..Distant] /\ firing \subseteq Timer /\ ModeRight
      /\ timers \in Seq(Timer) /\ Distinct(timers) /\ Sorted(timers, fire)
      /\ valid \subseteq Timer /\ armed \in 0..Never
  BY DEF Inv, ModeRight
<1>9. firing' \in SUBSET Timer  BY <1>4, <1>8
<1>10. CASE t \notin valid
  <2>1. UNCHANGED <<timers, fire, soft, hard, armed>>  BY <1>4, <1>10
  <2>2. Waiting' = Waiting \/ ~ (Waiting' \subseteq valid')
    <3>1. CASE t \in Elements(timers)
      <4>1. t \in Waiting'  BY <1>4, <2>1, <3>1 DEF Waiting
      <4>2. QED  BY <1>4, <1>10, <4>1
    <3>2. CASE t \notin Elements(timers)
      BY <1>4, <2>1, <3>2 DEF Waiting
    <3>3. QED  BY <3>1, <3>2
  <2>3. ModeRight'  BY <1>4, <1>8, <1>9, <2>1, <2>2, SameDeadlines
  <2>4. SetTop(Return(top))  BY <1>4, <1>10
  <2>5. QED  BY <1>4, <1>7, <1>10, <1>d, <2>1, <2>3, <2>4 DEF Inv, t
<1>11. CASE t \in valid /\ top.old < fire[t]
  <2>1. /\ ArmNext(timers, fire, firing', soft, hard) /\ UNCHANGED <<timers, fire>>
        /\ SetTop(Return(top))
    BY <1>4, <1>11, <1>c
  <2>2. Anew(soft, hard)
    <3> DEFINE busy == firing'
    <3>1. ArmNext(timers', fire, busy, soft, hard) /\ fire' = fire /\ firing' = busy
      BY <2>1 DEF ArmNext
    <3>2. timers' \in Seq(Timer) /\ Sorted(timers', fire)  BY <1>8, <2>1
    <3> HIDE DEF busy
    <3>3. QED  BY <1>8, <3>1, <3>2, ArmNextRight
  <2>3. ModeRight'
    <3>1. /\ timers' \in Seq(Timer) /\ Distinct(timers')
          /\ fire' \in [Timer -> 0..Distant] /\ Sorted(timers', fire')
          /\ valid' \subseteq Timer /\ firing' \subseteq Timer
      BY <1>4, <1>8, <1>9, <2>1
    <3>2. QED  BY <1>8, <2>2, <3>1, AnewRight
  <2>4. QED  BY <1>4, <1>7, <1>11, <1>d, <2>1, <2>2, <2>3 DEF Inv, t
<1>12. CASE t \in valid /\ fire[t] <= top.old /\ t \in Elements(timers)
  <2>1. /\ fire' = [fire EXCEPT ![t] = d] /\ Reposition(t, fire', firing')
        /\ SetTop(Return(top))
    BY <1>4, <1>12, <1>c
  <2>2. /\ fire' \in [Timer -> 0..Distant] /\ fire'[t] = d
        /\ \A x \in Timer \ {t} : fire'[x] = fire[x]
    BY <1>2, <1>3, <1>8, <1>12, <2>1 DEF t
  <2> DEFINE f == fire'
             busy == firing'
  <2>3. /\ f \in [Timer -> 0..Distant] /\ busy \in SUBSET Timer
        /\ \A x \in Timer \ {t} : f[x] = fire[x]
        /\ Reposition(t, f, busy) /\ fire' = f /\ firing' = busy /\ valid' = valid
    BY <1>4, <1>9, <2>1, <2>2
  <2>4. t \in Timer  BY <1>2 DEF t
  <2> HIDE DEF f, busy
  <2>5. ModeRight' /\ (Anew(soft, hard) \/ UNCHANGED <<timers, soft, hard, armed>>)
    BY <1>8, <1>12, <2>3, <2>4, RepositionRight
  <2>6. QED  BY <1>4, <1>7, <1>12, <1>c, <1>d, <2>1, <2>2, <2>5 DEF Inv, t, d
\* In no mode: nothing but the run changes yet.
<1>13. CASE t \in valid /\ fire[t] <= top.old /\ t \notin Elements(timers)
  <2>1. UNCHANGED <<timers, fire, soft, hard, armed>> /\ SetTop(Storing(t, d))
    BY <1>4, <1>13, <1>c
  <2>2. Waiting' = Waiting  BY <1>4, <1>13, <2>1 DEF Waiting
  <2>3. ModeRight'  BY <1>4, <1>8, <1>9, <2>1, <2>2, SameDeadlines
  <2>4. top' = Storing(t, d)  BY <1>b, <2>1
  <2>5. top'.pc = "store" /\ top'.old = d /\ StoreRight'
    BY <1>2, <1>3, <1>5, <1>13, <2>1, <2>4 DEF StoreRight, t
  <2>6. QED  BY <1>4, <1>7, <1>13, <1>c, <2>1, <2>3, <2>5 DEF Inv, t, d
<1>14. QED  BY <1>10, <1>11, <1>12, <1>13, <1>c

\* The date of a timer in no mode.
LEMMA StoreDateRight ==
    ASSUME Inv, StoreRight, StoreDate
    PROVE  /\ Inv' /\ top'.pc = "batch"
           /\ UNCHANGED <<now, message, armed, timers, soft, hard, firing>>
<1> DEFINE t == top.storing
           d == top.old
<1>1. top.pc = "store" /\ top \in Frame /\ FrameRight(top, now, valid, firing)
  BY TopRun DEF Inv, StoreDate
<1>2. t \in Timer /\ d \in 0..Distant /\ t \notin Elements(timers) /\ top.cur = Nobody
  BY <1>1 DEF StoreRight, FrameRight
<1>3. /\ fire' = [fire EXCEPT ![t] = d] /\ SetTop(Return(top))
      /\ UNCHANGED <<now, message, armed, timers, valid, firing, soft, hard, pc>>
  BY DEF StoreDate, kernel
<1>4. Return(top) \in Frame /\ Return(top).cur = Nobody /\ Return(top).pc = "batch"
  BY <1>1 DEF Return, Frame
<1> HIDE DEF t, d
<1>5. /\ ModeRight /\ timers \in Seq(Timer) /\ Distinct(timers) /\ Sorted(timers, fire)
      /\ fire \in [Timer -> 0..Distant] /\ armed \in 0..Never
      /\ valid \subseteq Timer /\ firing \subseteq Timer
  BY DEF Inv, ModeRight
<1>6. /\ fire' \in [Timer -> 0..Distant]
      /\ \A x \in Elements(timers) : fire'[x] = fire[x]
  BY <1>2, <1>3, <1>5 DEF Elements
<1>7. Waiting' = Waiting  BY <1>3 DEF Waiting
<1>8. ModeRight'  BY <1>3, <1>5, <1>6, <1>7, SameDeadlines
<1> DEFINE g == Return(top)
<1>9. g \in Frame /\ SetTop(g) /\ g.cur = top.cur /\ g.pc = "batch"
  BY <1>2, <1>3, <1>4
<1> HIDE DEF g
<1>10. top' = g  BY <1>9, NewTop DEF Inv
<1>11. FrameRight(g, now, valid', firing)  BY <1>2, <1>9 DEF FrameRight
<1>12. valid' \subseteq valid /\ message' \in BOOLEAN  BY <1>3 DEF Inv, LoopRight
<1>13. LoopRight'  BY <1>3, <1>9, <1>11, <1>12, SameTimerOfRun DEF Inv
<1>14. QED  BY <1>3, <1>8, <1>9, <1>10, <1>13 DEF Inv

-----------------------------------------------------------------------------
(* Calls of other threads.                                                 *)

\* A call that has begun is for a timer, with a date in range.
LEMMA RequestsRight ==
    ASSUME Inv, NEW c \in Client
    PROVE  /\ pc[c] \in Request
           /\ pc[c].call \in {"add", "set", "invalidate"} =>
                pc[c].timer \in Timer /\ pc[c].date \in 0..Distant
           /\ [pc EXCEPT ![c] = Quiet] \in [Client -> Request]
           /\ \A q \in Request : [pc EXCEPT ![c] = q] \in [Client -> Request]
<1>1. pc \in [Client -> Request] /\ Quiet \in Request  BY DEF Inv, Request
<1>2. pc[c].call \in {"add", "set", "invalidate"} => pc[c] # Quiet  BY DEF Quiet
<1>3. pc[c] \in Request  BY <1>1
<1>4. pc[c] # Quiet => pc[c].timer \in Timer /\ pc[c].date \in 0..Distant
  BY <1>3 DEF Request
<1>5. QED  BY <1>1, <1>2, <1>3, <1>4

\* Steps of other threads leave the runs alone.
LEMMA OthersStep ==
    ASSUME Inv, UNCHANGED <<now, message, firing, frames>>, valid' \subseteq valid,
           ModeRight', pc' \in [Client -> Request]
    PROVE  Inv'
<1>1. now' \in 0..MaxTime /\ now <= now' /\ message' \in BOOLEAN
  BY TimerAssumption DEF Inv, LoopRight
<1>2. LoopRight'  BY <1>1, SameRuns DEF Inv
<1>3. QED  BY <1>2 DEF Inv

\* What the calls do before they have the lock.
LEMMA BeginRight ==
    ASSUME Inv, NEW c \in Client, NEW t \in Timer,
           BeginAdd(c, t) \/ BeginSet(c, t) \/ BeginInvalidate(c, t)
    PROVE  /\ Inv'
           /\ UNCHANGED <<now, armed, message, timers, fire, firing, soft, hard, frames>>
<1>1. /\ now \in 0..Distant /\ 0 \in 0..Distant /\ Dates \subseteq 0..Distant
      /\ armed \in 0..Never /\ pc \in [Client -> Request]
  <2>1. now \in 0..MaxTime /\ MaxTime \in Nat /\ Distant \in Nat /\ MaxTime < Distant
    BY TimerAssumption DEF Inv, LoopRight
  <2>2. QED  BY <2>1, TimerAssumption DEF Inv, ModeRight
<1>2. /\ UNCHANGED <<now, armed, message, timers, fire, firing, soft, hard, frames>>
      /\ valid' \subseteq valid
  BY DEF BeginAdd, BeginSet, BeginInvalidate, kernel, mode
<1>3. pc' \in [Client -> Request]
  <2>1. ASSUME NEW call \in {"add", "set", "invalidate"}, NEW d \in 0..Distant,
               Begin(c, call, t, d)
        PROVE  pc' \in [Client -> Request]
    <3>1. [call |-> call, timer |-> t, date |-> d] \in Request  BY DEF Request
    <3>2. QED  BY <2>1, <3>1, RequestsRight DEF Begin
  <2>2. CASE BeginAdd(c, t)  BY <1>1, <2>1, <2>2 DEF BeginAdd
  <2>3. CASE BeginSet(c, t)
    <3>1. PICK d \in Dates : Begin(c, "set", t, IF d < now THEN now ELSE d)
      BY <2>3 DEF BeginSet
    <3>2. (IF d < now THEN now ELSE d) \in 0..Distant  BY <1>1
    <3>3. QED  BY <2>1, <3>1, <3>2
  <2>4. CASE BeginInvalidate(c, t)
    <3>1. CASE t \in Elements(timers)
      BY <1>1, <2>1, <2>4, <3>1 DEF BeginInvalidate
    <3>2. CASE t \notin Elements(timers)
      BY <1>1, <2>4, <3>2 DEF BeginInvalidate
    <3>3. QED  BY <3>1, <3>2
  <2>5. QED  BY <2>2, <2>3, <2>4
<1>4. ModeRight'  BY <1>1, <1>2, SameMode DEF Inv
<1>5. QED  BY <1>2, <1>3, <1>4, OthersStep

\* CFRunLoopAddTimer under the lock.
LEMMA AddRight ==
    ASSUME Inv, NEW c \in Client, Add(c)
    PROVE  Inv' /\ (Anew(soft, hard) \/ UNCHANGED <<timers, soft, hard, armed>>)
<1> DEFINE t == pc[c].timer
<1>1. pc[c].call = "add" /\ pc' = [pc EXCEPT ![c] = Quiet]  BY DEF Add, Done
<1>2. t \in Timer /\ pc' \in [Client -> Request]  BY <1>1, RequestsRight
<1>3. /\ UNCHANGED <<now, message, fire, valid, firing, frames>>
      /\ \/ t \in Elements(timers) /\ UNCHANGED <<timers, soft, hard, armed>>
         \/ /\ t \notin Elements(timers) /\ timers' = Insert(timers, fire, t)
            /\ ArmNext(timers', fire, firing, soft, hard)
  BY DEF Add
<1> HIDE DEF t
<1>4. /\ ModeRight /\ timers \in Seq(Timer) /\ Distinct(timers) /\ Sorted(timers, fire)
      /\ fire \in [Timer -> 0..Distant] /\ armed \in 0..Never
      /\ valid \subseteq Timer /\ firing \subseteq Timer
  BY DEF Inv, ModeRight
<1>5. CASE t \in Elements(timers)
  <2>1. UNCHANGED <<timers, soft, hard, armed>>  BY <1>3, <1>5
  <2>2. ModeRight'  BY <1>3, <1>4, <2>1, SameMode
  <2>3. QED  BY <1>2, <1>3, <2>1, <2>2, OthersStep
<1>6. CASE t \notin Elements(timers)
  <2>1. fire \in [Timer -> Nat]  BY <1>4, TimerAssumption
  <2>2. /\ Insert(timers, fire, t) \in Seq(Timer)
        /\ Sorted(Insert(timers, fire, t), fire) /\ Distinct(Insert(timers, fire, t))
    BY <1>2, <1>4, <1>6, <2>1, InsertRight
  <2>3. timers' \in Seq(Timer) /\ Sorted(timers', fire) /\ Distinct(timers')
    BY <1>3, <1>6, <2>2
  <2>4. Anew(soft, hard)  BY <1>3, <1>4, <1>6, <2>3, ArmNextRight
  <2>5. ModeRight'  BY <1>3, <1>4, <2>3, <2>4, AnewRight
  <2>6. QED  BY <1>2, <1>3, <2>4, <2>5, OthersStep
<1>7. QED  BY <1>5, <1>6

\* CFRunLoopRemoveTimer, and the removal that ends an invalidation.
LEMMA RemovalRight ==
    ASSUME Inv, NEW c \in Client, NEW t \in Timer, Remove(c, t) \/ Invalidate(c)
    PROVE  /\ Inv' /\ Unlocked
           /\ Anew(soft, hard) \/ UNCHANGED <<timers, soft, hard, armed>>
           /\ UNCHANGED <<now, message, fire, valid, firing, frames>>
<1>1. PICK x \in Timer : RemoveFromMode(x)
  <2>1. CASE Remove(c, t)  BY <2>1 DEF Remove
  <2>2. CASE Invalidate(c)
    <3>1. pc[c].timer \in Timer  BY <2>2, RequestsRight DEF Invalidate, Done
    <3>2. QED  BY <2>2, <3>1 DEF Invalidate
  <2>3. QED  BY <2>1, <2>2
<1>2. /\ UNCHANGED <<now, message, fire, valid, firing, frames>>
      /\ pc' = pc \/ pc' = [pc EXCEPT ![c] = Quiet]
      /\ Unlocked
  BY DEF Remove, Invalidate, Done
<1>3. pc' \in [Client -> Request]  BY <1>2, RequestsRight DEF Inv
<1>4. ModeRight' /\ (Anew(soft, hard) \/ UNCHANGED <<timers, soft, hard, armed>>)
  BY <1>1, <1>2, RemoveRight DEF Inv
<1>5. QED  BY <1>2, <1>3, <1>4, OthersStep

\* CFRunLoopTimerSetNextFireDate.
LEMMA SetRight ==
    ASSUME Inv, NEW c \in Client, Set(c) \/ SetDetached(c)
    PROVE  /\ Inv'
           /\ Set(c) => /\ Unlocked
                        /\ Anew(soft, hard) \/ UNCHANGED <<timers, soft, hard, armed>>
           /\ ~ Set(c) => /\ UNCHANGED <<timers, soft, hard, armed>>
                          /\ \A x \in Elements(timers) : fire'[x] = fire[x]
           /\ UNCHANGED <<now, message, valid, firing, frames>>
<1> DEFINE t == pc[c].timer
           d == pc[c].date
<1>1. pc[c].call = "set" /\ pc' = [pc EXCEPT ![c] = Quiet]
  BY DEF Set, SetDetached, Done
<1>2. t \in Timer /\ d \in 0..Distant /\ pc' \in [Client -> Request]
  BY <1>1, RequestsRight
<1>3. /\ fire' = [fire EXCEPT ![t] = d]
      /\ UNCHANGED <<now, message, valid, firing, frames>>
      /\ \/ Set(c) /\ Unlocked /\ Reposition(t, fire', firing)
         \/ /\ SetDetached(c) /\ t \notin Elements(timers)
            /\ UNCHANGED <<timers, soft, hard, armed>>
  BY DEF Set, SetDetached, Done, kernel
<1> HIDE DEF t, d
<1>4. /\ ModeRight /\ timers \in Seq(Timer) /\ Distinct(timers) /\ Sorted(timers, fire)
      /\ fire \in [Timer -> 0..Distant] /\ armed \in 0..Never
      /\ valid \subseteq Timer /\ firing \subseteq Timer
  BY DEF Inv, ModeRight
<1>5. /\ fire' \in [Timer -> 0..Distant]
      /\ \A x \in Timer \ {t} : fire'[x] = fire[x]
  BY <1>2, <1>3, <1>4
<1>6. CASE Set(c) /\ Unlocked /\ Reposition(t, fire', firing)
  <2> DEFINE f == fire'
  <2>1. /\ f \in [Timer -> 0..Distant] /\ \A x \in Timer \ {t} : f[x] = fire[x]
        /\ Reposition(t, f, firing) /\ fire' = f
    BY <1>5, <1>6
  <2> HIDE DEF f
  <2>2. ModeRight' /\ (Anew(soft, hard) \/ UNCHANGED <<timers, soft, hard, armed>>)
    BY <1>2, <1>3, <1>4, <2>1, RepositionRight
  <2>3. QED  BY <1>2, <1>3, <1>6, <2>2, OthersStep
<1>7. CASE SetDetached(c) /\ t \notin Elements(timers)
           /\ UNCHANGED <<timers, soft, hard, armed>>
  <2>1. \A x \in Elements(timers) : fire'[x] = fire[x]
    BY <1>4, <1>5, <1>7 DEF Elements
  <2>2. Waiting' = Waiting  BY <1>3, <1>7 DEF Waiting
  <2>3. ModeRight'  BY <1>3, <1>4, <1>5, <1>7, <2>1, <2>2, SameDeadlines
  <2>4. Inv'  BY <1>2, <1>3, <2>3, OthersStep
  <2>5. Set(c) => Unlocked  BY DEF Set, Done
  <2>6. QED  BY <1>3, <1>7, <2>1, <2>4, <2>5
<1>8. QED  BY <1>3, <1>6, <1>7

-----------------------------------------------------------------------------
(* What the invariant shows.                                               *)

\* The invariant is inductive.
LEMMA InvKept == Inv /\ StoreRight /\ [Next]_vars => Inv'
<1> SUFFICES ASSUME Inv, StoreRight, [Next]_vars PROVE Inv'  OBVIOUS
<1>1. CASE UNCHANGED vars
  <2>1. /\ ModeRight /\ LoopRight /\ pc \in [Client -> Request]
        /\ UNCHANGED <<now, message, frames, timers, fire, valid, firing, soft, hard, armed, pc>>
    BY <1>1 DEF Inv, vars
  <2>2. ModeRight'  BY <2>1, SameMode DEF ModeRight
  <2>3. Inv'  BY <1>1, <2>1, <2>2, OthersStep
  <2>4. QED  BY <2>3
<1>2. CASE Tick \/ Expire  BY <1>2, EnvironmentRight
<1>3. CASE LoopStep
  BY <1>3, WalkRight, StartRight, NestingRight, EndRight, RemoveOnceRight, FinishRight,
         StoreDateRight
     DEF LoopStep
<1>4. CASE Nest  BY <1>4, NestingRight
<1>5. ASSUME NEW c \in Client, Add(c) \/ Set(c) \/ SetDetached(c) \/ Invalidate(c)
      PROVE  Inv'
  <2>1. CASE Invalidate(c)
    <3>1. pc[c].timer \in Timer  BY <2>1, RequestsRight DEF Invalidate, Done
    <3>2. QED  BY <2>1, <3>1, RemovalRight
  <2>2. QED  BY <1>5, <2>1, AddRight, SetRight
<1>6. ASSUME NEW c \in Client, NEW t \in Timer,
             BeginAdd(c, t) \/ Remove(c, t) \/ BeginSet(c, t) \/ BeginInvalidate(c, t)
      PROVE  Inv'
  BY <1>6, BeginRight, RemovalRight
<1>7. QED  BY <1>1, <1>2, <1>3, <1>4, <1>5, <1>6 DEF Next

\* A date is stored without the loop's lock only for a timer that cannot come
\* into the mode meanwhile, because the run holds that lock.
LEMMA StoreKept == Inv /\ StoreRight /\ [Next]_vars => StoreRight'
<1> SUFFICES ASSUME Inv, StoreRight, [Next]_vars, top'.pc = "store"
             PROVE  StoreRight'
  BY DEF StoreRight
<1>1. ASSUME UNCHANGED frames, UNCHANGED timers \/ Unlocked  PROVE StoreRight'
  <2>1. top' = top  BY <1>1 DEF top
  <2>2. UNCHANGED timers  BY <1>1, <2>1 DEF Unlocked
  <2>3. QED  BY <2>1, <2>2 DEF StoreRight, Elements
<1>2. LoopRight /\ top \in Frame  BY TopRun DEF Inv
<1>3. ASSUME NEW g, SetTop(g), g.pc # "store"  PROVE FALSE
  BY <1>2, <1>3, NewTop
<1>4. CASE UNCHANGED vars  BY <1>1, <1>4 DEF vars
<1>5. CASE Tick \/ Expire  BY <1>1, <1>5 DEF Tick, Expire, mode
<1>6. CASE LoopStep
  <2>1. CASE FinishTimer  BY <2>1, FinishRight
  <2>2. CASE Unnest  BY <2>2, NestingRight DEF top
  <2>3. CASE StoreDate  BY <2>3, StoreDateRight
  <2>4. CASE Receive
    <3>1. [top EXCEPT !.pc = "handle"].pc = "handle"  BY <1>2 DEF Frame
    <3>2. QED  BY <1>3, <2>4, <3>1 DEF Receive
  <2>5. CASE DoTimers
    <3> DEFINE g == [top EXCEPT !.pc = "batch",
                                !.batch = Collect(timers, {t \in Timer : Due(t)})]
    <3>1. g.pc = "batch"  BY <1>2 DEF Frame
    <3>2. SetTop(g)  BY <2>5 DEF DoTimers
    <3> HIDE DEF g
    <3>3. QED  BY <1>3, <3>1, <3>2
  <2>6. CASE BatchDone  BY <1>3, <2>6 DEF BatchDone, NewFrame
  <2>7. CASE StartTimer  BY <1>3, <2>7 DEF StartTimer, Starting
  <2>8. CASE SkipTimer
    <3>1. top.pc = "batch" /\ [top EXCEPT !.batch = Tail(@)].pc = top.pc
      BY <1>2, <2>8 DEF SkipTimer, Frame
    <3>2. QED  BY <1>3, <2>8, <3>1 DEF SkipTimer
  <2>9. CASE EndCallout
    <3> DEFINE once == Interval[top.cur] = 0 /\ top.cur \in valid
               p == IF once /\ top.cur \in Elements(timers) THEN "remove" ELSE "finish"
               g == [top EXCEPT !.pc = p]
    <3>1. g.pc = p /\ p # "store"  BY <1>2 DEF Frame
    <3>2. SetTop(g)  BY <2>9 DEF EndCallout
    <3> HIDE DEF g, p
    <3>3. QED  BY <1>3, <3>1, <3>2
  <2>10. CASE RemoveOnce
    <3>1. [top EXCEPT !.pc = "finish"].pc = "finish"  BY <1>2 DEF Frame
    <3>2. QED  BY <1>3, <2>10, <3>1 DEF RemoveOnce
  <2>11. QED
    BY <1>6, <2>1, <2>2, <2>3, <2>4, <2>5, <2>6, <2>7, <2>8, <2>9, <2>10 DEF LoopStep
<1>7. CASE Nest
  <2>1. /\ Len(frames) \in Nat /\ frames \in Seq(Frame) /\ NewFrame \in Frame
    BY TopRun DEF Inv, LoopRight, NewFrame, Frame
  <2>2. frames' = Append(frames, NewFrame)  BY <1>7 DEF Nest
  <2>3. frames'[Len(frames')] = NewFrame  BY <2>1, <2>2
  <2>4. QED  BY <2>3 DEF top, NewFrame
<1>8. ASSUME NEW c \in Client,
             \/ Add(c) \/ Set(c) \/ SetDetached(c) \/ Invalidate(c)
             \/ \E t \in Timer : \/ BeginAdd(c, t) \/ Remove(c, t)
                                 \/ BeginSet(c, t) \/ BeginInvalidate(c, t)
      PROVE  StoreRight'
  BY <1>1, <1>8 DEF Add, Set, SetDetached, Invalidate, BeginAdd, Remove, BeginSet,
                    BeginInvalidate, Done, mode
<1>9. QED  BY <1>4, <1>5, <1>6, <1>7, <1>8 DEF Next

\* They hold in every state.
LEMMA Invariance == Spec => [](Inv /\ StoreRight)
<1>1. Init => Inv  BY InitRight
<1>2. Init => StoreRight
  BY DEF Init, top, NewFrame, StoreRight
<1>3. Inv /\ StoreRight /\ [Next]_vars => Inv'  BY InvKept
<1>4. Inv /\ StoreRight /\ [Next]_vars => StoreRight'  BY StoreKept
<1>5. QED  BY <1>1, <1>2, <1>3, <1>4, PTL DEF Spec

\* Every variable has its type, and the array no timer twice: CFRunLoopAddTimer
\* and __CFRepositionTimerInMode never insert a timer that is in it.
THEOREM TypeCorrect == Spec => []TypeOK
<1>1. Inv => TypeOK
  <2> SUFFICES ASSUME Inv PROVE TypeOK  OBVIOUS
  <2>1. ModeRight /\ LoopRight /\ pc \in [Client -> Request]  BY DEF Inv
  <2>2. QED  BY <2>1 DEF ModeRight, LoopRight, Distinct, TypeOK
<1>2. QED  BY <1>1, Invariance, PTL

\* The deadlines of a mode are those of its timers at any time, whatever is
\* added, removed, fired or re-dated, although the array is searched by halving
\* and walked with an early exit.
THEOREM DeadlinesAreRight == Spec => []DeadlinesRight
<1>1. Inv => DeadlinesRight  BY DEF Inv, ModeRight
<1>2. QED  BY <1>1, Invariance, PTL

\* A timer is in the callout of one run exactly while it is firing, however
\* deep runs are nested.
THEOREM FiringOnce == Spec => []FiresOnce
<1>1. Inv => FiresOnce
  <2> SUFFICES ASSUME Inv, NEW t \in Timer
               PROVE  Cardinality({n \in 1..Len(frames) : frames[n].cur = t})
                        = IF t \in firing THEN 1 ELSE 0
    BY DEF FiresOnce
  <2> DEFINE S == {n \in 1..Len(frames) : frames[n].cur = t}
  <2>0. t # Nobody  BY TimerAssumption
  <2>1. RunsRight  BY DEF Inv, LoopRight
  <2>2. CASE t \in firing
    <3>1. PICK n \in 1..Len(frames) : frames[n].cur = t  BY <2>1, <2>2 DEF RunsRight
    <3>2. \A m \in S : m = n  BY <2>0, <2>1, <3>1 DEF RunsRight
    <3>3. S = {n}  BY <3>1, <3>2
    <3>4. Cardinality({n}) = 1  BY FS_Singleton, Zenon
    <3>5. QED  BY <2>2, <3>3, <3>4
  <2>3. CASE t \notin firing
    <3>1. S = {}  BY <2>0, <2>1, <2>3 DEF RunsRight, FrameRight
    <3>2. Cardinality({}) = 0  BY FS_EmptySet, Zenon
    <3>3. QED  BY <2>3, <3>1, <3>2
  <2>4. QED  BY <2>2, <2>3
<1>2. QED  BY <1>1, Invariance, PTL

\* A callout's return keeps a later date set meanwhile, and otherwise takes the
\* first date after now that is on the timer's grid.
THEOREM DatesHonoured == Spec => DateHonoured
<1> DEFINE Kept == top.pc = "finish" /\ top.cur \in valid /\ firing' # firing =>
               LET t == top.cur
                   d == IF top'.pc = "store" THEN top'.old ELSE fire'[t] IN
               IF top.old < fire[t] THEN d = fire[t]
               ELSE /\ d > now
                    /\ (d - top.old) % Interval[t] = 0
                    /\ d - Interval[t] <= now
<1>1. Inv /\ [Next]_vars => [Kept]_vars
  <2> SUFFICES ASSUME Inv, Next, top.pc = "finish", top.cur \in valid, firing' # firing
               PROVE  LET t == top.cur
                          d == IF top'.pc = "store" THEN top'.old ELSE fire'[t] IN
                      IF top.old < fire[t] THEN d = fire[t]
                      ELSE /\ d > now
                           /\ (d - top.old) % Interval[t] = 0
                           /\ d - Interval[t] <= now
    OBVIOUS
  <2>1. FinishTimer
    BY DEF Next, LoopStep, Tick, Expire, Receive, DoTimers, BatchDone, StartTimer,
           SkipTimer, Nest, Unnest, EndCallout, RemoveOnce, StoreDate, Add, Set,
           SetDetached, Invalidate, BeginAdd, Remove, BeginSet, BeginInvalidate,
           mode, kernel
  <2> DEFINE t == top.cur
             next == NextFire(top.old, Interval[t])
             d == IF top'.pc = "store" THEN top'.old ELSE fire'[t]
  <2>2. /\ top.old < fire[t] => UNCHANGED fire /\ top'.pc = "batch"
        /\ ~ (top.old < fire[t]) => d = next
    BY <2>1, FinishRight
  <2>3. next > now /\ next - Interval[t] <= now /\ (next - top.old) % Interval[t] = 0
    BY NextFireOf
  <2>4. CASE top.old < fire[t]  BY <2>2, <2>4
  <2>5. CASE ~ (top.old < fire[t])
    <3>1. d = next  BY <2>2, <2>5
    <3> HIDE DEF next, d
    <3>2. d > now /\ d - Interval[t] <= now /\ (d - top.old) % Interval[t] = 0
      BY <2>3, <3>1
    <3> HIDE DEF t
    <3>3. QED  BY <2>5, <3>2 DEF t, d
  <2>6. QED  BY <2>4, <2>5
<1>2. Spec => [][Kept]_vars
  <2> HIDE DEF Kept
  <2>1. QED  BY <1>1, Invariance, PTL DEF Spec
<1>3. QED  BY <1>2 DEF DateHonoured

-----------------------------------------------------------------------------
(* The kernel timer.                                                       *)

\* It is set for the soft deadline, or the message it left tells that one has
\* come.
Prepared == soft = Never \/ armed = soft \/ (message /\ soft <= now)

\* Between receiving the message and going through the timers the deadline that
\* has come is remembered, and one of the collected timers is still to fire.
ArmRight ==
    /\ armed \in {soft, Never}
    /\ top.pc \in {"wait", "callout", "remove", "finish", "store"} => Prepared
    /\ top.pc = "handle" => Prepared \/ soft <= now
    /\ top.pc = "batch" => Prepared \/ \E k \in 1..Len(top.batch) : Fires(top.batch[k])

\* Finding the deadlines anew keeps the kernel timer right, because it is set
\* whenever they change.
LEMMA StillPrepared ==
    ASSUME armed \in {soft, Never}, UNCHANGED <<now, message>>,
           Anew(soft, hard) \/ UNCHANGED <<soft, hard, armed>>
    PROVE  /\ armed' \in {soft', Never}
           /\ Prepared => Prepared'
           /\ soft <= now => Prepared' \/ soft' <= now
BY DEF Anew, Prepared

\* A run that has taken the loop's lock finds only valid timers in the mode, but
\* the one that it has fired itself.
LEMMA ValidOnes ==
    Inv /\ OnlyValid => /\ Waiting \subseteq valid
                        /\ top.pc # "remove" => Elements(timers) \subseteq valid
<1> SUFFICES ASSUME Inv, OnlyValid
             PROVE  /\ Waiting \subseteq valid
                    /\ top.pc # "remove" => Elements(timers) \subseteq valid
  OBVIOUS
<1>1. ASSUME NEW t \in Elements(timers), t \notin valid
      PROVE  top.pc = "remove" /\ t \in firing
  <2>1. PICK n \in 1..Len(frames) : frames[n].pc = "remove" /\ frames[n].cur = t
    BY <1>1 DEF OnlyValid
  <2>2. /\ FrameRight(frames[n], now, valid, firing)
        /\ n < Len(frames) => frames[n].pc = "callout"
    BY DEF Inv, LoopRight, RunsRight
  <2>3. frames[n].cur \in firing  BY <2>1, <2>2 DEF FrameRight
  <2>4. n = Len(frames)
    <3>1. Len(frames) \in Nat  BY TopRun DEF Inv
    <3>2. ~ (n < Len(frames))  BY <2>1, <2>2
    <3>3. QED  BY <3>1, <3>2
  <2>5. QED  BY <2>1, <2>3, <2>4 DEF top
<1>2. QED  BY <1>1 DEF Waiting

\* It is right to begin with.
LEMMA ArmedAtFirst == Init => ArmRight
<1> SUFFICES ASSUME Init PROVE ArmRight  OBVIOUS
<1>1. armed = soft  BY DEF Init
<1>2. top = NewFrame /\ top.pc = "wait"  BY DEF Init, top, NewFrame
<1>3. QED  BY <1>1, <1>2 DEF ArmRight, Prepared

\* The steps of the clock, the kernel and the loop's thread.
LEMMA ArmedByLoop ==
    ASSUME Inv, StoreRight, ArmRight, OnlyValid, Tick \/ Expire \/ LoopStep \/ Nest
    PROVE  ArmRight'
<1> DEFINE N == Len(frames)
<1>1. /\ N \in Nat \ {0} /\ N \in 1..N /\ frames \in Seq(Frame) /\ top \in Frame
      /\ FrameRight(top, now, valid, firing) /\ top = frames[N]
  BY TopRun DEF Inv, LoopRight, top
<1>2. ASSUME NEW g, SetTop(g)  PROVE top' = g /\ Len(frames') = N
  BY <1>1, <1>2 DEF SetTop, top
<1>3. now \in Nat /\ Never \in Nat /\ soft \in 0..Never /\ now < Never
  <2>1. /\ now \in 0..MaxTime /\ MaxTime \in Nat /\ Distant \in Nat /\ Never \in Nat
        /\ MaxTime < Distant /\ Distant < Never
    BY TimerAssumption DEF Inv, LoopRight
  <2>2. QED  BY <2>1 DEF Inv, ModeRight
<1> HIDE DEF N
<1>4. CASE Tick
  <2>1. /\ UNCHANGED <<timers, fire, valid, firing, soft, hard, armed, message, frames>>
        /\ now' = now + 1
    BY <1>4 DEF Tick, mode
  <2>2. top' = top  BY <2>1 DEF top
  <2>3. soft <= now => soft <= now'  BY <1>3, <2>1
  <2>4. Prepared => Prepared'  BY <2>1, <2>3 DEF Prepared
  <2>5. ASSUME NEW k \in 1..Len(top.batch), Fires(top.batch[k])
        PROVE  Fires(top.batch[k])'
    <3>1. top.batch[k] \in Timer
      <4>1. top.batch \in Seq(Timer)  BY <1>1 DEF Frame
      <4>2. QED  BY <4>1
    <3>2. fire[top.batch[k]] \in Nat  BY <3>1, TimerAssumption DEF Inv, ModeRight
    <3>3. fire[top.batch[k]] <= now => fire[top.batch[k]] <= now'  BY <1>3, <2>1, <3>2
    <3>4. QED  BY <2>1, <2>2, <2>5, <3>3 DEF Fires, Due
  <2>6. QED  BY <2>1, <2>2, <2>3, <2>4, <2>5 DEF ArmRight
<1>5. CASE Expire
  <2>1. /\ armed <= now /\ armed' = Never /\ message' = TRUE
        /\ UNCHANGED <<now, soft, frames>>
    BY <1>5 DEF Expire, mode
  <2>2. armed = soft  BY <1>3, <2>1 DEF ArmRight
  <2>3. Prepared'  BY <2>1, <2>2 DEF Prepared
  <2>4. QED  BY <2>1, <2>3 DEF ArmRight
<1>6. CASE Receive
  <2> DEFINE g == [top EXCEPT !.pc = "handle"]
  <2>1. /\ top.pc = "wait" /\ message /\ message' = FALSE /\ SetTop(g)
        /\ UNCHANGED <<now, armed, soft>>
    BY <1>6 DEF Receive, mode
  <2>2. g.pc = "handle"  BY <1>1 DEF Frame
  <2> HIDE DEF g
  <2>3. top' = g  BY <1>2, <2>1
  <2>4. Prepared  BY <2>1 DEF ArmRight
  <2>5. Prepared' \/ soft' <= now'  BY <2>1, <2>4 DEF Prepared
  <2>6. QED  BY <2>1, <2>2, <2>3, <2>5 DEF ArmRight
<1>7. CASE DoTimers
  <2> DEFINE due == {t \in Timer : Due(t)}
             b == Collect(timers, due)
             g == [top EXCEPT !.pc = "batch", !.batch = b]
  <2>1. /\ top.pc = "handle" /\ SetTop(g)
        /\ UNCHANGED <<now, armed, message, timers, fire, valid, firing, soft, hard>>
    BY <1>7 DEF DoTimers, mode, kernel
  <2>2. timers \in Seq(Timer)  BY DEF Inv, ModeRight
  <2>3. Elements(b) = Elements(timers) \cap due
    <3> HIDE DEF due
    <3>1. QED  BY <2>2, CollectRight
  <2> HIDE DEF b
  <2>4. g.pc = "batch" /\ g.batch = b  BY <1>1 DEF Frame
  <2> HIDE DEF g
  <2>5. top' = g  BY <1>2, <2>1
  <2>6. Prepared' <=> Prepared  BY <2>1 DEF Prepared
  <2>7. CASE Prepared  BY <2>1, <2>4, <2>5, <2>6, <2>7 DEF ArmRight
  <2>8. CASE ~ Prepared
    <3>1. soft <= now /\ soft # Never  BY <2>1, <2>8 DEF ArmRight, Prepared
    <3>2. Waiting \subseteq valid  BY ValidOnes
    <3>3. soft = FirstDate(fire, Waiting)
      BY <3>2 DEF Inv, ModeRight, DeadlinesRight, FirstDate
    <3>4. PICK t \in Waiting : fire[t] = soft
      <4>1. fire \in [Timer -> 0..Distant] /\ Waiting \in SUBSET Timer
        BY <2>2 DEF Inv, ModeRight, Waiting, Elements
      <4>2. QED  BY <3>1, <3>3, <4>1, FirstIsFirst
    <3>5. t \in Timer /\ t \in Elements(timers) /\ Due(t)
      BY <2>2, <3>1, <3>2, <3>4 DEF Waiting, Due, Elements
    <3>6. t \in Elements(b)  BY <2>3, <3>5
    <3>7. PICK k \in 1..Len(b) : b[k] = t  BY <3>6 DEF Elements
    <3>8. t \in valid' /\ t \notin firing' /\ fire'[t] <= now' /\ t \in Elements(timers')
      BY <2>1, <3>5 DEF Due
    <3>9. top'.batch = b  BY <2>4, <2>5
    <3>10. (\E j \in 1..Len(top.batch) : Fires(top.batch[j]))'
      BY <3>7, <3>8, <3>9 DEF Fires, Due
    <3>11. QED  BY <2>1, <2>4, <2>5, <3>10 DEF ArmRight
  <2>9. QED  BY <2>7, <2>8
<1>8. CASE BatchDone
  <2>1. /\ top.pc = "batch" /\ top.batch = <<>> /\ SetTop(NewFrame)
        /\ UNCHANGED <<now, armed, message, soft>>
    BY <1>8 DEF BatchDone, mode, kernel
  <2>2. top' = NewFrame  BY <1>2, <2>1
  <2>3. 1..Len(top.batch) = {}  BY <2>1
  <2>4. Prepared  BY <2>1, <2>3 DEF ArmRight
  <2>5. Prepared'  BY <2>1, <2>4 DEF Prepared
  <2>6. QED  BY <2>1, <2>2, <2>5 DEF ArmRight, NewFrame
<1>9. CASE SkipTimer
  <2> DEFINE b == top.batch
             g == [top EXCEPT !.batch = Tail(b)]
  <2>1. /\ top.pc = "batch" /\ b # <<>> /\ ~ Fires(Head(b)) /\ SetTop(g)
        /\ UNCHANGED <<now, armed, message, timers, fire, valid, firing, soft, hard>>
    BY <1>9 DEF SkipTimer, mode, kernel
  <2>2. g.pc = "batch" /\ g.batch = Tail(b) /\ b \in Seq(Timer)  BY <1>1, <2>1 DEF Frame
  <2>3. top' = g
    <3> HIDE DEF g
    <3>1. QED  BY <1>2, <2>1
  <2> HIDE DEF g
  <2>4. CASE Prepared
    <3>1. Prepared'  BY <2>1, <2>4 DEF Prepared
    <3>2. QED  BY <2>1, <2>2, <2>3, <3>1 DEF ArmRight
  <2>5. CASE \E k \in 1..Len(b) : Fires(b[k])
    <3>1. PICK k \in 1..Len(b) : Fires(b[k])  BY <2>5
    <3> HIDE DEF b
    <3>2. /\ Len(b) \in Nat /\ Head(b) = b[1] /\ Len(Tail(b)) = Len(b) - 1
          /\ \A j \in 1..(Len(b) - 1) : Tail(b)[j] = b[j + 1]
      BY <2>1, <2>2
    <3>3. k # 1  BY <2>1, <3>1, <3>2
    <3>4. k - 1 \in 1..Len(Tail(b)) /\ Tail(b)[k - 1] = b[k]  BY <3>2, <3>3
    <3> DEFINE t == Tail(b)[k - 1]
    <3>5. t \in valid' /\ t \notin firing' /\ fire'[t] <= now' /\ t \in Elements(timers')
      BY <2>1, <3>1, <3>4 DEF Fires, Due
    <3>6. top'.batch = Tail(b) /\ top'.pc = "batch"  BY <2>2, <2>3
    <3>7. (\E j \in 1..Len(top.batch) : Fires(top.batch[j]))'
      BY <3>4, <3>5, <3>6 DEF Fires, Due
    <3>8. QED  BY <2>1, <3>6, <3>7 DEF ArmRight
  <2>6. QED  BY <2>1, <2>4, <2>5 DEF ArmRight
<1>10. CASE StartTimer
  <2>1. Anew(Never, Never)  BY <1>10, StartRight
  <2>2. Prepared' /\ armed' \in {soft', Never}
    BY <2>1 DEF Anew, Prepared
  <2>3. QED  BY <2>2 DEF ArmRight
<1>11. CASE Nest \/ Unnest
  <2>1. /\ UNCHANGED <<now, armed, message, soft>>
        /\ top.pc \in {"wait", "callout"}
    BY <1>11 DEF Nest, Unnest, mode, kernel
  <2>2. Prepared'  BY <2>1 DEF ArmRight, Prepared
  <2>3. QED  BY <2>1, <2>2 DEF ArmRight
<1>12. CASE EndCallout
  <2>1. top.pc = "callout" /\ UNCHANGED <<now, armed, message, soft>>
    BY <1>12 DEF EndCallout, kernel
  <2>2. Prepared'  BY <2>1 DEF ArmRight, Prepared
  <2>3. QED  BY <2>1, <2>2 DEF ArmRight
<1>13. CASE RemoveOnce \/ FinishTimer
  <2>1. Anew(soft, hard) \/ UNCHANGED <<soft, hard, armed>>
    BY <1>13, RemoveOnceRight, FinishRight
  <2>2. top.pc \in {"remove", "finish"} /\ UNCHANGED <<now, message>>
    BY <1>13 DEF RemoveOnce, FinishTimer
  <2>3. Prepared' /\ armed' \in {soft', Never}
    BY <2>1, <2>2, StillPrepared DEF ArmRight
  <2>4. QED  BY <2>3 DEF ArmRight
<1>14. CASE StoreDate
  <2>1. top.pc = "store" /\ UNCHANGED <<now, message, armed, soft>> /\ top'.pc = "batch"
    BY <1>14, StoreDateRight DEF StoreDate
  <2>2. Prepared'  BY <2>1 DEF ArmRight, Prepared
  <2>3. QED  BY <2>1, <2>2 DEF ArmRight
<1>15. QED
  BY <1>4, <1>5, <1>6, <1>7, <1>8, <1>9, <1>10, <1>11, <1>12, <1>13, <1>14
     DEF LoopStep

\* The calls of other threads.
LEMMA ArmedByOthers ==
    ASSUME Inv, Inv', ArmRight, OnlyValid', NEW c \in Client,
           \/ Add(c) \/ Set(c) \/ SetDetached(c) \/ Invalidate(c)
           \/ \E t \in Timer : BeginAdd(c, t) \/ Remove(c, t) \/ BeginSet(c, t)
                                              \/ BeginInvalidate(c, t)
    PROVE  ArmRight'
\* Under the loop's lock the deadlines may be found anew.
<1>1. CASE \/ Add(c) \/ Set(c) \/ Invalidate(c)
           \/ \E t \in Timer : Remove(c, t)
  <2>1. Anew(soft, hard) \/ UNCHANGED <<soft, hard, armed>>
    <3>1. CASE Invalidate(c)
      <4>1. pc[c].timer \in Timer  BY <3>1, RequestsRight DEF Invalidate, Done
      <4>2. QED  BY <3>1, <4>1, RemovalRight
    <3>2. QED  BY <1>1, <3>1, AddRight, SetRight, RemovalRight
  <2>2. UNCHANGED <<now, message, frames>> /\ Unlocked
    BY <1>1 DEF Add, Set, Invalidate, Remove, Done
  <2>3. top' = top  BY <2>2 DEF top
  <2>4. /\ armed' \in {soft', Never}
        /\ Prepared => Prepared'
        /\ soft <= now => Prepared' \/ soft' <= now'
    BY <2>1, <2>2, StillPrepared DEF ArmRight
  <2>5. QED  BY <2>2, <2>3, <2>4 DEF ArmRight, Unlocked
\* Without it they stay, and so does a timer that is still to fire.
<1>2. CASE \/ SetDetached(c) /\ ~ Set(c)
           \/ \E t \in Timer : BeginAdd(c, t) \/ BeginSet(c, t) \/ BeginInvalidate(c, t)
  <2>1. /\ UNCHANGED <<now, message, timers, firing, soft, hard, armed, frames>>
        /\ \A x \in Elements(timers) : fire'[x] = fire[x]
    BY <1>2, SetRight, BeginRight
  <2>2. top' = top  BY <2>1 DEF top
  <2>3. Prepared => Prepared'  BY <2>1 DEF Prepared
  <2>4. ASSUME top.pc = "batch", NEW k \in 1..Len(top.batch), Fires(top.batch[k])
        PROVE  Fires(top.batch[k])'
    <3>1. (top.pc # "remove" => Elements(timers) \subseteq valid)'  BY ValidOnes, PTL
    <3>2. Elements(timers) \subseteq valid'  BY <2>1, <2>2, <2>4, <3>1
    <3>3. QED  BY <2>1, <2>2, <2>4, <3>2 DEF Fires, Due
  <2>5. QED  BY <2>1, <2>2, <2>3, <2>4 DEF ArmRight
<1>3. QED  BY <1>1, <1>2

\* The thread does not oversleep: as long as no other thread leaves an invalid
\* timer in the mode, the kernel timer is set for the first timer or its message
\* is there whenever the thread waits.
THEOREM NotLate == Spec => ArmedForFirst
<1> DEFINE First == top.pc = "wait" => \A t \in Waiting : message \/ armed <= fire[t]
<1>1. Inv /\ StoreRight /\ Inv' /\ ArmRight /\ OnlyValid /\ OnlyValid' /\ [Next]_vars => ArmRight'
  <2> SUFFICES ASSUME Inv, StoreRight, Inv', ArmRight, OnlyValid, OnlyValid', [Next]_vars
               PROVE  ArmRight'
    OBVIOUS
  <2>1. CASE UNCHANGED vars
    BY <2>1 DEF vars, ArmRight, Prepared, top, Fires, Due
  <2>2. CASE Tick \/ Expire \/ LoopStep \/ Nest  BY <2>2, ArmedByLoop
  <2>3. ASSUME NEW c \in Client,
               \/ Add(c) \/ Set(c) \/ SetDetached(c) \/ Invalidate(c)
               \/ \E t \in Timer : \/ BeginAdd(c, t) \/ Remove(c, t)
                                   \/ BeginSet(c, t) \/ BeginInvalidate(c, t)
        PROVE  ArmRight'
    BY <2>3, ArmedByOthers
  <2>4. QED  BY <2>1, <2>2, <2>3 DEF Next
<1>2. Inv /\ ArmRight /\ OnlyValid => First
  <2> SUFFICES ASSUME Inv, ArmRight, OnlyValid, top.pc = "wait", NEW t \in Waiting
               PROVE  message \/ armed <= fire[t]
    OBVIOUS
  <2>1. /\ fire \in [Timer -> 0..Distant] /\ Waiting \in SUBSET Timer
    BY DEF Inv, ModeRight, Waiting, Elements
  <2>2. soft = FirstDate(fire, Waiting)
    BY ValidOnes DEF Inv, ModeRight, DeadlinesRight, FirstDate
  <2>3. soft <= fire[t] /\ soft # Never  BY <2>1, <2>2, FirstIsFirst
  <2>4. QED  BY <2>3 DEF ArmRight, Prepared
<1>3. Init => ArmRight  BY ArmedAtFirst
<1>4. Spec /\ []OnlyValid => []First
  <2> HIDE DEF First
  <2>1. QED  BY <1>1, <1>2, <1>3, Invariance, PTL DEF Spec
<1>5. QED  BY <1>4 DEF ArmedForFirst

=============================================================================
