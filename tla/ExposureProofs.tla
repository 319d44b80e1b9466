--------------------------- MODULE ExposureProofs ----------------------------
(***************************************************************************)
(* Proofs about module Exposure: the conversion for every exposure and     *)
(* size of the significand, and the measurement for any number of calls.   *)
(***************************************************************************)
EXTENDS Exposure, TLAPS, WellFoundedInduction

-----------------------------------------------------------------------------
(* Recursion over the natural numbers.  Induction is by the least counterexample, *)
(* because the provers cannot instantiate an induction rule.                      *)

\* A set of natural numbers has a least element.
LEMMA LeastNumber ==
  ASSUME NEW T \in SUBSET Nat, T # {}
  PROVE  \E n \in T : n \in Nat /\ \A m \in Nat : m < n => m \notin T
<1> DEFINE R == {ss \in Nat \X Nat : ss[1] < ss[2]}
<1>1. IsWellFoundedOn(R, Nat)
  BY NatLessThanWellFounded DEF OpToRel
<1>2. \A x, y \in Nat : x < y => <<x, y>> \in R
  OBVIOUS
<1> HIDE DEF R
<1>3. PICK n \in T : \A m \in T : ~ (<<m, n>> \in R)
  BY <1>1, WFMin
<1> QED
  BY <1>2, <1>3

\* A set that has 0 and with each number the next has all numbers.
LEMMA AllNumbers ==
  ASSUME NEW T \in SUBSET Nat, 0 \in T, \A n \in T : n + 1 \in T
  PROVE  T = Nat
<1> SUFFICES ASSUME Nat \ T # {} PROVE FALSE
  OBVIOUS
<1>1. PICK n \in Nat \ T : \A m \in Nat : m < n => m \notin Nat \ T
  BY LeastNumber
<1>2. n # 0 /\ n - 1 \in Nat /\ n - 1 < n
  BY <1>1
<1>3. n - 1 \in T
  BY <1>1, <1>2
<1> QED
  BY <1>1, <1>2, <1>3

\* f begins with first and goes on by step.
Iterates(f, first, step) == f[0] = first /\ \A n \in Nat : f[n + 1] = step[f[n]]

\* A function over the natural numbers may be defined by its value at 0 and a step.
LEMMA RecursionExists ==
  ASSUME NEW S, NEW first \in S, NEW step \in [S -> S]
  PROVE  \E f \in [Nat -> S] : Iterates(f, first, step)
<1> DEFINE Part(n) == {g \in [0 .. n -> S] : /\ g[0] = first
                                             /\ \A k \in 0 .. n : k # n => g[k + 1] = step[g[k]]}
           Parts == {n \in Nat : Part(n) # {}}
<1>1. Parts = Nat
  <2>1. 0 \in Parts
    <3>1. [k \in 0 .. 0 |-> first] \in Part(0)
      OBVIOUS
    <3> QED
      BY <3>1
  <2>2. ASSUME NEW n \in Nat, NEW g \in Part(n) PROVE Part(n + 1) # {}
    <3> DEFINE h == [k \in 0 .. n + 1 |-> IF k = n + 1 THEN step[g[n]] ELSE g[k]]
    <3>1. g \in [0 .. n -> S] /\ g[0] = first /\ \A k \in 0 .. n : k # n => g[k + 1] = step[g[k]]
      OBVIOUS
    <3>2. h \in [0 .. n + 1 -> S]
      BY <3>1
    <3>3. h[0] = first
      BY <3>1
    <3>4. ASSUME NEW k \in 0 .. n + 1, k # n + 1 PROVE h[k + 1] = step[h[k]]
      <4>1. CASE k = n
        BY <4>1
      <4>2. CASE k # n
        BY <3>1, <3>4, <4>2
      <4> QED
        BY <4>1, <4>2
    <3> HIDE DEF h
    <3> QED
      BY <3>2, <3>3, <3>4
  <2>3. \A n \in Parts : n + 1 \in Parts
    BY <2>2
  <2> HIDE DEF Parts
  <2>4. Parts \in SUBSET Nat
    BY DEF Parts
  <2> QED
    BY <2>1, <2>3, <2>4, AllNumbers
<1>2. ASSUME NEW n \in Nat, NEW g \in Part(n), NEW m \in Nat, NEW h \in Part(m), n <= m
      PROVE  g[n] = h[n]
  <2> DEFINE Same == {k \in Nat : k <= n => g[k] = h[k]}
  <2>1. /\ g[0] = first /\ \A k \in 0 .. n : k # n => g[k + 1] = step[g[k]]
        /\ h[0] = first /\ \A k \in 0 .. m : k # m => h[k + 1] = step[h[k]]
    OBVIOUS
  <2>2. 0 \in Same
    BY <2>1
  <2>3. ASSUME NEW k \in Same PROVE k + 1 \in Same
    <3>1. CASE k + 1 <= n
      <4>1. g[k] = h[k] /\ k \in 0 .. n /\ k # n /\ k \in 0 .. m /\ k # m
        BY <1>2, <3>1
      <4> QED
        BY <2>1, <4>1
    <3>2. CASE ~(k + 1 <= n)
      BY <3>2
    <3> QED
      BY <3>1, <3>2
  <2>4. Same \in SUBSET Nat
    OBVIOUS
  <2> HIDE DEF Same
  <2>5. n \in Same
    BY <2>2, <2>3, <2>4, AllNumbers
  <2> QED
    BY <2>5 DEF Same
<1> DEFINE part(n) == CHOOSE g : g \in Part(n)
           f == [n \in Nat |-> part(n)[n]]
<1>3. \A n \in Nat : part(n) \in Part(n)
  BY <1>1
<1> HIDE DEF part
<1>4. \A n \in Nat : f[n] \in S
  BY <1>3
<1>5. f[0] = first
  BY <1>3
<1>6. ASSUME NEW n \in Nat PROVE f[n + 1] = step[f[n]]
  <2>1. part(n) \in Part(n) /\ part(n + 1) \in Part(n + 1)
    BY <1>3
  <2>2. part(n + 1)[n + 1] = step[part(n + 1)[n]]
    BY <2>1
  <2>3. n + 1 \in Nat /\ n <= n + 1
    OBVIOUS
  <2> HIDE DEF Part
  <2>4. part(n)[n] = part(n + 1)[n]
    BY <1>2, <2>1, <2>3
  <2> QED
    BY <2>2, <2>4
<1> HIDE DEF f
<1>7. f \in [Nat -> S]
  BY <1>4 DEF f
<1> QED
  BY <1>5, <1>6, <1>7 DEF Iterates

-----------------------------------------------------------------------------
(* The recursive functions of the conversion. *)

\* The powers of ten.
LEMMA Powers ==
  /\ Power10[0] = 1
  /\ \A e \in Nat : Power10[e] \in Nat /\ Power10[e] > 0 /\ Power10[e + 1] = 10 * Power10[e]
<1> DEFINE times == [p \in Nat |-> 10 * p]
<1>1. PICK f \in [Nat -> Nat] : f[0] = 1 /\ \A n \in Nat : f[n + 1] = times[f[n]]
  <2>1. times \in [Nat -> Nat] /\ 1 \in Nat
    OBVIOUS
  <2> HIDE DEF times
  <2>2. \E f \in [Nat -> Nat] : Iterates(f, 1, times)
    BY <2>1, RecursionExists
  <2> QED
    BY <2>2 DEF Iterates
<1>2. ASSUME NEW e \in Nat, e # 0 PROVE f[e] = 10 * f[e - 1]
  <2>1. e - 1 \in Nat /\ (e - 1) + 1 = e
    BY <1>2
  <2>2. f[(e - 1) + 1] = times[f[e - 1]]
    BY <1>1, <2>1
  <2> QED
    BY <2>1, <2>2
<1>3. f = [e \in Nat |-> IF e = 0 THEN 1 ELSE 10 * f[e - 1]]
  BY <1>1, <1>2
<1>4. Power10 = [e \in Nat |-> IF e = 0 THEN 1 ELSE 10 * Power10[e - 1]]
  BY <1>3 DEF Power10
<1>5. Power10[0] = 1
  BY <1>4
<1>6. ASSUME NEW e \in Nat PROVE Power10[e + 1] = 10 * Power10[e]
  <2>1. e + 1 \in Nat /\ e + 1 # 0 /\ (e + 1) - 1 = e
    OBVIOUS
  <2>2. Power10[e + 1] = 10 * Power10[(e + 1) - 1]
    BY <1>4, <2>1
  <2> QED
    BY <2>1, <2>2
<1> DEFINE Positive == {e \in Nat : Power10[e] \in Nat /\ Power10[e] > 0}
<1>7. 0 \in Positive /\ \A e \in Positive : e + 1 \in Positive
  BY <1>5, <1>6
<1>8. Positive \in SUBSET Nat
  OBVIOUS
<1> HIDE DEF Positive
<1>9. Positive = Nat
  BY <1>7, <1>8, AllNumbers
<1> QED
  BY <1>5, <1>6, <1>9 DEF Positive

\* The loop of convertExposureBack, round by round.
LEMMA RaisedSteps ==
  ASSUME NEW first \in Nat
  PROVE  /\ Raised(first)[0] = first
         /\ \A e \in Nat : /\ Raised(first)[e] \in Nat
                          /\ Raised(first)[e + 1] = (Raised(first)[e] * 10) % Word
<1> DEFINE step == [m \in Nat |-> (m * 10) % Word]
<1>1. step \in [Nat -> Nat]
  BY UnitsAssumption
<1>2. \E f \in [Nat -> Nat] : Iterates(f, first, step)
  <2> HIDE DEF step
  <2> QED
    BY <1>1, RecursionExists
<1>3. PICK f \in [Nat -> Nat] : f[0] = first /\ \A n \in Nat : f[n + 1] = step[f[n]]
  BY <1>2 DEF Iterates
<1>4. ASSUME NEW e \in Nat, e # 0 PROVE f[e] = (f[e - 1] * 10) % Word
  <2>1. e - 1 \in Nat /\ (e - 1) + 1 = e
    BY <1>4
  <2>2. f[(e - 1) + 1] = step[f[e - 1]]
    BY <1>3, <2>1
  <2> QED
    BY <2>1, <2>2
<1>5. f = [e \in Nat |-> IF e = 0 THEN first ELSE (f[e - 1] * 10) % Word]
  BY <1>3, <1>4
<1>6. Raised(first) = [e \in Nat |-> IF e = 0 THEN first ELSE (Raised(first)[e - 1] * 10) % Word]
  BY <1>5 DEF Raised
<1>7. Raised(first)[0] = first
  BY <1>6
<1>8. ASSUME NEW e \in Nat PROVE Raised(first)[e + 1] = (Raised(first)[e] * 10) % Word
  <2>1. e + 1 \in Nat /\ e + 1 # 0 /\ (e + 1) - 1 = e
    OBVIOUS
  <2>2. Raised(first)[e + 1] = (Raised(first)[(e + 1) - 1] * 10) % Word
    BY <1>6, <2>1
  <2> QED
    BY <2>1, <2>2
<1> DEFINE Numbers == {e \in Nat : Raised(first)[e] \in Nat}
<1>9. 0 \in Numbers
  BY <1>7
<1>10. ASSUME NEW e \in Numbers PROVE e + 1 \in Numbers
  <2>1. Raised(first)[e] * 10 \in Nat
    OBVIOUS
  <2> QED
    BY <1>8, <2>1, UnitsAssumption
<1>11. Numbers \in SUBSET Nat
  OBVIOUS
<1> HIDE DEF Numbers
<1>12. Numbers = Nat
  BY <1>9, <1>10, <1>11, AllNumbers
<1>13. \A e \in Nat : Raised(first)[e] \in Nat
  BY <1>12 DEF Numbers
<1> QED
  BY <1>7, <1>8, <1>13

\* As long as the product fits in the word, e rounds multiply by 10 ^ e.
LEMMA RaisedFits ==
  ASSUME NEW first \in Nat, NEW e \in Nat, first * Power10[e] < Word
  PROVE  Raised(first)[e] = first * Power10[e]
<1> DEFINE Fits == {k \in Nat : k <= e => Raised(first)[k] = first * Power10[k]}
           Below == {k \in Nat : k <= e => first * Power10[e - k] < Word}
<1>1. Below = Nat
  <2>1. 0 \in Below
    OBVIOUS
  <2>2. ASSUME NEW k \in Below PROVE k + 1 \in Below
    <3> SUFFICES ASSUME k + 1 <= e PROVE first * Power10[e - (k + 1)] < Word
      OBVIOUS
    <3> DEFINE p == Power10[e - (k + 1)]
    <3>1. e - (k + 1) \in Nat /\ (e - (k + 1)) + 1 = e - k
      OBVIOUS
    <3>2. Power10[e - k] = 10 * p /\ p \in Nat
      BY <3>1, Powers
    <3>3. first * Power10[e - k] < Word /\ Word \in Nat
      BY UnitsAssumption
    <3> HIDE DEF p
    <3>4. first * (10 * p) = 10 * (first * p) /\ first * p \in Nat
      BY <3>2
    <3>5. first * p < Word
      BY <3>2, <3>3, <3>4
    <3> QED
      BY <3>5 DEF p
  <2>3. Below \in SUBSET Nat
    OBVIOUS
  <2> HIDE DEF Below
  <2> QED
    BY <2>1, <2>2, <2>3, AllNumbers
<1>2. 0 \in Fits
  BY RaisedSteps, Powers
<1>3. ASSUME NEW k \in Fits PROVE k + 1 \in Fits
  <2> SUFFICES ASSUME k + 1 <= e PROVE Raised(first)[k + 1] = first * Power10[k + 1]
    OBVIOUS
  <2>1. Raised(first)[k] = first * Power10[k]
    OBVIOUS
  <2>2. e - (k + 1) \in Nat /\ e - (e - (k + 1)) = k + 1 /\ e - (k + 1) <= e
    OBVIOUS
  <2>3. first * Power10[k + 1] < Word
    BY <1>1, <2>2
  <2>4. Power10[k + 1] = 10 * Power10[k] /\ Power10[k] \in Nat
    BY Powers
  <2>5. Raised(first)[k + 1] = (Raised(first)[k] * 10) % Word
    BY RaisedSteps
  <2>6. Raised(first)[k] * 10 = first * Power10[k + 1] /\ first * Power10[k + 1] \in Nat
    BY <2>1, <2>4
  <2>7. \A x, w \in Nat : x < w => x % w = x
    OBVIOUS
  <2> QED
    BY <2>3, <2>5, <2>6, <2>7, UnitsAssumption
<1>4. Fits \in SUBSET Nat
  OBVIOUS
<1> HIDE DEF Fits
<1>5. Fits = Nat
  BY <1>2, <1>3, <1>4, AllNumbers
<1> QED
  BY <1>5 DEF Fits
\* One round of the loop of convertExposure, for all m, from what the others come to.
Round(g) ==
  [m \in Nat |-> IF m < SigLimit THEN [s |-> m, e |-> 0]
                 ELSE [s |-> g[m \div 10].s, e |-> g[m \div 10].e + 1]]

\* Division by ten makes what is not below the limit smaller.
LEMMA Tenth ==
  /\ \A m \in Nat : m \div 10 \in Nat
  /\ \A m \in Nat : ~(m < SigLimit) => m \div 10 < m /\ m > 0
BY UnitsAssumption

LEMMA RoundType ==
  ASSUME NEW g \in [Nat -> Digits]
  PROVE  /\ Round(g) \in [Nat -> Digits]
         /\ \A m \in Nat : m < SigLimit => Round(g)[m] = [s |-> m, e |-> 0]
         /\ \A m \in Nat : ~(m < SigLimit) => Round(g)[m] = [s |-> g[m \div 10].s,
                                                             e |-> g[m \div 10].e + 1]
<1>1. SigLimit \in Nat
  BY UnitsAssumption
<1>2. \A d \in Digits : [s |-> d.s, e |-> d.e + 1] \in Digits
  BY <1>1 DEF Digits
<1>3. \A m \in Nat : g[m \div 10] \in Digits
  BY Tenth
<1>4. ASSUME NEW m \in Nat, m < SigLimit PROVE [s |-> m, e |-> 0] \in Digits
  BY <1>1, <1>4 DEF Digits
<1> QED
  BY <1>2, <1>3, <1>4 DEF Round

\* The loop ends: enough rounds leave every number as another round would.
LEMMA LoopEnds ==
  \E f \in [Nat -> Digits] : f = Round(f)
<1> DEFINE T == [Nat -> Digits]
           step == [g \in T |-> Round(g)]
           zero == [m \in Nat |-> [s |-> 0, e |-> 0]]
<1>1. zero \in T /\ step \in [T -> T]
  <2>1. [s |-> 0, e |-> 0] \in Digits
    BY UnitsAssumption DEF Digits
  <2>2. \A g \in T : Round(g) \in T
    BY RoundType
  <2> QED
    BY <2>1, <2>2
<1>2. \E G \in [Nat -> T] : Iterates(G, zero, step)
  <2> HIDE DEF T, step, zero
  <2> QED
    BY <1>1, RecursionExists
<1>3. PICK G \in [Nat -> T] : Iterates(G, zero, step)
  BY <1>2
<1>4. ASSUME NEW n \in Nat
      PROVE  /\ G[n] \in T /\ G[n + 1] \in T /\ G[n + 1] = Round(G[n])
  <2>1. G[n] \in T /\ n + 1 \in Nat /\ G[n + 1] \in T
    OBVIOUS
  <2>2. G[n + 1] = step[G[n]]
    BY <1>3 DEF Iterates
  <2>3. \A g \in T : step[g] = Round(g)
    OBVIOUS
  <2> HIDE DEF T, step
  <2> QED
    BY <2>1, <2>2, <2>3
<1> HIDE DEF T, step, zero
<1>5. ASSUME NEW n \in Nat, NEW m \in Nat
      PROVE  /\ m < SigLimit => G[n + 1][m] = [s |-> m, e |-> 0]
             /\ ~(m < SigLimit) => G[n + 1][m] = [s |-> G[n][m \div 10].s,
                                                  e |-> G[n][m \div 10].e + 1]
  <2> DEFINE g == G[n]
  <2>1. g \in [Nat -> Digits] /\ G[n + 1] = Round(g)
    BY <1>4 DEF T
  <2> HIDE DEF g
  <2>2. /\ \A j \in Nat : j < SigLimit => Round(g)[j] = [s |-> j, e |-> 0]
        /\ \A j \in Nat : ~(j < SigLimit) => Round(g)[j] = [s |-> g[j \div 10].s,
                                                           e |-> g[j \div 10].e + 1]
    BY <2>1, RoundType
  <2> QED
    BY <2>1, <2>2 DEF g
<1> DEFINE Stable == {n \in Nat : \A m \in Nat : m <= n => G[(n + 1) + 1][m] = G[n + 1][m]}
<1>6. Stable = Nat
  <2>1. 0 \in Stable
    <3>1. 0 < SigLimit
      BY UnitsAssumption
    <3>2. \A n \in Nat : G[n + 1][0] = [s |-> 0, e |-> 0]
      BY <1>5, <3>1
    <3>3. \A m \in Nat : m <= 0 => m = 0
      OBVIOUS
    <3> QED
      BY <3>2, <3>3
  <2>2. ASSUME NEW n \in Stable PROVE n + 1 \in Stable
    <3> SUFFICES ASSUME NEW m \in Nat, m <= n + 1
                 PROVE  G[((n + 1) + 1) + 1][m] = G[(n + 1) + 1][m]
      OBVIOUS
    <3> DEFINE n1 == n + 1
               n2 == n1 + 1
    <3>3. n \in Nat /\ n1 \in Nat /\ n2 \in Nat
      OBVIOUS
    <3>4. \A j \in Nat : j <= n => G[n2][j] = G[n1][j]
      OBVIOUS
    <3> HIDE DEF Stable, n2, n1
    <3>1. CASE m < SigLimit
      <4>1. G[n2 + 1][m] = [s |-> m, e |-> 0]
        BY <1>5, <3>1, <3>3
      <4>2. G[n1 + 1][m] = [s |-> m, e |-> 0]
        BY <1>5, <3>1, <3>3
      <4> QED
        BY <4>1, <4>2 DEF n2, n1
    <3>2. CASE ~(m < SigLimit)
      <4>1. m \div 10 \in Nat /\ m \div 10 <= n
        <5>1. m \div 10 \in Nat /\ m \div 10 < m
          BY Tenth, <3>2
        <5> QED
          BY <5>1, <3>3 DEF n1
      <4>2. G[n2][m \div 10] = G[n1][m \div 10]
        BY <3>4, <4>1
      <4>3. G[n2 + 1][m] = [s |-> G[n2][m \div 10].s, e |-> G[n2][m \div 10].e + 1]
        BY <1>5, <3>2, <3>3
      <4>4. G[n1 + 1][m] = [s |-> G[n1][m \div 10].s, e |-> G[n1][m \div 10].e + 1]
        BY <1>5, <3>2, <3>3
      <4>5. G[n2 + 1][m] = G[n1 + 1][m]
        BY <4>2, <4>3, <4>4
      <4> QED
        BY <4>5 DEF n2, n1
    <3> QED
      BY <3>1, <3>2
  <2>3. Stable \in SUBSET Nat
    OBVIOUS
  <2> HIDE DEF Stable
  <2> QED
    BY <2>1, <2>2, <2>3, AllNumbers
<1> DEFINE Kept == {k \in Nat : \A j \in Nat : j <= k => G[k + 1][j] = G[j + 1][j]}
<1>7. Kept = Nat
  <2>1. 0 \in Kept
    OBVIOUS
  <2>2. ASSUME NEW k \in Kept PROVE k + 1 \in Kept
    <3> SUFFICES ASSUME NEW j \in Nat, j <= k + 1 PROVE G[(k + 1) + 1][j] = G[j + 1][j]
      OBVIOUS
    <3>1. CASE j = k + 1
      BY <3>1
    <3>2. CASE j # k + 1
      <4>1. j <= k
        BY <3>2
      <4>2. G[k + 1][j] = G[j + 1][j]
        BY <4>1
      <4>3. k \in Stable
        BY <1>6
      <4>4. G[(k + 1) + 1][j] = G[k + 1][j]
        BY <4>1, <4>3
      <4> QED
        BY <4>2, <4>4
    <3> QED
      BY <3>1, <3>2
  <2>3. Kept \in SUBSET Nat
    OBVIOUS
  <2> HIDE DEF Kept, Stable
  <2> QED
    BY <2>1, <2>2, <2>3, AllNumbers
<1> DEFINE f == [m \in Nat |-> G[m + 1][m]]
<1>8. f \in [Nat -> Digits]
  BY <1>4 DEF T
<1>9. ASSUME NEW m \in Nat PROVE f[m] = Round(f)[m]
  <2>1. CASE m < SigLimit
    <3>1. f[m] = [s |-> m, e |-> 0]
      BY <1>5, <2>1
    <3> HIDE DEF f
    <3>2. \A j \in Nat : j < SigLimit => Round(f)[j] = [s |-> j, e |-> 0]
      BY <1>8, RoundType
    <3> QED
      BY <2>1, <3>1, <3>2
  <2>2. CASE ~(m < SigLimit)
    <3>1. m \div 10 \in Nat /\ m - 1 \in Nat /\ m \div 10 <= m - 1 /\ (m - 1) + 1 = m
      BY Tenth, <2>2
    <3>2. m - 1 \in Kept
      BY <1>7, <3>1
    <3>3. G[m][m \div 10] = G[(m \div 10) + 1][m \div 10]
      BY <3>1, <3>2
    <3> HIDE DEF Kept, Stable
    <3>4. f[m \div 10] = G[m][m \div 10]
      BY <3>1, <3>3
    <3>5. f[m] = [s |-> G[m][m \div 10].s, e |-> G[m][m \div 10].e + 1]
      BY <1>5, <2>2
    <3> HIDE DEF f
    <3> QED
      BY <1>8, <2>2, <3>4, <3>5, RoundType
  <2> QED
    BY <2>1, <2>2
<1> HIDE DEF f
<1>10. Round(f) \in [Nat -> Digits]
  BY <1>8, RoundType
<1>11. f = Round(f)
  BY <1>8, <1>9, <1>10
<1> QED
  BY <1>8, <1>11

\* The loop of convertExposure, round by round.
LEMMA ReducedSteps ==
  /\ Reduced \in [Nat -> Digits]
  /\ \A m \in Nat : /\ m < SigLimit => Reduced[m] = [s |-> m, e |-> 0]
                    /\ ~(m < SigLimit) => Reduced[m] = [s |-> Reduced[m \div 10].s,
                                                        e |-> Reduced[m \div 10].e + 1]
<1>1. PICK f \in [Nat -> Digits] : f = Round(f)
  BY LoopEnds
<1>2. Reduced = Round(Reduced)
  BY <1>1 DEF Round, Reduced
<1>3. \A m \in Nat : /\ m < SigLimit => Reduced[m] = [s |-> m, e |-> 0]
                     /\ ~(m < SigLimit) => Reduced[m] = [s |-> Reduced[m \div 10].s,
                                                         e |-> Reduced[m \div 10].e + 1]
  BY <1>2 DEF Round
<1> DEFINE Bad == {m \in Nat : Reduced[m] \notin Digits}
<1>4. Bad = {}
  <2> SUFFICES ASSUME Bad # {} PROVE FALSE
    OBVIOUS
  <2>1. PICK m \in Bad : m \in Nat /\ \A k \in Nat : k < m => k \notin Bad
    <3>1. Bad \in SUBSET Nat
      OBVIOUS
    <3> HIDE DEF Bad
    <3> QED
      BY <3>1, LeastNumber
  <2>2. CASE m < SigLimit
    <3>1. [s |-> m, e |-> 0] \in Digits
      BY <2>1, <2>2, UnitsAssumption DEF Digits
    <3> QED
      BY <1>3, <2>1, <2>2, <3>1
  <2>3. CASE ~(m < SigLimit)
    <3>1. Reduced[m \div 10] \in Digits
      BY <2>1, <2>3, Tenth
    <3>2. [s |-> Reduced[m \div 10].s, e |-> Reduced[m \div 10].e + 1] \in Digits
      <4>1. \A d \in Digits : [s |-> d.s, e |-> d.e + 1] \in Digits
        BY UnitsAssumption DEF Digits
      <4> QED
        BY <3>1, <4>1
    <3> QED
      BY <1>3, <2>1, <2>3, <3>2
  <2> QED
    BY <2>2, <2>3
<1>5. Reduced = [m \in Nat |-> Reduced[m]]
  BY <1>2 DEF Round
<1>6. \A m \in Nat : Reduced[m] \in Digits
  BY <1>4
<1> QED
  BY <1>3, <1>5, <1>6
\* Products.
LEMMA Products ==
  /\ \A x, y \in Nat : x * y \in Nat /\ x * (10 * y) = 10 * (x * y)
  /\ \A x, y, u \in Nat : x <= y => x * u <= y * u
  /\ \A x, y, u \in Nat : (x * y) * u = x * (y * u)
<1>1. \A x, y \in Nat : x * y \in Nat /\ x * (10 * y) = 10 * (x * y)
  OBVIOUS
<1>2. \A x, y, u \in Nat : x <= y => x * u <= y * u
  OBVIOUS
<1>3. \A x, y, u \in Nat : (x * y) * u = x * (y * u)
  OBVIOUS
<1> QED
  BY <1>1, <1>2, <1>3

\* What the loop of convertExposure cuts off of m, and what it does not.
LEMMA ReducedIsClosest ==
  ASSUME NEW m \in Nat
  PROVE  /\ Units(Reduced[m]) <= m
         /\ m < (Reduced[m].s + 1) * Power10[Reduced[m].e]
         /\ Reduced[m].e > 0 => SigLimit * Power10[Reduced[m].e - 1] <= m
<1> DEFINE Close(k) == /\ Reduced[k].s * Power10[Reduced[k].e] <= k
                       /\ k < (Reduced[k].s + 1) * Power10[Reduced[k].e]
                       /\ Reduced[k].e > 0 => SigLimit * Power10[Reduced[k].e - 1] <= k
           Bad == {k \in Nat : ~Close(k)}
<1>1. Bad = {}
  <2> SUFFICES ASSUME Bad # {} PROVE FALSE
    OBVIOUS
  <2>1. PICK k \in Bad : k \in Nat /\ \A j \in Nat : j < k => j \notin Bad
    <3>1. Bad \in SUBSET Nat
      OBVIOUS
    <3> HIDE DEF Bad
    <3> QED
      BY <3>1, LeastNumber
  <2>2. CASE k < SigLimit
    <3>1. Reduced[k].s = k /\ Reduced[k].e = 0
      BY <2>1, <2>2, ReducedSteps
    <3>2. Power10[0] = 1
      BY Powers
    <3> QED
      BY <2>1, <3>1, <3>2
  <2>3. CASE ~(k < SigLimit)
    <3> DEFINE q == k \div 10
               s == Reduced[q].s
               e == Reduced[q].e
               p == Power10[e]
    <3>1. q \in Nat /\ q < k /\ 10 * q <= k /\ k < 10 * q + 10
      BY <2>1, <2>3, Tenth
    <3>2. Close(q)
      BY <2>1, <3>1
    <3>3. Reduced[q] \in Digits
      BY <3>1, ReducedSteps
    <3>4. s \in Nat /\ e \in Nat
      BY <3>3, UnitsAssumption DEF Digits
    <3>5. p \in Nat /\ Power10[e + 1] = 10 * p
      BY <3>4, Powers
    <3>6. Reduced[k].s = s /\ Reduced[k].e = e + 1
      BY <2>1, <2>3, ReducedSteps
    <3> HIDE DEF q, s, e, p
    <3>7. s * p <= q /\ q < (s + 1) * p /\ (e > 0 => SigLimit * Power10[e - 1] <= q)
      BY <3>2 DEF s, e, p
    <3>8. s * (10 * p) <= k
      <4>1. s * (10 * p) = 10 * (s * p) /\ s * p \in Nat
        BY <3>4, <3>5, Products
      <4> QED
        BY <2>1, <3>1, <3>7, <4>1
    <3>9. k < (s + 1) * (10 * p)
      <4>1. (s + 1) * (10 * p) = 10 * ((s + 1) * p) /\ (s + 1) * p \in Nat
        BY <3>4, <3>5, Products
      <4> QED
        BY <2>1, <3>1, <3>7, <4>1
    <3>10. SigLimit * p <= k
      <4>1. SigLimit \in Nat
        BY UnitsAssumption
      <4>2. CASE e = 0
        <5>1. p = 1
          BY <4>2, Powers DEF p
        <5> QED
          BY <2>1, <2>3, <4>1, <5>1
      <4>3. CASE e # 0
        <5>1. e - 1 \in Nat /\ (e - 1) + 1 = e /\ e > 0
          BY <3>4, <4>3
        <5> DEFINE r == Power10[e - 1]
        <5>2. r \in Nat /\ p = 10 * r
          BY <5>1, Powers DEF p
        <5>3. SigLimit * r <= q
          BY <3>7, <5>1
        <5> HIDE DEF r
        <5>4. SigLimit * (10 * r) = 10 * (SigLimit * r) /\ SigLimit * r \in Nat
          BY <4>1, <5>2, Products
        <5> QED
          BY <2>1, <3>1, <5>2, <5>3, <5>4
      <4> QED
        BY <4>2, <4>3
    <3>11. (e + 1) - 1 = e
      BY <3>4
    <3>12. Close(k)
      BY <3>5, <3>6, <3>8, <3>9, <3>10, <3>11 DEF p
    <3> QED
      BY <2>1, <3>12
  <2> QED
    BY <2>2, <2>3
<1>2. Close(m)
  BY <1>1
<1> QED
  BY <1>2 DEF Units

\* convertExposure is exact to one step of the exponent it chooses, and chooses no
\* larger one than it needs, for every exposure and every size of the significand.
THEOREM ConversionIsClosest ==
  ASSUME NEW t \in Nat
  PROVE  convertExposure(t) \in Digits /\ Encodes(convertExposure(t), t)
<1> DEFINE m == t \div Unit
           d == Reduced[m]
           p == Power10[d.e]
<1>1. Unit \in Nat /\ Unit > 0 /\ SigLimit \in Nat
  BY UnitsAssumption
<1>2. m \in Nat /\ m * Unit <= t /\ t < (m + 1) * Unit
  BY <1>1
<1>3. d \in Digits /\ d.s \in Nat /\ d.e \in Nat
  BY <1>1, <1>2, ReducedSteps DEF Digits
<1>4. p \in Nat
  BY <1>3, Powers
<1> HIDE DEF m
<1>5. d.s * p <= m /\ m < (d.s + 1) * p /\ (d.e > 0 => SigLimit * Power10[d.e - 1] <= m)
  BY <1>2, ReducedIsClosest DEF Units
<1> HIDE DEF d, p
<1>6. (d.s * p) * Unit <= t
  <2>1. d.s * p \in Nat
    BY <1>3, <1>4, Products
  <2>2. (d.s * p) * Unit <= m * Unit
    BY <1>1, <1>2, <1>5, <2>1, Products
  <2>3. (d.s * p) * Unit \in Nat /\ m * Unit \in Nat
    BY <1>1, <1>2, <2>1, Products
  <2> QED
    BY <1>2, <2>2, <2>3
<1>7. t < ((d.s + 1) * p) * Unit
  <2>1. (d.s + 1) * p \in Nat /\ m + 1 \in Nat /\ m + 1 <= (d.s + 1) * p
    BY <1>2, <1>3, <1>4, <1>5, Products
  <2>2. (m + 1) * Unit <= ((d.s + 1) * p) * Unit
    BY <1>1, <2>1, Products
  <2>3. (m + 1) * Unit \in Nat /\ ((d.s + 1) * p) * Unit \in Nat
    BY <1>1, <2>1, Products
  <2> QED
    BY <1>2, <2>2, <2>3
<1>8. d.e > 0 => (SigLimit * Power10[d.e - 1]) * Unit <= t
  <2> SUFFICES ASSUME d.e > 0 PROVE (SigLimit * Power10[d.e - 1]) * Unit <= t
    OBVIOUS
  <2> DEFINE r == Power10[d.e - 1]
  <2>1. d.e - 1 \in Nat
    BY <1>3
  <2>2. r \in Nat
    BY <2>1, Powers
  <2>3. SigLimit * r <= m
    BY <1>5
  <2> HIDE DEF r
  <2>4. SigLimit * r \in Nat
    BY <1>1, <2>2, Products
  <2>5. (SigLimit * r) * Unit <= m * Unit
    BY <1>1, <1>2, <2>3, <2>4, Products
  <2>6. (SigLimit * r) * Unit \in Nat /\ m * Unit \in Nat
    BY <1>1, <1>2, <2>4, Products
  <2>7. (SigLimit * r) * Unit <= t
    BY <1>2, <2>5, <2>6
  <2> QED
    BY <2>7 DEF r
<1>9. convertExposure(t) = d
  BY DEF convertExposure, d, m
<1> QED
  BY <1>3, <1>6, <1>7, <1>8, <1>9 DEF Encodes, Units, p

\* What is read back is encoded by a timer value of the same length.
LEMMA ReducedAgain ==
  ASSUME NEW s \in 0 .. SigLimit - 1, NEW e \in Nat
  PROVE  s * Power10[e] \in Nat /\ Units(Reduced[s * Power10[e]]) = s * Power10[e]
<1> DEFINE Exact == {k \in Nat : Units(Reduced[s * Power10[k]]) = s * Power10[k]}
<1>1. s \in Nat /\ s < SigLimit
  BY UnitsAssumption
<1>2. 0 \in Exact
  <2>1. s * Power10[0] = s
    BY <1>1, Powers
  <2>2. Reduced[s].s = s /\ Reduced[s].e = 0
    BY <1>1, ReducedSteps
  <2> QED
    BY <2>1, <2>2 DEF Units
<1>3. ASSUME NEW k \in Exact PROVE k + 1 \in Exact
  <2> DEFINE p == Power10[k]
             q == s * p
             m == s * Power10[k + 1]
             d == Reduced[q]
  <2>1. p \in Nat /\ Power10[k + 1] = 10 * p
    BY Powers
  <2>2. q \in Nat /\ m = 10 * q
    BY <1>1, <2>1, Products
  <2>3. Units(d) = q
    OBVIOUS
  <2> HIDE DEF q, m, p
  <2>4. CASE m < SigLimit
    <3>1. Reduced[m].s = m /\ Reduced[m].e = 0
      BY <2>2, <2>4, ReducedSteps
    <3>2. Units(Reduced[m]) = m
      BY <2>2, <3>1, Powers DEF Units
    <3> QED
      BY <3>2 DEF m
  <2>5. CASE ~(m < SigLimit)
    <3>1. m \in Nat /\ m \div 10 = q
      BY <2>2
    <3>2. Reduced[m].s = d.s /\ Reduced[m].e = d.e + 1
      BY <2>5, <3>1, ReducedSteps
    <3>3. d.s \in Nat /\ d.e \in Nat
      BY <2>2, ReducedSteps, UnitsAssumption DEF Digits
    <3>4. Power10[d.e] \in Nat /\ Power10[d.e + 1] = 10 * Power10[d.e]
      BY <3>3, Powers
    <3>5. d.s * Power10[d.e] = q
      BY <2>3 DEF Units
    <3>6. d.s * (10 * Power10[d.e]) = 10 * q
      BY <3>3, <3>4, <3>5, Products
    <3>7. Units(Reduced[m]) = m
      BY <2>2, <3>2, <3>4, <3>6 DEF Units
    <3> QED
      BY <3>7 DEF m
  <2> QED
    BY <2>4, <2>5
<1>4. Exact \in SUBSET Nat
  OBVIOUS
<1> HIDE DEF Exact
<1>5. Exact = Nat
  BY <1>2, <1>3, <1>4, AllNumbers
<1>6. s * Power10[e] \in Nat
  BY <1>1, Powers, Products
<1> QED
  BY <1>5, <1>6 DEF Exact
-----------------------------------------------------------------------------
(* Types. *)

\* The operators between the application's exposures and the device's timer values.
LEMMA ValueTypes ==
  /\ \A x \in TimerStates : Timer(x) \in TimerValues
  /\ \A v \in TimerValues : Answer(v) \in TimerStates /\ Length(v) \in Nat
  /\ \A p \in TimerStates : TimerMillis(p) \in Nat
<1>1. Unit \in Nat /\ Milli \in Nat /\ Milli > 0 /\ Word \in Nat /\ Word > 0
  BY UnitsAssumption
<1>2. SigLimit \in Nat /\ [s |-> 0, e |-> 0] \in Digits
  BY UnitsAssumption DEF Digits
<1>3. \A t \in Nat : convertExposure(t) \in Digits
  BY ConversionIsClosest
<1>4. \A d \in Digits : d.s \in Nat /\ d.e \in Nat
  BY <1>2 DEF Digits
<1>5. ASSUME NEW d \in Digits PROVE convertExposureBack(d) \in Nat /\ Units(d) \in Nat
  <2>1. d.s * Unit \in Nat
    BY <1>1, <1>4, Products
  <2>2. convertExposureBack(d) \in Nat
    BY <1>4, <2>1, RaisedSteps DEF convertExposureBack
  <2> QED
    BY <1>4, <2>2, Powers, Products DEF Units
<1>6. ASSUME NEW x \in TimerStates PROVE Timer(x) \in TimerValues
  <2>1. x.t1 \in Nat /\ x.t2 \in Nat /\ x.r1 \in Nat /\ x.r2 \in Nat
    BY DEF TimerStates
  <2>2. x.t1 % Word \in Nat
    BY <1>1, <2>1
  <2> QED
    BY <1>2, <1>3, <2>1, <2>2 DEF Timer, TimerValues
<1>7. ASSUME NEW v \in TimerValues PROVE Answer(v) \in TimerStates /\ Length(v) \in Nat
  <2>1. v.d1 \in Digits /\ v.d2 \in Digits /\ v.r1 \in Nat /\ v.r2 \in Nat
    BY DEF TimerValues
  <2>2. /\ Units(v.d1) \in Nat /\ Units(v.d2) \in Nat
        /\ convertExposureBack(v.d1) \in Nat /\ convertExposureBack(v.d2) \in Nat
    BY <1>5, <2>1
  <2>3. Units(v.d1) * v.r1 \in Nat /\ Units(v.d2) * v.r2 \in Nat
    BY <2>1, <2>2, Products
  <2>4. Length(v) \in Nat
    BY <2>2, <2>3 DEF Length
  <2>5. Answer(v) \in TimerStates
    BY <2>1, <2>2 DEF Answer, Single, Double, TimerStates
  <2> QED
    BY <2>4, <2>5
<1>8. ASSUME NEW p \in TimerStates PROVE TimerMillis(p) \in Nat
  <2>1. p.t1 \in Nat /\ p.t2 \in Nat /\ p.r1 \in Nat /\ p.r2 \in Nat
    BY DEF TimerStates
  <2>2. p.t1 * p.r1 \in Nat /\ p.t2 * p.r2 \in Nat
    BY <2>1, Products
  <2>3. \A n \in Nat : n % Word \in Nat /\ n \div Milli \in Nat
    BY <1>1
  <2>4. ((p.t1 * p.r1) % Word) \div Milli \in Nat /\ ((p.t2 * p.r2) % Word) \div Milli \in Nat
    BY <2>2, <2>3
  <2> QED
    BY <2>1, <2>3, <2>4 DEF TimerMillis
<1> QED
  BY <1>6, <1>7, <1>8

\* TypeOK, variable by variable.
LEMMA TypeParts ==
  TypeOK <=>
    /\ timer \in TimerValues /\ running \in TimerValues
    /\ prev \in TimerStates /\ config \in TimerStates /\ measurement \in TimerStates
    /\ left \in Nat /\ age \in Nat /\ elapsed \in Nat /\ nap \in Nat /\ lag \in Nat
    /\ sets \in Nat
    /\ apc \in {"idle", "query", "set", "record"}
    /\ rpc \in {"idle", "elapsed", "asleep", "send"}
    /\ rushed \in BOOLEAN /\ settled \in BOOLEAN
BY DEF TypeOK

LEMMA InitTypes == Init => TypeOK
<1> SUFFICES ASSUME Init PROVE TypeOK
  OBVIOUS
<1>1. PICK x \in Exposures : timer = Timer(x)
  BY DEF Init
<1>2. x \in TimerStates
  BY ExposuresAssumption DEF TimerStates
<1>3. timer \in TimerValues /\ running \in TimerValues
  BY <1>1, <1>2, ValueTypes DEF Init
<1>4. left \in Nat
  BY <1>3, ValueTypes DEF Init
<1>5. Single(0) \in TimerStates
  BY DEF Single, TimerStates
<1>6. MaxAge \in Nat
  BY UnitsAssumption
<1> QED
  BY <1>3, <1>4, <1>5, <1>6, TypeParts DEF Init

LEMMA StepTypes == TypeOK /\ [Next]_vars => TypeOK'
<1> SUFFICES ASSUME TypeOK, [Next]_vars PROVE TypeOK'
  OBVIOUS
<1>1. /\ timer \in TimerValues /\ running \in TimerValues
      /\ prev \in TimerStates /\ config \in TimerStates /\ measurement \in TimerStates
      /\ left \in Nat /\ age \in Nat /\ elapsed \in Nat /\ nap \in Nat /\ lag \in Nat
      /\ sets \in Nat
      /\ apc \in {"idle", "query", "set", "record"}
      /\ rpc \in {"idle", "elapsed", "asleep", "send"}
      /\ rushed \in BOOLEAN /\ settled \in BOOLEAN
  BY TypeParts
<1>2. /\ Unit \in Nat /\ Unit > 0 /\ Milli \in Nat /\ Milli > 0 /\ MaxAge \in Nat
      /\ Answer(timer) \in TimerStates /\ Timer(config) \in TimerValues
      /\ Length(timer) \in Nat /\ TimerMillis(prev) \in Nat /\ Single(0) \in TimerStates
  BY <1>1, UnitsAssumption, ValueTypes DEF Single, TimerStates
<1> USE DEF vars, deviceVars, setVars, startVars
<1>3. CASE Tick
  <2>1. left' \in Nat /\ running' \in TimerValues /\ rushed' \in BOOLEAN
    <3>1. CASE left > 1
      BY <1>1, <1>3, <3>1 DEF Tick
    <3>2. CASE ~(left > 1)
      BY <1>1, <1>2, <1>3, <3>2 DEF Tick
    <3> QED
      BY <3>1, <3>2
  <2>2. age' \in Nat /\ lag' \in Nat /\ nap' \in Nat
    BY <1>1, <1>2, <1>3 DEF Tick, AtMost
  <2>3. UNCHANGED <<timer, prev, setVars, rpc, elapsed>>
    BY <1>3 DEF Tick
  <2> QED
    BY <1>1, <2>1, <2>2, <2>3 DEF TypeOK
<1>4. CASE Set
  <2>1. PICK x \in Exposures \cup {Answer(timer)} : SetBegin(x)
    BY <1>4 DEF Set
  <2>2. x \in TimerStates
    BY <1>2, ExposuresAssumption DEF TimerStates
  <2> QED
    BY <1>1, <2>1, <2>2 DEF SetBegin, TypeOK
<1>5. CASE SetQuery
  <2>1. rushed' \in BOOLEAN
    BY <1>5, Zenon DEF SetQuery
  <2> QED
    BY <1>1, <1>2, <1>5, <2>1 DEF SetQuery, TypeOK
<1>6. CASE SetTimer
  <2>1. rushed' \in BOOLEAN
    BY <1>6, Zenon DEF SetTimer
  <2> QED
    BY <1>1, <1>2, <1>6, <2>1 DEF SetTimer, TypeOK
<1>7. CASE SetRecord
  BY <1>1, <1>2, <1>7 DEF SetRecord, TypeOK
<1>8. CASE SetFails
  <2>1. settled' \in BOOLEAN
    BY <1>8, Zenon DEF SetFails
  <2> QED
    BY <1>1, <1>2, <1>8, <2>1 DEF SetFails, TypeOK
<1>9. CASE Start
  <2>1. CASE StartElapsed
    <3>1. age * Unit \in Nat
      BY <1>1, <1>2, Products
    <3>2. (age * Unit) \div Milli \in Nat
      BY <1>2, <3>1
    <3> QED
      BY <1>1, <2>1, <3>2 DEF StartElapsed, TypeOK
  <2>2. CASE StartSleep
    <3>1. nap' \in Nat
      <4>1. CASE TimerMillis(prev) > elapsed
        <5>1. TimerMillis(prev) - elapsed \in Nat /\ Milli \div Unit \in Nat
          BY <1>1, <1>2, <4>1
        <5>2. (TimerMillis(prev) - elapsed) * (Milli \div Unit) \in Nat
          BY <5>1, Products
        <5> QED
          BY <2>2, <4>1, <5>2 DEF StartSleep
      <4>2. CASE ~(TimerMillis(prev) > elapsed)
        BY <2>2, <4>2 DEF StartSleep
      <4> QED
        BY <4>1, <4>2
    <3> QED
      BY <1>1, <2>2, <3>1 DEF StartSleep, TypeOK
  <2>3. CASE StartWake
    BY <1>1, <2>3 DEF StartWake, TypeOK
  <2>4. CASE StartSend
    BY <1>1, <2>4 DEF StartSend, TypeOK
  <2> QED
    BY <1>9, <2>1, <2>2, <2>3, <2>4 DEF Start
<1>10. CASE UNCHANGED vars
  BY <1>1, <1>10 DEF TypeOK
<1> QED
  BY <1>3, <1>4, <1>5, <1>6, <1>7, <1>8, <1>9, <1>10 DEF Next

\* Every variable has its type, and with it every significand its ten bits.
THEOREM ExposureTypeCorrect == Spec => []TypeOK
<1>1. Init => TypeOK
  BY InitTypes
<1>2. TypeOK /\ [Next]_vars => TypeOK'
  BY StepTypes
<1> QED
  BY <1>1, <1>2, PTL DEF Spec
-----------------------------------------------------------------------------
(* The measurement. *)

\* Where the device has the value of the measurement recorded or of the call under way;
\* a value that the device has was converted from some exposure.
MeasurementInv ==
  /\ settled /\ apc # "record" => timer = Timer(measurement)
  /\ apc = "record" => timer = Timer(config)
  /\ \E x \in TimerStates : timer = Timer(x)

LEMMA InitMeasurement == Init => MeasurementInv
BY ExposuresAssumption DEF Init, MeasurementInv, TimerStates

LEMMA StepMeasurement == TypeOK /\ MeasurementInv /\ [Next]_vars => MeasurementInv'
<1> SUFFICES ASSUME TypeOK, MeasurementInv, [Next]_vars PROVE MeasurementInv'
  OBVIOUS
<1> USE DEF vars, deviceVars, setVars, startVars
<1>1. config \in TimerStates
  BY TypeParts
<1>2. PICK x \in TimerStates : timer = Timer(x)
  BY DEF MeasurementInv
\* What does not touch the measurement.
<1>3. ASSUME timer' = timer, UNCHANGED setVars PROVE MeasurementInv'
  BY <1>3 DEF MeasurementInv
<1>4. CASE Tick
  BY <1>3, <1>4 DEF Tick
<1>5. CASE Set
  <2>1. PICK y \in Exposures \cup {Answer(timer)} : SetBegin(y)
    BY <1>5 DEF Set
  <2>2. /\ timer' = timer /\ measurement' = measurement /\ settled' = settled
        /\ apc = "idle" /\ apc' = "query"
    BY <2>1 DEF SetBegin
  <2> QED
    BY <1>2, <2>2 DEF MeasurementInv
<1>6. CASE SetQuery
  <2>1. /\ timer' = timer /\ measurement' = measurement /\ settled' = settled
        /\ apc = "query" /\ apc' = "set"
    BY <1>6 DEF SetQuery
  <2> QED
    BY <1>2, <2>1 DEF MeasurementInv
<1>7. CASE SetTimer
  <2>1. timer' = Timer(config) /\ config' = config /\ apc' = "record"
    BY <1>7 DEF SetTimer
  <2> QED
    BY <1>1, <2>1 DEF MeasurementInv
<1>8. CASE SetRecord
  <2>1. timer' = timer /\ measurement' = config /\ apc = "record" /\ apc' = "idle"
    BY <1>8 DEF SetRecord
  <2> QED
    BY <1>2, <2>1 DEF MeasurementInv
<1>9. CASE SetFails
  <2>1. /\ timer' = timer /\ measurement' = measurement /\ apc' = "idle"
        /\ settled' => settled /\ apc # "record"
    BY <1>9 DEF SetFails
  <2> QED
    BY <1>2, <2>1 DEF MeasurementInv
<1>10. CASE Start
  BY <1>3, <1>10 DEF Start, StartElapsed, StartSleep, StartWake, StartSend
<1>11. CASE UNCHANGED vars
  BY <1>3, <1>11
<1> QED
  BY <1>4, <1>5, <1>6, <1>7, <1>8, <1>9, <1>10, <1>11 DEF Next

LEMMA MeasurementAlways == Spec => [](TypeOK /\ MeasurementInv)
<1>1. Init => TypeOK /\ MeasurementInv
  BY InitTypes, InitMeasurement
<1>2. TypeOK /\ MeasurementInv /\ [Next]_vars => (TypeOK /\ MeasurementInv)'
  BY StepTypes, StepMeasurement
<1> QED
  BY <1>1, <1>2, PTL DEF Spec

\* Unless the last call of setMeasurement failed after the device had taken its value, the
\* device's timer is the recorded measurement, encoded: after any number of calls, each of
\* which may fail at any of its exchanges.
THEOREM MeasurementRecorded == Spec => []TimerIsMeasurement
<1>1. TypeOK /\ MeasurementInv => TimerIsMeasurement
  <2> SUFFICES ASSUME TypeOK, MeasurementInv, apc = "idle", settled
               PROVE  /\ timer.isDouble = measurement.isDouble
                      /\ measurement.isDouble =>
                           /\ Encodes(timer.d1, measurement.t2) /\ timer.r1 = measurement.r2
                           /\ Encodes(timer.d2, measurement.t1) /\ timer.r2 = measurement.r1
                      /\ ~measurement.isDouble /\ measurement.t1 < Word
                           => Encodes(timer.d1, measurement.t1)
    BY DEF TimerIsMeasurement
  <2>1. timer = Timer(measurement)
    BY DEF MeasurementInv
  <2>2. measurement \in TimerStates
    BY TypeParts
  <2>3. measurement.t1 \in Nat /\ measurement.t2 \in Nat /\ measurement.isDouble \in BOOLEAN
    BY <2>2 DEF TimerStates
  <2>4. \A t \in Nat : Encodes(convertExposure(t), t)
    BY ConversionIsClosest
  <2>5. CASE measurement.isDouble
    BY <2>1, <2>3, <2>4, <2>5 DEF Timer
  <2>6. CASE ~measurement.isDouble
    <3>1. measurement.t1 < Word => measurement.t1 % Word = measurement.t1
      BY <2>3, UnitsAssumption
    <3> QED
      BY <2>1, <2>3, <2>4, <2>6, <3>1 DEF Timer
  <2> QED
    BY <2>5, <2>6
<1> QED
  BY <1>1, MeasurementAlways, PTL

\* To set a single exposure that was read from the device leaves the length of its
\* accumulations as it is, for every exposure and size of the significand: no product is
\* cut off by the word on the way back, and what is encoded again has the same length.
THEOREM RereadStable == Spec => RereadIsStable
<1>1. TypeOK /\ MeasurementInv
        => (SetTimer /\ config = Answer(timer) /\ ~config.isDouble
              => ~timer'.isDouble /\ Length(timer') = Length(timer))
  <2> SUFFICES ASSUME TypeOK, MeasurementInv, SetTimer, config = Answer(timer),
                      ~config.isDouble
               PROVE  ~timer'.isDouble /\ Length(timer') = Length(timer)
    OBVIOUS
  <2>1. PICK x \in TimerStates : timer = Timer(x)
    BY DEF MeasurementInv
  <2>2. Unit \in Nat /\ Unit > 0 /\ Word \in Nat /\ Word > 0 /\ SigLimit \in Nat
    BY UnitsAssumption
  <2>3. ~timer.isDouble /\ config = Single(convertExposureBack(timer.d1))
    BY DEF Answer, Double
  <2> DEFINE t == x.t1 % Word
             d == convertExposure(t)
             n == Units(d)
  <2>4. t \in Nat /\ t < Word
    <3>1. x.t1 \in Nat
      BY DEF TimerStates
    <3> QED
      BY <2>2, <3>1
  <2>5. timer.d1 = d
    BY <2>1, <2>3 DEF Timer
  <2> HIDE DEF t
  <2>6. d \in Digits /\ n * Unit <= t
    BY <2>4, ConversionIsClosest DEF Encodes
  <2> HIDE DEF d
  <2>7. d.s \in 0 .. SigLimit - 1 /\ d.s \in Nat /\ d.e \in Nat
    BY <2>2, <2>6 DEF Digits
  <2>8. n = d.s * Power10[d.e] /\ n \in Nat /\ Units(Reduced[n]) = n
    BY <2>7, ReducedAgain DEF Units
  <2>9. (d.s * Unit) * Power10[d.e] = n * Unit
    <3>1. Power10[d.e] \in Nat
      BY <2>7, Powers
    <3>2. (d.s * Power10[d.e]) * Unit = d.s * (Power10[d.e] * Unit)
      BY <2>2, <2>7, <3>1, Products
    <3>3. (d.s * Unit) * Power10[d.e] = d.s * (Unit * Power10[d.e])
      BY <2>2, <2>7, <3>1, Products
    <3>4. Unit * Power10[d.e] = Power10[d.e] * Unit
      BY <2>2, <3>1
    <3> QED
      BY <2>8, <3>2, <3>3, <3>4
  <2>10. d.s * Unit \in Nat /\ n * Unit \in Nat /\ n * Unit < Word
    BY <2>2, <2>4, <2>6, <2>7, <2>8, Products
  <2>11. convertExposureBack(d) = n * Unit
    BY <2>7, <2>9, <2>10, RaisedFits DEF convertExposureBack
  <2>12. config.t1 % Word = n * Unit
    BY <2>2, <2>3, <2>5, <2>10, <2>11 DEF Single
  <2>13. (n * Unit) \div Unit = n
    BY <2>2, <2>8
  <2>14. convertExposure(config.t1 % Word) = Reduced[n]
    BY <2>12, <2>13 DEF convertExposure
  <2>15. timer' = Timer(config)
    BY DEF SetTimer
  <2>16. ~timer'.isDouble /\ timer'.d1 = Reduced[n]
    BY <2>14, <2>15 DEF Timer
  <2> QED
    BY <2>3, <2>5, <2>8, <2>16 DEF Length
<1> QED
  BY <1>1, MeasurementAlways, PTL DEF RereadIsStable
-----------------------------------------------------------------------------
(* The wait for the device's switch. *)

\* The parts of a double exposure fit in a word (uint32_t).
Narrow(x) == x.isDouble => x.t1 < Word /\ x.t2 < Word

\* A timer value whose exposures fit in a word when they are read back.
Fit(v) == Units(v.d1) * Unit < Word /\ (v.isDouble => Units(v.d2) * Unit < Word)

\* A change that has not taken effect, the only one since the last switch, and that no
\* reading waited for when it was made.
Pending == running # timer /\ ~rushed

\* While the timer is being set, prevTimerState is what the device has.
Queried == prev = Answer(timer) /\ age <= lag /\ (running # timer => rushed)

\* While a change is pending, prevTimerState is what the device runs, as old as the
\* accumulation under way but for the time it took to set the timer; and what the reading
\* has slept and has yet to sleep makes up for the rest.
Awaiting ==
  /\ apc # "set"
  /\ prev = Answer(running)
  /\ left + age <= Length(running) + lag
  /\ rpc = "elapsed" => elapsed * Milli <= age * Unit
  /\ rpc = "asleep" => TimerMillis(prev) * Milli <= (age + nap) * Unit
  /\ rpc = "send" => TimerMillis(prev) * Milli <= age * Unit

WaitInv ==
  /\ Fit(timer) /\ Fit(running) /\ Narrow(config)
  /\ age <= MaxAge /\ left <= Length(running)
  /\ apc = "set" => Queried
  /\ Pending => Awaiting

\* The bound on the age is beyond every wait: the milliseconds of an exposure are those of
\* one or two words.
LongAges == 2 * Word <= MaxAge * Unit

\* Division by the units.
LEMMA WholeParts ==
  /\ \A n \in Nat : /\ n \div Milli \in Nat
                   /\ (n \div Milli) * Milli <= n
                   /\ n < (n \div Milli) * Milli + Milli
  /\ Milli \div Unit \in Nat /\ (Milli \div Unit) * Unit = Milli
<1>1. Milli \in Nat /\ Milli > 0 /\ Unit \in Nat /\ Unit > 0
  BY UnitsAssumption
<1>2. ASSUME NEW n \in Nat
      PROVE  /\ n \div Milli \in Nat
             /\ (n \div Milli) * Milli <= n
             /\ n < (n \div Milli) * Milli + Milli
  BY <1>1
<1>3. Milli \div Unit \in Nat
  BY <1>1
<1>4. (Milli \div Unit) * Unit = Milli
  BY <1>1, MilliAssumption
<1> QED
  BY <1>2, <1>3, <1>4

\* A significand that fits in the word with its exponent is read back without loss.
LEMMA BackExact ==
  ASSUME NEW d \in Digits, Units(d) * Unit < Word
  PROVE  convertExposureBack(d) = Units(d) * Unit /\ Units(d) \in Nat
<1>1. Unit \in Nat /\ SigLimit \in Nat
  BY UnitsAssumption
<1>2. d.s \in Nat /\ d.e \in Nat
  BY <1>1 DEF Digits
<1> DEFINE p == Power10[d.e]
<1>3. p \in Nat
  BY <1>2, Powers
<1> HIDE DEF p
<1>4. (d.s * Unit) * p = (d.s * p) * Unit /\ d.s * Unit \in Nat /\ d.s * p \in Nat
  <2>1. (d.s * Unit) * p = d.s * (Unit * p) /\ (d.s * p) * Unit = d.s * (p * Unit)
    BY <1>1, <1>2, <1>3, Products
  <2>2. Unit * p = p * Unit
    BY <1>1, <1>3
  <2>3. d.s * Unit \in Nat /\ d.s * p \in Nat
    BY <1>1, <1>2, <1>3, Products
  <2> QED
    BY <2>1, <2>2, <2>3
<1>5. Units(d) = d.s * p
  BY DEF Units, p
<1>6. (d.s * Unit) * Power10[d.e] < Word
  BY <1>4, <1>5 DEF p
<1>7. Raised(d.s * Unit)[d.e] = (d.s * Unit) * Power10[d.e]
  BY <1>2, <1>4, <1>6, RaisedFits
<1> QED
  BY <1>4, <1>5, <1>7 DEF convertExposureBack, p

\* A narrow exposure is converted to a timer value that fits, and read back as a narrow one.
LEMMA NarrowFits ==
  /\ \A x \in TimerStates : Narrow(x) => Fit(Timer(x))
  /\ \A v \in TimerValues : Fit(v) => Narrow(Answer(v))
<1>1. Unit \in Nat /\ Word \in Nat /\ Word > 0
  BY UnitsAssumption
<1>2. ASSUME NEW t \in Nat, t < Word
      PROVE  Units(convertExposure(t)) * Unit < Word
  <2>1. Units(convertExposure(t)) * Unit <= t /\ convertExposure(t) \in Digits
    BY ConversionIsClosest DEF Encodes
  <2>2. Units(convertExposure(t)) \in Nat
    <3>1. convertExposure(t).s \in Nat /\ convertExposure(t).e \in Nat
      BY <2>1, UnitsAssumption DEF Digits
    <3> QED
      BY <3>1, Powers, Products DEF Units
  <2>3. Units(convertExposure(t)) * Unit \in Nat
    BY <1>1, <2>2, Products
  <2> QED
    BY <1>1, <1>2, <2>1, <2>3
<1>3. ASSUME NEW x \in TimerStates, Narrow(x) PROVE Fit(Timer(x))
  <2>1. x.t1 \in Nat /\ x.t2 \in Nat
    BY DEF TimerStates
  <2>2. CASE x.isDouble
    BY <1>2, <1>3, <2>1, <2>2 DEF Narrow, Timer, Fit
  <2>3. CASE ~x.isDouble
    <3>1. x.t1 % Word \in Nat /\ x.t1 % Word < Word
      BY <1>1, <2>1
    <3>2. Units(convertExposure(x.t1 % Word)) * Unit < Word
      BY <1>2, <3>1
    <3> QED
      BY <2>3, <3>2 DEF Timer, Fit
  <2> QED
    BY <2>2, <2>3
<1>4. ASSUME NEW v \in TimerValues, Fit(v) PROVE Narrow(Answer(v))
  <2>1. CASE v.isDouble
    <3>1. v.d1 \in Digits /\ v.d2 \in Digits
      BY DEF TimerValues
    <3>2. Units(v.d1) * Unit < Word /\ Units(v.d2) * Unit < Word
      BY <1>4, <2>1 DEF Fit
    <3>3. convertExposureBack(v.d1) < Word /\ convertExposureBack(v.d2) < Word
      BY <3>1, <3>2, BackExact
    <3> QED
      BY <2>1, <3>3 DEF Narrow, Answer, Double
  <2>2. CASE ~v.isDouble
    BY <2>2 DEF Narrow, Answer, Single
  <2> QED
    BY <2>1, <2>2
<1> QED
  BY <1>3, <1>4

\* What the milliseconds of an exposure leave out is less than one for each of its parts.
LEMMA WaitIsLong ==
  ASSUME NEW v \in TimerValues, Fit(v), ~Wraps(Answer(v))
  PROVE  Length(v) * Unit < TimerMillis(Answer(v)) * Milli + 2 * Milli
<1>1. Unit \in Nat /\ Milli \in Nat /\ Milli > 0 /\ Word \in Nat /\ Word > 0
  BY UnitsAssumption
<1>2. v.d1 \in Digits /\ v.d2 \in Digits /\ v.r1 \in Nat /\ v.r2 \in Nat
  BY DEF TimerValues
<1> DEFINE u1 == Units(v.d1)
           u2 == Units(v.d2)
<1>3. convertExposureBack(v.d1) = u1 * Unit /\ u1 \in Nat
  BY <1>2, BackExact DEF Fit
<1>4. CASE v.isDouble
  <2>1. convertExposureBack(v.d2) = u2 * Unit /\ u2 \in Nat
    BY <1>2, <1>4, BackExact DEF Fit
  <2> DEFINE a == (u1 * Unit) * v.r1
             b == (u2 * Unit) * v.r2
  <2>2. ~(a >= Word) /\ ~(b >= Word)
    BY <1>3, <1>4, <2>1 DEF Wraps, Answer, Double
  <2>3. Length(v) = u1 * v.r1 + u2 * v.r2
    BY <1>4 DEF Length
  <2>4. TimerMillis(Answer(v)) = (a % Word) \div Milli + (b % Word) \div Milli
    BY <1>3, <1>4, <2>1 DEF TimerMillis, Answer, Double
  <2> HIDE DEF u1, u2
  <2>5. ASSUME NEW u \in Nat, NEW r \in Nat
        PROVE  (u * r) * Unit = (u * Unit) * r /\ (u * Unit) * r \in Nat /\ u * r \in Nat
    <3>1. (u * r) * Unit = u * (r * Unit) /\ (u * Unit) * r = u * (Unit * r)
      BY <1>1, Products
    <3>2. r * Unit = Unit * r
      BY <1>1
    <3>3. u * Unit \in Nat /\ u * r \in Nat
      BY <1>1, Products
    <3> QED
      BY <3>1, <3>2, <3>3, Products
  <2>6. a \in Nat /\ b \in Nat /\ u1 * v.r1 \in Nat /\ u2 * v.r2 \in Nat
    BY <1>2, <1>3, <2>1, <2>5
  <2>7. Length(v) * Unit = a + b
    <3>1. \A m, n \in Nat : (m + n) * Unit = m * Unit + n * Unit
      BY <1>1
    <3>2. (u1 * v.r1) * Unit = a /\ (u2 * v.r2) * Unit = b
      BY <1>2, <1>3, <2>1, <2>5
    <3> HIDE DEF a, b
    <3> QED
      BY <2>3, <2>6, <3>1, <3>2
  <2> HIDE DEF a, b
  <2>8. a % Word = a /\ b % Word = b
    BY <1>1, <2>2, <2>6
  <2> DEFINE j == a \div Milli
             k == b \div Milli
  <2>9. /\ j \in Nat /\ a < j * Milli + Milli
        /\ k \in Nat /\ b < k * Milli + Milli
    BY <2>6, WholeParts
  <2>10. TimerMillis(Answer(v)) = j + k
    BY <2>4, <2>8
  <2> HIDE DEF j, k
  <2>11. (j + k) * Milli = j * Milli + k * Milli /\ j * Milli \in Nat /\ k * Milli \in Nat
    BY <1>1, <2>9
  <2> QED
    BY <1>1, <2>6, <2>7, <2>9, <2>10, <2>11
<1>5. CASE ~v.isDouble
  <2>1. TimerMillis(Answer(v)) = (u1 * Unit) \div Milli
    BY <1>3, <1>5 DEF TimerMillis, Answer, Single
  <2>2. Length(v) = u1
    BY <1>5 DEF Length
  <2> DEFINE n == u1 * Unit
             j == n \div Milli
  <2>3. n \in Nat
    BY <1>1, <1>3, Products
  <2> HIDE DEF n, u1
  <2>4. j \in Nat /\ n < j * Milli + Milli
    BY <2>3, WholeParts
  <2>5. Length(v) * Unit = n /\ TimerMillis(Answer(v)) = j
    BY <2>1, <2>2 DEF n
  <2> HIDE DEF j
  <2>6. j * Milli \in Nat
    BY <1>1, <2>4, Products
  <2> QED
    BY <1>1, <2>3, <2>4, <2>5, <2>6
<1> QED
  BY <1>4, <1>5

\* No wait is longer than two words.
LEMMA WaitIsShort ==
  ASSUME NEW v \in TimerValues, Fit(v)
  PROVE  TimerMillis(Answer(v)) * Milli <= 2 * Word
<1>1. Unit \in Nat /\ Milli \in Nat /\ Milli > 0 /\ Word \in Nat /\ Word > 0
  BY UnitsAssumption
<1>2. Answer(v) \in TimerStates
  BY ValueTypes
<1> DEFINE p == Answer(v)
<1>3. CASE v.isDouble
  <2>1. p.isDouble /\ p.t1 \in Nat /\ p.t2 \in Nat /\ p.r1 \in Nat /\ p.r2 \in Nat
    BY <1>2, <1>3 DEF Answer, Double, TimerStates
  <2> DEFINE a == (p.t1 * p.r1) % Word
             b == (p.t2 * p.r2) % Word
             j == a \div Milli
             k == b \div Milli
  <2>2. TimerMillis(p) = j + k
    BY <2>1 DEF TimerMillis
  <2>3. a \in Nat /\ a < Word /\ b \in Nat /\ b < Word
    <3>1. p.t1 * p.r1 \in Nat /\ p.t2 * p.r2 \in Nat
      BY <2>1, Products
    <3>2. \A n \in Nat : n % Word \in Nat /\ n % Word < Word
      BY <1>1
    <3> QED
      BY <3>1, <3>2
  <2> HIDE DEF a, b, p
  <2>4. j \in Nat /\ j * Milli <= a /\ k \in Nat /\ k * Milli <= b
    BY <2>3, WholeParts
  <2> HIDE DEF j, k
  <2>5. (j + k) * Milli = j * Milli + k * Milli /\ j * Milli \in Nat /\ k * Milli \in Nat
    BY <1>1, <2>4
  <2>6. (j + k) * Milli <= 2 * Word
    BY <1>1, <2>3, <2>4, <2>5
  <2> QED
    BY <2>2, <2>6 DEF p
<1>4. CASE ~v.isDouble
  <2>1. v.d1 \in Digits /\ Units(v.d1) * Unit < Word
    BY DEF TimerValues, Fit
  <2> DEFINE n == Units(v.d1) * Unit
             j == n \div Milli
  <2>2. convertExposureBack(v.d1) = n /\ Units(v.d1) \in Nat
    BY <2>1, BackExact
  <2>3. TimerMillis(p) = j
    BY <1>4, <2>2 DEF TimerMillis, Answer, Single
  <2>4. n \in Nat /\ n < Word
    BY <1>1, <2>1, <2>2, Products
  <2> HIDE DEF n
  <2>5. j \in Nat /\ j * Milli <= n
    BY <2>4, WholeParts
  <2> HIDE DEF j
  <2>6. j * Milli \in Nat
    BY <1>1, <2>5, Products
  <2> QED
    BY <1>1, <2>3, <2>4, <2>5, <2>6
<1> QED
  BY <1>3, <1>4

LEMMA InitWait == Init => WaitInv
<1> SUFFICES ASSUME Init PROVE WaitInv
  OBVIOUS
<1>1. PICK x \in Exposures : timer = Timer(x)
  BY DEF Init
<1>2. x \in TimerStates /\ Narrow(x)
  BY ExposuresAssumption, DoublesAssumption DEF TimerStates, Narrow
<1>3. Fit(timer) /\ Fit(running)
  BY <1>1, <1>2, NarrowFits DEF Init
<1>4. Length(running) \in Nat /\ left = Length(running)
  <2>1. timer \in TimerValues
    BY <1>1, <1>2, ValueTypes
  <2> QED
    BY <2>1, ValueTypes DEF Init
<1>5. Narrow(config)
  BY DEF Init, Narrow, Single
<1>6. age <= MaxAge
  BY UnitsAssumption DEF Init
<1> QED
  BY <1>3, <1>4, <1>5, <1>6 DEF Init, WaitInv, Pending

\* A unit of time.
LEMMA TickWaits ==
  ASSUME TypeOK, WaitInv, LongAges, Tick
  PROVE  WaitInv'
<1> USE DEF vars, deviceVars, setVars, startVars
<1>1. /\ running \in TimerValues /\ timer \in TimerValues /\ prev \in TimerStates
      /\ left \in Nat /\ age \in Nat /\ elapsed \in Nat /\ nap \in Nat /\ lag \in Nat
  BY TypeParts
<1>2. /\ Unit \in Nat /\ Milli \in Nat /\ Word \in Nat /\ MaxAge \in Nat
      /\ Length(timer) \in Nat /\ Length(running) \in Nat
  BY <1>1, UnitsAssumption, ValueTypes
<1>3. /\ timer' = timer /\ prev' = prev /\ config' = config /\ apc' = apc
      /\ rpc' = rpc /\ elapsed' = elapsed
  BY DEF Tick
<1>4. age' \in Nat /\ age' <= MaxAge /\ age <= age' /\ age' <= age + 1
      /\ (age' = age + 1 \/ age' = MaxAge)
  BY <1>1, <1>2 DEF Tick, AtMost, WaitInv
<1>5. Fit(timer') /\ Narrow(config')
  BY <1>3 DEF WaitInv
<1>6. CASE left > 1
  <2>1. running' = running /\ rushed' = rushed /\ left' = left - 1
    BY <1>6 DEF Tick
  <2>2. Fit(running') /\ left' <= Length(running')
    BY <1>1, <1>2, <2>1 DEF WaitInv
  <2>3. apc' = "set" => Queried'
    <3> SUFFICES ASSUME apc' = "set" PROVE Queried'
      OBVIOUS
    <3>1. Queried /\ lag' = lag + 1
      BY <1>3 DEF WaitInv, Tick
    <3>2. age' <= lag'
      BY <1>1, <1>4, <3>1 DEF Queried
    <3> QED
      BY <1>3, <2>1, <3>1, <3>2 DEF Queried
  <2>4. Pending' => Awaiting'
    <3> SUFFICES ASSUME Pending' PROVE Awaiting'
      OBVIOUS
    <3>1. Awaiting
      BY <1>3, <2>1 DEF Pending, WaitInv
    <3>2. lag' = lag
      BY <3>1 DEF Awaiting, Tick
    <3>3. left' + age' <= Length(running') + lag'
      BY <1>1, <1>2, <1>4, <2>1, <3>1, <3>2 DEF Awaiting
    <3>4. \A x, y \in Nat : x <= y => x * Unit <= y * Unit /\ x * Unit \in Nat /\ y * Unit \in Nat
      BY <1>2, Products
    <3> DEFINE w == TimerMillis(prev) * Milli
    <3>5. w \in Nat /\ elapsed * Milli \in Nat
      BY <1>1, <1>2, ValueTypes, Products
    <3>6. w <= MaxAge * Unit
      <4>1. w <= 2 * Word
        BY <1>1, <3>1, WaitIsShort DEF Awaiting, WaitInv
      <4>2. MaxAge * Unit \in Nat
        BY <1>2, Products
      <4> HIDE DEF w
      <4> QED
        BY <1>2, <3>5, <4>1, <4>2 DEF LongAges
    <3>7. rpc' = "elapsed" => elapsed' * Milli <= age' * Unit
      <4> SUFFICES ASSUME rpc' = "elapsed" PROVE elapsed' * Milli <= age' * Unit
        OBVIOUS
      <4>1. elapsed * Milli <= age * Unit
        BY <1>3, <3>1 DEF Awaiting
      <4>2. age * Unit <= age' * Unit /\ age * Unit \in Nat /\ age' * Unit \in Nat
        BY <1>1, <1>4, <3>4
      <4> QED
        BY <1>3, <3>5, <4>1, <4>2
    <3>8. rpc' = "asleep" => TimerMillis(prev') * Milli <= (age' + nap') * Unit
      <4> SUFFICES ASSUME rpc' = "asleep" PROVE w <= (age' + nap') * Unit
        BY <1>3
      <4>1. w <= (age + nap) * Unit
        BY <1>3, <3>1 DEF Awaiting
      <4>2. nap' \in Nat /\ nap <= nap' + 1
        BY <1>1 DEF Tick
      <4> HIDE DEF w
      <4>3. ASSUME age' = age + 1 PROVE w <= (age' + nap') * Unit
        <5>1. age + nap \in Nat /\ age' + nap' \in Nat /\ age + nap <= age' + nap'
          <6>1. \A a, n, m \in Nat : n <= m + 1 => a + n <= (a + 1) + m
            OBVIOUS
          <6>2. \A a, n \in Nat : a + n \in Nat
            OBVIOUS
          <6>3. age + nap <= (age + 1) + nap'
            BY <1>1, <4>2, <6>1
          <6> QED
            BY <1>1, <1>4, <4>2, <4>3, <6>2, <6>3
        <5>2. (age + nap) * Unit <= (age' + nap') * Unit
              /\ (age + nap) * Unit \in Nat /\ (age' + nap') * Unit \in Nat
          BY <3>4, <5>1
        <5> QED
          BY <3>5, <4>1, <5>2
      <4>4. ASSUME age' = MaxAge PROVE w <= (age' + nap') * Unit
        <5>1. age' + nap' \in Nat /\ MaxAge <= age' + nap'
          <6>1. \A a, n \in Nat : a + n \in Nat /\ a <= a + n
            OBVIOUS
          <6> QED
            BY <1>2, <4>2, <4>4, <6>1
        <5>2. MaxAge * Unit <= (age' + nap') * Unit
              /\ MaxAge * Unit \in Nat /\ (age' + nap') * Unit \in Nat
          BY <1>2, <3>4, <5>1
        <5> QED
          BY <3>5, <3>6, <5>2
      <4> QED
        BY <1>4, <4>3, <4>4
    <3>9. rpc' = "send" => TimerMillis(prev') * Milli <= age' * Unit
      <4> SUFFICES ASSUME rpc' = "send" PROVE w <= age' * Unit
        BY <1>3
      <4>1. w <= age * Unit
        BY <1>3, <3>1 DEF Awaiting
      <4>2. age * Unit <= age' * Unit /\ age * Unit \in Nat /\ age' * Unit \in Nat
        BY <1>1, <1>4, <3>4
      <4> HIDE DEF w
      <4> QED
        BY <3>5, <4>1, <4>2
    <3>10. apc' # "set" /\ prev' = Answer(running')
      BY <1>3, <2>1, <3>1 DEF Awaiting
    <3> QED
      BY <3>3, <3>7, <3>8, <3>9, <3>10 DEF Awaiting
  <2> QED
    BY <1>4, <1>5, <2>2, <2>3, <2>4 DEF WaitInv
<1>7. CASE ~(left > 1)
  <2>1. running' = timer /\ rushed' = FALSE /\ left' = Length(timer)
    BY <1>7 DEF Tick
  <2>2. ~Pending'
    BY <1>3, <2>1 DEF Pending
  <2>3. Fit(running') /\ left' <= Length(running')
    BY <1>2, <2>1 DEF WaitInv
  <2>4. apc' = "set" => Queried'
    <3> SUFFICES ASSUME apc' = "set" PROVE Queried'
      OBVIOUS
    <3>1. Queried /\ lag' = lag + 1
      BY <1>3 DEF WaitInv, Tick
    <3>2. age' <= lag'
      BY <1>1, <1>4, <3>1 DEF Queried
    <3> QED
      BY <1>3, <2>1, <3>1, <3>2 DEF Queried
  <2> QED
    BY <1>4, <1>5, <2>2, <2>3, <2>4 DEF WaitInv
<1> QED
  BY <1>6, <1>7

\* What leaves the device, the reading and their times as they are.
LEMMA WaitsStay ==
  ASSUME WaitInv, UNCHANGED <<timer, running, left, prev, age, lag, rushed>>,
         UNCHANGED <<rpc, elapsed, nap>>, Narrow(config'), apc' # "set"
  PROVE  WaitInv'
<1>1. /\ timer' = timer /\ running' = running /\ left' = left /\ prev' = prev /\ age' = age
      /\ lag' = lag /\ rushed' = rushed /\ rpc' = rpc /\ elapsed' = elapsed /\ nap' = nap
  OBVIOUS
<1>2. Pending' => Awaiting'
  BY <1>1 DEF Pending, Awaiting, WaitInv
<1> QED
  BY <1>1, <1>2 DEF WaitInv

\* setMeasurement.
LEMMA SetWaits ==
  ASSUME TypeOK, WaitInv, Set \/ SetQuery \/ SetTimer \/ SetRecord \/ SetFails
  PROVE  WaitInv'
<1> USE DEF vars, deviceVars, setVars, startVars
<1>1. /\ running \in TimerValues /\ timer \in TimerValues /\ prev \in TimerStates
      /\ config \in TimerStates /\ left \in Nat /\ age \in Nat /\ lag \in Nat
  BY TypeParts
<1>2. MaxAge \in Nat
  BY UnitsAssumption
<1>3. Narrow(Single(0))
  BY DEF Narrow, Single
<1>4. CASE Set
  <2>1. PICK x \in Exposures \cup {Answer(timer)} : SetBegin(x)
    BY <1>4 DEF Set
  <2>2. Narrow(x)
    BY <1>1, DoublesAssumption, NarrowFits DEF Narrow, WaitInv
  <2> QED
    BY <2>1, <2>2, WaitsStay DEF SetBegin
<1>5. CASE SetQuery
  <2>1. /\ timer' = timer /\ running' = running /\ left' = left /\ config' = config
        /\ prev' = Answer(timer) /\ age' = 0 /\ lag' = 0 /\ apc' = "set"
    BY <1>5 DEF SetQuery
  <2>2. running # timer => rushed'
    BY <1>5, Zenon DEF SetQuery, Rushing
  <2>3. Queried' /\ ~Pending'
    BY <2>1, <2>2 DEF Queried, Pending
  <2> QED
    BY <1>2, <2>1, <2>3 DEF WaitInv
<1>6. CASE SetTimer
  <2>1. /\ timer' = Timer(config) /\ running' = running /\ left' = left /\ config' = config
        /\ prev' = prev /\ age' = age /\ lag' = lag /\ apc = "set" /\ apc' = "record"
        /\ rpc' = rpc
    BY <1>6 DEF SetTimer
  <2>2. ~rushed' => running = timer /\ rpc = "idle"
    BY <1>6, Zenon DEF SetTimer, Rushing
  <2>3. Queried
    BY <2>1 DEF WaitInv
  <2>4. Pending' => Awaiting'
    <3> SUFFICES ASSUME Pending' PROVE Awaiting'
      OBVIOUS
    <3>1. running = timer /\ rpc = "idle"
      BY <2>2 DEF Pending
    <3>2. prev' = Answer(running')
      BY <2>1, <2>3, <3>1 DEF Queried
    <3>3. left' + age' <= Length(running') + lag'
      <4>1. left <= Length(running) /\ age <= lag /\ Length(running) \in Nat
        BY <1>1, <2>3, ValueTypes DEF Queried, WaitInv
      <4> QED
        BY <1>1, <2>1, <4>1
    <3> QED
      BY <2>1, <3>1, <3>2, <3>3 DEF Awaiting
  <2>5. Fit(timer')
    BY <1>1, <2>1, NarrowFits DEF WaitInv
  <2> QED
    BY <2>1, <2>4, <2>5 DEF WaitInv
<1>7. CASE SetRecord
  BY <1>3, <1>7, WaitsStay DEF SetRecord
<1>8. CASE SetFails
  BY <1>3, <1>8, WaitsStay DEF SetFails
<1> QED
  BY <1>4, <1>5, <1>6, <1>7, <1>8

\* The wait of a reading.
LEMMA StartWaits ==
  ASSUME TypeOK, WaitInv, Start
  PROVE  WaitInv'
<1> USE DEF vars, deviceVars, setVars, startVars
<1>1. /\ prev \in TimerStates /\ age \in Nat /\ elapsed \in Nat /\ nap \in Nat
  BY TypeParts
<1>2. Unit \in Nat /\ Milli \in Nat /\ TimerMillis(prev) \in Nat
  BY <1>1, UnitsAssumption, ValueTypes
<1>3. /\ timer' = timer /\ running' = running /\ left' = left /\ prev' = prev /\ age' = age
      /\ lag' = lag /\ rushed' = rushed /\ config' = config /\ apc' = apc
  BY DEF Start, StartElapsed, StartSleep, StartWake, StartSend
\* What the reading has to show.
<1>4. ASSUME Pending => /\ rpc' = "elapsed" => elapsed' * Milli <= age * Unit
                        /\ rpc' = "asleep" => TimerMillis(prev) * Milli <= (age + nap') * Unit
                        /\ rpc' = "send" => TimerMillis(prev) * Milli <= age * Unit
      PROVE  WaitInv'
  <2>1. Pending' => Awaiting'
    <3> SUFFICES ASSUME Pending' PROVE Awaiting'
      OBVIOUS
    <3>1. Pending /\ Awaiting
      BY <1>3 DEF Pending, WaitInv
    <3> QED
      BY <1>3, <1>4, <3>1 DEF Awaiting
  <2>2. Queried => Queried'
    BY <1>3 DEF Queried
  <2> QED
    BY <1>3, <2>1, <2>2 DEF WaitInv
<1>5. CASE StartElapsed
  <2>1. rpc' = "elapsed" /\ elapsed' = (age * Unit) \div Milli
    BY <1>5 DEF StartElapsed
  <2>2. age * Unit \in Nat
    BY <1>1, <1>2, Products
  <2>3. elapsed' * Milli <= age * Unit
    BY <2>1, <2>2, WholeParts
  <2> QED
    BY <1>4, <2>1, <2>3
<1>6. CASE StartSleep
  <2>1. rpc = "elapsed" /\ rpc' = "asleep"
    BY <1>6 DEF StartSleep
  <2> DEFINE t == TimerMillis(prev)
             k == Milli \div Unit
  <2>2. nap' = IF t > elapsed THEN (t - elapsed) * k ELSE 0
    BY <1>6 DEF StartSleep
  <2>3. t \in Nat /\ k \in Nat /\ k * Unit = Milli
    BY <1>2, WholeParts
  <2>4. ASSUME Pending PROVE t * Milli <= (age + nap') * Unit
    <3>1. elapsed * Milli <= age * Unit
      BY <2>1, <2>4 DEF Awaiting, WaitInv
    <3> HIDE DEF t, k
    <3>2. elapsed * Milli \in Nat /\ age * Unit \in Nat /\ t * Milli \in Nat
      BY <1>1, <1>2, <2>3, Products
    <3>3. ASSUME t > elapsed PROVE t * Milli <= (age + nap') * Unit
      <4> DEFINE n == t - elapsed
      <4>1. n \in Nat /\ t = n + elapsed
        BY <1>1, <2>3, <3>3
      <4>2. nap' = n * k
        BY <2>2, <3>3
      <4> HIDE DEF n
      <4>3. n * k \in Nat /\ (n * k) * Unit = n * Milli
        BY <1>2, <2>3, <4>1, Products
      <4>4. (age + n * k) * Unit = age * Unit + (n * k) * Unit
        BY <1>1, <1>2, <4>3
      <4>5. (n + elapsed) * Milli = n * Milli + elapsed * Milli /\ n * Milli \in Nat
        BY <1>1, <1>2, <4>1
      <4> QED
        BY <3>1, <3>2, <4>1, <4>2, <4>3, <4>4, <4>5
    <3>4. ASSUME ~(t > elapsed) PROVE t * Milli <= (age + nap') * Unit
      <4>1. t <= elapsed /\ nap' = 0
        BY <1>1, <2>2, <2>3, <3>4
      <4>2. t * Milli <= elapsed * Milli
        BY <1>1, <1>2, <2>3, <4>1, Products
      <4>3. age + nap' = age
        BY <1>1, <4>1
      <4> QED
        BY <3>1, <3>2, <4>2, <4>3
    <3> QED
      BY <3>3, <3>4
  <2> QED
    BY <1>4, <2>1, <2>4
<1>7. CASE StartWake
  <2>1. rpc = "asleep" /\ nap = 0 /\ rpc' = "send"
    BY <1>7 DEF StartWake
  <2>2. age + nap = age
    BY <1>1, <2>1
  <2>3. Pending => TimerMillis(prev) * Milli <= age * Unit
    BY <2>1, <2>2 DEF Awaiting, WaitInv
  <2> QED
    BY <1>4, <2>1, <2>3
<1>8. CASE StartSend
  <2>1. rpc' = "idle"
    BY <1>8 DEF StartSend
  <2> QED
    BY <1>4, <2>1
<1> QED
  BY <1>5, <1>6, <1>7, <1>8 DEF Start

LEMMA StepWaits == TypeOK /\ WaitInv /\ LongAges /\ [Next]_vars => WaitInv'
<1> SUFFICES ASSUME TypeOK, WaitInv, LongAges, [Next]_vars PROVE WaitInv'
  OBVIOUS
<1>1. CASE UNCHANGED vars
  <2>1. /\ timer' = timer /\ running' = running /\ left' = left /\ prev' = prev /\ age' = age
        /\ lag' = lag /\ rushed' = rushed /\ config' = config /\ apc' = apc
        /\ rpc' = rpc /\ elapsed' = elapsed /\ nap' = nap
    BY <1>1 DEF vars, deviceVars, setVars, startVars
  <2>2. (Pending' => Awaiting') /\ (Queried => Queried')
    BY <2>1 DEF Pending, Awaiting, Queried, WaitInv
  <2> QED
    BY <2>1, <2>2 DEF WaitInv
<1> QED
  BY <1>1, TickWaits, SetWaits, StartWaits DEF Next

\* When a reading is started the device runs the exposure that was set, or switches to it
\* within what rounding and the exchanges of setMeasurement can make, for every exposure,
\* number of changes, and time that passes between any two steps; unless a change was
\* made too early or a product wrapped.
THEOREM SwitchAwaited == LongAges /\ Spec => []WaitsForSwitch
<1>1. Init => TypeOK /\ WaitInv
  BY InitTypes, InitWait
<1>2. LongAges /\ TypeOK /\ WaitInv /\ [Next]_vars => (TypeOK /\ WaitInv)'
  BY StepTypes, StepWaits
<1>3. TypeOK /\ WaitInv => WaitsForSwitch
  <2> SUFFICES ASSUME TypeOK, WaitInv, rpc = "send", ~rushed, ~Wraps(prev), running # timer
               PROVE  left * Unit < lag * Unit + 2 * Milli
    BY DEF WaitsForSwitch
  <2>1. /\ running \in TimerValues /\ left \in Nat /\ age \in Nat /\ lag \in Nat
        /\ Unit \in Nat /\ Milli \in Nat
    BY TypeParts, UnitsAssumption
  <2>2. Awaiting
    BY DEF WaitInv, Pending
  <2> DEFINE l == Length(running)
             w == TimerMillis(prev) * Milli
  <2>3. prev = Answer(running) /\ left + age <= l + lag /\ w <= age * Unit
    BY <2>2 DEF Awaiting
  <2>4. l * Unit < w + 2 * Milli
    BY <2>1, <2>3, WaitIsLong DEF WaitInv
  <2>5. l \in Nat /\ w \in Nat
    <3>1. prev \in TimerStates
      BY TypeParts
    <3> QED
      BY <2>1, <3>1, ValueTypes, Products
  <2> HIDE DEF l, w
  <2>6. (left + age) * Unit <= (l + lag) * Unit
    <3>1. left + age \in Nat /\ l + lag \in Nat
      BY <2>1, <2>5
    <3> QED
      BY <2>1, <2>3, <3>1, Products
  <2>7. /\ (left + age) * Unit = left * Unit + age * Unit
        /\ (l + lag) * Unit = l * Unit + lag * Unit
    BY <2>1, <2>5
  <2>8. /\ left * Unit \in Nat /\ age * Unit \in Nat /\ l * Unit \in Nat /\ lag * Unit \in Nat
        /\ 2 * Milli \in Nat
    BY <2>1, <2>5, Products
  <2> QED
    BY <2>3, <2>4, <2>5, <2>6, <2>7, <2>8
<1>4. ASSUME LongAges PROVE Spec => []WaitsForSwitch
  <2>1. TypeOK /\ WaitInv /\ [Next]_vars => (TypeOK /\ WaitInv)'
    BY <1>2, <1>4
  <2> QED
    BY <1>1, <1>3, <2>1, PTL DEF Spec
<1> QED
  BY <1>4

==============================================================================
