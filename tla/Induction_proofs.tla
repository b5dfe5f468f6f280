-------------------------- MODULE Induction_proofs --------------------------
(***************************************************************************)
(* Induction over natural numbers, and what follows from it for Sifted.    *)
(*                                                                         *)
(* The induction theorems of the library take a formula as a parameter,    *)
(* which no prover at hand can instantiate.  Their set form does not: the  *)
(* least element of a set of natural numbers, from WFMin.                  *)
(***************************************************************************)
EXTENDS Selection, WellFoundedInduction, TLAPS

\* A set of natural numbers has a least one, as "<" is well-founded.
LEMMA LeastNatural ==
    ASSUME NEW T \in SUBSET Nat, T # {} PROVE \E x \in T : \A y \in T : x <= y
<1> DEFINE R == {ss \in Nat \X Nat : ss[1] < ss[2]}
<1>1. OpToRel(<, Nat) = R
  BY Zenon DEF OpToRel
<1>2. IsWellFoundedOn(R, Nat)
  BY <1>1, NatLessThanWellFounded
<1> HIDE DEF R
<1>3. PICK x \in T : \A y \in T : ~ (<<y, x>> \in R)
  BY <1>2, WFMin
<1>4. \A y \in T : ~(y < x)
  BY <1>3 DEF R
<1> QED
  BY <1>4

\* Induction from 0 to n, with the set of the numbers that have a property in the place of it.
LEMMA InductionUpTo ==
    ASSUME NEW n \in Nat, NEW S, 0 \in S, \A i \in 1 .. n : i - 1 \in S => i \in S
    PROVE  \A i \in 0 .. n : i \in S
<1> SUFFICES ASSUME NEW m \in 0 .. n, m \notin S PROVE FALSE
  OBVIOUS
<1>1. PICK T : T = {i \in 0 .. n : i \notin S}
  OBVIOUS
<1>2. T \in SUBSET Nat /\ m \in T
  BY <1>1
<1>3. PICK x \in T : \A y \in T : x <= y
  BY <1>2, LeastNatural
<1>4. x \in 1 .. n /\ x - 1 \notin T /\ x - 1 \in 0 .. n
  BY <1>1, <1>2, <1>3
<1> QED
  BY <1>1, <1>4

\* step[i] takes elements of T to elements of T; h begins with a and goes on as step says.
IsStep(step, n, T) == step \in [1 .. n -> [T -> T]]
IsIteration(h, step, n, T, a) ==
    h \in [0 .. n -> T] /\ h[0] = a /\ \A i \in 1 .. n : h[i] = step[i][h[i - 1]]

\* The recursion that begins with a and goes on with step defines a function.
LEMMA RecursionExists ==
    ASSUME NEW T, NEW n \in Nat, NEW a \in T, NEW step, IsStep(step, n, T)
    PROVE  \E h : IsIteration(h, step, n, T, a)
<1> USE DEF IsStep, IsIteration
<1> DEFINE Upto(k) == \E h \in [0 .. k -> T] : h[0] = a /\ \A i \in 1 .. k : h[i] = step[i][h[i - 1]]
<1>1. PICK S : S = {k \in 0 .. n : Upto(k)}
  OBVIOUS
<1>2. 0 \in S
  <2>1. PICK h : h = [i \in 0 .. 0 |-> a]
    OBVIOUS
  <2>2. h \in [0 .. 0 -> T] /\ h[0] = a /\ \A i : i \notin 1 .. 0
    BY <2>1
  <2> QED
    BY <1>1, <2>2
<1>3. ASSUME NEW k \in 1 .. n, k - 1 \in S PROVE k \in S
  <2>1. PICK h \in [0 .. k - 1 -> T] : h[0] = a /\ \A i \in 1 .. k - 1 : h[i] = step[i][h[i - 1]]
    BY <1>1, <1>3
  <2>2. step[k][h[k - 1]] \in T
    OBVIOUS
  <2>3. PICK g : g = [i \in 0 .. k |-> IF i = k THEN step[k][h[k - 1]] ELSE h[i]]
    OBVIOUS
  <2>4. g \in [0 .. k -> T] /\ g[0] = a
    BY <2>1, <2>2, <2>3
  <2>5. ASSUME NEW i \in 1 .. k PROVE g[i] = step[i][g[i - 1]]
    BY <2>1, <2>3
  <2>6. Upto(k)
    BY <2>4, <2>5
  <2> QED
    BY <1>1, <2>6
<1>4. n \in S
  <2> HIDE DEF Upto
  <2>1. \A k \in 1 .. n : k - 1 \in S => k \in S
    BY <1>3
  <2>2. \A k \in 0 .. n : k \in S
    BY <1>2, <2>1, InductionUpTo
  <2> QED
    BY <2>2
<1> QED
  BY <1>1, <1>4

\* A recursive function that goes on as step says, as long as it is in T, is the iteration of step.
LEMMA IterationIsTyped ==
    ASSUME NEW T, NEW n \in Nat, NEW a \in T, NEW step, IsStep(step, n, T),
           NEW f, DOMAIN f = 0 .. n, f = [i \in 0 .. n |-> f[i]], f[0] = a,
           \A i \in 1 .. n : f[i - 1] \in T => f[i] = step[i][f[i - 1]]
    PROVE  IsIteration(f, step, n, T, a)
<1>1. PICK S : S = {i \in 0 .. n : f[i] \in T}
  OBVIOUS
<1>2. \A i \in 0 .. n : i \in S
  <2>1. 0 \in S
    BY <1>1
  <2>2. ASSUME NEW i \in 1 .. n, i - 1 \in S PROVE i \in S
    <3>1. f[i - 1] \in T
      BY <1>1, <2>2
    <3>2. f[i] = step[i][f[i - 1]]
      BY <3>1
    <3>3. step[i][f[i - 1]] \in T
      BY <3>1 DEF IsStep
    <3>4. i \in 0 .. n
      OBVIOUS
    <3> QED
      BY <1>1, <3>2, <3>3, <3>4
  <2> QED
    BY <2>1, <2>2, InductionUpTo
<1>3. f \in [0 .. n -> T]
  BY <1>1, <1>2
<1>4. \A i \in 1 .. n : f[i] = step[i][f[i - 1]]
  <2> SUFFICES ASSUME NEW i \in 1 .. n PROVE f[i] = step[i][f[i - 1]]
    OBVIOUS
  <2>1. i - 1 \in 0 .. n
    OBVIOUS
  <2> QED
    BY <1>3, <2>1
<1> QED
  BY <1>3, <1>4 DEF IsIteration

\* f[i] is what is sifted out of the first i elements.
AreSteps(f, s, A, X) ==
    /\ f \in [0 .. Len(s) -> Seq(X)]
    /\ f[0] = <<>> /\ f[Len(s)] = Sifted(s, A)
    /\ \A i \in 1 .. Len(s) : f[i] = IF s[i] \in A THEN Append(f[i - 1], s[i]) ELSE f[i - 1]

\* The recursive function in the definition of Sifted exists, which CHOOSE alone does not say.
LEMMA SiftedSteps ==
    ASSUME NEW X, NEW s \in Seq(X), NEW A
    PROVE  \E f : AreSteps(f, s, A, X)
<1> DEFINE Def(f) == [i \in 0 .. Len(s) |-> IF i = 0 THEN <<>> ELSE
                         IF s[i] \in A THEN Append(f[i - 1], s[i]) ELSE f[i - 1]]
<1>1. PICK T : T = Seq(X)
  OBVIOUS
<1>2. PICK step : step = [i \in 1 .. Len(s) |-> [q \in T |-> IF s[i] \in A THEN Append(q, s[i]) ELSE q]]
  OBVIOUS
<1>3. step \in [1 .. Len(s) -> [T -> T]] /\ Len(s) \in Nat /\ <<>> \in T
  BY <1>1, <1>2
<1>4. PICK h \in [0 .. Len(s) -> T] :
         h[0] = <<>> /\ \A i \in 1 .. Len(s) : h[i] = step[i][h[i - 1]]
  <2>1. IsStep(step, Len(s), T)
    BY <1>3 DEF IsStep
  <2>2. \E h : IsIteration(h, step, Len(s), T, <<>>)
    BY <1>3, <2>1, RecursionExists, Zenon
  <2> QED
    BY <2>2 DEF IsIteration
<1>5. \A i \in 1 .. Len(s) : h[i] = IF s[i] \in A THEN Append(h[i - 1], s[i]) ELSE h[i - 1]
  <2> SUFFICES ASSUME NEW i \in 1 .. Len(s)
               PROVE  h[i] = IF s[i] \in A THEN Append(h[i - 1], s[i]) ELSE h[i - 1]
    OBVIOUS
  <2>1. h[i - 1] \in T
    BY <1>3
  <2>2. step[i] = [q \in T |-> IF s[i] \in A THEN Append(q, s[i]) ELSE q]
    BY <1>2
  <2>3. step[i][h[i - 1]] = IF s[i] \in A THEN Append(h[i - 1], s[i]) ELSE h[i - 1]
    BY <2>1, <2>2
  <2> QED
    BY <1>4, <2>3
<1>6. h = Def(h)
  <2>1. ASSUME NEW i \in 0 .. Len(s) PROVE h[i] = Def(h)[i]
    <3>1. CASE i = 0
      BY <1>4, <3>1
    <3>2. CASE i # 0
      <4>1. i \in 1 .. Len(s)
        BY <1>3, <3>2
      <4> QED
        BY <1>5, <3>2, <4>1
    <3> QED
      BY <3>1, <3>2
  <2> QED
    BY <2>1, <1>4
<1>7. PICK f : f = (CHOOSE g : g = Def(g)) /\ f = Def(f)
  BY <1>6
<1>8. Sifted(s, A) = f[Len(s)]
  BY <1>7 DEF Sifted
<1>9. /\ f[0] = <<>>
      /\ \A i \in 1 .. Len(s) : f[i] = IF s[i] \in A THEN Append(f[i - 1], s[i]) ELSE f[i - 1]
  <2>1. \A i \in 0 .. Len(s) : f[i] = Def(f)[i]
    BY <1>7
  <2> QED
    BY <2>1, <1>3
<1>10. DOMAIN f = 0 .. Len(s)
  BY <1>7
<1>11. PICK S : S = {i \in 0 .. Len(s) : f[i] \in T}
  OBVIOUS
<1>12. \A i \in 0 .. Len(s) : i \in S
  <2>1. 0 \in S
    BY <1>3, <1>9, <1>11
  <2>2. ASSUME NEW i \in 1 .. Len(s), i - 1 \in S PROVE i \in S
    <3>1. f[i - 1] \in T /\ s[i] \in X
      BY <2>2, <1>11
    <3>2. f[i] \in T
      <4>1. Append(f[i - 1], s[i]) \in T
        BY <1>1, <3>1
      <4>2. f[i] = IF s[i] \in A THEN Append(f[i - 1], s[i]) ELSE f[i - 1]
        BY <1>9
      <4> QED
        BY <3>1, <4>1, <4>2
    <3> QED
      BY <1>11, <3>2
  <2> QED
    BY <1>3, <2>1, <2>2, InductionUpTo
<1>13. f \in [0 .. Len(s) -> T]
  <2>1. f = [i \in 0 .. Len(s) |-> f[i]]
    BY <1>7
  <2> QED
    BY <1>10, <1>11, <1>12, <2>1
<1> QED
  BY <1>1, <1>8, <1>9, <1>13 DEF AreSteps

\* at[k] is the place in s, up to i, of the k-th element of q.
ArePlaces(at, q, s, A, i) ==
    /\ at \in [1 .. Len(q) -> 1 .. i]
    /\ \A k \in 1 .. Len(q) : q[k] = s[at[k]] /\ q[k] \in A
    /\ \A k, l \in 1 .. Len(q) : k < l => at[k] < at[l]
    /\ \A j \in 1 .. i : s[j] \in A => \E k \in 1 .. Len(q) : at[k] = j

\* The elements sifted out stand in s at rising places, those of all elements of A.
LEMMA SiftedPlaces ==
    ASSUME NEW X, NEW s \in Seq(X), NEW A
    PROVE  Sifted(s, A) \in Seq(X) /\ \E at : ArePlaces(at, Sifted(s, A), s, A, Len(s))
<1>1. PICK f \in [0 .. Len(s) -> Seq(X)] :
         /\ f[0] = <<>> /\ f[Len(s)] = Sifted(s, A)
         /\ \A i \in 1 .. Len(s) : f[i] = IF s[i] \in A THEN Append(f[i - 1], s[i]) ELSE f[i - 1]
  <2>1. PICK f : AreSteps(f, s, A, X)
    BY SiftedSteps, Zenon
  <2> QED
    BY <2>1 DEF AreSteps
<1>2. PICK S : S = {i \in 0 .. Len(s) : \E at : ArePlaces(at, f[i], s, A, i)}
  OBVIOUS
<1>3. Len(s) \in Nat
  OBVIOUS
<1>4. 0 \in S
  <2>1. PICK at : at = [k \in 1 .. 0 |-> 0]
    OBVIOUS
  <2>2. Len(f[0]) = 0 /\ \A k : k \notin 1 .. 0
    BY <1>1
  <2>3. ArePlaces(at, f[0], s, A, 0)
    BY <2>1, <2>2 DEF ArePlaces
  <2> QED
    BY <1>2, <1>3, <2>3
<1>5. ASSUME NEW i \in 1 .. Len(s), i - 1 \in S PROVE i \in S
  <2>1. PICK at : ArePlaces(at, f[i - 1], s, A, i - 1)
    BY <1>2, <1>5
  <2>2. PICK q \in Seq(X) : q = f[i - 1]
    BY <1>1, <1>3
  <2>3. i \in Nat /\ i - 1 \in 0 .. Len(s) /\ Len(q) \in Nat /\ s[i] \in X
    BY <1>3
  <2>4. CASE s[i] \notin A
    <3>1. f[i] = q
      BY <1>1, <2>2, <2>4
    <3>2. ArePlaces(at, q, s, A, i)
      <4>1. at \in [1 .. Len(q) -> 1 .. i]
        BY <2>1, <2>2, <2>3 DEF ArePlaces
      <4>2. \A j \in 1 .. i : s[j] \in A => \E k \in 1 .. Len(q) : at[k] = j
        <5>1. \A j \in 1 .. i : s[j] \in A => j \in 1 .. i - 1
          BY <2>3, <2>4
        <5> QED
          BY <2>1, <2>2, <5>1 DEF ArePlaces
      <4> QED
        BY <2>1, <2>2, <4>1, <4>2 DEF ArePlaces
    <3> QED
      BY <1>2, <3>1, <3>2
  <2>5. CASE s[i] \in A
    <3>1. PICK n : n = Len(q) + 1
      OBVIOUS
    <3>2. PICK p \in Seq(X) : p = Append(q, s[i])
      BY <2>3
    <3>3. /\ f[i] = p /\ Len(p) = n /\ p[n] = s[i] /\ n \in Nat
          /\ \A k \in 1 .. Len(q) : p[k] = q[k]
      <4>1. f[i] = p
        BY <1>1, <2>2, <2>5, <3>2
      <4>2. Len(p) = n /\ n \in Nat
        BY <2>3, <3>1, <3>2
      <4>3. p[n] = s[i]
        BY <2>3, <3>1, <3>2
      <4>4. \A k \in 1 .. Len(q) : p[k] = q[k]
        BY <2>3, <3>2
      <4> QED
        BY <4>1, <4>2, <4>3, <4>4
    <3>4. PICK bt : bt = [k \in 1 .. n |-> IF k = n THEN i ELSE at[k]]
      OBVIOUS
    <3>5. \A k \in 1 .. n : k = n \/ k \in 1 .. Len(q)
      BY <2>3, <3>1
    <3>6. \A k \in 1 .. Len(q) : k \in 1 .. n /\ k < n /\ bt[k] = at[k] /\ at[k] \in 1 .. i - 1
      <4> SUFFICES ASSUME NEW k \in 1 .. Len(q)
                   PROVE  k \in 1 .. n /\ k < n /\ bt[k] = at[k] /\ at[k] \in 1 .. i - 1
        OBVIOUS
      <4>1. k \in 1 .. n /\ k < n
        BY <2>3, <3>1
      <4>2. bt[k] = at[k]
        BY <2>3, <3>4, <4>1
      <4>3. at \in [1 .. Len(q) -> 1 .. i - 1]
        BY <2>1, <2>2 DEF ArePlaces
      <4> QED
        BY <4>1, <4>2, <4>3
    <3>7. n \in 1 .. n /\ bt[n] = i
      BY <2>3, <3>1, <3>4
    <3>8. bt \in [1 .. n -> 1 .. i]
      <4>1. ASSUME NEW k \in 1 .. n PROVE bt[k] \in 1 .. i
        <5>1. CASE k = n
          BY <2>3, <3>7, <5>1
        <5>2. CASE k # n
          BY <2>3, <3>5, <3>6, <5>2
        <5> QED
          BY <5>1, <5>2
      <4> QED
        BY <3>4, <4>1
    <3>9. \A k \in 1 .. n : p[k] = s[bt[k]] /\ p[k] \in A
      BY <2>1, <2>2, <2>5, <3>3, <3>5, <3>6, <3>7, ZenonT(40) DEF ArePlaces
    <3>10. \A k, l \in 1 .. n : k < l => bt[k] < bt[l]
      <4> SUFFICES ASSUME NEW k \in 1 .. n, NEW l \in 1 .. n, k < l PROVE bt[k] < bt[l]
        OBVIOUS
      <4>1. k \in 1 .. Len(q)
        BY <2>3, <3>1
      <4>2. CASE l = n
        BY <2>3, <3>6, <3>7, <4>1, <4>2
      <4>3. CASE l # n
        BY <2>1, <2>2, <3>5, <3>6, <4>1, <4>3 DEF ArePlaces
      <4> QED
        BY <4>2, <4>3
    <3>11. ASSUME NEW j \in 1 .. i, s[j] \in A PROVE \E k \in 1 .. n : bt[k] = j
      <4>1. CASE j = i
        BY <3>7, <4>1
      <4>2. CASE j # i
        <5>1. j \in 1 .. i - 1
          BY <2>3, <4>2
        <5>2. PICK k \in 1 .. Len(q) : at[k] = j
          BY <2>1, <2>2, <3>11, <5>1 DEF ArePlaces
        <5> QED
          BY <3>6, <5>2
      <4> QED
        BY <4>1, <4>2
    <3>12. ArePlaces(bt, p, s, A, i)
      BY <3>3, <3>8, <3>9, <3>10, <3>11 DEF ArePlaces
    <3> QED
      BY <1>2, <3>3, <3>12
  <2> QED
    BY <2>4, <2>5
<1>6. Len(s) \in S
  <2>1. \A i \in 1 .. Len(s) : i - 1 \in S => i \in S
    BY <1>5
  <2>2. \A i \in 0 .. Len(s) : i \in S
    BY <1>3, <1>4, <2>1, InductionUpTo
  <2> QED
    BY <1>3, <2>2
<1> QED
  BY <1>1, <1>2, <1>3, <1>6

NoneTwice(s) == \A i, j \in 1 .. Len(s) : s[i] = s[j] => i = j

\* What is sifted out of s is in s and in A, each element of both is, none is twice that is
\* not twice in s, and there are no more than in s.
LEMMA SiftedElements ==
    ASSUME NEW X, NEW s \in Seq(X), NEW A, NEW q, q = Sifted(s, A)
    PROVE  /\ q \in Seq(X) /\ Len(q) \in Nat /\ Len(q) <= Len(s)
           /\ \A k \in 1 .. Len(q) : q[k] \in A /\ \E i \in 1 .. Len(s) : q[k] = s[i]
           /\ \A i \in 1 .. Len(s) : s[i] \in A => \E k \in 1 .. Len(q) : q[k] = s[i]
           /\ NoneTwice(s) => NoneTwice(q)
<1>1. PICK at : ArePlaces(at, q, s, A, Len(s))
  BY SiftedPlaces
<1>2. q \in Seq(X) /\ Len(q) \in Nat /\ Len(s) \in Nat
  BY SiftedPlaces
<1>3. /\ at \in [1 .. Len(q) -> 1 .. Len(s)]
      /\ \A k \in 1 .. Len(q) : q[k] = s[at[k]] /\ q[k] \in A
      /\ \A k, l \in 1 .. Len(q) : k < l => at[k] < at[l]
      /\ \A j \in 1 .. Len(s) : s[j] \in A => \E k \in 1 .. Len(q) : at[k] = j
  BY <1>1 DEF ArePlaces
<1>4. Len(q) <= Len(s)
  <2>1. PICK S : S = {k \in 0 .. Len(q) : k = 0 \/ k <= at[k]}
    OBVIOUS
  <2>2. 0 \in S
    BY <1>2, <2>1
  <2>3. ASSUME NEW k \in 1 .. Len(q), k - 1 \in S PROVE k \in S
    <3>1. at[k] \in Nat /\ at[k] >= 1 /\ k \in Nat
      BY <1>2, <1>3
    <3>2. CASE k = 1
      BY <2>1, <3>1, <3>2
    <3>3. CASE k # 1
      <4>1. k - 1 \in 1 .. Len(q) /\ k - 1 < k
        BY <1>2, <3>3
      <4>2. at[k - 1] < at[k] /\ at[k - 1] \in Nat
        BY <1>2, <1>3, <4>1, SMTT(30)
      <4>3. k - 1 <= at[k - 1]
        BY <2>1, <2>3, <4>1
      <4> QED
        BY <2>1, <3>1, <4>2, <4>3
    <3> QED
      BY <3>2, <3>3
  <2>4. \A k \in 0 .. Len(q) : k \in S
    BY <1>2, <2>2, <2>3, InductionUpTo
  <2>5. CASE Len(q) = 0
    BY <1>2, <2>5
  <2>6. CASE Len(q) # 0
    <3>1. Len(q) \in 1 .. Len(q) /\ Len(q) \in S
      BY <1>2, <2>4, <2>6
    <3>2. Len(q) <= at[Len(q)] /\ at[Len(q)] \in 1 .. Len(s)
      BY <1>3, <2>1, <2>6, <3>1
    <3> QED
      BY <1>2, <3>2
  <2> QED
    BY <2>5, <2>6
<1>5. ASSUME NoneTwice(s),
             NEW k \in 1 .. Len(q), NEW l \in 1 .. Len(q), q[k] = q[l]
      PROVE  k = l
  <2>1. at[k] \in 1 .. Len(s) /\ at[l] \in 1 .. Len(s) /\ s[at[k]] = s[at[l]]
    BY <1>3, <1>5
  <2>3. at[k] = at[l] /\ at[k] \in Nat
    BY <1>2, <1>5, <2>1 DEF NoneTwice
  <2>2. ~(k < l) /\ ~(l < k)
    BY <1>3, <2>3
  <2> QED
    BY <1>2, <2>2
<1>6. ASSUME NEW k \in 1 .. Len(q) PROVE q[k] \in A /\ \E i \in 1 .. Len(s) : q[k] = s[i]
  <2>1. at[k] \in 1 .. Len(s) /\ q[k] = s[at[k]] /\ q[k] \in A
    BY <1>3
  <2> QED
    BY <2>1
<1>7. ASSUME NEW i \in 1 .. Len(s), s[i] \in A PROVE \E k \in 1 .. Len(q) : q[k] = s[i]
  <2>1. PICK k \in 1 .. Len(q) : at[k] = i
    BY <1>3, <1>7
  <2> QED
    BY <1>3, <2>1
<1> QED
  BY <1>2, <1>4, <1>5, <1>6, <1>7 DEF NoneTwice

\* The sifting goes from left to right: what it makes of the beginning of a sequence depends on
\* that beginning only, and on which of its elements are in the set.
LEMMA SiftedFromLeft ==
    ASSUME NEW X, NEW s \in Seq(X), NEW t \in Seq(X), NEW A, NEW B, Len(s) <= Len(t),
           \A i \in 1 .. Len(s) : s[i] = t[i] /\ (s[i] \in A <=> s[i] \in B)
    PROVE  /\ Len(t) = Len(s) => Sifted(t, B) = Sifted(s, A)
           /\ Len(t) = Len(s) + 1 =>
                  Sifted(t, B) = IF t[Len(t)] \in B THEN Append(Sifted(s, A), t[Len(t)])
                                   ELSE Sifted(s, A)
<1>1. PICK f \in [0 .. Len(s) -> Seq(X)] :
         /\ f[0] = <<>> /\ f[Len(s)] = Sifted(s, A)
         /\ \A i \in 1 .. Len(s) : f[i] = IF s[i] \in A THEN Append(f[i - 1], s[i]) ELSE f[i - 1]
  <2>1. PICK f : AreSteps(f, s, A, X)
    BY SiftedSteps, Zenon
  <2> QED
    BY <2>1 DEF AreSteps
<1>2. PICK g \in [0 .. Len(t) -> Seq(X)] :
         /\ g[0] = <<>> /\ g[Len(t)] = Sifted(t, B)
         /\ \A i \in 1 .. Len(t) : g[i] = IF t[i] \in B THEN Append(g[i - 1], t[i]) ELSE g[i - 1]
  <2>1. PICK g : AreSteps(g, t, B, X)
    BY SiftedSteps, Zenon
  <2> QED
    BY <2>1 DEF AreSteps
<1>3. Len(s) \in Nat /\ Len(t) \in Nat
  OBVIOUS
<1>4. PICK S : S = {i \in 0 .. Len(s) : f[i] = g[i]}
  OBVIOUS
<1>5. 0 \in S
  BY <1>1, <1>2, <1>3, <1>4
<1>6. ASSUME NEW i \in 1 .. Len(s), i - 1 \in S PROVE i \in S
  <2>1. i \in 1 .. Len(t) /\ f[i - 1] = g[i - 1]
    BY <1>3, <1>4, <1>6
  <2>2. f[i] = IF s[i] \in A THEN Append(f[i - 1], s[i]) ELSE f[i - 1]
    BY <1>1
  <2>3. g[i] = IF t[i] \in B THEN Append(g[i - 1], t[i]) ELSE g[i - 1]
    BY <1>2, <2>1
  <2>4. f[i] = g[i]
    BY <2>1, <2>2, <2>3
  <2> QED
    BY <1>4, <2>4
<1>7. \A i \in 0 .. Len(s) : i \in S
  BY <1>3, <1>5, <1>6, InductionUpTo
<1>8. g[Len(s)] = Sifted(s, A)
  BY <1>1, <1>3, <1>4, <1>7
<1>9. ASSUME Len(t) = Len(s) + 1
      PROVE  Sifted(t, B) = IF t[Len(t)] \in B THEN Append(Sifted(s, A), t[Len(t)])
                              ELSE Sifted(s, A)
  <2>1. Len(t) \in 1 .. Len(t) /\ Len(t) - 1 = Len(s)
    BY <1>3, <1>9
  <2>2. g[Len(t)] = IF t[Len(t)] \in B THEN Append(g[Len(t) - 1], t[Len(t)]) ELSE g[Len(t) - 1]
    BY <1>2, <2>1
  <2> QED
    BY <1>2, <1>8, <2>1, <2>2
<1> QED
  BY <1>2, <1>8, <1>9
=============================================================================
