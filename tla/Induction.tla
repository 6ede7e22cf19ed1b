------------------------------ MODULE Induction ------------------------------
(***************************************************************************)
(* Induction over the natural numbers, in the form of sets, and what        *)
(* follows from it for functions that are defined by recursion: such a      *)
(* function exists, and has at every argument what each step keeps.         *)
(***************************************************************************)
EXTENDS Integers, WellFoundedInduction, TLAPS

Below == {ss \in Nat \X Nat : ss[1] < ss[2]}

\* Every set of natural numbers that is not empty has a least element.
LEMMA LeastNatural ==
  ASSUME NEW T \in SUBSET Nat, T # {}
  PROVE  \E x \in T : \A y \in T : x <= y
<1>1. OpToRel(<, Nat) = Below
  BY DEF OpToRel, Below
<1>2. IsWellFoundedOn(Below, Nat)
  BY NatLessThanWellFounded, <1>1
<1>3. PICK x \in T : \A y \in T : ~ (<<y, x>> \in Below)
  BY <1>2, WFMin
<1>4. \A y \in T : ~ (y < x)
  BY <1>3 DEF Below
<1>5. QED
  BY <1>4

\* Every set of natural numbers up to N that is not empty has a greatest element.
LEMMA Greatest ==
  ASSUME NEW N \in Nat, NEW T \in SUBSET (0..N), T # {}
  PROVE  \E x \in T : \A y \in T : y <= x
<1> DEFINE U == {N - x : x \in T}
<1>1. U \in SUBSET Nat /\ U # {}
  <2>1. \A x \in T : N - x \in Nat
    OBVIOUS
  <2>2. QED
    BY <2>1
<1>2. PICK u \in U : \A y \in U : u <= y
  BY <1>1, LeastNatural
<1>3. PICK x \in T : u = N - x
  BY <1>2
<1>4. ASSUME NEW y \in T PROVE y <= x
  <2>1. N - x <= N - y
    BY <1>2, <1>3
  <2>2. x \in Int /\ y \in Int
    OBVIOUS
  <2>3. QED
    BY <2>1, <2>2
<1>5. QED
  BY <1>4

\* Induction.
LEMMA Induct ==
  ASSUME NEW S, 0 \in S, \A n \in Nat : n \in S => n + 1 \in S
  PROVE  Nat \subseteq S
<1> SUFFICES ASSUME Nat \ S # {} PROVE FALSE
  OBVIOUS
<1>1. PICK x \in Nat \ S : \A y \in Nat \ S : x <= y
  BY LeastNatural
<1>2. x # 0 /\ x - 1 \in Nat
  BY <1>1
<1>3. x - 1 \in S
  BY <1>1, <1>2
<1>4. QED
  BY <1>1, <1>2, <1>3

\* What holds at 0, and at n if it does at n - 1, holds up to N: A[n] is the set of the
\* values that g may have at n.
LEMMA Along ==
  ASSUME NEW N \in Nat, NEW A, NEW g, g[0] \in A[0],
         \A n \in 1..N : g[n - 1] \in A[n - 1] => g[n] \in A[n]
  PROVE  \A n \in 0..N : g[n] \in A[n]
<1> DEFINE S == {n \in Nat : n <= N => g[n] \in A[n]}
<1>1. 0 \in S
  OBVIOUS
<1>2. ASSUME NEW n \in Nat, n \in S PROVE n + 1 \in S
  <2>1. CASE n + 1 <= N
    <3>1. n + 1 \in 1..N /\ (n + 1) - 1 = n /\ g[n] \in A[n]
      BY <1>2, <2>1
    <3>2. g[n + 1] \in A[n + 1]
      BY <3>1
    <3>3. QED
      BY <3>2
  <2>2. CASE ~(n + 1 <= N)
    BY <2>2
  <2>3. QED
    BY <2>1, <2>2
<1> HIDE DEF S
<1>3. Nat \subseteq S
  BY <1>1, <1>2, Induct
<1>4. QED
  BY <1>3 DEF S

\* The function of 0..N that starts with base, and makes one step from n - 1 to n.
Iterates(N, base, step, f) ==
  f = [n \in 0..N |-> IF n = 0 THEN base ELSE step[n][f[n - 1]]]

\* A function defined by recursion on 0..N exists: step[n] takes the value at n - 1, one
\* of A[n - 1], to the one at n.
LEMMA Recursion ==
  ASSUME NEW N \in Nat, NEW A, NEW base, base \in A[0], NEW step,
         \A n \in 1..N : \A x \in A[n - 1] : step[n][x] \in A[n]
  PROVE  \E f : Iterates(N, base, step, f) /\ \A n \in 0..N : f[n] \in A[n]
<1> USE DEF Iterates
<1> DEFINE Fits(f, k) == Iterates(k, base, step, f)
           S == {k \in Nat : \E f : Fits(f, k)}
<1>1. 0 \in S
  <2>1. Fits([n \in 0..0 |-> base], 0)
    OBVIOUS
  <2>2. QED
    BY <2>1
<1>2. ASSUME NEW k \in Nat, k \in S PROVE k + 1 \in S
  <2>1. PICK f : Fits(f, k)
    BY <1>2
  <2> DEFINE g == [j \in 0..(k + 1) |-> IF j \in 0..k THEN f[j] ELSE step[k + 1][f[k]]]
  <2>2. \A j \in 0..k : g[j] = f[j]
    OBVIOUS
  <2>3. g[k + 1] = step[k + 1][f[k]] /\ g[k] = f[k] /\ (k + 1) - 1 = k
    OBVIOUS
  <2>4. ASSUME NEW j \in 0..(k + 1)
        PROVE  g[j] = IF j = 0 THEN base ELSE step[j][g[j - 1]]
    <3>1. CASE j = k + 1
      BY <2>3, <3>1
    <3>2. CASE j \in 0..k
      <4>1. g[j] = f[j] /\ (j # 0 => g[j - 1] = f[j - 1])
        BY <2>2, <3>2
      <4>2. f[j] = IF j = 0 THEN base ELSE step[j][f[j - 1]]
        BY <2>1, <3>2
      <4>3. QED
        BY <4>1, <4>2
    <3>3. QED
      BY <3>1, <3>2
  <2>5. Fits(g, k + 1)
    BY <2>4
  <2> HIDE DEF g, Fits
  <2>6. QED
    BY <2>5
<1> HIDE DEF S
<1>3. N \in S
  BY <1>1, <1>2, Induct
<1>4. PICK f : Fits(f, N)
  BY <1>3 DEF S
<1>5. f[0] = base /\ \A n \in 1..N : f[n] = step[n][f[n - 1]]
  BY <1>4
<1>6. \A n \in 1..N : f[n - 1] \in A[n - 1] => f[n] \in A[n]
  BY <1>5
<1>7. \A n \in 0..N : f[n] \in A[n]
  BY <1>5, <1>6, Along
<1>8. QED
  BY <1>4, <1>7

\* The same, where every step is from S to S.
LEMMA Stepwise ==
  ASSUME NEW N \in Nat, NEW S, NEW base \in S, NEW step \in [1..N -> [S -> S]]
  PROVE  \E f : Iterates(N, base, step, f) /\ \A n \in 0..N : f[n] \in S
<1> DEFINE A == [n \in 0..N |-> S]
<1>1. \A n \in 1..N : n \in 0..N /\ n - 1 \in 0..N
  OBVIOUS
<1>2. 0 \in 0..N /\ \A n \in 0..N : A[n] = S
  OBVIOUS
<1>3. base \in A[0] /\ \A n \in 1..N : \A x \in A[n - 1] : step[n][x] \in A[n]
  BY <1>1, <1>2
<1> HIDE DEF A
<1>4. PICK f : Iterates(N, base, step, f) /\ \A n \in 0..N : f[n] \in A[n]
  BY <1>3, Recursion
<1>5. QED
  BY <1>2, <1>4

\* What holds at 0 and is kept by each step holds up to N.
LEMMA InductUpto ==
  ASSUME NEW N \in Nat, NEW P, 0 \in P, \A n \in 1..N : n - 1 \in P => n \in P
  PROVE  \A n \in 0..N : n \in P
<1> DEFINE A == [n \in 0..N |-> {x \in {0} : n \in P}]
           g == [n \in 0..N |-> 0]
<1>1. \A n \in 0..N : g[n] \in A[n] <=> n \in P
  OBVIOUS
<1>2. 0 \in 0..N /\ \A n \in 1..N : n \in 0..N /\ n - 1 \in 0..N
  OBVIOUS
<1> HIDE DEF A, g
<1>3. g[0] \in A[0] /\ \A n \in 1..N : g[n - 1] \in A[n - 1] => g[n] \in A[n]
  BY <1>1, <1>2
<1>4. \A n \in 0..N : g[n] \in A[n]
  BY <1>3, Along
<1>5. QED
  BY <1>1, <1>4
=============================================================================
