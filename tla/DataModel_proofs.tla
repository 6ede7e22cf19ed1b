-------------------------- MODULE DataModel_proofs --------------------------
(***************************************************************************)
(* The theorems about DataModel.  The components share no variable: each   *)
(* has its invariant and its theorem about its own specification, and the  *)
(* last part shows that a behavior of DataModel is one of each of them.    *)
(***************************************************************************)
EXTENDS DataModel, Induction, FiniteSetTheorems, TLAPS

\* The powers of a natural number.
LEMMA PowerLaw ==
  ASSUME NEW b \in Nat, NEW n \in Nat
  PROVE  /\ Server!Power(b, 0) = 1 /\ Server!Power(b, n) \in Nat
         /\ Server!Power(b, n + 1) = b * Server!Power(b, n)
         /\ b # 0 => Server!Power(b, n) # 0
<1> DEFINE Step(k) == [k1 \in 1..k |-> [x \in Nat |-> b * x]]
           Pow(k) == CHOOSE f : f = [i \in 0..k |-> IF i = 0 THEN 1 ELSE b * f[i - 1]]
           A == [i \in Nat |-> {x \in Nat : b # 0 => x # 0}]
<1>1. ASSUME NEW k \in Nat
      PROVE  /\ Pow(k) = [i \in 0..k |-> IF i = 0 THEN 1 ELSE b * Pow(k)[i - 1]]
             /\ \A i \in 0..k : Pow(k)[i] \in A[i]
  <2>1. PICK f : Iterates(k, 1, Step(k), f) /\ \A i \in 0..k : f[i] \in A[i]
    <3>1. 1 \in A[0]
      OBVIOUS
    <3>2. \A i \in 1..k : \A x \in A[i - 1] : Step(k)[i][x] \in A[i]
      <4>1. ASSUME NEW x \in Nat, NEW i \in 1..k
            PROVE  Step(k)[i][x] = b * x /\ b * x \in Nat /\ (b # 0 /\ x # 0 => b * x # 0)
        OBVIOUS
      <4>2. \A i \in 1..k : i - 1 \in Nat /\ i \in Nat
        OBVIOUS
      <4> HIDE DEF Step
      <4>3. QED
        BY <4>1, <4>2
    <3> HIDE DEF A, Step
    <3>3. QED
      BY <3>1, <3>2, Recursion
  <2>2. f = [i \in 0..k |-> IF i = 0 THEN 1 ELSE b * f[i - 1]]
    <3>1. \A i \in 0..k : i # 0 => i - 1 \in 0..k /\ i - 1 \in Nat /\ i \in 1..k
      OBVIOUS
    <3>2. \A i \in 0..k : i # 0 => Step(k)[i][f[i - 1]] = b * f[i - 1]
      BY <2>1, <3>1
    <3>3. f = [i \in 0..k |-> IF i = 0 THEN 1 ELSE Step(k)[i][f[i - 1]]]
      BY <2>1 DEF Iterates
    <3> HIDE DEF Step
    <3>4. QED
      BY <3>2, <3>3
  <2> DEFINE Is(g) == g = [i \in 0..k |-> IF i = 0 THEN 1 ELSE b * g[i - 1]]
  <2>3. Is(Pow(k))
    <3>1. Is(f)
      BY <2>2
    <3>2. Pow(k) = CHOOSE g : Is(g)
      OBVIOUS
    <3> HIDE DEF Is, Pow
    <3>3. QED
      BY <3>1, <3>2
  <2>4. \A i \in 1..k : Pow(k)[i - 1] \in A[i - 1] => Pow(k)[i] \in A[i]
    <3>1. \A i \in 1..k : Pow(k)[i] = b * Pow(k)[i - 1]
      <4> HIDE DEF Pow
      <4>1. QED
        BY <2>3
    <3> HIDE DEF Pow
    <3>2. QED
      BY <3>1
  <2>5. Pow(k)[0] \in A[0]
    <3> HIDE DEF Pow
    <3>1. QED
      BY <2>3
  <2>6. \A i \in 0..k : Pow(k)[i] \in A[i]
    <3> HIDE DEF Pow, A
    <3>1. QED
      BY <2>4, <2>5, Along
  <2>7. QED
    BY <2>3, <2>6
<1>2. \A k \in Nat : Server!Power(b, k) = Pow(k)[k]
  BY DEF Server!Power
<1>3. Pow(n + 1)[n] = Pow(n)[n]
  <2> DEFINE B == [i \in Nat |-> {Pow(n + 1)[i]}]
  <2> HIDE DEF Pow
  <2>1. \A i \in 0..n : Pow(n)[i] \in B[i]
    <3>1. Pow(n)[0] \in B[0]
      BY <1>1
    <3>2. \A i \in 1..n : Pow(n)[i - 1] \in B[i - 1] => Pow(n)[i] \in B[i]
      <4>1. ASSUME NEW i \in 1..n
            PROVE  Pow(n)[i] = b * Pow(n)[i - 1] /\ Pow(n + 1)[i] = b * Pow(n + 1)[i - 1]
        <5>1. i \in 0..n /\ i \in 0..(n + 1) /\ i # 0 /\ n + 1 \in Nat
          OBVIOUS
        <5>2. QED
          BY <1>1, <5>1
      <4>2. QED
        BY <4>1
    <3> HIDE DEF B
    <3>3. QED
      BY <3>1, <3>2, Along
  <2>2. QED
    BY <2>1
<1> HIDE DEF Pow
<1>4. /\ Pow(0)[0] = 1
      /\ Pow(n)[n] \in A[n]
      /\ Pow(n + 1)[n + 1] = b * Pow(n + 1)[n]
  <2>1. 0 \in Nat /\ n + 1 \in Nat /\ n \in 0..n /\ 0 \in 0..0 /\ n + 1 \in 0..(n + 1)
        /\ n + 1 # 0 /\ (n + 1) - 1 = n
    OBVIOUS
  <2>2. Pow(0)[0] = 1
    BY <1>1, <2>1
  <2>3. Pow(n)[n] \in A[n]
    BY <1>1, <2>1
  <2>4. Pow(n + 1)[n + 1] = b * Pow(n + 1)[n]
    <3>1. Pow(n + 1) = [i \in 0..(n + 1) |-> IF i = 0 THEN 1 ELSE b * Pow(n + 1)[i - 1]]
      BY <1>1, <2>1
    <3>2. QED
      BY <2>1, <3>1
  <2>5. QED
    BY <2>2, <2>3, <2>4
<1>5. Server!Power(b, 0) = 1 /\ Server!Power(b, n) = Pow(n)[n] /\ Server!Power(b, n + 1) = Pow(n + 1)[n + 1]
  BY <1>2, <1>4
<1>6. QED
  BY <1>3, <1>4, <1>5


\* A quotient is the greatest number of times that the divisor fits.
LEMMA QuotientSays ==
  ASSUME NEW a \in Nat, NEW b \in Nat \ {0}
  PROVE  a \div b \in Nat /\ b * (a \div b) <= a /\ a < b * (a \div b) + b
OBVIOUS

LEMMA QuotientFits ==
  ASSUME NEW a \in Nat, NEW b \in Nat \ {0}, NEW n \in Nat, b * n <= a
  PROVE  n <= a \div b
<1> DEFINE u == a \div b
<1>1. u \in Nat /\ a < b * u + b
  BY QuotientSays
<1> HIDE DEF u
<1>2. SUFFICES ASSUME u + 1 <= n PROVE FALSE
  BY <1>1 DEF u
<1>3. b * (u + 1) <= b * n
  BY <1>1, <1>2
<1>4. b * (u + 1) = b * u + b
  BY <1>1
<1>5. b * n \in Nat /\ b * u \in Nat
  BY <1>1
<1>6. QED
  BY <1>1, <1>3, <1>4, <1>5

LEMMA TimesGrows ==
  ASSUME NEW x \in Nat, NEW y \in Nat, NEW c \in Nat, x <= y
  PROVE  c * x <= c * y /\ c * x \in Nat /\ c * y \in Nat
OBVIOUS

\* What is multiplied by p / q does not get smaller if p is not smaller than q, and does
\* not get greater if it is not greater.
LEMMA RatioGrows ==
  ASSUME NEW a \in Nat, NEW b \in Nat \ {0}, NEW p \in Nat, NEW q \in Nat \ {0}
  PROVE  /\ p * a \in Nat /\ q * b \in Nat \ {0}
         /\ q <= p => a \div b <= (p * a) \div (q * b)
         /\ p <= q => (p * a) \div (q * b) <= a \div b
<1>1. p * a \in Nat /\ q * b \in Nat \ {0}
  OBVIOUS
<1>2. ASSUME q <= p PROVE a \div b <= (p * a) \div (q * b)
  <2> DEFINE n == a \div b
  <2>1. n \in Nat /\ b * n <= a
    BY QuotientSays
  <2> HIDE DEF n
  <2>2. b * n \in Nat
    BY <2>1
  <2>3. q * (b * n) <= q * a
    BY <2>1, <2>2, TimesGrows
  <2>4. q * a <= p * a
    BY <1>2
  <2>5. (q * b) * n = q * (b * n)
    BY <2>1
  <2>6. (q * b) * n <= p * a
    <3>1. q * a \in Nat /\ q * (b * n) \in Nat
      BY <2>2
    <3>2. QED
      BY <1>1, <2>3, <2>4, <2>5, <3>1
  <2>7. n <= (p * a) \div (q * b)
    BY <1>1, <2>1, <2>6, QuotientFits
  <2>8. QED
    BY <2>7 DEF n
<1>3. ASSUME p <= q PROVE (p * a) \div (q * b) <= a \div b
  <2> DEFINE n == (p * a) \div (q * b)
  <2>1. n \in Nat /\ (q * b) * n <= p * a
    BY <1>1, QuotientSays
  <2> HIDE DEF n
  <2>2. b * n \in Nat /\ (q * b) * n = q * (b * n) /\ q * (b * n) \in Nat
    BY <2>1
  <2>3. p * a <= q * a /\ q * a \in Nat
    BY <1>3
  <2>4. q * (b * n) <= q * a
    BY <1>1, <2>1, <2>2, <2>3
  <2>5. b * n <= a
    <3>1. SUFFICES ASSUME a + 1 <= b * n PROVE FALSE
      BY <2>2
    <3>2. q * (a + 1) <= q * (b * n)
      BY <2>2, <3>1, TimesGrows
    <3>3. q * (a + 1) = q * a + q
      OBVIOUS
    <3>4. QED
      BY <2>2, <2>3, <2>4, <3>2, <3>3
  <2>6. n <= a \div b
    BY <2>1, <2>5, QuotientFits
  <2>7. QED
    BY <2>6 DEF n
<1>4. QED
  BY <1>1, <1>2, <1>3


\* A reconfiguration for the given PeriodicInformEnable leaves a callback with a
\* start timer, or neither (ConfigurePeriodicInform).
LEMMA ConfigureLeavesBoth ==
  ASSUME enable' \in BOOLEAN, Server!ConfigurePeriodicInform(enable')
  PROVE  Server!TimerHasCallback'
BY DEF Server!ConfigurePeriodicInform, Server!TimerHasCallback
\* The wait before failed session number n + 1, before it is pinned to the interval:
\* minimum m, multiplier p / q.
Unpinned(m, p, q, n) == (m * Server!Power(p, n)) \div Server!Power(q, n)

LEMMA UnpinnedGrows ==
  ASSUME NEW m \in Nat, NEW p \in Nat, NEW q \in Nat \ {0}, NEW n \in Nat
  PROVE  /\ Unpinned(m, p, q, n) \in Nat
         /\ q <= p => Unpinned(m, p, q, n) <= Unpinned(m, p, q, n + 1)
         /\ p <= q => Unpinned(m, p, q, n + 1) <= Unpinned(m, p, q, n)
<1> DEFINE P == Server!Power(p, n)
           Q == Server!Power(q, n)
<1>1. P \in Nat /\ Q \in Nat \ {0} /\ Server!Power(p, n + 1) = p * P /\ Server!Power(q, n + 1) = q * Q
  BY PowerLaw
<1>2. Unpinned(m, p, q, n) = (m * P) \div Q
  BY DEF Unpinned
<1>3. Unpinned(m, p, q, n + 1) = (m * (p * P)) \div (q * Q)
  BY <1>1 DEF Unpinned
<1> HIDE DEF P, Q
<1>4. m * P \in Nat /\ m * (p * P) = p * (m * P)
  BY <1>1
<1>5. (m * P) \div Q \in Nat
  BY <1>1, <1>4, QuotientSays
<1>6. /\ q <= p => (m * P) \div Q <= (p * (m * P)) \div (q * Q)
      /\ p <= q => (p * (m * P)) \div (q * Q) <= (m * P) \div Q
  BY <1>1, <1>4, RatioGrows
<1>7. QED
  BY <1>2, <1>3, <1>4, <1>5, <1>6

\* The interval that limits the wait.
Limit == IF Server!PeriodicInformInterval <= 0 THEN 30 ELSE Server!PeriodicInformInterval

LEMMA LimitPositive ==
  ASSUME Server!ServerAssumption, interval \in Int, startup \in Nat
  PROVE  Server!PeriodicInformInterval \in Int /\ Limit \in Nat \ {0}
<1>1. Server!PeriodicInformInterval \in Int
  BY DEF Server!ServerAssumption, Server!PeriodicInformInterval
<1>2. QED
  BY <1>1 DEF Limit

LEMMA RangeIs ==
  ASSUME Server!ServerAssumption, multiplier \in Multipliers, NEW number \in Nat \ {0},
         multiplier[1] # 0
  PROVE  /\ multiplier[1] \in Nat \ {0} /\ multiplier[2] \in Nat \ {0}
         /\ Server!Exponent(number) \in 1..10
         /\ Server!SessionRetryWait(number) =
              [start |-> Server!Smaller(Unpinned(minimum_wait, multiplier[1], multiplier[2],
                                          Server!Exponent(number) - 1),
                                 (Limit * multiplier[2]) \div multiplier[1]),
               stop  |-> Server!Smaller(Unpinned(minimum_wait, multiplier[1], multiplier[2],
                                          Server!Exponent(number)), Limit)]
<1>1. multiplier \in Nat \X (Nat \ {0})
  BY DEF Server!ServerAssumption
<1>2. Server!Exponent(number) \in 1..10
  BY DEF Server!Exponent
<1>3. QED
  BY <1>1, <1>2 DEF Server!SessionRetryWait, Server!RetryRange, Unpinned, Limit, Server!Pinned

\* What the ioloop is given to draw from: a range of natural numbers, which is empty if
\* the multiplier is less than 1.
LEMMA RangeSays ==
  ASSUME Server!ServerAssumption, interval \in Int, startup \in Nat,
         minimum_wait \in MinimumWaits, multiplier \in Multipliers,
         NEW number \in Nat \ {0}
  PROVE  /\ Server!SessionRetryWait(number) \in [start : Nat, stop : Nat]
         /\ Server!SessionRetryWait(number).stop <= Limit
         /\ multiplier[1] = 0 => Server!SessionRetryWait(number) = Server!NoWait
         /\ multiplier[1] <= multiplier[2] =>
              Server!SessionRetryWait(number).stop <= Server!SessionRetryWait(number).start
<1>1. Limit \in Nat \ {0} /\ minimum_wait \in Nat
  BY LimitPositive DEF Server!ServerAssumption
<1>2. CASE multiplier[1] = 0
  BY <1>1, <1>2 DEF Server!SessionRetryWait, Server!RetryRange, Server!NoWait
<1>3. CASE multiplier[1] # 0
  <2> DEFINE p == multiplier[1]
             q == multiplier[2]
             c == Server!Exponent(number)
             u(n) == Unpinned(minimum_wait, p, q, n)
             l == (Limit * q) \div p
  <2>1. p \in Nat \ {0} /\ q \in Nat \ {0} /\ c \in 1..10
    BY <1>3, RangeIs
  <2>2. c - 1 \in Nat /\ c \in Nat /\ (c - 1) + 1 = c
    BY <2>1
  <2>3. u(c - 1) \in Nat /\ u(c) \in Nat /\ (p <= q => u(c) <= u(c - 1))
    <3> HIDE DEF c, p, q
    <3>1. QED
      BY <1>1, <2>1, <2>2, UnpinnedGrows
  <2>4. l \in Nat /\ (p <= q => Limit <= l)
    <3>1. Limit * q \in Nat
      BY <1>1, <2>1
    <3>2. l \in Nat
      BY <2>1, <3>1, QuotientSays
    <3>3. ASSUME p <= q PROVE p * Limit <= Limit * q
      <4> HIDE DEF p, q
      <4>1. QED
        BY <1>1, <2>1, <3>3
    <3>4. p <= q => Limit <= l
      <4> HIDE DEF p, q
      <4>1. QED
        BY <1>1, <2>1, <3>1, <3>3, QuotientFits
    <3>5. QED
      BY <3>2, <3>4
  <2>5. Server!SessionRetryWait(number) = [start |-> Server!Smaller(u(c - 1), l), stop |-> Server!Smaller(u(c), Limit)]
    BY <1>3, RangeIs
  <2> HIDE DEF p, q, c, u, l
  <2>6. Server!Smaller(u(c - 1), l) \in Nat /\ Server!Smaller(u(c), Limit) \in Nat
        /\ Server!Smaller(u(c), Limit) <= Limit
        /\ (p <= q => Server!Smaller(u(c), Limit) <= Server!Smaller(u(c - 1), l))
    BY <1>1, <2>3, <2>4 DEF Server!Smaller
  <2>7. Server!SessionRetryWait(number).start = Server!Smaller(u(c - 1), l)
        /\ Server!SessionRetryWait(number).stop = Server!Smaller(u(c), Limit)
    BY <2>5
  <2>8. multiplier[1] # 0 /\ p = multiplier[1] /\ q = multiplier[2]
    BY <1>3 DEF p, q
  <2>9. QED
    BY <2>5, <2>6, <2>7, <2>8
<1>4. QED
  BY <1>2, <1>3

\* With a multiplier of at least 1, one failure more moves the range up.
LEMMA RangeGrows ==
  ASSUME Server!ServerAssumption, interval \in Int, startup \in Nat,
         minimum_wait \in MinimumWaits, multiplier \in Multipliers,
         NEW number \in Nat \ {0}, multiplier[1] # 0, multiplier[2] <= multiplier[1]
  PROVE  /\ Server!SessionRetryWait(number).start <= Server!SessionRetryWait(number + 1).start
         /\ Server!SessionRetryWait(number).stop <= Server!SessionRetryWait(number + 1).stop
<1>1. Limit \in Nat \ {0} /\ minimum_wait \in Nat
  BY LimitPositive DEF Server!ServerAssumption
<1> DEFINE p == multiplier[1]
           q == multiplier[2]
           c == Server!Exponent(number)
           d == Server!Exponent(number + 1)
           u(n) == Unpinned(minimum_wait, p, q, n)
           l == (Limit * q) \div p
<1>2. p \in Nat \ {0} /\ q \in Nat \ {0} /\ c \in 1..10 /\ d \in 1..10
  BY RangeIs
<1>3. d = c \/ d = c + 1
  BY DEF Server!Exponent
<1>4. l \in Nat
  <2> HIDE DEF p, q
  <2>1. Limit * q \in Nat
    BY <1>1, <1>2
  <2>2. QED
    BY <1>2, <2>1, QuotientSays
<1>5. u(c - 1) \in Nat /\ u(c) \in Nat /\ u(d - 1) \in Nat /\ u(d) \in Nat
      /\ u(c - 1) <= u(d - 1) /\ u(c) <= u(d)
  <2>1. \A n \in Nat : u(n) \in Nat /\ u(n) <= u(n + 1)
    <3>1. q <= p
      OBVIOUS
    <3> HIDE DEF p, q, c, d
    <3>2. QED
      BY <1>1, <1>2, <3>1, UnpinnedGrows
  <2> HIDE DEF u, c, d
  <2>2. c - 1 \in Nat /\ c \in Nat /\ (c - 1) + 1 = c
    BY <1>2
  <2>3. u(c - 1) \in Nat /\ u(c) \in Nat /\ u(c + 1) \in Nat
        /\ u(c - 1) <= u(c) /\ u(c) <= u(c + 1)
    BY <2>1, <2>2
  <2>4. CASE d = c
    BY <2>3, <2>4
  <2>5. CASE d = c + 1
    <3>1. d - 1 = c
      BY <2>2, <2>5
    <3>2. QED
      BY <2>3, <2>5, <3>1
  <2>6. QED
    BY <1>3, <2>4, <2>5
<1>6. /\ Server!SessionRetryWait(number) = [start |-> Server!Smaller(u(c - 1), l), stop |-> Server!Smaller(u(c), Limit)]
      /\ Server!SessionRetryWait(number + 1) =
           [start |-> Server!Smaller(u(d - 1), l), stop |-> Server!Smaller(u(d), Limit)]
  <2>1. number + 1 \in Nat \ {0}
    OBVIOUS
  <2>2. QED
    BY <2>1, RangeIs
<1> HIDE DEF p, q, c, d, u, l
<1>7. Server!Smaller(u(c - 1), l) <= Server!Smaller(u(d - 1), l) /\ Server!Smaller(u(c), Limit) <= Server!Smaller(u(d), Limit)
  BY <1>1, <1>4, <1>5 DEF Server!Smaller
<1>8. QED
  BY <1>6, <1>7

\* A wait that is not over is a range that was drawn from, or the process exits.
ServerInv ==
  /\ Server!TypeOK /\ Server!TimerHasCallback
  /\ retry_count = 0 => wait = Server!NoWait
  /\ wait = Server!NoWait \/ exited \/ wait.start < wait.stop

\* What a step may not do to the wait.
WithinPeriod ==
  retry_count' > retry_count /\ Server!PeriodicInformInterval > 0 =>
    wait'.stop <= Server!PeriodicInformInterval
BacksOff ==
  retry_count' > retry_count /\ wait # Server!NoWait /\ wait = Server!SessionRetryWait(retry_count) =>
    wait'.start >= wait.start /\ wait'.stop >= wait.stop

LEMMA RetryStep ==
  ASSUME Server!ServerAssumption, ServerInv, Server!ScheduleRetry
  PROVE  ServerInv' /\ WithinPeriod /\ BacksOff
<1>1. /\ retry_count \in Nat /\ retry_count' = retry_count + 1
      /\ retry_count' \in 0..MaxRetryCount /\ retry_count' \in Nat \ {0}
      /\ interval \in Int /\ startup \in Nat
      /\ minimum_wait \in MinimumWaits /\ multiplier \in Multipliers
      /\ wait' = Server!SessionRetryWait(retry_count') /\ exited = FALSE
      /\ exited' = (wait'.start >= wait'.stop)
  BY DEF Server!ScheduleRetry, ServerInv, Server!TypeOK, Server!ServerAssumption
<1>2. /\ wait' \in [start : Nat, stop : Nat]
      /\ wait'.stop <= Limit
  <2> DEFINE r == retry_count'
  <2>1. r \in Nat \ {0} /\ wait' = Server!SessionRetryWait(r)
    BY <1>1
  <2> HIDE DEF r
  <2>2. QED
    BY <1>1, <2>1, RangeSays
<1>3. ServerInv'
  <2>1. Server!TypeOK'
    BY <1>1, <1>2 DEF ServerInv, Server!TypeOK, Server!ScheduleRetry, Server!periodic
  <2>2. Server!TimerHasCallback'
    BY DEF ServerInv, Server!TimerHasCallback, Server!ScheduleRetry, Server!periodic
  <2>3. exited' \/ wait'.start < wait'.stop
    <3>1. wait'.start \in Nat /\ wait'.stop \in Nat
      BY <1>2
    <3>2. wait'.start >= wait'.stop \/ wait'.start < wait'.stop
      BY <3>1
    <3>3. wait'.start >= wait'.stop => exited'
      BY Zenon, <1>1
    <3>4. QED
      BY <3>2, <3>3
  <2>4. QED
    BY <1>1, <2>1, <2>2, <2>3 DEF ServerInv
<1>4. WithinPeriod
  BY <1>1, <1>2, LimitPositive DEF WithinPeriod, Limit
<1>5. BacksOff
  <2> SUFFICES ASSUME wait # Server!NoWait, wait = Server!SessionRetryWait(retry_count)
               PROVE  wait'.start >= wait.start /\ wait'.stop >= wait.stop
    BY DEF BacksOff
  <2>1. retry_count \in Nat \ {0} /\ wait.start < wait.stop
    BY <1>1 DEF ServerInv
  <2>2. wait \in [start : Nat, stop : Nat]
    BY DEF ServerInv, Server!TypeOK
  <2>3. multiplier[1] # 0 /\ ~(multiplier[1] <= multiplier[2])
    <3>1. wait.start \in Nat /\ wait.stop \in Nat
      BY <2>2
    <3>2. /\ multiplier[1] = 0 => wait = Server!NoWait
          /\ multiplier[1] <= multiplier[2] => wait.stop <= wait.start
      BY <1>1, <2>1, RangeSays
    <3>3. QED
      BY <2>1, <3>1, <3>2
  <2>4. multiplier[2] <= multiplier[1]
    <3>1. multiplier[1] \in Nat /\ multiplier[2] \in Nat
      BY <1>1 DEF Server!ServerAssumption
    <3>2. QED
      BY <2>3, <3>1
  <2>5. /\ wait.start <= Server!SessionRetryWait(retry_count + 1).start
        /\ wait.stop <= Server!SessionRetryWait(retry_count + 1).stop
    BY <1>1, <2>1, <2>3, <2>4, RangeGrows
  <2>6. wait' = Server!SessionRetryWait(retry_count + 1)
    BY <1>1
  <2>7. wait.start \in Nat /\ wait.stop \in Nat /\ wait'.start \in Nat /\ wait'.stop \in Nat
    BY <1>2, <2>2
  <2>8. QED
    BY <2>5, <2>6, <2>7
<1>6. QED
  BY <1>3, <1>4, <1>5

LEMMA PeriodOk ==
  ASSUME Server!ServerAssumption, Server!ConfigurePeriodicInform(enable'), interval \in Int
  PROVE  period' \in Int /\ started' \in BOOLEAN /\ start_timeout' \in BOOLEAN
<1>1. Server!PeriodicInformInterval \in Int
  BY DEF Server!ServerAssumption, Server!PeriodicInformInterval
<1>2. CASE enable' /\ Server!PeriodicInformInterval > 0
  BY <1>1, <1>2 DEF Server!ConfigurePeriodicInform
<1>3. CASE ~(enable' /\ Server!PeriodicInformInterval > 0)
  <2>1. period' = 0 /\ started' \in BOOLEAN /\ start_timeout' \in BOOLEAN
    BY Zenon, <1>3 DEF Server!ConfigurePeriodicInform
  <2>2. period' \in Int
    BY <2>1
  <2>3. QED
    BY Zenon, <2>1, <2>2
<1>4. QED
  BY <1>2, <1>3

LEMMA DefaultInterval ==
  ASSUME Server!ServerAssumption
  PROVE  /\ interval = 0 => Server!PeriodicInformInterval > 0 /\ Server!PeriodicInformInterval \in Nat
         /\ interval' = 0 => Server!PeriodicInformInterval' > 0 /\ Server!PeriodicInformInterval' \in Nat
BY DEF Server!ServerAssumption, Server!PeriodicInformInterval

\* The clocks of the engine: a start timer has its callback, no wait is longer than the
\* periodic interval, and the waits of sessions that fail in a row do not get shorter.
THEOREM ServerSafe ==
  ASSUME Server!ServerAssumption
  PROVE  /\ Server!Spec => []ServerInv
         /\ Server!Spec => Server!RetryWithinPeriod
         /\ Server!Spec => Server!RetryBacksOff
<1>1. Server!Init => ServerInv
  <2>1. Server!Init => Server!TypeOK
    <3>1. Server!NoWait \in [start : Nat, stop : Nat]
      BY DEF Server!NoWait
    <3>2. Server!Init => Server!PeriodicInformInterval \in Nat
      BY DefaultInterval DEF Server!Init
    <3>3. Server!Init => /\ startup \in 0..StartupSessions /\ retry_count \in 0..MaxRetryCount
      BY DEF Server!Init, Server!ServerAssumption
    <3>4. 5 \in MinimumWaits /\ <<2, 1>> \in Multipliers
      BY DEF Server!ServerAssumption
    <3>5. Server!Init => period \in Int
      BY <3>2 DEF Server!Init
    <3>6. QED
      BY <3>1, <3>3, <3>4, <3>5 DEF Server!Init, Server!TypeOK
  <2>2. Server!Init => Server!TimerHasCallback
    BY DefaultInterval DEF Server!Init, Server!TimerHasCallback
  <2>3. QED
    BY <2>1, <2>2 DEF Server!Init, ServerInv
<1>2. ServerInv /\ [Server!Next]_Server!vars => ServerInv' /\ WithinPeriod /\ BacksOff
  <2> SUFFICES ASSUME ServerInv, [Server!Next]_Server!vars
               PROVE  ServerInv' /\ WithinPeriod /\ BacksOff
    OBVIOUS
  <2>1. Server!TypeOK /\ Server!TimerHasCallback /\ retry_count \in Nat /\ interval \in Int
    BY DEF ServerInv, Server!TypeOK, Server!ServerAssumption
  <2>2. CASE UNCHANGED Server!retry
    <3>1. WithinPeriod /\ BacksOff
      BY <2>1, <2>2 DEF WithinPeriod, BacksOff, Server!retry
    <3>2. Server!TypeOK' /\ Server!TimerHasCallback' => ServerInv'
      BY <2>2 DEF ServerInv, Server!retry
    <3>3. CASE Server!SetPeriodicInformEnable
      <4>1. enable' = ~enable /\ Server!ConfigurePeriodicInform(enable')
        BY <3>3 DEF Server!SetPeriodicInformEnable
      <4>2. period' \in Int /\ started' \in BOOLEAN /\ start_timeout' \in BOOLEAN
        BY <2>1, <4>1, PeriodOk
      <4>3. enable' \in BOOLEAN
        BY <2>1, <4>1 DEF Server!TypeOK
      <4>4. Server!TypeOK'
        BY <2>1, <3>3, <4>2, <4>3 DEF Server!TypeOK, Server!SetPeriodicInformEnable, Server!retry
      <4>5. QED
        BY <3>1, <3>2, <4>1, <4>3, <4>4, ConfigureLeavesBoth
    <3>4. ASSUME NEW m \in MinimumWaits, Server!SetRetryMinimumWait(m)
          PROVE  ServerInv'
      <4>1. enable' = enable /\ enable \in BOOLEAN /\ Server!ConfigurePeriodicInform(enable')
        BY <2>1, <3>4 DEF Server!SetRetryMinimumWait, Server!TypeOK
      <4>2. period' \in Int /\ started' \in BOOLEAN /\ start_timeout' \in BOOLEAN
        BY <2>1, <4>1, PeriodOk
      <4>3. Server!TypeOK'
        BY <2>1, <3>4, <4>1, <4>2 DEF Server!TypeOK, Server!SetRetryMinimumWait, Server!retry
      <4>4. QED
        BY <3>2, <4>1, <4>3, ConfigureLeavesBoth
    <3>5. ASSUME NEW k \in Multipliers, Server!SetRetryMultiplier(k)
          PROVE  ServerInv'
      <4>1. enable' = enable /\ enable \in BOOLEAN /\ Server!ConfigurePeriodicInform(enable')
        BY <2>1, <3>5 DEF Server!SetRetryMultiplier, Server!TypeOK
      <4>2. period' \in Int /\ started' \in BOOLEAN /\ start_timeout' \in BOOLEAN
        BY <2>1, <4>1, PeriodOk
      <4>3. Server!TypeOK'
        BY <2>1, <3>5, <4>1, <4>2 DEF Server!TypeOK, Server!SetRetryMultiplier, Server!retry
      <4>4. QED
        BY <3>2, <4>1, <4>3, ConfigureLeavesBoth
    <3>6. ASSUME NEW v \in Intervals, Server!SetPeriodicInformInterval(v)
          PROVE  ServerInv'
      BY <2>1, <3>2, <3>6 DEF Server!SetPeriodicInformInterval, Server!periodic, Server!retry, Server!TypeOK, Server!TimerHasCallback
    <3>7. CASE Server!SuccessfulSession
      <4>1. startup' \in 0..StartupSessions
        BY <2>1, <3>7 DEF Server!SuccessfulSession, Server!TypeOK, Server!ServerAssumption
      <4>2. QED
        BY <2>1, <3>1, <3>2, <3>7, <4>1
           DEF Server!SuccessfulSession, Server!periodic, Server!retry, Server!TypeOK, Server!TimerHasCallback
    <3>8. CASE Server!StartPeriodicInform
      BY <2>1, <3>1, <3>2, <3>8 DEF Server!StartPeriodicInform, Server!retry, Server!TypeOK, Server!TimerHasCallback
    <3>9. CASE UNCHANGED Server!vars
      BY <2>1, <3>1, <3>2, <3>9 DEF Server!vars, Server!periodic, Server!retry, Server!TypeOK, Server!TimerHasCallback
    <3>10. Server!ScheduleRetry \/ Server!ResetRetry \/ Server!Respawn => FALSE
      BY <2>1, <2>2 DEF Server!ScheduleRetry, Server!ResetRetry, Server!Respawn, Server!retry
    <3>11. QED
      BY <3>1, <3>3, <3>4, <3>5, <3>6, <3>7, <3>8, <3>9, <3>10 DEF Server!Next
  <2>3. CASE Server!ScheduleRetry
    BY <2>3, RetryStep
  <2>4. CASE Server!ResetRetry
    <3>1. Server!NoWait \in [start : Nat, stop : Nat] /\ 0 \in 0..MaxRetryCount
      BY DEF Server!NoWait, Server!ServerAssumption
    <3>2. Server!TypeOK' /\ Server!TimerHasCallback'
      BY <2>1, <2>4, <3>1 DEF Server!ResetRetry, Server!periodic, Server!TypeOK, Server!TimerHasCallback
    <3>3. QED
      BY <2>1, <2>4, <3>2 DEF Server!ResetRetry, ServerInv, WithinPeriod, BacksOff
  <2>5. CASE Server!Respawn
    <3>1. Server!NoWait \in [start : Nat, stop : Nat] /\ 0 \in 0..MaxRetryCount
          /\ StartupSessions \in 0..StartupSessions /\ 5 \in MinimumWaits
          /\ <<2, 1>> \in Multipliers
      BY DEF Server!NoWait, Server!ServerAssumption
    <3>2. period' \in Nat /\ period' > 0
      BY <2>5, DefaultInterval DEF Server!Respawn
    <3>3. Server!TypeOK'
      <4>1. /\ enable' \in BOOLEAN /\ interval' \in Intervals \cup {0}
            /\ startup' \in 0..StartupSessions /\ started' \in BOOLEAN
            /\ start_timeout' \in BOOLEAN /\ exited' \in BOOLEAN
        BY <2>5, <3>1 DEF Server!Respawn
      <4>2. /\ period' \in Int /\ minimum_wait' \in MinimumWaits
            /\ multiplier' \in Multipliers /\ retry_count' \in 0..MaxRetryCount
            /\ wait' \in [start : Nat, stop : Nat]
        BY <2>5, <3>1, <3>2 DEF Server!Respawn
      <4>3. QED
        BY <4>1, <4>2 DEF Server!TypeOK
    <3>4. Server!TimerHasCallback'
      BY <2>5, <3>2 DEF Server!Respawn, Server!TimerHasCallback
    <3>5. QED
      BY <2>1, <2>5, <3>3, <3>4 DEF Server!Respawn, ServerInv, WithinPeriod, BacksOff
  <2>6. UNCHANGED Server!retry \/ Server!ScheduleRetry \/ Server!ResetRetry \/ Server!Respawn
    BY DEF Server!Next, Server!vars, Server!retry, Server!SetPeriodicInformEnable, Server!SetRetryMinimumWait,
       Server!SetRetryMultiplier, Server!SetPeriodicInformInterval, Server!SuccessfulSession, Server!StartPeriodicInform
  <2>7. QED
    BY <2>2, <2>3, <2>4, <2>5, <2>6
<1>3. Server!Spec => []ServerInv
  BY <1>1, <1>2, PTL DEF Server!Spec
<1>4. WithinPeriod => (retry_count' > retry_count /\ Server!PeriodicInformInterval > 0 =>
       wait'.stop <= Server!PeriodicInformInterval)
  BY DEF WithinPeriod
<1>5. BacksOff => (retry_count' > retry_count /\ wait # Server!NoWait
       /\ wait = Server!SessionRetryWait(retry_count) =>
         wait'.start >= wait.start /\ wait'.stop >= wait.stop)
  BY DEF BacksOff
<1>6. Server!Spec => Server!RetryWithinPeriod
  BY <1>2, <1>3, <1>4, PTL DEF Server!Spec, Server!RetryWithinPeriod
<1>7. Server!Spec => Server!RetryBacksOff
  BY <1>2, <1>3, <1>5, PTL DEF Server!Spec, Server!RetryBacksOff
<1>8. QED
  BY <1>3, <1>6, <1>7

-----------------------------------------------------------------------------
(* set-acs, for any sources, URLs and number of attempts                   *)
(*                                                                         *)
(* The invariant is the types; what is kept of a file, and what is asked   *)
(* and not answered, is said of each step.                                 *)

AllUrls == Urls \cup {Default, Acs!None}
OneFile == [Acs!Kinds -> AllUrls]
AllFiles == [Sources -> OneFile]

LEMMA Five == \A i \in 1..5 : i = 1 \/ i = 2 \/ i = 3 \/ i = 4 \/ i = 5
OBVIOUS

LEMMA FirstOfSays ==
  ASSUME NEW n \in {4, 5}, NEW urls, DOMAIN urls = 1..n
  PROVE  \/ Acs!FirstOf(urls) = Acs!None /\ \A i \in 1..n : urls[i] = Acs!None
         \/ \E i \in 1..n : Acs!FirstOf(urls) = urls[i] /\ urls[i] # Acs!None
<1> DEFINE some == {i \in DOMAIN urls : urls[i] # Acs!None}
<1>1. CASE some = {}
  BY <1>1 DEF Acs!FirstOf
<1>2. CASE some # {}
  <2>1. \E i \in some : \A j \in some : i <= j
    <3>1. some \subseteq 1..5
      OBVIOUS
    <3> HIDE DEF some
    <3> DEFINE Least(i) == i \in some /\ \A j \in some : i <= j
    <3>2. 1 \in some => Least(1)
      BY <3>1
    <3>3. 1 \notin some /\ 2 \in some => Least(2)
      BY <3>1
    <3>4. 1 \notin some /\ 2 \notin some /\ 3 \in some => Least(3)
      BY <3>1
    <3>5. 1 \notin some /\ 2 \notin some /\ 3 \notin some /\ 4 \in some => Least(4)
      BY <3>1
    <3>6. 1 \notin some /\ 2 \notin some /\ 3 \notin some /\ 4 \notin some => Least(5)
      <4>1. ASSUME 1 \notin some, 2 \notin some, 3 \notin some, 4 \notin some, NEW j \in some
            PROVE  j = 5
        BY <3>1, <4>1
      <4>2. QED
        BY <1>2, <4>1
    <3>7. \E i : Least(i)
      BY <3>2, <3>3, <3>4, <3>5, <3>6
    <3>8. QED
      BY <3>7
  <2>2. (CHOOSE i \in some : \A j \in some : i <= j) \in some
    BY <2>1
  <2>3. Acs!FirstOf(urls) = urls[CHOOSE i \in some : \A j \in some : i <= j]
    BY <1>2 DEF Acs!FirstOf
  <2>4. QED
    BY <2>2, <2>3
<1>3. QED
  BY <1>1, <1>2

\* A source offers an URL if it has one that did not time out.
LEMMA OfferedSays ==
  ASSUME NEW f \in OneFile
  PROVE  /\ Acs!Offered(f) \in AllUrls
         /\ Acs!Offered(f) = Acs!None <=> f[""] = Acs!None /\ f["blessed"] = Acs!None
<1> DEFINE urls == <<IF f[""] = Acs!None THEN Acs!None ELSE f["redir"], f[""],
                     IF f["blessed"] = Acs!None THEN Acs!None ELSE f["blessed.redir"],
                     IF f["blessed"] = Acs!None THEN Acs!None ELSE f["blessed.redir.blessed"],
                     f["blessed"]>>
<1>1. /\ DOMAIN urls = 1..5
      /\ urls[1] = (IF f[""] = Acs!None THEN Acs!None ELSE f["redir"]) /\ urls[2] = f[""]
      /\ urls[3] = (IF f["blessed"] = Acs!None THEN Acs!None ELSE f["blessed.redir"])
      /\ urls[4] = (IF f["blessed"] = Acs!None THEN Acs!None ELSE f["blessed.redir.blessed"])
      /\ urls[5] = f["blessed"]
  OBVIOUS
<1>2. \A k \in Acs!Kinds : f[k] \in AllUrls
  BY DEF OneFile
<1>3. Acs!Offered(f) = Acs!FirstOf(urls)
  BY DEF Acs!Offered
<1> HIDE DEF urls
<1>4. \/ Acs!FirstOf(urls) = Acs!None /\ \A i \in 1..5 : urls[i] = Acs!None
      \/ \E i \in 1..5 : Acs!FirstOf(urls) = urls[i] /\ urls[i] # Acs!None
  BY <1>1, FirstOfSays
<1>5. \A i \in 1..5 : urls[i] \in AllUrls
  <2>1. /\ f[""] \in AllUrls /\ f["redir"] \in AllUrls /\ f["blessed"] \in AllUrls
        /\ f["blessed.redir"] \in AllUrls /\ f["blessed.redir.blessed"] \in AllUrls
        /\ Acs!None \in AllUrls
    BY <1>2 DEF Acs!Kinds, AllUrls
  <2>2. /\ urls[1] \in AllUrls /\ urls[2] \in AllUrls /\ urls[3] \in AllUrls
        /\ urls[4] \in AllUrls /\ urls[5] \in AllUrls
    BY <1>1, <2>1
  <2>3. QED
    BY <2>2, Five
<1>6. CASE Acs!FirstOf(urls) = Acs!None /\ \A i \in 1..5 : urls[i] = Acs!None
  <2>1. urls[2] = Acs!None /\ urls[5] = Acs!None
    BY <1>6
  <2>2. QED
    BY <1>1, <1>3, <1>6, <2>1 DEF AllUrls
<1>7. CASE \E i \in 1..5 : Acs!FirstOf(urls) = urls[i] /\ urls[i] # Acs!None
  <2>1. Acs!Offered(f) \in AllUrls /\ Acs!Offered(f) # Acs!None
    BY <1>3, <1>5, <1>7
  <2>2. ~(f[""] = Acs!None /\ f["blessed"] = Acs!None)
    <3>1. PICK i \in 1..5 : urls[i] # Acs!None
      BY <1>7
    <3>2. urls[1] # Acs!None \/ urls[2] # Acs!None \/ urls[3] # Acs!None \/ urls[4] # Acs!None \/ urls[5] # Acs!None
      BY <3>1, Five
    <3>3. QED
      BY <1>1, <3>2
  <2>3. QED
    BY <2>1, <2>2
<1>8. QED
  BY <1>4, <1>6, <1>7

LEMMA NoneIsNoSource == Acs!SetAcsAssumption => Acs!None \notin Sources
BY DEF Acs!SetAcsAssumption, Acs!None

\* all_urls offers something as soon as one of the sources does.
LEMMA OfferingSays ==
  ASSUME Acs!SetAcsAssumption, NEW fs
  PROVE  \/ Acs!Offering(fs) = Acs!None /\ \A s \in Sources : Acs!Offered(fs[s]) = Acs!None
         \/ Acs!Offering(fs) \in Sources /\ Acs!Offered(fs[Acs!Offering(fs)]) # Acs!None
<1> DEFINE urls == [i \in 1..Len(Acs!Ranked) |->
             IF Acs!Ranked[i] \in Sources /\ Acs!Offered(fs[Acs!Ranked[i]]) # Acs!None THEN Acs!Ranked[i] ELSE Acs!None]
<1>1. Len(Acs!Ranked) = 4
  BY DEF Acs!Ranked
<1>2. /\ Acs!Ranked[1] = "manual" /\ Acs!Ranked[2] = "dhcp6" /\ Acs!Ranked[3] = "dhcp"
      /\ Acs!Ranked[4] = "find-acs"
  BY DEF Acs!Ranked
<1>3. \A s \in Sources : \E i \in 1..4 : Acs!Ranked[i] = s
  BY <1>2 DEF Acs!SetAcsAssumption
<1>4. Acs!None \notin Sources
  BY NoneIsNoSource
<1>5. \A i \in 1..4 :
        urls[i] = IF Acs!Ranked[i] \in Sources /\ Acs!Offered(fs[Acs!Ranked[i]]) # Acs!None
                  THEN Acs!Ranked[i] ELSE Acs!None
  BY <1>1
<1>6. Acs!Offering(fs) = Acs!FirstOf(urls) /\ DOMAIN urls = 1..4
  BY <1>1 DEF Acs!Offering
<1> HIDE DEF urls
<1>7. \/ Acs!FirstOf(urls) = Acs!None /\ \A i \in 1..4 : urls[i] = Acs!None
      \/ \E i \in 1..4 : Acs!FirstOf(urls) = urls[i] /\ urls[i] # Acs!None
  BY <1>6, FirstOfSays
<1>8. CASE Acs!FirstOf(urls) = Acs!None /\ \A i \in 1..4 : urls[i] = Acs!None
  BY <1>3, <1>4, <1>5, <1>6, <1>8
<1>9. CASE \E i \in 1..4 : Acs!FirstOf(urls) = urls[i] /\ urls[i] # Acs!None
  BY <1>5, <1>6, <1>9
<1>10. QED
  BY <1>7, <1>8, <1>9

\* What a run of set-acs leaves of a file, apart from bless and clear.
Keeps(f, g) == g \in OneFile /\ g["blessed"] = f["blessed"]

LEMMA KindNames ==
  /\ "" \in Acs!Kinds /\ "timed_out" \in Acs!Kinds /\ "redir" \in Acs!Kinds /\ "blessed" \in Acs!Kinds
  /\ "blessed.redir" \in Acs!Kinds /\ "blessed.redir.blessed" \in Acs!Kinds
BY DEF Acs!Kinds

\* One file of a source is written, or removed.
Put(f, k, u) == [f EXCEPT ![k] = u]

LEMMA PutUrl ==
  \A f \in OneFile : \A k \in Acs!Kinds : \A u \in AllUrls :
    Put(f, k, u) \in OneFile
BY DEF OneFile, Put

LEMMA NothingIsFile == Acs!Nothing \in OneFile
BY DEF Acs!Nothing, OneFile, AllUrls

LEMMA TimedOutKeeps ==
  ASSUME NEW f \in OneFile, NEW url \in AllUrls
  PROVE  Keeps(f, Acs!SetTimedOut(f, url))
<1>0. Acs!None \in AllUrls
  BY DEF AllUrls
<1>1. [f EXCEPT ![""] = Acs!None, !["timed_out"] = url] = Put(Put(f, "", Acs!None), "timed_out", url)
  BY DEF OneFile, Put
<1>a. [f EXCEPT !["redir"] = Acs!None] = Put(f, "redir", Acs!None)
      /\ [f EXCEPT !["blessed.redir"] = Acs!None] = Put(f, "blessed.redir", Acs!None)
  BY DEF Put
<1>b. /\ Put(Put(f, "", Acs!None), "timed_out", url) \in OneFile
      /\ Put(f, "redir", Acs!None) \in OneFile /\ Put(f, "blessed.redir", Acs!None) \in OneFile
  BY <1>0, PutUrl, KindNames
<1>c. /\ [f EXCEPT ![""] = Acs!None, !["timed_out"] = url]["blessed"] = f["blessed"]
      /\ [f EXCEPT !["redir"] = Acs!None]["blessed"] = f["blessed"]
      /\ [f EXCEPT !["blessed.redir"] = Acs!None]["blessed"] = f["blessed"]
  BY KindNames DEF OneFile
<1>2. /\ Keeps(f, [f EXCEPT ![""] = Acs!None, !["timed_out"] = url])
      /\ Keeps(f, [f EXCEPT !["redir"] = Acs!None]) /\ Keeps(f, [f EXCEPT !["blessed.redir"] = Acs!None])
  BY <1>1, <1>a, <1>b, <1>c DEF Keeps
<1>3. Keeps(f, f)
  BY DEF Keeps
<1>4. QED
  BY <1>2, <1>3 DEF Acs!SetTimedOut

LEMMA UpdateKeeps ==
  ASSUME NEW f \in OneFile, NEW url \in AllUrls, NEW s
  PROVE  /\ Acs!UpdateFile(s, f, url) \in OneFile
         /\ Acs!UpdateFile(s, f, url)["blessed"] = IF s = "manual" THEN url ELSE f["blessed"]
<1>0. Acs!None \in AllUrls
  BY DEF AllUrls
<1>1. [f EXCEPT ![""] = Acs!None, !["redir"] = Acs!None, !["timed_out"] = Acs!None]
        = Put(Put(Put(f, "", Acs!None), "redir", Acs!None), "timed_out", Acs!None)
  BY DEF OneFile, Put
<1>2. [f EXCEPT ![""] = url, !["redir"] = Acs!None]
        = Put(Put(f, "", url), "redir", Acs!None)
  BY DEF OneFile, Put
<1>a. /\ Put(Put(Put(f, "", Acs!None), "redir", Acs!None), "timed_out", Acs!None) \in OneFile
      /\ Put(Put(f, "", url), "redir", Acs!None) \in OneFile
  BY <1>0, PutUrl, KindNames
<1>b. /\ [f EXCEPT ![""] = Acs!None, !["redir"] = Acs!None, !["timed_out"] = Acs!None]["blessed"]
           = f["blessed"]
      /\ [f EXCEPT ![""] = url, !["redir"] = Acs!None]["blessed"] = f["blessed"]
  BY KindNames DEF OneFile
<1>3. /\ Keeps(f, [f EXCEPT ![""] = Acs!None, !["redir"] = Acs!None, !["timed_out"] = Acs!None])
      /\ Keeps(f, [f EXCEPT ![""] = url, !["redir"] = Acs!None])
  BY <1>1, <1>2, <1>a, <1>b DEF Keeps
<1>4. Put(f, "blessed", url) \in OneFile /\ Put(f, "blessed", url)["blessed"] = url
  <2>1. Put(f, "blessed", url) \in OneFile
    BY PutUrl, KindNames
  <2>2. Put(f, "blessed", url)["blessed"] = url
    BY KindNames DEF OneFile, Put
  <2>3. QED
    BY <2>1, <2>2
<1>5. [f EXCEPT !["blessed"] = url] = Put(f, "blessed", url)
  BY DEF Put
<1>6. QED
  BY <1>3, <1>4, <1>5 DEF Acs!UpdateFile, Keeps

\* What bless may do to the blessed URL of a source.
LEMMA BlessSays ==
  ASSUME NEW f \in OneFile, NEW url \in AllUrls, url # Acs!None
  PROVE  LET g == Acs!BlessFile(f, url) IN
         /\ g \in OneFile
         /\ f["blessed"] # Acs!None /\ g["blessed"] # f["blessed"]
              => g["blessed"] # Acs!None /\ url \in {g["blessed"], g["blessed.redir.blessed"]}
<1> DEFINE kept == IF f[""] = Acs!None THEN f["blessed"] ELSE f[""]
           a == [f EXCEPT !["redir"] = Acs!None, !["blessed.redir.blessed"] = url,
                          ![""] = Acs!None, !["blessed"] = kept]
           b == [f EXCEPT ![""] = Acs!None, !["redir"] = Acs!None, !["blessed.redir"] = Acs!None,
                          !["blessed.redir.blessed"] = url]
           c == [Acs!Nothing EXCEPT !["timed_out"] = f["timed_out"], !["blessed"] = url]
           Fit(g) == /\ g \in OneFile
                     /\ f["blessed"] # Acs!None /\ g["blessed"] # f["blessed"]
                          => g["blessed"] # Acs!None /\ url \in {g["blessed"], g["blessed.redir.blessed"]}
<1>0. Acs!None \in AllUrls
  BY DEF AllUrls
<1>1. kept \in AllUrls /\ f["timed_out"] \in AllUrls /\ (f["blessed"] # Acs!None => kept # Acs!None)
  BY KindNames DEF OneFile
<1>2. Acs!BlessFile(f, url) = IF f["redir"] = url THEN a
                          ELSE IF f["blessed.redir"] = url THEN b
                          ELSE IF f["blessed"] # url THEN c ELSE f
  BY DEF Acs!BlessFile
<1>3. Fit(a)
  <2>1. a = Put(Put(Put(Put(f, "redir", Acs!None), "blessed.redir.blessed", url), "", Acs!None),
                "blessed", kept)
    BY DEF OneFile, Put
  <2>0. a["blessed"] = kept /\ a["blessed.redir.blessed"] = url
    BY KindNames DEF OneFile
  <2> HIDE DEF kept, a
  <2>2. a \in OneFile /\ a["blessed"] = kept /\ a["blessed.redir.blessed"] = url
    BY <1>0, <1>1, <2>0, <2>1, PutUrl, KindNames
  <2>3. QED
    BY <1>1, <2>2
<1>4. Fit(b)
  <2>1. b = Put(Put(Put(Put(f, "", Acs!None), "redir", Acs!None), "blessed.redir", Acs!None),
                "blessed.redir.blessed", url)
    BY DEF OneFile, Put
  <2>0. b["blessed"] = f["blessed"]
    BY KindNames DEF OneFile
  <2> HIDE DEF b
  <2>2. b \in OneFile /\ b["blessed"] = f["blessed"]
    BY <1>0, <2>0, <2>1, PutUrl, KindNames
  <2>3. QED
    BY <2>2
<1>5. Fit(c)
  <2>1. c = Put(Put(Acs!Nothing, "timed_out", f["timed_out"]), "blessed", url)
    BY NothingIsFile DEF OneFile, Put
  <2>0. c["blessed"] = url
    BY KindNames, NothingIsFile DEF OneFile
  <2> HIDE DEF c
  <2>2. c \in OneFile /\ c["blessed"] = url
    BY <1>1, <2>0, <2>1, PutUrl, KindNames, NothingIsFile
  <2>3. QED
    BY <2>2
<1>6. Fit(f)
  OBVIOUS
<1> HIDE DEF a, b, c
<1>7. QED
  BY <1>2, <1>3, <1>4, <1>5, <1>6

-----------------------------------------------------------------------------
Founds == Urls \cup {"blank", "fail"}

LEMMA FoundKeeps ==
  ASSUME Acs!SetAcsAssumption, NEW fs \in AllFiles, NEW found \in Founds
  PROVE  /\ Acs!FoundAcs(fs, found) \in AllFiles
         /\ \A s \in Sources : Acs!FoundAcs(fs, found)[s]["blessed"] = fs[s]["blessed"]
<1> DEFINE url == IF found = "blank" THEN Default ELSE found
           g == Acs!UpdateFile("find-acs", fs["find-acs"], url)
<1>1. CASE Acs!AsksFindAcs(fs) /\ found # "fail"
  <2>1. "find-acs" \in Sources /\ url \in AllUrls
    BY <1>1 DEF Acs!AsksFindAcs, Founds, AllUrls
  <2>2. fs["find-acs"] \in OneFile
    BY <2>1 DEF AllFiles
  <2>3. g \in OneFile /\ g["blessed"] = fs["find-acs"]["blessed"]
    <3> HIDE DEF url
    <3>1. QED
      BY <2>1, <2>2, UpdateKeeps
  <2>4. Acs!FoundAcs(fs, found) = [fs EXCEPT !["find-acs"] = g]
    BY <1>1 DEF Acs!FoundAcs
  <2> HIDE DEF g
  <2>5. QED
    BY <2>1, <2>3, <2>4 DEF AllFiles
<1>2. CASE ~(Acs!AsksFindAcs(fs) /\ found # "fail")
  BY <1>2 DEF Acs!FoundAcs
<1>3. QED
  BY <1>1, <1>2

\* If nothing is offered afterwards, then nothing has timed out either.
LEMMA RevivedKeeps ==
  ASSUME Acs!SetAcsAssumption, NEW fs \in AllFiles
  PROVE  /\ Acs!Revived(fs) \in AllFiles
         /\ \A s \in Sources : Acs!Revived(fs)[s]["blessed"] = fs[s]["blessed"]
         /\ Acs!Offering(Acs!Revived(fs)) = Acs!None =>
              \A s \in Sources :
                /\ Acs!Revived(fs)[s][""] = Acs!None /\ Acs!Revived(fs)[s]["timed_out"] = Acs!None
                /\ Acs!Revived(fs)[s]["blessed"] = Acs!None
<1> DEFINE up(f) == [f EXCEPT !["timed_out"] = Acs!None, ![""] = f["timed_out"]]
           g(f) == IF f["timed_out"] # Acs!None /\ f[""] = Acs!None THEN up(f) ELSE f
           all == [s \in Sources |-> g(fs[s])]
<1>1. \A f \in OneFile : /\ g(f) \in OneFile /\ g(f)["blessed"] = f["blessed"]
                         /\ g(f)[""] = Acs!None => g(f)["timed_out"] = Acs!None
  <2>1. TAKE f \in OneFile
  <2>2. f["timed_out"] \in AllUrls /\ Acs!None \in AllUrls
    BY KindNames DEF OneFile, AllUrls
  <2>3. up(f)["blessed"] = f["blessed"] /\ up(f)[""] = f["timed_out"]
    BY KindNames DEF OneFile
  <2>4. up(f) = Put(Put(f, "timed_out", Acs!None), "", f["timed_out"])
    BY DEF OneFile, Put
  <2>5. Put(Put(f, "timed_out", Acs!None), "", f["timed_out"]) \in OneFile
    BY <2>2, PutUrl, KindNames
  <2>6. up(f) \in OneFile
    BY <2>4, <2>5
  <2> HIDE DEF up
  <2>7. QED
    BY <2>3, <2>6
<1>2. \A s \in Sources : fs[s] \in OneFile
  BY DEF AllFiles
<1>3. Acs!SetAllNotTimedOut(fs) = all
  BY DEF Acs!SetAllNotTimedOut
<1> HIDE DEF g
<1>4. /\ all \in AllFiles
      /\ \A s \in Sources : /\ all[s]["blessed"] = fs[s]["blessed"]
                            /\ all[s][""] = Acs!None => all[s]["timed_out"] = Acs!None
  BY <1>1, <1>2 DEF AllFiles
<1> HIDE DEF all
<1>5. CASE Acs!Offering(fs) = Acs!None
  <2>1. Acs!Revived(fs) = all
    BY <1>3, <1>5 DEF Acs!Revived
  <2>2. ASSUME Acs!Offering(all) = Acs!None, NEW s \in Sources
        PROVE  all[s][""] = Acs!None /\ all[s]["blessed"] = Acs!None
    <3>1. all[s] \in OneFile
      BY <1>4 DEF AllFiles
    <3>2. Acs!Offered(all[s]) = Acs!None
      BY <2>2, OfferingSays, NoneIsNoSource
    <3>3. QED
      BY <3>1, <3>2, OfferedSays
  <2>3. QED
    BY <1>4, <2>1, <2>2
<1>6. CASE Acs!Offering(fs) # Acs!None
  BY <1>6 DEF Acs!Revived
<1>7. QED
  BY <1>5, <1>6

LEMMA MigratedKeeps ==
  ASSUME Acs!SetAcsAssumption, NEW fs \in AllFiles, legacy \in AllUrls
  PROVE  /\ Acs!Migrated(fs) \in AllFiles
         /\ \A s \in Sources : Acs!Migrated(fs)[s]["blessed"] = fs[s]["blessed"]
<1>1. CASE legacy = Acs!None \/ Acs!Offering(fs) = Acs!None
  BY <1>1 DEF Acs!Migrated
<1>2. CASE ~(legacy = Acs!None \/ Acs!Offering(fs) = Acs!None)
  <2> DEFINE first == Acs!Offering(fs)
             kind == Acs!RedirectKind(fs[first])
             f == fs[first]
             g == Put(f, kind, legacy)
  <2>1. first \in Sources /\ f \in OneFile
    BY <1>2, OfferingSays DEF AllFiles
  <2>2. kind \in Acs!Kinds /\ kind # "blessed"
    BY KindNames DEF Acs!RedirectKind
  <2>3. Acs!Migrated(fs) = [fs EXCEPT ![first] = g]
    BY <1>2 DEF Acs!Migrated, Put
  <2> HIDE DEF first, kind, f
  <2>4. g \in OneFile
    BY <2>1, <2>2, PutUrl
  <2>5. g["blessed"] = f["blessed"]
    BY <2>1, <2>2, KindNames DEF OneFile, Put
  <2> HIDE DEF g
  <2>6. fs[first]["blessed"] = f["blessed"]
    BY DEF f
  <2>7. QED
    BY <2>1, <2>3, <2>4, <2>5, <2>6 DEF AllFiles
<1>3. QED
  BY <1>1, <1>2

\* What set-acs print leaves of the files, and when it has nothing to say.
LEMMA ListedSays ==
  ASSUME Acs!SetAcsAssumption, files \in AllFiles, legacy \in AllUrls, NEW found \in Founds
  PROVE  /\ Acs!Listed(found) \in AllFiles
         /\ \A s \in Sources : Acs!Listed(found)[s]["blessed"] = files[s]["blessed"]
         /\ Acs!Offering(Acs!Listed(found)) = Acs!None =>
              \A s \in Sources :
                /\ Acs!Listed(found)[s][""] = Acs!None /\ Acs!Listed(found)[s]["timed_out"] = Acs!None
                /\ Acs!Listed(found)[s]["blessed"] = Acs!None
<1> DEFINE a == Acs!FoundAcs(files, found)
           b == Acs!Revived(a)
           c == Acs!Migrated(b)
<1>1. a \in AllFiles /\ \A s \in Sources : a[s]["blessed"] = files[s]["blessed"]
  BY FoundKeeps
<1>2. c = Acs!Listed(found)
  BY DEF Acs!Listed
<1> HIDE DEF a
<1>3. /\ b \in AllFiles
      /\ \A s \in Sources : b[s]["blessed"] = a[s]["blessed"]
      /\ Acs!Offering(b) = Acs!None =>
           \A s \in Sources :
             b[s][""] = Acs!None /\ b[s]["timed_out"] = Acs!None /\ b[s]["blessed"] = Acs!None
  BY <1>1, RevivedKeeps
<1> HIDE DEF b
<1>4. c \in AllFiles /\ \A s \in Sources : c[s]["blessed"] = b[s]["blessed"]
  BY <1>3, MigratedKeeps
<1>5. CASE Acs!Offering(b) = Acs!None
  <2>1. c = b
    BY <1>5 DEF Acs!Migrated
  <2>2. QED
    BY <1>1, <1>2, <1>3, <1>5, <2>1
<1>6. CASE Acs!Offering(b) # Acs!None
  <2>1. Acs!Offering(c) # Acs!None
    <3>1. Acs!Offering(b) \in Sources /\ Acs!Offered(b[Acs!Offering(b)]) # Acs!None
      BY <1>6, OfferingSays
    <3>2. PICK s \in Sources : Acs!Offered(b[s]) # Acs!None
      BY <3>1
    <3>3. b[s] \in OneFile /\ c[s] \in OneFile
      BY <1>3, <1>4, <3>2 DEF AllFiles
    <3>4. Acs!Offered(c[s]) # Acs!None
      <4>1. b[s]["blessed"] # Acs!None \/ b[s][""] # Acs!None
        BY <3>2, <3>3, OfferedSays
      <4>2. c[s][""] = b[s][""]
        <5>1. CASE legacy = Acs!None
          BY <5>1 DEF Acs!Migrated
        <5>2. CASE legacy # Acs!None
          <6> DEFINE first == Acs!Offering(b)
                     kind == Acs!RedirectKind(b[first])
          <6>1. kind \in Acs!Kinds /\ kind # ""
            BY KindNames DEF Acs!RedirectKind
          <6>2. c = [b EXCEPT ![first] = [b[first] EXCEPT ![kind] = legacy]]
            BY <1>6, <5>2 DEF Acs!Migrated
          <6>3. first \in Sources /\ b[first] \in OneFile
            BY <1>3, <3>1 DEF AllFiles
          <6> HIDE DEF first, kind, c
          <6>4. [b[first] EXCEPT ![kind] = legacy][""] = b[first][""]
            BY <6>1, <6>3, KindNames DEF OneFile
          <6>5. QED
            BY <1>3, <6>2, <6>3, <6>4 DEF AllFiles
        <5>3. QED
          BY <5>1, <5>2
      <4>3. QED
        BY <1>4, <3>2, <3>3, <4>1, <4>2, OfferedSays
    <3>5. QED
      BY <3>2, <3>4, OfferingSays, NoneIsNoSource
  <2>2. QED
    BY <1>1, <1>2, <1>3, <1>4, <2>1
<1>7. QED
  BY <1>5, <1>6

-----------------------------------------------------------------------------
\* The invariant: the types, and that a process that exited is not asking.
SInv == Acs!TypeOK /\ (died => attempts = 0)

LEMMA Typed ==
  ASSUME Acs!TypeOK
  PROVE  /\ files \in AllFiles /\ legacy \in AllUrls
         /\ using \in AllUrls /\ answer \in AllUrls
BY DEF Acs!TypeOK, AllFiles, OneFile, AllUrls

LEMMA TypedAgain ==
  ASSUME files' \in AllFiles, legacy' \in AllUrls, using' \in AllUrls, answer' \in AllUrls,
         holdOff' \in BOOLEAN, died' \in BOOLEAN, attempts' \in 0..MaxAttempts
  PROVE  Acs!TypeOK'
BY DEF Acs!TypeOK, AllFiles, OneFile, AllUrls

LEMMA StartTyped == Acs!SetAcsAssumption /\ Acs!Init => SInv
<1> SUFFICES ASSUME Acs!SetAcsAssumption, Acs!Init PROVE SInv
  OBVIOUS
<1>1. files \in [Sources -> [Acs!Kinds -> Urls \cup {Default, Acs!None}]]
  BY NothingIsFile DEF Acs!Init, OneFile, AllUrls
<1>2. /\ legacy \in Urls \cup {Default, Acs!None} /\ using \in Urls \cup {Default, Acs!None}
      /\ answer \in Urls \cup {Default, Acs!None}
  BY DEF Acs!Init, Acs!SetAcsAssumption
<1>3. holdOff \in BOOLEAN /\ died \in BOOLEAN
  BY DEF Acs!Init
<1>4. attempts \in 0..MaxAttempts
  BY DEF Acs!Init, Acs!SetAcsAssumption
<1>5. Acs!TypeOK
  BY <1>1, <1>2, <1>3, <1>4 DEF Acs!TypeOK
<1>6. QED
  BY <1>5 DEF SInv, Acs!Init

\* What a step may do to the blessed URL of a source.
Stays(s) ==
  files[s]["blessed"] # Acs!None /\ files'[s]["blessed"] # files[s]["blessed"] =>
    \/ files'[s] = Acs!Nothing
    \/ s = "manual" /\ files'[s]["blessed"] # Acs!None
    \/ /\ files'[s]["blessed"] # Acs!None
       /\ using \in {files'[s]["blessed"], files'[s]["blessed.redir.blessed"]}

Answers ==
  attempts > 0 /\ attempts' = 0 /\ answer = Acs!None /\ answer' = Acs!None
    => \A s \in Sources :
         /\ files'[s][""] = Acs!None /\ files'[s]["timed_out"] = Acs!None
         /\ files'[s]["blessed"] = Acs!None

LEMMA Unasked ==
  ASSUME Acs!SetAcsAssumption, SInv, attempts' = attempts \/ answer # Acs!None \/ ~(attempts > 0)
  PROVE  Answers
<1>1. attempts \in 0..MaxAttempts
  BY DEF SInv, Acs!TypeOK
<1>2. CASE attempts' = attempts
  <2>1. ~(attempts > 0 /\ attempts' = 0)
    BY <1>1, <1>2 DEF Acs!SetAcsAssumption
  <2>2. QED
    BY <2>1 DEF Answers
<1>3. CASE answer # Acs!None \/ ~(attempts > 0)
  BY <1>3 DEF Answers
<1>4. QED
  BY <1>2, <1>3

LEMMA UpdateStep ==
  ASSUME Acs!SetAcsAssumption, SInv, NEW s \in Sources, NEW url \in Urls, Acs!Update(s, url)
  PROVE  SInv' /\ (\A r \in Sources : Stays(r)) /\ Answers
<1> DEFINE g == Acs!UpdateFile(s, files[s], url)
<1>1. files \in AllFiles /\ url \in AllUrls /\ url # Acs!None
  BY Typed DEF SInv, Acs!SetAcsAssumption, AllUrls
<1>2. files[s] \in OneFile
  BY <1>1 DEF AllFiles
<1>3. g \in OneFile /\ g["blessed"] = IF s = "manual" THEN url ELSE files[s]["blessed"]
  BY <1>1, <1>2, UpdateKeeps
<1>4. files' = [files EXCEPT ![s] = g]
  BY DEF Acs!Update, Acs!Command
<1>5. UNCHANGED <<holdOff, legacy, using, attempts, died, answer>>
  BY DEF Acs!Update, Acs!cwmpd
<1> HIDE DEF g
<1>6. files' \in AllFiles /\ \A r \in Sources : files'[r] = IF r = s THEN g ELSE files[r]
  BY <1>1, <1>3, <1>4 DEF AllFiles
<1>7. SInv'
  BY <1>5, <1>6, Typed, TypedAgain DEF SInv, Acs!TypeOK
<1>8. \A r \in Sources : Stays(r)
  BY <1>1, <1>3, <1>6 DEF Stays
<1>9. Answers
  BY <1>5, Unasked
<1>10. QED
  BY <1>7, <1>8, <1>9

LEMMA ClearStep ==
  ASSUME Acs!SetAcsAssumption, SInv, NEW s \in Sources, Acs!Clear(s)
  PROVE  SInv' /\ (\A r \in Sources : Stays(r)) /\ Answers
<1>1. files \in AllFiles
  BY Typed DEF SInv
<1>2. files' = [files EXCEPT ![s] = Acs!Nothing]
  BY DEF Acs!Clear, Acs!Command
<1>3. UNCHANGED <<holdOff, legacy, using, attempts, died, answer>>
  BY DEF Acs!Clear, Acs!cwmpd
<1>4. files' \in AllFiles /\ \A r \in Sources : files'[r] = IF r = s THEN Acs!Nothing ELSE files[r]
  BY <1>1, <1>2, NothingIsFile DEF AllFiles
<1>5. SInv'
  BY <1>3, <1>4, Typed, TypedAgain DEF SInv, Acs!TypeOK
<1>6. \A r \in Sources : Stays(r)
  BY <1>4 DEF Stays
<1>7. Answers
  BY <1>3, Unasked
<1>8. QED
  BY <1>5, <1>6, <1>7

\* set-acs timeout, of the URL in use or of one that is not permitted.
LEMMA TimedOutStays ==
  ASSUME SInv, NEW url \in AllUrls, NEW s,
         s = Acs!SourceOf(files, url),
         files' = IF s = Acs!None THEN files ELSE [files EXCEPT ![s] = Acs!SetTimedOut(files[s], url)]
  PROVE  files' \in AllFiles /\ \A r \in Sources : Stays(r)
<1> DEFINE g == Acs!SetTimedOut(files[s], url)
<1>1. files \in AllFiles
  BY Typed DEF SInv
<1>2. CASE s = Acs!None \/ s \notin Sources
  <2>1. files' = files
    BY <1>1, <1>2 DEF AllFiles
  <2>2. QED
    BY <1>1, <2>1 DEF Stays
<1>3. CASE s # Acs!None /\ s \in Sources
  <2>1. files[s] \in OneFile
    BY <1>1, <1>3 DEF AllFiles
  <2>2. g \in OneFile /\ g["blessed"] = files[s]["blessed"]
    BY <2>1, TimedOutKeeps DEF Keeps
  <2>3. files' = [files EXCEPT ![s] = g]
    BY <1>3
  <2> HIDE DEF g
  <2>4. files' \in AllFiles /\ \A r \in Sources : files'[r] = IF r = s THEN g ELSE files[r]
    BY <1>1, <1>3, <2>2, <2>3 DEF AllFiles
  <2>5. QED
    BY <2>2, <2>4 DEF Stays
<1>4. QED
  BY <1>2, <1>3

LEMMA TimeoutStep ==
  ASSUME Acs!SetAcsAssumption, SInv, Acs!Timeout
  PROVE  SInv' /\ (\A r \in Sources : Stays(r)) /\ Answers
<1>1. using \in AllUrls
  BY Typed DEF SInv
<1>2. PICK s : /\ s = Acs!SourceOf(files, using)
               /\ files' = IF s = Acs!None THEN files
                           ELSE [files EXCEPT ![s] = Acs!SetTimedOut(files[s], using)]
  BY DEF Acs!Timeout, Acs!Command
<1>3. files' \in AllFiles /\ \A r \in Sources : Stays(r)
  BY <1>1, <1>2, TimedOutStays
<1>4. UNCHANGED <<holdOff, legacy, using, attempts, died, answer>>
  BY DEF Acs!Timeout, Acs!cwmpd
<1>5. SInv'
  BY <1>3, <1>4, Typed, TypedAgain DEF SInv, Acs!TypeOK
<1>6. Answers
  BY <1>4, Unasked
<1>7. QED
  BY <1>3, <1>5, <1>6

LEMMA InvalidateStep ==
  ASSUME Acs!SetAcsAssumption, SInv, Acs!InvalidateAcsUrl
  PROVE  SInv' /\ (\A r \in Sources : Stays(r)) /\ Answers
<1>1. answer \in AllUrls
  BY Typed DEF SInv
<1>2. PICK s : /\ s = Acs!SourceOf(files, answer)
               /\ files' = IF s = Acs!None THEN files
                           ELSE [files EXCEPT ![s] = Acs!SetTimedOut(files[s], answer)]
               /\ died' = (s = Acs!None)
               /\ attempts' = IF s = Acs!None THEN 0 ELSE attempts - 1
  BY DEF Acs!InvalidateAcsUrl, Acs!Command
<1>3. files' \in AllFiles /\ \A r \in Sources : Stays(r)
  BY <1>1, <1>2, TimedOutStays
<1>4. UNCHANGED <<holdOff, legacy, using>> /\ answer' = Acs!None /\ attempts > 0 /\ answer # Acs!None
  BY DEF Acs!InvalidateAcsUrl
<1>5. attempts' \in 0..MaxAttempts
  <2>1. attempts \in 0..MaxAttempts
    BY DEF SInv, Acs!TypeOK
  <2>2. QED
    BY <1>2, <1>4, <2>1 DEF Acs!SetAcsAssumption
<1>6. died' \in BOOLEAN /\ (died' => attempts' = 0)
  BY <1>2
<1>7. holdOff' \in BOOLEAN
  BY <1>4 DEF SInv, Acs!TypeOK
<1>8. legacy' \in AllUrls /\ using' \in AllUrls /\ answer' \in AllUrls
  BY <1>4, Typed DEF SInv, AllUrls
<1>9. SInv'
  BY <1>3, <1>5, <1>6, <1>7, <1>8, TypedAgain DEF SInv
<1>10. Answers
  BY <1>4, Unasked
<1>11. QED
  BY <1>3, <1>9, <1>10

LEMMA SuccessStep ==
  ASSUME Acs!SetAcsAssumption, SInv, Acs!AcsAccessSuccess
  PROVE  SInv' /\ (\A r \in Sources : Stays(r)) /\ Answers
<1>1. files \in AllFiles /\ using \in AllUrls /\ using # Acs!None
  BY Typed DEF SInv, Acs!AcsAccessSuccess
<1>2. PICK s : /\ s = Acs!SourceOf(files, using)
               /\ files' = IF s = Acs!None THEN files
                           ELSE [files EXCEPT ![s] = Acs!BlessFile(files[s], using)]
               /\ died' = (s = Acs!None)
  BY DEF Acs!AcsAccessSuccess, Acs!Command
<1>3. files' \in AllFiles /\ \A r \in Sources : Stays(r)
  <2> DEFINE g == Acs!BlessFile(files[s], using)
  <2>1. CASE s = Acs!None \/ s \notin Sources
    <3>1. files' = files
      BY <1>1, <1>2, <2>1 DEF AllFiles
    <3>2. QED
      BY <1>1, <3>1 DEF Stays
  <2>2. CASE s # Acs!None /\ s \in Sources
    <3>1. files[s] \in OneFile
      BY <1>1, <2>2 DEF AllFiles
    <3>2. /\ g \in OneFile
          /\ files[s]["blessed"] # Acs!None /\ g["blessed"] # files[s]["blessed"]
               => g["blessed"] # Acs!None /\ using \in {g["blessed"], g["blessed.redir.blessed"]}
      BY <1>1, <3>1, BlessSays
    <3>3. files' = [files EXCEPT ![s] = g]
      BY <1>2, <2>2
    <3> HIDE DEF g
    <3>4. files' \in AllFiles /\ \A r \in Sources : files'[r] = IF r = s THEN g ELSE files[r]
      BY <1>1, <2>2, <3>2, <3>3 DEF AllFiles
    <3>5. QED
      BY <3>2, <3>4 DEF Stays
  <2>3. QED
    BY <2>1, <2>2
<1>4. UNCHANGED <<holdOff, legacy, attempts, answer>> /\ using' = Acs!None /\ attempts = 0
  BY DEF Acs!AcsAccessSuccess
<1>5. died' \in BOOLEAN /\ (died' => attempts' = 0)
  BY <1>2, <1>4
<1>6. using' \in AllUrls
  BY <1>4 DEF AllUrls
<1>7. SInv'
  BY <1>3, <1>4, <1>5, <1>6, Typed, TypedAgain DEF SInv, Acs!TypeOK
<1>8. Answers
  BY <1>4, Unasked
<1>9. QED
  BY <1>3, <1>7, <1>8

LEMMA ListingTyped ==
  ASSUME SInv, NEW found, Acs!Listing(found)
  PROVE  holdOff' \in BOOLEAN /\ legacy' \in AllUrls
<1>1. holdOff' = (holdOff \/ Acs!AsksFindAcs(files)) /\ legacy' \in {legacy, Acs!None}
  BY DEF Acs!Listing
<1>2. holdOff' \in BOOLEAN
  BY <1>1
<1>3. legacy' \in AllUrls
  BY <1>1, Typed DEF SInv, AllUrls
<1>4. QED
  BY <1>2, <1>3

LEMMA GetStep ==
  ASSUME Acs!SetAcsAssumption, SInv, NEW found \in Founds, Acs!GetAcsUrl(found)
  PROVE  SInv' /\ (\A r \in Sources : Stays(r)) /\ Answers
<1> DEFINE new == Acs!Listed(found)
           url == IF Acs!Offering(new) = Acs!None THEN Acs!None ELSE Acs!Offered(new[Acs!Offering(new)])
<1>1. files \in AllFiles /\ legacy \in AllUrls /\ using \in AllUrls
  BY Typed DEF SInv
<1>2. /\ files' = new /\ answer' = url /\ died' = died /\ attempts > 0
      /\ \/ using' = url /\ attempts' = 0
         \/ using' = using /\ attempts' = attempts
      /\ Acs!Listing(found)
  BY DEF Acs!GetAcsUrl, Acs!Command
<1>3. /\ new \in AllFiles
      /\ \A s \in Sources : new[s]["blessed"] = files[s]["blessed"]
      /\ Acs!Offering(new) = Acs!None =>
           \A s \in Sources :
             new[s][""] = Acs!None /\ new[s]["timed_out"] = Acs!None /\ new[s]["blessed"] = Acs!None
  BY <1>1, ListedSays
<1> HIDE DEF new
<1>4. url \in AllUrls /\ (url = Acs!None => Acs!Offering(new) = Acs!None)
  <2>1. CASE Acs!Offering(new) = Acs!None
    BY <2>1 DEF AllUrls
  <2>2. CASE Acs!Offering(new) # Acs!None
    <3>1. Acs!Offering(new) \in Sources /\ Acs!Offered(new[Acs!Offering(new)]) # Acs!None
      BY <2>2, OfferingSays
    <3>2. new[Acs!Offering(new)] \in OneFile
      BY <1>3, <3>1 DEF AllFiles
    <3>3. Acs!Offered(new[Acs!Offering(new)]) \in AllUrls
      BY <3>2, OfferedSays
    <3>4. QED
      BY <2>2, <3>1, <3>3
  <2>3. QED
    BY <2>1, <2>2
<1> HIDE DEF url
<1>5. \A r \in Sources : Stays(r)
  BY <1>2, <1>3 DEF Stays
<1>6. Answers
  BY <1>2, <1>3, <1>4 DEF Answers
<1>7. SInv'
  <2>1. holdOff' \in BOOLEAN /\ legacy' \in AllUrls
    BY <1>2, ListingTyped
  <2>2. attempts \in 0..MaxAttempts
    BY DEF SInv, Acs!TypeOK
  <2>3. attempts' \in 0..MaxAttempts
    BY <1>2, <2>2 DEF Acs!SetAcsAssumption
  <2>4. died' \in BOOLEAN /\ ~died'
    <3>1. ~died
      BY <1>2, <2>2 DEF SInv
    <3>2. died \in BOOLEAN
      BY DEF SInv, Acs!TypeOK
    <3>3. QED
      BY <1>2, <3>1, <3>2
  <2>5. files' \in AllFiles /\ using' \in AllUrls /\ answer' \in AllUrls
    BY <1>1, <1>2, <1>3, <1>4
  <2>6. QED
    BY <2>1, <2>3, <2>4, <2>5, TypedAgain DEF SInv
<1>8. QED
  BY <1>5, <1>6, <1>7

LEMMA SetStep ==
  ASSUME Acs!SetAcsAssumption, SInv, NEW found \in Founds, NEW url \in Urls \cup {Acs!None},
         Acs!SetAcsUrl(url, found)
  PROVE  SInv' /\ (\A r \in Sources : Stays(r)) /\ Answers
<1> DEFINE new == Acs!Listed(found)
           s == Acs!Offering(new)
           f == new[s]
           g == IF url # Acs!None THEN [f EXCEPT ![Acs!RedirectKind(f)] = url]
                ELSE IF f[""] # Acs!None THEN [f EXCEPT !["redir"] = Acs!None]
                ELSE [f EXCEPT !["blessed.redir"] = Acs!None, !["blessed.redir.blessed"] = Acs!None]
<1>1. files \in AllFiles /\ legacy \in AllUrls /\ url \in AllUrls /\ Acs!None \in AllUrls
  BY Typed DEF SInv, AllUrls
<1>2. /\ files' = IF s = Acs!None THEN new ELSE [new EXCEPT ![s] = g]
      /\ Acs!Listing(found)
      /\ UNCHANGED <<using, attempts, died, answer>>
  BY DEF Acs!SetAcsUrl, Acs!Command
<1>3. new \in AllFiles /\ \A r \in Sources : new[r]["blessed"] = files[r]["blessed"]
  BY <1>1, ListedSays
<1>4. s = Acs!None \/ s \in Sources
  BY OfferingSays
<1> HIDE DEF new, s
<1>5. files' \in AllFiles /\ \A r \in Sources : files'[r]["blessed"] = files[r]["blessed"]
  <2>1. CASE s = Acs!None
    BY <1>2, <1>3, <2>1
  <2>2. CASE s # Acs!None
    <3>1. s \in Sources /\ f \in OneFile
      BY <1>3, <1>4, <2>2 DEF AllFiles
    <3>2. Acs!RedirectKind(f) \in Acs!Kinds /\ Acs!RedirectKind(f) # "blessed"
      BY KindNames DEF Acs!RedirectKind
    <3> HIDE DEF f
    <3>3. g \in OneFile
      <4>1. [f EXCEPT !["blessed.redir"] = Acs!None, !["blessed.redir.blessed"] = Acs!None]
              = Put(Put(f, "blessed.redir", Acs!None), "blessed.redir.blessed", Acs!None)
        BY <3>1 DEF OneFile, Put
      <4>2. /\ [f EXCEPT !["redir"] = Acs!None] = Put(f, "redir", Acs!None)
            /\ [f EXCEPT ![Acs!RedirectKind(f)] = url] = Put(f, Acs!RedirectKind(f), url)
        BY DEF Put
      <4>3. /\ Put(Put(f, "blessed.redir", Acs!None), "blessed.redir.blessed", Acs!None) \in OneFile
            /\ Put(f, "redir", Acs!None) \in OneFile /\ Put(f, Acs!RedirectKind(f), url) \in OneFile
        BY <1>1, <3>1, <3>2, PutUrl, KindNames
      <4>4. QED
        BY <4>1, <4>2, <4>3
    <3>4. g["blessed"] = f["blessed"]
      BY <3>1, <3>2, KindNames DEF OneFile
    <3> HIDE DEF g
    <3>5. f["blessed"] = files[s]["blessed"]
      BY <1>3, <3>1 DEF f
    <3>6. files' = [new EXCEPT ![s] = g]
      BY <1>2, <2>2
    <3>7. QED
      BY <1>3, <3>1, <3>3, <3>4, <3>5, <3>6 DEF AllFiles
  <2>3. QED
    BY <2>1, <2>2
<1>6. \A r \in Sources : Stays(r)
  BY <1>5 DEF Stays
<1>7. holdOff' \in BOOLEAN /\ legacy' \in AllUrls
  BY <1>2, ListingTyped
<1>8. SInv'
  BY <1>2, <1>5, <1>7, Typed, TypedAgain DEF SInv, Acs!TypeOK
<1>9. Answers
  BY <1>2, Unasked
<1>10. QED
  BY <1>6, <1>8, <1>9

\* The steps that leave the files alone.
LEMMA SmallSteps ==
  ASSUME Acs!SetAcsAssumption, SInv, Acs!Bounce \/ Acs!AskUrl \/ Acs!SessionFailed \/ Acs!Restart \/ UNCHANGED Acs!vars
  PROVE  SInv' /\ (\A r \in Sources : Stays(r)) /\ Answers
<1>1. files' = files /\ legacy' = legacy
  BY DEF Acs!Bounce, Acs!AskUrl, Acs!SessionFailed, Acs!Restart, Acs!vars, Acs!configuration, Acs!cwmpd
<1>2. using' \in {using, Acs!None} /\ answer' \in {answer, Acs!None}
  BY DEF Acs!Bounce, Acs!AskUrl, Acs!SessionFailed, Acs!Restart, Acs!vars, Acs!configuration, Acs!cwmpd
<1>3. holdOff' \in {holdOff, FALSE} /\ died' \in {died, FALSE}
  BY DEF Acs!Bounce, Acs!AskUrl, Acs!SessionFailed, Acs!Restart, Acs!vars, Acs!configuration, Acs!cwmpd
<1>4. \/ attempts' = attempts /\ died' = died
      \/ attempts' = MaxAttempts /\ ~died /\ died' = died /\ attempts = 0
      \/ attempts' = 0 /\ died /\ died' = FALSE
  BY DEF Acs!Bounce, Acs!AskUrl, Acs!SessionFailed, Acs!Restart, Acs!vars, Acs!configuration, Acs!cwmpd
<1>5. \A r \in Sources : Stays(r)
  BY <1>1 DEF Stays
<1>6. attempts \in 0..MaxAttempts /\ (died => attempts = 0)
  BY DEF SInv, Acs!TypeOK
<1>7. attempts' \in 0..MaxAttempts
  BY <1>4, <1>6 DEF Acs!SetAcsAssumption
<1>8. died' => attempts' = 0
  BY <1>4, <1>6
<1>9. holdOff' \in BOOLEAN /\ died' \in BOOLEAN
  BY <1>3 DEF SInv, Acs!TypeOK
<1>10. /\ files' \in AllFiles /\ legacy' \in AllUrls
       /\ using' \in AllUrls /\ answer' \in AllUrls
  BY <1>1, <1>2, Typed DEF SInv, AllUrls
<1>11. SInv'
  BY <1>7, <1>8, <1>9, <1>10, TypedAgain DEF SInv
<1>12. attempts' = attempts \/ ~(attempts > 0)
  BY <1>4, <1>6
<1>13. Answers
  BY <1>12, Unasked
<1>14. QED
  BY <1>5, <1>11, <1>13

LEMMA EveryStep ==
  Acs!SetAcsAssumption /\ SInv /\ [Acs!Next]_Acs!vars => SInv' /\ (\A r \in Sources : Stays(r)) /\ Answers
<1> SUFFICES ASSUME Acs!SetAcsAssumption, SInv, [Acs!Next]_Acs!vars
             PROVE  SInv' /\ (\A r \in Sources : Stays(r)) /\ Answers
  OBVIOUS
<1>1. CASE \E s \in Sources : Acs!Clear(s) \/ \E url \in Urls : Acs!Update(s, url)
  BY <1>1, ClearStep, UpdateStep
<1>2. CASE Acs!Timeout
  BY <1>2, TimeoutStep
<1>3. CASE Acs!InvalidateAcsUrl
  BY <1>3, InvalidateStep
<1>4. CASE Acs!AcsAccessSuccess
  BY <1>4, SuccessStep
<1>5. CASE \E found \in Founds :
             Acs!GetAcsUrl(found) \/ \E url \in Urls \cup {Acs!None} : Acs!SetAcsUrl(url, found)
  BY <1>5, GetStep, SetStep
<1>6. CASE Acs!Bounce \/ Acs!AskUrl \/ Acs!SessionFailed \/ Acs!Restart \/ UNCHANGED Acs!vars
  BY <1>6, SmallSteps
<1>7. QED
  BY <1>1, <1>2, <1>3, <1>4, <1>5, <1>6 DEF Acs!Next, Founds

\* A blessed URL is never timed out and never forgotten, whatever the DHCP
\* clients, the watchdog, the ACS and the sessions do and in what order:
\* BlessedStays, for any sources and URLs.
THEOREM BlessedIsKept == ASSUME Acs!SetAcsAssumption PROVE Acs!Spec => Acs!BlessedStays
<1>1. Acs!Init => SInv
  BY StartTyped
<1>2. SInv /\ [Acs!Next]_Acs!vars => SInv'
  BY EveryStep
<1>3. SInv /\ [Acs!Next]_Acs!vars =>
        [\A s \in Sources :
           LET old == files[s]["blessed"] new == files'[s]["blessed"] IN
           old # Acs!None /\ new # old =>
             \/ files'[s] = Acs!Nothing
             \/ s = "manual" /\ new # Acs!None
             \/ new # Acs!None /\ using \in {new, files'[s]["blessed.redir.blessed"]}]_Acs!vars
  BY EveryStep DEF Stays
<1>4. QED
  BY <1>1, <1>2, <1>3, PTL DEF Acs!Spec, Acs!BlessedStays

\* set-acs print has no answer only when no source knows an URL, not even one
\* that timed out: AnswersWhileAnyKnown, for any sources and URLs.
THEOREM NoAnswerNoUrl == ASSUME Acs!SetAcsAssumption PROVE Acs!Spec => Acs!AnswersWhileAnyKnown
<1>1. Acs!Init => SInv
  BY StartTyped
<1>2. SInv /\ [Acs!Next]_Acs!vars => SInv'
  BY EveryStep
<1>3. SInv /\ [Acs!Next]_Acs!vars =>
        [attempts > 0 /\ attempts' = 0 /\ answer = Acs!None /\ answer' = Acs!None
           => \A s \in Sources : \A k \in {"", "timed_out", "blessed"} : files'[s][k] = Acs!None]_Acs!vars
  <2>1. Answers => (attempts > 0 /\ attempts' = 0 /\ answer = Acs!None /\ answer' = Acs!None
           => \A s \in Sources : \A k \in {"", "timed_out", "blessed"} : files'[s][k] = Acs!None)
    BY DEF Answers
  <2>2. QED
    BY <2>1, EveryStep
<1>4. QED
  BY <1>1, <1>2, <1>3, PTL DEF Acs!Spec, Acs!AnswersWhileAnyKnown

\* The types of set-acs.
THEOREM AcsTyped == ASSUME Acs!SetAcsAssumption PROVE Acs!Spec => []Acs!TypeOK
<1>1. Acs!Init => SInv
  BY StartTyped
<1>2. SInv /\ [Acs!Next]_Acs!vars => SInv'
  BY EveryStep
<1>3. SInv => Acs!TypeOK
  BY DEF SInv
<1>4. QED
  BY <1>1, <1>2, <1>3, PTL DEF Acs!Spec


\* The instance counts like FiniteSets.
LEMMA SocketSizes == \A S : Socket!Cardinality(S) = Cardinality(S)
BY DEF Socket!Cardinality, Cardinality


-----------------------------------------------------------------------------
(* The command socket *)

Endings == {"no", "raised", "EOFError"}
Blocks == [value : 1..2, cached : 0..2, out : Seq(1..2), ended : Endings]

\* One command of a block.
LEMMA RunSays ==
  ASSUME NEW x \in Blocks, NEW command \in Socket!Commands
  PROVE  Socket!Run(x, command) \in Blocks
<1> DEFINE got == IF x.cached = 0 THEN x.value ELSE x.cached
<1>1. got \in 1..2 /\ got \in 0..2 /\ Append(x.out, got) \in Seq(1..2)
  BY SocketSizes DEF Blocks
<1>2. [[x EXCEPT !.cached = got] EXCEPT !.out = Append(@, got)] \in Blocks
  BY <1>1 DEF Blocks
<1>3. [x EXCEPT !.value = 1] \in Blocks /\ [x EXCEPT !.ended = "raised"] \in Blocks
      /\ [x EXCEPT !.ended = "EOFError"] \in Blocks
  <2>1. 1 \in 1..2 /\ "raised" \in Endings /\ "EOFError" \in Endings
    BY DEF Endings
  <2>2. QED
    BY <2>1 DEF Blocks
<1>4. CASE x.ended # "no"
  BY <1>4 DEF Socket!Run
<1>5. CASE x.ended = "no"
  <2>1. CASE command = "get"
    BY <1>2, <1>5, <2>1 DEF Socket!Run
  <2>2. CASE command = "set"
    BY <1>3, <1>5, <2>2 DEF Socket!Run
  <2>3. CASE command \notin {"get", "set"}
    BY <1>3, <1>5, <2>3 DEF Socket!Run
  <2>4. QED
    BY <2>1, <2>2, <2>3
<1>6. QED
  BY <1>4, <1>5

\* The commands of a block, one after the other.
LEMMA RanSays ==
  ASSUME NEW asked \in Seq(Socket!Commands), value \in 1..2, socket_cached \in 0..2
  PROVE  Socket!Ran(asked) \in Blocks
<1> DEFINE N == Len(asked)
           start == [value |-> value, cached |-> socket_cached, out |-> <<>>,
                     ended |-> IF asked = <<>> THEN "raised" ELSE "no"]
           A == [n \in 0..N |-> Blocks]
           move == [n \in 1..N |-> [y \in Blocks |-> Socket!Run(y, asked[n])]]
           Is(f) == f = [n \in 0..N |-> IF n = 0 THEN start ELSE Socket!Run(f[n - 1], asked[n])]
           ran == CHOOSE f : Is(f)
<1>1. N \in Nat /\ \A n \in 1..N : asked[n] \in Socket!Commands
  OBVIOUS
<1>2. start \in Blocks
  <2>1. <<>> \in Seq(1..2) /\ (IF asked = <<>> THEN "raised" ELSE "no") \in Endings
    BY DEF Endings
  <2>2. QED
    BY <2>1 DEF Blocks
<1>3. \A n \in 1..N : A[n - 1] = Blocks /\ A[n] = Blocks
  BY <1>1
<1>4. start \in A[0] /\ N \in 0..N /\ A[N] = Blocks
  <2>1. 0 \in 0..N /\ N \in 0..N
    BY <1>1
  <2>2. A[0] = Blocks /\ A[N] = Blocks
    BY <2>1
  <2> HIDE DEF A, start, N
  <2>3. QED
    BY <1>2, <2>1, <2>2
<1>5. \A n \in 1..N : \A y \in Blocks :
        move[n][y] = Socket!Run(y, asked[n]) /\ move[n][y] \in Blocks
  BY <1>1, RunSays
<1>6. Socket!Ran(asked) = ran[N]
  BY SocketSizes DEF Socket!Ran
<1> HIDE DEF A, move, start, N, ran
<1>7. PICK f : Iterates(N, start, move, f) /\ \A n \in 0..N : f[n] \in A[n]
  BY <1>1, <1>3, <1>4, <1>5, Recursion
<1>8. Is(f)
  <2>1. \A n \in 0..N : n # 0 => n \in 1..N /\ n - 1 \in 0..N
    BY <1>1
  <2>2. \A n \in 0..N : n # 0 => move[n][f[n - 1]] = Socket!Run(f[n - 1], asked[n])
    BY <1>3, <1>5, <1>7, <2>1
  <2>3. f = [n \in 0..N |-> IF n = 0 THEN start ELSE move[n][f[n - 1]]]
    BY <1>7 DEF Iterates
  <2>4. QED
    BY <2>2, <2>3
<1>9. Is(ran)
  <2> HIDE DEF Is
  <2>1. QED
    BY <1>8 DEF ran
<1>10. ran[0] = start /\ \A n \in 1..N : ran[n] = Socket!Run(ran[n - 1], asked[n])
  BY <1>1, <1>9
<1>11. \A n \in 1..N : ran[n - 1] \in A[n - 1] => ran[n] \in A[n]
  <2>1. ASSUME NEW n \in 1..N, ran[n - 1] \in A[n - 1] PROVE ran[n] \in A[n]
    <3>1. ran[n - 1] \in Blocks
      BY <1>3, <2>1
    <3>2. move[n][ran[n - 1]] = Socket!Run(ran[n - 1], asked[n])
          /\ move[n][ran[n - 1]] \in Blocks
      BY <1>5, <3>1
    <3>3. QED
      BY <1>3, <1>10, <3>2
  <2>2. QED
    BY <2>1
<1>12. \A n \in 0..N : ran[n] \in A[n]
  BY <1>1, <1>4, <1>10, <1>11, Along
<1>13. QED
  BY <1>4, <1>6, <1>12

\* The quotes among the first n lines, and the lines that end a block, when one more
\* is read.
LEMMA QuotesSay ==
  ASSUME NEW s \in Seq(Socket!Lines), NEW n \in 0..Len(s)
  PROVE  IsFiniteSet({i \in 1..n : s[i] = "quote"}) /\ Socket!Quotes(s, n) \in Nat
<1>1. {i \in 1..n : s[i] = "quote"} \in SUBSET (1..n) /\ IsFiniteSet(1..n)
  BY FS_Interval
<1>2. IsFiniteSet({i \in 1..n : s[i] = "quote"})
  BY <1>1, FS_Subset
<1>3. QED
  BY <1>2, FS_CardinalityType, SocketSizes DEF Socket!Quotes

LEMMA QuotesOfMore ==
  ASSUME NEW s \in Seq(Socket!Lines), NEW line \in Socket!Lines
  PROVE  /\ \A n \in 0..Len(s) : Socket!Quotes(Append(s, line), n) = Socket!Quotes(s, n)
         /\ Socket!Quotes(Append(s, line), Len(s) + 1) =
              Socket!Quotes(s, Len(s)) + IF line = "quote" THEN 1 ELSE 0
<1> DEFINE t == Append(s, line)
           N == Len(s)
<1>1. N \in Nat /\ (\A i \in 1..N : t[i] = s[i]) /\ t[N + 1] = line
  OBVIOUS
<1> HIDE DEF t, N
<1>2. ASSUME NEW n \in 0..N PROVE Socket!Quotes(t, n) = Socket!Quotes(s, n)
  <2>1. \A i \in 1..n : t[i] = s[i]
    BY <1>1
  <2>2. {i \in 1..n : t[i] = "quote"} = {i \in 1..n : s[i] = "quote"}
    BY <2>1
  <2>3. QED
    BY <2>2 DEF Socket!Quotes
<1>3. Socket!Quotes(t, N + 1) = Socket!Quotes(s, N) + IF line = "quote" THEN 1 ELSE 0
  <2> DEFINE Q == {i \in 1..N : s[i] = "quote"}
             R == {i \in 1..(N + 1) : t[i] = "quote"}
  <2>1. IsFiniteSet(Q) /\ N + 1 \notin Q /\ Cardinality(Q) = Socket!Quotes(s, N) /\ Socket!Quotes(s, N) \in Nat
    BY <1>1, QuotesSay, SocketSizes DEF Socket!Quotes, N
  <2>2. R = IF line = "quote" THEN Q \cup {N + 1} ELSE Q
    <3>1. \A i \in 1..(N + 1) : i \in 1..N \/ i = N + 1
      BY <1>1
    <3>2. \A i \in 1..N : i \in 1..(N + 1)
      BY <1>1
    <3>3. N + 1 \in 1..(N + 1)
      BY <1>1
    <3>4. QED
      BY <1>1, <3>1, <3>2, <3>3
  <2>3. Socket!Quotes(t, N + 1) = Cardinality(R)
    BY SocketSizes DEF Socket!Quotes
  <2> HIDE DEF Q, R
  <2>4. Cardinality(Q \cup {N + 1}) = Cardinality(Q) + 1
    BY <2>1, FS_AddElement
  <2>5. QED
    BY <2>1, <2>2, <2>3, <2>4
<1>4. QED
  BY <1>2, <1>3 DEF t, N

LEMMA EndsSay ==
  ASSUME NEW s \in Seq(Socket!Lines)
  PROVE  IsFiniteSet(Socket!Ends(s)) /\ Cardinality(Socket!Ends(s)) \in Nat
<1>1. Socket!Ends(s) \in SUBSET (1..Len(s)) /\ IsFiniteSet(1..Len(s))
  <2>1. \A n \in Socket!Ends(s) : n \in DOMAIN s
    BY Zenon DEF Socket!Ends
  <2>2. DOMAIN s = 1..Len(s) /\ Len(s) \in Nat
    OBVIOUS
  <2>3. QED
    BY <2>1, <2>2, FS_Interval
<1>2. QED
  BY <1>1, FS_Subset, FS_CardinalityType

LEMMA EndsOfMore ==
  ASSUME NEW s \in Seq(Socket!Lines), NEW line \in Socket!Lines
  PROVE  Cardinality(Socket!Ends(Append(s, line))) =
           Cardinality(Socket!Ends(s)) + IF line = "blank" /\ Socket!Quotes(s, Len(s)) % 2 = 0 THEN 1 ELSE 0
<1> DEFINE t == Append(s, line)
           N == Len(s)
           ends == line = "blank" /\ Socket!Quotes(s, N) % 2 = 0
<1>1. /\ N \in Nat /\ DOMAIN s = 1..N /\ DOMAIN t = 1..(N + 1) /\ N \in 0..N
      /\ (\A i \in 1..N : t[i] = s[i]) /\ t[N + 1] = line
  OBVIOUS
<1>2. \A n \in 0..N : Socket!Quotes(t, n) = Socket!Quotes(s, n)
  BY QuotesOfMore
<1>3. Socket!Quotes(t, N + 1) = Socket!Quotes(s, N) + IF line = "quote" THEN 1 ELSE 0
  BY QuotesOfMore
<1>4. Socket!Quotes(s, N) \in Nat
  BY <1>1, QuotesSay
<1> HIDE DEF t, N
<1>5. Socket!Ends(t) = IF ends THEN Socket!Ends(s) \cup {N + 1} ELSE Socket!Ends(s)
  <2>1. \A i \in 1..(N + 1) : i \in 1..N \/ i = N + 1
    BY <1>1
  <2>2. \A i \in 1..N : i \in 1..(N + 1) /\ i \in 0..N
    BY <1>1
  <2>3. N + 1 \in 1..(N + 1) /\ N + 1 \notin 1..N
    BY <1>1
  <2>4. \A i \in 1..N : i \in Socket!Ends(t) <=> i \in Socket!Ends(s)
    BY <1>1, <1>2, <2>2 DEF Socket!Ends
  <2>5. N + 1 \in Socket!Ends(t) <=> ends
    <3>1. N + 1 \in Socket!Ends(t) <=> t[N + 1] = "blank" /\ Socket!Quotes(t, N + 1) % 2 = 0
      BY <1>1, <2>3 DEF Socket!Ends
    <3>2. CASE line = "blank"
      <4>1. Socket!Quotes(t, N + 1) = Socket!Quotes(s, N)
        <5>1. (IF line = "quote" THEN 1 ELSE 0) = 0
          BY <3>2
        <5>2. QED
          BY <1>3, <1>4, <5>1
      <4>2. QED
        BY <1>1, <3>1, <3>2, <4>1
    <3>3. QED
      BY <1>1, <3>1, <3>2
  <2>6. Socket!Ends(t) \subseteq 1..(N + 1) /\ Socket!Ends(s) \subseteq 1..N
    BY <1>1 DEF Socket!Ends
  <2> HIDE DEF ends
  <2>7. CASE ends
    <3>1. \A i \in Socket!Ends(t) : i \in Socket!Ends(s) \cup {N + 1}
      BY <2>1, <2>4, <2>6
    <3>2. \A i \in Socket!Ends(s) : i \in Socket!Ends(t)
      BY <2>4, <2>6
    <3>3. QED
      BY <2>5, <2>7, <3>1, <3>2
  <2>8. CASE ~ends
    <3>1. \A i \in Socket!Ends(t) : i \in Socket!Ends(s)
      BY <2>1, <2>4, <2>5, <2>6, <2>8
    <3>2. \A i \in Socket!Ends(s) : i \in Socket!Ends(t)
      BY <2>4, <2>6
    <3>3. QED
      BY <2>8, <3>1, <3>2
  <2>9. QED
    BY <2>7, <2>8
<1>6. IsFiniteSet(Socket!Ends(s)) /\ Cardinality(Socket!Ends(s)) \in Nat /\ N + 1 \notin Socket!Ends(s)
  <2>1. N + 1 \notin DOMAIN s
    BY <1>1
  <2>2. N + 1 \notin Socket!Ends(s)
    BY Zenon, <2>1 DEF Socket!Ends
  <2>3. QED
    BY <2>2, EndsSay
<1>7. Cardinality(Socket!Ends(s) \cup {N + 1}) = Cardinality(Socket!Ends(s)) + 1
  BY <1>6, FS_AddElement
<1>8. Cardinality(Socket!Ends(t)) = Cardinality(Socket!Ends(s)) + IF ends THEN 1 ELSE 0
  <2>1. CASE ends
    BY <1>5, <1>7, <2>1
  <2>2. CASE ~ends
    <3> HIDE DEF ends
    <3>1. Socket!Ends(t) = Socket!Ends(s)
      BY <1>5, <2>2
    <3>2. QED
      BY <1>6, <2>2, <3>1
  <2>3. QED
    BY <2>1, <2>2
<1>9. QED
  BY <1>8 DEF t, N

AnswersOf == [ok : BOOLEAN, got : Seq(1..2)]

SocketTyped ==
  /\ connected \subseteq Clients
  /\ received \in [Clients -> Seq(Socket!Lines)]
  /\ partial \in [Clients -> {"none", "quoted", "junk"}]
  /\ lines \in [Clients -> Seq(Socket!Commands)]
  /\ sent \in [Clients -> Seq(AnswersOf)]
  /\ value \in 1..2 /\ socket_cached \in 0..2
  /\ seen \in [Clients -> Seq(Socket!Lines)]
  /\ failed \in BOOLEAN

\* A client that is not connected has nothing left of the last connection.
Forgotten ==
  \A c \in Clients : c \notin connected =>
    received[c] = <<>> /\ partial[c] = "none" /\ sent[c] = <<>> /\ seen[c] = <<>>

\* A word is open exactly after an odd number of quotes.
QuotesMatch ==
  \A c \in Clients : partial[c] # "none" <=> Socket!Quotes(seen[c], Len(seen[c])) % 2 = 1

Answered == \A c \in Clients : Len(sent[c]) = Cardinality(Socket!Ends(seen[c]))

SocketInv ==
  /\ SocketTyped /\ Forgotten /\ QuotesMatch /\ Answered
  /\ IsFiniteSet(Socket!Held) /\ Cardinality(Socket!Held) <= MaxLines
  /\ Socket!CacheFlushed

Count(c) == Len(seen[c]) + Len(received[c])

LEMMA HeldIs ==
  ASSUME NEW sn \in [Clients -> Seq(Socket!Lines)], NEW rc \in [Clients -> Seq(Socket!Lines)]
  PROVE  \A x : x \in UNION {{c} \X DOMAIN (sn[c] \o rc[c]) : c \in Clients} <=>
           \E c \in Clients : \E n \in 1..(Len(sn[c]) + Len(rc[c])) : x = <<c, n>>
<1>1. \A c \in Clients : DOMAIN (sn[c] \o rc[c]) = 1..(Len(sn[c]) + Len(rc[c]))
  OBVIOUS
<1>2. QED
  BY <1>1

LEMMA HeldSays ==
  ASSUME SocketTyped
  PROVE  /\ \A x : x \in Socket!Held <=> \E c \in Clients : \E n \in 1..Count(c) : x = <<c, n>>
         /\ \A c \in Clients : Count(c) \in Nat
<1> DEFINE sn == seen
           rc == received
           all == UNION {{c} \X DOMAIN (sn[c] \o rc[c]) : c \in Clients}
<1>1. sn \in [Clients -> Seq(Socket!Lines)] /\ rc \in [Clients -> Seq(Socket!Lines)] /\ Socket!Held = all
  BY DEF SocketTyped, Socket!Held
<1>2. \A c \in Clients : Count(c) = Len(sn[c]) + Len(rc[c])
  BY DEF Count
<1> HIDE DEF sn, rc
<1>3. \A x : x \in all <=>
        \E c \in Clients : \E n \in 1..(Len(sn[c]) + Len(rc[c])) : x = <<c, n>>
  BY <1>1, HeldIs
<1>4. \A c \in Clients : Len(sn[c]) + Len(rc[c]) \in Nat
  BY <1>1
<1> HIDE DEF all
<1>5. QED
  BY <1>1, <1>2, <1>3, <1>4

LEMMA HeldSaysAgain ==
  ASSUME SocketTyped'
  PROVE  /\ \A x : x \in Socket!Held' <=> \E c \in Clients : \E n \in 1..Count(c)' : x = <<c, n>>
         /\ \A c \in Clients : Count(c)' \in Nat
<1> DEFINE sn == seen'
           rc == received'
           all == UNION {{c} \X DOMAIN (sn[c] \o rc[c]) : c \in Clients}
<1>1. sn \in [Clients -> Seq(Socket!Lines)] /\ rc \in [Clients -> Seq(Socket!Lines)] /\ Socket!Held' = all
  BY DEF SocketTyped, Socket!Held
<1>2. \A c \in Clients : Count(c)' = Len(sn[c]) + Len(rc[c])
  BY DEF Count
<1> HIDE DEF sn, rc
<1>3. \A x : x \in all <=>
        \E c \in Clients : \E n \in 1..(Len(sn[c]) + Len(rc[c])) : x = <<c, n>>
  BY <1>1, HeldIs
<1>4. \A c \in Clients : Len(sn[c]) + Len(rc[c]) \in Nat
  BY <1>1
<1> HIDE DEF all
<1>5. QED
  BY <1>1, <1>2, <1>3, <1>4

\* No step but that of a client makes more lines.
LEMMA NoMoreHeld ==
  ASSUME SocketInv, Socket!CommandSocketAssumption, SocketTyped',
         \A c \in Clients : Count(c)' <= Count(c)
  PROVE  IsFiniteSet(Socket!Held)' /\ (Cardinality(Socket!Held) <= MaxLines)'
<1>1. SocketTyped /\ IsFiniteSet(Socket!Held) /\ Cardinality(Socket!Held) <= MaxLines /\ MaxLines \in Nat
  BY DEF SocketInv, Socket!CommandSocketAssumption
<1>2. \A c \in Clients : \A n \in 1..Count(c)' : n \in 1..Count(c)
  BY <1>1, HeldSays, HeldSaysAgain
<1>3. Socket!Held' \subseteq Socket!Held
  BY <1>1, <1>2, HeldSays, HeldSaysAgain
<1>4. IsFiniteSet(Socket!Held') /\ Cardinality(Socket!Held') <= Cardinality(Socket!Held)
  BY <1>1, <1>3, FS_Subset
<1>5. Cardinality(Socket!Held') \in Nat /\ Cardinality(Socket!Held) \in Nat
  BY <1>1, <1>4, FS_CardinalityType
<1>6. QED
  BY <1>1, <1>4, <1>5

LEMMA OneMoreHeld ==
  ASSUME SocketInv, Socket!CommandSocketAssumption, SocketTyped', NEW d \in Clients,
         Cardinality(Socket!Held) < MaxLines, Count(d)' = Count(d) + 1,
         \A c \in Clients \ {d} : Count(c)' = Count(c)
  PROVE  IsFiniteSet(Socket!Held)' /\ (Cardinality(Socket!Held) <= MaxLines)'
<1>1. SocketTyped /\ IsFiniteSet(Socket!Held) /\ MaxLines \in Nat
  BY DEF SocketInv, Socket!CommandSocketAssumption
<1> DEFINE more == Socket!Held \cup {<<d, Count(d) + 1>>}
<1>2. \A n \in 1..Count(d)' : n \in 1..Count(d) \/ n = Count(d) + 1
  BY <1>1, HeldSays
<1>3. \A x \in Socket!Held' : x \in more
  <2> SUFFICES ASSUME NEW x \in Socket!Held', x \notin Socket!Held PROVE x = <<d, Count(d) + 1>>
    OBVIOUS
  <2>1. PICK c \in Clients : \E n \in 1..Count(c)' : x = <<c, n>>
    BY HeldSaysAgain
  <2>2. PICK n \in 1..Count(c)' : x = <<c, n>>
    BY <2>1
  <2>3. ~(n \in 1..Count(c))
    BY <1>1, <2>2, HeldSays
  <2>4. c = d
    BY <2>3
  <2>5. QED
    BY <1>2, <2>2, <2>3, <2>4
<1>4. IsFiniteSet(more) /\ Cardinality(more) <= Cardinality(Socket!Held) + 1
  <2>1. Cardinality(Socket!Held) \in Nat
    BY <1>1, FS_CardinalityType
  <2>2. \A e : IsFiniteSet(Socket!Held \cup {e}) /\ Cardinality(Socket!Held \cup {e}) <= Cardinality(Socket!Held) + 1
    <3>1. ASSUME NEW e
          PROVE  IsFiniteSet(Socket!Held \cup {e}) /\ Cardinality(Socket!Held \cup {e}) <= Cardinality(Socket!Held) + 1
      BY <1>1, <2>1, FS_AddElement
    <3>2. QED
      BY <3>1
  <2>3. QED
    BY <2>2
<1> HIDE DEF more
<1>5. IsFiniteSet(Socket!Held') /\ Cardinality(Socket!Held') <= Cardinality(more)
  BY <1>3, <1>4, FS_Subset
<1>6. Cardinality(Socket!Held') \in Nat /\ Cardinality(Socket!Held) \in Nat /\ Cardinality(more) \in Nat
  BY <1>1, <1>4, <1>5, FS_CardinalityType
<1>7. QED
  BY <1>1, <1>4, <1>5, <1>6

\* The values of the parameter, typed, and the cache flushed unless a block failed.
ValuesOk == value \in 1..2 /\ socket_cached \in 0..2 /\ failed \in BOOLEAN /\ Socket!CacheFlushed

LEMMA EmptySays ==
  /\ Len(<<>>) = 0 /\ Socket!Quotes(<<>>, 0) = 0 /\ Socket!Ends(<<>>) = {}
  /\ Cardinality(Socket!Ends(<<>>)) = 0
<1>1. {i \in 1..0 : <<>>[i] = "quote"} = {}
  OBVIOUS
<1>2. Socket!Ends(<<>>) = {}
  <2>1. \A s \in Seq(Socket!Lines) : DOMAIN s = 1..Len(s)
    OBVIOUS
  <2>2. <<>> \in Seq(Socket!Lines) /\ Len(<<>>) = 0 /\ \A n \in 1..0 : FALSE
    OBVIOUS
  <2>3. DOMAIN <<>> = 1..0
    BY <2>1, <2>2, Zenon
  <2>4. \A n \in DOMAIN <<>> : FALSE
    BY <2>2, <2>3, Zenon
  <2>5. QED
    BY <2>4, Zenon DEF Socket!Ends
<1>3. QED
  BY <1>1, <1>2, FS_EmptySet, SocketSizes DEF Socket!Quotes

LEMMA AcceptStep ==
  ASSUME SocketInv, Socket!CommandSocketAssumption, NEW c \in Clients, Socket!Accept(c)
  PROVE  SocketInv'
<1>1. SocketTyped'
  BY DEF SocketInv, SocketTyped, Socket!Accept
<1>2. \A d \in Clients : Count(d)' = Count(d) /\ Count(d) \in Nat
  BY HeldSays DEF SocketInv, Socket!Accept, Count
<1>3. \A d \in Clients : Count(d)' <= Count(d)
  BY <1>2
<1>4. Forgotten' /\ QuotesMatch' /\ Answered' /\ Socket!CacheFlushed'
  BY DEF SocketInv, Socket!Accept, Forgotten, QuotesMatch, Answered, Socket!CacheFlushed
<1>5. QED
  BY <1>1, <1>3, <1>4, NoMoreHeld DEF SocketInv

LEMMA SendStep ==
  ASSUME SocketInv, Socket!CommandSocketAssumption, NEW c \in Clients, NEW line \in Socket!Lines,
         Socket!Send(c, line)
  PROVE  SocketInv'
<1>1. SocketTyped'
  BY DEF SocketInv, SocketTyped, Socket!Send
<1>2. /\ \A d \in Clients \ {c} : Count(d)' = Count(d)
      /\ Count(c)' = Count(c) + 1 /\ Cardinality(Socket!Held) < MaxLines
  BY SocketSizes DEF SocketInv, SocketTyped, Socket!Send, Count
<1>3. Forgotten' /\ QuotesMatch' /\ Answered' /\ Socket!CacheFlushed'
  <2>1. \A d \in Clients : d \notin connected => received'[d] = received[d]
    BY DEF SocketInv, SocketTyped, Socket!Send
  <2>2. QED
    BY <2>1 DEF SocketInv, Socket!Send, Forgotten, QuotesMatch, Answered, Socket!CacheFlushed
<1>4. QED
  BY <1>1, <1>2, <1>3, OneMoreHeld DEF SocketInv

LEMMA CloseStep ==
  ASSUME SocketInv, Socket!CommandSocketAssumption, NEW c \in Clients, Socket!Close(c), ValuesOk'
  PROVE  SocketInv'
<1>1. SocketTyped'
  BY DEF SocketInv, SocketTyped, Socket!Close, ValuesOk
<1>2. \A d \in Clients :
        /\ d # c => /\ received'[d] = received[d] /\ seen'[d] = seen[d]
                    /\ sent'[d] = sent[d] /\ partial'[d] = partial[d]
        /\ d = c => /\ received'[d] = <<>> /\ seen'[d] = <<>>
                    /\ sent'[d] = <<>> /\ partial'[d] = "none"
  BY DEF SocketInv, SocketTyped, Socket!Close
<1>3. \A d \in Clients : Count(d)' <= Count(d)
  <2>1. \A d \in Clients : Count(d) \in Nat
    BY HeldSays DEF SocketInv
  <2>2. \A d \in Clients : Count(d)' = IF d = c THEN 0 ELSE Count(d)
    <3>1. 0 + 0 = 0 /\ \A d \in Clients : Count(d) = Len(seen[d]) + Len(received[d])
      BY DEF Count
    <3>2. ASSUME NEW d \in Clients, d # c PROVE Count(d)' = Count(d)
      BY <1>2, <3>2 DEF Count
    <3>3. Count(c)' = Len(<<>>) + Len(<<>>)
      BY <1>2, Zenon DEF Count
    <3>4. Count(c)' = 0
      BY <3>1, <3>3, EmptySays
    <3>5. QED
      BY <3>2, <3>4
  <2>3. QED
    BY <2>1, <2>2
<1>4. Forgotten'
  BY <1>2 DEF SocketInv, Forgotten, Socket!Close
<1>5. QuotesMatch' /\ Answered'
  BY <1>2, EmptySays DEF SocketInv, QuotesMatch, Answered
<1>6. QED
  BY <1>1, <1>3, <1>4, <1>5, NoMoreHeld DEF SocketInv, ValuesOk

\* One line moves from what was received to what was seen.
LEMMA ReadSays ==
  ASSUME SocketTyped, NEW c \in Clients, NEW line, NEW rest \in {"none", "quoted", "junk"},
         received[c] # <<>>, line = Head(received[c]), Socket!Read(c, line, rest)
  PROVE  /\ line \in Socket!Lines
         /\ received' \in [Clients -> Seq(Socket!Lines)] /\ seen' \in [Clients -> Seq(Socket!Lines)]
         /\ partial' \in [Clients -> {"none", "quoted", "junk"}]
         /\ seen'[c] = Append(seen[c], line) /\ partial'[c] = rest
         /\ received'[c] = Tail(received[c])
         /\ Count(c)' = Count(c)
         /\ \A d \in Clients \ {c} : /\ received'[d] = received[d] /\ seen'[d] = seen[d]
                                     /\ partial'[d] = partial[d] /\ Count(d)' = Count(d)
<1>1. received[c] \in Seq(Socket!Lines) /\ seen[c] \in Seq(Socket!Lines)
  BY DEF SocketTyped
<1>2. line \in Socket!Lines /\ Tail(received[c]) \in Seq(Socket!Lines) /\ Append(seen[c], line) \in Seq(Socket!Lines)
      /\ Len(Append(seen[c], line)) + Len(Tail(received[c])) = Len(seen[c]) + Len(received[c])
  <2> DEFINE rc == received[c]
             sn == seen[c]
  <2>1. rc \in Seq(Socket!Lines) /\ sn \in Seq(Socket!Lines) /\ rc # <<>> /\ line = Head(rc)
    BY <1>1
  <2> HIDE DEF rc, sn
  <2>2. Len(rc) \in Nat /\ Len(rc) # 0 /\ Len(sn) \in Nat
    BY <2>1
  <2>3. line \in Socket!Lines
    BY <2>1, <2>2
  <2>4. Tail(rc) \in Seq(Socket!Lines) /\ Len(Tail(rc)) = Len(rc) - 1
    BY <2>1, <2>2
  <2>5. Append(sn, line) \in Seq(Socket!Lines) /\ Len(Append(sn, line)) = Len(sn) + 1
    BY <2>1, <2>3
  <2>6. Len(Append(sn, line)) + Len(Tail(rc)) = Len(sn) + Len(rc)
    BY <2>2, <2>4, <2>5
  <2>7. QED
    BY <2>3, <2>4, <2>5, <2>6, Zenon DEF rc, sn
<1>3. /\ received' = [received EXCEPT ![c] = Tail(received[c])]
      /\ seen' = [seen EXCEPT ![c] = Append(seen[c], line)]
      /\ partial' = [partial EXCEPT ![c] = rest]
  BY DEF Socket!Read
<1>4. /\ received'[c] = Tail(received[c]) /\ seen'[c] = Append(seen[c], line)
      /\ partial'[c] = rest
      /\ \A d \in Clients \ {c} : /\ received'[d] = received[d] /\ seen'[d] = seen[d]
                                  /\ partial'[d] = partial[d]
  BY <1>3 DEF SocketTyped
<1>5. /\ received' \in [Clients -> Seq(Socket!Lines)] /\ seen' \in [Clients -> Seq(Socket!Lines)]
      /\ partial' \in [Clients -> {"none", "quoted", "junk"}]
  BY <1>2, <1>3 DEF SocketTyped
<1>6. Count(c)' = Count(c) /\ \A d \in Clients \ {c} : Count(d)' = Count(d)
  BY <1>2, <1>4 DEF Count
<1>7. QED
  BY <1>2, <1>4, <1>5, <1>6

\* What a block leaves: of the cache nothing, unless it failed.
LEMMA BlockValues ==
  ASSUME SocketInv, NEW c \in Clients, NEW asked \in Seq(Socket!Commands),
         Socket!ProcessBlock(c, asked)
  PROVE  ValuesOk' /\ Socket!Ran(asked) \in Blocks /\ Socket!Rendered(Socket!Ran(asked)) \in AnswersOf
<1> DEFINE x == Socket!Ran(asked)
<1>1. x \in Blocks
  BY RanSays DEF SocketInv, SocketTyped
<1>2. /\ value' = x.value /\ socket_cached' = Socket!CachedAfter(x)
      /\ failed' = (x.ended # "no" /\ (failed \/ x.cached # 0))
  BY DEF Socket!ProcessBlock
<1> HIDE DEF x
<1>3. x.value \in 1..2 /\ x.cached \in 0..2 /\ x.out \in Seq(1..2)
  BY <1>1, SocketSizes DEF Blocks
<1>4. socket_cached' \in 0..2
  BY <1>2, <1>3 DEF Socket!CachedAfter
<1>5. failed' \in BOOLEAN
  BY <1>2
<1>6. Socket!CacheFlushed'
  <2>1. CASE x.ended = "no"
    BY <1>2, <2>1 DEF Socket!CachedAfter, Socket!CacheFlushed
  <2>2. CASE x.ended # "no"
    BY <1>2, <2>2 DEF Socket!CachedAfter, Socket!CacheFlushed
  <2>3. QED
    BY <2>1, <2>2
<1>7. Socket!Rendered(x) \in AnswersOf
  <2>1. (x.ended = "no") \in BOOLEAN /\ (IF x.ended = "no" THEN x.out ELSE <<>>) \in Seq(1..2)
    BY <1>3
  <2>2. QED
    BY <2>1 DEF Socket!Rendered, AnswersOf
<1>8. QED
  BY <1>1, <1>2, <1>3, <1>4, <1>5, <1>6, <1>7 DEF ValuesOk, x

LEMMA OddSays == \A n \in Nat : (n % 2 = 1 <=> (n + 1) % 2 = 0) /\ (n % 2 = 1 \/ n % 2 = 0)
OBVIOUS

\* The lines of this connection and what was written to it, after one more line.
LEMMA LineRead ==
  ASSUME SocketInv, Socket!CommandSocketAssumption, SocketTyped', NEW c \in Clients,
         NEW line \in Socket!Lines, c \in connected, connected' = connected, Socket!CacheFlushed',
         seen'[c] = Append(seen[c], line), Count(c)' = Count(c),
         partial'[c] # "none" <=> Socket!Unfinished(c, line),
         Len(sent'[c]) = Len(sent[c]) + IF line = "blank" /\ ~Socket!Unfinished(c, line) THEN 1 ELSE 0,
         \A d \in Clients \ {c} :
           /\ received'[d] = received[d] /\ seen'[d] = seen[d] /\ partial'[d] = partial[d]
           /\ Count(d)' = Count(d) /\ sent'[d] = sent[d]
  PROVE  SocketInv'
<1> DEFINE s == seen[c]
           q == Socket!Quotes(s, Len(s))
<1>1. s \in Seq(Socket!Lines) /\ q \in Nat /\ Len(s) \in Nat
  <2>1. s \in Seq(Socket!Lines) /\ Len(s) \in Nat /\ Len(s) \in 0..Len(s)
    BY DEF SocketInv, SocketTyped
  <2>2. QED
    BY <2>1, QuotesSay
<1>2. Forgotten'
  BY DEF SocketInv, Forgotten
<1>3. \A d \in Clients : Count(d)' <= Count(d)
  <2>1. \A d \in Clients : Count(d) \in Nat
    BY HeldSays DEF SocketInv
  <2>2. QED
    BY <2>1
<1>4. partial[c] # "none" <=> q % 2 = 1
  BY DEF SocketInv, QuotesMatch
<1>5. Socket!Quotes(seen'[c], Len(seen'[c])) = q + IF line = "quote" THEN 1 ELSE 0
  <2>1. Len(Append(s, line)) = Len(s) + 1
    BY <1>1
  <2>2. QED
    BY <1>1, <2>1, QuotesOfMore
<1>6. Socket!Unfinished(c, line) <=> Socket!Quotes(seen'[c], Len(seen'[c])) % 2 = 1
  <2>1. Socket!Unfinished(c, line) <=> (partial[c] # "none" <=> line # "quote")
    BY DEF Socket!Unfinished
  <2> HIDE DEF q
  <2>2. CASE line = "quote"
    BY <1>1, <1>4, <1>5, <2>1, <2>2, OddSays
  <2>3. CASE line # "quote"
    BY <1>1, <1>4, <1>5, <2>1, <2>3
  <2>4. QED
    BY <2>2, <2>3
<1>7. QuotesMatch'
  <2>1. \A d \in Clients \ {c} :
          partial'[d] # "none" <=> Socket!Quotes(seen'[d], Len(seen'[d])) % 2 = 1
    BY DEF SocketInv, QuotesMatch
  <2>2. partial'[c] # "none" <=> Socket!Quotes(seen'[c], Len(seen'[c])) % 2 = 1
    BY <1>6
  <2>3. QED
    BY <2>1, <2>2 DEF QuotesMatch
<1>8. Len(sent'[c]) = Cardinality(Socket!Ends(seen'[c]))
  <2>1. Cardinality(Socket!Ends(seen'[c])) =
          Cardinality(Socket!Ends(s)) + IF line = "blank" /\ q % 2 = 0 THEN 1 ELSE 0
    BY <1>1, EndsOfMore
  <2>2. Len(sent[c]) = Cardinality(Socket!Ends(s))
    BY DEF SocketInv, Answered
  <2>3. line = "blank" => (~Socket!Unfinished(c, line) <=> q % 2 = 0)
    <3>1. line = "blank" => (Socket!Unfinished(c, line) <=> partial[c] # "none")
      BY DEF Socket!Unfinished
    <3> HIDE DEF q
    <3>2. q % 2 = 1 \/ q % 2 = 0
      BY <1>1, OddSays
    <3>3. q % 2 = 0 => q % 2 # 1
      OBVIOUS
    <3>4. QED
      BY <1>4, <3>1, <3>2, <3>3
  <2> HIDE DEF s, q
  <2>4. QED
    BY <2>1, <2>2, <2>3
<1>9. Answered'
  BY <1>8 DEF SocketInv, Answered
<1>10. QED
  BY <1>2, <1>3, <1>7, <1>9, NoMoreHeld DEF SocketInv

LEMMA GotDataStep ==
  ASSUME SocketInv, Socket!CommandSocketAssumption, NEW c \in Clients, Socket!GotData(c)
  PROVE  SocketInv'
<1> DEFINE line == Head(received[c])
<1>1. SocketTyped /\ received[c] # <<>> /\ c \in connected
  BY DEF SocketInv, Forgotten, Socket!GotData
<1>2. CASE Socket!Unfinished(c, line)
  <2> DEFINE rest == IF "junk" \in {line, partial[c]} THEN "junk" ELSE "quoted"
  <2>1. Socket!Read(c, line, rest) /\ UNCHANGED <<connected, lines, sent, value, socket_cached, failed>>
    BY <1>2 DEF Socket!GotData
  <2>2. rest \in {"none", "quoted", "junk"} /\ rest # "none"
    OBVIOUS
  <2> HIDE DEF line, rest
  <2>3. /\ line \in Socket!Lines
        /\ received' \in [Clients -> Seq(Socket!Lines)] /\ seen' \in [Clients -> Seq(Socket!Lines)]
        /\ partial' \in [Clients -> {"none", "quoted", "junk"}]
        /\ seen'[c] = Append(seen[c], line) /\ partial'[c] = rest
        /\ Count(c)' = Count(c)
        /\ \A d \in Clients \ {c} : /\ received'[d] = received[d] /\ seen'[d] = seen[d]
                                    /\ partial'[d] = partial[d] /\ Count(d)' = Count(d)
    BY <1>1, <2>1, <2>2, ReadSays DEF line
  <2>4. SocketTyped'
    BY <1>1, <2>1, <2>3 DEF SocketTyped
  <2>5. Socket!CacheFlushed' /\ connected' = connected /\ sent' = sent
    BY <2>1 DEF SocketInv, Socket!CacheFlushed
  <2>6. Len(sent'[c]) = Len(sent[c]) + IF line = "blank" /\ ~Socket!Unfinished(c, line) THEN 1 ELSE 0
    <3>1. Len(sent[c]) \in Nat
      BY <1>1 DEF SocketTyped
    <3>2. QED
      BY <1>2, <2>5, <3>1
  <2>7. partial'[c] # "none" <=> Socket!Unfinished(c, line)
    BY <1>2, <2>2, <2>3
  <2>8. QED
    BY <1>1, <2>3, <2>4, <2>5, <2>6, <2>7, LineRead
<1>3. CASE ~Socket!Unfinished(c, line) /\ Socket!Joined(c, line) = "blank" /\ Socket!Ran(lines[c]).ended = "EOFError"
  <2>1. Socket!ProcessBlock(c, lines[c])
    BY <1>3 DEF Socket!GotData
  <2>2. lines[c] \in Seq(Socket!Commands)
    BY <1>1 DEF SocketTyped
  <2>3. ValuesOk'
    BY <2>1, <2>2, BlockValues
  <2>4. Socket!Close(c)
    BY <1>3, <2>1 DEF Socket!ProcessBlock
  <2>5. QED
    BY <2>3, <2>4, CloseStep
<1>4. CASE ~Socket!Unfinished(c, line) /\ ~(Socket!Joined(c, line) = "blank" /\ Socket!Ran(lines[c]).ended = "EOFError")
  <2>1. Socket!Read(c, line, "none") /\ Socket!GotLine(c, Socket!Joined(c, line))
    BY <1>4 DEF Socket!GotData
  <2> HIDE DEF line
  <2>2. /\ line \in Socket!Lines
        /\ received' \in [Clients -> Seq(Socket!Lines)] /\ seen' \in [Clients -> Seq(Socket!Lines)]
        /\ partial' \in [Clients -> {"none", "quoted", "junk"}]
        /\ seen'[c] = Append(seen[c], line) /\ partial'[c] = "none"
        /\ Count(c)' = Count(c)
        /\ \A d \in Clients \ {c} : /\ received'[d] = received[d] /\ seen'[d] = seen[d]
                                    /\ partial'[d] = partial[d] /\ Count(d)' = Count(d)
    <3>1. "none" \in {"none", "quoted", "junk"}
      OBVIOUS
    <3>2. QED
      BY <1>1, <2>1, <3>1, ReadSays DEF line
  <2>3. partial'[c] # "none" <=> Socket!Unfinished(c, line)
    BY <1>4, <2>2
  <2>4. Socket!Joined(c, line) \in Socket!Lines /\ (Socket!Joined(c, line) = "blank" <=> line = "blank")
    <3>1. CASE line # "quote"
      <4>1. Socket!Joined(c, line) = line
        BY <3>1, Zenon DEF Socket!Joined
      <4>2. QED
        BY <2>2, <4>1
    <3>2. CASE line = "quote"
      <4>1. Socket!Joined(c, line) \in {"junk", "set"}
        BY <3>2 DEF Socket!Joined
      <4>2. QED
        BY <3>2, <4>1 DEF Socket!Lines, Socket!Commands
    <3>3. QED
      BY <3>1, <3>2
  <2>5. lines[c] \in Seq(Socket!Commands) /\ sent[c] \in Seq(AnswersOf) /\ Len(sent[c]) \in Nat
    BY <1>1 DEF SocketTyped
  <2>6. CASE line = "blank"
    <3>1. Socket!ProcessBlock(c, lines[c]) /\ Socket!Ran(lines[c]).ended # "EOFError"
      BY <1>4, <2>1, <2>4, <2>6 DEF Socket!GotLine
    <3>2. ValuesOk' /\ Socket!Rendered(Socket!Ran(lines[c])) \in AnswersOf
      BY <2>5, <3>1, BlockValues
    <3>3. /\ sent' = [sent EXCEPT ![c] = Append(@, Socket!Rendered(Socket!Ran(lines[c])))]
          /\ lines' = [lines EXCEPT ![c] = <<>>] /\ connected' = connected
      BY <3>1 DEF Socket!ProcessBlock
    <3>4. sent'[c] = Append(sent[c], Socket!Rendered(Socket!Ran(lines[c])))
          /\ \A d \in Clients \ {c} : sent'[d] = sent[d]
      BY <1>1, <3>3 DEF SocketTyped
    <3>5. Len(sent'[c]) = Len(sent[c]) + 1
      BY <2>5, <3>4
    <3>6. SocketTyped'
      <4>1. sent' \in [Clients -> Seq(AnswersOf)] /\ lines' \in [Clients -> Seq(Socket!Commands)]
        BY <1>1, <2>5, <3>2, <3>3 DEF SocketTyped
      <4>2. QED
        BY <1>1, <2>2, <3>2, <3>3, <4>1 DEF SocketTyped, ValuesOk
    <3>7. Len(sent'[c]) = Len(sent[c]) + IF line = "blank" /\ ~Socket!Unfinished(c, line) THEN 1 ELSE 0
      BY <1>4, <2>6, <3>5
    <3>8. Socket!CacheFlushed'
      BY <3>2 DEF ValuesOk
    <3>9. QED
      BY <1>1, <2>2, <2>3, <3>3, <3>4, <3>6, <3>7, <3>8, LineRead
  <2>7. CASE line # "blank"
    <3> DEFINE joined == Socket!Joined(c, line)
    <3>1. /\ lines' = [lines EXCEPT ![c] = IF joined = "junk" THEN @ ELSE Append(@, joined)]
          /\ UNCHANGED <<connected, sent, value, socket_cached, failed>>
      BY <2>1, <2>4, <2>7 DEF Socket!GotLine
    <3>2. joined # "junk" => joined \in Socket!Commands
      BY <2>4, <2>7 DEF Socket!Lines, Socket!Commands, Socket!Joined
    <3> HIDE DEF joined
    <3>3. (IF joined = "junk" THEN lines[c] ELSE Append(lines[c], joined)) \in Seq(Socket!Commands)
      BY <2>5, <3>2
    <3>4. lines' \in [Clients -> Seq(Socket!Commands)]
      BY <1>1, <3>1, <3>3 DEF SocketTyped
    <3>5. SocketTyped'
      BY <1>1, <2>2, <3>1, <3>4 DEF SocketTyped
    <3>6. Socket!CacheFlushed'
      BY <3>1 DEF SocketInv, Socket!CacheFlushed
    <3>7. Len(sent'[c]) = Len(sent[c]) + IF line = "blank" /\ ~Socket!Unfinished(c, line) THEN 1 ELSE 0
      BY <2>5, <2>7, <3>1
    <3>8. QED
      BY <1>1, <2>2, <2>3, <3>1, <3>5, <3>6, <3>7, LineRead
  <2>8. QED
    BY <2>6, <2>7
<1>5. QED
  BY <1>2, <1>3, <1>4

\* Every block of a connection is answered once, whatever lines its client sends, and a
\* value outlives the block that got it only if a block failed.
THEOREM SocketSafe ==
  ASSUME Socket!CommandSocketAssumption
  PROVE  Socket!Spec => [](Socket!TypeOK /\ Socket!BlocksAnswered /\ Socket!CacheFlushed)
<1>1. Socket!Init => SocketInv
  <2> SUFFICES ASSUME Socket!Init PROVE SocketInv
    OBVIOUS
  <2>1. SocketTyped
    <3>1. /\ connected \subseteq Clients
          /\ "none" \in {"none", "quoted", "junk"}
          /\ value \in 1..2 /\ socket_cached \in 0..2 /\ failed \in BOOLEAN
      <4>1. connected = {} /\ value = 1 /\ socket_cached = 0 /\ failed = FALSE
        BY DEF Socket!Init
      <4>2. 1 \in 1..2 /\ 0 \in 0..2 /\ FALSE \in BOOLEAN
        OBVIOUS
      <4>3. "none" \in {"none", "quoted", "junk"}
        BY Zenon
      <4>4. QED
        BY <4>1, <4>2, <4>3, Zenon
    <3>2. <<>> \in Seq(Socket!Lines) /\ <<>> \in Seq(Socket!Commands) /\ <<>> \in Seq(AnswersOf)
      OBVIOUS
    <3>3. QED
      BY <3>1, <3>2 DEF Socket!Init, SocketTyped
  <2>2. Forgotten /\ QuotesMatch /\ Answered /\ Socket!CacheFlushed
    BY EmptySays DEF Socket!Init, Forgotten, QuotesMatch, Answered, Socket!CacheFlushed
  <2>3. Socket!Held = {}
    <3>1. \A c \in Clients : Count(c) = 0
      BY EmptySays DEF Socket!Init, Count
    <3>2. QED
      BY <2>1, <3>1, HeldSays
  <2>4. IsFiniteSet(Socket!Held) /\ Cardinality(Socket!Held) <= MaxLines
    BY <2>3, FS_EmptySet DEF Socket!CommandSocketAssumption
  <2>5. QED
    BY <2>1, <2>2, <2>4 DEF SocketInv
<1>2. SocketInv /\ [Socket!Next]_Socket!vars => SocketInv'
  <2> SUFFICES ASSUME SocketInv, [Socket!Next]_Socket!vars PROVE SocketInv'
    OBVIOUS
  <2>1. ASSUME NEW c \in Clients, Socket!Accept(c) PROVE SocketInv'
    BY <2>1, AcceptStep
  <2>2. ASSUME NEW c \in Clients, Socket!Disconnect(c) PROVE SocketInv'
    <3>1. Socket!Close(c) /\ ValuesOk'
      BY <2>2 DEF Socket!Disconnect, SocketInv, SocketTyped, ValuesOk, Socket!CacheFlushed
    <3>2. QED
      BY <3>1, CloseStep
  <2>3. ASSUME NEW c \in Clients, Socket!GotData(c) PROVE SocketInv'
    BY <2>3, GotDataStep
  <2>4. ASSUME NEW c \in Clients, NEW line \in Socket!Lines, Socket!Send(c, line) PROVE SocketInv'
    BY <2>4, SendStep
  <2>5. CASE Socket!Change
    <3>1. SocketTyped'
      BY <2>5 DEF Socket!Change, SocketInv, SocketTyped
    <3>2. Forgotten' /\ QuotesMatch' /\ Answered' /\ Socket!CacheFlushed' /\ Socket!Held' = Socket!Held
      BY <2>5 DEF Socket!Change, SocketInv, Forgotten, QuotesMatch, Answered, Socket!CacheFlushed, Socket!Held
    <3>3. QED
      BY <3>1, <3>2 DEF SocketInv
  <2>6. CASE UNCHANGED Socket!vars
    <3>1. SocketTyped'
      BY <2>6 DEF Socket!vars, SocketInv, SocketTyped
    <3>2. Forgotten' /\ QuotesMatch' /\ Answered' /\ Socket!CacheFlushed' /\ Socket!Held' = Socket!Held
      BY <2>6 DEF Socket!vars, SocketInv, Forgotten, QuotesMatch, Answered, Socket!CacheFlushed, Socket!Held
    <3>3. QED
      BY <3>1, <3>2 DEF SocketInv
  <2>7. QED
    BY <2>1, <2>2, <2>3, <2>4, <2>5, <2>6 DEF Socket!Next
<1>3. SocketInv => Socket!TypeOK /\ Socket!BlocksAnswered /\ Socket!CacheFlushed
  <2> SUFFICES ASSUME SocketInv PROVE Socket!TypeOK /\ Socket!BlocksAnswered /\ Socket!CacheFlushed
    OBVIOUS
  <2>1. \A c \in Clients : /\ partial[c] \in {"none", "quoted", "junk"}
                           /\ \A n \in DOMAIN lines[c] : lines[c][n] \in Socket!Commands
    BY DEF SocketInv, SocketTyped
  <2>2. Socket!BlocksAnswered
    BY SocketSizes DEF SocketInv, SocketTyped, Answered, Socket!BlocksAnswered
  <2>3. QED
    BY <2>1, <2>2, SocketSizes DEF SocketInv, SocketTyped, Socket!TypeOK
<1>4. QED
  BY <1>1, <1>2, <1>3, PTL DEF Socket!Spec

\* The instance counts like FiniteSets.
LEMMA TransactionSizes == \A S : Transactions!Cardinality(S) = Cardinality(S)
BY DEF Transactions!Cardinality, Cardinality


-----------------------------------------------------------------------------
(* Transactions                                                            *)
(*                                                                         *)
(* A request works on a state of the objects, with a recursion for each of *)
(* its walks.  What such a recursion does is proved for one step, and then *)
(* for all of them by induction on their number (Along).                   *)

Assignable == Transactions!Values \cup {"none"}
Stored == (Transactions!Values \cup {"none"}) \ {"late"}

States == [config : [Objects -> Stored], old : [Objects -> Stored],
           dirty : SUBSET Objects, open : SUBSET Objects, failed : BOOLEAN]

Sound(s) == s \in States /\ s.open \subseteq s.dirty
SoundStates == {s \in States : s.open \subseteq s.dirty}

TransactionsInv == Sound(Transactions!Current) /\ result \in {"none", "done", "rejected", "failed"}

\* One step of each walk.
LEMMA StartSays ==
  ASSUME NEW s \in SoundStates, NEW o \in Objects
  PROVE  /\ Transactions!StartTransaction(s, o) \in SoundStates
         /\ Transactions!StartTransaction(s, o).config = s.config
         /\ Transactions!StartTransaction(s, o).failed = s.failed
         /\ Transactions!StartTransaction(s, o).dirty = s.dirty \cup {o}
         /\ Transactions!StartTransaction(s, o).open = s.open \cup {o}
         /\ \A p \in Objects : Transactions!StartTransaction(s, o).old[p] =
                                 IF p = o /\ o \in Copying THEN s.config[o] ELSE s.old[p]
<1> DEFINE q == IF o \in Copying THEN [s.old EXCEPT ![o] = s.config[o]] ELSE s.old
           t == Transactions!StartTransaction(s, o)
<1>1. /\ q \in [Objects -> Stored]
      /\ \A p \in Objects : q[p] = IF p = o /\ o \in Copying THEN s.config[o] ELSE s.old[p]
  BY DEF SoundStates, States
<1>2. t = [config |-> s.config, old |-> q, dirty |-> s.dirty \cup {o},
           open |-> s.open \cup {o}, failed |-> s.failed]
  BY DEF Transactions!StartTransaction
<1> HIDE DEF q, t
<1>3. t \in SoundStates
  BY <1>1, <1>2 DEF SoundStates, States
<1>4. QED
  BY <1>1, <1>2, <1>3 DEF t

LEMMA AssignSays ==
  ASSUME NEW s \in SoundStates, NEW o \in Objects, NEW v \in Assignable
  PROVE  /\ Transactions!Assign(s, o, v) \in SoundStates
         /\ Transactions!Assign(s, o, v).old = s.old
         /\ Transactions!Assign(s, o, v).dirty = s.dirty /\ Transactions!Assign(s, o, v).open = s.open
         /\ \A p \in Objects : Transactions!Assign(s, o, v).config[p] =
              IF p = o /\ v # "late" /\ s.config[o] # "none" THEN v ELSE s.config[p]
<1> DEFINE c == [s.config EXCEPT ![o] = v]
<1>1. CASE v = "late" \/ s.config[o] = "none"
  <2> DEFINE t == [config |-> s.config, old |-> s.old, dirty |-> s.dirty, open |-> s.open,
                   failed |-> TRUE]
  <2>1. Transactions!Assign(s, o, v) = t
    BY <1>1 DEF Transactions!Assign, SoundStates, States
  <2>2. t \in SoundStates
    BY DEF SoundStates, States
  <2>3. QED
    BY <1>1, <2>1, <2>2
<1>2. CASE ~(v = "late" \/ s.config[o] = "none")
  <2> DEFINE t == [config |-> c, old |-> s.old, dirty |-> s.dirty, open |-> s.open,
                   failed |-> s.failed]
  <2>1. Transactions!Assign(s, o, v) = t
    BY <1>2 DEF Transactions!Assign, SoundStates, States
  <2>2. c \in [Objects -> Stored] /\ \A p \in Objects : c[p] = IF p = o THEN v ELSE s.config[p]
    BY <1>2 DEF SoundStates, States, Stored, Assignable
  <2> HIDE DEF c
  <2>3. t \in SoundStates
    BY <2>2 DEF SoundStates, States
  <2>4. QED
    BY <1>2, <2>1, <2>2, <2>3
<1>3. QED
  BY <1>1, <1>2

LEMMA SetSays ==
  ASSUME NEW s \in SoundStates, NEW write \in Objects \X Transactions!Values
  PROVE  /\ Transactions!SetExportParam(s, write) \in SoundStates
         /\ Transactions!SetExportParam(s, write).dirty = s.dirty \cup {write[1]}
         /\ \A p \in Objects : Transactions!SetExportParam(s, write).config[p] =
              IF p = write[1] /\ write[2] # "late" /\ s.config[p] # "none"
              THEN write[2] ELSE s.config[p]
         /\ \A p \in Objects : Transactions!SetExportParam(s, write).old[p] =
              IF p = write[1] /\ p \notin s.dirty /\ p \in Copying
              THEN s.config[p] ELSE s.old[p]
<1> DEFINE o == write[1]
           v == write[2]
<1>1. o \in Objects /\ v \in Assignable
  BY DEF Assignable
<1>2. Transactions!SetExportParam(s, write) = Transactions!Assign(IF o \in s.dirty THEN s ELSE Transactions!StartTransaction(s, o), o, v)
  BY DEF Transactions!SetExportParam
<1> HIDE DEF o, v
<1>3. CASE o \in s.dirty
  <2>1. Transactions!SetExportParam(s, write) = Transactions!Assign(s, o, v) /\ s.dirty \cup {o} = s.dirty
    BY <1>2, <1>3
  <2>2. QED
    BY <1>1, <1>3, <2>1, AssignSays DEF o, v
<1>4. CASE o \notin s.dirty
  <2> DEFINE t == Transactions!StartTransaction(s, o)
  <2>1. Transactions!SetExportParam(s, write) = Transactions!Assign(t, o, v)
    BY <1>2, <1>4
  <2>2. /\ t \in SoundStates /\ t.config = s.config /\ t.dirty = s.dirty \cup {o}
        /\ \A p \in Objects : t.old[p] = IF p = o /\ o \in Copying THEN s.config[o] ELSE s.old[p]
    BY <1>1, StartSays
  <2> HIDE DEF t
  <2>3. /\ Transactions!Assign(t, o, v) \in SoundStates
        /\ Transactions!Assign(t, o, v).old = t.old /\ Transactions!Assign(t, o, v).dirty = t.dirty
        /\ \A p \in Objects : Transactions!Assign(t, o, v).config[p] =
              IF p = o /\ v # "late" /\ t.config[o] # "none" THEN v ELSE t.config[p]
    <3>1. t \in SoundStates /\ o \in Objects /\ v \in Assignable
      BY <1>1, <2>2
    <3>2. QED
      BY <3>1, AssignSays
  <2>4. QED
    BY <1>4, <2>1, <2>2, <2>3 DEF o, v
<1>5. QED
  BY <1>3, <1>4

\* One step of the roll back.
LEMMA RollBackSays ==
  ASSUME TransactionsInv, NEW s \in SoundStates, NEW write \in Objects \X Transactions!Values
  PROVE  /\ Transactions!RollBack(s, write) \in SoundStates
         /\ Transactions!RollBack(s, write).old = s.old /\ Transactions!RollBack(s, write).dirty = s.dirty
         /\ \A p \in Objects : Transactions!RollBack(s, write).config[p] =
              IF p = write[1] /\ write[2] # config[p] /\ s.config[p] # "none"
              THEN config[p] ELSE s.config[p]
<1> DEFINE o == write[1]
           t == Transactions!Assign(s, o, config[o])
           r == [t EXCEPT !.failed = s.failed]
<1>1. o \in Objects /\ config[o] \in Stored /\ config[o] \in Assignable /\ config[o] # "late"
  BY DEF TransactionsInv, Sound, States, Transactions!Current, Stored, Assignable
<1>2. Transactions!RollBack(s, write) = IF write[2] = config[o] THEN s ELSE r
  BY DEF Transactions!RollBack
<1>3. /\ t \in SoundStates /\ t.old = s.old /\ t.dirty = s.dirty
      /\ \A p \in Objects : t.config[p] =
           IF p = o /\ s.config[o] # "none" THEN config[o] ELSE s.config[p]
  BY <1>1, AssignSays
<1> HIDE DEF t
<1>4. r \in SoundStates /\ r.old = t.old /\ r.dirty = t.dirty /\ r.config = t.config
  BY <1>3 DEF SoundStates, States
<1> HIDE DEF r
<1>5. CASE write[2] = config[o]
  <2>1. Transactions!RollBack(s, write) = s
    BY <1>2, <1>5
  <2>2. QED
    BY <1>5, <2>1
<1>6. CASE write[2] # config[o]
  <2>1. Transactions!RollBack(s, write) = r
    BY <1>2, <1>6
  <2>2. QED
    BY <1>3, <1>4, <1>6, <2>1
<1>7. QED
  BY <1>5, <1>6

LEMMA EndedSays ==
  ASSUME NEW s \in SoundStates, NEW o \in Objects, NEW d \in SUBSET Objects,
         s.open \ {o} \subseteq d, NEW c \in [Objects -> Stored], NEW f \in BOOLEAN,
         NEW t, t = [config |-> c, old |-> [s.old EXCEPT ![o] = "none"], dirty |-> d,
                     open |-> s.open \ {o}, failed |-> f]
  PROVE  /\ t \in SoundStates /\ t.config = c /\ t.dirty = d /\ t.open = s.open \ {o}
         /\ t.failed = f /\ \A p \in Objects \ {o} : t.old[p] = s.old[p]
<1> DEFINE q == [s.old EXCEPT ![o] = "none"]
<1>1. q \in [Objects -> Stored] /\ \A p \in Objects \ {o} : q[p] = s.old[p]
  <2>1. "none" \in Stored
    BY DEF Stored
  <2>2. QED
    BY <2>1 DEF SoundStates, States
<1>2. t = [config |-> c, old |-> q, dirty |-> d, open |-> s.open \ {o}, failed |-> f]
  OBVIOUS
<1> HIDE DEF q
<1>3. s.open \ {o} \in SUBSET Objects
  BY DEF SoundStates, States
<1>4. t \in SoundStates
  BY <1>1, <1>2, <1>3 DEF SoundStates, States
<1>5. QED
  BY <1>1, <1>2, <1>4

\* A transaction of o that is abandoned, with the flag of o cleared.
LEMMA AbandonSays ==
  ASSUME NEW s \in SoundStates, NEW o \in Objects, NEW d \in SUBSET Objects,
         s.open \ {o} \subseteq d
  PROVE  LET t == Transactions!AbandonTransaction([s EXCEPT !.dirty = d], o) IN
         /\ t \in SoundStates /\ t.failed = s.failed /\ t.dirty = d /\ t.open = s.open \ {o}
         /\ \A p \in Objects : t.config[p] = IF p = o /\ o \in Copying THEN s.old[o] ELSE s.config[p]
         /\ \A p \in Objects \ {o} : t.old[p] = s.old[p]
<1> DEFINE c == IF o \in Copying THEN [s.config EXCEPT ![o] = s.old[o]] ELSE s.config
           u == [s EXCEPT !.dirty = d]
           t == Transactions!AbandonTransaction(u, o)
<1>1. /\ c \in [Objects -> Stored]
      /\ \A p \in Objects : c[p] = IF p = o /\ o \in Copying THEN s.old[o] ELSE s.config[p]
  BY DEF SoundStates, States
<1>2. u.config = s.config /\ u.old = s.old /\ u.open = s.open /\ u.dirty = d
      /\ u.failed = s.failed
  BY DEF SoundStates, States
<1>3. t = [config |-> c, old |-> [s.old EXCEPT ![o] = "none"], dirty |-> d,
           open |-> s.open \ {o}, failed |-> s.failed]
  BY <1>2 DEF Transactions!AbandonTransaction, Transactions!Ended
<1>4. s.failed \in BOOLEAN
  BY DEF SoundStates, States
<1> HIDE DEF c, t
<1>5. /\ t \in SoundStates /\ t.config = c /\ t.dirty = d /\ t.open = s.open \ {o}
      /\ t.failed = s.failed /\ \A p \in Objects \ {o} : t.old[p] = s.old[p]
  BY <1>1, <1>3, <1>4, EndedSays
<1>6. QED
  BY <1>1, <1>5 DEF t

LEMMA CommitSays ==
  ASSUME NEW s \in SoundStates, NEW o \in Objects, NEW d \in SUBSET Objects,
         s.open \ {o} \subseteq d
  PROVE  Transactions!CommitTransaction([s EXCEPT !.dirty = d], o) \in SoundStates
<1> DEFINE f == s.config[o] = "poison"
           u == [s EXCEPT !.dirty = d]
           t == Transactions!CommitTransaction(u, o)
<1>1. f \in BOOLEAN
  BY Zenon
<1>2. u.config = s.config /\ u.old = s.old /\ u.open = s.open /\ u.dirty = d
  BY DEF SoundStates, States
<1>3. t = [config |-> s.config, old |-> [s.old EXCEPT ![o] = "none"], dirty |-> d,
           open |-> s.open \ {o}, failed |-> f]
  BY <1>2 DEF Transactions!CommitTransaction, Transactions!Ended
<1>4. s.config \in [Objects -> Stored]
  BY DEF SoundStates, States
<1> HIDE DEF f, t
<1>5. t \in SoundStates
  BY <1>1, <1>3, <1>4, EndedSays
<1>6. QED
  BY <1>5 DEF t

EndStep(s, o, do_commit, clean) ==
  IF s.failed THEN s
  ELSE Transactions!End([s EXCEPT !.dirty = IF clean THEN @ \ {o} ELSE @], o, do_commit)

LEMMA EndSays ==
  ASSUME NEW s \in SoundStates, NEW o \in Objects, NEW do_commit, NEW clean
  PROVE  EndStep(s, o, do_commit, clean) \in SoundStates
<1> DEFINE d == IF clean THEN s.dirty \ {o} ELSE s.dirty
<1>1. d \in SUBSET Objects /\ s.open \ {o} \subseteq d
  BY DEF SoundStates, States
<1>2. EndStep(s, o, do_commit, clean) =
        IF s.failed THEN s ELSE Transactions!End([s EXCEPT !.dirty = d], o, do_commit)
  BY DEF EndStep
<1> HIDE DEF d
<1>3. CASE s.failed
  BY <1>2, <1>3
<1>4. CASE ~s.failed /\ do_commit
  BY <1>1, <1>2, <1>4, CommitSays DEF Transactions!End
<1>5. CASE ~s.failed /\ ~do_commit
  BY <1>1, <1>2, <1>5, AbandonSays DEF Transactions!End
<1>6. QED
  BY <1>3, <1>4, <1>5

LEMMA AbandonEnds ==
  ASSUME NEW s \in SoundStates, NEW o \in Objects, ~s.failed
  PROVE  LET t == EndStep(s, o, FALSE, TRUE) IN
         /\ ~t.failed /\ t.dirty = s.dirty \ {o}
         /\ \A p \in Objects : t.config[p] = IF p = o /\ o \in Copying THEN s.old[o] ELSE s.config[p]
         /\ \A p \in Objects \ {o} : t.old[p] = s.old[p]
<1> DEFINE d == s.dirty \ {o}
<1>1. d \in SUBSET Objects /\ s.open \ {o} \subseteq d
  BY DEF SoundStates, States
<1>2. EndStep(s, o, FALSE, TRUE) = Transactions!AbandonTransaction([s EXCEPT !.dirty = d], o)
  BY DEF EndStep, Transactions!End
<1> DEFINE t == Transactions!AbandonTransaction([s EXCEPT !.dirty = d], o)
<1>3. d = s.dirty \ {o} /\ EndStep(s, o, FALSE, TRUE) = t
  BY <1>2
<1> HIDE DEF d
<1>4. /\ t.failed = s.failed /\ t.dirty = d
      /\ \A p \in Objects : t.config[p] = IF p = o /\ o \in Copying THEN s.old[o] ELSE s.config[p]
      /\ \A p \in Objects \ {o} : t.old[p] = s.old[p]
  BY <1>1, AbandonSays
<1> HIDE DEF t
<1>5. QED
  BY <1>3, <1>4

\* Each walk makes its steps one after the other.
LEMMA WritesSay ==
  ASSUME TransactionsInv, NEW N \in Nat, NEW batch \in [1..N -> Objects \X Transactions!Values],
         Len(batch) = N
  PROVE  /\ Transactions!Writes(batch)[0] = Transactions!Current
         /\ \A n \in 1..N : Transactions!Writes(batch)[n] = Transactions!SetExportParam(Transactions!Writes(batch)[n - 1], batch[n])
         /\ \A n \in 0..N : Transactions!Writes(batch)[n] \in SoundStates
<1> DEFINE move == [n \in 1..N |-> [x \in SoundStates |-> Transactions!SetExportParam(x, batch[n])]]
           Is(f) == f = [n \in 0..N |-> IF n = 0 THEN Transactions!Current ELSE Transactions!SetExportParam(f[n - 1], batch[n])]
           w == CHOOSE f : Is(f)
<1>1. \A n \in 1..N : n - 1 \in 0..N /\ n \in 0..N
  OBVIOUS
<1>2. move \in [1..N -> [SoundStates -> SoundStates]]
      /\ \A n \in 1..N : \A x \in SoundStates : move[n][x] = Transactions!SetExportParam(x, batch[n])
  BY SetSays
<1>3. Transactions!Writes(batch) = w
  BY DEF Transactions!Writes
<1>4. Transactions!Current \in SoundStates
  BY DEF TransactionsInv, Sound, SoundStates, States
<1> HIDE DEF move, w
<1>5. PICK f : /\ Iterates(N, Transactions!Current, move, f)
               /\ \A n \in 0..N : f[n] \in SoundStates
  BY <1>2, <1>4, Stepwise
<1>6. Is(f)
  <2>1. \A n \in 0..N : n # 0 => n \in 1..N
    OBVIOUS
  <2>2. \A n \in 0..N : n # 0 => move[n][f[n - 1]] = Transactions!SetExportParam(f[n - 1], batch[n])
    BY <1>1, <1>2, <1>5, <2>1
  <2>3. QED
    BY <1>5, <2>2 DEF Iterates
<1>7. Is(w)
  <2> HIDE DEF Is
  <2>1. QED
    BY <1>6 DEF w
<1>8. w[0] = Transactions!Current /\ \A n \in 1..N : w[n] = Transactions!SetExportParam(w[n - 1], batch[n])
  <2>1. \A n \in 1..N : n # 0
    OBVIOUS
  <2>2. 0 \in 0..N
    OBVIOUS
  <2>3. QED
    BY <1>1, <1>7, <2>1, <2>2
<1>9. \A n \in 0..N : w[n] \in SoundStates
  <2> DEFINE P == {n \in 0..N : w[n] \in SoundStates}
  <2>1. 0 \in P
    BY <1>4, <1>8
  <2>2. ASSUME NEW n \in 1..N, n - 1 \in P PROVE n \in P
    <3>1. w[n - 1] \in SoundStates
      BY <2>2
    <3>2. w[n] = move[n][w[n - 1]]
      BY <1>2, <1>8, <3>1
    <3>3. QED
      BY <1>1, <1>2, <3>1, <3>2
  <2> HIDE DEF P
  <2>3. \A n \in 0..N : n \in P
    BY <2>1, <2>2, InductUpto
  <2>4. QED
    BY <2>3 DEF P
<1>10. QED
  BY <1>3, <1>8, <1>9

RollsBack(s, batch, N, back) ==
  /\ Transactions!RolledBack(s, batch) = back[N] /\ back[0] = s
  /\ \A n \in 1..N : back[n] = Transactions!RollBack(back[n - 1], batch[n])
  /\ \A n \in 0..N : back[n] \in SoundStates

LEMMA RolledBackSays ==
  ASSUME TransactionsInv, NEW N \in Nat, NEW batch \in [1..N -> Objects \X Transactions!Values],
         Len(batch) = N, NEW s \in SoundStates
  PROVE  \E back : RollsBack(s, batch, N, back)
<1> DEFINE move == [n \in 1..N |-> [x \in SoundStates |-> Transactions!RollBack(x, batch[n])]]
           Is(f) == f = [n \in 0..N |-> IF n = 0 THEN s ELSE Transactions!RollBack(f[n - 1], batch[n])]
           w == CHOOSE f : Is(f)
<1>1. \A n \in 1..N : n - 1 \in 0..N /\ n \in 0..N
  OBVIOUS
<1>2. move \in [1..N -> [SoundStates -> SoundStates]]
      /\ \A n \in 1..N : \A x \in SoundStates : move[n][x] = Transactions!RollBack(x, batch[n])
  BY RollBackSays
<1>3. Transactions!RolledBack(s, batch) = w[N]
  BY DEF Transactions!RolledBack
<1>4. s \in SoundStates
  BY DEF TransactionsInv, Sound, SoundStates, States
<1> HIDE DEF move, w
<1>5. PICK f : /\ Iterates(N, s, move, f)
               /\ \A n \in 0..N : f[n] \in SoundStates
  BY <1>2, <1>4, Stepwise
<1>6. Is(f)
  <2>1. \A n \in 0..N : n # 0 => n \in 1..N
    OBVIOUS
  <2>2. \A n \in 0..N : n # 0 => move[n][f[n - 1]] = Transactions!RollBack(f[n - 1], batch[n])
    BY <1>1, <1>2, <1>5, <2>1
  <2>3. QED
    BY <1>5, <2>2 DEF Iterates
<1>7. Is(w)
  <2> HIDE DEF Is
  <2>1. QED
    BY <1>6 DEF w
<1>8. w[0] = s /\ \A n \in 1..N : w[n] = Transactions!RollBack(w[n - 1], batch[n])
  <2>1. \A n \in 1..N : n # 0
    OBVIOUS
  <2>2. 0 \in 0..N
    OBVIOUS
  <2>3. QED
    BY <1>1, <1>7, <2>1, <2>2
<1>9. \A n \in 0..N : w[n] \in SoundStates
  <2> DEFINE P == {n \in 0..N : w[n] \in SoundStates}
  <2>1. 0 \in P
    BY <1>4, <1>8
  <2>2. ASSUME NEW n \in 1..N, n - 1 \in P PROVE n \in P
    <3>1. w[n - 1] \in SoundStates
      BY <2>2
    <3>2. w[n] = move[n][w[n - 1]]
      BY <1>2, <1>8, <3>1
    <3>3. QED
      BY <1>1, <1>2, <3>1, <3>2
  <2> HIDE DEF P
  <2>3. \A n \in 0..N : n \in P
    BY <2>1, <2>2, InductUpto
  <2>4. QED
    BY <2>3 DEF P
<1>10. QED
  BY <1>3, <1>8, <1>9 DEF RollsBack

Concludes(s, listed, do_commit, clean, N, t) ==
  /\ Transactions!Conclude(s, listed, do_commit, clean) = t[N]
  /\ t[0] = [s EXCEPT !.failed = FALSE]
  /\ \A n \in 1..N : t[n] = EndStep(t[n - 1], listed[n], do_commit, clean)
  /\ \A n \in 0..N : t[n] \in SoundStates

LEMMA ConcludeSays ==
  ASSUME NEW N \in Nat, NEW listed \in [1..N -> Objects], Len(listed) = N,
         NEW s \in SoundStates, NEW do_commit, NEW clean
  PROVE  \E t : Concludes(s, listed, do_commit, clean, N, t)
<1> DEFINE move == [n \in 1..N |-> [x \in SoundStates |-> EndStep(x, listed[n], do_commit, clean)]]
           Is(f) == f = [n \in 0..N |-> IF n = 0 THEN [s EXCEPT !.failed = FALSE] ELSE EndStep(f[n - 1], listed[n], do_commit, clean)]
           w == CHOOSE f : Is(f)
<1>1. \A n \in 1..N : n - 1 \in 0..N /\ n \in 0..N
  OBVIOUS
<1>2. move \in [1..N -> [SoundStates -> SoundStates]]
      /\ \A n \in 1..N : \A x \in SoundStates : move[n][x] = EndStep(x, listed[n], do_commit, clean)
  BY EndSays
<1>3. Transactions!Conclude(s, listed, do_commit, clean) = w[N]
  BY DEF Transactions!Conclude, EndStep
<1>4. [s EXCEPT !.failed = FALSE] \in SoundStates
  BY DEF TransactionsInv, Sound, SoundStates, States
<1> HIDE DEF move, w
<1>5. PICK f : /\ Iterates(N, [s EXCEPT !.failed = FALSE], move, f)
               /\ \A n \in 0..N : f[n] \in SoundStates
  BY <1>2, <1>4, Stepwise
<1>6. Is(f)
  <2>1. \A n \in 0..N : n # 0 => n \in 1..N
    OBVIOUS
  <2>2. \A n \in 0..N : n # 0 => move[n][f[n - 1]] = EndStep(f[n - 1], listed[n], do_commit, clean)
    BY <1>1, <1>2, <1>5, <2>1
  <2>3. QED
    BY <1>5, <2>2 DEF Iterates
<1>7. Is(w)
  <2> HIDE DEF Is
  <2>1. QED
    BY <1>6 DEF w
<1>8. w[0] = [s EXCEPT !.failed = FALSE] /\ \A n \in 1..N : w[n] = EndStep(w[n - 1], listed[n], do_commit, clean)
  <2>1. \A n \in 1..N : n # 0
    OBVIOUS
  <2>2. 0 \in 0..N
    OBVIOUS
  <2>3. QED
    BY <1>1, <1>7, <2>1, <2>2
<1>9. \A n \in 0..N : w[n] \in SoundStates
  <2> DEFINE P == {n \in 0..N : w[n] \in SoundStates}
  <2>1. 0 \in P
    BY <1>4, <1>8
  <2>2. ASSUME NEW n \in 1..N, n - 1 \in P PROVE n \in P
    <3>1. w[n - 1] \in SoundStates
      BY <2>2
    <3>2. w[n] = move[n][w[n - 1]]
      BY <1>2, <1>8, <3>1
    <3>3. QED
      BY <1>1, <1>2, <3>1, <3>2
  <2> HIDE DEF P
  <2>3. \A n \in 0..N : n \in P
    BY <2>1, <2>2, InductUpto
  <2>4. QED
    BY <2>3 DEF P
<1>10. QED
  BY <1>3, <1>8, <1>9 DEF Concludes

\* After n writes of a request that begins with no pending ones.
AfterWrites(batch, n, s) ==
  /\ s.dirty = {batch[i][1] : i \in 1..n}
  /\ \A p \in Objects \ s.dirty : s.config[p] = config[p]
  /\ \A p \in s.dirty : /\ s.config[p] # "none" /\ (p \in Copying => s.old[p] = config[p])
                        /\ \/ s.config[p] = config[p]
                           \/ \E i \in 1..n : batch[i][1] = p /\ batch[i][2] = s.config[p]

LEMMA OneMoreWrite ==
  ASSUME TransactionsInv, Transactions!TransactionsAssumption, NEW N \in Nat,
         NEW batch \in [1..N -> Objects \X Transactions!Values], NEW n \in 1..N,
         \A i \in 1..N : config[batch[i][1]] # "none",
         NEW s \in SoundStates, AfterWrites(batch, n - 1, s)
  PROVE  AfterWrites(batch, n, Transactions!SetExportParam(s, batch[n]))
<1> DEFINE o == batch[n][1]
           v == batch[n][2]
           t == Transactions!SetExportParam(s, batch[n])
<1>1. /\ t \in SoundStates /\ t.dirty = s.dirty \cup {o}
      /\ \A p \in Objects : t.config[p] =
           IF p = o /\ v # "late" /\ s.config[p] # "none" THEN v ELSE s.config[p]
      /\ \A p \in Objects : t.old[p] =
           IF p = o /\ p \notin s.dirty /\ p \in Copying THEN s.config[p] ELSE s.old[p]
  BY SetSays
<1>2. \A i \in 1..n : i = n \/ i \in 1..(n - 1)
  OBVIOUS
<1>3. n \in 1..n /\ \A i \in 1..(n - 1) : i \in 1..n
  OBVIOUS
<1>4. o \in Objects /\ v \in Transactions!Values /\ config[o] # "none"
  OBVIOUS
<1>5. v # "none"
  BY <1>4 DEF Transactions!TransactionsAssumption, Transactions!Values
<1>6. t.dirty = {batch[i][1] : i \in 1..n}
  BY <1>1, <1>2, <1>3 DEF AfterWrites
<1> HIDE DEF t
<1>7. \A p \in Objects \ t.dirty : t.config[p] = config[p]
  BY <1>1 DEF AfterWrites
<1>8. \A p \in t.dirty : p \in Objects
  BY <1>1 DEF SoundStates, States
<1>9. ASSUME NEW p \in t.dirty
      PROVE  /\ t.config[p] # "none" /\ (p \in Copying => t.old[p] = config[p])
             /\ \/ t.config[p] = config[p]
                \/ \E i \in 1..n : batch[i][1] = p /\ batch[i][2] = t.config[p]
  <2>1. CASE p = o /\ p \notin s.dirty
    <3>1. s.config[p] = config[p] /\ p \in Objects
      BY <1>4, <2>1 DEF AfterWrites
    <3>2. t.config[p] = v \/ t.config[p] = config[p]
      BY <1>1, <3>1
    <3>3. p \in Copying => t.old[p] = config[p]
      BY <1>1, <2>1, <3>1
    <3> HIDE DEF v
    <3>4. t.config[p] # "none"
      BY <1>4, <1>5, <2>1, <3>2
    <3>5. QED
      BY <1>3, <2>1, <3>2, <3>3, <3>4 DEF v
  <2>2. CASE p \in s.dirty
    <3>1. /\ s.config[p] # "none" /\ (p \in Copying => s.old[p] = config[p])
          /\ \/ s.config[p] = config[p]
             \/ \E i \in 1..(n - 1) : batch[i][1] = p /\ batch[i][2] = s.config[p]
      BY <2>2 DEF AfterWrites
    <3>2. t.old[p] = s.old[p] /\ (t.config[p] = s.config[p] \/ (p = o /\ t.config[p] = v))
      BY <1>1, <1>8, <2>2
    <3> HIDE DEF v, o
    <3>3. CASE t.config[p] = s.config[p]
      BY <1>3, <3>1, <3>2, <3>3
    <3>4. CASE p = o /\ t.config[p] = v
      BY <1>3, <1>5, <3>1, <3>2, <3>4 DEF o, v
    <3>5. QED
      BY <3>2, <3>3, <3>4
  <2>3. QED
    BY <1>1, <2>1, <2>2
<1>10. QED
  BY <1>6, <1>7, <1>9 DEF AfterWrites, t

LEMMA AllWritten ==
  ASSUME TransactionsInv, Transactions!TransactionsAssumption, dirty = {}, NEW N \in Nat,
         NEW batch \in [1..N -> Objects \X Transactions!Values], Len(batch) = N,
         \A i \in 1..N : config[batch[i][1]] # "none"
  PROVE  AfterWrites(batch, N, Transactions!Writes(batch)[N]) /\ Transactions!Writes(batch)[N] \in SoundStates
<1> DEFINE w == Transactions!Writes(batch)
           P == {n \in 0..N : AfterWrites(batch, n, w[n])}
<1>1. /\ w[0] = Transactions!Current
      /\ \A n \in 1..N : w[n] = Transactions!SetExportParam(w[n - 1], batch[n])
      /\ \A n \in 0..N : w[n] \in SoundStates
  BY WritesSay
<1>2. \A n \in 1..N : n - 1 \in 0..N /\ n \in 0..N
  OBVIOUS
<1>3. 0 \in 0..N /\ N \in 0..N
  OBVIOUS
<1> HIDE DEF w
<1>4. 0 \in P
  <2>1. Transactions!Current.dirty = {} /\ Transactions!Current.config = config
    BY DEF Transactions!Current
  <2>2. {batch[i][1] : i \in 1..0} = {}
    OBVIOUS
  <2>3. AfterWrites(batch, 0, Transactions!Current)
    BY <2>1, <2>2 DEF AfterWrites
  <2>4. QED
    BY <1>1, <1>3, <2>3
<1>5. ASSUME NEW n \in 1..N, n - 1 \in P PROVE n \in P
  <2>1. AfterWrites(batch, n - 1, w[n - 1]) /\ w[n - 1] \in SoundStates
    BY <1>1, <1>2, <1>5
  <2>2. AfterWrites(batch, n, Transactions!SetExportParam(w[n - 1], batch[n]))
    BY <2>1, OneMoreWrite
  <2>3. QED
    BY <1>1, <1>2, <2>2
<1> HIDE DEF P
<1>6. \A n \in 0..N : n \in P
  BY <1>4, <1>5, InductUpto
<1>7. QED
  BY <1>1, <1>3, <1>6 DEF P, w

\* The roll back gives every object that was written the value it had.
LEMMA AllRolledBack ==
  ASSUME TransactionsInv, NEW N \in Nat,
         NEW batch \in [1..N -> Objects \X Transactions!Values], Len(batch) = N,
         \A i \in 1..N : config[batch[i][1]] # "none",
         NEW s \in SoundStates, AfterWrites(batch, N, s)
  PROVE  LET r == Transactions!RolledBack(s, batch) IN
         /\ r \in SoundStates /\ r.dirty = s.dirty /\ r.old = s.old
         /\ \A p \in Objects : r.config[p] = config[p]
<1>0. PICK back : RollsBack(s, batch, N, back)
  BY RolledBackSays
<1>1. /\ Transactions!RolledBack(s, batch) = back[N] /\ back[0] = s
      /\ \A n \in 1..N : back[n] = Transactions!RollBack(back[n - 1], batch[n])
      /\ \A n \in 0..N : back[n] \in SoundStates
  BY <1>0 DEF RollsBack
<1> DEFINE Is(n) == /\ back[n].dirty = s.dirty /\ back[n].old = s.old
                    /\ \A p \in Objects : back[n].config[p] \in {config[p], s.config[p]}
                    /\ \A i \in 1..n : batch[i][2] # config[batch[i][1]] =>
                         back[n].config[batch[i][1]] = config[batch[i][1]]
           P == {n \in 0..N : Is(n)}
<1>2. \A n \in 1..N : n - 1 \in 0..N /\ n \in 0..N
  OBVIOUS
<1>3. 0 \in 0..N /\ N \in 0..N
  OBVIOUS
<1>4. 0 \in P
  <2>1. \A i \in 1..0 : FALSE
    OBVIOUS
  <2>2. QED
    BY <1>1, <1>3, <2>1
<1>5. ASSUME NEW n \in 1..N, n - 1 \in P PROVE n \in P
  <2> DEFINE a == back[n - 1]
             o == batch[n][1]
             v == batch[n][2]
  <2>1. Is(n - 1)
    BY <1>5
  <2>2. a \in SoundStates /\ o \in Objects /\ back[n] = Transactions!RollBack(a, batch[n])
    BY <1>1, <1>2
  <2>3. /\ back[n].old = a.old /\ back[n].dirty = a.dirty
        /\ \A p \in Objects : back[n].config[p] =
             IF p = o /\ v # config[p] /\ a.config[p] # "none" THEN config[p] ELSE a.config[p]
    <3>1. batch[n] \in Objects \X Transactions!Values
      OBVIOUS
    <3>2. /\ Transactions!RollBack(a, batch[n]).old = a.old /\ Transactions!RollBack(a, batch[n]).dirty = a.dirty
          /\ \A p \in Objects : Transactions!RollBack(a, batch[n]).config[p] =
               IF p = batch[n][1] /\ batch[n][2] # config[p] /\ a.config[p] # "none"
               THEN config[p] ELSE a.config[p]
      BY <2>2, <3>1, RollBackSays, Zenon
    <3>3. QED
      BY <2>2, <3>2
  <2>4. o \in s.dirty /\ s.config[o] # "none" /\ config[o] # "none"
    BY DEF AfterWrites
  <2>5. a.config[o] # "none"
    BY <2>1, <2>2, <2>4
  <2>6. \A p \in Objects : back[n].config[p] \in {config[p], s.config[p]}
    BY <2>1, <2>3
  <2>7. ASSUME NEW i \in 1..n, batch[i][2] # config[batch[i][1]]
        PROVE  back[n].config[batch[i][1]] = config[batch[i][1]]
    <3>1. i \in 1..N /\ batch[i][1] \in Objects /\ (i = n \/ i \in 1..(n - 1))
      OBVIOUS
    <3>2. CASE i = n
      BY <2>2, <2>3, <2>5, <2>7, <3>2
    <3>3. CASE i \in 1..(n - 1)
      <4>1. a.config[batch[i][1]] = config[batch[i][1]]
        BY <2>1, <2>7, <3>3
      <4>2. QED
        BY <2>3, <3>1, <4>1
    <3>4. QED
      BY <3>1, <3>2, <3>3
  <2>8. QED
    BY <1>2, <2>1, <2>3, <2>6, <2>7
<1> HIDE DEF P
<1>6. \A n \in 0..N : n \in P
  BY <1>4, <1>5, InductUpto
<1>7. Is(N)
  BY <1>3, <1>6 DEF P
<1>8. ASSUME NEW p \in Objects PROVE back[N].config[p] = config[p]
  <2>1. CASE s.config[p] = config[p]
    BY <1>7, <2>1
  <2>2. CASE s.config[p] # config[p]
    <3>1. PICK i \in 1..N : batch[i][1] = p /\ batch[i][2] = s.config[p]
      BY <2>2 DEF AfterWrites
    <3>2. QED
      BY <1>7, <2>2, <3>1
  <2>3. QED
    BY <2>1, <2>2
<1>9. QED
  BY <1>1, <1>3, <1>7, <1>8

\* The end of the refused request.
LEMMA AllAbandoned ==
  ASSUME TransactionsInv, NEW s \in SoundStates, IsFiniteSet(s.dirty),
         \A p \in Objects : s.config[p] = config[p],
         \A p \in s.dirty : p \in Copying => s.old[p] = config[p],
         NEW listed \in Transactions!Orders(s.dirty)
  PROVE  LET r == Transactions!Conclude(s, listed, FALSE, TRUE) IN
         r \in SoundStates /\ r.dirty = {} /\ r.open = {} /\ r.config = config
<1> DEFINE S == s.dirty
           N == Cardinality(S)
<1>1. N \in Nat /\ listed \in [1..N -> S] /\ S \subseteq Objects
  BY FS_CardinalityType, TransactionSizes DEF Transactions!Orders, SoundStates, States
<1>2. \A o \in S : \E i \in 1..N : listed[i] = o /\ \A j \in (1..N) \ {i} : listed[j] # o
  BY <1>1 DEF Transactions!Orders
<1> HIDE DEF N, S
<1>3. Len(listed) = N /\ listed \in [1..N -> Objects]
  BY <1>1
<1>0. PICK t : Concludes(s, listed, FALSE, TRUE, N, t)
  BY <1>1, <1>3, ConcludeSays
<1>4. /\ Transactions!Conclude(s, listed, FALSE, TRUE) = t[N]
      /\ t[0] = [s EXCEPT !.failed = FALSE]
      /\ \A n \in 1..N : t[n] = EndStep(t[n - 1], listed[n], FALSE, TRUE)
      /\ \A n \in 0..N : t[n] \in SoundStates
  BY <1>0 DEF Concludes
<1> DEFINE done(n) == {listed[i] : i \in 1..n}
           Is(n) == /\ ~t[n].failed /\ t[n].dirty = S \ done(n)
                    /\ \A p \in Objects : t[n].config[p] = config[p]
                    /\ \A p \in Objects \ done(n) : t[n].old[p] = s.old[p]
           P == {n \in 0..N : Is(n)}
<1>5. \A n \in 1..N : n - 1 \in 0..N /\ n \in 0..N
  BY <1>1
<1>6. 0 \in 0..N /\ N \in 0..N
  BY <1>1
<1>7. 0 \in P
  <2>1. done(0) = {}
    OBVIOUS
  <2>2. ~t[0].failed /\ t[0].dirty = S /\ t[0].config = s.config /\ t[0].old = s.old
    BY <1>4 DEF SoundStates, States, S
  <2> HIDE DEF done
  <2>3. QED
    BY <1>6, <2>1, <2>2
<1>8. ASSUME NEW n \in 1..N, n - 1 \in P PROVE n \in P
  <2> DEFINE a == t[n - 1]
             o == listed[n]
  <2>1. Is(n - 1)
    BY <1>8
  <2>2. a \in SoundStates /\ o \in S /\ o \in Objects
        /\ t[n] = EndStep(a, o, FALSE, TRUE)
    BY <1>1, <1>4, <1>5
  <2>3. /\ ~t[n].failed /\ t[n].dirty = a.dirty \ {o}
        /\ \A p \in Objects : t[n].config[p] = IF p = o /\ o \in Copying THEN a.old[o] ELSE a.config[p]
        /\ \A p \in Objects \ {o} : t[n].old[p] = a.old[p]
    <3>1. ~a.failed /\ a \in SoundStates /\ o \in Objects
      BY <2>1, <2>2
    <3>2. LET u == EndStep(a, o, FALSE, TRUE) IN
            /\ ~u.failed /\ u.dirty = a.dirty \ {o}
            /\ \A p \in Objects : u.config[p] = IF p = o /\ o \in Copying THEN a.old[o] ELSE a.config[p]
            /\ \A p \in Objects \ {o} : u.old[p] = a.old[p]
      BY <3>1, AbandonEnds
    <3>3. QED
      BY <2>2, <3>2
  <2>4. o \notin done(n - 1)
    <3>1. PICK i \in 1..N : listed[i] = o /\ \A j \in (1..N) \ {i} : listed[j] # o
      BY <1>2, <2>2
    <3>2. i = n
      BY <3>1
    <3>3. \A j \in 1..(n - 1) : j \in (1..N) \ {n}
      BY <1>1
    <3>4. QED
      BY <3>1, <3>2, <3>3
  <2>5. done(n) = done(n - 1) \cup {o}
    <3>1. \A i : i \in 1..n <=> i \in 1..(n - 1) \/ i = n
      BY <1>1
    <3>2. QED
      BY <3>1
  <2>6. o \in Copying => a.old[o] = config[o]
    BY <2>1, <2>2, <2>4 DEF S
  <2> HIDE DEF done
  <2>7. QED
    BY <1>5, <2>1, <2>2, <2>3, <2>5, <2>6
<1> HIDE DEF P
<1>9. \A n \in 0..N : n \in P
  BY <1>7, <1>8, InductUpto, <1>1
<1>10. Is(N)
  BY <1>6, <1>9 DEF P
<1>11. S \subseteq done(N)
  BY <1>2
<1> HIDE DEF done
<1>12. t[N] \in SoundStates /\ t[N].dirty = {}
  BY <1>4, <1>6, <1>10, <1>11
<1>13. t[N].open = {}
  BY <1>12 DEF SoundStates
<1>14. t[N].config = config
  <2>1. t[N].config \in [Objects -> Stored] /\ config \in [Objects -> Stored]
    BY <1>12 DEF SoundStates, States, TransactionsInv, Sound, Transactions!Current
  <2>2. QED
    BY <1>10, <2>1
<1>15. QED
  BY <1>4, <1>12, <1>13, <1>14

\* The objects of a request are finitely many.
LEMMA WrittenSays ==
  ASSUME NEW N \in Nat, NEW batch \in [1..N -> Objects \X Transactions!Values]
  PROVE  IsFiniteSet({batch[i][1] : i \in 1..N})
<1> DEFINE f == [i \in 1..N |-> batch[i][1]]
           T == {batch[i][1] : i \in 1..N}
<1>1. IsFiniteSet(1..N)
  BY FS_Interval
<1>2. f \in Surjection(1..N, T)
  BY DEF Surjection
<1> HIDE DEF f, T
<1>3. IsFiniteSet(T)
  BY <1>1, <1>2, FS_Surjection
<1>4. QED
  BY <1>3 DEF T

LEMMA BatchSays ==
  ASSUME NEW batch \in Transactions!Batches, MaxWrites \in Nat
  PROVE  \E N \in Nat : N # 0 /\ batch \in [1..N -> Objects \X Transactions!Values] /\ Len(batch) = N
                       /\ DOMAIN batch = 1..N
<1>1. PICK N \in 1..MaxWrites : batch \in [1..N -> Objects \X Transactions!Values]
  BY DEF Transactions!Batches
<1>2. N \in Nat /\ N # 0
  OBVIOUS
<1>3. Len(batch) = N /\ DOMAIN batch = 1..N
  BY <1>1, <1>2
<1>4. QED
  BY <1>1, <1>2, <1>3

\* Whatever becomes of the objects, the state stays sound.
LEMMA ConcludeSound ==
  ASSUME NEW S \in SUBSET Objects, IsFiniteSet(S), NEW listed \in Transactions!Orders(S),
         NEW s \in SoundStates, NEW do_commit, NEW clean
  PROVE  Transactions!Conclude(s, listed, do_commit, clean) \in SoundStates
<1> DEFINE N == Cardinality(S)
<1>1. N \in Nat /\ listed \in [1..N -> S]
  BY FS_CardinalityType, TransactionSizes DEF Transactions!Orders
<1> HIDE DEF N
<1>2. Len(listed) = N /\ listed \in [1..N -> Objects] /\ N \in 0..N
  BY <1>1
<1>3. PICK t : Concludes(s, listed, do_commit, clean, N, t)
  BY <1>1, <1>2, ConcludeSays
<1>4. QED
  BY <1>2, <1>3 DEF Concludes

LEMMA BecomeSound ==
  ASSUME NEW s \in SoundStates, Transactions!Become(s),
         result' \in {"none", "done", "rejected", "failed"}
  PROVE  TransactionsInv'
<1>1. /\ config' \in [Objects -> Stored] /\ oldConfig' \in [Objects -> Stored]
      /\ dirty' \subseteq Objects /\ open' \subseteq Objects /\ open' \subseteq dirty'
  BY DEF Transactions!Become, SoundStates, States
<1>2. FALSE \in BOOLEAN
  OBVIOUS
<1>3. QED
  BY <1>1, <1>2 DEF TransactionsInv, Sound, Transactions!Current, States

LEMMA TransactionSound ==
  ASSUME TransactionsInv, Transactions!TransactionsAssumption, Transactions!SetParameterValues
  PROVE  TransactionsInv'
<1>1. PICK batch \in Transactions!Batches :
    LET marked == Transactions!Writes(batch)[Len(batch)]
    IN \/ /\ \/ \E o \in Transactions!Written(batch) : config[o] = "none"
             \/ \E i \in DOMAIN batch : batch[i][2] = "bad"
          /\ result' = "rejected"
          /\ UNCHANGED <<config, oldConfig, dirty, open>>
       \/ /\ \A o \in Transactions!Written(batch) : config[o] # "none"
          /\ \A i \in DOMAIN batch : batch[i][2] # "bad"
          /\ \E listed \in Transactions!Orders(Transactions!Written(batch)) :
               IF marked.failed
               THEN /\ Transactions!Become(Transactions!Conclude(Transactions!RolledBack(marked, batch), listed, FALSE, TRUE))
                    /\ result' = "rejected"
               ELSE LET s == Transactions!Conclude(marked, listed, TRUE, TRUE)
                    IN Transactions!Become(s) /\ result' = IF s.failed THEN "failed" ELSE "done"
  BY DEF Transactions!SetParameterValues
<1>2. PICK N \in Nat : N # 0 /\ batch \in [1..N -> Objects \X Transactions!Values] /\ Len(batch) = N
                       /\ DOMAIN batch = 1..N
  BY BatchSays DEF Transactions!TransactionsAssumption
<1> DEFINE marked == Transactions!Writes(batch)[N]
           S == Transactions!Written(batch)
<1>3. marked \in SoundStates
  <2>1. N \in 0..N
    OBVIOUS
  <2>2. QED
    BY <1>2, <2>1, WritesSay
<1>4. S = {batch[i][1] : i \in 1..N} /\ IsFiniteSet(S) /\ S \subseteq Objects
  BY <1>2, WrittenSays DEF Transactions!Written
<1> HIDE DEF marked, S
<1>5. CASE result' = "rejected" /\ UNCHANGED <<config, oldConfig, dirty, open>>
  BY <1>5 DEF TransactionsInv, Sound, Transactions!Current
<1>6. ASSUME NEW listed \in Transactions!Orders(S),
             Transactions!Become(Transactions!Conclude(Transactions!RolledBack(marked, batch), listed, FALSE, TRUE)),
             result' = "rejected"
      PROVE  TransactionsInv'
  <2>1. PICK back : RollsBack(marked, batch, N, back)
    BY <1>2, <1>3, RolledBackSays
  <2>2. N \in 0..N
    OBVIOUS
  <2>3. Transactions!RolledBack(marked, batch) \in SoundStates
    BY <2>1, <2>2 DEF RollsBack
  <2>4. Transactions!Conclude(Transactions!RolledBack(marked, batch), listed, FALSE, TRUE) \in SoundStates
    BY <1>4, <2>3, ConcludeSound
  <2>5. QED
    BY <1>6, <2>4, BecomeSound
<1>7. ASSUME NEW listed \in Transactions!Orders(S),
             Transactions!Become(Transactions!Conclude(marked, listed, TRUE, TRUE)), result' \in {"failed", "done"}
      PROVE  TransactionsInv'
  <2>1. Transactions!Conclude(marked, listed, TRUE, TRUE) \in SoundStates
    BY <1>3, <1>4, ConcludeSound
  <2>2. QED
    BY <1>7, <2>1, BecomeSound
<1>8. QED
  <2>1. marked = Transactions!Writes(batch)[Len(batch)] /\ S = Transactions!Written(batch)
    BY <1>2 DEF marked, S
  <2>2. CASE \E listed \in Transactions!Orders(S) :
               IF marked.failed
               THEN /\ Transactions!Become(Transactions!Conclude(Transactions!RolledBack(marked, batch), listed, FALSE, TRUE))
                    /\ result' = "rejected"
               ELSE LET s == Transactions!Conclude(marked, listed, TRUE, TRUE)
                    IN Transactions!Become(s) /\ result' = IF s.failed THEN "failed" ELSE "done"
    BY <1>6, <1>7, <2>2
  <2>3. QED
    BY <1>1, <1>5, <2>1, <2>2

LEMMA CmdSetSound ==
  ASSUME TransactionsInv, Transactions!TransactionsAssumption, Transactions!CmdSet
  PROVE  TransactionsInv'
<1>1. PICK batch \in Transactions!Batches :
    LET ends  == {n \in DOMAIN batch : Transactions!Writes(batch)[n].failed}
        n     == IF ends = {} THEN Len(batch) ELSE CHOOSE i \in ends : \A j \in ends : i <= j
        added == {batch[i][1] : i \in IF ends = {} THEN 1..n ELSE 1..(n - 1)}
    IN \E listed \in Transactions!Orders(added) :
         LET s == Transactions!Conclude(Transactions!Writes(batch)[n], listed, ends = {}, FALSE)
         IN /\ Transactions!Become(s)
            /\ result' = IF ends # {} \/ s.failed THEN "failed" ELSE "done"
  BY DEF Transactions!CmdSet
<1>2. PICK N \in Nat : N # 0 /\ batch \in [1..N -> Objects \X Transactions!Values] /\ Len(batch) = N
                       /\ DOMAIN batch = 1..N
  BY BatchSays DEF Transactions!TransactionsAssumption
<1> DEFINE ends  == {n \in DOMAIN batch : Transactions!Writes(batch)[n].failed}
           n     == IF ends = {} THEN Len(batch) ELSE CHOOSE i \in ends : \A j \in ends : i <= j
           k     == IF ends = {} THEN n ELSE n - 1
           added == {batch[i][1] : i \in IF ends = {} THEN 1..n ELSE 1..(n - 1)}
<1>3. n \in 1..N
  <2>1. CASE ends = {}
    BY <1>2, <2>1
  <2>2. CASE ends # {}
    <3>1. ends \in SUBSET Nat /\ ends \subseteq 1..N
      BY <1>2
    <3> HIDE DEF ends
    <3>2. \E i \in ends : \A j \in ends : i <= j
      BY <2>2, <3>1, LeastNatural
    <3>3. QED
      BY <2>2, <3>1, <3>2
  <2>3. QED
    BY <2>1, <2>2
<1>4. PICK listed \in Transactions!Orders(added) :
        LET s == Transactions!Conclude(Transactions!Writes(batch)[n], listed, ends = {}, FALSE)
        IN /\ Transactions!Become(s)
           /\ result' = IF ends # {} \/ s.failed THEN "failed" ELSE "done"
  BY <1>1
<1> DEFINE commit == ends = {}
           s == Transactions!Conclude(Transactions!Writes(batch)[n], listed, commit, FALSE)
<1>5. added = {batch[i][1] : i \in 1..k}
  OBVIOUS
<1>6. Transactions!Become(s) /\ result' \in {"failed", "done"}
  BY <1>4
<1> HIDE DEF commit
<1> HIDE DEF ends, added, n
<1>7. k \in Nat /\ \A i \in 1..k : i \in 1..N
  BY <1>3
<1> HIDE DEF k
<1>8. added \subseteq Objects /\ IsFiniteSet(added)
  <2> DEFINE some == [i \in 1..k |-> batch[i]]
  <2>1. some \in [1..k -> Objects \X Transactions!Values] /\ added = {some[i][1] : i \in 1..k}
    BY <1>2, <1>5, <1>7
  <2> HIDE DEF some
  <2>2. IsFiniteSet({some[i][1] : i \in 1..k})
    BY <1>7, <2>1, WrittenSays
  <2>3. added \subseteq Objects
    BY <2>1
  <2>4. QED
    BY <2>1, <2>2, <2>3
<1>9. Transactions!Writes(batch)[n] \in SoundStates
  <2>1. n \in 0..N
    BY <1>3
  <2>2. QED
    BY <1>2, <2>1, WritesSay
<1>10. s \in SoundStates
  BY <1>8, <1>9, ConcludeSound
<1> HIDE DEF s
<1>11. QED
  BY <1>6, <1>10, BecomeSound

\* A refused request changes nothing.
LEMMA RefusedStep ==
  ASSUME TransactionsInv, Transactions!TransactionsAssumption, Transactions!SetParameterValues,
         dirty = {}, result' = "rejected"
  PROVE  config' = config /\ dirty' = {} /\ open' = {}
<1>1. PICK batch \in Transactions!Batches :
    LET marked == Transactions!Writes(batch)[Len(batch)]
    IN \/ /\ \/ \E o \in Transactions!Written(batch) : config[o] = "none"
             \/ \E i \in DOMAIN batch : batch[i][2] = "bad"
          /\ result' = "rejected"
          /\ UNCHANGED <<config, oldConfig, dirty, open>>
       \/ /\ \A o \in Transactions!Written(batch) : config[o] # "none"
          /\ \A i \in DOMAIN batch : batch[i][2] # "bad"
          /\ \E listed \in Transactions!Orders(Transactions!Written(batch)) :
               IF marked.failed
               THEN /\ Transactions!Become(Transactions!Conclude(Transactions!RolledBack(marked, batch), listed, FALSE, TRUE))
                    /\ result' = "rejected"
               ELSE LET s == Transactions!Conclude(marked, listed, TRUE, TRUE)
                    IN Transactions!Become(s) /\ result' = IF s.failed THEN "failed" ELSE "done"
  BY DEF Transactions!SetParameterValues
<1>2. PICK N \in Nat : N # 0 /\ batch \in [1..N -> Objects \X Transactions!Values] /\ Len(batch) = N
                       /\ DOMAIN batch = 1..N
  BY BatchSays DEF Transactions!TransactionsAssumption
<1>3. CASE UNCHANGED <<config, oldConfig, dirty, open>>
  <2>1. open \subseteq dirty
    BY DEF TransactionsInv, Sound, Transactions!Current
  <2>2. QED
    BY <1>3, <2>1
<1>4. ASSUME NEW listed \in Transactions!Orders(Transactions!Written(batch)),
             \A o \in Transactions!Written(batch) : config[o] # "none",
             Transactions!Become(Transactions!Conclude(Transactions!RolledBack(Transactions!Writes(batch)[N], batch), listed, FALSE, TRUE))
      PROVE  config' = config /\ dirty' = {} /\ open' = {}
  <2> DEFINE marked == Transactions!Writes(batch)[N]
             r == Transactions!RolledBack(marked, batch)
             t == Transactions!Conclude(r, listed, FALSE, TRUE)
  <2>1. \A i \in 1..N : config[batch[i][1]] # "none"
    BY <1>2, <1>4 DEF Transactions!Written
  <2>2. AfterWrites(batch, N, marked) /\ marked \in SoundStates
    BY <1>2, <2>1, AllWritten
  <2> HIDE DEF marked
  <2>3. /\ r \in SoundStates /\ r.dirty = marked.dirty /\ r.old = marked.old
        /\ \A p \in Objects : r.config[p] = config[p]
    BY <1>2, <2>1, <2>2, AllRolledBack
  <2>4. marked.dirty = Transactions!Written(batch) /\ IsFiniteSet(Transactions!Written(batch))
    BY <1>2, <2>2, WrittenSays DEF AfterWrites, Transactions!Written
  <2>5. \A p \in r.dirty : p \in Copying => r.old[p] = config[p]
    BY <2>2, <2>3 DEF AfterWrites
  <2> HIDE DEF r
  <2>6. t.dirty = {} /\ t.open = {} /\ t.config = config
    BY <1>4, <2>3, <2>4, <2>5, AllAbandoned
  <2>7. Transactions!Become(t)
    BY <1>4 DEF r, marked
  <2> HIDE DEF t
  <2>8. QED
    BY <2>6, <2>7 DEF Transactions!Become
<1>5. QED
  <2>1. result' # "failed" /\ result' # "done"
    OBVIOUS
  <2>2. CASE \E listed \in Transactions!Orders(Transactions!Written(batch)) :
               IF Transactions!Writes(batch)[N].failed
               THEN /\ Transactions!Become(Transactions!Conclude(Transactions!RolledBack(Transactions!Writes(batch)[N], batch), listed, FALSE, TRUE))
                    /\ result' = "rejected"
               ELSE LET s == Transactions!Conclude(Transactions!Writes(batch)[N], listed, TRUE, TRUE)
                    IN Transactions!Become(s) /\ result' = IF s.failed THEN "failed" ELSE "done"
    BY <1>1, <1>2, <1>3, <1>4, <2>1, <2>2
  <2>3. QED
    BY <1>1, <1>2, <1>3, <2>2

THEOREM TransactionsSafe ==
  ASSUME Transactions!TransactionsAssumption
  PROVE  Transactions!Spec => []Transactions!TypeOK /\ Transactions!RefusedChangesNothing
<1>1. Transactions!Init => TransactionsInv
  <2> SUFFICES ASSUME Transactions!Init PROVE TransactionsInv
    OBVIOUS
  <2>1. Accepted \subseteq Stored /\ "none" \in Stored
    BY DEF Transactions!TransactionsAssumption, Stored, Transactions!Values
  <2>2. config \in [Objects -> Stored] /\ oldConfig \in [Objects -> Stored]
    BY <2>1 DEF Transactions!Init
  <2>3. dirty = {} /\ open = {} /\ result = "none" /\ FALSE \in BOOLEAN
    BY DEF Transactions!Init
  <2>4. QED
    BY <2>2, <2>3 DEF TransactionsInv, Sound, Transactions!Current, States
<1>2. TransactionsInv /\ [Transactions!Next]_Transactions!transactionVars => TransactionsInv'
  <2> SUFFICES ASSUME TransactionsInv, [Transactions!Next]_Transactions!transactionVars PROVE TransactionsInv'
    OBVIOUS
  <2>1. CASE UNCHANGED Transactions!transactionVars
    BY <2>1 DEF Transactions!transactionVars, TransactionsInv, Sound, Transactions!Current
  <2>2. QED
    BY <2>1, TransactionSound, CmdSetSound DEF Transactions!Next
<1>3. TransactionsInv => Transactions!TypeOK
  BY DEF TransactionsInv, Sound, Transactions!Current, States, Stored, Transactions!TypeOK
<1>4. TransactionsInv /\ [Transactions!Next]_Transactions!transactionVars =>
        [dirty = {} /\ result' = "rejected" /\ Transactions!SetParameterValues
           => config' = config /\ dirty' = {} /\ open' = {}]_Transactions!transactionVars
  BY RefusedStep
<1>5. QED
  BY <1>1, <1>2, <1>3, <1>4, PTL DEF Transactions!Spec, Transactions!RefusedChangesNothing

-----------------------------------------------------------------------------
(* The lists of objects                                                    *)
(*                                                                         *)
(* What an answer ever named has an index up to _lastindex, and what is    *)
(* added an index above it.                                                *)

Upto(n) == AddableLists \X (1..n)

ListsInv ==
  /\ Lists!TypeOK /\ Lists!IndexGivenOnce
  /\ told \cup given \subseteq Upto(lastindex)

\* The next k indices after n.
LEMMA NextSays ==
  ASSUME NEW n \in 0..MaxListIndex, NEW k \in Nat, n + k <= MaxListIndex, MaxListIndex \in Nat,
         NEW l, k # 0 => l \in AddableLists
  PROVE  /\ {l} \X Lists!Next1(n, k) \subseteq Upto(n + k)
         /\ {l} \X Lists!Next1(n, k) \subseteq Upto(MaxListIndex)
         /\ \A x \in {l} \X Lists!Next1(n, k) : x \notin Upto(n)
<1>1. \A i \in Lists!Next1(n, k) : i \in 1..(n + k) /\ i \in 1..MaxListIndex /\ i \notin 1..n /\ k # 0
  BY DEF Lists!Next1
<1>2. QED
  BY <1>1 DEF Upto

LEMMA UptoMore ==
  ASSUME NEW n \in Nat, NEW m \in Nat, n <= m
  PROVE  Upto(n) \subseteq Upto(m)
<1>1. 1..n \subseteq 1..m
  OBVIOUS
<1>2. QED
  BY <1>1 DEF Upto

\* A request that names new objects, or none: their indices are above _lastindex.
LEMMA AddStep ==
  ASSUME ListsInv, Lists!ObjectListsAssumption, NEW a \in {"added", "fault"}, NEW new,
         Lists!Answer(a, new), lastindex' \in 0..MaxListIndex, lastindex <= lastindex',
         new \subseteq Upto(lastindex'),
         \A x \in new : x \notin Upto(lastindex),
         objects' \subseteq objects \cup new,
         a = "added" => new \subseteq objects',
         UNCHANGED attributes
  PROVE  ListsInv'
<1>1. lastindex \in 0..MaxListIndex /\ MaxListIndex \in Nat
  BY DEF ListsInv, Lists!TypeOK, Lists!ObjectListsAssumption
<1>2. Upto(lastindex) \subseteq Upto(lastindex') /\ Upto(lastindex') \subseteq Upto(MaxListIndex)
  BY <1>1, UptoMore
<1>3. told' \subseteq new /\ given' = given \cup told /\ (told' # {} => a = "added")
  BY DEF Lists!Answer
<1>4. told' \cup given' \subseteq Upto(lastindex')
  BY <1>2, <1>3 DEF ListsInv
<1>5. Lists!IndexGivenOnce'
  <2>1. told' \cap given' = {}
    BY <1>3 DEF ListsInv
  <2>2. told' \subseteq objects'
    BY <1>3
  <2>3. QED
    BY <2>1, <2>2 DEF Lists!IndexGivenOnce
<1>6. Lists!TypeOK'
  <2>1. new \subseteq AddableLists \X (1..MaxListIndex \cup Explicit)
    BY <1>2 DEF Upto
  <2>2. objects' \subseteq AddableLists \X (1..MaxListIndex \cup Explicit)
    BY <2>1 DEF ListsInv, Lists!TypeOK
  <2>3. told' \subseteq AddableLists \X (1..MaxListIndex) /\ given' \subseteq AddableLists \X (1..MaxListIndex)
    BY <1>2, <1>4 DEF Upto
  <2>4. list_answer' \in {"none", "added", "fault", "deleted", "set", "local"}
    BY DEF Lists!Answer
  <2>5. QED
    BY <2>2, <2>3, <2>4 DEF ListsInv, Lists!TypeOK
<1>7. QED
  BY <1>4, <1>5, <1>6 DEF ListsInv

\* A request that names none.
LEMMA QuietStep ==
  ASSUME ListsInv, NEW a \in {"deleted", "fault", "set", "local"}, Lists!Answer(a, {}),
         UNCHANGED lastindex,
         objects' \subseteq AddableLists \X (1..MaxListIndex \cup Explicit),
         attributes' \subseteq AddableLists \X (1..MaxListIndex)
  PROVE  ListsInv'
<1>1. told' = {} /\ given' = given \cup told /\ list_answer' = a
  BY DEF Lists!Answer
<1>2. QED
  BY <1>1 DEF ListsInv, Lists!TypeOK, Lists!IndexGivenOnce, Upto

LEMMA AddObjectStep ==
  ASSUME ListsInv, Lists!ObjectListsAssumption, NEW l \in AddableLists, Lists!AddObject(l)
  PROVE  ListsInv'
<1> DEFINE new == {l} \X Lists!Next1(lastindex, 1)
<1>1. lastindex \in 0..MaxListIndex /\ MaxListIndex \in Nat /\ lastindex < MaxListIndex
      /\ lastindex' = lastindex + 1 /\ objects' = objects \cup new
      /\ Lists!Answer("added", new) /\ UNCHANGED attributes
  BY DEF ListsInv, Lists!TypeOK, Lists!ObjectListsAssumption, Lists!AddObject
<1>2. /\ new \subseteq Upto(lastindex + 1) /\ \A x \in new : x \notin Upto(lastindex)
  BY <1>1, NextSays
<1> HIDE DEF new
<1>3. QED
  BY <1>1, <1>2, AddStep

LEMMA AddObjectsStep ==
  ASSUME ListsInv, Lists!ObjectListsAssumption, Lists!AddObjects
  PROVE  ListsInv'
<1>1. PICK names \in UNION {[1..n -> Lists!Names] : n \in 1..2} : \E many \in 1..MaxCount :
    LET added(k) == IF names[k] \in AddableLists THEN many ELSE 0
        before(k) == lastindex + IF k = 1 THEN 0 ELSE added(1)
        new(k)   == {names[k]} \X Lists!Next1(before(k), added(k))
        all      == UNION {new(k) : k \in DOMAIN names}
        dotted   == {k \in DOMAIN names : names[k] # "nodot"}
        fault    == dotted # {} /\ \E k \in DOMAIN names : names[k] \notin AddableLists
        first    == IF 1 \in dotted THEN 1 ELSE 2
    IN /\ lastindex' = before(Len(names)) + added(Len(names)) /\ lastindex' <= MaxListIndex
       /\ objects' = (objects \cup all) \ IF fault THEN new(first) ELSE {}
       /\ Lists!Answer(IF fault THEN "fault" ELSE "added", all)
       /\ UNCHANGED attributes
  BY DEF Lists!AddObjects
<1>2. PICK many \in 1..MaxCount :
    LET added(k) == IF names[k] \in AddableLists THEN many ELSE 0
        before(k) == lastindex + IF k = 1 THEN 0 ELSE added(1)
        new(k)   == {names[k]} \X Lists!Next1(before(k), added(k))
        all      == UNION {new(k) : k \in DOMAIN names}
        dotted   == {k \in DOMAIN names : names[k] # "nodot"}
        fault    == dotted # {} /\ \E k \in DOMAIN names : names[k] \notin AddableLists
        first    == IF 1 \in dotted THEN 1 ELSE 2
    IN /\ lastindex' = before(Len(names)) + added(Len(names)) /\ lastindex' <= MaxListIndex
       /\ objects' = (objects \cup all) \ IF fault THEN new(first) ELSE {}
       /\ Lists!Answer(IF fault THEN "fault" ELSE "added", all)
       /\ UNCHANGED attributes
  BY <1>1
<1> DEFINE added(k) == IF names[k] \in AddableLists THEN many ELSE 0
           before(k) == lastindex + IF k = 1 THEN 0 ELSE added(1)
           new(k)   == {names[k]} \X Lists!Next1(before(k), added(k))
           all      == UNION {new(k) : k \in DOMAIN names}
           dotted   == {k \in DOMAIN names : names[k] # "nodot"}
           fault    == dotted # {} /\ \E k \in DOMAIN names : names[k] \notin AddableLists
           first    == IF 1 \in dotted THEN 1 ELSE 2
           a        == IF fault THEN "fault" ELSE "added"
           undone   == IF fault THEN new(first) ELSE {}
<1>3. /\ lastindex' = before(Len(names)) + added(Len(names)) /\ lastindex' <= MaxListIndex
      /\ objects' = (objects \cup all) \ undone
      /\ Lists!Answer(a, all) /\ UNCHANGED attributes
  BY <1>2
<1>4. /\ lastindex \in 0..MaxListIndex /\ MaxListIndex \in Nat
      /\ many \in Nat
  BY DEF ListsInv, Lists!TypeOK, Lists!ObjectListsAssumption
<1>5. PICK n \in 1..2 : names \in [1..n -> Lists!Names]
  OBVIOUS
<1>6. DOMAIN names = 1..n /\ Len(names) = n
  BY <1>5
<1>7. \A k \in 1..n : added(k) \in Nat /\ (added(k) # 0 => names[k] \in AddableLists)
  BY <1>4
<1>8. added(1) \in Nat
  BY <1>4
<1>9. a \in {"added", "fault"} /\ (a = "added" => undone = {})
  OBVIOUS
<1> HIDE DEF added, undone, a
<1>10. \A k \in 1..n : /\ before(k) \in Nat /\ lastindex <= before(k)
                       /\ before(k) + added(k) <= lastindex'
                       /\ before(k) + added(k) \in Nat
  <2>1. CASE n = 1
    <3>1. \A k \in 1..n : k = 1
      BY <2>1
    <3>2. QED
      BY <1>3, <1>4, <1>6, <1>8, <2>1, <3>1
  <2>2. CASE n = 2
    <3>1. \A k \in 1..n : k = 1 \/ k = 2
      BY <2>2
    <3>2. before(1) = lastindex /\ before(2) = lastindex + added(1)
      BY <1>4
    <3>3. lastindex' = lastindex + added(1) + added(2) /\ added(2) \in Nat
      BY <1>3, <1>6, <1>7, <2>2, <3>2
    <3> HIDE DEF before
    <3>4. QED
      BY <1>4, <1>8, <3>1, <3>2, <3>3
  <2>3. QED
    BY <2>1, <2>2
<1> HIDE DEF before
<1>11. lastindex' \in 0..MaxListIndex /\ lastindex <= lastindex'
  <2>1. 1 \in 1..n
    BY <1>5
  <2>2. before(n) \in Nat /\ added(n) \in Nat /\ lastindex' = before(n) + added(n)
        /\ lastindex <= before(n)
    <3>1. n \in 1..n
      BY <1>5
    <3>2. QED
      BY <1>3, <1>6, <1>7, <1>10, <3>1
  <2>3. QED
    BY <1>3, <1>4, <2>2
<1>12. \A k \in 1..n : new(k) \subseteq Upto(lastindex') /\ \A x \in new(k) : x \notin Upto(lastindex)
  <2>1. ASSUME NEW k \in 1..n
        PROVE  new(k) \subseteq Upto(lastindex') /\ \A x \in new(k) : x \notin Upto(lastindex)
    <3>1. /\ before(k) \in 0..MaxListIndex /\ added(k) \in Nat /\ before(k) + added(k) <= MaxListIndex
          /\ before(k) + added(k) \in Nat /\ before(k) + added(k) <= lastindex'
          /\ lastindex <= before(k) /\ (added(k) # 0 => names[k] \in AddableLists)
      BY <1>3, <1>4, <1>7, <1>10, <1>11
    <3>2. /\ new(k) \subseteq Upto(before(k) + added(k))
          /\ \A x \in new(k) : x \notin Upto(before(k))
      BY <1>4, <3>1, NextSays
    <3>3. Upto(before(k) + added(k)) \subseteq Upto(lastindex')
      BY <1>11, <3>1, UptoMore
    <3>4. Upto(lastindex) \subseteq Upto(before(k))
      BY <1>4, <3>1, UptoMore
    <3> HIDE DEF new
    <3>5. QED
      BY <3>2, <3>3, <3>4
  <2>2. QED
    BY <2>1
<1> HIDE DEF new
<1>13. all \subseteq Upto(lastindex') /\ \A x \in all : x \notin Upto(lastindex)
  BY <1>6, <1>12
<1> HIDE DEF all
<1>14. QED
  BY <1>3, <1>9, <1>11, <1>13, AddStep

\* No answer names an object that an earlier one named.
THEOREM ListsSafe ==
  ASSUME Lists!ObjectListsAssumption
  PROVE  Lists!Spec => [](Lists!TypeOK /\ Lists!IndexGivenOnce)
<1>1. Lists!Init => ListsInv
  BY DEF Lists!Init, ListsInv, Lists!TypeOK, Lists!IndexGivenOnce, Upto, Lists!ObjectListsAssumption
<1>2. ListsInv /\ [Lists!Next]_Lists!listVars => ListsInv'
  <2> SUFFICES ASSUME ListsInv, [Lists!Next]_Lists!listVars PROVE ListsInv'
    OBVIOUS
  <2>1. CASE Lists!AddObjects
    BY <2>1, AddObjectsStep
  <2>2. ASSUME NEW l \in AddableLists, Lists!AddObject(l) PROVE ListsInv'
    BY <2>2, AddObjectStep
  <2>3. /\ objects \subseteq AddableLists \X (1..MaxListIndex \cup Explicit)
        /\ attributes \subseteq AddableLists \X (1..MaxListIndex)
    BY DEF ListsInv, Lists!TypeOK
  <2>4. ASSUME NEW l \in AddableLists, NEW i \in 1..MaxListIndex,
               Lists!DeleteObject(l, i) \/ Lists!SetAttributes(l, i) \/ Lists!CmdDel(l, i)
        PROVE  ListsInv'
    <3>1. /\ attributes \cup {<<l, i>>} \subseteq AddableLists \X (1..MaxListIndex)
          /\ attributes \ {<<l, i>>} \subseteq AddableLists \X (1..MaxListIndex)
          /\ objects \ {<<l, i>>} \subseteq AddableLists \X (1..MaxListIndex \cup Explicit)
      BY <2>3
    <3>2. CASE Lists!DeleteObject(l, i)
      BY <3>1, <3>2, QuietStep DEF Lists!DeleteObject
    <3>3. CASE Lists!SetAttributes(l, i)
      BY <2>3, <3>1, <3>3, QuietStep DEF Lists!SetAttributes
    <3>4. CASE Lists!CmdDel(l, i)
      BY <2>3, <3>1, <3>4, QuietStep DEF Lists!CmdDel
    <3>5. QED
      BY <2>4, <3>2, <3>3, <3>4
  <2>5. ASSUME NEW l \in AddableLists, NEW i \in Explicit, Lists!CmdAdd(l, i) PROVE ListsInv'
    <3>1. objects \cup {<<l, i>>} \subseteq AddableLists \X (1..MaxListIndex \cup Explicit)
      BY <2>3
    <3>2. QED
      BY <2>3, <2>5, <3>1, QuietStep DEF Lists!CmdAdd
  <2>6. CASE UNCHANGED Lists!listVars
    BY <2>6 DEF Lists!listVars, ListsInv, Lists!TypeOK, Lists!IndexGivenOnce, Upto
  <2>7. QED
    BY <2>1, <2>2, <2>4, <2>5, <2>6 DEF Lists!Next
<1>3. QED
  BY <1>1, <1>2, PTL DEF Lists!Spec, ListsInv

-----------------------------------------------------------------------------
(* Parameter types                                                         *)

\* What a type makes of a value it makes of itself, or it is no text any more.
LEMMA ValidatedTwice ==
  ASSUME NEW type, NEW v
  PROVE  LET w == Attributes!Validated(type, v) IN
         w # "raises" => w \in Attributes!Others \/ Attributes!Validated(type, w) = w
<1>1. Attributes!Bool(v) \in {"None", "True", "False", "raises"}
  BY DEF Attributes!Bool
<1>2. Attributes!Number(v) \in {"#1", "#0", "#-1", "raises"}
  BY DEF Attributes!Number
<1>3. Attributes!Unsigned(v) \in {"#1", "#0", "#-1", "raises"}
  BY <1>2 DEF Attributes!Unsigned
<1>4. Attributes!Enum(v) # "raises" => Attributes!Enum(Attributes!Enum(v)) = Attributes!Enum(v)
  BY DEF Attributes!Enum
<1>5. Attributes!Date(v) \in {"None", "date", "raises"}
  BY DEF Attributes!Date, Attributes!ParsedDate
<1>6. Attributes!MacAddr(v) # "raises" => Attributes!MacAddr(v) \in Attributes!Others \/ Attributes!MacAddr(Attributes!MacAddr(v)) = Attributes!MacAddr(v)
  BY DEF Attributes!MacAddr, Attributes!Others
<1>7. Attributes!String(Attributes!String(v)) = Attributes!String(v)
  BY DEF Attributes!String
<1>8. CASE type = "Bool"
  BY <1>1, <1>8 DEF Attributes!Validated, Attributes!Others
<1>9. CASE type \in {"Int", "Float"}
  BY <1>2, <1>9 DEF Attributes!Validated, Attributes!Others
<1>10. CASE type = "Unsigned"
  BY <1>3, <1>10 DEF Attributes!Validated, Attributes!Others
<1>11. CASE type = "Enum"
  BY <1>4, <1>11 DEF Attributes!Validated
<1>12. CASE type = "Date"
  BY <1>5, <1>12 DEF Attributes!Validated, Attributes!Others
<1>13. CASE type = "MacAddr"
  BY <1>6, <1>13 DEF Attributes!Validated
<1>14. CASE type \notin {"Bool", "Int", "Float", "Unsigned", "Enum", "Date", "MacAddr"}
  BY <1>7, <1>14 DEF Attributes!Validated
<1>15. QED
  BY <1>8, <1>9, <1>10, <1>11, <1>12, <1>13, <1>14

\* What an attribute holds it would hold again, or it refuses it.
LEMMA HeldAgain ==
  ASSUME NEW a \in Attrs, NEW v \in Attributes!Held(a), v # "raises", Attributes!Validated(TypeOf[a], v) # "raises"
  PROVE  Attributes!Validated(TypeOf[a], v) \in Attributes!Held(a)
<1>1. v \in Attributes!Others \/ Attributes!Validated(TypeOf[a], v) = v
  <2>1. CASE v = Attributes!Declared(a)
    <3>1. CASE InitOf[a] = "None"
      BY <2>1, <3>1 DEF Attributes!Declared, Attributes!Others
    <3>2. CASE InitOf[a] # "None"
      BY <2>1, <3>2, ValidatedTwice DEF Attributes!Declared
    <3>3. QED
      BY <3>1, <3>2
  <2>2. ASSUME NEW u \in Texts \cup Attributes!Others, v = Attributes!Validated(TypeOf[a], u)
        PROVE  v \in Attributes!Others \/ Attributes!Validated(TypeOf[a], v) = v
    BY <2>2, ValidatedTwice
  <2>3. QED
    BY <2>1, <2>2 DEF Attributes!Held
<1>2. CASE v \in Attributes!Others
  BY <1>2 DEF Attributes!Held
<1>3. CASE Attributes!Validated(TypeOf[a], v) = v
  BY <1>3
<1>4. QED
  BY <1>1, <1>2, <1>3

IsMap(f) == f = [a \in Attrs |-> f[a]]

\* A state of the attributes whose changes were all seen, and that each may hold.
Seen(x) ==
  /\ DOMAIN x.values = Attrs /\ DOMAIN x.triggered = Attrs
  /\ x.notified = x.values
  /\ \A a \in Attrs : x.values[a] \in Attributes!Held(a) /\ x.values[a] # "raises"
  /\ \A a \in Attrs \ ReadOnlys : x.triggered[a] = x.values[a]
  /\ IsMap(x.values) /\ IsMap(x.triggered)

TypesInv == Seen(Attributes!Now) /\ attr_answer \in {"none", "ok", "fault"}

LEMMA SetInnerSays ==
  ASSUME NEW x, Seen(x), NEW a \in Attrs, NEW v \in Attributes!Held(a), v # "raises"
  PROVE  LET s == Attributes!SetInner(x, a, v) IN
         /\ s.notified = s.values /\ s.triggered = x.triggered /\ s.raised = x.raised
         /\ DOMAIN s.values = Attrs /\ IsMap(s.values)
         /\ s.values[a] = v /\ \A b \in Attrs \ {a} : s.values[b] = x.values[b]
         /\ \A b \in Attrs : s.values[b] \in Attributes!Held(b) /\ s.values[b] # "raises"
<1> DEFINE f == [x.values EXCEPT ![a] = v]
           s == Attributes!SetInner(x, a, v)
<1>1. s = [values |-> f, triggered |-> x.triggered, notified |-> f, raised |-> x.raised]
  BY DEF Attributes!SetInner, Seen
<1>2. /\ DOMAIN f = Attrs /\ IsMap(f)
      /\ f[a] = v /\ \A b \in Attrs \ {a} : f[b] = x.values[b]
  BY DEF Seen, IsMap
<1> HIDE DEF f, s
<1>3. \A b \in Attrs : f[b] \in Attributes!Held(b) /\ f[b] # "raises"
  BY <1>2 DEF Seen
<1>4. QED
  BY <1>1, <1>2, <1>3 DEF s

LEMMA WriteSays ==
  ASSUME NEW x, Seen(x), NEW a \in Attrs, NEW v,
         Attributes!Validated(TypeOf[a], v) # "raises" => Attributes!Validated(TypeOf[a], v) \in Attributes!Held(a),
         a \notin ReadOnlys
  PROVE  /\ Attributes!Validated(TypeOf[a], v) # "raises" =>
              LET s == Attributes!Set(x, a, v) IN
              /\ Seen(s) /\ s.raised = x.raised
              /\ s.values[a] = Attributes!Validated(TypeOf[a], v)
              /\ \A b \in Attrs \ {a} : s.values[b] = x.values[b]
         /\ Attributes!Validated(TypeOf[a], v) = "raises" => Attributes!Set(x, a, v) = [x EXCEPT !.raised = TRUE]
<1> DEFINE new == Attributes!Validated(TypeOf[a], v)
           in == Attributes!SetInner(x, a, new)
           s == Attributes!Set(x, a, v)
<1>1. CASE new = "raises"
  BY <1>1 DEF Attributes!Set
<1>2. CASE new # "raises"
  <2>1. /\ in.notified = in.values /\ in.triggered = x.triggered /\ in.raised = x.raised
        /\ DOMAIN in.values = Attrs /\ IsMap(in.values)
        /\ in.values[a] = new /\ \A b \in Attrs \ {a} : in.values[b] = x.values[b]
        /\ \A b \in Attrs : in.values[b] \in Attributes!Held(b) /\ in.values[b] # "raises"
    <3>1. new \in Attributes!Held(a)
      BY <1>2
    <3> HIDE DEF new
    <3>2. QED
      BY <1>2, <3>1, SetInnerSays
  <2>2. CASE new = x.values[a]
    <3>1. s = in
      BY <1>2, <2>2 DEF Attributes!Set
    <3> HIDE DEF in, s
    <3>2. \A b \in Attrs : in.values[b] = x.values[b]
      BY <2>1, <2>2
    <3>3. Seen(in)
      BY <2>1, <3>2 DEF Seen
    <3>4. QED
      BY <1>2, <2>1, <3>1, <3>3 DEF s
  <2>3. CASE new # x.values[a]
    <3>1. s = [in EXCEPT !.triggered = in.values]
      BY <1>2, <2>3 DEF Attributes!Set
    <3>2. s.values = in.values /\ s.notified = in.notified /\ s.triggered = in.values
          /\ s.raised = in.raised
      BY <3>1 DEF Attributes!SetInner
    <3> HIDE DEF in, s
    <3>3. Seen(s)
      BY <2>1, <3>2 DEF Seen
    <3>4. QED
      BY <1>2, <2>1, <3>2, <3>3 DEF s
  <2>4. QED
    BY <2>2, <2>3
<1>3. QED
  BY <1>1, <1>2

LEMMA BecomeSeen ==
  ASSUME NEW x, Seen(x), NEW a, Attributes!Become(x, a), a \in {"none", "ok", "fault"}
  PROVE  TypesInv'
BY DEF TypesInv, Attributes!Become, Seen, Attributes!Now

LEMMA RequestStep ==
  ASSUME TypesInv, Attributes!TypesAssumption, NEW a \in Attrs, NEW v \in Texts,
         NEW withFailing \in BOOLEAN, Attributes!SetParameterValues(a, v, withFailing)
  PROVE  /\ TypesInv'
         /\ attr_answer' = "fault" => \A b \in Attrs :
              Attributes!Validated(TypeOf[b], attr_values[b]) = attr_values[b] => attr_values'[b] = attr_values[b]
<1> DEFINE old == attr_values[a]
           one == Attributes!Set(Attributes!Now, a, v)
           again == [one EXCEPT !.raised = FALSE]
           back == Attributes!Set(again, a, old)
           new == Attributes!Validated(TypeOf[a], v)
<1>1. Seen(Attributes!Now) /\ Attributes!Now.values = attr_values /\ old \in Attributes!Held(a) /\ old # "raises" /\ Attributes!Now.raised = FALSE
  BY DEF TypesInv, Seen, Attributes!Now
<1>2. CASE Attributes!TryAttr(a, v) = "raises"
  <2>1. Attributes!Become(Attributes!Now, "fault")
    BY <1>2 DEF Attributes!SetParameterValues
  <2>2. attr_values' = attr_values
    BY <2>1 DEF Attributes!Become, Attributes!Now
  <2>3. QED
    BY <1>1, <2>1, <2>2, BecomeSeen
<1>3. CASE Attributes!TryAttr(a, v) # "raises"
  <2>1. a \notin ReadOnlys /\ new # "raises"
    BY <1>3 DEF Attributes!TryAttr
  <2>2. new \in Attributes!Held(a)
    BY <2>1 DEF Attributes!Held
  <2>3. /\ Seen(one) /\ one.raised = FALSE /\ one.values[a] = new
        /\ \A b \in Attrs \ {a} : one.values[b] = attr_values[b]
    BY <1>1, <2>1, <2>2, WriteSays
  <2>4. \/ Attributes!Become(one, "ok")
        \/ old = v /\ Attributes!Become(one, "fault")
        \/ old # v /\ Attributes!Become(back, "fault")
    BY <1>3, <2>3 DEF Attributes!SetParameterValues
  <2> HIDE DEF one
  <2>5. CASE Attributes!Become(one, "ok")
    <3>1. attr_answer' # "fault"
      BY <2>5 DEF Attributes!Become
    <3>2. QED
      BY <2>3, <2>5, <3>1, BecomeSeen
  <2>6. CASE old = v /\ Attributes!Become(one, "fault")
    <3>1. attr_values' = one.values
      BY <2>6 DEF Attributes!Become
    <3>2. ASSUME NEW b \in Attrs, Attributes!Validated(TypeOf[b], attr_values[b]) = attr_values[b]
          PROVE  attr_values'[b] = attr_values[b]
      BY <2>3, <2>6, <3>1, <3>2
    <3>3. QED
      BY <2>3, <2>6, <3>2, BecomeSeen
  <2>7. CASE old # v /\ Attributes!Become(back, "fault")
    <3>1. Seen(again) /\ again.values = one.values
      BY <2>3 DEF Seen
    <3>2. Attributes!Validated(TypeOf[a], old) # "raises" => Attributes!Validated(TypeOf[a], old) \in Attributes!Held(a)
      BY <1>1, HeldAgain
    <3> HIDE DEF again, back
    <3>3. CASE Attributes!Validated(TypeOf[a], old) = "raises"
      <4>1. back = [again EXCEPT !.raised = TRUE]
        <5> HIDE DEF old
        <5>1. QED
          BY <2>1, <3>1, <3>2, <3>3, WriteSays DEF back
      <4>2. Seen(back) /\ back.values = one.values
        BY <2>3, <4>1 DEF Seen, again
      <4>3. attr_values' = one.values
        BY <2>7, <4>2 DEF Attributes!Become
      <4>4. ASSUME NEW b \in Attrs, Attributes!Validated(TypeOf[b], attr_values[b]) = attr_values[b]
            PROVE  attr_values'[b] = attr_values[b]
        BY <1>1, <2>3, <3>3, <4>3, <4>4
      <4>5. QED
        BY <2>7, <4>2, <4>4, BecomeSeen
    <3>4. CASE Attributes!Validated(TypeOf[a], old) # "raises"
      <4>1. /\ Seen(back) /\ back.values[a] = Attributes!Validated(TypeOf[a], old)
            /\ \A b \in Attrs \ {a} : back.values[b] = again.values[b]
        BY <2>1, <3>1, <3>2, <3>4, WriteSays DEF back
      <4>2. attr_values' = back.values
        BY <2>7 DEF Attributes!Become
      <4>3. ASSUME NEW b \in Attrs, Attributes!Validated(TypeOf[b], attr_values[b]) = attr_values[b]
            PROVE  attr_values'[b] = attr_values[b]
        BY <2>3, <3>1, <4>1, <4>2, <4>3
      <4>4. QED
        BY <2>7, <4>1, <4>3, BecomeSeen
    <3>5. QED
      BY <3>3, <3>4
  <2>8. QED
    BY <2>4, <2>5, <2>6, <2>7
<1>4. QED
  BY <1>2, <1>3

LEMMA ReadOnlyStep ==
  ASSUME TypesInv, Attributes!TypesAssumption, NEW a \in Attrs, NEW v \in Attributes!Others, Attributes!SetReadOnly(a, v)
  PROVE  TypesInv' /\ attr_answer' # "fault"
<1> DEFINE new == Attributes!Validated(TypeOf[a], v)
           in == Attributes!SetInner(Attributes!Now, a, new)
<1>1. a \in ReadOnlys /\ new # "raises" /\ Attributes!Become(in, "none")
  BY DEF Attributes!SetReadOnly
<1>2. new \in Attributes!Held(a)
  BY <1>1 DEF Attributes!Held
<1>3. Seen(Attributes!Now)
  BY DEF TypesInv
<1> HIDE DEF new
<1>4. /\ in.notified = in.values /\ in.triggered = Attributes!Now.triggered
      /\ DOMAIN in.values = Attrs /\ IsMap(in.values)
      /\ in.values[a] = new /\ \A b \in Attrs \ {a} : in.values[b] = Attributes!Now.values[b]
      /\ \A b \in Attrs : in.values[b] \in Attributes!Held(b) /\ in.values[b] # "raises"
  BY <1>1, <1>2, <1>3, SetInnerSays
<1> HIDE DEF in
<1>5. Seen(in)
  BY <1>1, <1>3, <1>4 DEF Seen
<1>6. attr_answer' = "none"
  BY <1>1 DEF Attributes!Become
<1>7. QED
  BY <1>1, <1>5, <1>6, BecomeSeen

THEOREM TypesSafe ==
  ASSUME Attributes!TypesAssumption
  PROVE  Attributes!Spec => [](Attributes!TypeOK /\ Attributes!ChangesSeen) /\ Attributes!FaultUndoes
<1>1. Attributes!Init => TypesInv
  <2> SUFFICES ASSUME Attributes!Init PROVE TypesInv
    OBVIOUS
  <2>1. attr_values = [a \in Attrs |-> Attributes!Declared(a)] /\ triggered = attr_values /\ notified = attr_values
        /\ attr_answer = "none"
    BY DEF Attributes!Init
  <2>2. \A a \in Attrs : Attributes!Declared(a) \in Attributes!Held(a) /\ Attributes!Declared(a) # "raises"
    BY DEF Attributes!TypesAssumption, Attributes!Held
  <2>3. QED
    BY <2>1, <2>2 DEF TypesInv, Seen, Attributes!Now, IsMap
<1>2. TypesInv /\ [Attributes!Next]_Attributes!vars => TypesInv' /\
        [attr_answer' = "fault" => \A a \in Attrs :
           Attributes!Validated(TypeOf[a], attr_values[a]) = attr_values[a] => attr_values'[a] = attr_values[a]]_Attributes!vars
  <2> SUFFICES ASSUME TypesInv, [Attributes!Next]_Attributes!vars
               PROVE  TypesInv' /\
                 [attr_answer' = "fault" => \A a \in Attrs :
                    Attributes!Validated(TypeOf[a], attr_values[a]) = attr_values[a] => attr_values'[a] = attr_values[a]]_Attributes!vars
    OBVIOUS
  <2>1. CASE UNCHANGED Attributes!vars
    BY <2>1 DEF Attributes!vars, TypesInv, Seen, Attributes!Now
  <2>2. ASSUME NEW a \in Attrs, NEW v \in Texts, NEW withFailing \in BOOLEAN,
               Attributes!SetParameterValues(a, v, withFailing)
        PROVE  TypesInv' /\ (attr_answer' = "fault" => \A b \in Attrs :
                 Attributes!Validated(TypeOf[b], attr_values[b]) = attr_values[b] => attr_values'[b] = attr_values[b])
    BY <2>2, RequestStep
  <2>3. ASSUME NEW a \in Attrs, NEW v \in Attributes!Others, Attributes!SetReadOnly(a, v)
        PROVE  TypesInv' /\ attr_answer' # "fault"
    BY <2>3, ReadOnlyStep
  <2>4. QED
    BY <2>1, <2>2, <2>3 DEF Attributes!Next
<1>3. TypesInv => Attributes!TypeOK /\ Attributes!ChangesSeen
  BY DEF TypesInv, Seen, Attributes!Now, Attributes!TypeOK, Attributes!ChangesSeen
<1>4. QED
  BY <1>1, <1>2, <1>3, PTL DEF Attributes!Spec, Attributes!FaultUndoes

\* The instance counts like FiniteSets.
LEMMA AddressSizes == \A S : Addresses!Cardinality(S) = Cardinality(S)
BY DEF Addresses!Cardinality, Cardinality


-----------------------------------------------------------------------------
(* The addresses of an interface                                           *)
(*                                                                         *)
(* While UpdateConfig waits for a write of the ACS, the list that was      *)
(* written is in the cache: the session cannot end before it has run.      *)

Addrs == (Ips \cup {Addresses!NoIp}) \X (Masks \cup {Addresses!NoMask})

IsList(l) ==
  /\ l = [i \in DOMAIN l |-> l[i]] /\ DOMAIN l \subseteq 1..MaxIpIndex
  /\ \A i \in DOMAIN l : l[i] \in Addrs

FewAddresses(s) ==
  s \subseteq Ips \X Masks /\ IsFiniteSet(s) /\ Cardinality(s) <= MaxIpIndex

IpInv ==
  /\ FewAddresses(kernel)
  /\ list # Addresses!NoList => IsList(list)
  /\ ip_lastindex \in 0..MaxIpIndex /\ pending \in BOOLEAN
  /\ intended \subseteq Ips \X Masks
  /\ ~socket /\ pending => list # Addresses!NoList

\* A list of few elements has no more different ones.
LEMMA ListOfFew ==
  ASSUME NEW n \in Nat, NEW D \in SUBSET (1..n), NEW f
  PROVE  IsFiniteSet({f[i] : i \in D}) /\ Cardinality({f[i] : i \in D}) <= n
<1> DEFINE T == {f[i] : i \in D}
           g == [i \in D |-> f[i]]
<1>1. IsFiniteSet(1..n) /\ Cardinality(1..n) = n
  BY FS_Interval
<1>2. IsFiniteSet(D) /\ Cardinality(D) <= n
  BY <1>1, FS_Subset
<1>3. g \in Surjection(D, T)
  BY DEF Surjection
<1> HIDE DEF T, g
<1>4. IsFiniteSet(T) /\ Cardinality(T) <= Cardinality(D)
  BY <1>2, <1>3, FS_Surjection
<1>5. Cardinality(T) \in Nat /\ Cardinality(D) \in Nat
  BY <1>2, <1>4, FS_CardinalityType
<1>6. Cardinality(T) <= n
  BY <1>2, <1>4, <1>5
<1>7. QED
  BY <1>4, <1>6 DEF T

\* What is complete can be given to the kernel.
LEMMA CompleteIsFew ==
  ASSUME Addresses!IpAssumption, NEW l, IsList(l)
  PROVE  FewAddresses(Addresses!Complete(l))
<1>1. Addresses!Complete(l) \subseteq {l[i] : i \in DOMAIN l}
  BY DEF Addresses!Complete, Addresses!Range
<1>2. MaxIpIndex \in Nat /\ DOMAIN l \in SUBSET (1..MaxIpIndex)
  BY DEF Addresses!IpAssumption, IsList
<1> DEFINE T == {l[i] : i \in DOMAIN l}
<1>3. IsFiniteSet(T) /\ Cardinality(T) <= MaxIpIndex
  BY <1>2, ListOfFew
<1>4. Addresses!Complete(l) \subseteq Ips \X Masks
  BY DEF Addresses!Complete, Addresses!Range, IsList, Addrs
<1> HIDE DEF T
<1>5. Addresses!Complete(l) \in SUBSET T
  BY <1>1 DEF T
<1>6. IsFiniteSet(Addresses!Complete(l)) /\ Cardinality(Addresses!Complete(l)) <= Cardinality(T)
  BY <1>3, <1>5, FS_Subset
<1>7. Cardinality(Addresses!Complete(l)) \in Nat /\ Cardinality(T) \in Nat
  BY <1>3, <1>6, FS_CardinalityType
<1>8. Cardinality(Addresses!Complete(l)) <= MaxIpIndex
  BY <1>2, <1>3, <1>6, <1>7
<1>9. QED
  BY <1>4, <1>6, <1>8 DEF FewAddresses

\* The kernel's addresses in some order are a list.
LEMMA EnumerationIsList ==
  ASSUME Addresses!IpAssumption, FewAddresses(kernel), NEW l \in Addresses!Enumerations(kernel)
  PROVE  IsList(l)
<1>1. l \in [1..Cardinality(kernel) -> kernel] /\ Cardinality(kernel) \in Nat
  BY FS_CardinalityType, AddressSizes DEF Addresses!Enumerations, FewAddresses
<1>2. DOMAIN l = 1..Cardinality(kernel) /\ l = [i \in DOMAIN l |-> l[i]]
  BY <1>1
<1>3. DOMAIN l \subseteq 1..MaxIpIndex
  BY <1>1, <1>2 DEF FewAddresses, Addresses!IpAssumption
<1>4. \A i \in DOMAIN l : l[i] \in Addrs
  BY <1>1 DEF FewAddresses, Addrs
<1>5. QED
  BY <1>2, <1>3, <1>4 DEF IsList

LEMMA ReadIsList ==
  ASSUME Addresses!IpAssumption, IpInv, NEW l \in Addresses!Lists
  PROVE  IsList(l)
BY EnumerationIsList DEF Addresses!Lists, IpInv

LEMMA ListIsThere ==
  ASSUME NEW l, IsList(l)
  PROVE  l # Addresses!NoList
<1>1. DOMAIN Addresses!NoList = {0}
  BY DEF Addresses!NoList
<1>2. QED
  BY <1>1 DEF IsList

\* A write leaves a list, and what is complete of it.
LEMMA WriteLeavesList ==
  ASSUME Addresses!IpAssumption, IpInv, NEW l \in Addresses!Lists, NEW i, NEW a \in Addrs, Addresses!Written(l, i, a)
  PROVE  /\ IsList([l EXCEPT ![i] = a])
         /\ intended' \subseteq Ips \X Masks /\ pending' = TRUE
<1>1. IsList(l)
  BY ReadIsList
<1>2. IsList([l EXCEPT ![i] = a])
  BY <1>1 DEF IsList
<1>3. QED
  BY <1>2, CompleteIsFew DEF Addresses!Written, FewAddresses

LEMMA IpStep ==
  ASSUME Addresses!IpAssumption, IpInv, [Addresses!Next]_Addresses!ipVars
  PROVE  IpInv'
<1> USE DEF IpInv
<1>1. CASE Addresses!Read
  <2>1. IsList(list')
    BY <1>1, ReadIsList DEF Addresses!Read
  <2>2. list' # Addresses!NoList
    BY <2>1, ListIsThere
  <2>3. QED
    BY <1>1, <2>1, <2>2 DEF Addresses!Read
<1>2. CASE Addresses!AddObject
  <2>1. PICK l \in Addresses!Lists :
          LET free == {i \in (ip_lastindex + 1)..MaxIpIndex : i \notin DOMAIN l}
              new  == CHOOSE i \in free : \A j \in free : i <= j
          IN /\ free # {}
             /\ ip_lastindex' = new
             /\ list' = [i \in DOMAIN l \cup {new} |->
                           IF i = new THEN <<Addresses!NoIp, Addresses!NoMask>> ELSE l[i]]
    BY <1>2 DEF Addresses!AddObject
  <2> DEFINE free == {i \in (ip_lastindex + 1)..MaxIpIndex : i \notin DOMAIN l}
             new  == CHOOSE i \in free : \A j \in free : i <= j
  <2>2. free \in SUBSET Nat /\ free # {}
    BY <2>1
  <2>3. \E i \in free : \A j \in free : i <= j
    <3> HIDE DEF free
    <3>1. QED
      BY <2>2, LeastNatural
  <2>4. new \in free
    <3> HIDE DEF free
    <3>1. QED
      BY <2>3
  <2>5. new \in 1..MaxIpIndex
    BY <2>4 DEF Addresses!IpAssumption
  <2>6. IsList(l)
    BY ReadIsList
  <2> DEFINE m == [i \in DOMAIN l \cup {new} |-> IF i = new THEN <<Addresses!NoIp, Addresses!NoMask>> ELSE l[i]]
  <2>7. list' = m /\ ip_lastindex' = new
    BY <2>1
  <2> HIDE DEF free, new
  <2>8. IsList(m)
    BY <2>5, <2>6 DEF IsList, Addrs
  <2>9. list' # Addresses!NoList
    BY <2>7, <2>8, ListIsThere
  <2>10. ip_lastindex' \in 0..MaxIpIndex
    BY <2>5, <2>7 DEF Addresses!IpAssumption
  <2>11. QED
    BY <1>2, <2>7, <2>8, <2>9, <2>10 DEF Addresses!AddObject
<1>3. CASE Addresses!DeleteObject
  <2>1. PICK l \in Addresses!Lists, i \in 1..MaxIpIndex : list' = Addresses!Restrict(l, DOMAIN l \ {i})
    BY <1>3 DEF Addresses!DeleteObject
  <2>2. IsList(l)
    BY ReadIsList
  <2>3. IsList(list')
    BY <2>1, <2>2 DEF IsList, Addresses!Restrict
  <2>4. list' # Addresses!NoList
    BY <2>3, ListIsThere
  <2>5. QED
    BY <1>3, <2>3, <2>4 DEF Addresses!DeleteObject
<1>4. CASE Addresses!SetParameterValues
  <2>1. PICK l \in Addresses!Lists, i \in 1..MaxIpIndex, a \in Addrs :
          Addresses!Written(l, i, a) /\ list' = [l EXCEPT ![i] = a]
    BY <1>4 DEF Addresses!SetParameterValues, Addrs
  <2>2. IsList(list') /\ intended' \subseteq Ips \X Masks /\ pending' = TRUE
    BY <2>1, WriteLeavesList
  <2>3. list' # Addresses!NoList
    BY <2>2, ListIsThere
  <2>4. QED
    BY <1>4, <2>2, <2>3 DEF Addresses!SetParameterValues
<1>5. CASE Addresses!CmdSet
  <2>1. PICK l \in Addresses!Lists, i \in 1..MaxIpIndex, a \in Addrs : Addresses!Written(l, i, a)
    BY <1>5 DEF Addresses!CmdSet, Addrs
  <2>2. intended' \subseteq Ips \X Masks /\ pending' = TRUE
    BY <2>1, WriteLeavesList
  <2>3. QED
    BY <1>5, <2>2 DEF Addresses!CmdSet
<1>6. CASE Addresses!UpdateConfig
  <2>1. IsList(list')
    BY <1>6, ReadIsList DEF Addresses!UpdateConfig
  <2>2. FewAddresses(kernel')
    BY <1>6, <2>1, CompleteIsFew DEF Addresses!UpdateConfig
  <2>3. QED
    BY <1>6, <2>1, <2>2 DEF Addresses!UpdateConfig
<1>7. CASE Addresses!CloseSession
  BY <1>7 DEF Addresses!CloseSession
<1>8. CASE Addresses!Lease
  <2>1. PICK ip \in Ips, m \in Masks \ {-1} : kernel' = {<<ip, m>>}
    BY <1>8 DEF Addresses!Lease
  <2>2. IsFiniteSet(kernel') /\ Cardinality(kernel') = 1
    BY <2>1, FS_Singleton
  <2>3. FewAddresses(kernel')
    BY <2>1, <2>2 DEF FewAddresses, Addresses!IpAssumption
  <2>4. QED
    BY <1>8, <2>3 DEF Addresses!Lease
<1>9. CASE UNCHANGED Addresses!ipVars
  BY <1>9 DEF Addresses!ipVars
<1>10. QED
  BY <1>1, <1>2, <1>3, <1>4, <1>5, <1>6, <1>7, <1>8, <1>9 DEF Addresses!Next

\* The types of the interface's variables, and: what is applied is what the last write
\* of the ACS asked for (IPInterfaceLinux26.UpdateConfig).
THEOREM AddressesSafe ==
  ASSUME Addresses!IpAssumption
  PROVE  Addresses!Spec => []Addresses!TypeOK /\ Addresses!WritesApplied
<1>1. Addresses!Init => IpInv
  <2> SUFFICES ASSUME Addresses!Init PROVE IpInv
    OBVIOUS
  <2>1. PICK ip \in Ips, m \in Masks \ {-1} : kernel = {<<ip, m>>}
    BY DEF Addresses!Init
  <2>2. IsFiniteSet(kernel) /\ Cardinality(kernel) = 1
    BY <2>1, FS_Singleton
  <2>3. FewAddresses(kernel)
    BY <2>1, <2>2 DEF FewAddresses, Addresses!IpAssumption
  <2>4. 0 \in 0..MaxIpIndex
    BY DEF Addresses!IpAssumption
  <2>5. QED
    BY <2>3, <2>4 DEF IpInv, Addresses!Init
<1>2. IpInv /\ [Addresses!Next]_Addresses!ipVars => IpInv'
  BY IpStep
<1>3. IpInv => Addresses!TypeOK
  <2> SUFFICES ASSUME IpInv PROVE Addresses!TypeOK
    OBVIOUS
  <2>1. DOMAIN list \subseteq 0..MaxIpIndex /\ Addresses!Range(list) \subseteq Addrs
    <3>1. CASE list = Addresses!NoList
      BY <3>1 DEF Addresses!NoList, Addresses!Range, Addrs, Addresses!IpAssumption
    <3>2. CASE IsList(list)
      BY <3>2 DEF IsList, Addresses!Range, Addresses!IpAssumption
    <3>3. QED
      BY <3>1, <3>2 DEF IpInv
  <2>2. QED
    BY <2>1 DEF IpInv, Addresses!TypeOK, Addrs, FewAddresses
<1>4. IpInv /\ [Addresses!Next]_Addresses!ipVars =>
        [Addresses!UpdateConfig /\ ~socket =>
           \/ kernel' = intended
           \/ \E a \in intended : a[2] = -1
           \/ Addresses!Complete(list) # intended /\ list # Addresses!NoList]_Addresses!ipVars
  <2> SUFFICES ASSUME IpInv, Addresses!UpdateConfig, ~socket, list # Addresses!NoList, Addresses!Complete(list) = intended,
                      ~ \E a \in intended : a[2] = -1
               PROVE  kernel' = intended
    BY DEF IpInv, Addresses!UpdateConfig
  <2>1. list' = list
    BY DEF Addresses!UpdateConfig, Addresses!Lists
  <2>2. QED
    BY <2>1 DEF Addresses!UpdateConfig
<1>5. QED
  BY <1>1, <1>2, <1>3, <1>4, PTL DEF Addresses!Spec, Addresses!WritesApplied

\* The prefix length of every mask (_ConvertMaskToCIDR).
THEOREM PrefixLength ==
  ASSUME NEW W \in Nat
  PROVE  Addresses!CIDRCorrect(W)
<1> DEFINE Bits == 0..(W - 1)
           Ones(m, n) == \A i \in Bits : m[i] = 1 <=> i >= W - n
           Zeros(m) == {i \in Bits : \A j \in 0..i : m[j] = 0}
           Holes(m) == \E i, j \in Bits : i < j /\ m[i] = 1 /\ m[j] = 0
<1> SUFFICES ASSUME NEW m \in Addresses!Masked(W)
             PROVE  IF \E n \in 0..W : Ones(m, n)
                      THEN Ones(m, Addresses!ConvertMaskToCIDR(m, W)) /\ Addresses!ConvertMaskToCIDR(m, W) \in 0..W
                      ELSE Addresses!ConvertMaskToCIDR(m, W) = -1
  BY DEF Addresses!CIDRCorrect
<1>0. \A i \in Bits : m[i] \in {0, 1}
  BY DEF Addresses!Masked
<1>1. ASSUME NEW n \in 0..W, Ones(m, n)
      PROVE  Ones(m, Addresses!ConvertMaskToCIDR(m, W)) /\ Addresses!ConvertMaskToCIDR(m, W) \in 0..W
  <2>1. ~Holes(m)
    BY <1>1
  <2>2. Zeros(m) = 0..(W - n - 1)
    <3>1. ASSUME NEW i \in Zeros(m) PROVE i \in 0..(W - n - 1)
      <4>1. i \in Bits /\ m[i] = 0
        OBVIOUS
      <4>2. QED
        BY <1>1, <4>1
    <3>2. ASSUME NEW i \in 0..(W - n - 1) PROVE i \in Zeros(m)
      <4>1. i \in Bits /\ \A j \in 0..i : j \in Bits /\ ~ (j >= W - n)
        OBVIOUS
      <4>2. \A j \in 0..i : m[j] = 0
        BY <1>0, <1>1, <4>1
      <4>3. QED
        BY <4>1, <4>2
    <3>3. QED
      BY <3>1, <3>2
  <2>3. Cardinality(Zeros(m)) = W - n
    <3>1. W - n - 1 \in Int /\ W - n \in Nat
      OBVIOUS
    <3>2. Cardinality(0..(W - n - 1)) = IF 0 > W - n - 1 THEN 0 ELSE W - n - 1 - 0 + 1
      BY <3>1, FS_Interval
    <3>3. Cardinality(0..(W - n - 1)) = W - n
      BY <3>1, <3>2
    <3> HIDE DEF Zeros
    <3>4. QED
      BY <2>2, <3>3
  <2>4. Addresses!ConvertMaskToCIDR(m, W) = W - Cardinality(Zeros(m))
    BY <2>1, Zenon, AddressSizes DEF Addresses!ConvertMaskToCIDR
  <2>5. Addresses!ConvertMaskToCIDR(m, W) = n
    BY <2>3, <2>4
  <2>6. QED
    BY <1>1, <2>5
<1>2. ASSUME ~Holes(m) PROVE \E n \in 0..W : Ones(m, n)
  <2>1. CASE \A i \in Bits : m[i] = 0
    <3>1. Ones(m, 0)
      BY <2>1
    <3>2. QED
      BY <3>1
  <2>2. CASE \E i \in Bits : m[i] = 1
    <3> DEFINE S == {i \in Bits : m[i] = 1}
    <3>1. S \in SUBSET Nat /\ S # {}
      BY <2>2
    <3> HIDE DEF S
    <3>2. PICK x \in S : \A y \in S : x <= y
      BY <3>1, LeastNatural
    <3> USE DEF S
    <3>3. x \in Bits /\ m[x] = 1
      OBVIOUS
    <3>4. \A i \in Bits : i >= x => m[i] = 1
      BY <1>0, <1>2, <3>3
    <3>5. \A i \in Bits : m[i] = 1 => i >= x
      BY <3>2, <3>3
    <3>6. W - x \in 0..W /\ W - (W - x) = x
      BY <3>3
    <3> HIDE DEF S
    <3>7. Ones(m, W - x)
      BY <3>4, <3>5, <3>6
    <3>8. QED
      BY <3>6, <3>7
  <2>3. QED
    BY <1>0, <2>1, <2>2
<1>3. ASSUME Holes(m) PROVE Addresses!ConvertMaskToCIDR(m, W) = -1
  BY <1>3, Zenon DEF Addresses!ConvertMaskToCIDR
<1>4. ASSUME Holes(m), NEW n \in 0..W PROVE ~Ones(m, n)
  BY <1>4
<1>5. QED
  BY <1>1, <1>2, <1>3, <1>4

-----------------------------------------------------------------------------
(* Names and objects                                                       *)
(*                                                                         *)
(* What exists is closed under prefixes.  What an RPC has walked to stays  *)
(* in the cache as the same instance, so a name of the same object finds   *)
(* that instance again.                                                    *)

Closed ==
  /\ Lookups!Root \in tree /\ tree \subseteq AllObjects \cup {Lookups!Root} /\ params \subseteq tree \X ObjectParams
  /\ \A p \in tree : \A i \in 0..Len(p) : SubSeq(p, 1, i) \in tree

Found == [path : AllObjects \cup {Lookups!Root}, instance : Nat, param : ObjectParams \cup {Lookups!Dot}]

LookupInv ==
  /\ Closed /\ made \in Nat \ {0} /\ results \in Seq(Found)
  /\ cache \in [AllObjects \cup {Lookups!Root} -> Nat] /\ cache[Lookups!Root] # 0
  /\ \A p \in DOMAIN cache : cache[p] # 0 => p \in tree
  /\ \A i \in DOMAIN results :
       results[i].instance # 0 /\ cache[results[i].path] = results[i].instance

LEMMA PathsAreSequences ==
  ASSUME Lookups!HandlesAssumption
  PROVE  /\ AllObjects \cup {Lookups!Root} \subseteq Seq(Lookups!Parts)
         /\ \A p \in AllObjects \cup {Lookups!Root} :
              Len(p) <= MaxDepth
              /\ \A i \in 0..Len(p) : SubSeq(p, 1, i) \in AllObjects \cup {Lookups!Root}
<1>1. AllObjects \cup {Lookups!Root} \subseteq Seq(Lookups!Parts) /\ Len(Lookups!Root) = 0
  <2>1. Lookups!Root \in Seq(Lookups!Parts) /\ Len(Lookups!Root) = 0
    BY DEF Lookups!Root
  <2>2. AllObjects \subseteq Seq(Lookups!Parts)
    BY DEF Lookups!HandlesAssumption
  <2>3. QED
    BY <2>1, <2>2
<1>2. ASSUME NEW p \in AllObjects \cup {Lookups!Root}, NEW i \in 0..Len(p)
      PROVE  SubSeq(p, 1, i) \in AllObjects \cup {Lookups!Root}
  <2>1. CASE i = 0
    BY <1>1, <2>1 DEF Lookups!Root
  <2>2. CASE i # 0
    BY <1>1, <1>2, <2>2 DEF Lookups!HandlesAssumption
  <2>3. QED
    BY <2>1, <2>2
<1>3. \A p \in AllObjects \cup {Lookups!Root} : Len(p) <= MaxDepth
  BY <1>1 DEF Lookups!HandlesAssumption
<1>4. QED
  BY <1>1, <1>2, <1>3

LEMMA SameSequence ==
  ASSUME NEW S, NEW s \in Seq(S), NEW t \in Seq(S), Len(s) = Len(t),
         \A i \in 1..Len(s) : s[i] = t[i]
  PROVE  s = t
OBVIOUS

LEMMA PrefixSays ==
  ASSUME NEW S, NEW p \in Seq(S), NEW k \in 0..Len(p)
  PROVE  /\ SubSeq(p, 1, k) \in Seq(S) /\ Len(SubSeq(p, 1, k)) = k
         /\ \A i \in 1..k : SubSeq(p, 1, k)[i] = p[i]
         /\ k = Len(p) => SubSeq(p, 1, k) = p
         /\ \A i \in 0..k : SubSeq(SubSeq(p, 1, k), 1, i) = SubSeq(p, 1, i)
<1>1. SubSeq(p, 1, k) \in Seq(S) /\ Len(SubSeq(p, 1, k)) = k
      /\ \A i \in 1..k : SubSeq(p, 1, k)[i] = p[i]
  OBVIOUS
<1>2. k = Len(p) => SubSeq(p, 1, k) = p
  BY <1>1, SameSequence
<1>3. ASSUME NEW i \in 0..k PROVE SubSeq(SubSeq(p, 1, k), 1, i) = SubSeq(p, 1, i)
  <2> DEFINE s == SubSeq(SubSeq(p, 1, k), 1, i)
             t == SubSeq(p, 1, i)
  <2>1. s \in Seq(S) /\ Len(s) = i /\ \A j \in 1..i : s[j] = p[j]
    BY <1>1
  <2>2. t \in Seq(S) /\ Len(t) = i /\ \A j \in 1..i : t[j] = p[j]
    OBVIOUS
  <2> HIDE DEF s, t
  <2>3. s = t
    BY <2>1, <2>2, SameSequence
  <2>4. QED
    BY <2>3 DEF s, t
<1>4. QED
  BY <1>1, <1>2, <1>3

\* A path with one more part.
LEMMA NameSays ==
  ASSUME NEW S, NEW p \in Seq(S), NEW x
  PROVE  /\ Lookups!Path(p \o <<x>>) = p /\ Lookups!Param(p \o <<x>>) = x
         /\ Len(p \o <<x>>) = Len(p) + 1
         /\ \A i \in 0..Len(p) : SubSeq(p \o <<x>>, 1, i) = SubSeq(p, 1, i)
<1> DEFINE T == S \cup {x}
           name == p \o <<x>>
<1>1. name \in Seq(T) /\ p \in Seq(T) /\ Len(name) = Len(p) + 1 /\ name[Len(p) + 1] = x
      /\ Len(p) \in Nat /\ \A i \in 1..Len(p) : name[i] = p[i]
  OBVIOUS
<1> HIDE DEF name, T
<1>2. ASSUME NEW i \in 0..Len(p) PROVE SubSeq(name, 1, i) = SubSeq(p, 1, i)
  <2>1. i \in 0..Len(name)
    BY <1>1
  <2>2. /\ SubSeq(name, 1, i) \in Seq(T) /\ Len(SubSeq(name, 1, i)) = i
        /\ \A j \in 1..i : SubSeq(name, 1, i)[j] = name[j]
    BY <1>1, <2>1, PrefixSays
  <2>3. /\ SubSeq(p, 1, i) \in Seq(T) /\ Len(SubSeq(p, 1, i)) = i
        /\ \A j \in 1..i : SubSeq(p, 1, i)[j] = p[j]
    BY <1>1, PrefixSays
  <2>4. \A j \in 1..i : SubSeq(name, 1, i)[j] = SubSeq(p, 1, i)[j]
    BY <1>1, <2>2, <2>3
  <2>5. QED
    BY <2>2, <2>3, <2>4, SameSequence
<1>3. SubSeq(name, 1, Len(p)) = p
  BY <1>1, <1>2, PrefixSays
<1>4. Lookups!Path(name) = p /\ Lookups!Param(name) = x
  BY <1>1, <1>3 DEF Lookups!Path, Lookups!Param, Lookups!Parent
<1>5. QED
  BY <1>1, <1>2, <1>4 DEF name

-----------------------------------------------------------------------------
(* The walk *)

\* The longest part of a path that is cached.
LEMMA CachedPrefixSays ==
  ASSUME Lookups!HandlesAssumption, LookupInv, NEW path \in AllObjects \cup {Lookups!Root}
  PROVE  /\ Lookups!CachedPrefix(path) \in 0..Len(path)
         /\ cache[SubSeq(path, 1, Lookups!CachedPrefix(path))] # 0
         /\ \A i \in 0..Len(path) : cache[SubSeq(path, 1, i)] # 0 => i <= Lookups!CachedPrefix(path)
<1> DEFINE T == {i \in 0..Len(path) : cache[SubSeq(path, 1, i)] # 0}
<1>1. Len(path) \in Nat /\ T \in SUBSET (0..Len(path))
  BY PathsAreSequences
<1>2. 0 \in T
  <2>1. SubSeq(path, 1, 0) = Lookups!Root
    BY PathsAreSequences DEF Lookups!Root
  <2>2. cache[SubSeq(path, 1, 0)] # 0
    BY <2>1 DEF LookupInv
  <2>3. QED
    BY <1>1, <2>2
<1>3. Lookups!CachedPrefix(path) = CHOOSE i \in T : \A j \in T : j <= i
  BY DEF Lookups!CachedPrefix
<1> HIDE DEF T
<1>4. \E i \in T : \A j \in T : j <= i
  BY <1>1, <1>2, Greatest
<1>5. Lookups!CachedPrefix(path) \in T /\ \A j \in T : j <= Lookups!CachedPrefix(path)
  BY <1>3, <1>4
<1>6. QED
  BY <1>5 DEF T

LEMMA LookupStep ==
  ASSUME Lookups!HandlesAssumption, LookupInv, NEW name, Lookups!Path(name) \in AllObjects \cup {Lookups!Root},
         Lookups!Param(name) \in ObjectParams \cup {Lookups!Dot}, Lookups!Lookup(name)
  PROVE  LookupInv'
<1> DEFINE p == Lookups!Path(name)
           last == Lookups!Param(name)
           from == Lookups!CachedPrefix(p)
           found == {i \in from..Len(p) : \A j \in (from + 1)..i : SubSeq(p, 1, j) \in tree}
           to == CHOOSE i \in found : \A j \in found : j <= i
           walked == {SubSeq(p, 1, i) : i \in (from + 1)..to}
           new == [x \in DOMAIN cache |-> IF x \in walked THEN Lookups!Instance(p, Len(x)) ELSE cache[x]]
<1>0. p \in Seq(Lookups!Parts) /\ Len(p) \in Nat /\ \A i \in 0..Len(p) : SubSeq(p, 1, i) \in AllObjects \cup {Lookups!Root}
  BY PathsAreSequences
<1>2. /\ cache' = new /\ made' = made + Len(p) /\ lookup_failed' = (to < Len(p))
      /\ results' = IF lookup_failed' THEN results
                    ELSE Append(results, [path |-> p, instance |-> new[p], param |-> last])
      /\ tree' = tree /\ params' = params
  BY Zenon DEF Lookups!Lookup, Lookups!WalkFrom
<1>1. p \in AllObjects \cup {Lookups!Root} /\ last \in ObjectParams \cup {Lookups!Dot}
  OBVIOUS
<1> HIDE DEF p, last
<1>3. /\ from \in 0..Len(p) /\ cache[SubSeq(p, 1, from)] # 0
      /\ \A i \in 0..Len(p) : cache[SubSeq(p, 1, i)] # 0 => i <= from
  BY <1>1, CachedPrefixSays
<1> HIDE DEF from
<1>4. to \in from..Len(p) /\ \A j \in (from + 1)..to : SubSeq(p, 1, j) \in tree
  <2>1. from \in found /\ found \in SUBSET (0..Len(p))
    BY <1>0, <1>3
  <2> HIDE DEF found
  <2>2. \E i \in found : \A j \in found : j <= i
    BY <1>0, <2>1, Greatest
  <2>3. to \in found
    BY <2>2
  <2> HIDE DEF to
  <2>4. QED
    BY <2>3 DEF found
<1> HIDE DEF to
<1>5. ASSUME NEW x \in walked
      PROVE  x \in tree /\ x \in DOMAIN cache /\ cache[x] = 0 /\ Lookups!Instance(p, Len(x)) \in Nat \ {0}
  <2>1. PICK i \in (from + 1)..to : x = SubSeq(p, 1, i)
    OBVIOUS
  <2>2. i \in 0..Len(p) /\ i > from /\ i \in Nat
    BY <1>0, <1>3, <1>4, <2>1
  <2>3. x \in tree /\ x \in AllObjects \cup {Lookups!Root} /\ Len(x) = i
    BY <1>0, <1>4, <2>1, <2>2, PrefixSays
  <2>4. cache[x] \in Nat /\ x \in DOMAIN cache
    BY <2>3 DEF LookupInv
  <2>5. cache[x] = 0
    BY <1>3, <2>1, <2>2, <2>4
  <2>6. Lookups!Instance(p, i) \in Nat \ {0}
    BY <2>2 DEF Lookups!Instance, LookupInv
  <2>7. QED
    BY <2>3, <2>4, <2>5, <2>6
<1> HIDE DEF walked
<1>6. cache' \in [AllObjects \cup {Lookups!Root} -> Nat]
      /\ \A x \in DOMAIN cache : cache'[x] = IF x \in walked THEN Lookups!Instance(p, Len(x)) ELSE cache[x]
  BY <1>2, <1>5 DEF LookupInv
<1>7. \A x \in DOMAIN cache : cache[x] # 0 => cache'[x] = cache[x]
  BY <1>5, <1>6
<1>8. cache'[Lookups!Root] # 0 /\ \A x \in DOMAIN cache' : cache'[x] # 0 => x \in tree'
  BY <1>2, <1>5, <1>6, <1>7 DEF LookupInv
<1>9. Closed' /\ made' \in Nat \ {0}
  BY <1>0, <1>2 DEF LookupInv, Closed
<1>10. \A i \in DOMAIN results : results[i].path \in DOMAIN cache
  <2>1. \A i \in DOMAIN results : results[i] \in Found
    BY DEF LookupInv
  <2>2. DOMAIN cache = AllObjects \cup {Lookups!Root}
    BY DEF LookupInv
  <2>3. QED
    BY <2>1, <2>2 DEF Found
<1>11. CASE lookup_failed'
  BY <1>2, <1>6, <1>7, <1>8, <1>9, <1>10, <1>11 DEF LookupInv
<1>12. CASE ~lookup_failed'
  <2> DEFINE r == [path |-> p, instance |-> cache'[p], param |-> last]
  <2>1. results' = Append(results, r) /\ to = Len(p)
    <3>1. to = Len(p)
      <4>1. ~ (to < Len(p))
        BY <1>2, <1>12, Zenon
      <4>2. QED
        BY <1>0, <1>3, <1>4, <4>1
    <3>2. new[p] = cache'[p]
      BY <1>2
    <3> HIDE DEF new
    <3>3. QED
      BY <1>2, <1>12, <3>1, <3>2
  <2>2. p \in DOMAIN cache /\ SubSeq(p, 1, Len(p)) = p
    BY <1>0, <1>1, PrefixSays DEF LookupInv
  <2>3. cache'[p] # 0
    <3>1. CASE from = Len(p)
      BY <1>3, <1>7, <2>2, <3>1
    <3>2. CASE from # Len(p)
      <4>1. p \in walked
        BY <1>0, <1>3, <2>1, <2>2, <3>2 DEF walked
      <4>2. QED
        BY <1>5, <1>6, <2>2, <4>1
    <3>3. QED
      BY <3>1, <3>2
  <2>4. r \in Found /\ r.path = p /\ r.instance = cache'[p]
    BY <1>1, <1>6, <2>2 DEF Found, LookupInv
  <2> HIDE DEF r
  <2>5. results' \in Seq(Found) /\ DOMAIN results' = 1..(Len(results) + 1)
        /\ results'[Len(results) + 1] = r /\ Len(results) \in Nat
        /\ DOMAIN results = 1..Len(results)
        /\ \A i \in 1..Len(results) : results'[i] = results[i]
    BY <2>1, <2>4 DEF LookupInv
  <2>6. ASSUME NEW i \in DOMAIN results'
        PROVE  results'[i].instance # 0 /\ cache'[results'[i].path] = results'[i].instance
    <3>1. CASE i = Len(results) + 1
      BY <2>3, <2>4, <2>5, <3>1
    <3>2. CASE i \in DOMAIN results
      <4>1. results'[i] = results[i] /\ results[i].instance # 0
            /\ cache[results[i].path] = results[i].instance
        BY <2>5, <3>2 DEF LookupInv
      <4>2. cache'[results[i].path] = cache[results[i].path]
        BY <1>7, <1>10, <3>2, <4>1
      <4>3. QED
        BY <4>1, <4>2
    <3>3. QED
      BY <2>5, <3>1, <3>2
  <2>7. QED
    BY <1>6, <1>8, <1>9, <2>5, <2>6 DEF LookupInv
<1>13. QED
  BY <1>11, <1>12

-----------------------------------------------------------------------------
(* The listing *)

Names == {p \o <<x>> : p \in tree, x \in ObjectParams \cup {Lookups!Dot}}

\* What a listing of some levels below a path must name.
Within(path, d) ==
  {p \o <<Lookups!Dot>> : p \in {p \in Lookups!Descendants(path) : Len(p) <= Len(path) + d + 1}}
    \cup {q[1] \o <<q[2]>> : q \in {q \in params : /\ q[1] \in Lookups!Descendants(path) \cup {path}
                                                    /\ Len(q[1]) <= Len(path) + d}}

LEMMA TreeSays ==
  ASSUME Lookups!HandlesAssumption, Closed
  PROVE  /\ \A p \in tree : /\ p \in Seq(Lookups!Parts) /\ Len(p) \in Nat /\ Len(p) <= MaxDepth
                            /\ Len(p) = 0 <=> p = Lookups!Root
         /\ MaxDepth \in Nat
<1>1. ASSUME NEW p \in Seq(Lookups!Parts) PROVE Len(p) = 0 <=> p = <<>>
  OBVIOUS
<1>2. QED
  BY <1>1, PathsAreSequences DEF Closed, Lookups!HandlesAssumption, Lookups!Root

\* The children of a path are the objects one level below it.
LEMMA ChildrenSay ==
  ASSUME Lookups!HandlesAssumption, Closed, NEW path \in tree
  PROVE  /\ \A c \in Lookups!Children(path) : c \in tree /\ Len(c) = Len(path) + 1 /\ c \in Lookups!Descendants(path)
         /\ \A c \in Lookups!Children(path) : Lookups!Descendants(c) \subseteq Lookups!Descendants(path)
         /\ \A p \in Lookups!Descendants(path) :
              IF Len(p) = Len(path) + 1 THEN p \in Lookups!Children(path)
              ELSE \E c \in Lookups!Children(path) : p \in Lookups!Descendants(c)
<1>0. path \in Seq(Lookups!Parts) /\ Len(path) \in Nat
  BY TreeSays
<1>1. ASSUME NEW c \in Lookups!Children(path)
      PROVE  c \in tree /\ Len(c) = Len(path) + 1 /\ SubSeq(c, 1, Len(path)) = path
  <2>1. c \in tree /\ c # Lookups!Root /\ SubSeq(c, 1, Len(c) - 1) = path
    BY DEF Lookups!Children, Lookups!Parent
  <2>2. c \in Seq(Lookups!Parts) /\ Len(c) \in Nat /\ Len(c) # 0
    BY <2>1, TreeSays
  <2>3. Len(c) - 1 \in 0..Len(c)
    BY <2>2
  <2>4. Len(path) = Len(c) - 1
    BY <2>1, <2>2, <2>3, PrefixSays
  <2>5. QED
    BY <2>1, <2>2, <2>4
<1>2. \A c \in Lookups!Children(path) : c \in Lookups!Descendants(path)
  BY <1>0, <1>1 DEF Lookups!Descendants
<1>3. ASSUME NEW c \in Lookups!Children(path), NEW p \in Lookups!Descendants(c) PROVE p \in Lookups!Descendants(path)
  <2>1. p \in tree /\ Len(p) > Len(c) /\ SubSeq(p, 1, Len(c)) = c
    BY DEF Lookups!Descendants
  <2>2. p \in Seq(Lookups!Parts) /\ Len(p) \in Nat
    BY <2>1, TreeSays
  <2>3. Len(c) \in 0..Len(p) /\ Len(path) \in 0..Len(c) /\ Len(p) > Len(path)
    BY <1>0, <1>1, <2>1, <2>2
  <2>4. SubSeq(SubSeq(p, 1, Len(c)), 1, Len(path)) = SubSeq(p, 1, Len(path))
    BY <2>2, <2>3, PrefixSays
  <2>5. SubSeq(p, 1, Len(path)) = path
    BY <1>1, <2>1, <2>4
  <2>6. QED
    BY <2>1, <2>3, <2>5 DEF Lookups!Descendants
<1>4. ASSUME NEW p \in Lookups!Descendants(path), Len(p) = Len(path) + 1 PROVE p \in Lookups!Children(path)
  <2>1. p \in tree /\ SubSeq(p, 1, Len(path)) = path
    BY DEF Lookups!Descendants
  <2>2. p # Lookups!Root /\ Len(p) - 1 = Len(path)
    BY <1>0, <1>4, <2>1, TreeSays
  <2>3. QED
    BY <2>1, <2>2 DEF Lookups!Children, Lookups!Parent
<1>5. ASSUME NEW p \in Lookups!Descendants(path), Len(p) # Len(path) + 1
      PROVE  \E c \in Lookups!Children(path) : p \in Lookups!Descendants(c)
  <2> DEFINE k == Len(path) + 1
             c == SubSeq(p, 1, k)
  <2>1. p \in tree /\ Len(p) > Len(path) /\ SubSeq(p, 1, Len(path)) = path
    BY DEF Lookups!Descendants
  <2>2. p \in Seq(Lookups!Parts) /\ Len(p) \in Nat /\ Len(p) > k /\ k \in 0..Len(p) /\ k # 0 /\ k \in Nat
        /\ k - 1 = Len(path) /\ Len(path) \in 0..k
    BY <1>0, <1>5, <2>1, TreeSays
  <2> HIDE DEF k
  <2>3. /\ c \in Seq(Lookups!Parts) /\ Len(c) = k
        /\ SubSeq(SubSeq(p, 1, k), 1, Len(path)) = SubSeq(p, 1, Len(path))
    BY <2>2, PrefixSays
  <2>4. c \in tree
    BY <2>1, <2>2 DEF Closed
  <2>5. c # Lookups!Root /\ Lookups!Parent(c) = path
    BY <2>1, <2>2, <2>3, <2>4, TreeSays DEF Lookups!Parent
  <2>6. c \in Lookups!Children(path) /\ p \in Lookups!Descendants(c)
    BY <2>1, <2>2, <2>3, <2>4, <2>5 DEF Lookups!Children, Lookups!Descendants
  <2>7. QED
    BY <2>6
<1>6. QED
  BY <1>1, <1>2, <1>3, <1>4, <1>5

LEMMA WithinSplits ==
  ASSUME Lookups!HandlesAssumption, Closed, NEW path \in tree, NEW d \in Nat
  PROVE  Within(path, d) =
           Lookups!Exported(path) \cup
             IF d = 0 THEN {} ELSE UNION {Within(c, d - 1) : c \in Lookups!Children(path)}
<1>0. Len(path) \in Nat /\ \A p \in tree : Len(p) \in Nat
  BY TreeSays
<1> DEFINE Below1 == IF d = 0 THEN {} ELSE UNION {Within(c, d - 1) : c \in Lookups!Children(path)}
<1>1. ASSUME NEW p \in Lookups!Descendants(path), Len(p) <= Len(path) + d + 1
      PROVE  p \o <<Lookups!Dot>> \in Lookups!Exported(path) \cup Below1
  <2>1. CASE Len(p) = Len(path) + 1
    <3>1. p \in Lookups!Children(path)
      BY <2>1, ChildrenSay
    <3>2. QED
      BY <3>1 DEF Lookups!Exported
  <2>2. CASE Len(p) # Len(path) + 1
    <3>1. PICK c \in Lookups!Children(path) : p \in Lookups!Descendants(c)
      BY <2>2, ChildrenSay
    <3>2. Len(c) = Len(path) + 1 /\ Len(p) > Len(c) /\ p \in tree
      BY <3>1, ChildrenSay DEF Lookups!Descendants
    <3>3. Len(p) <= Len(c) + (d - 1) + 1 /\ d # 0
      BY <1>0, <1>1, <3>2
    <3>4. p \o <<Lookups!Dot>> \in Within(c, d - 1)
      BY <3>1, <3>3 DEF Within
    <3>5. QED
      BY <3>3, <3>4
  <2>3. QED
    BY <2>1, <2>2
<1>2. ASSUME NEW q \in params, q[1] \in Lookups!Descendants(path) \cup {path}, Len(q[1]) <= Len(path) + d
      PROVE  q[1] \o <<q[2]>> \in Lookups!Exported(path) \cup Below1
  <2>1. CASE q[1] = path
    BY <2>1 DEF Lookups!Exported
  <2>2. CASE q[1] \in Lookups!Descendants(path)
    <3>1. PICK c \in Lookups!Children(path) : q[1] \in Lookups!Descendants(c) \cup {c}
      BY <2>2, ChildrenSay
    <3>2. Len(c) = Len(path) + 1 /\ Len(q[1]) >= Len(c) /\ q[1] \in tree
      BY <1>0, <3>1, ChildrenSay DEF Lookups!Descendants
    <3>3. Len(q[1]) <= Len(c) + (d - 1) /\ d # 0
      BY <1>0, <1>2, <3>2
    <3>4. q[1] \o <<q[2]>> \in Within(c, d - 1)
      BY <3>1, <3>3 DEF Within
    <3>5. QED
      BY <3>3, <3>4
  <2>3. QED
    BY <1>2, <2>1, <2>2
<1>3. Lookups!Exported(path) \subseteq Within(path, d)
  <2>1. \A q \in params : q[1] = path => path \o <<q[2]>> \in Within(path, d)
    <3> SUFFICES ASSUME NEW q \in params, q[1] = path
                 PROVE  q[1] \o <<q[2]>> \in Within(path, d)
      OBVIOUS
    <3>1. q[1] \in Lookups!Descendants(path) \cup {path} /\ Len(q[1]) <= Len(path) + d
      BY <1>0
    <3>2. QED
      BY <3>1 DEF Within
  <2>2. ASSUME NEW c \in Lookups!Children(path) PROVE c \o <<Lookups!Dot>> \in Within(path, d)
    <3>1. c \in Lookups!Descendants(path) /\ Len(c) <= Len(path) + d + 1
      BY <1>0, ChildrenSay
    <3>2. QED
      BY <3>1 DEF Within
  <2>3. QED
    BY <2>1, <2>2 DEF Lookups!Exported
<1>4. ASSUME d # 0, NEW c \in Lookups!Children(path) PROVE Within(c, d - 1) \subseteq Within(path, d)
  <2>1. Len(c) = Len(path) + 1 /\ c \in Lookups!Descendants(path) /\ Lookups!Descendants(c) \subseteq Lookups!Descendants(path)
    BY ChildrenSay
  <2>2. \A p \in Lookups!Descendants(c) : Len(p) <= Len(c) + (d - 1) + 1 => Len(p) <= Len(path) + d + 1
    BY <1>0, <2>1 DEF Lookups!Descendants
  <2>3. \A q \in params : q[1] \in tree /\ (Len(q[1]) <= Len(c) + (d - 1) => Len(q[1]) <= Len(path) + d)
    BY <1>0, <2>1 DEF Closed
  <2>4. ASSUME NEW n \in Within(c, d - 1) PROVE n \in Within(path, d)
    <3>1. CASE \E p \in Lookups!Descendants(c) : Len(p) <= Len(c) + (d - 1) + 1 /\ n = p \o <<Lookups!Dot>>
      BY <2>1, <2>2, <3>1 DEF Within
    <3>2. CASE \E q \in params : /\ q[1] \in Lookups!Descendants(c) \cup {c}
                                 /\ Len(q[1]) <= Len(c) + (d - 1) /\ n = q[1] \o <<q[2]>>
      BY <2>1, <2>3, <3>2 DEF Within
    <3>3. QED
      BY <2>4, <3>1, <3>2 DEF Within
  <2>5. QED
    BY <2>4
<1>5. Within(path, d) \subseteq Lookups!Exported(path) \cup Below1
  <2> SUFFICES ASSUME NEW n \in Within(path, d) PROVE n \in Lookups!Exported(path) \cup Below1
    OBVIOUS
  <2> HIDE DEF Below1
  <2>1. CASE \E p \in Lookups!Descendants(path) : Len(p) <= Len(path) + d + 1 /\ n = p \o <<Lookups!Dot>>
    BY <1>1, <2>1
  <2>2. CASE \E q \in params : /\ q[1] \in Lookups!Descendants(path) \cup {path}
                               /\ Len(q[1]) <= Len(path) + d /\ n = q[1] \o <<q[2]>>
    BY <1>2, <2>2
  <2>3. QED
    BY <2>1, <2>2 DEF Within
<1>6. Below1 \subseteq Within(path, d)
  BY <1>4
<1>7. QED
  BY <1>3, <1>5, <1>6

\* The listing of each depth names what is within it.
LEMMA ListingSays ==
  ASSUME Lookups!HandlesAssumption, Closed
  PROVE  \A d \in 0..MaxDepth : \A path \in tree : Lookups!Listing[d][path] = Within(path, d)
<1> DEFINE U == UNION {Within(path, d) : path \in tree, d \in 0..MaxDepth}
           S == [tree -> SUBSET U]
           base == [path \in tree |-> Lookups!Exported(path)]
           More(x) == [path \in tree |-> Lookups!Exported(path) \cup UNION {x[c] : c \in Lookups!Children(path)}]
           move == [n \in 1..MaxDepth |-> [x \in S |-> More(x)]]
           Is(f) == f = [d \in 0..MaxDepth |-> [path \in tree |->
                           Lookups!Exported(path) \cup
                             IF d = 0 THEN {} ELSE UNION {f[d - 1][c] : c \in Lookups!Children(path)}]]
<1>0. MaxDepth \in Nat /\ 0 \in 0..MaxDepth
  BY DEF Lookups!HandlesAssumption
<1>1. \A path \in tree : Lookups!Exported(path) \subseteq U
  <2>1. \A path \in tree : Lookups!Exported(path) \subseteq Within(path, 0)
    BY WithinSplits
  <2>2. QED
    BY <1>0, <2>1
<1>2. \A path \in tree : Lookups!Children(path) \subseteq tree
  BY DEF Lookups!Children
<1> HIDE DEF U
<1>3. base \in S
  BY <1>1
<1>4. ASSUME NEW x \in S PROVE More(x) \in S
  BY <1>1, <1>2
<1>5. move \in [1..MaxDepth -> [S -> S]]
  <2> HIDE DEF S, More
  <2>1. QED
    BY <1>4
<1>6. PICK f : Iterates(MaxDepth, base, move, f) /\ \A n \in 0..MaxDepth : f[n] \in S
  <2> HIDE DEF S, base, move
  <2>1. QED
    BY <1>0, <1>3, <1>5, Stepwise
<1>7. Is(f)
  <2>1. f = [d \in 0..MaxDepth |-> IF d = 0 THEN base ELSE move[d][f[d - 1]]]
    BY <1>6 DEF Iterates
  <2>2. ASSUME NEW d \in 0..MaxDepth
        PROVE  (IF d = 0 THEN base ELSE move[d][f[d - 1]])
                 = [path \in tree |->
                      Lookups!Exported(path) \cup
                        IF d = 0 THEN {} ELSE UNION {f[d - 1][c] : c \in Lookups!Children(path)}]
    <3>1. CASE d = 0
      BY <3>1
    <3>2. CASE d # 0
      <4>1. d \in 1..MaxDepth /\ d - 1 \in 0..MaxDepth
        BY <1>0, <3>2
      <4>2. f[d - 1] \in S
        BY <1>6, <4>1
      <4>3. move[d][f[d - 1]] = More(f[d - 1])
        <5> HIDE DEF S, More
        <5>1. QED
          BY <4>1, <4>2
      <4>4. QED
        BY <3>2, <4>3
    <3>3. QED
      BY <3>1, <3>2
  <2> HIDE DEF base, move
  <2>3. QED
    BY <2>1, <2>2
<1>8. Is(Lookups!Listing)
  <2>1. Lookups!Listing = CHOOSE g : Is(g)
    BY DEF Lookups!Listing
  <2> HIDE DEF Is
  <2>2. QED
    BY <1>7, <2>1
<1>9. \A d \in 0..MaxDepth : \A path \in tree :
        Lookups!Listing[d][path] = Lookups!Exported(path) \cup
                             IF d = 0 THEN {} ELSE UNION {Lookups!Listing[d - 1][c] : c \in Lookups!Children(path)}
  <2> DEFINE At(d) == [path \in tree |->
                         Lookups!Exported(path) \cup
                           IF d = 0 THEN {} ELSE UNION {Lookups!Listing[d - 1][c] : c \in Lookups!Children(path)}]
  <2>1. Lookups!Listing = [d \in 0..MaxDepth |-> At(d)]
    BY <1>8
  <2>2. \A d \in 0..MaxDepth : Lookups!Listing[d] = At(d)
    <3> HIDE DEF At
    <3>1. QED
      BY <2>1
  <2>3. QED
    BY <2>2
<1> DEFINE P == {d \in 0..MaxDepth : \A path \in tree : Lookups!Listing[d][path] = Within(path, d)}
<1> HIDE DEF Is, base, move, S
<1>10. 0 \in P
  BY <1>0, <1>9, WithinSplits
<1>11. ASSUME NEW d \in 1..MaxDepth, d - 1 \in P PROVE d \in P
  <2>1. d \in 0..MaxDepth /\ d \in Nat /\ d # 0
    BY <1>0
  <2>2. ASSUME NEW path \in tree PROVE Lookups!Listing[d][path] = Within(path, d)
    <3>1. \A c \in Lookups!Children(path) : Lookups!Listing[d - 1][c] = Within(c, d - 1)
      BY <1>2, <1>11
    <3>2. UNION {Lookups!Listing[d - 1][c] : c \in Lookups!Children(path)}
            = UNION {Within(c, d - 1) : c \in Lookups!Children(path)}
      BY <3>1
    <3>3. Lookups!Listing[d][path] = Lookups!Exported(path) \cup UNION {Lookups!Listing[d - 1][c] : c \in Lookups!Children(path)}
      BY <1>9, <2>1
    <3>4. Within(path, d) = Lookups!Exported(path) \cup UNION {Within(c, d - 1) : c \in Lookups!Children(path)}
      BY <2>1, WithinSplits
    <3>5. QED
      BY <3>2, <3>3, <3>4
  <2>3. QED
    BY <2>1, <2>2
<1>12. \A d \in 0..MaxDepth : d \in P
  <2> HIDE DEF P
  <2>1. QED
    BY <1>0, <1>10, <1>11, InductUpto
<1>13. QED
  BY <1>12

\* The listing names what exists.
LEMMA ListingIsComplete ==
  ASSUME Lookups!HandlesAssumption, Closed
  PROVE  Lookups!ListsWhatIsFound
<1> SUFFICES ASSUME NEW path \in tree
             PROVE  /\ \A name \in Lookups!ListExports(path, TRUE) :
                         IF Lookups!Param(name) = Lookups!Dot THEN Lookups!GetExport(Lookups!Path(name)) ELSE Lookups!GetExport(name)
                    /\ Lookups!ListExports(path, TRUE) =
                         {p \o <<Lookups!Dot>> : p \in Lookups!Descendants(path)}
                           \cup {q[1] \o <<q[2]>> :
                                  q \in {q \in params : q[1] \in Lookups!Descendants(path) \cup {path}}}
  BY DEF Lookups!ListsWhatIsFound
<1> DEFINE All == {p \o <<Lookups!Dot>> : p \in Lookups!Descendants(path)}
                    \cup {q[1] \o <<q[2]>> :
                           q \in {q \in params : q[1] \in Lookups!Descendants(path) \cup {path}}}
<1>0. Len(path) \in Nat /\ MaxDepth \in Nat /\ MaxDepth \in 0..MaxDepth
      /\ \A p \in tree : Len(p) \in Nat /\ p \in Seq(Lookups!Parts) /\ Len(p) <= MaxDepth
  BY TreeSays
<1>1. Lookups!ListExports(path, TRUE) = Within(path, MaxDepth)
  <2>1. Lookups!ListExports(path, TRUE) = Lookups!Listing[MaxDepth][path]
    BY DEF Lookups!ListExports
  <2>2. QED
    BY <1>0, <2>1, ListingSays
<1>2. \A p \in Lookups!Descendants(path) : p \in tree /\ Len(p) <= Len(path) + MaxDepth + 1
  BY <1>0 DEF Lookups!Descendants
<1>3. \A q \in params : q[1] \in tree
  BY DEF Closed
<1>4. ASSUME NEW q \in params, q[1] \in Lookups!Descendants(path) \cup {path}
      PROVE  Len(q[1]) <= Len(path) + MaxDepth
  <2>1. CASE q[1] = path
    BY <1>0, <2>1
  <2>2. CASE q[1] \in Lookups!Descendants(path) /\ Len(path) > 0
    BY <1>0, <1>3, <2>2
  <2>3. CASE q[1] \in Lookups!Descendants(path) /\ Len(path) = 0
    BY <1>0, <1>3, <2>3
  <2>4. QED
    BY <1>0, <1>4, <2>1, <2>2, <2>3
<1>5. Within(path, MaxDepth) = All
  BY <1>2, <1>4 DEF Within
<1>6. ASSUME NEW p \in tree, NEW i \in 0..Len(p) PROVE SubSeq(p, 1, i) \in tree
  BY DEF Closed
<1>7. ASSUME NEW p \in Lookups!Descendants(path)
      PROVE  Lookups!Param(p \o <<Lookups!Dot>>) = Lookups!Dot /\ Lookups!GetExport(Lookups!Path(p \o <<Lookups!Dot>>))
  <2>1. p \in tree /\ Lookups!Path(p \o <<Lookups!Dot>>) = p /\ Lookups!Param(p \o <<Lookups!Dot>>) = Lookups!Dot
    BY <1>0, <1>2, NameSays
  <2>2. \A i \in 0..(Len(p) - 1) : i \in 0..Len(p)
    BY <1>0, <2>1
  <2>3. Lookups!GetExport(p)
    BY <1>6, <2>1, <2>2 DEF Lookups!GetExport, Lookups!FindExport
  <2>4. QED
    BY <2>1, <2>3
<1>8. ASSUME NEW q \in params
      PROVE  Lookups!Param(q[1] \o <<q[2]>>) # Lookups!Dot /\ Lookups!GetExport(q[1] \o <<q[2]>>)
  <2> DEFINE name == q[1] \o <<q[2]>>
  <2>1. q[1] \in tree /\ q[2] \in ObjectParams /\ q = <<q[1], q[2]>> /\ q[1] \in Seq(Lookups!Parts)
    BY <1>0 DEF Closed
  <2>2. Lookups!Path(name) = q[1] /\ Lookups!Param(name) = q[2] /\ Len(name) = Len(q[1]) + 1
        /\ \A i \in 0..Len(q[1]) : SubSeq(name, 1, i) = SubSeq(q[1], 1, i)
    BY <2>1, NameSays
  <2> HIDE DEF name
  <2>3. Lookups!FindExport(name)
    <3>1. \A i \in 0..(Len(name) - 1) : i \in 0..Len(q[1])
      BY <1>0, <2>1, <2>2
    <3>2. \A i \in 0..Len(q[1]) : SubSeq(name, 1, i) \in tree
      BY <1>6, <2>1, <2>2
    <3>3. QED
      BY <3>1, <3>2 DEF Lookups!FindExport
  <2>4. <<Lookups!Parent(name), Lookups!Param(name)>> = q
    BY <2>1, <2>2 DEF Lookups!Path
  <2>5. Lookups!GetExport(name) /\ Lookups!Param(name) # Lookups!Dot
    BY <2>1, <2>2, <2>3, <2>4 DEF Lookups!GetExport, Lookups!HandlesAssumption
  <2>6. QED
    BY <2>5 DEF name
<1>9. \A name \in All : IF Lookups!Param(name) = Lookups!Dot THEN Lookups!GetExport(Lookups!Path(name)) ELSE Lookups!GetExport(name)
  BY <1>7, <1>8
<1>10. QED
  BY <1>1, <1>5, <1>9

\* The types of the variables, and: all parameters of an object that one RPC names are looked
\* up in the same instance of it, and a listing names what exists and nothing else
\* (LookupExports, ListExportsEx, FindExport).
THEOREM LookupsSafe ==
  ASSUME Lookups!HandlesAssumption
  PROVE  Lookups!Spec => [](Lookups!TypeOK /\ Lookups!OneInstance /\ Lookups!ListsWhatIsFound)
<1>1. Lookups!Init => LookupInv
  <2> SUFFICES ASSUME Lookups!Init PROVE LookupInv
    OBVIOUS
  <2>1. PICK t \in SUBSET AllObjects :
          tree = t \cup {Lookups!Root} /\ \A p \in t : Lookups!Parent(p) \in t \cup {Lookups!Root}
    BY DEF Lookups!Init
  <2>2. ASSUME NEW p \in tree PROVE \A i \in 0..Len(p) : SubSeq(p, 1, i) \in tree
    <3>0. p \in AllObjects \cup {Lookups!Root} /\ p \in Seq(Lookups!Parts) /\ Len(p) \in Nat
      BY <2>1, PathsAreSequences
    <3> DEFINE P == {k \in 0..Len(p) : SubSeq(p, 1, Len(p) - k) \in tree}
    <3>1. 0 \in P
      <4>1. SubSeq(p, 1, Len(p)) = p /\ Len(p) - 0 = Len(p)
        BY <3>0, PrefixSays
      <4>2. SubSeq(p, 1, Len(p) - 0) \in tree
        BY <2>2, <4>1
      <4>3. QED
        BY <3>0, <4>2
    <3>2. ASSUME NEW k \in 1..Len(p), k - 1 \in P PROVE k \in P
      <4> DEFINE c == SubSeq(p, 1, Len(p) - (k - 1))
      <4>1. c \in tree /\ Len(p) - (k - 1) \in 1..Len(p) /\ Len(p) - k \in 0..(Len(p) - (k - 1))
            /\ Len(p) - (k - 1) \in 0..Len(p) /\ (Len(p) - (k - 1)) - 1 = Len(p) - k
        BY <3>0, <3>2
      <4>2. Len(c) = Len(p) - (k - 1) /\ SubSeq(c, 1, Len(p) - k) = SubSeq(p, 1, Len(p) - k)
        BY <3>0, <4>1, PrefixSays
      <4>3. c \in t
        <5>1. Len(c) # 0
          BY <3>0, <4>1, <4>2
        <5>2. c # Lookups!Root
          BY <5>1 DEF Lookups!Root
        <5>3. QED
          BY <2>1, <4>1, <5>2
      <4>4. SubSeq(p, 1, Len(p) - k) \in tree
        <5>1. Lookups!Parent(c) = SubSeq(p, 1, Len(p) - k)
          BY <4>1, <4>2 DEF Lookups!Parent
        <5>2. QED
          BY <2>1, <4>3, <5>1
      <4>5. QED
        BY <3>0, <4>4
    <3>3. \A k \in 0..Len(p) : k \in P
      <4> HIDE DEF P
      <4>1. QED
        BY <3>0, <3>1, <3>2, InductUpto
    <3>4. ASSUME NEW i \in 0..Len(p) PROVE SubSeq(p, 1, i) \in tree
      <4>1. Len(p) - i \in 0..Len(p) /\ Len(p) - (Len(p) - i) = i
        BY <3>0
      <4>2. QED
        BY <3>3, <4>1
    <3>5. QED
      BY <3>4
  <2>3. Closed
    BY <2>1, <2>2 DEF Closed, Lookups!Init
  <2>4. cache \in [AllObjects \cup {Lookups!Root} -> Nat] /\ cache[Lookups!Root] # 0
        /\ \A p \in DOMAIN cache : cache[p] # 0 => p \in tree
    BY <2>3 DEF Lookups!Init, Closed
  <2>5. results \in Seq(Found) /\ DOMAIN results = {} /\ made \in Nat \ {0}
    BY DEF Lookups!Init
  <2>6. QED
    BY <2>3, <2>4, <2>5 DEF LookupInv
<1>2. LookupInv /\ [Lookups!Next]_Lookups!vars => LookupInv'
  <2> SUFFICES ASSUME LookupInv, [Lookups!Next]_Lookups!vars PROVE LookupInv'
    OBVIOUS
  <2>1. ASSUME NEW p \in AllObjects \cup {Lookups!Root}, NEW last \in ObjectParams \cup {Lookups!Dot},
               Lookups!Lookup(p \o <<last>>)
        PROVE  LookupInv'
    <3>1. p \in Seq(Lookups!Parts)
      BY PathsAreSequences
    <3>2. Lookups!Path(p \o <<last>>) = p /\ Lookups!Param(p \o <<last>>) = last
      BY <3>1, NameSays
    <3>3. QED
      BY <2>1, <3>2, LookupStep
  <2>2. CASE UNCHANGED Lookups!vars
    BY <2>2 DEF Lookups!vars, LookupInv, Closed
  <2>3. QED
    BY <2>1, <2>2 DEF Lookups!Next
<1>3. LookupInv => Lookups!TypeOK /\ Lookups!OneInstance /\ Lookups!ListsWhatIsFound
  <2> SUFFICES ASSUME LookupInv PROVE Lookups!TypeOK /\ Lookups!OneInstance /\ Lookups!ListsWhatIsFound
    OBVIOUS
  <2>1. \A i \in DOMAIN results : results[i].path \in tree
    <3>1. \A i \in DOMAIN results : results[i] \in Found
      BY DEF LookupInv
    <3>2. \A i \in DOMAIN results : results[i].path \in DOMAIN cache
      BY <3>1 DEF LookupInv, Found
    <3>3. QED
      BY <3>2 DEF LookupInv
  <2>2. Lookups!TypeOK
    BY <2>1 DEF LookupInv, Closed, Lookups!TypeOK
  <2>3. Lookups!OneInstance
    BY DEF LookupInv, Lookups!OneInstance
  <2>4. QED
    BY <2>2, <2>3, ListingIsComplete DEF LookupInv
<1>4. QED
  BY <1>1, <1>2, <1>3, PTL DEF Lookups!Spec

-----------------------------------------------------------------------------
(* The properties of SageTV                                                *)
(*                                                                         *)
(* The key that a name stands for is the name itself or one that is        *)
(* cleaned to it, and nothing is written before the copy is read.          *)

StandsFor ==
  \A n \in Sage!Names : cleaned[n] = n \/ \E k \in Sage!PropertyKeys : Clean[k] = n /\ cleaned[n] = k

SageInv ==
  /\ Sage!TypeOK /\ saved \in BOOLEAN /\ StandsFor
  /\ DOMAIN written = Sage!Names /\ (props = Sage!Unread => \A n \in Sage!Names : written[n] = Sage!Absent)
  /\ Sage!ReadsWhatWasWritten /\ Sage!ReadsAsSageHasIt

\* A value that survives the file is read as it is.
LEMMA SurvivorsParse ==
  ASSUME NEW v \in Seq(Sage!Characters), Sage!Survives(v)
  PROVE  Sage!ParseProps(v) = v
<1> DEFINE line == Sage!Escaped(v)
<1>1. DOMAIN v = 1..Len(v) /\ Len(v) \in Nat /\ v = [i \in 1..Len(v) |-> v[i]]
  OBVIOUS
<1>2. DOMAIN line = 1..Len(v) /\ \A i \in 1..Len(v) : line[i].char = v[i] /\ v[i] # "#"
  BY <1>1 DEF Sage!Escaped, Sage!Survives
<1> HIDE DEF line
<1>3. Sage!Uncommented(line) = line
  <2> DEFINE hashes == {i \in DOMAIN line : line[i].char = "#"}
  <2>1. hashes = {}
    BY <1>2
  <2>2. QED
    BY <2>1 DEF Sage!Uncommented
<1>4. Sage!Unescaped(line) = v
  <2>1. Sage!Unescaped(line) = [i \in 1..Len(v) |-> line[i].char]
    BY <1>2 DEF Sage!Unescaped
  <2>2. [i \in 1..Len(v) |-> line[i].char] = [i \in 1..Len(v) |-> v[i]]
    BY <1>2
  <2>3. QED
    BY <1>1, <2>1, <2>2
<1>5. Sage!Stripped(v) = v
  <2> DEFINE kept == {i \in DOMAIN v : v[i] # " "}
             low  == CHOOSE i \in kept : \A j \in kept : i <= j
             high == CHOOSE i \in kept : \A j \in kept : j <= i
  <2>1. CASE v = << >>
    <3>1. kept = {}
      BY <2>1
    <3>2. QED
      BY <2>1, <3>1 DEF Sage!Stripped
  <2>2. CASE v # << >>
    <3>1. 1 \in kept /\ Len(v) \in kept /\ kept \in SUBSET (1..Len(v)) /\ Len(v) >= 1
      <4>1. v[1] # " " /\ v[Len(v)] # " "
        BY <2>2 DEF Sage!Survives
      <4>2. Len(v) >= 1 /\ 1 \in DOMAIN v /\ Len(v) \in DOMAIN v
        BY <1>1, <2>2
      <4>3. 1 \in kept /\ Len(v) \in kept
        BY <4>1, <4>2
      <4>4. kept \in SUBSET DOMAIN v
        OBVIOUS
      <4>5. QED
        BY <1>1, <4>2, <4>3, <4>4
    <3>2. Sage!Stripped(v) = SubSeq(v, low, high)
      BY <3>1 DEF Sage!Stripped
    <3> HIDE DEF kept
    <3>3. low = 1 /\ high = Len(v)
      <4>1. low \in kept /\ \A j \in kept : low <= j
        <5>1. \E i \in kept : \A j \in kept : i <= j
          BY <3>1
        <5>2. QED
          BY <5>1
      <4>2. high \in kept /\ \A j \in kept : j <= high
        <5>1. \E i \in kept : \A j \in kept : j <= i
          BY <3>1
        <5>2. QED
          BY <5>1
      <4> HIDE DEF low, high
      <4>3. QED
        BY <3>1, <4>1, <4>2
    <3>4. SubSeq(v, 1, Len(v)) = v
      BY <1>1
    <3>5. QED
      BY <3>2, <3>3, <3>4
  <2>3. QED
    BY <2>1, <2>2
<1>6. QED
  BY <1>3, <1>4, <1>5 DEF Sage!ParseProps, line

\* Each name is cleaned to itself or to a key.
LEMMA CleanedSays ==
  ASSUME Sage!SageAssumption, NEW d, NEW n \in Sage!Names
  PROVE  Sage!Cleaned(d)[n] = n \/ \E k \in Sage!PropertyKeys : Clean[k] = n /\ Sage!Cleaned(d)[n] = k
<1> DEFINE same == {i \in DOMAIN Sorted : Clean[Sorted[i]] = n /\ d[Sorted[i]] # Sage!Absent}
           last == CHOOSE i \in same : \A j \in same : j <= i
<1>1. Sage!Cleaned(d)[n] = IF same = {} THEN n ELSE Sorted[last]
  BY DEF Sage!Cleaned
<1>2. CASE same = {}
  BY <1>1, <1>2
<1>3. CASE same # {}
  <2>1. DOMAIN Sorted = 1..Len(Sorted) /\ Len(Sorted) \in Nat
    BY DEF Sage!SageAssumption
  <2>2. same \in SUBSET (0..Len(Sorted))
    BY <2>1
  <2> HIDE DEF same
  <2>3. \E i \in same : \A j \in same : j <= i
    BY <1>3, <2>1, <2>2, Greatest
  <2>4. last \in same
    BY <2>3
  <2> HIDE DEF last
  <2>5. last \in DOMAIN Sorted /\ Clean[Sorted[last]] = n
    BY <2>4 DEF same
  <2>6. Sorted[last] \in Sage!PropertyKeys
    BY <2>5 DEF Sage!PropertyKeys
  <2>7. QED
    BY <1>1, <1>3, <2>5, <2>6
<1>4. QED
  BY <1>2, <1>3

\* What the copy is read from is what the properties are.
LEMMA GetTreeTopStep ==
  ASSUME Sage!SageAssumption, SageInv, NEW ok \in BOOLEAN, Sage!GetTreeTop(ok)
  PROVE  SageInv'
<1> DEFINE d == Sage!Saved(ok)
<1>1. /\ props = Sage!Unread /\ props' = Sage!Parsed(d) /\ cleaned' = Sage!Cleaned(d) /\ saved' = ok
      /\ sage' = sage /\ written' = written /\ file' = IF ok THEN sage ELSE file
  BY DEF Sage!GetTreeTop
<1>2. d \in [Sage!PropertyKeys -> {Sage!Absent} \cup PropertyValues] /\ file' \in [Sage!PropertyKeys -> {Sage!Absent} \cup PropertyValues]
      /\ (ok => d = sage)
  BY <1>1 DEF Sage!Saved, SageInv, Sage!TypeOK
<1> HIDE DEF d
<1>3. props' \in [Sage!PropertyKeys \cup Sage!Names -> Sage!Readable]
      /\ \A k \in Sage!PropertyKeys : props'[k] = Sage!ParseProps(d[k])
  BY <1>1, <1>2 DEF Sage!Parsed, Sage!Readable
<1>4. \A n \in Sage!Names : cleaned'[n] = n \/ \E k \in Sage!PropertyKeys : Clean[k] = n /\ cleaned'[n] = k
  BY <1>1, CleanedSays
<1>5. cleaned' \in [Sage!Names -> Sage!PropertyKeys \cup Sage!Names]
  <2>1. DOMAIN cleaned' = Sage!Names /\ cleaned' = [n \in Sage!Names |-> cleaned'[n]]
    BY <1>1 DEF Sage!Cleaned
  <2>2. \A n \in Sage!Names : cleaned'[n] \in Sage!PropertyKeys \cup Sage!Names
    BY <1>4
  <2>3. QED
    BY <2>1, <2>2
<1>6. \A n \in Sage!Names : written[n] = Sage!Absent
  BY <1>1 DEF SageInv
<1>7. Sage!ReadsWhatWasWritten' /\ DOMAIN written' = Sage!Names
  BY <1>1, <1>6 DEF Sage!ReadsWhatWasWritten, SageInv
<1>8. Sage!ReadsAsSageHasIt'
  <2>1. \A v \in {Sage!Absent} \cup PropertyValues : v \in Seq(Sage!Characters)
    <3>1. Sage!Absent \in Seq(Sage!Characters)
      BY DEF Sage!Absent
    <3>2. \A v \in PropertyValues : v \in Seq(Sage!Characters)
      BY Zenon DEF Sage!SageAssumption
    <3>3. QED
      BY Zenon, <3>1, <3>2
  <2>2. ASSUME ok, NEW k \in Sage!PropertyKeys
        PROVE  props'[k] = sage'[k] \/ (~Sage!Survives(sage'[k]) /\ props'[k] = Sage!ParseProps(sage'[k]))
    <3>1. sage'[k] \in Seq(Sage!Characters) /\ props'[k] = Sage!ParseProps(sage'[k])
      BY <1>1, <1>2, <1>3, <2>1, <2>2
    <3>2. QED
      BY <3>1, SurvivorsParse
  <2>3. QED
    BY <1>1, <2>2 DEF Sage!ReadsAsSageHasIt, Sage!Get
<1>9. Sage!TypeOK'
  BY <1>1, <1>2, <1>3, <1>5 DEF Sage!TypeOK, SageInv
<1>10. QED
  BY <1>1, <1>4, <1>6, <1>7, <1>8, <1>9 DEF SageInv, StandsFor

\* A write changes the property of the name, and no other that is written like its own.
LEMMA SetAttrStep ==
  ASSUME Sage!SageAssumption, SageInv, NEW n \in Sage!Names, NEW v \in PropertyValues,
         NEW outcome \in {"done", "refused", "lost"}, Sage!SetAttr(n, v, outcome)
  PROVE  SageInv'
<1>0. props # Sage!Unread /\ props \in [Sage!PropertyKeys \cup Sage!Names -> Sage!Readable]
      /\ file' = file /\ cleaned' = cleaned
      /\ Sage!Unread' = Sage!Unread
  BY DEF Sage!SetAttr, SageInv, Sage!TypeOK, Sage!Unread
<1>1. sage' \in [Sage!PropertyKeys -> {Sage!Absent} \cup PropertyValues]
      /\ (outcome = "refused" => sage' = sage)
      /\ (outcome # "refused" => \A k \in Sage!PropertyKeys : sage'[k] = IF k = cleaned[n] THEN v ELSE sage[k])
  BY DEF Sage!SetAttr, SageInv, Sage!TypeOK
<1>2. CASE outcome = "done"
  <2>1. props' = Sage!SetProp(props, n, v) /\ written' = [written EXCEPT ![n] = v] /\ saved' = saved
    BY <1>2 DEF Sage!SetAttr
  <2>2. /\ props' \in [Sage!PropertyKeys \cup Sage!Names -> Sage!Readable] /\ props'[n] = v
        /\ \A x \in Sage!PropertyKeys \cup Sage!Names : x # n => props'[x] = props[x]
    <3>1. v \in Sage!Readable
      BY DEF Sage!Readable
    <3>2. QED
      BY <1>0, <2>1, <3>1 DEF Sage!SetProp
  <2>3. /\ DOMAIN written' = Sage!Names /\ written'[n] = v
        /\ \A x \in Sage!Names : x # n => written'[x] = written[x]
    BY <2>1 DEF SageInv
  <2>4. props' # Sage!Unread
    <3>1. v \in Seq(Sage!Characters) /\ v # Sage!Absent
      BY DEF Sage!SageAssumption
    <3>2. v # <<"unread">>
      <4>1. "unread" \notin Sage!Characters
        BY DEF Sage!Characters
      <4>2. v[1] \in Sage!Characters
        BY <3>1 DEF Sage!Absent
      <4>3. QED
        BY <4>1, <4>2
    <3>3. Sage!Unread[n] = <<"unread">>
      BY DEF Sage!Unread
    <3>4. QED
      BY <2>2, <3>2, <3>3
  <2>5. Sage!ReadsWhatWasWritten'
    <3>1. \A x \in Sage!Names : x # n => (written[x] # Sage!Absent => props[x] = written[x])
      BY <1>0 DEF SageInv, Sage!ReadsWhatWasWritten, Sage!Get
    <3>2. QED
      BY <2>2, <2>3, <3>1 DEF Sage!ReadsWhatWasWritten, Sage!Get
  <2>6. Sage!ReadsAsSageHasIt'
    <3> SUFFICES ASSUME saved', NEW k \in Sage!PropertyKeys, \A o \in Sage!PropertyKeys : Clean[o] = k <=> o = k
                 PROVE  props'[k] = sage'[k] \/ (~Sage!Survives(sage'[k]) /\ props'[k] = Sage!ParseProps(sage'[k]))
      BY Zenon DEF Sage!ReadsAsSageHasIt, Sage!Get
    <3>1. props[k] = sage[k] \/ (~Sage!Survives(sage[k]) /\ props[k] = Sage!ParseProps(sage[k]))
      BY <2>1 DEF SageInv, Sage!ReadsAsSageHasIt, Sage!Get
    <3>2. cleaned[n] = n \/ \E x \in Sage!PropertyKeys : Clean[x] = n /\ cleaned[n] = x
      BY DEF SageInv, StandsFor
    <3>3. cleaned[n] = k <=> n = k
      BY <3>2
    <3>4. sage'[k] = IF k = cleaned[n] THEN v ELSE sage[k]
      BY <1>1, <1>2
    <3>5. QED
      BY <2>2, <3>1, <3>3, <3>4
  <2>7. Sage!TypeOK'
    BY <1>0, <1>1, <2>2 DEF Sage!TypeOK, SageInv
  <2>8. QED
    BY <1>0, <2>1, <2>3, <2>4, <2>5, <2>6, <2>7 DEF SageInv, StandsFor
<1>3. CASE outcome # "done"
  <2>1. props' = props /\ written' = written /\ saved' = (saved /\ outcome = "refused")
    BY <1>3 DEF Sage!SetAttr
  <2>2. Sage!ReadsWhatWasWritten'
    BY <1>0, <2>1 DEF SageInv, Sage!ReadsWhatWasWritten, Sage!Get
  <2>3. Sage!ReadsAsSageHasIt'
    BY <1>1, <2>1 DEF SageInv, Sage!ReadsAsSageHasIt, Sage!Get
  <2>4. Sage!TypeOK' /\ saved' \in BOOLEAN
    BY <1>0, <1>1, <2>1 DEF Sage!TypeOK, SageInv
  <2>5. QED
    BY <1>0, <2>1, <2>2, <2>3, <2>4 DEF SageInv, StandsFor
<1>4. QED
  BY <1>2, <1>3

LEMMA SageStep ==
  ASSUME Sage!SageAssumption, SageInv, [Sage!Next]_Sage!vars
  PROVE  SageInv'
<1>1. ASSUME NEW ok \in BOOLEAN, Sage!GetTreeTop(ok) PROVE SageInv'
  BY <1>1, GetTreeTopStep
<1>2. ASSUME NEW n \in Sage!Names, NEW v \in PropertyValues, NEW o \in {"done", "refused", "lost"},
             Sage!SetAttr(n, v, o)
      PROVE  SageInv'
  BY <1>2, SetAttrStep
<1>3. ASSUME NEW k \in Sage!PropertyKeys, NEW v \in {Sage!Absent} \cup PropertyValues, Sage!SageChanges(k, v) PROVE SageInv'
  <2>1. /\ sage' \in [Sage!PropertyKeys -> {Sage!Absent} \cup PropertyValues] /\ saved' = FALSE
        /\ file' = file /\ props' = props /\ cleaned' = cleaned /\ written' = written
    BY <1>3 DEF Sage!SageChanges, SageInv, Sage!TypeOK
  <2>2. Sage!TypeOK' /\ Sage!ReadsWhatWasWritten' /\ Sage!ReadsAsSageHasIt'
    BY <2>1 DEF SageInv, Sage!TypeOK, Sage!ReadsWhatWasWritten, Sage!ReadsAsSageHasIt, Sage!Get
  <2>3. QED
    BY <2>1, <2>2 DEF SageInv, StandsFor
<1>4. CASE Sage!SageSaves
  <2>1. /\ file' = sage /\ sage' = sage /\ saved' = saved
        /\ props' = props /\ cleaned' = cleaned /\ written' = written
    BY <1>4 DEF Sage!SageSaves
  <2>2. Sage!TypeOK' /\ Sage!ReadsWhatWasWritten' /\ Sage!ReadsAsSageHasIt'
    BY <2>1 DEF SageInv, Sage!TypeOK, Sage!ReadsWhatWasWritten, Sage!ReadsAsSageHasIt, Sage!Get
  <2>3. QED
    BY <2>1, <2>2 DEF SageInv, StandsFor
<1>5. CASE Sage!FlushCache
  <2>1. /\ file' = file /\ sage' = sage /\ saved' = FALSE /\ props' = Sage!Unread
        /\ cleaned' = cleaned /\ written' = [n \in Sage!Names |-> Sage!Absent]
    BY <1>5 DEF Sage!FlushCache
  <2>2. Sage!TypeOK' /\ Sage!ReadsWhatWasWritten' /\ Sage!ReadsAsSageHasIt'
    BY <2>1 DEF SageInv, Sage!TypeOK, Sage!ReadsWhatWasWritten, Sage!ReadsAsSageHasIt, Sage!Get
  <2>3. QED
    BY <2>1, <2>2 DEF SageInv, StandsFor
<1>6. CASE UNCHANGED Sage!vars
  <2>1. /\ file' = file /\ sage' = sage /\ saved' = saved /\ props' = props
        /\ cleaned' = cleaned /\ written' = written
    BY <1>6 DEF Sage!vars
  <2>2. Sage!TypeOK' /\ Sage!ReadsWhatWasWritten' /\ Sage!ReadsAsSageHasIt'
    BY <2>1 DEF SageInv, Sage!TypeOK, Sage!ReadsWhatWasWritten, Sage!ReadsAsSageHasIt, Sage!Get
  <2>3. QED
    BY <2>1, <2>2 DEF SageInv, StandsFor
<1>7. QED
  BY <1>1, <1>2, <1>3, <1>4, <1>5, <1>6 DEF Sage!Next

\* The types of the variables, and: a parameter reads as it was written in the session, and
\* as the property of its name is (_SageTvTree and _SageProps).
THEOREM SageSafe ==
  ASSUME Sage!SageAssumption
  PROVE  Sage!Spec => [](Sage!TypeOK /\ Sage!ReadsWhatWasWritten /\ Sage!ReadsAsSageHasIt)
<1>1. Sage!Init => SageInv
  <2> SUFFICES ASSUME Sage!Init PROVE SageInv
    OBVIOUS
  <2>1. Sage!TypeOK /\ saved = FALSE /\ DOMAIN written = Sage!Names
        /\ \A n \in Sage!Names : written[n] = Sage!Absent
    BY DEF Sage!Init, Sage!TypeOK
  <2>2. StandsFor
    BY DEF Sage!Init, StandsFor
  <2>3. QED
    BY <2>1, <2>2 DEF SageInv, Sage!ReadsWhatWasWritten, Sage!ReadsAsSageHasIt
<1>2. SageInv /\ [Sage!Next]_Sage!vars => SageInv'
  BY SageStep
<1>3. SageInv => Sage!TypeOK /\ Sage!ReadsWhatWasWritten /\ Sage!ReadsAsSageHasIt
  BY DEF SageInv
<1>4. QED
  BY <1>1, <1>2, <1>3, PTL DEF Sage!Spec

-----------------------------------------------------------------------------
(* The table of the hosts                                                  *)
(*                                                                         *)
(* A host that was found is active if a source saw it, no entry takes that *)
(* back, and until the first four sources are read no host is associated   *)
(* with an access point.                                                   *)

HostFields ==
  {"Active", "Layer1Interface", "AssociatedDevice", "ip4", "ip6", "DHCPClient", "HostName"}

IsHost(h, n) ==
  /\ DOMAIN h = HostFields /\ h.Active \in BOOLEAN
  /\ IF n <= 4 THEN h.AssociatedDevice = Table!NoPath
     ELSE h.AssociatedDevice # Table!NoPath => h.Layer1Interface = h.AssociatedDevice

HostsInv ==
  /\ Table!TypeOK /\ awake \subseteq DOMAIN hosts
  /\ \A mac \in DOMAIN hosts : IsHost(hosts[mac], step) /\ (hosts[mac].Active <=> mac \in awake)
  /\ ~host_cached => HostList = << >>
  /\ Table!HostsConsistent

\* In what order the sources are read.
LEMMA SourcesSay ==
  /\ Len(Table!ReadOrder) = 8
  /\ \A i \in 0..7 :
       IF i < 4 THEN Table!ReadOrder[i + 1] \in {"arp", "neigh", "bridges", "ethernets"}
       ELSE Table!ReadOrder[i + 1] \in {"wifi", "moca", "dhcp", "names"}
<1>1. /\ Len(Table!ReadOrder) = 8
      /\ Table!ReadOrder[1] = "arp" /\ Table!ReadOrder[2] = "neigh" /\ Table!ReadOrder[3] = "bridges"
      /\ Table!ReadOrder[4] = "ethernets" /\ Table!ReadOrder[5] = "wifi" /\ Table!ReadOrder[6] = "moca"
      /\ Table!ReadOrder[7] = "dhcp" /\ Table!ReadOrder[8] = "names"
  BY DEF Table!ReadOrder
<1>2. QED
  BY <1>1

LEMMA ReadingSays ==
  ASSUME Table!TypeOK, NEW source, Table!Reading(source)
  PROVE  /\ step \in 0..7 /\ ~host_cached
         /\ source \in {"arp", "neigh", "bridges", "ethernets"} => step + 1 <= 4
         /\ source \in {"wifi", "moca", "dhcp", "names"} => step >= 4
BY SourcesSay DEF Table!Reading, Table!TypeOK

\* What is known of a host, found or not.
LEMMA KnownHost ==
  ASSUME HostsInv, NEW mac
  PROVE  IsHost(Table!Host(mac), step) /\ (Table!Host(mac).Active <=> mac \in awake)
<1>1. CASE mac \in DOMAIN hosts
  BY <1>1 DEF HostsInv, Table!Host
<1>2. CASE mac \notin DOMAIN hosts
  <2>1. Table!Host(mac) = Table!Nothing /\ mac \notin awake
    BY <1>2 DEF HostsInv, Table!Host
  <2>2. IsHost(Table!Nothing, step) /\ Table!Nothing.Active = FALSE
    BY DEF Table!Nothing, IsHost, HostFields
  <2>3. QED
    BY <2>1, <2>2
<1>3. QED
  BY <1>1, <1>2

LEMMA EntriesStep ==
  ASSUME HostsInv, NEW source, Table!Reading(source), NEW new, DOMAIN new \subseteq Macs,
         Table!Entries(new),
         \A mac \in DOMAIN new :
           IsHost(new[mac], step + 1) /\ (Table!Host(mac).Active => new[mac].Active)
  PROVE  HostsInv'
<1>1. step \in 0..7 /\ ~host_cached /\ step' = step + 1 /\ HostList' = << >> /\ host_cached' = host_cached
  BY ReadingSays DEF HostsInv, Table!Entries
<1>2. /\ DOMAIN hosts' = DOMAIN hosts \cup DOMAIN new
      /\ \A mac \in DOMAIN new : hosts'[mac] = new[mac]
      /\ \A mac \in DOMAIN hosts \ DOMAIN new : hosts'[mac] = hosts[mac]
  BY DEF Table!Entries
<1>3. awake' = awake \cup {mac \in DOMAIN new : new[mac].Active}
  BY DEF Table!Entries
<1>4. Table!TypeOK' /\ awake' \subseteq DOMAIN hosts'
  <2>1. step' \in 0..Len(Table!ReadOrder)
    BY <1>1, SourcesSay
  <2>2. DOMAIN hosts' \subseteq Macs /\ awake' \subseteq DOMAIN hosts'
    BY <1>2, <1>3 DEF HostsInv, Table!TypeOK
  <2>3. QED
    BY <1>1, <2>1, <2>2 DEF HostsInv, Table!TypeOK
<1>5. ASSUME NEW mac \in DOMAIN hosts'
      PROVE  IsHost(hosts'[mac], step') /\ (hosts'[mac].Active <=> mac \in awake')
  <2>1. CASE mac \in DOMAIN new
    <3>1. mac \in awake => new[mac].Active
      BY <2>1, KnownHost
    <3>2. QED
      BY <1>1, <1>2, <1>3, <2>1, <3>1
  <2>2. CASE mac \in DOMAIN hosts \ DOMAIN new
    <3>1. IsHost(hosts[mac], step) /\ (hosts[mac].Active <=> mac \in awake)
      BY <2>2 DEF HostsInv
    <3>2. IsHost(hosts[mac], step + 1)
      BY <1>1, <3>1 DEF IsHost
    <3>3. QED
      BY <1>1, <1>2, <1>3, <2>2, <3>1, <3>2
  <2>3. QED
    BY <1>2, <2>1, <2>2
<1>6. Table!HostsConsistent'
  BY <1>1 DEF Table!HostsConsistent
<1>7. QED
  BY <1>1, <1>4, <1>5, <1>6 DEF HostsInv

\* What a source that knows no association says of a host.
LEMMA LinkSays ==
  ASSUME NEW n \in 1..4, NEW h, IsHost(h, n - 1)
  PROVE  /\ \A dev : IsHost(Table!AddLayer1Interface(h, dev), n)
                     /\ Table!AddLayer1Interface(h, dev).Active = h.Active
         /\ \A dev, ip : IsHost(Table!Arp(h, dev, ip), n) /\ Table!Arp(h, dev, ip).Active
         /\ \A dev, ip : \A active \in BOOLEAN :
              IsHost(Table!Neighbor(h, dev, ip, active), n)
              /\ (h.Active => Table!Neighbor(h, dev, ip, active).Active)
         /\ \A dev : IsHost(Table!Bridged(h, dev), n) /\ Table!Bridged(h, dev).Active
         /\ \A path : IsHost(Table!OnEthernet(h, path), n) /\ Table!OnEthernet(h, path).Active
<1> USE DEF IsHost, HostFields
<1>1. ASSUME NEW dev
      PROVE  IsHost(Table!AddLayer1Interface(h, dev), n)
             /\ Table!AddLayer1Interface(h, dev).Active = h.Active
  BY DEF Table!AddLayer1Interface
<1>2. ASSUME NEW dev, NEW ip PROVE IsHost(Table!Arp(h, dev, ip), n) /\ Table!Arp(h, dev, ip).Active
  BY <1>1 DEF Table!Arp
<1>3. ASSUME NEW dev, NEW ip, NEW active \in BOOLEAN
      PROVE  IsHost(Table!Neighbor(h, dev, ip, active), n)
             /\ (h.Active => Table!Neighbor(h, dev, ip, active).Active)
  <2> DEFINE g == Table!AddLayer1Interface(h, dev)
  <2>1. IsHost(g, n) /\ g.Active = h.Active
    BY <1>1
  <2>2. Table!Neighbor(h, dev, ip, active) = [g EXCEPT !.Active = @ \/ active, !.ip6 = @ \cup {ip}]
    BY Zenon DEF Table!Neighbor
  <2> HIDE DEF g
  <2>3. QED
    BY <2>1, <2>2
<1>4. ASSUME NEW dev PROVE IsHost(Table!Bridged(h, dev), n) /\ Table!Bridged(h, dev).Active
  BY <1>1 DEF Table!Bridged
<1>5. ASSUME NEW path PROVE IsHost(Table!OnEthernet(h, path), n) /\ Table!OnEthernet(h, path).Active
  BY DEF Table!OnEthernet
<1> QED
  BY <1>1, <1>2, <1>3, <1>4, <1>5

\* What the sources after them say.
LEMMA AssociationSays ==
  ASSUME NEW n \in 5..8, NEW h, IsHost(h, n - 1)
  PROVE  /\ \A path : IsHost(Table!Associated(h, path), n) /\ Table!Associated(h, path).Active
         /\ \A ips, name : IsHost(Table!Leased(h, ips, name), n)
                           /\ Table!Leased(h, ips, name).Active = h.Active
         /\ \A dnssd, netbios : IsHost(Table!Named(h, dnssd, netbios), n)
                                /\ Table!Named(h, dnssd, netbios).Active = h.Active
<1> USE DEF IsHost, HostFields
<1>1. ASSUME NEW path PROVE IsHost(Table!Associated(h, path), n) /\ Table!Associated(h, path).Active
  BY DEF Table!Associated
<1>0. IsHost(h, n)
  OBVIOUS
<1>2. ASSUME NEW ips, NEW name
      PROVE  IsHost(Table!Leased(h, ips, name), n) /\ Table!Leased(h, ips, name).Active = h.Active
  BY <1>0 DEF Table!Leased
<1>3. ASSUME NEW dnssd, NEW netbios
      PROVE  IsHost(Table!Named(h, dnssd, netbios), n) /\ Table!Named(h, dnssd, netbios).Active = h.Active
  BY <1>0 DEF Table!Named
<1> QED
  BY <1>1, <1>2, <1>3

LEMMA HostsStep ==
  ASSUME HostsInv, [Table!Next]_Table!vars
  PROVE  HostsInv'
<1>0. Table!TypeOK /\ \A mac : IsHost(Table!Host(mac), step)
  BY KnownHost DEF HostsInv
<1>1. CASE Table!GetHostsFromArpTable
  <2>1. PICK found \in SUBSET Macs : \E dev \in [found -> NetDevs], ip \in [found -> Ip4] :
          Table!Entries([mac \in found |-> Table!Arp(Table!Host(mac), dev[mac], ip[mac])])
    BY <1>1 DEF Table!GetHostsFromArpTable
  <2>2. PICK dev \in [found -> NetDevs], ip \in [found -> Ip4] :
          Table!Entries([mac \in found |-> Table!Arp(Table!Host(mac), dev[mac], ip[mac])])
    BY <2>1
  <2>3. Table!Reading("arp") /\ step + 1 \in 1..4 /\ (step + 1) - 1 = step
    BY <1>0, <1>1, ReadingSays DEF Table!GetHostsFromArpTable
  <2>4. \A mac \in found :
          LET h == Table!Arp(Table!Host(mac), dev[mac], ip[mac]) IN IsHost(h, step + 1) /\ h.Active
    BY <1>0, <2>3, LinkSays
  <2>5. QED
    BY <2>2, <2>3, <2>4, EntriesStep
<1>2. CASE Table!GetHostsFromIp6Neigh
  <2>1. PICK found \in SUBSET Macs :
          \E dev \in [found -> NetDevs], ip \in [found -> Ip6], active \in [found -> BOOLEAN] :
            Table!Entries([mac \in found |-> Table!Neighbor(Table!Host(mac), dev[mac], ip[mac], active[mac])])
    BY <1>2 DEF Table!GetHostsFromIp6Neigh
  <2>2. PICK dev \in [found -> NetDevs], ip \in [found -> Ip6], active \in [found -> BOOLEAN] :
          Table!Entries([mac \in found |-> Table!Neighbor(Table!Host(mac), dev[mac], ip[mac], active[mac])])
    BY <2>1
  <2>3. Table!Reading("neigh") /\ step + 1 \in 1..4 /\ (step + 1) - 1 = step
    BY <1>0, <1>2, ReadingSays DEF Table!GetHostsFromIp6Neigh
  <2>4. \A mac \in found :
          LET h == Table!Neighbor(Table!Host(mac), dev[mac], ip[mac], active[mac])
          IN IsHost(h, step + 1) /\ (Table!Host(mac).Active => h.Active)
    <3>1. \A mac \in found : active[mac] \in BOOLEAN
      BY <2>2
    <3>2. QED
      BY <1>0, <2>3, <3>1, LinkSays
  <2>5. QED
    BY <2>2, <2>3, <2>4, EntriesStep
<1>3. CASE Table!GetHostsFromBridges
  <2>1. PICK found \in SUBSET Macs : \E dev \in [found -> NetDevs] :
          Table!Entries([mac \in found |-> Table!Bridged(Table!Host(mac), dev[mac])])
    BY <1>3 DEF Table!GetHostsFromBridges
  <2>2. PICK dev \in [found -> NetDevs] :
          Table!Entries([mac \in found |-> Table!Bridged(Table!Host(mac), dev[mac])])
    BY <2>1
  <2>3. Table!Reading("bridges") /\ step + 1 \in 1..4 /\ (step + 1) - 1 = step
    BY <1>0, <1>3, ReadingSays DEF Table!GetHostsFromBridges
  <2>4. \A mac \in found :
          LET h == Table!Bridged(Table!Host(mac), dev[mac]) IN IsHost(h, step + 1) /\ h.Active
    BY <1>0, <2>3, LinkSays
  <2>5. QED
    BY <2>2, <2>3, <2>4, EntriesStep
<1>4. CASE Table!GetHostsFromEthernets
  <2>1. PICK found \in SUBSET Macs : \E path \in [found -> Ethernet] :
          Table!Entries([mac \in found |-> Table!OnEthernet(Table!Host(mac), path[mac])])
    BY <1>4 DEF Table!GetHostsFromEthernets
  <2>2. PICK path \in [found -> Ethernet] :
          Table!Entries([mac \in found |-> Table!OnEthernet(Table!Host(mac), path[mac])])
    BY <2>1
  <2>3. Table!Reading("ethernets") /\ step + 1 \in 1..4 /\ (step + 1) - 1 = step
    BY <1>0, <1>4, ReadingSays DEF Table!GetHostsFromEthernets
  <2>4. \A mac \in found :
          LET h == Table!OnEthernet(Table!Host(mac), path[mac]) IN IsHost(h, step + 1) /\ h.Active
    BY <1>0, <2>3, LinkSays
  <2>5. QED
    BY <2>2, <2>3, <2>4, EntriesStep
<1>5. ASSUME NEW source \in {"wifi", "moca"}, Table!Reading(source), NEW found \in SUBSET Macs,
             NEW path, Table!Entries([mac \in found |-> Table!Associated(Table!Host(mac), path[mac])])
      PROVE  HostsInv'
  <2>1. step + 1 \in 5..8 /\ (step + 1) - 1 = step
    BY <1>0, <1>5, ReadingSays
  <2>2. \A mac \in found :
          LET h == Table!Associated(Table!Host(mac), path[mac]) IN IsHost(h, step + 1) /\ h.Active
    BY <1>0, <2>1, AssociationSays
  <2>3. QED
    BY <1>5, <2>1, <2>2, EntriesStep
<1>6. CASE Table!GetHostsFromWifiAssociatedDevices
  <2>1. PICK found \in SUBSET Macs : \E path \in [found -> Wifi] :
          Table!Entries([mac \in found |-> Table!Associated(Table!Host(mac), path[mac])])
    BY <1>6 DEF Table!GetHostsFromWifiAssociatedDevices
  <2>2. QED
    BY <1>5, <1>6, <2>1 DEF Table!GetHostsFromWifiAssociatedDevices
<1>7. CASE Table!GetHostsFromMocaAssociatedDevices
  <2>1. PICK found \in SUBSET Macs : \E path \in [found -> Moca] :
          Table!Entries([mac \in found |-> Table!Associated(Table!Host(mac), path[mac])])
    BY <1>7 DEF Table!GetHostsFromMocaAssociatedDevices
  <2>2. QED
    BY <1>5, <1>7, <2>1 DEF Table!GetHostsFromMocaAssociatedDevices
<1>8. CASE Table!GetHostsFromDhcpServers
  <2>1. PICK found \in SUBSET Macs :
          \E ips \in [found -> SUBSET Ip4], name \in [found -> HostNames] :
            Table!Entries([mac \in found |-> Table!Leased(Table!Host(mac), ips[mac], name[mac])])
    BY <1>8 DEF Table!GetHostsFromDhcpServers
  <2>2. PICK ips \in [found -> SUBSET Ip4], name \in [found -> HostNames] :
          Table!Entries([mac \in found |-> Table!Leased(Table!Host(mac), ips[mac], name[mac])])
    BY <2>1
  <2>3. Table!Reading("dhcp") /\ step + 1 \in 5..8 /\ (step + 1) - 1 = step
    BY <1>0, <1>8, ReadingSays DEF Table!GetHostsFromDhcpServers
  <2>4. \A mac \in found :
          LET h == Table!Leased(Table!Host(mac), ips[mac], name[mac])
          IN IsHost(h, step + 1) /\ h.Active = Table!Host(mac).Active
    BY <1>0, <2>3, AssociationSays
  <2>5. QED
    BY <2>2, <2>3, <2>4, EntriesStep
<1>9. CASE Table!PopulateDiscoveredHostnames
  <2>1. PICK dnssd \in [DOMAIN hosts -> HostNames], netbios \in [DOMAIN hosts -> HostNames] :
          Table!Entries([mac \in DOMAIN hosts |-> Table!Named(hosts[mac], dnssd[mac], netbios[mac])])
    BY <1>9 DEF Table!PopulateDiscoveredHostnames
  <2>2. Table!Reading("names") /\ step + 1 \in 5..8 /\ (step + 1) - 1 = step
    BY <1>0, <1>9, ReadingSays DEF Table!PopulateDiscoveredHostnames
  <2>3. \A mac \in DOMAIN hosts :
          LET h == Table!Named(hosts[mac], dnssd[mac], netbios[mac])
          IN IsHost(h, step + 1) /\ h.Active = Table!Host(mac).Active
    BY <1>0, <2>2, AssociationSays DEF Table!Host
  <2>4. DOMAIN hosts \subseteq Macs
    BY <1>0 DEF Table!TypeOK
  <2>5. QED
    BY <2>1, <2>2, <2>3, <2>4, EntriesStep
<1>10. CASE Table!GetHostList
  <2>1. PICK mac \in Table!Bijection(1..Table!Cardinality(DOMAIN hosts), DOMAIN hosts) :
          HostList' = [i \in DOMAIN mac |-> [PhysAddress |-> mac[i], host |-> hosts[mac[i]]]]
    BY <1>10 DEF Table!GetHostList
  <2>2. step' = step /\ hosts' = hosts /\ awake' = awake /\ host_cached' = TRUE
        /\ step = Len(Table!ReadOrder)
    BY <1>10 DEF Table!GetHostList
  <2>3. /\ \A i \in DOMAIN mac : mac[i] \in DOMAIN hosts
        /\ \A i, j \in DOMAIN mac : mac[i] = mac[j] => i = j
    BY <2>1 DEF Table!Bijection, Table!Injection, Table!IsInjective
  <2>4. /\ DOMAIN HostList' = DOMAIN mac
        /\ \A i \in DOMAIN mac : HostList'[i].PhysAddress = mac[i]
                                 /\ HostList'[i].host = hosts[mac[i]]
    BY <2>1
  <2>5. \A x \in DOMAIN hosts :
          /\ hosts[x].Active <=> x \in awake
          /\ hosts[x].AssociatedDevice # Table!NoPath
               => hosts[x].Layer1Interface = hosts[x].AssociatedDevice
    BY <2>2, SourcesSay DEF HostsInv, IsHost
  <2>6. Table!HostsConsistent'
    BY <2>2, <2>3, <2>4, <2>5 DEF Table!HostsConsistent
  <2>7. QED
    BY <2>2, <2>6 DEF HostsInv, Table!TypeOK
<1>11. CASE Table!EndSession
  <2>1. /\ host_cached' = FALSE /\ step' = 0 /\ hosts' = << >> /\ HostList' = << >> /\ awake' = {}
    BY <1>11 DEF Table!EndSession
  <2>2. DOMAIN hosts' = {} /\ DOMAIN HostList' = {} /\ 0 \in 0..Len(Table!ReadOrder)
    BY <2>1, SourcesSay
  <2>3. QED
    BY <2>1, <2>2 DEF HostsInv, Table!TypeOK, Table!HostsConsistent
<1>12. CASE UNCHANGED Table!vars
  BY <1>12 DEF Table!vars, HostsInv, Table!TypeOK, Table!HostsConsistent
<1>13. QED
  BY <1>1, <1>2, <1>3, <1>4, <1>6, <1>7, <1>8, <1>9, <1>10, <1>11, <1>12 DEF Table!Next

\* The types of the variables, and: a host has one entry, which is active if and only if
\* some source saw it, and which is associated only with its layer 1 interface
\* (_GetHostList).
THEOREM HostsSafe == Table!Spec => [](Table!TypeOK /\ Table!HostsConsistent)
<1>1. Table!Init => HostsInv
  <2> SUFFICES ASSUME Table!Init PROVE HostsInv
    OBVIOUS
  <2>1. DOMAIN hosts = {} /\ DOMAIN HostList = {} /\ 0 \in 0..Len(Table!ReadOrder)
    BY SourcesSay DEF Table!Init
  <2>2. QED
    BY <2>1 DEF Table!Init, HostsInv, Table!TypeOK, Table!HostsConsistent
<1>2. HostsInv /\ [Table!Next]_Table!vars => HostsInv'
  BY HostsStep
<1>3. HostsInv => Table!TypeOK /\ Table!HostsConsistent
  BY DEF HostsInv
<1>4. QED
  BY <1>1, <1>2, <1>3, PTL DEF Table!Spec

-----------------------------------------------------------------------------
(* Requests of the ACS                                                     *)
(*                                                                         *)
(* The invariant is inductive as it stands: every request replaces the     *)
(* answer, and the key changes only where the request is told to succeed.  *)

SoapInv == Soap!TypeOK /\ Soap!KeyTellsCompleted /\ Soap!OneElement

\* A response or a fault is one element.
LEMMA OneIsShort ==
  ASSUME NEW e, soap_answer' = <<e>>
  PROVE  Soap!OneElement' /\ Len(soap_answer') \in 0..2
BY DEF Soap!OneElement

\* A request that does nothing but to answer.
LEMMA AnswerOnly ==
  ASSUME SoapInv, Soap!Unchanged, Len(soap_answer') \in 0..2, Soap!OneElement'
  PROVE  SoapInv'
BY DEF SoapInv, Soap!TypeOK, Soap!KeyTellsCompleted, Soap!Unchanged

LEMMA AnswerFirst ==
  ASSUME SoapInv, NEW e, soap_answer' = <<e>>, Soap!Unchanged
  PROVE  SoapInv'
BY OneIsShort, AnswerOnly

\* A request with a key, which changes the data model.
LEMMA KeyStep ==
  ASSUME SoapInv, Soap!SoapAssumption, NEW key \in Keys, NEW e, soap_answer' = <<e>>,
         soap_values' \in [SoapParams -> {"plain", "odd"}], count' \in 0..MaxObjects,
         \/ parameterKey' = key /\ completed' = key /\ committed' = TRUE
         \/ parameterKey' = key /\ completed' = completed /\ committed' = FALSE
         \/ UNCHANGED <<parameterKey, completed, committed>>
  PROVE  SoapInv'
<1>1. Soap!OneElement' /\ Len(soap_answer') \in 0..2
  BY OneIsShort
<1>2. /\ parameterKey \in Keys /\ completed \in Keys /\ committed \in BOOLEAN
      /\ committed => parameterKey = completed
  BY DEF SoapInv, Soap!TypeOK, Soap!KeyTellsCompleted
<1>3. /\ parameterKey' \in Keys /\ completed' \in Keys /\ committed' \in BOOLEAN
      /\ committed' => parameterKey' = completed'
  <2>1. TRUE \in BOOLEAN /\ FALSE \in BOOLEAN
    OBVIOUS
  <2>2. CASE parameterKey' = key /\ completed' = key /\ committed' = TRUE
    BY <2>1, <2>2, Zenon
  <2>3. CASE parameterKey' = key /\ completed' = completed /\ committed' = FALSE
    BY <1>2, <2>1, <2>3, Zenon
  <2>4. CASE UNCHANGED <<parameterKey, completed, committed>>
    BY <1>2, <2>4, Zenon
  <2>5. QED
    BY <2>2, <2>3, <2>4
<1>4. QED
  BY <1>1, <1>3 DEF SoapInv, Soap!TypeOK, Soap!KeyTellsCompleted

LEMMA SetParameterValuesStep ==
  ASSUME SoapInv, Soap!SoapAssumption, NEW p \in SoapParams, NEW v \in {"plain", "odd"},
         NEW key \in Keys, Soap!SetParameterValues(p, v, key)
  PROVE  SoapInv'
<1>1. ASSUME NEW errors, soap_answer' = <<Soap!FaultList("SetParameterErrors", errors)>>, Soap!Unchanged
      PROVE  SoapInv'
  BY <1>1, AnswerFirst
<1>2. CASE /\ soap_values' = [soap_values EXCEPT ![p] = v]
           /\ Soap!SetParameterKey(key)
           /\ \/ Soap!Respond("SetParameterValues") /\ Soap!Completed(key)
              \/ /\ \E exception \in {"KeyError", "IndexError", "CalledProcessError"} :
                      Soap!Raise(exception)
                 /\ committed' = FALSE /\ UNCHANGED completed
           /\ UNCHANGED count
  <2>1. soap_values' \in [SoapParams -> {"plain", "odd"}] /\ count' \in 0..MaxObjects
    BY <1>2 DEF SoapInv, Soap!TypeOK
  <2>2. CASE Soap!Respond("SetParameterValues") /\ Soap!Completed(key)
    BY <1>2, <2>1, <2>2, KeyStep DEF Soap!SetParameterKey, Soap!Respond, Soap!Completed
  <2>3. ASSUME NEW exception, Soap!Raise(exception), committed' = FALSE, UNCHANGED completed
        PROVE  SoapInv'
    BY <1>2, <2>1, <2>3, KeyStep DEF Soap!SetParameterKey, Soap!Raise
  <2>4. QED
    BY <1>2, <2>2, <2>3
<1>3. QED
  BY <1>1, <1>2 DEF Soap!SetParameterValues

\* The three other requests with a key: a success changes the number of objects.
LEMMA ListStep ==
  ASSUME SoapInv, Soap!SoapAssumption, NEW key \in Keys,
         Soap!AddObject(key) \/ Soap!AddObjects(key) \/ Soap!DeleteObject(key)
  PROVE  SoapInv'
<1>1. ASSUME NEW method, NEW n \in 0..MaxObjects, count' = n, Soap!SetParameterKey(key),
             Soap!Respond(method), Soap!Completed(key), UNCHANGED soap_values
      PROVE  SoapInv'
  BY <1>1, KeyStep DEF SoapInv, Soap!TypeOK, Soap!SetParameterKey, Soap!Respond, Soap!Completed
<1>2. ASSUME NEW exception, Soap!Raise(exception), Soap!Unchanged
      PROVE  SoapInv'
  BY <1>2, AnswerFirst DEF Soap!Raise
<1>3. count \in 0..MaxObjects /\ MaxObjects \in Nat
  BY DEF SoapInv, Soap!TypeOK, Soap!SoapAssumption
<1>4. /\ count < MaxObjects => count + 1 \in 0..MaxObjects
      /\ count > 0 => count - 1 \in 0..MaxObjects
      /\ \A n \in 0..(MaxObjects - count) : count + n \in 0..MaxObjects
  BY <1>3
<1>5. CASE Soap!AddObject(key)
  BY <1>1, <1>2, <1>4, <1>5 DEF Soap!AddObject
<1>6. CASE Soap!DeleteObject(key)
  BY <1>1, <1>2, <1>4, <1>6 DEF Soap!DeleteObject
<1>7. CASE Soap!AddObjects(key)
  <2>1. ASSUME NEW n \in 0..(MaxObjects - count), count' = count + n, Soap!SetParameterKey(key),
               Soap!Respond("AddObjects"), Soap!Completed(key), UNCHANGED soap_values
        PROVE  SoapInv'
    BY <1>1, <1>4, <2>1
  <2>2. ASSUME NEW errors, soap_answer' = <<Soap!FaultList("AddObjectsErrors", errors)>>,
               NEW n \in 0..(MaxObjects - count), count' = count + n,
               UNCHANGED <<soap_values, parameterKey, completed, committed>>
        PROVE  SoapInv'
    BY <1>4, <2>2, KeyStep DEF SoapInv, Soap!TypeOK
  <2>3. CASE Soap!Raise("KeyError") /\ Soap!Unchanged
    BY <1>2, <2>3
  <2>4. QED
    BY <1>7, <2>1, <2>2, <2>3 DEF Soap!AddObjects
<1>8. QED
  BY <1>5, <1>6, <1>7

\* A value that cannot be made into text is why there are two elements.
LEMMA RequestGetStep ==
  ASSUME SoapInv, NEW names \in SUBSET SoapParams, Soap!GetParameterValues(names)
  PROVE  SoapInv'
<1>1. Soap!Unchanged
  BY DEF Soap!GetParameterValues
<1>2. CASE Soap!Raise("ParameterNameError")
  BY <1>1, <1>2, AnswerFirst DEF Soap!Raise
<1>3. CASE soap_answer' = <<Soap!Element("GetParameterValues")>>
  BY <1>1, <1>3, AnswerFirst
<1>4. CASE /\ \E p \in names : soap_values[p] = "odd"
           /\ soap_answer' = <<Soap!Element("GetParameterValues"), Soap!Fault("ValueError")>>
  <2>1. Len(soap_answer') = 2 /\ soap_answer'[1] = Soap!Element("GetParameterValues")
    BY <1>4
  <2>2. soap_answer'[1].element = "GetParameterValues"
    BY <2>1 DEF Soap!Element
  <2>3. \E p \in SoapParams : soap_values'[p] = "odd"
    BY <1>1, <1>4 DEF Soap!Unchanged
  <2>4. Soap!OneElement' /\ Len(soap_answer') \in 0..2
    BY <2>1, <2>2, <2>3 DEF Soap!OneElement
  <2>5. QED
    BY <1>1, <2>4, AnswerOnly
<1>5. QED
  BY <1>2, <1>3, <1>4 DEF Soap!GetParameterValues

\* Each request is answered by one element, and the key is that of the last request the
\* ACS was told to be done, unless a commit raised since then.
THEOREM SoapSafe ==
  ASSUME Soap!SoapAssumption
  PROVE  Soap!Spec => [](Soap!TypeOK /\ Soap!KeyTellsCompleted /\ Soap!OneElement)
<1>1. Soap!Init => SoapInv
  BY DEF Soap!Init, SoapInv, Soap!TypeOK, Soap!KeyTellsCompleted, Soap!OneElement, Soap!SoapAssumption
<1>2. SoapInv /\ [Soap!Next]_Soap!vars => SoapInv'
  <2> SUFFICES ASSUME SoapInv, [Soap!Next]_Soap!vars PROVE SoapInv'
    OBVIOUS
  <2>1. ASSUME NEW key \in Keys, NEW p \in SoapParams, NEW v \in {"plain", "odd"},
               Soap!SetParameterValues(p, v, key)
        PROVE  SoapInv'
    BY <2>1, SetParameterValuesStep
  <2>2. ASSUME NEW key \in Keys, Soap!AddObject(key) \/ Soap!AddObjects(key) \/ Soap!DeleteObject(key)
        PROVE  SoapInv'
    BY <2>2, ListStep
  <2>3. ASSUME NEW names \in SUBSET SoapParams, Soap!GetParameterValues(names) PROVE SoapInv'
    BY <2>3, RequestGetStep
  <2>4. ASSUME NEW m, Soap!Respond(m), Soap!Unchanged PROVE SoapInv'
    BY <2>4, AnswerFirst DEF Soap!Respond
  <2>5. ASSUME NEW m, Soap!Raise(m), Soap!Unchanged PROVE SoapInv'
    BY <2>5, AnswerFirst DEF Soap!Raise
  <2>6. CASE \E next_level, is_path \in BOOLEAN : Soap!GetParameterNames(next_level, is_path)
    BY <2>4, <2>5, <2>6 DEF Soap!GetParameterNames, Soap!NamesListed
  <2>7. CASE Soap!SetParameterAttributes \/ Soap!Download \/ Soap!Transfers
    BY <2>4, <2>5, <2>7
    DEF Soap!SetParameterAttributes, Soap!AttributesRefused, Soap!Download, Soap!Transfers
  <2>8. CASE Soap!GetRPCMethods \/ Soap!Unimplemented \/ Soap!Malformed
    BY <2>4, <2>5, <2>8 DEF Soap!GetRPCMethods, Soap!Unimplemented, Soap!Malformed
  <2>9. CASE Soap!Responses
    <3>1. CASE soap_answer' = << >> /\ Soap!Unchanged
      <4>1. Len(soap_answer') = 0
        BY <3>1
      <4>2. Soap!OneElement' /\ Len(soap_answer') \in 0..2
        BY <4>1 DEF Soap!OneElement
      <4>3. QED
        BY <3>1, <4>2, AnswerOnly
    <3>2. QED
      BY <2>5, <2>9, <3>1 DEF Soap!Responses
  <2>10. CASE Soap!Restart
    <3>1. /\ soap_values' = [p \in SoapParams |-> "plain"] /\ count' = 0
          /\ parameterKey' = Soap!NoKey /\ completed' = Soap!NoKey /\ committed' = TRUE
          /\ soap_answer' = << >>
      BY <2>10 DEF Soap!Restart
    <3>2. soap_values' \in [SoapParams -> {"plain", "odd"}] /\ count' \in 0..MaxObjects
          /\ Soap!NoKey \in Keys
      BY <3>1 DEF Soap!SoapAssumption
    <3>3. Len(soap_answer') = 0
      BY <3>1
    <3>4. QED
      BY <3>1, <3>2, <3>3 DEF SoapInv, Soap!TypeOK, Soap!KeyTellsCompleted, Soap!OneElement
  <2>11. CASE UNCHANGED Soap!vars
    BY <2>11 DEF Soap!vars, SoapInv, Soap!TypeOK, Soap!KeyTellsCompleted, Soap!OneElement
  <2>12. QED
    BY <2>1, <2>2, <2>3, <2>6, <2>7, <2>8, <2>9, <2>10, <2>11 DEF Soap!Next, Soap!Handle
<1>3. QED
  BY <1>1, <1>2, PTL DEF Soap!Spec, SoapInv

\* The instance counts like FiniteSets.
LEMMA StbSizes == \A S : Stb!Cardinality(S) = Cardinality(S) /\ Stb!IsFiniteSet(S) = IsFiniteSet(S)
BY DEF Stb!Cardinality, Stb!IsFiniteSet, Cardinality, IsFiniteSet


-----------------------------------------------------------------------------
(* The services of the set-top box                                         *)
(*                                                                         *)
(* The numbers of the groups are distinct, what a session has read of a    *)
(* stream is what its snapshot holds as long as the cache has it, and the  *)
(* clock has not passed the timer of the alarm.                            *)

\* A numbering of some groups.
Numbering(l) ==
  /\ l = [i \in DOMAIN l |-> l[i]] /\ DOMAIN l \subseteq 1..Cardinality(Groups)
  /\ \A i \in DOMAIN l : l[i] \in Groups
  /\ \A i, j \in DOMAIN l : l[i] = l[j] => i = j

StbTyped ==
  /\ igmp \subseteq Groups /\ numbered \in BOOLEAN
  /\ monitor \in [Streams -> StallTimes \cup {Stb!Absent}]
  /\ data \in [Streams -> StallTimes \cup {Stb!Absent}] /\ stb_cached \subseteq Streams
  /\ alarm \in Nat /\ alarm <= now /\ now \in 1..MaxNow
  /\ timers \subseteq Nat /\ resetTime \in ResetTimes /\ threshold \in Nat
  /\ DOMAIN shown = Streams

\* A session has read at most what it has kept.
ShownIsRead == \A s \in Streams : shown[s] \subseteq IF s \in stb_cached THEN {data[s]} ELSE {}

StbInv == StbTyped /\ Numbering(clientGroups) /\ ShownIsRead /\ Stb!AlarmHasTimer

\* The group of a number stays where it is as long as it is there.
Remains(old, new) ==
  \A i \in DOMAIN old :
    (\E j \in DOMAIN new : new[j] = old[i]) => i \in DOMAIN new /\ new[i] = old[i]

LEMMA RenumberedSays ==
  ASSUME Stb!StbAssumption, NEW old, Numbering(old), NEW groups \in SUBSET Groups,
         NEW l \in Stb!Renumbered(old, groups)
  PROVE  Numbering(l) /\ Remains(old, l)
<1> DEFINE kept == {i \in DOMAIN old : old[i] \in groups}
           fresh == groups \ {old[i] : i \in kept}
           free == (1..Cardinality(groups)) \ kept
<1>1. PICK number \in [fresh -> free] :
        /\ Stb!IsInjective(number)
        /\ l = [i \in kept \cup Stb!Range(number) |->
                  IF i \in kept THEN old[i] ELSE CHOOSE g \in fresh : number[g] = i]
  BY Zenon, StbSizes DEF Stb!Renumbered
<1>2. 1..Cardinality(groups) \subseteq 1..Cardinality(Groups)
  <2>1. Cardinality(groups) <= Cardinality(Groups) /\ IsFiniteSet(groups)
    BY FS_Subset, StbSizes DEF Stb!StbAssumption
  <2>2. Cardinality(groups) \in Nat /\ Cardinality(Groups) \in Nat
    BY <2>1, FS_CardinalityType, StbSizes DEF Stb!StbAssumption
  <2>3. QED
    BY <2>1, <2>2
<1>3. DOMAIN l = kept \cup Stb!Range(number)
  BY <1>1
<1>4. \A i \in kept : l[i] = old[i] /\ l[i] \in groups
  BY <1>1
<1>5. \A i \in Stb!Range(number) : i \in free /\ i \notin kept
  BY <1>1 DEF Stb!Range
<1>6. ASSUME NEW i \in Stb!Range(number) PROVE l[i] \in fresh /\ number[l[i]] = i
  <2>1. \E g \in fresh : number[g] = i
    BY <1>1, <1>6 DEF Stb!Range
  <2>2. l[i] = CHOOSE g \in fresh : number[g] = i
    BY <1>1, <1>5, <1>6, Zenon
  <2> HIDE DEF fresh
  <2>3. QED
    BY <2>1, <2>2
<1>7. kept \subseteq DOMAIN old /\ free \subseteq 1..Cardinality(Groups)
  BY <1>2
<1>8. \A i \in kept : \A g \in fresh : old[i] # g
  OBVIOUS
<1>9. fresh \subseteq groups
  OBVIOUS
<1>10. \A i \in DOMAIN old : old[i] \in groups => i \in kept
  OBVIOUS
<1>11. l = [i \in DOMAIN l |-> l[i]]
  BY <1>1
<1> HIDE DEF kept, fresh, free
<1>12. DOMAIN l \subseteq 1..Cardinality(Groups)
  BY <1>3, <1>5, <1>7 DEF Numbering
<1>13. \A i \in DOMAIN l : l[i] \in groups
  BY <1>3, <1>4, <1>6, <1>9
<1>14. ASSUME NEW i \in DOMAIN l, NEW j \in DOMAIN l, l[i] = l[j] PROVE i = j
  <2>1. CASE i \in kept /\ j \in kept
    BY <1>4, <1>7, <1>14, <2>1 DEF Numbering
  <2>2. CASE i \in Stb!Range(number) /\ j \in Stb!Range(number)
    BY <1>6, <1>14, <2>2
  <2>3. CASE i \in kept /\ j \in Stb!Range(number)
    BY <1>4, <1>6, <1>8, <1>14, <2>3
  <2>4. CASE i \in Stb!Range(number) /\ j \in kept
    BY <1>4, <1>6, <1>8, <1>14, <2>4
  <2>5. QED
    BY <1>3, <2>1, <2>2, <2>3, <2>4
<1>15. Remains(old, l)
  BY <1>3, <1>4, <1>10, <1>13 DEF Remains
<1>16. QED
  BY <1>11, <1>12, <1>13, <1>14, <1>15 DEF Numbering

\* Reading more streams keeps the snapshots.
LEMMA ReadKeeps ==
  ASSUME StbTyped, ShownIsRead, NEW ss \in SUBSET Streams, Stb!UpdateStats(ss),
         monitor' = monitor
  PROVE  /\ data' \in [Streams -> StallTimes \cup {Stb!Absent}] /\ stb_cached' \subseteq Streams
         /\ DOMAIN shown' = Streams /\ ShownIsRead'
<1> USE DEF Stb!UpdateStats
<1>1. data' \in [Streams -> StallTimes \cup {Stb!Absent}]
  BY DEF StbTyped
<1>2. stb_cached' = stb_cached \cup ss /\ stb_cached' \subseteq Streams /\ DOMAIN shown' = Streams
  BY DEF StbTyped
<1>3. ASSUME NEW s \in Streams PROVE shown'[s] \subseteq IF s \in stb_cached' THEN {data'[s]} ELSE {}
  <2>1. data'[s] = IF s \in ss \ stb_cached THEN monitor[s] ELSE data[s]
    OBVIOUS
  <2>2. shown'[s] = IF s \in ss THEN shown[s] \cup {data'[s]} ELSE shown[s]
    OBVIOUS
  <2>3. shown[s] \subseteq IF s \in stb_cached THEN {data[s]} ELSE {}
    BY DEF ShownIsRead
  <2>4. QED
    BY <1>2, <2>1, <2>2, <2>3
<1>4. QED
  BY <1>1, <1>2, <1>3 DEF ShownIsRead

LEMMA StbStep ==
  ASSUME Stb!StbAssumption, StbInv, [Stb!Next]_Stb!stbVars
  PROVE  StbInv' /\ Remains(clientGroups, clientGroups')
<1> USE DEF StbInv, StbTyped, Stb!groupVars, Stb!statsVars, Stb!alarmVars
<1>0. ASSUME clientGroups' = clientGroups
      PROVE  Numbering(clientGroups)' /\ Remains(clientGroups, clientGroups')
  BY <1>0 DEF Numbering, Remains
<1>1. CASE Stb!ListGroups
  <2>1. Numbering(clientGroups') /\ Remains(clientGroups, clientGroups')
    BY <1>1, RenumberedSays DEF Stb!ListGroups
  <2>2. ShownIsRead' /\ Stb!AlarmHasTimer' /\ StbTyped'
    BY <1>1 DEF Stb!ListGroups, ShownIsRead, Stb!AlarmHasTimer
  <2>3. QED
    BY <2>1, <2>2
<1>2. CASE Stb!Membership
  <2>1. ShownIsRead' /\ Stb!AlarmHasTimer' /\ StbTyped' /\ clientGroups' = clientGroups
    BY <1>2 DEF Stb!Membership, ShownIsRead, Stb!AlarmHasTimer
  <2>2. QED
    BY <1>0, <2>1
<1>3. ASSUME NEW s \in Streams, Stb!ReadStats(s) PROVE StbInv' /\ Remains(clientGroups, clientGroups')
  <2>1. Stb!UpdateStats({s}) /\ {s} \in SUBSET Streams /\ monitor' = monitor
    BY <1>3 DEF Stb!ReadStats
  <2>2. /\ data' \in [Streams -> StallTimes \cup {Stb!Absent}] /\ stb_cached' \subseteq Streams
        /\ DOMAIN shown' = Streams /\ ShownIsRead'
    BY <2>1, ReadKeeps
  <2>3. Stb!AlarmHasTimer' /\ StbTyped' /\ clientGroups' = clientGroups
    BY <1>3, <2>2 DEF Stb!ReadStats, Stb!AlarmHasTimer
  <2>4. QED
    BY <1>0, <2>2, <2>3
<1>4. ASSUME NEW s \in Streams, NEW v \in StallTimes \cup {Stb!Absent}, Stb!Monitor(s, v)
      PROVE  StbInv' /\ Remains(clientGroups, clientGroups')
  <2>1. ShownIsRead' /\ Stb!AlarmHasTimer' /\ StbTyped' /\ clientGroups' = clientGroups
    BY <1>4 DEF Stb!Monitor, ShownIsRead, Stb!AlarmHasTimer
  <2>2. QED
    BY <1>0, <2>1
<1>5. CASE Stb!GetAlarmTime
  <2>1. clientGroups' = clientGroups /\ monitor' = monitor /\ resetTime' = resetTime
        /\ threshold' = threshold /\ now' = now /\ igmp' = igmp /\ numbered' = numbered
    BY <1>5 DEF Stb!GetAlarmTime
  <2>2. CASE alarm # 0 /\ UNCHANGED <<data, stb_cached, shown, alarm, timers>>
    <3>1. ShownIsRead' /\ Stb!AlarmHasTimer' /\ StbTyped'
      BY <2>1, <2>2 DEF ShownIsRead, Stb!AlarmHasTimer
    <3>2. QED
      BY <1>0, <2>1, <3>1
  <2>3. ASSUME NEW ss \in SUBSET Streams, Stb!UpdateStats(ss), alarm = 0,
               \/ alarm' = now /\ timers' = timers \cup {now + resetTime}
               \/ alarm' = alarm /\ timers' = timers
        PROVE  StbInv' /\ Remains(clientGroups, clientGroups')
    <3>1. /\ data' \in [Streams -> StallTimes \cup {Stb!Absent}] /\ stb_cached' \subseteq Streams
          /\ DOMAIN shown' = Streams /\ ShownIsRead'
      BY <2>1, <2>3, ReadKeeps
    <3>2. now + resetTime \in Nat /\ now + resetTime > now
      BY DEF Stb!StbAssumption
    <3>3. Stb!AlarmHasTimer' /\ timers' \subseteq Nat /\ alarm' \in Nat /\ alarm' <= now
      <4>1. CASE alarm' = now /\ timers' = timers \cup {now + resetTime}
        <5>1. now \in Nat /\ now' = now
          BY <2>1
        <5>2. timers' \subseteq Nat /\ alarm' \in Nat /\ alarm' <= now
          <6>1. timers \subseteq Nat
            OBVIOUS
          <6> HIDE DEF StbInv, StbTyped
          <6>2. alarm' \in Nat /\ alarm' <= now
            BY <4>1, <5>1
          <6>3. timers' \subseteq Nat
            BY <3>2, <4>1, <6>1
          <6>4. QED
            BY <6>2, <6>3
        <5>3. now + resetTime \in timers' /\ now + resetTime > alarm'
          BY <3>2, <4>1
        <5>4. Stb!AlarmHasTimer'
          BY <5>3 DEF Stb!AlarmHasTimer
        <5>5. QED
          BY <5>2, <5>4
      <4>2. CASE alarm' = alarm /\ timers' = timers
        BY <4>2 DEF Stb!AlarmHasTimer
      <4>3. QED
        BY <2>3, <4>1, <4>2
    <3>4. StbTyped'
      BY <2>1, <3>1, <3>3
    <3>5. QED
      BY <1>0, <2>1, <3>1, <3>3, <3>4
  <2>4. QED
    BY <1>5, <2>2, <2>3, Zenon DEF Stb!GetAlarmTime
<1>6. CASE Stb!SetAlarmTime
  <2>1. ShownIsRead' /\ Stb!AlarmHasTimer' /\ StbTyped' /\ clientGroups' = clientGroups
    BY <1>6 DEF Stb!SetAlarmTime, ShownIsRead, Stb!AlarmHasTimer
  <2>2. QED
    BY <1>0, <2>1
<1>7. CASE Stb!StallAlarmReset
  <2>1. ShownIsRead' /\ Stb!AlarmHasTimer' /\ StbTyped' /\ clientGroups' = clientGroups
    BY <1>7 DEF Stb!StallAlarmReset, ShownIsRead, Stb!AlarmHasTimer
  <2>2. QED
    BY <1>0, <2>1
<1>8. CASE Stb!Configure
  <2>1. ShownIsRead' /\ Stb!AlarmHasTimer' /\ StbTyped' /\ clientGroups' = clientGroups
    BY <1>8 DEF Stb!Configure, ShownIsRead, Stb!AlarmHasTimer
  <2>2. QED
    BY <1>0, <2>1
<1>9. CASE Stb!CloseSession
  <2>1. ShownIsRead' /\ Stb!AlarmHasTimer' /\ StbTyped' /\ clientGroups' = clientGroups
    BY <1>9 DEF Stb!CloseSession, ShownIsRead, Stb!AlarmHasTimer
  <2>2. QED
    BY <1>0, <2>1
<1>10. CASE Stb!Tick
  <2>1. ShownIsRead' /\ Stb!AlarmHasTimer' /\ StbTyped' /\ clientGroups' = clientGroups
    BY <1>10 DEF Stb!Tick, ShownIsRead, Stb!AlarmHasTimer, Stb!StbAssumption
  <2>2. QED
    BY <1>0, <2>1
<1>11. CASE UNCHANGED Stb!stbVars
  <2>1. ShownIsRead' /\ Stb!AlarmHasTimer' /\ StbTyped' /\ clientGroups' = clientGroups
    BY <1>11 DEF Stb!stbVars, ShownIsRead, Stb!AlarmHasTimer
  <2>2. QED
    BY <1>0, <2>1
<1>12. QED
  BY <1>1, <1>2, <1>3, <1>4, <1>5, <1>6, <1>7, <1>8, <1>9, <1>10, <1>11, Zenon DEF Stb!Next

\* The types of the set-top box's variables, and: what one session reads of a stream is one
\* snapshot, an alarm that is set has a timer that resets it, and the instance numbers of
\* the multicast groups are stable and exact (Total._UpdateStats,
\* ServiceMonitoring.GetAlarmTime, IGMP._UpdateClientGroups).
THEOREM StbSafe ==
  ASSUME Stb!StbAssumption
  PROVE  Stb!Spec => [](Stb!TypeOK /\ Stb!OneSnapshot /\ Stb!AlarmHasTimer) /\ Stb!NumbersStable
<1>1. Stb!Init => StbInv
  <2> SUFFICES ASSUME Stb!Init PROVE StbInv
    OBVIOUS
  <2>0. now = 1 /\ 1 \in 1..MaxNow
    BY DEF Stb!Init, Stb!StbAssumption
  <2>1. StbTyped
    <3>1. data = [s \in Streams |-> Stb!Absent] /\ monitor = [s \in Streams |-> Stb!Absent]
      BY DEF Stb!Init
    <3>2. data \in [Streams -> StallTimes \cup {Stb!Absent}]
          /\ monitor \in [Streams -> StallTimes \cup {Stb!Absent}]
      BY <3>1
    <3>3. igmp \subseteq Groups /\ numbered \in BOOLEAN /\ resetTime \in ResetTimes
          /\ DOMAIN shown = Streams /\ stb_cached \subseteq Streams
      BY DEF Stb!Init
    <3>4. alarm = 0 /\ timers = {} /\ threshold = 0
      BY DEF Stb!Init
    <3>5. alarm \in Nat /\ alarm <= now /\ timers \subseteq Nat /\ threshold \in Nat
      BY <2>0, <3>4
    <3>6. QED
      BY <2>0, <3>2, <3>3, <3>5 DEF StbTyped
  <2>2. Numbering(clientGroups)
    BY DEF Stb!Init, Numbering
  <2>3. QED
    BY <2>1, <2>2 DEF Stb!Init, StbInv, ShownIsRead, Stb!AlarmHasTimer
<1>2. StbInv /\ [Stb!Next]_Stb!stbVars => StbInv'
  BY StbStep
<1>3. StbInv => Stb!TypeOK /\ Stb!OneSnapshot /\ Stb!AlarmHasTimer
  <2> SUFFICES ASSUME StbInv PROVE Stb!TypeOK /\ Stb!OneSnapshot /\ Stb!AlarmHasTimer
    OBVIOUS
  <2>1. ASSUME NEW s \in Streams PROVE Cardinality(shown[s]) <= 1
    <3>1. PICK x : shown[s] \subseteq {x}
      BY DEF StbInv, ShownIsRead
    <3>2. IsFiniteSet({x}) /\ Cardinality({x}) = 1
      BY FS_Singleton
    <3>3. shown[s] \in SUBSET {x}
      BY <3>1
    <3>4. Cardinality(shown[s]) <= Cardinality({x})
      BY <3>2, <3>3, FS_Subset
    <3>5. QED
      BY <3>2, <3>4
  <2>2. Stb!Range(clientGroups) \subseteq Groups
    BY DEF StbInv, Numbering, Stb!Range
  <2>3. Stb!TypeOK
    BY <2>2 DEF StbInv, StbTyped, Stb!TypeOK, Stb!StbAssumption
  <2>4. QED
    BY <2>1, <2>3, StbSizes DEF StbInv, Stb!OneSnapshot
<1>4. StbInv /\ StbInv' /\ [Stb!Next]_Stb!stbVars =>
        [/\ Stb!IsInjective(clientGroups')
         /\ DOMAIN clientGroups' \subseteq 1..Stb!Cardinality(Groups)
         /\ \A i \in DOMAIN clientGroups :
              clientGroups[i] \in Stb!Range(clientGroups')
                => i \in DOMAIN clientGroups' /\ clientGroups'[i] = clientGroups[i]]_Stb!stbVars
  <2> SUFFICES ASSUME StbInv, StbInv', [Stb!Next]_Stb!stbVars
               PROVE  /\ Stb!IsInjective(clientGroups')
                      /\ DOMAIN clientGroups' \subseteq 1..Stb!Cardinality(Groups)
                      /\ \A i \in DOMAIN clientGroups :
                           clientGroups[i] \in Stb!Range(clientGroups')
                             => i \in DOMAIN clientGroups' /\ clientGroups'[i] = clientGroups[i]
    OBVIOUS
  <2>1. Remains(clientGroups, clientGroups')
    BY StbStep
  <2>2. Numbering(clientGroups')
    BY DEF StbInv, Numbering
  <2>3. Stb!IsInjective(clientGroups') /\ DOMAIN clientGroups' \subseteq 1..Stb!Cardinality(Groups)
    BY <2>2, StbSizes DEF Numbering, Stb!IsInjective
  <2>4. QED
    BY <2>1, <2>3 DEF Remains, Stb!Range
<1>5. QED
  BY <1>1, <1>2, <1>3, <1>4, PTL DEF Stb!Spec, Stb!NumbersStable

-----------------------------------------------------------------------------
(* The data model                                                          *)
(*                                                                         *)
(* Whichever component is chosen, each behaves as its own specification    *)
(* says: the steps of the others leave it as it is.                        *)

LEMMA ServerRuns == Spec => Server!Spec
<1>1. Init => Server!Init
  BY Zenon DEF Init
<1>2. [Next]_vars => [Server!Next]_serverVars
  BY Zenon DEF Next, vars
<1>3. UNCHANGED serverVars => UNCHANGED Server!vars
  BY DEF serverVars, Server!vars, Server!periodic, Server!retry
<1>4. [Next]_vars => [Server!Next]_Server!vars
  BY <1>2, <1>3, Zenon
<1>5. QED
  BY <1>1, <1>4, PTL DEF Spec, Server!Spec

LEMMA AcsRuns == Spec => Acs!Spec
<1>1. Init => Acs!Init
  BY Zenon DEF Init
<1>2. [Next]_vars => [Acs!Next]_acsVars
  BY Zenon DEF Next, vars
<1>3. UNCHANGED acsVars => UNCHANGED Acs!vars
  BY DEF acsVars, Acs!vars
<1>4. [Next]_vars => [Acs!Next]_Acs!vars
  BY <1>2, <1>3, Zenon
<1>5. QED
  BY <1>1, <1>4, PTL DEF Spec, Acs!Spec

LEMMA SocketRuns == Spec => Socket!Spec
<1>1. Init => Socket!Init
  BY Zenon DEF Init
<1>2. [Next]_vars => [Socket!Next]_socketVars
  BY Zenon DEF Next, vars
<1>3. UNCHANGED socketVars => UNCHANGED Socket!vars
  BY DEF socketVars, Socket!vars
<1>4. [Next]_vars => [Socket!Next]_Socket!vars
  BY <1>2, <1>3, Zenon
<1>5. QED
  BY <1>1, <1>4, PTL DEF Spec, Socket!Spec

LEMMA TransactionsRuns == Spec => Transactions!Spec
<1>1. Init => Transactions!Init
  BY Zenon DEF Init
<1>2. [Next]_vars => [Transactions!Next]_transactionVars
  BY Zenon DEF Next, vars
<1>3. UNCHANGED transactionVars => UNCHANGED Transactions!transactionVars
  BY DEF transactionVars, Transactions!transactionVars
<1>4. [Next]_vars => [Transactions!Next]_Transactions!transactionVars
  BY <1>2, <1>3, Zenon
<1>5. QED
  BY <1>1, <1>4, PTL DEF Spec, Transactions!Spec

LEMMA ListsRuns == Spec => Lists!Spec
<1>1. Init => Lists!Init
  BY Zenon DEF Init
<1>2. [Next]_vars => [Lists!Next]_listVars
  BY Zenon DEF Next, vars
<1>3. UNCHANGED listVars => UNCHANGED Lists!listVars
  BY DEF listVars, Lists!listVars
<1>4. [Next]_vars => [Lists!Next]_Lists!listVars
  BY <1>2, <1>3, Zenon
<1>5. QED
  BY <1>1, <1>4, PTL DEF Spec, Lists!Spec

LEMMA AttributesRuns == Spec => Attributes!Spec
<1>1. Init => Attributes!Init
  BY Zenon DEF Init
<1>2. [Next]_vars => [Attributes!Next]_typeVars
  BY Zenon DEF Next, vars
<1>3. UNCHANGED typeVars => UNCHANGED Attributes!vars
  BY DEF typeVars, Attributes!vars
<1>4. [Next]_vars => [Attributes!Next]_Attributes!vars
  BY <1>2, <1>3, Zenon
<1>5. QED
  BY <1>1, <1>4, PTL DEF Spec, Attributes!Spec

LEMMA AddressesRuns == Spec => Addresses!Spec
<1>1. Init => Addresses!Init
  BY Zenon DEF Init
<1>2. [Next]_vars => [Addresses!Next]_ipVars
  BY Zenon DEF Next, vars
<1>3. UNCHANGED ipVars => UNCHANGED Addresses!ipVars
  BY DEF ipVars, Addresses!ipVars
<1>4. [Next]_vars => [Addresses!Next]_Addresses!ipVars
  BY <1>2, <1>3, Zenon
<1>5. QED
  BY <1>1, <1>4, PTL DEF Spec, Addresses!Spec

LEMMA LookupsRuns == Spec => Lookups!Spec
<1>1. Init => Lookups!Init
  BY Zenon DEF Init
<1>2. [Next]_vars => [Lookups!Next]_lookupVars
  BY Zenon DEF Next, vars
<1>3. UNCHANGED lookupVars => UNCHANGED Lookups!vars
  BY DEF lookupVars, Lookups!vars
<1>4. [Next]_vars => [Lookups!Next]_Lookups!vars
  BY <1>2, <1>3, Zenon
<1>5. QED
  BY <1>1, <1>4, PTL DEF Spec, Lookups!Spec

LEMMA SageRuns == Spec => Sage!Spec
<1>1. Init => Sage!Init
  BY Zenon DEF Init
<1>2. [Next]_vars => [Sage!Next]_sageVars
  BY Zenon DEF Next, vars
<1>3. UNCHANGED sageVars => UNCHANGED Sage!vars
  BY DEF sageVars, Sage!vars
<1>4. [Next]_vars => [Sage!Next]_Sage!vars
  BY <1>2, <1>3, Zenon
<1>5. QED
  BY <1>1, <1>4, PTL DEF Spec, Sage!Spec

LEMMA TableRuns == Spec => Table!Spec
<1>1. Init => Table!Init
  BY Zenon DEF Init
<1>2. [Next]_vars => [Table!Next]_hostVars
  BY Zenon DEF Next, vars
<1>3. UNCHANGED hostVars => UNCHANGED Table!vars
  BY DEF hostVars, Table!vars
<1>4. [Next]_vars => [Table!Next]_Table!vars
  BY <1>2, <1>3, Zenon
<1>5. QED
  BY <1>1, <1>4, PTL DEF Spec, Table!Spec

LEMMA SoapRuns == Spec => Soap!Spec
<1>1. Init => Soap!Init
  BY Zenon DEF Init
<1>2. [Next]_vars => [Soap!Next]_soapVars
  BY Zenon DEF Next, vars
<1>3. UNCHANGED soapVars => UNCHANGED Soap!vars
  BY DEF soapVars, Soap!vars
<1>4. [Next]_vars => [Soap!Next]_Soap!vars
  BY <1>2, <1>3, Zenon
<1>5. QED
  BY <1>1, <1>4, PTL DEF Spec, Soap!Spec

LEMMA StbRuns == Spec => Stb!Spec
<1>1. Init => Stb!Init
  BY Zenon DEF Init
<1>2. [Next]_vars => [Stb!Next]_stbVars
  BY Zenon DEF Next, vars
<1>3. UNCHANGED stbVars => UNCHANGED Stb!stbVars
  BY DEF stbVars, Stb!stbVars
<1>4. [Next]_vars => [Stb!Next]_Stb!stbVars
  BY <1>2, <1>3, Zenon
<1>5. QED
  BY <1>1, <1>4, PTL DEF Spec, Stb!Spec

-----------------------------------------------------------------------------

\* Each component keeps its types.
THEOREM TypesKept == Spec => []TypeOK
<1>1. Spec => []Server!TypeOK
  <2>1. Server!ServerAssumption
    BY DataModelAssumption, Zenon DEF DataModelAssumption
  <2>2. Server!Spec => []ServerInv
    BY <2>1, ServerSafe
  <2>3. ServerInv => Server!TypeOK
    BY Zenon DEF ServerInv
  <2>4. QED
    BY <2>2, <2>3, ServerRuns, PTL
<1>2. Spec => []Acs!TypeOK
  <2>1. Acs!SetAcsAssumption
    BY DataModelAssumption, Zenon DEF DataModelAssumption
  <2>2. Acs!Spec => []Acs!TypeOK
    BY <2>1, AcsTyped
  <2>3. QED
    BY <2>2, AcsRuns
<1>3. Spec => []Socket!TypeOK
  <2>1. Socket!CommandSocketAssumption
    BY DataModelAssumption, Zenon DEF DataModelAssumption
  <2>2. Socket!Spec => []Socket!TypeOK
    BY <2>1, SocketSafe
  <2>3. QED
    BY <2>2, SocketRuns
<1>4. Spec => []Transactions!TypeOK
  <2>1. Transactions!TransactionsAssumption
    BY DataModelAssumption, Zenon DEF DataModelAssumption
  <2>2. Transactions!Spec => []Transactions!TypeOK
    BY <2>1, TransactionsSafe
  <2>3. QED
    BY <2>2, TransactionsRuns
<1>5. Spec => []Lists!TypeOK
  <2>1. Lists!ObjectListsAssumption
    BY DataModelAssumption, Zenon DEF DataModelAssumption
  <2>2. Lists!Spec => []Lists!TypeOK
    BY <2>1, ListsSafe
  <2>3. QED
    BY <2>2, ListsRuns
<1>6. Spec => []Attributes!TypeOK
  <2>1. Attributes!TypesAssumption
    BY DataModelAssumption, Zenon DEF DataModelAssumption
  <2>2. Attributes!Spec => []Attributes!TypeOK
    BY <2>1, TypesSafe
  <2>3. QED
    BY <2>2, AttributesRuns
<1>7. Spec => []Addresses!TypeOK
  <2>1. Addresses!IpAssumption
    BY DataModelAssumption, Zenon DEF DataModelAssumption
  <2>2. Addresses!Spec => []Addresses!TypeOK
    BY <2>1, AddressesSafe
  <2>3. QED
    BY <2>2, AddressesRuns
<1>8. Spec => []Lookups!TypeOK
  <2>1. Lookups!HandlesAssumption
    BY DataModelAssumption, Zenon DEF DataModelAssumption
  <2>2. Lookups!Spec => []Lookups!TypeOK
    BY <2>1, LookupsSafe
  <2>3. QED
    BY <2>2, LookupsRuns
<1>9. Spec => []Sage!TypeOK
  <2>1. Sage!SageAssumption
    BY DataModelAssumption, Zenon DEF DataModelAssumption
  <2>2. Sage!Spec => []Sage!TypeOK
    BY <2>1, SageSafe
  <2>3. QED
    BY <2>2, SageRuns
<1>10. Spec => []Table!TypeOK
  <2>1. Table!HostsAssumption
    BY DataModelAssumption, Zenon DEF DataModelAssumption
  <2>2. Table!Spec => []Table!TypeOK
    BY <2>1, HostsSafe
  <2>3. QED
    BY <2>2, TableRuns
<1>11. Spec => []Soap!TypeOK
  <2>1. Soap!SoapAssumption
    BY DataModelAssumption, Zenon DEF DataModelAssumption
  <2>2. Soap!Spec => []Soap!TypeOK
    BY <2>1, SoapSafe
  <2>3. QED
    BY <2>2, SoapRuns
<1>12. Spec => []Stb!TypeOK
  <2>1. Stb!StbAssumption
    BY DataModelAssumption, Zenon DEF DataModelAssumption
  <2>2. Stb!Spec => []Stb!TypeOK
    BY <2>1, StbSafe
  <2>3. QED
    BY <2>2, StbRuns
<1>13. QED
  BY <1>1, <1>2, <1>3, <1>4, <1>5, <1>6, <1>7, <1>8, <1>9, <1>10, <1>11, <1>12, PTL DEF TypeOK

\* StartPeriodicInform calls start() on the callback without a look: whatever is assigned
\* in between, and whatever restarts, the callback it was scheduled for is there.
THEOREM CallbackIsThere == Spec => []TimerHasCallback
<1>1. Spec => []Server!TimerHasCallback
  <2>1. Server!ServerAssumption
    BY DataModelAssumption, Zenon DEF DataModelAssumption
  <2>2. Server!Spec => []ServerInv
    BY <2>1, ServerSafe
  <2>3. ServerInv => Server!TimerHasCallback
    BY Zenon DEF ServerInv
  <2>4. QED
    BY <2>2, <2>3, ServerRuns, PTL
<1>2. QED
  BY <1>1, PTL DEF TimerHasCallback

\* The CPE finds its way back to the ACS, for any interval, minimum wait, multiplier, URLs
\* and sources: it retries within the periodic interval and backs off, and set-acs neither
\* forgets a blessed URL nor has no answer while any source knows an URL.
THEOREM ReachesAcs == Spec => AcsStaysReachable
<1>1. Spec => Server!RetryWithinPeriod
  <2>1. Server!ServerAssumption
    BY DataModelAssumption, Zenon DEF DataModelAssumption
  <2>2. Server!Spec => Server!RetryWithinPeriod
    BY <2>1, ServerSafe
  <2>3. QED
    BY <2>2, ServerRuns
<1>2. Spec => Server!RetryBacksOff
  <2>1. Server!ServerAssumption
    BY DataModelAssumption, Zenon DEF DataModelAssumption
  <2>2. Server!Spec => Server!RetryBacksOff
    BY <2>1, ServerSafe
  <2>3. QED
    BY <2>2, ServerRuns
<1>3. Spec => Acs!BlessedStays
  <2>1. Acs!SetAcsAssumption
    BY DataModelAssumption, Zenon DEF DataModelAssumption
  <2>2. Acs!Spec => Acs!BlessedStays
    BY <2>1, BlessedIsKept
  <2>3. QED
    BY <2>2, AcsRuns
<1>4. Spec => Acs!AnswersWhileAnyKnown
  <2>1. Acs!SetAcsAssumption
    BY DataModelAssumption, Zenon DEF DataModelAssumption
  <2>2. Acs!Spec => Acs!AnswersWhileAnyKnown
    BY <2>1, NoAnswerNoUrl
  <2>3. QED
    BY <2>2, AcsRuns
<1>5. QED
  BY <1>1, <1>2, <1>3, <1>4, PTL DEF AcsStaysReachable

\* Whoever asks is told what became of it: the ACS by one element and by ParameterKey, a
\* connection to the command socket block by block and in order.
THEOREM EveryoneIsTold == Spec => []AnswersTell
<1>1. Spec => []Soap!OneElement
  <2>1. Soap!SoapAssumption
    BY DataModelAssumption, Zenon DEF DataModelAssumption
  <2>2. Soap!Spec => []Soap!OneElement
    BY <2>1, SoapSafe
  <2>3. QED
    BY <2>2, SoapRuns
<1>2. Spec => []Soap!KeyTellsCompleted
  <2>1. Soap!SoapAssumption
    BY DataModelAssumption, Zenon DEF DataModelAssumption
  <2>2. Soap!Spec => []Soap!KeyTellsCompleted
    BY <2>1, SoapSafe
  <2>3. QED
    BY <2>2, SoapRuns
<1>3. Spec => []Socket!BlocksAnswered
  <2>1. Socket!CommandSocketAssumption
    BY DataModelAssumption, Zenon DEF DataModelAssumption
  <2>2. Socket!Spec => []Socket!BlocksAnswered
    BY <2>1, SocketSafe
  <2>3. QED
    BY <2>2, SocketRuns
<1>4. Spec => []Socket!CacheFlushed
  <2>1. Socket!CommandSocketAssumption
    BY DataModelAssumption, Zenon DEF DataModelAssumption
  <2>2. Socket!Spec => []Socket!CacheFlushed
    BY <2>1, SocketSafe
  <2>3. QED
    BY <2>2, SocketRuns
<1>5. QED
  BY <1>1, <1>2, <1>3, <1>4, PTL DEF AnswersTell

\* SetParameterValues is all or nothing and has its effect: a refused one leaves the objects
\* as they were, and what is accepted is applied to the interface.
THEOREM AllIsSetOrNothing == Spec => AllOrNothing
<1>1. Spec => Transactions!RefusedChangesNothing
  <2>1. Transactions!TransactionsAssumption
    BY DataModelAssumption, Zenon DEF DataModelAssumption
  <2>2. Transactions!Spec => Transactions!RefusedChangesNothing
    BY <2>1, TransactionsSafe
  <2>3. QED
    BY <2>2, TransactionsRuns
<1>2. Spec => Attributes!FaultUndoes
  <2>1. Attributes!TypesAssumption
    BY DataModelAssumption, Zenon DEF DataModelAssumption
  <2>2. Attributes!Spec => Attributes!FaultUndoes
    BY <2>1, TypesSafe
  <2>3. QED
    BY <2>2, AttributesRuns
<1>3. Spec => Addresses!WritesApplied
  <2>1. Addresses!IpAssumption
    BY DataModelAssumption, Zenon DEF DataModelAssumption
  <2>2. Addresses!Spec => Addresses!WritesApplied
    BY <2>1, AddressesSafe
  <2>3. QED
    BY <2>2, AddressesRuns
<1>4. QED
  BY <1>1, <1>2, <1>3, PTL DEF AllOrNothing

\* The number of an object stays its own: no AddObject gives one twice, and a multicast
\* group keeps the one the ACS was told.
THEOREM NumbersAreKept == Spec => NumbersStay
<1>1. Spec => []Lists!IndexGivenOnce
  <2>1. Lists!ObjectListsAssumption
    BY DataModelAssumption, Zenon DEF DataModelAssumption
  <2>2. Lists!Spec => []Lists!IndexGivenOnce
    BY <2>1, ListsSafe
  <2>3. QED
    BY <2>2, ListsRuns
<1>2. Spec => Stb!NumbersStable
  <2>1. Stb!StbAssumption
    BY DataModelAssumption, Zenon DEF DataModelAssumption
  <2>2. Stb!Spec => Stb!NumbersStable
    BY <2>1, StbSafe
  <2>3. QED
    BY <2>2, StbRuns
<1>3. QED
  BY <1>1, <1>2, PTL DEF NumbersStay

\* What the ACS reads fits together, whatever changes between two reads.
THEOREM EveryReadFits == Spec => []ReadsFitTogether
<1>1. Spec => []Stb!OneSnapshot
  <2>1. Stb!StbAssumption
    BY DataModelAssumption, Zenon DEF DataModelAssumption
  <2>2. Stb!Spec => []Stb!OneSnapshot
    BY <2>1, StbSafe
  <2>3. QED
    BY <2>2, StbRuns
<1>2. Spec => []Stb!AlarmHasTimer
  <2>1. Stb!StbAssumption
    BY DataModelAssumption, Zenon DEF DataModelAssumption
  <2>2. Stb!Spec => []Stb!AlarmHasTimer
    BY <2>1, StbSafe
  <2>3. QED
    BY <2>2, StbRuns
<1>3. Spec => [](Lookups!OneInstance /\ Lookups!ListsWhatIsFound)
  <2>1. Lookups!HandlesAssumption
    BY DataModelAssumption, Zenon DEF DataModelAssumption
  <2>2. Lookups!Spec => [](Lookups!OneInstance /\ Lookups!ListsWhatIsFound)
    BY <2>1, LookupsSafe
  <2>3. QED
    BY <2>2, LookupsRuns
<1>4. Spec => []Table!HostsConsistent
  <2>1. Table!HostsAssumption
    BY DataModelAssumption, Zenon DEF DataModelAssumption
  <2>2. Table!Spec => []Table!HostsConsistent
    BY <2>1, HostsSafe
  <2>3. QED
    BY <2>2, TableRuns
<1>5. Spec => [](Sage!ReadsWhatWasWritten /\ Sage!ReadsAsSageHasIt)
  <2>1. Sage!SageAssumption
    BY DataModelAssumption, Zenon DEF DataModelAssumption
  <2>2. Sage!Spec => [](Sage!ReadsWhatWasWritten /\ Sage!ReadsAsSageHasIt)
    BY <2>1, SageSafe
  <2>3. QED
    BY <2>2, SageRuns
<1>6. Spec => []Attributes!ChangesSeen
  <2>1. Attributes!TypesAssumption
    BY DataModelAssumption, Zenon DEF DataModelAssumption
  <2>2. Attributes!Spec => []Attributes!ChangesSeen
    BY <2>1, TypesSafe
  <2>3. QED
    BY <2>2, AttributesRuns
<1>7. Addresses!CIDRCorrect(4)
  <2>1. 4 \in Nat
    OBVIOUS
  <2>2. QED
    BY <2>1, PrefixLength
<1>8. (/\ Stb!OneSnapshot /\ Stb!AlarmHasTimer /\ Lookups!OneInstance /\ Lookups!ListsWhatIsFound
       /\ Table!HostsConsistent /\ Sage!ReadsWhatWasWritten /\ Sage!ReadsAsSageHasIt
       /\ Attributes!ChangesSeen)
      => ReadsFitTogether
  BY <1>7, Zenon DEF ReadsFitTogether
<1>9. QED
  BY <1>1, <1>2, <1>3, <1>4, <1>5, <1>6, <1>8, PTL
=============================================================================
