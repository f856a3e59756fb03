--------------------------- MODULE ScoringProofs ---------------------------
(***************************************************************************)
(* The value of a challenge, for any scheme and any number of solvers.     *)
(*                                                                         *)
(* A power is computed by recursion, so what is shown of it is shown by    *)
(* induction: over the naturals, as the set of those for which a statement *)
(* holds.                                                                  *)
(***************************************************************************)
EXTENDS Scoring, FiniteSetTheorems, WellFoundedInduction, TLAPS

-----------------------------------------------------------------------------
(* Induction.                                                                 *)

Below(k) == 0..(k - 1)

\* A set that has 0 and the successor of each of its numbers has them all: otherwise
\* there is a least one that it lacks, by the well-foundedness of the strict-subset
\* ordering on finite sets of numbers.
LEMMA NatSetInduction ==
    ASSUME NEW S, 0 \in S, \A n \in Nat : n \in S => n + 1 \in S
    PROVE  Nat \subseteq S
<1> SUFFICES ASSUME NEW j \in Nat, j \notin S PROVE FALSE
  OBVIOUS
<1> DEFINE T == {k \in Nat : k \notin S}
           TT == {Below(k) : k \in T}
<1>1. TT # {} /\ TT \subseteq FiniteSubsetsOf(Nat)
  <2>1. ASSUME NEW k \in T PROVE Below(k) \in FiniteSubsetsOf(Nat)
    BY FS_Interval DEF FiniteSubsetsOf, Below
  <2>2. QED
    BY <2>1
<1>2. PICK x \in TT : \A y \in TT : <<y, x>> \notin StrictSubsetOrdering(Nat)
  <2> HIDE DEF TT
  <2>1. QED
    BY <1>1, FS_StrictSubsetOrderingWellFounded, WFMin
<1>3. PICK k \in T : x = Below(k)
  OBVIOUS
<1>4. k - 1 \in T
  OBVIOUS
<1>5. Below(k - 1) \in TT
  BY <1>4
<1>6. k - 1 \in Below(k) /\ k - 1 \notin Below(k - 1) /\ Below(k - 1) \subseteq Below(k)
      /\ Below(k) \subseteq Nat
  BY DEF Below
<1>7. QED
  BY <1>2, <1>3, <1>5, <1>6 DEF StrictSubsetOrdering

-----------------------------------------------------------------------------
(* Powers.                                                                    *)

\* The powers of b up to the n-th, as a table.
Powers(b, n, g) ==
    /\ DOMAIN g = 0..n
    /\ g[0] = 1
    /\ \A i \in 1..n : g[i] = b * g[i - 1]

\* There is such a table up to every exponent ...
LEMMA PowersExist == ASSUME NEW b, NEW n \in Nat PROVE \E g : Powers(b, n, g)
<1> DEFINE S == {k \in Nat : \E g : Powers(b, k, g)}
<1>1. 0 \in S
  <2>1. Powers(b, 0, [i \in 0..0 |-> 1])
    BY DEF Powers
  <2>2. QED
    BY <2>1
<1>2. ASSUME NEW k \in Nat, k \in S PROVE k + 1 \in S
  <2>1. PICK g : Powers(b, k, g)
    BY <1>2
  <2> DEFINE h == [i \in 0..(k + 1) |-> IF i = k + 1 THEN b * g[k] ELSE g[i]]
  <2>2. Powers(b, k + 1, h)
    BY <2>1 DEF Powers
  <2>3. QED
    BY <2>2
<1>3. QED
  BY <1>1, <1>2, NatSetInduction

\* ... and two tables agree where both are defined ...
LEMMA PowersAgree ==
    ASSUME NEW b, NEW n \in Nat, NEW m \in Nat, NEW g, NEW h, Powers(b, n, g), Powers(b, m, h),
           NEW i \in 0..n, i <= m
    PROVE  g[i] = h[i]
<1> DEFINE S == {k \in Nat : k <= n /\ k <= m => g[k] = h[k]}
<1>1. 0 \in S
  BY DEF Powers
<1>2. ASSUME NEW k \in Nat, k \in S PROVE k + 1 \in S
  BY <1>2 DEF Powers
<1>3. Nat \subseteq S
  <2> HIDE DEF S
  <2>1. QED
    BY <1>1, <1>2, NatSetInduction
<1>4. QED
  BY <1>3

\* ... so that the recursive definition defines what it says.
LEMMA PowerEquation ==
    ASSUME NEW b
    PROVE  /\ Power(b, 0) = 1
           /\ \A n \in Nat : Power(b, n + 1) = b * Power(b, n)
<1> DEFINE G(n) == CHOOSE g : Powers(b, n, g)
           F == [n \in Nat |-> G(n)[n]]
           Eq(f) == f = [i \in Nat |-> IF i = 0 THEN 1 ELSE b * f[i - 1]]
<1>1. \A n \in Nat : Powers(b, n, G(n))
  BY PowersExist
<1> HIDE DEF G
<1>2. ASSUME NEW i \in Nat PROVE F[i] = IF i = 0 THEN 1 ELSE b * F[i - 1]
  <2>1. CASE i = 0
    BY <1>1, <2>1 DEF Powers
  <2>2. CASE i # 0
    <3>1. i - 1 \in Nat /\ F[i] = G(i)[i] /\ F[i - 1] = G(i - 1)[i - 1]
      BY <2>2
    <3>2. G(i)[i] = b * G(i)[i - 1]
      BY <1>1, <2>2 DEF Powers
    <3>3. G(i)[i - 1] = G(i - 1)[i - 1]
      BY <1>1, <3>1, PowersAgree
    <3>4. QED
      BY <2>2, <3>1, <3>2, <3>3
  <2>3. QED
    BY <2>1, <2>2
<1>3. Eq(F)
  BY <1>2, Zenon
<1> HIDE DEF F
<1>4. Eq(CHOOSE f : Eq(f))
  BY <1>3, Zenon
<1> DEFINE f == CHOOSE f : Eq(f)
<1>5. \A n \in Nat : Power(b, n) = f[n]
  BY DEF Power
<1>6. f = [i \in Nat |-> IF i = 0 THEN 1 ELSE b * f[i - 1]]
  BY <1>4
<1> HIDE DEF f
<1>7. QED
  BY <1>5, <1>6

\* Powers of natural numbers are natural numbers, and positive if the base is.
LEMMA PowerType ==
    ASSUME NEW b \in Nat, NEW n \in Nat
    PROVE  Power(b, n) \in Nat /\ (b > 0 => Power(b, n) > 0)
<1> DEFINE S == {k \in Nat : Power(b, k) \in Nat /\ (b > 0 => Power(b, k) > 0)}
<1>1. 0 \in S
  BY PowerEquation
<1>2. ASSUME NEW k \in Nat, k \in S PROVE k + 1 \in S
  <2>1. Power(b, k + 1) = b * Power(b, k) /\ Power(b, k) \in Nat
    BY <1>2, PowerEquation
  <2>2. b * Power(b, k) \in Nat /\ (b > 0 /\ Power(b, k) > 0 => b * Power(b, k) > 0)
    BY <2>1
  <2>3. QED
    BY <1>2, <2>1, <2>2
<1>3. Nat \subseteq S
  <2> HIDE DEF S
  <2>1. QED
    BY <1>1, <1>2, NatSetInduction
<1>4. QED
  BY <1>3

\* Products grow with their factors.
LEMMA ProductGrows ==
    ASSUME NEW a \in Nat, NEW b \in Nat, NEW x \in Nat, NEW y \in Nat, a <= b, x <= y
    PROVE  a * x <= b * y
OBVIOUS

\* A power grows with its base ...
LEMMA PowerBase ==
    ASSUME NEW a \in Nat, NEW b \in Nat, a <= b, NEW n \in Nat
    PROVE  Power(a, n) <= Power(b, n)
<1> DEFINE S == {k \in Nat : Power(a, k) <= Power(b, k)}
<1>1. 0 \in S
  BY PowerEquation
<1>2. ASSUME NEW k \in Nat, k \in S PROVE k + 1 \in S
  <2>1. /\ Power(a, k + 1) = a * Power(a, k) /\ Power(b, k + 1) = b * Power(b, k)
        /\ Power(a, k) \in Nat /\ Power(b, k) \in Nat
    BY PowerEquation, PowerType
  <2>2. QED
    BY <1>2, <2>1, ProductGrows
<1>3. Nat \subseteq S
  <2> HIDE DEF S
  <2>1. QED
    BY <1>1, <1>2, NatSetInduction
<1>4. QED
  BY <1>3

\* ... and, for the base 2, with its exponent.
LEMMA PowerExponent ==
    ASSUME NEW m \in Nat, NEW n \in Nat, m <= n
    PROVE  Power(2, m) <= Power(2, n)
<1> DEFINE S == {k \in Nat : Power(2, m) <= Power(2, m + k)}
<1>1. 0 \in S
  BY PowerType
<1>2. ASSUME NEW k \in Nat, k \in S PROVE k + 1 \in S
  <2> DEFINE j == m + k
  <2>1. j \in Nat /\ j + 1 = m + (k + 1) /\ 2 \in Nat
    OBVIOUS
  <2> HIDE DEF j
  <2>2. Power(2, j + 1) = 2 * Power(2, j) /\ Power(2, m) \in Nat /\ Power(2, j) \in Nat
    BY <2>1, PowerEquation, PowerType
  <2>3. Power(2, m) <= Power(2, j)
    BY <1>2 DEF j
  <2>4. Power(2, m) <= Power(2, m + (k + 1))
    BY <2>1, <2>2, <2>3
  <2>5. QED
    BY <2>4
<1>3. Nat \subseteq S
  <2> HIDE DEF S
  <2>1. QED
    BY <1>1, <1>2, NatSetInduction
<1>4. n - m \in S /\ m + (n - m) = n
  <2>1. n - m \in Nat /\ m + (n - m) = n
    OBVIOUS
  <2> HIDE DEF S
  <2>2. QED
    BY <1>3, <2>1
<1>5. QED
  BY <1>4

-----------------------------------------------------------------------------
(* The loss of a logarithmic scheme.                                          *)

\* The half-integers below the logarithm of p.
Halves(s, p) == {k \in 0..Initial(s) : 2 * Power(2, k) * Power(2, k) < p * p}

LEMMA HalvesCount ==
    ASSUME NEW s \in Scheme, NEW p
    PROVE  IsFiniteSet(Halves(s, p)) /\ Cardinality(Halves(s, p)) \in Nat
<1>1. Initial(s) \in Int
  BY DEF Initial, Scheme
<1>2. IsFiniteSet(0..Initial(s))
  BY <1>1, FS_Interval
<1>3. QED
  BY <1>2, FS_Subset, FS_CardinalityType DEF Halves

\* The rounded loss is a number ...
LEMMA LogLossType ==
    ASSUME NEW s \in Scheme, NEW n \in Nat
    PROVE  LogLoss(s, n) \in Nat
BY HalvesCount DEF LogLoss, Halves

\* ... that grows with the number of solvers ...
LEMMA LogLossGrows ==
    ASSUME NEW s \in Scheme, s.decay \in Nat, NEW m \in Nat, NEW n \in Nat, m <= n
    PROVE  LogLoss(s, m) <= LogLoss(s, n)
<1> DEFINE p == Power(m + 1, s.decay)
           q == Power(n + 1, s.decay)
<1>1. p \in Nat /\ q \in Nat /\ p <= q
  <2>1. m + 1 \in Nat /\ n + 1 \in Nat /\ m + 1 <= n + 1
    OBVIOUS
  <2>2. QED
    BY <2>1, PowerType, PowerBase
<1> HIDE DEF p, q
<1>2. p * p <= q * q /\ p * p \in Int /\ q * q \in Int
  BY <1>1, ProductGrows
<1>3. Halves(s, p) \subseteq Halves(s, q)
  <2>1. ASSUME NEW k \in Halves(s, p) PROVE k \in Halves(s, q)
    <3>1. Initial(s) \in Int /\ k \in Nat /\ Power(2, k) \in Nat
      BY PowerType DEF Halves, Initial, Scheme
    <3> DEFINE x == 2 * Power(2, k) * Power(2, k)
    <3>2. x \in Int /\ x < p * p
      BY <3>1 DEF Halves
    <3> HIDE DEF x
    <3>3. x < q * q
      BY <1>2, <3>2
    <3>4. QED
      BY <3>3 DEF Halves, x
  <2>2. QED
    BY <2>1
<1>4. QED
  BY <1>3, HalvesCount, FS_Subset DEF LogLoss, Halves, p, q

\* ... and is no more than the logarithm, wherever that is an integer or less.
LEMMA LogLossBound ==
    ASSUME NEW s \in Scheme, s.decay \in Nat, NEW n \in Nat, NEW m \in Nat,
           Power(n + 1, s.decay) <= Power(2, m)
    PROVE  LogLoss(s, n) <= m
<1> DEFINE p == Power(n + 1, s.decay)
<1>1. p \in Nat /\ p > 0 /\ p <= Power(2, m)
  <2>1. n + 1 \in Nat /\ n + 1 > 0
    OBVIOUS
  <2>2. QED
    BY <2>1, PowerType
<1> HIDE DEF p
<1>2. ASSUME NEW k \in Halves(s, p) PROVE k \in 0..(m - 1)
  <2>1. Initial(s) \in Int /\ k \in Nat /\ Power(2, k) \in Nat /\ Power(2, m) \in Nat
    BY PowerType DEF Halves, Initial, Scheme
  <2>2. ASSUME m <= k PROVE FALSE
    <3>1. p <= Power(2, k)
      BY <1>1, <2>1, <2>2, PowerExponent
    <3> DEFINE q == Power(2, k)
    <3>2. 2 * q * q < p * p /\ q \in Nat /\ p <= q
      BY <2>1, <3>1 DEF Halves
    <3> HIDE DEF q
    <3>3. p * p <= q * q /\ q * q > 0 /\ 2 * q * q = q * q + q * q
      BY <1>1, <3>2
    <3>4. QED
      BY <1>1, <3>2, <3>3
  <2>3. QED
    BY <2>1, <2>2
<1>3. /\ Halves(s, p) \subseteq 0..(m - 1) /\ IsFiniteSet(0..(m - 1))
      /\ Cardinality(0..(m - 1)) = m
  <2>1. 0 \in Int /\ m - 1 \in Int /\ (0 > m - 1 => m = 0) /\ (m - 1) - 0 + 1 = m
    OBVIOUS
  <2>2. QED
    BY <1>2, <2>1, FS_Interval
<1>4. Cardinality(Halves(s, p)) <= m
  BY <1>3, FS_Subset
<1>5. QED
  BY <1>4 DEF LogLoss, Halves, p

-----------------------------------------------------------------------------
(* The value.                                                                 *)

\* CurrentValue answers an integer for every scheme and every number of solvers.
LEMMA ValueType ==
    ASSUME NEW s \in Scheme, NEW n \in Nat
    PROVE  CurrentValue(s, n) \in Int
<1>1. Initial(s) \in Int /\ Floor(s) \in Int /\ s.decay \in Int
  BY DEF Initial, Floor, Scheme
<1>2. Loss(s, n) \in Int
  BY <1>1, LogLossType DEF Loss
<1>3. QED
  BY <1>1, <1>2 DEF CurrentValue

\* The loss grows with the number of solvers, and as long as the floor is not reached
\* it is no more than the distance to it, rounding included.
LEMMA LossGrows ==
    ASSUME NEW s \in Scheme, s.decay \in Nat, NEW m \in Nat, NEW n \in Nat, m <= n
    PROVE  /\ Loss(s, m) \in Nat /\ Loss(s, m) <= Loss(s, n)
           /\ BelowFloor(s, m) => BelowFloor(s, n)
           /\ ~BelowFloor(s, n) => Loss(s, n) <= Initial(s) - Floor(s)
<1>1. Initial(s) \in Int /\ Floor(s) \in Int
  BY DEF Initial, Floor, Scheme
<1>2. CASE s.function = "logarithmic"
  <2> DEFINE p == Power(m + 1, s.decay)
             q == Power(n + 1, s.decay)
             d == Initial(s) - Floor(s)
  <2>1. p \in Nat /\ q \in Nat /\ p <= q
    <3>1. m + 1 \in Nat /\ n + 1 \in Nat /\ m + 1 <= n + 1
      OBVIOUS
    <3>2. QED
      BY <3>1, PowerType, PowerBase
  <2>2. d \in Nat => Power(2, d) \in Nat
    BY PowerType
  <2>3. BelowFloor(s, m) <=> d \notin Nat \/ p > Power(2, d)
    BY <1>1, <1>2 DEF BelowFloor
  <2>4. BelowFloor(s, n) <=> d \notin Nat \/ q > Power(2, d)
    BY <1>1, <1>2 DEF BelowFloor
  <2>5. d \in Nat /\ q <= Power(2, d) => LogLoss(s, n) <= d
    BY LogLossBound
  <2>6. LogLoss(s, m) \in Nat /\ LogLoss(s, m) <= LogLoss(s, n)
    BY LogLossType, LogLossGrows
  <2> HIDE DEF p, q
  <2>7. QED
    BY <1>1, <1>2, <2>1, <2>2, <2>3, <2>4, <2>5, <2>6 DEF Loss
<1>3. CASE s.function # "logarithmic"
  <2>1. s.decay * m \in Nat /\ s.decay * n \in Nat /\ s.decay * m <= s.decay * n
    BY ProductGrows
  <2>2. QED
    BY <1>1, <1>3, <2>1 DEF Loss, BelowFloor
<1>4. QED
  BY <1>2, <1>3

\* The value never rises with the number of solvers, whatever the rounding does near
\* the floor, unless a challenge starts below its floor: the first decayed value is
\* then the floor itself.
THEOREM ValueFalls ==
    ASSUME NEW s \in Scheme, Floor(s) <= Initial(s),
           NEW m \in Nat, NEW n \in Nat, m <= n
    PROVE  CurrentValue(s, n) <= CurrentValue(s, m)
<1>1. /\ Initial(s) \in Int /\ Floor(s) \in Int /\ s.decay \in Int
      /\ Floor(s) > 0 /\ Initial(s) > 0
  BY DEF Initial, Floor, Scheme
<1>2. CASE s.decay > 0
  <2>1. s.decay \in Nat
    BY <1>1, <1>2
  <2>2. /\ Loss(s, m) \in Nat /\ Loss(s, n) \in Nat /\ Loss(s, m) <= Loss(s, n)
        /\ BelowFloor(s, m) => BelowFloor(s, n)
        /\ ~BelowFloor(s, m) => Loss(s, m) <= Initial(s) - Floor(s)
        /\ ~BelowFloor(s, n) => Loss(s, n) <= Initial(s) - Floor(s)
    BY <2>1, LossGrows
  <2>3. QED
    BY <1>1, <1>2, <2>2 DEF CurrentValue, Decays
<1>3. CASE ~(s.decay > 0)
  BY <1>1, <1>3 DEF CurrentValue, Decays
<1>4. QED
  BY <1>2, <1>3
=============================================================================
