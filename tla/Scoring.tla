------------------------------ MODULE Scoring ------------------------------
(***************************************************************************)
(* The point value of a challenge (internal/engine/scoring.go).            *)
(*                                                                         *)
(* The Go code computes in float64 and rounds.  The model stays in the     *)
(* integers: with  p  the power (n + 1)^decay, whose logarithm to the base *)
(* 2 is  decay * log2(n + 1),  comparing  initial - log2(p)  with an       *)
(* integer m is comparing p with 2^(initial - m), and the rounded loss is  *)
(* the number of half-integers k + 1/2 strictly below log2(p), those with  *)
(* 2 * (2^k)^2 < p^2.  A tie is impossible there: p^2 is never an odd      *)
(* power of two.                                                           *)
(***************************************************************************)
EXTENDS Integers, FiniteSets

Scheme == [initial : Int, value : Int, decay : Int, minimum : Int,
           function : {"linear", "logarithmic"}]

\* spec.scoring.initial, or spec.value for a challenge without decay.
Initial(s) == IF s.initial > 0 THEN s.initial ELSE s.value

Floor(s) == IF s.minimum > 0 THEN s.minimum ELSE 1

Power(b, n) == LET f[i \in Nat] == IF i = 0 THEN 1 ELSE b * f[i - 1] IN f[n]

LogLoss(s, n) ==
    LET p == Power(n + 1, s.decay)
    IN  Cardinality({k \in 0..Initial(s) : 2 * Power(2, k) * Power(2, k) < p * p})

Loss(s, n) == IF s.function = "logarithmic" THEN LogLoss(s, n) ELSE s.decay * n

\* The test  value < float64(minimum).
BelowFloor(s, n) ==
    IF s.function = "logarithmic"
      THEN Initial(s) < Floor(s) \/ Power(n + 1, s.decay) > Power(2, Initial(s) - Floor(s))
      ELSE Initial(s) - s.decay * n < Floor(s)

Decays(s, n) == Initial(s) > 0 /\ s.decay > 0 /\ n > 0

\* What the challenge is worth once n teams have solved it.
CurrentValue(s, n) ==
    IF Decays(s, n)
      THEN IF BelowFloor(s, n) THEN Floor(s) ELSE Initial(s) - Loss(s, n)
      ELSE IF Initial(s) <= 0 THEN 0 ELSE Initial(s)
=============================================================================
