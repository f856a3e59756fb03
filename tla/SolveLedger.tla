---------------------------- MODULE SolveLedger ----------------------------
(***************************************************************************)
(* What the solves table promises (internal/store/scoring.go and           *)
(* migrations/0002): a team is paid for a challenge once, a row is never   *)
(* changed or removed, and its points are the value the challenge had for  *)
(* some number of solvers not above the present one.  The submit pipeline  *)
(* of Submission implements this specification; Catalog and Scoreboard     *)
(* read it.                                                                *)
(***************************************************************************)
EXTENDS Scoring

CONSTANTS Teams,        \* rows of the teams table
          Challenges,   \* names of Challenge resources
          SchemeOf      \* spec.value and spec.scoring of each challenge

ASSUME SchemeAssumption == SchemeOf \in [Challenges -> Scheme]

VARIABLE solves         \* the solves table, a set of rows

\* "at" tells the order in which the rows were committed: the number of rows before
\* it.  The column created_at is another matter (Scoreboard).
Row == [team : Teams, challenge : Challenges, points : Int, at : Nat]

SolvesOf(c) == {s \in solves : s.challenge = c}

HasSolved(t, c) == \E s \in solves : s.team = t /\ s.challenge = c

Award(t, c, n) ==
    /\ ~HasSolved(t, c)
    /\ n \in 0..Cardinality(SolvesOf(c))
    /\ solves' = solves \union
         {[team |-> t, challenge |-> c, points |-> CurrentValue(SchemeOf[c], n),
           at |-> Cardinality(solves)]}

LedgerInit == solves = {}

LedgerNext ==
    \E t \in Teams, c \in Challenges :
        \E n \in 0..Cardinality(SolvesOf(c)) : Award(t, c, n)

LedgerSpec == LedgerInit /\ [][LedgerNext]_solves
=============================================================================
