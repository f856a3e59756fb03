----------------------------- MODULE MCCatalog -----------------------------
(***************************************************************************)
(* Three teams and two challenges: one whose rounded value reaches its     *)
(* floor with the third solve, and one that is worth the same to everyone, *)
(* so that totals do tie.                                                  *)
(***************************************************************************)
EXTENDS Catalog, TLC

CONSTANTS t1, t2, t3, decaying, flat, v1

MCTeams == {t1, t2, t3}
MCChallenges == {decaying, flat}
MCSchemeOf ==
    (decaying :> [initial |-> 6, value |-> 0, decay |-> 3, minimum |-> 1, function |-> "logarithmic"])
    @@ (flat :> [initial |-> 0, value |-> 2, decay |-> 0, minimum |-> 0, function |-> "linear"])
MCTeamOf == v1 :> t1
MCNameOrder == t1 :> 1 @@ t2 :> 2 @@ t3 :> 3

\* On the flat challenge t1 and t2 tie in points and in time, but not with t3; and a
\* solve may be committed before one that is stamped earlier, of its team or another.
MCCreatedAt ==
    [k \in MCTeams \X MCChallenges |->
        IF k = <<t3, flat>> THEN 3 ELSE IF k[2] = decaying THEN 2 ELSE 1]

\* Four of the six rows: two teams may tie with one row or with two each, in time or
\* not, beside a third that has none.
FewSolves == Cardinality(solves) <= 4
=============================================================================
