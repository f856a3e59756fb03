---------------------------- MODULE MCSubmission ----------------------------
EXTENDS Submission, TLC

CONSTANTS red, blue, ann, bob, eve, static, dynamic, r1, r2, r3

MCTeams == {red, blue}
MCUsers == {ann, bob, eve}
MCChallenges == {static, dynamic}
MCMode == static :> "static" @@ dynamic :> "dynamic"
MCShared == static :> FALSE @@ dynamic :> TRUE
MCDestroy == static :> FALSE @@ dynamic :> TRUE
MCSchemeOf ==
    (static :> [initial |-> 5, value |-> 0, decay |-> 2, minimum |-> 1, function |-> "linear"])
    @@ (dynamic :> [initial |-> 4, value |-> 0, decay |-> 1, minimum |-> 2, function |-> "logarithmic"])

K(u, t, c, f) == [user |-> u, team |-> t, challenge |-> c, flag |-> f]
MCCalls == {K(ann, red, static, 1), K(bob, red, static, -1), K(eve, blue, static, 1),
            K(ann, red, dynamic, 1), K(eve, blue, dynamic, 2), K(eve, NoTeam, static, 1),
            K(bob, red, dynamic, 0)}

\* Submit never looks at the expiry of an instance, and an object can vanish for
\* other reasons: the clock is left to MCEngine.
NoExpiry == \A n \in Names : ~inst[n].expired

Symmetry == Permutations(Requests)
=============================================================================
