------------------------------ MODULE MCEngine ------------------------------
EXTENDS Engine, TLC

CONSTANTS red, ann, bob, pwn, r1, a1, b1

MCTeams == {red}
MCUsers == {ann, bob}
MCChallenges == {pwn}
MCClaims == a1 :> [user |-> ann, team |-> red] @@ b1 :> [user |-> bob, team |-> red]
MCMode == pwn :> "dynamic"
MCTogether == pwn :> TRUE
MCDestroy == pwn :> TRUE
MCSchemeOf ==
    pwn :> [initial |-> 4, value |-> 0, decay |-> 1, minimum |-> 2, function |-> "linear"]

K(u, f) == [user |-> u, team |-> red, challenge |-> pwn, flag |-> f]
MCCalls == {K(ann, 1), K(bob, 2)}
=============================================================================
