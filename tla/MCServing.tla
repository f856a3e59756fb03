----------------------------- MODULE MCServing -----------------------------
(***************************************************************************)
(* One attachment whose challenge names one of two digests, a tag that is  *)
(* pushed to either blob or to nothing, a player in a team and one without *)
(* and every way to present a session.                                     *)
(***************************************************************************)
EXTENDS Serving, TLC

CONSTANTS r1, r2, ann, cat, good, alone, handout, tag, b1, b2, d1, d2

MCClaimsOf == good :> [user |-> ann, team |-> "red"] @@ alone :> [user |-> cat, team |-> Nothing]
MCSha == b1 :> d1 @@ b2 :> d2

To(route, bearer, cookie, parent) ==
    [route |-> route, bearer |-> bearer, cookie |-> cookie, file |-> handout, parent |-> parent]

MCAsks ==
    {To("attachment", Nothing, good, "upstream"), To("attachment", alone, good, Nothing),
     To("attachment", "forged", good, Nothing), To("team", alone, Nothing, "upstream"),
     To("team", Nothing, good, Nothing), To("verify", Nothing, good, Nothing),
     To("healthz", Nothing, Nothing, Nothing), To("nowhere", Nothing, good, Nothing)}
=============================================================================
