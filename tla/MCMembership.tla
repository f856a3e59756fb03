---------------------------- MODULE MCMembership ----------------------------
(***************************************************************************)
(* Two users and two team names.  Ann has two tabs, in two browsers; Bob   *)
(* has one.                                                                *)
(***************************************************************************)
EXTENDS Membership, TLC

CONSTANTS ann, bob, laptop, phone, bobs, a1, a2, b1, red, blue

MCPlayerOf == laptop :> ann @@ phone :> ann @@ bobs :> bob
MCTwoBrowsers == a1 :> laptop @@ a2 :> phone @@ b1 :> bobs
=============================================================================
