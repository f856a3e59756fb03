---------------------------- MODULE MCLaunching ----------------------------
(***************************************************************************)
(* Two teammates, one of whom asks from two tabs: with an instance for     *)
(* each of them (web), or one that the team shares (pwn).                  *)
(***************************************************************************)
EXTENDS Launching, TLC

CONSTANTS red, ann, bob, pwn, web, a1, a2, b1

MCClaims == [q \in Asks |-> [user |-> IF q = b1 THEN bob ELSE ann, team |-> red]]
MCMode == [c \in Challenges |-> "dynamic"]
MCShared == [c \in Challenges |-> c = pwn]
MCDestroy == [c \in Challenges |-> FALSE]
=============================================================================
