------------------------------- MODULE MCBoot -------------------------------
(***************************************************************************)
(* Two replicas, three migrations and two seeds to choose from.              *)
(***************************************************************************)
EXTENDS Boot

CONSTANTS east, west, s1, s2
=============================================================================
