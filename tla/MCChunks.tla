------------------------------ MODULE MCChunks ------------------------------
(***************************************************************************)
(* A rover on a road through a narrow part of the world.                   *)
(***************************************************************************)
EXTENDS Chunks

MCRoam == {<<x, 0>> : x \in -1..1}
=============================================================================
