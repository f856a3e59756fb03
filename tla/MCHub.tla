-------------------------------- MODULE MCHub --------------------------------
(***************************************************************************)
(* One replica with two connections, of which one may get stuck: replicas  *)
(* share nothing but the notifications.                                    *)
(***************************************************************************)
EXTENDS Hub, TLC

CONSTANTS east, c1, c2

MCReplicaOf == c1 :> east @@ c2 :> east
=============================================================================
