------------------------------ MODULE MCIsland ------------------------------
(* Instances of IslandClients for TLC. *)
EXTENDS IslandClients

MCKindOrder == <<"audioIn">>
=============================================================================
