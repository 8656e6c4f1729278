------------------------------ MODULE MCSpawn ------------------------------
(* Small instances of Spawn for TLC.                                       *)
EXTENDS Spawn
=============================================================================
