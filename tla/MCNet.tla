------------------------------- MODULE MCNet -------------------------------
(* One call of NET_PING on a network that may lose every frame, for TLC.      *)
EXTENDS Net

Spec == NetInit /\ [][NetNext]_netVars /\ NetFairness
=============================================================================
