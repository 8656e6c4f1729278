----------------------------- MODULE MCVirtio -----------------------------
(***************************************************************************)
(* The disk driver for TLC, with a device that may outlast the polling.      *)
(***************************************************************************)
EXTENDS VirtioBlk
===========================================================================
