------------------------------- MODULE MCUsb -------------------------------
(* Keyboard and mouse alone, for the run in which the keyboard reports more   *)
(* keys than it can tell apart.                                             *)
EXTENDS UsbHid

Init == EventInit /\ HidInit

Spec ==
    /\ Init /\ [][HidNext]_<<hidVars, eventVars>>
    /\ HidFairness
=============================================================================
