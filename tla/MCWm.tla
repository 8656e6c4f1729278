-------------------------------- MODULE MCWm --------------------------------
(* A small instance of the display server and the window manager for TLC.   *)
EXTENDS Wm
Alike == Permutations(App)
=============================================================================
