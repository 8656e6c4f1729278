------------------------------- MODULE MCPty -------------------------------
(* Small instances of Pty for TLC.                                         *)
EXTENDS Pty
Symmetry == Permutations(Process \ {FirstProcess})
=============================================================================
