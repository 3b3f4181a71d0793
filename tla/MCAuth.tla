------------------------------- MODULE MCAuth -------------------------------
(* Auth instantiated for TLC.  Registration and refresh requests are     *)
(* interchangeable among themselves.                                      *)
EXTENDS Auth

MCSymmetry == Permutations(Regs) \cup Permutations(Rots)
=============================================================================
