----------------------------- MODULE MCWindows -----------------------------
(* Windows, for TLC.  The two xdg toplevels are alike, and no property is      *)
(* about liveness.                                                            *)
EXTENDS Windows, TLC

Symmetry == Permutations(XdgViews)
=============================================================================
