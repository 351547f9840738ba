----------------------- MODULE MCOutputConfiguration -----------------------
(* OutputConfiguration with two modes, one of them without a rate, and two   *)
(* places, so that two outputs fit side by side but not far apart.           *)
EXTENDS OutputConfiguration, TLC

CONSTANTS a, b

MCModes == {[width |-> 1, refresh |-> 60], [width |-> 2, refresh |-> 0]}
MCPositions == {0, 1}
MCSymmetry == Permutations(Outputs)
=============================================================================
