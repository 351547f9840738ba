------------------------------ MODULE MCPacing ------------------------------
(* The scheduler with its clock, and its callers without one.  They share no   *)
(* variable and run beside each other: one moves while the other has not.      *)
EXTENDS FramePacing, VsyncScheduler

TwoOutputs == {"laptop", "monitor"}
DifferentRates == [o \in TwoOutputs |-> IF o = "laptop" THEN 60 ELSE 144]

ClockStarts == ClockInit /\ now = 1

MCInit == Init /\ ClockStarts

MCNext ==
  \/ Init /\ ClockNext /\ UNCHANGED vars
  \/ ClockStarts /\ Next /\ UNCHANGED clockVars

MCSpec == MCInit /\ [][MCNext]_<<vars, clockVars>> /\ Fairness
=============================================================================
