-------------------------- MODULE MCFrameCallbacks --------------------------
(* Two outputs side by side; windows on the left one or on the right one.      *)
EXTENDS FrameCallbacks

MCLayout == [o \in Outputs |-> IF o = "left" THEN [left |-> 0, right |-> 2]
                                             ELSE [left |-> 2, right |-> 4]]
MCPlaces == {[left |-> 0, right |-> 1], [left |-> 3, right |-> 4]}
=============================================================================
