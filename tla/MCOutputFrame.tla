--------------------------- MODULE MCOutputFrame ---------------------------
(***************************************************************************)
(* Instances of OutputFrame for TLC.                                        *)
(***************************************************************************)
EXTENDS OutputFrame

Column(x) == [finite |-> TRUE, left |-> 2 * x, top |-> 0, right |-> 2 * x + 2, bottom |-> 2]

\* A composition of three pixels in a row; an output shows the first two or the
\* last one.
LeftAndRight == {[left |-> 0, top |-> 0, right |-> 2, bottom |-> 1],
                 [left |-> 2, top |-> 0, right |-> 3, bottom |-> 1]}

\* A frame changes the first pixel, or the last one, which the left box misses,
\* or both ends at once.
PartialReports == {<<Column(0)>>, <<Column(2)>>, <<Column(0), Column(2)>>}

=============================================================================
