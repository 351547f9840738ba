-------------------------- MODULE MCResizeRequests --------------------------
(* ResizeRequests with an X11 window and an xdg window, and requests with   *)
(* and without a place, one of them empty.                                  *)
EXTENDS ResizeRequests

CONSTANTS x11, xdg

MCRequests == {[width |-> 1, placed |-> TRUE, x |-> 3], [width |-> 2, placed |-> TRUE, x |-> 0],
               [width |-> 1, placed |-> FALSE, x |-> 0], [width |-> 0, placed |-> FALSE, x |-> 0]}
=============================================================================
