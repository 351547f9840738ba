-------------------------- MODULE MCSurfaceCommit --------------------------
(* A commit's way to the screen, and the frames that answer its client.  The   *)
(* two share no variable and run beside each other: one moves while the other  *)
(* has not.                                                                    *)
EXTENDS SurfaceCommit, MCFrameCallbacks

MCInit == Init /\ CallbackInit

MCNext ==
  \/ CallbackInit /\ Next /\ UNCHANGED callbackVars
  \/ Init /\ CallbackNext /\ UNCHANGED vars

MCSpec == MCInit /\ [][MCNext]_<<vars, callbackVars>> /\ CallbackFairness
=============================================================================
