---------------------------- MODULE MCSwapChain ----------------------------
(***************************************************************************)
(* An instance of SwapChain for TLC.  The composition is one pixel: which   *)
(* damage a frame reports does not matter here (DamageHistory.tla and       *)
(* OutputFrame.tla are about that).                                         *)
(***************************************************************************)
EXTENDS SwapChain

\* flutter_composition_damage: one rectangle, the whole composition.
OneFullRect == {<<[finite |-> TRUE, left |-> 0, top |-> 0,
                   right |-> 2 * Width, bottom |-> 2 * Height]>>}

\* All frames are drawn in one GL context, whose work ends in the order it was
\* submitted.  Next allows any order; this keeps the instance small.
SignalInOrder ==
  \E s \in Slots :
    /\ \A t \in Slots : ready_fence[t] = "pending" => frame_serial[s] <= frame_serial[t]
    /\ Signal(s)

MCNext == StartWrite \/ Present \/ Read \/ SignalInOrder \/ RequestStop

MCSpec == Init /\ [][MCNext]_vars /\ Fairness
=============================================================================
