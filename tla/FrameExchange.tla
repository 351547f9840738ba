--------------------------- MODULE FrameExchange ---------------------------
(***************************************************************************)
(* What the composition swapchain promises, without slots, fences, locks or *)
(* threads: frames 1, 2, 3, ... are published; a frame completes when the   *)
(* GPU has finished it; a reader acquires one frame at a time and what it   *)
(* holds does not change until it lets go.  Readers are handed completed    *)
(* frames, the newest one if it is complete, and never go back behind a     *)
(* completed frame handed out before or still held; only while no completed *)
(* frame was ever handed out, and none is held, may a reader get the        *)
(* newest, still incomplete one.                                            *)
(***************************************************************************)
EXTENDS Integers

CONSTANT Leases

NoFrame == 0

VARIABLES
  published,   \* number of frames published
  complete,    \* those the GPU has finished
  held,        \* the frame each lease holds, NoFrame if none
  newest_read  \* the newest completed frame handed out

vars == <<published, complete, held, newest_read>>

Init ==
  /\ published = 0
  /\ complete = {}
  /\ held = [h \in Leases |-> NoFrame]
  /\ newest_read = 0

PublishFrame ==
  /\ published' = published + 1
  /\ complete' \in {complete, complete \cup {published + 1}}
  /\ UNCHANGED <<held, newest_read>>

Complete(f) ==
  /\ f \in 1..published
  /\ complete' = complete \cup {f}
  /\ UNCHANGED <<published, held, newest_read>>

\* The completed frames a reader may be handed, and the incomplete one.
Selectable ==
  IF published \in complete THEN {published}
  ELSE {f \in complete : /\ f >= newest_read
                         /\ \A h \in Leases : held[h] \in complete => f >= held[h]}
SelectableIncomplete ==
  IF /\ published > 0
     /\ newest_read = 0
     /\ \A h \in Leases : held[h] \notin complete
  THEN {published} \ complete
  ELSE {}

AcquireCompleted(h, f) ==
  /\ held[h] = NoFrame
  /\ f \in Selectable
  /\ held' = [held EXCEPT ![h] = f]
  /\ newest_read' = f
  /\ UNCHANGED <<published, complete>>

AcquireIncomplete(h, f) ==
  /\ held[h] = NoFrame
  /\ f \in SelectableIncomplete
  /\ held' = [held EXCEPT ![h] = f]
  /\ UNCHANGED <<published, complete, newest_read>>

\* A second lease on a frame already held.
Share(h, g) ==
  /\ held[h] = NoFrame
  /\ held[g] # NoFrame
  /\ held' = [held EXCEPT ![h] = held[g]]
  /\ UNCHANGED <<published, complete, newest_read>>

Drop(h) ==
  /\ held[h] # NoFrame
  /\ held' = [held EXCEPT ![h] = NoFrame]
  /\ UNCHANGED <<published, complete, newest_read>>

Next ==
  \/ PublishFrame
  \/ \E f \in 1..published : Complete(f)
  \/ \E h \in Leases, f \in 1..published : AcquireCompleted(h, f) \/ AcquireIncomplete(h, f)
  \/ \E h \in Leases : Drop(h)
  \/ \E h, g \in Leases : Share(h, g)

Spec == Init /\ [][Next]_vars
=============================================================================
