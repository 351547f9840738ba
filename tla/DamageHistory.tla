--------------------------- MODULE DamageHistory ---------------------------
(***************************************************************************)
(* The damage journal of a swapchain (output/damage_history.hpp): a bounded *)
(* list of per-frame damage rectangles from which the damage between any    *)
(* two frame serials is rebuilt.  The module defines the journal as a       *)
(* value with the operators of class DamageHistory; OutputFrame.tla and     *)
(* SwapChain.tla make it part of a state machine.                           *)
(*                                                                          *)
(* Units: engine rectangles are doubles, here integers that count HALF      *)
(* pixels, so that floor and ceil of a fractional coordinate are real       *)
(* roundings.  Journal rectangles are whole pixels, as in the code.         *)
(***************************************************************************)
EXTENDS Integers, Sequences

CONSTANTS
  Width, Height,   \* size of the composition in pixels
  Capacity         \* entries the journal keeps (256 in the code)

ASSUME DamageAssumption ==
  /\ Width \in Nat
  /\ Height \in Nat
  /\ Capacity \in Nat \ {0}

Reasons == {"None", "Missing", "Invalid", "FirstUse", "HistoryLost", "Generation",
            "Forced", "Readback"}

Rects == [left : 0..Width, top : 0..Height, right : 0..Width, bottom : 0..Height]

Damages == [rect : Rects, reason : Reasons]

NoDamage == [rect |-> [left |-> 0, top |-> 0, right |-> 0, bottom |-> 0],
             reason |-> "None"]

IsEmpty(damage) ==
  \/ damage.rect.right <= damage.rect.left
  \/ damage.rect.bottom <= damage.rect.top

Smaller(a, b) == IF a <= b THEN a ELSE b
Larger(a, b) == IF a >= b THEN a ELSE b

\* Damage::unite: the bounding box, and the last reason that says something.
Unite(damage, other) ==
  LET a == damage.rect
      b == other.rect
  IN [rect |->
        IF IsEmpty(other) THEN a
        ELSE IF IsEmpty(damage) THEN b
        ELSE [left |-> Smaller(a.left, b.left), top |-> Smaller(a.top, b.top),
              right |-> Larger(a.right, b.right), bottom |-> Larger(a.bottom, b.bottom)],
      reason |-> IF other.reason = "None" THEN damage.reason ELSE other.reason]

\* The damages of a list, united one after the other.
United(damages) ==
  LET united[n \in 0..Len(damages)] ==
        IF n = 0 THEN NoDamage ELSE Unite(united[n - 1], damages[n])
  IN united[Len(damages)]

Intersects(damage, box) ==
  /\ ~IsEmpty(damage)
  /\ damage.rect.left < box.right /\ box.left < damage.rect.right
  /\ damage.rect.top < box.bottom /\ box.top < damage.rect.bottom

Full(reason) ==
  [rect |-> [left |-> 0, top |-> 0, right |-> Width, bottom |-> Height],
   reason |-> reason]

-----------------------------------------------------------------------------
(* Normalizing what the engine reports                                     *)

Clamped(v, high) == Smaller(Larger(v, 0), high)
FloorPixel(half) == half \div 2
CeilPixel(half) == -((-half) \div 2)

Malformed(r) == ~r.finite \/ r.right < r.left \/ r.bottom < r.top

\* The whole pixels an engine rectangle touches, clamped to the composition.
Snapped(r) ==
  IF r.right = r.left \/ r.bottom = r.top
  THEN NoDamage
  ELSE [rect |-> [left |-> Clamped(FloorPixel(r.left), Width),
                  top |-> Clamped(FloorPixel(r.top), Height),
                  right |-> Clamped(CeilPixel(r.right), Width),
                  bottom |-> Clamped(CeilPixel(r.bottom), Height)],
        reason |-> "None"]

Normalize(rects) ==
  IF rects = << >> THEN Full("Missing")
  ELSE IF \E i \in DOMAIN rects : Malformed(rects[i]) THEN Full("Invalid")
  ELSE United([i \in DOMAIN rects |-> Snapped(rects[i])])

-----------------------------------------------------------------------------
(* The journal                                                             *)

NewJournal(generation) == [generation |-> generation, latest |-> 0, entries |-> << >>]

Publish(journal, serial, damage) ==
  LET longer == Append(journal.entries, [serial |-> serial, damage |-> damage])
  IN [journal EXCEPT
        !.entries = IF Len(longer) > Capacity THEN Tail(longer) ELSE longer,
        !.latest = serial]

\* DamageHistory::since: what changed in frames after+1..through.
Since(journal, generation, after, through) ==
  IF generation # journal.generation THEN Full("Generation")
  ELSE IF after = 0 THEN Full("FirstUse")
  ELSE IF through < after \/ through > journal.latest THEN Full("Invalid")
  ELSE IF through = after THEN NoDamage
  ELSE IF journal.entries = << >> \/ after < Head(journal.entries).serial - 1
       THEN Full("HistoryLost")
  ELSE United([i \in DOMAIN journal.entries |->
                 LET e == journal.entries[i]
                 IN IF after < e.serial /\ e.serial <= through THEN e.damage ELSE NoDamage])
=============================================================================
